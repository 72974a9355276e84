------------------------ MODULE CredentialLinkStore ------------------------
(***************************************************************************)
(* The credential_tokens table and the statements of                       *)
(* CredentialTokenService on it.  A link is the random token of its URL;   *)
(* the table keeps its SHA-256 and the secret encrypted, both injective.   *)
(* expired stands for expiresAt being past.                                *)
(***************************************************************************)

(* generate()'s INSERT. *)
Generate(links, l, c, secret, d) ==
  [k \in DOMAIN links \cup {l} |->
     IF k = l THEN [oauthClientId |-> c, secret |-> secret, data |-> d,
                    used |-> FALSE, expired |-> FALSE]
              ELSE links[k]]

(* consume()'s WHERE.  Slip: only the time is looked at. *)
Consumable_Used(link) == ~link.expired

Consumable(link) == ~link.used /\ ~link.expired

MarkUsed(links, l) == [links EXCEPT ![l].used = TRUE]
=============================================================================
