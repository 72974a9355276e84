------------------------- MODULE RefreshTokenStore -------------------------
(***************************************************************************)
(* The refresh_tokens table and the statements RefreshTokenService runs on *)
(* it.  A table is a function from the tokens stored in it (the code       *)
(* stores their SHA-256, which is injective here) to rows; each operator   *)
(* is ONE SQL statement, hence atomic.  Who runs the statements, and what  *)
(* happens between two of them, is in the modules that extend this one.    *)
(***************************************************************************)

(* consume()'s WHERE used = false AND revoked = false.  Slips: a statement *)
(* that forgets one of the two conditions.                                 *)
Consumable_Reused(row) == ~row.revoked
Consumable_Revoked(row) == ~row.used
Consumable(row) == ~row.used /\ ~row.revoked

FamilyOf(rows, f) == {t \in DOMAIN rows : rows[t].familyId = f}

(* INSERT of a row under a token hash that is not in the table. *)
Insert(rows, t, row) ==
  [u \in DOMAIN rows \cup {t} |-> IF u = t THEN row ELSE rows[u]]

(* UPDATE ... SET used = true for the one row of token t. *)
MarkUsed(rows, t) == [rows EXCEPT ![t].used = TRUE]

(* UPDATE ... SET revoked = true for a set of rows. *)
Revoke(rows, S) ==
  [t \in DOMAIN rows |-> IF t \in S THEN [rows[t] EXCEPT !.revoked = TRUE]
                                    ELSE rows[t]]
=============================================================================
