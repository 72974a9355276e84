---------------------------- MODULE OAuthClients ----------------------------
(***************************************************************************)
(* The client applications and the delivery of their secrets:              *)
(* OAuthClientService over the oauth_clients table and the pending secrets *)
(* in Redis, and CredentialTokenService, whose links show a secret to      *)
(* whoever opens the e-mail (public/credentials/script.js).  A new secret  *)
(* also goes, once, to the admin who asked for it, in the answer of create *)
(* or regenerateSecret.                                                    *)
(*                                                                         *)
(* A secret stands for itself and for its bcrypt hash.  What suspending    *)
(* and removing do to the students' sessions is in StudentSessions.        *)
(***************************************************************************)
EXTENDS CredentialLinkStore, EntityTable, Naturals

CONSTANTS
  Client,    \* ids, from a SERIAL: never given twice
  Secret,    \* each is random
  Data,      \* values of clientName and redirectUris
  Link,
  Request

VARIABLES
  clients,   \* the oauth_clients table
  pending,   \* Redis: pending[c] is under the key pending-secret:c
  links,     \* the credential_tokens table
  mailed,    \* the links that have reached somebody's inbox
  req,
  drawn,     \* history: the secrets that were generated
  accepted,  \* history: <<c, s>> when row c has had the secret s
  retired,   \* history: the ids of clients that were removed
  told,      \* history: how often each secret was in an admin's answer
  shown      \* history: how often each link's page has shown its secret

history == <<drawn, accepted, retired, told, shown>>
vars == <<clients, pending, links, mailed, req, history>>

Entity == [clientSecret: Secret, isActive: BOOLEAN, data: Data]

LinkRow == [oauthClientId: Client, secret: Secret, data: Data,
            used: BOOLEAN, expired: BOOLEAN]

Op == {"update", "regenerate", "suspend", "activate"}

Handler ==
  [at: {"idle"}]
    \cup [at: {"select", "insert"}, op: Op, id: Client, entity: Entity]
    \cup [at: {"update"}, op: Op, id: Client, entity: Entity,
          columns: SUBSET {"clientSecret", "isActive", "data"}]
    \cup [at: {"store", "respond", "findClient"}, id: Client, secret: Secret]
    \cup [at: {"generate"}, id: Client, secret: Secret, data: Data]
    \cup [at: {"remove"}, id: Client]
    \cup [at: {"mail", "answer"}, link: Link]

TypeOK ==
  /\ DOMAIN clients \subseteq Client /\ clients \in [DOMAIN clients -> Entity]
  /\ DOMAIN pending \subseteq Client /\ pending \in [DOMAIN pending -> Secret]
  /\ DOMAIN links \subseteq Link /\ links \in [DOMAIN links -> LinkRow]
  /\ mailed \subseteq DOMAIN links
  /\ req \in [Request -> Handler]
  /\ drawn \subseteq Secret /\ accepted \subseteq Client \X Secret
  /\ retired \subseteq Client
  /\ told \in [Secret -> Nat] /\ shown \in [Link -> Nat]

Idle == [at |-> "idle"]

Nothing == [x \in {} |-> <<>>]

Init ==
  /\ clients = Nothing /\ pending = Nothing /\ links = Nothing
  /\ mailed = {} /\ drawn = {} /\ accepted = {} /\ retired = {}
  /\ req = [r \in Request |-> Idle]
  /\ told = [s \in Secret |-> 0]
  /\ shown = [l \in Link |-> 0]

Become(r, h) == req' = [req EXCEPT ![r] = h]

At(r, label) == req[r].at = label

Put(f, x, v) == [y \in DOMAIN f \cup {x} |-> IF y = x THEN v ELSE f[y]]

Without(f, x) == [y \in DOMAIN f \ {x} |-> f[y]]

(* randomBytes. *)
NewSecret(s) ==
  /\ s \notin drawn
  /\ drawn' = drawn \cup {s}

(* The id that the table gives to a new row. *)
NewId(c) == c \notin DOMAIN clients \cup retired

(* A statement that writes the table: the column clientSecret is unique.   *)
Write(table) ==
  /\ \A b, c \in DOMAIN table :
       table[b].clientSecret = table[c].clientSecret => b = c
  /\ clients' = table
  /\ accepted' = accepted
       \cup {<<c, table[c].clientSecret>> : c \in DOMAIN table}

-----------------------------------------------------------------------------
(* create: a secret, its hash, the row, the pending secret under the id of *)
(* the row, and the answer, with the secret in it.                         *)
CreateSave(r, c, s, d) ==
  /\ At(r, "idle")
  /\ NewId(c)
  /\ NewSecret(s)
  /\ Write(InsertRow(clients, c,
                     [clientSecret |-> s, isActive |-> TRUE, data |-> d]))
  /\ Become(r, [at |-> "store", id |-> c, secret |-> s])
  /\ UNCHANGED <<pending, links, mailed, retired, told, shown>>

(* SET PX under the client's key.  Slip: one key for all. *)
PendingKey_Shared(c) == CHOOSE k \in Client : TRUE

PendingKey(c) == c

StorePendingSecret(r) ==
  /\ At(r, "store")
  /\ pending' = Put(pending, PendingKey(req[r].id), req[r].secret)
  /\ Become(r, [req[r] EXCEPT !.at = "respond"])
  /\ UNCHANGED <<clients, links, mailed, history>>

(* toCreatedResponseDto, which the admin's browser receives. *)
AnswerSecret(r) ==
  /\ At(r, "respond")
  /\ told' = [told EXCEPT ![req[r].secret] = @ + 1]
  /\ Become(r, Idle)
  /\ UNCHANGED <<clients, pending, links, mailed,
                 drawn, accepted, retired, shown>>

(* update, suspend, activate and regenerateSecret: findOne, the change to  *)
(* the entity, and (after bcrypt, or the revocation of the sessions) save. *)
FindToSave(r, c, op, entity) ==
  /\ At(r, "idle")
  /\ c \in DOMAIN clients
  /\ Become(r, [at |-> "select", op |-> op, id |-> c, entity |-> entity])
  /\ UNCHANGED <<clients, pending, links, mailed,
                 accepted, retired, told, shown>>

(* Object.assign(client, dto).  Slips: a dto with every column in it; an   *)
(* entity made of the dto alone.                                           *)
Assigned_Whole(entity, d) == [entity EXCEPT !.data = d, !.isActive = TRUE]

Assigned_Alone(entity, d) == [isActive |-> entity.isActive, data |-> d]

Assigned(entity, d) == [entity EXCEPT !.data = d]

UpdateClient(r, c, d) ==
  c \in DOMAIN clients
    /\ FindToSave(r, c, "update", Assigned(clients[c], d)) /\ UNCHANGED drawn

Suspend(r, c) ==
  c \in DOMAIN clients
    /\ FindToSave(r, c, "suspend", [clients[c] EXCEPT !.isActive = FALSE])
    /\ UNCHANGED drawn

Activate(r, c) ==
  c \in DOMAIN clients
    /\ FindToSave(r, c, "activate", [clients[c] EXCEPT !.isActive = TRUE])
    /\ UNCHANGED drawn

RegenerateSecret(r, c, s) ==
  c \in DOMAIN clients
    /\ FindToSave(r, c, "regenerate", [clients[c] EXCEPT !.clientSecret = s])
    /\ NewSecret(s)

(* save(client), and what follows it.  A row that has gone is inserted     *)
(* anew, under another id: the key is generated, so the INSERT leaves it   *)
(* out, and save gives the entity the new one.                             *)
Select(r) ==
  LET h == req[r] IN
  /\ At(r, "select")
  /\ Become(r, IF h.id \in DOMAIN clients
       THEN [at |-> "update", op |-> h.op, id |-> h.id, entity |-> h.entity,
             columns |-> Changed(clients, h.id, h.entity)]
       ELSE [h EXCEPT !.at = "insert"])
  /\ UNCHANGED <<clients, pending, links, mailed, history>>

Saved(r, id) ==
  /\ Become(r, IF req[r].op = "regenerate"
       THEN [at |-> "store", id |-> id, secret |-> req[r].entity.clientSecret]
       ELSE Idle)
  /\ UNCHANGED <<pending, links, mailed, drawn, retired, told, shown>>

Update(r) ==
  /\ At(r, "update")
  /\ Write(UpdateColumns(clients, req[r].id, req[r].entity, req[r].columns))
  /\ Saved(r, req[r].id)

Insert(r, c) ==
  /\ At(r, "insert")
  /\ NewId(c)
  /\ Write(InsertRow(clients, c, req[r].entity))
  /\ Saved(r, c)

RemoveFind(r, c) ==
  /\ At(r, "idle")
  /\ c \in DOMAIN clients
  /\ Become(r, [at |-> "remove", id |-> c])
  /\ UNCHANGED <<clients, pending, links, mailed, history>>

RemoveCommit(r) ==
  /\ At(r, "remove")
  /\ clients' = DeleteRow(clients, req[r].id)
  /\ retired' = retired \cup {req[r].id}
  /\ Become(r, Idle)
  /\ UNCHANGED <<pending, links, mailed, drawn, accepted, told, shown>>

-----------------------------------------------------------------------------
(* sendCredentialsByEmail: consumePendingSecret's GETDEL, the client, the  *)
(* link, and the mail.  Slip: a GET, which leaves the secret there.        *)
Taken_Left(p, k) == p

Taken(p, k) == Without(p, k)

ConsumePendingSecret(r, c) ==
  /\ At(r, "idle")
  /\ PendingKey(c) \in DOMAIN pending
  /\ pending' = Taken(pending, PendingKey(c))
  /\ Become(r, [at |-> "findClient", id |-> c, secret |-> pending[PendingKey(c)]])
  /\ UNCHANGED <<clients, links, mailed, history>>

SendFindClient(r) ==
  LET h == req[r] IN
  /\ At(r, "findClient")
  /\ h.id \in DOMAIN clients
  /\ Become(r, [at |-> "generate", id |-> h.id, secret |-> h.secret,
                data |-> clients[h.id].data])
  /\ UNCHANGED <<clients, pending, links, mailed, history>>

GenerateLink(r, l) ==
  LET h == req[r] IN
  /\ At(r, "generate")
  /\ l \notin DOMAIN links
  /\ links' = Generate(links, l, h.id, h.secret, h.data)
  /\ Become(r, [at |-> "mail", link |-> l])
  /\ UNCHANGED <<clients, pending, mailed, history>>

SendMail(r) ==
  /\ At(r, "mail")
  /\ mailed' = mailed \cup {req[r].link}
  /\ Become(r, Idle)
  /\ UNCHANGED <<clients, pending, links, history>>

-----------------------------------------------------------------------------
(* POST credentials/:token/consume, by the page of a link: loaded again,   *)
(* or in several windows.  The answer may be lost on its way (Abort).      *)
ConsumeLink(r, l) ==
  /\ At(r, "idle")
  /\ l \in mailed
  /\ Consumable(links[l])
  /\ links' = MarkUsed(links, l)
  /\ Become(r, [at |-> "answer", link |-> l])
  /\ UNCHANGED <<clients, pending, mailed, history>>

Show(r) ==
  /\ At(r, "answer")
  /\ shown' = [shown EXCEPT ![req[r].link] = @ + 1]
  /\ Become(r, Idle)
  /\ UNCHANGED <<clients, pending, links, mailed,
                 drawn, accepted, retired, told>>

ExpireLink(l) ==
  /\ l \in DOMAIN links
  /\ ~links[l].expired
  /\ links' = [links EXCEPT ![l].expired = TRUE]
  /\ UNCHANGED <<clients, pending, mailed, req, history>>

ExpirePending(c) ==
  /\ c \in DOMAIN pending
  /\ pending' = Without(pending, c)
  /\ UNCHANGED <<clients, links, mailed, req, history>>

(* An await fails, the mail is refused, or the process ends. *)
Abort(r) ==
  /\ ~At(r, "idle")
  /\ Become(r, Idle)
  /\ UNCHANGED <<clients, pending, links, mailed, history>>

Start(r) ==
  \/ \E c \in Client :
       \/ \E s \in Secret, d \in Data : CreateSave(r, c, s, d)
       \/ \E d \in Data : UpdateClient(r, c, d)
       \/ Suspend(r, c) \/ Activate(r, c) \/ RemoveFind(r, c)
       \/ \E s \in Secret : RegenerateSecret(r, c, s)
       \/ ConsumePendingSecret(r, c)
  \/ \E l \in Link : ConsumeLink(r, l)

Resume(r) ==
  \/ StorePendingSecret(r) \/ AnswerSecret(r) \/ Select(r) \/ Update(r)
  \/ \E c \in Client : Insert(r, c)
  \/ RemoveCommit(r) \/ SendFindClient(r) \/ SendMail(r) \/ Show(r)
  \/ \E l \in Link : GenerateLink(r, l)

Next ==
  \/ \E r \in Request : Start(r) \/ Resume(r) \/ Abort(r)
  \/ \E l \in Link : ExpireLink(l)
  \/ \E c \in Client : ExpirePending(c)

Spec == Init /\ [][Next]_vars

-----------------------------------------------------------------------------
(***************************************************************************)
(* Properties.                                                             *)
(***************************************************************************)

(* The places a secret can still be sent from: the pending key, the hands  *)
(* of a sender, or of one who is about to store it, and the links.         *)
Places(s) ==
  {<<"pending", c>> : c \in {k \in DOMAIN pending : pending[k] = s}}
    \cup {<<"request", r>> : r \in {q \in Request :
            /\ req[q].at \in {"store", "findClient", "generate"}
            /\ req[q].secret = s}}
    \cup {<<"link", l>> : l \in {k \in DOMAIN links : links[k].secret = s}}

(* At most twice, and to two known readers: whatever requests overlap,     *)
(* mails fail and pages reload, a secret can be sent from one place at     *)
(* most and no link shows it twice, so that nobody reads it after the one  *)
(* it was sent to (who would notice); and besides, the admin who had it    *)
(* generated reads it once, in the answer of create or regenerateSecret.   *)
ShownOnce ==
  \A s \in Secret :
    /\ \A p, q \in Places(s) : p = q
    /\ \A l \in DOMAIN links : links[l].secret = s => shown[l] <= 1
    /\ told[s] <= 1

(* The handlers that drew s and have not stored it. *)
Draws(r, s) ==
  \/ req[r].at = "store" /\ req[r].secret = s
  \/ /\ req[r].at \in {"select", "update", "insert"}
     /\ req[r].op = "regenerate"
     /\ req[r].entity.clientSecret = s

(* The handlers that keep s to send it: until it is in a link. *)
Keeps(r, s) ==
  Draws(r, s) \/ (req[r].at \in {"findClient", "generate"} /\ req[r].secret = s)

(* The handlers whose answer will have s in it. *)
Owes(r, s) == Draws(r, s) \/ (req[r].at = "respond" /\ req[r].secret = s)

(* A link that can be opened, by whoever is mailed it, or that is open. *)
Readable(l) ==
  \/ Consumable(links[l])
       /\ (l \in mailed \/ \E r \in Request : At(r, "mail") /\ req[r].link = l)
  \/ \E r \in Request : At(r, "answer") /\ req[r].link = l

LinksOf(s) == {l \in DOMAIN links : links[l].secret = s}

phaseOf == [s \in Secret |->
  IF s \notin drawn THEN "unborn"
  ELSE IF \E l \in LinksOf(s) : shown[l] > 0 THEN "shown"
  ELSE IF \E l \in LinksOf(s) : Readable(l) THEN "linked"
  ELSE IF \/ \E c \in DOMAIN pending : pending[c] = s
          \/ \E r \in Request : Keeps(r, s) THEN "held"
  ELSE "lost"]

answerOf == [s \in Secret |->
  IF s \notin drawn THEN "none"
  ELSE IF told[s] > 0 THEN "told"
  ELSE IF \E r \in Request : Owes(r, s) THEN "due"
  ELSE "lost"]

Delivery == INSTANCE SecretDelivery WITH phase <- phaseOf, answer <- answerOf

(* Every step of the table, of Redis, of the answers, of the mail and of   *)
(* the pages is a step of the delivery of one secret, forward, or of none. *)
DeliveredOnce == Delivery!Spec

(* A link carries a secret that the very row it names has had as its own,  *)
(* never one of another application, nor of a row that was removed before  *)
(* the secret was saved, however regenerations, removals and rows put back *)
(* under new ids interleave with the sending.                              *)
OwnSecret ==
  \A l \in DOMAIN links :
    <<links[l].oauthClientId, links[l].secret>> \in accepted

Suspended(c) == c \in DOMAIN clients /\ ~clients[c].isActive

(* A request that may still make c active: it activates it, or it read c   *)
(* before the suspension.                                                  *)
MayActivate(r, c) ==
  /\ req[r].at \in {"select", "update", "insert"}
  /\ req[r].id = c
  /\ req[r].entity.isActive

(* A suspension that no such request overlaps holds until an activation,   *)
(* through every renaming and every new secret of the client.              *)
SuspendedUntilActivated ==
  [][\A c \in Client :
       Suspended(c) /\ (\A r \in Request : ~MayActivate(r, c)) =>
         /\ c \in DOMAIN clients' => Suspended(c)'
         /\ \A r \in Request :
              MayActivate(r, c)' => req'[r].op = "activate"]_vars

-----------------------------------------------------------------------------
(* What comments and documentation say and the code does not do.           *)

(* suspend's description: the client authenticates nobody until it is      *)
(* activated again.                                                        *)
OnlyActivateActivates ==
  [][\A r \in Request, c \in Client :
       At(r, "update") /\ req[r].id = c /\ Suspended(c)
         /\ ~At(r, "update")' /\ c \in DOMAIN clients' /\ ~Suspended(c)' =>
           req[r].op = "activate"]_vars

(* create's comment: the secret is kept in Redis for send-credentials.     *)
(* With no request on the client in progress it is then the one that       *)
(* validateClient will accept.                                             *)
Busy(c) ==
  \E r \in Request : "id" \in DOMAIN req[r] /\ req[r].id = c

PendingIsAccepted ==
  \A c \in DOMAIN clients \cap DOMAIN pending :
    ~Busy(c) => pending[c] = clients[c].clientSecret
=============================================================================
