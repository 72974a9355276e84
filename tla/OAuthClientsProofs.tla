------------------------- MODULE OAuthClientsProofs -------------------------
(***************************************************************************)
(* What OAuthClients guarantees for any clients, secrets, links and        *)
(* requests.  The invariant says where a secret can be: whatever is kept   *)
(* somewhere was drawn (Drawn), it is in one place at most (Exclusive),    *)
(* and a link is answered to one reader (Answered).  On it rest the two    *)
(* that say who is told of a secret (Owing) and which row has had it       *)
(* (Accepting).                                                            *)
(***************************************************************************)
EXTENDS OAuthClients, TLAPS

Saving == {"select", "update", "insert"}

Sending == {"store", "findClient", "generate"}

InPending(c, s) == c \in DOMAIN pending /\ pending[c] = s

InLink(l, s) == l \in DOMAIN links /\ links[l].secret = s

(* Draws(r, s), Keeps(r, s) and Owes(r, s), of the record of r. *)
Draw(h, s) ==
  \/ h.at = "store" /\ h.secret = s
  \/ h.at \in Saving /\ h.op = "regenerate" /\ h.entity.clientSecret = s

Carries(h, s) ==
  \/ h.at \in Sending /\ h.secret = s
  \/ h.at \in Saving /\ h.op = "regenerate" /\ h.entity.clientSecret = s

Owe(h, s) == Draw(h, s) \/ (h.at = "respond" /\ h.secret = s)

Drawn ==
  /\ \A c \in DOMAIN pending : pending[c] \in drawn
  /\ \A l \in DOMAIN links : links[l].secret \in drawn
  /\ \A r \in Request, s \in Secret : Keeps(r, s) => s \in drawn

Alone(s) ==
  /\ \A r \in Request : Keeps(r, s) =>
       /\ \A c \in Client : ~InPending(c, s)
       /\ \A l \in Link : ~InLink(l, s)
       /\ \A q \in Request : Keeps(q, s) => q = r
  /\ \A c \in Client, l \in Link : ~(InPending(c, s) /\ InLink(l, s))
  /\ \A c, k \in Client : InPending(c, s) /\ InPending(k, s) => c = k
  /\ \A k, l \in Link : InLink(k, s) /\ InLink(l, s) => k = l

Exclusive == \A s \in Secret : Alone(s)

Answering(r, l) == req[r].at = "answer" /\ req[r].link = l

Answered ==
  /\ \A r \in Request : req[r].at = "mail" => req[r].link \in DOMAIN links
  /\ \A r \in Request, l \in Link : Answering(r, l) =>
       /\ l \in DOMAIN links /\ links[l].used /\ shown[l] = 0
       /\ \A q \in Request : Answering(q, l) => q = r
  /\ \A l \in DOMAIN links : ~links[l].used => shown[l] = 0
  /\ \A l \in Link : shown[l] <= 1 /\ (l \notin DOMAIN links => shown[l] = 0)

Inv == TypeOK /\ Drawn /\ Exclusive /\ Answered

-----------------------------------------------------------------------------
(* What each request holds. *)
LEMMA HandlerTypes ==
  ASSUME TypeOK, NEW r \in Request
  PROVE  /\ req[r] \in Handler
         /\ req[r].at \in Saving =>
              req[r].op \in Op /\ req[r].id \in Client /\ req[r].entity \in Entity
         /\ req[r].at \in Sending \cup {"respond"} =>
              req[r].id \in Client /\ req[r].secret \in Secret
         /\ req[r].at = "generate" => req[r].data \in Data
         /\ req[r].at = "remove" => req[r].id \in Client
         /\ req[r].at \in {"mail", "answer"} => req[r].link \in Link
BY DEF TypeOK, Handler, Saving, Sending

LEMMA IdleIs == Idle \in Handler /\ Idle.at = "idle"
BY DEF Idle, Handler

(* One request moves. *)
LEMMA Moves ==
  ASSUME TypeOK, NEW r \in Request, NEW h, Become(r, h)
  PROVE  /\ req'[r] = h
         /\ \A q \in Request \ {r} : req'[q] = req[q]
         /\ h \in Handler => req' \in [Request -> Handler]
BY DEF TypeOK, Become

(* The tables. *)
LEMMA UpdateKeepsType ==
  ASSUME TypeOK, NEW c, NEW entity \in Entity, NEW columns
  PROVE  UpdateColumns(clients, c, entity, columns) \in [DOMAIN clients -> Entity]
<1> DEFINE row(b) == [k \in DOMAIN clients[b] |->
                        IF k \in columns THEN entity[k] ELSE clients[b][k]]
<1>1. ASSUME NEW b \in DOMAIN clients
      PROVE  row(b) \in Entity
  <2>1. clients[b] \in Entity
    BY DEF TypeOK
  <2>2. /\ DOMAIN row(b) = {"clientSecret", "isActive", "data"}
        /\ row(b)["clientSecret"] \in Secret /\ row(b)["isActive"] \in BOOLEAN
        /\ row(b)["data"] \in Data
    BY <2>1 DEF Entity
  <2> QED
    BY <2>2 DEF Entity
<1> HIDE DEF row
<1>2. UpdateColumns(clients, c, entity, columns)
        = [b \in DOMAIN clients |-> IF b = c THEN row(b) ELSE clients[b]]
  BY DEF UpdateColumns, row
<1> QED
  BY <1>1, <1>2 DEF TypeOK

(* The table is written, and its secrets recorded. *)
Tables ==
  /\ DOMAIN clients' \subseteq Client /\ clients' \in [DOMAIN clients' -> Entity]
  /\ accepted' \subseteq Client \X Secret

LEMMA WriteKeepsType ==
  ASSUME TypeOK, NEW table, DOMAIN table \subseteq Client,
         table \in [DOMAIN table -> Entity], Write(table)
  PROVE  Tables
<1>1. \A c \in DOMAIN table : c \in Client /\ table[c].clientSecret \in Secret
  BY DEF Entity
<1> QED
  BY <1>1 DEF Write, Tables, TypeOK

LEMMA InsertKeepsType ==
  ASSUME TypeOK, NEW c \in Client, NEW entity \in Entity,
         Write(InsertRow(clients, c, entity))
  PROVE  Tables
<1> DEFINE table == InsertRow(clients, c, entity)
<1>1. DOMAIN table \subseteq Client /\ table \in [DOMAIN table -> Entity]
  BY DEF InsertRow, TypeOK
<1> HIDE DEF table
<1>2. Write(table)
  BY DEF table
<1> QED
  BY <1>1, <1>2, WriteKeepsType

LEMMA UpdateKeepsTables ==
  ASSUME TypeOK, NEW c, NEW entity \in Entity, NEW columns,
         Write(UpdateColumns(clients, c, entity, columns))
  PROVE  Tables
<1> DEFINE table == UpdateColumns(clients, c, entity, columns)
<1>0. DOMAIN table = DOMAIN clients
  BY DEF UpdateColumns
<1>1. table \in [DOMAIN clients -> Entity]
  BY UpdateKeepsType
<1> HIDE DEF table
<1>2. Write(table)
  BY DEF table
<1> QED
  BY <1>0, <1>1, <1>2, WriteKeepsType DEF TypeOK

(* A new link, and what marking a link leaves. *)
LEMMA GenerateIs ==
  ASSUME TypeOK, NEW l \in Link, l \notin DOMAIN links, NEW c \in Client,
         NEW s \in Secret, NEW d \in Data, links' = Generate(links, l, c, s, d)
  PROVE  /\ DOMAIN links' = DOMAIN links \cup {l}
         /\ links' \in [DOMAIN links' -> LinkRow]
         /\ links'[l].secret = s /\ links'[l].oauthClientId = c
         /\ ~links'[l].used
         /\ \A k \in DOMAIN links : links'[k] = links[k]
BY DEF Generate, TypeOK, LinkRow

LEMMA MarkUsedIs ==
  ASSUME TypeOK, NEW l \in DOMAIN links, links' = MarkUsed(links, l)
  PROVE  /\ DOMAIN links' = DOMAIN links
         /\ links' \in [DOMAIN links -> LinkRow]
         /\ links'[l].used
         /\ \A k \in DOMAIN links :
              /\ links'[k].secret = links[k].secret
              /\ links'[k].oauthClientId = links[k].oauthClientId
              /\ links'[k].expired = links[k].expired
              /\ k # l => links'[k] = links[k]
BY DEF MarkUsed, TypeOK, LinkRow

LEMMA ExpireIs ==
  ASSUME TypeOK, NEW l \in DOMAIN links,
         links' = [links EXCEPT ![l].expired = TRUE]
  PROVE  /\ DOMAIN links' = DOMAIN links
         /\ links' \in [DOMAIN links -> LinkRow]
         /\ links'[l].expired
         /\ \A k \in DOMAIN links :
              /\ links'[k].secret = links[k].secret
              /\ links'[k].oauthClientId = links[k].oauthClientId
              /\ links'[k].used = links[k].used
              /\ k # l => links'[k] = links[k]
BY DEF TypeOK, LinkRow

LEMMA KeepsIs ==
  ASSUME NEW r \in Request, NEW s
  PROVE  Keeps(r, s) <=> Carries(req[r], s)
BY DEF Keeps, Draws, Carries, Sending, Saving

LEMMA KeepsNext ==
  ASSUME NEW r \in Request, NEW s
  PROVE  Keeps(r, s)' <=> Carries(req'[r], s)
BY DEF Keeps, Draws, Carries, Sending, Saving

LEMMA OwesIs ==
  ASSUME NEW r \in Request, NEW s
  PROVE  /\ Owes(r, s) <=> Owe(req[r], s)
         /\ Owes(r, s)' <=> Owe(req'[r], s)
BY DEF Owes, Draws, Owe, Draw, Saving

(* No secret comes to a new place: what is pending, linked or kept was     *)
(* already so.                                                             *)
LEMMA SecretsRest ==
  ASSUME Drawn, Exclusive, UNCHANGED drawn,
         \A c \in DOMAIN pending' : c \in DOMAIN pending /\ pending'[c] = pending[c],
         \A l \in DOMAIN links' :
           l \in DOMAIN links /\ links'[l].secret = links[l].secret,
         \A r \in Request, s \in Secret : Carries(req'[r], s) => Keeps(r, s)
  PROVE  Drawn' /\ Exclusive'
<1>1. \A r \in Request, s \in Secret : Keeps(r, s)' => Keeps(r, s)
  BY KeepsNext
<1>2. Drawn'
  BY <1>1 DEF Drawn
<1>3. /\ \A c \in Client, s \in Secret : InPending(c, s)' => InPending(c, s)
      /\ \A l \in Link, s \in Secret : InLink(l, s)' => InLink(l, s)
  BY DEF InPending, InLink
<1>4. ASSUME NEW s \in Secret
      PROVE  Alone(s)'
  BY <1>1, <1>3 DEF Exclusive, Alone
<1> QED
  BY <1>2, <1>4 DEF Exclusive

(* The links and what was shown of them stay as they are, and nobody comes *)
(* to answer one.                                                          *)
LEMMA AnswersRest ==
  ASSUME TypeOK, Answered, UNCHANGED <<links, shown>>,
         \A r \in Request : req'[r].at \notin {"mail", "answer"} \/ req'[r] = req[r]
  PROVE  Answered'
<1>1. ASSUME NEW r \in Request, NEW l \in Link, Answering(r, l)'
      PROVE  /\ l \in DOMAIN links' /\ links'[l].used /\ shown'[l] = 0
             /\ \A q \in Request : Answering(q, l)' => q = r
  BY <1>1 DEF Answered, Answering
<1>2. /\ \A l \in DOMAIN links' : ~links'[l].used => shown'[l] = 0
      /\ \A l \in Link : shown'[l] <= 1 /\ (l \notin DOMAIN links' => shown'[l] = 0)
      /\ \A r \in Request : req'[r].at = "mail" => req'[r].link \in DOMAIN links'
  BY DEF Answered
<1> QED
  BY <1>1, <1>2 DEF Answered

(* The steps of a request that move no secret and answer nobody. *)
LEMMA QuietInv ==
  ASSUME Inv, NEW r \in Request, NEW h \in Handler, Become(r, h),
         h.at \notin {"mail", "answer"},
         \A s \in Secret : Carries(h, s) => Keeps(r, s),
         Tables, mailed' \subseteq DOMAIN links, retired' \subseteq Client,
         told' \in [Secret -> Nat], UNCHANGED <<pending, links, drawn, shown>>
  PROVE  Inv'
<1> USE DEF Inv
<1>1. /\ req' \in [Request -> Handler] /\ req'[r] = h
      /\ \A q \in Request \ {r} : req'[q] = req[q]
  BY Moves
<1>2. TypeOK'
  BY <1>1 DEF TypeOK, Tables
<1>3. \A q \in Request, s \in Secret : Carries(req'[q], s) => Keeps(q, s)
  BY <1>1, KeepsIs
<1>4. Drawn' /\ Exclusive'
  BY <1>3, SecretsRest
<1>5. \A q \in Request : req'[q].at \notin {"mail", "answer"} \/ req'[q] = req[q]
  BY <1>1
<1>6. Answered'
  BY <1>5, AnswersRest
<1> QED
  BY <1>2, <1>4, <1>6

-----------------------------------------------------------------------------
LEMMA InitInv == Init => Inv
<1> SUFFICES ASSUME Init
             PROVE  Inv
  OBVIOUS
<1>1. TypeOK
  BY IdleIs DEF Init, TypeOK, Nothing
<1>2. \A r \in Request : req[r].at = "idle"
  BY IdleIs DEF Init
<1>3. Drawn /\ Exclusive
  BY <1>2, KeepsIs
     DEF Init, Nothing, Drawn, Exclusive, Alone, InPending, InLink, Carries,
         Saving, Sending
<1>4. Answered
  BY <1>2 DEF Init, Nothing, Answered, Answering
<1> QED
  BY <1>1, <1>3, <1>4 DEF Inv

(* A request that finds a client, and one that saves it.  Only a new       *)
(* secret makes a keeper of it.                                            *)
LEMMA FindToSaveInv ==
  ASSUME Inv, NEW r \in Request, NEW c \in Client, NEW op \in Op \ {"regenerate"},
         NEW entity \in Entity, FindToSave(r, c, op, entity), UNCHANGED drawn
  PROVE  Inv'
<1> DEFINE h == [at |-> "select", op |-> op, id |-> c, entity |-> entity]
<1>1. h \in Handler /\ h.at = "select" /\ h.op # "regenerate"
  BY DEF Handler
<1>2. /\ Become(r, h)
      /\ UNCHANGED <<clients, pending, links, mailed,
                     drawn, accepted, retired, told, shown>>
  BY DEF FindToSave
<1> HIDE DEF h
<1>3. \A s \in Secret : ~Carries(h, s)
  BY <1>1 DEF Carries, Sending, Saving
<1> QED
  BY <1>1, <1>2, <1>3, QuietInv DEF Inv, TypeOK, Tables

LEMMA SavedInv ==
  ASSUME Inv, NEW r \in Request, req[r].at \in {"update", "insert"},
         NEW c \in Client, Saved(r, c), Tables
  PROVE  Inv'
<1>1. /\ req[r].op \in Op /\ req[r].entity \in Entity
      /\ UNCHANGED <<pending, links, mailed, drawn, retired, told, shown>>
  BY HandlerTypes DEF Saved, Saving, Inv
<1>2. CASE req[r].op = "regenerate"
  <2> DEFINE h == [at |-> "store", id |-> c,
                   secret |-> req[r].entity.clientSecret]
  <2>1. /\ h \in Handler /\ h.at = "store"
        /\ h.secret = req[r].entity.clientSecret
    BY <1>1 DEF Handler, Entity
  <2>2. Become(r, h)
    BY <1>2 DEF Saved
  <2> HIDE DEF h
  <2>3. \A s \in Secret : Carries(h, s) => Keeps(r, s)
    BY <1>2, <2>1 DEF Carries, Keeps, Draws, Sending, Saving
  <2> QED
    BY <1>1, <2>1, <2>2, <2>3, QuietInv DEF Inv, TypeOK, Tables
<1>3. CASE req[r].op # "regenerate"
  <2>1. Become(r, Idle) /\ \A s \in Secret : ~Carries(Idle, s)
    BY <1>3, IdleIs DEF Saved, Carries, Sending, Saving
  <2> QED
    BY <1>1, <2>1, IdleIs, QuietInv DEF Inv, TypeOK, Tables
<1> QED
  BY <1>2, <1>3

(* The SELECT of save leads to one of the two statements. *)
LEMMA SelectIs ==
  ASSUME TypeOK, NEW r \in Request, Select(r)
  PROVE  \E h : /\ Become(r, h) /\ h \in Handler /\ h.at \in {"update", "insert"}
                /\ h.op = req[r].op /\ h.id = req[r].id
                /\ h.entity = req[r].entity
                /\ h.at = "update" =>
                     /\ h.id \in DOMAIN clients
                     /\ h.columns = Changed(clients, h.id, h.entity)
<1>1. /\ req[r].at = "select" /\ req[r].op \in Op /\ req[r].id \in Client
      /\ req[r].entity \in Entity /\ req[r] \in Handler
  BY HandlerTypes DEF Select, At, Saving
<1>2. CASE req[r].id \in DOMAIN clients
  <2> DEFINE g == [at |-> "update", op |-> req[r].op, id |-> req[r].id,
                   entity |-> req[r].entity,
                   columns |-> Changed(clients, req[r].id, req[r].entity)]
  <2>1. Changed(clients, req[r].id, req[r].entity)
          \in SUBSET {"clientSecret", "isActive", "data"}
    BY <1>1 DEF Changed, Entity
  <2>2. g \in Handler
    BY <1>1, <2>1 DEF Handler
  <2>3. Become(r, g)
    BY <1>2 DEF Select
  <2> QED
    BY <1>2, <2>2, <2>3
<1>3. CASE req[r].id \notin DOMAIN clients
  <2>1. PICK g : g = [req[r] EXCEPT !.at = "insert"]
    OBVIOUS
  <2>2. /\ g \in Handler /\ g.at = "insert"
        /\ g.op = req[r].op /\ g.id = req[r].id /\ g.entity = req[r].entity
    BY <1>1, <2>1 DEF Handler
  <2>3. Become(r, g)
    BY <1>3, <2>1 DEF Select
  <2> QED
    BY <2>2, <2>3
<1> QED
  BY <1>2, <1>3

LEMMA SelectInv ==
  ASSUME Inv, NEW r \in Request, Select(r)
  PROVE  Inv'
<1>1. /\ req[r].at = "select"
      /\ UNCHANGED <<clients, pending, links, mailed,
                     drawn, accepted, retired, told, shown>>
  BY DEF Select, At, history
<1>2. PICK h : /\ Become(r, h) /\ h \in Handler /\ h.at \in {"update", "insert"}
               /\ h.op = req[r].op /\ h.entity = req[r].entity
  BY SelectIs DEF Inv
<1>3. \A s \in Secret : Carries(h, s) => Keeps(r, s)
  BY <1>1, <1>2 DEF Carries, Keeps, Draws, Sending, Saving
<1> QED
  BY <1>1, <1>2, <1>3, QuietInv DEF Inv, TypeOK, Tables

LEMMA UpdateInsertInv ==
  ASSUME Inv, NEW r \in Request,
         Update(r) \/ \E c \in Client : Insert(r, c)
  PROVE  Inv'
<1>1. TypeOK
  BY DEF Inv
<1>2. CASE Update(r)
  <2>1. /\ req[r].at = "update" /\ req[r].entity \in Entity /\ req[r].id \in Client
        /\ Saved(r, req[r].id)
        /\ Write(UpdateColumns(clients, req[r].id, req[r].entity, req[r].columns))
    BY <1>1, <1>2, HandlerTypes DEF Update, At, Saving
  <2>2. Tables
    BY <1>1, <2>1, UpdateKeepsTables
  <2> QED
    BY <2>1, <2>2, SavedInv
<1>3. ASSUME NEW c \in Client, Insert(r, c)
      PROVE  Inv'
  <2>1. /\ req[r].at = "insert" /\ req[r].entity \in Entity /\ Saved(r, c)
        /\ Write(InsertRow(clients, c, req[r].entity))
    BY <1>1, <1>3, HandlerTypes DEF Insert, At, Saving
  <2>2. Tables
    BY <1>1, <2>1, InsertKeepsType
  <2> QED
    BY <2>1, <2>2, SavedInv
<1> QED
  BY <1>2, <1>3

LEMMA RemoveInv ==
  ASSUME Inv, NEW r \in Request, NEW c \in Client,
         RemoveFind(r, c) \/ RemoveCommit(r)
  PROVE  Inv'
<1>1. CASE RemoveFind(r, c)
  <2> DEFINE h == [at |-> "remove", id |-> c]
  <2>1. h \in Handler /\ h.at = "remove"
    BY DEF Handler
  <2>2. /\ Become(r, h)
        /\ UNCHANGED <<clients, pending, links, mailed,
                       drawn, accepted, retired, told, shown>>
    BY <1>1 DEF RemoveFind, history
  <2> HIDE DEF h
  <2>3. \A s \in Secret : ~Carries(h, s)
    BY <2>1 DEF Carries, Sending, Saving
  <2> QED
    BY <2>1, <2>2, <2>3, QuietInv DEF Inv, TypeOK, Tables
<1>2. CASE RemoveCommit(r)
  <2>1. /\ Become(r, Idle) /\ req[r].id \in Client
        /\ clients' = DeleteRow(clients, req[r].id)
        /\ retired' = retired \cup {req[r].id}
        /\ UNCHANGED <<pending, links, mailed, drawn, accepted, told, shown>>
    BY <1>2, HandlerTypes DEF RemoveCommit, At, Inv
  <2>2. /\ Tables /\ told' \in [Secret -> Nat]
        /\ retired' \subseteq Client /\ mailed' \subseteq DOMAIN links
    BY <2>1 DEF Inv, TypeOK, DeleteRow, Tables
  <2>3. \A s \in Secret : ~Carries(Idle, s)
    BY IdleIs DEF Carries, Sending, Saving
  <2> QED
    BY <2>1, <2>2, <2>3, IdleIs, QuietInv
<1> QED
  BY <1>1, <1>2

LEMMA SendInv ==
  ASSUME Inv, NEW r \in Request, SendFindClient(r) \/ SendMail(r) \/ Abort(r)
  PROVE  Inv'
<1>1. CASE SendFindClient(r)
  <2>1. /\ req[r].at = "findClient" /\ req[r].id \in DOMAIN clients
        /\ req[r].id \in Client /\ req[r].secret \in Secret
        /\ UNCHANGED <<clients, pending, links, mailed,
                       drawn, accepted, retired, told, shown>>
    BY <1>1, HandlerTypes DEF SendFindClient, At, history, Sending, Inv
  <2> DEFINE h == [at |-> "generate", id |-> req[r].id, secret |-> req[r].secret,
                   data |-> clients[req[r].id].data]
  <2>2. clients[req[r].id].data \in Data
    BY <2>1 DEF Inv, TypeOK, Entity
  <2>3. /\ h \in Handler /\ h.at = "generate" /\ h.id = req[r].id
        /\ h.secret = req[r].secret
    BY <2>1, <2>2 DEF Handler
  <2>4. Become(r, h)
    BY <1>1 DEF SendFindClient
  <2> HIDE DEF h
  <2>5. \A s \in Secret : Carries(h, s) => Keeps(r, s)
    BY <2>1, <2>3 DEF Carries, Keeps, Draws, Sending, Saving
  <2> QED
    BY <2>1, <2>3, <2>4, <2>5, QuietInv DEF Inv, TypeOK, Tables
<1>2. \A s \in Secret : ~Carries(Idle, s)
  BY IdleIs DEF Carries, Sending, Saving
<1>3. CASE SendMail(r)
  <2>1. req[r].link \in DOMAIN links
    BY <1>3 DEF SendMail, At, Inv, Answered
  <2> QED
    BY <1>2, <1>3, <2>1, IdleIs, QuietInv DEF SendMail, Inv, TypeOK, Tables, history
<1>4. CASE Abort(r)
  BY <1>2, <1>4, IdleIs, QuietInv DEF Abort, Inv, TypeOK, Tables, history
<1> QED
  BY <1>1, <1>3, <1>4

(* The admin who asked for a secret is told it. *)
LEMMA AnswerSecretInv ==
  ASSUME Inv, NEW r \in Request, AnswerSecret(r)
  PROVE  Inv'
<1>1. /\ Become(r, Idle) /\ req[r].secret \in Secret
      /\ told' = [told EXCEPT ![req[r].secret] = @ + 1]
      /\ UNCHANGED <<clients, pending, links, mailed,
                     drawn, accepted, retired, shown>>
  BY HandlerTypes DEF AnswerSecret, At, Inv
<1>2. \A s \in Secret : ~Carries(Idle, s)
  BY IdleIs DEF Carries, Sending, Saving
<1>3. told' \in [Secret -> Nat]
  BY <1>1 DEF Inv, TypeOK
<1> QED
  BY <1>1, <1>2, <1>3, IdleIs, QuietInv DEF Inv, TypeOK, Tables

(* A secret that is generated is nowhere yet, and then with its request. *)
LEMMA FreshInv ==
  ASSUME Inv, NEW r \in Request, NEW s \in Secret,
         NewSecret(s), NEW h \in Handler, Become(r, h),
         h.at \notin {"mail", "answer"},
         \A u \in Secret : Carries(h, u) => u = s,
         Tables, UNCHANGED <<pending, links, mailed, retired, told, shown>>
  PROVE  Inv'
<1> USE DEF Inv
<1>1. /\ req' \in [Request -> Handler] /\ req'[r] = h
      /\ \A q \in Request \ {r} : req'[q] = req[q]
  BY Moves
<1>2. drawn' = drawn \cup {s} /\ s \notin drawn
  BY DEF NewSecret
<1>3. TypeOK'
  BY <1>1, <1>2 DEF TypeOK, Tables
<1>4. /\ \A k \in Client : ~InPending(k, s)
      /\ \A k \in Link : ~InLink(k, s)
      /\ \A q \in Request : ~Keeps(q, s)
  BY <1>2 DEF Drawn, InPending, InLink
<1>5. \A q \in Request, u \in Secret :
        Keeps(q, u)' => (q = r /\ u = s) \/ (q # r /\ Keeps(q, u))
  BY <1>1, KeepsIs, KeepsNext
<1>6. Drawn'
  BY <1>2, <1>5 DEF Drawn
<1>7. /\ \A k \in Client, u \in Secret : InPending(k, u)' <=> InPending(k, u)
      /\ \A k \in Link, u \in Secret : InLink(k, u)' <=> InLink(k, u)
  BY DEF InPending, InLink
<1>8. ASSUME NEW u \in Secret
      PROVE  Alone(u)'
  BY <1>4, <1>5, <1>7 DEF Exclusive, Alone
<1>9. Answered'
  BY <1>1, AnswersRest
<1> QED
  BY <1>3, <1>6, <1>8, <1>9 DEF Exclusive

LEMMA CreateInv ==
  ASSUME Inv, NEW r \in Request, NEW c \in Client, NEW s \in Secret,
         NEW d \in Data, CreateSave(r, c, s, d)
  PROVE  Inv'
<1> DEFINE h == [at |-> "store", id |-> c, secret |-> s]
<1>1. h \in Handler /\ h.at = "store" /\ h.secret = s
  BY DEF Handler
<1>2. /\ Become(r, h) /\ NewSecret(s)
      /\ UNCHANGED <<pending, links, mailed, retired, told, shown>>
  BY DEF CreateSave
<1> HIDE DEF h
<1>3. \A u \in Secret : Carries(h, u) => u = s
  BY <1>1 DEF Carries, Sending, Saving
<1>4. [clientSecret |-> s, isActive |-> TRUE, data |-> d] \in Entity
  BY DEF Entity
<1>5. Tables
  BY <1>4, InsertKeepsType DEF CreateSave, Inv
<1> QED
  BY <1>1, <1>2, <1>3, <1>5, FreshInv

LEMMA RegenerateInv ==
  ASSUME Inv, NEW r \in Request, NEW c \in Client, NEW s \in Secret,
         RegenerateSecret(r, c, s)
  PROVE  Inv'
<1>1. PICK e : e = [clients[c] EXCEPT !.clientSecret = s]
  OBVIOUS
<1>2. e \in Entity /\ e.clientSecret = s
  BY <1>1 DEF RegenerateSecret, Inv, TypeOK, Entity
<1> DEFINE h == [at |-> "select", op |-> "regenerate", id |-> c, entity |-> e]
<1>3. h \in Handler /\ h.at = "select" /\ h.entity = e
  BY <1>2 DEF Handler, Op
<1>4. /\ Become(r, h) /\ NewSecret(s)
      /\ UNCHANGED <<clients, pending, links, mailed,
                     accepted, retired, told, shown>>
  BY <1>1 DEF RegenerateSecret, FindToSave
<1> HIDE DEF h
<1>5. \A u \in Secret : Carries(h, u) => u = s
  BY <1>2, <1>3 DEF Carries, Sending, Saving
<1> QED
  BY <1>3, <1>4, <1>5, FreshInv DEF Inv, TypeOK, Tables

(* From the request to Redis. *)
LEMMA StoreInv ==
  ASSUME Inv, NEW r \in Request, StorePendingSecret(r)
  PROVE  Inv'
<1> USE DEF Inv
<1>1. PICK c \in Client, s \in Secret : c = req[r].id /\ s = req[r].secret
  BY HandlerTypes DEF StorePendingSecret, At, Sending
<1> DEFINE h == [req[r] EXCEPT !.at = "respond"]
<1>2. /\ req[r].at = "store" /\ req[r] \in Handler /\ Become(r, h)
      /\ pending' = Put(pending, c, s)
      /\ UNCHANGED <<clients, links, mailed,
                     drawn, accepted, retired, told, shown>>
  BY <1>1, HandlerTypes DEF StorePendingSecret, At, PendingKey, history
<1>0. h \in Handler /\ h.at = "respond"
  BY <1>2 DEF Handler
<1> HIDE DEF h
<1>3. /\ req' \in [Request -> Handler] /\ req'[r] = h
      /\ \A q \in Request \ {r} : req'[q] = req[q]
  BY <1>0, <1>2, Moves
<1>4. /\ DOMAIN pending' = DOMAIN pending \cup {c} /\ pending'[c] = s
      /\ \A k \in DOMAIN pending \ {c} : pending'[k] = pending[k]
  BY <1>2 DEF Put
<1>5. TypeOK'
  <2>1. pending' \in [DOMAIN pending' -> Secret] /\ DOMAIN pending' \subseteq Client
    BY <1>2, <1>4 DEF Put, TypeOK
  <2> QED
    BY <1>2, <1>3, <2>1 DEF TypeOK
<1>6. Keeps(r, s)
  BY <1>1, <1>2 DEF Keeps, Draws
<1>7. \A q \in Request, u \in Secret : Keeps(q, u)' => q # r /\ Keeps(q, u)
  BY <1>0, <1>3, KeepsIs, KeepsNext DEF Carries, Sending, Saving
<1>8. Drawn'
  <2>1. s \in drawn
    BY <1>6 DEF Drawn
  <2> QED
    BY <1>2, <1>4, <1>7, <2>1 DEF Drawn
<1>9. /\ \A k \in Client, u \in Secret :
           InPending(k, u)' => (k # c /\ InPending(k, u)) \/ (k = c /\ u = s)
      /\ \A l \in Link, u \in Secret : InLink(l, u)' <=> InLink(l, u)
  BY <1>2, <1>4 DEF InPending, InLink
<1>10. ASSUME NEW u \in Secret
       PROVE  Alone(u)'
  BY <1>6, <1>7, <1>9 DEF Exclusive, Alone
<1>11. Answered'
  BY <1>0, <1>2, <1>3, AnswersRest
<1> QED
  BY <1>5, <1>8, <1>10, <1>11 DEF Exclusive

(* From Redis to the request. *)
LEMMA ConsumePendingInv ==
  ASSUME Inv, NEW r \in Request, NEW c \in Client, ConsumePendingSecret(r, c)
  PROVE  Inv'
<1> USE DEF Inv
<1>1. PICK s \in Secret : s = pending[c] /\ InPending(c, s)
  BY DEF ConsumePendingSecret, PendingKey, TypeOK, InPending
<1> DEFINE h == [at |-> "findClient", id |-> c, secret |-> s]
<1>2. /\ h \in Handler /\ h.at = "findClient" /\ h.id = c
      /\ h.secret = s
  BY DEF Handler
<1>3. /\ Become(r, h) /\ pending' = Without(pending, c)
      /\ UNCHANGED <<clients, links, mailed,
                     drawn, accepted, retired, told, shown>>
  BY <1>1 DEF ConsumePendingSecret, PendingKey, Taken, history
<1> HIDE DEF h
<1>4. /\ req' \in [Request -> Handler] /\ req'[r] = h
      /\ \A q \in Request \ {r} : req'[q] = req[q]
  BY <1>2, <1>3, Moves
<1>5. /\ DOMAIN pending' = DOMAIN pending \ {c}
      /\ \A k \in DOMAIN pending' : pending'[k] = pending[k]
  BY <1>3 DEF Without
<1>6. TypeOK'
  <2>1. pending' \in [DOMAIN pending' -> Secret] /\ DOMAIN pending' \subseteq Client
    BY <1>3, <1>5 DEF Without, TypeOK
  <2> QED
    BY <1>3, <1>4, <2>1 DEF TypeOK
<1>7. \A q \in Request, u \in Secret :
        Keeps(q, u)' => (q = r /\ u = s) \/ (q # r /\ Keeps(q, u))
  BY <1>2, <1>4, KeepsIs, KeepsNext DEF Carries, Sending, Saving
<1>8. s \in drawn
  BY <1>1 DEF Drawn, InPending
<1>9. Drawn'
  BY <1>3, <1>5, <1>7, <1>8 DEF Drawn
<1>10. /\ \A k \in Client, u \in Secret : InPending(k, u)' => InPending(k, u) /\ k # c
       /\ \A l \in Link, u \in Secret : InLink(l, u)' <=> InLink(l, u)
  BY <1>3, <1>5 DEF InPending, InLink
<1>11. \A k \in Client : InPending(k, s) => k = c
  BY <1>1 DEF Exclusive, Alone
<1>12. ASSUME NEW u \in Secret
       PROVE  Alone(u)'
  BY <1>1, <1>7, <1>10, <1>11 DEF Exclusive, Alone
<1>13. Answered'
  BY <1>2, <1>3, <1>4, AnswersRest
<1> QED
  BY <1>6, <1>9, <1>12, <1>13 DEF Exclusive

(* From the request to a link. *)
LEMMA GenerateInv ==
  ASSUME Inv, NEW r \in Request, NEW l \in Link, GenerateLink(r, l)
  PROVE  Inv'
<1> USE DEF Inv
<1>1. PICK c \in Client, s \in Secret, d \in Data :
        c = req[r].id /\ s = req[r].secret /\ d = req[r].data
  BY HandlerTypes DEF GenerateLink, At, Sending
<1> DEFINE h == [at |-> "mail", link |-> l]
<1>2. h \in Handler /\ h.at = "mail" /\ h.link = l
  BY DEF Handler
<1>3. /\ req[r].at = "generate" /\ l \notin DOMAIN links /\ Become(r, h)
      /\ links' = Generate(links, l, c, s, d)
      /\ UNCHANGED <<clients, pending, mailed,
                     drawn, accepted, retired, told, shown>>
  BY <1>1 DEF GenerateLink, At, history
<1> HIDE DEF h
<1>4. /\ req' \in [Request -> Handler] /\ req'[r] = h
      /\ \A q \in Request \ {r} : req'[q] = req[q]
  BY <1>2, <1>3, Moves
<1>5. /\ DOMAIN links' = DOMAIN links \cup {l}
      /\ links' \in [DOMAIN links' -> LinkRow]
      /\ links'[l].secret = s /\ links'[l].oauthClientId = c /\ ~links'[l].used
      /\ \A k \in DOMAIN links : links'[k] = links[k]
  BY <1>3, GenerateIs
<1>6. TypeOK'
  BY <1>3, <1>4, <1>5 DEF TypeOK
<1>7. Keeps(r, s)
  BY <1>1, <1>3 DEF Keeps, Draws
<1>8. \A q \in Request, u \in Secret : Keeps(q, u)' => q # r /\ Keeps(q, u)
  BY <1>2, <1>4, KeepsIs, KeepsNext DEF Carries, Sending, Saving
<1>9. Drawn'
  <2>1. s \in drawn
    BY <1>7 DEF Drawn
  <2> QED
    BY <1>3, <1>5, <1>8, <2>1 DEF Drawn
<1>10. /\ \A k \in Client, u \in Secret : InPending(k, u)' <=> InPending(k, u)
       /\ \A k \in Link, u \in Secret :
            InLink(k, u)' => InLink(k, u) \/ (k = l /\ u = s)
  BY <1>3, <1>5 DEF InPending, InLink
<1>11. ASSUME NEW u \in Secret
       PROVE  Alone(u)'
  BY <1>7, <1>8, <1>10 DEF Exclusive, Alone
<1>12. Answered'
  <2>1. \A q \in Request, k \in Link : Answering(q, k)' => Answering(q, k) /\ q # r
    BY <1>2, <1>4 DEF Answering
  <2>2. \A q \in Request, k \in Link : Answering(q, k) =>
          k \in DOMAIN links /\ links'[k] = links[k]
    BY <1>5 DEF Answered
  <2>3. \A q \in Request : req'[q].at = "mail" => req'[q].link \in DOMAIN links'
    BY <1>2, <1>4, <1>5 DEF Answered
  <2>4. /\ \A k \in DOMAIN links' : ~links'[k].used => shown'[k] = 0
        /\ \A k \in Link : shown'[k] <= 1 /\ (k \notin DOMAIN links' => shown'[k] = 0)
    BY <1>3, <1>5 DEF Answered
  <2>5. ASSUME NEW q \in Request, NEW k \in Link, Answering(q, k)'
        PROVE  /\ k \in DOMAIN links' /\ links'[k].used /\ shown'[k] = 0
               /\ \A p \in Request : Answering(p, k)' => p = q
    BY <1>3, <1>5, <2>1, <2>2, <2>5 DEF Answered
  <2> QED
    BY <2>3, <2>4, <2>5 DEF Answered
<1> QED
  BY <1>6, <1>9, <1>11, <1>12 DEF Exclusive

(* A link is marked before its secret is shown, and shown by the request   *)
(* that marked it.                                                         *)
LEMMA ConsumeLinkInv ==
  ASSUME Inv, NEW r \in Request, NEW l \in Link, ConsumeLink(r, l)
  PROVE  Inv'
<1> USE DEF Inv
<1> DEFINE h == [at |-> "answer", link |-> l]
<1>1. h \in Handler /\ h.at = "answer" /\ h.link = l
  BY DEF Handler
<1>2. /\ l \in DOMAIN links /\ ~links[l].used /\ Become(r, h)
      /\ links' = MarkUsed(links, l)
      /\ UNCHANGED <<clients, pending, mailed,
                     drawn, accepted, retired, told, shown>>
  BY DEF ConsumeLink, Consumable, history, TypeOK
<1> HIDE DEF h
<1>3. /\ req' \in [Request -> Handler] /\ req'[r] = h
      /\ \A q \in Request \ {r} : req'[q] = req[q]
  BY <1>1, <1>2, Moves
<1>4. /\ DOMAIN links' = DOMAIN links /\ links' \in [DOMAIN links -> LinkRow]
      /\ links'[l].used
      /\ \A k \in DOMAIN links :
           /\ links'[k].secret = links[k].secret
           /\ links'[k].oauthClientId = links[k].oauthClientId
           /\ k # l => links'[k] = links[k]
  BY <1>2, MarkUsedIs
<1>5. TypeOK'
  BY <1>2, <1>3, <1>4 DEF TypeOK
<1>6. \A q \in Request, u \in Secret :
        Carries(req'[q], u) => Keeps(q, u)
  BY <1>1, <1>3, KeepsIs DEF Carries, Sending, Saving
<1>7. Drawn' /\ Exclusive'
  BY <1>2, <1>4, <1>6, SecretsRest
<1>8. Answered'
  <2>1. \A q \in Request, k \in Link :
          Answering(q, k)' => (q = r /\ k = l) \/ (q # r /\ Answering(q, k))
    BY <1>1, <1>3 DEF Answering
  <2>2. \A q \in Request : ~Answering(q, l)
    BY <1>2 DEF Answered
  <2>3. ASSUME NEW q \in Request, NEW k \in Link, Answering(q, k)'
        PROVE  /\ k \in DOMAIN links' /\ links'[k].used /\ shown'[k] = 0
               /\ \A p \in Request : Answering(p, k)' => p = q
    <3>1. CASE k = l
      BY <1>2, <1>4, <2>1, <2>2, <2>3, <3>1 DEF Answered
    <3>2. CASE k # l
      BY <1>2, <1>4, <2>1, <2>3, <3>2 DEF Answered
    <3> QED
      BY <3>1, <3>2
  <2>4. \A q \in Request : req'[q].at = "mail" => req'[q].link \in DOMAIN links'
    BY <1>1, <1>3, <1>4 DEF Answered
  <2>5. /\ \A k \in DOMAIN links' : ~links'[k].used => shown'[k] = 0
        /\ \A k \in Link : shown'[k] <= 1 /\ (k \notin DOMAIN links' => shown'[k] = 0)
    BY <1>2, <1>4 DEF Answered
  <2> QED
    BY <2>3, <2>4, <2>5 DEF Answered
<1> QED
  BY <1>5, <1>7, <1>8

LEMMA ShowInv ==
  ASSUME Inv, NEW r \in Request, Show(r)
  PROVE  Inv'
<1> USE DEF Inv
<1>1. PICK l \in Link : l = req[r].link
  BY HandlerTypes DEF Show, At
<1>2. /\ Answering(r, l) /\ Become(r, Idle)
      /\ shown' = [shown EXCEPT ![l] = @ + 1]
      /\ UNCHANGED <<clients, pending, links, mailed,
                     drawn, accepted, retired, told>>
  BY <1>1 DEF Show, At, Answering
<1>3. /\ req' \in [Request -> Handler] /\ req'[r] = Idle
      /\ \A q \in Request \ {r} : req'[q] = req[q]
  BY <1>2, IdleIs, Moves
<1>4. /\ shown[l] = 0 /\ shown'[l] = 1 /\ shown' \in [Link -> Nat]
      /\ \A k \in Link \ {l} : shown'[k] = shown[k]
  BY <1>2 DEF Answered, TypeOK
<1>5. TypeOK'
  BY <1>2, <1>3, <1>4 DEF TypeOK
<1>6. \A q \in Request, u \in Secret :
        Carries(req'[q], u) => Keeps(q, u)
  BY <1>3, IdleIs, KeepsIs DEF Carries, Sending, Saving
<1>7. Drawn' /\ Exclusive'
  BY <1>2, <1>6, SecretsRest
<1>8. Answered'
  <2>1. \A q \in Request, k \in Link : Answering(q, k)' => q # r /\ Answering(q, k)
    BY <1>3, IdleIs DEF Answering
  <2>2. ASSUME NEW q \in Request, NEW k \in Link, Answering(q, k)'
        PROVE  /\ k # l
               /\ k \in DOMAIN links' /\ links'[k].used /\ shown'[k] = 0
               /\ \A p \in Request : Answering(p, k)' => p = q
    <3>1. k # l
      BY <1>2, <2>1, <2>2 DEF Answered
    <3> QED
      BY <1>2, <1>4, <2>1, <2>2, <3>1 DEF Answered
  <2>3. \A q \in Request : req'[q].at = "mail" => req'[q].link \in DOMAIN links'
    BY <1>2, <1>3, IdleIs DEF Answered
  <2>4. l \in DOMAIN links /\ links[l].used
    BY <1>2 DEF Answered
  <2>5. /\ \A k \in DOMAIN links' : ~links'[k].used => shown'[k] = 0
        /\ \A k \in Link : shown'[k] <= 1 /\ (k \notin DOMAIN links' => shown'[k] = 0)
    BY <1>2, <1>4, <2>4 DEF Answered, TypeOK
  <2> QED
    BY <2>2, <2>3, <2>5 DEF Answered
<1> QED
  BY <1>5, <1>7, <1>8

LEMMA ExpireInv ==
  ASSUME Inv, (\E l \in Link : ExpireLink(l)) \/ (\E c \in Client : ExpirePending(c))
  PROVE  Inv'
<1> USE DEF Inv
<1>1. \A q \in Request, u \in Secret : Carries(req[q], u) => Keeps(q, u)
  BY KeepsIs
<1>2. ASSUME NEW l \in Link, ExpireLink(l)
      PROVE  Inv'
  <2>1. /\ l \in DOMAIN links /\ links' = [links EXCEPT ![l].expired = TRUE]
        /\ UNCHANGED <<clients, pending, mailed, req,
                       drawn, accepted, retired, told, shown>>
    BY <1>2 DEF ExpireLink, history
  <2>2. /\ DOMAIN links' = DOMAIN links /\ links' \in [DOMAIN links -> LinkRow]
        /\ \A k \in DOMAIN links :
             /\ links'[k].secret = links[k].secret
             /\ links'[k].oauthClientId = links[k].oauthClientId
             /\ links'[k].used = links[k].used
    BY <2>1, ExpireIs
  <2>3. TypeOK'
    BY <2>1, <2>2 DEF TypeOK
  <2>4. Drawn' /\ Exclusive'
    BY <1>1, <2>1, <2>2, SecretsRest
  <2>5. Answered'
    BY <2>1, <2>2 DEF Answered, Answering
  <2> QED
    BY <2>3, <2>4, <2>5
<1>3. ASSUME NEW c \in Client, ExpirePending(c)
      PROVE  Inv'
  <2>1. /\ pending' = Without(pending, c)
        /\ UNCHANGED <<clients, links, mailed, req,
                       drawn, accepted, retired, told, shown>>
    BY <1>3 DEF ExpirePending, history
  <2>2. /\ DOMAIN pending' = DOMAIN pending \ {c}
        /\ \A k \in DOMAIN pending' : pending'[k] = pending[k]
    BY <2>1 DEF Without
  <2>3. TypeOK'
    BY <2>1 DEF TypeOK, Without
  <2>4. Drawn' /\ Exclusive'
    BY <1>1, <2>1, <2>2, SecretsRest
  <2>5. Answered'
    BY <2>1 DEF Answered, Answering
  <2> QED
    BY <2>3, <2>4, <2>5
<1> QED
  BY <1>2, <1>3

-----------------------------------------------------------------------------
LEMMA NextInv == Inv /\ [Next]_vars => Inv'
<1> SUFFICES ASSUME Inv, [Next]_vars
             PROVE  Inv'
  OBVIOUS
<1>1. ASSUME NEW r \in Request, NEW c \in Client, NEW d \in Data,
             UpdateClient(r, c, d)
      PROVE  Inv'
  <2>1. Assigned(clients[c], d) \in Entity /\ "update" \in Op \ {"regenerate"}
    BY <1>1 DEF UpdateClient, Assigned, Inv, TypeOK, Entity, Op
  <2> QED
    BY <1>1, <2>1, FindToSaveInv DEF UpdateClient
<1>2. ASSUME NEW r \in Request, NEW c \in Client, Suspend(r, c) \/ Activate(r, c)
      PROVE  Inv'
  <2>1. /\ Suspend(r, c) => [clients[c] EXCEPT !.isActive = FALSE] \in Entity
        /\ Activate(r, c) => [clients[c] EXCEPT !.isActive = TRUE] \in Entity
    BY DEF Suspend, Activate, Inv, TypeOK, Entity
  <2>2. {"suspend", "activate"} \subseteq Op \ {"regenerate"}
    BY DEF Op
  <2> QED
    BY <1>2, <2>1, <2>2, FindToSaveInv DEF Suspend, Activate
<1>3. ASSUME NEW r \in Request, Start(r)
      PROVE  Inv'
  BY <1>1, <1>2, <1>3, CreateInv, RegenerateInv, RemoveInv, ConsumePendingInv,
     ConsumeLinkInv DEF Start
<1>4. ASSUME NEW r \in Request, RemoveCommit(r)
      PROVE  Inv'
  <2>1. req[r].id \in Client
    BY <1>4, HandlerTypes DEF RemoveCommit, At, Inv
  <2> QED
    BY <1>4, <2>1, RemoveInv
<1>5. ASSUME NEW r \in Request, Resume(r)
      PROVE  Inv'
  BY <1>4, <1>5, StoreInv, AnswerSecretInv, SelectInv, UpdateInsertInv, SendInv,
     ShowInv, GenerateInv DEF Resume
<1>6. CASE UNCHANGED vars
  BY <1>6 DEF vars, history, Inv, TypeOK, Drawn, Exclusive, Alone, InPending,
              InLink, Keeps, Draws, Answered, Answering
<1> QED
  BY <1>3, <1>5, <1>6, SendInv, ExpireInv DEF Next

LEMMA Invariance == Spec => []Inv
BY InitInv, NextInv, PTL DEF Spec

(* Clients, links, pending secrets and what each request holds are whole,  *)
(* whatever is renamed, removed and put back.                              *)
THEOREM TypeCorrect == Spec => []TypeOK
<1>1. Inv => TypeOK
  BY DEF Inv
<1> QED
  BY <1>1, Invariance, PTL

-----------------------------------------------------------------------------
(***************************************************************************)
(* Who is told of a secret.  The request that draws it owes it to its      *)
(* admin until it answers or fails; no other request ever does.            *)
(***************************************************************************)
Owing ==
  \A s \in Secret :
    /\ told[s] <= 1
    /\ s \notin drawn => told[s] = 0 /\ \A r \in Request : ~Owes(r, s)
    /\ \A r \in Request : Owes(r, s) =>
         told[s] = 0 /\ \A q \in Request : Owes(q, s) => q = r

(* The steps of a request that draw no secret, answer none, and do not     *)
(* fail.                                                                   *)
Rests(r) ==
  \/ \E c \in Client :
       \/ \E d \in Data : UpdateClient(r, c, d)
       \/ Suspend(r, c) \/ Activate(r, c) \/ RemoveFind(r, c)
       \/ ConsumePendingSecret(r, c) \/ Insert(r, c)
  \/ \E l \in Link : ConsumeLink(r, l) \/ GenerateLink(r, l)
  \/ StorePendingSecret(r) \/ Select(r) \/ Update(r) \/ RemoveCommit(r)
  \/ SendFindClient(r) \/ SendMail(r) \/ Show(r)

Generates(r, s) ==
  \E c \in Client : (\E d \in Data : CreateSave(r, c, s, d)) \/ RegenerateSecret(r, c, s)

Expires == (\E l \in Link : ExpireLink(l)) \/ (\E c \in Client : ExpirePending(c))

LEMMA StepIs ==
  ASSUME [Next]_vars
  PROVE  \/ \E r \in Request : Rests(r) \/ AnswerSecret(r) \/ Abort(r)
         \/ \E r \in Request, s \in Secret : Generates(r, s)
         \/ Expires \/ UNCHANGED vars
<1>1. ASSUME NEW r \in Request, Start(r)
      PROVE  Rests(r) \/ \E s \in Secret : Generates(r, s)
  BY <1>1 DEF Start, Rests, Generates
<1>2. ASSUME NEW r \in Request, Resume(r)
      PROVE  Rests(r) \/ AnswerSecret(r)
  BY <1>2 DEF Resume, Rests
<1> QED
  BY <1>1, <1>2 DEF Next, Expires

LEMMA OwesMoves ==
  ASSUME TypeOK, NEW r \in Request, NEW h, Become(r, h)
  PROVE  \A q \in Request, s \in Secret :
           Owes(q, s)' <=> IF q = r THEN Owe(h, s) ELSE Owes(q, s)
BY Moves, OwesIs

LEMMA RestsKeepsOwes ==
  ASSUME TypeOK, NEW r \in Request, Rests(r)
  PROVE  /\ UNCHANGED <<drawn, told>>
         /\ \A q \in Request, s \in Secret : Owes(q, s)' <=> Owes(q, s)
<1> DEFINE Same == \A q \in Request, s \in Secret : Owes(q, s)' <=> Owes(q, s)
           Free(h) == \A s \in Secret : ~Owe(h, s)
<1>1. ASSUME NEW h, Become(r, h), \A s \in Secret : Owe(h, s) <=> Owe(req[r], s)
      PROVE  Same
  BY <1>1, OwesMoves, OwesIs
<1>2. \A h : h.at \in {"idle", "mail", "answer", "remove", "findClient", "generate"}
        => Free(h)
  BY DEF Owe, Draw, Saving
<1>3. ASSUME NEW c \in Client, NEW op \in Op \ {"regenerate"}, NEW entity,
             FindToSave(r, c, op, entity)
      PROVE  Same /\ UNCHANGED told
  <2> DEFINE h == [at |-> "select", op |-> op, id |-> c, entity |-> entity]
  <2>1. h.at = "select" /\ h.op = op
    OBVIOUS
  <2>2. Become(r, h) /\ req[r].at = "idle" /\ UNCHANGED told
    BY <1>3 DEF FindToSave, At
  <2> HIDE DEF h
  <2>3. Free(h)
    BY <2>1 DEF Owe, Draw, Saving
  <2> QED
    BY <1>1, <1>2, <2>2, <2>3
<1>4. {"update", "suspend", "activate"} \subseteq Op \ {"regenerate"}
  BY DEF Op
<1>5. ASSUME NEW h, Become(r, h),
             h.at \in {"idle", "mail", "answer", "remove", "findClient", "generate"},
             req[r].at \in {"idle", "mail", "answer", "remove", "findClient", "generate"}
      PROVE  Same
  BY <1>1, <1>2, <1>5
<1>6. ASSUME NEW c \in Client, RemoveFind(r, c) \/ ConsumePendingSecret(r, c)
      PROVE  Same /\ UNCHANGED <<drawn, told>>
  <2>1. PICK h : Become(r, h) /\ h.at \in {"remove", "findClient"}
    <3>1. /\ [at |-> "remove", id |-> c].at = "remove"
          /\ [at |-> "findClient", id |-> c,
              secret |-> pending[PendingKey(c)]].at = "findClient"
      OBVIOUS
    <3> QED
      BY <1>6, <3>1 DEF RemoveFind, ConsumePendingSecret
  <2> QED
    BY <1>5, <1>6, <2>1 DEF RemoveFind, ConsumePendingSecret, At, history
<1>7. ASSUME NEW l \in Link, ConsumeLink(r, l) \/ GenerateLink(r, l)
      PROVE  Same /\ UNCHANGED <<drawn, told>>
  <2>1. PICK h : Become(r, h) /\ h.at \in {"mail", "answer"}
    <3>1. /\ [at |-> "mail", link |-> l].at = "mail"
          /\ [at |-> "answer", link |-> l].at = "answer"
      OBVIOUS
    <3> QED
      BY <1>7, <3>1 DEF ConsumeLink, GenerateLink
  <2> QED
    BY <1>5, <1>7, <2>1 DEF ConsumeLink, GenerateLink, At, history
<1>8. ASSUME RemoveCommit(r) \/ SendMail(r) \/ Show(r)
      PROVE  Same /\ UNCHANGED <<drawn, told>>
  BY <1>5, <1>8, IdleIs DEF RemoveCommit, SendMail, Show, At, history
<1>9. ASSUME SendFindClient(r)
      PROVE  Same /\ UNCHANGED <<drawn, told>>
  <2> DEFINE h == [at |-> "generate", id |-> req[r].id, secret |-> req[r].secret,
                   data |-> clients[req[r].id].data]
  <2>1. h.at = "generate" /\ Become(r, h)
    BY <1>9 DEF SendFindClient
  <2> HIDE DEF h
  <2> QED
    BY <1>5, <1>9, <2>1 DEF SendFindClient, At, history
<1>10. ASSUME StorePendingSecret(r)
       PROVE  Same /\ UNCHANGED <<drawn, told>>
  <2>1. req[r].at = "store" /\ req[r] \in Handler
    BY <1>10, HandlerTypes DEF StorePendingSecret, At
  <2> DEFINE h == [req[r] EXCEPT !.at = "respond"]
  <2>2. h.at = "respond" /\ h.secret = req[r].secret /\ Become(r, h)
    BY <1>10, <2>1 DEF StorePendingSecret, Handler
  <2> HIDE DEF h
  <2>3. \A s \in Secret : Owe(h, s) <=> Owe(req[r], s)
    BY <2>1, <2>2 DEF Owe, Draw, Saving
  <2> QED
    BY <1>1, <1>10, <2>2, <2>3 DEF StorePendingSecret, history
<1>11. ASSUME Select(r)
       PROVE  Same /\ UNCHANGED <<drawn, told>>
  <2>1. req[r].at = "select"
    BY <1>11 DEF Select, At
  <2>2. PICK h : /\ Become(r, h) /\ h.at \in {"update", "insert"}
                 /\ h.op = req[r].op /\ h.entity = req[r].entity
    BY <1>11, SelectIs
  <2>3. \A s \in Secret : Owe(h, s) <=> Owe(req[r], s)
    BY <2>1, <2>2 DEF Owe, Draw, Saving
  <2> QED
    BY <1>1, <1>11, <2>2, <2>3 DEF Select, history
<1>12. ASSUME NEW id \in Client, Saved(r, id), req[r].at \in {"update", "insert"}
       PROVE  Same /\ UNCHANGED <<drawn, told>>
  <2> DEFINE h == [at |-> "store", id |-> id, secret |-> req[r].entity.clientSecret]
  <2>1. h.at = "store" /\ h.secret = req[r].entity.clientSecret
    OBVIOUS
  <2>2. Become(r, IF req[r].op = "regenerate" THEN h ELSE Idle)
    BY <1>12 DEF Saved
  <2> HIDE DEF h
  <2>3. CASE req[r].op = "regenerate"
    <3>1. \A s \in Secret : Owe(h, s) <=> Owe(req[r], s)
      BY <1>12, <2>1, <2>3 DEF Owe, Draw, Saving
    <3> QED
      BY <1>1, <1>12, <2>2, <2>3, <3>1 DEF Saved
  <2>4. CASE req[r].op # "regenerate"
    <3>1. \A s \in Secret : ~Owe(req[r], s)
      BY <1>12, <2>4 DEF Owe, Draw, Saving
    <3> QED
      BY <1>1, <1>2, <1>12, <2>2, <2>4, <3>1, IdleIs DEF Saved
  <2> QED
    BY <2>3, <2>4
<1>13. ASSUME Update(r) \/ \E c \in Client : Insert(r, c)
       PROVE  Same /\ UNCHANGED <<drawn, told>>
  BY <1>12, <1>13, HandlerTypes DEF Update, Insert, At, Saving
<1>14. ASSUME NEW c \in Client,
              (\E d \in Data : UpdateClient(r, c, d)) \/ Suspend(r, c) \/ Activate(r, c)
       PROVE  Same /\ UNCHANGED <<drawn, told>>
  BY <1>3, <1>4, <1>14 DEF UpdateClient, Suspend, Activate
<1> HIDE DEF Same
<1>15. Same /\ UNCHANGED <<drawn, told>>
  BY <1>6, <1>7, <1>8, <1>9, <1>10, <1>11, <1>13, <1>14 DEF Rests
<1> QED
  BY <1>15 DEF Same

LEMMA GeneratesIs ==
  ASSUME TypeOK, NEW r \in Request, NEW s \in Secret, Generates(r, s)
  PROVE  /\ s \notin drawn /\ drawn' = drawn \cup {s} /\ UNCHANGED told
         /\ req[r].at = "idle"
         /\ \A q \in Request, u \in Secret :
              Owes(q, u)' <=> IF q = r THEN u = s ELSE Owes(q, u)
<1>1. ASSUME NEW c \in Client, NEW d \in Data, CreateSave(r, c, s, d)
      PROVE  \E h : Become(r, h) /\ \A u \in Secret : Owe(h, u) <=> u = s
  <2> DEFINE h == [at |-> "store", id |-> c, secret |-> s]
  <2>1. h.at = "store" /\ h.secret = s /\ Become(r, h)
    BY <1>1 DEF CreateSave
  <2> HIDE DEF h
  <2> QED
    BY <2>1 DEF Owe, Draw, Saving
<1>2. ASSUME NEW c \in Client, RegenerateSecret(r, c, s)
      PROVE  \E h : Become(r, h) /\ \A u \in Secret : Owe(h, u) <=> u = s
  <2>1. PICK e : e = [clients[c] EXCEPT !.clientSecret = s]
    OBVIOUS
  <2>2. e.clientSecret = s
    BY <1>2, <2>1 DEF RegenerateSecret, TypeOK, Entity
  <2> DEFINE h == [at |-> "select", op |-> "regenerate", id |-> c, entity |-> e]
  <2>3. h.at = "select" /\ h.op = "regenerate" /\ h.entity = e /\ Become(r, h)
    BY <1>2, <2>1 DEF RegenerateSecret, FindToSave
  <2> HIDE DEF h
  <2> QED
    BY <2>2, <2>3 DEF Owe, Draw, Saving
<1>3. /\ s \notin drawn /\ drawn' = drawn \cup {s} /\ UNCHANGED told
      /\ req[r].at = "idle"
  BY DEF Generates, CreateSave, RegenerateSecret, FindToSave, NewSecret, At
<1>4. PICK h : Become(r, h) /\ \A u \in Secret : Owe(h, u) <=> u = s
  BY <1>1, <1>2 DEF Generates
<1> QED
  BY <1>3, <1>4, OwesMoves

(* An answer, or a failure, ends what a request owes. *)
LEMMA EndsIs ==
  ASSUME TypeOK, NEW r \in Request, AnswerSecret(r) \/ Abort(r)
  PROVE  /\ \A q \in Request, u \in Secret : Owes(q, u)' <=> q # r /\ Owes(q, u)
         /\ UNCHANGED drawn
         /\ Abort(r) => UNCHANGED told
         /\ AnswerSecret(r) => \A u \in Secret :
              /\ Owes(r, u) <=> u = req[r].secret
              /\ told'[u] = IF Owes(r, u) THEN told[u] + 1 ELSE told[u]
<1>1. \A u \in Secret : ~Owe(Idle, u)
  BY IdleIs DEF Owe, Draw, Saving
<1>2. Become(r, Idle) /\ UNCHANGED drawn /\ (Abort(r) => UNCHANGED told)
  BY DEF AnswerSecret, Abort, history
<1>3. AnswerSecret(r) => \A u \in Secret :
        /\ Owes(r, u) <=> u = req[r].secret
        /\ told'[u] = IF u = req[r].secret THEN told[u] + 1 ELSE told[u]
  BY DEF AnswerSecret, At, Owes, Draws, TypeOK
<1> QED
  BY <1>1, <1>2, <1>3, OwesMoves

LEMMA StillsIs ==
  ASSUME Expires \/ UNCHANGED vars
  PROVE  /\ UNCHANGED <<drawn, told>>
         /\ \A q \in Request, s \in Secret : Owes(q, s)' <=> Owes(q, s)
<1>1. UNCHANGED <<drawn, told, req>>
  BY DEF Expires, ExpireLink, ExpirePending, vars, history
<1> QED
  BY <1>1 DEF Owes, Draws

LEMMA NextOwing == TypeOK /\ Owing /\ [Next]_vars => Owing'
<1> SUFFICES ASSUME TypeOK, Owing, [Next]_vars
             PROVE  Owing'
  OBVIOUS
<1>1. ASSUME UNCHANGED <<drawn, told>>,
             \A q \in Request, s \in Secret : Owes(q, s)' => Owes(q, s)
      PROVE  Owing'
  BY <1>1 DEF Owing
<1>2. ASSUME NEW r \in Request, NEW s \in Secret, Generates(r, s)
      PROVE  Owing'
  BY <1>2, GeneratesIs DEF Owing
<1>3. ASSUME NEW r \in Request, AnswerSecret(r)
      PROVE  Owing'
  <2> SUFFICES ASSUME NEW s \in Secret
               PROVE  /\ told'[s] <= 1
                      /\ s \notin drawn' =>
                           told'[s] = 0 /\ \A q \in Request : ~Owes(q, s)'
                      /\ \A q \in Request : Owes(q, s)' =>
                           /\ told'[s] = 0
                           /\ \A p \in Request : Owes(p, s)' => p = q
    BY DEF Owing
  <2>1. told'[s] = IF Owes(r, s) THEN told[s] + 1 ELSE told[s]
    BY <1>3, EndsIs
  <2>2. /\ \A q \in Request : Owes(q, s)' <=> q # r /\ Owes(q, s)
        /\ drawn' = drawn
    BY <1>3, EndsIs
  <2>3. told[s] \in Nat
    BY DEF TypeOK
  <2> QED
    BY <2>1, <2>2, <2>3 DEF Owing
<1>4. ASSUME NEW r \in Request, Abort(r)
      PROVE  Owing'
  BY <1>1, <1>4, EndsIs
<1> QED
  BY <1>1, <1>2, <1>3, <1>4, StepIs, RestsKeepsOwes, StillsIs

LEMMA OwingInvariance == Spec => []Owing
<1>1. Init => Owing
  BY IdleIs DEF Init, Owing, Owes, Draws
<1> QED
  BY <1>1, NextOwing, TypeCorrect, PTL DEF Spec

-----------------------------------------------------------------------------
(***************************************************************************)
(* Which row has had a secret.  A new secret is in nobody's entity but its *)
(* request's until the statement that saves it (Accepting), so that the    *)
(* statement does set the column; and what is stored, sent or linked under *)
(* an id was accepted under it, if the row is still there (Carrying): ids  *)
(* are never given twice.                                                  *)
(***************************************************************************)
Known(c) == c \in DOMAIN clients \cup retired

Holds(r, s) == req[r].at \in Saving /\ req[r].entity.clientSecret = s

Renews(r, s) == Holds(r, s) /\ req[r].op = "regenerate"

Accepting ==
  /\ \A c \in DOMAIN clients : <<c, clients[c].clientSecret>> \in accepted
  /\ \A c \in Client, s \in Secret : <<c, s>> \in accepted => s \in drawn
  /\ \A r \in Request : req[r].at \in Saving =>
       Known(req[r].id) /\ req[r].entity.clientSecret \in drawn
  /\ \A r \in Request, s \in Secret : Renews(r, s) =>
       /\ \A c \in Client : <<c, s>> \notin accepted
       /\ \A q \in Request : Holds(q, s) => q = r
       /\ req[r].at = "update" => "clientSecret" \in req[r].columns

Given(s, c) == Known(c) /\ (c \in DOMAIN clients => <<c, s>> \in accepted)

Carrying ==
  /\ \A c \in DOMAIN pending : Given(pending[c], c)
  /\ \A r \in Request :
       /\ req[r].at \in {"store", "findClient"} => Given(req[r].secret, req[r].id)
       /\ req[r].at = "generate" => <<req[r].id, req[r].secret>> \in accepted
  /\ \A l \in DOMAIN links : <<links[l].oauthClientId, links[l].secret>> \in accepted

KnownNext(c) == c \in DOMAIN clients' \cup retired'

GivenNext(s, c) ==
  KnownNext(c) /\ (c \in DOMAIN clients' => <<c, s>> \in accepted')

(* Rows are deleted for good: their ids are not given again. *)
LEMMA RetiredGrows ==
  ASSUME TypeOK, [Next]_vars, NEW c, Known(c)
  PROVE  KnownNext(c) /\ (c \in DOMAIN clients' => c \in DOMAIN clients)
<1>1. ASSUME NEW r \in Request, NEW b \in Client, NEW s \in Secret, NEW d \in Data,
             CreateSave(r, b, s, d)
      PROVE  KnownNext(c) /\ (c \in DOMAIN clients' => c \in DOMAIN clients)
  BY <1>1 DEF CreateSave, Write, InsertRow, NewId, Known, KnownNext
<1>2. ASSUME NEW r \in Request, Update(r)
      PROVE  KnownNext(c) /\ (c \in DOMAIN clients' => c \in DOMAIN clients)
  BY <1>2 DEF Update, Write, Saved, UpdateColumns, Known, KnownNext
<1>3. ASSUME NEW r \in Request, NEW b \in Client, Insert(r, b)
      PROVE  KnownNext(c) /\ (c \in DOMAIN clients' => c \in DOMAIN clients)
  BY <1>3 DEF Insert, Write, Saved, InsertRow, NewId, Known, KnownNext
<1>4. ASSUME NEW r \in Request, RemoveCommit(r)
      PROVE  KnownNext(c) /\ (c \in DOMAIN clients' => c \in DOMAIN clients)
  BY <1>4 DEF RemoveCommit, DeleteRow, Known, KnownNext
<1>5. ASSUME UNCHANGED <<clients, retired>>
      PROVE  KnownNext(c) /\ (c \in DOMAIN clients' => c \in DOMAIN clients)
  BY <1>5 DEF Known, KnownNext
<1>6. ASSUME NEW r \in Request, Start(r)
      PROVE  KnownNext(c) /\ (c \in DOMAIN clients' => c \in DOMAIN clients)
  BY <1>1, <1>5, <1>6 DEF Start, UpdateClient, Suspend, Activate,
     RegenerateSecret, FindToSave, RemoveFind, ConsumePendingSecret, ConsumeLink,
     history
<1>7. ASSUME NEW r \in Request, Resume(r) \/ Abort(r)
      PROVE  KnownNext(c) /\ (c \in DOMAIN clients' => c \in DOMAIN clients)
  BY <1>2, <1>3, <1>4, <1>5, <1>7 DEF Resume, StorePendingSecret, AnswerSecret,
     Select, SendFindClient, SendMail, Show, GenerateLink, Abort, history
<1> QED
  BY <1>5, <1>6, <1>7 DEF Next, ExpireLink, ExpirePending, vars, history

(* What was accepted stays in the history. *)
LEMMA AcceptedGrows == ASSUME [Next]_vars PROVE accepted \subseteq accepted'
<1>1. ASSUME NEW r \in Request, Start(r)
      PROVE  accepted \subseteq accepted'
  BY <1>1 DEF Start, CreateSave, Write, UpdateClient, Suspend, Activate,
     RegenerateSecret, FindToSave, RemoveFind, ConsumePendingSecret, ConsumeLink,
     history
<1>2. ASSUME NEW r \in Request, Resume(r) \/ Abort(r)
      PROVE  accepted \subseteq accepted'
  BY <1>2 DEF Resume, StorePendingSecret, AnswerSecret, Select, Update, Insert,
     Write, RemoveCommit, SendFindClient, SendMail, Show, GenerateLink, Abort,
     history
<1> QED
  BY <1>1, <1>2 DEF Next, ExpireLink, ExpirePending, vars, history

LEMMA GivenStays ==
  ASSUME TypeOK, [Next]_vars, NEW s, NEW c, Given(s, c)
  PROVE  GivenNext(s, c)
BY RetiredGrows, AcceptedGrows DEF Given, GivenNext

(* The holders of a secret, when r moves to h. *)
LEMMA HoldsMoves ==
  ASSUME TypeOK, NEW r \in Request, NEW h, Become(r, h)
  PROVE  /\ \A q \in Request : req'[q] = IF q = r THEN h ELSE req[q]
         /\ \A q \in Request, s \in Secret :
              /\ Holds(q, s)' <=> IF q = r
                   THEN h.at \in Saving /\ h.entity.clientSecret = s
                   ELSE Holds(q, s)
              /\ Renews(q, s)' <=> IF q = r
                   THEN /\ h.at \in Saving /\ h.entity.clientSecret = s
                        /\ h.op = "regenerate"
                   ELSE Renews(q, s)
BY Moves DEF Holds, Renews

(* No statement writes the table.  The entity of r, if it has one, holds   *)
(* what a row has had, or a secret nobody else has.                        *)
LEMMA RowsKeptAccepting ==
  ASSUME TypeOK, [Next]_vars, Accepting, NEW r \in Request, NEW h, Become(r, h),
         \A c \in DOMAIN clients' : c \in DOMAIN clients /\ clients'[c] = clients[c],
         accepted' = accepted, drawn \subseteq drawn',
         h.at \in Saving =>
           /\ Known(h.id) /\ h.entity.clientSecret \in drawn'
           /\ h.entity.clientSecret \in Secret
           /\ h.op # "regenerate" =>
                \A q \in Request \ {r} : ~Renews(q, h.entity.clientSecret)
           /\ h.op = "regenerate" =>
                /\ \A c \in Client : <<c, h.entity.clientSecret>> \notin accepted
                /\ \A q \in Request \ {r} : ~Holds(q, h.entity.clientSecret)
                /\ h.at = "update" => "clientSecret" \in h.columns
  PROVE  Accepting'
<1>1. /\ \A c \in DOMAIN clients' : <<c, clients'[c].clientSecret>> \in accepted'
      /\ \A c \in Client, s \in Secret : <<c, s>> \in accepted' => s \in drawn'
  BY DEF Accepting
<1>2. \A q \in Request : req'[q].at \in Saving =>
        Known(req'[q].id) /\ req'[q].entity.clientSecret \in drawn'
  BY HoldsMoves DEF Accepting
<1>3. \A q \in Request : req'[q].at \in Saving =>
        (Known(req[q].id) /\ req[q].entity.clientSecret \in drawn)'
  BY <1>2, RetiredGrows DEF Known, KnownNext
<1>4. ASSUME NEW q \in Request, NEW s \in Secret, Renews(q, s)'
      PROVE  /\ \A c \in Client : <<c, s>> \notin accepted'
             /\ \A p \in Request : Holds(p, s)' => p = q
             /\ req'[q].at = "update" => "clientSecret" \in req'[q].columns
  <2>1. CASE q = r
    BY <1>4, <2>1, HoldsMoves
  <2>2. CASE q # r
    BY <1>4, <2>2, HoldsMoves DEF Accepting, Renews
  <2> QED
    BY <2>1, <2>2
<1> QED
  BY <1>1, <1>3, <1>4 DEF Accepting

(* A statement writes the table: one secret x at most comes to a row, and  *)
(* it is not one that another request is to save.                          *)
LEMMA WrittenAccepting ==
  ASSUME TypeOK, [Next]_vars, Accepting, NEW r \in Request, NEW h, Become(r, h),
         h.at \notin Saving, NEW table, Write(table), NEW x \in Secret,
         x \in drawn', drawn \subseteq drawn',
         \A c \in DOMAIN table :
           \/ table[c].clientSecret = x
           \/ c \in DOMAIN clients /\ table[c].clientSecret = clients[c].clientSecret,
         \A q \in Request \ {r} : ~Renews(q, x)
  PROVE  Accepting'
<1>1. \A c \in Client, s \in Secret :
        <<c, s>> \in accepted' => <<c, s>> \in accepted \/ s = x
  BY DEF Write, Accepting
<1>2. /\ \A c \in DOMAIN clients' : <<c, clients'[c].clientSecret>> \in accepted'
      /\ \A c \in Client, s \in Secret : <<c, s>> \in accepted' => s \in drawn'
  BY <1>1 DEF Write, Accepting
<1>3. \A q \in Request : req'[q].at \in Saving =>
        (Known(req[q].id) /\ req[q].entity.clientSecret \in drawn)'
  BY HoldsMoves, RetiredGrows DEF Accepting, Known, KnownNext
<1>4. ASSUME NEW q \in Request, NEW s \in Secret, Renews(q, s)'
      PROVE  /\ \A c \in Client : <<c, s>> \notin accepted'
             /\ \A p \in Request : Holds(p, s)' => p = q
             /\ req'[q].at = "update" => "clientSecret" \in req'[q].columns
  <2>1. q # r /\ Renews(q, s) /\ req'[q] = req[q]
    BY <1>4, HoldsMoves
  <2>2. s # x
    BY <2>1
  <2>3. \A p \in Request : Holds(p, s)' => Holds(p, s)
    BY HoldsMoves
  <2> QED
    BY <1>1, <2>1, <2>2, <2>3 DEF Accepting
<1> QED
  BY <1>2, <1>3, <1>4 DEF Accepting

LEMMA FindToSaveAccepting ==
  ASSUME TypeOK, [Next]_vars, Accepting, NEW r \in Request, NEW c \in Client,
         NEW op \in Op \ {"regenerate"}, NEW entity,
         FindToSave(r, c, op, entity), UNCHANGED drawn,
         entity.clientSecret = clients[c].clientSecret
  PROVE  Accepting'
<1> DEFINE h == [at |-> "select", op |-> op, id |-> c, entity |-> entity]
<1>1. /\ h.at = "select" /\ h.op = op /\ h.id = c /\ h.entity = entity
      /\ Become(r, h) /\ c \in DOMAIN clients /\ UNCHANGED <<clients, accepted>>
  BY DEF FindToSave
<1> HIDE DEF h
<1>2. /\ clients[c].clientSecret \in Secret
      /\ <<c, clients[c].clientSecret>> \in accepted
      /\ clients[c].clientSecret \in drawn
  BY <1>1 DEF TypeOK, Entity, Accepting
<1>3. \A q \in Request : ~Renews(q, clients[c].clientSecret)
  BY <1>2 DEF Accepting
<1> QED
  BY <1>1, <1>2, <1>3, RowsKeptAccepting DEF Known

LEMMA StartAccepting ==
  ASSUME TypeOK, [Next]_vars, Accepting, NEW r \in Request, Start(r)
  PROVE  Accepting'
<1>1. ASSUME NEW c \in Client, NEW s \in Secret, NEW d \in Data,
             CreateSave(r, c, s, d)
      PROVE  Accepting'
  <2> DEFINE h == [at |-> "store", id |-> c, secret |-> s]
             row == [clientSecret |-> s, isActive |-> TRUE, data |-> d]
             table == InsertRow(clients, c, row)
  <2>1. h.at \notin Saving /\ Become(r, h) /\ Write(table) /\ NewSecret(s)
    BY <1>1 DEF CreateSave, Saving
  <2>2. \A b \in DOMAIN table :
          \/ table[b].clientSecret = s
          \/ b \in DOMAIN clients /\ table[b].clientSecret = clients[b].clientSecret
    BY DEF InsertRow
  <2> HIDE DEF h, table
  <2>3. \A q \in Request \ {r} : ~Renews(q, s)
    BY <2>1 DEF Accepting, Renews, Holds, NewSecret
  <2> QED
    BY <2>1, <2>2, <2>3, WrittenAccepting DEF NewSecret
<1>2. ASSUME NEW c \in Client, NEW d \in Data, UpdateClient(r, c, d)
      PROVE  Accepting'
  <2>1. Assigned(clients[c], d).clientSecret = clients[c].clientSecret
    BY <1>2 DEF UpdateClient, Assigned, TypeOK, Entity
  <2>2. "update" \in Op \ {"regenerate"}
    BY DEF Op
  <2> QED
    BY <1>2, <2>1, <2>2, FindToSaveAccepting DEF UpdateClient
<1>3. ASSUME NEW c \in Client, Suspend(r, c) \/ Activate(r, c)
      PROVE  Accepting'
  <2>1. /\ Suspend(r, c) => [clients[c] EXCEPT !.isActive = FALSE].clientSecret
                              = clients[c].clientSecret
        /\ Activate(r, c) => [clients[c] EXCEPT !.isActive = TRUE].clientSecret
                               = clients[c].clientSecret
    BY DEF Suspend, Activate, TypeOK, Entity
  <2>2. {"suspend", "activate"} \subseteq Op \ {"regenerate"}
    BY DEF Op
  <2> QED
    BY <1>3, <2>1, <2>2, FindToSaveAccepting DEF Suspend, Activate
<1>4. ASSUME NEW c \in Client, NEW s \in Secret, RegenerateSecret(r, c, s)
      PROVE  Accepting'
  <2>1. PICK e : e = [clients[c] EXCEPT !.clientSecret = s]
    OBVIOUS
  <2>2. e.clientSecret = s
    BY <1>4, <2>1 DEF RegenerateSecret, TypeOK, Entity
  <2> DEFINE h == [at |-> "select", op |-> "regenerate", id |-> c, entity |-> e]
  <2>3. /\ h.at = "select" /\ h.op = "regenerate" /\ h.id = c /\ h.entity = e
        /\ Become(r, h) /\ c \in DOMAIN clients
        /\ UNCHANGED <<clients, accepted>> /\ NewSecret(s)
    BY <1>4, <2>1 DEF RegenerateSecret, FindToSave
  <2> HIDE DEF h
  <2>4. /\ \A b \in Client : <<b, s>> \notin accepted
        /\ \A q \in Request : ~Holds(q, s)
    BY <2>3 DEF Accepting, NewSecret, Holds
  <2> QED
    BY <2>2, <2>3, <2>4, RowsKeptAccepting DEF NewSecret, Known
<1>5. ASSUME NEW c \in Client, RemoveFind(r, c) \/ ConsumePendingSecret(r, c)
      PROVE  Accepting'
  <2>1. PICK h : Become(r, h) /\ h.at \notin Saving
    <3>1. /\ [at |-> "remove", id |-> c].at \notin Saving
          /\ [at |-> "findClient", id |-> c,
              secret |-> pending[PendingKey(c)]].at \notin Saving
      BY DEF Saving
    <3> QED
      BY <1>5, <3>1 DEF RemoveFind, ConsumePendingSecret
  <2>2. UNCHANGED <<clients, accepted, drawn>>
    BY <1>5 DEF RemoveFind, ConsumePendingSecret, history
  <2> QED
    BY <2>1, <2>2, RowsKeptAccepting
<1>6. ASSUME NEW l \in Link, ConsumeLink(r, l)
      PROVE  Accepting'
  <2> DEFINE h == [at |-> "answer", link |-> l]
  <2>1. /\ Become(r, h) /\ h.at \notin Saving
        /\ UNCHANGED <<clients, accepted, drawn>>
    BY <1>6 DEF ConsumeLink, Saving, history
  <2> HIDE DEF h
  <2> QED
    BY <2>1, RowsKeptAccepting
<1> QED
  BY <1>1, <1>2, <1>3, <1>4, <1>5, <1>6 DEF Start

LEMMA SelectAccepting ==
  ASSUME TypeOK, [Next]_vars, Accepting, NEW r \in Request, Select(r)
  PROVE  Accepting'
<1>1. /\ req[r].at \in Saving /\ req[r].entity \in Entity /\ req[r].id \in Client
      /\ UNCHANGED <<clients, accepted, drawn>>
  BY HandlerTypes DEF Select, At, Saving, history
<1>2. PICK h : /\ Become(r, h) /\ h.at \in {"update", "insert"}
               /\ h.op = req[r].op /\ h.id = req[r].id /\ h.entity = req[r].entity
               /\ h.at = "update" => /\ h.id \in DOMAIN clients
                                     /\ h.columns = Changed(clients, h.id, h.entity)
  BY SelectIs
<1>3. PICK x \in Secret : x = h.entity.clientSecret /\ x = h.entity["clientSecret"]
  BY <1>1, <1>2 DEF Entity
<1>4. Holds(r, x) /\ Known(h.id) /\ x \in drawn
  BY <1>1, <1>2, <1>3 DEF Holds, Accepting
<1>5. \A q \in Request \ {r} : ~Renews(q, x)
  BY <1>4 DEF Accepting
<1>6. ASSUME h.op = "regenerate"
      PROVE  /\ \A c \in Client : <<c, x>> \notin accepted
             /\ \A q \in Request \ {r} : ~Holds(q, x)
             /\ h.at = "update" => "clientSecret" \in h.columns
  <2>1. Renews(r, x)
    BY <1>2, <1>4, <1>6 DEF Renews
  <2>2. \A c \in Client : <<c, x>> \notin accepted
    BY <2>1 DEF Accepting
  <2>3. h.at = "update" => clients[h.id]["clientSecret"] # x
    BY <1>1, <1>2, <2>2 DEF Accepting
  <2>4. h.at = "update" => "clientSecret" \in h.columns
    BY <1>1, <1>2, <1>3, <2>3 DEF Changed, Entity
  <2> QED
    BY <2>1, <2>2, <2>4 DEF Accepting
<1> QED
  BY <1>1, <1>2, <1>3, <1>4, <1>5, <1>6, RowsKeptAccepting

(* What the two statements of save leave in the row, and in the history.   *)
LEMMA UpdateIs ==
  ASSUME TypeOK, NEW r \in Request, Update(r)
  PROVE  /\ DOMAIN clients' = DOMAIN clients
         /\ \A b \in DOMAIN clients :
              \/ clients'[b].clientSecret = req[r].entity.clientSecret
              \/ clients'[b].clientSecret = clients[b].clientSecret
         /\ "clientSecret" \in req[r].columns /\ req[r].id \in DOMAIN clients =>
              clients'[req[r].id].clientSecret = req[r].entity.clientSecret
<1>1. \A b \in DOMAIN clients : "clientSecret" \in DOMAIN clients[b]
  BY DEF TypeOK, Entity
<1>2. clients' = [b \in DOMAIN clients |->
        IF b = req[r].id
          THEN [k \in DOMAIN clients[b] |->
                  IF k \in req[r].columns THEN req[r].entity[k] ELSE clients[b][k]]
          ELSE clients[b]]
  BY DEF Update, Write, UpdateColumns
<1>3. \A b \in DOMAIN clients :
        clients'[b]["clientSecret"] =
          IF b = req[r].id /\ "clientSecret" \in req[r].columns
            THEN req[r].entity["clientSecret"] ELSE clients[b]["clientSecret"]
  BY <1>1, <1>2
<1> QED
  BY <1>2, <1>3

LEMMA SaveAccepting ==
  ASSUME TypeOK, [Next]_vars, Accepting, NEW r \in Request,
         Update(r) \/ \E c \in Client : Insert(r, c)
  PROVE  Accepting'
<1>1. PICK x \in Secret : x = req[r].entity.clientSecret
  BY HandlerTypes DEF Update, Insert, At, Saving, Entity
<1>2. x \in drawn /\ \A q \in Request \ {r} : ~Renews(q, x)
  <2>1. Holds(r, x)
    BY <1>1 DEF Update, Insert, At, Saving, Holds
  <2> QED
    BY <2>1, <1>1 DEF Holds, Accepting
<1>3. ASSUME NEW id \in Client, Saved(r, id)
      PROVE  drawn' = drawn /\ \E h : Become(r, h) /\ h.at \notin Saving
  <2> DEFINE h == [at |-> "store", id |-> id, secret |-> req[r].entity.clientSecret]
  <2>1. h.at \notin Saving /\ Idle.at \notin Saving
    BY IdleIs DEF Saving
  <2>2. Become(r, h) \/ Become(r, Idle)
    BY <1>3 DEF Saved
  <2> HIDE DEF h
  <2> QED
    BY <1>3, <2>1, <2>2 DEF Saved
<1>4. CASE Update(r)
  <2>1. PICK table : table = clients'
    OBVIOUS
  <2>2. /\ Write(table)
        /\ \A c \in DOMAIN table :
             \/ table[c].clientSecret = x
             \/ c \in DOMAIN clients
                  /\ table[c].clientSecret = clients[c].clientSecret
    BY <1>1, <1>4, <2>1, UpdateIs DEF Update, Write
  <2>3. drawn' = drawn /\ \E h : Become(r, h) /\ h.at \notin Saving
    BY <1>3, <1>4, HandlerTypes DEF Update, At, Saving
  <2> QED
    BY <1>2, <2>2, <2>3, WrittenAccepting
<1>5. ASSUME NEW c \in Client, Insert(r, c)
      PROVE  Accepting'
  <2> DEFINE table == InsertRow(clients, c, req[r].entity)
  <2>1. /\ Write(table)
        /\ \A b \in DOMAIN table :
             \/ table[b].clientSecret = x
             \/ b \in DOMAIN clients
                  /\ table[b].clientSecret = clients[b].clientSecret
    BY <1>1, <1>5 DEF Insert, InsertRow
  <2> HIDE DEF table
  <2>2. drawn' = drawn /\ \E h : Become(r, h) /\ h.at \notin Saving
    BY <1>3, <1>5 DEF Insert
  <2> QED
    BY <1>2, <2>1, <2>2, WrittenAccepting
<1> QED
  BY <1>4, <1>5

LEMMA NextAccepting == TypeOK /\ Accepting /\ [Next]_vars => Accepting'
<1> SUFFICES ASSUME TypeOK, Accepting, [Next]_vars
             PROVE  Accepting'
  OBVIOUS
<1>1. ASSUME NEW r \in Request, NEW h, Become(r, h), h.at \notin Saving,
             \A c \in DOMAIN clients' : c \in DOMAIN clients /\ clients'[c] = clients[c],
             UNCHANGED <<accepted, drawn>>
      PROVE  Accepting'
  BY <1>1, RowsKeptAccepting
<1>2. Idle.at \notin Saving
  BY IdleIs DEF Saving
<1>3. ASSUME NEW r \in Request, AnswerSecret(r) \/ SendMail(r) \/ Show(r) \/ Abort(r)
      PROVE  Accepting'
  BY <1>1, <1>2, <1>3 DEF AnswerSecret, SendMail, Show, Abort, history
<1>4. ASSUME NEW r \in Request, RemoveCommit(r)
      PROVE  Accepting'
  BY <1>1, <1>2, <1>4 DEF RemoveCommit, DeleteRow
<1>5. ASSUME NEW r \in Request, StorePendingSecret(r)
      PROVE  Accepting'
  <2>1. req[r] \in Handler /\ req[r].at = "store"
    BY <1>5, HandlerTypes DEF StorePendingSecret, At
  <2> DEFINE h == [req[r] EXCEPT !.at = "respond"]
  <2>2. h.at \notin Saving /\ Become(r, h)
    BY <1>5, <2>1 DEF StorePendingSecret, Handler, Saving
  <2> HIDE DEF h
  <2> QED
    BY <1>1, <1>5, <2>2 DEF StorePendingSecret, history
<1>6. ASSUME NEW r \in Request, SendFindClient(r)
      PROVE  Accepting'
  <2> DEFINE h == [at |-> "generate", id |-> req[r].id, secret |-> req[r].secret,
                   data |-> clients[req[r].id].data]
  <2>1. h.at \notin Saving /\ Become(r, h)
    BY <1>6 DEF SendFindClient, Saving
  <2> HIDE DEF h
  <2> QED
    BY <1>1, <1>6, <2>1 DEF SendFindClient, history
<1>7. ASSUME NEW r \in Request, NEW l \in Link, GenerateLink(r, l)
      PROVE  Accepting'
  <2> DEFINE h == [at |-> "mail", link |-> l]
  <2>1. h.at \notin Saving /\ Become(r, h)
    BY <1>7 DEF GenerateLink, Saving
  <2> HIDE DEF h
  <2> QED
    BY <1>1, <1>7, <2>1 DEF GenerateLink, history
<1>8. ASSUME NEW r \in Request, Resume(r)
      PROVE  Accepting'
  BY <1>3, <1>4, <1>5, <1>6, <1>7, <1>8, SelectAccepting, SaveAccepting DEF Resume
<1>9. ASSUME UNCHANGED <<clients, req, accepted, drawn, retired>>
      PROVE  Accepting'
  BY <1>9 DEF Accepting, Known, Holds, Renews
<1> QED
  BY <1>3, <1>8, <1>9, StartAccepting
     DEF Next, ExpireLink, ExpirePending, vars, history

LEMMA CarryingMoves ==
  ASSUME TypeOK, [Next]_vars, Carrying, NEW r \in Request, NEW h, Become(r, h),
         \A c \in DOMAIN pending' :
           \/ c \in DOMAIN pending /\ pending'[c] = pending[c]
           \/ Given(pending'[c], c),
         \A l \in DOMAIN links' :
           \/ /\ l \in DOMAIN links /\ links'[l].secret = links[l].secret
              /\ links'[l].oauthClientId = links[l].oauthClientId
           \/ <<links'[l].oauthClientId, links'[l].secret>> \in accepted,
         h.at \in {"store", "findClient"} => GivenNext(h.secret, h.id),
         h.at = "generate" => <<h.id, h.secret>> \in accepted
  PROVE  Carrying'
<1>1. \A c \in DOMAIN pending' : GivenNext(pending'[c], c)
  BY GivenStays DEF Carrying
<1>2. \A q \in Request : req'[q] = IF q = r THEN h ELSE req[q]
  BY HoldsMoves
<1>3. ASSUME NEW q \in Request
      PROVE  /\ req'[q].at \in {"store", "findClient"} =>
                  GivenNext(req'[q].secret, req'[q].id)
             /\ req'[q].at = "generate" =>
                  <<req'[q].id, req'[q].secret>> \in accepted'
  <2>1. CASE q = r
    BY <1>2, <2>1, AcceptedGrows
  <2>2. CASE q # r
    BY <1>2, <2>2, GivenStays, AcceptedGrows DEF Carrying
  <2> QED
    BY <2>1, <2>2
<1>4. \A l \in DOMAIN links' :
        <<links'[l].oauthClientId, links'[l].secret>> \in accepted'
  BY AcceptedGrows DEF Carrying
<1> QED
  BY <1>1, <1>3, <1>4 DEF Carrying, Given, Known, GivenNext, KnownNext

(* A row that is saved has accepted its secret; one that has gone while it *)
(* was updated is not known again.                                         *)
LEMMA SaveCarrying ==
  ASSUME TypeOK, [Next]_vars, Accepting, Carrying, NEW r \in Request,
         Update(r) \/ \E c \in Client : Insert(r, c)
  PROVE  Carrying'
<1>1. ASSUME NEW id \in Client, Saved(r, id),
             req[r].op = "regenerate" => GivenNext(req[r].entity.clientSecret, id)
      PROVE  Carrying'
  <2> DEFINE h == [at |-> "store", id |-> id, secret |-> req[r].entity.clientSecret]
  <2>1. /\ h.at = "store" /\ h.id = id /\ h.secret = req[r].entity.clientSecret
        /\ Become(r, IF req[r].op = "regenerate" THEN h ELSE Idle)
        /\ UNCHANGED <<pending, links>>
    BY <1>1 DEF Saved
  <2> HIDE DEF h
  <2>2. CASE req[r].op = "regenerate"
    BY <1>1, <2>1, <2>2, CarryingMoves
  <2>3. CASE req[r].op # "regenerate"
    BY <2>1, <2>3, IdleIs, CarryingMoves
  <2> QED
    BY <2>2, <2>3
<1>2. CASE Update(r)
  <2>1. /\ req[r].at = "update" /\ req[r].id \in Client /\ Saved(r, req[r].id)
        /\ req[r].entity.clientSecret \in Secret
    BY <1>2, HandlerTypes DEF Update, At, Saving, Entity
  <2>2. KnownNext(req[r].id)
    BY <2>1, RetiredGrows DEF Accepting, Saving
  <2>3. ASSUME req[r].op = "regenerate", req[r].id \in DOMAIN clients'
        PROVE  <<req[r].id, req[r].entity.clientSecret>> \in accepted'
    <3>1. Renews(r, req[r].entity.clientSecret)
      BY <2>1, <2>3 DEF Renews, Holds, Saving
    <3>2. "clientSecret" \in req[r].columns
      BY <2>1, <3>1 DEF Accepting
    <3>3. clients'[req[r].id].clientSecret = req[r].entity.clientSecret
      BY <1>2, <2>3, <3>2, UpdateIs
    <3> QED
      BY <1>2, <2>3, <3>3 DEF Update, Write
  <2> QED
    BY <1>1, <2>1, <2>2, <2>3 DEF GivenNext
<1>3. ASSUME NEW c \in Client, Insert(r, c)
      PROVE  Carrying'
  <2>1. /\ c \in DOMAIN clients' /\ clients'[c] = req[r].entity /\ Saved(r, c)
    BY <1>3 DEF Insert, Write, InsertRow
  <2>2. <<c, req[r].entity.clientSecret>> \in accepted'
    BY <1>3, <2>1 DEF Insert, Write
  <2> QED
    BY <1>1, <2>1, <2>2 DEF GivenNext, KnownNext
<1> QED
  BY <1>2, <1>3

LEMMA StartCarrying ==
  ASSUME TypeOK, [Next]_vars, Carrying, NEW r \in Request, Start(r)
  PROVE  Carrying'
<1>1. ASSUME NEW c \in Client, NEW s \in Secret, NEW d \in Data,
             CreateSave(r, c, s, d)
      PROVE  Carrying'
  <2> DEFINE h == [at |-> "store", id |-> c, secret |-> s]
  <2>1. /\ h.at = "store" /\ h.id = c /\ h.secret = s /\ Become(r, h)
        /\ UNCHANGED <<pending, links>>
    BY <1>1 DEF CreateSave
  <2> HIDE DEF h
  <2>2. c \in DOMAIN clients' /\ clients'[c].clientSecret = s
    BY <1>1 DEF CreateSave, Write, InsertRow
  <2>3. <<c, s>> \in accepted'
    BY <1>1, <2>2 DEF CreateSave, Write
  <2> QED
    BY <2>1, <2>2, <2>3, CarryingMoves DEF GivenNext, KnownNext
<1>2. ASSUME NEW c \in Client, NEW op, NEW entity, FindToSave(r, c, op, entity)
      PROVE  Carrying'
  <2> DEFINE h == [at |-> "select", op |-> op, id |-> c, entity |-> entity]
  <2>1. h.at = "select" /\ Become(r, h) /\ UNCHANGED <<pending, links>>
    BY <1>2 DEF FindToSave
  <2> HIDE DEF h
  <2> QED
    BY <2>1, CarryingMoves
<1>3. ASSUME NEW c \in Client, RemoveFind(r, c)
      PROVE  Carrying'
  <2> DEFINE h == [at |-> "remove", id |-> c]
  <2>1. h.at = "remove" /\ Become(r, h) /\ UNCHANGED <<pending, links>>
    BY <1>3 DEF RemoveFind
  <2> HIDE DEF h
  <2> QED
    BY <2>1, CarryingMoves
<1>4. ASSUME NEW c \in Client, ConsumePendingSecret(r, c)
      PROVE  Carrying'
  <2> DEFINE h == [at |-> "findClient", id |-> c, secret |-> pending[c]]
  <2>1. /\ h.at = "findClient" /\ h.id = c /\ h.secret = pending[c] /\ Become(r, h)
        /\ c \in DOMAIN pending /\ pending' = Without(pending, c)
        /\ UNCHANGED links
    BY <1>4 DEF ConsumePendingSecret, PendingKey, Taken
  <2> HIDE DEF h
  <2>2. GivenNext(h.secret, h.id)
    BY <2>1, GivenStays DEF Carrying
  <2> QED
    BY <2>1, <2>2, CarryingMoves DEF Without
<1>5. ASSUME NEW l \in Link, ConsumeLink(r, l)
      PROVE  Carrying'
  <2> DEFINE h == [at |-> "answer", link |-> l]
  <2>1. /\ h.at = "answer" /\ Become(r, h) /\ UNCHANGED pending
        /\ l \in DOMAIN links /\ links' = MarkUsed(links, l)
    BY <1>5 DEF ConsumeLink, TypeOK
  <2> HIDE DEF h
  <2>2. \A k \in DOMAIN links' :
          /\ k \in DOMAIN links /\ links'[k].secret = links[k].secret
          /\ links'[k].oauthClientId = links[k].oauthClientId
    BY <2>1, MarkUsedIs DEF TypeOK
  <2> QED
    BY <2>1, <2>2, CarryingMoves
<1> QED
  BY <1>1, <1>2, <1>3, <1>4, <1>5
     DEF Start, UpdateClient, Suspend, Activate, RegenerateSecret

LEMMA ResumeCarrying ==
  ASSUME TypeOK, [Next]_vars, Accepting, Carrying, NEW r \in Request,
         Resume(r) \/ Abort(r)
  PROVE  Carrying'
<1>1. CASE AnswerSecret(r) \/ RemoveCommit(r) \/ SendMail(r) \/ Show(r) \/ Abort(r)
  <2>1. Become(r, Idle) /\ UNCHANGED <<pending, links>>
    BY <1>1 DEF AnswerSecret, RemoveCommit, SendMail, Show, Abort, history
  <2> QED
    BY <2>1, IdleIs, CarryingMoves
<1>2. CASE StorePendingSecret(r)
  <2>1. req[r] \in Handler /\ req[r].at = "store"
    BY <1>2, HandlerTypes DEF StorePendingSecret, At
  <2> DEFINE h == [req[r] EXCEPT !.at = "respond"]
  <2>2. h.at = "respond" /\ Become(r, h) /\ UNCHANGED links
    BY <1>2, <2>1 DEF StorePendingSecret, Handler
  <2> HIDE DEF h
  <2>3. pending' = Put(pending, req[r].id, req[r].secret)
    BY <1>2 DEF StorePendingSecret, PendingKey
  <2>4. Given(req[r].secret, req[r].id)
    BY <2>1 DEF Carrying
  <2>5. \A c \in DOMAIN pending' :
          \/ c \in DOMAIN pending /\ pending'[c] = pending[c]
          \/ Given(pending'[c], c)
    BY <2>3, <2>4 DEF Put
  <2> QED
    BY <2>2, <2>5, CarryingMoves
<1>3. CASE Select(r)
  <2>1. /\ \E h : Become(r, h) /\ h.at \in {"update", "insert"}
        /\ UNCHANGED <<pending, links>>
    BY <1>3, SelectIs DEF Select
  <2> QED
    BY <2>1, CarryingMoves
<1>4. CASE SendFindClient(r)
  <2> DEFINE h == [at |-> "generate", id |-> req[r].id, secret |-> req[r].secret,
                   data |-> clients[req[r].id].data]
  <2>1. /\ h.at = "generate" /\ h.id = req[r].id /\ h.secret = req[r].secret
        /\ Become(r, h) /\ UNCHANGED <<pending, links>>
        /\ req[r].at = "findClient" /\ req[r].id \in DOMAIN clients
    BY <1>4 DEF SendFindClient, At
  <2> HIDE DEF h
  <2>2. <<req[r].id, req[r].secret>> \in accepted
    BY <2>1 DEF Carrying, Given
  <2> QED
    BY <2>1, <2>2, CarryingMoves
<1>5. ASSUME NEW l \in Link, GenerateLink(r, l)
      PROVE  Carrying'
  <2> DEFINE h == [at |-> "mail", link |-> l]
  <2>1. /\ h.at = "mail" /\ Become(r, h) /\ UNCHANGED pending
        /\ req[r].at = "generate"
        /\ links' = Generate(links, l, req[r].id, req[r].secret, req[r].data)
    BY <1>5 DEF GenerateLink, At
  <2> HIDE DEF h
  <2>2. <<req[r].id, req[r].secret>> \in accepted
    BY <2>1 DEF Carrying
  <2>3. \A k \in DOMAIN links' :
          \/ /\ k \in DOMAIN links /\ links'[k].secret = links[k].secret
             /\ links'[k].oauthClientId = links[k].oauthClientId
          \/ <<links'[k].oauthClientId, links'[k].secret>> \in accepted
    BY <2>1, <2>2 DEF Generate
  <2> QED
    BY <2>1, <2>3, CarryingMoves
<1> QED
  BY <1>1, <1>2, <1>3, <1>4, <1>5, SaveCarrying DEF Resume

LEMMA NextCarrying == TypeOK /\ Accepting /\ Carrying /\ [Next]_vars => Carrying'
<1> SUFFICES ASSUME TypeOK, Accepting, Carrying, [Next]_vars
             PROVE  Carrying'
  OBVIOUS
<1>1. ASSUME NEW l \in Link, ExpireLink(l)
      PROVE  Carrying'
  <2>1. /\ l \in DOMAIN links /\ links' = [links EXCEPT ![l].expired = TRUE]
        /\ UNCHANGED <<clients, pending, req, accepted, retired>>
    BY <1>1 DEF ExpireLink, history
  <2>2. \A k \in DOMAIN links' :
          /\ k \in DOMAIN links /\ links'[k].secret = links[k].secret
          /\ links'[k].oauthClientId = links[k].oauthClientId
    BY <2>1, ExpireIs
  <2> QED
    BY <2>1, <2>2 DEF Carrying, Given, Known
<1>2. ASSUME NEW c \in Client, ExpirePending(c)
      PROVE  Carrying'
  BY <1>2 DEF ExpirePending, Without, Carrying, Given, Known, history
<1>3. CASE UNCHANGED vars
  BY <1>3 DEF vars, history, Carrying, Given, Known
<1> QED
  BY <1>1, <1>2, <1>3, StartCarrying, ResumeCarrying DEF Next

LEMMA CarryingInvariance == Spec => []Carrying
<1>1. Init => Accepting /\ Carrying
  BY IdleIs DEF Init, Nothing, Accepting, Carrying, Holds, Renews, Saving
<1> QED
  BY <1>1, NextAccepting, NextCarrying, TypeCorrect, PTL DEF Spec

(* The secret in a link is one that the row it names has had as its own.   *)
THEOREM OwnSecretHolds == Spec => []OwnSecret
<1>1. Carrying => OwnSecret
  BY DEF Carrying, OwnSecret
<1> QED
  BY <1>1, CarryingInvariance, PTL

(* A secret can be sent from one place at most, its link shows it once,    *)
(* and the admin who had it generated is told of it once.                  *)
THEOREM ShownOnceHolds == Spec => []ShownOnce
<1>1. Inv /\ Owing => ShownOnce
  <2> SUFFICES ASSUME Inv, Owing, NEW s \in Secret
               PROVE  /\ \A p, q \in Places(s) : p = q
                      /\ \A l \in DOMAIN links : links[l].secret = s => shown[l] <= 1
                      /\ told[s] <= 1
    BY DEF ShownOnce
  <2>1. Alone(s)
    BY DEF Inv, Exclusive
  <2>2. \A p \in Places(s) :
          \/ \E c \in Client : p = <<"pending", c>> /\ InPending(c, s)
          \/ \E r \in Request : p = <<"request", r>> /\ Keeps(r, s)
          \/ \E l \in Link : p = <<"link", l>> /\ InLink(l, s)
    BY DEF Places, InPending, InLink, Keeps, Draws, Inv, TypeOK
  <2>4. \A p, q \in Places(s) : p = q
    BY <2>1, <2>2 DEF Alone
  <2>5. \A l \in DOMAIN links : shown[l] <= 1
    BY DEF Inv, Answered, TypeOK
  <2> QED
    BY <2>4, <2>5 DEF Owing
<1> QED
  BY <1>1, Invariance, OwingInvariance, PTL

-----------------------------------------------------------------------------
(* A request that moves to h may make c active only if h does. *)
LEMMA MayActivateNext ==
  ASSUME TypeOK, NEW c \in Client, NEW r \in Request, NEW h, Become(r, h),
         \A q \in Request : ~MayActivate(q, c),
         h.at \in Saving /\ h.id = c /\ h.entity.isActive => h.op = "activate"
  PROVE  \A q \in Request : MayActivate(q, c)' => req'[q].op = "activate"
BY Moves DEF MayActivate, Saving

(* Once a suspension has settled, nothing but an activation ends it. *)
THEOREM SuspendedUntilActivatedHolds == Spec => SuspendedUntilActivated
<1>1. TypeOK /\ [Next]_vars =>
        [\A c \in Client :
           Suspended(c) /\ (\A r \in Request : ~MayActivate(r, c)) =>
             /\ c \in DOMAIN clients' => Suspended(c)'
             /\ \A r \in Request :
                  MayActivate(r, c)' => req'[r].op = "activate"]_vars
  <2> SUFFICES ASSUME TypeOK, [Next]_vars, NEW c \in Client, Suspended(c),
                      \A r \in Request : ~MayActivate(r, c)
               PROVE  /\ c \in DOMAIN clients' => Suspended(c)'
                      /\ \A r \in Request :
                           MayActivate(r, c)' => req'[r].op = "activate"
    OBVIOUS
  <2> DEFINE Settled == \A r \in Request :
                          MayActivate(r, c)' => req'[r].op = "activate"
             Stays == c \in DOMAIN clients' => Suspended(c)'
  <2>1. c \in DOMAIN clients /\ clients[c] \in Entity /\ ~clients[c].isActive
    BY DEF Suspended, TypeOK
  <2>2. clients' = clients => Stays
    BY <2>1 DEF Suspended
  <2>3. \A r \in Request : Become(r, Idle) => Settled
    BY IdleIs, MayActivateNext DEF Saving
  <2>4. ASSUME NEW r \in Request, NEW d \in Client, NEW op, NEW entity,
               FindToSave(r, d, op, entity),
               d = c => ~entity.isActive \/ op = "activate"
        PROVE  Stays /\ Settled
    <3> DEFINE h == [at |-> "select", op |-> op, id |-> d, entity |-> entity]
    <3>1. /\ h.op = op /\ h.id = d /\ h.entity = entity
          /\ Become(r, h) /\ clients' = clients
      BY <2>4 DEF FindToSave
    <3> HIDE DEF h
    <3> QED
      BY <2>2, <2>4, <3>1, MayActivateNext
  <2>5. ASSUME NEW r \in Request, NEW d \in Client, NEW x \in Data,
               UpdateClient(r, d, x)
        PROVE  Stays /\ Settled
    <3>1. d = c => ~Assigned(clients[d], x).isActive
      BY <2>1 DEF Assigned, Entity
    <3> QED
      BY <2>4, <2>5, <3>1 DEF UpdateClient
  <2>6. ASSUME NEW r \in Request, NEW d \in Client, Suspend(r, d)
        PROVE  Stays /\ Settled
    <3>1. d = c => ~[clients[d] EXCEPT !.isActive = FALSE].isActive
      BY <2>1 DEF Entity
    <3> QED
      BY <2>4, <2>6, <3>1 DEF Suspend
  <2>7. ASSUME NEW r \in Request, NEW d \in Client, Activate(r, d)
        PROVE  Stays /\ Settled
    BY <2>4, <2>7 DEF Activate
  <2>8. ASSUME NEW r \in Request, NEW d \in Client, NEW s \in Secret,
               RegenerateSecret(r, d, s)
        PROVE  Stays /\ Settled
    <3>1. d = c => ~[clients[d] EXCEPT !.clientSecret = s].isActive
      BY <2>1 DEF Entity
    <3> QED
      BY <2>4, <2>8, <3>1 DEF RegenerateSecret
  <2>9. ASSUME NEW r \in Request, NEW d \in Client, NEW s \in Secret,
               NEW x \in Data, CreateSave(r, d, s, x)
        PROVE  Stays /\ Settled
    <3> DEFINE h == [at |-> "store", id |-> d, secret |-> s]
    <3>1. h.at = "store" /\ Become(r, h)
      BY <2>9 DEF CreateSave
    <3> HIDE DEF h
    <3>2. Settled
      BY <3>1, MayActivateNext DEF Saving
    <3>3. Stays
      BY <2>1, <2>9 DEF CreateSave, Write, InsertRow, NewId, Suspended
    <3> QED
      BY <3>2, <3>3
  <2>10. ASSUME NEW r \in Request, NEW d \in Client,
                RemoveFind(r, d) \/ ConsumePendingSecret(r, d)
         PROVE  Stays /\ Settled
    <3>1. PICK h : Become(r, h) /\ h.at \in {"remove", "findClient"}
      <4>1. /\ [at |-> "remove", id |-> d].at = "remove"
            /\ [at |-> "findClient", id |-> d,
                secret |-> pending[PendingKey(d)]].at = "findClient"
        OBVIOUS
      <4> QED
        BY <2>10, <4>1 DEF RemoveFind, ConsumePendingSecret
    <3>2. clients' = clients
      BY <2>10 DEF RemoveFind, ConsumePendingSecret
    <3> QED
      BY <2>2, <3>1, <3>2, MayActivateNext DEF Saving
  <2>11. ASSUME NEW r \in Request, NEW l \in Link,
                ConsumeLink(r, l) \/ GenerateLink(r, l)
         PROVE  Stays /\ Settled
    <3>1. PICK h : Become(r, h) /\ h.at \in {"mail", "answer"}
      <4>1. /\ [at |-> "mail", link |-> l].at = "mail"
            /\ [at |-> "answer", link |-> l].at = "answer"
        OBVIOUS
      <4> QED
        BY <2>11, <4>1 DEF ConsumeLink, GenerateLink
    <3>2. clients' = clients
      BY <2>11 DEF ConsumeLink, GenerateLink
    <3> QED
      BY <2>2, <3>1, <3>2, MayActivateNext DEF Saving
  <2>12. ASSUME NEW r \in Request, Select(r)
         PROVE  Stays /\ Settled
    <3>1. PICK h : Become(r, h) /\ h.id = req[r].id /\ h.entity = req[r].entity
      BY <2>12, SelectIs
    <3>2. req[r].id # c \/ ~req[r].entity.isActive
      BY <2>12 DEF Select, At, MayActivate
    <3>3. clients' = clients
      BY <2>12 DEF Select
    <3> QED
      BY <2>2, <3>1, <3>2, <3>3, MayActivateNext
  <2>13. ASSUME NEW r \in Request, NEW id, Saved(r, id)
         PROVE  Settled
    <3> DEFINE h == [at |-> "store", id |-> id,
                     secret |-> req[r].entity.clientSecret]
    <3>1. h.at = "store" /\ (Become(r, h) \/ Become(r, Idle))
      BY <2>13 DEF Saved
    <3> HIDE DEF h
    <3> QED
      BY <2>3, <3>1, MayActivateNext DEF Saving
  <2>14. ASSUME NEW r \in Request, Update(r)
         PROVE  Stays /\ Settled
    <3>1. req[r].id # c \/ ~req[r].entity.isActive
      BY <2>14 DEF Update, At, MayActivate
    <3>2. /\ DOMAIN clients' = DOMAIN clients
          /\ clients'[c]["isActive"]
               \in {clients[c]["isActive"],
                    IF req[r].id = c THEN req[r].entity["isActive"]
                                     ELSE clients[c]["isActive"]}
      BY <2>1, <2>14 DEF Update, Write, UpdateColumns, Entity
    <3>3. Stays
      BY <2>1, <3>1, <3>2 DEF Suspended
    <3> QED
      BY <2>13, <2>14, <3>3 DEF Update
  <2>15. ASSUME NEW r \in Request, NEW d \in Client, Insert(r, d)
         PROVE  Stays /\ Settled
    <3>1. Stays
      BY <2>1, <2>15 DEF Insert, Write, InsertRow, NewId, Suspended
    <3> QED
      BY <2>13, <2>15, <3>1 DEF Insert
  <2>16. ASSUME NEW r \in Request, RemoveCommit(r)
         PROVE  Stays /\ Settled
    <3>1. Stays
      BY <2>1, <2>16 DEF RemoveCommit, DeleteRow, Suspended
    <3> QED
      BY <2>3, <2>16, <3>1 DEF RemoveCommit
  <2>17. ASSUME NEW r \in Request,
                AnswerSecret(r) \/ SendMail(r) \/ Show(r) \/ Abort(r)
         PROVE  Stays /\ Settled
    BY <2>2, <2>3, <2>17 DEF AnswerSecret, SendMail, Show, Abort
  <2>18. ASSUME NEW r \in Request, SendFindClient(r)
         PROVE  Stays /\ Settled
    <3> DEFINE h == [at |-> "generate", id |-> req[r].id,
                     secret |-> req[r].secret,
                     data |-> clients[req[r].id].data]
    <3>1. h.at = "generate" /\ Become(r, h) /\ clients' = clients
      BY <2>18 DEF SendFindClient
    <3> HIDE DEF h
    <3> QED
      BY <2>2, <3>1, MayActivateNext DEF Saving
  <2>19. ASSUME NEW r \in Request, StorePendingSecret(r)
         PROVE  Stays /\ Settled
    <3>1. req[r].at = "store" /\ req[r] \in Handler
      BY <2>19, HandlerTypes DEF StorePendingSecret, At
    <3> DEFINE h == [req[r] EXCEPT !.at = "respond"]
    <3>2. h.at = "respond" /\ Become(r, h) /\ clients' = clients
      BY <2>19, <3>1 DEF StorePendingSecret, Handler
    <3> HIDE DEF h
    <3> QED
      BY <2>2, <3>2, MayActivateNext DEF Saving
  <2>20. ASSUME \/ \E l \in Link : ExpireLink(l)
                \/ \E d \in Client : ExpirePending(d)
                \/ UNCHANGED vars
         PROVE  Stays /\ Settled
    <3>1. clients' = clients /\ req' = req
      BY <2>20 DEF ExpireLink, ExpirePending, vars
    <3> QED
      BY <2>2, <3>1 DEF MayActivate
  <2> HIDE DEF Stays, Settled
  <2>21. ASSUME NEW r \in Request, Start(r)
         PROVE  Stays /\ Settled
    BY <2>5, <2>6, <2>7, <2>8, <2>9, <2>10, <2>11, <2>21 DEF Start
  <2>22. ASSUME NEW r \in Request, Resume(r)
         PROVE  Stays /\ Settled
    BY <2>11, <2>12, <2>14, <2>15, <2>16, <2>17, <2>18, <2>19, <2>22
       DEF Resume
  <2>23. ASSUME NEW r \in Request, Start(r) \/ Resume(r) \/ Abort(r)
         PROVE  Stays /\ Settled
    BY <2>17, <2>21, <2>22, <2>23
  <2>24. Stays /\ Settled
    BY <2>20, <2>23, Zenon DEF Next
  <2> QED
    BY <2>24 DEF Stays, Settled
<1> QED
  BY <1>1, TypeCorrect, PTL DEF Spec, SuspendedUntilActivated

-----------------------------------------------------------------------------
(***************************************************************************)
(* OAuthClients implements SecretDelivery, for any clients, secrets, links *)
(* and requests.  The phase of a secret depends on whether it was          *)
(* generated (Born), a link has shown it (Seen), a link can still show it  *)
(* (Open), or the server has it (Held).  Steps that neither draw a secret  *)
(* nor answer one nor fail move one phase, forward (PhaseStep), and no     *)
(* answer.                                                                 *)
(***************************************************************************)

Born(s) == s \in drawn

Seen(s) == \E l \in Link : InLink(l, s) /\ shown[l] > 0

Open(s) == \E l \in Link : InLink(l, s) /\ Readable(l)

Held(s) == (\E c \in Client : InPending(c, s)) \/ \E r \in Request : Keeps(r, s)

PhaseOf(s) ==
  IF ~Born(s) THEN "unborn"
  ELSE IF Seen(s) THEN "shown"
  ELSE IF Open(s) THEN "linked"
  ELSE IF Held(s) THEN "held"
  ELSE "lost"

LEMMA PhaseIs == ASSUME TypeOK, NEW s \in Secret PROVE phaseOf[s] = PhaseOf(s)
<1>1. LinksOf(s) = {l \in Link : InLink(l, s)}
  BY DEF LinksOf, InLink, TypeOK
<1>2. (\E c \in DOMAIN pending : pending[c] = s) <=> \E c \in Client : InPending(c, s)
  BY DEF InPending, TypeOK
<1> QED
  BY <1>1, <1>2 DEF phaseOf, PhaseOf, Born, Seen, Open, Held

LEMMA PhaseNext ==
  ASSUME TypeOK', NEW s \in Secret PROVE phaseOf'[s] = PhaseOf(s)'
<1>1. LinksOf(s)' = {l \in Link : InLink(l, s)'}
  BY DEF LinksOf, InLink, TypeOK
<1>2. (\E c \in DOMAIN pending' : pending'[c] = s)
        <=> \E c \in Client : InPending(c, s)'
  BY DEF InPending, TypeOK
<1> QED
  BY <1>1, <1>2 DEF phaseOf, PhaseOf, Born, Seen, Open, Held

(* Nothing that the phase of s depends on changes. *)
LEMMA SamePhase ==
  ASSUME TypeOK, TypeOK', NEW s \in Secret,
         Born(s)' <=> Born(s), Seen(s)' <=> Seen(s), Open(s)' <=> Open(s),
         Held(s)' <=> Held(s)
  PROVE  phaseOf'[s] = phaseOf[s]
BY PhaseIs, PhaseNext DEF PhaseOf

Moved(from, to) ==
  \/ from = to
  \/ from = "held" /\ to \in {"linked", "lost"}
  \/ from = "linked" /\ to \in {"shown", "lost"}

(* One secret at most moves, and forward. *)
PhaseStep ==
  \/ \A u \in Secret : phaseOf'[u] = phaseOf[u]
  \/ \E s \in Secret :
       /\ Moved(phaseOf[s], phaseOf'[s])
       /\ \A u \in Secret \ {s} : phaseOf'[u] = phaseOf[u]

-----------------------------------------------------------------------------
(* A secret that the server holds is in no link; one in a link is held by  *)
(* nobody, and its phase is that of the link.                              *)
LEMMA HeldPhase ==
  ASSUME Inv, NEW s \in Secret, Held(s)
  PROVE  PhaseOf(s) = "held" /\ \A l \in Link : ~InLink(l, s)
<1>1. Born(s)
  BY DEF Inv, Drawn, Held, InPending, Born
<1>2. \A l \in Link : ~InLink(l, s)
  BY DEF Inv, Exclusive, Alone, Held
<1> QED
  BY <1>1, <1>2 DEF PhaseOf, Seen, Open

LEMMA LinkedPhase ==
  ASSUME Inv, NEW s \in Secret, NEW l \in Link, InLink(l, s)
  PROVE  /\ PhaseOf(s) = IF shown[l] > 0 THEN "shown"
                         ELSE IF Readable(l) THEN "linked" ELSE "lost"
         /\ ~Held(s) /\ \A k \in Link : InLink(k, s) => k = l
<1>1. Born(s)
  BY DEF Inv, Drawn, InLink, Born
<1>2. ~Held(s) /\ \A k \in Link : InLink(k, s) => k = l
  BY DEF Inv, Exclusive, Alone, Held
<1> QED
  BY <1>1, <1>2 DEF PhaseOf, Seen, Open

(* The same of the state after a step. *)
LEMMA HeldPhaseNext ==
  ASSUME Inv', NEW s \in Secret, Held(s)'
  PROVE  phaseOf'[s] = "held"
<1>1. Born(s)'
  BY DEF Inv, Drawn, Held, InPending, Born
<1>2. \A l \in Link : ~InLink(l, s)'
  BY DEF Inv, Exclusive, Alone, Held
<1>3. PhaseOf(s)' = "held"
  BY <1>1, <1>2 DEF PhaseOf, Seen, Open
<1> QED
  BY <1>3, PhaseNext DEF Inv

LEMMA LinkedPhaseNext ==
  ASSUME Inv', NEW s \in Secret, NEW l \in Link, InLink(l, s)'
  PROVE  phaseOf'[s] = IF shown'[l] > 0 THEN "shown"
                       ELSE IF Readable(l)' THEN "linked" ELSE "lost"
<1>1. Born(s)'
  BY DEF Inv, Drawn, InLink, Born
<1>2. ~Held(s)' /\ \A k \in Link : InLink(k, s)' => k = l
  BY DEF Inv, Exclusive, Alone, Held
<1>3. PhaseOf(s)' = IF shown'[l] > 0 THEN "shown"
                    ELSE IF Readable(l)' THEN "linked" ELSE "lost"
  BY <1>1, <1>2 DEF PhaseOf, Seen, Open
<1> QED
  BY <1>3, PhaseNext DEF Inv

LEMMA RequestMoves ==
  ASSUME TypeOK, NEW r \in Request, NEW h, Become(r, h)
  PROVE  /\ \A q \in Request : req'[q] = IF q = r THEN h ELSE req[q]
         /\ \A q \in Request, s \in Secret :
              Keeps(q, s)' <=> IF q = r THEN Carries(h, s) ELSE Keeps(q, s)
BY Moves, KeepsIs, KeepsNext

(* A request that neither mails a link nor answers one, before or after. *)
LEMMA ReadableRests ==
  ASSUME TypeOK, NEW r \in Request, NEW h, Become(r, h),
         h.at \notin {"mail", "answer"}, req[r].at \notin {"mail", "answer"},
         UNCHANGED <<links, mailed>>
  PROVE  \A l \in Link : Readable(l)' <=> Readable(l)
BY RequestMoves DEF Readable, At, Consumable

(* No link comes to hold s, nor shows it, nor closes. *)
LEMMA LinksSame ==
  ASSUME TypeOK, TypeOK', UNCHANGED drawn, NEW s \in Secret,
         \A l \in Link : InLink(l, s)' <=> InLink(l, s),
         \A l \in Link : InLink(l, s) =>
           (Readable(l)' <=> Readable(l)) /\ shown'[l] = shown[l],
         Held(s)' <=> Held(s)
  PROVE  phaseOf'[s] = phaseOf[s]
<1>1. Born(s)' <=> Born(s)
  BY DEF Born
<1>2. Seen(s)' <=> Seen(s)
  BY DEF Seen
<1>3. Open(s)' <=> Open(s)
  BY DEF Open
<1> QED
  BY <1>1, <1>2, <1>3, SamePhase

LEMMA LinksRest ==
  ASSUME TypeOK, TypeOK', UNCHANGED <<drawn, links, shown>>, NEW s \in Secret,
         \A l \in Link : InLink(l, s) => (Readable(l)' <=> Readable(l)),
         Held(s)' <=> Held(s)
  PROVE  phaseOf'[s] = phaseOf[s]
<1>1. \A l \in Link : InLink(l, s)' <=> InLink(l, s)
  BY DEF InLink
<1> QED
  BY <1>1, LinksSame

(* The steps of a request that keeps what it kept. *)
LEMMA QuietPhase ==
  ASSUME Inv, Inv', NEW r \in Request, NEW h, Become(r, h),
         h.at \notin {"mail", "answer"}, req[r].at \notin {"mail", "answer"},
         \A s \in Secret : Carries(h, s) <=> Keeps(r, s),
         UNCHANGED <<pending, links, mailed, drawn, shown>>
  PROVE  PhaseStep
<1>1. TypeOK /\ TypeOK'
  BY DEF Inv
<1>2. ASSUME NEW s \in Secret
      PROVE  Held(s)' <=> Held(s)
  <2>1. \A c \in Client : InPending(c, s)' <=> InPending(c, s)
    BY DEF InPending
  <2>2. \A q \in Request : Keeps(q, s)' <=> Keeps(q, s)
    BY <1>1, RequestMoves
  <2> QED
    BY <2>1, <2>2 DEF Held
<1>3. \A s \in Secret : phaseOf'[s] = phaseOf[s]
  BY <1>1, <1>2, ReadableRests, LinksRest
<1> QED
  BY <1>3 DEF PhaseStep

LEMMA QuietSteps ==
  ASSUME Inv, Inv', NEW r \in Request,
         \/ \E c \in Client :
              \/ \E d \in Data : UpdateClient(r, c, d)
              \/ Suspend(r, c) \/ Activate(r, c) \/ RemoveFind(r, c)
         \/ Select(r) \/ Update(r) \/ RemoveCommit(r) \/ SendFindClient(r)
         \/ \E c \in Client : Insert(r, c)
  PROVE  PhaseStep
<1> DEFINE Carried(h) == \A s \in Secret : Carries(h, s) <=> Keeps(r, s)
           Still == UNCHANGED <<pending, links, mailed, drawn, shown>>
           Plain(h) == h.at \notin {"mail", "answer"}
<1>1. ASSUME NEW c \in Client, NEW op \in Op \ {"regenerate"}, NEW entity,
             FindToSave(r, c, op, entity), UNCHANGED drawn
      PROVE  \E h : Become(r, h) /\ Carried(h) /\ Plain(h) /\ Plain(req[r]) /\ Still
  <2> DEFINE h == [at |-> "select", op |-> op, id |-> c, entity |-> entity]
  <2>1. h.at = "select" /\ h.op = op
    OBVIOUS
  <2>2. Become(r, h) /\ req[r].at = "idle" /\ Still
    BY <1>1 DEF FindToSave, At
  <2> HIDE DEF h
  <2>3. Carried(h)
    BY <2>1, <2>2 DEF Carries, Keeps, Draws, Saving, Sending
  <2> QED
    BY <2>1, <2>2, <2>3
<1>2. {"update", "suspend", "activate"} \subseteq Op \ {"regenerate"}
  BY DEF Op
<1>3. ASSUME NEW c \in Client, RemoveFind(r, c)
      PROVE  \E h : Become(r, h) /\ Carried(h) /\ Plain(h) /\ Plain(req[r]) /\ Still
  <2> DEFINE h == [at |-> "remove", id |-> c]
  <2>1. h.at = "remove"
    OBVIOUS
  <2>2. Become(r, h) /\ req[r].at = "idle" /\ Still
    BY <1>3 DEF RemoveFind, At, history
  <2> HIDE DEF h
  <2>3. Carried(h)
    BY <2>1, <2>2 DEF Carries, Keeps, Draws, Saving, Sending
  <2> QED
    BY <2>1, <2>2, <2>3
<1>4. CASE Select(r)
  <2>1. req[r].at = "select" /\ Still
    BY <1>4 DEF Select, At, history
  <2>2. PICK h : /\ Become(r, h) /\ h.at \in {"update", "insert"}
                 /\ h.op = req[r].op /\ h.entity = req[r].entity
    BY <1>4, SelectIs DEF Inv
  <2>3. Carried(h)
    BY <2>1, <2>2 DEF Carries, Keeps, Draws, Saving, Sending
  <2> QED
    BY <2>1, <2>2, <2>3, QuietPhase
<1>5. ASSUME NEW id \in Client, req[r].at \in {"update", "insert"}, Saved(r, id)
      PROVE  PhaseStep
  <2>1. Still
    BY <1>5 DEF Saved
  <2>2. CASE req[r].op = "regenerate"
    <3> DEFINE h == [at |-> "store", id |-> id,
                     secret |-> req[r].entity.clientSecret]
    <3>1. h.at = "store" /\ h.secret = req[r].entity.clientSecret
      OBVIOUS
    <3>2. Become(r, h)
      BY <1>5, <2>2 DEF Saved
    <3> HIDE DEF h
    <3>3. Carried(h)
      BY <1>5, <2>2, <3>1 DEF Carries, Keeps, Draws, Saving, Sending
    <3> QED
      BY <1>5, <2>1, <3>1, <3>2, <3>3, QuietPhase
  <2>3. CASE req[r].op # "regenerate"
    <3>1. Become(r, Idle) /\ Carried(Idle)
      BY <1>5, <2>3, IdleIs DEF Saved, Carries, Keeps, Draws, Saving, Sending
    <3> QED
      BY <1>5, <2>1, <3>1, IdleIs, QuietPhase
  <2> QED
    BY <2>2, <2>3
<1>6. CASE RemoveCommit(r)
  <2>1. Become(r, Idle) /\ req[r].at = "remove" /\ Still
    BY <1>6 DEF RemoveCommit, At
  <2>2. Carried(Idle)
    BY <2>1, IdleIs DEF Carries, Keeps, Draws, Saving, Sending
  <2> QED
    BY <2>1, <2>2, IdleIs, QuietPhase
<1>7. CASE SendFindClient(r)
  <2> DEFINE h == [at |-> "generate", id |-> req[r].id,
                   secret |-> req[r].secret,
                   data |-> clients[req[r].id].data]
  <2>1. h.at = "generate" /\ h.secret = req[r].secret
    OBVIOUS
  <2>2. Become(r, h) /\ req[r].at = "findClient" /\ Still
    BY <1>7 DEF SendFindClient, At, history
  <2> HIDE DEF h
  <2>3. Carried(h)
    BY <2>1, <2>2 DEF Carries, Keeps, Draws, Saving, Sending
  <2> QED
    BY <2>1, <2>2, <2>3, QuietPhase
<1>8. ASSUME NEW c \in Client, NEW d \in Data, UpdateClient(r, c, d)
      PROVE  PhaseStep
  BY <1>1, <1>2, <1>8, QuietPhase DEF UpdateClient
<1>9. ASSUME NEW c \in Client, Suspend(r, c) \/ Activate(r, c)
      PROVE  PhaseStep
  BY <1>1, <1>2, <1>9, QuietPhase DEF Suspend, Activate
<1>10. ASSUME NEW c \in Client, RemoveFind(r, c)
       PROVE  PhaseStep
  BY <1>3, <1>10, QuietPhase
<1>11. CASE Update(r) \/ \E c \in Client : Insert(r, c)
  BY <1>5, <1>11, HandlerTypes DEF Update, Insert, At, Saving, Inv
<1> QED
  BY <1>4, <1>6, <1>7, <1>8, <1>9, <1>10, <1>11

-----------------------------------------------------------------------------
(* A new secret is generated. *)
Appears(s) ==
  /\ phaseOf[s] = "unborn" /\ phaseOf'[s] = "held"
  /\ \A u \in Secret \ {s} : phaseOf'[u] = phaseOf[u]

LEMMA FreshPhase ==
  ASSUME Inv, Inv', NEW r \in Request, NEW s \in Secret,
         NEW h, NewSecret(s), Become(r, h), req[r].at = "idle",
         h.at \notin {"mail", "answer"},
         \A u \in Secret : Carries(h, u) <=> u = s,
         UNCHANGED <<pending, links, mailed, shown>>
  PROVE  Appears(s)
<1>1. TypeOK /\ TypeOK'
  BY DEF Inv
<1>2. \A q \in Request, u \in Secret : Keeps(q, u)' <=> IF q = r THEN u = s ELSE Keeps(q, u)
  BY <1>1, RequestMoves
<1>3. \A u \in Secret : ~Keeps(r, u)
  BY DEF Keeps, Draws
<1>4. phaseOf[s] = "unborn" /\ phaseOf'[s] = "held"
  <2>1. Held(s)'
    BY <1>2 DEF Held
  <2> QED
    BY <1>1, <2>1, PhaseIs, HeldPhaseNext DEF PhaseOf, NewSecret, Born
<1>5. ASSUME NEW u \in Secret \ {s}
      PROVE  phaseOf'[u] = phaseOf[u]
  <2>1. Born(u)' <=> Born(u)
    BY DEF Born, NewSecret
  <2>2. \A l \in Link : /\ InLink(l, u)' <=> InLink(l, u)
                        /\ Readable(l)' <=> Readable(l)
    BY <1>1, ReadableRests DEF InLink
  <2>3. (Seen(u)' <=> Seen(u)) /\ (Open(u)' <=> Open(u))
    BY <2>2 DEF Seen, Open
  <2>4. Held(u)' <=> Held(u)
    BY <1>2, <1>3 DEF Held, InPending
  <2> QED
    BY <1>1, <2>1, <2>3, <2>4, SamePhase
<1> QED
  BY <1>4, <1>5 DEF Appears

LEMMA GeneratedSteps ==
  ASSUME Inv, Inv', NEW r \in Request, NEW s \in Secret, Generates(r, s)
  PROVE  Appears(s)
<1>1. ASSUME NEW c \in Client, NEW d \in Data, CreateSave(r, c, s, d)
      PROVE  Appears(s)
  <2> DEFINE h == [at |-> "store", id |-> c, secret |-> s]
  <2>1. h.at = "store" /\ h.secret = s
    OBVIOUS
  <2>2. /\ NewSecret(s) /\ Become(r, h) /\ req[r].at = "idle"
        /\ UNCHANGED <<pending, links, mailed, shown>>
    BY <1>1 DEF CreateSave, At
  <2> HIDE DEF h
  <2>3. \A u \in Secret : Carries(h, u) <=> u = s
    BY <2>1 DEF Carries, Sending, Saving
  <2> QED
    BY <2>1, <2>2, <2>3, FreshPhase
<1>2. ASSUME NEW c \in Client, RegenerateSecret(r, c, s)
      PROVE  Appears(s)
  <2>1. PICK e : e = [clients[c] EXCEPT !.clientSecret = s]
    OBVIOUS
  <2>2. e.clientSecret = s
    BY <1>2, <2>1 DEF RegenerateSecret, Inv, TypeOK, Entity
  <2> DEFINE h == [at |-> "select", op |-> "regenerate", id |-> c, entity |-> e]
  <2>3. h.at = "select" /\ h.op = "regenerate" /\ h.entity = e
    OBVIOUS
  <2>4. /\ NewSecret(s) /\ Become(r, h) /\ req[r].at = "idle"
        /\ UNCHANGED <<pending, links, mailed, shown>>
    BY <1>2, <2>1 DEF RegenerateSecret, FindToSave, At
  <2> HIDE DEF h
  <2>5. \A u \in Secret : Carries(h, u) <=> u = s
    BY <2>2, <2>3 DEF Carries, Sending, Saving
  <2> QED
    BY <2>3, <2>4, <2>5, FreshPhase
<1> QED
  BY <1>1, <1>2 DEF Generates

(* Into Redis, over the one that was there, which is lost. *)
LEMMA StoreStep ==
  ASSUME Inv, Inv', NEW r \in Request, StorePendingSecret(r)
  PROVE  PhaseStep
<1>1. TypeOK /\ TypeOK'
  BY DEF Inv
<1>2. PICK c \in Client, s \in Secret : c = req[r].id /\ s = req[r].secret
  BY <1>1, HandlerTypes DEF StorePendingSecret, At, Sending
<1> DEFINE h == [req[r] EXCEPT !.at = "respond"]
<1>3. /\ req[r].at = "store" /\ Become(r, h) /\ pending' = Put(pending, c, s)
      /\ h.at = "respond" /\ UNCHANGED <<links, mailed, drawn, shown>>
  BY <1>1, <1>2, HandlerTypes DEF StorePendingSecret, At, PendingKey, Handler,
     history
<1> HIDE DEF h
<1>4. /\ \A u \in Secret : Keeps(r, u) <=> u = s
      /\ \A u \in Secret : ~Carries(h, u)
  BY <1>2, <1>3 DEF Keeps, Draws, Carries, Sending, Saving
<1>5. \A q \in Request, u \in Secret : Keeps(q, u)' <=> q # r /\ Keeps(q, u)
  BY <1>1, <1>3, <1>4, RequestMoves
<1>6. \A k \in Client, u \in Secret :
        InPending(k, u)' <=> IF k = c THEN u = s ELSE InPending(k, u)
  BY <1>3 DEF InPending, Put
<1>7. \A l \in Link : Readable(l)' <=> Readable(l)
  BY <1>1, <1>3, ReadableRests
<1>8. phaseOf'[s] = phaseOf[s]
  <2>1. Held(s) /\ Held(s)'
    BY <1>4, <1>6 DEF Held
  <2> QED
    BY <1>1, <2>1, HeldPhase, HeldPhaseNext, PhaseIs
<1>9. ASSUME NEW u \in Secret, u # s, ~InPending(c, u)
      PROVE  phaseOf'[u] = phaseOf[u]
  <2>1. Held(u)' <=> Held(u)
    BY <1>4, <1>5, <1>6, <1>9 DEF Held
  <2> QED
    BY <1>1, <1>3, <1>7, <2>1, LinksRest
<1>10. ASSUME NEW u \in Secret, u # s, InPending(c, u)
       PROVE  PhaseStep
  <2>1. phaseOf[u] = "held" /\ \A l \in Link : ~InLink(l, u)
    BY <1>1, <1>10, HeldPhase, PhaseIs DEF Held
  <2>2. phaseOf'[u] \in {"held", "lost"}
    <3>1. Born(u)'
      BY <1>3, <1>10 DEF Inv, Drawn, InPending, Born
    <3>2. ~Seen(u)' /\ ~Open(u)'
      BY <1>3, <2>1 DEF Seen, Open, InLink
    <3> QED
      BY <1>1, <3>1, <3>2, PhaseNext DEF PhaseOf
  <2>3. \A v \in Secret \ {u} : phaseOf'[v] = phaseOf[v]
    BY <1>8, <1>9, <1>10 DEF InPending
  <2> QED
    BY <2>1, <2>2, <2>3 DEF Moved, PhaseStep
<1>11. CASE \A u \in Secret \ {s} : ~InPending(c, u)
  BY <1>8, <1>9, <1>11 DEF PhaseStep
<1> QED
  BY <1>10, <1>11

(* Out of Redis, and to the one who sends it. *)
LEMMA ConsumePendingStep ==
  ASSUME Inv, Inv', NEW r \in Request, NEW c \in Client,
         ConsumePendingSecret(r, c)
  PROVE  PhaseStep
<1>1. TypeOK /\ TypeOK'
  BY DEF Inv
<1>2. PICK s \in Secret : s = pending[c] /\ InPending(c, s)
  BY <1>1 DEF ConsumePendingSecret, PendingKey, TypeOK, InPending
<1> DEFINE h == [at |-> "findClient", id |-> c, secret |-> s]
<1>3. h.at = "findClient" /\ h.secret = s
  OBVIOUS
<1>4. /\ Become(r, h) /\ pending' = Without(pending, c) /\ req[r].at = "idle"
      /\ UNCHANGED <<links, mailed, drawn, shown>>
  BY <1>2 DEF ConsumePendingSecret, PendingKey, Taken, history, At
<1> HIDE DEF h
<1>5. \A u \in Secret : (Carries(h, u) <=> u = s) /\ ~Keeps(r, u)
  BY <1>3, <1>4 DEF Carries, Keeps, Draws, Sending, Saving
<1>6. \A q \in Request, u \in Secret : Keeps(q, u)' <=> IF q = r THEN u = s ELSE Keeps(q, u)
  BY <1>1, <1>4, <1>5, RequestMoves
<1>7. \A k \in Client, u \in Secret :
        InPending(k, u)' <=> k # c /\ InPending(k, u)
  BY <1>4 DEF InPending, Without
<1>8. \A u \in Secret : InPending(c, u) => u = s
  BY <1>2 DEF InPending
<1>9. \A u \in Secret : Held(u)' <=> Held(u)
  BY <1>2, <1>5, <1>6, <1>7, <1>8 DEF Held
<1>10. \A l \in Link : Readable(l)' <=> Readable(l)
  BY <1>1, <1>3, <1>4, ReadableRests
<1>11. \A u \in Secret : phaseOf'[u] = phaseOf[u]
  BY <1>1, <1>4, <1>9, <1>10, LinksRest
<1> QED
  BY <1>11 DEF PhaseStep

LEMMA ExpirePendingStep ==
  ASSUME Inv, Inv', NEW c \in Client, ExpirePending(c)
  PROVE  PhaseStep
<1>1. TypeOK /\ TypeOK'
  BY DEF Inv
<1>2. PICK s \in Secret : s = pending[c] /\ InPending(c, s)
  BY <1>1 DEF ExpirePending, TypeOK, InPending
<1>3. /\ pending' = Without(pending, c)
      /\ UNCHANGED <<links, mailed, req, drawn, shown>>
  BY DEF ExpirePending, history
<1>4. \A k \in Client, u \in Secret :
        InPending(k, u)' <=> k # c /\ InPending(k, u)
  BY <1>3 DEF InPending, Without
<1>5. /\ \A q \in Request, u \in Secret : Keeps(q, u)' <=> Keeps(q, u)
      /\ \A l \in Link : Readable(l)' <=> Readable(l)
  BY <1>3 DEF Keeps, Draws, Readable, At
<1>6. ASSUME NEW u \in Secret \ {s}
      PROVE  phaseOf'[u] = phaseOf[u]
  <2>1. Held(u)' <=> Held(u)
    BY <1>2, <1>4, <1>5 DEF Held, InPending
  <2> QED
    BY <1>1, <1>3, <1>5, <2>1, LinksRest
<1>7. phaseOf[s] = "held" /\ \A l \in Link : ~InLink(l, s)
  BY <1>1, <1>2, HeldPhase, PhaseIs DEF Held
<1>8. phaseOf'[s] \in {"held", "lost"}
  <2>1. Born(s)'
    BY <1>2, <1>3 DEF Inv, Drawn, InPending, Born
  <2>2. ~Seen(s)' /\ ~Open(s)'
    BY <1>3, <1>7 DEF Seen, Open, InLink
  <2> QED
    BY <1>1, <2>1, <2>2, PhaseNext DEF PhaseOf
<1> QED
  BY <1>6, <1>7, <1>8 DEF Moved, PhaseStep

-----------------------------------------------------------------------------
(* A request that keeps no secret and comes to keep none. *)
LEMMA HeldRests ==
  ASSUME TypeOK, NEW r \in Request, NEW h, Become(r, h), UNCHANGED pending,
         \A s \in Secret : ~Keeps(r, s) /\ ~Carries(h, s)
  PROVE  \A s \in Secret : Held(s)' <=> Held(s)
BY RequestMoves DEF Held, InPending

LEMMA GenerateStep ==
  ASSUME Inv, Inv', NEW r \in Request, NEW l \in Link, GenerateLink(r, l)
  PROVE  PhaseStep
<1>1. TypeOK /\ TypeOK'
  BY DEF Inv
<1>2. PICK c \in Client, s \in Secret, d \in Data :
        c = req[r].id /\ s = req[r].secret /\ d = req[r].data
  BY <1>1, HandlerTypes DEF GenerateLink, At, Sending
<1> DEFINE h == [at |-> "mail", link |-> l]
<1>3. h.at = "mail" /\ h.link = l
  OBVIOUS
<1>4. /\ req[r].at = "generate" /\ l \notin DOMAIN links /\ Become(r, h)
      /\ links' = Generate(links, l, c, s, d)
      /\ UNCHANGED <<pending, mailed, drawn, shown>>
  BY <1>2 DEF GenerateLink, At, history
<1> HIDE DEF h
<1>5. /\ DOMAIN links' = DOMAIN links \cup {l} /\ links'[l].secret = s
      /\ ~links'[l].used /\ ~links'[l].expired
      /\ \A k \in DOMAIN links : links'[k] = links[k]
  BY <1>1, <1>4 DEF Generate, TypeOK
<1>6. \A u \in Secret : ~Carries(h, u) /\ (Keeps(r, u) <=> u = s)
  BY <1>2, <1>3, <1>4 DEF Carries, Keeps, Draws, Sending, Saving
<1>7. /\ \A q \in Request : req'[q] = IF q = r THEN h ELSE req[q]
      /\ \A q \in Request, u \in Secret : Keeps(q, u)' <=> q # r /\ Keeps(q, u)
  BY <1>1, <1>4, <1>6, RequestMoves
<1>8. \A k \in Link, u \in Secret :
        InLink(k, u)' <=> InLink(k, u) \/ (k = l /\ u = s)
  BY <1>4, <1>5 DEF InLink
<1>9. \A k \in DOMAIN links : Readable(k)' <=> Readable(k)
  BY <1>3, <1>4, <1>5, <1>7 DEF Readable, At
<1>10. phaseOf[s] = "held"
  BY <1>1, <1>6, HeldPhase, PhaseIs DEF Held
<1>11. phaseOf'[s] = "linked"
  <2>1. InLink(l, s)'
    BY <1>8
  <2>2. shown'[l] = 0
    BY <1>4 DEF Inv, Answered
  <2>3. Readable(l)'
    BY <1>3, <1>5, <1>7 DEF Readable, Consumable, At
  <2> QED
    BY <2>1, <2>2, <2>3, LinkedPhaseNext
<1>12. ASSUME NEW u \in Secret \ {s}
       PROVE  phaseOf'[u] = phaseOf[u]
  <2>1. Held(u)' <=> Held(u)
    BY <1>4, <1>6, <1>7 DEF Held, InPending
  <2>2. \A k \in Link : InLink(k, u) =>
          (Readable(k)' <=> Readable(k)) /\ shown'[k] = shown[k]
    BY <1>4, <1>9 DEF InLink
  <2> QED
    BY <1>1, <1>4, <1>8, <2>1, <2>2, LinksSame
<1> QED
  BY <1>10, <1>11, <1>12 DEF Moved, PhaseStep

LEMMA SendMailStep ==
  ASSUME Inv, Inv', NEW r \in Request, SendMail(r)
  PROVE  PhaseStep
<1>1. TypeOK /\ TypeOK'
  BY DEF Inv
<1>2. PICK l \in Link : l = req[r].link
  BY <1>1, HandlerTypes DEF SendMail, At
<1>3. /\ req[r].at = "mail" /\ mailed' = mailed \cup {l} /\ Become(r, Idle)
      /\ UNCHANGED <<pending, links, drawn, shown>>
  BY <1>2 DEF SendMail, At, history
<1>4. \A u \in Secret : ~Carries(Idle, u) /\ ~Keeps(r, u)
  BY <1>3, IdleIs DEF Carries, Keeps, Draws, Sending, Saving
<1>5. \A q \in Request : req'[q] = IF q = r THEN Idle ELSE req[q]
  BY <1>1, <1>3, RequestMoves
<1>6. \A k \in Link : Readable(k)' <=> Readable(k)
  BY <1>2, <1>3, <1>5, IdleIs DEF Readable, At
<1>7. \A u \in Secret : phaseOf'[u] = phaseOf[u]
  BY <1>1, <1>3, <1>4, <1>6, HeldRests, LinksRest
<1> QED
  BY <1>7 DEF PhaseStep

LEMMA ConsumeLinkStep ==
  ASSUME Inv, Inv', NEW r \in Request, NEW l \in Link, ConsumeLink(r, l)
  PROVE  PhaseStep
<1>1. TypeOK /\ TypeOK'
  BY DEF Inv
<1> DEFINE h == [at |-> "answer", link |-> l]
<1>2. h.at = "answer" /\ h.link = l
  OBVIOUS
<1>3. /\ req[r].at = "idle" /\ l \in mailed /\ l \in DOMAIN links
      /\ Consumable(links[l]) /\ links' = MarkUsed(links, l) /\ Become(r, h)
      /\ UNCHANGED <<pending, mailed, drawn, shown>>
  BY <1>1 DEF ConsumeLink, At, history, TypeOK
<1> HIDE DEF h
<1>4. /\ DOMAIN links' = DOMAIN links
      /\ \A k \in DOMAIN links : /\ links'[k].secret = links[k].secret
                                 /\ k # l => links'[k] = links[k]
  BY <1>1, <1>3, MarkUsedIs
<1>5. \A u \in Secret : ~Carries(h, u) /\ ~Keeps(r, u)
  BY <1>2, <1>3 DEF Carries, Keeps, Draws, Sending, Saving
<1>6. \A q \in Request : req'[q] = IF q = r THEN h ELSE req[q]
  BY <1>1, <1>3, RequestMoves
<1>7. Readable(l) /\ Readable(l)'
  BY <1>2, <1>3, <1>6 DEF Readable, At
<1>8. \A k \in DOMAIN links \ {l} : Readable(k)' <=> Readable(k)
  BY <1>2, <1>3, <1>4, <1>6 DEF Readable, At
<1>9. \A k \in Link, u \in Secret : InLink(k, u)' <=> InLink(k, u)
  BY <1>4 DEF InLink
<1>10. \A k \in Link, u \in Secret : InLink(k, u) =>
         (Readable(k)' <=> Readable(k)) /\ shown'[k] = shown[k]
  BY <1>3, <1>7, <1>8 DEF InLink
<1>11. \A u \in Secret : phaseOf'[u] = phaseOf[u]
  BY <1>1, <1>3, <1>5, <1>9, <1>10, HeldRests, LinksSame
<1> QED
  BY <1>11 DEF PhaseStep

(* The secret of the link of s, in a step that changes what that link      *)
(* shows, or closes it.                                                    *)
LEMMA LinkStep ==
  ASSUME Inv, Inv', NEW l \in DOMAIN links, NEW s \in Secret, InLink(l, s),
         UNCHANGED drawn,
         \A k \in Link, u \in Secret : InLink(k, u)' <=> InLink(k, u),
         \A k \in DOMAIN links \ {l} :
           (Readable(k)' <=> Readable(k)) /\ shown'[k] = shown[k],
         \A u \in Secret : Held(u)' <=> Held(u),
         \/ shown'[l] = shown[l] /\ (Readable(l)' => Readable(l))
         \/ shown[l] = 0 /\ Readable(l) /\ shown'[l] = 1
  PROVE  PhaseStep
<1>1. TypeOK /\ TypeOK' /\ l \in Link
  BY DEF Inv, TypeOK
<1>2. phaseOf[s] = IF shown[l] > 0 THEN "shown"
                   ELSE IF Readable(l) THEN "linked" ELSE "lost"
  BY <1>1, LinkedPhase, PhaseIs
<1>3. phaseOf'[s] = IF shown'[l] > 0 THEN "shown"
                    ELSE IF Readable(l)' THEN "linked" ELSE "lost"
  BY <1>1, LinkedPhaseNext
<1>4. Moved(phaseOf[s], phaseOf'[s])
  BY <1>2, <1>3 DEF Moved
<1>5. ASSUME NEW u \in Secret \ {s}
      PROVE  phaseOf'[u] = phaseOf[u]
  <2>1. \A k \in Link : InLink(k, u) =>
          (Readable(k)' <=> Readable(k)) /\ shown'[k] = shown[k]
    BY DEF InLink
  <2> QED
    BY <1>1, <2>1, LinksSame
<1> QED
  BY <1>4, <1>5 DEF PhaseStep

LEMMA ShowStep ==
  ASSUME Inv, Inv', NEW r \in Request, Show(r)
  PROVE  PhaseStep
<1>1. TypeOK /\ TypeOK'
  BY DEF Inv
<1>2. PICK l \in Link : l = req[r].link
  BY <1>1, HandlerTypes DEF Show, At
<1>3. /\ req[r].at = "answer" /\ shown' = [shown EXCEPT ![l] = @ + 1]
      /\ Become(r, Idle) /\ UNCHANGED <<pending, links, mailed, drawn>>
  BY <1>2 DEF Show, At
<1>4. l \in DOMAIN links /\ shown[l] = 0
  BY <1>2, <1>3 DEF Inv, Answered, Answering
<1>5. PICK s \in Secret : InLink(l, s)
  BY <1>1, <1>4 DEF InLink, TypeOK, LinkRow
<1>6. shown'[l] = 1 /\ \A k \in Link \ {l} : shown'[k] = shown[k]
  BY <1>1, <1>3, <1>4 DEF TypeOK
<1>7. \A u \in Secret : ~Carries(Idle, u) /\ ~Keeps(r, u)
  BY <1>3, IdleIs DEF Carries, Keeps, Draws, Sending, Saving
<1>8. \A q \in Request : req'[q] = IF q = r THEN Idle ELSE req[q]
  BY <1>1, <1>3, RequestMoves
<1>9. Readable(l) /\ \A k \in Link \ {l} : Readable(k)' <=> Readable(k)
  BY <1>2, <1>3, <1>8, IdleIs DEF Readable, At
<1>10. /\ \A k \in Link, u \in Secret : InLink(k, u)' <=> InLink(k, u)
       /\ DOMAIN links \subseteq Link
  BY <1>1, <1>3 DEF InLink, TypeOK
<1>11. \A u \in Secret : Held(u)' <=> Held(u)
  BY <1>1, <1>3, <1>7, HeldRests
<1> QED
  BY <1>3, <1>4, <1>5, <1>6, <1>9, <1>10, <1>11, LinkStep

LEMMA ExpireLinkStep ==
  ASSUME Inv, Inv', NEW l \in Link, ExpireLink(l)
  PROVE  PhaseStep
<1>1. TypeOK /\ TypeOK'
  BY DEF Inv
<1>2. /\ l \in DOMAIN links /\ links' = [links EXCEPT ![l].expired = TRUE]
      /\ UNCHANGED <<pending, mailed, req, drawn, shown>>
  BY DEF ExpireLink, history
<1>3. PICK s \in Secret : InLink(l, s)
  BY <1>1, <1>2 DEF InLink, TypeOK, LinkRow
<1>4. /\ DOMAIN links' = DOMAIN links /\ links'[l].expired
      /\ \A k \in DOMAIN links : /\ links'[k].secret = links[k].secret
                                 /\ k # l => links'[k] = links[k]
  BY <1>1, <1>2, ExpireIs
<1>5. /\ Readable(l)' => Readable(l)
      /\ \A k \in DOMAIN links \ {l} : Readable(k)' <=> Readable(k)
  BY <1>2, <1>4 DEF Readable, Consumable, At
<1>6. \A k \in Link, u \in Secret : InLink(k, u)' <=> InLink(k, u)
  BY <1>4 DEF InLink
<1>7. \A u \in Secret : Held(u)' <=> Held(u)
  BY <1>2 DEF Held, InPending, Keeps, Draws
<1> QED
  BY <1>2, <1>3, <1>5, <1>6, <1>7, LinkStep

(* A request that ends early loses what it keeps, or the link it was to    *)
(* mail or to answer.                                                      *)
LEMMA AbortStep ==
  ASSUME Inv, Inv', NEW r \in Request, Abort(r)
  PROVE  /\ (\A s \in Secret : ~Keeps(r, s)) => PhaseStep
         /\ req[r].at = "respond" => \A u \in Secret : phaseOf'[u] = phaseOf[u]
         /\ \A s \in Secret : Keeps(r, s) =>
              /\ phaseOf[s] = "held" /\ phaseOf'[s] = "lost"
              /\ \A u \in Secret \ {s} : phaseOf'[u] = phaseOf[u]
<1>1. TypeOK /\ TypeOK'
  BY DEF Inv
<1>2. Become(r, Idle) /\ UNCHANGED <<pending, links, mailed, drawn, shown>>
  BY DEF Abort, history
<1>3. /\ \A q \in Request : req'[q] = IF q = r THEN Idle ELSE req[q]
      /\ \A q \in Request, u \in Secret : Keeps(q, u)' <=> q # r /\ Keeps(q, u)
  BY <1>1, <1>2, IdleIs, RequestMoves DEF Carries, Sending, Saving
<1>4. \A u \in Secret : ~Carries(Idle, u)
  BY IdleIs DEF Carries, Sending, Saving
<1>5. ASSUME NEW s \in Secret, Keeps(r, s)
      PROVE  /\ phaseOf[s] = "held" /\ phaseOf'[s] = "lost"
             /\ \A u \in Secret \ {s} : phaseOf'[u] = phaseOf[u]
  <2>1. phaseOf[s] = "held" /\ \A l \in Link : ~InLink(l, s)
    BY <1>1, <1>5, HeldPhase, PhaseIs DEF Held
  <2>2. req[r].at \notin {"mail", "answer"} /\ \A u \in Secret \ {s} : ~Keeps(r, u)
    BY <1>5 DEF Keeps, Draws
  <2>3. \A l \in Link : Readable(l)' <=> Readable(l)
    BY <1>1, <1>2, <2>2, IdleIs, ReadableRests
  <2>4. phaseOf'[s] = "lost"
    <3>1. Born(s)'
      BY <1>2, <1>5 DEF Inv, Drawn, Born
    <3>2. ~Seen(s)' /\ ~Open(s)'
      BY <1>2, <2>1 DEF Seen, Open, InLink
    <3>3. ~Held(s)'
      BY <1>2, <1>3, <1>5 DEF Inv, Exclusive, Alone, Held, InPending
    <3> QED
      BY <1>1, <3>1, <3>2, <3>3, PhaseNext DEF PhaseOf
  <2>5. ASSUME NEW u \in Secret \ {s}
        PROVE  phaseOf'[u] = phaseOf[u]
    <3>1. Held(u)' <=> Held(u)
      BY <1>2, <1>3, <2>2 DEF Held, InPending
    <3> QED
      BY <1>1, <1>2, <2>3, <3>1, LinksRest
  <2> QED
    BY <2>1, <2>4, <2>5
<1>6. ASSUME req[r].at \in {"mail", "answer"}
      PROVE  PhaseStep
  <2>1. PICK l \in DOMAIN links : l = req[r].link
    BY <1>1, <1>6, HandlerTypes DEF Inv, Answered, Answering
  <2>2. l \in Link
    BY <1>1 DEF TypeOK
  <2>3. PICK s \in Secret : InLink(l, s)
    BY <1>1 DEF InLink, TypeOK, LinkRow
  <2>4. \A k \in Link, u \in Secret : InLink(k, u)' <=> InLink(k, u)
    BY <1>2 DEF InLink
  <2>5. \A u \in Secret : ~Keeps(r, u)
    BY <1>6 DEF Keeps, Draws
  <2>6. \A u \in Secret : Held(u)' <=> Held(u)
    BY <1>1, <1>2, <1>4, <2>5, HeldRests
  <2>7. /\ Readable(l)' => Readable(l)
        /\ \A k \in DOMAIN links \ {l} : Readable(k)' <=> Readable(k)
    BY <1>2, <1>3, <2>1, IdleIs DEF Readable, At
  <2> QED
    BY <1>2, <2>2, <2>3, <2>4, <2>6, <2>7, LinkStep
<1>7. ASSUME req[r].at \notin {"mail", "answer"}, \A s \in Secret : ~Keeps(r, s)
      PROVE  \A u \in Secret : phaseOf'[u] = phaseOf[u]
  <2>1. \A u \in Secret : Held(u)' <=> Held(u)
    BY <1>1, <1>2, <1>4, <1>7, HeldRests
  <2>2. \A l \in Link : Readable(l)' <=> Readable(l)
    BY <1>1, <1>2, <1>7, IdleIs, ReadableRests
  <2> QED
    BY <1>1, <1>2, <2>1, <2>2, LinksRest
<1>8. req[r].at = "respond" => \A s \in Secret : ~Keeps(r, s)
  BY DEF Keeps, Draws
<1> QED
  BY <1>5, <1>6, <1>7, <1>8 DEF PhaseStep

LEMMA RestsPhase ==
  ASSUME Inv, Inv', NEW r \in Request, Rests(r)
  PROVE  PhaseStep
BY QuietSteps, ConsumePendingStep, ConsumeLinkStep, StoreStep, SendMailStep,
   ShowStep, GenerateStep DEF Rests

LEMMA StillsPhase ==
  ASSUME Inv, Inv', Expires \/ UNCHANGED vars
  PROVE  PhaseStep
<1>1. CASE UNCHANGED vars
  <2>1. \A q \in Request, u \in Secret : Keeps(q, u)' <=> Keeps(q, u)
    BY <1>1 DEF vars, Keeps, Draws
  <2>2. \A u \in Secret : Held(u)' <=> Held(u)
    BY <1>1, <2>1 DEF vars, Held, InPending
  <2>3. \A l \in Link : Readable(l)' <=> Readable(l)
    BY <1>1 DEF vars, Readable, At
  <2>4. \A u \in Secret : phaseOf'[u] = phaseOf[u]
    BY <1>1, <2>2, <2>3, LinksRest DEF vars, history, Inv
  <2> QED
    BY <2>4 DEF PhaseStep
<1> QED
  BY <1>1, ExpireLinkStep, ExpirePendingStep DEF Expires

-----------------------------------------------------------------------------
(* The answers, and the two together. *)
LEMMA FunctionsAre ==
  /\ phaseOf = [u \in Secret |-> phaseOf[u]]
  /\ phaseOf' = [u \in Secret |-> phaseOf'[u]]
  /\ answerOf = [u \in Secret |-> answerOf[u]]
  /\ answerOf' = [u \in Secret |-> answerOf'[u]]
BY DEF phaseOf, answerOf

LEMMA AnswersStay ==
  ASSUME UNCHANGED <<drawn, told>>,
         \A q \in Request, s \in Secret : Owes(q, s)' <=> Owes(q, s)
  PROVE  answerOf' = answerOf
BY DEF answerOf

LEMMA OnlyPhases ==
  ASSUME PhaseStep, answerOf' = answerOf
  PROVE  [Delivery!Next]_<<phaseOf, answerOf>>
<1>1. CASE \A u \in Secret : phaseOf'[u] = phaseOf[u]
  <2>1. phaseOf' = phaseOf
    BY <1>1, FunctionsAre
  <2> QED
    BY <2>1
<1>2. ASSUME NEW s \in Secret, Moved(phaseOf[s], phaseOf'[s]),
             phaseOf'[s] # phaseOf[s],
             \A u \in Secret \ {s} : phaseOf'[u] = phaseOf[u]
      PROVE  Delivery!Attach(s) \/ Delivery!Show(s) \/ Delivery!Lose(s)
  <2>1. PICK to : to = phaseOf'[s]
    OBVIOUS
  <2>2. phaseOf' = [phaseOf EXCEPT ![s] = to]
    BY <1>2, <2>1, FunctionsAre
  <2> QED
    BY <1>2, <2>1, <2>2
       DEF Moved, Delivery!Attach, Delivery!Show, Delivery!Lose, Delivery!Moves
<1> QED
  BY <1>1, <1>2 DEF PhaseStep, Delivery!Next

LEMMA GenerateRefines ==
  ASSUME Inv, Inv', Owing, NEW r \in Request, NEW s \in Secret, Generates(r, s)
  PROVE  Delivery!Create(s)
<1>1. TypeOK
  BY DEF Inv
<1>2. Appears(s)
  BY GeneratedSteps
<1>3. phaseOf' = [phaseOf EXCEPT ![s] = "held"]
  BY <1>2, FunctionsAre DEF Appears
<1>4. /\ s \notin drawn /\ drawn' = drawn \cup {s} /\ UNCHANGED told
      /\ \A u \in Secret : ~Owes(r, u)
      /\ \A q \in Request, u \in Secret :
           Owes(q, u)' <=> IF q = r THEN u = s ELSE Owes(q, u)
  BY <1>1, GeneratesIs DEF Owes, Draws
<1>5. answerOf[s] = "none" /\ answerOf'[s] = "due"
  BY <1>4 DEF answerOf, Owing
<1>6. \A u \in Secret \ {s} : answerOf'[u] = answerOf[u]
  BY <1>4 DEF answerOf
<1>7. answerOf' = [answerOf EXCEPT ![s] = "due"]
  BY <1>5, <1>6, FunctionsAre
<1> QED
  BY <1>2, <1>3, <1>5, <1>7
     DEF Appears, Delivery!Create, Delivery!Moves, Delivery!Answers

(* An answer, or a failure, of a request that owes s. *)
LEMMA EndsAnswer ==
  ASSUME TypeOK, Owing, NEW r \in Request, AnswerSecret(r) \/ Abort(r),
         NEW s \in Secret, Owes(r, s)
  PROVE  /\ answerOf[s] = "due" /\ (Abort(r) => ~AnswerSecret(r))
         /\ answerOf' = [answerOf EXCEPT
              ![s] = IF AnswerSecret(r) THEN "told" ELSE "lost"]
<1>1. s \in drawn /\ told[s] = 0 /\ \A q \in Request : Owes(q, s) => q = r
  BY DEF Owing
<1>2. \A u \in Secret : Owes(r, u) => u = s
  BY DEF Owes, Draws
<1>3. /\ drawn' = drawn
      /\ \A u \in Secret \ {s} : told'[u] = told[u]
      /\ told'[s] = IF AnswerSecret(r) THEN 1 ELSE 0
      /\ \A q \in Request, u \in Secret : Owes(q, u)' <=> q # r /\ Owes(q, u)
  BY <1>1, <1>2, EndsIs DEF TypeOK
<1>4. answerOf[s] = "due"
  BY <1>1 DEF answerOf
<1>5. answerOf'[s] = IF AnswerSecret(r) THEN "told" ELSE "lost"
  BY <1>1, <1>3 DEF answerOf
<1>6. \A u \in Secret \ {s} : answerOf'[u] = answerOf[u]
  BY <1>2, <1>3 DEF answerOf
<1>7. Abort(r) => ~AnswerSecret(r)
  BY <1>1, <1>3, EndsIs
<1> QED
  BY <1>4, <1>5, <1>6, <1>7, FunctionsAre

LEMMA AnswerPhase ==
  ASSUME Inv, Inv', NEW r \in Request, AnswerSecret(r)
  PROVE  \A u \in Secret : phaseOf'[u] = phaseOf[u]
<1>1. TypeOK /\ TypeOK'
  BY DEF Inv
<1>2. /\ req[r].at = "respond" /\ Become(r, Idle)
      /\ UNCHANGED <<pending, links, mailed, drawn, shown>>
  BY DEF AnswerSecret, At
<1>3. \A u \in Secret : ~Keeps(r, u) /\ ~Carries(Idle, u)
  BY <1>2, IdleIs DEF Keeps, Draws, Carries, Sending, Saving
<1>4. \A u \in Secret : Held(u)' <=> Held(u)
  BY <1>1, <1>2, <1>3, HeldRests
<1>5. \A l \in Link : Readable(l)' <=> Readable(l)
  BY <1>1, <1>2, IdleIs, ReadableRests
<1> QED
  BY <1>1, <1>2, <1>4, <1>5, LinksRest

LEMMA AnswerRefines ==
  ASSUME Inv, Inv', Owing, NEW r \in Request, AnswerSecret(r)
  PROVE  \E s \in Secret : Delivery!Tell(s)
<1>1. TypeOK
  BY DEF Inv
<1>2. PICK s \in Secret : s = req[r].secret
  BY <1>1, HandlerTypes DEF AnswerSecret, At
<1>3. Owes(r, s)
  BY <1>2 DEF AnswerSecret, At, Owes
<1>4. answerOf[s] = "due" /\ answerOf' = [answerOf EXCEPT ![s] = "told"]
  BY <1>1, <1>3, EndsAnswer
<1>5. phaseOf' = phaseOf
  BY AnswerPhase, FunctionsAre
<1> QED
  BY <1>4, <1>5 DEF Delivery!Tell, Delivery!Answers

LEMMA AbortRefines ==
  ASSUME Inv, Inv', Owing, NEW r \in Request, Abort(r)
  PROVE  [Delivery!Next]_<<phaseOf, answerOf>>
<1>1. TypeOK
  BY DEF Inv
<1>2. ASSUME NEW s \in Secret, Owes(r, s), Keeps(r, s)
      PROVE  Delivery!Fail(s)
  <2>1. phaseOf[s] = "held" /\ phaseOf' = [phaseOf EXCEPT ![s] = "lost"]
    BY <1>2, AbortStep, FunctionsAre
  <2>2. answerOf[s] = "due" /\ answerOf' = [answerOf EXCEPT ![s] = "lost"]
    BY <1>1, <1>2, EndsAnswer
  <2> QED
    BY <2>1, <2>2 DEF Delivery!Fail, Delivery!Moves, Delivery!Answers
<1>3. ASSUME NEW s \in Secret, Owes(r, s), ~Keeps(r, s)
      PROVE  Delivery!Tell(s)
  <2>1. req[r].at = "respond"
    BY <1>3 DEF Owes, Keeps
  <2>2. phaseOf' = phaseOf
    BY <2>1, AbortStep, FunctionsAre
  <2>3. answerOf[s] = "due" /\ answerOf' = [answerOf EXCEPT ![s] = "lost"]
    BY <1>1, <1>3, EndsAnswer
  <2> QED
    BY <2>2, <2>3 DEF Delivery!Tell, Delivery!Answers
<1>4. ASSUME \A s \in Secret : ~Owes(r, s)
      PROVE  [Delivery!Next]_<<phaseOf, answerOf>>
  <2>1. answerOf' = answerOf
    BY <1>1, <1>4, EndsIs, AnswersStay
  <2>2. PhaseStep
    BY AbortStep DEF PhaseStep, Moved
  <2> QED
    BY <2>1, <2>2, OnlyPhases
<1> QED
  BY <1>2, <1>3, <1>4 DEF Delivery!Next

LEMMA StepRefines ==
  ASSUME Inv, Inv', Owing, [Next]_vars
  PROVE  [Delivery!Next]_<<phaseOf, answerOf>>
<1>1. TypeOK
  BY DEF Inv
<1>2. ASSUME NEW r \in Request, Rests(r)
      PROVE  [Delivery!Next]_<<phaseOf, answerOf>>
  BY <1>1, <1>2, RestsPhase, RestsKeepsOwes, AnswersStay, OnlyPhases
<1>3. ASSUME Expires \/ UNCHANGED vars
      PROVE  [Delivery!Next]_<<phaseOf, answerOf>>
  BY <1>3, StillsPhase, StillsIs, AnswersStay, OnlyPhases
<1>4. ASSUME NEW r \in Request, NEW s \in Secret, Generates(r, s)
      PROVE  [Delivery!Next]_<<phaseOf, answerOf>>
  BY <1>4, GenerateRefines DEF Delivery!Next
<1>5. ASSUME NEW r \in Request, AnswerSecret(r)
      PROVE  [Delivery!Next]_<<phaseOf, answerOf>>
  BY <1>5, AnswerRefines DEF Delivery!Next
<1> QED
  BY <1>2, <1>3, <1>4, <1>5, AbortRefines, StepIs

LEMMA InitRefines == Init => Delivery!Init
BY DEF Init, phaseOf, answerOf, Delivery!Init

(* However requests, mails and pages interleave and fail, a secret goes    *)
(* from being held to a link and from there to one reader, or is lost, and *)
(* never goes back; and its admin is told of it once, or it is lost.       *)
THEOREM DeliveredOnceHolds == Spec => DeliveredOnce
<1>1. Inv /\ Inv' /\ Owing /\ [Next]_vars =>
        [Delivery!Next]_<<phaseOf, answerOf>>
  BY StepRefines
<1> QED
  BY <1>1, InitRefines, Invariance, OwingInvariance, PTL
     DEF Spec, DeliveredOnce, Delivery!Spec

-----------------------------------------------------------------------------
(***************************************************************************)
(* The claim of suspend's description, which the code does not keep, holds *)
(* of suspensions and activations that overlap no other save of the same   *)
(* client: what a lock of the row, taken where it is read, would see to.   *)
(***************************************************************************)

(* A request that has found c, and may still save it. *)
Has(r, c) == req[r].at \in Saving /\ req[r].id = c

Toggles == {"suspend", "activate"}

(* While one request suspends, or activates, a client, no other saves it,  *)
(* but to the same end.                                                    *)
TogglesAlone ==
  \A c \in Client : \A r, q \in Request :
    Has(r, c) /\ Has(q, c) /\ req[r].op \in Toggles => req[q].op = req[r].op

(* The other requests carry isActive along as the row has it, agree on it  *)
(* when there is no row to carry it from, and never write it.              *)
ActiveCarried ==
  \A r \in Request, c \in Client :
    /\ Has(r, c) => c \in DOMAIN clients \cup retired
    /\ Has(r, c) /\ req[r].op \notin Toggles =>
         /\ c \in DOMAIN clients => req[r].entity.isActive = clients[c].isActive
         /\ \A q \in Request : Has(q, c) /\ req[q].op \notin Toggles =>
              req[q].entity.isActive = req[r].entity.isActive
         /\ At(r, "update") => "isActive" \notin req[r].columns
    /\ Has(r, c) /\ req[r].op = "suspend" => ~req[r].entity.isActive

(* How a request comes by an entity: it had it, or reads it now. *)
Kept(r) ==
  /\ req'[r].op = req[r].op /\ req'[r].entity = req[r].entity
  /\ req'[r] = req[r] \/ Select(r)

Read(r, c) ==
  /\ c \in DOMAIN clients /\ clients' = clients /\ req'[r].at = "select"
  /\ req'[r].op = "suspend" => ~req'[r].entity.isActive
  /\ req'[r].op \notin Toggles => req'[r].entity.isActive = clients[c].isActive

Writes(r, c) == Update(r) /\ req[r].id = c

LEMMA ReadsClient ==
  ASSUME TypeOK, NEW r \in Request, Start(r), NEW c \in Client, Has(r, c)'
  PROVE  Read(r, c)
<1>1. ASSUME NEW h, Become(r, h)
      PROVE  h.at \in Saving /\ h.id = c /\ req'[r] = h
  BY <1>1, Moves DEF Has
<1>2. ASSUME NEW d \in Client, NEW op, NEW entity, FindToSave(r, d, op, entity)
      PROVE  /\ c = d /\ clients[c] \in Entity
             /\ c \in DOMAIN clients /\ clients' = clients
             /\ req'[r].at = "select" /\ req'[r].op = op /\ req'[r].entity = entity
  <2> DEFINE h == [at |-> "select", op |-> op, id |-> d, entity |-> entity]
  <2>1. /\ h.at = "select" /\ h.op = op /\ h.id = d /\ h.entity = entity
        /\ Become(r, h) /\ d \in DOMAIN clients /\ clients' = clients
    BY <1>2 DEF FindToSave
  <2> HIDE DEF h
  <2> QED
    BY <1>1, <2>1 DEF TypeOK
<1>3. ASSUME NEW d \in Client, NEW x \in Data, UpdateClient(r, d, x)
      PROVE  Read(r, c)
  <2>1. clients[d] \in Entity => Assigned(clients[d], x).isActive = clients[d].isActive
    BY DEF Assigned, Entity
  <2> QED
    BY <1>2, <1>3, <2>1 DEF UpdateClient, Read, Toggles
<1>4. ASSUME NEW d \in Client, Suspend(r, d)
      PROVE  Read(r, c)
  <2>1. clients[d] \in Entity => ~[clients[d] EXCEPT !.isActive = FALSE].isActive
    BY DEF Entity
  <2> QED
    BY <1>2, <1>4, <2>1 DEF Suspend, Read, Toggles
<1>5. ASSUME NEW d \in Client, Activate(r, d)
      PROVE  Read(r, c)
  BY <1>2, <1>5 DEF Activate, Read, Toggles
<1>6. ASSUME NEW d \in Client, NEW s \in Secret, RegenerateSecret(r, d, s)
      PROVE  Read(r, c)
  <2>1. PICK entity : entity = [clients[d] EXCEPT !.clientSecret = s]
    OBVIOUS
  <2>2. clients[d] \in Entity => entity.isActive = clients[d].isActive
    BY <2>1 DEF Entity
  <2>3. FindToSave(r, d, "regenerate", entity)
    BY <1>6, <2>1 DEF RegenerateSecret
  <2> QED
    BY <1>2, <2>2, <2>3 DEF Read, Toggles
<1>7. ASSUME NEW d \in Client, NEW s \in Secret, NEW x \in Data,
             CreateSave(r, d, s, x)
      PROVE  FALSE
  BY <1>1, <1>7 DEF CreateSave, Saving
<1>8. ASSUME NEW d \in Client, RemoveFind(r, d) \/ ConsumePendingSecret(r, d)
      PROVE  FALSE
  BY <1>1, <1>8 DEF RemoveFind, ConsumePendingSecret, Saving
<1>9. ASSUME NEW l \in Link, ConsumeLink(r, l)
      PROVE  FALSE
  BY <1>1, <1>9 DEF ConsumeLink, Saving
<1> QED
  BY <1>3, <1>4, <1>5, <1>6, <1>7, <1>8, <1>9 DEF Start

LEMMA KeepsClient ==
  ASSUME TypeOK, NEW r \in Request, Resume(r), NEW c \in Client, Has(r, c)'
  PROVE  Select(r) /\ Has(r, c) /\ Kept(r)
<1>1. ASSUME NEW h, Become(r, h)
      PROVE  h.at \in Saving /\ h.id = c /\ req'[r] = h
  BY <1>1, Moves DEF Has
<1>2. ~Become(r, Idle)
  BY <1>1, IdleIs DEF Saving
<1>3. \A id : ~Saved(r, id)
  BY <1>1, <1>2 DEF Saved, Saving
<1>4. ~SendFindClient(r) /\ \A l \in Link : ~GenerateLink(r, l)
  BY <1>1 DEF SendFindClient, GenerateLink, Saving
<1>5. ASSUME StorePendingSecret(r)
      PROVE  FALSE
  <2>1. req[r].at = "store" /\ req[r] \in Handler
    BY <1>5, HandlerTypes DEF StorePendingSecret, At
  <2> DEFINE h == [req[r] EXCEPT !.at = "respond"]
  <2>2. h.at = "respond" /\ Become(r, h)
    BY <1>5, <2>1 DEF StorePendingSecret, Handler
  <2> HIDE DEF h
  <2> QED
    BY <1>1, <2>2 DEF Saving
<1>6. Select(r)
  BY <1>2, <1>3, <1>4, <1>5 DEF Resume, AnswerSecret, Update, Insert,
                               RemoveCommit, SendMail, Show
<1> QED
  <2>1. req[r].at = "select"
    BY <1>6 DEF Select, At
  <2>2. PICK h : /\ Become(r, h) /\ h.op = req[r].op /\ h.id = req[r].id
                 /\ h.entity = req[r].entity
    BY <1>6, SelectIs
  <2> QED
    BY <1>1, <1>6, <2>1, <2>2 DEF Has, Kept, Saving

LEMMA HasFrom ==
  ASSUME TypeOK, [Next]_vars, NEW r \in Request, NEW c \in Client, Has(r, c)'
  PROVE  (Has(r, c) /\ Kept(r)) \/ Read(r, c)
<1>1. ASSUME NEW q \in Request, NEW h, Become(q, h), q # r
      PROVE  req'[r] = req[r]
  BY <1>1, Moves
<1>2. ASSUME NEW q \in Request, Start(q), q # r
      PROVE  req'[r] = req[r]
  BY <1>1, <1>2 DEF Start, CreateSave, UpdateClient, Suspend, Activate,
     RegenerateSecret, FindToSave, RemoveFind, ConsumePendingSecret, ConsumeLink
<1>3. ASSUME NEW q \in Request, Resume(q) \/ Abort(q), q # r
      PROVE  req'[r] = req[r]
  BY <1>1, <1>3 DEF Resume, StorePendingSecret, AnswerSecret, Select, Update,
     Insert, Saved, RemoveCommit, SendFindClient, SendMail, Show, GenerateLink,
     Abort
<1>4. ~Abort(r)
  BY IdleIs, Moves DEF Abort, Has, Saving
<1>5. req'[r] = req[r] => Has(r, c) /\ Kept(r)
  BY DEF Has, Kept
<1> QED
  BY <1>2, <1>3, <1>4, <1>5, ReadsClient, KeepsClient
     DEF Next, ExpireLink, ExpirePending, vars

(* The row of c, and isActive in it, after a step. *)
LEMMA WriteIs ==
  ASSUME TypeOK, NEW r \in Request, NEW c, Writes(r, c)
  PROVE  /\ Has(r, c) /\ c \in Client /\ At(r, "update")
         /\ DOMAIN clients' = DOMAIN clients
         /\ c \in DOMAIN clients =>
              clients'[c].isActive = IF "isActive" \in req[r].columns
                THEN req[r].entity.isActive ELSE clients[c].isActive
<1>1. c \in DOMAIN clients => "isActive" \in DOMAIN clients[c]
  BY DEF TypeOK, Entity
<1>2. /\ DOMAIN clients' = DOMAIN clients
      /\ c \in DOMAIN clients =>
           clients'[c] = [k \in DOMAIN clients[c] |->
             IF k \in req[r].columns THEN req[r].entity[k] ELSE clients[c][k]]
  BY DEF Update, Write, UpdateColumns, Writes
<1>3. c \in DOMAIN clients =>
        clients'[c]["isActive"] = IF "isActive" \in req[r].columns
          THEN req[r].entity["isActive"] ELSE clients[c]["isActive"]
  BY <1>1, <1>2
<1> QED
  BY <1>2, <1>3, HandlerTypes DEF Update, Writes, Has, At, Saving

LEMMA NoWrite ==
  ASSUME TypeOK, [Next]_vars, NEW c, Known(c),
         c \in DOMAIN clients', ~\E r \in Request : Writes(r, c)
  PROVE  c \in DOMAIN clients /\ clients'[c] = clients[c]
<1>1. ASSUME NEW r \in Request, Start(r)
      PROVE  c \in DOMAIN clients /\ clients'[c] = clients[c]
  <2>1. ASSUME NEW d \in Client, NEW s \in Secret, NEW x \in Data,
               CreateSave(r, d, s, x)
        PROVE  c \in DOMAIN clients /\ clients'[c] = clients[c]
    BY <2>1 DEF CreateSave, Write, InsertRow, NewId, Known
  <2> QED
    BY <1>1, <2>1 DEF Start, UpdateClient, Suspend, Activate, RegenerateSecret,
       FindToSave, RemoveFind, ConsumePendingSecret, ConsumeLink
<1>2. ASSUME NEW r \in Request, Update(r) \/ \E d \in Client : Insert(r, d)
      PROVE  c \in DOMAIN clients /\ clients'[c] = clients[c]
  BY <1>2 DEF Update, Insert, Write, UpdateColumns, InsertRow, NewId, Known, Writes
<1>3. ASSUME NEW r \in Request, RemoveCommit(r)
      PROVE  c \in DOMAIN clients /\ clients'[c] = clients[c]
  BY <1>3 DEF RemoveCommit, DeleteRow
<1> QED
  BY <1>1, <1>2, <1>3 DEF Next, Resume, StorePendingSecret, AnswerSecret, Select,
     SendFindClient, SendMail, Show, GenerateLink, Abort, ExpireLink,
     ExpirePending, vars

(* One who had the client, and neither suspends nor activates it, finds    *)
(* isActive of the row as it was.                                          *)
LEMMA CarriedOn ==
  ASSUME TypeOK, ActiveCarried, TogglesAlone, [Next]_vars, NEW r \in Request,
         NEW c \in Client, Has(r, c), req[r].op \notin Toggles,
         c \in DOMAIN clients'
  PROVE  clients'[c].isActive = req[r].entity.isActive
<1>1. ASSUME NEW q \in Request, Writes(q, c)
      PROVE  clients'[c].isActive = req[r].entity.isActive
  <2>1. Has(q, c) /\ req[q].op \notin Toggles
    BY <1>1, WriteIs DEF TogglesAlone
  <2>2. req[q].entity.isActive = req[r].entity.isActive
    BY <2>1 DEF ActiveCarried
  <2>3. At(q, "update") => "isActive" \notin req[q].columns
    BY <2>1 DEF ActiveCarried
  <2>4. c \in DOMAIN clients => clients[c].isActive = req[r].entity.isActive
    BY DEF ActiveCarried
  <2> QED
    BY <1>1, <2>2, <2>3, <2>4, WriteIs
<1>2. CASE ~\E q \in Request : Writes(q, c)
  BY <1>2, NoWrite DEF ActiveCarried, Known
<1> QED
  BY <1>1, <1>2

(* One who neither suspends nor activates sets the other columns only. *)
LEMMA ColumnsCarried ==
  ASSUME TypeOK, ActiveCarried, NEW r \in Request, NEW c \in Client,
         Has(r, c), Kept(r), req[r].op \notin Toggles, At(r, "update")'
  PROVE  "isActive" \notin req'[r].columns
<1>1. CASE req'[r] = req[r]
  BY <1>1 DEF ActiveCarried, At
<1>2. CASE Select(r)
  <2>1. req[r].at = "select" /\ req[r] \in Handler /\ req[r].id = c
    BY <1>2, HandlerTypes DEF Select, At, Has
  <2>2. CASE c \in DOMAIN clients
    <3>1. req'[r].columns = Changed(clients, c, req[r].entity)
      BY <1>2, <2>1, <2>2, Moves DEF Select
    <3>2. req[r].entity["isActive"] = clients[c]["isActive"]
      BY <2>2 DEF ActiveCarried
    <3> QED
      BY <3>1, <3>2 DEF Changed
  <2>3. CASE c \notin DOMAIN clients
    <3>1. PICK h : h = [req[r] EXCEPT !.at = "insert"]
      OBVIOUS
    <3>2. h.at = "insert" /\ req'[r] = h
      BY <1>2, <2>1, <2>3, <3>1, Moves DEF Select, Handler
    <3> QED
      BY <3>2 DEF At
  <2> QED
    BY <2>2, <2>3
<1> QED
  BY <1>1, <1>2 DEF Kept

LEMMA NextActiveCarried ==
  TypeOK /\ ActiveCarried /\ TogglesAlone /\ [Next]_vars => ActiveCarried'
<1> SUFFICES ASSUME TypeOK, ActiveCarried, TogglesAlone, [Next]_vars
             PROVE  ActiveCarried'
  OBVIOUS
<1>1. ASSUME NEW r \in Request, NEW c \in Client, Has(r, c)'
      PROVE  /\ c \in DOMAIN clients' \cup retired'
             /\ req'[r].op = "suspend" => ~req'[r].entity.isActive
  <2>1. c \in DOMAIN clients \cup retired
    BY <1>1, HasFrom DEF Read, ActiveCarried
  <2>2. req'[r].op = "suspend" => ~req'[r].entity.isActive
    BY <1>1, HasFrom DEF Kept, Read, ActiveCarried
  <2> QED
    BY <2>1, <2>2, RetiredGrows DEF Known, KnownNext
<1>2. ASSUME NEW r \in Request, NEW c \in Client, Has(r, c)',
             req'[r].op \notin Toggles
      PROVE  /\ c \in DOMAIN clients' => req'[r].entity.isActive = clients'[c].isActive
             /\ At(r, "update")' => "isActive" \notin req'[r].columns
  <2>1. CASE Has(r, c) /\ Kept(r)
    BY <1>2, <2>1, CarriedOn, ColumnsCarried DEF Kept
  <2>2. CASE Read(r, c)
    BY <1>2, <2>2 DEF Read, At
  <2> QED
    BY <1>2, <2>1, <2>2, HasFrom
<1>3. ASSUME NEW r \in Request, NEW c \in Client, Has(r, c)',
             req'[r].op \notin Toggles,
             NEW q \in Request, Has(q, c)', req'[q].op \notin Toggles
      PROVE  req'[q].entity.isActive = req'[r].entity.isActive
  <2>1. CASE c \in DOMAIN clients'
    BY <1>2, <1>3, <2>1
  <2>2. CASE c \notin DOMAIN clients'
    <3>1. ~Read(r, c) /\ ~Read(q, c)
      BY <2>2 DEF Read
    <3>2. Has(r, c) /\ Kept(r) /\ Has(q, c) /\ Kept(q)
      BY <1>3, <3>1, HasFrom
    <3> QED
      BY <1>3, <3>2 DEF Kept, ActiveCarried
  <2> QED
    BY <2>1, <2>2
<1> QED
  BY <1>1, <1>2, <1>3 DEF ActiveCarried

(* Nothing but activate makes a suspended client active, if no other save  *)
(* of the client overlaps a suspension or an activation: renamings, new    *)
(* secrets, removals and repeated suspensions may overlap each other.      *)
THEOREM OnlyActivateActivatesWhenAlone ==
  Spec /\ []TogglesAlone => OnlyActivateActivates
<1>1. Init => ActiveCarried
  BY IdleIs DEF Init, ActiveCarried, Has, Saving
<1>2. TypeOK /\ ActiveCarried /\ TogglesAlone /\ [Next]_vars =>
        [\A r \in Request, c \in Client :
           At(r, "update") /\ req[r].id = c /\ Suspended(c)
             /\ ~At(r, "update")' /\ c \in DOMAIN clients' /\ ~Suspended(c)' =>
               req[r].op = "activate"]_vars
  <2> SUFFICES ASSUME TypeOK, ActiveCarried, TogglesAlone, [Next]_vars,
                      NEW r \in Request, NEW c \in Client,
                      At(r, "update"), req[r].id = c, Suspended(c),
                      c \in DOMAIN clients', ~Suspended(c)'
               PROVE  req[r].op = "activate"
    OBVIOUS
  <2>1. /\ Has(r, c)
        /\ c \in DOMAIN clients /\ ~clients[c].isActive /\ clients'[c].isActive
    BY DEF Has, At, Saving, Suspended
  <2>2. PICK q \in Request : Writes(q, c)
    BY <2>1, NoWrite DEF Known
  <2>3. Has(q, c) /\ "isActive" \in req[q].columns /\ req[q].entity.isActive
    BY <2>1, <2>2, WriteIs
  <2>4. At(q, "update")
    BY <2>1, <2>2, WriteIs
  <2>5. req[q].op = "activate"
    BY <2>3, <2>4 DEF ActiveCarried, Toggles
  <2> QED
    BY <2>1, <2>3, <2>5 DEF TogglesAlone, Toggles
<1> QED
  BY <1>1, <1>2, TypeCorrect, NextActiveCarried, PTL
     DEF Spec, OnlyActivateActivates
=============================================================================
