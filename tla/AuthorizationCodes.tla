------------------------ MODULE AuthorizationCodes -------------------------
(***************************************************************************)
(* The authorization codes of a student's login: CodeService, which keeps  *)
(* them in the memory of the process, and the two handlers of AuthService  *)
(* around it, issueCode and exchangeCodeForTokens.  What the exchange does *)
(* to the table of refresh tokens is in StudentSessions; here a session is *)
(* only the fact that one was stored.                                      *)
(*                                                                         *)
(* Handlers interleave at their awaits as in StudentSessions.  A restart   *)
(* of the process forgets every code and every handler.                    *)
(***************************************************************************)
EXTENDS Integers, Sequences

CONSTANTS
  Code,      \* codes; each is a fresh UUID
  Client,    \* OAuth client applications
  Request,   \* requests that can be in progress at once
  CodeTtl,   \* CODE_TTL_MS
  MaxTime    \* bound: the clock stops here

ASSUME CodeTimesAssumption == CodeTtl \in Nat /\ MaxTime \in Nat

VARIABLES
  codes,   \* the Map of CodeService: code -> entry
  client,  \* client[c]: "active", "suspended" or "gone"
  req,     \* req[r]: the handler of request r and what it has read
  now,
  issued,  \* history: the entries ever generated, by code
  opened   \* history: opened[k] lists the clients of the sessions stored
           \* in exchange for code k

vars == <<codes, client, req, now, issued, opened>>

Entry == [clientId: Client, expiresAt: Nat]

Handler ==
  [at: {"idle"}]
    \cup [at: {"university"}, clientId: Client]
    \cup [at: {"compare", "save"}, clientId: Client, code: Code]

TypeOK ==
  /\ DOMAIN codes \subseteq Code /\ codes \in [DOMAIN codes -> Entry]
  /\ DOMAIN issued \subseteq Code /\ issued \in [DOMAIN issued -> Entry]
  /\ client \in [Client -> {"active", "suspended", "gone"}]
  /\ req \in [Request -> Handler]
  /\ now \in 0..MaxTime
  /\ opened \in [Code -> Seq(Client)]

Idle == [at |-> "idle"]

Init ==
  /\ codes = [k \in {} |-> <<>>]
  /\ issued = [k \in {} |-> <<>>]
  /\ client = [c \in Client |-> "active"]
  /\ req = [r \in Request |-> Idle]
  /\ now = 0
  /\ opened = [k \in Code |-> <<>>]

Become(r, h) == req' = [req EXCEPT ![r] = h]

At(r, label) == req[r].at = label

(* Map.set and Map.delete. *)
Set(map, k, entry) ==
  [j \in DOMAIN map \cup {k} |-> IF j = k THEN entry ELSE map[j]]

Keep(map, S) == [j \in DOMAIN map \cap S |-> map[j]]

-----------------------------------------------------------------------------
(***************************************************************************)
(* POST /sso/authorize.  The client is found, active, with this            *)
(* redirect_uri; the university's service is asked for the student next.   *)
(***************************************************************************)
IssueFind(r, c) ==
  /\ At(r, "idle")
  /\ client[c] = "active"
  /\ Become(r, [at |-> "university", clientId |-> c])
  /\ UNCHANGED <<codes, client, now, issued, opened>>

(* What generate() stores.  Slip: the client not passed on. *)
NewEntry_NoClient(c) == [clientId |-> "undefined", expiresAt |-> now + CodeTtl]

NewEntry(c) == [clientId |-> c, expiresAt |-> now + CodeTtl]

(* Bounds the codes a run looks at to those that end before the clock.     *)
WithinHorizon == now + CodeTtl < MaxTime

(* The student is who they say, and the code is stored. *)
IssueGenerate(r, k) ==
  /\ At(r, "university")
  /\ k \notin DOMAIN issued
  /\ WithinHorizon
  /\ codes' = Set(codes, k, NewEntry(req[r].clientId))
  /\ issued' = Set(issued, k, NewEntry(req[r].clientId))
  /\ Become(r, Idle)
  /\ UNCHANGED <<client, now, opened>>

(***************************************************************************)
(* POST /sso/token, for any code ever issued, by any client.  findOne of   *)
(* validateClient; bcrypt.compare is awaited next.                         *)
(***************************************************************************)
ExchangeFind(r, c, k) ==
  /\ At(r, "idle")
  /\ client[c] = "active"
  /\ k \in DOMAIN issued
  /\ Become(r, [at |-> "compare", clientId |-> c, code |-> k])
  /\ UNCHANGED <<codes, client, now, issued, opened>>

(* CodeService.consume, up to its answer: the entry if it is in time.      *)
(* Slip: expiry not looked at.                                             *)
Accepts_Late(k) == k \in DOMAIN codes

Accepts(k) == k \in DOMAIN codes /\ now <= codes[k].expiresAt

(* What consume leaves in the Map: the code goes in every case.  Slip: an  *)
(* entry that is read and left.                                            *)
Consumed_Left(k) == codes

Consumed(k) == Keep(codes, Code \ {k})

(* The entry must be of the client that presents the code.  Slip: not      *)
(* looked at.                                                              *)
BelongsTo_Any(k, c) == TRUE

BelongsTo(k, c) == codes[k].clientId = c

(* The secret is good.  From here to the signatures nothing is awaited.    *)
ExchangeConsume(r) ==
  LET h == req[r] IN
  /\ At(r, "compare")
  /\ codes' = Consumed(h.code)
  /\ Become(r, IF Accepts(h.code) /\ BelongsTo(h.code, h.clientId)
                 THEN [h EXCEPT !.at = "save"]
                 ELSE Idle)
  /\ UNCHANGED <<client, now, issued, opened>>

(* The tokens are signed and the session is stored. *)
ExchangeSave(r) ==
  /\ At(r, "save")
  /\ opened' = [opened EXCEPT ![req[r].code] = Append(@, req[r].clientId)]
  /\ Become(r, Idle)
  /\ UNCHANGED <<codes, client, now, issued>>

-----------------------------------------------------------------------------
(* The timer of CodeService.  Slip: the comparison the wrong way round.    *)
Expired_Reversed(k) == now < codes[k].expiresAt

Expired(k) == now > codes[k].expiresAt

PurgeExpired ==
  /\ \E k \in DOMAIN codes : Expired(k)
  /\ codes' = Keep(codes, {k \in DOMAIN codes : ~Expired(k)})
  /\ UNCHANGED <<client, req, now, issued, opened>>

(* An admin suspends, activates or removes the client (OAuthClientService, *)
(* by its effect on the row: a save that overlaps a removal inserts a row  *)
(* under another id, and the client stays gone).                           *)
ClientChanges(c, state) ==
  /\ client[c] # "gone"
  /\ client' = [client EXCEPT ![c] = state]
  /\ UNCHANGED <<codes, req, now, issued, opened>>

(* A wrong password or secret, a timeout of the university's service, a    *)
(* failure of the database.                                                *)
Abort(r) ==
  /\ ~At(r, "idle")
  /\ Become(r, Idle)
  /\ UNCHANGED <<codes, client, now, issued, opened>>

Restart ==
  /\ codes' = [k \in {} |-> <<>>]
  /\ req' = [r \in Request |-> Idle]
  /\ UNCHANGED <<client, now, issued, opened>>

Tick ==
  /\ now < MaxTime
  /\ now' = now + 1
  /\ UNCHANGED <<codes, client, req, issued, opened>>

Resume(r) ==
  \/ \E k \in Code : IssueGenerate(r, k)
  \/ ExchangeConsume(r)
  \/ ExchangeSave(r)

Next ==
  \/ \E r \in Request :
       \/ \E c \in Client : IssueFind(r, c) \/ \E k \in Code : ExchangeFind(r, c, k)
       \/ Resume(r)
       \/ Abort(r)
  \/ \E c \in Client, state \in {"active", "suspended", "gone"} :
       ClientChanges(c, state)
  \/ PurgeExpired \/ Restart \/ Tick

Spec == Init /\ [][Next]_vars

(* Time passes and the timer fires; requests need not come. *)
FairSpec == Spec /\ WF_vars(Tick) /\ WF_vars(PurgeExpired)

-----------------------------------------------------------------------------
(***************************************************************************)
(* Properties.                                                             *)
(***************************************************************************)
Pending(r, k) == At(r, "save") /\ req[r].code = k

(* A code yields one session at most, however many requests present it at  *)
(* once, and none after a restart that follows its use.  A code still in   *)
(* the Map has yielded none, and one taken from it has one taker.          *)
OneSessionPerCode ==
  \A k \in Code :
    /\ Len(opened[k]) <= 1
    /\ k \in DOMAIN codes => Len(opened[k]) = 0
    /\ \A r \in Request :
         Pending(r, k) => Len(opened[k]) = 0 /\ k \notin DOMAIN codes
    /\ \A r, s \in Request : Pending(r, k) /\ Pending(s, k) => r = s

(* The sessions of a code, stored or about to be, are of the client the    *)
(* student logged in for, whoever else presents the code.                  *)
RightClient ==
  \A k \in DOMAIN issued :
    /\ \A i \in DOMAIN opened[k] : opened[k][i] = issued[k].clientId
    /\ \A r \in Request : Pending(r, k) => req[r].clientId = issued[k].clientId

(* A code is accepted within its lifetime only, whether or not the timer   *)
(* has fired since it ended.                                               *)
AcceptedInTime ==
  [][\A r \in Request, k \in DOMAIN issued :
       ~Pending(r, k) /\ Pending(r, k)' => now <= issued[k].expiresAt]_vars

(* Codes nobody presents do not pile up in memory.                         *)
CodesForgotten ==
  \A k \in Code : (k \in DOMAIN codes) ~> (k \notin DOMAIN codes)
=============================================================================
