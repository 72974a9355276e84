-------------------------- MODULE StudentSessions --------------------------
(***************************************************************************)
(* The life of student sessions: AuthService.exchangeCodeForTokens,        *)
(* refreshTokens and logout over RefreshTokenService, and the operations   *)
(* of OAuthClientService that end sessions (suspend, activate, remove).    *)
(*                                                                         *)
(* The server is one Node process that serves requests concurrently: a     *)
(* handler runs alone up to its next await, and other handlers run while   *)
(* it waits.  req[r] is the handler of request r at the await it waits on, *)
(* with the values it has read; each action resumes one handler, and does  *)
(* one SQL statement at most.  A statement that sets `revoked' on several  *)
(* rows sees the table as it was when it began, and waits for the rows     *)
(* that a removal's transaction has changed and not committed; what that   *)
(* transaction wrote is invisible to the others until its COMMIT (READ     *)
(* COMMITTED).                                                             *)
(*                                                                         *)
(* Time is counted in ticks, TicksPerSecond of them to a second, because   *)
(* the database keeps milliseconds and a JWT's exp claim whole seconds.    *)
(* Each reading of the clock (Date.now(), and jsonwebtoken's own for iat)  *)
(* is a step too: time may pass between any two of them.                   *)
(***************************************************************************)
EXTENDS Integers, RefreshTokenStore

CONSTANTS
  Token,           \* refresh tokens; each is random (jti) and issued once
  Family,          \* family ids; each is a fresh UUID
  Client,          \* OAuth client applications
  Request,         \* requests that can be in progress at once
  TicksPerSecond,
  InactivitySecs,  \* JWT_REFRESH_EXPIRES_IN
  SessionMax,      \* JWT_REFRESH_SESSION_MAX_DURATION, in ticks
  MaxTime          \* bound: the clock stops here

ASSUME TimesAssumption ==
  /\ TicksPerSecond \in Nat \ {0}
  /\ InactivitySecs \in Nat
  /\ SessionMax \in Nat
  /\ MaxTime \in Nat

VARIABLES
  rows,     \* the refresh_tokens table
  client,   \* client[c]: "active", "suspended", or "gone" when there is no row
  req,      \* req[r]: the handler of request r
  now

vars == <<rows, client, req, now>>

(***************************************************************************)
(* jwtExp is not a column: it is the exp claim (in seconds) of the token   *)
(* the row stands for.                                                     *)
(***************************************************************************)
Row == [familyId: Family, clientId: Client, used: BOOLEAN, revoked: BOOLEAN,
        expiresAt: Int, sessionExpiresAt: Int, jwtExp: Int]

Handler ==
  [at: {"idle"}]
    \cup [at: {"exchange"}, clientId: Client]
    \cup [at: {"limit"}, clientId: Client, jwtExp: Int]
    \cup [at: {"saveFirst"}, clientId: Client, jwtExp: Int, sessionExpiresAt: Int]
    \cup [at: {"consume", "lookup"}, token: Token]
    \cup [at: {"check", "expiry"}, record: Row]
    \cup [at: {"seconds"}, record: Row, expiry: Int]
    \cup [at: {"signNext"}, record: Row, secs: Int]
    \cup [at: {"saveNext"}, record: Row, secs: Int, jwtExp: Int]
    \cup [at: {"revoke"}, familyId: Family]
    \cup [at: {"revokeRows"}, tokens: SUBSET Token]
    \cup [at: {"suspend", "suspendSave", "activateSave", "remove"},
          clientId: Client]
    \cup [at: {"suspendRows", "lock", "delete"}, clientId: Client, tokens: SUBSET Token]

(* The awaits and clock readings of a login past validateClient, and of a  *)
(* refresh that has taken its token.                                       *)
LoginLabels == {"exchange", "limit", "saveFirst"}
RotationLabels == {"check", "expiry", "seconds", "signNext", "saveNext"}

ClientState == {"active", "suspended", "gone"}

Idle == [at |-> "idle"]

TypeOK ==
  /\ DOMAIN rows \subseteq Token
  /\ rows \in [DOMAIN rows -> Row]
  /\ client \in [Client -> ClientState]
  /\ req \in [Request -> Handler]
  /\ now \in 0..MaxTime

Init ==
  /\ rows = [t \in {} |-> <<>>]
  /\ client = [c \in Client |-> "active"]
  /\ req = [r \in Request |-> Idle]
  /\ now = 0

Become(r, h) == req' = [req EXCEPT ![r] = h]

At(r, label) == req[r].at = label

Seconds(ticks) == ticks \div TicksPerSecond

Smaller(a, b) == IF a <= b THEN a ELSE b

(* A row no request has touched since it was inserted. *)
NewRow(f, c, expires, sessionExpires, exp) ==
  [familyId |-> f, clientId |-> c, used |-> FALSE, revoked |-> FALSE,
   expiresAt |-> expires, sessionExpiresAt |-> sessionExpires, jwtExp |-> exp]

FreshFamily(f) == \A t \in DOMAIN rows : rows[t].familyId # f

(* The rows of WHERE clientId AND revoked = false. *)
Unrevoked(c) == {t \in DOMAIN rows : rows[t].clientId = c /\ ~rows[t].revoked}

(* The rows that a removal's transaction has changed and not committed. *)
Locked(t) == \E r \in Request : At(r, "delete") /\ t \in req[r].tokens

-----------------------------------------------------------------------------
(***************************************************************************)
(* POST /sso/token.  validateClient's findOne has found the client active; *)
(* bcrypt.compare is awaited next.  Slip: isActive not looked at.          *)
(***************************************************************************)
ExchangeValidate_Inactive(r, c) ==
  /\ At(r, "idle")
  /\ client[c] # "gone"
  /\ Become(r, [at |-> "exchange", clientId |-> c])
  /\ UNCHANGED <<rows, client, now>>

ExchangeValidate(r, c) ==
  /\ At(r, "idle")
  /\ client[c] = "active"
  /\ Become(r, [at |-> "exchange", clientId |-> c])
  /\ UNCHANGED <<rows, client, now>>

(* The secret and the code are good: the pair of tokens is signed.  (If    *)
(* either is bad the handler rejects, which is Abort.)                     *)
ExchangeSign(r) ==
  /\ At(r, "exchange")
  /\ Become(r, [at |-> "limit", clientId |-> req[r].clientId,
                jwtExp |-> Seconds(now) + InactivitySecs])
  /\ UNCHANGED <<rows, client, now>>

(* The absolute limit of the session to be.  WithinHorizon bounds the      *)
(* sessions a run looks at.                                                *)
WithinHorizon == now + SessionMax < MaxTime

ExchangeLimit(r) ==
  /\ At(r, "limit")
  /\ WithinHorizon
  /\ Become(r, [at |-> "saveFirst", clientId |-> req[r].clientId,
                jwtExp |-> req[r].jwtExp, sessionExpiresAt |-> now + SessionMax])
  /\ UNCHANGED <<rows, client, now>>

(* save() without a familyId: a new family. *)
SaveFirst(r, t, f) ==
  /\ At(r, "saveFirst")
  /\ t \notin DOMAIN rows
  /\ FreshFamily(f)
  /\ rows' = Insert(rows, t,
               NewRow(f, req[r].clientId, now + InactivitySecs * TicksPerSecond,
                      req[r].sessionExpiresAt, req[r].jwtExp))
  /\ Become(r, Idle)
  /\ UNCHANGED <<client, now>>

-----------------------------------------------------------------------------
(***************************************************************************)
(* POST /sso/refresh.  The holder may present any token ever issued, and   *)
(* present it again; verifyAsync stops those whose exp has passed.         *)
(***************************************************************************)
RefreshVerify(r, t) ==
  /\ At(r, "idle")
  /\ t \in DOMAIN rows
  /\ Seconds(now) < rows[t].jwtExp
  /\ Become(r, [at |-> "consume", token |-> t])
  /\ UNCHANGED <<rows, client, now>>

(* consume(): UPDATE ... SET used = true WHERE not used and not revoked,   *)
(* RETURNING the row.  It waits for a removal that is revoking the row,    *)
(* and looks at it again then.                                             *)
ConsumeWin(r) ==
  LET t == req[r].token IN
  /\ At(r, "consume")
  /\ Consumable(rows[t]) /\ ~Locked(t)
  /\ rows' = MarkUsed(rows, t)
  /\ Become(r, [at |-> "check", record |-> rows'[t]])
  /\ UNCHANGED <<client, now>>

(* The UPDATE affected no row. *)
ConsumeLose(r) ==
  /\ At(r, "consume")
  /\ ~Consumable(rows[req[r].token])
  /\ Become(r, [at |-> "lookup", token |-> req[r].token])
  /\ UNCHANGED <<rows, client, now>>

(* findOne tells a token already used from a revoked one. *)
Lookup(r) ==
  LET existing == rows[req[r].token] IN
  /\ At(r, "lookup")
  /\ Become(r, IF existing.used
                 THEN [at |-> "revoke", familyId |-> existing.familyId]
                 ELSE Idle)
  /\ UNCHANGED <<rows, client, now>>

(* Both expiry checks of consume(), which look at the clock once. *)
CheckExpired(r) ==
  /\ At(r, "check")
  /\ \/ req[r].record.expiresAt < now
     \/ req[r].record.sessionExpiresAt < now
  /\ Become(r, [at |-> "revoke", familyId |-> req[r].record.familyId])
  /\ UNCHANGED <<rows, client, now>>

(* Slip: the inactivity check is enough, since expiresAt is a minimum.     *)
CheckPassed_InactivityOnly(r) ==
  /\ At(r, "check")
  /\ now <= req[r].record.expiresAt
  /\ Become(r, [at |-> "expiry", record |-> req[r].record])
  /\ UNCHANGED <<rows, client, now>>

CheckPassed(r) ==
  /\ At(r, "check")
  /\ now <= req[r].record.expiresAt
  /\ now <= req[r].record.sessionExpiresAt
  /\ Become(r, [at |-> "expiry", record |-> req[r].record])
  /\ UNCHANGED <<rows, client, now>>

(* effectiveExpiry = MIN(now + inactivity, sessionExpiresAt). *)
ReadExpiry(r) ==
  /\ At(r, "expiry")
  /\ Become(r, [at |-> "seconds", record |-> req[r].record,
                expiry |-> Smaller(now + InactivitySecs * TicksPerSecond,
                                   req[r].record.sessionExpiresAt)])
  /\ UNCHANGED <<rows, client, now>>

(* The whole seconds from here to there (negative if it has passed). *)
ReadSeconds(r) ==
  /\ At(r, "seconds")
  /\ Become(r, [at |-> "signNext", record |-> req[r].record,
                secs |-> Seconds(req[r].expiry - now)])
  /\ UNCHANGED <<rows, client, now>>

(* signAsync adds them to the second in which it signs. *)
SignNext(r) ==
  /\ At(r, "signNext")
  /\ Become(r, [at |-> "saveNext", record |-> req[r].record, secs |-> req[r].secs,
                jwtExp |-> Seconds(now) + req[r].secs])
  /\ UNCHANGED <<rows, client, now>>

(* save() with the family, the absolute limit and the client inherited;    *)
(* toDate counts the seconds from the instant of the save.  Slips: the     *)
(* limit counted anew, the client not passed on.                           *)
Successor_NewLimit(h) ==
  NewRow(h.record.familyId, h.record.clientId, now + h.secs * TicksPerSecond,
         now + SessionMax, h.jwtExp)

Successor_NoClient(h) ==
  NewRow(h.record.familyId, "null", now + h.secs * TicksPerSecond,
         h.record.sessionExpiresAt, h.jwtExp)

Successor(h) ==
  NewRow(h.record.familyId, h.record.clientId, now + h.secs * TicksPerSecond,
         h.record.sessionExpiresAt, h.jwtExp)

SaveNext(r, t) ==
  /\ At(r, "saveNext")
  /\ t \notin DOMAIN rows
  /\ rows' = Insert(rows, t, Successor(req[r]))
  /\ Become(r, Idle)
  /\ UNCHANGED <<client, now>>

(* UPDATE ... SET revoked = true WHERE familyId: on reuse, on expiry, and  *)
(* on logout.  The handler ends with it.                                   *)
RevokeSession(r) ==
  /\ At(r, "revoke")
  /\ Become(r, [at |-> "revokeRows", tokens |-> FamilyOf(rows, req[r].familyId)])
  /\ UNCHANGED <<rows, client, now>>

RevokeRows(r) ==
  /\ At(r, "revokeRows")
  /\ \A t \in req[r].tokens : ~Locked(t)
  /\ rows' = Revoke(rows, req[r].tokens)
  /\ Become(r, Idle)
  /\ UNCHANGED <<client, now>>

(* POST /sso/logout: revokeFamily's findOne.  The token is not verified. *)
LogoutFind(r, t) ==
  /\ At(r, "idle")
  /\ t \in DOMAIN rows
  /\ Become(r, [at |-> "revoke", familyId |-> rows[t].familyId])
  /\ UNCHANGED <<rows, client, now>>

-----------------------------------------------------------------------------
(***************************************************************************)
(* The admin's operations on a client.  Each begins with a findOne that    *)
(* needs the row.  Suspend and activate end with a TypeORM save of the     *)
(* entity found then: if its row has gone, save inserts one under an id of *)
(* its own (SERIAL), and the client stays gone.                            *)
(***************************************************************************)
ClientFind(r, c, label) ==
  /\ At(r, "idle")
  /\ client[c] # "gone"
  /\ Become(r, [at |-> label, clientId |-> c])
  /\ UNCHANGED <<rows, client, now>>

(* revokeAllForClient. *)
SuspendRevoke(r) ==
  LET c == req[r].clientId IN
  /\ At(r, "suspend")
  /\ Become(r, [at |-> "suspendRows", clientId |-> c, tokens |-> Unrevoked(c)])
  /\ UNCHANGED <<rows, client, now>>

SuspendRows(r) ==
  /\ At(r, "suspendRows")
  /\ \A t \in req[r].tokens : ~Locked(t)
  /\ rows' = Revoke(rows, req[r].tokens)
  /\ Become(r, [at |-> "suspendSave", clientId |-> req[r].clientId])
  /\ UNCHANGED <<client, now>>

SaveClient(c, state) ==
  client' = [client EXCEPT ![c] = IF @ = "gone" THEN "gone" ELSE state]

SuspendSave(r) ==
  /\ At(r, "suspendSave")
  /\ SaveClient(req[r].clientId, "suspended")
  /\ Become(r, Idle)
  /\ UNCHANGED <<rows, now>>

ActivateSave(r) ==
  /\ At(r, "activateSave")
  /\ SaveClient(req[r].clientId, "active")
  /\ Become(r, Idle)
  /\ UNCHANGED <<rows, now>>

(* One transaction: revokeAllForClient's UPDATE, which begins here...      *)
RemoveUpdate(r) ==
  LET c == req[r].clientId IN
  /\ At(r, "remove")
  /\ Become(r, [at |-> "lock", clientId |-> c, tokens |-> Unrevoked(c)])
  /\ UNCHANGED <<rows, client, now>>

(* ...and has the rows to itself here, but those another statement has     *)
(* revoked in the meantime.  Nobody sees what it sets.                     *)
RemoveLock(r) ==
  LET h == req[r] IN
  /\ At(r, "lock")
  /\ \A t \in h.tokens : ~Locked(t)
  /\ Become(r, [at |-> "delete", clientId |-> h.clientId,
                tokens |-> {t \in h.tokens : ~rows[t].revoked}])
  /\ UNCHANGED <<rows, client, now>>

(* manager.remove's DELETE, and COMMIT. *)
RemoveCommit(r) ==
  /\ At(r, "delete")
  /\ rows' = Revoke(rows, req[r].tokens)
  /\ client' = [client EXCEPT ![req[r].clientId] = "gone"]
  /\ Become(r, Idle)
  /\ UNCHANGED now

-----------------------------------------------------------------------------
(***************************************************************************)
(* An await rejects (the database is unreachable, the secret or the code   *)
(* is refused, signing fails) and the handler ends where it was.  A crash  *)
(* of the process is this for every request in progress: the module keeps  *)
(* nothing else in memory, and a transaction is rolled back.               *)
(***************************************************************************)
Abort(r) ==
  /\ ~At(r, "idle")
  /\ Become(r, Idle)
  /\ UNCHANGED <<rows, client, now>>

Tick ==
  /\ now < MaxTime
  /\ now' = now + 1
  /\ UNCHANGED <<rows, client, req>>

Start(r) ==
  \/ \E c \in Client :
       \/ ExchangeValidate(r, c)
       \/ \E label \in {"suspend", "activateSave", "remove"} :
            ClientFind(r, c, label)
  \/ \E t \in Token : RefreshVerify(r, t) \/ LogoutFind(r, t)

Resume(r) ==
  \/ ExchangeSign(r) \/ ExchangeLimit(r)
  \/ \E t \in Token, f \in Family : SaveFirst(r, t, f)
  \/ ConsumeWin(r) \/ ConsumeLose(r) \/ Lookup(r)
  \/ CheckExpired(r) \/ CheckPassed(r)
  \/ ReadExpiry(r) \/ ReadSeconds(r) \/ SignNext(r)
  \/ \E t \in Token : SaveNext(r, t)
  \/ RevokeSession(r) \/ RevokeRows(r)
  \/ SuspendRevoke(r) \/ SuspendRows(r) \/ SuspendSave(r) \/ ActivateSave(r)
  \/ RemoveUpdate(r) \/ RemoveLock(r) \/ RemoveCommit(r)

Next ==
  \/ \E r \in Request : Start(r) \/ Resume(r) \/ Abort(r)
  \/ Tick

Spec == Init /\ [][Next]_vars

(***************************************************************************)
(* Fairness: time passes, and every promise a handler awaits is settled in *)
(* the end (drivers and event loop), either way.  Nobody is bound to make  *)
(* a request.                                                              *)
(***************************************************************************)
FairSpec ==
  /\ Spec
  /\ WF_vars(Tick)
  /\ \A r \in Request : WF_vars(Resume(r) \/ Abort(r))

-----------------------------------------------------------------------------
(***************************************************************************)
(* Properties.                                                             *)
(***************************************************************************)

(* A token that consume() would still take. *)
Live(row) == ~row.used /\ ~row.revoked

LiveIn(f) == {t \in FamilyOf(rows, f) : Live(rows[t])}

(* Request r has taken the token of session f and not yet stored another. *)
Rotates(r, f) ==
  /\ req[r].at \in RotationLabels
  /\ req[r].record.familyId = f

Unused(t, f) == t \in FamilyOf(rows, f) /\ ~rows[t].used

(* Rotation keeps a session linear, whatever the interleaving: of the      *)
(* unused tokens of a family and the requests that hold one of its         *)
(* rotations there is at most one in all, so no two requests can both      *)
(* answer with a valid successor (consume's UPDATE is the only arbiter).   *)
LinearRotation ==
  \A f \in Family :
    /\ \A t, u \in DOMAIN rows : Unused(t, f) /\ Unused(u, f) => t = u
    /\ \A r, s \in Request : Rotates(r, f) /\ Rotates(s, f) => r = s
    /\ \A t \in DOMAIN rows, r \in Request : ~(Unused(t, f) /\ Rotates(r, f))

(* The absolute limit and the client of a session are those of its first   *)
(* token, in every row and in every rotation in progress: rotation never   *)
(* extends a session nor moves it to another application.                  *)
SameOrigin(a, b) ==
  /\ a.sessionExpiresAt = b.sessionExpiresAt
  /\ a.clientId = b.clientId

FamilyUniform ==
  \A t \in DOMAIN rows :
    /\ \A u \in FamilyOf(rows, rows[t].familyId) : SameOrigin(rows[t], rows[u])
    /\ \A r \in Request :
         Rotates(r, rows[t].familyId) => SameOrigin(rows[t], req[r].record)

(* A session is over when consume() would refuse each of its tokens, and   *)
(* so it will the one that a request has taken and not yet looked at.      *)
InTime(row) == now <= row.expiresAt /\ now <= row.sessionExpiresAt

Ended(f) ==
  /\ FamilyOf(rows, f) # {}
  /\ \A t \in FamilyOf(rows, f) : ~(Live(rows[t]) /\ InTime(rows[t]))
  /\ \A r \in Request : Rotates(r, f) => At(r, "check") /\ ~InTime(req[r].record)

(* A session that is over stays over: whichever of its tokens are sent     *)
(* again, in whatever order their handlers run, and although a row may     *)
(* outlive the session's limit (see RowWithinSession), it gets no token.   *)
EndedStaysEnded ==
  [][\A f \in Family :
       Ended(f) => Ended(f)' /\ FamilyOf(rows, f)' = FamilyOf(rows, f)]_vars

(* Nothing of client c is alive or about to be: no token to exchange, no   *)
(* rotation, and no login past validateClient.                             *)
Drained(c) ==
  /\ \A t \in DOMAIN rows : rows[t].clientId = c => ~Live(rows[t])
  /\ \A r \in Request :
       /\ req[r].at \in LoginLabels => req[r].clientId # c
       /\ req[r].at \in RotationLabels => req[r].record.clientId # c

(* Once the requests that overlapped a suspension (or removal) are over, a *)
(* client that is not active gets no session until it is activated.        *)
SuspensionHoldsOnceDrained ==
  [][\A c \in Client :
       client[c] # "active" /\ Drained(c) /\ client'[c] # "active"
         => Drained(c)']_vars

(* The table and the handlers, seen as the life of each session. *)
phaseOf == [f \in Family |->
  IF FamilyOf(rows, f) = {} THEN "none"
  ELSE IF LiveIn(f) # {} THEN "open"
  ELSE IF \E r \in Request : Rotates(r, f) THEN "rotating"
  ELSE "closed"]

chainOf == [f \in Family |-> FamilyOf(rows, f)]

Lifecycle == INSTANCE SessionLifecycle WITH phase <- phaseOf, chain <- chainOf

(* Every step is a step of the promised life of a session: one token at a  *)
(* time, one rotation at a time, and closed is final.  A revocation that   *)
(* overlaps a rotation does not close the session (see                     *)
(* RevokedSessionIsDead), and this is what still holds then.               *)
SessionsLiveOnce == Lifecycle!Spec

(* A token the refresh endpoint would still exchange. *)
Redeemable(t) ==
  /\ Live(rows[t])
  /\ Seconds(now) < rows[t].jwtExp
  /\ now <= rows[t].expiresAt
  /\ now <= rows[t].sessionExpiresAt

(* However often its tokens are rotated, every session comes to an end.    *)
SessionsEnd == <>[](\A t \in DOMAIN rows : ~Redeemable(t))

-----------------------------------------------------------------------------
(***************************************************************************)
(* What comments and documentation say and the code does not do.           *)
(***************************************************************************)

(* consume's comment and the README: a reuse that is detected revokes the  *)
(* whole family, and the student must log in again.  No family with a      *)
(* revoked token would then have a live one.                               *)
RevokedSessionIsDead ==
  \A t, u \in DOMAIN rows :
    rows[t].familyId = rows[u].familyId /\ rows[t].revoked => ~Live(rows[u])

(* suspend's comment: suspending a client revokes all its active sessions. *)
SuspendedHasNoSession ==
  \A t \in DOMAIN rows :
    client[rows[t].clientId] = "suspended" => ~Live(rows[t])

(* refreshTokens's comments: the new expiry is the minimum of inactivity   *)
(* and the session's limit, so that no rotation reaches past the limit...  *)
RowWithinSession ==
  InactivitySecs * TicksPerSecond <= SessionMax =>
    \A t \in DOMAIN rows : rows[t].expiresAt <= rows[t].sessionExpiresAt

(* ...and the JWT's expiry is computed from that.  Its seconds are counted *)
(* from one instant and added to another.                                  *)
TokenWithinSession ==
  InactivitySecs * TicksPerSecond <= SessionMax =>
    \A t \in DOMAIN rows :
      rows[t].jwtExp * TicksPerSecond <= rows[t].sessionExpiresAt

(* The refresh endpoint's description: the refresh token does not change,  *)
(* so a refresh that succeeds leaves the token as good as it was.          *)
RefreshKeepsToken ==
  [][\A r \in Request :
       At(r, "consume") /\ At(r, "check")' =>
         Live(rows'[req[r].token])]_vars
=============================================================================
