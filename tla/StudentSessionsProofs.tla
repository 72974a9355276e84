----------------------- MODULE StudentSessionsProofs -----------------------
(***************************************************************************)
(* What StudentSessions guarantees for any number of tokens, sessions,     *)
(* clients and concurrent requests, and any durations.                     *)
(***************************************************************************)
EXTENDS StudentSessions, TLAPS

USE DEF LoginLabels, RotationLabels

LEMMA SecondsInt ==
  ASSUME NEW n \in Int
  PROVE  Seconds(n) \in Int
BY TimesAssumption, SMT DEF Seconds

(* What a table looks like after each statement. *)
LEMMA InsertType ==
  ASSUME NEW table, DOMAIN table \subseteq Token,
         table \in [DOMAIN table -> Row],
         NEW t \in Token, NEW row \in Row
  PROVE  /\ DOMAIN Insert(table, t, row) = DOMAIN table \cup {t}
         /\ Insert(table, t, row) \in [DOMAIN Insert(table, t, row) -> Row]
BY DEF Insert

LEMMA MarkUsedType ==
  ASSUME NEW table, table \in [DOMAIN table -> Row], NEW t \in DOMAIN table
  PROVE  /\ DOMAIN MarkUsed(table, t) = DOMAIN table
         /\ MarkUsed(table, t) \in [DOMAIN MarkUsed(table, t) -> Row]
BY DEF MarkUsed, Row

LEMMA RevokeType ==
  ASSUME NEW table, table \in [DOMAIN table -> Row], NEW S
  PROVE  /\ DOMAIN Revoke(table, S) = DOMAIN table
         /\ Revoke(table, S) \in [DOMAIN Revoke(table, S) -> Row]
BY DEF Revoke, Row

LEMMA NewRowType ==
  ASSUME NEW f \in Family, NEW c \in Client,
         NEW e \in Int, NEW s \in Int, NEW x \in Int
  PROVE  NewRow(f, c, e, s, x) \in Row
BY DEF NewRow, Row

(* A statement that revokes has begun, with the tokens it has found. *)
RevokingLabels == {"revokeRows", "suspendRows", "lock", "delete"}

(* What a handler holds at each await, as TypeOK has it. *)
LEMMA HandlerType ==
  ASSUME req \in [Request -> Handler], NEW r \in Request
  PROVE  /\ req[r].at \in LoginLabels \cup {"suspend", "suspendRows", "suspendSave",
                           "activateSave", "remove", "lock", "delete"}
              => req[r].clientId \in Client
         /\ At(r, "limit") \/ At(r, "saveFirst") => req[r].jwtExp \in Int
         /\ At(r, "saveFirst") => req[r].sessionExpiresAt \in Int
         /\ At(r, "consume") \/ At(r, "lookup") => req[r].token \in Token
         /\ req[r].at \in RotationLabels => req[r].record \in Row
         /\ At(r, "seconds") => req[r].expiry \in Int
         /\ At(r, "signNext") => req[r].secs \in Int
         /\ At(r, "saveNext") => req[r].secs \in Int /\ req[r].jwtExp \in Int
         /\ At(r, "revoke") => req[r].familyId \in Family
         /\ req[r].at \in RevokingLabels => req[r].tokens \in SUBSET Token
BY DEF Handler, At, RevokingLabels

(***************************************************************************)
(* The tokens and sessions that handlers hold are in the table, because    *)
(* nothing deletes a row.  TypeOK is inductive only with it.               *)
(***************************************************************************)
Stored ==
  \A r \in Request :
    /\ At(r, "consume") \/ At(r, "lookup") => req[r].token \in DOMAIN rows
    /\ req[r].at \in RotationLabels => ~FreshFamily(req[r].record.familyId)
    /\ req[r].at \in RevokingLabels => req[r].tokens \subseteq DOMAIN rows

LEMMA InitTyped == Init => TypeOK /\ Stored
BY TimesAssumption
   DEF Init, TypeOK, Stored, Idle, Handler, ClientState, At, RevokingLabels

(* A handler that moves on leaves the others where they are. *)
LEMMA BecomeType ==
  ASSUME req \in [Request -> Handler], NEW r \in Request,
         NEW h \in Handler, Become(r, h)
  PROVE  /\ req' \in [Request -> Handler]
         /\ req'[r] = h
         /\ \A s \in Request : s # r => req'[s] = req[s]
BY DEF Become

LEMMA IdleHandler == Idle \in Handler
BY DEF Idle, Handler

(* The shape of every step of a handler: it goes on to await h, and the    *)
(* table loses no row and moves none to another family.                    *)
LEMMA TypedStep ==
  ASSUME TypeOK, Stored, NEW r \in Request, NEW h \in Handler, Become(r, h),
         DOMAIN rows \subseteq DOMAIN rows', DOMAIN rows' \subseteq Token,
         rows' \in [DOMAIN rows' -> Row],
         \A t \in DOMAIN rows : rows'[t].familyId = rows[t].familyId,
         client' \in [Client -> ClientState], now' \in 0..MaxTime,
         h.at \in {"consume", "lookup"} => h.token \in DOMAIN rows,
         h.at \in RotationLabels => ~FreshFamily(h.record.familyId),
         h.at \in RevokingLabels => h.tokens \subseteq DOMAIN rows
  PROVE  TypeOK' /\ Stored'
<1>1. /\ req' \in [Request -> Handler]
      /\ req'[r] = h
      /\ \A s \in Request : s # r => req'[s] = req[s]
  BY BecomeType DEF TypeOK
<1>2. TypeOK'
  BY <1>1 DEF TypeOK
<1>3. ASSUME NEW f, ~FreshFamily(f)
      PROVE  ~FreshFamily(f)'
  BY <1>3 DEF FreshFamily
<1>4. ASSUME NEW s \in Request
      PROVE  /\ At(s, "consume")' \/ At(s, "lookup")' =>
                  req'[s].token \in DOMAIN rows'
             /\ req'[s].at \in RotationLabels =>
                  ~FreshFamily(req[s].record.familyId)'
             /\ req'[s].at \in RevokingLabels => req'[s].tokens \subseteq DOMAIN rows'
  <2>1. CASE s = r
    <3>1. req'[s] = h
      BY <2>1, <1>1
    <3>2. At(s, "consume")' \/ At(s, "lookup")' => h.token \in DOMAIN rows'
      BY <3>1 DEF At
    <3>3. req'[s].at \in RotationLabels => ~FreshFamily(h.record.familyId)
      BY <3>1
    <3>4. req'[s].at \in RevokingLabels => h.tokens \subseteq DOMAIN rows'
      BY <3>1
    <3> QED
      BY <3>1, <3>2, <3>3, <3>4, <1>3 DEF FreshFamily
  <2>2. CASE s # r
    BY <2>2, <1>1, <1>3 DEF Stored, At, FreshFamily
  <2> QED
    BY <2>1, <2>2
<1> QED
  BY <1>2, <1>4 DEF Stored

(* The steps that leave the table and the clients alone: only the handler  *)
(* they go on to has to be looked at.                                      *)
LEMMA QuietStep ==
  ASSUME TypeOK, Stored, NEW r \in Request, NEW h \in Handler, Become(r, h),
         UNCHANGED <<rows, client, now>>,
         h.at \in {"consume", "lookup"} => h.token \in DOMAIN rows,
         h.at \in RotationLabels => ~FreshFamily(h.record.familyId),
         h.at \in RevokingLabels => h.tokens \subseteq DOMAIN rows
  PROVE  TypeOK' /\ Stored'
BY TypedStep DEF TypeOK

LEMMA StartTyped ==
  ASSUME TypeOK, Stored, NEW r \in Request, Start(r)
  PROVE  TypeOK' /\ Stored'
<1>1. ASSUME NEW c \in Client, ExchangeValidate(r, c)
      PROVE  TypeOK' /\ Stored'
  <2> DEFINE h == [at |-> "exchange", clientId |-> c]
  <2>1. h \in Handler
    BY DEF Handler
  <2> QED
    BY <1>1, <2>1, QuietStep DEF ExchangeValidate, RevokingLabels
<1>2. ASSUME NEW c \in Client,
             NEW label \in {"suspend", "activateSave", "remove"},
             ClientFind(r, c, label)
      PROVE  TypeOK' /\ Stored'
  <2> DEFINE h == [at |-> label, clientId |-> c]
  <2>1. h \in Handler
    BY DEF Handler
  <2> QED
    BY <1>2, <2>1, QuietStep DEF ClientFind, RevokingLabels
<1>3. ASSUME NEW t \in Token, RefreshVerify(r, t)
      PROVE  TypeOK' /\ Stored'
  <2> DEFINE h == [at |-> "consume", token |-> t]
  <2>1. h \in Handler
    BY DEF Handler
  <2> QED
    BY <1>3, <2>1, QuietStep DEF RefreshVerify, RevokingLabels
<1>4. ASSUME NEW t \in Token, LogoutFind(r, t)
      PROVE  TypeOK' /\ Stored'
  <2> DEFINE h == [at |-> "revoke", familyId |-> rows[t].familyId]
  <2>1. h \in Handler
    BY <1>4 DEF LogoutFind, TypeOK, Handler, Row
  <2> QED
    BY <1>4, <2>1, QuietStep DEF LogoutFind, RevokingLabels
<1> QED
  BY <1>1, <1>2, <1>3, <1>4 DEF Start

(* SaveFirst and SaveNext insert a row of a known family, client and age.  *)
LEMMA InsertStep ==
  ASSUME TypeOK, Stored, NEW r \in Request, NEW t \in Token, NEW row \in Row,
         t \notin DOMAIN rows, rows' = Insert(rows, t, row),
         Become(r, Idle), UNCHANGED <<client, now>>
  PROVE  TypeOK' /\ Stored'
<1>1. /\ DOMAIN rows' = DOMAIN rows \cup {t}
      /\ rows' \in [DOMAIN rows' -> Row]
  BY InsertType DEF TypeOK
<1>2. \A u \in DOMAIN rows : rows'[u].familyId = rows[u].familyId
  BY DEF Insert
<1>3. Idle.at = "idle"
  BY DEF Idle
<1> QED
  BY <1>1, <1>2, <1>3, IdleHandler, TypedStep DEF TypeOK, RevokingLabels

(* The statements that revoke rows keep the rest of each of them.          *)
LEMMA RevokeStep ==
  ASSUME TypeOK, Stored, NEW r \in Request, NEW S, NEW h \in Handler,
         rows' = Revoke(rows, S), Become(r, h),
         client' \in [Client -> ClientState], now' = now,
         h.at \in {"idle", "suspendSave"}
  PROVE  TypeOK' /\ Stored'
<1>1. /\ DOMAIN rows' = DOMAIN rows
      /\ rows' \in [DOMAIN rows' -> Row]
  BY RevokeType DEF TypeOK
<1>2. \A u \in DOMAIN rows : rows'[u].familyId = rows[u].familyId
  BY DEF Revoke, TypeOK, Row
<1> QED
  BY <1>1, <1>2, TypedStep DEF TypeOK, RevokingLabels

LEMMA ResumeTyped ==
  ASSUME TypeOK, Stored, NEW r \in Request, Resume(r)
  PROVE  TypeOK' /\ Stored'
<1> USE HandlerType
<1>1. req \in [Request -> Handler] /\ now \in Int
  BY TimesAssumption DEF TypeOK
<1>2. CASE ExchangeSign(r)
  <2> DEFINE h == [at |-> "limit", clientId |-> req[r].clientId,
                   jwtExp |-> Seconds(now) + InactivitySecs]
  <2>1. h \in Handler
    BY <1>1, <1>2, SecondsInt, TimesAssumption DEF ExchangeSign, At, Handler
  <2> QED
    BY <1>2, <2>1, QuietStep DEF ExchangeSign, RevokingLabels
<1>3. CASE ExchangeLimit(r)
  <2> DEFINE h == [at |-> "saveFirst", clientId |-> req[r].clientId,
                   jwtExp |-> req[r].jwtExp, sessionExpiresAt |-> now + SessionMax]
  <2>1. h \in Handler
    BY <1>1, <1>3, TimesAssumption DEF ExchangeLimit, At, Handler
  <2> QED
    BY <1>3, <2>1, QuietStep DEF ExchangeLimit, RevokingLabels
<1>13. ASSUME NEW t \in Token, NEW f \in Family, SaveFirst(r, t, f)
      PROVE  TypeOK' /\ Stored'
  <2> DEFINE row == NewRow(f, req[r].clientId,
                           now + InactivitySecs * TicksPerSecond,
                           req[r].sessionExpiresAt, req[r].jwtExp)
  <2>1. row \in Row
    <3>1. now + InactivitySecs * TicksPerSecond \in Int
      BY <1>1, TimesAssumption
    <3> QED
      BY <3>1, <1>1, <1>13, NewRowType DEF SaveFirst, At
  <2> QED
    BY <1>13, <2>1, InsertStep DEF SaveFirst
<1>4. CASE ConsumeWin(r)
  <2> DEFINE t == req[r].token
             h == [at |-> "check", record |-> rows'[t]]
  <2>1. t \in DOMAIN rows
    BY <1>4 DEF ConsumeWin, Stored
  <2>2. /\ DOMAIN rows' = DOMAIN rows
        /\ rows' \in [DOMAIN rows' -> Row]
    BY <1>4, <2>1, MarkUsedType DEF ConsumeWin, TypeOK
  <2>3. \A u \in DOMAIN rows : rows'[u].familyId = rows[u].familyId
    BY <1>4, <2>1 DEF ConsumeWin, MarkUsed, TypeOK, Row
  <2>4. h \in Handler
    BY <2>1, <2>2 DEF Handler
  <2>5. ~FreshFamily(h.record.familyId)
    BY <2>1, <2>3 DEF FreshFamily
  <2>6. Become(r, h) /\ UNCHANGED <<client, now>>
    BY <1>4 DEF ConsumeWin
  <2> HIDE DEF h
  <2> QED
    BY <2>1, <2>2, <2>3, <2>4, <2>5, <2>6, TypedStep DEF h, TypeOK, RevokingLabels
<1>5. CASE ConsumeLose(r)
  <2> DEFINE h == [at |-> "lookup", token |-> req[r].token]
  <2>1. h \in Handler
    BY <1>1, <1>5 DEF ConsumeLose, At, Handler
  <2> QED
    BY <1>5, <2>1, QuietStep DEF ConsumeLose, Stored, RevokingLabels
<1>6. CASE Lookup(r)
  <2> DEFINE existing == rows[req[r].token]
             h == IF existing.used
                    THEN [at |-> "revoke", familyId |-> existing.familyId]
                    ELSE Idle
  <2>1. existing \in Row
    BY <1>6 DEF Lookup, Stored, TypeOK
  <2>2. h \in Handler /\ h.at \in {"revoke", "idle"}
    BY <2>1, IdleHandler DEF Handler, Row, Idle
  <2> QED
    BY <1>6, <2>2, QuietStep DEF Lookup, RevokingLabels
<1>7. CASE CheckExpired(r)
  <2> DEFINE h == [at |-> "revoke", familyId |-> req[r].record.familyId]
  <2>1. h \in Handler
    BY <1>1, <1>7 DEF CheckExpired, At, Handler, Row
  <2> QED
    BY <1>7, <2>1, QuietStep DEF CheckExpired, RevokingLabels
<1>8. CASE CheckPassed(r) \/ ReadExpiry(r) \/ ReadSeconds(r) \/ SignNext(r)
  <2>1. req[r].record \in Row /\ ~FreshFamily(req[r].record.familyId)
    BY <1>1, <1>8 DEF CheckPassed, ReadExpiry, ReadSeconds, SignNext, At, Stored
  <2>2. ASSUME NEW h \in Handler, Become(r, h), h.at \in RotationLabels,
               h.record = req[r].record, UNCHANGED <<rows, client, now>>
        PROVE  TypeOK' /\ Stored'
    BY <2>1, <2>2, QuietStep DEF RevokingLabels
  <2>3. CASE CheckPassed(r)
    <3> DEFINE h == [at |-> "expiry", record |-> req[r].record]
    <3>1. h \in Handler
      BY <2>1 DEF Handler
    <3> QED
      BY <2>2, <2>3, <3>1 DEF CheckPassed
  <2>4. CASE ReadExpiry(r)
    <3> DEFINE e == Smaller(now + InactivitySecs * TicksPerSecond,
                            req[r].record.sessionExpiresAt)
               h == [at |-> "seconds", record |-> req[r].record, expiry |-> e]
    <3>1. e \in Int
      BY <1>1, <2>1, TimesAssumption DEF Smaller, Row
    <3>2. h \in Handler
      BY <2>1, <3>1 DEF Handler
    <3> QED
      BY <2>2, <2>4, <3>2 DEF ReadExpiry
  <2>5. CASE ReadSeconds(r)
    <3> DEFINE n == Seconds(req[r].expiry - now)
               h == [at |-> "signNext", record |-> req[r].record, secs |-> n]
    <3>1. n \in Int
      BY <1>1, <2>5, SecondsInt DEF ReadSeconds, At
    <3>2. h \in Handler
      BY <2>1, <3>1 DEF Handler
    <3> QED
      BY <2>2, <2>5, <3>2 DEF ReadSeconds
  <2>6. CASE SignNext(r)
    <3> DEFINE x == Seconds(now) + req[r].secs
               h == [at |-> "saveNext", record |-> req[r].record,
                     secs |-> req[r].secs, jwtExp |-> x]
    <3>1. req[r].secs \in Int /\ x \in Int
      BY <1>1, <2>6, SecondsInt DEF SignNext, At
    <3>2. h \in Handler
      BY <2>1, <3>1 DEF Handler
    <3> QED
      BY <2>2, <2>6, <3>2 DEF SignNext
  <2> QED
    BY <1>8, <2>3, <2>4, <2>5, <2>6
<1>9. ASSUME NEW t \in Token, SaveNext(r, t)
      PROVE  TypeOK' /\ Stored'
  <2> DEFINE record == req[r].record
             row == Successor(req[r])
  <2>1. record \in Row /\ req[r].secs \in Int /\ req[r].jwtExp \in Int
    BY <1>1, <1>9 DEF SaveNext, At
  <2>2. row \in Row
    <3>1. now + req[r].secs * TicksPerSecond \in Int
      BY <1>1, <2>1, TimesAssumption
    <3> QED
      BY <2>1, <3>1, NewRowType DEF Row, Successor
  <2> QED
    BY <1>9, <2>2, InsertStep DEF SaveNext
<1>10. CASE RevokeRows(r) \/ SuspendRows(r) \/ RemoveCommit(r)
  <2>1. Idle.at = "idle"
    BY DEF Idle
  <2>2. CASE RevokeRows(r)
    BY <2>1, <2>2, IdleHandler, RevokeStep DEF RevokeRows, TypeOK
  <2>3. CASE SuspendRows(r)
    <3> DEFINE h == [at |-> "suspendSave", clientId |-> req[r].clientId]
    <3>1. h \in Handler
      BY <1>1, <2>3 DEF SuspendRows, At, Handler
    <3> QED
      BY <2>3, <3>1, RevokeStep DEF SuspendRows, TypeOK
  <2>4. CASE RemoveCommit(r)
    <3>1. client' \in [Client -> ClientState]
      BY <2>4 DEF RemoveCommit, TypeOK, ClientState
    <3> QED
      BY <2>1, <2>4, <3>1, IdleHandler, RevokeStep DEF RemoveCommit
  <2> QED
    BY <1>10, <2>2, <2>3, <2>4
<1>12. CASE RevokeSession(r) \/ SuspendRevoke(r) \/ RemoveUpdate(r) \/ RemoveLock(r)
  <2>1. PICK h \in Handler :
          /\ Become(r, h) /\ h.at \in RevokingLabels /\ h.tokens \subseteq DOMAIN rows
    <3>1. CASE RevokeSession(r)
      <4> DEFINE h == [at |-> "revokeRows", tokens |-> FamilyOf(rows, req[r].familyId)]
      <4>1. h \in Handler /\ h.tokens \subseteq DOMAIN rows
        BY DEF FamilyOf, TypeOK, Handler
      <4> QED
        BY <3>1, <4>1 DEF RevokeSession, RevokingLabels
    <3>2. CASE SuspendRevoke(r) \/ RemoveUpdate(r)
      <4> DEFINE g(l) == [at |-> l, clientId |-> req[r].clientId,
                          tokens |-> Unrevoked(req[r].clientId)]
      <4>1. ASSUME NEW l \in {"suspendRows", "lock"}
            PROVE  g(l) \in Handler /\ g(l).tokens \subseteq DOMAIN rows
        BY <1>1, <3>2 DEF SuspendRevoke, RemoveUpdate, At, Unrevoked, TypeOK, Handler
      <4> QED
        BY <3>2, <4>1 DEF SuspendRevoke, RemoveUpdate, RevokingLabels
    <3>3. CASE RemoveLock(r)
      <4> DEFINE h == [at |-> "delete", clientId |-> req[r].clientId,
                       tokens |-> {t \in req[r].tokens : ~rows[t].revoked}]
      <4>1. h \in Handler /\ h.tokens \subseteq DOMAIN rows
        BY <1>1, <3>3 DEF RemoveLock, At, Stored, TypeOK, Handler, RevokingLabels
      <4> QED
        BY <3>3, <4>1 DEF RemoveLock, RevokingLabels
    <3> QED
      BY <1>12, <3>1, <3>2, <3>3
  <2>2. UNCHANGED <<rows, client, now>>
    BY <1>12 DEF RevokeSession, SuspendRevoke, RemoveUpdate, RemoveLock
  <2>3. h.at \notin RotationLabels \cup {"consume", "lookup"}
    BY <2>1 DEF RevokingLabels
  <2> QED
    BY <2>1, <2>2, <2>3, QuietStep
<1>11. CASE SuspendSave(r) \/ ActivateSave(r)
  <2>1. client' \in [Client -> ClientState]
    BY <1>11 DEF SuspendSave, ActivateSave, SaveClient, TypeOK, ClientState
  <2>2. Idle.at = "idle"
    BY DEF Idle
  <2> QED
    BY <1>11, <2>1, <2>2, IdleHandler, TypedStep
       DEF SuspendSave, ActivateSave, TypeOK, RevokingLabels
<1> QED
  BY <1>2, <1>3, <1>13, <1>4, <1>5, <1>6, <1>7, <1>8, <1>9, <1>10, <1>11, <1>12
     DEF Resume

LEMMA NextTyped == TypeOK /\ Stored /\ [Next]_vars => TypeOK' /\ Stored'
<1> SUFFICES ASSUME TypeOK, Stored, [Next]_vars
             PROVE  TypeOK' /\ Stored'
  OBVIOUS
<1>1. ASSUME NEW r \in Request, Abort(r)
      PROVE  TypeOK' /\ Stored'
  <2>1. Idle.at = "idle"
    BY DEF Idle
  <2> QED
    BY <1>1, <2>1, IdleHandler, QuietStep DEF Abort, RevokingLabels
<1>2. CASE Tick
  BY <1>2, TimesAssumption DEF Tick, TypeOK, Stored, At, FreshFamily
<1>3. CASE UNCHANGED vars
  BY <1>3 DEF vars, TypeOK, Stored, At, FreshFamily
<1> QED
  BY <1>1, <1>2, <1>3, StartTyped, ResumeTyped DEF Next

(* Every value the handlers hold and store has its type: in particular the *)
(* client of a student's token is never lost, and the token and session a  *)
(* handler holds are in the table.                                         *)
THEOREM TypeCorrect == Spec => [](TypeOK /\ Stored)
<1>1. Init => TypeOK /\ Stored
  BY InitTyped
<1>2. TypeOK /\ Stored /\ [Next]_vars => TypeOK' /\ Stored'
  BY NextTyped
<1> QED
  BY <1>1, <1>2, PTL DEF Spec

-----------------------------------------------------------------------------
(***************************************************************************)
(* The shapes of a handler's steps: it reads the clock, with the record it *)
(* has taken in hand; or it looks, or waits, and leaves the table alone;   *)
(* or it sets `revoked' on the rows its statement has found.               *)
(***************************************************************************)
Reads(r) == CheckPassed(r) \/ ReadExpiry(r) \/ ReadSeconds(r) \/ SignNext(r)

Looks(r) ==
  \/ ExchangeSign(r) \/ ExchangeLimit(r) \/ ConsumeLose(r) \/ Lookup(r)
  \/ CheckExpired(r) \/ RevokeSession(r) \/ SuspendRevoke(r) \/ RemoveUpdate(r)
  \/ RemoveLock(r) \/ SuspendSave(r) \/ ActivateSave(r) \/ Abort(r)

Sets(r) == RevokeRows(r) \/ SuspendRows(r) \/ RemoveCommit(r)

LEMMA ReadsIs ==
  ASSUME NEW r \in Request, Reads(r)
  PROVE  /\ req[r].at \in RotationLabels /\ UNCHANGED <<rows, client, now>>
         /\ \E h : /\ Become(r, h) /\ h.at \in RotationLabels \ {"check"}
                  /\ h.record = req[r].record
BY DEF Reads, CheckPassed, ReadExpiry, ReadSeconds, SignNext, At

LEMMA LooksIs ==
  ASSUME NEW r \in Request, Looks(r)
  PROVE  /\ rows' = rows /\ now' = now
         /\ \E h : Become(r, h) /\ h.at \notin RotationLabels
<1>1. Idle.at \notin RotationLabels
  BY DEF Idle
<1>2. CASE Lookup(r)
  <2>1. PICK f : f = rows[req[r].token].familyId
    OBVIOUS
  <2>2. PICK h : h = [at |-> "revoke", familyId |-> f]
    OBVIOUS
  <2>3. Become(r, h) \/ Become(r, Idle)
    BY <1>2, <2>1, <2>2 DEF Lookup
  <2>4. h.at \notin RotationLabels
    BY <2>2
  <2> QED
    BY <1>1, <1>2, <2>3, <2>4 DEF Lookup
<1>3. CASE SuspendSave(r) \/ ActivateSave(r) \/ Abort(r)
  BY <1>1, <1>3 DEF SuspendSave, ActivateSave, Abort
<1>4. CASE ExchangeSign(r) \/ ExchangeLimit(r) \/ ConsumeLose(r) \/ CheckExpired(r)
  BY <1>4 DEF ExchangeSign, ExchangeLimit, ConsumeLose, CheckExpired
<1>5. CASE RevokeSession(r) \/ SuspendRevoke(r) \/ RemoveUpdate(r) \/ RemoveLock(r)
  BY <1>5 DEF RevokeSession, SuspendRevoke, RemoveUpdate, RemoveLock
<1> QED
  BY <1>2, <1>3, <1>4, <1>5 DEF Looks

LEMMA SetsIs ==
  ASSUME NEW r \in Request, Sets(r)
  PROVE  /\ rows' = Revoke(rows, req[r].tokens) /\ now' = now
         /\ req[r].at \in {"revokeRows", "suspendRows", "delete"}
         /\ \E h : Become(r, h) /\ h.at \notin RotationLabels \cup LoginLabels
<1>1. Idle.at \notin RotationLabels \cup LoginLabels
  BY DEF Idle
<1>2. CASE SuspendRows(r)
  BY <1>2 DEF SuspendRows, At
<1> QED
  BY <1>1, <1>2 DEF Sets, RevokeRows, RemoveCommit, At

LEMMA StartIs ==
  ASSUME NEW r \in Request, Start(r)
  PROVE  /\ rows' = rows /\ now' = now
         /\ \E h : Become(r, h) /\ h.at \notin RotationLabels \cup RevokingLabels
<1>1. ASSUME NEW c \in Client,
             \/ ExchangeValidate(r, c)
             \/ \E label \in {"suspend", "activateSave", "remove"} :
                  ClientFind(r, c, label)
      PROVE  \E h : Become(r, h) /\ h.at \notin RotationLabels \cup RevokingLabels
  BY <1>1 DEF ExchangeValidate, ClientFind, RevokingLabels
<1>2. ASSUME NEW t \in Token, RefreshVerify(r, t) \/ LogoutFind(r, t)
      PROVE  \E h : Become(r, h) /\ h.at \notin RotationLabels \cup RevokingLabels
  BY <1>2 DEF RefreshVerify, LogoutFind, RevokingLabels
<1>3. rows' = rows /\ now' = now
  BY DEF Start, ExchangeValidate, ClientFind, RefreshVerify, LogoutFind
<1> QED
  BY <1>1, <1>2, <1>3 DEF Start

(* Every step is one of these, or one of the three that move a session on. *)
LEMMA StepIs ==
  ASSUME NEW r \in Request, Resume(r) \/ Abort(r)
  PROVE  \/ Reads(r) \/ Looks(r) \/ Sets(r) \/ ConsumeWin(r)
         \/ \E t \in Token, f \in Family : SaveFirst(r, t, f)
         \/ \E t \in Token : SaveNext(r, t)
BY DEF Resume, Reads, Looks, Sets

-----------------------------------------------------------------------------
(***************************************************************************)
(* Linear rotation.  The steps fall in two kinds: those that create no     *)
(* bearer of a session (no unused token, no rotation), and the three that  *)
(* do: ConsumeWin turns the token into a rotation, SaveNext the rotation   *)
(* into a token, and SaveFirst starts a session nothing bears yet.         *)
(***************************************************************************)

(* A step that keeps each row's family and use, and starts no rotation.    *)
NoNewBearer ==
  /\ DOMAIN rows' = DOMAIN rows
  /\ \A t \in DOMAIN rows : /\ rows'[t].familyId = rows[t].familyId
                            /\ rows'[t].used = rows[t].used
  /\ \A r \in Request, f \in Family : Rotates(r, f)' => Rotates(r, f)

LEMMA NoNewBearerLinear == LinearRotation /\ NoNewBearer => LinearRotation'
<1> SUFFICES ASSUME LinearRotation, NoNewBearer, NEW f \in Family
             PROVE  /\ \A t, u \in DOMAIN rows' :
                         Unused(t, f)' /\ Unused(u, f)' => t = u
                    /\ \A r, s \in Request :
                         Rotates(r, f)' /\ Rotates(s, f)' => r = s
                    /\ \A t \in DOMAIN rows', r \in Request :
                         ~(Unused(t, f)' /\ Rotates(r, f)')
  BY DEF LinearRotation
<1>1. \A t \in DOMAIN rows' : Unused(t, f)' => t \in DOMAIN rows /\ Unused(t, f)
  BY DEF NoNewBearer, Unused, FamilyOf
<1>2. \A r \in Request : Rotates(r, f)' => Rotates(r, f)
  BY DEF NoNewBearer
<1> HIDE DEF NoNewBearer
<1> QED
  BY <1>1, <1>2 DEF LinearRotation

(* A handler that goes on to an await outside a rotation starts none, and  *)
(* leaves the rotations of the others as they are.                         *)
LEMMA LeaveRotation ==
  ASSUME TypeOK, NEW r \in Request, NEW h, Become(r, h),
         h.at \notin RotationLabels, NEW s \in Request, NEW f
  PROVE  Rotates(s, f)' => s # r /\ Rotates(s, f)
BY DEF TypeOK, Become, Rotates, At

LEMMA OthersRotate ==
  ASSUME TypeOK, NEW r \in Request, NEW h, Become(r, h),
         NEW s \in Request, s # r, NEW f
  PROVE  Rotates(s, f)' <=> Rotates(s, f)
BY DEF TypeOK, Become, Rotates, At

LEMMA IdleLeaves == Idle.at \notin RotationLabels
BY DEF Idle

LEMMA RevokeKeeps ==
  ASSUME TypeOK, NEW S, rows' = Revoke(rows, S), NEW r \in Request, NEW h,
         Become(r, h), h.at \notin RotationLabels
  PROVE  NoNewBearer
<1>1. /\ DOMAIN rows' = DOMAIN rows
      /\ \A t \in DOMAIN rows : /\ rows'[t].familyId = rows[t].familyId
                                /\ rows'[t].used = rows[t].used
  BY DEF TypeOK, Revoke, Row
<1> QED
  BY <1>1, LeaveRotation DEF NoNewBearer

LEMMA SameRowsKeep ==
  ASSUME TypeOK, rows' = rows, NEW r \in Request, NEW h,
         Become(r, h), h.at \notin RotationLabels
  PROVE  NoNewBearer
BY LeaveRotation DEF NoNewBearer

LEMMA StartLinear ==
  ASSUME TypeOK, NEW r \in Request, Start(r)
  PROVE  NoNewBearer
<1>1. rows' = rows /\ \E h : Become(r, h) /\ h.at \notin RotationLabels
  BY StartIs
<1> QED
  BY <1>1, SameRowsKeep

(* The steps of a handler that create no bearer. *)
LEMMA PlainResumeLinear ==
  ASSUME TypeOK, NEW r \in Request, Reads(r) \/ Looks(r) \/ Sets(r)
  PROVE  NoNewBearer
<1>1. CASE Reads(r)
  <2>1. PICK h : /\ Become(r, h) /\ h.at \in RotationLabels
                 /\ h.record = req[r].record
    BY <1>1, ReadsIs
  <2>2. req[r].at \in RotationLabels /\ rows' = rows
    BY <1>1, ReadsIs
  <2>3. \A f \in Family : Rotates(r, f)' => Rotates(r, f)
    BY <2>1, <2>2 DEF Become, Rotates, TypeOK
  <2>4. \A q \in Request, f \in Family :
          q # r => (Rotates(q, f)' => Rotates(q, f))
    BY <2>1, OthersRotate
  <2> QED
    BY <2>2, <2>3, <2>4 DEF NoNewBearer
<1>2. CASE Looks(r)
  BY <1>2, LooksIs, SameRowsKeep
<1>3. CASE Sets(r)
  BY <1>3, SetsIs, RevokeKeeps
<1> QED
  BY <1>1, <1>2, <1>3

(* The bearers a step leaves are among those that were there, but for      *)
(* session g: there only request r rotates, or only token t is unused.     *)
OneRotation(g, r) ==
  /\ \A t \in DOMAIN rows', f \in Family :
       Unused(t, f)' => t \in DOMAIN rows /\ Unused(t, f) /\ f # g
  /\ \A s \in Request, f \in Family :
       Rotates(s, f)' => (s = r /\ f = g) \/ (Rotates(s, f) /\ f # g)

OneToken(g, t) ==
  /\ \A u \in DOMAIN rows', f \in Family :
       Unused(u, f)' =>
         (u = t /\ f = g) \/ (u \in DOMAIN rows /\ Unused(u, f) /\ f # g)
  /\ \A s \in Request, f \in Family :
       Rotates(s, f)' => Rotates(s, f) /\ f # g

LEMMA OneRotationLinear ==
  ASSUME LinearRotation, NEW g, NEW r, OneRotation(g, r)
  PROVE  LinearRotation'
BY DEF LinearRotation, OneRotation

LEMMA OneTokenLinear ==
  ASSUME LinearRotation, NEW g, NEW t, OneToken(g, t)
  PROVE  LinearRotation'
BY DEF LinearRotation, OneToken

LEMMA ConsumeWinLinear ==
  ASSUME TypeOK, Stored, LinearRotation, NEW r \in Request, ConsumeWin(r)
  PROVE  LinearRotation'
<1> DEFINE t == req[r].token
           g == rows[t].familyId
           h == [at |-> "check", record |-> rows'[t]]
<1>1. /\ t \in DOMAIN rows /\ ~rows[t].used
      /\ rows' = MarkUsed(rows, t)
      /\ Become(r, h)
  BY DEF ConsumeWin, Stored, Consumable
<1>2. /\ DOMAIN rows' = DOMAIN rows
      /\ rows'[t].used /\ rows'[t].familyId = g
      /\ \A u \in DOMAIN rows : u # t => rows'[u] = rows[u]
  BY <1>1 DEF MarkUsed, TypeOK, Row
<1>3. g \in Family /\ Unused(t, g)
  BY <1>1 DEF TypeOK, Row, Unused, FamilyOf
<1>4. \A u \in DOMAIN rows', f \in Family :
        Unused(u, f)' => u \in DOMAIN rows /\ Unused(u, f) /\ f # g
  BY <1>1, <1>2, <1>3 DEF LinearRotation, Unused, FamilyOf
<1>5. \A f \in Family : Rotates(r, f)' => f = g
  BY <1>1, <1>2 DEF Become, Rotates, At, TypeOK
<1>6. \A s \in Request, f \in Family :
        s # r => (Rotates(s, f)' => Rotates(s, f) /\ f # g)
  BY <1>1, <1>3, OthersRotate DEF LinearRotation
<1> QED
  <2>1. OneRotation(g, r)
    BY <1>4, <1>5, <1>6 DEF OneRotation
  <2> QED
    BY <2>1, OneRotationLinear

(* What INSERT adds to the bearers: the new token, to its own family. *)
LEMMA InsertBearer ==
  ASSUME TypeOK, NEW t, NEW row, t \notin DOMAIN rows,
         rows' = Insert(rows, t, row)
  PROVE  \A u \in DOMAIN rows', f \in Family :
           Unused(u, f)' => \/ u = t /\ f = row.familyId
                            \/ u \in DOMAIN rows /\ Unused(u, f)
BY DEF Insert, Unused, FamilyOf, TypeOK

LEMMA SaveNextLinear ==
  ASSUME TypeOK, Stored, LinearRotation, NEW r \in Request,
         NEW t \in Token, SaveNext(r, t)
  PROVE  LinearRotation'
<1> DEFINE g == req[r].record.familyId
<1>1. Become(r, Idle) /\ Rotates(r, g)
  BY DEF SaveNext, Rotates, At
<1>2. g \in Family
  BY HandlerType DEF SaveNext, At, Row, TypeOK
<1>3. \A u \in DOMAIN rows : ~Unused(u, g)
  BY <1>1, <1>2 DEF LinearRotation
<1>4. \A u \in DOMAIN rows', f \in Family :
        Unused(u, f)' => \/ u = t /\ f = g
                         \/ u \in DOMAIN rows /\ Unused(u, f)
  <2>1. PICK row : rows' = Insert(rows, t, row) /\ row.familyId = g
    BY DEF SaveNext, Successor, NewRow
  <2>2. t \notin DOMAIN rows
    BY DEF SaveNext
  <2> QED
    BY <2>1, <2>2, InsertBearer
<1>5. \A s \in Request, f \in Family :
        Rotates(s, f)' => Rotates(s, f) /\ f # g
  BY <1>1, <1>2, LeaveRotation, IdleLeaves DEF LinearRotation
<1> QED
  <2>1. OneToken(g, t)
    BY <1>3, <1>4, <1>5 DEF OneToken
  <2> QED
    BY <2>1, OneTokenLinear

LEMMA SaveFirstLinear ==
  ASSUME TypeOK, Stored, LinearRotation, NEW r \in Request,
         NEW t \in Token, NEW g \in Family, SaveFirst(r, t, g)
  PROVE  LinearRotation'
<1>1. \A u \in DOMAIN rows : ~Unused(u, g)
  BY DEF SaveFirst, FreshFamily, Unused, FamilyOf
<1>2. \A s \in Request : ~Rotates(s, g)
  BY DEF SaveFirst, Stored, Rotates
<1>3. \A u \in DOMAIN rows', f \in Family :
        Unused(u, f)' => \/ u = t /\ f = g
                         \/ u \in DOMAIN rows /\ Unused(u, f)
  <2>1. PICK row : rows' = Insert(rows, t, row) /\ row.familyId = g
    BY DEF SaveFirst, NewRow
  <2>2. t \notin DOMAIN rows
    BY DEF SaveFirst
  <2> QED
    BY <2>1, <2>2, InsertBearer
<1>4. \A s \in Request, f \in Family :
        Rotates(s, f)' => Rotates(s, f) /\ f # g
  BY <1>2, LeaveRotation, IdleLeaves DEF SaveFirst
<1> QED
  <2>1. OneToken(g, t)
    BY <1>1, <1>3, <1>4 DEF OneToken
  <2> QED
    BY <2>1, OneTokenLinear

LEMMA NextLinear ==
  TypeOK /\ Stored /\ LinearRotation /\ [Next]_vars => LinearRotation'
<1> SUFFICES ASSUME TypeOK, Stored, LinearRotation, [Next]_vars
             PROVE  LinearRotation'
  OBVIOUS
<1>1. ASSUME NEW r \in Request, Start(r)
      PROVE  LinearRotation'
  BY <1>1, StartLinear, NoNewBearerLinear
<1>2. ASSUME NEW r \in Request, Resume(r) \/ Abort(r)
      PROVE  LinearRotation'
  BY <1>2, StepIs, PlainResumeLinear, NoNewBearerLinear,
     ConsumeWinLinear, SaveNextLinear, SaveFirstLinear
<1>3. CASE Tick \/ UNCHANGED vars
  <2>1. rows' = rows /\ req' = req
    BY <1>3 DEF Tick, vars
  <2>2. NoNewBearer
    BY <2>1 DEF NoNewBearer, Rotates, At
  <2> QED
    BY <2>2, NoNewBearerLinear
<1> QED
  BY <1>1, <1>2, <1>3 DEF Next

(* However requests interleave, and whatever the durations, a session has  *)
(* at most one token to exchange or one rotation in progress: two requests *)
(* that present the same token never both get a successor.                 *)
THEOREM LinearRotationHolds == Spec => []LinearRotation
<1>1. Init => LinearRotation
  BY DEF Init, LinearRotation, Rotates, At, Idle
<1>2. TypeOK /\ Stored /\ LinearRotation /\ [Next]_vars => LinearRotation'
  BY NextLinear
<1> QED
  BY <1>1, <1>2, TypeCorrect, PTL DEF Spec

-----------------------------------------------------------------------------
(***************************************************************************)
(* The life of a session.  Each step of this module is a step of           *)
(* SessionLifecycle: SaveFirst opens, ConsumeWin takes, SaveNext renews,   *)
(* every other step closes some sessions, or none.                         *)
(***************************************************************************)
PhaseNow(f) ==
  IF FamilyOf(rows, f) = {} THEN "none"
  ELSE IF LiveIn(f) # {} THEN "open"
  ELSE IF \E r \in Request : Rotates(r, f) THEN "rotating"
  ELSE "closed"

LEMMA PhaseIs ==
  /\ phaseOf = [f \in Family |-> PhaseNow(f)]
  /\ phaseOf' = [f \in Family |-> PhaseNow(f)']
  /\ chainOf = [f \in Family |-> FamilyOf(rows, f)]
  /\ chainOf' = [f \in Family |-> FamilyOf(rows', f)]
BY DEF phaseOf, PhaseNow, chainOf, FamilyOf, LiveIn, Live, Rotates, At

(* What does not concern session f leaves its phase alone. *)
SamePhase(f) ==
  /\ FamilyOf(rows', f) = FamilyOf(rows, f)
  /\ LiveIn(f)' = LiveIn(f)
  /\ \A s \in Request : Rotates(s, f)' <=> Rotates(s, f)

LEMMA SamePhaseIs ==
  ASSUME NEW f, SamePhase(f)
  PROVE  PhaseNow(f)' = PhaseNow(f)
<1>1. FamilyOf(rows, f)' = FamilyOf(rows', f)
  BY DEF FamilyOf
<1> QED
  BY <1>1 DEF SamePhase, PhaseNow

(* A token that is live is unused, so nobody rotates its session. *)
LEMMA OpenIsNotRotating ==
  ASSUME LinearRotation, NEW f \in Family, LiveIn(f) # {}
  PROVE  \A r \in Request : ~Rotates(r, f)
BY DEF LinearRotation, LiveIn, Live, Unused, FamilyOf

(* A step that creates no bearer and brings no row to life closes the      *)
(* sessions that have lost theirs.                                         *)
LEMMA Closes ==
  ASSUME LinearRotation, NoNewBearer,
         \A t \in DOMAIN rows : Live(rows'[t]) => Live(rows[t])
  PROVE  [Lifecycle!Next]_(Lifecycle!vars)
<1> DEFINE S == {f \in Family : PhaseNow(f) \in {"open", "rotating"}
                                  /\ PhaseNow(f)' = "closed"}
<1>1. ASSUME NEW f \in Family
      PROVE  /\ FamilyOf(rows', f) = FamilyOf(rows, f)
             /\ LiveIn(f)' \subseteq LiveIn(f)
             /\ \A s \in Request : Rotates(s, f)' => Rotates(s, f)
  BY DEF NoNewBearer, FamilyOf, LiveIn
<1>2. ASSUME NEW f \in Family
      PROVE  PhaseNow(f)' = IF f \in S THEN "closed" ELSE PhaseNow(f)
  <2>1. FamilyOf(rows, f)' = FamilyOf(rows, f)
    BY <1>1 DEF FamilyOf
  <2>2. CASE FamilyOf(rows, f) = {}
    BY <2>1, <2>2 DEF PhaseNow
  <2>3. CASE FamilyOf(rows, f) # {} /\ LiveIn(f) # {}
    <3>1. \A s \in Request : ~Rotates(s, f)'
      BY <1>1, <2>3, OpenIsNotRotating
    <3>2. PhaseNow(f) = "open" /\ PhaseNow(f)' \in {"open", "closed"}
      BY <2>1, <2>3, <3>1 DEF PhaseNow
    <3> QED
      BY <3>2
  <2>4. CASE FamilyOf(rows, f) # {} /\ LiveIn(f) = {}
    <3>1. LiveIn(f)' = {}
      BY <1>1, <2>4
    <3>2. CASE \E s \in Request : Rotates(s, f)
      <4>1. /\ PhaseNow(f) = "rotating"
            /\ PhaseNow(f)' \in {"rotating", "closed"}
        BY <2>1, <2>4, <3>1, <3>2 DEF PhaseNow
      <4> QED
        BY <4>1
    <3>3. CASE ~ \E s \in Request : Rotates(s, f)
      <4>1. ~ \E s \in Request : Rotates(s, f)'
        BY <1>1, <3>3
      <4>2. PhaseNow(f) = "closed" /\ PhaseNow(f)' = "closed"
        BY <2>1, <2>4, <3>1, <3>3, <4>1 DEF PhaseNow
      <4> QED
        BY <4>2
    <3> QED
      BY <3>2, <3>3
  <2> QED
    BY <2>2, <2>3, <2>4
<1>3. \A f \in S : phaseOf[f] \in {"open", "rotating"}
  BY PhaseIs
<1>4. phaseOf' = [f \in Family |-> IF f \in S THEN "closed" ELSE phaseOf[f]]
  BY <1>2, PhaseIs
<1>5. chainOf' = chainOf
  BY <1>1, PhaseIs
<1>6. S \in SUBSET Family
  OBVIOUS
<1> HIDE DEF S
<1>7. Lifecycle!Close(S)
  BY <1>3, <1>4, <1>5 DEF Lifecycle!Close
<1> QED
  BY <1>6, <1>7 DEF Lifecycle!Next

LEMMA ConsumeWinTakes ==
  ASSUME TypeOK, Stored, LinearRotation, NEW r \in Request, ConsumeWin(r)
  PROVE  \E g \in Family : Lifecycle!Take(g)
<1>1. PICK t : t = req[r].token
  OBVIOUS
<1>2. /\ t \in DOMAIN rows /\ Live(rows[t]) /\ rows' = MarkUsed(rows, t)
      /\ Become(r, [at |-> "check", record |-> rows'[t]])
  BY <1>1 DEF ConsumeWin, Stored, Consumable, Live
<1>3. PICK g \in Family : g = rows[t].familyId
  BY <1>2 DEF TypeOK, Row
<1>4. /\ DOMAIN rows' = DOMAIN rows
      /\ rows'[t].used /\ rows'[t].familyId = g
      /\ \A u \in DOMAIN rows : u # t => rows'[u] = rows[u]
  BY <1>2, <1>3 DEF MarkUsed, TypeOK, Row
<1>5. \A f \in Family : FamilyOf(rows', f) = FamilyOf(rows, f)
  BY <1>2, <1>3, <1>4 DEF FamilyOf
<1>6. PhaseNow(g) = "open"
  BY <1>2, <1>3 DEF PhaseNow, LiveIn, FamilyOf
<1>7. PhaseNow(g)' = "rotating"
  <2>1. Rotates(r, g)'
    BY <1>2, <1>4 DEF Become, Rotates, At, TypeOK
  <2>2. t \in FamilyOf(rows, g)'
    BY <1>2, <1>4 DEF FamilyOf
  <2>3. \A u \in DOMAIN rows : u # t => ~Unused(u, g)
    BY <1>2, <1>3 DEF LinearRotation, Unused, FamilyOf, Live
  <2>4. LiveIn(g)' = {}
    BY <1>4, <2>3 DEF LiveIn, Live, Unused, FamilyOf
  <2> QED
    BY <2>1, <2>2, <2>4 DEF PhaseNow
<1>8. ASSUME NEW f \in Family, f # g
      PROVE  PhaseNow(f)' = PhaseNow(f)
  <2>1. LiveIn(f)' = LiveIn(f)
    BY <1>3, <1>4, <1>8 DEF LiveIn, FamilyOf
  <2>2. ~Rotates(r, f) /\ ~Rotates(r, f)'
    BY <1>2, <1>4, <1>8 DEF ConsumeWin, Become, Rotates, At, TypeOK
  <2>3. \A s \in Request : Rotates(s, f)' <=> Rotates(s, f)
    BY <1>2, <2>2, OthersRotate
  <2> QED
    BY <1>5, <2>1, <2>3, SamePhaseIs DEF SamePhase
<1>9. phaseOf' = [phaseOf EXCEPT ![g] = "rotating"]
  BY <1>7, <1>8, PhaseIs
<1>10. phaseOf[g] = "open" /\ chainOf' = chainOf
  BY <1>5, <1>6, PhaseIs
<1> QED
  BY <1>9, <1>10 DEF Lifecycle!Take

(* What an insert does to the sessions: the new token is its own's only    *)
(* live one, and the others are as they were.                              *)
LEMMA InsertPhases ==
  ASSUME TypeOK, NEW r \in Request, NEW t, NEW row, NEW g \in Family,
         t \notin DOMAIN rows, rows' = Insert(rows, t, row), Become(r, Idle),
         row.familyId = g, Live(row),
         \A f \in Family : Rotates(r, f) => f = g
  PROVE  /\ phaseOf' = [phaseOf EXCEPT ![g] = "open"]
         /\ chainOf' = [chainOf EXCEPT ![g] = @ \cup {t}]
         /\ Lifecycle!Fresh(t)
<1>1. /\ DOMAIN rows' = DOMAIN rows \cup {t}
      /\ rows'[t] = row
      /\ \A u \in DOMAIN rows : rows'[u] = rows[u]
  BY DEF Insert
<1>2. /\ FamilyOf(rows', g) = FamilyOf(rows, g) \cup {t}
      /\ \A f \in Family : f # g => FamilyOf(rows', f) = FamilyOf(rows, f)
  BY <1>1 DEF FamilyOf
<1>3. PhaseNow(g)' = "open"
  BY <1>1 DEF PhaseNow, LiveIn, FamilyOf
<1>4. ASSUME NEW f \in Family, f # g
      PROVE  PhaseNow(f)' = PhaseNow(f)
  <2>1. LiveIn(f)' = LiveIn(f)
    BY <1>1, <1>4 DEF LiveIn, FamilyOf
  <2>2. ~Rotates(r, f) /\ ~Rotates(r, f)'
    BY <1>4, LeaveRotation, IdleLeaves
  <2>3. \A s \in Request : Rotates(s, f)' <=> Rotates(s, f)
    BY <2>2, OthersRotate
  <2> QED
    BY <1>2, <1>4, <2>1, <2>3, SamePhaseIs DEF SamePhase
<1>5. phaseOf' = [phaseOf EXCEPT ![g] = "open"]
  BY <1>3, <1>4, PhaseIs
<1>6. chainOf' = [chainOf EXCEPT ![g] = @ \cup {t}]
  BY <1>2, PhaseIs
<1>7. Lifecycle!Fresh(t)
  BY PhaseIs DEF Lifecycle!Fresh, FamilyOf
<1> QED
  BY <1>5, <1>6, <1>7

LEMMA SaveFirstOpens ==
  ASSUME TypeOK, Stored, NEW r \in Request,
         NEW t \in Token, NEW g \in Family, SaveFirst(r, t, g)
  PROVE  Lifecycle!Open(g, t)
<1>1. PICK row : /\ rows' = Insert(rows, t, row)
                 /\ row.familyId = g /\ Live(row)
  BY DEF SaveFirst, NewRow, Live
<1>2. /\ t \notin DOMAIN rows /\ Become(r, Idle)
      /\ \A f \in Family : Rotates(r, f) => f = g
  BY DEF SaveFirst, Rotates, At
<1>3. FamilyOf(rows, g) = {}
  BY DEF SaveFirst, FreshFamily, FamilyOf
<1>4. phaseOf[g] = "none" /\ chainOf[g] = {}
  BY <1>3, PhaseIs DEF PhaseNow
<1>5. chainOf' = [chainOf EXCEPT ![g] = {t}]
  BY <1>1, <1>2, <1>4, InsertPhases
<1> QED
  BY <1>1, <1>2, <1>4, <1>5, InsertPhases DEF Lifecycle!Open

LEMMA SaveNextRenews ==
  ASSUME TypeOK, Stored, LinearRotation, NEW r \in Request,
         NEW t \in Token, SaveNext(r, t)
  PROVE  \E g \in Family : Lifecycle!Renew(g, t)
<1>1. PICK g \in Family : g = req[r].record.familyId
  BY HandlerType DEF SaveNext, At, Row, TypeOK
<1>2. PICK row : /\ rows' = Insert(rows, t, row)
                 /\ row.familyId = g /\ Live(row)
  BY <1>1 DEF SaveNext, Successor, NewRow, Live
<1>3. /\ t \notin DOMAIN rows /\ Become(r, Idle)
      /\ Rotates(r, g) /\ ~FreshFamily(g)
      /\ \A f \in Family : Rotates(r, f) => f = g
  BY <1>1 DEF SaveNext, Rotates, Stored, At
<1>4. FamilyOf(rows, g) # {} /\ LiveIn(g) = {}
  BY <1>3, OpenIsNotRotating DEF FreshFamily, FamilyOf
<1>5. phaseOf[g] = "rotating"
  BY <1>3, <1>4, PhaseIs DEF PhaseNow
<1> QED
  BY <1>2, <1>3, <1>5, InsertPhases DEF Lifecycle!Renew

LEMMA RevokeKillsOnly ==
  ASSUME TypeOK, NEW S, rows' = Revoke(rows, S)
  PROVE  \A t \in DOMAIN rows : Live(rows'[t]) => Live(rows[t])
BY DEF Revoke, TypeOK, Row, Live

LEMMA NextLives ==
  ASSUME TypeOK, Stored, LinearRotation, [Next]_vars
  PROVE  [Lifecycle!Next]_(Lifecycle!vars)
<1>1. ASSUME NEW r \in Request, Start(r)
      PROVE  [Lifecycle!Next]_(Lifecycle!vars)
  BY <1>1, StartIs, StartLinear, Closes
<1>2. ASSUME NEW r \in Request, Reads(r) \/ Looks(r) \/ Sets(r)
      PROVE  [Lifecycle!Next]_(Lifecycle!vars)
  <2>1. \A t \in DOMAIN rows : Live(rows'[t]) => Live(rows[t])
    BY <1>2, ReadsIs, LooksIs, SetsIs, RevokeKillsOnly
  <2>2. NoNewBearer
    BY <1>2, PlainResumeLinear
  <2> QED
    BY <2>1, <2>2, Closes
<1>3. ASSUME NEW r \in Request,
             \/ ConsumeWin(r)
             \/ \E t \in Token, f \in Family : SaveFirst(r, t, f)
             \/ \E t \in Token : SaveNext(r, t)
      PROVE  Lifecycle!Next
  BY <1>3, ConsumeWinTakes, SaveFirstOpens, SaveNextRenews DEF Lifecycle!Next
<1>4. CASE Tick \/ UNCHANGED vars
  <2>1. rows' = rows /\ req' = req
    BY <1>4 DEF Tick, vars
  <2>2. NoNewBearer
    BY <2>1 DEF NoNewBearer, Rotates, At
  <2> QED
    BY <2>1, <2>2, Closes
<1> QED
  BY <1>1, <1>2, <1>3, <1>4, StepIs DEF Next

(* The table and the handlers implement the life of a session: one token   *)
(* at a time, or one rotation, and closed is final.                        *)
THEOREM SessionsLiveOnceHolds == Spec => SessionsLiveOnce
<1>1. Init => Lifecycle!Init
  <2> SUFFICES ASSUME Init
               PROVE  Lifecycle!Init
    OBVIOUS
  <2>1. \A f \in Family : FamilyOf(rows, f) = {}
    BY DEF Init, FamilyOf
  <2> QED
    BY <2>1, PhaseIs DEF Lifecycle!Init, PhaseNow
<1>2. TypeOK /\ Stored /\ LinearRotation /\ [Next]_vars =>
        [Lifecycle!Next]_(Lifecycle!vars)
  BY NextLives
<1> QED
  BY <1>1, <1>2, TypeCorrect, LinearRotationHolds, PTL
     DEF Spec, SessionsLiveOnce, Lifecycle!Spec

-----------------------------------------------------------------------------
(***************************************************************************)
(* The limits of student sessions, by the same typing: every token of a    *)
(* session has the origin of its first, a session that is over stays over, *)
(* and a client that is not active gets no session once what overlapped    *)
(* its suspension is over.                                                 *)
(*                                                                         *)
(* Origins.  A step either keeps the origin of every row and starts no     *)
(* rotation, or gives a new row, or a new rotation, the origin its session *)
(* already has (ConsumeWin, SaveNext), or starts a session (SaveFirst).    *)
(***************************************************************************)
SameOrigins ==
  /\ DOMAIN rows' = DOMAIN rows
  /\ \A t \in DOMAIN rows : /\ rows'[t].familyId = rows[t].familyId
                            /\ SameOrigin(rows'[t], rows[t])

NoNewOrigin ==
  /\ SameOrigins
  /\ \A s \in Request, f \in Family :
       Rotates(s, f)' => Rotates(s, f) /\ req'[s].record = req[s].record

LEMMA NoNewOriginUniform ==
  ASSUME TypeOK, FamilyUniform, NoNewOrigin
  PROVE  FamilyUniform'
<1> SUFFICES ASSUME NEW t \in DOMAIN rows'
             PROVE  /\ \A u \in FamilyOf(rows', rows'[t].familyId) :
                         SameOrigin(rows'[t], rows'[u])
                    /\ \A s \in Request : Rotates(s, rows[t].familyId)' =>
                         SameOrigin(rows'[t], req'[s].record)
  BY DEF FamilyUniform
<1>1. /\ t \in DOMAIN rows /\ rows'[t].familyId = rows[t].familyId
      /\ SameOrigin(rows'[t], rows[t]) /\ rows[t].familyId \in Family
  BY DEF NoNewOrigin, SameOrigins, TypeOK, Row
<1>2. ASSUME NEW u \in FamilyOf(rows', rows'[t].familyId)
      PROVE  SameOrigin(rows'[t], rows'[u])
  <2>1. u \in FamilyOf(rows, rows[t].familyId) /\ SameOrigin(rows'[u], rows[u])
    BY <1>1 DEF NoNewOrigin, SameOrigins, FamilyOf
  <2>2. SameOrigin(rows[t], rows[u])
    BY <1>1, <2>1 DEF FamilyUniform
  <2> QED
    BY <1>1, <2>1, <2>2 DEF SameOrigin
<1>3. ASSUME NEW s \in Request, Rotates(s, rows[t].familyId)'
      PROVE  SameOrigin(rows'[t], req'[s].record)
  <2>1. Rotates(s, rows[t].familyId) /\ req'[s].record = req[s].record
    BY <1>1, <1>3 DEF NoNewOrigin, Rotates
  <2>2. SameOrigin(rows[t], req[s].record)
    BY <1>1, <2>1 DEF FamilyUniform
  <2> QED
    BY <1>1, <2>1, <2>2 DEF SameOrigin
<1> QED
  BY <1>2, <1>3

(* A handler outside a rotation after the step has no record to look at,   *)
(* and the others keep theirs.                                             *)
LEMMA LeaveRecord ==
  ASSUME TypeOK, NEW r \in Request, NEW h, Become(r, h),
         h.at \notin RotationLabels, NEW s \in Request, NEW f
  PROVE  Rotates(s, f)' => Rotates(s, f) /\ req'[s] = req[s]
BY DEF TypeOK, Become, Rotates, At

LEMMA SameRowsOrigin ==
  ASSUME TypeOK, rows' = rows, NEW r \in Request, NEW h,
         Become(r, h), h.at \notin RotationLabels
  PROVE  NoNewOrigin
BY LeaveRecord DEF NoNewOrigin, SameOrigins, SameOrigin

LEMMA RevokeOrigin ==
  ASSUME TypeOK, NEW S, rows' = Revoke(rows, S), NEW r \in Request, NEW h,
         Become(r, h), h.at \notin RotationLabels
  PROVE  NoNewOrigin
<1>1. SameOrigins
  BY DEF TypeOK, Revoke, Row, SameOrigins, SameOrigin
<1> QED
  BY <1>1, LeaveRecord DEF NoNewOrigin

LEMMA StartOrigin ==
  ASSUME TypeOK, NEW r \in Request, Start(r)
  PROVE  NoNewOrigin
<1>1. rows' = rows /\ \E h : Become(r, h) /\ h.at \notin RotationLabels
  BY StartIs
<1> QED
  BY <1>1, SameRowsOrigin

LEMMA PlainResumeOrigin ==
  ASSUME TypeOK, NEW r \in Request, Reads(r) \/ Looks(r) \/ Sets(r)
  PROVE  NoNewOrigin
<1>1. CASE Reads(r)
  <2>1. PICK h : /\ Become(r, h) /\ h.at \in RotationLabels
                 /\ h.record = req[r].record
    BY <1>1, ReadsIs
  <2>2. req[r].at \in RotationLabels /\ rows' = rows
    BY <1>1, ReadsIs
  <2>3. \A q \in Request, f \in Family :
          Rotates(q, f)' => Rotates(q, f) /\ req'[q].record = req[q].record
    BY <2>1, <2>2 DEF Become, Rotates, TypeOK
  <2> QED
    BY <2>2, <2>3 DEF NoNewOrigin, SameOrigins, SameOrigin
<1>2. CASE Looks(r)
  BY <1>2, LooksIs, SameRowsOrigin
<1>3. CASE Sets(r)
  BY <1>3, SetsIs, RevokeOrigin
<1> QED
  BY <1>1, <1>2, <1>3

(* The rotation that begins has the origin of the token it took. *)
LEMMA ConsumeWinUniform ==
  ASSUME TypeOK, Stored, FamilyUniform, NEW r \in Request, ConsumeWin(r)
  PROVE  FamilyUniform'
<1>1. PICK t : t = req[r].token
  OBVIOUS
<1>2. /\ t \in DOMAIN rows
      /\ rows' = MarkUsed(rows, t)
      /\ Become(r, [at |-> "check", record |-> rows'[t]])
  BY <1>1 DEF ConsumeWin, Stored
<1>3. SameOrigins
  BY <1>2 DEF MarkUsed, TypeOK, Row, SameOrigins, SameOrigin
<1>4. /\ req'[r].record = rows'[t]
      /\ \A s \in Request : s # r => req'[s] = req[s]
  BY <1>2 DEF Become, TypeOK
<1> SUFFICES ASSUME NEW u \in DOMAIN rows'
             PROVE  /\ \A v \in FamilyOf(rows', rows'[u].familyId) :
                         SameOrigin(rows'[u], rows'[v])
                    /\ \A s \in Request : Rotates(s, rows[u].familyId)' =>
                         SameOrigin(rows'[u], req'[s].record)
  BY DEF FamilyUniform
<1>5. /\ u \in DOMAIN rows /\ rows'[u].familyId = rows[u].familyId
      /\ SameOrigin(rows'[u], rows[u])
  BY <1>3 DEF SameOrigins
<1>6. ASSUME NEW v \in FamilyOf(rows', rows'[u].familyId)
      PROVE  SameOrigin(rows'[u], rows'[v])
  <2>1. v \in FamilyOf(rows, rows[u].familyId) /\ SameOrigin(rows'[v], rows[v])
    BY <1>3, <1>5 DEF SameOrigins, FamilyOf
  <2>2. SameOrigin(rows[u], rows[v])
    BY <1>5, <2>1 DEF FamilyUniform
  <2> QED
    BY <1>5, <2>1, <2>2 DEF SameOrigin
<1>7. ASSUME NEW s \in Request, Rotates(s, rows[u].familyId)'
      PROVE  SameOrigin(rows'[u], req'[s].record)
  <2>1. CASE s = r
    <3>1. t \in FamilyOf(rows', rows'[u].familyId)
      BY <1>2, <1>3, <1>4, <1>7, <2>1 DEF Rotates, FamilyOf, SameOrigins
    <3> QED
      BY <1>4, <1>6, <2>1, <3>1
  <2>2. CASE s # r
    <3>1. Rotates(s, rows[u].familyId) /\ req'[s] = req[s]
      BY <1>4, <1>5, <1>7, <2>2 DEF Rotates, At
    <3>2. SameOrigin(rows[u], req[s].record)
      BY <1>5, <3>1 DEF FamilyUniform
    <3> QED
      BY <1>5, <3>1, <3>2 DEF SameOrigin
  <2> QED
    BY <2>1, <2>2
<1> QED
  BY <1>6, <1>7

(* A row of the same origin as what its session already has. *)
LEMMA InsertUniform ==
  ASSUME TypeOK, FamilyUniform, NEW r \in Request, NEW t, NEW row,
         t \notin DOMAIN rows, rows' = Insert(rows, t, row), Become(r, Idle),
         \A u \in FamilyOf(rows, row.familyId) : SameOrigin(row, rows[u]),
         \A s \in Request :
           Rotates(s, row.familyId) => SameOrigin(row, req[s].record)
  PROVE  FamilyUniform'
<1>1. /\ DOMAIN rows' = DOMAIN rows \cup {t}
      /\ rows'[t] = row
      /\ \A u \in DOMAIN rows : rows'[u] = rows[u]
  BY DEF Insert
<1> SUFFICES ASSUME NEW u \in DOMAIN rows'
             PROVE  /\ \A v \in FamilyOf(rows', rows'[u].familyId) :
                         SameOrigin(rows'[u], rows'[v])
                    /\ \A s \in Request : Rotates(s, rows[u].familyId)' =>
                         SameOrigin(rows'[u], req'[s].record)
  BY DEF FamilyUniform
<1>2. ASSUME NEW v \in FamilyOf(rows', rows'[u].familyId)
      PROVE  SameOrigin(rows'[u], rows'[v])
  <2>1. v \in DOMAIN rows' /\ rows'[v].familyId = rows'[u].familyId
    BY DEF FamilyOf
  <2>2. CASE u = t /\ v = t
    BY <2>2 DEF SameOrigin
  <2>3. CASE u = t /\ v # t
    BY <1>1, <2>1, <2>3 DEF FamilyOf
  <2>4. CASE u # t /\ v = t
    <3>1. SameOrigin(row, rows[u])
      BY <1>1, <2>1, <2>4 DEF FamilyOf
    <3> QED
      BY <1>1, <2>4, <3>1 DEF SameOrigin
  <2>5. CASE u # t /\ v # t
    BY <1>1, <2>1, <2>5 DEF FamilyUniform, FamilyOf
  <2> QED
    BY <2>2, <2>3, <2>4, <2>5
<1>3. ASSUME NEW s \in Request, Rotates(s, rows[u].familyId)'
      PROVE  SameOrigin(rows'[u], req'[s].record)
  <2>1. Rotates(s, rows'[u].familyId) /\ req'[s] = req[s]
    <3>1. PICK f : f = rows'[u].familyId
      OBVIOUS
    <3>2. Rotates(s, f)'
      BY <1>3, <3>1 DEF Rotates, At
    <3>3. Rotates(s, f) /\ req'[s] = req[s]
      BY <3>2, LeaveRecord, IdleLeaves
    <3> QED
      BY <3>1, <3>3
  <2>2. CASE u = t
    BY <1>1, <2>1, <2>2
  <2>3. CASE u # t
    BY <1>1, <2>1, <2>3 DEF FamilyUniform
  <2> QED
    BY <2>2, <2>3
<1> QED
  BY <1>2, <1>3

LEMMA SaveNextUniform ==
  ASSUME TypeOK, Stored, FamilyUniform, NEW r \in Request,
         NEW t \in Token, SaveNext(r, t)
  PROVE  FamilyUniform'
<1>1. PICK record : record = req[r].record
  OBVIOUS
<1>2. PICK row : row = Successor(req[r])
  OBVIOUS
<1>3. /\ row.familyId = record.familyId
      /\ SameOrigin(row, record)
  BY <1>1, <1>2 DEF Successor, NewRow, SameOrigin
<1>4. Rotates(r, row.familyId) /\ ~FreshFamily(row.familyId)
  BY <1>1, <1>3 DEF SaveNext, Rotates, Stored, At
<1>5. ASSUME NEW u \in FamilyOf(rows, row.familyId)
      PROVE  SameOrigin(row, rows[u])
  <2>1. SameOrigin(rows[u], record)
    BY <1>1, <1>4 DEF FamilyUniform, FamilyOf
  <2> QED
    BY <1>3, <2>1 DEF SameOrigin
<1>6. ASSUME NEW s \in Request, Rotates(s, row.familyId)
      PROVE  SameOrigin(row, req[s].record)
  <2>1. PICK u \in DOMAIN rows : rows[u].familyId = row.familyId
    BY <1>4 DEF FreshFamily
  <2>2. SameOrigin(rows[u], req[s].record)
    BY <1>6, <2>1 DEF FamilyUniform
  <2>3. SameOrigin(row, rows[u])
    BY <1>5, <2>1 DEF FamilyOf
  <2> QED
    BY <2>2, <2>3 DEF SameOrigin
<1>7. t \notin DOMAIN rows /\ rows' = Insert(rows, t, row) /\ Become(r, Idle)
  BY <1>2 DEF SaveNext
<1> QED
  BY <1>5, <1>6, <1>7, InsertUniform

LEMMA SaveFirstUniform ==
  ASSUME TypeOK, Stored, FamilyUniform, NEW r \in Request,
         NEW t \in Token, NEW g \in Family, SaveFirst(r, t, g)
  PROVE  FamilyUniform'
<1>1. PICK row : rows' = Insert(rows, t, row) /\ row.familyId = g
  BY DEF SaveFirst, NewRow
<1>2. \A u \in DOMAIN rows : u \notin FamilyOf(rows, row.familyId)
  BY <1>1 DEF SaveFirst, FreshFamily, FamilyOf
<1>3. \A s \in Request : ~Rotates(s, row.familyId)
  BY <1>1 DEF SaveFirst, Stored, Rotates
<1>4. t \notin DOMAIN rows /\ Become(r, Idle)
  BY DEF SaveFirst
<1>5. \A u \in FamilyOf(rows, row.familyId) : SameOrigin(row, rows[u])
  BY <1>2 DEF FamilyOf
<1> QED
  BY <1>1, <1>3, <1>4, <1>5, InsertUniform

LEMMA NextUniform ==
  TypeOK /\ Stored /\ FamilyUniform /\ [Next]_vars => FamilyUniform'
<1> SUFFICES ASSUME TypeOK, Stored, FamilyUniform, [Next]_vars
             PROVE  FamilyUniform'
  OBVIOUS
<1>1. ASSUME NEW r \in Request, Start(r)
      PROVE  FamilyUniform'
  BY <1>1, StartOrigin, NoNewOriginUniform
<1>2. ASSUME NEW r \in Request, Resume(r) \/ Abort(r)
      PROVE  FamilyUniform'
  BY <1>2, StepIs, PlainResumeOrigin, NoNewOriginUniform,
     ConsumeWinUniform, SaveNextUniform, SaveFirstUniform
<1>3. CASE Tick \/ UNCHANGED vars
  <2>1. rows' = rows /\ req' = req
    BY <1>3 DEF Tick, vars
  <2>2. NoNewOrigin
    BY <2>1 DEF NoNewOrigin, SameOrigins, SameOrigin, Rotates, At
  <2> QED
    BY <2>2, NoNewOriginUniform
<1> QED
  BY <1>1, <1>2, <1>3 DEF Next

(* However long the chain of rotations, and whatever overlaps it, no token *)
(* of a session has another absolute limit, or another application, than   *)
(* its first.                                                              *)
THEOREM FamilyUniformHolds == Spec => []FamilyUniform
<1>1. Init => FamilyUniform
  BY DEF Init, FamilyUniform
<1>2. TypeOK /\ Stored /\ FamilyUniform /\ [Next]_vars => FamilyUniform'
  BY NextUniform
<1> QED
  BY <1>1, <1>2, TypeCorrect, PTL DEF Spec

-----------------------------------------------------------------------------
(***************************************************************************)
(* A session that is over.  Whether it is depends on the clock, which no   *)
(* step of a handler moves, so what is in time after the step was before.  *)
(***************************************************************************)

(* A step that brings no token of f to life, changes no expiry, and leaves *)
(* no rotation of f but one that consume() is about to refuse.             *)
LEMMA EndedStep ==
  ASSUME NEW f \in Family, Ended(f), now \in Int, now' \in Int, now <= now',
         FamilyOf(rows', f) = FamilyOf(rows, f),
         \A t \in FamilyOf(rows, f) :
           /\ rows[t] \in Row
           /\ Live(rows'[t]) => Live(rows[t])
           /\ rows'[t].expiresAt = rows[t].expiresAt
           /\ rows'[t].sessionExpiresAt = rows[t].sessionExpiresAt,
         \A r \in Request : Rotates(r, f)' =>
           At(r, "check")' /\ ~InTime(req[r].record)'
  PROVE  Ended(f)' /\ FamilyOf(rows, f)' = FamilyOf(rows, f)
<1>1. ASSUME NEW t \in FamilyOf(rows, f)
      PROVE  ~(Live(rows'[t]) /\ InTime(rows[t])')
  <2>1. ~(Live(rows[t]) /\ InTime(rows[t]))
    BY DEF Ended
  <2> QED
    BY <2>1 DEF InTime, Row
<1>2. FamilyOf(rows, f)' = FamilyOf(rows, f)
  BY DEF FamilyOf
<1> QED
  BY <1>1, <1>2 DEF Ended, InTime

(* What the steps of handlers do to the rotations of a session that is     *)
(* over: there is none past consume()'s checks.                            *)
LEMMA EndedReads ==
  ASSUME TypeOK, NEW f \in Family, Ended(f), NEW r \in Request, Reads(r)
  PROVE  ~Rotates(r, f) /\ \A q \in Request : Rotates(q, f)' =>
           At(q, "check") /\ ~InTime(req[q].record) /\ req'[q] = req[q]
<1>1. ~Rotates(r, f)
  BY DEF Ended, Reads, CheckPassed, ReadExpiry, ReadSeconds, SignNext, InTime, At
<1>2. PICK h : Become(r, h) /\ h.at \in RotationLabels /\ h.record = req[r].record
  BY ReadsIs
<1>3. /\ req'[r] = h
      /\ \A q \in Request : q # r => req'[q] = req[q]
  BY <1>2 DEF Become, TypeOK
<1>4. req[r].at \in RotationLabels
  BY ReadsIs
<1>5. ~Rotates(r, f)'
  BY <1>1, <1>2, <1>3, <1>4 DEF Rotates
<1>6. ASSUME NEW q \in Request, Rotates(q, f)'
      PROVE  At(q, "check") /\ ~InTime(req[q].record) /\ req'[q] = req[q]
  <2>1. q # r
    BY <1>5, <1>6
  <2>2. Rotates(q, f) /\ req'[q] = req[q]
    BY <1>3, <1>6, <2>1 DEF Rotates
  <2> QED
    BY <2>2 DEF Ended
<1> QED
  BY <1>1, <1>6

LEMMA EndedLeaves ==
  ASSUME TypeOK, NEW f \in Family, Ended(f), NEW r \in Request, NEW h,
         Become(r, h), h.at \notin RotationLabels
  PROVE  \A q \in Request : Rotates(q, f)' =>
           At(q, "check") /\ ~InTime(req[q].record) /\ req'[q] = req[q]
BY LeaveRecord DEF Ended

LEMMA EndedConsume ==
  ASSUME TypeOK, Stored, NEW f \in Family, Ended(f), NEW r \in Request,
         ConsumeWin(r)
  PROVE  Ended(f)' /\ FamilyOf(rows, f)' = FamilyOf(rows, f)
<1>1. PICK t : t = req[r].token
  OBVIOUS
<1>2. /\ t \in DOMAIN rows /\ Live(rows[t]) /\ now' = now
      /\ rows' = MarkUsed(rows, t)
      /\ Become(r, [at |-> "check", record |-> rows'[t]])
  BY <1>1 DEF ConsumeWin, Stored, Consumable, Live
<1>3. /\ DOMAIN rows' = DOMAIN rows
      /\ \A u \in DOMAIN rows :
           /\ rows[u] \in Row
           /\ rows'[u].familyId = rows[u].familyId
           /\ rows'[u].expiresAt = rows[u].expiresAt
           /\ rows'[u].sessionExpiresAt = rows[u].sessionExpiresAt
           /\ Live(rows'[u]) => Live(rows[u])
  BY <1>2 DEF MarkUsed, TypeOK, Row, Live
<1>4. /\ req'[r] = [at |-> "check", record |-> rows'[t]]
      /\ \A q \in Request : q # r => req'[q] = req[q]
  BY <1>2 DEF Become, TypeOK
<1>5. ASSUME NEW q \in Request, Rotates(q, f)'
      PROVE  At(q, "check")' /\ ~InTime(req[q].record)'
  <2>1. CASE q = r
    <3>1. rows'[t].familyId = f
      BY <1>4, <1>5, <2>1 DEF Rotates
    <3>2. t \in FamilyOf(rows, f)
      BY <1>2, <1>3, <3>1 DEF FamilyOf
    <3>3. ~InTime(rows[t])
      BY <1>2, <3>2 DEF Ended
    <3> QED
      BY <1>2, <1>3, <1>4, <2>1, <3>3 DEF At, InTime
  <2>2. CASE q # r
    <3>1. Rotates(q, f) /\ req'[q] = req[q]
      BY <1>4, <1>5, <2>2 DEF Rotates
    <3> QED
      BY <1>2, <3>1 DEF Ended, At, InTime
  <2> QED
    BY <2>1, <2>2
<1>6. FamilyOf(rows', f) = FamilyOf(rows, f)
  BY <1>3 DEF FamilyOf
<1>7. now \in Int /\ now' \in Int /\ now <= now'
  BY <1>2, TimesAssumption DEF TypeOK
<1>8. \A u \in FamilyOf(rows, f) : u \in DOMAIN rows
  BY DEF FamilyOf
<1> QED
  BY <1>3, <1>5, <1>6, <1>7, <1>8, EndedStep

(* An insert is of another session: nobody has signed a token for this. *)
LEMMA EndedInsert ==
  ASSUME TypeOK, NEW f \in Family, Ended(f), NEW r \in Request, NEW t, NEW row,
         t \notin DOMAIN rows, rows' = Insert(rows, t, row), row.familyId # f,
         Become(r, Idle), now' = now
  PROVE  Ended(f)' /\ FamilyOf(rows, f)' = FamilyOf(rows, f)
<1>1. /\ DOMAIN rows' = DOMAIN rows \cup {t}
      /\ rows'[t] = row
      /\ \A u \in DOMAIN rows : rows'[u] = rows[u] /\ rows[u] \in Row
  BY DEF Insert, TypeOK
<1>2. FamilyOf(rows', f) = FamilyOf(rows, f)
  BY <1>1 DEF FamilyOf
<1>3. \A q \in Request : Rotates(q, f)' =>
        At(q, "check")' /\ ~InTime(req[q].record)'
  BY EndedLeaves, IdleLeaves DEF At, InTime
<1>4. now \in Int /\ now' \in Int /\ now <= now'
  BY TimesAssumption DEF TypeOK
<1>5. \A u \in FamilyOf(rows, f) : u \in DOMAIN rows
  BY DEF FamilyOf
<1> QED
  BY <1>1, <1>2, <1>3, <1>4, <1>5, EndedStep

LEMMA EndedSaves ==
  ASSUME TypeOK, Stored, NEW f \in Family, Ended(f), NEW r \in Request,
         NEW t \in Token, SaveNext(r, t) \/ \E g \in Family : SaveFirst(r, t, g)
  PROVE  Ended(f)' /\ FamilyOf(rows, f)' = FamilyOf(rows, f)
<1>1. CASE SaveNext(r, t)
  <2>1. PICK row : /\ rows' = Insert(rows, t, row)
                   /\ row.familyId = req[r].record.familyId
    BY <1>1 DEF SaveNext, Successor, NewRow
  <2>2. req[r].record.familyId # f
    BY <1>1 DEF SaveNext, Ended, Rotates, At
  <2> QED
    BY <1>1, <2>1, <2>2, EndedInsert DEF SaveNext
<1>2. ASSUME NEW g \in Family, SaveFirst(r, t, g)
      PROVE  Ended(f)' /\ FamilyOf(rows, f)' = FamilyOf(rows, f)
  <2>1. PICK row : rows' = Insert(rows, t, row) /\ row.familyId = g
    BY <1>2 DEF SaveFirst, NewRow
  <2>2. g # f
    BY <1>2 DEF SaveFirst, FreshFamily, Ended, FamilyOf
  <2> QED
    BY <1>2, <2>1, <2>2, EndedInsert DEF SaveFirst
<1> QED
  BY <1>1, <1>2

LEMMA NextEnded ==
  ASSUME TypeOK, Stored, [Next]_vars, NEW f \in Family, Ended(f)
  PROVE  Ended(f)' /\ FamilyOf(rows, f)' = FamilyOf(rows, f)
<1>1. now \in Int /\ \A t \in FamilyOf(rows, f) : t \in DOMAIN rows /\ rows[t] \in Row
  BY TimesAssumption DEF TypeOK, FamilyOf
<1>2. ASSUME NEW r \in Request, now' = now,
             rows' = rows \/ \E S : rows' = Revoke(rows, S),
             \A q \in Request : Rotates(q, f)' =>
               At(q, "check") /\ ~InTime(req[q].record) /\ req'[q] = req[q]
      PROVE  Ended(f)' /\ FamilyOf(rows, f)' = FamilyOf(rows, f)
  <2>1. /\ DOMAIN rows' = DOMAIN rows
        /\ \A t \in DOMAIN rows :
             /\ rows'[t].familyId = rows[t].familyId
             /\ Live(rows'[t]) => Live(rows[t])
             /\ rows'[t].expiresAt = rows[t].expiresAt
             /\ rows'[t].sessionExpiresAt = rows[t].sessionExpiresAt
    BY <1>2 DEF Revoke, TypeOK, Row, Live
  <2>2. FamilyOf(rows', f) = FamilyOf(rows, f)
    BY <2>1 DEF FamilyOf
  <2>3. \A q \in Request : Rotates(q, f)' =>
          At(q, "check")' /\ ~InTime(req[q].record)'
    BY <1>2 DEF At, InTime
  <2> QED
    BY <1>1, <1>2, <2>1, <2>2, <2>3, EndedStep
<1>3. ASSUME NEW r \in Request, Start(r)
      PROVE  Ended(f)' /\ FamilyOf(rows, f)' = FamilyOf(rows, f)
  <2>1. PICK h : Become(r, h) /\ h.at \notin RotationLabels
    BY <1>3, StartIs
  <2> QED
    BY <1>2, <1>3, <2>1, StartIs, EndedLeaves
<1>4. ASSUME NEW r \in Request, Reads(r)
      PROVE  Ended(f)' /\ FamilyOf(rows, f)' = FamilyOf(rows, f)
  BY <1>2, <1>4, ReadsIs, EndedReads
<1>5. ASSUME NEW r \in Request, Looks(r) \/ Sets(r)
      PROVE  Ended(f)' /\ FamilyOf(rows, f)' = FamilyOf(rows, f)
  BY <1>2, <1>5, LooksIs, SetsIs, EndedLeaves
<1>6. CASE Tick \/ UNCHANGED vars
  <2>1. /\ rows' = rows /\ req' = req
        /\ now' \in Int /\ now <= now'
    BY <1>1, <1>6 DEF Tick, vars
  <2>2. ASSUME NEW q \in Request, Rotates(q, f)'
        PROVE  At(q, "check")' /\ ~InTime(req[q].record)'
    <3>1. Rotates(q, f)
      BY <2>1, <2>2 DEF Rotates
    <3>2. At(q, "check") /\ ~InTime(req[q].record)
      BY <3>1 DEF Ended
    <3>3. req[q].record \in Row
      BY <3>2, HandlerType DEF TypeOK, At
    <3> QED
      BY <1>1, <2>1, <3>2, <3>3 DEF At, InTime, Row
  <2> QED
    BY <1>1, <2>1, <2>2, EndedStep
<1> QED
  BY <1>3, <1>4, <1>5, <1>6, StepIs, EndedConsume, EndedSaves DEF Next

(* A session that is over gets no token any more, however late a handler   *)
(* reads the clock, signs and stores, with any durations and any number of *)
(* requests.                                                               *)
THEOREM EndedStaysEndedHolds == Spec => EndedStaysEnded
<1> DEFINE Over(f) ==
      Ended(f) => Ended(f)' /\ FamilyOf(rows, f)' = FamilyOf(rows, f)
<1>1. TypeOK /\ Stored /\ [Next]_vars => [\A f \in Family : Over(f)]_vars
  BY NextEnded
<1> QED
  BY <1>1, TypeCorrect, PTL DEF Spec, EndedStaysEnded

-----------------------------------------------------------------------------
(***************************************************************************)
(* The end of a suspended client's sessions.                               *)
(***************************************************************************)

(* The handler is past validateClient, or holds a rotation, for client c. *)
Bears(h, c) ==
  \/ h.at \in LoginLabels /\ h.clientId = c
  \/ h.at \in RotationLabels /\ h.record.clientId = c

LEMMA DrainedMeans ==
  ASSUME NEW c
  PROVE  Drained(c) <=>
           /\ \A t \in DOMAIN rows : rows[t].clientId = c => ~Live(rows[t])
           /\ \A r \in Request : ~Bears(req[r], c)
BY DEF Drained, Bears

(* A step after which its handler bears no session of c, and c has no live *)
(* token that it had not before.                                           *)
LEMMA DrainedStep ==
  ASSUME TypeOK, NEW c \in Client, Drained(c), NEW r \in Request, NEW h,
         Become(r, h), ~Bears(h, c),
         \A t \in DOMAIN rows' : Live(rows'[t]) /\ rows'[t].clientId = c =>
           /\ t \in DOMAIN rows
           /\ Live(rows[t]) /\ rows[t].clientId = c
  PROVE  Drained(c)'
<1>1. /\ req'[r] = h
      /\ \A s \in Request : s # r => req'[s] = req[s]
  BY DEF Become, TypeOK
<1>2. \A s \in Request : ~Bears(req'[s], c)
  BY <1>1, DrainedMeans
<1>3. \A t \in DOMAIN rows' : rows'[t].clientId = c => ~Live(rows'[t])
  BY DEF Drained
<1> QED
  BY <1>2, <1>3 DEF Drained, Bears

LEMMA RevokeDrained ==
  ASSUME TypeOK, NEW c \in Client, Drained(c), NEW r \in Request, NEW h,
         Become(r, h), ~Bears(h, c), NEW S, rows' = Revoke(rows, S)
  PROVE  Drained(c)'
<1>1. \A t \in DOMAIN rows' : Live(rows'[t]) /\ rows'[t].clientId = c =>
        /\ t \in DOMAIN rows
        /\ Live(rows[t]) /\ rows[t].clientId = c
  BY DEF Revoke, TypeOK, Row, Live
<1> QED
  BY <1>1, DrainedStep

LEMMA QuietDrained ==
  ASSUME TypeOK, NEW c \in Client, Drained(c), NEW r \in Request, NEW h,
         Become(r, h), ~Bears(h, c), rows' = rows
  PROVE  Drained(c)'
BY DrainedStep

LEMMA InsertDrained ==
  ASSUME TypeOK, NEW c \in Client, Drained(c), NEW r \in Request, NEW t, NEW row,
         Become(r, Idle), rows' = Insert(rows, t, row), t \notin DOMAIN rows,
         row.clientId # c
  PROVE  Drained(c)'
<1>1. ~Bears(Idle, c)
  BY DEF Bears, Idle
<1>2. \A u \in DOMAIN rows' : Live(rows'[u]) /\ rows'[u].clientId = c =>
        /\ u \in DOMAIN rows
        /\ Live(rows[u]) /\ rows[u].clientId = c
  BY DEF Insert
<1> QED
  BY <1>1, <1>2, DrainedStep

(* Only the handlers of a login go on with it. *)
LEMMA LooksOutside ==
  ASSUME NEW r \in Request, Looks(r), ~(ExchangeSign(r) \/ ExchangeLimit(r))
  PROVE  \E h : Become(r, h) /\ h.at \notin RotationLabels \cup LoginLabels
<1>1. Idle.at \notin RotationLabels \cup LoginLabels
  BY DEF Idle
<1>2. CASE Lookup(r)
  <2>1. PICK f : f = rows[req[r].token].familyId
    OBVIOUS
  <2>2. PICK h : h = [at |-> "revoke", familyId |-> f]
    OBVIOUS
  <2>3. Become(r, h) \/ Become(r, Idle)
    BY <1>2, <2>1, <2>2 DEF Lookup
  <2>4. h.at \notin RotationLabels \cup LoginLabels
    BY <2>2
  <2> QED
    BY <1>1, <2>3, <2>4
<1>3. CASE SuspendSave(r) \/ ActivateSave(r) \/ Abort(r)
  BY <1>1, <1>3 DEF SuspendSave, ActivateSave, Abort
<1>4. CASE ConsumeLose(r) \/ CheckExpired(r)
  BY <1>4 DEF ConsumeLose, CheckExpired
<1>5. CASE RevokeSession(r) \/ SuspendRevoke(r) \/ RemoveUpdate(r) \/ RemoveLock(r)
  BY <1>5 DEF RevokeSession, SuspendRevoke, RemoveUpdate, RemoveLock
<1> QED
  BY <1>2, <1>3, <1>4, <1>5 DEF Looks

LEMMA HandlerDrained ==
  ASSUME TypeOK, Stored, NEW c \in Client, Drained(c), client[c] # "active",
         NEW r \in Request, Start(r) \/ Resume(r) \/ Abort(r)
  PROVE  Drained(c)'
<1>1. ~Bears(req[r], c)
  BY DrainedMeans
<1>2. CASE Start(r)
  <2>1. rows' = rows
    BY <1>2, StartIs
  <2>2. ASSUME NEW d \in Client, ExchangeValidate(r, d)
        PROVE  \E h : Become(r, h) /\ ~Bears(h, c)
    <3>1. d # c
      BY <2>2 DEF ExchangeValidate
    <3>2. ~Bears([at |-> "exchange", clientId |-> d], c)
      BY <3>1 DEF Bears
    <3> QED
      BY <2>2, <3>2 DEF ExchangeValidate
  <2>3. ASSUME NEW d \in Client,
               NEW label \in {"suspend", "activateSave", "remove"},
               ClientFind(r, d, label)
        PROVE  \E h : Become(r, h) /\ ~Bears(h, c)
    <3>1. ~Bears([at |-> label, clientId |-> d], c)
      BY DEF Bears
    <3> QED
      BY <2>3, <3>1 DEF ClientFind
  <2>4. ASSUME NEW t \in Token, RefreshVerify(r, t) \/ LogoutFind(r, t)
        PROVE  \E h : Become(r, h) /\ ~Bears(h, c)
    <3>1. /\ ~Bears([at |-> "consume", token |-> t], c)
          /\ ~Bears([at |-> "revoke", familyId |-> rows[t].familyId], c)
      BY DEF Bears
    <3> QED
      BY <2>4, <3>1 DEF RefreshVerify, LogoutFind
  <2> QED
    BY <1>2, <2>1, <2>2, <2>3, <2>4, QuietDrained DEF Start
<1>3. CASE Reads(r)
  <2>1. PICK h : /\ Become(r, h) /\ h.at \in RotationLabels
                 /\ h.record = req[r].record
    BY <1>3, ReadsIs
  <2>2. req[r].at \in RotationLabels /\ rows' = rows
    BY <1>3, ReadsIs
  <2>3. ~Bears(h, c)
    BY <1>1, <2>1, <2>2 DEF Bears
  <2> QED
    BY <2>1, <2>2, <2>3, QuietDrained
<1>4. CASE Looks(r)
  <2>1. PICK h : /\ Become(r, h) /\ h.at \notin RotationLabels
                 /\ h.at \in LoginLabels =>
                      req[r].at \in LoginLabels /\ h.clientId = req[r].clientId
    <3>1. CASE ExchangeSign(r) \/ ExchangeLimit(r)
      BY <3>1 DEF ExchangeSign, ExchangeLimit, At
    <3>2. CASE ~(ExchangeSign(r) \/ ExchangeLimit(r))
      BY <1>4, <3>2, LooksOutside
    <3> QED
      BY <3>1, <3>2
  <2>2. ~Bears(h, c)
    BY <1>1, <2>1 DEF Bears
  <2> QED
    BY <1>4, <2>1, <2>2, LooksIs, QuietDrained
<1>5. CASE Sets(r)
  <2>1. PICK h : Become(r, h) /\ h.at \notin RotationLabels \cup LoginLabels
    BY <1>5, SetsIs
  <2>2. ~Bears(h, c)
    BY <2>1 DEF Bears
  <2> QED
    BY <1>5, <2>1, <2>2, SetsIs, RevokeDrained
<1>8. ASSUME NEW t \in Token, NEW f \in Family, SaveFirst(r, t, f)
      PROVE  Drained(c)'
  <2>1. PICK row : /\ rows' = Insert(rows, t, row)
                   /\ row.clientId = req[r].clientId
    BY <1>8 DEF SaveFirst, NewRow
  <2>2. row.clientId # c
    BY <1>1, <1>8, <2>1 DEF SaveFirst, At, Bears
  <2> QED
    BY <1>8, <2>1, <2>2, InsertDrained DEF SaveFirst
<1>9. CASE ConsumeWin(r)
  <2>1. PICK t : t = req[r].token
    OBVIOUS
  <2>2. /\ t \in DOMAIN rows /\ Live(rows[t]) /\ rows' = MarkUsed(rows, t)
        /\ Become(r, [at |-> "check", record |-> rows'[t]])
    BY <1>9, <2>1 DEF ConsumeWin, Stored, Consumable, Live
  <2>3. rows[t].clientId # c
    BY <2>2 DEF Drained
  <2>4. rows'[t].clientId = rows[t].clientId
    BY <2>2 DEF MarkUsed, TypeOK, Row
  <2>5. PICK h : h = [at |-> "check", record |-> rows'[t]]
    OBVIOUS
  <2>6. ~Bears(h, c)
    BY <2>3, <2>4, <2>5 DEF Bears
  <2>7. \A u \in DOMAIN rows' : Live(rows'[u]) /\ rows'[u].clientId = c =>
          /\ u \in DOMAIN rows
          /\ Live(rows[u]) /\ rows[u].clientId = c
    BY <2>2, <2>3, <2>4 DEF MarkUsed, TypeOK
  <2> QED
    BY <2>2, <2>5, <2>6, <2>7, DrainedStep
<1>14. ASSUME NEW t \in Token, SaveNext(r, t)
       PROVE  Drained(c)'
  <2>1. PICK row : /\ rows' = Insert(rows, t, row)
                   /\ row.clientId = req[r].record.clientId
    BY <1>14 DEF SaveNext, Successor, NewRow
  <2>2. row.clientId # c
    BY <1>1, <1>14, <2>1 DEF SaveNext, At, Bears
  <2> QED
    BY <1>14, <2>1, <2>2, InsertDrained DEF SaveNext
<1> QED
  BY <1>2, <1>3, <1>4, <1>5, <1>8, <1>9, <1>14, StepIs

LEMMA NextDrained ==
  ASSUME TypeOK, Stored, [Next]_vars, NEW c \in Client,
         client[c] # "active", Drained(c)
  PROVE  Drained(c)'
<1>1. CASE Tick \/ UNCHANGED vars
  <2>1. rows' = rows /\ req' = req
    BY <1>1 DEF Tick, vars
  <2> QED
    BY <2>1 DEF Drained
<1> QED
  BY <1>1, HandlerDrained DEF Next

(* Once what overlapped a suspension is over, a client that is not active  *)
(* gets no session, with any number of clients, sessions and requests.     *)
THEOREM SuspensionHolds == Spec => SuspensionHoldsOnceDrained
<1> DEFINE Holds(c) ==
      client[c] # "active" /\ Drained(c) /\ client'[c] # "active" => Drained(c)'
<1>1. TypeOK /\ Stored /\ [Next]_vars =>
        [\A c \in Client : Holds(c)]_vars
  BY NextDrained
<1> QED
  BY <1>1, TypeCorrect, PTL DEF Spec, SuspensionHoldsOnceDrained

-----------------------------------------------------------------------------
(***************************************************************************)
(* The two claims about revocation that the code does not keep, and where  *)
(* they hold.  Both fail in one window: a rotation (or a login) holds the  *)
(* session while the statement that revokes it runs, and inserts its next  *)
(* token after.  Outside that window the code keeps its word.              *)
(***************************************************************************)

(* Request s is about to revoke session f, or revoking it: on reuse,       *)
(* expiry or logout, or with all the sessions of its client.               *)
Revokes(s, f) ==
  \/ At(s, "revoke") /\ req[s].familyId = f
  \/ /\ At(s, "suspend") \/ At(s, "remove")
     /\ \E t \in FamilyOf(rows, f) : rows[t].clientId = req[s].clientId
  \/ req[s].at \in RevokingLabels /\ req[s].tokens \cap FamilyOf(rows, f) # {}

(* No session is revoked while a request rotates it. *)
RotationsAlone ==
  \A f \in Family : \A r, s \in Request : ~(Rotates(r, f) /\ Revokes(s, f))

RevokedIn(f) == \E t \in FamilyOf(rows, f) : rows[t].revoked

(* A session with a revoked token has no live one, and none on its way. *)
DeadOnceRevoked ==
  \A f \in Family :
    RevokedIn(f) => LiveIn(f) = {} /\ \A r \in Request : ~Rotates(r, f)

(* A step that revokes, revives and rotates nothing of session f. *)
LEMMA StaysDead ==
  ASSUME DeadOnceRevoked, NEW f \in Family,
         RevokedIn(f)' => RevokedIn(f), LiveIn(f)' \subseteq LiveIn(f),
         \A r \in Request : Rotates(r, f)' => Rotates(r, f)
  PROVE  RevokedIn(f)' => LiveIn(f)' = {} /\ \A r \in Request : ~Rotates(r, f)'
BY DEF DeadOnceRevoked

LEMMA SameRowsDead ==
  ASSUME DeadOnceRevoked, NoNewBearer, rows' = rows
  PROVE  DeadOnceRevoked'
<1>1. ASSUME NEW f \in Family
      PROVE  /\ RevokedIn(f)' <=> RevokedIn(f)
             /\ LiveIn(f)' = LiveIn(f)
             /\ \A r \in Request : Rotates(r, f)' => Rotates(r, f)
  BY DEF NoNewBearer, RevokedIn, LiveIn, FamilyOf
<1> QED
  BY <1>1, StaysDead DEF DeadOnceRevoked

(* A statement that revokes rows of a session, if any, revokes them all,   *)
(* and no request that overlaps it rotates that session.                   *)
LEMMA RevokeDead ==
  ASSUME TypeOK, DeadOnceRevoked, NoNewBearer, NEW S, rows' = Revoke(rows, S),
         \A f \in Family : \A t \in FamilyOf(rows, f) : t \in S =>
           /\ \A u \in FamilyOf(rows, f) : u \in S \/ rows[u].revoked
           /\ \A r \in Request : ~Rotates(r, f)
  PROVE  DeadOnceRevoked'
<1>1. /\ DOMAIN rows' = DOMAIN rows
      /\ \A t \in DOMAIN rows :
           /\ rows'[t].familyId = rows[t].familyId
           /\ rows'[t].used = rows[t].used
           /\ rows'[t].revoked <=> t \in S \/ rows[t].revoked
  BY DEF TypeOK, Revoke, Row
<1>2. ASSUME NEW f \in Family
      PROVE  RevokedIn(f)' => LiveIn(f)' = {} /\ \A r \in Request : ~Rotates(r, f)'
  <2>1. /\ FamilyOf(rows', f) = FamilyOf(rows, f)
        /\ LiveIn(f)' \subseteq LiveIn(f)
    BY <1>1 DEF FamilyOf, LiveIn, Live
  <2>2. \A r \in Request : Rotates(r, f)' => Rotates(r, f)
    BY DEF NoNewBearer
  <2>3. CASE \E t \in FamilyOf(rows, f) : t \in S
    <3>1. /\ \A u \in FamilyOf(rows, f) : u \in S \/ rows[u].revoked
          /\ \A r \in Request : ~Rotates(r, f)
      BY <2>3
    <3>2. LiveIn(f)' = {}
      BY <1>1, <2>1, <3>1 DEF LiveIn, Live, FamilyOf
    <3> QED
      BY <2>2, <3>1, <3>2
  <2>4. CASE \A t \in FamilyOf(rows, f) : t \notin S
    <3>1. RevokedIn(f)' => RevokedIn(f)
      BY <1>1, <2>1, <2>4 DEF RevokedIn, FamilyOf
    <3> QED
      BY <2>1, <2>2, <3>1, StaysDead
  <2> QED
    BY <2>3, <2>4
<1> QED
  BY <1>2 DEF DeadOnceRevoked

(* Of the sessions it has found tokens of, a statement that revokes has    *)
(* found all that are not revoked.                                         *)
WholeFor(h) ==
  h.at \in RevokingLabels => \A f \in Family :
    h.tokens \cap FamilyOf(rows, f) # {} =>
      \A u \in FamilyOf(rows, f) : u \in h.tokens \/ rows[u].revoked

Whole == \A s \in Request : WholeFor(req[s])

LEMMA SetsDead ==
  ASSUME TypeOK, DeadOnceRevoked, RotationsAlone, Whole, NEW r \in Request, Sets(r)
  PROVE  DeadOnceRevoked'
<1>1. rows' = Revoke(rows, req[r].tokens) /\ req[r].at \in RevokingLabels
  BY SetsIs DEF RevokingLabels
<1>2. ASSUME NEW f \in Family, NEW t \in FamilyOf(rows, f), t \in req[r].tokens
      PROVE  /\ \A u \in FamilyOf(rows, f) : u \in req[r].tokens \/ rows[u].revoked
             /\ \A s \in Request : ~Rotates(s, f)
  BY <1>1, <1>2 DEF Whole, WholeFor, RotationsAlone, Revokes
<1>3. NoNewBearer
  BY PlainResumeLinear
<1> QED
  BY <1>1, <1>2, <1>3, RevokeDead

LEMMA ConsumeWinDead ==
  ASSUME TypeOK, Stored, DeadOnceRevoked, NEW r \in Request, ConsumeWin(r)
  PROVE  DeadOnceRevoked'
<1>1. PICK t : t = req[r].token
  OBVIOUS
<1>2. PICK g : g = rows[t].familyId
  OBVIOUS
<1>3. /\ t \in DOMAIN rows /\ Live(rows[t])
      /\ rows' = MarkUsed(rows, t)
      /\ Become(r, [at |-> "check", record |-> rows'[t]])
  BY <1>1 DEF ConsumeWin, Stored, Consumable, Live
<1>4. /\ DOMAIN rows' = DOMAIN rows
      /\ rows'[t].used
      /\ \A u \in DOMAIN rows : /\ rows'[u].familyId = rows[u].familyId
                                /\ rows'[u].revoked = rows[u].revoked
                                /\ u # t => rows'[u] = rows[u]
  BY <1>3 DEF MarkUsed, TypeOK, Row
<1>5. g \in Family /\ ~RevokedIn(g)
  BY <1>2, <1>3 DEF DeadOnceRevoked, LiveIn, FamilyOf, TypeOK, Row
<1>6. ASSUME NEW f \in Family
      PROVE  /\ RevokedIn(f)' <=> RevokedIn(f)
             /\ LiveIn(f)' \subseteq LiveIn(f)
  BY <1>4 DEF RevokedIn, LiveIn, Live, FamilyOf
<1>7. ASSUME NEW f \in Family, f # g, NEW s \in Request, Rotates(s, f)'
      PROVE  Rotates(s, f)
  <2>1. s # r
    BY <1>2, <1>3, <1>4, <1>7 DEF Become, Rotates, At, TypeOK
  <2> QED
    BY <1>3, <1>7, <2>1, OthersRotate
<1>8. ASSUME NEW f \in Family
      PROVE  RevokedIn(f)' => LiveIn(f)' = {} /\ \A s \in Request : ~Rotates(s, f)'
  <2>1. CASE f = g
    BY <1>5, <1>6, <2>1
  <2>2. CASE f # g
    BY <1>6, <1>7, <2>2, StaysDead
  <2> QED
    BY <2>1, <2>2
<1> QED
  BY <1>8 DEF DeadOnceRevoked

(* A new token, not revoked, for a session that has no revoked one. *)
LEMMA InsertDead ==
  ASSUME TypeOK, DeadOnceRevoked, NEW r \in Request, Become(r, Idle),
         NEW t, NEW row, t \notin DOMAIN rows, rows' = Insert(rows, t, row),
         ~row.revoked, ~RevokedIn(row.familyId)
  PROVE  DeadOnceRevoked'
<1>1. /\ DOMAIN rows' = DOMAIN rows \cup {t}
      /\ rows'[t] = row
      /\ \A u \in DOMAIN rows : rows'[u] = rows[u]
  BY DEF Insert
<1>2. ASSUME NEW f \in Family
      PROVE  RevokedIn(f)' => LiveIn(f)' = {} /\ \A s \in Request : ~Rotates(s, f)'
  <2>1. RevokedIn(f)' => RevokedIn(f)
    BY <1>1 DEF RevokedIn, FamilyOf
  <2>2. CASE f = row.familyId
    BY <2>1, <2>2
  <2>3. CASE f # row.familyId
    <3>1. LiveIn(f)' \subseteq LiveIn(f)
      BY <1>1, <2>3 DEF LiveIn, Live, FamilyOf
    <3>2. \A s \in Request : Rotates(s, f)' => Rotates(s, f)
      BY LeaveRotation, IdleLeaves
    <3> QED
      BY <2>1, <3>1, <3>2, StaysDead
  <2> QED
    BY <2>2, <2>3
<1> QED
  BY <1>2 DEF DeadOnceRevoked

LEMMA SaveDead ==
  ASSUME TypeOK, DeadOnceRevoked, NEW r \in Request, NEW t \in Token,
         SaveNext(r, t) \/ \E f \in Family : SaveFirst(r, t, f)
  PROVE  DeadOnceRevoked'
<1>1. CASE SaveNext(r, t)
  <2>1. PICK row : /\ rows' = Insert(rows, t, row)
                   /\ row.familyId = req[r].record.familyId /\ ~row.revoked
    BY <1>1 DEF SaveNext, Successor, NewRow
  <2>2. Rotates(r, row.familyId) /\ row.familyId \in Family
    BY <1>1, <2>1, HandlerType DEF SaveNext, Rotates, At, Row, TypeOK
  <2>3. ~RevokedIn(row.familyId)
    BY <2>2 DEF DeadOnceRevoked
  <2> QED
    BY <1>1, <2>1, <2>3, InsertDead DEF SaveNext
<1>2. ASSUME NEW f \in Family, SaveFirst(r, t, f)
      PROVE  DeadOnceRevoked'
  <2>1. PICK row : /\ rows' = Insert(rows, t, row)
                   /\ row.familyId = f /\ ~row.revoked
    BY <1>2 DEF SaveFirst, NewRow
  <2>2. ~RevokedIn(row.familyId)
    BY <1>2, <2>1 DEF SaveFirst, FreshFamily, RevokedIn, FamilyOf
  <2> QED
    BY <1>2, <2>1, <2>2, InsertDead DEF SaveFirst
<1> QED
  BY <1>1, <1>2

(* The statements that are waiting keep what they have found, as long as   *)
(* no token is added to the sessions they have found tokens of.            *)
LEMMA KeepsWhole ==
  ASSUME TypeOK, Stored, Whole, NEW r \in Request, NEW h, Become(r, h),
         DOMAIN rows \subseteq DOMAIN rows',
         \A t \in DOMAIN rows : /\ rows'[t].familyId = rows[t].familyId
                               /\ rows[t].revoked => rows'[t].revoked,
         \A f \in Family : FamilyOf(rows', f) = FamilyOf(rows, f)
           \/ \A s \in Request : req[s].at \in RevokingLabels =>
                req[s].tokens \cap FamilyOf(rows', f) = {},
         WholeFor(h)'
  PROVE  Whole'
<1>1. /\ req'[r] = h
      /\ \A s \in Request : s # r => req'[s] = req[s]
  BY DEF Become, TypeOK
<1>2. \A f : FamilyOf(rows, f)' = FamilyOf(rows', f)
  BY DEF FamilyOf
<1>3. ASSUME NEW s \in Request, s # r
      PROVE  WholeFor(req[s])'
  <2> SUFFICES ASSUME req[s].at \in RevokingLabels, NEW f \in Family,
                      req[s].tokens \cap FamilyOf(rows', f) # {},
                      NEW u \in FamilyOf(rows', f)
               PROVE  u \in req[s].tokens \/ rows'[u].revoked
    BY <1>1, <1>2, <1>3 DEF WholeFor
  <2>1. FamilyOf(rows', f) = FamilyOf(rows, f)
    OBVIOUS
  <2>2. u \in req[s].tokens \/ rows[u].revoked
    BY <2>1 DEF Whole, WholeFor
  <2> QED
    BY <2>1, <2>2 DEF FamilyOf
<1>4. WholeFor(req[r])'
  BY <1>1 DEF WholeFor
<1> QED
  BY <1>3, <1>4 DEF Whole

(* What the statements find when they begin, and when a removal's has      *)
(* waited: an application's sessions are its own, whole (FamilyUniform).   *)
LEMMA FindsWhole ==
  ASSUME TypeOK, Stored, FamilyUniform, Whole, NEW r \in Request, NEW h,
         Become(r, h), rows' = rows,
         \/ RevokeSession(r) \/ SuspendRevoke(r) \/ RemoveUpdate(r) \/ RemoveLock(r)
  PROVE  WholeFor(h)
<1> SUFFICES ASSUME NEW f \in Family, NEW t \in h.tokens \cap FamilyOf(rows, f),
                    NEW u \in FamilyOf(rows, f)
             PROVE  u \in h.tokens \/ rows[u].revoked
  BY DEF WholeFor
<1>1. req'[r] = h
  BY DEF Become, TypeOK
<1>2. CASE RevokeSession(r)
  <2>1. PICK g : g = req[r].familyId
    OBVIOUS
  <2>2. h.tokens = FamilyOf(rows, g)
    BY <1>1, <1>2, <2>1 DEF RevokeSession, Become, TypeOK
  <2> QED
    BY <2>2 DEF FamilyOf
<1>3. CASE SuspendRevoke(r) \/ RemoveUpdate(r)
  <2>1. PICK c : c = req[r].clientId
    OBVIOUS
  <2>2. h.tokens = Unrevoked(c)
    BY <1>1, <1>3, <2>1 DEF SuspendRevoke, RemoveUpdate, Become, TypeOK
  <2>3. rows[t].clientId = c /\ t \in DOMAIN rows /\ rows[t].familyId = f
    BY <2>2 DEF Unrevoked, FamilyOf
  <2>4. rows[u].clientId = c /\ u \in DOMAIN rows
    BY <2>3 DEF FamilyUniform, SameOrigin, FamilyOf
  <2> QED
    BY <2>2, <2>4 DEF Unrevoked
<1>4. CASE RemoveLock(r)
  <2>1. /\ h.tokens = {v \in req[r].tokens : ~rows[v].revoked}
        /\ req[r].at \in RevokingLabels
    BY <1>1, <1>4 DEF RemoveLock, Become, TypeOK, At, RevokingLabels
  <2>2. u \in req[r].tokens \/ rows[u].revoked
    BY <2>1 DEF Whole, WholeFor
  <2> QED
    BY <2>1, <2>2
<1> QED
  BY <1>2, <1>3, <1>4

LEMMA StartWhole ==
  ASSUME TypeOK, Stored, Whole, NEW r \in Request, Start(r)
  PROVE  Whole'
<1>1. PICK h : Become(r, h) /\ h.at \notin RevokingLabels
  BY StartIs
<1>2. rows' = rows
  BY StartIs
<1>3. WholeFor(h)'
  BY <1>1 DEF WholeFor
<1> QED
  BY <1>1, <1>2, <1>3, KeepsWhole

LEMMA ResumeWhole ==
  ASSUME TypeOK, Stored, FamilyUniform, Whole, NEW r \in Request,
         Reads(r) \/ Looks(r) \/ Sets(r) \/ ConsumeWin(r)
  PROVE  Whole'
<1>1. CASE RevokeSession(r) \/ SuspendRevoke(r) \/ RemoveUpdate(r) \/ RemoveLock(r)
  <2>1. PICK h : Become(r, h)
    BY <1>1 DEF RevokeSession, SuspendRevoke, RemoveUpdate, RemoveLock
  <2>2. rows' = rows
    BY <1>1 DEF RevokeSession, SuspendRevoke, RemoveUpdate, RemoveLock
  <2>3. WholeFor(h)'
    BY <1>1, <2>1, <2>2, FindsWhole DEF WholeFor
  <2> QED
    BY <2>1, <2>2, <2>3, KeepsWhole
<1>2. CASE ConsumeWin(r)
  <2>1. PICK h : Become(r, h) /\ h.at = "check"
    BY <1>2 DEF ConsumeWin
  <2>2. /\ DOMAIN rows' = DOMAIN rows
        /\ \A t \in DOMAIN rows : /\ rows'[t].familyId = rows[t].familyId
                                  /\ rows[t].revoked => rows'[t].revoked
    BY <1>2 DEF ConsumeWin, Stored, MarkUsed, TypeOK, Row
  <2>3. \A f : FamilyOf(rows', f) = FamilyOf(rows, f)
    BY <2>2 DEF FamilyOf
  <2>4. WholeFor(h)'
    BY <2>1 DEF WholeFor, RevokingLabels
  <2> QED
    BY <2>1, <2>2, <2>3, <2>4, KeepsWhole
<1>3. CASE Sets(r)
  <2>1. PICK h : Become(r, h) /\ h.at \notin RevokingLabels
    BY <1>3 DEF Sets, RevokeRows, SuspendRows, RemoveCommit, Idle, RevokingLabels
  <2>2. /\ DOMAIN rows' = DOMAIN rows
        /\ \A t \in DOMAIN rows : /\ rows'[t].familyId = rows[t].familyId
                                  /\ rows[t].revoked => rows'[t].revoked
    BY <1>3, SetsIs DEF Revoke, TypeOK, Row
  <2>3. \A f : FamilyOf(rows', f) = FamilyOf(rows, f)
    BY <2>2 DEF FamilyOf
  <2>4. WholeFor(h)'
    BY <2>1 DEF WholeFor
  <2> QED
    BY <2>1, <2>2, <2>3, <2>4, KeepsWhole
<1>4. CASE Reads(r)
  <2>1. PICK h : Become(r, h) /\ h.at \in RotationLabels
    BY <1>4, ReadsIs
  <2>2. WholeFor(h)' /\ rows' = rows
    BY <1>4, <2>1, ReadsIs DEF WholeFor, RevokingLabels
  <2> QED
    BY <2>1, <2>2, KeepsWhole
<1>5. CASE /\ Looks(r)
           /\ ~(RevokeSession(r) \/ SuspendRevoke(r) \/ RemoveUpdate(r) \/ RemoveLock(r))
  <2>1. PICK h : Become(r, h) /\ h.at \notin RevokingLabels
    <3>1. Idle.at \notin RevokingLabels
      BY DEF Idle, RevokingLabels
    <3>2. CASE Lookup(r)
      <4>1. PICK f : f = rows[req[r].token].familyId
        OBVIOUS
      <4>2. PICK g : g = [at |-> "revoke", familyId |-> f]
        OBVIOUS
      <4>3. Become(r, g) \/ Become(r, Idle)
        BY <3>2, <4>1, <4>2 DEF Lookup
      <4>4. g.at \notin RevokingLabels
        BY <4>2 DEF RevokingLabels
      <4> QED
        BY <3>1, <4>3, <4>4
    <3>3. CASE SuspendSave(r) \/ ActivateSave(r) \/ Abort(r)
      BY <3>1, <3>3 DEF SuspendSave, ActivateSave, Abort
    <3>4. CASE ExchangeSign(r) \/ ExchangeLimit(r) \/ ConsumeLose(r) \/ CheckExpired(r)
      BY <3>4 DEF ExchangeSign, ExchangeLimit, ConsumeLose, CheckExpired, RevokingLabels
    <3> QED
      BY <1>5, <3>2, <3>3, <3>4 DEF Looks
  <2>2. WholeFor(h)' /\ rows' = rows
    BY <1>5, <2>1, LooksIs DEF WholeFor
  <2> QED
    BY <2>1, <2>2, KeepsWhole
<1> QED
  BY <1>1, <1>2, <1>3, <1>4, <1>5

(* A new token goes to a session nobody is revoking: the rotation it ends  *)
(* is alone, or the session is new.                                        *)
LEMMA SaveWhole ==
  ASSUME TypeOK, Stored, Whole, RotationsAlone, NEW r \in Request, NEW t \in Token,
         SaveNext(r, t) \/ \E f \in Family : SaveFirst(r, t, f)
  PROVE  Whole'
<1>1. PICK row : /\ rows' = Insert(rows, t, row) /\ t \notin DOMAIN rows
                 /\ Become(r, Idle)
                 /\ \/ Rotates(r, row.familyId)
                    \/ FamilyOf(rows, row.familyId) = {}
  <2>1. CASE SaveNext(r, t)
    <3>1. PICK row : /\ rows' = Insert(rows, t, row)
                     /\ row.familyId = req[r].record.familyId
      BY <2>1 DEF SaveNext, Successor, NewRow
    <3> QED
      BY <2>1, <3>1 DEF SaveNext, Rotates, At
  <2>2. ASSUME NEW f \in Family, SaveFirst(r, t, f)
        PROVE  \E row : /\ rows' = Insert(rows, t, row) /\ t \notin DOMAIN rows
                       /\ Become(r, Idle)
                       /\ FamilyOf(rows, row.familyId) = {}
    <3>1. PICK row : rows' = Insert(rows, t, row) /\ row.familyId = f
      BY <2>2 DEF SaveFirst, NewRow
    <3>2. FamilyOf(rows, f) = {}
      BY <2>2 DEF SaveFirst, FreshFamily, FamilyOf
    <3> QED
      BY <2>2, <3>1, <3>2 DEF SaveFirst
  <2> QED
    BY <2>1, <2>2
<1>2. /\ DOMAIN rows' = DOMAIN rows \cup {t}
      /\ rows'[t] = row
      /\ \A u \in DOMAIN rows : rows'[u] = rows[u]
  BY <1>1 DEF Insert
<1>3. ASSUME NEW f \in Family, NEW s \in Request, req[s].at \in RevokingLabels,
             FamilyOf(rows', f) # FamilyOf(rows, f)
      PROVE  req[s].tokens \cap FamilyOf(rows', f) = {}
  <2>1. f = row.familyId /\ FamilyOf(rows', f) = FamilyOf(rows, f) \cup {t}
    BY <1>2, <1>3 DEF FamilyOf
  <2>2. t \notin req[s].tokens
    BY <1>1, <1>3 DEF Stored
  <2>3. req[s].tokens \cap FamilyOf(rows, f) = {}
    BY <1>1, <1>3, <2>1 DEF RotationsAlone, Revokes
  <2> QED
    BY <2>1, <2>2, <2>3
<1>4. WholeFor(Idle)'
  BY DEF WholeFor, Idle, RevokingLabels
<1> QED
  BY <1>1, <1>2, <1>3, <1>4, KeepsWhole

LEMMA NextDead ==
  TypeOK /\ Stored /\ FamilyUniform /\ DeadOnceRevoked /\ Whole /\ RotationsAlone
    /\ [Next]_vars => DeadOnceRevoked' /\ Whole'
<1> SUFFICES ASSUME TypeOK, Stored, FamilyUniform, DeadOnceRevoked, Whole,
                    RotationsAlone, [Next]_vars
             PROVE  DeadOnceRevoked' /\ Whole'
  OBVIOUS
<1>1. ASSUME NEW r \in Request, Start(r)
      PROVE  DeadOnceRevoked' /\ Whole'
  BY <1>1, StartIs, StartLinear, SameRowsDead, StartWhole
<1>2. ASSUME NEW r \in Request, Reads(r) \/ Looks(r)
      PROVE  DeadOnceRevoked' /\ Whole'
  BY <1>2, ReadsIs, LooksIs, PlainResumeLinear, SameRowsDead, ResumeWhole
<1>3. ASSUME NEW r \in Request, Sets(r) \/ ConsumeWin(r)
      PROVE  DeadOnceRevoked' /\ Whole'
  BY <1>3, SetsDead, ConsumeWinDead, ResumeWhole
<1>4. CASE Tick \/ UNCHANGED vars
  <2>1. rows' = rows /\ req' = req
    BY <1>4 DEF Tick, vars
  <2>2. NoNewBearer
    BY <2>1 DEF NoNewBearer, Rotates
  <2>3. Whole'
    BY <2>1 DEF Whole, WholeFor
  <2> QED
    BY <2>1, <2>2, <2>3, SameRowsDead
<1> QED
  BY <1>1, <1>2, <1>3, <1>4, StepIs, SaveDead, SaveWhole DEF Next

(* Reuse, logout, expiry, a suspension and a removal end a session for     *)
(* good, whatever the interleaving, as long as no revocation overlaps a    *)
(* rotation of the same session.                                           *)
THEOREM RevokedSessionIsDeadWhenAlone ==
  Spec /\ []RotationsAlone => []RevokedSessionIsDead
<1>1. Init => DeadOnceRevoked /\ Whole
  BY DEF Init, DeadOnceRevoked, RevokedIn, FamilyOf, Whole, WholeFor, Idle,
         RevokingLabels
<1>2. TypeOK /\ DeadOnceRevoked => RevokedSessionIsDead
  BY DEF TypeOK, Row, DeadOnceRevoked, RevokedIn, LiveIn, FamilyOf,
         RevokedSessionIsDead
<1> QED
  BY <1>1, <1>2, TypeCorrect, FamilyUniformHolds, NextDead, PTL DEF Spec

-----------------------------------------------------------------------------
(* Suspension: from the statement that revokes to the save that suspends,  *)
(* no request is past validateClient, or rotates, for the client.          *)
Suspends(s, c) ==
  req[s].at \in {"suspendRows", "suspendSave"} /\ req[s].clientId = c

SuspensionsAlone ==
  \A c \in Client : \A r, s \in Request : Suspends(s, c) => ~Bears(req[r], c)

NoLive(c) == \A t \in DOMAIN rows : rows[t].clientId = c => ~Live(rows[t])

(* The statement has found each live token of c. *)
Found(h, c) ==
  \A t \in DOMAIN rows : rows[t].clientId = c /\ Live(rows[t]) => t \in h.tokens

EmptiedBy(h, c) ==
  h.at \in {"suspendRows", "suspendSave"} /\ h.clientId = c =>
    IF h.at = "suspendRows" THEN Found(h, c) ELSE NoLive(c)

Emptied ==
  \A c \in Client :
    /\ client[c] = "suspended" => Drained(c)
    /\ \A s \in Request : EmptiedBy(req[s], c)

(* Only a request that bears a session of c gives it a live token. *)
LEMMA NoNewLive ==
  ASSUME TypeOK, Stored, [Next]_vars, NEW c \in Client,
         \A r \in Request : ~Bears(req[r], c)
  PROVE  \A t \in DOMAIN rows' : rows'[t].clientId = c /\ Live(rows'[t]) =>
           t \in DOMAIN rows /\ rows[t].clientId = c /\ Live(rows[t])
<1> DEFINE Goal == \A t \in DOMAIN rows' : rows'[t].clientId = c /\ Live(rows'[t]) =>
                     t \in DOMAIN rows /\ rows[t].clientId = c /\ Live(rows[t])
<1>1. ASSUME rows' = rows \/ \E S : rows' = Revoke(rows, S)
      PROVE  Goal
  BY <1>1 DEF Revoke, TypeOK, Row, Live
<1>2. ASSUME NEW r \in Request, ConsumeWin(r)
      PROVE  Goal
  BY <1>2 DEF ConsumeWin, Stored, MarkUsed, Live, TypeOK, Row
<1>3. ASSUME NEW r \in Request, NEW t \in Token,
             SaveNext(r, t) \/ \E f \in Family : SaveFirst(r, t, f)
      PROVE  Goal
  <2>1. ASSUME NEW row, rows' = Insert(rows, t, row), row.clientId # c
        PROVE  Goal
    BY <2>1 DEF Insert
  <2>2. ~Bears(req[r], c)
    OBVIOUS
  <2>3. CASE SaveNext(r, t)
    <3>1. PICK row : /\ rows' = Insert(rows, t, row)
                     /\ row.clientId = req[r].record.clientId
      BY <2>3 DEF SaveNext, Successor, NewRow
    <3>2. row.clientId # c
      BY <2>2, <2>3, <3>1 DEF SaveNext, At, Bears
    <3> QED
      BY <2>1, <3>1, <3>2
  <2>4. ASSUME NEW f \in Family, SaveFirst(r, t, f)
        PROVE  Goal
    <3>1. PICK row : /\ rows' = Insert(rows, t, row)
                     /\ row.clientId = req[r].clientId
      BY <2>4 DEF SaveFirst, NewRow
    <3>2. row.clientId # c
      BY <2>2, <2>4, <3>1 DEF SaveFirst, At, Bears
    <3> QED
      BY <2>1, <3>1, <3>2
  <2> QED
    BY <1>3, <2>3, <2>4
<1>4. ASSUME NEW r \in Request, Start(r) \/ Reads(r) \/ Looks(r) \/ Sets(r)
      PROVE  Goal
  <2>1. rows' = rows \/ rows' = Revoke(rows, req[r].tokens)
    BY <1>4, StartIs, ReadsIs, LooksIs, SetsIs
  <2> QED
    BY <1>1, <2>1
<1>5. ASSUME Tick \/ UNCHANGED vars
      PROVE  Goal
  <2>1. rows' = rows
    BY <1>5 DEF Tick, vars
  <2> QED
    BY <1>1, <2>1
<1> HIDE DEF Goal
<1>6. ASSUME NEW r \in Request, Resume(r) \/ Abort(r)
      PROVE  Goal
  <2>1. CASE Reads(r) \/ Looks(r) \/ Sets(r)
    BY <2>1, <1>4
  <2>2. CASE ConsumeWin(r)
    BY <2>2, <1>2
  <2>3. CASE \E t \in Token, f \in Family : SaveFirst(r, t, f)
    BY <2>3, <1>3
  <2>4. CASE \E t \in Token : SaveNext(r, t)
    BY <2>4, <1>3
  <2> QED
    BY <1>6, <2>1, <2>2, <2>3, <2>4, StepIs
<1>7. Goal
  BY <1>4, <1>5, <1>6 DEF Next
<1> QED
  BY <1>7 DEF Goal

(* How a request comes to the two awaits of a suspension. *)
LEMMA ComesToSuspend ==
  ASSUME TypeOK, [Next]_vars, NEW s \in Request,
         req'[s].at \in {"suspendRows", "suspendSave"}
  PROVE  \/ req'[s] = req[s]
         \/ SuspendRevoke(s)
         \/ SuspendRows(s)
<1> DEFINE New == {"suspendRows", "suspendSave"}
<1>1. ASSUME NEW r \in Request, NEW h, Become(r, h), h.at \notin New
      PROVE  req'[s] = req[s]
  BY <1>1 DEF Become, TypeOK
<1>2. ASSUME NEW r \in Request, Start(r)
      PROVE  req'[s] = req[s]
  BY <1>1, <1>2
     DEF Start, ExchangeValidate, ClientFind, RefreshVerify, LogoutFind
<1>3. Idle.at \notin New
  BY DEF Idle
<1>4. ASSUME NEW r \in Request, Reads(r)
      PROVE  req'[s] = req[s]
  BY <1>1, <1>4, ReadsIs
<1>5. ASSUME NEW r \in Request, Lookup(r)
      PROVE  req'[s] = req[s]
  <2>1. PICK f : f = rows[req[r].token].familyId
    OBVIOUS
  <2>2. PICK g : g = [at |-> "revoke", familyId |-> f]
    OBVIOUS
  <2>3. Become(r, g) \/ Become(r, Idle)
    BY <1>5, <2>1, <2>2 DEF Lookup
  <2>4. g.at \notin New
    BY <2>2
  <2> QED
    BY <1>1, <1>3, <2>3, <2>4
<1>6. ASSUME NEW r \in Request,
             \/ \E t \in Token : SaveNext(r, t)
             \/ \E t \in Token, f \in Family : SaveFirst(r, t, f)
             \/ RevokeRows(r) \/ SuspendSave(r) \/ ActivateSave(r)
             \/ RemoveCommit(r) \/ Abort(r)
      PROVE  req'[s] = req[s]
  <2>1. Become(r, Idle)
    BY <1>6 DEF SaveNext, SaveFirst, RevokeRows, SuspendSave, ActivateSave,
                RemoveCommit, Abort
  <2> QED
    BY <1>1, <1>3, <2>1
<1>7. ASSUME NEW r \in Request,
             \/ ExchangeSign(r) \/ ExchangeLimit(r) \/ ConsumeWin(r) \/ ConsumeLose(r)
             \/ CheckExpired(r) \/ RevokeSession(r) \/ RemoveUpdate(r) \/ RemoveLock(r)
      PROVE  req'[s] = req[s]
  BY <1>1, <1>7
     DEF ExchangeSign, ExchangeLimit, ConsumeWin, ConsumeLose, CheckExpired,
         RevokeSession, RemoveUpdate, RemoveLock
<1>8. ASSUME NEW r \in Request, SuspendRevoke(r) \/ SuspendRows(r), r # s
      PROVE  req'[s] = req[s]
  BY <1>8 DEF SuspendRevoke, SuspendRows, Become, TypeOK
<1>9. CASE Tick \/ UNCHANGED vars
  BY <1>9 DEF Tick, vars
<1> QED
  BY <1>2, <1>4, <1>5, <1>6, <1>7, <1>8, <1>9 DEF Next, Resume, Reads

(* A client comes to be suspended by the save of a suspension. *)
LEMMA BecomesSuspended ==
  ASSUME TypeOK, [Next]_vars, NEW c \in Client,
         client[c] # "suspended", client'[c] = "suspended"
  PROVE  \E s \in Request : SuspendSave(s) /\ req[s].clientId = c
<1>1. client' # client
  OBVIOUS
<1>2. PICK s \in Request : SuspendSave(s) \/ ActivateSave(s) \/ RemoveCommit(s)
  BY <1>1 DEF Next, Start, Resume, Abort, Tick, vars, ExchangeValidate,
              ClientFind, RefreshVerify, LogoutFind, ExchangeSign, ExchangeLimit,
              SaveFirst, ConsumeWin, ConsumeLose, Lookup, CheckExpired, CheckPassed,
              ReadExpiry, ReadSeconds, SignNext, SaveNext, RevokeSession, RevokeRows,
              SuspendRevoke, SuspendRows, RemoveUpdate, RemoveLock
<1>3. SuspendSave(s) /\ req[s].clientId = c
  BY <1>2 DEF SuspendSave, ActivateSave, RemoveCommit, SaveClient, TypeOK
<1> QED
  BY <1>3

LEMMA NextEmptied ==
  TypeOK /\ Stored /\ SuspensionsAlone /\ Emptied /\ [Next]_vars => Emptied'
<1> SUFFICES ASSUME TypeOK, Stored, SuspensionsAlone, Emptied, [Next]_vars,
                    NEW c \in Client
             PROVE  /\ client'[c] = "suspended" => Drained(c)'
                    /\ \A s \in Request : EmptiedBy(req[s], c)'
  BY DEF Emptied
<1>1. ASSUME client'[c] = "suspended"
      PROVE  Drained(c)'
  <2>1. CASE client[c] = "suspended"
    BY <2>1, NextDrained DEF Emptied
  <2>2. CASE client[c] # "suspended"
    <3>1. PICK s \in Request : SuspendSave(s) /\ req[s].clientId = c
      BY <1>1, <2>2, BecomesSuspended
    <3>2. /\ req[s].at = "suspendSave" /\ req[s].clientId = c
          /\ Become(s, Idle) /\ rows' = rows
      BY <3>1 DEF SuspendSave, At
    <3>3. \A r \in Request : ~Bears(req[r], c)
      BY <3>2 DEF SuspensionsAlone, Suspends, At
    <3>4. NoLive(c)
      BY <3>2 DEF Emptied, EmptiedBy
    <3>5. Drained(c)
      BY <3>3, <3>4, DrainedMeans DEF NoLive
    <3>6. ~Bears(Idle, c)
      BY DEF Bears, Idle
    <3> QED
      BY <3>2, <3>5, <3>6, QuietDrained
  <2> QED
    BY <2>1, <2>2
<1>2. ASSUME NEW s \in Request, req'[s].at \in {"suspendRows", "suspendSave"},
             req'[s].clientId = c
      PROVE  IF req'[s].at = "suspendRows" THEN Found(req[s], c)' ELSE NoLive(c)'
  <2>1. CASE req'[s] = req[s]
    <3>1. \A r \in Request : ~Bears(req[r], c)
      BY <1>2, <2>1 DEF SuspensionsAlone, Suspends, At
    <3>2. IF req[s].at = "suspendRows" THEN Found(req[s], c) ELSE NoLive(c)
      BY <1>2, <2>1 DEF Emptied, EmptiedBy
    <3> QED
      BY <2>1, <3>1, <3>2, NoNewLive DEF Found, NoLive
  <2>2. CASE SuspendRevoke(s)
    <3>1. /\ req'[s] = [at |-> "suspendRows", clientId |-> req[s].clientId,
                        tokens |-> Unrevoked(req[s].clientId)]
          /\ rows' = rows
      BY <2>2 DEF SuspendRevoke, Become, TypeOK
    <3> QED
      BY <1>2, <3>1 DEF Found, Unrevoked, Live
  <2>3. CASE SuspendRows(s)
    <3>1. /\ rows' = Revoke(rows, req[s].tokens) /\ At(s, "suspendRows")
          /\ req'[s] = [at |-> "suspendSave", clientId |-> req[s].clientId]
      BY <2>3 DEF SuspendRows, Become, TypeOK
    <3>2. Found(req[s], c)
      BY <1>2, <3>1 DEF Emptied, EmptiedBy, At
    <3>3. NoLive(c)'
      BY <3>1, <3>2 DEF Found, Revoke, NoLive, Live, Row, TypeOK
    <3> QED
      BY <3>1, <3>3
  <2> QED
    BY <1>2, <2>1, <2>2, <2>3, ComesToSuspend
<1> QED
  BY <1>1, <1>2 DEF EmptiedBy, Found, NoLive

(* A suspended client has no live session, whatever overlaps the           *)
(* suspension but a login or a rotation of the same client between its two *)
(* statements.                                                             *)
THEOREM SuspendedHasNoSessionWhenAlone ==
  Spec /\ []SuspensionsAlone => []SuspendedHasNoSession
<1>1. Init => Emptied
  BY DEF Init, Emptied, EmptiedBy, Idle
<1>2. TypeOK /\ Emptied => SuspendedHasNoSession
  BY DEF TypeOK, Row, Emptied, Drained, SuspendedHasNoSession
<1> QED
  BY <1>1, <1>2, TypeCorrect, NextEmptied, PTL DEF Spec
=============================================================================
