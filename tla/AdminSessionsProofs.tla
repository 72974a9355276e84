------------------------ MODULE AdminSessionsProofs ------------------------
(***************************************************************************)
(* What AdminSessions guarantees for any number of tokens, sessions,       *)
(* admins and concurrent requests.                                         *)
(***************************************************************************)
EXTENDS AdminSessions, TLAPS

(* What a table looks like after each statement. *)
LEMMA InsertTable ==
  ASSUME NEW table, NEW t, NEW row, t \notin DOMAIN table
  PROVE  /\ DOMAIN Insert(table, t, row) = DOMAIN table \cup {t}
         /\ Insert(table, t, row)[t] = row
         /\ \A u \in DOMAIN table : Insert(table, t, row)[u] = table[u]
BY DEF Insert

(* An UPDATE never undoes a use or a revocation, and keeps the rest. *)
Ages(before, after) ==
  /\ after \in Row
  /\ after.familyId = before.familyId /\ after.sub = before.sub
  /\ before.used => after.used
  /\ before.revoked => after.revoked

LEMMA MarkUsedTable ==
  ASSUME NEW table, table \in [DOMAIN table -> Row], NEW t \in DOMAIN table
  PROVE  /\ DOMAIN MarkUsed(table, t) = DOMAIN table
         /\ \A u \in DOMAIN table : Ages(table[u], MarkUsed(table, t)[u])
         /\ MarkUsed(table, t)[t].used
         /\ \A u \in DOMAIN table : u # t => MarkUsed(table, t)[u] = table[u]
BY DEF MarkUsed, Ages, Row

LEMMA RevokeTable ==
  ASSUME NEW table, table \in [DOMAIN table -> Row], NEW S
  PROVE  /\ DOMAIN Revoke(table, S) = DOMAIN table
         /\ \A u \in DOMAIN table : Ages(table[u], Revoke(table, S)[u])
         /\ \A u \in DOMAIN table \cap S : Revoke(table, S)[u].revoked
BY DEF Revoke, Ages, Row

(* What a handler holds at each await, as TypeOK has it. *)
LEMMA HandlerType ==
  ASSUME req \in [Request -> Handler], NEW r \in Request
  PROVE  /\ At(r, "savePair") \/ At(r, "remove") \/ At(r, "saveEntity") =>
              req[r].sub \in Admin
         /\ At(r, "consume") \/ At(r, "lookup") => req[r].token \in Token
         /\ At(r, "find") \/ At(r, "saveNext") => req[r].record \in Row
         /\ At(r, "revoke") => req[r].familyId \in Family
         /\ At(r, "revokeRows") => req[r].tokens \in SUBSET Token
         /\ At(r, "lock") \/ At(r, "delete") =>
              req[r].sub \in Admin /\ req[r].tokens \in SUBSET Token
BY DEF Handler, At

LEMMA IdleHandler == Idle \in Handler /\ Idle.at = "idle"
BY DEF Idle, Handler

(***************************************************************************)
(* The tokens and sessions that handlers hold are in the table, because    *)
(* nothing deletes a row.  TypeOK is inductive only with it.       *)
(***************************************************************************)
Stored ==
  \A r \in Request :
    /\ At(r, "consume") \/ At(r, "lookup") => req[r].token \in DOMAIN rows
    /\ At(r, "find") \/ At(r, "saveNext") =>
         \E t \in DOMAIN rows : rows[t].familyId = req[r].record.familyId

(* Every step leaves the table with the rows it had, older, and at most    *)
(* some new ones.                                                          *)
TableGrows ==
  /\ DOMAIN rows \subseteq DOMAIN rows'
  /\ DOMAIN rows' \subseteq Token
  /\ \A t \in DOMAIN rows : Ages(rows[t], rows'[t])
  /\ rows' \in [DOMAIN rows' -> Row]

LEMMA SameRowsGrow ==
  ASSUME TypeOK, rows' = rows
  PROVE  TableGrows
<1>1. ASSUME NEW t \in DOMAIN rows
      PROVE  Ages(rows[t], rows[t])
  BY DEF TypeOK, Ages
<1> QED
  BY <1>1 DEF TypeOK, TableGrows

LEMMA RevokeGrows ==
  ASSUME TypeOK, NEW S, rows' = Revoke(rows, S)
  PROVE  TableGrows
<1>1. /\ DOMAIN rows' = DOMAIN rows
      /\ \A t \in DOMAIN rows : Ages(rows[t], rows'[t])
  BY RevokeTable DEF TypeOK
<1>2. rows' \in [DOMAIN rows' -> Row]
  BY RevokeTable, <1>1 DEF Ages, Revoke
<1> QED
  BY <1>1, <1>2 DEF TypeOK, TableGrows

LEMMA InsertGrows ==
  ASSUME TypeOK, NEW t \in Token, NEW f \in Family, NEW a \in Admin,
         Save(t, f, a)
  PROVE  TableGrows
<1>1. PICK row \in Row : rows' = Insert(rows, t, row) /\ t \notin DOMAIN rows
  BY DEF Save, Row
<1>2. /\ DOMAIN rows' = DOMAIN rows \cup {t}
      /\ rows' \in [DOMAIN rows' -> Row]
  BY <1>1 DEF Insert, TypeOK
<1>3. ASSUME NEW u \in DOMAIN rows
      PROVE  Ages(rows[u], rows'[u])
  <2>1. rows'[u] = rows[u]
    BY <1>1 DEF Insert
  <2> QED
    BY <2>1 DEF Ages, TypeOK
<1> QED
  BY <1>2, <1>3 DEF TypeOK, TableGrows

(* The other variables after a step. *)
OthersTyped == admins' \subseteq Admin /\ late' \subseteq Token

(* The shape of every step of a handler: it goes on to await h.            *)
LEMMA TypedStep ==
  ASSUME TypeOK, Stored, TableGrows,
         NEW r \in Request, NEW h \in Handler,
         Become(r, h), OthersTyped,
         h.at \in {"consume", "lookup"} => h.token \in DOMAIN rows,
         h.at \in {"find", "saveNext"} =>
           \E t \in DOMAIN rows : rows[t].familyId = h.record.familyId
  PROVE  TypeOK' /\ Stored'
<1>1. /\ req' \in [Request -> Handler]
      /\ req'[r] = h
      /\ \A s \in Request : s # r => req'[s] = req[s]
  BY DEF TypeOK, Become
<1>2. TypeOK'
  BY <1>1 DEF TypeOK, TableGrows, OthersTyped
<1>3. ASSUME NEW f, \E t \in DOMAIN rows : rows[t].familyId = f
      PROVE  \E t \in DOMAIN rows' : rows'[t].familyId = f
  BY <1>3 DEF TableGrows, Ages
<1>4. ASSUME NEW s \in Request
      PROVE  /\ At(s, "consume")' \/ At(s, "lookup")' =>
                  req'[s].token \in DOMAIN rows'
             /\ At(s, "find")' \/ At(s, "saveNext")' =>
                  \E t \in DOMAIN rows : rows[t].familyId = req'[s].record.familyId
  <2>1. CASE s = r
    BY <2>1, <1>1 DEF At, TableGrows
  <2>2. CASE s # r
    BY <2>2, <1>1 DEF Stored, At, TableGrows
  <2> QED
    BY <2>1, <2>2
<1> QED
  BY <1>2, <1>3, <1>4 DEF Stored

(* The steps that leave the table alone: only the handler they go on to    *)
(* has to be looked at.                                                    *)
LEMMA QuietStep ==
  ASSUME TypeOK, Stored, rows' = rows,
         NEW r \in Request, NEW h \in Handler,
         Become(r, h), OthersTyped,
         h.at \in {"consume", "lookup"} => h.token \in DOMAIN rows,
         h.at \in {"find", "saveNext"} =>
           \E t \in DOMAIN rows : rows[t].familyId = h.record.familyId
  PROVE  TypeOK' /\ Stored'
BY SameRowsGrow, TypedStep

(* The steps that write the table and end the request. *)
LEMMA LastStep ==
  ASSUME TypeOK, Stored, TableGrows, NEW r \in Request, Become(r, Idle),
         OthersTyped
  PROVE  TypeOK' /\ Stored'
BY IdleHandler, TypedStep

LEMMA StartTyped ==
  ASSUME TypeOK, Stored, NEW r \in Request, Start(r)
  PROVE  TypeOK' /\ Stored'
<1>0. UNCHANGED <<admins, late>> => OthersTyped
  BY DEF TypeOK, OthersTyped
<1>1. ASSUME NEW a \in Admin, NEW label \in {"savePair", "remove", "saveEntity"},
             Become(r, [at |-> label, sub |-> a]),
             UNCHANGED <<rows, admins, late>>
      PROVE  TypeOK' /\ Stored'
  <2> DEFINE h == [at |-> label, sub |-> a]
  <2>1. h \in Handler
    BY DEF Handler
  <2> QED
    BY <1>0, <1>1, <2>1, QuietStep
<1>2. ASSUME NEW t \in Token, RefreshVerify(r, t)
      PROVE  TypeOK' /\ Stored'
  <2> DEFINE h == [at |-> "consume", token |-> t]
  <2>1. h \in Handler
    BY DEF Handler
  <2> QED
    BY <1>0, <1>2, <2>1, QuietStep DEF RefreshVerify
<1>3. ASSUME NEW t \in Token, LogoutFind(r, t)
      PROVE  TypeOK' /\ Stored'
  <2> DEFINE h == [at |-> "revoke", familyId |-> rows[t].familyId]
  <2>1. h \in Handler
    BY <1>3 DEF LogoutFind, TypeOK, Handler, Row
  <2> QED
    BY <1>0, <1>3, <2>1, QuietStep DEF LogoutFind
<1> QED
  BY <1>1, <1>2, <1>3 DEF Start, PairFind, AdminFind

LEMMA ConsumeWinTyped ==
  ASSUME TypeOK, Stored, NEW r \in Request, ConsumeWin(r)
  PROVE  TypeOK' /\ Stored'
<1> DEFINE t == req[r].token
           find == [at |-> "find", record |-> rows'[t]]
           revoke == [at |-> "revoke", familyId |-> rows[t].familyId]
<1>1. t \in DOMAIN rows /\ rows' = MarkUsed(rows, t)
  BY DEF ConsumeWin, Stored
<1>2. /\ DOMAIN rows' = DOMAIN rows
      /\ \A u \in DOMAIN rows : Ages(rows[u], rows'[u])
  BY <1>1, MarkUsedTable DEF TypeOK
<1>3. rows' \in [DOMAIN rows' -> Row]
  BY <1>1, <1>2 DEF Ages, MarkUsed
<1>4. TableGrows
  BY <1>2, <1>3 DEF TableGrows, TypeOK
<1>5. find \in Handler /\ revoke \in Handler
  BY <1>1, <1>2 DEF Handler, Ages, TypeOK, Row
<1>6. rows[t].familyId = find.record.familyId
  BY <1>1, <1>2 DEF Ages
<1>7. OthersTyped
  BY DEF ConsumeWin, TypeOK, OthersTyped
<1>8. find.at = "find" /\ revoke.at = "revoke"
  OBVIOUS
<1>9. Become(r, find) \/ Become(r, revoke)
  BY DEF ConsumeWin
<1> HIDE DEF t, find, revoke
<1> QED
  BY <1>1, <1>4, <1>5, <1>6, <1>7, <1>8, <1>9, TypedStep

LEMMA ResumeTyped ==
  ASSUME TypeOK, Stored, NEW r \in Request, Resume(r)
  PROVE  TypeOK' /\ Stored'
<1> USE HandlerType
<1>1. /\ req \in [Request -> Handler]
      /\ UNCHANGED <<admins, late>> => OthersTyped
  BY DEF TypeOK, OthersTyped
<1>2. ASSUME NEW t \in Token, NEW f \in Family, SavePair(r, t, f)
      PROVE  TypeOK' /\ Stored'
  <2>1. TableGrows
    BY <1>1, <1>2, InsertGrows DEF SavePair
  <2>2. OthersTyped
    BY <1>2 DEF SavePair, Stamp, OthersTyped, TypeOK
  <2> QED
    BY <1>2, <2>1, <2>2, LastStep DEF SavePair
<1>3. CASE ConsumeLose(r)
  <2> DEFINE h == [at |-> "lookup", token |-> req[r].token]
  <2>1. h \in Handler
    BY <1>1, <1>3 DEF ConsumeLose, Handler
  <2> QED
    BY <1>1, <1>3, <2>1, QuietStep DEF ConsumeLose, Stored
<1>4. CASE Lookup(r)
  <2> DEFINE existing == rows[req[r].token]
             h == IF existing.used
                    THEN [at |-> "revoke", familyId |-> existing.familyId]
                    ELSE Idle
  <2>1. existing \in Row
    BY <1>4 DEF Lookup, Stored, TypeOK
  <2>2. h \in Handler /\ h.at \in {"revoke", "idle"}
    BY <2>1, IdleHandler DEF Handler, Row
  <2> QED
    BY <1>1, <1>4, <2>2, QuietStep DEF Lookup
<1>5. CASE RefreshFind(r)
  <2> DEFINE h == [at |-> "saveNext", record |-> req[r].record]
  <2>1. h \in Handler
    BY <1>1, <1>5 DEF RefreshFind, Handler
  <2>2. \E t \in DOMAIN rows : rows[t].familyId = h.record.familyId
    BY <1>5 DEF RefreshFind, Stored
  <2> QED
    BY <1>1, <1>5, <2>1, <2>2, QuietStep DEF RefreshFind
<1>6. ASSUME NEW t \in Token, SaveNext(r, t)
      PROVE  TypeOK' /\ Stored'
  <2>1. req[r].record \in Row
    BY <1>1, <1>6 DEF SaveNext
  <2>2. TableGrows
    BY <1>6, <2>1, InsertGrows DEF SaveNext, Row
  <2>3. OthersTyped
    BY <1>6 DEF SaveNext, Stamp, OthersTyped, TypeOK
  <2> QED
    BY <1>6, <2>2, <2>3, LastStep DEF SaveNext
<1>7. CASE RevokeRows(r) \/ RemoveCommit(r)
  <2>1. TableGrows
    BY <1>7, RevokeGrows DEF RevokeRows, RemoveCommit
  <2>2. OthersTyped
    BY <1>7 DEF RevokeRows, RemoveCommit, OthersTyped, TypeOK
  <2> QED
    BY <1>7, <2>1, <2>2, LastStep DEF RevokeRows, RemoveCommit
<1>8. CASE SaveEntity(r)
  <2>1. OthersTyped
    BY <1>1, <1>8 DEF SaveEntity, OthersTyped, TypeOK
  <2> QED
    BY <1>8, <2>1, SameRowsGrow, LastStep DEF SaveEntity
<1>9. CASE RevokeSession(r)
  <2> DEFINE h == [at |-> "revokeRows", tokens |-> FamilyOf(rows, req[r].familyId)]
  <2>1. h \in Handler
    BY DEF FamilyOf, TypeOK, Handler
  <2> QED
    BY <1>1, <1>9, <2>1, QuietStep DEF RevokeSession
<1>10. CASE RemoveUpdate(r)
  <2> DEFINE h == [at |-> "lock", sub |-> req[r].sub,
                   tokens |-> {t \in TokensOf(req[r].sub) : ~rows[t].revoked}]
  <2>1. h \in Handler
    BY <1>1, <1>10 DEF RemoveUpdate, TokensOf, TypeOK, Handler
  <2> QED
    BY <1>1, <1>10, <2>1, QuietStep DEF RemoveUpdate
<1>11. CASE RemoveLock(r)
  <2> DEFINE h == [at |-> "delete", sub |-> req[r].sub,
                   tokens |-> {t \in req[r].tokens : ~rows[t].revoked}]
  <2>1. h \in Handler
    BY <1>1, <1>11 DEF RemoveLock, Handler
  <2> QED
    BY <1>1, <1>11, <2>1, QuietStep DEF RemoveLock
<1> QED
  BY <1>2, <1>3, <1>4, <1>5, <1>6, <1>7, <1>8, <1>9, <1>10, <1>11,
     ConsumeWinTyped DEF Resume

LEMMA NextTyped ==
  TypeOK /\ Stored /\ [Next]_vars => TypeOK' /\ Stored'
<1> SUFFICES ASSUME TypeOK, Stored, [Next]_vars
             PROVE  TypeOK' /\ Stored'
  OBVIOUS
<1>1. ASSUME NEW r \in Request, Abort(r)
      PROVE  TypeOK' /\ Stored'
  BY <1>1, SameRowsGrow, LastStep DEF Abort, TypeOK, OthersTyped
<1>2. CASE UNCHANGED vars
  BY <1>2 DEF vars, TypeOK, Stored, At
<1> QED
  BY <1>1, <1>2, StartTyped, ResumeTyped DEF Next

(* Every row and handler keeps its type, and the token and session that a  *)
(* refresh holds are in the table: the UPDATE of consume() meets a row.    *)
THEOREM TypeCorrect == Spec => [](TypeOK /\ Stored)
<1>1. Init => TypeOK /\ Stored
  BY IdleHandler DEF Init, TypeOK, Stored, At
<1>2. TypeOK /\ Stored /\ [Next]_vars => TypeOK' /\ Stored'
  BY NextTyped
<1> QED
  BY <1>1, <1>2, PTL DEF Spec

-----------------------------------------------------------------------------
(***************************************************************************)
(* One bearer and one owner.  A session is borne by its unused token or by *)
(* the refresh that took it, never by two; and all its tokens, with that   *)
(* refresh, are of one admin.  ConsumeWin turns the token into a refresh,  *)
(* SaveNext the refresh into a token, SavePair begins a session that       *)
(* nothing bears yet, and no other step makes a bearer.                    *)
(***************************************************************************)
Unused(t, f) == t \in DOMAIN rows /\ rows[t].familyId = f /\ ~rows[t].used

OneBearer ==
  \A f \in Family :
    /\ \A t, u \in DOMAIN rows : Unused(t, f) /\ Unused(u, f) => t = u
    /\ \A r, s \in Request : Rotates(r, f) /\ Rotates(s, f) => r = s
    /\ \A t \in DOMAIN rows, r \in Request : ~(Unused(t, f) /\ Rotates(r, f))

OneOwner ==
  /\ \A t, u \in DOMAIN rows :
       rows[t].familyId = rows[u].familyId => rows[t].sub = rows[u].sub
  /\ \A r \in Request, t \in DOMAIN rows :
       Rotates(r, rows[t].familyId) => req[r].record.sub = rows[t].sub

(* A step that ages the rows, and begins no refresh. *)
NoNewBearer ==
  /\ DOMAIN rows' = DOMAIN rows
  /\ \A t \in DOMAIN rows : Ages(rows[t], rows'[t])
  /\ \A r \in Request : \A f : Rotates(r, f)' =>
       Rotates(r, f) /\ req'[r].record = req[r].record

LEMMA NoNewBearerOne ==
  ASSUME OneBearer, OneOwner, NoNewBearer
  PROVE  OneBearer' /\ OneOwner'
<1>1. \A t, f : Unused(t, f)' => t \in DOMAIN rows /\ Unused(t, f)
  BY DEF NoNewBearer, Unused, Ages
<1>2. \A r \in Request : \A f : Rotates(r, f)' =>
        Rotates(r, f) /\ req'[r].record = req[r].record
  BY DEF NoNewBearer
<1>3. OneBearer'
  BY <1>1, <1>2 DEF OneBearer
<1>4. /\ DOMAIN rows' = DOMAIN rows
      /\ \A t \in DOMAIN rows : /\ rows'[t].familyId = rows[t].familyId
                                /\ rows'[t].sub = rows[t].sub
  BY DEF NoNewBearer, Ages
<1>5. OneOwner'
  BY <1>2, <1>4 DEF OneOwner
<1> QED
  BY <1>3, <1>5

(* A handler that goes on to an await outside a refresh begins none, and   *)
(* leaves those of the others as they are.                                 *)
LEMMA LeaveRefresh ==
  ASSUME TypeOK, NEW r \in Request, NEW h, Become(r, h),
         h.at \notin {"find", "saveNext"}, NEW s \in Request, NEW f
  PROVE  Rotates(s, f)' =>
           s # r /\ Rotates(s, f) /\ req'[s].record = req[s].record
BY DEF TypeOK, Become, Rotates, At

LEMMA OthersRefresh ==
  ASSUME TypeOK, NEW r \in Request, NEW h, Become(r, h),
         NEW s \in Request, s # r, NEW f
  PROVE  /\ Rotates(s, f)' <=> Rotates(s, f)
         /\ req'[s] = req[s]
BY DEF TypeOK, Become, Rotates, At

LEMMA AgesKeep ==
  ASSUME TypeOK, TableGrows, DOMAIN rows' = DOMAIN rows,
         NEW r \in Request, NEW h, Become(r, h), h.at \notin {"find", "saveNext"}
  PROVE  NoNewBearer
BY LeaveRefresh DEF NoNewBearer, TableGrows

LEMMA StartKeeps ==
  ASSUME TypeOK, NEW r \in Request, Start(r)
  PROVE  NoNewBearer /\ rows' = rows
<1>1. rows' = rows
  BY DEF Start, PairFind, AdminFind, RefreshVerify, LogoutFind
<1>2. PICK h : Become(r, h) /\ h.at \notin {"find", "saveNext"}
  <2>1. ASSUME NEW a \in Admin, NEW label \in {"savePair", "remove", "saveEntity"},
               Become(r, [at |-> label, sub |-> a])
        PROVE  \E h : Become(r, h) /\ h.at \notin {"find", "saveNext"}
    BY <2>1
  <2>2. ASSUME NEW t \in Token, RefreshVerify(r, t) \/ LogoutFind(r, t)
        PROVE  \E h : Become(r, h) /\ h.at \notin {"find", "saveNext"}
    BY <2>2 DEF RefreshVerify, LogoutFind
  <2> QED
    BY <2>1, <2>2 DEF Start, PairFind, AdminFind
<1> QED
  BY <1>1, <1>2, SameRowsGrow, AgesKeep

(* The steps of a handler that make no bearer.  A token that consume took  *)
(* and that turns out to have expired goes straight to the revocation.     *)
Plain(r) ==
  \/ ConsumeLose(r) \/ Lookup(r) \/ RefreshFind(r) \/ RevokeSession(r)
  \/ RevokeRows(r) \/ RemoveUpdate(r) \/ RemoveLock(r) \/ RemoveCommit(r)
  \/ SaveEntity(r) \/ Abort(r)
  \/ ConsumeWin(r) /\ ~At(r, "find")'

LEMMA PlainKeeps ==
  ASSUME TypeOK, Stored, NEW r \in Request, Plain(r)
  PROVE  NoNewBearer /\ TableGrows
<1>1. CASE ConsumeLose(r)
  BY <1>1, SameRowsGrow, AgesKeep DEF ConsumeLose
<1>2. CASE Lookup(r)
  BY <1>2, SameRowsGrow, AgesKeep, IdleHandler DEF Lookup
<1>3. CASE RefreshFind(r)
  <2>1. TableGrows /\ rows' = rows
    BY <1>3, SameRowsGrow DEF RefreshFind
  <2>2. \A f : Rotates(r, f)' => Rotates(r, f) /\ req'[r].record = req[r].record
    BY <1>3 DEF RefreshFind, Become, Rotates, At, TypeOK
  <2>3. \A s \in Request : \A f : s # r =>
          (Rotates(s, f)' => Rotates(s, f) /\ req'[s].record = req[s].record)
    BY <1>3, OthersRefresh DEF RefreshFind
  <2> QED
    BY <2>1, <2>2, <2>3 DEF NoNewBearer, TableGrows
<1>4. CASE RevokeRows(r) \/ RemoveCommit(r)
  <2>1. PICK S : rows' = Revoke(rows, S)
    BY <1>4 DEF RevokeRows, RemoveCommit
  <2>2. TableGrows /\ DOMAIN rows' = DOMAIN rows
    BY <2>1, RevokeGrows, RevokeTable DEF TypeOK
  <2> QED
    BY <1>4, <2>2, AgesKeep, IdleHandler DEF RevokeRows, RemoveCommit
<1>7. CASE RevokeSession(r) \/ RemoveUpdate(r) \/ RemoveLock(r)
  BY <1>7, SameRowsGrow, AgesKeep DEF RevokeSession, RemoveUpdate, RemoveLock
<1>5. CASE SaveEntity(r) \/ Abort(r)
  BY <1>5, SameRowsGrow, AgesKeep, IdleHandler DEF SaveEntity, Abort
<1>6. CASE ConsumeWin(r) /\ ~At(r, "find")'
  <2> DEFINE t == req[r].token
             h == [at |-> "revoke", familyId |-> rows[t].familyId]
  <2>1. Become(r, h)
    BY <1>6 DEF ConsumeWin, Become, At, TypeOK
  <2>2. t \in DOMAIN rows /\ rows' = MarkUsed(rows, t)
    BY <1>6 DEF ConsumeWin, Stored
  <2>3. /\ DOMAIN rows' = DOMAIN rows
        /\ \A u \in DOMAIN rows : Ages(rows[u], rows'[u])
    BY <2>2, MarkUsedTable DEF TypeOK
  <2>4. TableGrows
    BY <2>2, <2>3 DEF TableGrows, TypeOK, MarkUsed, Ages
  <2> QED
    BY <2>1, <2>3, <2>4, AgesKeep
<1> QED
  BY <1>1, <1>2, <1>3, <1>4, <1>5, <1>6, <1>7 DEF Plain

(* ConsumeWin, when the token has not expired: what is known before and    *)
(* after of the token, its session g and the others.                       *)
Takes(r, t, g) ==
  /\ At(r, "consume")
  /\ t \in DOMAIN rows /\ g \in Family
  /\ rows[t].familyId = g /\ ~rows[t].used /\ ~rows[t].revoked
  /\ DOMAIN rows' = DOMAIN rows
  /\ rows'[t].familyId = g /\ rows'[t].sub = rows[t].sub /\ rows'[t].used
  /\ \A u \in DOMAIN rows : u # t => rows'[u] = rows[u]
  /\ Become(r, [at |-> "find", record |-> rows'[t]])

LEMMA ConsumeWinTakes ==
  ASSUME TypeOK, Stored, NEW r \in Request, ConsumeWin(r),
         At(r, "find")'
  PROVE  \E t, g : Takes(r, t, g)
<1> DEFINE t == req[r].token
<1>1. /\ t \in DOMAIN rows /\ rows' = MarkUsed(rows, t)
      /\ ~rows[t].used /\ ~rows[t].revoked
      /\ At(r, "consume")
  BY DEF ConsumeWin, Stored, Consumable
<1>2. Become(r, [at |-> "find", record |-> rows'[t]])
  BY DEF ConsumeWin, Become, At, TypeOK
<1>3. rows[t].familyId \in Family
  BY <1>1 DEF TypeOK, Row
<1>4. /\ DOMAIN rows' = DOMAIN rows /\ rows'[t].used
      /\ rows'[t].familyId = rows[t].familyId /\ rows'[t].sub = rows[t].sub
      /\ \A u \in DOMAIN rows : u # t => rows'[u] = rows[u]
  BY <1>1, MarkUsedTable DEF TypeOK, Ages
<1> HIDE DEF t
<1> QED
  BY <1>1, <1>2, <1>3, <1>4 DEF Takes

(* The refreshes after it: request r's, of g, and those that were there.   *)
LEMMA TakesRefreshes ==
  ASSUME TypeOK, NEW r \in Request, NEW t, NEW g, Takes(r, t, g)
  PROVE  /\ \A f : Rotates(r, f)' => f = g
         /\ Rotates(r, g)' /\ req'[r].record = rows'[t]
         /\ \A f : ~Rotates(r, f)
         /\ \A s \in Request : \A f : s # r =>
              (Rotates(s, f)' <=> Rotates(s, f)) /\ req'[s] = req[s]
<1>1. /\ req'[r] = [at |-> "find", record |-> rows'[t]]
      /\ rows'[t].familyId = g
  BY DEF Takes, Become, TypeOK
<1>2. \A s \in Request : \A f : s # r =>
        (Rotates(s, f)' <=> Rotates(s, f)) /\ req'[s] = req[s]
  BY OthersRefresh DEF Takes
<1>3. \A f : ~Rotates(r, f)
  BY DEF Takes, Rotates, At
<1> QED
  BY <1>1, <1>2, <1>3 DEF Rotates, At

LEMMA TakesOne ==
  ASSUME TypeOK, OneBearer, OneOwner, NEW r \in Request, NEW t, NEW g,
         Takes(r, t, g)
  PROVE  OneBearer' /\ OneOwner'
<1>1. Unused(t, g) /\ \A s \in Request : ~Rotates(s, g)
  BY DEF Takes, Unused, OneBearer
<1>2. \A u \in DOMAIN rows', f \in Family :
        Unused(u, f)' => u \in DOMAIN rows /\ Unused(u, f) /\ f # g
  BY <1>1 DEF Takes, Unused, OneBearer
<1>3. \A s \in Request, f \in Family :
        Rotates(s, f)' => (s = r /\ f = g) \/ (s # r /\ Rotates(s, f) /\ f # g)
  BY <1>1, TakesRefreshes
<1>4. OneBearer'
  BY <1>2, <1>3 DEF OneBearer
<1>5. /\ DOMAIN rows' = DOMAIN rows
      /\ \A u \in DOMAIN rows : /\ rows'[u].familyId = rows[u].familyId
                                /\ rows'[u].sub = rows[u].sub
  BY DEF Takes
<1>6. ASSUME NEW s \in Request, NEW u \in DOMAIN rows',
             Rotates(s, rows[u].familyId)'
      PROVE  req'[s].record.sub = rows'[u].sub
  <2>1. CASE s = r
    <3>1. rows[u].familyId = rows[t].familyId /\ t \in DOMAIN rows
      BY <1>5, <1>6, <2>1, TakesRefreshes DEF Takes
    <3>2. rows[u].sub = rows[t].sub
      BY <1>5, <3>1 DEF OneOwner
    <3> QED
      BY <1>5, <2>1, <3>1, <3>2, TakesRefreshes
  <2>2. CASE s # r
    <3>1. Rotates(s, rows[u].familyId) /\ req'[s] = req[s]
      BY <1>5, <1>6, <2>2, TakesRefreshes
    <3> QED
      BY <1>5, <3>1 DEF OneOwner
  <2> QED
    BY <2>1, <2>2
<1>7. OneOwner'
  BY <1>5, <1>6 DEF OneOwner
<1> QED
  BY <1>4, <1>7

(* SavePair and SaveNext: a live token t of session g and admin a is       *)
(* stored, and request r, which could only refresh g, ends.                *)
Stores(r, t, g, a) ==
  /\ t \notin DOMAIN rows /\ g \in Family
  /\ DOMAIN rows' = DOMAIN rows \cup {t}
  /\ rows'[t] = [familyId |-> g, sub |-> a, used |-> FALSE, revoked |-> FALSE]
  /\ \A u \in DOMAIN rows : rows'[u] = rows[u]
  /\ Become(r, Idle)
  /\ \A f : Rotates(r, f) => f = g

LEMMA SavePairStores ==
  ASSUME TypeOK, NEW r \in Request, NEW t \in Token, NEW g \in Family,
         SavePair(r, t, g)
  PROVE  Stores(r, t, g, req[r].sub)
<1>1. \A f : ~Rotates(r, f)
  BY DEF SavePair, Rotates, At
<1> QED
  BY <1>1 DEF SavePair, Save, Insert, Stores

LEMMA SaveNextStores ==
  ASSUME TypeOK, NEW r \in Request, NEW t \in Token, SaveNext(r, t)
  PROVE  Stores(r, t, req[r].record.familyId, req[r].record.sub)
<1>1. req[r].record.familyId \in Family
  BY HandlerType DEF SaveNext, Row, TypeOK
<1>2. \A f : Rotates(r, f) => f = req[r].record.familyId
  BY DEF Rotates
<1> QED
  BY <1>1, <1>2 DEF SaveNext, Save, Insert, Stores

(* They keep one bearer and one owner when nothing else bears session g,   *)
(* and its tokens are of the same admin.                                   *)
LEMMA StoresOne ==
  ASSUME TypeOK, OneBearer, OneOwner,
         NEW r \in Request, NEW t, NEW g, NEW a,
         Stores(r, t, g, a),
         \A u \in DOMAIN rows : ~Unused(u, g),
         \A s \in Request : s # r => ~Rotates(s, g),
         \A u \in DOMAIN rows : rows[u].familyId = g => rows[u].sub = a
  PROVE  OneBearer' /\ OneOwner'
<1>1. \A s \in Request : \A f : Rotates(s, f)' =>
        s # r /\ Rotates(s, f) /\ req'[s].record = req[s].record
  BY LeaveRefresh, IdleHandler DEF Stores
<1>2. \A s \in Request : \A f : Rotates(s, f)' => f # g
  BY <1>1
<1>3. \A u \in DOMAIN rows', f \in Family : Unused(u, f)' =>
        \/ u = t /\ f = g
        \/ u \in DOMAIN rows /\ Unused(u, f) /\ f # g
  BY DEF Stores, Unused
<1>4. OneBearer'
  BY <1>1, <1>2, <1>3 DEF OneBearer
<1>5. \A u \in DOMAIN rows' :
        \/ u = t /\ rows'[u].familyId = g /\ rows'[u].sub = a
        \/ u \in DOMAIN rows /\ rows'[u] = rows[u]
  BY DEF Stores
<1>6. \A u, v \in DOMAIN rows' :
        rows'[u].familyId = rows'[v].familyId => rows'[u].sub = rows'[v].sub
  BY <1>5 DEF OneOwner
<1>7. \A s \in Request, u \in DOMAIN rows' :
        Rotates(s, rows[u].familyId)' => req'[s].record.sub = rows'[u].sub
  BY <1>1, <1>2, <1>5 DEF OneOwner
<1>8. OneOwner'
  BY <1>6, <1>7 DEF OneOwner
<1> QED
  BY <1>4, <1>8

LEMMA SavePairOne ==
  ASSUME TypeOK, Stored, OneBearer, OneOwner, NEW r \in Request,
         NEW t \in Token, NEW g \in Family, SavePair(r, t, g)
  PROVE  OneBearer' /\ OneOwner'
<1>1. \A u \in DOMAIN rows : rows[u].familyId # g
  BY DEF SavePair, FamilyOf
<1>2. \A s \in Request : ~Rotates(s, g)
  BY <1>1 DEF Stored, Rotates
<1> QED
  BY <1>1, <1>2, SavePairStores, StoresOne DEF Unused

LEMMA SaveNextOne ==
  ASSUME TypeOK, Stored, OneBearer, OneOwner, NEW r \in Request,
         NEW t \in Token, SaveNext(r, t)
  PROVE  OneBearer' /\ OneOwner'
<1>1. PICK g, a : g = req[r].record.familyId /\ a = req[r].record.sub
  OBVIOUS
<1>2. Stores(r, t, g, a) /\ g \in Family
  BY <1>1, SaveNextStores DEF Stores
<1>3. Rotates(r, g)
  BY <1>1 DEF SaveNext, Rotates
<1>4. /\ \A u \in DOMAIN rows : ~Unused(u, g)
      /\ \A s \in Request : s # r => ~Rotates(s, g)
  BY <1>2, <1>3 DEF OneBearer
<1>5. \A u \in DOMAIN rows : rows[u].familyId = g => rows[u].sub = a
  BY <1>1, <1>3 DEF OneOwner
<1> QED
  BY <1>2, <1>4, <1>5, StoresOne

LEMMA NextOne ==
  TypeOK /\ Stored /\ OneBearer /\ OneOwner /\ [Next]_vars =>
    OneBearer' /\ OneOwner'
<1> SUFFICES ASSUME TypeOK, Stored, OneBearer, OneOwner, [Next]_vars
             PROVE  OneBearer' /\ OneOwner'
  OBVIOUS
<1>1. ASSUME NEW r \in Request, Start(r) \/ Plain(r)
      PROVE  OneBearer' /\ OneOwner'
  BY <1>1, StartKeeps, PlainKeeps, NoNewBearerOne
<1>2. ASSUME NEW r \in Request, ConsumeWin(r), At(r, "find")'
      PROVE  OneBearer' /\ OneOwner'
  BY <1>2, ConsumeWinTakes, TakesOne
<1>3. CASE UNCHANGED vars
  BY <1>3 DEF vars, OneBearer, OneOwner, Unused, Rotates, At
<1> QED
  BY <1>1, <1>2, <1>3, SavePairOne, SaveNextOne DEF Next, Resume, Plain

(* A session of an admin has one token to exchange or one refresh in       *)
(* progress, and every token of it belongs to the same admin, however      *)
(* refreshes, logouts, removals and late saves interleave.                 *)
THEOREM OneBearerHolds == Spec => [](OneBearer /\ OneOwner)
<1>1. Init => OneBearer /\ OneOwner
  BY DEF Init, OneBearer, OneOwner, Unused, Rotates, At, Idle
<1>2. TypeOK /\ Stored /\ OneBearer /\ OneOwner /\ [Next]_vars =>
        OneBearer' /\ OneOwner'
  BY NextOne
<1> QED
  BY <1>1, <1>2, TypeCorrect, PTL DEF Spec

-----------------------------------------------------------------------------
(***************************************************************************)
(* The life of a session.  SavePair opens, ConsumeWin takes, SaveNext      *)
(* renews; every other step closes some sessions, or none.                 *)
(***************************************************************************)
Tokens(f) == {t \in DOMAIN rows : rows[t].familyId = f}

LiveTokens(f) == {t \in Tokens(f) : ~rows[t].used /\ ~rows[t].revoked}

Refreshed(f) == \E r \in Request : Rotates(r, f)

PhaseNow(f) ==
  IF Tokens(f) = {} THEN "none"
  ELSE IF LiveTokens(f) # {} THEN "open"
  ELSE IF Refreshed(f) THEN "rotating"
  ELSE "closed"

LEMMA PhaseIs ==
  /\ phaseOf = [f \in Family |-> PhaseNow(f)]
  /\ phaseOf' = [f \in Family |-> PhaseNow(f)']
  /\ chainOf = [f \in Family |-> Tokens(f)]
  /\ chainOf' = [f \in Family |-> Tokens(f)']
<1>1. ASSUME NEW f
      PROVE  /\ FamilyOf(rows, f) = Tokens(f)
             /\ (\E t \in FamilyOf(rows, f) : Live(t)) <=> LiveTokens(f) # {}
  BY DEF FamilyOf, Tokens, LiveTokens, Live
<1>2. ASSUME NEW f
      PROVE  /\ FamilyOf(rows', f) = Tokens(f)'
             /\ (\E t \in FamilyOf(rows', f) : Live(t)') <=> LiveTokens(f)' # {}
  BY DEF FamilyOf, Tokens, LiveTokens, Live
<1>3. phaseOf = [f \in Family |-> PhaseNow(f)]
  BY <1>1 DEF phaseOf, PhaseNow, Refreshed
<1>4. phaseOf' = [f \in Family |-> PhaseNow(f)']
  BY <1>2 DEF phaseOf, PhaseNow, Refreshed
<1> QED
  BY <1>1, <1>2, <1>3, <1>4 DEF chainOf

(* A session with a live token is refreshed by nobody. *)
LEMMA OpenIsNotRefreshed ==
  ASSUME OneBearer, NEW f \in Family, LiveTokens(f) # {}
  PROVE  ~Refreshed(f)
BY DEF OneBearer, LiveTokens, Tokens, Unused, Refreshed

LEMMA Closes ==
  ASSUME OneBearer, NoNewBearer
  PROVE  [Lifecycle!Next]_(Lifecycle!vars)
<1> DEFINE S == {f \in Family : PhaseNow(f) \in {"open", "rotating"}
                                  /\ PhaseNow(f)' = "closed"}
<1>1. ASSUME NEW f \in Family
      PROVE  /\ Tokens(f)' = Tokens(f)
             /\ LiveTokens(f)' \subseteq LiveTokens(f)
             /\ Refreshed(f)' => Refreshed(f)
  BY DEF NoNewBearer, Ages, Tokens, LiveTokens, Refreshed
<1>2. ASSUME NEW f \in Family
      PROVE  PhaseNow(f)' = IF f \in S THEN "closed" ELSE PhaseNow(f)
  BY <1>1, OpenIsNotRefreshed DEF PhaseNow
<1>3. \A f \in S : phaseOf[f] \in {"open", "rotating"}
  BY PhaseIs
<1>4. phaseOf' = [f \in Family |-> IF f \in S THEN "closed" ELSE phaseOf[f]]
  BY <1>2, PhaseIs
<1>5. chainOf' = chainOf
  BY <1>1, PhaseIs
<1>6. S \in SUBSET Family
  OBVIOUS
<1> HIDE DEF S
<1>7. Lifecycle!Close(S)
  BY <1>3, <1>4, <1>5 DEF Lifecycle!Close
<1> QED
  BY <1>6, <1>7 DEF Lifecycle!Next

(* What does not concern session f leaves its phase alone. *)
LEMMA SamePhase ==
  ASSUME NEW f, Tokens(f)' = Tokens(f), LiveTokens(f)' = LiveTokens(f),
         Refreshed(f)' <=> Refreshed(f)
  PROVE  PhaseNow(f)' = PhaseNow(f)
BY DEF PhaseNow

LEMMA TakesTake ==
  ASSUME TypeOK, OneBearer, NEW r \in Request, NEW t, NEW g,
         Takes(r, t, g)
  PROVE  Lifecycle!Take(g)
<1>1. /\ t \in DOMAIN rows /\ g \in Family
      /\ rows[t].familyId = g /\ ~rows[t].used /\ ~rows[t].revoked
      /\ DOMAIN rows' = DOMAIN rows
      /\ rows'[t].familyId = g /\ rows'[t].used
      /\ \A u \in DOMAIN rows : u # t => rows'[u] = rows[u]
  BY DEF Takes
<1>2. \A f : Tokens(f)' = Tokens(f)
  BY <1>1 DEF Tokens
<1>3. PhaseNow(g) = "open"
  BY <1>1 DEF PhaseNow, LiveTokens, Tokens
<1>4. LiveTokens(g) = {t} /\ LiveTokens(g)' = {}
  BY <1>1 DEF OneBearer, Unused, LiveTokens, Tokens
<1>5. PhaseNow(g)' = "rotating"
  <2>1. Refreshed(g)'
    BY TakesRefreshes DEF Refreshed
  <2>2. t \in Tokens(g)'
    BY <1>1 DEF Tokens
  <2> QED
    BY <1>4, <2>1, <2>2 DEF PhaseNow
<1>6. ASSUME NEW f \in Family, f # g
      PROVE  PhaseNow(f)' = PhaseNow(f)
  <2>1. LiveTokens(f)' = LiveTokens(f)
    BY <1>1, <1>2, <1>6 DEF LiveTokens, Tokens
  <2>2. ~Rotates(r, f) /\ ~Rotates(r, f)'
      BY <1>6, TakesRefreshes
  <2>3. Refreshed(f)' <=> Refreshed(f)
    BY <2>2, TakesRefreshes DEF Refreshed
  <2> QED
    BY <1>2, <2>1, <2>3, SamePhase
<1>7. phaseOf' = [phaseOf EXCEPT ![g] = "rotating"]
  BY <1>5, <1>6, PhaseIs
<1>8. phaseOf[g] = "open" /\ chainOf' = chainOf
  BY <1>1, <1>2, <1>3, PhaseIs
<1> QED
  BY <1>7, <1>8 DEF Lifecycle!Take

(* What an insert does to the sessions: the new token is its own's only    *)
(* live one, and the others are as they were.                              *)
LEMMA StoresPhases ==
  ASSUME TypeOK, NEW r \in Request, NEW t, NEW g, NEW a,
         Stores(r, t, g, a)
  PROVE  /\ phaseOf' = [phaseOf EXCEPT ![g] = "open"]
         /\ chainOf' = [chainOf EXCEPT ![g] = @ \cup {t}]
         /\ Lifecycle!Fresh(t)
<1>1. /\ t \notin DOMAIN rows /\ g \in Family
      /\ DOMAIN rows' = DOMAIN rows \cup {t}
      /\ rows'[t].familyId = g /\ ~rows'[t].used /\ ~rows'[t].revoked
      /\ \A u \in DOMAIN rows : rows'[u] = rows[u]
  BY DEF Stores
<1>2. /\ Tokens(g)' = Tokens(g) \cup {t}
      /\ \A f \in Family : f # g => Tokens(f)' = Tokens(f)
  BY <1>1 DEF Tokens
<1>3. PhaseNow(g)' = "open"
  <2>1. t \in LiveTokens(g)'
    BY <1>1 DEF LiveTokens, Tokens
  <2> QED
    BY <1>2, <2>1 DEF PhaseNow
<1>4. ASSUME NEW f \in Family, f # g
      PROVE  PhaseNow(f)' = PhaseNow(f)
  <2>1. LiveTokens(f)' = LiveTokens(f)
    BY <1>1, <1>4 DEF LiveTokens, Tokens
  <2>2. ~Rotates(r, f)
    BY <1>4 DEF Stores
  <2>3. \A s \in Request : Rotates(s, f)' <=> Rotates(s, f)
    BY <2>2, LeaveRefresh, OthersRefresh, IdleHandler DEF Stores
  <2> QED
    BY <1>2, <1>4, <2>1, <2>3, SamePhase DEF Refreshed
<1>5. phaseOf' = [phaseOf EXCEPT ![g] = "open"]
  BY <1>3, <1>4, PhaseIs
<1>6. chainOf' = [chainOf EXCEPT ![g] = @ \cup {t}]
  BY <1>2, PhaseIs
<1>7. Lifecycle!Fresh(t)
  BY <1>1, PhaseIs DEF Lifecycle!Fresh, Tokens
<1> QED
  BY <1>5, <1>6, <1>7

LEMMA SavePairOpens ==
  ASSUME TypeOK, NEW r \in Request, NEW t \in Token, NEW g \in Family,
         SavePair(r, t, g)
  PROVE  Lifecycle!Open(g, t)
<1>1. PICK a : Stores(r, t, g, a)
  BY SavePairStores
<1>2. Tokens(g) = {}
  BY DEF SavePair, FamilyOf, Tokens
<1>3. phaseOf[g] = "none" /\ chainOf[g] = {}
  BY <1>2, PhaseIs DEF PhaseNow
<1>4. chainOf' = [chainOf EXCEPT ![g] = {t}]
  BY <1>1, <1>3, StoresPhases
<1> QED
  BY <1>1, <1>3, <1>4, StoresPhases DEF Lifecycle!Open

LEMMA SaveNextRenews ==
  ASSUME TypeOK, Stored, OneBearer, NEW r \in Request, NEW t \in Token,
         SaveNext(r, t)
  PROVE  \E g \in Family : Lifecycle!Renew(g, t)
<1>1. PICK g, a : g = req[r].record.familyId /\ Stores(r, t, g, a)
  BY SaveNextStores
<1>2. g \in Family /\ Rotates(r, g)
  BY <1>1 DEF Stores, SaveNext, Rotates
<1>3. Tokens(g) # {}
  BY <1>1 DEF SaveNext, Stored, Tokens
<1>4. LiveTokens(g) = {}
  BY <1>2, OpenIsNotRefreshed DEF Refreshed
<1>5. phaseOf[g] = "rotating"
  BY <1>2, <1>3, <1>4, PhaseIs DEF PhaseNow, Refreshed
<1> QED
  BY <1>1, <1>2, <1>5, StoresPhases DEF Lifecycle!Renew

LEMMA NextLives ==
  ASSUME TypeOK, Stored, OneBearer, [Next]_vars
  PROVE  [Lifecycle!Next]_(Lifecycle!vars)
<1>1. ASSUME NEW r \in Request, Start(r) \/ Plain(r)
      PROVE  [Lifecycle!Next]_(Lifecycle!vars)
  BY <1>1, StartKeeps, PlainKeeps, Closes
<1>2. ASSUME NEW r \in Request, ConsumeWin(r), At(r, "find")'
      PROVE  Lifecycle!Next
  <2>1. PICK t, g : Takes(r, t, g)
    BY <1>2, ConsumeWinTakes
  <2>2. g \in Family /\ Lifecycle!Take(g)
    BY <2>1, TakesTake DEF Takes
  <2> QED
    BY <2>2 DEF Lifecycle!Next
<1>3. ASSUME NEW r \in Request, NEW t \in Token,
             SaveNext(r, t) \/ \E f \in Family : SavePair(r, t, f)
      PROVE  Lifecycle!Next
  BY <1>3, SavePairOpens, SaveNextRenews DEF Lifecycle!Next
<1>4. CASE UNCHANGED vars
  <2>1. NoNewBearer
    BY <1>4, SameRowsGrow DEF vars, NoNewBearer, TableGrows, Rotates, At
  <2> QED
    BY <2>1, Closes
<1> QED
  BY <1>1, <1>2, <1>3, <1>4 DEF Next, Resume, Plain

(* The table and the handlers of admins implement the life of a session:   *)
(* one token at a time, or one refresh, and closed is final.               *)
THEOREM SessionsLiveOnceHolds == Spec => SessionsLiveOnce
<1>1. Init => Lifecycle!Init
  <2> SUFFICES ASSUME Init
               PROVE  Lifecycle!Init
    OBVIOUS
  <2>1. \A f \in Family : Tokens(f) = {}
    BY DEF Init, Tokens
  <2> QED
    BY <2>1, PhaseIs DEF Lifecycle!Init, PhaseNow
<1>2. TypeOK /\ Stored /\ OneBearer /\ [Next]_vars =>
        [Lifecycle!Next]_(Lifecycle!vars)
  BY NextLives
<1> QED
  BY <1>1, <1>2, TypeCorrect, OneBearerHolds, PTL
     DEF Spec, SessionsLiveOnce, Lifecycle!Spec

-----------------------------------------------------------------------------
(***************************************************************************)
(* The end of an admin.                                                    *)
(***************************************************************************)

(* Who is issuing for admin a after a step is the handler that moved, or   *)
(* was issuing before.                                                     *)
IssuesFor(h, a) ==
  \/ h.at = "savePair" /\ h.sub = a
  \/ h.at = "saveNext" /\ h.record.sub = a

LEMMA IssuersCome ==
  ASSUME TypeOK, NEW r \in Request, NEW h, Become(r, h),
         NEW a, Issuing(a)'
  PROVE  Issuing(a) \/ IssuesFor(h, a)
<1>1. PICK s \in Request : IssuesFor(req'[s], a)
  BY DEF Issuing, IssuesFor, At
<1>2. CASE s = r
  BY <1>1, <1>2 DEF TypeOK, Become
<1>3. CASE s # r
  <2>1. IssuesFor(req[s], a)
    BY <1>1, <1>3 DEF TypeOK, Become
  <2> QED
    BY <2>1 DEF Issuing, IssuesFor, At
<1> QED
  BY <1>2, <1>3

(* The rows of an admin, when no row comes in. *)
LEMMA AgedRowsOf ==
  ASSUME DOMAIN rows' = DOMAIN rows, \A t \in DOMAIN rows : Ages(rows[t], rows'[t]),
         NEW a
  PROVE  TokensOf(a)' = TokensOf(a)
BY DEF TokensOf, Ages

(* A handler begins to issue for admins who have a row only. *)
LEMMA StartFinds ==
  ASSUME TypeOK, NEW r \in Request, Start(r),
         NEW a, a \notin admins, Issuing(a)'
  PROVE  Issuing(a)
<1>1. ASSUME NEW h, Become(r, h), h.at \notin {"savePair", "saveNext"}
      PROVE  Issuing(a)
  BY <1>1, IssuersCome DEF IssuesFor
<1>2. ASSUME NEW b \in Admin, PairFind(r, b)
      PROVE  Issuing(a)
  <2> DEFINE h == [at |-> "savePair", sub |-> b]
  <2>1. Become(r, h) /\ ~IssuesFor(h, a)
    BY <1>2 DEF PairFind, IssuesFor
  <2> QED
    BY <2>1, IssuersCome
<1>3. ASSUME NEW b \in Admin, NEW label \in {"remove", "saveEntity"},
             AdminFind(r, b, label)
      PROVE  Issuing(a)
  BY <1>1, <1>3 DEF AdminFind
<1>4. ASSUME NEW t \in Token, RefreshVerify(r, t) \/ LogoutFind(r, t)
      PROVE  Issuing(a)
  BY <1>1, <1>4 DEF RefreshVerify, LogoutFind
<1> QED
  BY <1>2, <1>3, <1>4 DEF Start

LEMMA ResumeFinds ==
  ASSUME TypeOK, NEW r \in Request, Resume(r) \/ Abort(r),
         NEW a, a \notin admins, Issuing(a)'
  PROVE  Issuing(a)
<1>1. ASSUME NEW h, Become(r, h), h.at \notin {"savePair", "saveNext"}
      PROVE  Issuing(a)
  BY <1>1, IssuersCome DEF IssuesFor
<1>2. ASSUME Become(r, Idle)
      PROVE  Issuing(a)
  BY <1>1, <1>2, IdleHandler
<1>3. CASE ConsumeWin(r)
  BY <1>1, <1>3 DEF ConsumeWin
<1>4. CASE ConsumeLose(r) \/ Lookup(r) \/ RevokeSession(r)
           \/ RemoveUpdate(r) \/ RemoveLock(r)
  BY <1>1, <1>2, <1>4
     DEF ConsumeLose, Lookup, RevokeSession, RemoveUpdate, RemoveLock
<1>5. CASE RefreshFind(r)
  <2> DEFINE h == [at |-> "saveNext", record |-> req[r].record]
  <2>1. Become(r, h) /\ ~IssuesFor(h, a)
    BY <1>5 DEF RefreshFind, IssuesFor
  <2> QED
    BY <2>1, IssuersCome
<1> QED
  BY <1>2, <1>3, <1>4, <1>5
     DEF Resume, SavePair, SaveNext, RevokeRows, RemoveCommit, SaveEntity, Abort

(* A row is stored for an admin by a handler that was issuing for it. *)
LEMMA StoresFor ==
  ASSUME NEW r \in Request, NEW t, NEW g, NEW b, Stores(r, t, g, b),
         NEW a, a # b
  PROVE  TokensOf(a)' = TokensOf(a)
BY DEF Stores, TokensOf

LEMMA NextRowsOf ==
  ASSUME TypeOK, Stored, [Next]_vars, NEW a, ~Issuing(a)
  PROVE  TokensOf(a)' = TokensOf(a)
<1>1. ASSUME NEW r \in Request, Start(r) \/ Plain(r)
      PROVE  TokensOf(a)' = TokensOf(a)
  BY <1>1, StartKeeps, PlainKeeps, AgedRowsOf DEF NoNewBearer
<1>2. ASSUME NEW r \in Request, ConsumeWin(r), At(r, "find")'
      PROVE  TokensOf(a)' = TokensOf(a)
  BY <1>2, ConsumeWinTakes DEF Takes, TokensOf
<1>3. ASSUME NEW r \in Request, NEW t \in Token, NEW f \in Family, SavePair(r, t, f)
      PROVE  TokensOf(a)' = TokensOf(a)
  BY <1>3, SavePairStores, StoresFor DEF SavePair, Issuing
<1>4. ASSUME NEW r \in Request, NEW t \in Token, SaveNext(r, t)
      PROVE  TokensOf(a)' = TokensOf(a)
  BY <1>4, SaveNextStores, StoresFor DEF SaveNext, Issuing
<1>5. CASE UNCHANGED vars
  BY <1>5 DEF vars, TokensOf
<1> QED
  BY <1>1, <1>2, <1>3, <1>4, <1>5 DEF Next, Resume, Plain

(* Once nobody is issuing for an admin without a row nobody will, unless   *)
(* the row comes back, and none of its tokens is added or lost.            *)
THEOREM RemovedGetsNoTokenHolds == Spec => RemovedGetsNoToken
<1>1. ASSUME TypeOK, Stored, [Next]_vars,
             NEW a \in Admin \ (admins \cup admins'),
             ~Issuing(a)
      PROVE  ~Issuing(a)' /\ TokensOf(a)' = TokensOf(a)
  <2>1. ~Issuing(a)'
    <3>1. CASE UNCHANGED vars
      BY <1>1, <3>1 DEF vars, Issuing, At
    <3> QED
      BY <1>1, <3>1, StartFinds, ResumeFinds DEF Next
  <2> QED
    BY <1>1, <2>1, NextRowsOf
<1>2. TypeOK /\ Stored /\ [Next]_vars =>
        [\A a \in Admin \ (admins \cup admins') :
           ~Issuing(a) => ~Issuing(a)' /\ TokensOf(a)' = TokensOf(a)]_vars
  BY <1>1
<1> QED
  BY <1>2, TypeCorrect, PTL DEF Spec, RemovedGetsNoToken

(***************************************************************************)
(* What a removal leaves.  Between its UPDATE and its COMMIT its own       *)
(* transaction holds every token of the admin that can be used, but those  *)
(* that were stored after the UPDATE had looked: they are late.  COMMIT    *)
(* revokes the ones it holds.                                              *)
(***************************************************************************)
HeldOrLate ==
  \A r \in Request, a \in Admin, t \in DOMAIN rows :
    Removing(r, a) /\ rows[t].sub = a /\ Live(t) => t \in req[r].tokens \cup late

ClosedBut == RemovalClosesSessions /\ HeldOrLate

(* The removals in progress after the steps of another handler, and of one *)
(* that does not take part in any.                                         *)
LEMMA RemovalsStay ==
  ASSUME TypeOK, NEW r \in Request, NEW h, Become(r, h),
         h.at \notin {"lock", "delete"}
  PROVE  \A s \in Request : \A a :
           Removing(s, a)' => Removing(s, a) /\ req'[s].tokens = req[s].tokens
BY DEF TypeOK, Become, Removing, At

(* Steps that only age the rows, lose no admin and enter no removal. *)
LEMMA AgedClosed ==
  ASSUME TypeOK, ClosedBut, TableGrows, DOMAIN rows' = DOMAIN rows,
         admins \subseteq admins', late' = late,
         \A s \in Request : \A a :
           Removing(s, a)' => Removing(s, a) /\ req'[s].tokens = req[s].tokens
  PROVE  ClosedBut'
<1>1. \A t \in DOMAIN rows : /\ rows'[t].sub = rows[t].sub
                             /\ Live(t)' => Live(t)
  BY DEF TableGrows, Ages, Live
<1> QED
  BY <1>1 DEF ClosedBut, RemovalClosesSessions, HeldOrLate

LEMMA StartClosed ==
  ASSUME TypeOK, ClosedBut, NEW r \in Request, Start(r)
  PROVE  ClosedBut'
<1>1. UNCHANGED <<rows, admins, late>>
  BY DEF Start, PairFind, AdminFind, RefreshVerify, LogoutFind
<1>2. PICK h : Become(r, h) /\ h.at \notin {"lock", "delete"}
  <2>1. ASSUME NEW a \in Admin, NEW label \in {"savePair", "remove", "saveEntity"},
               Become(r, [at |-> label, sub |-> a])
        PROVE  \E h : Become(r, h) /\ h.at \notin {"lock", "delete"}
    BY <2>1
  <2>2. ASSUME NEW t \in Token, RefreshVerify(r, t) \/ LogoutFind(r, t)
        PROVE  \E h : Become(r, h) /\ h.at \notin {"lock", "delete"}
    BY <2>2 DEF RefreshVerify, LogoutFind
  <2> QED
    BY <2>1, <2>2 DEF Start, PairFind, AdminFind
<1> QED
  BY <1>1, <1>2, SameRowsGrow, RemovalsStay, AgedClosed

(* A new token is late, or its admin has a row that nobody is removing. *)
LEMMA SaveClosed ==
  ASSUME TypeOK, ClosedBut, NEW r \in Request, NEW t \in Token, NEW f, NEW a,
         Save(t, f, a), Stamp(t, a), Become(r, Idle), admins' = admins
  PROVE  ClosedBut'
<1>1. /\ DOMAIN rows' = DOMAIN rows \cup {t}
      /\ rows'[t].sub = a
      /\ \A u \in DOMAIN rows : rows'[u] = rows[u]
  BY DEF Save, Insert
<1>2. \A s \in Request : \A b :
        Removing(s, b)' => Removing(s, b) /\ req'[s].tokens = req[s].tokens
  BY RemovalsStay, IdleHandler
<1>3. late \subseteq late'
  BY DEF Stamp
<1>4. t \in late' \/ (a \in admins /\ \A s \in Request : ~Removing(s, a))
  BY DEF Stamp
<1>5. \A u \in DOMAIN rows : Live(u)' => Live(u)
  BY <1>1 DEF Live
<1>6. RemovalClosesSessions'
  BY <1>1, <1>3, <1>4, <1>5 DEF ClosedBut, RemovalClosesSessions
<1>7. HeldOrLate'
  BY <1>1, <1>2, <1>3, <1>4, <1>5 DEF ClosedBut, HeldOrLate
<1> QED
  BY <1>6, <1>7 DEF ClosedBut

(* A removal's own steps.  The UPDATE takes all the admin's tokens, and    *)
(* what it drops when it gets its locks has been revoked.                  *)
LEMMA RemovalGoesOn ==
  ASSUME TypeOK, ClosedBut, NEW r \in Request, RemoveUpdate(r) \/ RemoveLock(r)
  PROVE  ClosedBut'
<1>1. PICK h : /\ Become(r, h) /\ h.sub = req[r].sub
               /\ h.tokens = {t \in IF At(r, "remove") THEN TokensOf(h.sub)
                                                      ELSE req[r].tokens :
                                ~rows[t].revoked}
               /\ At(r, "remove") \/ Removing(r, h.sub)
  BY DEF RemoveUpdate, RemoveLock, Removing, At
<1>2. UNCHANGED <<rows, admins, late>>
  BY DEF RemoveUpdate, RemoveLock
<1>3. /\ req'[r] = h
      /\ \A s \in Request : s # r => req'[s] = req[s]
  BY <1>1 DEF Become, TypeOK
<1>4. ASSUME NEW s \in Request, NEW a \in Admin, NEW t \in DOMAIN rows,
             Removing(s, a)', rows[t].sub = a, Live(t)
      PROVE  t \in req'[s].tokens \cup late
  <2>1. CASE s = r
    <3>1. h.sub = a /\ ~rows[t].revoked
      BY <1>3, <1>4, <2>1 DEF Removing, Live
    <3>2. CASE At(r, "remove")
      BY <1>1, <1>3, <2>1, <1>4, <3>1, <3>2 DEF TokensOf
    <3>3. CASE ~At(r, "remove")
      <4>1. t \in req[r].tokens \cup late
        BY <1>1, <1>4, <3>1, <3>3 DEF ClosedBut, HeldOrLate
      <4> QED
        BY <1>1, <1>3, <2>1, <3>1, <3>3, <4>1
    <3> QED
      BY <3>2, <3>3
  <2>2. CASE s # r
    <3>1. Removing(s, a) /\ req'[s] = req[s]
      BY <1>3, <1>4, <2>2 DEF Removing, At
    <3> QED
      BY <1>4, <3>1 DEF ClosedBut, HeldOrLate
  <2> QED
    BY <2>1, <2>2
<1>5. HeldOrLate'
  BY <1>2, <1>4 DEF HeldOrLate, Live
<1>6. RemovalClosesSessions'
  BY <1>2 DEF ClosedBut, RemovalClosesSessions, Live
<1> QED
  BY <1>5, <1>6 DEF ClosedBut

LEMMA CommitClosed ==
  ASSUME TypeOK, ClosedBut, NEW r \in Request, RemoveCommit(r)
  PROVE  ClosedBut'
<1> DEFINE a == req[r].sub
<1>1. a \in Admin /\ Removing(r, a)
  BY HandlerType DEF RemoveCommit, TypeOK, Removing
<1>2. /\ DOMAIN rows' = DOMAIN rows
      /\ \A u \in DOMAIN rows : Ages(rows[u], rows'[u])
      /\ \A u \in DOMAIN rows \cap req[r].tokens : rows'[u].revoked
  BY RevokeTable DEF RemoveCommit, TypeOK
<1>3. \A u \in DOMAIN rows : /\ rows'[u].sub = rows[u].sub
                             /\ Live(u)' => Live(u)
                             /\ u \in req[r].tokens => ~Live(u)'
  BY <1>2 DEF Ages, Live
<1>4. \A s \in Request : \A b :
        Removing(s, b)' => Removing(s, b) /\ req'[s].tokens = req[s].tokens
  BY RemovalsStay, IdleHandler DEF RemoveCommit
<1>5. late' = late /\ admins' = admins \ {a}
  BY DEF RemoveCommit
<1> HIDE DEF a
<1>6. RemovalClosesSessions'
  BY <1>1, <1>2, <1>3, <1>5 DEF ClosedBut, RemovalClosesSessions, HeldOrLate
<1>7. HeldOrLate'
  BY <1>2, <1>3, <1>4, <1>5 DEF ClosedBut, HeldOrLate
<1> QED
  BY <1>6, <1>7 DEF ClosedBut

LEMMA ResumeClosed ==
  ASSUME TypeOK, Stored, ClosedBut, NEW r \in Request, Resume(r) \/ Abort(r)
  PROVE  ClosedBut'
<1>1. CASE ConsumeWin(r)
  <2>1. TableGrows /\ DOMAIN rows' = DOMAIN rows
    BY <1>1, MarkUsedTable DEF ConsumeWin, Stored, TableGrows, TypeOK, MarkUsed, Ages
  <2>2. PICK h : Become(r, h) /\ h.at \in {"find", "revoke"}
    BY <1>1 DEF ConsumeWin
  <2> QED
    BY <1>1, <2>1, <2>2, RemovalsStay, AgedClosed DEF ConsumeWin
<1>2. CASE ConsumeLose(r) \/ Lookup(r) \/ RefreshFind(r) \/ RevokeSession(r)
           \/ Abort(r)
  <2>1. UNCHANGED <<rows, admins, late>>
    BY <1>2 DEF ConsumeLose, Lookup, RefreshFind, RevokeSession, Abort
  <2>2. PICK h : Become(r, h) /\ h.at \notin {"lock", "delete"}
    BY <1>2, IdleHandler
       DEF ConsumeLose, Lookup, RefreshFind, RevokeSession, Abort
  <2> QED
    BY <2>1, <2>2, SameRowsGrow, RemovalsStay, AgedClosed
<1>3. CASE RevokeRows(r)
  <2>1. TableGrows /\ DOMAIN rows' = DOMAIN rows
    BY <1>3, RevokeGrows, RevokeTable DEF RevokeRows, TypeOK
  <2> QED
    BY <1>3, <2>1, IdleHandler, RemovalsStay, AgedClosed DEF RevokeRows
<1>4. CASE SaveEntity(r)
  BY <1>4, SameRowsGrow, IdleHandler, RemovalsStay, AgedClosed DEF SaveEntity
<1>5. ASSUME NEW t \in Token, SaveNext(r, t) \/ \E f \in Family : SavePair(r, t, f)
      PROVE  ClosedBut'
  BY <1>5, SaveClosed DEF SaveNext, SavePair
<1> QED
  BY <1>1, <1>2, <1>3, <1>4, <1>5, RemovalGoesOn, CommitClosed DEF Resume

(* After a removal, however logins, refreshes, logouts, other removals and *)
(* late saves of the admin interleave with its two statements, the only    *)
(* tokens of the admin that can be used are those stored while it ran, or  *)
(* since.                                                                  *)
THEOREM RemovalClosesSessionsHolds == Spec => []RemovalClosesSessions
<1>1. Init => ClosedBut
  BY DEF Init, ClosedBut, RemovalClosesSessions, HeldOrLate
<1>2. TypeOK /\ Stored /\ ClosedBut /\ [Next]_vars => ClosedBut'
  <2> SUFFICES ASSUME TypeOK, Stored, ClosedBut, [Next]_vars
               PROVE  ClosedBut'
    OBVIOUS
  <2>1. CASE UNCHANGED vars
    BY <2>1 DEF vars, ClosedBut, RemovalClosesSessions, HeldOrLate, Live,
                Removing, At
  <2> QED
    BY <2>1, StartClosed, ResumeClosed DEF Next
<1>3. ClosedBut => RemovalClosesSessions
  BY DEF ClosedBut
<1> QED
  BY <1>1, <1>2, <1>3, TypeCorrect, PTL DEF Spec
=============================================================================
