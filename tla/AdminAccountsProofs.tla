------------------------ MODULE AdminAccountsProofs ------------------------
(***************************************************************************)
(* What AdminAccounts guarantees for any admins, usernames, passwords and  *)
(* requests, whatever their interleaving and wherever the process ends.    *)
(***************************************************************************)
EXTENDS AdminAccounts, FiniteSetTheorems, TLAPS

(* The password that a request has sent is in the entity it will save. *)
Sent ==
  \A r \in Request :
    req[r].at \in {"select", "update", "insert"} /\ req[r].password # "none" =>
      req[r].entity.password = req[r].password

-----------------------------------------------------------------------------
(* What the statements of EntityTable do to the table of admins. *)
LEMMA UpdateKeepsType ==
  ASSUME TypeOK, NEW a, NEW entity \in Entity, NEW columns
  PROVE  UpdateColumns(admins, a, entity, columns) \in [DOMAIN admins -> Entity]
<1> DEFINE row(b) == [c \in DOMAIN admins[b] |->
                        IF c \in columns THEN entity[c] ELSE admins[b][c]]
<1>1. ASSUME NEW b \in DOMAIN admins
      PROVE  row(b) \in Entity
  <2>1. admins[b] \in Entity
    BY DEF TypeOK
  <2>2. /\ DOMAIN row(b) = {"username", "password"}
        /\ row(b)["username"] \in Username /\ row(b)["password"] \in Password
    BY <2>1 DEF Entity
  <2> QED
    BY <2>2 DEF Entity
<1> HIDE DEF row
<1>2. UpdateColumns(admins, a, entity, columns)
        = [b \in DOMAIN admins |-> IF b = a THEN row(b) ELSE admins[b]]
  BY DEF UpdateColumns, row
<1> QED
  BY <1>1, <1>2 DEF TypeOK

LEMMA InsertKeepsType ==
  ASSUME TypeOK, NEW a \in Admin, NEW entity \in Entity,
         admins' = InsertRow(admins, a, entity)
  PROVE  /\ DOMAIN admins' = DOMAIN admins \cup {a} /\ DOMAIN admins' \subseteq Admin
         /\ admins' \in [DOMAIN admins' -> Entity]
         /\ admins'[a] = entity
         /\ \A b \in DOMAIN admins \ {a} : admins'[b] = admins[b]
BY DEF InsertRow, TypeOK

LEMMA ToSaveIs ==
  ASSUME NEW a \in Admin, NEW entity \in Entity, NEW p \in NewPassword
  PROVE  /\ ToSave(a, entity, p) \in Handler
         /\ ToSave(a, entity, p).at = "select"
         /\ ToSave(a, entity, p).id = a
         /\ ToSave(a, entity, p).password = p
         /\ p # "none" => ToSave(a, entity, p).entity.password = p
<1>1. (IF p = "none" THEN entity ELSE [entity EXCEPT !.password = p]) \in Entity
  BY DEF Entity, NewPassword
<1>2. p # "none" => [entity EXCEPT !.password = p].password = p
  BY DEF Entity
<1> QED
  BY <1>1, <1>2 DEF ToSave, Handler

(* One request moves; its new record and the table decide. *)
LEMMA MoveKeepsType ==
  ASSUME TypeOK, NEW r \in Request, NEW h \in Handler, Become(r, h)
  PROVE  /\ req' \in [Request -> Handler]
         /\ req'[r] = h
         /\ \A q \in Request \ {r} : req'[q] = req[q]
BY DEF TypeOK, Become

LEMMA MoveKeepsSent ==
  ASSUME TypeOK, Sent, NEW r \in Request, NEW h \in Handler, Become(r, h),
         h.at \in {"select", "update", "insert"} /\ h.password # "none" =>
           h.entity.password = h.password
  PROVE  Sent'
BY MoveKeepsType DEF Sent

LEMMA IdleIs == Idle \in Handler /\ Idle.at = "idle"
BY DEF Idle, Handler

-----------------------------------------------------------------------------
LEMMA InitInv == Init => TypeOK /\ Sent
BY IdleIs DEF Init, TypeOK, Sent

LEMMA StartInv ==
  ASSUME TypeOK, Sent, NEW r \in Request, Start(r)
  PROVE  TypeOK' /\ Sent'
<1>1. ASSUME NEW n \in Username, NEW p \in Password, CreateFind(r, n, p)
      PROVE  TypeOK' /\ Sent'
  <2> DEFINE h == [at |-> "insertNew", entity |-> [username |-> n, password |-> p]]
  <2>1. h \in Handler /\ h.at = "insertNew"
    BY DEF Handler, Entity
  <2>2. Become(r, h) /\ UNCHANGED <<admins, boot, removed>>
    BY <1>1 DEF CreateFind
  <2> HIDE DEF h
  <2> QED
    BY <2>1, <2>2, MoveKeepsType, MoveKeepsSent DEF TypeOK
<1>2. ASSUME NEW a \in Admin, NEW n \in NewName, NEW p \in NewPassword,
             UpdateFind(r, a, n, p)
      PROVE  TypeOK' /\ Sent'
  <2>1. a \in DOMAIN admins /\ admins[a] \in Entity
          /\ UNCHANGED <<admins, boot, removed>>
    BY <1>2 DEF UpdateFind, TypeOK
  <2>2. CASE n \in {"none", admins[a].username}
    <3>1. Become(r, ToSave(a, admins[a], p))
      BY <1>2, <2>2 DEF UpdateFind
    <3> QED
      BY <2>1, <3>1, ToSaveIs, MoveKeepsType, MoveKeepsSent DEF TypeOK
  <2>3. CASE n \notin {"none", admins[a].username}
    <3> DEFINE h == [at |-> "checkName", id |-> a, entity |-> admins[a],
                     username |-> n, password |-> p]
    <3>1. h \in Handler /\ h.at = "checkName"
      BY <2>1, <2>3 DEF Handler, NewName
    <3>2. Become(r, h)
      BY <1>2, <2>3 DEF UpdateFind
    <3> HIDE DEF h
    <3> QED
      BY <2>1, <3>1, <3>2, MoveKeepsType, MoveKeepsSent DEF TypeOK
  <2> QED
    BY <2>2, <2>3
<1>3. ASSUME NEW a \in Admin, RemoveFind(r, a)
      PROVE  TypeOK' /\ Sent'
  <2> DEFINE h == [at |-> "count", id |-> a]
  <2>1. h \in Handler /\ h.at = "count"
    BY DEF Handler
  <2>2. Become(r, h) /\ UNCHANGED <<admins, boot, removed>>
    BY <1>3 DEF RemoveFind
  <2> HIDE DEF h
  <2> QED
    BY <2>1, <2>2, MoveKeepsType, MoveKeepsSent DEF TypeOK
<1> QED
  BY <1>1, <1>2, <1>3 DEF Start

(* The record of a request that is to save an entity. *)
LEMMA Saving ==
  ASSUME TypeOK, NEW r \in Request
  PROVE  /\ req[r] \in Handler
         /\ req[r].at = "insertNew" => req[r].entity \in Entity
         /\ req[r].at \in {"checkName", "select", "update", "insert"} =>
              /\ req[r].id \in Admin /\ req[r].entity \in Entity
              /\ req[r].password \in NewPassword
         /\ req[r].at = "checkName" => req[r].username \in Username
         /\ req[r].at \in {"count", "delete"} => req[r].id \in Admin
BY DEF TypeOK, Handler

LEMMA ResumeInv ==
  ASSUME TypeOK, Sent, NEW r \in Request, Resume(r)
  PROVE  TypeOK' /\ Sent'
<1>1. ASSUME NEW a \in Admin, CreateSave(r, a)
      PROVE  TypeOK' /\ Sent'
  <2>1. /\ req[r].entity \in Entity /\ Become(r, Idle)
        /\ admins' = InsertRow(admins, a, req[r].entity)
        /\ UNCHANGED <<boot, removed>>
    BY <1>1, Saving DEF CreateSave, InsertNew, At
  <2>2. DOMAIN admins' \subseteq Admin /\ admins' \in [DOMAIN admins' -> Entity]
    BY <2>1, InsertKeepsType DEF TypeOK
  <2> QED
    BY <2>1, <2>2, IdleIs, MoveKeepsType, MoveKeepsSent DEF TypeOK
<1>2. CASE CheckName(r)
  <2> DEFINE e == [req[r].entity EXCEPT !.username = req[r].username]
  <2>1. e \in Entity
    BY <1>2, Saving DEF CheckName, At, Entity
  <2>2. /\ Become(r, ToSave(req[r].id, e, req[r].password))
        /\ UNCHANGED <<admins, boot, removed>>
        /\ req[r].id \in Admin /\ req[r].password \in NewPassword
    BY <1>2, Saving DEF CheckName, At
  <2> HIDE DEF e
  <2> QED
    BY <2>1, <2>2, ToSaveIs, MoveKeepsType, MoveKeepsSent DEF TypeOK
<1>3. CASE Select(r)
  <2>1. /\ req[r].at = "select" /\ req[r].id \in Admin
        /\ req[r].entity \in Entity /\ req[r].password \in NewPassword
        /\ UNCHANGED <<admins, boot, removed>>
    BY <1>3, Saving DEF Select, At
  <2>2. req[r].password # "none" => req[r].entity.password = req[r].password
    BY <2>1 DEF Sent
  <2>3. CASE req[r].id \in DOMAIN admins
    <3> DEFINE h == [at |-> "update", id |-> req[r].id, entity |-> req[r].entity,
                     password |-> req[r].password,
                     columns |-> Changed(admins, req[r].id, req[r].entity)]
    <3>1. Changed(admins, req[r].id, req[r].entity)
            \in SUBSET {"username", "password"}
      BY <2>1 DEF Changed, Entity
    <3>2. /\ h \in Handler /\ h.at = "update"
          /\ h.entity = req[r].entity /\ h.password = req[r].password
      BY <2>1, <3>1 DEF Handler
    <3>3. Become(r, h)
      BY <1>3, <2>3 DEF Select
    <3> HIDE DEF h
    <3> QED
      BY <2>1, <2>2, <3>2, <3>3, MoveKeepsType, MoveKeepsSent DEF TypeOK
  <2>4. CASE req[r].id \notin DOMAIN admins
    <3>1. PICK h : h = [req[r] EXCEPT !.at = "insert"]
      OBVIOUS
    <3>2. /\ h \in Handler /\ h.at = "insert"
          /\ h.entity = req[r].entity /\ h.password = req[r].password
      BY <2>1, <3>1 DEF Handler, TypeOK
    <3>3. Become(r, h)
      BY <1>3, <2>4, <3>1 DEF Select
    <3> QED
      BY <2>1, <2>2, <3>2, <3>3, MoveKeepsType, MoveKeepsSent DEF TypeOK
  <2> QED
    BY <2>3, <2>4
<1>4. CASE Update(r)
  <2>1. /\ req[r].entity \in Entity /\ Become(r, Idle)
        /\ admins' = UpdateColumns(admins, req[r].id, req[r].entity,
                                   req[r].columns)
        /\ UNCHANGED <<boot, removed>>
    BY <1>4, Saving DEF Update, At
  <2>2. DOMAIN admins' \subseteq Admin /\ admins' \in [DOMAIN admins' -> Entity]
    BY <2>1, UpdateKeepsType DEF TypeOK
  <2> QED
    BY <2>1, <2>2, IdleIs, MoveKeepsType, MoveKeepsSent DEF TypeOK
<1>5. CASE Insert(r)
  <2>1. /\ req[r].entity \in Entity /\ req[r].id \in Admin /\ Become(r, Idle)
        /\ admins' = InsertRow(admins, req[r].id, req[r].entity)
        /\ UNCHANGED <<boot, removed>>
    BY <1>5, Saving DEF Insert, At
  <2>2. DOMAIN admins' \subseteq Admin /\ admins' \in [DOMAIN admins' -> Entity]
    BY <2>1, InsertKeepsType DEF TypeOK
  <2> QED
    BY <2>1, <2>2, IdleIs, MoveKeepsType, MoveKeepsSent DEF TypeOK
<1>6. CASE RemoveCount(r)
  <2>1. PICK h : /\ h \in Handler /\ h.at \in {"idle", "delete"}
                 /\ Become(r, h)
    <3>1. [at |-> "delete", id |-> req[r].id] \in Handler
      BY <1>6, Saving DEF RemoveCount, At, Handler
    <3> QED
      BY <1>6, <3>1, IdleIs DEF RemoveCount
  <2> QED
    BY <1>6, <2>1, MoveKeepsType, MoveKeepsSent DEF RemoveCount, TypeOK
<1>7. CASE RemoveCommit(r)
  <2>1. /\ req[r].id \in Admin /\ Become(r, Idle)
        /\ admins' = DeleteRow(admins, req[r].id)
        /\ removed' = removed \cup {req[r].id} /\ UNCHANGED boot
    BY <1>7, Saving DEF RemoveCommit, At
  <2>2. DOMAIN admins' \subseteq Admin /\ admins' \in [DOMAIN admins' -> Entity]
    BY <2>1 DEF DeleteRow, TypeOK
  <2> QED
    BY <2>1, <2>2, IdleIs, MoveKeepsType, MoveKeepsSent DEF TypeOK
<1> QED
  BY <1>1, <1>2, <1>3, <1>4, <1>5, <1>6, <1>7 DEF Resume

LEMMA NextInv == TypeOK /\ Sent /\ [Next]_vars => (TypeOK /\ Sent)'
<1> SUFFICES ASSUME TypeOK, Sent, [Next]_vars
             PROVE  TypeOK' /\ Sent'
  OBVIOUS
<1>1. ASSUME NEW r \in Request, Abort(r)
      PROVE  TypeOK' /\ Sent'
  BY <1>1, IdleIs, MoveKeepsType, MoveKeepsSent DEF Abort, TypeOK
<1>2. CASE Restart
  BY <1>2, IdleIs DEF Restart, TypeOK, Sent
<1>3. CASE SeedFind
  BY <1>3 DEF SeedFind, TypeOK, Sent
<1>4. ASSUME NEW a \in Admin, SeedSave(a)
      PROVE  TypeOK' /\ Sent'
  <2>1. [username |-> Seeded, password |-> SeededPassword] \in Entity
    BY SeededAssumption DEF Entity
  <2>2. DOMAIN admins' \subseteq Admin /\ admins' \in [DOMAIN admins' -> Entity]
    BY <1>4, <2>1, InsertKeepsType DEF SeedSave, InsertNew, TypeOK
  <2> QED
    BY <1>4, <2>2 DEF SeedSave, TypeOK, Sent
<1>5. CASE UNCHANGED vars
  BY <1>5 DEF vars, TypeOK, Sent
<1> QED
  BY <1>1, <1>2, <1>3, <1>4, <1>5, StartInv, ResumeInv DEF Next

LEMMA Invariance == Spec => [](TypeOK /\ Sent)
BY InitInv, NextInv, PTL DEF Spec

(* The table holds whole admins, and each request what its step needs, at *)
(* every moment of every start, request and removal.                      *)
THEOREM TypeCorrect == Spec => []TypeOK
BY Invariance, PTL

-----------------------------------------------------------------------------
(* A request that is over has nothing to save; the others have kept what   *)
(* they held.                                                              *)
LEMMA IdleHoldsNothing ==
  ASSUME TypeOK, NEW r \in Request, Become(r, Idle)
  PROVE  \A q \in Request, a \in Admin : Holds(q, a)' => Holds(q, a)
BY IdleIs, MoveKeepsType DEF Holds

(* Nobody comes to hold an admin that is not in the table. *)
LEMMA HoldsFromTable ==
  ASSUME TypeOK, [Next]_vars, NEW a \in Admin, a \notin DOMAIN admins,
         \A q \in Request : ~Holds(q, a)
  PROVE  \A q \in Request : ~Holds(q, a)'
<1>1. ASSUME NEW r \in Request, Start(r)
      PROVE  \A q \in Request : ~Holds(q, a)'
  BY <1>1 DEF Start, CreateFind, UpdateFind, RemoveFind, ToSave, Become, Holds,
              At, TypeOK
<1>2. ASSUME NEW r \in Request, Resume(r)
      PROVE  \A q \in Request : ~Holds(q, a)'
  <2>1. ASSUME Become(r, Idle)
        PROVE  \A q \in Request : ~Holds(q, a)'
    BY <2>1, IdleHoldsNothing
  <2>2. CASE CheckName(r)
    BY <2>2 DEF CheckName, ToSave, Become, Holds, At, TypeOK
  <2>3. CASE Select(r)
    <3>1. req[r].at = "select" /\ req[r].id # a
      BY <2>3 DEF Select, At, Holds
    <3>2. PICK h : Become(r, h) /\ h.id = req[r].id
      <4>1. CASE req[r].id \in DOMAIN admins
        BY <2>3, <4>1 DEF Select
      <4>2. CASE req[r].id \notin DOMAIN admins
        <5>1. [req[r] EXCEPT !.at = "insert"].id = req[r].id
          BY <3>1, Saving DEF Handler
        <5> QED
          BY <2>3, <4>2, <5>1 DEF Select
      <4> QED
        BY <4>1, <4>2
    <3> QED
      BY <3>1, <3>2 DEF Become, Holds, TypeOK
  <2>4. CASE RemoveCount(r)
    BY <2>4 DEF RemoveCount, Idle, Become, Holds, TypeOK
  <2> QED
    BY <1>2, <2>1, <2>2, <2>3, <2>4
       DEF Resume, CreateSave, Update, Insert, RemoveCommit
<1>3. ASSUME NEW r \in Request, Abort(r)
      PROVE  \A q \in Request : ~Holds(q, a)'
  BY <1>3, IdleHoldsNothing DEF Abort
<1>4. CASE Restart
  BY <1>4 DEF Restart, Idle, Holds
<1>5. CASE SeedFind \/ (\E b \in Admin : SeedSave(b)) \/ UNCHANGED vars
  BY <1>5 DEF SeedFind, SeedSave, vars, Holds
<1> QED
  BY <1>1, <1>2, <1>3, <1>4, <1>5 DEF Next

(* An admin comes into the table as a new one, or from a request that      *)
(* holds it.                                                               *)
LEMMA RowsComeFrom ==
  ASSUME TypeOK, [Next]_vars, NEW a \in DOMAIN admins', a \notin DOMAIN admins
  PROVE  a \notin removed \/ \E r \in Request : Holds(r, a)
<1>1. ASSUME NEW r \in Request, Resume(r)
      PROVE  a \notin removed \/ Holds(r, a)
  <2>1. ASSUME NEW b \in Admin, CreateSave(r, b)
        PROVE  a \notin removed
    BY <2>1 DEF CreateSave, InsertNew, InsertRow
  <2>2. CASE Insert(r)
    BY <2>2 DEF Insert, InsertRow, At, Holds
  <2>3. CASE CheckName(r) \/ Select(r) \/ Update(r)
    BY <2>3 DEF CheckName, Select, Update, UpdateColumns
  <2>4. CASE RemoveCount(r) \/ RemoveCommit(r)
    BY <2>4 DEF RemoveCount, RemoveCommit, DeleteRow
  <2> QED
    BY <1>1, <2>1, <2>2, <2>3, <2>4 DEF Resume
<1>2. ASSUME NEW b \in Admin, SeedSave(b)
      PROVE  a \notin removed
  BY <1>2 DEF SeedSave, InsertNew, InsertRow
<1>3. ASSUME NEW r \in Request, Start(r)
      PROVE  FALSE
  BY <1>3 DEF Start, CreateFind, UpdateFind, RemoveFind
<1>4. CASE SeedFind \/ Restart \/ (\E r \in Request : Abort(r)) \/ UNCHANGED vars
  BY <1>4 DEF SeedFind, Restart, Abort, vars
<1> QED
  BY <1>1, <1>2, <1>3, <1>4 DEF Next

(* Removal is for good, once the requests that had found the admin are     *)
(* over.                                                                   *)
THEOREM RemovedStaysOutHolds == Spec => RemovedStaysOutOnceDrained
<1>1. TypeOK /\ [Next]_vars =>
        [\A a \in removed \ DOMAIN admins :
           (\A r \in Request : ~Holds(r, a)) =>
             /\ a \notin DOMAIN admins'
             /\ \A r \in Request : ~Holds(r, a)']_vars
  <2> SUFFICES ASSUME TypeOK, [Next]_vars, NEW a \in removed \ DOMAIN admins,
                      \A r \in Request : ~Holds(r, a)
               PROVE  /\ a \notin DOMAIN admins'
                      /\ \A r \in Request : ~Holds(r, a)'
    OBVIOUS
  <2>1. a \in Admin
    BY DEF TypeOK
  <2> QED
    BY <2>1, RowsComeFrom, HoldsFromTable
<1> QED
  BY <1>1, TypeCorrect, PTL DEF Spec, RemovedStaysOutOnceDrained

(* The password of an admin changes only to one that was sent for it, the  *)
(* writing back of an older one apart.                                     *)
THEOREM PasswordsStayHolds == Spec => PasswordsStay
<1>1. TypeOK /\ Sent /\ [Next]_vars =>
        [\A a \in DOMAIN admins \cap DOMAIN admins' :
           (\A r \in Request : ~Stale(r, a)) =>
             \/ admins'[a].password = admins[a].password
             \/ \E r \in Request :
                  Holds(r, a) /\ req[r].password = admins'[a].password]_vars
  <2> SUFFICES ASSUME TypeOK, Sent, [Next]_vars,
                      NEW a \in DOMAIN admins \cap DOMAIN admins',
                      \A r \in Request : ~Stale(r, a)
               PROVE  \/ admins'[a].password = admins[a].password
                      \/ \E r \in Request :
                           Holds(r, a) /\ req[r].password = admins'[a].password
    OBVIOUS
  <2>1. ASSUME NEW r \in Request, Update(r)
        PROVE  \/ admins'[a].password = admins[a].password
               \/ Holds(r, a) /\ req[r].password = admins'[a].password
    <3>1. req[r].at = "update" /\ req[r].entity \in Entity
      BY <2>1, Saving DEF Update, At
    <3>2. CASE req[r].id # a
      BY <2>1, <3>2 DEF Update, UpdateColumns
    <3>3. CASE req[r].id = a
      <4>1. Holds(r, a)
        BY <3>1, <3>3 DEF Holds
      <4>2. admins[a] \in Entity /\ "password" \in DOMAIN admins[a]
        BY DEF TypeOK, Entity
      <4>3. \/ admins'[a]["password"] = admins[a]["password"]
            \/ admins'[a]["password"] = req[r].entity["password"]
        BY <2>1, <3>3, <4>2 DEF Update, UpdateColumns
      <4>4. CASE req[r].password = "none"
        <5>1. req[r].entity.password = admins[a].password
          BY <4>1, <4>4 DEF Stale
        <5> QED
          BY <4>3, <5>1
      <4>5. CASE req[r].password # "none"
        <5>1. req[r].entity.password = req[r].password
          BY <3>1, <4>5 DEF Sent
        <5> QED
          BY <4>1, <4>3, <5>1
      <4> QED
        BY <4>4, <4>5
    <3> QED
      BY <3>2, <3>3
  <2>2. ASSUME NEW r \in Request, Resume(r), ~Update(r)
        PROVE  admins'[a] = admins[a]
    <3>1. ASSUME NEW b \in Admin, CreateSave(r, b)
          PROVE  admins'[a] = admins[a]
      BY <3>1 DEF CreateSave, InsertNew, InsertRow
    <3>2. CASE Insert(r)
      BY <3>2 DEF Insert, InsertRow
    <3>3. CASE RemoveCommit(r)
      BY <3>3 DEF RemoveCommit, DeleteRow
    <3> QED
      BY <2>2, <3>1, <3>2, <3>3 DEF Resume, CheckName, Select, RemoveCount
  <2>3. ASSUME NEW b \in Admin, SeedSave(b)
        PROVE  admins'[a] = admins[a]
    BY <2>3 DEF SeedSave, InsertNew, InsertRow
  <2>4. ASSUME NEW r \in Request, Start(r)
        PROVE  admins' = admins
    BY <2>4 DEF Start, CreateFind, UpdateFind, RemoveFind
  <2>5. CASE SeedFind \/ Restart \/ (\E r \in Request : Abort(r)) \/ UNCHANGED vars
    BY <2>5 DEF SeedFind, Restart, Abort, vars
  <2> QED
    BY <2>1, <2>2, <2>3, <2>4, <2>5 DEF Next
<1> QED
  BY <1>1, Invariance, PTL DEF Spec, PasswordsStay

(* Whoever was removed or renamed before, a start that gets as far as      *)
(* listening has the configured admin.                                     *)
THEOREM ListensSeededHolds == Spec => ListensSeeded
<1>1. [Next]_vars => [boot # "up" /\ boot' = "up" => ~Free(Seeded)']_vars
  <2> SUFFICES ASSUME [Next]_vars, boot # "up", boot' = "up"
               PROVE  ~Free(Seeded)'
    OBVIOUS
  <2>1. CASE SeedFind
    BY <2>1 DEF SeedFind, Free
  <2>2. ASSUME NEW a \in Admin, SeedSave(a)
        PROVE  ~Free(Seeded)'
    BY <2>2 DEF SeedSave, InsertNew, InsertRow, Free
  <2>3. CASE boot' = boot
    BY <2>3
  <2>4. ASSUME NEW r \in Request, Start(r) \/ Resume(r) \/ Abort(r)
        PROVE  boot' = boot
    BY <2>4 DEF Start, CreateFind, UpdateFind, RemoveFind, Resume, CreateSave,
                CheckName, Select, Update, Insert, RemoveCount, RemoveCommit,
                Abort
  <2> QED
    BY <2>1, <2>2, <2>3, <2>4 DEF Next, Restart, vars
<1> QED
  BY <1>1, PTL DEF Spec, ListensSeeded

-----------------------------------------------------------------------------
(***************************************************************************)
(* Two of the claims that the code does not keep hold of the handlers that *)
(* do not overlap.  Each theorem names the overlap that must not happen,   *)
(* which is what a lock of the row, or of the table, would see to.         *)
(***************************************************************************)

(* No two removals are between their count and their DELETE at once. *)
OneRemover ==
  \A r, s \in Request : At(r, "delete") /\ At(s, "delete") => r = s

(* A removal that has counted is not about to delete the last admin. *)
Counted ==
  /\ IsFiniteSet(DOMAIN admins)
  /\ \A r \in Request :
       At(r, "delete") => \E a, b \in DOMAIN admins : a # b

LEMMA TwoOfMany ==
  ASSUME NEW S, IsFiniteSet(S), ~(Cardinality(S) <= 1)
  PROVE  \E a, b \in S : a # b
<1>1. Cardinality(S) \in Nat
  BY FS_CardinalityType
<1>2. S # {}
  BY <1>1, FS_EmptySet
<1>3. PICK a \in S : TRUE
  BY <1>2
<1>4. S # {a}
  BY <1>1, FS_Singleton
<1> QED
  BY <1>3, <1>4

(* Only removals make the table smaller. *)
LEMMA RowsStay ==
  ASSUME TypeOK, [Next]_vars, ~\E r \in Request : RemoveCommit(r)
  PROVE  /\ DOMAIN admins \subseteq DOMAIN admins'
         /\ IsFiniteSet(DOMAIN admins) => IsFiniteSet(DOMAIN admins')
<1>1. ASSUME NEW a, NEW entity, admins' = InsertRow(admins, a, entity)
      PROVE  /\ DOMAIN admins \subseteq DOMAIN admins'
             /\ IsFiniteSet(DOMAIN admins) => IsFiniteSet(DOMAIN admins')
  BY <1>1, FS_AddElement DEF InsertRow
<1>2. ASSUME NEW r \in Request, Update(r)
      PROVE  DOMAIN admins' = DOMAIN admins
  BY <1>2 DEF Update, UpdateColumns
<1>3. ASSUME NEW r \in Request, Resume(r)
      PROVE  /\ DOMAIN admins \subseteq DOMAIN admins'
             /\ IsFiniteSet(DOMAIN admins) => IsFiniteSet(DOMAIN admins')
  BY <1>1, <1>2, <1>3 DEF Resume, CreateSave, InsertNew, CheckName, Select,
                          Insert, RemoveCount
<1>4. ASSUME NEW a \in Admin, SeedSave(a)
      PROVE  /\ DOMAIN admins \subseteq DOMAIN admins'
             /\ IsFiniteSet(DOMAIN admins) => IsFiniteSet(DOMAIN admins')
  BY <1>1, <1>4 DEF SeedSave, InsertNew
<1> QED
  BY <1>3, <1>4 DEF Next, Start, CreateFind, UpdateFind, RemoveFind, Abort,
                    Restart, SeedFind, vars

(* A request comes to its DELETE by counting. *)
LEMMA DeleteFromCount ==
  ASSUME TypeOK, [Next]_vars, NEW r \in Request, At(r, "delete")', ~At(r, "delete")
  PROVE  ~(Cardinality(DOMAIN admins) <= 1) /\ admins' = admins
<1>1. ASSUME NEW q \in Request, NEW h, Become(q, h), h.at # "delete"
      PROVE  FALSE
  BY <1>1 DEF TypeOK, Become, At
<1>2. ASSUME NEW q \in Request, Start(q)
      PROVE  FALSE
  BY <1>1, <1>2 DEF Start, CreateFind, UpdateFind, ToSave, RemoveFind
<1>3. ASSUME NEW q \in Request, Resume(q)
      PROVE  RemoveCount(q) /\ ~(Cardinality(DOMAIN admins) <= 1)
  <2>1. ~CheckName(q)
    BY <1>1 DEF CheckName, ToSave
  <2>2. ~Select(q)
    <3> SUFFICES ASSUME Select(q)
                 PROVE  FALSE
      OBVIOUS
    <3>1. CASE req[q].id \in DOMAIN admins
      BY <1>1, <3>1 DEF Select
    <3>2. CASE req[q].id \notin DOMAIN admins
      <4>1. PICK h : h = [req[q] EXCEPT !.at = "insert"]
        OBVIOUS
      <4>2. h.at = "insert"
        BY <4>1, Saving DEF Select, At, Handler
      <4>3. Become(q, h)
        BY <3>2, <4>1 DEF Select
      <4> QED
        BY <1>1, <4>2, <4>3
    <3> QED
      BY <3>1, <3>2
  <2>3. ~Become(q, Idle)
    BY <1>1 DEF Idle
  <2> QED
    BY <1>3, <2>1, <2>2, <2>3
       DEF Resume, CreateSave, Update, Insert, RemoveCount, RemoveCommit
<1>4. ASSUME NEW q \in Request, Abort(q)
      PROVE  FALSE
  BY <1>1, <1>4 DEF Abort, Idle
<1>5. ~(Restart \/ SeedFind \/ (\E a \in Admin : SeedSave(a)) \/ UNCHANGED vars)
  BY DEF Restart, SeedFind, SeedSave, vars, At, Idle
<1> QED
  BY <1>2, <1>3, <1>4, <1>5 DEF Next, RemoveCount

LEMMA CountedHolds ==
  ASSUME TypeOK, Counted, OneRemover, [Next]_vars
  PROVE  /\ Counted'
         /\ DOMAIN admins # {} => DOMAIN admins' # {}
<1>1. ASSUME NEW r \in Request, RemoveCommit(r)
      PROVE  /\ Counted'
             /\ DOMAIN admins' # {}
  <2>1. /\ At(r, "delete") /\ Become(r, Idle)
        /\ DOMAIN admins' = DOMAIN admins \ {req[r].id}
    BY <1>1 DEF RemoveCommit, DeleteRow
  <2>2. IsFiniteSet(DOMAIN admins')
    BY <2>1, FS_RemoveElement DEF Counted
  <2>3. DOMAIN admins' # {}
    BY <2>1 DEF Counted
  <2>4. \A s \in Request : ~At(s, "delete")'
    BY <2>1, IdleIs, MoveKeepsType DEF OneRemover, At
  <2> QED
    BY <2>2, <2>3, <2>4 DEF Counted
<1>2. CASE ~\E r \in Request : RemoveCommit(r)
  <2>1. ASSUME NEW r \in Request, At(r, "delete")'
        PROVE  \E a, b \in DOMAIN admins : a # b
    BY <2>1, DeleteFromCount, TwoOfMany DEF Counted
  <2> QED
    BY <1>2, <2>1, RowsStay DEF Counted
<1> QED
  BY <1>1, <1>2

(* remove's refusal does keep the last admin, if nothing else than one     *)
(* removal at a time is let past the count: the count is then still right  *)
(* when the row goes, whatever the other handlers and the seeder do.       *)
THEOREM LastAdminStaysWithOneRemover == Spec /\ []OneRemover => LastAdminStays
<1>1. Init => Counted
  BY FS_EmptySet DEF Init, Counted, At, Idle
<1>2. TypeOK /\ Counted /\ OneRemover /\ [Next]_vars => Counted'
  BY CountedHolds
<1>3. TypeOK /\ Counted /\ OneRemover /\ [Next]_vars
        => [DOMAIN admins # {} => DOMAIN admins' # {}]_vars
  BY CountedHolds
<1> QED
  BY <1>1, <1>2, <1>3, TypeCorrect, PTL DEF Spec, LastAdminStays

-----------------------------------------------------------------------------
(* No admin is deleted while another request holds its entity. *)
NoneHeldAtDelete ==
  \A r, s \in Request : At(s, "delete") => ~Holds(r, req[s].id)

(* What is removed is gone, from the table and from the requests. *)
Gone ==
  \A a \in removed : a \notin DOMAIN admins /\ \A r \in Request : ~Holds(r, a)

(* An admin is removed by the request that deletes its row. *)
LEMMA RemovedBy ==
  ASSUME TypeOK, [Next]_vars, NEW a \in removed', a \notin removed
  PROVE  \E s \in Request : RemoveCommit(s) /\ a = req[s].id
<1>1. ASSUME NEW r \in Request, Resume(r)
      PROVE  RemoveCommit(r) /\ a = req[r].id
  BY <1>1 DEF Resume, CreateSave, CheckName, Select, Update, Insert, RemoveCount,
              RemoveCommit
<1> QED
  BY <1>1 DEF Next, Start, CreateFind, UpdateFind, RemoveFind, Abort, Restart,
              SeedFind, SeedSave, vars

LEMMA GoneHolds ==
  ASSUME TypeOK, Gone, NoneHeldAtDelete, [Next]_vars
  PROVE  Gone'
<1> SUFFICES ASSUME NEW a \in removed'
             PROVE  /\ a \notin DOMAIN admins'
                    /\ \A r \in Request : ~Holds(r, a)'
  BY DEF Gone
<1>1. CASE a \in removed
  <2>1. a \in Admin
    BY <1>1 DEF TypeOK
  <2> QED
    BY <1>1, <2>1, RowsComeFrom, HoldsFromTable DEF Gone
<1>2. CASE a \notin removed
  <2>1. PICK s \in Request : RemoveCommit(s) /\ a = req[s].id
    BY <1>2, RemovedBy
  <2>2. a \in Admin /\ a \notin DOMAIN admins'
    BY <2>1, Saving DEF RemoveCommit, At, DeleteRow
  <2>3. \A r \in Request : ~Holds(r, a)
    BY <2>1 DEF RemoveCommit, NoneHeldAtDelete
  <2> QED
    BY <2>1, <2>2, <2>3, IdleHoldsNothing DEF RemoveCommit
<1> QED
  BY <1>1, <1>2

(* A removed admin does stay out, if its row is not deleted while an       *)
(* updateSelf that has found it is still to save.                          *)
THEOREM RemovedStaysOutUnlessHeld ==
  Spec /\ []NoneHeldAtDelete => []RemovedStaysOut
<1>1. Init => Gone
  BY DEF Init, Gone
<1>2. TypeOK /\ Gone /\ NoneHeldAtDelete /\ [Next]_vars => Gone'
  BY GoneHolds
<1>3. Gone => RemovedStaysOut
  BY DEF Gone, RemovedStaysOut
<1> QED
  BY <1>1, <1>2, <1>3, TypeCorrect, PTL DEF Spec
=============================================================================
