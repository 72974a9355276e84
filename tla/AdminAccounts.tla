--------------------------- MODULE AdminAccounts ---------------------------
(***************************************************************************)
(* The admins themselves: AdminService.create, updateSelf and remove over  *)
(* the admins table, and AdminSeeder, which runs each time the process     *)
(* starts and before it listens.  The columns of the second factor are in  *)
(* AdminTwoFactor, the sessions in AdminSessions.                          *)
(***************************************************************************)
EXTENDS EntityTable, FiniteSets, Naturals

CONSTANTS
  Admin,      \* ids; each is a fresh UUID
  Username,
  Password,
  Request,
  Seeded,     \* ADMIN_USERNAME_SEEDER
  SeededPassword

ASSUME SeededAssumption == Seeded \in Username /\ SeededPassword \in Password

VARIABLES
  admins,     \* the admins table
  boot,       \* where main's start is: "find" and "save" of the seeder, "up"
  req,
  removed     \* history: the ids whose row a remove has deleted

vars == <<admins, boot, req, removed>>

Entity == [username: Username, password: Password]

NewName == Username \cup {"none"}

NewPassword == Password \cup {"none"}

Handler ==
  [at: {"idle"}]
    \cup [at: {"insertNew"}, entity: Entity]
    \cup [at: {"checkName"}, id: Admin, entity: Entity, username: Username,
          password: NewPassword]
    \cup [at: {"select", "insert"}, id: Admin, entity: Entity,
          password: NewPassword]
    \cup [at: {"update"}, id: Admin, entity: Entity, password: NewPassword,
          columns: SUBSET {"username", "password"}]
    \cup [at: {"count", "delete"}, id: Admin]

TypeOK ==
  /\ DOMAIN admins \subseteq Admin /\ admins \in [DOMAIN admins -> Entity]
  /\ boot \in {"find", "save", "up"}
  /\ req \in [Request -> Handler]
  /\ removed \subseteq Admin

Idle == [at |-> "idle"]

Init ==
  /\ admins = [a \in {} |-> <<>>]
  /\ boot = "find"
  /\ req = [r \in Request |-> Idle]
  /\ removed = {}

Become(r, h) == req' = [req EXCEPT ![r] = h]

At(r, label) == req[r].at = label

(* findOne({ where: { username } }). *)
Free(n) == \A a \in DOMAIN admins : admins[a].username # n

(* The unique index on username, which a statement must respect, whatever  *)
(* the handlers' own look at the table some awaits before has found.       *)
UniqueName(rows) ==
  \A a, b \in DOMAIN rows : rows[a].username = rows[b].username => a = b

(* INSERT of an entity that has no id yet. *)
InsertNew(a, entity) ==
  /\ a \notin DOMAIN admins \cup removed
  /\ admins' = InsertRow(admins, a, entity)
  /\ UniqueName(admins')

-----------------------------------------------------------------------------
(* create: the username is free; bcrypt.hash, then save. *)
CreateFind(r, n, p) ==
  /\ boot = "up" /\ At(r, "idle")
  /\ Free(n)
  /\ Become(r, [at |-> "insertNew", entity |-> [username |-> n, password |-> p]])
  /\ UNCHANGED <<admins, boot, removed>>

CreateSave(r, a) ==
  /\ At(r, "insertNew")
  /\ InsertNew(a, req[r].entity)
  /\ Become(r, Idle)
  /\ UNCHANGED <<boot, removed>>

(* The handler that has its entity, the password set when one was sent.    *)
(* Slip: set in any case.                                                  *)
ToSave_Blank(a, entity, p) ==
  [at |-> "select", id |-> a, password |-> p,
   entity |-> [entity EXCEPT !.password = p]]

ToSave(a, entity, p) ==
  [at |-> "select", id |-> a, password |-> p,
   entity |-> IF p = "none" THEN entity ELSE [entity EXCEPT !.password = p]]

(* updateSelf: findOne by the id in the access token.  Slip: the guard has *)
(* let the token through, and that will do.                                *)
UpdateFind_NoLookup(r, a, n, p) ==
  /\ boot = "up" /\ At(r, "idle")
  /\ a \in DOMAIN admins \cup removed
  /\ n # "none" /\ p # "none"
  /\ Become(r, ToSave(a, [username |-> n, password |-> p], p))
  /\ UNCHANGED <<admins, boot, removed>>

UpdateFind(r, a, n, p) ==
  /\ boot = "up" /\ At(r, "idle")
  /\ a \in DOMAIN admins
  /\ Become(r, IF n \in {"none", admins[a].username}
                 THEN ToSave(a, admins[a], p)
                 ELSE [at |-> "checkName", id |-> a, entity |-> admins[a],
                       username |-> n, password |-> p])
  /\ UNCHANGED <<admins, boot, removed>>

CheckName(r) ==
  LET h == req[r] IN
  /\ At(r, "checkName")
  /\ Free(h.username)
  /\ Become(r, ToSave(h.id, [h.entity EXCEPT !.username = h.username], h.password))
  /\ UNCHANGED <<admins, boot, removed>>

(* save(admin): SELECT by id, then UPDATE or INSERT. *)
Select(r) ==
  LET h == req[r] IN
  /\ At(r, "select")
  /\ Become(r, IF h.id \in DOMAIN admins
       THEN [at |-> "update", id |-> h.id, entity |-> h.entity,
             password |-> h.password,
             columns |-> Changed(admins, h.id, h.entity)]
       ELSE [h EXCEPT !.at = "insert"])
  /\ UNCHANGED <<admins, boot, removed>>

Update(r) ==
  LET h == req[r] IN
  /\ At(r, "update")
  /\ admins' = UpdateColumns(admins, h.id, h.entity, h.columns)
  /\ UniqueName(admins')
  /\ Become(r, Idle)
  /\ UNCHANGED <<boot, removed>>

Insert(r) ==
  LET h == req[r] IN
  /\ At(r, "insert")
  /\ h.id \notin DOMAIN admins
  /\ admins' = InsertRow(admins, h.id, h.entity)
  /\ UniqueName(admins')
  /\ Become(r, Idle)
  /\ UNCHANGED <<boot, removed>>

-----------------------------------------------------------------------------
(* remove: findOne, count, and the transaction that deletes. *)
RemoveFind(r, a) ==
  /\ boot = "up" /\ At(r, "idle")
  /\ a \in DOMAIN admins
  /\ Become(r, [at |-> "count", id |-> a])
  /\ UNCHANGED <<admins, boot, removed>>

RemoveCount(r) ==
  /\ At(r, "count")
  /\ Become(r, IF Cardinality(DOMAIN admins) <= 1
                 THEN Idle ELSE [at |-> "delete", id |-> req[r].id])
  /\ UNCHANGED <<admins, boot, removed>>

RemoveCommit(r) ==
  LET a == req[r].id IN
  /\ At(r, "delete")
  /\ admins' = DeleteRow(admins, a)
  /\ removed' = removed \cup {a}
  /\ Become(r, Idle)
  /\ UNCHANGED boot

-----------------------------------------------------------------------------
(* A handler rejects (the unique index, the database), and ends. *)
Abort(r) ==
  /\ ~At(r, "idle")
  /\ Become(r, Idle)
  /\ UNCHANGED <<admins, boot, removed>>

(* The process ends, at any point, and starts again, in development. *)
Restart ==
  /\ boot' = "find"
  /\ req' = [r \in Request |-> Idle]
  /\ UNCHANGED <<admins, removed>>

(* The seeder.  Slips: it takes any admin for the one it looks for; it     *)
(* gives the one it finds the configured password.                         *)
SeedFind_AnyAdmin ==
  /\ boot = "find"
  /\ boot' = IF admins = [a \in {} |-> <<>>] THEN "save" ELSE "up"
  /\ UNCHANGED <<admins, req, removed>>

SeedFind_Resets ==
  /\ boot = "find"
  /\ boot' = IF Free(Seeded) THEN "save" ELSE "up"
  /\ admins' = [a \in DOMAIN admins |-> IF admins[a].username = Seeded
       THEN [admins[a] EXCEPT !.password = SeededPassword] ELSE admins[a]]
  /\ UNCHANGED <<req, removed>>

SeedFind ==
  /\ boot = "find"
  /\ boot' = IF Free(Seeded) THEN "save" ELSE "up"
  /\ UNCHANGED <<admins, req, removed>>

SeedSave(a) ==
  /\ boot = "save"
  /\ InsertNew(a, [username |-> Seeded, password |-> SeededPassword])
  /\ boot' = "up"
  /\ UNCHANGED <<req, removed>>

Start(r) ==
  \/ \E n \in Username, p \in Password : CreateFind(r, n, p)
  \/ \E a \in Admin, n \in NewName, p \in NewPassword : UpdateFind(r, a, n, p)
  \/ \E a \in Admin : RemoveFind(r, a)

Resume(r) ==
  \/ \E a \in Admin : CreateSave(r, a)
  \/ CheckName(r) \/ Select(r) \/ Update(r) \/ Insert(r)
  \/ RemoveCount(r) \/ RemoveCommit(r)

Next ==
  \/ \E r \in Request : Start(r) \/ Resume(r) \/ Abort(r)
  \/ Restart \/ SeedFind
  \/ \E a \in Admin : SeedSave(a)

Spec == Init /\ [][Next]_vars

-----------------------------------------------------------------------------
(***************************************************************************)
(* Properties.                                                             *)
(***************************************************************************)

(* A request that has found the entity of a, and may still save it. *)
Holds(r, a) ==
  /\ req[r].at \in {"checkName", "select", "update", "insert"}
  /\ req[r].id = a

(* Once the requests that had found it are over, an admin that was removed *)
(* does not come back, whatever its access token still opens.              *)
RemovedStaysOutOnceDrained ==
  [][\A a \in removed \ DOMAIN admins :
       (\A r \in Request : ~Holds(r, a)) =>
         /\ a \notin DOMAIN admins'
         /\ \A r \in Request : ~Holds(r, a)']_vars

(* A request that sends no password, and found a before its password was   *)
(* changed: its save will write the old one back, whatever it came for.    *)
Stale(r, a) ==
  /\ Holds(r, a)
  /\ req[r].password = "none"
  /\ req[r].entity.password # admins[a].password

(* Such a request apart, an admin keeps the password it chose, through     *)
(* every renaming, restart and seeding, until a request sends another.     *)
PasswordsStay ==
  [][\A a \in DOMAIN admins \cap DOMAIN admins' :
       (\A r \in Request : ~Stale(r, a)) =>
         \/ admins'[a].password = admins[a].password
         \/ \E r \in Request :
              Holds(r, a) /\ req[r].password = admins'[a].password]_vars

(* Whatever was renamed, removed or cut short before, a development server *)
(* listens with the configured admin in its table.                         *)
ListensSeeded == [][boot # "up" /\ boot' = "up" => ~Free(Seeded)']_vars

-----------------------------------------------------------------------------
(* What comments and documentation say and the code does not do.           *)

(* remove's refusal: the last administrator of the system cannot be        *)
(* removed, so a remove leaves someone.                                    *)
LastAdminStays == [][DOMAIN admins # {} => DOMAIN admins' # {}]_vars

(* The removal's response says that the admin is removed: it is, and stays *)
(* so.                                                                     *)
RemovedStaysOut == removed \cap DOMAIN admins = {}

(* The README: the seeder creates the first admin, when there is none. *)
SeedsFirstOnly == [][boot = "save" /\ boot' = "up" => DOMAIN admins = {}]_vars
=============================================================================
