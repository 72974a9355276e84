--------------------------- MODULE AdminTwoFactor ---------------------------
(***************************************************************************)
(* The login of an admin in its two steps, AdminAuthService: what login,   *)
(* setup2fa, confirm2fa, validate2fa and reset2fa do to the challenges in  *)
(* Redis (ChallengeStore) and to the admin's row (EntityTable), with the   *)
(* two operations of AdminService that write the same row, updateSelf and  *)
(* remove.  What becomes of the sessions is in AdminSessions.              *)
(*                                                                         *)
(* Handlers interleave at their awaits; req[r] is the one of request r.    *)
(* The clock is in PendingChallenges: here a challenge may end at any      *)
(* instant, so all of them are created, and looked at, at instant 0.       *)
(***************************************************************************)
EXTENDS ChallengeStore, EntityTable, Sequences

CONSTANTS
  Admin,     \* ids of admins
  Jti,       \* ids of pending tokens; each is a fresh UUID
  Secret,    \* TOTP secrets; each is random
  Request    \* requests that can be in progress at once

VARIABLES
  admins,    \* the admins table
  store,     \* the challenges in Redis
  token,     \* token[j]: the sub claim of the pending token with jti j, and
             \* (history) the jti of the password login it descends from
  req,
  owner,     \* history: the admin each TOTP secret was generated for
  opened,    \* history: opened[j] lists the sessions opened for login j
  confirmed, \* history: admins of whom a code has been accepted
  renounced  \* history: admins who have reset their 2FA, and got no secret since

history == <<owner, opened, confirmed, renounced>>
vars == <<admins, store, token, req, history>>

Entity == [totpSecret: Secret \cup {"null"}, totpEnabled: BOOLEAN]

Session == [sub: Admin, code: Secret]

Op == {"setup", "confirm", "validate", "reset", "updateSelf"}

Handler ==
  [at: {"idle"}]
    \cup [at: {"issue"}, sub: Admin, purpose: Purpose, login: Jti \cup {"new"}]
    \cup [at: {"find"}, op: Op, jti: Jti]
    \cup [at: {"spend"}, op: Op, jti: Jti, entity: Entity]
    \cup [at: {"select", "insert", "pair"}, op: Op, sub: Admin, entity: Entity,
          login: Jti \cup {"none"}, code: Secret \cup {"none"}]
    \cup [at: {"update"}, op: Op, sub: Admin, entity: Entity,
          login: Jti \cup {"none"}, code: Secret \cup {"none"},
          columns: SUBSET {"totpSecret", "totpEnabled"}]

TypeOK ==
  /\ DOMAIN admins \subseteq Admin /\ admins \in [DOMAIN admins -> Entity]
  /\ DOMAIN store \subseteq Jti /\ store \in [DOMAIN store -> Challenge]
  /\ DOMAIN token \subseteq Jti
  /\ token \in [DOMAIN token -> [sub: Admin, login: Jti]]
  /\ req \in [Request -> Handler]
  /\ DOMAIN owner \subseteq Secret /\ owner \in [DOMAIN owner -> Admin]
  /\ opened \in [Jti -> Seq(Session)]
  /\ confirmed \subseteq Admin
  /\ renounced \subseteq Admin

Idle == [at |-> "idle"]

(* What AdminService.create leaves: 2FA was never configured. *)
Init ==
  /\ admins = [a \in Admin |-> [totpSecret |-> "null", totpEnabled |-> FALSE]]
  /\ store = [j \in {} |-> <<>>]
  /\ token = [j \in {} |-> <<>>]
  /\ req = [r \in Request |-> Idle]
  /\ owner = [s \in {} |-> <<>>]
  /\ opened = [j \in Jti |-> <<>>]
  /\ confirmed = {}
  /\ renounced = {}

Become(r, h) == req' = [req EXCEPT ![r] = h]

At(r, label) == req[r].at = label

-----------------------------------------------------------------------------
(* POST login: the admin is found and the password good.  The purpose of   *)
(* the challenge is chosen from what is read now.                          *)
Login(r, a) ==
  /\ At(r, "idle")
  /\ a \in DOMAIN admins
  /\ Become(r, [at |-> "issue", sub |-> a, login |-> "new",
                purpose |-> IF admins[a].totpEnabled THEN "2fa-confirm"
                                                     ELSE "2fa-setup"])
  /\ UNCHANGED <<admins, store, token, history>>

(* issuePendingToken: the challenge is stored, the token signed and sent.  *)
Issue(r, j) ==
  LET h == req[r] IN
  /\ At(r, "issue")
  /\ j \notin DOMAIN token
  /\ store' = Put(store, j, NewChallenge(h.purpose, 0))
  /\ token' = Put(token, j, [sub |-> h.sub,
                             login |-> IF h.login = "new" THEN j ELSE h.login])
  /\ Become(r, Idle)
  /\ UNCHANGED <<admins, history>>

(* verifyPendingToken, of 2fa/setup, 2fa/confirm or 2fa/validate. *)
PurposeOf(op) == IF op = "setup" THEN "2fa-setup" ELSE "2fa-confirm"

VerifyPendingToken(r, j, op) ==
  /\ At(r, "idle")
  /\ j \in DOMAIN token
  /\ Matches(store, j, PurposeOf(op), 0)
  /\ Become(r, [at |-> "find", op |-> op, jti |-> j])
  /\ UNCHANGED <<admins, store, token, history>>

(* What each handler asks of the row it finds. *)
Accepts(op, row) ==
  CASE op = "setup"    -> ~row.totpEnabled
    [] op = "confirm"  -> row.totpSecret # "null"
    [] op = "validate" -> row.totpEnabled /\ row.totpSecret # "null"

Find(r) ==
  LET h == req[r]
      a == token[h.jti].sub
  IN
  /\ At(r, "find")
  /\ a \in DOMAIN admins
  /\ Accepts(h.op, admins[a])
  /\ Become(r, [at |-> "spend", op |-> h.op, jti |-> h.jti, entity |-> admins[a]])
  /\ UNCHANGED <<admins, store, token, history>>

(* What a handler that has spent the challenge of j goes on with. *)
Granted(h, label, entity, code) ==
  [at |-> label, op |-> h.op, sub |-> token[h.jti].sub, entity |-> entity,
   login |-> token[h.jti].login, code |-> code]

(* setup2fa: GETDEL, and a new secret in the entity.  2FA is not enabled   *)
(* yet.  Slip: it is.                                                      *)
WithSecret_Enabled(entity, s) == [totpSecret |-> s, totpEnabled |-> TRUE]

WithSecret(entity, s) == [entity EXCEPT !.totpSecret = s]

SetupConsume(r, s) ==
  LET h == req[r] IN
  /\ At(r, "spend") /\ h.op = "setup"
  /\ Matches(store, h.jti, "2fa-setup", 0)
  /\ s \notin DOMAIN owner
  /\ store' = Delete(store, h.jti)
  /\ owner' = Put(owner, s, token[h.jti].sub)
  /\ Become(r, Granted(h, "select", WithSecret(h.entity, s), "none"))
  /\ UNCHANGED <<admins, token, opened, confirmed, renounced>>

(* The code that is sent is of some secret ever generated, or of none.     *)
(* Slip: before 2FA is enabled, any code will do.                          *)
ValidCode_OnceEnabled(entity, code) ==
  entity.totpEnabled => code = entity.totpSecret

ValidCode(entity, code) == code = entity.totpSecret

(* confirm2fa and validate2fa: recordAttempt judges the code of the secret *)
(* that was read; confirm2fa enables 2FA in the entity.                    *)
RecordAttempt(r, code) ==
  LET h     == req[r]
      valid == ValidCode(h.entity, code)
      found == Matches(store, h.jti, "2fa-confirm", 0)
  IN
  /\ At(r, "spend") /\ h.op # "setup"
  /\ store' = IF found THEN AfterAttempt(store, h.jti, valid, 0) ELSE store
  /\ IF found /\ valid
       THEN /\ Become(r, IF h.op = "confirm"
                 THEN Granted(h, "select", [h.entity EXCEPT !.totpEnabled = TRUE], code)
                 ELSE Granted(h, "pair", h.entity, code))
            /\ confirmed' = confirmed \cup {token[h.jti].sub}
       ELSE Become(r, Idle) /\ UNCHANGED confirmed
  /\ UNCHANGED <<admins, token, owner, opened, renounced>>

(* issueTokenPair: a session is stored, and the tokens sent. *)
IssueTokenPair(r) ==
  LET h == req[r] IN
  /\ At(r, "pair")
  /\ opened' = [opened EXCEPT ![h.login] =
                  Append(@, [sub |-> h.sub, code |-> h.code])]
  /\ Become(r, Idle)
  /\ UNCHANGED <<admins, store, token, owner, confirmed, renounced>>

-----------------------------------------------------------------------------
(* AdminJwtGuard lets through who has had a session of a. *)
HasAccess(a) == \E j \in Jti : \E i \in DOMAIN opened[j] : opened[j][i].sub = a

(* reset2fa, the password being good, and updateSelf, whose own columns    *)
(* are not in this module.                                                 *)
Own(r, a, op, entity) ==
  /\ At(r, "idle")
  /\ HasAccess(a)
  /\ Become(r, [at |-> "select", op |-> op, sub |-> a, entity |-> entity,
                login |-> "none", code |-> "none"])
  /\ UNCHANGED <<admins, store, token, history>>

Reset(r, a) ==
  a \in DOMAIN admins
    /\ Own(r, a, "reset", [totpSecret |-> "null", totpEnabled |-> FALSE])

UpdateSelf(r, a) ==
  a \in DOMAIN admins /\ Own(r, a, "updateSelf", admins[a])

(* Some admin removes a: AdminService.remove, whose steps are in            *)
(* AdminAccounts.                                                          *)
Remove(a) ==
  /\ \E b \in Admin : HasAccess(b)
  /\ a \in DOMAIN admins
  /\ admins' = DeleteRow(admins, a)
  /\ UNCHANGED <<store, token, req, history>>

(* save(entity). *)
Select(r) ==
  LET h == req[r] IN
  /\ At(r, "select")
  /\ Become(r, IF h.sub \in DOMAIN admins
       THEN [at |-> "update", op |-> h.op, sub |-> h.sub, entity |-> h.entity,
             login |-> h.login, code |-> h.code,
             columns |-> Changed(admins, h.sub, h.entity)]
       ELSE [h EXCEPT !.at = "insert"])
  /\ UNCHANGED <<admins, store, token, history>>

(* What follows the save. *)
Saved(r) ==
  LET h == req[r] IN
  /\ Become(r, CASE h.op = "setup" ->
                      [at |-> "issue", sub |-> h.sub, login |-> h.login,
                       purpose |-> "2fa-confirm"]
                 [] h.op = "confirm" ->
                      [at |-> "pair", op |-> h.op, sub |-> h.sub,
                       entity |-> h.entity, login |-> h.login, code |-> h.code]
                 [] OTHER -> Idle)
  /\ renounced' = CASE h.op = "setup" -> renounced \ {h.sub}
                    [] h.op = "reset" -> renounced \cup {h.sub}
                    [] OTHER -> renounced
  /\ UNCHANGED <<store, token, owner, opened, confirmed>>

Update(r) ==
  LET h == req[r] IN
  /\ At(r, "update")
  /\ admins' = UpdateColumns(admins, h.sub, h.entity, h.columns)
  /\ Saved(r)

Insert(r) ==
  LET h == req[r] IN
  /\ At(r, "insert")
  /\ h.sub \notin DOMAIN admins
  /\ admins' = InsertRow(admins, h.sub, h.entity)
  /\ Saved(r)

-----------------------------------------------------------------------------
(* The handler rejects, an await fails, or the process ends. *)
Abort(r) ==
  /\ ~At(r, "idle")
  /\ Become(r, Idle)
  /\ UNCHANGED <<admins, store, token, history>>

(* A challenge reaches the end of its time to live. *)
Expire(j) ==
  /\ j \in DOMAIN store
  /\ store' = Delete(store, j)
  /\ UNCHANGED <<admins, token, req, history>>

Start(r) ==
  \/ \E a \in Admin : Login(r, a) \/ Reset(r, a) \/ UpdateSelf(r, a)
  \/ \E j \in Jti, op \in {"setup", "confirm", "validate"} :
       VerifyPendingToken(r, j, op)

Resume(r) ==
  \/ \E j \in Jti : Issue(r, j)
  \/ Find(r)
  \/ \E s \in Secret : SetupConsume(r, s)
  \/ \E code \in DOMAIN owner \cup {"wrong"} : RecordAttempt(r, code)
  \/ Select(r) \/ Update(r) \/ Insert(r)
  \/ IssueTokenPair(r)

Next ==
  \/ \E r \in Request : Start(r) \/ Resume(r) \/ Abort(r)
  \/ \E a \in Admin : Remove(a)
  \/ \E j \in Jti : Expire(j)

Spec == Init /\ [][Next]_vars

-----------------------------------------------------------------------------
(***************************************************************************)
(* Properties.                                                             *)
(***************************************************************************)

(* One password login opens one session at most, through setup and         *)
(* confirmation or through validation, however its tokens are presented    *)
(* again, at once, or at the other endpoint.                               *)
OneSessionPerLogin == \A j \in Jti : Len(opened[j]) <= 1

(* No session without the second factor, and never another admin's: each   *)
(* was opened with a code of a secret generated for its own admin.         *)
OwnCode ==
  \A j \in Jti : \A i \in DOMAIN opened[j] :
    /\ opened[j][i].code \in DOMAIN owner
    /\ owner[opened[j][i].code] = opened[j][i].sub

(* 2FA is never on before a code of the admin has been accepted, whatever  *)
(* entity a save writes late: an admin who lost the QR of the setup can    *)
(* log in and ask for another.                                             *)
EnabledAfterCode ==
  \A a \in DOMAIN admins : admins[a].totpEnabled => a \in confirmed

(* The challenges here, which end at any instant, and those of             *)
(* PendingChallenges, which end by the clock, live the same life.          *)
phaseOf == [j \in Jti |->
  IF j \notin DOMAIN token THEN "none"
  ELSE IF j \in DOMAIN store THEN "open" ELSE "over"]

missesOf == [j \in Jti |-> IF j \in DOMAIN store THEN store[j].attempts ELSE 0]

Lifecycle == INSTANCE ChallengeLifecycle WITH phase <- phaseOf, misses <- missesOf

ChallengesLiveOnce == Lifecycle!Spec

-----------------------------------------------------------------------------
(* What comments and documentation say and the code does not do.           *)

(* reset2fa's description and the README: after a reset the next login     *)
(* requires 2FA to be configured again.                                    *)
ResetAsksForSetup ==
  \A a \in renounced \cap DOMAIN admins : ~admins[a].totpEnabled

(* setup2fa's comment: an admin whose 2FA is active is refused, so that no *)
(* setup ever overwrites an active secret.                                 *)
SetupRefusesActive ==
  [][\A r \in Request :
       At(r, "update") /\ req[r].op = "setup" /\ At(r, "issue")' =>
         \A a \in {req[r].sub} \cap DOMAIN admins : ~admins[a].totpEnabled]_vars
=============================================================================
