--------------------------- MODULE AdminSessions ---------------------------
(***************************************************************************)
(* The sessions of admins: the pairs AdminAuthService.issueTokenPair       *)
(* stores, refresh and logout over RefreshTokenService, and                *)
(* AdminService.remove, which ends an admin's sessions.  Admin sessions    *)
(* have no absolute limit; a token may be found expired at any time.       *)
(*                                                                         *)
(* As in StudentSessions, req[r] is the handler of request r at the await  *)
(* it waits on.  A statement that sets `revoked' on several rows sees the  *)
(* table as it was when it began, and waits for the rows that a removal's  *)
(* transaction has changed and not committed; what that transaction wrote  *)
(* is invisible to the others until its COMMIT (READ COMMITTED).           *)
(***************************************************************************)
EXTENDS RefreshTokenStore

CONSTANTS Token, Family, Admin, Request

VARIABLES
  rows,     \* the refresh_tokens of type 'admin'
  admins,   \* the ids that have a row in the admins table
  req,
  late      \* history: the tokens stored while their admin was being removed,
            \* or when it had no row any more

vars == <<rows, admins, req, late>>

Row == [familyId: Family, sub: Admin, used: BOOLEAN, revoked: BOOLEAN]

Handler ==
  [at: {"idle"}]
    \cup [at: {"savePair", "remove", "saveEntity"}, sub: Admin]
    \cup [at: {"consume", "lookup"}, token: Token]
    \cup [at: {"find", "saveNext"}, record: Row]
    \cup [at: {"revoke"}, familyId: Family]
    \cup [at: {"revokeRows"}, tokens: SUBSET Token]
    \cup [at: {"lock", "delete"}, sub: Admin, tokens: SUBSET Token]

Idle == [at |-> "idle"]

TypeOK ==
  /\ DOMAIN rows \subseteq Token
  /\ rows \in [DOMAIN rows -> Row]
  /\ admins \subseteq Admin
  /\ req \in [Request -> Handler]
  /\ late \subseteq Token

Init ==
  /\ rows = [t \in {} |-> <<>>]
  /\ admins = Admin
  /\ req = [r \in Request |-> Idle]
  /\ late = {}

Become(r, h) == req' = [req EXCEPT ![r] = h]

At(r, label) == req[r].at = label

TokensOf(a) == {t \in DOMAIN rows : rows[t].sub = a}

(* A removal of a that is in its transaction: its UPDATE has begun, and    *)
(* its COMMIT has not.                                                     *)
Removing(r, a) ==
  /\ At(r, "lock") \/ At(r, "delete")
  /\ req[r].sub = a

(* The rows that a transaction has changed and not committed. *)
Locked(t) == \E r \in Request : At(r, "delete") /\ t \in req[r].tokens

(* save() inserts the row of a token that was just signed.  Slip: without  *)
(* the admin it belongs to, whom a removal would not find.                 *)
Save_NoSub(t, f, a) ==
  /\ t \notin DOMAIN rows
  /\ rows' = Insert(rows, t, [familyId |-> f, used |-> FALSE, revoked |-> FALSE])

Save(t, f, a) ==
  /\ t \notin DOMAIN rows
  /\ rows' = Insert(rows, t,
               [familyId |-> f, sub |-> a, used |-> FALSE, revoked |-> FALSE])

Stamp(t, a) ==
  late' = IF a \in admins /\ \A r \in Request : ~Removing(r, a)
            THEN late ELSE late \cup {t}

-----------------------------------------------------------------------------
(* confirm2fa and validate2fa found the admin, and end in issueTokenPair:  *)
(* see AdminTwoFactor.                                                     *)
PairFind(r, a) ==
  /\ At(r, "idle")
  /\ a \in admins
  /\ Become(r, [at |-> "savePair", sub |-> a])
  /\ UNCHANGED <<rows, admins, late>>

SavePair(r, t, f) ==
  /\ At(r, "savePair")
  /\ FamilyOf(rows, f) = {}
  /\ Save(t, f, req[r].sub)
  /\ Stamp(t, req[r].sub)
  /\ Become(r, Idle)
  /\ UNCHANGED admins

-----------------------------------------------------------------------------
(* refresh: any token ever issued may be presented, and presented again.   *)
RefreshVerify(r, t) ==
  /\ At(r, "idle")
  /\ t \in DOMAIN rows
  /\ Become(r, [at |-> "consume", token |-> t])
  /\ UNCHANGED <<rows, admins, late>>

(* consume()'s UPDATE takes the token, which has or has not expired.  It   *)
(* waits for a removal that is revoking the row, and reads it again.       *)
ConsumeWin(r) ==
  LET t == req[r].token IN
  /\ At(r, "consume")
  /\ Consumable(rows[t]) /\ ~Locked(t)
  /\ rows' = MarkUsed(rows, t)
  /\ \/ Become(r, [at |-> "find", record |-> rows'[t]])
     \/ Become(r, [at |-> "revoke", familyId |-> rows[t].familyId])
  /\ UNCHANGED <<admins, late>>

ConsumeLose(r) ==
  /\ At(r, "consume")
  /\ ~Consumable(rows[req[r].token])
  /\ Become(r, [at |-> "lookup", token |-> req[r].token])
  /\ UNCHANGED <<rows, admins, late>>

Lookup(r) ==
  LET existing == rows[req[r].token] IN
  /\ At(r, "lookup")
  /\ Become(r, IF existing.used
                 THEN [at |-> "revoke", familyId |-> existing.familyId]
                 ELSE Idle)
  /\ UNCHANGED <<rows, admins, late>>

(* The admin must still have a row.  Slip: the token is enough. *)
RefreshFind_NoLookup(r) ==
  /\ At(r, "find")
  /\ Become(r, [at |-> "saveNext", record |-> req[r].record])
  /\ UNCHANGED <<rows, admins, late>>

RefreshFind(r) ==
  /\ At(r, "find")
  /\ req[r].record.sub \in admins
  /\ Become(r, [at |-> "saveNext", record |-> req[r].record])
  /\ UNCHANGED <<rows, admins, late>>

SaveNext(r, t) ==
  /\ At(r, "saveNext")
  /\ Save(t, req[r].record.familyId, req[r].record.sub)
  /\ Stamp(t, req[r].record.sub)
  /\ Become(r, Idle)
  /\ UNCHANGED admins

(* On reuse, on expiry, and on logout: the UPDATE of a whole family.       *)
RevokeSession(r) ==
  /\ At(r, "revoke")
  /\ Become(r, [at |-> "revokeRows", tokens |-> FamilyOf(rows, req[r].familyId)])
  /\ UNCHANGED <<rows, admins, late>>

RevokeRows(r) ==
  /\ At(r, "revokeRows")
  /\ \A t \in req[r].tokens : ~Locked(t)
  /\ rows' = Revoke(rows, req[r].tokens)
  /\ Become(r, Idle)
  /\ UNCHANGED <<admins, late>>

LogoutFind(r, t) ==
  /\ At(r, "idle")
  /\ t \in DOMAIN rows
  /\ Become(r, [at |-> "revoke", familyId |-> rows[t].familyId])
  /\ UNCHANGED <<rows, admins, late>>

-----------------------------------------------------------------------------
(* AdminService.remove finds the admin, then in one transaction revokes    *)
(* the tokens (an UPDATE) and deletes the row.  The other handlers that    *)
(* find an admin save the entity later, which inserts the row again if it  *)
(* has gone.                                                               *)
AdminFind(r, a, label) ==
  /\ At(r, "idle")
  /\ a \in admins
  /\ Become(r, [at |-> label, sub |-> a])
  /\ UNCHANGED <<rows, admins, late>>

(* revokeAllForSub in the transaction: the rows of WHERE sub AND revoked = *)
(* false, as the UPDATE finds them when it begins.                         *)
RemoveUpdate(r) ==
  LET a == req[r].sub IN
  /\ At(r, "remove")
  /\ Become(r, [at |-> "lock", sub |-> a,
                tokens |-> {t \in TokensOf(a) : ~rows[t].revoked}])
  /\ UNCHANGED <<rows, admins, late>>

(* It has them all to itself, and those another statement has revoked in   *)
(* the meantime no longer match.  Nobody sees what it sets.                *)
RemoveLock(r) ==
  LET h == req[r] IN
  /\ At(r, "lock")
  /\ \A t \in h.tokens : ~Locked(t)
  /\ Become(r, [at |-> "delete", sub |-> h.sub,
                tokens |-> {t \in h.tokens : ~rows[t].revoked}])
  /\ UNCHANGED <<rows, admins, late>>

(* manager.remove's DELETE, and COMMIT.  Slip: the UPDATE goes another way *)
(* than the transaction's, and is lost with it.                            *)
RemoveCommit_TokensLeft(r) ==
  /\ At(r, "delete")
  /\ admins' = admins \ {req[r].sub}
  /\ Become(r, Idle)
  /\ UNCHANGED <<rows, late>>

RemoveCommit(r) ==
  /\ At(r, "delete")
  /\ rows' = Revoke(rows, req[r].tokens)
  /\ admins' = admins \ {req[r].sub}
  /\ Become(r, Idle)
  /\ UNCHANGED late

SaveEntity(r) ==
  /\ At(r, "saveEntity")
  /\ admins' = admins \cup {req[r].sub}
  /\ Become(r, Idle)
  /\ UNCHANGED <<rows, late>>

(* An await fails or the process ends; a transaction is rolled back. *)
Abort(r) ==
  /\ ~At(r, "idle")
  /\ Become(r, Idle)
  /\ UNCHANGED <<rows, admins, late>>

Start(r) ==
  \/ \E a \in Admin : PairFind(r, a) \/ AdminFind(r, a, "remove")
                                     \/ AdminFind(r, a, "saveEntity")
  \/ \E t \in Token : RefreshVerify(r, t) \/ LogoutFind(r, t)

Resume(r) ==
  \/ \E t \in Token, f \in Family : SavePair(r, t, f)
  \/ ConsumeWin(r) \/ ConsumeLose(r) \/ Lookup(r) \/ RefreshFind(r)
  \/ \E t \in Token : SaveNext(r, t)
  \/ RevokeSession(r) \/ RevokeRows(r)
  \/ RemoveUpdate(r) \/ RemoveLock(r) \/ RemoveCommit(r) \/ SaveEntity(r)

Next == \E r \in Request : Start(r) \/ Resume(r) \/ Abort(r)

Spec == Init /\ [][Next]_vars

-----------------------------------------------------------------------------
(***************************************************************************)
(* Properties.                                                             *)
(***************************************************************************)
Live(t) == ~rows[t].used /\ ~rows[t].revoked

Rotates(r, f) ==
  /\ At(r, "find") \/ At(r, "saveNext")
  /\ req[r].record.familyId = f

phaseOf == [f \in Family |->
  IF FamilyOf(rows, f) = {} THEN "none"
  ELSE IF \E t \in FamilyOf(rows, f) : Live(t) THEN "open"
  ELSE IF \E r \in Request : Rotates(r, f) THEN "rotating"
  ELSE "closed"]

chainOf == [f \in Family |-> FamilyOf(rows, f)]

Lifecycle == INSTANCE SessionLifecycle WITH phase <- phaseOf, chain <- chainOf

(* An admin's session has the life of a student's: one token at a time,    *)
(* one rotation at a time, and closed for good, with removals of admins    *)
(* closing several at once.                                                *)
SessionsLiveOnce == Lifecycle!Spec

(* A handler that has found admin a, and may still store a token for it.   *)
Issuing(a) ==
  \E r \in Request :
    \/ At(r, "savePair") /\ req[r].sub = a
    \/ At(r, "saveNext") /\ req[r].record.sub = a

(* Once the logins and refreshes that had found an admin before its        *)
(* removal are over, it gets no token, although the last of them may have  *)
(* stored one that no removal has revoked: that one is a dead end.         *)
RemovedGetsNoToken ==
  [][\A a \in Admin \ (admins \cup admins') :
       ~Issuing(a) => ~Issuing(a)' /\ TokensOf(a)' = TokensOf(a)]_vars

(* A removal closes every session of the admin, but those in which a login *)
(* or a refresh stored a token between its UPDATE and its COMMIT, or later *)
(* still: no other token of an admin without a row can be used.            *)
RemovalClosesSessions ==
  \A t \in DOMAIN rows :
    Live(t) /\ rows[t].sub \notin admins => t \in late

-----------------------------------------------------------------------------
(* What a comment says and the code does not do: remove() revokes all the  *)
(* active tokens of the admin before it deletes it.  A token stored inside *)
(* the transaction's time is active and is not among them.                 *)
RemovalRevokesAll ==
  [][\A a \in admins \ admins' : \A t \in TokensOf(a) : ~Live(t)']_vars
=============================================================================
