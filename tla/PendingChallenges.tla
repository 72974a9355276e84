------------------------- MODULE PendingChallenges -------------------------
(***************************************************************************)
(* The life of a pending 2FA challenge: who creates, verifies and spends   *)
(* it, in AdminAuthService over PendingChallengeService.  Login and the    *)
(* setup of 2FA create challenges; setup2fa spends one with consume,       *)
(* confirm2fa and validate2fa with recordAttempt.  What these handlers do  *)
(* to the admin's row is not in this module.                               *)
(*                                                                         *)
(* Handlers interleave at their awaits, as in StudentSessions.  The driver *)
(* of Redis sends a command again when the connection breaks before its    *)
(* answer: a command may then run twice, or run and be reported as failed. *)
(***************************************************************************)
EXTENDS ChallengeStore, Sequences

CONSTANTS
  Jti,             \* ids of pending tokens; each is a fresh UUID
  Request,         \* requests that can be in progress at once
  TicksPerSecond,
  Ttl,             \* PENDING_2FA_TTL_MS, in ticks
  MaxTime          \* bound: the clock stops here

ASSUME ChallengeTimesAssumption ==
  /\ TicksPerSecond \in Nat \ {0}
  /\ Ttl \in Nat
  /\ MaxTime \in Nat

VARIABLES
  store,    \* the challenges in Redis
  token,    \* token[j]: the exp claim of the pending token with jti j
  req,      \* req[r]: the handler of request r and what it has read
  now,
  born,     \* history: the purpose each jti was drawn for
  granted,  \* history: granted[j] lists the purposes j was spent for
  failed    \* history: wrong codes judged against j

vars == <<store, token, req, now, born, granted, failed>>

Handler ==
  [at: {"idle"}]
    \cup [at: {"issue"}, purpose: Purpose]
    \cup [at: {"create", "verify", "spend"}, jti: Jti, purpose: Purpose]
    \cup [at: {"sign"}, jti: Jti]

TypeOK ==
  /\ DOMAIN store \subseteq Jti /\ store \in [DOMAIN store -> Challenge]
  /\ DOMAIN token \subseteq Jti /\ token \in [DOMAIN token -> Nat]
  /\ DOMAIN born \subseteq Jti /\ born \in [DOMAIN born -> Purpose]
  /\ req \in [Request -> Handler]
  /\ now \in 0..MaxTime
  /\ granted \in [Jti -> Seq(Purpose)]
  /\ failed \in [Jti -> Nat]

Idle == [at |-> "idle"]

Init ==
  /\ store = [j \in {} |-> <<>>]
  /\ token = [j \in {} |-> 0]
  /\ born = [j \in {} |-> ""]
  /\ req = [r \in Request |-> Idle]
  /\ now = 0
  /\ granted = [j \in Jti |-> <<>>]
  /\ failed = [j \in Jti |-> 0]

Become(r, h) == req' = [req EXCEPT ![r] = h]

At(r, label) == req[r].at = label

Seconds(ticks) == ticks \div TicksPerSecond

-----------------------------------------------------------------------------
(* POST /admin/auth/login, the password being good.  The purpose depends   *)
(* on totp_enabled, and any admin may log in.                              *)
Login(r, p) ==
  /\ At(r, "idle")
  /\ Become(r, [at |-> "issue", purpose |-> p])
  /\ UNCHANGED <<store, token, now, born, granted, failed>>

(* issuePendingToken draws the jti, and awaits the SET. *)
DrawJti(r, j) ==
  /\ At(r, "issue")
  /\ j \notin DOMAIN born
  /\ born' = Put(born, j, req[r].purpose)
  /\ Become(r, [at |-> "create", jti |-> j, purpose |-> req[r].purpose])
  /\ UNCHANGED <<store, token, now, granted, failed>>

(* create(): the SET runs; the handler goes on, or waits for it to be sent *)
(* again.                                                                  *)
Create(r) ==
  LET h == req[r] IN
  /\ At(r, "create")
  /\ store' = Put(store, h.jti, NewChallenge(h.purpose, now + Ttl))
  /\ \/ Become(r, [at |-> "sign", jti |-> h.jti])
     \/ UNCHANGED req
  /\ UNCHANGED <<token, now, born, granted, failed>>

(* exp counts whole seconds, from the second of the signature. *)
Sign(r) ==
  /\ At(r, "sign")
  /\ token' = Put(token, req[r].jti, Seconds(now) + Seconds(Ttl))
  /\ Become(r, Idle)
  /\ UNCHANGED <<store, now, born, granted, failed>>

-----------------------------------------------------------------------------
(***************************************************************************)
(* POST 2fa/setup (purpose "2fa-setup"), 2fa/confirm and 2fa/validate, for *)
(* any token ever issued, again and again.  verifyAsync, then the GET; a   *)
(* GET changes nothing and can be repeated.                                *)
(***************************************************************************)
VerifyJwt(r, j, p) ==
  /\ At(r, "idle")
  /\ j \in DOMAIN token
  /\ Seconds(now) < token[j]
  /\ Become(r, [at |-> "verify", jti |-> j, purpose |-> p])
  /\ UNCHANGED <<store, token, now, born, granted, failed>>

Verify(r) ==
  /\ At(r, "verify")
  /\ Become(r, IF Matches(store, req[r].jti, req[r].purpose, now)
                 THEN [req[r] EXCEPT !.at = "spend"]
                 ELSE Idle)
  /\ UNCHANGED <<store, token, now, born, granted, failed>>

(* The admin has been found.  setup2fa: GETDEL, and then a token for the   *)
(* confirmation.                                                           *)
Consume(r) ==
  LET j == req[r].jti
      p == req[r].purpose
  IN
  /\ At(r, "spend") /\ p = "2fa-setup"
  /\ store' = Delete(store, j)
  /\ \/ /\ Matches(store, j, p, now)
        /\ granted' = [granted EXCEPT ![j] = Append(@, p)]
        /\ Become(r, [at |-> "issue", purpose |-> "2fa-confirm"])
     \/ /\ ~Matches(store, j, p, now)
        /\ Become(r, Idle)
        /\ UNCHANGED granted
     \/ UNCHANGED <<req, granted>>
  /\ UNCHANGED <<token, now, born, failed>>

(* confirm2fa and validate2fa: the code has been compared with the secret, *)
(* and the script decides.  Last disjunct: its answer is lost.             *)
RecordAttempt(r, valid) ==
  LET j     == req[r].jti
      p     == req[r].purpose
      found == Matches(store, j, p, now)
  IN
  /\ At(r, "spend") /\ p = "2fa-confirm"
  /\ store' = IF found THEN AfterAttempt(store, j, valid, now) ELSE store
  /\ failed' = IF found /\ ~valid THEN [failed EXCEPT ![j] = @ + 1] ELSE failed
  /\ \/ /\ granted' = IF found /\ valid
                        THEN [granted EXCEPT ![j] = Append(@, p)]
                        ELSE granted
        /\ Become(r, Idle)
     \/ UNCHANGED <<req, granted>>
  /\ UNCHANGED <<token, now, born>>

(* An await rejects, or the process ends. *)
Abort(r) ==
  /\ ~At(r, "idle")
  /\ Become(r, Idle)
  /\ UNCHANGED <<store, token, now, born, granted, failed>>

Tick ==
  /\ now < MaxTime
  /\ now' = now + 1
  /\ UNCHANGED <<store, token, req, born, granted, failed>>

Next ==
  \/ \E r \in Request :
       \/ \E p \in Purpose : Login(r, p)
       \/ \E j \in Jti : DrawJti(r, j)
       \/ Create(r) \/ Sign(r)
       \/ \E j \in Jti, p \in Purpose : VerifyJwt(r, j, p)
       \/ Verify(r) \/ Consume(r)
       \/ \E valid \in BOOLEAN : RecordAttempt(r, valid)
       \/ Abort(r)
  \/ Tick

Spec == Init /\ [][Next]_vars

-----------------------------------------------------------------------------
(***************************************************************************)
(* Properties.                                                             *)
(***************************************************************************)

(* A challenge lets one handler through at most, however many hold it at   *)
(* once and whatever is sent twice; and it is not in Redis any more then.  *)
GrantedOnce ==
  \A j \in Jti :
    /\ Len(granted[j]) <= 1
    /\ j \in DOMAIN store => granted[j] = <<>>

(* The token of one step never lets anyone through another: the setup's    *)
(* token brings no tokens, the confirmation's no new secret.               *)
ForItsPurpose ==
  \A j \in Jti : \A i \in DOMAIN granted[j] :
    j \in DOMAIN born /\ granted[j][i] = born[j]

(* No more than MaxAttempts wrong codes are judged against a challenge,    *)
(* and the last of them ends it, even when many are sent at once.          *)
AttemptsBounded ==
  \A j \in Jti :
    /\ failed[j] <= MaxAttempts
    /\ j \in DOMAIN store => failed[j] < MaxAttempts

(* The keys and the tokens, seen as the life of each challenge. *)
Open(j) == j \in DOMAIN token /\ Present(store, j, now)

phaseOf == [j \in Jti |->
  IF j \notin DOMAIN token THEN "none" ELSE IF Open(j) THEN "open" ELSE "over"]

missesOf == [j \in Jti |-> IF Open(j) THEN failed[j] ELSE 0]

Lifecycle == INSTANCE ChallengeLifecycle WITH phase <- phaseOf, misses <- missesOf

(* Every step is a step of the promised life of a challenge: commands that *)
(* run twice, a SET that is sent again among them, and codes judged at its *)
(* very end never open one again or give it more attempts.                 *)
ChallengesLiveOnce == Lifecycle!Spec

-----------------------------------------------------------------------------
(* What the interface and the README say and the code does not do: the     *)
(* time to live of every challenge is PENDING_2FA_TTL_MS.                  *)
ChallengesEnd == \A j \in DOMAIN store : store[j].expires # {}
=============================================================================
