---------------------- MODULE PendingChallengesProofs ----------------------
(***************************************************************************)
(* What PendingChallenges guarantees for any number of challenges and      *)
(* concurrent requests, any limit of attempts and any time to live.        *)
(***************************************************************************)
EXTENDS PendingChallenges, TLAPS

-----------------------------------------------------------------------------
(* Types.                                                                  *)

LEMMA HandlerType ==
  ASSUME req \in [Request -> Handler], NEW r \in Request
  PROVE  /\ At(r, "issue") => req[r].purpose \in Purpose
         /\ At(r, "sign") => req[r].jti \in Jti
         /\ At(r, "create") \/ At(r, "verify") \/ At(r, "spend") =>
              /\ req[r].jti \in Jti
              /\ req[r].purpose \in Purpose
              /\ [req[r] EXCEPT !.at = "spend"] =
                   [at |-> "spend", jti |-> req[r].jti, purpose |-> req[r].purpose]
BY DEF Handler, At

LEMMA BecomeType ==
  ASSUME req \in [Request -> Handler], NEW r \in Request, NEW h, Become(r, h)
  PROVE  /\ h \in Handler => req' \in [Request -> Handler]
         /\ req'[r] = h
         /\ \A s \in Request : s # r => req'[s] = req[s]
BY DEF Become

LEMMA HandlerMade ==
  /\ Idle \in Handler
  /\ \A p \in Purpose : [at |-> "issue", purpose |-> p] \in Handler
  /\ \A j \in Jti : [at |-> "sign", jti |-> j] \in Handler
  /\ \A j \in Jti, p \in Purpose, l \in {"create", "verify", "spend"} :
       [at |-> l, jti |-> j, purpose |-> p] \in Handler
BY DEF Idle, Handler

LEMMA SecondsNat == \A t \in Nat : Seconds(t) \in Nat
BY ChallengeTimesAssumption DEF Seconds

(* The challenge a wrong code leaves behind. *)
LEMMA RetriedType ==
  ASSUME NEW c \in Challenge, NEW time
  PROVE  /\ Retried(c, time) \in Challenge
         /\ Retried(c, time).attempts = c.attempts + 1
         /\ Retried(c, time).purpose = c.purpose
<1>1. {t \in c.expires : time < t} \in SUBSET Nat
  BY DEF Challenge
<1>2. c.attempts + 1 \in Nat
  BY DEF Challenge
<1> QED
  BY <1>1, <1>2 DEF Challenge, Retried

LEMMA AttemptType ==
  ASSUME TypeOK, NEW j \in DOMAIN store, NEW valid \in BOOLEAN, NEW time
  PROVE  LET s == AfterAttempt(store, j, valid, time)
         IN  DOMAIN s \subseteq Jti /\ s \in [DOMAIN s -> Challenge]
<1>1. Retried(store[j], time) \in Challenge
  BY RetriedType DEF TypeOK
<1>2. LET s == Put(store, j, Retried(store[j], time))
      IN  s \in [DOMAIN s -> Challenge] /\ DOMAIN s \subseteq Jti
  BY <1>1 DEF TypeOK, Put
<1>3. LET s == Delete(store, j)
      IN  s \in [DOMAIN s -> Challenge] /\ DOMAIN s \subseteq Jti
  BY DEF TypeOK, Delete
<1> QED
  BY <1>2, <1>3 DEF AfterAttempt

LEMMA NextTyped == TypeOK /\ [Next]_vars => TypeOK'
<1> SUFFICES ASSUME TypeOK, [Next]_vars
             PROVE  TypeOK'
  OBVIOUS
<1> USE HandlerMade
<1>1. ASSUME NEW r \in Request, NEW p \in Purpose, Login(r, p)
      PROVE  TypeOK'
  BY <1>1, BecomeType DEF Login, TypeOK
<1>2. ASSUME NEW r \in Request, NEW j \in Jti, DrawJti(r, j)
      PROVE  TypeOK'
  <2>1. req[r].purpose \in Purpose
    BY <1>2, HandlerType DEF DrawJti, TypeOK
  <2>2. req' \in [Request -> Handler]
    BY <1>2, <2>1 DEF DrawJti, Become, TypeOK
  <2>3. DOMAIN born' \subseteq Jti /\ born' \in [DOMAIN born' -> Purpose]
    BY <1>2, <2>1 DEF DrawJti, Put, TypeOK
  <2> QED
    BY <1>2, <2>2, <2>3 DEF DrawJti, TypeOK
<1>3. ASSUME NEW r \in Request, Create(r)
      PROVE  TypeOK'
  <2>1. req[r].jti \in Jti /\ req[r].purpose \in Purpose
    BY <1>3, HandlerType DEF Create, TypeOK
  <2>2. req' \in [Request -> Handler]
    BY <1>3, <2>1, BecomeType DEF Create, TypeOK
  <2>3. NewChallenge(req[r].purpose, now + Ttl) \in Challenge
    BY <2>1, ChallengeTimesAssumption DEF NewChallenge, Challenge, TypeOK
  <2>4. DOMAIN store' \subseteq Jti /\ store' \in [DOMAIN store' -> Challenge]
    <3> DEFINE c == NewChallenge(req[r].purpose, now + Ttl)
    <3>1. c \in Challenge /\ store' = Put(store, req[r].jti, c)
      BY <1>3, <2>3 DEF Create
    <3> HIDE DEF c
    <3> QED
      BY <2>1, <3>1 DEF Put, TypeOK
  <2> QED
    BY <1>3, <2>2, <2>4 DEF Create, TypeOK
<1>4. ASSUME NEW r \in Request, Sign(r)
      PROVE  TypeOK'
  <2>1. req[r].jti \in Jti
    BY <1>4, HandlerType DEF Sign, TypeOK
  <2>2. req' \in [Request -> Handler]
    BY <1>4, BecomeType DEF Sign, TypeOK
  <2>3. Seconds(now) + Seconds(Ttl) \in Nat
    BY SecondsNat, ChallengeTimesAssumption DEF TypeOK
  <2>4. DOMAIN token' \subseteq Jti /\ token' \in [DOMAIN token' -> Nat]
    <3> DEFINE e == Seconds(now) + Seconds(Ttl)
    <3>1. e \in Nat /\ token' = Put(token, req[r].jti, e)
      BY <1>4, <2>3 DEF Sign
    <3> HIDE DEF e
    <3> QED
      BY <2>1, <3>1 DEF Put, TypeOK
  <2> QED
    BY <1>4, <2>2, <2>4 DEF Sign, TypeOK
<1>5. ASSUME NEW r \in Request, NEW j \in Jti, NEW p \in Purpose,
             VerifyJwt(r, j, p)
      PROVE  TypeOK'
  BY <1>5 DEF VerifyJwt, Become, TypeOK
<1>6. ASSUME NEW r \in Request, Verify(r)
      PROVE  TypeOK'
  <2>1. [req[r] EXCEPT !.at = "spend"] \in Handler
    <3> DEFINE h == [at |-> "spend", jti |-> req[r].jti,
                     purpose |-> req[r].purpose]
    <3>1. /\ req[r].jti \in Jti /\ req[r].purpose \in Purpose
          /\ [req[r] EXCEPT !.at = "spend"] = h
      BY <1>6, HandlerType DEF Verify, TypeOK
    <3>2. h \in Handler
      BY <3>1
    <3> QED
      BY <3>1, <3>2
  <2> QED
    BY <1>6, <2>1, BecomeType DEF Verify, TypeOK
<1>7. ASSUME NEW r \in Request, Consume(r)
      PROVE  TypeOK'
  <2>1. req[r].jti \in Jti /\ req[r].purpose \in Purpose
    BY <1>7, HandlerType DEF Consume, TypeOK
  <2>2. req' \in [Request -> Handler]
    BY <1>7, BecomeType DEF Consume, TypeOK, Purpose
  <2>3. DOMAIN store' \subseteq Jti /\ store' \in [DOMAIN store' -> Challenge]
    BY <1>7 DEF Consume, Delete, TypeOK
  <2>4. granted' \in [Jti -> Seq(Purpose)]
    <3>1. Append(granted[req[r].jti], req[r].purpose) \in Seq(Purpose)
      BY <2>1 DEF TypeOK
    <3> QED
      BY <1>7, <2>1, <3>1 DEF Consume, TypeOK
  <2> QED
    BY <1>7, <2>2, <2>3, <2>4 DEF Consume, TypeOK
<1>8. ASSUME NEW r \in Request, NEW valid \in BOOLEAN, RecordAttempt(r, valid)
      PROVE  TypeOK'
  <2>1. req[r].jti \in Jti /\ req[r].purpose \in Purpose
    BY <1>8, HandlerType DEF RecordAttempt, TypeOK
  <2>2. req' \in [Request -> Handler]
    BY <1>8, BecomeType DEF RecordAttempt, TypeOK
  <2>3. DOMAIN store' \subseteq Jti /\ store' \in [DOMAIN store' -> Challenge]
    BY <1>8, AttemptType DEF RecordAttempt, TypeOK, Matches, Present
  <2>4. granted' \in [Jti -> Seq(Purpose)]
    <3>1. Append(granted[req[r].jti], req[r].purpose) \in Seq(Purpose)
      BY <2>1 DEF TypeOK
    <3> QED
      BY <1>8, <2>1, <3>1 DEF RecordAttempt, TypeOK
  <2>5. failed' \in [Jti -> Nat]
    BY <1>8, <2>1 DEF RecordAttempt, TypeOK
  <2> QED
    BY <1>8, <2>2, <2>3, <2>4, <2>5 DEF RecordAttempt, TypeOK
<1>9. ASSUME NEW r \in Request, Abort(r)
      PROVE  TypeOK'
  BY <1>9, BecomeType DEF Abort, TypeOK
<1>10. CASE Tick
  BY <1>10, ChallengeTimesAssumption DEF Tick, TypeOK
<1>11. CASE UNCHANGED vars
  BY <1>11 DEF vars, TypeOK
<1> QED
  BY <1>1, <1>2, <1>3, <1>4, <1>5, <1>6, <1>7, <1>8, <1>9, <1>10, <1>11 DEF Next

-----------------------------------------------------------------------------
(***************************************************************************)
(* The inductive invariant.  Every jti in use was drawn, and Redis keeps   *)
(* the purpose it was drawn for; a challenge that is still being created   *)
(* has one creator and no token yet, so nothing was judged against it and  *)
(* sending its SET again is harmless; the counter in Redis is the number   *)
(* of wrong codes judged.                                                  *)
(***************************************************************************)
Draft(r) == At(r, "create") \/ At(r, "sign")

Held(r) == At(r, "verify") \/ At(r, "spend")

Drawn ==
  /\ \A j \in DOMAIN store : j \in DOMAIN born /\ store[j].purpose = born[j]
  /\ DOMAIN token \subseteq DOMAIN born
  /\ \A r \in Request : Draft(r) => req[r].jti \in DOMAIN born \ DOMAIN token
  /\ \A r \in Request : At(r, "create") => req[r].purpose = born[req[r].jti]
  /\ \A r \in Request : Held(r) => req[r].jti \in DOMAIN token
  /\ \A r, s \in Request :
       Draft(r) /\ Draft(s) /\ req[r].jti = req[s].jti => r = s

Counted ==
  /\ \A j \in Jti : granted[j] # <<>> \/ failed[j] # 0 => j \in DOMAIN token
  /\ \A j \in DOMAIN store : store[j].attempts = failed[j]

ChallengeInv ==
  Drawn /\ Counted /\ GrantedOnce /\ ForItsPurpose /\ AttemptsBounded

(* A step that only moves a handler on, to h: nothing is drawn or judged.  *)
LEMMA HandlerInv ==
  ASSUME TypeOK, ChallengeInv, NEW r \in Request, NEW h, Become(r, h),
         h.at \notin {"create", "sign"},
         h.at \in {"verify", "spend"} => h.jti \in DOMAIN token,
         UNCHANGED <<store, token, born, granted, failed>>
  PROVE  ChallengeInv'
<1>1. req'[r] = h /\ \A s \in Request : s # r => req'[s] = req[s]
  BY BecomeType DEF TypeOK
<1>2. Drawn'
  BY <1>1 DEF ChallengeInv, Drawn, Draft, Held, At
<1>3. Counted'
  BY DEF ChallengeInv, Counted
<1>4. GrantedOnce' /\ ForItsPurpose' /\ AttemptsBounded'
  BY DEF ChallengeInv, GrantedOnce, ForItsPurpose, AttemptsBounded
<1> QED
  BY <1>2, <1>3, <1>4 DEF ChallengeInv

LEMMA DrawJtiInv ==
  ASSUME TypeOK, ChallengeInv, NEW r \in Request, NEW j \in Jti, DrawJti(r, j)
  PROVE  ChallengeInv'
<1>1. /\ req'[r].at = "create" /\ req'[r].jti = j
      /\ req'[r].purpose = req[r].purpose
      /\ \A s \in Request : s # r => req'[s] = req[s]
  BY DEF DrawJti, Become, TypeOK
<1>2. /\ j \notin DOMAIN born
      /\ DOMAIN born' = DOMAIN born \cup {j} /\ born'[j] = req[r].purpose
      /\ \A k \in DOMAIN born : born'[k] = born[k]
      /\ UNCHANGED <<store, token, granted, failed>>
  BY DEF DrawJti, Put
<1>3. Drawn'
  BY <1>1, <1>2 DEF ChallengeInv, Drawn, Draft, Held, At
<1>4. Counted' /\ GrantedOnce' /\ AttemptsBounded'
  BY <1>2 DEF ChallengeInv, Counted, GrantedOnce, AttemptsBounded
<1>5. ForItsPurpose'
  BY <1>2 DEF ChallengeInv, ForItsPurpose
<1> QED
  BY <1>3, <1>4, <1>5 DEF ChallengeInv

LEMMA CreateInv ==
  ASSUME TypeOK, ChallengeInv, NEW r \in Request, Create(r)
  PROVE  ChallengeInv'
<1>0. PICK j \in Jti, c \in Challenge :
        /\ j = req[r].jti
        /\ c.purpose = req[r].purpose /\ c.attempts = 0
        /\ store' = Put(store, j, c)
  <2>1. req[r].jti \in Jti /\ req[r].purpose \in Purpose
    BY HandlerType DEF Create, TypeOK
  <2>2. NewChallenge(req[r].purpose, now + Ttl) \in Challenge
    BY <2>1, ChallengeTimesAssumption DEF NewChallenge, Challenge, TypeOK
  <2> QED
    BY <2>1, <2>2 DEF Create, NewChallenge
<1>1. /\ DOMAIN store' = DOMAIN store \cup {j} /\ store'[j] = c
      /\ \A k \in DOMAIN store : k # j => store'[k] = store[k]
      /\ UNCHANGED <<token, born, granted, failed>>
  BY <1>0 DEF Put, Create
<1>2. /\ j \in DOMAIN born \ DOMAIN token /\ born[j] = c.purpose
      /\ granted[j] = <<>> /\ failed[j] = 0
  BY <1>0 DEF Create, ChallengeInv, Drawn, Draft, Counted
<1>3. /\ req'[r].jti = j /\ Draft(r)' /\ ~Held(r)'
      /\ At(r, "create")' => req'[r] = req[r]
      /\ \A s \in Request : s # r => req'[s] = req[s]
  BY <1>0 DEF Create, Become, TypeOK, Draft, Held, At
<1>4. Drawn'
  BY <1>0, <1>1, <1>2, <1>3 DEF ChallengeInv, Drawn, Draft, Held, At, Create
<1>5. Counted'
  BY <1>0, <1>1, <1>2 DEF ChallengeInv, Counted
<1>6. GrantedOnce'
  BY <1>1, <1>2 DEF ChallengeInv, GrantedOnce
<1>7. ForItsPurpose'
  BY <1>1 DEF ChallengeInv, ForItsPurpose
<1>8. AttemptsBounded'
  BY <1>1, <1>2, MaxAttemptsAssumption DEF ChallengeInv, AttemptsBounded
<1> QED
  BY <1>4, <1>5, <1>6, <1>7, <1>8 DEF ChallengeInv

LEMMA SignInv ==
  ASSUME TypeOK, ChallengeInv, NEW r \in Request, Sign(r)
  PROVE  ChallengeInv'
<1>1. req'[r].at = "idle" /\ \A s \in Request : s # r => req'[s] = req[s]
  BY DEF Sign, Become, TypeOK, Idle
<1>2. /\ DOMAIN token' = DOMAIN token \cup {req[r].jti}
      /\ UNCHANGED <<store, born, granted, failed>>
  BY DEF Sign, Put
<1>3. Drawn'
  BY <1>1, <1>2 DEF ChallengeInv, Drawn, Draft, Held, At, Sign
<1>4. Counted'
  BY <1>2 DEF ChallengeInv, Counted
<1>5. GrantedOnce' /\ ForItsPurpose' /\ AttemptsBounded'
  BY <1>2 DEF ChallengeInv, GrantedOnce, ForItsPurpose, AttemptsBounded
<1> QED
  BY <1>3, <1>4, <1>5 DEF ChallengeInv

(* The handler that spends a challenge goes on without a jti, or waits.    *)
LEMMA SpenderInv ==
  ASSUME TypeOK, Drawn, NEW r \in Request, At(r, "spend"),
         \/ req' = req
         \/ Become(r, Idle)
         \/ Become(r, [at |-> "issue", purpose |-> "2fa-confirm"]),
         \A j \in DOMAIN store' :
           j \in DOMAIN store /\ store'[j].purpose = store[j].purpose,
         token' = token, born' = born
  PROVE  Drawn'
<1>1. \A s \in Request :
        \/ req'[s] = req[s]
        \/ req'[s].at \in {"idle", "issue"}
  BY DEF Become, TypeOK, Idle
<1> QED
  BY <1>1 DEF Drawn, Draft, Held, At

(* What a grant of the challenge a handler has found does to the history.  *)
LEMMA GrantInv ==
  ASSUME TypeOK, ChallengeInv, NEW j \in DOMAIN store, NEW p,
         store[j].purpose = p,
         granted' = [granted EXCEPT ![j] = Append(@, p)],
         born' = born, DOMAIN store' = DOMAIN store \ {j}
  PROVE  GrantedOnce' /\ ForItsPurpose'
<1>1. granted[j] = <<>> /\ j \in Jti
  BY DEF ChallengeInv, GrantedOnce, TypeOK
<1>2. granted'[j] = <<p>> /\ \A k \in Jti : k # j => granted'[k] = granted[k]
  BY <1>1 DEF TypeOK
<1>3. j \in DOMAIN born /\ born[j] = p
  BY DEF ChallengeInv, Drawn
<1>4. DOMAIN granted'[j] = {1} /\ granted'[j][1] = p /\ Len(granted'[j]) <= 1
  BY <1>2
<1>5. GrantedOnce'
  BY <1>2, <1>4 DEF ChallengeInv, GrantedOnce
<1>6. ForItsPurpose'
  BY <1>2, <1>3, <1>4 DEF ChallengeInv, ForItsPurpose
<1> QED
  BY <1>5, <1>6

LEMMA ConsumeInv ==
  ASSUME TypeOK, ChallengeInv, NEW r \in Request, Consume(r)
  PROVE  ChallengeInv'
<1>0. PICK j \in Jti, p \in Purpose : j = req[r].jti /\ p = req[r].purpose
  BY HandlerType DEF Consume, TypeOK
<1>1. /\ DOMAIN store' = DOMAIN store \ {j}
      /\ \A k \in DOMAIN store' : store'[k] = store[k]
      /\ UNCHANGED <<token, born, failed>>
      /\ j \in DOMAIN token
  BY <1>0 DEF Consume, Delete, ChallengeInv, Drawn, Held
<1>2. Drawn'
  BY <1>1, SpenderInv DEF Consume, ChallengeInv
<1>3. AttemptsBounded'
  BY <1>1 DEF ChallengeInv, AttemptsBounded
<1>4. CASE Matches(store, j, p, now) /\ granted' = [granted EXCEPT ![j] = Append(@, p)]
  <2>1. GrantedOnce' /\ ForItsPurpose'
    BY <1>1, <1>4, GrantInv DEF Matches, Present
  <2>2. Counted'
    BY <1>1, <1>4 DEF ChallengeInv, Counted, TypeOK
  <2> QED
    BY <1>2, <1>3, <2>1, <2>2 DEF ChallengeInv
<1>5. CASE granted' = granted
  BY <1>1, <1>2, <1>3, <1>5
     DEF ChallengeInv, Counted, GrantedOnce, ForItsPurpose
<1> QED
  BY <1>0, <1>4, <1>5 DEF Consume

(* The script: the challenge is gone, or counts one attempt more.          *)
LEMMA AttemptEffect ==
  ASSUME TypeOK, NEW j \in DOMAIN store, NEW valid \in BOOLEAN,
         store' = AfterAttempt(store, j, valid, now)
  PROVE  /\ \A k \in DOMAIN store' : k \in DOMAIN store
                /\ store'[k].purpose = store[k].purpose
         /\ \A k \in DOMAIN store' : k # j => store'[k] = store[k]
         /\ valid => DOMAIN store' = DOMAIN store \ {j}
         /\ j \in DOMAIN store' =>
              /\ store'[j].attempts = store[j].attempts + 1
              /\ store[j].attempts + 1 < MaxAttempts
<1>1. /\ Retried(store[j], now).attempts = store[j].attempts + 1
      /\ Retried(store[j], now).purpose = store[j].purpose
      /\ store[j].attempts \in Nat
  BY RetriedType DEF TypeOK, Challenge
<1>2. CASE valid \/ Exhausts(store[j])
  BY <1>2 DEF AfterAttempt, Delete
<1>3. CASE ~(valid \/ Exhausts(store[j]))
  BY <1>1, <1>3, MaxAttemptsAssumption DEF AfterAttempt, Put, Exhausts
<1> QED
  BY <1>2, <1>3

LEMMA AttemptInv ==
  ASSUME TypeOK, ChallengeInv, NEW r \in Request, NEW valid \in BOOLEAN,
         RecordAttempt(r, valid)
  PROVE  ChallengeInv'
<1>0. PICK j \in Jti, p \in Purpose : j = req[r].jti /\ p = req[r].purpose
  BY HandlerType DEF RecordAttempt, TypeOK
<1>1. j \in DOMAIN token /\ UNCHANGED <<token, born>>
  BY <1>0 DEF RecordAttempt, ChallengeInv, Drawn, Held
<1>2. CASE ~Matches(store, j, p, now)
  <2>1. UNCHANGED <<store, failed, granted>>
    BY <1>0, <1>2 DEF RecordAttempt
  <2>2. Drawn'
    BY <1>1, <2>1, SpenderInv DEF RecordAttempt, ChallengeInv
  <2> QED
    BY <1>1, <2>1, <2>2
       DEF ChallengeInv, Counted, GrantedOnce, ForItsPurpose, AttemptsBounded
<1>3. CASE Matches(store, j, p, now)
  <2>1. j \in DOMAIN store /\ store[j].purpose = p
    BY <1>3 DEF Matches, Present
  <2>2. store' = AfterAttempt(store, j, valid, now)
    BY <1>0, <1>3 DEF RecordAttempt
  <2>3. /\ \A k \in DOMAIN store' : k \in DOMAIN store
               /\ store'[k].purpose = store[k].purpose
        /\ \A k \in DOMAIN store' : k # j => store'[k] = store[k]
        /\ valid => DOMAIN store' = DOMAIN store \ {j}
        /\ j \in DOMAIN store' =>
             /\ store'[j].attempts = store[j].attempts + 1
             /\ store[j].attempts + 1 < MaxAttempts
    BY <2>1, <2>2, AttemptEffect
  <2>4. failed' = IF valid THEN failed ELSE [failed EXCEPT ![j] = @ + 1]
    BY <1>0, <1>3 DEF RecordAttempt
  <2>5. \/ granted' = granted
        \/ valid /\ granted' = [granted EXCEPT ![j] = Append(@, p)]
    BY <1>0, <1>3 DEF RecordAttempt
  <2>6. Drawn'
    BY <1>1, <2>3, SpenderInv DEF RecordAttempt, ChallengeInv
  <2>7. store[j].attempts = failed[j] /\ failed[j] \in Nat
    BY <2>1 DEF ChallengeInv, Counted, TypeOK
  <2>8. Counted'
    <3>1. \A k \in Jti : granted'[k] # <<>> \/ failed'[k] # 0 => k \in DOMAIN token
      BY <1>1, <2>4, <2>5 DEF ChallengeInv, Counted, TypeOK
    <3>2. \A k \in DOMAIN store' : store'[k].attempts = failed'[k]
      BY <2>3, <2>4, <2>7 DEF ChallengeInv, Counted, TypeOK
    <3> QED
      BY <1>1, <3>1, <3>2 DEF Counted
  <2>9. AttemptsBounded'
    BY <2>1, <2>3, <2>4, <2>7, MaxAttemptsAssumption
       DEF ChallengeInv, AttemptsBounded, TypeOK
  <2>10. GrantedOnce' /\ ForItsPurpose'
    <3>1. CASE granted' = granted
      BY <1>1, <2>3, <3>1 DEF ChallengeInv, GrantedOnce, ForItsPurpose
    <3>2. CASE valid /\ granted' = [granted EXCEPT ![j] = Append(@, p)]
      BY <1>1, <2>1, <2>3, <3>2, GrantInv
    <3> QED
      BY <2>5, <3>1, <3>2
  <2> QED
    BY <2>6, <2>8, <2>9, <2>10 DEF ChallengeInv
<1> QED
  BY <1>2, <1>3

LEMMA NextInv == TypeOK /\ ChallengeInv /\ [Next]_vars => ChallengeInv'
<1> SUFFICES ASSUME TypeOK, ChallengeInv, [Next]_vars
             PROVE  ChallengeInv'
  OBVIOUS
<1>1. ASSUME NEW r \in Request,
             \/ \E j \in Jti : DrawJti(r, j)
             \/ Create(r) \/ Sign(r) \/ Consume(r)
             \/ \E valid \in BOOLEAN : RecordAttempt(r, valid)
      PROVE  ChallengeInv'
  BY <1>1, DrawJtiInv, CreateInv, SignInv, ConsumeInv, AttemptInv
<1>2. ASSUME NEW r \in Request, NEW p \in Purpose, Login(r, p)
      PROVE  ChallengeInv'
  BY <1>2, HandlerInv DEF Login
<1>3. ASSUME NEW r \in Request, NEW j \in Jti, NEW p \in Purpose,
             VerifyJwt(r, j, p)
      PROVE  ChallengeInv'
  BY <1>3, HandlerInv DEF VerifyJwt
<1>4. ASSUME NEW r \in Request, Verify(r)
      PROVE  ChallengeInv'
  <2>1. req[r].jti \in DOMAIN token
    BY <1>4 DEF Verify, ChallengeInv, Drawn, Held
  <2>2. /\ [req[r] EXCEPT !.at = "spend"].at = "spend"
        /\ [req[r] EXCEPT !.at = "spend"].jti = req[r].jti
    BY <1>4, HandlerType DEF Verify, TypeOK
  <2> QED
    BY <1>4, <2>1, <2>2, HandlerInv DEF Verify, Idle
<1>5. ASSUME NEW r \in Request, Abort(r)
      PROVE  ChallengeInv'
  BY <1>5, HandlerInv DEF Abort, Idle
<1>6. CASE Tick \/ UNCHANGED vars
  BY <1>6 DEF Tick, vars, ChallengeInv, Drawn, Counted, GrantedOnce,
              ForItsPurpose, AttemptsBounded, Draft, Held, At
<1> QED
  BY <1>1, <1>2, <1>3, <1>4, <1>5, <1>6 DEF Next

LEMMA InitInv == Init => TypeOK /\ ChallengeInv
BY ChallengeTimesAssumption, MaxAttemptsAssumption, HandlerMade
   DEF Init, TypeOK, ChallengeInv, Drawn, Counted, GrantedOnce, ForItsPurpose,
       AttemptsBounded, Draft, Held, At, Idle

LEMMA Invariance == Spec => [](TypeOK /\ ChallengeInv)
<1>1. TypeOK /\ ChallengeInv /\ [Next]_vars => (TypeOK /\ ChallengeInv)'
  BY NextTyped, NextInv
<1> QED
  BY InitInv, <1>1, PTL DEF Spec

(* Every challenge and every handler keeps its type, commands that run     *)
(* twice included: no challenge is without its counter or its purpose.     *)
THEOREM TypeCorrect == Spec => []TypeOK
BY Invariance, PTL

(* A challenge lets one handler through at most, although many may hold it *)
(* and a command may run twice.                                            *)
THEOREM GrantedOnceHolds == Spec => []GrantedOnce
<1>1. ChallengeInv => GrantedOnce
  BY DEF ChallengeInv
<1> QED
  BY <1>1, Invariance, PTL

(* And only through the step it was created for. *)
THEOREM ForItsPurposeHolds == Spec => []ForItsPurpose
<1>1. ChallengeInv => ForItsPurpose
  BY DEF ChallengeInv
<1> QED
  BY <1>1, Invariance, PTL

(* No more than MaxAttempts codes can be tried against it. *)
THEOREM AttemptsBoundedHolds == Spec => []AttemptsBounded
<1>1. ChallengeInv => AttemptsBounded
  BY DEF ChallengeInv
<1> QED
  BY <1>1, Invariance, PTL

-----------------------------------------------------------------------------
(***************************************************************************)
(* The life of a challenge, by the same invariant.  A token is signed for  *)
(* a challenge that nobody has tried yet, and one wrong code is counted by *)
(* the script; every other step, the SET of a challenge without its token, *)
(* a command that runs again and the clock among them, ends challenges or  *)
(* leaves them as they are.                                                *)
(***************************************************************************)
LEMMA LifeIs ==
  /\ phaseOf = [j \in Jti |-> phaseOf[j]] /\ missesOf = [j \in Jti |-> missesOf[j]]
  /\ \A j \in Jti :
       /\ phaseOf[j] = IF j \notin DOMAIN token THEN "none"
                       ELSE IF Open(j) THEN "open" ELSE "over"
       /\ missesOf[j] = IF Open(j) THEN failed[j] ELSE 0
BY DEF phaseOf, missesOf

LEMMA LifeBecomes ==
  /\ phaseOf' = [j \in Jti |-> phaseOf'[j]]
  /\ missesOf' = [j \in Jti |-> missesOf'[j]]
  /\ \A j \in Jti :
       /\ phaseOf'[j] = IF j \notin DOMAIN token' THEN "none"
                        ELSE IF Open(j)' THEN "open" ELSE "over"
       /\ missesOf'[j] = IF Open(j)' THEN failed'[j] ELSE 0
BY DEF phaseOf, missesOf

(* A step that opens no challenge, and counts nothing against one that     *)
(* stays open.                                                             *)
LEMMA Endings ==
  ASSUME DOMAIN token' = DOMAIN token,
         \A j \in Jti : Open(j)' => Open(j) /\ failed'[j] = failed[j]
  PROVE  Lifecycle!Next
<1> DEFINE S == {j \in Jti : Open(j) /\ ~Open(j)'}
<1>1. \A j \in S : phaseOf[j] = "open"
  BY LifeIs DEF Open
<1>2. \A j \in Jti : phaseOf'[j] = IF j \in S THEN "over" ELSE phaseOf[j]
  BY LifeIs, LifeBecomes DEF Open
<1>3. \A j \in Jti : missesOf'[j] = IF j \in S THEN 0 ELSE missesOf[j]
  BY LifeIs, LifeBecomes
<1>4. /\ phaseOf' = [j \in Jti |-> IF j \in S THEN "over" ELSE phaseOf[j]]
      /\ missesOf' = [j \in Jti |-> IF j \in S THEN 0 ELSE missesOf[j]]
  <2> HIDE DEF S
  <2> QED
    BY <1>2, <1>3, LifeBecomes
<1>5. Lifecycle!End(S)
  BY <1>1, <1>4 DEF Lifecycle!End
<1> QED
  BY <1>5 DEF Lifecycle!Next

LEMMA SignLives ==
  ASSUME TypeOK, ChallengeInv, NEW r \in Request, Sign(r)
  PROVE  Lifecycle!Next
<1>1. PICK j \in Jti : j = req[r].jti
  BY HandlerType DEF Sign, TypeOK
<1>2. /\ j \notin DOMAIN token /\ failed[j] = 0
      /\ DOMAIN token' = DOMAIN token \cup {j}
      /\ UNCHANGED <<store, now, failed>>
  BY <1>1 DEF Sign, Put, ChallengeInv, Drawn, Draft, Counted
<1>3. \A k \in Jti : k # j => (Open(k)' <=> Open(k))
  BY <1>2 DEF Open, Present
<1>4. ~Open(j)
  BY <1>2 DEF Open
<1>5. /\ phaseOf[j] = "none" /\ phaseOf'[j] \in {"open", "over"}
      /\ \A k \in Jti : k # j => phaseOf'[k] = phaseOf[k]
      /\ \A k \in Jti : missesOf'[k] = missesOf[k]
  BY <1>2, <1>3, <1>4, LifeIs, LifeBecomes
<1>6. phaseOf' = [phaseOf EXCEPT ![j] = phaseOf'[j]] /\ missesOf' = missesOf
  BY <1>5, LifeIs, LifeBecomes
<1>7. Lifecycle!Issue(j)
  BY <1>5, <1>6 DEF Lifecycle!Issue
<1> QED
  BY <1>7 DEF Lifecycle!Next

LEMMA AttemptLives ==
  ASSUME TypeOK, ChallengeInv, NEW r \in Request, NEW valid \in BOOLEAN,
         RecordAttempt(r, valid)
  PROVE  Lifecycle!Next
<1>1. PICK j \in Jti, p \in Purpose : j = req[r].jti /\ p = req[r].purpose
  BY HandlerType DEF RecordAttempt, TypeOK
<1>2. j \in DOMAIN token /\ UNCHANGED <<token, now>>
  BY <1>1 DEF RecordAttempt, ChallengeInv, Drawn, Held
<1>3. CASE ~Matches(store, j, p, now)
  BY <1>1, <1>2, <1>3, Endings DEF RecordAttempt, Open, Present
<1>4. CASE Matches(store, j, p, now)
  <2>1. j \in DOMAIN store /\ Open(j) /\ store' = AfterAttempt(store, j, valid, now)
    BY <1>1, <1>2, <1>4 DEF RecordAttempt, Matches, Present, Open
  <2>2. /\ DOMAIN store' \subseteq DOMAIN store
        /\ \A k \in DOMAIN store' : k # j => store'[k] = store[k]
        /\ valid => j \notin DOMAIN store'
        /\ j \in DOMAIN store' => store[j].attempts + 1 < MaxAttempts
    BY <2>1, AttemptEffect
  <2>3. failed' = IF valid THEN failed ELSE [failed EXCEPT ![j] = @ + 1]
    BY <1>1, <1>4 DEF RecordAttempt
  <2>4. ASSUME NEW k \in Jti, k # j, Open(k)'
        PROVE  Open(k) /\ failed'[k] = failed[k]
    <3>1. k \in DOMAIN store /\ store'[k] = store[k]
      BY <2>2, <2>4 DEF Open, Present
    <3>2. Open(k)
      BY <1>2, <2>4, <3>1 DEF Open, Present
    <3>3. failed'[k] = failed[k]
      BY <2>3, <2>4 DEF TypeOK
    <3> QED
      BY <3>2, <3>3
  <2>5. CASE ~Open(j)'
    BY <1>2, <2>4, <2>5, Endings
  <2>6. CASE Open(j)'
    <3>1. ~valid /\ failed[j] + 1 < MaxAttempts /\ failed'[j] = failed[j] + 1
      BY <2>1, <2>2, <2>3, <2>6 DEF Open, Present, ChallengeInv, Counted, TypeOK
    <3>2. \A k \in Jti : k # j => (Open(k) <=> Open(k)') /\ failed'[k] = failed[k]
      <4>1. DOMAIN store' = DOMAIN store
              /\ \A k \in DOMAIN store : k # j => store'[k] = store[k]
        BY <2>1, <2>6 DEF AfterAttempt, Delete, Put, Open, Present
      <4> QED
        BY <1>2, <2>3, <4>1 DEF Open, Present, TypeOK
    <3>3. /\ phaseOf[j] = "open" /\ phaseOf' = phaseOf
          /\ missesOf[j] + 1 < MaxAttempts
          /\ missesOf'[j] = missesOf[j] + 1
          /\ \A k \in Jti : k # j => missesOf'[k] = missesOf[k]
      BY <1>2, <2>1, <2>6, <3>1, <3>2, LifeIs, LifeBecomes
    <3>4. missesOf' = [missesOf EXCEPT ![j] = @ + 1]
      BY <3>3, LifeIs, LifeBecomes
    <3>5. Lifecycle!Miss(j)
      BY <3>3, <3>4 DEF Lifecycle!Miss
    <3> QED
      BY <3>5 DEF Lifecycle!Next
  <2> QED
    BY <2>5, <2>6
<1> QED
  BY <1>3, <1>4

LEMMA NextLives ==
  TypeOK /\ ChallengeInv /\ [Next]_vars => [Lifecycle!Next]_(Lifecycle!vars)
<1> SUFFICES ASSUME TypeOK, ChallengeInv, Next
             PROVE  Lifecycle!Next
  BY DEF vars, Lifecycle!vars, phaseOf, missesOf, Open, Present
<1>1. ASSUME NEW r \in Request,
             \/ \E valid \in BOOLEAN : RecordAttempt(r, valid)
             \/ Sign(r)
      PROVE  Lifecycle!Next
  BY <1>1, SignLives, AttemptLives
<1>2. ASSUME NEW r \in Request, Create(r)
      PROVE  Lifecycle!Next
  <2>1. req[r].jti \notin DOMAIN token
    BY <1>2 DEF Create, ChallengeInv, Drawn, Draft
  <2>2. \A j \in DOMAIN token :
          /\ j \in DOMAIN store' <=> j \in DOMAIN store
          /\ j \in DOMAIN store => store'[j] = store[j]
    BY <1>2, <2>1 DEF Create, Put
  <2> QED
    BY <1>2, <2>2, Endings DEF Create, Open, Present
<1>3. ASSUME NEW r \in Request, Consume(r)
      PROVE  Lifecycle!Next
  BY <1>3, Endings DEF Consume, Delete, Open, Present
<1>4. CASE Tick
  BY <1>4, Endings DEF Tick, Open, Present, TypeOK, Challenge
<1>5. ASSUME UNCHANGED <<store, token, now, failed>>
      PROVE  Lifecycle!Next
  BY <1>5, Endings DEF Open, Present
<1>6. ASSUME NEW r \in Request,
             \/ \E p \in Purpose : Login(r, p)
             \/ \E j \in Jti : DrawJti(r, j)
             \/ \E j \in Jti, p \in Purpose : VerifyJwt(r, j, p)
             \/ Verify(r) \/ Abort(r)
      PROVE  Lifecycle!Next
  BY <1>5, <1>6 DEF Login, DrawJti, VerifyJwt, Verify, Abort
<1> QED
  BY <1>1, <1>2, <1>3, <1>4, <1>6 DEF Next

(* Whatever runs twice, is answered late or never, and whenever the clock  *)
(* ends it, a challenge lives the life that is promised: once over it is   *)
(* never open again, and no code is judged against it.                     *)
THEOREM ChallengesLiveOnceHolds == Spec => ChallengesLiveOnce
<1>1. Init => Lifecycle!Init
  BY DEF Init, Lifecycle!Init, phaseOf, missesOf, Open
<1> QED
  BY <1>1, NextLives, Invariance, PTL DEF Spec, ChallengesLiveOnce, Lifecycle!Spec

-----------------------------------------------------------------------------
(***************************************************************************)
(* The time to live of a challenge.  The claim that every challenge has    *)
(* one is false, and for one reason only: a wrong code that is judged in   *)
(* the very instant the challenge ends.                                    *)
(***************************************************************************)
MissAtTheEnd ==
  \E j \in DOMAIN store : now \in store[j].expires /\ failed'[j] # failed[j]

LEMMA NextEnds ==
  TypeOK /\ ChallengesEnd /\ [Next]_vars /\ [~MissAtTheEnd]_vars =>
    ChallengesEnd'
<1> SUFFICES ASSUME TypeOK, ChallengesEnd, [Next]_vars, [~MissAtTheEnd]_vars
             PROVE  ChallengesEnd'
  OBVIOUS
<1>1. ASSUME NEW r \in Request, Create(r)
      PROVE  ChallengesEnd'
  <2>1. NewChallenge(req[r].purpose, now + Ttl).expires # {}
    BY DEF NewChallenge
  <2> QED
    BY <1>1, <2>1 DEF Create, Put, ChallengesEnd
<1>2. ASSUME NEW r \in Request, Consume(r)
      PROVE  ChallengesEnd'
  BY <1>2 DEF Consume, Delete, ChallengesEnd
<1>3. ASSUME NEW r \in Request, NEW valid \in BOOLEAN, RecordAttempt(r, valid)
      PROVE  ChallengesEnd'
  <2> DEFINE j == req[r].jti
  <2>1. CASE store' = store \/ store' = Delete(store, j)
    BY <2>1 DEF Delete, ChallengesEnd
  <2>2. CASE ~(store' = store \/ store' = Delete(store, j))
    <3>1. /\ Matches(store, j, req[r].purpose, now) /\ ~valid
          /\ store' = Put(store, j, Retried(store[j], now))
          /\ failed' = [failed EXCEPT ![j] = @ + 1]
      BY <1>3, <2>2 DEF RecordAttempt, AfterAttempt
    <3>2. /\ j \in DOMAIN store /\ j \in Jti /\ store[j] \in Challenge
          /\ \A t \in store[j].expires : now <= t
      BY <3>1 DEF Matches, Present, TypeOK
    <3>3. failed'[j] # failed[j] /\ vars' # vars
      BY <3>1, <3>2 DEF TypeOK, vars
    <3>4. now \notin store[j].expires
      BY <3>2, <3>3 DEF MissAtTheEnd
    <3>5. {t \in store[j].expires : now < t} = store[j].expires
      BY <3>2, <3>4, ChallengeTimesAssumption DEF Challenge, TypeOK
    <3>6. Retried(store[j], now).expires # {}
      BY <3>2, <3>5 DEF Retried, Challenge, ChallengesEnd
    <3> QED
      BY <3>1, <3>6 DEF Put, ChallengesEnd
  <2> QED
    BY <2>1, <2>2
<1>4. ASSUME store' = store
      PROVE  ChallengesEnd'
  BY <1>4 DEF ChallengesEnd
<1>5. ASSUME NEW r \in Request,
             \/ \E p \in Purpose : Login(r, p)
             \/ \E j \in Jti : DrawJti(r, j)
             \/ \E j \in Jti, p \in Purpose : VerifyJwt(r, j, p)
             \/ Sign(r) \/ Verify(r) \/ Abort(r)
      PROVE  ChallengesEnd'
  BY <1>4, <1>5 DEF Login, DrawJti, VerifyJwt, Sign, Verify, Abort
<1>6. CASE Tick \/ UNCHANGED vars
  BY <1>4, <1>6 DEF Tick, vars
<1> QED
  BY <1>1, <1>2, <1>3, <1>5, <1>6 DEF Next

(* Every challenge has an end if no wrong code is judged in the instant it *)
(* ends: SETs that are sent again, answers that are lost and codes judged  *)
(* at any other time leave it one.                                         *)
THEOREM ChallengesEndUnlessMissed ==
  Spec /\ [][~MissAtTheEnd]_vars => []ChallengesEnd
<1>1. Init => ChallengesEnd
  BY DEF Init, ChallengesEnd
<1> QED
  BY <1>1, NextEnds, TypeCorrect, PTL DEF Spec
=============================================================================
