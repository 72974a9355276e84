---------------------- MODULE AuthorizationCodesProofs ---------------------
(***************************************************************************)
(* What AuthorizationCodes guarantees for any number of codes, clients and *)
(* concurrent requests, and any lifetime.                                  *)
(***************************************************************************)
EXTENDS AuthorizationCodes, TLAPS

(***************************************************************************)
(* Every code a handler holds, or that is in the Map, or that has opened a *)
(* session, was generated, and the Map keeps it as generated.  A fresh     *)
(* code therefore has no past; OneSessionPerCode is inductive only then.   *)
(***************************************************************************)
Known ==
  /\ \A k \in DOMAIN codes : k \in DOMAIN issued /\ codes[k] = issued[k]
  /\ \A k \in Code : Len(opened[k]) # 0 => k \in DOMAIN issued
  /\ \A r \in Request :
       At(r, "compare") \/ At(r, "save") => req[r].code \in DOMAIN issued

(* What a handler holds at each await. *)
LEMMA HandlerType ==
  ASSUME req \in [Request -> Handler], NEW r \in Request
  PROVE  /\ ~At(r, "idle") => req[r].clientId \in Client
         /\ At(r, "compare") \/ At(r, "save") =>
              /\ req[r].code \in Code
              /\ [req[r] EXCEPT !.at = "save"] =
                   [at |-> "save", clientId |-> req[r].clientId,
                    code |-> req[r].code]
BY DEF Handler, At

LEMMA BecomeType ==
  ASSUME req \in [Request -> Handler], NEW r \in Request, NEW h \in Handler,
         Become(r, h)
  PROVE  /\ req' \in [Request -> Handler]
         /\ req'[r] = h
         /\ \A s \in Request : s # r => req'[s] = req[s]
BY DEF Become

(* The Map after set; Keep is only ever a restriction of it. *)
LEMMA SetMap ==
  ASSUME NEW map, DOMAIN map \subseteq Code, map \in [DOMAIN map -> Entry],
         NEW k \in Code, NEW e \in Entry
  PROVE  /\ DOMAIN Set(map, k, e) = DOMAIN map \cup {k}
         /\ Set(map, k, e) \in [DOMAIN Set(map, k, e) -> Entry]
         /\ Set(map, k, e)[k] = e
         /\ \A j \in DOMAIN map : j # k => Set(map, k, e)[j] = map[j]
BY DEF Set

LEMMA IdleHandler == Idle \in Handler /\ Idle.at = "idle"
BY DEF Idle, Handler

(* The handler a step of r goes on to, and that it has its type.           *)
LEMMA NextHandler ==
  ASSUME TypeOK, NEW r \in Request,
         \/ \E c \in Client : IssueFind(r, c) \/ \E k \in Code : ExchangeFind(r, c, k)
         \/ Resume(r) \/ Abort(r)
  PROVE  req' \in [Request -> Handler]
<1>1. ASSUME NEW c \in Client, IssueFind(r, c)
      PROVE  req' \in [Request -> Handler]
  <2>1. [at |-> "university", clientId |-> c] \in Handler
    BY DEF Handler
  <2> QED
    BY <1>1, <2>1, BecomeType DEF IssueFind, TypeOK
<1>2. ASSUME NEW c \in Client, NEW k \in Code, ExchangeFind(r, c, k)
      PROVE  req' \in [Request -> Handler]
  <2>1. [at |-> "compare", clientId |-> c, code |-> k] \in Handler
    BY DEF Handler
  <2> QED
    BY <1>2, <2>1, BecomeType DEF ExchangeFind, TypeOK
<1>3. CASE ExchangeConsume(r)
  <2>1. [req[r] EXCEPT !.at = "save"] \in Handler
    BY <1>3, HandlerType DEF ExchangeConsume, TypeOK, At, Handler
  <2> QED
    BY <1>3, <2>1, IdleHandler, BecomeType DEF ExchangeConsume, TypeOK
<1>4. ASSUME \/ \E k \in Code : IssueGenerate(r, k)
             \/ ExchangeSave(r)
             \/ Abort(r)
      PROVE  req' \in [Request -> Handler]
  BY <1>4, IdleHandler, BecomeType
     DEF IssueGenerate, ExchangeSave, Abort, TypeOK
<1> QED
  BY <1>1, <1>2, <1>3, <1>4 DEF Resume

LEMMA NextTyped == TypeOK /\ [Next]_vars => TypeOK'
<1> SUFFICES ASSUME TypeOK, [Next]_vars
             PROVE  TypeOK'
  OBVIOUS
<1>1. ASSUME NEW r \in Request, NEW k \in Code, IssueGenerate(r, k)
      PROVE  TypeOK'
  <2> DEFINE e == NewEntry(req[r].clientId)
  <2>1. e \in Entry
    <3>1. req[r].clientId \in Client
      BY <1>1, HandlerType DEF IssueGenerate, TypeOK, At
    <3>2. now + CodeTtl \in Nat
      BY CodeTimesAssumption DEF TypeOK
    <3> QED
      BY <3>1, <3>2 DEF NewEntry, Entry
  <2>2. req' \in [Request -> Handler]
    BY <1>1, NextHandler DEF Resume
  <2>3. codes' = Set(codes, k, e) /\ issued' = Set(issued, k, e)
    BY <1>1 DEF IssueGenerate
  <2> HIDE DEF e
  <2>4. DOMAIN codes' \subseteq Code /\ codes' \in [DOMAIN codes' -> Entry]
    BY <2>1, <2>3 DEF Set, TypeOK
  <2>5. DOMAIN issued' \subseteq Code /\ issued' \in [DOMAIN issued' -> Entry]
    BY <2>1, <2>3 DEF Set, TypeOK
  <2> QED
    BY <1>1, <2>2, <2>4, <2>5 DEF IssueGenerate, TypeOK
<1>2. ASSUME NEW r \in Request, ExchangeConsume(r)
      PROVE  TypeOK'
  <2>1. req' \in [Request -> Handler]
    BY <1>2, NextHandler DEF Resume
  <2>2. /\ DOMAIN codes' \subseteq Code
        /\ codes' \in [DOMAIN codes' -> Entry]
    BY <1>2 DEF ExchangeConsume, Consumed, Keep, TypeOK
  <2> QED
    BY <1>2, <2>1, <2>2 DEF ExchangeConsume, TypeOK
<1>3. ASSUME NEW r \in Request, ExchangeSave(r)
      PROVE  TypeOK'
  <2>1. req' \in [Request -> Handler]
    BY <1>3, NextHandler DEF Resume
  <2>2. req[r].code \in Code /\ req[r].clientId \in Client
    BY <1>3, HandlerType DEF ExchangeSave, TypeOK, At
  <2>3. opened' \in [Code -> Seq(Client)]
    BY <1>3, <2>2 DEF ExchangeSave, TypeOK
  <2> QED
    BY <1>3, <2>1, <2>3 DEF ExchangeSave, TypeOK
<1>4. ASSUME NEW r \in Request,
             \/ \E c \in Client :
                  IssueFind(r, c) \/ \E k \in Code : ExchangeFind(r, c, k)
             \/ Abort(r)
      PROVE  TypeOK'
  <2>1. req' \in [Request -> Handler]
    BY <1>4, NextHandler
  <2> QED
    BY <1>4, <2>1 DEF IssueFind, ExchangeFind, Abort, TypeOK
<1>5. ASSUME NEW c \in Client, NEW state \in {"active", "suspended", "gone"},
             ClientChanges(c, state)
      PROVE  TypeOK'
  BY <1>5 DEF ClientChanges, TypeOK
<1>6. CASE PurgeExpired
  BY <1>6 DEF PurgeExpired, Keep, TypeOK
<1>7. CASE Restart
  BY <1>7, IdleHandler DEF Restart, TypeOK
<1>8. CASE Tick
  BY <1>8, CodeTimesAssumption DEF Tick, TypeOK
<1>9. CASE UNCHANGED vars
  BY <1>9 DEF vars, TypeOK
<1> QED
  BY <1>1, <1>2, <1>3, <1>4, <1>5, <1>6, <1>7, <1>8, <1>9 DEF Next, Resume

-----------------------------------------------------------------------------
(* The three facts about codes are one inductive invariant.                *)
CodeInv == Known /\ OneSessionPerCode /\ RightClient

(* The steps that at most take codes out of the Map: no code is generated, *)
(* no session stored, and no request gets past consume.                    *)
TakesOnly ==
  /\ \A k \in DOMAIN codes' : k \in DOMAIN codes /\ codes'[k] = codes[k]
  /\ issued' = issued /\ opened' = opened
  /\ \A r \in Request :
       (At(r, "compare") \/ At(r, "save"))' => req'[r].code \in DOMAIN issued
  /\ \A r \in Request : At(r, "save")' => req'[r] = req[r]

LEMMA TakesOnlyInv == CodeInv /\ TakesOnly => CodeInv'
<1> SUFFICES ASSUME CodeInv, TakesOnly
             PROVE  CodeInv'
  OBVIOUS
<1>1. Known'
  BY DEF CodeInv, Known, TakesOnly
<1>2. \A r \in Request, k \in Code :
        Pending(r, k)' => Pending(r, k) /\ req'[r].clientId = req[r].clientId
  BY DEF TakesOnly, Pending, At
<1>3. OneSessionPerCode'
  BY <1>2 DEF CodeInv, OneSessionPerCode, TakesOnly
<1>4. RightClient'
  <2>1. \A r \in Request, k \in DOMAIN issued :
          Pending(r, k)' => Pending(r, k) /\ req'[r].clientId = req[r].clientId
    BY DEF TakesOnly, Pending, At
  <2> QED
    BY <2>1 DEF CodeInv, RightClient, TakesOnly
<1> QED
  BY <1>1, <1>3, <1>4 DEF CodeInv

(* A handler that goes on to h, when h is not past consume.                *)
LEMMA HandlerTakesOnly ==
  ASSUME TypeOK, Known, NEW r \in Request, NEW h, Become(r, h),
         h.at # "save", h.at = "compare" => h.code \in DOMAIN issued,
         \A k \in DOMAIN codes' : k \in DOMAIN codes /\ codes'[k] = codes[k],
         issued' = issued, opened' = opened
  PROVE  TakesOnly
BY DEF TypeOK, Known, Become, TakesOnly, At

LEMMA IssueInv ==
  ASSUME TypeOK, CodeInv, NEW r \in Request, NEW k \in Code, IssueGenerate(r, k)
  PROVE  CodeInv'
<1> DEFINE e == NewEntry(req[r].clientId)
<1>1. /\ DOMAIN codes' = DOMAIN codes \cup {k} /\ codes'[k] = e
      /\ \A j \in DOMAIN codes : j # k => codes'[j] = codes[j]
      /\ DOMAIN issued' = DOMAIN issued \cup {k} /\ issued'[k] = e
      /\ \A j \in DOMAIN issued : j # k => issued'[j] = issued[j]
  BY DEF IssueGenerate, Set
<1> HIDE DEF e
<1>2. k \notin DOMAIN issued /\ k \notin DOMAIN codes
  BY DEF IssueGenerate, CodeInv, Known
<1>3. opened' = opened /\ Len(opened[k]) = 0
  BY <1>2 DEF IssueGenerate, CodeInv, Known
<1>4. /\ req'[r].at = "idle"
      /\ \A s \in Request : s # r => req'[s] = req[s]
  BY IdleHandler DEF IssueGenerate, Become, TypeOK
<1>5. \A s \in Request, j \in Code : Pending(s, j)' =>
        /\ Pending(s, j) /\ j # k /\ j \in DOMAIN issued
        /\ req'[s] = req[s]
  BY <1>2, <1>4 DEF Pending, At, CodeInv, Known
<1>6. Known'
  BY <1>1, <1>2, <1>3, <1>4 DEF CodeInv, Known, At
<1>7. OneSessionPerCode'
  BY <1>1, <1>3, <1>5 DEF CodeInv, OneSessionPerCode
<1>8. RightClient'
  <2>1. opened[k] = <<>>
    BY <1>3 DEF TypeOK
  <2> QED
    BY <1>1, <1>3, <1>5, <2>1 DEF CodeInv, RightClient, TypeOK
<1> QED
  BY <1>6, <1>7, <1>8 DEF CodeInv

LEMMA ConsumeInv ==
  ASSUME TypeOK, CodeInv, NEW r \in Request, ExchangeConsume(r)
  PROVE  CodeInv'
<1>0. PICK k \in Code : k = req[r].code
  BY HandlerType DEF ExchangeConsume, TypeOK
<1>1. k \in DOMAIN issued /\ At(r, "compare") /\ req[r].code = k
  BY <1>0 DEF ExchangeConsume, CodeInv, Known
<1>2. /\ DOMAIN codes' = DOMAIN codes \ {k}
      /\ \A j \in DOMAIN codes' : codes'[j] = codes[j]
      /\ issued' = issued /\ opened' = opened
  BY <1>0 DEF ExchangeConsume, Consumed, Keep, TypeOK
<1>3. CASE Accepts(k) /\ BelongsTo(k, req[r].clientId)
  <2>1. /\ k \in DOMAIN codes
        /\ issued[k].clientId = req[r].clientId
    BY <1>3 DEF Accepts, BelongsTo, CodeInv, Known
  <2>2. /\ req'[r] = [req[r] EXCEPT !.at = "save"]
        /\ \A s \in Request : s # r => req'[s] = req[s]
    BY <1>1, <1>3 DEF ExchangeConsume, Become, TypeOK
  <2>3. /\ req'[r].at = "save" /\ req'[r].code = k
        /\ req'[r].clientId = req[r].clientId
    BY <1>1, <2>2, HandlerType DEF TypeOK, At
  <2>4. \A s \in Request, j \in Code : Pending(s, j)' =>
          \/ s = r /\ j = k
          \/ s # r /\ j # k /\ Pending(s, j) /\ req'[s] = req[s]
    BY <1>1, <2>1, <2>2, <2>3 DEF Pending, At, CodeInv, OneSessionPerCode
  <2>5. Len(opened[k]) = 0
    BY <1>1, <2>1 DEF CodeInv, OneSessionPerCode
  <2>6. Known'
    BY <1>1, <1>2, <2>2, <2>3 DEF CodeInv, Known, At
  <2>7. OneSessionPerCode'
    BY <1>2, <2>4, <2>5 DEF CodeInv, OneSessionPerCode
  <2>8. RightClient'
    <3>1. \A j \in DOMAIN issued : \A i \in DOMAIN opened[j] :
            opened[j][i] = issued[j].clientId
      BY DEF CodeInv, RightClient
    <3>2. \A j \in DOMAIN issued, s \in Request : Pending(s, j)' =>
            req'[s].clientId = issued[j].clientId
      BY <2>1, <2>3, <2>4 DEF CodeInv, RightClient, TypeOK
    <3> QED
      BY <1>2, <3>1, <3>2 DEF RightClient
  <2> QED
    BY <2>6, <2>7, <2>8 DEF CodeInv
<1>4. CASE ~(Accepts(k) /\ BelongsTo(k, req[r].clientId))
  <2>1. Become(r, Idle)
    BY <1>1, <1>4 DEF ExchangeConsume
  <2>2. TakesOnly
    BY <1>2, <2>1, IdleHandler, HandlerTakesOnly DEF CodeInv
  <2> QED
    BY <2>2, TakesOnlyInv
<1> QED
  BY <1>3, <1>4

LEMMA SaveInv ==
  ASSUME TypeOK, CodeInv, NEW r \in Request, ExchangeSave(r)
  PROVE  CodeInv'
<1>0. PICK k \in Code, c \in Client : k = req[r].code /\ c = req[r].clientId
  BY HandlerType DEF ExchangeSave, TypeOK, At
<1>1. Pending(r, k) /\ k \in DOMAIN issued
  BY <1>0 DEF ExchangeSave, CodeInv, Known, Pending
<1>2. /\ opened[k] = <<>> /\ k \notin DOMAIN codes
      /\ issued[k].clientId = c
  BY <1>0, <1>1 DEF CodeInv, OneSessionPerCode, RightClient, TypeOK
<1>3. /\ opened'[k] = <<c>>
      /\ \A j \in Code : j # k => opened'[j] = opened[j]
      /\ codes' = codes /\ issued' = issued
  BY <1>0, <1>2 DEF ExchangeSave, TypeOK
<1>4. /\ req'[r].at = "idle"
      /\ \A s \in Request : s # r => req'[s] = req[s]
  BY IdleHandler DEF ExchangeSave, Become, TypeOK
<1>5. \A s \in Request, j \in Code : Pending(s, j)' =>
        Pending(s, j) /\ j # k /\ req'[s] = req[s]
  BY <1>1, <1>4 DEF Pending, At, CodeInv, OneSessionPerCode
<1>6. Known'
  BY <1>1, <1>3, <1>4 DEF CodeInv, Known, At
<1>7. OneSessionPerCode'
  <2>1. Len(opened'[k]) <= 1
    BY <1>3
  <2>2. \A s \in Request : ~Pending(s, k)'
    BY <1>5
  <2>3. \A j \in Code : j # k =>
          /\ Len(opened'[j]) <= 1
          /\ j \in DOMAIN codes => Len(opened'[j]) = 0
    BY <1>3 DEF CodeInv, OneSessionPerCode
  <2>4. \A j \in Code, s \in Request : Pending(s, j)' =>
          /\ Len(opened'[j]) = 0
          /\ j \notin DOMAIN codes
          /\ \A q \in Request : Pending(q, j)' => q = s
    BY <1>3, <1>5 DEF CodeInv, OneSessionPerCode
  <2>5. \A j \in Code : (Len(opened[j]) <= 1)'
    BY <2>1, <2>3
  <2>6. \A j \in Code : (j \in DOMAIN codes => Len(opened[j]) = 0)'
    BY <1>2, <1>3, <2>3
  <2>7. \A j \in Code, s \in Request : (Pending(s, j) =>
          Len(opened[j]) = 0 /\ j \notin DOMAIN codes)'
    BY <1>3, <2>4
  <2>8. \A j \in Code, q, s \in Request :
          (Pending(q, j) /\ Pending(s, j) => q = s)'
    BY <2>4
  <2> QED
    BY <2>5, <2>6, <2>7, <2>8 DEF OneSessionPerCode
<1>8. RightClient'
  <2>1. \A j \in DOMAIN issued : \A i \in DOMAIN opened'[j] :
          opened'[j][i] = issued[j].clientId
    <3>1. DOMAIN opened'[k] = {1} /\ opened'[k][1] = issued[k].clientId
      BY <1>2, <1>3
    <3>2. \A j \in DOMAIN issued : j # k => opened'[j] = opened[j]
      BY <1>3 DEF TypeOK
    <3> QED
      BY <3>1, <3>2 DEF CodeInv, RightClient
  <2>2. \A j \in DOMAIN issued, s \in Request : Pending(s, j)' =>
          req'[s].clientId = issued[j].clientId
    BY <1>5 DEF CodeInv, RightClient, TypeOK
  <2> QED
    BY <1>3, <2>1, <2>2 DEF RightClient
<1> QED
  BY <1>6, <1>7, <1>8 DEF CodeInv

LEMMA NextInv == TypeOK /\ CodeInv /\ [Next]_vars => CodeInv'
<1> SUFFICES ASSUME TypeOK, CodeInv, [Next]_vars
             PROVE  CodeInv'
  OBVIOUS
<1>1. ASSUME NEW r \in Request, Resume(r)
      PROVE  CodeInv'
  BY <1>1, IssueInv, ConsumeInv, SaveInv DEF Resume
<1>2. ASSUME NEW r \in Request, NEW c \in Client, IssueFind(r, c)
      PROVE  CodeInv'
  BY <1>2, HandlerTakesOnly, TakesOnlyInv DEF IssueFind, CodeInv
<1>3. ASSUME NEW r \in Request, NEW c \in Client, NEW k \in Code,
             ExchangeFind(r, c, k)
      PROVE  CodeInv'
  BY <1>3, HandlerTakesOnly, TakesOnlyInv DEF ExchangeFind, CodeInv
<1>4. ASSUME NEW r \in Request, Abort(r)
      PROVE  CodeInv'
  BY <1>4, IdleHandler, HandlerTakesOnly, TakesOnlyInv DEF Abort, CodeInv
<1>5. CASE \/ \E c \in Client, state \in {"active", "suspended", "gone"} :
                ClientChanges(c, state)
           \/ Tick \/ UNCHANGED vars
  <2>1. TakesOnly
    BY <1>5 DEF ClientChanges, Tick, vars, TakesOnly, CodeInv, Known, At
  <2> QED
    BY <2>1, TakesOnlyInv
<1>6. CASE PurgeExpired
  <2>1. TakesOnly
    BY <1>6 DEF PurgeExpired, Keep, TakesOnly, CodeInv, Known, At
  <2> QED
    BY <2>1, TakesOnlyInv
<1>7. CASE Restart
  <2>1. TakesOnly
    BY <1>7, IdleHandler DEF Restart, TakesOnly, At
  <2> QED
    BY <2>1, TakesOnlyInv
<1> QED
  BY <1>1, <1>2, <1>3, <1>4, <1>5, <1>6, <1>7 DEF Next

LEMMA InitInv == Init => TypeOK /\ CodeInv
BY CodeTimesAssumption, IdleHandler
   DEF Init, TypeOK, CodeInv, Known, OneSessionPerCode, RightClient, Pending, At

LEMMA Invariance == Spec => [](TypeOK /\ CodeInv)
<1>1. TypeOK /\ CodeInv /\ [Next]_vars => (TypeOK /\ CodeInv)'
  BY NextTyped, NextInv
<1> QED
  BY InitInv, <1>1, PTL DEF Spec

(* Every entry of the Map and every handler keeps its type: a code is      *)
(* never without the client and the instant it is compared with.           *)
THEOREM TypeCorrect == Spec => []TypeOK
BY Invariance, PTL

(* A code opens one session at most, and one that is taken has one taker,  *)
(* for any number of requests, codes and restarts.                         *)
THEOREM OneSessionPerCodeHolds == Spec => []OneSessionPerCode
<1>1. CodeInv => OneSessionPerCode
  BY DEF CodeInv
<1> QED
  BY <1>1, Invariance, PTL

(* And that session is of the client the code was issued to. *)
THEOREM RightClientHolds == Spec => []RightClient
<1>1. CodeInv => RightClient
  BY DEF CodeInv
<1> QED
  BY <1>1, Invariance, PTL

(* A code is accepted within its lifetime only: the purge timer is for     *)
(* memory, not for correctness.                                            *)
THEOREM AcceptedInTimeHolds == Spec => AcceptedInTime
<1> DEFINE InTime ==
      \A r \in Request, k \in DOMAIN issued :
        ~Pending(r, k) /\ Pending(r, k)' => now <= issued[k].expiresAt
<1>1. TypeOK /\ CodeInv /\ [Next]_vars => InTime
  <2> SUFFICES ASSUME TypeOK, CodeInv, [Next]_vars,
                      NEW r \in Request, NEW k \in DOMAIN issued,
                      ~Pending(r, k), Pending(r, k)'
               PROVE  now <= issued[k].expiresAt
    OBVIOUS
  <2>1. ASSUME NEW s \in Request, ExchangeConsume(s)
        PROVE  now <= issued[k].expiresAt
    <3>1. s = r
      BY <2>1 DEF ExchangeConsume, Become, Pending, At, TypeOK
    <3>2. req[r].code = k /\ Accepts(k)
      BY <2>1, <3>1, HandlerType, IdleHandler
         DEF ExchangeConsume, Become, Pending, At, TypeOK
    <3> QED
      BY <3>2 DEF Accepts, CodeInv, Known
  <2>2. ASSUME NEW s \in Request, NEW h, Become(s, h), h.at # "save"
        PROVE  FALSE
    BY <2>2 DEF Become, Pending, At, TypeOK
  <2>3. ~(req' = req)
    BY DEF Pending, At
  <2>4. CASE Restart
    BY <2>4, IdleHandler DEF Restart, Pending, At
  <2> QED
    BY <2>1, <2>2, <2>3, <2>4, IdleHandler
       DEF Next, Resume, IssueFind, IssueGenerate, ExchangeFind, ExchangeSave,
           Abort, ClientChanges, PurgeExpired, Tick, vars
<1> QED
  BY <1>1, Invariance, PTL DEF Spec, AcceptedInTime
=============================================================================
