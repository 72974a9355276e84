----------------------- MODULE AdminTwoFactorProofs ------------------------
(***************************************************************************)
(* What AdminTwoFactor guarantees for any number of admins, pending        *)
(* tokens, TOTP secrets and concurrent requests, and any MaxAttempts.      *)
(***************************************************************************)
EXTENDS AdminTwoFactor, TLAPS

(* The challenges in Redis: what SET, DEL and the script leave. *)
StoreOK(s) == DOMAIN s \subseteq Jti /\ s \in [DOMAIN s -> Challenge]

LEMMA PutStore ==
  ASSUME NEW s, StoreOK(s), NEW j \in Jti, NEW c \in Challenge
  PROVE  StoreOK(Put(s, j, c))
BY DEF StoreOK, Put

LEMMA DeleteStore ==
  ASSUME NEW s, StoreOK(s), NEW j
  PROVE  StoreOK(Delete(s, j))
BY DEF StoreOK, Delete

LEMMA RetriedType ==
  ASSUME NEW c \in Challenge
  PROVE  Retried(c, 0) \in Challenge
<1>1. {t \in c.expires : 0 < t} \in SUBSET Nat
  BY DEF Challenge
<1>2. c.attempts + 1 \in Nat
  BY DEF Challenge
<1> QED
  BY <1>1, <1>2 DEF Challenge, Retried

(* A judged code leaves the challenges of the others, and its own or none. *)
LEMMA AfterAttemptIs ==
  ASSUME NEW s, StoreOK(s), NEW j \in DOMAIN s, NEW valid \in BOOLEAN
  PROVE  /\ StoreOK(AfterAttempt(s, j, valid, 0))
         /\ DOMAIN AfterAttempt(s, j, valid, 0) \subseteq DOMAIN s
         /\ valid => j \notin DOMAIN AfterAttempt(s, j, valid, 0)
<1>1. s[j] \in Challenge /\ j \in Jti
  BY DEF StoreOK
<1>2. PICK c \in Challenge : c = Retried(s[j], 0)
  BY <1>1, RetriedType
<1>3. /\ StoreOK(Put(s, j, Retried(s[j], 0)))
      /\ DOMAIN Put(s, j, Retried(s[j], 0)) = DOMAIN s
  <2>1. StoreOK(Put(s, j, c))
    BY <1>1, PutStore
  <2>2. DOMAIN Put(s, j, c) = DOMAIN s
    BY DEF Put
  <2> QED
    BY <1>2, <2>1, <2>2
<1>4. /\ StoreOK(Delete(s, j))
      /\ DOMAIN Delete(s, j) = DOMAIN s \ {j}
  BY DeleteStore DEF Delete
<1> QED
  BY <1>3, <1>4 DEF AfterAttempt

LEMMA NewChallengeType ==
  ASSUME NEW p \in Purpose
  PROVE  NewChallenge(p, 0) \in Challenge
BY DEF NewChallenge, Challenge

(* What a handler holds at each await, as TypeOK has it. *)
LEMMA HandlerType ==
  ASSUME NEW h \in Handler
  PROVE  /\ h.at = "issue" => /\ h.sub \in Admin /\ h.purpose \in Purpose
                              /\ h.login \in Jti \cup {"new"}
         /\ h.at \in {"find", "spend"} => h.op \in Op /\ h.jti \in Jti
         /\ h.at = "spend" => h.entity \in Entity
         /\ h.at \in {"select", "update", "insert", "pair"} =>
              /\ h.op \in Op /\ h.sub \in Admin /\ h.entity \in Entity
              /\ h.login \in Jti \cup {"none"} /\ h.code \in Secret \cup {"none"}
         /\ h.at = "update" => h.columns \subseteq {"totpSecret", "totpEnabled"}
BY DEF Handler

(* And what it takes to be a handler. *)
LEMMA IdleHandler == Idle \in Handler /\ Idle.at = "idle"
BY DEF Idle, Handler

LEMMA SaveHandler ==
  ASSUME NEW label \in {"select", "insert", "pair"}, NEW op \in Op,
         NEW a \in Admin, NEW e \in Entity, NEW l \in Jti \cup {"none"},
         NEW code \in Secret \cup {"none"}
  PROVE  [at |-> label, op |-> op, sub |-> a, entity |-> e, login |-> l,
          code |-> code] \in Handler
BY DEF Handler

LEMMA UpdateHandler ==
  ASSUME NEW op \in Op, NEW a \in Admin, NEW e \in Entity,
         NEW l \in Jti \cup {"none"}, NEW code \in Secret \cup {"none"},
         NEW cs \in SUBSET {"totpSecret", "totpEnabled"}
  PROVE  [at |-> "update", op |-> op, sub |-> a, entity |-> e, login |-> l,
          code |-> code, columns |-> cs] \in Handler
BY DEF Handler

LEMMA IssueHandler ==
  ASSUME NEW a \in Admin, NEW l \in Jti \cup {"new"}, NEW p \in Purpose
  PROVE  [at |-> "issue", sub |-> a, login |-> l, purpose |-> p] \in Handler
BY DEF Handler

LEMMA FindHandler ==
  ASSUME NEW op \in Op, NEW j \in Jti
  PROVE  [at |-> "find", op |-> op, jti |-> j] \in Handler
BY DEF Handler

LEMMA SpendHandler ==
  ASSUME NEW op \in Op, NEW j \in Jti, NEW e \in Entity
  PROVE  [at |-> "spend", op |-> op, jti |-> j, entity |-> e] \in Handler
BY DEF Handler

-----------------------------------------------------------------------------
(***************************************************************************)
(* Grounds.  TypeOK is not inductive by itself: what a handler saves,      *)
(* signs and opens depends on what it held before.  Every secret in the    *)
(* table or in the hands of a handler was generated for that admin,        *)
(* 2FA is on in an entity only after a code of its admin, and who goes on  *)
(* from a code has the code of that admin's secret.                        *)
(***************************************************************************)
Owns(a, s) == s \in DOMAIN owner /\ owner[s] = a

Grounds(a, e) ==
  /\ e \in Entity
  /\ e.totpSecret # "null" => Owns(a, e.totpSecret)
  /\ e.totpEnabled => a \in confirmed

(* The operations that a pending token begins. *)
Steps == {"setup", "confirm", "validate"}

Saves(h) == h.at \in {"select", "update", "insert", "pair"}

Sound(h) ==
  /\ h.at = "issue" => h.login = "new" \/ h.login \in DOMAIN token
  /\ h.at \in {"find", "spend"} => h.jti \in DOMAIN token /\ h.op \in Steps
  /\ h.at = "spend" =>
       /\ Grounds(token[h.jti].sub, h.entity)
       /\ h.op # "setup" => h.entity.totpSecret # "null"
  /\ Saves(h) =>
       /\ Grounds(h.sub, h.entity)
       /\ h.op \in Steps => h.login \in DOMAIN token
       /\ h.op \in {"confirm", "validate"} => Owns(h.sub, h.code)
  /\ h.at = "pair" => h.op \in {"confirm", "validate"}

HandlersSound == \A r \in Request : Sound(req[r])

RowsGrounded == \A a \in DOMAIN admins : Grounds(a, admins[a])

(* Every challenge has its token, and every token and session its login.   *)
Descended ==
  /\ DOMAIN store \subseteq DOMAIN token
  /\ \A j \in DOMAIN token : token[j].login \in DOMAIN token
  /\ \A j \in Jti : opened[j] # <<>> => j \in DOMAIN token

Grounded ==
  /\ TypeOK /\ HandlersSound /\ RowsGrounded
  /\ Descended /\ OwnCode

(* Tokens, the owners of secrets and the confirmed admins only grow. *)
HistoryGrows ==
  /\ \A j \in DOMAIN token : j \in DOMAIN token' /\ token'[j] = token[j]
  /\ \A s \in DOMAIN owner : s \in DOMAIN owner' /\ owner'[s] = owner[s]
  /\ confirmed \subseteq confirmed'

LEMMA GroundsStay ==
  ASSUME HistoryGrows, NEW a, NEW e, Grounds(a, e)
  PROVE  Grounds(a, e)'
BY DEF HistoryGrows, Grounds, Owns

LEMMA SoundStays ==
  ASSUME HistoryGrows, NEW h, Sound(h)
  PROVE  Sound(h)'
BY GroundsStay DEF HistoryGrows, Sound, Saves, Owns

(* A handler that moves on leaves the others where they are. *)
LEMMA HandlerMoves ==
  ASSUME TypeOK, HandlersSound, HistoryGrows, NEW r \in Request,
         NEW h \in Handler, Become(r, h), Sound(h)'
  PROVE  /\ req' \in [Request -> Handler]
         /\ HandlersSound'
<1>1. /\ req' \in [Request -> Handler] /\ req'[r] = h
      /\ \A s \in Request : s # r => req'[s] = req[s]
  BY DEF TypeOK, Become
<1>2. ASSUME NEW s \in Request
      PROVE  Sound(req[s])'
  <2>1. CASE s = r
    BY <1>1, <2>1 DEF Sound, Saves, Grounds, Owns
  <2>2. CASE s # r
    <3>1. PICK g : g = req[s]
      OBVIOUS
    <3>2. Sound(g) /\ req'[s] = g
      BY <1>1, <2>2, <3>1 DEF HandlersSound
    <3>3. Sound(g)'
      BY <3>2, SoundStays
    <3> QED
      BY <3>2, <3>3 DEF Sound, Saves, Grounds, Owns
  <2> QED
    BY <2>1, <2>2
<1> QED
  BY <1>1, <1>2 DEF HandlersSound

LEMMA OwnCodeStays ==
  ASSUME OwnCode, HistoryGrows, opened' = opened
  PROVE  OwnCode'
BY DEF OwnCode, HistoryGrows

LEMMA RowsStay ==
  ASSUME RowsGrounded, HistoryGrows, admins' = admins
  PROVE  RowsGrounded'
<1>1. ASSUME NEW a \in DOMAIN admins
      PROVE  Grounds(a, admins[a])'
  <2>1. PICK e : e = admins[a]
    OBVIOUS
  <2>2. Grounds(a, e)'
    BY <2>1, GroundsStay DEF RowsGrounded
  <2> QED
    BY <2>1, <2>2 DEF Grounds, Owns
<1> QED
  BY <1>1 DEF RowsGrounded

(* The steps that only take a handler to its next await. *)
LEMMA QuietMove ==
  ASSUME Grounded, NEW r \in Request, NEW h \in Handler, Become(r, h), Sound(h),
         UNCHANGED <<admins, store, token, history>>
  PROVE  Grounded'
<1>1. HistoryGrows /\ opened' = opened
  BY DEF HistoryGrows, history
<1>2. req' \in [Request -> Handler] /\ HandlersSound'
  BY <1>1, SoundStays, HandlerMoves DEF Grounded
<1>3. TypeOK' /\ Descended'
  BY <1>2 DEF Grounded, TypeOK, Descended, history
<1> QED
  BY <1>1, <1>2, <1>3, RowsStay, OwnCodeStays DEF Grounded

(* Facts that every step needs of the handler it resumes. *)
LEMMA HandlerIs ==
  ASSUME Grounded, NEW r \in Request
  PROVE  req[r] \in Handler /\ Sound(req[r])
BY DEF Grounded, TypeOK, HandlersSound

LEMMA IdleSound == Sound(Idle)
BY IdleHandler DEF Sound, Saves

LEMMA StartGrounded ==
  ASSUME Grounded, NEW r \in Request, Start(r)
  PROVE  Grounded'
<1>1. ASSUME NEW a \in Admin, Login(r, a)
      PROVE  Grounded'
  <2>1. PICK p \in Purpose :
          Become(r, [at |-> "issue", sub |-> a, login |-> "new", purpose |-> p])
    BY <1>1 DEF Login, Purpose
  <2> DEFINE h == [at |-> "issue", sub |-> a, login |-> "new", purpose |-> p]
  <2>2. h \in Handler
    BY IssueHandler
  <2>3. Sound(h)
    BY DEF Sound, Saves
  <2> QED
    BY <1>1, <2>1, <2>2, <2>3, QuietMove DEF Login
<1>2. ASSUME NEW a \in Admin, NEW op \in {"reset", "updateSelf"}, NEW e,
             Grounds(a, e), Own(r, a, op, e)
      PROVE  Grounded'
  <2> DEFINE h == [at |-> "select", op |-> op, sub |-> a, entity |-> e,
                   login |-> "none", code |-> "none"]
  <2>1. h \in Handler
    BY <1>2, SaveHandler DEF Op, Grounds
  <2>2. Sound(h)
    BY <1>2 DEF Sound, Saves, Steps
  <2> QED
    BY <1>2, <2>1, <2>2, QuietMove DEF Own
<1>3. ASSUME NEW a \in Admin, Reset(r, a)
      PROVE  Grounded'
  <2>1. Grounds(a, [totpSecret |-> "null", totpEnabled |-> FALSE])
    BY DEF Grounds, Entity
  <2> QED
    BY <1>2, <1>3, <2>1 DEF Reset
<1>4. ASSUME NEW a \in Admin, UpdateSelf(r, a)
      PROVE  Grounded'
  BY <1>2, <1>4 DEF UpdateSelf, Grounded, RowsGrounded
<1>5. ASSUME NEW j \in Jti, NEW op \in Steps, VerifyPendingToken(r, j, op)
      PROVE  Grounded'
  <2> DEFINE h == [at |-> "find", op |-> op, jti |-> j]
  <2>1. h \in Handler
    BY FindHandler DEF Op, Steps
  <2>2. Sound(h)
    BY <1>5 DEF VerifyPendingToken, Sound, Saves
  <2> QED
    BY <1>5, <2>1, <2>2, QuietMove DEF VerifyPendingToken
<1> QED
  BY <1>1, <1>3, <1>4, <1>5 DEF Start, Steps

LEMMA FindGrounded ==
  ASSUME Grounded, NEW r \in Request, Find(r)
  PROVE  Grounded'
<1>1. PICK g \in Handler : g = req[r] /\ Sound(g) /\ g.at = "find"
  BY HandlerIs DEF Find, At
<1>2. PICK a : a = token[g.jti].sub /\ a \in DOMAIN admins
  BY <1>1 DEF Find
<1>3. Grounds(a, admins[a]) /\ admins[a] \in Entity
  BY <1>2 DEF Grounded, RowsGrounded, Grounds
<1> DEFINE h == [at |-> "spend", op |-> g.op, jti |-> g.jti, entity |-> admins[a]]
<1>4. h \in Handler
  BY <1>1, <1>3, HandlerType, SpendHandler
<1>5. g.op # "setup" => admins[a].totpSecret # "null"
  BY <1>1, <1>2 DEF Find, Accepts, Sound, Steps
<1>6. Sound(h)
  BY <1>1, <1>2, <1>3, <1>5 DEF Sound, Saves
<1> QED
  BY <1>1, <1>2, <1>4, <1>6, QuietMove DEF Find

LEMMA SelectGrounded ==
  ASSUME Grounded, NEW r \in Request, Select(r)
  PROVE  Grounded'
<1>1. PICK g \in Handler : g = req[r] /\ Sound(g) /\ g.at = "select"
  BY HandlerIs DEF Select, At
<1>2. /\ g.op \in Op /\ g.sub \in Admin /\ g.entity \in Entity
      /\ g.login \in Jti \cup {"none"} /\ g.code \in Secret \cup {"none"}
  BY <1>1, HandlerType
<1>3. CASE g.sub \in DOMAIN admins
  <2> DEFINE cs == Changed(admins, g.sub, g.entity)
             h == [at |-> "update", op |-> g.op, sub |-> g.sub,
                   entity |-> g.entity, login |-> g.login, code |-> g.code,
                   columns |-> cs]
  <2>1. cs \in SUBSET {"totpSecret", "totpEnabled"}
    BY <1>2 DEF Changed, Entity
  <2>2. h \in Handler
    BY <1>2, <2>1, UpdateHandler
  <2>3. Sound(h)
    BY <1>1 DEF Sound, Saves
  <2>4. Become(r, h)
    BY <1>1, <1>3 DEF Select
  <2> QED
    BY <2>2, <2>3, <2>4, QuietMove DEF Select
<1>4. CASE g.sub \notin DOMAIN admins
  <2> DEFINE h == [g EXCEPT !.at = "insert"]
  <2>1. h = [at |-> "insert", op |-> g.op, sub |-> g.sub, entity |-> g.entity,
             login |-> g.login, code |-> g.code]
    BY <1>1 DEF Handler
  <2>2. h \in Handler
    BY <1>2, <2>1, SaveHandler
  <2>3. Sound(h)
    BY <1>1, <2>1 DEF Sound, Saves
  <2>4. Become(r, h)
    BY <1>1, <1>4 DEF Select
  <2> QED
    BY <2>2, <2>3, <2>4, QuietMove DEF Select
<1> QED
  BY <1>3, <1>4

LEMMA AbortGrounded ==
  ASSUME Grounded, NEW r \in Request, Abort(r)
  PROVE  Grounded'
BY IdleHandler, IdleSound, QuietMove DEF Abort

LEMMA IssueGrounded ==
  ASSUME Grounded, NEW r \in Request, NEW j \in Jti, Issue(r, j)
  PROVE  Grounded'
<1>1. PICK g \in Handler : g = req[r] /\ Sound(g) /\ g.at = "issue"
  BY HandlerIs DEF Issue, At
<1>2. PICK l \in Jti : /\ l = IF g.login = "new" THEN j ELSE g.login
                       /\ l = j \/ l \in DOMAIN token
  BY <1>1 DEF Sound, Grounded, TypeOK
<1>3. /\ j \notin DOMAIN token
      /\ store' = Put(store, j, NewChallenge(g.purpose, 0))
      /\ token' = Put(token, j, [sub |-> g.sub, login |-> l])
      /\ Become(r, Idle)
      /\ UNCHANGED <<admins, history>>
  BY <1>1, <1>2 DEF Issue
<1>4. [sub |-> g.sub, login |-> l] \in [sub: Admin, login: Jti]
  BY <1>1, HandlerType
<1>5. /\ DOMAIN token' = DOMAIN token \cup {j}
      /\ token'[j] = [sub |-> g.sub, login |-> l]
      /\ \A k \in DOMAIN token : token'[k] = token[k]
      /\ token' \in [DOMAIN token' -> [sub: Admin, login: Jti]]
  BY <1>3, <1>4 DEF Put, Grounded, TypeOK
<1>6. HistoryGrows /\ opened' = opened
  BY <1>3, <1>5 DEF HistoryGrows, history
<1>7. req' \in [Request -> Handler] /\ HandlersSound'
  <2>1. Sound(Idle)'
    BY <1>6, IdleSound, SoundStays DEF Idle
  <2> QED
    BY <1>3, <1>6, <2>1, IdleHandler, HandlerMoves DEF Grounded
<1>8. StoreOK(store') /\ DOMAIN store' = DOMAIN store \cup {j}
  <2>1. NewChallenge(g.purpose, 0) \in Challenge
    BY <1>1, HandlerType, NewChallengeType
  <2> QED
    BY <1>3, <2>1, PutStore DEF Grounded, TypeOK, StoreOK, Put
<1>9. TypeOK'
  BY <1>3, <1>5, <1>7, <1>8 DEF Grounded, TypeOK, StoreOK, history
<1>10. Descended'
  BY <1>2, <1>3, <1>5, <1>8 DEF Grounded, Descended, history
<1> QED
  BY <1>3, <1>6, <1>7, <1>9, <1>10, RowsStay, OwnCodeStays DEF Grounded

(* The steps that spend a challenge, or let it end: no token is signed.    *)
LEMMA SpendMove ==
  ASSUME Grounded, StoreOK(store'), DOMAIN store' \subseteq DOMAIN store,
         UNCHANGED <<admins, token, opened, renounced>>,
         DOMAIN owner' \subseteq Secret, owner' \in [DOMAIN owner' -> Admin],
         confirmed' \subseteq Admin, HistoryGrows,
         req' \in [Request -> Handler], HandlersSound'
  PROVE  Grounded'
<1>1. TypeOK' /\ Descended'
  BY DEF Grounded, TypeOK, StoreOK, Descended
<1> QED
  BY <1>1, RowsStay, OwnCodeStays DEF Grounded

LEMMA SetupConsumeGrounded ==
  ASSUME Grounded, NEW r \in Request, NEW s \in Secret, SetupConsume(r, s)
  PROVE  Grounded'
<1>1. PICK g \in Handler : g = req[r] /\ Sound(g) /\ g.at = "spend" /\ g.op = "setup"
  BY HandlerIs DEF SetupConsume, At
<1>2. PICK a \in Admin, l \in Jti :
        a = token[g.jti].sub /\ l = token[g.jti].login /\ l \in DOMAIN token
  BY <1>1 DEF Sound, Grounded, TypeOK, Descended
<1>3. PICK e \in Entity : e = WithSecret(g.entity, s)
  BY <1>1, HandlerType DEF WithSecret, Entity
<1>4. PICK h \in Handler :
        h = [at |-> "select", op |-> "setup", sub |-> a, entity |-> e,
             login |-> l, code |-> "none"]
  BY SaveHandler DEF Op
<1>5. /\ store' = Delete(store, g.jti)
      /\ s \notin DOMAIN owner /\ owner' = Put(owner, s, a)
      /\ UNCHANGED <<admins, token, opened, confirmed, renounced>>
      /\ Become(r, h)
  BY <1>1, <1>2, <1>3, <1>4 DEF SetupConsume, Granted
<1>6. /\ DOMAIN owner' = DOMAIN owner \cup {s} /\ owner'[s] = a
      /\ \A k \in DOMAIN owner : owner'[k] = owner[k]
      /\ owner' \in [DOMAIN owner' -> Admin]
      /\ DOMAIN owner' \subseteq Secret
  BY <1>5 DEF Put, Grounded, TypeOK
<1>7. HistoryGrows
  BY <1>5, <1>6 DEF HistoryGrows
<1>8. e.totpSecret = s /\ e.totpEnabled = g.entity.totpEnabled
  BY <1>1, <1>3, HandlerType DEF WithSecret, Entity
<1>9. g.entity.totpEnabled => a \in confirmed
  BY <1>1, <1>2 DEF Sound, Grounds
<1>10. Grounds(a, e)'
  BY <1>5, <1>6, <1>8, <1>9 DEF Grounds, Owns
<1>11. Sound(h)'
  BY <1>2, <1>4, <1>5, <1>10 DEF Sound, Saves
<1>12. req' \in [Request -> Handler] /\ HandlersSound'
  BY <1>5, <1>7, <1>11, HandlerMoves DEF Grounded
<1>13. StoreOK(store') /\ DOMAIN store' \subseteq DOMAIN store
  BY <1>5, DeleteStore DEF Delete, StoreOK, Grounded, TypeOK
<1> QED
  BY <1>5, <1>6, <1>7, <1>12, <1>13, SpendMove DEF Grounded, TypeOK

(* What recordAttempt does, of a code that is right and of one that is not.*)
LEMMA RecordAttemptIs ==
  ASSUME Grounded, NEW r \in Request, NEW code, RecordAttempt(r, code)
  PROVE  /\ req[r].at = "spend" /\ req[r].op \in {"confirm", "validate"}
         /\ StoreOK(store') /\ DOMAIN store' \subseteq DOMAIN store
         /\ UNCHANGED <<admins, token, owner, opened, renounced>>
         /\ \/ Become(r, Idle) /\ confirmed' = confirmed
            \/ /\ code = req[r].entity.totpSecret
               /\ req[r].jti \in DOMAIN store \ DOMAIN store'
               /\ confirmed' = confirmed \cup {token[req[r].jti].sub}
               /\ Become(r, IF req[r].op = "confirm"
                    THEN Granted(req[r], "select",
                           [req[r].entity EXCEPT !.totpEnabled = TRUE], code)
                    ELSE Granted(req[r], "pair", req[r].entity, code))
<1> DEFINE j == req[r].jti
           valid == ValidCode(req[r].entity, code)
           found == Matches(store, j, "2fa-confirm", 0)
<1>1. req[r].at = "spend" /\ req[r].op \in {"confirm", "validate"}
  BY HandlerIs DEF RecordAttempt, At, Sound, Steps
<1>2. StoreOK(store)
  BY DEF Grounded, TypeOK, StoreOK
<1>3. valid \in BOOLEAN
  BY DEF ValidCode
<1>4. found => j \in DOMAIN store
  BY DEF Matches, Present
<1>5. /\ store' = IF found THEN AfterAttempt(store, j, valid, 0) ELSE store
      /\ UNCHANGED <<admins, token, owner, opened, renounced>>
      /\ IF found /\ valid
           THEN /\ confirmed' = confirmed \cup {token[j].sub}
                /\ Become(r, IF req[r].op = "confirm"
                     THEN Granted(req[r], "select",
                            [req[r].entity EXCEPT !.totpEnabled = TRUE], code)
                     ELSE Granted(req[r], "pair", req[r].entity, code))
           ELSE Become(r, Idle) /\ confirmed' = confirmed
  BY DEF RecordAttempt
<1>6. valid <=> code = req[r].entity.totpSecret
  BY DEF ValidCode
<1> HIDE DEF j, valid, found
<1>7. /\ StoreOK(store') /\ DOMAIN store' \subseteq DOMAIN store
      /\ found /\ valid => j \in DOMAIN store \ DOMAIN store'
  BY <1>2, <1>3, <1>4, <1>5, AfterAttemptIs
<1> QED
  BY <1>1, <1>5, <1>6, <1>7 DEF j

LEMMA RecordAttemptGrounded ==
  ASSUME Grounded, NEW r \in Request,
         NEW code \in DOMAIN owner \cup {"wrong"}, RecordAttempt(r, code)
  PROVE  Grounded'
<1>1. PICK g \in Handler :
        /\ g = req[r] /\ Sound(g) /\ g.at = "spend"
        /\ g.op \in {"confirm", "validate"}
  BY HandlerIs, RecordAttemptIs
<1>2. PICK a \in Admin, l \in Jti :
        a = token[g.jti].sub /\ l = token[g.jti].login /\ l \in DOMAIN token
  BY <1>1 DEF Sound, Grounded, TypeOK, Descended
<1>3. HistoryGrows
  BY RecordAttemptIs DEF HistoryGrows
<1>4. CASE Become(r, Idle) /\ confirmed' = confirmed
  <2>1. Sound(Idle)'
    BY <1>3, IdleSound, SoundStays DEF Idle
  <2>2. req' \in [Request -> Handler] /\ HandlersSound'
    BY <1>3, <1>4, <2>1, IdleHandler, HandlerMoves DEF Grounded
  <2> QED
    BY <1>3, <1>4, <2>2, RecordAttemptIs, SpendMove
       DEF Grounded, TypeOK
<1>5. CASE ~(Become(r, Idle) /\ confirmed' = confirmed)
  <2>1. /\ code = g.entity.totpSecret
        /\ confirmed' = confirmed \cup {a}
        /\ Become(r, IF g.op = "confirm"
             THEN Granted(g, "select", [g.entity EXCEPT !.totpEnabled = TRUE], code)
             ELSE Granted(g, "pair", g.entity, code))
    BY <1>1, <1>2, <1>5, RecordAttemptIs
  <2>2. Owns(a, code) /\ g.entity \in Entity
    BY <1>1, <1>2, <2>1 DEF Sound, Grounds
  <2>3. PICK e \in Entity :
          /\ e = IF g.op = "confirm" THEN [g.entity EXCEPT !.totpEnabled = TRUE]
                                     ELSE g.entity
          /\ e.totpSecret = code
    <3>1. /\ [g.entity EXCEPT !.totpEnabled = TRUE] \in Entity
          /\ [g.entity EXCEPT !.totpEnabled = TRUE].totpSecret = g.entity.totpSecret
      BY <2>2 DEF Entity
    <3> QED
      BY <2>1, <2>2, <3>1
  <2>4. PICK label \in {"select", "pair"} :
          label = IF g.op = "confirm" THEN "select" ELSE "pair"
    OBVIOUS
  <2>5. code \in Secret
    BY <2>2 DEF Owns, Grounded, TypeOK
  <2>6. PICK h \in Handler :
          h = [at |-> label, op |-> g.op, sub |-> a, entity |-> e, login |-> l,
               code |-> code]
    BY <1>1, <2>5, SaveHandler DEF Op
  <2>7. Become(r, h)
    BY <1>1, <1>2, <2>1, <2>3, <2>4, <2>6 DEF Granted
  <2>8. Grounds(a, e)' /\ Owns(a, code)'
    BY <2>1, <2>2, <2>3, RecordAttemptIs DEF Grounds, Owns
  <2>9. l \in DOMAIN token'
    BY <1>2, RecordAttemptIs
  <2>10. Sound(h)'
    BY <1>1, <2>4, <2>6, <2>8, <2>9 DEF Sound, Saves
  <2>11. req' \in [Request -> Handler] /\ HandlersSound'
    BY <1>3, <2>7, <2>10, HandlerMoves DEF Grounded
  <2>12. confirmed' \subseteq Admin
    BY <2>1 DEF Grounded, TypeOK
  <2> QED
    BY <1>3, <2>11, <2>12, RecordAttemptIs, SpendMove
       DEF Grounded, TypeOK
<1> QED
  BY <1>4, <1>5

LEMMA IssueTokenPairGrounded ==
  ASSUME Grounded, NEW r \in Request, IssueTokenPair(r)
  PROVE  Grounded'
<1>1. PICK g \in Handler : g = req[r] /\ Sound(g) /\ g.at = "pair"
  BY HandlerIs DEF IssueTokenPair, At
<1>2. /\ g.login \in DOMAIN token /\ g.login \in Jti
      /\ g.sub \in Admin /\ Owns(g.sub, g.code)
  BY <1>1, HandlerType DEF Sound, Saves, Steps, Grounded, TypeOK
<1>3. PICK session \in Session : session = [sub |-> g.sub, code |-> g.code]
  BY <1>2 DEF Session, Owns, Grounded, TypeOK
<1>4. /\ opened' = [opened EXCEPT ![g.login] = Append(@, session)]
      /\ UNCHANGED <<admins, store, token, owner, confirmed, renounced>>
      /\ Become(r, Idle)
  BY <1>1, <1>3 DEF IssueTokenPair
<1>5. HistoryGrows
  BY <1>4 DEF HistoryGrows
<1>6. req' \in [Request -> Handler] /\ HandlersSound'
  <2>1. Sound(Idle)'
    BY <1>5, IdleSound, SoundStays DEF Idle
  <2> QED
    BY <1>4, <1>5, <2>1, IdleHandler, HandlerMoves DEF Grounded
<1>7. /\ opened[g.login] \in Seq(Session)
      /\ opened'[g.login] = Append(opened[g.login], session)
      /\ \A j \in Jti : j # g.login => opened'[j] = opened[j]
      /\ opened' \in [Jti -> Seq(Session)]
  BY <1>2, <1>4 DEF Grounded, TypeOK
<1>8. TypeOK'
  BY <1>4, <1>6, <1>7 DEF Grounded, TypeOK
<1>9. Descended'
  BY <1>2, <1>4, <1>7 DEF Grounded, Descended
<1>10. OwnCode'
  <2>1. ASSUME NEW j \in Jti, NEW i \in DOMAIN opened'[j]
        PROVE  Owns(opened'[j][i].sub, opened'[j][i].code)
    <3>1. CASE j # g.login
      BY <1>7, <2>1, <3>1 DEF Grounded, OwnCode, Owns
    <3>2. CASE j = g.login
      <4>1. \/ i \in DOMAIN opened[j] /\ opened'[j][i] = opened[j][i]
            \/ opened'[j][i] = session
        BY <1>7, <2>1, <3>2
      <4>2. Owns(session.sub, session.code)
        BY <1>2, <1>3
      <4> QED
        BY <4>1, <4>2 DEF Grounded, OwnCode, Owns
    <3> QED
      BY <3>1, <3>2
  <2> QED
    BY <1>4, <2>1 DEF OwnCode, Owns
<1> QED
  BY <1>4, <1>5, <1>6, <1>8, <1>9, <1>10, RowsStay DEF Grounded

(* What a save leaves in the table is the entity, or a row with some of    *)
(* its columns: grounded when both were.                                   *)
LEMMA MixedGrounds ==
  ASSUME NEW a, NEW e, Grounds(a, e), NEW row, Grounds(a, row), NEW cs
  PROVE  Grounds(a, [c \in DOMAIN row |-> IF c \in cs THEN e[c] ELSE row[c]])
<1> DEFINE mixed == [c \in DOMAIN row |-> IF c \in cs THEN e[c] ELSE row[c]]
<1>1. row \in Entity /\ e \in Entity
  BY DEF Grounds
<1>2. DOMAIN row = {"totpSecret", "totpEnabled"}
  BY <1>1 DEF Entity
<1>3. /\ mixed.totpSecret \in {e.totpSecret, row.totpSecret}
      /\ mixed.totpEnabled \in {e.totpEnabled, row.totpEnabled}
      /\ mixed = [totpSecret |-> mixed.totpSecret, totpEnabled |-> mixed.totpEnabled]
  BY <1>2
<1>4. mixed \in Entity
  BY <1>1, <1>3 DEF Entity
<1>5. \A m : m \in Entity /\ m.totpSecret \in {e.totpSecret, row.totpSecret}
             /\ m.totpEnabled \in {e.totpEnabled, row.totpEnabled}
             => Grounds(a, m)
  BY DEF Grounds
<1> HIDE DEF mixed
<1>6. Grounds(a, mixed)
  BY <1>3, <1>4, <1>5
<1> QED
  BY <1>6 DEF mixed

LEMMA WriteGrounds ==
  ASSUME Grounded, NEW r \in Request, Update(r) \/ Insert(r)
  PROVE  /\ DOMAIN admins' \subseteq Admin
         /\ admins' \in [DOMAIN admins' -> Entity]
         /\ \A a \in DOMAIN admins' : Grounds(a, admins'[a])
<1>1. PICK g \in Handler : g = req[r] /\ Sound(g) /\ g.at \in {"update", "insert"}
  BY HandlerIs DEF Update, Insert, At
<1>2. g.sub \in Admin /\ Grounds(g.sub, g.entity)
  BY <1>1, HandlerType DEF Sound, Saves
<1>3. \A a \in DOMAIN admins : Grounds(a, admins[a])
  BY DEF Grounded, RowsGrounded
<1>4. CASE Update(r)
  <2>1. admins' = UpdateColumns(admins, g.sub, g.entity, g.columns)
    BY <1>1, <1>4 DEF Update
  <2>2. /\ DOMAIN admins' = DOMAIN admins
        /\ \A a \in DOMAIN admins : a # g.sub => admins'[a] = admins[a]
        /\ g.sub \in DOMAIN admins => admins'[g.sub] =
             [c \in DOMAIN admins[g.sub] |->
                IF c \in g.columns THEN g.entity[c] ELSE admins[g.sub][c]]
        /\ admins' = [a \in DOMAIN admins |-> admins'[a]]
    BY <2>1 DEF UpdateColumns
  <2>3. \A a \in DOMAIN admins' : Grounds(a, admins'[a])
    BY <1>2, <1>3, <2>2, MixedGrounds
  <2> QED
    BY <2>2, <2>3 DEF Grounds, Grounded, TypeOK
<1>5. CASE Insert(r)
  <2>1. admins' = InsertRow(admins, g.sub, g.entity)
    BY <1>1, <1>5 DEF Insert
  <2>2. /\ DOMAIN admins' = DOMAIN admins \cup {g.sub}
        /\ admins'[g.sub] = g.entity
        /\ \A a \in DOMAIN admins : a # g.sub => admins'[a] = admins[a]
        /\ admins' = [a \in DOMAIN admins \cup {g.sub} |-> admins'[a]]
    BY <2>1 DEF InsertRow
  <2>3. \A a \in DOMAIN admins' : Grounds(a, admins'[a])
    BY <1>2, <1>3, <2>2
  <2> QED
    BY <1>2, <2>2, <2>3 DEF Grounds, Grounded, TypeOK
<1> QED
  BY <1>4, <1>5

(* What follows the save: a pending token again, a session, or an answer.  *)
LEMMA SavedMove ==
  ASSUME Grounded, NEW r \in Request, Update(r) \/ Insert(r)
  PROVE  req' \in [Request -> Handler] /\ HandlersSound'
<1>1. PICK g \in Handler : g = req[r] /\ Sound(g) /\ g.at \in {"update", "insert"}
  BY HandlerIs DEF Update, Insert, At
<1>2. /\ g.op \in Op /\ g.sub \in Admin /\ g.entity \in Entity
      /\ g.login \in Jti \cup {"none"} /\ g.code \in Secret \cup {"none"}
      /\ g.op \in Steps => g.login \in DOMAIN token
      /\ g.op = "confirm" => Owns(g.sub, g.code)
      /\ Grounds(g.sub, g.entity)
  BY <1>1, HandlerType DEF Sound, Saves
<1>3. Saved(r) /\ UNCHANGED <<store, token, owner, opened, confirmed>>
  BY DEF Update, Insert, Saved
<1>4. HistoryGrows
  BY <1>3 DEF HistoryGrows
<1>5. PICK h \in Handler : Become(r, h) /\ Sound(h)
  <2>1. CASE g.op = "setup"
    <3> DEFINE h == [at |-> "issue", sub |-> g.sub, login |-> g.login,
                     purpose |-> "2fa-confirm"]
    <3>1. g.login \in Jti /\ g.login \in DOMAIN token
      BY <1>2, <2>1 DEF Steps, Grounded, TypeOK
    <3>2. h \in Handler
      BY <1>2, <3>1, IssueHandler DEF Purpose
    <3>3. Sound(h)
      BY <3>1 DEF Sound, Saves
    <3>4. Become(r, h)
      BY <1>1, <1>3, <2>1 DEF Saved
    <3> QED
      BY <3>2, <3>3, <3>4
  <2>2. CASE g.op = "confirm"
    <3> DEFINE h == [at |-> "pair", op |-> g.op, sub |-> g.sub,
                     entity |-> g.entity, login |-> g.login, code |-> g.code]
    <3>1. h \in Handler
      BY <1>2, SaveHandler
    <3>2. Sound(h)
      BY <1>2, <2>2 DEF Sound, Saves
    <3>3. Become(r, h)
      BY <1>1, <1>3, <2>2 DEF Saved
    <3> QED
      BY <3>1, <3>2, <3>3
  <2>3. CASE g.op \notin {"setup", "confirm"}
    <3>1. Become(r, Idle)
      BY <1>1, <1>3, <2>3 DEF Saved
    <3> QED
      BY <3>1, IdleHandler, IdleSound
  <2> QED
    BY <2>1, <2>2, <2>3
<1>6. Sound(h)'
  BY <1>4, <1>5, SoundStays
<1> QED
  BY <1>4, <1>5, <1>6, HandlerMoves DEF Grounded

LEMMA SaveGrounded ==
  ASSUME Grounded, NEW r \in Request, Update(r) \/ Insert(r)
  PROVE  Grounded'
<1>1. Saved(r) /\ UNCHANGED <<store, token, owner, opened, confirmed>>
  BY DEF Update, Insert, Saved
<1>2. req[r] \in Handler /\ req[r].at \in {"update", "insert"}
  BY HandlerIs DEF Update, Insert, At
<1>3. renounced' \subseteq Admin
  BY <1>1, <1>2, HandlerType DEF Saved, Grounded, TypeOK
<1>4. HistoryGrows
  BY <1>1 DEF HistoryGrows
<1>5. RowsGrounded'
  BY <1>1, WriteGrounds DEF RowsGrounded, Grounds, Owns
<1>6. TypeOK' /\ Descended'
  BY <1>1, <1>3, WriteGrounds, SavedMove
     DEF Grounded, TypeOK, Descended
<1> QED
  BY <1>1, <1>4, <1>5, <1>6, SavedMove, OwnCodeStays DEF Grounded

LEMMA RemoveGrounded ==
  ASSUME Grounded, NEW a, Remove(a)
  PROVE  Grounded'
<1>1. /\ admins' = [b \in DOMAIN admins \ {a} |-> admins[b]]
      /\ UNCHANGED <<store, token, req, owner, opened, confirmed, renounced>>
  BY DEF Remove, DeleteRow, history
<1>2. HistoryGrows
  BY <1>1 DEF HistoryGrows
<1>3. TypeOK' /\ Descended'
  BY <1>1 DEF Grounded, TypeOK, Descended
<1>4. RowsGrounded' /\ HandlersSound'
  BY <1>1 DEF Grounded, RowsGrounded, HandlersSound, Sound, Saves, Grounds, Owns
<1> QED
  BY <1>1, <1>2, <1>3, <1>4, OwnCodeStays DEF Grounded

LEMMA ExpireGrounded ==
  ASSUME Grounded, NEW j, Expire(j)
  PROVE  Grounded'
<1>1. /\ store' = Delete(store, j)
      /\ UNCHANGED <<admins, token, req, owner, opened, confirmed, renounced>>
  BY DEF Expire, history
<1>2. HistoryGrows
  BY <1>1 DEF HistoryGrows
<1>3. HandlersSound'
  BY <1>1 DEF Grounded, HandlersSound, Sound, Saves, Grounds, Owns
<1>4. StoreOK(store') /\ DOMAIN store' \subseteq DOMAIN store
  BY <1>1, DeleteStore DEF Delete, StoreOK, Grounded, TypeOK
<1> QED
  BY <1>1, <1>2, <1>3, <1>4, SpendMove DEF Grounded, TypeOK

LEMMA NextGrounded == Grounded /\ [Next]_vars => Grounded'
<1> SUFFICES ASSUME Grounded, [Next]_vars
             PROVE  Grounded'
  OBVIOUS
<1>1. ASSUME NEW r \in Request, Resume(r)
      PROVE  Grounded'
  BY <1>1, IssueGrounded, FindGrounded, SetupConsumeGrounded,
     RecordAttemptGrounded, SelectGrounded, SaveGrounded,
     IssueTokenPairGrounded DEF Resume
<1>2. CASE UNCHANGED vars
  BY <1>2 DEF vars, history, Grounded, TypeOK, HandlersSound, Sound,
              Saves, RowsGrounded, Grounds, Owns, Descended, OwnCode
<1> QED
  BY <1>1, <1>2, StartGrounded, AbortGrounded, RemoveGrounded, ExpireGrounded
     DEF Next

LEMMA InitGrounded == Init => Grounded
<1> SUFFICES ASSUME Init
             PROVE  Grounded
  OBVIOUS
<1>1. TypeOK
  BY IdleHandler DEF Init, TypeOK, Entity
<1>2. HandlersSound
  BY IdleSound DEF Init, HandlersSound
<1>3. RowsGrounded
  BY DEF Init, RowsGrounded, Grounds, Entity
<1>4. Descended /\ OwnCode
  BY DEF Init, Descended, OwnCode
<1> QED
  BY <1>1, <1>2, <1>3, <1>4 DEF Grounded

(* Every row, challenge and token keeps its type, and every handler holds  *)
(* at each await what it goes on with.                                     *)
THEOREM TypeCorrect == Spec => []TypeOK
<1>1. Grounded => TypeOK
  BY DEF Grounded
<1> QED
  BY <1>1, InitGrounded, NextGrounded, PTL DEF Spec

(* No session without the second factor, and never another admin's: each   *)
(* was opened with a code of a secret generated for its own admin.         *)
THEOREM OwnCodeHolds == Spec => []OwnCode
<1>1. Grounded => OwnCode
  BY DEF Grounded
<1> QED
  BY <1>1, InitGrounded, NextGrounded, PTL DEF Spec

(* 2FA is never on before a code of the admin has been accepted, whatever  *)
(* entity a save writes late.                                              *)
THEOREM EnabledAfterCodeHolds == Spec => []EnabledAfterCode
<1>1. Grounded => EnabledAfterCode
  BY DEF Grounded, RowsGrounded, Grounds, EnabledAfterCode
<1> QED
  BY <1>1, InitGrounded, NextGrounded, PTL DEF Spec

-----------------------------------------------------------------------------
(***************************************************************************)
(* One session per login.  A password login lives on in one place: a       *)
(* challenge in Redis that awaits its next step, a handler that has spent  *)
(* the challenge and carries the login on, or the session opened.          *)
(***************************************************************************)
Carries(h, l) ==
  \/ h.at = "issue" /\ l # "new" /\ h.login = l
  \/ Saves(h) /\ h.op \in Steps /\ h.login = l

Awaits(j, l) == j \in DOMAIN store /\ token[j].login = l

InOnePlace(l) ==
  /\ \A j, k \in DOMAIN store : Awaits(j, l) /\ Awaits(k, l) => j = k
  /\ \A r, s \in Request : Carries(req[r], l) /\ Carries(req[s], l) => r = s
  /\ \A j \in DOMAIN store, r \in Request : ~(Awaits(j, l) /\ Carries(req[r], l))
  /\ opened[l] # <<>> =>
       /\ Len(opened[l]) = 1
       /\ \A j \in DOMAIN store : ~Awaits(j, l)
       /\ \A r \in Request : ~Carries(req[r], l)

Exclusive == \A l \in Jti : InOnePlace(l)

(* Whoever carries a login has signed a token of it. *)
LEMMA CarriedIsSigned ==
  ASSUME Grounded, NEW r \in Request, NEW l, Carries(req[r], l)
  PROVE  l \in DOMAIN token
BY HandlerIs DEF Carries, Sound

LEMMA MoveIs ==
  ASSUME Grounded, NEW r \in Request, NEW h, Become(r, h)
  PROVE  req'[r] = h /\ \A s \in Request : s # r => req'[s] = req[s]
BY DEF Become, Grounded, TypeOK

(* A handler passes its login along, or drops it; a challenge may end.     *)
LEMMA PassExclusive ==
  ASSUME Grounded, Exclusive, NEW r \in Request, NEW h, Become(r, h),
         \A l \in Jti : Carries(h, l) => Carries(req[r], l),
         DOMAIN store' \subseteq DOMAIN store, UNCHANGED <<token, opened>>
  PROVE  Exclusive'
<1>1. ASSUME NEW l \in Jti, NEW s \in Request, Carries(req'[s], l)
      PROVE  Carries(req[s], l)
  BY <1>1, MoveIs
<1>2. ASSUME NEW l \in Jti
      PROVE  InOnePlace(l)'
  BY <1>1 DEF Exclusive, InOnePlace, Awaits
<1> QED
  BY <1>2 DEF Exclusive

(* A challenge is spent, and its login carried on by the handler.          *)
LEMMA SpendExclusive ==
  ASSUME Grounded, Exclusive, NEW r \in Request, NEW h, Become(r, h),
         NEW j \in DOMAIN store \ DOMAIN store',
         \A l \in Jti : Carries(h, l) => l = token[j].login,
         DOMAIN store' \subseteq DOMAIN store, UNCHANGED <<token, opened>>
  PROVE  Exclusive'
<1>1. ASSUME NEW l \in Jti, NEW s \in Request, Carries(req'[s], l)
      PROVE  (s = r /\ Awaits(j, l)) \/ (s # r /\ Carries(req[s], l))
  BY <1>1, MoveIs DEF Awaits
<1>2. ASSUME NEW l \in Jti, NEW k \in DOMAIN store', token[k].login = l
      PROVE  Awaits(k, l) /\ k # j
  BY <1>2 DEF Awaits
<1>3. ASSUME NEW l \in Jti
      PROVE  InOnePlace(l)'
  <2>1. InOnePlace(l)
    BY DEF Exclusive
  <2>2. \A k, m \in DOMAIN store' :
          token[k].login = l /\ token[m].login = l => k = m
    BY <1>2, <2>1 DEF InOnePlace
  <2>3. \A s, t \in Request : Carries(req'[s], l) /\ Carries(req'[t], l) => s = t
    BY <1>1, <2>1 DEF InOnePlace
  <2>4. \A k \in DOMAIN store', s \in Request :
          ~(token[k].login = l /\ Carries(req'[s], l))
    BY <1>1, <1>2, <2>1 DEF InOnePlace
  <2>5. opened[l] # <<>> =>
          /\ Len(opened[l]) = 1
          /\ \A k \in DOMAIN store' : token[k].login # l
          /\ \A s \in Request : ~Carries(req'[s], l)
    BY <1>1, <1>2, <2>1 DEF InOnePlace
  <2> QED
    BY <2>2, <2>3, <2>4, <2>5 DEF InOnePlace, Awaits
<1> QED
  BY <1>3 DEF Exclusive

LEMMA IdleCarriesNone == \A l : ~Carries(Idle, l)
BY DEF Carries, Saves, Idle

(* A new challenge awaits the login that the handler carried, or one that  *)
(* begins here.                                                            *)
LEMMA IssueExclusive ==
  ASSUME Grounded, Exclusive, NEW r \in Request, NEW j \in Jti, Issue(r, j)
  PROVE  Exclusive'
<1>1. PICK g \in Handler : g = req[r] /\ Sound(g) /\ g.at = "issue"
  BY HandlerIs DEF Issue, At
<1>2. PICK n : n = IF g.login = "new" THEN j ELSE g.login
  OBVIOUS
<1>3. /\ j \notin DOMAIN token
      /\ DOMAIN store' = DOMAIN store \cup {j}
      /\ DOMAIN token' = DOMAIN token \cup {j} /\ token'[j].login = n
      /\ \A k \in DOMAIN token : token'[k] = token[k]
      /\ opened' = opened
      /\ Become(r, Idle)
  BY <1>1, <1>2 DEF Issue, Put, history
<1>4. /\ DOMAIN store \subseteq DOMAIN token
      /\ \A k \in DOMAIN token : token[k].login \in DOMAIN token
      /\ \A k \in Jti : opened[k] # <<>> => k \in DOMAIN token
  BY DEF Grounded, Descended
<1>5. ASSUME NEW l \in Jti, NEW s \in Request, Carries(req'[s], l)
      PROVE  s # r /\ Carries(req[s], l)
  BY <1>3, <1>5, MoveIs, IdleCarriesNone
<1>6. ASSUME NEW l \in Jti, NEW k \in DOMAIN store', token'[k].login = l
      PROVE  Awaits(k, l) \/ (k = j /\ l = n)
  BY <1>3, <1>4, <1>6 DEF Awaits
<1>7. ASSUME n \in Jti
      PROVE  /\ \A k \in DOMAIN store : ~Awaits(k, n)
             /\ \A s \in Request : s # r => ~Carries(req[s], n)
             /\ opened[n] = <<>>
  <2>1. CASE g.login = "new"
    BY <1>2, <1>3, <1>4, <2>1, CarriedIsSigned DEF Awaits
  <2>2. CASE g.login # "new"
    <3>1. Carries(req[r], n)
      BY <1>1, <1>2, <2>2 DEF Carries
    <3> QED
      BY <1>7, <3>1 DEF Exclusive, InOnePlace
  <2> QED
    BY <2>1, <2>2
<1>8. ASSUME NEW l \in Jti
      PROVE  InOnePlace(l)'
  <2>1. InOnePlace(l)
    BY DEF Exclusive
  <2>2. \A k, m \in DOMAIN store' :
          token'[k].login = l /\ token'[m].login = l => k = m
    BY <1>6, <1>7, <2>1 DEF InOnePlace, Awaits
  <2>3. \A s, t \in Request : Carries(req'[s], l) /\ Carries(req'[t], l) => s = t
    BY <1>5, <2>1 DEF InOnePlace
  <2>4. \A k \in DOMAIN store', s \in Request :
          ~(token'[k].login = l /\ Carries(req'[s], l))
    BY <1>5, <1>6, <1>7, <2>1 DEF InOnePlace, Awaits
  <2>5. opened[l] # <<>> =>
          /\ Len(opened[l]) = 1
          /\ \A k \in DOMAIN store' : token'[k].login # l
          /\ \A s \in Request : ~Carries(req'[s], l)
    BY <1>5, <1>6, <1>7, <2>1 DEF InOnePlace, Awaits
  <2> QED
    BY <1>3, <2>2, <2>3, <2>4, <2>5 DEF InOnePlace, Awaits
<1> QED
  BY <1>8 DEF Exclusive

(* The login becomes its one session. *)
LEMMA IssueTokenPairExclusive ==
  ASSUME Grounded, Exclusive, NEW r \in Request, IssueTokenPair(r)
  PROVE  Exclusive'
<1>1. PICK g \in Handler : g = req[r] /\ Sound(g) /\ g.at = "pair"
  BY HandlerIs DEF IssueTokenPair, At
<1>2. Carries(req[r], g.login) /\ g.login \in DOMAIN token /\ g.login \in Jti
  BY <1>1, HandlerType
     DEF Sound, Saves, Steps, Carries, Grounded, TypeOK
<1>3. PICK session : session = [sub |-> g.sub, code |-> g.code]
  OBVIOUS
<1>4. /\ opened' = [opened EXCEPT ![g.login] = Append(@, session)]
      /\ UNCHANGED <<store, token>>
      /\ Become(r, Idle)
  BY <1>1, <1>3 DEF IssueTokenPair
<1>5. opened[g.login] = <<>> /\ \A k \in DOMAIN store : ~Awaits(k, g.login)
  BY <1>2 DEF Exclusive, InOnePlace
<1>6. /\ Len(opened'[g.login]) = 1
      /\ \A l \in Jti : l # g.login => opened'[l] = opened[l]
  <2>1. opened'[g.login] = Append(<<>>, session)
    BY <1>2, <1>4, <1>5 DEF Grounded, TypeOK
  <2>2. Len(Append(<<>>, session)) = 1
    OBVIOUS
  <2> QED
    BY <1>4, <2>1, <2>2 DEF Grounded, TypeOK
<1>7. ASSUME NEW l \in Jti, NEW s \in Request, Carries(req'[s], l)
      PROVE  s # r /\ Carries(req[s], l)
  BY <1>4, <1>7, MoveIs, IdleCarriesNone
<1>8. ASSUME NEW l \in Jti
      PROVE  InOnePlace(l)'
  <2>1. InOnePlace(l)
    BY DEF Exclusive
  <2>2. CASE l = g.login
    <3>1. \A s \in Request : ~Carries(req'[s], l)
      BY <1>2, <1>7, <2>1, <2>2 DEF InOnePlace
    <3> QED
      BY <1>4, <1>5, <1>6, <2>2, <3>1 DEF InOnePlace, Awaits
  <2>3. CASE l # g.login
    BY <1>4, <1>6, <1>7, <2>1, <2>3 DEF InOnePlace, Awaits
  <2> QED
    BY <2>2, <2>3
<1> QED
  BY <1>8 DEF Exclusive

LEMMA StartExclusive ==
  ASSUME Grounded, Exclusive, NEW r \in Request, Start(r)
  PROVE  Exclusive'
<1>1. ASSUME NEW h, Become(r, h), UNCHANGED <<store, token, opened>>,
             \A l \in Jti : ~Carries(h, l)
      PROVE  Exclusive'
  BY <1>1, PassExclusive
<1>2. ASSUME NEW a \in Admin, Login(r, a)
      PROVE  Exclusive'
  <2>1. PICK h : /\ Become(r, h) /\ h.at = "issue" /\ h.login = "new"
                 /\ UNCHANGED <<store, token, opened>>
    BY <1>2 DEF Login, history
  <2>2. \A l \in Jti : ~Carries(h, l)
    BY <2>1 DEF Carries, Saves
  <2> QED
    BY <1>1, <2>1, <2>2
<1>3. ASSUME NEW a \in Admin, Reset(r, a) \/ UpdateSelf(r, a)
      PROVE  Exclusive'
  <2>1. PICK h : /\ Become(r, h) /\ h.at = "select"
                 /\ h.op \in {"reset", "updateSelf"}
                 /\ UNCHANGED <<store, token, opened>>
    BY <1>3 DEF Reset, UpdateSelf, Own, history
  <2>2. \A l \in Jti : ~Carries(h, l)
    BY <2>1 DEF Carries, Saves, Steps
  <2> QED
    BY <1>1, <2>1, <2>2
<1>4. ASSUME NEW j \in Jti, NEW op, VerifyPendingToken(r, j, op)
      PROVE  Exclusive'
  <2>1. PICK h : /\ Become(r, h) /\ h.at = "find"
                 /\ UNCHANGED <<store, token, opened>>
    BY <1>4 DEF VerifyPendingToken, history
  <2>2. \A l \in Jti : ~Carries(h, l)
    BY <2>1 DEF Carries, Saves
  <2> QED
    BY <1>1, <2>1, <2>2
<1> QED
  BY <1>2, <1>3, <1>4 DEF Start

LEMMA SetupConsumeExclusive ==
  ASSUME Grounded, Exclusive, NEW r \in Request, NEW s \in Secret,
         SetupConsume(r, s)
  PROVE  Exclusive'
<1>1. PICK j : j = req[r].jti
  OBVIOUS
<1>2. PICK h : h = Granted(req[r], "select", WithSecret(req[r].entity, s), "none")
  OBVIOUS
<1>3. /\ j \in DOMAIN store /\ DOMAIN store' = DOMAIN store \ {j}
      /\ UNCHANGED <<token, opened>>
      /\ Become(r, h)
  BY <1>1, <1>2 DEF SetupConsume, Matches, Present, Delete
<1>4. h.at = "select" /\ h.login = token[j].login
  BY <1>1, <1>2 DEF Granted
<1>5. \A l \in Jti : Carries(h, l) => l = token[j].login
  BY <1>4 DEF Carries
<1> QED
  BY <1>3, <1>5, SpendExclusive

LEMMA RecordAttemptExclusive ==
  ASSUME Grounded, Exclusive, NEW r \in Request, NEW code,
         RecordAttempt(r, code)
  PROVE  Exclusive'
<1>1. DOMAIN store' \subseteq DOMAIN store /\ UNCHANGED <<token, opened>>
  BY RecordAttemptIs
<1>2. CASE Become(r, Idle)
  BY <1>1, <1>2, IdleCarriesNone, PassExclusive
<1>3. CASE ~Become(r, Idle)
  <2>1. PICK j : j = req[r].jti /\ j \in DOMAIN store \ DOMAIN store'
    BY <1>3, RecordAttemptIs
  <2>2. PICK h : /\ Become(r, h)
                 /\ h.at \in {"select", "pair"} /\ h.login = token[j].login
    <3>1. PICK label \in {"select", "pair"} : \E e :
            Become(r, Granted(req[r], label, e, code))
      BY <1>3, RecordAttemptIs
    <3> QED
      BY <2>1, <3>1 DEF Granted
  <2>3. \A l \in Jti : Carries(h, l) => l = token[j].login
    BY <2>2 DEF Carries
  <2> QED
    BY <1>1, <2>1, <2>2, <2>3, SpendExclusive
<1> QED
  BY <1>2, <1>3

(* Along a save the login stays with the handler. *)
LEMMA SaveExclusive ==
  ASSUME Grounded, Exclusive, NEW r \in Request,
         Select(r) \/ Update(r) \/ Insert(r)
  PROVE  Exclusive'
<1>1. PICK g \in Handler : g = req[r] /\ g.at \in {"select", "update", "insert"}
  BY HandlerIs DEF Select, Update, Insert, At
<1>2. UNCHANGED <<store, token, opened>>
  BY DEF Select, Update, Insert, Saved, history
<1>3. PICK h : /\ Become(r, h)
               /\ \/ h = Idle
                  \/ /\ h.at = "issue" /\ h.login = g.login
                     /\ g.op = "setup"
                  \/ Saves(h) /\ h.op = g.op /\ h.login = g.login
  <2>1. CASE Select(r)
    <3>1. PICK h : /\ h = IF g.sub \in DOMAIN admins
                         THEN [at |-> "update", op |-> g.op, sub |-> g.sub,
                               entity |-> g.entity, login |-> g.login,
                               code |-> g.code,
                               columns |-> Changed(admins, g.sub, g.entity)]
                         ELSE [g EXCEPT !.at = "insert"]
                   /\ Become(r, h)
      BY <1>1, <2>1 DEF Select
    <3>2. DOMAIN g = {"at", "op", "sub", "entity", "login", "code"}
      BY <1>1, <2>1 DEF Select, At, Handler
    <3>3. h.at \in {"update", "insert"} /\ h.op = g.op /\ h.login = g.login
      BY <3>1, <3>2
    <3> QED
      BY <3>1, <3>3 DEF Saves
  <2>2. CASE Saved(r)
    BY <1>1, <2>2 DEF Saved, Saves
  <2> QED
    BY <2>1, <2>2 DEF Update, Insert
<1>4. \A l \in Jti : Carries(h, l) => Carries(req[r], l)
  BY <1>1, <1>3, IdleCarriesNone DEF Carries, Saves, Steps, Idle
<1> QED
  BY <1>2, <1>3, <1>4, PassExclusive

LEMMA NextExclusive == Grounded /\ Exclusive /\ [Next]_vars => Exclusive'
<1> SUFFICES ASSUME Grounded, Exclusive, [Next]_vars
             PROVE  Exclusive'
  OBVIOUS
<1>1. ASSUME NEW r \in Request, Find(r)
      PROVE  Exclusive'
  <2>1. PICK h : /\ Become(r, h) /\ h.at = "spend"
                 /\ UNCHANGED <<store, token, opened>>
    BY <1>1 DEF Find, history
  <2>2. \A l \in Jti : ~Carries(h, l)
    BY <2>1 DEF Carries, Saves
  <2> QED
    BY <2>1, <2>2, PassExclusive
<1>2. ASSUME NEW r \in Request, Resume(r)
      PROVE  Exclusive'
  BY <1>1, <1>2, IssueExclusive, SetupConsumeExclusive, RecordAttemptExclusive,
     SaveExclusive, IssueTokenPairExclusive DEF Resume
<1>3. ASSUME NEW r \in Request, Abort(r)
      PROVE  Exclusive'
  BY <1>3, IdleCarriesNone, PassExclusive DEF Abort, history
<1>4. CASE /\ DOMAIN store' \subseteq DOMAIN store
           /\ UNCHANGED <<token, opened, req>>
  BY <1>4 DEF Exclusive, InOnePlace, Awaits
<1>5. ASSUME NEW j \in Jti, Expire(j)
      PROVE  Exclusive'
  BY <1>4, <1>5 DEF Expire, Delete, history
<1>6. ASSUME NEW a \in Admin, Remove(a)
      PROVE  Exclusive'
  BY <1>4, <1>6 DEF Remove, history
<1> QED
  BY <1>2, <1>3, <1>4, <1>5, <1>6, StartExclusive DEF Next, vars, history

LEMMA InitExclusive == Init => Exclusive
BY IdleCarriesNone DEF Init, Exclusive, InOnePlace, Awaits

(* One password login opens one session at most, through setup and         *)
(* confirmation or through validation, however its tokens are presented    *)
(* again, at once, or at the other endpoint.                               *)
THEOREM OneSessionPerLoginHolds == Spec => []OneSessionPerLogin
<1>1. Grounded /\ Exclusive => OneSessionPerLogin
  <2> SUFFICES ASSUME Grounded, Exclusive, NEW l \in Jti
               PROVE  Len(opened[l]) <= 1
    BY DEF OneSessionPerLogin
  <2>1. CASE opened[l] = <<>>
    BY <2>1
  <2>2. CASE opened[l] # <<>>
    <3>1. Len(opened[l]) = 1
      BY <2>2 DEF Exclusive, InOnePlace
    <3> QED
      BY <3>1
  <2> QED
    BY <2>1, <2>2
<1>2. Init => Grounded /\ Exclusive
  BY InitGrounded, InitExclusive
<1>3. Grounded /\ Exclusive /\ [Next]_vars => (Grounded /\ Exclusive)'
  BY NextGrounded, NextExclusive
<1> QED
  BY <1>1, <1>2, <1>3, PTL DEF Spec

-----------------------------------------------------------------------------
(***************************************************************************)
(* The life of a challenge.  Its token is signed when it is stored, a      *)
(* wrong code that is not the last is counted, and every other step ends   *)
(* challenges or leaves them as they are.                                  *)
(***************************************************************************)
LEMMA LifeIs ==
  /\ phaseOf = [j \in Jti |-> phaseOf[j]] /\ missesOf = [j \in Jti |-> missesOf[j]]
  /\ \A j \in Jti :
       /\ phaseOf[j] = IF j \notin DOMAIN token THEN "none"
                       ELSE IF j \in DOMAIN store THEN "open" ELSE "over"
       /\ missesOf[j] = IF j \in DOMAIN store THEN store[j].attempts ELSE 0
BY DEF phaseOf, missesOf

LEMMA LifeBecomes ==
  /\ phaseOf' = [j \in Jti |-> phaseOf'[j]]
  /\ missesOf' = [j \in Jti |-> missesOf'[j]]
  /\ \A j \in Jti :
       /\ phaseOf'[j] = IF j \notin DOMAIN token' THEN "none"
                        ELSE IF j \in DOMAIN store' THEN "open" ELSE "over"
       /\ missesOf'[j] = IF j \in DOMAIN store' THEN store'[j].attempts ELSE 0
BY DEF phaseOf, missesOf

LEMMA Endings ==
  ASSUME Descended, DOMAIN token' = DOMAIN token,
         \A j \in DOMAIN store' :
           j \in DOMAIN store /\ store'[j].attempts = store[j].attempts
  PROVE  Lifecycle!Next
<1> DEFINE S == {j \in Jti : j \in DOMAIN store /\ j \notin DOMAIN store'}
<1>1. \A j \in S : phaseOf[j] = "open"
  BY LifeIs DEF Descended
<1>2. \A j \in Jti : phaseOf'[j] = IF j \in S THEN "over" ELSE phaseOf[j]
  BY LifeIs, LifeBecomes DEF Descended
<1>3. \A j \in Jti : missesOf'[j] = IF j \in S THEN 0 ELSE missesOf[j]
  BY LifeIs, LifeBecomes
<1>4. /\ phaseOf' = [j \in Jti |-> IF j \in S THEN "over" ELSE phaseOf[j]]
      /\ missesOf' = [j \in Jti |-> IF j \in S THEN 0 ELSE missesOf[j]]
  <2> HIDE DEF S
  <2> QED
    BY <1>2, <1>3, LifeBecomes
<1>5. Lifecycle!End(S)
  BY <1>1, <1>4 DEF Lifecycle!End
<1> QED
  BY <1>5 DEF Lifecycle!Next

LEMMA IssueLives ==
  ASSUME Grounded, NEW r \in Request, NEW j \in Jti, Issue(r, j)
  PROVE  Lifecycle!Next
<1>1. /\ j \notin DOMAIN token /\ DOMAIN token' = DOMAIN token \cup {j}
      /\ j \notin DOMAIN store /\ DOMAIN store' = DOMAIN store \cup {j}
      /\ \A k \in DOMAIN store : store'[k] = store[k]
      /\ store'[j].attempts = 0
  BY DEF Issue, Put, NewChallenge, Grounded, Descended
<1>2. /\ phaseOf[j] = "none" /\ phaseOf'[j] = "open"
      /\ \A k \in Jti : k # j => phaseOf'[k] = phaseOf[k]
      /\ \A k \in Jti : missesOf'[k] = missesOf[k]
  BY <1>1, LifeIs, LifeBecomes
<1>3. phaseOf' = [phaseOf EXCEPT ![j] = "open"] /\ missesOf' = missesOf
  BY <1>2, LifeIs, LifeBecomes
<1>4. Lifecycle!Issue(j)
  BY <1>2, <1>3 DEF Lifecycle!Issue
<1> QED
  BY <1>4 DEF Lifecycle!Next

LEMMA AttemptLives ==
  ASSUME Grounded, NEW r \in Request, NEW code, RecordAttempt(r, code)
  PROVE  Lifecycle!Next
<1> DEFINE j == req[r].jti
           valid == ValidCode(req[r].entity, code)
<1>1. /\ \/ store' = store
         \/ j \in DOMAIN store /\ store' = AfterAttempt(store, j, valid, 0)
      /\ token' = token
  BY DEF RecordAttempt, Matches, Present
<1> HIDE DEF j, valid
<1>2. CASE store' = store \/ store' = Delete(store, j)
  BY <1>1, <1>2, Endings DEF Grounded, Delete
<1>3. CASE ~(store' = store \/ store' = Delete(store, j))
  <2>1. /\ j \in DOMAIN store /\ ~Exhausts(store[j])
        /\ store' = Put(store, j, Retried(store[j], 0))
    BY <1>1, <1>3 DEF AfterAttempt
  <2>2. j \in Jti /\ j \in DOMAIN token /\ store[j] \in Challenge
    BY <2>1 DEF Grounded, TypeOK, Descended
  <2>3. /\ store[j].attempts + 1 < MaxAttempts
        /\ Retried(store[j], 0).attempts = store[j].attempts + 1
    BY <2>1, <2>2, MaxAttemptsAssumption DEF Exhausts, Retried, Challenge
  <2>4. /\ DOMAIN store' = DOMAIN store
        /\ store'[j].attempts = store[j].attempts + 1
        /\ \A k \in DOMAIN store : k # j => store'[k] = store[k]
    BY <2>1, <2>3 DEF Put
  <2>5. /\ phaseOf[j] = "open" /\ phaseOf' = phaseOf
        /\ missesOf[j] + 1 < MaxAttempts
        /\ missesOf'[j] = missesOf[j] + 1
        /\ \A k \in Jti : k # j => missesOf'[k] = missesOf[k]
    BY <1>1, <2>1, <2>2, <2>3, <2>4, LifeIs, LifeBecomes
  <2>6. missesOf' = [missesOf EXCEPT ![j] = @ + 1]
    BY <2>2, <2>5, LifeIs, LifeBecomes
  <2>7. Lifecycle!Miss(j)
    BY <2>5, <2>6 DEF Lifecycle!Miss
  <2> QED
    BY <2>2, <2>7 DEF Lifecycle!Next
<1> QED
  BY <1>2, <1>3

LEMMA NextLives == Grounded /\ [Next]_vars => [Lifecycle!Next]_(Lifecycle!vars)
<1> SUFFICES ASSUME Grounded, Next
             PROVE  Lifecycle!Next
  BY DEF vars, Lifecycle!vars, phaseOf, missesOf
<1>1. ASSUME UNCHANGED <<store, token>>
      PROVE  Lifecycle!Next
  BY <1>1, Endings DEF Grounded
<1>2. ASSUME NEW r \in Request, Start(r) \/ Abort(r)
      PROVE  Lifecycle!Next
  BY <1>1, <1>2 DEF Start, Login, Reset, UpdateSelf, Own, VerifyPendingToken, Abort
<1>3. ASSUME NEW r \in Request,
             Find(r) \/ Select(r) \/ Update(r) \/ Insert(r) \/ IssueTokenPair(r)
      PROVE  Lifecycle!Next
  BY <1>1, <1>3 DEF Find, Select, Update, Insert, Saved, IssueTokenPair
<1>4. ASSUME NEW r \in Request, NEW s \in Secret, SetupConsume(r, s)
      PROVE  Lifecycle!Next
  BY <1>4, Endings DEF SetupConsume, Delete, Grounded
<1>5. ASSUME NEW a \in Admin, Remove(a)
      PROVE  Lifecycle!Next
  BY <1>1, <1>5 DEF Remove
<1>6. ASSUME NEW j \in Jti, Expire(j)
      PROVE  Lifecycle!Next
  BY <1>6, Endings DEF Expire, Delete, Grounded
<1> QED
  BY <1>2, <1>3, <1>4, <1>5, <1>6, IssueLives, AttemptLives DEF Next, Resume

(* The challenges of the handlers here, which end at any instant, live the *)
(* life that those of PendingChallenges live by its clock: what is proved  *)
(* here of a login does not rest on a life that no challenge has.          *)
THEOREM ChallengesLiveOnceHolds == Spec => ChallengesLiveOnce
<1>1. Init => Lifecycle!Init
  BY DEF Init, Lifecycle!Init, phaseOf, missesOf
<1> QED
  BY <1>1, InitGrounded, NextGrounded, NextLives, PTL
     DEF Spec, ChallengesLiveOnce, Lifecycle!Spec

-----------------------------------------------------------------------------
(***************************************************************************)
(* Two of the claims that the code does not keep hold when a handler that  *)
(* must be the last to write has the admin's entity to itself, which is    *)
(* what a lock of the row, taken where the row is read, would see to.      *)
(***************************************************************************)

(* A handler that has read the row of a, and may still save it. *)
Has(r, a) ==
  \/ At(r, "spend") /\ token[req[r].jti].sub = a
  \/ req[r].at \in {"select", "update", "insert"} /\ req[r].sub = a

(* While a handler of op has the entity of an admin, none of another has. *)
Alone(op) ==
  \A a \in Admin : \A r, s \in Request :
    Has(r, a) /\ Has(s, a) /\ req[r].op = op => req[s].op = op

Blank == [totpSecret |-> "null", totpEnabled |-> FALSE]

(* The handler r writes the row of a. *)
Writes(r, a) == (Update(r) \/ Insert(r)) /\ req[r].sub = a

LEMMA BlankIs ==
  /\ Blank \in Entity
  /\ Blank["totpSecret"] = "null" /\ Blank["totpEnabled"] = FALSE
  /\ \A row \in Entity :
       row["totpSecret"] = "null" /\ row["totpEnabled"] = FALSE => row = Blank
BY DEF Blank, Entity

LEMMA NextGrows ==
  ASSUME Grounded, [Next]_vars
  PROVE  HistoryGrows
<1>1. ASSUME NEW r \in Request, Resume(r)
      PROVE  HistoryGrows
  <2>1. ASSUME NEW j \in Jti, Issue(r, j)
        PROVE  HistoryGrows
    BY <2>1 DEF Issue, Put, history, HistoryGrows
  <2>2. ASSUME NEW s \in Secret, SetupConsume(r, s)
        PROVE  HistoryGrows
    BY <2>2 DEF SetupConsume, Put, HistoryGrows
  <2>3. ASSUME NEW code, RecordAttempt(r, code)
        PROVE  HistoryGrows
    BY <2>3, RecordAttemptIs DEF HistoryGrows
  <2>4. CASE Find(r) \/ Select(r)
    BY <2>4 DEF Find, Select, history, HistoryGrows
  <2>5. CASE Update(r) \/ Insert(r) \/ IssueTokenPair(r)
    BY <2>5 DEF Update, Insert, Saved, IssueTokenPair, HistoryGrows
  <2> QED
    BY <1>1, <2>1, <2>2, <2>3, <2>4, <2>5 DEF Resume
<1>2. ASSUME NEW r \in Request, Start(r)
      PROVE  HistoryGrows
  BY <1>2 DEF Start, Login, Reset, UpdateSelf, Own, VerifyPendingToken, history,
              HistoryGrows
<1>3. ASSUME UNCHANGED <<token, history>>
      PROVE  HistoryGrows
  BY <1>3 DEF history, HistoryGrows
<1> QED
  BY <1>1, <1>2, <1>3 DEF Next, Abort, Remove, Expire, vars

(* A handler that does not move has what it had. *)
LEMMA HasStays ==
  ASSUME Grounded, HistoryGrows, NEW r \in Request, req'[r] = req[r], NEW a
  PROVE  Has(r, a)' <=> Has(r, a)
<1>1. At(r, "spend") => req[r].jti \in DOMAIN token
  BY HandlerIs DEF At, Sound
<1> QED
  BY <1>1 DEF Has, At, HistoryGrows

(* How a handler comes by an entity: it had it, or reads it now. *)
Kept(r) ==
  /\ req'[r].op = req[r].op
  /\ \/ req'[r].entity = req[r].entity
     \/ /\ req[r].op = "setup"
        /\ req'[r].entity.totpEnabled = req[r].entity.totpEnabled
     \/ At(r, "spend") /\ req[r].op = "confirm"

Read(r, a) ==
  /\ a \in DOMAIN admins /\ admins' = admins
  /\ \/ req'[r].op = "reset" /\ req'[r].entity = Blank
     \/ req'[r].op = "updateSelf" /\ req'[r].entity = admins[a]
     \/ /\ req'[r].op \in Steps /\ Accepts(req'[r].op, admins[a])
        /\ req'[r].entity = admins[a]

LEMMA StartHas ==
  ASSUME Grounded, NEW r \in Request, Start(r), NEW a, Has(r, a)'
  PROVE  Read(r, a)
<1>1. ASSUME NEW h, Become(r, h)
      PROVE  req'[r] = h
  BY <1>1 DEF Grounded, TypeOK, Become
<1>2. ASSUME NEW b \in Admin, Login(r, b)
      PROVE  FALSE
  BY <1>1, <1>2 DEF Login, Has, At
<1>3. ASSUME NEW j \in Jti, NEW op, VerifyPendingToken(r, j, op)
      PROVE  FALSE
  BY <1>1, <1>3 DEF VerifyPendingToken, Has, At
<1>4. ASSUME NEW b \in Admin, NEW op, NEW e, Own(r, b, op, e)
      PROVE  a = b /\ req'[r].op = op /\ req'[r].entity = e /\ admins' = admins
  BY <1>1, <1>4 DEF Own, Has, At
<1> QED
  BY <1>2, <1>3, <1>4 DEF Start, Reset, UpdateSelf, Read, Blank

LEMMA ResumeHas ==
  ASSUME Grounded, NEW r \in Request, Resume(r), NEW a, Has(r, a)'
  PROVE  (Has(r, a) /\ Kept(r)) \/ Read(r, a)
<1>1. ASSUME NEW h, Become(r, h)
      PROVE  req'[r] = h
  BY <1>1 DEF Grounded, TypeOK, Become
<1>2. ~Become(r, Idle)
  BY <1>1, IdleHandler DEF Has, At
<1>3. CASE Find(r)
  <2>1. req[r].op \in Steps /\ req[r].jti \in DOMAIN token /\ token' = token
    BY <1>3, HandlerIs DEF Find, At, Sound
  <2>2. /\ req'[r] = [at |-> "spend", op |-> req[r].op, jti |-> req[r].jti,
                      entity |-> admins[token[req[r].jti].sub]]
        /\ token[req[r].jti].sub \in DOMAIN admins /\ admins' = admins
        /\ Accepts(req[r].op, admins[token[req[r].jti].sub])
    BY <1>1, <1>3 DEF Find
  <2>3. a = token[req[r].jti].sub
    BY <2>1, <2>2 DEF Has, At
  <2> QED
    BY <2>1, <2>2, <2>3 DEF Read
<1>4. ASSUME NEW s \in Secret, SetupConsume(r, s)
      PROVE  Has(r, a) /\ Kept(r)
  <2>1. PICK e : e = WithSecret(req[r].entity, s)
    OBVIOUS
  <2>2. e.totpEnabled = req[r].entity.totpEnabled
    BY <1>4, <2>1, HandlerIs, HandlerType DEF SetupConsume, At, WithSecret, Entity
  <2>3. /\ At(r, "spend") /\ req[r].op = "setup"
        /\ req'[r] = Granted(req[r], "select", e, "none")
    BY <1>1, <1>4, <2>1 DEF SetupConsume
  <2> QED
    BY <2>2, <2>3 DEF Granted, Has, At, Kept
<1>5. ASSUME NEW code, RecordAttempt(r, code)
      PROVE  Has(r, a) /\ Kept(r)
  <2>1. /\ At(r, "spend") /\ req[r].op \in {"confirm", "validate"}
        /\ req'[r] = IF req[r].op = "confirm"
             THEN Granted(req[r], "select",
                    [req[r].entity EXCEPT !.totpEnabled = TRUE], code)
             ELSE Granted(req[r], "pair", req[r].entity, code)
    BY <1>1, <1>2, <1>5, RecordAttemptIs DEF At
  <2>2. req[r].op = "confirm"
    BY <2>1 DEF Granted, Has, At
  <2> QED
    BY <2>1, <2>2 DEF Granted, Has, At, Kept
<1>6. CASE Select(r)
  <2>1. /\ req[r].at = "select" /\ req[r] \in Handler
        /\ req'[r] = IF req[r].sub \in DOMAIN admins
             THEN [at |-> "update", op |-> req[r].op, sub |-> req[r].sub,
                   entity |-> req[r].entity, login |-> req[r].login,
                   code |-> req[r].code,
                   columns |-> Changed(admins, req[r].sub, req[r].entity)]
             ELSE [req[r] EXCEPT !.at = "insert"]
    BY <1>1, <1>6, HandlerIs DEF Select, At
  <2>2. /\ req'[r].op = req[r].op /\ req'[r].sub = req[r].sub
        /\ req'[r].entity = req[r].entity
        /\ req'[r].at \in {"update", "insert"}
    <3>1. [req[r] EXCEPT !.at = "insert"]
            = [at |-> "insert", op |-> req[r].op, sub |-> req[r].sub,
               entity |-> req[r].entity, login |-> req[r].login,
               code |-> req[r].code]
      BY <2>1 DEF Handler
    <3> QED
      BY <2>1, <3>1
  <2> QED
    BY <2>1, <2>2 DEF Has, At, Kept
<1>7. CASE Update(r) \/ Insert(r)
  BY <1>1, <1>2, <1>7 DEF Update, Insert, Saved, Has, At
<1> QED
  BY <1>2, <1>3, <1>4, <1>5, <1>6, <1>7 DEF Resume, Issue, IssueTokenPair

(* A step moves one request at most, and the table only by a write. *)
LEMMA MoverOf ==
  ASSUME Grounded, [Next]_vars
  PROVE  \/ req' = req
         \/ \E r \in Request : /\ Start(r) \/ Resume(r) \/ Abort(r)
                               /\ \A q \in Request \ {r} : req'[q] = req[q]
<1>1. ASSUME NEW r \in Request, NEW h, Become(r, h)
      PROVE  \A q \in Request \ {r} : req'[q] = req[q]
  BY <1>1 DEF Become, Grounded, TypeOK
<1>2. ASSUME NEW r \in Request, Start(r) \/ Abort(r)
      PROVE  \A q \in Request \ {r} : req'[q] = req[q]
  BY <1>1, <1>2 DEF Start, Login, Reset, UpdateSelf, Own, VerifyPendingToken, Abort
<1>3. ASSUME NEW r \in Request, Resume(r)
      PROVE  \A q \in Request \ {r} : req'[q] = req[q]
  <2>1. ASSUME NEW code, RecordAttempt(r, code)
        PROVE  \E h : Become(r, h)
    BY <2>1, RecordAttemptIs
  <2> QED
    BY <1>1, <1>3, <2>1 DEF Resume, Issue, Find, SetupConsume, Select, Update,
                            Insert, Saved, IssueTokenPair
<1> QED
  BY <1>2, <1>3 DEF Next, Remove, Expire, vars

LEMMA HasFrom ==
  ASSUME Grounded, [Next]_vars, NEW r \in Request, NEW a, Has(r, a)'
  PROVE  (Has(r, a) /\ Kept(r)) \/ Read(r, a)
<1>1. CASE req'[r] = req[r]
  BY <1>1, NextGrows, HasStays DEF Kept
<1>2. CASE Start(r) \/ Resume(r)
  BY <1>2, StartHas, ResumeHas
<1>3. ~Abort(r)
  BY IdleHandler DEF Abort, Become, Has, At, Grounded, TypeOK
<1> QED
  BY <1>1, <1>2, <1>3, MoverOf

(* What a write leaves in the row. *)
LEMMA WriteIs ==
  ASSUME Grounded, NEW r \in Request, NEW a, Writes(r, a)
  PROVE  /\ Has(r, a) /\ req[r].at \in {"update", "insert"}
         /\ a \in Admin /\ req[r].entity \in Entity
         /\ \/ At(r, "insert") /\ admins'[a] = req[r].entity
            \/ /\ At(r, "update")
               /\ a \in DOMAIN admins' => a \in DOMAIN admins /\ admins[a] \in Entity
               /\ a \in DOMAIN admins =>
                    \A c \in {"totpSecret", "totpEnabled"} : admins'[a][c] =
                      IF c \in req[r].columns THEN req[r].entity[c] ELSE admins[a][c]
         /\ a \in DOMAIN admins' => admins'[a] \in Entity
         /\ renounced' = CASE req[r].op = "setup" -> renounced \ {a}
                           [] req[r].op = "reset" -> renounced \cup {a}
                           [] OTHER -> renounced
<1>1. /\ req[r] \in Handler /\ req[r].sub = a
      /\ \/ Update(r) /\ req[r].at = "update"
         \/ Insert(r) /\ req[r].at = "insert"
  BY HandlerIs DEF Writes, Update, Insert, At
<1>2. a \in Admin /\ req[r].entity \in Entity /\ Has(r, a)
  BY <1>1, HandlerType DEF Has
<1>3. Saved(r)
  BY <1>1 DEF Update, Insert
<1>4. a \in DOMAIN admins' => admins'[a] \in Entity
  BY <1>1, WriteGrounds
<1>5. ASSUME Insert(r), req[r].at = "insert"
      PROVE  At(r, "insert") /\ admins'[a] = req[r].entity
  BY <1>1, <1>5 DEF Insert, InsertRow, At
<1>6. ASSUME Update(r), req[r].at = "update"
      PROVE  /\ At(r, "update")
             /\ a \in DOMAIN admins' => a \in DOMAIN admins /\ admins[a] \in Entity
             /\ a \in DOMAIN admins =>
                  \A c \in {"totpSecret", "totpEnabled"} : admins'[a][c] =
                    IF c \in req[r].columns THEN req[r].entity[c] ELSE admins[a][c]
  <2>1. admins' = UpdateColumns(admins, a, req[r].entity, req[r].columns)
    BY <1>1, <1>6 DEF Update
  <2>2. a \in DOMAIN admins =>
          /\ DOMAIN admins[a] = {"totpSecret", "totpEnabled"}
          /\ admins[a] \in Entity
    BY DEF Grounded, TypeOK, Entity
  <2> QED
    BY <1>6, <2>1, <2>2 DEF UpdateColumns, At
<1> QED
  BY <1>1, <1>2, <1>3, <1>4, <1>5, <1>6 DEF Saved, At

LEMMA NoWrite ==
  ASSUME Grounded, [Next]_vars, NEW a, ~\E r \in Request : Writes(r, a)
  PROVE  /\ a \in DOMAIN admins' => a \in DOMAIN admins /\ admins'[a] = admins[a]
         /\ a \in renounced' => a \in renounced
<1>1. ASSUME NEW r \in Request, Update(r) \/ Insert(r)
      PROVE  /\ a \in DOMAIN admins' => a \in DOMAIN admins /\ admins'[a] = admins[a]
             /\ a \in renounced' => a \in renounced
  <2>1. req[r].sub # a
    BY <1>1 DEF Writes
  <2>2. \/ admins' = UpdateColumns(admins, req[r].sub, req[r].entity, req[r].columns)
        \/ admins' = InsertRow(admins, req[r].sub, req[r].entity)
    BY <1>1 DEF Update, Insert
  <2>3. renounced' \in {renounced, renounced \ {req[r].sub},
                        renounced \cup {req[r].sub}}
    BY <1>1 DEF Update, Insert, Saved
  <2> QED
    BY <2>1, <2>2, <2>3 DEF UpdateColumns, InsertRow
<1>2. ASSUME NEW b, Remove(b)
      PROVE  /\ a \in DOMAIN admins' => a \in DOMAIN admins /\ admins'[a] = admins[a]
             /\ a \in renounced' => a \in renounced
  BY <1>2 DEF Remove, DeleteRow, history
<1>3. ASSUME NEW r \in Request, Resume(r), ~Update(r), ~Insert(r)
      PROVE  UNCHANGED <<admins, renounced>>
  BY <1>3, RecordAttemptIs DEF Resume, Issue, Find, SetupConsume, Select,
                               IssueTokenPair, history
<1>4. ASSUME NEW r \in Request, Start(r) \/ Abort(r)
      PROVE  UNCHANGED <<admins, renounced>>
  BY <1>4 DEF Start, Login, Reset, UpdateSelf, Own, VerifyPendingToken, Abort,
              history
<1> QED
  BY <1>1, <1>2, <1>3, <1>4 DEF Next, Expire, vars, history


-----------------------------------------------------------------------------
(* After a reset the row of the admin is blank, and whoever may still save *)
(* an entity of it will save a blank one, or a setup's.  A reset that is   *)
(* past its SELECT sets every column in which the row is not blank.        *)
Blanked ==
  /\ \A a \in renounced \cap DOMAIN admins : admins[a] = Blank
  /\ \A a \in renounced, r \in Request :
       Has(r, a) => req[r].op = "setup" \/ req[r].entity = Blank
  /\ \A r \in Request, a \in Admin :
       Has(r, a) /\ req[r].op = "reset" =>
         /\ req[r].entity = Blank
         /\ At(r, "update") /\ a \in DOMAIN admins =>
              \A c \in {"totpSecret", "totpEnabled"} \ req[r].columns :
                admins[a][c] = Blank[c]

(* What is saved in the place of a blank row, or by a reset, is blank. *)
LEMMA BlankWritten ==
  ASSUME Grounded, Blanked, NEW r \in Request, NEW a, Writes(r, a),
         a \in DOMAIN admins', a \in renounced'
  PROVE  admins'[a] = Blank
<1>1. req[r].op # "setup" /\ (a \in renounced \/ req[r].op = "reset")
  BY WriteIs
<1>2. req[r].entity = Blank
  BY <1>1, WriteIs DEF Blanked
<1>3. CASE At(r, "insert") /\ admins'[a] = req[r].entity
  BY <1>2, <1>3
<1>4. CASE ~(At(r, "insert") /\ admins'[a] = req[r].entity)
  <2>1. /\ At(r, "update") /\ a \in DOMAIN admins /\ admins'[a] \in Entity
        /\ \A c \in {"totpSecret", "totpEnabled"} : admins'[a][c] =
             IF c \in req[r].columns THEN Blank[c] ELSE admins[a][c]
    BY <1>2, <1>4, WriteIs
  <2>2. \A c \in {"totpSecret", "totpEnabled"} \ req[r].columns :
          admins[a][c] = Blank[c]
    BY <1>1, <2>1, WriteIs DEF Blanked
  <2>3. \A c \in {"totpSecret", "totpEnabled"} : admins'[a][c] = Blank[c]
    BY <2>1, <2>2
  <2> QED
    BY <2>1, <2>3, BlankIs
<1> QED
  BY <1>3, <1>4

LEMMA BlankRowsStay ==
  ASSUME Grounded, Blanked, [Next]_vars, NEW a \in renounced' \cap DOMAIN admins'
  PROVE  admins'[a] = Blank
<1>1. CASE \E r \in Request : Writes(r, a)
  BY <1>1, BlankWritten
<1>2. CASE ~\E r \in Request : Writes(r, a)
  BY <1>2, NoWrite DEF Blanked
<1> QED
  BY <1>1, <1>2

(* The handlers that have the admin when its reset is saved are resets.    *)
LEMMA ResetsRemain ==
  ASSUME Grounded, Blanked, Alone("reset"), NEW s \in Request,
         NEW a, Writes(s, a), req[s].op = "reset",
         NEW r \in Request, Has(r, a)', req' = [req EXCEPT ![s] = Idle],
         HistoryGrows
  PROVE  req'[r].entity = Blank
<1>1. r # s
  BY IdleHandler DEF Has, At, Grounded, TypeOK
<1>2. req'[r] = req[r]
  BY <1>1 DEF Grounded, TypeOK
<1>3. Has(r, a)
  BY <1>2, HasStays
<1>4. a \in Admin /\ req[r].op = "reset"
  BY <1>3, WriteIs DEF Alone
<1> QED
  BY <1>2, <1>3, <1>4 DEF Blanked

LEMMA BlankHandlersStay ==
  ASSUME Grounded, Blanked, Alone("reset"), [Next]_vars,
         NEW a \in renounced', NEW r \in Request, Has(r, a)'
  PROVE  req'[r].op = "setup" \/ req'[r].entity = Blank
<1>1. CASE a \in renounced
  <2>1. ASSUME Has(r, a), Kept(r)
        PROVE  req'[r].op = "setup" \/ req'[r].entity = Blank
    <3>1. req[r].op = "setup" \/ req[r].entity = Blank
      BY <1>1, <2>1 DEF Blanked
    <3>2. ~(At(r, "spend") /\ req[r].op = "confirm" /\ req[r].entity = Blank)
      BY BlankIs, HandlerIs DEF At, Sound
    <3> QED
      BY <2>1, <3>1, <3>2 DEF Kept
  <2>2. ASSUME Read(r, a)
        PROVE  req'[r].entity = Blank
    BY <1>1, <2>2 DEF Read, Blanked
  <2> QED
    BY <2>1, <2>2, HasFrom
<1>2. CASE a \notin renounced
  <2>1. PICK s \in Request : Writes(s, a)
    BY <1>2, NoWrite
  <2>2. req[s].op = "reset"
    BY <1>2, <2>1, WriteIs
  <2>3. req' = [req EXCEPT ![s] = Idle]
    BY <2>1, <2>2 DEF Writes, Update, Insert, Saved, Become
  <2> QED
    BY <2>1, <2>2, <2>3, NextGrows, ResetsRemain
<1> QED
  BY <1>1, <1>2

(* A handler comes to its UPDATE by the SELECT. *)
LEMMA UpdateFromSelect ==
  ASSUME Grounded, [Next]_vars, NEW r \in Request, At(r, "update")'
  PROVE  req'[r] = req[r] \/ Select(r)
<1>1. ASSUME NEW h, Become(r, h), h.at # "update"
      PROVE  FALSE
  BY <1>1 DEF Become, At, Grounded, TypeOK
<1>2. ~Become(r, Idle)
  BY <1>1, IdleHandler
<1>3. ASSUME Start(r)
      PROVE  FALSE
  BY <1>1, <1>3 DEF Start, Login, Reset, UpdateSelf, Own, VerifyPendingToken
<1>4. ASSUME Resume(r), ~Select(r)
      PROVE  FALSE
  <2>1. ~Find(r)
    BY <1>1 DEF Find
  <2>2. ASSUME NEW s \in Secret, SetupConsume(r, s)
        PROVE  FALSE
    BY <1>1, <2>2 DEF SetupConsume, Granted
  <2>3. ASSUME NEW code, RecordAttempt(r, code)
        PROVE  FALSE
    BY <1>1, <1>2, <2>3, RecordAttemptIs DEF Granted
  <2>4. ~(Update(r) \/ Insert(r))
    BY <1>1, <1>2 DEF Update, Insert, Saved
  <2> QED
    BY <1>2, <1>4, <2>1, <2>2, <2>3, <2>4 DEF Resume, Issue, IssueTokenPair
<1> QED
  BY <1>2, <1>3, <1>4, MoverOf DEF Abort

(* A reset, once it has looked at the row, is left alone with it.          *)
LEMMA ResetsStay ==
  ASSUME Grounded, Blanked, Alone("reset"), [Next]_vars,
         NEW r \in Request, NEW a \in Admin, Has(r, a)', req'[r].op = "reset"
  PROVE  /\ req'[r].entity = Blank
         /\ At(r, "update")' /\ a \in DOMAIN admins' =>
              \A c \in {"totpSecret", "totpEnabled"} \ req'[r].columns :
                admins'[a][c] = Blank[c]
<1>1. req'[r].entity = Blank
  <2>1. CASE Has(r, a) /\ Kept(r)
    BY <2>1 DEF Kept, Blanked
  <2>2. CASE Read(r, a)
    BY <2>2 DEF Read, Steps
  <2> QED
    BY <2>1, <2>2, HasFrom
<1>2. ASSUME At(r, "update")', a \in DOMAIN admins',
             NEW c \in {"totpSecret", "totpEnabled"} \ req'[r].columns
      PROVE  admins'[a][c] = Blank[c]
  <2>1. CASE Select(r)
    <3>1. /\ req'[r] = IF req[r].sub \in DOMAIN admins
               THEN [at |-> "update", op |-> req[r].op, sub |-> req[r].sub,
                     entity |-> req[r].entity, login |-> req[r].login,
                     code |-> req[r].code,
                     columns |-> Changed(admins, req[r].sub, req[r].entity)]
               ELSE [req[r] EXCEPT !.at = "insert"]
          /\ admins' = admins /\ req[r] \in Handler /\ At(r, "select")
      BY <2>1, HandlerIs DEF Select, Become, Grounded, TypeOK
    <3>2. req[r].sub \in DOMAIN admins
      BY <1>2, <3>1 DEF At, Handler
    <3>3. /\ req'[r].sub = req[r].sub /\ req'[r].entity = req[r].entity
          /\ req'[r].columns = Changed(admins, req[r].sub, req[r].entity)
      BY <3>1, <3>2
    <3>4. a = req[r].sub
      BY <1>2, <3>3 DEF Has, At
    <3>5. c \in DOMAIN Blank
      BY DEF Blank
    <3> QED
      BY <1>1, <1>2, <3>1, <3>3, <3>4, <3>5 DEF Changed
  <2>2. CASE req'[r] = req[r]
    <3>1. Has(r, a) /\ At(r, "update") /\ req[r].op = "reset"
      BY <1>2, <2>2, NextGrows, HasStays DEF At
    <3>2. a \in DOMAIN admins => admins[a][c] = Blank[c]
      BY <1>2, <2>2, <3>1 DEF Blanked
    <3>3. ASSUME NEW s \in Request, Writes(s, a)
          PROVE  admins'[a][c] = Blank[c]
      <4>1. req[s].entity = Blank
        BY <3>1, <3>3, WriteIs DEF Alone, Blanked
      <4> QED
        BY <1>2, <3>2, <3>3, <4>1, WriteIs
    <3> QED
      BY <1>2, <3>2, <3>3, NoWrite
  <2> QED
    BY <1>2, <2>1, <2>2, UpdateFromSelect
<1> QED
  BY <1>1, <1>2

LEMMA NextBlanked ==
  Grounded /\ Blanked /\ Alone("reset") /\ [Next]_vars => Blanked'
<1> SUFFICES ASSUME Grounded, Blanked, Alone("reset"), [Next]_vars
             PROVE  Blanked'
  OBVIOUS
<1>1. \A a \in renounced' \cap DOMAIN admins' : admins'[a] = Blank
  BY BlankRowsStay
<1>2. \A a \in renounced', r \in Request :
        Has(r, a)' => req'[r].op = "setup" \/ req'[r].entity = Blank
  BY BlankHandlersStay
<1>3. \A r \in Request, a \in Admin :
        Has(r, a)' /\ req'[r].op = "reset" =>
          /\ req'[r].entity = Blank
          /\ At(r, "update")' /\ a \in DOMAIN admins' =>
               \A c \in {"totpSecret", "totpEnabled"} \ req'[r].columns :
                 admins'[a][c] = Blank[c]
  BY ResetsStay
<1> QED
  BY <1>1, <1>2, <1>3 DEF Blanked, Blank

(* After a reset an admin does have to set 2FA up again, whatever tokens,  *)
(* setups, renamings and removals are around, if no other handler still    *)
(* has an entity of the admin while the reset saves.                       *)
THEOREM ResetAsksForSetupWhenAlone ==
  Spec /\ []Alone("reset") => []ResetAsksForSetup
<1>1. Init => Blanked
  BY IdleHandler DEF Init, Blanked, Has, At
<1>2. Blanked => ResetAsksForSetup
  BY BlankIs DEF Blanked, ResetAsksForSetup
<1> QED
  BY <1>1, <1>2, InitGrounded, NextGrounded, NextBlanked, PTL DEF Spec

-----------------------------------------------------------------------------
(* 2FA is off for whom a setup is in progress, past its look at the row. *)
SetupsOff ==
  \A r \in Request, a \in Admin :
    Has(r, a) /\ req[r].op = "setup" =>
      /\ ~req[r].entity.totpEnabled
      /\ a \in DOMAIN admins => ~admins[a].totpEnabled

LEMMA NextSetupsOff ==
  Grounded /\ SetupsOff /\ Alone("setup") /\ [Next]_vars => SetupsOff'
<1> SUFFICES ASSUME Grounded, SetupsOff, Alone("setup"), [Next]_vars,
                    NEW r \in Request, NEW a \in Admin, Has(r, a)',
                    req'[r].op = "setup"
             PROVE  /\ ~req'[r].entity.totpEnabled
                    /\ a \in DOMAIN admins' => ~admins'[a].totpEnabled
  BY DEF SetupsOff
<1>1. CASE Read(r, a)
  <2>1. /\ Accepts("setup", admins[a]) /\ req'[r].entity = admins[a]
        /\ admins' = admins
    BY <1>1 DEF Read
  <2> QED
    BY <2>1 DEF Accepts
<1>2. CASE Has(r, a) /\ Kept(r)
  <2>1. /\ req[r].op = "setup" /\ ~req[r].entity.totpEnabled
        /\ a \in DOMAIN admins => ~admins[a].totpEnabled
    BY <1>2 DEF Kept, SetupsOff
  <2>2. ~req'[r].entity.totpEnabled
    BY <1>2, <2>1 DEF Kept
  <2>3. ASSUME NEW s \in Request, Writes(s, a), a \in DOMAIN admins'
        PROVE  ~admins'[a].totpEnabled
    <3>1. ~req[s].entity["totpEnabled"]
      BY <1>2, <2>1, <2>3, WriteIs DEF Alone, SetupsOff
    <3>2. a \in DOMAIN admins => ~admins[a]["totpEnabled"]
      BY <2>1
    <3>3. admins'[a]["totpEnabled"] = req[s].entity["totpEnabled"]
            \/ (a \in DOMAIN admins
                 /\ admins'[a]["totpEnabled"] = admins[a]["totpEnabled"])
      BY <2>3, WriteIs
    <3> QED
      BY <3>1, <3>2, <3>3
  <2> QED
    BY <2>1, <2>2, <2>3, NoWrite
<1> QED
  BY <1>1, <1>2, HasFrom

(* setup2fa does refuse whoever has 2FA active, the row looked at again at *)
(* the save, if no handler of another operation has an entity of the admin *)
(* in the meantime; several setups at once do no harm.                     *)
THEOREM SetupRefusesActiveWhenAlone ==
  Spec /\ []Alone("setup") => SetupRefusesActive
<1>1. Init => SetupsOff
  BY IdleHandler DEF Init, SetupsOff, Has, At
<1>2. Grounded /\ SetupsOff =>
        [\A r \in Request :
           At(r, "update") /\ req[r].op = "setup" /\ At(r, "issue")' =>
             \A a \in {req[r].sub} \cap DOMAIN admins : ~admins[a].totpEnabled]_vars
  <2> SUFFICES ASSUME Grounded, SetupsOff, NEW r \in Request, At(r, "update"),
                      req[r].op = "setup", req[r].sub \in DOMAIN admins
               PROVE  ~admins[req[r].sub].totpEnabled
    OBVIOUS
  <2>1. Has(r, req[r].sub) /\ req[r].sub \in Admin
    BY HandlerIs, HandlerType DEF Has, At
  <2> QED
    BY <2>1 DEF SetupsOff
<1> QED
  BY <1>1, <1>2, InitGrounded, NextGrounded, NextSetupsOff, PTL
     DEF Spec, SetupRefusesActive
=============================================================================
