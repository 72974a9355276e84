---------------------------- MODULE ServerProofs ----------------------------
(***************************************************************************)
(* The parts of MCServer, each under its own specification: AccessTokens   *)
(* for any students, admins, requests and lifetimes, as long as the four   *)
(* secrets differ (SecretsAssumption); Durations for any amounts; Bootstrap*)
(* for any environment; and Migrations for any number of rows.             *)
(***************************************************************************)
EXTENDS MCServer, TLAPS

-----------------------------------------------------------------------------
(***************************************************************************)
(* AccessTokens.                                                           *)
(***************************************************************************)

(* For whom, and as what, a token under each secret was signed. *)
Audience(t) ==
  /\ t.secret = JWT_ACCESS_SECRET => t.sub \in Student /\ t.type = "access"
  /\ t.secret = JWT_REFRESH_SECRET => t.sub \in Student /\ t.type = "refresh"
  /\ t.secret = JWT_ADMIN_ACCESS_SECRET =>
       t.sub \in Admin /\ t.type \in {"access", "pending-2fa"}
  /\ t.secret = JWT_ADMIN_REFRESH_SECRET =>
       t.sub \in Admin /\ t.type = "refresh"

(* An access token expires within AccessTtl of the last instant at which   *)
(* its holder was able; and that instant is now for whoever is able or     *)
(* being served.                                                           *)
Past == \A s \in Sub : lastAble[s] <= now

Timely ==
  /\ Past
  /\ \A t \in tokens : t.type = "access" => t.exp <= lastAble[t.sub] + AccessTtl
  /\ \A s \in able : lastAble[s] = now
  /\ \A r \in Request : req[r] # "idle" => lastAble[req[r]] = now

TokenInv ==
  /\ \A t \in tokens : Audience(t)
  /\ Timely

LEMMA Times ==
  /\ AccessTtl \in Nat /\ RefreshTtl \in Nat /\ PendingTtl \in Nat
  /\ MaxTime \in Nat
BY TtlAssumption

(* What each handler signs. *)
LEMMA StudentPairIs ==
  ASSUME TypeOK, NEW s \in Student, NEW t \in StudentPair(s)
  PROVE  /\ t \in Jwt /\ t.sub = s /\ Audience(t)
         /\ t.type = "access" => t.exp = now + AccessTtl
<1>1. now \in Nat
  BY Times DEF TypeOK
<1>2. CASE t = Signed(JWT_ACCESS_SECRET, "access", s, AccessTtl)
  BY <1>1, <1>2, Times, SecretsAssumption
     DEF Signed, Jwt, Secret, Sub, Audience
<1>3. CASE t = Signed(JWT_REFRESH_SECRET, "refresh", s, RefreshTtl)
  BY <1>1, <1>3, Times, SecretsAssumption
     DEF Signed, Jwt, Secret, Sub, Audience
<1> QED
  BY <1>2, <1>3 DEF StudentPair

LEMMA AdminPairIs ==
  ASSUME TypeOK, NEW a \in Admin, NEW t \in AdminPair(a)
  PROVE  /\ t \in Jwt /\ t.sub = a /\ Audience(t)
         /\ t.type = "access" => t.exp = now + AccessTtl
<1>1. now \in Nat
  BY Times DEF TypeOK
<1>2. CASE t = Signed(JWT_ADMIN_ACCESS_SECRET, "access", a, AccessTtl)
  BY <1>1, <1>2, Times, SecretsAssumption
     DEF Signed, Jwt, Secret, Sub, Audience
<1>3. CASE t = Signed(JWT_ADMIN_REFRESH_SECRET, "refresh", a, RefreshTtl)
  BY <1>1, <1>3, Times, SecretsAssumption
     DEF Signed, Jwt, Secret, Sub, Audience
<1> QED
  BY <1>2, <1>3 DEF AdminPair

LEMMA PendingTokenIs ==
  ASSUME TypeOK, NEW a \in Admin
  PROVE  /\ PendingToken(a) \in Jwt /\ Audience(PendingToken(a))
         /\ PendingToken(a).type # "access"
<1>1. now \in Nat
  BY Times DEF TypeOK
<1> QED
  BY <1>1, Times, SecretsAssumption
     DEF PendingToken, Signed, Jwt, Secret, Sub, Audience

LEMMA InitInv == Init => TypeOK /\ TokenInv
<1> SUFFICES ASSUME Init
             PROVE  TypeOK /\ TokenInv
  OBVIOUS
<1>1. now = 0 /\ now \in 0..MaxTime
  BY Times DEF Init
<1> QED
  BY <1>1, Times DEF Init, TypeOK, TokenInv, Timely, Past

(* A step that signs new tokens and lets time stand still. *)
LEMMA SigningStep ==
  ASSUME TypeOK, TokenInv, NEW new, tokens' = tokens \cup new,
         \A t \in new :
           /\ t \in Jwt /\ Audience(t)
           /\ t.type = "access" => t.exp <= lastAble[t.sub] + AccessTtl,
         req' \in [Request -> Sub \cup {"idle"}],
         \A r \in Request : req'[r] \in {"idle", req[r]},
         UNCHANGED <<able, now, lastAble>>
  PROVE  TypeOK' /\ TokenInv'
<1>1. TypeOK'
  BY DEF TypeOK
<1>2. \A t \in tokens' : Audience(t)'
  BY DEF TokenInv, Audience
<1>3. Timely'
  BY DEF TokenInv, Timely, Past
<1> QED
  BY <1>1, <1>2, <1>3 DEF TokenInv

LEMMA SignPairInv ==
  ASSUME TypeOK, TokenInv, NEW r \in Request, SignPair(r)
  PROVE  TypeOK' /\ TokenInv'
<1>1. PICK s \in Sub : s = req[r] /\ s # "idle"
  BY DEF SignPair, TypeOK
<1>2. PICK new : /\ tokens' = tokens \cup new
                 /\ new = IF s \in Student THEN StudentPair(s) ELSE AdminPair(s)
  BY <1>1 DEF SignPair
<1>3. lastAble[s] = now
  BY <1>1 DEF TokenInv, Timely
<1>4. now + AccessTtl \in Nat
  BY Times DEF TypeOK
<1>5. ASSUME NEW t \in new
      PROVE  /\ t \in Jwt /\ Audience(t)
             /\ t.type = "access" => t.exp <= lastAble[t.sub] + AccessTtl
  <2>1. CASE s \in Student
    BY <1>2, <1>3, <1>4, <1>5, <2>1, StudentPairIs
  <2>2. CASE s \notin Student
    <3>1. s \in Admin /\ t \in AdminPair(s)
      BY <1>2, <1>5, <2>2 DEF Sub
    <3> QED
      BY <1>3, <1>4, <3>1, AdminPairIs
  <2> QED
    BY <2>1, <2>2
<1>6. /\ req' \in [Request -> Sub \cup {"idle"}]
      /\ \A q \in Request : req'[q] \in {"idle", req[q]}
  BY DEF SignPair, TypeOK
<1> QED
  BY <1>2, <1>5, <1>6, SigningStep DEF SignPair

LEMMA TickInv ==
  ASSUME TypeOK, TokenInv, Tick
  PROVE  TypeOK' /\ TokenInv'
<1> DEFINE Served(s) == s \in able \/ \E r \in Request : req[r] = s
<1>1. /\ now \in Nat /\ now' \in Nat /\ now' = now + 1 /\ now' \in 0..MaxTime
      /\ lastAble' = [s \in Sub |-> IF Served(s) THEN now' ELSE lastAble[s]]
      /\ UNCHANGED <<tokens, able, req>>
  BY Times DEF Tick, TypeOK
<1> HIDE DEF Served
<1>2. lastAble' \in [Sub -> 0..MaxTime]
  BY <1>1 DEF TypeOK
<1>3. TypeOK'
  BY <1>1, <1>2 DEF TypeOK
<1>4. ASSUME NEW s \in Sub
      PROVE  lastAble[s] \in Nat /\ lastAble[s] <= now /\ lastAble'[s] \in Nat
               /\ lastAble[s] <= lastAble'[s]
  <2>1. lastAble[s] \in Nat /\ lastAble'[s] \in Nat
    BY <1>2, Times DEF TypeOK
  <2>2. lastAble[s] <= now
    BY <1>4 DEF TokenInv, Timely, Past
  <2> QED
    BY <1>1, <2>1, <2>2
<1>5. ASSUME NEW t \in tokens, t.type = "access"
      PROVE  t.exp <= lastAble'[t.sub] + AccessTtl
  <2>1. t.sub \in Sub /\ t.exp \in Nat
    BY DEF TypeOK, Jwt
  <2>2. t.exp <= lastAble[t.sub] + AccessTtl
    BY <1>5 DEF TokenInv, Timely
  <2> QED
    BY <1>4, <2>1, <2>2, Times
<1>6. \A s \in able : lastAble'[s] = now'
  BY <1>1 DEF TypeOK, Served
<1>7. \A r \in Request : req[r] # "idle" => lastAble'[req[r]] = now'
  BY <1>1 DEF TypeOK, Served
<1>8. ASSUME NEW s \in Sub
      PROVE  lastAble'[s] <= now'
  BY <1>1, <1>4
<1>9. Timely'
  BY <1>1, <1>5, <1>6, <1>7, <1>8 DEF Timely, Past
<1>10. \A t \in tokens' : Audience(t)'
  BY <1>1 DEF TokenInv, Audience
<1> QED
  BY <1>3, <1>9, <1>10 DEF TokenInv

LEMMA ReturnInv ==
  ASSUME TypeOK, TokenInv, NEW s \in Sub, Return(s)
  PROVE  TypeOK' /\ TokenInv'
<1>1. /\ UNCHANGED <<tokens, req, now>> /\ able' = able \cup {s}
      /\ lastAble' = [lastAble EXCEPT ![s] = now]
      /\ now \in Nat
  BY Times DEF Return, TypeOK
<1>2. TypeOK'
  BY <1>1 DEF TypeOK
<1>3. ASSUME NEW u \in Sub
      PROVE  /\ lastAble[u] \in Nat /\ lastAble'[u] \in Nat
             /\ lastAble[u] <= lastAble'[u]
             /\ lastAble'[u] <= now
             /\ lastAble[u] = now => lastAble'[u] = now
  BY <1>1, Times DEF TypeOK, TokenInv, Timely, Past
<1>4. ASSUME NEW t \in tokens, t.type = "access"
      PROVE  t.exp <= lastAble'[t.sub] + AccessTtl
  <2>1. t.sub \in Sub /\ t.exp \in Nat
    BY DEF TypeOK, Jwt
  <2>2. t.exp <= lastAble[t.sub] + AccessTtl
    BY <1>4 DEF TokenInv, Timely
  <2> QED
    BY <1>3, <2>1, <2>2, Times
<1>5. \A u \in able' : lastAble'[u] = now'
  BY <1>1, <1>3 DEF TypeOK, TokenInv, Timely
<1>6. \A r \in Request : req'[r] # "idle" => lastAble'[req'[r]] = now'
  BY <1>1, <1>3 DEF TypeOK, TokenInv, Timely
<1>7. Timely'
  BY <1>1, <1>3, <1>4, <1>5, <1>6 DEF Timely, Past
<1>8. \A t \in tokens' : Audience(t)'
  BY <1>1 DEF TokenInv, Audience
<1> QED
  BY <1>2, <1>7, <1>8 DEF TokenInv

LEMMA NextInv == TypeOK /\ TokenInv /\ [Next]_vars => (TypeOK /\ TokenInv)'
<1> SUFFICES ASSUME TypeOK, TokenInv, [Next]_vars
             PROVE  TypeOK' /\ TokenInv'
  OBVIOUS
<1>1. ASSUME NEW r \in Request, Abort(r)
      PROVE  TypeOK' /\ TokenInv'
  <2>1. /\ req' \in [Request -> Sub \cup {"idle"}]
        /\ \A q \in Request : req'[q] \in {"idle", req[q]}
    BY <1>1 DEF Abort, TypeOK
  <2>2. TypeOK'
    BY <1>1, <2>1 DEF Abort, TypeOK
  <2>3. Timely'
    BY <1>1, <2>1 DEF Abort, TokenInv, Timely, Past
  <2>4. \A t \in tokens' : Audience(t)'
    BY <1>1 DEF Abort, TokenInv, Audience
  <2> QED
    BY <2>2, <2>3, <2>4 DEF TokenInv
<1>2. ASSUME NEW r \in Request, NEW s \in Sub, Begin(r, s)
      PROVE  TypeOK' /\ TokenInv'
  <2>1. /\ req' \in [Request -> Sub \cup {"idle"}] /\ lastAble[s] = now
        /\ \A q \in Request : req'[q] \in {s, req[q]}
    BY <1>2 DEF Begin, TypeOK, TokenInv, Timely
  <2>2. TypeOK'
    BY <1>2, <2>1 DEF Begin, TypeOK
  <2>3. Timely'
    BY <1>2, <2>1 DEF Begin, TokenInv, Timely, Past
  <2>4. \A t \in tokens' : Audience(t)'
    BY <1>2 DEF Begin, TokenInv, Audience
  <2> QED
    BY <2>2, <2>3, <2>4 DEF TokenInv
<1>3. ASSUME NEW a \in Admin, IssuePendingToken(a)
      PROVE  TypeOK' /\ TokenInv'
  <2>1. /\ tokens' = tokens \cup {PendingToken(a)}
        /\ req' = req /\ UNCHANGED <<able, now, lastAble>>
    BY <1>3 DEF IssuePendingToken
  <2>2. /\ req' \in [Request -> Sub \cup {"idle"}]
        /\ \A q \in Request : req'[q] \in {"idle", req[q]}
    BY <2>1 DEF TypeOK
  <2>3. ASSUME NEW t \in {PendingToken(a)}
        PROVE  t \in Jwt /\ Audience(t) /\ t.type # "access"
    <3>1. t = PendingToken(a)
      OBVIOUS
    <3> QED
      BY <3>1, PendingTokenIs, Zenon
  <2>4. PICK new : tokens' = tokens \cup new /\ new = {PendingToken(a)}
    BY <2>1
  <2> QED
    BY <2>1, <2>2, <2>3, <2>4, SigningStep
<1>4. ASSUME NEW s \in Sub, End(s)
      PROVE  TypeOK' /\ TokenInv'
  BY <1>4 DEF End, TypeOK, TokenInv, Timely, Past, Audience
<1>5. CASE UNCHANGED vars
  BY <1>5 DEF vars, TypeOK, TokenInv, Timely, Past, Audience
<1> QED
  BY <1>1, <1>2, <1>3, <1>4, <1>5, SignPairInv, TickInv, ReturnInv DEF Next

LEMMA Invariance == Spec => [](TypeOK /\ TokenInv)
BY InitInv, NextInv, PTL DEF Spec

(* Every token the program has signed has its secret, a type claim and an  *)
(* expiry.                                                                 *)
THEOREM TypeCorrect == Spec => []TypeOK
BY Invariance, PTL

(* What each endpoint takes, of tokens signed for their audience. *)
THEOREM RightAudienceHolds == Spec => []RightAudience
<1>1. TypeOK /\ TokenInv => RightAudience
  <2> SUFFICES ASSUME TypeOK, TokenInv, NEW t \in tokens
               PROVE  /\ \A e \in AlumnoJwt : AcceptedAt(e, t) =>
                           t.sub \in Student /\ t.type = "access"
                      /\ \A e \in AdminJwt : AcceptedAt(e, t) =>
                           t.sub \in Admin /\ t.type = "access"
                      /\ \A e \in Pending2fa :
                           AcceptedAt(e, t) => t.type = "pending-2fa"
                      /\ AcceptedAt("sso/refresh", t) =>
                           t.sub \in Student /\ t.type = "refresh"
                      /\ AcceptedAt("auth/refresh", t) =>
                           t.sub \in Admin /\ t.type = "refresh"
    BY DEF RightAudience
  <2>1. Audience(t)
    BY DEF TokenInv
  <2>2. \A e \in AlumnoJwt : AcceptedAt(e, t) => JwtGuard(t)
    BY DEF AlumnoJwt, AcceptedAt, AuthController, AdminAuthController,
           AdminController, OAuthClientController, AdminsEndpoints,
           ClientsEndpoints
  <2>3. \A e \in AdminJwt : AcceptedAt(e, t) => AdminJwtGuard(t)
    BY DEF AdminJwt, AcceptedAt, AuthController, AdminAuthController,
           AdminController, OAuthClientController, AdminsEndpoints,
           ClientsEndpoints
  <2>4. \A e \in Pending2fa : AcceptedAt(e, t) => VerifyPendingToken(t)
    BY DEF Pending2fa, AcceptedAt, AuthController, AdminAuthController,
           AdminController, OAuthClientController, AdminsEndpoints,
           ClientsEndpoints
  <2>5. /\ AcceptedAt("sso/refresh", t) => RefreshTokens(t)
        /\ AcceptedAt("auth/refresh", t) => AdminRefresh(t)
    BY DEF AcceptedAt, AuthController, AdminAuthController, AdminController,
           OAuthClientController, AdminsEndpoints, ClientsEndpoints
  <2> QED
    BY <2>1, <2>2, <2>3, <2>4, <2>5
       DEF Audience, JwtGuard, AdminJwtGuard, VerifyPendingToken,
           RefreshTokens, AdminRefresh, Verified
<1> QED
  BY <1>1, Invariance, PTL

(* The end of a session reaches the endpoints within the life of an access *)
(* token, whoever was being served when it ended.                          *)
THEOREM AccessEndsHolds == Spec => []AccessEnds
<1>1. TypeOK /\ TokenInv => AccessEnds
  <2> SUFFICES ASSUME TypeOK, TokenInv, NEW t \in tokens,
                      NEW e \in AlumnoJwt \cup AdminJwt, AcceptedAt(e, t)
               PROVE  now < lastAble[t.sub] + AccessTtl
    BY DEF AccessEnds
  <2>1. JwtGuard(t) \/ AdminJwtGuard(t)
    BY DEF AlumnoJwt, AdminJwt, AcceptedAt, AuthController,
           AdminAuthController, AdminController, OAuthClientController,
           AdminsEndpoints, ClientsEndpoints
  <2>2. now < t.exp /\ t.type = "access"
    BY <2>1 DEF JwtGuard, AdminJwtGuard, Verified
  <2>3. t.exp <= lastAble[t.sub] + AccessTtl
    BY <2>2 DEF TokenInv, Timely
  <2>4. now \in Nat /\ t.exp \in Nat /\ lastAble[t.sub] \in Nat
    BY Times DEF TypeOK, Jwt
  <2> QED
    BY <2>2, <2>3, <2>4, Times
<1> QED
  BY <1>1, Invariance, PTL

-----------------------------------------------------------------------------
(***************************************************************************)
(* Durations.                                                              *)
(***************************************************************************)

(* Whatever amount and unit a variable of the configuration holds, the two *)
(* readers of the program agree on it, and jsonwebtoken with them just     *)
(* when it is written as a whole number of s, m, h or d, or is no time.    *)
THEOREM OneDurationHolds == D!Spec => []OneDuration
<1>1. D!Init => duration \in D!Duration
  BY DEF D!Init
<1>2. duration \in D!Duration /\ [D!Configure]_duration
        => (duration \in D!Duration)'
  BY DEF D!Configure
<1>3. duration \in D!Duration => OneDuration
  <2> SUFFICES ASSUME NEW w \in Nat, NEW t \in 0..9, NEW u \in D!Unit,
                      duration = [whole |-> w, tenths |-> t, unit |-> u]
               PROVE  OneDuration
    BY AmountAssumption DEF D!Duration
  <2>1. PICK l : l = D!LastLetter(u)
    OBVIOUS
  <2>2. /\ l = "s" <=> u \in {"s", "ms", "hours", "days"}
        /\ l = "m" <=> u = "m"
        /\ l = "h" <=> u = "h"
        /\ l = "d" <=> u = "d"
    BY <2>1 DEF D!LastLetter, D!Unit
  <2>3. PICK f : f = D!Seconds(l)
    OBVIOUS
  <2>4. f = IF u = "m" THEN 60 ELSE IF u = "h" THEN 3600 ELSE
            IF u = "d" THEN 86400 ELSE 1
    BY <2>2, <2>3 DEF D!Seconds
  <2>5. D!parseExpiresIn(duration) = w * f
    BY <2>1, <2>3 DEF D!parseExpiresIn
  <2>6. D!toDate(duration) = w * f * 1000
    BY <2>1, <2>2, <2>4 DEF D!toDate
  <2>7. CASE u \in {"ms", "none"}
    <3>1. D!parseExpiresIn(duration) = w /\ D!Timespan(duration) = w \div 1000
      BY <2>4, <2>5, <2>7 DEF D!Timespan
    <3>2. w = w \div 1000 <=> w = 0
      OBVIOUS
    <3> QED
      BY <2>4, <2>5, <2>6, <2>7, <3>1, <3>2 DEF OneDuration, D!OneDuration
  <2>8. CASE u = "s"
    BY <2>4, <2>5, <2>6, <2>8 DEF OneDuration, D!OneDuration, D!Timespan
  <2>9. CASE u \notin {"ms", "none", "s"}
    <3>1. D!Timespan(duration) = (10 * w + t) * D!Tenth(u)
      BY <2>9 DEF D!Timespan
    <3>2. PICK k : k = D!Tenth(u)
      OBVIOUS
    <3>3. CASE u \in {"m", "h", "d"}
      <4>1. k \in {6, 360, 8640} /\ f = 10 * k
        BY <2>4, <3>2, <3>3 DEF D!Tenth
      <4>2. (10 * w + t) * k = w * f <=> t = 0
        BY <4>1
      <4> QED
        BY <2>5, <2>6, <3>1, <3>2, <3>3, <4>2 DEF OneDuration, D!OneDuration
    <3>4. CASE u \in {"min", "H", "hours", "days", "w", "y"}
      <4>1. k \in {6, 360, 8640, 60480, 3155760} /\ f = 1
        BY <2>4, <3>2, <3>4 DEF D!Tenth
      <4>2. (10 * w + t) * k = w * f <=> w = 0 /\ t = 0
        BY <4>1
      <4> QED
        BY <2>5, <2>6, <3>1, <3>2, <3>4, <4>2 DEF OneDuration, D!OneDuration
    <3> QED
      BY <2>9, <3>3, <3>4 DEF D!Unit
  <2> QED
    BY <2>7, <2>8, <2>9
<1> QED
  BY <1>1, <1>2, <1>3, PTL DEF D!Spec

-----------------------------------------------------------------------------
(***************************************************************************)
(* Bootstrap.  What has been looked at by the time bootstrap() gets to a   *)
(* step: the keys and the JWT secrets by the constructors, the rest by     *)
(* assertSecrets; the environment does not change under a process.         *)
(***************************************************************************)
Checked ==
  /\ pc \in {"assertSecrets", "docs", "seed", "listen", "up"} => B!KeysFit
  /\ pc \in {"docs", "seed", "listen", "up"} /\ nodeEnv = "production" =>
       \A v \in B!secretsToCheck : env[v] # "example"

(* In production the server does not start with a secret, a key or a       *)
(* password as in .env.example, whichever variables are edited between two *)
(* starts.                                                                 *)
THEOREM NoDefaultsInProductionHolds == B!Spec => []NoDefaultsInProduction
<1>1. B!Init => Checked
  BY DEF B!Init, Checked
<1>2. Checked /\ [B!Next]_deployment => Checked'
  BY DEF Checked, deployment, B!Next, B!Create, B!AssertSecrets, B!Docs, B!Seed,
         B!Listen, B!Restart, B!Goto, B!KeysFit
<1>3. Checked => NoDefaultsInProduction
  BY DEF Checked, NoDefaultsInProduction, B!NoDefaultsInProduction, B!KeysFit,
         B!secretsToCheck, B!Keys
<1>4. deployment = B!vars
  BY DEF deployment, B!vars
<1> QED
  BY <1>1, <1>2, <1>3, <1>4, PTL DEF B!Spec, deployment, B!vars

-----------------------------------------------------------------------------
(***************************************************************************)
(* Migrations.  First what each of them adds.                              *)
(***************************************************************************)
Fits(m) ==
  /\ m.table \in DOMAIN M!EntityColumns
  /\ \A c \in DOMAIN m.columns :
       /\ m.columns[c].null => c \in M!EntityNullable
       /\ m.columns[c].default = "NULL" => c \in M!EntityNullable
       /\ m.columns[c].default = "none" => m.creates
       /\ m.columns[c].default # "long"

LEMMA Versions == M!Latest = 9 /\ 1..9 = {1, 2, 3, 4, 5, 6, 7, 8, 9}
BY DEF M!Latest, M!Steps

LEMMA OneChange ==
  ASSUME NEW v, NEW m, M!Steps[v] = <<m>>
  PROVE  M!Changes(v) = {m}
<1>1. DOMAIN M!Steps[v] = {1} /\ M!Steps[v][1] = m
  OBVIOUS
<1> QED
  BY <1>1, Zenon DEF M!Changes

LEMMA TwoChanges ==
  ASSUME NEW v, NEW m, NEW n, M!Steps[v] = <<m, n>>
  PROVE  M!Changes(v) = {m, n}
<1>1. DOMAIN M!Steps[v] = {1, 2} /\ M!Steps[v][1] = m /\ M!Steps[v][2] = n
  OBVIOUS
<1> QED
  BY <1>1, Zenon DEF M!Changes

(* A change to a table, with its columns and without a limit. *)
To(m, table, columns, creates) ==
  /\ m.table = table /\ DOMAIN m.columns = columns /\ m.creates = creates
  /\ m.limits = {} /\ Fits(m)

Only(v, table, columns, creates) ==
  \E m : M!Changes(v) = {m} /\ To(m, table, columns, creates)

LEMMA Change1 ==
  \E m, n :
       /\ M!Changes(1) = {m, n}
       /\ To(m, "admins",
             {"id", "username", "password", "createdAt", "updatedAt"}, TRUE)
       /\ To(n, "oauth_clients",
             {"id", "clientName", "redirectUris", "clientSecret", "createdAt",
              "updatedAt"}, TRUE)
<1>1. PICK m, n : /\ m = M!RedirectUrisArray[1] /\ n = M!RedirectUrisArray[2]
                  /\ M!Steps[1] = <<m, n>>
  BY DEF M!RedirectUrisArray, M!Steps
<1> USE DEF M!RedirectUrisArray, To, Fits, M!Creates, M!++, M!Columns, M!Required,
            M!Defaults, M!EntityColumns
<1>2. To(m, "admins",
         {"id", "username", "password", "createdAt", "updatedAt"}, TRUE)
  BY <1>1
<1>3. To(n, "oauth_clients",
         {"id", "clientName", "redirectUris", "clientSecret", "createdAt",
          "updatedAt"}, TRUE)
  BY <1>1
<1> HIDE DEF M!RedirectUrisArray, To
<1>4. M!Changes(1) = {m, n}
  BY <1>1, TwoChanges
<1> QED
  BY <1>2, <1>3, <1>4

LEMMA OtherChanges ==
  /\ Only(2, "refresh_tokens",
             {"id", "tokenHash", "familyId", "sub", "type", "expiresAt", "used",
              "revoked", "createdAt"}, TRUE)
  /\ Only(4, "credential_tokens",
             {"id", "tokenHash", "oauthClientId", "encryptedSecret", "expiresAt",
              "used", "createdAt"}, TRUE)
  /\ Only(5, "credential_tokens", {"clientName", "redirectUris"}, FALSE)
  /\ Only(6, "admins", {"totpSecret", "totpEnabled"}, FALSE)
  /\ Only(7, "oauth_clients", {"isActive"}, FALSE)
  /\ Only(8, "refresh_tokens", {"sessionExpiresAt"}, FALSE)
  /\ Only(9, "refresh_tokens", {"clientId"}, FALSE)
<1> USE DEF To, Fits, M!Creates, M!Adds, M!++, M!Columns, M!Required,
            M!Nullable, M!Defaults, M!EntityColumns, M!EntityNullable
<1>1. Only(2, "refresh_tokens",
             {"id", "tokenHash", "familyId", "sub", "type", "expiresAt", "used",
              "revoked", "createdAt"}, TRUE)
  <2>1. PICK m : m = M!RefreshTokens[1] /\ M!Steps[2] = <<m>>
    BY DEF M!RefreshTokens, M!Steps
  <2>2. To(m, "refresh_tokens",
            {"id", "tokenHash", "familyId", "sub", "type", "expiresAt", "used",
             "revoked", "createdAt"}, TRUE)
    BY <2>1 DEF M!RefreshTokens
  <2> QED
    BY <2>1, <2>2, OneChange DEF Only
<1>2. Only(4, "credential_tokens",
             {"id", "tokenHash", "oauthClientId", "encryptedSecret", "expiresAt",
              "used", "createdAt"}, TRUE)
  <2>1. PICK m : m = M!CredentialTokens[1] /\ M!Steps[4] = <<m>>
    BY DEF M!CredentialTokens, M!Steps
  <2>2. To(m, "credential_tokens",
            {"id", "tokenHash", "oauthClientId", "encryptedSecret", "expiresAt",
             "used", "createdAt"}, TRUE)
    BY <2>1 DEF M!CredentialTokens
  <2> QED
    BY <2>1, <2>2, OneChange DEF Only
<1>3. Only(5, "credential_tokens", {"clientName", "redirectUris"}, FALSE)
  <2>1. PICK m : m = M!CredentialTokensClientData[1] /\ M!Steps[5] = <<m>>
    BY DEF M!CredentialTokensClientData, M!Steps
  <2>2. To(m, "credential_tokens", {"clientName", "redirectUris"}, FALSE)
    BY <2>1 DEF M!CredentialTokensClientData
  <2> QED
    BY <2>1, <2>2, OneChange DEF Only
<1>4. Only(6, "admins", {"totpSecret", "totpEnabled"}, FALSE)
  <2>1. PICK m : m = M!AdminTotp[1] /\ M!Steps[6] = <<m>>
    BY DEF M!AdminTotp, M!Steps
  <2>2. To(m, "admins", {"totpSecret", "totpEnabled"}, FALSE)
    BY <2>1 DEF M!AdminTotp
  <2> QED
    BY <2>1, <2>2, OneChange DEF Only
<1>5. Only(7, "oauth_clients", {"isActive"}, FALSE)
  <2>1. PICK m : m = M!OAuthClientIsActive[1] /\ M!Steps[7] = <<m>>
    BY DEF M!OAuthClientIsActive, M!Steps
  <2>2. To(m, "oauth_clients", {"isActive"}, FALSE)
    BY <2>1 DEF M!OAuthClientIsActive
  <2> QED
    BY <2>1, <2>2, OneChange DEF Only
<1>6. Only(8, "refresh_tokens", {"sessionExpiresAt"}, FALSE)
  <2>1. PICK m : m = M!RefreshTokenSessionExpires[1] /\ M!Steps[8] = <<m>>
    BY DEF M!RefreshTokenSessionExpires, M!Steps
  <2>2. To(m, "refresh_tokens", {"sessionExpiresAt"}, FALSE)
    BY <2>1 DEF M!RefreshTokenSessionExpires
  <2> QED
    BY <2>1, <2>2, OneChange DEF Only
<1>7. Only(9, "refresh_tokens", {"clientId"}, FALSE)
  <2>1. PICK m : m = M!RefreshTokenClientId[1] /\ M!Steps[9] = <<m>>
    BY DEF M!RefreshTokenClientId, M!Steps
  <2>2. To(m, "refresh_tokens", {"clientId"}, FALSE)
    BY <2>1 DEF M!RefreshTokenClientId
  <2> QED
    BY <2>1, <2>2, OneChange DEF Only
<1> QED
  BY <1>1, <1>2, <1>3, <1>4, <1>5, <1>6, <1>7

(* The third migration, ClientSecretHash, is the one that limits a column. *)
LEMMA Change3 ==
  /\ M!Steps[3] = M!ClientSecretHash
  /\ \E m : /\ M!Changes(3) = {m} /\ Fits(m)
             /\ m.table = "oauth_clients" /\ DOMAIN m.columns = {} /\ ~m.creates
             /\ m.limits = {"clientSecret"}
<1>1. PICK m : /\ m = M!ClientSecretHash[1] /\ M!Steps[3] = <<m>>
               /\ M!Steps[3] = M!ClientSecretHash
  BY DEF M!ClientSecretHash, M!Steps
<1>2. /\ m.table = "oauth_clients" /\ DOMAIN m.columns = {} /\ ~m.creates
      /\ m.limits = {"clientSecret"} /\ Fits(m)
  BY <1>1 DEF M!ClientSecretHash, M!Limits, M!Columns, Fits, M!EntityColumns
<1> QED
  BY <1>1, <1>2, OneChange

LEMMA ChangesFit ==
  ASSUME NEW v \in 1..9, NEW m \in M!Changes(v)
  PROVE  Fits(m)
BY Versions, Change1, OtherChanges, Change3 DEF Only, To

LEMMA AppliedNext ==
  ASSUME NEW v \in 0..8
  PROVE  M!Applied(v + 1) = M!Applied(v) \cup M!Changes(v + 1)
<1>1. 1..(v + 1) = 1..v \cup {v + 1}
  OBVIOUS
<1> QED
  BY <1>1, Zenon DEF M!Applied

LEMMA AppliedFit ==
  ASSUME NEW v \in 0..9, NEW m \in M!Applied(v)
  PROVE  Fits(m)
<1>1. PICK u \in 1..v : m \in M!Changes(u)
  BY DEF M!Applied
<1> QED
  BY <1>1, ChangesFit

(* A table is created once, so that what is added to a table that is there *)
(* has a DEFAULT, or may be NULL.                                          *)
LEMMA CreatedOnce ==
  ASSUME NEW v \in 0..8, NEW m \in M!Changes(v + 1), m.creates
  PROVE  m.table \notin M!Tables(v)
<1>1. v \in {0, 1, 3}
  BY OtherChanges, Change3 DEF Only, To
<1>2. M!Applied(0) = {} /\ M!Applied(1) = M!Changes(1)
        /\ M!Applied(3) = M!Changes(1) \cup M!Changes(2) \cup M!Changes(3)
  <2>1. M!Applied(0) = {}
    BY DEF M!Applied
  <2>2. /\ M!Applied(1) = M!Applied(0) \cup M!Changes(1)
        /\ M!Applied(2) = M!Applied(1) \cup M!Changes(2)
        /\ M!Applied(3) = M!Applied(2) \cup M!Changes(3)
    BY AppliedNext, 0 + 1 = 1, 1 + 1 = 2, 2 + 1 = 3
  <2> QED
    BY <2>1, <2>2
<1> QED
  BY <1>1, <1>2, Change1, OtherChanges, Change3 DEF Only, To, M!Tables

(* The tables and columns in the end are those of the entities. *)
LEMMA InTheEnd ==
  /\ M!Tables(9) = DOMAIN M!EntityColumns
  /\ \A t \in DOMAIN M!EntityColumns : M!ColumnsOf(9, t) = M!EntityColumns[t]
<1>1. M!Applied(9) = M!Changes(1) \cup M!Changes(2) \cup M!Changes(3)
        \cup M!Changes(4) \cup M!Changes(5) \cup M!Changes(6)
        \cup M!Changes(7) \cup M!Changes(8) \cup M!Changes(9)
  BY Versions DEF M!Applied
<1>2. M!Tables(9) = DOMAIN M!EntityColumns
  BY <1>1, Change1, OtherChanges, Change3 DEF Only, To, M!Tables, M!EntityColumns
<1>3. M!ColumnsOf(9, "admins") = M!EntityColumns["admins"]
  BY <1>1, Change1, OtherChanges, Change3 DEF Only, To, M!ColumnsOf, M!EntityColumns
<1>4. M!ColumnsOf(9, "oauth_clients") = M!EntityColumns["oauth_clients"]
  BY <1>1, Change1, OtherChanges, Change3 DEF Only, To, M!ColumnsOf, M!EntityColumns
<1>5. M!ColumnsOf(9, "refresh_tokens") = M!EntityColumns["refresh_tokens"]
  BY <1>1, Change1, OtherChanges, Change3 DEF Only, To, M!ColumnsOf, M!EntityColumns
<1>6. M!ColumnsOf(9, "credential_tokens") = M!EntityColumns["credential_tokens"]
  BY <1>1, Change1, OtherChanges, Change3 DEF Only, To, M!ColumnsOf, M!EntityColumns
<1> QED
  BY <1>2, <1>3, <1>4, <1>5, <1>6 DEF M!EntityColumns

(* The schema gives a column what some migration gave it. *)
LEMMA SchemaIs ==
  ASSUME NEW v \in 0..9, NEW t \in M!Tables(v)
  PROVE  /\ t \in DOMAIN M!Schema[v]
         /\ DOMAIN M!Schema[v][t] = M!ColumnsOf(v, t)
         /\ \A c \in M!ColumnsOf(v, t) :
              \E m \in M!Adding(v, t, c) : M!Schema[v][t][c] = m.columns[c]
<1>1. ASSUME NEW c \in M!ColumnsOf(v, t)
      PROVE  \E m \in M!Adding(v, t, c) : TRUE
  BY <1>1 DEF M!ColumnsOf, M!Adding
<1>2. M!Schema[v] = [u \in M!Tables(v) |-> [c \in M!ColumnsOf(v, u) |->
        (CHOOSE m \in M!Adding(v, u, c) : TRUE).columns[c]]]
  BY Versions DEF M!Schema
<1>3. M!Schema[v][t] = [c \in M!ColumnsOf(v, t) |->
        (CHOOSE m \in M!Adding(v, t, c) : TRUE).columns[c]]
  BY <1>2
<1> QED
  BY <1>1, <1>2, <1>3

(* Secrets are limited by the third migration, and nothing else is. *)
LEMMA LimitedNext ==
  ASSUME NEW v \in 0..8, NEW t, NEW c \in M!Limited(v + 1, t),
         c \notin M!Limited(v, t)
  PROVE  t = "oauth_clients" /\ c = "clientSecret" /\ v + 1 = 3
<1>1. PICK m \in M!Applied(v + 1) : m.table = t /\ c \in m.limits
  BY DEF M!Limited
<1>2. m \in M!Changes(v + 1)
  BY <1>1, AppliedNext DEF M!Limited
<1>3. v + 1 \in 1..9
  OBVIOUS
<1> QED
  BY <1>1, <1>2, <1>3, Versions, Change1, OtherChanges, Change3 DEF Only, To

LEMMA LimitedGrows ==
  ASSUME NEW v \in 0..8, NEW t
  PROVE  M!Limited(v, t) \subseteq M!Limited(v + 1, t)
BY AppliedNext DEF M!Limited

(* Every client has a secret. *)
LEMMA SecretIsThere ==
  ASSUME NEW v \in 0..9, "oauth_clients" \in M!Tables(v)
  PROVE  "clientSecret" \in M!ColumnsOf(v, "oauth_clients")
<1>1. 1 \in 1..v
  BY DEF M!Tables, M!Applied
<1>2. M!Changes(1) \subseteq M!Applied(v)
  BY <1>1 DEF M!Applied
<1> QED
  BY <1>2, Change1 DEF To, M!ColumnsOf

(* Every row has the columns of its table in the version the database is   *)
(* at, with a value, NULL only where the entity allows it, and long only   *)
(* where it is a secret without a limit.                                   *)
Sits(row, v) ==
  /\ DOMAIN row = {"table", "kind", "columns"}
  /\ row.table \in M!Tables(v)
  /\ DOMAIN row.columns = M!ColumnsOf(v, row.table)
  /\ \A c \in DOMAIN row.columns :
       /\ row.columns[c] = "NULL" => c \in M!EntityNullable
       /\ row.columns[c] # "none"
       /\ row.columns[c] = "long" =>
            /\ row.table = "oauth_clients" /\ c = "clientSecret"
            /\ c \notin M!Limited(v, row.table)

RowsSit == version \in 0..9 /\ \A r \in DOMAIN rows : Sits(rows[r], version)

LEMMA InsertSits ==
  ASSUME RowsSit, NEW r \in Row, NEW table, NEW kind, M!Insert(r, table, kind)
  PROVE  RowsSit'
<1>1. PICK row : /\ row = [table |-> table, kind |-> kind,
                           columns |-> M!Written(table, kind)]
                 /\ DOMAIN rows' = DOMAIN rows \cup {r}
                 /\ \A s \in DOMAIN rows' :
                      rows'[s] = IF s = r THEN row ELSE rows[s]
                 /\ version' = version
  BY DEF M!Insert
<1>2. version \in 0..9 /\ table \in M!Tables(version)
  BY Versions DEF RowsSit, M!Insert, M!Schema
<1>3. ASSUME NEW c \in M!ColumnsOf(version, table),
             M!Schema[version][table][c].null
      PROVE  c \in M!EntityNullable
  <2>1. PICK m \in M!Adding(version, table, c) :
          M!Schema[version][table][c] = m.columns[c]
    BY <1>2, SchemaIs
  <2> QED
    BY <1>2, <1>3, <2>1, AppliedFit DEF M!Adding, Fits
<1>4. kind = "long secret" =>
        table = "oauth_clients" /\ "clientSecret" \notin M!Limited(version, table)
  BY DEF M!Insert
<1>5. Sits(row, version)
  BY <1>1, <1>2, <1>3, <1>4, SchemaIs DEF Sits, M!Written
<1> QED
  BY <1>1, <1>5 DEF RowsSit

(* A column that a migration adds to a row that is there has a default. *)
LEMMA FilledIs ==
  ASSUME RowsSit, version < 9, NEW r \in DOMAIN rows
  PROVE  /\ DOMAIN M!Filled(rows[r], version + 1)
              = M!ColumnsOf(version + 1, rows[r].table)
         /\ \A c \in DOMAIN M!Filled(rows[r], version + 1) :
              /\ M!Filled(rows[r], version + 1)[c] = "NULL"
                   => c \in M!EntityNullable
              /\ M!Filled(rows[r], version + 1)[c] # "none"
              /\ M!Filled(rows[r], version + 1)[c] = "long" =>
                   /\ rows[r].table = "oauth_clients" /\ c = "clientSecret"
                   /\ c \notin M!Limited(version, rows[r].table)
                   /\ rows[r].columns[c] = "long"
<1>1. PICK v, row, t : v = version /\ row = rows[r] /\ t = row.table
  OBVIOUS
<1>2. v \in 0..8 /\ v + 1 \in 0..9 /\ v + 1 \in 1..9 /\ Sits(row, v)
  BY <1>1 DEF RowsSit
<1>3. t \in M!Tables(v) /\ t \in M!Tables(v + 1)
  BY <1>1, <1>2, AppliedNext DEF Sits, M!Tables
<1>4. ASSUME NEW c \in M!ColumnsOf(v + 1, t), c \notin DOMAIN row.columns
      PROVE  /\ M!Schema[v + 1][t][c].default = "NULL" => c \in M!EntityNullable
             /\ M!Schema[v + 1][t][c].default \notin {"none", "long"}
  <2>1. PICK m \in M!Adding(v + 1, t, c) : M!Schema[v + 1][t][c] = m.columns[c]
    BY <1>2, <1>3, SchemaIs
  <2>2. m \in M!Applied(v + 1) /\ m.table = t /\ c \in DOMAIN m.columns
    BY <2>1 DEF M!Adding
  <2>3. m \in M!Changes(v + 1)
    BY <1>1, <1>2, <1>4, <2>2, AppliedNext DEF Sits, M!ColumnsOf
  <2>4. ~m.creates
    BY <1>2, <1>3, <2>2, <2>3, CreatedOnce
  <2> QED
    BY <1>2, <2>1, <2>2, <2>3, <2>4, ChangesFit DEF Fits
<1>5. DOMAIN M!Filled(row, v + 1) = M!ColumnsOf(v + 1, t)
  BY <1>1, <1>2, <1>3, SchemaIs DEF M!Filled
<1>6. ASSUME NEW c \in M!ColumnsOf(v + 1, t)
      PROVE  /\ M!Filled(row, v + 1)[c] = "NULL" => c \in M!EntityNullable
             /\ M!Filled(row, v + 1)[c] # "none"
             /\ M!Filled(row, v + 1)[c] = "long" =>
                  /\ row.table = "oauth_clients" /\ c = "clientSecret"
                  /\ c \notin M!Limited(v, row.table)
                  /\ row.columns[c] = "long"
  <2>1. M!Filled(row, v + 1)[c] =
          IF c \in DOMAIN row.columns THEN row.columns[c]
                                      ELSE M!Schema[v + 1][t][c].default
    BY <1>1, <1>2, <1>3, SchemaIs DEF M!Filled
  <2> QED
    BY <1>2, <1>4, <2>1 DEF Sits
<1> QED
  BY <1>1, <1>5, <1>6

LEMMA UpSits ==
  ASSUME RowsSit, M!Up
  PROVE  RowsSit'
<1>1. version < 9 /\ version \in 0..9 /\ version + 1 \in 0..9
        /\ version' = version + 1
  BY Versions DEF M!Up, RowsSit
<1>2. ASSUME NEW r \in DOMAIN rows'
      PROVE  Sits(rows'[r], version + 1)
  <2>1. PICK row : row = rows[r] /\ r \in DOMAIN rows /\ Sits(row, version)
    BY <1>2 DEF M!Up, RowsSit
  <2>2. PICK columns : columns = M!Filled(row, version + 1)
    OBVIOUS
  <2>3. rows'[r] = [row EXCEPT !.columns = columns]
    BY <2>1, <2>2 DEF M!Up
  <2>4. /\ DOMAIN rows'[r] = {"table", "kind", "columns"}
        /\ rows'[r].table = row.table /\ rows'[r].columns = columns
    BY <2>1, <2>3 DEF Sits
  <2>5. row.table \in M!Tables(version + 1)
    BY <1>1, <2>1, AppliedNext DEF Sits, M!Tables
  <2>6. ASSUME NEW c \in DOMAIN columns, columns[c] = "long"
        PROVE  c \notin M!Limited(version + 1, row.table)
    BY <1>1, <2>1, <2>2, <2>6 DEF M!Up, M!Takes
  <2> QED
    BY <1>1, <2>1, <2>2, <2>4, <2>5, <2>6, FilledIs DEF Sits
<1> QED
  BY <1>1, <1>2 DEF RowsSit

LEMMA DownSits ==
  ASSUME RowsSit, M!Down
  PROVE  RowsSit'
<1>1. PICK v : v = version - 1 /\ v \in 0..8 /\ v + 1 = version
  BY DEF M!Down, RowsSit
<1>2. ASSUME NEW r \in DOMAIN rows'
      PROVE  Sits(rows'[r], v)
  <2>1. PICK row : /\ row = rows[r] /\ r \in DOMAIN rows /\ Sits(row, version)
                   /\ row.table \in M!Tables(v)
    BY <1>1, <1>2 DEF M!Down, RowsSit
  <2>2. PICK columns : columns =
          [c \in DOMAIN M!Schema[v][row.table] |-> row.columns[c]]
    OBVIOUS
  <2>3. rows'[r] = [row EXCEPT !.columns = columns]
    BY <1>1, <1>2, <2>1, <2>2 DEF M!Down
  <2>4. /\ DOMAIN rows'[r] = {"table", "kind", "columns"}
        /\ rows'[r].table = row.table /\ rows'[r].columns = columns
    BY <2>1, <2>3 DEF Sits
  <2>5. M!ColumnsOf(v, row.table) \subseteq M!ColumnsOf(version, row.table)
    BY <1>1, AppliedNext DEF M!ColumnsOf
  <2>6. DOMAIN columns = M!ColumnsOf(v, row.table)
    BY <1>1, <2>1, <2>2, SchemaIs
  <2>7. M!Limited(v, row.table) \subseteq M!Limited(version, row.table)
    BY <1>1, LimitedGrows
  <2> QED
    BY <2>1, <2>2, <2>4, <2>5, <2>6, <2>7 DEF Sits
<1> QED
  BY <1>1, <1>2 DEF RowsSit, M!Down

LEMMA RowsSitHolds == M!Spec => []RowsSit
<1>1. M!Init => RowsSit
  BY DEF M!Init, RowsSit
<1>2. RowsSit /\ [M!Next]_schema => RowsSit'
  <2>1. CASE UNCHANGED schema
    BY <2>1 DEF RowsSit, schema
  <2> QED
    BY <2>1, InsertSits, UpSits, DownSits DEF M!Next
<1> QED
  BY <1>1, <1>2, PTL DEF M!Spec, M!vars, schema

(* A row of whatever version, brought up to date, is a row of its entity,  *)
(* however often migrations were run and reverted.                         *)
THEOREM RowsFitEntitiesHolds == M!Spec => []RowsFitEntities
<1>1. RowsSit => RowsFitEntities
  BY Versions, InTheEnd DEF RowsSit, Sits, RowsFitEntities, M!RowsFitEntities
<1> QED
  BY <1>1, RowsSitHolds, PTL

(* Only a secret that is too long, where ClientSecretHash is next, makes a *)
(* migration fail; past it there is none.  So the guard of Up holds        *)
(* whenever another migration is left to run, and old rows that fit it can *)
(* be brought up to date.                                                  *)
THEOREM OnlyLongSecretStopsUpHolds == M!Spec => []OnlyLongSecretStopsUp
<1> DEFINE Long == \E r \in DOMAIN rows : rows[r].table = "oauth_clients"
                     /\ rows[r].columns["clientSecret"] = "long"
<1>1. RowsSit /\ version < 9 /\ ~M!Takes(version + 1)
        => M!Steps[version + 1] = M!ClientSecretHash /\ Long
  <2> SUFFICES ASSUME RowsSit, version < 9, ~M!Takes(version + 1)
               PROVE  M!Steps[version + 1] = M!ClientSecretHash /\ Long
    OBVIOUS
  <2>1. PICK r \in DOMAIN rows :
          \E c \in DOMAIN M!Filled(rows[r], version + 1) :
            \/ M!Filled(rows[r], version + 1)[c] = "none"
            \/ /\ c \in M!Limited(version + 1, rows[r].table)
               /\ M!Filled(rows[r], version + 1)[c] = "long"
    BY DEF M!Takes
  <2>2. PICK c :
        /\ rows[r].table = "oauth_clients" /\ c = "clientSecret"
        /\ c \notin M!Limited(version, rows[r].table)
        /\ rows[r].columns[c] = "long"
        /\ c \in M!Limited(version + 1, rows[r].table)
    BY <2>1, FilledIs
  <2>3. version \in 0..8
    BY DEF RowsSit
  <2>4. version + 1 = 3
    BY <2>2, <2>3, LimitedNext
  <2> QED
    BY <2>2, <2>4, Change3
<1>2. RowsSit /\ "clientSecret" \in M!Limited(version, "oauth_clients") => ~Long
  <2> SUFFICES ASSUME RowsSit, NEW r \in DOMAIN rows,
                      rows[r].table = "oauth_clients",
                      rows[r].columns["clientSecret"] = "long"
               PROVE  "clientSecret" \notin M!Limited(version, "oauth_clients")
    OBVIOUS
  <2> QED
    BY SecretIsThere DEF RowsSit, Sits
<1>3. RowsSit => OnlyLongSecretStopsUp
  BY <1>1, <1>2, Versions DEF OnlyLongSecretStopsUp, M!OnlyLongSecretStopsUp
<1> QED
  BY <1>3, RowsSitHolds, PTL
=============================================================================
