---------------------------- MODULE AccessTokens ----------------------------
(***************************************************************************)
(* The JWTs the program signs, and what each endpoint asks of one: the     *)
(* guards, the refresh endpoints and the pending token of a login.  Access *)
(* tokens are not stored: whatever ends a session (logout, a suspension, a *)
(* removal) leaves those already signed to expire.                         *)
(***************************************************************************)
EXTENDS Naturals

CONSTANTS
  Student, Admin,
  Request,
  JWT_ACCESS_SECRET, JWT_REFRESH_SECRET,
  JWT_ADMIN_ACCESS_SECRET, JWT_ADMIN_REFRESH_SECRET,
  AccessTtl, RefreshTtl, PendingTtl,  \* in seconds
  MaxTime                             \* bound: the clock stops here

(* The README and .env.example: all four are different. *)
ASSUME SecretsAssumption ==
  /\ JWT_ACCESS_SECRET \notin
       {JWT_REFRESH_SECRET, JWT_ADMIN_ACCESS_SECRET, JWT_ADMIN_REFRESH_SECRET}
  /\ JWT_REFRESH_SECRET \notin {JWT_ADMIN_ACCESS_SECRET, JWT_ADMIN_REFRESH_SECRET}
  /\ JWT_ADMIN_ACCESS_SECRET # JWT_ADMIN_REFRESH_SECRET

ASSUME TtlAssumption == {AccessTtl, RefreshTtl, PendingTtl, MaxTime} \subseteq Nat

VARIABLES
  tokens,   \* the JWTs signed so far
  able,     \* who has a session, or the means to open one
  req,      \* req[r]: whom request r is about to sign tokens for
  now,
  lastAble  \* history: the last instant at which each was able, or about to
            \* be given tokens

vars == <<tokens, able, req, now, lastAble>>

Sub == Student \cup Admin

Secret == {JWT_ACCESS_SECRET, JWT_REFRESH_SECRET,
           JWT_ADMIN_ACCESS_SECRET, JWT_ADMIN_REFRESH_SECRET}

Jwt == [secret: Secret, type: {"access", "refresh", "pending-2fa"},
        sub: Sub, exp: Nat]

TypeOK ==
  /\ tokens \subseteq Jwt
  /\ able \subseteq Sub
  /\ req \in [Request -> Sub \cup {"idle"}]
  /\ now \in 0..MaxTime
  /\ lastAble \in [Sub -> 0..MaxTime]

Init ==
  /\ tokens = {}
  /\ able = Sub
  /\ req = [r \in Request |-> "idle"]
  /\ now = 0
  /\ lastAble = [s \in Sub |-> 0]

-----------------------------------------------------------------------------
(* What each handler signs, with its secret and its type claim.  Slip: the *)
(* claim is left out.                                                      *)
Signed_Untyped(secret, type, s, ttl) ==
  [secret |-> secret, sub |-> s, exp |-> now + ttl]

Signed(secret, type, s, ttl) ==
  [secret |-> secret, type |-> type, sub |-> s, exp |-> now + ttl]

(* AuthService.  Slip: the access token lasts as the refresh token does. *)
StudentPair_LongAccess(s) ==
  {Signed(JWT_ACCESS_SECRET, "access", s, RefreshTtl),
   Signed(JWT_REFRESH_SECRET, "refresh", s, RefreshTtl)}

StudentPair(s) ==
  {Signed(JWT_ACCESS_SECRET, "access", s, AccessTtl),
   Signed(JWT_REFRESH_SECRET, "refresh", s, RefreshTtl)}

(* AdminAuthService.issueTokenPair and refresh. *)
AdminPair(a) ==
  {Signed(JWT_ADMIN_ACCESS_SECRET, "access", a, AccessTtl),
   Signed(JWT_ADMIN_REFRESH_SECRET, "refresh", a, RefreshTtl)}

(* issuePendingToken: pendingSecret is the admins' access secret. *)
PendingToken(a) == Signed(JWT_ADMIN_ACCESS_SECRET, "pending-2fa", a, PendingTtl)

-----------------------------------------------------------------------------
(* What is asked of a token: verifyAsync under a secret, and its type.     *)
(* Slip: the type is not looked at.                                        *)
Verified_AnyType(t, secret, type) == t.secret = secret /\ now < t.exp

Verified(t, secret, type) == t.secret = secret /\ now < t.exp /\ t.type = type

JwtGuard(t) == Verified(t, JWT_ACCESS_SECRET, "access")

AdminJwtGuard(t) == Verified(t, JWT_ADMIN_ACCESS_SECRET, "access")

RefreshTokens(t) == Verified(t, JWT_REFRESH_SECRET, "refresh")

AdminRefresh(t) == Verified(t, JWT_ADMIN_REFRESH_SECRET, "refresh")

VerifyPendingToken(t) == Verified(t, JWT_ADMIN_ACCESS_SECRET, "pending-2fa")

(* Each controller's endpoints that ask for a token, and whose they are    *)
(* documented to be: the bearer the API names, or the one the body asks    *)
(* for.  (The others are open: the logins, the exchange, logout, a         *)
(* client's name, the credential links and the pages.)                     *)
AuthController(e, t) ==
  \/ e = "sso/me" /\ JwtGuard(t)
  \/ e = "sso/refresh" /\ RefreshTokens(t)

AdminAuthController(e, t) ==
  \/ e \in {"auth/2fa/setup", "auth/2fa/confirm", "auth/2fa/validate"}
       /\ VerifyPendingToken(t)
  \/ e = "auth/2fa/reset" /\ AdminJwtGuard(t)
  \/ e = "auth/refresh" /\ AdminRefresh(t)

(* AdminController and OAuthClientController: all theirs ask for the same. *)
AdminsEndpoints ==
  {"admins/findAll", "admins/findOne", "admins/create", "admins/updateSelf",
   "admins/remove"}

ClientsEndpoints ==
  {"clients/findAll", "clients/findOne", "clients/create", "clients/update",
   "clients/remove", "clients/regenerateSecret", "clients/sendCredentials",
   "clients/suspend", "clients/activate"}

AdminController(e, t) == e \in AdminsEndpoints /\ AdminJwtGuard(t)

OAuthClientController(e, t) == e \in ClientsEndpoints /\ AdminJwtGuard(t)

AcceptedAt(e, t) ==
  AuthController(e, t) \/ AdminAuthController(e, t)
    \/ AdminController(e, t) \/ OAuthClientController(e, t)

AlumnoJwt == {"sso/me"}

AdminJwt == {"auth/2fa/reset"} \cup AdminsEndpoints \cup ClientsEndpoints

Pending2fa == {"auth/2fa/setup", "auth/2fa/confirm", "auth/2fa/validate"}

-----------------------------------------------------------------------------
(* A handler has found all it asks for, and will sign after more awaits:   *)
(* a rotation, an exchange, a second factor.                               *)
Begin(r, s) ==
  /\ req[r] = "idle"
  /\ s \in able
  /\ req' = [req EXCEPT ![r] = s]
  /\ UNCHANGED <<tokens, able, now, lastAble>>

SignPair(r) ==
  /\ req[r] # "idle"
  /\ tokens' = tokens \cup
       (IF req[r] \in Student THEN StudentPair(req[r]) ELSE AdminPair(req[r]))
  /\ req' = [req EXCEPT ![r] = "idle"]
  /\ UNCHANGED <<able, now, lastAble>>

(* login: the password of the admin is good. *)
IssuePendingToken(a) ==
  /\ a \in able
  /\ tokens' = tokens \cup {PendingToken(a)}
  /\ UNCHANGED <<able, req, now, lastAble>>

(* The sessions of s end, by logout, suspension or removal. *)
End(s) ==
  /\ s \in able
  /\ able' = able \ {s}
  /\ UNCHANGED <<tokens, req, now, lastAble>>

(* s logs in again, or its client is activated. *)
Return(s) ==
  /\ s \notin able
  /\ able' = able \cup {s}
  /\ lastAble' = [lastAble EXCEPT ![s] = now]
  /\ UNCHANGED <<tokens, req, now>>

Tick ==
  /\ now < MaxTime
  /\ now' = now + 1
  /\ lastAble' = [s \in Sub |->
       IF s \in able \/ \E r \in Request : req[r] = s THEN now' ELSE lastAble[s]]
  /\ UNCHANGED <<tokens, able, req>>

Abort(r) ==
  /\ req[r] # "idle"
  /\ req' = [req EXCEPT ![r] = "idle"]
  /\ UNCHANGED <<tokens, able, now, lastAble>>

Next ==
  \/ \E r \in Request : SignPair(r) \/ Abort(r) \/ \E s \in Sub : Begin(r, s)
  \/ \E a \in Admin : IssuePendingToken(a)
  \/ \E s \in Sub : End(s) \/ Return(s)
  \/ Tick

Spec == Init /\ [][Next]_vars

-----------------------------------------------------------------------------
(***************************************************************************)
(* Properties.                                                             *)
(***************************************************************************)

(* A token opens the endpoints of its own audience only: a student's never *)
(* an admin's, a refresh token never a guarded one, and the pending token  *)
(* of half a login, signed with the secret of the admins' access tokens,   *)
(* nothing but the other half.                                             *)
RightAudience ==
  \A t \in tokens :
    /\ \A e \in AlumnoJwt : AcceptedAt(e, t) => t.sub \in Student /\ t.type = "access"
    /\ \A e \in AdminJwt : AcceptedAt(e, t) => t.sub \in Admin /\ t.type = "access"
    /\ \A e \in Pending2fa : AcceptedAt(e, t) => t.type = "pending-2fa"
    /\ AcceptedAt("sso/refresh", t) => t.sub \in Student /\ t.type = "refresh"
    /\ AcceptedAt("auth/refresh", t) => t.sub \in Admin /\ t.type = "refresh"

(* No guard looks the caller up: what a session has opened stays open when *)
(* the session ends, but for no longer than an access token lasts, counted *)
(* from the last request that was already signing.                         *)
AccessEnds ==
  \A t \in tokens, e \in AlumnoJwt \cup AdminJwt :
    AcceptedAt(e, t) => now < lastAble[t.sub] + AccessTtl
=============================================================================
