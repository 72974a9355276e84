----------------------------- MODULE Bootstrap ------------------------------
(***************************************************************************)
(* main.ts: from the process's start to a server that listens, as far as   *)
(* the variables of its environment decide it.  Their values are told      *)
(* apart no further than the program does: the one in .env.example, one of *)
(* the installation's own, or none.                                        *)
(***************************************************************************)
EXTENDS FiniteSets, Naturals

CONSTANT MaxOdd   \* bound: how many variables are not the installation's own

VARIABLES
  nodeEnv,   \* NODE_ENV
  env,       \* the other variables
  pc         \* the next step of bootstrap(), "up", or "down"

vars == <<nodeEnv, env, pc>>

JwtSecrets == {"JWT_ACCESS_SECRET", "JWT_REFRESH_SECRET",
               "JWT_ADMIN_ACCESS_SECRET", "JWT_ADMIN_REFRESH_SECRET"}

Keys == {"CREDENTIAL_ENCRYPTION_KEY", "TOTP_ENCRYPTION_KEY"}

Var == JwtSecrets \cup Keys \cup
  {"ADMIN_PASSWORD_SEEDER", "SWAGGER_USER", "SWAGGER_PASSWORD", "REDIS_PASSWORD"}

Environment ==
  UNION {{[v \in Var |-> IF v \in odd THEN e[v] ELSE "own"] :
            e \in [odd -> {"example", "unset"}]} :
           odd \in {S \in SUBSET Var : Cardinality(S) <= MaxOdd}}

NodeEnv == {"production", "development", "unset"}

Init ==
  /\ nodeEnv \in NodeEnv
  /\ env \in Environment
  /\ pc = "create"

(* configService.getOrThrow. *)
Set(S) == \A v \in S : env[v] # "unset"

Goto(ok, label) ==
  /\ pc' = IF ok THEN label ELSE "down"
  /\ UNCHANGED <<nodeEnv, env>>

-----------------------------------------------------------------------------
(* NestFactory.create(AppModule): the constructors of the services throw   *)
(* when a secret is missing, or a key has not 64 characters (as the key of *)
(* .env.example has not).  It fails without the database, too.             *)
KeysFit == \A v \in Keys : env[v] = "own"

SecretsSet == Set(JwtSecrets)

Create(connected) ==
  /\ pc = "create"
  /\ Goto(connected /\ SecretsSet /\ KeysFit, "assertSecrets")

(* KNOWN_WEAK_SECRETS and the variables it is compared with.  Slip: a      *)
(* variable that was added later is not compared.                          *)
secretsToCheck_NoRedis ==
  JwtSecrets \cup {"ADMIN_PASSWORD_SEEDER", "SWAGGER_PASSWORD", "SWAGGER_USER"}

secretsToCheck ==
  JwtSecrets \cup {"ADMIN_PASSWORD_SEEDER", "SWAGGER_PASSWORD", "SWAGGER_USER",
                   "REDIS_PASSWORD"}

AssertSecrets ==
  /\ pc = "assertSecrets"
  /\ Goto(nodeEnv = "production" => \A v \in secretsToCheck : env[v] # "example",
          "docs")

Docs ==
  /\ pc = "docs"
  /\ Goto(Set({"SWAGGER_USER", "SWAGGER_PASSWORD"}), "seed")

(* AdminSeeder.seed, whose own steps are in AdminAccounts. *)
Seed ==
  /\ pc = "seed"
  /\ Goto(nodeEnv # "production" => Set({"ADMIN_PASSWORD_SEEDER"}), "listen")

Listen(portFree) ==
  /\ pc = "listen"
  /\ Goto(portFree, "up")

(* The process ends, and is started again, with its .env edited or not. *)
Restart ==
  /\ pc \in {"up", "down"}
  /\ nodeEnv' \in NodeEnv
  /\ env' \in Environment
  /\ pc' = "create"

Next ==
  \/ \E b \in BOOLEAN : Create(b) \/ Listen(b)
  \/ AssertSecrets \/ Docs \/ Seed \/ Restart

Spec == Init /\ [][Next]_vars

-----------------------------------------------------------------------------
(***************************************************************************)
(* Properties.                                                             *)
(***************************************************************************)

(* The README's promise, over two checks in three files: in production the *)
(* server does not start with any of these variables as in .env.example.   *)
NoDefaultsInProduction ==
  pc = "up" /\ nodeEnv = "production" =>
    \A v \in JwtSecrets \cup Keys \cup {"REDIS_PASSWORD", "ADMIN_PASSWORD_SEEDER"} :
      env[v] # "example"
=============================================================================
