------------------------------ MODULE MCServer ------------------------------
(***************************************************************************)
(* For TLC: what the configuration and the deployment decide, in one run:  *)
(* the tokens (AccessTokens), how their durations are read (Durations),    *)
(* the start of the process (Bootstrap) and the schema (Migrations).  They *)
(* share no variable, and each property looks at one of them: a behaviour  *)
(* of all is a shuffle of one of each, so it is enough that each takes its *)
(* steps alone.                                                            *)
(***************************************************************************)
EXTENDS AccessTokens, TLC

CONSTANTS Amount, MaxOdd, Row

ASSUME AmountAssumption == Amount \subseteq Nat

VARIABLES part, duration, nodeEnv, env, pc, version, rows

deployment == <<nodeEnv, env, pc>>
schema == <<version, rows>>

D == INSTANCE Durations
B == INSTANCE Bootstrap
M == INSTANCE Migrations

(* The start of a part that takes no steps is any one. *)
MCInit ==
  /\ Init /\ M!Init /\ D!Init /\ B!Init
  /\ part \in {"access", "durations", "bootstrap", "migrations"}
  /\ part # "durations" => duration = CHOOSE d \in D!Duration : TRUE
  /\ part # "bootstrap" =>
       nodeEnv = "unset" /\ env = [v \in B!Var |-> "own"]

MCNext ==
  \/ part = "access" /\ Next /\ UNCHANGED <<part, duration, deployment, schema>>
  \/ part = "durations" /\ D!Configure /\ UNCHANGED <<part, vars, deployment, schema>>
  \/ part = "bootstrap" /\ B!Next /\ UNCHANGED <<part, vars, duration, schema>>
  \/ part = "migrations" /\ M!Next /\ UNCHANGED <<part, vars, duration, deployment>>

MCSpec == MCInit /\ [][MCNext]_<<part, vars, duration, deployment, schema>>

OneDuration == D!OneDuration
NoDefaultsInProduction == B!NoDefaultsInProduction
RowsFitEntities == M!RowsFitEntities
OnlyLongSecretStopsUp == M!OnlyLongSecretStopsUp

Symmetry ==
  Permutations(Student) \cup Permutations(Admin) \cup Permutations(Request)
    \cup Permutations(Row)
=============================================================================
