------------------------- MODULE SessionLifecycle --------------------------
(***************************************************************************)
(* What the token endpoints promise of a student session, with none of the *)
(* statements that implement it.  A session (a familyId) is opened once;   *)
(* then it is either open, with exactly one token that can be exchanged,   *)
(* or rotating, when one request has taken that token and has not issued   *)
(* its successor; and once closed it never comes back.                     *)
(***************************************************************************)
CONSTANTS Token, Family

VARIABLES
  phase,   \* phase[f]: where session f is in its life
  chain    \* chain[f]: the refresh tokens ever issued to session f

vars == <<phase, chain>>

Phase == {"none", "open", "rotating", "closed"}

TypeOK ==
  /\ phase \in [Family -> Phase]
  /\ chain \in [Family -> SUBSET Token]

Init ==
  /\ phase = [f \in Family |-> "none"]
  /\ chain = [f \in Family |-> {}]

Fresh(t) == \A f \in Family : t \notin chain[f]

(* The code exchange stores the first token of a new session. *)
Open(f, t) ==
  /\ phase[f] = "none"
  /\ Fresh(t)
  /\ phase' = [phase EXCEPT ![f] = "open"]
  /\ chain' = [chain EXCEPT ![f] = {t}]

(* One request takes the session's only token. *)
Take(f) ==
  /\ phase[f] = "open"
  /\ phase' = [phase EXCEPT ![f] = "rotating"]
  /\ UNCHANGED chain

(* That request issues the successor. *)
Renew(f, t) ==
  /\ phase[f] = "rotating"
  /\ Fresh(t)
  /\ phase' = [phase EXCEPT ![f] = "open"]
  /\ chain' = [chain EXCEPT ![f] = @ \cup {t}]

(* Logout, reuse, expiry, the end of the client application, or a request  *)
(* that dies half-way: any number of sessions close together.              *)
Close(S) ==
  /\ \A f \in S : phase[f] \in {"open", "rotating"}
  /\ phase' = [f \in Family |-> IF f \in S THEN "closed" ELSE phase[f]]
  /\ UNCHANGED chain

Next ==
  \/ \E f \in Family, t \in Token : Open(f, t) \/ Renew(f, t)
  \/ \E f \in Family : Take(f)
  \/ \E S \in SUBSET Family : Close(S)

Spec == Init /\ [][Next]_vars
=============================================================================
