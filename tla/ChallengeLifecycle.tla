------------------------- MODULE ChallengeLifecycle -------------------------
(***************************************************************************)
(* What PendingChallengeService promises of a challenge of the admin login,*)
(* with no clock, no key of Redis and no handler.  Its token is sent once; *)
(* while the challenge is open, fewer than MaxAttempts wrong codes have    *)
(* been judged against it; and once it is over, spent by a handler, used   *)
(* up by wrong codes or out of time, it is never open again.               *)
(***************************************************************************)
EXTENDS Naturals

CONSTANTS Jti, MaxAttempts

VARIABLES
  phase,   \* phase[j]: "none" until the token is sent, "open", or "over"
  misses   \* misses[j]: the wrong codes judged against j, while it is open

vars == <<phase, misses>>

Init ==
  /\ phase = [j \in Jti |-> "none"]
  /\ misses = [j \in Jti |-> 0]

(* The token is sent, perhaps so late that the challenge is over. *)
Issue(j) ==
  /\ phase[j] = "none"
  /\ \E p \in {"open", "over"} : phase' = [phase EXCEPT ![j] = p]
  /\ UNCHANGED misses

Miss(j) ==
  /\ phase[j] = "open"
  /\ misses[j] + 1 < MaxAttempts
  /\ misses' = [misses EXCEPT ![j] = @ + 1]
  /\ UNCHANGED phase

(* A handler spends a challenge, the last wrong code uses it up, or time   *)
(* ends any number of them.                                                *)
End(S) ==
  /\ \A j \in S : phase[j] = "open"
  /\ phase' = [j \in Jti |-> IF j \in S THEN "over" ELSE phase[j]]
  /\ misses' = [j \in Jti |-> IF j \in S THEN 0 ELSE misses[j]]

Next ==
  \/ \E j \in Jti : Issue(j) \/ Miss(j)
  \/ \E S \in SUBSET Jti : End(S)

Spec == Init /\ [][Next]_vars
=============================================================================
