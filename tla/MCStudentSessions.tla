------------------------- MODULE MCStudentSessions -------------------------
(* Model values and symmetry for checking StudentSessions with TLC. *)
EXTENDS StudentSessions, TLC

(* Sound for the invariants and action properties; not used for liveness. *)
Symmetry ==
  Permutations(Token) \cup Permutations(Family)
    \cup Permutations(Client) \cup Permutations(Request)
=============================================================================
