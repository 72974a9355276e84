-------------------------- MODULE MCAdminSessions ---------------------------
(* Symmetry for checking AdminSessions with TLC. *)
EXTENDS AdminSessions, TLC

Symmetry ==
  Permutations(Token) \cup Permutations(Family) \cup Permutations(Admin)
    \cup Permutations(Request)
=============================================================================
