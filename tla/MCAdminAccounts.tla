-------------------------- MODULE MCAdminAccounts ---------------------------
(* Symmetry for checking AdminAccounts with TLC: the seeded username and    *)
(* password keep their names.                                               *)
EXTENDS AdminAccounts, TLC

Symmetry ==
  Permutations(Admin) \cup Permutations(Username \ {Seeded})
    \cup Permutations(Password \ {SeededPassword}) \cup Permutations(Request)
=============================================================================
