-------------------------- MODULE MCAdminTwoFactor --------------------------
(* Symmetry for checking AdminTwoFactor with TLC. *)
EXTENDS AdminTwoFactor, TLC

Symmetry ==
  Permutations(Request) \cup Permutations(Admin) \cup Permutations(Jti)
    \cup Permutations(Secret)
=============================================================================
