--------------------------- MODULE MCOAuthClients ---------------------------
(* Symmetry for checking OAuthClients with TLC. *)
EXTENDS OAuthClients, TLC

Symmetry ==
  Permutations(Client) \cup Permutations(Secret) \cup Permutations(Data)
    \cup Permutations(Link) \cup Permutations(Request)
=============================================================================
