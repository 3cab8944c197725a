------------------------------ MODULE MCGitHub ------------------------------
(***************************************************************************)
(* Instances of GitHubAuthorization for TLC.                               *)
(***************************************************************************)
EXTENDS GitHubAuthorization, TLC

CONSTANTS a1, a2, s1, s2, c1, c2, h1, h2, q1, r1, r2

Symmetry ==
    Permutations(States) \cup Permutations(Callbacks) \cup Permutations(Hooks)
    \cup Permutations(Repositories)
=============================================================================
