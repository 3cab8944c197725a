------------------------- MODULE MCTenantRetention --------------------------
(***************************************************************************)
(* Instances of TenantRetention for TLC.                                   *)
(***************************************************************************)
EXTENDS TenantRetention, TLC

CONSTANTS a1, a2, w1, w2, t1, d1, d2, x1, x2

Interchangeable == Permutations(Writers) \cup Permutations(Executors)
=============================================================================
