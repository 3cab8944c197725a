--------------------------- MODULE MCTenantBackup ---------------------------
(***************************************************************************)
(* Instances of TenantBackup for TLC.  Before the database was lost, a     *)
(* first export found case k1 verified and a second one k2 as well; or the *)
(* only export found k1 blocked.                                           *)
(***************************************************************************)
EXTENDS TenantBackup, TLC

CONSTANTS k1, k2, p1, p2

First == [records |-> (k1 :> "VERIFIED" @@ k2 :> "NONE"), bundles |-> {k1}]
Second == [records |-> (k1 :> "VERIFIED" @@ k2 :> "VERIFIED"), bundles |-> {k1, k2}]

Blocked == [records |-> (k1 :> "BLOCKED" @@ k2 :> "NONE"), bundles |-> {}]

KeptFiles == {{First, Second}, {Blocked}}
NothingKept == {}

Symmetry == Permutations(Restorers)
=============================================================================
