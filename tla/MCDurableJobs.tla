--------------------------- MODULE MCDurableJobs ----------------------------
(***************************************************************************)
(* Instances of DurableJobs for TLC.                                       *)
(***************************************************************************)
EXTENDS DurableJobs, TLC

CONSTANTS r1, r2, r3, w1, w2

\* Three commands under one key: r1 and r2 repeat each other, r3 differs.
OneKey == [r \in Requests |-> "k"]
RepeatedAndOther == [r \in Requests |-> IF r = r3 THEN "h2" ELSE "h1"]

\* Commands with keys of their own.
OwnKeys == [r \in Requests |-> r]

\* min(cap, base * 2 ^ (n - 1)), with a base of one tick and a cap of two
Doubling == [n \in 1..MaxAttempts |-> IF n = 1 THEN 1 ELSE 2]

\* Consumers are interchangeable.
WorkerSymmetry == Permutations(Workers)
=============================================================================
