----------------------------- MODULE MCDispatch -----------------------------
(***************************************************************************)
(* Instances of Dispatch for TLC.                                          *)
(***************************************************************************)
EXTENDS Dispatch, TLC

CONSTANTS r1, w1, w2, p1, p2

EventIds == Requests \X (0..MaxAttempts)
OwnKeys == [r \in Requests |-> r]
OneTick == [n \in 1..MaxAttempts |-> 1]
Backoff == [n \in 1..MaxDeliveries |-> 1]

Publishing == Permutations(Publishers)
=============================================================================
