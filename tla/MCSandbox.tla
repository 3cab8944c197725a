------------------------------ MODULE MCSandbox -----------------------------
(***************************************************************************)
(* Instances of SandboxQuarantine and SandboxAttempt for TLC.              *)
(***************************************************************************)
EXTENDS SandboxQuarantine

CONSTANTS o1, o2
=============================================================================
