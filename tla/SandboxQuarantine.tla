------------------------- MODULE SandboxQuarantine --------------------------
(***************************************************************************)
(* Sandbox attempts together with the operators who resolve what they left *)
(* behind.  The quarantine is not a table of its own: a resource is open   *)
(* while audit_events holds its cleanup-quarantined event and no           *)
(* cleanup-resolved one.  An operator looks the two up, deletes the        *)
(* resource at the provider and appends the resolution, in three calls     *)
(* with nothing that holds them together.                                  *)
(***************************************************************************)
EXTENDS SandboxAttempt

CONSTANTS
    Operators,   \* processes that execute quarantine:resolve
    NoResource   \* an operator that works on nothing

ASSUME QuarantineAssumption == NoResource \notin Resources

VARIABLES
    resolved,    \* resources with a cleanup-resolved event
    operators    \* operators[o]: the local state of a resolution

quarantineVars == <<attemptVars, resolved, operators>>

IdleOperator == [pc |-> "idle", resource |-> NoResource]

QuarantineInit ==
    /\ AttemptInit
    /\ resolved = {}
    /\ operators = [o \in Operators |-> IdleOperator]

Operator(o, state) == operators' = [operators EXCEPT ![o] = state]

\* listOpen
Open == quarantined \ resolved

\* What the provider has of r is deleted.
Removed(r) ==
    IF r = Snapshot THEN snapshot' = "gone" /\ UNCHANGED box
    ELSE box' = [box EXCEPT ![r] = "down"] /\ UNCHANGED snapshot

\* lookup: a resolved resource needs nothing, an unknown one is an error.
Lookup(o) ==
    /\ operators[o].pc = "idle"
    /\ \E r \in Open : Operator(o, [pc |-> "deleting", resource |-> r])
    /\ UNCHANGED <<attemptVars, resolved>>

\* deleteResource: get, then delete.
DeleteResource(o) ==
    /\ operators[o].pc = "deleting"
    /\ Removed(operators[o].resource)
    /\ Operator(o, [operators[o] EXCEPT !.pc = "recording"])
    /\ UNCHANGED <<pc, control, clocks, loop, stop, network, ledger, error, outcome, faults, resolved>>

\* A failed deletion is recorded as a resolution.
DeleteResourceFailsMutant(o) ==
    /\ operators[o].pc = "deleting"
    /\ \/ UNCHANGED <<box, snapshot>>
       \/ Removed(operators[o].resource)
    /\ Operator(o, [operators[o] EXCEPT !.pc = "recording"])
    /\ UNCHANGED <<pc, control, clocks, loop, stop, network, ledger, error, outcome, faults, resolved>>

\* The provider does not find the resource, or refuses, or its answer is lost.
DeleteResourceFails(o) ==
    /\ operators[o].pc = "deleting"
    /\ \/ UNCHANGED <<box, snapshot>>
       \/ Removed(operators[o].resource)
    /\ Operator(o, IdleOperator)
    /\ UNCHANGED <<pc, control, clocks, loop, stop, network, ledger, error, outcome, faults, resolved>>

\* audit.append under an id made of the resource; a second resolution collides,
\* looks again and is content.
RecordResolution(o) ==
    /\ operators[o].pc = "recording"
    /\ resolved' = resolved \cup {operators[o].resource}
    /\ Operator(o, IdleOperator)
    /\ UNCHANGED attemptVars

\* The operator's process ends, or the append throws.
OperatorFails(o) ==
    /\ operators[o].pc = "recording"
    /\ Operator(o, IdleOperator)
    /\ UNCHANGED <<attemptVars, resolved>>

QuarantineNext ==
    \/ AttemptNext /\ UNCHANGED <<resolved, operators>>
    \/ \E o \in Operators :
          \/ Lookup(o) \/ DeleteResource(o) \/ DeleteResourceFails(o)
          \/ RecordResolution(o) \/ OperatorFails(o)

QuarantineSpec ==
    /\ QuarantineInit
    /\ [][QuarantineNext]_quarantineVars
    /\ AttemptFairness

----------------------------------------------------------------------------
\* The resolution audit appears only after the provider deleted the resource
\* (docs/operations.md, line 247), whatever the attempt and other operators did
\* with it between the look-up and the audit.
ResolvedIsGone == \A r \in resolved : ~Live(r)
=============================================================================
