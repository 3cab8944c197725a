--------------------------- MODULE SandboxAttempt ---------------------------
(***************************************************************************)
(* One isolated attempt at a reproduction: IsolatedRepositoryRunner        *)
(* prepares a sandbox (source, dependencies, workspaces), hands it to      *)
(* SnapshotRunCoordinator, which takes a snapshot, restores it into a      *)
(* fresh sandbox for each run, and cleans up.                              *)
(*                                                                         *)
(* The attempt is one asynchronous function; every await is a value of pc. *)
(* While it waits the caller may abort it, either of its two timers may    *)
(* fire, a stop that was asked for may settle, and the provider may end a  *)
(* sandbox.  The runner's controller is aborted by the caller or by the    *)
(* runner's timer; the coordinator's also by its own timer.                *)
(***************************************************************************)
EXTENDS Integers, FiniteSets

CONSTANTS
    Runs,               \* control and candidate runs of the plan
    MaxProviderRetries, \* retries of one run after a provider interruption
    Budget,             \* attemptTimeoutMs, in ticks
    MaxWait,            \* bound on the age of the case when the attempt starts
    MaxFailedStops,     \* bound on sandboxes the provider fails to stop
    MaxFaults           \* bound on provider calls that take effect and throw
                        \* and on undelivered alerts, counted together

ASSUME AttemptAssumption ==
    /\ Runs \in Nat \ {0}
    /\ MaxProviderRetries \in Nat
    /\ Budget \in Nat \ {0}
    /\ MaxWait \in Nat
    /\ MaxFailedStops \in Nat
    /\ MaxFaults \in Nat

VARIABLES
    pc,          \* where the attempt waits
    cancelled,   \* the caller's signal was aborted
    timedOut,    \* the runner's timer fired
    expired,     \* the coordinator's timer fired
    age,         \* time since case.createdAt
    left,        \* what is left on the runner's timer
    runLeft,     \* what is left on the coordinator's timer
    index,       \* the run the coordinator is at
    retries,     \* provider retries of this run
    current,     \* the sandbox of this run
    values,      \* results recorded so far
    box,         \* box[s]: what the provider has of sandbox s
    stop,        \* stop[s]: the memoized promise of s.stop()
    network,     \* network policy of the prepared sandbox
    snapshot,    \* "held" by the coordinator, "lost" to it, "gone"
    cleanup,     \* the coordinator's cleanupStatus
    error,       \* the error that is being thrown
    outcome,     \* what the attempt returned or threw
    quarantined, \* resources recorded by the quarantine sink
    faults,      \* provider calls that took effect and threw
    lostAlerts   \* quarantine records that could not be written

control == <<cancelled, timedOut, expired>>
clocks == <<age, left, runLeft>>
loop == <<index, retries, current, values>>
provider == <<box, stop, network, snapshot>>
ledger == <<cleanup, quarantined, lostAlerts>>
attemptVars == <<pc, control, clocks, loop, provider, ledger, error, outcome, faults>>

Prepared == 0
Snapshot == -1
Sessions == 0..(Runs * (MaxProviderRetries + 1))
Resources == Sessions \cup {Snapshot}

\* The sandbox of a run and of each of its retries is a new one.
SessionOf(i, r) == i * (MaxProviderRetries + 1) + r + 1

\* The runner prepares and listens for its abort; the coordinator has taken over.
Preparing ==
    {"acquiring", "validating", "opening", "fetching", "locking", "installing",
     "workspaces", "environment"}
Coordinating == {"snapshotting", "creating", "running", "stopping", "closing", "deleting"}

AttemptInit ==
    /\ pc = "start"
    /\ cancelled = FALSE /\ timedOut = FALSE /\ expired = FALSE
    /\ age \in 0..MaxWait /\ left = Budget /\ runLeft = 0
    /\ index = 0 /\ retries = 0 /\ current = Prepared /\ values = 0
    /\ box = [s \in Sessions |-> "none"]
    /\ stop = [s \in Sessions |-> "none"]
    /\ network = "deny"
    /\ snapshot = "none"
    /\ cleanup = "clean"
    /\ error = "NONE" /\ outcome = "NONE"
    /\ quarantined = {} /\ faults = 0 /\ lostAlerts = 0

RunnerAborted == cancelled \/ timedOut
Aborted == RunnerAborted \/ expired

\* abortedError of the coordinator
AbortedError == IF expired THEN "ATTEMPT_TIMEOUT" ELSE "CANCELLED"

\* The runner's own abort is not looked at.
ReportedMutant(code) == IF code = "ATTEMPT_TIMEOUT" THEN "BUDGET_EXHAUSTED" ELSE code

\* The runner's catch: its abort comes before the error that it caused, and after
\* an error the runner itself has thrown (ExecutionResultFails).
Reported(code) ==
    IF RunnerAborted THEN IF timedOut THEN "BUDGET_EXHAUSTED" ELSE "CANCELLED"
    ELSE IF code = "ATTEMPT_TIMEOUT" THEN "BUDGET_EXHAUSTED" ELSE code

\* stop() calls the provider once and returns the same promise ever after.
Asked(s) == [stop EXCEPT ![s] = IF @ = "none" THEN "pending" ELSE @]
Settled(s) == stop[s] \in {"done", "failed"}

MoreFaults == faults + lostAlerts < MaxFaults
Fault == MoreFaults /\ faults' = faults + 1

\* The sink appends an audit event whose id is made of the resource, so that a
\* second one changes nothing; whoever records ignores a failure.
Record(r) ==
    \/ quarantined' = quarantined \cup {r} /\ UNCHANGED lostAlerts
    \/ /\ MoreFaults
       /\ lostAlerts' = lostAlerts + 1
       /\ UNCHANGED quarantined

\* quarantine: the status changes whether or not the record can be written.
Quarantine(r) == cleanup' = "quarantined" /\ Record(r)

\* cleanupSession of the coordinator, awaited: its stop has settled.
AwaitStop(s) ==
    /\ Settled(s)
    /\ IF stop[s] = "failed" THEN Quarantine(s) ELSE UNCHANGED ledger

----------------------------------------------------------------------------
(* The runner up to the hand-over.                                         *)

\* The attempt ends before it owns a sandbox.
EndAtOnce(code) == outcome' = Reported(code) /\ pc' = "done"

Start ==
    /\ pc = "start"
    /\ IF RunnerAborted THEN EndAtOnce("CANCELLED") ELSE pc' = "provisioning" /\ UNCHANGED outcome
    /\ UNCHANGED <<control, clocks, loop, provider, ledger, error, faults>>

\* provider.create.  An abort meanwhile goes unnoticed when it still succeeds:
\* the listener is added afterwards and does not fire.
Provision ==
    /\ pc = "provisioning"
    /\ box' = [box EXCEPT ![Prepared] = "up"]
    /\ pc' = "acquiring"
    /\ UNCHANGED <<control, clocks, loop, stop, network, snapshot, ledger, error, outcome, faults>>

\* provider.create throws; the sandbox may exist all the same.
ProvisionFails ==
    /\ pc = "provisioning"
    /\ EndAtOnce("EXECUTION_FAILED")
    /\ \/ UNCHANGED <<box, faults>>
       \/ Fault /\ box' = [box EXCEPT ![Prepared] = "up"]
    /\ UNCHANGED <<control, clocks, loop, stop, network, snapshot, ledger, error>>

\* The catch and the finally of a runner that still owns its sandbox.
GiveUp(code) ==
    /\ outcome' = Reported(code)
    /\ stop' = Asked(Prepared)
    /\ pc' = "discarding"

\* A step of the preparation that changes nothing but the sandbox's files, or
\* throws one of the codes.
Stage(p, next, codes) ==
    /\ pc = p
    /\ \/ box[Prepared] = "up" /\ pc' = next /\ UNCHANGED <<stop, outcome>>
       \/ \E code \in codes : GiveUp(code)
    /\ UNCHANGED <<control, clocks, loop, box, network, snapshot, ledger, error, faults>>

\* acquire: begins with deny-all again and may find the source unfit.
Acquire == Stage("acquiring", "validating", {"UNSUPPORTED_SOURCE", "EXECUTION_FAILED"})

\* prepare: the checks of manifest and lockfile and the copy before npm ci.
ValidateDependencies ==
    Stage("validating", "opening", {"UNSUPPORTED_SOURCE", "EXECUTION_FAILED"})

\* setNetworkPolicy opens the npm registry; when it throws, it may have.
OpenNetwork ==
    /\ pc = "opening"
    /\ \/ box[Prepared] = "up" /\ network' = "open" /\ pc' = "fetching" /\ UNCHANGED error
       \/ network' \in {"deny", "open"} /\ pc' = "locking" /\ error' = "EXECUTION_FAILED"
    /\ UNCHANGED <<control, clocks, loop, box, stop, snapshot, ledger, outcome, faults>>

\* npm ci from the registry
Fetch ==
    /\ pc = "fetching"
    /\ \/ box[Prepared] = "up" /\ UNCHANGED error
       \/ error' = "EXECUTION_FAILED"
    /\ pc' = "locking"
    /\ UNCHANGED <<control, clocks, loop, provider, ledger, outcome, faults>>

\* A lock-down that failed is not an error.
LockNetworkMutant ==
    /\ pc = "locking"
    /\ \/ box[Prepared] = "up" /\ network' = "deny"
       \/ network' \in {"open", "deny"}
    /\ IF error = "NONE" THEN pc' = "installing" /\ UNCHANGED <<stop, outcome>>
                         ELSE GiveUp(error)
    /\ UNCHANGED <<control, clocks, loop, box, snapshot, ledger, error, faults>>

\* The finally of prepare: deny-all again, on every path; a failure to lock down
\* is an error of its own.
LockNetwork ==
    /\ pc = "locking"
    /\ \/ /\ box[Prepared] = "up"
          /\ network' = "deny"
          /\ IF error = "NONE" THEN pc' = "installing" /\ UNCHANGED <<stop, outcome>>
                               ELSE GiveUp(error)
       \/ network' \in {network, "deny"} /\ GiveUp("EXECUTION_FAILED")
    /\ UNCHANGED <<control, clocks, loop, box, snapshot, ledger, error, faults>>

\* npm ci from the cache, with the network closed.
InstallOffline == Stage("installing", "workspaces", {"EXECUTION_FAILED"})

\* prepareExecutionWorkspaces: the control and the candidate.
PrepareWorkspaces == Stage("workspaces", "environment", {"EXECUTION_FAILED"})

\* A stop that failed is ignored.
DiscardMutant ==
    /\ pc = "discarding"
    /\ Settled(Prepared)
    /\ pc' = "done"
    /\ UNCHANGED <<control, clocks, loop, provider, ledger, error, outcome, faults>>

\* cleanupPrepared in the finally of the runner, which reports no status.
Discard ==
    /\ pc = "discarding"
    /\ Settled(Prepared)
    /\ IF stop[Prepared] = "failed" THEN Record(Prepared)
                                   ELSE UNCHANGED <<quarantined, lostAlerts>>
    /\ pc' = "done"
    /\ UNCHANGED <<control, clocks, loop, provider, cleanup, error, outcome, faults>>

----------------------------------------------------------------------------
(* The coordinator.                                                        *)

Larger(m, n) == IF m > n THEN m ELSE n

\* The finally of the coordinator begins by stopping the prepared sandbox.
Close(code) ==
    /\ error' = code
    /\ stop' = Asked(Prepared)
    /\ pc' = "closing"

\* The environment is collected and the coordinator takes over, with what is left
\* of the budget since the case was created.
HandOver ==
    /\ pc = "environment"
    /\ box[Prepared] = "up"
    /\ runLeft' = Larger(1, Budget - age)
    /\ IF RunnerAborted THEN Close("CANCELLED")
                        ELSE pc' = "snapshotting" /\ UNCHANGED <<stop, error>>
    /\ UNCHANGED <<control, age, left, loop, box, network, snapshot, ledger, outcome, faults>>

CollectEnvironmentFails ==
    /\ pc = "environment"
    /\ GiveUp("EXECUTION_FAILED")
    /\ UNCHANGED <<control, clocks, loop, box, network, snapshot, ledger, error, faults>>

\* The head of the loops: the runs are done, the attempt was aborted, or a
\* sandbox is created for run i.
NextRun(i) ==
    IF i = Runs THEN Close("NONE")
    ELSE IF Aborted THEN Close(AbortedError)
    ELSE pc' = "creating" /\ UNCHANGED <<stop, error>>

\* Taking a snapshot ends the sandbox, and its stop() is resolved from now on.
TakeSnapshot ==
    /\ pc = "snapshotting"
    /\ box[Prepared] = "up"
    /\ snapshot' = "held"
    /\ box' = [box EXCEPT ![Prepared] = "down"]
    /\ IF Aborted THEN pc' = "closing" /\ error' = AbortedError
                  ELSE pc' = "creating" /\ UNCHANGED error
    /\ stop' = [stop EXCEPT ![Prepared] = "done"]
    /\ UNCHANGED <<control, clocks, loop, network, ledger, outcome, faults>>

\* The call throws, aborted or not; the provider may have taken the snapshot.
TakeSnapshotFails ==
    /\ pc = "snapshotting"
    /\ Close(IF Aborted THEN AbortedError ELSE "PROVIDER_INTERRUPTED")
    /\ \/ UNCHANGED <<box, snapshot, faults>>
       \/ /\ Fault
          /\ snapshot' = "lost"
          /\ box' = [box EXCEPT ![Prepared] = "down"]
    /\ UNCHANGED <<control, clocks, loop, network, ledger, outcome>>

\* createFromSnapshot returns, even if the attempt was aborted meanwhile.
CreateSession ==
    /\ pc = "creating"
    /\ current' = SessionOf(index, retries)
    /\ box' = [box EXCEPT ![SessionOf(index, retries)] = "up"]
    /\ pc' = "running"
    /\ UNCHANGED <<control, clocks, index, retries, values, stop, network, snapshot, ledger,
                   error, outcome, faults>>

\* createFromSnapshot throws; the sandbox may exist all the same.
CreateSessionFails ==
    /\ pc = "creating"
    /\ IF Aborted THEN Close(AbortedError) /\ UNCHANGED retries
       ELSE IF retries < MaxProviderRetries
       THEN retries' = retries + 1 /\ UNCHANGED <<pc, stop, error>>
       ELSE Close("PROVIDER_INTERRUPTED") /\ UNCHANGED retries
    /\ \/ UNCHANGED <<box, faults>>
       \/ Fault /\ box' = [box EXCEPT ![SessionOf(index, retries)] = "up"]
    /\ UNCHANGED <<control, clocks, index, current, values, network, snapshot, ledger,
                   outcome>>

\* The finally of a run: its sandbox is asked to stop and awaited.
EndRun == stop' = Asked(current) /\ pc' = "stopping"

\* executeRun returns a result, which an aborted attempt does not record.
RunReturns ==
    /\ pc = "running"
    /\ box[current] = "up"
    /\ IF Aborted
       THEN error' = AbortedError /\ UNCHANGED <<values, index, retries>>
       ELSE values' = values + 1 /\ index' = index + 1 /\ retries' = 0 /\ UNCHANGED error
    /\ EndRun
    /\ UNCHANGED <<control, clocks, current, box, network, snapshot, ledger, outcome, faults>>

\* A retry that is not counted.
RunFailsMutant(kind) ==
    /\ pc = "running"
    /\ IF ~Aborted /\ kind = "PROVIDER_INTERRUPTED"
       THEN UNCHANGED <<retries, error>>
       ELSE error' = (IF Aborted THEN AbortedError ELSE kind) /\ UNCHANGED retries
    /\ EndRun
    /\ UNCHANGED <<control, clocks, index, current, values, box, network, snapshot, ledger,
                   outcome, faults>>

\* executeRun throws: a limit was exceeded, the provider was interrupted, or
\* anything else.  Only an interruption is retried.
RunFails(kind) ==
    /\ pc = "running"
    /\ IF ~Aborted /\ kind = "PROVIDER_INTERRUPTED" /\ retries < MaxProviderRetries
       THEN retries' = retries + 1 /\ UNCHANGED error
       ELSE error' = (IF Aborted THEN AbortedError ELSE kind) /\ UNCHANGED retries
    /\ EndRun
    /\ UNCHANGED <<control, clocks, index, current, values, box, network, snapshot, ledger,
                   outcome, faults>>

\* The next sandbox is created while the last one still stops.
StopSessionMutant ==
    /\ pc = "stopping"
    /\ IF stop[current] = "failed" THEN Quarantine(current) ELSE UNCHANGED ledger
    /\ IF error = "NONE" THEN NextRun(index) ELSE Close(error)
    /\ UNCHANGED <<control, clocks, loop, box, network, snapshot, outcome, faults>>

StopSession ==
    /\ pc = "stopping"
    /\ AwaitStop(current)
    /\ IF error = "NONE" THEN NextRun(index) ELSE Close(error)
    /\ UNCHANGED <<control, clocks, loop, box, network, snapshot, outcome, faults>>

\* The coordinator returns to the runner, or throws into its catch.
Return ==
    IF error = "NONE" THEN pc' = "proof" /\ UNCHANGED outcome ELSE EndAtOnce(error)

CloseSession ==
    /\ pc = "closing"
    /\ AwaitStop(Prepared)
    /\ IF snapshot = "held" THEN pc' = "deleting" /\ UNCHANGED outcome ELSE Return
    /\ UNCHANGED <<control, clocks, loop, provider, error, faults>>

DeleteSnapshot ==
    /\ pc = "deleting"
    /\ snapshot' = "gone"
    /\ Return
    /\ UNCHANGED <<control, clocks, loop, box, stop, network, ledger, error, faults>>

\* A snapshot that could not be deleted is forgotten.
DeleteSnapshotFailsMutant ==
    /\ pc = "deleting"
    /\ snapshot' \in {"held", "gone"}
    /\ Return
    /\ UNCHANGED <<control, clocks, loop, box, stop, network, ledger, error, faults>>

DeleteSnapshotFails ==
    /\ pc = "deleting"
    /\ snapshot' \in {"held", "gone"}
    /\ Quarantine(Snapshot)
    /\ Return
    /\ UNCHANGED <<control, clocks, loop, box, stop, network, error, faults>>

\* executionResult: the runs are not all of this environment.  The error is the
\* runner's own, which its catch passes on before it looks at an abort.
ExecutionResultFails ==
    /\ pc = "proof"
    /\ outcome' = "EXECUTION_FAILED" /\ pc' = "done"
    /\ UNCHANGED <<control, clocks, loop, provider, ledger, error, faults>>

\* assembleRepositoryProof, which no abort interrupts.
Prove ==
    /\ pc = "proof"
    /\ \/ outcome' = "PROOF" /\ pc' = "done"
       \/ EndAtOnce("EXECUTION_FAILED")
    /\ UNCHANGED <<control, clocks, loop, provider, ledger, error, faults>>

----------------------------------------------------------------------------
(* What happens meanwhile.                                                 *)

\* The abort listeners: the runner's while it prepares, the coordinator's while a
\* run is under way.
Listening ==
    IF pc \in Preparing THEN {Prepared} ELSE IF pc = "running" THEN {current} ELSE {}

StopListened ==
    stop' = [s \in Sessions |->
                IF s \in Listening /\ stop[s] = "none" /\ ~Aborted THEN "pending" ELSE stop[s]]

\* A stop that a listener asked for and that failed is recorded at once, while
\* the attempt still works with the sandbox.  The runner keeps no status.
ListenerRecords ==
    /\ \E s \in Listening \ quarantined :
          stop[s] = "failed" /\ quarantined' = quarantined \cup {s}
    /\ cleanup' = IF pc = "running" THEN "quarantined" ELSE cleanup
    /\ UNCHANGED <<pc, control, clocks, loop, provider, error, outcome, faults, lostAlerts>>

Cancel ==
    /\ pc # "done"
    /\ ~cancelled
    /\ cancelled' = TRUE
    /\ StopListened
    /\ UNCHANGED <<pc, timedOut, expired, clocks, loop, box, network, snapshot, ledger, error,
                   outcome, faults>>

RunnerTimerFires ==
    /\ pc \notin {"discarding", "done"}
    /\ left = 0
    /\ ~timedOut
    /\ timedOut' = TRUE
    /\ StopListened
    /\ UNCHANGED <<pc, cancelled, expired, clocks, loop, box, network, snapshot, ledger, error,
                   outcome, faults>>

CoordinatorTimerFires ==
    /\ pc \in Coordinating
    /\ runLeft = 0
    /\ ~expired
    /\ expired' = TRUE
    /\ StopListened
    /\ UNCHANGED <<pc, cancelled, timedOut, clocks, loop, box, network, snapshot, ledger, error,
                   outcome, faults>>

\* The provider answers a stop: the sandbox is down, or the call throws and the
\* sandbox is taken to be as it was, which is the worse case.
StopSettles(s) ==
    /\ stop[s] = "pending"
    /\ \/ stop' = [stop EXCEPT ![s] = "done"] /\ box' = [box EXCEPT ![s] = "down"]
       \/ /\ Cardinality({t \in Sessions : stop[t] = "failed"}) < MaxFailedStops
          /\ stop' = [stop EXCEPT ![s] = "failed"]
          /\ UNCHANGED box
    /\ UNCHANGED <<pc, control, clocks, loop, network, snapshot, ledger, error, outcome, faults>>

\* A sandbox in use reaches the timeout it was created with, or the provider loses
\* it.  One that was asked to stop may stay up, which is the worse case.
SandboxEnds(s) ==
    /\ box[s] = "up"
    /\ stop[s] = "none"
    /\ box' = [box EXCEPT ![s] = "down"]
    /\ UNCHANGED <<pc, control, clocks, loop, stop, network, snapshot, ledger, error, outcome,
                   faults>>

Lower(n) == IF n > 0 THEN n - 1 ELSE 0

\* Time matters while a timer runs; age is not read after the hand-over.
AttemptTick ==
    /\ pc # "done"
    /\ left > 0 \/ runLeft > 0
    /\ left' = Lower(left)
    /\ runLeft' = Lower(runLeft)
    /\ age' = IF age < Budget THEN age + 1 ELSE age
    /\ UNCHANGED <<pc, control, loop, provider, ledger, error, outcome, faults>>

----------------------------------------------------------------------------
RunErrors == {"BUDGET_EXHAUSTED", "PROVIDER_INTERRUPTED", "EXECUTION_FAILED"}

AttemptStep ==
    \/ Start \/ Provision \/ ProvisionFails
    \/ Acquire \/ ValidateDependencies
    \/ OpenNetwork \/ Fetch \/ LockNetwork \/ InstallOffline
    \/ PrepareWorkspaces \/ CollectEnvironmentFails \/ Discard
    \/ HandOver \/ TakeSnapshot \/ TakeSnapshotFails
    \/ CreateSession \/ CreateSessionFails
    \/ RunReturns \/ \E kind \in RunErrors : RunFails(kind)
    \/ StopSession \/ CloseSession \/ DeleteSnapshot \/ DeleteSnapshotFails
    \/ ExecutionResultFails \/ Prove

AttemptEvent ==
    \/ Cancel \/ RunnerTimerFires \/ CoordinatorTimerFires \/ ListenerRecords
    \/ \E s \in Sessions : SandboxEnds(s)
    \/ AttemptTick

Stopping == \E s \in Sessions : StopSettles(s)

AttemptNext == AttemptStep \/ AttemptEvent \/ Stopping

\* Every awaited call settles, stops included; nothing else is promised.
AttemptFairness ==
    /\ WF_attemptVars(AttemptStep)
    /\ \A s \in Sessions : WF_attemptVars(StopSettles(s))

AttemptSpec == AttemptInit /\ [][AttemptNext]_attemptVars

FairAttemptSpec == AttemptSpec /\ AttemptFairness

----------------------------------------------------------------------------
Live(r) == IF r = Snapshot THEN snapshot \in {"held", "lost"} ELSE box[r] = "up"

\* When the attempt is over, whatever it created is gone or recorded for the
\* operator, however abort, timeout, failed runs and failed stops fell together.
\* A call that took effect and threw, or an undelivered alert, is the exception.
NothingLeaks ==
    pc = "done" /\ faults = 0 /\ lostAlerts = 0 =>
        \A r \in Resources : Live(r) => r \in quarantined

\* A proof whose provenance says "clean" left nothing behind that its attempt
\* knew of, delivered alerts or not: the status is decided by the last clean-up.
CleanIsTrue ==
    outcome = "PROOF" /\ cleanup = "clean" /\ faults = 0 => \A r \in Resources : ~Live(r)

\* At most one sandbox of the attempt is up, those the provider failed to stop
\* apart: a retry or the next run waits for the last one to be gone.
OneSandbox ==
    faults = 0 => Cardinality({s \in Sessions : box[s] = "up" /\ stop[s] # "failed"}) <= 1

\* Nothing of the repository runs, and no snapshot is taken, unless the network
\* is closed again (docs/specs/milestone-8c-isolated-execution.md, line 170).
LockedDown ==
    (pc \in {"installing", "workspaces", "environment"} \cup Coordinating \/ snapshot # "none")
        => network = "deny"

\* The answer names its cause: a proof rests on all the runs; CANCELLED, which
\* ends the job for good, is said only of an attempt its caller aborted; and
\* PROVIDER_INTERRUPTED, which retries it, only when no abort was behind it.
OutcomeExplained ==
    /\ outcome = "PROOF" => values = Runs /\ error = "NONE"
    /\ outcome = "CANCELLED" => cancelled /\ ~timedOut
    /\ outcome = "PROVIDER_INTERRUPTED" => ~RunnerAborted

\* No result is recorded once the attempt is aborted or its sandbox was asked
\* to stop, and results are recorded one at a time, in order.
NoStaleResult ==
    [][values' # values =>
          /\ values' = values + 1 /\ values = index
          /\ ~Aborted
          /\ stop[current] = "none"]_attemptVars

\* Every attempt comes to an end, without the help of its timers.
AttemptEnds == <>(pc = "done")

\* An attempt is cut off for want of time only when it has had the time it is
\* promised (docs/specs/milestone-8c-isolated-execution.md, line 112).  The code
\* does not keep this: its clock starts with the case.  No run checks it.
AttemptGetsItsBudget == expired => left = 0
=============================================================================
