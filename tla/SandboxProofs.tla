---------------------------- MODULE SandboxProofs ----------------------------
(***************************************************************************)
(* An isolated attempt and the operators who clean up after it, for any    *)
(* number of runs, retries, faults and operators, any budget and bounds.   *)
(*                                                                         *)
(* Most of it is about the attempt alone, so each invariant is first shown *)
(* to survive a step of the attempt.  Operators only remove what the       *)
(* attempt has recorded (Removing), which no invariant minds.              *)
(***************************************************************************)
EXTENDS SandboxQuarantine, FiniteSetTheorems, TLAPS

----------------------------------------------------------------------------
(* The network.                                                            *)

\* The network is open only between its opening and its lock-down, and in an
\* attempt that gave up before it took a snapshot.
NetworkInv ==
    /\ network = "deny" \/ pc \in {"fetching", "locking", "discarding", "done"}
    /\ snapshot # "none" => network = "deny"
    /\ pc \in Preparing \cup {"start", "provisioning"} => snapshot = "none"

\* One step of an attempt keeps the network closed where it has to be.
LEMMA NetworkStep ==
    ASSUME NetworkInv, [AttemptNext]_attemptVars
    PROVE  NetworkInv'
<1> USE DEF NetworkInv, Preparing, control, clocks, loop, provider, ledger
<1>1. CASE AttemptStep
  <2> USE DEF GiveUp, EndAtOnce, Close, Return, NextRun, Stage
  <2>1. CASE Start \/ Provision \/ ProvisionFails
    BY <2>1 DEF Start, Provision, ProvisionFails
  <2>2. CASE Acquire \/ ValidateDependencies \/ InstallOffline \/ PrepareWorkspaces
    BY <2>2 DEF Acquire, ValidateDependencies, InstallOffline, PrepareWorkspaces
  <2>3. CASE OpenNetwork \/ Fetch \/ LockNetwork
    BY <2>3 DEF OpenNetwork, Fetch, LockNetwork
  <2>4. CASE CollectEnvironmentFails \/ Discard \/ HandOver
    BY <2>4 DEF CollectEnvironmentFails, Discard, HandOver
  <2>5. CASE TakeSnapshot \/ TakeSnapshotFails
    BY <2>5 DEF TakeSnapshot, TakeSnapshotFails
  <2>6. CASE CreateSession \/ CreateSessionFails
    BY <2>6 DEF CreateSession, CreateSessionFails
  <2>7. CASE RunReturns \/ \E kind \in RunErrors : RunFails(kind)
    BY <2>7 DEF RunReturns, RunFails, EndRun
  <2>8. CASE StopSession \/ CloseSession \/ ExecutionResultFails \/ Prove
    BY <2>8 DEF StopSession, CloseSession, ExecutionResultFails, Prove
  <2>9. CASE DeleteSnapshot \/ DeleteSnapshotFails
    BY <2>9 DEF DeleteSnapshot, DeleteSnapshotFails
  <2> QED  BY <1>1, <2>1, <2>2, <2>3, <2>4, <2>5, <2>6, <2>7, <2>8, <2>9 DEF AttemptStep
<1>2. CASE AttemptEvent \/ Stopping
  BY <1>2 DEF AttemptEvent, Stopping, Cancel, RunnerTimerFires, CoordinatorTimerFires,
              ListenerRecords, SandboxEnds, AttemptTick, StopSettles
<1>3. CASE UNCHANGED attemptVars
  BY <1>3 DEF attemptVars
<1> QED  BY <1>1, <1>2, <1>3 DEF AttemptNext

----------------------------------------------------------------------------
(* The answer.                                                             *)

\* What makes the answer truthful: results are counted with the runs, an error is
\* of the stage it was met in, and there is no answer before the end.
ErrorInv ==
    /\ values = index
    /\ pc \in Preparing \cup {"start", "provisioning"} => error \in {"NONE", "EXECUTION_FAILED"}
    /\ pc \in {"closing", "deleting"} /\ error = "NONE" => index = Runs
    /\ pc = "proof" => index = Runs /\ error = "NONE"
    /\ error = "CANCELLED" => RunnerAborted
    /\ outcome # "NONE" => pc \in {"discarding", "done"}
    /\ pc = "discarding" => outcome \notin {"PROOF", "PROVIDER_INTERRUPTED"}

OutcomeInv == ErrorInv /\ OutcomeExplained

\* The catch of the runner names its own abort first, and keeps an error that is
\* neither an abort nor a timeout.
LEMMA ReportedIsExplained ==
    ASSUME NEW code, code \in {"CANCELLED", "ATTEMPT_TIMEOUT", "BUDGET_EXHAUSTED",
                               "PROVIDER_INTERRUPTED", "EXECUTION_FAILED", "UNSUPPORTED_SOURCE"},
           code = "CANCELLED" => RunnerAborted
    PROVE  /\ Reported(code) \notin {"NONE", "PROOF"}
           /\ Reported(code) = "CANCELLED" => cancelled /\ ~timedOut
           /\ Reported(code) = "PROVIDER_INTERRUPTED" =>
                 ~RunnerAborted /\ code = "PROVIDER_INTERRUPTED"
  BY DEF Reported, RunnerAborted

\* The error a step of the attempt ends with, or the one it had.
Errors == {"CANCELLED", "ATTEMPT_TIMEOUT", "BUDGET_EXHAUSTED", "PROVIDER_INTERRUPTED",
           "EXECUTION_FAILED"}

\* What the coordinator's own abort is called.
LEMMA AbortedIsExplained ==
    ASSUME Aborted
    PROVE  /\ AbortedError \in {"CANCELLED", "ATTEMPT_TIMEOUT"}
           /\ AbortedError = "CANCELLED" => RunnerAborted
  BY DEF Aborted, AbortedError

\* One step of an attempt keeps its answer explained.
LEMMA OutcomeStep ==
    ASSUME OutcomeInv, error \in Errors \cup {"NONE"}, [AttemptNext]_attemptVars
    PROVE  OutcomeInv' /\ error' \in Errors \cup {"NONE"}
<1> USE DEF OutcomeInv, ErrorInv, OutcomeExplained, Errors, Preparing, RunnerAborted,
            control, clocks, loop, provider, ledger
<1>1. CASE AttemptStep
  <2> USE ReportedIsExplained, AbortedIsExplained
      DEF GiveUp, EndAtOnce, Close, Return, NextRun, Stage
  <2>1. CASE Start \/ Provision \/ ProvisionFails
    BY <2>1 DEF Start, Provision, ProvisionFails
  <2>2. CASE Acquire \/ ValidateDependencies \/ InstallOffline \/ PrepareWorkspaces
    BY <2>2 DEF Acquire, ValidateDependencies, InstallOffline, PrepareWorkspaces
  <2>3. CASE OpenNetwork \/ Fetch \/ LockNetwork
    BY <2>3 DEF OpenNetwork, Fetch, LockNetwork
  <2>4. CASE CollectEnvironmentFails \/ Discard \/ HandOver
    BY <2>4 DEF CollectEnvironmentFails, Discard, HandOver
  <2>5. CASE TakeSnapshot \/ TakeSnapshotFails
    BY <2>5 DEF TakeSnapshot, TakeSnapshotFails
  <2>6. CASE CreateSession \/ CreateSessionFails
    BY <2>6 DEF CreateSession, CreateSessionFails
  <2>7. CASE RunReturns \/ \E kind \in RunErrors : RunFails(kind)
    BY <2>7 DEF RunReturns, RunFails, EndRun, RunErrors
  <2>8. CASE StopSession \/ CloseSession \/ ExecutionResultFails \/ Prove
    BY <2>8 DEF StopSession, CloseSession, ExecutionResultFails, Prove
  <2>9. CASE DeleteSnapshot \/ DeleteSnapshotFails
    BY <2>9 DEF DeleteSnapshot, DeleteSnapshotFails
  <2> QED  BY <1>1, <2>1, <2>2, <2>3, <2>4, <2>5, <2>6, <2>7, <2>8, <2>9 DEF AttemptStep
<1>2. CASE AttemptEvent \/ Stopping
  <2>1. CASE Cancel
    BY <2>1 DEF Cancel
  <2>2. CASE RunnerTimerFires
    BY <2>2 DEF RunnerTimerFires
  <2>3. CASE CoordinatorTimerFires \/ ListenerRecords \/ AttemptTick
    BY <2>3 DEF CoordinatorTimerFires, ListenerRecords, AttemptTick
  <2>4. CASE \E s \in Sessions : SandboxEnds(s) \/ StopSettles(s)
    BY <2>4 DEF SandboxEnds, StopSettles
  <2> QED  BY <1>2, <2>1, <2>2, <2>3, <2>4 DEF AttemptEvent, Stopping
<1>3. CASE UNCHANGED attemptVars
  BY <1>3 DEF attemptVars
<1> QED  BY <1>1, <1>2, <1>3 DEF AttemptNext

----------------------------------------------------------------------------
(* Nothing leaks.                                                          *)

AttemptTypeOK ==
    /\ index \in 0..Runs /\ retries \in 0..MaxProviderRetries
    /\ current \in Sessions
    /\ box \in [Sessions -> {"none", "up", "down"}]
    /\ stop \in [Sessions -> {"none", "pending", "done", "failed"}]
    /\ faults \in Nat /\ lostAlerts \in Nat

\* No sandbox from n on was asked to stop.
Fresh(n) == \A s \in Sessions : s >= n => stop[s] = "none"

\* The sandboxes of the runs to come are fresh, whatever the attempt waits for.
FreshInv ==
    /\ values = index
    /\ pc \in {"start", "provisioning"} => Fresh(Prepared)
    /\ pc \in Preparing \cup {"start", "provisioning", "snapshotting"} =>
          index = 0 /\ retries = 0
    /\ pc \in {"creating", "running"} => index < Runs
    /\ pc \in Preparing \cup {"snapshotting", "creating"} => Fresh(SessionOf(index, retries))
    /\ pc = "running" => current = SessionOf(index, retries) /\ Fresh(current + 1)
    /\ pc = "stopping" /\ error = "NONE" => Fresh(SessionOf(index, retries))
    /\ pc = "running" /\ ~Aborted => stop[current] = "none"

\* Where the clean-up of the prepared sandbox, and of the snapshot, is still to come.
Owning == Preparing \cup {"snapshotting", "creating", "running", "stopping", "closing", "discarding"}
Holding == {"creating", "running", "stopping", "closing", "deleting"}

InCare(s) == (s = Prepared /\ pc \in Owning) \/ (s = current /\ pc \in {"running", "stopping"})

\* What is up is recorded or in care, unless the provider or the sink misbehaved.
CareInv ==
    faults = 0 /\ lostAlerts = 0 =>
        /\ \A s \in Sessions : box[s] = "up" => s \in quarantined \/ InCare(s)
        /\ \A s \in Sessions : stop[s] = "done" => box[s] # "up"
        /\ snapshot # "lost"
        /\ snapshot = "held" => Snapshot \in quarantined \/ pc \in Holding

LeakInv == AttemptTypeOK /\ FreshInv /\ CareInv

\* The sandboxes of the runs are numbered in the order of their creation.
LEMMA SessionOrder ==
    ASSUME NEW i \in Nat, NEW r \in 0..MaxProviderRetries
    PROVE  /\ SessionOf(i, r) \in Nat /\ SessionOf(i, r) > Prepared
           /\ SessionOf(i, r + 1) = SessionOf(i, r) + 1
           /\ SessionOf(i + 1, 0) > SessionOf(i, r)
           /\ i < Runs => SessionOf(i, r) \in Sessions
<1> DEFINE M == MaxProviderRetries + 1
<1>1. M \in Nat /\ M > r /\ Runs \in Nat
  BY AttemptAssumption
<1>2. i * M \in Nat /\ (i + 1) * M = i * M + M
  BY <1>1
<1>3. i < Runs => (i + 1) * M <= Runs * M
  <2> SUFFICES ASSUME i < Runs PROVE (i + 1) * M <= Runs * M
    OBVIOUS
  <2> DEFINE d == Runs - (i + 1)
  <2>1. d \in Nat /\ Runs = (i + 1) + d
    BY <1>1
  <2>2. d * M \in Nat
    BY <2>1, <1>1
  <2>3. Runs * M = (i + 1) * M + d * M
    BY <2>1, <1>1
  <2>4. (i + 1) * M \in Nat
    BY <1>1, <1>2
  <2> QED  BY <2>2, <2>3, <2>4
<1>4. Runs * M \in Nat
  BY <1>1
<1> QED  BY <1>1, <1>2, <1>3, <1>4 DEF SessionOf, Sessions, Prepared

\* The prepared sandbox comes first, and the snapshot is no sandbox.
LEMMA PreparedIsSession ==
    Prepared \in Sessions /\ Prepared = 0 /\ Snapshot \notin Sessions
<1>1. Runs * (MaxProviderRetries + 1) \in Nat
  BY AttemptAssumption
<1> QED  BY <1>1 DEF Prepared, Sessions, Snapshot

LEMMA SessionsAreNumbers == Sessions \subseteq Nat
BY DEF Sessions

\* Where a sandbox is made for a run there is a number for it, not used before.
LEMMA SessionIsThere ==
    ASSUME AttemptTypeOK, FreshInv, pc = "creating"
    PROVE  /\ SessionOf(index, retries) \in Sessions
           /\ SessionOf(index, retries) \in Nat
           /\ SessionOf(index, retries) # Prepared
           /\ Fresh(SessionOf(index, retries)) /\ Fresh(SessionOf(index, retries) + 1)
           /\ stop[SessionOf(index, retries)] = "none"
<1>1. index \in Nat /\ retries \in 0..MaxProviderRetries /\ index < Runs
  BY DEF AttemptTypeOK, FreshInv
<1> DEFINE n == SessionOf(index, retries)
<1>2. n \in Sessions /\ n \in Nat /\ n > Prepared
  BY <1>1, SessionOrder
<1>3. Fresh(n)
  BY DEF FreshInv
<1> HIDE DEF n
<1>4. Fresh(n + 1) /\ stop[n] = "none" /\ n # Prepared
  BY <1>2, <1>3, PreparedIsSession, SessionsAreNumbers DEF Fresh
<1> QED  BY <1>2, <1>3, <1>4 DEF n

\* A step keeps the shape of the attempt's variables.
LEMMA TypeStep ==
    ASSUME AttemptTypeOK, FreshInv, [AttemptNext]_attemptVars
    PROVE  AttemptTypeOK'
<1> USE AttemptAssumption, PreparedIsSession
    DEF AttemptTypeOK, FreshInv, GiveUp, EndAtOnce, Close, Return, NextRun, Stage, Asked, Fault,
        MoreFaults, Record, Quarantine, AwaitStop, control, clocks, loop, provider, ledger
<1>1. CASE AttemptStep
  <2>1. CASE Start \/ Provision \/ ProvisionFails
    BY <2>1 DEF Start, Provision, ProvisionFails
  <2>2. CASE Acquire \/ ValidateDependencies \/ InstallOffline \/ PrepareWorkspaces
    BY <2>2 DEF Acquire, ValidateDependencies, InstallOffline, PrepareWorkspaces
  <2>3. CASE OpenNetwork \/ Fetch \/ LockNetwork
    BY <2>3 DEF OpenNetwork, Fetch, LockNetwork
  <2>4. CASE CollectEnvironmentFails \/ Discard \/ HandOver
    BY <2>4 DEF CollectEnvironmentFails, Discard, HandOver
  <2>5. CASE TakeSnapshot \/ TakeSnapshotFails
    BY <2>5 DEF TakeSnapshot, TakeSnapshotFails
  <2>6. CASE CreateSession
    BY <2>6, SessionIsThere DEF CreateSession
  <2>7. CASE CreateSessionFails
    BY <2>7 DEF CreateSessionFails
  <2>8. CASE RunReturns
    BY <2>8 DEF RunReturns, EndRun
  <2>9. CASE \E kind \in RunErrors : RunFails(kind)
    BY <2>9 DEF RunFails, EndRun, RunErrors
  <2>10. CASE StopSession
    BY <2>10 DEF StopSession
  <2>11. CASE CloseSession \/ ExecutionResultFails \/ Prove
    BY <2>11 DEF CloseSession, ExecutionResultFails, Prove
  <2>12. CASE DeleteSnapshot \/ DeleteSnapshotFails
    BY <2>12 DEF DeleteSnapshot, DeleteSnapshotFails
  <2> QED
    BY <1>1, <2>1, <2>2, <2>3, <2>4, <2>5, <2>6, <2>7, <2>8, <2>9, <2>10, <2>11, <2>12 DEF AttemptStep
<1>2. CASE AttemptEvent \/ Stopping
  <2>1. CASE Cancel \/ RunnerTimerFires \/ CoordinatorTimerFires
    BY <2>1 DEF Cancel, RunnerTimerFires, CoordinatorTimerFires, StopListened, Listening
  <2>2. CASE ListenerRecords \/ AttemptTick
    BY <2>2 DEF ListenerRecords, AttemptTick, Listening
  <2>3. CASE \E s \in Sessions : SandboxEnds(s)
    BY <2>3 DEF SandboxEnds
  <2>4. CASE \E s \in Sessions : StopSettles(s)
    BY <2>4 DEF StopSettles
  <2> QED  BY <1>2, <2>1, <2>2, <2>3, <2>4 DEF AttemptEvent, Stopping
<1>3. CASE UNCHANGED attemptVars
  BY <1>3 DEF attemptVars
<1> QED  BY <1>1, <1>2, <1>3 DEF AttemptNext

\* A step keeps the sandboxes of the runs to come fresh.
LEMMA FreshStep ==
    ASSUME AttemptTypeOK, FreshInv, [AttemptNext]_attemptVars
    PROVE  FreshInv'
<1> USE AttemptAssumption, PreparedIsSession, SessionsAreNumbers
    DEF AttemptTypeOK, FreshInv, Fresh, Preparing, Aborted, RunnerAborted, GiveUp, EndAtOnce,
        Close, Return, NextRun, Stage, Asked, control, clocks, loop, provider, ledger
<1> DEFINE n == SessionOf(index, retries)
<1>0. /\ n \in Nat /\ n > Prepared
      /\ SessionOf(index + 1, 0) > n
      /\ SessionOf(index, retries + 1) = n + 1
      /\ index \in Nat /\ current \in Nat
      /\ SessionOf(index + 1, 0) \in Nat
  <2>1. index \in Nat /\ 0 \in 0..MaxProviderRetries
    OBVIOUS
  <2> QED  BY <2>1, SessionOrder
<1>1. CASE AttemptStep
  <2>1. CASE Start \/ Provision \/ ProvisionFails
    BY <2>1, <1>0 DEF Start, Provision, ProvisionFails
  <2>2. CASE Acquire \/ ValidateDependencies \/ InstallOffline \/ PrepareWorkspaces
    BY <2>2 DEF Acquire, ValidateDependencies, InstallOffline, PrepareWorkspaces
  <2>3. CASE OpenNetwork \/ Fetch \/ LockNetwork
    BY <2>3 DEF OpenNetwork, Fetch, LockNetwork
  <2>4. CASE CollectEnvironmentFails \/ Discard \/ HandOver
    BY <2>4 DEF CollectEnvironmentFails, Discard, HandOver
  <2>5. CASE TakeSnapshot \/ TakeSnapshotFails
    BY <2>5, SessionOrder, SMTT(60) DEF TakeSnapshot, TakeSnapshotFails
  <2>6. CASE CreateSession
    BY <2>6, SessionIsThere DEF CreateSession
  <2>7. CASE CreateSessionFails
    BY <2>7, <1>0 DEF CreateSessionFails
  <2>8. CASE RunReturns
    BY <2>8, <1>0 DEF RunReturns, EndRun, AbortedError
  <2>9. CASE \E kind \in RunErrors : RunFails(kind)
    BY <2>9, <1>0 DEF RunFails, EndRun, RunErrors, AbortedError
  <2>10. CASE StopSession
    BY <2>10 DEF StopSession
  <2>11. CASE CloseSession \/ ExecutionResultFails \/ Prove
    BY <2>11 DEF CloseSession, ExecutionResultFails, Prove
  <2>12. CASE DeleteSnapshot \/ DeleteSnapshotFails
    BY <2>12 DEF DeleteSnapshot, DeleteSnapshotFails
  <2> QED
    BY <1>1, <2>1, <2>2, <2>3, <2>4, <2>5, <2>6, <2>7, <2>8, <2>9, <2>10, <2>11, <2>12 DEF AttemptStep
<1>2. CASE AttemptEvent \/ Stopping
  <2>1. CASE Cancel \/ RunnerTimerFires \/ CoordinatorTimerFires
    BY <2>1, <1>0 DEF Cancel, RunnerTimerFires, CoordinatorTimerFires, StopListened, Listening
  <2>2. CASE ListenerRecords \/ AttemptTick
    BY <2>2 DEF ListenerRecords, AttemptTick, Listening
  <2>3. CASE \E s \in Sessions : SandboxEnds(s)
    BY <2>3 DEF SandboxEnds
  <2>4. CASE \E s \in Sessions : StopSettles(s)
    BY <2>4 DEF StopSettles
  <2> QED  BY <1>2, <2>1, <2>2, <2>3, <2>4 DEF AttemptEvent, Stopping
<1>3. CASE UNCHANGED attemptVars
  BY <1>3 DEF attemptVars
<1> QED  BY <1>1, <1>2, <1>3 DEF AttemptNext

\* A step leaves nothing up that is neither recorded nor in care.
LEMMA CareStep ==
    ASSUME AttemptTypeOK, FreshInv, CareInv, [AttemptNext]_attemptVars
    PROVE  CareInv'
<1> USE AttemptAssumption, PreparedIsSession
    DEF AttemptTypeOK, FreshInv, Fresh, CareInv, InCare, Owning, Holding, Preparing, GiveUp, EndAtOnce,
        Close, Return, NextRun, Stage, Asked, Settled, Fault, Record, Quarantine, AwaitStop,
        control, clocks, loop, provider, ledger
<1>1. CASE AttemptStep
  <2>1. CASE Start \/ Provision \/ ProvisionFails
    BY <2>1 DEF Start, Provision, ProvisionFails
  <2>2. CASE Acquire \/ ValidateDependencies \/ InstallOffline \/ PrepareWorkspaces
    BY <2>2 DEF Acquire, ValidateDependencies, InstallOffline, PrepareWorkspaces
  <2>3. CASE OpenNetwork \/ Fetch \/ LockNetwork
    BY <2>3 DEF OpenNetwork, Fetch, LockNetwork
  <2>4. CASE CollectEnvironmentFails \/ Discard \/ HandOver
    BY <2>4 DEF CollectEnvironmentFails, Discard, HandOver
  <2>5. CASE TakeSnapshot \/ TakeSnapshotFails
    BY <2>5 DEF TakeSnapshot, TakeSnapshotFails
  <2>6. CASE CreateSession
    BY <2>6, SessionIsThere DEF CreateSession
  <2>7. CASE CreateSessionFails
    BY <2>7 DEF CreateSessionFails
  <2>8. CASE RunReturns
    BY <2>8 DEF RunReturns, EndRun
  <2>9. CASE \E kind \in RunErrors : RunFails(kind)
    BY <2>9 DEF RunFails, EndRun, RunErrors
  <2>10. CASE StopSession
    BY <2>10 DEF StopSession
  <2>11. CASE CloseSession \/ ExecutionResultFails \/ Prove
    BY <2>11 DEF CloseSession, ExecutionResultFails, Prove
  <2>12. CASE DeleteSnapshot \/ DeleteSnapshotFails
    BY <2>12 DEF DeleteSnapshot, DeleteSnapshotFails
  <2> QED
    BY <1>1, <2>1, <2>2, <2>3, <2>4, <2>5, <2>6, <2>7, <2>8, <2>9, <2>10, <2>11, <2>12 DEF AttemptStep
<1>2. CASE AttemptEvent \/ Stopping
  <2>1. CASE Cancel \/ RunnerTimerFires \/ CoordinatorTimerFires
    BY <2>1 DEF Cancel, RunnerTimerFires, CoordinatorTimerFires, StopListened, Listening
  <2>2. CASE ListenerRecords \/ AttemptTick
    BY <2>2 DEF ListenerRecords, AttemptTick, Listening
  <2>3. CASE \E s \in Sessions : SandboxEnds(s)
    BY <2>3 DEF SandboxEnds
  <2>4. CASE \E s \in Sessions : StopSettles(s)
    BY <2>4 DEF StopSettles
  <2> QED  BY <1>2, <2>1, <2>2, <2>3, <2>4 DEF AttemptEvent, Stopping
<1>3. CASE UNCHANGED attemptVars
  BY <1>3 DEF attemptVars
<1> QED  BY <1>1, <1>2, <1>3 DEF AttemptNext

----------------------------------------------------------------------------
(* What is recorded has been asked to stop, and stays gone once removed.   *)

\* A recorded sandbox has been asked to stop; a recorded snapshot was taken, and
\* nothing follows its clean-up but the proof.
RecordInv ==
    /\ quarantined \subseteq Resources
    /\ \A s \in Sessions : s \in quarantined => Settled(s)
    /\ Snapshot \in quarantined => pc \in {"proof", "done"} /\ snapshot # "none"

\* A stop that settled stays so: nothing asks twice.
LEMMA SettledStays ==
    ASSUME AttemptTypeOK, [AttemptNext]_attemptVars, NEW s \in Sessions, Settled(s)
    PROVE  Settled(s)'
<1> USE PreparedIsSession
    DEF AttemptTypeOK, GiveUp, EndAtOnce, Close, Return, NextRun, Stage, Asked, Settled,
        control, clocks, loop, provider, ledger
<1>1. CASE AttemptStep
  <2>1. CASE Start \/ Provision \/ ProvisionFails \/ Discard \/ HandOver
    BY <2>1 DEF Start, Provision, ProvisionFails, Discard, HandOver
  <2>2. CASE Acquire \/ ValidateDependencies \/ InstallOffline \/ PrepareWorkspaces
    BY <2>2 DEF Acquire, ValidateDependencies, InstallOffline, PrepareWorkspaces
  <2>3. CASE OpenNetwork \/ Fetch \/ LockNetwork \/ CollectEnvironmentFails
    BY <2>3 DEF OpenNetwork, Fetch, LockNetwork, CollectEnvironmentFails
  <2>4. CASE TakeSnapshot \/ TakeSnapshotFails
    BY <2>4 DEF TakeSnapshot, TakeSnapshotFails
  <2>5. CASE CreateSession \/ CreateSessionFails
    BY <2>5 DEF CreateSession, CreateSessionFails
  <2>6. CASE RunReturns \/ \E kind \in RunErrors : RunFails(kind)
    BY <2>6 DEF RunReturns, RunFails, EndRun
  <2>7. CASE StopSession \/ CloseSession \/ ExecutionResultFails \/ Prove \/ DeleteSnapshot \/ DeleteSnapshotFails
    BY <2>7 DEF StopSession, CloseSession, ExecutionResultFails, Prove, DeleteSnapshot, DeleteSnapshotFails
  <2> QED  BY <1>1, <2>1, <2>2, <2>3, <2>4, <2>5, <2>6, <2>7 DEF AttemptStep
<1>2. CASE AttemptEvent \/ Stopping
  BY <1>2 DEF AttemptEvent, Stopping, Cancel, RunnerTimerFires, CoordinatorTimerFires,
              StopListened, ListenerRecords, SandboxEnds, AttemptTick, StopSettles
<1>3. CASE UNCHANGED attemptVars
  BY <1>3 DEF attemptVars
<1> QED  BY <1>1, <1>2, <1>3 DEF AttemptNext

\* What a step may add to the record: a sandbox whose stop settled, or the snapshot
\* at the very end.
Recorded ==
    \/ quarantined' = quarantined
    \/ \E s \in Sessions : Settled(s) /\ quarantined' = quarantined \cup {s}
    \/ /\ pc' \in {"proof", "done"} /\ snapshot' # "none"
       /\ quarantined' = quarantined \cup {Snapshot}

LEMMA RecordMoves ==
    ASSUME AttemptTypeOK, [AttemptNext]_attemptVars
    PROVE  Recorded
<1>1. CASE AttemptStep
  <2>1. CASE Start \/ Provision \/ ProvisionFails
    BY <2>1 DEF Recorded, Start, Provision, ProvisionFails, ledger
  <2>2. CASE Acquire \/ ValidateDependencies \/ InstallOffline \/ PrepareWorkspaces
    BY <2>2 DEF Recorded, Acquire, ValidateDependencies, InstallOffline, PrepareWorkspaces, Stage,
                ledger
  <2>3. CASE OpenNetwork \/ Fetch \/ LockNetwork \/ CollectEnvironmentFails \/ HandOver
    BY <2>3 DEF Recorded, OpenNetwork, Fetch, LockNetwork, CollectEnvironmentFails, HandOver, ledger
  <2>4. CASE TakeSnapshot \/ TakeSnapshotFails \/ CreateSession \/ CreateSessionFails
    BY <2>4 DEF Recorded, TakeSnapshot, TakeSnapshotFails, CreateSession, CreateSessionFails, ledger
  <2>5. CASE RunReturns \/ \E kind \in RunErrors : RunFails(kind)
    BY <2>5 DEF Recorded, RunReturns, RunFails, ledger
  <2>6. CASE ExecutionResultFails \/ Prove \/ DeleteSnapshot
    BY <2>6 DEF Recorded, ExecutionResultFails, Prove, DeleteSnapshot, ledger
  <2>7. CASE Discard
    <3>1. Settled(Prepared) /\ (quarantined' = quarantined \/ quarantined' = quarantined \cup {Prepared})
      BY <2>7 DEF Discard, Record
    <3> QED  BY <3>1, PreparedIsSession DEF Recorded
  <2>8. ASSUME NEW s \in Sessions, AwaitStop(s) PROVE Recorded
    BY <2>8 DEF Recorded, AwaitStop, Quarantine, Record, ledger
  <2>9. CASE StopSession
    BY <2>8, <2>9 DEF StopSession, AttemptTypeOK
  <2>10. CASE CloseSession
    BY <2>8, <2>10, PreparedIsSession DEF CloseSession
  <2>11. CASE DeleteSnapshotFails
    <3>1. quarantined' = quarantined \/ quarantined' = quarantined \cup {Snapshot}
      BY <2>11 DEF DeleteSnapshotFails, Quarantine, Record
    <3>2. pc' \in {"proof", "done"} /\ snapshot' # "none"
      BY <2>11 DEF DeleteSnapshotFails, Return, EndAtOnce
    <3> QED  BY <3>1, <3>2 DEF Recorded
  <2> QED
    BY <1>1, <2>1, <2>2, <2>3, <2>4, <2>5, <2>6, <2>7, <2>9, <2>10, <2>11 DEF AttemptStep
<1>2. CASE AttemptEvent \/ Stopping
  <2>1. CASE ListenerRecords
    <3>1. PICK s \in Listening : stop[s] = "failed" /\ quarantined' = quarantined \cup {s}
      BY <2>1 DEF ListenerRecords
    <3>2. s \in Sessions
      BY PreparedIsSession DEF Listening, AttemptTypeOK
    <3> QED  BY <3>1, <3>2 DEF Recorded, Settled
  <2>2. CASE ~ListenerRecords
    BY <1>2, <2>2 DEF Recorded, AttemptEvent, Stopping, Cancel, RunnerTimerFires,
                      CoordinatorTimerFires, SandboxEnds, AttemptTick, StopSettles, ledger
  <2> QED  BY <2>1, <2>2
<1>3. CASE UNCHANGED attemptVars
  BY <1>3 DEF Recorded, attemptVars, ledger
<1> QED  BY <1>1, <1>2, <1>3 DEF AttemptNext

\* The end is not left, and a snapshot that was taken is never "none" again.
LEMMA EndStays ==
    ASSUME [AttemptNext]_attemptVars, pc \in {"proof", "done"}, snapshot # "none"
    PROVE  pc' \in {"proof", "done"} /\ snapshot' # "none"
<1> USE DEF control, clocks, loop, provider, ledger
<1>1. CASE AttemptStep
  <2>1. ExecutionResultFails \/ Prove
    BY <1>1 DEF AttemptStep, Start, Provision, ProvisionFails, Acquire, ValidateDependencies,
                InstallOffline, PrepareWorkspaces, Stage, OpenNetwork, Fetch, LockNetwork,
                CollectEnvironmentFails, Discard, HandOver, TakeSnapshot, TakeSnapshotFails,
                CreateSession, CreateSessionFails, RunReturns, RunFails, StopSession, CloseSession,
                DeleteSnapshot, DeleteSnapshotFails
  <2> QED  BY <2>1 DEF ExecutionResultFails, Prove, EndAtOnce
<1>2. CASE AttemptEvent \/ Stopping
  BY <1>2 DEF AttemptEvent, Stopping, Cancel, RunnerTimerFires, CoordinatorTimerFires,
              ListenerRecords, SandboxEnds, AttemptTick, StopSettles
<1>3. CASE UNCHANGED attemptVars
  BY <1>3 DEF attemptVars
<1> QED  BY <1>1, <1>2, <1>3 DEF AttemptNext

LEMMA RecordStep ==
    ASSUME AttemptTypeOK, RecordInv, [AttemptNext]_attemptVars
    PROVE  RecordInv'
<1>1. Recorded
  BY RecordMoves
<1>2. quarantined' \subseteq Resources
  BY <1>1 DEF Recorded, RecordInv, Resources
<1>3. ASSUME NEW s \in Sessions, s \in quarantined' PROVE Settled(s)'
  BY <1>1, <1>3, SettledStays, PreparedIsSession DEF Recorded, RecordInv
<1>4. ASSUME Snapshot \in quarantined' PROVE pc' \in {"proof", "done"} /\ snapshot' # "none"
  <2>1. CASE Snapshot \in quarantined
    BY <2>1, EndStays DEF RecordInv
  <2>2. CASE Snapshot \notin quarantined
    BY <1>1, <1>4, <2>2, PreparedIsSession DEF Recorded
  <2> QED  BY <2>1, <2>2
<1> QED  BY <1>2, <1>3, <1>4 DEF RecordInv

\* What was recorded and is gone does not come back: every sandbox that is made is
\* one nobody asked to stop yet, and no snapshot is taken after one was cleaned up.
LEMMA GoneStaysGone ==
    ASSUME AttemptTypeOK, FreshInv, RecordInv, [AttemptNext]_attemptVars,
           NEW r \in quarantined, ~Live(r)
    PROVE  ~Live(r)'
<1> USE AttemptAssumption, PreparedIsSession
    DEF AttemptTypeOK, FreshInv, Fresh, RecordInv, Resources, Live, Preparing, GiveUp, EndAtOnce,
        Close, Return, NextRun, Stage, Settled, control, clocks, loop, provider, ledger
<1>1. CASE AttemptStep
  <2>1. CASE Start \/ Provision \/ ProvisionFails
    BY <2>1 DEF Start, Provision, ProvisionFails
  <2>2. CASE Acquire \/ ValidateDependencies \/ InstallOffline \/ PrepareWorkspaces
    BY <2>2 DEF Acquire, ValidateDependencies, InstallOffline, PrepareWorkspaces
  <2>3. CASE OpenNetwork \/ Fetch \/ LockNetwork
    BY <2>3 DEF OpenNetwork, Fetch, LockNetwork
  <2>4. CASE CollectEnvironmentFails \/ Discard \/ HandOver
    BY <2>4 DEF CollectEnvironmentFails, Discard, HandOver
  <2>5. CASE TakeSnapshot \/ TakeSnapshotFails
    BY <2>5 DEF TakeSnapshot, TakeSnapshotFails
  <2>6. CASE CreateSession \/ CreateSessionFails
    <3>1. SessionOf(index, retries) \in Sessions /\ stop[SessionOf(index, retries)] = "none"
      BY <2>6, SessionIsThere DEF CreateSession, CreateSessionFails
    <3> QED  BY <2>6, <3>1 DEF CreateSession, CreateSessionFails
  <2>7. CASE RunReturns \/ \E kind \in RunErrors : RunFails(kind)
    BY <2>7 DEF RunReturns, RunFails
  <2>8. CASE StopSession \/ CloseSession \/ ExecutionResultFails \/ Prove
    BY <2>8 DEF StopSession, CloseSession, ExecutionResultFails, Prove
  <2>9. CASE DeleteSnapshot \/ DeleteSnapshotFails
    BY <2>9 DEF DeleteSnapshot, DeleteSnapshotFails
  <2> QED
    BY <1>1, <2>1, <2>2, <2>3, <2>4, <2>5, <2>6, <2>7, <2>8, <2>9 DEF AttemptStep
<1>2. CASE AttemptEvent \/ Stopping
  BY <1>2 DEF AttemptEvent, Stopping, Cancel, RunnerTimerFires, CoordinatorTimerFires,
              ListenerRecords, SandboxEnds, AttemptTick, StopSettles
<1>3. CASE UNCHANGED attemptVars
  BY <1>3 DEF attemptVars
<1> QED  BY <1>1, <1>2, <1>3 DEF AttemptNext

----------------------------------------------------------------------------
(* One sandbox at a time, and a clean status that is true.                 *)

\* The sandbox the attempt is at work with, or waits for to be gone.
AtWork ==
    IF pc \in Preparing \cup {"snapshotting", "closing", "discarding"} THEN {Prepared}
    ELSE IF pc \in {"running", "stopping"} THEN {current} ELSE {}

\* Any other sandbox is down, or the provider failed to stop it; and in an attempt
\* that goes on to a proof the latter is not called clean.
AloneInv ==
    faults = 0 =>
        /\ snapshot # "lost"
        /\ snapshot = "held" =>
              \/ pc \in Holding
              \/ outcome # "PROOF" /\ pc # "proof"
              \/ cleanup = "quarantined"
        /\ \A s \in Sessions :
              box[s] = "up" =>
                  /\ stop[s] # "done"
                  /\ s \in AtWork \/ stop[s] = "failed"
                  /\ \/ s \in AtWork
                     \/ outcome # "PROOF" /\ pc \in {"discarding", "done"}
                     \/ cleanup = "quarantined"

LEMMA AloneStep ==
    ASSUME AttemptTypeOK, FreshInv, AloneInv, ErrorInv, NetworkInv, cleanup \in {"clean", "quarantined"},
           [AttemptNext]_attemptVars
    PROVE  AloneInv' /\ cleanup' \in {"clean", "quarantined"}
<1> USE AttemptAssumption, PreparedIsSession
    DEF AttemptTypeOK, FreshInv, Fresh, AloneInv, AtWork, ErrorInv, Holding, Preparing, GiveUp,
        EndAtOnce, Close, Return, NextRun, Stage, Asked, Settled, Fault, Quarantine,
        AwaitStop, control, clocks, loop, provider, ledger
<1>1. CASE AttemptStep
  <2>1. CASE Start \/ Provision \/ ProvisionFails
    BY <2>1 DEF Start, Provision, ProvisionFails, NetworkInv
  <2>2. CASE Acquire \/ ValidateDependencies \/ InstallOffline \/ PrepareWorkspaces
    BY <2>2, ReportedIsExplained DEF Acquire, ValidateDependencies, InstallOffline, PrepareWorkspaces
  <2>3. CASE OpenNetwork \/ Fetch \/ LockNetwork
    BY <2>3, ReportedIsExplained DEF OpenNetwork, Fetch, LockNetwork
  <2>4. CASE CollectEnvironmentFails \/ Discard \/ HandOver
    BY <2>4, ReportedIsExplained DEF CollectEnvironmentFails, Discard, HandOver
  <2>5. CASE TakeSnapshot \/ TakeSnapshotFails
    BY <2>5 DEF TakeSnapshot, TakeSnapshotFails
  <2>6. CASE CreateSession
    <3>1. SessionOf(index, retries) \in Sessions /\ stop[SessionOf(index, retries)] = "none"
      BY <2>6, SessionOrder, SessionsAreNumbers DEF CreateSession
    <3> QED  BY <2>6, <3>1 DEF CreateSession
  <2>7. CASE CreateSessionFails
    BY <2>7 DEF CreateSessionFails
  <2>8. CASE RunReturns
    BY <2>8 DEF RunReturns, EndRun
  <2>9. CASE \E kind \in RunErrors : RunFails(kind)
    BY <2>9 DEF RunFails, EndRun, RunErrors
  <2>10. CASE StopSession
    BY <2>10 DEF StopSession
  <2>11. CASE CloseSession \/ ExecutionResultFails \/ Prove
    BY <2>11 DEF CloseSession, ExecutionResultFails, Prove
  <2>12. CASE DeleteSnapshot \/ DeleteSnapshotFails
    BY <2>12 DEF DeleteSnapshot, DeleteSnapshotFails
  <2> QED
    BY <1>1, <2>1, <2>2, <2>3, <2>4, <2>5, <2>6, <2>7, <2>8, <2>9, <2>10, <2>11, <2>12 DEF AttemptStep
<1>2. CASE AttemptEvent \/ Stopping
  <2>1. CASE Cancel \/ RunnerTimerFires \/ CoordinatorTimerFires
    BY <2>1 DEF Cancel, RunnerTimerFires, CoordinatorTimerFires, StopListened, Listening
  <2>2. CASE ListenerRecords \/ AttemptTick
    BY <2>2 DEF ListenerRecords, AttemptTick, Listening
  <2>3. CASE \E s \in Sessions : SandboxEnds(s)
    BY <2>3 DEF SandboxEnds
  <2>4. CASE \E s \in Sessions : StopSettles(s)
    BY <2>4 DEF StopSettles
  <2> QED  BY <1>2, <2>1, <2>2, <2>3, <2>4 DEF AttemptEvent, Stopping
<1>3. CASE UNCHANGED attemptVars
  BY <1>3 DEF attemptVars
<1> QED  BY <1>1, <1>2, <1>3 DEF AttemptNext

\* A step that records a result does so in order, before any abort, and from a
\* sandbox that nobody has asked to stop.
LEMMA ResultIsFresh ==
    ASSUME FreshInv, [AttemptNext]_attemptVars, values' # values
    PROVE  values' = values + 1 /\ values = index /\ ~Aborted /\ stop[current] = "none"
<1> USE DEF control, clocks, loop, provider, ledger, Stage
<1>1. CASE RunReturns
  BY <1>1 DEF RunReturns, FreshInv
<1>2. CASE AttemptStep /\ ~RunReturns
  BY <1>2 DEF AttemptStep, Start, Provision, ProvisionFails, Acquire, ValidateDependencies,
       OpenNetwork, Fetch, LockNetwork, InstallOffline, PrepareWorkspaces,
       CollectEnvironmentFails, Discard, HandOver, TakeSnapshot, TakeSnapshotFails,
       CreateSession, CreateSessionFails, RunFails, StopSession, CloseSession,
       DeleteSnapshot, DeleteSnapshotFails, ExecutionResultFails, Prove
<1>3. CASE AttemptEvent \/ Stopping
  BY <1>3 DEF AttemptEvent, Stopping, Cancel, RunnerTimerFires, CoordinatorTimerFires,
              ListenerRecords, SandboxEnds, AttemptTick, StopSettles
<1>4. CASE UNCHANGED attemptVars
  BY <1>4 DEF attemptVars
<1> QED  BY <1>1, <1>2, <1>3, <1>4 DEF AttemptNext

----------------------------------------------------------------------------
(* The attempt and its operators together.                                 *)

\* Operators work on what was recorded; what is resolved, or about to be recorded
\* as resolved, is gone.
OperatorInv ==
    /\ operators \in [Operators -> [pc: {"idle", "deleting", "recording"},
                                    resource: Resources \cup {NoResource}]]
    /\ resolved \subseteq quarantined
    /\ \A r \in resolved : ~Live(r)
    /\ \A o \in Operators :
          /\ operators[o].pc # "idle" => operators[o].resource \in quarantined
          /\ operators[o].pc = "recording" => ~Live(operators[o].resource)

\* The inductive invariant.
QuarantineInv ==
    /\ NetworkInv
    /\ OutcomeInv /\ error \in Errors \cup {"NONE"}
    /\ LeakInv
    /\ RecordInv
    /\ AloneInv /\ cleanup \in {"clean", "quarantined"}
    /\ OperatorInv

\* What operators do to the attempt's variables: a recorded resource may go.
Removing ==
    /\ UNCHANGED <<pc, control, clocks, loop, stop, network, ledger, error, outcome, faults>>
    /\ UNCHANGED <<box, snapshot>> \/ \E r \in quarantined : Removed(r)

LEMMA OperatorsOnlyRemove ==
    ASSUME OperatorInv, NEW o \in Operators,
           \/ Lookup(o) \/ DeleteResource(o) \/ DeleteResourceFails(o)
           \/ RecordResolution(o) \/ OperatorFails(o)
    PROVE  Removing
BY DEF OperatorInv, Lookup, DeleteResource, DeleteResourceFails, RecordResolution, OperatorFails,
       Removing, attemptVars, provider

\* No invariant of the attempt minds that a recorded resource goes.
LEMMA RemovingKeeps ==
    ASSUME NetworkInv, OutcomeInv, LeakInv, RecordInv, AloneInv, Removing
    PROVE  /\ NetworkInv' /\ OutcomeInv' /\ LeakInv' /\ RecordInv' /\ AloneInv'
           /\ error' = error /\ cleanup' = cleanup
           /\ \A r \in Resources : Live(r)' => Live(r)
<1> USE PreparedIsSession DEF Removing, Removed, control, clocks, loop, ledger
<1>1. NetworkInv'
  BY DEF NetworkInv, RecordInv, Preparing
<1>2. OutcomeInv'
  BY DEF OutcomeInv, ErrorInv, OutcomeExplained, RunnerAborted, Preparing
<1>3. LeakInv'
  <2>1. AttemptTypeOK'
    BY DEF LeakInv, AttemptTypeOK, RecordInv, Resources
  <2>2. FreshInv'
    BY DEF LeakInv, FreshInv, Fresh, Aborted, RunnerAborted, Preparing
  <2>3. CareInv'
    BY DEF LeakInv, AttemptTypeOK, CareInv, InCare, Owning, Holding, Preparing, RecordInv, Resources
  <2> QED  BY <2>1, <2>2, <2>3 DEF LeakInv
<1>4. RecordInv'
  BY DEF RecordInv, Settled
<1>5. AloneInv'
  BY DEF LeakInv, AttemptTypeOK, AloneInv, AtWork, Holding, Preparing, RecordInv, Resources
<1>6. \A r \in Resources : Live(r)' => Live(r)
  BY DEF Live, Resources, LeakInv, AttemptTypeOK, RecordInv
<1> QED  BY <1>1, <1>2, <1>3, <1>4, <1>5, <1>6

\* A step of the attempt leaves the operators with resources that stay gone.
LEMMA AttemptKeepsOperators ==
    ASSUME QuarantineInv, [AttemptNext]_attemptVars, UNCHANGED <<resolved, operators>>
    PROVE  OperatorInv'
<1>1. quarantined \subseteq quarantined'
  BY DEF AttemptNext, AttemptStep, AttemptEvent, Stopping, attemptVars, Start, Provision, ProvisionFails,
       Acquire, ValidateDependencies, OpenNetwork, Fetch, LockNetwork, InstallOffline,
       PrepareWorkspaces, CollectEnvironmentFails, Discard, HandOver, TakeSnapshot,
       TakeSnapshotFails, CreateSession, CreateSessionFails, RunReturns, RunFails, StopSession,
       CloseSession, DeleteSnapshot, DeleteSnapshotFails, ExecutionResultFails, Prove, Cancel, RunnerTimerFires,
       CoordinatorTimerFires, ListenerRecords, SandboxEnds, AttemptTick, StopSettles, Stage,
       AwaitStop, Quarantine, Record, ledger
<1>2. \A r \in quarantined : ~Live(r) => ~Live(r)'
  BY GoneStaysGone DEF QuarantineInv, LeakInv
<1> QED  BY <1>1, <1>2 DEF QuarantineInv, OperatorInv

\* An operator removes a resource before it records the resolution.
LEMMA OperatorStep ==
    ASSUME QuarantineInv, NEW o \in Operators,
           \/ Lookup(o) \/ DeleteResource(o) \/ DeleteResourceFails(o)
           \/ RecordResolution(o) \/ OperatorFails(o)
    PROVE  OperatorInv'
<1>1. Removing
  BY OperatorsOnlyRemove DEF QuarantineInv
<1>2. /\ quarantined' = quarantined
      /\ \A r \in Resources : Live(r)' => Live(r)
  BY <1>1, RemovingKeeps DEF QuarantineInv, Removing, ledger
<1>3. quarantined \subseteq Resources
  BY DEF QuarantineInv, RecordInv
<1> USE <1>2, <1>3 DEF QuarantineInv, OperatorInv, Operator, IdleOperator
<1>4. CASE Lookup(o)
  BY <1>4 DEF Lookup, Open
<1>5. CASE DeleteResource(o)
  <2>1. ~Live(operators[o].resource)'
    BY <1>5 DEF DeleteResource, Removed, Live, LeakInv, AttemptTypeOK, RecordInv, Resources
  <2> QED  BY <1>5, <2>1 DEF DeleteResource
<1>6. CASE DeleteResourceFails(o) \/ OperatorFails(o)
  BY <1>6 DEF DeleteResourceFails, OperatorFails
<1>7. CASE RecordResolution(o)
  BY <1>7 DEF RecordResolution
<1> QED  BY <1>4, <1>5, <1>6, <1>7

LEMMA QuarantineStep == QuarantineInv /\ [QuarantineNext]_quarantineVars => QuarantineInv'
<1> SUFFICES ASSUME QuarantineInv, [QuarantineNext]_quarantineVars PROVE QuarantineInv'
  OBVIOUS
<1>1. CASE [AttemptNext]_attemptVars /\ UNCHANGED <<resolved, operators>>
  <2>1. OperatorInv'
    BY <1>1, AttemptKeepsOperators
  <2>2. LeakInv'
    BY <1>1, TypeStep, FreshStep, CareStep DEF QuarantineInv, LeakInv
  <2>3. NetworkInv' /\ OutcomeInv' /\ error' \in Errors \cup {"NONE"}
    BY <1>1, NetworkStep, OutcomeStep DEF QuarantineInv
  <2>4. RecordInv' /\ AloneInv' /\ cleanup' \in {"clean", "quarantined"}
    BY <1>1, RecordStep, AloneStep DEF QuarantineInv, LeakInv, OutcomeInv
  <2> QED  BY <2>1, <2>2, <2>3, <2>4 DEF QuarantineInv
<1>2. ASSUME NEW o \in Operators,
             \/ Lookup(o) \/ DeleteResource(o) \/ DeleteResourceFails(o)
             \/ RecordResolution(o) \/ OperatorFails(o)
      PROVE  QuarantineInv'
  <2>1. OperatorInv'
    BY <1>2, OperatorStep
  <2>2. Removing
    BY <1>2, OperatorsOnlyRemove DEF QuarantineInv
  <2> QED  BY <2>1, <2>2, RemovingKeeps DEF QuarantineInv
<1> QED  BY <1>1, <1>2 DEF QuarantineNext, quarantineVars

\* The inductive invariant of an attempt and its operators.
THEOREM QuarantineInvariant == QuarantineSpec => []QuarantineInv
<1>1. QuarantineInit => QuarantineInv
  <2> SUFFICES ASSUME QuarantineInit PROVE QuarantineInv
    OBVIOUS
  <2> USE DEF QuarantineInit, AttemptInit
  <2>1. NetworkInv
    BY DEF NetworkInv
  <2>2. OutcomeInv /\ error \in Errors \cup {"NONE"}
    BY DEF OutcomeInv, ErrorInv, OutcomeExplained, RunnerAborted
  <2>3. LeakInv
    <3>1. AttemptTypeOK
      BY AttemptAssumption, PreparedIsSession DEF AttemptTypeOK
    <3>2. FreshInv
      BY DEF FreshInv, Fresh, Preparing
    <3>3. CareInv
      BY DEF CareInv
    <3> QED  BY <3>1, <3>2, <3>3 DEF LeakInv
  <2>4. RecordInv
    BY DEF RecordInv
  <2>5. AloneInv /\ cleanup \in {"clean", "quarantined"}
    BY DEF AloneInv
  <2>6. OperatorInv
    BY DEF OperatorInv, IdleOperator
  <2> QED  BY <2>1, <2>2, <2>3, <2>4, <2>5, <2>6 DEF QuarantineInv
<1> QED  BY <1>1, QuarantineStep, PTL DEF QuarantineSpec

----------------------------------------------------------------------------
(* What follows.                                                           *)

\* Nothing of the repository runs and no snapshot is taken unless the network is
\* closed, whatever throws while it is opened and locked down.
THEOREM NetworkLockedDown == QuarantineSpec => []LockedDown
<1>1. QuarantineInv => LockedDown
  BY DEF QuarantineInv, NetworkInv, LockedDown, Coordinating
<1> QED  BY <1>1, QuarantineInvariant, PTL

\* A proof rests on all the runs; CANCELLED is said only of an attempt its caller
\* aborted, PROVIDER_INTERRUPTED only when no abort was behind it.
THEOREM AnswerExplained == QuarantineSpec => []OutcomeExplained
<1>1. QuarantineInv => OutcomeExplained
  BY DEF QuarantineInv, OutcomeInv
<1> QED  BY <1>1, QuarantineInvariant, PTL

\* When the attempt is over, whatever it created is gone or recorded, however
\* abort, timers, failed runs and failed stops fell together.
THEOREM AttemptLeavesNothing == QuarantineSpec => []NothingLeaks
<1>1. QuarantineInv => NothingLeaks
  BY DEF QuarantineInv, LeakInv, CareInv, InCare, Owning, Holding, Preparing, NothingLeaks, Live,
         Resources
<1> QED  BY <1>1, QuarantineInvariant, PTL

\* A retry or the next run waits for the last sandbox to be gone: at most one is up
\* that the provider did not fail to stop, whenever aborts and timers stop them.
THEOREM OneSandboxAtATime == QuarantineSpec => []OneSandbox
<1>1. ASSUME QuarantineInv, faults = 0
      PROVE  Cardinality({s \in Sessions : box[s] = "up" /\ stop[s] # "failed"}) <= 1
  <2> DEFINE U == {s \in Sessions : box[s] = "up" /\ stop[s] # "failed"}
  <2>1. U \subseteq AtWork
    BY <1>1 DEF QuarantineInv, AloneInv
  <2>2. \E s : U \subseteq {s}
    BY <2>1 DEF AtWork
  <2>3. PICK s : U \subseteq {s}
    BY <2>2
  <2> HIDE DEF U
  <2>4. IsFiniteSet({s}) /\ Cardinality({s}) = 1
    BY FS_Singleton
  <2>5. Cardinality(U) <= Cardinality({s})
    BY <2>3, <2>4, FS_Subset
  <2> QED  BY <2>4, <2>5 DEF U
<1>2. QuarantineInv => OneSandbox
  BY <1>1 DEF OneSandbox
<1> QED  BY <1>2, QuarantineInvariant, PTL

\* The cleanup status that goes into a proof's provenance is true: "clean" is said
\* only when the last sandbox and the snapshot are gone.
THEOREM CleanIsNotClaimedFalsely == QuarantineSpec => []CleanIsTrue
<1>1. QuarantineInv => CleanIsTrue
  <2> SUFFICES ASSUME QuarantineInv, outcome = "PROOF", cleanup = "clean", faults = 0,
                      NEW r \in Resources
               PROVE  ~Live(r)
    BY DEF CleanIsTrue
  <2>1. pc = "done"
    BY DEF QuarantineInv, OutcomeInv, ErrorInv
  <2> QED  BY <2>1 DEF QuarantineInv, AloneInv, AtWork, Holding, Preparing, Live, Resources
<1> QED  BY <1>1, QuarantineInvariant, PTL

\* A resolution is recorded only of what is gone, and it stays gone: other operators
\* and the attempt, which may still be at work, do not bring it back.
THEOREM ResolutionsAreTrue == QuarantineSpec => []ResolvedIsGone
<1>1. QuarantineInv => ResolvedIsGone
  BY DEF QuarantineInv, OperatorInv, ResolvedIsGone
<1> QED  BY <1>1, QuarantineInvariant, PTL

\* No result of an aborted run is recorded, whichever of the two timers or the
\* caller aborted it and whenever.
THEOREM ResultsAreFresh == QuarantineSpec => NoStaleResult
<1>1. QuarantineInv /\ [QuarantineNext]_quarantineVars =>
         [values' # values =>
            /\ values' = values + 1 /\ values = index
            /\ ~Aborted
            /\ stop[current] = "none"]_attemptVars
  <2> SUFFICES ASSUME QuarantineInv, [QuarantineNext]_quarantineVars, values' # values
               PROVE  /\ values' = values + 1 /\ values = index
                      /\ ~Aborted
                      /\ stop[current] = "none"
    OBVIOUS
  <2>1. [AttemptNext]_attemptVars
    <3>1. ASSUME NEW o \in Operators,
                 \/ Lookup(o) \/ DeleteResource(o) \/ DeleteResourceFails(o)
                 \/ RecordResolution(o) \/ OperatorFails(o)
          PROVE  FALSE
      BY <3>1, OperatorsOnlyRemove DEF QuarantineInv, Removing, loop
    <3> QED  BY <3>1 DEF QuarantineNext, quarantineVars
  <2> QED  BY <2>1, ResultIsFresh DEF QuarantineInv, LeakInv
<1> QED  BY <1>1, QuarantineInvariant, PTL DEF QuarantineSpec, NoStaleResult
=============================================================================
