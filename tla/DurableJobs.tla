---------------------------- MODULE DurableJobs -----------------------------
(***************************************************************************)
(* The durable job engine of one tenant: starting a reproduction, leasing  *)
(* it to a worker, executing it, completing, failing, retrying, cancelling *)
(* and recovering it.  The rows are those of the PostgreSQL schema; each   *)
(* repository operation is one serializable transaction, hence one action. *)
(* The queue consumer is a process that crosses several transactions, and  *)
(* each point where it waits is a program counter value, so a worker may   *)
(* be overtaken by any other actor between two of its steps.               *)
(*                                                                         *)
(* Time is kept as what is left of each deadline: a lease, a retry delay   *)
(* and a quota reservation hold the ticks until they lapse, and Tick lets  *)
(* one unit pass for all of them.  A reproduction is named by the start    *)
(* request that mints its case and job identifiers.                        *)
(***************************************************************************)
EXTENDS Integers, FiniteSets

CONSTANTS
    Requests,       \* start commands; r also names the job and case r mints
    Workers,        \* queue consumer processes
    KeyOf,          \* KeyOf[r]: the caller's idempotency key of command r
    HashOf,         \* HashOf[r]: the canonical hash of command r
    Verdicts,       \* case states an execution may report
    MaxAttempts,    \* jobs.max_attempts
    LeaseTicks,     \* length of a lease
    RetryTicks,     \* RetryTicks[n]: delay after attempt n failed
    QuotaTicks,     \* life of an active-jobs quota reservation
    ActiveJobLimit, \* limit of the active-jobs resource
    NoWorker,       \* lease_owner is NULL
    NoJob           \* a request or a worker that has no job

ASSUME MaxAttemptsAssumption == MaxAttempts \in Nat \ {0}
ASSUME TimingAssumption ==
    /\ LeaseTicks \in Nat \ {0}
    /\ QuotaTicks \in Nat \ {0}
    /\ RetryTicks \in [1..MaxAttempts -> Nat]
ASSUME LimitAssumption == ActiveJobLimit \in Nat
ASSUME NullAssumption == NoWorker \notin Workers /\ NoJob \notin Requests
ASSUME VerdictAssumption ==
    "ABSENT" \notin Verdicts /\ "DRAFT" \notin Verdicts /\ "CANCELLED" \notin Verdicts

VARIABLES
    tenant,   \* tenants.status
    requests, \* requests[r]: the start command r and its answer
    jobs,     \* jobs[j]: the row of table jobs
    cases,    \* cases[j]: the row of table cases
    quota,    \* quota[j]: the active-jobs row of table quota_ledger
    bundles,  \* cases that own an AVAILABLE bundle artifact
    intents,  \* outbox_events rows: <<j, 0>> asks for j, <<j, n>> for its
              \* recovery after attempt n
    audited,  \* audit_events rows of lease recoveries: <<j, n>>
    workers   \* workers[w]: the local state of consumer w

vars == <<tenant, requests, jobs, cases, quota, bundles, intents, audited, workers>>

----------------------------------------------------------------------------
(* Rows and their types.                                                   *)

Present(j) == jobs[j].state # "ABSENT"
Terminal(j) == jobs[j].state \in {"SUCCEEDED", "FAILED", "CANCELLED"}

NoJobRow ==
    [state |-> "ABSENT", attempt |-> 0, version |-> 0, owner |-> NoWorker,
     lease |-> 0, delay |-> 0, cancel |-> FALSE]

\* createJob and the INSERT of reserveInTransaction: next_attempt_at = createdAt.
NewJobRow ==
    [state |-> "QUEUED", attempt |-> 0, version |-> 1, owner |-> NoWorker,
     lease |-> 0, delay |-> 0, cancel |-> FALSE]

IdleWorker ==
    [pc |-> "idle", job |-> NoJob, attempt |-> 0, version |-> 0, outcome |-> "NONE"]

JobRow ==
    [state: {"ABSENT", "QUEUED", "RUNNING", "SUCCEEDED", "FAILED", "CANCELLED"},
     attempt: 0..MaxAttempts, version: Nat, owner: Workers \cup {NoWorker},
     lease: Nat, delay: Nat, cancel: BOOLEAN]

CaseRow ==
    [state: {"ABSENT", "DRAFT", "CANCELLED"} \cup Verdicts, version: Nat]

QuotaRow == [state: {"NONE", "RESERVED", "RELEASED", "EXPIRED"}, left: Nat]

WorkerPCs ==
    {"idle", "claimed", "loaded", "executing", "succeeded", "failed",
     "cancelling", "completing", "failing"}

WorkerState ==
    [pc: WorkerPCs, job: Requests \cup {NoJob}, attempt: 0..MaxAttempts,
     version: Nat, outcome: {"NONE", "RETRYABLE", "FATAL"} \cup Verdicts]

TypeOK ==
    /\ tenant \in {"ACTIVE", "SUSPENDED"}
    /\ requests \in [Requests -> [pc: {"new", "checked", "accepted", "conflict", "rejected"},
                                  job: Requests \cup {NoJob}]]
    /\ jobs \in [Requests -> JobRow]
    /\ cases \in [Requests -> CaseRow]
    /\ quota \in [Requests -> QuotaRow]
    /\ bundles \subseteq Requests
    /\ intents \subseteq Requests \X (0..MaxAttempts)
    /\ audited \subseteq Requests \X (0..MaxAttempts)
    /\ workers \in [Workers -> WorkerState]

Init ==
    /\ tenant = "ACTIVE"
    /\ requests = [r \in Requests |-> [pc |-> "new", job |-> NoJob]]
    /\ jobs = [j \in Requests |-> NoJobRow]
    /\ cases = [j \in Requests |-> [state |-> "ABSENT", version |-> 0]]
    /\ quota = [j \in Requests |-> [state |-> "NONE", left |-> 0]]
    /\ bundles = {}
    /\ intents = {}
    /\ audited = {}
    /\ workers = [w \in Workers |-> IdleWorker]

----------------------------------------------------------------------------
(* Shared pieces of the transactions.                                      *)

\* findByIdempotencyKey: the jobs recorded under the key of command r.
Existing(r) == {j \in Requests : Present(j) /\ KeyOf[j] = KeyOf[r]}

\* A fence that looks at the job alone.
OwnsMutant(w) ==
    LET j == workers[w].job IN j # NoJob /\ jobs[j].state = "RUNNING"

\* The WHERE clause every leased operation uses.  A lease is identified by its
\* owner, attempt and two timestamps; the attempt alone is new in each claim.
Owns(w) ==
    LET j == workers[w].job IN
    /\ j # NoJob
    /\ jobs[j].state = "RUNNING"
    /\ jobs[j].owner = w
    /\ jobs[j].attempt = workers[w].attempt

\* advanceCaseVersion and the case UPDATEs compare the version; when the two
\* rows disagree the transaction throws.
InStep(j) == cases[j].version = jobs[j].version

\* isCancellationRequested: false for a lease that is no longer held.
CancellationRequested(w) == Owns(w) /\ jobs[workers[w].job].cancel

\* The row of a job that stops running without being cancelled.
Unleased(row, state, delay) ==
    [state |-> state, attempt |-> row.attempt, version |-> row.version + 1,
     owner |-> NoWorker, lease |-> 0, delay |-> delay, cancel |-> row.cancel]

\* The row after cancellation of a queued or of a leased job.
CancelledRow(row) ==
    [state |-> "CANCELLED", attempt |-> row.attempt, version |-> row.version + 1,
     owner |-> NoWorker, lease |-> 0, delay |-> 0, cancel |-> TRUE]

BumpedCase(row) == [state |-> row.state, version |-> row.version + 1]
ClosedCase(row, state) == [state |-> state, version |-> row.version + 1]

\* A release that is forgotten.
ReleasedMutant(row) == row

\* releaseActiveJobQuota
Released(row) == IF row.state = "RESERVED" THEN [state |-> "RELEASED", left |-> 0] ELSE row

\* The quota ledger before it sums usage: lapsed reservations become EXPIRED.
Expired(row) ==
    IF row.state = "RESERVED" /\ row.left = 0 THEN [state |-> "EXPIRED", left |-> 0] ELSE row

LiveReservations == {j \in Requests : quota[j].state = "RESERVED" /\ quota[j].left > 0}

\* A limit that is off by one.
QuotaAvailableMutant == Cardinality(LiveReservations) <= ActiveJobLimit

QuotaAvailable == Cardinality(LiveReservations) + 1 <= ActiveJobLimit

Answer(r, pc, j) == requests' = [requests EXCEPT ![r] = [pc |-> pc, job |-> j]]

\* The stored command hash is not compared.
AnswerExistingMutant(r) == \E j \in Existing(r) : Answer(r, "accepted", j)

\* A command that finds its key taken gets that job, or a conflict when the
\* stored command hash differs.
AnswerExisting(r) ==
    \E j \in Existing(r) :
        IF HashOf[j] = HashOf[r] THEN Answer(r, "accepted", j) ELSE Answer(r, "conflict", NoJob)

----------------------------------------------------------------------------
(* Starting a reproduction.                                                *)

\* The look-up startRepositoryReproduction makes outside any transaction.
StartCheck(r) ==
    /\ requests[r].pc = "new"
    /\ IF Existing(r) # {} THEN AnswerExisting(r) ELSE Answer(r, "checked", NoJob)
    /\ UNCHANGED <<tenant, jobs, cases, quota, bundles, intents, audited, workers>>

\* startAdmission.assertAllowed throws.
AdmissionDenied(r) ==
    /\ requests[r].pc = "checked"
    /\ Answer(r, "rejected", NoJob)
    /\ UNCHANGED <<tenant, jobs, cases, quota, bundles, intents, audited, workers>>

\* The reservation finds no ACTIVE tenant, or no quota left: the unit of work
\* throws and rolls back, the lazy expiry of other reservations included.
ReserveRejected(r) ==
    /\ requests[r].pc = "checked"
    /\ \/ tenant # "ACTIVE"
       \/ Existing(r) = {} /\ ~QuotaAvailable
    /\ Answer(r, "rejected", NoJob)
    /\ UNCHANGED <<tenant, jobs, cases, quota, bundles, intents, audited, workers>>

\* Under the idempotency lock another command created the job meanwhile.
ReserveExisting(r) ==
    /\ requests[r].pc = "checked"
    /\ tenant = "ACTIVE"
    /\ Existing(r) # {}
    /\ AnswerExisting(r)
    /\ UNCHANGED <<tenant, jobs, cases, quota, bundles, intents, audited, workers>>

\* One transaction writes the case, the job, the key, the quota reservation
\* and the outbox event.
ReserveCreated(r) ==
    /\ requests[r].pc = "checked"
    /\ tenant = "ACTIVE"
    /\ Existing(r) = {}
    /\ QuotaAvailable
    /\ jobs' = [jobs EXCEPT ![r] = NewJobRow]
    /\ cases' = [cases EXCEPT ![r] = [state |-> "DRAFT", version |-> 1]]
    /\ quota' = [j \in Requests |->
                    IF j = r THEN [state |-> "RESERVED", left |-> QuotaTicks]
                    ELSE Expired(quota[j])]
    /\ intents' = intents \cup {<<r, 0>>}
    /\ Answer(r, "accepted", r)
    /\ UNCHANGED <<tenant, bundles, audited, workers>>

----------------------------------------------------------------------------
(* The queue consumer.                                                     *)

Worker(w, state) == workers' = [workers EXCEPT ![w] = state]

\* The consumer goes on with the lease it holds.
Continue(w, pc, version, outcome) ==
    Worker(w, [pc |-> pc, job |-> workers[w].job, attempt |-> workers[w].attempt,
               version |-> version, outcome |-> outcome])

\* A due QUEUED job, or a RUNNING one whose lease lapsed, with attempts left.
Claimable(j) ==
    /\ tenant = "ACTIVE"
    /\ jobs[j].attempt < MaxAttempts
    /\ \/ jobs[j].state = "QUEUED" /\ jobs[j].delay = 0
       \/ jobs[j].state = "RUNNING" /\ jobs[j].lease = 0

ClaimedRow(row, w) ==
    [state |-> "RUNNING", attempt |-> row.attempt + 1, version |-> row.version + 1,
     owner |-> w, lease |-> LeaseTicks, delay |-> row.delay, cancel |-> row.cancel]

\* A message for j reaches worker w and claimLease returns a lease.  A refused
\* claim is the outcome "ignored" and changes nothing.
ClaimLease(w, j) ==
    /\ workers[w].pc = "idle"
    /\ \E n \in 0..MaxAttempts : <<j, n>> \in intents
    /\ Claimable(j)
    /\ InStep(j)
    /\ jobs' = [jobs EXCEPT ![j] = ClaimedRow(@, w)]
    /\ cases' = [cases EXCEPT ![j] = BumpedCase(@)]
    /\ Worker(w, [pc |-> "claimed", job |-> j, attempt |-> ClaimedRow(jobs[j], w).attempt,
                  version |-> 0, outcome |-> "NONE"])
    /\ UNCHANGED <<tenant, requests, quota, bundles, intents, audited>>

\* The consumer reads the record it will later complete; its version is the
\* expected version of that completion.  A lease lost already throws.
FindByLease(w) ==
    /\ workers[w].pc = "claimed"
    /\ IF Owns(w) /\ InStep(workers[w].job)
       THEN Continue(w, "loaded", jobs[workers[w].job].version, "NONE")
       ELSE Worker(w, IdleWorker)
    /\ UNCHANGED <<tenant, requests, jobs, cases, quota, bundles, intents, audited>>

\* isCancellationRequested before the execution.
BeginExecute(w) ==
    /\ workers[w].pc = "loaded"
    /\ Continue(w, IF CancellationRequested(w) THEN "cancelling" ELSE "executing",
                workers[w].version, "NONE")
    /\ UNCHANGED <<tenant, requests, jobs, cases, quota, bundles, intents, audited>>

\* The worker returns a verdict.  A VERIFIED one has stored its bundle, lease
\* held or not: nothing fences the artifact store.
ExecuteSucceeds(w, v) ==
    /\ workers[w].pc = "executing"
    /\ Continue(w, "succeeded", workers[w].version, v)
    /\ bundles' = IF v = "VERIFIED" THEN bundles \cup {workers[w].job} ELSE bundles
    /\ UNCHANGED <<tenant, requests, jobs, cases, quota, intents, audited>>

\* The worker throws: an aborted or failed execution, or a failed bundle write.
\* workerFailure decides whether the error is worth a retry.
ExecuteFails(w, error) ==
    /\ workers[w].pc = "executing"
    /\ Continue(w, "failed", workers[w].version, error)
    /\ UNCHANGED <<tenant, requests, jobs, cases, quota, bundles, intents, audited>>

\* isCancellationRequested after the execution.
AfterExecute(w) ==
    /\ workers[w].pc \in {"succeeded", "failed"}
    /\ Continue(w, IF CancellationRequested(w) THEN "cancelling"
                   ELSE IF workers[w].pc = "succeeded" THEN "completing" ELSE "failing",
                workers[w].version, workers[w].outcome)
    /\ UNCHANGED <<tenant, requests, jobs, cases, quota, bundles, intents, audited>>

\* completeLease: the record read at the start must still be current, the lease
\* held, no cancellation requested, and a VERIFIED case must own its bundle.
\* Otherwise the transaction throws and writes nothing.
Completable(w) ==
    LET j == workers[w].job IN
    /\ Owns(w)
    /\ ~jobs[j].cancel
    /\ jobs[j].version = workers[w].version
    /\ cases[j].version = workers[w].version
    /\ workers[w].outcome = "VERIFIED" => j \in bundles

CompleteLease(w) ==
    LET j == workers[w].job IN
    /\ workers[w].pc = "completing"
    /\ IF Completable(w)
       THEN /\ jobs' = [jobs EXCEPT ![j] = Unleased(@, "SUCCEEDED", 0)]
            /\ cases' = [cases EXCEPT ![j] = ClosedCase(@, workers[w].outcome)]
            /\ quota' = [quota EXCEPT ![j] = Released(@)]
       ELSE UNCHANGED <<jobs, cases, quota>>
    /\ Worker(w, IdleWorker)
    /\ UNCHANGED <<tenant, requests, bundles, intents, audited>>

\* cancelLeaseInTransaction
CancelTransaction(j) ==
    /\ jobs' = [jobs EXCEPT ![j] = CancelledRow(@)]
    /\ cases' = [cases EXCEPT ![j] = ClosedCase(@, "CANCELLED")]
    /\ quota' = [quota EXCEPT ![j] = Released(@)]
    /\ UNCHANGED intents

CancelLease(w) ==
    /\ workers[w].pc = "cancelling"
    /\ IF CancellationRequested(w) /\ InStep(workers[w].job)
       THEN CancelTransaction(workers[w].job)
       ELSE UNCHANGED <<jobs, cases, quota, intents>>
    /\ Worker(w, IdleWorker)
    /\ UNCHANGED <<tenant, requests, bundles, audited>>

\* The retry is not announced in the outbox.
FailTransactionSilent(j, retryable, delay) ==
    \/ /\ jobs[j].cancel
       /\ CancelTransaction(j)
    \/ /\ ~jobs[j].cancel
       /\ retryable /\ jobs[j].attempt < MaxAttempts
       /\ jobs' = [jobs EXCEPT ![j] = Unleased(@, "QUEUED", delay)]
       /\ cases' = [cases EXCEPT ![j] = BumpedCase(@)]
       /\ UNCHANGED <<quota, intents>>

\* A requested cancellation is not looked at.
FailTransactionBlind(j, retryable, delay) ==
    \/ /\ retryable /\ jobs[j].attempt < MaxAttempts
       /\ jobs' = [jobs EXCEPT ![j] = Unleased(@, "QUEUED", delay)]
       /\ cases' = [cases EXCEPT ![j] = BumpedCase(@)]
       /\ intents' = intents \cup {<<j, jobs[j].attempt>>}
       /\ UNCHANGED quota
    \/ /\ ~(retryable /\ jobs[j].attempt < MaxAttempts)
       /\ jobs' = [jobs EXCEPT ![j] = Unleased(@, "FAILED", 0)]
       /\ cases' = [cases EXCEPT ![j] = BumpedCase(@)]
       /\ quota' = [quota EXCEPT ![j] = Released(@)]
       /\ UNCHANGED intents

\* failLease on a lease known to be held: a requested cancellation wins, then a
\* retry while attempts are left, which queues the job again and announces its
\* recovery in the outbox, else the job is FAILED and its quota released.
\* Only the version of the case moves.
FailTransaction(j, retryable, delay) ==
    \/ /\ jobs[j].cancel
       /\ CancelTransaction(j)
    \/ /\ ~jobs[j].cancel
       /\ retryable /\ jobs[j].attempt < MaxAttempts
       /\ jobs' = [jobs EXCEPT ![j] = Unleased(@, "QUEUED", delay)]
       /\ cases' = [cases EXCEPT ![j] = BumpedCase(@)]
       /\ intents' = intents \cup {<<j, jobs[j].attempt>>}
       /\ UNCHANGED quota
    \/ /\ ~jobs[j].cancel
       /\ ~(retryable /\ jobs[j].attempt < MaxAttempts)
       /\ jobs' = [jobs EXCEPT ![j] = Unleased(@, "FAILED", 0)]
       /\ cases' = [cases EXCEPT ![j] = BumpedCase(@)]
       /\ quota' = [quota EXCEPT ![j] = Released(@)]
       /\ UNCHANGED intents

FailLease(w) ==
    /\ workers[w].pc = "failing"
    /\ IF Owns(w) /\ InStep(workers[w].job)
       THEN FailTransaction(workers[w].job, workers[w].outcome = "RETRYABLE",
                            RetryTicks[workers[w].attempt])
       ELSE UNCHANGED <<jobs, cases, quota, intents>>
    /\ Worker(w, IdleWorker)
    /\ UNCHANGED <<tenant, requests, bundles, audited>>

\* The process dies, or a statement of the consumer throws, between two of its
\* transactions: it forgets its lease and the rows stay as they are.
WorkerCrash(w) ==
    /\ workers[w].pc # "idle"
    /\ Worker(w, IdleWorker)
    /\ UNCHANGED <<tenant, requests, jobs, cases, quota, bundles, intents, audited>>

----------------------------------------------------------------------------
(* Other actors.                                                           *)

\* Recovery passes over jobs that are to be cancelled.
RecoverExpiredLeaseMutant(j) ==
    /\ jobs[j].state = "RUNNING"
    /\ jobs[j].lease = 0
    /\ ~jobs[j].cancel
    /\ InStep(j)
    /\ <<j, jobs[j].attempt>> \notin audited
    /\ FailTransaction(j, TRUE, 0)
    /\ audited' = audited \cup {<<j, jobs[j].attempt>>}
    /\ UNCHANGED <<tenant, requests, bundles, workers>>

\* recoverExpiredLeases, for one of the leases of its batch.  The audit row is
\* a plain INSERT: an id used before would abort the transaction.
RecoverExpiredLease(j) ==
    /\ jobs[j].state = "RUNNING"
    /\ jobs[j].lease = 0
    /\ InStep(j)
    /\ <<j, jobs[j].attempt>> \notin audited
    /\ FailTransaction(j, TRUE, 0)
    /\ audited' = audited \cup {<<j, jobs[j].attempt>>}
    /\ UNCHANGED <<tenant, requests, bundles, workers>>

\* What requestCancellation makes of a job: a queued one is cancelled at once,
\* a running one is marked, any other is left alone.
CancellableRow(row) ==
    \/ row.state = "QUEUED"
    \/ row.state = "RUNNING" /\ ~row.cancel

AskedRow(row) ==
    IF row.state = "QUEUED" THEN CancelledRow(row)
    ELSE [state |-> row.state, attempt |-> row.attempt, version |-> row.version + 1,
          owner |-> row.owner, lease |-> row.lease, delay |-> row.delay, cancel |-> TRUE]

\* Marking a running job leaves the version of its case behind.
AskedCaseMutant(row, job) ==
    IF job.state = "QUEUED" THEN ClosedCase(row, "CANCELLED") ELSE row

AskedCase(row, job) ==
    IF job.state = "QUEUED" THEN ClosedCase(row, "CANCELLED") ELSE BumpedCase(row)

CancelJobs(S) ==
    /\ \A j \in S : InStep(j)
    /\ jobs' = [j \in Requests |-> IF j \in S THEN AskedRow(jobs[j]) ELSE jobs[j]]
    /\ cases' = [j \in Requests |-> IF j \in S THEN AskedCase(cases[j], jobs[j]) ELSE cases[j]]
    /\ quota' = [j \in Requests |-> IF j \in S /\ jobs[j].state = "QUEUED"
                                    THEN Released(quota[j]) ELSE quota[j]]

\* The caller cancels its job.
RequestCancellation(j) ==
    /\ CancellableRow(jobs[j])
    /\ CancelJobs({j})
    /\ UNCHANGED <<tenant, requests, bundles, intents, audited, workers>>

\* A deletion request or a due retention date suspends the tenant and cancels
\* all of its jobs in the same transaction.  Nothing reactivates a tenant.
SuspendTenant ==
    /\ tenant = "ACTIVE"
    /\ tenant' = "SUSPENDED"
    /\ CancelJobs({j \in Requests : CancellableRow(jobs[j])})
    /\ UNCHANGED <<requests, bundles, intents, audited, workers>>

\* One unit of time passes for every running deadline.
Less(n) == IF n > 0 THEN n - 1 ELSE 0

Tick ==
    /\ \E j \in Requests : jobs[j].lease > 0 \/ jobs[j].delay > 0 \/ quota[j].left > 0
    /\ jobs' = [j \in Requests |->
                   LET row == jobs[j] IN
                   [state |-> row.state, attempt |-> row.attempt, version |-> row.version,
                    owner |-> row.owner, lease |-> Less(row.lease), delay |-> Less(row.delay),
                    cancel |-> row.cancel]]
    /\ quota' = [j \in Requests |->
                    [state |-> quota[j].state, left |-> Less(quota[j].left)]]
    /\ UNCHANGED <<tenant, requests, cases, bundles, intents, audited, workers>>

----------------------------------------------------------------------------
StartNext ==
    \E r \in Requests :
        StartCheck(r) \/ AdmissionDenied(r) \/ ReserveRejected(r) \/ ReserveExisting(r) \/ ReserveCreated(r)

WorkerNext ==
    \E w \in Workers :
        \/ \E j \in Requests : ClaimLease(w, j)
        \/ FindByLease(w)
        \/ BeginExecute(w)
        \/ \E v \in Verdicts : ExecuteSucceeds(w, v)
        \/ \E error \in {"RETRYABLE", "FATAL"} : ExecuteFails(w, error)
        \/ AfterExecute(w)
        \/ CompleteLease(w)
        \/ CancelLease(w)
        \/ FailLease(w)
        \/ WorkerCrash(w)

OperatorNext ==
    \E j \in Requests : RecoverExpiredLease(j) \/ RequestCancellation(j)

Next == StartNext \/ WorkerNext \/ OperatorNext \/ SuspendTenant \/ Tick

Spec == Init /\ [][Next]_vars

----------------------------------------------------------------------------
(* Safety.                                                                 *)

\* The case and job rows move in step: every transaction bumps both versions
\* (advanceCaseVersion).  Were they ever to differ, rowToRecord would reject the
\* record as corrupt and every later operation on the job would throw.
VersionsInStep == \A j \in Requests : InStep(j)

\* Exactly the RUNNING jobs are leased, a RUNNING job has been claimed, and a
\* QUEUED one still has an attempt to spend, so a claim can always take it.
JobShape ==
    \A j \in Requests :
        /\ jobs[j].state = "RUNNING" <=> jobs[j].owner # NoWorker
        /\ jobs[j].state = "RUNNING" => jobs[j].attempt > 0
        /\ jobs[j].state = "QUEUED" => jobs[j].attempt < MaxAttempts /\ ~jobs[j].cancel
        /\ jobs[j].state # "RUNNING" => jobs[j].lease = 0
        /\ jobs[j].state # "QUEUED" => jobs[j].delay = 0

\* Whenever a job waits in QUEUED, the outbox holds the very event that asks for
\* its next attempt: reserveDurableStart and failLease write both at once.
QueuedIsAnnounced ==
    \A j \in Requests : jobs[j].state = "QUEUED" => <<j, jobs[j].attempt>> \in intents

\* The identifiers that failing or recovering the present lease would write
\* are unused: the outbox insert (ON CONFLICT DO NOTHING) cannot swallow the
\* announcement and the audit insert cannot abort the recovery batch.
RecoveryIdsFresh ==
    \A j \in Requests :
        jobs[j].state = "RUNNING" =>
            <<j, jobs[j].attempt>> \notin intents /\ <<j, jobs[j].attempt>> \notin audited

\* Two consumers never hold the same attempt of a job, and none holds one that
\* was not handed out: the attempt number is a fencing token.
UniqueFence ==
    \A w \in Workers :
        workers[w].pc # "idle" =>
            /\ workers[w].attempt \in 1..jobs[workers[w].job].attempt
            /\ \A v \in Workers \ {w} :
                   ~(workers[v].job = workers[w].job /\ workers[v].attempt = workers[w].attempt)

\* A job that has ended holds no active-jobs reservation, whichever of the four
\* transactions ended it, so no dead job eats into the tenant's limit.
QuotaReleasedAtEnd ==
    \A j \in Requests : Terminal(j) => quota[j].state # "RESERVED"

\* Unexpired reservations never exceed the tenant's limit.
ReservationsWithinLimit == Cardinality(LiveReservations) <= ActiveJobLimit

\* Once suspended, a tenant has nothing waiting and everything that still runs
\* is marked for cancellation, although failing and recovering a lease never
\* look at the tenant's status.
SuspendedDrains ==
    tenant = "SUSPENDED" =>
        \A j \in Requests :
            /\ jobs[j].state # "QUEUED"
            /\ jobs[j].state = "RUNNING" => jobs[j].cancel

\* A key names one job, and every accepted command was answered with a job of
\* its own key and its own hash, whatever happened between the look-up and the
\* reservation.
OneJobPerKey ==
    /\ \A i, j \in Requests : Present(i) /\ Present(j) /\ KeyOf[i] = KeyOf[j] => i = j
    /\ \A r \in Requests :
          requests[r].pc = "accepted" =>
              /\ Present(requests[r].job)
              /\ KeyOf[requests[r].job] = KeyOf[r]
              /\ HashOf[requests[r].job] = HashOf[r]

\* A step that takes job j out of RUNNING while its lease has time left is a
\* step of the worker that owns the current attempt, and its last with it.
EndedByHolder(j) ==
    jobs[j].state = "RUNNING" /\ jobs[j].lease > 0 /\ jobs'[j].state # "RUNNING" =>
        LET w == jobs[j].owner IN
        /\ workers[w].job = j
        /\ workers[w].attempt = jobs[j].attempt
        /\ workers[w].pc \in {"completing", "failing", "cancelling"}
        /\ workers'[w].pc = "idle"

\* Nobody but its holder ends an unexpired lease: a worker whose lease was taken
\* over can do nothing to its heir, although it may still run and report.
LiveLeaseIsExclusive == [][\A j \in Requests : EndedByHolder(j)]_vars

\* At most ActiveJobLimit jobs of a tenant run at any time, each under an
\* unexpired lease (docs/operations.md, line 50).  The code does not keep this:
\* a reservation may lapse before the job it was made for ends.  No run checks it.
ActiveJobsWithinLimit ==
    Cardinality({j \in Requests : jobs[j].state = "RUNNING" /\ jobs[j].lease > 0})
        <= ActiveJobLimit

----------------------------------------------------------------------------
(* The engine implements the lifecycle of JobLifecycle.                    *)

StatusOf(j) ==
    IF jobs[j].state \in {"QUEUED", "RUNNING"} THEN "ACTIVE" ELSE jobs[j].state

Lifecycle == INSTANCE JobLifecycle WITH
    Jobs <- Requests,
    status <- [j \in Requests |-> StatusOf(j)],
    cancelling <- [j \in Requests |-> jobs[j].cancel],
    verdict <- [j \in Requests |-> cases[j].state]

\* Under all interleavings of starts, consumers, crashes, recoveries and
\* cancellations each job reaches one end only, a cancellation is never lost or
\* overruled by a late completion, failure or retry, and the case's verdict is
\* written exactly when its job ends.
ImplementsLifecycle == Lifecycle!LifecycleSpec
=============================================================================
