------------------------- MODULE DurableJobsProofs --------------------------
(***************************************************************************)
(* Theorems about DurableJobs, for any number of requests and workers and  *)
(* any attempt limit, lease, delay and quota: types, then the safety of a  *)
(* job's rows.  A step of the system is first cut down to what it does to  *)
(* one job: JobStep lists the nine things that can happen to its rows.     *)
(* The inductive invariants are then proved job by job from that list,     *)
(* whatever actor took the step.  Then what relates a job to what is       *)
(* around it: an attempt number fences the lease it was handed out with,   *)
(* an idempotency key names one job, and the engine implements             *)
(* JobLifecycle.                                                           *)
(***************************************************************************)
EXTENDS DurableJobs, FiniteSetTheorems, TLAPS

----------------------------------------------------------------------------
(* Rows keep their types.                                                  *)

LEMMA JobRowTypes ==
    /\ NoJobRow \in JobRow
    /\ NewJobRow \in JobRow
    /\ \A row \in JobRow :
          /\ \A w \in Workers : row.attempt < MaxAttempts => ClaimedRow(row, w) \in JobRow
          /\ \A delay \in Nat :
                \A state \in {"QUEUED", "SUCCEEDED", "FAILED"} : Unleased(row, state, delay) \in JobRow
          /\ CancelledRow(row) \in JobRow
          /\ AskedRow(row) \in JobRow
BY MaxAttemptsAssumption, TimingAssumption
   DEF JobRow, NoJobRow, NewJobRow, ClaimedRow, Unleased, CancelledRow, AskedRow

LEMMA CaseRowTypes ==
    \A row \in CaseRow :
        /\ BumpedCase(row) \in CaseRow
        /\ \A state \in {"CANCELLED"} \cup Verdicts : ClosedCase(row, state) \in CaseRow
        /\ \A job \in JobRow : AskedCase(row, job) \in CaseRow
BY DEF CaseRow, BumpedCase, ClosedCase, AskedCase

LEMMA QuotaRowTypes ==
    \A row \in QuotaRow : Released(row) \in QuotaRow /\ Expired(row) \in QuotaRow
BY DEF QuotaRow, Released, Expired

LEMMA WorkerTypes ==
    /\ IdleWorker \in WorkerState
    /\ \A j \in Requests \cup {NoJob}, n \in 0..MaxAttempts, v \in Nat, pc \in WorkerPCs,
          o \in {"NONE", "RETRYABLE", "FATAL"} \cup Verdicts :
          [pc |-> pc, job |-> j, attempt |-> n, version |-> v, outcome |-> o] \in WorkerState
BY MaxAttemptsAssumption DEF WorkerState, WorkerPCs, IdleWorker

LEMMA ContinueType ==
    ASSUME TypeOK, NEW w \in Workers, NEW pc \in WorkerPCs, NEW v \in Nat,
           NEW o \in {"NONE", "RETRYABLE", "FATAL"} \cup Verdicts,
           Continue(w, pc, v, o)
    PROVE  workers' \in [Workers -> WorkerState]
<1>1. workers[w] \in WorkerState
  BY DEF TypeOK
<1>2. workers[w].job \in Requests \cup {NoJob} /\ workers[w].attempt \in 0..MaxAttempts
  BY <1>1 DEF WorkerState
<1> QED
  BY <1>2, WorkerTypes DEF TypeOK, Continue, Worker

\* What the worker remembers of its lease has the right type.
LEMMA WorkerFields ==
    ASSUME TypeOK, NEW w \in Workers
    PROVE  /\ workers[w].job \in Requests \cup {NoJob}
           /\ workers[w].attempt \in 0..MaxAttempts
           /\ workers[w].version \in Nat
           /\ workers[w].outcome \in {"NONE", "RETRYABLE", "FATAL"} \cup Verdicts
           /\ workers[w].pc \in WorkerPCs
BY DEF TypeOK, WorkerState

LEMMA JobFields ==
    ASSUME TypeOK, NEW j \in Requests
    PROVE  /\ jobs[j].attempt \in 0..MaxAttempts
           /\ jobs[j].version \in Nat
           /\ jobs[j].lease \in Nat
           /\ jobs[j].delay \in Nat
           /\ jobs[j].cancel \in BOOLEAN
           /\ jobs[j].owner \in Workers \cup {NoWorker}
           /\ jobs[j].state \in {"ABSENT", "QUEUED", "RUNNING", "SUCCEEDED", "FAILED", "CANCELLED"}
           /\ cases[j].version \in Nat
           /\ quota[j].left \in Nat
           /\ quota[j].state \in {"NONE", "RESERVED", "RELEASED", "EXPIRED"}
BY DEF TypeOK, JobRow, CaseRow, QuotaRow

\* Cancelling, and the three outcomes of failing, a held lease.
LEMMA CancelTransactionType ==
    ASSUME TypeOK, NEW j \in Requests, CancelTransaction(j)
    PROVE  /\ jobs' \in [Requests -> JobRow]
           /\ cases' \in [Requests -> CaseRow]
           /\ quota' \in [Requests -> QuotaRow]
           /\ intents' = intents
<1>1. jobs[j] \in JobRow /\ cases[j] \in CaseRow /\ quota[j] \in QuotaRow
  BY DEF TypeOK
<1>2. jobs' \in [Requests -> JobRow]
  BY <1>1, JobRowTypes DEF TypeOK, CancelTransaction
<1>3. cases' \in [Requests -> CaseRow]
  BY <1>1, CaseRowTypes DEF TypeOK, CancelTransaction
<1>4. quota' \in [Requests -> QuotaRow]
  BY <1>1, QuotaRowTypes DEF TypeOK, CancelTransaction
<1> QED
  BY <1>2, <1>3, <1>4 DEF CancelTransaction

LEMMA FailTransactionType ==
    ASSUME TypeOK, NEW j \in Requests, NEW b \in BOOLEAN, NEW delay \in Nat,
           FailTransaction(j, b, delay)
    PROVE  /\ jobs' \in [Requests -> JobRow]
           /\ cases' \in [Requests -> CaseRow]
           /\ quota' \in [Requests -> QuotaRow]
           /\ intents' \subseteq Requests \X (0..MaxAttempts)
<1>1. jobs[j] \in JobRow /\ cases[j] \in CaseRow /\ quota[j] \in QuotaRow
  BY DEF TypeOK
<1>2. CASE CancelTransaction(j)
  BY <1>2, CancelTransactionType DEF TypeOK
<1>3. CASE /\ jobs' = [jobs EXCEPT ![j] = Unleased(@, "QUEUED", delay)]
           /\ cases' = [cases EXCEPT ![j] = BumpedCase(@)]
           /\ intents' = intents \cup {<<j, jobs[j].attempt>>}
           /\ UNCHANGED quota
  <2>1. jobs' \in [Requests -> JobRow]
    BY <1>1, <1>3, JobRowTypes DEF TypeOK
  <2>2. cases' \in [Requests -> CaseRow]
    BY <1>1, <1>3, CaseRowTypes DEF TypeOK
  <2>3. jobs[j].attempt \in 0..MaxAttempts
    BY JobFields
  <2>4. intents' \subseteq Requests \X (0..MaxAttempts)
    BY <1>3, <2>3 DEF TypeOK
  <2> QED
    BY <1>3, <2>1, <2>2, <2>4 DEF TypeOK
<1>4. CASE /\ jobs' = [jobs EXCEPT ![j] = Unleased(@, "FAILED", 0)]
           /\ cases' = [cases EXCEPT ![j] = BumpedCase(@)]
           /\ quota' = [quota EXCEPT ![j] = Released(@)]
           /\ UNCHANGED intents
  <2>1. jobs' \in [Requests -> JobRow]
    BY <1>1, <1>4, JobRowTypes DEF TypeOK
  <2>2. cases' \in [Requests -> CaseRow]
    BY <1>1, <1>4, CaseRowTypes DEF TypeOK
  <2>3. quota' \in [Requests -> QuotaRow]
    BY <1>1, <1>4, QuotaRowTypes DEF TypeOK
  <2> QED
    BY <1>4, <2>1, <2>2, <2>3 DEF TypeOK
<1> QED
  BY <1>2, <1>3, <1>4 DEF FailTransaction

LEMMA CancelJobsType ==
    ASSUME TypeOK, NEW S \in SUBSET Requests, CancelJobs(S)
    PROVE  /\ jobs' \in [Requests -> JobRow]
           /\ cases' \in [Requests -> CaseRow]
           /\ quota' \in [Requests -> QuotaRow]
BY JobRowTypes, CaseRowTypes, QuotaRowTypes DEF TypeOK, CancelJobs

\* A consumer holds a job from its claim on and a verdict once it succeeded.
\* TypeOK alone is not inductive: the rows a consumer writes are those of the
\* job, the attempt and the verdict it remembers.
WorkersShaped ==
    \A w \in Workers :
        /\ workers[w].pc # "idle" => workers[w].job \in Requests /\ workers[w].attempt > 0
        /\ workers[w].pc = "idle" => workers[w].job = NoJob
        /\ workers[w].pc \in {"succeeded", "completing"} => workers[w].outcome \in Verdicts

LEMMA InitTypeOK == Init => TypeOK /\ WorkersShaped
BY JobRowTypes, WorkerTypes DEF Init, TypeOK, CaseRow, QuotaRow, WorkersShaped, IdleWorker

\* A step that sends a consumer home, or on with the lease it has, keeps it so.
LEMMA NextWorkersShaped == TypeOK /\ WorkersShaped /\ [Next]_vars => WorkersShaped'
<1> SUFFICES ASSUME TypeOK, WorkersShaped, [Next]_vars PROVE WorkersShaped'
  OBVIOUS
<1>1. ASSUME NEW w \in Workers, Worker(w, IdleWorker) PROVE WorkersShaped'
  BY <1>1 DEF WorkersShaped, TypeOK, Worker, IdleWorker
<1>2. ASSUME NEW w \in Workers, NEW pc \in WorkerPCs \ {"idle"}, NEW v, NEW o,
             workers[w].pc # "idle",
             pc \in {"succeeded", "completing"} => o \in Verdicts, Continue(w, pc, v, o)
      PROVE  WorkersShaped'
  BY <1>2 DEF WorkersShaped, TypeOK, Continue, Worker, WorkerPCs
<1>3. CASE UNCHANGED workers
  BY <1>3 DEF WorkersShaped
<1>4. ASSUME NEW w \in Workers, NEW j \in Requests, ClaimLease(w, j) PROVE WorkersShaped'
  <2>1. ClaimedRow(jobs[j], w).attempt > 0
    BY JobFields DEF ClaimedRow
  <2> QED
    BY <1>4, <2>1 DEF WorkersShaped, TypeOK, ClaimLease, Worker
<1>5. ASSUME NEW w \in Workers, FindByLease(w) PROVE WorkersShaped'
  BY <1>1, <1>2, <1>5 DEF FindByLease, WorkerPCs
<1>6. ASSUME NEW w \in Workers, BeginExecute(w) PROVE WorkersShaped'
  BY <1>2, <1>6 DEF BeginExecute, WorkerPCs
<1>7. ASSUME NEW w \in Workers, NEW v \in Verdicts, ExecuteSucceeds(w, v) PROVE WorkersShaped'
  BY <1>2, <1>7 DEF ExecuteSucceeds, WorkerPCs
<1>8. ASSUME NEW w \in Workers, NEW e \in {"RETRYABLE", "FATAL"}, ExecuteFails(w, e)
      PROVE  WorkersShaped'
  BY <1>2, <1>8 DEF ExecuteFails, WorkerPCs
<1>9. ASSUME NEW w \in Workers, AfterExecute(w) PROVE WorkersShaped'
  BY <1>2, <1>9 DEF AfterExecute, WorkerPCs, WorkersShaped
<1>10. ASSUME NEW w \in Workers,
              CompleteLease(w) \/ CancelLease(w) \/ FailLease(w) \/ WorkerCrash(w)
       PROVE  WorkersShaped'
  BY <1>1, <1>10 DEF CompleteLease, CancelLease, FailLease, WorkerCrash
<1>11. CASE StartNext \/ OperatorNext \/ SuspendTenant \/ Tick \/ UNCHANGED vars
  BY <1>3, <1>11
     DEF StartNext, StartCheck, AdmissionDenied, ReserveRejected, ReserveExisting, ReserveCreated,
         OperatorNext, RecoverExpiredLease, RequestCancellation, SuspendTenant, Tick, vars
<1> QED
  BY <1>4, <1>5, <1>6, <1>7, <1>8, <1>9, <1>10, <1>11 DEF Next, WorkerNext

\* Every transaction of the engine leaves well-formed rows.
LEMMA NextTypeOK == TypeOK /\ WorkersShaped /\ [Next]_vars => TypeOK'
<1> SUFFICES ASSUME TypeOK, WorkersShaped, [Next]_vars PROVE TypeOK'
  OBVIOUS
<1> USE WorkerFields
<1>1. ASSUME NEW r \in Requests, StartCheck(r) PROVE TypeOK'
  BY <1>1 DEF TypeOK, StartCheck, AnswerExisting, Answer, Existing
<1>2. ASSUME NEW r \in Requests, AdmissionDenied(r) PROVE TypeOK'
  BY <1>2 DEF TypeOK, AdmissionDenied, Answer
<1>3. ASSUME NEW r \in Requests, ReserveRejected(r) PROVE TypeOK'
  BY <1>3 DEF TypeOK, ReserveRejected, Answer
<1>4. ASSUME NEW r \in Requests, ReserveExisting(r) PROVE TypeOK'
  BY <1>4 DEF TypeOK, ReserveExisting, AnswerExisting, Answer, Existing
<1>5. ASSUME NEW r \in Requests, ReserveCreated(r) PROVE TypeOK'
  <2>1. jobs' \in [Requests -> JobRow]
    BY <1>5, JobRowTypes DEF TypeOK, ReserveCreated
  <2>2. cases' \in [Requests -> CaseRow]
    BY <1>5 DEF TypeOK, ReserveCreated, CaseRow
  <2>3. quota' \in [Requests -> QuotaRow]
    <3>1. [state |-> "RESERVED", left |-> QuotaTicks] \in QuotaRow
      BY TimingAssumption DEF QuotaRow
    <3> QED
      BY <1>5, <3>1, QuotaRowTypes DEF TypeOK, ReserveCreated
  <2>4. intents' \subseteq Requests \X (0..MaxAttempts)
    BY <1>5, MaxAttemptsAssumption DEF TypeOK, ReserveCreated
  <2> QED
    BY <1>5, <2>1, <2>2, <2>3, <2>4 DEF TypeOK, ReserveCreated, Answer
<1>6. ASSUME NEW w \in Workers, NEW j \in Requests, ClaimLease(w, j) PROVE TypeOK'
  <2>1. ClaimedRow(jobs[j], w).attempt \in 0..MaxAttempts
    BY <1>6, JobFields, MaxAttemptsAssumption DEF ClaimLease, Claimable, ClaimedRow
  <2>2. workers' \in [Workers -> WorkerState]
    BY <1>6, <2>1, WorkerTypes DEF TypeOK, ClaimLease, Worker, WorkerPCs
  <2> QED
    BY <1>6, <2>2, JobRowTypes, CaseRowTypes DEF TypeOK, ClaimLease, Claimable
<1>7. ASSUME NEW w \in Workers, FindByLease(w) PROVE TypeOK'
  <2>1. workers' \in [Workers -> WorkerState]
    <3>1. CASE Owns(w) /\ InStep(workers[w].job)
      BY <1>7, <3>1, ContinueType, JobFields DEF FindByLease, Owns, WorkerPCs
    <3>2. CASE ~(Owns(w) /\ InStep(workers[w].job))
      BY <1>7, <3>2, WorkerTypes DEF FindByLease, TypeOK, Worker
    <3> QED
      BY <3>1, <3>2
  <2> QED
    BY <1>7, <2>1 DEF TypeOK, FindByLease
<1>8. ASSUME NEW w \in Workers, BeginExecute(w) PROVE TypeOK'
  <2>1. workers' \in [Workers -> WorkerState]
    BY <1>8, ContinueType DEF BeginExecute, WorkerPCs
  <2> QED
    BY <1>8, <2>1 DEF TypeOK, BeginExecute
<1>9. ASSUME NEW w \in Workers, NEW v \in Verdicts, ExecuteSucceeds(w, v) PROVE TypeOK'
  <2>1. workers' \in [Workers -> WorkerState]
    BY <1>9, ContinueType DEF ExecuteSucceeds, WorkerPCs
  <2> QED
    BY <1>9, <2>1 DEF TypeOK, ExecuteSucceeds, WorkersShaped
<1>10. ASSUME NEW w \in Workers, NEW e \in {"RETRYABLE", "FATAL"}, ExecuteFails(w, e) PROVE TypeOK'
  <2>1. workers' \in [Workers -> WorkerState]
    BY <1>10, ContinueType DEF ExecuteFails, WorkerPCs
  <2> QED
    BY <1>10, <2>1 DEF TypeOK, ExecuteFails
<1>11. ASSUME NEW w \in Workers, AfterExecute(w) PROVE TypeOK'
  <2>1. workers' \in [Workers -> WorkerState]
    BY <1>11, ContinueType DEF AfterExecute, WorkerPCs
  <2> QED
    BY <1>11, <2>1 DEF TypeOK, AfterExecute
<1>12. ASSUME NEW w \in Workers, CompleteLease(w) PROVE TypeOK'
  <2>1. workers' \in [Workers -> WorkerState]
    BY <1>12, WorkerTypes DEF TypeOK, CompleteLease, Worker
  <2> DEFINE j == workers[w].job
  <2>2. j \in Requests /\ workers[w].outcome \in Verdicts
    BY <1>12 DEF CompleteLease, WorkersShaped
  <2>3. jobs[j] \in JobRow /\ cases[j] \in CaseRow /\ quota[j] \in QuotaRow
    BY <2>2 DEF TypeOK
  <2>4. /\ Unleased(jobs[j], "SUCCEEDED", 0) \in JobRow
        /\ ClosedCase(cases[j], workers[w].outcome) \in CaseRow
        /\ Released(quota[j]) \in QuotaRow
    BY <2>2, <2>3, JobRowTypes, CaseRowTypes, QuotaRowTypes
  <2>5. \/ /\ jobs' = [jobs EXCEPT ![j] = Unleased(jobs[j], "SUCCEEDED", 0)]
           /\ cases' = [cases EXCEPT ![j] = ClosedCase(cases[j], workers[w].outcome)]
           /\ quota' = [quota EXCEPT ![j] = Released(quota[j])]
        \/ UNCHANGED <<jobs, cases, quota>>
    BY <1>12 DEF CompleteLease
  <2> HIDE DEF j
  <2> QED
    BY <1>12, <2>1, <2>4, <2>5 DEF TypeOK, CompleteLease
<1>13. ASSUME NEW w \in Workers, CancelLease(w) PROVE TypeOK'
  <2>1. workers' \in [Workers -> WorkerState]
    BY <1>13, WorkerTypes DEF TypeOK, CancelLease, Worker
  <2>2. workers[w].job \in Requests
    BY <1>13 DEF CancelLease, WorkersShaped
  <2>3. \/ CancelTransaction(workers[w].job)
        \/ UNCHANGED <<jobs, cases, quota, intents>>
    BY <1>13 DEF CancelLease
  <2> QED
    BY <1>13, <2>1, <2>2, <2>3, CancelTransactionType DEF TypeOK, CancelLease
<1>14. ASSUME NEW w \in Workers, FailLease(w) PROVE TypeOK'
  <2>1. workers' \in [Workers -> WorkerState]
    BY <1>14, WorkerTypes DEF TypeOK, FailLease, Worker
  <2>2. workers[w].job \in Requests /\ RetryTicks[workers[w].attempt] \in Nat
    BY <1>14, TimingAssumption DEF FailLease, WorkersShaped
  <2>3. \/ FailTransaction(workers[w].job, workers[w].outcome = "RETRYABLE",
                           RetryTicks[workers[w].attempt])
        \/ UNCHANGED <<jobs, cases, quota, intents>>
    BY <1>14 DEF FailLease
  <2> QED
    BY <1>14, <2>1, <2>2, <2>3, FailTransactionType DEF TypeOK, FailLease
<1>15. ASSUME NEW w \in Workers, WorkerCrash(w) PROVE TypeOK'
  BY <1>15, WorkerTypes DEF TypeOK, WorkerCrash, Worker
<1>16. ASSUME NEW j \in Requests, RecoverExpiredLease(j) PROVE TypeOK'
  <2>1. FailTransaction(j, TRUE, 0)
    BY <1>16 DEF RecoverExpiredLease
  <2>2. jobs[j].attempt \in 0..MaxAttempts
    BY JobFields
  <2>3. audited' \subseteq Requests \X (0..MaxAttempts)
    BY <1>16, <2>2 DEF TypeOK, RecoverExpiredLease
  <2>4. /\ jobs' \in [Requests -> JobRow]
        /\ cases' \in [Requests -> CaseRow]
        /\ quota' \in [Requests -> QuotaRow]
        /\ intents' \subseteq Requests \X (0..MaxAttempts)
    BY <2>1, FailTransactionType
  <2> QED
    BY <1>16, <2>3, <2>4 DEF TypeOK, RecoverExpiredLease
<1>17. ASSUME NEW j \in Requests, RequestCancellation(j) PROVE TypeOK'
  BY <1>17, CancelJobsType DEF TypeOK, RequestCancellation
<1>18. CASE SuspendTenant
  BY <1>18, CancelJobsType DEF TypeOK, SuspendTenant
<1>19. CASE Tick
  BY <1>19 DEF TypeOK, Tick, Less, JobRow, QuotaRow
<1>20. CASE UNCHANGED vars
  BY <1>20 DEF TypeOK, vars
<1> QED
  BY <1>1, <1>2, <1>3, <1>4, <1>5, <1>6, <1>7, <1>8, <1>9, <1>10, <1>11, <1>12, <1>13,
     <1>14, <1>15, <1>16, <1>17, <1>18, <1>19, <1>20
     DEF Next, StartNext, WorkerNext, OperatorNext

\* Rows, requests and workers always have their types.
THEOREM TypeCorrect == Spec => []TypeOK
<1>1. Init => TypeOK /\ WorkersShaped
  BY InitTypeOK
<1>2. TypeOK /\ WorkersShaped /\ [Next]_vars => (TypeOK /\ WorkersShaped)'
  BY NextTypeOK, NextWorkersShaped
<1> QED
  BY <1>1, <1>2, PTL DEF Spec

----------------------------------------------------------------------------
(* What a step may do to the rows of job k.                                *)

SameIds(k) ==
    \A n : /\ <<k, n>> \in intents' <=> <<k, n>> \in intents
           /\ <<k, n>> \in audited' <=> <<k, n>> \in audited

\* The step is about another job; the quota ledger may expire a reservation.
Untouched(k) ==
    /\ jobs'[k] = jobs[k] /\ cases'[k] = cases[k]
    /\ quota'[k] \in {quota[k], Expired(quota[k])}
    /\ SameIds(k)

Aged(k) ==
    /\ jobs'[k] = [state |-> jobs[k].state, attempt |-> jobs[k].attempt,
                   version |-> jobs[k].version, owner |-> jobs[k].owner,
                   lease |-> Less(jobs[k].lease), delay |-> Less(jobs[k].delay),
                   cancel |-> jobs[k].cancel]
    /\ cases'[k] = cases[k]
    /\ quota'[k] = [state |-> quota[k].state, left |-> Less(quota[k].left)]
    /\ SameIds(k)

Created(k) ==
    /\ Existing(k) = {} /\ ~Present(k) /\ tenant = "ACTIVE" /\ QuotaAvailable
    /\ jobs'[k] = NewJobRow
    /\ \A j \in Requests \ {k} : jobs'[j] = jobs[j]
    /\ cases'[k] = [state |-> "DRAFT", version |-> 1]
    /\ <<k, 0>> \in intents'
    /\ \A n : /\ <<k, n>> \in intents' => <<k, n>> \in intents \/ n = 0
              /\ <<k, n>> \in audited' => <<k, n>> \in audited

Claimed(k) ==
    /\ Claimable(k)
    /\ \E w \in Workers : jobs'[k] = ClaimedRow(jobs[k], w)
    /\ cases'[k] = BumpedCase(cases[k])
    /\ quota'[k] = quota[k]
    /\ SameIds(k)

\* A lease comes to an end.  Only here are recovery identifiers used up.
Ended(k) ==
    /\ jobs[k].state = "RUNNING"
    /\ \A n : /\ <<k, n>> \in intents' => <<k, n>> \in intents \/ n = jobs[k].attempt
              /\ <<k, n>> \in audited' => <<k, n>> \in audited \/ n = jobs[k].attempt

Succeeded(k) ==
    /\ Ended(k)
    /\ ~jobs[k].cancel
    /\ jobs'[k] = Unleased(jobs[k], "SUCCEEDED", 0)
    /\ \E v \in Verdicts : cases'[k] = ClosedCase(cases[k], v)
    /\ quota'[k] = Released(quota[k])

Cancelled(k) ==
    /\ Ended(k)
    /\ jobs[k].cancel
    /\ jobs'[k] = CancelledRow(jobs[k])
    /\ cases'[k] = ClosedCase(cases[k], "CANCELLED")
    /\ quota'[k] = Released(quota[k])

Retried(k) ==
    /\ Ended(k)
    /\ ~jobs[k].cancel /\ jobs[k].attempt < MaxAttempts
    /\ \E delay \in Nat : jobs'[k] = Unleased(jobs[k], "QUEUED", delay)
    /\ cases'[k] = BumpedCase(cases[k])
    /\ <<k, jobs[k].attempt>> \in intents'
    /\ quota'[k] = quota[k]

Failed(k) ==
    /\ Ended(k)
    /\ ~jobs[k].cancel
    /\ jobs'[k] = Unleased(jobs[k], "FAILED", 0)
    /\ cases'[k] = BumpedCase(cases[k])
    /\ quota'[k] = Released(quota[k])

Asked(k) ==
    /\ CancellableRow(jobs[k])
    /\ jobs'[k] = AskedRow(jobs[k])
    /\ cases'[k] = AskedCase(cases[k], jobs[k])
    /\ quota'[k] = IF jobs[k].state = "QUEUED" THEN Released(quota[k]) ELSE quota[k]
    /\ SameIds(k)

JobStep(k) ==
    \/ Untouched(k) \/ Aged(k) \/ Created(k) \/ Claimed(k)
    \/ Succeeded(k) \/ Cancelled(k) \/ Retried(k) \/ Failed(k) \/ Asked(k)

LEMMA SameIdsUnchanged ==
    ASSUME UNCHANGED <<intents, audited>> PROVE \A k : SameIds(k)
BY DEF SameIds

\* Failing a lease, from the consumer or from recovery.
LEMMA FailTransactionStep ==
    ASSUME TypeOK, NEW j \in Requests, NEW b \in BOOLEAN, NEW delay \in Nat,
           jobs[j].state = "RUNNING", FailTransaction(j, b, delay),
           audited' \in {audited, audited \cup {<<j, jobs[j].attempt>>}}
    PROVE  \A k \in Requests : JobStep(k)
<1>1. SUFFICES ASSUME NEW k \in Requests PROVE JobStep(k)
  OBVIOUS
<1>2. intents' \in {intents, intents \cup {<<j, jobs[j].attempt>>}}
  BY DEF FailTransaction, CancelTransaction
<1>3. CASE k # j
  <2>1. SameIds(k)
    BY <1>2, <1>3 DEF SameIds
  <2>2. jobs'[k] = jobs[k] /\ cases'[k] = cases[k] /\ quota'[k] = quota[k]
    BY <1>3 DEF FailTransaction, CancelTransaction, TypeOK
  <2> QED
    BY <2>1, <2>2 DEF JobStep, Untouched
<1>4. CASE k = j
  <2>1. Ended(j)
    BY <1>2 DEF Ended
  <2>2. CASE jobs[j].cancel /\ CancelTransaction(j)
    BY <1>4, <2>1, <2>2 DEF JobStep, Cancelled, CancelTransaction, TypeOK
  <2>3. CASE ~jobs[j].cancel /\ b /\ jobs[j].attempt < MaxAttempts
    BY <1>4, <2>1, <2>3 DEF JobStep, Retried, FailTransaction, TypeOK
  <2>4. CASE ~jobs[j].cancel /\ ~(b /\ jobs[j].attempt < MaxAttempts)
    BY <1>4, <2>1, <2>4 DEF JobStep, Failed, FailTransaction, TypeOK
  <2> QED
    BY <2>2, <2>3, <2>4 DEF FailTransaction
<1> QED
  BY <1>3, <1>4

LEMMA CancelJobsStep ==
    ASSUME TypeOK, NEW S \in SUBSET Requests, \A j \in S : CancellableRow(jobs[j]),
           CancelJobs(S), UNCHANGED <<intents, audited>>
    PROVE  \A k \in Requests : IF k \in S THEN Asked(k) ELSE Untouched(k)
BY SameIdsUnchanged DEF TypeOK, CancelJobs, Asked, Untouched

\* Every step of every actor does one of the nine things to each job.
LEMMA NextJobStep ==
    ASSUME TypeOK, WorkersShaped, [Next]_vars
    PROVE  \A k \in Requests : JobStep(k)
<1>1. CASE UNCHANGED <<jobs, cases, quota, intents, audited>>
  BY <1>1, SameIdsUnchanged DEF JobStep, Untouched
<1>2. ASSUME NEW r \in Requests, ReserveCreated(r) PROVE \A k \in Requests : JobStep(k)
  <2>1. ~Present(r)
    BY <1>2 DEF ReserveCreated, Existing
  <2>2. Created(r)
    BY <1>2, <2>1 DEF ReserveCreated, Created, TypeOK
  <2>3. ASSUME NEW k \in Requests, k # r PROVE Untouched(k)
    <3>1. SameIds(k)
      BY <1>2, <2>3 DEF ReserveCreated, SameIds
    <3> QED
      BY <1>2, <2>3, <3>1 DEF ReserveCreated, Untouched, TypeOK
  <2> QED
    BY <2>2, <2>3 DEF JobStep
<1>3. ASSUME NEW w \in Workers, NEW j \in Requests, ClaimLease(w, j)
      PROVE  \A k \in Requests : JobStep(k)
  BY <1>3, SameIdsUnchanged DEF ClaimLease, JobStep, Claimed, Untouched, TypeOK
<1>4. ASSUME NEW w \in Workers, CompleteLease(w) PROVE \A k \in Requests : JobStep(k)
  <2>1. workers[w].job \in Requests /\ workers[w].outcome \in Verdicts
    BY <1>4 DEF CompleteLease, WorkersShaped
  <2>2. CASE Completable(w)
    <3>1. Succeeded(workers[w].job)
      BY <1>4, <2>1, <2>2 DEF CompleteLease, Completable, Owns, Succeeded, Ended, TypeOK
    <3>2. ASSUME NEW k \in Requests, k # workers[w].job PROVE Untouched(k)
      BY <1>4, <2>1, <2>2, <3>2, SameIdsUnchanged DEF CompleteLease, Untouched, TypeOK
    <3> QED
      BY <3>1, <3>2 DEF JobStep
  <2> QED
    BY <1>1, <1>4, <2>2 DEF CompleteLease
<1>5. ASSUME NEW w \in Workers, CancelLease(w) PROVE \A k \in Requests : JobStep(k)
  <2>1. workers[w].job \in Requests
    BY <1>5 DEF CancelLease, WorkersShaped
  <2>2. CASE CancellationRequested(w) /\ InStep(workers[w].job)
    <3>1. Cancelled(workers[w].job)
      BY <1>5, <2>1, <2>2
         DEF CancelLease, CancelTransaction, CancellationRequested, Owns, Cancelled, Ended, TypeOK
    <3>2. ASSUME NEW k \in Requests, k # workers[w].job PROVE Untouched(k)
      BY <1>5, <2>1, <2>2, <3>2, SameIdsUnchanged
         DEF CancelLease, CancelTransaction, Untouched, TypeOK
    <3> QED
      BY <3>1, <3>2 DEF JobStep
  <2> QED
    BY <1>1, <1>5, <2>2 DEF CancelLease
<1>6. ASSUME NEW w \in Workers, FailLease(w) PROVE \A k \in Requests : JobStep(k)
  <2>1. workers[w].job \in Requests /\ RetryTicks[workers[w].attempt] \in Nat
    BY <1>6, WorkerFields, TimingAssumption DEF FailLease, WorkersShaped
  <2>2. CASE Owns(w) /\ InStep(workers[w].job)
    <3>1. jobs[workers[w].job].state = "RUNNING"
      BY <2>2 DEF Owns
    <3>2. FailTransaction(workers[w].job, workers[w].outcome = "RETRYABLE",
                          RetryTicks[workers[w].attempt])
      BY <1>6, <2>2 DEF FailLease
    <3>3. audited' = audited
      BY <1>6 DEF FailLease
    <3> QED
      BY <2>1, <3>1, <3>2, <3>3, FailTransactionStep
  <2> QED
    BY <1>1, <1>6, <2>2 DEF FailLease
<1>7. ASSUME NEW j \in Requests, RecoverExpiredLease(j) PROVE \A k \in Requests : JobStep(k)
  <2>1. /\ jobs[j].state = "RUNNING"
        /\ FailTransaction(j, TRUE, 0)
        /\ audited' = audited \cup {<<j, jobs[j].attempt>>}
    BY <1>7 DEF RecoverExpiredLease
  <2> QED
    BY <2>1, FailTransactionStep
<1>8. ASSUME NEW j \in Requests, RequestCancellation(j) PROVE \A k \in Requests : JobStep(k)
  <2>1. \A k \in Requests : IF k \in {j} THEN Asked(k) ELSE Untouched(k)
    BY <1>8, CancelJobsStep DEF RequestCancellation
  <2> QED
    BY <2>1 DEF JobStep
<1>9. CASE SuspendTenant
  <2> DEFINE S == {j \in Requests : CancellableRow(jobs[j])}
  <2>1. \A k \in Requests : IF k \in S THEN Asked(k) ELSE Untouched(k)
    BY <1>9, CancelJobsStep DEF SuspendTenant
  <2> QED
    BY <2>1 DEF JobStep
<1>10. CASE Tick
  BY <1>10, SameIdsUnchanged DEF Tick, JobStep, Aged
<1>11. ASSUME NEW r \in Requests,
              StartCheck(r) \/ AdmissionDenied(r) \/ ReserveRejected(r) \/ ReserveExisting(r)
       PROVE  \A k \in Requests : JobStep(k)
  BY <1>1, <1>11 DEF StartCheck, AdmissionDenied, ReserveRejected, ReserveExisting
<1>12. ASSUME NEW w \in Workers,
              \/ FindByLease(w) \/ BeginExecute(w) \/ AfterExecute(w) \/ WorkerCrash(w)
              \/ \E v \in Verdicts : ExecuteSucceeds(w, v)
              \/ \E error \in {"RETRYABLE", "FATAL"} : ExecuteFails(w, error)
       PROVE  \A k \in Requests : JobStep(k)
  BY <1>1, <1>12
     DEF FindByLease, BeginExecute, AfterExecute, WorkerCrash, ExecuteSucceeds, ExecuteFails
<1>13. CASE UNCHANGED vars
  BY <1>1, <1>13 DEF vars
<1> QED
  BY <1>2, <1>3, <1>4, <1>5, <1>6, <1>7, <1>8, <1>9, <1>10, <1>11, <1>12, <1>13
     DEF Next, StartNext, WorkerNext, OperatorNext

----------------------------------------------------------------------------
(* The inductive invariant of the rows of a job.                           *)

\* The shape of the row, and what makes it inductive: a job that is not there
\* has spent no attempt and holds no announcements, so its creation starts at 0.
RowInv(k) ==
    /\ InStep(k)
    /\ jobs[k].state = "RUNNING" <=> jobs[k].owner # NoWorker
    /\ jobs[k].state = "RUNNING" => jobs[k].attempt > 0
    /\ jobs[k].state = "QUEUED" => jobs[k].attempt < MaxAttempts /\ ~jobs[k].cancel
    /\ jobs[k].state # "RUNNING" => jobs[k].lease = 0
    /\ jobs[k].state # "QUEUED" => jobs[k].delay = 0
    /\ ~Present(k) => jobs[k].attempt = 0
    /\ Terminal(k) => quota[k].state # "RESERVED"

\* No identifier of job k is ahead of its attempts; the one of the attempt that
\* is running is still to be used.  A job that is not there has none, so that
\* its creation announces it anew.
IdsInv(k) ==
    /\ jobs[k].state = "QUEUED" => <<k, jobs[k].attempt>> \in intents
    /\ ~Present(k) => \A n : <<k, n>> \notin intents
    /\ \A n : <<k, n>> \in intents \/ <<k, n>> \in audited =>
          /\ n <= jobs[k].attempt
          /\ jobs[k].state = "RUNNING" => n < jobs[k].attempt

LEMMA InitRows == Init => \A k \in Requests : RowInv(k) /\ IdsInv(k)
BY DEF Init, RowInv, IdsInv, NoJobRow, InStep, Present, Terminal

LEMMA StepRowInv ==
    ASSUME TypeOK, NEW k \in Requests, RowInv(k), JobStep(k) PROVE RowInv(k)'
<1> USE JobFields
<1>1. CASE Untouched(k)
  BY <1>1 DEF Untouched, RowInv, InStep, Present, Terminal, Expired
<1>2. CASE Aged(k)
  BY <1>2 DEF Aged, RowInv, InStep, Present, Terminal, Less
<1>3. CASE Created(k)
  BY <1>3, MaxAttemptsAssumption DEF Created, NewJobRow, RowInv, InStep, Present, Terminal
<1>4. CASE Claimed(k)
  BY <1>4, NullAssumption
     DEF Claimed, Claimable, ClaimedRow, BumpedCase, RowInv, InStep, Present, Terminal
<1>5. CASE Succeeded(k)
  BY <1>5 DEF Succeeded, Ended, Unleased, ClosedCase, Released, RowInv, InStep, Present, Terminal
<1>6. CASE Cancelled(k)
  BY <1>6 DEF Cancelled, Ended, CancelledRow, ClosedCase, Released, RowInv, InStep, Present, Terminal
<1>7. CASE Retried(k)
  BY <1>7 DEF Retried, Ended, Unleased, BumpedCase, RowInv, InStep, Present, Terminal
<1>8. CASE Failed(k)
  BY <1>8 DEF Failed, Ended, Unleased, BumpedCase, Released, RowInv, InStep, Present, Terminal
<1>9. CASE Asked(k)
  BY <1>9 DEF Asked, CancellableRow, AskedRow, AskedCase, CancelledRow, ClosedCase, BumpedCase,
              Released, RowInv, InStep, Present, Terminal
<1> QED
  BY <1>1, <1>2, <1>3, <1>4, <1>5, <1>6, <1>7, <1>8, <1>9 DEF JobStep

LEMMA StepIdsInv ==
    ASSUME TypeOK, NEW k \in Requests, RowInv(k), IdsInv(k), JobStep(k) PROVE IdsInv(k)'
<1> USE JobFields
<1>1. CASE Untouched(k)
  BY <1>1 DEF Untouched, SameIds, IdsInv, Present
<1>2. CASE Aged(k)
  BY <1>2 DEF Aged, SameIds, IdsInv, Present
<1>3. CASE Created(k)
  BY <1>3 DEF Created, NewJobRow, IdsInv, RowInv, Present
<1>4. CASE Claimed(k)
  <2>1. \A n : <<k, n>> \in intents \/ <<k, n>> \in audited => n \in Nat
    BY DEF TypeOK
  <2> QED
    BY <1>4, <2>1 DEF Claimed, ClaimedRow, SameIds, IdsInv, Present
<1>5. CASE Succeeded(k)
  BY <1>5 DEF Succeeded, Ended, Unleased, IdsInv, Present
<1>6. CASE Cancelled(k)
  BY <1>6 DEF Cancelled, Ended, CancelledRow, IdsInv, Present
<1>7. CASE Retried(k)
  BY <1>7 DEF Retried, Ended, Unleased, IdsInv, Present
<1>8. CASE Failed(k)
  BY <1>8 DEF Failed, Ended, Unleased, IdsInv, Present
<1>9. CASE Asked(k)
  BY <1>9 DEF Asked, CancellableRow, AskedRow, CancelledRow, SameIds, IdsInv, Present
<1> QED
  BY <1>1, <1>2, <1>3, <1>4, <1>5, <1>6, <1>7, <1>8, <1>9 DEF JobStep

----------------------------------------------------------------------------
(* The theorems.                                                           *)

\* A suspended tenant's jobs drain.  Failing a lease requeues only a job that
\* is not to be cancelled, so the mark, once set by the suspension, is enough.
LEMMA StepSuspendedDrains ==
    ASSUME TypeOK, WorkersShaped, SuspendedDrains, [Next]_vars PROVE SuspendedDrains'
<1>1. CASE SuspendTenant
  <2> DEFINE S == {j \in Requests : CancellableRow(jobs[j])}
  <2>1. \A k \in Requests : IF k \in S THEN Asked(k) ELSE Untouched(k)
    BY <1>1, CancelJobsStep DEF SuspendTenant
  <2>2. ASSUME NEW k \in Requests
        PROVE  jobs'[k].state # "QUEUED" /\ (jobs'[k].state = "RUNNING" => jobs'[k].cancel)
    <3>1. CASE CancellableRow(jobs[k])
      <4>1. jobs'[k] = AskedRow(jobs[k])
        BY <2>1, <3>1 DEF Asked
      <4> QED
        BY <3>1, <4>1 DEF AskedRow, CancelledRow, CancellableRow
    <3>2. CASE ~CancellableRow(jobs[k])
      <4>1. jobs'[k] = jobs[k]
        BY <2>1, <3>2 DEF Untouched
      <4> QED
        BY <3>2, <4>1 DEF CancellableRow
    <3> QED
      BY <3>1, <3>2
  <2> QED
    BY <2>2 DEF SuspendedDrains
<1>2. CASE UNCHANGED tenant
  <2>1. SUFFICES ASSUME tenant = "SUSPENDED", NEW k \in Requests
                 PROVE  /\ jobs'[k].state # "QUEUED"
                        /\ jobs'[k].state = "RUNNING" => jobs'[k].cancel
    BY <1>2 DEF SuspendedDrains
  <2>2. JobStep(k)
    BY NextJobStep
  <2>3. jobs[k].state # "QUEUED" /\ (jobs[k].state = "RUNNING" => jobs[k].cancel)
    BY <2>1 DEF SuspendedDrains
  <2> QED
    BY <2>1, <2>2, <2>3
       DEF JobStep, Untouched, Aged, Created, Claimed, Claimable, Ended, Succeeded, Cancelled,
           Retried, Failed, Asked, CancellableRow, AskedRow, CancelledRow, Unleased
<1> QED
  BY <1>1, <1>2
     DEF Next, StartNext, WorkerNext, OperatorNext, StartCheck, AdmissionDenied, ReserveRejected,
         ReserveExisting, ReserveCreated, ClaimLease, FindByLease, BeginExecute, ExecuteSucceeds,
         ExecuteFails, AfterExecute, CompleteLease, CancelLease, FailLease, WorkerCrash,
         RecoverExpiredLease, RequestCancellation, Tick, vars

\* The inductive invariant of the engine.
EngineInv ==
    /\ TypeOK
    /\ WorkersShaped
    /\ \A k \in Requests : RowInv(k) /\ IdsInv(k)
    /\ SuspendedDrains

LEMMA EngineStep == ASSUME EngineInv, [Next]_vars PROVE EngineInv'
<1>1. TypeOK' /\ WorkersShaped'
  BY NextTypeOK, NextWorkersShaped DEF EngineInv
<1>2. ASSUME NEW k \in Requests PROVE RowInv(k)' /\ IdsInv(k)'
  BY NextJobStep, StepRowInv, StepIdsInv DEF EngineInv
<1>3. SuspendedDrains'
  BY StepSuspendedDrains DEF EngineInv
<1> QED
  BY <1>1, <1>2, <1>3 DEF EngineInv

\* EngineInv holds in every reachable state.
THEOREM EngineInvariant == Spec => []EngineInv
<1>1. Init => EngineInv
  BY InitTypeOK, InitRows DEF EngineInv, Init, SuspendedDrains
<1>2. EngineInv /\ [Next]_vars => EngineInv'
  BY EngineStep
<1> QED
  BY <1>1, <1>2, PTL DEF Spec

\* The job and case rows carry the same version in every reachable state, so
\* rowToRecord never finds a record corrupt.
THEOREM VersionsAgree == Spec => []VersionsInStep
<1>1. EngineInv => VersionsInStep
  BY DEF EngineInv, RowInv, VersionsInStep
<1> QED
  BY <1>1, EngineInvariant, PTL

\* Exactly the RUNNING jobs are leased and every QUEUED job has an attempt left.
THEOREM JobsKeepShape == Spec => []JobShape
<1>1. EngineInv => JobShape
  BY DEF EngineInv, RowInv, JobShape
<1> QED
  BY <1>1, EngineInvariant, PTL

\* A QUEUED job's next attempt is announced in the outbox.
THEOREM QueuedAnnounced == Spec => []QueuedIsAnnounced
<1>1. EngineInv => QueuedIsAnnounced
  BY DEF EngineInv, IdsInv, QueuedIsAnnounced
<1> QED
  BY <1>1, EngineInvariant, PTL

\* The identifiers that ending the present lease would write are unused, so the
\* announcement of a retry is never swallowed and recovery never aborts.
THEOREM RecoveryNeverCollides == Spec => []RecoveryIdsFresh
<1>1. EngineInv => RecoveryIdsFresh
  <2> SUFFICES ASSUME EngineInv, NEW j \in Requests, jobs[j].state = "RUNNING"
               PROVE  <<j, jobs[j].attempt>> \notin intents /\ <<j, jobs[j].attempt>> \notin audited
    BY DEF RecoveryIdsFresh
  <2> QED
    BY JobFields DEF EngineInv, IdsInv
<1> QED
  BY <1>1, EngineInvariant, PTL

\* A job that has ended holds no active-jobs reservation.
THEOREM QuotaReleased == Spec => []QuotaReleasedAtEnd
<1>1. EngineInv => QuotaReleasedAtEnd
  BY DEF EngineInv, RowInv, QuotaReleasedAtEnd
<1> QED
  BY <1>1, EngineInvariant, PTL

\* After a suspension nothing of the tenant waits and all that runs is marked.
THEOREM SuspensionDrains == Spec => []SuspendedDrains
<1>1. EngineInv => SuspendedDrains
  BY DEF EngineInv
<1> QED
  BY <1>1, EngineInvariant, PTL


----------------------------------------------------------------------------
(* The active-jobs quota.                                                  *)

\* A step adds one reservation at most, and only below the limit.
LEMMA LiveStep ==
    ASSUME TypeOK, WorkersShaped, [Next]_vars
    PROVE  \/ LiveReservations' \subseteq LiveReservations
           \/ /\ QuotaAvailable
              /\ \E r \in Requests : LiveReservations' \subseteq LiveReservations \cup {r}
<1>1. ASSUME NEW k \in Requests, ~Created(k), k \in LiveReservations'
      PROVE  k \in LiveReservations
  <2>1. quota[k].left \in Nat /\ JobStep(k)
    BY NextJobStep DEF TypeOK, QuotaRow
  <2> QED
    BY <1>1, <2>1
       DEF JobStep, LiveReservations, Untouched, Aged, Claimed, Succeeded, Cancelled, Retried,
           Failed, Asked, Released, Expired, Less
<1>2. CASE \A k \in Requests : ~Created(k)
  BY <1>1, <1>2 DEF LiveReservations
<1>3. ASSUME NEW r \in Requests, Created(r)
      PROVE  QuotaAvailable /\ LiveReservations' \subseteq LiveReservations \cup {r}
  <2>1. \A k \in Requests \ {r} : ~Created(k)
    BY <1>3 DEF Created, Present, NewJobRow
  <2> QED
    BY <1>1, <1>3, <2>1 DEF Created, LiveReservations
<1> QED
  BY <1>2, <1>3

\* The limit, and that there are finitely many live reservations to count.
QuotaInv == IsFiniteSet(LiveReservations) /\ ReservationsWithinLimit

\* Live reservations never exceed the tenant's limit, for any number of commands.
THEOREM QuotaKept == Spec => []ReservationsWithinLimit
<1>1. Init => QuotaInv
  <2>1. Init => LiveReservations = {}
    BY DEF Init, LiveReservations
  <2> QED
    BY <2>1, FS_EmptySet, LimitAssumption DEF QuotaInv, ReservationsWithinLimit
<1>2. TypeOK /\ WorkersShaped /\ QuotaInv /\ [Next]_vars => QuotaInv'
  <2> SUFFICES ASSUME TypeOK, WorkersShaped, QuotaInv, [Next]_vars PROVE QuotaInv'
    OBVIOUS
  <2>1. CASE LiveReservations' \subseteq LiveReservations
    <3>1. IsFiniteSet(LiveReservations') /\ Cardinality(LiveReservations') <= Cardinality(LiveReservations)
      BY <2>1, FS_Subset DEF QuotaInv
    <3> QED
      BY <3>1, FS_CardinalityType, LimitAssumption DEF QuotaInv, ReservationsWithinLimit
  <2>2. ASSUME QuotaAvailable, NEW r \in Requests, LiveReservations' \subseteq LiveReservations \cup {r}
        PROVE  QuotaInv'
    <3>1. /\ IsFiniteSet(LiveReservations \cup {r})
          /\ Cardinality(LiveReservations \cup {r}) <= Cardinality(LiveReservations) + 1
      <4>1. IsFiniteSet(LiveReservations) /\ Cardinality(LiveReservations) \in Nat
        BY FS_CardinalityType DEF QuotaInv
      <4>2. /\ IsFiniteSet(LiveReservations \cup {r})
            /\ Cardinality(LiveReservations \cup {r}) =
                  IF r \in LiveReservations THEN Cardinality(LiveReservations)
                  ELSE Cardinality(LiveReservations) + 1
        BY <4>1, FS_AddElement
      <4> QED
        BY <4>1, <4>2
    <3>2. /\ IsFiniteSet(LiveReservations')
          /\ Cardinality(LiveReservations') <= Cardinality(LiveReservations \cup {r})
      BY <2>2, <3>1, FS_Subset
    <3>3. /\ Cardinality(LiveReservations) \in Nat
          /\ Cardinality(LiveReservations \cup {r}) \in Nat
          /\ Cardinality(LiveReservations') \in Nat
      BY <3>1, <3>2, FS_CardinalityType DEF QuotaInv
    <3> QED
      BY <2>2, <3>1, <3>2, <3>3, LimitAssumption
         DEF QuotaInv, ReservationsWithinLimit, QuotaAvailable
  <2> QED
    BY <2>1, <2>2, LiveStep
<1>3. EngineInv => TypeOK /\ WorkersShaped
  BY DEF EngineInv
<1>4. QuotaInv => ReservationsWithinLimit
  BY DEF QuotaInv
<1> QED
  BY <1>1, <1>2, <1>3, <1>4, EngineInvariant, PTL DEF Spec


----------------------------------------------------------------------------
(* A live lease is ended by its holder only.                               *)

LEMMA OnlyHolderEnds ==
    ASSUME EngineInv, Next PROVE \A j \in Requests : EndedByHolder(j)
<1>1. SUFFICES ASSUME NEW j \in Requests, jobs[j].state = "RUNNING", jobs[j].lease > 0,
                      jobs'[j].state # "RUNNING"
               PROVE  EndedByHolder(j)
  BY DEF EndedByHolder
<1>2. ASSUME NEW w \in Workers, Owns(w), workers[w].job = j,
             workers[w].pc \in {"completing", "failing", "cancelling"}, Worker(w, IdleWorker)
      PROVE  EndedByHolder(j)
  BY <1>2 DEF EndedByHolder, Owns, Worker, IdleWorker, EngineInv, TypeOK
<1>3. ASSUME NEW w \in Workers, CompleteLease(w) PROVE EndedByHolder(j)
  <2>1. Completable(w) /\ workers[w].job = j
    BY <1>1, <1>3 DEF CompleteLease, EngineInv, TypeOK
  <2> QED
    BY <1>2, <1>3, <2>1 DEF CompleteLease, Completable
<1>4. ASSUME NEW w \in Workers, CancelLease(w) PROVE EndedByHolder(j)
  <2>1. CancellationRequested(w) /\ workers[w].job = j
    BY <1>1, <1>4 DEF CancelLease, CancelTransaction, EngineInv, TypeOK
  <2> QED
    BY <1>2, <1>4, <2>1 DEF CancelLease, CancellationRequested
<1>5. ASSUME NEW w \in Workers, FailLease(w) PROVE EndedByHolder(j)
  <2>1. Owns(w) /\ workers[w].job = j
    BY <1>1, <1>5 DEF FailLease, FailTransaction, CancelTransaction, EngineInv, TypeOK
  <2> QED
    BY <1>2, <1>5, <2>1 DEF FailLease
<1>6. ASSUME NEW k \in Requests, RecoverExpiredLease(k) PROVE FALSE
  <2>1. k # j
    BY <1>1, <1>6 DEF RecoverExpiredLease
  <2> QED
    BY <1>1, <1>6, <2>1
       DEF RecoverExpiredLease, FailTransaction, CancelTransaction, EngineInv, TypeOK
<1>7. ASSUME NEW S \in SUBSET Requests, CancelJobs(S) PROVE FALSE
  BY <1>1, <1>7 DEF CancelJobs, AskedRow
<1>8. ASSUME NEW w \in Workers, NEW k \in Requests, ClaimLease(w, k) PROVE FALSE
  BY <1>1, <1>8 DEF ClaimLease, ClaimedRow, EngineInv, TypeOK
<1>9. ASSUME NEW r \in Requests, ReserveCreated(r) PROVE FALSE
  BY <1>1, <1>9 DEF ReserveCreated, Existing, Present, EngineInv, TypeOK
<1>10. CASE Tick
  BY <1>1, <1>10 DEF Tick
<1>11. jobs' # jobs
  BY <1>1
<1> QED
  BY <1>3, <1>4, <1>5, <1>6, <1>7, <1>8, <1>9, <1>10, <1>11
     DEF Next, StartNext, WorkerNext, OperatorNext, StartCheck, AdmissionDenied, ReserveRejected,
         ReserveExisting, FindByLease, BeginExecute, ExecuteSucceeds, ExecuteFails, AfterExecute,
         WorkerCrash, RequestCancellation, SuspendTenant

\* Only the worker that holds the current attempt ends a lease before it lapses,
\* for any number of workers, zombies and lease lengths.
THEOREM LeaseExclusive == Spec => LiveLeaseIsExclusive
<1>1. EngineInv /\ [Next]_vars => [\A j \in Requests : EndedByHolder(j)]_vars
  BY OnlyHolderEnds
<1> QED
  BY <1>1, EngineInvariant, PTL DEF Spec, LiveLeaseIsExclusive

----------------------------------------------------------------------------
(* Attempts are fencing tokens.                                            *)

\* Ending a lease keeps the attempt and the row.
LEMMA EndedRow ==
    ASSUME NEW k \in Requests, Succeeded(k) \/ Cancelled(k) \/ Retried(k) \/ Failed(k)
    PROVE  jobs'[k].attempt = jobs[k].attempt /\ jobs'[k].state # "ABSENT"
<1>1. CASE Succeeded(k)
  BY <1>1 DEF Succeeded, Unleased
<1>2. CASE Cancelled(k)
  BY <1>2 DEF Cancelled, CancelledRow
<1>3. CASE Retried(k)
  BY <1>3 DEF Retried, Unleased
<1>4. CASE Failed(k)
  BY <1>4 DEF Failed, Unleased
<1> QED
  BY <1>1, <1>2, <1>3, <1>4

LEMMA AttemptsGrow ==
    ASSUME EngineInv, [Next]_vars
    PROVE  \A k \in Requests : jobs'[k].attempt >= jobs[k].attempt
<1> SUFFICES ASSUME NEW k \in Requests PROVE jobs'[k].attempt >= jobs[k].attempt
  OBVIOUS
<1>1. JobStep(k) /\ RowInv(k) /\ jobs[k].attempt \in Nat
  BY NextJobStep, JobFields DEF EngineInv
<1>2. CASE Created(k)
  BY <1>1, <1>2 DEF Created, RowInv, NewJobRow
<1>3. CASE Claimed(k)
  BY <1>1, <1>3 DEF Claimed, ClaimedRow
<1>4. CASE Untouched(k) \/ Aged(k)
  BY <1>1, <1>4 DEF Untouched, Aged
<1>5. CASE Asked(k)
  BY <1>1, <1>5 DEF Asked, AskedRow, CancelledRow
<1>6. CASE Succeeded(k) \/ Cancelled(k) \/ Retried(k) \/ Failed(k)
  BY <1>1, <1>6, EndedRow
<1> QED
  BY <1>1, <1>2, <1>3, <1>4, <1>5, <1>6 DEF JobStep

\* Outside a claim a consumer keeps its job and attempt or drops both.
LEMMA ConsumersKeepLease ==
    ASSUME EngineInv, [Next]_vars, \A w \in Workers, j \in Requests : ~ClaimLease(w, j)
    PROVE  \A w \in Workers :
              \/ workers'[w] = IdleWorker
              \/ /\ workers'[w].job = workers[w].job
                 /\ workers'[w].attempt = workers[w].attempt
                 /\ workers'[w].pc # "idle" => workers[w].pc # "idle"
<1> DEFINE Keeps == \A w \in Workers :
              \/ workers'[w] = IdleWorker
              \/ /\ workers'[w].job = workers[w].job
                 /\ workers'[w].attempt = workers[w].attempt
                 /\ workers'[w].pc # "idle" => workers[w].pc # "idle"
<1>1. CASE UNCHANGED workers
  BY <1>1
<1>2. ASSUME NEW w \in Workers, Worker(w, IdleWorker) PROVE Keeps
  BY <1>2 DEF Worker, EngineInv, TypeOK
<1>3. ASSUME NEW w \in Workers, NEW pc, NEW v, NEW o, workers[w].pc # "idle", Continue(w, pc, v, o)
      PROVE  Keeps
  BY <1>3 DEF Continue, Worker, EngineInv, TypeOK
<1> QED
  <2>1. ASSUME NEW w \in Workers, FindByLease(w) PROVE Keeps
    BY <1>2, <1>3, <2>1 DEF FindByLease
  <2>2. ASSUME NEW w \in Workers, BeginExecute(w) PROVE Keeps
    BY <1>3, <2>2 DEF BeginExecute
  <2>3. ASSUME NEW w \in Workers, NEW v \in Verdicts, ExecuteSucceeds(w, v) PROVE Keeps
    BY <1>3, <2>3 DEF ExecuteSucceeds
  <2>4. ASSUME NEW w \in Workers, NEW e \in {"RETRYABLE", "FATAL"}, ExecuteFails(w, e) PROVE Keeps
    BY <1>3, <2>4 DEF ExecuteFails
  <2>5. ASSUME NEW w \in Workers, AfterExecute(w) PROVE Keeps
    BY <1>3, <2>5 DEF AfterExecute
  <2>6. ASSUME NEW w \in Workers,
               CompleteLease(w) \/ CancelLease(w) \/ FailLease(w) \/ WorkerCrash(w)
        PROVE  Keeps
    BY <1>2, <2>6 DEF CompleteLease, CancelLease, FailLease, WorkerCrash
  <2>7. CASE StartNext \/ OperatorNext \/ SuspendTenant \/ Tick \/ UNCHANGED vars
    BY <1>1, <2>7
       DEF StartNext, StartCheck, AdmissionDenied, ReserveRejected, ReserveExisting, ReserveCreated,
           OperatorNext, RecoverExpiredLease, RequestCancellation, SuspendTenant, Tick, vars
  <2> QED
    BY <2>1, <2>2, <2>3, <2>4, <2>5, <2>6, <2>7 DEF Next, WorkerNext

LEMMA StepUniqueFence ==
    ASSUME EngineInv, UniqueFence, [Next]_vars PROVE UniqueFence'
<1> SUFFICES ASSUME NEW w \in Workers, workers'[w].pc # "idle"
             PROVE  /\ workers'[w].attempt \in 1..jobs'[workers'[w].job].attempt
                    /\ \A v \in Workers \ {w} :
                          ~(/\ workers'[v].job = workers'[w].job
                            /\ workers'[v].attempt = workers'[w].attempt)
  BY DEF UniqueFence
<1> USE JobFields, WorkerFields, NullAssumption DEF EngineInv, WorkersShaped
<1>1. CASE \A u \in Workers, j \in Requests : ~ClaimLease(u, j)
  <2>1. /\ workers'[w].job = workers[w].job
        /\ workers'[w].attempt = workers[w].attempt
        /\ workers[w].pc # "idle"
    BY <1>1, ConsumersKeepLease DEF IdleWorker
  <2>2. workers'[w].attempt \in 1..jobs'[workers'[w].job].attempt
    <3>1. workers[w].job \in Requests /\ workers[w].attempt \in 1..jobs[workers[w].job].attempt
      BY <2>1 DEF UniqueFence
    <3>2. TypeOK'
      BY NextTypeOK
    <3>3. jobs'[workers[w].job].attempt \in Nat
      BY <3>1, <3>2 DEF TypeOK, JobRow
    <3>4. jobs'[workers[w].job].attempt >= jobs[workers[w].job].attempt
      BY <3>1, AttemptsGrow
    <3> QED
      BY <2>1, <3>1, <3>3, <3>4
  <2>3. ASSUME NEW v \in Workers \ {w}
        PROVE  ~(/\ workers'[v].job = workers'[w].job
                 /\ workers'[v].attempt = workers'[w].attempt)
    <3>1. CASE workers'[v] = IdleWorker
      BY <2>1, <3>1 DEF IdleWorker
    <3>2. CASE workers'[v].job = workers[v].job /\ workers'[v].attempt = workers[v].attempt
      BY <2>1, <3>2 DEF UniqueFence
    <3> QED
      BY <1>1, <3>1, <3>2, ConsumersKeepLease
  <2> QED
    BY <2>2, <2>3
<1>2. ASSUME NEW u \in Workers, NEW j \in Requests, ClaimLease(u, j)
      PROVE  /\ workers'[w].attempt \in 1..jobs'[workers'[w].job].attempt
             /\ \A v \in Workers \ {w} :
                   ~(/\ workers'[v].job = workers'[w].job
                     /\ workers'[v].attempt = workers'[w].attempt)
  <2>1. /\ workers'[u].job = j
        /\ workers'[u].attempt = jobs[j].attempt + 1
        /\ jobs'[j].attempt = jobs[j].attempt + 1
        /\ \A v \in Workers \ {u} : workers'[v] = workers[v]
        /\ \A k \in Requests \ {j} : jobs'[k] = jobs[k]
    BY <1>2 DEF ClaimLease, Worker, ClaimedRow, TypeOK
  \* Nobody holds the attempt the claim hands out.
  <2>2. \A v \in Workers : ~(workers[v].job = j /\ workers[v].attempt = jobs[j].attempt + 1)
    BY DEF UniqueFence
  <2>3. CASE w = u
    BY <2>1, <2>2, <2>3
  <2>4. CASE w # u
    <3>1. workers[w].job \in Requests /\ workers[w].attempt \in 1..jobs[workers[w].job].attempt
      BY <2>1, <2>4 DEF UniqueFence
    <3>2. workers'[w].attempt \in 1..jobs'[workers'[w].job].attempt
      BY <2>1, <2>4, <3>1
    <3> QED
      BY <2>1, <2>2, <2>4, <3>2 DEF UniqueFence
  <2> QED
    BY <2>3, <2>4
<1> QED
  BY <1>1, <1>2

\* No two workers ever hold the same attempt of a job, and none holds an attempt
\* that no claim has handed out.
THEOREM FencesUnique == Spec => []UniqueFence
<1>1. Init => UniqueFence
  BY DEF Init, UniqueFence, IdleWorker
<1>2. EngineInv /\ UniqueFence /\ [Next]_vars => UniqueFence'
  BY StepUniqueFence
<1> QED
  BY <1>1, <1>2, EngineInvariant, PTL DEF Spec

----------------------------------------------------------------------------
(* An idempotency key names one job.                                       *)

\* Rows are never deleted, and only the reservation of its own command makes a
\* job present.
LEMMA PresenceKept ==
    ASSUME EngineInv, [Next]_vars, NEW k \in Requests
    PROVE  /\ Present(k) => Present(k)'
           /\ Present(k)' /\ ~Present(k) => Created(k)
<1>1. JobStep(k)
  BY NextJobStep DEF EngineInv
<1>2. CASE Created(k)
  BY <1>2 DEF Created, NewJobRow, Present
<1>3. CASE Untouched(k) \/ Aged(k)
  <2>1. jobs'[k].state = jobs[k].state
    BY <1>3 DEF Untouched, Aged
  <2> QED
    BY <2>1 DEF Present
<1>4. CASE Asked(k)
  BY <1>4 DEF Asked, CancellableRow, AskedRow, CancelledRow, Present
<1>5. CASE Claimed(k)
  BY <1>5 DEF Claimed, Claimable, ClaimedRow, Present
<1>6. CASE Succeeded(k) \/ Cancelled(k) \/ Retried(k) \/ Failed(k)
  <2>1. jobs[k].state = "RUNNING"
    BY <1>6 DEF Succeeded, Cancelled, Retried, Failed, Ended
  <2> QED
    BY <1>6, <2>1, EndedRow DEF Present
<1> QED
  BY <1>1, <1>2, <1>3, <1>4, <1>5, <1>6 DEF JobStep

\* The answer to an accepted command: a job of its own key and hash.
Answered(r) ==
    requests[r].pc = "accepted" =>
        /\ requests[r].job \in Requests
        /\ Present(requests[r].job)
        /\ KeyOf[requests[r].job] = KeyOf[r]
        /\ HashOf[requests[r].job] = HashOf[r]

UniqueKeys == \A i, j \in Requests : Present(i) /\ Present(j) /\ KeyOf[i] = KeyOf[j] => i = j

\* A step leaves a command alone, turns it down or sends it on, or answers it
\* with a job found under its key or with the one it creates.
LEMMA CommandStep ==
    ASSUME EngineInv, [Next]_vars, NEW q \in Requests
    PROVE  \/ requests'[q] = requests[q]
           \/ requests'[q].pc # "accepted"
           \/ \E j \in Existing(q) : HashOf[j] = HashOf[q] /\ requests'[q] = [pc |-> "accepted", job |-> j]
           \/ Created(q) /\ requests'[q] = [pc |-> "accepted", job |-> q]
<1> USE DEF EngineInv
<1>1. CASE UNCHANGED requests
  BY <1>1
<1>2. ASSUME NEW r \in Requests, AnswerExisting(r) PROVE
           \/ requests'[q] = requests[q]
           \/ requests'[q].pc # "accepted"
           \/ \E j \in Existing(q) : HashOf[j] = HashOf[q] /\ requests'[q] = [pc |-> "accepted", job |-> j]
  BY <1>2 DEF AnswerExisting, Answer, TypeOK
<1>3. ASSUME NEW r \in Requests, NEW pc \in {"checked", "rejected"}, Answer(r, pc, NoJob)
      PROVE  requests'[q] = requests[q] \/ requests'[q].pc # "accepted"
  BY <1>3 DEF Answer, TypeOK
<1>4. ASSUME NEW r \in Requests, ReserveCreated(r)
      PROVE  \/ requests'[q] = requests[q]
             \/ Created(q) /\ requests'[q] = [pc |-> "accepted", job |-> q]
  <2>1. ~Present(r)
    BY <1>4 DEF ReserveCreated, Existing
  <2>2. Created(r)
    BY <1>4, <2>1 DEF ReserveCreated, Created, TypeOK
  <2> QED
    BY <1>4, <2>2 DEF ReserveCreated, Answer, TypeOK
<1>5. ASSUME NEW r \in Requests,
             StartCheck(r) \/ AdmissionDenied(r) \/ ReserveRejected(r) \/ ReserveExisting(r)
      PROVE  \/ requests'[q] = requests[q]
             \/ requests'[q].pc # "accepted"
             \/ \E j \in Existing(q) : HashOf[j] = HashOf[q] /\ requests'[q] = [pc |-> "accepted", job |-> j]
  BY <1>2, <1>3, <1>5 DEF StartCheck, AdmissionDenied, ReserveRejected, ReserveExisting
<1>6. CASE WorkerNext \/ OperatorNext \/ SuspendTenant \/ Tick \/ UNCHANGED vars
  BY <1>1, <1>6
     DEF WorkerNext, OperatorNext, ClaimLease, FindByLease, BeginExecute, ExecuteSucceeds,
         ExecuteFails, AfterExecute, CompleteLease, CancelLease, FailLease, WorkerCrash,
         RecoverExpiredLease, RequestCancellation, SuspendTenant, Tick, vars
<1> QED
  BY <1>4, <1>5, <1>6 DEF Next, StartNext

LEMMA StepAnswered ==
    ASSUME EngineInv, [Next]_vars, NEW q \in Requests, Answered(q) PROVE Answered(q)'
<1>1. CASE requests'[q] = requests[q]
  <2>1. \A k \in Requests : Present(k) => Present(k)'
    BY PresenceKept
  <2> QED
    BY <1>1, <2>1 DEF Answered, Present
<1>2. CASE requests'[q].pc # "accepted"
  BY <1>2 DEF Answered
<1>3. ASSUME NEW j \in Existing(q), HashOf[j] = HashOf[q],
             requests'[q] = [pc |-> "accepted", job |-> j]
      PROVE  Answered(q)'
  <2>1. j \in Requests /\ Present(j) /\ KeyOf[j] = KeyOf[q]
    BY DEF Existing
  <2>2. Present(j)'
    BY <2>1, PresenceKept
  <2> QED
    BY <1>3, <2>1, <2>2 DEF Answered, Present
<1>4. CASE Created(q) /\ requests'[q] = [pc |-> "accepted", job |-> q]
  BY <1>4 DEF Created, NewJobRow, Answered, Present
<1> QED
  BY <1>1, <1>2, <1>3, <1>4, CommandStep

\* A job appears only in a reservation that found its key unused.
LEMMA StepUniqueKeys ==
    ASSUME EngineInv, [Next]_vars, UniqueKeys PROVE UniqueKeys'
<1>1. ASSUME NEW i \in Requests, NEW j \in Requests, Present(i)', Present(j)',
             KeyOf[i] = KeyOf[j], ~Present(i), i # j
      PROVE  FALSE
  <2>1. Created(i)
    BY <1>1, PresenceKept
  <2>2. Present(j)
    BY <1>1, <2>1 DEF Created, Present
  <2> QED
    BY <1>1, <2>1, <2>2 DEF Created, Existing
<1>2. SUFFICES ASSUME NEW i \in Requests, NEW j \in Requests, Present(i)', Present(j)',
                      KeyOf[i] = KeyOf[j]
               PROVE  i = j
  BY DEF UniqueKeys
<1>3. CASE Present(i) /\ Present(j)
  BY <1>2, <1>3 DEF UniqueKeys
<1> QED
  BY <1>1, <1>2, <1>3

\* However many commands race between the look-up and the reservation, a key
\* names one job and each accepted command holds the job of its key and hash.
THEOREM KeysUnique == Spec => []OneJobPerKey
<1> DEFINE KeyInv == UniqueKeys /\ \A r \in Requests : Answered(r)
<1>1. Init => KeyInv
  BY DEF Init, UniqueKeys, Answered, Present, NoJobRow
<1>2. EngineInv /\ KeyInv /\ [Next]_vars => KeyInv'
  <2> SUFFICES ASSUME EngineInv, KeyInv, [Next]_vars PROVE KeyInv'
    OBVIOUS
  <2>1. UniqueKeys'
    BY StepUniqueKeys
  <2>2. ASSUME NEW q \in Requests PROVE Answered(q)'
    BY StepAnswered
  <2> QED
    BY <2>1, <2>2
<1>3. KeyInv => OneJobPerKey
  BY DEF UniqueKeys, Answered, OneJobPerKey
<1> HIDE DEF KeyInv
<1> QED
  BY <1>1, <1>2, <1>3, EngineInvariant, PTL DEF Spec

----------------------------------------------------------------------------
(* The refinement: leases, attempts, versions, quotas and announcements    *)
(* hidden, each step of the engine moves each job along its lifecycle or   *)
(* leaves it alone.                                                        *)

\* The rows of a job after a step, seen through the refinement mapping.
LEMMA MappedStep ==
    ASSUME NEW k \in Requests, TypeOK, TypeOK'
    PROVE  /\ [j \in Requests |-> StatusOf(j)][k] = StatusOf(k)
           /\ ([j \in Requests |-> StatusOf(j)]')[k] = StatusOf(k)'
           /\ [j \in Requests |-> jobs[j].cancel][k] = jobs[k].cancel
           /\ ([j \in Requests |-> jobs[j].cancel]')[k] = jobs'[k].cancel
           /\ [j \in Requests |-> cases[j].state][k] = cases[k].state
           /\ ([j \in Requests |-> cases[j].state]')[k] = cases'[k].state
OBVIOUS

\* What happens to the rows of a job is a step of its lifecycle.
LEMMA StepImplements ==
    ASSUME TypeOK, TypeOK', NEW k \in Requests, JobStep(k) PROVE Lifecycle!JobStep(k)
<1> USE MappedStep, JobFields
<1>1. CASE Untouched(k) \/ Aged(k)
  <2>1. /\ jobs'[k].state = jobs[k].state /\ jobs'[k].cancel = jobs[k].cancel
        /\ cases'[k] = cases[k]
    BY <1>1 DEF Untouched, Aged
  <2>2. Lifecycle!Same(k)
    BY <2>1 DEF Lifecycle!Same, StatusOf
  <2> QED
    BY <2>2 DEF Lifecycle!JobStep
<1>2. CASE Created(k)
  <2>1. Lifecycle!Create(k)
    BY <1>2 DEF Created, NewJobRow, Present, StatusOf, Lifecycle!Create
  <2> QED
    BY <2>1 DEF Lifecycle!JobStep
<1>3. CASE Claimed(k)
  <2>1. Lifecycle!Same(k)
    BY <1>3 DEF Claimed, Claimable, ClaimedRow, BumpedCase, StatusOf, Lifecycle!Same
  <2> QED
    BY <2>1 DEF Lifecycle!JobStep
<1>4. CASE Succeeded(k)
  <2>1. Lifecycle!Succeed(k)
    BY <1>4 DEF Succeeded, Ended, Unleased, ClosedCase, StatusOf, Lifecycle!Succeed
  <2> QED
    BY <2>1 DEF Lifecycle!JobStep
<1>5. CASE Cancelled(k)
  <2>1. Lifecycle!Cancel(k)
    BY <1>5 DEF Cancelled, Ended, CancelledRow, ClosedCase, StatusOf, Lifecycle!Cancel
  <2> QED
    BY <2>1 DEF Lifecycle!JobStep
<1>6. CASE Retried(k)
  <2>1. Lifecycle!Same(k)
    BY <1>6 DEF Retried, Ended, Unleased, BumpedCase, StatusOf, Lifecycle!Same
  <2> QED
    BY <2>1 DEF Lifecycle!JobStep
<1>7. CASE Failed(k)
  <2>1. Lifecycle!Fail(k)
    BY <1>7 DEF Failed, Ended, Unleased, BumpedCase, StatusOf, Lifecycle!Fail
  <2> QED
    BY <2>1 DEF Lifecycle!JobStep
<1>8. CASE Asked(k) /\ jobs[k].state = "QUEUED"
  <2>1. Lifecycle!Cancel(k)
    BY <1>8 DEF Asked, AskedRow, AskedCase, CancelledRow, ClosedCase, StatusOf, Lifecycle!Cancel
  <2> QED
    BY <2>1 DEF Lifecycle!JobStep
<1>9. CASE Asked(k) /\ jobs[k].state # "QUEUED"
  <2>1. Lifecycle!AskToCancel(k)
    BY <1>9 DEF Asked, CancellableRow, AskedRow, AskedCase, BumpedCase, StatusOf,
                Lifecycle!AskToCancel
  <2> QED
    BY <2>1 DEF Lifecycle!JobStep
<1> QED
  BY <1>1, <1>2, <1>3, <1>4, <1>5, <1>6, <1>7, <1>8, <1>9 DEF JobStep

LEMMA MappedType == TypeOK => Lifecycle!LifecycleTypeOK
BY JobFields DEF TypeOK, JobRow, CaseRow, StatusOf, Lifecycle!LifecycleTypeOK, Lifecycle!Ends

\* Each job reaches one end only, a cancellation is never lost or overruled, and
\* the verdict is written exactly when the job ends, for any number of workers,
\* crashes, retries and races.
THEOREM EngineImplementsLifecycle == Spec => ImplementsLifecycle
<1>1. Init => Lifecycle!LifecycleInit
  BY DEF Init, NoJobRow, StatusOf, Lifecycle!LifecycleInit
<1>2. EngineInv /\ EngineInv' /\ [Next]_vars => [Lifecycle!LifecycleNext]_(Lifecycle!lifecycleVars)
  <2> SUFFICES ASSUME EngineInv, EngineInv', [Next]_vars PROVE Lifecycle!LifecycleNext
    OBVIOUS
  <2>1. Lifecycle!LifecycleTypeOK'
    BY MappedType, PTL DEF EngineInv
  <2>2. ASSUME NEW k \in Requests PROVE Lifecycle!JobStep(k)
    BY StepImplements, NextJobStep DEF EngineInv
  <2> QED
    BY <2>1, <2>2 DEF Lifecycle!LifecycleNext
<1> QED
  BY <1>1, <1>2, EngineInvariant, PTL DEF Spec, ImplementsLifecycle, Lifecycle!LifecycleSpec
=============================================================================
