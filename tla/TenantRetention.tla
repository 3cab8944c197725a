-------------------------- MODULE TenantRetention ---------------------------
(***************************************************************************)
(* Deletion of a tenant's data, composed with the artifact store whose     *)
(* objects it removes.  A deletion request suspends the tenant; once no    *)
(* job runs an executor claims the request, takes a snapshot of the        *)
(* artifact rows, removes their objects one by one, and purges the rows in *)
(* a last transaction.  Executors may overlap when a claim lapses, and a   *)
(* put begun before the suspension may still be under way: its worker lost *)
(* its lease and does not know yet.                                        *)
(***************************************************************************)
EXTENDS ArtifactStore, FiniteSets

CONSTANTS
    Deletions,         \* identities of deletion requests
    Executors,         \* processes running executeNext
    MaxProviderFaults, \* bound on failed removals: the provider recovers
    MaxClaims,         \* bound on the claims of one request
    NoDeletion,        \* an executor without a claim
    NoExecutor         \* claim_owner is NULL

ASSUME RetentionAssumption ==
    /\ MaxProviderFaults \in Nat
    /\ MaxClaims \in Nat
    /\ NoDeletion \notin Deletions
    /\ NoExecutor \notin Executors

VARIABLES
    running,       \* the tenant has a RUNNING job
    deletions,     \* deletions[d]: the row of table deletion_requests
    executors,     \* executors[x]: the local state of executeNext
    providerFaults \* removals that failed so far

retentionVars == <<storeVars, running, deletions, executors, providerFaults>>

NoClaim == [state |-> "NONE", version |-> 0, owner |-> NoExecutor, lapsed |-> FALSE]

IdleExecutor ==
    [pc |-> "idle", deletion |-> NoDeletion, version |-> 0,
     snapshot |-> [a \in Artifacts |-> NoRow], todo |-> {}]

RetentionTypeOK ==
    /\ StoreTypeOK
    /\ running \in BOOLEAN
    /\ deletions \in [Deletions ->
          [state: {"NONE", "SCHEDULED", "RUNNING", "FAILED", "COMPLETED"}, version: Nat,
           owner: Executors \cup {NoExecutor}, lapsed: BOOLEAN]]
    /\ \A x \in Executors :
          /\ executors[x].pc \in {"idle", "removing", "failing"}
          /\ executors[x].deletion \in Deletions \cup {NoDeletion}
          /\ executors[x].todo \subseteq Artifacts
    /\ providerFaults \in 0..MaxProviderFaults

RetentionInit ==
    /\ StoreInit
    /\ running = FALSE
    /\ deletions = [d \in Deletions |-> NoClaim]
    /\ executors = [x \in Executors |-> IdleExecutor]
    /\ providerFaults = 0

Active(d) == deletions[d].state \in {"SCHEDULED", "RUNNING"}

Executor(x, state) == executors' = [executors EXCEPT ![x] = state]

----------------------------------------------------------------------------
(* The jobs of the tenant, as far as deletion depends on them.             *)

\* A worker claims a job: claimLease requires an ACTIVE tenant.
JobRuns ==
    /\ tenant = "ACTIVE"
    /\ ~running
    /\ running' = TRUE
    /\ UNCHANGED <<storeVars, deletions, executors, providerFaults>>

\* The job ends, is cancelled, or its lapsed lease is recovered; in the last
\* case its worker may still be writing.
JobEnds ==
    /\ running
    /\ running' = FALSE
    /\ UNCHANGED <<storeVars, deletions, executors, providerFaults>>

Store ==
    /\ StoreNext
    /\ UNCHANGED <<running, deletions, executors, providerFaults>>

----------------------------------------------------------------------------
(* Requesting.                                                             *)

\* One active request per tenant (deletion_requests_one_active_idx), inserted
\* together with the suspension of the tenant and the cancellation of its jobs.
Schedule(d) ==
    /\ deletions[d].state = "NONE"
    /\ ~ \E e \in Deletions : Active(e)
    /\ deletions' = [deletions EXCEPT ![d] = [NoClaim EXCEPT !.state = "SCHEDULED", !.version = 1]]
    /\ tenant' = IF tenant = "ACTIVE" THEN "SUSPENDED" ELSE tenant
    /\ UNCHANGED <<rows, objects, writers, deleters, calls, faults, running, executors, providerFaults>>

\* The user asks for deletion; after a FAILED request a new one may be made.
Request(d) == tenant # "DELETED" /\ Schedule(d)

\* The retention date of an ACTIVE tenant has come.
ScheduleDue(d) == tenant = "ACTIVE" /\ Schedule(d)

----------------------------------------------------------------------------
(* Executing.                                                              *)

\* claimNext: a scheduled request, or a running one whose claim lapsed, of a
\* tenant without a RUNNING job.  The claim's answer is a snapshot of the rows.
ClaimNext(x, d) ==
    /\ executors[x].pc = "idle"
    /\ ~running
    /\ \/ deletions[d].state = "SCHEDULED" /\ tenant \in {"ACTIVE", "SUSPENDED"}
       \/ deletions[d].state = "RUNNING" /\ deletions[d].lapsed /\ tenant = "DELETING"
    /\ deletions[d].version <= MaxClaims
    /\ deletions' = [deletions EXCEPT ![d] =
                        [state |-> "RUNNING", version |-> @.version + 1,
                         owner |-> x, lapsed |-> FALSE]]
    /\ tenant' = "DELETING"
    /\ Executor(x, [pc |-> "removing", deletion |-> d, version |-> deletions[d].version + 1,
                    snapshot |-> rows,
                    todo |-> {a \in Artifacts : rows[a].status # "NONE"}])
    /\ UNCHANGED <<rows, objects, writers, deleters, calls, faults, running, providerFaults>>

\* Five minutes have passed since the claim.
ClaimLapses(d) ==
    /\ deletions[d].state = "RUNNING"
    /\ ~deletions[d].lapsed
    /\ deletions' = [deletions EXCEPT ![d].lapsed = TRUE]
    /\ UNCHANGED <<storeVars, running, executors, providerFaults>>

Settled(row) == row.status \notin {"PENDING", "DELETING"}

\* An object is taken for removed although the provider refused.
RemoveObjectMutant(x, a) ==
    /\ executors[x].pc = "removing"
    /\ a \in executors[x].todo
    /\ Settled(executors[x].snapshot[a])
    /\ objects' \in {objects, objects \ {a}}
    /\ Executor(x, [executors[x] EXCEPT !.todo = @ \ {a}])
    /\ UNCHANGED <<tenant, rows, writers, deleters, calls, faults, running, deletions, providerFaults>>

\* The object of a settled artifact is removed, or is not there.
RemoveObject(x, a) ==
    /\ executors[x].pc = "removing"
    /\ a \in executors[x].todo
    /\ Settled(executors[x].snapshot[a])
    /\ objects' = objects \ {a}
    /\ Executor(x, [executors[x] EXCEPT !.todo = @ \ {a}])
    /\ UNCHANGED <<tenant, rows, writers, deleters, calls, faults, running, deletions, providerFaults>>

\* RETENTION_ARTIFACT_NOT_SETTLED: the snapshot shows a put or delete under way.
FindUnsettled(x, a) ==
    /\ executors[x].pc = "removing"
    /\ a \in executors[x].todo
    /\ ~Settled(executors[x].snapshot[a])
    /\ Executor(x, [executors[x] EXCEPT !.pc = "failing"])
    /\ UNCHANGED <<storeVars, running, deletions, providerFaults>>

\* RETENTION_PROVIDER_FAILURE: the provider keeps the object, or throws whether or
\* not it removed it.
RemoveFails(x, a) ==
    /\ executors[x].pc = "removing"
    /\ a \in executors[x].todo
    /\ Settled(executors[x].snapshot[a])
    /\ providerFaults < MaxProviderFaults
    /\ providerFaults' = providerFaults + 1
    /\ objects' \in {objects, objects \ {a}}
    /\ Executor(x, [executors[x] EXCEPT !.pc = "failing"])
    /\ UNCHANGED <<tenant, rows, writers, deleters, calls, faults, running, deletions>>

\* The claim named by version, owner and expiry is still the request's.
HoldsClaim(x) ==
    LET d == executors[x].deletion IN
    /\ deletions[d].state = "RUNNING"
    /\ deletions[d].version = executors[x].version
    /\ deletions[d].owner = x

\* markFailed: the request is FAILED and the tenant stays suspended.  An executor
\* that lost its claim throws.
MarkFailed(x) ==
    /\ executors[x].pc = "failing"
    /\ IF HoldsClaim(x)
       THEN /\ deletions' = [deletions EXCEPT ![executors[x].deletion] =
                                [state |-> "FAILED", version |-> @.version + 1,
                                 owner |-> NoExecutor, lapsed |-> FALSE]]
            /\ tenant' = IF tenant = "DELETING" THEN "SUSPENDED" ELSE tenant
       ELSE UNCHANGED <<deletions, tenant>>
    /\ Executor(x, IdleExecutor)
    /\ UNCHANGED <<rows, objects, writers, deleters, calls, faults, running, providerFaults>>

\* complete: every row of the tenant is purged in the transaction that makes
\* the tenant DELETED.  The artifact rows are not looked at again.
Complete(x) ==
    /\ executors[x].pc = "removing"
    /\ executors[x].todo = {}
    /\ IF HoldsClaim(x) /\ tenant = "DELETING"
       THEN /\ rows' = [a \in Artifacts |-> NoRow]
            /\ deletions' = [deletions EXCEPT ![executors[x].deletion] =
                                [state |-> "COMPLETED", version |-> @.version + 1,
                                 owner |-> NoExecutor, lapsed |-> FALSE]]
            /\ tenant' = "DELETED"
       ELSE UNCHANGED <<rows, deletions, tenant>>
    /\ Executor(x, IdleExecutor)
    /\ UNCHANGED <<objects, writers, deleters, calls, faults, running, providerFaults>>

ExecutorCrash(x) ==
    /\ executors[x].pc # "idle"
    /\ Executor(x, IdleExecutor)
    /\ UNCHANGED <<storeVars, running, deletions, providerFaults>>

----------------------------------------------------------------------------
ExecuteNext(x) ==
    \/ \E d \in Deletions : ClaimNext(x, d)
    \/ \E a \in Artifacts : RemoveObject(x, a) \/ FindUnsettled(x, a)
    \/ MarkFailed(x)
    \/ Complete(x)

RetentionNext ==
    \/ JobRuns
    \/ JobEnds
    \/ Store
    \/ \E d \in Deletions : Request(d) \/ ScheduleDue(d) \/ ClaimLapses(d)
    \/ \E x \in Executors :
          ExecuteNext(x) \/ ExecutorCrash(x) \/ \E a \in Artifacts : RemoveFails(x, a)

RetentionSpec == RetentionInit /\ [][RetentionNext]_retentionVars

\* The operator keeps running retention:execute, running jobs end, and a put
\* under way goes on.
RetentionFairness ==
    /\ WF_retentionVars(JobEnds)
    /\ WF_retentionVars(Store)
    /\ \A d \in Deletions : WF_retentionVars(ClaimLapses(d))
    /\ \A x \in Executors : WF_retentionVars(ExecuteNext(x))

FairRetentionSpec == RetentionSpec /\ RetentionFairness

----------------------------------------------------------------------------
\* The tenant's status and the state of its one active request tell the same
\* story, whichever of several overlapping executors wrote last.
StatusFollowsRequest ==
    /\ Cardinality({d \in Deletions : Active(d)}) <= 1
    /\ tenant = "DELETING" <=> \E d \in Deletions : deletions[d].state = "RUNNING"
    /\ tenant = "DELETED" <=> \E d \in Deletions : deletions[d].state = "COMPLETED"
    /\ tenant = "ACTIVE" => \A d \in Deletions : deletions[d].state = "NONE"

\* A deleted tenant never owns an artifact row again, although a put of its own
\* may have been half-way when it was deleted.
PurgedStaysPurged ==
    tenant = "DELETED" => \A a \in Artifacts : rows[a] = NoRow

\* Provider first: when the rows are purged, the object of every artifact that
\* is as the executor's snapshot saw it is gone, whoever held the claim before.
ProviderFirst ==
    [][\A x \in Executors, a \in Artifacts :
          /\ tenant # "DELETED" /\ tenant' = "DELETED"
          /\ executors[x].pc = "removing" /\ HoldsClaim(x)
          /\ rows[a] = executors[x].snapshot[a]
          => a \notin objects]_retentionVars

\* No object of a deleted tenant outlives it, once the writers are done.  The code
\* does not keep this: a put may re-claim a FAILED row after the executor's
\* snapshot.  No run checks it.
NoOrphanObject ==
    tenant = "DELETED" /\ (\A w \in Writers : writers[w].pc = "idle") => objects = {}

\* A deletion that failed is retried by running the executor again, and completes
\* since the provider works again (docs/operations.md, lines 147 and 240).
FailedDeletionRetried ==
    \A d \in Deletions : (deletions[d].state = "FAILED") ~> (deletions[d].state = "COMPLETED")
=============================================================================
