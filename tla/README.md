# ReproForge in TLA+

ReproForge takes a bug report against a repository, reproduces it in an isolated
sandbox and returns a verdict with a verifiable bundle.  The hosted backend keeps
its state in PostgreSQL, carries work over a queue, stores bundles in a private
blob store, and must survive crashes, duplicate deliveries, slow workers and
webhooks that come in any order.  This directory specifies that backend, checks it
with TLC and proves with TLAPS what matters most of each part that keeps state.

Paths below are relative to the repository.

## 1. Inventory

| Component | State | Operations | What is hard | What makes it correct |
| --- | --- | --- | --- | --- |
| Durable job engine (`src/infrastructure/postgres/repositories.ts`, `src/application/durable-*.ts`, `src/domain/{job,case}.ts`) | `cases`, `jobs`, `idempotency_keys`, `quota_ledger`, `tenants.status`; a consumer's lease and record | start, claim, load, execute, complete, fail, retry, cancel, recover, suspend | a consumer crosses five transactions and may be overtaken in each gap; leases lapse under running workers; starts check before they act | one end per job; cancellation wins; the attempt is a fencing token; job and case versions in step; one job per key; the limit holds |
| Outbox, publisher, queue (`repositories.ts`, `src/application/outbox-publisher.ts`, `src/infrastructure/queue/vercel-job-queue.ts`) | `outbox_events`; the provider's messages | append, claim, send, mark delivered, record failure, deliver, acknowledge | at-least-once delivery, crash between send and mark, a delivery that comes too early is acknowledged and lost | a queued job always has something that wakes it; every job ends |
| Artifact store (`src/infrastructure/artifacts/`) | `artifacts` rows and blob objects | put, read, delete | two stores without a common transaction, retries, compensation | an AVAILABLE row has its object, a DELETED one has not |
| Tenant retention (`src/infrastructure/retention/`) | `deletion_requests`, `tenants.status` | request, schedule, claim, remove objects, fail, complete | overlapping executors after a lapsed claim, uploads that race the purge | objects before rows; a purged tenant stays purged; failures are retried |
| Sandbox execution (`src/execution/`) | sandbox sessions, a snapshot, network policy, time budgets | create, acquire, install, snapshot, run, clean up | abort and timeout against every asynchronous step | nothing leaks; no result of an aborted run is used |
| Sandbox quarantine (`src/infrastructure/execution/`, `.../postgres-sandbox-quarantine-operator.ts`) | audit events | record, list, resolve | crash between the provider's delete and the audit | each leaked resource stays listed until it is gone |
| GitHub authorization (`src/github/`, `src/infrastructure/github/`, `src/app/api/github/`) | one-time states, installations, repositories, recorded deliveries | begin, consume, bind, webhook, find, check live | webhooks late, twice and out of order; a snapshot overtaken before it is applied | a state is spent once and by its owner; the store never says more than GitHub; nothing revoked is used |
| Backup and restore (`src/application/tenant-backup.ts`, `src/infrastructure/backup/`) | the archive file, the restored rows and objects, the restore session | export, verify a file, restore, verify a tenant | reads without a common transaction while the tenant works; an upload that fails half-way; two operators | an archive is a cut; restored is all of an export or nothing; VERIFIED is said of equal content |
| Access tokens (`src/auth/access-token-verifier.ts`) | the cached key set | verify, fetch | requests that overlap a rotation and come back in the other order | a published key is accepted, a withdrawn one is not for long |
| Runner health and admission (`src/infrastructure/operations/`, `src/application/health.ts`) | the last finding and the probe under way | check, admit | joined probes, a cached answer, an asker that does not wait | "ready" is recent |
| Accounts (`src/account/`, `src/auth/`, `src/infrastructure/{identity,operations}/`) | tenant status, principals, the daily export ledger, audit rows | sign in, reserve, export, delete | requests still under way while the tenant is deleted; the limit at midnight | a deleted tenant stays empty; an export is charged and recorded |
| REST, MCP and web handlers (`src/app/api/`, `src/mcp/`) | the request; memoized services | let in, look up, admit, reserve, read, export | the order of checks; every await loses the view of the one before | (with the rows above) |
| Trusted samples (`src/application/{case-service,durable-trusted-case-service,default-case-service}.ts`) | a record in memory, or a durable case; the caller consumes its own message | start, run, read, export | the start races the queue's consumer, another start and recovery for one lease | the answers to one key agree |
| Domain algorithms (`src/domain/`) | none | evaluate oracle, verify, minimize, bundle | nested expressions, ties, redaction | a verdict is earned by the runs; the reduction is the largest |
| AI investigator, migrations, UI, evaluation scripts | none shared | | | |

A start request writes case, job, key, quota and an outbox event in one
transaction.  A publisher moves the event to the queue; the provider calls the
consumer, which leases the job, executes it, stores the bundle in the artifact
store and completes the lease.  An attempt asks GitHub authorization for the
repository before it uses it.  Operator commands recover lapsed leases, publish
the outbox, execute deletions, resolve quarantined sandboxes and export or restore
tenants.  A deletion request suspends the tenant and cancels its jobs; the executor
waits for running jobs, removes the objects, and purges the rows.

`PROJECT.json` lists the hazards at their lines.

## 2. Modules

| Module | Models | Notes |
| --- | --- | --- |
| `JobLifecycle` | the promise: a job is active and then ends once; cancellation is not lost; the verdict is written with the end | abstract specification |
| `DurableJobs` | the engine of one tenant | one action per transaction; a consumer is a process with a program counter |
| `Outbox` | table, publishers, provider | claim, send and mark are separate steps |
| `Dispatch` | `DurableJobs` and `Outbox` composed | a claim needs a delivered message; liveness |
| `ArtifactStore` | put and delete over rows and objects | every call may fail, or throw after it took effect |
| `TenantRetention` | deletion composed with `ArtifactStore` | several executors and requests |
| `SandboxAttempt` | one isolated attempt: runner and coordinator over a sandbox provider | one value of `pc` per await; aborts, timers and stops in between |
| `SandboxQuarantine` | the attempt with the operators who resolve what it recorded | look-up, delete and audit are separate steps |
| `GitHubAuthorization` | callbacks, webhooks and uses of one installation, with GitHub changing it | a snapshot is two calls and applied in a third step |
| `TenantBackup` | an export of a working tenant; restores and verification after the database was lost | one action per read, upload and transaction |
| `Verdicts` | verification, minimization, the case's transitions, the bundle | operators only; what an oracle matches and what redaction leaves are parameters |
| `ReproductionProof` | runs observed one after the other and assembled into a proof | over `Verdicts` |
| `Oracles` | the language of oracles and the redaction of streams | recursive over expressions and documents; the run gives them to the parameters of `Verdicts` |
| `CaseService` | trusted samples, in memory and hosted | the durable rows as far as a sample uses them |
| `TokenTrust` | the verifier's key set against a provider that rotates keys | |
| `RunnerHealth` | probes, findings and who asks | |
| `AccountAccess` | tenant, principals, reservations, export ledger, audit, deletion | |
| `FrontDoor` | a request through REST, MCP or the web, composed of the last three | one value of `stage` per await |
| `MC*` | instances for TLC | |
| `DurableJobsProofs`, `DispatchProofs`, `RetentionProofs`, `SandboxProofs`, `GitHubProofs`, `BackupProofs`, `FrontDoorProofs`, `ServiceProofs` | proofs | section 5 |

**How the rows are abstracted.**  A start request names the case and the job it
mints.  A lease is owner, attempt and the ticks it has left; the two timestamps
the code also compares change exactly when the attempt does.  Deadlines are ticks
that remain, so equal situations at different times are one state.  Each
repository operation runs in a serializable transaction and is one action; where
code awaits between transactions (the consumer, the publisher, put, delete, the
retention executor, the start's look-up and its reservation) each await is a
separate action and every other actor may step in between.  A crash forgets the
local state and leaves the rows.  A guard that makes a transaction throw leads to
an action that writes nothing.

**The attempt.**  `IsolatedRepositoryRunner.execute` and
`SnapshotRunCoordinator.execute` are one asynchronous function each, the first
awaiting the second, so one `pc` says which await the attempt is in.  Every
await but the clean-ups may return or throw.  Between two steps the caller may
abort, either timer may fire, a stop may settle and the provider may end a
sandbox.  `cancelled` and `timedOut` are the runner's controller, `expired` adds
the coordinator's; an abort listener is an action's effect on `stop`, the
memoized promise of `session.stop()`.  The answer names the runner's own error first
(`ExecutionResultFails`), then its abort, then the error that was caught (`Reported`).
Sandbox 0 is the prepared one, each run and each retry has its own.

**GitHub.**  A time is a count of GitHub's changes.  `github` is the truth, `sent`
what GitHub has announced; an event may be delivered late, twice or never.  A
handler's local record is what it has read and not yet applied.  "repository" events
read a fresh snapshot before they write, installation events go through the reducer
alone.

**Backup.**  Case, job and key of a case are one value; BLOCKED stands for CANCELLED
too, an artifact's PENDING for FAILED.  A behaviour begins with an empty tenant, or
after a loss of the database with the files kept so far.  A put may take effect and
throw; the restore then fails (`UploadFails`), or finds the object by `get` and goes on
without counting it among those it created (`UploadAnswerLost`).  Put and the `get` that
compares after a refusal are one step; that the object goes in between is one of the
ways of `UploadFails` and is counted as a failed call.  A command may die at any await.

**Proofs and samples.**  A stream is a short sequence of words and the document it
parses to; redaction and truncation work on words.  Proposals of one minimization may
have the same identifier, which no schema excludes.  A sample's row is the job with
its holder, its attempt and the event that announces it; its bundle, hosted, is the
AVAILABLE row of `artifacts`, not the object.

**The door.**  Ages of key sets and findings are ticks, counted up to the bound from
which a larger one makes no difference.  A request goes through the stages of its
handler and keeps what it has read: whether the repository is private, whether its
case is new, the day its export began.  An answer is its code.

**External parts**, modelled from how the code uses them: the queue provider (a
message is delivered until one delivery returns normally; sending an event it
still holds does not double it), the blob store (an object is there or not; a
call may fail, or throw after it took effect) and the sandbox provider (likewise;
a stop either ends the sandbox or fails and leaves it up, the worse case; a
sandbox in use may end at any time).  GitHub and the authorization server are
modelled as what they may answer.

## 3. Runs

| Run | Instance | Shows |
| --- | --- | --- |
| `durable_jobs` | 3 commands, one key, two equal and one different; 2 consumers; 3 attempts | row consistency, fencing, idempotent start, refinement of `JobLifecycle` |
| `durable_quota` | 2 keys, 1 consumer, limit 1 | reservations within the limit, and released at the end |
| `dispatch` | 1 job, 2 attempts, 2 publishers, 3 deliveries | no lost wake-up; settled events stay settled |
| `dispatch_liveness` | 1 job, 1 publisher that may crash | jobs end, cancellations are carried out, suspended tenants drain |
| `retention` | 1 artifact, 2 writers, 1 deleter, 2 requests, 2 executors, 3 calls, 1 fault of each kind | objects and rows agree; objects go before rows; purged stays purged |
| `sandbox` | 2 runs with one retry each, 1 operator, 1 fault, 2 failed stops | nothing leaks, a clean status is true, one sandbox at a time, the network is closed, the answer names its cause, a resolved resource is gone, the attempt ends |
| `github` | 2 actors of whom 1 may bind, 2 states, 2 callbacks, 1 webhook handler, 1 request, 1 repository, 2 changes at GitHub | a state is spent once and by its owner; the store says no more than GitHub once its deliveries are in; nothing revoked before the live check is used |
| `backup` | 2 cases, 1 exporter, 2 restorers, 2 exports, 1 incident; kept files: two growing ones, or one of a blocked case | archives are cuts; restored is what was exported, whole or not at all, over nothing; VERIFIED means equal |
| `services` | five parts, one at a time (below) | verdicts are earned and reductions largest; answers to one key agree; keys are followed; "ready" is recent; exports are charged; a deleted tenant stays empty |
| `retention_retry`, `backup_export`, `github_revocation` | | expected violations, below |

`services` holds five specifications that share no state and are not interleaved:
`part` chooses one in the initial state.  *proof*: every plan over five outputs,
five oracles and up to two proposals.  *samples*: two clients, one key, two
budgets, two attempts, three cases.  *tokens*, *runner* and *accounts*: the front
door with two callers, two signing keys, one subject, two export keys, a limit of
one export per day, two days and one deletion.  `Confined` says for each of the
three which requests are made and what goes wrong meanwhile: keys rotate, the
runner breaks down, or the account is deleted and the day ends.  The proofs of
section 5 are about `DoorSpec`, without that restriction.

**Bounds.**  Two consumers are what a lost lease needs: the loser and its heir.
Three attempts give a retry, a recovery and the last attempt.  A lease of one tick
lapses at any point of an execution; a retry delay of two outlasts it.  One key
with two hashes meets both answers of a repeated start.  Two publishers are a
claim and its successor.  In retention one artifact is enough because no step
relates two of them; two writers race for a FAILED row; two executors overlap.
Two runs with a retry each are what makes a sandbox follow a stopped one, in the
same run and in the next; `Budget` is one tick, so that a timer fires at any step,
and `MaxWait` is the age of the case.
`MaxFailedStops` counts the sandboxes whose stop fails, `MaxFaults` there the
provider calls that take effect and throw and the alerts that cannot be written.
`MaxPublisherCrashes`, `DeliveryBound`, `MaxCalls`, `MaxFaults`, `MaxClaims` and
`MaxProviderFaults` bound what the code leaves open.

In `github` two changes are an installation and its removal, or a suspension and
its end: one snapshot can be older than the one event that matters.  Two callbacks
race for one state, or bind two.  In `backup` two cases let an export read one
before and one after a change; two restorers overlap; `MaxIncidents` is one damaged
file, failing call or dead command.  In `services` every time bound is one tick: an
answer read before a rotation can arrive after it, and a finding can lapse between
two requests.  Two export keys meet the limit of one on the same day.

Deadlock is not checked: a behaviour legitimately stops when all jobs ended, GitHub
has made its last change, the files are exhausted or every proof is assembled.
Workers, publishers, writers, executors, restorers, callers, callbacks, states and
signing keys are interchangeable and only compared for equality, so symmetry is
sound; no run with fairness uses it.

**Fairness** (`dispatch_liveness`): the clock, the provider's delivery, a living
consumer's next step, `outbox:publish` and `leases:recover`.  The code itself
publishes only in the course of a start; that the two commands are run again and
again is the operator's duty (`docs/operations.md`, lines 158-159).  Cancellation,
suspension, crashes and failures are never fair.  The liveness properties excuse a
job whose event went DEAD.  `retention_retry` assumes the same of
`retention:execute`; the other two findings are states that are reached, and need
no fairness.  `sandbox`
assumes that every call the attempt awaits settles, stops included (each command
carries a timeout of its own); aborts, timers, failures and operators are not
fair, so the attempt ends without the help of its timers.

**Findings** (each an expected violation):

* `retention_retry` - a failed deletion request is never claimed again, although
  the operations guide says to rerun the executor; only a new request goes on.
* `backup_export` - a worker marks the job SUCCEEDED whatever the verdict, and the
  export refuses a SUCCEEDED job whose case is not VERIFIED: a tenant with one bug
  that was not reproduced can never be exported.
* `github_revocation` - a callback that read its snapshot before the installation was
  removed binds it as ACTIVE after the removal was delivered and ignored.  The live
  check still refuses the repository; the row is never corrected.

## 4. Not modelled, and why

**Left out.**  `renewLease`/`releaseLease` have no caller in production, and the
webhook route cannot reach `applyRepositoryTransition`.  What an execution does is
one step with any result for the engine; the attempt is specified on its own, and
what happens inside a sandbox (archive inspection, install, supervisor limits) is
one step of it that succeeds or fails.  A process that runs an attempt may end
(`WorkerCrash` of the engine); its sandboxes are then left to the timeout they were
created with.  Wording, hashing, schemas, signatures, cookies and logging are left
out, as are the provider's retention of messages, skew between database and process
clocks, the etags and `run_evidence` rows of a backup (nothing writes the latter),
GitHub's "created" event and the `withArchiveCredential` path, which is that of
`resolveRevision`.  The AI investigator and the evaluation scripts share no state
with the rest; migrations run once under an advisory lock; the UI only renders.

**Conditions the properties need.**  `AvailableHasObject` holds as long as no call
takes effect and throws: when a finalizing UPDATE commits and its answer is lost,
put's catch block removes the object of an AVAILABLE row, and nothing repairs it.
The same loss is outside `AnswersAgree`, whose bundle is that row.
`NothingLeaks` holds when no provider call takes effect and throws and no alert is
lost: the attempt then has no name for what it made, or nowhere to write it.
`RestoredIsComplete` excludes calls that failed: an upload that fails removes what the
restore created without a look at who refers to it (`AbandonUpload`).  So does a `get`
that no longer finds the object put has met, because another restore that lost has
cleaned up: with three restores of two archives that share an object, the one that
abandons then can take it from the tenant that the third has restored.
`FailedRestoreLeavesNothing` excludes calls that failed (an upload that took effect
and threw is not counted among the objects the restore created), commands that died,
and a tenant DELETED under a restore that is still uploading.  `VerifiedWasEqual` is
about an ACTIVE tenant: a deletion during the verification lets it record VERIFIED for
what is no longer there.  `StoreFollowsGitHub` excepts a snapshot that overtook a later webhook:
the finding `github_revocation`, and also a repository event whose snapshot sets
`provider_updated_at` back (`postgres-github-authorization-store.ts:642`).  Its part
about suspensions, here and in the theorem, rests on GitHub naming its events as the
code and its tests do, "suspended" and "unsuspended"
(`postgres-github-authorization-store.ts:543`).  `BoundByItsOwner` rests on the code of a
callback being that of the GitHub user who was sent there.

**What the models show without a run of their own.**

* `DurableJobs!ActiveJobsWithinLimit` fails: a reservation expires fifteen minutes
  after the start, a lease lasts twenty after the claim, so more jobs than the limit
  of `docs/operations.md:50` can run.  `ReservationsWithinLimit` is what holds.
* `TenantRetention!NoOrphanObject` fails: a put that claims a FAILED row again does
  not look at the tenant (`content-addressed-store.ts:210`), and the purge does not
  look at the rows again, so an object outlives its tenant.
* `SandboxAttempt!AttemptGetsItsBudget` fails: the coordinator's time counts from the
  creation of the case (`isolated-repository-runner.ts:294`), so an attempt that takes
  over a lapsed lease may get one millisecond and its job fails for good.
* `delivery_count` is not limited when a lapsed claim is taken again
  (`repositories.ts:1370`).
* Export: one that overlaps a deletion can seal an empty archive; a FAILED artifact
  row of an ended case keeps it NOT_QUIESCENT for good.  Restore: the row of
  `tenant_restore_sessions` survives a purge; a restored tenant that starts work can
  no longer be verified.
* Start: it can answer INTERNAL_ERROR although the case was reserved; a retry under
  the key then finds it, but the source is resolved before the look-up, so a
  repository revoked meanwhile makes the retry fail, and one renamed or made private
  changes the command's hash into IDEMPOTENCY_CONFLICT.
* A memoized promise of services stays rejected after one failure
  (`default-case-service.ts:64`); MCP's get and export then ask the trusted samples
  and answer NOT_FOUND.
* A rejected request for the key set, or one that brings no JSON, is INVALID_TOKEN,
  hence 401, where `docs/product-spec-v2.md` says that unavailability is 503; MCP
  answers it as AUTHENTICATION_REQUIRED.
* One export key exports any number of times once it is charged; audit rows can be
  appended after a deletion completed; a deletion requested under the key of one that
  FAILED answers "scheduled" and nothing happens.
* Trusted samples of all anonymous callers share one active-jobs limit; a FAILED
  record stays under its key although its error says retryable; a caller with an
  Authorization header that starts a sample cannot read it.

## 5. Proofs

Each theorem is about a specification the runs check, for any sets and bounds that
satisfy the named assumptions of its modules.  Each inductive invariant was first
checked by TLC on the instance of its component's run.

**Engine** (`DurableJobs!Spec`; positive attempts and ticks, null values outside the
sets, verdicts other than DRAFT, CANCELLED and ABSENT).

* `DurableJobsProofs!TypeCorrect`.  `TypeOK` is not inductive: a worker past
  "idle" must have a job and an attempt of at least one for the retry delay to be
  defined.  `WorkersShaped` adds that.
* `DurableJobsProofs!EngineInvariant`.  A transaction treats one job's row in one of
  nine ways (untouched, aged, created, claimed, succeeded, cancelled, retried, failed,
  asked to cancel).  One lemma per action shows which; the row invariants
  (`VersionsInStep`, `JobShape`, quota, suspension) are then shown once for each
  way.  The identifiers used so far need a strengthening: every event or audit row
  of a job is of an attempt already spent, and while RUNNING of an earlier one.
  `VersionsAgree`, `JobsKeepShape`, `QueuedAnnounced`, `RecoveryNeverCollides`,
  `QuotaReleased` and `SuspensionDrains` follow.  `QuotaKept` counts: the live
  reservations are finite and within the limit, and a step keeps them, or adds one
  where `QuotaAvailable` was seen in the same transaction.
* Fencing, in the same module.  `UniqueFence` rests on attempts that only grow and a claim
  that always takes a new one; `LiveLeaseIsExclusive` on the WHERE clause and
  that; `OneJobPerKey` on the look-up repeated inside the reservation.
  `EngineImplementsLifecycle`: each of the nine ways is a step of `JobLifecycle` or a
  stutter.

**Outbox and dispatch** (`Dispatch!DispatchSpec`).

* `DispatchIsEngine`: a step of `Dispatch` is a step of `DurableJobs` or a stutter of
  it, so every theorem about the engine holds of the composition.
* `DispatchInvariant`.  `NoLostWakeup` is not inductive: a delivery is acknowledged
  when its claim is refused, so the refusal must have been no loss.  `EventInv` says
  why: while a job is not due its event is not due either, and nobody has sent it or is
  about to; `HoldInv`: a message in hand is of an attempt that has been claimed since.
  A step is cut down to a move of the engine that may acknowledge one message, a move of
  one publisher on one event, or the clock.  `WakeupsAreKept` and `SettledEventsStay`
  follow; the latter is the claim count in the publisher's WHERE clause.

**Artifact store and retention** (`TenantRetention!RetentionSpec`).

* `RetentionInvariant`.  A row's version grows with every change of it, so a call that
  saw a version owns the row while the version is there: `PutInv` and `DeleteInv`, two
  calls never own the same one.  `FaultlessInv` adds to it what no longer holds once a
  call took effect and threw.  A put is one of ten kinds of step, a delete one of six;
  each concerns one row and one object.
* `ContentIsThere` and `DeletesAreComplete` follow; the second needs no condition.
* `PurgeIsFinal`, `ObjectsGoFirst`.  `Through(x)` says of an executor that an artifact
  it is through with, and whose row is as its snapshot saw it, is settled and has no
  object; a writer must change the row before it can store one.

**Attempt and quarantine** (`SandboxQuarantine!QuarantineSpec`, from
`AttemptAssumption`; any number of operators).  An operator only removes a resource
that is recorded (`Removing`), which none of the attempt's invariants minds.

* `NetworkLockedDown`.  `NetworkInv` adds where the network may be open, and that no
  snapshot exists yet while it is.
* `AnswerExplained`.  `ErrorInv` follows the thrown error from the await that met it to
  the runner's catch.
* `AttemptLeavesNothing`.  `CareInv`: a sandbox that is up is recorded or in the care of
  an await that ends with its clean-up.  This needs `FreshInv`: each run and retry has a
  sandbox that nobody asked to stop before it was created.  `ResultsAreFresh` follows
  from `FreshInv` too.
* `OneSandboxAtATime`, `CleanIsNotClaimedFalsely`.  `AloneInv`: but for the sandbox the
  attempt is at work with, every other one is down or its stop has failed, and after a
  failed stop an attempt that goes on to a proof no longer calls itself clean.
* `ResolutionsAreTrue`.  `RecordInv` and `OperatorInv`: a recorded sandbox was asked to
  stop, so nothing brings it back between an operator's delete and its audit.

**GitHub** (`GitHubAuthorization!Spec`, from `GitHubAssumption`).

* `AuthorizationTypeCorrect`: types, and no recorded time is ahead of GitHub's.
* `ReductionIgnoresOrder`: two installation events reduce to the same in either
  order, and a repeated one changes nothing.
* `StatesSpentOnce`, `OwnersBind` and `RevokedIsNotUsed` rest on what each handler has
  seen since it began (`LinkInv`, `UseInv`).
* `StoreFollowsGitHub`.  That nothing unavailable is granted is not inductive: what
  holds the store back may not have arrived yet.  `Blocking(e)` says of a webhook `e`
  that took access away that no event, no snapshot under way and no ACTIVE row is
  newer, and that once `e` is processed the row says so, unless a snapshot overtook it.

**Backup** (`TenantBackup!Spec`, from `BackupAssumption` and `KeptAssumption`: the
archives kept when the database was lost are valid and do not contradict each other).

* `BackupInvariant`.  Its first half (`ModeInv`) divides a behaviour at the loss of the
  database.  Before it there is nothing to restore; after it nothing is exported, and
  the archives stay those that were kept.
* `ArchivesTellTheEnd`.  `ExporterInv`: what an export has read of a case that ended is
  how it ended; the schema refuses any other.  A restored tenant keeps it because the
  archives agree (`OneHistory`) and no identifier is used again.
* `RestoresAreExports`: damage changes a file but not its digest, and a file is only
  restored under a digest that is its content's.
* `RestoresAreComplete`, `CleanupIsComplete`.  `FaultlessInv`: as long as no call failed,
  a command that cleans up found a tenant that is there, and no row for what it is about
  to remove; `Accounted`: every object outlived the loss, has a row, or is still one of
  some command's own.
* `NothingIsOverwritten`: only the transaction writes over cases, and then there are none.
* `VerifiedTenantsWereEqual`.  `BeganInv`: what a verification found at its beginning has
  not gone, since it began with all its artifacts AVAILABLE, and each later query reads no
  less; hence a build that equals the archive leaves no room for anything else.

**The door** (`FrontDoor!DoorSpec`, from `TrustAssumption`, `RunnerAssumption`,
`AccountAssumption` and `DoorAssumption`).  The parts share no state, so a step of the
door is first shown to be a step or a stutter of each part (`TrustProjection`,
`RunnerProjection`, `AccountProjection`); each invariant is then one of a small
specification.

* `VerifierFollowsProvider`.  `KeysInv` bounds how long ago a key in a set, kept or
  under way, was withdrawn by the age of the set and of the request that brought it.
* `ReadyIsNews`.  `RunnerInv` bounds likewise how long ago a finding was true.
* `DeletionIsFinal`.  `TenantInv`: no path that creates a row passes the tenant's lock
  once it is not ACTIVE, and no status but DELETED follows the purge.
* `ExportsAreCharged`.  `CallsInv`: a call past the charge is `Accounted` - it has its
  row in the ledger and after the audit there too - until the tenant is deleted.
* `DoorInvariant` is their conjunction.

**Verdicts** (`ReproductionProof!ProofSpec`, from `ProofAssumption`, `FixtureAssumption`:
the sample's oracle tells its candidate from its control, and `ProposalAssumption`: what
`minimizationProposalSchema` asks).  `Matched`, `Redacted` and `WellFormed` are any
operators: nothing a theorem says depends on how an oracle is evaluated.

* `AttemptJudges`.  `ProofInv` says what each stage has: while runs are observed, a
  sequence of them that redaction may have changed; a proof that is `Sound`, hence valid
  under every schema that checks it, so the attempt never gets stuck there (`RepositoryProof`,
  `SampleIsSound`); and in the store nothing, or the bundle of that proof.
* `VerdictsAreEarned`.  `VerificationJudges`: the counts `verifyReproduction` compares say
  of each run whether it matched; `CountAll` is that counting lemma.
* `ReductionIsLargest`.  `BeforeIsOrder`: the comparison, made stable, is a strict total
  order; `FirstOfSorted`: so finitely many verified evaluations have one first, found by
  the number of those before it; `ReverseOf`: and the opposite order of the proposals the
  same identifier.

**Trusted samples** (`CaseService!SampleSpec`, for any clients, keys, budgets and
attempts).

* `StartsAreConsistent`.  `AnswersAgree` is about two answers, so `SampleInv` says what is
  left between them: what was told is still in the row, or was not the end (`ToldInv`); a
  recorded result has its bundle (`ResultInv`).  Offline a row changes without a lease, so
  nobody but the start that reserved it may execute it (`AloneInv`, with the stage each
  start is in), and nothing is announced that the platform could claim (`QuietInv`).
  Hosted, a start that has a lease waits for it (`LeaseInv`), so it cannot meanwhile
  answer.
* `EverybodyIsToldTheSame`.  Each step makes rows go on, never back, and tells at most of
  a row as it is then (`StepKeeps`); one lemma per action shows it.

**Only model-checked:** liveness (`AttemptEnds`, `JobSettles`, `CancellationSettles`,
`SuspensionSettles`), which is out of the provers' reach.  What the recursive definitions
of `Oracles` compute cannot be proved either; the run evaluates them, and the theorems
hold for whatever they compute.

## 6. Plan

1. Done: engine, outbox and dispatch, artifact store, retention; all of the engine's
   proofs, its quota included.
2. Done: the isolated attempt and the quarantine.  Left: what an attempt promises
   its worker as an abstract specification that `SandboxAttempt` implements.
3. Done: `GitHubAuthorization` and its proofs.
4. Done: `TenantBackup`; accounts, tokens, runner health and the front door, with
   proofs; trusted samples.
5. Done: verdicts and minimization against reference definitions.
6. Done: proofs of the dispatch, the artifact store, retention, the quarantine and
   backup, verdicts, minimization and the trusted samples.  Left: durable jobs with the
   front door's starts as one composition.
