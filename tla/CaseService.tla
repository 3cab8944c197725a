----------------------------- MODULE CaseService -----------------------------
(***************************************************************************)
(* The trusted sample: anybody may start it, all as one caller, and the    *)
(* start itself waits for the answer.                                      *)
(*                                                                         *)
(* Offline the process that is asked runs the sample and keeps the record  *)
(* in memory.  Hosted it reserves a durable case, publishes its event and  *)
(* then consumes the message itself, in competition with the queue's       *)
(* consumer, with other starts under the same key, and with the recovery   *)
(* of lapsed leases (DurableJobs, Outbox).  Nobody can cancel these jobs.  *)
(***************************************************************************)
EXTENDS Naturals, FiniteSets

CONSTANTS
    Clients,      \* requests that may be under way at once
    SampleKeys,   \* Idempotency-Keys
    Budgets,      \* budgets a start may name: the command hash
    MaxCases,     \* case identifiers that are drawn
    MaxTries,     \* max_attempts of a job
    Platform,     \* the queue's consumer
    NoKey

ASSUME SampleAssumption == MaxCases \in Nat \ {0} /\ MaxTries \in Nat \ {0}

VARIABLES
    mode,       \* "offline" or "hosted"
    operations, \* the service: made on first use, once
    rows,       \* [SampleKeys -> the record reserved under the key]
    issued,     \* case identifiers drawn
    bundles,    \* cases with a bundle: in the record offline, as an AVAILABLE row hosted
    consumers,  \* [Clients and Platform -> the lease held, and the outcome]
    starts,     \* [Clients -> the request under way]
    told        \* [SampleKeys -> the last answer that showed the case]

sampleVars == <<mode, operations, rows, issued, bundles, consumers, starts, told>>

Consumers == Clients \cup {Platform}

NoRow == [job |-> "none"]
NoLease == [pc |-> "idle", key |-> NoKey, attempt |-> 0]
NoStart == [stage |-> "idle", key |-> NoKey, budget |-> NoKey, created |-> FALSE, answer |-> "none"]

SampleInit ==
    /\ mode \in {"offline", "hosted"}
    /\ operations = "unset"
    /\ rows = [k \in SampleKeys |-> NoRow]
    /\ issued = 0
    /\ bundles = {}
    /\ consumers = [w \in Consumers |-> NoLease]
    /\ starts = [c \in Clients |-> NoStart]
    /\ told = [k \in SampleKeys |-> NoRow]

----------------------------------------------------------------------------
(* Records.  "ready": a QUEUED job is due, the lease of a RUNNING one has  *)
(* lapsed.  "event": the outbox event that announces the job.              *)

NewRow(case, budget) ==
    [case |-> case, budget |-> budget, job |-> "QUEUED", holder |-> NoKey, attempt |-> 0,
     ready |-> TRUE, event |-> "pending"]

IsTerminal(row) == row.job \in {"SUCCEEDED", "FAILED"}

RowOf(c) == rows[starts[c].key]

\* What an answer shows of a row.
Snapshot(row) == [case |-> row.case, budget |-> row.budget, job |-> row.job]

GoTo(c, stage) == starts' = [starts EXCEPT ![c].stage = stage]

\* mapError: the code of the error, and INTERNAL_ERROR for what is not a CaseServiceError.
Refuse(c, code) ==
    /\ starts' = [starts EXCEPT ![c] = [NoStart EXCEPT !.stage = "told", !.answer = code]]
    /\ UNCHANGED told

\* A snapshot, or in case of an export the bundle, of the row that was just read.
Tell(c, row, answer) ==
    /\ starts' = [starts EXCEPT ![c] = [NoStart EXCEPT !.stage = "told", !.answer = answer]]
    /\ told' = [told EXCEPT ![starts[c].key] = Snapshot(row)]

StoreUnchanged == UNCHANGED <<mode, operations, rows, issued, bundles, consumers>>

----------------------------------------------------------------------------
(* The start, up to the reservation.                                       *)

StartSample(c, k, b) ==
    /\ starts[c].stage = "idle"
    /\ starts' = [starts EXCEPT ![c] = [NoStart EXCEPT !.stage = "start", !.key = k, !.budget = b]]
    /\ UNCHANGED told /\ StoreUnchanged

\* A reader knows the case: it was told, or it guesses.
ReadSample(c, k, what) ==
    /\ starts[c].stage = "idle"
    /\ what \in {"get", "export"}
    /\ starts' = [starts EXCEPT ![c] = [NoStart EXCEPT !.stage = what, !.key = k]]
    /\ UNCHANGED told /\ StoreUnchanged

\* LazyCaseOperations.resolve keeps the promise, also one that was rejected: it loads the
\* configuration and, hosted, asks the database for the migrations and the tenant's row.
ResolveOperations ==
    /\ operations = "unset"
    /\ \E c \in Clients : starts[c].stage \in {"start", "get", "export"}
    /\ operations' \in {"ready", "rejected"}
    /\ UNCHANGED <<mode, rows, issued, bundles, consumers, starts, told>>

OperationsDown(c) ==
    /\ operations = "rejected" /\ starts[c].stage \in {"start", "get", "export"}
    /\ Refuse(c, "INTERNAL_ERROR")
    /\ StoreUnchanged

\* What a record found under the key means for the start; offline it is shown as it is.
Found(c, row) ==
    CASE row.budget # starts[c].budget -> Refuse(c, "IDEMPOTENCY_CONFLICT")
      [] row.budget = starts[c].budget /\ (mode = "offline" \/ IsTerminal(row)) ->
            Tell(c, row, "reused")
      [] OTHER -> starts' = [starts EXCEPT ![c].stage = "publish", ![c].created = FALSE]
                  /\ UNCHANGED told

FindByIdempotencyKey(c) ==
    /\ starts[c].stage = "start" /\ operations = "ready"
    /\ IF RowOf(c) # NoRow THEN Found(c, RowOf(c)) ELSE GoTo(c, "reserve") /\ UNCHANGED told
    /\ StoreUnchanged

\* The look-up was enough.
ReserveMutant(c) ==
    /\ starts[c].stage = "reserve"
    /\ rows' = [rows EXCEPT ![starts[c].key] = NewRow(issued + 1, starts[c].budget)]
    /\ issued' = issued + 1
    /\ starts' = [starts EXCEPT ![c].stage = IF mode = "offline" THEN "run" ELSE "publish",
                                ![c].created = TRUE]
    /\ UNCHANGED <<told, mode, operations, bundles, consumers>>

\* reserve looks again, in one step with the insertion: another start may have come first.
ReserveSample(c) ==
    /\ starts[c].stage = "reserve" /\ issued < MaxCases
    /\ issued' = issued + 1
    /\ IF RowOf(c) # NoRow
       THEN Found(c, RowOf(c)) /\ UNCHANGED rows
       ELSE /\ rows' = [rows EXCEPT ![starts[c].key] = NewRow(issued + 1, starts[c].budget)]
            /\ starts' = [starts EXCEPT ![c].stage = IF mode = "offline" THEN "run" ELSE "publish",
                                        ![c].created = TRUE]
            /\ UNCHANGED told
    /\ UNCHANGED <<mode, operations, bundles, consumers>>

\* The transaction fails: the database, or the quota all these callers share.
ReservationFails(c) ==
    /\ starts[c].stage = "reserve" /\ mode = "hosted"
    /\ Refuse(c, "INTERNAL_ERROR")
    /\ StoreUnchanged

----------------------------------------------------------------------------
(* Offline.                                                                *)

SetJob(k, job) == rows' = [rows EXCEPT ![k].job = job]

SaveRunning(c) ==
    /\ starts[c].stage = "run"
    /\ SetJob(starts[c].key, "RUNNING")
    /\ GoTo(c, "running")
    /\ UNCHANGED <<told, mode, operations, issued, bundles, consumers>>

SaveSucceeded(c) ==
    /\ starts[c].stage = "running"
    /\ SetJob(starts[c].key, "SUCCEEDED")
    /\ bundles' = bundles \cup {RowOf(c).case}
    /\ Tell(c, rows'[starts[c].key], "created")
    /\ UNCHANGED <<mode, operations, issued, consumers>>

\* "retryable", says the error; the record stays FAILED under its key.
SaveFailed(c) ==
    /\ starts[c].stage = "running"
    /\ SetJob(starts[c].key, "FAILED")
    /\ Refuse(c, "INTERNAL_ERROR")
    /\ UNCHANGED <<mode, operations, issued, bundles, consumers>>

----------------------------------------------------------------------------
(* Hosted: publish, consume, read again.                                   *)

\* publishBatch delivers the event, ...
PublishSample(c) ==
    /\ starts[c].stage = "publish" /\ RowOf(c).event = "pending"
    /\ rows' = [rows EXCEPT ![starts[c].key].event = "delivered"]
    /\ GoTo(c, "consume")
    /\ UNCHANGED <<told, mode, operations, issued, bundles, consumers>>

\* ... or the queue refuses one of the batch, or another publisher has the event and the
\* batch of the one who created the case is empty, ...
PublishSampleFails(c) ==
    /\ starts[c].stage = "publish"
    /\ Refuse(c, "INTERNAL_ERROR")
    /\ StoreUnchanged

\* ... or it is nothing to this start, whose case is an old one or whose batch had others.
PublishOthers(c) ==
    /\ starts[c].stage = "publish"
    /\ GoTo(c, "consume")
    /\ UNCHANGED told /\ StoreUnchanged

Claimable(row) ==
    /\ row # NoRow /\ row.attempt < MaxTries
    /\ row.job \in {"QUEUED", "RUNNING"} /\ row.ready

ClaimSample(w, k) ==
    /\ Claimable(rows[k])
    /\ rows' = [rows EXCEPT ![k] = [@ EXCEPT !.job = "RUNNING", !.holder = w,
                                             !.attempt = rows[k].attempt + 1,
                                             !.ready = FALSE]]
    /\ consumers' = [consumers EXCEPT
          ![w] = [pc |-> "executing", key |-> k, attempt |-> rows[k].attempt + 1]]

\* A claim that is refused is "ignored".
ConsumeOwn(c) ==
    /\ starts[c].stage = "consume"
    /\ IF Claimable(RowOf(c))
       THEN ClaimSample(c, starts[c].key) /\ GoTo(c, "consuming")
       ELSE GoTo(c, "read") /\ UNCHANGED <<rows, consumers>>
    /\ UNCHANGED <<told, mode, operations, issued, bundles>>

PlatformConsumes(k) ==
    /\ consumers[Platform].pc = "idle"
    /\ rows[k] # NoRow /\ rows[k].event = "delivered"
    /\ ClaimSample(Platform, k)
    /\ UNCHANGED <<mode, operations, issued, bundles, starts, told>>

\* TrustedFixtureDurableWorker stores the bundle, whoever holds the lease by now.
PutSampleBundle(w) ==
    /\ consumers[w].pc = "executing"
    /\ bundles' = bundles \cup {rows[consumers[w].key].case}
    /\ consumers' = [consumers EXCEPT ![w].pc = "completing"]
    /\ UNCHANGED <<mode, operations, rows, issued, starts, told>>

\* The execution or the store throws; the row may be AVAILABLE all the same, when the
\* answer of put's last UPDATE was lost.  put has then removed the object (ArtifactStore).
SampleThrows(w) ==
    /\ consumers[w].pc = "executing"
    /\ \/ bundles' = bundles \cup {rows[consumers[w].key].case}
       \/ UNCHANGED bundles
    /\ consumers' = [consumers EXCEPT ![w].pc = "failing"]
    /\ UNCHANGED <<mode, operations, rows, issued, starts, told>>

HoldsLease(w) ==
    LET row == rows[consumers[w].key] IN
    /\ row.job = "RUNNING" /\ ~row.ready
    /\ row.holder = w /\ row.attempt = consumers[w].attempt

\* The consumer returns to its caller: a start goes on to read, or is refused.
Return(w, outcome) ==
    /\ consumers' = [consumers EXCEPT ![w] = NoLease]
    /\ CASE w = Platform -> UNCHANGED <<starts, told>>
         [] w # Platform /\ outcome = "completed" -> GoTo(w, "read") /\ UNCHANGED told
         [] OTHER -> Refuse(w, "INTERNAL_ERROR")

\* completeLease throws unless the lease is held.
CompleteSample(w) ==
    /\ consumers[w].pc = "completing"
    /\ IF HoldsLease(w) /\ rows[consumers[w].key].case \in bundles
       THEN SetJob(consumers[w].key, "SUCCEEDED") /\ Return(w, "completed")
       ELSE Return(w, "thrown") /\ UNCHANGED rows
    /\ UNCHANGED <<mode, operations, issued, bundles>>

\* The job is queued again and announced, or has had its last attempt.
Retried(row) ==
    IF row.attempt < MaxTries
    THEN [row EXCEPT !.job = "QUEUED", !.holder = NoKey, !.ready = FALSE, !.event = "pending"]
    ELSE [row EXCEPT !.job = "FAILED", !.holder = NoKey]

FailSample(w) ==
    /\ consumers[w].pc = "failing"
    /\ rows' = IF HoldsLease(w) THEN [rows EXCEPT ![consumers[w].key] = Retried(@)] ELSE rows
    /\ Return(w, "thrown")
    /\ UNCHANGED <<mode, operations, issued, bundles>>

\* A statement between two transactions throws, or the process of the platform dies: the
\* row stays as it is until its lease lapses.
LoseConsumer(w) ==
    /\ consumers[w].pc # "idle"
    /\ Return(w, "thrown")
    /\ UNCHANGED <<mode, operations, rows, issued, bundles>>

\* The job as it is now: with a result, or still in the hands of another consumer.
ReadAgain(c) ==
    /\ starts[c].stage = "read"
    /\ Tell(c, RowOf(c), IF starts[c].created THEN "created" ELSE "reused")
    /\ StoreUnchanged

\* Time, the publisher and the recovery of the platform.
TimePasses(k) ==
    /\ mode = "hosted" /\ rows[k] # NoRow /\ ~IsTerminal(rows[k]) /\ ~rows[k].ready
    /\ rows' = [rows EXCEPT ![k].ready = TRUE]
    /\ UNCHANGED <<mode, operations, issued, bundles, consumers, starts, told>>

PlatformPublishes(k) ==
    /\ mode = "hosted" /\ rows[k] # NoRow /\ rows[k].event = "pending"
    /\ rows' = [rows EXCEPT ![k].event = "delivered"]
    /\ UNCHANGED <<mode, operations, issued, bundles, consumers, starts, told>>

RecoverSample(k) ==
    /\ mode = "hosted" /\ rows[k] # NoRow /\ rows[k].job = "RUNNING" /\ rows[k].ready
    /\ rows' = [rows EXCEPT ![k] = IF @.attempt < MaxTries THEN [Retried(@) EXCEPT !.ready = TRUE]
                                   ELSE Retried(@)]
    /\ UNCHANGED <<mode, operations, issued, bundles, consumers, starts, told>>

----------------------------------------------------------------------------
(* Reading.                                                                *)

\* getReproduction and getJob.
GetSample(c) ==
    /\ starts[c].stage = "get" /\ operations = "ready"
    /\ IF RowOf(c) = NoRow THEN Refuse(c, "NOT_FOUND") ELSE Tell(c, RowOf(c), "found")
    /\ StoreUnchanged

\* Hosted, the bundle of the record must be what the artifact store holds.
ExportSample(c) ==
    /\ starts[c].stage = "export" /\ operations = "ready"
    /\ CASE RowOf(c) = NoRow -> Refuse(c, "NOT_FOUND")
         [] RowOf(c) # NoRow /\ RowOf(c).job = "SUCCEEDED" /\ RowOf(c).case \in bundles ->
                Tell(c, RowOf(c), "exported")
         [] OTHER -> Refuse(c, "BUNDLE_NOT_READY")
    /\ StoreUnchanged

Leave(c) ==
    /\ starts[c].stage = "told"
    /\ starts' = [starts EXCEPT ![c] = NoStart]
    /\ UNCHANGED told /\ StoreUnchanged

SampleNext ==
    \/ ResolveOperations
    \/ \E c \in Clients, k \in SampleKeys :
          \/ \E b \in Budgets : StartSample(c, k, b)
          \/ \E what \in {"get", "export"} : ReadSample(c, k, what)
    \/ \E c \in Clients :
          \/ OperationsDown(c) \/ FindByIdempotencyKey(c) \/ ReserveSample(c) \/ ReservationFails(c)
          \/ SaveRunning(c) \/ SaveSucceeded(c) \/ SaveFailed(c)
          \/ PublishSample(c) \/ PublishSampleFails(c) \/ PublishOthers(c) \/ ConsumeOwn(c)
          \/ ReadAgain(c) \/ GetSample(c) \/ ExportSample(c) \/ Leave(c)
    \/ \E w \in Consumers :
          \/ PutSampleBundle(w) \/ SampleThrows(w) \/ CompleteSample(w) \/ FailSample(w)
          \/ LoseConsumer(w)
    \/ \E k \in SampleKeys :
          \/ PlatformConsumes(k) \/ TimePasses(k) \/ PlatformPublishes(k) \/ RecoverSample(k)

SampleSpec == SampleInit /\ [][SampleNext]_sampleVars

----------------------------------------------------------------------------
\* Everybody who uses a key is told of one and the same case and command, once its job
\* has ended nobody is told of another end, and a result that was told has its bundle (the
\* AVAILABLE row of it, hosted): however many starts, consumers and recoveries work on the key.
AnswersAgree ==
    [][\A k \in SampleKeys :
          told[k] # NoRow \/ told'[k] # NoRow =>
              LET now == told'[k] IN
              /\ told[k] # NoRow =>
                    /\ now.case = told[k].case /\ now.budget = told[k].budget
                    /\ IsTerminal(told[k]) => now.job = told[k].job
              /\ now.job = "SUCCEEDED" => now.case \in bundles']_sampleVars
=============================================================================
