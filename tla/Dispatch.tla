----------------------------- MODULE Dispatch -------------------------------
(***************************************************************************)
(* The job engine together with its outbox and queue: how a queued job     *)
(* finds its way to a worker.  DurableJobs says which outbox events its    *)
(* transactions insert; here each becomes a row of Outbox, a publisher     *)
(* turns the row into a queue message, and a worker claims a job only when *)
(* a message for it is delivered.  The provider delivers at least once: a  *)
(* message may reach several workers until one delivery is acknowledged.   *)
(***************************************************************************)
EXTENDS DurableJobs, Outbox

\* An event is named by its job and the attempt that precedes it.
ASSUME EventsAssumption == Events = Requests \X (0..MaxAttempts)

VARIABLE holds  \* holds[w]: the message whose delivery worker w is handling

dispatchVars == <<vars, events, messages, publishers, crashes, holds>>

DispatchTypeOK ==
    /\ TypeOK
    /\ OutboxTypeOK
    /\ holds \in [Workers -> Events \cup {NoEvent}]

DispatchInit ==
    /\ Init
    /\ OutboxInit
    /\ holds = [w \in Workers |-> NoEvent]

\* The recovery event is due before the job is.
AppendEventsMutant ==
    events' = [e \in Events |->
                  IF e \in intents' \ intents
                  THEN [NoEventRow EXCEPT !.status = "PENDING"]
                  ELSE events[e]]

\* The rows a transaction inserts: Outbox.append for a new job, and the INSERT
\* of failLease, which gives the event the next_attempt_at of the job.
AppendEvents ==
    events' = [e \in Events |->
                  IF e \in intents' \ intents
                  THEN [NoEventRow EXCEPT !.status = "PENDING",
                                                 !.delay = jobs'[e[1]].delay]
                  ELSE events[e]]

Start ==
    /\ StartNext
    /\ AppendEvents
    /\ UNCHANGED <<messages, publishers, crashes, holds>>

\* A delivery that wins a lease is held until the consumer returns or throws.
DeliverClaimed(w, e) ==
    /\ messages[e] = "pending"
    /\ ClaimLease(w, e[1])
    /\ holds' = [holds EXCEPT ![w] = e]
    /\ UNCHANGED <<events, messages, publishers, crashes>>

\* claimLease returned null: the consumer returns "ignored" and the provider
\* takes the normal return for an acknowledgement.
DeliverIgnored(w, e) ==
    /\ messages[e] = "pending"
    /\ workers[w].pc = "idle"
    /\ ~Claimable(e[1])
    /\ messages' = [messages EXCEPT ![e] = "acked"]
    /\ UNCHANGED <<vars, events, publishers, crashes, holds>>

\* The consumer returns exactly when its last transaction committed, which
\* acknowledges the message; when it throws or dies the message stays.
Settle(w) ==
    IF workers'[w].pc = "idle"
    THEN /\ holds' = [holds EXCEPT ![w] = NoEvent]
         /\ messages' = IF jobs' # jobs THEN [messages EXCEPT ![holds[w]] = "acked"]
                                        ELSE messages
    ELSE UNCHANGED <<holds, messages>>

ConsumerStep(w) ==
    \/ FindByLease(w)
    \/ BeginExecute(w)
    \/ \E v \in Verdicts : ExecuteSucceeds(w, v)
    \/ \E error \in {"RETRYABLE", "FATAL"} : ExecuteFails(w, error)
    \/ AfterExecute(w)
    \/ CompleteLease(w)
    \/ CancelLease(w)
    \/ FailLease(w)

Consume(w) ==
    /\ ConsumerStep(w)
    /\ AppendEvents
    /\ Settle(w)
    /\ UNCHANGED <<publishers, crashes>>

ConsumerCrash(w) ==
    /\ WorkerCrash(w)
    /\ holds' = [holds EXCEPT ![w] = NoEvent]
    /\ UNCHANGED <<events, messages, publishers, crashes>>

Recover(j) ==
    /\ RecoverExpiredLease(j)
    /\ AppendEvents
    /\ UNCHANGED <<messages, publishers, crashes, holds>>

CancelJob(j) ==
    /\ RequestCancellation(j)
    /\ UNCHANGED <<events, messages, publishers, crashes, holds>>

Suspend ==
    /\ SuspendTenant
    /\ UNCHANGED <<events, messages, publishers, crashes, holds>>

Publish(p) ==
    /\ PublisherStep(p)
    /\ UNCHANGED <<vars, holds>>

Mishap(p) ==
    /\ PublisherMishap(p)
    /\ UNCHANGED <<vars, holds>>

EventTimers == {e \in Events : events[e].delay > 0 \/ events[e].claim > 0}

JobTimers == {j \in Requests : jobs[j].lease > 0 \/ jobs[j].delay > 0 \/ quota[j].left > 0}

\* One clock drives the deadlines of the jobs and of the outbox.
DispatchTick ==
    /\ EventTimers # {} \/ JobTimers # {}
    /\ IF JobTimers # {} THEN Tick ELSE UNCHANGED vars
    /\ events' = [e \in Events |->
                     [events[e] EXCEPT !.delay = Less(@), !.claim = Less(@)]]
    /\ UNCHANGED <<messages, publishers, crashes, holds>>

Deliver(w) == \E e \in Events : DeliverClaimed(w, e) \/ DeliverIgnored(w, e)

DispatchNext ==
    \/ Start
    \/ \E w \in Workers : Deliver(w) \/ Consume(w) \/ ConsumerCrash(w)
    \/ \E j \in Requests : Recover(j) \/ CancelJob(j)
    \/ \E p \in Publishers : Publish(p) \/ Mishap(p)
    \/ Suspend
    \/ DispatchTick

\* Time passes, the provider delivers what it holds, a consumer that lives goes
\* on, and the operator keeps running outbox:publish and leases:recover
\* (docs/operations.md, lines 158-159).  No fairness for anything that hurts.
Fairness ==
    /\ WF_dispatchVars(DispatchTick)
    /\ \A w \in Workers : WF_dispatchVars(Deliver(w)) /\ WF_dispatchVars(Consume(w))
    /\ \A p \in Publishers : WF_dispatchVars(Publish(p))
    /\ \A j \in Requests : WF_dispatchVars(Recover(j))

DispatchSpec == DispatchInit /\ [][DispatchNext]_dispatchVars

FairDispatchSpec == DispatchSpec /\ Fairness

----------------------------------------------------------------------------
Dead(j) == \E n \in 0..MaxAttempts : events[<<j, n>>].status = "DEAD"

\* A job that waits is never forgotten: the event that announces its next
\* attempt is still on its way to the queue, or the queue still holds its
\* message, or publishing it was given up for good and the row says DEAD.  It
\* is the "ignored" outcome of the consumer that puts this at risk.
NoLostWakeup ==
    \A j \in Requests :
        jobs[j].state = "QUEUED" =>
            LET e == <<j, jobs[j].attempt>> IN
            \/ events[e].status \in {"PENDING", "SENDING", "DEAD"}
            \/ events[e].status = "DELIVERED" /\ messages[e] = "pending"

\* A delivered or dead event is never published or judged again: a publisher
\* whose claim lapsed cannot overwrite what its successor recorded.
EventsStaySettled ==
    [][\A e \in Events :
          events[e].status \in {"DELIVERED", "DEAD"} => events'[e] = events[e]]_dispatchVars

\* Every started job ends, through crashes, lost leases and duplicated
\* deliveries, unless publishing one of its events was given up.
JobSettles == \A j \in Requests : Present(j) ~> (Terminal(j) \/ Dead(j))

\* A requested cancellation is carried out, even when the worker that should
\* notice it is gone or completes at the same moment.
CancellationSettles ==
    \A j \in Requests : jobs[j].cancel ~> (jobs[j].state = "CANCELLED")

\* Suspending a tenant empties it of running work, which is what lets its
\* deletion go on.
SuspensionSettles ==
    (tenant = "SUSPENDED") ~> (\A j \in Requests : Present(j) => Terminal(j))
=============================================================================
