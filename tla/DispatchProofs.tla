--------------------------- MODULE DispatchProofs ---------------------------
(***************************************************************************)
(* Theorems about Dispatch: whatever consumers, publishers, recoveries,    *)
(* crashes and redeliveries interleave, a queued job's announcement is     *)
(* never lost, and a settled outbox row stays as it is.                    *)
(*                                                                         *)
(* Every step of Dispatch that touches a job is a step of DurableJobs, so  *)
(* the invariant of the engine holds here too.  What remains is what such  *)
(* a step, a publisher and the clock do to one event, its message and the  *)
(* processes that handle it.                                               *)
(***************************************************************************)
EXTENDS Dispatch, DurableJobsProofs

----------------------------------------------------------------------------
(* The inductive invariant.                                                *)

\* The job of event e is QUEUED and e is what asks for its next attempt.
Awaited(e) == jobs[e[1]].state = "QUEUED" /\ jobs[e[1]].attempt = e[2]

\* What the row and the message of an event say of each other and of its job.
\* While the job is not due its event is not due either, nobody has sent it and
\* nobody is about to: no delivery can then be refused because it came early.
EventInv(e) ==
    /\ e \in intents <=> events[e].status # "NONE"
    /\ messages[e] # "none" => e \in intents
    /\ events[e].status = "DELIVERED" => messages[e] # "none"
    /\ events[e].status \in {"NONE", "DELIVERED", "DEAD"} => events[e].delay = 0 /\ events[e].claim = 0
    /\ messages[e] = "acked" => ~Awaited(e)
    /\ Awaited(e) /\ jobs[e[1]].delay > 0 =>
          /\ events[e].status = "PENDING"
          /\ events[e].delay >= jobs[e[1]].delay
          /\ messages[e] = "none"
          /\ \A p \in Publishers : publishers[p].event # e

\* A publisher at work handles a row that exists; once it has sent, the
\* provider has heard of the event.
PublisherInv(p) ==
    /\ publishers[p].pc = "idle" => publishers[p].event = NoEvent
    /\ publishers[p].pc # "idle" =>
          /\ publishers[p].event \in Events
          /\ events[publishers[p].event].status # "NONE"
          /\ publishers[p].count > 0
    /\ publishers[p].pc = "sent" => messages[publishers[p].event] # "none"

\* The message a worker handles has done its work: its job has been claimed
\* since, so acknowledging it can never drop the wake-up of a waiting job.
HoldInv(w) ==
    holds[w] # NoEvent =>
        /\ messages[holds[w]] # "none"
        /\ holds[w][2] < jobs[holds[w][1]].attempt

DispatchInv ==
    /\ EngineInv
    /\ OutboxTypeOK
    /\ holds \in [Workers -> Events \cup {NoEvent}]
    /\ \A e \in Events : EventInv(e)
    /\ \A p \in Publishers : PublisherInv(p)
    /\ \A w \in Workers : HoldInv(w)

LEMMA EventParts ==
    ASSUME NEW e \in Events
    PROVE  /\ e[1] \in Requests
           /\ e[2] \in 0..MaxAttempts
           /\ e = <<e[1], e[2]>>
BY EventsAssumption

LEMMA EventFields ==
    ASSUME OutboxTypeOK, NEW e \in Events
    PROVE  /\ events[e] \in EventRow
           /\ events[e].status \in {"NONE", "PENDING", "SENDING", "DELIVERED", "DEAD"}
           /\ events[e].count \in 0..DeliveryBound
           /\ events[e].delay \in Nat
           /\ events[e].claim \in Nat
           /\ events[e].owner \in Publishers \cup {NoPublisher}
           /\ messages[e] \in {"none", "pending", "acked"}
BY DEF OutboxTypeOK, EventRow

LEMMA PublisherFields ==
    ASSUME OutboxTypeOK, NEW p \in Publishers
    PROVE  /\ publishers[p].pc \in {"idle", "sending", "sent", "failed"}
           /\ publishers[p].event \in Events \cup {NoEvent}
           /\ publishers[p].count \in 0..DeliveryBound
BY DEF OutboxTypeOK

LEMMA NoEventRowType == NoEventRow \in EventRow
BY OutboxAssumption DEF NoEventRow, EventRow

LEMMA AppendedRow ==
    ASSUME NEW delay \in Nat
    PROVE  [NoEventRow EXCEPT !.status = "PENDING", !.delay = delay] \in EventRow
<1>1. ASSUME NEW row \in EventRow
      PROVE  [[row EXCEPT !.status = "PENDING"] EXCEPT !.delay = delay] \in EventRow
  BY <1>1 DEF EventRow
<1> QED
  BY <1>1, NoEventRowType

LEMMA InitDispatchInv == DispatchInit => DispatchInv
<1> SUFFICES ASSUME DispatchInit PROVE DispatchInv
  OBVIOUS
<1>1. EngineInv
  BY InitTypeOK, InitRows DEF DispatchInit, EngineInv, Init, SuspendedDrains
<1>2. OutboxTypeOK
  BY NoEventRowType, OutboxAssumption DEF DispatchInit, OutboxInit, OutboxTypeOK, IdlePublisher
<1>3. ASSUME NEW e \in Events PROVE EventInv(e)
  BY EventParts
     DEF DispatchInit, Init, OutboxInit, EventInv, Awaited, NoEventRow, NoJobRow
<1>4. ASSUME NEW p \in Publishers PROVE PublisherInv(p)
  BY DEF DispatchInit, OutboxInit, PublisherInv, IdlePublisher
<1>5. ASSUME NEW w \in Workers PROVE HoldInv(w)
  BY DEF DispatchInit, HoldInv
<1> QED
  BY <1>1, <1>2, <1>3, <1>4, <1>5 DEF DispatchInv, DispatchInit

----------------------------------------------------------------------------
(* What a step of the engine means for the events.                         *)

\* No transaction deletes an outbox row.
LEMMA IntentsGrow == ASSUME [Next]_vars PROVE intents \subseteq intents'
<1>1. CASE UNCHANGED intents
  BY <1>1
<1>2. ASSUME NEW j, NEW b, NEW delay, FailTransaction(j, b, delay) PROVE intents \subseteq intents'
  BY <1>2 DEF FailTransaction, CancelTransaction
<1>3. ASSUME NEW r \in Requests, ReserveCreated(r) PROVE intents \subseteq intents'
  BY <1>3 DEF ReserveCreated
<1>4. ASSUME NEW w \in Workers, CancelLease(w) PROVE UNCHANGED intents
  BY <1>4 DEF CancelLease, CancelTransaction
<1>5. ASSUME NEW w \in Workers, FailLease(w) PROVE intents \subseteq intents'
  BY <1>1, <1>2, <1>5 DEF FailLease
<1>6. ASSUME NEW j \in Requests, RecoverExpiredLease(j) PROVE intents \subseteq intents'
  BY <1>2, <1>6 DEF RecoverExpiredLease
<1> QED
  BY <1>1, <1>3, <1>4, <1>5, <1>6
     DEF Next, StartNext, WorkerNext, OperatorNext, StartCheck, AdmissionDenied, ReserveRejected,
         ReserveExisting, ClaimLease, FindByLease, BeginExecute, ExecuteSucceeds, ExecuteFails,
         AfterExecute, CompleteLease, WorkerCrash, RequestCancellation, SuspendTenant, Tick, vars

\* A job waits after a step only if it waited before, no longer from now than
\* it did, or if the step has just announced it.
LEMMA WaitingStep ==
    ASSUME EngineInv, [Next]_vars, NEW k \in Requests, jobs'[k].state = "QUEUED"
    PROVE  \/ <<k, jobs'[k].attempt>> \in intents' \ intents
           \/ /\ jobs[k].state = "QUEUED"
              /\ jobs'[k].attempt = jobs[k].attempt
              /\ jobs'[k].delay <= jobs[k].delay
<1> USE JobFields DEF EngineInv
<1>1. JobStep(k) /\ IdsInv(k)
  BY NextJobStep
<1>2. CASE Untouched(k)
  BY <1>2 DEF Untouched
<1>3. CASE Aged(k)
  BY <1>3 DEF Aged, Less
<1>4. CASE Created(k)
  BY <1>1, <1>4 DEF Created, NewJobRow, IdsInv
<1>5. CASE Claimed(k)
  BY <1>5 DEF Claimed, ClaimedRow
<1>6. CASE Succeeded(k) \/ Cancelled(k) \/ Failed(k)
  BY <1>6 DEF Succeeded, Cancelled, Failed, Unleased, CancelledRow
<1>7. CASE Retried(k)
  <2>1. jobs[k].state = "RUNNING" /\ jobs'[k].attempt = jobs[k].attempt
    BY <1>7 DEF Retried, Ended, Unleased
  <2>2. <<k, jobs[k].attempt>> \in intents'
    BY <1>7 DEF Retried
  <2>3. <<k, jobs[k].attempt>> \notin intents
    BY <1>1, <2>1 DEF IdsInv
  <2> QED
    BY <2>1, <2>2, <2>3
<1>8. CASE Asked(k)
  BY <1>8 DEF Asked, CancellableRow, AskedRow, CancelledRow
<1> QED
  BY <1>1, <1>2, <1>3, <1>4, <1>5, <1>6, <1>7, <1>8 DEF JobStep

\* What every step of Dispatch that is not the publishers' or the clock's comes
\* to: a step of the engine, the rows it inserts, and at most one message
\* acknowledged, of an event that no job awaits any more.
AckStep(m) ==
    /\ messages[m] # "none"
    /\ ~Awaited(m)'
    /\ messages' = [messages EXCEPT ![m] = "acked"]

EngineMove ==
    /\ [Next]_vars
    /\ AppendEvents
    /\ UNCHANGED <<publishers, crashes>>
    /\ UNCHANGED messages \/ \E m \in Events : AckStep(m)

\* What becomes of the message a worker handles: kept, let go, or taken on.
HoldStep(w) ==
    \/ holds'[w] = holds[w]
    \/ holds'[w] = NoEvent
    \/ /\ holds'[w] \in Events
       /\ messages[holds'[w]] # "none"
       /\ holds'[w][2] < jobs'[holds'[w][1]].attempt

\* One event in such a step.
LEMMA EngineMoveEvent ==
    ASSUME DispatchInv, EngineMove, NEW e \in Events
    PROVE  /\ e \in intents => e \in intents' /\ events'[e] = events[e]
           /\ e \in intents' \ intents =>
                 events'[e] = [NoEventRow EXCEPT !.status = "PENDING", !.delay = jobs'[e[1]].delay]
           /\ e \notin intents' => events'[e] = events[e]
           /\ \/ messages'[e] = messages[e]
              \/ messages[e] # "none" /\ messages'[e] = "acked" /\ ~Awaited(e)'
<1>1. intents \subseteq intents'
  BY IntentsGrow DEF EngineMove
<1>2. \/ messages'[e] = messages[e]
      \/ messages[e] # "none" /\ messages'[e] = "acked" /\ ~Awaited(e)'
  <2>1. CASE UNCHANGED messages
    BY <2>1
  <2>2. ASSUME NEW m \in Events, AckStep(m)
        PROVE  \/ messages'[e] = messages[e]
               \/ messages[e] # "none" /\ messages'[e] = "acked" /\ ~Awaited(e)'
    <3>1. CASE e = m
      BY <2>2, <3>1 DEF AckStep, DispatchInv, OutboxTypeOK
    <3>2. CASE e # m
      BY <2>2, <3>2 DEF AckStep, DispatchInv, OutboxTypeOK
    <3> QED
      BY <3>1, <3>2
  <2> QED
    BY <2>1, <2>2 DEF EngineMove
<1>3. events'[e] = IF e \in intents' \ intents
                   THEN [NoEventRow EXCEPT !.status = "PENDING", !.delay = jobs'[e[1]].delay]
                   ELSE events[e]
  BY DEF EngineMove, AppendEvents
<1> QED
  BY <1>1, <1>2, <1>3

LEMMA EngineMoveTypes ==
    ASSUME DispatchInv, EngineMove PROVE OutboxTypeOK'
<1>1. TypeOK'
  BY EngineStep DEF DispatchInv, EngineMove, EngineInv
<1>2. ASSUME NEW e \in Events
      PROVE  [NoEventRow EXCEPT !.status = "PENDING", !.delay = jobs'[e[1]].delay] \in EventRow
  <2>1. jobs'[e[1]].delay \in Nat
    BY <1>1, EventParts DEF TypeOK, JobRow
  <2> QED
    BY <2>1, AppendedRow
<1>3. events' \in [Events -> EventRow]
  BY <1>2 DEF EngineMove, AppendEvents, DispatchInv, OutboxTypeOK
<1>4. messages' \in [Events -> {"none", "pending", "acked"}]
  BY DEF EngineMove, AckStep, DispatchInv, OutboxTypeOK
<1> QED
  BY <1>3, <1>4 DEF EngineMove, DispatchInv, OutboxTypeOK

LEMMA EngineMoveEventInv ==
    ASSUME DispatchInv, EngineMove, NEW e \in Events PROVE EventInv(e)'
<1> DEFINE k == e[1]
           n == e[2]
<1>1. EventInv(e) /\ k \in Requests /\ e = <<k, n>>
  BY EventParts DEF DispatchInv
<1>2. Awaited(e)' <=> jobs'[k].state = "QUEUED" /\ jobs'[k].attempt = n
  BY DEF Awaited
<1>3. Awaited(e) <=> jobs[k].state = "QUEUED" /\ jobs[k].attempt = n
  BY DEF Awaited
<1>4. Awaited(e)' =>
         e \in intents' \ intents \/ (Awaited(e) /\ jobs'[k].delay <= jobs[k].delay)
  BY <1>1, <1>2, <1>3, WaitingStep DEF EngineMove, DispatchInv
<1>5. jobs[k].delay \in Nat /\ jobs'[k].delay \in Nat
  <2>1. TypeOK'
    BY EngineStep DEF DispatchInv, EngineMove, EngineInv
  <2> QED
    BY <1>1, <2>1 DEF DispatchInv, EngineInv, TypeOK, JobRow
<1>6. publishers' = publishers
  BY DEF EngineMove
<1>7. CASE e \in intents' \ intents
  <2>1. events'[e] = [NoEventRow EXCEPT !.status = "PENDING", !.delay = jobs'[e[1]].delay]
    BY <1>7, EngineMoveEvent
  <2>2. events'[e].status = "PENDING" /\ events'[e].delay = jobs'[e[1]].delay
    BY <2>1 DEF NoEventRow
  <2>3. messages'[e] = "none"
    BY <1>1, <1>7, EngineMoveEvent DEF EventInv
  <2>4. ASSUME NEW p \in Publishers PROVE publishers[p].event # e
    <3>1. events[e].status = "NONE"
      BY <1>1, <1>7 DEF EventInv
    <3>2. PublisherInv(p)
      BY DEF DispatchInv
    <3> QED
      BY <3>1, <3>2, OutboxAssumption DEF PublisherInv
  <2> HIDE DEF k, n
  <2> QED
    BY <1>5, <1>6, <1>7, <2>2, <2>3, <2>4 DEF EventInv, k
<1>8. CASE e \notin intents' \ intents
  <2>1. events'[e] = events[e] /\ (e \in intents' <=> e \in intents)
    BY <1>8, EngineMoveEvent
  <2>2. \/ messages'[e] = messages[e]
        \/ messages[e] # "none" /\ messages'[e] = "acked" /\ ~Awaited(e)'
    BY EngineMoveEvent
  <2>3. events[e].delay \in Nat
    BY EventFields DEF DispatchInv
  <2>4. Awaited(e)' /\ jobs'[k].delay > 0 =>
           /\ Awaited(e) /\ jobs[k].delay > 0 /\ jobs'[k].delay <= jobs[k].delay
    BY <1>4, <1>5, <1>8
  <2>5. Awaited(e)' => Awaited(e)
    BY <1>4, <1>8
  <2> HIDE DEF k, n
  <2>6. /\ e \in intents' <=> events'[e].status # "NONE"
        /\ messages'[e] # "none" => e \in intents'
        /\ events'[e].status = "DELIVERED" => messages'[e] # "none"
        /\ events'[e].status \in {"NONE", "DELIVERED", "DEAD"} =>
              events'[e].delay = 0 /\ events'[e].claim = 0
    BY <1>1, <2>1, <2>2 DEF EventInv
  <2>7. messages'[e] = "acked" => ~Awaited(e)'
    BY <1>1, <2>2, <2>5 DEF EventInv
  <2>8. Awaited(e)' /\ jobs'[k].delay > 0 =>
           /\ events'[e].status = "PENDING"
           /\ events'[e].delay >= jobs'[k].delay
           /\ messages'[e] = "none"
           /\ \A p \in Publishers : publishers'[p].event # e
    BY <1>1, <1>5, <1>6, <2>1, <2>2, <2>3, <2>4 DEF EventInv, k
  <2> QED
    BY <2>6, <2>7, <2>8 DEF EventInv, k
<1> QED
  BY <1>7, <1>8

LEMMA EngineMovePublisherInv ==
    ASSUME DispatchInv, EngineMove, NEW p \in Publishers PROVE PublisherInv(p)'
<1>1. PublisherInv(p) /\ publishers' = publishers
  BY DEF DispatchInv, EngineMove
<1>2. ASSUME NEW e \in Events, events[e].status # "NONE" PROVE events'[e].status # "NONE"
  BY <1>2, EngineMoveEvent DEF DispatchInv, EventInv
<1>3. ASSUME NEW e \in Events, messages[e] # "none" PROVE messages'[e] # "none"
  BY <1>3, EngineMoveEvent
<1> QED
  BY <1>1, <1>2, <1>3 DEF PublisherInv

\* An attempt number never goes back, so a message once handled stays behind
\* its job.
LEMMA EngineMoveHolds ==
    ASSUME DispatchInv, EngineMove, NEW w \in Workers, HoldStep(w)
    PROVE  HoldInv(w)' /\ holds'[w] \in Events \cup {NoEvent}
<1>1. holds[w] \in Events \cup {NoEvent} /\ HoldInv(w)
  BY DEF DispatchInv
<1>2. ASSUME NEW e \in Events PROVE messages[e] # "none" => messages'[e] # "none"
  BY EngineMoveEvent
<1>3. CASE holds'[w] = holds[w] /\ holds[w] # NoEvent
  <2> DEFINE e == holds[w]
  <2>1. /\ e \in Events /\ e[1] \in Requests /\ e[2] \in 0..MaxAttempts
        /\ messages[e] # "none" /\ e[2] < jobs[e[1]].attempt
    BY <1>1, <1>3, EventParts DEF HoldInv
  <2>2. jobs'[e[1]].attempt >= jobs[e[1]].attempt
    BY <2>1, AttemptsGrow DEF DispatchInv, EngineMove
  <2>3. jobs[e[1]].attempt \in Nat /\ jobs'[e[1]].attempt \in Nat
    <3>1. TypeOK'
      BY EngineStep DEF DispatchInv, EngineMove, EngineInv
    <3> QED
      BY <2>1, <3>1 DEF DispatchInv, EngineInv, TypeOK, JobRow
  <2>4. messages'[e] # "none" /\ e[2] < jobs'[e[1]].attempt
    BY <1>2, <2>1, <2>2, <2>3
  <2> HIDE DEF e
  <2> QED
    BY <1>1, <1>3, <2>1, <2>4 DEF HoldInv, e
<1>4. CASE holds'[w] = NoEvent
  BY <1>4 DEF HoldInv
<1>5. CASE /\ holds'[w] \in Events
           /\ messages[holds'[w]] # "none"
           /\ holds'[w][2] < jobs'[holds'[w][1]].attempt
  BY <1>2, <1>5 DEF HoldInv
<1> QED
  BY <1>1, <1>3, <1>4, <1>5 DEF HoldStep

LEMMA EngineMoveInv ==
    ASSUME DispatchInv, EngineMove, holds' \in [Workers -> Events \cup {NoEvent}],
           \A w \in Workers : HoldStep(w)
    PROVE  DispatchInv'
<1>1. EngineInv'
  BY EngineStep DEF DispatchInv, EngineMove
<1>2. OutboxTypeOK'
  BY EngineMoveTypes
<1>3. \A e \in Events : EventInv(e)'
  BY EngineMoveEventInv
<1>4. \A p \in Publishers : PublisherInv(p)'
  BY EngineMovePublisherInv
<1>5. \A w \in Workers : HoldInv(w)'
  BY EngineMoveHolds
<1> QED
  BY <1>1, <1>2, <1>3, <1>4, <1>5 DEF DispatchInv

\* A step that inserts no row leaves the table alone.
LEMMA NothingAppended ==
    ASSUME OutboxTypeOK, UNCHANGED <<events, intents>> PROVE AppendEvents
BY DEF OutboxTypeOK, AppendEvents

\* A delivery is refused only when it came for an earlier attempt or for a job
\* that has ended: the one a job awaits finds it due, unspent and its tenant
\* ACTIVE.
LEMMA AwaitedIsClaimable ==
    ASSUME DispatchInv, NEW e \in Events, Awaited(e), messages[e] # "none"
    PROVE  Claimable(e[1])
<1>1. e[1] \in Requests /\ EventInv(e) /\ RowInv(e[1])
  BY EventParts DEF DispatchInv, EngineInv
<1>2. jobs[e[1]].state = "QUEUED" /\ jobs[e[1]].attempt < MaxAttempts
  BY <1>1 DEF Awaited, RowInv
<1>3. jobs[e[1]].delay = 0
  BY <1>1, JobFields DEF EventInv, DispatchInv, EngineInv
<1>4. tenant = "ACTIVE"
  BY <1>1, <1>2 DEF DispatchInv, EngineInv, TypeOK, SuspendedDrains
<1> QED
  BY <1>2, <1>3, <1>4 DEF Claimable

LEMMA StartStep == ASSUME DispatchInv, Start PROVE EngineMove /\ \A w \in Workers : HoldStep(w)
BY DEF Start, Next, EngineMove, HoldStep

LEMMA DeliverClaimedStep ==
    ASSUME DispatchInv, NEW w \in Workers, NEW e \in Events, DeliverClaimed(w, e)
    PROVE  /\ EngineMove
           /\ holds' \in [Workers -> Events \cup {NoEvent}]
           /\ \A u \in Workers : HoldStep(u)
<1>1. ClaimLease(w, e[1]) /\ e[1] \in Requests /\ e[2] \in 0..MaxAttempts /\ e = <<e[1], e[2]>>
  BY EventParts DEF DeliverClaimed
<1>2. [Next]_vars
  BY <1>1 DEF Next, WorkerNext
<1>3. UNCHANGED <<events, intents>>
  BY <1>1 DEF DeliverClaimed, ClaimLease
<1>4. EngineMove
  BY <1>2, <1>3, NothingAppended DEF DeliverClaimed, EngineMove, DispatchInv
<1>5. messages[e] = "pending" /\ EventInv(e)
  BY DEF DeliverClaimed, DispatchInv
<1>6. e[2] < jobs'[e[1]].attempt
  <2>1. e[2] <= jobs[e[1]].attempt
    BY <1>1, <1>5 DEF EventInv, DispatchInv, EngineInv, IdsInv
  <2>2. jobs'[e[1]].attempt = jobs[e[1]].attempt + 1
    BY <1>1 DEF ClaimLease, ClaimedRow, DispatchInv, EngineInv, TypeOK
  <2>3. jobs[e[1]].attempt \in Nat
    BY <1>1, JobFields DEF DispatchInv, EngineInv
  <2> QED
    BY <1>1, <2>1, <2>2, <2>3
<1>7. holds' \in [Workers -> Events \cup {NoEvent}]
  BY DEF DeliverClaimed, DispatchInv
<1>8. holds'[w] = e /\ \A u \in Workers \ {w} : holds'[u] = holds[u]
  BY DEF DeliverClaimed, DispatchInv
<1> QED
  BY <1>4, <1>5, <1>6, <1>7, <1>8 DEF HoldStep

LEMMA DeliverIgnoredStep ==
    ASSUME DispatchInv, NEW w \in Workers, NEW e \in Events, DeliverIgnored(w, e)
    PROVE  EngineMove /\ \A u \in Workers : HoldStep(u)
<1>1. messages[e] = "pending" /\ ~Claimable(e[1])
  BY DEF DeliverIgnored
<1>2. ~Awaited(e)
  BY <1>1, AwaitedIsClaimable
<1>3. ~Awaited(e)'
  BY <1>2 DEF DeliverIgnored, vars, Awaited
<1>4. AckStep(e)
  BY <1>1, <1>3 DEF DeliverIgnored, AckStep
<1>5. AppendEvents
  BY NothingAppended DEF DeliverIgnored, vars, DispatchInv
<1> QED
  BY <1>4, <1>5 DEF DeliverIgnored, EngineMove, HoldStep

LEMMA ConsumeStep ==
    ASSUME DispatchInv, NEW w \in Workers, Consume(w)
    PROVE  /\ EngineMove
           /\ holds' \in [Workers -> Events \cup {NoEvent}]
           /\ \A u \in Workers : HoldStep(u)
<1>1. [Next]_vars
  BY DEF Consume, ConsumerStep, Next, WorkerNext
<1>2. holds[w] \in Events \cup {NoEvent} /\ HoldInv(w)
  BY DEF DispatchInv
<1>3. \/ UNCHANGED holds
      \/ holds' = [holds EXCEPT ![w] = NoEvent]
  BY DEF Consume, Settle
<1>4. UNCHANGED messages \/ messages' = [messages EXCEPT ![holds[w]] = "acked"]
  BY DEF Consume, Settle
<1>5. UNCHANGED messages \/ \E m \in Events : AckStep(m)
  <2>1. CASE messages' = [messages EXCEPT ![holds[w]] = "acked"] /\ holds[w] \in Events
    <3> PICK m \in Events : m = holds[w]
      BY <2>1
    <3>1. m \in Events /\ m[1] \in Requests /\ m[2] \in 0..MaxAttempts
      BY EventParts
    <3>2. messages[m] # "none" /\ m[2] < jobs[m[1]].attempt
      BY <1>2, <2>1, OutboxAssumption DEF HoldInv
    <3>3. jobs'[m[1]].attempt >= jobs[m[1]].attempt
      BY <1>1, <3>1, AttemptsGrow DEF DispatchInv
    <3>4. jobs[m[1]].attempt \in Nat /\ jobs'[m[1]].attempt \in Nat
      <4>1. TypeOK'
        BY <1>1, EngineStep DEF DispatchInv, EngineInv
      <4> QED
        BY <3>1, <4>1 DEF DispatchInv, EngineInv, TypeOK, JobRow
    <3>5. jobs'[m[1]].attempt # m[2]
      BY <3>1, <3>2, <3>3, <3>4
    <3>6. ~Awaited(m)'
      BY <3>5 DEF Awaited
    <3>7. AckStep(m)
      BY <2>1, <3>2, <3>6 DEF AckStep
    <3> QED
      BY <3>1, <3>7
  <2>2. CASE messages' = [messages EXCEPT ![holds[w]] = "acked"] /\ holds[w] = NoEvent
    <3>1. NoEvent \notin DOMAIN messages
      BY OutboxAssumption DEF DispatchInv, OutboxTypeOK
    <3>2. messages = [e \in Events |-> messages[e]]
      BY DEF DispatchInv, OutboxTypeOK
    <3>3. messages' = messages
      BY <2>2, <3>1, <3>2, OutboxAssumption
    <3> QED
      BY <3>3
  <2> QED
    BY <1>2, <1>4, <2>1, <2>2
<1>6. EngineMove
  BY <1>1, <1>5 DEF Consume, EngineMove
<1>7. holds' \in [Workers -> Events \cup {NoEvent}]
  BY <1>3 DEF DispatchInv
<1>8. \A u \in Workers : HoldStep(u)
  BY <1>3 DEF HoldStep, DispatchInv
<1> QED
  BY <1>6, <1>7, <1>8

LEMMA OtherEngineSteps ==
    ASSUME DispatchInv,
           \/ \E w \in Workers : ConsumerCrash(w)
           \/ \E j \in Requests : Recover(j) \/ CancelJob(j)
           \/ Suspend
    PROVE  /\ EngineMove
           /\ holds' \in [Workers -> Events \cup {NoEvent}]
           /\ \A u \in Workers : HoldStep(u)
<1>1. ASSUME NEW w \in Workers, ConsumerCrash(w)
      PROVE  /\ EngineMove
             /\ holds' \in [Workers -> Events \cup {NoEvent}]
             /\ \A u \in Workers : HoldStep(u)
  <2>1. [Next]_vars /\ UNCHANGED <<events, intents>>
    BY <1>1 DEF ConsumerCrash, WorkerCrash, Next, WorkerNext
  <2>2. EngineMove
    BY <1>1, <2>1, NothingAppended DEF ConsumerCrash, EngineMove, DispatchInv
  <2>3. holds' = [holds EXCEPT ![w] = NoEvent]
    BY <1>1 DEF ConsumerCrash
  <2> QED
    BY <2>2, <2>3 DEF HoldStep, DispatchInv
<1>2. ASSUME NEW j \in Requests, Recover(j) PROVE EngineMove /\ UNCHANGED holds
  BY <1>2 DEF Recover, Next, OperatorNext, EngineMove
<1>3. ASSUME NEW j \in Requests, CancelJob(j) PROVE EngineMove /\ UNCHANGED holds
  <2>1. [Next]_vars /\ UNCHANGED <<events, intents>>
    BY <1>3 DEF CancelJob, RequestCancellation, Next, OperatorNext
  <2> QED
    BY <1>3, <2>1, NothingAppended DEF CancelJob, EngineMove, DispatchInv
<1>4. CASE Suspend
  <2>1. [Next]_vars /\ UNCHANGED <<events, intents>>
    BY <1>4 DEF Suspend, SuspendTenant, Next
  <2> QED
    BY <1>4, <2>1, NothingAppended DEF Suspend, EngineMove, DispatchInv, HoldStep
<1>5. ASSUME UNCHANGED holds
      PROVE  holds' \in [Workers -> Events \cup {NoEvent}] /\ \A u \in Workers : HoldStep(u)
  BY <1>5 DEF DispatchInv, HoldStep
<1> QED
  BY <1>1, <1>2, <1>3, <1>4, <1>5

----------------------------------------------------------------------------
(* What a publisher does to the one event it handles.                      *)

\* Publisher p moves on with event q, whose job is due if it waits for q: the
\* row was due when it was claimed, and no publisher holds it before that.
PublisherMove(p, q) ==
    /\ q \in Events
    /\ events[q].status # "NONE"
    /\ ~(Awaited(q) /\ jobs[q[1]].delay > 0)
    /\ events' \in [Events -> EventRow]
    /\ messages' \in [Events -> {"none", "pending", "acked"}]
    /\ \A e \in Events \ {q} : events'[e] = events[e] /\ messages'[e] = messages[e]
    /\ \A r \in Publishers \ {p} : publishers'[r] = publishers[r]
    /\ messages'[q] = messages[q] \/ messages'[q] = "pending"
    /\ events'[q].status # "NONE"
    /\ events'[q].status \in {"DELIVERED", "DEAD"} => events'[q].delay = 0 /\ events'[q].claim = 0
    /\ events'[q].status = "DELIVERED" => messages'[q] # "none"
    /\ events[q].status \in {"DELIVERED", "DEAD"} => events'[q] = events[q]
    /\ publishers'[p].event \in {q, NoEvent}
    /\ OutboxTypeOK'
    /\ PublisherInv(p)'

\* The event a publisher is busy with.
LEMMA BusyPublisher ==
    ASSUME DispatchInv, NEW p \in Publishers, publishers[p].pc # "idle"
    PROVE  /\ publishers[p].event \in Events
           /\ events[publishers[p].event].status # "NONE"
           /\ publishers[p].count > 0
           /\ publishers[p].pc = "sent" => messages[publishers[p].event] # "none"
           /\ ~(Awaited(publishers[p].event) /\ jobs[publishers[p].event[1]].delay > 0)
<1>1. PublisherInv(p)
  BY DEF DispatchInv
<1>2. publishers[p].event \in Events
  BY <1>1 DEF PublisherInv
<1>3. EventInv(publishers[p].event)
  BY <1>2 DEF DispatchInv
<1> QED
  BY <1>1, <1>2, <1>3 DEF PublisherInv, EventInv

LEMMA ClaimPendingMove ==
    ASSUME DispatchInv, NEW p \in Publishers, NEW q \in Events, ClaimPending(p, q)
    PROVE  PublisherMove(p, q)
<1>1. EventInv(q)
  BY DEF DispatchInv
<1>2. events[q].status \in {"PENDING", "SENDING"}
  BY DEF ClaimPending
<1>3. ~(Awaited(q) /\ jobs[q[1]].delay > 0)
  <2>1. q[1] \in Requests
    BY EventParts
  <2>2. jobs[q[1]].delay \in Nat
    BY <2>1, JobFields DEF DispatchInv, EngineInv
  <2> QED
    BY <1>1, <2>2 DEF ClaimPending, EventInv
<1>4. events[q] \in EventRow
  BY EventFields DEF DispatchInv
<1>5. events[q].count \in 0..DeliveryBound /\ events[q].count + 1 \in 0..DeliveryBound
  BY EventFields, OutboxAssumption DEF ClaimPending, DispatchInv
<1>6. PICK row \in EventRow : row = ClaimedEvent(events[q], p) /\ row.status = "SENDING"
  <2>1. events[q].delay \in Nat
    BY EventFields DEF DispatchInv
  <2>2. ClaimedEvent(events[q], p) \in EventRow
    BY <1>5, <2>1, OutboxAssumption DEF EventRow, ClaimedEvent
  <2>3. ClaimedEvent(events[q], p).status = "SENDING"
    BY DEF ClaimedEvent
  <2> QED
    BY <2>2, <2>3
<1>7. events' = [events EXCEPT ![q] = row]
  BY <1>6 DEF ClaimPending
<1>8. /\ events' \in [Events -> EventRow]
      /\ events'[q] = row
      /\ \A e \in Events \ {q} : events'[e] = events[e]
  BY <1>7 DEF DispatchInv, OutboxTypeOK
<1>9. /\ publishers'[p] = [pc |-> "sending", event |-> q, count |-> events[q].count + 1]
      /\ \A r \in Publishers \ {p} : publishers'[r] = publishers[r]
      /\ UNCHANGED <<messages, crashes>>
  BY DEF ClaimPending, Publisher, DispatchInv, OutboxTypeOK
<1>10. publishers' \in [Publishers -> [pc: {"idle", "sending", "sent", "failed"},
                                       event: Events \cup {NoEvent}, count: 0..DeliveryBound]]
  BY <1>5 DEF ClaimPending, Publisher, DispatchInv, OutboxTypeOK
<1>11. PublisherInv(p)'
  BY <1>5, <1>6, <1>8, <1>9 DEF PublisherInv
<1>12. OutboxTypeOK'
  BY <1>7, <1>9, <1>10 DEF DispatchInv, OutboxTypeOK
<1> QED
  BY <1>2, <1>3, <1>6, <1>7, <1>8, <1>9, <1>11, <1>12 DEF PublisherMove, DispatchInv, OutboxTypeOK

\* A send, whether it succeeds or throws, leaves the row to what is recorded.
LEMMA SendMove ==
    ASSUME DispatchInv, NEW p \in Publishers, Send(p) \/ SendFails(p)
    PROVE  PublisherMove(p, publishers[p].event)
<1>1. PICK q : q = publishers[p].event
  OBVIOUS
<1>2. publishers[p].pc = "sending" /\ UNCHANGED <<events, crashes>>
  BY DEF Send, SendFails
<1>3. /\ q \in Events /\ events[q].status # "NONE" /\ publishers[p].count > 0
      /\ ~(Awaited(q) /\ jobs[q[1]].delay > 0)
  BY <1>1, <1>2, BusyPublisher
<1>4. EventInv(q)
  BY <1>3 DEF DispatchInv
<1>5. \/ messages' = [messages EXCEPT ![q] = "pending"]
      \/ UNCHANGED messages
  BY <1>1 DEF Send, SendFails
<1>6. PICK pc \in {"sent", "failed"} :
         /\ publishers' = [publishers EXCEPT ![p] = [publishers[p] EXCEPT !.pc = pc]]
         /\ pc = "sent" => messages' = [messages EXCEPT ![q] = "pending"] \/ messages[q] = "acked"
  <2>1. CASE Send(p)
    BY <1>1, <2>1 DEF Send, Publisher
  <2>2. CASE SendFails(p)
    BY <2>2 DEF SendFails, Publisher
  <2> QED
    BY <2>1, <2>2
<1>7. /\ publishers'[p].pc = pc
      /\ publishers'[p].event = q
      /\ publishers'[p].count = publishers[p].count
      /\ \A r \in Publishers \ {p} : publishers'[r] = publishers[r]
      /\ publishers' \in [Publishers -> [pc: {"idle", "sending", "sent", "failed"},
                                         event: Events \cup {NoEvent}, count: 0..DeliveryBound]]
  BY <1>1, <1>6 DEF DispatchInv, OutboxTypeOK
<1>8. /\ messages' \in [Events -> {"none", "pending", "acked"}]
      /\ \A e \in Events \ {q} : messages'[e] = messages[e]
      /\ messages'[q] = messages[q] \/ messages'[q] = "pending"
      /\ pc = "sent" => messages'[q] # "none"
  BY <1>3, <1>5, <1>6 DEF DispatchInv, OutboxTypeOK
<1>9. PublisherInv(p)'
  BY <1>2, <1>3, <1>7, <1>8 DEF PublisherInv
<1>10. OutboxTypeOK'
  BY <1>2, <1>7, <1>8 DEF DispatchInv, OutboxTypeOK
<1>11. PublisherMove(p, q)
  BY <1>2, <1>3, <1>4, <1>7, <1>8, <1>9, <1>10
     DEF PublisherMove, DispatchInv, OutboxTypeOK, EventInv
<1> QED
  BY <1>1, <1>11

\* A failed or given-up delivery: the publisher goes home or on to its catch
\* block, and nothing else changes.
LEMMA AbandonMove ==
    ASSUME DispatchInv, NEW p \in Publishers, MarkDeliveredFails(p) \/ PublisherCrash(p)
    PROVE  PublisherMove(p, publishers[p].event)
<1>1. PICK q : q = publishers[p].event
  OBVIOUS
<1>2. publishers[p].pc # "idle" /\ UNCHANGED <<events, messages>>
  BY DEF MarkDeliveredFails, PublisherCrash
<1>3. /\ q \in Events /\ events[q].status # "NONE" /\ publishers[p].count > 0
      /\ ~(Awaited(q) /\ jobs[q[1]].delay > 0)
  BY <1>1, <1>2, BusyPublisher
<1>4. EventInv(q)
  BY <1>3 DEF DispatchInv
<1>5. crashes' \in 0..MaxPublisherCrashes
  BY OutboxAssumption DEF MarkDeliveredFails, PublisherCrash, DispatchInv, OutboxTypeOK
<1>6. /\ \A r \in Publishers \ {p} : publishers'[r] = publishers[r]
      /\ publishers' \in [Publishers -> [pc: {"idle", "sending", "sent", "failed"},
                                         event: Events \cup {NoEvent}, count: 0..DeliveryBound]]
      /\ publishers'[p].event \in {q, NoEvent}
      /\ PublisherInv(p)'
  <2>1. CASE MarkDeliveredFails(p)
    <3>1. /\ \A r \in Publishers \ {p} : publishers'[r] = publishers[r]
          /\ publishers' \in [Publishers -> [pc: {"idle", "sending", "sent", "failed"},
                                             event: Events \cup {NoEvent}, count: 0..DeliveryBound]]
      BY <2>1 DEF MarkDeliveredFails, Publisher, DispatchInv, OutboxTypeOK
    <3>2. /\ publishers'[p].pc = "failed"
          /\ publishers'[p].event = q
          /\ publishers'[p].count = publishers[p].count
      BY <1>1, <2>1 DEF MarkDeliveredFails, Publisher, DispatchInv, OutboxTypeOK
    <3> QED
      BY <1>2, <1>3, <3>1, <3>2 DEF PublisherInv
  <2>2. CASE PublisherCrash(p)
    BY <2>2, OutboxAssumption
       DEF PublisherCrash, Publisher, IdlePublisher, PublisherInv, DispatchInv, OutboxTypeOK
  <2> QED
    BY <2>1, <2>2
<1>7. OutboxTypeOK'
  BY <1>2, <1>5, <1>6 DEF DispatchInv, OutboxTypeOK
<1>8. PublisherMove(p, q)
  BY <1>2, <1>3, <1>4, <1>6, <1>7 DEF PublisherMove, DispatchInv, OutboxTypeOK, EventInv
<1> QED
  BY <1>1, <1>8

\* Recording a result writes the row only while the claim still stands.
LEMMA RecordMove ==
    ASSUME DispatchInv, NEW p \in Publishers, MarkDelivered(p) \/ RecordFailure(p)
    PROVE  PublisherMove(p, publishers[p].event)
<1>1. PICK q : q = publishers[p].event
  OBVIOUS
<1>2. publishers[p].pc # "idle" /\ UNCHANGED <<messages, crashes>>
  BY DEF MarkDelivered, RecordFailure
<1>3. /\ q \in Events /\ events[q].status # "NONE" /\ publishers[p].count > 0
      /\ publishers[p].pc = "sent" => messages[q] # "none"
      /\ ~(Awaited(q) /\ jobs[q[1]].delay > 0)
  BY <1>1, <1>2, BusyPublisher
<1>4. EventInv(q) /\ events[q] \in EventRow /\ events[q].count \in 0..DeliveryBound
  BY <1>3, EventFields DEF DispatchInv
<1>5. \/ events' = events
      \/ /\ events[q].status = "SENDING"
         /\ \E status \in {"DELIVERED", "DEAD", "PENDING"}, delay \in Nat :
               /\ events' = [events EXCEPT ![q] = Unclaimed(events[q], status, delay)]
               /\ status # "PENDING" => delay = 0
               /\ status = "DELIVERED" => messages[q] # "none"
  <2>1. CASE ~Holds(p)
    BY <2>1 DEF MarkDelivered, RecordFailure
  <2>2. CASE Holds(p) /\ MarkDelivered(p)
    <3>1. events' = [events EXCEPT ![q] = Unclaimed(events[q], "DELIVERED", 0)]
      BY <1>1, <2>2 DEF MarkDelivered
    <3> QED
      BY <1>1, <1>3, <2>2, <3>1 DEF MarkDelivered, Holds
  <2>3. CASE Holds(p) /\ RecordFailure(p)
    <3>1. CASE events[q].count >= MaxDeliveries
      <4>1. events' = [events EXCEPT ![q] = Unclaimed(events[q], "DEAD", 0)]
        BY <1>1, <2>3, <3>1 DEF RecordFailure
      <4> QED
        BY <1>1, <2>3, <4>1 DEF Holds
    <3>2. CASE ~(events[q].count >= MaxDeliveries)
      <4>1. events' = [events EXCEPT ![q] =
                          Unclaimed(events[q], "PENDING", PublishDelay[publishers[p].count])]
        BY <1>1, <2>3, <3>2 DEF RecordFailure
      <4>2. publishers[p].count \in 1..MaxDeliveries
        BY <1>1, <1>3, <1>4, <2>3, <3>2, OutboxAssumption DEF Holds
      <4>3. PublishDelay[publishers[p].count] \in Nat
        BY <4>2, OutboxAssumption
      <4> QED
        BY <1>1, <2>3, <4>1, <4>3 DEF Holds
    <3> QED
      BY <3>1, <3>2
  <2> QED
    BY <2>1, <2>2, <2>3
<1>6. /\ \A r \in Publishers \ {p} : publishers'[r] = publishers[r]
      /\ publishers' \in [Publishers -> [pc: {"idle", "sending", "sent", "failed"},
                                         event: Events \cup {NoEvent}, count: 0..DeliveryBound]]
      /\ publishers'[p].event = NoEvent
      /\ PublisherInv(p)'
  <2>1. Publisher(p, IdlePublisher)
    BY DEF MarkDelivered, RecordFailure
  <2> QED
    BY <2>1, OutboxAssumption
       DEF Publisher, IdlePublisher, PublisherInv, DispatchInv, OutboxTypeOK
<1>7. /\ events' \in [Events -> EventRow]
      /\ \A e \in Events \ {q} : events'[e] = events[e]
      /\ events'[q].status # "NONE"
      /\ events'[q].status \in {"DELIVERED", "DEAD"} => events'[q].delay = 0 /\ events'[q].claim = 0
      /\ events'[q].status = "DELIVERED" => messages[q] # "none"
      /\ events[q].status \in {"DELIVERED", "DEAD"} => events'[q] = events[q]
  <2>1. CASE events' = events
    BY <1>3, <1>4, <2>1 DEF EventInv, DispatchInv, OutboxTypeOK
  <2>2. ASSUME events[q].status = "SENDING",
               NEW status \in {"DELIVERED", "DEAD", "PENDING"}, NEW delay \in Nat,
               events' = [events EXCEPT ![q] = Unclaimed(events[q], status, delay)],
               status # "PENDING" => delay = 0,
               status = "DELIVERED" => messages[q] # "none"
        PROVE  /\ events' \in [Events -> EventRow]
               /\ \A e \in Events \ {q} : events'[e] = events[e]
               /\ events'[q].status # "NONE"
               /\ events'[q].status \in {"DELIVERED", "DEAD"} =>
                     events'[q].delay = 0 /\ events'[q].claim = 0
               /\ events'[q].status = "DELIVERED" => messages[q] # "none"
               /\ events[q].status \in {"DELIVERED", "DEAD"} => events'[q] = events[q]
    <3>1. Unclaimed(events[q], status, delay) \in EventRow
      BY <1>4 DEF Unclaimed, EventRow
    <3>2. /\ Unclaimed(events[q], status, delay).status = status
          /\ Unclaimed(events[q], status, delay).delay = delay
          /\ Unclaimed(events[q], status, delay).claim = 0
      BY DEF Unclaimed
    <3>3. /\ events' \in [Events -> EventRow]
          /\ events'[q] = Unclaimed(events[q], status, delay)
          /\ \A e \in Events \ {q} : events'[e] = events[e]
      BY <1>3, <2>2, <3>1 DEF DispatchInv, OutboxTypeOK
    <3> QED
      BY <2>2, <3>2, <3>3
  <2> QED
    BY <1>5, <2>1, <2>2
<1>8. OutboxTypeOK'
  BY <1>2, <1>6, <1>7 DEF DispatchInv, OutboxTypeOK
<1>9. PublisherMove(p, q)
  BY <1>2, <1>3, <1>4, <1>6, <1>7, <1>8 DEF PublisherMove, DispatchInv, OutboxTypeOK
<1> QED
  BY <1>1, <1>9

LEMMA PublisherMoves ==
    ASSUME DispatchInv, NEW p \in Publishers, PublisherStep(p) \/ PublisherMishap(p)
    PROVE  \E q \in Events : PublisherMove(p, q)
<1>1. ASSUME PublisherMove(p, publishers[p].event) PROVE \E q \in Events : PublisherMove(p, q)
  <2>1. PICK q : q = publishers[p].event
    OBVIOUS
  <2>2. PublisherMove(p, q)
    BY <1>1, <2>1
  <2>3. q \in Events
    BY <2>2 DEF PublisherMove
  <2> QED
    BY <2>2, <2>3
<1> QED
  BY <1>1, ClaimPendingMove, SendMove, AbandonMove, RecordMove DEF PublisherStep, PublisherMishap

LEMMA PublisherMoveInv ==
    ASSUME DispatchInv, NEW p \in Publishers, NEW q \in Events, PublisherMove(p, q),
           UNCHANGED <<vars, holds>>
    PROVE  DispatchInv'
<1>1. EngineInv'
  BY EngineStep DEF DispatchInv
<1>2. jobs' = jobs /\ intents' = intents /\ holds' = holds
  BY DEF vars
<1>3. \A e \in Events : Awaited(e)' <=> Awaited(e)
  BY <1>2 DEF Awaited
<1>4. ASSUME NEW e \in Events PROVE EventInv(e)'
  <2>1. EventInv(e)
    BY DEF DispatchInv
  <2>2. CASE e # q
    <3>1. events'[e] = events[e] /\ messages'[e] = messages[e]
      BY <2>2 DEF PublisherMove
    <3>2. ASSUME NEW r \in Publishers, publishers[r].event # e PROVE publishers'[r].event # e
      BY <2>2, <3>2, OutboxAssumption, SMTT(60) DEF PublisherMove
    <3> QED
      BY <1>2, <1>3, <2>1, <3>1, <3>2 DEF EventInv
  <2>3. CASE e = q
    BY <1>2, <1>3, <2>1, <2>3 DEF EventInv, PublisherMove
  <2> QED
    BY <2>2, <2>3
<1>5. \A e \in Events : messages[e] # "none" => messages'[e] # "none"
  BY DEF PublisherMove
<1>6. \A e \in Events : events[e].status # "NONE" => events'[e].status # "NONE"
  BY DEF PublisherMove
<1>7. ASSUME NEW r \in Publishers PROVE PublisherInv(r)'
  <2>1. CASE r = p
    BY <2>1 DEF PublisherMove
  <2>2. CASE r # p
    <3>1. publishers'[r] = publishers[r] /\ PublisherInv(r)
      BY <2>2 DEF PublisherMove, DispatchInv
    <3> QED
      BY <1>5, <1>6, <3>1 DEF PublisherInv
  <2> QED
    BY <2>1, <2>2
<1>8. ASSUME NEW w \in Workers PROVE HoldInv(w)'
  <2>1. HoldInv(w) /\ holds[w] \in Events \cup {NoEvent}
    BY DEF DispatchInv
  <2> QED
    BY <1>2, <1>5, <2>1 DEF HoldInv
<1>9. OutboxTypeOK'
  BY DEF PublisherMove
<1> QED
  BY <1>1, <1>2, <1>4, <1>7, <1>8, <1>9 DEF DispatchInv

----------------------------------------------------------------------------
(* The clock.                                                              *)

\* Deadlines come closer together; settled rows have none.
LEMMA TickedEvent ==
    ASSUME DispatchInv, DispatchTick, NEW e \in Events
    PROVE  /\ events'[e] \in EventRow
           /\ events'[e].status = events[e].status
           /\ events'[e].delay = Less(events[e].delay)
           /\ events'[e].claim = Less(events[e].claim)
           /\ events[e].status \in {"NONE", "DELIVERED", "DEAD"} => events'[e] = events[e]
<1>1. events[e] \in EventRow
  BY EventFields DEF DispatchInv
<1>2. events'[e] = [[events[e] EXCEPT !.delay = Less(events[e].delay)]
                        EXCEPT !.claim = Less(events[e].claim)]
  BY DEF DispatchTick
<1>3. Less(events[e].delay) \in Nat /\ Less(events[e].claim) \in Nat
  BY EventFields DEF Less, DispatchInv
<1>4. events'[e] \in EventRow
  BY <1>1, <1>2, <1>3 DEF EventRow
<1>5. /\ events'[e].status = events[e].status
      /\ events'[e].count = events[e].count
      /\ events'[e].owner = events[e].owner
      /\ events'[e].delay = Less(events[e].delay)
      /\ events'[e].claim = Less(events[e].claim)
  BY <1>1, <1>2 DEF EventRow
<1>6. ASSUME events[e].status \in {"NONE", "DELIVERED", "DEAD"} PROVE events'[e] = events[e]
  <2>1. events[e].delay = 0 /\ events[e].claim = 0
    BY <1>6 DEF DispatchInv, EventInv
  <2>2. Less(events[e].delay) = events[e].delay /\ Less(events[e].claim) = events[e].claim
    BY <2>1 DEF Less
  <2> QED
    BY <1>1, <1>4, <1>5, <2>2 DEF EventRow
<1> QED
  BY <1>4, <1>5, <1>6

\* A job's delay is never ahead of the one clock that also drives its event.
LEMMA TickedJob ==
    ASSUME DispatchInv, DispatchTick, NEW k \in Requests
    PROVE  /\ jobs'[k].state = jobs[k].state
           /\ jobs'[k].attempt = jobs[k].attempt
           /\ jobs'[k].delay = Less(jobs[k].delay)
<1>1. jobs[k].delay \in Nat
  BY JobFields DEF DispatchInv, EngineInv
<1>2. CASE JobTimers # {}
  <2>1. Tick
    BY <1>2 DEF DispatchTick
  <2> QED
    BY <2>1 DEF Tick
<1>3. CASE JobTimers = {}
  <2>1. jobs' = jobs
    BY <1>3 DEF DispatchTick, vars
  <2>2. ~(jobs[k].delay > 0)
    BY <1>3 DEF JobTimers
  <2> QED
    BY <1>1, <2>1, <2>2 DEF Less
<1> QED
  BY <1>2, <1>3

LEMMA TickStep ==
    ASSUME DispatchInv, DispatchTick PROVE DispatchInv' /\ [Next]_vars
<1>1. [Next]_vars /\ intents' = intents
  BY DEF DispatchTick, Tick, Next, vars
<1>2. EngineInv'
  BY <1>1, EngineStep DEF DispatchInv
<1>3. UNCHANGED <<messages, publishers, crashes, holds>>
  BY DEF DispatchTick
<1>4. events' \in [Events -> EventRow]
  BY TickedEvent DEF DispatchTick
<1>5. OutboxTypeOK'
  BY <1>3, <1>4 DEF DispatchInv, OutboxTypeOK
<1>6. ASSUME NEW e \in Events PROVE EventInv(e)'
  <2>1. EventInv(e) /\ e[1] \in Requests
    BY EventParts DEF DispatchInv
  <2>2. jobs[e[1]].delay \in Nat /\ events[e].delay \in Nat /\ events[e].claim \in Nat
    BY <2>1, JobFields, EventFields DEF DispatchInv, EngineInv
  <2>3. Awaited(e)' <=> Awaited(e)
    BY <2>1, TickedJob DEF Awaited
  <2>4. /\ events'[e].status = events[e].status
        /\ events'[e].delay = Less(events[e].delay)
        /\ events'[e].claim = Less(events[e].claim)
    BY TickedEvent
  <2>5. jobs'[e[1]].delay = Less(jobs[e[1]].delay)
    BY <2>1, TickedJob
  <2> QED
    BY <1>1, <1>3, <2>1, <2>2, <2>3, <2>4, <2>5 DEF EventInv, Less
<1>7. ASSUME NEW p \in Publishers PROVE PublisherInv(p)'
  <2>1. PublisherInv(p)
    BY DEF DispatchInv
  <2> QED
    BY <1>3, <2>1, TickedEvent DEF PublisherInv
<1>8. ASSUME NEW w \in Workers PROVE HoldInv(w)'
  <2>1. HoldInv(w) /\ holds[w] \in Events \cup {NoEvent}
    BY DEF DispatchInv
  <2> QED
    BY <1>3, <2>1, TickedJob, EventParts DEF HoldInv
<1> QED
  BY <1>1, <1>2, <1>3, <1>5, <1>6, <1>7, <1>8 DEF DispatchInv

----------------------------------------------------------------------------
(* The theorems.                                                           *)

\* The three kinds of steps.
LEMMA DispatchStepKinds ==
    ASSUME DispatchInv, [DispatchNext]_dispatchVars
    PROVE  \/ /\ EngineMove
              /\ holds' \in [Workers -> Events \cup {NoEvent}]
              /\ \A w \in Workers : HoldStep(w)
           \/ /\ \E p \in Publishers, q \in Events : PublisherMove(p, q)
              /\ UNCHANGED <<vars, holds>>
           \/ DispatchTick
           \/ UNCHANGED dispatchVars
<1>1. CASE Start
  BY <1>1, StartStep DEF Start, DispatchInv
<1>2. ASSUME NEW w \in Workers, Deliver(w)
      PROVE  /\ EngineMove
             /\ holds' \in [Workers -> Events \cup {NoEvent}]
             /\ \A u \in Workers : HoldStep(u)
  <2>1. ASSUME NEW e \in Events, DeliverIgnored(w, e)
        PROVE  holds' \in [Workers -> Events \cup {NoEvent}]
    BY <2>1 DEF DeliverIgnored, DispatchInv
  <2> QED
    BY <1>2, <2>1, DeliverClaimedStep, DeliverIgnoredStep DEF Deliver
<1>3. ASSUME NEW p \in Publishers, Publish(p) \/ Mishap(p)
      PROVE  (\E q \in Events : PublisherMove(p, q)) /\ UNCHANGED <<vars, holds>>
  BY <1>3, PublisherMoves DEF Publish, Mishap
<1>4. CASE \E w \in Workers : Deliver(w) \/ Consume(w) \/ ConsumerCrash(w)
  BY <1>2, <1>4, ConsumeStep, OtherEngineSteps
<1>5. CASE (\E j \in Requests : Recover(j) \/ CancelJob(j)) \/ Suspend
  BY <1>5, OtherEngineSteps
<1>6. CASE \E p \in Publishers : Publish(p) \/ Mishap(p)
  BY <1>3, <1>6
<1> QED
  BY <1>1, <1>4, <1>5, <1>6 DEF DispatchNext

LEMMA DispatchStep ==
    ASSUME DispatchInv, [DispatchNext]_dispatchVars PROVE DispatchInv' /\ [Next]_vars
<1>1. CASE EngineMove /\ holds' \in [Workers -> Events \cup {NoEvent}] /\ \A w \in Workers : HoldStep(w)
  BY <1>1, EngineMoveInv DEF EngineMove
<1>2. CASE (\E p \in Publishers, q \in Events : PublisherMove(p, q)) /\ UNCHANGED <<vars, holds>>
  BY <1>2, PublisherMoveInv
<1>3. CASE DispatchTick
  BY <1>3, TickStep
<1>4. CASE UNCHANGED dispatchVars
  <2>1. UNCHANGED vars
    BY <1>4 DEF dispatchVars
  <2>2. EngineInv'
    BY <2>1, EngineStep DEF DispatchInv
  <2>3. UNCHANGED <<events, messages, publishers, crashes, holds, jobs, intents>>
    BY <1>4 DEF dispatchVars, vars
  <2>4. /\ OutboxTypeOK' /\ holds' \in [Workers -> Events \cup {NoEvent}]
        /\ \A w \in Workers : HoldInv(w)'
        /\ \A p \in Publishers : PublisherInv(p)'
    BY <2>3 DEF DispatchInv, OutboxTypeOK, PublisherInv, HoldInv
  <2>5. \A e \in Events : EventInv(e)'
    BY <2>3 DEF DispatchInv, EventInv, Awaited
  <2> QED
    BY <2>1, <2>2, <2>4, <2>5 DEF DispatchInv
<1> QED
  BY <1>1, <1>2, <1>3, <1>4, DispatchStepKinds

\* DispatchInv holds in every reachable state of the engine with its outbox,
\* its queue, its publishers and its consumers.
THEOREM DispatchInvariant == DispatchSpec => []DispatchInv
<1>1. DispatchInit => DispatchInv
  BY InitDispatchInv
<1>2. DispatchInv /\ [DispatchNext]_dispatchVars => DispatchInv'
  BY DispatchStep
<1> QED
  BY <1>1, <1>2, PTL DEF DispatchSpec

\* Outbox rows, messages, publishers and what a worker holds keep their types.
THEOREM DispatchTyped == DispatchSpec => []DispatchTypeOK
<1>1. DispatchInv => DispatchTypeOK
  BY DEF DispatchInv, EngineInv, DispatchTypeOK
<1> QED
  BY <1>1, DispatchInvariant, PTL

\* With its outbox and queue the engine is still the engine: what is proved of
\* DurableJobs, where messages may come at any time, holds here.
THEOREM DispatchIsEngine == DispatchSpec => Spec
<1>1. DispatchInit => Init
  BY DEF DispatchInit
<1>2. DispatchInv /\ [DispatchNext]_dispatchVars => [Next]_vars
  BY DispatchStep
<1> QED
  BY <1>1, <1>2, DispatchInvariant, PTL DEF DispatchSpec, Spec

\* A waiting job is never forgotten, for any number of jobs, consumers and
\* publishers: its event is on its way to the queue, or given up as DEAD, or
\* its message is still to be delivered.
THEOREM WakeupsAreKept == DispatchSpec => []NoLostWakeup
<1>1. DispatchInv => NoLostWakeup
  <2> SUFFICES ASSUME DispatchInv, NEW j \in Requests, jobs[j].state = "QUEUED",
                      NEW e \in Events, e = <<j, jobs[j].attempt>>
               PROVE  \/ events[e].status \in {"PENDING", "SENDING", "DEAD"}
                      \/ events[e].status = "DELIVERED" /\ messages[e] = "pending"
    <3>1. DispatchInv => \A j \in Requests : <<j, jobs[j].attempt>> \in Events
      BY JobFields, EventsAssumption DEF DispatchInv, EngineInv
    <3> QED
      BY <3>1 DEF NoLostWakeup
  <2>1. e \in intents
    BY DEF DispatchInv, EngineInv, IdsInv
  <2>2. EventInv(e) /\ Awaited(e)
    BY DEF DispatchInv, Awaited
  <2>3. events[e].status # "NONE"
    BY <2>1, <2>2 DEF EventInv
  <2>4. events[e].status = "DELIVERED" => messages[e] \notin {"none", "acked"}
    BY <2>2 DEF EventInv
  <2> QED
    BY <2>3, <2>4, EventFields DEF DispatchInv
<1> QED
  BY <1>1, DispatchInvariant, PTL

\* Once DELIVERED or DEAD an outbox row never changes again, though publishers
\* whose claims lapsed may still be at work on it.
THEOREM SettledEventsStay == DispatchSpec => EventsStaySettled
<1>1. ASSUME DispatchInv, [DispatchNext]_dispatchVars, NEW e \in Events,
             events[e].status \in {"DELIVERED", "DEAD"}
      PROVE  events'[e] = events[e]
  <2>1. CASE EngineMove
    <3>1. e \in intents
      BY <1>1 DEF DispatchInv, EventInv
    <3> QED
      BY <1>1, <2>1, <3>1, EngineMoveEvent
  <2>2. ASSUME NEW p \in Publishers, NEW q \in Events, PublisherMove(p, q)
        PROVE  events'[e] = events[e]
    BY <1>1, <2>2 DEF PublisherMove
  <2>3. CASE DispatchTick
    BY <1>1, <2>3, TickedEvent
  <2>4. CASE UNCHANGED dispatchVars
    BY <2>4 DEF dispatchVars
  <2> QED
    BY <1>1, <2>1, <2>2, <2>3, <2>4, DispatchStepKinds
<1>2. DispatchInv /\ [DispatchNext]_dispatchVars =>
         [\A e \in Events :
             events[e].status \in {"DELIVERED", "DEAD"} => events'[e] = events[e]]_dispatchVars
  BY <1>1
<1> QED
  BY <1>2, DispatchInvariant, PTL DEF DispatchSpec, EventsStaySettled
=============================================================================
