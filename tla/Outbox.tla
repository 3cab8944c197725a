------------------------------ MODULE Outbox --------------------------------
(***************************************************************************)
(* The transactional outbox (table outbox_events), the publishers that     *)
(* carry its rows to the queue, and the queue provider behind them.        *)
(*                                                                         *)
(* A publisher works in three separate steps: it claims a due row in one   *)
(* transaction, sends the message to the provider, and records the result  *)
(* in another.  It may die, or its claim may lapse, after any of them.  A  *)
(* batch of claims is several publishers here, one for each row.           *)
(***************************************************************************)
EXTENDS Integers

CONSTANTS
    Events,              \* identities of outbox events
    Publishers,          \* publishing processes
    MaxDeliveries,       \* failed deliveries after which an event is DEAD
    ClaimTicks,          \* length of a publisher's claim
    PublishDelay,        \* PublishDelay[n]: delay after delivery n failed
    MaxPublisherCrashes, \* bound on publisher crashes in one behaviour
    DeliveryBound,       \* bound on delivery_count, which the code leaves open
    NoPublisher,         \* claim_owner is NULL
    NoEvent              \* a publisher that holds no claim

ASSUME OutboxAssumption ==
    /\ MaxDeliveries \in Nat \ {0}
    /\ ClaimTicks \in Nat \ {0}
    /\ MaxPublisherCrashes \in Nat
    /\ DeliveryBound \in Nat
    /\ PublishDelay \in [1..MaxDeliveries -> Nat]
    /\ NoPublisher \notin Publishers
    /\ NoEvent \notin Events

VARIABLES
    events,     \* events[e]: the row of table outbox_events
    messages,   \* messages[e]: what the queue provider holds for e
    publishers, \* publishers[p]: the local state of a publisher
    crashes     \* publisher crashes so far

outboxVars == <<events, messages, publishers, crashes>>

NoEventRow == [status |-> "NONE", count |-> 0, delay |-> 0, owner |-> NoPublisher, claim |-> 0]

IdlePublisher == [pc |-> "idle", event |-> NoEvent, count |-> 0]

EventRow ==
    [status: {"NONE", "PENDING", "SENDING", "DELIVERED", "DEAD"}, count: 0..DeliveryBound,
     delay: Nat, owner: Publishers \cup {NoPublisher}, claim: Nat]

OutboxTypeOK ==
    /\ events \in [Events -> EventRow]
    /\ messages \in [Events -> {"none", "pending", "acked"}]
    /\ publishers \in [Publishers -> [pc: {"idle", "sending", "sent", "failed"},
                                      event: Events \cup {NoEvent}, count: 0..DeliveryBound]]
    /\ crashes \in 0..MaxPublisherCrashes

OutboxInit ==
    /\ events = [e \in Events |-> NoEventRow]
    /\ messages = [e \in Events |-> "none"]
    /\ publishers = [p \in Publishers |-> IdlePublisher]
    /\ crashes = 0

Publisher(p, state) == publishers' = [publishers EXCEPT ![p] = state]

ClaimedEvent(row, p) ==
    [status |-> "SENDING", count |-> row.count + 1, delay |-> row.delay,
     owner |-> p, claim |-> ClaimTicks]

\* claimPending: a due PENDING row, or a SENDING one whose claim lapsed.  The
\* code does not limit the number of deliveries here; DeliveryBound does.
ClaimPending(p, e) ==
    /\ publishers[p].pc = "idle"
    /\ \/ events[e].status = "PENDING" /\ events[e].delay = 0
       \/ events[e].status = "SENDING" /\ events[e].claim = 0
    /\ events[e].count < DeliveryBound
    /\ events' = [events EXCEPT ![e] = ClaimedEvent(@, p)]
    /\ Publisher(p, [pc |-> "sending", event |-> e, count |-> events[e].count + 1])
    /\ UNCHANGED <<messages, crashes>>

\* queue.send, with the event id as the provider's idempotency key.  A message
\* the provider still holds is not doubled; one it has delivered may be.
Send(p) ==
    LET e == publishers[p].event IN
    /\ publishers[p].pc = "sending"
    /\ \/ messages' = [messages EXCEPT ![e] = "pending"]
       \/ messages[e] = "acked" /\ UNCHANGED messages
    /\ Publisher(p, [publishers[p] EXCEPT !.pc = "sent"])
    /\ UNCHANGED <<events, crashes>>

\* queue.send throws; the message may have been accepted all the same.
SendFails(p) ==
    LET e == publishers[p].event IN
    /\ publishers[p].pc = "sending"
    /\ \/ messages' = [messages EXCEPT ![e] = "pending"]
       \/ UNCHANGED messages
    /\ Publisher(p, [publishers[p] EXCEPT !.pc = "failed"])
    /\ UNCHANGED <<events, crashes>>

\* The update is not conditional on the claim.
HoldsMutant(p) == TRUE

\* The WHERE clause of markDelivered and recordFailure.  The delivery count is
\* new in each claim, as are the version and the expiry it is compared with.
Holds(p) ==
    LET e == publishers[p].event IN
    /\ events[e].status = "SENDING"
    /\ events[e].owner = p
    /\ events[e].count = publishers[p].count

Unclaimed(row, status, delay) ==
    [status |-> status, count |-> row.count, delay |-> delay,
     owner |-> NoPublisher, claim |-> 0]

MarkDelivered(p) ==
    LET e == publishers[p].event IN
    /\ publishers[p].pc = "sent"
    /\ events' = IF Holds(p)
                 THEN [events EXCEPT ![e] = Unclaimed(@, "DELIVERED", 0)]
                 ELSE events
    /\ Publisher(p, IdlePublisher)
    /\ UNCHANGED <<messages, crashes>>

\* markDelivered throws after the message went out: the same catch block counts
\* the delivery as failed.
MarkDeliveredFails(p) ==
    /\ publishers[p].pc = "sent"
    /\ Publisher(p, [publishers[p] EXCEPT !.pc = "failed"])
    /\ UNCHANGED <<events, messages, crashes>>

RecordFailure(p) ==
    LET e == publishers[p].event IN
    /\ publishers[p].pc = "failed"
    /\ events' = IF ~Holds(p) THEN events
                 ELSE IF events[e].count >= MaxDeliveries
                      THEN [events EXCEPT ![e] = Unclaimed(@, "DEAD", 0)]
                      ELSE [events EXCEPT ![e] =
                               Unclaimed(@, "PENDING", PublishDelay[publishers[p].count])]
    /\ Publisher(p, IdlePublisher)
    /\ UNCHANGED <<messages, crashes>>

\* The publisher dies, or recordFailure itself throws.
PublisherCrash(p) ==
    /\ publishers[p].pc # "idle"
    /\ crashes < MaxPublisherCrashes
    /\ crashes' = crashes + 1
    /\ Publisher(p, IdlePublisher)
    /\ UNCHANGED <<events, messages>>

\* What the steps a publisher is bound to take are, and what may befall it.
PublisherStep(p) ==
    \/ \E e \in Events : ClaimPending(p, e)
    \/ Send(p)
    \/ MarkDelivered(p)
    \/ RecordFailure(p)

PublisherMishap(p) == SendFails(p) \/ MarkDeliveredFails(p) \/ PublisherCrash(p)

OutboxNext == \E p \in Publishers : PublisherStep(p) \/ PublisherMishap(p)
=============================================================================
