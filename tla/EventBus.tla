------------------------------ MODULE EventBus ------------------------------
(***************************************************************************)
(* RedisStreamsEventBus for one event type: a Redis stream read by one     *)
(* consumer group, and the process that publishes to it, subscribes        *)
(* handlers and runs one consumer task.  The task reads new entries only,  *)
(* calls the handlers one after another, answers a handler's exception by  *)
(* adding a copy of the entry for all of them or by dead-lettering the     *)
(* event, and then acknowledges and deletes the entry.  Every await is a   *)
(* step: the process may crash, the task be cancelled and a Redis command  *)
(* fail between any two.                                                   *)
(***************************************************************************)
EXTENDS Integers, Sequences, FiniteSets, FiniteSetsExt

CONSTANTS
  Handlers,           \* the handlers the process may subscribe
  Events,             \* events that may be published, once each
  Unreadable,         \* those the serializer cannot rebuild, such as every
                      \* event whose event_type is a property of its class
  MaxPublished,       \* bound: events published
  BatchSize,          \* batch_size: entries per read
  MaxDeliveryCount,   \* max_delivery_count
  MaxBusFaults,       \* bound: failing Redis commands, stops and crashes
  MaxUnsubscribes     \* bound: handlers unsubscribed

ASSUME EventBusAssumption ==
  /\ IsFiniteSet(Handlers) /\ IsFiniteSet(Events) /\ Unreadable \subseteq Events
  /\ MaxPublished \in Nat /\ BatchSize \in Nat \ {0} /\ MaxDeliveryCount \in Nat \ {0}
  /\ MaxBusFaults \in Nat /\ MaxUnsubscribes \in Nat

VARIABLES
  busLog,        \* every entry ever added: its event and delivery_count
  busPresent,    \* the entries still in the stream
  busGroup,      \* last entry delivered to the group, -1 without a group
  busPending,    \* entries delivered and not acknowledged
  busKnown,      \* the event type is a key of _subscriptions
  busSubs,       \* its list there
  busJoining,    \* handlers whose subscribe() awaits the group's creation
  busRunning,    \* _running
  busTask,       \* the consumer task and what it does next
  busBatch,      \* what is left of the entries the task has read
  busNth,        \* the handler of busSubs that comes next
  busGot,        \* history: the handlers that succeeded with an event
  busDead,       \* events in the dead-letter stream
  busAbsent,     \* history: handlers not in the list that removed an entry
  busFaults, busLeft   \* bounds used up

busServer == <<busLog, busPresent, busGroup, busPending>>
busConsumer == <<busTask, busBatch, busNth>>
busProcess == <<busKnown, busSubs, busJoining, busRunning>>
busHistory == <<busGot, busDead, busAbsent>>
busVars == <<busServer, busConsumer, busProcess, busHistory, busFaults, busLeft>>

\* No task; one not yet begun; reading; calling a handler; answering its
\* exception; acknowledging; deleting; returned for want of a subscription.
TaskStates == {"none", "new", "read", "handle", "answer", "ack", "delete", "over"}

BusInit ==
  /\ busLog = <<>> /\ busPresent = {} /\ busGroup = -1 /\ busPending = {}
  /\ busKnown = FALSE /\ busSubs = <<>> /\ busJoining = {} /\ busRunning = FALSE
  /\ busTask = "none" /\ busBatch = <<>> /\ busNth = 1
  /\ busGot = [e \in Events |-> {}] /\ busDead = {}
  /\ busAbsent = [e \in Events |-> {}]
  /\ busFaults = 0 /\ busLeft = 0

----------------------------------------------------------------------------
(* The process: publishing and subscriptions.                              *)

SubscribedHandlers == {busSubs[i] : i \in DOMAIN busSubs}

AddEntry(e, count) ==
  /\ busLog' = Append(busLog, [event |-> e, count |-> count])
  /\ busPresent' = busPresent \cup {Len(busLog) + 1}

PublishedEvents == {busLog[i].event : i \in DOMAIN busLog}

Publish(e) ==
  /\ e \notin PublishedEvents /\ Cardinality(PublishedEvents) < MaxPublished
  /\ AddEntry(e, 0)
  /\ UNCHANGED <<busGroup, busPending, busConsumer, busProcess, busHistory, busFaults, busLeft>>

\* _start_consumer does nothing when the event type has a task already, be it
\* one that has returned.
StartConsumer == busTask' = IF busTask = "none" THEN "new" ELSE busTask

Subscribe(h) ==
  /\ h \notin SubscribedHandlers /\ h \notin busJoining
  /\ busKnown' = TRUE /\ busSubs' = Append(busSubs, h)
  /\ busJoining' = busJoining \cup {h}
  /\ UNCHANGED <<busServer, busRunning, busConsumer, busHistory, busFaults, busLeft>>

\* The handlers' own group exists now (no one reads it): subscribe() goes on.
FinishSubscribe(h) ==
  /\ h \in busJoining /\ busJoining' = busJoining \ {h}
  /\ IF busRunning THEN StartConsumer ELSE UNCHANGED busTask
  /\ UNCHANGED <<busServer, busKnown, busSubs, busRunning, busBatch, busNth, busHistory,
                 busFaults, busLeft>>

\* A task for every key, an empty list's included.
StartBus ==
  /\ ~busRunning /\ busRunning' = TRUE
  /\ IF busKnown THEN StartConsumer ELSE UNCHANGED busTask
  /\ UNCHANGED <<busServer, busKnown, busSubs, busJoining, busBatch, busNth, busHistory,
                 busFaults, busLeft>>

\* A cancelled task ends at the await it is at; what it had read stays pending.
CancelConsumer == busTask' = "none" /\ busBatch' = <<>> /\ busNth' = 1

\* The task is cancelled and forgotten, and no other is started for the
\* handlers that remain.  A list from which the last handler went keeps its key.
Leave ==
  /\ busLeft < MaxUnsubscribes /\ busLeft' = busLeft + 1
  /\ busKnown /\ CancelConsumer
  /\ UNCHANGED <<busServer, busJoining, busRunning, busHistory, busFaults>>

Unsubscribe(h) ==
  /\ \E i \in DOMAIN busSubs :
       /\ busSubs[i] = h
       /\ busSubs' = SubSeq(busSubs, 1, i - 1) \o SubSeq(busSubs, i + 1, Len(busSubs))
  /\ Leave /\ UNCHANGED busKnown

\* unsubscribe() without a handler.
UnsubscribeAll == Leave /\ busKnown' = FALSE /\ busSubs' = <<>>

BusFault == busFaults < MaxBusFaults /\ busFaults' = busFaults + 1

StopBus ==
  /\ BusFault /\ busRunning /\ busRunning' = FALSE
  /\ CancelConsumer
  /\ UNCHANGED <<busServer, busKnown, busSubs, busJoining, busHistory, busLeft>>

CrashBus ==
  /\ BusFault /\ CancelConsumer
  /\ busKnown' = FALSE /\ busSubs' = <<>> /\ busJoining' = {} /\ busRunning' = FALSE
  /\ UNCHANGED <<busServer, busHistory, busLeft>>

----------------------------------------------------------------------------
(* The consumer task.                                                      *)

Current == busBatch[1]
CurrentEvent == busLog[Current].event
Readable(e) == e \notin Unreadable

\* xgroup_create: the group starts behind the last entry ("$") unless it exists.
\* Its failure is suppressed and the loop begins all the same.
BeginConsumer ==
  /\ busTask = "new"
  /\ IF busSubs = <<>>
     THEN busTask' = "over" /\ UNCHANGED <<busGroup, busFaults>>
     ELSE /\ busTask' = "read"
          /\ \/ /\ busGroup' = IF busGroup = -1 THEN Len(busLog) ELSE busGroup
                /\ UNCHANGED busFaults
             \/ BusFault /\ UNCHANGED busGroup
  /\ UNCHANGED <<busLog, busPresent, busPending, busBatch, busNth, busProcess,
                 busHistory, busLeft>>

Undelivered == {i \in busPresent : i > busGroup}

\* xreadgroup with ">": entries never delivered to the group, oldest first.
\* Without a group each call raises NOGROUP, and the loop tries again for good.
ReadEntries ==
  /\ busTask = "read" /\ busRunning /\ busGroup # -1 /\ Undelivered # {}
  /\ LET first == Min(Undelivered)
         count == IF Cardinality(Undelivered) < BatchSize
                  THEN Cardinality(Undelivered) ELSE BatchSize
         last == first + count - 1
     IN /\ busBatch' = [i \in 1..count |-> first + i - 1]
        /\ busPending' = busPending \cup first..last
        /\ busGroup' = last
  /\ busTask' = "handle" /\ busNth' = 1
  /\ UNCHANGED <<busLog, busPresent, busProcess, busHistory, busFaults, busLeft>>

\* The loop over the list, which grows when a handler subscribes meanwhile.
NextHandler ==
  /\ busNth' = busNth + 1 /\ UNCHANGED busBatch
  /\ busTask' = IF busNth < Len(busSubs) THEN "handle" ELSE "ack"

HandlerSucceeds ==
  /\ busTask = "handle"
  /\ busGot' = [busGot EXCEPT ![CurrentEvent] = @ \cup {busSubs[busNth]}]
  /\ NextHandler
  /\ UNCHANGED <<busServer, busProcess, busDead, busAbsent, busFaults, busLeft>>

HandlerRaises ==
  /\ busTask = "handle"
  /\ busTask' = "answer"
  /\ UNCHANGED <<busServer, busBatch, busNth, busProcess, busHistory, busFaults, busLeft>>

DeliveryCount == busLog[Current].count + 1

\* Seeded slip: the limit is tested against the count the entry came with.
Mut_RequeueOnceMore ==
  /\ busTask = "answer" /\ busLog[Current].count < MaxDeliveryCount
  /\ AddEntry(CurrentEvent, DeliveryCount) /\ NextHandler
  /\ UNCHANGED <<busGroup, busPending, busProcess, busHistory, busFaults, busLeft>>

\* Below the limit a copy goes to the end of the stream, for all handlers.
Requeue ==
  /\ busTask = "answer" /\ DeliveryCount < MaxDeliveryCount
  /\ AddEntry(CurrentEvent, DeliveryCount) /\ NextHandler
  /\ UNCHANGED <<busGroup, busPending, busProcess, busHistory, busFaults, busLeft>>

\* At the limit the event is dead-lettered; one that could not be rebuilt is
\* dropped.
DeadLetter ==
  /\ busTask = "answer" /\ DeliveryCount >= MaxDeliveryCount
  /\ busDead' = IF Readable(CurrentEvent) THEN busDead \cup {CurrentEvent} ELSE busDead
  /\ NextHandler
  /\ UNCHANGED <<busServer, busProcess, busGot, busAbsent, busFaults, busLeft>>

Acknowledge ==
  /\ busTask = "ack"
  /\ busPending' = busPending \ {Current} /\ busTask' = "delete"
  /\ UNCHANGED <<busLog, busPresent, busGroup, busBatch, busNth, busProcess,
                 busHistory, busFaults, busLeft>>

\* The list only grows while the task lives.
CalledHandlers == {busSubs[i] : i \in 1..(busNth - 1)}

DeleteEntry ==
  /\ busTask = "delete"
  /\ busPresent' = busPresent \ {Current}
  /\ busAbsent' = [busAbsent EXCEPT ![CurrentEvent] = @ \cup (Handlers \ CalledHandlers)]
  /\ busBatch' = Tail(busBatch) /\ busNth' = 1
  /\ busTask' = IF Len(busBatch) = 1 THEN "read" ELSE "handle"
  /\ UNCHANGED <<busLog, busGroup, busPending, busProcess, busGot, busDead, busFaults, busLeft>>

\* Seeded slip: the loop goes on with the next entry of the batch and drops
\* the one whose answer failed from the stream.
Mut_RedisFailureDeletes ==
  /\ BusFault /\ busTask \in {"answer", "ack", "delete"}
  /\ busPresent' = busPresent \ {Current} /\ busPending' = busPending \ {Current}
  /\ busTask' = "read" /\ busBatch' = <<>> /\ busNth' = 1
  /\ UNCHANGED <<busLog, busGroup, busProcess, busHistory, busLeft>>

\* Seeded slip: an exception ends the loop, as a cancellation does.
Mut_RedisFailureEnds ==
  /\ BusFault
  /\ busTask \in {"answer", "ack", "delete"}
  /\ busTask' = "over" /\ busBatch' = <<>> /\ busNth' = 1
  /\ UNCHANGED <<busServer, busProcess, busHistory, busLeft>>

\* A Redis command raises: the rest of the batch is left pending, and the loop
\* reads on after a second's sleep.
RedisFails ==
  /\ BusFault
  /\ busTask \in {"answer", "ack", "delete"}
  /\ busTask' = "read" /\ busBatch' = <<>> /\ busNth' = 1
  /\ UNCHANGED <<busServer, busProcess, busHistory, busLeft>>

ConsumerStep ==
  \/ BeginConsumer \/ ReadEntries \/ HandlerSucceeds \/ HandlerRaises
  \/ Requeue \/ DeadLetter \/ Acknowledge \/ DeleteEntry

BusNext ==
  \/ \E e \in Events : Publish(e)
  \/ \E h \in Handlers : Subscribe(h) \/ FinishSubscribe(h) \/ Unsubscribe(h)
  \/ UnsubscribeAll \/ StartBus \/ StopBus \/ CrashBus \/ RedisFails
  \/ ConsumerStep

BusSpec == BusInit /\ [][BusNext]_busVars /\ WF_busVars(ConsumerStep)

----------------------------------------------------------------------------
(* Properties.                                                             *)

BusTypeOK ==
  /\ busLog \in Seq([event : Events, count : Nat])
  /\ busPresent \subseteq DOMAIN busLog /\ busPending \subseteq DOMAIN busLog
  /\ busGroup \in -1..Len(busLog)
  /\ busKnown \in BOOLEAN /\ busSubs \in Seq(Handlers) /\ busJoining \subseteq Handlers
  /\ busRunning \in BOOLEAN /\ busTask \in TaskStates
  /\ busBatch \in Seq(DOMAIN busLog) /\ busNth \in Nat \ {0}
  /\ busGot \in [Events -> SUBSET Handlers] /\ busDead \subseteq Events
  /\ busAbsent \in [Events -> SUBSET Handlers]
  /\ busFaults \in 0..MaxBusFaults /\ busLeft \in 0..MaxUnsubscribes

EntriesOf(e) == {i \in DOMAIN busLog : busLog[i].event = e}

\* A handler that was not in the list when an entry was removed (it had not
\* subscribed again after a restart, or had left) is not owed the event.
ReachedHandlers(e) == busGot[e] \cup busAbsent[e] = Handlers

Removed(e) == EntriesOf(e) # {} /\ EntriesOf(e) \cap busPresent = {}

(* An event none of whose entries is left in the stream has reached every  *)
(* handler that is owed it or is dead-lettered, however often the process  *)
(* crashed, the task was cancelled or Redis failed.  One that could not be *)
(* rebuilt may be in neither place, but only after it was read             *)
(* max_delivery_count times.                                               *)
RemovedIsAccounted ==
  \A e \in Events : Removed(e) =>
    \/ ReachedHandlers(e)
    \/ e \in busDead
    \/ ~Readable(e) /\ \E i \in EntriesOf(e) : busLog[i].count + 1 = MaxDeliveryCount

(* dead_letter.py: "Events that exceed maximum delivery attempts are moved *)
(* to a dead-letter stream", so an event that left the stream without      *)
(* having reached its handlers is found there.                             *)
ExhaustedIsDeadLettered ==
  \A e \in Events : Removed(e) => ReachedHandlers(e) \/ e \in busDead

\* The entries of an event that carry delivery_count k.
Copies(e, k) == {i \in EntriesOf(e) : busLog[i].count = k}

(* The copies a failing event breeds are bounded: it is published once, no *)
(* copy carries max_delivery_count, and there are at most |Handlers| times *)
(* as many copies that carry k + 1 as copies that carry k, since an entry  *)
(* is read once and each handler answers it with one copy at most.         *)
CopiesBounded ==
  \A e \in Events :
    /\ Cardinality(Copies(e, 0)) <= 1
    /\ \A i \in EntriesOf(e) : busLog[i].count < MaxDeliveryCount
    /\ \A k \in 0 .. MaxDeliveryCount :
         Cardinality(Copies(e, k + 1)) <= Cardinality(Handlers) * Cardinality(Copies(e, k))

(* While its task lives and the group exists, the entries a consumer has   *)
(* not read run out, the copies it adds itself for failing handlers and    *)
(* those it adds before a Redis command fails included: redelivery comes   *)
(* to an end, and a failure never ends the reading.  (A task that finds no *)
(* subscription reads nothing, nor does one whose xgroup_create failed.)   *)
StreamDrains ==
  (busTask \notin {"none", "new", "over"} /\ busGroup # -1 /\ Undelivered # {})
    ~> (Undelivered = {} \/ busTask = "none")
============================================================================
