--------------------------- MODULE EventBus_proofs ---------------------------
(***************************************************************************)
(* No event is lost silently and its copies stay bounded, for any number   *)
(* of handlers, events, faults and batch sizes.                            *)
(***************************************************************************)
EXTENDS EventBus, FiniteSetTheorems, SequenceTheorems, TLAPS

Busy == {"handle", "answer", "ack", "delete"}

(* What lies behind the group's position is in the stream, and what the    *)
(* task works on lies before it.  A busy task has an entry, and has come   *)
(* as far in the list of handlers as its state says.                       *)
StreamShape ==
  /\ \A i \in DOMAIN busLog : i > busGroup => i \in busPresent
  /\ \A i \in DOMAIN busLog : busLog[i].count < MaxDeliveryCount
  /\ \A k \in DOMAIN busBatch : busBatch[k] <= busGroup
TaskShape ==
  /\ busTask \in Busy \cup {"read"} => busSubs # <<>>
  /\ busTask \in Busy => busGroup >= 0
  /\ IF busTask \in Busy THEN busBatch # <<>> ELSE busNth = 1
  /\ busTask \in {"handle", "answer"} => busNth <= Len(busSubs)
  /\ busTask \in {"ack", "delete"} => busNth <= Len(busSubs) + 1

(* A handler the task has called with an entry is accounted for already:   *)
(* by its success, by the dead letter, by the last permitted reading, or   *)
(* by a copy of the entry that no one has removed.                         *)
Exhausted(e) ==
  ~Readable(e) /\ \E i \in EntriesOf(e) : busLog[i].count + 1 = MaxDeliveryCount
Settled(e, h) ==
  \/ h \in busGot[e] \/ e \in busDead \/ Exhausted(e)
  \/ \E i \in EntriesOf(e) : i \in busPresent /\ i # Current
CalledSettled ==
  busTask \in Busy => \A k \in 1..(busNth - 1) : Settled(CurrentEvent, busSubs[k])

BusInv == BusTypeOK /\ StreamShape /\ TaskShape /\ CalledSettled /\ RemovedIsAccounted

LEMMA BusInitInv == BusInit => BusInv
<1> SUFFICES ASSUME BusInit PROVE BusInv
  OBVIOUS
<1> USE EventBusAssumption DEF BusInit
<1>1. busLog = <<>> /\ busBatch = <<>> /\ busSubs = <<>>
  BY DEF BusInit
<1>2. BusTypeOK
  <2>1. busFaults \in 0..MaxBusFaults /\ busLeft \in 0..MaxUnsubscribes
        /\ busNth \in Nat \ {0} /\ busGroup \in -1..Len(busLog)
    BY <1>1, EmptySeq
  <2>2. busLog \in Seq([event : Events, count : Nat]) /\ busSubs \in Seq(Handlers)
        /\ busBatch \in Seq(DOMAIN busLog)
    BY <1>1, EmptySeq
  <2> QED  BY <2>1, <2>2 DEF BusTypeOK, TaskStates
<1>3. StreamShape /\ TaskShape /\ CalledSettled
  BY <1>1 DEF StreamShape, TaskShape, CalledSettled, Busy
<1>4. RemovedIsAccounted
  BY <1>1 DEF RemovedIsAccounted, Removed, EntriesOf
<1> QED  BY <1>2, <1>3, <1>4 DEF BusInv

(* The entry a busy task works on.                                         *)
LEMMA CurrentTyped ==
  ASSUME BusInv, busTask \in Busy
  PROVE  /\ Current \in DOMAIN busLog /\ Current <= busGroup /\ Current \in Nat
         /\ busLog[Current] \in [event : Events, count : Nat] /\ CurrentEvent \in Events
         /\ Len(busBatch) \in Nat \ {0} /\ Len(busLog) \in Nat /\ DOMAIN busLog = 1..Len(busLog)
<1> USE DEF BusInv
<1>1. busBatch # <<>> /\ busBatch \in Seq(DOMAIN busLog)
  BY DEF TaskShape, BusTypeOK
<1>2. Len(busBatch) \in Nat \ {0} /\ 1 \in DOMAIN busBatch /\ busBatch[1] \in DOMAIN busLog
  BY <1>1, EmptySeq, LenProperties
<1>3. busLog \in Seq([event : Events, count : Nat])
  BY DEF BusTypeOK
<1>4. DOMAIN busLog = 1..Len(busLog) /\ Len(busLog) \in Nat
      /\ busLog \in [1..Len(busLog) -> [event : Events, count : Nat]]
  BY <1>3, LenProperties
<1> QED  BY <1>2, <1>4 DEF Current, CurrentEvent, StreamShape

(* An entry added at the end of the stream.                                *)
LEMMA AddedEntry ==
  ASSUME BusInv, NEW e \in Events, NEW n \in Nat, AddEntry(e, n)
  PROVE  /\ Len(busLog) \in Nat /\ DOMAIN busLog = 1..Len(busLog)
         /\ busLog' \in Seq([event : Events, count : Nat])
         /\ Len(busLog') = Len(busLog) + 1 /\ DOMAIN busLog' = 1..(Len(busLog) + 1)
         /\ \A i \in DOMAIN busLog : busLog'[i] = busLog[i] /\ i # Len(busLog) + 1
         /\ busLog'[Len(busLog) + 1] = [event |-> e, count |-> n]
         /\ busPresent' = busPresent \cup {Len(busLog) + 1}
<1> DEFINE S == [event : Events, count : Nat]
           entry == [event |-> e, count |-> n]
<1>1. busLog \in Seq(S) /\ entry \in S
  BY DEF BusInv, BusTypeOK
<1>2. busLog' = Append(busLog, entry) /\ busPresent' = busPresent \cup {Len(busLog) + 1}
  BY DEF AddEntry
<1> HIDE DEF S, entry
<1>3. Append(busLog, entry) \in Seq(S) /\ Len(Append(busLog, entry)) = Len(busLog) + 1
      /\ \A i \in 1..Len(busLog) : Append(busLog, entry)[i] = busLog[i]
      /\ Append(busLog, entry)[Len(busLog) + 1] = entry
  BY <1>1, AppendProperties
<1>4. Len(busLog) \in Nat /\ DOMAIN busLog = 1..Len(busLog)
      /\ DOMAIN Append(busLog, entry) = 1..Len(Append(busLog, entry))
  BY <1>1, <1>3, LenProperties
<1> QED  BY <1>2, <1>3, <1>4 DEF S, entry

(* Adding an entry unsettles nothing, and the log stays as it was.         *)
LEMMA AddKeeps ==
  ASSUME BusInv, NEW e \in Events, NEW n \in Nat, n < MaxDeliveryCount, AddEntry(e, n),
         UNCHANGED <<busGroup, busPending, busBatch, busGot, busDead, busAbsent>>
  PROVE  /\ busLog' \in Seq([event : Events, count : Nat])
         /\ busPresent' \subseteq DOMAIN busLog' /\ busPending' \subseteq DOMAIN busLog'
         /\ busGroup' \in -1..Len(busLog') /\ busBatch' \in Seq(DOMAIN busLog')
         /\ StreamShape' /\ RemovedIsAccounted'
         /\ busTask \in Busy => Current' = Current /\ CurrentEvent' = CurrentEvent
         /\ busTask \in Busy => \A f \in Events : \A h : Settled(f, h) => Settled(f, h)'
         /\ busTask \in Busy /\ e = CurrentEvent => \A h : Settled(e, h)'
<1> USE DEF BusInv
<1> DEFINE new == Len(busLog) + 1
<1>1. /\ Len(busLog) \in Nat /\ DOMAIN busLog = 1..Len(busLog)
      /\ busLog' \in Seq([event : Events, count : Nat])
      /\ Len(busLog') = new /\ DOMAIN busLog' = 1..new
      /\ \A i \in DOMAIN busLog : busLog'[i] = busLog[i] /\ i # new
      /\ busLog'[new] = [event |-> e, count |-> n]
      /\ busPresent' = busPresent \cup {new}
  BY AddedEntry
<1>2. DOMAIN busLog \subseteq DOMAIN busLog' /\ new \in DOMAIN busLog' /\ new \notin DOMAIN busLog
      /\ DOMAIN busLog' = DOMAIN busLog \cup {new}
  BY <1>1
<1>3. busPresent' \subseteq DOMAIN busLog' /\ busPending' \subseteq DOMAIN busLog'
      /\ busGroup' \in -1..Len(busLog')
  BY <1>1, <1>2 DEF BusTypeOK
<1>4. busBatch' \in Seq(DOMAIN busLog')
  BY <1>2, SeqMonotonic DEF BusTypeOK
<1>5. busLog'[new].event = e /\ busLog'[new].count = n
  BY <1>1
<1> HIDE DEF new
<1>6. StreamShape'
  BY <1>1, <1>2, <1>5 DEF StreamShape
<1>7. \A f \in Events : EntriesOf(f)' = IF f = e THEN EntriesOf(f) \cup {new} ELSE EntriesOf(f)
  BY <1>1, <1>2, <1>5 DEF EntriesOf
<1>8. \A f \in Events : EntriesOf(f) \subseteq DOMAIN busLog
  BY DEF EntriesOf
<1>9. RemovedIsAccounted'
  <2> SUFFICES ASSUME NEW f \in Events, EntriesOf(f)' # {}, EntriesOf(f)' \cap busPresent' = {}
               PROVE  \/ f \in busDead
                      \/ ~Readable(f) /\ \E i \in EntriesOf(f)' : busLog'[i].count + 1 = MaxDeliveryCount
                      \/ busGot[f] \cup busAbsent[f] = Handlers
    BY DEF RemovedIsAccounted, Removed, ReachedHandlers, Readable
  <2>1. f # e
    BY <1>1, <1>7
  <2>2. EntriesOf(f)' = EntriesOf(f) /\ EntriesOf(f) \cap busPresent = {}
    BY <1>1, <1>7, <2>1
  <2> QED  BY <1>1, <1>8, <2>2 DEF RemovedIsAccounted, Removed, ReachedHandlers
<1>10. ASSUME busTask \in Busy
       PROVE  Current \in DOMAIN busLog /\ Current' = Current /\ CurrentEvent' = CurrentEvent
  <2>1. Current \in DOMAIN busLog /\ Current' = Current
    BY <1>10, CurrentTyped DEF Current
  <2> QED  BY <1>1, <2>1 DEF CurrentEvent
<1>11. ASSUME busTask \in Busy, NEW f \in Events, NEW h, Settled(f, h)
       PROVE  Settled(f, h)'
  <2>1. Exhausted(f) => Exhausted(f)'
    BY <1>1, <1>7, <1>8, <1>11 DEF Exhausted, Readable
  <2>2. ASSUME NEW i \in EntriesOf(f), i \in busPresent, i # Current
        PROVE  Settled(f, h)'
    BY <1>1, <1>7, <1>10, <1>11, <2>2 DEF Settled
  <2> QED  BY <1>11, <2>1, <2>2 DEF Settled
<1>12. ASSUME busTask \in Busy, e = CurrentEvent, NEW h PROVE Settled(e, h)'
  BY <1>1, <1>2, <1>7, <1>10, <1>12 DEF Settled
<1> QED  BY <1>1, <1>3, <1>4, <1>6, <1>9, <1>10, <1>11, <1>12

(* The loop over the handlers: the one just called is settled too.         *)
LEMMA NextHandlerKeeps ==
  ASSUME BusInv, busTask \in {"handle", "answer"}, NextHandler,
         UNCHANGED <<busSubs, busGroup>>,
         \A k \in 1..busNth : Settled(CurrentEvent, busSubs[k])'
  PROVE  /\ busBatch' = busBatch /\ busNth' \in Nat \ {0} /\ busTask' \in {"handle", "ack"}
         /\ TaskShape'
         /\ \A k \in 1..(busNth' - 1) : Settled(CurrentEvent, busSubs[k])'
<1> USE DEF BusInv
<1>1. busNth \in Nat \ {0} /\ busNth <= Len(busSubs) /\ Len(busSubs) \in Nat
      /\ busGroup >= 0 /\ busSubs # <<>> /\ busBatch # <<>>
  BY LenProperties DEF TaskShape, BusTypeOK, Busy
<1>2. busNth' = busNth + 1 /\ busBatch' = busBatch
      /\ busTask' = IF busNth < Len(busSubs) THEN "handle" ELSE "ack"
  BY DEF NextHandler
<1>3. TaskShape'
  BY <1>1, <1>2 DEF TaskShape, Busy
<1> QED  BY <1>1, <1>2, <1>3

LEMMA PublishKeepsInv ==
  ASSUME BusInv, NEW e \in Events, Publish(e)
  PROVE  BusInv'
<1> USE DEF BusInv, busServer, busConsumer, busProcess, busHistory
<1>1. AddEntry(e, 0) /\ 0 < MaxDeliveryCount
      /\ UNCHANGED <<busGroup, busPending, busTask, busBatch, busNth, busKnown, busSubs,
                     busJoining, busRunning, busGot, busDead, busAbsent, busFaults, busLeft>>
  BY EventBusAssumption DEF Publish
<1>2. BusTypeOK' /\ StreamShape' /\ RemovedIsAccounted'
  BY <1>1, AddKeeps DEF BusTypeOK
<1>3. TaskShape'
  BY <1>1 DEF TaskShape
<1>4. CalledSettled'
  <2> SUFFICES ASSUME busTask \in Busy, NEW k \in 1..(busNth - 1)
               PROVE  Settled(CurrentEvent, busSubs[k])'
    BY <1>1 DEF CalledSettled
  <2>1. Settled(CurrentEvent, busSubs[k]) /\ CurrentEvent \in Events
    BY CurrentTyped DEF CalledSettled
  <2>2. CurrentEvent' = CurrentEvent /\ \A f \in Events : \A h : Settled(f, h) => Settled(f, h)'
    BY <1>1, AddKeeps
  <2> QED  BY <1>1, <2>1, <2>2 DEF Settled, Exhausted, EntriesOf, Readable
<1> QED  BY <1>2, <1>3, <1>4

(* Nothing that leaves the stream and the history alone loses an event.    *)
LEMMA StreamUntouched ==
  ASSUME BusInv, UNCHANGED <<busLog, busPresent, busGot, busDead, busAbsent>>
  PROVE  RemovedIsAccounted'
BY DEF BusInv, RemovedIsAccounted, Removed, ReachedHandlers, EntriesOf

(* A handler more at the end of the list, or a task begun where none was.  *)
LEMMA ListKeepsInv ==
  ASSUME BusInv,
         busSubs' = busSubs \/ \E h \in Handlers : busSubs' = Append(busSubs, h),
         busTask' = busTask \/ (busTask = "none" /\ busTask' = "new"),
         busKnown' \in BOOLEAN, busJoining' \subseteq Handlers, busRunning' \in BOOLEAN,
         UNCHANGED <<busServer, busBatch, busNth, busHistory, busFaults, busLeft>>
  PROVE  BusInv'
<1> USE DEF BusInv, busServer, busHistory
<1>1. /\ busSubs' \in Seq(Handlers) /\ Len(busSubs) \in Nat /\ Len(busSubs') >= Len(busSubs)
      /\ DOMAIN busSubs = 1..Len(busSubs) /\ (busSubs # <<>> => busSubs' # <<>>)
      /\ \A k \in 1..Len(busSubs) : busSubs'[k] = busSubs[k]
  <2>1. busSubs \in Seq(Handlers)
    BY DEF BusTypeOK
  <2>2. Len(busSubs) \in Nat /\ DOMAIN busSubs = 1..Len(busSubs)
    BY <2>1, LenProperties
  <2>3. CASE busSubs' = busSubs
    BY <2>1, <2>2, <2>3
  <2>4. ASSUME NEW h \in Handlers, busSubs' = Append(busSubs, h)
        PROVE  /\ busSubs' \in Seq(Handlers) /\ Len(busSubs') >= Len(busSubs) /\ busSubs' # <<>>
               /\ \A k \in 1..Len(busSubs) : busSubs'[k] = busSubs[k]
    <3>1. Append(busSubs, h) \in Seq(Handlers) /\ Append(busSubs, h) # <<>>
          /\ Len(Append(busSubs, h)) = Len(busSubs) + 1
          /\ \A k \in 1..Len(busSubs) : Append(busSubs, h)[k] = busSubs[k]
      BY <2>1, AppendProperties
    <3>2. Len(busSubs) + 1 >= Len(busSubs)
      BY <2>2
    <3>3. busSubs' = Append(busSubs, h)
      BY <2>4
    <3> QED  BY <3>1, <3>2, <3>3, Zenon
  <2> QED  BY <2>2, <2>3, <2>4
<1>2. BusTypeOK'
  BY <1>1 DEF BusTypeOK, TaskStates
<1>3. StreamShape' /\ RemovedIsAccounted'
  BY StreamUntouched DEF StreamShape
<1>4. TaskShape'
  BY <1>1 DEF TaskShape, Busy, BusTypeOK
<1>5. CalledSettled'
  <2> SUFFICES ASSUME busTask \in Busy, NEW k \in 1..(busNth - 1)
               PROVE  Settled(CurrentEvent, busSubs[k])'
    BY DEF CalledSettled, Busy
  <2>1. k \in 1..Len(busSubs)
    BY <1>1 DEF TaskShape, Busy, BusTypeOK
  <2>2. Settled(CurrentEvent, busSubs[k]) /\ busSubs'[k] = busSubs[k]
    BY <1>1, <2>1 DEF CalledSettled
  <2> QED  BY <2>2 DEF Settled, Exhausted, EntriesOf, Readable, CurrentEvent, Current
<1> QED  BY <1>2, <1>3, <1>4, <1>5

(* A task that is cancelled, or gives up what it has read.                 *)
LEMMA DropKeepsInv ==
  ASSUME BusInv, busBatch' = <<>>, busNth' = 1,
         \/ busTask' = "none" /\ busSubs' \in Seq(Handlers)
         \/ busTask' = "read" /\ busTask \in Busy /\ busSubs' = busSubs,
         busKnown' \in BOOLEAN, busJoining' \subseteq Handlers, busRunning' \in BOOLEAN,
         busFaults' \in 0..MaxBusFaults, busLeft' \in 0..MaxUnsubscribes,
         UNCHANGED <<busServer, busHistory>>
  PROVE  BusInv'
<1> USE DEF BusInv, busServer, busHistory
<1>1. BusTypeOK'
  <2>1. busBatch' \in Seq(DOMAIN busLog') /\ busNth' \in Nat \ {0}
    BY EmptySeq
  <2>2. busSubs' \in Seq(Handlers) /\ busTask' \in TaskStates
    BY DEF BusTypeOK, TaskStates
  <2> QED  BY <2>1, <2>2 DEF BusTypeOK
<1>2. StreamShape' /\ RemovedIsAccounted'
  BY StreamUntouched DEF StreamShape
<1>3. TaskShape' /\ CalledSettled'
  BY DEF TaskShape, CalledSettled, Busy
<1> QED  BY <1>1, <1>2, <1>3

LEMMA ProcessKeepsInv ==
  ASSUME BusInv,
         \/ \E h \in Handlers : Subscribe(h) \/ FinishSubscribe(h) \/ Unsubscribe(h)
         \/ UnsubscribeAll \/ StartBus \/ StopBus \/ CrashBus \/ RedisFails
  PROVE  BusInv'
<1> USE DEF BusInv, busServer, busConsumer, busProcess, busHistory
<1>1. ASSUME NEW h \in Handlers, Subscribe(h) \/ FinishSubscribe(h) PROVE BusInv'
  BY <1>1, ListKeepsInv DEF Subscribe, FinishSubscribe, StartConsumer, BusTypeOK
<1>5. ASSUME Leave PROVE busLeft' \in 0..MaxUnsubscribes
  <2>1. busLeft \in 0..MaxUnsubscribes /\ busLeft < MaxUnsubscribes /\ busLeft' = busLeft + 1
    BY <1>5, Zenon DEF Leave, BusTypeOK
  <2>2. PICK m, n, k : m = MaxUnsubscribes /\ n = busLeft /\ k = busLeft'
    OBVIOUS
  <2>3. m \in Nat
    BY <2>2, EventBusAssumption
  <2>4. n \in 0..m /\ n < m /\ k = n + 1 => k \in 0..m
    BY <2>3
  <2> QED  BY <2>1, <2>2, <2>4
<1>2. ASSUME NEW h \in Handlers, Unsubscribe(h) PROVE BusInv'
  <2>1. PICK i \in DOMAIN busSubs :
          busSubs' = SubSeq(busSubs, 1, i - 1) \o SubSeq(busSubs, i + 1, Len(busSubs))
    BY <1>2 DEF Unsubscribe
  <2>2. busSubs \in Seq(Handlers) /\ DOMAIN busSubs = 1..Len(busSubs) /\ Len(busSubs) \in Nat
    BY LenProperties DEF BusTypeOK
  <2>3. SubSeq(busSubs, 1, i - 1) \in Seq(Handlers)
    BY <2>1, <2>2, SubSeqProperties
  <2>4. SubSeq(busSubs, i + 1, Len(busSubs)) \in Seq(Handlers)
    BY <2>1, <2>2, SubSeqProperties
  <2>5. busSubs' \in Seq(Handlers)
    BY <2>1, <2>3, <2>4, ConcatProperties
  <2> QED  BY <1>2, <1>5, <2>5, DropKeepsInv DEF Unsubscribe, Leave, CancelConsumer, BusTypeOK
<1>7. CASE UnsubscribeAll
  <2>1. busSubs' \in Seq(Handlers)
    BY <1>7, EmptySeq DEF UnsubscribeAll
  <2> QED  BY <1>5, <1>7, <2>1, DropKeepsInv DEF UnsubscribeAll, Leave, CancelConsumer, BusTypeOK
<1>3. CASE StartBus
  <2>1. busTask' = busTask \/ (busTask = "none" /\ busTask' = "new")
    BY <1>3 DEF StartBus, StartConsumer
  <2> QED  BY <1>3, <2>1, ListKeepsInv DEF StartBus, BusTypeOK
<1>4. CASE StopBus \/ CrashBus
  <2>1. /\ busFaults < MaxBusFaults /\ busFaults' = busFaults + 1 /\ UNCHANGED busLeft
        /\ busTask' = "none" /\ busBatch' = <<>> /\ busNth' = 1
        /\ UNCHANGED <<busServer, busHistory>>
    BY <1>4 DEF StopBus, CrashBus, BusFault, CancelConsumer
  <2>2. busFaults' \in 0..MaxBusFaults /\ busLeft' \in 0..MaxUnsubscribes
    BY <2>1, EventBusAssumption DEF BusTypeOK
  <2>3. busRunning' = FALSE /\ busKnown' \in BOOLEAN
    BY <1>4 DEF StopBus, CrashBus, BusTypeOK
  <2>4. busSubs' \in Seq(Handlers) /\ busJoining' \subseteq Handlers
    BY <1>4, EmptySeq DEF StopBus, CrashBus, BusTypeOK
  <2> QED  BY <2>1, <2>2, <2>3, <2>4, DropKeepsInv
<1>6. CASE RedisFails
  BY <1>6, DropKeepsInv, EventBusAssumption DEF RedisFails, BusFault, BusTypeOK, Busy
<1> QED  BY <1>1, <1>2, <1>3, <1>4, <1>6, <1>7

LEMMA BeginKeepsInv ==
  ASSUME BusInv, BeginConsumer
  PROVE  BusInv'
<1> USE DEF BusInv, busProcess, busHistory
<1>0. Len(busLog) \in Nat /\ DOMAIN busLog = 1..Len(busLog)
  BY LenProperties DEF BusTypeOK
<1>1. /\ busTask = "new" /\ busNth = 1 /\ busTask' \in {"over", "read"}
      /\ busTask' = "read" => busSubs # <<>>
      /\ busFaults' \in 0..MaxBusFaults
      /\ busGroup' \in -1..Len(busLog) /\ busGroup' >= busGroup
      /\ \A i \in DOMAIN busLog : i > busGroup' => i > busGroup
      /\ UNCHANGED <<busLog, busPresent, busPending, busBatch, busNth, busKnown, busSubs,
                     busJoining, busRunning, busGot, busDead, busAbsent, busLeft>>
  BY <1>0, EventBusAssumption DEF BeginConsumer, BusFault, BusTypeOK, TaskShape, Busy
<1>2. BusTypeOK'
  BY <1>1 DEF BusTypeOK, TaskStates
<1>3. StreamShape'
  <2>1. \A k \in DOMAIN busBatch : busBatch[k] \in Nat
    <3>1. busBatch \in Seq(DOMAIN busLog)
      BY DEF BusTypeOK
    <3> QED  BY <1>0, <3>1, LenProperties
  <2> QED  BY SMTT(30), <1>0, <1>1, <2>1 DEF StreamShape, BusTypeOK
<1>4. TaskShape' /\ CalledSettled' /\ RemovedIsAccounted'
  BY <1>1, StreamUntouched DEF TaskShape, CalledSettled, Busy
<1> QED  BY <1>2, <1>3, <1>4

(* What the group has not been given is the end of the log.                *)
LEMMA UndeliveredTail ==
  ASSUME BusInv, busTask = "read", busGroup # -1, Undelivered # {}
  PROVE  /\ Len(busLog) \in Nat /\ DOMAIN busLog = 1..Len(busLog)
         /\ busGroup \in Nat /\ busGroup < Len(busLog)
         /\ Min(Undelivered) = busGroup + 1
         /\ Cardinality(Undelivered) = Len(busLog) - busGroup
<1> USE DEF BusInv
<1>1. Len(busLog) \in Nat /\ DOMAIN busLog = 1..Len(busLog) /\ busGroup \in Nat
  BY LenProperties DEF BusTypeOK, TaskShape
<1>2. Undelivered = (busGroup + 1)..Len(busLog)
  BY <1>1 DEF Undelivered, StreamShape, BusTypeOK
<1>3. busGroup + 1 \in Undelivered /\ busGroup < Len(busLog)
      /\ \A i \in Undelivered : busGroup + 1 <= i
  BY <1>1, <1>2
<1>4. Min(Undelivered) = busGroup + 1
  <2>1. \A i \in Undelivered : i \in Int
    BY <1>1, <1>2
  <2>2. \A m \in Undelivered : (\A i \in Undelivered : m <= i) => m = busGroup + 1
    BY <1>1, <1>3, <2>1
  <2> QED  BY <1>3, <2>2 DEF Min
<1>5. Cardinality(Undelivered) = Len(busLog) - busGroup
  BY <1>1, <1>2, <1>3, FS_Interval
<1> QED  BY <1>1, <1>3, <1>4, <1>5

LEMMA ReadKeepsInv ==
  ASSUME BusInv, ReadEntries
  PROVE  BusInv'
<1> USE DEF BusInv, busProcess, busHistory
<1> DEFINE first == busGroup + 1
           count == IF Len(busLog) - busGroup < BatchSize THEN Len(busLog) - busGroup
                    ELSE BatchSize
           last == first + count - 1
<1>0. busTask = "read" /\ busGroup # -1 /\ Undelivered # {}
  BY DEF ReadEntries
<1>1. /\ Len(busLog) \in Nat /\ DOMAIN busLog = 1..Len(busLog)
      /\ busGroup \in Nat /\ busGroup < Len(busLog)
      /\ Min(Undelivered) = first /\ Cardinality(Undelivered) = Len(busLog) - busGroup
  BY <1>0, UndeliveredTail
<1>2. /\ busBatch' = [i \in 1..count |-> first + i - 1]
      /\ busPending' = busPending \cup first..last /\ busGroup' = last
      /\ busTask' = "handle" /\ busNth' = 1
      /\ UNCHANGED <<busLog, busPresent, busKnown, busSubs, busJoining, busRunning,
                     busGot, busDead, busAbsent, busFaults, busLeft>>
  BY <1>1 DEF ReadEntries
<1>3. /\ count \in Nat \ {0} /\ last \in Nat /\ last <= Len(busLog) /\ last > busGroup
      /\ first..last \subseteq DOMAIN busLog
      /\ \A i \in 1..count : first + i - 1 \in DOMAIN busLog /\ first + i - 1 <= last
  <2>1. count \in Nat \ {0} /\ count <= Len(busLog) - busGroup
    <3>1. Len(busLog) \in Nat /\ busGroup \in Nat /\ busGroup < Len(busLog)
      BY <1>1
    <3>2. BatchSize \in Nat \ {0}
      BY EventBusAssumption
    <3>3. CASE Len(busLog) - busGroup < BatchSize
      <4>1. count = Len(busLog) - busGroup
        BY <3>3
      <4> HIDE DEF count
      <4> QED  BY <3>1, <4>1
    <3>4. CASE ~(Len(busLog) - busGroup < BatchSize)
      <4>1. count = BatchSize
        BY <3>4
      <4> HIDE DEF count
      <4> QED  BY <3>1, <3>2, <3>4, <4>1
    <3> QED  BY <3>3, <3>4
  <2> HIDE DEF count
  <2>2. first \in Nat /\ first = busGroup + 1 /\ last = busGroup + count
    BY <1>1, <2>1
  <2> HIDE DEF last, first
  <2> QED  BY <1>1, <2>1, <2>2
<1> HIDE DEF count, last, first
<1>4. busBatch' \in Seq(DOMAIN busLog) /\ DOMAIN busBatch' = 1..count /\ busBatch' # <<>>
      /\ \A k \in DOMAIN busBatch' : busBatch'[k] <= last
  <2>1. busBatch' \in [1..count -> DOMAIN busLog]
    BY <1>2, <1>3
  <2>2. busBatch' \in Seq(DOMAIN busLog)
    BY <1>3, <2>1, SeqDef
  <2>3. 1 \in 1..count /\ DOMAIN busBatch' = 1..count
    BY <1>3, <2>1
  <2>4. \A k \in DOMAIN busBatch' : busBatch'[k] <= last
    BY <1>2, <1>3, <2>3
  <2>5. busBatch' # <<>>
    <3>1. PICK b : b = busBatch'
      OBVIOUS
    <3>2. 1 \in DOMAIN b /\ b \in Seq(DOMAIN busLog)
      BY <2>2, <2>3, <3>1
    <3>3. b # <<>>
      BY <3>2, EmptySeq, LenProperties
    <3> QED  BY <3>1, <3>3
  <2> QED  BY <2>2, <2>3, <2>4, <2>5
<1>5. BusTypeOK'
  BY SMTT(30), <1>1, <1>2, <1>3, <1>4 DEF BusTypeOK, TaskStates
<1>6. StreamShape'
  BY <1>1, <1>2, <1>3, <1>4 DEF StreamShape
<1>7. TaskShape'
  <2>1. busSubs # <<>> /\ Len(busSubs) \in Nat \ {0}
    BY <1>0, EmptySeq DEF TaskShape, BusTypeOK
  <2>2. busGroup' >= 0 /\ busSubs' # <<>> /\ busBatch' # <<>> /\ busNth' <= Len(busSubs')
    BY <1>1, <1>2, <1>3, <1>4, <2>1
  <2> QED  BY <1>2, <2>2 DEF TaskShape, Busy
<1>8. CalledSettled' /\ RemovedIsAccounted'
  BY <1>2, StreamUntouched DEF CalledSettled
<1> QED  BY <1>5, <1>6, <1>7, <1>8

(* A handler has succeeded with the event, or failed with the last one of  *)
(* the permitted entries.                                                  *)
LEMMA SettleKeepsInv ==
  ASSUME BusInv, busTask \in {"handle", "answer"}, NextHandler,
         busGot' \in [Events -> SUBSET Handlers], busDead' \subseteq Events,
         \A e \in Events : busGot[e] \subseteq busGot'[e], busDead \subseteq busDead',
         NEW h, h = busSubs[busNth], Settled(CurrentEvent, h)',
         UNCHANGED <<busServer, busProcess, busAbsent, busFaults, busLeft>>
  PROVE  BusInv'
<1> USE DEF BusInv, busServer, busProcess
<1>0. busTask \in Busy /\ CurrentEvent \in Events /\ busBatch' = busBatch
  BY CurrentTyped DEF Busy, NextHandler
<1>1. \A k \in 1..(busNth - 1) : Settled(CurrentEvent, busSubs[k])'
  <2> SUFFICES ASSUME NEW k \in 1..(busNth - 1) PROVE Settled(CurrentEvent, busSubs[k])'
    OBVIOUS
  <2>1. Settled(CurrentEvent, busSubs[k])
    BY <1>0 DEF CalledSettled
  <2> QED  BY <1>0, <2>1 DEF Settled, Exhausted, EntriesOf, Readable, CurrentEvent, Current
<1>2. \A k \in 1..busNth : Settled(CurrentEvent, busSubs[k])'
  <2> SUFFICES ASSUME NEW k \in 1..busNth PROVE Settled(CurrentEvent, busSubs[k])'
    OBVIOUS
  <2>1. CASE k = busNth
    BY <2>1
  <2>2. CASE k # busNth
    <3>1. k \in 1..(busNth - 1)
      BY <2>2 DEF BusTypeOK
    <3> QED  BY <1>1, <3>1
  <2> QED  BY <2>1, <2>2
<1>3. /\ busNth' \in Nat \ {0} /\ busTask' \in {"handle", "ack"} /\ TaskShape'
      /\ \A k \in 1..(busNth' - 1) : Settled(CurrentEvent, busSubs[k])'
  BY <1>2, NextHandlerKeeps
<1>4. BusTypeOK'
  BY <1>0, <1>3 DEF BusTypeOK, TaskStates
<1>5. StreamShape'
  BY <1>0 DEF StreamShape
<1>6. CalledSettled'
  BY <1>3 DEF CalledSettled
<1>7. RemovedIsAccounted'
  <2> SUFFICES ASSUME NEW e \in Events, EntriesOf(e) # {}, EntriesOf(e) \cap busPresent = {},
                      e \notin busDead',
                      ~(~Readable(e) /\ \E i \in EntriesOf(e) : busLog[i].count + 1 = MaxDeliveryCount)
               PROVE  busGot'[e] \cup busAbsent[e] = Handlers
    BY DEF RemovedIsAccounted, Removed, ReachedHandlers, EntriesOf, Readable
  <2>1. busGot[e] \cup busAbsent[e] = Handlers
    BY DEF RemovedIsAccounted, Removed, ReachedHandlers
  <2> QED  BY <2>1 DEF BusTypeOK
<1> QED  BY <1>3, <1>4, <1>5, <1>6, <1>7

LEMMA HandlersKeepInv ==
  ASSUME BusInv, HandlerSucceeds \/ HandlerRaises \/ DeadLetter
  PROVE  BusInv'
<1> USE DEF BusInv, busServer, busProcess, busHistory
<1>1. CASE HandlerSucceeds
  <2>1. busTask = "handle" /\ CurrentEvent \in Events /\ busSubs[busNth] \in Handlers
    <3>1. busTask = "handle" /\ busNth \in 1..Len(busSubs)
      BY <1>1, LenProperties DEF HandlerSucceeds, TaskShape, BusTypeOK
    <3>2. busSubs[busNth] \in Handlers
      BY <3>1, ElementOfSeq DEF BusTypeOK
    <3> QED  BY <3>1, <3>2, CurrentTyped DEF Busy
  <2>2. /\ busGot' = [busGot EXCEPT ![CurrentEvent] = @ \cup {busSubs[busNth]}]
        /\ NextHandler /\ UNCHANGED <<busServer, busProcess, busDead, busAbsent, busFaults, busLeft>>
    BY <1>1 DEF HandlerSucceeds
  <2>3. /\ busGot' \in [Events -> SUBSET Handlers]
        /\ \A e \in Events : busGot[e] \subseteq busGot'[e]
        /\ busSubs[busNth] \in busGot'[CurrentEvent]
    BY <2>1, <2>2 DEF BusTypeOK
  <2> DEFINE h == busSubs[busNth]
  <2>4. \A g : g = h => Settled(CurrentEvent, g)'
    BY <2>2, <2>3 DEF Settled, CurrentEvent, Current, NextHandler
  <2> QED  BY <2>1, <2>2, <2>3, <2>4, SettleKeepsInv DEF BusTypeOK
<1>2. CASE HandlerRaises
  <2>1. busTask = "handle" /\ busTask' = "answer"
        /\ UNCHANGED <<busLog, busPresent, busGroup, busPending, busBatch, busNth, busKnown,
                       busSubs, busJoining, busRunning, busGot, busDead, busAbsent, busFaults,
                       busLeft>>
    BY <1>2 DEF HandlerRaises
  <2> QED  BY <2>1, StreamUntouched
           DEF BusTypeOK, TaskStates, StreamShape, TaskShape, Busy, CalledSettled, Settled,
               Exhausted, EntriesOf, Readable, CurrentEvent, Current
<1>3. CASE DeadLetter
  <2>1. busTask = "answer" /\ DeliveryCount >= MaxDeliveryCount /\ NextHandler
        /\ busDead' = (IF Readable(CurrentEvent) THEN busDead \cup {CurrentEvent} ELSE busDead)
        /\ UNCHANGED <<busServer, busProcess, busGot, busAbsent, busFaults, busLeft>>
    BY <1>3 DEF DeadLetter
  <2>2. /\ CurrentEvent \in Events /\ Current \in DOMAIN busLog
        /\ busLog[Current].count \in Nat /\ busLog[Current].count < MaxDeliveryCount
    BY <2>1, CurrentTyped DEF Busy, StreamShape
  <2>3. busLog[Current].count + 1 = MaxDeliveryCount
    BY <2>1, <2>2, EventBusAssumption DEF DeliveryCount
  <2>4. \A g : Settled(CurrentEvent, g)'
    <3>1. CASE Readable(CurrentEvent)
      BY <2>1, <3>1 DEF Settled, CurrentEvent, Current, NextHandler
    <3>2. CASE ~Readable(CurrentEvent)
      <4>1. Current \in EntriesOf(CurrentEvent)
        BY <2>2 DEF EntriesOf, CurrentEvent
      <4>2. Exhausted(CurrentEvent)
        BY <2>3, <3>2, <4>1 DEF Exhausted
      <4> QED  BY <2>1, <4>2
               DEF Settled, Exhausted, EntriesOf, Readable, CurrentEvent, Current, NextHandler
    <3> QED  BY <3>1, <3>2
  <2> QED  BY <2>1, <2>2, <2>4, SettleKeepsInv DEF BusTypeOK
<1> QED  BY <1>1, <1>2, <1>3

LEMMA RequeueKeepsInv ==
  ASSUME BusInv, Requeue
  PROVE  BusInv'
<1> USE DEF BusInv, busProcess, busHistory
<1>1. /\ busTask = "answer" /\ AddEntry(CurrentEvent, DeliveryCount) /\ NextHandler
      /\ UNCHANGED <<busGroup, busPending, busKnown, busSubs, busJoining, busRunning,
                     busGot, busDead, busAbsent, busFaults, busLeft>>
      /\ DeliveryCount < MaxDeliveryCount
  BY DEF Requeue
<1>2. busTask \in Busy /\ CurrentEvent \in Events /\ DeliveryCount \in Nat /\ busBatch' = busBatch
  BY <1>1, CurrentTyped DEF Busy, DeliveryCount, NextHandler
<1>3. /\ busLog' \in Seq([event : Events, count : Nat])
      /\ busPresent' \subseteq DOMAIN busLog' /\ busPending' \subseteq DOMAIN busLog'
      /\ busGroup' \in -1..Len(busLog') /\ busBatch' \in Seq(DOMAIN busLog')
      /\ StreamShape' /\ RemovedIsAccounted' /\ CurrentEvent' = CurrentEvent
      /\ \A h : Settled(CurrentEvent, h)'
  BY <1>1, <1>2, AddKeeps
<1>4. busNth' \in Nat \ {0} /\ busTask' \in {"handle", "ack"} /\ TaskShape'
  BY <1>1, <1>3, NextHandlerKeeps
<1>5. BusTypeOK'
  BY <1>1, <1>3, <1>4 DEF BusTypeOK, TaskStates
<1>6. CalledSettled'
  BY <1>3 DEF CalledSettled
<1> QED  BY <1>3, <1>4, <1>5, <1>6

(* The entry goes: its copies remain, or every handler called is settled   *)
(* for good, and those not called are recorded as absent.                  *)
LEMMA RemovalKeepsInv ==
  ASSUME BusInv, Acknowledge \/ DeleteEntry
  PROVE  BusInv'
<1> USE DEF BusInv, busProcess, busHistory
<1>1. CASE Acknowledge
  <2>1. busTask = "ack" /\ busTask' = "delete" /\ busPending' \subseteq busPending
        /\ UNCHANGED <<busLog, busPresent, busGroup, busBatch, busNth, busKnown,
                       busSubs, busJoining, busRunning, busGot, busDead, busAbsent, busFaults,
                       busLeft>>
    BY <1>1 DEF Acknowledge
  <2> QED  BY <2>1, StreamUntouched
           DEF BusTypeOK, TaskStates, StreamShape, TaskShape, Busy, CalledSettled, Settled,
               Exhausted, EntriesOf, Readable, CurrentEvent, Current
<1>2. CASE DeleteEntry
  <2> DEFINE e == CurrentEvent
  <2>1. /\ busTask = "delete" /\ busPresent' = busPresent \ {Current}
        /\ busAbsent' = [busAbsent EXCEPT ![e] = @ \cup (Handlers \ CalledHandlers)]
        /\ busBatch' = Tail(busBatch) /\ busNth' = 1
        /\ busTask' = (IF Len(busBatch) = 1 THEN "read" ELSE "handle")
        /\ UNCHANGED <<busLog, busGroup, busPending, busKnown, busSubs, busJoining, busRunning,
                       busGot, busDead, busFaults, busLeft>>
    BY <1>2 DEF DeleteEntry
  <2>2. /\ Current \in DOMAIN busLog /\ Current <= busGroup /\ Current \in Nat
        /\ e \in Events /\ Len(busBatch) \in Nat \ {0}
        /\ Len(busLog) \in Nat /\ DOMAIN busLog = 1..Len(busLog)
    BY <2>1, CurrentTyped DEF Busy
  <2>3. /\ Tail(busBatch) \in Seq(DOMAIN busLog) /\ Len(Tail(busBatch)) = Len(busBatch) - 1
        /\ \A k \in 1..Len(Tail(busBatch)) : Tail(busBatch)[k] = busBatch[k + 1]
    <3>1. busBatch \in Seq(DOMAIN busLog) /\ busBatch # <<>>
      BY <2>1 DEF BusTypeOK, TaskShape, Busy
    <3> QED  BY <3>1, HeadTailProperties
  <2>4. BusTypeOK'
    <3>1. busAbsent' \in [Events -> SUBSET Handlers]
      BY <2>1, <2>2 DEF BusTypeOK
    <3> QED  BY <2>1, <2>3, <3>1 DEF BusTypeOK, TaskStates
  <2>5. StreamShape'
    <3>1. \A k \in DOMAIN Tail(busBatch) : Tail(busBatch)[k] <= busGroup
      <4>1. DOMAIN Tail(busBatch) = 1..Len(Tail(busBatch)) /\ DOMAIN busBatch = 1..Len(busBatch)
        BY <2>3, LenProperties DEF BusTypeOK
      <4> QED  BY <2>2, <2>3, <4>1 DEF StreamShape
    <3>2. \A i \in DOMAIN busLog : i > busGroup => i # Current
      BY <2>2 DEF BusTypeOK
    <3> QED  BY <2>1, <3>1, <3>2 DEF StreamShape
  <2>6. TaskShape'
    <3>1. busGroup >= 0 /\ Len(busSubs) \in Nat \ {0} /\ busSubs # <<>>
      BY <2>1, EmptySeq DEF TaskShape, Busy, BusTypeOK
    <3>2. Len(busBatch) # 1 => Tail(busBatch) # <<>>
      <4>1. Tail(busBatch) = <<>> => Len(Tail(busBatch)) = 0
        BY EmptySeq
      <4> QED  BY <2>2, <2>3, <4>1
    <3> QED  BY <2>1, <3>1, <3>2 DEF TaskShape, Busy
  <2>7. CalledSettled'
    BY <2>1 DEF CalledSettled
  <2>8. RemovedIsAccounted'
    <3> SUFFICES ASSUME NEW f \in Events, EntriesOf(f) # {},
                        EntriesOf(f) \cap busPresent' = {}, f \notin busDead, ~Exhausted(f)
                 PROVE  busGot[f] \cup busAbsent'[f] = Handlers
      BY <2>1 DEF RemovedIsAccounted, Removed, ReachedHandlers, EntriesOf, Readable, Exhausted
    <3>1. CASE f = e
      <4>1. \A h \in CalledHandlers : h \in busGot[e]
        <5> SUFFICES ASSUME NEW k \in 1..(busNth - 1) PROVE busSubs[k] \in busGot[e]
          BY DEF CalledHandlers
        <5>1. Settled(e, busSubs[k])
          BY <2>1 DEF CalledSettled, Busy
        <5>2. \A i \in EntriesOf(e) : ~(i \in busPresent /\ i # Current)
          BY <2>1, <3>1
        <5> QED  BY <3>1, <5>1, <5>2 DEF Settled
      <4>2. busAbsent'[e] = busAbsent[e] \cup (Handlers \ CalledHandlers)
        BY <2>1, <2>2 DEF BusTypeOK
      <4> QED  BY <2>2, <3>1, <4>1, <4>2 DEF BusTypeOK
    <3>2. CASE f # e
      <4>1. EntriesOf(f) \cap busPresent = {}
        BY <2>1, <3>2 DEF EntriesOf, CurrentEvent
      <4>2. busAbsent'[f] = busAbsent[f]
        BY <2>1, <3>2 DEF BusTypeOK
      <4> QED  BY <4>1, <4>2 DEF RemovedIsAccounted, Removed, ReachedHandlers, Exhausted
    <3> QED  BY <3>1, <3>2
  <2> QED  BY <2>4, <2>5, <2>6, <2>7, <2>8
<1> QED  BY <1>1, <1>2

LEMMA BusStepInv == BusInv /\ [BusNext]_busVars => BusInv'
<1> SUFFICES ASSUME BusInv, [BusNext]_busVars PROVE BusInv'
  OBVIOUS
<1>1. CASE UNCHANGED busVars
  <2>1. UNCHANGED <<busLog, busPresent, busGroup, busPending, busTask, busBatch, busNth,
                    busKnown, busSubs, busJoining, busRunning,
                     busGot, busDead, busAbsent, busFaults,
                    busLeft>>
    BY <1>1 DEF busVars, busServer, busConsumer, busProcess, busHistory
  <2> QED  BY <2>1, StreamUntouched
           DEF BusInv, BusTypeOK, StreamShape, TaskShape, CalledSettled, Settled, Exhausted,
               EntriesOf, Readable, CurrentEvent, Current
<1>2. CASE BusNext
  <2>1. CASE ConsumerStep
    BY <2>1, BeginKeepsInv, ReadKeepsInv, HandlersKeepInv, RequeueKeepsInv, RemovalKeepsInv
       DEF ConsumerStep
  <2> QED  BY <1>2, <2>1, PublishKeepsInv, ProcessKeepsInv DEF BusNext
<1> QED  BY <1>1, <1>2

LEMMA BusAlways == BusSpec => []BusInv
BY BusInitInv, BusStepInv, PTL DEF BusSpec

(* The variables of the event bus model keep their types.                  *)
THEOREM BusTyped == BusSpec => []BusTypeOK
<1>1. BusInv => BusTypeOK
  BY DEF BusInv
<1> QED  BY <1>1, BusAlways, PTL

(* An event whose entries are all gone was delivered, dead-lettered or     *)
(* read as often as is permitted, for any number of events, handlers,      *)
(* crashes, cancelled tasks and Redis failures.                            *)
THEOREM RemovalAccounted == BusSpec => []RemovedIsAccounted
<1>1. BusInv => RemovedIsAccounted
  BY DEF BusInv
<1> QED  BY <1>1, BusAlways, PTL

-----------------------------------------------------------------------------
(* How many copies an event has. *)

InBatch == {busBatch[j] : j \in DOMAIN busBatch}

(* The copies with count k the consumer is through with, and how    *)
(* many of those with count k + 1 the entry at hand has bred, at most.     *)
Handled(e, k) == {i \in Copies(e, k) : i <= busGroup /\ i \notin InBatch}
AtHand(e, k) == busTask \in Busy /\ busLog[Current] = [event |-> e, count |-> k]
Bred(e, k) == IF AtHand(e, k) THEN busNth - 1 ELSE 0

Generation(e, k) ==
  Cardinality(Copies(e, k + 1)) <= Cardinality(Handlers) * Cardinality(Handled(e, k)) + Bred(e, k)

(* No handler is listed twice, and no entry is in a batch twice.           *)
ListsOnce ==
  /\ \A i, j \in DOMAIN busSubs : busSubs[i] = busSubs[j] => i = j
  /\ \A i, j \in DOMAIN busBatch : busBatch[i] = busBatch[j] => i = j
  /\ busTask \notin Busy => busBatch = <<>>

Generations ==
  \A e \in Events : /\ Cardinality(Copies(e, 0)) <= 1
                    /\ \A k \in Nat : Generation(e, k)

LEMMA CopiesFinite ==
  ASSUME BusInv, NEW e, NEW k
  PROVE  /\ Copies(e, k) \subseteq DOMAIN busLog /\ Handled(e, k) \subseteq Copies(e, k)
         /\ IsFiniteSet(Copies(e, k)) /\ Cardinality(Copies(e, k)) \in Nat
         /\ IsFiniteSet(Handled(e, k)) /\ Cardinality(Handled(e, k)) \in Nat
         /\ Cardinality(Handled(e, k)) <= Cardinality(Copies(e, k))
<1>1. DOMAIN busLog = 1 .. Len(busLog) /\ Len(busLog) \in Nat
  BY LenProperties DEF BusInv, BusTypeOK
<1>2. IsFiniteSet(DOMAIN busLog)
  BY <1>1, FS_Interval
<1>3. Copies(e, k) \in SUBSET DOMAIN busLog /\ Handled(e, k) \in SUBSET Copies(e, k)
  BY DEF Copies, EntriesOf, Handled
<1>4. IsFiniteSet(Copies(e, k)) /\ Cardinality(Copies(e, k)) \in Nat
  BY <1>2, <1>3, FS_Subset, FS_CardinalityType
<1>5. /\ IsFiniteSet(Handled(e, k)) /\ Cardinality(Handled(e, k)) \in Nat
      /\ Cardinality(Handled(e, k)) <= Cardinality(Copies(e, k))
  BY <1>3, <1>4, FS_Subset, FS_CardinalityType
<1> QED  BY <1>3, <1>4, <1>5

(* Each of the handlers is called once with the entry at hand.             *)
LEMMA CallsBounded ==
  ASSUME BusInv, ListsOnce
  PROVE  /\ Cardinality(Handlers) \in Nat /\ busNth \in Nat \ {0}
         /\ busTask \in Busy => busNth - 1 <= Cardinality(Handlers)
<1>1. /\ busSubs \in [1 .. Len(busSubs) -> Handlers] /\ Len(busSubs) \in Nat
      /\ IsFiniteSet(Handlers) /\ busNth \in Nat \ {0}
      /\ busTask \in Busy => busNth <= Len(busSubs) + 1
  BY LenProperties, EventBusAssumption DEF BusInv, BusTypeOK, TaskShape, Busy
<1>2. busSubs \in Injection(1 .. Len(busSubs), Handlers)
  BY <1>1 DEF Injection, IsInjective, ListsOnce
<1>3. Cardinality(1 .. Len(busSubs)) <= Cardinality(Handlers)
  BY <1>1, <1>2, FS_Injection
<1>4. Cardinality(1 .. Len(busSubs)) = Len(busSubs)
  <2>1. PICK n \in Nat : n = Len(busSubs)
    BY <1>1
  <2>2. Cardinality(1 .. n) = IF 1 > n THEN 0 ELSE n - 1 + 1
    BY FS_Interval
  <2>3. Cardinality(1 .. n) = n
    BY <2>2
  <2> QED  BY <2>1, <2>3
<1>5. Cardinality(Handlers) \in Nat
  BY <1>1, FS_CardinalityType
<1> QED  BY <1>1, <1>3, <1>4, <1>5

LEMMA ProductGrows ==
  ASSUME NEW h \in Nat, NEW m \in Nat, NEW n \in Nat
  PROVE  /\ m <= n => h * m <= h * n
         /\ m + 1 <= n => h * m + h <= h * n
         /\ h * m \in Nat
<1>1. h * (m + 1) = h * m + h /\ h * m \in Nat
  OBVIOUS
<1>2. ASSUME NEW a \in Nat, NEW b \in Nat, a <= b PROVE h * a <= h * b
  <2>1. PICK d \in Nat : b = a + d
    BY <1>2
  <2>2. h * b = h * a + h * d /\ h * d \in Nat /\ h * a \in Nat
    BY <2>1
  <2> QED  BY <2>2
<1> QED  BY <1>1, <1>2

LEMMA OneLess ==
  ASSUME NEW m \in Nat, NEW n \in Nat
  PROVE  /\ m <= n => m - 1 <= n - 1
         /\ n >= 1 => n - 1 >= 0 /\ n - 1 \in Int
OBVIOUS

(* A step that adds no copy: the entry at hand stays at hand, or leaves    *)
(* the batch.                                                              *)
LEMMA NoCopyKeeps ==
  ASSUME BusInv, BusInv', ListsOnce, Generations, busLog' = busLog, busGroup <= busGroup',
         \A i \in InBatch' : i \in InBatch \/ i > busGroup,
         \/ busTask \notin Busy /\ (busTask' \in Busy => busNth' = 1)
         \/ busTask \in Busy /\ busTask' \in Busy /\ Current' = Current /\ busNth <= busNth'
         \/ busTask \in Busy /\ Current \notin InBatch' /\ busNth' = 1
  PROVE  Generations'
<1> SUFFICES ASSUME NEW e \in Events, NEW k \in Nat
             PROVE  Cardinality(Copies(e, 0))' <= 1 /\ Generation(e, k)'
  BY DEF Generations
<1>1. \A n : Copies(e, n)' = Copies(e, n)
  BY DEF Copies, EntriesOf
<1>2. busGroup \in Int /\ busGroup' \in Int /\ DOMAIN busLog \subseteq Int
  BY LenProperties DEF BusInv, BusTypeOK
<1>3. Handled(e, k) \subseteq Handled(e, k)'
  <2>1. Copies(e, k) \subseteq DOMAIN busLog
    BY CopiesFinite
  <2> QED  BY <1>1, <1>2, <2>1 DEF Handled
<1>4. /\ IsFiniteSet(Handled(e, k)') /\ Cardinality(Handled(e, k)') \in Nat
      /\ IsFiniteSet(Handled(e, k)) /\ Cardinality(Handled(e, k)) \in Nat
  <2>1. IsFiniteSet(Copies(e, k)) /\ Handled(e, k)' \in SUBSET Copies(e, k)
    BY <1>1, CopiesFinite DEF Handled
  <2> QED  BY <2>1, CopiesFinite, FS_Subset, FS_CardinalityType
<1>5. Cardinality(Handled(e, k)) <= Cardinality(Handled(e, k)')
  BY <1>3, <1>4, FS_Subset
<1>6. /\ Cardinality(Handlers) \in Nat /\ busNth \in Nat /\ busNth' \in Nat /\ busNth' >= 1
      /\ busTask \in Busy => busNth - 1 <= Cardinality(Handlers)
  BY CallsBounded DEF BusInv, BusTypeOK
<1>7. Cardinality(Copies(e, k + 1)) \in Nat /\ Generation(e, k)
  BY CopiesFinite DEF Generations
<1>10. Bred(e, k)' >= 0 /\ Bred(e, k)' \in Int
  <2>1. CASE AtHand(e, k)'
    <3>1. Bred(e, k)' = busNth' - 1
      BY <2>1, Zenon DEF Bred
    <3>2. busNth' \in Nat /\ busNth' >= 1
      BY <1>6
    <3>3. busNth' - 1 >= 0 /\ busNth' - 1 \in Int
      BY <3>2, OneLess, Zenon
    <3> QED  BY <3>1, <3>3, Zenon
  <2>2. CASE ~AtHand(e, k)'
    BY <2>2 DEF Bred
  <2> QED  BY <2>1, <2>2
<1>8. CASE Bred(e, k) <= Bred(e, k)'
  <2>1. Bred(e, k) \in Int /\ Bred(e, k)' \in Int
    BY <1>6 DEF Bred
  <2>2. Cardinality(Handlers) * Cardinality(Handled(e, k))
          <= Cardinality(Handlers) * Cardinality(Handled(e, k)')
    BY <1>4, <1>5, <1>6, ProductGrows
  <2>3. /\ Cardinality(Handlers) * Cardinality(Handled(e, k)) \in Nat
        /\ Cardinality(Handlers) * Cardinality(Handled(e, k)') \in Nat
    BY <1>4, <1>6, ProductGrows
  <2> QED  BY <1>1, <1>7, <1>8, <2>1, <2>2, <2>3 DEF Generation, Generations
<1>9. CASE ~(Bred(e, k) <= Bred(e, k)')
  <2>1. AtHand(e, k)
    <3>1. ASSUME ~AtHand(e, k) PROVE Bred(e, k) = 0
      BY <3>1 DEF Bred
    <3> QED  BY <1>9, <1>10, <3>1
  <2>2. Current \in DOMAIN busLog /\ Current <= busGroup /\ Current \in InBatch
    <3>1. busBatch # <<>> /\ busBatch \in Seq(DOMAIN busLog)
      BY <2>1 DEF AtHand, BusInv, TaskShape, BusTypeOK
    <3>2. 1 \in DOMAIN busBatch
      BY <3>1, EmptySeq, LenProperties
    <3> QED  BY <2>1, <3>2, CurrentTyped DEF AtHand, InBatch, Current
  <2>3. Current \in Copies(e, k)
    BY <2>1, <2>2 DEF AtHand, Copies, EntriesOf
  <2>4. Current \notin InBatch'
    <3>1. ASSUME busTask' \in Busy, Current' = Current, busNth <= busNth' PROVE FALSE
      <4>1. AtHand(e, k)'
        BY <2>1, <3>1 DEF AtHand
      <4>2. Bred(e, k) = busNth - 1 /\ Bred(e, k)' = busNth' - 1
        BY <2>1, <4>1 DEF Bred
      <4>3. busNth \in Nat /\ busNth' \in Nat
        BY <1>6
      <4>4. busNth - 1 <= busNth' - 1
        BY <3>1, <4>3, OneLess, Zenon
      <4> QED  BY <1>9, <4>2, <4>4
    <3> QED  BY <2>1, <3>1 DEF AtHand
  <2>5. Handled(e, k) \cup {Current} \subseteq Handled(e, k)' /\ Current \notin Handled(e, k)
    BY <1>1, <1>2, <1>3, <2>2, <2>3, <2>4 DEF Handled
  <2>6. Cardinality(Handled(e, k)) + 1 <= Cardinality(Handled(e, k)')
    <3>1. Cardinality(Handled(e, k) \cup {Current}) = Cardinality(Handled(e, k)) + 1
      BY <1>4, <2>5, FS_AddElement
    <3> QED  BY <1>4, <2>5, <3>1, FS_Subset
  <2>7. Bred(e, k) <= Cardinality(Handlers) /\ Bred(e, k) \in Int
    BY <1>6, <2>1 DEF Bred, AtHand
  <2>8. Bred(e, k)' >= 0 /\ Bred(e, k)' \in Int
    BY <1>10
  <2>9. Cardinality(Handlers) * Cardinality(Handled(e, k)) + Cardinality(Handlers)
          <= Cardinality(Handlers) * Cardinality(Handled(e, k)')
    BY <1>4, <1>6, <2>6, ProductGrows
  <2>10. /\ Cardinality(Handlers) * Cardinality(Handled(e, k)) \in Nat
         /\ Cardinality(Handlers) * Cardinality(Handled(e, k)') \in Nat
    BY <1>4, <1>6, ProductGrows
  <2> QED  BY <1>1, <1>6, <1>7, <2>7, <2>8, <2>9, <2>10 DEF Generation, Generations
<1> QED  BY <1>8, <1>9

(* A step that adds an entry: it publishes the event, or a handler fails   *)
(* with the entry at hand.                                                 *)
LEMMA CopyKeeps ==
  ASSUME BusInv, BusInv', ListsOnce, Generations,
         NEW f \in Events, NEW n \in Nat, AddEntry(f, n), UNCHANGED <<busGroup, busBatch>>,
         \/ n = 0 /\ EntriesOf(f) = {} /\ UNCHANGED <<busTask, busNth>>
         \/ /\ busTask \in Busy /\ busTask' \in Busy /\ busNth' = busNth + 1
            /\ f = CurrentEvent /\ n = DeliveryCount
  PROVE  Generations'
<1> DEFINE new == Len(busLog) + 1
<1>1. /\ Len(busLog) \in Nat /\ DOMAIN busLog = 1 .. Len(busLog)
      /\ DOMAIN busLog' = 1 .. new
      /\ \A i \in DOMAIN busLog : busLog'[i] = busLog[i]
      /\ busLog'[new] = [event |-> f, count |-> n]
  BY AddedEntry
<1>0. busLog'[new].event = f /\ busLog'[new].count = n
  BY <1>1
<1>2. /\ new \notin DOMAIN busLog /\ new \in Nat /\ DOMAIN busLog' = DOMAIN busLog \cup {new}
      /\ busGroup < new
  <2>1. new = Len(busLog) + 1 /\ busGroup \in -1 .. Len(busLog) /\ Len(busLog) \in Nat
    BY <1>1 DEF BusInv, BusTypeOK
  <2> HIDE DEF new
  <2>2. new \in Nat /\ busGroup < new /\ new \notin 1 .. Len(busLog)
        /\ 1 .. new = 1 .. Len(busLog) \cup {new}
    BY <2>1
  <2> QED  BY <1>1, <2>2
<1> HIDE DEF new
<1>3. ASSUME NEW e \in Events, NEW k \in Nat
      PROVE  Copies(e, k)' = IF e = f /\ k = n THEN Copies(e, k) \cup {new} ELSE Copies(e, k)
  BY <1>0, <1>1, <1>2 DEF Copies, EntriesOf
<1>4. ASSUME NEW e \in Events, NEW k \in Nat
      PROVE  Handled(e, k)' = Handled(e, k)
  <2>1. ~(new <= busGroup) /\ InBatch' = InBatch
    BY <1>2 DEF BusInv, BusTypeOK, InBatch
  <2> QED  BY <1>3, <2>1 DEF Handled
<1>5. ASSUME NEW e \in Events, NEW k \in Nat
      PROVE  Bred(e, k)' = Bred(e, k) + (IF e = f /\ k + 1 = n THEN 1 ELSE 0)
  <2>1. CASE n = 0 /\ UNCHANGED <<busTask, busNth>>
    <3>1. busTask \in Busy => Current \in DOMAIN busLog /\ Current' = Current
      BY CurrentTyped DEF Current
    <3>2. AtHand(e, k)' = AtHand(e, k)
      BY <1>1, <2>1, <3>1 DEF AtHand
    <3>3. Bred(e, k) \in Int
      BY DEF Bred, BusInv, BusTypeOK
    <3> QED  BY <2>1, <3>2, <3>3 DEF Bred
  <2>2. CASE /\ busTask \in Busy /\ busTask' \in Busy /\ busNth' = busNth + 1
             /\ f = CurrentEvent /\ n = DeliveryCount
    <3>1. /\ Current \in DOMAIN busLog /\ Current' = Current
          /\ busLog[Current] \in [event : Events, count : Nat] /\ busNth \in Nat
      BY <2>2, CurrentTyped DEF Current, BusInv, BusTypeOK
    <3>2. busLog'[Current'] = busLog[Current]
      BY <1>1, <3>1
    <3>3. AtHand(e, k)' = AtHand(e, k)
      BY <2>2, <3>2 DEF AtHand
    <3>4. AtHand(e, k) <=> e = f /\ k + 1 = n
      BY <2>2, <3>1 DEF AtHand, CurrentEvent, DeliveryCount
    <3> QED  BY <2>2, <3>1, <3>3, <3>4 DEF Bred
  <2> QED  BY <2>1, <2>2
<1>6. ASSUME NEW e \in Events, NEW k \in Nat
      PROVE  /\ Cardinality(Copies(e, k)') =
                  Cardinality(Copies(e, k)) + (IF e = f /\ k = n THEN 1 ELSE 0)
             /\ Cardinality(Copies(e, k)) \in Nat
  <2>1. IsFiniteSet(Copies(e, k)) /\ Cardinality(Copies(e, k)) \in Nat /\ new \notin Copies(e, k)
    BY <1>2, CopiesFinite
  <2> QED  BY <1>3, <2>1, FS_AddElement
<1>7. ASSUME NEW e \in Events PROVE Cardinality(Copies(e, 0)') <= 1
  <2>1. CASE e = f /\ n = 0
    <3>1. EntriesOf(f) = {}
      <4>1. busTask \in Busy => busLog[Current].count \in Nat
        BY CurrentTyped
      <4> QED  BY <2>1, <4>1 DEF DeliveryCount
    <3>2. Copies(e, 0) = {}
      BY <2>1, <3>1 DEF Copies
    <3>3. Cardinality(Copies(e, 0)') = Cardinality(Copies(e, 0)) + 1
      BY <1>6, <2>1
    <3> QED  BY <3>2, <3>3, FS_EmptySet
  <2>2. CASE ~(e = f /\ n = 0)
    BY <1>6, <2>2 DEF Generations
  <2> QED  BY <2>1, <2>2
<1>8. ASSUME NEW e \in Events, NEW k \in Nat PROVE Generation(e, k)'
  <2>1. /\ Cardinality(Copies(e, k + 1)') =
             Cardinality(Copies(e, k + 1)) + (IF e = f /\ k + 1 = n THEN 1 ELSE 0)
        /\ Cardinality(Copies(e, k + 1)) \in Nat
    BY <1>6
  <2>2. Generation(e, k)
    BY DEF Generations
  <2>3. Cardinality(Handlers) * Cardinality(Handled(e, k)) \in Nat /\ Bred(e, k) \in Int
    BY CopiesFinite, CallsBounded, ProductGrows DEF Bred
  <2> QED  BY <1>4, <1>5, <2>1, <2>2, <2>3 DEF Generation
<1> QED  BY <1>7, <1>8 DEF Generations

LEMMA CopiesInit == BusInit => ListsOnce /\ Generations
<1> SUFFICES ASSUME BusInit PROVE ListsOnce /\ Generations
  OBVIOUS
<1>1. BusInv /\ ListsOnce
  BY BusInitInv DEF ListsOnce, BusInit, Busy
<1>2. \A e, k : Copies(e, k) = {} /\ Bred(e, k) = 0
  BY DEF BusInit, Copies, EntriesOf, Bred, AtHand, Busy
<1>3. \A e, k : Cardinality(Handlers) * Cardinality(Handled(e, k)) \in Nat
  BY <1>1, CopiesFinite, CallsBounded, ProductGrows
<1>4. ASSUME NEW e \in Events, NEW k \in Nat PROVE Generation(e, k)
  BY <1>2, <1>3, FS_EmptySet DEF Generation
<1>5. \A e \in Events : Cardinality(Copies(e, 0)) <= 1
  BY <1>2, FS_EmptySet
<1> QED  BY <1>1, <1>4, <1>5 DEF Generations

(* No step but Subscribe and Unsubscribe touches the list otherwise than by *)
(* emptying it; what has been read stays as it is, or is given up.          *)
LEMMA StillOnce ==
  ASSUME ListsOnce, busSubs' = busSubs \/ busSubs' = <<>>,
         \/ busBatch' = <<>>
         \/ busBatch' = busBatch /\ (busTask' \notin Busy => busTask \notin Busy)
  PROVE  ListsOnce'
BY DEF ListsOnce

(* A step that leaves the log and the batch alone.                         *)
LEMMA QuietKeeps ==
  ASSUME BusInv, BusInv', ListsOnce, Generations, UNCHANGED <<busLog, busBatch>>,
         busGroup <= busGroup',
         IF busTask \in Busy THEN busTask' \in Busy /\ busNth <= busNth'
                             ELSE busTask' \notin Busy
  PROVE  Generations'
<1>1. InBatch' = InBatch /\ Current' = Current
  BY DEF InBatch, Current
<1>2. \/ busTask \notin Busy /\ (busTask' \in Busy => busNth' = 1)
      \/ busTask \in Busy /\ busTask' \in Busy /\ Current' = Current /\ busNth <= busNth'
      \/ busTask \in Busy /\ Current \notin InBatch' /\ busNth' = 1
  BY <1>1
<1> QED  BY <1>1, <1>2, NoCopyKeeps

(* A task that is cancelled, or gives up what it has read.                 *)
LEMMA GiveUpKeeps ==
  ASSUME BusInv, BusInv', ListsOnce, Generations, UNCHANGED <<busLog, busGroup>>,
         busBatch' = <<>>, busNth' = 1
  PROVE  Generations'
<1>1. InBatch' = {}
  BY DEF InBatch
<1>2. \/ busTask \notin Busy /\ (busTask' \in Busy => busNth' = 1)
      \/ busTask \in Busy /\ busTask' \in Busy /\ Current' = Current /\ busNth <= busNth'
      \/ busTask \in Busy /\ Current \notin InBatch' /\ busNth' = 1
  BY <1>1
<1>3. busGroup <= busGroup'
  BY DEF BusInv, BusTypeOK
<1> QED  BY <1>1, <1>2, <1>3, NoCopyKeeps

LEMMA ProcessKeepsCopies ==
  ASSUME BusInv, BusInv', ListsOnce, Generations,
         \/ \E h \in Handlers : Subscribe(h) \/ FinishSubscribe(h) \/ Unsubscribe(h)
         \/ UnsubscribeAll \/ StartBus \/ StopBus \/ CrashBus \/ RedisFails
  PROVE  ListsOnce' /\ Generations'
<1> USE DEF busServer, busConsumer, busProcess, busHistory
<1>1. busGroup <= busGroup /\ busNth <= busNth
  BY DEF BusInv, BusTypeOK
<1>2. busSubs \in Seq(Handlers) /\ DOMAIN busSubs = 1 .. Len(busSubs) /\ Len(busSubs) \in Nat
  BY LenProperties DEF BusInv, BusTypeOK
<1>3. ASSUME NEW h \in Handlers, Subscribe(h) PROVE ListsOnce' /\ Generations'
  <2>1. /\ h \notin SubscribedHandlers /\ busSubs' = Append(busSubs, h)
        /\ UNCHANGED <<busLog, busGroup, busTask, busBatch, busNth>>
    BY <1>3 DEF Subscribe
  <2>2. /\ Append(busSubs, h) \in Seq(Handlers) /\ Len(Append(busSubs, h)) = Len(busSubs) + 1
        /\ \A i \in 1 .. Len(busSubs) : Append(busSubs, h)[i] = busSubs[i]
        /\ Append(busSubs, h)[Len(busSubs) + 1] = h
    BY <1>2, AppendProperties
  <2>3. DOMAIN Append(busSubs, h) = 1 .. (Len(busSubs) + 1)
    BY <2>2, LenProperties
  <2>4. \A i \in 1 .. (Len(busSubs) + 1) : i \in DOMAIN busSubs \/ i = Len(busSubs) + 1
    BY <1>2
  <2>5. \A i \in DOMAIN busSubs : busSubs'[i] = busSubs[i] /\ busSubs[i] # h
    BY <1>2, <2>1, <2>2 DEF SubscribedHandlers
  <2>6. \A i, j \in DOMAIN busSubs' : busSubs'[i] = busSubs'[j] => i = j
    BY <2>1, <2>2, <2>3, <2>4, <2>5 DEF ListsOnce
  <2>7. ListsOnce'
    BY <2>1, <2>6 DEF ListsOnce
  <2> QED  BY <1>1, <2>1, <2>7, QuietKeeps
<1>4. ASSUME NEW h \in Handlers, FinishSubscribe(h) PROVE ListsOnce' /\ Generations'
  <2>1. /\ UNCHANGED <<busLog, busGroup, busBatch, busNth, busSubs>>
        /\ busTask' = busTask \/ (busTask = "none" /\ busTask' = "new")
    BY <1>4 DEF FinishSubscribe, StartConsumer
  <2> QED  BY <1>1, <2>1, QuietKeeps, StillOnce DEF Busy
<1>5. ASSUME NEW h \in Handlers, Unsubscribe(h) PROVE ListsOnce' /\ Generations'
  <2>1. PICK i \in DOMAIN busSubs :
          busSubs' = SubSeq(busSubs, 1, i - 1) \o SubSeq(busSubs, i + 1, Len(busSubs))
    BY <1>5 DEF Unsubscribe
  <2>2. \A j, k \in DOMAIN busSubs' : busSubs'[j] = busSubs'[k] => j = k
    <3> DEFINE front == SubSeq(busSubs, 1, i - 1)
               back == SubSeq(busSubs, i + 1, Len(busSubs))
    <3>1. i \in Nat /\ 1 <= i /\ i <= Len(busSubs) /\ Len(busSubs) \in Nat
      BY <1>2, <2>1
    <3>2. /\ front \in Seq(Handlers) /\ Len(front) = i - 1
          /\ \A j \in 1 .. (i - 1) : front[j] = busSubs[j]
      BY <1>2, <3>1, SubSeqProperties
    <3>3. /\ back \in Seq(Handlers) /\ Len(back) = Len(busSubs) - i
          /\ \A j \in 1 .. (Len(busSubs) - i) : back[j] = busSubs[i + j]
      <4>1. \A j \in (i + 1) .. Len(busSubs) : busSubs[j] \in Handlers
        BY <1>2, <3>1
      <4>2. i + 1 \in Int /\ Len(busSubs) \in Int
        BY <3>1
      <4>3. /\ back \in Seq(Handlers)
            /\ Len(back) = IF i + 1 <= Len(busSubs) THEN Len(busSubs) - (i + 1) + 1 ELSE 0
            /\ \A j \in 1 .. Len(busSubs) - (i + 1) + 1 : back[j] = busSubs[i + 1 + j - 1]
        BY <4>1, <4>2, SubSeqProperties
      <4> HIDE DEF back
      <4> QED  BY <3>1, <4>3
    <3> HIDE DEF front, back
    <3>4. /\ Len(front \o back) = Len(busSubs) - 1 /\ front \o back \in Seq(Handlers)
          /\ \A j \in 1 .. (Len(busSubs) - 1) :
               (front \o back)[j] = IF j <= i - 1 THEN front[j] ELSE back[j - (i - 1)]
      BY SMTT(30), <3>1, <3>2, <3>3, ConcatProperties
    <3> DEFINE At(j) == IF j <= i - 1 THEN j ELSE j + 1
    <3>5. \A j \in 1 .. (Len(busSubs) - 1) :
            At(j) \in DOMAIN busSubs /\ (front \o back)[j] = busSubs[At(j)]
      <4> SUFFICES ASSUME NEW j \in 1 .. (Len(busSubs) - 1)
                   PROVE  At(j) \in DOMAIN busSubs /\ (front \o back)[j] = busSubs[At(j)]
        OBVIOUS
      <4>1. At(j) \in DOMAIN busSubs
        BY <1>2, <3>1
      <4>2. CASE j <= i - 1
        BY <3>1, <3>2, <3>4, <4>1, <4>2
      <4>3. CASE ~(j <= i - 1)
        <5>1. j - (i - 1) \in 1 .. (Len(busSubs) - i) /\ i + (j - (i - 1)) = j + 1
          BY <3>1, <4>3
        <5>2. back[j - (i - 1)] = busSubs[j + 1]
          BY <3>3, <5>1
        <5> QED  BY <3>4, <4>1, <4>3, <5>2
      <4> QED  BY <4>2, <4>3
    <3>6. \A j, k \in 1 .. (Len(busSubs) - 1) : At(j) = At(k) => j = k
      BY <3>1
    <3> HIDE DEF At
    <3>7. busSubs' = front \o back /\ DOMAIN busSubs' = 1 .. (Len(busSubs) - 1)
      BY <2>1, <3>4, LenProperties DEF front, back
    <3> SUFFICES ASSUME NEW j \in 1 .. (Len(busSubs) - 1), NEW k \in 1 .. (Len(busSubs) - 1),
                        (front \o back)[j] = (front \o back)[k]
                 PROVE  j = k
      BY <3>7
    <3>8. At(j) \in DOMAIN busSubs /\ At(k) \in DOMAIN busSubs /\ busSubs[At(j)] = busSubs[At(k)]
      BY <3>5
    <3>9. At(j) = At(k)
      BY <3>8 DEF ListsOnce
    <3> QED  BY <3>6, <3>9
  <2>3. /\ busTask' = "none" /\ busBatch' = <<>> /\ busNth' = 1 /\ UNCHANGED <<busLog, busGroup>>
    BY <1>5 DEF Unsubscribe, Leave, CancelConsumer
  <2>4. ListsOnce'
    BY <2>2, <2>3 DEF ListsOnce
  <2> QED  BY <2>3, <2>4, GiveUpKeeps
<1>6. CASE StartBus
  <2>1. /\ UNCHANGED <<busLog, busGroup, busBatch, busNth, busSubs>>
        /\ busTask' = busTask \/ (busTask = "none" /\ busTask' = "new")
    BY <1>6 DEF StartBus, StartConsumer
  <2> QED  BY <1>1, <2>1, QuietKeeps, StillOnce DEF Busy
<1>7. CASE UnsubscribeAll \/ StopBus \/ CrashBus \/ RedisFails
  <2>1. /\ busBatch' = <<>> /\ busNth' = 1 /\ UNCHANGED <<busLog, busGroup>>
        /\ busSubs' = busSubs \/ busSubs' = <<>>
    BY <1>7 DEF UnsubscribeAll, Leave, StopBus, CrashBus, RedisFails, CancelConsumer
  <2> QED  BY <2>1, GiveUpKeeps, StillOnce
<1> QED  BY <1>3, <1>4, <1>5, <1>6, <1>7

LEMMA ConsumerKeepsCopies ==
  ASSUME BusInv, BusInv', ListsOnce, Generations, ConsumerStep
  PROVE  ListsOnce' /\ Generations'
<1> USE DEF busServer, busConsumer, busProcess, busHistory
<1>1. /\ busGroup \in Int /\ busNth \in Nat /\ busGroup <= busGroup /\ busNth <= busNth + 1
      /\ busNth <= busNth /\ DOMAIN busLog \subseteq Int
  BY LenProperties DEF BusInv, BusTypeOK
<1>2. CASE BeginConsumer
  <2>1. /\ busTask \notin Busy /\ busTask' \notin Busy
        /\ UNCHANGED <<busLog, busBatch, busNth, busSubs>>
        /\ busGroup' = busGroup \/ (busGroup = -1 /\ busGroup' = Len(busLog))
    BY <1>2 DEF BeginConsumer, Busy
  <2>2. busGroup <= busGroup'
    BY <1>1, <2>1, LenProperties DEF BusInv, BusTypeOK
  <2> QED  BY <2>1, <2>2, QuietKeeps, StillOnce
<1>3. CASE ReadEntries
  <2>1. busTask = "read" /\ busGroup # -1 /\ Undelivered # {} /\ busNth' = 1 /\ UNCHANGED <<busLog, busSubs>>
    BY <1>3 DEF ReadEntries
  <2> DEFINE count == IF Cardinality(Undelivered) < BatchSize
                      THEN Cardinality(Undelivered) ELSE BatchSize
  <2>2. /\ busGroup \in Nat /\ Min(Undelivered) = busGroup + 1
        /\ Cardinality(Undelivered) = Len(busLog) - busGroup /\ busGroup < Len(busLog)
        /\ Len(busLog) \in Nat
    BY <2>1, UndeliveredTail
  <2>3. /\ busBatch' = [i \in 1 .. count |-> busGroup + 1 + i - 1]
        /\ busGroup' = busGroup + 1 + count - 1 /\ busTask' = "handle"
    BY <1>3, <2>2 DEF ReadEntries
  <2>4. count \in Nat
    BY <2>2, EventBusAssumption
  <2> HIDE DEF count
  <2>5. busGroup <= busGroup' /\ \A i \in InBatch' : i > busGroup
    BY <2>2, <2>3, <2>4 DEF InBatch
  <2>6. ListsOnce'
    BY <2>1, <2>2, <2>3 DEF ListsOnce, Busy
  <2> QED  BY <2>1, <2>5, <2>6, NoCopyKeeps DEF Busy
<1>4. CASE HandlerSucceeds \/ DeadLetter
  <2>1. /\ UNCHANGED <<busLog, busGroup, busBatch, busSubs>> /\ busNth' = busNth + 1
        /\ busTask \in Busy /\ busTask' \in Busy
    BY <1>4 DEF HandlerSucceeds, DeadLetter, NextHandler, Busy
  <2> QED  BY <1>1, <2>1, QuietKeeps, StillOnce
<1>5. CASE HandlerRaises \/ Acknowledge
  <2>1. /\ UNCHANGED <<busLog, busGroup, busBatch, busSubs, busNth>>
        /\ busTask \in Busy /\ busTask' \in Busy
    BY <1>5 DEF HandlerRaises, Acknowledge, Busy
  <2> QED  BY <1>1, <2>1, QuietKeeps, StillOnce
<1>6. CASE Requeue
  <2>1. /\ busTask = "answer" /\ AddEntry(CurrentEvent, DeliveryCount) /\ busNth' = busNth + 1
        /\ UNCHANGED <<busGroup, busBatch, busSubs>> /\ busTask' \in Busy
    BY <1>6 DEF Requeue, NextHandler, Busy
  <2>2. CurrentEvent \in Events /\ DeliveryCount \in Nat
    BY <2>1, CurrentTyped DEF Busy, DeliveryCount
  <2> QED  BY <2>1, <2>2, CopyKeeps, StillOnce DEF Busy
<1>7. CASE DeleteEntry
  <2>1. /\ busTask = "delete" /\ busBatch' = Tail(busBatch) /\ busNth' = 1
        /\ UNCHANGED <<busLog, busGroup, busSubs>>
        /\ busTask' = IF Len(busBatch) = 1 THEN "read" ELSE "handle"
    BY <1>7 DEF DeleteEntry
  <2>2. busBatch \in Seq(DOMAIN busLog) /\ busBatch # <<>>
    BY <2>1 DEF BusInv, BusTypeOK, TaskShape, Busy
  <2>3. /\ Tail(busBatch) \in Seq(DOMAIN busLog) /\ Len(Tail(busBatch)) = Len(busBatch) - 1
        /\ \A i \in 1 .. Len(Tail(busBatch)) : Tail(busBatch)[i] = busBatch[i + 1]
    BY <2>2, HeadTailProperties
  <2>4. /\ DOMAIN busBatch = 1 .. Len(busBatch) /\ Len(busBatch) \in Nat /\ Len(busBatch) >= 1
        /\ DOMAIN Tail(busBatch) = 1 .. (Len(busBatch) - 1)
    BY <2>2, <2>3, LenProperties, EmptySeq
  <2>5. \A i \in DOMAIN Tail(busBatch) :
          i + 1 \in DOMAIN busBatch /\ i + 1 # 1 /\ Tail(busBatch)[i] = busBatch[i + 1]
    BY <2>3, <2>4
  <2>6. InBatch' \subseteq InBatch /\ Current \notin InBatch'
    BY <2>1, <2>4, <2>5 DEF InBatch, Current, ListsOnce
  <2>7. ListsOnce'
    <3>1. \A i, j \in DOMAIN busBatch' : busBatch'[i] = busBatch'[j] => i = j
      BY <2>1, <2>4, <2>5 DEF ListsOnce
    <3>2. Len(busBatch) = 1 => busBatch' = <<>>
      BY <2>1, <2>3, EmptySeq
    <3> QED  BY <2>1, <3>1, <3>2 DEF ListsOnce, Busy
  <2> QED  BY <1>1, <2>1, <2>6, <2>7, NoCopyKeeps DEF Busy
<1> QED  BY <1>2, <1>3, <1>4, <1>5, <1>6, <1>7 DEF ConsumerStep

LEMMA CopiesStep ==
  ASSUME BusInv, ListsOnce, Generations, [BusNext]_busVars
  PROVE  ListsOnce' /\ Generations'
<1>1. BusInv'
  BY BusStepInv
<1>2. CASE UNCHANGED busVars
  <2>1. UNCHANGED <<busLog, busGroup, busTask, busBatch, busNth, busSubs>>
    BY <1>2 DEF busVars, busServer, busConsumer, busProcess, busHistory
  <2>2. busGroup <= busGroup' /\ busNth <= busNth'
    BY <2>1 DEF BusInv, BusTypeOK
  <2> QED  BY <1>1, <2>1, <2>2, QuietKeeps, StillOnce
<1>3. ASSUME NEW e \in Events, Publish(e) PROVE ListsOnce' /\ Generations'
  <2>1. /\ e \notin PublishedEvents /\ AddEntry(e, 0)
        /\ UNCHANGED <<busGroup, busTask, busBatch, busNth, busSubs>>
    BY <1>3 DEF Publish, busConsumer, busProcess
  <2>2. EntriesOf(e) = {}
    BY <2>1 DEF EntriesOf, PublishedEvents
  <2> QED  BY <1>1, <2>1, <2>2, CopyKeeps, StillOnce
<1> QED  BY <1>1, <1>2, <1>3, ProcessKeepsCopies, ConsumerKeepsCopies DEF BusNext

(* Those the consumer is through with and the one at hand are copies.      *)
LEMMA GenerationsBound == BusInv /\ ListsOnce /\ Generations => CopiesBounded
<1> SUFFICES ASSUME BusInv, ListsOnce, Generations,
                    NEW e \in Events, NEW k \in 0 .. MaxDeliveryCount
             PROVE  Cardinality(Copies(e, k + 1)) <= Cardinality(Handlers) * Cardinality(Copies(e, k))
  BY DEF CopiesBounded, Generations, BusInv, StreamShape, EntriesOf
<1>1. k \in Nat /\ Generation(e, k)
  BY EventBusAssumption DEF Generations
<1>2. /\ Cardinality(Copies(e, k)) \in Nat /\ Cardinality(Copies(e, k + 1)) \in Nat
      /\ Cardinality(Handled(e, k)) \in Nat /\ IsFiniteSet(Copies(e, k))
      /\ Handled(e, k) \subseteq Copies(e, k) /\ IsFiniteSet(Handled(e, k))
      /\ Cardinality(Handled(e, k)) <= Cardinality(Copies(e, k))
  BY CopiesFinite
<1>3. /\ Cardinality(Handlers) \in Nat /\ busNth \in Nat \ {0}
      /\ busTask \in Busy => busNth - 1 <= Cardinality(Handlers)
  BY CallsBounded
<1>4. /\ Cardinality(Handlers) * Cardinality(Handled(e, k)) \in Nat
      /\ Cardinality(Handlers) * Cardinality(Copies(e, k)) \in Nat
  BY <1>2, <1>3, ProductGrows
<1>5. CASE AtHand(e, k)
  <2>1. Current \in DOMAIN busLog /\ Current \in InBatch
    <3>1. busBatch # <<>> /\ busBatch \in Seq(DOMAIN busLog)
      BY <1>5 DEF AtHand, BusInv, TaskShape, BusTypeOK
    <3>2. 1 \in DOMAIN busBatch
      BY <3>1, EmptySeq, LenProperties
    <3> QED  BY <1>5, <3>2, CurrentTyped DEF AtHand, InBatch, Current
  <2>2. Current \in Copies(e, k) /\ Current \notin Handled(e, k)
    BY <1>5, <2>1 DEF AtHand, Copies, EntriesOf, Handled
  <2>3. Cardinality(Handled(e, k) \cup {Current}) = Cardinality(Handled(e, k)) + 1
    BY <1>2, <2>2, FS_AddElement
  <2>4. Cardinality(Handled(e, k) \cup {Current}) <= Cardinality(Copies(e, k))
    <3>1. Handled(e, k) \cup {Current} \in SUBSET Copies(e, k)
      BY <1>2, <2>2
    <3> QED  BY <1>2, <3>1, FS_Subset
  <2>5. Cardinality(Handlers) * Cardinality(Handled(e, k)) + Cardinality(Handlers)
          <= Cardinality(Handlers) * Cardinality(Copies(e, k))
    BY <1>2, <1>3, <2>3, <2>4, ProductGrows
  <2>6. Bred(e, k) = busNth - 1 /\ busTask \in Busy
    BY <1>5 DEF Bred, AtHand
  <2> QED  BY <1>1, <1>2, <1>3, <1>4, <2>5, <2>6 DEF Generation
<1>6. CASE ~AtHand(e, k)
  <2>1. Bred(e, k) = 0
    BY <1>6 DEF Bred
  <2>2. Cardinality(Handlers) * Cardinality(Handled(e, k))
          <= Cardinality(Handlers) * Cardinality(Copies(e, k))
    BY <1>2, <1>3, ProductGrows
  <2> QED  BY <1>1, <1>2, <1>4, <2>1, <2>2 DEF Generation
<1> QED  BY <1>5, <1>6

(* An event is published once, no copy of it is made beyond the permitted  *)
(* delivery count, and each generation of copies is at most the number of  *)
(* handlers times the one before: for any number of handlers, any batch    *)
(* size and whatever is cancelled, crashes or fails.                       *)
THEOREM CopiesStayBounded == BusSpec => []CopiesBounded
<1>1. BusInit => BusInv /\ ListsOnce /\ Generations
  BY BusInitInv, CopiesInit
<1>2. BusInv /\ ListsOnce /\ Generations /\ [BusNext]_busVars
        => BusInv' /\ ListsOnce' /\ Generations'
  BY BusStepInv, CopiesStep
<1> QED  BY <1>1, <1>2, GenerationsBound, PTL DEF BusSpec
=============================================================================
