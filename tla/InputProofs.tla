---------------------------- MODULE InputProofs ----------------------------
(***************************************************************************)
(* Proofs about InputManager, for any size of the ring and any number of   *)
(* devices: its types, and that it implements EventQueue.                  *)
(***************************************************************************)
EXTENDS InputManager, SequenceTheorems, TLAPS

\* Count and Waiting as functions of the ring, to reason about two of its states.
CountOf(h, t) == IF t >= h THEN t - h ELSE t - h + MAX_EVENTS
WaitingOf(q, h, t) ==
  [k \in 1 .. CountOf(h, t) |-> q[(h + k - 1) % MAX_EVENTS]]

Content == Event \cup {NoEvent}

----------------------------------------------------------------------------
(* Arithmetic of the ring *)

\* The slot after a slot.
LEMMA SuccessorSlot ==
  ASSUME NEW k \in Slots
  PROVE  /\ Successor(k) \in Slots
         /\ Successor(k) = IF k + 1 = MAX_EVENTS THEN 0 ELSE k + 1
  <1>1. k + 1 \in 0 .. 2 * MAX_EVENTS - 1
    BY InputAssumption DEF Slots
  <1>2. (k + 1) % MAX_EVENTS = IF k + 1 < MAX_EVENTS THEN k + 1
                                                   ELSE k + 1 - MAX_EVENTS
    BY <1>1, InputAssumption DEF Slots
  <1>. QED  BY <1>2, InputAssumption DEF Successor, Slots

\* The slots that are occupied, without %.
LEMMA OccupiedSlot ==
  ASSUME NEW h \in Slots, NEW t \in Slots, NEW k \in 1 .. CountOf(h, t)
  PROVE  /\ (h + k - 1) % MAX_EVENTS \in Slots
         /\ (h + k - 1) % MAX_EVENTS =
              IF h + k - 1 < MAX_EVENTS THEN h + k - 1
                                        ELSE h + k - 1 - MAX_EVENTS
  <1>1. h + k - 1 \in 0 .. 2 * MAX_EVENTS - 1
    BY InputAssumption DEF Slots, CountOf
  <1>2. (h + k - 1) % MAX_EVENTS =
           IF h + k - 1 < MAX_EVENTS THEN h + k - 1
                                     ELSE h + k - 1 - MAX_EVENTS
    BY <1>1, InputAssumption DEF Slots, CountOf
  <1>. QED  BY <1>1, <1>2, InputAssumption DEF Slots

\* The waiting events form a sequence of at most MAX_EVENTS - 1 of them.
LEMMA WaitingSeq ==
  ASSUME NEW q \in [Slots -> Content], NEW h \in Slots, NEW t \in Slots
  PROVE  /\ CountOf(h, t) \in 0 .. MAX_EVENTS - 1
         /\ WaitingOf(q, h, t) \in Seq(Content)
         /\ Len(WaitingOf(q, h, t)) = CountOf(h, t)
  <1>1. CountOf(h, t) \in 0 .. MAX_EVENTS - 1
    BY InputAssumption DEF Slots, CountOf
  <1>2. \A k \in 1 .. CountOf(h, t) : q[(h + k - 1) % MAX_EVENTS] \in Content
    BY OccupiedSlot
  <1>3. WaitingOf(q, h, t) \in [1 .. CountOf(h, t) -> Content]
    BY <1>2 DEF WaitingOf
  <1>. QED  BY <1>1, <1>3

\* A full ring is one in which the slot after the tail is the head.
LEMMA FullRing ==
  ASSUME NEW h \in Slots, NEW t \in Slots
  PROVE  (Successor(t) = h) <=> (CountOf(h, t) = MAX_EVENTS - 1)
  BY SuccessorSlot, InputAssumption DEF Slots, CountOf

\* Writing behind the tail of a ring that is not full appends.
LEMMA EnqueueAppends ==
  ASSUME NEW q \in [Slots -> Content], NEW h \in Slots, NEW t \in Slots,
         NEW e \in Content, Successor(t) # h
  PROVE  WaitingOf([q EXCEPT ![t] = e], h, Successor(t))
           = Append(WaitingOf(q, h, t), e)
  <1> DEFINE p == [q EXCEPT ![t] = e]
  <1> DEFINE w == WaitingOf(q, h, t)
  <1> DEFINE v == WaitingOf(p, h, Successor(t))
  <1>1. Successor(t) \in Slots /\ p \in [Slots -> Content]
    BY SuccessorSlot
  <1>2. CountOf(h, Successor(t)) = CountOf(h, t) + 1
    <2>1. Successor(t) = IF t + 1 = MAX_EVENTS THEN 0 ELSE t + 1
      BY SuccessorSlot
    <2>. QED  BY <2>1, InputAssumption DEF Slots, CountOf
  <1>3. /\ w \in Seq(Content) /\ Len(w) = CountOf(h, t)
        /\ CountOf(h, t) \in 0 .. MAX_EVENTS - 1
    BY WaitingSeq
  <1>4. v \in Seq(Content) /\ Len(v) = CountOf(h, t) + 1
    BY <1>1, <1>2, WaitingSeq
  <1>5. ASSUME NEW k \in 1 .. CountOf(h, t)
        PROVE  v[k] = w[k]
    <2>1. (h + k - 1) % MAX_EVENTS \in Slots /\ (h + k - 1) % MAX_EVENTS # t
      BY OccupiedSlot, InputAssumption DEF Slots, CountOf
    <2>2. v[k] = p[(h + k - 1) % MAX_EVENTS]
      BY <1>2, <1>3 DEF WaitingOf
    <2>3. w[k] = q[(h + k - 1) % MAX_EVENTS]
      BY DEF WaitingOf
    <2>. QED  BY <2>1, <2>2, <2>3
  <1>6. v[CountOf(h, t) + 1] = e
    <2> DEFINE k == CountOf(h, t) + 1
    <2>1. k \in 1 .. CountOf(h, Successor(t))
      BY <1>2, <1>3
    <2>2. (h + k - 1) % MAX_EVENTS = t
      BY <1>1, <2>1, OccupiedSlot, InputAssumption DEF Slots, CountOf
    <2>3. v[k] = p[(h + k - 1) % MAX_EVENTS]
      BY <2>1 DEF WaitingOf
    <2>. QED  BY <2>2, <2>3
  <1>7. /\ Append(w, e) \in Seq(Content)
        /\ Len(Append(w, e)) = Len(v)
        /\ \A k \in 1 .. Len(v) : Append(w, e)[k] = v[k]
    <2>1. Append(w, e) \in Seq(Content) /\ Len(Append(w, e)) = Len(w) + 1
      BY <1>3
    <2>2. ASSUME NEW k \in 1 .. Len(v) PROVE Append(w, e)[k] = v[k]
      <3>1. CASE k = Len(w) + 1
        BY <3>1, <1>3, <1>6
      <3>2. CASE k # Len(w) + 1
        <4>1. k \in 1 .. CountOf(h, t)
          BY <3>2, <1>3, <1>4
        <4>2. Append(w, e)[k] = w[k]
          BY <4>1, <1>3
        <4>. QED  BY <4>1, <4>2, <1>5
      <3>. QED  BY <3>1, <3>2
    <2>. QED  BY <2>1, <2>2, <1>3, <1>4
  <1>. QED  BY <1>4, <1>7, SeqEqual

\* Moving the head of a ring that is not empty removes the oldest event.
LEMMA DequeueRemoves ==
  ASSUME NEW q \in [Slots -> Content], NEW h \in Slots, NEW t \in Slots, h # t
  PROVE  /\ WaitingOf(q, h, t) # << >>
         /\ Head(WaitingOf(q, h, t)) = q[h]
         /\ WaitingOf(q, Successor(h), t) = Tail(WaitingOf(q, h, t))
  <1> DEFINE w == WaitingOf(q, h, t)
  <1> DEFINE v == WaitingOf(q, Successor(h), t)
  <1>1. Successor(h) \in Slots
    BY SuccessorSlot
  <1>2. CountOf(Successor(h), t) = CountOf(h, t) - 1 /\ CountOf(h, t) >= 1
    <2>1. Successor(h) = IF h + 1 = MAX_EVENTS THEN 0 ELSE h + 1
      BY SuccessorSlot
    <2>. QED  BY <2>1, InputAssumption DEF Slots, CountOf
  <1>3. /\ w \in Seq(Content) /\ Len(w) = CountOf(h, t)
        /\ CountOf(h, t) \in 0 .. MAX_EVENTS - 1
    BY WaitingSeq
  <1>4. v \in Seq(Content) /\ Len(v) = CountOf(h, t) - 1
    BY <1>1, <1>2, WaitingSeq
  <1>5. w # << >>
    BY <1>2, <1>3
  <1>6. Head(w) = q[h]
    <2>1. 1 \in 1 .. CountOf(h, t)
      BY <1>2, <1>3
    <2>2. (h + 1 - 1) % MAX_EVENTS = h
      BY <2>1, OccupiedSlot, InputAssumption DEF Slots
    <2>3. w[1] = q[h]
      BY <2>1, <2>2 DEF WaitingOf
    <2>. QED  BY <2>3, <1>3, <1>5
  <1>7. ASSUME NEW k \in 1 .. CountOf(h, t) - 1
        PROVE  v[k] = Tail(w)[k]
    <2>1. /\ k + 1 \in 1 .. CountOf(h, t)
          /\ k \in 1 .. CountOf(Successor(h), t)
      BY <1>2, <1>3
    <2>2. (Successor(h) + k - 1) % MAX_EVENTS = (h + (k + 1) - 1) % MAX_EVENTS
      <3>1. Successor(h) = IF h + 1 = MAX_EVENTS THEN 0 ELSE h + 1
        BY SuccessorSlot
      <3>2. k + 1 \in Nat /\ k \in Nat
        BY <1>3
      <3>3. (h + (k + 1) - 1) % MAX_EVENTS =
              IF h + (k + 1) - 1 < MAX_EVENTS THEN h + (k + 1) - 1
                                        ELSE h + (k + 1) - 1 - MAX_EVENTS
        BY <2>1, OccupiedSlot
      <3>4. (Successor(h) + k - 1) % MAX_EVENTS =
              IF Successor(h) + k - 1 < MAX_EVENTS
                THEN Successor(h) + k - 1
                ELSE Successor(h) + k - 1 - MAX_EVENTS
        BY <1>1, <2>1, OccupiedSlot
      <3>. QED  BY <1>3, <3>1, <3>2, <3>3, <3>4, InputAssumption
                DEF Slots
    <2>3. v[k] = w[k + 1]
      BY <2>1, <2>2 DEF WaitingOf
    <2>. QED  BY <2>3, <1>3, <1>5, HeadTailProperties
  <1>8. Tail(w) \in Seq(Content) /\ Len(Tail(w)) = Len(v)
    BY <1>3, <1>4, <1>5, HeadTailProperties
  <1>9. v = Tail(w)
    BY <1>4, <1>7, <1>8, SeqEqual
  <1>. QED  BY <1>5, <1>6, <1>9

----------------------------------------------------------------------------
(* Types, and what an idle dispatcher holds *)

\* Between two clients the dispatcher has no event in hand: without this, a
\* second dequeue could overwrite one that was never written.
Idle == peer = "none" => ev = NoEvent

Inv == TypeOK /\ Idle

\* Both threads start on an empty ring.
LEMMA InvInit == Init => Inv
  BY InputAssumption, EmptySeq DEF Init, Inv, TypeOK, Idle, Slots

\* Every step of either thread keeps the ring well formed.
LEMMA InvStep == Inv /\ [Next]_vars => Inv'
  <1> SUFFICES ASSUME Inv, [Next]_vars PROVE Inv'
    OBVIOUS
  <1> USE InputAssumption
  <1>1. CASE ReadDevice
    <2>1. kernel[turn] \in Seq(Event \cup Motion) /\ kernel[turn] # << >>
      BY <1>1 DEF Inv, TypeOK, ReadDevice
    <2>2. Tail(kernel[turn]) \in Seq(Event \cup Motion)
      BY <2>1, HeadTailProperties
    <2>3. kernel' \in [Devices -> Seq(Event \cup Motion)]
      BY <1>1, <2>2 DEF Inv, TypeOK, ReadDevice
    <2>4. turn' \in 1 .. device_count + 1
      BY <1>1 DEF Inv, TypeOK, ReadDevice, NextTurn, Devices
    <2>. QED  BY <1>1, <2>3, <2>4
              DEF Inv, TypeOK, Idle, ReadDevice, ring, dispatcher
  <1>2. CASE PassOn
    <2>1. turn' \in 1 .. device_count + 1
      BY <1>2 DEF Inv, TypeOK, PassOn, NextTurn
    <2>. QED  BY <1>2, <2>1 DEF Inv, TypeOK, Idle, PassOn, ring, dispatcher
  <1>3. CASE EnqueueEvent
    <2>1. Successor(event_tail) \in Slots
      BY SuccessorSlot DEF Inv, TypeOK
    <2>. QED  BY <1>3, <2>1 DEF Inv, TypeOK, Idle, EnqueueEvent, dispatcher
  <1>4. CASE AcceptAndDequeue
    <2>1. Successor(event_head) \in Slots
      BY SuccessorSlot DEF Inv, TypeOK
    <2>2. backlog' \in Seq(BOOLEAN)
      BY <1>4, HeadTailProperties DEF Inv, TypeOK, AcceptAndDequeue
    <2>3. event_queue[event_head] \in Event \cup {NoEvent}
      BY DEF Inv, TypeOK
    <2>. QED  BY <1>4, <2>1, <2>2, <2>3
              DEF Inv, TypeOK, Idle, AcceptAndDequeue, reader
  <1>5. CASE WriteAndClose
    BY <1>5 DEF Inv, TypeOK, Idle, WriteAndClose, reader, ring
  <1>6. ASSUME NEW d \in Devices, DeviceEvent(d) PROVE Inv'
    <2>1. PICK e \in Event \cup Motion :
            kernel' = [kernel EXCEPT ![d] = Append(@, e)]
      BY <1>6 DEF DeviceEvent
    <2>2. Append(kernel[d], e) \in Seq(Event \cup Motion)
      BY DEF Inv, TypeOK
    <2>. QED  BY <1>6, <2>1, <2>2
              DEF Inv, TypeOK, Idle, DeviceEvent, reader, ring, dispatcher
  <1>7. CASE Connect
    <2>1. backlog' \in Seq(BOOLEAN)
      BY <1>7 DEF Inv, TypeOK, Connect
    <2>. QED  BY <1>7, <2>1
              DEF Inv, TypeOK, Idle, Connect, reader, ring, dispatcher
  <1>8. CASE Leave
    <2>1. backlog' \in Seq(BOOLEAN)
      <3>1. CASE UNCHANGED backlog
        BY <3>1 DEF Inv, TypeOK
      <3>2. ASSUME NEW k \in DOMAIN backlog,
                   backlog' = [backlog EXCEPT ![k] = FALSE]
            PROVE  backlog' \in Seq(BOOLEAN)
        BY <3>2, ExceptSeq, LenProperties DEF Inv, TypeOK
      <3>. QED  BY <1>8, <3>1, <3>2 DEF Leave
    <2>. QED  BY <1>8, <2>1 DEF Inv, TypeOK, Idle, Leave, reader, ring
  <1>9. CASE UNCHANGED vars
    BY <1>9 DEF Inv, TypeOK, Idle, vars
  <1>. QED  BY <1>1, <1>2, <1>3, <1>4, <1>5, <1>6, <1>7, <1>8, <1>9
            DEF Next, EventReader, IpcDispatcher

\* The ring is well formed in every state.
LEMMA Invariance == Spec => []Inv
  BY InvInit, InvStep, PTL DEF Spec

\* The variables of input_manager keep their types, the two indices of the
\* ring in particular: neither thread ever reads or writes outside the array.
THEOREM TypeCorrect == Spec => []TypeOK
  BY Invariance, PTL DEF Inv

----------------------------------------------------------------------------
(* The ring and its threads implement EventQueue *)

\* The refinement mapping, as a function of the ring.
LEMMA WaitingIs == Waiting = WaitingOf(event_queue, event_head, event_tail)
  BY DEF Waiting, WaitingOf, Count, CountOf

\* The same after a step.
LEMMA WaitingIsNext ==
  Waiting' = WaitingOf(event_queue', event_head', event_tail')
  BY DEF Waiting, WaitingOf, Count, CountOf

\* The empty ring is the empty queue.
LEMMA FifoInit == Init => Fifo!Init
  <1> SUFFICES ASSUME Init PROVE Waiting = << >>
    BY DEF Init, Fifo!Init
  <1>1. Count = 0
    BY DEF Init, Count
  <1>. QED  BY <1>1 DEF Waiting

\* Every step of either thread is a step of the queue, or none.
LEMMA FifoStep == Inv /\ [Next]_vars => [Fifo!Next]_(Fifo!vars)
  <1> SUFFICES ASSUME Inv, [Next]_vars PROVE [Fifo!Next]_(Fifo!vars)
    OBVIOUS
  <1> USE InputAssumption, NoEventAssumption
  <1>a. /\ event_queue \in [Slots -> Content]
        /\ event_head \in Slots /\ event_tail \in Slots
    BY DEF Inv, TypeOK, Content
  <1>b. ASSUME UNCHANGED ring PROVE UNCHANGED Waiting
    BY <1>b, WaitingIs, WaitingIsNext DEF ring
  <1>1. CASE ReadDevice
    <2>1. UNCHANGED <<Waiting, ev>>
      BY <1>1, <1>b DEF ReadDevice, dispatcher
    <2>2. CASE sev' = NoEvent
      BY <1>1, <2>1, <2>2 DEF ReadDevice, Fifo!vars
    <2>3. CASE sev' \in Event
      BY <1>1, <2>1, <2>3 DEF ReadDevice, Fifo!Next, Fifo!Offer
    <2>. QED  BY <1>1, <2>2, <2>3 DEF ReadDevice
  <1>2. CASE PassOn
    BY <1>2, <1>b DEF PassOn, dispatcher, Fifo!vars
  <1>3. CASE EnqueueEvent
    <2>1. Len(Waiting) = CountOf(event_head, event_tail)
      BY <1>a, WaitingSeq, WaitingIs
    <2>2. CountOf(event_head, event_tail) \in 0 .. MAX_EVENTS - 1
      BY <1>a, WaitingSeq
    <2>3. CASE Successor(event_tail) = event_head
      <3>1. Len(Waiting) = MAX_EVENTS - 1
        BY <2>1, <2>3, <1>a, FullRing
      <3>2. UNCHANGED Waiting
        BY <1>3, <2>3, <1>b DEF EnqueueEvent, ring
      <3>. QED  BY <1>3, <3>1, <3>2
                DEF EnqueueEvent, dispatcher, Fifo!Next, Fifo!Drop
    <2>4. CASE Successor(event_tail) # event_head
      <3>1. Len(Waiting) < MAX_EVENTS - 1
        BY <2>1, <2>2, <2>4, <1>a, FullRing
      <3>2. sev \in Content /\ sev \in Event
        BY <1>3 DEF EnqueueEvent, Content
      <3>3. Waiting' = Append(Waiting, sev)
        <4>1. /\ event_queue' = [event_queue EXCEPT ![event_tail] = sev]
              /\ event_tail' = Successor(event_tail)
              /\ event_head' = event_head
          BY <1>3, <2>4 DEF EnqueueEvent
        <4>2. WaitingOf([event_queue EXCEPT ![event_tail] = sev], event_head,
                        Successor(event_tail))
                = Append(WaitingOf(event_queue, event_head, event_tail), sev)
          BY <1>a, <2>4, <3>2, EnqueueAppends
        <4>. QED  BY <4>1, <4>2, WaitingIs, WaitingIsNext
      <3>. QED  BY <1>3, <3>1, <3>2, <3>3
                DEF EnqueueEvent, dispatcher, Fifo!Next, Fifo!Put
    <2>. QED  BY <2>3, <2>4
  <1>4. CASE AcceptAndDequeue
    <2>1. CASE event_head = event_tail
      BY <1>4, <2>1, <1>b DEF AcceptAndDequeue, reader, ring, Fifo!vars
    <2>2. CASE event_head # event_tail
      <3>1. /\ ev' = event_queue[event_head]
            /\ event_head' = Successor(event_head)
            /\ UNCHANGED <<event_queue, event_tail, sev>>
            /\ ev = NoEvent
        BY <1>4, <2>2 DEF AcceptAndDequeue, reader, Inv, Idle
      <3>2. /\ Waiting # << >>
            /\ Head(Waiting) = event_queue[event_head]
            /\ WaitingOf(event_queue, Successor(event_head), event_tail)
                  = Tail(Waiting)
        BY <1>a, <2>2, DequeueRemoves, WaitingIs
      <3>3. Waiting' = Tail(Waiting)
        BY <3>1, <3>2, WaitingIsNext
      <3>. QED  BY <3>1, <3>2, <3>3 DEF Fifo!Next, Fifo!Take
    <2>. QED  BY <2>1, <2>2
  <1>5. CASE WriteAndClose
    <2>1. UNCHANGED <<Waiting, sev>> /\ ev' = NoEvent
      BY <1>5, <1>b DEF WriteAndClose, reader
    <2>2. CASE ev = NoEvent
      BY <2>1, <2>2 DEF Fifo!vars
    <2>3. CASE ev \in Event
      BY <2>1, <2>3 DEF Fifo!Next, Fifo!HandOut
    <2>. QED  BY <2>2, <2>3 DEF Inv, TypeOK
  <1>6. ASSUME NEW d \in Devices, DeviceEvent(d)
        PROVE  [Fifo!Next]_(Fifo!vars)
    BY <1>6, <1>b DEF DeviceEvent, reader, dispatcher, Fifo!vars
  <1>7. CASE Connect
    BY <1>7, <1>b DEF Connect, reader, dispatcher, Fifo!vars
  <1>8. CASE Leave
    BY <1>8, <1>b DEF Leave, reader, Fifo!vars
  <1>9. CASE UNCHANGED vars
    BY <1>9, <1>b DEF vars, ring, Fifo!vars
  <1>. QED  BY <1>1, <1>2, <1>3, <1>4, <1>5, <1>6, <1>7, <1>8, <1>9
            DEF Next, EventReader, IpcDispatcher

\* For every size of the ring: enqueue_event, dequeue_event and the two threads
\* around them implement a first-in first-out queue of MAX_EVENTS - 1 events.
THEOREM RingImplementsFifo == Spec => ImplementsFifo
  <1>1. Init => Fifo!Init
    BY FifoInit
  <1>2. Inv /\ [Next]_vars => [Fifo!Next]_(Fifo!vars)
    BY FifoStep
  <1>. QED  BY <1>1, <1>2, Invariance, PTL DEF Spec, ImplementsFifo, Fifo!Spec
=============================================================================
