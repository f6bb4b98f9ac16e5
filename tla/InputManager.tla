---------------------------- MODULE InputManager ----------------------------
(***************************************************************************)
(* frontend/ui/input_manager.c: event_reader and ipc_dispatcher, two       *)
(* threads that share a ring buffer under event_mutex.  A critical section *)
(* is one step; between its critical sections each thread holds one event  *)
(* of its own.                                                             *)
(***************************************************************************)
EXTENDS Integers, Sequences

CONSTANTS
  MAX_EVENTS,    \* slots of the ring
  device_count,  \* devices found by discover_devices
  Codes,         \* what tells the events of a device apart
  MaxKernel,     \* bound: events the kernel holds for a device
  MaxClients,    \* bound: the listen backlog
  NoEvent

ASSUME InputAssumption ==
  /\ MAX_EVENTS \in Nat \ {0}
  /\ device_count \in Nat
  /\ MaxKernel \in Nat /\ MaxClients \in Nat

Devices == 1 .. device_count

\* Only EV_KEY events are queued.  Motion events go into the coordinates that
\* later key events carry, which are left out here.
Event == [device: Devices, code: Codes]
Motion == [device: Devices, motion: {TRUE}]

ASSUME NoEventAssumption == NoEvent \notin Event

VARIABLES
  kernel,       \* per device: events not read yet
  turn,         \* event_reader: the device it looks at next
  sev,          \* event_reader: the key event it is about to enqueue
  event_queue, event_head, event_tail,
  backlog,      \* for each client not accepted yet: is it still there?
  peer,         \* ipc_dispatcher: "none", or is the accepted client there?
  ev            \* ipc_dispatcher: the event it is about to write

vars == <<kernel, turn, sev, event_queue, event_head, event_tail, backlog,
          peer, ev>>
ring == <<event_queue, event_head, event_tail>>
reader == <<turn, sev>>
dispatcher == <<peer, ev>>

Slots == 0 .. MAX_EVENTS - 1

TypeOK ==
  /\ kernel \in [Devices -> Seq(Event \cup Motion)]
  /\ turn \in 1 .. device_count + 1
  /\ sev \in Event \cup {NoEvent}
  /\ event_queue \in [Slots -> Event \cup {NoEvent}]
  /\ event_head \in Slots
  /\ event_tail \in Slots
  /\ backlog \in Seq(BOOLEAN)
  /\ peer \in {"none", "there", "gone"}
  /\ ev \in Event \cup {NoEvent}

Init ==
  /\ kernel = [d \in Devices |-> << >>]
  /\ turn = 1
  /\ sev = NoEvent
  /\ event_queue = [k \in Slots |-> NoEvent]
  /\ event_head = 0
  /\ event_tail = 0
  /\ backlog = << >>
  /\ peer = "none"
  /\ ev = NoEvent

----------------------------------------------------------------------------
(* event_reader: one read per device and turn of the for loop. *)

\* The next device; after the last one the for loop starts over.
NextTurn == turn' = IF turn > device_count THEN 1 ELSE turn + 1

\* Mutant of ReadDevice: the same device is read again until it is empty.
DrainDevice ==
  /\ sev = NoEvent
  /\ turn \in Devices
  /\ kernel[turn] # << >>
  /\ kernel' = [kernel EXCEPT ![turn] = Tail(@)]
  /\ sev' = IF Head(kernel[turn]) \in Event THEN Head(kernel[turn]) ELSE NoEvent
  /\ UNCHANGED <<turn, ring, backlog, dispatcher>>

ReadDevice ==
  /\ sev = NoEvent
  /\ turn \in Devices
  /\ kernel[turn] # << >>
  /\ kernel' = [kernel EXCEPT ![turn] = Tail(@)]
  /\ sev' = IF Head(kernel[turn]) \in Event THEN Head(kernel[turn]) ELSE NoEvent
  /\ NextTurn
  /\ UNCHANGED <<ring, backlog, dispatcher>>

(* A device without an event, or the end of the for loop (and its usleep). *)
PassOn ==
  /\ sev = NoEvent
  /\ turn \in Devices => kernel[turn] = << >>
  /\ NextTurn
  /\ UNCHANGED <<kernel, sev, ring, backlog, dispatcher>>

\* Mutant of Successor: the index does not wrap around.
SuccessorUnwrapped(k) == k + 1

Successor(k) == (k + 1) % MAX_EVENTS

\* Mutant of EnqueueEvent: no test for a full ring.
EnqueueAlways ==
  /\ sev \in Event
  /\ event_queue' = [event_queue EXCEPT ![event_tail] = sev]
  /\ event_tail' = Successor(event_tail)
  /\ sev' = NoEvent
  /\ UNCHANGED <<kernel, turn, event_head, backlog, dispatcher>>

(* enqueue_event: with the slot before event_head as a sentinel, the event  *)
(* is silently dropped when MAX_EVENTS - 1 wait.                            *)
EnqueueEvent ==
  /\ sev \in Event
  /\ IF Successor(event_tail) # event_head
       THEN /\ event_queue' = [event_queue EXCEPT ![event_tail] = sev]
            /\ event_tail' = Successor(event_tail)
       ELSE UNCHANGED <<event_queue, event_tail>>
  /\ sev' = NoEvent
  /\ UNCHANGED <<kernel, turn, event_head, backlog, dispatcher>>

----------------------------------------------------------------------------
(* ipc_dispatcher *)

\* accept, then dequeue_event, which leaves nothing when the ring is empty.
AcceptAndDequeue ==
  /\ peer = "none"
  /\ backlog # << >>
  /\ peer' = IF Head(backlog) THEN "there" ELSE "gone"
  /\ backlog' = Tail(backlog)
  /\ IF event_head = event_tail
       THEN UNCHANGED <<ev, event_head>>
       ELSE /\ ev' = event_queue[event_head]
            /\ event_head' = Successor(event_head)
  /\ UNCHANGED <<kernel, reader, event_queue, event_tail>>

\* Mutant of WriteAndClose: an event that cannot be written is kept, and the
\* dispatcher tries again.
WriteUntilAccepted ==
  /\ peer = "there"
  /\ peer' = "none"
  /\ ev' = NoEvent
  /\ UNCHANGED <<kernel, reader, ring, backlog>>

(* write, whose result is not looked at: the event is lost if the client has *)
(* left.  Then close.                                                        *)
WriteAndClose ==
  /\ peer # "none"
  /\ peer' = "none"
  /\ ev' = NoEvent
  /\ UNCHANGED <<kernel, reader, ring, backlog>>

----------------------------------------------------------------------------
(* Devices and clients *)

DeviceEvent(d) ==
  /\ Len(kernel[d]) < MaxKernel
  /\ \E e \in Event \cup Motion :
       e.device = d /\ kernel' = [kernel EXCEPT ![d] = Append(@, e)]
  /\ UNCHANGED <<reader, ring, backlog, dispatcher>>

Connect ==
  /\ Len(backlog) < MaxClients
  /\ backlog' = Append(backlog, TRUE)
  /\ UNCHANGED <<kernel, reader, ring, dispatcher>>

Leave ==
  /\ \/ /\ \E k \in DOMAIN backlog :
             backlog[k] /\ backlog' = [backlog EXCEPT ![k] = FALSE]
        /\ UNCHANGED peer
     \/ /\ peer = "there" /\ peer' = "gone"
        /\ UNCHANGED backlog
  /\ UNCHANGED <<kernel, reader, ring, ev>>

EventReader == ReadDevice \/ PassOn \/ EnqueueEvent
IpcDispatcher == AcceptAndDequeue \/ WriteAndClose

Next ==
  \/ EventReader
  \/ IpcDispatcher
  \/ \E d \in Devices : DeviceEvent(d)
  \/ Connect
  \/ Leave

\* Both threads run for ever, and neither holds the mutex while it waits.
Fairness == WF_vars(EventReader) /\ WF_vars(IpcDispatcher)

Spec == Init /\ [][Next]_vars /\ Fairness

----------------------------------------------------------------------------
(* Properties. *)

\* How many events wait, and which: the slots from event_head up to, but not
\* including, event_tail, around the end of the array.
Count == IF event_tail >= event_head THEN event_tail - event_head
                                     ELSE event_tail - event_head + MAX_EVENTS

Waiting == [k \in 1 .. Count |-> event_queue[(event_head + k - 1) % MAX_EVENTS]]

\* The ring with its two threads implements a first-in first-out queue of
\* MAX_EVENTS - 1 events: none is lost, doubled or overtaken on the way, except
\* for the one that finds the queue full.
Fifo == INSTANCE EventQueue
          WITH Capacity <- MAX_EVENTS - 1, offered <- sev, queue <- Waiting,
               taken <- ev

ImplementsFifo == Fifo!Spec

\* No device is starved: what the kernel holds for one is read, however busy
\* the other devices are.
DevicesDrained ==
  \A d \in Devices : Len(kernel[d]) = MaxKernel ~> Len(kernel[d]) < MaxKernel

\* No client is starved: a full backlog does not stay full, even when no event
\* is there and when clients leave before they are served.
ClientsServed == Len(backlog) = MaxClients ~> Len(backlog) < MaxClients
=============================================================================
