----------------------------- MODULE EventQueue -----------------------------
(***************************************************************************)
(* What input_manager promises between the thread that reads the devices   *)
(* and the thread that serves clients: a first-in first-out queue of       *)
(* bounded capacity.  The event offered when it is full is dropped, no     *)
(* other is; every event taken is handed out once.                         *)
(***************************************************************************)
EXTENDS Naturals, Sequences

CONSTANTS
  Event,     \* the events
  NoEvent,   \* no event in hand: not in Event
  Capacity   \* how many events may wait

VARIABLES
  offered,   \* the event in the producer's hands
  queue,     \* the events that wait, oldest first
  taken      \* the event in the consumer's hands

vars == <<offered, queue, taken>>

Init == offered = NoEvent /\ queue = << >> /\ taken = NoEvent

Offer(e) ==
  /\ offered = NoEvent
  /\ offered' = e
  /\ UNCHANGED <<queue, taken>>

Put ==
  /\ offered \in Event
  /\ Len(queue) < Capacity
  /\ queue' = Append(queue, offered)
  /\ offered' = NoEvent
  /\ UNCHANGED taken

Drop ==
  /\ offered \in Event
  /\ Len(queue) = Capacity
  /\ offered' = NoEvent
  /\ UNCHANGED <<queue, taken>>

Take ==
  /\ taken = NoEvent
  /\ queue # << >>
  /\ taken' = Head(queue)
  /\ queue' = Tail(queue)
  /\ UNCHANGED offered

HandOut ==
  /\ taken \in Event
  /\ taken' = NoEvent
  /\ UNCHANGED <<offered, queue>>

Next == (\E e \in Event : Offer(e)) \/ Put \/ Drop \/ Take \/ HandOut

Spec == Init /\ [][Next]_vars
=============================================================================
