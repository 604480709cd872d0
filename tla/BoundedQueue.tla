---------------------------- MODULE BoundedQueue ----------------------------
(***************************************************************************)
(* What the two queues of the radio promise to their clients: a FIFO of at *)
(* most Size values that silently refuses a push when it is full.  This is *)
(* the abstract specification that FixedSizeRingBuffer implements, and the *)
(* form in which Radio uses its transmit and receive queues.               *)
(***************************************************************************)
EXTENDS Naturals, Sequences

CONSTANTS
  Value,    \* the values that can be queued
  Vacant,   \* what a slot that holds no value reads as
  Size      \* the capacity, the template argument of the ring buffer

VARIABLES
  queue,    \* the queued values, oldest first
  result    \* what the last front()/pop() pair of a client obtained

vars == <<queue, result>>

\* The queue after a push: unchanged when it is full.
Pushed(q, v) == IF Len(q) < Size THEN Append(q, v) ELSE q

Init == queue = << >> /\ result = Vacant

Push(v) == queue' = Pushed(queue, v) /\ UNCHANGED result

Take ==
  /\ queue # << >>
  /\ result' = Head(queue)
  /\ queue' = Tail(queue)

\* Taking from an empty queue is not refused; it must not replay a value.
TakeEmpty ==
  /\ queue = << >>
  /\ result' = Vacant
  /\ UNCHANGED queue

Next == Take \/ TakeEmpty \/ \E v \in Value : Push(v)

Spec == Init /\ [][Next]_vars
=============================================================================
