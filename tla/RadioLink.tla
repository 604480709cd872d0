------------------------------ MODULE RadioLink ------------------------------
(***************************************************************************)
(* What radio::Radio promises about the messages given to sendMessage(),   *)
(* whatever the transceiver, the devices and the power supply do: messages *)
(* are tried in the order of the calls, one at a time; a device is only    *)
(* ever sent a message addressed to it, and an acknowledged message is not *)
(* sent again.  A message may be dropped: when the queue is full, when no  *)
(* device acknowledges it, and by a restart.                               *)
(***************************************************************************)
EXTENDS Naturals, Sequences

CONSTANTS
  Message,    \* records with at least the fields id and address
  QueueSize

VARIABLES
  queue,    \* messages that wait for their turn
  flight,   \* the message being tried, as a sequence of length 0 or 1
  aired     \* <<address, message>> pairs that a device may have received

vars == <<queue, flight, aired>>

Init == queue = << >> /\ flight = << >> /\ aired = {}

\* A call of sendMessage(); nothing tells the caller that m was dropped.
Accept(m) ==
  /\ queue' = IF Len(queue) < QueueSize THEN Append(queue, m) ELSE queue
  /\ UNCHANGED <<flight, aired>>

\* The oldest message is tried; whatever was tried before is given up.
Begin ==
  /\ queue # << >>
  /\ flight' = <<Head(queue)>>
  /\ queue' = Tail(queue)
  /\ UNCHANGED aired

\* The message reaches its device, which may acknowledge it to the hub or not.
Air ==
  /\ flight # << >>
  /\ aired' = aired \cup {<<Head(flight).address, Head(flight)>>}
  /\ flight' \in {flight, << >>}
  /\ UNCHANGED queue

\* The message whose turn it is, if any.
HeadOf(s) == IF s = << >> THEN {} ELSE {Head(s)}

GiveUp == flight' = << >> /\ UNCHANGED <<queue, aired>>

(***************************************************************************)
(* The queue is in RAM; a transceiver that keeps its power keeps its       *)
(* message, which may be one that was being handed to it.                  *)
(***************************************************************************)
Restart ==
  /\ queue' = << >>
  /\ flight' \in {flight, << >>} \cup {<<m>> : m \in HeadOf(queue)}
  /\ UNCHANGED aired

Next == Begin \/ Air \/ GiveUp \/ Restart \/ \E m \in Message : Accept(m)

Spec == Init /\ [][Next]_vars

\* Nothing waits forever.
FairSpec == Spec /\ WF_vars(Begin)
=============================================================================
