------------------------------ MODULE SmchRadio ------------------------------
(***************************************************************************)
(* The whole hub: the controller (Smch) and the radio (Radio) in one main  *)
(* loop, with one clock.  Smch takes the radio as RadioLink, and Radio     *)
(* takes its clients as callers at any time that poll it soon enough; here *)
(* neither assumption is left.  What is new are the questions about time:  *)
(* commands are paced by the clock, without a look at the radio, and the   *)
(* radio needs several turns of the loop and an answer for each of them.   *)
(*                                                                         *)
(* An action is an action of one component, or of both at once where the   *)
(* controller calls sendMessage().  `sends' of the controller and `nextId' *)
(* of the radio count the same calls.                                      *)
(***************************************************************************)
EXTENDS Commands, Integers, Sequences

CONSTANTS
  OwnAddress, ResetAddress, FifoDepth,
  QueueSize, ClockModulus,
  MessageSendTimeoutMs,
  Interval,      \* least time between two queued commands
  LongestTurn,   \* bound: the time one turn of the main loop can take
  AirTime,       \* bound: the time the chip takes to end a transmission; a
                 \* chip that may fall silent has one beyond the timeout
  Reachable,     \* the devices that are switched on and in reach
  Calls,         \* the requests that the inputs lead to
  MaxMessages,   \* bound: calls of sendMessage()
  MaxPackets,    \* bound: packets received over the air
  MaxInputs, MaxRestarts, Requests, Shutters, Pins

ASSUME ReachableAssumption == Reachable \subseteq DeviceAddress
\* Smch makes no other calls: what it gives to the radio has an address.
ASSUME CallsAssumption ==
  Calls \subseteq Request /\ \A call \in Calls : call.address # NoAddress
ASSUME HubAddressAssumption == NoAddress \notin {OwnAddress, ResetAddress}
ASSUME AirTimeAssumption == AirTime \in Nat
ASSUME SizeAssumption ==
  /\ FifoDepth \in Nat \ {0} /\ QueueSize \in Nat \ {0}
  /\ MaxInputs \in Nat /\ MaxPackets \in Nat /\ MaxRestarts \in Nat

VARIABLES
  phase, commandQueue, lastExec, sinceExec, turn, inputs,  \* the controller
  state, timer, transmitQueue, receiveQueue, chip, waited, \* the radio
  nextId, firstId, aired, nextPacket, lastRead,
  now, restarts                                            \* both

controllerVars == <<phase, commandQueue, lastExec, sinceExec, turn, inputs>>
radioVars == <<state, timer, transmitQueue, receiveQueue, chip, waited,
               nextId, firstId, aired, nextPacket, lastRead>>
vars == <<controllerVars, radioVars, now, restarts>>

\* A request as the radio's queue holds it, with the number of the call.
Numbered(call, n) == [id |-> n, address |-> call.address, command |-> call.command]
Message == {Numbered(call, n) : call \in Calls, n \in 1 .. MaxMessages}

(***************************************************************************)
(* Between two polls of the radio lie at most the rest of one turn of the  *)
(* loop and the next turn up to the radio.                                 *)
(***************************************************************************)
LongestWait == MessageSendTimeoutMs - 1 + 2 * LongestTurn

ASSUME TimeAssumption ==
  /\ MessageSendTimeoutMs \in Nat \ {0} /\ LongestTurn \in Nat \ {0} /\ Interval \in Nat
  /\ ClockModulus \in Nat
  /\ LongestWait < ClockModulus /\ LongestTurn + Interval < ClockModulus

R == INSTANCE Radio WITH
       Packet <- 1 .. MaxPackets,
       Address <- DeviceAddress \cup {OwnAddress, ResetAddress}

\* The requests in a queue or FIFO of the radio, without their numbers.
Requested(s) ==
  [i \in DOMAIN s |-> [address |-> s[i].address, command |-> s[i].command]]

Hub == INSTANCE Smch WITH
         radioQueue <- Requested(transmitQueue),
         flight <- Requested(chip.txFifo),
         sends <- nextId - 1
\* An input leads to one call, or to one for each device that "all" reaches.
CallsPerInput == Hub!MaxDeviceIndex + 1
ASSUME InputsAssumption ==
  Requests \subseteq Hub!WebRequest /\ Shutters \subseteq 0 .. 6 /\ Pins \subseteq Int
ASSUME MessagesAssumption == MaxMessages \in Nat /\ CallsPerInput * MaxInputs <= MaxMessages
-----------------------------------------------------------------------------
(* A turn of the main loop.                                                *)

Running == state # "Booting"

\* The controller does its step, and the radio takes what it is given.
Calling(step) ==
  /\ Running
  /\ \/ UNCHANGED <<radioVars, now, restarts>>
     \/ \E call \in Calls : R!SendMessage(Numbered(call, nextId))
  /\ step

CoreTask == phase = "core" /\ Calling(Hub!CoreTask)
WebTask == phase = "web" /\ Calling(Hub!WebTask)
RunCommandQueue == phase = "queue" /\ Calling(Hub!RunCommandQueue)
SkipCommandQueue == phase = "queue" /\ Calling(Hub!SkipCommandQueue)

\* The turns in which runStateMachine() has nothing to do.
NothingToDo ==
  \/ state = "Idle" /\ ~ R!MessageReceived /\ transmitQueue = << >>
  \/ state = "WaitForMessageSent" /\ ~ R!IrqAsserted(chip) /\ ~ R!TimedOut

RadioTask ==
  /\ Running
  /\ \/ R!Task
     \/ NothingToDo /\ UNCHANGED <<radioVars, now, restarts>>
  /\ phase = "radio"
  /\ phase' = "web"
  /\ UNCHANGED <<commandQueue, lastExec, sinceExec, turn, inputs>>

Loop == CoreTask \/ RadioTask \/ WebTask \/ RunCommandQueue \/ SkipCommandQueue
-----------------------------------------------------------------------------
(* The environment.                                                        *)

\* A device answers if it is in reach; one that is not lets the retries run out.
Answer ==
  /\ \/ /\ chip.txAddr \in Reachable
        /\ R!ChipAcknowledged
     \/ /\ chip.txAddr \notin Reachable
        /\ R!ChipRetriesExhausted /\ aired' = aired
  /\ UNCHANGED controllerVars

Receive ==
  /\ \E p \in 1 .. MaxPackets : R!ChipReceive(p)
  /\ UNCHANGED controllerVars

\* Time passes, and a chip that transmits does so no longer than AirTime.
Tick ==
  /\ Running
  /\ R!CanTransmit(chip) => waited < AirTime
  /\ waited' = IF state = "WaitForMessageSent" THEN waited + 1 ELSE waited
  /\ UNCHANGED <<state, timer, transmitQueue, receiveQueue, chip,
                 nextId, firstId, aired, nextPacket, lastRead>>
  /\ Hub!Tick

Restart == R!Restart /\ Hub!Restart

\* The end of setup().
Boot == R!Boot /\ UNCHANGED controllerVars

Init == R!Init /\ Hub!Init

Next == Loop \/ Answer \/ Receive \/ Tick \/ Restart \/ Boot

Spec == Init /\ [][Next]_vars

(***************************************************************************)
(* The loop runs, time passes, and the chip gets to an end with each       *)
(* transmission, as its retransmission counter makes sure.                 *)
(***************************************************************************)
FairSpec == Spec /\ WF_vars(Boot) /\ WF_vars(Loop) /\ WF_vars(Tick) /\ WF_vars(Answer)
-----------------------------------------------------------------------------
(* Properties.                                                             *)

\* A chip that holds one message at most.
Loadable(c) ==
  "txFifo" \in DOMAIN c /\ c.txFifo \in Seq(Message) /\ Len(c.txFifo) <= 1

\* What the two components hand each other has its type.
TypeOK ==
  /\ phase \in Hub!Phases
  /\ commandQueue \in Seq((0 .. Hub!MaxDeviceIndex) \X Command)
  /\ turn \in 0 .. LongestTurn
  /\ inputs \in 0 .. MaxInputs
  /\ state \in R!States
  /\ timer \in R!ClockValues /\ now \in R!ClockValues
  /\ waited \in Nat
  /\ transmitQueue \in Seq(Message)
  /\ Loadable(chip)
  /\ nextId \in Nat \ {0}

\* Every call of sendMessage(), made or still to come, goes back to an input.
CallsCounted == nextId - 1 + Len(commandQueue) <= CallsPerInput * inputs

\* The machine has a message to take when it is about to take one.
MessageToTake == state = "SendNextQueuedMessage" => transmitQueue # << >>

(***************************************************************************)
(* While the radio waits, the clock tells for how long, and that is less   *)
(* than the timeout at the last poll: what has passed since is part of     *)
(* this turn of the loop or, before the radio's call, of this one and the  *)
(* one before.                                                             *)
(***************************************************************************)
PolledInTime ==
  state = "WaitForMessageSent" =>
    /\ now = (timer + waited) % ClockModulus
    /\ waited < MessageSendTimeoutMs + turn
                  + (IF phase \in {"web", "queue"} THEN 0 ELSE LongestTurn)

\* The invariant that the steps preserve and that the refinements follow from.
Inv == TypeOK /\ CallsCounted /\ MessageToTake /\ PolledInTime

(***************************************************************************)
(* The hub is a correct use of the radio.  Radio assumes that it is polled *)
(* before LongestWait has passed in a wait; the hub has no such guard, its *)
(* loop and the timeout have to be quick enough.                           *)
(***************************************************************************)
HubImplementsRadio == R!Spec

(***************************************************************************)
(* The radio is what the controller was checked with: one step of its      *)
(* machine, in the turn of the loop that calls it, is a step of RadioLink. *)
(***************************************************************************)
ImplementsController == Hub!Spec

(***************************************************************************)
(* From the button to the air: whatever a device receives is addressed to  *)
(* it and tells it something.  The controller sees to it that only such    *)
(* messages are queued, the radio that each goes out under its own address *)
(* whatever was loaded before, and whatever a reset has left in the chip.  *)
(***************************************************************************)
OnlyMeantIsAired ==
  \A a \in aired : a[2].address = a[1] /\ Hub!Deliverable(a[2])

(***************************************************************************)
(* Pacing keeps up: no message is dropped by a full transmit queue, which  *)
(* sendMessage() would not report.  This is a matter of Interval being     *)
(* long enough for four turns of the loop and a transmission, and holds    *)
(* while a direct command or a second "all" comes in between.              *)
(***************************************************************************)
KeepsUp ==
  [][ nextId' > nextId => Len(transmitQueue') > Len(transmitQueue) ]_vars

\* The part of an "all" for device d waits in the controller.
Waiting(d) == \E i \in DOMAIN commandQueue : commandQueue[i] = <<d, "AllUp">>

Delivered(d) == \E a \in aired : a[1] = d /\ a[2].command = "PROTO_CMD_ALL_UP"

(***************************************************************************)
(* From the button to the shutter: the part of an "all" that waits for a   *)
(* device in reach is received by that device, past devices that are out   *)
(* of reach and commands that overtake it.                                 *)
(***************************************************************************)
ReachesDevice ==
  \A d \in Reachable : Waiting(d) ~> Delivered(d)

(***************************************************************************)
(* The caller's view of a message that is dropped: Smch.cpp:61 logs an     *)
(* error for a message that could not be sent.  sendMessage() never        *)
(* returns false, so a message that is dropped is never reported.          *)
(***************************************************************************)
sendMessageResult == TRUE
DropsAreReported ==
  [][ nextId' > nextId /\ Len(transmitQueue') = Len(transmitQueue)
        => ~ sendMessageResult ]_vars
=============================================================================
