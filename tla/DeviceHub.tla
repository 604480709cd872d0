------------------------------ MODULE DeviceHub ------------------------------
(***************************************************************************)
(* DeviceHub: the scan that asks each possible device for its status, one  *)
(* after the other, and marks as active the device it is asking when an    *)
(* answer comes in.  Answers do not say who sent them, and requests wait   *)
(* behind other messages in the radio, so that the code has to rely on     *)
(* answers being punctual.                                                 *)
(*                                                                         *)
(* The transmitting side of the radio is RadioLink.  Its receiving side is *)
(* a bounded queue that drops the newest message.  The devices are the     *)
(* environment: they answer late, more than once, or not at all.           *)
(***************************************************************************)
EXTENDS Commands, Integers, Sequences, FiniteSets, SequencesExt

CONSTANTS
  MaxDeviceCount,              \* devices that are asked
  ScanStatusRequestTimeoutMs,  \* patience with one device
  QueueSize,                   \* capacity of each of the radio's queues
  ClockModulus,                \* millis() counts modulo this
  LongestWait,   \* bound: the timeout and the longest turn of the main loop
  Alive,         \* devices that exist and are in reach
  MaxScans,      \* bound: scans started
  MaxAnswers,    \* bound: messages sent by devices
  MaxCommands    \* bound: messages that the rest of the hub sends

ASSUME DeviceAssumption ==
  /\ MaxDeviceCount \in 1 .. 10
  /\ Alive \subseteq 0 .. MaxDeviceCount - 1
ASSUME ScanAssumption ==
  /\ ScanStatusRequestTimeoutMs \in Nat /\ LongestWait \in Nat
  /\ ClockModulus \in Nat
  /\ ScanStatusRequestTimeoutMs <= LongestWait
  /\ LongestWait < ClockModulus
ASSUME BoundsAssumption ==
  QueueSize \in Nat /\ MaxScans \in Nat /\ MaxAnswers \in Nat /\ MaxCommands \in Nat

VARIABLES
  state,             \* _state
  scanner,           \* _scanner
  activeBits,        \* _activeBits, as the set of the indices of its ones
  receivedMessages,  \* _receivedMessages, as a set: no two messages are equal,
                     \* and the code looks only whether there is one
  transmitQueue, flight, receiveQueue,  \* the radio
  now,               \* millis()
  (* History variables, which no code of the program reads:                *)
  underway,          \* messages that devices sent and the hub has not received
  waited,            \* the true time since scanner.timer was set
  asked,             \* the devices asked by this scan
  answered,          \* devices whose status the radio has received
  arrived, credited, \* status messages received, and used as answers
  punctual,          \* whether each came while its sender was being asked
  scans, answers, commands  \* numbers of events so far

radioVars == <<transmitQueue, flight, receiveQueue>>
hubVars   == <<state, scanner, activeBits, receivedMessages>>
scanHistory == <<asked, credited, scans>>
airHistory == <<underway, answered, arrived, punctual, answers>>
vars == <<hubVars, radioVars, now, waited, scanHistory, airHistory, commands>>

Device == 0 .. MaxDeviceCount - 1

\* The messages that the hub sends.
Outgoing == [type : {"PROTO_MSG_READ_STATUS", "PROTO_MSG_COMMAND"}, address : Device]

(***************************************************************************)
(* The messages that devices send; other types are as irrelevant to the    *)
(* scan as a result.  The code looks at type and msg_magic only: sender is *)
(* known to the model, and answers tells messages apart.                   *)
(***************************************************************************)
Incoming == [type : {"PROTO_MSG_READ_STATUS_RESULT", "PROTO_MSG_RESULT"},
             valid : BOOLEAN, sender : Device, n : 1 .. MaxAnswers]

Scanner == [state : {"SendStatusRequest", "WaitStatusResponse", "Finish"},
            currentIndex : 0 .. MaxDeviceCount, timer : 0 .. ClockModulus - 1]

\* A value-initialized Scanner.
NewScanner == [state |-> "SendStatusRequest", currentIndex |-> 0, timer |-> 0]

Link == INSTANCE RadioLink WITH
          queue <- transmitQueue, aired <- {}, Message <- Outgoing
-----------------------------------------------------------------------------
(* Helpers.                                                                *)

\* The pattern of DeviceHub::receiveMessages, which leaves the radio's queue
\* empty: what it adds to receivedMessages.  isMessageValid() is true of the
\* messages that are to be dropped, and so is its caller's test.
isMessageValid(m) == ~ m.valid
Kept == {m \in ToSet(receiveQueue) : ~ isMessageValid(m)}

\* Variant: the messages that were looked at stay.
NotCleared == receivedMessages \cup Kept

\* What is left of the received messages after WaitStatusResponse.
Cleared == {}

IsStatus(m) == m.type = "PROTO_MSG_READ_STATUS_RESULT"

\* A status among the messages, those received in this turn included.
responseFound == \E m \in receivedMessages \cup Kept : IsStatus(m)

\* Variant: comparison of instants.
ReachedDeadline == now >= (scanner.timer + ScanStatusRequestTimeoutMs) % ClockModulus

\* Variant: subtraction wider than the clock.
TimedOutUnwrapped == now - scanner.timer >= ScanStatusRequestTimeoutMs

\* The difference of two uint32_t wraps around as millis() does.
TimedOut == (now - scanner.timer) % ClockModulus >= ScanStatusRequestTimeoutMs

\* The index that is asked next.
NextIndex == scanner.currentIndex + 1

\* Variant: the answer is credited after the index has moved.
CreditedAfterMove == NextIndex % MaxDeviceCount

\* The device whose bit an answer sets.
CreditedIndex == scanner.currentIndex

\* Variant: the index runs past the last device.
NextDeviceTooFar ==
  [scanner EXCEPT !.currentIndex = @ + 1,
                  !.state = IF scanner.currentIndex = MaxDeviceCount
                            THEN "Finish" ELSE "SendStatusRequest"]

\* The scanner after it is done with a device.
NextDevice ==
  [scanner EXCEPT !.currentIndex = @ + 1,
                  !.state = IF NextIndex = MaxDeviceCount
                            THEN "Finish" ELSE "SendStatusRequest"]

\* Variant: the scanner of the last scan is used again.
UsedScanner == scanner

\* What startScan() begins with.
FreshScanner == NewScanner
-----------------------------------------------------------------------------
(* DeviceHub's operations.                                                 *)

\* startScan() while a scan is running changes nothing and returns false.
startScan ==
  /\ scans < MaxScans
  /\ scans' = scans + 1
  /\ state = "Idle"
  /\ state' = "Scanning"
  /\ scanner' = FreshScanner
  /\ asked' = << >>
  /\ UNCHANGED <<activeBits, receivedMessages, radioVars, now, waited, credited,
                 airHistory, commands>>

\* task() outside of a scan: messages are collected all the same.
IdleTask ==
  /\ state = "Idle"
  /\ receivedMessages' = receivedMessages \cup Kept
  /\ receiveQueue' = << >>
  /\ UNCHANGED <<state, scanner, activeBits, transmitQueue, flight, now, waited,
                 scanHistory, airHistory, commands>>

(***************************************************************************)
(* The failure branch is never taken, since sendMessage() returns true,    *)
(* and it would make no difference: the next line overwrites the state it  *)
(* sets.  The message may be dropped by a full transmit queue.             *)
(***************************************************************************)
SendStatusRequest ==
  /\ state = "Scanning" /\ scanner.state = "SendStatusRequest"
  /\ receivedMessages' = receivedMessages \cup Kept
  /\ receiveQueue' = << >>
  /\ Link!Accept([type |-> "PROTO_MSG_READ_STATUS", address |-> scanner.currentIndex])
  /\ scanner' = [scanner EXCEPT !.state = "WaitStatusResponse", !.timer = now]
  /\ waited' = 0
  /\ asked' = Append(asked, scanner.currentIndex)
  /\ UNCHANGED <<state, activeBits, now, credited, scans, airHistory, commands>>

\* Any status counts as the answer of the device that is being asked.
WaitStatusResponse ==
  /\ state = "Scanning" /\ scanner.state = "WaitStatusResponse"
  /\ receivedMessages' = Cleared
  /\ receiveQueue' = << >>
  /\ \/ /\ responseFound
        /\ activeBits' = activeBits \cup {CreditedIndex}
        /\ scanner' = NextDevice
        /\ credited' = credited + 1
     \/ /\ ~ responseFound /\ TimedOut
        /\ scanner' = NextDevice
        /\ UNCHANGED <<activeBits, credited>>
     \/ /\ ~ responseFound /\ ~ TimedOut
        /\ UNCHANGED <<scanner, activeBits, credited>>
  /\ UNCHANGED <<state, transmitQueue, flight, now, waited, asked, scans,
                 airHistory, commands>>

Finish ==
  /\ state = "Scanning" /\ scanner.state = "Finish"
  /\ receivedMessages' = receivedMessages \cup Kept
  /\ receiveQueue' = << >>
  /\ state' = "Idle"
  /\ UNCHANGED <<scanner, activeBits, transmitQueue, flight, now, waited,
                 scanHistory, airHistory, commands>>

task == IdleTask \/ SendStatusRequest \/ WaitStatusResponse \/ Finish
-----------------------------------------------------------------------------
(* The radio and the devices.                                              *)

\* The rest of the hub gives the radio a message of its own.
OtherMessage(d) ==
  /\ commands < MaxCommands
  /\ commands' = commands + 1
  /\ Link!Accept([type |-> "PROTO_MSG_COMMAND", address |-> d])
  /\ UNCHANGED <<hubVars, receiveQueue, now, waited, scanHistory, airHistory>>

\* The radio goes on: the next message is tried, or the present one is done with.
RadioTask ==
  /\ \/ Link!Begin
     \/ flight # << >> /\ Link!GiveUp
  /\ UNCHANGED <<hubVars, receiveQueue, now, waited, scanHistory, airHistory, commands>>

AnswerType(m) ==
  IF m.type = "PROTO_MSG_READ_STATUS"
  THEN "PROTO_MSG_READ_STATUS_RESULT" ELSE "PROTO_MSG_RESULT"

\* The device that is sent a message answers it, possibly with a damaged message.
Answer ==
  /\ answers < MaxAnswers
  /\ answers' = answers + 1
  /\ flight # << >> /\ Head(flight).address \in Alive
  /\ \E valid \in BOOLEAN :
       underway' = underway \cup
         {[type |-> AnswerType(Head(flight)), valid |-> valid,
           sender |-> Head(flight).address, n |-> answers + 1]}
  /\ UNCHANGED <<hubVars, radioVars, now, waited, scanHistory, answered, arrived,
                 punctual, commands>>

\* The hub is waiting for device d to answer.
Asking(d) ==
  /\ state = "Scanning"
  /\ scanner.state = "WaitStatusResponse"
  /\ scanner.currentIndex = d

\* A message reaches the radio, at any time after it was sent.
Arrive(m) ==
  /\ underway' = underway \ {m}
  /\ receiveQueue' = IF Len(receiveQueue) < QueueSize
                     THEN Append(receiveQueue, m) ELSE receiveQueue
  /\ IF IsStatus(m) /\ m.valid
     THEN /\ answered' = answered \cup {m.sender}
          /\ arrived' = arrived + 1
          /\ punctual' = (punctual /\ Asking(m.sender))
     ELSE UNCHANGED <<answered, arrived, punctual>>
  /\ UNCHANGED <<hubVars, transmitQueue, flight, now, waited, scanHistory,
                 answers, commands>>

\* A message is lost.
Lose(m) ==
  /\ underway' = underway \ {m}
  /\ UNCHANGED <<hubVars, radioVars, now, waited, scanHistory, answered, arrived,
                 punctual, answers, commands>>

\* A millisecond passes.  The main loop polls the scan before LongestWait.
Tick ==
  /\ state = "Scanning" /\ scanner.state = "WaitStatusResponse" => waited < LongestWait
  /\ now' = (now + 1) % ClockModulus
  /\ waited' = IF waited < LongestWait THEN waited + 1 ELSE waited
  /\ UNCHANGED <<hubVars, radioVars, scanHistory, airHistory, commands>>

Init ==
  /\ Link!Init
  /\ state = "Idle"
  /\ scanner = NewScanner
  /\ activeBits = {}
  /\ receivedMessages = {}
  /\ receiveQueue = << >>
  /\ now = 0
  /\ underway = {}
  /\ waited = 0
  /\ asked = << >>
  /\ answered = {}
  /\ arrived = 0 /\ credited = 0
  /\ punctual = TRUE
  /\ scans = 0 /\ answers = 0 /\ commands = 0

Next ==
  \/ startScan
  \/ task
  \/ \E d \in Device : OtherMessage(d)
  \/ RadioTask
  \/ Answer
  \/ \E m \in underway : Arrive(m) \/ Lose(m)
  \/ Tick

Spec == Init /\ [][Next]_vars

\* The main loop runs task() and time passes; nothing is assumed of the radio.
FairSpec == Spec /\ WF_vars(task) /\ WF_vars(Tick)
-----------------------------------------------------------------------------
(* Properties.                                                             *)

\* Every variable has its type: the index stays a device's while one is asked.
TypeOK ==
  /\ state \in {"Idle", "Scanning"}
  /\ scanner \in Scanner
  /\ scanner.currentIndex = MaxDeviceCount <=> scanner.state = "Finish"
  /\ activeBits \subseteq Device
  /\ receivedMessages \subseteq Incoming /\ IsFiniteSet(receivedMessages)
  /\ \A m \in receivedMessages : m.valid
  /\ transmitQueue \in Seq(Outgoing) /\ Len(transmitQueue) <= QueueSize
  /\ flight \in Seq(Outgoing) /\ Len(flight) <= 1
  /\ receiveQueue \in Seq(Incoming) /\ Len(receiveQueue) <= QueueSize
  /\ now \in 0 .. ClockModulus - 1
  /\ underway \subseteq Incoming
  /\ waited \in 0 .. LongestWait
  /\ asked \in Seq(Device)
  /\ answered \subseteq Device
  /\ punctual \in BOOLEAN
  /\ arrived \in Nat /\ credited \in Nat
  /\ scans \in 0 .. MaxScans
  /\ answers \in 0 .. MaxAnswers
  /\ commands \in 0 .. MaxCommands

(***************************************************************************)
(* A scan that ends has asked every device exactly once, in order, however *)
(* the devices before it answered and whatever an earlier scan left in the *)
(* scanner.                                                                *)
(***************************************************************************)
ScanIsComplete ==
  [][ state = "Scanning" /\ state' = "Idle" =>
        asked = [i \in 1 .. MaxDeviceCount |-> i - 1] ]_vars

(***************************************************************************)
(* The scan leaves a device for the next one only with an answer or after  *)
(* ScanStatusRequestTimeoutMs of true time, across a wrap of millis() too. *)
(***************************************************************************)
NoDeviceCutShort ==
  [][ scanner.state = "WaitStatusResponse" /\ scanner'.state # scanner.state =>
        credited' > credited \/ waited >= ScanStatusRequestTimeoutMs ]_vars

\* The statuses among the messages M that are used, or would be.
Statuses(M) == {m \in M : IsStatus(m) /\ m.valid}

(***************************************************************************)
(* One status counts for one device at most, over all scans: those used as *)
(* an answer and those still to be looked at are no more than arrived.     *)
(***************************************************************************)
CreditedOnce ==
  credited + Cardinality(Statuses(receivedMessages))
           + Cardinality(Statuses(ToSet(receiveQueue))) <= arrived

(***************************************************************************)
(* As long as each status arrives while its sender is being asked, only    *)
(* devices that have answered are marked as active.                        *)
(***************************************************************************)
RightWhenPunctual == punctual => activeBits \subseteq answered

(***************************************************************************)
(* While all are punctual, a status that has not been looked at is from    *)
(* the device that is being asked: none is left over when the next device  *)
(* is asked or the next scan is started, since the wait looks at all that  *)
(* has been received before it ends.                                       *)
(***************************************************************************)
PendingFromAsked ==
  punctual => \A m \in Statuses(receivedMessages) \cup Statuses(ToSet(receiveQueue)) :
                Asking(m.sender) /\ m.sender \in answered

\* The devices asked are those up to the index, which ends behind the last.
AskedInOrder ==
  state = "Scanning" =>
    /\ Len(asked) = IF scanner.state = "WaitStatusResponse"
                    THEN NextIndex ELSE scanner.currentIndex
    /\ \A i \in DOMAIN asked : asked[i] = i - 1

\* A device is asked only by a running scan, and the clock tells how long ago.
ClockIsTrue ==
  scanner.state = "WaitStatusResponse" =>
    state = "Scanning" /\ now = (scanner.timer + waited) % ClockModulus

\* The invariant that the steps preserve and that the others follow from.
Inv ==
  /\ TypeOK
  /\ CreditedOnce
  /\ RightWhenPunctual
  /\ PendingFromAsked
  /\ AskedInOrder
  /\ ClockIsTrue

(***************************************************************************)
(* What the log says of a marked device, "found active device index": that *)
(* it is there, that is, it has answered a request at some time.           *)
(***************************************************************************)
ActiveDevicesAnswered == activeBits \subseteq answered

\* A scan ends, with every device silent, a full queue and a dead radio too.
ScanEnds == state = "Scanning" ~> state = "Idle"
=============================================================================
