--------------------------------- MODULE Smch ---------------------------------
(***************************************************************************)
(* The controller: commands arrive by HTTP and MQTT, wait in a queue, are  *)
(* paced, and are handed to the radio.  One turn of the main loop runs     *)
(* the network (and with it the MQTT callbacks), the radio, the web server *)
(* and the command queue, in that order, in one thread; time may pass      *)
(* between any two of them.  The radio is taken as RadioLink, which Radio  *)
(* implements.                                                             *)
(***************************************************************************)
EXTENDS Commands, WebApi, Blynk, Integers, Sequences

CONSTANTS
  QueueSize,     \* capacity of the radio's transmit queue
  ClockModulus,  \* millis() counts modulo this
  Interval,      \* least time between two queued commands
  LongestTurn,   \* bound: the time one turn of the main loop can take
  MaxInputs,     \* bound: HTTP requests and MQTT callbacks
  MaxRestarts,   \* bound: number of restarts
  Requests,      \* the HTTP requests that are made
  Shutters,      \* the MQTT variables that are written, by their index
  Pins           \* the Blynk pins that are written: none without Blynk

ASSUME RequestsAssumption == Requests \subseteq WebRequest
ASSUME ShuttersAssumption == Shutters \subseteq 0 .. 6
ASSUME PinsAssumption == Pins \subseteq Int
ASSUME BoundsAssumption ==
  QueueSize \in Nat /\ MaxInputs \in Nat /\ MaxRestarts \in Nat
ASSUME TimeAssumption ==
  /\ ClockModulus \in Nat /\ Interval \in Nat /\ LongestTurn \in Nat
  /\ LongestTurn + Interval < ClockModulus

VARIABLES
  phase,         \* which call of task() is next
  commandQueue,  \* _commandQueue, as <<device index, command>> pairs
  lastExec,      \* _lastQueuedExecTimestamp
  now,           \* millis()
  radioQueue, flight,  \* the radio, as RadioLink describes it
  (* History variables, which no code of the program reads:                *)
  sinceExec,     \* time since a queued command was handed over, or since the
                 \* boot; counted up to Interval
  turn,          \* time since this turn of the loop began
  sends,         \* number of calls of sendMessage() so far
  inputs,        \* number of requests and callbacks so far
  restarts       \* number of restarts so far

linkVars == <<radioQueue, flight, sends>>
timeVars == <<lastExec, now, sinceExec, turn>>
vars == <<phase, commandQueue, linkVars, timeVars, inputs, restarts>>

Phases == {"core", "radio", "web", "queue"}

\* Highest device index that "all" reaches.
MaxDeviceIndex == 4

\* What devices receive is not followed here: a message in flight just ends.
Link == INSTANCE RadioLink WITH
          queue <- radioQueue, aired <- {}, Message <- Request
-----------------------------------------------------------------------------
(* Helpers.                                                                *)

\* The two tables of setupMqtt(), indexed by the MQTT variable.
MqttDevice == [i \in 0 .. 6 |-> <<0, 2, 1, 1, 4, 4, 3>>[i + 1]]
MqttMotor  == [i \in 0 .. 6 |-> <<1, 1, 2, 1, 1, 2, 1>>[i + 1]]

\* The command for one of the two motors of a device.
MotorCommand(motor, up) ==
  CASE motor = 1 /\ up   -> "Shutter1Up"
    [] motor = 1 /\ ~ up -> "Shutter1Down"
    [] motor = 2 /\ up   -> "Shutter2Up"
    [] motor = 2 /\ ~ up -> "Shutter2Down"

\* Variant: the loop runs once too often.
AllEntriesAndOne(command) ==
  [i \in 1 .. MaxDeviceIndex + 2 |->
    <<i - 1, IF command = "ShutterUp" THEN "AllUp" ELSE "AllDown">>]

\* The entries that "all" adds to the command queue.
AllEntries(command) ==
  [i \in 1 .. MaxDeviceIndex + 1 |->
    <<i - 1, IF command = "ShutterUp" THEN "AllUp" ELSE "AllDown">>]

\* Variants: the queue is not looked at; a limit that is off by one; a deadline.
AllUnguarded == TRUE
AtMostLimit(index) == index <= 10 * 2
PastDeadline == now >= (lastExec + Interval) % ClockModulus
ElapsedUnwrapped == now - lastExec >= Interval

\* "all" is refused while commands are waiting.
AllAdmitted == commandQueue = << >>

\* The indices of single motors: two for each of ten devices.
IsMotorIndex(index) == index < 10 * 2

\* The test of task() on the time of the last queued command.
IntervalElapsed == (now - lastExec) % ClockModulus >= Interval
-----------------------------------------------------------------------------
(* The steps of a turn of the main loop.                                   *)

\* The result of sendMessage() does not matter: it is always true.
sendRemoteControlCommand(deviceIndex, command) ==
  /\ Link!Accept(createCommandRequest(command, deviceIndexToAddress(deviceIndex)))
  /\ sends' = sends + 1

\* Smch::handleWebApiCommand
handleWebApiCommand(command, index) ==
  \/ /\ index = AllDevices
     /\ AllAdmitted
     /\ commandQueue' = commandQueue \o AllEntries(command)
     /\ UNCHANGED linkVars
  \/ /\ index = AllDevices
     /\ ~ AllAdmitted
     /\ UNCHANGED <<commandQueue, linkVars>>
  \/ /\ IsMotorIndex(index)
     /\ sendRemoteControlCommand(
          index \div 2,
          MotorCommand(IF index % 2 = 1 THEN 2 ELSE 1, command = "ShutterUp"))
     /\ UNCHANGED commandQueue
  \/ /\ index # AllDevices
     /\ ~ IsMotorIndex(index)
     /\ UNCHANGED <<commandQueue, linkVars>>

\* The loop goes on to the next call.
Proceed(from, to) ==
  /\ phase = from
  /\ phase' = to
  /\ turn' = IF to = "core" THEN 0 ELSE turn
  /\ UNCHANGED <<now, restarts>>

CountInput == inputs < MaxInputs /\ inputs' = inputs + 1

\* An MQTT variable changed: the handler that setupMqtt() installed runs.
MqttChanged(i, up) ==
  /\ CountInput
  /\ commandQueue' = Append(commandQueue, <<MqttDevice[i], MotorCommand(MqttMotor[i], up)>>)

\* A Blynk pin was written: its handler calls the radio without the queue.
BlynkPinWritten(pin, direction) ==
  /\ CountInput
  /\ IF IsPinCommand(pin, direction)
     THEN sendRemoteControlCommand(PinDevice(pin), PinCommand(pin, direction))
     ELSE UNCHANGED linkVars

\* _coreApplication.task(): at most one callback is modelled per turn.
CoreTask ==
  /\ Proceed("core", "radio")
  /\ \/ /\ \E i \in Shutters, up \in BOOLEAN : MqttChanged(i, up)
        /\ UNCHANGED linkVars
     \/ /\ \E pin \in Pins, direction \in -1 .. 1 : BlynkPinWritten(pin, direction)
        /\ UNCHANGED commandQueue
     \/ UNCHANGED <<commandQueue, linkVars, inputs>>
  /\ UNCHANGED <<lastExec, sinceExec>>

\* _radio.task(): one step of the radio's machine, as far as RadioLink shows it.
RadioTask ==
  /\ Proceed("radio", "web")
  /\ \/ Link!Begin
     \/ flight # << >> /\ Link!GiveUp
     \/ UNCHANGED <<radioQueue, flight>>
  /\ UNCHANGED <<commandQueue, sends, inputs, lastExec, sinceExec>>

\* A request that the web server passes to CommandRequestHandler.
HttpRequest(request) ==
  /\ canHandle(request)
  /\ CountInput
  /\ LET outcome == handle(request)
     IN  IF outcome.calls
         THEN handleWebApiCommand(outcome.command, outcome.index)
         ELSE UNCHANGED <<commandQueue, linkVars>>

\* _webApi.task(): handleClient() serves at most one request.
WebTask ==
  /\ Proceed("web", "queue")
  /\ \/ \E request \in Requests : HttpRequest(request)
     \/ UNCHANGED <<commandQueue, linkVars, inputs>>
  /\ UNCHANGED <<lastExec, sinceExec>>

\* The rest of Smch::task().
RunCommandQueue ==
  /\ Proceed("queue", "core")
  /\ commandQueue # << >> /\ IntervalElapsed
  /\ LET entry == Head(commandQueue)
     IN  sendRemoteControlCommand(entry[1], entry[2])
  /\ commandQueue' = Tail(commandQueue)
  /\ lastExec' = now
  /\ sinceExec' = 0
  /\ UNCHANGED inputs

SkipCommandQueue ==
  /\ Proceed("queue", "core")
  /\ ~ (commandQueue # << >> /\ IntervalElapsed)
  /\ UNCHANGED <<commandQueue, linkVars, inputs, lastExec, sinceExec>>

Loop == CoreTask \/ RadioTask \/ WebTask \/ RunCommandQueue \/ SkipCommandQueue
-----------------------------------------------------------------------------
(* The environment.                                                        *)

\* The message was acknowledged, which the transceiver notices on its own.
Acknowledge ==
  /\ flight # << >>
  /\ Link!GiveUp
  /\ UNCHANGED <<phase, commandQueue, sends, timeVars, inputs, restarts>>

Tick ==
  /\ turn < LongestTurn
  /\ turn' = turn + 1
  /\ now' = (now + 1) % ClockModulus
  /\ sinceExec' = IF sinceExec < Interval THEN sinceExec + 1 ELSE Interval
  /\ UNCHANGED <<phase, commandQueue, linkVars, lastExec, inputs, restarts>>

\* A reset, up to the end of setup(): both queues are lost.
Restart ==
  /\ restarts < MaxRestarts
  /\ restarts' = restarts + 1
  /\ Link!Restart
  /\ phase' = "core"
  /\ commandQueue' = << >>
  /\ lastExec' = 0
  /\ now' = 0
  /\ sinceExec' = 0
  /\ turn' = 0
  /\ UNCHANGED <<sends, inputs>>

Init ==
  /\ Link!Init
  /\ phase = "core"
  /\ commandQueue = << >>
  /\ lastExec = 0
  /\ now = 0
  /\ sinceExec = 0
  /\ turn = 0
  /\ sends = 0
  /\ inputs = 0
  /\ restarts = 0

Next == Loop \/ Acknowledge \/ Tick \/ Restart

Spec == Init /\ [][Next]_vars

-----------------------------------------------------------------------------
(* Properties.                                                             *)

\* Every variable has its type, and the radio's queue keeps to its size.
TypeOK ==
  /\ phase \in Phases
  /\ commandQueue \in Seq((0 .. MaxDeviceIndex) \X Command)
  /\ lastExec \in 0 .. ClockModulus - 1
  /\ now \in 0 .. ClockModulus - 1
  /\ radioQueue \in Seq(Request) /\ Len(radioQueue) <= QueueSize
  /\ flight \in Seq(Request) /\ Len(flight) <= 1
  /\ sinceExec \in 0 .. Interval
  /\ turn \in 0 .. LongestTurn
  /\ sends \in Nat
  /\ inputs \in 0 .. MaxInputs
  /\ restarts \in 0 .. MaxRestarts

\* A device that exists, and a command that means something to it.
Deliverable(m) == m.address \in DeviceAddress /\ m.command # "PROTO_CMD_NOP"

(***************************************************************************)
(* Nothing without an address, or that tells a device nothing, is given to *)
(* the radio.  The empty address would be written as zero bytes, and the   *)
(* message would go to the device addressed before it.  The radio trusts   *)
(* its callers; the HTTP index is checked here, in the other places the    *)
(* index is taken from tables.                                             *)
(***************************************************************************)
OnlyDeliverable ==
  /\ \A i \in DOMAIN radioQueue : Deliverable(radioQueue[i])
  /\ \A i \in DOMAIN flight : Deliverable(flight[i])

\* The i-th waiting command is part of an "all".
IsAll(i) == commandQueue[i][2] \in {"AllUp", "AllDown"}

(***************************************************************************)
(* An "all" that has been admitted runs through: what is left of it stands *)
(* together at the front of the queue, has one direction, and covers every *)
(* remaining device up to the last.  Two of them never mix, whatever       *)
(* requests arrive while the first is being paced out.                     *)
(***************************************************************************)
AllRunsThrough ==
  \A i \in DOMAIN commandQueue : IsAll(i) =>
    /\ \A j \in 1 .. i : IsAll(j) /\ commandQueue[j][2] = commandQueue[i][2]
    /\ commandQueue[i][1] = commandQueue[1][1] + (i - 1)
    /\ commandQueue[i][1] < MaxDeviceIndex =>
         /\ i + 1 \in DOMAIN commandQueue
         /\ IsAll(i + 1)

(***************************************************************************)
(* Until the interval is over, the two readings of millis() tell the true  *)
(* time since the last queued command; afterwards they may tell anything.  *)
(***************************************************************************)
ClockIsTrue ==
  sinceExec < Interval => now = (lastExec + sinceExec) % ClockModulus

\* The invariant that the steps preserve and that the properties follow from.
Inv == TypeOK /\ OnlyDeliverable /\ AllRunsThrough /\ ClockIsTrue

(***************************************************************************)
(* Two queued commands are handed over at least Interval apart, and the    *)
(* first not before Interval after the boot, across a wrap of millis()     *)
(* too; the radio relies on this to keep up with an "all".                 *)
(***************************************************************************)
QueuedCommandsArePaced ==
  [][ lastExec' # lastExec \/ Len(commandQueue') < Len(commandQueue) =>
        sinceExec >= Interval \/ restarts' # restarts ]_vars
=============================================================================
