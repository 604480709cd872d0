------------------------------ MODULE SmchProofs ------------------------------
(***************************************************************************)
(* Proofs about Smch, for every set of requests, every size of the radio's *)
(* queue, every interval and every clock.                                  *)
(***************************************************************************)
EXTENDS Smch, SequenceTheorems, TLAPS

-----------------------------------------------------------------------------
(* A clock that wraps.                                                     *)

\* A reading is followed by that of one unit later.
LEMMA NextReading ==
  ASSUME NEW period \in Nat, NEW t \in 0 .. period - 1, NEW w \in 0 .. period - 1,
         w + 1 < period
  PROVE  (((t + w) % period) + 1) % period = (t + (w + 1)) % period
<1>1. (t + w) % period = IF t + w < period THEN t + w ELSE t + w - period
  OBVIOUS
<1>2. CASE t + w + 1 < period
  BY <1>1, <1>2
<1>3. CASE t + w + 1 = period
  BY <1>1, <1>3
<1>4. CASE t + w + 1 > period
  BY <1>1, <1>4
<1> QED
  BY <1>2, <1>3, <1>4

\* The difference of two readings less than a period apart is the time between them.
LEMMA ElapsedTime ==
  ASSUME NEW period \in Nat, NEW t \in 0 .. period - 1, NEW w \in 0 .. period - 1
  PROVE  (((t + w) % period) - t) % period = w
<1>1. (t + w) % period = IF t + w < period THEN t + w ELSE t + w - period
  OBVIOUS
<1> QED
  BY <1>1
-----------------------------------------------------------------------------
(* What is given to the radio.                                             *)

\* The requests that may be given to the radio.
DeliverableRequest == {m \in Request : Deliverable(m)}

\* Every command for a device that has an address can be delivered.
LEMMA CommandIsDeliverable ==
  ASSUME NEW device \in 0 .. 9, NEW command \in Command
  PROVE  createCommandRequest(command, deviceIndexToAddress(device))
           \in DeliverableRequest
<1>1. deviceIndexToAddress(device) = device /\ device \in DeviceAddress
  BY DEF deviceIndexToAddress, DeviceAddress
<1>2. commandToProtocolCmd(command) # "PROTO_CMD_NOP"
  BY DEF commandToProtocolCmd, Command
<1> QED
  BY <1>1, <1>2 DEF createCommandRequest, DeliverableRequest, Deliverable, Request

\* The tables of the MQTT shutters stay in the range that "all" has.
LEMMA MqttTables ==
  ASSUME NEW i \in Shutters, NEW up \in BOOLEAN
  PROVE  <<MqttDevice[i], MotorCommand(MqttMotor[i], up)>>
           \in (0 .. MaxDeviceIndex) \X (Command \ {"AllUp", "AllDown"})
<1>1. i \in 0 .. 6
  BY ShuttersAssumption
<1>2. MqttDevice[i] \in 0 .. MaxDeviceIndex /\ MqttMotor[i] \in {1, 2}
  BY <1>1 DEF MqttDevice, MqttMotor, MaxDeviceIndex
<1> QED
  BY <1>2 DEF MotorCommand, Command

\* The tables of the Blynk pins are only read at their places.
LEMMA PinTables ==
  ASSUME NEW pin \in Pins, NEW direction \in -1 .. 1, IsPinCommand(pin, direction)
  PROVE  PinDevice(pin) \in 0 .. 9 /\ PinCommand(pin, direction) \in Command
<1>1. pin \in 67 .. 73
  BY PinsAssumption DEF IsPinCommand, Shutter1, Shutter7
<1>2. LutIndex(pin) \in 1 .. 7
  BY <1>1 DEF LutIndex, DeviceIndexLut, Shutter7
<1> QED
  BY <1>2 DEF PinDevice, PinCommand, DeviceIndexLut, UpCommandLut, DownCommandLut,
     Command

\* A request that leads to a call has a command and a number.
LEMMA RequestCalls ==
  ASSUME NEW request \in Requests, handle(request).calls
  PROVE  /\ handle(request).command \in {"ShutterUp", "ShutterDown"}
         /\ handle(request).index \in Nat
<1> DEFINE target == request.target
<1>1. target \in Target
  BY RequestsAssumption DEF WebRequest
<1>2. ~ NotHandled.calls
  BY DEF NotHandled
<1>3. \E command \in {"ShutterUp", "ShutterDown"} :
        handle(request) = handleCommand(command, target)
  BY <1>2, Zenon DEF handle, onIncomingCommandRequest
<1>4. PICK command \in {"ShutterUp", "ShutterDown"} :
        handle(request) = handleCommand(command, target)
  BY <1>3
<1>5. handleCommand(command, target).calls
  BY <1>4
<1> HIDE DEF target
<1>6. CASE target.kind = "all"
  <2>1. handleCommand(command, target) = Handled(command, AllDevices)
    BY <1>6 DEF handleCommand
  <2> QED
    BY <1>4, <2>1 DEF Handled, AllDevices
<1>7. CASE target.kind # "all" /\ target.kind = "digits" /\ target.length \in 1 .. 2
  <2>1. handleCommand(command, target) = Handled(command, target.value)
    BY <1>7 DEF handleCommand
  <2>2. target.value \in Nat
    BY <1>1, <1>7 DEF Target
  <2> QED
    BY <1>4, <2>1, <2>2 DEF Handled
<1>8. CASE target.kind # "all" /\ ~ (target.kind = "digits" /\ target.length \in 1 .. 2)
  <2>1. handleCommand(command, target) = NotHandled
    BY <1>8 DEF handleCommand
  <2> QED
    BY <1>2, <1>5, <2>1
<1> QED
  BY <1>6, <1>7, <1>8

\* A single motor's number is that of a device that has an address.
LEMMA MotorIndex ==
  ASSUME NEW index \in Nat, IsMotorIndex(index)
  PROVE  index \div 2 \in 0 .. 9
BY DEF IsMotorIndex

\* What a call of sendMessage() does to the radio's queue.
LEMMA QueueAfterCall ==
  ASSUME NEW device \in 0 .. 9, NEW command \in Command,
         radioQueue \in Seq(Request), Len(radioQueue) <= QueueSize,
         \A i \in DOMAIN radioQueue : Deliverable(radioQueue[i]),
         sendRemoteControlCommand(device, command)
  PROVE  /\ radioQueue' \in Seq(Request) /\ Len(radioQueue') <= QueueSize
         /\ \A i \in DOMAIN radioQueue' : Deliverable(radioQueue'[i])
         /\ flight' = flight /\ sends' = sends + 1
         /\ \E m \in Request : Link!Accept(m)
<1> DEFINE m == createCommandRequest(command, deviceIndexToAddress(device))
<1>1. m \in Request /\ Deliverable(m)
  BY CommandIsDeliverable DEF DeliverableRequest
<1>2. Link!Accept(m) /\ sends' = sends + 1
  BY DEF sendRemoteControlCommand
<1> HIDE DEF m
<1> QED
  BY <1>1, <1>2, BoundsAssumption DEF Link!Accept
-----------------------------------------------------------------------------
(* What happens to the commands that wait.                                 *)

Entry == (0 .. MaxDeviceIndex) \X Command

\* A command for a single motor, behind the others, does not disturb an "all".
LEMMA MotorAppended ==
  ASSUME commandQueue \in Seq(Entry), AllRunsThrough,
         NEW entry \in (0 .. MaxDeviceIndex) \X (Command \ {"AllUp", "AllDown"}),
         commandQueue' = Append(commandQueue, entry)
  PROVE  commandQueue' \in Seq(Entry) /\ AllRunsThrough'
<1>1. entry \in Entry /\ entry[2] \notin {"AllUp", "AllDown"}
  BY DEF Entry
<1>2. /\ commandQueue' \in Seq(Entry)
      /\ DOMAIN commandQueue' = 1 .. Len(commandQueue) + 1
      /\ DOMAIN commandQueue = 1 .. Len(commandQueue)
      /\ Len(commandQueue) \in Nat
      /\ \A i \in DOMAIN commandQueue : commandQueue'[i] = commandQueue[i]
      /\ commandQueue'[Len(commandQueue) + 1] = entry
  BY <1>1
<1> SUFFICES ASSUME NEW i \in DOMAIN commandQueue', IsAll(i)'
             PROVE  /\ \A j \in 1 .. i :
                         IsAll(j)' /\ commandQueue'[j][2] = commandQueue'[i][2]
                    /\ commandQueue'[i][1] = commandQueue'[1][1] + (i - 1)
                    /\ commandQueue'[i][1] < MaxDeviceIndex =>
                         i + 1 \in DOMAIN commandQueue' /\ IsAll(i + 1)'
  BY <1>2 DEF AllRunsThrough
<1>3. i \in DOMAIN commandQueue /\ IsAll(i)
  BY <1>1, <1>2 DEF IsAll
<1>4. /\ \A j \in 1 .. i : IsAll(j) /\ commandQueue[j][2] = commandQueue[i][2]
      /\ commandQueue[i][1] = commandQueue[1][1] + (i - 1)
      /\ commandQueue[i][1] < MaxDeviceIndex => i + 1 \in DOMAIN commandQueue /\ IsAll(i + 1)
  BY <1>3 DEF AllRunsThrough
<1> QED
  BY <1>2, <1>3, <1>4 DEF IsAll

\* An admitted "all" covers every device, once and in one direction.
LEMMA AllAppended ==
  ASSUME commandQueue = << >>, NEW command \in {"ShutterUp", "ShutterDown"},
         commandQueue' = commandQueue \o AllEntries(command)
  PROVE  commandQueue' \in Seq(Entry) /\ AllRunsThrough'
<1> DEFINE direction == IF command = "ShutterUp" THEN "AllUp" ELSE "AllDown"
<1>1. /\ AllEntries(command) = [i \in 1 .. 5 |-> <<i - 1, direction>>]
      /\ MaxDeviceIndex = 4
  BY DEF AllEntries, MaxDeviceIndex
<1>2. direction \in {"AllUp", "AllDown"}
  OBVIOUS
<1> HIDE DEF direction
<1>3. AllEntries(command) \in Seq(Entry)
  BY <1>1, <1>2 DEF Entry, Command
<1>4. commandQueue' = AllEntries(command)
  BY <1>3, ConcatEmptySeq
<1>5. /\ DOMAIN commandQueue' = 1 .. 5
      /\ \A i \in 1 .. 5 : commandQueue'[i][1] = i - 1 /\ commandQueue'[i][2] = direction
  BY <1>1, <1>4
<1> QED
  BY <1>1, <1>2, <1>3, <1>4, <1>5 DEF AllRunsThrough, IsAll

\* What is left of an "all" when its first command is taken is still one.
LEMMA FirstTaken ==
  ASSUME commandQueue \in Seq(Entry), AllRunsThrough, commandQueue # << >>,
         commandQueue' = Tail(commandQueue)
  PROVE  commandQueue' \in Seq(Entry) /\ AllRunsThrough'
<1>1. /\ commandQueue' \in Seq(Entry)
      /\ Len(commandQueue) \in Nat
      /\ DOMAIN commandQueue = 1 .. Len(commandQueue)
      /\ DOMAIN commandQueue' = 1 .. Len(commandQueue) - 1
      /\ \A i \in DOMAIN commandQueue' : commandQueue'[i] = commandQueue[i + 1]
  BY HeadTailProperties
<1>2. \A i \in DOMAIN commandQueue : commandQueue[i][1] \in 0 .. MaxDeviceIndex
  BY DEF Entry
<1> SUFFICES ASSUME NEW i \in DOMAIN commandQueue', IsAll(i)'
             PROVE  /\ \A j \in 1 .. i :
                         IsAll(j)' /\ commandQueue'[j][2] = commandQueue'[i][2]
                    /\ commandQueue'[i][1] = commandQueue'[1][1] + (i - 1)
                    /\ commandQueue'[i][1] < MaxDeviceIndex =>
                         i + 1 \in DOMAIN commandQueue' /\ IsAll(i + 1)'
  BY <1>1 DEF AllRunsThrough
<1>3. i + 1 \in DOMAIN commandQueue /\ IsAll(i + 1)
  BY <1>1 DEF IsAll
<1>4. /\ \A j \in 1 .. i + 1 :
           IsAll(j) /\ commandQueue[j][2] = commandQueue[i + 1][2]
      /\ commandQueue[i + 1][1] = commandQueue[1][1] + i
      /\ commandQueue[i + 1][1] < MaxDeviceIndex =>
           i + 2 \in DOMAIN commandQueue /\ IsAll(i + 2)
  BY <1>1, <1>3 DEF AllRunsThrough
<1>5. 2 \in DOMAIN commandQueue /\ IsAll(2) /\ 1 \in DOMAIN commandQueue'
  BY <1>1, <1>4
<1>6. commandQueue[2][1] = commandQueue[1][1] + 1
  BY <1>5, <1>1 DEF AllRunsThrough
<1>7. \A j \in 1 .. i : IsAll(j)' /\ commandQueue'[j][2] = commandQueue'[i][2]
  <2> SUFFICES ASSUME NEW j \in 1 .. i
               PROVE  IsAll(j)' /\ commandQueue'[j][2] = commandQueue'[i][2]
    OBVIOUS
  <2>1. j \in DOMAIN commandQueue' /\ j + 1 \in 1 .. i + 1
    BY <1>1
  <2>2. commandQueue'[j] = commandQueue[j + 1] /\ commandQueue'[i] = commandQueue[i + 1]
    BY <1>1, <2>1
  <2>3. IsAll(j + 1) /\ commandQueue[j + 1][2] = commandQueue[i + 1][2]
    BY <1>4, <2>1
  <2> QED
    BY <2>2, <2>3 DEF IsAll
<1>8. commandQueue'[i][1] = commandQueue'[1][1] + (i - 1)
  BY <1>1, <1>2, <1>3, <1>4, <1>5, <1>6 DEF MaxDeviceIndex
<1>9. commandQueue'[i][1] < MaxDeviceIndex =>
        i + 1 \in DOMAIN commandQueue' /\ IsAll(i + 1)'
  <2> SUFFICES ASSUME commandQueue[i + 1][1] < MaxDeviceIndex
               PROVE  i + 1 \in DOMAIN commandQueue' /\ IsAll(i + 1)'
    BY <1>1
  <2>1. i + 1 \in DOMAIN commandQueue'
    BY <1>1, <1>4
  <2>2. commandQueue'[i + 1] = commandQueue[i + 2]
    BY <1>1, <2>1
  <2> QED
    BY <1>4, <2>1, <2>2 DEF IsAll
<1> QED
  BY <1>7, <1>8, <1>9
-----------------------------------------------------------------------------
(* The invariant, by the part of the state that a step can disturb.        *)

RadioInv ==
  /\ radioQueue \in Seq(Request) /\ Len(radioQueue) <= QueueSize
  /\ flight \in Seq(Request) /\ Len(flight) <= 1
  /\ OnlyDeliverable
  /\ sends \in Nat

QueueInv == commandQueue \in Seq(Entry) /\ AllRunsThrough

TimeInv ==
  /\ lastExec \in 0 .. ClockModulus - 1
  /\ now \in 0 .. ClockModulus - 1
  /\ sinceExec \in 0 .. Interval
  /\ turn \in 0 .. LongestTurn
  /\ ClockIsTrue

ControlInv ==
  phase \in Phases /\ inputs \in 0 .. MaxInputs /\ restarts \in 0 .. MaxRestarts

LEMMA InvByParts ==
  /\ Inv <=> RadioInv /\ QueueInv /\ TimeInv /\ ControlInv
  /\ Inv' <=> RadioInv' /\ QueueInv' /\ TimeInv' /\ ControlInv'
<1> USE DEF Inv, TypeOK, RadioInv, QueueInv, TimeInv, ControlInv, Entry
<1>1. Inv <=> RadioInv /\ QueueInv /\ TimeInv /\ ControlInv
  OBVIOUS
<1>2. Inv' <=> RadioInv' /\ QueueInv' /\ TimeInv' /\ ControlInv'
  OBVIOUS
<1> QED
  BY <1>1, <1>2

LEMMA InvInit == Init => Inv
<1> SUFFICES ASSUME Init PROVE Inv
  OBVIOUS
<1>1. RadioInv
  BY BoundsAssumption DEF Init, Link!Init, RadioInv, OnlyDeliverable
<1>2. QueueInv
  BY DEF Init, QueueInv, AllRunsThrough
<1>3. TimeInv
  BY TimeAssumption DEF Init, TimeInv, ClockIsTrue
<1>4. ControlInv
  BY BoundsAssumption DEF Init, ControlInv, Phases
<1> QED
  BY <1>1, <1>2, <1>3, <1>4, InvByParts

\* A step that leaves a part of the state alone leaves its invariant alone.
LEMMA Undisturbed ==
  /\ RadioInv /\ UNCHANGED linkVars => RadioInv'
  /\ QueueInv /\ UNCHANGED commandQueue => QueueInv'
  /\ TimeInv /\ UNCHANGED timeVars => TimeInv'
<1>1. RadioInv /\ UNCHANGED linkVars => RadioInv'
  BY DEF RadioInv, linkVars, OnlyDeliverable
<1>2. QueueInv /\ UNCHANGED commandQueue => QueueInv'
  BY DEF QueueInv, AllRunsThrough, IsAll
<1>3. TimeInv /\ UNCHANGED timeVars => TimeInv'
  BY DEF TimeInv, timeVars, ClockIsTrue
<1> QED
  BY <1>1, <1>2, <1>3

\* The loop's own bookkeeping.
LEMMA ProceedKeeps ==
  ASSUME Inv, NEW from, NEW to \in Phases, Proceed(from, to),
         inputs' = inputs \/ CountInput
  PROVE  /\ ControlInv'
         /\ UNCHANGED <<lastExec, sinceExec>> => TimeInv'
<1>1. ControlInv'
  BY InvByParts, BoundsAssumption DEF ControlInv, Proceed, CountInput
<1>2. TimeInv /\ turn' \in 0 .. LongestTurn /\ now' = now
  BY InvByParts, TimeAssumption DEF TimeInv, Proceed
<1> QED
  BY <1>1, <1>2 DEF TimeInv, ClockIsTrue

\* A call of sendMessage() keeps the radio's part.
LEMMA CallKeeps ==
  ASSUME RadioInv, NEW device \in 0 .. 9, NEW command \in Command,
         sendRemoteControlCommand(device, command)
  PROVE  RadioInv'
<1>1. /\ radioQueue' \in Seq(Request) /\ Len(radioQueue') <= QueueSize
      /\ \A i \in DOMAIN radioQueue' : Deliverable(radioQueue'[i])
      /\ flight' = flight /\ sends' = sends + 1
  BY QueueAfterCall DEF RadioInv, OnlyDeliverable
<1> QED
  BY <1>1 DEF RadioInv, OnlyDeliverable

LEMMA InvCoreTask == Inv /\ CoreTask => Inv'
<1> SUFFICES ASSUME Inv, CoreTask PROVE Inv'
  OBVIOUS
<1>1. RadioInv /\ QueueInv
  BY InvByParts
<1>2. ControlInv' /\ TimeInv'
  <2>1. inputs' = inputs \/ CountInput
    BY DEF CoreTask, MqttChanged, BlynkPinWritten
  <2>2. Proceed("core", "radio") /\ UNCHANGED <<lastExec, sinceExec>>
    BY DEF CoreTask
  <2> QED
    BY <2>1, <2>2, ProceedKeeps DEF Phases
<1>3. ASSUME NEW i \in Shutters, NEW up \in BOOLEAN, MqttChanged(i, up),
             UNCHANGED linkVars
      PROVE  RadioInv' /\ QueueInv'
  <2>1. QueueInv'
    BY <1>1, <1>3, MqttTables, MotorAppended DEF MqttChanged, QueueInv
  <2> QED
    BY <1>1, <1>3, <2>1, Undisturbed
<1>4. ASSUME NEW pin \in Pins, NEW direction \in -1 .. 1,
             BlynkPinWritten(pin, direction), UNCHANGED commandQueue
      PROVE  RadioInv' /\ QueueInv'
  <2>1. CASE IsPinCommand(pin, direction)
    <3>1. RadioInv'
      BY <1>1, <1>4, <2>1, PinTables, CallKeeps DEF BlynkPinWritten
    <3> QED
      BY <1>1, <1>4, <3>1, Undisturbed
  <2>2. CASE ~ IsPinCommand(pin, direction)
    BY <1>1, <1>4, <2>2, Undisturbed DEF BlynkPinWritten
  <2> QED
    BY <2>1, <2>2
<1>5. ASSUME UNCHANGED <<commandQueue, linkVars, inputs>>
      PROVE  RadioInv' /\ QueueInv'
  BY <1>1, <1>5, Undisturbed
<1>6. RadioInv' /\ QueueInv'
  BY <1>3, <1>4, <1>5 DEF CoreTask
<1> QED
  BY <1>2, <1>6, InvByParts

LEMMA InvRadioTask == Inv /\ RadioTask => Inv'
<1> SUFFICES ASSUME Inv, RadioTask PROVE Inv'
  OBVIOUS
<1>1. RadioInv /\ QueueInv
  BY InvByParts
<1>2. ControlInv' /\ TimeInv' /\ QueueInv'
  BY <1>1, ProceedKeeps, Undisturbed DEF RadioTask, Phases
<1>3. CASE Link!Begin
  <2>1. radioQueue # << >> /\ radioQueue' = Tail(radioQueue)
        /\ flight' = <<Head(radioQueue)>> /\ sends' = sends
    BY <1>3 DEF Link!Begin, RadioTask
  <2>2. /\ Head(radioQueue) \in Request /\ Deliverable(Head(radioQueue))
        /\ radioQueue' \in Seq(Request) /\ Len(radioQueue') <= QueueSize
        /\ \A i \in DOMAIN radioQueue' : Deliverable(radioQueue'[i])
    BY <1>1, <2>1, HeadTailProperties, BoundsAssumption DEF RadioInv, OnlyDeliverable
  <2> QED
    BY <1>1, <1>2, <2>1, <2>2, InvByParts DEF RadioInv, OnlyDeliverable
<1>4. CASE Link!GiveUp \/ UNCHANGED <<radioQueue, flight>>
  <2>1. (flight' = << >> \/ flight' = flight)
        /\ radioQueue' = radioQueue /\ sends' = sends
    BY <1>4 DEF Link!GiveUp, RadioTask
  <2>2. /\ flight' \in Seq(Request) /\ Len(flight') <= 1
        /\ \A i \in DOMAIN flight' : Deliverable(flight'[i])
    <3>1. CASE flight' = << >>
      BY <3>1
    <3>2. CASE flight' = flight
      BY <1>1, <3>2 DEF RadioInv, OnlyDeliverable
    <3> QED
      BY <2>1, <3>1, <3>2
  <2>3. RadioInv'
    BY <1>1, <2>1, <2>2 DEF RadioInv, OnlyDeliverable
  <2> QED
    BY <1>2, <2>3, InvByParts
<1> QED
  BY <1>3, <1>4 DEF RadioTask

LEMMA InvWebTask == Inv /\ WebTask => Inv'
<1> SUFFICES ASSUME Inv, WebTask PROVE Inv'
  OBVIOUS
<1>1. RadioInv /\ QueueInv
  BY InvByParts
<1>2. ControlInv' /\ TimeInv'
  <2>1. inputs' = inputs \/ CountInput
    BY DEF WebTask, HttpRequest
  <2>2. Proceed("web", "queue") /\ UNCHANGED <<lastExec, sinceExec>>
    BY DEF WebTask
  <2> QED
    BY <2>1, <2>2, ProceedKeeps DEF Phases
<1>3. ASSUME UNCHANGED <<commandQueue, linkVars>>
      PROVE  RadioInv' /\ QueueInv'
  BY <1>1, <1>3, Undisturbed
<1>4. ASSUME NEW command \in {"ShutterUp", "ShutterDown"}, NEW index \in Nat,
             handleWebApiCommand(command, index)
      PROVE  RadioInv' /\ QueueInv'
  <2>1. CASE commandQueue = << >> /\ commandQueue' = commandQueue \o AllEntries(command)
             /\ UNCHANGED linkVars
    BY <1>1, <2>1, AllAppended, Undisturbed DEF QueueInv
  <2>2. CASE /\ IsMotorIndex(index)
             /\ sendRemoteControlCommand(
                  index \div 2,
                  MotorCommand(IF index % 2 = 1 THEN 2 ELSE 1, command = "ShutterUp"))
             /\ UNCHANGED commandQueue
    <3>1. MotorCommand(IF index % 2 = 1 THEN 2 ELSE 1, command = "ShutterUp") \in Command
      BY DEF MotorCommand, Command
    <3>2. RadioInv'
      BY <1>1, <2>2, <3>1, MotorIndex, CallKeeps
    <3> QED
      BY <1>1, <2>2, <3>2, Undisturbed
  <2> QED
    BY <1>3, <1>4, <2>1, <2>2 DEF handleWebApiCommand, AllAdmitted
<1>5. ASSUME NEW request \in Requests, HttpRequest(request)
      PROVE  RadioInv' /\ QueueInv'
  BY <1>3, <1>4, <1>5, RequestCalls DEF HttpRequest
<1>6. RadioInv' /\ QueueInv'
  BY <1>3, <1>5 DEF WebTask
<1> QED
  BY <1>2, <1>6, InvByParts

\* The first waiting command is one that can be delivered.
LEMMA HeadOfQueue ==
  ASSUME QueueInv, commandQueue # << >>
  PROVE  Head(commandQueue)[1] \in 0 .. 9 /\ Head(commandQueue)[2] \in Command
BY HeadTailProperties DEF QueueInv, Entry, MaxDeviceIndex

LEMMA InvQueueTask == Inv /\ (RunCommandQueue \/ SkipCommandQueue) => Inv'
<1> SUFFICES ASSUME Inv, RunCommandQueue \/ SkipCommandQueue PROVE Inv'
  OBVIOUS
<1>1. RadioInv /\ QueueInv /\ TimeInv
  BY InvByParts
<1>2. ControlInv' /\ (UNCHANGED <<lastExec, sinceExec>> => TimeInv')
  BY ProceedKeeps DEF RunCommandQueue, SkipCommandQueue, Phases
<1>3. CASE RunCommandQueue
  <2>1. RadioInv'
    BY <1>1, <1>3, HeadOfQueue, CallKeeps DEF RunCommandQueue
  <2>2. QueueInv'
    BY <1>1, <1>3, FirstTaken DEF RunCommandQueue, QueueInv
  <2>3. TimeInv'
    <3>1. /\ lastExec' = now /\ sinceExec' = 0 /\ now' = now
          /\ turn' \in 0 .. LongestTurn
      BY <1>1, <1>3, TimeAssumption DEF RunCommandQueue, Proceed, TimeInv
    <3>2. now = (now + 0) % ClockModulus
      BY <1>1, TimeAssumption DEF TimeInv
    <3> QED
      BY <1>1, <3>1, <3>2, TimeAssumption DEF TimeInv, ClockIsTrue
  <2> QED
    BY <1>2, <2>1, <2>2, <2>3, InvByParts
<1>4. CASE SkipCommandQueue
  BY <1>1, <1>2, <1>4, Undisturbed, InvByParts DEF SkipCommandQueue
<1> QED
  BY <1>3, <1>4

LEMMA InvEnvironment == Inv /\ (Acknowledge \/ Tick \/ Restart) => Inv'
<1> SUFFICES ASSUME Inv, Acknowledge \/ Tick \/ Restart PROVE Inv'
  OBVIOUS
<1>1. RadioInv /\ QueueInv /\ TimeInv /\ ControlInv
  BY InvByParts
<1>2. CASE Acknowledge
  <2>1. flight' = << >> /\ radioQueue' = radioQueue /\ sends' = sends
    BY <1>2 DEF Acknowledge, Link!GiveUp
  <2>2. RadioInv'
    BY <1>1, <2>1 DEF RadioInv, OnlyDeliverable
  <2>3. ControlInv'
    BY <1>1, <1>2 DEF Acknowledge, ControlInv
  <2> QED
    BY <1>1, <1>2, <2>2, <2>3, Undisturbed, InvByParts DEF Acknowledge
<1>3. CASE Tick
  <2>1. RadioInv' /\ QueueInv' /\ ControlInv'
    BY <1>1, <1>3, Undisturbed DEF Tick, ControlInv
  <2>2. turn' \in 0 .. LongestTurn /\ sinceExec' \in 0 .. Interval
        /\ now' \in 0 .. ClockModulus - 1 /\ lastExec' = lastExec
    BY <1>1, <1>3, TimeAssumption DEF Tick, TimeInv
  <2>3. ASSUME sinceExec' < Interval
        PROVE  now' = (lastExec + sinceExec') % ClockModulus
    <3>1. sinceExec < Interval /\ sinceExec' = sinceExec + 1
          /\ now' = (now + 1) % ClockModulus
      BY <1>1, <1>3, <2>3, TimeAssumption DEF Tick, TimeInv
    <3>2. now = (lastExec + sinceExec) % ClockModulus
      BY <1>1, <3>1 DEF TimeInv, ClockIsTrue
    <3>3. /\ lastExec \in 0 .. ClockModulus - 1
          /\ sinceExec \in 0 .. ClockModulus - 1 /\ sinceExec + 1 < ClockModulus
      BY <1>1, <3>1, TimeAssumption DEF TimeInv
    <3> QED
      BY <3>1, <3>2, <3>3, NextReading, TimeAssumption
  <2>4. TimeInv'
    BY <1>1, <2>2, <2>3 DEF TimeInv, ClockIsTrue
  <2> QED
    BY <2>1, <2>4, InvByParts
<1>4. CASE Restart
  <2>1. RadioInv'
    <3>1. radioQueue' = << >> /\ sends' = sends
          /\ flight' \in {flight, << >>} \cup {<<m>> : m \in Link!HeadOf(radioQueue)}
      BY <1>4 DEF Restart, Link!Restart
    <3>2. \A m \in Link!HeadOf(radioQueue) : m \in Request /\ Deliverable(m)
      BY <1>1 DEF Link!HeadOf, RadioInv, OnlyDeliverable
    <3>3. /\ flight' \in Seq(Request) /\ Len(flight') <= 1
          /\ \A i \in DOMAIN flight' : Deliverable(flight'[i])
      <4>1. CASE flight' = flight
        BY <1>1, <4>1 DEF RadioInv, OnlyDeliverable
      <4>2. CASE flight' = << >>
        BY <4>2
      <4>3. ASSUME NEW m \in Link!HeadOf(radioQueue), flight' = <<m>>
            PROVE  /\ flight' \in Seq(Request) /\ Len(flight') <= 1
                   /\ \A i \in DOMAIN flight' : Deliverable(flight'[i])
        BY <3>2, <4>3
      <4> QED
        BY <3>1, <4>1, <4>2, <4>3
    <3> QED
      BY <1>1, <3>1, <3>3, BoundsAssumption DEF RadioInv, OnlyDeliverable
  <2>2. QueueInv'
    BY <1>4 DEF Restart, QueueInv, AllRunsThrough
  <2>3. TimeInv'
    BY <1>4, TimeAssumption DEF Restart, TimeInv, ClockIsTrue
  <2>4. ControlInv'
    BY <1>1, <1>4, BoundsAssumption DEF Restart, ControlInv, Phases
  <2> QED
    BY <2>1, <2>2, <2>3, <2>4, InvByParts
<1> QED
  BY <1>2, <1>3, <1>4
-----------------------------------------------------------------------------
(* The theorems.                                                           *)

\* The inductive invariant: types, deliverable messages, whole "all"s, a true clock.
THEOREM InvHolds == Spec => []Inv
<1>1. Init => Inv
  BY InvInit
<1>2. Inv /\ [Next]_vars => Inv'
  <2>1. ASSUME Inv, Next PROVE Inv'
    BY <2>1, InvCoreTask, InvRadioTask, InvWebTask, InvQueueTask, InvEnvironment
       DEF Next, Loop
  <2>2. ASSUME Inv, UNCHANGED vars PROVE Inv'
    BY <2>2, InvByParts, Undisturbed DEF vars, ControlInv
  <2> QED
    BY <2>1, <2>2
<1> QED
  BY <1>1, <1>2, PTL DEF Spec

(***************************************************************************)
(* Whatever is requested by HTTP, MQTT or Blynk, the radio is only given   *)
(* messages with the address of a device and a command that means          *)
(* something.                                                              *)
(***************************************************************************)
THEOREM AlwaysDeliverable == Spec => []OnlyDeliverable
<1>1. Inv => OnlyDeliverable
  BY DEF Inv
<1> QED
  BY <1>1, InvHolds, PTL

\* An admitted "all" covers every device in one direction, and two never mix.
THEOREM AllAlwaysRunsThrough == Spec => []AllRunsThrough
<1>1. Inv => AllRunsThrough
  BY DEF Inv
<1> QED
  BY <1>1, InvHolds, PTL

(***************************************************************************)
(* Queued commands are Interval apart in true time, whatever the clock     *)
(* reads when the first of them is handed over.                            *)
(***************************************************************************)
THEOREM AlwaysPaced == Spec => QueuedCommandsArePaced
<1> DEFINE A == lastExec' # lastExec \/ Len(commandQueue') < Len(commandQueue) =>
                  sinceExec >= Interval \/ restarts' # restarts
<1>1. Inv /\ [Next]_vars => [A]_vars
  <2> SUFFICES ASSUME Inv, Next, restarts' = restarts,
                      lastExec' # lastExec \/ Len(commandQueue') < Len(commandQueue)
               PROVE  sinceExec >= Interval
    OBVIOUS
  <2>1. commandQueue \in Seq(Entry) /\ Len(commandQueue) \in Nat
        /\ TimeInv /\ restarts \in Nat
    BY InvByParts, BoundsAssumption DEF QueueInv, ControlInv
  <2>2. ~ Restart
    BY <2>1 DEF Restart
  <2>3. ASSUME NEW s \in Seq(Entry), commandQueue' = commandQueue \o s
        PROVE  Len(commandQueue') >= Len(commandQueue)
    BY <2>1, <2>3
  <2>4. ~ (RadioTask \/ SkipCommandQueue \/ Acknowledge \/ Tick)
    BY <2>1 DEF RadioTask, SkipCommandQueue, Acknowledge, Tick, timeVars
  <2>5. ~ CoreTask
    <3> SUFFICES ASSUME CoreTask PROVE Len(commandQueue') >= Len(commandQueue)
      BY <2>1 DEF CoreTask
    <3>1. ASSUME NEW i \in Shutters, NEW up \in BOOLEAN, MqttChanged(i, up)
          PROVE  Len(commandQueue') >= Len(commandQueue)
      BY <2>1, <3>1 DEF MqttChanged
    <3> QED
      BY <2>1, <3>1 DEF CoreTask
  <2>6. ~ WebTask
    <3> SUFFICES ASSUME WebTask PROVE Len(commandQueue') >= Len(commandQueue)
      BY <2>1 DEF WebTask
    <3>1. ASSUME NEW command, commandQueue' = commandQueue \o AllEntries(command)
          PROVE  Len(commandQueue') >= Len(commandQueue)
      BY <2>1, <3>1 DEF AllEntries, MaxDeviceIndex
    <3> QED
      BY <2>1, <3>1 DEF WebTask, HttpRequest, handleWebApiCommand
  <2>7. RunCommandQueue
    BY <2>2, <2>4, <2>5, <2>6 DEF Next, Loop
  <2> SUFFICES ASSUME sinceExec < Interval PROVE FALSE
    BY <2>1, TimeAssumption DEF TimeInv
  <2>8. now = (lastExec + sinceExec) % ClockModulus
    BY <2>1 DEF TimeInv, ClockIsTrue
  <2>9. (now - lastExec) % ClockModulus = sinceExec
    <3>1. lastExec \in 0 .. ClockModulus - 1 /\ sinceExec \in 0 .. ClockModulus - 1
      BY <2>1, TimeAssumption DEF TimeInv
    <3> QED
      BY <2>8, <3>1, ElapsedTime, TimeAssumption
  <2> QED
    BY <2>1, <2>7, <2>9, TimeAssumption DEF RunCommandQueue, IntervalElapsed, TimeInv
<1> QED
  BY <1>1, InvHolds, PTL DEF Spec, QueuedCommandsArePaced
=============================================================================
