--------------------------- MODULE SmchRadioProofs ---------------------------
(***************************************************************************)
(* Proofs about SmchRadio: the controller and the radio, each of which was *)
(* looked at with an abstraction of the other, fit together, for every     *)
(* timeout, every length of a turn and every clock that is long enough.    *)
(***************************************************************************)
EXTENDS SmchRadio, SequenceTheorems, TLAPS

Entry == (0 .. Hub!MaxDeviceIndex) \X Command

-----------------------------------------------------------------------------
(* A clock that wraps.                                                     *)

\* A reading is followed by that of one unit later.
LEMMA NextReading ==
  ASSUME NEW period \in Nat, NEW t \in 0 .. period - 1, NEW w \in 0 .. period - 1,
         w + 1 < period
  PROVE  (((t + w) % period) + 1) % period = (t + (w + 1)) % period
<1>1. (t + w) % period = IF t + w < period THEN t + w ELSE t + w - period
  OBVIOUS
<1>2. CASE t + w + 1 < period
  BY <1>1, <1>2
<1>3. CASE t + w + 1 = period
  BY <1>1, <1>3
<1>4. CASE t + w + 1 > period
  BY <1>1, <1>4
<1> QED
  BY <1>2, <1>3, <1>4

\* The difference of two readings less than a period apart is the time between them.
LEMMA ElapsedTime ==
  ASSUME NEW period \in Nat, NEW t \in 0 .. period - 1, NEW w \in 0 .. period - 1
  PROVE  (((t + w) % period) - t) % period = w
<1>1. (t + w) % period = IF t + w < period THEN t + w ELSE t + w - period
  OBVIOUS
<1> QED
  BY <1>1
-----------------------------------------------------------------------------
(* What a message is to the two components.                                *)

\* A message without its number is a request.
LEMMA RequestOfMessage ==
  ASSUME NEW m \in Message
  PROVE  [address |-> m.address, command |-> m.command] \in Request
<1>1. PICK call \in Calls, n \in 1 .. MaxMessages : m = Numbered(call, n)
  BY DEF Message
<1>2. call \in Request
  BY CallsAssumption
<1>3. m.address = call.address /\ m.command = call.command
  BY <1>1 DEF Numbered
<1> QED
  BY <1>2, <1>3 DEF Request

\* Leaving the numbers out does not change the shape of a queue.
LEMMA RequestedShape ==
  ASSUME NEW s \in Seq(Message)
  PROVE  /\ Requested(s) \in Seq(Request) /\ Len(Requested(s)) = Len(s)
         /\ \A i \in 1 .. Len(s) :
              Requested(s)[i] = [address |-> s[i].address, command |-> s[i].command]
<1>1. DOMAIN s = 1 .. Len(s) /\ Len(s) \in Nat
      /\ \A i \in 1 .. Len(s) : s[i] \in Message
  OBVIOUS
<1>2. \A i \in 1 .. Len(s) :
        [address |-> s[i].address, command |-> s[i].command] \in Request
  BY <1>1, RequestOfMessage
<1>3. Requested(s) = [i \in 1 .. Len(s) |->
                       [address |-> s[i].address, command |-> s[i].command]]
  BY <1>1 DEF Requested
<1> QED
  BY <1>1, <1>2, <1>3

\* Nor what the radio does with its queue.
LEMMA RequestedSteps ==
  ASSUME NEW s \in Seq(Message)
  PROVE  /\ Requested(<< >>) = << >>
         /\ Requested(s) = << >> <=> s = << >>
         /\ s # << >> => /\ Requested(Tail(s)) = Tail(Requested(s))
                         /\ Requested(<<Head(s)>>) = <<Head(Requested(s))>>
<1>1. \A t \in Seq(Message) :
        /\ Requested(t) \in Seq(Request) /\ Len(Requested(t)) = Len(t)
        /\ \A i \in 1 .. Len(t) :
             Requested(t)[i] = [address |-> t[i].address, command |-> t[i].command]
  BY RequestedShape
<1>2. << >> \in Seq(Message) /\ Len(<< >>) = 0
  OBVIOUS
<1>3. Requested(<< >>) \in Seq(Request) /\ Len(Requested(<< >>)) = 0
  BY <1>1, <1>2
<1>4. Requested(<< >>) = << >>
  BY <1>3, EmptySeq
<1>5. Requested(s) = << >> <=> s = << >>
  BY <1>1, EmptySeq
<1>6. ASSUME s # << >>
      PROVE  Requested(Tail(s)) = Tail(Requested(s))
  <2> DEFINE r == Requested(s)
             t == Requested(Tail(s))
  <2>1. /\ Tail(s) \in Seq(Message) /\ Len(s) \in Nat \ {0}
        /\ Len(Tail(s)) = Len(s) - 1
        /\ \A i \in 1 .. Len(s) - 1 : Tail(s)[i] = s[i + 1]
    BY <1>6, HeadTailProperties
  <2>2. r \in Seq(Request) /\ Len(r) = Len(s) /\ r # << >>
    BY <1>1, <1>5, <1>6
  <2>3. /\ Tail(r) \in Seq(Request) /\ Len(Tail(r)) = Len(s) - 1
        /\ \A i \in 1 .. Len(s) - 1 : Tail(r)[i] = r[i + 1]
    BY <2>2, HeadTailProperties
  <2>4. t \in Seq(Request) /\ Len(t) = Len(s) - 1
    BY <1>1, <2>1
  <2>5. ASSUME NEW i \in 1 .. Len(s) - 1 PROVE t[i] = Tail(r)[i]
    <3>1. i \in 1 .. Len(Tail(s)) /\ i + 1 \in 1 .. Len(s)
      BY <2>1
    <3>2. t[i] = [address |-> Tail(s)[i].address, command |-> Tail(s)[i].command]
      BY <1>1, <2>1, <3>1
    <3>3. r[i + 1] = [address |-> s[i + 1].address, command |-> s[i + 1].command]
      BY <1>1, <3>1
    <3> QED
      BY <2>1, <2>3, <3>2, <3>3
  <2> HIDE DEF r, t
  <2>6. t = Tail(r)
    BY <2>3, <2>4, <2>5, SeqEqual
  <2> QED
    BY <2>6 DEF r, t
<1>7. ASSUME s # << >>
      PROVE  Requested(<<Head(s)>>) = <<Head(Requested(s))>>
  <2> DEFINE one == <<Head(s)>>
             r == Requested(s)
  <2>1. Head(s) = s[1] /\ Head(s) \in Message /\ 1 \in 1 .. Len(s)
    BY <1>7, HeadTailProperties
  <2>2. one \in Seq(Message) /\ Len(one) = 1 /\ one[1] = s[1] /\ 1 \in 1 .. 1
    BY <2>1
  <2> HIDE DEF one
  <2>3. /\ Requested(one) \in Seq(Request) /\ Len(Requested(one)) = 1
        /\ Requested(one)[1] = [address |-> s[1].address, command |-> s[1].command]
    BY <1>1, <2>2
  <2>4. /\ r \in Seq(Request) /\ r # << >>
        /\ r[1] = [address |-> s[1].address, command |-> s[1].command]
    BY <1>1, <1>5, <1>7, <2>1
  <2>5. Head(r) = r[1] /\ Head(r) \in Request
    BY <2>4, HeadTailProperties
  <2>6. <<Head(r)>> \in Seq(Request) /\ Len(<<Head(r)>>) = 1
    BY <2>5
  <2>7. <<Head(r)>>[1] = [address |-> s[1].address, command |-> s[1].command]
    BY <2>4, <2>5
  <2> HIDE DEF r
  <2>8. Requested(one) = <<Head(r)>>
    BY <2>3, <2>6, <2>7, SeqEqual
  <2> QED
    BY <2>8 DEF one, r
<1> QED
  BY <1>4, <1>5, <1>6, <1>7
-----------------------------------------------------------------------------
(* What the machine does with the message in the chip.                     *)

\* The functions of the driver that leave the TX FIFO alone, and the one that does not.
LEMMA DriverKeepsMessage ==
  ASSUME NEW c, Loadable(c), NEW a, NEW prx
  PROVE  /\ \A d \in {R!nrf24_power_down(c), R!nrf24_power_up(c),
                      R!nrf24_clear_interrupts(c), R!nrf24_flush_rx(c),
                      R!nrf24_set_tx_address(c, a), R!nrf24_set_rx_address(c, a),
                      R!nrf24_set_config(c, prx), [c EXCEPT !.ce = prx]} :
              Loadable(d) /\ d.txFifo = c.txFifo
         /\ Loadable(R!nrf24_flush_tx(c)) /\ R!nrf24_flush_tx(c).txFifo = << >>
<1>1. << >> \in Seq(Message) /\ Len(<< >>) = 0
  OBVIOUS
<1> QED
  BY <1>1 DEF Loadable, R!nrf24_power_down, R!nrf24_power_up, R!nrf24_clear_interrupts,
     R!nrf24_flush_rx, R!nrf24_set_tx_address, R!nrf24_set_rx_address,
     R!nrf24_set_config, R!nrf24_flush_tx

\* A message is written to an empty FIFO.
LEMMA MessageWritten ==
  ASSUME NEW c, Loadable(c), c.txFifo = << >>, NEW m \in Message
  PROVE  /\ Loadable(R!nrf24_write_tx_payload(c, m))
         /\ R!nrf24_write_tx_payload(c, m).txFifo = <<m>>
<1>1. Len(<< >>) = 0 /\ Append(<< >>, m) = <<m>> /\ <<m>> \in Seq(Message) /\ Len(<<m>>) = 1
  OBVIOUS
<1> QED
  BY <1>1, SizeAssumption DEF Loadable, R!nrf24_write_tx_payload

\* A reconfiguration leaves nothing to be sent.
LEMMA Reconfigured ==
  ASSUME NEW c, Loadable(c), NEW mode, NEW a
  PROVE  /\ Loadable(R!setTransceiverMode(c, mode, a))
         /\ R!setTransceiverMode(c, mode, a).txFifo = << >>
<1> DEFINE low == R!nrf24_power_down(c)
           cleared == R!nrf24_clear_interrupts(low)
           flushed == R!nrf24_flush_rx(cleared)
           quiet == R!nrf24_flush_tx(flushed)
           own == R!nrf24_set_rx_address(quiet, OwnAddress)
           half == R!nrf24_set_tx_address(quiet, a)
           whole == R!nrf24_set_rx_address(half, a)
<1>1. Loadable(low)
  BY DriverKeepsMessage
<1> HIDE DEF low
<1>2. Loadable(cleared)
  BY <1>1, DriverKeepsMessage
<1> HIDE DEF cleared
<1>3. Loadable(flushed)
  BY <1>2, DriverKeepsMessage
<1> HIDE DEF flushed
<1>4. Loadable(quiet) /\ quiet.txFifo = << >>
  BY <1>3, DriverKeepsMessage
<1> HIDE DEF quiet
<1>5. Loadable(own) /\ own.txFifo = << >>
  BY <1>4, DriverKeepsMessage
<1>6. Loadable(half) /\ half.txFifo = << >>
  BY <1>4, DriverKeepsMessage
<1> HIDE DEF half
<1>7. Loadable(whole) /\ whole.txFifo = << >>
  BY <1>6, DriverKeepsMessage
<1> HIDE DEF own, whole
<1>8. ASSUME NEW prx \in BOOLEAN
      PROVE  /\ Loadable(R!nrf24_set_config(own, prx))
             /\ R!nrf24_set_config(own, prx).txFifo = << >>
             /\ Loadable(R!nrf24_set_config(whole, prx))
             /\ R!nrf24_set_config(whole, prx).txFifo = << >>
  BY <1>5, <1>7, DriverKeepsMessage
<1>9. R!setTransceiverMode(c, mode, a) = IF mode = "PrimaryReceiver"
                                         THEN R!nrf24_set_config(own, TRUE)
                                         ELSE R!nrf24_set_config(whole, FALSE)
  BY DEF R!setTransceiverMode, low, cleared, flushed, quiet, own, half, whole
<1> QED
  BY <1>8, <1>9

\* Wherever a branch of the machine is cut off, the chip has one message at most.
LEMMA CutOffLoadable ==
  ASSUME TypeOK, MessageToTake, NEW c \in R!PartWay
  PROVE  Loadable(c)
<1> DEFINE low == R!nrf24_power_down(chip)
           cleared == R!nrf24_clear_interrupts(low)
           flushed == R!nrf24_flush_rx(cleared)
           quiet == R!nrf24_flush_tx(flushed)
           own == R!nrf24_set_rx_address(quiet, OwnAddress)
           m == Head(transmitQueue)
           half == R!nrf24_set_tx_address(quiet, m.address)
           whole == R!nrf24_set_rx_address(half, m.address)
           transmitter == R!nrf24_set_config(whole, FALSE)
           loaded == R!nrf24_write_tx_payload(transmitter, m)
           receiver == R!nrf24_set_config(own, TRUE)
           Cut(k) == [cleared EXCEPT !.rxFifo = SubSeq(@, k, Len(@))]
<1>1. \/ c \in {chip, cleared, flushed, quiet, own, receiver}
      \/ c \in {half, whole, transmitter, loaded} /\ state = "SendNextQueuedMessage"
      \/ \E k \in 1 .. Len(chip.rxFifo) + 1 : c = Cut(k)
  BY DEF TypeOK, R!States, R!PartWay
<1> HIDE DEF low, cleared, flushed, quiet, own, m, half, whole, transmitter, loaded,
             receiver, Cut
<1>2. Loadable(chip)
  BY DEF TypeOK
<1>3. Loadable(low)
  BY <1>2, DriverKeepsMessage DEF low
<1>4. Loadable(cleared)
  BY <1>3, DriverKeepsMessage DEF cleared
<1>5. Loadable(flushed)
  BY <1>4, DriverKeepsMessage DEF flushed
<1>6. Loadable(quiet) /\ quiet.txFifo = << >>
  BY <1>5, DriverKeepsMessage DEF quiet
<1>7. Loadable(own)
  BY <1>6, DriverKeepsMessage DEF own
<1>8. Loadable(receiver)
  BY <1>7, DriverKeepsMessage DEF receiver
<1>9. Loadable(half) /\ half.txFifo = << >>
  BY <1>6, DriverKeepsMessage DEF half
<1>10. Loadable(whole) /\ whole.txFifo = << >>
  BY <1>9, DriverKeepsMessage DEF whole
<1>11. Loadable(transmitter) /\ transmitter.txFifo = << >>
  BY <1>10, DriverKeepsMessage DEF transmitter
<1>12. ASSUME state = "SendNextQueuedMessage" PROVE Loadable(loaded)
  <2>1. m \in Message
    BY <1>12, HeadTailProperties DEF m, TypeOK, MessageToTake
  <2> QED
    BY <1>11, <2>1, MessageWritten DEF loaded
<1>13. \A k : Loadable(Cut(k))
  BY <1>4 DEF Cut, Loadable
<1> QED
  BY <1>1, <1>2, <1>4, <1>5, <1>6, <1>7, <1>8, <1>9, <1>10, <1>11, <1>12, <1>13

\* What a branch of the machine does with the messages, and when it starts to wait.
LEMMA BranchOfMachine ==
  ASSUME TypeOK, MessageToTake, R!Task
  PROVE  /\ UNCHANGED <<now, restarts, nextId>>
         /\ state' \in R!States /\ timer' \in R!ClockValues /\ waited' \in Nat
         /\ Loadable(chip')
         /\ \/ transmitQueue' = transmitQueue /\ chip'.txFifo \in {chip.txFifo, << >>}
            \/ /\ transmitQueue # << >>
               /\ transmitQueue' = Tail(transmitQueue)
               /\ chip'.txFifo = <<Head(transmitQueue)>>
         /\ MessageToTake'
         /\ state' = "WaitForMessageSent" => waited' = 0 /\ timer' = now
<1>1. Loadable(chip) /\ transmitQueue \in Seq(Message)
      /\ timer \in R!ClockValues /\ now \in R!ClockValues /\ waited \in Nat
  BY DEF TypeOK
<1>2. CASE R!Idle
  BY <1>1, <1>2 DEF R!Idle, R!States, R!queueVars, R!clockVars, R!messageVars, MessageToTake
<1>3. CASE R!SendNextQueuedMessage
  <2> DEFINE m == Head(transmitQueue)
             c == R!setTransceiverMode(chip, "PrimaryTransmitter", m.address)
             d == R!nrf24_write_tx_payload(c, m)
  <2>1. m \in Message /\ transmitQueue # << >>
    BY <1>1, <1>3, HeadTailProperties DEF R!SendNextQueuedMessage, MessageToTake
  <2>2. chip' = R!nrf24_power_up(d)
    BY <1>3 DEF R!SendNextQueuedMessage
  <2>3. Loadable(c) /\ c.txFifo = << >>
    BY <1>1, Reconfigured
  <2> HIDE DEF m, c
  <2>4. Loadable(d) /\ d.txFifo = <<m>>
    BY <2>1, <2>3, MessageWritten
  <2> HIDE DEF d
  <2>5. Loadable(chip') /\ chip'.txFifo = <<m>>
    BY <2>2, <2>4, DriverKeepsMessage
  <2>6. /\ transmitQueue' = Tail(transmitQueue)
        /\ state' = "WaitForMessageSent" /\ timer' = now /\ waited' = 0
        /\ UNCHANGED <<now, restarts, nextId>>
    BY <1>3 DEF R!SendNextQueuedMessage, R!messageVars, R!Popped
  <2> QED
    BY <1>1, <2>1, <2>5, <2>6 DEF m, R!States, MessageToTake
<1>4. CASE R!WaitForMessageSent
  <2> DEFINE c == R!setTransceiverMode(chip, "PrimaryReceiver", NoAddress)
  <2>1. Loadable(c) /\ c.txFifo = << >>
    BY <1>1, Reconfigured
  <2>2. chip' = R!nrf24_power_up(c)
    BY <1>4 DEF R!WaitForMessageSent, R!BackToReceiver
  <2> HIDE DEF c
  <2>3. Loadable(chip') /\ chip'.txFifo = << >>
    BY <2>1, <2>2, DriverKeepsMessage
  <2> QED
    BY <1>1, <1>4, <2>3 DEF R!WaitForMessageSent, R!States, R!queueVars, R!messageVars,
       MessageToTake
<1>5. CASE R!ReadReceivedMessages
  <2> DEFINE low == R!nrf24_power_down(chip)
             cleared == R!nrf24_clear_interrupts(low)
             drained == R!ReadAllPayloads(cleared)
  <2>1. Loadable(low) /\ low.txFifo = chip.txFifo
    BY <1>1, DriverKeepsMessage
  <2>2. chip' = R!nrf24_power_up(drained)
    BY <1>5 DEF R!ReadReceivedMessages
  <2> HIDE DEF low
  <2>3. Loadable(cleared) /\ cleared.txFifo = chip.txFifo
    BY <2>1, DriverKeepsMessage
  <2> HIDE DEF cleared
  <2>4. Loadable(drained) /\ drained.txFifo = chip.txFifo
    BY <2>3 DEF R!ReadAllPayloads, Loadable
  <2> HIDE DEF drained
  <2>5. Loadable(chip') /\ chip'.txFifo = chip.txFifo
    BY <2>2, <2>4, DriverKeepsMessage
  <2> QED
    BY <1>1, <1>5, <2>5 DEF R!ReadReceivedMessages, R!States, R!clockVars, R!messageVars,
       MessageToTake
<1> QED
  BY <1>2, <1>3, <1>4, <1>5 DEF R!Task
-----------------------------------------------------------------------------
(* What the controller does with its queue, and how often it calls.        *)

\* The commands that are queued are commands for devices that "all" reaches.
LEMMA QueuedEntries ==
  /\ \A i \in Shutters, up \in BOOLEAN :
       <<Hub!MqttDevice[i], Hub!MotorCommand(Hub!MqttMotor[i], up)>> \in Entry
  /\ \A command : /\ Hub!AllEntries(command) \in Seq(Entry)
                  /\ Len(Hub!AllEntries(command)) = CallsPerInput
<1>1. ASSUME NEW i \in Shutters, NEW up \in BOOLEAN
      PROVE  <<Hub!MqttDevice[i], Hub!MotorCommand(Hub!MqttMotor[i], up)>> \in Entry
  <2>1. i \in 0 .. 6
    BY InputsAssumption
  <2>2. Hub!MqttDevice[i] \in 0 .. Hub!MaxDeviceIndex /\ Hub!MqttMotor[i] \in {1, 2}
    BY <2>1 DEF Hub!MqttDevice, Hub!MqttMotor, Hub!MaxDeviceIndex
  <2> QED
    BY <2>2 DEF Hub!MotorCommand, Command, Entry
<1>2. ASSUME NEW command
      PROVE  /\ Hub!AllEntries(command) \in Seq(Entry)
             /\ Len(Hub!AllEntries(command)) = CallsPerInput
  <2>1. \A i \in 1 .. 5 :
          <<i - 1, IF command = "ShutterUp" THEN "AllUp" ELSE "AllDown">> \in Entry
    BY DEF Entry, Command, Hub!MaxDeviceIndex
  <2>2. Hub!AllEntries(command) =
          [i \in 1 .. 5 |-> <<i - 1, IF command = "ShutterUp" THEN "AllUp" ELSE "AllDown">>]
    BY DEF Hub!AllEntries, Hub!MaxDeviceIndex
  <2> QED
    BY <2>1, <2>2 DEF CallsPerInput, Hub!MaxDeviceIndex
<1> QED
  BY <1>1, <1>2

\* The queue grows by no more than the inputs account for; n are the calls made.
Accounted(n) ==
  /\ commandQueue' \in Seq(Entry)
  /\ inputs' \in 0 .. MaxInputs
  /\ n + Len(commandQueue') - Len(commandQueue) <= CallsPerInput * (inputs' - inputs)

\* One step of the controller, and the calls it makes.
LEMMA ControllerAccounts ==
  ASSUME TypeOK, nextId' = nextId \/ nextId' = nextId + 1,
         Hub!CoreTask \/ Hub!WebTask \/ Hub!RunCommandQueue \/ Hub!SkipCommandQueue
  PROVE  Accounted(nextId' - nextId)
<1>1. /\ commandQueue \in Seq(Entry) /\ Len(commandQueue) \in Nat
      /\ inputs \in 0 .. MaxInputs /\ nextId \in Nat
  BY DEF TypeOK, Entry
<1>2. CallsPerInput = 5
  BY DEF CallsPerInput, Hub!MaxDeviceIndex
<1>3. /\ nextId \in Nat /\ nextId' \in Nat
      /\ nextId' = nextId \/ nextId' = nextId + 1
  BY <1>1
<1>4. ASSUME UNCHANGED Hub!linkVars PROVE nextId' = nextId
  <2>1. nextId' - 1 = nextId - 1
    BY <1>4, Zenon DEF Hub!linkVars
  <2>2. \A x, y \in Nat : x - 1 = y - 1 => x = y
    OBVIOUS
  <2> QED
    BY <1>3, <2>1, <2>2, Zenon
<1>5. ASSUME UNCHANGED <<commandQueue, inputs>>, nextId' = nextId
      PROVE  Accounted(nextId' - nextId)
  BY <1>1, <1>2, <1>5 DEF Accounted
<1>6. ASSUME Hub!CountInput, commandQueue' = commandQueue
      PROVE  Accounted(nextId' - nextId)
  <2>1. inputs' = inputs + 1 /\ inputs' \in 0 .. MaxInputs
    BY <1>1, <1>6, SizeAssumption DEF Hub!CountInput
  <2>2. nextId' - nextId = 0 \/ nextId' - nextId = 1
    <3>1. \A x, y \in Nat : y = x \/ y = x + 1 => y - x = 0 \/ y - x = 1
      OBVIOUS
    <3> QED
      BY <1>3, <3>1, Zenon
  <2>3. Len(commandQueue') = Len(commandQueue) /\ commandQueue' \in Seq(Entry)
    BY <1>1, <1>6
  <2>4. CallsPerInput * (inputs' - inputs) = 5
    BY <1>1, <1>2, <2>1
  <2>5. nextId' - nextId + Len(commandQueue') - Len(commandQueue) <= 5
    BY <1>1, <2>2, <2>3
  <2> QED
    BY <2>1, <2>3, <2>4, <2>5 DEF Accounted
<1>7. CASE Hub!CoreTask
  <2>1. CASE /\ \E i \in Shutters, up \in BOOLEAN : Hub!MqttChanged(i, up)
             /\ UNCHANGED Hub!linkVars
    <3>1. PICK i \in Shutters, up \in BOOLEAN : Hub!MqttChanged(i, up)
      BY <2>1
    <3> DEFINE entry == <<Hub!MqttDevice[i], Hub!MotorCommand(Hub!MqttMotor[i], up)>>
    <3>2. entry \in Entry
      BY QueuedEntries
    <3>3. /\ commandQueue' = Append(commandQueue, entry)
          /\ inputs < MaxInputs /\ inputs' = inputs + 1
      BY <3>1 DEF Hub!MqttChanged, Hub!CountInput
    <3>4. nextId' = nextId
      BY <1>4, <2>1
    <3> HIDE DEF entry
    <3>5. commandQueue' \in Seq(Entry) /\ Len(commandQueue') = Len(commandQueue) + 1
      BY <1>1, <3>2, <3>3
    <3> QED
      BY <1>1, <1>2, <3>3, <3>4, <3>5, SizeAssumption DEF Accounted
  <2>2. CASE /\ \E pin \in Pins, direction \in -1 .. 1 : Hub!BlynkPinWritten(pin, direction)
             /\ UNCHANGED commandQueue
    BY <1>6, <2>2 DEF Hub!BlynkPinWritten
  <2>3. CASE UNCHANGED <<commandQueue, Hub!linkVars, inputs>>
    BY <1>4, <1>5, <2>3
  <2> QED
    BY <1>7, <2>1, <2>2, <2>3 DEF Hub!CoreTask
<1>8. CASE Hub!WebTask
  <2>1. ASSUME NEW request \in Requests, Hub!HttpRequest(request)
        PROVE  Accounted(nextId' - nextId)
    <3> DEFINE command == Hub!handle(request).command
               index == Hub!handle(request).index
    <3>1. Hub!CountInput
      BY <2>1 DEF Hub!HttpRequest
    <3>2. \/ Hub!handleWebApiCommand(command, index)
          \/ commandQueue' = commandQueue
      BY <2>1 DEF Hub!HttpRequest
    <3> HIDE DEF command, index
    <3>3. \/ commandQueue' = commandQueue
          \/ /\ commandQueue' = commandQueue \o Hub!AllEntries(command)
             /\ UNCHANGED Hub!linkVars
      BY <3>2 DEF Hub!handleWebApiCommand
    <3>4. CASE /\ commandQueue' = commandQueue \o Hub!AllEntries(command)
               /\ UNCHANGED Hub!linkVars
      <4>1. nextId' = nextId
        BY <1>4, <3>4
      <4> DEFINE all == Hub!AllEntries(command)
      <4>2. all \in Seq(Entry) /\ Len(all) = 5
        BY <1>2, QueuedEntries
      <4> HIDE DEF all
      <4>3. commandQueue' = commandQueue \o all
        BY <3>4 DEF all
      <4>4. /\ commandQueue' \in Seq(Entry)
            /\ Len(commandQueue') = Len(commandQueue) + Len(all)
        BY <1>1, <4>2, <4>3, ConcatProperties, Zenon
      <4>5. inputs < MaxInputs /\ inputs' = inputs + 1
        BY <3>1 DEF Hub!CountInput
      <4> QED
        BY <1>1, <1>2, <4>1, <4>2, <4>4, <4>5, SizeAssumption DEF Accounted
    <3> QED
      BY <1>6, <3>1, <3>3, <3>4
  <2>2. CASE UNCHANGED <<commandQueue, Hub!linkVars, inputs>>
    BY <1>4, <1>5, <2>2
  <2> QED
    BY <1>8, <2>1, <2>2 DEF Hub!WebTask
<1>9. CASE Hub!RunCommandQueue
  <2>1. commandQueue # << >> /\ commandQueue' = Tail(commandQueue) /\ inputs' = inputs
    BY <1>9 DEF Hub!RunCommandQueue
  <2>2. commandQueue' \in Seq(Entry) /\ Len(commandQueue') = Len(commandQueue) - 1
    BY <1>1, <2>1, HeadTailProperties
  <2> QED
    BY <1>1, <1>2, <2>1, <2>2 DEF Accounted
<1>10. CASE Hub!SkipCommandQueue
  BY <1>4, <1>5, <1>10 DEF Hub!SkipCommandQueue
<1> QED
  BY <1>7, <1>8, <1>9, <1>10
-----------------------------------------------------------------------------
(* The invariant, and the steps of the hub as steps of its two components. *)

\* The hub starts as its components do.
LEMMA InvInit == Init => Inv
<1> SUFFICES ASSUME Init PROVE Inv
  OBVIOUS
<1>1. << >> \in Seq(Message) /\ << >> \in Seq(Entry) /\ Len(<< >>) = 0
  OBVIOUS
<1>2. Loadable(chip)
  BY <1>1 DEF Init, R!Init, R!PowerOn, Loadable
<1>3. /\ state = "Booting" /\ timer = 0 /\ now = 0 /\ waited = 0 /\ nextId = 1
      /\ transmitQueue = << >>
  BY DEF Init, R!Init
<1>4. phase = "core" /\ commandQueue = << >> /\ turn = 0 /\ inputs = 0
  BY DEF Init, Hub!Init
<1>5. 0 \in R!ClockValues /\ 0 \in 0 .. LongestTurn /\ 0 \in 0 .. MaxInputs
  BY TimeAssumption, SizeAssumption DEF R!ClockValues, LongestWait
<1>6. TypeOK
  BY <1>1, <1>2, <1>3, <1>4, <1>5 DEF TypeOK, Hub!Phases, R!States, Entry
<1>7. CallsCounted
  BY <1>1, <1>3, <1>4 DEF CallsCounted, CallsPerInput, Hub!MaxDeviceIndex
<1> QED
  BY <1>3, <1>6, <1>7 DEF Inv, MessageToTake, PolledInTime

\* A call of the controller disturbs nothing in the radio but its queue.
LEMMA CallsOfController ==
  ASSUME Inv, CoreTask \/ WebTask \/ RunCommandQueue \/ SkipCommandQueue
  PROVE  Inv' /\ [R!Next]_(R!vars)
<1> DEFINE Sends == \E call \in Calls : R!SendMessage(Numbered(call, nextId))
<1>1. TypeOK /\ CallsCounted /\ MessageToTake /\ PolledInTime
  BY DEF Inv
<1>2. UNCHANGED <<radioVars, now, restarts>> \/ Sends
  BY DEF CoreTask, WebTask, RunCommandQueue, SkipCommandQueue, Calling
<1>3. Hub!CoreTask \/ Hub!WebTask \/ Hub!RunCommandQueue \/ Hub!SkipCommandQueue
  BY DEF CoreTask, WebTask, RunCommandQueue, SkipCommandQueue, Calling
<1>4. /\ UNCHANGED <<state, timer, chip, waited, now>>
      /\ \/ nextId' = nextId /\ transmitQueue' = transmitQueue
         \/ Sends /\ nextId' = nextId + 1
  BY <1>2 DEF radioVars, R!SendMessage, R!clockVars
<1> HIDE DEF Sends
<1>5. nextId \in Nat \ {0} /\ nextId' \in Nat \ {0}
  <2>1. nextId \in Nat \ {0} /\ nextId + 1 \in Nat \ {0}
    BY <1>1 DEF TypeOK
  <2> QED
    BY <1>4, <2>1
<1>6. Accounted(nextId' - nextId)
  BY <1>1, <1>3, <1>4, ControllerAccounts
<1>7. CallsCounted' /\ nextId' <= MaxMessages + 1
  <2>1. /\ commandQueue \in Seq(Entry) /\ inputs \in 0 .. MaxInputs
        /\ commandQueue' \in Seq(Entry) /\ inputs' \in 0 .. MaxInputs
    BY <1>1, <1>6 DEF TypeOK, Accounted, Entry
  <2>2. Len(commandQueue) \in Nat /\ Len(commandQueue') \in Nat
    BY <2>1
  <2>3. /\ inputs \in Nat /\ inputs' \in Nat
        /\ inputs' <= MaxInputs /\ MaxInputs \in Nat
    BY <2>1, SizeAssumption
  <2>4. nextId - 1 + Len(commandQueue) <= 5 * inputs
    BY <1>1 DEF CallsCounted, CallsPerInput, Hub!MaxDeviceIndex
  <2>5. nextId' - nextId + Len(commandQueue') - Len(commandQueue) <= 5 * (inputs' - inputs)
    BY <1>6 DEF Accounted, CallsPerInput, Hub!MaxDeviceIndex
  <2>6. 5 * MaxInputs <= MaxMessages /\ MaxMessages \in Nat
    BY MessagesAssumption DEF CallsPerInput, Hub!MaxDeviceIndex
  <2>7. \A i, j, k, l, m, n \in Nat :
          m - 1 + k <= 5 * i /\ n - m + l - k <= 5 * (j - i) => n - 1 + l <= 5 * j
    OBVIOUS
  <2>8. nextId' - 1 + Len(commandQueue') <= 5 * inputs'
    BY <1>5, <2>2, <2>3, <2>4, <2>5, <2>7
  <2>9. nextId' <= MaxMessages + 1
    BY <1>5, <2>2, <2>3, <2>6, <2>8
  <2> QED
    BY <2>8, <2>9 DEF CallsCounted, CallsPerInput, Hub!MaxDeviceIndex
<1>8. ASSUME Sends, nextId' = nextId + 1
      PROVE  /\ \E m \in Message : R!SendMessage(m)
             /\ transmitQueue' \in Seq(Message)
             /\ transmitQueue # << >> => transmitQueue' # << >>
  <2>1. PICK call \in Calls : R!SendMessage(Numbered(call, nextId))
    BY <1>8 DEF Sends
  <2> DEFINE m == Numbered(call, nextId)
  <2>2. nextId \in 1 .. MaxMessages
    BY <1>5, <1>7, <1>8, MessagesAssumption
  <2>3. m \in Message
    BY <2>2 DEF Message
  <2>4. R!SendMessage(m) /\ transmitQueue' = R!Pushed(transmitQueue, m)
    BY <2>1 DEF R!SendMessage
  <2> HIDE DEF m
  <2>5. /\ transmitQueue \in Seq(Message)
        /\ Append(transmitQueue, m) \in Seq(Message) /\ Append(transmitQueue, m) # << >>
    BY <1>1, <2>3, AppendProperties DEF TypeOK
  <2> QED
    BY <2>3, <2>4, <2>5 DEF R!Pushed
<1>9. transmitQueue' \in Seq(Message) /\ MessageToTake'
  BY <1>1, <1>4, <1>8 DEF TypeOK, MessageToTake
<1>10. /\ \/ phase = "core" /\ phase' = "radio" /\ turn' = turn
          \/ phase = "web" /\ phase' = "queue" /\ turn' = turn
          \/ phase = "queue" /\ phase' = "core" /\ turn' = 0
  BY <1>3 DEF Hub!CoreTask, Hub!WebTask, Hub!RunCommandQueue, Hub!SkipCommandQueue,
     Hub!Proceed
<1>11. TypeOK'
  <2>1. phase' \in Hub!Phases /\ turn' \in 0 .. LongestTurn
    BY <1>1, <1>10, TimeAssumption DEF TypeOK, Hub!Phases
  <2>2. commandQueue' \in Seq(Entry) /\ inputs' \in 0 .. MaxInputs
    BY <1>6 DEF Accounted
  <2>3. /\ state' \in R!States /\ timer' \in R!ClockValues /\ now' \in R!ClockValues
        /\ waited' \in Nat /\ Loadable(chip')
    BY <1>1, <1>4 DEF TypeOK
  <2> QED
    BY <1>5, <1>9, <2>1, <2>2, <2>3 DEF TypeOK, Entry, Loadable
<1>12. PolledInTime'
  <2> SUFFICES ASSUME state' = "WaitForMessageSent"
               PROVE  /\ now' = (timer' + waited') % ClockModulus
                      /\ waited' < MessageSendTimeoutMs + turn'
                           + (IF phase' \in {"web", "queue"} THEN 0 ELSE LongestTurn)
    BY DEF PolledInTime
  <2>1. /\ now = (timer + waited) % ClockModulus
        /\ waited < MessageSendTimeoutMs + turn
             + (IF phase \in {"web", "queue"} THEN 0 ELSE LongestTurn)
    BY <1>1, <1>4 DEF PolledInTime
  <2>2. turn \in 0 .. LongestTurn /\ waited \in Nat /\ waited' = waited
    BY <1>1, <1>4 DEF TypeOK
  <2> QED
    BY <1>4, <1>10, <2>1, <2>2, TimeAssumption
<1>13. [R!Next]_(R!vars)
  <2>1. CASE nextId' = nextId /\ transmitQueue' = transmitQueue
    <3>1. UNCHANGED R!vars
      BY <1>2, <1>5, <2>1 DEF radioVars, R!vars, R!queueVars, R!clockVars, R!messageVars,
         R!packetVars, Sends, R!SendMessage
    <3> QED
      BY <3>1
  <2>2. CASE Sends /\ nextId' = nextId + 1
    BY <1>8, <2>2 DEF R!Next
  <2> QED
    BY <1>4, <2>1, <2>2
<1> QED
  BY <1>7, <1>9, <1>11, <1>12, <1>13 DEF Inv

\* A poll while nothing has happened finds the radio before its timeout.
LEMMA StillInTime ==
  ASSUME TypeOK, PolledInTime, state = "WaitForMessageSent", ~ R!TimedOut
  PROVE  waited < MessageSendTimeoutMs
<1>1. /\ waited \in Nat /\ turn \in 0 .. LongestTurn
      /\ timer \in 0 .. ClockModulus - 1
  BY DEF TypeOK, R!ClockValues
<1>2. /\ now = (timer + waited) % ClockModulus
      /\ waited < MessageSendTimeoutMs + turn
                    + (IF phase \in {"web", "queue"} THEN 0 ELSE LongestTurn)
  BY DEF PolledInTime
<1>3. waited \in 0 .. ClockModulus - 1 /\ ClockModulus \in Nat
  <2>1. waited < MessageSendTimeoutMs + turn + LongestTurn
    BY <1>1, <1>2, TimeAssumption
  <2>2. waited <= LongestWait
    BY <1>1, <2>1, TimeAssumption DEF LongestWait
  <2> QED
    BY <1>1, <2>2, TimeAssumption DEF LongestWait
<1>4. (now - timer) % ClockModulus = waited
  BY <1>1, <1>2, <1>3, ElapsedTime
<1>5. ~ (waited >= MessageSendTimeoutMs)
  BY <1>4 DEF R!TimedOut
<1> QED
  BY <1>1, <1>5, TimeAssumption

\* The radio's turn in the loop is a step of its machine, and one of RadioLink.
LEMMA TurnOfRadio ==
  ASSUME Inv, RadioTask
  PROVE  Inv' /\ [R!Next]_(R!vars) /\ Hub!RadioTask
<1>1. TypeOK /\ CallsCounted /\ MessageToTake /\ PolledInTime
  BY DEF Inv
<1>2. /\ phase = "radio" /\ phase' = "web"
      /\ UNCHANGED <<commandQueue, lastExec, sinceExec, turn, inputs>>
  BY DEF RadioTask
<1>3. \/ R!Task
      \/ NothingToDo /\ UNCHANGED <<radioVars, now, restarts>>
  BY DEF RadioTask
<1>4. [R!Next]_(R!vars)
  <2>1. CASE UNCHANGED <<radioVars, now, restarts>>
    BY <2>1 DEF radioVars, R!vars, R!queueVars, R!clockVars, R!messageVars, R!packetVars
  <2> QED
    BY <1>3, <2>1 DEF R!Next
<1>5. /\ UNCHANGED <<now, restarts, nextId>>
      /\ state' \in R!States /\ timer' \in R!ClockValues /\ waited' \in Nat
      /\ Loadable(chip')
      /\ \/ transmitQueue' = transmitQueue /\ chip'.txFifo \in {chip.txFifo, << >>}
         \/ /\ transmitQueue # << >>
            /\ transmitQueue' = Tail(transmitQueue)
            /\ chip'.txFifo = <<Head(transmitQueue)>>
      /\ MessageToTake'
  <2>1. CASE NothingToDo /\ UNCHANGED <<radioVars, now, restarts>>
    BY <1>1, <2>1 DEF radioVars, TypeOK, MessageToTake
  <2> QED
    BY <1>1, <1>3, <2>1, BranchOfMachine
<1>6. state' = "WaitForMessageSent" =>
        waited' < MessageSendTimeoutMs /\ now' = (timer' + waited') % ClockModulus
  <2>1. CASE R!Task
    <3>1. state' = "WaitForMessageSent" => waited' = 0 /\ timer' = now
      BY <1>1, <2>1, BranchOfMachine
    <3>2. now \in 0 .. ClockModulus - 1 /\ now' = now
      BY <1>1, <1>5 DEF TypeOK, R!ClockValues
    <3>3. now = (now + 0) % ClockModulus
      BY <3>2, TimeAssumption
    <3> QED
      BY <3>1, <3>2, <3>3, TimeAssumption
  <2>2. CASE NothingToDo /\ UNCHANGED <<radioVars, now, restarts>>
    <3> SUFFICES ASSUME state = "WaitForMessageSent" PROVE waited < MessageSendTimeoutMs
      BY <1>1, <2>2 DEF radioVars, PolledInTime
    <3>1. ~ R!TimedOut
      BY <2>2 DEF NothingToDo
    <3> QED
      BY <1>1, <3>1, StillInTime
  <2> QED
    BY <1>3, <2>1, <2>2
<1>7. transmitQueue \in Seq(Message) /\ transmitQueue' \in Seq(Message)
      /\ chip.txFifo \in Seq(Message)
  BY <1>1, <1>5, HeadTailProperties DEF TypeOK, Loadable
<1>8. Inv'
  <2>1. TypeOK'
    BY <1>1, <1>2, <1>5, <1>7 DEF TypeOK, Hub!Phases, Loadable
  <2>2. CallsCounted'
    BY <1>1, <1>2, <1>5 DEF CallsCounted
  <2>3. PolledInTime'
    <3>1. turn' \in Nat /\ waited' \in Nat
      BY <2>1 DEF TypeOK
    <3> QED
      BY <1>2, <1>6, <3>1, TimeAssumption DEF PolledInTime
  <2> QED
    BY <1>5, <2>1, <2>2, <2>3 DEF Inv
<1>9. Hub!RadioTask
  <2>1. Hub!Proceed("radio", "web")
    BY <1>2, <1>5 DEF Hub!Proceed
  <2>2. UNCHANGED <<commandQueue, nextId - 1, inputs, lastExec, sinceExec>>
    BY <1>2, <1>5
  <2>3. \/ Hub!Link!Begin
        \/ Requested(chip.txFifo) # << >> /\ Hub!Link!GiveUp
        \/ UNCHANGED <<Requested(transmitQueue), Requested(chip.txFifo)>>
    <3>1. /\ Requested(<< >>) = << >>
          /\ Requested(chip.txFifo) = << >> <=> chip.txFifo = << >>
          /\ transmitQueue # << >> =>
               /\ Requested(transmitQueue) # << >>
               /\ Requested(Tail(transmitQueue)) = Tail(Requested(transmitQueue))
               /\ Requested(<<Head(transmitQueue)>>) = <<Head(Requested(transmitQueue))>>
      BY <1>7, RequestedSteps
    <3>2. /\ Requested(transmitQueue)' = Requested(transmitQueue')
          /\ Requested(chip.txFifo)' = Requested(chip'.txFifo)
      BY DEF Requested
    <3>3. CASE transmitQueue' = transmitQueue /\ chip'.txFifo \in {chip.txFifo, << >>}
      BY <3>1, <3>2, <3>3 DEF Hub!Link!GiveUp
    <3>4. CASE /\ transmitQueue # << >>
               /\ transmitQueue' = Tail(transmitQueue)
               /\ chip'.txFifo = <<Head(transmitQueue)>>
      BY <3>1, <3>2, <3>4 DEF Hub!Link!Begin
    <3> QED
      BY <1>5, <3>3, <3>4
  <2> QED
    BY <2>1, <2>2, <2>3 DEF Hub!RadioTask
<1> QED
  BY <1>4, <1>8, <1>9

\* The chip's own steps end a message or leave it alone; the controller sees no other.
LEMMA StepsOfChip ==
  ASSUME Inv, Answer \/ Receive \/ Boot
  PROVE  Inv' /\ [R!Next]_(R!vars) /\ [Hub!Next]_(Hub!vars)
<1>1. TypeOK /\ CallsCounted /\ MessageToTake /\ PolledInTime
  BY DEF Inv
<1>2. Loadable(chip) /\ chip.txFifo \in Seq(Message) /\ transmitQueue \in Seq(Message)
  BY <1>1 DEF TypeOK, Loadable
<1>3. /\ UNCHANGED controllerVars
      /\ UNCHANGED <<transmitQueue, receiveQueue, timer, now, waited, nextId, restarts>>
      /\ state' = state \/ state' = "Idle"
  BY DEF Answer, Receive, Boot, R!ChipAcknowledged, R!ChipRetriesExhausted, R!ChipReceive,
     R!Boot, R!queueVars, R!clockVars, R!messageVars, R!packetVars
<1>4. [R!Next]_(R!vars)
  BY DEF Answer, Receive, Boot, R!Next, R!Transceiver
<1>5. /\ Loadable(chip')
      /\ \/ chip'.txFifo = chip.txFifo
         \/ chip.txFifo # << >> /\ chip'.txFifo = << >>
  <2>1. CASE R!Boot
    <3> DEFINE low == R!nrf24_power_down(chip)
    <3>1. chip' = R!nrf24_clear_interrupts(low)
      BY <2>1 DEF R!Boot, R!initTransceiver
    <3>2. Loadable(low) /\ low.txFifo = chip.txFifo
      BY <1>2, DriverKeepsMessage
    <3> HIDE DEF low
    <3> QED
      BY <3>1, <3>2, DriverKeepsMessage
  <2>2. CASE R!ChipAcknowledged
    <3>1. chip.txFifo # << >> /\ chip' = [chip EXCEPT !.txDs = TRUE, !.txFifo = Tail(@)]
      BY <2>2 DEF R!ChipAcknowledged, R!CanBeAcknowledged, R!CanTransmit, R!Acknowledged
    <3> DEFINE f == chip.txFifo
    <3>2. f \in Seq(Message) /\ f # << >> /\ Len(f) <= 1
      BY <1>2, <3>1 DEF Loadable
    <3>3. chip'.txFifo = Tail(f) /\ "txFifo" \in DOMAIN chip'
      BY <1>2, <3>1 DEF Loadable
    <3> HIDE DEF f
    <3>4. Tail(f) \in Seq(Message) /\ Len(Tail(f)) = Len(f) - 1 /\ Len(f) \in Nat \ {0}
      BY <3>2, HeadTailProperties, EmptySeq
    <3>5. Len(f) = 1
      BY <3>2, <3>4
    <3>6. Len(Tail(f)) = 0
      BY <3>4, <3>5
    <3>7. Tail(f) = << >>
      BY <3>4, <3>6, EmptySeq
    <3>8. Loadable(chip')
      BY <3>3, <3>4, <3>6 DEF Loadable
    <3> QED
      BY <3>1, <3>3, <3>7, <3>8
  <2>3. CASE R!ChipRetriesExhausted
    BY <1>2, <2>3 DEF R!ChipRetriesExhausted, R!RetriesExhausted, Loadable
  <2>4. ASSUME NEW p \in 1 .. MaxPackets, R!ChipReceive(p)
        PROVE  Loadable(chip') /\ chip'.txFifo = chip.txFifo
    BY <1>2, <2>4 DEF R!ChipReceive, R!Received, Loadable
  <2> QED
    BY <2>1, <2>2, <2>3, <2>4 DEF Answer, Receive, Boot
<1>6. Inv'
  <2>1. TypeOK'
    BY <1>1, <1>3, <1>5 DEF TypeOK, R!States, controllerVars, Loadable
  <2>2. CallsCounted' /\ MessageToTake' /\ PolledInTime'
    BY <1>1, <1>3 DEF CallsCounted, MessageToTake, PolledInTime, controllerVars
  <2> QED
    BY <2>1, <2>2 DEF Inv
<1>7. [Hub!Next]_(Hub!vars)
  <2>1. /\ Requested(<< >>) = << >>
        /\ Requested(chip.txFifo) = << >> <=> chip.txFifo = << >>
    BY <1>2, RequestedSteps
  <2>2. /\ Requested(transmitQueue)' = Requested(transmitQueue)
        /\ Requested(chip.txFifo)' = Requested(chip'.txFifo)
    BY <1>3 DEF Requested
  <2>3. UNCHANGED <<phase, commandQueue, nextId - 1, lastExec, now, sinceExec, turn,
                    inputs, restarts>>
    BY <1>3 DEF controllerVars
  <2>4. CASE chip'.txFifo = chip.txFifo
    BY <2>2, <2>3, <2>4 DEF Hub!vars, Hub!linkVars, Hub!timeVars
  <2>5. CASE chip.txFifo # << >> /\ chip'.txFifo = << >>
    <3>1. Hub!Acknowledge
      BY <2>1, <2>2, <2>3, <2>5 DEF Hub!Acknowledge, Hub!Link!GiveUp, Hub!timeVars
    <3> QED
      BY <3>1 DEF Hub!Next
  <2> QED
    BY <1>5, <2>4, <2>5
<1> QED
  BY <1>4, <1>6, <1>7

\* Time passes for both, and never more than the radio can do with.
LEMMA StepsOfTime ==
  ASSUME Inv, Tick
  PROVE  Inv' /\ [R!Next]_(R!vars) /\ [Hub!Next]_(Hub!vars)
<1>1. TypeOK /\ CallsCounted /\ MessageToTake /\ PolledInTime
  BY DEF Inv
<1>2. /\ turn < LongestTurn /\ turn' = turn + 1
      /\ now' = (now + 1) % ClockModulus
      /\ waited' = IF state = "WaitForMessageSent" THEN waited + 1 ELSE waited
      /\ UNCHANGED <<phase, commandQueue, inputs, restarts>>
      /\ UNCHANGED <<state, timer, transmitQueue, receiveQueue, chip,
                     nextId, firstId, aired, nextPacket, lastRead>>
  BY DEF Tick, Hub!Tick
<1>3. /\ waited \in Nat /\ turn \in 0 .. LongestTurn /\ turn + 1 \in 0 .. LongestTurn
      /\ timer \in 0 .. ClockModulus - 1 /\ now \in 0 .. ClockModulus - 1
      /\ (now + 1) % ClockModulus \in 0 .. ClockModulus - 1
  BY <1>1, <1>2, TimeAssumption DEF TypeOK, R!ClockValues
<1>4. state = "WaitForMessageSent" =>
        /\ now = (timer + waited) % ClockModulus
        /\ waited + 1 < MessageSendTimeoutMs + (turn + 1)
                          + (IF phase \in {"web", "queue"} THEN 0 ELSE LongestTurn)
        /\ waited < LongestWait
  BY <1>1, <1>2, <1>3, TimeAssumption DEF PolledInTime, LongestWait
<1>5. Inv'
  <2>1. TypeOK'
    BY <1>1, <1>2, <1>3 DEF TypeOK, R!ClockValues, Loadable
  <2>2. CallsCounted' /\ MessageToTake'
    BY <1>1, <1>2 DEF CallsCounted, MessageToTake
  <2>3. state = "WaitForMessageSent" => now' = (timer + (waited + 1)) % ClockModulus
    <3> SUFFICES ASSUME state = "WaitForMessageSent"
                 PROVE  now' = (timer + (waited + 1)) % ClockModulus
      OBVIOUS
    <3>1. /\ waited \in 0 .. ClockModulus - 1 /\ waited + 1 < ClockModulus
          /\ ClockModulus \in Nat
      BY <1>3, <1>4, TimeAssumption DEF LongestWait
    <3>2. (((timer + waited) % ClockModulus) + 1) % ClockModulus
            = (timer + (waited + 1)) % ClockModulus
      BY <1>3, <3>1, NextReading
    <3> QED
      BY <1>2, <1>4, <3>2
  <2>4. PolledInTime'
    BY <1>2, <1>4, <2>3 DEF PolledInTime
  <2> QED
    BY <2>1, <2>2, <2>4 DEF Inv
<1>6. R!Tick
  BY <1>2, <1>4 DEF R!Tick, R!queueVars, R!messageVars, R!packetVars
<1>7. Hub!Tick
  BY DEF Tick
<1> QED
  BY <1>5, <1>6, <1>7 DEF R!Next, Hub!Next

\* Both restart at once.
LEMMA StepsOfReset ==
  ASSUME Inv, Restart
  PROVE  Inv' /\ [R!Next]_(R!vars) /\ [Hub!Next]_(Hub!vars)
<1>1. TypeOK /\ CallsCounted /\ MessageToTake /\ PolledInTime
  BY DEF Inv
<1>2. R!Restart /\ Hub!Restart
  BY DEF Restart
<1>3. /\ state' = "Booting" /\ transmitQueue' = << >> /\ timer' = 0 /\ now' = 0
      /\ waited' = 0 /\ nextId' = nextId
  BY <1>2 DEF R!Restart
<1>4. phase' = "core" /\ commandQueue' = << >> /\ turn' = 0 /\ inputs' = inputs
  BY <1>2 DEF Hub!Restart
<1>5. Loadable(chip')
  <2>1. CASE chip' = R!PowerOn
    <3>1. << >> \in Seq(Message) /\ Len(<< >>) = 0
      OBVIOUS
    <3> QED
      BY <2>1, <3>1 DEF R!PowerOn, Loadable
  <2>2. ASSUME NEW c \in R!PartWay, NEW level \in BOOLEAN, chip' = [c EXCEPT !.ce = level]
        PROVE  Loadable(chip')
    <3>1. Loadable(c)
      BY <1>1, CutOffLoadable
    <3> QED
      BY <2>2, <3>1 DEF Loadable
  <2> QED
    BY <1>2, <2>1, <2>2 DEF R!Restart
<1>6. << >> \in Seq(Message) /\ << >> \in Seq(Entry) /\ Len(<< >>) = 0
  OBVIOUS
<1>7. 0 \in R!ClockValues /\ 0 \in 0 .. LongestTurn
  BY TimeAssumption DEF R!ClockValues, LongestWait
<1>8. TypeOK'
  BY <1>1, <1>3, <1>4, <1>5, <1>6, <1>7 DEF TypeOK, Hub!Phases, R!States, Entry, Loadable
<1>9. CallsCounted'
  <2>1. /\ commandQueue \in Seq(Entry) /\ Len(commandQueue) \in Nat
        /\ nextId \in Nat /\ inputs \in Nat
    BY <1>1, SizeAssumption DEF TypeOK, Entry
  <2>2. nextId - 1 + Len(commandQueue) <= 5 * inputs
    BY <1>1 DEF CallsCounted, CallsPerInput, Hub!MaxDeviceIndex
  <2>3. nextId - 1 + 0 <= 5 * inputs
    BY <2>1, <2>2
  <2> QED
    BY <1>3, <1>4, <1>6, <2>3 DEF CallsCounted, CallsPerInput, Hub!MaxDeviceIndex
<1>10. Inv'
  BY <1>3, <1>8, <1>9 DEF Inv, MessageToTake, PolledInTime
<1> QED
  BY <1>2, <1>10 DEF R!Next, Hub!Next
-----------------------------------------------------------------------------
(* Theorems.                                                               *)

\* Every step of the hub is a step of each of its components, or none of theirs.
LEMMA StepsOfHub ==
  ASSUME Inv, [Next]_vars
  PROVE  Inv' /\ [R!Next]_(R!vars) /\ [Hub!Next]_(Hub!vars)
<1>1. CASE CoreTask \/ WebTask \/ RunCommandQueue \/ SkipCommandQueue
  <2>1. Inv' /\ [R!Next]_(R!vars)
    BY <1>1, CallsOfController
  <2>2. Hub!CoreTask \/ Hub!WebTask \/ Hub!RunCommandQueue \/ Hub!SkipCommandQueue
    BY <1>1 DEF CoreTask, WebTask, RunCommandQueue, SkipCommandQueue, Calling
  <2> QED
    BY <2>1, <2>2 DEF Hub!Next, Hub!Loop
<1>2. CASE RadioTask
  BY <1>2, TurnOfRadio DEF Hub!Next, Hub!Loop
<1>3. CASE Answer \/ Receive \/ Boot
  BY <1>3, StepsOfChip
<1>4. CASE Tick
  BY <1>4, StepsOfTime
<1>5. CASE Restart
  BY <1>5, StepsOfReset
<1>6. CASE UNCHANGED vars
  <2>1. UNCHANGED R!vars
    BY <1>6 DEF vars, radioVars, R!vars, R!queueVars, R!clockVars, R!messageVars, R!packetVars
  <2>2. UNCHANGED Hub!vars
    <3>1. /\ UNCHANGED <<phase, commandQueue, lastExec, now, sinceExec, turn, inputs,
                         restarts, nextId, transmitQueue, chip>>
      BY <1>6 DEF vars, radioVars, controllerVars
    <3>2. /\ Requested(transmitQueue)' = Requested(transmitQueue)
          /\ Requested(chip.txFifo)' = Requested(chip.txFifo)
      BY <3>1 DEF Requested
    <3> QED
      BY <3>1, <3>2 DEF Hub!vars, Hub!linkVars, Hub!timeVars
  <2>3. Inv'
    BY <1>6 DEF vars, radioVars, controllerVars, Inv, TypeOK, CallsCounted, MessageToTake,
       PolledInTime, Loadable
  <2> QED
    BY <2>1, <2>2, <2>3
<1> QED
  BY <1>1, <1>2, <1>3, <1>4, <1>5, <1>6 DEF Next, Loop

(***************************************************************************)
(* The radio is polled in time and has something to take when it takes it, *)
(* and no more messages are handed to it than the inputs account for.      *)
(***************************************************************************)
THEOREM InvHolds == Spec => []Inv
<1>1. Init => Inv
  BY InvInit
<1>2. Inv /\ [Next]_vars => Inv'
  BY StepsOfHub
<1> QED
  BY <1>1, <1>2, PTL DEF Spec

(***************************************************************************)
(* The hub's loop and the timeout are quick enough for Radio's assumption  *)
(* about its polls: what was shown of Radio is true in the whole hub.      *)
(***************************************************************************)
THEOREM RadioIsUsedCorrectly == Spec => HubImplementsRadio
<1>1. Init => R!Init
  BY DEF Init
<1>2. Inv /\ [Next]_vars => [R!Next]_(R!vars)
  BY StepsOfHub
<1> QED
  BY <1>1, <1>2, InvHolds, PTL DEF Spec, HubImplementsRadio, R!Spec

(***************************************************************************)
(* The radio's machine is what the controller was shown correct with: what *)
(* was shown of Smch is true in the whole hub.                             *)
(***************************************************************************)
THEOREM ControllerIsServed == Spec => ImplementsController
<1>1. Init => Hub!Init
  BY DEF Init
<1>2. Inv /\ [Next]_vars => [Hub!Next]_(Hub!vars)
  BY StepsOfHub
<1> QED
  BY <1>1, <1>2, InvHolds, PTL DEF Spec, ImplementsController, Hub!Spec
-----------------------------------------------------------------------------
(* What is proved of each component, for the hub.                          *)

Machine == INSTANCE RadioProofs WITH
             Packet <- 1 .. MaxPackets,
             Address <- DeviceAddress \cup {OwnAddress, ResetAddress}

\* The assumptions under which it is proved are those of the hub.
LEMMA MachineAssumptions ==
  /\ Machine!MessageAssumption /\ Machine!PacketAssumption /\ Machine!QueueSizeAssumption
  /\ Machine!ClockAssumption /\ Machine!RestartAssumption
  /\ Machine!AddressAssumption /\ Machine!FifoDepthAssumption
<1>1. Machine!MessageAssumption
  <2> SUFFICES ASSUME NEW m \in Message
               PROVE  m.id \in Nat /\ m.address \in DeviceAddress \cup {OwnAddress, ResetAddress}
    BY DEF Machine!MessageAssumption
  <2>1. PICK call \in Calls, n \in 1 .. MaxMessages : m = Numbered(call, n)
    BY DEF Message
  <2>2. m.id = n /\ m.address = call.address
    BY <2>1 DEF Numbered
  <2>3. call.address \in DeviceAddress
    BY CallsAssumption DEF Request
  <2> QED
    BY <2>2, <2>3
<1>2. /\ Machine!PacketAssumption /\ Machine!QueueSizeAssumption
      /\ Machine!ClockAssumption /\ Machine!RestartAssumption
  <2>1. MessageSendTimeoutMs <= LongestWait
    BY TimeAssumption DEF LongestWait
  <2>2. LongestWait \in Nat /\ LongestWait < ClockModulus
    BY TimeAssumption DEF LongestWait
  <2>3. Machine!ClockAssumption
    BY <2>1, <2>2, TimeAssumption DEF Machine!ClockAssumption
  <2> QED
    BY <2>3, SizeAssumption
       DEF Machine!PacketAssumption, Machine!QueueSizeAssumption, Machine!RestartAssumption
<1>3. Machine!AddressAssumption /\ Machine!FifoDepthAssumption
  BY HubAddressAssumption, NoAddressAssumption, SizeAssumption
     DEF Machine!AddressAssumption, Machine!FifoDepthAssumption
<1> QED
  BY <1>1, <1>2, <1>3

\* The initial states and the steps are the same.
LEMMA SameInit == R!Init <=> Machine!Init
BY DEF R!Init, Machine!Init, R!PowerOn, Machine!PowerOn

LEMMA SameCalls ==
  /\ R!Boot => Machine!Boot
  /\ \A m \in Message : R!SendMessage(m) => Machine!SendMessage(m)
  /\ R!NextIncomingMessage => Machine!NextIncomingMessage
<1> USE DEF R!queueVars, Machine!queueVars, R!messageVars, Machine!messageVars,
            R!clockVars, Machine!clockVars, R!packetVars, Machine!packetVars
<1>1. R!Boot => Machine!Boot
  BY DEF R!Boot, Machine!Boot, R!initTransceiver, Machine!initTransceiver,
     R!nrf24_power_down, Machine!nrf24_power_down,
     R!nrf24_clear_interrupts, Machine!nrf24_clear_interrupts
<1>2. \A m \in Message : R!SendMessage(m) => Machine!SendMessage(m)
  BY DEF R!SendMessage, Machine!SendMessage, R!Pushed, Machine!Pushed
<1>3. R!NextIncomingMessage => Machine!NextIncomingMessage
  BY DEF R!NextIncomingMessage, Machine!NextIncomingMessage, R!Popped, Machine!Popped
<1> QED
  BY <1>1, <1>2, <1>3

\* The driver's functions, too, are the same.
LEMMA SameDriver ==
  /\ \A c : R!nrf24_power_up(c) = Machine!nrf24_power_up(c)
  /\ \A c : R!nrf24_power_down(c) = Machine!nrf24_power_down(c)
  /\ \A c : R!nrf24_clear_interrupts(c) = Machine!nrf24_clear_interrupts(c)
  /\ \A c : R!nrf24_flush_rx(c) = Machine!nrf24_flush_rx(c)
  /\ \A c : R!nrf24_flush_tx(c) = Machine!nrf24_flush_tx(c)
  /\ \A c, a : R!nrf24_set_tx_address(c, a) = Machine!nrf24_set_tx_address(c, a)
  /\ \A c, a : R!nrf24_set_rx_address(c, a) = Machine!nrf24_set_rx_address(c, a)
  /\ \A c, p : R!nrf24_set_config(c, p) = Machine!nrf24_set_config(c, p)
  /\ \A c, m : R!nrf24_write_tx_payload(c, m) = Machine!nrf24_write_tx_payload(c, m)
  /\ \A c : R!ReadAllPayloads(c) = Machine!ReadAllPayloads(c)
  /\ R!IrqAsserted(chip) <=> Machine!IrqAsserted(chip)
  /\ R!TimedOut <=> Machine!TimedOut
BY DEF R!nrf24_power_up, Machine!nrf24_power_up, R!nrf24_power_down,
   Machine!nrf24_power_down, R!nrf24_clear_interrupts, Machine!nrf24_clear_interrupts,
   R!nrf24_flush_rx, Machine!nrf24_flush_rx, R!nrf24_flush_tx, Machine!nrf24_flush_tx,
   R!nrf24_set_tx_address, Machine!nrf24_set_tx_address, R!nrf24_set_rx_address,
   Machine!nrf24_set_rx_address, R!Written, Machine!Written, R!nrf24_set_config,
   Machine!nrf24_set_config, R!nrf24_write_tx_payload, Machine!nrf24_write_tx_payload,
   R!ReadAllPayloads, Machine!ReadAllPayloads, R!IrqAsserted, Machine!IrqAsserted,
   R!TimedOut, Machine!TimedOut

LEMMA SameModes ==
  \A c, mode, a : R!setTransceiverMode(c, mode, a) = Machine!setTransceiverMode(c, mode, a)
BY SameDriver, Zenon DEF R!setTransceiverMode, Machine!setTransceiverMode

LEMMA SameTask == R!Task => Machine!Task
<1> USE DEF R!queueVars, Machine!queueVars, R!messageVars, Machine!messageVars,
            R!clockVars, Machine!clockVars, R!packetVars, Machine!packetVars
<1>1. R!Idle => Machine!Idle
  BY DEF R!Idle, Machine!Idle, R!MessageReceived, Machine!MessageReceived,
     R!IrqAsserted, Machine!IrqAsserted
<1>2. R!SendNextQueuedMessage => Machine!SendNextQueuedMessage
  BY SameModes, SameDriver
     DEF R!SendNextQueuedMessage, Machine!SendNextQueuedMessage, R!Popped, Machine!Popped
<1>3. R!WaitForMessageSent => Machine!WaitForMessageSent
  BY SameModes, SameDriver
     DEF R!WaitForMessageSent, Machine!WaitForMessageSent, R!BackToReceiver,
         Machine!BackToReceiver
<1>4. R!ReadReceivedMessages => Machine!ReadReceivedMessages
  BY SameDriver DEF R!ReadReceivedMessages, Machine!ReadReceivedMessages,
     R!PushedAll, Machine!PushedAll
<1> QED
  BY <1>1, <1>2, <1>3, <1>4 DEF R!Task, Machine!Task

LEMMA SameEnvironment ==
  /\ R!Transceiver => Machine!Transceiver
  /\ R!Tick => Machine!Tick
  /\ R!Restart => Machine!Restart
<1> USE DEF R!queueVars, Machine!queueVars, R!messageVars, Machine!messageVars,
            R!clockVars, Machine!clockVars, R!packetVars, Machine!packetVars
<1>1. R!ChipAcknowledged => Machine!ChipAcknowledged
  BY DEF R!ChipAcknowledged, Machine!ChipAcknowledged, R!CanBeAcknowledged,
     Machine!CanBeAcknowledged, R!CanTransmit, Machine!CanTransmit, R!Acknowledged,
     Machine!Acknowledged, R!AiredBy, Machine!AiredBy
<1>2. R!ChipRetriesExhausted => Machine!ChipRetriesExhausted
  BY DEF R!ChipRetriesExhausted, Machine!ChipRetriesExhausted, R!CanTransmit,
     Machine!CanTransmit, R!RetriesExhausted, Machine!RetriesExhausted,
     R!AiredBy, Machine!AiredBy
<1>3. \A p : R!ChipReceive(p) => Machine!ChipReceive(p)
  BY DEF R!ChipReceive, Machine!ChipReceive, R!CanReceive, Machine!CanReceive,
     R!Received, Machine!Received
<1>4. R!Transceiver => Machine!Transceiver
  BY <1>1, <1>2, <1>3 DEF R!Transceiver, Machine!Transceiver
<1>5. R!Tick => Machine!Tick
  BY DEF R!Tick, Machine!Tick
<1>6. R!PartWay = Machine!PartWay
  BY SameDriver DEF R!PartWay, Machine!PartWay
<1>7. R!Restart => Machine!Restart
  BY <1>6 DEF R!Restart, Machine!Restart, R!PowerOn, Machine!PowerOn
<1> QED
  BY <1>4, <1>5, <1>7

\* Every step of the radio in the hub is one of the radio that was proved correct.
LEMMA SameSteps == [R!Next]_(R!vars) => [Machine!Next]_(Machine!vars)
<1>1. R!Next => Machine!Next
  BY SameCalls, SameTask, SameEnvironment DEF R!Next, Machine!Next
<1>2. UNCHANGED R!vars => UNCHANGED Machine!vars
  BY DEF R!vars, Machine!vars, R!queueVars, Machine!queueVars, R!messageVars,
     Machine!messageVars, R!clockVars, Machine!clockVars, R!packetVars, Machine!packetVars
<1> QED
  BY <1>1, <1>2

LEMMA RadioOfHub == Spec => Machine!Spec
<1>1. Spec => R!Spec
  BY RadioIsUsedCorrectly DEF HubImplementsRadio
<1> QED
  BY <1>1, SameInit, SameSteps, PTL DEF R!Spec, Machine!Spec

-----------------------------------------------------------------------------
(* The same for the controller.                                            *)

Controller == INSTANCE SmchProofs WITH
                radioQueue <- Requested(transmitQueue),
                flight <- Requested(chip.txFifo),
                sends <- nextId - 1

LEMMA ControllerAssumptions ==
  /\ Controller!NoAddressAssumption /\ Controller!RequestsAssumption
  /\ Controller!ShuttersAssumption /\ Controller!PinsAssumption
  /\ Controller!BoundsAssumption /\ Controller!TimeAssumption
<1>1. Hub!WebRequest = Controller!WebRequest
  BY DEF Hub!WebRequest, Controller!WebRequest, Hub!Target, Controller!Target
<1> QED
  BY <1>1, NoAddressAssumption, InputsAssumption, SizeAssumption, TimeAssumption
     DEF Controller!NoAddressAssumption, Controller!RequestsAssumption,
         Controller!ShuttersAssumption, Controller!PinsAssumption,
         Controller!BoundsAssumption, Controller!TimeAssumption,
         Controller!DeviceAddress, DeviceAddress

LEMMA SameControllerInit == Hub!Init <=> Controller!Init
BY DEF Hub!Init, Controller!Init, Hub!Link!Init, Controller!Link!Init

\* A call of sendMessage() is the same.
LEMMA SameSend ==
  ASSUME NEW device, NEW command
  PROVE  Hub!sendRemoteControlCommand(device, command)
           <=> Controller!sendRemoteControlCommand(device, command)
BY DEF Hub!sendRemoteControlCommand, Controller!sendRemoteControlCommand,
       Hub!Link!Accept, Controller!Link!Accept,
       Hub!createCommandRequest, Controller!createCommandRequest,
       Hub!commandToProtocolCmd, Controller!commandToProtocolCmd,
       Hub!deviceIndexToAddress, Controller!deviceIndexToAddress

LEMMA SameFrontEnds ==
  /\ \A motor, up : Hub!MotorCommand(motor, up) = Controller!MotorCommand(motor, up)
  /\ Hub!MqttDevice = Controller!MqttDevice /\ Hub!MqttMotor = Controller!MqttMotor
  /\ \A c : Hub!AllEntries(c) = Controller!AllEntries(c)
  /\ \A r : Hub!canHandle(r) = Controller!canHandle(r) /\ Hub!handle(r) = Controller!handle(r)
  /\ \A pin : Hub!PinDevice(pin) = Controller!PinDevice(pin)
  /\ \A pin, d : Hub!IsPinCommand(pin, d) = Controller!IsPinCommand(pin, d)
  /\ \A pin, d : Hub!PinCommand(pin, d) = Controller!PinCommand(pin, d)
<1>1. /\ \A motor, up : Hub!MotorCommand(motor, up) = Controller!MotorCommand(motor, up)
      /\ Hub!MqttDevice = Controller!MqttDevice /\ Hub!MqttMotor = Controller!MqttMotor
      /\ \A c : Hub!AllEntries(c) = Controller!AllEntries(c)
  BY DEF Hub!MotorCommand, Controller!MotorCommand, Hub!MqttDevice, Controller!MqttDevice,
     Hub!MqttMotor, Controller!MqttMotor, Hub!AllEntries, Controller!AllEntries,
     Hub!MaxDeviceIndex, Controller!MaxDeviceIndex
<1>2. \A r : Hub!canHandle(r) = Controller!canHandle(r) /\ Hub!handle(r) = Controller!handle(r)
  BY DEF Hub!canHandle, Controller!canHandle, Hub!handle, Controller!handle,
     Hub!onIncomingCommandRequest, Controller!onIncomingCommandRequest,
     Hub!handleCommand, Controller!handleCommand, Hub!Handled, Controller!Handled,
     Hub!NotHandled, Controller!NotHandled, Hub!AllDevices, Controller!AllDevices
<1>3. /\ \A pin : Hub!PinDevice(pin) = Controller!PinDevice(pin)
      /\ \A pin, d : Hub!IsPinCommand(pin, d) = Controller!IsPinCommand(pin, d)
      /\ \A pin, d : Hub!PinCommand(pin, d) = Controller!PinCommand(pin, d)
  BY DEF Hub!PinDevice, Controller!PinDevice, Hub!IsPinCommand, Controller!IsPinCommand,
     Hub!PinCommand, Controller!PinCommand, Hub!LutIndex, Controller!LutIndex,
     Hub!DeviceIndexLut, Controller!DeviceIndexLut, Hub!UpCommandLut,
     Controller!UpCommandLut, Hub!DownCommandLut, Controller!DownCommandLut,
     Hub!Shutter1, Controller!Shutter1, Hub!Shutter7, Controller!Shutter7
<1> QED
  BY <1>1, <1>2, <1>3

\* The calls of the main loop are the same.
LEMMA SameLoop ==
  /\ Hub!CoreTask => Controller!CoreTask
  /\ Hub!RadioTask => Controller!RadioTask
  /\ Hub!WebTask => Controller!WebTask
  /\ Hub!RunCommandQueue => Controller!RunCommandQueue
  /\ Hub!SkipCommandQueue => Controller!SkipCommandQueue
<1> USE DEF Hub!linkVars, Controller!linkVars, Hub!Proceed, Controller!Proceed
<1>1. Hub!CountInput <=> Controller!CountInput
  BY DEF Hub!CountInput, Controller!CountInput
<1>2. Hub!CoreTask => Controller!CoreTask
  BY <1>1, SameFrontEnds, SameSend
     DEF Hub!CoreTask, Controller!CoreTask, Hub!MqttChanged, Controller!MqttChanged,
         Hub!BlynkPinWritten, Controller!BlynkPinWritten
<1>3. Hub!RadioTask => Controller!RadioTask
  BY DEF Hub!RadioTask, Controller!RadioTask, Hub!Link!Begin, Controller!Link!Begin,
     Hub!Link!GiveUp, Controller!Link!GiveUp
<1>4. \A command, index : Hub!handleWebApiCommand(command, index)
                            => Controller!handleWebApiCommand(command, index)
  BY SameFrontEnds, SameSend
     DEF Hub!handleWebApiCommand, Controller!handleWebApiCommand, Hub!AllDevices,
         Controller!AllDevices, Hub!AllAdmitted, Controller!AllAdmitted,
         Hub!IsMotorIndex, Controller!IsMotorIndex
<1>5. \A r : Hub!HttpRequest(r) => Controller!HttpRequest(r)
  BY <1>1, <1>4, SameFrontEnds DEF Hub!HttpRequest, Controller!HttpRequest
<1>6. Hub!WebTask => Controller!WebTask
  BY <1>5 DEF Hub!WebTask, Controller!WebTask
<1>7. /\ Hub!RunCommandQueue => Controller!RunCommandQueue
      /\ Hub!SkipCommandQueue => Controller!SkipCommandQueue
  BY SameSend DEF Hub!RunCommandQueue, Controller!RunCommandQueue, Hub!IntervalElapsed,
     Controller!IntervalElapsed, Hub!SkipCommandQueue, Controller!SkipCommandQueue
<1> QED
  BY <1>2, <1>3, <1>6, <1>7

\* So is every step of the controller in the hub.
LEMMA SameControllerSteps == [Hub!Next]_(Hub!vars) => [Controller!Next]_(Controller!vars)
<1> USE DEF Hub!linkVars, Controller!linkVars, Hub!timeVars, Controller!timeVars
<1>1. Hub!Loop => Controller!Loop
  BY SameLoop DEF Hub!Loop, Controller!Loop
<1>2. Hub!Acknowledge => Controller!Acknowledge
  BY DEF Hub!Acknowledge, Controller!Acknowledge, Hub!Link!GiveUp, Controller!Link!GiveUp
<1>3. Hub!Tick => Controller!Tick
  BY DEF Hub!Tick, Controller!Tick
<1>4. Hub!Restart => Controller!Restart
  BY DEF Hub!Restart, Controller!Restart, Hub!Link!Restart, Controller!Link!Restart,
     Hub!Link!HeadOf, Controller!Link!HeadOf
<1>5. UNCHANGED Hub!vars => UNCHANGED Controller!vars
  BY DEF Hub!vars, Controller!vars
<1> QED
  BY <1>1, <1>2, <1>3, <1>4, <1>5 DEF Hub!Next, Controller!Next

LEMMA ControllerOfHub == Spec => Controller!Spec
<1>1. Spec => Hub!Spec
  BY ControllerIsServed DEF ImplementsController
<1> QED
  BY <1>1, SameControllerInit, SameControllerSteps, PTL DEF Hub!Spec, Controller!Spec
-----------------------------------------------------------------------------
(* What the hub can be relied on for.                                      *)

\* The properties of the two components, in the words of the hub.
LEMMA SameProperties ==
  /\ Machine!NoMisdelivery <=> R!NoMisdelivery
  /\ Machine!NoStaleFrameAfterBoot <=> R!NoStaleFrameAfterBoot
  /\ Machine!ListensWhenIdle <=> R!ListensWhenIdle
  /\ Machine!SentInOrderOnce <=> R!SentInOrderOnce
  /\ Machine!NoStrandedPacket <=> R!NoStrandedPacket
  /\ Machine!ReadInOrderOnce <=> R!ReadInOrderOnce
  /\ Controller!OnlyDeliverable <=> Hub!OnlyDeliverable
  /\ Controller!AllRunsThrough <=> Hub!AllRunsThrough
<1>1. Machine!CanTransmit(chip) <=> R!CanTransmit(chip)
  BY DEF Machine!CanTransmit, R!CanTransmit
<1>2. /\ Machine!NoMisdelivery <=> R!NoMisdelivery
      /\ Machine!NoStaleFrameAfterBoot <=> R!NoStaleFrameAfterBoot
  BY <1>1 DEF Machine!NoMisdelivery, R!NoMisdelivery, Machine!NoStaleFrameAfterBoot,
     R!NoStaleFrameAfterBoot
<1>3. Machine!ListensWhenIdle <=> R!ListensWhenIdle
  BY DEF Machine!ListensWhenIdle, R!ListensWhenIdle, Machine!Listening, R!Listening,
     Machine!Silent, R!Silent, Machine!IrqAsserted, R!IrqAsserted
<1>4. /\ Machine!SentInOrderOnce <=> R!SentInOrderOnce
      /\ Machine!NoStrandedPacket <=> R!NoStrandedPacket
  BY DEF Machine!SentInOrderOnce, R!SentInOrderOnce, Machine!NoStrandedPacket,
     R!NoStrandedPacket
<1>5. Machine!ReadInOrderOnce <=> R!ReadInOrderOnce
  BY DEF Machine!ReadInOrderOnce, R!ReadInOrderOnce, Machine!ReceivedPackets,
     R!ReceivedPackets
<1>6. Controller!OnlyDeliverable <=> Hub!OnlyDeliverable
  BY DEF Controller!OnlyDeliverable, Hub!OnlyDeliverable, Controller!Deliverable,
     Hub!Deliverable, Controller!DeviceAddress, Hub!DeviceAddress
<1>7. Controller!AllRunsThrough <=> Hub!AllRunsThrough
  BY DEF Controller!AllRunsThrough, Hub!AllRunsThrough, Controller!IsAll, Hub!IsAll,
     Controller!MaxDeviceIndex, Hub!MaxDeviceIndex
<1> QED
  BY <1>2, <1>3, <1>4, <1>5, <1>6, <1>7

(***************************************************************************)
(* What was proved of the radio for any client that polls it soon enough   *)
(* is true of it under this controller and in this main loop.              *)
(***************************************************************************)
THEOREM RadioIsSafe ==
  Spec => [](/\ R!NoMisdelivery /\ R!NoStaleFrameAfterBoot /\ R!ListensWhenIdle
             /\ R!SentInOrderOnce /\ R!NoStrandedPacket /\ R!ReadInOrderOnce)
<1>1. Machine!Spec => []Machine!NoMisdelivery /\ []Machine!NoStaleFrameAfterBoot
                      /\ []Machine!ListensWhenIdle
  BY Machine!NeverMisdelivers, Machine!NeverStaleAfterBoot, Machine!AlwaysListensWhenIdle,
     MachineAssumptions
<1>2. Machine!Spec => []Machine!SentInOrderOnce /\ []Machine!NoStrandedPacket
                      /\ []Machine!ReadInOrderOnce
  BY Machine!AlwaysInOrderOnce, Machine!NeverStrandsPacket, Machine!AlwaysReadInOrderOnce,
     MachineAssumptions
<1> QED
  BY <1>1, <1>2, RadioOfHub, SameProperties, PTL

(***************************************************************************)
(* What was proved of the controller over any radio that keeps RadioLink   *)
(* is true of it over this one.                                            *)
(***************************************************************************)
THEOREM ControllerIsSafe == Spec => [](Hub!OnlyDeliverable /\ Hub!AllRunsThrough)
<1>1. Controller!Spec => []Controller!OnlyDeliverable /\ []Controller!AllRunsThrough
  BY Controller!AlwaysDeliverable, Controller!AllAlwaysRunsThrough, ControllerAssumptions
<1> QED
  BY <1>1, ControllerOfHub, SameProperties, PTL

\* What the chip puts on the air was given to the radio by the controller.
LEMMA AiredMessage ==
  ASSUME Inv, R!NoMisdelivery, Hub!OnlyDeliverable, R!CanTransmit(chip),
         NEW a \in R!AiredBy(chip)
  PROVE  a[2].address = a[1] /\ Hub!Deliverable(a[2])
<1>1. chip.txFifo \in Seq(Message) /\ Len(chip.txFifo) = 1
      /\ chip.txAddr = Head(chip.txFifo).address
  BY DEF Inv, TypeOK, Loadable, R!NoMisdelivery
<1>2. a = <<chip.txAddr, Head(chip.txFifo)>> /\ Head(chip.txFifo) = chip.txFifo[1]
  BY <1>1 DEF R!AiredBy
<1>3. /\ 1 \in DOMAIN Requested(chip.txFifo)
      /\ Requested(chip.txFifo)[1] = [address |-> chip.txFifo[1].address,
                                      command |-> chip.txFifo[1].command]
  BY <1>1, RequestedShape
<1>4. Hub!Deliverable(Requested(chip.txFifo)[1])
  BY <1>3 DEF Hub!OnlyDeliverable
<1>5. Hub!Deliverable(chip.txFifo[1])
  BY <1>3, <1>4 DEF Hub!Deliverable
<1> QED
  BY <1>1, <1>2, <1>5

(***************************************************************************)
(* From the button to the air: for every request that comes in, whatever   *)
(* the chip, the devices and the resets do, a device receives only what is *)
(* addressed to it and tells it something.                                 *)
(***************************************************************************)
THEOREM OnlyMeantIsEverAired == Spec => []OnlyMeantIsAired
<1>1. Init => OnlyMeantIsAired
  BY DEF Init, R!Init, OnlyMeantIsAired
<1>2. /\ Inv /\ R!NoMisdelivery /\ Hub!OnlyDeliverable
      /\ OnlyMeantIsAired /\ [Next]_vars
      => OnlyMeantIsAired'
  <2> SUFFICES ASSUME Inv, R!NoMisdelivery, Hub!OnlyDeliverable,
                      OnlyMeantIsAired, [Next]_vars
               PROVE  OnlyMeantIsAired'
    OBVIOUS
  <2>1. [R!Next]_(R!vars)
    BY StepsOfHub
  <2>2. \/ aired' = aired
        \/ R!CanTransmit(chip) /\ aired' = aired \cup R!AiredBy(chip)
    <3> USE DEF R!messageVars
    <3>1. CASE R!Transceiver
      BY <3>1 DEF R!Transceiver, R!ChipAcknowledged, R!ChipRetriesExhausted,
         R!ChipReceive, R!CanBeAcknowledged
    <3>2. CASE R!Boot \/ R!NextIncomingMessage \/ R!Tick \/ R!Restart
      BY <3>2 DEF R!Boot, R!NextIncomingMessage, R!Tick, R!Restart
    <3>3. CASE \E m \in Message : R!SendMessage(m)
      BY <3>3 DEF R!SendMessage
    <3>4. CASE R!Task
      BY <3>4 DEF R!Task, R!Idle, R!SendNextQueuedMessage, R!WaitForMessageSent,
         R!ReadReceivedMessages
    <3>5. CASE UNCHANGED R!vars
      BY <3>5 DEF R!vars
    <3> QED
      BY <2>1, <3>1, <3>2, <3>3, <3>4, <3>5 DEF R!Next
  <2>3. ASSUME NEW a \in aired' PROVE a[2].address = a[1] /\ Hub!Deliverable(a[2])
    BY <2>2, <2>3, AiredMessage DEF OnlyMeantIsAired
  <2> QED
    BY <2>3 DEF OnlyMeantIsAired, Hub!Deliverable
<1> QED
  BY <1>1, <1>2, InvHolds, RadioIsSafe, ControllerIsSafe, PTL DEF Spec
=============================================================================
