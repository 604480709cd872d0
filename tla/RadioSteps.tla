------------------------------ MODULE RadioSteps ------------------------------
(***************************************************************************)
(* The radio one access to the transceiver at a time.  Radio takes a       *)
(* branch of runStateMachine() as one step and lets CE stop the chip; here *)
(* a branch is a script of accesses, the chip acts between any two of them *)
(* and goes on with a transmission when CE goes low, and a reset of the    *)
(* processor comes at any point of a script.                               *)
(*                                                                         *)
(* Accesses that change nothing in a chip of Nrf24 are left out of the     *)
(* scripts, but for those whose result decides what comes next.            *)
(***************************************************************************)
EXTENDS Nrf24, Integers

CONSTANTS
  QueueSize, ClockModulus, MessageSendTimeoutMs, MaxRestarts,
  LongestWait,  \* bound: as in Radio
  AirTime       \* the time in which a chip that is alive ends a transmission

ASSUME AirTimeAssumption == AirTime \in Nat /\ AirTime < MessageSendTimeoutMs

VARIABLES
  state, timer, transmitQueue, receiveQueue,  \* as in Radio
  script,    \* what the running branch still has to do
  message,   \* its local variable: the message that is sent
  payload,   \* its local variable: the packet that is read
  chip,      \* registers and FIFOs
  burst,     \* the transmission under way: none, or address and message
  alive,     \* the chip has not fallen silent
  now,
  (* History variables:                                                    *)
  waited, nextId, firstId, aired, nextPacket, lastRead, restarts, \* as in Radio
  airing,    \* how long the transmission has been under way
  late,      \* a transmission was under way when CE went low
  seen       \* chip and receive queue before the running branch lowered CE

branchVars  == <<script, message, payload>>
chipVars    == <<chip, burst, alive, airing, late>>
queueVars   == <<transmitQueue, receiveQueue>>
clockVars   == <<timer, now, waited>>
messageVars == <<nextId, firstId, aired>>
packetVars  == <<nextPacket, lastRead>>
vars == <<state, branchVars, chipVars, queueVars, clockVars, messageVars,
          packetVars, restarts, seen>>
-----------------------------------------------------------------------------
(* The functions, as the accesses they make.                               *)

\* The pin is made an output and set high before nrf24_init sets it low.
initTransceiver == <<"power_up", "power_down", "clear_interrupts">>

\* Variants: the FIFOs are emptied after, or not before, the addresses change.
setTransceiverModeFlushLast(addresses, config) ==
  <<"power_down", "clear_interrupts">> \o addresses \o <<config>>
    \o <<"flush_rx", "flush_tx">>

setTransceiverMode(addresses, config) ==
  <<"power_down", "clear_interrupts", "flush_rx", "flush_tx">>
    \o addresses \o <<config>>

transmit ==
  setTransceiverMode(<<"set_tx_address", "set_rx_address">>, "set_transmitter")
    \o <<"write_tx_payload", "power_up">>

listen == setTransceiverMode(<<"set_own_address">>, "set_receiver") \o <<"power_up">>

readMessages == <<"power_down", "clear_interrupts", "get_fifo_status", "power_up">>

\* What an access makes of the chip.
Accessed(step, c) ==
  CASE step = "power_down"       -> nrf24_power_down(c)
    [] step = "power_up"         -> nrf24_power_up(c)
    [] step = "clear_interrupts" -> nrf24_clear_interrupts(c)
    [] step = "flush_rx"         -> nrf24_flush_rx(c)
    [] step = "flush_tx"         -> nrf24_flush_tx(c)
    [] step = "set_tx_address"   -> nrf24_set_tx_address(c, message.address)
    [] step = "set_rx_address"   -> nrf24_set_rx_address(c, message.address)
    [] step = "set_own_address"  -> nrf24_set_rx_address(c, OwnAddress)
    [] step = "set_transmitter"  -> nrf24_set_config(c, FALSE)
    [] step = "set_receiver"     -> nrf24_set_config(c, TRUE)
    [] step = "write_tx_payload" -> nrf24_write_tx_payload(c, message)

Accesses ==
  {"power_down", "power_up", "clear_interrupts", "flush_rx", "flush_tx",
   "set_tx_address", "set_rx_address", "set_own_address", "set_transmitter",
   "set_receiver", "write_tx_payload"}

At(steps) == script # << >> /\ Head(script) \in steps

\* How the chip and the receive queue look to Radio.
View(c, received) == [chip |-> c, received |-> received]

(***************************************************************************)
(* Radio sees a branch when it is over: until then, what was there when CE *)
(* went low.  While the hub boots, CE may be high at any time.             *)
(***************************************************************************)
Seen ==
  seen' = IF state' = "Booting"
          THEN View([chip' EXCEPT !.ce = chip'.pwrUp], receiveQueue')
          ELSE IF script' # << >> /\ ~ chip'.ce THEN seen
          ELSE View(chip', receiveQueue')
-----------------------------------------------------------------------------
(* The beginning of a branch.                                              *)

\* Variants: comparison of instants; subtraction wider than the clock.
ReachedDeadline == now >= (timer + MessageSendTimeoutMs) % ClockModulus

TimedOut == (now - timer) % ClockModulus >= MessageSendTimeoutMs

Begin(steps) == script = << >> /\ script' = steps

Boot ==
  /\ state = "Booting"
  /\ Begin(initTransceiver)
  /\ UNCHANGED <<state, message, payload, queueVars>>

\* The pin is read first, and STATUS only if it is low.
Idle ==
  /\ state = "Idle"
  /\ \/ IrqAsserted(chip) /\ Begin(<<"get_status">>) /\ UNCHANGED state
     \/ /\ ~ IrqAsserted(chip)
        /\ transmitQueue # << >>
        /\ Begin(<< >>)
        /\ state' = "SendNextQueuedMessage"
  /\ UNCHANGED <<message, payload, queueVars>>

SendNextQueuedMessage ==
  /\ state = "SendNextQueuedMessage"
  /\ Begin(transmit)
  /\ message' = Head(transmitQueue)
  /\ transmitQueue' = Tail(transmitQueue)
  /\ UNCHANGED <<state, payload, receiveQueue>>

\* With an interrupt STATUS is read as well, but both ways go on alike.
WaitForMessageSent ==
  /\ state = "WaitForMessageSent"
  /\ IrqAsserted(chip) \/ TimedOut
  /\ Begin(listen)
  /\ UNCHANGED <<state, message, payload, queueVars>>

ReadReceivedMessages ==
  /\ state = "ReadReceivedMessages"
  /\ Begin(readMessages)
  /\ UNCHANGED <<state, message, payload, queueVars>>

Branch ==
  /\ Boot \/ Idle \/ SendNextQueuedMessage \/ WaitForMessageSent \/ ReadReceivedMessages
  /\ UNCHANGED <<chipVars, clockVars, messageVars, packetVars, restarts>>
  /\ Seen
-----------------------------------------------------------------------------
(* The accesses of a branch.                                               *)

\* What follows the last access of a branch: the next state, and the timer.
Returns ==
  /\ state' = CASE state = "SendNextQueuedMessage" -> "WaitForMessageSent" [] OTHER -> "Idle"
  /\ timer' = IF state = "SendNextQueuedMessage" THEN now ELSE timer
  /\ waited' = IF state \in {"SendNextQueuedMessage", "WaitForMessageSent"} THEN 0 ELSE waited

\* CE going low does not stop a transmission.
Access ==
  /\ At(Accesses)
  /\ chip' = Accessed(Head(script), chip)
  /\ late' = (late \/ (Head(script) = "power_down" /\ burst # << >>))
  /\ script' = Tail(script)
  /\ IF script' = << >> THEN Returns ELSE UNCHANGED <<state, timer, waited>>
  /\ UNCHANGED <<message, payload, burst, alive, airing, queueVars, now,
                 messageVars, packetVars, restarts>>
  /\ Seen

\* STATUS in Idle: a packet, or else a look at the queue.
GetStatus ==
  /\ At({"get_status"})
  /\ script' = << >>
  /\ state' = IF chip.rxDr THEN "ReadReceivedMessages"
              ELSE IF transmitQueue # << >> THEN "SendNextQueuedMessage" ELSE "Idle"
  /\ UNCHANGED <<message, payload, chipVars, queueVars, clockVars, messageVars,
                 packetVars, restarts>>
  /\ Seen

\* FIFO_STATUS: another round of the loop, or its end.
GetFifoStatus ==
  /\ At({"get_fifo_status"})
  /\ script' = IF chip.rxFifo = << >> THEN Tail(script)
               ELSE <<"read_rx_payload", "get_rx_address">> \o script
  /\ UNCHANGED <<state, message, payload, chipVars, queueVars, clockVars,
                 messageVars, packetVars, restarts>>
  /\ Seen

ReadPayload ==
  /\ At({"read_rx_payload"})
  /\ payload' = Head(chip.rxFifo)
  /\ chip' = [chip EXCEPT !.rxFifo = Tail(@)]
  /\ script' = Tail(script)
  /\ UNCHANGED <<state, message, burst, alive, airing, late, queueVars, clockVars,
                 messageVars, packetVars, restarts>>
  /\ Seen

\* Variant: the oldest message makes room for the newest.
PushedOverOldest(queue, p) ==
  IF Len(queue) < QueueSize THEN Append(queue, p) ELSE Append(Tail(queue), p)

Pushed(queue, p) == IF Len(queue) < QueueSize THEN Append(queue, p) ELSE queue

\* The address of pipe 0 is read, and the message is complete.
GetRxAddress ==
  /\ At({"get_rx_address"})
  /\ receiveQueue' = Pushed(receiveQueue, payload)
  /\ script' = Tail(script)
  /\ UNCHANGED <<state, message, payload, chipVars, transmitQueue, clockVars,
                 messageVars, packetVars, restarts>>
  /\ Seen

Task == Branch \/ Access \/ GetStatus \/ GetFifoStatus \/ ReadPayload \/ GetRxAddress
-----------------------------------------------------------------------------
(* Calls by the rest of the firmware, when no branch is running.           *)

SendMessage(m) ==
  /\ state # "Booting" /\ script = << >>
  /\ m.id = nextId
  /\ nextId' = nextId + 1
  /\ transmitQueue' = Pushed(transmitQueue, m)
  /\ UNCHANGED <<state, branchVars, chipVars, receiveQueue, clockVars, firstId,
                 aired, packetVars, restarts, seen>>

NextIncomingMessage ==
  /\ state # "Booting" /\ script = << >>
  /\ receiveQueue # << >>
  /\ lastRead' = Head(receiveQueue)
  /\ receiveQueue' = Tail(receiveQueue)
  /\ UNCHANGED <<state, branchVars, chipVars, transmitQueue, clockVars,
                 messageVars, nextPacket, restarts>>
  /\ Seen
-----------------------------------------------------------------------------
(* The transceiver, time, and resets.                                      *)

\* The payload goes out under the address that is in TX_ADDR now.
StartTransmission ==
  /\ alive /\ burst = << >>
  /\ CanTransmit(chip)
  /\ burst' = <<chip.txAddr, Head(chip.txFifo)>>
  /\ airing' = 0
  /\ UNCHANGED <<state, branchVars, chip, alive, late, queueVars, clockVars,
                 messageVars, packetVars, restarts, seen>>

\* Acknowledged, or out of retries; a payload flushed meanwhile is not in the FIFO.
EndTransmission ==
  /\ burst # << >>
  /\ burst' = << >>
  /\ \/ /\ chip.rxAddr = burst[1]
        /\ chip' = [chip EXCEPT !.txDs = TRUE,
                     !.txFifo = IF @ # << >> /\ Head(@) = burst[2] THEN Tail(@) ELSE @]
        /\ aired' = aired \cup {burst}
     \/ /\ chip' = RetriesExhausted(chip)
        /\ aired' \in {aired, aired \cup {burst}}
  /\ UNCHANGED <<state, branchVars, alive, airing, late, queueVars, clockVars,
                 nextId, firstId, packetVars, restarts>>
  /\ Seen

Receive(p) ==
  /\ alive /\ burst = << >>
  /\ CanReceive(chip)
  /\ p = nextPacket
  /\ chip' = Received(chip, p)
  /\ nextPacket' = nextPacket + 1
  /\ UNCHANGED <<state, branchVars, burst, alive, airing, late, queueVars,
                 clockVars, messageVars, lastRead, restarts>>
  /\ Seen

\* From now on the chip does nothing of its own, until it loses its power.
FallSilent ==
  /\ alive
  /\ alive' = FALSE
  /\ burst' = << >>
  /\ UNCHANGED <<state, branchVars, chip, airing, late, queueVars, clockVars,
                 messageVars, packetVars, restarts, seen>>

\* A chip that is alive starts at once and ends within AirTime.
Tick ==
  /\ state = "WaitForMessageSent" => waited < LongestWait
  /\ alive /\ CanTransmit(chip) => burst # << >>
  /\ burst # << >> => airing < AirTime
  /\ now' = (now + 1) % ClockModulus
  /\ waited' = IF state = "WaitForMessageSent" THEN waited + 1 ELSE waited
  /\ airing' = IF burst # << >> THEN airing + 1 ELSE 0
  /\ UNCHANGED <<state, timer, branchVars, chip, burst, alive, late, queueVars,
                 messageVars, packetVars, restarts, seen>>

\* The processor stops between two accesses; CE floats, or the power was cut.
Restart ==
  /\ restarts < MaxRestarts
  /\ restarts' = restarts + 1
  /\ state' = "Booting"
  /\ script' = << >>
  /\ \/ \E level \in BOOLEAN : chip' = [chip EXCEPT !.ce = level]
        /\ UNCHANGED <<burst, alive, airing>>
     \/ /\ chip' = PowerOn
        /\ burst' = << >> /\ alive' = TRUE /\ airing' = 0
  /\ transmitQueue' = << >> /\ receiveQueue' = << >>
  /\ timer' = 0 /\ now' = 0 /\ waited' = 0
  /\ firstId' = nextId
  /\ UNCHANGED <<message, payload, late, nextId, aired, packetVars>>
  /\ Seen

Environment ==
  \/ StartTransmission \/ EndTransmission \/ FallSilent \/ Tick \/ Restart
  \/ \E p \in Packet : Receive(p)

Init ==
  /\ state = "Booting" /\ timer = 0
  /\ transmitQueue = << >> /\ receiveQueue = << >>
  /\ script = << >> /\ message = << >> /\ payload = 0
  /\ chip = PowerOn /\ burst = << >> /\ alive = TRUE
  /\ now = 0 /\ waited = 0 /\ airing = 0 /\ late = FALSE
  /\ nextId = 1 /\ firstId = 1 /\ aired = {}
  /\ nextPacket = 1 /\ lastRead = 0 /\ restarts = 0
  /\ seen = View(PowerOn, << >>)

Next ==
  \/ Task
  \/ \E m \in Message : SendMessage(m)
  \/ NextIncomingMessage
  \/ Environment

Spec == Init /\ [][Next]_vars
-----------------------------------------------------------------------------
(* Properties.                                                             *)

\* The message that is being sent has left the queue only for this module.
Sending == state = "SendNextQueuedMessage" /\ script # << >>

R == INSTANCE Radio WITH
       chip <- seen.chip,
       receiveQueue <- seen.received,
       transmitQueue <- IF Sending THEN <<message>> \o transmitQueue ELSE transmitQueue

ASSUME RadioAssumption ==
  /\ R!MessageAssumption /\ R!PacketAssumption /\ R!QueueSizeAssumption
  /\ R!ClockAssumption /\ R!RestartAssumption

(***************************************************************************)
(* A branch of the machine may be taken as one step, and its interruption  *)
(* by a reset as Radio has it: whatever the chip does between two accesses *)
(* changes nothing that Radio would see.  This is so until a transmission  *)
(* outlives the level of CE that started it.                               *)
(***************************************************************************)
ImplementsRadio == R!Init /\ [][R!Next \/ late']_(R!vars)

(***************************************************************************)
(* Only a boot finds a transmission under way: the timeout is longer than  *)
(* the chip takes, also across a wrap of millis(), and an interrupt means  *)
(* that the transmission is over.                                          *)
(***************************************************************************)
OnlyBootFindsOneUnderWay == [][ late' /\ ~ late => state = "Booting" ]_vars

(***************************************************************************)
(* What is on the air is a message under its own address, whenever the     *)
(* transmission began: in the middle of a reconfiguration that a reset has *)
(* cut off, by a floating CE pin, or by the pulse that a boot gives it.    *)
(***************************************************************************)
NothingMisdirected == burst # << >> => burst[1] = burst[2].address
-----------------------------------------------------------------------------
(* The invariant behind them.                                              *)

\* What is left of a script when its k-th access comes next.
Rest(steps, k) == SubSeq(steps, k, Len(steps))

\* What a branch that is in its reading loop still has to do.
Loop == Rest(readMessages, 3)
LoopScripts == {<<"read_rx_payload", "get_rx_address">> \o Loop, <<"get_rx_address">> \o Loop}

\* The scripts that may be running in each state.
Scripts ==
  CASE state = "Booting"               -> {Rest(initTransceiver, k) : k \in 1 .. 4}
    [] state = "Idle"                  -> {<< >>, <<"get_status">>}
    [] state = "SendNextQueuedMessage" -> {Rest(transmit, k) : k \in 1 .. 10}
    [] state = "WaitForMessageSent"    -> {Rest(listen, k) : k \in 1 .. 8}
    [] state = "ReadReceivedMessages"  -> {Rest(readMessages, k) : k \in 1 .. 5} \cup LoopScripts

TypeOK ==
  /\ state \in R!States
  /\ script \in Scripts
  /\ timer \in R!ClockValues /\ now \in R!ClockValues /\ waited \in 0 .. LongestWait
  /\ transmitQueue \in Seq(Message) /\ receiveQueue \in Seq(Packet)
  /\ state = "SendNextQueuedMessage" =>
       IF script = << >> THEN transmitQueue # << >> ELSE message \in Message
  /\ state = "ReadReceivedMessages" /\ script \in LoopScripts =>
       IF Head(script) = "read_rx_payload" THEN chip.rxFifo # << >> ELSE payload \in Packet
  /\ chip \in Chip
  /\ burst \in {<< >>} \cup (Address \X Message)
  /\ alive \in BOOLEAN /\ late \in BOOLEAN /\ airing \in Nat

(***************************************************************************)
(* TX_ADDR belongs to what is loaded, also while the addresses change,     *)
(* late or not.                                                            *)
(***************************************************************************)
AddressInv ==
  /\ NothingMisdirected
  /\ chip.txFifo # << >> =>
       Len(chip.txFifo) = 1 /\ chip.txAddr = Head(chip.txFifo).address
  /\ \A k \in 5 .. 9 : Sending /\ script = Rest(transmit, k) =>
       /\ k # 9 => chip.txFifo = << >>
       /\ k >= 6 => chip.txAddr = message.address

\* The chips before each access of a branch that found c.
Quiet(c) == nrf24_flush_tx(nrf24_flush_rx(nrf24_clear_interrupts(nrf24_power_down(c))))

QuietChips(c) ==
  <<c, nrf24_power_down(c), nrf24_clear_interrupts(nrf24_power_down(c)),
    nrf24_flush_rx(nrf24_clear_interrupts(nrf24_power_down(c))), Quiet(c)>>

TransmitChips(c, m) ==
  LET half == nrf24_set_tx_address(Quiet(c), m.address)
      whole == nrf24_set_rx_address(half, m.address)
      transmitter == nrf24_set_config(whole, FALSE)
  IN  QuietChips(c) \o <<half, whole, transmitter, nrf24_write_tx_payload(transmitter, m)>>

ListenChips(c) ==
  LET own == nrf24_set_rx_address(Quiet(c), OwnAddress)
  IN  QuietChips(c) \o <<own, nrf24_set_config(own, TRUE)>>

\* The loop has n packets of the FIFO that the branch found behind it.
Unread(n) ==
  [nrf24_clear_interrupts(nrf24_power_down(seen.chip)) EXCEPT
     !.rxFifo = SubSeq(@, n + 1, Len(@))]
Collected(n) == R!PushedAll(seen.received, SubSeq(seen.chip.rxFifo, 1, n))

ReadInv ==
  \/ script = Rest(readMessages, 1) /\ seen = View(chip, receiveQueue)
  \/ /\ script = Rest(readMessages, 2)
     /\ chip = nrf24_power_down(seen.chip) /\ receiveQueue = seen.received
  \/ \E n \in 0 .. Len(seen.chip.rxFifo) :
       /\ chip = Unread(n)
       /\ \/ script = Loop /\ receiveQueue = Collected(n)
          \/ /\ script = Rest(readMessages, 4) /\ n = Len(seen.chip.rxFifo)
             /\ receiveQueue = Collected(n)
          \/ /\ script = <<"read_rx_payload", "get_rx_address">> \o Loop
             /\ n < Len(seen.chip.rxFifo) /\ receiveQueue = Collected(n)
          \/ /\ script = <<"get_rx_address">> \o Loop
             /\ n > 0 /\ payload = seen.chip.rxFifo[n] /\ receiveQueue = Collected(n - 1)

\* How chip and receive queue follow from what Radio sees.
SeenInv ==
  CASE state = "Booting" -> seen = View([chip EXCEPT !.ce = chip.pwrUp], receiveQueue)
    [] state \in {"SendNextQueuedMessage", "WaitForMessageSent"} /\ script # << >> ->
         /\ seen.received = receiveQueue
         /\ IF state = "SendNextQueuedMessage"
            THEN \E k \in 1 .. 9 :
                   script = Rest(transmit, k) /\ chip = TransmitChips(seen.chip, message)[k]
            ELSE /\ \E k \in 1 .. 7 : script = Rest(listen, k) /\ chip = ListenChips(seen.chip)[k]
                 /\ IrqAsserted(seen.chip) \/ TimedOut
    [] state = "ReadReceivedMessages" /\ script # << >> -> ReadInv
    [] OTHER -> seen = View(chip, receiveQueue)

(***************************************************************************)
(* A transmission is what the chip may still transmit, and it is in time:  *)
(* as long as the wait, and started at once.                               *)
(***************************************************************************)
BurstInv ==
  /\ burst # << >> =>
       /\ chip.pwrUp /\ ~ chip.primRx /\ ~ chip.maxRt /\ chip.txFifo # << >>
       /\ burst = <<chip.txAddr, Head(chip.txFifo)>>
       /\ \/ state = "Booting" /\ script # Rest(initTransceiver, 3)
          \/ state = "WaitForMessageSent" /\ script = << >> /\ airing = waited /\ waited <= AirTime
  /\ state = "WaitForMessageSent" /\ script = << >> =>
       /\ chip.txDs => chip.txFifo = << >>
       /\ alive /\ CanTransmit(chip) /\ burst = << >> => waited = 0
  /\ state = "WaitForMessageSent" /\ script = listen => ~ (alive /\ CanTransmit(chip))
  /\ state = "Booting" /\ script = Rest(initTransceiver, 3) => ~ chip.ce

(***************************************************************************)
(* The invariant that the steps preserve.  As long as no transmission has  *)
(* outlived the level of CE, it includes what Radio is known to preserve.  *)
(***************************************************************************)
Inv == TypeOK /\ AddressInv /\ (~ late => SeenInv /\ BurstInv /\ R!MachineInv)
=============================================================================
