-------------------------------- MODULE Radio --------------------------------
(***************************************************************************)
(* radio::Radio: the state machine that Radio::task() advances by one step *)
(* per turn of the main loop, its two queues, the transceiver it drives,   *)
(* the clock it reads, and the restarts it must survive.                   *)
(*                                                                         *)
(* One action per branch of runStateMachine(); the transceiver runs        *)
(* concurrently and acts between any two of them.  The queues are bounded  *)
(* queues (BoundedQueue, which FixedSizeRingBuffer implements).            *)
(***************************************************************************)
EXTENDS Nrf24, Integers

CONSTANTS
  QueueSize,     \* capacity of each queue
  ClockModulus,  \* millis() counts modulo this: 2^32 on the device
  MessageSendTimeoutMs,
  LongestWait,   \* bound: the timeout and the longest turn of the main loop
  MaxRestarts    \* bound: number of restarts

ASSUME MessageAssumption == \A m \in Message : m.id \in Nat /\ m.address \in Address
ASSUME PacketAssumption == Packet \subseteq Nat
ASSUME QueueSizeAssumption == QueueSize \in Nat \ {0}
ASSUME ClockAssumption ==
  /\ MessageSendTimeoutMs \in Nat
  /\ LongestWait \in Nat
  /\ ClockModulus \in Nat
  /\ MessageSendTimeoutMs <= LongestWait
  /\ LongestWait < ClockModulus
ASSUME RestartAssumption == MaxRestarts \in Nat

VARIABLES
  state,          \* _state, or "Booting" from a reset until setup() is done
  timer,          \* _timer
  transmitQueue,  \* _transmitQueue
  receiveQueue,   \* _receiveQueue
  chip,           \* the transceiver
  now,            \* millis()
  (* History variables, which no code of the program reads:                *)
  waited,         \* the true time spent in WaitForMessageSent
  nextId,         \* identity of the next message; unlike Message::number it
                  \* survives a restart, so that messages stay distinguishable
  firstId,        \* nextId at the last restart
  aired,          \* <<address, message>> pairs that were put on the air
  nextPacket,     \* identity of the next packet received over the air
  lastRead,       \* the packet that nextIncomingMessage() returned last
  restarts        \* number of restarts so far

queueVars   == <<transmitQueue, receiveQueue>>
clockVars   == <<timer, now, waited>>
messageVars == <<nextId, firstId, aired>>
packetVars  == <<nextPacket, lastRead>>
vars == <<state, queueVars, chip, clockVars, messageVars, packetVars, restarts>>

States == {"Booting", "Idle", "SendNextQueuedMessage",
           "WaitForMessageSent", "ReadReceivedMessages"}

\* The range of millis().
ClockValues == 0 .. ClockModulus - 1
-----------------------------------------------------------------------------
(* Helpers of the state machine.                                           *)

\* Variants with a plausible slip each, used to test the properties.
setTransceiverModeWithoutFlush(c, mode, address) ==
  LET quiet == nrf24_flush_rx(nrf24_clear_interrupts(nrf24_power_down(c)))
  IN  nrf24_set_config(
        IF mode = "PrimaryReceiver" THEN nrf24_set_rx_address(quiet, OwnAddress)
        ELSE nrf24_set_rx_address(nrf24_set_tx_address(quiet, address), address),
        mode = "PrimaryReceiver")

setTransceiverModeOnlyRx(c, mode, address) ==
  LET quiet == nrf24_flush_tx(nrf24_flush_rx(
                 nrf24_clear_interrupts(nrf24_power_down(c))))
  IN  nrf24_set_config(
        nrf24_set_rx_address(
          quiet, IF mode = "PrimaryReceiver" THEN OwnAddress ELSE address),
        mode = "PrimaryReceiver")

(***************************************************************************)
(* Radio::setTransceiverMode.  CE goes low first, so that the chip neither *)
(* sends nor receives while it is reconfigured; both FIFOs are emptied.    *)
(***************************************************************************)
setTransceiverMode(c, mode, address) ==
  LET quiet == nrf24_flush_tx(nrf24_flush_rx(
                 nrf24_clear_interrupts(nrf24_power_down(c))))
  IN  IF mode = "PrimaryReceiver"
      THEN nrf24_set_config(nrf24_set_rx_address(quiet, OwnAddress), TRUE)
      ELSE nrf24_set_config(
             nrf24_set_rx_address(nrf24_set_tx_address(quiet, address), address),
             FALSE)

\* Variant: the receiver is configured and never switched on.
BackToSilence(c) == setTransceiverMode(c, "PrimaryReceiver", NoAddress)

\* How both exits of WaitForMessageSent leave the chip.
BackToReceiver(c) ==
  nrf24_power_up(setTransceiverMode(c, "PrimaryReceiver", NoAddress))

\* Variant: the interrupt flags of the time before the reset stay.
initTransceiverOnly(c) == nrf24_power_down(c)

(***************************************************************************)
(* Radio::initTransceiver.  It leaves CE low and CONFIG as it finds it: a  *)
(* chip that was just powered on stays powered down, and none receives     *)
(* before the first message has been sent.                                 *)
(***************************************************************************)
initTransceiver(c) == nrf24_clear_interrupts(nrf24_power_down(c))

\* Variant: a push that does not look for room.
PushedAnyway(queue, m) == Append(queue, m)

\* A queue after a push.
Pushed(queue, m) == IF Len(queue) < QueueSize THEN Append(queue, m) ELSE queue

\* Variants: the newest packets win; the packets of a burst are swapped.
PushedNewest(queue, s) ==
  LET all == queue \o s
  IN  IF Len(all) <= QueueSize THEN all
      ELSE SubSeq(all, Len(all) - QueueSize + 1, Len(all))
PushedSwapped(queue, s) ==
  LET all == s \o queue
  IN  IF Len(all) <= QueueSize THEN all ELSE SubSeq(all, 1, QueueSize)

\* A queue after the elements of s have been pushed one after the other.
PushedAll(queue, s) ==
  LET all == queue \o s
  IN  IF Len(all) <= QueueSize THEN all ELSE SubSeq(all, 1, QueueSize)

\* Variant: the message is copied from the queue and not removed.
NotPopped(queue) == queue

\* pop() on a queue that is not empty.
Popped(queue) == Tail(queue)

\* Variants: comparison of instants; subtraction wider than the clock.
ReachedDeadline == now >= (timer + MessageSendTimeoutMs) % ClockModulus
TimedOutUnwrapped == now - timer >= MessageSendTimeoutMs

\* The difference of two uint32_t, which wraps around as millis() does.
TimedOut == (now - timer) % ClockModulus >= MessageSendTimeoutMs
-----------------------------------------------------------------------------
(* Calls by the rest of the firmware, between two calls of task().         *)

\* The constructor, at the end of a reset.  Only the registers it writes change.
Boot ==
  /\ state = "Booting"
  /\ state' = "Idle"
  /\ chip' = initTransceiver(chip)
  /\ UNCHANGED <<queueVars, clockVars, messageVars, packetVars, restarts>>

\* sendMessage(): true is returned even when the queue is full and drops m.
SendMessage(m) ==
  /\ state # "Booting"
  /\ m.id = nextId
  /\ nextId' = nextId + 1
  /\ transmitQueue' = Pushed(transmitQueue, m)
  /\ UNCHANGED <<state, receiveQueue, chip, clockVars, firstId, aired,
                 packetVars, restarts>>

\* hasIncomingMessage() followed by nextIncomingMessage().
NextIncomingMessage ==
  /\ state # "Booting"
  /\ receiveQueue # << >>
  /\ lastRead' = Head(receiveQueue)
  /\ receiveQueue' = Popped(receiveQueue)
  /\ UNCHANGED <<state, transmitQueue, chip, clockVars, messageVars,
                 nextPacket, restarts>>
-----------------------------------------------------------------------------
(* Radio::runStateMachine, one action per branch that changes something.   *)

\* Variant: the wrong flag of STATUS.
MessageSentInstead == IrqAsserted(chip) /\ chip.txDs

\* isInterruptTriggered() and STATUS.RX_DR
MessageReceived == IrqAsserted(chip) /\ chip.rxDr

Idle ==
  /\ state = "Idle"
  /\ \/ MessageReceived /\ state' = "ReadReceivedMessages"
     \/ /\ ~ MessageReceived
        /\ transmitQueue # << >>
        /\ state' = "SendNextQueuedMessage"
  /\ UNCHANGED <<queueVars, chip, clockVars, messageVars, packetVars, restarts>>

SendNextQueuedMessage ==
  /\ state = "SendNextQueuedMessage"
  /\ state' = "WaitForMessageSent"
  /\ transmitQueue' = Popped(transmitQueue)
  /\ LET message == Head(transmitQueue)
     IN  chip' = nrf24_power_up(nrf24_write_tx_payload(
                   setTransceiverMode(chip, "PrimaryTransmitter", message.address),
                   message))
  /\ timer' = now
  /\ waited' = 0
  /\ UNCHANGED <<receiveQueue, now, messageVars, packetVars, restarts>>

\* Sent, given up by the chip, or given up by the hub: all end the same way.
WaitForMessageSent ==
  /\ state = "WaitForMessageSent"
  /\ IrqAsserted(chip) \/ TimedOut
  /\ state' = "Idle"
  /\ chip' = BackToReceiver(chip)
  /\ waited' = 0
  /\ UNCHANGED <<queueVars, timer, now, messageVars, packetVars, restarts>>

\* CE is low while the FIFO is read, so it does not refill meanwhile.
ReadReceivedMessages ==
  /\ state = "ReadReceivedMessages"
  /\ state' = "Idle"
  /\ receiveQueue' = PushedAll(receiveQueue, chip.rxFifo)
  /\ chip' = nrf24_power_up(ReadAllPayloads(
                nrf24_clear_interrupts(nrf24_power_down(chip))))
  /\ UNCHANGED <<transmitQueue, clockVars, messageVars, packetVars, restarts>>

Task == Idle \/ SendNextQueuedMessage \/ WaitForMessageSent \/ ReadReceivedMessages
-----------------------------------------------------------------------------
(* The environment: the transceiver, time, and resets.                     *)

\* What a receiver in reach picks up: the payload under the chip's TX_ADDR.
AiredBy(c) == {<<c.txAddr, Head(c.txFifo)>>}

ChipAcknowledged ==
  /\ CanBeAcknowledged(chip)
  /\ chip' = Acknowledged(chip)
  /\ aired' = aired \cup AiredBy(chip)
  /\ UNCHANGED <<state, queueVars, clockVars, nextId, firstId, packetVars, restarts>>

\* The device was out of reach, or received the message and its answer was lost.
ChipRetriesExhausted ==
  /\ CanTransmit(chip)
  /\ chip' = RetriesExhausted(chip)
  /\ aired' \in {aired, aired \cup AiredBy(chip)}
  /\ UNCHANGED <<state, queueVars, clockVars, nextId, firstId, packetVars, restarts>>

ChipReceive(p) ==
  /\ CanReceive(chip)
  /\ p = nextPacket
  /\ chip' = Received(chip, p)
  /\ nextPacket' = nextPacket + 1
  /\ UNCHANGED <<state, queueVars, clockVars, messageVars, lastRead, restarts>>

\* A millisecond passes.  The main loop polls the radio before LongestWait.
Tick ==
  /\ state = "WaitForMessageSent" => waited < LongestWait
  /\ now' = (now + 1) % ClockModulus
  /\ waited' = IF state = "WaitForMessageSent" THEN waited + 1 ELSE waited
  /\ UNCHANGED <<state, timer, queueVars, chip, messageVars, packetVars, restarts>>

\* The chips between two accesses of the branch that the machine is in.
PartWay ==
  LET cleared == nrf24_clear_interrupts(nrf24_power_down(chip))
      flushed == nrf24_flush_rx(cleared)
      quiet == nrf24_flush_tx(flushed)
      own == nrf24_set_rx_address(quiet, OwnAddress)
  IN  CASE state = "SendNextQueuedMessage" ->
             LET message == Head(transmitQueue)
                 half == nrf24_set_tx_address(quiet, message.address)
                 whole == nrf24_set_rx_address(half, message.address)
                 transmitter == nrf24_set_config(whole, FALSE)
             IN  {chip, cleared, flushed, quiet, half, whole, transmitter,
                  nrf24_write_tx_payload(transmitter, message)}
        [] state = "WaitForMessageSent" /\ (IrqAsserted(chip) \/ TimedOut) ->
             {chip, cleared, flushed, quiet, own, nrf24_set_config(own, TRUE)}
        [] state = "ReadReceivedMessages" ->
             {chip} \cup {[cleared EXCEPT !.rxFifo = SubSeq(@, k, Len(@))] :
                            k \in 1 .. Len(chip.rxFifo) + 1}
        [] state = "Booting" -> {chip, cleared}
        [] OTHER -> {chip}

(***************************************************************************)
(* The processor resets and loses its RAM, between two accesses of the     *)
(* driver.  The transceiver either keeps its power, and with it its        *)
(* registers and FIFOs as far as they have been written, while the CE pin  *)
(* floats until initTransceiver() drives it, or is power-cycled too.       *)
(***************************************************************************)
Restart ==
  /\ restarts < MaxRestarts
  /\ restarts' = restarts + 1
  /\ state' = "Booting"
  /\ chip' \in {[c EXCEPT !.ce = level] : c \in PartWay, level \in BOOLEAN}
               \cup {PowerOn}
  /\ transmitQueue' = << >>
  /\ receiveQueue' = << >>
  /\ timer' = 0
  /\ now' = 0
  /\ waited' = 0
  /\ firstId' = nextId
  /\ UNCHANGED <<nextId, aired, packetVars>>

Transceiver ==
  \/ ChipAcknowledged
  \/ ChipRetriesExhausted
  \/ \E p \in Packet : ChipReceive(p)

Init ==
  /\ state = "Booting"
  /\ timer = 0
  /\ transmitQueue = << >>
  /\ receiveQueue = << >>
  /\ chip = PowerOn
  /\ now = 0
  /\ waited = 0
  /\ nextId = 1
  /\ firstId = 1
  /\ aired = {}
  /\ nextPacket = 1
  /\ lastRead = 0
  /\ restarts = 0

Next ==
  \/ Boot
  \/ \E m \in Message : SendMessage(m)
  \/ NextIncomingMessage
  \/ Task
  \/ Transceiver
  \/ Tick
  \/ Restart

Spec == Init /\ [][Next]_vars

(***************************************************************************)
(* loop() never stops calling task() and setup() ends; time passes.        *)
(* Nothing is assumed of the transceiver, the devices or the consumer.     *)
(***************************************************************************)
FairSpec == Spec /\ WF_vars(Boot) /\ WF_vars(Task) /\ WF_vars(Tick)
-----------------------------------------------------------------------------
(* Properties.                                                             *)

\* Every variable has its type and every queue and FIFO keeps to its size.
TypeOK ==
  /\ state \in States
  /\ timer \in ClockValues
  /\ transmitQueue \in Seq(Message)
  /\ Len(transmitQueue) <= QueueSize
  /\ receiveQueue \in Seq(Packet)
  /\ Len(receiveQueue) <= QueueSize
  /\ chip \in Chip
  /\ Len(chip.txFifo) <= FifoDepth
  /\ Len(chip.rxFifo) <= FifoDepth
  /\ now \in ClockValues
  /\ waited \in 0 .. LongestWait
  /\ nextId \in Nat
  /\ firstId \in Nat
  /\ aired \subseteq Address \X Message
  /\ nextPacket \in Nat
  /\ lastRead \in Nat
  /\ restarts \in 0 .. MaxRestarts

(***************************************************************************)
(* Whatever the chip may put on the air is one message, under its own      *)
(* address, and with pipe 0 open for its acknowledgement.  TX_ADDR and     *)
(* the FIFO outlive the message they were written for and even a restart,  *)
(* so this rests on setTransceiverMode flushing and on CE staying low.     *)
(***************************************************************************)
NoMisdelivery ==
  CanTransmit(chip) =>
    /\ Len(chip.txFifo) = 1
    /\ chip.txAddr = Head(chip.txFifo).address
    /\ chip.rxAddr = chip.txAddr

(***************************************************************************)
(* Once setup() is done the chip never transmits a message that was given  *)
(* to the radio before the reset, although such a message may still be     *)
(* loaded in the TX FIFO of a chip that kept its power.                    *)
(***************************************************************************)
NoStaleFrameAfterBoot ==
  state # "Booting" /\ CanTransmit(chip) => Head(chip.txFifo).id >= firstId

(***************************************************************************)
(* The message in the chip and those behind it are in the order of the     *)
(* sendMessage() calls without repetition, and nothing that waits has been *)
(* on the air before: no message is sent by two turns of the machine.      *)
(***************************************************************************)
SentInOrderOnce ==
  /\ \A i, j \in DOMAIN transmitQueue :
       i < j => transmitQueue[i].id < transmitQueue[j].id
  /\ \A i \in DOMAIN transmitQueue :
       /\ \A k \in DOMAIN chip.txFifo : chip.txFifo[k].id < transmitQueue[i].id
       /\ \A a \in aired : a[2].id < transmitQueue[i].id

\* In the receiver role, with nothing left to transmit.
Listening(c) ==
  c.ce /\ c.pwrUp /\ c.primRx /\ c.rxAddr = OwnAddress /\ c.txFifo = << >>

\* Switched off, and with no interrupt left over from before a reset.
Silent(c) == ~ c.ce /\ ~ IrqAsserted(c)

(***************************************************************************)
(* While the machine waits for nothing, the chip listens under the hub's   *)
(* address with an empty TX FIFO, or it is switched off and quiet, as the  *)
(* boot leaves it.  Every path back to Idle has to restore this.           *)
(***************************************************************************)
ListensWhenIdle ==
  state \in {"Idle", "ReadReceivedMessages", "SendNextQueuedMessage"} =>
    Listening(chip) \/ Silent(chip)

(***************************************************************************)
(* The deafness after a boot ends with the first message: no step of the   *)
(* machine, other than a reset, leaves a chip off that was on before it.   *)
(***************************************************************************)
NeverDeafAgain ==
  [][ state # "Booting" /\ state' # "Booting" /\ chip.ce => chip'.ce ]_vars

\* No message is loaded that the address registers do not match.
LoadedAsAddressed ==
  chip.txFifo # << >> =>
    /\ Len(chip.txFifo) = 1
    /\ chip.txAddr = Head(chip.txFifo).address
    /\ chip.rxAddr = chip.txAddr

(***************************************************************************)
(* What each state of the machine relies on: a message to take, a chip     *)
(* whose packets are announced, and no interrupt from a chip that is off,  *)
(* which would send the machine to ReadReceivedMessages and switch on a    *)
(* chip that is still configured as it was before the reset.               *)
(***************************************************************************)
StateInv ==
  /\ state = "Idle" => Listening(chip) \/ Silent(chip)
  /\ state = "SendNextQueuedMessage" =>
       /\ transmitQueue # << >>
       /\ Listening(chip) \/ Silent(chip)
  /\ state = "ReadReceivedMessages" => Listening(chip)
  /\ state = "WaitForMessageSent" =>
       /\ chip.ce /\ chip.pwrUp /\ ~ chip.primRx
       /\ chip.rxFifo = << >> /\ ~ chip.rxDr
       /\ chip.txFifo # << >> => Head(chip.txFifo).id >= firstId
       /\ now = (timer + waited) % ClockModulus

\* Every identity in use is older than the next one; a reset empties the queue.
IdsInv ==
  /\ firstId <= nextId
  /\ \A i \in DOMAIN transmitQueue :
       firstId <= transmitQueue[i].id /\ transmitQueue[i].id < nextId
  /\ \A k \in DOMAIN chip.txFifo : chip.txFifo[k].id < nextId
  /\ \A a \in aired : a[2].id < nextId

\* The packets received so far and not yet lost or read, oldest first.
ReceivedPackets == receiveQueue \o chip.rxFifo

(***************************************************************************)
(* A packet waiting in a listening chip is announced by RX_DR.  The flag   *)
(* is cleared by ReadReceivedMessages and by setTransceiverMode; clearing  *)
(* it and leaving a packet behind strands the packet until another comes.  *)
(***************************************************************************)
NoStrandedPacket ==
  state # "Booting" /\ chip.ce /\ chip.rxFifo # << >> => chip.rxDr

\* What the steps of the machine preserve, whatever the packets are.
MachineInv ==
  /\ TypeOK
  /\ LoadedAsAddressed
  /\ StateInv
  /\ IdsInv
  /\ SentInOrderOnce
  /\ NoStrandedPacket

\* Packets are handed over in the order of arrival, each at most once.
ReadInOrderOnce ==
  /\ \A i, j \in DOMAIN ReceivedPackets :
       i < j => ReceivedPackets[i] < ReceivedPackets[j]
  /\ \A i \in DOMAIN ReceivedPackets : lastRead < ReceivedPackets[i]

\* A packet that waits, or was read, has arrived before the next one.
PacketInv ==
  /\ ReadInOrderOnce
  /\ lastRead < nextPacket
  /\ \A i \in DOMAIN ReceivedPackets : ReceivedPackets[i] < nextPacket

\* The invariant that the steps preserve and that the others follow from.
TransceiverInv == MachineInv /\ PacketInv

(***************************************************************************)
(* The machine leaves the wait only for a reason: the chip reported an     *)
(* acknowledgement or its last retry, or MessageSendTimeoutMs really have  *)
(* passed, across a wrap of millis() too.                                  *)
(***************************************************************************)
NoPrematureGiveUp ==
  [][ state = "WaitForMessageSent" /\ state' = "Idle" =>
        chip.txDs \/ chip.maxRt \/ waited >= MessageSendTimeoutMs ]_vars

Present(p, s) == \E i \in DOMAIN s : s[i] = p

(***************************************************************************)
(* A packet that the chip acknowledged to a device is lost in three ways   *)
(* only: by a restart, by the flush before the next transmission, and by   *)
(* a full receive queue.  From the receive queue only the consumer, or a   *)
(* restart, removes it.                                                    *)
(***************************************************************************)
PacketsLostOnlyWhereKnown ==
  [][ /\ \A i \in DOMAIN chip.rxFifo :
           \/ Present(chip.rxFifo[i], chip'.rxFifo \o receiveQueue')
           \/ state' = "Booting"
           \/ state = "SendNextQueuedMessage"
           \/ state = "ReadReceivedMessages" /\ Len(receiveQueue') = QueueSize
      /\ \A i \in DOMAIN receiveQueue :
           \/ Present(receiveQueue[i], receiveQueue')
           \/ state' = "Booting"
           \/ lastRead' = receiveQueue[i] ]_vars

\* A message that is tried is the one in the chip's FIFO.
Link == INSTANCE RadioLink WITH queue <- transmitQueue, flight <- chip.txFifo

(***************************************************************************)
(* Whatever the transceiver and the devices do, the machine behaves like   *)
(* RadioLink towards its clients.                                          *)
(***************************************************************************)
ImplementsLink == Link!Spec

(***************************************************************************)
(* Every queued message gets its turn, even with a chip that never answers *)
(* and whose interrupt never comes, as long as the air falls quiet.        *)
(***************************************************************************)
ImplementsFairLink == Link!FairSpec

\* The hub does not stay in transmit mode: it listens again, or restarts.
ListensAgain ==
  state = "WaitForMessageSent" ~> state # "WaitForMessageSent"

\* A packet in a listening chip does not stay there.
PacketsAreCollected ==
  chip.rxFifo # << >> /\ chip.ce ~> chip.rxFifo = << >> \/ ~ chip.ce
=============================================================================
