----------------------------- MODULE RadioProofs -----------------------------
(***************************************************************************)
(* Proofs about Radio, for every number of devices, messages, packets and  *)
(* restarts, every queue size, FIFO depth and clock: first the machine and *)
(* the messages it sends, and with them the refinement of RadioLink, then  *)
(* the packets it receives, their order and the ways in which one is lost. *)
(***************************************************************************)
EXTENDS Radio, SequenceTheorems, TLAPS

-----------------------------------------------------------------------------
(* What the driver's functions make of a chip.                             *)

\* Boot switches the chip off and clears its flags, and changes nothing else.
LEMMA InitializedChip ==
  ASSUME NEW c \in Chip
  PROVE  /\ initTransceiver(c) \in Chip
         /\ Silent(initTransceiver(c))
         /\ initTransceiver(c).txFifo = c.txFifo
         /\ initTransceiver(c).rxFifo = c.rxFifo
         /\ initTransceiver(c).txAddr = c.txAddr
         /\ initTransceiver(c).rxAddr = c.rxAddr
BY DEF Chip, initTransceiver, nrf24_clear_interrupts, nrf24_power_down, Silent,
       IrqAsserted

\* What setTransceiverMode does before it looks at the mode.
Quiet(c) ==
  nrf24_flush_tx(nrf24_flush_rx(nrf24_clear_interrupts(nrf24_power_down(c))))

\* It holds no message and no packet, and announces none.
LEMMA QuietChip ==
  ASSUME NEW c \in Chip
  PROVE  /\ Quiet(c) \in Chip
         /\ Quiet(c).txFifo = << >>
         /\ Quiet(c).rxFifo = << >>
         /\ Quiet(c).rxDr = FALSE
<1> DEFINE off == nrf24_clear_interrupts(nrf24_power_down(c))
<1>1. off \in Chip /\ off.rxDr = FALSE
  BY DEF Chip, nrf24_clear_interrupts, nrf24_power_down
<1> HIDE DEF off
<1>2. << >> \in Seq(Message) /\ << >> \in Seq(Packet)
  OBVIOUS
<1>3. /\ nrf24_flush_tx(nrf24_flush_rx(off)) \in Chip
      /\ nrf24_flush_tx(nrf24_flush_rx(off)).txFifo = << >>
      /\ nrf24_flush_tx(nrf24_flush_rx(off)).rxFifo = << >>
      /\ nrf24_flush_tx(nrf24_flush_rx(off)).rxDr = FALSE
  BY <1>1, <1>2 DEF Chip, nrf24_flush_rx, nrf24_flush_tx
<1> QED
  BY <1>3 DEF Quiet, off

\* After a transmission, however it ended, the chip listens and both FIFOs are empty.
LEMMA ReceiverChip ==
  ASSUME NEW c \in Chip
  PROVE  /\ BackToReceiver(c) \in Chip
         /\ Listening(BackToReceiver(c))
         /\ BackToReceiver(c).rxFifo = << >>
<1> DEFINE q == Quiet(c)
           set == nrf24_set_config(nrf24_set_rx_address(q, OwnAddress), TRUE)
<1>1. BackToReceiver(c) = nrf24_power_up(set)
  BY DEF BackToReceiver, setTransceiverMode, Quiet
<1>2. q \in Chip /\ q.txFifo = << >> /\ q.rxFifo = << >>
  BY QuietChip
<1> HIDE DEF q
<1>3. /\ set \in Chip
      /\ set.txFifo = << >> /\ set.rxFifo = << >>
      /\ set.rxAddr = OwnAddress
      /\ set.pwrUp = TRUE /\ set.primRx = TRUE
  BY <1>2, AddressAssumption
     DEF Chip, nrf24_set_config, nrf24_set_rx_address, Written
<1> HIDE DEF set
<1>4. /\ nrf24_power_up(set) \in Chip
      /\ nrf24_power_up(set).ce = TRUE
      /\ nrf24_power_up(set).txFifo = << >> /\ nrf24_power_up(set).rxFifo = << >>
      /\ nrf24_power_up(set).rxAddr = OwnAddress
      /\ nrf24_power_up(set).pwrUp = TRUE /\ nrf24_power_up(set).primRx = TRUE
  BY <1>3 DEF Chip, nrf24_power_up
<1> QED
  BY <1>1, <1>4 DEF Listening

\* The chip that SendNextQueuedMessage hands message m to.
TransmitterChip(c, m) ==
  nrf24_power_up(nrf24_write_tx_payload(
    setTransceiverMode(c, "PrimaryTransmitter", m.address), m))

\* It is loaded with m, only m, and has the address of m in both registers.
LEMMA LoadedChip ==
  ASSUME NEW c \in Chip, NEW m \in Message
  PROVE  /\ TransmitterChip(c, m) \in Chip
         /\ TransmitterChip(c, m).txFifo = <<m>>
         /\ TransmitterChip(c, m).rxFifo = << >>
         /\ TransmitterChip(c, m).txAddr = m.address
         /\ TransmitterChip(c, m).rxAddr = m.address
         /\ TransmitterChip(c, m).ce = TRUE
         /\ TransmitterChip(c, m).pwrUp = TRUE
         /\ TransmitterChip(c, m).primRx = FALSE
         /\ TransmitterChip(c, m).rxDr = FALSE
<1> DEFINE q == Quiet(c)
           set == nrf24_set_config(
                    nrf24_set_rx_address(nrf24_set_tx_address(q, m.address), m.address),
                    FALSE)
           loaded == [set EXCEPT !.txFifo = <<m>>]
<1>1. TransmitterChip(c, m) = nrf24_power_up(nrf24_write_tx_payload(set, m))
  BY DEF TransmitterChip, setTransceiverMode, Quiet
<1>2. q \in Chip /\ q.txFifo = << >> /\ q.rxFifo = << >> /\ q.rxDr = FALSE
  BY QuietChip
<1>3. m.address \in Address /\ m.address # NoAddress
  BY MessageAssumption, AddressAssumption
<1> HIDE DEF q
<1>4. /\ set \in Chip
      /\ set.txFifo = << >> /\ set.rxFifo = << >>
      /\ set.txAddr = m.address /\ set.rxAddr = m.address
      /\ set.pwrUp = TRUE /\ set.primRx = FALSE /\ set.rxDr = FALSE
  BY <1>2, <1>3 DEF Chip, nrf24_set_config, nrf24_set_rx_address,
     nrf24_set_tx_address, Written
<1> HIDE DEF set
<1>5. nrf24_write_tx_payload(set, m) = loaded
  <2>1. Append(set.txFifo, m) = <<m>> /\ Len(set.txFifo) < FifoDepth
    BY <1>4, FifoDepthAssumption
  <2> QED
    BY <2>1 DEF nrf24_write_tx_payload
<1>6. <<m>> \in Seq(Message)
  OBVIOUS
<1>7. /\ nrf24_power_up(loaded) \in Chip
      /\ nrf24_power_up(loaded).txFifo = <<m>>
      /\ nrf24_power_up(loaded).rxFifo = << >>
      /\ nrf24_power_up(loaded).txAddr = m.address
      /\ nrf24_power_up(loaded).rxAddr = m.address
      /\ nrf24_power_up(loaded).ce = TRUE
      /\ nrf24_power_up(loaded).pwrUp = TRUE
      /\ nrf24_power_up(loaded).primRx = FALSE
      /\ nrf24_power_up(loaded).rxDr = FALSE
  BY <1>4, <1>6 DEF Chip, nrf24_power_up
<1> QED
  BY <1>1, <1>5, <1>7

\* The chip that ReadReceivedMessages leaves behind.
DrainedChip(c) ==
  nrf24_power_up(ReadAllPayloads(nrf24_clear_interrupts(nrf24_power_down(c))))

\* It has an empty receive FIFO and otherwise listens as before.
LEMMA ReadChip ==
  ASSUME NEW c \in Chip, Listening(c)
  PROVE  /\ DrainedChip(c) \in Chip
         /\ Listening(DrainedChip(c))
         /\ DrainedChip(c).rxFifo = << >>
         /\ DrainedChip(c).txFifo = c.txFifo
<1> DEFINE off == nrf24_clear_interrupts(nrf24_power_down(c))
           d == DrainedChip(c)
<1>1. /\ off \in Chip
      /\ off.pwrUp = c.pwrUp /\ off.primRx = c.primRx
      /\ off.rxAddr = c.rxAddr /\ off.txFifo = c.txFifo
  BY DEF Chip, nrf24_clear_interrupts, nrf24_power_down
<1>2. d = nrf24_power_up(ReadAllPayloads(off))
  BY DEF DrainedChip
<1> HIDE DEF off, d
<1> << >> \in Seq(Packet)
  OBVIOUS
<1>3. /\ d \in Chip
      /\ d.ce = TRUE /\ d.pwrUp = c.pwrUp /\ d.primRx = c.primRx
      /\ d.rxAddr = c.rxAddr /\ d.txFifo = c.txFifo /\ d.rxFifo = << >>
  BY <1>1, <1>2 DEF Chip, nrf24_power_up, ReadAllPayloads
<1> QED
  BY <1>3 DEF Listening, d

\* What the chip does on its own changes its flags and its FIFOs only.
LEMMA ChipSteps ==
  ASSUME NEW c \in Chip
  PROVE  /\ c.txFifo # << >> =>
              Acknowledged(c) = [c EXCEPT !.txDs = TRUE, !.txFifo = Tail(c.txFifo)]
         /\ c.txFifo # << >> => Acknowledged(c) \in Chip
         /\ RetriesExhausted(c) \in Chip
         /\ \A p \in Packet :
              /\ Received(c, p) \in Chip
              /\ Len(Received(c, p).rxFifo) = Len(c.rxFifo) + 1
<1>1. ASSUME c.txFifo # << >>
      PROVE  Tail(c.txFifo) \in Seq(Message)
  BY <1>1 DEF Chip
<1>2. ASSUME NEW p \in Packet
      PROVE  /\ Append(c.rxFifo, p) \in Seq(Packet)
             /\ Len(Append(c.rxFifo, p)) = Len(c.rxFifo) + 1
  BY DEF Chip
<1> QED
  BY <1>1, <1>2 DEF Chip, Acknowledged, RetriesExhausted, Received
-----------------------------------------------------------------------------
(* The queues.                                                             *)

\* A push on a queue keeps its type and its bound, and loses no older element.
LEMMA PushedKeeps ==
  ASSUME NEW S, NEW q \in Seq(S), NEW v \in S, Len(q) <= QueueSize
  PROVE  /\ Pushed(q, v) \in Seq(S)
         /\ Len(Pushed(q, v)) <= QueueSize
         /\ Len(q) <= Len(Pushed(q, v))
         /\ Len(Pushed(q, v)) <= Len(q) + 1
         /\ \A i \in 1 .. Len(Pushed(q, v)) :
              Pushed(q, v)[i] = IF i <= Len(q) THEN q[i] ELSE v
BY QueueSizeAssumption DEF Pushed

\* A pop shifts the elements by one.
LEMMA PoppedShifts ==
  ASSUME NEW S, NEW q \in Seq(S), q # << >>
  PROVE  /\ Head(q) \in S /\ Head(q) = q[1]
         /\ Popped(q) \in Seq(S)
         /\ Len(Popped(q)) = Len(q) - 1
         /\ \A i \in 1 .. Len(Popped(q)) : Popped(q)[i] = q[i + 1]
BY HeadTailProperties DEF Popped

\* Pushing several keeps the type and the bound too.
LEMMA PushedAllKeeps ==
  ASSUME NEW S, NEW q \in Seq(S), NEW s \in Seq(S)
  PROVE  /\ PushedAll(q, s) \in Seq(S)
         /\ Len(PushedAll(q, s)) <= QueueSize
<1> DEFINE all == q \o s
<1>1. all \in Seq(S) /\ Len(all) \in Nat
  BY ConcatProperties
<1>2. \A i \in 1 .. Len(all) : all[i] \in S
  BY <1>1
<1> HIDE DEF all
<1>3. ASSUME Len(all) > QueueSize
      PROVE  SubSeq(all, 1, QueueSize) \in Seq(S)
             /\ Len(SubSeq(all, 1, QueueSize)) = QueueSize
  BY <1>1, <1>2, <1>3, QueueSizeAssumption, SubSeqProperties
<1> QED
  BY <1>1, <1>3, QueueSizeAssumption DEF PushedAll, all
-----------------------------------------------------------------------------
(* The invariant.                                                          *)

\* The clock wraps around like the sum it is compared with.
LEMMA NextInstant ==
  ASSUME NEW t \in ClockValues, NEW w \in 0 .. LongestWait, w < LongestWait
  PROVE  (((t + w) % ClockModulus) + 1) % ClockModulus = (t + (w + 1)) % ClockModulus
<1>1. t \in 0 .. ClockModulus - 1 /\ w \in 0 .. ClockModulus - 1 /\ w + 1 < ClockModulus
  BY ClockAssumption DEF ClockValues
<1>2. (t + w) % ClockModulus = IF t + w < ClockModulus THEN t + w ELSE t + w - ClockModulus
  BY <1>1, ClockAssumption
<1>3. CASE t + w + 1 < ClockModulus
  BY <1>1, <1>2, <1>3, ClockAssumption
<1>4. CASE t + w + 1 = ClockModulus
  BY <1>1, <1>2, <1>4, ClockAssumption
<1>5. CASE t + w + 1 > ClockModulus
  BY <1>1, <1>2, <1>5, ClockAssumption
<1> QED
  BY <1>1, <1>3, <1>4, <1>5, ClockAssumption

\* A wait shorter than the clock's period is what the difference of instants is.
LEMMA ElapsedIsWaited ==
  ASSUME NEW t \in ClockValues, NEW w \in 0 .. LongestWait
  PROVE  (((t + w) % ClockModulus) - t) % ClockModulus = w
<1>1. t \in 0 .. ClockModulus - 1 /\ w \in 0 .. ClockModulus - 1
  BY ClockAssumption DEF ClockValues
<1>2. (t + w) % ClockModulus = IF t + w < ClockModulus THEN t + w ELSE t + w - ClockModulus
  BY <1>1, ClockAssumption
<1> QED
  BY <1>1, <1>2, ClockAssumption

USE DEF queueVars, clockVars, messageVars, packetVars

\* The invariant holds when the hub is powered on.
LEMMA InvInit == Init => MachineInv
<1> SUFFICES ASSUME Init PROVE MachineInv
  OBVIOUS
<1>1. PowerOn \in Chip /\ PowerOn.txFifo = << >> /\ PowerOn.rxFifo = << >>
  BY AddressAssumption DEF PowerOn, Chip
<1>2. TypeOK
  BY <1>1, QueueSizeAssumption, FifoDepthAssumption, ClockAssumption,
     RestartAssumption
     DEF Init, TypeOK, States, ClockValues
<1> QED
  BY <1>1, <1>2 DEF Init, MachineInv, LoadedAsAddressed, StateInv, IdsInv,
     SentInOrderOnce, NoStrandedPacket

\* Every call by the rest of the firmware preserves the invariant.
LEMMA InvCalls ==
  ASSUME MachineInv, Boot \/ (\E m \in Message : SendMessage(m)) \/ NextIncomingMessage
  PROVE  MachineInv'
<1> USE DEF MachineInv
<1>1. CASE Boot
  <2>1. /\ initTransceiver(chip) \in Chip
        /\ Silent(chip')
        /\ chip'.txFifo = chip.txFifo /\ chip'.rxFifo = chip.rxFifo
        /\ chip'.txAddr = chip.txAddr /\ chip'.rxAddr = chip.rxAddr
    BY <1>1, InitializedChip DEF TypeOK, Boot
  <2>2. TypeOK'
    BY <1>1, <2>1 DEF TypeOK, Boot, States
  <2>3. StateInv'
    BY <1>1, <2>1 DEF Boot, StateInv
  <2>4. NoStrandedPacket'
    BY <1>1, <2>1 DEF Boot, NoStrandedPacket, Silent
  <2>5. LoadedAsAddressed' /\ IdsInv' /\ SentInOrderOnce'
    BY <1>1, <2>1 DEF Boot, LoadedAsAddressed, IdsInv, SentInOrderOnce
  <2> QED
    BY <2>2, <2>3, <2>4, <2>5
<1>2. ASSUME NEW m \in Message, SendMessage(m)
      PROVE  MachineInv'
  <2>1. /\ transmitQueue' \in Seq(Message)
        /\ Len(transmitQueue') <= QueueSize
        /\ Len(transmitQueue) <= Len(transmitQueue')
        /\ \A i \in 1 .. Len(transmitQueue') :
              transmitQueue'[i] =
                IF i <= Len(transmitQueue) THEN transmitQueue[i] ELSE m
        /\ Len(transmitQueue') <= Len(transmitQueue) + 1
    <3>1. transmitQueue \in Seq(Message) /\ Len(transmitQueue) <= QueueSize
      BY DEF TypeOK
    <3>2. transmitQueue' = Pushed(transmitQueue, m)
      BY <1>2 DEF SendMessage
    <3>3. /\ Pushed(transmitQueue, m) \in Seq(Message)
          /\ Len(Pushed(transmitQueue, m)) <= QueueSize
          /\ Len(transmitQueue) <= Len(Pushed(transmitQueue, m))
          /\ Len(Pushed(transmitQueue, m)) <= Len(transmitQueue) + 1
          /\ \A i \in 1 .. Len(Pushed(transmitQueue, m)) :
               Pushed(transmitQueue, m)[i] =
                 IF i <= Len(transmitQueue) THEN transmitQueue[i] ELSE m
      BY <3>1, PushedKeeps, Zenon
    <3> QED
      BY <3>2, <3>3, Zenon
  <2>2. TypeOK'
    BY <1>2, <2>1 DEF TypeOK, SendMessage
  <2>3. transmitQueue # << >> => transmitQueue' # << >>
    BY <2>1 DEF TypeOK
  <2>4. StateInv'
    BY <1>2, <2>3 DEF SendMessage, StateInv
  <2>5. DOMAIN transmitQueue = 1 .. Len(transmitQueue)
        /\ DOMAIN transmitQueue' = 1 .. Len(transmitQueue')
        /\ Len(transmitQueue) \in Nat /\ Len(transmitQueue') \in Nat
    BY <2>1 DEF TypeOK
  <2>6. m.id = nextId /\ nextId' = nextId + 1 /\ firstId' = firstId
        /\ nextId \in Nat /\ firstId \in Nat
        /\ chip' = chip /\ aired' = aired
    BY <1>2 DEF SendMessage, TypeOK
  <2>7. /\ \A i \in DOMAIN transmitQueue : transmitQueue[i].id \in Nat
        /\ \A k \in DOMAIN chip.txFifo : chip.txFifo[k].id \in Nat
        /\ \A a \in aired : a[2].id \in Nat
    BY MessageAssumption DEF TypeOK, Chip
  <2>8. IdsInv'
    BY <2>1, <2>5, <2>6, <2>7 DEF IdsInv
  <2>9. SentInOrderOnce'
    BY <2>1, <2>5, <2>6, <2>7 DEF IdsInv, SentInOrderOnce
  <2>10. LoadedAsAddressed' /\ NoStrandedPacket'
    BY <1>2 DEF SendMessage, LoadedAsAddressed, NoStrandedPacket
  <2> QED
    BY <2>2, <2>4, <2>8, <2>9, <2>10
<1>3. CASE NextIncomingMessage
  <2>1. /\ lastRead' \in Nat
        /\ receiveQueue' \in Seq(Packet)
        /\ Len(receiveQueue') <= QueueSize
    <3>1. receiveQueue \in Seq(Packet) /\ Len(receiveQueue) <= QueueSize
          /\ receiveQueue # << >>
      BY <1>3 DEF TypeOK, NextIncomingMessage
    <3>2. lastRead' = Head(receiveQueue) /\ receiveQueue' = Popped(receiveQueue)
      BY <1>3 DEF NextIncomingMessage
    <3>3. /\ Head(receiveQueue) \in Packet
          /\ Popped(receiveQueue) \in Seq(Packet)
          /\ Len(Popped(receiveQueue)) = Len(receiveQueue) - 1
      BY <3>1, PoppedShifts
    <3>4. lastRead' \in Nat
      BY <3>2, <3>3, PacketAssumption
    <3>5. Len(receiveQueue') <= QueueSize
      <4>1. Len(receiveQueue) \in Nat
        BY <3>1
      <4> QED
        BY <3>1, <3>2, <3>3, <4>1, QueueSizeAssumption
    <3> QED
      BY <3>2, <3>3, <3>4, <3>5
  <2>2. TypeOK'
    BY <1>3, <2>1 DEF TypeOK, NextIncomingMessage
  <2>3. LoadedAsAddressed' /\ StateInv' /\ IdsInv' /\ SentInOrderOnce'
        /\ NoStrandedPacket'
    BY <1>3 DEF NextIncomingMessage, LoadedAsAddressed, StateInv, IdsInv,
       SentInOrderOnce, NoStrandedPacket
  <2> QED
    BY <2>2, <2>3
<1> QED
  BY <1>1, <1>2, <1>3

\* Every step of the state machine preserves the invariant.
LEMMA InvTask ==
  ASSUME MachineInv, Task
  PROVE  MachineInv'
<1> USE DEF MachineInv
<1> chip \in Chip /\ transmitQueue \in Seq(Message) /\ receiveQueue \in Seq(Packet)
  BY DEF TypeOK
<1>1. CASE Idle
  <2>1. TypeOK'
    BY <1>1 DEF TypeOK, Idle, States
  <2>2. StateInv'
    BY <1>1 DEF Idle, StateInv, MessageReceived, Silent
  <2>3. LoadedAsAddressed' /\ IdsInv' /\ SentInOrderOnce' /\ NoStrandedPacket'
    BY <1>1 DEF Idle, LoadedAsAddressed, IdsInv, SentInOrderOnce, NoStrandedPacket
  <2> QED
    BY <2>1, <2>2, <2>3
<1>2. CASE SendNextQueuedMessage
  <2> DEFINE m == Head(transmitQueue)
  <2>1. transmitQueue # << >>
    BY <1>2 DEF SendNextQueuedMessage, StateInv
  <2>2. /\ m \in Message /\ m = transmitQueue[1]
        /\ transmitQueue' \in Seq(Message)
        /\ Len(transmitQueue') = Len(transmitQueue) - 1
        /\ \A i \in 1 .. Len(transmitQueue') : transmitQueue'[i] = transmitQueue[i + 1]
    BY <1>2, <2>1, PoppedShifts DEF SendNextQueuedMessage
  <2>3. chip' = TransmitterChip(chip, m)
    BY <1>2 DEF SendNextQueuedMessage, TransmitterChip
  <2> HIDE DEF m
  <2>4. /\ chip' \in Chip
        /\ chip'.txFifo = <<m>> /\ chip'.rxFifo = << >>
        /\ chip'.txAddr = m.address /\ chip'.rxAddr = m.address
        /\ chip'.ce = TRUE /\ chip'.pwrUp = TRUE /\ chip'.primRx = FALSE
        /\ chip'.rxDr = FALSE
    BY <2>2, <2>3, LoadedChip
  <2>5. /\ DOMAIN transmitQueue = 1 .. Len(transmitQueue)
        /\ DOMAIN transmitQueue' = 1 .. Len(transmitQueue')
        /\ Len(transmitQueue) \in Nat /\ Len(transmitQueue') \in Nat
        /\ 1 \in DOMAIN transmitQueue
    BY <2>1, <2>2
  <2>6. Len(<<m>>) = 1 /\ Head(<<m>>) = m /\ DOMAIN <<m>> = {1} /\ <<m>>[1] = m
        /\ <<m>> # << >>
    <3>1. DOMAIN <<m>> = 1 .. 1 /\ 1 .. 1 = {1}
      OBVIOUS
    <3>2. Len(<<m>>) = 1 /\ <<m>>[1] = m /\ <<m>> # << >>
      OBVIOUS
    <3>3. Head(<<m>>) = m
      OBVIOUS
    <3> QED
      BY <3>1, <3>2, <3>3
  <2>7. TypeOK'
    <3>1. Len(chip'.txFifo) <= FifoDepth /\ Len(chip'.rxFifo) <= FifoDepth
      BY <2>4, <2>6, FifoDepthAssumption
    <3>2. Len(transmitQueue') <= QueueSize
      BY <2>2, <2>5, QueueSizeAssumption DEF TypeOK
    <3>3. timer' \in ClockValues /\ waited' \in 0 .. LongestWait
      BY <1>2, ClockAssumption DEF TypeOK, SendNextQueuedMessage
    <3>4. state' \in States
      BY <1>2 DEF SendNextQueuedMessage, States
    <3> QED
      BY <1>2, <2>2, <2>4, <3>1, <3>2, <3>3, <3>4 DEF TypeOK, SendNextQueuedMessage
  <2>8. firstId <= m.id /\ m.id < nextId
    BY <2>2, <2>5 DEF IdsInv
  <2>9. now \in ClockValues /\ now = (now + 0) % ClockModulus
    BY ClockAssumption DEF TypeOK, ClockValues
  <2>10. StateInv'
    <3>1. firstId \in Nat /\ m.id \in Nat
      BY <2>2, MessageAssumption DEF TypeOK
    <3> QED
      BY <1>2, <2>4, <2>6, <2>8, <2>9, <3>1 DEF SendNextQueuedMessage, StateInv
  <2>11. LoadedAsAddressed'
    BY <2>4, <2>6 DEF LoadedAsAddressed
  <2>12. NoStrandedPacket'
    BY <2>4 DEF NoStrandedPacket
  <2>13. \A i \in DOMAIN transmitQueue' :
           i + 1 \in DOMAIN transmitQueue /\ transmitQueue'[i] = transmitQueue[i + 1]
    BY <2>2, <2>5
  <2>14. nextId' = nextId /\ firstId' = firstId /\ aired' = aired
    BY <1>2 DEF SendNextQueuedMessage
  <2>15. IdsInv'
    BY <2>4, <2>6, <2>8, <2>13, <2>14 DEF IdsInv
  <2>16. \A i \in DOMAIN transmitQueue' : m.id < transmitQueue'[i].id
    BY <2>2, <2>5, <2>13 DEF SentInOrderOnce
  <2>17. \A i, j \in DOMAIN transmitQueue' :
           i < j => transmitQueue'[i].id < transmitQueue'[j].id
    BY <2>5, <2>13 DEF SentInOrderOnce
  <2>18. SentInOrderOnce'
    BY <2>4, <2>6, <2>13, <2>14, <2>16, <2>17 DEF SentInOrderOnce
  <2> QED
    BY <2>7, <2>10, <2>11, <2>12, <2>15, <2>18
<1>3. CASE WaitForMessageSent
  <2>1. /\ chip' \in Chip /\ Listening(chip')
        /\ chip'.txFifo = << >> /\ chip'.rxFifo = << >>
    BY <1>3, ReceiverChip DEF WaitForMessageSent, Listening
  <2>2. Len(<< >>) = 0 /\ DOMAIN << >> = {}
    OBVIOUS
  <2>3. TypeOK'
    BY <1>3, <2>1, <2>2, FifoDepthAssumption, ClockAssumption
       DEF TypeOK, WaitForMessageSent, States
  <2>4. StateInv' /\ LoadedAsAddressed' /\ NoStrandedPacket'
    BY <1>3, <2>1 DEF WaitForMessageSent, StateInv, LoadedAsAddressed,
       NoStrandedPacket
  <2>5. IdsInv' /\ SentInOrderOnce'
    BY <1>3, <2>1, <2>2 DEF WaitForMessageSent, IdsInv, SentInOrderOnce
  <2> QED
    BY <2>3, <2>4, <2>5
<1>4. CASE ReadReceivedMessages
  <2>1. Listening(chip)
    BY <1>4 DEF ReadReceivedMessages, StateInv
  <2>2. /\ chip' \in Chip /\ Listening(chip')
        /\ chip'.txFifo = << >> /\ chip.txFifo = << >> /\ chip'.rxFifo = << >>
    BY <1>4, <2>1, ReadChip DEF ReadReceivedMessages, DrainedChip, Listening
  <2>3. Len(<< >>) = 0 /\ DOMAIN << >> = {}
    OBVIOUS
  <2>4. receiveQueue' \in Seq(Packet) /\ Len(receiveQueue') <= QueueSize
    <3>1. chip.rxFifo \in Seq(Packet)
      BY DEF Chip
    <3> QED
      BY <1>4, <3>1, PushedAllKeeps DEF ReadReceivedMessages
  <2>5. TypeOK'
    BY <1>4, <2>2, <2>3, <2>4, FifoDepthAssumption
       DEF TypeOK, ReadReceivedMessages, States
  <2>6. StateInv' /\ LoadedAsAddressed' /\ NoStrandedPacket'
    BY <1>4, <2>2 DEF ReadReceivedMessages, StateInv, LoadedAsAddressed,
       NoStrandedPacket
  <2>7. IdsInv' /\ SentInOrderOnce'
    BY <1>4, <2>2 DEF ReadReceivedMessages, IdsInv, SentInOrderOnce
  <2> QED
    BY <2>5, <2>6, <2>7
<1> QED
  BY <1>1, <1>2, <1>3, <1>4 DEF Task

(***************************************************************************)
(* A chip that a reset may find: if a message is loaded it is one that was *)
(* given to the radio before, and both address registers are its own.      *)
(***************************************************************************)
Loadable(c) ==
  /\ c \in Chip
  /\ Len(c.txFifo) <= FifoDepth /\ Len(c.rxFifo) <= FifoDepth
  /\ \A k \in DOMAIN c.txFifo : c.txFifo[k].id < nextId
  /\ c.txFifo # << >> =>
       /\ Len(c.txFifo) = 1
       /\ c.txAddr = Head(c.txFifo).address
       /\ c.rxAddr = c.txAddr

\* A chip with an empty transmit FIFO may have any address.
LEMMA EmptyIsLoadable ==
  ASSUME NEW c \in Chip, c.txFifo = << >>, Len(c.rxFifo) <= FifoDepth
  PROVE  Loadable(c)
<1>1. Len(<< >>) = 0 /\ DOMAIN << >> = {}
  OBVIOUS
<1> QED
  BY <1>1, FifoDepthAssumption DEF Loadable

\* What the chip may have loaded: what it had, nothing, or the message whose turn it is.
Held == {chip.txFifo, << >>} \cup {<<m>> : m \in Link!HeadOf(transmitQueue)}

\* In whatever step of a branch the reset comes, the chip it finds is one of them.
LEMMA PartWayLoadable ==
  ASSUME MachineInv, NEW c \in PartWay
  PROVE  Loadable(c) /\ c.txFifo \in Held
<1> DEFINE cleared == nrf24_clear_interrupts(nrf24_power_down(chip))
           flushed == nrf24_flush_rx(cleared)
           quiet == nrf24_flush_tx(flushed)
           own == nrf24_set_rx_address(quiet, OwnAddress)
<1> chip \in Chip /\ chip.rxFifo \in Seq(Packet)
  BY DEF MachineInv, TypeOK, Chip
<1>a. Loadable(chip) /\ chip.txFifo \in Held /\ << >> \in Held
  BY DEF MachineInv, TypeOK, IdsInv, LoadedAsAddressed, Loadable, Held
<1>b. /\ Len(<< >>) = 0 /\ Len(<< >>) <= FifoDepth /\ Len(<< >>) < FifoDepth
      /\ << >> \in Seq(Message) /\ << >> \in Seq(Packet)
  BY FifoDepthAssumption
<1>c. /\ cleared \in Chip /\ Loadable(cleared)
      /\ cleared.txFifo = chip.txFifo /\ cleared.rxFifo = chip.rxFifo
  BY <1>a DEF Chip, Loadable, nrf24_clear_interrupts, nrf24_power_down
<1> HIDE DEF cleared
<1>d. /\ flushed \in Chip /\ Loadable(flushed)
      /\ flushed.rxFifo = << >> /\ flushed.txFifo = chip.txFifo
  <2>1. /\ flushed \in Chip /\ flushed.rxFifo = << >>
        /\ flushed.txFifo = cleared.txFifo
        /\ flushed.txAddr = cleared.txAddr /\ flushed.rxAddr = cleared.rxAddr
    BY <1>b, <1>c DEF Chip, nrf24_flush_rx
  <2> HIDE DEF flushed
  <2> QED
    BY <1>b, <1>c, <2>1 DEF Loadable
<1> HIDE DEF flushed
<1>e. /\ quiet \in Chip /\ Loadable(quiet)
      /\ quiet.txFifo = << >> /\ quiet.rxFifo = << >>
  <2>1. quiet \in Chip /\ quiet.txFifo = << >> /\ quiet.rxFifo = << >>
    BY <1>b, <1>d DEF Chip, nrf24_flush_tx
  <2> QED
    BY <1>b, <2>1, EmptyIsLoadable, FifoDepthAssumption
<1> HIDE DEF quiet
<1>1. CASE state = "SendNextQueuedMessage"
  <2> DEFINE m == Head(transmitQueue)
             half == nrf24_set_tx_address(quiet, m.address)
             whole == nrf24_set_rx_address(half, m.address)
             transmitter == nrf24_set_config(whole, FALSE)
             loaded == nrf24_write_tx_payload(transmitter, m)
  <2>1. m \in Message /\ m.id < nextId /\ <<m>> \in Held
    <3>1. transmitQueue # << >> /\ transmitQueue \in Seq(Message)
      BY <1>1 DEF MachineInv, TypeOK, StateInv
    <3>2. m = transmitQueue[1] /\ m \in Message /\ 1 \in DOMAIN transmitQueue
      BY <3>1, PoppedShifts
    <3>3. <<m>> \in Held
      BY <3>1 DEF Held, Link!HeadOf
    <3> QED
      BY <3>2, <3>3 DEF MachineInv, IdsInv
  <2> HIDE DEF m
  <2>2. m.address \in Address /\ m.address # NoAddress
    BY <2>1, MessageAssumption, AddressAssumption
  <2>3. half \in Chip /\ half.txAddr = m.address
        /\ half.txFifo = << >> /\ half.rxFifo = << >>
    BY <1>e, <2>2 DEF Chip, nrf24_set_tx_address, Written
  <2> HIDE DEF half
  <2>4. whole \in Chip /\ whole.txAddr = m.address /\ whole.rxAddr = m.address
        /\ whole.txFifo = << >> /\ whole.rxFifo = << >>
    BY <2>2, <2>3 DEF Chip, nrf24_set_rx_address, Written
  <2> HIDE DEF whole
  <2>5. /\ transmitter \in Chip
        /\ transmitter.txAddr = m.address /\ transmitter.rxAddr = m.address
        /\ transmitter.txFifo = << >> /\ transmitter.rxFifo = << >>
    BY <2>4 DEF Chip, nrf24_set_config
  <2> HIDE DEF transmitter
  <2>6. <<m>> \in Seq(Message) /\ Append(<< >>, m) = <<m>> /\ <<m>> # << >>
        /\ Len(<<m>>) = 1 /\ Head(<<m>>) = m /\ <<m>>[1] = m /\ DOMAIN <<m>> = {1}
    <3>1. DOMAIN <<m>> = 1 .. 1 /\ 1 .. 1 = {1}
      OBVIOUS
    <3>2. Len(<<m>>) = 1 /\ <<m>>[1] = m /\ <<m>> # << >> /\ Head(<<m>>) = m
      OBVIOUS
    <3> QED
      BY <2>1, <3>1, <3>2
  <2>7. /\ loaded \in Chip
        /\ loaded.txAddr = m.address /\ loaded.rxAddr = m.address
        /\ loaded.txFifo = <<m>> /\ loaded.rxFifo = << >>
    <3>1. loaded = [transmitter EXCEPT !.txFifo = <<m>>]
      BY <1>b, <2>5, <2>6 DEF nrf24_write_tx_payload
    <3> HIDE DEF loaded
    <3> QED
      BY <2>5, <2>6, <3>1 DEF Chip
  <2> HIDE DEF loaded
  <2>8. Loadable(loaded)
    BY <1>b, <2>1, <2>6, <2>7, FifoDepthAssumption DEF Loadable
  <2>9. Loadable(half) /\ Loadable(whole) /\ Loadable(transmitter)
    BY <1>b, <2>3, <2>4, <2>5, EmptyIsLoadable, FifoDepthAssumption
  <2>10. c \in {chip, cleared, flushed, quiet, half, whole, transmitter, loaded}
    BY <1>1 DEF PartWay, cleared, flushed, quiet, half, whole, transmitter, loaded, m
  <2> QED
    BY <1>a, <1>c, <1>d, <1>e, <2>1, <2>3, <2>4, <2>5, <2>7, <2>8, <2>9, <2>10
<1>2. CASE state = "WaitForMessageSent"
  <2> DEFINE receiver == nrf24_set_config(own, TRUE)
  <2>1. own \in Chip /\ own.txFifo = << >> /\ own.rxFifo = << >>
    BY <1>e, AddressAssumption DEF Chip, nrf24_set_rx_address, Written
  <2> HIDE DEF own
  <2>2. receiver \in Chip /\ receiver.txFifo = << >> /\ receiver.rxFifo = << >>
    BY <2>1 DEF Chip, nrf24_set_config
  <2> HIDE DEF receiver
  <2>3. Loadable(own) /\ Loadable(receiver)
    BY <1>b, <2>1, <2>2, EmptyIsLoadable
  <2>4. c \in {chip, cleared, flushed, quiet, own, receiver}
    BY <1>2 DEF PartWay, cleared, flushed, quiet, own, receiver
  <2> QED
    BY <1>a, <1>c, <1>d, <1>e, <2>1, <2>2, <2>3, <2>4
<1>3. CASE state = "ReadReceivedMessages"
  <2>1. cleared.txFifo = << >>
    BY <1>3, <1>c DEF MachineInv, StateInv, Listening
  <2>2. ASSUME NEW k \in 1 .. Len(chip.rxFifo) + 1
        PROVE  /\ Loadable([cleared EXCEPT !.rxFifo = SubSeq(@, k, Len(@))])
               /\ [cleared EXCEPT !.rxFifo = SubSeq(@, k, Len(@))].txFifo = << >>
    <3> DEFINE rest == SubSeq(cleared.rxFifo, k, Len(cleared.rxFifo))
    <3>1. rest \in Seq(Packet) /\ Len(rest) <= Len(cleared.rxFifo)
      BY <1>c
    <3>2. Len(rest) <= FifoDepth
      BY <1>c, <3>1, FifoDepthAssumption DEF MachineInv, TypeOK
    <3> HIDE DEF rest
    <3>3. /\ [cleared EXCEPT !.rxFifo = rest] \in Chip
          /\ [cleared EXCEPT !.rxFifo = rest].txFifo = << >>
          /\ [cleared EXCEPT !.rxFifo = rest].rxFifo = rest
      BY <1>c, <2>1, <3>1 DEF Chip
    <3>4. Loadable([cleared EXCEPT !.rxFifo = rest])
      BY <3>2, <3>3, EmptyIsLoadable
    <3> QED
      BY <3>3, <3>4 DEF rest
  <2>3. \/ c = chip
        \/ \E k \in 1 .. Len(chip.rxFifo) + 1 :
             c = [cleared EXCEPT !.rxFifo = SubSeq(@, k, Len(@))]
    BY <1>3 DEF PartWay, cleared
  <2> QED
    BY <1>a, <2>2, <2>3
<1>4. CASE state = "Booting" \/ state = "Idle"
  <2>1. c \in {chip, cleared}
    BY <1>4 DEF PartWay, cleared
  <2> QED
    BY <1>a, <1>c, <2>1
<1> QED
  BY <1>1, <1>2, <1>3, <1>4 DEF MachineInv, TypeOK, States

\* So does whatever the transceiver does on its own, time, and every reset.
LEMMA InvEnvironment ==
  ASSUME MachineInv, Transceiver \/ Tick \/ Restart
  PROVE  MachineInv'
<1> USE DEF MachineInv
<1> chip \in Chip /\ chip.txFifo \in Seq(Message) /\ chip.rxFifo \in Seq(Packet)
  BY DEF TypeOK, Chip
<1>a. ASSUME CanTransmit(chip)
      PROVE  /\ Len(chip.txFifo) = 1 /\ chip.txFifo # << >>
             /\ 1 \in DOMAIN chip.txFifo /\ Head(chip.txFifo) = chip.txFifo[1]
             /\ Head(chip.txFifo) \in Message
             /\ AiredBy(chip) = {<<chip.txAddr, chip.txFifo[1]>>}
             /\ chip.txAddr \in Address
  <2>1. chip.txFifo # << >> /\ Len(chip.txFifo) = 1
    BY <1>a DEF CanTransmit, LoadedAsAddressed
  <2> QED
    BY <2>1 DEF AiredBy, Chip
<1>b. ASSUME CanTransmit(chip), aired' \in {aired, aired \cup AiredBy(chip)}
      PROVE  /\ aired' \subseteq Address \X Message
             /\ \A x \in aired' : x[2].id < nextId
             /\ \A i \in DOMAIN transmitQueue :
                  \A x \in aired' : x[2].id < transmitQueue[i].id
  BY <1>a, <1>b DEF TypeOK, IdsInv, SentInOrderOnce
<1>c. ASSUME CanTransmit(chip)
      PROVE  state = "Booting" \/ state = "WaitForMessageSent"
  BY <1>c DEF CanTransmit, StateInv, Listening, Silent, TypeOK, States
<1>1. CASE ChipAcknowledged
  <2>1. CanTransmit(chip) /\ aired' = aired \cup AiredBy(chip)
    BY <1>1 DEF ChipAcknowledged, CanBeAcknowledged
  <2>2. /\ chip' = [chip EXCEPT !.txDs = TRUE, !.txFifo = Tail(chip.txFifo)]
        /\ chip' \in Chip
    BY <1>1, <1>a, <2>1, ChipSteps DEF ChipAcknowledged
  <2>3. Tail(chip.txFifo) = << >>
    <3>1. Tail(chip.txFifo) \in Seq(Message) /\ Len(Tail(chip.txFifo)) = 0
      BY <1>a, <2>1, HeadTailProperties
    <3> QED
      BY <3>1, EmptySeq
  <2>4. chip'.txFifo = << >> /\ chip'.rxFifo = chip.rxFifo /\ chip'.ce = chip.ce
        /\ chip'.pwrUp = chip.pwrUp /\ chip'.primRx = chip.primRx
        /\ chip'.rxDr = chip.rxDr
    BY <2>2, <2>3 DEF Chip
  <2>5. Len(<< >>) = 0 /\ DOMAIN << >> = {}
    OBVIOUS
  <2>6. TypeOK'
    BY <1>1, <1>b, <2>1, <2>2, <2>4, <2>5, FifoDepthAssumption
       DEF TypeOK, ChipAcknowledged
  <2>7. StateInv'
    BY <1>1, <1>c, <2>1, <2>4 DEF ChipAcknowledged, StateInv
  <2>8. LoadedAsAddressed' /\ NoStrandedPacket'
    BY <1>1, <2>4 DEF ChipAcknowledged, LoadedAsAddressed, NoStrandedPacket
  <2>9. IdsInv' /\ SentInOrderOnce'
    BY <1>1, <1>b, <2>1, <2>4, <2>5 DEF ChipAcknowledged, IdsInv, SentInOrderOnce
  <2> QED
    BY <2>6, <2>7, <2>8, <2>9
<1>2. CASE ChipRetriesExhausted
  <2>1. CanTransmit(chip) /\ aired' \in {aired, aired \cup AiredBy(chip)}
    BY <1>2 DEF ChipRetriesExhausted
  <2>2. chip' = [chip EXCEPT !.maxRt = TRUE] /\ chip' \in Chip
    BY <1>2, ChipSteps DEF ChipRetriesExhausted, RetriesExhausted
  <2>3. chip'.txFifo = chip.txFifo /\ chip'.rxFifo = chip.rxFifo
        /\ chip'.ce = chip.ce /\ chip'.pwrUp = chip.pwrUp
        /\ chip'.primRx = chip.primRx /\ chip'.rxDr = chip.rxDr
        /\ chip'.txAddr = chip.txAddr /\ chip'.rxAddr = chip.rxAddr
    BY <2>2 DEF Chip
  <2>4. TypeOK'
    BY <1>2, <1>b, <2>1, <2>2, <2>3 DEF TypeOK, ChipRetriesExhausted
  <2>5. StateInv'
    BY <1>2, <1>c, <2>1, <2>3 DEF ChipRetriesExhausted, StateInv
  <2>6. LoadedAsAddressed' /\ NoStrandedPacket'
    BY <1>2, <2>3 DEF ChipRetriesExhausted, LoadedAsAddressed, NoStrandedPacket
  <2>7. IdsInv' /\ SentInOrderOnce'
    BY <1>2, <1>b, <2>1, <2>3 DEF ChipRetriesExhausted, IdsInv, SentInOrderOnce
  <2> QED
    BY <2>4, <2>5, <2>6, <2>7
<1>3. ASSUME NEW p \in Packet, ChipReceive(p)
      PROVE  MachineInv'
  <2>1. /\ chip' \in Chip
        /\ Len(chip'.rxFifo) = Len(chip.rxFifo) + 1
    BY <1>3, ChipSteps DEF ChipReceive
  <2>2. chip' = [chip EXCEPT !.rxDr = TRUE, !.rxFifo = Append(chip.rxFifo, p)]
    BY <1>3 DEF ChipReceive, Received
  <2>3. chip'.txFifo = chip.txFifo
        /\ chip'.ce = chip.ce /\ chip'.pwrUp = chip.pwrUp
        /\ chip'.primRx = chip.primRx /\ chip'.rxDr = TRUE
        /\ chip'.txAddr = chip.txAddr /\ chip'.rxAddr = chip.rxAddr
    BY <2>2 DEF Chip
  <2>4. chip.ce /\ chip.primRx /\ Len(chip.rxFifo) < FifoDepth
    BY <1>3 DEF ChipReceive, CanReceive
  <2>5. TypeOK'
    <3>1. Len(chip'.rxFifo) <= FifoDepth
      BY <2>1, <2>4, FifoDepthAssumption
    <3>2. nextPacket' \in Nat
      BY <1>3 DEF ChipReceive, TypeOK
    <3> QED
      BY <1>3, <2>1, <2>3, <3>1, <3>2 DEF TypeOK, ChipReceive
  <2>6. StateInv'
    BY <1>3, <2>3, <2>4 DEF ChipReceive, StateInv, Listening, Silent
  <2>7. LoadedAsAddressed' /\ NoStrandedPacket'
    BY <1>3, <2>3 DEF ChipReceive, LoadedAsAddressed, NoStrandedPacket
  <2>8. IdsInv' /\ SentInOrderOnce'
    BY <1>3, <2>3 DEF ChipReceive, IdsInv, SentInOrderOnce
  <2> QED
    BY <2>5, <2>6, <2>7, <2>8
<1>4. CASE Tick
  <2>1. now' \in ClockValues
    BY <1>4, ClockAssumption DEF Tick, TypeOK, ClockValues
  <2>2. waited' \in 0 .. LongestWait
    BY <1>4, ClockAssumption DEF Tick, TypeOK
  <2>3. TypeOK'
    BY <1>4, <2>1, <2>2 DEF Tick, TypeOK
  <2>4. ASSUME state = "WaitForMessageSent"
        PROVE  now' = (timer' + waited') % ClockModulus
    <3>1. now = (timer + waited) % ClockModulus /\ waited < LongestWait
      BY <1>4, <2>4 DEF StateInv, Tick
    <3>2. timer \in ClockValues /\ waited \in 0 .. LongestWait
      BY DEF TypeOK
    <3>3. now' = (now + 1) % ClockModulus /\ waited' = waited + 1 /\ timer' = timer
      BY <1>4, <2>4 DEF Tick
    <3> QED
      BY <3>1, <3>2, <3>3, NextInstant
  <2>5. StateInv'
    BY <1>4, <2>4 DEF Tick, StateInv
  <2>6. LoadedAsAddressed' /\ IdsInv' /\ SentInOrderOnce' /\ NoStrandedPacket'
    BY <1>4 DEF Tick, LoadedAsAddressed, IdsInv, SentInOrderOnce, NoStrandedPacket
  <2> QED
    BY <2>3, <2>5, <2>6
<1>5. CASE Restart
  <2>1. Loadable(PowerOn)
    BY AddressAssumption, FifoDepthAssumption DEF PowerOn, Chip, Loadable
  <2>2. Len(<< >>) = 0 /\ DOMAIN << >> = {} /\ << >> \in Seq(Message)
        /\ << >> \in Seq(Packet)
    OBVIOUS
  <2>3. \/ chip' = PowerOn
        \/ \E c \in PartWay, level \in BOOLEAN : chip' = [c EXCEPT !.ce = level]
    BY <1>5 DEF Restart
  <2>4. Loadable(chip')
    <3>1. ASSUME NEW c \in PartWay, NEW level \in BOOLEAN
          PROVE  Loadable([c EXCEPT !.ce = level])
      BY PartWayLoadable DEF Loadable, Chip
    <3> QED
      BY <2>1, <2>3, <3>1
  <2>5. TypeOK'
    <3>1. Len(chip'.txFifo) <= FifoDepth /\ Len(chip'.rxFifo) <= FifoDepth
      BY <2>4 DEF Loadable
    <3>2. timer' \in ClockValues /\ now' \in ClockValues /\ waited' \in 0 .. LongestWait
      BY <1>5, ClockAssumption DEF Restart, ClockValues
    <3>3. restarts' \in 0 .. MaxRestarts
      BY <1>5, RestartAssumption DEF Restart, TypeOK
    <3>4. Len(transmitQueue') <= QueueSize /\ Len(receiveQueue') <= QueueSize
          /\ transmitQueue' \in Seq(Message) /\ receiveQueue' \in Seq(Packet)
      BY <1>5, <2>2, QueueSizeAssumption DEF Restart
    <3> QED
      BY <1>5, <2>4, <3>1, <3>2, <3>3, <3>4 DEF TypeOK, Restart, States, Loadable
  <2>6. StateInv' /\ NoStrandedPacket'
    BY <1>5 DEF Restart, StateInv, NoStrandedPacket
  <2>7. LoadedAsAddressed'
    BY <2>4 DEF LoadedAsAddressed, Loadable
  <2>8. IdsInv' /\ SentInOrderOnce'
    <3>1. transmitQueue' = << >> /\ nextId' = nextId /\ firstId' = nextId
          /\ aired' = aired /\ nextId \in Nat
      BY <1>5 DEF Restart, TypeOK
    <3> QED
      BY <2>2, <2>4, <3>1 DEF IdsInv, SentInOrderOnce, Loadable
  <2> QED
    BY <2>5, <2>6, <2>7, <2>8
<1> QED
  BY <1>1, <1>2, <1>3, <1>4, <1>5 DEF Transceiver
-----------------------------------------------------------------------------
(* The theorems.                                                           *)

\* A step, or a stutter, preserves the invariant.
LEMMA MachineStep ==
  ASSUME MachineInv, [Next]_vars
  PROVE  MachineInv'
<1>1. ASSUME Next PROVE MachineInv'
  BY <1>1, InvCalls, InvTask, InvEnvironment DEF Next
<1>2. ASSUME UNCHANGED vars PROVE MachineInv'
  BY <1>2 DEF vars, MachineInv, TypeOK, LoadedAsAddressed, StateInv, IdsInv,
     SentInOrderOnce, NoStrandedPacket
<1> QED
  BY <1>1, <1>2

(***************************************************************************)
(* The inductive invariant: what each state of runStateMachine() relies on *)
(* about the chip, the queue and the clock.                                *)
(***************************************************************************)
THEOREM MachineInvHolds == Spec => []MachineInv
<1>1. Init => MachineInv
  BY InvInit
<1>2. MachineInv /\ [Next]_vars => MachineInv'
  BY MachineStep
<1> QED
  BY <1>1, <1>2, PTL DEF Spec

\* Types and bounds: no queue and no FIFO ever exceeds its capacity.
THEOREM TypeCorrect == Spec => []TypeOK
<1>1. MachineInv => TypeOK
  BY DEF MachineInv
<1> QED
  BY <1>1, MachineInvHolds, PTL

(***************************************************************************)
(* The chip only ever transmits one message, under that message's address, *)
(* and can hear its acknowledgement.                                       *)
(***************************************************************************)
THEOREM NeverMisdelivers == Spec => []NoMisdelivery
<1>1. MachineInv => NoMisdelivery
  BY DEF MachineInv, NoMisdelivery, LoadedAsAddressed, CanTransmit
<1> QED
  BY <1>1, MachineInvHolds, PTL

\* After setup() no message from before the reset is transmitted.
THEOREM NeverStaleAfterBoot == Spec => []NoStaleFrameAfterBoot
<1>1. MachineInv => NoStaleFrameAfterBoot
  BY DEF MachineInv, TypeOK, States, NoStaleFrameAfterBoot, StateInv, CanTransmit,
     Listening, Silent
<1> QED
  BY <1>1, MachineInvHolds, PTL

\* Messages are tried in the order of the calls and none is tried twice.
THEOREM AlwaysInOrderOnce == Spec => []SentInOrderOnce
<1>1. MachineInv => SentInOrderOnce
  BY DEF MachineInv
<1> QED
  BY <1>1, MachineInvHolds, PTL

\* Between transmissions the chip listens, or has been off since the boot.
THEOREM AlwaysListensWhenIdle == Spec => []ListensWhenIdle
<1>1. MachineInv => ListensWhenIdle
  BY DEF MachineInv, StateInv, ListensWhenIdle
<1> QED
  BY <1>1, MachineInvHolds, PTL

\* Every packet in a chip that is on is announced by RX_DR.
THEOREM NeverStrandsPacket == Spec => []NoStrandedPacket
<1>1. MachineInv => NoStrandedPacket
  BY DEF MachineInv
<1> QED
  BY <1>1, MachineInvHolds, PTL

(***************************************************************************)
(* The wait for a transmission ends by an interrupt, or after the timeout  *)
(* has really passed: the wrap of millis() cannot cut it short.            *)
(***************************************************************************)
THEOREM NeverGivesUpEarly == Spec => NoPrematureGiveUp
<1> DEFINE A == state = "WaitForMessageSent" /\ state' = "Idle" =>
                  chip.txDs \/ chip.maxRt \/ waited >= MessageSendTimeoutMs
<1>1. MachineInv /\ [Next]_vars => [A]_vars
  <2> SUFFICES ASSUME MachineInv, Next, state = "WaitForMessageSent", state' = "Idle"
               PROVE  chip.txDs \/ chip.maxRt \/ waited >= MessageSendTimeoutMs
    OBVIOUS
  <2>1. WaitForMessageSent
    BY DEF Next, Boot, SendMessage, NextIncomingMessage, Task, Idle,
       SendNextQueuedMessage, ReadReceivedMessages, Transceiver,
       ChipAcknowledged, ChipRetriesExhausted, ChipReceive, Tick, Restart
  <2>2. CASE IrqAsserted(chip)
    <3>1. ~ chip.rxDr
      BY DEF MachineInv, StateInv
    <3> QED
      BY <2>2, <3>1 DEF IrqAsserted
  <2>3. CASE TimedOut
    <3>1. now = (timer + waited) % ClockModulus
      BY DEF MachineInv, StateInv
    <3>2. (now - timer) % ClockModulus = waited
      BY <3>1, ElapsedIsWaited DEF MachineInv, TypeOK
    <3> QED
      BY <2>3, <3>2 DEF TimedOut
  <2> QED
    BY <2>1, <2>2, <2>3 DEF WaitForMessageSent
<1> QED
  BY <1>1, MachineInvHolds, PTL DEF Spec, NoPrematureGiveUp

\* Only a reset switches a chip off that was on.
THEOREM NeverDeafens == Spec => NeverDeafAgain
<1> DEFINE A == state # "Booting" /\ state' # "Booting" /\ chip.ce => chip'.ce
<1>1. MachineInv /\ [Next]_vars => [A]_vars
  <2> SUFFICES ASSUME MachineInv, Next, state # "Booting", state' # "Booting", chip.ce
               PROVE  chip'.ce
    OBVIOUS
  <2> chip \in Chip
    BY DEF MachineInv, TypeOK
  <2>1. CASE Boot \/ (\E m \in Message : SendMessage(m)) \/ NextIncomingMessage
             \/ Idle \/ Tick \/ Restart
    BY <2>1 DEF Boot, SendMessage, NextIncomingMessage, Idle, Tick, Restart
  <2>2. CASE SendNextQueuedMessage
    <3>1. Head(transmitQueue) \in Message
      BY <2>2, PoppedShifts DEF SendNextQueuedMessage, MachineInv, StateInv, TypeOK
    <3> QED
      BY <2>2, <3>1, LoadedChip DEF SendNextQueuedMessage, TransmitterChip
  <2>3. CASE WaitForMessageSent
    BY <2>3, ReceiverChip DEF WaitForMessageSent, Listening
  <2>4. CASE ReadReceivedMessages
    BY <2>4, ReadChip DEF ReadReceivedMessages, MachineInv, StateInv, DrainedChip, Listening
  <2>5. CASE Transceiver
    BY <2>5 DEF Transceiver, ChipAcknowledged, ChipRetriesExhausted, ChipReceive,
       Acknowledged, RetriesExhausted, Received, Chip
  <2> QED
    BY <2>1, <2>2, <2>3, <2>4, <2>5 DEF Next, Task
<1> QED
  BY <1>1, MachineInvHolds, PTL DEF Spec, NeverDeafAgain

(***************************************************************************)
(* The refinement: towards its clients the radio behaves like RadioLink.   *)
(* The chip's own steps are the attempts, and the flush that ends every    *)
(* wait is the moment a message is given up.                               *)
(***************************************************************************)
THEOREM RefinesLink == Spec => ImplementsLink
<1>1. Init => Link!Init
  BY DEF Init, Link!Init, PowerOn
<1>2. MachineInv /\ [Next]_vars => [Link!Next]_(Link!vars)
  <2> SUFFICES ASSUME MachineInv, [Next]_vars
               PROVE  Link!Next \/ UNCHANGED Link!vars
    BY DEF Link!vars
  <2> chip \in Chip /\ transmitQueue \in Seq(Message)
    BY DEF MachineInv, TypeOK
  <2>1. CASE UNCHANGED vars
    BY <2>1 DEF vars, Link!vars
  <2>2. CASE Boot
    BY <2>2, InitializedChip DEF Boot, Link!vars
  <2>3. ASSUME NEW m \in Message, SendMessage(m)
        PROVE  Link!Next
    <3>1. transmitQueue' = Pushed(transmitQueue, m) /\ chip' = chip /\ aired' = aired
      BY <2>3 DEF SendMessage
    <3>2. Link!Accept(m)
      BY <3>1 DEF Pushed, Link!Accept
    <3> QED
      BY <3>2 DEF Link!Next
  <2>4. CASE NextIncomingMessage \/ Idle \/ Tick
    BY <2>4 DEF NextIncomingMessage, Idle, Tick, Link!vars
  <2>5. CASE SendNextQueuedMessage
    <3>1. transmitQueue # << >>
      BY <2>5 DEF SendNextQueuedMessage, MachineInv, StateInv
    <3>2. chip'.txFifo = <<Head(transmitQueue)>>
      <4>1. Head(transmitQueue) \in Message
        BY <3>1, PoppedShifts
      <4> QED
        BY <2>5, <4>1, LoadedChip DEF SendNextQueuedMessage, TransmitterChip
    <3>3. Link!Begin
      BY <2>5, <3>1, <3>2 DEF SendNextQueuedMessage, Popped, Link!Begin
    <3> QED
      BY <3>3 DEF Link!Next
  <2>6. CASE WaitForMessageSent
    <3>1. Link!GiveUp
      BY <2>6, ReceiverChip DEF WaitForMessageSent, Listening, Link!GiveUp
    <3> QED
      BY <3>1 DEF Link!Next
  <2>7. CASE ReadReceivedMessages
    BY <2>7, ReadChip DEF ReadReceivedMessages, DrainedChip, MachineInv, StateInv, Link!vars
  <2>8. ASSUME CanTransmit(chip)
        PROVE  /\ chip.txFifo # << >>
               /\ AiredBy(chip) = {<<Head(chip.txFifo).address, Head(chip.txFifo)>>}
               /\ Tail(chip.txFifo) = << >>
    <3>1. /\ chip.txFifo # << >> /\ Len(chip.txFifo) = 1
          /\ chip.txAddr = Head(chip.txFifo).address
          /\ chip.txFifo \in Seq(Message)
      BY <2>8 DEF CanTransmit, MachineInv, LoadedAsAddressed, Chip
    <3>2. Tail(chip.txFifo) = << >>
      <4>1. /\ Tail(chip.txFifo) \in Seq(Message)
            /\ Len(Tail(chip.txFifo)) = Len(chip.txFifo) - 1
        BY <3>1, HeadTailProperties
      <4>2. Len(Tail(chip.txFifo)) = 0
        BY <3>1, <4>1
      <4> QED
        BY <4>1, <4>2, EmptySeq
    <3> QED
      BY <3>1, <3>2 DEF AiredBy
  <2>9. CASE ChipAcknowledged
    <3>1. chip'.txFifo = << >>
      BY <2>8, <2>9 DEF ChipAcknowledged, CanBeAcknowledged, Acknowledged, Chip
    <3>2. Link!Air
      BY <2>8, <2>9, <3>1 DEF ChipAcknowledged, CanBeAcknowledged, Link!Air
    <3> QED
      BY <3>2 DEF Link!Next
  <2>10. CASE ChipRetriesExhausted
    <3>1. chip'.txFifo = chip.txFifo
      BY <2>10 DEF ChipRetriesExhausted, RetriesExhausted, Chip
    <3>2. CASE aired' = aired
      BY <2>10, <3>1, <3>2 DEF ChipRetriesExhausted, Link!vars
    <3>3. CASE aired' = aired \cup AiredBy(chip)
      <4>1. Link!Air
        BY <2>8, <2>10, <3>1, <3>3 DEF ChipRetriesExhausted, Link!Air
      <4> QED
        BY <4>1 DEF Link!Next
    <3> QED
      BY <2>10, <3>2, <3>3 DEF ChipRetriesExhausted
  <2>11. ASSUME NEW p \in Packet, ChipReceive(p)
         PROVE  UNCHANGED Link!vars
    BY <2>11 DEF ChipReceive, Received, Chip, Link!vars
  <2>12. CASE Restart
    <3>1. chip'.txFifo \in
            {chip.txFifo, << >>} \cup {<<m>> : m \in Link!HeadOf(transmitQueue)}
      <4>1. ASSUME NEW c \in PartWay, NEW level \in BOOLEAN
            PROVE  [c EXCEPT !.ce = level].txFifo \in Held
        <5>1. c \in Chip /\ c.txFifo \in Held
          BY PartWayLoadable DEF Loadable
        <5> QED
          BY <5>1 DEF Chip
      <4>2. PowerOn.txFifo \in Held
        BY DEF PowerOn, Held
      <4>3. chip' \in {[c EXCEPT !.ce = level] : c \in PartWay, level \in BOOLEAN}
                      \cup {PowerOn}
        BY <2>12 DEF Restart
      <4>4. ASSUME NEW c \in PartWay, NEW level \in BOOLEAN,
                   chip' = [c EXCEPT !.ce = level]
            PROVE  chip'.txFifo \in Held
        BY <4>1, <4>4, Zenon
      <4>5. \/ chip' = PowerOn
            \/ \E c \in PartWay : \E level \in BOOLEAN : chip' = [c EXCEPT !.ce = level]
        BY <4>3
      <4>6. chip'.txFifo \in Held
        <5>1. CASE chip' = PowerOn
          BY <4>2, <5>1, Zenon
        <5>2. CASE \E c \in PartWay :
                     \E level \in BOOLEAN : chip' = [c EXCEPT !.ce = level]
          <6>1. PICK c \in PartWay :
                       \E level \in BOOLEAN : chip' = [c EXCEPT !.ce = level]
            BY <5>2, Zenon
          <6>2. PICK level \in BOOLEAN : chip' = [c EXCEPT !.ce = level]
            BY <6>1, Zenon
          <6> QED
            BY <4>4, <6>2, Zenon
        <5> QED
          BY <4>5, <5>1, <5>2, Zenon
      <4> QED
        BY <4>6, Zenon DEF Held
    <3>2. Link!Restart
      BY <2>12, <3>1 DEF Restart, Link!Restart
    <3> QED
      BY <3>2 DEF Link!Next
  <2> QED
    BY <2>1, <2>2, <2>3, <2>4, <2>5, <2>6, <2>7, <2>9, <2>10, <2>11, <2>12
       DEF Next, Task, Transceiver
<1> QED
  BY <1>1, <1>2, MachineInvHolds, PTL DEF Spec, ImplementsLink, Link!Spec
-----------------------------------------------------------------------------
(* Ordered sequences, and what remains of one.                             *)

\* The elements increase, and lie between two numbers.
Ordered(s, low, high) ==
  /\ \A i, j \in DOMAIN s : i < j => s[i] < s[j]
  /\ \A i \in DOMAIN s : low < s[i] /\ s[i] < high

\* t is what remains of s when its ends are cut off.
Window(s, t) ==
  \E a \in Nat : /\ a + Len(t) <= Len(s)
                 /\ \A i \in 1 .. Len(t) : t[i] = s[a + i]

\* What remains of an ordered sequence is ordered.
LEMMA WindowOrdered ==
  ASSUME NEW s \in Seq(Nat), NEW t \in Seq(Nat), NEW low \in Nat, NEW high \in Nat,
         Ordered(s, low, high), Window(s, t)
  PROVE  Ordered(t, low, high)
<1>1. PICK a \in Nat : /\ a + Len(t) <= Len(s)
                       /\ \A i \in 1 .. Len(t) : t[i] = s[a + i]
  BY DEF Window
<1>2. /\ DOMAIN t = 1 .. Len(t) /\ DOMAIN s = 1 .. Len(s)
      /\ Len(t) \in Nat /\ Len(s) \in Nat
  OBVIOUS
<1>3. ASSUME NEW i \in DOMAIN t
      PROVE  a + i \in DOMAIN s /\ t[i] = s[a + i] /\ i \in Nat
  <2>1. i \in 1 .. Len(t)
    BY <1>2
  <2>2. t[i] = s[a + i]
    BY <1>1, <2>1, Zenon
  <2>3. a + Len(t) <= Len(s) /\ Len(t) \in Nat /\ Len(s) \in Nat
    BY <1>1, <1>2, Zenon
  <2>4. \A n, k \in Nat :
          a + n <= k => \A j \in 1 .. n : j \in Nat /\ a + j \in 1 .. k
    OBVIOUS
  <2>5. i \in Nat /\ a + i \in 1 .. Len(s)
    BY <2>1, <2>3, <2>4, Zenon
  <2> QED
    BY <1>2, <2>2, <2>5, Zenon
<1> QED
  BY <1>3 DEF Ordered

\* The first element is below what remains behind it.
LEMMA RestOrdered ==
  ASSUME NEW s \in Seq(Nat), NEW low \in Nat, NEW high \in Nat,
         Ordered(s, low, high), s # << >>
  PROVE  Head(s) < high /\ Ordered(Tail(s), Head(s), high)
<1>1. /\ Len(s) \in Nat /\ DOMAIN s = 1 .. Len(s) /\ 1 \in DOMAIN s
      /\ Head(s) = s[1] /\ Tail(s) \in Seq(Nat)
      /\ DOMAIN Tail(s) = 1 .. Len(s) - 1
      /\ \A i \in DOMAIN Tail(s) : Tail(s)[i] = s[i + 1]
  BY HeadTailProperties
<1>2. \A i \in DOMAIN Tail(s) : i + 1 \in DOMAIN s /\ i \in Nat /\ 1 < i + 1
  BY <1>1
<1>3. /\ \A i, j \in DOMAIN s : i < j => s[i] < s[j]
      /\ \A i \in DOMAIN s : s[i] < high
  BY DEF Ordered
<1> HIDE DEF Ordered
<1>4. Head(s) < high
  BY <1>1, <1>3
<1>5. \A i \in DOMAIN Tail(s) : Head(s) < Tail(s)[i] /\ Tail(s)[i] < high
  BY <1>1, <1>2, <1>3
<1>6. \A i, j \in DOMAIN Tail(s) : i < j => Tail(s)[i] < Tail(s)[j]
  BY <1>1, <1>2, <1>3
<1> QED
  BY <1>4, <1>5, <1>6 DEF Ordered

\* A new element above all of them may be added.
LEMMA AddedOrdered ==
  ASSUME NEW s \in Seq(Nat), NEW low \in Nat, NEW high \in Nat,
         Ordered(s, low, high), low < high
  PROVE  Ordered(Append(s, high), low, high + 1)
<1>1. /\ Len(s) \in Nat /\ DOMAIN s = 1 .. Len(s)
      /\ DOMAIN Append(s, high) = 1 .. Len(s) + 1
      /\ \A i \in DOMAIN s : Append(s, high)[i] = s[i] /\ s[i] \in Nat
      /\ Append(s, high)[Len(s) + 1] = high
  OBVIOUS
<1> DEFINE t == Append(s, high)
<1>2. /\ \A i, j \in DOMAIN s : i < j => s[i] < s[j]
      /\ \A i \in DOMAIN s : low < s[i] /\ s[i] < high
  BY DEF Ordered
<1> HIDE DEF t
<1>3. \A i \in DOMAIN t : i \in DOMAIN s \/ i = Len(s) + 1
  BY <1>1 DEF t
<1>4. \A i, j \in DOMAIN t : i < j => t[i] < t[j]
  BY <1>1, <1>2, <1>3 DEF t
<1>5. \A i \in DOMAIN t : low < t[i] /\ t[i] < high + 1
  BY <1>1, <1>2, <1>3 DEF t
<1>6. Ordered(t, low, high + 1)
  BY <1>4, <1>5 DEF Ordered
<1> QED
  BY <1>6 DEF t

\* What ReadReceivedMessages hands over are the first packets.
LEMMA PushedIsWindow ==
  ASSUME NEW S, NEW q \in Seq(S), NEW f \in Seq(S)
  PROVE  /\ Window(q \o f, PushedAll(q, f))
         /\ Window(q \o f, q)
         /\ Window(q \o f, f)
<1> DEFINE all == q \o f
<1>1. /\ all \in Seq(S) /\ Len(all) = Len(q) + Len(f)
      /\ Len(q) \in Nat /\ Len(f) \in Nat /\ Len(all) \in Nat
      /\ \A i \in 1 .. Len(q) : all[i] = q[i]
      /\ \A i \in 1 .. Len(f) : all[Len(q) + i] = f[i]
  BY ConcatProperties
<1> HIDE DEF all
<1>2. Window(all, q)
  <2>1. 0 + Len(q) <= Len(all) /\ \A i \in 1 .. Len(q) : q[i] = all[0 + i]
    BY <1>1
  <2> QED
    BY <2>1 DEF Window
<1>3. Window(all, f)
  BY <1>1 DEF Window
<1>4. Window(all, all)
  <2>1. 0 + Len(all) <= Len(all) /\ \A i \in 1 .. Len(all) : all[i] = all[0 + i]
    BY <1>1
  <2> QED
    BY <2>1 DEF Window
<1>5. ASSUME Len(all) > QueueSize
      PROVE  Window(all, SubSeq(all, 1, QueueSize))
  <2> DEFINE t == SubSeq(all, 1, QueueSize)
  <2>1. Len(t) = QueueSize /\ \A i \in 1 .. QueueSize : t[i] = all[i]
    BY <1>1, <1>5, QueueSizeAssumption, SubSeqProperties
  <2> HIDE DEF t
  <2>2. 0 + Len(t) <= Len(all) /\ \A i \in 1 .. Len(t) : t[i] = all[0 + i]
    BY <1>1, <1>5, <2>1, QueueSizeAssumption
  <2>3. Window(all, t)
    BY <2>2 DEF Window
  <2> QED
    BY <2>3 DEF t
<1>6. PushedAll(q, f) = IF Len(all) <= QueueSize THEN all ELSE SubSeq(all, 1, QueueSize)
  BY DEF PushedAll, all
<1>7. Window(all, PushedAll(q, f))
  BY <1>1, <1>4, <1>5, <1>6, QueueSizeAssumption
<1> QED
  BY <1>2, <1>3, <1>7 DEF all
-----------------------------------------------------------------------------
(* What the steps make of the packets.                                     *)

USE DEF queueVars, clockVars, messageVars, packetVars

\* The packets received are a sequence of numbers.
LEMMA PacketTypes ==
  /\ MachineInv => /\ receiveQueue \in Seq(Packet) /\ Len(receiveQueue) <= QueueSize
                   /\ chip \in Chip /\ chip.rxFifo \in Seq(Packet)
                   /\ ReceivedPackets \in Seq(Packet) /\ ReceivedPackets \in Seq(Nat)
                   /\ lastRead \in Nat /\ nextPacket \in Nat
  /\ MachineInv' => ReceivedPackets' \in Seq(Nat)
<1>1. ASSUME NEW q \in Seq(Packet) PROVE q \in Seq(Nat)
  <2>1. \A i \in 1 .. Len(q) : q[i] \in Packet
    OBVIOUS
  <2>2. \A i \in 1 .. Len(q) : q[i] \in Nat
    BY <2>1, PacketAssumption
  <2>3. q = [i \in 1 .. Len(q) |-> q[i]] /\ Len(q) \in Nat
    OBVIOUS
  <2> QED
    BY <2>2, <2>3, IsASeq
<1>2. ASSUME MachineInv
      PROVE  /\ receiveQueue \in Seq(Packet) /\ Len(receiveQueue) <= QueueSize
             /\ chip \in Chip /\ chip.rxFifo \in Seq(Packet)
             /\ lastRead \in Nat /\ nextPacket \in Nat
  BY <1>2 DEF MachineInv, TypeOK, Chip
<1>3. ASSUME MachineInv
      PROVE  ReceivedPackets \in Seq(Packet)
  BY <1>2, <1>3, ConcatProperties DEF ReceivedPackets
<1>4. ASSUME MachineInv'
      PROVE  receiveQueue' \in Seq(Packet) /\ chip'.rxFifo \in Seq(Packet)
  BY <1>4 DEF MachineInv, TypeOK, Chip
<1>5. ASSUME MachineInv'
      PROVE  ReceivedPackets' \in Seq(Packet)
  BY <1>4, <1>5, ConcatProperties DEF ReceivedPackets
<1> QED
  BY <1>1, <1>2, <1>3, <1>5

\* The invariant about packets is an order between two numbers.
LEMMA PacketInvIsOrder ==
  /\ PacketInv <=> /\ lastRead < nextPacket
                   /\ Ordered(ReceivedPackets, lastRead, nextPacket)
  /\ PacketInv' <=> /\ lastRead' < nextPacket'
                    /\ Ordered(ReceivedPackets', lastRead', nextPacket')
<1>1. PacketInv <=> /\ lastRead < nextPacket
                    /\ Ordered(ReceivedPackets, lastRead, nextPacket)
  BY DEF PacketInv, ReadInOrderOnce, Ordered
<1>2. PacketInv' <=> /\ lastRead' < nextPacket'
                     /\ Ordered(ReceivedPackets', lastRead', nextPacket')
  BY DEF PacketInv, ReadInOrderOnce, Ordered
<1> QED
  BY <1>1, <1>2

\* The driver's other functions leave the receive FIFO alone.
LEMMA DriverKeepsPackets ==
  ASSUME NEW c, "rxFifo" \in DOMAIN c, NEW a, NEW m, NEW prx
  PROVE  /\ "rxFifo" \in DOMAIN nrf24_power_down(c)
         /\ nrf24_power_down(c).rxFifo = c.rxFifo
         /\ "rxFifo" \in DOMAIN nrf24_clear_interrupts(c)
         /\ nrf24_clear_interrupts(c).rxFifo = c.rxFifo
         /\ "rxFifo" \in DOMAIN nrf24_flush_tx(c)
         /\ nrf24_flush_tx(c).rxFifo = c.rxFifo
         /\ "rxFifo" \in DOMAIN nrf24_set_tx_address(c, a)
         /\ nrf24_set_tx_address(c, a).rxFifo = c.rxFifo
         /\ "rxFifo" \in DOMAIN nrf24_set_rx_address(c, a)
         /\ nrf24_set_rx_address(c, a).rxFifo = c.rxFifo
         /\ "rxFifo" \in DOMAIN nrf24_set_config(c, prx)
         /\ nrf24_set_config(c, prx).rxFifo = c.rxFifo
         /\ "rxFifo" \in DOMAIN nrf24_write_tx_payload(c, m)
         /\ nrf24_write_tx_payload(c, m).rxFifo = c.rxFifo
         /\ "rxFifo" \in DOMAIN nrf24_flush_rx(c)
         /\ nrf24_flush_rx(c).rxFifo = << >>
BY DEF nrf24_power_down, nrf24_clear_interrupts, nrf24_flush_tx, nrf24_flush_rx,
   nrf24_set_tx_address, nrf24_set_rx_address, nrf24_set_config,
   nrf24_write_tx_payload

\* Whenever the reset comes, the FIFO has lost its oldest packets at most.
LEMMA PartWayPackets ==
  ASSUME MachineInv, NEW c \in PartWay
  PROVE  "rxFifo" \in DOMAIN c /\ Window(chip.rxFifo, c.rxFifo)
<1> DEFINE cleared == nrf24_clear_interrupts(nrf24_power_down(chip))
           flushed == nrf24_flush_rx(cleared)
           quiet == nrf24_flush_tx(flushed)
           own == nrf24_set_rx_address(quiet, OwnAddress)
           m == Head(transmitQueue)
           half == nrf24_set_tx_address(quiet, m.address)
           whole == nrf24_set_rx_address(half, m.address)
           transmitter == nrf24_set_config(whole, FALSE)
           Plain == {chip, cleared, flushed, quiet, own, nrf24_set_config(own, TRUE),
                     half, whole, transmitter, nrf24_write_tx_payload(transmitter, m)}
           Shortened == {[cleared EXCEPT !.rxFifo = SubSeq(@, k, Len(@))] :
                           k \in 1 .. Len(chip.rxFifo) + 1}
<1>1. c \in Plain \cup Shortened
  BY DEF PartWay
<1>2. chip \in Chip /\ chip.rxFifo \in Seq(Packet) /\ "rxFifo" \in DOMAIN chip
  BY DEF MachineInv, TypeOK, Chip
<1>3. Window(chip.rxFifo, << >>) /\ Window(chip.rxFifo, chip.rxFifo)
  <2>1. 0 + Len(<< >>) <= Len(chip.rxFifo) /\ 0 + Len(chip.rxFifo) <= Len(chip.rxFifo)
        /\ \A i \in 1 .. Len(chip.rxFifo) : chip.rxFifo[i] = chip.rxFifo[0 + i]
        /\ 1 .. Len(<< >>) = {}
    BY <1>2
  <2> QED
    BY <2>1 DEF Window
<1>4. "rxFifo" \in DOMAIN cleared /\ cleared.rxFifo = chip.rxFifo
  BY <1>2, DriverKeepsPackets
<1> HIDE DEF cleared
<1>5. ASSUME c \in Plain
      PROVE  "rxFifo" \in DOMAIN c /\ c.rxFifo \in {chip.rxFifo, << >>}
  <2>1. "rxFifo" \in DOMAIN quiet /\ quiet.rxFifo = << >>
        /\ "rxFifo" \in DOMAIN flushed /\ flushed.rxFifo = << >>
    BY <1>4, DriverKeepsPackets
  <2> HIDE DEF quiet, flushed
  <2>2. "rxFifo" \in DOMAIN own /\ own.rxFifo = << >>
    BY <2>1, DriverKeepsPackets
  <2>3. "rxFifo" \in DOMAIN half /\ half.rxFifo = << >>
    BY <2>1, DriverKeepsPackets
  <2> HIDE DEF half, own
  <2>4. /\ "rxFifo" \in DOMAIN nrf24_set_config(own, TRUE)
        /\ nrf24_set_config(own, TRUE).rxFifo = << >>
    BY <2>2, DriverKeepsPackets
  <2>5. "rxFifo" \in DOMAIN whole /\ whole.rxFifo = << >>
    BY <2>3, DriverKeepsPackets
  <2> HIDE DEF whole
  <2>6. "rxFifo" \in DOMAIN transmitter /\ transmitter.rxFifo = << >>
    BY <2>5, DriverKeepsPackets
  <2> HIDE DEF transmitter
  <2>7. /\ "rxFifo" \in DOMAIN nrf24_write_tx_payload(transmitter, m)
        /\ nrf24_write_tx_payload(transmitter, m).rxFifo = << >>
    BY <2>6, DriverKeepsPackets
  <2> QED
    BY <1>2, <1>4, <1>5, <2>1, <2>2, <2>3, <2>4, <2>5, <2>6, <2>7
<1>6. ASSUME NEW k \in 1 .. Len(chip.rxFifo) + 1,
             c = [cleared EXCEPT !.rxFifo = SubSeq(@, k, Len(@))]
      PROVE  "rxFifo" \in DOMAIN c /\ Window(chip.rxFifo, c.rxFifo)
  <2> DEFINE f == chip.rxFifo
             rest == SubSeq(f, k, Len(f))
  <2>1. "rxFifo" \in DOMAIN c /\ c.rxFifo = rest
    BY <1>4, <1>6
  <2>2. f \in Seq(Packet)
    BY <1>2
  <2> HIDE DEF f
  <2>3. k - 1 \in Nat /\ (k - 1) + Len(rest) <= Len(f)
        /\ \A i \in 1 .. Len(rest) : rest[i] = f[(k - 1) + i]
    <3>1. k \in 1 .. Len(f) + 1
      BY DEF f
    <3> QED
      BY <2>2, <3>1, SubSeqProperties
  <2>4. Window(f, rest)
    BY <2>3 DEF Window
  <2> QED
    BY <2>1, <2>4 DEF f
<1> QED
  BY <1>1, <1>3, <1>5, <1>6

\* What is left of a second part is left of the whole.
LEMMA WindowOfRest ==
  ASSUME NEW S, NEW q \in Seq(S), NEW f \in Seq(S), NEW t \in Seq(S), Window(f, t)
  PROVE  Window(q \o f, << >> \o t)
<1>1. PICK a \in Nat : a + Len(t) <= Len(f) /\ \A i \in 1 .. Len(t) : t[i] = f[a + i]
  BY DEF Window
<1>2. /\ Len(q \o f) = Len(q) + Len(f)
      /\ Len(q) \in Nat /\ Len(f) \in Nat /\ Len(t) \in Nat
      /\ \A i \in 1 .. Len(f) : (q \o f)[Len(q) + i] = f[i]
  BY ConcatProperties
<1>3. << >> \o t = t
  BY ConcatEmptySeq
<1>4. ASSUME NEW i \in 1 .. Len(t)
      PROVE  t[i] = (q \o f)[(Len(q) + a) + i]
  <2>1. a + i \in 1 .. Len(f)
    BY <1>1, <1>2
  <2>2. Len(q) + (a + i) = (Len(q) + a) + i
    BY <1>2
  <2> QED
    BY <1>1, <1>2, <2>1, <2>2
<1>5. Len(q) + a \in Nat /\ (Len(q) + a) + Len(t) <= Len(q \o f)
  BY <1>1, <1>2
<1> QED
  BY <1>3, <1>4, <1>5 DEF Window

\* These steps only cut off packets at an end.
LEMMA PacketsCut ==
  ASSUME MachineInv, MachineInv',
         \/ SendNextQueuedMessage \/ WaitForMessageSent
         \/ ReadReceivedMessages \/ Restart
  PROVE  Window(ReceivedPackets, ReceivedPackets') /\ UNCHANGED packetVars
<1> DEFINE q == receiveQueue
           f == chip.rxFifo
<1> q \in Seq(Packet) /\ f \in Seq(Packet) /\ chip \in Chip
  BY PacketTypes
<1>a. ReceivedPackets = q \o f /\ ReceivedPackets' = receiveQueue' \o chip'.rxFifo
  BY DEF ReceivedPackets
<1>1. ASSUME receiveQueue' = q, chip'.rxFifo = << >>
      PROVE  Window(ReceivedPackets, ReceivedPackets')
  <2>1. ReceivedPackets' = q
    BY <1>a, <1>1, ConcatEmptySeq
  <2> QED
    BY <1>a, <2>1, PushedIsWindow
<1>2. CASE SendNextQueuedMessage
  <2>1. Head(transmitQueue) \in Message
    BY <1>2, PoppedShifts DEF SendNextQueuedMessage, MachineInv, StateInv, TypeOK
  <2>2. chip'.rxFifo = << >>
    BY <1>2, <2>1, LoadedChip DEF SendNextQueuedMessage, TransmitterChip
  <2> QED
    BY <1>1, <1>2, <2>2 DEF SendNextQueuedMessage
<1>3. CASE WaitForMessageSent
  <2>1. chip'.rxFifo = << >>
    BY <1>3, ReceiverChip DEF WaitForMessageSent
  <2> QED
    BY <1>1, <1>3, <2>1 DEF WaitForMessageSent
<1>4. CASE ReadReceivedMessages
  <2>1. chip'.rxFifo = << >> /\ receiveQueue' = PushedAll(q, f)
    BY <1>4, ReadChip DEF ReadReceivedMessages, MachineInv, StateInv, DrainedChip
  <2>2. ReceivedPackets' = PushedAll(q, f)
    BY <1>a, <2>1, PushedAllKeeps, ConcatEmptySeq
  <2>3. Window(q \o f, PushedAll(q, f))
    BY PushedIsWindow
  <2>4. UNCHANGED packetVars
    BY <1>4 DEF ReadReceivedMessages
  <2> QED
    BY <1>a, <2>2, <2>3, <2>4
<1>5. CASE Restart
  <2>1. receiveQueue' = << >> /\ UNCHANGED packetVars
        /\ chip'.rxFifo \in Seq(Packet)
    BY <1>5 DEF Restart, MachineInv, TypeOK, Chip
  <2>2. Window(f, chip'.rxFifo)
    <3>1. CASE chip' = PowerOn
      <4>1. chip'.rxFifo = << >>
        BY <3>1 DEF PowerOn
      <4>2. 0 + Len(<< >>) <= Len(f) /\ 1 .. Len(<< >>) = {}
        OBVIOUS
      <4> QED
        BY <4>1, <4>2 DEF Window
    <3>2. ASSUME NEW c \in PartWay, NEW level \in BOOLEAN,
                 chip' = [c EXCEPT !.ce = level]
          PROVE  Window(f, chip'.rxFifo)
      <4>1. "rxFifo" \in DOMAIN c /\ Window(f, c.rxFifo)
        BY PartWayPackets
      <4>2. chip'.rxFifo = c.rxFifo
        BY <3>2, <4>1
      <4> QED
        BY <4>1, <4>2
    <3> QED
      BY <1>5, <3>1, <3>2 DEF Restart
  <2>3. Window(q \o f, << >> \o chip'.rxFifo)
    BY <2>1, <2>2, WindowOfRest
  <2> QED
    BY <1>a, <2>1, <2>3
<1> QED
  BY <1>2, <1>3, <1>4, <1>5

\* The consumer takes the oldest packet.
LEMMA PacketTaken ==
  ASSUME MachineInv, NextIncomingMessage
  PROVE  /\ ReceivedPackets # << >>
         /\ lastRead' = Head(ReceivedPackets)
         /\ ReceivedPackets' = Tail(ReceivedPackets)
         /\ nextPacket' = nextPacket
<1> DEFINE q == receiveQueue
           f == chip.rxFifo
<1>1. /\ q # << >> /\ lastRead' = Head(q) /\ receiveQueue' = Tail(q)
      /\ chip' = chip /\ nextPacket' = nextPacket
  BY DEF NextIncomingMessage, Popped
<1>2. ReceivedPackets = q \o f /\ ReceivedPackets' = Tail(q) \o f
  BY <1>1 DEF ReceivedPackets
<1>3. q \in Seq(Packet) /\ f \in Seq(Packet)
  BY PacketTypes
<1> HIDE DEF q, f
<1>4. q \o f # << >> /\ Head(q \o f) = Head(q) /\ Tail(q \o f) = Tail(q) \o f
  <2> DEFINE s == Tail(q \o f)
             t == Tail(q) \o f
  <2>1. /\ q \o f \in Seq(Packet) /\ Len(q \o f) = Len(q) + Len(f)
        /\ Len(q) \in Nat \ {0} /\ Len(f) \in Nat
        /\ Tail(q) \in Seq(Packet) /\ Len(Tail(q)) = Len(q) - 1
        /\ \A i \in 1 .. Len(q) - 1 : Tail(q)[i] = q[i + 1]
    BY <1>1, <1>3, ConcatProperties, HeadTailProperties
  <2>2. q \o f # << >> /\ (q \o f)[1] = q[1]
    BY <1>3, <2>1
  <2>3. /\ s \in Seq(Packet) /\ Len(s) = Len(q) + Len(f) - 1
        /\ \A i \in 1 .. Len(s) : s[i] = (q \o f)[i + 1]
    BY <2>1, <2>2, HeadTailProperties
  <2>4. t \in Seq(Packet) /\ Len(t) = Len(s)
    BY <1>3, <2>1, <2>3, ConcatProperties
  <2>5. ASSUME NEW i \in 1 .. Len(s) PROVE s[i] = t[i]
    <3>1. s[i] = IF i + 1 <= Len(q) THEN q[i + 1] ELSE f[(i + 1) - Len(q)]
      BY <1>3, <2>1, <2>3, ConcatProperties
    <3>2. t[i] = IF i <= Len(q) - 1 THEN Tail(q)[i] ELSE f[i - (Len(q) - 1)]
      BY <1>3, <2>1, <2>3, ConcatProperties
    <3>3. (i + 1) - Len(q) = i - (Len(q) - 1)
      BY <2>1
    <3> QED
      BY <2>1, <3>1, <3>2, <3>3
  <2> HIDE DEF s, t
  <2>6. s = t
    BY <2>3, <2>4, <2>5, SeqEqual
  <2> QED
    BY <1>1, <1>3, <2>2, <2>6 DEF s, t
<1> QED
  BY <1>1, <1>2, <1>4

\* A packet that arrives is the newest.
LEMMA PacketAdded ==
  ASSUME MachineInv, NEW p \in Packet, ChipReceive(p)
  PROVE  /\ ReceivedPackets' = Append(ReceivedPackets, nextPacket)
         /\ nextPacket' = nextPacket + 1 /\ lastRead' = lastRead
<1> DEFINE q == receiveQueue
           f == chip.rxFifo
<1>1. /\ chip'.rxFifo = Append(f, nextPacket) /\ receiveQueue' = q
      /\ nextPacket' = nextPacket + 1 /\ lastRead' = lastRead
      /\ nextPacket \in Packet
  <2>1. p = nextPacket /\ chip \in Chip
    BY PacketTypes DEF ChipReceive
  <2>2. chip' = [chip EXCEPT !.rxDr = TRUE, !.rxFifo = Append(f, nextPacket)]
    BY <2>1 DEF ChipReceive, Received
  <2>3. chip'.rxFifo = Append(f, nextPacket)
    BY <2>1, <2>2 DEF Chip
  <2> QED
    BY <2>1, <2>3 DEF ChipReceive
<1>2. ReceivedPackets = q \o f /\ ReceivedPackets' = q \o Append(f, nextPacket)
  BY <1>1 DEF ReceivedPackets
<1>3. q \in Seq(Packet) /\ f \in Seq(Packet)
  BY PacketTypes
<1> HIDE DEF q, f
<1>4. q \o Append(f, nextPacket) = Append(q \o f, nextPacket)
  <2>1. Append(f, nextPacket) = f \o <<nextPacket>>
        /\ Append(q \o f, nextPacket) = (q \o f) \o <<nextPacket>>
    BY <1>1, <1>3, AppendIsConcat, ConcatProperties
  <2>2. <<nextPacket>> \in Seq(Packet)
    BY <1>1
  <2> QED
    BY <1>3, <2>1, <2>2, ConcatAssociative
<1> QED
  BY <1>1, <1>2, <1>4

\* No other step touches a packet.
LEMMA PacketsUntouched ==
  ASSUME MachineInv,
         \/ Boot \/ (\E m \in Message : SendMessage(m)) \/ Idle \/ Tick
         \/ ChipAcknowledged \/ ChipRetriesExhausted \/ UNCHANGED vars
  PROVE  /\ chip'.rxFifo = chip.rxFifo /\ receiveQueue' = receiveQueue
         /\ UNCHANGED packetVars
<1>1. chip \in Chip
  BY PacketTypes
<1>2. CASE Boot
  BY <1>1, <1>2, InitializedChip DEF Boot
<1>3. CASE ChipAcknowledged
  BY <1>1, <1>3 DEF ChipAcknowledged, Acknowledged, Chip
<1>4. CASE ChipRetriesExhausted
  BY <1>1, <1>4 DEF ChipRetriesExhausted, RetriesExhausted, Chip
<1>5. CASE (\E m \in Message : SendMessage(m)) \/ Idle \/ Tick \/ UNCHANGED vars
  BY <1>5 DEF SendMessage, Idle, Tick, vars
<1> QED
  BY <1>2, <1>3, <1>4, <1>5

\* Every step keeps the packets in order.
LEMMA PacketInvStep ==
  ASSUME MachineInv, MachineInv', PacketInv, [Next]_vars
  PROVE  PacketInv'
<1>1. /\ lastRead < nextPacket /\ Ordered(ReceivedPackets, lastRead, nextPacket)
      /\ ReceivedPackets \in Seq(Nat) /\ ReceivedPackets' \in Seq(Nat)
      /\ lastRead \in Nat /\ nextPacket \in Nat
  BY PacketInvIsOrder, PacketTypes
<1>2. CASE \/ SendNextQueuedMessage \/ WaitForMessageSent
           \/ ReadReceivedMessages \/ Restart
  <2>1. Window(ReceivedPackets, ReceivedPackets')
        /\ lastRead' = lastRead /\ nextPacket' = nextPacket
    BY <1>2, PacketsCut
  <2>2. Ordered(ReceivedPackets', lastRead, nextPacket)
    BY <1>1, <2>1, WindowOrdered
  <2> QED
    BY <1>1, <2>1, <2>2, PacketInvIsOrder
<1>3. CASE NextIncomingMessage
  BY <1>1, <1>3, PacketTaken, RestOrdered, PacketInvIsOrder
<1>4. ASSUME NEW p \in Packet, ChipReceive(p)
      PROVE  PacketInv'
  <2>1. Ordered(ReceivedPackets', lastRead', nextPacket')
    BY <1>1, <1>4, PacketAdded, AddedOrdered
  <2>2. lastRead' < nextPacket'
    BY <1>1, <1>4, PacketAdded
  <2> QED
    BY <2>1, <2>2, PacketInvIsOrder
<1>5. CASE \/ Boot \/ (\E m \in Message : SendMessage(m)) \/ Idle \/ Tick
           \/ ChipAcknowledged \/ ChipRetriesExhausted \/ UNCHANGED vars
  <2>1. ReceivedPackets' = ReceivedPackets
        /\ lastRead' = lastRead /\ nextPacket' = nextPacket
    BY <1>5, PacketsUntouched DEF ReceivedPackets
  <2> QED
    BY <1>1, <2>1, PacketInvIsOrder
<1> QED
  BY <1>2, <1>3, <1>4, <1>5 DEF Next, Task, Transceiver
-----------------------------------------------------------------------------
(* The theorems.                                                           *)

(***************************************************************************)
(* The inductive invariant of the radio: that of its machine, and the      *)
(* order of the packets that wait in the queue and in the chip.            *)
(***************************************************************************)
THEOREM InvHolds == Spec => []TransceiverInv
<1>1. Init => PacketInv
  <2> SUFFICES ASSUME Init PROVE PacketInv
    OBVIOUS
  <2>1. ReceivedPackets = << >> /\ lastRead = 0 /\ nextPacket = 1
    BY ConcatEmptySeq DEF Init, PowerOn, ReceivedPackets
  <2>2. DOMAIN ReceivedPackets = {} /\ lastRead < nextPacket
    BY <2>1
  <2> QED
    BY <2>2 DEF PacketInv, ReadInOrderOnce
<1>2. MachineInv /\ MachineInv' /\ PacketInv /\ [Next]_vars => PacketInv'
  BY PacketInvStep
<1>3. MachineInv /\ PacketInv <=> TransceiverInv
  BY DEF TransceiverInv
<1> QED
  BY <1>1, <1>2, <1>3, MachineInvHolds, PTL DEF Spec

(***************************************************************************)
(* Packets reach the consumer in the order of their arrival and each at    *)
(* most once, although they wait in two places and a reset empties one.    *)
(***************************************************************************)
THEOREM AlwaysReadInOrderOnce == Spec => []ReadInOrderOnce
<1>1. TransceiverInv => ReadInOrderOnce
  BY DEF TransceiverInv, PacketInv
<1> QED
  BY <1>1, InvHolds, PTL

\* What is in a part of a concatenation is in the concatenation.
LEMMA PresentInConcat ==
  ASSUME NEW S, NEW s \in Seq(S), NEW t \in Seq(S), NEW p
  PROVE  Present(p, s) \/ Present(p, t) => Present(p, s \o t)
<1>1. /\ DOMAIN s = 1 .. Len(s) /\ DOMAIN t = 1 .. Len(t)
      /\ DOMAIN (s \o t) = 1 .. Len(s) + Len(t)
      /\ Len(s) \in Nat /\ Len(t) \in Nat
      /\ \A i \in 1 .. Len(s) : (s \o t)[i] = s[i]
      /\ \A i \in 1 .. Len(t) : (s \o t)[Len(s) + i] = t[i]
  BY ConcatProperties
<1>2. ASSUME Present(p, s) PROVE Present(p, s \o t)
  BY <1>1, <1>2 DEF Present
<1>3. ASSUME Present(p, t) PROVE Present(p, s \o t)
  <2>1. PICK i \in DOMAIN t : t[i] = p
    BY <1>3 DEF Present
  <2>2. Len(s) + i \in DOMAIN (s \o t) /\ (s \o t)[Len(s) + i] = p
    BY <1>1, <2>1
  <2> QED
    BY <2>2 DEF Present
<1> QED
  BY <1>2, <1>3

\* When several are pushed, one is lost only if the queue ends up full.
LEMMA PushedAllLoses ==
  ASSUME NEW S, NEW q \in Seq(S), NEW s \in Seq(S), Len(q) <= QueueSize
  PROVE  /\ \A i \in DOMAIN q : Present(q[i], PushedAll(q, s))
         /\ \A i \in DOMAIN s : \/ Present(s[i], PushedAll(q, s))
                               \/ Len(PushedAll(q, s)) = QueueSize
<1> DEFINE all == q \o s
           cut == SubSeq(all, 1, QueueSize)
<1>1. /\ all \in Seq(S) /\ Len(all) = Len(q) + Len(s)
      /\ Len(q) \in Nat /\ Len(s) \in Nat
      /\ DOMAIN q = 1 .. Len(q) /\ DOMAIN all = 1 .. Len(all)
      /\ \A i \in 1 .. Len(q) : all[i] = q[i]
  BY ConcatProperties
<1>2. CASE Len(all) <= QueueSize
  <2>1. PushedAll(q, s) = all
    BY <1>2 DEF PushedAll
  <2>2. /\ \A i \in DOMAIN q : Present(q[i], q)
        /\ \A i \in DOMAIN s : Present(s[i], s)
    BY DEF Present
  <2>3. /\ \A i \in DOMAIN q : Present(q[i], all)
        /\ \A i \in DOMAIN s : Present(s[i], all)
    BY <2>2, PresentInConcat
  <2> QED
    BY <2>1, <2>3
<1>3. CASE ~ (Len(all) <= QueueSize)
  <2>1. PushedAll(q, s) = cut
    BY <1>3 DEF PushedAll
  <2>2. Len(cut) = QueueSize /\ DOMAIN cut = 1 .. QueueSize
        /\ \A i \in 1 .. QueueSize : cut[i] = all[i]
    <3> HIDE DEF all
    <3> QED
      BY <1>1, <1>3, QueueSizeAssumption, SubSeqProperties
  <2> HIDE DEF all, cut
  <2>3. \A i \in DOMAIN q : i \in DOMAIN cut /\ cut[i] = q[i]
    BY <1>1, <2>2, QueueSizeAssumption
  <2>4. \A i \in DOMAIN q : Present(q[i], cut)
    BY <2>3 DEF Present
  <2> QED
    BY <2>1, <2>2, <2>4
<1> QED
  BY <1>2, <1>3

(***************************************************************************)
(* A packet that the chip acknowledged is lost by a reset, by the flush    *)
(* before a transmission or by a full queue, and in no other way; one that *)
(* is in the queue goes to the consumer unless a reset comes first.        *)
(***************************************************************************)
THEOREM LosesPacketsOnlyWhereKnown == Spec => PacketsLostOnlyWhereKnown
<1> DEFINE A ==
      /\ \A i \in DOMAIN chip.rxFifo :
           \/ Present(chip.rxFifo[i], chip'.rxFifo \o receiveQueue')
           \/ state' = "Booting"
           \/ state = "SendNextQueuedMessage"
           \/ state = "ReadReceivedMessages" /\ Len(receiveQueue') = QueueSize
      /\ \A i \in DOMAIN receiveQueue :
           \/ Present(receiveQueue[i], receiveQueue')
           \/ state' = "Booting"
           \/ lastRead' = receiveQueue[i]
<1>1. MachineInv /\ MachineInv' /\ [Next]_vars => [A]_vars
  <2> SUFFICES ASSUME MachineInv, MachineInv', [Next]_vars PROVE A
    OBVIOUS
  <2>a. /\ receiveQueue \in Seq(Packet) /\ Len(receiveQueue) <= QueueSize
        /\ chip \in Chip /\ chip.rxFifo \in Seq(Packet)
        /\ receiveQueue' \in Seq(Packet) /\ chip'.rxFifo \in Seq(Packet)
    BY PacketTypes DEF MachineInv, TypeOK, Chip
  <2>b. ASSUME NEW i \in DOMAIN chip.rxFifo,
               \/ Present(chip.rxFifo[i], chip'.rxFifo)
               \/ Present(chip.rxFifo[i], receiveQueue')
        PROVE  Present(chip.rxFifo[i], chip'.rxFifo \o receiveQueue')
    BY <2>a, <2>b, PresentInConcat
  <2>c. ASSUME chip'.rxFifo = chip.rxFifo, NEW i \in DOMAIN chip.rxFifo
        PROVE  Present(chip.rxFifo[i], chip'.rxFifo \o receiveQueue')
    BY <2>b, <2>c DEF Present
  <2>d. ASSUME receiveQueue' = receiveQueue, NEW i \in DOMAIN receiveQueue
        PROVE  Present(receiveQueue[i], receiveQueue')
    BY <2>d DEF Present
  <2>1. CASE \/ Boot \/ (\E m \in Message : SendMessage(m)) \/ Idle \/ Tick
             \/ ChipAcknowledged \/ ChipRetriesExhausted \/ UNCHANGED vars
    BY <2>1, <2>c, <2>d, PacketsUntouched
  <2>2. CASE NextIncomingMessage
    <3>1. receiveQueue # << >> /\ chip' = chip
          /\ lastRead' = Head(receiveQueue) /\ receiveQueue' = Tail(receiveQueue)
      BY <2>2 DEF NextIncomingMessage, Popped
    <3>2. ASSUME NEW i \in DOMAIN receiveQueue
          PROVE  Present(receiveQueue[i], receiveQueue') \/ lastRead' = receiveQueue[i]
      <4>1. CASE i = 1
        BY <2>a, <3>1, <4>1
      <4>2. CASE i # 1
        <5>1. i - 1 \in DOMAIN receiveQueue' /\ receiveQueue'[i - 1] = receiveQueue[i]
          BY <2>a, <3>1, <4>2, HeadTailProperties
        <5> QED
          BY <5>1 DEF Present
      <4> QED
        BY <4>1, <4>2
    <3> QED
      BY <2>c, <3>1, <3>2
  <2>3. CASE SendNextQueuedMessage
    BY <2>3, <2>d DEF SendNextQueuedMessage
  <2>4. CASE WaitForMessageSent
    <3>1. DOMAIN chip.rxFifo = {}
      BY <2>4 DEF WaitForMessageSent, MachineInv, StateInv
    <3> QED
      BY <2>4, <2>d, <3>1 DEF WaitForMessageSent
  <2>5. CASE ReadReceivedMessages
    <3>1. receiveQueue' = PushedAll(receiveQueue, chip.rxFifo)
          /\ state = "ReadReceivedMessages"
      BY <2>5 DEF ReadReceivedMessages
    <3> QED
      BY <2>a, <2>b, <3>1, PushedAllLoses
  <2>6. ASSUME NEW p \in Packet, ChipReceive(p) PROVE A
    <3>0. chip' = [chip EXCEPT !.rxDr = TRUE, !.rxFifo = Append(chip.rxFifo, p)]
      BY <2>6 DEF ChipReceive, Received
    <3>1. chip'.rxFifo = Append(chip.rxFifo, p) /\ receiveQueue' = receiveQueue
      BY <2>6, <2>a, <3>0 DEF ChipReceive, Chip
    <3>2. \A i \in DOMAIN chip.rxFifo :
            i \in DOMAIN chip'.rxFifo /\ chip'.rxFifo[i] = chip.rxFifo[i]
      BY <2>a, <3>1
    <3>3. \A i \in DOMAIN chip.rxFifo : Present(chip.rxFifo[i], chip'.rxFifo)
      BY <3>2 DEF Present
    <3> QED
      BY <2>b, <2>d, <3>1, <3>3
  <2>7. CASE Restart
    BY <2>7 DEF Restart
  <2> QED
    BY <2>1, <2>2, <2>3, <2>4, <2>5, <2>6, <2>7 DEF Next, Task, Transceiver
<1> QED
  BY <1>1, MachineInvHolds, PTL DEF Spec, PacketsLostOnlyWhereKnown
=============================================================================
