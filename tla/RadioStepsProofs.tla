--------------------------- MODULE RadioStepsProofs ---------------------------
(***************************************************************************)
(* Proofs about RadioSteps, for every queue size, FIFO depth and clock: a  *)
(* branch of the machine may be taken as one step, and nothing is sent     *)
(* under another address, wherever a reset comes.  What is known of Radio  *)
(* is used for what Radio sees.                                            *)
(***************************************************************************)
EXTENDS RadioSteps, SequenceTheorems, TLAPS

-----------------------------------------------------------------------------
(* The radio as it is seen, with what is proved about it.                  *)

Proved == INSTANCE RadioProofs WITH
            chip <- seen.chip,
            receiveQueue <- seen.received,
            transmitQueue <- IF Sending THEN <<message>> \o transmitQueue ELSE transmitQueue

\* The assumptions under which it is proved are those of this module.
LEMMA ProvedAssumptions ==
  /\ Proved!MessageAssumption /\ Proved!PacketAssumption /\ Proved!QueueSizeAssumption
  /\ Proved!ClockAssumption /\ Proved!RestartAssumption
  /\ Proved!AddressAssumption /\ Proved!FifoDepthAssumption
BY RadioAssumption, AddressAssumption, FifoDepthAssumption
   DEF R!MessageAssumption, R!PacketAssumption, R!QueueSizeAssumption,
       R!ClockAssumption, R!RestartAssumption,
       Proved!MessageAssumption, Proved!PacketAssumption, Proved!QueueSizeAssumption,
       Proved!ClockAssumption, Proved!RestartAssumption,
       Proved!AddressAssumption, Proved!FifoDepthAssumption

\* Its invariant is that of the machine that is implemented.
LEMMA SameInvariant == R!MachineInv <=> Proved!MachineInv
<1>1. R!TypeOK <=> Proved!TypeOK
  BY DEF R!TypeOK, Proved!TypeOK, R!States, Proved!States, R!ClockValues,
     Proved!ClockValues, R!Chip, Proved!Chip
<1>2. R!LoadedAsAddressed <=> Proved!LoadedAsAddressed
  BY DEF R!LoadedAsAddressed, Proved!LoadedAsAddressed
<1>3. R!StateInv <=> Proved!StateInv
  BY DEF R!StateInv, Proved!StateInv, R!Listening, Proved!Listening, R!Silent,
     Proved!Silent, R!IrqAsserted, Proved!IrqAsserted
<1>4. R!IdsInv <=> Proved!IdsInv
  BY DEF R!IdsInv, Proved!IdsInv
<1>5. R!SentInOrderOnce <=> Proved!SentInOrderOnce
  BY DEF R!SentInOrderOnce, Proved!SentInOrderOnce
<1>6. R!NoStrandedPacket <=> Proved!NoStrandedPacket
  BY DEF R!NoStrandedPacket, Proved!NoStrandedPacket
<1> QED
  BY <1>1, <1>2, <1>3, <1>4, <1>5, <1>6 DEF R!MachineInv, Proved!MachineInv

\* So are its initial states and its steps.
LEMMA SameInit == R!Init <=> Proved!Init
BY DEF R!Init, Proved!Init, R!PowerOn, Proved!PowerOn

LEMMA SameCalls ==
  /\ R!Boot => Proved!Boot
  /\ \A m \in Message : R!SendMessage(m) => Proved!SendMessage(m)
  /\ R!NextIncomingMessage => Proved!NextIncomingMessage
<1> USE DEF R!queueVars, Proved!queueVars, R!messageVars, Proved!messageVars,
            R!clockVars, Proved!clockVars, R!packetVars, Proved!packetVars
<1>1. R!Boot => Proved!Boot
  BY DEF R!Boot, Proved!Boot, R!initTransceiver, Proved!initTransceiver,
     R!nrf24_power_down, Proved!nrf24_power_down,
     R!nrf24_clear_interrupts, Proved!nrf24_clear_interrupts
<1>2. \A m \in Message : R!SendMessage(m) => Proved!SendMessage(m)
  BY DEF R!SendMessage, Proved!SendMessage, R!Pushed, Proved!Pushed
<1>3. R!NextIncomingMessage => Proved!NextIncomingMessage
  BY DEF R!NextIncomingMessage, Proved!NextIncomingMessage, R!Popped, Proved!Popped
<1> QED
  BY <1>1, <1>2, <1>3

\* The driver's functions, too, are the same.
LEMMA SameDriver ==
  /\ \A c : R!nrf24_power_up(c) = Proved!nrf24_power_up(c)
  /\ \A c : R!nrf24_power_down(c) = Proved!nrf24_power_down(c)
  /\ \A c : R!nrf24_clear_interrupts(c) = Proved!nrf24_clear_interrupts(c)
  /\ \A c : R!nrf24_flush_rx(c) = Proved!nrf24_flush_rx(c)
  /\ \A c : R!nrf24_flush_tx(c) = Proved!nrf24_flush_tx(c)
  /\ \A c, a : R!nrf24_set_tx_address(c, a) = Proved!nrf24_set_tx_address(c, a)
  /\ \A c, a : R!nrf24_set_rx_address(c, a) = Proved!nrf24_set_rx_address(c, a)
  /\ \A c, p : R!nrf24_set_config(c, p) = Proved!nrf24_set_config(c, p)
  /\ \A c, m : R!nrf24_write_tx_payload(c, m) = Proved!nrf24_write_tx_payload(c, m)
  /\ \A c : R!ReadAllPayloads(c) = Proved!ReadAllPayloads(c)
  /\ R!IrqAsserted(seen.chip) <=> Proved!IrqAsserted(seen.chip)
  /\ R!TimedOut <=> Proved!TimedOut
BY DEF R!nrf24_power_up, Proved!nrf24_power_up, R!nrf24_power_down,
   Proved!nrf24_power_down, R!nrf24_clear_interrupts, Proved!nrf24_clear_interrupts,
   R!nrf24_flush_rx, Proved!nrf24_flush_rx, R!nrf24_flush_tx, Proved!nrf24_flush_tx,
   R!nrf24_set_tx_address, Proved!nrf24_set_tx_address, R!nrf24_set_rx_address,
   Proved!nrf24_set_rx_address, R!Written, Proved!Written, R!nrf24_set_config,
   Proved!nrf24_set_config, R!nrf24_write_tx_payload, Proved!nrf24_write_tx_payload,
   R!ReadAllPayloads, Proved!ReadAllPayloads, R!IrqAsserted, Proved!IrqAsserted,
   R!TimedOut, Proved!TimedOut

LEMMA SameModes ==
  \A c, mode, a : R!setTransceiverMode(c, mode, a) = Proved!setTransceiverMode(c, mode, a)
BY SameDriver, Zenon DEF R!setTransceiverMode, Proved!setTransceiverMode

LEMMA SameTask == R!Task => Proved!Task
<1> USE DEF R!queueVars, Proved!queueVars, R!messageVars, Proved!messageVars,
            R!clockVars, Proved!clockVars, R!packetVars, Proved!packetVars
<1>1. R!Idle => Proved!Idle
  BY DEF R!Idle, Proved!Idle, R!MessageReceived, Proved!MessageReceived,
     R!IrqAsserted, Proved!IrqAsserted
<1>2. R!SendNextQueuedMessage => Proved!SendNextQueuedMessage
  BY SameModes, SameDriver
     DEF R!SendNextQueuedMessage, Proved!SendNextQueuedMessage, R!Popped, Proved!Popped
<1>3. R!WaitForMessageSent => Proved!WaitForMessageSent
  BY SameModes, SameDriver
     DEF R!WaitForMessageSent, Proved!WaitForMessageSent, R!BackToReceiver,
         Proved!BackToReceiver
<1>4. R!ReadReceivedMessages => Proved!ReadReceivedMessages
  BY SameDriver DEF R!ReadReceivedMessages, Proved!ReadReceivedMessages,
     R!PushedAll, Proved!PushedAll
<1> QED
  BY <1>1, <1>2, <1>3, <1>4 DEF R!Task, Proved!Task

LEMMA SameEnvironment ==
  /\ R!Transceiver => Proved!Transceiver
  /\ R!Tick => Proved!Tick
  /\ R!Restart => Proved!Restart
<1> USE DEF R!queueVars, Proved!queueVars, R!messageVars, Proved!messageVars,
            R!clockVars, Proved!clockVars, R!packetVars, Proved!packetVars
<1>1. R!ChipAcknowledged => Proved!ChipAcknowledged
  BY DEF R!ChipAcknowledged, Proved!ChipAcknowledged, R!CanBeAcknowledged,
     Proved!CanBeAcknowledged, R!CanTransmit, Proved!CanTransmit, R!Acknowledged,
     Proved!Acknowledged, R!AiredBy, Proved!AiredBy
<1>2. R!ChipRetriesExhausted => Proved!ChipRetriesExhausted
  BY DEF R!ChipRetriesExhausted, Proved!ChipRetriesExhausted, R!CanTransmit,
     Proved!CanTransmit, R!RetriesExhausted, Proved!RetriesExhausted,
     R!AiredBy, Proved!AiredBy
<1>3. \A p : R!ChipReceive(p) => Proved!ChipReceive(p)
  BY DEF R!ChipReceive, Proved!ChipReceive, R!CanReceive, Proved!CanReceive,
     R!Received, Proved!Received
<1>4. R!Transceiver => Proved!Transceiver
  BY <1>1, <1>2, <1>3 DEF R!Transceiver, Proved!Transceiver
<1>5. R!Tick => Proved!Tick
  BY DEF R!Tick, Proved!Tick
<1>6. R!PartWay = Proved!PartWay
  BY SameDriver DEF R!PartWay, Proved!PartWay
<1>7. R!Restart => Proved!Restart
  BY <1>6 DEF R!Restart, Proved!Restart, R!PowerOn, Proved!PowerOn
<1> QED
  BY <1>4, <1>5, <1>7

\* A step that Radio may take preserves its invariant.
LEMMA RadioStep ==
  ASSUME R!MachineInv, [R!Next]_(R!vars)
  PROVE  R!MachineInv'
<1>1. [Proved!Next]_(Proved!vars)
  <2>1. R!Next => Proved!Next
    BY SameCalls, SameTask, SameEnvironment DEF R!Next, Proved!Next
  <2>2. UNCHANGED R!vars => UNCHANGED Proved!vars
    BY DEF R!vars, Proved!vars, R!queueVars, Proved!queueVars, R!messageVars,
       Proved!messageVars, R!clockVars, Proved!clockVars, R!packetVars, Proved!packetVars
  <2> QED
    BY <2>1, <2>2
<1>2. Proved!MachineInv'
  BY <1>1, SameInvariant, ProvedAssumptions, Proved!MachineStep
<1>3. R!MachineInv' <=> Proved!MachineInv'
  BY SameInvariant, PTL
<1> QED
  BY <1>2, <1>3

LEMMA RadioInit ==
  ASSUME R!Init
  PROVE  R!MachineInv
BY SameInit, SameInvariant, ProvedAssumptions, Proved!InvInit
-----------------------------------------------------------------------------
(* Scripts.                                                                *)

\* A sequence is known by its length and its elements.
LEMMA SameSequence ==
  ASSUME NEW S, NEW s \in Seq(S), NEW t \in Seq(S), Len(s) = Len(t),
         \A i \in 1 .. Len(s) : s[i] = t[i]
  PROVE  s = t
OBVIOUS

LEMMA Elements ==
  ASSUME NEW S, NEW s \in Seq(S)
  PROVE  \A i \in 1 .. Len(s) : s[i] \in S
OBVIOUS

LEMMA Added ==
  ASSUME NEW S, NEW s \in Seq(S), NEW p \in S
  PROVE  /\ Append(s, p) \in Seq(S) /\ Len(Append(s, p)) = Len(s) + 1
         /\ \A i \in 1 .. Len(s) : Append(s, p)[i] = s[i]
         /\ Append(s, p)[Len(s) + 1] = p
OBVIOUS

LEMMA Joined ==
  ASSUME NEW S, NEW s \in Seq(S), NEW t \in Seq(S)
  PROVE  /\ s \o t \in Seq(S) /\ Len(s \o t) = Len(s) + Len(t)
         /\ \A i \in 1 .. Len(s) + Len(t) :
              (s \o t)[i] = IF i <= Len(s) THEN s[i] ELSE t[i - Len(s)]
BY ConcatProperties

\* What a script consists of.
Step == Accesses \cup {"get_status", "get_fifo_status", "read_rx_payload", "get_rx_address"}

\* The scripts, access by access.
LEMMA ScriptSteps ==
  /\ initTransceiver \in Seq(Step) /\ Len(initTransceiver) = 3
  /\ initTransceiver[1] = "power_up" /\ initTransceiver[2] = "power_down"
  /\ initTransceiver[3] = "clear_interrupts"
  /\ transmit \in Seq(Step) /\ Len(transmit) = 9
  /\ transmit[1] = "power_down" /\ transmit[2] = "clear_interrupts"
  /\ transmit[3] = "flush_rx" /\ transmit[4] = "flush_tx"
  /\ transmit[5] = "set_tx_address" /\ transmit[6] = "set_rx_address"
  /\ transmit[7] = "set_transmitter" /\ transmit[8] = "write_tx_payload"
  /\ transmit[9] = "power_up"
  /\ listen \in Seq(Step) /\ Len(listen) = 7
  /\ listen[1] = "power_down" /\ listen[2] = "clear_interrupts"
  /\ listen[3] = "flush_rx" /\ listen[4] = "flush_tx"
  /\ listen[5] = "set_own_address" /\ listen[6] = "set_receiver"
  /\ listen[7] = "power_up"
  /\ readMessages \in Seq(Step) /\ Len(readMessages) = 4
  /\ readMessages[1] = "power_down" /\ readMessages[2] = "clear_interrupts"
  /\ readMessages[3] = "get_fifo_status" /\ readMessages[4] = "power_up"
<1>1. /\ initTransceiver \in Seq(Step) /\ Len(initTransceiver) = 3
      /\ initTransceiver[1] = "power_up" /\ initTransceiver[2] = "power_down"
      /\ initTransceiver[3] = "clear_interrupts"
  BY DEF initTransceiver, Step, Accesses
<1>2. /\ readMessages \in Seq(Step) /\ Len(readMessages) = 4
      /\ readMessages[1] = "power_down" /\ readMessages[2] = "clear_interrupts"
      /\ readMessages[3] = "get_fifo_status" /\ readMessages[4] = "power_up"
  BY DEF readMessages, Step, Accesses
<1> DEFINE begin == <<"power_down", "clear_interrupts", "flush_rx", "flush_tx">>
<1>3. begin \in Seq(Step) /\ Len(begin) = 4
      /\ begin[1] = "power_down" /\ begin[2] = "clear_interrupts"
      /\ begin[3] = "flush_rx" /\ begin[4] = "flush_tx"
  BY DEF Step, Accesses
<1>4. /\ transmit \in Seq(Step) /\ Len(transmit) = 9
      /\ \A i \in 1 .. 4 : transmit[i] = begin[i]
      /\ transmit[5] = "set_tx_address" /\ transmit[6] = "set_rx_address"
      /\ transmit[7] = "set_transmitter" /\ transmit[8] = "write_tx_payload"
      /\ transmit[9] = "power_up"
  <2> DEFINE mode == setTransceiverMode(<<"set_tx_address", "set_rx_address">>, "set_transmitter")
  <2>1. /\ mode \in Seq(Step) /\ Len(mode) = 7 /\ \A i \in 1 .. 4 : mode[i] = begin[i]
        /\ mode[5] = "set_tx_address" /\ mode[6] = "set_rx_address"
        /\ mode[7] = "set_transmitter"
    BY <1>3 DEF setTransceiverMode, Step, Accesses
  <2> HIDE DEF mode
  <2> DEFINE end == <<"write_tx_payload", "power_up">>
  <2>2. transmit = mode \o end
    BY DEF transmit, mode
  <2>3. end \in Seq(Step) /\ Len(end) = 2 /\ end[1] = "write_tx_payload" /\ end[2] = "power_up"
    BY DEF Step, Accesses
  <2> HIDE DEF end
  <2>4. /\ mode \o end \in Seq(Step) /\ Len(mode \o end) = Len(mode) + Len(end)
        /\ \A i \in 1 .. Len(mode) + Len(end) :
             (mode \o end)[i] = IF i <= Len(mode) THEN mode[i] ELSE end[i - Len(mode)]
    <3>1. mode \in Seq(Step) /\ end \in Seq(Step)
      BY <2>1, <2>3
    <3> QED
      BY <3>1, Joined, Zenon
  <2> QED
    BY <2>1, <2>2, <2>3, <2>4, SMTT(40)
<1>5. /\ listen \in Seq(Step) /\ Len(listen) = 7
      /\ \A i \in 1 .. 4 : listen[i] = begin[i]
      /\ listen[5] = "set_own_address" /\ listen[6] = "set_receiver"
      /\ listen[7] = "power_up"
  <2> DEFINE mode == setTransceiverMode(<<"set_own_address">>, "set_receiver")
  <2>1. /\ mode \in Seq(Step) /\ Len(mode) = 6 /\ \A i \in 1 .. 4 : mode[i] = begin[i]
        /\ mode[5] = "set_own_address" /\ mode[6] = "set_receiver"
    BY <1>3 DEF setTransceiverMode, Step, Accesses
  <2> HIDE DEF mode
  <2> DEFINE end == <<"power_up">>
  <2>2. listen = mode \o end
    BY DEF listen, mode
  <2>3. end \in Seq(Step) /\ Len(end) = 1 /\ end[1] = "power_up"
    BY DEF Step, Accesses
  <2> HIDE DEF end
  <2>4. /\ mode \o end \in Seq(Step) /\ Len(mode \o end) = Len(mode) + Len(end)
        /\ \A i \in 1 .. Len(mode) + Len(end) :
             (mode \o end)[i] = IF i <= Len(mode) THEN mode[i] ELSE end[i - Len(mode)]
    <3>1. mode \in Seq(Step) /\ end \in Seq(Step)
      BY <2>1, <2>3
    <3> QED
      BY <3>1, Joined, Zenon
  <2> QED
    BY <2>1, <2>2, <2>3, <2>4
<1> QED
  BY <1>1, <1>2, <1>3, <1>4, <1>5

\* What is left of a sequence.
LEMMA RestOf ==
  ASSUME NEW S, NEW s \in Seq(S), NEW k \in 1 .. Len(s) + 1
  PROVE  /\ Rest(s, k) \in Seq(S) /\ Len(Rest(s, k)) = Len(s) - k + 1
         /\ k <= Len(s) => /\ Rest(s, k) # << >> /\ Head(Rest(s, k)) = s[k]
                           /\ Tail(Rest(s, k)) = Rest(s, k + 1)
         /\ k = Len(s) + 1 => Rest(s, k) = << >>
         /\ Rest(s, 1) = s
<1>1. ASSUME NEW i \in 1 .. Len(s) + 1
      PROVE  /\ Rest(s, i) \in Seq(S) /\ Len(Rest(s, i)) = Len(s) - i + 1
             /\ \A j \in 1 .. Len(s) - i + 1 : Rest(s, i)[j] = s[i + j - 1]
  <2>1. \A j \in i .. Len(s) : s[j] \in S
    OBVIOUS
  <2> QED
    BY <2>1, SubSeqProperties DEF Rest
<1>2. ASSUME k <= Len(s)
      PROVE  Rest(s, k) # << >> /\ Head(Rest(s, k)) = s[k] /\ Tail(Rest(s, k)) = Rest(s, k + 1)
  <2>1. Rest(s, k) # << >> /\ Rest(s, k)[1] = s[k]
    BY <1>1, <1>2
  <2>2. /\ Tail(Rest(s, k)) \in Seq(S) /\ Len(Tail(Rest(s, k))) = Len(s) - k
        /\ \A j \in 1 .. Len(s) - k : Tail(Rest(s, k))[j] = s[k + j]
    BY <1>1, <1>2, <2>1, HeadTailProperties
  <2>3. /\ Rest(s, k + 1) \in Seq(S) /\ Len(Rest(s, k + 1)) = Len(s) - k
        /\ \A j \in 1 .. Len(s) - k : Rest(s, k + 1)[j] = s[k + j]
    BY <1>1, <1>2
  <2>4. Tail(Rest(s, k)) = Rest(s, k + 1)
    BY <2>2, <2>3, SameSequence
  <2> QED
    BY <1>1, <2>1, <2>4, HeadTailProperties
<1>3. ASSUME k = Len(s) + 1 PROVE Rest(s, k) = << >>
  BY <1>1, <1>3, EmptySeq
<1>4. Rest(s, 1) = s
  <2>1. /\ Rest(s, 1) \in Seq(S) /\ Len(Rest(s, 1)) = Len(s)
        /\ \A j \in 1 .. Len(s) : Rest(s, 1)[j] = s[j]
    BY <1>1
  <2> QED
    BY <2>1, SameSequence
<1> QED
  BY <1>1, <1>2, <1>3, <1>4

\* What is left of a script.
LEMMA RestOfScript ==
  ASSUME NEW s \in Seq(Step), NEW k \in 1 .. Len(s) + 1
  PROVE  /\ Rest(s, k) \in Seq(Step) /\ Len(Rest(s, k)) = Len(s) - k + 1
         /\ k <= Len(s) => /\ Rest(s, k) # << >> /\ Head(Rest(s, k)) = s[k]
                           /\ Tail(Rest(s, k)) = Rest(s, k + 1)
         /\ k = Len(s) + 1 => Rest(s, k) = << >>
         /\ Rest(s, 1) = s
BY RestOf

\* Different places have different rests.
LEMMA Places ==
  ASSUME NEW s \in Seq(Step), NEW j \in 1 .. Len(s) + 1, NEW k \in 1 .. Len(s) + 1,
         Rest(s, j) = Rest(s, k)
  PROVE  j = k
<1>1. Len(Rest(s, j)) = Len(s) - j + 1 /\ Len(Rest(s, k)) = Len(s) - k + 1
  BY RestOfScript
<1> QED
  BY <1>1

\* An element in front of a sequence.
LEMMA InFrontOf ==
  ASSUME NEW S, NEW a \in S, NEW s \in Seq(S)
  PROVE  /\ <<a>> \o s \in Seq(S) /\ Len(<<a>> \o s) = Len(s) + 1
         /\ <<a>> \o s # << >> /\ Head(<<a>> \o s) = a /\ Tail(<<a>> \o s) = s
<1> DEFINE one == <<a>>
           t == one \o s
<1>1. one \in Seq(S) /\ Len(one) = 1 /\ one[1] = a
  OBVIOUS
<1> HIDE DEF one
<1>2. /\ t \in Seq(S) /\ Len(t) = 1 + Len(s)
      /\ \A i \in 1 .. 1 + Len(s) : t[i] = IF i <= 1 THEN one[i] ELSE s[i - 1]
  <2>1. /\ t \in Seq(S) /\ Len(t) = Len(one) + Len(s)
        /\ \A i \in 1 .. Len(one) + Len(s) :
             t[i] = IF i <= Len(one) THEN one[i] ELSE s[i - Len(one)]
    BY <1>1, Joined, Zenon
  <2> QED
    BY <1>1, <2>1
<1> HIDE DEF t
<1>3. t # << >> /\ t[1] = a
  BY <1>1, <1>2
<1>4. /\ Tail(t) \in Seq(S) /\ Len(Tail(t)) = Len(s)
      /\ \A i \in 1 .. Len(s) : Tail(t)[i] = t[i + 1]
  BY <1>2, <1>3, HeadTailProperties
<1>5. \A i \in 1 .. Len(s) : Tail(t)[i] = s[i]
  BY <1>2, <1>4
<1>6. Tail(t) = s
  BY <1>4, <1>5, SameSequence
<1>7. Head(t) = a
  BY <1>2, <1>3, HeadTailProperties
<1> QED
  BY <1>2, <1>3, <1>6, <1>7 DEF t, one

\* A step in front of a script.
LEMMA InFront ==
  ASSUME NEW a \in Step, NEW s \in Seq(Step)
  PROVE  /\ <<a>> \o s \in Seq(Step) /\ Len(<<a>> \o s) = Len(s) + 1
         /\ <<a>> \o s # << >> /\ Head(<<a>> \o s) = a /\ Tail(<<a>> \o s) = s
BY InFrontOf

LEMMA HeadAndTail ==
  ASSUME NEW S, NEW s \in Seq(S), s # << >>
  PROVE  /\ Head(s) \in S /\ Tail(s) \in Seq(S) /\ <<Head(s)>> \o Tail(s) = s
<1> DEFINE one == <<Head(s)>>
           rest == Tail(s)
           t == one \o rest
<1>1. Head(s) \in S /\ Head(s) = s[1] /\ Len(s) >= 1
  OBVIOUS
<1>2. /\ rest \in Seq(S) /\ Len(rest) = Len(s) - 1
      /\ \A i \in 1 .. Len(s) - 1 : rest[i] = s[i + 1]
  BY HeadTailProperties
<1>3. one \in Seq(S) /\ Len(one) = 1 /\ one[1] = s[1]
  BY <1>1
<1> HIDE DEF one, rest
<1>4. /\ t \in Seq(S) /\ Len(t) = Len(one) + Len(rest)
      /\ \A i \in 1 .. Len(one) + Len(rest) :
           t[i] = IF i <= Len(one) THEN one[i] ELSE rest[i - Len(one)]
  <2>1. one \in Seq(S) /\ rest \in Seq(S)
    BY <1>2, <1>3
  <2> QED
    BY <2>1, Joined
<1> HIDE DEF t
<1>5. Len(t) = Len(s) /\ \A i \in 1 .. Len(t) : t[i] = s[i]
  BY <1>1, <1>2, <1>3, <1>4
<1>6. t = s
  BY <1>4, <1>5, SameSequence
<1> QED
  BY <1>1, <1>2, <1>6 DEF t, one, rest

\* The reading loop, from one access to the next.
LEMMA LoopSteps ==
  LET inner == <<"get_rx_address">> \o Loop
      outer == <<"read_rx_payload", "get_rx_address">> \o Loop
  IN  /\ Loop \in Seq(Step) /\ Loop # << >> /\ Len(Loop) = 2
      /\ Head(Loop) = "get_fifo_status" /\ Tail(Loop) = Rest(readMessages, 4)
      /\ inner \in Seq(Step) /\ inner # << >> /\ Len(inner) = 3
      /\ Head(inner) = "get_rx_address" /\ Tail(inner) = Loop
      /\ outer \in Seq(Step) /\ outer # << >> /\ Len(outer) = 4
      /\ Head(outer) = "read_rx_payload" /\ Tail(outer) = inner
<1> DEFINE inner == <<"get_rx_address">> \o Loop
           outer == <<"read_rx_payload", "get_rx_address">> \o Loop
           front == <<"read_rx_payload">> \o inner
<1>1. readMessages \in Seq(Step) /\ Len(readMessages) = 4 /\ readMessages[3] = "get_fifo_status"
  BY ScriptSteps
<1>2. /\ Loop \in Seq(Step) /\ Loop # << >> /\ Len(Loop) = 2
      /\ Head(Loop) = "get_fifo_status" /\ Tail(Loop) = Rest(readMessages, 4)
  <2>1. 3 \in 1 .. Len(readMessages) + 1 /\ 3 <= Len(readMessages) /\ 3 + 1 = 4
    BY <1>1
  <2>2. /\ Rest(readMessages, 3) \in Seq(Step)
        /\ Len(Rest(readMessages, 3)) = Len(readMessages) - 3 + 1
        /\ Rest(readMessages, 3) # << >> /\ Head(Rest(readMessages, 3)) = readMessages[3]
        /\ Tail(Rest(readMessages, 3)) = Rest(readMessages, 3 + 1)
    BY <1>1, <2>1, RestOfScript, ZenonT(40)
  <2>3. Len(readMessages) - 3 + 1 = 2
    BY <1>1
  <2> QED
    BY <1>1, <2>1, <2>2, <2>3, Zenon DEF Loop
<1>3. "get_rx_address" \in Step /\ "read_rx_payload" \in Step
  BY DEF Step
<1>4. /\ inner \in Seq(Step) /\ inner # << >> /\ Len(inner) = 3
      /\ Head(inner) = "get_rx_address" /\ Tail(inner) = Loop
  <2>1. /\ inner \in Seq(Step) /\ Len(inner) = Len(Loop) + 1
        /\ inner # << >> /\ Head(inner) = "get_rx_address" /\ Tail(inner) = Loop
    BY <1>2, <1>3, InFront, Zenon
  <2>2. Len(Loop) + 1 = 3
    BY <1>2
  <2> QED
    BY <2>1, <2>2, Zenon
<1>5. /\ front \in Seq(Step) /\ front # << >> /\ Len(front) = 4
      /\ Head(front) = "read_rx_payload" /\ Tail(front) = inner
  <2> HIDE DEF inner
  <2>1. /\ front \in Seq(Step) /\ Len(front) = Len(inner) + 1
        /\ front # << >> /\ Head(front) = "read_rx_payload" /\ Tail(front) = inner
    BY <1>3, <1>4, InFront, Zenon
  <2>2. Len(inner) + 1 = 4
    BY <1>4
  <2> QED
    BY <2>1, <2>2, Zenon
<1>6. outer = front
  <2> DEFINE two == <<"read_rx_payload", "get_rx_address">>
             one == <<"get_rx_address">>
  <2>1. two \in Seq(Step) /\ Len(two) = 2 /\ two[1] = "read_rx_payload" /\ two[2] = "get_rx_address"
    BY <1>3
  <2>2. one \in Seq(Step) /\ Len(one) = 1 /\ one[1] = "get_rx_address"
    BY <1>3
  <2>3. /\ <<"read_rx_payload">> \in Seq(Step) /\ Len(<<"read_rx_payload">>) = 1
        /\ <<"read_rx_payload">>[1] = "read_rx_payload"
    BY <1>3
  <2> HIDE DEF two, one
  <2>4. /\ two \o Loop \in Seq(Step) /\ Len(two \o Loop) = 4
        /\ \A i \in 1 .. 4 : (two \o Loop)[i] = IF i <= 2 THEN two[i] ELSE Loop[i - 2]
    BY <2>1, <1>2, Joined
  <2>5. /\ one \o Loop \in Seq(Step) /\ Len(one \o Loop) = 3
        /\ \A i \in 1 .. 3 : (one \o Loop)[i] = IF i <= 1 THEN one[i] ELSE Loop[i - 1]
    BY <2>2, <1>2, Joined, SMTT(40)
  <2>6. /\ front \in Seq(Step) /\ Len(front) = 4
        /\ \A i \in 1 .. 4 : front[i] = IF i <= 1 THEN <<"read_rx_payload">>[i]
                                        ELSE (one \o Loop)[i - 1]
    BY <2>3, <2>5, Joined DEF one
  <2>7. front \in Seq(Step) /\ Len(front) = 4 /\ \A i \in 1 .. 4 : (two \o Loop)[i] = front[i]
    BY <2>1, <2>2, <2>3, <2>4, <2>5, <2>6
  <2> HIDE DEF front
  <2>8. two \o Loop = front
    BY <2>4, <2>7, SameSequence
  <2> QED
    BY <2>8 DEF two
<1> HIDE DEF inner, outer, front
<1>7. /\ Loop \in Seq(Step) /\ Loop # << >> /\ Len(Loop) = 2
      /\ Head(Loop) = "get_fifo_status" /\ Tail(Loop) = Rest(readMessages, 4)
      /\ inner \in Seq(Step) /\ inner # << >> /\ Len(inner) = 3
      /\ Head(inner) = "get_rx_address" /\ Tail(inner) = Loop
      /\ outer \in Seq(Step) /\ outer # << >> /\ Len(outer) = 4
      /\ Head(outer) = "read_rx_payload" /\ Tail(outer) = inner
  BY <1>2, <1>4, <1>5, <1>6
<1> QED
  BY <1>7 DEF inner, outer

\* The k-th access of a script comes next.
Before(steps, k) ==
  script = Rest(steps, k) /\ Head(script) = steps[k] /\ Tail(script) = Rest(steps, k + 1)

LEMMA BeforeAccess ==
  ASSUME NEW s \in Seq(Step), NEW k \in 1 .. Len(s) + 1, script = Rest(s, k), script # << >>
  PROVE  k \in 1 .. Len(s) /\ Before(s, k)
<1>1. k <= Len(s)
  <2>1. k = Len(s) + 1 => Rest(s, k) = << >>
    BY RestOfScript
  <2> QED
    BY <2>1
<1> QED
  BY <1>1, RestOfScript DEF Before

\* What may be running, and how far it is.
LEMMA Running ==
  ASSUME TypeOK, script # << >>
  PROVE  \/ state = "Booting" /\ \E k \in 1 .. 3 : Before(initTransceiver, k)
         \/ state = "Idle" /\ script = <<"get_status">>
         \/ state = "SendNextQueuedMessage" /\ \E k \in 1 .. 9 : Before(transmit, k)
         \/ state = "WaitForMessageSent" /\ \E k \in 1 .. 7 : Before(listen, k)
         \/ /\ state = "ReadReceivedMessages"
            /\ (\E k \in 1 .. 4 : Before(readMessages, k)) \/ script \in LoopScripts
<1>0. /\ initTransceiver \in Seq(Step) /\ Len(initTransceiver) = 3
      /\ transmit \in Seq(Step) /\ Len(transmit) = 9
      /\ listen \in Seq(Step) /\ Len(listen) = 7
      /\ readMessages \in Seq(Step) /\ Len(readMessages) = 4
  BY ScriptSteps
<1>1. CASE state = "Booting"
  <2>1. PICK k \in 1 .. 4 : script = Rest(initTransceiver, k)
    BY <1>1 DEF TypeOK, Scripts
  <2>2. k \in 1 .. Len(initTransceiver) + 1
    BY <1>0
  <2>3. k \in 1 .. Len(initTransceiver) /\ Before(initTransceiver, k)
    BY <1>0, <2>1, <2>2, BeforeAccess
  <2>4. k \in 1 .. 3
    BY <1>0, <2>3
  <2> QED
    BY <1>1, <2>3, <2>4
<1>2. CASE state = "Idle"
  BY <1>2 DEF TypeOK, Scripts
<1>3. CASE state = "SendNextQueuedMessage"
  <2>1. PICK k \in 1 .. 10 : script = Rest(transmit, k)
    BY <1>3 DEF TypeOK, Scripts
  <2>2. k \in 1 .. Len(transmit) + 1
    BY <1>0
  <2>3. k \in 1 .. Len(transmit) /\ Before(transmit, k)
    BY <1>0, <2>1, <2>2, BeforeAccess
  <2>4. k \in 1 .. 9
    BY <1>0, <2>3
  <2> QED
    BY <1>3, <2>3, <2>4
<1>4. CASE state = "WaitForMessageSent"
  <2>1. PICK k \in 1 .. 8 : script = Rest(listen, k)
    BY <1>4 DEF TypeOK, Scripts
  <2>2. k \in 1 .. Len(listen) + 1
    BY <1>0
  <2>3. k \in 1 .. Len(listen) /\ Before(listen, k)
    BY <1>0, <2>1, <2>2, BeforeAccess
  <2>4. k \in 1 .. 7
    BY <1>0, <2>3
  <2> QED
    BY <1>4, <2>3, <2>4
<1>5. CASE state = "ReadReceivedMessages"
  <2>1. CASE script \in LoopScripts
    BY <1>5, <2>1
  <2>2. CASE script \notin LoopScripts
    <3>1. PICK k \in 1 .. 5 : script = Rest(readMessages, k)
      BY <1>5, <2>2 DEF TypeOK, Scripts
    <3>2. k \in 1 .. Len(readMessages) + 1
      BY <1>0
    <3>3. k \in 1 .. Len(readMessages) /\ Before(readMessages, k)
      BY <1>0, <3>1, <3>2, BeforeAccess
    <3>4. k \in 1 .. 4
      BY <1>0, <3>3
    <3> QED
      BY <1>5, <3>3, <3>4
  <2> QED
    BY <2>1, <2>2
<1> QED
  BY <1>1, <1>2, <1>3, <1>4, <1>5 DEF TypeOK, R!States

\* Those of them that go on with an access.
LEMMA RunningAccess ==
  ASSUME TypeOK, At(Accesses)
  PROVE  \/ state = "Booting" /\ \E k \in 1 .. 3 : Before(initTransceiver, k)
         \/ state = "SendNextQueuedMessage" /\ \E k \in 1 .. 9 : Before(transmit, k)
         \/ state = "WaitForMessageSent" /\ \E k \in 1 .. 7 : Before(listen, k)
         \/ state = "ReadReceivedMessages" /\ \E k \in {1, 2, 4} : Before(readMessages, k)
<1>1. script # << >> /\ Head(script) \in Accesses
  BY DEF At
<1>2. Head(script) \notin {"get_status", "get_fifo_status", "read_rx_payload", "get_rx_address"}
  BY <1>1 DEF Accesses
<1>3. script # <<"get_status">>
  BY <1>2
<1>4. script \notin LoopScripts
  BY <1>2, LoopSteps DEF LoopScripts
<1>5. ~ Before(readMessages, 3)
  BY <1>2, ScriptSteps DEF Before
<1> QED
  BY <1>1, <1>3, <1>4, <1>5, Running

\* Where the other steps of a branch are.
LEMMA RunningOther ==
  ASSUME TypeOK
  PROVE  /\ At({"get_status"}) => state = "Idle" /\ script = <<"get_status">>
         /\ At({"get_fifo_status"}) => state = "ReadReceivedMessages" /\ script = Loop
         /\ At({"read_rx_payload"}) =>
              /\ state = "ReadReceivedMessages"
              /\ script = <<"read_rx_payload", "get_rx_address">> \o Loop
         /\ At({"get_rx_address"}) =>
              state = "ReadReceivedMessages" /\ script = <<"get_rx_address">> \o Loop
<1> DEFINE others == {"get_status", "get_fifo_status", "read_rx_payload", "get_rx_address"}
<1> SUFFICES ASSUME script # << >>, Head(script) \in others
             PROVE  \/ state = "Idle" /\ script = <<"get_status">> /\ Head(script) = "get_status"
                    \/ /\ state = "ReadReceivedMessages"
                       /\ \/ script = Loop /\ Head(script) = "get_fifo_status"
                          \/ /\ script = <<"read_rx_payload", "get_rx_address">> \o Loop
                             /\ Head(script) = "read_rx_payload"
                          \/ /\ script = <<"get_rx_address">> \o Loop
                             /\ Head(script) = "get_rx_address"
  BY DEF At
<1>1. CASE state = "Booting" /\ \E k \in 1 .. 3 : Before(initTransceiver, k)
  BY <1>1, ScriptSteps DEF Before
<1>2. CASE state = "Idle" /\ script = <<"get_status">>
  BY <1>2
<1>3. CASE state = "SendNextQueuedMessage" /\ \E k \in 1 .. 9 : Before(transmit, k)
  BY <1>3, ScriptSteps DEF Before
<1>4. CASE state = "WaitForMessageSent" /\ \E k \in 1 .. 7 : Before(listen, k)
  BY <1>4, ScriptSteps DEF Before
<1>5. CASE state = "ReadReceivedMessages" /\ \E k \in 1 .. 4 : Before(readMessages, k)
  BY <1>5, ScriptSteps DEF Before, Loop
<1>6. CASE state = "ReadReceivedMessages" /\ script \in LoopScripts
  BY <1>6, LoopSteps DEF LoopScripts
<1> QED
  BY <1>1, <1>2, <1>3, <1>4, <1>5, <1>6, Running
-----------------------------------------------------------------------------
(* Types.                                                                  *)

\* What each access is.
LEMMA AccessedBy ==
  ASSUME NEW c
  PROVE  /\ Accessed("power_down", c) = nrf24_power_down(c)
         /\ Accessed("power_up", c) = nrf24_power_up(c)
         /\ Accessed("clear_interrupts", c) = nrf24_clear_interrupts(c)
         /\ Accessed("flush_rx", c) = nrf24_flush_rx(c)
         /\ Accessed("flush_tx", c) = nrf24_flush_tx(c)
         /\ Accessed("set_tx_address", c) = nrf24_set_tx_address(c, message.address)
         /\ Accessed("set_rx_address", c) = nrf24_set_rx_address(c, message.address)
         /\ Accessed("set_own_address", c) = nrf24_set_rx_address(c, OwnAddress)
         /\ Accessed("set_transmitter", c) = nrf24_set_config(c, FALSE)
         /\ Accessed("set_receiver", c) = nrf24_set_config(c, TRUE)
         /\ Accessed("write_tx_payload", c) = nrf24_write_tx_payload(c, message)
BY DEF Accessed

\* The assumptions about the constants, in the words of this module.
LEMMA Constants ==
  /\ \A m \in Message : m.id \in Nat /\ m.address \in Address /\ m.address # NoAddress
  /\ Packet \subseteq Nat /\ QueueSize \in Nat \ {0} /\ FifoDepth \in Nat \ {0}
  /\ MessageSendTimeoutMs \in Nat /\ LongestWait \in Nat /\ ClockModulus \in Nat
  /\ MessageSendTimeoutMs <= LongestWait /\ LongestWait < ClockModulus
  /\ MaxRestarts \in Nat /\ AirTime \in Nat /\ AirTime < MessageSendTimeoutMs
  /\ OwnAddress \in Address /\ ResetAddress \in Address
BY RadioAssumption, AddressAssumption, FifoDepthAssumption, AirTimeAssumption
   DEF R!MessageAssumption, R!PacketAssumption, R!QueueSizeAssumption,
       R!ClockAssumption, R!RestartAssumption

\* A chip stays one, whatever is done to it.
LEMMA DriverKeepsChip ==
  ASSUME NEW c \in Chip
  PROVE  /\ nrf24_power_down(c) \in Chip /\ nrf24_power_up(c) \in Chip
         /\ nrf24_clear_interrupts(c) \in Chip
         /\ nrf24_flush_rx(c) \in Chip /\ nrf24_flush_tx(c) \in Chip
         /\ \A a \in Address : nrf24_set_tx_address(c, a) \in Chip
         /\ \A a \in Address : nrf24_set_rx_address(c, a) \in Chip
         /\ \A b \in BOOLEAN : nrf24_set_config(c, b) \in Chip
         /\ \A m \in Message : nrf24_write_tx_payload(c, m) \in Chip
<1>1. nrf24_power_down(c) \in Chip /\ nrf24_power_up(c) \in Chip
  BY DEF Chip, nrf24_power_down, nrf24_power_up
<1>2. nrf24_clear_interrupts(c) \in Chip
  BY DEF Chip, nrf24_clear_interrupts
<1>3. nrf24_flush_rx(c) \in Chip /\ nrf24_flush_tx(c) \in Chip
  <2>1. << >> \in Seq(Message) /\ << >> \in Seq(Packet)
    OBVIOUS
  <2> QED
    BY <2>1 DEF Chip, nrf24_flush_rx, nrf24_flush_tx
<1>4. ASSUME NEW a \in Address
      PROVE  nrf24_set_tx_address(c, a) \in Chip /\ nrf24_set_rx_address(c, a) \in Chip
  BY DEF Chip, nrf24_set_tx_address, nrf24_set_rx_address, Written
<1>5. ASSUME NEW b \in BOOLEAN PROVE nrf24_set_config(c, b) \in Chip
  BY DEF Chip, nrf24_set_config
<1>6. ASSUME NEW m \in Message PROVE nrf24_write_tx_payload(c, m) \in Chip
  <2>1. Append(c.txFifo, m) \in Seq(Message)
    BY DEF Chip
  <2> QED
    BY <2>1 DEF Chip, nrf24_write_tx_payload
<1> QED
  BY <1>1, <1>2, <1>3, <1>4, <1>5, <1>6

\* The address of a message is used only where there is one.
LEMMA AccessKeepsChip ==
  ASSUME TypeOK, At(Accesses)
  PROVE  Accessed(Head(script), chip) \in Chip
<1>1. chip \in Chip
  BY DEF TypeOK
<1>2. Head(script) \in Accesses /\ script # << >>
  BY DEF At
<1>3. \/ state = "SendNextQueuedMessage"
      \/ Head(script) \notin {"set_tx_address", "set_rx_address", "write_tx_payload"}
  <2>1. CASE state = "Booting" /\ \E k \in 1 .. 3 : Before(initTransceiver, k)
    BY <2>1, ScriptSteps DEF Before
  <2>2. CASE state = "WaitForMessageSent" /\ \E k \in 1 .. 7 : Before(listen, k)
    BY <2>2, ScriptSteps DEF Before
  <2>3. CASE state = "ReadReceivedMessages" /\ \E k \in {1, 2, 4} : Before(readMessages, k)
    BY <2>3, ScriptSteps DEF Before
  <2> QED
    BY <2>1, <2>2, <2>3, RunningAccess
<1>4. ASSUME Head(script) \in {"set_tx_address", "set_rx_address", "write_tx_payload"}
      PROVE  message \in Message /\ message.address \in Address
  BY <1>2, <1>3, <1>4, Constants DEF TypeOK
<1>5. CASE Head(script) \in {"set_tx_address", "set_rx_address", "write_tx_payload"}
  BY <1>1, <1>4, <1>5, AccessedBy, DriverKeepsChip
<1>6. CASE Head(script) \in {"power_down", "power_up", "clear_interrupts", "flush_rx", "flush_tx"}
  BY <1>1, <1>6, AccessedBy, DriverKeepsChip
<1>7. CASE Head(script) \in {"set_own_address", "set_transmitter", "set_receiver"}
  BY <1>1, <1>7, AccessedBy, DriverKeepsChip, Constants
<1> QED
  BY <1>2, <1>5, <1>6, <1>7 DEF Accesses

\* The places in the scripts, from one to the next.
LEMMA ScriptsGoOn ==
  /\ Rest(initTransceiver, 1) = initTransceiver /\ Rest(initTransceiver, 4) = << >>
  /\ Rest(transmit, 1) = transmit /\ Rest(transmit, 10) = << >>
  /\ Rest(listen, 1) = listen /\ Rest(listen, 8) = << >>
  /\ Rest(readMessages, 1) = readMessages /\ Rest(readMessages, 5) = << >>
  /\ \A k \in 1 .. 3 : Rest(initTransceiver, k) # << >>
  /\ \A k \in 1 .. 9 : Rest(transmit, k) # << >>
  /\ \A k \in 1 .. 7 : Rest(listen, k) # << >>
  /\ \A k \in 1 .. 4 : Rest(readMessages, k) # << >>
<1>1. ASSUME NEW s \in Seq(Step), NEW n \in Nat, Len(s) = n
      PROVE  /\ Rest(s, 1) = s /\ Rest(s, n + 1) = << >>
             /\ \A k \in 1 .. n : Rest(s, k) # << >>
  <2>1. 1 \in 1 .. Len(s) + 1 /\ n + 1 \in 1 .. Len(s) + 1 /\ \A k \in 1 .. n : k \in 1 .. Len(s) + 1 /\ k <= Len(s)
    BY <1>1
  <2> QED
    BY <1>1, <2>1, RestOfScript, ZenonT(40)
<1>2. /\ initTransceiver \in Seq(Step) /\ Len(initTransceiver) = 3
      /\ transmit \in Seq(Step) /\ Len(transmit) = 9
      /\ listen \in Seq(Step) /\ Len(listen) = 7
      /\ readMessages \in Seq(Step) /\ Len(readMessages) = 4
  BY ScriptSteps
<1>3. 3 + 1 = 4 /\ 9 + 1 = 10 /\ 7 + 1 = 8 /\ 4 + 1 = 5
  OBVIOUS
<1>4. Rest(initTransceiver, 1) = initTransceiver /\ Rest(initTransceiver, 3 + 1) = << >>
      /\ \A k \in 1 .. 3 : Rest(initTransceiver, k) # << >>
  BY <1>1, <1>2
<1>5. Rest(transmit, 1) = transmit /\ Rest(transmit, 9 + 1) = << >>
      /\ \A k \in 1 .. 9 : Rest(transmit, k) # << >>
  BY <1>1, <1>2
<1>6. Rest(listen, 1) = listen /\ Rest(listen, 7 + 1) = << >>
      /\ \A k \in 1 .. 7 : Rest(listen, k) # << >>
  BY <1>1, <1>2
<1>7. Rest(readMessages, 1) = readMessages /\ Rest(readMessages, 4 + 1) = << >>
      /\ \A k \in 1 .. 4 : Rest(readMessages, k) # << >>
  BY <1>1, <1>2
<1> QED
  BY <1>3, <1>4, <1>5, <1>6, <1>7

\* The scripts of the reading loop are not what is left of a script.
LEMMA LoopApart ==
  /\ << >> \notin LoopScripts /\ Loop \notin LoopScripts
  /\ \A k \in 1 .. 5 : Rest(readMessages, k) \notin LoopScripts
<1>1. \A s \in LoopScripts : s # << >> /\ Head(s) \in {"read_rx_payload", "get_rx_address"}
  BY LoopSteps DEF LoopScripts
<1>2. ASSUME NEW k \in 1 .. 5 PROVE Rest(readMessages, k) \notin LoopScripts
  <2>1. readMessages \in Seq(Step) /\ Len(readMessages) = 4
        /\ readMessages[1] = "power_down" /\ readMessages[2] = "clear_interrupts"
        /\ readMessages[3] = "get_fifo_status" /\ readMessages[4] = "power_up"
    BY ScriptSteps
  <2>2. k \in 1 .. Len(readMessages) + 1
    BY <2>1
  <2>3. /\ k <= Len(readMessages) => Head(Rest(readMessages, k)) = readMessages[k]
        /\ k = Len(readMessages) + 1 => Rest(readMessages, k) = << >>
    BY <2>1, <2>2, RestOfScript, Zenon
  <2>4. k \in 1 .. 4 => readMessages[k] \notin {"read_rx_payload", "get_rx_address"}
    BY <2>1
  <2>5. k <= Len(readMessages) \/ k = Len(readMessages) + 1
    BY <2>1
  <2>6. k <= Len(readMessages) => k \in 1 .. 4
    BY <2>1
  <2> QED
    BY <1>1, <2>3, <2>4, <2>5, <2>6
<1> QED
  BY <1>1, <1>2 DEF Loop

LEMMA TypeBranch ==
  ASSUME TypeOK, Branch
  PROVE  TypeOK'
<1> USE DEF queueVars, chipVars, clockVars, R!ClockValues
<1>1. CASE Boot
  BY <1>1, ScriptsGoOn DEF Branch, TypeOK, Boot, Begin, Scripts
<1>2. CASE Idle
  <2>1. \/ state' = "Idle" /\ script' = <<"get_status">>
        \/ state' = "SendNextQueuedMessage" /\ script' = << >> /\ transmitQueue # << >>
    BY <1>2 DEF Idle, Begin
  <2>2. << >> \in {Rest(transmit, k) : k \in 1 .. 10}
    BY ScriptsGoOn
  <2>3. state' \in R!States /\ script' \in Scripts'
    BY <2>1, <2>2 DEF Scripts, R!States
  <2>4. UNCHANGED <<message, payload, chipVars, queueVars, clockVars>>
    BY <1>2 DEF Branch, Idle
  <2> QED
    BY <2>1, <2>3, <2>4 DEF TypeOK
<1>3. CASE SendNextQueuedMessage
  <2>1. Head(transmitQueue) \in Message /\ Tail(transmitQueue) \in Seq(Message)
    BY <1>3 DEF TypeOK, SendNextQueuedMessage, Begin
  <2>2. script' \in {Rest(transmit, k) : k \in 1 .. 10} /\ script' # << >>
    BY <1>3, ScriptsGoOn DEF SendNextQueuedMessage, Begin
  <2> QED
    BY <1>3, <2>1, <2>2 DEF Branch, TypeOK, SendNextQueuedMessage, Scripts
<1>4. CASE WaitForMessageSent
  <2>1. script' \in {Rest(listen, k) : k \in 1 .. 8}
    BY <1>4, ScriptsGoOn DEF WaitForMessageSent, Begin
  <2> QED
    BY <1>4, <2>1 DEF Branch, TypeOK, WaitForMessageSent, Scripts
<1>5. CASE ReadReceivedMessages
  <2>1. script' \in {Rest(readMessages, k) : k \in 1 .. 5} /\ script' \notin LoopScripts
    BY <1>5, ScriptsGoOn, LoopApart DEF ReadReceivedMessages, Begin
  <2> QED
    BY <1>5, <2>1 DEF Branch, TypeOK, ReadReceivedMessages, Scripts
<1> QED
  BY <1>1, <1>2, <1>3, <1>4, <1>5 DEF Branch

LEMMA TypeAccess ==
  ASSUME TypeOK, Access
  PROVE  TypeOK'
<1> USE DEF queueVars, R!ClockValues
<1>1. chip' \in Chip /\ late' \in BOOLEAN
  BY AccessKeepsChip DEF Access, TypeOK
<1>2. At(Accesses) /\ script # << >> /\ script' = Tail(script)
  BY DEF Access, At
<1>3. ASSUME script' # << >>
      PROVE  state' = state /\ timer' = timer /\ waited' = waited
  BY <1>3 DEF Access
<1>4. ASSUME script' = << >>
      PROVE  /\ state' = IF state = "SendNextQueuedMessage" THEN "WaitForMessageSent" ELSE "Idle"
             /\ timer' \in R!ClockValues /\ waited' \in 0 .. LongestWait
  BY <1>4, Constants, SMTT(40) DEF Access, Returns, TypeOK
<1>5. CASE state = "Booting" /\ \E k \in 1 .. 3 : Before(initTransceiver, k)
  <2>1. script' \in {Rest(initTransceiver, k) : k \in 1 .. 4}
    BY <1>2, <1>5 DEF Before
  <2> QED
    BY <1>1, <1>2, <1>3, <1>4, <1>5, <2>1 DEF Access, TypeOK, Scripts, R!States
<1>6. CASE state = "SendNextQueuedMessage" /\ \E k \in 1 .. 9 : Before(transmit, k)
  <2>1. script' \in {Rest(transmit, k) : k \in 1 .. 10}
    <3>1. PICK k \in 1 .. 9 : Before(transmit, k)
      BY <1>6
    <3>2. k + 1 \in 1 .. 10 /\ script' = Rest(transmit, k + 1)
      BY <1>2, <3>1 DEF Before
    <3> QED
      BY <3>2
  <2>2. script' = << >> => script' \in {Rest(listen, k) : k \in 1 .. 8}
    BY ScriptsGoOn
  <2> QED
    BY <1>1, <1>2, <1>3, <1>4, <1>6, <2>1, <2>2 DEF Access, TypeOK, Scripts, R!States
<1>7. CASE state = "WaitForMessageSent" /\ \E k \in 1 .. 7 : Before(listen, k)
  <2>1. script' \in {Rest(listen, k) : k \in 1 .. 8}
    <3>1. PICK k \in 1 .. 7 : Before(listen, k)
      BY <1>7
    <3>2. k + 1 \in 1 .. 8 /\ script' = Rest(listen, k + 1)
      BY <1>2, <3>1 DEF Before
    <3> QED
      BY <3>2
  <2> QED
    BY <1>1, <1>2, <1>3, <1>4, <1>7, <2>1 DEF Access, TypeOK, Scripts, R!States
<1>8. CASE state = "ReadReceivedMessages" /\ \E k \in {1, 2, 4} : Before(readMessages, k)
  <2>1. script' \in {Rest(readMessages, k) : k \in 1 .. 5}
    BY <1>2, <1>8 DEF Before
  <2>2. script' \notin LoopScripts
    BY <2>1, LoopApart
  <2> QED
    BY <1>1, <1>2, <1>3, <1>4, <1>8, <2>1, <2>2 DEF Access, TypeOK, Scripts, R!States
<1> QED
  BY <1>2, <1>5, <1>6, <1>7, <1>8, RunningAccess

LEMMA TypeReading ==
  ASSUME TypeOK, GetStatus \/ GetFifoStatus \/ ReadPayload \/ GetRxAddress
  PROVE  TypeOK'
<1> USE DEF queueVars, chipVars, clockVars
<1> DEFINE inner == <<"get_rx_address">> \o Loop
           outer == <<"read_rx_payload", "get_rx_address">> \o Loop
<1>1. CASE GetStatus
  <2>1. state = "Idle" /\ script' = << >>
    BY <1>1, RunningOther DEF GetStatus
  <2>2. /\ state' \in {"Idle", "SendNextQueuedMessage", "ReadReceivedMessages"}
        /\ state' = "SendNextQueuedMessage" => transmitQueue # << >>
    BY <1>1 DEF GetStatus
  <2>3. << >> \in {Rest(transmit, k) : k \in 1 .. 10} /\ << >> \in {Rest(readMessages, k) : k \in 1 .. 5}
    BY ScriptsGoOn
  <2>4. state' \in R!States /\ script' \in Scripts' /\ script' \notin LoopScripts
    BY <2>1, <2>2, <2>3, LoopApart DEF Scripts, R!States
  <2>5. UNCHANGED <<message, payload, chipVars, queueVars, clockVars>>
    BY <1>1 DEF GetStatus
  <2> QED
    BY <2>1, <2>2, <2>4, <2>5 DEF TypeOK
<1>2. CASE GetFifoStatus
  <2>1. state = "ReadReceivedMessages" /\ script = Loop
    BY <1>2, RunningOther DEF GetFifoStatus
  <2>2. /\ Tail(Loop) = Rest(readMessages, 4) /\ Head(outer) = "read_rx_payload"
        /\ Rest(readMessages, 4) \notin LoopScripts
    BY LoopSteps, LoopApart
  <2>3. \/ script' = Rest(readMessages, 4)
        \/ script' = outer /\ chip.rxFifo # << >>
    BY <1>2, <2>1, <2>2 DEF GetFifoStatus
  <2> HIDE DEF inner, outer
  <2>4. outer \in LoopScripts
    BY DEF LoopScripts, outer
  <2>5. state' = "ReadReceivedMessages" /\ script' \in Scripts'
    <3>1. state' = "ReadReceivedMessages"
      BY <1>2, <2>1 DEF GetFifoStatus
    <3>2. 4 \in 1 .. 5
      OBVIOUS
    <3> QED
      BY <3>1, <3>2, <2>3, <2>4 DEF Scripts
  <2>6. UNCHANGED <<message, payload, chipVars, queueVars, clockVars>>
    BY <1>2 DEF GetFifoStatus
  <2> QED
    BY <2>1, <2>2, <2>3, <2>5, <2>6 DEF TypeOK
<1>3. CASE ReadPayload
  <2>1. state = "ReadReceivedMessages" /\ script = outer
    BY <1>3, RunningOther DEF ReadPayload
  <2>2. /\ Tail(outer) = inner /\ Head(outer) = "read_rx_payload"
        /\ Head(inner) = "get_rx_address"
    BY LoopSteps
  <2>3. inner \in LoopScripts /\ outer \in LoopScripts
    BY DEF LoopScripts
  <2> HIDE DEF inner, outer
  <2>4. chip \in Chip /\ chip.rxFifo # << >>
    BY <2>1, <2>2, <2>3 DEF TypeOK
  <2>5. Head(chip.rxFifo) \in Packet /\ Tail(chip.rxFifo) \in Seq(Packet)
    BY <2>4 DEF Chip
  <2>6. payload' \in Packet /\ chip' \in Chip
    BY <1>3, <2>4, <2>5 DEF ReadPayload, Chip
  <2>7. script' = inner /\ state' = state
    BY <1>3, <2>1, <2>2 DEF ReadPayload
  <2>8. script' \in Scripts' /\ Head(script') # "read_rx_payload"
    BY <2>1, <2>2, <2>3, <2>7 DEF Scripts
  <2>9. UNCHANGED <<message, burst, alive, airing, late, queueVars, clockVars>>
    BY <1>3 DEF ReadPayload
  <2> QED
    BY <2>1, <2>6, <2>7, <2>8, <2>9 DEF TypeOK
<1>4. CASE GetRxAddress
  <2>1. state = "ReadReceivedMessages" /\ script = inner
    BY <1>4, RunningOther DEF GetRxAddress
  <2>2. /\ Tail(inner) = Loop /\ Head(inner) = "get_rx_address" /\ Loop \notin LoopScripts
        /\ Loop = Rest(readMessages, 3)
    BY LoopSteps, LoopApart DEF Loop
  <2>3. inner \in LoopScripts
    BY DEF LoopScripts
  <2> HIDE DEF inner, outer
  <2>4. payload \in Packet
    BY <2>1, <2>2, <2>3 DEF TypeOK
  <2>5. receiveQueue' \in Seq(Packet)
    BY <1>4, <2>4 DEF GetRxAddress, Pushed, TypeOK
  <2>6. state' = state /\ script' = Loop
    BY <1>4, <2>1, <2>2 DEF GetRxAddress
  <2>7. script' \in Scripts' /\ script' \notin LoopScripts
    BY <2>1, <2>2, <2>6 DEF Scripts
  <2>8. UNCHANGED <<message, payload, chipVars, transmitQueue, clockVars>>
    BY <1>4 DEF GetRxAddress
  <2> QED
    BY <2>1, <2>5, <2>6, <2>7, <2>8 DEF TypeOK
<1> QED
  BY <1>1, <1>2, <1>3, <1>4

LEMMA TypeCalls ==
  ASSUME TypeOK, (\E m \in Message : SendMessage(m)) \/ NextIncomingMessage
  PROVE  TypeOK'
<1> USE DEF branchVars, chipVars, clockVars
<1>1. UNCHANGED <<state, branchVars, chipVars, clockVars>>
  BY DEF SendMessage, NextIncomingMessage
<1>2. Scripts' = Scripts
  BY <1>1 DEF Scripts
<1>3. /\ transmitQueue' \in Seq(Message) /\ receiveQueue' \in Seq(Packet)
      /\ transmitQueue # << >> => transmitQueue' # << >>
  <2>1. ASSUME NEW m \in Message, SendMessage(m)
        PROVE  /\ transmitQueue' \in Seq(Message) /\ receiveQueue' \in Seq(Packet)
               /\ transmitQueue # << >> => transmitQueue' # << >>
    BY <2>1 DEF SendMessage, Pushed, TypeOK
  <2>2. CASE NextIncomingMessage
    BY <2>2 DEF NextIncomingMessage, TypeOK
  <2> QED
    BY <2>1, <2>2
<1> QED
  BY <1>1, <1>2, <1>3 DEF TypeOK

LEMMA TypeEnvironment ==
  ASSUME TypeOK, Environment
  PROVE  TypeOK'
<1> USE DEF branchVars, queueVars, clockVars
<1>1. chip \in Chip /\ burst \in {<< >>} \cup (Address \X Message)
  BY DEF TypeOK
<1>2. ASSUME NEW c \in Chip, UNCHANGED <<state, branchVars, queueVars, clockVars, late>>,
             chip' = c, chip.rxFifo # << >> => c.rxFifo # << >>,
             burst' \in {<< >>} \cup (Address \X Message), alive' \in BOOLEAN, airing' \in Nat
      PROVE  TypeOK'
  <2>1. Scripts' = Scripts
    BY <1>2 DEF Scripts
  <2> QED
    BY <1>2, <2>1 DEF TypeOK
<1>3. CASE StartTransmission
  <2>1. chip.txAddr \in Address /\ Head(chip.txFifo) \in Message
    BY <1>1, <1>3 DEF StartTransmission, CanTransmit, Chip
  <2> QED
    BY <1>1, <1>2, <1>3, <2>1 DEF StartTransmission, TypeOK
<1>4. CASE EndTransmission
  <2>1. chip' \in Chip /\ chip'.rxFifo = chip.rxFifo
    <3>1. chip.txFifo # << >> => Tail(chip.txFifo) \in Seq(Message)
      BY <1>1 DEF Chip
    <3> QED
      BY <1>1, <1>4, <3>1 DEF EndTransmission, RetriesExhausted, Chip
  <2> QED
    BY <1>1, <1>2, <1>4, <2>1 DEF EndTransmission, TypeOK
<1>5. CASE FallSilent
  BY <1>1, <1>2, <1>5 DEF FallSilent, TypeOK
<1>6. CASE Tick
  <2>1. Scripts' = Scripts
    BY <1>6 DEF Tick, Scripts
  <2>2. now' \in R!ClockValues /\ waited' \in 0 .. LongestWait /\ airing' \in Nat
    <3>1. now \in R!ClockValues /\ waited \in 0 .. LongestWait /\ airing \in Nat
      BY DEF TypeOK
    <3>2. /\ now' = (now + 1) % ClockModulus
          /\ waited' = IF state = "WaitForMessageSent" THEN waited + 1 ELSE waited
          /\ airing' = IF burst # << >> THEN airing + 1 ELSE 0
          /\ state = "WaitForMessageSent" => waited < LongestWait
      BY <1>6 DEF Tick
    <3>3. now' \in R!ClockValues
      BY <3>1, <3>2, Constants DEF R!ClockValues
    <3> QED
      BY <3>1, <3>2, <3>3, Constants
  <2> QED
    BY <1>6, <2>1, <2>2 DEF Tick, TypeOK
<1>7. CASE Restart
  <2>1. Scripts' = {Rest(initTransceiver, k) : k \in 1 .. 4} /\ << >> \in Scripts'
    BY <1>7, ScriptsGoOn DEF Restart, Scripts
  <2>2. chip' \in Chip
    <3>1. PowerOn \in Chip
      BY Constants DEF PowerOn, Chip
    <3> QED
      BY <1>1, <1>7, <3>1 DEF Restart, Chip
  <2>3. timer' \in R!ClockValues /\ now' \in R!ClockValues /\ waited' \in 0 .. LongestWait
    BY <1>7, Constants DEF Restart, R!ClockValues
  <2>4. /\ burst' \in {<< >>} \cup (Address \X Message)
        /\ alive' \in BOOLEAN /\ late' \in BOOLEAN /\ airing' \in Nat
    <3>1. alive \in BOOLEAN /\ late \in BOOLEAN /\ airing \in Nat
      BY DEF TypeOK
    <3>2. \/ UNCHANGED <<burst, alive, airing>>
          \/ burst' = << >> /\ alive' = TRUE /\ airing' = 0
      BY <1>7 DEF Restart
    <3>3. late' = late
      BY <1>7 DEF Restart
    <3>4. late' \in BOOLEAN /\ alive' \in BOOLEAN
      BY <3>1, <3>2, <3>3, Zenon
    <3>5. airing' \in Nat
      BY <3>1, <3>2
    <3> QED
      BY <1>1, <3>2, <3>4, <3>5, Zenon
  <2> QED
    BY <1>7, <2>1, <2>2, <2>3, <2>4 DEF Restart, TypeOK, R!States
<1>8. ASSUME NEW p \in Packet, Receive(p) PROVE TypeOK'
  <2>1. Append(chip.rxFifo, p) \in Seq(Packet) /\ Append(chip.rxFifo, p) # << >>
    BY <1>1 DEF Chip
  <2>2. chip' = Received(chip, p)
    BY <1>8 DEF Receive
  <2>3. chip' \in Chip /\ chip'.rxFifo # << >>
    BY <1>1, <2>1, <2>2 DEF Received, Chip
  <2> QED
    BY <1>1, <1>2, <1>8, <2>3 DEF Receive, TypeOK
<1> QED
  BY <1>3, <1>4, <1>5, <1>6, <1>7, <1>8 DEF Environment

LEMMA TypeStep ==
  ASSUME TypeOK, [Next]_vars
  PROVE  TypeOK'
<1>1. CASE UNCHANGED vars
  BY <1>1 DEF TypeOK, Scripts, vars, branchVars, chipVars, queueVars, clockVars
<1> QED
  BY <1>1, TypeBranch, TypeAccess, TypeReading, TypeCalls, TypeEnvironment DEF Next, Task
-----------------------------------------------------------------------------
(* Nothing is misdirected.                                                 *)

\* Only two of the accesses touch the address or add to the TX FIFO.
LEMMA AccessKeepsLoad ==
  ASSUME NEW c \in Chip, NEW step \in Accesses
  PROVE  /\ step # "set_tx_address" => Accessed(step, c).txAddr = c.txAddr
         /\ step # "write_tx_payload" => Accessed(step, c).txFifo \in {c.txFifo, << >>}
         /\ step = "flush_tx" => Accessed(step, c).txFifo = << >>
         /\ step = "set_tx_address" /\ message.address # NoAddress =>
              Accessed(step, c).txAddr = message.address
         /\ step = "write_tx_payload" /\ c.txFifo = << >> =>
              Accessed(step, c).txFifo = <<message>>
<1> DEFINE same(d) == d.txAddr = c.txAddr /\ d.txFifo = c.txFifo
<1>1. /\ same(nrf24_power_down(c)) /\ same(nrf24_power_up(c))
      /\ same(nrf24_clear_interrupts(c)) /\ same(nrf24_flush_rx(c))
      /\ \A a : same(nrf24_set_rx_address(c, a))
      /\ \A b : same(nrf24_set_config(c, b))
  BY DEF nrf24_power_down, nrf24_power_up, nrf24_clear_interrupts, nrf24_flush_rx,
     nrf24_set_rx_address, nrf24_set_config, Chip
<1>2. nrf24_flush_tx(c).txAddr = c.txAddr /\ nrf24_flush_tx(c).txFifo = << >>
  BY DEF nrf24_flush_tx, Chip
<1>3. \A a : /\ nrf24_set_tx_address(c, a).txFifo = c.txFifo
             /\ a # NoAddress => nrf24_set_tx_address(c, a).txAddr = a
  BY DEF nrf24_set_tx_address, Written, Chip
<1>4. /\ nrf24_write_tx_payload(c, message).txAddr = c.txAddr
      /\ c.txFifo = << >> => nrf24_write_tx_payload(c, message).txFifo = <<message>>
  <2>1. c.txFifo = << >> => Append(c.txFifo, message) = <<message>> /\ Len(c.txFifo) < FifoDepth
    BY Constants
  <2> QED
    BY <2>1 DEF nrf24_write_tx_payload, Chip
<1>5. ASSUME step \notin {"flush_tx", "set_tx_address", "write_tx_payload"}
      PROVE  same(Accessed(step, c))
  <2> HIDE DEF same
  <2> QED
    BY <1>1, <1>5, AccessedBy DEF Accesses
<1>6. CASE step \notin {"flush_tx", "set_tx_address", "write_tx_payload"}
  BY <1>5, <1>6
<1>7. CASE step = "flush_tx"
  BY <1>2, <1>7, AccessedBy
<1>8. CASE step = "set_tx_address"
  BY <1>3, <1>8, AccessedBy
<1>9. CASE step = "write_tx_payload"
  BY <1>4, <1>9, AccessedBy
<1> QED
  BY <1>6, <1>7, <1>8, <1>9

\* What is loaded is one message, and TX_ADDR is its address.
Loaded == chip.txFifo # << >> =>
            Len(chip.txFifo) = 1 /\ chip.txAddr = Head(chip.txFifo).address

\* While the chip is being made a transmitter, it follows the message.
Following ==
  \A k \in 5 .. 9 : Sending /\ script = Rest(transmit, k) =>
    /\ k # 9 => chip.txFifo = << >>
    /\ k >= 6 => chip.txAddr = message.address

LEMMA AddressParts == AddressInv <=> NothingMisdirected /\ Loaded /\ Following
BY DEF AddressInv, Loaded, Following

\* Where no message is being handed over, an unchanged or emptied load is right.
LEMMA LoadKept ==
  ASSUME Loaded, chip'.txFifo \in {chip.txFifo, << >>}, chip'.txAddr = chip.txAddr
  PROVE  Loaded'
BY DEF Loaded

LEMMA AddressAccess ==
  ASSUME TypeOK, AddressInv, Access
  PROVE  AddressInv'
<1> DEFINE step == Head(script)
<1>1. NothingMisdirected /\ Loaded /\ Following
  BY AddressParts
<1>2. /\ At(Accesses) /\ script # << >> /\ step \in Accesses
      /\ script' = Tail(script) /\ chip' = Accessed(step, chip)
      /\ message' = message /\ burst' = burst
  BY DEF Access, At
<1>3. chip \in Chip
  BY DEF TypeOK
<1>4. NothingMisdirected'
  BY <1>1, <1>2 DEF NothingMisdirected
<1>5. state' # state => script' = << >> /\ state' \in {"Idle", "WaitForMessageSent"}
  BY DEF Access, Returns
<1>6. CASE state = "SendNextQueuedMessage" /\ \E k \in 1 .. 9 : Before(transmit, k)
  <2>1. PICK k \in 1 .. 9 : Before(transmit, k)
    BY <1>6
  <2>2. step = transmit[k] /\ script' = Rest(transmit, k + 1) /\ script = Rest(transmit, k)
    BY <1>2, <2>1 DEF Before
  <2>3. Sending /\ message \in Message /\ message.address # NoAddress
    BY <1>2, <1>6, Constants DEF TypeOK, Sending
  <2>4. ASSUME NEW j \in 5 .. 9, Sending', script' = Rest(transmit, j)
        PROVE  j = k + 1
    <3>1. transmit \in Seq(Step) /\ j \in 1 .. Len(transmit) + 1 /\ k + 1 \in 1 .. Len(transmit) + 1
      BY ScriptSteps
    <3>2. Rest(transmit, j) = Rest(transmit, k + 1)
      BY <2>2, <2>4
    <3> QED
      BY <3>1, <3>2, Places
  <2> HIDE DEF step
  <2>5. /\ k \in 5 .. 8 => chip.txFifo = << >>
        /\ k \in 6 .. 9 => chip.txAddr = message.address
    <3>1. k \in 5 .. 9 => (k # 9 => chip.txFifo = << >>) /\ (k >= 6 => chip.txAddr = message.address)
      BY <1>1, <2>2, <2>3 DEF Following
    <3> QED
      BY <3>1
  <2>6. /\ k = 4 => step = "flush_tx"
        /\ k = 5 => step = "set_tx_address"
        /\ k = 8 => step = "write_tx_payload"
        /\ k # 5 => step # "set_tx_address"
        /\ k # 8 => step # "write_tx_payload"
    BY <2>2, ScriptSteps
  <2>7. /\ k = 4 => chip'.txFifo = << >>
        /\ k = 5 => chip'.txAddr = message.address
        /\ k = 8 => chip'.txFifo = <<message>>
        /\ k # 5 => chip'.txAddr = chip.txAddr
        /\ k # 8 => chip'.txFifo \in {chip.txFifo, << >>}
    BY <1>2, <1>3, <2>3, <2>5, <2>6, AccessKeepsLoad
  <2>8. /\ k \in 4 .. 7 => chip'.txFifo = << >>
        /\ k \in 5 .. 8 => chip'.txAddr = message.address
    BY <2>5, <2>7
  <2>9. Loaded'
    <3>1. CASE k = 8
      <4>1. Len(<<message>>) = 1 /\ Head(<<message>>) = message
        OBVIOUS
      <4>2. chip'.txFifo = <<message>> /\ chip'.txAddr = message.address
        BY <3>1, <2>7, <2>8
      <4>3. Len(chip'.txFifo) = 1 /\ chip'.txAddr = Head(chip'.txFifo).address
        BY <4>1, <4>2, Zenon
      <4> QED
        BY <4>3 DEF Loaded
    <3>2. CASE k = 5
      BY <3>2, <2>8 DEF Loaded
    <3>3. CASE k \notin {5, 8}
      BY <3>3, <1>1, <2>7, LoadKept
    <3> QED
      BY <3>1, <3>2, <3>3
  <2>10. Following'
    <3>1. \A j \in 5 .. 9 : Sending' /\ script' = Rest(transmit, j) =>
            /\ j # 9 => chip'.txFifo = << >>
            /\ j >= 6 => chip'.txAddr = message'.address
      BY <1>2, <2>4, <2>8, SMTT(40)
    <3> QED
      BY <3>1 DEF Following, Rest, transmit, setTransceiverMode
  <2> QED
    BY <1>4, <2>9, <2>10 DEF AddressInv, Loaded, Following
<1>7. CASE state # "SendNextQueuedMessage"
  <2>1. step \notin {"set_tx_address", "write_tx_payload"}
    <3>1. CASE state = "Booting" /\ \E k \in 1 .. 3 : Before(initTransceiver, k)
      BY <3>1, ScriptSteps DEF Before
    <3>2. CASE state = "WaitForMessageSent" /\ \E k \in 1 .. 7 : Before(listen, k)
      BY <3>2, ScriptSteps DEF Before
    <3>3. CASE state = "ReadReceivedMessages" /\ \E k \in {1, 2, 4} : Before(readMessages, k)
      BY <3>3, ScriptSteps DEF Before
    <3> QED
      BY <1>2, <1>7, <3>1, <3>2, <3>3, RunningAccess
  <2> HIDE DEF step
  <2>2. Loaded'
    BY <1>1, <1>2, <1>3, <2>1, AccessKeepsLoad, LoadKept
  <2>3. ~ Sending'
    BY <1>5, <1>7 DEF Sending
  <2> QED
    BY <1>4, <2>2, <2>3 DEF AddressInv, Loaded
<1> QED
  BY <1>2, <1>6, <1>7, RunningAccess

\* What the end of a transmission does to the chip.
LEMMA ChipEnds ==
  ASSUME NEW c \in Chip, NEW f
  PROVE  /\ LET d == RetriesExhausted(c)
            IN  /\ d.ce = c.ce /\ d.pwrUp = c.pwrUp /\ d.primRx = c.primRx
                /\ d.rxDr = c.rxDr /\ d.txDs = c.txDs /\ d.maxRt = TRUE
                /\ d.txAddr = c.txAddr /\ d.rxAddr = c.rxAddr
                /\ d.txFifo = c.txFifo /\ d.rxFifo = c.rxFifo
         /\ LET d == [c EXCEPT !.txDs = TRUE, !.txFifo = f]
            IN  /\ d.ce = c.ce /\ d.pwrUp = c.pwrUp /\ d.primRx = c.primRx
                /\ d.rxDr = c.rxDr /\ d.txDs = TRUE /\ d.maxRt = c.maxRt
                /\ d.txAddr = c.txAddr /\ d.rxAddr = c.rxAddr
                /\ d.txFifo = f /\ d.rxFifo = c.rxFifo
BY DEF Chip, RetriesExhausted

LEMMA TailOfOne ==
  ASSUME NEW S, NEW s \in Seq(S), Len(s) = 1
  PROVE  Tail(s) = << >>
<1>1. s # << >>
  OBVIOUS
<1>2. Tail(s) \in Seq(S) /\ Len(Tail(s)) = 0
  BY <1>1, HeadTailProperties
<1> QED
  BY <1>2, EmptySeq

\* A chip that ends no access keeps the address, and loses a message at most.
LEMMA AddressKept ==
  ASSUME AddressInv, Loaded', NothingMisdirected', UNCHANGED <<state, branchVars>>,
         chip'.txAddr = chip.txAddr, chip.txFifo = << >> => chip'.txFifo = << >>
  PROVE  AddressInv'
<1>1. \A k \in 5 .. 9 : Sending /\ script = Rest(transmit, k) =>
        /\ k # 9 => chip.txFifo = << >>
        /\ k >= 6 => chip.txAddr = message.address
  BY DEF AddressInv
<1>2. Sending' <=> Sending
  BY DEF Sending, branchVars
<1>3. \A k \in 5 .. 9 : Sending' /\ script' = Rest(transmit, k) =>
        /\ k # 9 => chip'.txFifo = << >>
        /\ k >= 6 => chip'.txAddr = message'.address
  BY <1>1, <1>2 DEF branchVars
<1> QED
  BY <1>3 DEF AddressInv, Loaded, Rest, transmit, setTransceiverMode

\* Nor does it where no message is being handed over.
LEMMA AddressElsewhere ==
  ASSUME Loaded', NothingMisdirected', ~ Sending' \/ script' = transmit
  PROVE  AddressInv'
<1>1. ASSUME NEW k \in 5 .. 9, script' = Rest(transmit, k), script' = transmit
      PROVE  FALSE
  <2>1. transmit \in Seq(Step) /\ k \in 1 .. Len(transmit) + 1 /\ 1 \in 1 .. Len(transmit) + 1
    BY ScriptSteps
  <2>2. Rest(transmit, k) = Rest(transmit, 1)
    BY <1>1, ScriptsGoOn
  <2>3. k = 1
    BY <2>1, <2>2, Places
  <2> QED
    BY <2>3
<1>2. \A k \in 5 .. 9 : ~ (Sending' /\ script' = Rest(transmit, k))
  BY <1>1
<1> QED
  BY <1>2 DEF AddressInv, Loaded, Rest, transmit, setTransceiverMode

LEMMA AddressTask ==
  ASSUME TypeOK, AddressInv, Task
  PROVE  AddressInv'
<1>1. NothingMisdirected /\ Loaded
  BY AddressParts
<1>2. CASE Branch
  <2>1. chip' = chip /\ burst' = burst
    BY <1>2 DEF Branch, chipVars
  <2>2. ~ Sending' \/ script' = transmit
    BY <1>2 DEF Branch, Boot, Idle, SendNextQueuedMessage, WaitForMessageSent,
       ReadReceivedMessages, Begin, Sending
  <2>3. Loaded' /\ NothingMisdirected'
    BY <1>1, <2>1 DEF Loaded, NothingMisdirected
  <2> QED
    BY <2>2, <2>3, AddressElsewhere
<1>3. CASE Access
  BY <1>3, AddressAccess
<1>4. CASE GetStatus \/ GetFifoStatus \/ GetRxAddress
  <2>1. chip' = chip /\ burst' = burst
    BY <1>4 DEF GetStatus, GetFifoStatus, GetRxAddress, chipVars
  <2>2. ~ Sending'
    BY <1>4, RunningOther DEF GetStatus, GetFifoStatus, GetRxAddress, Sending
  <2>3. Loaded' /\ NothingMisdirected'
    BY <1>1, <2>1 DEF Loaded, NothingMisdirected
  <2> QED
    BY <2>2, <2>3, AddressElsewhere
<1>5. CASE ReadPayload
  <2>1. chip'.txFifo = chip.txFifo /\ chip'.txAddr = chip.txAddr /\ burst' = burst
    BY <1>5 DEF ReadPayload, TypeOK, Chip
  <2>2. ~ Sending'
    BY <1>5, RunningOther DEF ReadPayload, Sending
  <2>3. Loaded' /\ NothingMisdirected'
    BY <1>1, <2>1 DEF Loaded, NothingMisdirected
  <2> QED
    BY <2>2, <2>3, AddressElsewhere
<1> QED
  BY <1>2, <1>3, <1>4, <1>5 DEF Task

LEMMA AddressEnvironment ==
  ASSUME TypeOK, AddressInv, Environment
  PROVE  AddressInv'
<1>1. NothingMisdirected /\ Loaded /\ chip \in Chip
  BY AddressParts DEF TypeOK
<1>2. CASE StartTransmission
  <2>1. /\ UNCHANGED <<state, branchVars, chip>> /\ chip.txFifo # << >>
        /\ burst' = <<chip.txAddr, Head(chip.txFifo)>>
    BY <1>2 DEF StartTransmission, CanTransmit
  <2>2. Loaded' /\ NothingMisdirected'
    BY <1>1, <2>1 DEF Loaded, NothingMisdirected
  <2> QED
    BY <2>1, <2>2, AddressKept
<1>3. CASE EndTransmission
  <2>1. UNCHANGED <<state, branchVars>> /\ burst' = << >>
    BY <1>3 DEF EndTransmission
  <2>2. /\ chip'.txAddr = chip.txAddr
        /\ chip'.txFifo = chip.txFifo \/ (chip.txFifo # << >> /\ chip'.txFifo = Tail(chip.txFifo))
    <3>1. CASE chip' = RetriesExhausted(chip)
      BY <1>1, <3>1, ChipEnds
    <3>2. CASE chip' = [chip EXCEPT !.txDs = TRUE,
                          !.txFifo = IF @ # << >> /\ Head(@) = burst[2] THEN Tail(@) ELSE @]
      <4> DEFINE f == IF chip.txFifo # << >> /\ Head(chip.txFifo) = burst[2]
                      THEN Tail(chip.txFifo) ELSE chip.txFifo
      <4>1. chip' = [chip EXCEPT !.txDs = TRUE, !.txFifo = f]
        BY <3>2
      <4>2. f = chip.txFifo \/ (chip.txFifo # << >> /\ f = Tail(chip.txFifo))
        OBVIOUS
      <4> HIDE DEF f
      <4>3. chip'.txAddr = chip.txAddr /\ chip'.txFifo = f
        BY <1>1, <4>1, ChipEnds
      <4> QED
        BY <4>2, <4>3
    <3> QED
      BY <1>3, <3>1, <3>2 DEF EndTransmission
  <2>3. Loaded'
    <3>1. CASE chip'.txFifo = chip.txFifo
      BY <1>1, <2>2, <3>1 DEF Loaded
    <3>2. CASE chip.txFifo # << >> /\ chip'.txFifo = Tail(chip.txFifo)
      <4>1. chip.txFifo \in Seq(Message) /\ Len(chip.txFifo) = 1
        BY <1>1, <3>2 DEF Loaded, Chip
      <4>2. Tail(chip.txFifo) = << >>
        BY <4>1, TailOfOne
      <4> QED
        BY <3>2, <4>2 DEF Loaded
    <3> QED
      BY <2>2, <3>1, <3>2
  <2>4. NothingMisdirected' /\ (chip.txFifo = << >> => chip'.txFifo = << >>)
    BY <2>1, <2>2 DEF NothingMisdirected
  <2> QED
    BY <2>1, <2>2, <2>3, <2>4, AddressKept
<1>4. CASE FallSilent \/ Tick
  <2>1. UNCHANGED <<state, branchVars, chip>> /\ burst' \in {burst, << >>}
    BY <1>4 DEF FallSilent, Tick
  <2>2. Loaded' /\ NothingMisdirected'
    BY <1>1, <2>1 DEF Loaded, NothingMisdirected
  <2> QED
    BY <2>1, <2>2, AddressKept
<1>5. CASE Restart
  <2>1. ~ Sending' /\ burst' \in {burst, << >>}
    BY <1>5 DEF Restart, Sending
  <2>2. \/ chip'.txFifo = << >>
        \/ chip'.txFifo = chip.txFifo /\ chip'.txAddr = chip.txAddr
    BY <1>1, <1>5 DEF Restart, PowerOn, Chip
  <2>3. Loaded' /\ NothingMisdirected'
    BY <1>1, <2>1, <2>2 DEF Loaded, NothingMisdirected
  <2> QED
    BY <2>1, <2>3, AddressElsewhere
<1>6. ASSUME NEW p \in Packet, Receive(p) PROVE AddressInv'
  <2>1. UNCHANGED <<state, branchVars, burst>> /\ chip' = Received(chip, p)
    BY <1>6 DEF Receive
  <2>2. chip'.txAddr = chip.txAddr /\ chip'.txFifo = chip.txFifo
    BY <1>1, <2>1 DEF Received, Chip
  <2>3. Loaded' /\ NothingMisdirected'
    BY <1>1, <2>1, <2>2 DEF Loaded, NothingMisdirected
  <2> QED
    BY <2>1, <2>2, <2>3, AddressKept
<1> QED
  BY <1>2, <1>3, <1>4, <1>5, <1>6 DEF Environment

LEMMA AddressStep ==
  ASSUME TypeOK, AddressInv, [Next]_vars
  PROVE  AddressInv'
<1>1. NothingMisdirected /\ Loaded
  BY AddressParts
<1>2. ASSUME UNCHANGED <<state, branchVars, chip, burst>>
      PROVE  AddressInv'
  <2>1. Loaded' /\ NothingMisdirected'
    BY <1>1, <1>2 DEF Loaded, NothingMisdirected
  <2> QED
    BY <1>2, <2>1, AddressKept
<1>3. CASE UNCHANGED vars
  BY <1>2, <1>3 DEF vars, chipVars
<1>4. CASE (\E m \in Message : SendMessage(m)) \/ NextIncomingMessage
  BY <1>2, <1>4 DEF SendMessage, NextIncomingMessage, chipVars
<1> QED
  BY <1>3, <1>4, AddressTask, AddressEnvironment DEF Next

LEMMA AddressInit ==
  ASSUME Init
  PROVE  TypeOK /\ AddressInv
<1>1. PowerOn \in Chip /\ PowerOn.txFifo = << >>
  BY Constants DEF PowerOn, Chip
<1>2. AddressInv
  BY <1>1 DEF Init, AddressInv, NothingMisdirected, Sending
<1>3. << >> \in Scripts /\ state # "SendNextQueuedMessage" /\ state # "ReadReceivedMessages"
  BY ScriptsGoOn DEF Init, Scripts
<1>4. 0 \in R!ClockValues /\ 0 \in 0 .. LongestWait /\ state \in R!States
  BY Constants DEF Init, R!ClockValues, R!States
<1>5. /\ transmitQueue \in Seq(Message) /\ receiveQueue \in Seq(Packet)
      /\ script \in Scripts /\ timer \in R!ClockValues /\ now \in R!ClockValues
      /\ waited \in 0 .. LongestWait /\ chip \in Chip /\ airing \in Nat
      /\ burst \in {<< >>} \cup (Address \X Message)
  BY <1>1, <1>3, <1>4 DEF Init
<1>6. alive \in BOOLEAN /\ late \in BOOLEAN
  BY DEF Init
<1> QED
  BY <1>2, <1>3, <1>4, <1>5, <1>6, Zenon DEF TypeOK

(***************************************************************************)
(* What is on the air is a message under its own address, whatever         *)
(* interrupts the accesses, and however long a transmission lasts.         *)
(***************************************************************************)
THEOREM NeverMisdirected == Spec => []NothingMisdirected
<1>1. Init => TypeOK /\ AddressInv
  BY AddressInit
<1>2. TypeOK /\ AddressInv /\ [Next]_vars => (TypeOK /\ AddressInv)'
  BY TypeStep, AddressStep
<1>3. TypeOK /\ AddressInv => NothingMisdirected
  BY AddressParts
<1> QED
  BY <1>1, <1>2, <1>3, PTL DEF Spec
-----------------------------------------------------------------------------
(* The chips in a branch.                                                  *)

\* The driver, as Radio uses it.
LEMMA DriverSeen ==
  /\ \A c : R!nrf24_power_up(c) = nrf24_power_up(c)
  /\ \A c : R!nrf24_power_down(c) = nrf24_power_down(c)
  /\ \A c : R!nrf24_clear_interrupts(c) = nrf24_clear_interrupts(c)
  /\ \A c : R!nrf24_flush_rx(c) = nrf24_flush_rx(c)
  /\ \A c : R!nrf24_flush_tx(c) = nrf24_flush_tx(c)
  /\ \A c, a : R!nrf24_set_tx_address(c, a) = nrf24_set_tx_address(c, a)
  /\ \A c, a : R!nrf24_set_rx_address(c, a) = nrf24_set_rx_address(c, a)
  /\ \A c, p : R!nrf24_set_config(c, p) = nrf24_set_config(c, p)
  /\ \A c, m : R!nrf24_write_tx_payload(c, m) = nrf24_write_tx_payload(c, m)
  /\ \A c : R!ReadAllPayloads(c) = nrf24_flush_rx(c)
  /\ \A c : R!IrqAsserted(c) <=> IrqAsserted(c)
  /\ \A c : R!CanTransmit(c) <=> CanTransmit(c)
  /\ \A c : R!CanReceive(c) <=> CanReceive(c)
  /\ R!TimedOut <=> TimedOut
  /\ R!Chip = Chip /\ R!PowerOn = PowerOn
BY DEF R!nrf24_power_up, nrf24_power_up, R!nrf24_power_down,
   nrf24_power_down, R!nrf24_clear_interrupts, nrf24_clear_interrupts,
   R!nrf24_flush_rx, nrf24_flush_rx, R!nrf24_flush_tx, nrf24_flush_tx,
   R!nrf24_set_tx_address, nrf24_set_tx_address, R!nrf24_set_rx_address,
   nrf24_set_rx_address, R!Written, Written, R!nrf24_set_config,
   nrf24_set_config, R!nrf24_write_tx_payload, nrf24_write_tx_payload,
   R!ReadAllPayloads, R!IrqAsserted, IrqAsserted, R!TimedOut, TimedOut,
   R!CanTransmit, CanTransmit, R!CanReceive, CanReceive,
   R!Chip, Chip, R!PowerOn, PowerOn

\* Five chips that every reconfiguration goes through.
LEMMA QuietPlaces ==
  ASSUME NEW c \in Chip
  PROVE  /\ QuietChips(c) \in Seq(Chip) /\ Len(QuietChips(c)) = 5 /\ Quiet(c) \in Chip
         /\ QuietChips(c)[1] = c
         /\ QuietChips(c)[2] = nrf24_power_down(c)
         /\ QuietChips(c)[3] = nrf24_clear_interrupts(nrf24_power_down(c))
         /\ QuietChips(c)[4] = nrf24_flush_rx(nrf24_clear_interrupts(nrf24_power_down(c)))
         /\ QuietChips(c)[5] = Quiet(c)
<1> DEFINE off == nrf24_power_down(c)
           cleared == nrf24_clear_interrupts(off)
           flushed == nrf24_flush_rx(cleared)
<1>1. off \in Chip /\ cleared \in Chip /\ flushed \in Chip /\ Quiet(c) \in Chip
  BY DriverKeepsChip DEF Quiet
<1> HIDE DEF off, cleared, flushed
<1>2. QuietChips(c) = <<c, off, cleared, flushed, Quiet(c)>>
  BY Zenon DEF QuietChips, off, cleared, flushed
<1> DEFINE q == Quiet(c)
<1> HIDE DEF q
<1>3. QuietChips(c) = <<c, off, cleared, flushed, q>> /\ q \in Chip
  BY <1>1, <1>2 DEF q
<1>4. /\ QuietChips(c) \in Seq(Chip) /\ Len(QuietChips(c)) = 5
      /\ QuietChips(c)[1] = c /\ QuietChips(c)[2] = off /\ QuietChips(c)[3] = cleared
      /\ QuietChips(c)[4] = flushed /\ QuietChips(c)[5] = q
  BY <1>1, <1>3
<1> QED
  BY <1>1, <1>4, Zenon DEF off, cleared, flushed, q

LEMMA TransmitPlaces ==
  ASSUME NEW c \in Chip, NEW m \in Message
  PROVE  LET half == nrf24_set_tx_address(Quiet(c), m.address)
             whole == nrf24_set_rx_address(half, m.address)
             transmitter == nrf24_set_config(whole, FALSE)
         IN  /\ TransmitChips(c, m) \in Seq(Chip) /\ Len(TransmitChips(c, m)) = 9
             /\ \A k \in 1 .. 5 : TransmitChips(c, m)[k] = QuietChips(c)[k]
             /\ TransmitChips(c, m)[6] = half /\ TransmitChips(c, m)[7] = whole
             /\ TransmitChips(c, m)[8] = transmitter
             /\ TransmitChips(c, m)[9] = nrf24_write_tx_payload(transmitter, m)
<1> DEFINE half == nrf24_set_tx_address(Quiet(c), m.address)
           whole == nrf24_set_rx_address(half, m.address)
           transmitter == nrf24_set_config(whole, FALSE)
           loaded == nrf24_write_tx_payload(transmitter, m)
           end == <<half, whole, transmitter, loaded>>
<1>1. Quiet(c) \in Chip /\ QuietChips(c) \in Seq(Chip) /\ Len(QuietChips(c)) = 5
  BY QuietPlaces
<1>2. m.address \in Address
  BY Constants
<1>3. half \in Chip /\ whole \in Chip /\ transmitter \in Chip /\ loaded \in Chip
  BY <1>1, <1>2, DriverKeepsChip
<1>4. TransmitChips(c, m) = QuietChips(c) \o end
  BY Zenon DEF TransmitChips
<1> HIDE DEF half, whole, transmitter, loaded
<1>5. end \in Seq(Chip) /\ Len(end) = 4 /\ end[1] = half /\ end[2] = whole
      /\ end[3] = transmitter /\ end[4] = loaded
  BY <1>3
<1> HIDE DEF end
<1> DEFINE quiet == QuietChips(c)
<1> HIDE DEF quiet
<1>6. quiet \in Seq(Chip) /\ Len(quiet) = 5
  BY <1>1 DEF quiet
<1>7. /\ quiet \o end \in Seq(Chip) /\ Len(quiet \o end) = Len(quiet) + Len(end)
      /\ \A i \in 1 .. Len(quiet) + Len(end) :
           (quiet \o end)[i] = IF i <= Len(quiet) THEN quiet[i] ELSE end[i - Len(quiet)]
  BY <1>5, <1>6, Joined, Zenon
<1> DEFINE all == quiet \o end
<1> HIDE DEF all
<1>8. /\ all \in Seq(Chip) /\ Len(all) = Len(quiet) + Len(end)
      /\ \A i \in 1 .. Len(quiet) + Len(end) :
           all[i] = IF i <= Len(quiet) THEN quiet[i] ELSE end[i - Len(quiet)]
  BY <1>7, Zenon DEF all
<1>9. /\ all \in Seq(Chip) /\ Len(all) = 9
      /\ \A k \in 1 .. 5 : all[k] = quiet[k]
      /\ all[6] = half /\ all[7] = whole /\ all[8] = transmitter /\ all[9] = loaded
  BY <1>5, <1>6, <1>8
<1>10. TransmitChips(c, m) = all
  BY <1>4 DEF all, quiet
<1> QED
  BY <1>9, <1>10, Zenon DEF half, whole, transmitter, loaded, quiet

LEMMA ListenPlaces ==
  ASSUME NEW c \in Chip
  PROVE  LET own == nrf24_set_rx_address(Quiet(c), OwnAddress)
         IN  /\ ListenChips(c) \in Seq(Chip) /\ Len(ListenChips(c)) = 7
             /\ \A k \in 1 .. 5 : ListenChips(c)[k] = QuietChips(c)[k]
             /\ ListenChips(c)[6] = own
             /\ ListenChips(c)[7] = nrf24_set_config(own, TRUE)
<1> DEFINE own == nrf24_set_rx_address(Quiet(c), OwnAddress)
           receiver == nrf24_set_config(own, TRUE)
           end == <<own, receiver>>
<1>1. Quiet(c) \in Chip /\ QuietChips(c) \in Seq(Chip) /\ Len(QuietChips(c)) = 5
  BY QuietPlaces
<1>2. own \in Chip /\ receiver \in Chip
  BY <1>1, Constants, DriverKeepsChip
<1>3. ListenChips(c) = QuietChips(c) \o end
  BY Zenon DEF ListenChips
<1> HIDE DEF own, receiver
<1>4. end \in Seq(Chip) /\ Len(end) = 2 /\ end[1] = own /\ end[2] = receiver
  BY <1>2
<1> HIDE DEF end
<1> DEFINE quiet == QuietChips(c)
<1> HIDE DEF quiet
<1>5. quiet \in Seq(Chip) /\ Len(quiet) = 5
  BY <1>1 DEF quiet
<1>6. /\ quiet \o end \in Seq(Chip) /\ Len(quiet \o end) = Len(quiet) + Len(end)
      /\ \A i \in 1 .. Len(quiet) + Len(end) :
           (quiet \o end)[i] = IF i <= Len(quiet) THEN quiet[i] ELSE end[i - Len(quiet)]
  BY <1>4, <1>5, Joined, Zenon
<1> DEFINE all == quiet \o end
<1> HIDE DEF all
<1>7. /\ all \in Seq(Chip) /\ Len(all) = Len(quiet) + Len(end)
      /\ \A i \in 1 .. Len(quiet) + Len(end) :
           all[i] = IF i <= Len(quiet) THEN quiet[i] ELSE end[i - Len(quiet)]
  BY <1>6, Zenon DEF all
<1>8. /\ all \in Seq(Chip) /\ Len(all) = 7
      /\ \A k \in 1 .. 5 : all[k] = quiet[k]
      /\ all[6] = own /\ all[7] = receiver
  BY <1>4, <1>5, <1>7
<1>9. ListenChips(c) = all
  BY <1>3 DEF all, quiet
<1> QED
  BY <1>8, <1>9, Zenon DEF own, receiver, quiet

\* Between its first accesses and its last a branch keeps CE low, the flags cleared.
Off(c) == ~ c.ce /\ ~ c.txDs

LEMMA DriverKeepsOff ==
  ASSUME NEW c \in Chip
  PROVE  /\ ~ nrf24_power_down(c).ce
         /\ ~ c.ce => Off(nrf24_clear_interrupts(c))
         /\ Off(c) => /\ Off(nrf24_flush_rx(c)) /\ Off(nrf24_flush_tx(c))
                      /\ \A a : Off(nrf24_set_tx_address(c, a))
                      /\ \A a : Off(nrf24_set_rx_address(c, a))
                      /\ Off(nrf24_set_config(c, TRUE)) /\ Off(nrf24_set_config(c, FALSE))
                      /\ \A m : Off(nrf24_write_tx_payload(c, m))
BY DEF Off, Chip, nrf24_power_down, nrf24_clear_interrupts, nrf24_flush_rx,
   nrf24_flush_tx, nrf24_set_tx_address, nrf24_set_rx_address, nrf24_set_config,
   nrf24_write_tx_payload

LEMMA QuietIsOff ==
  ASSUME NEW c \in Chip
  PROVE  /\ \A k \in 2 .. 5 : ~ QuietChips(c)[k].ce
         /\ Off(Quiet(c))
<1> DEFINE off == nrf24_power_down(c)
           cleared == nrf24_clear_interrupts(off)
           flushed == nrf24_flush_rx(cleared)
<1>1. off \in Chip /\ cleared \in Chip /\ flushed \in Chip
  BY DriverKeepsChip
<1>2. ~ off.ce
  BY DriverKeepsOff
<1>3. Quiet(c) = nrf24_flush_tx(flushed)
  BY Zenon DEF Quiet
<1>4. /\ QuietChips(c)[2] = off /\ QuietChips(c)[3] = cleared
      /\ QuietChips(c)[4] = flushed /\ QuietChips(c)[5] = Quiet(c)
  BY QuietPlaces
<1> HIDE DEF off
<1>5. Off(cleared)
  BY <1>1, <1>2, DriverKeepsOff
<1> HIDE DEF cleared
<1>6. Off(flushed)
  BY <1>1, <1>5, DriverKeepsOff
<1> HIDE DEF flushed
<1>7. Off(Quiet(c))
  BY <1>1, <1>3, <1>6, DriverKeepsOff
<1> QED
  BY <1>2, <1>4, <1>5, <1>6, <1>7 DEF Off

\* The accesses lead from one chip of a reconfiguration to the next, all of them off.
LEMMA TransmitSteps ==
  ASSUME NEW c \in Chip, message \in Message
  PROVE  /\ TransmitChips(c, message)[1] = c
         /\ \A k \in 1 .. 9 : TransmitChips(c, message)[k] \in Chip
         /\ \A k \in 1 .. 8 : Accessed(transmit[k], TransmitChips(c, message)[k]) = TransmitChips(c, message)[k + 1]
         /\ \A k \in 2 .. 9 : ~ TransmitChips(c, message)[k].ce
         /\ ~ TransmitChips(c, message)[9].txDs
<1> DEFINE t == TransmitChips(c, message)
           half == nrf24_set_tx_address(Quiet(c), message.address)
           whole == nrf24_set_rx_address(half, message.address)
           transmitter == nrf24_set_config(whole, FALSE)
           loaded == nrf24_write_tx_payload(transmitter, message)
<1>1. /\ t \in Seq(Chip) /\ Len(t) = 9
      /\ \A k \in 1 .. 5 : t[k] = QuietChips(c)[k]
      /\ t[6] = half /\ t[7] = whole /\ t[8] = transmitter /\ t[9] = loaded
  BY TransmitPlaces
<1> HIDE DEF t
<1>2. \A k \in 1 .. 9 : t[k] \in Chip
  <2>1. t \in Seq(Chip) /\ Len(t) = 9
    BY <1>1, Zenon
  <2>2. \A k \in 1 .. Len(t) : t[k] \in Chip
    BY <2>1, Elements, Zenon
  <2> QED
    BY <2>1, <2>2, Zenon
<1>3. /\ t[1] = c /\ t[2] = nrf24_power_down(t[1]) /\ t[3] = nrf24_clear_interrupts(t[2])
      /\ t[4] = nrf24_flush_rx(t[3]) /\ t[5] = nrf24_flush_tx(t[4]) /\ t[5] = Quiet(c)
  BY <1>1, QuietPlaces DEF Quiet
<1>4. /\ t[6] = nrf24_set_tx_address(t[5], message.address)
      /\ t[7] = nrf24_set_rx_address(t[6], message.address)
      /\ t[8] = nrf24_set_config(t[7], FALSE) /\ t[9] = nrf24_write_tx_payload(t[8], message)
  BY <1>1, <1>3
<1>5. \A k \in 1 .. 8 : Accessed(transmit[k], t[k]) = t[k + 1]
  <2>1. /\ Accessed(transmit[1], t[1]) = t[2] /\ Accessed(transmit[2], t[2]) = t[3]
        /\ Accessed(transmit[3], t[3]) = t[4] /\ Accessed(transmit[4], t[4]) = t[5]
    BY <1>3, ScriptSteps, AccessedBy, ZenonT(40)
  <2>2. /\ Accessed(transmit[5], t[5]) = t[6] /\ Accessed(transmit[6], t[6]) = t[7]
        /\ Accessed(transmit[7], t[7]) = t[8] /\ Accessed(transmit[8], t[8]) = t[9]
    BY <1>4, ScriptSteps, AccessedBy, ZenonT(40)
  <2> QED
    BY <2>1, <2>2
<1>6. /\ \A k \in 2 .. 5 : ~ t[k].ce
      /\ Off(t[5])
  BY <1>1, <1>3, QuietIsOff
<1>7. Off(t[6])
  <2>1. t[5] \in Chip /\ Off(t[5])
    BY <1>2, <1>6
  <2> QED
    BY <1>4, <2>1, DriverKeepsOff
<1>8. Off(t[7])
  <2>1. t[6] \in Chip /\ Off(t[6])
    BY <1>2, <1>7
  <2> QED
    BY <1>4, <2>1, DriverKeepsOff
<1>9. Off(t[8])
  <2>1. t[7] \in Chip /\ Off(t[7])
    BY <1>2, <1>8
  <2> QED
    BY <1>4, <2>1, DriverKeepsOff
<1>10. Off(t[9])
  <2>1. t[8] \in Chip /\ Off(t[8])
    BY <1>2, <1>9
  <2> QED
    BY <1>4, <2>1, DriverKeepsOff
<1>11. \A k \in 2 .. 9 : ~ t[k].ce
  BY <1>6, <1>7, <1>8, <1>9, <1>10 DEF Off
<1> QED
  BY <1>2, <1>3, <1>5, <1>10, <1>11 DEF t, Off

LEMMA ListenSteps ==
  ASSUME NEW c \in Chip
  PROVE  /\ ListenChips(c)[1] = c
         /\ \A k \in 1 .. 7 : ListenChips(c)[k] \in Chip
         /\ \A k \in 1 .. 6 : Accessed(listen[k], ListenChips(c)[k]) = ListenChips(c)[k + 1]
         /\ \A k \in 2 .. 7 : ~ ListenChips(c)[k].ce
<1> DEFINE t == ListenChips(c)
           own == nrf24_set_rx_address(Quiet(c), OwnAddress)
<1>1. /\ t \in Seq(Chip) /\ Len(t) = 7
      /\ \A k \in 1 .. 5 : t[k] = QuietChips(c)[k]
      /\ t[6] = own /\ t[7] = nrf24_set_config(own, TRUE)
  BY ListenPlaces
<1> HIDE DEF t
<1>2. \A k \in 1 .. 7 : t[k] \in Chip
  <2>1. t \in Seq(Chip) /\ Len(t) = 7
    BY <1>1, Zenon
  <2>2. \A k \in 1 .. Len(t) : t[k] \in Chip
    BY <2>1, Elements, Zenon
  <2> QED
    BY <2>1, <2>2, Zenon
<1>3. /\ t[1] = c /\ t[2] = nrf24_power_down(t[1]) /\ t[3] = nrf24_clear_interrupts(t[2])
      /\ t[4] = nrf24_flush_rx(t[3]) /\ t[5] = nrf24_flush_tx(t[4]) /\ t[5] = Quiet(c)
  BY <1>1, QuietPlaces DEF Quiet
<1>4. t[6] = nrf24_set_rx_address(t[5], OwnAddress) /\ t[7] = nrf24_set_config(t[6], TRUE)
  BY <1>1, <1>3
<1>5. \A k \in 1 .. 6 : Accessed(listen[k], t[k]) = t[k + 1]
  <2>1. /\ Accessed(listen[1], t[1]) = t[2] /\ Accessed(listen[2], t[2]) = t[3]
        /\ Accessed(listen[3], t[3]) = t[4] /\ Accessed(listen[4], t[4]) = t[5]
    BY <1>3, ScriptSteps, AccessedBy, ZenonT(40)
  <2>2. Accessed(listen[5], t[5]) = t[6] /\ Accessed(listen[6], t[6]) = t[7]
    BY <1>4, ScriptSteps, AccessedBy
  <2> QED
    BY <2>1, <2>2
<1>6. (\A k \in 2 .. 5 : ~ t[k].ce) /\ Off(t[5])
  BY <1>1, <1>3, QuietIsOff
<1>7. Off(t[6])
  <2>1. t[5] \in Chip /\ Off(t[5])
    BY <1>2, <1>6
  <2> QED
    BY <1>4, <2>1, DriverKeepsOff
<1>8. Off(t[7])
  <2>1. t[6] \in Chip /\ Off(t[6])
    BY <1>2, <1>7
  <2> QED
    BY <1>4, <2>1, DriverKeepsOff
<1>9. \A k \in 2 .. 7 : ~ t[k].ce
  BY <1>6, <1>7, <1>8 DEF Off
<1> QED
  BY <1>2, <1>3, <1>5, <1>9 DEF t

\* The first of them is what the branch has found.
LEMMA FirstChips ==
  \A c \in Chip : ListenChips(c)[1] = c /\ \A m \in Message : TransmitChips(c, m)[1] = c
<1> SUFFICES ASSUME NEW c \in Chip
             PROVE  ListenChips(c)[1] = c /\ \A m \in Message : TransmitChips(c, m)[1] = c
  OBVIOUS
<1>1. 1 \in 1 .. 5 /\ QuietChips(c)[1] = c
  BY QuietPlaces
<1>2. ListenChips(c)[1] = QuietChips(c)[1]
  BY <1>1, ListenPlaces
<1>3. ASSUME NEW m \in Message PROVE TransmitChips(c, m)[1] = QuietChips(c)[1]
  BY <1>1, TransmitPlaces
<1> QED
  BY <1>1, <1>2, <1>3

\* What a branch makes of the chip is what Radio says.
LEMMA BranchChips ==
  ASSUME NEW c \in Chip
  PROVE  /\ R!initTransceiver(c) = nrf24_clear_interrupts(nrf24_power_down(c))
         /\ \A m \in Message :
              R!nrf24_power_up(R!nrf24_write_tx_payload(
                R!setTransceiverMode(c, "PrimaryTransmitter", m.address), m))
              = nrf24_power_up(TransmitChips(c, m)[9])
         /\ R!BackToReceiver(c) = nrf24_power_up(ListenChips(c)[7])
         /\ R!nrf24_power_up(R!ReadAllPayloads(
              R!nrf24_clear_interrupts(R!nrf24_power_down(c))))
            = nrf24_power_up(nrf24_flush_rx(nrf24_clear_interrupts(nrf24_power_down(c))))
<1>1. R!initTransceiver(c) = nrf24_clear_interrupts(nrf24_power_down(c))
  BY DriverSeen, Zenon DEF R!initTransceiver
<1>2. ASSUME NEW m \in Message
      PROVE  R!nrf24_power_up(R!nrf24_write_tx_payload(
               R!setTransceiverMode(c, "PrimaryTransmitter", m.address), m))
             = nrf24_power_up(TransmitChips(c, m)[9])
  <2>1. R!setTransceiverMode(c, "PrimaryTransmitter", m.address)
        = nrf24_set_config(nrf24_set_rx_address(
            nrf24_set_tx_address(Quiet(c), m.address), m.address), FALSE)
    BY DriverSeen DEF R!setTransceiverMode, Quiet
  <2> QED
    BY <2>1, DriverSeen, TransmitPlaces
<1>3. R!BackToReceiver(c) = nrf24_power_up(ListenChips(c)[7])
  <2>1. R!setTransceiverMode(c, "PrimaryReceiver", NoAddress)
        = nrf24_set_config(nrf24_set_rx_address(Quiet(c), OwnAddress), TRUE)
    BY DriverSeen DEF R!setTransceiverMode, Quiet
  <2> QED
    BY <2>1, DriverSeen, ListenPlaces DEF R!BackToReceiver
<1>4. R!nrf24_power_up(R!ReadAllPayloads(R!nrf24_clear_interrupts(R!nrf24_power_down(c))))
      = nrf24_power_up(nrf24_flush_rx(nrf24_clear_interrupts(nrf24_power_down(c))))
  BY DriverSeen, Zenon
<1> QED
  BY <1>1, <1>2, <1>3, <1>4
-----------------------------------------------------------------------------
(* The reading loop.                                                       *)

\* Packets that are pushed one after the other are pushed all.
LEMMA PushedOn ==
  ASSUME NEW q \in Seq(Packet), Len(q) <= QueueSize, NEW s \in Seq(Packet), NEW p \in Packet
  PROVE  /\ R!PushedAll(q, s) \in Seq(Packet)
         /\ Pushed(R!PushedAll(q, s), p) = R!PushedAll(q, Append(s, p))
         /\ R!PushedAll(q, << >>) = q
<1> DEFINE all == q \o s
           more == q \o Append(s, p)
<1>1. /\ all \in Seq(Packet) /\ Len(all) = Len(q) + Len(s)
      /\ \A i \in 1 .. Len(q) + Len(s) : all[i] = IF i <= Len(q) THEN q[i] ELSE s[i - Len(q)]
  BY Joined
<1>2. /\ Append(s, p) \in Seq(Packet) /\ Len(Append(s, p)) = Len(s) + 1
      /\ \A i \in 1 .. Len(s) : Append(s, p)[i] = s[i]
      /\ Append(s, p)[Len(s) + 1] = p
  OBVIOUS
<1> DEFINE longer == Append(s, p)
<1> HIDE DEF longer
<1>3. /\ longer \in Seq(Packet) /\ Len(longer) = Len(s) + 1
      /\ \A i \in 1 .. Len(s) : longer[i] = s[i]
      /\ longer[Len(s) + 1] = p
  BY <1>2 DEF longer
<1>4. /\ q \o longer \in Seq(Packet) /\ Len(q \o longer) = Len(q) + Len(longer)
      /\ \A i \in 1 .. Len(q) + Len(longer) :
           (q \o longer)[i] = IF i <= Len(q) THEN q[i] ELSE longer[i - Len(q)]
  BY <1>3, Joined
<1>5. more = q \o longer
  BY DEF longer
<1> HIDE DEF all, more
<1>6. /\ more \in Seq(Packet) /\ Len(more) = Len(q) + Len(s) + 1
      /\ \A i \in 1 .. Len(q) + Len(s) : more[i] = all[i]
      /\ more[Len(q) + Len(s) + 1] = p
  <2>1. /\ more \in Seq(Packet) /\ Len(more) = Len(q) + Len(longer)
        /\ \A i \in 1 .. Len(q) + Len(longer) :
             more[i] = IF i <= Len(q) THEN q[i] ELSE longer[i - Len(q)]
    BY <1>4, <1>5, Zenon
  <2>2. Len(q) \in Nat /\ Len(s) \in Nat /\ Len(more) = Len(q) + Len(s) + 1
    BY <1>3, <2>1
  <2>3. ASSUME NEW i \in 1 .. Len(q) + Len(s) PROVE more[i] = all[i]
    <3>1. i \in 1 .. Len(q) + Len(longer) /\ (i > Len(q) => i - Len(q) \in 1 .. Len(s))
      BY <1>3, <2>2
    <3>2. more[i] = IF i <= Len(q) THEN q[i] ELSE longer[i - Len(q)]
      BY <2>1, <3>1
    <3>3. all[i] = IF i <= Len(q) THEN q[i] ELSE s[i - Len(q)]
      BY <1>1
    <3> QED
      BY <1>3, <2>2, <3>1, <3>2, <3>3
  <2>4. more[Len(q) + Len(s) + 1] = p
    <3>1. /\ Len(q) + Len(s) + 1 \in 1 .. Len(q) + Len(longer)
          /\ ~ (Len(q) + Len(s) + 1 <= Len(q))
          /\ Len(q) + Len(s) + 1 - Len(q) = Len(s) + 1
      BY <1>3, <2>2
    <3> QED
      BY <1>3, <2>1, <3>1
  <2> QED
    BY <2>1, <2>2, <2>3, <2>4
<1>7. R!PushedAll(q, s) = IF Len(all) <= QueueSize THEN all ELSE SubSeq(all, 1, QueueSize)
  BY DEF R!PushedAll, all
<1>8. R!PushedAll(q, longer) = IF Len(more) <= QueueSize THEN more ELSE SubSeq(more, 1, QueueSize)
  BY <1>5 DEF R!PushedAll
<1>9. QueueSize \in Nat \ {0}
  BY Constants
<1>10. ASSUME NEW t \in Seq(Packet), Len(t) >= QueueSize
       PROVE  /\ SubSeq(t, 1, QueueSize) \in Seq(Packet) /\ Len(SubSeq(t, 1, QueueSize)) = QueueSize
              /\ \A i \in 1 .. QueueSize : SubSeq(t, 1, QueueSize)[i] = t[i]
  <2>1. \A i \in 1 .. QueueSize : t[i] \in Packet
    BY <1>9, <1>10
  <2> QED
    BY <1>9, <1>10, <2>1, SubSeqProperties
<1>11. R!PushedAll(q, s) \in Seq(Packet)
  BY <1>1, <1>7, <1>9, <1>10
<1>12. ASSUME Len(all) < QueueSize
       PROVE  Pushed(R!PushedAll(q, s), p) = R!PushedAll(q, longer)
  <2>1. R!PushedAll(q, s) = all /\ R!PushedAll(q, longer) = more
    BY <1>1, <1>6, <1>7, <1>8, <1>9, <1>12
  <2>2. Pushed(all, p) = Append(all, p)
    BY <1>12 DEF Pushed
  <2>3. /\ Append(all, p) \in Seq(Packet) /\ Len(Append(all, p)) = Len(all) + 1
        /\ \A i \in 1 .. Len(all) : Append(all, p)[i] = all[i]
        /\ Append(all, p)[Len(all) + 1] = p
    BY <1>1, Added
  <2> DEFINE a == Append(all, p)
  <2> HIDE DEF a
  <2>4. a \in Seq(Packet) /\ Len(a) = Len(more) /\ \A i \in 1 .. Len(a) : a[i] = more[i]
    BY <1>1, <1>6, <2>3 DEF a
  <2>5. a = more
    BY <1>6, <2>4, SameSequence
  <2> QED
    BY <2>1, <2>2, <2>5 DEF a
<1>13. ASSUME Len(all) >= QueueSize
       PROVE  Pushed(R!PushedAll(q, s), p) = R!PushedAll(q, longer)
  <2>1. R!PushedAll(q, longer) = SubSeq(more, 1, QueueSize)
    BY <1>1, <1>6, <1>8, <1>9, <1>13
  <2>2. /\ R!PushedAll(q, s) \in Seq(Packet) /\ Len(R!PushedAll(q, s)) = QueueSize
        /\ \A i \in 1 .. QueueSize : R!PushedAll(q, s)[i] = all[i]
    BY <1>1, <1>7, <1>9, <1>10, <1>13
  <2>3. /\ SubSeq(more, 1, QueueSize) \in Seq(Packet) /\ Len(SubSeq(more, 1, QueueSize)) = QueueSize
        /\ \A i \in 1 .. QueueSize : SubSeq(more, 1, QueueSize)[i] = more[i]
    <3>1. Len(more) >= QueueSize /\ more \in Seq(Packet)
      BY <1>1, <1>6, <1>9, <1>13
    <3> QED
      BY <3>1, <1>10, Zenon
  <2> DEFINE a == R!PushedAll(q, s)
             b == SubSeq(more, 1, QueueSize)
  <2> HIDE DEF a, b
  <2>4. /\ a \in Seq(Packet) /\ b \in Seq(Packet) /\ Len(a) = QueueSize /\ Len(b) = QueueSize
        /\ \A i \in 1 .. Len(a) : a[i] = b[i]
    BY <1>1, <1>6, <1>9, <1>13, <2>2, <2>3 DEF a, b
  <2>5. a = b
    BY <2>4, SameSequence
  <2>6. Pushed(a, p) = a
    BY <1>9, <2>4 DEF Pushed
  <2> QED
    BY <2>1, <2>5, <2>6 DEF a, b
<1>14. R!PushedAll(q, << >>) = q
  BY DEF R!PushedAll
<1> QED
  BY <1>1, <1>9, <1>11, <1>12, <1>13, <1>14 DEF longer

\* Taking one packet more from the front.
LEMMA FrontGrows ==
  ASSUME NEW f \in Seq(Packet), NEW n \in 1 .. Len(f)
  PROVE  /\ SubSeq(f, 1, n - 1) \in Seq(Packet) /\ f[n] \in Packet
         /\ SubSeq(f, 1, n) = Append(SubSeq(f, 1, n - 1), f[n])
         /\ SubSeq(f, 1, Len(f)) = f /\ SubSeq(f, 1, 0) = << >>
<1>1. ASSUME NEW k \in 0 .. Len(f)
      PROVE  /\ SubSeq(f, 1, k) \in Seq(Packet) /\ Len(SubSeq(f, 1, k)) = k
             /\ \A i \in 1 .. k : SubSeq(f, 1, k)[i] = f[i]
  <2>1. \A i \in 1 .. k : f[i] \in Packet
    OBVIOUS
  <2> QED
    BY <2>1, SubSeqProperties
<1> DEFINE front == SubSeq(f, 1, n - 1)
           longer == SubSeq(f, 1, n)
<1>2. front \in Seq(Packet) /\ Len(front) = n - 1 /\ \A i \in 1 .. n - 1 : front[i] = f[i]
  BY <1>1
<1>3. longer \in Seq(Packet) /\ Len(longer) = n /\ \A i \in 1 .. n : longer[i] = f[i]
  BY <1>1
<1>4. f[n] \in Packet
  OBVIOUS
<1> HIDE DEF front, longer
<1>5. /\ Append(front, f[n]) \in Seq(Packet) /\ Len(Append(front, f[n])) = n
      /\ \A i \in 1 .. n : Append(front, f[n])[i] = f[i]
  BY <1>2, <1>4
<1> DEFINE a == Append(front, f[n])
<1> HIDE DEF a
<1>6. a \in Seq(Packet) /\ Len(a) = Len(longer) /\ \A i \in 1 .. Len(a) : a[i] = longer[i]
  BY <1>3, <1>5 DEF a
<1>7. a = longer
  BY <1>3, <1>6, SameSequence
<1>8. SubSeq(f, 1, Len(f)) = f
  BY <1>1, SameSequence
<1>9. SubSeq(f, 1, 0) = << >>
  BY <1>1, EmptySeq
<1> QED
  BY <1>2, <1>4, <1>7, <1>8, <1>9 DEF a, front, longer
-----------------------------------------------------------------------------
(* What is seen is a run of Radio.                                         *)

\* The invariant, while no transmission has outlived the level of CE.
InTime == TypeOK /\ AddressInv /\ SeenInv /\ BurstInv /\ R!MachineInv

\* The queue as Radio sees it.
SeenQueue == IF Sending THEN <<message>> \o transmitQueue ELSE transmitQueue

\* A step that Radio takes, or does not notice.
SeenStep == [R!Next]_(R!vars)

\* What is known of Radio, about what is seen.
LEMMA SeenFacts ==
  ASSUME InTime
  PROVE  /\ seen.chip \in Chip
         /\ seen.received \in Seq(Packet) /\ Len(seen.received) <= QueueSize
         /\ state \in {"Idle", "SendNextQueuedMessage"} => (seen.chip.ce => seen.chip.primRx)
         /\ state = "ReadReceivedMessages" => seen.chip.ce /\ seen.chip.primRx
         /\ state = "WaitForMessageSent" =>
              /\ seen.chip.ce /\ seen.chip.pwrUp /\ ~ seen.chip.primRx /\ ~ seen.chip.rxDr
              /\ TimedOut <=> waited >= MessageSendTimeoutMs
<1>1. R!TypeOK /\ R!StateInv
  BY DEF InTime, R!MachineInv
<1>2. /\ seen.chip \in Chip
      /\ seen.received \in Seq(Packet) /\ Len(seen.received) <= QueueSize
  BY <1>1, DriverSeen DEF R!TypeOK
<1>3. state \in {"Idle", "SendNextQueuedMessage"} => (seen.chip.ce => seen.chip.primRx)
  BY <1>1 DEF R!StateInv, R!Listening, R!Silent
<1>4. state = "ReadReceivedMessages" => seen.chip.ce /\ seen.chip.primRx
  BY <1>1 DEF R!StateInv, R!Listening
<1>5. ASSUME state = "WaitForMessageSent"
      PROVE  /\ seen.chip.ce /\ seen.chip.pwrUp /\ ~ seen.chip.primRx /\ ~ seen.chip.rxDr
             /\ TimedOut <=> waited >= MessageSendTimeoutMs
  <2>1. /\ seen.chip.ce /\ seen.chip.pwrUp /\ ~ seen.chip.primRx /\ ~ seen.chip.rxDr
        /\ now = (timer + waited) % ClockModulus
    BY <1>1, <1>5 DEF R!StateInv
  <2>2. timer \in Proved!ClockValues /\ waited \in 0 .. LongestWait
    BY DEF InTime, TypeOK, R!ClockValues, Proved!ClockValues
  <2>3. (((timer + waited) % ClockModulus) - timer) % ClockModulus = waited
    BY <2>2, Proved!ElapsedIsWaited, ProvedAssumptions
  <2> QED
    BY <2>1, <2>3 DEF TimedOut
<1> QED
  BY <1>2, <1>3, <1>4, <1>5

\* When no branch is running, what is seen is what is there.
LEMMA SeenAtRest ==
  ASSUME InTime, script \in {<< >>, <<"get_status">>}, state # "Booting"
  PROVE  seen = View(chip, receiveQueue)
<1>1. SeenInv /\ TypeOK
  BY DEF InTime
<1>2. CASE script = << >>
  BY <1>1, <1>2 DEF SeenInv
<1>3. CASE script = <<"get_status">>
  <2>1. script # << >> /\ At({"get_status"})
    BY <1>3 DEF At
  <2>2. state = "Idle"
    BY <1>1, <2>1, RunningOther
  <2> QED
    BY <1>1, <2>2 DEF SeenInv
<1> QED
  BY <1>2, <1>3

LEMMA SeenInBoot ==
  ASSUME InTime, state = "Booting"
  PROVE  /\ seen = View([chip EXCEPT !.ce = chip.pwrUp], receiveQueue)
         /\ seen.chip = [chip EXCEPT !.ce = chip.pwrUp] /\ seen.received = receiveQueue
BY DEF InTime, SeenInv, View

LEMMA SeenInSend ==
  ASSUME InTime, Sending
  PROVE  /\ seen.received = receiveQueue
         /\ \E k \in 1 .. 9 : script = Rest(transmit, k) /\ chip = TransmitChips(seen.chip, message)[k]
BY DEF InTime, SeenInv, Sending

LEMMA SeenInWait ==
  ASSUME InTime, state = "WaitForMessageSent", script # << >>
  PROVE  /\ seen.received = receiveQueue
         /\ \E k \in 1 .. 7 : script = Rest(listen, k) /\ chip = ListenChips(seen.chip)[k]
         /\ IrqAsserted(seen.chip) \/ TimedOut
BY DEF InTime, SeenInv

LEMMA SeenInRead ==
  ASSUME InTime, state = "ReadReceivedMessages", script # << >>
  PROVE  ReadInv
BY DEF InTime, SeenInv

\* Steps that Radio does not notice.
LEMMA Unnoticed ==
  ASSUME UNCHANGED <<seen, state, timer, now, waited, nextId, firstId, aired,
                     nextPacket, lastRead, restarts>>,
         SeenQueue' = SeenQueue
  PROVE  SeenStep
BY DEF SeenStep, SeenQueue, R!vars, R!queueVars, R!clockVars, R!messageVars, R!packetVars

\* The beginning of a branch is one of them, or a decision to send.
LEMMA SeenBranch ==
  ASSUME InTime, Branch
  PROVE  SeenStep /\ SeenInv' /\ BurstInv'
<1>1. /\ UNCHANGED <<chip, burst, alive, airing, late, timer, now, waited, nextId,
                     firstId, aired, nextPacket, lastRead, restarts>>
      /\ Seen /\ script = << >>
  BY DEF Branch, chipVars, clockVars, messageVars, packetVars, Boot, Idle,
     SendNextQueuedMessage, WaitForMessageSent, ReadReceivedMessages, Begin
<1>2. BurstInv /\ TypeOK
  BY DEF InTime
<1>3. ASSUME state # "Booting", state' # "Booting", receiveQueue' = receiveQueue
      PROVE  seen' = seen /\ seen = View(chip, receiveQueue)
  BY <1>1, <1>3, SeenAtRest DEF Seen
<1>4. CASE Boot
  <2>1. state = "Booting" /\ state' = "Booting" /\ script' = initTransceiver
        /\ UNCHANGED <<message, receiveQueue, transmitQueue>>
    BY <1>4 DEF Boot, Begin, queueVars
  <2>2. seen' = View([chip' EXCEPT !.ce = chip'.pwrUp], receiveQueue')
    BY <1>1, <2>1 DEF Seen
  <2>3. seen' = seen
    BY <1>1, <2>1, <2>2, SeenInBoot DEF View
  <2>4. SeenStep
    BY <1>1, <2>1, <2>3, Unnoticed DEF SeenQueue, Sending
  <2>5. initTransceiver # Rest(initTransceiver, 3)
    <3>1. 1 \in 1 .. Len(initTransceiver) + 1 /\ 3 \in 1 .. Len(initTransceiver) + 1
          /\ initTransceiver \in Seq(Step) /\ Rest(initTransceiver, 1) = initTransceiver
      BY ScriptSteps, ScriptsGoOn
    <3> QED
      BY <3>1, Places
  <2>6. SeenInv'
    BY <2>1, <2>2 DEF SeenInv
  <2>7. BurstInv'
    BY <1>1, <1>2, <2>1, <2>5 DEF BurstInv
  <2> QED
    BY <2>4, <2>6, <2>7
<1>5. CASE Idle
  <2>1. /\ state = "Idle" /\ UNCHANGED <<message, receiveQueue, transmitQueue>>
        /\ \/ state' = "Idle" /\ script' = <<"get_status">>
           \/ /\ state' = "SendNextQueuedMessage" /\ script' = << >>
              /\ ~ IrqAsserted(chip) /\ transmitQueue # << >>
    BY <1>5 DEF Idle, Begin, queueVars
  <2>2. seen' = seen /\ seen = View(chip, receiveQueue)
    BY <1>3, <2>1
  <2>3. ~ Sending /\ ~ Sending' /\ SeenQueue' = SeenQueue /\ SeenQueue = transmitQueue
    BY <2>1 DEF Sending, SeenQueue
  <2>4. SeenStep
    <3>1. CASE state' = "Idle"
      BY <1>1, <2>1, <2>2, <2>3, <3>1, Unnoticed
    <3>2. CASE state' = "SendNextQueuedMessage"
      <4>1. ~ R!MessageReceived
        BY <2>1, <2>2, <3>2, DriverSeen DEF R!MessageReceived, View
      <4>2. R!Idle
        BY <1>1, <2>1, <2>2, <2>3, <3>2, <4>1
           DEF R!Idle, SeenQueue, R!queueVars, R!clockVars, R!messageVars, R!packetVars
      <4> QED
        BY <4>2 DEF SeenStep, R!Next, R!Task
    <3> QED
      BY <2>1, <3>1, <3>2
  <2>5. SeenInv'
    BY <1>1, <2>1, <2>2 DEF SeenInv
  <2>6. BurstInv'
    BY <1>1, <1>2, <2>1 DEF BurstInv
  <2> QED
    BY <2>4, <2>5, <2>6
<1>6. CASE SendNextQueuedMessage
  <2>1. /\ state = "SendNextQueuedMessage" /\ state' = state /\ script' = transmit
        /\ message' = Head(transmitQueue) /\ transmitQueue' = Tail(transmitQueue)
        /\ receiveQueue' = receiveQueue
    BY <1>6 DEF SendNextQueuedMessage, Begin
  <2>2. seen' = seen /\ seen = View(chip, receiveQueue)
    BY <1>3, <2>1
  <2>3. transmitQueue \in Seq(Message) /\ transmitQueue # << >>
    BY <1>1, <1>2, <2>1 DEF TypeOK
  <2>4. message' \in Message /\ <<message'>> \o transmitQueue' = transmitQueue
    BY <2>1, <2>3, HeadAndTail
  <2>5. script' # << >> /\ script' = Rest(transmit, 1)
    BY <2>1, ScriptsGoOn
  <2>6. SeenQueue' = SeenQueue
    BY <1>1, <2>1, <2>4, <2>5 DEF SeenQueue, Sending
  <2>7. SeenStep
    BY <1>1, <2>1, <2>2, <2>6, Unnoticed
  <2>8. seen'.chip = chip' /\ seen'.received = receiveQueue' /\ seen'.chip \in Chip
    BY <1>1, <2>1, <2>2, SeenFacts DEF View
  <2>9. TransmitChips(seen'.chip, message')[1] = chip'
    BY <2>4, <2>8, FirstChips, Zenon
  <2>10. \E k \in 1 .. 9 : script' = Rest(transmit, k) /\ chip' = TransmitChips(seen'.chip, message')[k]
    BY <2>5, <2>9
  <2>11. SeenInv'
    BY <2>1, <2>5, <2>8, <2>10 DEF SeenInv
  <2>12. BurstInv'
    BY <1>1, <1>2, <2>1 DEF BurstInv
  <2> QED
    BY <2>7, <2>11, <2>12
<1>7. CASE WaitForMessageSent
  <2>1. /\ state = "WaitForMessageSent" /\ state' = state /\ script' = listen
        /\ IrqAsserted(chip) \/ TimedOut
        /\ UNCHANGED <<message, receiveQueue, transmitQueue>>
    BY <1>7 DEF WaitForMessageSent, Begin, queueVars
  <2>2. seen' = seen /\ seen = View(chip, receiveQueue)
    BY <1>3, <2>1
  <2>3. SeenStep
    BY <1>1, <2>1, <2>2, Unnoticed DEF SeenQueue, Sending
  <2>4. script' # << >> /\ script' = Rest(listen, 1)
    BY <2>1, ScriptsGoOn
  <2>5. seen'.chip = chip' /\ seen'.received = receiveQueue' /\ seen'.chip \in Chip
    BY <1>1, <2>1, <2>2, SeenFacts DEF View
  <2>6. ListenChips(seen'.chip)[1] = chip'
    BY <2>5, FirstChips, Zenon
  <2>7. \E k \in 1 .. 7 : script' = Rest(listen, k) /\ chip' = ListenChips(seen'.chip)[k]
    BY <2>4, <2>6
  <2>8. IrqAsserted(seen'.chip) \/ TimedOut'
    BY <1>1, <2>1, <2>5 DEF TimedOut
  <2>9. SeenInv'
    BY <2>1, <2>4, <2>5, <2>7, <2>8 DEF SeenInv
  <2>10. ~ chip.rxDr /\ (TimedOut => waited >= MessageSendTimeoutMs)
    BY <2>1, <2>2, SeenFacts DEF View
  <2>11. ASSUME chip.pwrUp, ~ chip.maxRt, chip.txFifo # << >>
         PROVE  TimedOut /\ waited > AirTime
    <3>1. ~ chip.txDs
      BY <1>1, <1>2, <2>1, <2>11 DEF BurstInv
    <3>2. TimedOut
      BY <2>1, <2>10, <2>11, <3>1 DEF IrqAsserted
    <3> QED
      BY <2>10, <3>2, Constants DEF InTime, TypeOK
  <2>12. burst = << >>
    BY <1>1, <1>2, <2>1, <2>11, Constants DEF BurstInv, TypeOK
  <2>13. ~ (alive /\ CanTransmit(chip))
    <3>1. ASSUME alive, CanTransmit(chip) PROVE FALSE
      <4>1. waited = 0
        BY <1>1, <1>2, <2>1, <2>12, <3>1 DEF BurstInv
      <4>2. waited > AirTime
        BY <2>11, <3>1 DEF CanTransmit
      <4> QED
        BY <4>1, <4>2, Constants
    <3> QED
      BY <3>1
  <2>14. BurstInv'
    BY <1>1, <2>1, <2>4, <2>12, <2>13 DEF BurstInv
  <2> QED
    BY <2>3, <2>9, <2>14
<1>8. CASE ReadReceivedMessages
  <2>1. /\ state = "ReadReceivedMessages" /\ state' = state /\ script' = readMessages
        /\ UNCHANGED <<message, receiveQueue, transmitQueue>>
    BY <1>8 DEF ReadReceivedMessages, Begin, queueVars
  <2>2. seen' = seen /\ seen = View(chip, receiveQueue)
    BY <1>3, <2>1
  <2>3. SeenStep
    BY <1>1, <2>1, <2>2, Unnoticed DEF SeenQueue, Sending
  <2>4. script' # << >> /\ script' = Rest(readMessages, 1)
    BY <2>1, ScriptsGoOn
  <2>5. ReadInv'
    BY <1>1, <2>1, <2>2, <2>4 DEF ReadInv
  <2>6. SeenInv'
    BY <2>1, <2>4, <2>5 DEF SeenInv
  <2>7. BurstInv'
    BY <1>1, <1>2, <2>1 DEF BurstInv
  <2> QED
    BY <2>3, <2>6, <2>7
<1> QED
  BY <1>4, <1>5, <1>6, <1>7, <1>8 DEF Branch

\* An access, as far as it concerns Radio.
LEMMA AccessFacts ==
  ASSUME Access, ~ late'
  PROVE  /\ At(Accesses) /\ script # << >> /\ Seen
         /\ chip' = Accessed(Head(script), chip) /\ script' = Tail(script)
         /\ UNCHANGED <<message, transmitQueue, receiveQueue, burst, alive, airing, now,
                        nextId, firstId, aired, nextPacket, lastRead, restarts>>
         /\ script' = << >> => Returns
         /\ script' # << >> => UNCHANGED <<state, timer, waited>>
         /\ Head(script) = "power_down" => burst = << >>
BY DEF Access, At, queueVars, messageVars, packetVars

\* While the hub boots, the level of CE is not seen.
LEMMA LevelUnseen ==
  ASSUME NEW c \in Chip, NEW d \in {nrf24_power_up(c), nrf24_power_down(c)}
  PROVE  /\ [d EXCEPT !.ce = d.pwrUp] = [c EXCEPT !.ce = c.pwrUp]
         /\ d.pwrUp = c.pwrUp /\ d.primRx = c.primRx /\ d.maxRt = c.maxRt
         /\ d.txAddr = c.txAddr /\ d.txFifo = c.txFifo
         /\ d = nrf24_power_down(c) => ~ d.ce
BY DEF Chip, nrf24_power_up, nrf24_power_down

LEMMA SeenAccessBoot ==
  ASSUME InTime, Access, ~ late', state = "Booting", NEW k \in 1 .. 3, Before(initTransceiver, k)
  PROVE  SeenStep /\ SeenInv' /\ BurstInv'
<1>1. /\ BurstInv /\ chip \in Chip /\ seen.received = receiveQueue
      /\ seen.chip = [chip EXCEPT !.ce = chip.pwrUp]
      /\ seen = View([chip EXCEPT !.ce = chip.pwrUp], receiveQueue)
  BY SeenInBoot DEF InTime, TypeOK
<1>2. /\ script = Rest(initTransceiver, k) /\ script' = Rest(initTransceiver, k + 1)
      /\ chip' = Accessed(initTransceiver[k], chip)
  BY AccessFacts DEF Before
<1>3. ASSUME NEW i \in 1 .. 4, NEW j \in 1 .. 4, Rest(initTransceiver, i) = Rest(initTransceiver, j)
      PROVE  i = j
  <2>1. /\ initTransceiver \in Seq(Step)
        /\ i \in 1 .. Len(initTransceiver) + 1 /\ j \in 1 .. Len(initTransceiver) + 1
    BY ScriptSteps
  <2> QED
    BY <1>3, <2>1, Places
<1>4. CASE k \in {1, 2}
  <2>1. script' # << >> /\ UNCHANGED <<state, timer, waited>>
    <3>1. k + 1 \in 1 .. 3
      BY <1>4
    <3> QED
      BY <1>2, <3>1, AccessFacts, ScriptsGoOn
  <2>2. /\ chip' \in {nrf24_power_up(chip), nrf24_power_down(chip)}
        /\ k = 2 => chip' = nrf24_power_down(chip)
        /\ k = 2 => burst = << >>
    <3>1. k = 1 => initTransceiver[k] = "power_up"
      BY ScriptSteps
    <3>2. k = 2 => initTransceiver[k] = "power_down" /\ Head(script) = "power_down"
      BY ScriptSteps DEF Before
    <3> QED
      BY <1>2, <1>4, <3>1, <3>2, AccessedBy, AccessFacts
  <2>3. seen' = View([chip' EXCEPT !.ce = chip'.pwrUp], receiveQueue')
    BY <2>1, AccessFacts DEF Seen
  <2>4. seen' = seen
    BY <1>1, <2>2, <2>3, LevelUnseen, AccessFacts
  <2>5. SeenStep
    BY <2>1, <2>4, Unnoticed, AccessFacts DEF SeenQueue, Sending
  <2>6. SeenInv'
    BY <2>1, <2>3 DEF SeenInv
  <2>7. script' = Rest(initTransceiver, 3) => k = 2
    BY <1>2, <1>3, <1>4
  <2>8. BurstInv'
    <3>1. burst' = burst /\ burst # << >> => k = 1
      BY <1>4, <2>2, AccessFacts
    <3>2. burst # << >> =>
            /\ chip.pwrUp /\ ~ chip.primRx /\ ~ chip.maxRt /\ chip.txFifo # << >>
            /\ burst = <<chip.txAddr, Head(chip.txFifo)>>
      BY <1>1 DEF BurstInv
    <3>3. /\ chip'.pwrUp = chip.pwrUp /\ chip'.primRx = chip.primRx /\ chip'.maxRt = chip.maxRt
          /\ chip'.txAddr = chip.txAddr /\ chip'.txFifo = chip.txFifo
          /\ k = 2 => ~ chip'.ce
      BY <1>1, <2>2, LevelUnseen
    <3>4. burst' # << >> =>
            /\ chip'.pwrUp /\ ~ chip'.primRx /\ ~ chip'.maxRt /\ chip'.txFifo # << >>
            /\ burst' = <<chip'.txAddr, Head(chip'.txFifo)>>
            /\ script' # Rest(initTransceiver, 3)
      BY <2>2, <2>7, <3>2, <3>3, AccessFacts
    <3> QED
      BY <2>1, <2>7, <3>3, <3>4 DEF BurstInv
  <2> QED
    BY <2>5, <2>6, <2>8
<1>5. CASE k = 3
  <2>1. script' = << >> /\ Returns
    BY <1>2, <1>5, ScriptsGoOn, AccessFacts
  <2>2. state' = "Idle" /\ timer' = timer /\ waited' = waited
    BY <2>1 DEF Returns
  <2>3. chip' = nrf24_clear_interrupts(chip)
    BY <1>2, <1>5, ScriptSteps, AccessedBy
  <2>4. ~ chip.ce /\ burst = << >>
    BY <1>1, <1>2, <1>5 DEF BurstInv
  <2>5. nrf24_power_down(seen.chip) = chip
    BY <1>1, <2>4 DEF nrf24_power_down, Chip
  <2>6. seen' = View(chip', receiveQueue')
    BY <2>1, <2>2, AccessFacts DEF Seen
  <2>7. seen'.chip = R!initTransceiver(seen.chip) /\ seen'.received = seen.received
    BY <1>1, <2>3, <2>5, <2>6, SeenFacts, BranchChips, AccessFacts DEF View
  <2>8. R!Boot
    BY <2>2, <2>7, AccessFacts DEF R!Boot, Sending, R!queueVars, R!clockVars,
       R!messageVars, R!packetVars
  <2>9. SeenStep
    BY <2>8 DEF SeenStep, R!Next
  <2>10. SeenInv'
    BY <2>1, <2>2, <2>6 DEF SeenInv
  <2>11. BurstInv'
    BY <2>1, <2>2, <2>4, AccessFacts DEF BurstInv
  <2> QED
    BY <2>9, <2>10, <2>11
<1> QED
  BY <1>4, <1>5

LEMMA SeenAccessSend ==
  ASSUME InTime, Access, ~ late', state = "SendNextQueuedMessage",
         NEW k \in 1 .. 9, Before(transmit, k)
  PROVE  SeenStep /\ SeenInv' /\ BurstInv'
<1>1. /\ BurstInv /\ seen.chip \in Chip /\ Sending
      /\ message \in Message /\ transmitQueue \in Seq(Message)
  BY SeenFacts, AccessFacts DEF InTime, TypeOK, Sending
<1>2. /\ script = Rest(transmit, k) /\ script' = Rest(transmit, k + 1)
      /\ chip' = Accessed(transmit[k], chip)
  BY AccessFacts DEF Before
<1>3. burst = << >> /\ burst' = << >>
  BY <1>1, AccessFacts DEF BurstInv
<1>4. chip = TransmitChips(seen.chip, message)[k] /\ seen.received = receiveQueue
  <2>1. PICK j \in 1 .. 9 : script = Rest(transmit, j) /\ chip = TransmitChips(seen.chip, message)[j]
    BY <1>1, SeenInSend
  <2>2. transmit \in Seq(Step) /\ j \in 1 .. Len(transmit) + 1 /\ k \in 1 .. Len(transmit) + 1
    BY ScriptSteps
  <2>3. j = k
    BY <1>2, <2>1, <2>2, Places
  <2> QED
    BY <1>1, <2>1, <2>3, SeenInSend
<1>5. CASE k \in 1 .. 8
  <2>1. chip' = TransmitChips(seen.chip, message)[k + 1]
    BY <1>1, <1>2, <1>4, <1>5, TransmitSteps
  <2>2. k + 1 \in 2 .. 9
    BY <1>5
  <2>3. ~ chip'.ce
    BY <1>1, <2>1, <2>2, TransmitSteps
  <2>4. script' # << >> /\ UNCHANGED <<state, timer, waited>>
    BY <1>2, <2>2, AccessFacts, ScriptsGoOn
  <2>5. seen' = seen
    BY <2>3, <2>4, AccessFacts DEF Seen
  <2>6. SeenStep
    BY <1>1, <2>4, <2>5, Unnoticed, AccessFacts DEF SeenQueue, Sending
  <2>7. \E j \in 1 .. 9 : script' = Rest(transmit, j) /\ chip' = TransmitChips(seen'.chip, message')[j]
    BY <1>2, <2>1, <2>2, <2>5, AccessFacts
  <2>8. SeenInv'
    BY <1>4, <2>4, <2>5, <2>7, AccessFacts DEF SeenInv
  <2>9. BurstInv'
    BY <1>3, <2>4 DEF BurstInv
  <2> QED
    BY <2>6, <2>8, <2>9
<1>6. CASE k = 9
  <2>1. script' = << >> /\ Returns
    BY <1>2, <1>6, ScriptsGoOn, AccessFacts
  <2>2. state' = "WaitForMessageSent" /\ timer' = now /\ waited' = 0
    BY <2>1 DEF Returns
  <2>3. chip' = nrf24_power_up(TransmitChips(seen.chip, message)[9])
    BY <1>2, <1>4, <1>6, ScriptSteps, AccessedBy
  <2>4. seen' = View(chip', receiveQueue')
    BY <2>1, <2>2, AccessFacts DEF Seen
  <2>5. seen'.chip = R!nrf24_power_up(R!nrf24_write_tx_payload(
                       R!setTransceiverMode(seen.chip, "PrimaryTransmitter", message.address),
                       message))
        /\ seen'.received = seen.received
    BY <1>1, <1>4, <2>3, <2>4, BranchChips, AccessFacts DEF View
  <2>6. /\ Head(<<message>> \o transmitQueue) = message
        /\ Tail(<<message>> \o transmitQueue) = transmitQueue
    BY <1>1, InFrontOf
  <2>7. ~ Sending' /\ transmitQueue' = transmitQueue
    BY <2>2, AccessFacts DEF Sending
  <2>8. R!SendNextQueuedMessage
    BY <1>1, <2>2, <2>5, <2>6, <2>7, AccessFacts
       DEF R!SendNextQueuedMessage, R!Popped, R!messageVars, R!packetVars
  <2>9. SeenStep
    BY <2>8 DEF SeenStep, R!Next, R!Task
  <2>10. SeenInv'
    BY <2>1, <2>2, <2>4 DEF SeenInv
  <2>11. ~ chip'.txDs
    <3>1. 9 \in 1 .. 9
      OBVIOUS
    <3>2. TransmitChips(seen.chip, message)[9] \in Chip /\ ~ TransmitChips(seen.chip, message)[9].txDs
      BY <1>1, <3>1, TransmitSteps
    <3> QED
      BY <2>3, <3>2 DEF nrf24_power_up, Chip
  <2>12. listen # << >>
    BY ScriptsGoOn
  <2>13. BurstInv'
    BY <1>3, <2>1, <2>2, <2>11, <2>12 DEF BurstInv
  <2> QED
    BY <2>9, <2>10, <2>13
<1> QED
  BY <1>5, <1>6

LEMMA SeenAccessWait ==
  ASSUME InTime, Access, ~ late', state = "WaitForMessageSent",
         NEW k \in 1 .. 7, Before(listen, k)
  PROVE  SeenStep /\ SeenInv' /\ BurstInv'
<1>1. BurstInv /\ seen.chip \in Chip /\ script # << >> /\ ~ Sending
  BY SeenFacts, AccessFacts DEF InTime, Sending
<1>2. /\ script = Rest(listen, k) /\ script' = Rest(listen, k + 1)
      /\ chip' = Accessed(listen[k], chip)
  BY AccessFacts DEF Before
<1>3. burst = << >> /\ burst' = << >>
  BY <1>1, AccessFacts DEF BurstInv
<1>4. /\ chip = ListenChips(seen.chip)[k] /\ seen.received = receiveQueue
      /\ IrqAsserted(seen.chip) \/ TimedOut
  <2>1. PICK j \in 1 .. 7 : script = Rest(listen, j) /\ chip = ListenChips(seen.chip)[j]
    BY <1>1, SeenInWait
  <2>2. listen \in Seq(Step) /\ j \in 1 .. Len(listen) + 1 /\ k \in 1 .. Len(listen) + 1
    BY ScriptSteps
  <2>3. j = k
    BY <1>2, <2>1, <2>2, Places
  <2> QED
    BY <1>1, <2>1, <2>3, SeenInWait
<1>5. CASE k \in 1 .. 6
  <2>1. chip' = ListenChips(seen.chip)[k + 1]
    BY <1>1, <1>2, <1>4, <1>5, ListenSteps
  <2>2. k + 1 \in 2 .. 7
    BY <1>5
  <2>3. ~ chip'.ce
    BY <1>1, <2>1, <2>2, ListenSteps
  <2>4. script' # << >> /\ UNCHANGED <<state, timer, waited>>
    BY <1>2, <2>2, AccessFacts, ScriptsGoOn
  <2>5. seen' = seen
    BY <2>3, <2>4, AccessFacts DEF Seen
  <2>6. SeenStep
    BY <1>1, <2>4, <2>5, Unnoticed, AccessFacts DEF SeenQueue, Sending
  <2>7. \E j \in 1 .. 7 : script' = Rest(listen, j) /\ chip' = ListenChips(seen'.chip)[j]
    BY <1>2, <2>1, <2>2, <2>5
  <2>8. TimedOut' <=> TimedOut
    BY <2>4, AccessFacts DEF TimedOut
  <2>9. IrqAsserted(seen'.chip) \/ TimedOut'
    BY <1>4, <2>5, <2>8
  <2>10. SeenInv'
    BY <1>4, <2>4, <2>5, <2>7, <2>9, AccessFacts DEF SeenInv
  <2>11. BurstInv'
    BY <1>3, <2>3, <2>4 DEF BurstInv, CanTransmit
  <2> QED
    BY <2>6, <2>10, <2>11
<1>6. CASE k = 7
  <2>1. script' = << >> /\ Returns
    BY <1>2, <1>6, ScriptsGoOn, AccessFacts
  <2>2. state' = "Idle" /\ timer' = timer /\ waited' = 0
    BY <2>1 DEF Returns
  <2>3. chip' = nrf24_power_up(ListenChips(seen.chip)[7])
    BY <1>2, <1>4, <1>6, ScriptSteps, AccessedBy
  <2>4. seen' = View(chip', receiveQueue')
    BY <2>1, <2>2, AccessFacts DEF Seen
  <2>5. seen'.chip = R!BackToReceiver(seen.chip) /\ seen'.received = seen.received
    BY <1>1, <1>4, <2>3, <2>4, BranchChips, AccessFacts DEF View
  <2>6. ~ Sending' /\ transmitQueue' = transmitQueue
    BY <2>2, AccessFacts DEF Sending
  <2>7. R!IrqAsserted(seen.chip) \/ R!TimedOut
    BY <1>4 DEF R!IrqAsserted, IrqAsserted, R!TimedOut, TimedOut
  <2>8. R!WaitForMessageSent
    BY <1>1, <2>2, <2>5, <2>6, <2>7, AccessFacts
       DEF R!WaitForMessageSent, R!queueVars, R!messageVars, R!packetVars
  <2>9. SeenStep
    BY <2>8 DEF SeenStep, R!Next, R!Task
  <2>10. SeenInv'
    BY <2>1, <2>2, <2>4 DEF SeenInv
  <2>11. BurstInv'
    BY <1>3, <2>2 DEF BurstInv
  <2> QED
    BY <2>9, <2>10, <2>11
<1> QED
  BY <1>5, <1>6

\* Where the reading branch is, told by what it does next.
LEMMA ReadAt ==
  ASSUME InTime, state = "ReadReceivedMessages", script # << >>
  PROVE  /\ Head(script) = "power_down" => seen = View(chip, receiveQueue)
         /\ Head(script) = "clear_interrupts" =>
              chip = nrf24_power_down(seen.chip) /\ receiveQueue = seen.received
         /\ Head(script) = "get_fifo_status" =>
              \E n \in 0 .. Len(seen.chip.rxFifo) : chip = Unread(n) /\ receiveQueue = Collected(n)
         /\ Head(script) = "power_up" =>
              /\ chip = Unread(Len(seen.chip.rxFifo))
              /\ receiveQueue = Collected(Len(seen.chip.rxFifo))
         /\ Head(script) = "read_rx_payload" =>
              \E n \in 0 .. Len(seen.chip.rxFifo) :
                n < Len(seen.chip.rxFifo) /\ chip = Unread(n) /\ receiveQueue = Collected(n)
         /\ Head(script) = "get_rx_address" =>
              \E n \in 0 .. Len(seen.chip.rxFifo) :
                /\ n > 0 /\ chip = Unread(n)
                /\ payload = seen.chip.rxFifo[n] /\ receiveQueue = Collected(n - 1)
<1> DEFINE inner == <<"get_rx_address">> \o Loop
           outer == <<"read_rx_payload", "get_rx_address">> \o Loop
<1>1. /\ Head(Rest(readMessages, 1)) = "power_down"
      /\ Head(Rest(readMessages, 2)) = "clear_interrupts"
      /\ Head(Rest(readMessages, 4)) = "power_up"
  <2>1. readMessages \in Seq(Step) /\ Len(readMessages) = 4
    BY ScriptSteps
  <2>2. ASSUME NEW k \in 1 .. 4 PROVE Head(Rest(readMessages, k)) = readMessages[k]
    <3>1. k \in 1 .. Len(readMessages) + 1 /\ k <= Len(readMessages)
      BY <2>1
    <3> QED
      BY <2>1, <3>1, RestOfScript, Zenon
  <2> QED
    BY <2>2, ScriptSteps
<1>2. /\ Head(Loop) = "get_fifo_status" /\ Head(inner) = "get_rx_address"
      /\ Head(outer) = "read_rx_payload"
  BY LoopSteps
<1>3. \/ script = Rest(readMessages, 1) /\ seen = View(chip, receiveQueue)
      \/ /\ script = Rest(readMessages, 2)
         /\ chip = nrf24_power_down(seen.chip) /\ receiveQueue = seen.received
      \/ \E n \in 0 .. Len(seen.chip.rxFifo) :
           /\ chip = Unread(n)
           /\ \/ script = Loop /\ receiveQueue = Collected(n)
              \/ /\ script = Rest(readMessages, 4) /\ n = Len(seen.chip.rxFifo)
                 /\ receiveQueue = Collected(n)
              \/ /\ script = outer
                 /\ n < Len(seen.chip.rxFifo) /\ receiveQueue = Collected(n)
              \/ /\ script = inner
                 /\ n > 0 /\ payload = seen.chip.rxFifo[n] /\ receiveQueue = Collected(n - 1)
  BY SeenInRead, Zenon DEF ReadInv
<1> HIDE DEF inner, outer
<1>4. CASE script = Rest(readMessages, 1) /\ seen = View(chip, receiveQueue)
  BY <1>1, <1>4
<1>5. CASE /\ script = Rest(readMessages, 2)
           /\ chip = nrf24_power_down(seen.chip) /\ receiveQueue = seen.received
  BY <1>1, <1>5
<1>6. ASSUME NEW n \in 0 .. Len(seen.chip.rxFifo), chip = Unread(n),
             \/ script = Loop /\ receiveQueue = Collected(n)
             \/ /\ script = Rest(readMessages, 4) /\ n = Len(seen.chip.rxFifo)
                /\ receiveQueue = Collected(n)
             \/ /\ script = outer
                /\ n < Len(seen.chip.rxFifo) /\ receiveQueue = Collected(n)
             \/ /\ script = inner
                /\ n > 0 /\ payload = seen.chip.rxFifo[n] /\ receiveQueue = Collected(n - 1)
      PROVE  /\ Head(script) \notin {"power_down", "clear_interrupts"}
             /\ Head(script) = "get_fifo_status" => receiveQueue = Collected(n)
             /\ Head(script) = "power_up" =>
                  n = Len(seen.chip.rxFifo) /\ receiveQueue = Collected(n)
             /\ Head(script) = "read_rx_payload" =>
                  n < Len(seen.chip.rxFifo) /\ receiveQueue = Collected(n)
             /\ Head(script) = "get_rx_address" =>
                  n > 0 /\ payload = seen.chip.rxFifo[n] /\ receiveQueue = Collected(n - 1)
  BY <1>1, <1>2, <1>6
<1>7. CASE \E n \in 0 .. Len(seen.chip.rxFifo) :
             /\ chip = Unread(n)
             /\ \/ script = Loop /\ receiveQueue = Collected(n)
                \/ /\ script = Rest(readMessages, 4) /\ n = Len(seen.chip.rxFifo)
                   /\ receiveQueue = Collected(n)
                \/ /\ script = outer
                   /\ n < Len(seen.chip.rxFifo) /\ receiveQueue = Collected(n)
                \/ /\ script = inner
                   /\ n > 0 /\ payload = seen.chip.rxFifo[n] /\ receiveQueue = Collected(n - 1)
  BY <1>6, <1>7
<1> QED
  BY <1>3, <1>4, <1>5, <1>7

\* The chip while the loop empties its FIFO.
LEMMA UnreadChips ==
  ASSUME seen.chip \in Chip, NEW n \in 0 .. Len(seen.chip.rxFifo)
  PROVE  /\ Unread(n) \in Chip /\ ~ Unread(n).ce
         /\ Unread(n).rxFifo = << >> <=> n = Len(seen.chip.rxFifo)
         /\ n < Len(seen.chip.rxFifo) =>
              /\ Head(Unread(n).rxFifo) = seen.chip.rxFifo[n + 1]
              /\ [Unread(n) EXCEPT !.rxFifo = Tail(@)] = Unread(n + 1)
         /\ Unread(0) = nrf24_clear_interrupts(nrf24_power_down(seen.chip))
         /\ nrf24_power_up(Unread(Len(seen.chip.rxFifo)))
            = nrf24_power_up(nrf24_flush_rx(nrf24_clear_interrupts(nrf24_power_down(seen.chip))))
<1> DEFINE c == nrf24_clear_interrupts(nrf24_power_down(seen.chip))
           f == seen.chip.rxFifo
<1>1. c \in Chip /\ ~ c.ce /\ c.rxFifo = f /\ f \in Seq(Packet)
  BY DEF Chip, nrf24_clear_interrupts, nrf24_power_down
<1>2. \A k : Unread(k) = [c EXCEPT !.rxFifo = Rest(c.rxFifo, k + 1)]
  BY DEF Unread, Rest
<1> HIDE DEF c
<1>3. \A k \in 1 .. Len(f) + 1 :
         /\ Rest(f, k) \in Seq(Packet) /\ Len(Rest(f, k)) = Len(f) - k + 1
         /\ k <= Len(f) => /\ Rest(f, k) # << >> /\ Head(Rest(f, k)) = f[k]
                           /\ Tail(Rest(f, k)) = Rest(f, k + 1)
         /\ k = Len(f) + 1 => Rest(f, k) = << >>
         /\ Rest(f, 1) = f
  BY <1>1, RestOf, ZenonT(40)
<1> HIDE DEF f
<1>4. ASSUME NEW k \in 0 .. Len(f)
      PROVE  /\ Rest(f, k + 1) \in Seq(Packet)
             /\ Unread(k) = [c EXCEPT !.rxFifo = Rest(f, k + 1)]
             /\ Unread(k).rxFifo = Rest(f, k + 1)
  <2>1. k + 1 \in 1 .. Len(f) + 1
    BY <1>1
  <2> QED
    BY <1>1, <1>2, <1>3, <2>1 DEF Chip
<1>5. n \in 0 .. Len(f) /\ n + 1 \in 1 .. Len(f) + 1 /\ Len(f) \in Nat
  BY <1>1 DEF f
<1>6. Unread(n) \in Chip /\ ~ Unread(n).ce
  <2>1. ASSUME NEW r \in Seq(Packet)
        PROVE  [c EXCEPT !.rxFifo = r] \in Chip /\ [c EXCEPT !.rxFifo = r].ce = c.ce
    BY <1>1 DEF Chip
  <2>2. Rest(f, n + 1) \in Seq(Packet) /\ Unread(n) = [c EXCEPT !.rxFifo = Rest(f, n + 1)]
    BY <1>4, <1>5
  <2> QED
    BY <1>1, <2>1, <2>2, Zenon
<1>7. Unread(n).rxFifo = << >> <=> n = Len(f)
  BY <1>3, <1>4, <1>5
<1>8. ASSUME n < Len(f)
      PROVE  /\ Head(Unread(n).rxFifo) = f[n + 1]
             /\ [Unread(n) EXCEPT !.rxFifo = Tail(@)] = Unread(n + 1)
  <2>1. /\ Head(Rest(f, n + 1)) = f[n + 1] /\ Tail(Rest(f, n + 1)) = Rest(f, n + 1 + 1)
        /\ n + 1 \in 0 .. Len(f)
    <3>1. n + 1 \in 1 .. Len(f) + 1 /\ n + 1 <= Len(f) /\ n + 1 \in 0 .. Len(f)
      BY <1>5, <1>8
    <3>2. Head(Rest(f, n + 1)) = f[n + 1] /\ Tail(Rest(f, n + 1)) = Rest(f, n + 1 + 1)
      BY <1>3, <3>1, Zenon
    <3> QED
      BY <3>1, <3>2
  <2>2. Unread(n + 1) = [c EXCEPT !.rxFifo = Rest(f, n + 1 + 1)]
    BY <1>4, <2>1
  <2> QED
    BY <1>1, <1>4, <1>5, <2>1, <2>2 DEF Chip
<1>9. Unread(0) = c
  <2>1. 0 \in 0 .. Len(f) /\ 1 \in 1 .. Len(f) + 1 /\ 0 + 1 = 1
    BY <1>5
  <2>2. Unread(0) = [c EXCEPT !.rxFifo = f]
    BY <1>3, <1>4, <2>1
  <2> QED
    BY <1>1, <2>2 DEF Chip
<1>10. nrf24_power_up(Unread(Len(f))) = nrf24_power_up(nrf24_flush_rx(c))
  <2>1. Len(f) \in 0 .. Len(f) /\ Rest(f, Len(f) + 1) = << >>
    BY <1>3, <1>5
  <2>2. Unread(Len(f)) = [c EXCEPT !.rxFifo = << >>]
    BY <1>4, <2>1
  <2> QED
    BY <2>2 DEF nrf24_flush_rx
<1> QED
  BY <1>6, <1>7, <1>8, <1>9, <1>10 DEF c, f

\* What the loop has pushed.
LEMMA CollectedPackets ==
  ASSUME seen.chip \in Chip, seen.received \in Seq(Packet), Len(seen.received) <= QueueSize
  PROVE  /\ Collected(0) = seen.received
         /\ Collected(Len(seen.chip.rxFifo)) = R!PushedAll(seen.received, seen.chip.rxFifo)
         /\ \A n \in 1 .. Len(seen.chip.rxFifo) :
              Pushed(Collected(n - 1), seen.chip.rxFifo[n]) = Collected(n)
<1> DEFINE f == seen.chip.rxFifo
           q == seen.received
<1>1. f \in Seq(Packet)
  BY DEF Chip
<1>2. \A k : Collected(k) = R!PushedAll(q, SubSeq(f, 1, k))
  BY DEF Collected
<1> HIDE DEF f, q
<1>3. q \in Seq(Packet) /\ Len(q) <= QueueSize
  BY DEF q
<1>4. SubSeq(f, 1, 0) = << >> /\ SubSeq(f, 1, Len(f)) = f
  <2>1. ASSUME NEW k \in 0 .. Len(f)
        PROVE  /\ SubSeq(f, 1, k) \in Seq(Packet) /\ Len(SubSeq(f, 1, k)) = k
               /\ \A i \in 1 .. k : SubSeq(f, 1, k)[i] = f[i]
    <3>1. \A i \in 1 .. k : f[i] \in Packet
      BY <1>1
    <3> QED
      BY <1>1, <3>1, SubSeqProperties
  <2>2. SubSeq(f, 1, 0) = << >>
    BY <1>1, <2>1, EmptySeq
  <2>3. SubSeq(f, 1, Len(f)) = f
    BY <1>1, <2>1, SameSequence
  <2> QED
    BY <2>2, <2>3
<1>5. ASSUME NEW n \in 1 .. Len(f)
      PROVE  Pushed(Collected(n - 1), f[n]) = Collected(n)
  <2>1. /\ SubSeq(f, 1, n - 1) \in Seq(Packet) /\ f[n] \in Packet
        /\ SubSeq(f, 1, n) = Append(SubSeq(f, 1, n - 1), f[n])
    BY <1>1, FrontGrows
  <2>2. Pushed(R!PushedAll(q, SubSeq(f, 1, n - 1)), f[n])
        = R!PushedAll(q, Append(SubSeq(f, 1, n - 1), f[n]))
    BY <1>3, <2>1, PushedOn, Zenon
  <2> QED
    BY <1>2, <2>1, <2>2
<1>6. R!PushedAll(q, << >>) = q
  BY <1>3, EmptySeq DEF R!PushedAll
<1> QED
  BY <1>2, <1>4, <1>5, <1>6 DEF f, q

LEMMA SeenKept ==
  ASSUME seen' = seen
  PROVE  \A n : Unread(n)' = Unread(n) /\ Collected(n)' = Collected(n)
BY DEF Unread, Collected

LEMMA SeenAccessRead ==
  ASSUME InTime, Access, ~ late', state = "ReadReceivedMessages",
         NEW k \in {1, 2, 4}, Before(readMessages, k)
  PROVE  SeenStep /\ SeenInv' /\ BurstInv'
<1>1. /\ BurstInv /\ seen.chip \in Chip /\ script # << >> /\ ~ Sending
      /\ seen.received \in Seq(Packet) /\ Len(seen.received) <= QueueSize
  BY SeenFacts, AccessFacts DEF InTime, Sending
<1>2. /\ script' = Rest(readMessages, k + 1) /\ chip' = Accessed(readMessages[k], chip)
      /\ Head(script) = readMessages[k]
  BY AccessFacts DEF Before
<1>3. burst = << >> /\ burst' = << >>
  BY <1>1, AccessFacts DEF BurstInv
<1>4. ASSUME k \in {1, 2}, ~ chip'.ce
      PROVE  script' # << >> /\ state' = state /\ seen' = seen /\ SeenStep /\ BurstInv'
  <2>1. k + 1 \in 1 .. 4
    BY <1>4
  <2>2. script' # << >> /\ UNCHANGED <<state, timer, waited>>
    BY <1>2, <2>1, AccessFacts, ScriptsGoOn
  <2>3. seen' = seen
    BY <1>4, <2>2, AccessFacts DEF Seen
  <2>4. SeenStep
    BY <1>1, <2>2, <2>3, Unnoticed, AccessFacts DEF SeenQueue, Sending
  <2>5. BurstInv'
    BY <1>3, <2>2 DEF BurstInv
  <2> QED
    BY <2>2, <2>3, <2>4, <2>5
<1>5. CASE k = 1
  <2>1. Head(script) = "power_down" /\ chip' = nrf24_power_down(chip)
    BY <1>2, <1>5, ScriptSteps, AccessedBy
  <2>2. seen.chip = chip /\ seen.received = receiveQueue
    BY <1>1, <2>1, ReadAt DEF View
  <2>3. ~ chip'.ce
    BY <1>1, <2>1, <2>2, DriverKeepsOff
  <2>4. script' # << >> /\ state' = state /\ seen' = seen /\ SeenStep /\ BurstInv'
    BY <1>4, <1>5, <2>3
  <2>5. ReadInv'
    <3>1. /\ script' = Rest(readMessages, 2)
          /\ chip' = nrf24_power_down(seen'.chip) /\ receiveQueue' = seen'.received
      BY <1>2, <1>5, <2>1, <2>2, <2>4, AccessFacts
    <3> QED
      BY <3>1 DEF ReadInv
  <2> QED
    BY <2>4, <2>5 DEF SeenInv
<1>6. CASE k = 2
  <2>1. Head(script) = "clear_interrupts" /\ chip' = nrf24_clear_interrupts(chip)
    BY <1>2, <1>6, ScriptSteps, AccessedBy
  <2>2. chip = nrf24_power_down(seen.chip) /\ receiveQueue = seen.received
    BY <1>1, <2>1, ReadAt
  <2>3. 0 \in 0 .. Len(seen.chip.rxFifo)
    BY <1>1 DEF Chip
  <2>4. chip' = Unread(0) /\ ~ chip'.ce
    BY <1>1, <2>1, <2>2, <2>3, UnreadChips
  <2>5. script' # << >> /\ state' = state /\ seen' = seen /\ SeenStep /\ BurstInv'
    BY <1>4, <1>6, <2>4
  <2>6. script' = Loop /\ chip' = Unread(0)' /\ receiveQueue' = Collected(0)'
    BY <1>1, <1>2, <1>6, <2>2, <2>4, <2>5, SeenKept, CollectedPackets, AccessFacts DEF Loop
  <2>7. 0 \in 0 .. Len(seen'.chip.rxFifo)
    BY <2>3, <2>5
  <2>8. ReadInv'
    BY <2>6, <2>7 DEF ReadInv
  <2> QED
    BY <2>5, <2>8 DEF SeenInv
<1>7. CASE k = 4
  <2>1. script' = << >> /\ Returns
    BY <1>2, <1>7, ScriptsGoOn, AccessFacts
  <2>2. state' = "Idle" /\ timer' = timer /\ waited' = waited
    BY <2>1 DEF Returns
  <2>3. Head(script) = "power_up" /\ chip' = nrf24_power_up(chip)
    BY <1>2, <1>7, ScriptSteps, AccessedBy
  <2>4. /\ chip = Unread(Len(seen.chip.rxFifo))
        /\ receiveQueue = Collected(Len(seen.chip.rxFifo))
    BY <1>1, <2>3, ReadAt
  <2>5. Len(seen.chip.rxFifo) \in 0 .. Len(seen.chip.rxFifo)
    BY <1>1 DEF Chip
  <2>6. seen' = View(chip', receiveQueue')
    BY <2>1, <2>2, AccessFacts DEF Seen
  <2>7. seen'.chip = R!nrf24_power_up(R!ReadAllPayloads(
                       R!nrf24_clear_interrupts(R!nrf24_power_down(seen.chip))))
    BY <1>1, <2>3, <2>4, <2>5, <2>6, UnreadChips, BranchChips DEF View
  <2>8. seen'.received = R!PushedAll(seen.received, seen.chip.rxFifo)
    BY <1>1, <2>4, <2>6, CollectedPackets, AccessFacts DEF View
  <2>9. ~ Sending' /\ transmitQueue' = transmitQueue
    BY <2>2, AccessFacts DEF Sending
  <2>10. R!ReadReceivedMessages
    BY <1>1, <2>2, <2>7, <2>8, <2>9, AccessFacts
       DEF R!ReadReceivedMessages, R!clockVars, R!messageVars, R!packetVars
  <2>11. SeenStep
    BY <2>10 DEF SeenStep, R!Next, R!Task
  <2>12. SeenInv'
    BY <2>1, <2>2, <2>6 DEF SeenInv
  <2>13. BurstInv'
    BY <1>3, <2>2 DEF BurstInv
  <2> QED
    BY <2>11, <2>12, <2>13
<1> QED
  BY <1>5, <1>6, <1>7

\* Any access.
LEMMA SeenAccess ==
  ASSUME InTime, Access, ~ late'
  PROVE  SeenStep /\ SeenInv' /\ BurstInv'
<1>1. TypeOK /\ At(Accesses)
  BY AccessFacts DEF InTime
<1>2. CASE state = "Booting" /\ \E k \in 1 .. 3 : Before(initTransceiver, k)
  BY <1>2, SeenAccessBoot
<1>3. CASE state = "SendNextQueuedMessage" /\ \E k \in 1 .. 9 : Before(transmit, k)
  BY <1>3, SeenAccessSend
<1>4. CASE state = "WaitForMessageSent" /\ \E k \in 1 .. 7 : Before(listen, k)
  BY <1>4, SeenAccessWait
<1>5. CASE state = "ReadReceivedMessages" /\ \E k \in {1, 2, 4} : Before(readMessages, k)
  BY <1>5, SeenAccessRead
<1> QED
  BY <1>1, <1>2, <1>3, <1>4, <1>5, RunningAccess

\* STATUS tells the machine what Radio decides at once.
LEMMA SeenGetStatus ==
  ASSUME InTime, GetStatus
  PROVE  SeenStep /\ SeenInv' /\ BurstInv'
<1>1. /\ UNCHANGED <<message, chip, burst, alive, airing, late, transmitQueue, receiveQueue,
                     timer, now, waited, nextId, firstId, aired, nextPacket, lastRead, restarts>>
      /\ At({"get_status"}) /\ script' = << >> /\ Seen
      /\ state' = IF chip.rxDr THEN "ReadReceivedMessages"
                  ELSE IF transmitQueue # << >> THEN "SendNextQueuedMessage" ELSE "Idle"
  BY DEF GetStatus, chipVars, queueVars, clockVars, messageVars, packetVars
<1>2. state = "Idle" /\ script = <<"get_status">> /\ BurstInv
  BY <1>1, RunningOther DEF InTime
<1>3. seen = View(chip, receiveQueue)
  BY <1>2, SeenAtRest
<1>4. state' # "Booting" /\ seen' = View(chip', receiveQueue') /\ seen' = seen
  BY <1>1, <1>3 DEF Seen
<1>5. seen.chip = chip
  BY <1>3 DEF View
<1>6. ~ Sending /\ ~ Sending' /\ SeenQueue' = SeenQueue
  BY <1>1, <1>2 DEF Sending, SeenQueue
<1>7. SeenStep
  <2>1. CASE state' = "Idle"
    BY <1>1, <1>2, <1>4, <1>6, <2>1, Unnoticed
  <2>2. CASE state' = "ReadReceivedMessages"
    <3>1. chip.rxDr
      BY <1>1, <2>2
    <3>2. R!MessageReceived
      BY <1>5, <3>1 DEF R!MessageReceived, R!IrqAsserted
    <3>3. R!Idle
      BY <1>1, <1>2, <1>4, <1>6, <2>2, <3>2
         DEF R!Idle, R!queueVars, R!clockVars, R!messageVars, R!packetVars
    <3> QED
      BY <3>3 DEF SeenStep, R!Next, R!Task
  <2>3. CASE state' = "SendNextQueuedMessage"
    <3>1. ~ chip.rxDr /\ transmitQueue # << >>
      BY <1>1, <2>3
    <3>2. ~ R!MessageReceived
      BY <1>5, <3>1 DEF R!MessageReceived
    <3>3. R!Idle
      BY <1>1, <1>2, <1>4, <1>6, <2>3, <3>1, <3>2
         DEF R!Idle, R!queueVars, R!clockVars, R!messageVars, R!packetVars
    <3> QED
      BY <3>3 DEF SeenStep, R!Next, R!Task
  <2> QED
    BY <1>1, <2>1, <2>2, <2>3
<1>8. SeenInv'
  BY <1>1, <1>4 DEF SeenInv
<1>9. BurstInv'
  <2>1. burst' = << >>
    BY <1>1, <1>2 DEF BurstInv
  <2>2. state' \in {"ReadReceivedMessages", "SendNextQueuedMessage", "Idle"}
    BY <1>1
  <2> QED
    BY <2>1, <2>2 DEF BurstInv
<1> QED
  BY <1>7, <1>8, <1>9

\* A round of the reading loop changes nothing that Radio sees.
LEMMA SeenLoop ==
  ASSUME InTime, state = "ReadReceivedMessages", script # << >>, script' # << >>, ~ chip'.ce, Seen,
         UNCHANGED <<state, message, burst, alive, airing, late, transmitQueue, timer, now,
                     waited, nextId, firstId, aired, nextPacket, lastRead, restarts>>
  PROVE  seen' = seen /\ SeenStep /\ BurstInv' /\ (ReadInv' => SeenInv')
<1>1. seen' = seen
  BY DEF Seen
<1>2. SeenStep
  BY <1>1, Unnoticed DEF SeenQueue, Sending
<1>3. BurstInv'
  BY DEF InTime, BurstInv
<1>4. ReadInv' => SeenInv'
  BY DEF SeenInv
<1> QED
  BY <1>1, <1>2, <1>3, <1>4

LEMMA SeenGetFifoStatus ==
  ASSUME InTime, GetFifoStatus
  PROVE  SeenStep /\ SeenInv' /\ BurstInv'
<1>1. /\ UNCHANGED <<state, message, payload, chip, burst, alive, airing, late, transmitQueue,
                     receiveQueue, timer, now, waited, nextId, firstId, aired, nextPacket,
                     lastRead, restarts>>
      /\ At({"get_fifo_status"}) /\ Seen
      /\ script' = IF chip.rxFifo = << >> THEN Tail(script)
                   ELSE <<"read_rx_payload", "get_rx_address">> \o script
  BY DEF GetFifoStatus, chipVars, queueVars, clockVars, messageVars, packetVars
<1>2. /\ state = "ReadReceivedMessages" /\ script = Loop /\ script # << >>
      /\ Head(script) = "get_fifo_status"
      /\ seen.chip \in Chip
  BY <1>1, RunningOther, LoopSteps, SeenFacts DEF InTime
<1>3. PICK n \in 0 .. Len(seen.chip.rxFifo) : chip = Unread(n) /\ receiveQueue = Collected(n)
  BY <1>2, ReadAt
<1>4. ~ chip.ce /\ (chip.rxFifo = << >> <=> n = Len(seen.chip.rxFifo))
  BY <1>2, <1>3, UnreadChips
<1>5. /\ chip.rxFifo = << >> => script' = Rest(readMessages, 4)
      /\ chip.rxFifo # << >> => script' = <<"read_rx_payload", "get_rx_address">> \o Loop
      /\ script' # << >>
  BY <1>1, <1>2, LoopSteps, ScriptsGoOn, SMTT(40)
<1>6. seen' = seen /\ SeenStep /\ BurstInv' /\ (ReadInv' => SeenInv')
  BY <1>1, <1>2, <1>4, <1>5, SeenLoop
<1>7. n \in 0 .. Len(seen'.chip.rxFifo) /\ chip' = Unread(n)' /\ receiveQueue' = Collected(n)'
  BY <1>1, <1>3, <1>6, SeenKept
<1>8. \/ script' = Rest(readMessages, 4) /\ n = Len(seen'.chip.rxFifo)
      \/ /\ script' = <<"read_rx_payload", "get_rx_address">> \o Loop
         /\ n < Len(seen'.chip.rxFifo)
  <2>1. Len(seen.chip.rxFifo) \in Nat
    BY <1>2 DEF Chip
  <2> QED
    BY <1>4, <1>5, <1>6, <2>1
<1>9. ReadInv'
  BY <1>7, <1>8, Zenon DEF ReadInv
<1> QED
  BY <1>6, <1>9

LEMMA SeenReadPayload ==
  ASSUME InTime, ReadPayload
  PROVE  SeenStep /\ SeenInv' /\ BurstInv'
<1>1. /\ UNCHANGED <<state, message, burst, alive, airing, late, transmitQueue,
                     receiveQueue, timer, now, waited, nextId, firstId, aired, nextPacket,
                     lastRead, restarts>>
      /\ At({"read_rx_payload"}) /\ Seen
      /\ payload' = Head(chip.rxFifo) /\ chip' = [chip EXCEPT !.rxFifo = Tail(@)]
      /\ script' = Tail(script)
  BY DEF ReadPayload, queueVars, clockVars, messageVars, packetVars
<1>2. /\ state = "ReadReceivedMessages"
      /\ script = <<"read_rx_payload", "get_rx_address">> \o Loop /\ script # << >>
      /\ Head(script) = "read_rx_payload"
      /\ seen.chip \in Chip
  BY <1>1, RunningOther, LoopSteps, SeenFacts DEF InTime
<1>3. PICK n \in 0 .. Len(seen.chip.rxFifo) :
        n < Len(seen.chip.rxFifo) /\ chip = Unread(n) /\ receiveQueue = Collected(n)
  BY <1>2, ReadAt
<1>4. /\ n + 1 \in 0 .. Len(seen.chip.rxFifo) /\ n + 1 > 0 /\ n + 1 - 1 = n
  BY <1>2, <1>3 DEF Chip
<1>5. payload' = seen.chip.rxFifo[n + 1] /\ chip' = Unread(n + 1)
  BY <1>1, <1>2, <1>3, UnreadChips
<1>6. ~ chip'.ce
  BY <1>2, <1>4, <1>5, UnreadChips
<1>7. script' = <<"get_rx_address">> \o Loop /\ script' # << >>
  BY <1>1, <1>2, LoopSteps
<1>8. seen' = seen /\ SeenStep /\ BurstInv' /\ (ReadInv' => SeenInv')
  BY <1>1, <1>2, <1>6, <1>7, SeenLoop
<1> DEFINE m == n + 1
<1>9. /\ m \in 0 .. Len(seen'.chip.rxFifo) /\ chip' = Unread(m)' /\ m > 0
      /\ payload' = seen'.chip.rxFifo[m]
      /\ receiveQueue' = Collected(m - 1)'
  <2>1. \A i : Unread(i)' = Unread(i) /\ Collected(i)' = Collected(i)
    BY <1>8, SeenKept, Zenon
  <2>2. Unread(m)' = Unread(m) /\ Collected(m - 1)' = Collected(m - 1)
    BY <2>1, Zenon
  <2>3. m \in 0 .. Len(seen.chip.rxFifo) /\ m > 0 /\ m - 1 = n
    BY <1>4
  <2>4. chip' = Unread(m) /\ payload' = seen.chip.rxFifo[m] /\ receiveQueue' = Collected(m - 1)
    BY <1>1, <1>3, <1>5, <2>3
  <2> HIDE DEF m
  <2> QED
    BY <1>8, <2>2, <2>3, <2>4, Zenon
<1> HIDE DEF m
<1>10. ReadInv'
  BY <1>7, <1>9, Zenon DEF ReadInv
<1> QED
  BY <1>8, <1>10

LEMMA SeenGetRxAddress ==
  ASSUME InTime, GetRxAddress
  PROVE  SeenStep /\ SeenInv' /\ BurstInv'
<1>1. /\ UNCHANGED <<state, message, payload, chip, burst, alive, airing, late, transmitQueue,
                     timer, now, waited, nextId, firstId, aired, nextPacket, lastRead, restarts>>
      /\ At({"get_rx_address"}) /\ Seen
      /\ receiveQueue' = Pushed(receiveQueue, payload)
      /\ script' = Tail(script)
  BY DEF GetRxAddress, chipVars, clockVars, messageVars, packetVars
<1>2. /\ state = "ReadReceivedMessages"
      /\ script = <<"get_rx_address">> \o Loop /\ script # << >>
      /\ Head(script) = "get_rx_address"
      /\ seen.chip \in Chip
      /\ seen.received \in Seq(Packet) /\ Len(seen.received) <= QueueSize
  BY <1>1, RunningOther, LoopSteps, SeenFacts DEF InTime
<1>3. PICK n \in 0 .. Len(seen.chip.rxFifo) :
        /\ n > 0 /\ chip = Unread(n)
        /\ payload = seen.chip.rxFifo[n] /\ receiveQueue = Collected(n - 1)
  BY <1>2, ReadAt
<1>4. n \in 1 .. Len(seen.chip.rxFifo)
  BY <1>2, <1>3 DEF Chip
<1>5. receiveQueue' = Collected(n)
  BY <1>1, <1>2, <1>3, <1>4, CollectedPackets
<1>6. ~ chip'.ce
  BY <1>1, <1>2, <1>3, UnreadChips
<1>7. script' = Loop /\ script' # << >>
  BY <1>1, <1>2, LoopSteps
<1>8. seen' = seen /\ SeenStep /\ BurstInv' /\ (ReadInv' => SeenInv')
  BY <1>1, <1>2, <1>6, <1>7, SeenLoop
<1>9. n \in 0 .. Len(seen'.chip.rxFifo) /\ chip' = Unread(n)' /\ receiveQueue' = Collected(n)'
  BY <1>1, <1>3, <1>5, <1>8, SeenKept
<1>10. ReadInv'
  BY <1>7, <1>9, Zenon DEF ReadInv
<1> QED
  BY <1>8, <1>10

\* Calls are made when no branch is running, and Radio takes them as they are.
LEMMA SeenSendMessage ==
  ASSUME InTime, NEW m \in Message, SendMessage(m)
  PROVE  SeenStep /\ SeenInv' /\ BurstInv'
<1>1. /\ UNCHANGED <<state, script, message, payload, chip, burst, alive, airing, late,
                     receiveQueue, timer, now, waited, firstId, aired, nextPacket,
                     lastRead, restarts, seen>>
      /\ state # "Booting" /\ script = << >> /\ m.id = nextId /\ nextId' = nextId + 1
      /\ transmitQueue' = Pushed(transmitQueue, m)
  BY DEF SendMessage, branchVars, chipVars, clockVars, packetVars
<1>2. ~ Sending /\ ~ Sending'
  BY <1>1 DEF Sending
<1>3. R!SendMessage(m)
  BY <1>1, <1>2 DEF R!SendMessage, R!Pushed, Pushed, R!clockVars, R!packetVars
<1>4. SeenStep
  BY <1>3 DEF SeenStep, R!Next
<1>5. SeenInv'
  <2>1. seen = View(chip, receiveQueue)
    BY <1>1, SeenAtRest
  <2> QED
    BY <1>1, <2>1 DEF SeenInv
<1>6. BurstInv'
  BY <1>1 DEF InTime, BurstInv
<1> QED
  BY <1>4, <1>5, <1>6

LEMMA SeenNextIncomingMessage ==
  ASSUME InTime, NextIncomingMessage
  PROVE  SeenStep /\ SeenInv' /\ BurstInv'
<1>1. /\ UNCHANGED <<state, script, message, payload, chip, burst, alive, airing, late,
                     transmitQueue, timer, now, waited, nextId, firstId, aired, nextPacket,
                     restarts>>
      /\ state # "Booting" /\ script = << >> /\ receiveQueue # << >>
      /\ lastRead' = Head(receiveQueue) /\ receiveQueue' = Tail(receiveQueue) /\ Seen
  BY DEF NextIncomingMessage, branchVars, chipVars, clockVars, messageVars
<1>2. ~ Sending /\ ~ Sending'
  BY <1>1 DEF Sending
<1>3. seen = View(chip, receiveQueue) /\ seen' = View(chip', receiveQueue')
  BY <1>1, SeenAtRest DEF Seen
<1>4. R!NextIncomingMessage
  BY <1>1, <1>2, <1>3 DEF R!NextIncomingMessage, R!Popped, R!clockVars, R!messageVars, View
<1>5. SeenStep
  BY <1>4 DEF SeenStep, R!Next
<1>6. SeenInv'
  BY <1>1, <1>3 DEF SeenInv
<1>7. BurstInv'
  BY <1>1 DEF InTime, BurstInv
<1> QED
  BY <1>5, <1>6, <1>7

\* While CE is high nothing has been hidden from Radio, once the hub has booted.
LEMMA Visible ==
  ASSUME InTime, state # "Booting", script = << >> \/ chip.ce
  PROVE  /\ seen.chip = chip /\ seen.received = receiveQueue /\ chip \in Chip
         /\ script # << >> =>
              \/ state = "Idle"
              \/ state = "SendNextQueuedMessage" /\ script = Rest(transmit, 1)
              \/ state = "WaitForMessageSent" /\ script = listen
              \/ state = "ReadReceivedMessages" /\ script = Rest(readMessages, 1)
<1>1. TypeOK /\ seen.chip \in Chip /\ chip \in Chip
  BY SeenFacts DEF InTime, TypeOK
<1>2. CASE script \in {<< >>, <<"get_status">>}
  <2>1. seen = View(chip, receiveQueue)
    BY <1>2, SeenAtRest
  <2>2. script # << >> => state = "Idle"
    <3>1. script = <<"get_status">> => At({"get_status"})
      BY DEF At
    <3> QED
      BY <1>1, <1>2, <3>1, RunningOther
  <2> QED
    BY <1>1, <2>1, <2>2 DEF View
<1>3. ASSUME script # << >>, state = "SendNextQueuedMessage"
      PROVE  /\ seen.chip = chip /\ seen.received = receiveQueue
             /\ script = Rest(transmit, 1)
  <2>1. Sending /\ message \in Message
    BY <1>1, <1>3 DEF Sending, TypeOK
  <2>2. PICK k \in 1 .. 9 : script = Rest(transmit, k) /\ chip = TransmitChips(seen.chip, message)[k]
    BY <2>1, SeenInSend
  <2>3. k \in 2 .. 9 => ~ chip.ce
    BY <1>1, <2>1, <2>2, TransmitSteps
  <2>4. k = 1
    BY <1>3, <2>3
  <2> QED
    BY <1>1, <2>1, <2>2, <2>4, SeenInSend, TransmitSteps
<1>4. ASSUME script # << >>, state = "WaitForMessageSent"
      PROVE  /\ seen.chip = chip /\ seen.received = receiveQueue
             /\ script = listen
  <2>1. PICK k \in 1 .. 7 : script = Rest(listen, k) /\ chip = ListenChips(seen.chip)[k]
    BY <1>4, SeenInWait
  <2>2. k \in 2 .. 7 => ~ chip.ce
    BY <1>1, <2>1, ListenSteps
  <2>3. k = 1
    BY <1>4, <2>2
  <2> QED
    BY <1>1, <1>4, <2>1, <2>3, SeenInWait, ListenSteps, ScriptsGoOn
<1>5. ASSUME script # << >>, state = "ReadReceivedMessages"
      PROVE  /\ seen.chip = chip /\ seen.received = receiveQueue
             /\ script = Rest(readMessages, 1)
  <2>1. Head(script) \notin {"clear_interrupts", "get_fifo_status", "power_up",
                             "read_rx_payload", "get_rx_address"}
    <3>1. Head(script) # "clear_interrupts"
      BY <1>1, <1>5, ReadAt, DriverKeepsOff
    <3>2. \A n \in 0 .. Len(seen.chip.rxFifo) : chip # Unread(n)
      BY <1>1, <1>5, UnreadChips
    <3>3. Len(seen.chip.rxFifo) \in 0 .. Len(seen.chip.rxFifo)
      BY <1>1 DEF Chip
    <3>4. Head(script) \notin {"get_fifo_status", "power_up", "read_rx_payload", "get_rx_address"}
      BY <1>5, <3>2, <3>3, ReadAt
    <3> QED
      BY <3>1, <3>4
  <2>2. script \notin LoopScripts
    BY <2>1, LoopSteps DEF LoopScripts
  <2>3. PICK k \in 1 .. 4 : Before(readMessages, k)
    BY <1>1, <1>5, <2>2, Running
  <2>4. k = 1
    BY <2>1, <2>3, ScriptSteps DEF Before
  <2>5. Head(script) = "power_down" /\ script = Rest(readMessages, 1)
    BY <2>3, <2>4, ScriptSteps DEF Before
  <2>6. seen = View(chip, receiveQueue)
    BY <1>5, <2>5, ReadAt
  <2> QED
    BY <2>5, <2>6 DEF View
<1> QED
  BY <1>1, <1>2, <1>3, <1>4, <1>5, Running

\* Only where a transmission may be under way can the chip begin one.
LEMMA WhereTransmits ==
  ASSUME InTime, alive, CanTransmit(chip)
  PROVE  \/ state = "Booting" /\ script # Rest(initTransceiver, 3)
         \/ state = "WaitForMessageSent" /\ script = << >>
<1>1. chip.ce /\ ~ chip.primRx /\ BurstInv /\ TypeOK
  BY DEF CanTransmit, InTime
<1>2. CASE state = "Booting"
  BY <1>1, <1>2 DEF BurstInv
<1>3. CASE state \in {"Idle", "SendNextQueuedMessage", "ReadReceivedMessages"}
  <2>1. seen.chip = chip
    BY <1>1, <1>3, Visible
  <2> QED
    BY <1>1, <1>3, <2>1, SeenFacts
<1>4. CASE state = "WaitForMessageSent"
  <2>1. script # << >> => script = listen
    BY <1>1, <1>4, Visible
  <2> QED
    BY <1>1, <1>4, <2>1 DEF BurstInv
<1> QED
  BY <1>1, <1>2, <1>3, <1>4 DEF TypeOK, R!States

\* A step that leaves everything that is seen as it was.
LEMMA SeenSame ==
  ASSUME InTime,
         UNCHANGED <<state, script, message, payload, chip, transmitQueue, receiveQueue,
                     timer, now, waited, nextId, firstId, aired, nextPacket, lastRead,
                     restarts, seen>>
  PROVE  SeenStep /\ SeenInv'
<1>1. SeenStep
  BY Unnoticed DEF SeenQueue, Sending
<1>2. ReadInv' <=> ReadInv
  BY DEF ReadInv, Unread, Collected
<1>3. TimedOut' <=> TimedOut
  BY DEF TimedOut
<1>4. SeenInv
  BY DEF InTime
<1>5. SeenInv' <=> SeenInv
  BY <1>2, <1>3 DEF SeenInv
<1> QED
  BY <1>1, <1>4, <1>5

LEMMA SeenStartTransmission ==
  ASSUME InTime, StartTransmission
  PROVE  SeenStep /\ SeenInv' /\ BurstInv'
<1>1. /\ UNCHANGED <<state, script, message, payload, chip, transmitQueue, receiveQueue,
                     timer, now, waited, nextId, firstId, aired, nextPacket, lastRead,
                     restarts, seen, alive, late>>
      /\ alive /\ burst = << >> /\ CanTransmit(chip) /\ airing' = 0
      /\ burst' = <<chip.txAddr, Head(chip.txFifo)>>
  BY DEF StartTransmission, branchVars, queueVars, clockVars, messageVars, packetVars
<1>2. SeenStep /\ SeenInv'
  BY <1>1, SeenSame
<1>3. /\ chip.pwrUp /\ ~ chip.primRx /\ ~ chip.maxRt /\ chip.txFifo # << >>
      /\ BurstInv /\ burst' # << >>
  BY <1>1 DEF CanTransmit, InTime
<1>4. \/ state = "Booting" /\ script # Rest(initTransceiver, 3)
      \/ state = "WaitForMessageSent" /\ script = << >>
  BY <1>1, WhereTransmits
<1>5. state = "WaitForMessageSent" => waited = 0 /\ waited <= AirTime
  BY <1>1, <1>3, <1>4, Constants DEF BurstInv
<1>6. BurstInv'
  BY <1>1, <1>3, <1>4, <1>5 DEF BurstInv
<1> QED
  BY <1>2, <1>6

LEMMA SeenFallSilent ==
  ASSUME InTime, FallSilent
  PROVE  SeenStep /\ SeenInv' /\ BurstInv'
<1>1. /\ UNCHANGED <<state, script, message, payload, chip, transmitQueue, receiveQueue,
                     timer, now, waited, nextId, firstId, aired, nextPacket, lastRead,
                     restarts, seen, airing, late>>
      /\ ~ alive' /\ burst' = << >>
  BY DEF FallSilent, branchVars, queueVars, clockVars, messageVars, packetVars
<1>2. SeenStep /\ SeenInv'
  BY <1>1, SeenSame
<1>3. BurstInv'
  BY <1>1 DEF InTime, BurstInv
<1> QED
  BY <1>2, <1>3

\* What a chip that transmits looks like to Radio.
LEMMA UnderWay ==
  ASSUME InTime, burst # << >>
  PROVE  /\ CanTransmit(seen.chip) /\ chip \in Chip
         /\ burst = <<seen.chip.txAddr, Head(seen.chip.txFifo)>>
         /\ seen.received = receiveQueue
         /\ Len(chip.txFifo) = 1 /\ Head(chip.txFifo) = burst[2] /\ burst[1] = chip.txAddr
         /\ \/ /\ state = "Booting" /\ script # Rest(initTransceiver, 3)
               /\ chip.pwrUp /\ seen.chip = [chip EXCEPT !.ce = TRUE]
            \/ /\ state = "WaitForMessageSent" /\ script = << >>
               /\ seen.chip = chip /\ ~ chip.txDs
<1>1. /\ chip.pwrUp /\ ~ chip.primRx /\ ~ chip.maxRt /\ chip.txFifo # << >>
      /\ burst = <<chip.txAddr, Head(chip.txFifo)>>
      /\ \/ state = "Booting" /\ script # Rest(initTransceiver, 3)
         \/ state = "WaitForMessageSent" /\ script = << >> /\ airing = waited /\ waited <= AirTime
      /\ chip \in Chip /\ Len(chip.txFifo) = 1
      /\ state = "WaitForMessageSent" /\ script = << >> => ~ chip.txDs
  BY DEF InTime, BurstInv, TypeOK, AddressInv
<1>2. burst[1] = chip.txAddr /\ burst[2] = Head(chip.txFifo)
  BY <1>1
<1>3. CASE state = "Booting"
  <2>1. seen.chip = [chip EXCEPT !.ce = TRUE] /\ seen.received = receiveQueue
    BY <1>1, <1>3, SeenInBoot
  <2>2. /\ seen.chip.txAddr = chip.txAddr /\ seen.chip.txFifo = chip.txFifo
        /\ CanTransmit(seen.chip)
    BY <1>1, <2>1 DEF CanTransmit, Chip
  <2> QED
    BY <1>1, <1>2, <1>3, <2>1, <2>2
<1>4. CASE state = "WaitForMessageSent"
  <2>1. script = << >>
    BY <1>1, <1>4
  <2>2. seen.chip = chip /\ seen.received = receiveQueue
    BY <1>4, <2>1, Visible
  <2>3. CanTransmit(seen.chip)
    BY <1>1, <1>4, <2>2, SeenFacts DEF CanTransmit
  <2> QED
    BY <1>1, <1>2, <1>4, <2>1, <2>2, <2>3
<1> QED
  BY <1>1, <1>3, <1>4

\* The end of a transmission is what Radio takes for the whole of it.
LEMMA SeenEndTransmission ==
  ASSUME InTime, EndTransmission
  PROVE  SeenStep /\ SeenInv' /\ BurstInv'
<1>1. /\ UNCHANGED <<state, script, message, payload, transmitQueue, receiveQueue,
                     timer, now, waited, nextId, firstId, nextPacket, lastRead,
                     restarts, alive, late, airing>>
      /\ burst # << >> /\ burst' = << >> /\ Seen
      /\ \/ /\ chip.rxAddr = burst[1]
            /\ chip' = [chip EXCEPT !.txDs = TRUE,
                          !.txFifo = IF @ # << >> /\ Head(@) = burst[2] THEN Tail(@) ELSE @]
            /\ aired' = aired \cup {burst}
         \/ chip' = RetriesExhausted(chip) /\ aired' \in {aired, aired \cup {burst}}
  BY DEF EndTransmission, branchVars, queueVars, clockVars, packetVars
<1>2. /\ CanTransmit(seen.chip) /\ chip \in Chip
      /\ burst = <<seen.chip.txAddr, Head(seen.chip.txFifo)>>
      /\ seen.received = receiveQueue
      /\ Len(chip.txFifo) = 1 /\ Head(chip.txFifo) = burst[2] /\ burst[1] = chip.txAddr
      /\ \/ /\ state = "Booting" /\ script # Rest(initTransceiver, 3)
            /\ chip.pwrUp /\ seen.chip = [chip EXCEPT !.ce = TRUE]
         \/ /\ state = "WaitForMessageSent" /\ script = << >>
            /\ seen.chip = chip /\ ~ chip.txDs
  BY <1>1, UnderWay
<1>3. chip.txFifo # << >> /\ chip.txFifo \in Seq(Message) /\ Tail(chip.txFifo) = << >>
  BY <1>2, TailOfOne DEF Chip
<1>4. \/ chip.rxAddr = chip.txAddr /\ chip' = Acknowledged(chip) /\ aired' = aired \cup {burst}
      \/ chip' = RetriesExhausted(chip) /\ aired' \in {aired, aired \cup {burst}}
  BY <1>1, <1>2, <1>3 DEF Acknowledged, Chip
<1>5. /\ seen'.received = receiveQueue /\ seen'.received = seen.received
      /\ \/ state = "Booting" /\ seen'.chip = [chip' EXCEPT !.ce = chip'.pwrUp]
         \/ state = "WaitForMessageSent" /\ seen'.chip = chip'
  BY <1>1, <1>2 DEF Seen, View
<1>6. /\ chip' = Acknowledged(chip) => seen'.chip = Acknowledged(seen.chip)
      /\ chip' = RetriesExhausted(chip) => seen'.chip = RetriesExhausted(seen.chip)
      /\ seen.chip.rxAddr = chip.rxAddr /\ seen.chip.txAddr = chip.txAddr
  <2>1. CASE state = "Booting"
    <3>1. chip.pwrUp = TRUE /\ seen.chip = [chip EXCEPT !.ce = TRUE]
      BY <1>2, <2>1 DEF Chip
    <3>2. ASSUME NEW c, c = Acknowledged(chip) \/ c = RetriesExhausted(chip)
          PROVE  c.pwrUp = TRUE
      BY <1>2, <3>1, <3>2 DEF Acknowledged, RetriesExhausted, Chip
    <3>3. chip' = Acknowledged(chip) \/ chip' = RetriesExhausted(chip) =>
            seen'.chip = [chip' EXCEPT !.ce = TRUE]
      BY <1>5, <2>1, <3>2
    <3>4. /\ [Acknowledged(chip) EXCEPT !.ce = TRUE] = Acknowledged(seen.chip)
          /\ [RetriesExhausted(chip) EXCEPT !.ce = TRUE] = RetriesExhausted(seen.chip)
          /\ seen.chip.rxAddr = chip.rxAddr /\ seen.chip.txAddr = chip.txAddr
      BY <1>2, <3>1 DEF Acknowledged, RetriesExhausted, Chip
    <3> QED
      BY <3>3, <3>4
  <2>2. CASE state = "WaitForMessageSent"
    BY <1>2, <1>5, <2>2
  <2> QED
    BY <1>2, <2>1, <2>2
<1>7. SeenQueue' = SeenQueue
  BY <1>1 DEF SeenQueue, Sending
<1>8. SeenStep
  <2>1. CASE chip.rxAddr = chip.txAddr /\ chip' = Acknowledged(chip) /\ aired' = aired \cup {burst}
    <3>1. R!ChipAcknowledged
      BY <1>1, <1>2, <1>5, <1>6, <1>7, <2>1
         DEF R!ChipAcknowledged, R!CanBeAcknowledged, R!CanTransmit, CanTransmit,
             R!Acknowledged, Acknowledged, R!AiredBy, SeenQueue,
             R!queueVars, R!clockVars, R!packetVars
    <3> QED
      BY <3>1 DEF SeenStep, R!Next, R!Transceiver
  <2>2. CASE chip' = RetriesExhausted(chip) /\ aired' \in {aired, aired \cup {burst}}
    <3>1. R!ChipRetriesExhausted
      BY <1>1, <1>2, <1>5, <1>6, <1>7, <2>2
         DEF R!ChipRetriesExhausted, R!CanTransmit, CanTransmit,
             R!RetriesExhausted, RetriesExhausted, R!AiredBy, SeenQueue,
             R!queueVars, R!clockVars, R!packetVars
    <3> QED
      BY <3>1 DEF SeenStep, R!Next, R!Transceiver
  <2> QED
    BY <1>4, <2>1, <2>2
<1>9. SeenInv'
  BY <1>1, <1>2 DEF SeenInv, Seen
<1>10. BurstInv'
  <2>1. CASE state = "Booting"
    BY <1>1, <1>2, <2>1 DEF BurstInv
  <2>2. CASE state = "WaitForMessageSent"
    <3>1. chip' = Acknowledged(chip) => chip'.txFifo = << >>
      BY <1>2, <1>3 DEF Acknowledged, Chip
    <3>2. chip' = RetriesExhausted(chip) => chip'.maxRt /\ ~ chip'.txDs
      BY <1>2, <2>2 DEF RetriesExhausted, Chip
    <3>3. script' = << >> /\ script' # listen
      BY <1>1, <1>2, <2>2, ScriptsGoOn
    <3> QED
      BY <1>1, <1>4, <2>2, <3>1, <3>2, <3>3 DEF BurstInv, CanTransmit
  <2> QED
    BY <1>2, <2>1, <2>2
<1> QED
  BY <1>8, <1>9, <1>10

LEMMA SeenReceive ==
  ASSUME InTime, NEW p \in Packet, Receive(p)
  PROVE  SeenStep /\ SeenInv' /\ BurstInv'
<1>1. /\ UNCHANGED <<state, script, message, payload, transmitQueue, receiveQueue,
                     timer, now, waited, nextId, firstId, aired, lastRead,
                     restarts, alive, late, airing, burst>>
      /\ alive /\ burst = << >> /\ CanReceive(chip)
      /\ p = nextPacket /\ chip' = Received(chip, p) /\ nextPacket' = nextPacket + 1 /\ Seen
  BY DEF Receive, branchVars, queueVars, clockVars, messageVars
<1>2. chip \in Chip /\ message = message /\ chip.ce /\ chip.pwrUp /\ chip.primRx /\ TypeOK
  BY <1>1 DEF CanReceive, InTime, TypeOK
<1>3. /\ chip' \in Chip /\ chip'.ce /\ chip'.pwrUp /\ chip'.primRx
      /\ [chip' EXCEPT !.ce = TRUE] = chip'
  <2>1. Append(chip.rxFifo, p) \in Seq(Packet)
    BY <1>2 DEF Chip
  <2> QED
    BY <1>1, <1>2, <2>1 DEF Received, Chip
<1>4. seen.chip = chip /\ seen.received = receiveQueue
  <2>1. CASE state = "Booting"
    <3>1. chip = [chip EXCEPT !.ce = chip.pwrUp]
      BY <1>2 DEF Chip
    <3> QED
      BY <2>1, <3>1, SeenInBoot
  <2> QED
    BY <1>2, <2>1, Visible
<1>5. seen' = View(chip', receiveQueue') /\ seen'.chip = chip' /\ seen'.received = receiveQueue
  <2>1. state' = "Booting" => seen' = View([chip' EXCEPT !.ce = chip'.pwrUp], receiveQueue')
    BY <1>1 DEF Seen
  <2>2. [chip' EXCEPT !.ce = chip'.pwrUp] = chip'
    BY <1>3 DEF Chip
  <2>3. state' # "Booting" => seen' = View(chip', receiveQueue')
    BY <1>1, <1>3 DEF Seen
  <2> QED
    BY <1>1, <2>1, <2>2, <2>3 DEF View
<1>6. SeenQueue' = SeenQueue
  BY <1>1 DEF SeenQueue, Sending
<1>7. R!ChipReceive(p)
  BY <1>1, <1>4, <1>5, <1>6
     DEF R!ChipReceive, R!CanReceive, CanReceive, R!Received, Received, SeenQueue,
         R!queueVars, R!clockVars, R!messageVars
<1>8. SeenStep
  BY <1>7 DEF SeenStep, R!Next, R!Transceiver
<1>9. state # "WaitForMessageSent"
  BY <1>2, <1>4, SeenFacts
<1>10. SeenInv'
  <2>1. CASE state = "Booting"
    BY <1>1, <2>1 DEF SeenInv, Seen
  <2>2. CASE state = "Idle" \/ (script = << >> /\ state # "Booting")
    BY <1>1, <1>5, <2>2 DEF SeenInv
  <2>3. CASE state = "SendNextQueuedMessage" /\ script # << >>
    <3>1. script' = Rest(transmit, 1) /\ message' \in Message
      BY <1>1, <1>2, <2>3, Visible DEF TypeOK
    <3>2. TransmitChips(seen'.chip, message')[1] = chip'
      BY <1>3, <1>5, <3>1, FirstChips, Zenon
    <3> QED
      BY <1>1, <1>5, <2>3, <3>1, <3>2 DEF SeenInv
  <2>4. CASE state = "ReadReceivedMessages" /\ script # << >>
    <3>1. script' = Rest(readMessages, 1)
      BY <1>1, <1>2, <2>4, Visible
    <3>2. ReadInv'
      BY <1>5, <3>1 DEF ReadInv
    <3> QED
      BY <1>1, <2>4, <3>2 DEF SeenInv
  <2> QED
    BY <1>2, <1>9, <2>1, <2>2, <2>3, <2>4 DEF TypeOK, R!States
<1>11. BurstInv'
  <2>1. state = "Booting" /\ script = Rest(initTransceiver, 3) => ~ chip.ce
    BY DEF InTime, BurstInv
  <2> QED
    BY <1>1, <1>2, <1>9, <2>1 DEF BurstInv
<1> QED
  BY <1>8, <1>10, <1>11

\* Time passes for Radio as well, and a wait that was over remains so.
LEMMA SeenTick ==
  ASSUME InTime, Tick
  PROVE  SeenStep /\ SeenInv' /\ BurstInv'
<1>1. /\ UNCHANGED <<state, timer, script, message, payload, chip, burst, alive, late,
                     transmitQueue, receiveQueue, nextId, firstId, aired, nextPacket,
                     lastRead, restarts, seen>>
      /\ state = "WaitForMessageSent" => waited < LongestWait
      /\ alive /\ CanTransmit(chip) => burst # << >>
      /\ burst # << >> => airing < AirTime
      /\ now' = (now + 1) % ClockModulus
      /\ waited' = IF state = "WaitForMessageSent" THEN waited + 1 ELSE waited
      /\ airing' = IF burst # << >> THEN airing + 1 ELSE 0
  BY DEF Tick, branchVars, queueVars, messageVars, packetVars
<1>2. BurstInv /\ SeenInv /\ TypeOK
  BY DEF InTime
<1>3. R!Tick
  BY <1>1 DEF R!Tick, Sending, R!queueVars, R!messageVars, R!packetVars
<1>4. SeenStep
  BY <1>3 DEF SeenStep, R!Next
<1>5. state = "WaitForMessageSent" => (TimedOut => TimedOut')
  <2>1. R!MachineInv'
    BY <1>4, RadioStep DEF InTime, SeenStep
  <2>2. R!StateInv'
    BY <2>1 DEF R!MachineInv
  <2>3. ASSUME state = "WaitForMessageSent", TimedOut
        PROVE  TimedOut'
    <3>1. now' = (timer' + waited') % ClockModulus
      BY <1>1, <2>2, <2>3 DEF R!StateInv
    <3>2. waited >= MessageSendTimeoutMs
      BY <2>3, SeenFacts
    <3>3. /\ waited' \in 0 .. LongestWait /\ waited' >= MessageSendTimeoutMs
          /\ timer' \in Proved!ClockValues
      BY <1>1, <1>2, <2>3, <3>2, Constants, SMTT(40) DEF TypeOK, R!ClockValues, Proved!ClockValues
    <3>4. (((timer' + waited') % ClockModulus) - timer') % ClockModulus = waited'
      BY <3>3, Proved!ElapsedIsWaited, ProvedAssumptions
    <3> QED
      BY <3>1, <3>3, <3>4 DEF TimedOut
  <2> QED
    BY <2>3
<1>6. SeenInv'
  <2>1. ReadInv' <=> ReadInv
    BY <1>1 DEF ReadInv, Unread, Collected
  <2> QED
    BY <1>1, <1>2, <1>5, <2>1 DEF SeenInv
<1>7. BurstInv'
  <2>1. ASSUME burst # << >>, state = "WaitForMessageSent", airing = waited
        PROVE  airing' = waited' /\ waited' <= AirTime
    BY <1>1, <1>2, <2>1, Constants DEF TypeOK
  <2> QED
    BY <1>1, <1>2, <2>1 DEF BurstInv, CanTransmit
<1> QED
  BY <1>4, <1>6, <1>7

\* Chips that differ in the level of CE only.
SameButLevel(c, d) == nrf24_power_down(c) = nrf24_power_down(d)

LEMMA OneLevel ==
  ASSUME NEW c \in Chip, NEW d \in Chip, SameButLevel(c, d), NEW level
  PROVE  [c EXCEPT !.ce = level] = [d EXCEPT !.ce = level]
<1>1. /\ [nrf24_power_down(c) EXCEPT !.ce = level] = [c EXCEPT !.ce = level]
      /\ [nrf24_power_down(d) EXCEPT !.ce = level] = [d EXCEPT !.ce = level]
  BY DEF nrf24_power_down, Chip
<1> QED
  BY <1>1 DEF SameButLevel

LEMMA LevelOnly ==
  ASSUME NEW c \in Chip
  PROVE  SameButLevel(c, c) /\ SameButLevel(nrf24_power_down(c), c)
         /\ \A l : SameButLevel([c EXCEPT !.ce = l], c)
BY DEF SameButLevel, nrf24_power_down, Chip

\* What a reset finds in the chip is among the chips that Radio expects.
LEMMA FoundByReset ==
  ASSUME InTime
  PROVE  \E c \in R!PartWay : c \in Chip /\ SameButLevel(chip, c)
<1> DEFINE c == seen.chip
           cleared == nrf24_clear_interrupts(nrf24_power_down(c))
           flushed == nrf24_flush_rx(cleared)
           quiet == Quiet(c)
           own == nrf24_set_rx_address(quiet, OwnAddress)
           receiver == nrf24_set_config(own, TRUE)
           half == nrf24_set_tx_address(quiet, message.address)
           whole == nrf24_set_rx_address(half, message.address)
           transmitter == nrf24_set_config(whole, FALSE)
           loaded == nrf24_write_tx_payload(transmitter, message)
<1>1. c \in Chip /\ chip \in Chip /\ TypeOK
  BY SeenFacts DEF InTime, TypeOK
<1>2. cleared \in Chip /\ flushed \in Chip /\ quiet \in Chip /\ quiet = nrf24_flush_tx(flushed)
  BY <1>1, DriverKeepsChip DEF Quiet
<1>3. c \in R!PartWay
  BY DEF R!PartWay
<1>4. CASE state = "Booting"
  <2>1. c = [chip EXCEPT !.ce = chip.pwrUp]
    BY <1>4, SeenInBoot
  <2>2. SameButLevel(chip, c)
    BY <1>1, <2>1 DEF SameButLevel, nrf24_power_down, Chip
  <2> QED
    BY <1>1, <1>3, <2>2
<1>5. CASE state # "Booting" /\ (script = << >> \/ chip.ce)
  BY <1>1, <1>3, <1>5, Visible, LevelOnly
<1>6. CASE state = "Idle"
  <2>1. script \in {<< >>, <<"get_status">>}
    BY <1>1, <1>6 DEF TypeOK, Scripts
  <2>2. seen = View(chip, receiveQueue)
    BY <1>6, <2>1, SeenAtRest
  <2> QED
    BY <1>1, <1>3, <2>2, LevelOnly DEF View
<1>7. CASE state = "SendNextQueuedMessage" /\ script # << >>
  <2>1. Sending /\ message \in Message /\ transmitQueue \in Seq(Message)
    BY <1>1, <1>7 DEF Sending, TypeOK
  <2>2. PICK k \in 1 .. 9 : script = Rest(transmit, k) /\ chip = TransmitChips(c, message)[k]
    BY <2>1, SeenInSend
  <2>3. Head(<<message>> \o transmitQueue) = message
    BY <2>1, InFrontOf
  <2>4. {c, cleared, flushed, quiet, half, whole, transmitter, loaded} \subseteq R!PartWay
    BY <1>7, <2>1, <2>3, DriverSeen DEF R!PartWay, Quiet
  <2>5. k = 1 => chip = c
    BY <1>1, <2>1, <2>2, TransmitSteps
  <2>6. /\ k = 2 => chip = nrf24_power_down(c)
        /\ k = 3 => chip = cleared
        /\ k = 4 => chip = flushed
        /\ k = 5 => chip = quiet
        /\ k = 6 => chip = half
        /\ k = 7 => chip = whole
        /\ k = 8 => chip = transmitter
        /\ k = 9 => chip = loaded
    <3>1. \A i \in 1 .. 5 : TransmitChips(c, message)[i] = QuietChips(c)[i]
      BY <1>1, <2>1, TransmitPlaces
    <3>2. k \in 1 .. 5 => chip = QuietChips(c)[k]
      BY <2>2, <3>1
    <3>3. /\ QuietChips(c)[2] = nrf24_power_down(c) /\ QuietChips(c)[3] = cleared
          /\ QuietChips(c)[4] = flushed /\ QuietChips(c)[5] = quiet
      BY <1>1, <1>2, QuietPlaces
    <3>4. /\ TransmitChips(c, message)[6] = half /\ TransmitChips(c, message)[7] = whole
          /\ TransmitChips(c, message)[8] = transmitter /\ TransmitChips(c, message)[9] = loaded
      BY <1>1, <1>2, <2>1, TransmitPlaces
    <3> HIDE DEF c, cleared, flushed, quiet, half, whole, transmitter, loaded
    <3> QED
      BY <2>2, <3>2, <3>3, <3>4
  <2>7. \/ SameButLevel(chip, c)
        \/ chip \in {cleared, flushed, quiet, half, whole, transmitter, loaded}
    <3>1. SameButLevel(c, c) /\ SameButLevel(nrf24_power_down(c), c)
      BY <1>1, LevelOnly
    <3> HIDE DEF c, cleared, flushed, quiet, half, whole, transmitter, loaded
    <3> QED
      BY <2>5, <2>6, <3>1
  <2> QED
    BY <1>1, <1>3, <2>4, <2>7, LevelOnly
<1>8. CASE state = "WaitForMessageSent" /\ script # << >>
  <2>1. PICK k \in 1 .. 7 : script = Rest(listen, k) /\ chip = ListenChips(c)[k]
    BY <1>8, SeenInWait
  <2>2. IrqAsserted(c) \/ TimedOut
    BY <1>8, SeenInWait
  <2>3. {c, cleared, flushed, quiet, own, receiver} \subseteq R!PartWay
    BY <1>8, <2>2, DriverSeen DEF R!PartWay, Quiet
  <2>4. k = 1 => chip = c
    BY <1>1, <2>1, ListenSteps
  <2>5. /\ k = 2 => chip = nrf24_power_down(c)
        /\ k = 3 => chip = cleared
        /\ k = 4 => chip = flushed
        /\ k = 5 => chip = quiet
        /\ k = 6 => chip = own
        /\ k = 7 => chip = receiver
    <3>1. \A i \in 1 .. 5 : ListenChips(c)[i] = QuietChips(c)[i]
      BY <1>1, ListenPlaces
    <3>2. k \in 1 .. 5 => chip = QuietChips(c)[k]
      BY <2>1, <3>1
    <3>3. /\ QuietChips(c)[2] = nrf24_power_down(c) /\ QuietChips(c)[3] = cleared
          /\ QuietChips(c)[4] = flushed /\ QuietChips(c)[5] = quiet
      BY <1>1, <1>2, QuietPlaces
    <3>4. ListenChips(c)[6] = own /\ ListenChips(c)[7] = receiver
      BY <1>1, <1>2, ListenPlaces
    <3> HIDE DEF c, cleared, flushed, quiet, own, receiver
    <3> QED
      BY <2>1, <3>2, <3>3, <3>4
  <2>6. \/ SameButLevel(chip, c)
        \/ chip \in {cleared, flushed, quiet, own, receiver}
    <3>1. SameButLevel(c, c) /\ SameButLevel(nrf24_power_down(c), c)
      BY <1>1, LevelOnly
    <3> HIDE DEF c, cleared, flushed, quiet, own, receiver
    <3> QED
      BY <2>4, <2>5, <3>1
  <2> QED
    BY <1>1, <1>3, <2>3, <2>6, LevelOnly
<1>9. CASE state = "ReadReceivedMessages" /\ script # << >>
  <2>1. ASSUME NEW n \in 0 .. Len(c.rxFifo), chip = Unread(n)
        PROVE  chip \in R!PartWay
    <3>1. n + 1 \in 1 .. Len(c.rxFifo) + 1
      BY <1>1 DEF Chip
    <3>2. cleared.rxFifo = c.rxFifo
      BY <1>1 DEF nrf24_clear_interrupts, nrf24_power_down, Chip
    <3>3. chip = [cleared EXCEPT !.rxFifo = SubSeq(@, n + 1, Len(@))]
      BY <2>1 DEF Unread
    <3>4. chip \in {[cleared EXCEPT !.rxFifo = SubSeq(@, k, Len(@))] :
                      k \in 1 .. Len(c.rxFifo) + 1}
      BY <3>1, <3>3
    <3> QED
      BY <1>9, <3>4, DriverSeen DEF R!PartWay
  <2>2. Len(c.rxFifo) \in 0 .. Len(c.rxFifo)
    BY <1>1 DEF Chip
  <2>3. Head(script) \in {"get_fifo_status", "power_up", "read_rx_payload", "get_rx_address"}
          => chip \in R!PartWay
    BY <1>9, <2>1, <2>2, ReadAt
  <2>4. Head(script) = "clear_interrupts" => SameButLevel(chip, c)
    BY <1>1, <1>9, ReadAt, LevelOnly
  <2>5. Head(script) = "power_down" => SameButLevel(chip, c)
    BY <1>1, <1>9, ReadAt, LevelOnly DEF View
  <2>6. Head(script) \in {"power_down", "clear_interrupts", "get_fifo_status", "power_up",
                          "read_rx_payload", "get_rx_address"}
    <3>1. CASE script \in LoopScripts
      BY <3>1, LoopSteps DEF LoopScripts
    <3>2. CASE \E k \in 1 .. 4 : Before(readMessages, k)
      BY <3>2, ScriptSteps DEF Before
    <3> QED
      BY <1>1, <1>9, <3>1, <3>2, Running
  <2> QED
    BY <1>1, <1>3, <2>3, <2>4, <2>5, <2>6, LevelOnly
<1> QED
  BY <1>1, <1>4, <1>5, <1>6, <1>7, <1>8, <1>9 DEF TypeOK, R!States

LEMMA SeenRestart ==
  ASSUME InTime, Restart
  PROVE  SeenStep /\ SeenInv' /\ BurstInv'
<1>1. /\ restarts < MaxRestarts /\ restarts' = restarts + 1
      /\ state' = "Booting" /\ script' = << >>
      /\ \/ (\E level \in BOOLEAN : chip' = [chip EXCEPT !.ce = level]) /\ burst' = burst
         \/ chip' = PowerOn /\ burst' = << >>
      /\ transmitQueue' = << >> /\ receiveQueue' = << >>
      /\ timer' = 0 /\ now' = 0 /\ waited' = 0 /\ firstId' = nextId
      /\ UNCHANGED <<nextId, aired, nextPacket, lastRead>> /\ Seen
  BY DEF Restart, packetVars
<1>2. /\ seen' = View([chip' EXCEPT !.ce = chip'.pwrUp], receiveQueue')
      /\ seen'.chip = [chip' EXCEPT !.ce = chip'.pwrUp] /\ seen'.received = << >>
  BY <1>1 DEF Seen, View
<1>3. chip \in Chip /\ BurstInv
  BY DEF InTime, TypeOK
<1>4. \/ \E d \in R!PartWay, level \in BOOLEAN : seen'.chip = [d EXCEPT !.ce = level]
      \/ seen'.chip = R!PowerOn
  <2>1. ASSUME NEW level \in BOOLEAN, chip' = [chip EXCEPT !.ce = level]
        PROVE  \E d \in R!PartWay, l \in BOOLEAN : seen'.chip = [d EXCEPT !.ce = l]
    <3>1. PICK d \in R!PartWay : d \in Chip /\ SameButLevel(chip, d)
      BY FoundByReset
    <3>2. chip.pwrUp \in BOOLEAN /\ seen'.chip = [chip EXCEPT !.ce = chip.pwrUp]
      BY <1>2, <1>3, <2>1 DEF Chip
    <3>3. [chip EXCEPT !.ce = chip.pwrUp] = [d EXCEPT !.ce = chip.pwrUp]
      BY <1>3, <3>1, OneLevel
    <3> QED
      BY <3>1, <3>2, <3>3
  <2>2. ASSUME chip' = PowerOn PROVE seen'.chip = R!PowerOn
    BY <1>2, <2>2 DEF PowerOn, R!PowerOn
  <2> QED
    BY <1>1, <2>1, <2>2
<1>5. R!Restart
  <2>1. ~ Sending'
    BY <1>1 DEF Sending
  <2> DEFINE found == {[d EXCEPT !.ce = level] : d \in R!PartWay, level \in BOOLEAN}
  <2>2. seen'.chip \in found \cup {R!PowerOn}
    <3>1. ASSUME NEW d \in R!PartWay, NEW l \in BOOLEAN, seen'.chip = [d EXCEPT !.ce = l]
          PROVE  seen'.chip \in found
      BY <3>1
    <3> HIDE DEF found
    <3> QED
      BY <1>4, <3>1
  <2> QED
    BY <1>1, <1>2, <2>1, <2>2 DEF R!Restart, R!packetVars
<1>6. SeenStep
  BY <1>5 DEF SeenStep, R!Next
<1>7. SeenInv'
  BY <1>1, <1>2 DEF SeenInv
<1>8. BurstInv'
  <2>1. << >> # Rest(initTransceiver, 3)
    BY ScriptsGoOn
  <2>2. ASSUME NEW level \in BOOLEAN, chip' = [chip EXCEPT !.ce = level]
        PROVE  /\ chip'.pwrUp = chip.pwrUp /\ chip'.primRx = chip.primRx
               /\ chip'.maxRt = chip.maxRt /\ chip'.txFifo = chip.txFifo
               /\ chip'.txAddr = chip.txAddr
    BY <1>3, <2>2 DEF Chip
  <2>3. burst' # << >> =>
          /\ chip'.pwrUp /\ ~ chip'.primRx /\ ~ chip'.maxRt /\ chip'.txFifo # << >>
          /\ burst' = <<chip'.txAddr, Head(chip'.txFifo)>>
    BY <1>1, <1>3, <2>2 DEF BurstInv
  <2> QED
    BY <1>1, <2>1, <2>3 DEF BurstInv
<1> QED
  BY <1>6, <1>7, <1>8

\* Every step.
LEMMA SeenNext ==
  ASSUME InTime, Next, ~ late'
  PROVE  SeenStep /\ SeenInv' /\ BurstInv'
<1>1. CASE Task
  BY <1>1, SeenBranch, SeenAccess, SeenGetStatus, SeenGetFifoStatus, SeenReadPayload,
     SeenGetRxAddress DEF Task
<1>2. CASE Environment
  BY <1>2, SeenStartTransmission, SeenEndTransmission, SeenFallSilent, SeenTick,
     SeenRestart, SeenReceive DEF Environment
<1> QED
  BY <1>1, <1>2, SeenSendMessage, SeenNextIncomingMessage DEF Next
-----------------------------------------------------------------------------
(* The theorems.                                                           *)

\* A transmission that has outlived the level of CE is not forgotten.
LEMMA LateForGood ==
  ASSUME [Next]_vars, ~ late'
  PROVE  ~ late
<1>1. CASE UNCHANGED vars
  BY <1>1 DEF vars, chipVars
<1>2. CASE Task
  BY <1>2 DEF Task, Branch, Access, GetStatus, GetFifoStatus, ReadPayload, GetRxAddress, chipVars
<1>3. CASE (\E m \in Message : SendMessage(m)) \/ NextIncomingMessage
  BY <1>3 DEF SendMessage, NextIncomingMessage, chipVars
<1>4. CASE Environment
  BY <1>4 DEF Environment, StartTransmission, EndTransmission, FallSilent, Tick, Restart,
     Receive, chipVars
<1> QED
  BY <1>1, <1>2, <1>3, <1>4 DEF Next

LEMMA InvInTime ==
  ASSUME Inv, ~ late
  PROVE  InTime
BY DEF Inv, InTime

\* In time, every step is one of Radio, or none.
LEMMA InvSeen ==
  ASSUME Inv, [Next]_vars, ~ late'
  PROVE  SeenStep /\ SeenInv' /\ BurstInv' /\ R!MachineInv'
<1>1. InTime
  BY LateForGood, InvInTime
<1>2. CASE Next
  <2>1. SeenStep /\ SeenInv' /\ BurstInv'
    BY <1>1, <1>2, SeenNext
  <2>2. R!MachineInv'
    BY <1>1, <2>1, RadioStep DEF InTime, SeenStep
  <2> QED
    BY <2>1, <2>2
<1>3. CASE UNCHANGED vars
  <2>1. UNCHANGED <<state, script, message, payload, chip, transmitQueue, receiveQueue,
                    timer, now, waited, nextId, firstId, aired, nextPacket, lastRead,
                    restarts, seen, burst, alive, airing>>
    BY <1>3 DEF vars, branchVars, chipVars, queueVars, clockVars, messageVars, packetVars
  <2>2. SeenStep /\ SeenInv'
    BY <1>1, <2>1, SeenSame
  <2>3. BurstInv'
    BY <1>1, <2>1 DEF InTime, BurstInv
  <2>4. R!MachineInv'
    BY <1>1, <2>2, RadioStep DEF InTime, SeenStep
  <2> QED
    BY <2>2, <2>3, <2>4
<1> QED
  BY <1>2, <1>3

LEMMA InvStep ==
  ASSUME Inv, [Next]_vars
  PROVE  Inv'
<1>1. TypeOK' /\ AddressInv'
  BY TypeStep, AddressStep DEF Inv
<1>2. ~ late' => SeenInv' /\ BurstInv' /\ R!MachineInv'
  BY InvSeen
<1> QED
  BY <1>1, <1>2 DEF Inv

LEMMA InitSeen ==
  ASSUME Init
  PROVE  R!Init
<1>1. seen.chip = PowerOn /\ seen.received = << >>
  BY DEF Init, View
<1>2. ~ Sending
  BY DEF Init, Sending
<1> QED
  BY <1>1, <1>2, DriverSeen DEF Init, R!Init

\* After a power-on CE is low, and the chip powered down.
LEMMA PowerOnLow == [PowerOn EXCEPT !.ce = PowerOn.pwrUp] = PowerOn
<1>1. PowerOn.pwrUp = FALSE /\ PowerOn.ce = FALSE /\ PowerOn \in Chip
  BY Constants DEF PowerOn, Chip
<1> QED
  BY <1>1 DEF Chip

LEMMA InvInit ==
  ASSUME Init
  PROVE  Inv
<1>1. TypeOK /\ AddressInv
  BY AddressInit
<1>2. R!MachineInv
  BY InitSeen, RadioInit
<1>3. SeenInv
  <2>1. [chip EXCEPT !.ce = chip.pwrUp] = chip
    BY PowerOnLow DEF Init
  <2> QED
    BY <2>1 DEF Init, SeenInv
<1>4. BurstInv
  <2>1. << >> # Rest(initTransceiver, 3)
    BY ScriptsGoOn
  <2> QED
    BY <2>1 DEF Init, BurstInv
<1> QED
  BY <1>1, <1>2, <1>3, <1>4 DEF Inv

(***************************************************************************)
(* The invariant: while no transmission has outlived the level of CE, chip *)
(* and queue follow from what Radio sees and from how far the branch is.   *)
(***************************************************************************)
THEOREM InvHolds == Spec => []Inv
<1>1. Init => Inv
  BY InvInit
<1>2. Inv /\ [Next]_vars => Inv'
  BY InvStep
<1> QED
  BY <1>1, <1>2, PTL DEF Spec

(***************************************************************************)
(* A branch of runStateMachine() may be taken as one step: the machine one *)
(* access at a time implements Radio, until a transmission is late.        *)
(***************************************************************************)
THEOREM RefinesRadio == Spec => ImplementsRadio
<1>1. Init => R!Init
  BY InitSeen
<1>2. Inv /\ [Next]_vars => [R!Next \/ late']_(R!vars)
  <2>1. ASSUME Inv, [Next]_vars PROVE [R!Next \/ late']_(R!vars)
    BY <2>1, InvSeen DEF SeenStep
  <2> QED
    BY <2>1
<1> QED
  BY <1>1, <1>2, InvHolds, PTL DEF Spec, ImplementsRadio

(***************************************************************************)
(* When a branch other than the boot lowers CE, nothing is under way, for  *)
(* every timeout that is longer than the chip takes, every clock, and      *)
(* wherever a reset comes: later branches and the chip cannot overlap.     *)
(***************************************************************************)
THEOREM OnlyBootIsLate == Spec => OnlyBootFindsOneUnderWay
<1>1. Inv /\ [Next]_vars => [late' /\ ~ late => state = "Booting"]_vars
  <2>1. ASSUME Inv, Next, late', ~ late PROVE state = "Booting"
    <3>1. InTime
      BY <2>1, InvInTime
    <3>2. Access /\ Head(script) = "power_down" /\ burst # << >>
      BY <2>1
         DEF Next, Task, Branch, Access, GetStatus, GetFifoStatus, ReadPayload, GetRxAddress,
             SendMessage, NextIncomingMessage, Environment, StartTransmission,
             EndTransmission, FallSilent, Tick, Restart, Receive, chipVars
    <3>3. script # << >>
      BY <3>2 DEF Access, At
    <3> QED
      BY <3>1, <3>2, <3>3 DEF InTime, BurstInv
  <2> QED
    BY <2>1
<1> QED
  BY <1>1, InvHolds, PTL DEF Spec, OnlyBootFindsOneUnderWay
=============================================================================
