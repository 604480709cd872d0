------------------------------- MODULE Nrf24Spi -------------------------------
(***************************************************************************)
(* The driver byte by byte: every function of nrf24.c as what it does to   *)
(* the CSN pin and to the SPI bus, the chip's decoder at the other end,    *)
(* and a reset of the processor between any two bytes.  The caller is any  *)
(* code that may call any function with any arguments.                     *)
(*                                                                         *)
(* A byte of data is the set of the positions of its bits that are one; a  *)
(* command is its number.  CE takes no part here; see Nrf24Registers.      *)
(***************************************************************************)
EXTENDS Integers, Sequences, FiniteSetsExt

CONSTANTS
  PayloadSize,  \* the greatest length of a payload: 32
  Values,       \* bound: the register images that are written
  Lengths,      \* bound: the lengths of buffers that are passed
  MaxCalls, MaxRestarts  \* bounds

ASSUME PayloadSizeAssumption == PayloadSize \in Nat \ {0}
ASSUME ValuesAssumption == Values \subseteq SUBSET (0 .. 7)
ASSUME LengthsAssumption == Lengths \subseteq 0 .. 255

VARIABLES
  call,     \* the function that was called last, with its arguments
  wire,     \* what it still does: levels of CSN, and bytes
  buffer,   \* the bytes it has read
  csn,      \* level of the CSN pin
  command,  \* the command the chip carries out, or NoCommand
  count,    \* bytes of data since the command
  reg,      \* the registers, each a sequence of bytes
  shifted,  \* the payload that is being written
  txFifo, rxFifo,
  before,   \* history: the chip when the function was called
  calls, restarts

host == <<call, wire, buffer>>
decoder == <<command, count, shifted>>
memory == <<reg, txFifo, rxFifo>>
vars == <<host, csn, decoder, memory, before, calls, restarts>>

NoCommand == -1
-----------------------------------------------------------------------------
(* The constants of nrf24.h: addresses, masks of fields, commands.         *)

Register == 0 .. 31
NRF24_REG_CONFIG == 0
NRF24_REG_RF_CH == 5
NRF24_REG_RF_SETUP == 6
NRF24_REG_STATUS == 7
NRF24_REG_RX_ADDR_P0 == 10
NRF24_REG_TX_ADDR == 16
NRF24_REG_RX_PW_P0 == 17

NRF24_CONFIG == [PWR_UP |-> {1}, PRIM_RX |-> {0}]
NRF24_STATUS == [RX_DR |-> {6}, TX_DS |-> {5}, MAX_RT |-> {4}]
NRF24_RF_SETUP == [RF_DR |-> {3}, RF_PWR_MASK |-> {1, 2}, LNA_HCURR |-> {0}]
NRF24_RX_PW_P0_MASK == 0 .. 5

NRF24_CMD_W_REGISTER == 32
NRF24_CMD_R_RX_PAYLOAD == 97
NRF24_CMD_W_TX_PAYLOAD == 160
NRF24_CMD_FLUSH_TX == 225
NRF24_CMD_FLUSH_RX == 226

(* The unions of nrf24.h: the field of each bit, from bit 0 upwards.       *)

nrf24_config_t ==
  <<"PRIM_RX", "PWR_UP", "CRCO", "EN_CRC", "MASK_MAX_RT", "MASK_TX_DS", "MASK_RX_DR", "reserved">>

nrf24_status_t ==
  <<"TX_FULL", "RX_P_NO", "RX_P_NO", "RX_P_NO", "MAX_RT", "TX_DS", "RX_DR", "reserved">>

\* The bits of some fields of a union.
Bits(union, fields) == {i - 1 : i \in {i \in DOMAIN union : union[i] \in fields}}

(* The registers that are written and read whole, by the place of their    *)
(* functions: nrf24_set_rf_setup and so on.                                *)

RadioSettings == {NRF24_REG_RF_SETUP, 4, NRF24_REG_RF_CH, NRF24_REG_STATUS}
ReadOnly == {8, 9, 23}
PacketSettings == {28, 29}
LinkSettings == {NRF24_REG_CONFIG, 1, 2, 3}

Settable == RadioSettings \cup PacketSettings \cup LinkSettings
-----------------------------------------------------------------------------
(* What the functions do on the wire.                                      *)

High == <<"csn", TRUE>>
Low == <<"csn", FALSE>>
Command(number) == <<"command", number>>
Data(byte) == <<"data", byte>>
Nop == <<"read">>

\* The byte just read, with some bits set and some cleared, is written back.
WriteBack(r, ones, zeros) == <<"write_back", r, ones, zeros>>

Transaction(number, data) == <<Low, Command(number)>> \o data \o <<High>>

\* Variant: the address is cut to the wrong number of bits.
WriteCommandTooNarrow(r) == NRF24_CMD_W_REGISTER + (r % 16)

WriteCommand(r) == NRF24_CMD_W_REGISTER + (r % 32)

nrf24_read_register(r) == Transaction(r % 32, <<Nop>>)
nrf24_write_register(r, value) == Transaction(WriteCommand(r), <<Data(value)>>)
nrf24_read_multi_byte_register(r, n) == Transaction(r % 32, [i \in 1 .. n |-> Nop])
nrf24_write_multi_byte_register(r, bytes) ==
  Transaction(WriteCommand(r), [i \in DOMAIN bytes |-> Data(bytes[i])])
nrf24_send_command(number) == Transaction(number, << >>)

\* The first n bytes of the caller's buffer.
Passed(n) == [i \in 1 .. n |-> {i % 8}]

\* Variant: the length is limited for the first two pipes only.
LengthUnlimited(pipe, n) == IF n > 5 THEN 5 ELSE n

\* Pipes 2 to 5 have only one byte of their own.
AddressLength(pipe, n) == IF pipe >= 2 THEN 1 ELSE IF n > 5 THEN 5 ELSE n

nrf24_set_rx_address(pipe, n) ==
  IF pipe > 5 THEN << >>
  ELSE nrf24_write_multi_byte_register(NRF24_REG_RX_ADDR_P0 + pipe,
                                       Passed(AddressLength(pipe, n)))

nrf24_get_rx_address(pipe, n) ==
  IF pipe > 5 THEN << >>
  ELSE nrf24_read_multi_byte_register(NRF24_REG_RX_ADDR_P0 + pipe, AddressLength(pipe, n))

nrf24_set_tx_address(n) ==
  nrf24_write_multi_byte_register(NRF24_REG_TX_ADDR, Passed(AddressLength(0, n)))

nrf24_get_tx_address(n) ==
  nrf24_read_multi_byte_register(NRF24_REG_TX_ADDR, AddressLength(0, n))

nrf24_get_rx_payload_len(pipe) ==
  IF pipe > 5 THEN << >> ELSE nrf24_read_register(NRF24_REG_RX_PW_P0 + pipe)

\* What the caller gets: the reserved bits of a payload length are masked.
Value(c, read) == IF c.fn = "get_rx_payload_len" /\ read # << >>
                  THEN <<read[1] \cap NRF24_RX_PW_P0_MASK>> ELSE read

nrf24_set_rx_payload_len(pipe, value) ==
  IF pipe > 5 THEN << >>
  ELSE nrf24_write_register(NRF24_REG_RX_PW_P0 + pipe, value \cap NRF24_RX_PW_P0_MASK)

\* (data_rate << 3) | (output_power << 1) | lna_gain
nrf24_setup_rf(data_rate, output_power, lna_gain) ==
  nrf24_write_register(NRF24_REG_RF_SETUP,
    {b + 3 : b \in data_rate} \cup {b + 1 : b \in output_power} \cup lna_gain)

\* The eighth bit of rf_ch is not initialized.
nrf24_set_rf_channel(channel, garbage) ==
  nrf24_write_register(NRF24_REG_RF_CH, (channel \cap 0 .. 6) \cup (garbage \cap {7}))

PayloadLength(n) == IF n > PayloadSize THEN PayloadSize ELSE n

nrf24_write_tx_payload(n) ==
  Transaction(NRF24_CMD_W_TX_PAYLOAD, [i \in 1 .. PayloadLength(n) |-> Data({i % 8})])

nrf24_read_rx_payload(n) ==
  Transaction(NRF24_CMD_R_RX_PAYLOAD, [i \in 1 .. PayloadLength(n) |-> Nop])

nrf24_clear_interrupts ==
  nrf24_read_register(NRF24_REG_STATUS)
    \o <<WriteBack(NRF24_REG_STATUS, Bits(nrf24_status_t, {"RX_DR", "TX_DS", "MAX_RT"}), {})>>

\* config is read, two fields are set, and it is written back.
PowerUpAs(ones, zeros) ==
  nrf24_read_register(NRF24_REG_CONFIG)
    \o <<WriteBack(NRF24_REG_CONFIG, Bits(nrf24_config_t, ones), Bits(nrf24_config_t, zeros))>>

nrf24_power_up_rx == PowerUpAs({"PRIM_RX", "PWR_UP"}, {})

\* 32 is bit 5.
nrf24_setup_primary_receiver == nrf24_power_up_rx \o nrf24_set_rx_payload_len(0, {5})

nrf24_transmit_data(n) ==
  nrf24_clear_interrupts \o PowerUpAs({"PWR_UP"}, {"PRIM_RX"})
    \o nrf24_send_command(NRF24_CMD_FLUSH_TX) \o nrf24_write_tx_payload(n)

\* Variant: the pin is not driven high first.
initTransceiverLow == <<Low>>

\* The pin goes high in Radio::initTransceiver, and low in nrf24_init.
initTransceiver == <<High, Low>>

\* The calls, with their arguments.
Call ==
  [fn : {"set_rx_address", "get_rx_address"}, pipe : 0 .. 6, n : Lengths]
  \cup [fn : {"set_tx_address", "get_tx_address", "write_tx_payload", "read_rx_payload",
              "transmit_data"}, n : Lengths]
  \cup [fn : {"set"}, r : Settable, value : Values]
  \cup [fn : {"get"}, r : Settable \cup ReadOnly]
  \cup [fn : {"set_rx_payload_len"}, pipe : 0 .. 6, value : Values]
  \cup [fn : {"get_rx_payload_len"}, pipe : 0 .. 6]
  \cup [fn : {"setup_rf"}, rate : {{}, {0}}, power : SUBSET {0, 1}, gain : {{}, {0}}]
  \cup [fn : {"set_rf_channel"}, value : Values, garbage : {{}, {7}}]
  \cup [fn : {"clear_interrupts", "setup_primary_receiver", "power_up_rx",
              "flush_rx", "flush_tx"}]

Steps(c) ==
  CASE c.fn = "set_rx_address" -> nrf24_set_rx_address(c.pipe, c.n)
    [] c.fn = "get_rx_address" -> nrf24_get_rx_address(c.pipe, c.n)
    [] c.fn = "set_tx_address" -> nrf24_set_tx_address(c.n)
    [] c.fn = "get_tx_address" -> nrf24_get_tx_address(c.n)
    [] c.fn = "set" -> nrf24_write_register(c.r, c.value)
    [] c.fn = "get" -> nrf24_read_register(c.r)
    [] c.fn = "set_rx_payload_len" -> nrf24_set_rx_payload_len(c.pipe, c.value)
    [] c.fn = "get_rx_payload_len" -> nrf24_get_rx_payload_len(c.pipe)
    [] c.fn = "setup_rf" -> nrf24_setup_rf(c.rate, c.power, c.gain)
    [] c.fn = "set_rf_channel" -> nrf24_set_rf_channel(c.value, c.garbage)
    [] c.fn = "write_tx_payload" -> nrf24_write_tx_payload(c.n)
    [] c.fn = "read_rx_payload" -> nrf24_read_rx_payload(c.n)
    [] c.fn = "transmit_data" -> nrf24_transmit_data(c.n)
    [] c.fn = "clear_interrupts" -> nrf24_clear_interrupts
    [] c.fn = "setup_primary_receiver" -> nrf24_setup_primary_receiver
    [] c.fn = "power_up_rx" -> nrf24_power_up_rx
    [] c.fn = "flush_rx" -> nrf24_send_command(NRF24_CMD_FLUSH_RX)
    [] c.fn = "flush_tx" -> nrf24_send_command(NRF24_CMD_FLUSH_TX)
    [] c.fn = "init" -> initTransceiver
-----------------------------------------------------------------------------
(* The chip's end of the bus.                                              *)

Width(r) == IF r \in {NRF24_REG_RX_ADDR_P0, NRF24_REG_RX_ADDR_P0 + 1, NRF24_REG_TX_ADDR}
            THEN 5 ELSE 1

Reads(number) == number \in 0 .. 31
Writes(number) == number \in 32 .. 63
Addressed(number) == number % 32

\* The bytes of data that a command has place for, or gives.
Capacity(number) ==
  CASE Reads(number) \/ Writes(number) -> Width(Addressed(number))
    [] number \in {NRF24_CMD_W_TX_PAYLOAD, NRF24_CMD_R_RX_PAYLOAD} -> PayloadSize
    [] OTHER -> 0

\* The chip has a place for another byte of data, or has one to give.
Room == count < Capacity(command)

\* A byte in a register: a one clears a flag of STATUS.
Stored(r, old, byte) ==
  IF r = NRF24_REG_STATUS THEN old \ (byte \cap {4, 5, 6}) ELSE byte

\* CSN falls and the chip expects a command; it rises and a payload is complete.
SetCsn(level) ==
  /\ csn' = level
  /\ IF csn = level THEN UNCHANGED <<decoder, memory>>
     ELSE /\ command' = NoCommand /\ count' = 0 /\ shifted' = << >>
          /\ UNCHANGED reg
          /\ txFifo' = IF level /\ shifted # << >> THEN Append(txFifo, shifted) ELSE txFifo
          /\ rxFifo' = IF level /\ command = NRF24_CMD_R_RX_PAYLOAD /\ count > 0 /\ rxFifo # << >>
                       THEN Tail(rxFifo) ELSE rxFifo

\* The first byte after CSN fell is the command, whatever was meant by it.
TakeCommand(number) ==
  /\ command' = number
  /\ txFifo' = IF number = NRF24_CMD_FLUSH_TX THEN << >> ELSE txFifo
  /\ rxFifo' = IF number = NRF24_CMD_FLUSH_RX THEN << >> ELSE rxFifo
  /\ UNCHANGED <<csn, count, shifted, reg>>

TakeData(byte) ==
  /\ count' = count + 1
  /\ reg' = IF Writes(command) /\ Room
            THEN [reg EXCEPT ![Addressed(command)][count + 1] =
                    Stored(Addressed(command), @, byte)]
            ELSE reg
  /\ shifted' = IF command = NRF24_CMD_W_TX_PAYLOAD THEN Append(shifted, byte) ELSE shifted
  /\ UNCHANGED <<csn, command, txFifo, rxFifo>>

\* What the chip puts on the bus meanwhile; beyond its data, nothing that counts.
Given ==
  CASE Reads(command) /\ Room -> reg[Addressed(command)][count + 1]
    [] command = NRF24_CMD_R_RX_PAYLOAD /\ Room /\ rxFifo # << >> -> Head(rxFifo)[count + 1]
    [] OTHER -> {}
-----------------------------------------------------------------------------
(* The steps of a function.                                                *)

At(kind) == wire # << >> /\ Head(wire)[1] = kind
Unrecorded == UNCHANGED <<call, before, calls, restarts>>

set_csn ==
  /\ At("csn")
  /\ SetCsn(Head(wire)[2])
  /\ wire' = Tail(wire)
  /\ UNCHANGED buffer /\ Unrecorded

\* The number of a byte of data, should the chip take it for a command, and back.
Number(byte) == FoldSet(LAMBDA b, sum : sum + 2 ^ b, 0, byte)

BitsOf(number) == {b \in 0 .. 7 : (number \div 2 ^ b) % 2 = 1}

spi_exchange ==
  /\ At("command") \/ At("data") \/ At("read")
  /\ LET number == CASE At("command") -> Head(wire)[2]
                     [] At("data") -> Number(Head(wire)[2])
                     [] OTHER -> 255
         byte == CASE At("command") -> BitsOf(Head(wire)[2])
                   [] At("data") -> Head(wire)[2]
                   [] OTHER -> 0 .. 7
     IN  IF csn THEN UNCHANGED <<csn, decoder, memory>>
         ELSE IF command = NoCommand THEN TakeCommand(number) ELSE TakeData(byte)
  /\ buffer' = IF At("read") THEN Append(buffer, Given) ELSE buffer
  /\ wire' = Tail(wire)
  /\ Unrecorded

\* The caller's half of a read-modify-write.
WriteImage ==
  /\ At("write_back")
  /\ LET item == Head(wire)
         image == (buffer[Len(buffer)] \ item[4]) \cup item[3]
     IN  wire' = nrf24_write_register(item[2], image) \o Tail(wire)
  /\ UNCHANGED <<buffer, csn, decoder, memory>> /\ Unrecorded

\* A function is called; a payload is read only if there is one.
Begin(c) ==
  /\ wire = << >> /\ call.fn # "reset"
  /\ calls < MaxCalls
  /\ c.fn = "read_rx_payload" => rxFifo # << >>
  /\ calls' = calls + 1
  /\ call' = c
  /\ wire' = Steps(c)
  /\ buffer' = << >>
  /\ before' = [reg |-> reg, txFifo |-> txFifo, rxFifo |-> rxFifo]
  /\ UNCHANGED <<csn, decoder, memory, restarts>>

\* The processor starts again; CSN kept its level or floated up meanwhile.
Boot ==
  /\ call.fn = "reset"
  /\ call' = [fn |-> "init"]
  /\ wire' = Steps([fn |-> "init"])
  /\ buffer' = << >>
  /\ UNCHANGED <<csn, decoder, memory, before, calls, restarts>>

Restart ==
  /\ restarts < MaxRestarts
  /\ restarts' = restarts + 1
  /\ call' = [fn |-> "reset"]
  /\ wire' = << >>
  /\ buffer' = << >>
  /\ SetCsn(csn) \/ SetCsn(TRUE)
  /\ UNCHANGED <<before, calls>>

Init ==
  /\ call = [fn |-> "reset"] /\ wire = << >> /\ buffer = << >>
  /\ csn = TRUE /\ command = NoCommand /\ count = 0 /\ shifted = << >>
  /\ reg = [r \in Register |-> [i \in 1 .. Width(r) |-> {4, 5, 6}]]
  /\ txFifo = << >>
  /\ rxFifo = <<[i \in 1 .. PayloadSize |-> {i % 8}]>>
  /\ before = [reg |-> reg, txFifo |-> txFifo, rxFifo |-> rxFifo]
  /\ calls = 0 /\ restarts = 0

Next ==
  \/ Boot
  \/ \E c \in Call : Begin(c)
  \/ set_csn
  \/ spi_exchange
  \/ WriteImage
  \/ Restart

Spec == Init /\ [][Next]_vars
-----------------------------------------------------------------------------
(* Properties.                                                             *)

\* s with its first bytes replaced by those of new.
Overlaid(s, new) == new \o SubSeq(s, Len(new) + 1, Len(s))

\* A register of one byte has this one.
Holding(r, byte) == [before.reg EXCEPT ![r] = <<byte>>]

Limited(n, most) == IF n > most THEN most ELSE n
OwnBytes(pipe) == IF pipe < 2 THEN 5 ELSE 1
Config == before.reg[NRF24_REG_CONFIG][1]
Cleared == Holding(NRF24_REG_STATUS,
             before.reg[NRF24_REG_STATUS][1]
               \ (NRF24_STATUS.RX_DR \cup NRF24_STATUS.TX_DS \cup NRF24_STATUS.MAX_RT))
Receiving == Config \cup NRF24_CONFIG.PWR_UP \cup NRF24_CONFIG.PRIM_RX

(***************************************************************************)
(* What each function promises by its name and by the masks of nrf24.h:    *)
(* the registers afterwards.  Those it does not name stay as they were.    *)
(***************************************************************************)
Promised(c) ==
  CASE c.fn = "set_rx_address" /\ c.pipe <= 5 ->
         [before.reg EXCEPT ![NRF24_REG_RX_ADDR_P0 + c.pipe] =
            Overlaid(@, Passed(IF c.pipe < 2 THEN Limited(c.n, 5) ELSE 1))]
    [] c.fn = "set_tx_address" ->
         [before.reg EXCEPT ![NRF24_REG_TX_ADDR] = Overlaid(@, Passed(Limited(c.n, 5)))]
    [] c.fn = "set" /\ c.r # NRF24_REG_STATUS -> Holding(c.r, c.value)
    [] c.fn = "set" /\ c.r = NRF24_REG_STATUS ->
         Holding(c.r, before.reg[c.r][1] \ (c.value \cap {4, 5, 6}))
    [] c.fn = "set_rx_payload_len" /\ c.pipe <= 5 ->
         Holding(NRF24_REG_RX_PW_P0 + c.pipe, c.value \ {6, 7})
    [] c.fn = "setup_rf" ->
         Holding(NRF24_REG_RF_SETUP,
           (IF c.rate # {} THEN NRF24_RF_SETUP.RF_DR ELSE {})
             \cup {b \in NRF24_RF_SETUP.RF_PWR_MASK : b - 1 \in c.power}
             \cup (IF c.gain # {} THEN NRF24_RF_SETUP.LNA_HCURR ELSE {}))
    [] c.fn = "set_rf_channel" -> Holding(NRF24_REG_RF_CH, (c.value \ {7}) \cup c.garbage)
    [] c.fn = "clear_interrupts" -> Cleared
    [] c.fn = "power_up_rx" -> Holding(NRF24_REG_CONFIG, Receiving)
    [] c.fn = "setup_primary_receiver" ->
         [Holding(NRF24_REG_CONFIG, Receiving) EXCEPT ![NRF24_REG_RX_PW_P0] = <<{5}>>]
    [] c.fn = "transmit_data" ->
         [Cleared EXCEPT ![NRF24_REG_CONFIG] =
            <<(Config \ NRF24_CONFIG.PRIM_RX) \cup NRF24_CONFIG.PWR_UP>>]
    [] OTHER -> before.reg

\* The payloads afterwards.
PromisedToSend(c) ==
  LET frame == IF c.n = 0 THEN << >> ELSE <<[i \in 1 .. Limited(c.n, PayloadSize) |-> {i % 8}]>>
  IN  CASE c.fn = "write_tx_payload" -> before.txFifo \o frame
        [] c.fn = "transmit_data" -> frame
        [] c.fn = "flush_tx" -> << >>
        [] OTHER -> before.txFifo

PromisedToRead(c) ==
  CASE c.fn = "read_rx_payload" /\ c.n > 0 -> Tail(before.rxFifo)
    [] c.fn = "flush_rx" -> << >>
    [] OTHER -> before.rxFifo

\* The bytes that a function returns; only those that read have some.
Answer(c) ==
  CASE c.fn = "get_rx_address" /\ c.pipe <= 5 ->
         SubSeq(before.reg[NRF24_REG_RX_ADDR_P0 + c.pipe], 1,
                IF c.pipe < 2 THEN Limited(c.n, 5) ELSE 1)
    [] c.fn = "get_tx_address" -> SubSeq(before.reg[NRF24_REG_TX_ADDR], 1, Limited(c.n, 5))
    [] c.fn = "get" -> before.reg[c.r]
    [] c.fn = "get_rx_payload_len" /\ c.pipe <= 5 ->
         <<before.reg[NRF24_REG_RX_PW_P0 + c.pipe][1] \ {6, 7}>>
    [] c.fn = "read_rx_payload" -> SubSeq(Head(before.rxFifo), 1, Limited(c.n, PayloadSize))
    [] OTHER -> << >>

Getters == {"get_rx_address", "get_tx_address", "get", "get_rx_payload_len", "read_rx_payload"}

(***************************************************************************)
(* Every function does to the chip what it promises, and nothing else, and *)
(* returns what the chip held: with any arguments, after any other call,   *)
(* and after a reset that cut off another transaction at any byte, whose   *)
(* rest the chip would still be waiting for.                               *)
(***************************************************************************)
DoesWhatItPromises ==
  wire = << >> /\ call.fn \notin {"reset", "init"} =>
    /\ reg = Promised(call)
    /\ txFifo = PromisedToSend(call)
    /\ rxFifo = PromisedToRead(call)
    /\ call.fn \in Getters => Value(call, buffer) = Answer(call)

(***************************************************************************)
(* No byte goes astray: it is exchanged while the chip is selected, a      *)
(* command where one is expected, and never more data than the register    *)
(* or the payload has place for.                                           *)
(***************************************************************************)
NoByteAstray ==
  /\ At("command") => ~ csn /\ command = NoCommand
  /\ At("data") \/ At("read") => ~ csn /\ command # NoCommand /\ Room
=============================================================================
