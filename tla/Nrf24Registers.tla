---------------------------- MODULE Nrf24Registers ----------------------------
(***************************************************************************)
(* The driver one SPI transaction at a time: the register images that      *)
(* nrf24.c and Radio.cpp compose, the bytes that are exchanged, and a chip *)
(* that acts between any two transactions.  Nrf24 takes a whole            *)
(* reconfiguration as one step; this module looks at what happens in it.   *)
(*                                                                         *)
(* A register is the set of the positions of its bits that are one.  The   *)
(* unions of nrf24.h lay their fields out from bit 0 upwards.              *)
(***************************************************************************)
EXTENDS Integers, Sequences

CONSTANTS
  Channel,    \* m_transceiverChannel, as a set of bits
  FifoDepth   \* entries of the chip's RX FIFO

ASSUME ChannelAssumption == Channel \subseteq 0 .. 6
ASSUME FifoDepthAssumption == FifoDepth \in Nat \ {0}

VARIABLES
  role,    \* "off" until setup() is done, then what the chip was set up for
  script,  \* what the running function still has to do
  image,   \* the local variable status of nrf24_clear_interrupts
  reg,     \* the registers
  ce,      \* level of the CE pin
  rxCount, \* payloads in the RX FIFO
  loaded,  \* a payload is in the TX FIFO
  busy,    \* the chip is transmitting, which CE going low does not stop
  late     \* history: a reconfiguration began while the chip was transmitting

hostVars == <<role, script, image>>
chipVars == <<reg, ce, rxCount, loaded, busy>>
vars == <<hostVars, chipVars, late>>

\* Addresses of the registers that are used.
NRF24_REG_CONFIG == 0
NRF24_REG_SETUP_RETR == 4
NRF24_REG_RF_CH == 5
NRF24_REG_RF_SETUP == 6
NRF24_REG_STATUS == 7
NRF24_REG_RX_PW_P0 == 17
Register == 0 .. 31

\* Bits of STATUS and CONFIG.
RX_DR == 6
TX_DS == 5
MAX_RT == 4
Flags == {RX_DR, TX_DS, MAX_RT}
EN_CRC == 3
PWR_UP == 1
PRIM_RX == 0
-----------------------------------------------------------------------------
(* Images and transactions.                                                *)

\* Variant: the structure is not cleared before its fields are set.
ConfigUncleared(receiver) ==
  Flags \cup {EN_CRC, PWR_UP} \cup (IF receiver THEN {PRIM_RX} ELSE {})

\* CONFIG as setTransceiverMode composes it; the interrupts are not masked.
Config(receiver) == {EN_CRC, PWR_UP} \cup (IF receiver THEN {PRIM_RX} ELSE {})

\* 250 kbit/s with 0 dBm; 15 retransmissions after 4000 us each; 32 bytes.
RfSetup == {5} \cup {1, 2}
SetupRetr == 0 .. 7
PayloadLen == {5}

\* RF_CH is a local variable of which seven bits are set; the eighth is not.
RfChannelImages == {Channel, Channel \cup {7}}

\* Variant: the flags are set to 0 in order to clear them.
StatusUnset(status) == status \ Flags

\* The three flags are set in what was read, and written back.
StatusToWrite(status) == status \cup Flags

\* The command bytes of the two kinds of register access.
WriteCommand(r) == 32 + (r % 32)
ReadCommand(r) == r % 32

\* The chip's reading of a command byte.
IsWrite(command) == command \div 32 = 1
AddressIn(command) == command % 32

\* Steps of a function: a level of CE, a register write, or what its name says.
Ce(level) == [step |-> "set_ce", level |-> level]
WriteRegister(r, value) == [step |-> "write", register |-> r, value |-> value]
Do(what) == [step |-> what]
-----------------------------------------------------------------------------
(* The functions, as the steps they take.                                  *)

\* nrf24_power_up and nrf24_power_down move the CE pin.
nrf24_power_up == <<Ce(TRUE)>>
nrf24_power_down == <<Ce(FALSE)>>

\* A register is read, changed and written, in two transactions.
nrf24_clear_interrupts == <<Do("get_status"), Do("set_status")>>

\* The last step of nrf24_init that matters here is that CE goes low.
initTransceiver ==
  nrf24_power_down
    \o <<WriteRegister(NRF24_REG_RF_SETUP, RfSetup), Do("set_rf_channel"),
         WriteRegister(NRF24_REG_SETUP_RETR, SetupRetr),
         WriteRegister(NRF24_REG_RX_PW_P0, PayloadLen)>>
    \o nrf24_clear_interrupts

\* The address registers are left out: nothing here depends on them.
setTransceiverMode(receiver) ==
  nrf24_power_down \o nrf24_clear_interrupts
    \o <<Do("set_rf_channel"), Do("flush_rx"), Do("flush_tx"),
         WriteRegister(NRF24_REG_CONFIG, Config(receiver))>>

transmit == setTransceiverMode(FALSE) \o <<Do("write_tx_payload")>> \o nrf24_power_up

listen == setTransceiverMode(TRUE) \o nrf24_power_up

readMessages ==
  nrf24_power_down \o nrf24_clear_interrupts \o <<Do("get_fifo_status")>> \o nrf24_power_up

(***************************************************************************)
(* The radio's machine calls one of them when the one before has returned: *)
(* it transmits only from the receiver role or after the boot, and returns *)
(* to the receiver after a flag or after the timeout, that is, any time.   *)
(***************************************************************************)
Call(newRole, steps) ==
  /\ script = << >>
  /\ role' = newRole
  /\ script' = steps
  /\ late' = busy
  /\ UNCHANGED <<image, chipVars>>

Boot == role = "off" /\ Call("silent", initTransceiver)
Transmit == role \in {"silent", "receiver"} /\ Call("transmitter", transmit)
Listen == role = "transmitter" /\ Call("receiver", listen)
ReadMessages ==
  role = "receiver" /\ RX_DR \in reg[NRF24_REG_STATUS] /\ Call("receiver", readMessages)
-----------------------------------------------------------------------------
(* The steps.                                                              *)

Proceed == script' = Tail(script)
At(step) == script # << >> /\ Head(script).step = step

set_ce ==
  /\ At("set_ce")
  /\ ce' = Head(script).level
  /\ Proceed
  /\ UNCHANGED <<role, image, reg, rxCount, loaded, busy, late>>

\* The chip's part of a register write; a one clears a flag of STATUS.
Written(command, value) ==
  LET r == AddressIn(command)
  IN  IF IsWrite(command)
      THEN [reg EXCEPT ![r] = IF r = NRF24_REG_STATUS THEN @ \ (value \cap Flags) ELSE value]
      ELSE reg

nrf24_write_register(r, value) ==
  /\ reg' = Written(WriteCommand(r), value)
  /\ UNCHANGED <<ce, rxCount, loaded, busy>>

write ==
  /\ At("write")
  /\ nrf24_write_register(Head(script).register, Head(script).value)
  /\ Proceed
  /\ UNCHANGED <<role, image, late>>

nrf24_set_rf_channel ==
  /\ At("set_rf_channel")
  /\ \E value \in RfChannelImages : nrf24_write_register(NRF24_REG_RF_CH, value)
  /\ Proceed
  /\ UNCHANGED <<role, image, late>>

nrf24_get_status ==
  /\ At("get_status")
  /\ image' = reg[AddressIn(ReadCommand(NRF24_REG_STATUS))]
  /\ Proceed
  /\ UNCHANGED <<role, chipVars, late>>

nrf24_set_status ==
  /\ At("set_status")
  /\ nrf24_write_register(NRF24_REG_STATUS, StatusToWrite(image))
  /\ Proceed
  /\ UNCHANGED <<role, image, late>>

\* Both flush commands; a payload that is being transmitted is flushed as well.
nrf24_send_command ==
  /\ \/ At("flush_rx") /\ rxCount' = 0 /\ UNCHANGED loaded
     \/ At("flush_tx") /\ loaded' = FALSE /\ UNCHANGED rxCount
  /\ Proceed
  /\ UNCHANGED <<role, image, reg, ce, busy, late>>

nrf24_write_tx_payload ==
  /\ At("write_tx_payload")
  /\ loaded' = TRUE
  /\ Proceed
  /\ UNCHANGED <<role, image, reg, ce, rxCount, busy, late>>

\* Variant: the test is never true.
NeverEmpty == FALSE

\* FIFO_STATUS.RX_EMPTY
RxEmpty == rxCount = 0

\* One turn of the loop over FIFO_STATUS, with the payload that it reads.
nrf24_get_fifo_status ==
  /\ At("get_fifo_status")
  /\ \/ RxEmpty /\ Proceed /\ UNCHANGED rxCount
     \/ ~ RxEmpty /\ rxCount' = rxCount - 1 /\ UNCHANGED script
  /\ UNCHANGED <<role, image, reg, ce, loaded, busy, late>>

Driver ==
  \/ Boot \/ Transmit \/ Listen \/ ReadMessages
  \/ set_ce \/ write \/ nrf24_set_rf_channel \/ nrf24_get_status \/ nrf24_set_status
  \/ nrf24_send_command \/ nrf24_write_tx_payload \/ nrf24_get_fifo_status
-----------------------------------------------------------------------------
(* The chip, between any two transactions.                                 *)

Raise(flag) == reg' = [reg EXCEPT ![NRF24_REG_STATUS] = @ \cup {flag}]

\* CE high, powered up, in PTX mode, something to send, MAX_RT not pending.
StartTransmission ==
  /\ ce /\ loaded /\ ~ busy
  /\ PWR_UP \in reg[NRF24_REG_CONFIG] /\ PRIM_RX \notin reg[NRF24_REG_CONFIG]
  /\ MAX_RT \notin reg[NRF24_REG_STATUS]
  /\ busy' = TRUE
  /\ UNCHANGED <<hostVars, reg, ce, rxCount, loaded, late>>

\* Acknowledged, or out of retransmissions: also after CE went low.
EndTransmission ==
  /\ busy
  /\ busy' = FALSE
  /\ \/ Raise(TX_DS) /\ loaded' = FALSE
     \/ Raise(MAX_RT) /\ UNCHANGED loaded
  /\ UNCHANGED <<hostVars, ce, rxCount, late>>

\* A packet of the length that RX_PW_P0 announces comes in.
Receive ==
  /\ ce /\ {PWR_UP, PRIM_RX} \subseteq reg[NRF24_REG_CONFIG]
  /\ reg[NRF24_REG_RX_PW_P0] # {}
  /\ ~ busy
  /\ rxCount < FifoDepth
  /\ rxCount' = rxCount + 1
  /\ Raise(RX_DR)
  /\ UNCHANGED <<hostVars, ce, loaded, busy, late>>

\* After power-on, or after a reset of the processor with whatever was there.
Init ==
  /\ role = "off"
  /\ script = << >>
  /\ image = {}
  /\ \E config \in {{EN_CRC}, Config(TRUE), Config(FALSE)},
        length \in {{}, PayloadLen}, flags \in SUBSET Flags :
       reg = [r \in Register |->
               CASE r = NRF24_REG_CONFIG -> config
                 [] r = NRF24_REG_RX_PW_P0 -> length
                 [] r = NRF24_REG_STATUS -> flags
                 [] OTHER -> {}]
  /\ ce \in BOOLEAN
  /\ rxCount \in 0 .. FifoDepth
  /\ loaded \in BOOLEAN
  /\ busy = FALSE
  /\ late = FALSE

Next == Driver \/ StartTransmission \/ EndTransmission \/ Receive

Spec == Init /\ [][Next]_vars
-----------------------------------------------------------------------------
(* Properties.                                                             *)

\* The steps that the functions consist of.
Steps ==
  {Ce(TRUE), Ce(FALSE)}
  \cup {WriteRegister(NRF24_REG_RF_SETUP, RfSetup),
        WriteRegister(NRF24_REG_SETUP_RETR, SetupRetr),
        WriteRegister(NRF24_REG_RX_PW_P0, PayloadLen),
        WriteRegister(NRF24_REG_CONFIG, Config(TRUE)),
        WriteRegister(NRF24_REG_CONFIG, Config(FALSE))}
  \cup {Do(what) : what \in {"get_status", "set_status", "set_rf_channel", "flush_rx",
                             "flush_tx", "write_tx_payload", "get_fifo_status"}}

\* Every variable has its type.
TypeOK ==
  /\ role \in {"off", "silent", "transmitter", "receiver"}
  /\ script \in Seq(Steps)
  /\ image \subseteq 0 .. 7
  /\ reg \in [Register -> SUBSET (0 .. 7)]
  /\ rxCount \in 0 .. FifoDepth
  /\ {ce, loaded, busy, late} \subseteq BOOLEAN

\* The running function has yet to take this step.
Ahead(step) == \E i \in DOMAIN script : script[i] = step

(***************************************************************************)
(* A function lowers CE before anything else, and raises it when all else  *)
(* is done, if its role is to be on; CONFIG is written for that role only. *)
(***************************************************************************)
OffWhileConfigured ==
  /\ \A i \in DOMAIN script : script[i] = Ce(FALSE) => i = 1
  /\ \A i \in DOMAIN script : script[i] = Ce(TRUE) => i = Len(script)
  /\ role = "off" => script = << >>
  /\ role = "silent" => ~ Ahead(Ce(TRUE)) /\ (~ ce \/ Ahead(Ce(FALSE)))
  /\ role \in {"transmitter", "receiver"} =>
       IF script = << >> THEN ce ELSE script[Len(script)] = Ce(TRUE)
  /\ \A receiver \in BOOLEAN :
       Ahead(WriteRegister(NRF24_REG_CONFIG, Config(receiver))) =>
         role = IF receiver THEN "receiver" ELSE "transmitter"

\* What a register has to be written with is there, or is still ahead.
WrittenOrAhead ==
  /\ role # "off" =>
       /\ \/ reg[NRF24_REG_RF_SETUP] = RfSetup
          \/ Ahead(WriteRegister(NRF24_REG_RF_SETUP, RfSetup))
       /\ \/ reg[NRF24_REG_SETUP_RETR] = SetupRetr
          \/ Ahead(WriteRegister(NRF24_REG_SETUP_RETR, SetupRetr))
       /\ \/ reg[NRF24_REG_RX_PW_P0] = PayloadLen
          \/ Ahead(WriteRegister(NRF24_REG_RX_PW_P0, PayloadLen))
       /\ \/ reg[NRF24_REG_RF_CH] \ {7} = Channel
          \/ Ahead(Do("set_rf_channel"))
  /\ \A receiver \in BOOLEAN :
       role = (IF receiver THEN "receiver" ELSE "transmitter") =>
         \/ reg[NRF24_REG_CONFIG] = Config(receiver)
         \/ Ahead(WriteRegister(NRF24_REG_CONFIG, Config(receiver)))

(***************************************************************************)
(* While a transmission is prepared the chip is idle, unless it was not    *)
(* when that began: CE is low, or the chip is still the receiver it was.   *)
(* A flag that is pending is going to be cleared.                          *)
(***************************************************************************)
IdleWhilePrepared ==
  role = "transmitter" /\ script # << >> /\ ~ late =>
    /\ ~ busy
    /\ ce => /\ Head(script) = Ce(FALSE)
             /\ PRIM_RX \in reg[NRF24_REG_CONFIG]
             /\ Ahead(Do("set_status"))
    /\ reg[NRF24_REG_STATUS] \cap Flags = {} \/ Ahead(Do("set_status"))

\* The invariant that the steps preserve and that the properties follow from.
Inv == TypeOK /\ OffWhileConfigured /\ WrittenOrAhead /\ IdleWhilePrepared

(***************************************************************************)
(* Whenever a function has returned, the chip is configured as intended:   *)
(* rate, retransmission, payload length and channel are as initTransceiver *)
(* wrote them, whatever the eighth bit of RF_CH has become.  A chip that   *)
(* is on has the mode of its role and masks none of its three interrupts,  *)
(* so that the IRQ pin, which the machine polls, follows STATUS.           *)
(***************************************************************************)
SetUpForGood ==
  script = << >> =>
    /\ role # "off" =>
         /\ reg[NRF24_REG_RF_SETUP] = RfSetup
         /\ reg[NRF24_REG_SETUP_RETR] = SetupRetr
         /\ reg[NRF24_REG_RX_PW_P0] = PayloadLen
         /\ reg[NRF24_REG_RF_CH] \ {7} = Channel
    /\ role \in {"transmitter", "receiver"} =>
         /\ ce
         /\ reg[NRF24_REG_CONFIG] \cap Flags = {}
         /\ PRIM_RX \in reg[NRF24_REG_CONFIG] <=> role = "receiver"

(***************************************************************************)
(* A transmission begins with no flag pending: an old one would end the    *)
(* wait for it at once.  A transmission that was still running when the    *)
(* one before was given up can spoil this, and nothing else can: not what  *)
(* a reset left, nor a flag between the read and the write of STATUS.      *)
(***************************************************************************)
CleanStart ==
  [][ role = "transmitter" /\ ~ ce /\ ce' /\ ~ late /\ ~ busy =>
        reg[NRF24_REG_STATUS] \cap Flags = {} ]_vars
=============================================================================
