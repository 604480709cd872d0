-------------------------------- MODULE Nrf24 --------------------------------
(***************************************************************************)
(* The nRF24L01+ transceiver and its driver, nrf24.c.                      *)
(*                                                                         *)
(* A chip is a record of the registers and FIFOs that the radio task reads *)
(* or depends on.  The first part has one operator per driver function:    *)
(* what the SPI transaction, or the level of the CE pin, does to the chip. *)
(* The second part is the chip itself, which is hardware: what it may do   *)
(* on its own between two calls of the driver, as far as the radio task    *)
(* relies on it.                                                           *)
(***************************************************************************)
EXTENDS Naturals, Sequences

CONSTANTS
  Message,       \* what can be loaded for transmission
  Packet,        \* what can be received
  Address,       \* the 5 byte addresses an address register can hold
  NoAddress,     \* the empty std::string
  OwnAddress,    \* ReceiveAddress, "SMRH1"
  ResetAddress,  \* what the address registers hold after power-on
  FifoDepth      \* entries in each of the chip's two FIFOs

ASSUME AddressAssumption ==
  /\ OwnAddress \in Address
  /\ ResetAddress \in Address
  /\ NoAddress \notin Address

ASSUME FifoDepthAssumption == FifoDepth \in Nat \ {0}

Chip == [
  ce     : BOOLEAN,        \* level of the CE pin
  pwrUp  : BOOLEAN,        \* CONFIG.PWR_UP
  primRx : BOOLEAN,        \* CONFIG.PRIM_RX
  rxDr   : BOOLEAN,        \* STATUS.RX_DR
  txDs   : BOOLEAN,        \* STATUS.TX_DS
  maxRt  : BOOLEAN,        \* STATUS.MAX_RT
  txAddr : Address,        \* TX_ADDR
  rxAddr : Address,        \* RX_ADDR_P0, also where acknowledgements arrive
  txFifo : Seq(Message),
  rxFifo : Seq(Packet) ]

\* Registers after a power-on reset.
PowerOn == [
  ce |-> FALSE, pwrUp |-> FALSE, primRx |-> FALSE,
  rxDr |-> FALSE, txDs |-> FALSE, maxRt |-> FALSE,
  txAddr |-> ResetAddress, rxAddr |-> ResetAddress,
  txFifo |-> << >>, rxFifo |-> << >> ]
-----------------------------------------------------------------------------
(* The driver.                                                             *)

\* Despite their names these two only move the CE pin; CONFIG.PWR_UP stays.
nrf24_power_up(c)   == [c EXCEPT !.ce = TRUE]
nrf24_power_down(c) == [c EXCEPT !.ce = FALSE]

\* STATUS is read back with the three flags set to 1; writing 1 clears a flag.
nrf24_clear_interrupts(c) ==
  [c EXCEPT !.rxDr = FALSE, !.txDs = FALSE, !.maxRt = FALSE]

\* The two flush commands.
nrf24_flush_rx(c) == [c EXCEPT !.rxFifo = << >>]
nrf24_flush_tx(c) == [c EXCEPT !.txFifo = << >>]

(***************************************************************************)
(* A write of an address register sends txAddress.size() & 7 bytes: none   *)
(* for the empty address, which leaves the register as it was.             *)
(***************************************************************************)
Written(register, addr) == IF addr = NoAddress THEN register ELSE addr

nrf24_set_tx_address(c, addr) == [c EXCEPT !.txAddr = Written(@, addr)]
nrf24_set_rx_address(c, addr) == [c EXCEPT !.rxAddr = Written(@, addr)]

\* CONFIG as setTransceiverMode composes it: powered up, all interrupts unmasked.
nrf24_set_config(c, prx) == [c EXCEPT !.pwrUp = TRUE, !.primRx = prx]

\* A payload written to a full TX FIFO is discarded by the chip.
nrf24_write_tx_payload(c, message) ==
  IF Len(c.txFifo) < FifoDepth THEN [c EXCEPT !.txFifo = Append(@, message)] ELSE c

\* Variant: one payload is read for an interrupt.
ReadOnePayload(c) ==
  IF c.rxFifo = << >> THEN c ELSE [c EXCEPT !.rxFifo = Tail(@)]

\* nrf24_read_rx_payload called until FIFO_STATUS.RX_EMPTY.
ReadAllPayloads(c) == [c EXCEPT !.rxFifo = << >>]
-----------------------------------------------------------------------------
(* The chip.                                                               *)

\* The IRQ pin, active low: an unmasked interrupt flag is set.
IrqAsserted(c) == c.rxDr \/ c.txDs \/ c.maxRt

\* CE high, powered up, in PTX mode, a payload to send, MAX_RT not pending.
CanTransmit(c) == c.ce /\ c.pwrUp /\ ~ c.primRx /\ c.txFifo # << >> /\ ~ c.maxRt

\* Acknowledgements arrive on pipe 0, so it must have the address sent to.
CanBeAcknowledged(c) == CanTransmit(c) /\ c.rxAddr = c.txAddr

\* The addressed device acknowledged: the payload leaves the FIFO.
Acknowledged(c) == [c EXCEPT !.txDs = TRUE, !.txFifo = Tail(@)]

\* No acknowledgement after ARC retransmissions: the payload stays loaded.
RetriesExhausted(c) == [c EXCEPT !.maxRt = TRUE]

\* CE high, powered up, in PRX mode, listening to the hub's address, room left.
CanReceive(c) ==
  c.ce /\ c.pwrUp /\ c.primRx /\ c.rxAddr = OwnAddress /\ Len(c.rxFifo) < FifoDepth

\* A packet arrives on pipe 0 and is acknowledged to its sender by the chip.
Received(c, p) == [c EXCEPT !.rxDr = TRUE, !.rxFifo = Append(@, p)]
=============================================================================
