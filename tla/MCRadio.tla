------------------------------- MODULE MCRadio -------------------------------
(***************************************************************************)
(* Instances of Radio for TLC: numbered messages, each to any of a set of  *)
(* devices, and numbered packets.                                          *)
(***************************************************************************)
EXTENDS Radio

CONSTANTS
  Device,       \* addresses of devices
  MaxMessages,  \* bound: messages given to sendMessage()
  MaxPackets    \* bound: packets received over the air

MCMessage == [id : 1 .. MaxMessages, address : Device]
MCPacket == 1 .. MaxPackets
MCAddress == Device \cup {OwnAddress, ResetAddress}
=============================================================================
