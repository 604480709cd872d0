------------------------------- MODULE Commands -------------------------------
(***************************************************************************)
(* The vocabulary of the hub: radio commands, device addresses and the     *)
(* requests made of them (Command.h, Request.h, Utils.cpp).                *)
(***************************************************************************)
EXTENDS Naturals

CONSTANT NoAddress  \* the empty std::string

\* radio::Command
Command == {"Shutter1Up", "Shutter1Down", "Shutter2Up", "Shutter2Down",
            "AllUp", "AllDown"}

\* The device addresses "SMRR0" to "SMRR9" are written 0 to 9.
DeviceAddress == 0 .. 9

ASSUME NoAddressAssumption == NoAddress \notin DeviceAddress

\* The single digit overflows for any other index, which has no address.
deviceIndexToAddress(index) == IF index > 9 THEN NoAddress ELSE index

\* protocol_cmd_t
commandToProtocolCmd(command) ==
  CASE command = "AllDown"      -> "PROTO_CMD_ALL_DOWN"
    [] command = "AllUp"        -> "PROTO_CMD_ALL_UP"
    [] command = "Shutter1Down" -> "PROTO_CMD_SHUTTER_1_DOWN"
    [] command = "Shutter1Up"   -> "PROTO_CMD_SHUTTER_1_UP"
    [] command = "Shutter2Down" -> "PROTO_CMD_SHUTTER_2_DOWN"
    [] command = "Shutter2Up"   -> "PROTO_CMD_SHUTTER_2_UP"
    [] OTHER                    -> "PROTO_CMD_NOP"

\* The message that carries a request; all have the type PROTO_MSG_COMMAND.
createCommandRequest(command, address) ==
  [address |-> address, command |-> commandToProtocolCmd(command)]

Request == [address : DeviceAddress \cup {NoAddress},
            command : {commandToProtocolCmd(c) : c \in Command}]
=============================================================================
