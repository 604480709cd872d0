----------------------------- MODULE MCRadioSteps -----------------------------
(***************************************************************************)
(* Instances of RadioSteps for TLC: numbered messages to two devices.      *)
(***************************************************************************)
EXTENDS RadioSteps

CONSTANTS MaxMessages, MaxPackets, DeviceA, DeviceB

MCMessage == {[id |-> n, address |-> a] : n \in 1 .. MaxMessages, a \in {DeviceA, DeviceB}}
MCPacket == 1 .. MaxPackets
MCAddress == {DeviceA, DeviceB, OwnAddress, ResetAddress}
=============================================================================
