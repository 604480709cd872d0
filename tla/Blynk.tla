-------------------------------- MODULE Blynk --------------------------------
(***************************************************************************)
(* The Blynk front end, compiled in with IOT_ENABLE_BLYNK only: seven      *)
(* virtual pins with descending numbers stand for the seven shutters, and  *)
(* the sign of the value written is the direction.                         *)
(***************************************************************************)
EXTENDS Commands, Integers, Sequences

\* The ends of the range of virtual pins.
Shutter1 == 73
Shutter7 == 67

DeviceIndexLut == <<0, 1, 1, 2, 4, 4, 3>>

UpCommandLut == <<"Shutter1Up", "Shutter2Up", "Shutter1Up", "Shutter1Up",
                  "Shutter1Up", "Shutter2Up", "Shutter1Up">>

DownCommandLut == <<"Shutter1Down", "Shutter2Down", "Shutter1Down", "Shutter1Down",
                    "Shutter1Down", "Shutter2Down", "Shutter1Down">>

\* The position of a pin in the tables, which count from 1 here.
LutIndex(pin) == Len(DeviceIndexLut) - (pin - Shutter7)

\* A value of zero, like an unknown pin, is not a command.
IsPinCommand(pin, direction) == pin \in Shutter7 .. Shutter1 /\ direction # 0

\* The arguments with which the command handler is called.
PinDevice(pin) == DeviceIndexLut[LutIndex(pin)]
PinCommand(pin, direction) ==
  IF direction > 0 THEN UpCommandLut[LutIndex(pin)] ELSE DownCommandLut[LutIndex(pin)]
=============================================================================
