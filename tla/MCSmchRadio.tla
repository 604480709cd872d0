----------------------------- MODULE MCSmchRadio -----------------------------
(***************************************************************************)
(* Instances of SmchRadio for TLC: one "all" and one single motor.         *)
(***************************************************************************)
EXTENDS SmchRadio

CONSTANT Motors  \* the motor indices used as a target

Up(target) ==
  [method |-> "GET", uri |-> "/api/command/", verb |-> "up/", target |-> target]

MCRequests ==
  {Up([kind |-> "all"])}
  \cup {Up([kind |-> "digits", length |-> 1, value |-> n]) : n \in Motors}

MCCalls ==
  {createCommandRequest("AllUp", device) : device \in 0 .. Hub!MaxDeviceIndex}
  \cup {createCommandRequest(Hub!MotorCommand((n % 2) + 1, TRUE), n \div 2) : n \in Motors}
  \cup {createCommandRequest(Hub!MotorCommand(Hub!MqttMotor[i], up), Hub!MqttDevice[i]) :
          i \in Shutters, up \in BOOLEAN}
=============================================================================
