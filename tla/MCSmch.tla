-------------------------------- MODULE MCSmch --------------------------------
(***************************************************************************)
(* Instances of Smch for TLC: requests on both sides of every boundary of  *)
(* the path, and MQTT variables of one and of two devices.                 *)
(***************************************************************************)
EXTENDS Smch

CONSTANT Indices  \* the numbers used as a target

Digits(n) == [kind |-> "digits", length |-> IF n < 10 THEN 1 ELSE 2, value |-> n]
Get(verb, target) ==
  [method |-> "GET", uri |-> "/api/command/", verb |-> verb, target |-> target]

All == [kind |-> "all"]

MCRequests ==
  {Get(verb, All) : verb \in {"up/", "down/"}}
  \cup {Get("up/", Digits(n)) : n \in Indices}
  \cup {Get("down/", [kind |-> "digits", length |-> 3, value |-> 7]),
        Get("other", All),
        [Get("up/", All) EXCEPT !.uri = "/api"],
        [Get("up/", All) EXCEPT !.method = "POST"]}
=============================================================================
