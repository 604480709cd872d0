-------------------------------- MODULE WebApi --------------------------------
(***************************************************************************)
(* The HTTP front end: which requests are handled, and with which          *)
(* arguments the command handler of Smch is called.  The client is sent    *)
(* 200 for an outcome that is "Handled" and 400 for one that is not.       *)
(*                                                                         *)
(* A request is given by what the code tells apart in it: the method, how  *)
(* far the URI matches "/api/command/", the verb that follows, and the     *)
(* rest of the path, the target.  A target that consists of digits only is *)
(* given by their number and their value.                                  *)
(***************************************************************************)
EXTENDS Naturals

Target ==
  [kind : {"all", "other"}] \cup [kind : {"digits"}, length : Nat, value : Nat]

WebRequest ==
  [method : {"GET", "POST"},
   uri    : {"/api/command/", "/api", "/"},
   verb   : {"up/", "down/", "other", ""},
   target : Target]

\* The index by which "all" is passed on: the largest uint8_t.
AllDevices == 255

\* An outcome of the command handlers: the result and the call made, if any.
NotHandled == [result |-> "NotHandled", calls |-> FALSE]
Handled(command, index) ==
  [result |-> "Handled", calls |-> TRUE, command |-> command, index |-> index]

\* WebApi::handleCommand.  A number of one or two digits is below 100.
handleCommand(command, target) ==
  CASE target.kind = "all" -> Handled(command, AllDevices)
    [] target.kind = "digits" /\ target.length \in 1 .. 2 ->
         Handled(command, target.value)
    [] OTHER -> NotHandled

\* WebApi::onIncomingCommandRequest; the empty path has the verb "".
onIncomingCommandRequest(verb, target) ==
  CASE verb = "up/"   -> handleCommand("ShutterUp", target)
    [] verb = "down/" -> handleCommand("ShutterDown", target)
    [] OTHER          -> NotHandled

\* CommandRequestHandler::canHandle; what it refuses the web server answers.
canHandle(request) == request.method = "GET" /\ request.uri # "/"

\* CommandRequestHandler::handle
handle(request) ==
  IF request.method = "GET" /\ request.uri = "/api/command/"
  THEN onIncomingCommandRequest(request.verb, request.target)
  ELSE NotHandled
=============================================================================
