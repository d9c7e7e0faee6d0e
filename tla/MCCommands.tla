----------------------------- MODULE MCCommands -----------------------------
(***************************************************************************)
(* Commands of the desktop backend that share no state with one another,   *)
(* for TLC: the pairing servers, the Node step of a deployment, a command  *)
(* under its watchdog, and the starts of the gateway.  `which` says which  *)
(* one runs; the others stay as they start and owe nothing.                *)
(***************************************************************************)
EXTENDS Pairing, NodeStep, Watchdog, Gateway

VARIABLE which

CommandsInit ==
  /\ which \in {"pairing", "node", "watchdog", "gateway"}
  /\ Init /\ NodeInit /\ WatchInit /\ GatewayInit
  /\ which # "node" => (node = "none" /\ ~npm /\ strict)
  /\ which # "gateway" => (port = "free" /\ entry = "none" /\ config = "none" /\ backup = "none")

Only(who) == which = who /\ UNCHANGED which

CommandsNext ==
  \/ Only("pairing") /\ Next /\ UNCHANGED <<nodevars, watchvars, gatevars>>
  \/ Only("node") /\ NodeNext /\ UNCHANGED <<vars, watchvars, gatevars>>
  \/ Only("watchdog") /\ WatchNext /\ UNCHANGED <<vars, nodevars, gatevars>>
  \/ Only("gateway") /\ GatewayNext /\ UNCHANGED <<vars, nodevars, watchvars>>

(* The fairness of Spec, NodeSpec, WatchSpec and GatewaySpec: the servers of   *)
(* Pairing and the starts of Gateway have nothing to do before they are called.*)
CommandsSpec ==
  /\ CommandsInit /\ [][CommandsNext]_<<which, vars, nodevars, watchvars, gatevars>>
  /\ WF_vars(which = "pairing" /\ Tick)
  /\ \A g \in Gen : WF_vars(ServerStep(g))
  /\ WF_nodevars(which = "node" /\ StepOn)
  /\ WF_watchvars(which = "watchdog" /\ ReadLine) /\ WF_watchvars(which = "watchdog" /\ Seconds)
  /\ WF_watchvars(which = "watchdog" /\ DogStep) /\ WF_watchvars(which = "watchdog" /\ Wait)
  /\ WF_watchvars(which = "watchdog" /\ Drain)
  /\ \A t \in Task : WF_gatevars(Step(t))

(* The state of every command keeps its types.                                 *)
CommandsTypes == TypeOK /\ NodeTypeOK /\ WatchTypeOK /\ GatewayTypeOK

(* What runs comes to its end, or is held by one thing that never ends: the    *)
(* Node step by a subprocess, whatever its installers do; a command that goes  *)
(* silent by the processes it started; a start of the gateway by a subprocess, *)
(* whatever pm2 and the other commands do to it.                               *)
CommandsEnd ==
  /\ which = "node" => StepEnds
  /\ which = "watchdog" => SilentIsEnded
  /\ StartEnds
=============================================================================
