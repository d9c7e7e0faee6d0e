------------------------------ MODULE Gateway -------------------------------
(***************************************************************************)
(* Starting the OpenClaw gateway under pm2 and healing it until it answers *)
(* (deploy_step_start in apps/desktop/src-tauri/src/gateway.rs, with       *)
(* pm2.rs), against the other commands that touch it: another start, stop, *)
(* restart and the end of the application.                                 *)
(*                                                                         *)
(* pm2, the gateway it runs and whatever else holds the port are external. *)
(* A start is a list of operations still to do, each of them one or more   *)
(* subprocesses; every other command may come between two of them.         *)
(***************************************************************************)
EXTENDS Integers, Sequences

CONSTANTS Task,      \* calls of deploy_step_start or start_local_service
          Rounds     \* rounds of waiting and diagnosis

ASSUME GatewayAssumption == Rounds \in Nat \ {0}

VARIABLES port,     \* who listens: free, gateway, other
          entry,    \* pm2's entry "openclaw": none, online, stopped
          config,   \* ~/.openclaw: none, users, fresh
          backup,   \* ~/.openclaw.bak: none, old (an earlier deployment's), users, fresh
          todo,     \* what each call has left to do before it waits
          stage,    \* idle, run, wait, hung, done
          round,    \* rounds of waiting that are over
          answer,   \* none, ok, err
          spared,   \* the calls whose kill the other program on the port survived
          quit      \* no, stopped, gone, killed

pm2 == <<port, entry>>
home == <<config, backup>>
call == <<todo, stage, round, answer>>
gatevars == <<port, entry, config, backup, todo, stage, round, answer, spared, quit>>

GatewayInit == /\ port \in {"free", "gateway", "other"}
               /\ entry \in IF port = "gateway" THEN {"online"} ELSE {"none", "online", "stopped"}
               /\ config \in {"none", "users"} /\ backup \in {"none", "old"}
               /\ todo = [t \in Task |-> <<>>]
               /\ stage = [t \in Task |-> "idle"]
               /\ round = [t \in Task |-> 0]
               /\ answer = [t \in Task |-> "none"]
               /\ spared = {}
               /\ quit = "no"

-----------------------------------------------------------------------------
(* pm2 and the world *)

(* Ending the gateway frees the port if it had it. *)
Freed(who) == IF port = who THEN "free" ELSE port

(* It is started with --force, which may take the port from another program. *)
Listens == /\ entry = "online" /\ port # "gateway"
           /\ port' = "gateway" /\ spared' = {}
           /\ UNCHANGED <<entry, home, call, quit>>

(* pm2 restarts a gateway that ends, or gives up on it. *)
Crashes == /\ entry = "online" /\ port' = Freed("gateway")
           /\ entry' \in {"online", "stopped"}
           /\ UNCHANGED <<home, call, spared, quit>>

AllCallsEnd == /\ stage' = [t \in Task |-> "done"]
               /\ todo' = [t \in Task |-> <<>>]

-----------------------------------------------------------------------------
(* The operations of a start; `rest` is what is left after this one. *)

BootDirty == <<"clean_up", "kill_pm2", "start">>   \* mutant: the port is left to its occupant
Boot == <<"free_port", "clean_up", "kill_pm2", "start">>
Remedy(category) ==
  CASE category = "node"   -> <<"rescan", "clean_up", "kill_pm2", "start">>
    [] category = "port"   -> <<"free_port", "clean_up", "start">>
    [] category = "config" -> <<"set_aside", "onboard", "clean_up", "start">>
    [] category = "crash"  -> <<"kill_pm2", "clean_up", "start">>

(* kill_port_occupant; what it reports is not looked at: the occupant may be *)
(* another user's, and lsof, fuser and ss may all be missing.  The gateway   *)
(* comes back if pm2 still has it.                                           *)
FreePort(t) == /\ port' \in {"free", port}
               /\ spared' = IF port' = "other" THEN spared \cup {t} ELSE {}
               /\ UNCHANGED <<entry, home>>

(* lsof names the clients of the port too, and the application that has      *)
(* chatted with a running gateway is one.                                    *)
FreePortOfClients == /\ port = "gateway" /\ port' \in {"free", "gateway"}
                     /\ UNCHANGED <<entry, home, round, answer, spared>>
                     /\ quit' = "killed" /\ AllCallsEnd

(* cleanup_pm2_openclaw, and `pm2 kill` with everything pm2 runs. *)
Cleared == /\ entry' = "none"
           /\ port' = Freed("gateway")
           /\ UNCHANGED home

SetAsideOver == /\ IF config = "none" THEN UNCHANGED <<config, backup>>   \* mutant: the backup is replaced
                   ELSE config' = "none" /\ backup' = config
                /\ UNCHANGED pm2
(* rename fails on a backup that is there; the failure is not looked at. *)
SetAside == /\ IF config = "none" \/ backup # "none" THEN UNCHANGED <<config, backup>>
               ELSE config' = "none" /\ backup' = config
            /\ UNCHANGED pm2

(* `openclaw onboard --yes` writes a configuration, or fails. *)
Onboard == /\ config' \in {config, "fresh"}
           /\ UNCHANGED <<pm2, backup>>

(* pm2 start: an entry that is online is refused. *)
Started == /\ entry # "online" /\ entry' = "online" /\ UNCHANGED <<port, home>>
Idle == UNCHANGED <<pm2, home>>

Running == quit \in {"no", "stopped"}

Return(t, r) == /\ stage' = [stage EXCEPT ![t] = "done"]
                /\ answer' = [answer EXCEPT ![t] = r]
                /\ todo' = [todo EXCEPT ![t] = <<>>]

Over(t) == round'[t] >= Rounds

(* Nothing left to do: wait for the port, unless the rounds are over.  What  *)
(* the last round restarted is not waited for.                               *)
Then(t, rest) ==
  IF rest = <<>> /\ Over(t)
  THEN Return(t, "err")
  ELSE /\ todo' = [todo EXCEPT ![t] = rest]
       /\ stage' = [stage EXCEPT ![t] = IF rest = <<>> THEN "wait" ELSE "run"]
       /\ UNCHANGED answer

(* No openclaw.mjs or no place for the wrapper ends it here. *)
Begin(t) == /\ stage[t] = "idle" /\ Running
            /\ UNCHANGED <<pm2, home, round, spared, quit>>
            /\ Return(t, "err") \/ Then(t, Boot)

Operate(t) ==
  /\ stage[t] = "run"
  /\ UNCHANGED <<round, quit>>
  /\ Head(todo[t]) # "free_port" => UNCHANGED spared
  /\ LET op == Head(todo[t])
         rest == Tail(todo[t])
     IN \/ op = "free_port" /\ FreePort(t) /\ Then(t, rest)
        \/ op \in {"clean_up", "kill_pm2"} /\ (Cleared \/ Idle) /\ Then(t, rest)
        \/ op = "rescan" /\ Idle /\ Then(t, rest)
        \/ op = "rescan" /\ Idle /\ Then(t, <<>>)      \* the wrapper is not written
        \/ op = "set_aside" /\ SetAside /\ Then(t, rest)
        \/ op = "onboard" /\ Onboard /\ Then(t, rest)
        \/ op \in {"start", "start_again"} /\ Started /\ Then(t, rest)
        \/ op = "start" /\ Idle /\ Then(t, <<"kill_pm2", "start_again">>)
        \/ /\ op = "start_again" /\ Idle
           /\ IF round[t] = 0 THEN Return(t, "err") ELSE Then(t, rest)

KillClients(t) == /\ stage[t] = "run" /\ Head(todo[t]) = "free_port"
                  /\ FreePortOfClients

(* A second of waiting: whoever listens is taken for the gateway. *)
Ready(t) == /\ stage[t] = "wait" /\ port # "free"
            /\ Return(t, "ok")
            /\ UNCHANGED <<pm2, home, round, spared, quit>>

NextRound(t) == round' = [round EXCEPT ![t] = @ + 1]

(* What is acted on in which round. *)
Remedied(t) == {"node", "port"} \cup IF round[t] = 0 THEN {"config", "crash"} ELSE {}

(* The round is over and the last lines of pm2's log are diagnosed.  A crash  *)
(* without a known cause ends a later round; an empty log, or a broken       *)
(* configuration found late, is only waited on.                              *)
Diagnose(t) ==
  /\ stage[t] = "wait" /\ port = "free"
  /\ NextRound(t)
  /\ \/ \E category \in Remedied(t) : Then(t, Remedy(category))
     \/ round[t] >= 1 /\ Return(t, "err")
     \/ Then(t, <<>>)
  /\ UNCHANGED <<pm2, home, spared, quit>>

(* No subprocess of a start has a timeout: pm2, also where the round's log   *)
(* is read, npm, `openclaw onboard`, lsof and kill.                          *)
Hangs(t) == /\ stage[t] \in {"run", "wait"}
            /\ stage' = [stage EXCEPT ![t] = "hung"]
            /\ todo' = [todo EXCEPT ![t] = <<>>]
            /\ UNCHANGED <<pm2, home, round, answer, spared, quit>>

-----------------------------------------------------------------------------
(* The other commands.  `pm2 stop` and `pm2 restart` of nothing do nothing.  *)

StopsEntry == /\ entry' = IF entry = "none" THEN "none" ELSE "stopped"
              /\ port' = Freed("gateway")

StopLocalService == /\ Running /\ StopsEntry
                    /\ UNCHANGED <<home, call, spared, quit>>

RestartLocalService == /\ Running /\ entry # "none"
                       /\ entry' = "online" /\ port' = Freed("gateway")
                       /\ UNCHANGED <<home, call, spared, quit>>

(* The tray's "quit" and the end of the main window, one after the other or  *)
(* alone; then the process ends with all calls under way.                    *)
StopOnExit == /\ Running /\ quit' = "stopped" /\ StopsEntry
              /\ UNCHANGED <<home, call, spared>>
AppExits == /\ quit = "stopped" /\ quit' = "gone" /\ AllCallsEnd
            /\ UNCHANGED <<pm2, home, round, answer, spared>>

Step(t) == Operate(t) \/ KillClients(t) \/ Ready(t) \/ Diagnose(t)
GatewayNext == \/ \E t \in Task : Begin(t) \/ Step(t) \/ Hangs(t)
               \/ Listens \/ Crashes
               \/ StopLocalService \/ RestartLocalService \/ StopOnExit \/ AppExits

(* A subprocess that does not hang ends, and a second passes. *)
GatewaySpec == GatewayInit /\ [][GatewayNext]_gatevars /\ \A t \in Task : WF_gatevars(Step(t))

-----------------------------------------------------------------------------
Operation == {"free_port", "clean_up", "kill_pm2", "start", "start_again",
              "rescan", "set_aside", "onboard"}

GatewayTypeOK == /\ port \in {"free", "gateway", "other"}
                 /\ entry \in {"none", "online", "stopped"}
                 /\ config \in {"none", "users", "fresh"} /\ backup \in {"none", "old", "users", "fresh"}
                 /\ todo \in [Task -> Seq(Operation)]
                 /\ stage \in [Task -> {"idle", "run", "wait", "hung", "done"}]
                 /\ round \in [Task -> 0..Rounds]
                 /\ answer \in [Task -> {"none", "ok", "err"}]
                 /\ spared \subseteq Task
                 /\ quit \in {"no", "stopped", "gone", "killed"}

(* API.md:95: the step starts the gateway and waits until it is healthy.     *)
(* Readiness is a TCP connect, so this is so only as far as the kill goes:   *)
(* "gateway ready" is said while the gateway itself listens, or else this    *)
(* call has tried to kill the program that listens and has failed, whatever  *)
(* other calls do to pm2 and the port meanwhile.                             *)
ReadyIsGatewayOrSurvivor ==
  [][\A t \in Task : answer[t] # "ok" /\ answer'[t] = "ok"
                      => port = "gateway" \/ (port = "other" /\ t \in spared)]_gatevars

(* However often a broken configuration is reset, and by however many calls  *)
(* at once, the one the user made stays in place or in the backup.  (Unless  *)
(* the backup of an earlier deployment is in the way: then nothing is set    *)
(* aside and `onboard` works on the user's configuration.)                   *)
ConfigSafe == [][("users" \in {config, backup} /\ backup # "old")
                   => ("users" \in {config', backup'})]_gatevars

(* The rounds and remedies of a start come to an end, whatever pm2, the      *)
(* gateway and the other commands do: it returns, or waits for a subprocess  *)
(* that never does.                                                          *)
StartEnds == \A t \in Task : (stage[t] # "idle") ~> (stage[t] \in {"hung", "done"})

-----------------------------------------------------------------------------
(* What a comment says and the code does not do. *)

(* pm2.rs:194 "to stop the gateway so it does not remain as an orphan        *)
(* background process after the app closes".                                 *)
NoOrphan == quit = "gone" => entry # "online"
=============================================================================
