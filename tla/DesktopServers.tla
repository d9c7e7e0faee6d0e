--------------------------- MODULE DesktopServers ---------------------------
(***************************************************************************)
(* The desktop's InstancesPage and InstanceCard: the health of each        *)
(* instance, probed every 30 seconds and on demand, beside the handlers    *)
(* that start, restart, stop and remove the local gateway.  Every probe    *)
(* asks the port on this machine, for a remote instance as well.           *)
(***************************************************************************)
EXTENDS Naturals, FiniteSets

CONSTANTS Locals, Remotes, \* ids of the two kinds
          CardVisits,      \* bound: mounts of the page
          MaxTasks         \* bound: handlers in flight when the user starts another

VARIABLES
  cvisit, card,   \* the mount; by id the action its card shows
  health,         \* the store: the instances and their health
  tasks,          \* handlers between two awaits
  gatewayUp,      \* external: the local gateway answers
  removed         \* ids ever removed

cardvars == <<cvisit, card, health, tasks, gatewayUp, removed>>

Listed == DOMAIN health
Everything == Locals \cup Remotes
NoAction == [i \in Everything |-> "idle"]
Task(kind, i) == [kind |-> kind, id |-> i, visit |-> cvisit, seen |-> "unknown"]
SetHealthTo(i, h) == [j \in Listed |-> IF j = i THEN h ELSE health[j]]
Ends(t) == card' = IF t.visit = cvisit THEN [card EXCEPT ![t.id] = "idle"] ELSE card

CardsInit ==
  /\ cvisit = 1 /\ card = NoAction /\ tasks = {} /\ removed = {}
  /\ health = [i \in Everything |-> "unknown"]     \* partializeInstances
  /\ gatewayUp \in BOOLEAN

-----------------------------------------------------------------------------
(* Health. *)

CheckAllKeeps ==   \* mutant: what is shown is not reset before the probes
  /\ tasks' = tasks \cup {Task("check", i) : i \in Listed}
  /\ UNCHANGED <<cvisit, card, health, gatewayUp, removed>>
(* checkAll: the first mount, the button and the interval.                    *)
CheckAll ==
  /\ health' = [i \in Listed |-> "unknown"]
  /\ tasks' = tasks \cup {Task("check", i) : i \in Listed}
  /\ UNCHANGED <<cvisit, card, gatewayUp, removed>>

Refresh(i) ==
  /\ i \in Listed /\ card[i] = "idle" /\ Cardinality(tasks) < MaxTasks
  /\ health' = SetHealthTo(i, "unknown") /\ tasks' = tasks \cup {Task("check", i)}
  /\ UNCHANGED <<cvisit, card, gatewayUp, removed>>

Probes(t) == t.kind \in {"check", "restarted"}

ProbeReads(t) ==
  /\ t \in tasks /\ Probes(t) /\ t.seen = "unknown"
  /\ tasks' = (tasks \ {t}) \cup {[t EXCEPT !.seen = IF gatewayUp THEN "online" ELSE "offline"]}
  /\ UNCHANGED <<cvisit, card, health, gatewayUp, removed>>

(* A removed instance takes no health: checkAll looks again, and setHealth    *)
(* only maps over the list.                                                   *)
ProbeShows(t) ==
  /\ t \in tasks /\ Probes(t) /\ t.seen # "unknown" /\ tasks' = tasks \ {t}
  /\ health' = SetHealthTo(t.id, t.seen)
  /\ IF t.kind = "restarted" THEN Ends(t) ELSE UNCHANGED card
  /\ UNCHANGED <<cvisit, gatewayUp, removed>>

-----------------------------------------------------------------------------
(* The card's buttons. *)

Offered(i, kind) ==
  /\ i \in Listed \cap Locals /\ card[i] = "idle"
  /\ CASE kind = "start"   -> health[i] = "offline"
       [] kind = "restart" -> health[i] # "offline"
       [] kind = "stop"    -> health[i] # "offline"

WithFeedback(i, kind) ==
  /\ Offered(i, kind) /\ Cardinality(tasks) < MaxTasks
  /\ card' = [card EXCEPT ![i] = kind] /\ tasks' = tasks \cup {Task(kind, i)}
  /\ health' = IF kind = "restart" THEN SetHealthTo(i, "unknown") ELSE health
  /\ UNCHANGED <<cvisit, gatewayUp, removed>>

StartAnswers(t, ok) ==
  /\ t \in tasks /\ t.kind = "start" /\ tasks' = tasks \ {t} /\ Ends(t)
  /\ gatewayUp' = (ok \/ gatewayUp)
  /\ health' = SetHealthTo(t.id, IF ok THEN "online" ELSE "offline")
  /\ UNCHANGED <<cvisit, removed>>

(* After the command a pause, and then a probe or, for a stop, the verdict.   *)
RestartAnswers(t, up) ==
  /\ t \in tasks /\ t.kind = "restart"
  /\ tasks' = (tasks \ {t}) \cup {[t EXCEPT !.kind = "restarted"]}
  /\ gatewayUp' = up /\ UNCHANGED <<cvisit, card, health, removed>>

StopAnswers(t) ==
  /\ t \in tasks /\ t.kind = "stop"
  /\ tasks' = (tasks \ {t}) \cup {[t EXCEPT !.kind = "stopped"]}
  /\ gatewayUp' = FALSE /\ UNCHANGED <<cvisit, card, health, removed>>

StopShows(t) ==
  /\ t \in tasks /\ t.kind = "stopped" /\ tasks' = tasks \ {t} /\ Ends(t)
  /\ health' = SetHealthTo(t.id, "offline")
  /\ UNCHANGED <<cvisit, gatewayUp, removed>>

(* A command that throws changes nothing but the card.                        *)
CommandThrows(t) ==
  /\ t \in tasks /\ t.kind \in {"start", "restart", "stop"} /\ tasks' = tasks \ {t} /\ Ends(t)
  /\ UNCHANGED <<cvisit, health, gatewayUp, removed>>

(* The store first, the backend afterwards.                                   *)
RemoveCard(i) ==
  /\ i \in Listed /\ health' = [j \in Listed \ {i} |-> health[j]]
  /\ removed' = removed \cup {i}
  /\ tasks' = tasks \cup IF i \in Locals THEN {Task("uninstall", i)} ELSE {}
  /\ card' = [card EXCEPT ![i] = "idle"]
  /\ UNCHANGED <<cvisit, gatewayUp>>

UninstallEnds(t, ok) ==
  /\ t \in tasks /\ t.kind = "uninstall" /\ tasks' = tasks \ {t}
  /\ gatewayUp' = (gatewayUp /\ ~ok) /\ UNCHANGED <<cvisit, card, health, removed>>

RevisitCards ==
  /\ cvisit < CardVisits /\ Cardinality(tasks) < MaxTasks /\ cvisit' = cvisit + 1 /\ card' = NoAction
  /\ health' = [i \in Listed |-> "unknown"]
  /\ tasks' = tasks \cup {[Task("check", i) EXCEPT !.visit = cvisit + 1] : i \in Listed}
  /\ UNCHANGED <<gatewayUp, removed>>

GatewayDies == gatewayUp /\ gatewayUp' = FALSE /\ UNCHANGED <<cvisit, card, health, tasks, removed>>

TaskGoesOn(t) ==
  \/ ProbeReads(t) \/ ProbeShows(t) \/ RestartAnswers(t, TRUE) \/ RestartAnswers(t, FALSE)
  \/ StopAnswers(t) \/ StopShows(t) \/ CommandThrows(t)
  \/ \E ok \in BOOLEAN : StartAnswers(t, ok) \/ UninstallEnds(t, ok)

CardsNext ==
  \/ CheckAll \/ RevisitCards \/ GatewayDies
  \/ \E i \in Everything : \/ Refresh(i) \/ RemoveCard(i)
                           \/ \E kind \in {"start", "restart", "stop"} : WithFeedback(i, kind)
  \/ \E t \in tasks : TaskGoesOn(t)

(* The interval fires as long as the page is open. *)
CardsFair == WF_cardvars(CheckAll)
CardsSpec == CardsInit /\ [][CardsNext]_cardvars /\ CardsFair

-----------------------------------------------------------------------------
(* A card's buttons are off exactly while the one command it started is in    *)
(* flight: on one visit start, stop and restart of an instance never overlap. *)
CardIsBusy ==
  \A i \in Listed :
    Cardinality({t \in tasks : t.id = i /\ t.visit = cvisit /\ t.kind \notin {"check", "uninstall"}})
      = IF card[i] = "idle" THEN 0 ELSE 1

(* A gateway that is down for good is not shown as online for good, whichever *)
(* probes and commands were under way when it went down.                      *)
HealthConverges == [](([]~gatewayUp) => <>[](\A i \in Listed : health[i] # "online"))
=============================================================================
