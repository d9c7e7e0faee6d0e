--------------------------- MODULE MCDeployPages ---------------------------
(***************************************************************************)
(* The pages that deploy and watch over gateways, for TLC: each page of    *)
(* the group is checked on its own, and `which` says which one.  Init and  *)
(* Next of the others stay out of the way: a page that is not chosen keeps *)
(* its initial state.                                                      *)
(***************************************************************************)
EXTENDS DeployPage, PhoneDeploy, PhoneServers, DesktopServers

VARIABLE which

(* h1's address is part of h2's text, as one port's digits begin another's.   *)
MCContains == {<<u, u>> : u \in Urls} \cup {<<"u2", "u1">>}

PagesInit ==
  /\ which \in {"deploy", "phone deploy", "phone servers", "desktop servers"}
  /\ DInit /\ PhoneInit /\ ServersInit /\ CardsInit
  /\ which # "deploy" => installed = {}
  /\ which # "desktop servers" => gatewayUp

Only(who) == which = who /\ UNCHANGED which

PagesNext ==
  \/ Only("deploy") /\ DNext /\ UNCHANGED <<phonevars, servervars, cardvars>>
  \/ Only("phone deploy") /\ PhoneNext /\ UNCHANGED <<dvars, servervars, cardvars>>
  \/ Only("phone servers") /\ ServersNext /\ UNCHANGED <<dvars, phonevars, cardvars>>
  \/ Only("desktop servers") /\ CardsNext /\ UNCHANGED <<dvars, phonevars, servervars>>

pagesvars == <<which, dvars, phonevars, servervars, cardvars>>

(* CheckAll is owed where the page is open; the others owe nothing in their   *)
(* initial state.                                                             *)
PagesSpec ==
  /\ PagesInit /\ [][PagesNext]_pagesvars /\ DFair /\ PhoneFair
  /\ WF_cardvars(which = "desktop servers" /\ CheckAll)

(* A page shows itself, or a control of its, as busy exactly while the handler *)
(* it started is in flight, on every page of the group: nothing that a busy    *)
(* page withholds can overlap what it waits for, and nothing stays withheld.   *)
BusyIsInFlight == DeployingIsBusy /\ PhoneIsBusy /\ TestingIsInFlight /\ ProbingIsInFlight /\ CardIsBusy

(* What a page runs and shows comes to its end, or to a command that never     *)
(* returns.                                                                    *)
PagesEnd == DeploymentEnds /\ PhoneEnds
=============================================================================
