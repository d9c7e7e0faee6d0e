------------------------------ MODULE PhoneChat -----------------------------
(***************************************************************************)
(* The chat page of the phone (apps/mobile/src/pages/ChatPage.tsx over     *)
(* chat/useChatPageState.ts): the machine selected, the chat proxy found   *)
(* for it, the routing of a message, the health polls and the repair.  The *)
(* engine that sends and streams is ChatEngine's; here it accepts one      *)
(* message at a time.  The rules that route are ModelRouter's; here any    *)
(* rule may hit.                                                           *)
(***************************************************************************)
EXTENDS Naturals, FiniteSets

CONSTANTS Machines,                            \* instances of the store
          NoMachine,
          MaxTexts, MaxChatVisits, MaxFlips, MaxSelections,  \* bounds
          MaxFlights  \* bound: calls in flight when the user starts another
ASSUME PhoneChatAssumption == NoMachine \notin Machines

VARIABLES
  store,     \* the instances: health, the proxy token kept, and the last token
  up,        \* the machines that answer
  chat,      \* the page: see NewChat
  chatVisit, \* the visit of the open page, 0 when another is shown
  sends,     \* messages on their way to the engine
  probes,    \* health probes under way: the machine, the visit, the control
  chatCounts \* what the bounds count

chatvars == <<store, up, chat, chatVisit, sends, probes, chatCounts>>

NewChat(m) == [selected |-> m, origin |-> NoMachine, discovering |-> {m}, input |-> FALSE, streaming |-> {},
               routes |-> TRUE, reconnecting |-> FALSE, repairing |-> {}]

PickDefault(m) == \/ store.health[m] = "online"
                  \/ \A n \in Machines : store.health[n] # "online"

PhoneChatInit ==
  /\ store = [health |-> [m \in Machines |-> "unknown"], token |-> [m \in Machines |-> NoMachine],
              last |-> NoMachine]
  /\ up \in SUBSET Machines /\ chat \in {NewChat(m) : m \in Machines} /\ chatVisit = 0
  /\ sends = {} /\ probes = {} /\ chatCounts = [texts |-> 0, visits |-> 0, flips |-> 0, selections |-> 0]

MayCall == Cardinality(sends) + Cardinality(probes) < MaxFlights
Count(c) == chatCounts' = [chatCounts EXCEPT ![c] = @ + 1]

-----------------------------------------------------------------------------
OpenChat ==
  /\ chatVisit = 0 /\ chatCounts.visits < MaxChatVisits /\ Count("visits")
  /\ chatVisit' = chatCounts'.visits /\ \E m \in Machines : PickDefault(m) /\ chat' = NewChat(m)
  /\ UNCHANGED <<store, up, sends, probes>>

LeaveChat == chatVisit # 0 /\ chatVisit' = 0 /\ UNCHANGED <<store, up, chat, sends, probes, chatCounts>>

MachineFlips(m) ==
  /\ chatCounts.flips < MaxFlips /\ Count("flips") /\ up' = IF m \in up THEN up \ {m} ELSE up \cup {m}
  /\ UNCHANGED <<store, chat, chatVisit, sends, probes>>

OnChat(p) == chatVisit # 0 /\ chat' = p /\ UNCHANGED <<store, up, chatVisit, sends, probes>>

TypeText == chat.streaming = {} /\ chatCounts.texts < MaxTexts /\ Count("texts") /\ OnChat([chat EXCEPT !.input = TRUE])

(* The picker ends the chat, not the proxy that was found.                    *)
SelectMachine(m) == \E r \in {chat.routes, TRUE} :
  /\ chatCounts.selections < MaxSelections /\ Count("selections")
  /\ OnChat([chat EXCEPT !.selected = m, !.streaming = {}, !.routes = r,
               !.discovering = IF chat.origin = NoMachine /\ m # chat.selected THEN @ \cup {m} ELSE @])

(* The switch of the router, or a model of the cloud, which no rule routes.   *)
Chooses == UNCHANGED chatCounts /\ OnChat([chat EXCEPT !.routes = ~@])
HandleNewChat == UNCHANGED chatCounts /\ OnChat([chat EXCEPT !.streaming = {}, !.input = FALSE])
ReplyEnds == chat.streaming # {} /\ UNCHANGED chatCounts /\ OnChat([chat EXCEPT !.streaming = {}])

-----------------------------------------------------------------------------
(* The discovery of the proxy.  The answer of one that a later effect         *)
(* cancelled is dropped.                                                      *)
DiscoverShows(m) ==
  /\ chat' = [chat EXCEPT !.discovering = @ \ {m}, !.origin = m]
  /\ store' = [store EXCEPT !.token[m] = m, !.last = m]

DiscoverAnswers(m) ==
  /\ chatVisit # 0 /\ m \in chat.discovering
  /\ \/ m \in up /\ chat.selected = m /\ chat.origin = NoMachine /\ DiscoverShows(m)
     \/ chat' = [chat EXCEPT !.discovering = @ \ {m}] /\ UNCHANGED store
  /\ UNCHANGED <<up, chatVisit, sends, probes, chatCounts>>

(* setProxyOrigin(null): what was found is forgotten and looked for again.    *)
Rediscovers(p) ==
  IF p.origin = NoMachine THEN p ELSE [p EXCEPT !.origin = NoMachine, !.discovering = @ \cup {p.selected}]

-----------------------------------------------------------------------------
(* buildSendOpts: a rule may route the message to another machine; the token  *)
(* is the selected machine's, or the last one found, or is asked for.         *)
HandleSend ==
  /\ chatVisit # 0 /\ chat.input /\ chat.streaming = {} /\ MayCall
  /\ \E target \in IF chat.routes THEN Machines ELSE {chat.selected} :
       LET own   == store.token[chat.selected]
           token == IF own # NoMachine THEN own ELSE store.last
       IN  sends' = sends \cup {[chosen |-> target, origin |-> chat.origin, token |-> token,
                                 visit |-> chatVisit, ready |-> token # NoMachine]}
  /\ UNCHANGED <<store, up, chat, chatVisit, probes, chatCounts>>

FetchesToken(s) ==
  /\ s \in sends /\ ~s.ready
  /\ \/ /\ s.chosen \in up /\ store' = [store EXCEPT !.token[s.chosen] = s.chosen, !.last = s.chosen]
        /\ sends' = (sends \ {s}) \cup {[s EXCEPT !.ready = TRUE, !.token = s.chosen]}
     \/ sends' = (sends \ {s}) \cup {[s EXCEPT !.ready = TRUE]} /\ UNCHANGED store
  /\ UNCHANGED <<up, chat, chatVisit, probes, chatCounts>>

(* do_stream: the proxy found is tried first, with a token it must know; then *)
(* the gateway that was chosen.                                               *)
Reaches(s) ==
  IF s.origin \in up /\ s.token = s.origin THEN s.origin ELSE IF s.chosen \in up THEN s.chosen ELSE NoMachine

EngineSend(s) ==
  /\ s \in sends /\ s.ready /\ sends' = sends \ {s}
  /\ chat' = IF chatVisit = s.visit /\ chat.streaming = {}
             THEN [chat EXCEPT !.streaming = {[chosen |-> s.chosen, via |-> Reaches(s)]}, !.input = FALSE]
             ELSE chat
  /\ UNCHANGED <<store, up, chatVisit, probes, chatCounts>>

-----------------------------------------------------------------------------
(* The health of the machine selected: polled while it is not online, probed  *)
(* when the user asks.                                                        *)
PollsOffline(m) ==   \* mutant: a machine whose health is not known is not polled
  /\ chatVisit # 0 /\ m = chat.selected /\ store.health[m] = "offline"
  /\ ~ \E p \in probes : p.machine = m /\ p.poll
  /\ probes' = probes \cup {[machine |-> m, visit |-> chatVisit, poll |-> TRUE]}
  /\ UNCHANGED <<store, up, chat, chatVisit, sends, chatCounts>>
Polls(m) ==
  /\ chatVisit # 0 /\ m = chat.selected /\ store.health[m] # "online"
  /\ ~ \E p \in probes : p.machine = m /\ p.poll
  /\ probes' = probes \cup {[machine |-> m, visit |-> chatVisit, poll |-> TRUE]}
  /\ UNCHANGED <<store, up, chat, chatVisit, sends, chatCounts>>

HandleReconnect ==
  /\ chatVisit # 0 /\ MayCall /\ ~chat.reconnecting /\ store.health[chat.selected] # "online"
  /\ chat' = [chat EXCEPT !.reconnecting = TRUE]
  /\ probes' = probes \cup {[machine |-> chat.selected, visit |-> chatVisit, poll |-> FALSE]}
  /\ UNCHANGED <<store, up, chatVisit, sends, chatCounts>>

ProbeEnds(p) ==
  /\ p \in probes /\ probes' = probes \ {p}
  /\ LET online == p.machine \in up
         page   == [chat EXCEPT !.reconnecting = @ /\ p.poll]
     IN  /\ store' = IF online THEN [store EXCEPT !.health[p.machine] = "online"]
                     ELSE IF p.poll THEN store ELSE [store EXCEPT !.health[p.machine] = "offline"]
         /\ chat' = IF chatVisit # p.visit THEN chat ELSE IF online THEN Rediscovers(page) ELSE page
  /\ UNCHANGED <<up, chatVisit, sends, chatCounts>>

(* The repair is asked of the proxy that was found.                           *)
AskRepair ==
  /\ chatVisit # 0 /\ chat.origin # NoMachine /\ store.health[chat.selected] = "online" /\ chat.repairing = {}
  /\ chat' = [chat EXCEPT !.repairing = {chat.origin}]
  /\ UNCHANGED <<store, up, chatVisit, sends, probes, chatCounts>>
RepairEnds ==
  /\ chatVisit # 0 /\ chat.repairing # {} /\ chat' = [chat EXCEPT !.repairing = {}]
  /\ UNCHANGED <<store, up, chatVisit, sends, probes, chatCounts>>

PhoneChatNext ==
  \/ OpenChat \/ LeaveChat \/ TypeText \/ Chooses \/ HandleNewChat \/ ReplyEnds
  \/ HandleSend \/ HandleReconnect \/ AskRepair \/ RepairEnds
  \/ \E m \in Machines : MachineFlips(m) \/ SelectMachine(m) \/ DiscoverAnswers(m) \/ Polls(m)
  \/ \E s \in sends : FetchesToken(s) \/ EngineSend(s)
  \/ \E p \in probes : ProbeEnds(p)

(* The timer of the polls ticks and a probe ends; the user owes nothing.      *)
PhoneChatFair == WF_chatvars(\E m \in Machines : Polls(m)) /\ WF_chatvars(\E p \in probes : ProbeEnds(p))
PhoneChatSpec == PhoneChatInit /\ [][PhoneChatNext]_chatvars /\ PhoneChatFair

-----------------------------------------------------------------------------
(* A proxy is shown as found only while its machine is the one selected: the   *)
(* answer about a machine the user has left is dropped.                        *)
DiscoveryIsCurrent ==
  [][chat'.origin # chat.origin /\ chat'.origin # NoMachine /\ chatVisit # 0 => chat'.origin = chat.selected]_chatvars

(* A machine that answers and stays selected is shown online, whatever was     *)
(* shown before.                                                               *)
RecoversOnline ==
  \A m \in Machines :
    [](chatVisit # 0 /\ chat.selected = m /\ m \in up) ~> (store.health[m] = "online")

(* What modelRouter.ts says: a message a rule matches is routed to the machine *)
(* the rule names.                                                             *)
RoutedReachesTarget == \A s \in chat.streaming : s.via \in {s.chosen, NoMachine}

(* A repair is asked of the machine selected.                                  *)
RepairsSelected ==
  [][chat'.repairing # {} /\ chat.repairing = {} => chat'.repairing = {chat.selected}]_chatvars
=============================================================================
