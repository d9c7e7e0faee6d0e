----------------------------- MODULE ChatEngine -----------------------------
(***************************************************************************)
(* The phone's chat: the React hook useChatEngine                          *)
(* (packages/shared/src/chat/useChatEngine.ts) with the Tauri commands     *)
(* stream_chat and stop_chat_stream behind it                              *)
(* (apps/mobile/src-tauri/src/chat.rs).                                    *)
(*                                                                         *)
(* The hook runs on one thread: an action is what happens between two      *)
(* awaits.  A turn is one accepted `send`; its continuation, its listeners *)
(* for chat-chunk and chat-done and its abort listener outlive the buttons *)
(* pressed meanwhile, while isSendingRef, cancelRef, abortControllerRef    *)
(* and activeReqIdRef are shared by all turns.                             *)
(***************************************************************************)
EXTENDS Naturals, Sequences, FiniteSets

CONSTANTS NoTurn,     \* null in abortControllerRef and activeReqIdRef
          NoSession,  \* null in sessionRef
          MaxTurn,    \* bound: turns, in the order they are sent
          MaxChunk,   \* bound: chat-chunk events per turn
          MaxLoad     \* bound: calls of loadSession and clear

ASSUME TurnBound == MaxTurn \in Nat /\ MaxChunk \in Nat /\ MaxLoad \in Nat
ASSUME NullAssumption == NoTurn \notin Nat /\ NoSession \notin Nat

Turn == 1..MaxTurn
(* A session is named for the turn that created it; 0 is an older one. *)
Session == 0..MaxTurn

VARIABLES
  pc,           \* where each turn's continuation is
  home,         \* the session the turn's messages are stored in
  heard,        \* chunks in accumulatedText
  skipped,      \* a chunk was ignored because of cancelRef
  listening,    \* the chunk and done listeners are registered
  armed,        \* the abort listener is registered
  aborted,      \* the turn's AbortSignal has fired
  stored,       \* assistant rows stored for the turn
  refused,      \* the history refused a row of the turn
  isSending, cancel, controller, activeReq,   \* the refs of the hook
  session,      \* sessionRef, currentSessionId
  isStreaming,  \* the reducer's flag: the page shows Stop instead of Send
  mounted,      \* mountedRef
  loads,        \* sessions whose messages are being loaded, and what asked
  loadsLeft,    \* bound on loads and clears
  backend,      \* stream_chat: not called, called, in the cancel map, over
  stops,        \* stop_chat_stream calls on their way
  mail          \* events emitted for a turn and not delivered

turnVars == <<pc, home, heard, skipped, listening, armed, aborted, stored, refused>>
refVars == <<isSending, cancel, controller, activeReq>>
pageVars == <<session, isStreaming, mounted, loads, loadsLeft>>
backVars == <<backend, stops, mail>>
vars == <<turnVars, refVars, pageVars, backVars>>

InFlight == {"create", "listen", "streaming"}
Torn == {"tornSaving", "torn"}   \* aborted while its reply was being saved

Init == /\ pc = [t \in Turn |-> "new"]
        /\ home = [t \in Turn |-> NoSession]
        /\ heard = [t \in Turn |-> 0]
        /\ skipped = [t \in Turn |-> FALSE]
        /\ listening = [t \in Turn |-> FALSE]
        /\ armed = [t \in Turn |-> FALSE]
        /\ aborted = [t \in Turn |-> FALSE]
        /\ stored = [t \in Turn |-> 0]
        /\ refused = [t \in Turn |-> FALSE]
        /\ isSending = FALSE /\ cancel = FALSE
        /\ controller = NoTurn /\ activeReq = NoTurn
        /\ isStreaming = FALSE /\ mounted = TRUE /\ loadsLeft = MaxLoad
        /\ \/ session = NoSession /\ loads = {}
           \/ session = 0 /\ loads = {<<0, "mount">>}   \* clawno-last-session
        /\ backend = [t \in Turn |-> "none"]
        /\ stops = {}
        /\ mail = [t \in Turn |-> <<>>]

Goto(t, there) == pc' = [pc EXCEPT ![t] = there]
ShowNever(flag) == UNCHANGED isStreaming   \* mutant: the page keeps its Stop button
Show(flag) == isStreaming' = IF mounted THEN flag ELSE isStreaming

-----------------------------------------------------------------------------
(* send, from await to await *)

(* The pair of messages is shown and the user's message stored; then the two *)
(* listeners are awaited.                                                    *)
AddPair(t) == /\ Goto(t, "listen")
              /\ isStreaming' = TRUE
              /\ activeReq' = t

MaySendAlways == TRUE   \* mutant: isSendingRef is not looked at
MaySend == ~isSending

(* The page does not call send while it shows a stream; send refuses a turn   *)
(* while another is being sent.                                               *)
Send(t) ==
  /\ pc[t] = "new" /\ \A u \in 1..(t - 1) : pc[u] # "new"
  /\ mounted /\ ~isStreaming /\ MaySend
  /\ isSending' = TRUE /\ cancel' = FALSE /\ controller' = t
  /\ \/ /\ session = NoSession
        /\ Goto(t, "create")
        /\ UNCHANGED <<home, activeReq, isStreaming>>
     \/ /\ session # NoSession
        /\ home' = [home EXCEPT ![t] = session]
        /\ AddPair(t)
  /\ UNCHANGED <<heard, skipped, listening, armed, aborted, stored, refused, session, mounted,
                 loads, loadsLeft, backVars>>

(* createSession resolves, or fails and the turn goes on without a session. *)
Created(t) ==
  /\ pc[t] = "create"
  /\ \/ /\ home' = [home EXCEPT ![t] = t]
        /\ session' = IF mounted THEN t ELSE session
     \/ UNCHANGED <<home, session>>
  /\ \/ mounted /\ AddPair(t) /\ UNCHANGED isSending
     \/ /\ ~mounted /\ Goto(t, "over") /\ isSending' = FALSE
        /\ UNCHANGED <<isStreaming, activeReq>>
  /\ UNCHANGED <<heard, skipped, listening, armed, aborted, stored, refused, cancel, controller,
                 mounted, loads, loadsLeft, backVars>>

(* The listeners are registered; only now the abort listener is, and the     *)
(* command is invoked.                                                       *)
Listened(t) ==
  /\ pc[t] = "listen"
  /\ Goto(t, "streaming")
  /\ listening' = [listening EXCEPT ![t] = TRUE]
  /\ armed' = [armed EXCEPT ![t] = TRUE]
  /\ backend' = [backend EXCEPT ![t] = "called"]
  /\ UNCHANGED <<home, heard, skipped, aborted, stored, refused, refVars, pageVars, stops, mail>>

(* listen rejects. *)
ListenFails(t) ==
  /\ pc[t] = "listen"
  /\ Goto(t, "over")
  /\ Show(FALSE)
  /\ isSending' = FALSE
  /\ UNCHANGED <<home, heard, skipped, listening, armed, aborted, stored, refused, cancel,
                 controller, activeReq, session, mounted, loads, loadsLeft, backVars>>

-----------------------------------------------------------------------------
(* the listeners *)

FinishMounted(t) ==   \* mutant: an unmounted page returns before it clears the flag
  /\ Goto(t, IF pc[t] = "tornSaving" THEN "torn" ELSE "over")
  /\ isSending' = IF mounted THEN FALSE ELSE isSending
  /\ Show(FALSE)

(* The end of the chat-done handler, whichever turn is in flight by then. *)
Finish(t) == /\ Goto(t, IF pc[t] = "tornSaving" THEN "torn" ELSE "over")
             /\ isSending' = FALSE
             /\ Show(FALSE)

(* addMessage settles: the row is in the history, or it was refused, which is *)
(* written to the console only.                                              *)
AddMessage(t) ==
  \/ stored' = [stored EXCEPT ![t] = @ + 1] /\ UNCHANGED refused
  \/ refused' = [refused EXCEPT ![t] = TRUE] /\ UNCHANGED stored

Chunk(t) ==
  /\ mail[t] # <<>> /\ Head(mail[t]) = "chunk"
  /\ mail' = [mail EXCEPT ![t] = Tail(@)]
  /\ \/ /\ listening[t] /\ ~cancel
        /\ heard' = [heard EXCEPT ![t] = @ + 1]
        /\ UNCHANGED skipped
     \/ /\ listening[t] /\ cancel
        /\ skipped' = [skipped EXCEPT ![t] = TRUE]
        /\ UNCHANGED heard
     \/ ~listening[t] /\ UNCHANGED <<heard, skipped>>
  /\ UNCHANGED <<pc, home, listening, armed, aborted, stored, refused, refVars, pageVars,
                 backend, stops>>

(* chat-done stores the reply first, or an error that looks like content if  *)
(* there was none; the rest waits for addMessage, whatever becomes of it.    *)
Done(t) ==
  /\ mail[t] # <<>> /\ Head(mail[t]) \in {"done", "error"}
  /\ mail' = [mail EXCEPT ![t] = Tail(@)]
  /\ LET saves == ~cancel /\ home[t] # NoSession IN
     \/ /\ ~listening[t]
        /\ UNCHANGED <<pc, listening, isSending, isStreaming>>
     \/ /\ listening[t]
        /\ saves /\ (heard[t] > 0 \/ Head(mail[t]) = "error")
        /\ listening' = [listening EXCEPT ![t] = FALSE]
        /\ Goto(t, "saving")
        /\ UNCHANGED <<isSending, isStreaming>>
     \/ /\ listening[t]
        /\ ~(saves /\ heard[t] > 0)
        /\ listening' = [listening EXCEPT ![t] = FALSE]
        /\ Finish(t)
  /\ UNCHANGED <<home, heard, skipped, armed, aborted, stored, refused, cancel, controller,
                 activeReq, session, mounted, loads, loadsLeft, backend, stops>>

Saved(t) ==
  /\ pc[t] \in {"saving", "tornSaving"}
  /\ AddMessage(t)
  /\ Finish(t)
  /\ UNCHANGED <<home, heard, skipped, listening, armed, aborted, cancel, controller,
                 activeReq, session, mounted, loads, loadsLeft, backVars>>

(* The abort listener stores what was heard, if anything, and does not wait. *)
StoresNot(t) == UNCHANGED <<stored, refused>>   \* mutant: the abort listener saves nothing
Stores(t) == IF home[t] # NoSession /\ heard[t] > 0 THEN AddMessage(t)
                                                    ELSE UNCHANGED <<stored, refused>>

(* abortControllerRef.current?.abort(): the signal fires once, and only the   *)
(* listeners registered before.  The abort listener is never removed: a turn  *)
(* that is over still has it.                                                 *)
FiresAgain(t) == armed[t]   \* mutant: the listener is not { once: true }
Fires(t) == armed[t] /\ ~aborted[t]

Abort ==
  /\ cancel' = TRUE
  /\ \/ /\ controller = NoTurn
        /\ UNCHANGED <<turnVars, isSending>>
     \/ LET t == controller IN
        /\ t # NoTurn
        /\ aborted' = [aborted EXCEPT ![t] = TRUE]
        /\ \/ /\ Fires(t)
              /\ listening' = [listening EXCEPT ![t] = FALSE]
              /\ Stores(t)
              /\ Goto(t, CASE pc[t] = "saving" -> "tornSaving"
                           [] pc[t] = "streaming" -> "over"
                           [] OTHER -> pc[t])
              /\ isSending' = FALSE
           \/ /\ ~Fires(t)
              /\ UNCHANGED <<pc, listening, stored, refused, isSending>>
        /\ UNCHANGED <<home, heard, skipped, armed>>
  /\ UNCHANGED controller

-----------------------------------------------------------------------------
(* the buttons of the page *)

Stop ==
  /\ mounted /\ isStreaming
  /\ Abort
  /\ stops' = IF activeReq = NoTurn THEN stops ELSE stops \cup {activeReq}
  /\ activeReq' = NoTurn
  /\ isStreaming' = FALSE
  /\ UNCHANGED <<session, mounted, loads, loadsLeft, backend, mail>>

Clear ==
  /\ mounted /\ loadsLeft > 0
  /\ Abort
  /\ isStreaming' = FALSE /\ session' = NoSession
  /\ loadsLeft' = loadsLeft - 1
  /\ UNCHANGED <<activeReq, mounted, loads, backVars>>

LoadSession(s) ==
  /\ mounted /\ loadsLeft > 0 /\ <<s, "page">> \notin loads
  /\ s = 0 \/ \E t \in Turn : home[t] = s
  /\ Abort
  /\ isStreaming' = FALSE
  /\ loads' = loads \cup {<<s, "page">>} /\ loadsLeft' = loadsLeft - 1
  /\ UNCHANGED <<activeReq, session, mounted, backVars>>

(* The rows arrive: the last load to arrive wins. *)
LoadResumes == cancel' = FALSE   \* mutant: a load takes the cancel flag back
KeepCancel == UNCHANGED cancel

Loaded(load) ==
  /\ load \in loads
  /\ loads' = loads \ {load}
  /\ IF mounted THEN isStreaming' = FALSE /\ session' = load[1]
                ELSE UNCHANGED <<isStreaming, session>>
  /\ KeepCancel
  /\ UNCHANGED <<turnVars, isSending, controller, activeReq, mounted, loadsLeft, backVars>>

(* The rows cannot be read: what is shown stays, but the load of the mount    *)
(* forgets the session.                                                      *)
LoadFails(load) ==
  /\ load \in loads
  /\ loads' = loads \ {load}
  /\ session' = IF mounted /\ load[2] = "mount" THEN NoSession ELSE session
  /\ UNCHANGED <<turnVars, refVars, isStreaming, mounted, loadsLeft, backVars>>

Unmount == /\ mounted /\ mounted' = FALSE
           /\ UNCHANGED <<turnVars, refVars, session, isStreaming, loads, loadsLeft,
                          backVars>>

-----------------------------------------------------------------------------
(* stream_chat and stop_chat_stream *)

Emit(t, event) == mail' = [mail EXCEPT ![t] = Append(@, event)]

StreamStarts(t) ==
  /\ backend[t] = "called"
  /\ backend' = [backend EXCEPT ![t] = "running"]
  /\ UNCHANGED <<turnVars, refVars, pageVars, stops, mail>>

(* Until the command is over only chunks are in the mail. *)
StreamChunk(t) ==
  /\ backend[t] = "running" /\ Len(mail[t]) + heard[t] < MaxChunk
  /\ Emit(t, "chunk")
  /\ UNCHANGED <<turnVars, refVars, pageVars, backend, stops>>

(* do_stream always ends in chat-done, after its timeouts at the latest. *)
StreamEnds(t) ==
  /\ backend[t] = "running"
  /\ backend' = [backend EXCEPT ![t] = "over"]
  /\ \E event \in {"done", "error"} : Emit(t, event)
  /\ UNCHANGED <<turnVars, refVars, pageVars, stops>>

(* stop_chat_stream finds the turn in the cancel map, or does nothing. *)
StopArrives(t) ==
  /\ t \in stops
  /\ stops' = stops \ {t}
  /\ \/ /\ backend[t] = "running"
        /\ backend' = [backend EXCEPT ![t] = "over"]
        /\ Emit(t, "done")
     \/ /\ backend[t] # "running"
        /\ UNCHANGED <<backend, mail>>
  /\ UNCHANGED <<turnVars, refVars, pageVars>>

-----------------------------------------------------------------------------
TurnStep(t) == \/ Created(t) \/ Listened(t) \/ ListenFails(t) \/ Saved(t)
               \/ Chunk(t) \/ Done(t)
BackendStep(t) == StreamStarts(t) \/ StreamEnds(t)

Next == \/ \E t \in Turn : \/ Send(t) \/ TurnStep(t) \/ BackendStep(t)
                           \/ StreamChunk(t) \/ StopArrives(t)
        \/ Stop \/ Clear \/ Unmount
        \/ \E s \in Session : LoadSession(s)
        \/ \E load \in loads : Loaded(load) \/ LoadFails(load)

(* Promises settle, events are delivered and do_stream's requests time out. *)
Fairness == \A t \in Turn : WF_vars(TurnStep(t)) /\ WF_vars(BackendStep(t))

Spec == Init /\ [][Next]_vars /\ Fairness

-----------------------------------------------------------------------------
TypeOK ==
  /\ pc \in [Turn -> {"new", "saving", "over"} \cup InFlight \cup Torn]
  /\ home \in [Turn -> Session \cup {NoSession}]
  /\ heard \in [Turn -> 0..MaxChunk]
  /\ skipped \in [Turn -> BOOLEAN] /\ listening \in [Turn -> BOOLEAN]
  /\ armed \in [Turn -> BOOLEAN] /\ aborted \in [Turn -> BOOLEAN]
  /\ stored \in [Turn -> 0..2] /\ refused \in [Turn -> BOOLEAN]
  /\ isSending \in BOOLEAN /\ cancel \in BOOLEAN
  /\ controller \in Turn \cup {NoTurn} /\ activeReq \in Turn \cup {NoTurn}
  /\ session \in Session \cup {NoSession}
  /\ isStreaming \in BOOLEAN /\ mounted \in BOOLEAN
  /\ loads \subseteq Session \X {"mount", "page"} /\ loadsLeft \in 0..MaxLoad
  /\ backend \in [Turn -> {"none", "called", "running", "over"}]
  /\ stops \subseteq Turn
  /\ mail \in [Turn -> Seq({"chunk", "done", "error"})]

(* The refs are shared: a button pressed while a finished turn is being saved *)
(* lets the next turn in, and the saved one then clears its flag.             *)
Orderly == \A t \in Turn : pc[t] \notin Torn

(* isSendingRef keeps one turn in flight at a time, although it is cleared by *)
(* four different continuations, as long as no reply was torn.                *)
SingleFlight ==
  Orderly => Cardinality({t \in Turn : pc[t] \in InFlight}) <= 1

(* Text the user was shown is in the history once its turn is over, however   *)
(* it ended (by chat-done, by a button, or after the page was left), unless   *)
(* the history refused it: no way to end a turn forgets to store its reply.   *)
LostOnlyIfRefused ==
  Orderly => \A t \in Turn : pc[t] = "over" /\ heard[t] > 0 /\ home[t] # NoSession =>
                                stored[t] > 0 \/ refused[t]

(* The page shows Stop only while there is a turn to stop. *)
StreamingIsLive ==
  mounted /\ isStreaming => \E t \in Turn : pc[t] \in InFlight \cup {"saving", "tornSaving"}

(* A turn whose chunks are being ignored does not hear any later: cancelRef   *)
(* is not taken back under a turn that was stopped before its listeners.      *)
NoHoles == [][Orderly => \A t \in Turn : skipped[t] => heard'[t] = heard[t]]_vars

(* The page is never left unable to send. *)
SendRecovers == isSending ~> ~isSending

(* chatHistory.ts:9: "After each turn -> addMessage() for both user and      *)
(* assistant": a turn's reply is stored once.                                *)
StoredOnce == \A t \in Turn : stored[t] <= 1
=============================================================================
