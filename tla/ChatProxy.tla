----------------------------- MODULE ChatProxy ------------------------------
(***************************************************************************)
(* The desktop's REST proxy (apps/desktop/src-tauri/src/chat_proxy.rs) on  *)
(* top of the WebSocket client: every POST /v1/chat/completions takes the  *)
(* client out of the shared slot WS_CLIENT or creates one, streams or      *)
(* collects the answer, and empties the slot when the connection was lost. *)
(* The desktop is told of the exchange by the events remote-chat-request   *)
(* and remote-chat-done.                                                   *)
(*                                                                         *)
(* A client is named for the request whose get_ws_client created it, so    *)
(* Client = Request here.                                                  *)
(***************************************************************************)
EXTENDS WsClient

ASSUME ClientAssumption == Client = Request

VARIABLES slot,       \* WS_CLIENT
          slotLock,   \* the task holding WS_CLIENT's mutex across an await
          streaming,  \* req.stream
          audit,      \* the events emitted to the desktop for a request
          http        \* what the HTTP caller was sent last

proxyVars == <<slot, slotLock, streaming, audit, http>>
vars == <<wsVars, proxyVars>>

(* get_ws_client's await points; "evict" empties the slot; then the end. *)
ProxyPC == {"idle", "slot", "probe", "create", "store", "evict", "done", "gone"}

PInit == /\ Init
         /\ slot = NoClient
         /\ slotLock = NoOne
         /\ streaming = [r \in Request |-> FALSE]
         /\ audit = [r \in Request |-> <<>>]
         /\ http = [r \in Request |-> "none"]

-----------------------------------------------------------------------------
Emit(r, event) == audit' = [audit EXCEPT ![r] = Append(@, event)]
Reply(r, what) == http' = [http EXCEPT ![r] = what]

(* The stop chunk and [DONE] end every stream, also a failed one. *)
FinalReply(r) == Reply(r, CASE streaming[r] -> "stop"
                            [] ~streaming[r] /\ outcome[r] = "ok" -> "200"
                            [] OTHER -> "500")

(* A request without user text is refused. *)
Arrive(r) ==
  /\ pc[r] = "idle"
  /\ \/ \E s \in BOOLEAN : /\ streaming' = [streaming EXCEPT ![r] = s]
                           /\ Goto(r, "slot")
                           /\ UNCHANGED http
     \/ /\ Goto(r, "done") /\ Reply(r, "400")
        /\ UNCHANGED streaming
  /\ UNCHANGED <<attempt, client, conn, lock, inbox, feed, deltas, parts, shown,
                 outcome, breaks, slot, slotLock, audit>>

(* get_ws_client holds the slot's mutex while it pings the client in it,      *)
(* which in turn waits for the connection's mutex.                            *)
TakeSlot(r) ==
  /\ pc[r] = "slot" /\ slotLock = NoOne
  /\ IF slot = NoClient
     THEN Goto(r, "create") /\ UNCHANGED slotLock
     ELSE Goto(r, "probe") /\ slotLock' = r
  /\ UNCHANGED <<attempt, client, conn, lock, inbox, feed, deltas, parts, shown,
                 outcome, breaks, slot, streaming, audit, http>>

(* The handler has its client c: it announces the request and calls it, in a *)
(* task of its own when the answer is streamed.                              *)
Open(r, c) ==
  /\ client' = [client EXCEPT ![r] = c]
  /\ Goto(r, "ensure")
  /\ Emit(r, "request")
  /\ IF streaming[r] THEN Reply(r, "sse") ELSE UNCHANGED http

KeepSlot == UNCHANGED slotLock               \* mutant: the slot stays locked
FreeSlot == slotLock' = NoOne

Probe(r, alive) ==
  /\ pc[r] = "probe"
  /\ Ping(slot, alive)
  /\ FreeSlot
  /\ IF alive THEN Open(r, slot)
              ELSE Goto(r, "create") /\ UNCHANGED <<client, audit, http>>
  /\ UNCHANGED <<attempt, lock, deltas, parts, shown, outcome, breaks, slot, streaming>>

(* A new client connects; no other task can reach it yet. *)
CreateDone(r) ==
  /\ pc[r] = "create"
  /\ SetConn(r, "up")
  /\ Goto(r, "store")
  /\ UNCHANGED <<attempt, client, lock, deltas, parts, shown, outcome, breaks,
                 slot, slotLock, streaming, audit, http>>

CreateFails(r) ==
  /\ pc[r] = "create"
  /\ Goto(r, "done") /\ Reply(r, "500")
  /\ UNCHANGED <<attempt, client, conn, lock, inbox, feed, deltas, parts, shown,
                 outcome, breaks, slot, slotLock, streaming, audit>>

(* It replaces whatever the slot holds by then. *)
Store(r) ==
  /\ pc[r] = "store" /\ slotLock = NoOne
  /\ slot' = r
  /\ Open(r, r)
  /\ UNCHANGED <<attempt, conn, lock, inbox, feed, deltas, parts, shown, outcome,
                 breaks, slotLock, streaming>>

(* A lost connection empties the slot, before remote-chat-done when streaming *)
(* and after it when not.                                                     *)
AnnounceTwice(r) == Emit(r, "done")          \* mutant: announced here and when evicting
AnnounceLoss(r) == \/ streaming[r] /\ UNCHANGED audit
                   \/ ~streaming[r] /\ Emit(r, "done")

(* chat_full or chat_full_streaming returned. *)
Answer(r) ==
  /\ pc[r] = "returned"
  /\ IF outcome[r] \in Lost
     THEN /\ Goto(r, "evict")
          /\ AnnounceLoss(r)
          /\ UNCHANGED http
     ELSE /\ Goto(r, "done")
          /\ Emit(r, "done")
          /\ FinalReply(r)
  /\ UNCHANGED <<attempt, client, conn, lock, inbox, feed, deltas, parts, shown,
                 outcome, breaks, slot, slotLock, streaming>>

EvictUnlocked(r) ==   \* mutant: empties the slot under the ping of another request
  /\ pc[r] = "evict"
  /\ slot' = NoClient
  /\ Goto(r, "done")
  /\ IF streaming[r] THEN Emit(r, "done") ELSE UNCHANGED audit
  /\ FinalReply(r)
  /\ UNCHANGED <<attempt, client, conn, lock, inbox, feed, deltas, parts, shown,
                 outcome, breaks, slotLock, streaming>>

Evict(r) ==
  /\ pc[r] = "evict" /\ slotLock = NoOne
  /\ slot' = NoClient
  /\ Goto(r, "done")
  /\ IF streaming[r] THEN Emit(r, "done") ELSE UNCHANGED audit
  /\ FinalReply(r)
  /\ UNCHANGED <<attempt, client, conn, lock, inbox, feed, deltas, parts, shown,
                 outcome, breaks, slotLock, streaming>>

(* The HTTP connection goes away: the server drops the handler's future, at  *)
(* whatever await it is, with the guards it holds.  A streamed answer is in  *)
(* a task of its own by then and runs on.                                    *)
HangUp(r) ==
  \/ /\ ~streaming[r]
     /\ Drop(r)
     /\ UNCHANGED proxyVars
  \/ /\ \/ pc[r] \in {"slot", "probe", "create", "store"}
        \/ pc[r] = "evict" /\ ~streaming[r]
     /\ Goto(r, "gone")
     /\ outcome' = IF outcome[r] = "none" THEN [outcome EXCEPT ![r] = "dropped"]
                                          ELSE outcome
     /\ slotLock' = IF slotLock = r THEN NoOne ELSE slotLock
     /\ UNCHANGED <<attempt, client, conn, lock, inbox, feed, deltas, parts, shown,
                    breaks, slot, streaming, audit, http>>

(* The handler's own awaits, and those that wait for the gateway: the ping and *)
(* the handshake of a new client.                                              *)
HandlerStep(r) == TakeSlot(r) \/ Store(r) \/ Answer(r) \/ Evict(r)
PeerStep(r) == (\E alive \in BOOLEAN : Probe(r, alive)) \/ CreateDone(r) \/ CreateFails(r)
ProxyStep(r) == HandlerStep(r) \/ PeerStep(r)

TaskStep(r) == \/ ProxyStep(r)
               \/ ChatStep(r) /\ UNCHANGED proxyVars
OwnTask(r) == \/ HandlerStep(r)
              \/ OwnStep(r) /\ UNCHANGED proxyVars

AllDone == /\ \A r \in Request : pc[r] \in {"done", "gone"}
           /\ UNCHANGED vars

PNext == \/ \E r \in Request : Arrive(r) \/ TaskStep(r) \/ HangUp(r)
         \/ Outside /\ UNCHANGED proxyVars
         \/ AllDone

PSpec == PInit /\ [][PNext]_vars /\ \A r \in Request : WF_vars(OwnTask(r))

-----------------------------------------------------------------------------
PTypeOK == /\ pc \in [Request -> ProxyPC \cup ChatPC]
           /\ ChatTypeOK
           /\ slot \in Client \cup {NoClient}
           /\ slotLock \in Request \cup {NoOne}
           /\ streaming \in [Request -> BOOLEAN]
           /\ audit \in [Request -> Seq({"request", "done"})]
           /\ http \in [Request -> {"none", "400", "sse", "stop", "200", "500"}]

(* The slot's mutex is held across an await only to ping the client in the    *)
(* slot, so the slot cannot be emptied or replaced under the ping, and no     *)
(* task that owns a connection waits for the slot: the two mutexes of         *)
(* get_ws_client are always taken in the same order.                          *)
SlotBeforeConn ==
  /\ \A r \in Request : pc[r] = "probe" <=> slotLock = r
  /\ slotLock # NoOne => /\ slot # NoClient
                         /\ \A c \in Client : lock[c] # slotLock

(* The desktop sees a remote-chat-done for every remote-chat-request of a    *)
(* finished request, exactly one, and the caller's stream is closed only     *)
(* after it; only a caller that hung up can leave an exchange open.          *)
AuditPaired ==
  \A r \in Request :
     /\ pc[r] = "done" => audit[r] \in {<<>>, <<"request", "done">>}
     /\ http[r] \in {"stop", "200"} => audit[r] = <<"request", "done">>
     /\ audit[r] # <<>> /\ audit[r] # <<"request", "done">> =>
          audit[r] = <<"request">> /\ (pc[r] = "gone" => ~streaming[r])

(* The strengthening the proofs need: what was emitted and sent at each await *)
(* point of the handler, and that a request has no outcome before its call.   *)
NoOutcomeBeforeCall ==
  \A r \in Request : pc[r] \in {"idle", "slot", "probe", "create", "store"} =>
     outcome[r] = "none"

ExchangeAt(r) ==
  /\ pc[r] \in {"idle", "slot", "probe", "create", "store"} =>
       audit[r] = <<>> /\ http[r] = "none"
  /\ pc[r] \in ChatPC => audit[r] = <<"request">> /\ http[r] \in {"none", "sse"}
  /\ pc[r] = "evict" => /\ audit[r] = IF streaming[r] THEN <<"request">>
                                                      ELSE <<"request", "done">>
                        /\ http[r] \in {"none", "sse"}
  /\ pc[r] = "done" => \/ audit[r] = <<>> /\ http[r] \in {"400", "500"}
                       \/ audit[r] = <<"request", "done">>
  /\ pc[r] = "gone" => /\ audit[r] \in {<<>>, <<"request">>, <<"request", "done">>}
                       /\ streaming[r] => audit[r] # <<"request">>
                       /\ http[r] \in {"none", "sse"}

ExchangeKnown == \A r \in Request : ExchangeAt(r)

(* Every accepted request is answered, refused or hung up on, although its   *)
(* probe may wait, with the slot locked, behind the whole answer of another  *)
(* request: if no send and no handshake waits for ever (they have no         *)
(* timeout), and the gateway does not renew the idle deadline for ever.      *)
PeersGoOn ==
  \A r \in Request : []<>~(pc[r] = "create" \/ (pc[r] = "probe" /\ IsFree(slot)))
RequestsEnd ==
  SendsReturn /\ PeersGoOn /\ Quiet =>
     \A r \in Request : pc[r] = "slot" ~> pc[r] \in {"done", "gone"}

(* The proxy implements the service: see ChatService. *)
PhaseOf(r) ==
  CASE pc[r] = "idle"                                   -> "new"
    [] pc[r] = "done" /\ audit[r] = <<>>                -> "refused"
    [] outcome[r] = "ok"                                -> "answered"
    [] outcome[r] \in Kept                              -> "gaveup"
    [] outcome[r] = "dropped"                           -> "dropped"
    [] outcome[r] \in Outcome \ ({"none", "ok", "dropped"} \cup Kept) -> "failed"
    [] OTHER                                            -> "pending"

Service == INSTANCE ChatService WITH
             phase <- [r \in Request |-> PhaseOf(r)],
             text <- [r \in Request |-> {u[1] : u \in shown[r]}]
ImplementsService == Service!Spec

-----------------------------------------------------------------------------
(* What a comment says of the client and this code does not do. *)

(* ws_chat.rs:258 says the session key "isolates" sessions: a request is     *)
(* given the text of its own run only.                                       *)
SessionsIsolated == \A r \in Request : \A u \in shown[r] : u[1] = r
=============================================================================
