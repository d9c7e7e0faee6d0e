------------------------------ MODULE WsClient ------------------------------
(***************************************************************************)
(* The persistent WebSocket client `OpenClawWs` of clawno-core             *)
(* (crates/clawno-core/src/ws_chat.rs), used by several tasks at once.     *)
(*                                                                         *)
(* One task is one chat request: it calls `chat_streaming` on a client and *)
(* steps from await point to await point.  A client keeps its connection   *)
(* in `conn: Mutex<Option<ActiveConn>>`; the mutex is held across the      *)
(* awaits of `connect` (the dial) and of `collect_agent_response`.  The    *)
(* gateway at the other end of the socket is external and is modelled by   *)
(* the frames the client understands.                                      *)
(*                                                                         *)
(* A run is one execution of the agent by the gateway.  It is named by the *)
(* request and the attempt that sent it, as every call of                  *)
(* `chat_streaming_inner` draws a fresh req_id and a fresh idempotencyKey. *)
(***************************************************************************)
EXTENDS Naturals, Sequences, FiniteSets

CONSTANTS Request,    \* the chat requests (tasks)
          Client,     \* the OpenClawWs instances
          NoClient,   \* Option::None where a client is expected
          NoOne,      \* the holder of a free mutex
          NoRun,      \* the run of a frame that belongs to none
          EndKind,    \* the ways the gateway may end a run, a set of frame kinds
          MaxDelta,   \* bound: text deltas the gateway streams per run
          MaxBreaks   \* bound: sockets that break

ASSUME NoClientAssumption == NoClient \notin Client
ASSUME NoOneAssumption == NoOne \notin Request
ASSUME EndKindAssumption == EndKind \subseteq {"done", "text", "fail", "nak", "err"}
ASSUME BoundAssumption == MaxDelta \in Nat /\ MaxBreaks \in Nat

VARIABLES pc,        \* the await point each request is at
          attempt,   \* 1, or 2 inside the retry of chat_streaming
          client,    \* the client the request's Arc points to
          conn,      \* Option<ActiveConn>: none, or a socket that is up or dead
          lock,      \* the task holding conn's mutex across an await
          inbox,     \* frames on the socket the client has not read
          feed,      \* runs the gateway is answering on the client's socket
          deltas,    \* deltas the gateway has streamed for a run
          parts,     \* text_parts of collect_agent_response, by the run it is from
          shown,     \* what on_delta was given over both attempts
          outcome,   \* what chat_streaming returned
          breaks     \* sockets broken so far

wsVars == <<pc, attempt, client, conn, lock, inbox, feed, deltas, parts, shown,
            outcome, breaks>>

Run == Request \X {1, 2}
ASSUME NoRunAssumption == NoRun \notin Run

(* A "note" stands for every Text frame the reader passes over: ticks,       *)
(* presence, heartbeats, `accepted` acknowledgements, tool calls, unknown    *)
(* types and texts that do not parse.  All of them renew the idle deadline.  *)
Frame == [kind : {"delta"} \cup EndKind, run : Run] \cup [kind : {"note"}, run : {NoRun}]

(* The error strings, by the prefix the callers test for. *)
LostOrLate == {"ws-send-error", "ws-closed", "ws-timeout"}  \* mutant: retries timeouts too
Lost == {"ws-send-error", "ws-closed"}       \* ws-recv-error is handled as ws-closed
Kept == {"ws-timeout", "ws-gateway-error"}   \* these leave the connection in place
Outcome == {"none", "ok", "ws-not-connected", "ws-connect-error", "dropped"}
             \cup Lost \cup Kept

ChatPC == {"ensure", "connect", "dial", "send", "sending", "collect", "reset",
           "reconnect", "redial", "returned"}
(* The await points at which the task owns the connection's mutex. *)
Holding == {"dial", "redial", "sending", "collect"}

Init == /\ pc = [r \in Request |-> "idle"]
        /\ attempt = [r \in Request |-> 1]
        /\ client = [r \in Request |-> NoClient]
        /\ conn = [c \in Client |-> "none"]
        /\ lock = [c \in Client |-> NoOne]
        /\ inbox = [c \in Client |-> <<>>]
        /\ feed = [c \in Client |-> {}]
        /\ deltas = [u \in Run |-> 0]
        /\ parts = [r \in Request |-> {}]
        /\ shown = [r \in Request |-> {}]
        /\ outcome = [r \in Request |-> "none"]
        /\ breaks = 0

-----------------------------------------------------------------------------
(* The socket and its mutex. *)

Goto(r, there) == pc' = [pc EXCEPT ![r] = there]
IsFree(c) == lock[c] = NoOne
LookOnly(r, c) == UNCHANGED lock   \* mutant: the guard is dropped after the look
Acquire(r, c) == lock' = [lock EXCEPT ![c] = r]
Release(c) == lock' = [lock EXCEPT ![c] = NoOne]

(* A socket replaced or dropped takes its unread frames and the gateway's    *)
(* answers with it.                                                          *)
SetConn(c, state) == /\ conn' = [conn EXCEPT ![c] = state]
                     /\ inbox' = [inbox EXCEPT ![c] = <<>>]
                     /\ feed' = [feed EXCEPT ![c] = {}]
KeepConn == UNCHANGED <<conn, inbox, feed>>

Returns(r, result) == /\ Goto(r, "returned")
                      /\ outcome' = [outcome EXCEPT ![r] = result]

FailsWithoutLimit(r, error) ==   \* mutant: every lost attempt is retried
  \/ /\ error \in Lost
     /\ Goto(r, "reset")
     /\ UNCHANGED outcome
  \/ /\ error \notin Lost
     /\ Returns(r, error)

(* chat_streaming retries once, and only what lost the connection. *)
Fails(r, error) ==
  \/ /\ error \in Lost /\ attempt[r] = 1
     /\ Goto(r, "reset")
     /\ UNCHANGED outcome
  \/ /\ ~(error \in Lost /\ attempt[r] = 1)
     /\ Returns(r, error)

-----------------------------------------------------------------------------
(* chat_streaming, one action per await point. *)

(* ensure_connected: looks under the lock, and connects after releasing it. *)
Ensure(r) ==
  LET c == client[r] IN
  /\ pc[r] = "ensure" /\ IsFree(c)
  /\ Goto(r, IF conn[c] # "none" THEN "send" ELSE "connect")
  /\ UNCHANGED <<attempt, client, conn, lock, inbox, feed, deltas, parts, shown,
                 outcome, breaks>>

(* connect(): a no-op if another task connected meanwhile, else the dial and *)
(* the handshake run with the mutex held.                                    *)
Connect(r) ==
  LET c == client[r] IN
  /\ pc[r] \in {"connect", "reconnect"} /\ IsFree(c)
  /\ \/ /\ pc[r] = "connect"
        /\ Goto(r, IF conn[c] # "none" THEN "send" ELSE "dial")
     \/ /\ pc[r] = "reconnect"
        /\ Goto(r, IF conn[c] # "none" THEN "ensure" ELSE "redial")
  /\ lock' = IF conn[c] # "none" THEN lock ELSE [lock EXCEPT ![c] = r]
  /\ UNCHANGED <<attempt, client, conn, inbox, feed, deltas, parts, shown, outcome,
                 breaks>>

DialDone(r) ==
  LET c == client[r] IN
  /\ pc[r] \in {"dial", "redial"}
  /\ Goto(r, IF pc[r] = "dial" THEN "send" ELSE "ensure")
  /\ SetConn(c, "up") /\ Release(c)
  /\ UNCHANGED <<attempt, client, deltas, parts, shown, outcome, breaks>>

(* Dial errors the caller does not retry are all named ws-connect-error here. *)
(* The handshake may also end with ws-closed, which chat_streaming takes for  *)
(* a lost connection; the retry's own connect is final.                       *)
DialFails(r, error) ==
  LET c == client[r] IN
  /\ pc[r] \in {"dial", "redial"}
  /\ Fails(r, error)
  /\ Release(c) /\ KeepConn
  /\ UNCHANGED <<attempt, client, deltas, parts, shown, breaks>>

(* collect_agent_response starts with empty text_parts. *)
FreshText(r) == parts' = [parts EXCEPT ![r] = {}]

(* The agent request goes out under the mutex, which is then kept for the    *)
(* whole answer.                                                             *)
StartSend(r) ==
  LET c == client[r] IN
  /\ pc[r] = "send" /\ IsFree(c) /\ conn[c] # "none"
  /\ Goto(r, "sending") /\ Acquire(r, c)
  /\ UNCHANGED <<attempt, client, conn, inbox, feed, deltas, parts, shown, outcome,
                 breaks>>

(* The send returns.  A dead socket may take the frame without an error. *)
SendReq(r) ==
  LET c == client[r] IN
  /\ pc[r] = "sending"
  /\ Goto(r, "collect")
  /\ feed' = IF conn[c] = "up"
             THEN [feed EXCEPT ![c] = @ \cup {<<r, attempt[r]>>}]
             ELSE feed
  /\ FreshText(r)
  /\ UNCHANGED <<attempt, client, conn, lock, inbox, deltas, shown, outcome, breaks>>

SendFails(r) ==
  LET c == client[r] IN
  /\ pc[r] = "sending" /\ conn[c] = "dead"
  /\ SetConn(c, "none") /\ Release(c)
  /\ Fails(r, "ws-send-error")
  /\ UNCHANGED <<attempt, client, deltas, parts, shown, breaks>>

(* Another task dropped the connection after ensure_connected looked. *)
NotConnected(r) ==
  LET c == client[r] IN
  /\ pc[r] = "send" /\ IsFree(c) /\ conn[c] = "none"
  /\ Fails(r, "ws-not-connected")
  /\ UNCHANGED <<attempt, client, conn, lock, inbox, feed, deltas, parts, shown,
                 breaks>>

TakeText(r, u) == /\ parts' = [parts EXCEPT ![r] = @ \cup {u}]
                  /\ shown' = [shown EXCEPT ![r] = @ \cup {u}]

(* The summary text of a final frame counts only if nothing was streamed. *)
IgnoreSummary(r, u) == UNCHANGED <<parts, shown>>   \* mutant: only deltas count
TakeSummary(r, u) == \/ parts[r] = {} /\ TakeText(r, u)
                     \/ parts[r] # {} /\ UNCHANGED <<parts, shown>>

(* collect_agent_response reads one frame.  Only `res` frames are matched by *)
(* request id: text events and the `error` frame are taken whoever they were *)
(* meant for.                                                                *)

ReadFrame(r) ==
  LET c == client[r]
      f == Head(inbox[c])
      mine == f.run = <<r, attempt[r]>>
  IN
  /\ pc[r] = "collect" /\ inbox[c] # <<>>
  /\ inbox' = [inbox EXCEPT ![c] = Tail(@)]
  /\ \/ /\ f.kind = "delta"
        /\ TakeText(r, f.run)
        /\ UNCHANGED <<pc, lock, outcome>>
     \/ /\ f.kind = "done" /\ mine
        /\ TakeSummary(r, f.run)
        /\ Returns(r, "ok") /\ Release(c)
     \/ /\ f.kind = "text" /\ mine
        /\ TakeText(r, f.run)
        /\ Returns(r, "ok") /\ Release(c)
     \/ /\ f.kind = "fail" /\ mine
        /\ Returns(r, IF parts[r] = {} THEN "ws-gateway-error" ELSE "ok")
        /\ Release(c)
        /\ UNCHANGED <<parts, shown>>
     \/ /\ f.kind = "err" \/ (f.kind = "nak" /\ mine)
        /\ Returns(r, "ws-gateway-error") /\ Release(c)
        /\ UNCHANGED <<parts, shown>>
     \/ /\ f.kind = "note" \/ (f.kind \in {"done", "text", "fail", "nak"} /\ ~mine)
        /\ UNCHANGED <<pc, lock, outcome, parts, shown>>
  /\ UNCHANGED <<attempt, client, conn, feed, deltas, breaks>>

(* The stream ends or errs: the connection is dropped with the mutex held. *)
RecvLost(r) ==
  LET c == client[r] IN
  /\ pc[r] = "collect" /\ conn[c] = "dead" /\ inbox[c] = <<>>
  /\ SetConn(c, "none") /\ Release(c)
  /\ Fails(r, "ws-closed")
  /\ UNCHANGED <<attempt, client, deltas, parts, shown, breaks>>

(* 120 s without a Text frame: an error that leaves the connection in the    *)
(* client.  Every frame that is read, a note too, starts the 120 s again, so *)
(* a gateway that goes on sending notes keeps this step from coming.         *)
IdleTimeout(r) ==
  LET c == client[r] IN
  /\ pc[r] = "collect" /\ inbox[c] = <<>>
  /\ Fails(r, "ws-timeout")
  /\ Release(c) /\ KeepConn
  /\ UNCHANGED <<attempt, client, deltas, parts, shown, breaks>>

(* The retry empties the option whatever it holds by now. *)
RetryReset(r) ==
  LET c == client[r] IN
  /\ pc[r] = "reset" /\ IsFree(c)
  /\ SetConn(c, "none")
  /\ attempt' = [attempt EXCEPT ![r] = 2]
  /\ Goto(r, "reconnect")
  /\ UNCHANGED <<client, lock, deltas, parts, shown, outcome, breaks>>

(* The caller may drop the future at an await: the guard goes, the connection *)
(* and the run on it stay.                                                    *)
Drop(r) ==
  LET c == client[r] IN
  /\ pc[r] \in ChatPC \ {"returned"}
  /\ Goto(r, "gone")
  /\ outcome' = [outcome EXCEPT ![r] = "dropped"]
  /\ lock' = IF lock[c] = r THEN [lock EXCEPT ![c] = NoOne] ELSE lock
  /\ KeepConn
  /\ UNCHANGED <<attempt, client, deltas, parts, shown, breaks>>

(* The awaits that wait for the peer to take bytes or to finish the handshake: *)
(* the sends of the client have no timeout.                                    *)
SocketStep(r) == \/ DialDone(r)
                 \/ DialFails(r, "ws-connect-error") \/ DialFails(r, "ws-closed")
                 \/ SendReq(r) \/ SendFails(r)

(* The awaits that end by a mutex that is free, a frame that is there or a timer. *)
OwnStep(r) == \/ Ensure(r) \/ Connect(r) \/ StartSend(r) \/ NotConnected(r)
              \/ ReadFrame(r) \/ RecvLost(r) \/ IdleTimeout(r) \/ RetryReset(r)

ChatStep(r) == OwnStep(r) \/ SocketStep(r)

-----------------------------------------------------------------------------
(* The gateway and the network. *)

(* The gateway streams text while it works on a run. *)
GatewayDelta(c, u) ==
  /\ u \in feed[c] /\ deltas[u] < MaxDelta
  /\ deltas' = [deltas EXCEPT ![u] = @ + 1]
  /\ inbox' = [inbox EXCEPT ![c] = Append(@, [kind |-> "delta", run |-> u])]
  /\ UNCHANGED <<pc, attempt, client, conn, lock, feed, parts, shown, outcome, breaks>>

(* It ends a run with a completed answer (which has text: a summary or one   *)
(* frame of text, as in the legacy `response`), a failed one, a refusal, or  *)
(* an `error` frame that names no request.                                   *)
GatewayEnd(c, u, kind) ==
  /\ u \in feed[c]
  /\ feed' = [feed EXCEPT ![c] = @ \ {u}]
  /\ inbox' = [inbox EXCEPT ![c] = Append(@, [kind |-> kind, run |-> u])]
  /\ UNCHANGED <<pc, attempt, client, conn, lock, deltas, parts, shown, outcome, breaks>>

(* It also sends frames the client has no use for, as often as it likes.      *)
(* Bound: on a socket with nothing unread.  Such a frame behind others has no *)
(* effect before they are read.                                               *)
Noisy(c) == \E i \in DOMAIN inbox[c] : inbox[c][i].kind = "note"

GatewayNote(c) ==
  /\ conn[c] = "up" /\ inbox[c] = <<>>
  /\ inbox' = [inbox EXCEPT ![c] = Append(@, [kind |-> "note", run |-> NoRun])]
  /\ UNCHANGED <<pc, attempt, client, conn, lock, feed, deltas, parts, shown, outcome,
                 breaks>>

(* A socket breaks: what has arrived may still be readable or be lost too. *)
Break(c) ==
  /\ conn[c] = "up" /\ breaks < MaxBreaks
  /\ conn' = [conn EXCEPT ![c] = "dead"]
  /\ feed' = [feed EXCEPT ![c] = {}]
  /\ \/ UNCHANGED inbox
     \/ inbox' = [inbox EXCEPT ![c] = <<>>]
  /\ breaks' = breaks + 1
  /\ UNCHANGED <<pc, attempt, client, lock, deltas, parts, shown, outcome>>

Outside == \E c \in Client : \/ \E u \in Run : \/ GatewayDelta(c, u)
                                               \/ \E k \in EndKind : GatewayEnd(c, u, k)
                             \/ GatewayNote(c)
                             \/ Break(c)

-----------------------------------------------------------------------------
(* The client on its own: requests call chat_streaming on any client, which  *)
(* an owner may also disconnect or ping between two awaits of the others.    *)

Call(r) ==
  /\ pc[r] = "idle"
  /\ \E c \in Client : client' = [client EXCEPT ![r] = c]
  /\ Goto(r, "ensure")
  /\ UNCHANGED <<attempt, conn, lock, inbox, feed, deltas, parts, shown, outcome, breaks>>

Disconnect(c) ==
  /\ IsFree(c) /\ conn[c] # "none"
  /\ SetConn(c, "none")
  /\ UNCHANGED <<pc, attempt, client, lock, deltas, parts, shown, outcome, breaks>>

(* is_connected: the ping of a dead socket may or may not be noticed, and a  *)
(* noticed one empties the option.                                           *)
Ping(c, alive) ==
  /\ IsFree(c)
  /\ \/ alive /\ conn[c] # "none" /\ KeepConn
     \/ ~alive /\ conn[c] # "up" /\ SetConn(c, "none")

IsConnected(c) ==
  /\ \E alive \in BOOLEAN : Ping(c, alive)
  /\ UNCHANGED <<pc, attempt, client, lock, deltas, parts, shown, outcome, breaks>>

AllReturned == /\ \A r \in Request : pc[r] \in {"returned", "gone"}
               /\ UNCHANGED wsVars

Next == \/ \E r \in Request : Call(r) \/ ChatStep(r) \/ Drop(r)
        \/ \E c \in Client : Disconnect(c) \/ IsConnected(c)
        \/ Outside
        \/ AllReturned

(* A task is polled when its mutex, its frame or its timer is there; the      *)
(* gateway owes nothing, not even to take what is sent to it.                 *)
Fairness == \A r \in Request : WF_wsVars(OwnStep(r))

Spec == Init /\ [][Next]_wsVars /\ Fairness

-----------------------------------------------------------------------------
ChatTypeOK == /\ attempt \in [Request -> {1, 2}]
              /\ client \in [Request -> Client \cup {NoClient}]
              /\ conn \in [Client -> {"none", "up", "dead"}]
              /\ lock \in [Client -> Request \cup {NoOne}]
              /\ inbox \in [Client -> Seq(Frame)]
              /\ feed \in [Client -> SUBSET Run]
              /\ deltas \in [Run -> Nat]
              /\ parts \in [Request -> SUBSET Run]
              /\ shown \in [Request -> SUBSET Run]
              /\ outcome \in [Request -> Outcome]
              /\ breaks \in Nat

(* Every task is at an await point of chat_streaming, and what the client    *)
(* holds is what its types allow.                                            *)
TypeOK == /\ pc \in [Request -> {"idle", "gone"} \cup ChatPC]
          /\ ChatTypeOK

(* A task that owns a connection's mutex is dialling on it or reading from   *)
(* it, and nobody does either without owning it: a frame has one reader, and *)
(* the owner waits for no lock (connect, chat_streaming_inner).              *)
LockOwner == \A r \in Request : \A c \in Client :
                lock[c] = r <=> (pc[r] \in Holding /\ client[r] = c)

(* The gateway is still answering run u on c's socket, or c has not read all *)
(* that it sent for it.                                                      *)
Pending(c, u) == \/ u \in feed[c]
                 \/ \E i \in DOMAIN inbox[c] : inbox[c][i].run = u

(* The run's own request no longer waits for it although its connection was  *)
(* kept: it timed out, took a gateway error, or its caller dropped it.       *)
Abandoned(u) == outcome[u[1]] \in Kept \cup {"dropped"} /\ attempt[u[1]] = u[2]

(* What is pending on a socket belongs to the task that is reading it, or to *)
(* a request that was abandoned: neither a first attempt nor an answered     *)
(* request leaves frames behind for the next one (the `*guard = None` of     *)
(* chat_streaming and chat_streaming_inner).                                 *)
PendingIsOwnedOrAbandoned ==
  \A c \in Client : \A u \in Run : Pending(c, u) =>
     \/ lock[c] = u[1] /\ pc[u[1]] = "collect" /\ attempt[u[1]] = u[2]
     \/ Abandoned(u)

(* Text reaches a caller from its own run in progress, from its own first    *)
(* attempt (the retry streams again), or from an abandoned request: never    *)
(* from a request that was answered or is being retried.                     *)
ForeignTextIsAbandoned ==
  \A r \in Request : \A u \in shown[r] : u[1] = r \/ Abandoned(u)

(* A successful answer holds the text of its own last attempt, unless text   *)
(* of an abandoned request displaced it (`had_streaming_text`).              *)
AnswerIsOwn ==
  \A r \in Request : outcome[r] = "ok" =>
     \/ <<r, attempt[r]>> \in parts[r]
     \/ \E u \in parts[r] : u[1] # r /\ Abandoned(u)

(* The answer that is being collected or was returned never mixes the        *)
(* attempts of its request (the retry starts from an empty text_parts).      *)
OneAttempt ==
  \A r \in Request : pc[r] = "collect" \/ outcome[r] = "ok" =>
     \A u \in parts[r] : u[1] = r => u[2] = attempt[r]

(* The strengthening the proofs need: a call has a client and no outcome yet, *)
(* and the frame that ends a run is the last one the gateway sends for it.    *)
ClientKnown == \A r \in Request : pc[r] \in ChatPC => client[r] \in Client

OutcomeIsLast ==
  \A r \in Request : pc[r] \in {"idle"} \cup (ChatPC \ {"returned"}) => outcome[r] = "none"

EndIsLast ==
  \A c \in Client : \A i \in DOMAIN inbox[c] : inbox[c][i].kind \in EndKind =>
     /\ inbox[c][i].run \notin feed[c]
     /\ \A j \in DOMAIN inbox[c] : j > i => inbox[c][j].run # inbox[c][i].run

PartsKnown ==
  \A r \in Request :
     /\ outcome[r] = "ok" => parts[r] # {}
     /\ pc[r] = "collect" \/ outcome[r] = "ok" =>
          \A u \in parts[r] : u = <<r, attempt[r]>> \/ (u[1] # r /\ Abandoned(u))

(* What a call's return depends on outside the client: no send or handshake  *)
(* waits for ever (none of the sends has a timeout), and the gateway does not *)
(* go on for ever with frames that only renew the idle deadline.             *)
AtSocket == {"dial", "redial", "sending"}
SendsReturn == \A r \in Request : []<>(pc[r] \notin AtSocket)
Quiet == \A c \in Client : <>[]~Noisy(c)

(* Every call of chat_streaming returns on sockets that take what is sent,   *)
(* although the gateway may break them at any time, may never answer, and    *)
(* may send what is not for this call before it falls silent: the idle       *)
(* timeout frees the mutex the others wait for, and the retry is the last.   *)
CallsReturn ==
  SendsReturn /\ Quiet =>
     \A r \in Request : pc[r] = "ensure" ~> pc[r] \in {"returned", "gone"}
=============================================================================
