--------------------------- MODULE ChatProxyProofs --------------------------
(***************************************************************************)
(* Proofs about ChatProxy for any number of requests: the invariant of the *)
(* WebSocket client still holds under the proxy, the slot's mutex is taken *)
(* before a connection's and never after it, every exchange announced to   *)
(* the desktop is completed exactly once, and the proxy does nothing that  *)
(* ChatService does not allow.                                             *)
(***************************************************************************)
EXTENDS ChatProxy, WsClientProofs

SlotOwner == /\ \A r \in Request : pc[r] = "probe" <=> slotLock = r
             /\ slotLock # NoOne => slot # NoClient

PInv == /\ PTypeOK
        /\ WsInv
        /\ SlotOwner
        /\ NoOutcomeBeforeCall
        /\ ExchangeKnown

Both == <<"request", "done">>

-----------------------------------------------------------------------------
(* The initial state satisfies the invariant. *)
LEMMA ProxyInit == PInit => PInv
<1> SUFFICES ASSUME PInit PROVE PInv
  OBVIOUS
<1>1. WsInv
  BY WsInit DEF PInit
<1>2. PTypeOK
  <2>1. <<>> \in Seq({"request", "done"})
    OBVIOUS
  <2> QED
    BY <1>1, <2>1 DEF PInit, Init, PTypeOK, ProxyPC, WsInv
<1>3. SlotOwner /\ NoOutcomeBeforeCall /\ ExchangeKnown
  BY NoOneAssumption DEF PInit, Init, SlotOwner, NoOutcomeBeforeCall, ExchangeKnown,
     ExchangeAt, ChatPC
<1> QED
  BY <1>1, <1>2, <1>3 DEF PInv

(* A step of the call moves its own request within the call. *)
LEMMA ChatStepMoves ==
  ASSUME PTypeOK, NEW r \in Request, ChatStep(r)
  PROVE  /\ pc[r] \in ChatPC
         /\ \E p \in ChatPC : pc' = [pc EXCEPT ![r] = p]
  BY DEF PTypeOK, ChatStep, OwnStep, SocketStep, StartSend, Ensure, Connect, DialDone, DialFails, SendReq, SendFails,
         NotConnected, ReadFrame, RecvLost, IdleTimeout, RetryReset, Fails, Returns, Goto, ChatPC

(* A step inside chat_streaming leaves the proxy's part alone. *)
LEMMA CallStepInv ==
  ASSUME PInv, NEW r \in Request, ChatStep(r), UNCHANGED proxyVars
  PROVE  PInv'
<1>1. WsInv'
  BY ChatStepInv DEF PInv
<1>2. PICK p \in ChatPC : pc' = [pc EXCEPT ![r] = p] /\ pc[r] \in ChatPC
  BY ChatStepMoves DEF PInv
<1>3. PTypeOK'
  BY <1>1, <1>2 DEF PInv, PTypeOK, WsInv, proxyVars
<1>4. SlotOwner'
  BY <1>2 DEF PInv, PTypeOK, SlotOwner, ChatPC, proxyVars
<1>5. NoOutcomeBeforeCall'
  <2>1. \A q \in Request \ {r} : outcome'[q] = outcome[q]
    BY DEF PInv, PTypeOK, ChatTypeOK, ChatStep, OwnStep, SocketStep, StartSend, Ensure, Connect, DialDone, DialFails, SendReq,
           SendFails, NotConnected, ReadFrame, RecvLost, IdleTimeout, RetryReset, Fails, Returns
  <2> QED
    BY <1>2, <2>1 DEF PInv, PTypeOK, NoOutcomeBeforeCall, ChatPC
<1>6. ExchangeKnown'
  BY <1>2 DEF PInv, PTypeOK, ExchangeKnown, ExchangeAt, ChatPC, proxyVars
<1> QED
  BY <1>1, <1>3, <1>4, <1>5, <1>6 DEF PInv

-----------------------------------------------------------------------------
(* What the handler does outside the call preserves the client's invariant. *)

(* A request that moves between await points of the handler owns no          *)
(* connection before or after, whatever it does to one.                      *)
LEMMA HandlerMovesInv ==
  ASSUME WsInv, NEW r \in Request, NEW p, p \notin {"idle"} \cup ChatPC,
         pc[r] \notin Holding, pc' = [pc EXCEPT ![r] = p],
         KeepConn \/ \E c \in Client : \E state \in {"none", "up"} : SetConn(c, state),
         \/ outcome' = outcome
         \/ outcome[r] = "none" /\ outcome' = [outcome EXCEPT ![r] = "dropped"],
         UNCHANGED <<attempt, client, lock, deltas, parts, shown, breaks>>
  PROVE  WsInv'
<1>1. conn' \in [Client -> {"none", "up", "dead"}] /\ inbox' \in [Client -> Seq(Frame)]
      /\ feed' \in [Client -> SUBSET Run]
  BY SetConnTypes DEF WsInv, ChatTypeOK, KeepConn
<1>2. pc' = [q \in Request |-> pc'[q]] /\ ChatTypeOK'
  BY <1>1 DEF WsInv, ChatTypeOK, Outcome
<1>3. LockOwner'
  BY DEF WsInv, LockOwner, Holding, ChatPC
<1>4. ClientKnown' /\ OutcomeIsLast'
  BY DEF WsInv, ChatTypeOK, ClientKnown, OutcomeIsLast
<1>5. /\ \A d \in Client : \A u \in Run : Pending(d, u)' => Pending(d, u)
      /\ EndIsLast'
  <2>1. CASE KeepConn
    BY <2>1 DEF WsInv, EndIsLast, Pending, KeepConn
  <2>2. ASSUME NEW c \in Client, NEW state \in {"none", "up"}, SetConn(c, state)
        PROVE  /\ \A d \in Client : \A u \in Run : Pending(d, u)' => Pending(d, u)
               /\ EndIsLast'
    <3>1. \A d \in Client : feed'[d] \subseteq feed[d] /\ inbox'[d] \in {inbox[d], <<>>}
      BY <2>2 DEF WsInv, ChatTypeOK, SetConn
    <3>2. DOMAIN <<>> = {}
      OBVIOUS
    <3>3. EndIsLast'
      BY <2>2, <3>2 DEF WsInv, ChatTypeOK, EndIsLast, SetConn
    <3> QED
      BY <3>1, <3>2, <3>3 DEF Pending
  <2> QED
    BY <2>1, <2>2
<1>6. \A u \in Run : Abandoned(u) => Abandoned(u)'
  BY DEF WsInv, ChatTypeOK, Abandoned, Run, Kept
<1>7. PendingIsOwnedOrAbandoned'
  BY <1>5, <1>6 DEF WsInv, PendingIsOwnedOrAbandoned, Holding
<1>8. ForeignTextIsAbandoned'
  BY <1>6 DEF WsInv, ChatTypeOK, ForeignTextIsAbandoned
<1>9. PartsKnown'
  <2>1. \A q \in Request : /\ outcome'[q] = "ok" => outcome[q] = "ok"
                           /\ pc'[q] = "collect" => pc[q] = "collect"
    BY DEF WsInv, ChatTypeOK, ChatPC
  <2> QED
    BY <1>6, <2>1 DEF WsInv, ChatTypeOK, PartsKnown
<1> QED
  BY <1>2, <1>3, <1>4, <1>5, <1>7, <1>8, <1>9 DEF WsInv

(* A handler that calls its client enters the call without an outcome. *)
LEMMA OpenInv ==
  ASSUME PInv, NEW r \in Request, NEW c \in Client, pc[r] \in {"probe", "store"},
         Open(r, c), KeepConn,
         UNCHANGED <<attempt, lock, deltas, parts, shown, outcome, breaks, streaming>>
  PROVE  WsInv' /\ NoOutcomeBeforeCall' /\ ExchangeKnown'
<1>1. outcome[r] = "none" /\ pc[r] \notin ChatPC
  BY DEF PInv, NoOutcomeBeforeCall, ChatPC
<1>2. \A d \in Client : lock[d] # r
  BY <1>1 DEF PInv, WsInv, LockOwner, Holding, ChatPC
<1>3. pc' = [q \in Request |-> pc'[q]] /\ ChatTypeOK'
  BY DEF PInv, WsInv, ChatTypeOK, Open, Goto, KeepConn
<1>4. LockOwner'
  BY <1>2 DEF PInv, WsInv, ChatTypeOK, LockOwner, Holding, Open, Goto
<1>5. ClientKnown' /\ OutcomeIsLast'
  BY <1>1 DEF PInv, WsInv, ChatTypeOK, ClientKnown, OutcomeIsLast, ChatPC, Open, Goto
<1>6. EndIsLast' /\ PendingIsOwnedOrAbandoned'
  BY <1>1 DEF PInv, WsInv, ChatTypeOK, EndIsLast, PendingIsOwnedOrAbandoned, Pending,
              Abandoned, Open, Goto, KeepConn
<1>7. ForeignTextIsAbandoned' /\ PartsKnown'
  BY <1>1 DEF PInv, WsInv, ChatTypeOK, ForeignTextIsAbandoned, PartsKnown, Abandoned, Open, Goto
<1>8. NoOutcomeBeforeCall'
  BY DEF PInv, WsInv, NoOutcomeBeforeCall, Open, Goto
<1>9. ExchangeKnown'
  <2>1. audit[r] = <<>> /\ http[r] = "none"
    BY DEF PInv, ExchangeKnown, ExchangeAt
  <2>2. audit' = [audit EXCEPT ![r] = <<"request">>]
    <3>1. Append(<<>>, "request") = <<"request">>
      OBVIOUS
    <3> QED
      BY <2>1, <3>1 DEF Open, Emit
  <2>3. ASSUME NEW q \in Request PROVE ExchangeAt(q)'
    <3>1. CASE q = r
      BY <3>1, <2>1, <2>2 DEF PInv, WsInv, PTypeOK, ExchangeAt, Open, Goto, Reply, ChatPC
    <3>2. CASE q # r
      BY <3>2, <2>2 DEF PInv, WsInv, PTypeOK, ExchangeKnown, ExchangeAt, Open, Goto, Reply
    <3> QED
      BY <3>1, <3>2
  <2> QED
    BY <2>3 DEF ExchangeKnown
<1> QED
  BY <1>3, <1>4, <1>5, <1>6, <1>7, <1>8, <1>9 DEF WsInv

-----------------------------------------------------------------------------
(* One lemma per step of the handler. *)

(* The events of one exchange. *)
LEMMA AppendDone ==
  ASSUME NEW r \in Request, PTypeOK, audit[r] = <<"request">>, Emit(r, "done")
  PROVE  audit' = [audit EXCEPT ![r] = Both]
<1> DEFINE S == {"request", "done"}
<1>1. <<"request">> \in Seq(S) /\ "done" \in S /\ Both \in Seq(S) /\ Len(<<"request">>) = 1
      /\ Len(Both) = 2 /\ Both[1] = "request" /\ Both[2] = "done"
  BY DEF Both
<1>2. /\ Append(<<"request">>, "done") \in Seq(S)
      /\ Len(Append(<<"request">>, "done")) = 2
      /\ Append(<<"request">>, "done")[1] = "request"
      /\ Append(<<"request">>, "done")[2] = "done"
  <2> HIDE DEF S
  <2> QED
    BY <1>1, AppendProperties
<1>3. Append(<<"request">>, "done") = Both
  <2> HIDE DEF S
  <2> QED
    BY <1>1, <1>2, SeqEqual
<1> QED
  BY <1>3 DEF PTypeOK, Emit

(* An emitted event keeps the type of the audit trail. *)
LEMMA EmitTypes ==
  ASSUME NEW r \in Request, NEW event \in {"request", "done"}, PTypeOK, Emit(r, event)
  PROVE  audit' \in [Request -> Seq({"request", "done"})]
<1>1. Append(audit[r], event) \in Seq({"request", "done"})
  BY AppendProperties DEF PTypeOK
<1> QED
  BY <1>1 DEF PTypeOK, Emit

(* A request that arrives is refused or goes for the slot. *)
LEMMA ArriveInv ==
  ASSUME PInv, NEW r \in Request, Arrive(r)
  PROVE  PInv'
<1>1. pc[r] = "idle" /\ \E p \in {"slot", "done"} : pc' = [pc EXCEPT ![r] = p]
  BY DEF Arrive, Goto
<1>2. WsInv'
  BY <1>1, HandlerMovesInv DEF PInv, Arrive, Holding, ChatPC, KeepConn
<1>3. PTypeOK'
  BY <1>1, <1>2 DEF PInv, PTypeOK, WsInv, Arrive, Reply, ProxyPC
<1>4. SlotOwner' /\ NoOutcomeBeforeCall'
  BY <1>1, NoOneAssumption DEF PInv, PTypeOK, SlotOwner, NoOutcomeBeforeCall, Arrive
<1>5. ExchangeKnown'
  BY <1>1 DEF PInv, PTypeOK, ExchangeKnown, ExchangeAt, ChatPC, Arrive, Goto, Reply
<1> QED
  BY <1>2, <1>3, <1>4, <1>5 DEF PInv

(* Taking the slot: its owner is the one that probes. *)
LEMMA TakeSlotInv ==
  ASSUME PInv, NEW r \in Request, TakeSlot(r)
  PROVE  PInv'
<1>1. pc[r] = "slot" /\ \E p \in {"create", "probe"} : pc' = [pc EXCEPT ![r] = p]
  BY DEF TakeSlot, Goto
<1>2. WsInv'
  BY <1>1, HandlerMovesInv DEF PInv, TakeSlot, Holding, ChatPC, KeepConn
<1>3. PTypeOK'
  BY <1>1, <1>2 DEF PInv, PTypeOK, WsInv, TakeSlot, ProxyPC
<1>4. SlotOwner' /\ NoOutcomeBeforeCall'
  BY <1>1, NoOneAssumption DEF PInv, PTypeOK, SlotOwner, NoOutcomeBeforeCall, TakeSlot, Goto
<1>5. ExchangeKnown'
  BY <1>1 DEF PInv, PTypeOK, ExchangeKnown, ExchangeAt, ChatPC, TakeSlot
<1> QED
  BY <1>2, <1>3, <1>4, <1>5 DEF PInv

(* The probe frees the slot, and calls the client or makes a new one. *)
LEMMA ProbeInv ==
  ASSUME PInv, NEW r \in Request, NEW alive \in BOOLEAN, Probe(r, alive)
  PROVE  PInv'
<1>1. pc[r] = "probe" /\ slotLock = r /\ slotLock' = NoOne /\ slot \in Client
  BY NoOneAssumption DEF PInv, PTypeOK, SlotOwner, Probe, FreeSlot
<1>2. pc' = [pc EXCEPT ![r] = IF alive THEN "ensure" ELSE "create"]
  BY DEF Probe, Open, Goto
<1>3. WsInv' /\ NoOutcomeBeforeCall' /\ ExchangeKnown'
  <2>1. CASE alive
    <3>1. Open(r, slot) /\ KeepConn
      BY <2>1 DEF Probe, Ping
    <3> QED
      BY <1>1, <3>1, OpenInv DEF Probe
  <2>2. CASE ~alive
    <3>1. SetConn(slot, "none")
      BY <2>2 DEF Probe, Ping
    <3>2. WsInv'
      BY <1>1, <1>2, <2>2, <3>1, HandlerMovesInv DEF PInv, Probe, Holding, ChatPC
    <3>3. NoOutcomeBeforeCall'
      BY <1>1, <1>2, <2>2 DEF PInv, PTypeOK, NoOutcomeBeforeCall, Probe
    <3>4. ExchangeKnown'
      BY <1>1, <1>2, <2>2 DEF PInv, PTypeOK, ExchangeKnown, ExchangeAt, ChatPC, Probe
    <3> QED
      BY <3>2, <3>3, <3>4
  <2> QED
    BY <2>1, <2>2
<1>4. SlotOwner'
  BY <1>1, <1>2, NoOneAssumption DEF PInv, PTypeOK, SlotOwner, Probe, FreeSlot
<1>5. PTypeOK'
  <2>1. audit' \in [Request -> Seq({"request", "done"})]
    <3>1. CASE alive
      BY <3>1, EmitTypes DEF PInv, Probe, Open
    <3>2. CASE ~alive
      BY <3>2 DEF PInv, PTypeOK, Probe
    <3> QED
      BY <3>1, <3>2
  <2>2. http' \in [Request -> {"none", "400", "sse", "stop", "200", "500"}]
    BY DEF PInv, PTypeOK, Probe, Open, Reply
  <2>3. pc' \in [Request -> ProxyPC \cup ChatPC]
    BY <1>2 DEF PInv, PTypeOK, ProxyPC, ChatPC
  <2> QED
    BY <1>1, <1>3, <2>1, <2>2, <2>3 DEF PInv, PTypeOK, WsInv, Probe
<1> QED
  BY <1>3, <1>4, <1>5 DEF PInv

(* A new client is reachable by its creator only. *)
LEMMA CreateInv ==
  ASSUME PInv, NEW r \in Request, CreateDone(r) \/ CreateFails(r)
  PROVE  PInv'
<1>1. pc[r] = "create" /\ \E p \in {"store", "done"} : pc' = [pc EXCEPT ![r] = p]
  BY DEF CreateDone, CreateFails, Goto
<1>2. WsInv'
  <2>1. CASE CreateDone(r)
    BY <1>1, <2>1, HandlerMovesInv, ClientAssumption DEF PInv, CreateDone, Holding, ChatPC
  <2>2. CASE CreateFails(r)
    BY <1>1, <2>2, HandlerMovesInv DEF PInv, CreateFails, Holding, ChatPC, KeepConn
  <2> QED
    BY <2>1, <2>2
<1>3. PTypeOK'
  BY <1>1, <1>2 DEF PInv, PTypeOK, WsInv, CreateDone, CreateFails, Reply, ProxyPC
<1>4. SlotOwner' /\ NoOutcomeBeforeCall'
  BY <1>1 DEF PInv, PTypeOK, SlotOwner, NoOutcomeBeforeCall, CreateDone, CreateFails
<1>5. ExchangeKnown'
  <2>1. CASE CreateDone(r)
    BY <2>1 DEF PInv, PTypeOK, ExchangeKnown, ExchangeAt, ChatPC, CreateDone, Goto
  <2>2. CASE CreateFails(r)
    BY <2>2 DEF PInv, PTypeOK, ExchangeKnown, ExchangeAt, ChatPC, CreateFails, Goto, Reply
  <2> QED
    BY <2>1, <2>2
<1> QED
  BY <1>2, <1>3, <1>4, <1>5 DEF PInv

(* Storing a client fills the slot and starts the call. *)
LEMMA StoreInv ==
  ASSUME PInv, NEW r \in Request, Store(r)
  PROVE  PInv'
<1>1. pc[r] = "store" /\ slotLock = NoOne /\ r \in Client
      /\ pc' = [pc EXCEPT ![r] = "ensure"] /\ slot' = r /\ slotLock' = slotLock
  BY ClientAssumption DEF Store, Open, Goto
<1>2. WsInv' /\ NoOutcomeBeforeCall' /\ ExchangeKnown'
  BY <1>1, OpenInv DEF Store, KeepConn
<1>3. SlotOwner'
  BY <1>1 DEF PInv, PTypeOK, SlotOwner
<1>4. PTypeOK'
  <2>1. audit' \in [Request -> Seq({"request", "done"})]
    BY EmitTypes DEF PInv, Store, Open
  <2>2. http' \in [Request -> {"none", "400", "sse", "stop", "200", "500"}]
    BY DEF PInv, PTypeOK, Store, Open, Reply
  <2>3. pc' \in [Request -> ProxyPC \cup ChatPC]
    BY <1>1 DEF PInv, PTypeOK, ProxyPC, ChatPC
  <2> QED
    BY <1>1, <1>2, <2>1, <2>2, <2>3 DEF PInv, PTypeOK, WsInv, Store
<1> QED
  BY <1>2, <1>3, <1>4 DEF PInv

(* The end of a request: remote-chat-done is emitted once, by whichever of   *)
(* the two steps comes first for the kind of answer.                         *)
LEMMA AnswerInv ==
  ASSUME PInv, NEW r \in Request, Answer(r)
  PROVE  PInv'
<1>1. pc[r] = "returned" /\ audit[r] = <<"request">> /\ http[r] \in {"none", "sse"}
  BY DEF PInv, ExchangeKnown, ExchangeAt, ChatPC, Answer
<1>2. \/ /\ pc' = [pc EXCEPT ![r] = "evict"] /\ http' = http
         /\ audit' = IF streaming[r] THEN audit ELSE [audit EXCEPT ![r] = Both]
      \/ /\ pc' = [pc EXCEPT ![r] = "done"]
         /\ audit' = [audit EXCEPT ![r] = Both]
         /\ http' = [http EXCEPT ![r] = http'[r]] /\ http'[r] \in {"stop", "200", "500"}
  BY <1>1, AppendDone DEF PInv, PTypeOK, Answer, AnnounceLoss, Goto, FinalReply, Reply
<1>3. WsInv'
  BY <1>1, <1>2, HandlerMovesInv DEF PInv, Answer, Holding, ChatPC, KeepConn
<1>4. PTypeOK'
  <2>1. Both \in Seq({"request", "done"})
    BY DEF Both
  <2>2. audit' \in [Request -> Seq({"request", "done"})]
    BY <1>2, <2>1 DEF PInv, PTypeOK
  <2>3. http' \in [Request -> {"none", "400", "sse", "stop", "200", "500"}]
    BY <1>2 DEF PInv, PTypeOK
  <2>4. pc' \in [Request -> ProxyPC \cup ChatPC]
    BY <1>2 DEF PInv, PTypeOK, ProxyPC
  <2> QED
    BY <1>3, <2>2, <2>3, <2>4 DEF PInv, PTypeOK, WsInv, Answer
<1>5. SlotOwner' /\ NoOutcomeBeforeCall'
  BY <1>1, <1>2 DEF PInv, PTypeOK, SlotOwner, NoOutcomeBeforeCall, Answer
<1>6. ExchangeKnown'
  <2> SUFFICES ASSUME NEW q \in Request PROVE ExchangeAt(q)'
    BY DEF ExchangeKnown
  <2>1. CASE q # r
    BY <2>1, <1>2 DEF PInv, PTypeOK, ExchangeKnown, ExchangeAt, Answer
  <2>2. CASE q = r
    BY <2>2, <1>1, <1>2 DEF PInv, PTypeOK, ExchangeAt, ChatPC, Answer, Both
  <2> QED
    BY <2>1, <2>2
<1> QED
  BY <1>3, <1>4, <1>5, <1>6 DEF PInv

(* Evicting waits for the slot, and completes the exchange. *)
LEMMA EvictInv ==
  ASSUME PInv, NEW r \in Request, Evict(r)
  PROVE  PInv'
<1>1. /\ pc[r] = "evict" /\ pc' = [pc EXCEPT ![r] = "done"]
      /\ slotLock = NoOne /\ slotLock' = NoOne
      /\ audit[r] = IF streaming[r] THEN <<"request">> ELSE Both
  BY DEF PInv, ExchangeKnown, ExchangeAt, Evict, Goto, Both
<1>2. audit' = [audit EXCEPT ![r] = Both]
  BY <1>1, AppendDone DEF PInv, PTypeOK, Evict
<1>3. http' = [http EXCEPT ![r] = http'[r]] /\ http'[r] \in {"stop", "200", "500"}
  BY DEF PInv, PTypeOK, Evict, FinalReply, Reply
<1>4. WsInv'
  BY <1>1, HandlerMovesInv DEF PInv, Evict, Holding, ChatPC, KeepConn
<1>5. PTypeOK'
  <2>1. Both \in Seq({"request", "done"})
    BY DEF Both
  <2>2. audit' \in [Request -> Seq({"request", "done"})]
    BY <1>2, <2>1 DEF PInv, PTypeOK
  <2>3. http' \in [Request -> {"none", "400", "sse", "stop", "200", "500"}]
    BY <1>3 DEF PInv, PTypeOK
  <2>4. pc' \in [Request -> ProxyPC \cup ChatPC]
    BY <1>1 DEF PInv, PTypeOK, ProxyPC
  <2> QED
    BY <1>4, <2>2, <2>3, <2>4 DEF PInv, PTypeOK, WsInv, Evict
<1>6. SlotOwner' /\ NoOutcomeBeforeCall'
  BY <1>1, NoOneAssumption DEF PInv, PTypeOK, SlotOwner, NoOutcomeBeforeCall, Evict
<1>7. ExchangeKnown'
  BY <1>1, <1>2, <1>3 DEF PInv, PTypeOK, ExchangeKnown, ExchangeAt, ChatPC, Evict, Both
<1> QED
  BY <1>4, <1>5, <1>6, <1>7 DEF PInv

(* A hang-up frees the slot's mutex and, by Drop, the connection's. *)
LEMMA HangUpInv ==
  ASSUME PInv, NEW r \in Request, HangUp(r)
  PROVE  PInv'
<1>1. CASE ~streaming[r] /\ Drop(r) /\ UNCHANGED proxyVars
  <2>1. WsInv'
    BY <1>1, ChatStepInv DEF PInv
  <2>2. pc[r] \in ChatPC /\ pc' = [pc EXCEPT ![r] = "gone"]
    BY <1>1 DEF Drop, Goto
  <2>3. PTypeOK'
    BY <1>1, <2>1, <2>2 DEF PInv, PTypeOK, WsInv, proxyVars, ProxyPC
  <2>4. SlotOwner' /\ NoOutcomeBeforeCall'
    BY <1>1, <2>2 DEF PInv, PTypeOK, WsInv, ChatTypeOK, SlotOwner, NoOutcomeBeforeCall,
                      proxyVars, ChatPC, Drop
  <2>5. ExchangeKnown'
    BY <1>1, <2>2 DEF PInv, PTypeOK, ExchangeKnown, ExchangeAt, proxyVars, ChatPC
  <2> QED
    BY <2>1, <2>3, <2>4, <2>5 DEF PInv
<1>2. ASSUME pc[r] \in {"slot", "probe", "create", "store", "evict"},
             pc[r] = "evict" => ~streaming[r],
             pc' = [pc EXCEPT ![r] = "gone"],
             outcome' = IF outcome[r] = "none" THEN [outcome EXCEPT ![r] = "dropped"]
                                               ELSE outcome,
             slotLock' = IF slotLock = r THEN NoOne ELSE slotLock,
             UNCHANGED <<attempt, client, conn, lock, inbox, feed, deltas, parts, shown,
                         breaks, slot, streaming, audit, http>>
      PROVE  PInv'
  <2>1. WsInv'
    <3>1. KeepConn
      BY <1>2 DEF KeepConn
    <3> QED
      BY <1>2, <3>1, HandlerMovesInv DEF PInv, Holding, ChatPC
  <2>2. PTypeOK'
    BY <1>2, <2>1 DEF PInv, PTypeOK, WsInv, ProxyPC
  <2>3. SlotOwner' /\ NoOutcomeBeforeCall'
    BY <1>2, NoOneAssumption DEF PInv, PTypeOK, WsInv, ChatTypeOK, SlotOwner, NoOutcomeBeforeCall
  <2>4. ASSUME NEW q \in Request PROVE ExchangeAt(q)'
    <3>1. CASE q # r
      BY <3>1, <1>2 DEF PInv, PTypeOK, ExchangeKnown, ExchangeAt
    <3>2. CASE q = r /\ pc[r] # "evict"
      <4>1. audit[r] = <<>> /\ http[r] = "none" /\ pc'[r] = "gone"
        BY <3>2, <1>2 DEF PInv, PTypeOK, ExchangeKnown, ExchangeAt
      <4>2. <<>> # <<"request">>
        OBVIOUS
      <4> QED
        BY <3>2, <4>1, <4>2, <1>2 DEF ExchangeAt, ChatPC
    <3>3. CASE q = r /\ pc[r] = "evict"
      BY <3>3, <1>2 DEF PInv, PTypeOK, ExchangeKnown, ExchangeAt, ChatPC
    <3> QED
      BY <3>1, <3>2, <3>3
  <2> QED
    BY <2>1, <2>2, <2>3, <2>4 DEF PInv, ExchangeKnown
<1> QED
  BY <1>1, <1>2 DEF HangUp, Goto

(* The network does not touch the proxy's part. *)
LEMMA OutsideProxyInv ==
  ASSUME PInv, Outside, UNCHANGED proxyVars
  PROVE  PInv'
<1>1. WsInv'
  BY OutsideInv DEF PInv
<1>2. UNCHANGED <<pc, outcome>>
  BY DEF Outside, GatewayDelta, GatewayEnd, GatewayNote, Break
<1> QED
  BY <1>1, <1>2 DEF PInv, PTypeOK, WsInv, SlotOwner, NoOutcomeBeforeCall, ExchangeKnown,
                    ExchangeAt, proxyVars

(* The invariant is inductive. *)
LEMMA ProxyNext == PInv /\ [PNext]_vars => PInv'
<1> SUFFICES ASSUME PInv, [PNext]_vars PROVE PInv'
  OBVIOUS
<1>1. ASSUME NEW r \in Request, ProxyStep(r) PROVE PInv'
  BY <1>1, TakeSlotInv, ProbeInv, CreateInv, StoreInv, AnswerInv, EvictInv DEF ProxyStep, HandlerStep, PeerStep
<1>2. ASSUME NEW r \in Request, Arrive(r) \/ TaskStep(r) \/ HangUp(r) PROVE PInv'
  BY <1>1, <1>2, ArriveInv, CallStepInv, HangUpInv DEF TaskStep
<1>3. CASE Outside /\ UNCHANGED proxyVars
  BY <1>3, OutsideProxyInv
<1>4. CASE UNCHANGED vars
  BY <1>4 DEF vars, wsVars, proxyVars, PInv, PTypeOK, SlotOwner, NoOutcomeBeforeCall,
              ExchangeKnown, ExchangeAt, WsInv, ChatTypeOK, LockOwner, ClientKnown,
              OutcomeIsLast, EndIsLast, PendingIsOwnedOrAbandoned, Pending, Abandoned,
              ForeignTextIsAbandoned, PartsKnown
<1> QED
  BY <1>2, <1>3, <1>4 DEF PNext, AllDone

-----------------------------------------------------------------------------
(* The invariant holds in every reachable state. *)
THEOREM ProxyInvariant == PSpec => []PInv
<1>1. PInit => PInv
  BY ProxyInit
<1>2. PInv /\ [PNext]_vars => PInv'
  BY ProxyNext
<1> QED
  BY <1>1, <1>2, PTL DEF PSpec

(* The types of the proxy's state. *)
THEOREM ProxyTypes == PSpec => []PTypeOK
<1>1. PInv => PTypeOK
  BY DEF PInv
<1> QED
  BY <1>1, ProxyInvariant, PTL

(* Behind the proxy a connection still holds nothing of a request that was   *)
(* answered or is being retried, and its text reaches nobody else.           *)
THEOREM ProxyPendingOwned == PSpec => [](PendingIsOwnedOrAbandoned /\ ForeignTextIsAbandoned)
<1>1. PInv => PendingIsOwnedOrAbandoned /\ ForeignTextIsAbandoned
  BY DEF PInv, WsInv
<1> QED
  BY <1>1, ProxyInvariant, PTL

(* get_ws_client takes the slot's mutex first and no owner of a connection   *)
(* ever waits for it, so the two mutexes cannot deadlock.                    *)
THEOREM SlotOrder == PSpec => []SlotBeforeConn
<1>1. PInv => SlotBeforeConn
  <2> SUFFICES ASSUME PInv PROVE SlotBeforeConn
    OBVIOUS
  <2>1. ASSUME NEW c \in Client, slotLock # NoOne PROVE lock[c] # slotLock
    <3>1. slotLock \in Request /\ pc[slotLock] = "probe"
      BY <2>1 DEF PInv, PTypeOK, SlotOwner
    <3> QED
      BY <3>1 DEF PInv, WsInv, LockOwner, Holding
  <2> QED
    BY <2>1 DEF PInv, SlotOwner, SlotBeforeConn
<1> QED
  BY <1>1, ProxyInvariant, PTL

(* Every exchange announced to the desktop is completed exactly once, and    *)
(* only a caller that hung up leaves one open.                               *)
THEOREM AuditComplete == PSpec => []AuditPaired
<1>1. PInv => AuditPaired
  <2> SUFFICES ASSUME PInv, NEW r \in Request
               PROVE  /\ pc[r] = "done" => audit[r] \in {<<>>, <<"request", "done">>}
                      /\ http[r] \in {"stop", "200"} => audit[r] = <<"request", "done">>
                      /\ audit[r] # <<>> /\ audit[r] # <<"request", "done">> =>
                           audit[r] = <<"request">> /\ (pc[r] = "gone" => ~streaming[r])
    BY DEF AuditPaired
  <2>1. pc[r] \in ProxyPC \cup ChatPC /\ ExchangeAt(r)
    BY DEF PInv, PTypeOK, ExchangeKnown
  <2> QED
    BY <2>1 DEF ExchangeAt, ProxyPC
<1> QED
  BY <1>1, ProxyInvariant, PTL

-----------------------------------------------------------------------------
(* The proxy implements the service. *)

(* What is collected was shown, and a request that was refused before its     *)
(* call has no outcome.                                                       *)
ServiceInv == /\ PInv
              /\ \A r \in Request : /\ parts[r] \subseteq shown[r]
                                    /\ pc[r] = "done" /\ audit[r] = <<>> => outcome[r] = "none"

(* The phase of a request, from where it is, what was emitted and its outcome. *)
PhaseFor(here, events, result) ==
  IF here = "idle" THEN "new"
  ELSE IF here = "done" /\ events = <<>> THEN "refused"
  ELSE IF result = "ok" THEN "answered"
  ELSE IF result \in Kept THEN "gaveup"
  ELSE IF result = "dropped" THEN "dropped"
  ELSE IF result = "none" THEN "pending"
  ELSE "failed"

TextOf(r) == {u[1] : u \in shown[r]}

LEMMA PhaseIs ==
  ASSUME ServiceInv, NEW r \in Request
  PROVE  PhaseOf(r) = PhaseFor(pc[r], audit[r], outcome[r])
<1>1. /\ pc[r] = "idle" => outcome[r] = "none"
      /\ pc[r] = "done" /\ audit[r] = <<>> => outcome[r] = "none"
      /\ outcome[r] \in Outcome
  BY DEF ServiceInv, PInv, NoOutcomeBeforeCall, PTypeOK, ChatTypeOK
<1> QED
  BY <1>1 DEF PhaseOf, PhaseFor, Outcome, Kept, Lost

LEMMA PhaseIsNext ==
  ASSUME ServiceInv', NEW r \in Request
  PROVE  PhaseOf(r)' = PhaseFor(pc'[r], audit'[r], outcome'[r])
<1>1. /\ pc'[r] = "idle" => outcome'[r] = "none"
      /\ pc'[r] = "done" /\ audit'[r] = <<>> => outcome'[r] = "none"
      /\ outcome'[r] \in Outcome
  BY DEF ServiceInv, PInv, NoOutcomeBeforeCall, PTypeOK, ChatTypeOK
<1> QED
  BY <1>1 DEF PhaseOf, PhaseFor, Outcome, Kept, Lost

(* A step of one request that moves its phase as the service allows, and its  *)
(* text too, is a step of the service.                                        *)
LEMMA ServiceMoves ==
  ASSUME NEW r \in Request,
         \A q \in Request \ {r} : PhaseOf(q)' = PhaseOf(q) /\ TextOf(q)' = TextOf(q),
         \/ PhaseOf(r)' = PhaseOf(r) /\ TextOf(r)' = TextOf(r)
         \/ /\ PhaseOf(r) = "new" /\ PhaseOf(r)' \in {"pending", "refused"}
            /\ TextOf(r)' = TextOf(r)
         \/ /\ PhaseOf(r) = "pending" /\ TextOf(r)' = TextOf(r)
            /\ PhaseOf(r)' \in {"refused", "failed", "gaveup", "dropped"}
         \/ /\ PhaseOf(r) = "pending" /\ PhaseOf(r)' = "pending"
            /\ \E q \in Request : /\ q = r \/ PhaseOf(q) \in {"gaveup", "dropped"}
                                  /\ TextOf(r)' = TextOf(r) \cup {q}
         \/ /\ PhaseOf(r) = "pending" /\ PhaseOf(r)' = "answered"
            /\ \/ TextOf(r) # {} /\ TextOf(r)' = TextOf(r)
               \/ TextOf(r)' = TextOf(r) \cup {r}
  PROVE  [Service!Next]_(Service!vars)
<1> DEFINE phase == [q \in Request |-> PhaseOf(q)]
           text == [q \in Request |-> {u[1] : u \in shown[q]}]
<1>1. /\ phase' = [phase EXCEPT ![r] = PhaseOf(r)']
      /\ text' = [text EXCEPT ![r] = TextOf(r)']
      /\ phase[r] = PhaseOf(r) /\ text[r] = TextOf(r)
      /\ PhaseOf(r)' = PhaseOf(r) => phase' = phase
      /\ TextOf(r)' = TextOf(r) => text' = text
  BY DEF TextOf
<1>2. \A q \in Request : PhaseOf(q) \in {"gaveup", "dropped"} => q \in Service!GivenUp
  BY DEF Service!GivenUp
<1> HIDE DEF phase, text
<1>3. CASE PhaseOf(r)' = PhaseOf(r) /\ TextOf(r)' = TextOf(r)
  BY <1>1, <1>3 DEF Service!vars, phase, text
<1>4. CASE PhaseOf(r) = "new" /\ PhaseOf(r)' \in {"pending", "refused"} /\ TextOf(r)' = TextOf(r)
  <2>1. phase[r] = "new" /\ text' = text
        /\ (phase' = [phase EXCEPT ![r] = "pending"] \/ phase' = [phase EXCEPT ![r] = "refused"])
    BY <1>1, <1>4
  <2>2. Service!Accept(r) \/ Service!Refuse(r)
    BY <2>1 DEF Service!Accept, Service!Refuse, phase, text
  <2> QED
    BY <2>2 DEF Service!Next
<1>5. CASE /\ PhaseOf(r) = "pending" /\ TextOf(r)' = TextOf(r)
           /\ PhaseOf(r)' \in {"refused", "failed", "gaveup", "dropped"}
  <2>1. phase[r] = "pending" /\ text' = text
        /\ \E e \in {"refused", "failed", "gaveup", "dropped"} : phase' = [phase EXCEPT ![r] = e]
    BY <1>1, <1>5
  <2>2. Service!Fail(r)
    BY <2>1 DEF Service!Fail, phase, text
  <2> QED
    BY <2>2 DEF Service!Next, Service!End
<1>6. ASSUME PhaseOf(r) = "pending", PhaseOf(r)' = "pending",
             NEW q \in Request, q = r \/ PhaseOf(q) \in {"gaveup", "dropped"},
             TextOf(r)' = TextOf(r) \cup {q}
      PROVE  [Service!Next]_(Service!vars)
  <2>1. phase[r] = "pending" /\ phase' = phase /\ text' = [text EXCEPT ![r] = text[r] \cup {q}]
    BY <1>1, <1>6
  <2>2. q \in {r} \cup Service!GivenUp
    BY <1>2, <1>6
  <2>3. Service!Hear(r)
    BY <2>1, <2>2 DEF Service!Hear, phase, text
  <2> QED
    BY <2>3 DEF Service!Next
<1>7. CASE /\ PhaseOf(r) = "pending" /\ PhaseOf(r)' = "answered"
           /\ \/ TextOf(r) # {} /\ TextOf(r)' = TextOf(r)
              \/ TextOf(r)' = TextOf(r) \cup {r}
  <2>1. /\ phase[r] = "pending" /\ phase' = [phase EXCEPT ![r] = "answered"]
        /\ \/ text[r] # {} /\ text' = text
           \/ text' = [text EXCEPT ![r] = text[r] \cup {r}]
    BY <1>1, <1>7
  <2>2. Service!Answer(r)
    BY <2>1 DEF Service!Answer, phase, text
  <2> QED
    BY <2>2 DEF Service!Next, Service!End
<1> QED
  BY <1>3, <1>4, <1>5, <1>6, <1>7
(* A step of a request leaves the others where they are. *)
LEMMA OthersStay ==
  ASSUME PInv, NEW r \in Request, Arrive(r) \/ TaskStep(r) \/ HangUp(r)
  PROVE  \A q \in Request \ {r} :
           /\ pc'[q] = pc[q] /\ audit'[q] = audit[q] /\ outcome'[q] = outcome[q]
           /\ shown'[q] = shown[q] /\ parts'[q] = parts[q]
<1> USE DEF PInv, PTypeOK, ChatTypeOK
<1>1. CASE Arrive(r)
  BY <1>1 DEF Arrive, Goto
<1>2. CASE ChatStep(r) /\ UNCHANGED proxyVars
  <2>1. CASE Ensure(r) \/ Connect(r) \/ DialDone(r) \/ StartSend(r) \/ SendReq(r) \/ RetryReset(r)
    BY <1>2, <2>1 DEF proxyVars, Ensure, Connect, DialDone, StartSend, SendReq, RetryReset, Goto, FreshText
  <2>2. CASE SendFails(r) \/ NotConnected(r) \/ RecvLost(r) \/ IdleTimeout(r)
             \/ DialFails(r, "ws-connect-error") \/ DialFails(r, "ws-closed")
    BY <1>2, <2>2 DEF proxyVars, SendFails, NotConnected, RecvLost, IdleTimeout, DialFails,
       Fails, Returns, Goto
  <2>3. CASE ReadFrame(r)
    BY <1>2, <2>3 DEF proxyVars, ReadFrame, TakeText, TakeSummary, Returns, Goto
  <2> QED
    BY <1>2, <2>1, <2>2, <2>3 DEF ChatStep, OwnStep, SocketStep
<1>3. CASE ProxyStep(r)
  <2>1. CASE TakeSlot(r) \/ CreateDone(r) \/ CreateFails(r)
    BY <2>1 DEF TakeSlot, CreateDone, CreateFails, Goto
  <2>2. CASE Store(r) \/ \E alive \in BOOLEAN : Probe(r, alive)
    BY <2>2 DEF Store, Probe, Open, Emit, Goto
  <2>3. CASE Answer(r) \/ Evict(r)
    BY <2>3 DEF Answer, AnnounceLoss, Evict, Emit, Goto
  <2> QED
    BY <1>3, <2>1, <2>2, <2>3 DEF ProxyStep, HandlerStep, PeerStep
<1>4. CASE HangUp(r)
  BY <1>4 DEF HangUp, Drop, Goto, proxyVars
<1> QED
  BY <1>1, <1>2, <1>3, <1>4 DEF TaskStep

(* What a step inside the call does to the outcome and the text of its        *)
(* request.                                                                   *)
LEMMA CallMoves ==
  ASSUME ServiceInv, NEW r \in Request, ChatStep(r)
  PROVE  /\ parts'[r] \subseteq shown'[r]
         /\ outcome[r] = "none"
         /\ \/ outcome'[r] \in Outcome \ {"ok", "dropped"} /\ shown'[r] = shown[r]
            \/ /\ outcome'[r] = "none"
               /\ \E u \in Run : /\ u[1] = r \/ Abandoned(u)
                                 /\ shown'[r] = shown[r] \cup {u}
            \/ /\ outcome'[r] = "ok"
               /\ \/ shown[r] # {} /\ shown'[r] = shown[r]
                  \/ \E u \in Run : u[1] = r /\ shown'[r] = shown[r] \cup {u}
<1> USE DEF ServiceInv, PInv, PTypeOK, ChatTypeOK
<1>1. outcome[r] = "none" /\ pc[r] \in ChatPC \ {"returned"} /\ parts[r] \subseteq shown[r]
  <2>1. pc[r] \in ChatPC \ {"returned"}
    BY DEF ChatStep, OwnStep, SocketStep, StartSend, Ensure, Connect, DialDone, DialFails, SendReq, SendFails, NotConnected,
       ReadFrame, RecvLost, IdleTimeout, RetryReset, ChatPC
  <2> QED
    BY <2>1 DEF WsInv, OutcomeIsLast
<1>2. CASE Ensure(r) \/ Connect(r) \/ DialDone(r) \/ StartSend(r) \/ SendReq(r) \/ RetryReset(r)
  BY <1>1, <1>2 DEF Ensure, Connect, DialDone, StartSend, SendReq, RetryReset, FreshText, Outcome
<1>3. CASE SendFails(r) \/ NotConnected(r) \/ RecvLost(r) \/ IdleTimeout(r)
           \/ DialFails(r, "ws-connect-error") \/ DialFails(r, "ws-closed")
  BY <1>1, <1>3 DEF SendFails, NotConnected, RecvLost, IdleTimeout, DialFails,
     Fails, Returns, Outcome, Lost, Kept
<1>4. CASE ReadFrame(r) /\ Head(inbox[client[r]]).kind # "note"
  <2> DEFINE c == client[r]
             f == Head(inbox[c])
             own == <<r, attempt[r]>>
  <2>1. f \in Frame /\ Pending(c, f.run) /\ pc[r] = "collect" /\ c \in Client /\ own \in Run
    BY <1>1, <1>4, ReadFramePending DEF WsInv, ClientKnown, ReadFrame, Run
  <2>2. f.run \in Run /\ (f.run[1] = r \/ Abandoned(f.run))
    <3>1. f.run \in Run
      BY <1>4, <2>1, FrameOfRun
    <3>2. lock[c] = r
      BY <2>1 DEF WsInv, LockOwner, Holding
    <3> QED
      BY <2>1, <3>1, <3>2 DEF WsInv, PendingIsOwnedOrAbandoned
  <2>3. own[1] = r
    OBVIOUS
  <2> HIDE DEF f, own
  <2>4. CASE TakeText(r, f.run) /\ outcome' = outcome
    BY <1>1, <2>2, <2>4 DEF TakeText
  <2>5. CASE TakeText(r, own) /\ Returns(r, "ok")
    BY <1>1, <2>1, <2>3, <2>5 DEF TakeText, Returns
  <2>6. CASE parts[r] # {} /\ UNCHANGED <<parts, shown>> /\ Returns(r, "ok")
    BY <1>1, <2>6 DEF Returns
  <2>7. CASE UNCHANGED <<parts, shown>> /\ (outcome' = outcome \/ Returns(r, "ws-gateway-error"))
    BY <1>1, <2>7 DEF Returns, Outcome, Kept
  <2> QED
    BY <1>4, <2>4, <2>5, <2>6, <2>7 DEF ReadFrame, TakeSummary, f, own
<1>5. CASE ReadFrame(r) /\ Head(inbox[client[r]]).kind = "note"
  <2>1. UNCHANGED <<parts, shown, outcome>>
    BY <1>5, ReadNoteInv
  <2> QED
    BY <1>1, <2>1 DEF Outcome
<1> QED
  BY <1>1, <1>2, <1>3, <1>4, <1>5 DEF ChatStep, OwnStep, SocketStep
(* An emitted event stays. *)
LEMMA AnEventIsThere ==
  ASSUME PTypeOK, NEW r \in Request
  PROVE  Append(audit[r], "done") # <<>>
<1> DEFINE S == {"request", "done"}
<1>1. audit[r] \in Seq(S) /\ "done" \in S
  BY DEF PTypeOK
<1> HIDE DEF S
<1>2. \A s \in Seq(S) : \A e \in S : Append(s, e) # <<>>
  BY AppendProperties
<1> QED
  BY <1>1, <1>2

(* What the other steps of a request do to its phase: its text is as before,  *)
(* and it is accepted, refused, given up or where it was.                     *)
LEMMA HandlerMoves ==
  ASSUME ServiceInv, PInv', NEW r \in Request, Arrive(r) \/ ProxyStep(r) \/ HangUp(r)
  PROVE  /\ shown'[r] = shown[r] /\ parts'[r] = parts[r]
         /\ pc'[r] = "done" /\ audit'[r] = <<>> => outcome'[r] = "none"
         /\ LET before == PhaseFor(pc[r], audit[r], outcome[r])
                after == PhaseFor(pc'[r], audit'[r], outcome'[r])
            IN  \/ after = before
                \/ before = "new" /\ after \in {"pending", "refused"}
                \/ before = "pending" /\ after \in {"refused", "dropped"}
<1> USE DEF ServiceInv, PInv, PTypeOK, ChatTypeOK, PhaseFor
<1>1. /\ pc[r] \in {"idle", "slot", "probe", "create", "store"} => outcome[r] = "none" /\ audit[r] = <<>>
      /\ pc[r] \in {"returned", "evict"} \cup ChatPC => audit[r] # <<>>
  <2>1. ExchangeAt(r) /\ <<"request">> # <<>> /\ <<"request", "done">> # <<>>
    BY DEF ExchangeKnown
  <2> QED
    BY <2>1 DEF NoOutcomeBeforeCall, ExchangeAt, ChatPC
<1>2. CASE Arrive(r)
  BY <1>1, <1>2 DEF Arrive, Goto, Kept
<1>3. CASE TakeSlot(r) \/ CreateDone(r) \/ CreateFails(r)
  BY <1>1, <1>3 DEF TakeSlot, CreateDone, CreateFails, Goto, Kept
<1>4. CASE Store(r) \/ \E alive \in BOOLEAN : Probe(r, alive)
  <2>1. /\ pc[r] \in {"store", "probe"} /\ pc'[r] \in {"ensure", "create"}
        /\ outcome'[r] = outcome[r] /\ shown'[r] = shown[r] /\ parts'[r] = parts[r]
    BY <1>4 DEF Store, Probe, Open, Goto
  <2> QED
    BY <1>1, <2>1 DEF Kept
<1>5. CASE Answer(r) \/ Evict(r)
  <2>1. /\ pc[r] \in {"returned", "evict"} /\ pc'[r] \in {"evict", "done"}
        /\ outcome'[r] = outcome[r] /\ shown'[r] = shown[r] /\ parts'[r] = parts[r]
    BY <1>5 DEF Answer, Evict, Goto
  <2>2. audit'[r] # <<>>
    <3>1. ExchangeAt(r)' /\ <<"request">> # <<>> /\ <<"request", "done">> # <<>>
      BY DEF ExchangeKnown
    <3>2. pc[r] = "evict" => pc'[r] = "done" /\ (audit'[r] = audit[r] \/ audit'[r] = Append(audit[r], "done"))
      BY <1>5 DEF Answer, Evict, Emit, Goto
    <3>3. Append(audit[r], "done") # <<>>
      BY AnEventIsThere
    <3>4. pc[r] = "returned" => audit'[r] = audit[r] \/ audit'[r] = Append(audit[r], "done")
      BY <1>5 DEF Answer, Evict, Emit, Goto, AnnounceLoss
    <3> QED
      BY <1>1, <2>1, <3>2, <3>3, <3>4
  <2> QED
    BY <1>1, <2>1, <2>2
<1>6. CASE HangUp(r)
  <2>1. CASE Drop(r) /\ UNCHANGED proxyVars
    <3>1. outcome[r] = "none" /\ pc[r] \in ChatPC
      BY <2>1 DEF Drop, WsInv, OutcomeIsLast
    <3> QED
      BY <1>1, <2>1, <3>1 DEF Drop, Goto, proxyVars, Kept, ChatPC
  <2>2. CASE pc[r] \in {"slot", "probe", "create", "store", "evict"} /\ ~Drop(r)
    BY <1>1, <1>6, <2>2 DEF HangUp, Goto, Kept
  <2>3. Drop(r) => UNCHANGED proxyVars
    BY <1>6, <1>1 DEF HangUp, Drop, ChatPC, Goto
  <2> QED
    BY <1>6, <2>1, <2>2, <2>3 DEF HangUp
<1> QED
  BY <1>2, <1>3, <1>4, <1>5, <1>6 DEF ProxyStep, HandlerStep, PeerStep
(* The network moves no request. *)
LEMMA OutsideMovesNone ==
  ASSUME Outside
  PROVE  UNCHANGED <<pc, outcome, shown, parts>>
  BY DEF Outside, GatewayDelta, GatewayEnd, GatewayNote, Break

LEMMA ServiceInit == PInit => ServiceInv /\ Service!Init
<1> SUFFICES ASSUME PInit PROVE ServiceInv /\ Service!Init
  OBVIOUS
<1>1. ServiceInv
  BY ProxyInit DEF ServiceInv, PInit, Init
<1>2. \A r \in Request : PhaseOf(r) = "new" /\ shown[r] = {}
  BY <1>1, PhaseIs DEF PhaseFor, PInit, Init
<1> QED
  BY <1>1, <1>2 DEF Service!Init

(* Every step of the proxy keeps the invariant and is a step of the service   *)
(* or none.                                                                   *)
LEMMA ServiceStep ==
  ASSUME ServiceInv, [PNext]_vars
  PROVE  ServiceInv' /\ [Service!Next]_(Service!vars)
<1>1. PInv'
  BY ProxyNext DEF ServiceInv
<1>2. ASSUME UNCHANGED <<pc, outcome, shown, parts, audit>>
      PROVE  ServiceInv' /\ [Service!Next]_(Service!vars)
  <2>1. ServiceInv'
    BY <1>1, <1>2 DEF ServiceInv
  <2>2. \A q \in Request : PhaseOf(q)' = PhaseOf(q)
    BY <1>2, <2>1, PhaseIs, PhaseIsNext
  <2> QED
    BY <1>2, <2>1, <2>2 DEF Service!vars
<1>3. ASSUME NEW r \in Request, Arrive(r) \/ TaskStep(r) \/ HangUp(r)
      PROVE  ServiceInv' /\ [Service!Next]_(Service!vars)
  <2>1. \A q \in Request \ {r} :
          /\ pc'[q] = pc[q] /\ audit'[q] = audit[q] /\ outcome'[q] = outcome[q]
          /\ shown'[q] = shown[q] /\ parts'[q] = parts[q]
    BY <1>3, OthersStay DEF ServiceInv
  <2>2. ASSUME ServiceInv'
        PROVE  /\ \A q \in Request \ {r} : PhaseOf(q)' = PhaseOf(q) /\ TextOf(q)' = TextOf(q)
               /\ PhaseOf(r) = PhaseFor(pc[r], audit[r], outcome[r])
               /\ PhaseOf(r)' = PhaseFor(pc'[r], audit'[r], outcome'[r])
    BY <2>1, <2>2, PhaseIs, PhaseIsNext DEF TextOf
  <2>3. CASE Arrive(r) \/ ProxyStep(r) \/ HangUp(r)
    <3>1. /\ shown'[r] = shown[r] /\ parts'[r] = parts[r]
          /\ pc'[r] = "done" /\ audit'[r] = <<>> => outcome'[r] = "none"
      BY <1>1, <2>3, HandlerMoves
    <3>2. ServiceInv'
      BY <1>1, <2>1, <3>1 DEF ServiceInv
    <3>3. \/ PhaseOf(r)' = PhaseOf(r)
          \/ PhaseOf(r) = "new" /\ PhaseOf(r)' \in {"pending", "refused"}
          \/ PhaseOf(r) = "pending" /\ PhaseOf(r)' \in {"refused", "dropped"}
      BY <1>1, <2>2, <2>3, <3>2, HandlerMoves
    <3>4. TextOf(r)' = TextOf(r)
      BY <3>1 DEF TextOf
    <3> QED
      BY <2>2, <3>2, <3>3, <3>4, ServiceMoves
  <2>4. CASE ChatStep(r) /\ UNCHANGED proxyVars
    <3>1. PICK p \in ChatPC : pc' = [pc EXCEPT ![r] = p] /\ pc[r] \in ChatPC
      BY <2>4, ChatStepMoves DEF ServiceInv, PInv
    <3>2. pc'[r] = p /\ pc[r] # "idle" /\ pc[r] # "done" /\ p # "idle" /\ p # "done"
      BY <3>1 DEF ServiceInv, PInv, WsInv, ChatPC
    <3>3. parts'[r] \subseteq shown'[r]
      BY <2>4, CallMoves
    <3>4. ServiceInv'
      BY <1>1, <2>1, <3>2, <3>3 DEF ServiceInv
    <3>5. PhaseOf(r) = PhaseFor("ensure", <<>>, outcome[r]) /\ PhaseOf(r)' = PhaseFor("ensure", <<>>, outcome'[r])
      BY <2>2, <3>2, <3>4 DEF PhaseFor
    <3>6. outcome[r] = "none" /\ PhaseOf(r) = "pending"
      BY <2>4, <3>5, CallMoves DEF PhaseFor, Kept
    <3>7. CASE outcome'[r] \in Outcome \ {"ok", "dropped"} /\ shown'[r] = shown[r]
      <4>1. TextOf(r)' = TextOf(r)
        BY <3>7 DEF TextOf
      <4>2. PhaseOf(r)' \in {"pending", "failed", "gaveup"}
        BY <3>5, <3>7 DEF PhaseFor
      <4> QED
        BY <2>2, <3>4, <3>6, <4>1, <4>2, ServiceMoves
    <3>8. ASSUME outcome'[r] = "none", NEW u \in Run, u[1] = r \/ Abandoned(u),
                 shown'[r] = shown[r] \cup {u}
          PROVE  [Service!Next]_(Service!vars)
      <4>1. TextOf(r)' = TextOf(r) \cup {u[1]}
        BY <3>8 DEF TextOf
      <4>2. PhaseOf(r)' = "pending"
        BY <3>5, <3>6, <3>8
      <4>3. u[1] \in Request
        BY DEF Run
      <4>4. Abandoned(u) => PhaseOf(u[1]) \in {"gaveup", "dropped"}
        <5>1. Abandoned(u) => /\ outcome[u[1]] \in Kept \cup {"dropped"}
                              /\ pc[u[1]] # "idle" /\ ~(pc[u[1]] = "done" /\ audit[u[1]] = <<>>)
          BY <4>3 DEF Abandoned, ServiceInv, PInv, NoOutcomeBeforeCall, Kept
        <5> QED
          BY <4>3, <5>1, PhaseIs DEF PhaseFor, Kept
      <4> QED
        BY <2>2, <3>4, <3>6, <3>8, <4>1, <4>2, <4>3, <4>4, ServiceMoves
    <3>9. ASSUME outcome'[r] = "ok",
                 \/ shown[r] # {} /\ shown'[r] = shown[r]
                 \/ \E u \in Run : u[1] = r /\ shown'[r] = shown[r] \cup {u}
          PROVE  [Service!Next]_(Service!vars)
      <4>1. \/ TextOf(r) # {} /\ TextOf(r)' = TextOf(r)
            \/ TextOf(r)' = TextOf(r) \cup {r}
        BY <3>9 DEF TextOf
      <4>2. PhaseOf(r)' = "answered"
        BY <3>5, <3>9 DEF PhaseFor
      <4> QED
        BY <2>2, <3>4, <3>6, <4>1, <4>2, ServiceMoves
    <3> QED
      BY <2>4, <3>4, <3>7, <3>8, <3>9, CallMoves
  <2> QED
    BY <1>3, <2>3, <2>4 DEF TaskStep
<1>4. CASE Outside /\ UNCHANGED proxyVars
  BY <1>2, <1>4, OutsideMovesNone DEF proxyVars
<1>5. CASE UNCHANGED vars
  BY <1>2, <1>5 DEF vars, wsVars, proxyVars
<1> QED
  BY <1>3, <1>4, <1>5 DEF PNext, AllDone

(* The proxy with its slot, its mutexes, the retries of the client and the    *)
(* sockets under it does nothing that ChatService does not allow: a request   *)
(* ends once, an answer has text, and what text it is given is its own or of  *)
(* a request that was given up.                                               *)
THEOREM ProxyKeepsService == PSpec => ImplementsService
<1>1. PInit => ServiceInv /\ Service!Init
  BY ServiceInit
<1>2. ServiceInv /\ [PNext]_vars => ServiceInv' /\ [Service!Next]_(Service!vars)
  BY ServiceStep
<1> QED
  BY <1>1, <1>2, PTL DEF PSpec, ImplementsService, Service!Spec
=============================================================================
