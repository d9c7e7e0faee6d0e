--------------------------- MODULE WsClientProofs ---------------------------
(***************************************************************************)
(* Proofs about WsClient for any number of requests and clients: the types *)
(* and the ownership of the connection's mutex, and that text of another   *)
(* request reaches a caller only after that request was abandoned.         *)
(***************************************************************************)
EXTENDS WsClient, TLAPS, SequenceTheorems

(* The inductive invariant.  ChatProxy adds await points of its own, so only *)
(* what chat_streaming knows of pc is fixed here.                            *)
WsInv == /\ pc = [r \in Request |-> pc[r]]
         /\ ChatTypeOK
         /\ LockOwner
         /\ ClientKnown
         /\ OutcomeIsLast
         /\ EndIsLast
         /\ PendingIsOwnedOrAbandoned
         /\ ForeignTextIsAbandoned
         /\ PartsKnown

-----------------------------------------------------------------------------
(* Reading the first frame of an inbox shifts the others by one place. *)
LEMMA TailShifts ==
  ASSUME NEW S, NEW s \in Seq(S), s # <<>>
  PROVE  /\ Head(s) \in S /\ Head(s) = s[1] /\ 1 \in DOMAIN s
         /\ Tail(s) \in Seq(S)
         /\ \A i \in DOMAIN Tail(s) : i \in Nat /\ i + 1 \in DOMAIN s /\ Tail(s)[i] = s[i + 1]
<1>1. Len(s) \in Nat \ {0} /\ DOMAIN s = 1 .. Len(s)
  BY EmptySeq, LenProperties
<1>2. Len(Tail(s)) = Len(s) - 1 /\ Tail(s) \in Seq(S) /\ DOMAIN Tail(s) = 1 .. (Len(s) - 1)
  BY <1>1, HeadTailProperties, LenProperties
<1>3. \A i \in 1 .. (Len(s) - 1) : Tail(s)[i] = s[i + 1]
  BY <1>1, HeadTailProperties
<1>4. Head(s) \in S /\ Head(s) = s[1]
  BY <1>1
<1> QED
  BY <1>1, <1>2, <1>3, <1>4

(* Appending a frame leaves those before it where they are. *)
LEMMA AppendKeeps ==
  ASSUME NEW S, NEW s \in Seq(S), NEW e \in S
  PROVE  /\ Append(s, e) \in Seq(S)
         /\ \A i \in DOMAIN s : i \in Nat /\ i \in DOMAIN Append(s, e)
                                /\ i < Len(s) + 1 /\ Append(s, e)[i] = s[i]
         /\ Len(s) + 1 \in DOMAIN Append(s, e) /\ Append(s, e)[Len(s) + 1] = e
         /\ \A i \in DOMAIN Append(s, e) : i \in DOMAIN s \/ i = Len(s) + 1
  BY AppendProperties, LenProperties

(* An end frame is neither a delta nor one the reader passes over. *)
LEMMA DeltaIsNoEnd == "delta" \notin EndKind /\ "note" \notin EndKind
  BY EndKindAssumption

(* Only a note belongs to no run. *)
LEMMA FrameOfRun ==
  ASSUME NEW f \in Frame
  PROVE  /\ f.kind \in {"delta", "note"} \cup EndKind
         /\ f.kind # "note" => f.run \in Run
         /\ f.kind = "note" => f.run \notin Run
  BY NoRunAssumption, DeltaIsNoEnd DEF Frame

-----------------------------------------------------------------------------
(* The initial state satisfies the invariant. *)
LEMMA WsInit == Init => WsInv
<1> SUFFICES ASSUME Init PROVE WsInv
  OBVIOUS
<1>1. pc = [r \in Request |-> pc[r]] /\ ChatTypeOK
  BY BoundAssumption DEF Init, ChatTypeOK, Run, Outcome
<1>2. LockOwner /\ ClientKnown /\ OutcomeIsLast
  BY NoOneAssumption DEF Init, LockOwner, ClientKnown, OutcomeIsLast, Holding, ChatPC
<1>3. EndIsLast /\ PendingIsOwnedOrAbandoned
  BY DEF Init, EndIsLast, PendingIsOwnedOrAbandoned, Pending
<1>4. ForeignTextIsAbandoned /\ PartsKnown
  BY DEF Init, ForeignTextIsAbandoned, PartsKnown
<1> QED
  BY <1>1, <1>2, <1>3, <1>4 DEF WsInv

-----------------------------------------------------------------------------
(* The invariant is preserved, one lemma per action. *)

(* While a request has no outcome, no run of its own is abandoned, and the   *)
(* runs of others stay abandoned.                                            *)
LEMMA AbandonedStays ==
  ASSUME NEW r \in Request, outcome[r] = "none",
         \A q \in Request \ {r} : outcome'[q] = outcome[q] /\ attempt'[q] = attempt[q]
  PROVE  \A u \in Run : Abandoned(u) => u[1] # r /\ Abandoned(u)'
  BY DEF Abandoned, Run, Kept

(* A socket that is replaced or dropped keeps the types. *)
LEMMA SetConnTypes ==
  ASSUME ChatTypeOK, NEW c \in Client, NEW state \in {"none", "up", "dead"},
         SetConn(c, state)
  PROVE  /\ conn' \in [Client -> {"none", "up", "dead"}]
         /\ inbox' \in [Client -> Seq(Frame)]
         /\ feed' \in [Client -> SUBSET Run]
<1>1. <<>> \in Seq(Frame)
  OBVIOUS
<1> QED
  BY <1>1 DEF ChatTypeOK, SetConn

(* A call that fails is retried without an outcome, or ends with its error. *)
LEMMA FailsTypes ==
  ASSUME ChatTypeOK, NEW r \in Request, NEW error \in Outcome, Fails(r, error)
  PROVE  outcome' \in [Request -> Outcome]
  BY DEF ChatTypeOK, Fails, Returns

(* ensure_connected only looks. *)
LEMMA EnsureInv ==
  ASSUME WsInv, NEW r \in Request, Ensure(r)
  PROVE  WsInv'
<1> USE NoOneAssumption
<1>1. client[r] \in Client /\ outcome[r] = "none" /\ pc[r] \in {"ensure"}
  BY DEF WsInv, ClientKnown, OutcomeIsLast, ChatPC, Ensure, Goto, IsFree
<1>2. pc' = [q \in Request |-> pc'[q]] /\ ChatTypeOK'
  BY <1>1 DEF WsInv, ChatTypeOK, Ensure, Goto, IsFree
<1>3. LockOwner'
  BY <1>1 DEF WsInv, ChatTypeOK, LockOwner, Holding, ClientKnown, ChatPC, Ensure, Goto, IsFree
<1>4. ClientKnown' /\ OutcomeIsLast'
  BY <1>1 DEF WsInv, ChatTypeOK, ClientKnown, OutcomeIsLast, ChatPC, Ensure, Goto, IsFree
<1>5. EndIsLast'
  BY <1>1 DEF WsInv, ChatTypeOK, EndIsLast, Ensure, Goto, IsFree
<1>6. \A u \in Run : Abandoned(u) => u[1] # r /\ Abandoned(u)'
  BY <1>1, AbandonedStays DEF WsInv, ChatTypeOK, Ensure, Goto, IsFree
<1>7. PendingIsOwnedOrAbandoned'
  BY <1>1, <1>6 DEF WsInv, ChatTypeOK, PendingIsOwnedOrAbandoned, Pending, Run, Ensure, Goto, IsFree
<1>8. ForeignTextIsAbandoned'
  BY <1>1, <1>6 DEF WsInv, ChatTypeOK, ForeignTextIsAbandoned, Ensure, Goto, IsFree
<1>9. PartsKnown'
  BY <1>1, <1>6 DEF WsInv, ChatTypeOK, PartsKnown, Ensure, Goto, IsFree
<1> QED
  BY <1>2, <1>3, <1>4, <1>5, <1>7, <1>8, <1>9 DEF WsInv

(* connect takes the mutex of a client that has no connection. *)
LEMMA ConnectInv ==
  ASSUME WsInv, NEW r \in Request, Connect(r)
  PROVE  WsInv'
<1> USE NoOneAssumption
<1>1. client[r] \in Client /\ outcome[r] = "none" /\ pc[r] \in {"connect", "reconnect"}
  BY DEF WsInv, ClientKnown, OutcomeIsLast, ChatPC, Connect, Goto, IsFree
<1>2. pc' = [q \in Request |-> pc'[q]] /\ ChatTypeOK'
  BY <1>1 DEF WsInv, ChatTypeOK, Connect, Goto, IsFree
<1>3. LockOwner'
  BY <1>1 DEF WsInv, ChatTypeOK, LockOwner, Holding, ClientKnown, ChatPC, Connect, Goto, IsFree
<1>4. ClientKnown' /\ OutcomeIsLast'
  BY <1>1 DEF WsInv, ChatTypeOK, ClientKnown, OutcomeIsLast, ChatPC, Connect, Goto, IsFree
<1>5. EndIsLast'
  BY <1>1 DEF WsInv, ChatTypeOK, EndIsLast, Connect, Goto, IsFree
<1>6. \A u \in Run : Abandoned(u) => u[1] # r /\ Abandoned(u)'
  BY <1>1, AbandonedStays DEF WsInv, ChatTypeOK, Connect, Goto, IsFree
<1>7. PendingIsOwnedOrAbandoned'
  BY <1>1, <1>6 DEF WsInv, ChatTypeOK, PendingIsOwnedOrAbandoned, Pending, Run, Connect, Goto, IsFree
<1>8. ForeignTextIsAbandoned'
  BY <1>1, <1>6 DEF WsInv, ChatTypeOK, ForeignTextIsAbandoned, Connect, Goto, IsFree
<1>9. PartsKnown'
  BY <1>1, <1>6 DEF WsInv, ChatTypeOK, PartsKnown, Connect, Goto, IsFree
<1> QED
  BY <1>2, <1>3, <1>4, <1>5, <1>7, <1>8, <1>9 DEF WsInv

(* A new socket has nothing pending. *)
LEMMA DialDoneInv ==
  ASSUME WsInv, NEW r \in Request, DialDone(r)
  PROVE  WsInv'
<1> USE NoOneAssumption
<1>1. client[r] \in Client /\ outcome[r] = "none" /\ pc[r] \in {"dial", "redial"}
  BY DEF WsInv, ClientKnown, OutcomeIsLast, ChatPC, DialDone, Goto, SetConn, Release
<1>2. pc' = [q \in Request |-> pc'[q]] /\ ChatTypeOK'
  BY <1>1, SetConnTypes DEF WsInv, ChatTypeOK, DialDone, Goto, Release
<1>3. LockOwner'
  BY <1>1 DEF WsInv, ChatTypeOK, LockOwner, Holding, ClientKnown, ChatPC, DialDone, Goto, SetConn, Release
<1>4. ClientKnown' /\ OutcomeIsLast'
  BY <1>1 DEF WsInv, ChatTypeOK, ClientKnown, OutcomeIsLast, ChatPC, DialDone, Goto, SetConn, Release
<1>5. EndIsLast'
  BY <1>1 DEF WsInv, ChatTypeOK, EndIsLast, DialDone, Goto, SetConn, Release
<1>6. \A u \in Run : Abandoned(u) => u[1] # r /\ Abandoned(u)'
  BY <1>1, AbandonedStays DEF WsInv, ChatTypeOK, DialDone, Goto, SetConn, Release
<1>7. PendingIsOwnedOrAbandoned'
  BY <1>1, <1>6 DEF WsInv, ChatTypeOK, PendingIsOwnedOrAbandoned, Pending, Run, DialDone, Goto, SetConn, Release
<1>8. ForeignTextIsAbandoned'
  BY <1>1, <1>6 DEF WsInv, ChatTypeOK, ForeignTextIsAbandoned, DialDone, Goto, SetConn, Release
<1>9. PartsKnown'
  BY <1>1, <1>6 DEF WsInv, ChatTypeOK, PartsKnown, DialDone, Goto, SetConn, Release
<1> QED
  BY <1>2, <1>3, <1>4, <1>5, <1>7, <1>8, <1>9 DEF WsInv

(* A failed dial leaves the client without its mutex. *)
LEMMA DialFailsInv ==
  ASSUME WsInv, NEW r \in Request,
         NEW error \in {"ws-connect-error", "ws-closed"}, DialFails(r, error)
  PROVE  WsInv'
<1> USE NoOneAssumption
<1>1. client[r] \in Client /\ outcome[r] = "none" /\ pc[r] \in {"dial", "redial"}
  BY DEF WsInv, ClientKnown, OutcomeIsLast, ChatPC, DialFails, Goto, KeepConn, Release
<1>2. pc' = [q \in Request |-> pc'[q]] /\ ChatTypeOK'
  <2>1. outcome' \in [Request -> Outcome]
    BY FailsTypes DEF WsInv, DialFails, Outcome, Lost, Kept
  <2> QED
    BY <1>1, <2>1 DEF WsInv, ChatTypeOK, DialFails, Goto, KeepConn, Release, Fails, Returns
<1>3. LockOwner'
  BY <1>1 DEF WsInv, ChatTypeOK, LockOwner, Holding, ClientKnown, ChatPC, DialFails, Goto, KeepConn, Release, Fails, Returns, Lost, Kept
<1>4. ClientKnown' /\ OutcomeIsLast'
  BY <1>1 DEF WsInv, ChatTypeOK, ClientKnown, OutcomeIsLast, ChatPC, DialFails, Goto, KeepConn, Release, Fails, Returns, Lost, Kept
<1>5. EndIsLast'
  BY <1>1 DEF WsInv, ChatTypeOK, EndIsLast, DialFails, Goto, KeepConn, Release
<1>6. \A u \in Run : Abandoned(u) => u[1] # r /\ Abandoned(u)'
  BY <1>1, AbandonedStays DEF WsInv, ChatTypeOK, DialFails, Goto, KeepConn, Release, Fails, Returns, Lost, Kept
<1>7. PendingIsOwnedOrAbandoned'
  BY <1>1, <1>6 DEF WsInv, ChatTypeOK, PendingIsOwnedOrAbandoned, Pending, Run, LockOwner, Holding, DialFails, Goto, KeepConn, Release, Fails, Returns, Lost, Kept
<1>8. ForeignTextIsAbandoned'
  BY <1>1, <1>6 DEF WsInv, ChatTypeOK, ForeignTextIsAbandoned, DialFails, Goto, KeepConn, Release, Fails, Returns, Lost, Kept
<1>9. PartsKnown'
  BY <1>1, <1>6 DEF WsInv, ChatTypeOK, PartsKnown, DialFails, Goto, KeepConn, Release, Fails, Returns, Lost, Kept
<1> QED
  BY <1>2, <1>3, <1>4, <1>5, <1>7, <1>8, <1>9 DEF WsInv

(* The task that sends owns the connection from before the send. *)
LEMMA StartSendInv ==
  ASSUME WsInv, NEW r \in Request, StartSend(r)
  PROVE  WsInv'
<1> USE NoOneAssumption
<1>1. client[r] \in Client /\ outcome[r] = "none" /\ pc[r] \in {"send"}
  BY DEF WsInv, ClientKnown, OutcomeIsLast, ChatPC, StartSend, Goto, IsFree, Acquire
<1>2. pc' = [q \in Request |-> pc'[q]] /\ ChatTypeOK'
  BY <1>1 DEF WsInv, ChatTypeOK, StartSend, Goto, IsFree, Acquire
<1>3. LockOwner'
  BY <1>1 DEF WsInv, ChatTypeOK, LockOwner, Holding, ClientKnown, ChatPC, StartSend, Goto, IsFree, Acquire
<1>4. ClientKnown' /\ OutcomeIsLast'
  BY <1>1 DEF WsInv, ChatTypeOK, ClientKnown, OutcomeIsLast, ChatPC, StartSend, Goto, IsFree, Acquire
<1>5. EndIsLast'
  BY <1>1 DEF WsInv, ChatTypeOK, EndIsLast, StartSend, Goto, IsFree, Acquire
<1>6. \A u \in Run : Abandoned(u) => u[1] # r /\ Abandoned(u)'
  BY <1>1, AbandonedStays DEF WsInv, ChatTypeOK, StartSend, Goto, IsFree, Acquire
<1>7. PendingIsOwnedOrAbandoned'
  BY <1>1, <1>6 DEF WsInv, ChatTypeOK, PendingIsOwnedOrAbandoned, Pending, Run, StartSend, Goto, IsFree, Acquire
<1>8. ForeignTextIsAbandoned'
  BY <1>1, <1>6 DEF WsInv, ChatTypeOK, ForeignTextIsAbandoned, StartSend, Goto, IsFree, Acquire
<1>9. PartsKnown'
  BY <1>1, <1>6 DEF WsInv, ChatTypeOK, PartsKnown, StartSend, Goto, IsFree, Acquire
<1> QED
  BY <1>2, <1>3, <1>4, <1>5, <1>7, <1>8, <1>9 DEF WsInv

(* The run that is sent is pending and owned. *)
LEMMA SendReqInv ==
  ASSUME WsInv, NEW r \in Request, SendReq(r)
  PROVE  WsInv'
<1> USE NoOneAssumption
<1>1. client[r] \in Client /\ outcome[r] = "none" /\ pc[r] \in {"sending"}
  BY DEF WsInv, ClientKnown, OutcomeIsLast, ChatPC, SendReq, Goto, FreshText
<1>2. pc' = [q \in Request |-> pc'[q]] /\ ChatTypeOK'
  <2>1. <<r, attempt[r]>> \in Run
    BY DEF WsInv, ChatTypeOK, Run
  <2>2. feed' \in [Client -> SUBSET Run]
    BY <1>1, <2>1 DEF WsInv, ChatTypeOK, SendReq, FreshText
  <2> QED
    BY <1>1, <2>2 DEF WsInv, ChatTypeOK, SendReq, Goto, FreshText
<1>3. LockOwner'
  BY <1>1 DEF WsInv, ChatTypeOK, LockOwner, Holding, ClientKnown, ChatPC, SendReq, Goto, FreshText
<1>4. ClientKnown' /\ OutcomeIsLast'
  BY <1>1 DEF WsInv, ChatTypeOK, ClientKnown, OutcomeIsLast, ChatPC, SendReq, Goto, FreshText
<1>5. EndIsLast'
  <2> DEFINE c == client[r]
             u == <<r, attempt[r]>>
  <2>1. ~Pending(c, u)
    <3>1. u \in Run /\ u[1] = r
      BY DEF WsInv, ChatTypeOK, Run
    <3> QED
      BY <1>1, <3>1 DEF WsInv, PendingIsOwnedOrAbandoned, Abandoned, Kept
  <2>2. \A i \in DOMAIN inbox[c] : inbox[c][i].run # u
    BY <2>1 DEF Pending
  <2>3. inbox' = inbox /\ \A d \in Client : feed'[d] \subseteq feed[d] \cup (IF d = c THEN {u} ELSE {})
    BY <1>1 DEF WsInv, ChatTypeOK, SendReq, FreshText
  <2> QED
    BY <2>2, <2>3 DEF WsInv, EndIsLast
<1>6. \A u \in Run : Abandoned(u) => u[1] # r /\ Abandoned(u)'
  BY <1>1, AbandonedStays DEF WsInv, ChatTypeOK, SendReq, Goto, FreshText
<1>7. PendingIsOwnedOrAbandoned'
  <2> SUFFICES ASSUME NEW d \in Client, NEW u \in Run, Pending(d, u)'
               PROVE  \/ lock'[d] = u[1] /\ pc'[u[1]] = "collect" /\ attempt'[u[1]] = u[2]
                      \/ Abandoned(u)'
    BY DEF PendingIsOwnedOrAbandoned
  <2>1. lock[client[r]] = r /\ lock' = lock /\ attempt' = attempt /\ inbox' = inbox
        /\ pc' = [pc EXCEPT ![r] = "collect"]
    BY <1>1 DEF WsInv, LockOwner, Holding, SendReq, Goto
  <2>2. CASE d = client[r] /\ u = <<r, attempt[r]>>
    BY <2>1, <2>2 DEF WsInv
  <2>3. CASE ~(d = client[r] /\ u = <<r, attempt[r]>>)
    <3>1. Pending(d, u)
      BY <1>1, <2>1, <2>3 DEF WsInv, ChatTypeOK, Pending, SendReq
    <3> QED
      BY <1>6, <2>1, <3>1 DEF WsInv, PendingIsOwnedOrAbandoned
  <2> QED
    BY <2>2, <2>3
<1>8. ForeignTextIsAbandoned'
  BY <1>1, <1>6 DEF WsInv, ChatTypeOK, ForeignTextIsAbandoned, SendReq, Goto, FreshText
<1>9. PartsKnown'
  BY <1>1, <1>6 DEF WsInv, ChatTypeOK, PartsKnown, SendReq, Goto, FreshText
<1> QED
  BY <1>2, <1>3, <1>4, <1>5, <1>7, <1>8, <1>9 DEF WsInv

(* A failed send drops the connection. *)
LEMMA SendFailsInv ==
  ASSUME WsInv, NEW r \in Request, SendFails(r)
  PROVE  WsInv'
<1> USE NoOneAssumption
<1>1. client[r] \in Client /\ outcome[r] = "none" /\ pc[r] \in {"sending"}
  BY DEF WsInv, ClientKnown, OutcomeIsLast, ChatPC, SendFails, Goto, SetConn, Release
<1>2. pc' = [q \in Request |-> pc'[q]] /\ ChatTypeOK'
  <2>1. outcome' \in [Request -> Outcome]
    BY FailsTypes DEF WsInv, SendFails, Outcome, Lost, Kept
  <2> QED
    BY <1>1, <2>1, SetConnTypes DEF WsInv, ChatTypeOK, SendFails, Goto, Release, Fails, Returns
<1>3. LockOwner'
  BY <1>1 DEF WsInv, ChatTypeOK, LockOwner, Holding, ClientKnown, ChatPC, SendFails, Goto, SetConn, Release, Fails, Returns, Lost, Kept
<1>4. ClientKnown' /\ OutcomeIsLast'
  BY <1>1 DEF WsInv, ChatTypeOK, ClientKnown, OutcomeIsLast, ChatPC, SendFails, Goto, SetConn, Release, Fails, Returns, Lost, Kept
<1>5. EndIsLast'
  BY <1>1 DEF WsInv, ChatTypeOK, EndIsLast, SendFails, Goto, SetConn, Release
<1>6. \A u \in Run : Abandoned(u) => u[1] # r /\ Abandoned(u)'
  BY <1>1, AbandonedStays DEF WsInv, ChatTypeOK, SendFails, Goto, SetConn, Release, Fails, Returns, Lost, Kept
<1>7. PendingIsOwnedOrAbandoned'
  BY <1>1, <1>6 DEF WsInv, ChatTypeOK, PendingIsOwnedOrAbandoned, Pending, Run, LockOwner, Holding, SendFails, Goto, SetConn, Release, Fails, Returns, Lost, Kept
<1>8. ForeignTextIsAbandoned'
  BY <1>1, <1>6 DEF WsInv, ChatTypeOK, ForeignTextIsAbandoned, SendFails, Goto, SetConn, Release, Fails, Returns, Lost, Kept
<1>9. PartsKnown'
  BY <1>1, <1>6 DEF WsInv, ChatTypeOK, PartsKnown, SendFails, Goto, SetConn, Release, Fails, Returns, Lost, Kept
<1> QED
  BY <1>2, <1>3, <1>4, <1>5, <1>7, <1>8, <1>9 DEF WsInv

(* Without a connection nothing is sent. *)
LEMMA NotConnectedInv ==
  ASSUME WsInv, NEW r \in Request, NotConnected(r)
  PROVE  WsInv'
<1> USE NoOneAssumption
<1>1. client[r] \in Client /\ outcome[r] = "none" /\ pc[r] \in {"send"}
  BY DEF WsInv, ClientKnown, OutcomeIsLast, ChatPC, NotConnected, Goto, IsFree
<1>2. pc' = [q \in Request |-> pc'[q]] /\ ChatTypeOK'
  <2>1. outcome' \in [Request -> Outcome]
    BY FailsTypes DEF WsInv, NotConnected, Outcome, Lost, Kept
  <2> QED
    BY <1>1, <2>1 DEF WsInv, ChatTypeOK, NotConnected, Goto, IsFree, Fails, Returns
<1>3. LockOwner'
  BY <1>1 DEF WsInv, ChatTypeOK, LockOwner, Holding, ClientKnown, ChatPC, NotConnected, Goto, IsFree, Fails, Returns, Lost, Kept
<1>4. ClientKnown' /\ OutcomeIsLast'
  BY <1>1 DEF WsInv, ChatTypeOK, ClientKnown, OutcomeIsLast, ChatPC, NotConnected, Goto, IsFree, Fails, Returns, Lost, Kept
<1>5. EndIsLast'
  BY <1>1 DEF WsInv, ChatTypeOK, EndIsLast, NotConnected, Goto, IsFree
<1>6. \A u \in Run : Abandoned(u) => u[1] # r /\ Abandoned(u)'
  BY <1>1, AbandonedStays DEF WsInv, ChatTypeOK, NotConnected, Goto, IsFree, Fails, Returns, Lost, Kept
<1>7. PendingIsOwnedOrAbandoned'
  BY <1>1, <1>6 DEF WsInv, ChatTypeOK, PendingIsOwnedOrAbandoned, Pending, Run, LockOwner, Holding, NotConnected, Goto, IsFree, Fails, Returns, Lost, Kept
<1>8. ForeignTextIsAbandoned'
  BY <1>1, <1>6 DEF WsInv, ChatTypeOK, ForeignTextIsAbandoned, NotConnected, Goto, IsFree, Fails, Returns, Lost, Kept
<1>9. PartsKnown'
  BY <1>1, <1>6 DEF WsInv, ChatTypeOK, PartsKnown, NotConnected, Goto, IsFree, Fails, Returns, Lost, Kept
<1> QED
  BY <1>2, <1>3, <1>4, <1>5, <1>7, <1>8, <1>9 DEF WsInv

(* A lost connection takes what was pending with it. *)
LEMMA RecvLostInv ==
  ASSUME WsInv, NEW r \in Request, RecvLost(r)
  PROVE  WsInv'
<1> USE NoOneAssumption
<1>1. client[r] \in Client /\ outcome[r] = "none" /\ pc[r] \in {"collect"}
  BY DEF WsInv, ClientKnown, OutcomeIsLast, ChatPC, RecvLost, Goto, SetConn, Release
<1>2. pc' = [q \in Request |-> pc'[q]] /\ ChatTypeOK'
  <2>1. outcome' \in [Request -> Outcome]
    BY FailsTypes DEF WsInv, RecvLost, Outcome, Lost, Kept
  <2> QED
    BY <1>1, <2>1, SetConnTypes DEF WsInv, ChatTypeOK, RecvLost, Goto, Release, Fails, Returns
<1>3. LockOwner'
  BY <1>1 DEF WsInv, ChatTypeOK, LockOwner, Holding, ClientKnown, ChatPC, RecvLost, Goto, SetConn, Release, Fails, Returns, Lost, Kept
<1>4. ClientKnown' /\ OutcomeIsLast'
  BY <1>1 DEF WsInv, ChatTypeOK, ClientKnown, OutcomeIsLast, ChatPC, RecvLost, Goto, SetConn, Release, Fails, Returns, Lost, Kept
<1>5. EndIsLast'
  BY <1>1 DEF WsInv, ChatTypeOK, EndIsLast, RecvLost, Goto, SetConn, Release
<1>6. \A u \in Run : Abandoned(u) => u[1] # r /\ Abandoned(u)'
  BY <1>1, AbandonedStays DEF WsInv, ChatTypeOK, RecvLost, Goto, SetConn, Release, Fails, Returns, Lost, Kept
<1>7. PendingIsOwnedOrAbandoned'
  <2> SUFFICES ASSUME NEW d \in Client, NEW u \in Run, Pending(d, u)'
               PROVE  \/ lock'[d] = u[1] /\ pc'[u[1]] = "collect" /\ attempt'[u[1]] = u[2]
                      \/ Abandoned(u)'
    BY DEF PendingIsOwnedOrAbandoned
  <2>1. Pending(d, u)
    BY <1>1 DEF WsInv, ChatTypeOK, Pending, RecvLost, SetConn
  <2>2. CASE Abandoned(u)
    BY <2>2, <1>6
  <2>3. CASE lock[d] = u[1] /\ pc[u[1]] = "collect" /\ attempt[u[1]] = u[2]
    <3>1. CASE u[1] = r
      <4>1. d = client[r]
        BY <1>1, <2>3, <3>1 DEF WsInv, LockOwner, Holding
      <4> QED
        BY <4>1, <1>1 DEF WsInv, ChatTypeOK, Pending, RecvLost, SetConn
    <3>2. CASE u[1] # r
      BY <1>1, <2>3, <3>2 DEF WsInv, ChatTypeOK, LockOwner, Holding, Run, RecvLost, Goto, SetConn, Release, Fails, Returns, Lost, Kept
    <3> QED
      BY <3>1, <3>2
  <2> QED
    BY <2>1, <2>2, <2>3 DEF WsInv, PendingIsOwnedOrAbandoned
<1>8. ForeignTextIsAbandoned'
  BY <1>1, <1>6 DEF WsInv, ChatTypeOK, ForeignTextIsAbandoned, RecvLost, Goto, SetConn, Release, Fails, Returns, Lost, Kept
<1>9. PartsKnown'
  BY <1>1, <1>6 DEF WsInv, ChatTypeOK, PartsKnown, RecvLost, Goto, SetConn, Release, Fails, Returns, Lost, Kept
<1> QED
  BY <1>2, <1>3, <1>4, <1>5, <1>7, <1>8, <1>9 DEF WsInv

(* A request that times out abandons its run. *)
LEMMA IdleTimeoutInv ==
  ASSUME WsInv, NEW r \in Request, IdleTimeout(r)
  PROVE  WsInv'
<1> USE NoOneAssumption
<1>1. client[r] \in Client /\ outcome[r] = "none" /\ pc[r] \in {"collect"}
  BY DEF WsInv, ClientKnown, OutcomeIsLast, ChatPC, IdleTimeout, Goto, KeepConn, Release
<1>2. pc' = [q \in Request |-> pc'[q]] /\ ChatTypeOK'
  <2>1. outcome' \in [Request -> Outcome]
    BY FailsTypes DEF WsInv, IdleTimeout, Outcome, Lost, Kept
  <2> QED
    BY <1>1, <2>1 DEF WsInv, ChatTypeOK, IdleTimeout, Goto, KeepConn, Release, Fails, Returns
<1>3. LockOwner'
  BY <1>1 DEF WsInv, ChatTypeOK, LockOwner, Holding, ClientKnown, ChatPC, IdleTimeout, Goto, KeepConn, Release, Fails, Returns, Lost, Kept
<1>4. ClientKnown' /\ OutcomeIsLast'
  BY <1>1 DEF WsInv, ChatTypeOK, ClientKnown, OutcomeIsLast, ChatPC, IdleTimeout, Goto, KeepConn, Release, Fails, Returns, Lost, Kept
<1>5. EndIsLast'
  BY <1>1 DEF WsInv, ChatTypeOK, EndIsLast, IdleTimeout, Goto, KeepConn, Release
<1>6. \A u \in Run : Abandoned(u) => u[1] # r /\ Abandoned(u)'
  BY <1>1, AbandonedStays DEF WsInv, ChatTypeOK, IdleTimeout, Goto, KeepConn, Release, Fails, Returns, Lost, Kept
<1>7. PendingIsOwnedOrAbandoned'
  <2> SUFFICES ASSUME NEW d \in Client, NEW u \in Run, Pending(d, u)'
               PROVE  \/ lock'[d] = u[1] /\ pc'[u[1]] = "collect" /\ attempt'[u[1]] = u[2]
                      \/ Abandoned(u)'
    BY DEF PendingIsOwnedOrAbandoned
  <2>1. Pending(d, u)
    BY <1>1 DEF WsInv, ChatTypeOK, Pending, IdleTimeout, KeepConn
  <2>2. CASE Abandoned(u)
    BY <2>2, <1>6
  <2>3. CASE lock[d] = u[1] /\ pc[u[1]] = "collect" /\ attempt[u[1]] = u[2]
    <3>1. CASE u[1] = r
      BY <1>1, <3>1, <2>3 DEF WsInv, ChatTypeOK, Abandoned, Run, IdleTimeout, Fails, Returns,
               Lost, Kept
    <3>2. CASE u[1] # r
      BY <1>1, <2>3, <3>2 DEF WsInv, ChatTypeOK, LockOwner, Holding, Run, IdleTimeout, Goto, KeepConn, Release, Fails, Returns, Lost, Kept
    <3> QED
      BY <3>1, <3>2
  <2> QED
    BY <2>1, <2>2, <2>3 DEF WsInv, PendingIsOwnedOrAbandoned
<1>8. ForeignTextIsAbandoned'
  BY <1>1, <1>6 DEF WsInv, ChatTypeOK, ForeignTextIsAbandoned, IdleTimeout, Goto, KeepConn, Release, Fails, Returns, Lost, Kept
<1>9. PartsKnown'
  BY <1>1, <1>6 DEF WsInv, ChatTypeOK, PartsKnown, IdleTimeout, Goto, KeepConn, Release, Fails, Returns, Lost, Kept
<1> QED
  BY <1>2, <1>3, <1>4, <1>5, <1>7, <1>8, <1>9 DEF WsInv

(* The retry starts with nothing pending. *)
LEMMA RetryResetInv ==
  ASSUME WsInv, NEW r \in Request, RetryReset(r)
  PROVE  WsInv'
<1> USE NoOneAssumption
<1>1. client[r] \in Client /\ outcome[r] = "none" /\ pc[r] \in {"reset"}
  BY DEF WsInv, ClientKnown, OutcomeIsLast, ChatPC, RetryReset, Goto, IsFree, SetConn
<1>2. pc' = [q \in Request |-> pc'[q]] /\ ChatTypeOK'
  BY <1>1, SetConnTypes DEF WsInv, ChatTypeOK, RetryReset, Goto, IsFree
<1>3. LockOwner'
  BY <1>1 DEF WsInv, ChatTypeOK, LockOwner, Holding, ClientKnown, ChatPC, RetryReset, Goto, IsFree, SetConn
<1>4. ClientKnown' /\ OutcomeIsLast'
  BY <1>1 DEF WsInv, ChatTypeOK, ClientKnown, OutcomeIsLast, ChatPC, RetryReset, Goto, IsFree, SetConn
<1>5. EndIsLast'
  BY <1>1 DEF WsInv, ChatTypeOK, EndIsLast, RetryReset, Goto, IsFree, SetConn
<1>6. \A u \in Run : Abandoned(u) => u[1] # r /\ Abandoned(u)'
  BY <1>1, AbandonedStays DEF WsInv, ChatTypeOK, RetryReset, Goto, IsFree, SetConn
<1>7. PendingIsOwnedOrAbandoned'
  BY <1>1, <1>6 DEF WsInv, ChatTypeOK, PendingIsOwnedOrAbandoned, Pending, Run, LockOwner, Holding, RetryReset, Goto, IsFree, SetConn
<1>8. ForeignTextIsAbandoned'
  BY <1>1, <1>6 DEF WsInv, ChatTypeOK, ForeignTextIsAbandoned, RetryReset, Goto, IsFree, SetConn
<1>9. PartsKnown'
  BY <1>1, <1>6 DEF WsInv, ChatTypeOK, PartsKnown, RetryReset, Goto, IsFree, SetConn
<1> QED
  BY <1>2, <1>3, <1>4, <1>5, <1>7, <1>8, <1>9 DEF WsInv

(* A request that is dropped abandons its run. *)
LEMMA DropInv ==
  ASSUME WsInv, NEW r \in Request, Drop(r)
  PROVE  WsInv'
<1> USE NoOneAssumption
<1>1. client[r] \in Client /\ outcome[r] = "none" /\ pc[r] \in ChatPC \ {"returned"}
  BY DEF WsInv, ClientKnown, OutcomeIsLast, ChatPC, Drop, Goto, KeepConn
<1>2. pc' = [q \in Request |-> pc'[q]] /\ ChatTypeOK'
  BY <1>1 DEF WsInv, ChatTypeOK, Drop, Goto, KeepConn, Outcome
<1>3. LockOwner'
  BY <1>1 DEF WsInv, ChatTypeOK, LockOwner, Holding, ClientKnown, ChatPC, Drop, Goto, KeepConn
<1>4. ClientKnown' /\ OutcomeIsLast'
  BY <1>1 DEF WsInv, ChatTypeOK, ClientKnown, OutcomeIsLast, ChatPC, Drop, Goto, KeepConn
<1>5. EndIsLast'
  BY <1>1 DEF WsInv, ChatTypeOK, EndIsLast, Drop, Goto, KeepConn
<1>6. \A u \in Run : Abandoned(u) => u[1] # r /\ Abandoned(u)'
  BY <1>1, AbandonedStays DEF WsInv, ChatTypeOK, Drop, Goto, KeepConn
<1>7. PendingIsOwnedOrAbandoned'
  <2> SUFFICES ASSUME NEW d \in Client, NEW u \in Run, Pending(d, u)'
               PROVE  \/ lock'[d] = u[1] /\ pc'[u[1]] = "collect" /\ attempt'[u[1]] = u[2]
                      \/ Abandoned(u)'
    BY DEF PendingIsOwnedOrAbandoned
  <2>1. Pending(d, u)
    BY <1>1 DEF WsInv, ChatTypeOK, Pending, Drop, KeepConn
  <2>2. CASE Abandoned(u)
    BY <2>2, <1>6
  <2>3. CASE lock[d] = u[1] /\ pc[u[1]] = "collect" /\ attempt[u[1]] = u[2]
    <3>1. CASE u[1] = r
      BY <1>1, <3>1, <2>3 DEF WsInv, ChatTypeOK, Abandoned, Run, Drop
    <3>2. CASE u[1] # r
      BY <1>1, <2>3, <3>2 DEF WsInv, ChatTypeOK, LockOwner, Holding, Run, Drop, Goto, KeepConn
    <3> QED
      BY <3>1, <3>2
  <2> QED
    BY <2>1, <2>2, <2>3 DEF WsInv, PendingIsOwnedOrAbandoned
<1>8. ForeignTextIsAbandoned'
  BY <1>1, <1>6 DEF WsInv, ChatTypeOK, ForeignTextIsAbandoned, Drop, Goto, KeepConn
<1>9. PartsKnown'
  BY <1>1, <1>6 DEF WsInv, ChatTypeOK, PartsKnown, Drop, Goto, KeepConn
<1> QED
  BY <1>2, <1>3, <1>4, <1>5, <1>7, <1>8, <1>9 DEF WsInv

(* Reading a frame: nothing becomes pending, and the frame that ends the     *)
(* reader's own run is the last one pending for it.                          *)
LEMMA ReadFramePending ==
  ASSUME WsInv, NEW r \in Request, ReadFrame(r)
  PROVE  /\ inbox' \in [Client -> Seq(Frame)]
         /\ EndIsLast'
         /\ \A d \in Client : \A u \in Run : Pending(d, u)' => Pending(d, u)
         /\ Head(inbox[client[r]]) \in Frame
         /\ Pending(client[r], Head(inbox[client[r]]).run)
         /\ Head(inbox[client[r]]).kind \in EndKind =>
              \A d \in Client : \A u \in Run :
                 d = client[r] /\ u = Head(inbox[client[r]]).run => ~Pending(d, u)'
<1> DEFINE c == client[r]
           f == Head(inbox[c])
<1>1. c \in Client /\ inbox[c] \in Seq(Frame) /\ inbox[c] # <<>>
  BY DEF WsInv, ChatTypeOK, ClientKnown, ChatPC, ReadFrame
<1>2. inbox' = [inbox EXCEPT ![c] = Tail(inbox[c])] /\ feed' = feed /\ client' = client
  BY DEF ReadFrame
<1>3. /\ f \in Frame /\ f = inbox[c][1] /\ 1 \in DOMAIN inbox[c]
      /\ Tail(inbox[c]) \in Seq(Frame)
      /\ \A i \in DOMAIN Tail(inbox[c]) :
            i \in Nat /\ i + 1 \in DOMAIN inbox[c] /\ Tail(inbox[c])[i] = inbox[c][i + 1]
  <2> HIDE DEF c
  <2> QED
    BY <1>1, TailShifts
<1>4. /\ inbox' \in [Client -> Seq(Frame)]
      /\ inbox'[c] = Tail(inbox[c])
      /\ \A d \in Client \ {c} : inbox'[d] = inbox[d]
  BY <1>1, <1>2, <1>3 DEF WsInv, ChatTypeOK
<1> HIDE DEF c, f
<1>5. \A i \in DOMAIN inbox'[c] : i \in Nat /\ i + 1 \in DOMAIN inbox[c]
                                 /\ inbox'[c][i] = inbox[c][i + 1]
  BY <1>3, <1>4
<1>6. EndIsLast'
  <2> SUFFICES ASSUME NEW d \in Client, NEW i \in DOMAIN inbox'[d],
                      inbox'[d][i].kind \in EndKind
               PROVE  /\ inbox'[d][i].run \notin feed'[d]
                      /\ \A j \in DOMAIN inbox'[d] : j > i =>
                            inbox'[d][j].run # inbox'[d][i].run
    BY DEF EndIsLast
  <2>1. CASE d = c
    <3>1. /\ inbox[c][i + 1].run \notin feed[c]
          /\ \A j \in DOMAIN inbox[c] : j > i + 1 => inbox[c][j].run # inbox[c][i + 1].run
      BY <1>1, <1>5, <2>1 DEF WsInv, EndIsLast
    <3>2. \A j \in DOMAIN inbox'[c] : j > i => j + 1 > i + 1
      BY <1>5, <2>1
    <3> QED
      BY <1>2, <1>5, <2>1, <3>1, <3>2
  <2>2. CASE d # c
    BY <1>2, <1>4, <2>2 DEF WsInv, EndIsLast
  <2> QED
    BY <2>1, <2>2
<1>7. \A d \in Client : \A u \in Run : Pending(d, u)' => Pending(d, u)
  BY <1>2, <1>4, <1>5 DEF Pending
<1>8. Pending(c, f.run)
  BY <1>3 DEF Pending
<1>9. ASSUME f.kind \in EndKind, NEW d \in Client, NEW u \in Run, d = c, u = f.run
      PROVE  ~Pending(d, u)'
  <2>1. /\ u \notin feed[d]
        /\ \A j \in DOMAIN inbox[d] : j > 1 => inbox[d][j].run # u
    BY <1>1, <1>3, <1>9 DEF WsInv, EndIsLast
  <2>2. \A i \in DOMAIN inbox'[d] : i + 1 > 1
    <3>1. inbox'[d] \in Seq(Frame)
      BY <1>3, <1>4, <1>9
    <3> QED
      BY <3>1
  <2>3. \A i \in DOMAIN inbox'[d] : inbox'[d][i].run # u
    BY <1>5, <1>9, <2>1, <2>2
  <2> QED
    BY <1>2, <2>1, <2>3 DEF Pending
<1> QED
  BY <1>3, <1>4, <1>6, <1>7, <1>8, <1>9 DEF c, f

(* A note that is read changes nothing but the inbox. *)
LEMMA ReadNoteInv ==
  ASSUME WsInv, NEW r \in Request, ReadFrame(r), Head(inbox[client[r]]).kind = "note"
  PROVE  /\ WsInv'
         /\ UNCHANGED <<pc, attempt, client, conn, lock, feed, deltas, parts, shown, outcome,
                         breaks>>
<1>1. UNCHANGED <<pc, attempt, client, conn, lock, feed, deltas, parts, shown, outcome, breaks>>
  BY DeltaIsNoEnd DEF ReadFrame
<1>2. /\ inbox' \in [Client -> Seq(Frame)]
      /\ EndIsLast'
      /\ \A d \in Client : \A u \in Run : Pending(d, u)' => Pending(d, u)
  BY ReadFramePending
<1>3. ChatTypeOK' /\ pc' = [q \in Request |-> pc'[q]]
  BY <1>1, <1>2 DEF WsInv, ChatTypeOK
<1>4. LockOwner' /\ ClientKnown' /\ OutcomeIsLast'
  BY <1>1 DEF WsInv, LockOwner, ClientKnown, OutcomeIsLast
<1>5. \A u \in Run : Abandoned(u)' <=> Abandoned(u)
  BY <1>1 DEF Abandoned
<1>6. PendingIsOwnedOrAbandoned'
  BY <1>1, <1>2, <1>5 DEF WsInv, PendingIsOwnedOrAbandoned
<1>7. ForeignTextIsAbandoned' /\ PartsKnown'
  BY <1>1 DEF WsInv, ForeignTextIsAbandoned, PartsKnown, Abandoned
<1> QED
  BY <1>1, <1>2, <1>3, <1>4, <1>6, <1>7 DEF WsInv

(* Text is taken from the reader's own run or from an abandoned one, and an  *)
(* answer leaves nothing of its own run behind.                              *)
LEMMA ReadTextInv ==
  ASSUME WsInv, NEW r \in Request, ReadFrame(r), Head(inbox[client[r]]).kind # "note"
  PROVE  WsInv'
<1> USE NoOneAssumption
<1> DEFINE c == client[r]
           f == Head(inbox[c])
           own == <<r, attempt[r]>>
<1>1. c \in Client /\ outcome[r] = "none" /\ pc[r] = "collect" /\ lock[c] = r
  BY DEF WsInv, LockOwner, ClientKnown, OutcomeIsLast, ChatPC, Holding, ReadFrame
<1>2. /\ inbox' \in [Client -> Seq(Frame)]
      /\ EndIsLast'
      /\ \A d \in Client : \A u \in Run : Pending(d, u)' => Pending(d, u)
      /\ f \in Frame /\ Pending(c, f.run)
      /\ f.kind \in EndKind => \A d \in Client : \A u \in Run :
                                  d = c /\ u = f.run => ~Pending(d, u)'
  BY ReadFramePending
<1>3. PICK x \in Run : x = f.run
  BY <1>2, FrameOfRun
<1>4. /\ own \in Run /\ own[1] = r /\ own[2] = attempt[r]
      /\ x = <<x[1], x[2]>> /\ x[1] \in Request /\ x[2] \in {1, 2}
  BY DEF WsInv, ChatTypeOK, Run
<1>5. UNCHANGED <<attempt, client, conn, feed, deltas, breaks>>
  BY DEF ReadFrame
<1>6. \/ UNCHANGED <<pc, lock, outcome>>
      \/ /\ pc' = [pc EXCEPT ![r] = "returned"]
         /\ lock' = [lock EXCEPT ![c] = NoOne]
         /\ \/ outcome' = [outcome EXCEPT ![r] = "ws-gateway-error"]
            \/ /\ outcome' = [outcome EXCEPT ![r] = "ok"]
               /\ x = own /\ f.kind \in EndKind
               /\ parts'[r] # {}
  <2>1. f.kind \in {"delta"} \cup EndKind
    BY <1>2, FrameOfRun
  <2>2. CASE f.kind = "delta"
    BY <2>2 DEF ReadFrame
  <2>3. CASE f.kind \in EndKind /\ ~(x = own)
    BY <1>3, <2>3, DeltaIsNoEnd DEF ReadFrame, Returns, Goto, Release
  <2>4. CASE f.kind \in EndKind /\ x = own
    <3>1. parts \in [Request -> SUBSET Run]
      BY DEF WsInv, ChatTypeOK
    <3>2. CASE f.kind = "done"
      <4>1. parts[r] = {} => x \in parts'[r]
        BY <1>3, <2>4, <3>1, <3>2 DEF ReadFrame, TakeSummary, TakeText
      <4>2. parts[r] # {} => parts'[r] # {}
        BY <3>2 DEF ReadFrame, TakeSummary
      <4> QED
        BY <1>3, <2>4, <3>2, <4>1, <4>2 DEF ReadFrame, Returns, Goto, Release
    <3>3. CASE f.kind = "fail"
      BY <1>3, <2>4, <3>3 DEF ReadFrame, Returns, Goto, Release
    <3>4. CASE f.kind \in {"nak", "err"}
      BY <1>3, <2>4, <3>4 DEF ReadFrame, Returns, Goto, Release
    <3>5. CASE f.kind = "text"
      <4>1. x \in parts'[r]
        BY <1>3, <2>4, <3>1, <3>5 DEF ReadFrame, TakeText
      <4> QED
        BY <1>3, <2>4, <3>5, <4>1 DEF ReadFrame, Returns, Goto, Release
    <3> QED
      BY <2>4, <3>2, <3>3, <3>4, <3>5, EndKindAssumption
  <2> QED
    BY <2>1, <2>2, <2>3, <2>4
<1>7. \/ parts' = parts /\ shown' = shown
      \/ /\ parts' = [parts EXCEPT ![r] = @ \cup {x}]
         /\ shown' = [shown EXCEPT ![r] = @ \cup {x}]
  BY <1>3 DEF ReadFrame, TakeSummary, TakeText
<1>8. Pending(c, x) /\ (f.kind \in EndKind => \A d \in Client : d = c => ~Pending(d, x)')
  BY <1>2, <1>3
<1> HIDE DEF c, f, own
<1>9. \A u \in Run : Abandoned(u) => u[1] # r /\ Abandoned(u)'
  <2>1. \A q \in Request \ {r} : outcome'[q] = outcome[q] /\ attempt'[q] = attempt[q]
    BY <1>5, <1>6 DEF WsInv, ChatTypeOK
  <2> QED
    BY <2>1, <1>1, AbandonedStays
<1>10. x = own \/ (x[1] # r /\ Abandoned(x)')
  <2>1. \/ lock[c] = x[1] /\ attempt[x[1]] = x[2]
        \/ Abandoned(x)
    BY <1>1, <1>8 DEF WsInv, PendingIsOwnedOrAbandoned
  <2> QED
    BY <2>1, <1>1, <1>4, <1>9 DEF own
<1>11. pc' = [q \in Request |-> pc'[q]] /\ ChatTypeOK'
  <2>1. pc' = [q \in Request |-> pc'[q]]
    BY <1>6 DEF WsInv
  <2>2. lock' \in [Client -> Request \cup {NoOne}] /\ outcome' \in [Request -> Outcome]
    BY <1>6 DEF WsInv, ChatTypeOK, Outcome, Kept
  <2>3. parts' \in [Request -> SUBSET Run] /\ shown' \in [Request -> SUBSET Run]
    <3>1. parts[r] \cup {x} \in SUBSET Run /\ shown[r] \cup {x} \in SUBSET Run
      BY DEF WsInv, ChatTypeOK
    <3>2. parts \in [Request -> SUBSET Run] /\ shown \in [Request -> SUBSET Run]
      BY DEF WsInv, ChatTypeOK
    <3>3. /\ [parts EXCEPT ![r] = parts[r] \cup {x}] \in [Request -> SUBSET Run]
          /\ [shown EXCEPT ![r] = shown[r] \cup {x}] \in [Request -> SUBSET Run]
      BY <3>1, <3>2, Zenon
    <3> QED
      BY <1>7, <3>2, <3>3
  <2> QED
    BY <1>2, <1>5, <2>1, <2>2, <2>3 DEF WsInv, ChatTypeOK
<1>12. LockOwner'
  BY <1>1, <1>5, <1>6 DEF WsInv, ChatTypeOK, LockOwner, Holding
<1>13. ClientKnown' /\ OutcomeIsLast'
  BY <1>1, <1>5, <1>6 DEF WsInv, ChatTypeOK, ClientKnown, OutcomeIsLast, ChatPC
<1>14. PendingIsOwnedOrAbandoned'
  <2> SUFFICES ASSUME NEW d \in Client, NEW u \in Run, Pending(d, u)'
               PROVE  \/ lock'[d] = u[1] /\ pc'[u[1]] = "collect" /\ attempt'[u[1]] = u[2]
                      \/ Abandoned(u)'
    BY DEF PendingIsOwnedOrAbandoned
  <2>1. CASE Abandoned(u)
    BY <2>1, <1>9
  <2>2. CASE lock[d] = u[1] /\ pc[u[1]] = "collect" /\ attempt[u[1]] = u[2] /\ u[1] # r
    BY <2>2, <1>1, <1>5, <1>6 DEF WsInv, ChatTypeOK, LockOwner, Holding, Run
  <2>3. CASE lock[d] = u[1] /\ pc[u[1]] = "collect" /\ attempt[u[1]] = u[2] /\ u[1] = r
    <3>1. d = c /\ u = own
      BY <2>3, <1>1 DEF WsInv, LockOwner, Holding, Run, own, c
    <3>2. CASE UNCHANGED <<pc, lock, outcome>>
      BY <2>3, <3>2, <1>5
    <3>3. CASE outcome' = [outcome EXCEPT ![r] = "ws-gateway-error"]
      BY <2>3, <3>3, <1>5 DEF Abandoned, Kept, WsInv, ChatTypeOK
    <3>4. CASE x = own /\ f.kind \in EndKind
      BY <3>1, <3>4, <1>8
    <3> QED
      BY <3>2, <3>3, <3>4, <1>6
  <2> QED
    BY <2>1, <2>2, <2>3, <1>2 DEF WsInv, PendingIsOwnedOrAbandoned
<1>15. ForeignTextIsAbandoned'
  <2> SUFFICES ASSUME NEW q \in Request, NEW u \in shown'[q]
               PROVE  u[1] = q \/ Abandoned(u)'
    BY DEF ForeignTextIsAbandoned
  <2>1. u \in shown[q] \/ (q = r /\ u = x)
    BY <1>7 DEF WsInv, ChatTypeOK
  <2>2. ASSUME u \in shown[q] PROVE u[1] = q \/ Abandoned(u)'
    BY <2>2, <1>9 DEF WsInv, ChatTypeOK, ForeignTextIsAbandoned
  <2> QED
    BY <1>4, <1>10, <2>1, <2>2
<1>16. PartsKnown'
  <2> SUFFICES ASSUME NEW q \in Request
               PROVE  /\ outcome'[q] = "ok" => parts'[q] # {}
                      /\ pc'[q] = "collect" \/ outcome'[q] = "ok" =>
                           \A u \in parts'[q] : u = <<q, attempt'[q]>>
                                                 \/ (u[1] # q /\ Abandoned(u)')
    BY DEF PartsKnown
  <2>1. CASE q # r
    BY <2>1, <1>5, <1>6, <1>7, <1>9 DEF WsInv, ChatTypeOK, PartsKnown
  <2>2. CASE q = r
    <3>1. \A u \in parts[r] : u = own \/ (u[1] # r /\ Abandoned(u)')
      BY <1>1, <1>9 DEF WsInv, ChatTypeOK, PartsKnown, own
    <3>2. \A u \in parts'[r] : u = own \/ (u[1] # r /\ Abandoned(u)')
      BY <3>1, <1>7, <1>10 DEF WsInv, ChatTypeOK
    <3>3. outcome'[r] = "ok" => parts'[r] # {}
      BY <1>1, <1>6 DEF WsInv, ChatTypeOK
    <3> QED
      BY <2>2, <3>2, <3>3, <1>5 DEF own
  <2> QED
    BY <2>1, <2>2
<1> QED
  BY <1>2, <1>11, <1>12, <1>13, <1>14, <1>15, <1>16 DEF WsInv

(* Reading a frame preserves the invariant. *)
LEMMA ReadFrameInv ==
  ASSUME WsInv, NEW r \in Request, ReadFrame(r)
  PROVE  WsInv'
  BY ReadNoteInv, ReadTextInv

-----------------------------------------------------------------------------
(* The gateway, the network and the owner of the client.  None of them moves *)
(* a request, so what is abandoned and what was shown stays.                 *)

(* An appended frame belongs to no run, or to one that was pending already,  *)
(* and an end frame is appended after the run left the feed.                 *)
LEMMA GatewayFrameInv ==
  ASSUME WsInv, NEW c \in Client, NEW e \in Frame,
         e.kind = "note" \/ e.run \in feed[c],
         UNCHANGED <<pc, attempt, client, conn, lock, parts, shown, outcome, breaks>>,
         deltas' \in [Run -> Nat],
         inbox' = [inbox EXCEPT ![c] = Append(@, e)],
         feed' = IF e.kind \in EndKind THEN [feed EXCEPT ![c] = @ \ {e.run}] ELSE feed
  PROVE  WsInv'
<1> DEFINE n == Len(inbox[c]) + 1
<1>1. inbox[c] \in Seq(Frame) /\ feed[c] \subseteq Run
  BY DEF WsInv, ChatTypeOK
<1>2. (e.kind = "note" <=> e.run \notin Run) /\ (e.kind \in EndKind => e.run \in feed[c])
  BY FrameOfRun, DeltaIsNoEnd
<1>3. /\ Append(inbox[c], e) \in Seq(Frame)
      /\ \A i \in DOMAIN inbox[c] : i \in Nat /\ i \in DOMAIN Append(inbox[c], e)
                                   /\ i < n /\ Append(inbox[c], e)[i] = inbox[c][i]
      /\ n \in DOMAIN Append(inbox[c], e) /\ Append(inbox[c], e)[n] = e
      /\ \A i \in DOMAIN Append(inbox[c], e) : i \in DOMAIN inbox[c] \/ i = n
  BY <1>1, <1>2, AppendKeeps
<1>4. /\ inbox' \in [Client -> Seq(Frame)]
      /\ inbox'[c] = Append(inbox[c], e)
      /\ \A d \in Client \ {c} : inbox'[d] = inbox[d]
  BY <1>3 DEF WsInv, ChatTypeOK
<1>5. feed' \in [Client -> SUBSET Run] /\ \A d \in Client : feed'[d] \subseteq feed[d]
  BY DEF WsInv, ChatTypeOK
<1>6. n \in Nat
  BY <1>1, LenProperties
<1> HIDE DEF n
<1>7. pc' = [q \in Request |-> pc'[q]] /\ ChatTypeOK'
  BY <1>4, <1>5 DEF WsInv, ChatTypeOK
<1>8. LockOwner' /\ ClientKnown' /\ OutcomeIsLast'
  BY DEF WsInv, LockOwner, ClientKnown, OutcomeIsLast
<1>9. EndIsLast'
  <2> SUFFICES ASSUME NEW d \in Client, NEW i \in DOMAIN inbox'[d],
                      inbox'[d][i].kind \in EndKind
               PROVE  /\ inbox'[d][i].run \notin feed'[d]
                      /\ \A j \in DOMAIN inbox'[d] : j > i =>
                            inbox'[d][j].run # inbox'[d][i].run
    BY DEF EndIsLast
  <2>1. CASE d # c
    BY <2>1, <1>4, <1>5 DEF WsInv, EndIsLast
  <2>2. CASE d = c /\ i \in DOMAIN inbox[c]
    <3>1. /\ inbox[c][i].run \notin feed[c]
          /\ \A j \in DOMAIN inbox[c] : j > i => inbox[c][j].run # inbox[c][i].run
      BY <2>2, <1>3, <1>4 DEF WsInv, EndIsLast
    <3>2. inbox[c][i].run # e.run
      <4>1. inbox[c][i] \in Frame /\ inbox[c][i].run \in Run
        BY <1>1, <1>3, <1>4, <2>2, FrameOfRun, DeltaIsNoEnd
      <4> QED
        BY <1>2, <3>1, <4>1
    <3> QED
      BY <2>2, <3>1, <3>2, <1>2, <1>3, <1>4, <1>5
  <2>3. CASE d = c /\ i = n
    <3>1. e.kind \in EndKind /\ inbox'[d][i].run = e.run
      BY <2>3, <1>3, <1>4
    <3>2. e.run \notin feed'[c]
      BY <3>1 DEF WsInv, ChatTypeOK
    <3>3. \A j \in DOMAIN inbox'[d] : ~(j > i)
      BY <2>3, <1>3, <1>4, <1>6
    <3> QED
      BY <2>3, <3>1, <3>2, <3>3
  <2> QED
    BY <2>1, <2>2, <2>3, <1>3, <1>4
<1>10. \A d \in Client : \A v \in Run : Pending(d, v)' => Pending(d, v)
  BY <1>2, <1>3, <1>4, <1>5 DEF Pending
<1>11. \A v \in Run : Abandoned(v)' <=> Abandoned(v)
  BY DEF Abandoned
<1>12. PendingIsOwnedOrAbandoned'
  BY <1>10, <1>11 DEF WsInv, PendingIsOwnedOrAbandoned
<1>13. ForeignTextIsAbandoned' /\ PartsKnown'
  BY <1>11 DEF WsInv, ForeignTextIsAbandoned, PartsKnown, Abandoned
<1> QED
  BY <1>7, <1>8, <1>9, <1>12, <1>13 DEF WsInv

(* A socket that breaks, or that its owner closes, only loses frames. *)
LEMMA SocketLostInv ==
  ASSUME WsInv, NEW c \in Client, NEW state \in {"none", "up", "dead"},
         UNCHANGED <<pc, attempt, client, lock, deltas, parts, shown, outcome>>,
         breaks' \in Nat,
         conn' = [conn EXCEPT ![c] = state],
         feed' = [feed EXCEPT ![c] = {}],
         inbox' = inbox \/ inbox' = [inbox EXCEPT ![c] = <<>>]
  PROVE  WsInv'
<1>1. pc' = [q \in Request |-> pc'[q]] /\ ChatTypeOK'
  <2>1. <<>> \in Seq(Frame)
    OBVIOUS
  <2> QED
    BY <2>1 DEF WsInv, ChatTypeOK
<1>2. LockOwner' /\ ClientKnown' /\ OutcomeIsLast'
  BY DEF WsInv, LockOwner, ClientKnown, OutcomeIsLast
<1>3. EndIsLast'
  BY DEF WsInv, ChatTypeOK, EndIsLast
<1>4. \A d \in Client : \A v \in Run : Pending(d, v)' => Pending(d, v)
  <2>1. \A d \in Client : feed'[d] \subseteq feed[d] /\ inbox'[d] \in {inbox[d], <<>>}
    BY DEF WsInv, ChatTypeOK
  <2>2. DOMAIN <<>> = {}
    OBVIOUS
  <2> QED
    BY <2>1, <2>2 DEF Pending
<1>5. \A v \in Run : Abandoned(v)' <=> Abandoned(v)
  BY DEF Abandoned
<1>6. PendingIsOwnedOrAbandoned'
  BY <1>4, <1>5 DEF WsInv, PendingIsOwnedOrAbandoned
<1>7. ForeignTextIsAbandoned' /\ PartsKnown'
  BY <1>5 DEF WsInv, ForeignTextIsAbandoned, PartsKnown, Abandoned
<1> QED
  BY <1>1, <1>2, <1>3, <1>6, <1>7 DEF WsInv

(* A call starts with a client and no outcome. *)
LEMMA CallInv ==
  ASSUME WsInv, NEW r \in Request, Call(r)
  PROVE  WsInv'
<1>1. outcome[r] = "none" /\ pc[r] = "idle" /\ \A c \in Client : lock[c] # r
  BY DEF WsInv, OutcomeIsLast, LockOwner, Holding, Call
<1>2. pc' = [q \in Request |-> pc'[q]] /\ ChatTypeOK'
  BY DEF WsInv, ChatTypeOK, Call, Goto
<1>3. LockOwner'
  BY <1>1 DEF WsInv, ChatTypeOK, LockOwner, Holding, Call, Goto
<1>4. ClientKnown' /\ OutcomeIsLast'
  BY <1>1 DEF WsInv, ChatTypeOK, ClientKnown, OutcomeIsLast, ChatPC, Call, Goto
<1>5. EndIsLast' /\ PendingIsOwnedOrAbandoned'
  BY <1>1 DEF WsInv, ChatTypeOK, EndIsLast, PendingIsOwnedOrAbandoned, Pending, Abandoned,
              Call, Goto
<1>6. ForeignTextIsAbandoned' /\ PartsKnown'
  BY <1>1 DEF WsInv, ChatTypeOK, ForeignTextIsAbandoned, PartsKnown, Abandoned, Call, Goto
<1> QED
  BY <1>2, <1>3, <1>4, <1>5, <1>6 DEF WsInv

(* What surrounds the calls preserves the invariant. *)
LEMMA OutsideInv == WsInv /\ Outside => WsInv'
<1> SUFFICES ASSUME WsInv, Outside PROVE WsInv'
  OBVIOUS
<1> PICK c \in Client : \/ \E u \in Run : \/ GatewayDelta(c, u)
                                         \/ \E k \in EndKind : GatewayEnd(c, u, k)
                       \/ GatewayNote(c)
                       \/ Break(c)
  BY DEF Outside
<1>1. ASSUME NEW u \in Run, GatewayDelta(c, u) PROVE WsInv'
  <2> DEFINE e == [kind |-> "delta", run |-> u]
  <2>1. /\ e \in Frame /\ e.run \in feed[c] /\ e.kind \notin EndKind
        /\ deltas' \in [Run -> Nat]
        /\ inbox' = [inbox EXCEPT ![c] = Append(@, e)]
    BY <1>1, DeltaIsNoEnd DEF GatewayDelta, WsInv, ChatTypeOK, Frame
  <2> HIDE DEF e
  <2> QED
    BY <1>1, <2>1, GatewayFrameInv DEF GatewayDelta
<1>2. ASSUME NEW u \in Run, NEW k \in EndKind, GatewayEnd(c, u, k) PROVE WsInv'
  <2> DEFINE e == [kind |-> k, run |-> u]
  <2>1. /\ e \in Frame /\ e.run \in feed[c] /\ e.kind \in EndKind
        /\ deltas' \in [Run -> Nat]
        /\ inbox' = [inbox EXCEPT ![c] = Append(@, e)]
        /\ feed' = [feed EXCEPT ![c] = @ \ {e.run}]
    BY <1>2 DEF GatewayEnd, WsInv, ChatTypeOK, Frame
  <2> HIDE DEF e
  <2> QED
    BY <1>2, <2>1, GatewayFrameInv DEF GatewayEnd
<1>4. ASSUME GatewayNote(c) PROVE WsInv'
  <2> DEFINE e == [kind |-> "note", run |-> NoRun]
  <2>1. /\ e \in Frame /\ e.kind = "note" /\ e.kind \notin EndKind
        /\ deltas' \in [Run -> Nat]
        /\ inbox' = [inbox EXCEPT ![c] = Append(@, e)]
    BY <1>4, DeltaIsNoEnd DEF GatewayNote, WsInv, ChatTypeOK, Frame
  <2> HIDE DEF e
  <2> QED
    BY <1>4, <2>1, GatewayFrameInv DEF GatewayNote
<1>3. ASSUME Break(c) PROVE WsInv'
  <2>1. breaks' \in Nat
    BY <1>3 DEF Break, WsInv, ChatTypeOK
  <2> QED
    BY <1>3, <2>1, SocketLostInv DEF Break
<1> QED
  BY <1>1, <1>2, <1>3, <1>4

(* A step of chat_streaming preserves it. *)
LEMMA ChatStepInv ==
  ASSUME WsInv, NEW r \in Request, ChatStep(r) \/ Drop(r)
  PROVE  WsInv'
<1>1. CASE Ensure(r)                             BY <1>1, EnsureInv
<1>2. CASE Connect(r)                            BY <1>2, ConnectInv
<1>3. CASE DialDone(r)                           BY <1>3, DialDoneInv
<1>4. CASE DialFails(r, "ws-connect-error")      BY <1>4, DialFailsInv
<1>5. CASE DialFails(r, "ws-closed")             BY <1>5, DialFailsInv
<1>6. CASE SendReq(r)                            BY <1>6, SendReqInv
<1>7. CASE SendFails(r)                          BY <1>7, SendFailsInv
<1>8. CASE NotConnected(r)                       BY <1>8, NotConnectedInv
<1>9. CASE ReadFrame(r)                          BY <1>9, ReadFrameInv
<1>10. CASE RecvLost(r)                          BY <1>10, RecvLostInv
<1>11. CASE IdleTimeout(r)                       BY <1>11, IdleTimeoutInv
<1>12. CASE RetryReset(r)                        BY <1>12, RetryResetInv
<1>13. CASE Drop(r)                              BY <1>13, DropInv
<1>14. CASE StartSend(r)                         BY <1>14, StartSendInv
<1> QED
  BY <1>1, <1>2, <1>3, <1>4, <1>5, <1>6, <1>7, <1>8, <1>9, <1>10, <1>11, <1>12, <1>13,
     <1>14
  DEF ChatStep, OwnStep, SocketStep

(* Closing or pinging a client that nobody reads preserves it. *)
LEMMA PingInv ==
  ASSUME WsInv, NEW c \in Client, NEW alive \in BOOLEAN, Ping(c, alive),
         UNCHANGED <<pc, attempt, client, lock, deltas, parts, shown, outcome, breaks>>
  PROVE  WsInv'
<1>1. breaks' \in Nat
  BY DEF WsInv, ChatTypeOK
<1>2. CASE SetConn(c, "none")
  BY <1>1, <1>2, SocketLostInv DEF SetConn
<1>3. CASE KeepConn
  BY <1>3 DEF KeepConn, WsInv, ChatTypeOK, LockOwner, ClientKnown, OutcomeIsLast, EndIsLast,
              PendingIsOwnedOrAbandoned, Pending, Abandoned, ForeignTextIsAbandoned, PartsKnown
<1> QED
  BY <1>2, <1>3 DEF Ping

(* Closing the connection on purpose preserves it. *)
LEMMA DisconnectInv ==
  ASSUME WsInv, NEW c \in Client, Disconnect(c)
  PROVE  WsInv'
<1>1. breaks' \in Nat
  BY DEF WsInv, ChatTypeOK, Disconnect
<1> QED
  BY <1>1, SocketLostInv DEF Disconnect, SetConn

(* The invariant is inductive. *)
LEMMA WsStep == WsInv /\ [Next]_wsVars => WsInv'
<1> SUFFICES ASSUME WsInv, [Next]_wsVars PROVE WsInv'
  OBVIOUS
<1>1. ASSUME NEW r \in Request, Call(r) \/ ChatStep(r) \/ Drop(r) PROVE WsInv'
  BY <1>1, CallInv, ChatStepInv
<1>2. ASSUME NEW c \in Client, Disconnect(c) PROVE WsInv'
  BY <1>2, DisconnectInv
<1>3. ASSUME NEW c \in Client, IsConnected(c) PROVE WsInv'
  BY <1>3, PingInv DEF IsConnected
<1>4. CASE Outside
  BY <1>4, OutsideInv
<1>5. CASE UNCHANGED wsVars
  BY <1>5 DEF wsVars, WsInv, ChatTypeOK, LockOwner, ClientKnown, OutcomeIsLast, EndIsLast,
              PendingIsOwnedOrAbandoned, Pending, Abandoned, ForeignTextIsAbandoned, PartsKnown
<1> QED
  BY <1>1, <1>2, <1>3, <1>4, <1>5 DEF Next, AllReturned

-----------------------------------------------------------------------------
(* The invariant implies what the runs check of answers. *)
LEMMA WsInvAnswers == WsInv => AnswerIsOwn /\ OneAttempt
<1> SUFFICES ASSUME WsInv PROVE AnswerIsOwn /\ OneAttempt
  OBVIOUS
<1>1. AnswerIsOwn
  BY DEF WsInv, PartsKnown, AnswerIsOwn
<1>2. OneAttempt
  BY DEF WsInv, PartsKnown, OneAttempt
<1> QED
  BY <1>1, <1>2

(* The invariant holds in every reachable state. *)
THEOREM WsInvariant == Spec => []WsInv
<1>1. Init => WsInv
  BY WsInit
<1>2. WsInv /\ [Next]_wsVars => WsInv'
  BY WsStep
<1> QED
  BY <1>1, <1>2, PTL DEF Spec

(* The mutex of a connection has the one owner that dials on it or reads     *)
(* from it (connect, chat_streaming_inner).                                  *)
THEOREM ConnectionHasOneOwner == Spec => []LockOwner
<1>1. WsInv => LockOwner
  BY DEF WsInv
<1> QED
  BY <1>1, WsInvariant, PTL

(* A request that was answered, or that is being retried, leaves nothing on  *)
(* a connection for the next one to read.                                    *)
THEOREM PendingOwned == Spec => []PendingIsOwnedOrAbandoned
<1>1. WsInv => PendingIsOwnedOrAbandoned
  BY DEF WsInv
<1> QED
  BY <1>1, WsInvariant, PTL

(* The text of another request reaches a caller only if that request was     *)
(* abandoned: timed out, ended by a gateway error, or dropped.               *)
THEOREM ForeignText == Spec => []ForeignTextIsAbandoned
<1>1. WsInv => ForeignTextIsAbandoned
  BY DEF WsInv
<1> QED
  BY <1>1, WsInvariant, PTL

(* A successful answer is of the last attempt, and holds its own text unless *)
(* an abandoned request's text displaced it.                                 *)
THEOREM Answers == Spec => [](AnswerIsOwn /\ OneAttempt)
  BY WsInvAnswers, WsInvariant, PTL
=============================================================================
