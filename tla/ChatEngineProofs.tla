-------------------------- MODULE ChatEngineProofs --------------------------
(***************************************************************************)
(* Theorems about ChatEngine for any number of turns, chunks and loads.    *)
(*                                                                         *)
(* None of the properties is inductive.  What they need is who owns the    *)
(* refs that all turns share (Owned): as long as no reply was torn, a turn *)
(* in flight is the one in abortControllerRef, isSendingRef is set for it, *)
(* and cancelRef says of it and of no other that it was aborted.           *)
(***************************************************************************)
EXTENDS ChatEngine, TLAPS, SequenceTheorems, FiniteSetTheorems

Event == {"chunk", "done", "error"}
Busy == InFlight \cup {"saving"}

(* A turn whose listeners are not registered yet. *)
Unheard(t) == /\ heard[t] = 0 /\ ~skipped[t] /\ ~armed[t] /\ stored[t] = 0
              /\ backend[t] = "none" /\ mail[t] = <<>>

(* What the place of a turn says of its listeners and its rows. *)
Phases == \A t \in Turn :
  /\ pc[t] \in {"new", "create", "listen"} => Unheard(t)
  /\ pc[t] = "new" => ~aborted[t] /\ t # controller
  /\ listening[t] <=> pc[t] = "streaming"
  /\ pc[t] \in {"streaming", "saving"} \cup Torn => armed[t]
  /\ pc[t] = "saving" => stored[t] = 0
  /\ pc[t] = "tornSaving" => stored[t] <= 1
  /\ pc[t] \in Torn => aborted[t]
  /\ listening[t] => stored[t] = 0
  /\ ~aborted[t] => stored[t] <= 1

(* Only the last event of a turn is not a chunk, and the chunks are counted.  *)
Post == \A t \in Turn :
  /\ backend[t] \in {"none", "called"} => mail[t] = <<>> /\ heard[t] = 0
  /\ \A i \in 1..Len(mail[t]) : mail[t][i] # "chunk" => i = Len(mail[t]) /\ backend[t] = "over"
  /\ heard[t] + Len(mail[t]) <=
       IF mail[t] # <<>> /\ mail[t][Len(mail[t])] # "chunk" THEN MaxChunk + 1 ELSE MaxChunk

(* Whose the refs are. *)
Owned == \A t \in Turn :
  /\ pc[t] \in Busy => t = controller /\ isSending /\ (cancel <=> aborted[t])
  /\ pc[t] \in InFlight /\ aborted[t] => heard[t] = 0
  /\ pc[t] = "saving" => ~aborted[t]
  /\ skipped[t] /\ listening[t] => cancel

IInv == /\ TypeOK /\ Phases /\ Post
        /\ Orderly => Owned
        /\ LostOnlyIfRefused /\ StreamingIsLive

-----------------------------------------------------------------------------
(* Delivering the first event of a turn shifts the others by one place. *)
LEMMA MailTail ==
  ASSUME NEW m \in Seq(Event), m # <<>>
  PROVE  /\ Head(m) \in Event /\ Head(m) = m[1] /\ Len(m) \in Nat \ {0}
         /\ Tail(m) \in Seq(Event) /\ Len(Tail(m)) = Len(m) - 1
         /\ \A i \in 1..Len(Tail(m)) : Tail(m)[i] = m[i + 1]
BY EmptySeq, LenProperties, HeadTailProperties

(* Emitting an event leaves those before it where they are. *)
LEMMA MailAppend ==
  ASSUME NEW m \in Seq(Event), NEW e \in Event
  PROVE  /\ Append(m, e) \in Seq(Event) /\ Len(m) \in Nat
         /\ Len(Append(m, e)) = Len(m) + 1 /\ Append(m, e) # <<>>
         /\ Append(m, e)[Len(m) + 1] = e
         /\ \A i \in 1..Len(m) : Append(m, e)[i] = m[i]
BY AppendProperties, LenProperties

(* A torn turn stays torn. *)
LEMMA OrderlyBefore ==
  ASSUME NEW t \in Turn, pc \in [Turn -> {"new", "saving", "over"} \cup InFlight \cup Torn],
         NEW there, Goto(t, there), pc[t] \in Torn => there = "torn", Orderly'
  PROVE  Orderly
BY DEF Goto, Orderly, Torn, InFlight

-----------------------------------------------------------------------------
LEMMA EngineInit == Init => IInv
<1> SUFFICES ASSUME Init PROVE IInv
  OBVIOUS
<1> USE TurnBound, NullAssumption DEF Init
<1>1. TypeOK
  <2>1. loads \subseteq Session \X {"mount", "page"} /\ session \in Session \cup {NoSession}
    BY DEF Session
  <2>2. mail \in [Turn -> Seq({"chunk", "done", "error"})]
    BY EmptySeq
  <2>3. /\ pc \in [Turn -> {"new", "saving", "over"} \cup InFlight \cup Torn]
        /\ heard \in [Turn -> 0..MaxChunk] /\ stored \in [Turn -> 0..2]
        /\ loadsLeft \in 0..MaxLoad
    OBVIOUS
  <2> QED
    BY <2>1, <2>2, <2>3 DEF TypeOK
<1>2. Phases /\ LostOnlyIfRefused /\ StreamingIsLive
  BY DEF Phases, Unheard, Torn, LostOnlyIfRefused, StreamingIsLive, Turn
<1>3. Post
  BY DEF Post
<1>4. Owned
  BY DEF Owned, Busy, InFlight
<1> QED
  BY <1>1, <1>2, <1>3, <1>4 DEF IInv

(* A turn is let in: no other is busy, so the refs become its own. *)
LEMMA SendKeeps == ASSUME IInv, NEW t \in Turn, Send(t) PROVE IInv'
<1> USE NullAssumption
<1>1. /\ pc[t] = "new" /\ mounted /\ ~isSending
      /\ isSending' = TRUE /\ cancel' = FALSE /\ controller' = t
      /\ UNCHANGED <<heard, skipped, listening, armed, aborted, stored, refused, mounted, loads, loadsLeft,
                     session, backend, stops, mail>>
  BY DEF Send, MaySend, backVars
<1>2. /\ home' \in [Turn -> Session \cup {NoSession}]
      /\ \A u \in Turn \ {t} : home'[u] = home[u]
      /\ activeReq' \in Turn \cup {NoTurn} /\ isStreaming' \in BOOLEAN
      /\ \/ Goto(t, "create") /\ isStreaming' = isStreaming
         \/ Goto(t, "listen")
  BY DEF Send, AddPair, IInv, TypeOK
<1>3. /\ pc' \in [Turn -> {"new", "saving", "over"} \cup InFlight \cup Torn]
      /\ pc'[t] \in {"create", "listen"} /\ \A u \in Turn \ {t} : pc'[u] = pc[u]
  BY <1>2 DEF IInv, TypeOK, Goto, InFlight
<1>4. Orderly' => Orderly
  BY <1>1, <1>3 DEF Orderly, Torn
<1>5. TypeOK'
  BY <1>1, <1>2, <1>3 DEF IInv, TypeOK
<1>6. Phases' /\ Post'
  BY <1>1, <1>3 DEF IInv, Phases, Post, Unheard, Torn
<1>7. Orderly' => Owned'
  BY <1>1, <1>3, <1>4 DEF IInv, Owned, Busy, InFlight, Phases, Unheard
<1>8. LostOnlyIfRefused' /\ StreamingIsLive'
  BY <1>1, <1>2, <1>3, <1>4 DEF IInv, LostOnlyIfRefused, StreamingIsLive, InFlight, Goto, TypeOK
<1> QED
  BY <1>5, <1>6, <1>7, <1>8 DEF IInv

(* The turn has its session, or goes on without one; a page that was left    *)
(* lets it go.                                                               *)
LEMMA CreatedKeeps == ASSUME IInv, NEW t \in Turn, Created(t) PROVE IInv'
<1> USE NullAssumption
<1>1. /\ pc[t] = "create"
      /\ UNCHANGED <<heard, skipped, listening, armed, aborted, stored, refused, cancel, controller,
                     mounted, loads, loadsLeft, backend, stops, mail>>
      /\ \/ Goto(t, "listen") /\ mounted /\ isStreaming' = TRUE /\ activeReq' = t
            /\ isSending' = isSending
         \/ Goto(t, "over") /\ ~mounted /\ isSending' = FALSE
            /\ UNCHANGED <<isStreaming, activeReq>>
  BY DEF Created, AddPair, backVars
<1>2. /\ home' \in [Turn -> Session \cup {NoSession}] /\ session' \in Session \cup {NoSession}
      /\ \A u \in Turn \ {t} : home'[u] = home[u]
  <2>1. t \in Session
    BY TurnBound DEF Session, Turn
  <2> QED
    BY <2>1 DEF Created, IInv, TypeOK
<1>3. /\ pc' \in [Turn -> {"new", "saving", "over"} \cup InFlight \cup Torn]
      /\ pc'[t] \in {"listen", "over"} /\ \A u \in Turn \ {t} : pc'[u] = pc[u]
  BY <1>1 DEF IInv, TypeOK, Goto, InFlight
<1>4. Orderly' => Orderly
  BY <1>1, <1>3 DEF Orderly, Torn
<1>5. TypeOK'
  BY <1>1, <1>2, <1>3 DEF IInv, TypeOK
<1>6. Phases' /\ Post'
  BY <1>1, <1>3 DEF IInv, Phases, Post, Unheard, Torn
<1>7. Orderly' => Owned'
  <2>1. Orderly => Owned /\ t = controller
    BY <1>1 DEF IInv, Owned, Busy, InFlight
  <2>2. \A u \in Turn \ {t} : Orderly => pc[u] \notin Busy
    BY <2>1 DEF Owned
  <2> QED
    BY <1>1, <1>3, <1>4, <2>1, <2>2 DEF IInv, TypeOK, Goto, Owned, Busy, InFlight
<1>8. LostOnlyIfRefused'
  BY <1>1, <1>2, <1>3, <1>4 DEF IInv, LostOnlyIfRefused, Phases, Unheard
<1>9. StreamingIsLive'
  BY <1>1, <1>3 DEF StreamingIsLive, InFlight, Goto, IInv, TypeOK
<1> QED
  BY <1>5, <1>6, <1>7, <1>8, <1>9 DEF IInv

(* The listeners are there: whatever was aborted before has heard nothing.   *)
LEMMA ListenedKeeps == ASSUME IInv, NEW t \in Turn, Listened(t) PROVE IInv'
<1>1. /\ pc[t] = "listen" /\ Goto(t, "streaming")
      /\ listening' = [listening EXCEPT ![t] = TRUE] /\ armed' = [armed EXCEPT ![t] = TRUE]
      /\ backend' = [backend EXCEPT ![t] = "called"]
      /\ UNCHANGED <<home, heard, skipped, aborted, stored, refused, isSending, cancel, controller,
                     activeReq, session, isStreaming, mounted, loads, loadsLeft, stops, mail>>
  BY DEF Listened, refVars, pageVars
<1>2. /\ pc' \in [Turn -> {"new", "saving", "over"} \cup InFlight \cup Torn]
      /\ pc'[t] = "streaming" /\ \A u \in Turn \ {t} : pc'[u] = pc[u]
      /\ Unheard(t)
  BY <1>1 DEF IInv, TypeOK, Goto, InFlight, Phases
<1>3. Orderly' => Orderly
  BY <1>1, <1>2 DEF Orderly, Torn
<1>4. TypeOK'
  BY <1>1, <1>2 DEF IInv, TypeOK
<1>5. Phases'
  BY <1>1, <1>2 DEF IInv, TypeOK, Phases, Unheard, Torn
<1>6. Post'
  BY <1>1, <1>2 DEF IInv, TypeOK, Post, Unheard
<1>7. Orderly' => Owned'
  BY <1>1, <1>2, <1>3 DEF IInv, TypeOK, Owned, Busy, InFlight, Unheard
<1>8. LostOnlyIfRefused' /\ StreamingIsLive'
  BY <1>1, <1>2, <1>3 DEF IInv, LostOnlyIfRefused, StreamingIsLive, InFlight
<1> QED
  BY <1>4, <1>5, <1>6, <1>7, <1>8 DEF IInv

LEMMA ListenFailsKeeps == ASSUME IInv, NEW t \in Turn, ListenFails(t) PROVE IInv'
<1>1. /\ pc[t] = "listen" /\ Goto(t, "over") /\ Show(FALSE) /\ isSending' = FALSE
      /\ UNCHANGED <<home, heard, skipped, listening, armed, aborted, stored, refused, cancel,
                     controller, activeReq, session, mounted, loads, loadsLeft,
                     backend, stops, mail>>
  BY DEF ListenFails, backVars
<1>2. /\ pc' \in [Turn -> {"new", "saving", "over"} \cup InFlight \cup Torn]
      /\ pc'[t] = "over" /\ \A u \in Turn \ {t} : pc'[u] = pc[u]
      /\ Unheard(t) /\ isStreaming' \in BOOLEAN /\ (mounted => isStreaming' = FALSE)
  BY <1>1 DEF IInv, TypeOK, Goto, InFlight, Phases, Show
<1>3. Orderly' => Orderly
  BY <1>1, <1>2 DEF Orderly, Torn
<1>4. TypeOK'
  BY <1>1, <1>2 DEF IInv, TypeOK
<1>5. Phases' /\ Post'
  BY <1>1, <1>2 DEF IInv, Phases, Post, Unheard, Torn
<1>6. Orderly' => Owned'
  BY <1>1, <1>2, <1>3 DEF IInv, Owned, Busy, InFlight, Phases
<1>7. LostOnlyIfRefused' /\ StreamingIsLive'
  BY <1>1, <1>2, <1>3 DEF IInv, LostOnlyIfRefused, StreamingIsLive, Unheard
<1> QED
  BY <1>4, <1>5, <1>6, <1>7 DEF IInv

-----------------------------------------------------------------------------
(* Taking the first event out of a turn's mail leaves it in order. *)
LEMMA Delivered ==
  ASSUME IInv, NEW t \in Turn, mail[t] # <<>>, mail' = [mail EXCEPT ![t] = Tail(@)]
  PROVE  /\ mail' \in [Turn -> Seq(Event)]
         /\ \A u \in Turn \ {t} : mail'[u] = mail[u]
         /\ Head(mail[t]) \in Event
         /\ backend[t] \in {"running", "over"}
         /\ Head(mail[t]) = "chunk" => heard[t] + 1 + Len(mail'[t]) <=
              IF mail'[t] # <<>> /\ mail'[t][Len(mail'[t])] # "chunk" THEN MaxChunk + 1 ELSE MaxChunk
         /\ Head(mail[t]) = "chunk" => heard[t] < MaxChunk
         /\ Head(mail[t]) # "chunk" => mail'[t] = <<>> /\ heard[t] <= MaxChunk
         /\ \A i \in 1..Len(mail'[t]) :
              mail'[t][i] # "chunk" => i = Len(mail'[t]) /\ backend[t] = "over"
<1>1. mail \in [Turn -> Seq(Event)] /\ heard[t] \in 0..MaxChunk /\ MaxChunk \in Nat
      /\ backend[t] \in {"none", "called", "running", "over"}
  BY TurnBound DEF IInv, TypeOK, Event
<1> DEFINE m == mail[t]
           n == Len(m)
           tl == Tail(m)
<1>2. /\ Head(m) \in Event /\ Head(m) = m[1] /\ n \in Nat \ {0}
      /\ tl \in Seq(Event) /\ Len(tl) = n - 1
      /\ \A i \in 1..Len(tl) : tl[i] = m[i + 1]
  BY <1>1, MailTail
<1>3. /\ mail' \in [Turn -> Seq(Event)] /\ mail'[t] = tl
      /\ \A u \in Turn \ {t} : mail'[u] = mail[u]
  BY <1>1, <1>2
<1>4. /\ backend[t] \notin {"none", "called"}
      /\ \A i \in 1..n : m[i] # "chunk" => i = n /\ backend[t] = "over"
      /\ heard[t] + n <= IF m[n] # "chunk" THEN MaxChunk + 1 ELSE MaxChunk
  BY DEF IInv, Post
<1>5. \A i \in 1..Len(tl) : tl[i] # "chunk" => i = Len(tl) /\ backend[t] = "over"
  <2> SUFFICES ASSUME NEW i \in 1..Len(tl), tl[i] # "chunk"
               PROVE  i = Len(tl) /\ backend[t] = "over"
    OBVIOUS
  <2>1. i + 1 \in 1..n /\ m[i + 1] # "chunk"
    BY <1>2
  <2> QED
    BY <1>2, <1>4, <2>1
<1>6. tl # <<>> <=> n > 1
  BY <1>2, EmptySeq
<1>7. n > 1 => tl[Len(tl)] = m[n]
  BY <1>2
<1>8. ASSUME Head(m) = "chunk"
      PROVE  /\ heard[t] + 1 + Len(tl) <=
                  IF tl # <<>> /\ tl[Len(tl)] # "chunk" THEN MaxChunk + 1 ELSE MaxChunk
             /\ heard[t] < MaxChunk
  <2> HIDE DEF m, n, tl
  <2>1. CASE n = 1
    BY <1>1, <1>2, <1>4, <1>6, <1>8, <2>1
  <2>2. CASE n > 1
    BY <1>1, <1>2, <1>4, <1>6, <1>7, <2>2
  <2> QED
    BY <1>2, <2>1, <2>2
<1>9. ASSUME Head(m) # "chunk" PROVE tl = <<>> /\ heard[t] <= MaxChunk
  <2> HIDE DEF m, n, tl
  <2>1. n = 1
    BY <1>2, <1>4, <1>9
  <2> QED
    BY <1>1, <1>2, <1>4, <1>6, <2>1
<1> QED
  BY <1>1, <1>2, <1>3, <1>4, <1>5, <1>8, <1>9

(* A chunk is heard, ignored because of cancelRef, or comes too late. *)
LEMMA ChunkKeeps == ASSUME IInv, NEW t \in Turn, Chunk(t) PROVE IInv'
<1>1. /\ mail[t] # <<>> /\ Head(mail[t]) = "chunk" /\ mail' = [mail EXCEPT ![t] = Tail(@)]
      /\ UNCHANGED <<pc, home, listening, armed, aborted, stored, refused, isSending, cancel, controller,
                     activeReq, session, isStreaming, mounted, loads, loadsLeft, backend, stops>>
  BY DEF Chunk, refVars, pageVars
<1>2. /\ heard \in [Turn -> 0..MaxChunk] /\ skipped \in [Turn -> BOOLEAN] /\ MaxChunk \in Nat
      /\ heard[t] < MaxChunk
  BY <1>1, Delivered, TurnBound DEF IInv, TypeOK
<1>9. heard[t] + 1 \in 0..MaxChunk
  BY <1>2
<1>3. /\ heard' \in [Turn -> 0..MaxChunk] /\ skipped' \in [Turn -> BOOLEAN]
      /\ \A u \in Turn \ {t} : heard'[u] = heard[u] /\ skipped'[u] = skipped[u]
      /\ \/ heard'[t] = heard[t] + 1 /\ listening[t] /\ ~cancel /\ skipped'[t] = skipped[t]
         \/ heard'[t] = heard[t] /\ (skipped'[t] => skipped[t] \/ (listening[t] /\ cancel))
  BY <1>2, <1>9 DEF Chunk
<1>4. TypeOK'
  BY <1>1, <1>3, Delivered DEF IInv, TypeOK, Event
<1>5. Phases'
  <2>1. pc[t] \notin {"new", "create", "listen"}
    BY <1>1 DEF IInv, Phases, Unheard
  <2> QED
    BY <1>1, <1>3, <2>1, Delivered DEF IInv, Phases, Unheard
<1>6. Post'
  <2>1. ASSUME NEW u \in Turn \ {t} PROVE mail'[u] = mail[u] /\ heard'[u] = heard[u] /\ backend'[u] = backend[u]
    BY <1>1, <1>3, Delivered
  <2>2. Len(mail'[t]) \in Nat
    BY <1>1, Delivered, LenProperties
  <2>3. /\ heard'[t] + Len(mail'[t]) <=
             IF mail'[t] # <<>> /\ mail'[t][Len(mail'[t])] # "chunk" THEN MaxChunk + 1 ELSE MaxChunk
        /\ backend'[t] \notin {"none", "called"}
        /\ \A i \in 1..Len(mail'[t]) :
              mail'[t][i] # "chunk" => i = Len(mail'[t]) /\ backend'[t] = "over"
    <3>1. heard'[t] \in {heard[t], heard[t] + 1}
      BY <1>3
    <3>2. /\ heard[t] + 1 + Len(mail'[t]) <=
               IF mail'[t] # <<>> /\ mail'[t][Len(mail'[t])] # "chunk" THEN MaxChunk + 1 ELSE MaxChunk
          /\ backend[t] \in {"running", "over"}
          /\ \A i \in 1..Len(mail'[t]) :
                mail'[t][i] # "chunk" => i = Len(mail'[t]) /\ backend[t] = "over"
      BY <1>1, Delivered
    <3> DEFINE most == IF mail'[t] # <<>> /\ mail'[t][Len(mail'[t])] # "chunk"
                       THEN MaxChunk + 1 ELSE MaxChunk
               left == Len(mail'[t])
    <3>3. most \in Nat /\ left \in Nat /\ heard[t] + 1 + left <= most
      BY <1>2, <2>2, <3>2
    <3>4. heard'[t] + left <= most
      <4> HIDE DEF most, left
      <4> QED
        BY <1>2, <3>1, <3>3
    <3> QED
      BY <1>1, <3>2, <3>4
  <2> QED
    BY <2>1, <2>3 DEF IInv, Post
<1>7. Orderly' => Owned'
  BY <1>1, <1>3 DEF IInv, Orderly, Owned, Busy, Phases, InFlight
<1>8. LostOnlyIfRefused' /\ StreamingIsLive'
  BY <1>1, <1>3 DEF IInv, Orderly, LostOnlyIfRefused, StreamingIsLive, Phases
<1> QED
  BY <1>4, <1>5, <1>6, <1>7, <1>8 DEF IInv

(* A reply that is handed to the history is there or was refused. *)
LEMMA Settled ==
  ASSUME IInv, NEW t \in Turn, stored[t] <= 1, AddMessage(t)
  PROVE  /\ stored' \in [Turn -> 0..2] /\ refused' \in [Turn -> BOOLEAN]
         /\ stored'[t] <= stored[t] + 1 /\ (stored'[t] > 0 \/ refused'[t])
         /\ \A u \in Turn \ {t} : stored'[u] = stored[u] /\ refused'[u] = refused[u]
<1>1. stored \in [Turn -> 0..2] /\ refused \in [Turn -> BOOLEAN] /\ stored[t] \in 0..1
  BY DEF IInv, TypeOK
<1>2. CASE stored' = [stored EXCEPT ![t] = @ + 1] /\ UNCHANGED refused
  BY <1>1, <1>2
<1>3. CASE refused' = [refused EXCEPT ![t] = TRUE] /\ UNCHANGED stored
  BY <1>1, <1>3
<1> QED
  BY <1>2, <1>3 DEF AddMessage

(* chat-done hands the reply over or ends the turn, or comes too late. *)
LEMMA DoneKeeps == ASSUME IInv, NEW t \in Turn, Done(t) PROVE IInv'
<1>1. /\ mail[t] # <<>> /\ Head(mail[t]) # "chunk" /\ mail' = [mail EXCEPT ![t] = Tail(@)]
      /\ UNCHANGED <<home, heard, skipped, armed, aborted, stored, refused, cancel, controller,
                     activeReq, session, mounted, loads, loadsLeft, backend, stops>>
  BY DEF Done
<1>2. /\ mail' \in [Turn -> Seq(Event)] /\ mail'[t] = <<>>
      /\ \A u \in Turn \ {t} : mail'[u] = mail[u]
      /\ heard[t] \in 0..MaxChunk /\ MaxChunk \in Nat
      /\ backend[t] \in {"running", "over"}
  BY <1>1, Delivered, TurnBound DEF IInv, TypeOK
<1>3. pc[t] \notin {"new", "create", "listen"}
  BY <1>1 DEF IInv, Phases, Unheard
<1>4. Post'
  <2>1. Len(mail'[t]) = 0
    BY <1>2, EmptySeq
  <2> QED
    BY <1>1, <1>2, <2>1 DEF IInv, Post
<1>5. CASE ~listening[t] /\ UNCHANGED <<pc, listening, isSending, isStreaming>>
  <2>1. TypeOK' /\ Phases'
    BY <1>1, <1>2, <1>3, <1>5 DEF IInv, TypeOK, Phases, Unheard, Event
  <2>2. (Orderly' => Owned') /\ LostOnlyIfRefused' /\ StreamingIsLive'
    BY <1>1, <1>5 DEF IInv, Orderly, Owned, LostOnlyIfRefused, StreamingIsLive
  <2> QED
    BY <1>4, <2>1, <2>2 DEF IInv
<1>6. ASSUME listening[t]
      PROVE  /\ pc[t] = "streaming" /\ stored[t] = 0 /\ armed[t]
             /\ Orderly => /\ t = controller /\ (cancel <=> aborted[t])
                           /\ aborted[t] => heard[t] = 0
                           /\ \A u \in Turn \ {t} : pc[u] \notin Busy
  BY <1>6 DEF IInv, Phases, Owned, Busy, InFlight
<1>7. CASE /\ listening[t] /\ ~cancel
           /\ listening' = [listening EXCEPT ![t] = FALSE]
           /\ Goto(t, "saving") /\ UNCHANGED <<isSending, isStreaming>>
  <2>1. /\ listening' \in [Turn -> BOOLEAN] /\ ~listening'[t]
        /\ pc' \in [Turn -> {"new", "saving", "over"} \cup InFlight \cup Torn] /\ pc'[t] = "saving"
        /\ \A u \in Turn \ {t} : pc'[u] = pc[u] /\ listening'[u] = listening[u]
    BY <1>6, <1>7 DEF IInv, TypeOK, Goto
  <2>2. Orderly' => Orderly
    BY <1>6, <1>7, <2>1 DEF Orderly, Torn
  <2>3. TypeOK'
    BY <1>1, <1>2, <1>7, <2>1 DEF IInv, TypeOK, Event
  <2>4. Phases'
    BY <1>1, <1>2, <1>6, <1>7, <2>1 DEF IInv, Phases, Unheard, Torn
  <2>5. Orderly' => Owned'
    BY <1>1, <1>6, <1>7, <2>1, <2>2 DEF IInv, Owned, Busy, InFlight
  <2>6. LostOnlyIfRefused' /\ StreamingIsLive'
    BY <1>1, <1>7, <2>1, <2>2 DEF IInv, LostOnlyIfRefused, StreamingIsLive
  <2> QED
    BY <1>4, <2>3, <2>4, <2>5, <2>6 DEF IInv
<1>8. CASE /\ listening[t] /\ ~(~cancel /\ home[t] # NoSession /\ heard[t] > 0)
           /\ listening' = [listening EXCEPT ![t] = FALSE]
           /\ Finish(t)
  <2>1. /\ listening' \in [Turn -> BOOLEAN] /\ ~listening'[t]
        /\ pc' \in [Turn -> {"new", "saving", "over"} \cup InFlight \cup Torn] /\ pc'[t] = "over"
        /\ \A u \in Turn \ {t} : pc'[u] = pc[u] /\ listening'[u] = listening[u]
        /\ isSending' = FALSE /\ isStreaming' \in BOOLEAN /\ (mounted => isStreaming' = FALSE)
    BY <1>6, <1>8 DEF IInv, TypeOK, Finish, Goto, Show
  <2>2. Orderly' => Orderly
    BY <1>6, <1>8, <2>1 DEF Orderly, Torn
  <2>3. TypeOK'
    BY <1>1, <1>2, <1>8, <2>1 DEF IInv, TypeOK, Event
  <2>4. Phases'
    BY <1>1, <1>2, <1>6, <1>8, <2>1 DEF IInv, Phases, Unheard, Torn
  <2>5. Orderly' => Owned'
    BY <1>1, <1>6, <1>8, <2>1, <2>2 DEF IInv, Owned, Busy, InFlight
  <2>6. LostOnlyIfRefused' /\ StreamingIsLive'
    BY <1>1, <1>2, <1>6, <1>8, <2>1, <2>2 DEF IInv, LostOnlyIfRefused, StreamingIsLive
  <2> QED
    BY <1>4, <2>3, <2>4, <2>5, <2>6 DEF IInv
<1> QED
  BY <1>5, <1>7, <1>8 DEF Done

(* The reply is stored or refused: the turn is over, and whoever is being     *)
(* sent by now loses isSendingRef only if the reply was torn.                 *)
LEMMA SavedKeeps == ASSUME IInv, NEW t \in Turn, Saved(t) PROVE IInv'
<1>1. /\ pc[t] \in {"saving", "tornSaving"} /\ Finish(t) /\ AddMessage(t)
      /\ UNCHANGED <<home, heard, skipped, listening, armed, aborted, cancel, controller,
                     activeReq, session, mounted, loads, loadsLeft, backend, stops, mail>>
  BY DEF Saved, backVars
<1>8. /\ stored' \in [Turn -> 0..2] /\ refused' \in [Turn -> BOOLEAN]
      /\ stored'[t] <= 2 /\ (pc[t] = "saving" => stored'[t] <= 1)
      /\ stored'[t] > 0 \/ refused'[t]
      /\ \A u \in Turn \ {t} : stored'[u] = stored[u] /\ refused'[u] = refused[u]
  <2>1. stored[t] <= 1 /\ (pc[t] = "saving" => stored[t] = 0) /\ stored[t] \in 0..2
    BY <1>1 DEF IInv, Phases, TypeOK
  <2>2. /\ stored' \in [Turn -> 0..2] /\ refused' \in [Turn -> BOOLEAN]
        /\ stored'[t] <= stored[t] + 1 /\ (stored'[t] > 0 \/ refused'[t])
        /\ \A u \in Turn \ {t} : stored'[u] = stored[u] /\ refused'[u] = refused[u]
    BY <1>1, <2>1, Settled
  <2> QED
    BY <2>1, <2>2
<1>2. /\ pc' \in [Turn -> {"new", "saving", "over"} \cup InFlight \cup Torn]
      /\ pc'[t] = IF pc[t] = "tornSaving" THEN "torn" ELSE "over"
      /\ \A u \in Turn \ {t} : pc'[u] = pc[u]
      /\ isSending' = FALSE /\ isStreaming' \in BOOLEAN /\ (mounted => isStreaming' = FALSE)
  BY <1>1 DEF IInv, TypeOK, Finish, Goto, Show, Torn
<1>3. Orderly' => Orderly /\ pc[t] = "saving"
  BY <1>1, <1>2 DEF Orderly, Torn
<1>4. TypeOK'
  BY <1>1, <1>2, <1>8 DEF IInv, TypeOK
<1>5. Phases' /\ Post'
  <2>1. pc'[t] \in {"over", "torn"} /\ armed[t] /\ ~listening[t]
        /\ (~aborted[t] => pc[t] = "saving")
    BY <1>1, <1>2 DEF IInv, Phases, Torn
  <2>2. Post'
    BY <1>1 DEF IInv, Post
  <2> QED
    BY <1>1, <1>2, <1>8, <2>1, <2>2 DEF IInv, Phases, Unheard, Torn
<1>6. Orderly' => Owned'
  BY <1>1, <1>2, <1>3 DEF IInv, Owned, Busy, InFlight
<1>7. LostOnlyIfRefused' /\ StreamingIsLive'
  BY <1>1, <1>2, <1>3, <1>8 DEF IInv, LostOnlyIfRefused, StreamingIsLive, Phases
<1> QED
  BY <1>4, <1>5, <1>6, <1>7 DEF IInv

-----------------------------------------------------------------------------
(* A button that aborts: what was heard is handed over, or nothing was heard. *)
LEMMA AbortKeeps ==
  ASSUME IInv, Abort, isStreaming' = FALSE, UNCHANGED <<mounted, backend, mail>>,
         activeReq' \in Turn \cup {NoTurn}, session' \in Session \cup {NoSession},
         stops' \subseteq Turn, loads' \subseteq Session \X {"mount", "page"},
         loadsLeft' \in 0..MaxLoad
  PROVE  IInv'
<1> USE NullAssumption
<1>1. CASE controller = NoTurn /\ cancel' = TRUE /\ UNCHANGED <<turnVars, isSending, controller>>
  <2>1. UNCHANGED <<pc, home, heard, skipped, listening, armed, aborted, stored, refused>>
    BY <1>1 DEF turnVars
  <2>2. Orderly => \A u \in Turn : pc[u] \notin Busy
    BY <1>1 DEF IInv, Owned, Turn
  <2>3. TypeOK'
    BY <1>1, <2>1 DEF IInv, TypeOK
  <2>5. Phases' /\ Post'
    BY <1>1, <2>1 DEF IInv, Phases, Unheard, Post
  <2>4. (Orderly' => Owned') /\ LostOnlyIfRefused' /\ StreamingIsLive'
    BY <1>1, <2>1, <2>2 DEF IInv, Orderly, Owned, Busy, LostOnlyIfRefused, StreamingIsLive
  <2> QED
    BY <2>3, <2>4, <2>5 DEF IInv
<1>2. ASSUME NEW t \in Turn, t = controller, cancel' = TRUE,
             UNCHANGED <<home, heard, skipped, armed, controller>>,
             aborted' = [aborted EXCEPT ![t] = TRUE]
      PROVE  /\ aborted' \in [Turn -> BOOLEAN] /\ aborted'[t]
             /\ \A u \in Turn \ {t} : aborted'[u] = aborted[u]
             /\ pc[t] # "new"
             /\ Orderly => \A u \in Turn \ {t} : pc[u] \notin Busy
  BY <1>2 DEF IInv, TypeOK, Phases, Owned
<1>3. ASSUME NEW t \in Turn, t = controller, cancel' = TRUE,
             UNCHANGED <<home, heard, skipped, armed, controller>>,
             aborted' = [aborted EXCEPT ![t] = TRUE],
             ~Fires(t), UNCHANGED <<pc, listening, stored, refused, isSending>>
      PROVE  IInv'
  <2>1. TypeOK'
    BY <1>2, <1>3 DEF IInv, TypeOK
  <2>4. Phases' /\ Post'
    BY <1>2, <1>3 DEF IInv, Phases, Unheard, Post
  <2>2. Orderly' => Owned'
    <3>1. Orderly => pc[t] # "saving" /\ (pc[t] = "streaming" => aborted[t])
      BY <1>3 DEF IInv, Owned, Phases, Fires
    <3> QED
      BY <1>2, <1>3, <3>1 DEF IInv, Orderly, Owned, Busy, InFlight, Phases, Unheard
  <2>3. LostOnlyIfRefused' /\ StreamingIsLive'
    BY <1>3 DEF IInv, Orderly, LostOnlyIfRefused, StreamingIsLive
  <2> QED
    BY <2>1, <2>2, <2>3, <2>4 DEF IInv
<1>4. ASSUME NEW t \in Turn, t = controller, cancel' = TRUE,
             UNCHANGED <<home, heard, skipped, armed, controller>>,
             aborted' = [aborted EXCEPT ![t] = TRUE],
             Fires(t), listening' = [listening EXCEPT ![t] = FALSE], Stores(t),
             Goto(t, CASE pc[t] = "saving" -> "tornSaving"
                       [] pc[t] = "streaming" -> "over"
                       [] OTHER -> pc[t]),
             isSending' = FALSE
      PROVE  IInv'
  <2>1. armed[t] /\ ~aborted[t] /\ pc[t] \notin {"new", "create", "listen"}
        /\ stored[t] \in 0..1 /\ (listening[t] => stored[t] = 0)
    BY <1>4 DEF IInv, TypeOK, Phases, Unheard, Fires
  <2>2. /\ listening' \in [Turn -> BOOLEAN] /\ ~listening'[t]
        /\ stored' \in [Turn -> 0..2] /\ refused' \in [Turn -> BOOLEAN]
        /\ stored'[t] <= stored[t] + 1
        /\ home[t] # NoSession /\ heard[t] > 0 => stored'[t] > 0 \/ refused'[t]
        /\ \A u \in Turn \ {t} : /\ listening'[u] = listening[u] /\ stored'[u] = stored[u]
                                 /\ refused'[u] = refused[u]
    <3>1. CASE AddMessage(t)
      BY <1>4, <2>1, <3>1, Settled DEF IInv, TypeOK
    <3>2. CASE ~(home[t] # NoSession /\ heard[t] > 0) /\ UNCHANGED <<stored, refused>>
      BY <1>4, <2>1, <3>2 DEF IInv, TypeOK
    <3> QED
      BY <1>4, <3>1, <3>2 DEF Stores
  <2>3. /\ pc' \in [Turn -> {"new", "saving", "over"} \cup InFlight \cup Torn]
        /\ pc[t] = "saving" => pc'[t] = "tornSaving"
        /\ pc[t] = "streaming" => pc'[t] = "over"
        /\ pc[t] \notin {"saving", "streaming"} => pc'[t] = pc[t]
        /\ \A u \in Turn \ {t} : pc'[u] = pc[u]
    BY <1>4 DEF IInv, TypeOK, Goto, Torn
  <2>4. pc[t] \in {"streaming", "saving", "over"} \cup Torn
    BY <2>1 DEF IInv, TypeOK, InFlight
  <2>5. Orderly' => Orderly
    BY <2>3, <2>4 DEF Orderly, Torn
  <2>6. TypeOK'
    BY <1>2, <1>4, <2>2, <2>3 DEF IInv, TypeOK
  <2>7. Phases'
    <3>1. /\ pc'[t] \notin {"new", "create", "listen", "streaming", "saving"}
          /\ armed'[t] /\ aborted'[t] /\ ~listening'[t]
      BY <1>2, <1>4, <2>1, <2>2, <2>3, <2>4 DEF Torn
    <3>3. pc'[t] = "tornSaving" => stored'[t] <= 1
      <4>1. pc'[t] = "tornSaving" => pc[t] = "saving" \/ pc[t] = "tornSaving"
        BY <2>3, <2>4 DEF Torn
      <4>2. pc[t] \notin Torn /\ (pc[t] = "saving" => stored[t] = 0)
        BY <2>1 DEF IInv, Phases
      <4> QED
        BY <2>1, <2>2, <4>1, <4>2 DEF Torn
    <3>2. ASSUME NEW u \in Turn \ {t}
          PROVE  /\ pc'[u] = pc[u] /\ listening'[u] = listening[u] /\ stored'[u] = stored[u]
                 /\ aborted'[u] = aborted[u] /\ armed'[u] = armed[u]
                 /\ Unheard(u)' <=> Unheard(u)
      BY <1>2, <1>4, <2>2, <2>3 DEF Unheard
    <3> QED
      BY <1>4, <2>3, <3>1, <3>2, <3>3 DEF IInv, Phases, Torn
  <2>8. Post'
    BY <1>4 DEF IInv, Post
  <2>9. Orderly' => Owned'
    BY <1>2, <1>4, <2>2, <2>3, <2>4, <2>5 DEF IInv, Owned, Orderly, Busy, InFlight, Torn
  <2>10. LostOnlyIfRefused' /\ StreamingIsLive'
    BY <1>4, <2>1, <2>2, <2>3, <2>4, <2>5 DEF IInv, LostOnlyIfRefused, StreamingIsLive, Orderly, Torn
  <2> QED
    BY <2>6, <2>7, <2>8, <2>9, <2>10 DEF IInv
<1> QED
  <2>1. controller \in Turn \cup {NoTurn}
    BY DEF IInv, TypeOK
  <2> QED
    BY <1>1, <1>3, <1>4, <2>1 DEF Abort

LEMMA ButtonKeeps ==
  ASSUME IInv, Stop \/ Clear \/ (\E s \in Session : LoadSession(s))
  PROVE  IInv'
<1>1. TypeOK
  BY DEF IInv
<1>2. CASE Stop
  BY <1>1, <1>2, AbortKeeps DEF Stop, TypeOK
<1>3. CASE Clear
  <2>1. /\ Abort /\ isStreaming' = FALSE /\ session' = NoSession /\ loadsLeft' \in 0..MaxLoad
        /\ UNCHANGED <<activeReq, mounted, loads, backend, stops, mail>>
    BY <1>1, <1>3, TurnBound DEF Clear, backVars, TypeOK
  <2> QED
    BY <1>1, <2>1, AbortKeeps DEF TypeOK
<1>4. ASSUME NEW s \in Session, LoadSession(s) PROVE IInv'
  <2>1. loads' \subseteq Session \X {"mount", "page"} /\ loadsLeft' \in 0..MaxLoad
    BY <1>1, <1>4, TurnBound DEF LoadSession, TypeOK
  <2> QED
    BY <1>1, <1>4, <2>1, AbortKeeps DEF LoadSession, backVars, TypeOK
<1> QED
  BY <1>2, <1>3, <1>4

(* Rows that arrive, or cannot be read, and leaving the page change only what *)
(* is shown.                                                                 *)
LEMMA PageKeeps ==
  ASSUME IInv, Unmount \/ (\E load \in loads : Loaded(load) \/ LoadFails(load))
  PROVE  IInv'
<1>1. UNCHANGED <<pc, home, heard, skipped, listening, armed, aborted, stored, refused, isSending, cancel,
                  controller, activeReq, backend, stops, mail, loadsLeft>>
  BY DEF Unmount, Loaded, LoadFails, KeepCancel, turnVars, refVars, backVars
<1>2. /\ mounted' \in BOOLEAN /\ (mounted' => mounted)
      /\ isStreaming' \in BOOLEAN /\ (mounted /\ isStreaming' => isStreaming)
      /\ loads' \subseteq loads
  <2>1. mounted \in BOOLEAN /\ isStreaming \in BOOLEAN
    BY DEF IInv, TypeOK
  <2>2. CASE Unmount
    BY <2>1, <2>2 DEF Unmount
  <2>3. CASE \E load \in loads : Loaded(load) \/ LoadFails(load)
    <3>1. PICK load \in loads : Loaded(load) \/ LoadFails(load)
      BY <2>3
    <3>2. mounted' = mounted /\ loads' = loads \ {load} /\ isStreaming' \in {isStreaming, FALSE}
      BY <3>1 DEF Loaded, LoadFails
    <3>3. loads' \subseteq loads /\ mounted' = mounted
      BY <3>2
    <3>4. CASE isStreaming' = isStreaming
      BY <2>1, <3>3, <3>4
    <3>5. CASE isStreaming' = FALSE
      BY <2>1, <3>3, <3>5
    <3> QED
      BY <3>2, <3>4, <3>5
  <2> QED
    BY <2>2, <2>3
<1>3. session' \in Session \cup {NoSession}
  <2>1. ASSUME NEW load \in loads PROVE load[1] \in Session
    BY <2>1 DEF IInv, TypeOK
  <2> QED
    BY <2>1 DEF Unmount, Loaded, LoadFails, IInv, TypeOK
<1>4. TypeOK'
  BY <1>1, <1>2, <1>3 DEF IInv, TypeOK
<1>5. Phases' /\ Post'
  BY <1>1 DEF IInv, Phases, Unheard, Post
<1>6. (Orderly' => Owned') /\ LostOnlyIfRefused'
  BY <1>1 DEF IInv, Orderly, Owned, LostOnlyIfRefused
<1>7. StreamingIsLive'
  BY <1>1, <1>2 DEF IInv, StreamingIsLive, TypeOK
<1> QED
  BY <1>4, <1>5, <1>6, <1>7 DEF IInv

-----------------------------------------------------------------------------
(* The backend: what it emits is counted, and the end comes last. *)
LEMMA BackendKeeps ==
  ASSUME IInv, NEW t \in Turn, BackendStep(t) \/ StreamChunk(t) \/ StopArrives(t)
  PROVE  IInv'
<1>1. UNCHANGED <<pc, home, heard, skipped, listening, armed, aborted, stored, refused, isSending, cancel,
                  controller, activeReq, session, isStreaming, mounted, loads, loadsLeft>>
  BY DEF BackendStep, StreamStarts, StreamChunk, StreamEnds, StopArrives, turnVars, refVars,
         pageVars
<1>2. stops' \subseteq Turn
  BY DEF BackendStep, StreamStarts, StreamChunk, StreamEnds, StopArrives, IInv, TypeOK
<1>3. /\ mail \in [Turn -> Seq(Event)] /\ heard[t] \in 0..MaxChunk /\ MaxChunk \in Nat
      /\ backend \in [Turn -> {"none", "called", "running", "over"}]
  BY TurnBound DEF IInv, TypeOK, Event
<1>4. ASSUME backend' \in [Turn -> {"none", "called", "running", "over"}],
             mail' \in [Turn -> Seq(Event)], Post',
             \A u \in Turn : backend[u] = "none" => backend'[u] = "none" /\ mail'[u] = mail[u]
      PROVE  IInv'
  <2>1. TypeOK'
    BY <1>1, <1>2, <1>4 DEF IInv, TypeOK, Event
  <2>2. Phases'
    BY <1>1, <1>4 DEF IInv, Phases, Unheard
  <2>3. (Orderly' => Owned') /\ LostOnlyIfRefused' /\ StreamingIsLive'
    BY <1>1 DEF IInv, Orderly, Owned, LostOnlyIfRefused, StreamingIsLive
  <2> QED
    BY <1>4, <2>1, <2>2, <2>3 DEF IInv
<1>5. ASSUME backend[t] = "running", NEW e \in Event, Emit(t, e),
             NEW b \in {"running", "over"}, backend' = [backend EXCEPT ![t] = b],
             e # "chunk" => b = "over",
             e = "chunk" => Len(mail[t]) + heard[t] < MaxChunk
      PROVE  IInv'
  <2> DEFINE n == Len(mail[t])
             m == mail'[t]
  <2>1. /\ m \in Seq(Event) /\ n \in Nat /\ Len(m) = n + 1 /\ m # <<>> /\ m[n + 1] = e
        /\ \A i \in 1..n : m[i] = mail[t][i]
        /\ mail' \in [Turn -> Seq(Event)] /\ \A u \in Turn \ {t} : mail'[u] = mail[u]
    BY <1>3, <1>5, MailAppend DEF Emit
  <2>2. \A i \in 1..n : mail[t][i] = "chunk"
    BY <1>5 DEF IInv, Post
  <2>3. n + heard[t] <= MaxChunk
    <3>1. mail[t] # <<>> => mail[t][n] = "chunk"
      BY <1>3, <2>1, <2>2, EmptySeq
    <3> QED
      BY <1>3, <2>1, <3>1 DEF IInv, Post
  <2>4. \A i \in 1..Len(m) : m[i] # "chunk" => i = Len(m) /\ b = "over"
    <3> SUFFICES ASSUME NEW i \in 1..Len(m), m[i] # "chunk" PROVE i = Len(m) /\ b = "over"
      OBVIOUS
    <3>1. i = n + 1
      BY <2>1, <2>2
    <3> QED
      BY <1>5, <2>1, <3>1
  <2>5. heard[t] + Len(m) <= IF m # <<>> /\ m[Len(m)] # "chunk" THEN MaxChunk + 1 ELSE MaxChunk
    <3> HIDE DEF m, n
    <3>1. CASE e = "chunk"
      <4>1. heard[t] + n + 1 <= MaxChunk
        BY <1>3, <1>5, <2>1, <3>1 DEF n
      <4> QED
        BY <1>3, <2>1, <3>1, <4>1
    <3>2. CASE e # "chunk"
      BY <1>3, <2>1, <2>3, <3>2
    <3> QED
      BY <3>1, <3>2
  <2>6. Post'
    <3>1. \A u \in Turn \ {t} : /\ mail'[u] = mail[u] /\ heard'[u] = heard[u]
                               /\ backend'[u] = backend[u]
      BY <1>1, <1>3, <1>5, <2>1
    <3>2. backend'[t] = b /\ b \notin {"none", "called"} /\ heard'[t] = heard[t]
      BY <1>1, <1>3, <1>5
    <3> QED
      BY <2>4, <2>5, <3>1, <3>2 DEF IInv, Post
  <2> QED
    BY <1>3, <1>4, <1>5, <2>1, <2>6
<1>6. CASE StreamStarts(t)
  <2>1. /\ backend[t] = "called" /\ backend' = [backend EXCEPT ![t] = "running"]
        /\ mail' = mail
    BY <1>6 DEF StreamStarts
  <2>2. mail[t] = <<>> /\ heard[t] <= MaxChunk /\ Len(mail[t]) = 0
    BY <1>3, <2>1, EmptySeq DEF IInv, Post
  <2>3. Post'
    <3>1. \A u \in Turn \ {t} : backend'[u] = backend[u] /\ mail'[u] = mail[u] /\ heard'[u] = heard[u]
      BY <1>1, <1>3, <2>1
    <3>2. backend'[t] = "running" /\ mail'[t] = <<>> /\ heard'[t] \in 0..MaxChunk /\ Len(mail'[t]) = 0
      BY <1>1, <1>3, <2>1, <2>2
    <3> QED
      BY <1>3, <3>1, <3>2 DEF IInv, Post
  <2> QED
    BY <1>3, <1>4, <2>1, <2>3
<1>7. CASE StreamChunk(t)
  <2>1. /\ backend[t] = "running" /\ Emit(t, "chunk") /\ Len(mail[t]) + heard[t] < MaxChunk
        /\ backend' = [backend EXCEPT ![t] = "running"]
    BY <1>3, <1>7 DEF StreamChunk
  <2> QED
    BY <1>5, <2>1 DEF Event
<1>8. CASE StreamEnds(t)
  <2>1. PICK e \in {"done", "error"} : Emit(t, e)
    BY <1>8 DEF StreamEnds
  <2> QED
    BY <1>5, <1>8, <2>1 DEF StreamEnds, Event
<1>9. CASE StopArrives(t)
  <2>1. CASE UNCHANGED <<backend, mail>>
    <3>1. Post'
      BY <1>1, <2>1 DEF IInv, Post
    <3> QED
      BY <1>3, <1>4, <2>1, <3>1
  <2>2. CASE backend[t] = "running" /\ backend' = [backend EXCEPT ![t] = "over"] /\ Emit(t, "done")
    BY <1>5, <2>2 DEF Event
  <2> QED
    BY <1>9, <2>1, <2>2 DEF StopArrives
<1> QED
  BY <1>6, <1>7, <1>8, <1>9 DEF BackendStep

-----------------------------------------------------------------------------
LEMMA EngineNext == IInv /\ [Next]_vars => IInv'
<1> SUFFICES ASSUME IInv, [Next]_vars PROVE IInv'
  OBVIOUS
<1>1. CASE UNCHANGED vars
  <2>1. UNCHANGED <<pc, home, heard, skipped, listening, armed, aborted, stored, refused, isSending,
                    cancel, controller, activeReq, session, isStreaming, mounted, loads,
                    loadsLeft, backend, stops, mail>>
    BY <1>1 DEF vars, turnVars, refVars, pageVars, backVars
  <2> QED
    <3>1. TypeOK' /\ Phases'
      BY <2>1 DEF IInv, TypeOK, Phases, Unheard
    <3>2. Post' /\ (Orderly' => Owned')
      BY <2>1 DEF IInv, Post, Orderly, Owned
    <3>3. LostOnlyIfRefused' /\ StreamingIsLive'
      BY <2>1 DEF IInv, Orderly, LostOnlyIfRefused, StreamingIsLive
    <3> QED
      BY <3>1, <3>2, <3>3 DEF IInv
<1>2. ASSUME NEW t \in Turn, Send(t) \/ TurnStep(t) PROVE IInv'
  BY <1>2, SendKeeps, CreatedKeeps, ListenedKeeps, ListenFailsKeeps, SavedKeeps, ChunkKeeps,
     DoneKeeps DEF TurnStep
<1>3. ASSUME NEW t \in Turn, BackendStep(t) \/ StreamChunk(t) \/ StopArrives(t) PROVE IInv'
  BY <1>3, BackendKeeps
<1> QED
  BY <1>1, <1>2, <1>3, ButtonKeeps, PageKeeps DEF Next

(* The invariant holds in every reachable state. *)
THEOREM EngineInvariant == Spec => []IInv
  BY EngineInit, EngineNext, PTL DEF Spec

(* Every variable keeps its type; no turn's reply is stored a third time. *)
THEOREM EngineTypes == Spec => []TypeOK
<1>1. IInv => TypeOK
  BY DEF IInv
<1> QED
  BY <1>1, EngineInvariant, PTL

(* useChatEngine sends one turn at a time, although isSendingRef is cleared   *)
(* by four continuations: all turns in flight are the one that holds          *)
(* abortControllerRef.                                                       *)
THEOREM OneTurnInFlight == Spec => []SingleFlight
<1>1. IInv => SingleFlight
  <2> SUFFICES ASSUME IInv, Orderly
               PROVE  Cardinality({t \in Turn : pc[t] \in InFlight}) <= 1
    BY DEF SingleFlight
  <2>1. {t \in Turn : pc[t] \in InFlight} \subseteq {controller}
    BY DEF IInv, Owned, Busy
  <2>2. IsFiniteSet({controller}) /\ Cardinality({controller}) = 1
    BY FS_Singleton
  <2> QED
    BY <2>1, <2>2, FS_Subset, FS_CardinalityType
<1> QED
  BY <1>1, EngineInvariant, PTL

(* What the phone showed of a reply is in its history once the turn is over,  *)
(* or the history refused it: no way to end a turn forgets its reply.         *)
THEOREM TextIsHandedOver == Spec => []LostOnlyIfRefused
<1>1. IInv => LostOnlyIfRefused
  BY DEF IInv
<1> QED
  BY <1>1, EngineInvariant, PTL

(* The page shows Stop only while a turn is there to be stopped. *)
THEOREM StopIsForATurn == Spec => []StreamingIsLive
<1>1. IInv => StreamingIsLive
  BY DEF IInv
<1> QED
  BY <1>1, EngineInvariant, PTL

(* cancelRef is never taken back under a turn whose chunks it makes the page  *)
(* ignore: no reply goes on after a gap.                                     *)
THEOREM RepliesHaveNoHoles == Spec => NoHoles
<1> DEFINE Whole == Orderly => \A t \in Turn : skipped[t] => heard'[t] = heard[t]
<1>1. IInv /\ [Next]_vars => [Whole]_vars
  <2> SUFFICES ASSUME IInv, Next, Orderly, NEW t \in Turn, skipped[t]
               PROVE  heard'[t] = heard[t]
    BY DEF vars
  <2>1. ASSUME NEW u \in Turn, Chunk(u) PROVE heard'[t] = heard[t]
    <3>1. listening[t] => cancel
      BY DEF IInv, Owned
    <3> QED
      BY <2>1, <3>1 DEF Chunk, IInv, TypeOK
  <2>2. ASSUME NEW u \in Turn,
               \/ Send(u) \/ Created(u) \/ Listened(u) \/ ListenFails(u) \/ Saved(u) \/ Done(u)
        PROVE  heard' = heard
    BY <2>2 DEF Send, Created, Listened, ListenFails, Saved, Done
  <2>3. ASSUME NEW u \in Turn, BackendStep(u) \/ StreamChunk(u) \/ StopArrives(u)
        PROVE  heard' = heard
    BY <2>3 DEF BackendStep, StreamStarts, StreamChunk, StreamEnds, StopArrives, turnVars
  <2>4. CASE \/ Stop \/ Clear \/ Unmount \/ (\E s \in Session : LoadSession(s))
             \/ \E load \in loads : Loaded(load) \/ LoadFails(load)
    BY <2>4 DEF Stop, Clear, LoadSession, Abort, Unmount, Loaded, LoadFails, turnVars
  <2> QED
    BY <2>1, <2>2, <2>3, <2>4 DEF Next, TurnStep
<1> QED
  BY <1>1, EngineInvariant, PTL DEF Spec, NoHoles
=============================================================================
