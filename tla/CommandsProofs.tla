--------------------------- MODULE CommandsProofs ---------------------------
(***************************************************************************)
(* Theorems about the pairing servers, the Node step and the watchdog, and *)
(* with GatewayProofs about all four commands of MCCommands: any number of *)
(* codes, phones, strategies, processes and lines, any time to live.       *)
(*                                                                         *)
(* Pairing: that a token is accepted once is not inductive: the test looks *)
(* at the token that is active now, so the invariant says what is known of *)
(* the tokens that are not (Spent): they were offered before, and an       *)
(* active token that was accepted is marked used.                          *)
(*                                                                         *)
(* Node step: that a chain which failed has run everything follows from    *)
(* how often each strategy was run so far, which depends on where in which *)
(* pass the chain is (Progress); SslRestored needs that a setting taken    *)
(* away is owed exactly while a retry is pending (SslOwed).                *)
(*                                                                         *)
(* Watchdog: that a kill is reported needs the flag to be up before the    *)
(* signal is sent (Flagged), and that the output is complete needs the     *)
(* lines to be accounted for as long as they are read (Accounted).         *)
(***************************************************************************)
EXTENDS MCCommands, GatewayProofs, TLAPS

-----------------------------------------------------------------------------
(* Pairing *)

PairTypes ==
         /\ active \in [token : Gen \cup {NoToken}, used : BOOLEAN, port : Gen \cup {NoToken}]
         /\ expires \in [Gen -> 0..(Ttl + 1)]
         /\ gen \in [Gen -> {"idle", "stored", "bound", "shown"}]
         /\ posted \in [Conn -> Gen \cup {NoToken}]
         /\ accepts \in [Gen -> Nat]

Spent == /\ active.token # NoToken => gen[active.token] # "idle"
         /\ \A g \in Gen : accepts[g] > 0 =>
              gen[g] # "idle" /\ (g = active.token => active.used)

PairInv == PairTypes /\ Spent /\ AcceptedOnce

-----------------------------------------------------------------------------
(* Nothing is offered or accepted at first. *)
LEMMA PairInit == Init => PairInv /\ OneShot!Init
<1> SUFFICES ASSUME Init PROVE PairInv /\ OneShot!Init
  OBVIOUS
<1>1. PairTypes
  BY PairingAssumption DEF Init, PairTypes
<1>2. Spent /\ AcceptedOnce
  BY DEF Init, Spent, AcceptedOnce
<1>3. OneShot!Init
  BY DEF Init, OneShot!Init
<1> QED
  BY <1>1, <1>2, <1>3 DEF PairInv

(* A generation offers its token. *)
LEMMA PairStore ==
  ASSUME PairInv, NEW g \in Gen, Store(g)
  PROVE  PairInv' /\ OneShot!Offer(g)
<1> USE PairingAssumption DEF PairInv, PairTypes
<1>1. /\ active' = [token |-> g, used |-> FALSE, port |-> NoToken]
      /\ gen[g] = "idle" /\ gen' = [gen EXCEPT ![g] = "stored"]
      /\ expires' = [expires EXCEPT ![g] = Ttl + 1]
      /\ accepts' = accepts /\ posted' = posted
  BY DEF Store, net
<1>2. accepts[g] = 0
  BY <1>1 DEF Spent
<1>3. PairTypes'
  BY <1>1
<1>4. Spent' /\ AcceptedOnce'
  BY <1>1, <1>2 DEF Spent, AcceptedOnce
<1>5. {h \in Gen : gen'[h] # "idle"} = {h \in Gen : gen[h] # "idle"} \cup {g}
  BY <1>1
<1>6. {h \in Gen : gen'[h] # "idle" /\ expires'[h] = 0}
        = {h \in Gen : gen[h] # "idle" /\ expires[h] = 0}
  BY <1>1
<1>7. OneShot!Offer(g)
  BY <1>1, <1>5, <1>6 DEF OneShot!Offer
<1> QED
  BY <1>3, <1>4, <1>7

(* Starting the server and writing its port offer and accept nothing. *)
LEMMA PairServe ==
  ASSUME PairInv, NEW g \in Gen, Serve(g) \/ SetPort(g)
  PROVE  PairInv' /\ UNCHANGED OneShot!vars
<1> USE DEF PairInv, PairTypes
<1>1. /\ gen[g] # "idle"
      /\ \E to_ \in {"bound", "shown"} : gen' = [gen EXCEPT ![g] = to_]
      /\ active' \in {active, [active EXCEPT !.port = g]}
      /\ UNCHANGED <<expires, accepts, posted>>
  BY DEF Serve, SetPort, net, state
<1>2. \A h \in Gen : (gen'[h] # "idle") = (gen[h] # "idle")
  BY <1>1
<1>3. active'.token = active.token /\ active'.used = active.used
  BY <1>1
<1>4. PairTypes'
  BY <1>1
<1>5. Spent' /\ AcceptedOnce'
  BY <1>1, <1>2, <1>3 DEF Spent, AcceptedOnce
<1>6. UNCHANGED OneShot!vars
  BY <1>1, <1>2, <1>3 DEF OneShot!vars
<1> QED
  BY <1>4, <1>5, <1>6

(* Both ways of verification accept the token on offer, for the first time.  *)
LEMMA PairConsume ==
  ASSUME PairInv, NEW t \in Gen, Valid(t), Consume(t), UNCHANGED <<gen, posted>>
  PROVE  PairInv' /\ OneShot!Accept
<1> USE DEF PairInv, PairTypes
<1>1. /\ active.token = t /\ ~active.used /\ expires[t] > 0
      /\ active' = [active EXCEPT !.used = TRUE]
      /\ accepts' = [accepts EXCEPT ![t] = @ + 1]
      /\ UNCHANGED <<expires, gen, posted>>
  BY DEF Valid, Consume
<1>2. accepts[t] = 0
  BY <1>1 DEF Spent
<1>3. gen[t] # "idle"
  BY <1>1, PairingAssumption DEF Spent
<1>4. accepts'[t] = 1 /\ \A g \in Gen \ {t} : accepts'[g] = accepts[g]
  BY <1>1, <1>2
<1>5. active'.token = t /\ active'.used /\ PairTypes'
  <2>1. /\ active' \in [token : Gen \cup {NoToken}, used : BOOLEAN, port : Gen \cup {NoToken}]
        /\ active'.token = t /\ active'.used
    BY <1>1
  <2>2. accepts' \in [Gen -> Nat]
    BY <1>1
  <2> QED
    BY <1>1, <2>1, <2>2
<1>6. Spent'
  BY <1>1, <1>3, <1>4, <1>5 DEF Spent
<1>7. AcceptedOnce'
  BY <1>4 DEF AcceptedOnce
<1>8. {g \in Gen : accepts'[g] > 0} = {g \in Gen : accepts[g] > 0} \cup {t}
  BY <1>4
<1>9. OneShot!Accept
  BY <1>1, <1>2, <1>3, <1>5, <1>8 DEF OneShot!Accept
<1> QED
  BY <1>5, <1>6, <1>7, <1>9

(* Time only expires tokens. *)
LEMMA PairTick == ASSUME PairInv, Tick PROVE PairInv' /\ OneShot!Expire
<1> USE DEF PairInv, PairTypes
<1>1. /\ expires' = [g \in Gen |-> IF expires[g] > 0 THEN expires[g] - 1 ELSE 0]
      /\ UNCHANGED <<active, accepts, gen, posted>>
  BY DEF Tick, Less, net
<1>2. expires' \in [Gen -> 0..(Ttl + 1)]
  BY <1>1, PairingAssumption
<1>3. PairTypes' /\ Spent' /\ AcceptedOnce'
  BY <1>1, <1>2 DEF Spent, AcceptedOnce
<1> DEFINE some == {g \in Gen : gen[g] # "idle" /\ expires'[g] = 0}
<1>4. some \in SUBSET {g \in Gen : gen[g] # "idle"}
  OBVIOUS
<1>5. some = {g \in Gen : gen[g] # "idle" /\ expires[g] = 0} \cup some
  BY <1>1
<1> HIDE DEF some
<1>6. {g \in Gen : gen'[g] # "idle" /\ expires'[g] = 0} = some
  BY <1>1 DEF some
<1>7. OneShot!Expire
  BY <1>1, <1>4, <1>5, <1>6 DEF OneShot!Expire
<1> QED
  BY <1>3, <1>7

(* Connections that bring no verdict, and servers that end, change neither.  *)
LEMMA PairQuiet ==
  ASSUME PairInv, UNCHANGED <<active, expires, gen, accepts>>,
         posted' \in [Conn -> Gen \cup {NoToken}]
  PROVE  PairInv' /\ UNCHANGED OneShot!vars
<1>1. PairTypes' /\ Spent' /\ AcceptedOnce'
  BY DEF PairInv, PairTypes, Spent, AcceptedOnce
<1>2. UNCHANGED OneShot!vars
  BY DEF OneShot!vars
<1> QED
  BY <1>1, <1>2 DEF PairInv

(* Every step keeps the invariant and is a step of the one-shot token.       *)
LEMMA PairNext == ASSUME PairInv, [Next]_vars PROVE PairInv' /\ [OneShot!Next]_(OneShot!vars)
<1>1. CASE UNCHANGED vars
  BY <1>1, PairQuiet DEF vars, PairInv, PairTypes
<1>2. ASSUME NEW g \in Gen, Store(g) PROVE PairInv' /\ OneShot!Next
  BY <1>2, PairStore DEF OneShot!Next
<1>3. ASSUME NEW g \in Gen, Serve(g) \/ SetPort(g) PROVE PairInv' /\ UNCHANGED OneShot!vars
  BY <1>3, PairServe
<1>4. ASSUME NEW g \in Gen, VerifyPairToken(g) PROVE PairInv' /\ OneShot!Next
  BY <1>4, PairConsume DEF VerifyPairToken, net, OneShot!Next
<1>5. ASSUME NEW g \in Gen, ServerStep(g) \/ AcceptFails(g)
      PROVE PairInv' /\ UNCHANGED OneShot!vars
  BY <1>5, PairQuiet DEF ServerStep, Take, TimeOut, AcceptFails, state, PairInv, PairTypes
<1>6. ASSUME NEW g \in Gen, NEW c \in Conn, NoVerdict(g, c) \/ Refuse(g, c)
      PROVE PairInv' /\ UNCHANGED OneShot!vars
  BY <1>6, PairQuiet DEF NoVerdict, Refuse, Answer, state, PairInv, PairTypes
<1>7. ASSUME NEW g \in Gen, NEW c \in Conn, Accept(g, c) PROVE PairInv' /\ OneShot!Next
  <2>1. posted[c] \in Gen /\ Valid(posted[c]) /\ Consume(posted[c]) /\ UNCHANGED <<gen, posted>>
    BY <1>7 DEF Accept, Valid, PairInv, PairTypes
  <2> QED
    BY <2>1, PairConsume DEF OneShot!Next
<1>8. ASSUME NEW c \in Conn, NEW g \in Gen, NEW t \in Gen \cup {NoToken}, Connect(c, g, t)
      PROVE PairInv' /\ UNCHANGED OneShot!vars
  <2>1. posted' \in [Conn -> Gen \cup {NoToken}]
    BY <1>8 DEF Connect, PairInv, PairTypes
  <2> QED
    BY <1>8, <2>1, PairQuiet DEF Connect, state
<1>9. CASE Tick
  BY <1>9, PairTick DEF OneShot!Next
<1> QED
  BY <1>1, <1>2, <1>3, <1>4, <1>5, <1>6, <1>7, <1>8, <1>9 DEF Next, Generate, Read

-----------------------------------------------------------------------------
(* The invariant holds in every reachable state. *)
LEMMA PairInvariant == Spec => []PairInv
<1>1. Init => PairInv
  BY PairInit
<1>2. PairInv /\ [Next]_vars => PairInv'
  BY PairNext
<1> QED
  BY <1>1, <1>2, PTL DEF Spec

(* What the servers and their connections do keeps the types. *)
LEMMA PairTypesKeep == ASSUME TypeOK, PairInv', [Next]_vars PROVE TypeOK'
<1>1. PairTypes'
  BY DEF PairInv
<1>2. /\ srv' \in [Gen -> {"off", "accept", "read", "closed"}]
      /\ deadline' \in [Gen -> 0..(Ttl + Grace)]
      /\ conn' \in [Conn -> {"new", "pending", "open", "ok", "refused", "dropped"}]
      /\ to' \in [Conn -> Gen \cup {NoToken}]
  <2>1. CASE UNCHANGED <<srv, deadline, conn, to>>
    BY <2>1 DEF TypeOK
  <2>2. ASSUME NEW g \in Gen, Serve(g) PROVE <1>2!:
    BY <2>2, PairingAssumption DEF Serve, net, TypeOK
  <2>3. ASSUME NEW g \in Gen, ServerStep(g) \/ AcceptFails(g) PROVE <1>2!:
    BY <2>3 DEF ServerStep, Take, TimeOut, AcceptFails, Closed, TypeOK
  <2>4. ASSUME NEW g \in Gen, NEW c \in Conn, NoVerdict(g, c) \/ Refuse(g, c) PROVE <1>2!:
    BY <2>4 DEF NoVerdict, Refuse, Answer, TypeOK
  <2>5. ASSUME NEW g \in Gen, NEW c \in Conn, Accept(g, c) PROVE <1>2!:
    BY <2>5 DEF Accept, Closed, TypeOK
  <2>6. ASSUME NEW c \in Conn, NEW g \in Gen, NEW t \in Gen \cup {NoToken}, Connect(c, g, t)
        PROVE <1>2!:
    BY <2>6 DEF Connect, TypeOK
  <2>7. CASE Tick
    BY <2>7, PairingAssumption DEF Tick, Less, net, TypeOK
  <2>8. ASSUME NEW g \in Gen, Store(g) \/ SetPort(g) \/ VerifyPairToken(g)
        PROVE  UNCHANGED <<srv, deadline, conn, to>>
    BY <2>8 DEF Store, SetPort, VerifyPairToken, net
  <2> QED
    BY <2>1, <2>2, <2>3, <2>4, <2>5, <2>6, <2>7, <2>8 DEF Next, Generate, Read, vars
<1> QED
  BY <1>1, <1>2 DEF PairTypes, TypeOK

(* A phone that was told "ok" brought a token that is accepted, and no other  *)
(* was told so for it.                                                       *)
Told == \A c \in Conn : conn[c] = "ok" => posted[c] \in Gen /\ accepts[posted[c]] = 1
Alone == \A c, d \in Conn : conn[c] = "ok" /\ conn[d] = "ok" /\ posted[d] = posted[c] => d = c

LEMMA PairToldKeeps ==
  ASSUME TypeOK, PairInv, Told, Alone, [Next]_vars
  PROVE  Told' /\ Alone'
<1>1. ASSUME UNCHANGED accepts,
             \A c \in Conn : conn'[c] = "ok" => conn[c] = "ok" /\ posted'[c] = posted[c]
      PROVE  Told' /\ Alone'
  BY <1>1 DEF Told, Alone
<1>2. ASSUME NEW t \in Gen, Valid(t), Consume(t)
      PROVE  /\ accepts[t] = 0 /\ accepts'[t] = 1 /\ \A g \in Gen \ {t} : accepts'[g] = accepts[g]
             /\ \A c \in Conn : conn[c] = "ok" => posted[c] # t /\ accepts'[posted[c]] = 1
  <2>1. accepts[t] = 0
    BY <1>2 DEF PairInv, PairTypes, Spent, Valid
  <2>2. accepts'[t] = 1 /\ \A g \in Gen \ {t} : accepts'[g] = accepts[g]
    BY <1>2, <2>1 DEF Consume, TypeOK
  <2> QED
    BY <2>1, <2>2 DEF Told
<1>3. ASSUME NEW g \in Gen, VerifyPairToken(g) PROVE Told' /\ Alone'
  BY <1>2, <1>3 DEF VerifyPairToken, net, Told, Alone
<1>4. ASSUME NEW g \in Gen, NEW c \in Conn, Accept(g, c) PROVE Told' /\ Alone'
  <2>1. posted[c] \in Gen /\ Valid(posted[c]) /\ Consume(posted[c]) /\ posted' = posted
        /\ conn[c] = "open"
    BY <1>4 DEF Accept, Valid, Reading, TypeOK
  <2>2. \A d \in Conn \ {c} : conn'[d] = "ok" => conn[d] = "ok"
    BY <1>4 DEF Accept, Closed, TypeOK
  <2> QED
    BY <1>2, <2>1, <2>2 DEF Told, Alone
<1>5. ASSUME NEW g \in Gen, ServerStep(g) \/ AcceptFails(g) PROVE Told' /\ Alone'
  BY <1>1, <1>5 DEF ServerStep, Take, TimeOut, AcceptFails, Closed, state, TypeOK
<1>6. ASSUME NEW g \in Gen, NEW c \in Conn, NoVerdict(g, c) \/ Refuse(g, c) PROVE Told' /\ Alone'
  BY <1>1, <1>6 DEF NoVerdict, Refuse, Answer, state, TypeOK
<1>7. ASSUME NEW c \in Conn, NEW g \in Gen, NEW t \in Gen \cup {NoToken}, Connect(c, g, t)
      PROVE  Told' /\ Alone'
  BY <1>1, <1>7 DEF Connect, state, TypeOK
<1>8. ASSUME UNCHANGED <<accepts, conn, posted>> PROVE Told' /\ Alone'
  BY <1>1, <1>8
<1>9. ASSUME NEW g \in Gen, Generate(g) PROVE UNCHANGED <<accepts, conn, posted>>
  BY <1>9 DEF Generate, Store, Serve, SetPort, state, net
<1> QED
  BY <1>3, <1>4, <1>5, <1>6, <1>7, <1>8, <1>9 DEF Next, Read, Tick, vars, net

(* Every variable keeps its type, for any time to live. *)
LEMMA PairFull == Init => PairInv /\ TypeOK /\ Told /\ Alone
<1>1. Init => TypeOK
  BY PairingAssumption DEF Init, TypeOK
<1>2. Init => Told /\ Alone
  BY DEF Init, Told, Alone
<1> QED
  BY <1>1, <1>2, PairInit

LEMMA PairFullNext ==
  PairInv /\ TypeOK /\ Told /\ Alone /\ [Next]_vars => (PairInv /\ TypeOK /\ Told /\ Alone)'
BY PairNext, PairTypesKeep, PairToldKeeps

(* A phone is told that it is paired only if its token was accepted, and no   *)
(* two phones are told so for one token.                                     *)
THEOREM PairedIsAccepted == Spec => []OkIsAccepted
<1>1. Told /\ Alone => OkIsAccepted
  BY DEF Told, Alone, OkIsAccepted
<1> QED
  BY <1>1, PairFull, PairFullNext, PTL DEF Spec

(* A token pairs at most one phone, by whichever server or command it is     *)
(* brought, however generations and verifications interleave.                *)
THEOREM TokenAcceptedOnce == Spec => []AcceptedOnce
<1>1. PairInv => AcceptedOnce
  BY DEF PairInv
<1> QED
  BY <1>1, PairInvariant, PTL

(* PairingState with its servers implements the one-shot token.              *)
THEOREM PairingImplements == Spec => ImplementsOneShot
<1>1. Init => OneShot!Init
  BY PairInit
<1>2. PairInv /\ [Next]_vars => [OneShot!Next]_(OneShot!vars)
  BY PairNext
<1> QED
  BY <1>1, <1>2, PairInvariant, PTL DEF Spec, ImplementsOneShot, OneShot!Spec

-----------------------------------------------------------------------------
(* The Node step *)

(* How often each strategy has been run, by the place the chain is at. *)
TriesAt(here, s) ==
  CASE here = "check" -> tries[s] = 0
    [] here = "try"   -> IF s < at THEN tries[s] \in 1..2 ELSE tries[s] = 0
    [] here = "retry" -> IF s < at THEN tries[s] \in 1..2
                         ELSE tries[s] = IF s = at THEN 1 ELSE 0
    [] here = "pass2" -> IF s < at THEN tries[s] \in 2..3 ELSE tries[s] \in 1..2
    [] OTHER          -> tries[s] \in 0..3

Progress == \A s \in Strategy : TriesAt(pc, s)

(* What else holds at each place. *)
StepPlace == /\ pc = "pass2" => N > 1 /\ network
             /\ pc = "check" => at = 1
             /\ pc = "post" => node = "v22"
             /\ pc # "done" => result = "none" /\ "abort" \notin faults
             /\ pc # "retry" => ~sslOff

(* npm checks certificates as before, or a pending retry owes it. *)
SslOwed == found => strict \/ (pc = "retry" /\ sslOff /\ npm)

StepInv == NodeTypeOK /\ Progress /\ StepPlace /\ SslOwed /\ OkIsVerified /\ TriedAll

-----------------------------------------------------------------------------
(* Running an installer changes the machine only for the better and counts.  *)
LEMMA ExecuteEffect ==
  ASSUME NodeTypeOK, Execute, tries[at] \in 0..2
  PROVE  /\ node' \in {"none", "old", "v22"} /\ npm' \in BOOLEAN
         /\ npm => npm'
         /\ tries' \in [Strategy -> 0..3]
         /\ tries'[at] = tries[at] + 1
         /\ \A s \in Strategy \ {at} : tries'[s] = tries[s]
<1>1. /\ node' \in {"none", "old", "v22"} /\ npm' \in BOOLEAN
      /\ npm => npm'
  BY DEF Execute, NodeTypeOK
<1>2. /\ tries' \in [Strategy -> 0..3]
      /\ tries'[at] = tries[at] + 1
      /\ \A s \in Strategy \ {at} : tries'[s] = tries[s]
  BY DEF Execute, NodeTypeOK
<1> QED
  BY <1>1, <1>2

(* What an attempt of the first pass leads to, once everything up to `at` was *)
(* run once or twice: the verifier's yes, the next strategy, the second pass  *)
(* or the end.                                                               *)
LEMMA AfterAttempt ==
  ASSUME NodeTypeOK, result = "none",
         tries' \in [Strategy -> 0..3],
         \A s \in Strategy : IF s <= at THEN tries'[s] \in 1..2 ELSE tries'[s] = 0,
         network' \in BOOLEAN, "abort" \notin faults', ~sslOff',
         Verify(NextStrategy)
  PROVE  /\ pc' \in {"try", "pass2", "post", "done"} /\ at' \in Strategy
         /\ result' \in {"none", "err"}
         /\ Progress' /\ StepPlace' /\ OkIsVerified' /\ TriedAll'
<1> USE StrategyAssumption DEF Strategy
<1>1. CASE pc' = "post" /\ node' = "v22" /\ at' = at /\ result' = result
  BY <1>1 DEF Verify, NodeTypeOK, Progress, TriesAt, StepPlace, OkIsVerified, TriedAll
<1>2. CASE pc' = "try" /\ at < N /\ at' = at + 1 /\ result' = result
  BY <1>2 DEF Verify, NodeTypeOK, Progress, TriesAt, StepPlace, OkIsVerified, TriedAll
<1>3. CASE pc' = "pass2" /\ ~(at < N) /\ network' /\ N > 1 /\ at' = 1 /\ result' = result
  BY <1>3 DEF Verify, NodeTypeOK, Progress, TriesAt, StepPlace, OkIsVerified, TriedAll
<1>4. CASE pc' = "done" /\ ~(at < N) /\ ~(network' /\ N > 1) /\ at' = at /\ result' = "err"
  BY <1>4 DEF Verify, NodeTypeOK, Progress, TriesAt, StepPlace, OkIsVerified, TriedAll
<1> QED
  BY <1>1, <1>2, <1>3, <1>4 DEF Verify, Verified, NextStrategy, Pass2, Finish

-----------------------------------------------------------------------------
(* The invariant holds when the step starts. *)
LEMMA StepInit == NodeInit => StepInv
<1> SUFFICES ASSUME NodeInit PROVE StepInv
  OBVIOUS
<1> USE StrategyAssumption DEF NodeInit, Strategy
<1>1. tries \in [Strategy -> 0..3] /\ at \in Strategy
  OBVIOUS
<1>2. /\ npm \in BOOLEAN /\ strict \in BOOLEAN /\ found \in BOOLEAN
      /\ sslOff \in BOOLEAN /\ network \in BOOLEAN
  BY Zenon DEF NodeInit
<1>3. NodeTypeOK
  BY <1>1, <1>2 DEF NodeTypeOK
<1>4. Progress /\ StepPlace /\ SslOwed
  BY DEF Progress, TriesAt, StepPlace, SslOwed
<1>5. OkIsVerified /\ TriedAll
  BY DEF OkIsVerified, TriedAll
<1> QED
  BY <1>3, <1>4, <1>5 DEF StepInv

(* The checks before the chain keep it. *)
LEMMA CheckKeeps == StepInv /\ UNCHANGED stuck /\ Check => StepInv'
<1> SUFFICES ASSUME StepInv, UNCHANGED stuck, Check PROVE StepInv'
  OBVIOUS
<1> USE StrategyAssumption DEF StepInv, Strategy
<1>1. /\ pc = "check" /\ result = "none" /\ ~sslOff /\ (found => strict)
      /\ "abort" \notin faults /\ at = 1
      /\ \A s \in Strategy : tries[s] = 0
  BY DEF Check, Progress, TriesAt, StepPlace, SslOwed
<1>2. /\ UNCHANGED <<strict, found, at, sslOff, network, tries, faults>>
      /\ \/ pc' = "done" /\ result' = "err"
         \/ pc' = "done" /\ result' = "ok" /\ node' = "v22"
         \/ pc' = "try" /\ result' = "none"
  BY <1>1 DEF Check, Finish, world, Verified
<1>3. NodeTypeOK'
  BY DEF Check, NodeTypeOK, Finish, world, Verified
<1>4. CASE pc' = "try" /\ result' = "none"
  <2>1. \A s \in Strategy : ~(s < at')
    BY <1>1, <1>2
  <2> QED
    BY <1>1, <1>2, <1>3, <1>4, <2>1
    DEF Progress, TriesAt, StepPlace, SslOwed, OkIsVerified, TriedAll, NodeTypeOK
<1>5. CASE pc' = "done" /\ result' \in {"ok", "err"}
  <2>1. Progress' /\ StepPlace' /\ SslOwed' /\ OkIsVerified'
    BY <1>1, <1>2, <1>5 DEF Progress, TriesAt, StepPlace, SslOwed, OkIsVerified
  <2>2. TriedAll'
    BY <1>1, <1>2, <1>5 DEF TriedAll
  <2> QED
    BY <1>3, <2>1, <2>2
<1> QED
  BY <1>2, <1>4, <1>5

(* A first attempt finds its strategy not yet run, and leaves it run once.   *)
LEMMA FirstAttempt ==
  ASSUME StepInv, pc = "try", Execute
  PROVE  /\ tries[at] = 0 /\ tries'[at] = 1 /\ at \in Strategy
         /\ tries' \in [Strategy -> 0..3]
         /\ node' \in {"none", "old", "v22"} /\ npm' \in BOOLEAN
         /\ npm => npm'
         /\ \A s \in Strategy : IF s < at THEN tries'[s] \in 1..2
                               ELSE tries'[s] = IF s = at THEN 1 ELSE 0
<1>1. at \in Strategy /\ NodeTypeOK
  BY DEF StepInv, NodeTypeOK
<1>2. \A s \in Strategy : IF s < at THEN tries[s] \in 1..2 ELSE tries[s] = 0
  BY DEF StepInv, Progress, TriesAt
<1>3. tries[at] = 0
  BY <1>1, <1>2 DEF Strategy
<1>4. /\ tries' \in [Strategy -> 0..3] /\ tries'[at] = 1
      /\ node' \in {"none", "old", "v22"} /\ npm' \in BOOLEAN
      /\ npm => npm'
      /\ \A s \in Strategy \ {at} : tries'[s] = tries[s]
  BY <1>1, <1>3, ExecuteEffect
<1>5. ASSUME NEW s \in Strategy
      PROVE IF s < at THEN tries'[s] \in 1..2 ELSE tries'[s] = IF s = at THEN 1 ELSE 0
  BY <1>1, <1>2, <1>4, <1>5 DEF Strategy
<1> QED
  BY <1>1, <1>3, <1>4, <1>5

(* Success, a stall and a prompt keep it: one attempt, then the verifier.    *)
LEMMA SucceedsKeeps == StepInv /\ UNCHANGED stuck /\ (SucceedsOrStalls \/ Prompts) => StepInv'
<1> SUFFICES ASSUME StepInv, UNCHANGED stuck, SucceedsOrStalls \/ Prompts PROVE StepInv'
  OBVIOUS
<1>1. pc = "try" /\ Execute /\ Verify(NextStrategy) /\ UNCHANGED <<strict, found, sslOff>>
  BY DEF SucceedsOrStalls, Prompts
<1>2. /\ network' \in BOOLEAN /\ "abort" \notin faults'
      /\ faults' \subseteq {"abort", "prompt", "retry"}
  <2>1. CASE SucceedsOrStalls
    BY <1>1, <2>1 DEF SucceedsOrStalls, StepInv, NodeTypeOK, StepPlace
  <2>2. CASE Prompts
    BY <1>1, <2>2 DEF Prompts, Diagnosed, StepInv, NodeTypeOK, StepPlace
  <2> QED
    BY <2>1, <2>2
<1>3. ~sslOff' /\ result = "none" /\ NodeTypeOK
  BY <1>1 DEF StepInv, StepPlace
<1>4. /\ tries' \in [Strategy -> 0..3]
      /\ node' \in {"none", "old", "v22"} /\ npm' \in BOOLEAN
      /\ npm => npm'
  BY <1>1, FirstAttempt
<1>5. \A s \in Strategy : IF s <= at THEN tries'[s] \in 1..2 ELSE tries'[s] = 0
  BY <1>1, FirstAttempt DEF Strategy
<1>6. /\ pc' \in {"try", "pass2", "post", "done"} /\ at' \in Strategy
      /\ result' \in {"none", "err"}
      /\ Progress' /\ StepPlace' /\ OkIsVerified' /\ TriedAll'
  BY <1>1, <1>2, <1>3, <1>4, <1>5, AfterAttempt
<1>7. NodeTypeOK'
  BY <1>1, <1>2, <1>3, <1>4, <1>6 DEF NodeTypeOK
<1>8. SslOwed'
  BY <1>1, <1>4 DEF StepInv, SslOwed
<1> QED
  BY <1>6, <1>7, <1>8 DEF StepInv

(* A full disk keeps it: the failure is owed to it. *)
LEMMA AbortsKeeps == StepInv /\ UNCHANGED stuck /\ Aborts => StepInv'
<1> SUFFICES ASSUME StepInv, UNCHANGED stuck, Aborts PROVE StepInv'
  OBVIOUS
<1>1. /\ pc = "try" /\ Execute /\ pc' = "done" /\ result' = "err"
      /\ "abort" \in faults' /\ faults' = faults \cup {"abort"}
      /\ network' \in BOOLEAN /\ UNCHANGED <<strict, found, at, sslOff>>
  BY DEF Aborts, Finish, Diagnosed, StepInv, NodeTypeOK
<1>2. /\ tries' \in [Strategy -> 0..3]
      /\ node' \in {"none", "old", "v22"} /\ npm' \in BOOLEAN
  BY <1>1, FirstAttempt
<1>3. NodeTypeOK'
  BY <1>1, <1>2 DEF StepInv, NodeTypeOK
<1>4. Progress' /\ StepPlace' /\ SslOwed'
  BY <1>1, <1>2 DEF StepInv, Progress, TriesAt, StepPlace, SslOwed
<1>5. OkIsVerified' /\ TriedAll'
  BY <1>1, <1>2 DEF OkIsVerified, TriedAll
<1> QED
  BY <1>3, <1>4, <1>5 DEF StepInv

(* A failure that is retried keeps it: either the verifier is content, or the *)
(* same strategy is due again, perhaps owing strict-ssl.                      *)
LEMMA FailsKeeps == StepInv /\ UNCHANGED stuck /\ Fails => StepInv'
<1> SUFFICES ASSUME StepInv, UNCHANGED stuck, Fails PROVE StepInv'
  OBVIOUS
<1>1. /\ pc = "try" /\ Execute
      /\ IF Verified(node') THEN pc' = "post" ELSE pc' = "retry"
      /\ UNCHANGED <<found, at, result>>
  BY DEF Fails, Verify
<1>2. PICK category \in Category :
        /\ Policy(category) = "retry" /\ Diagnosed(category)
        /\ IF Verified(node')
           THEN /\ IF DisablesSsl(category) THEN SetStrict(TRUE) ELSE UNCHANGED strict
                /\ UNCHANGED sslOff
           ELSE /\ sslOff' = DisablesSsl(category)
                /\ IF DisablesSsl(category) THEN SetStrict(FALSE) ELSE UNCHANGED strict
  BY DEF Fails
<1>3. /\ network' \in BOOLEAN /\ faults' = faults \cup {"retry"}
  BY <1>2 DEF Diagnosed, StepInv, NodeTypeOK
<1>4. /\ tries' \in [Strategy -> 0..3]
      /\ node' \in {"none", "old", "v22"} /\ npm' \in BOOLEAN
      /\ npm => npm'
      /\ \A s \in Strategy : IF s < at THEN tries'[s] \in 1..2
                            ELSE tries'[s] = IF s = at THEN 1 ELSE 0
  BY <1>1, FirstAttempt
<1>5. ~sslOff /\ result = "none" /\ (found => strict) /\ "abort" \notin faults
  BY <1>1 DEF StepInv, StepPlace, SslOwed
<1>6. strict' \in BOOLEAN /\ sslOff' \in BOOLEAN
  BY <1>2, <1>4 DEF StepInv, NodeTypeOK, SetStrict, DisablesSsl
<1>7. NodeTypeOK'
  BY <1>1, <1>3, <1>4, <1>5, <1>6 DEF StepInv, NodeTypeOK
<1>8. Progress'
  BY <1>1, <1>4, <1>7 DEF Progress, TriesAt, Strategy, StepInv, NodeTypeOK
<1>9. StepPlace'
  BY <1>1, <1>2, <1>3, <1>5 DEF StepPlace, Verified
<1>10. SslOwed'
  BY <1>1, <1>2, <1>4, <1>5 DEF SslOwed, SetStrict
<1>11. OkIsVerified' /\ TriedAll'
  BY <1>1, <1>5, <1>7 DEF OkIsVerified, TriedAll, NodeTypeOK
<1> QED
  BY <1>7, <1>8, <1>9, <1>10, <1>11 DEF StepInv

(* The retry keeps it: what it owed is put back before anything is decided.  *)
LEMMA RetryKeeps == StepInv /\ UNCHANGED stuck /\ Retry => StepInv'
<1> SUFFICES ASSUME StepInv, UNCHANGED stuck, Retry PROVE StepInv'
  OBVIOUS
<1>1. /\ pc = "retry" /\ Execute /\ Restore /\ sslOff' = FALSE
      /\ Verify(NextStrategy) /\ UNCHANGED <<network, found, faults>>
  BY DEF Retry
<1>2. at \in Strategy /\ NodeTypeOK /\ result = "none" /\ "abort" \notin faults
  BY <1>1 DEF StepInv, NodeTypeOK, StepPlace
<1>3. \A s \in Strategy : IF s < at THEN tries[s] \in 1..2
                       ELSE tries[s] = IF s = at THEN 1 ELSE 0
  BY <1>1 DEF StepInv, Progress, TriesAt
<1>4. tries[at] = 1
  BY <1>2, <1>3 DEF Strategy
<1>5. /\ tries' \in [Strategy -> 0..3] /\ tries'[at] = 2
      /\ node' \in {"none", "old", "v22"} /\ npm' \in BOOLEAN
      /\ npm => npm'
      /\ \A s \in Strategy \ {at} : tries'[s] = tries[s]
  BY <1>1, <1>2, <1>4, ExecuteEffect
<1>6. ASSUME NEW s \in Strategy
      PROVE IF s <= at THEN tries'[s] \in 1..2 ELSE tries'[s] = 0
  BY <1>2, <1>3, <1>5, <1>6 DEF Strategy
<1>7. network' \in BOOLEAN
  BY <1>1, <1>2 DEF NodeTypeOK
<1>8. /\ pc' \in {"try", "pass2", "post", "done"} /\ at' \in Strategy
      /\ result' \in {"none", "err"}
      /\ Progress' /\ StepPlace' /\ OkIsVerified' /\ TriedAll'
  BY <1>1, <1>2, <1>5, <1>6, <1>7, AfterAttempt
<1>9. NodeTypeOK'
  BY <1>1, <1>2, <1>5, <1>7, <1>8 DEF NodeTypeOK, Restore, SetStrict
<1>10. SslOwed'
  BY <1>1, <1>2, <1>5 DEF StepInv, SslOwed, Restore, SetStrict, NodeTypeOK
<1> QED
  BY <1>8, <1>9, <1>10 DEF StepInv

(* The second pass keeps it. *)
LEMMA SecondPassKeeps == StepInv /\ UNCHANGED stuck /\ SecondPass => StepInv'
<1> SUFFICES ASSUME StepInv, UNCHANGED stuck, SecondPass PROVE StepInv'
  OBVIOUS
<1>1. /\ pc = "pass2" /\ Execute /\ Verify(Again)
      /\ UNCHANGED <<strict, found, sslOff, network, faults>>
  BY DEF SecondPass
<1>2. /\ at \in Strategy /\ NodeTypeOK /\ result = "none" /\ "abort" \notin faults
      /\ network /\ N > 1 /\ ~sslOff
  BY <1>1 DEF StepInv, NodeTypeOK, StepPlace
<1>3. \A s \in Strategy : IF s < at THEN tries[s] \in 2..3 ELSE tries[s] \in 1..2
  BY <1>1 DEF StepInv, Progress, TriesAt
<1>4. tries[at] \in 1..2
  BY <1>2, <1>3 DEF Strategy
<1>5. /\ tries' \in [Strategy -> 0..3] /\ tries'[at] = tries[at] + 1
      /\ node' \in {"none", "old", "v22"} /\ npm' \in BOOLEAN
      /\ npm => npm'
      /\ \A s \in Strategy \ {at} : tries'[s] = tries[s]
  BY <1>1, <1>2, <1>4, ExecuteEffect
<1>6. ASSUME NEW s \in Strategy
      PROVE IF s <= at THEN tries'[s] \in 2..3 ELSE tries'[s] \in 1..2
  BY <1>2, <1>3, <1>4, <1>5, <1>6 DEF Strategy
<1>7. SslOwed'
  BY <1>1, <1>2 DEF StepInv, SslOwed
<1> USE StrategyAssumption
<1>8. CASE pc' = "post" /\ node' = "v22" /\ at' = at /\ result' = result
  <2>1. NodeTypeOK'
    BY <1>1, <1>2, <1>5, <1>8 DEF NodeTypeOK, Verify
  <2>2. Progress' /\ StepPlace' /\ OkIsVerified' /\ TriedAll'
    BY <1>1, <1>2, <1>8, <2>1 DEF NodeTypeOK, Progress, TriesAt, StepPlace, OkIsVerified, TriedAll
  <2> QED
    BY <1>7, <2>1, <2>2 DEF StepInv
<1>9. CASE pc' = "pass2" /\ at < N /\ at' = at + 1 /\ result' = result
  <2>1. NodeTypeOK'
    BY <1>1, <1>2, <1>5, <1>9 DEF NodeTypeOK, Verify, Strategy
  <2>2. Progress'
    BY <1>2, <1>6, <1>9 DEF Progress, TriesAt, Strategy
  <2>3. StepPlace' /\ OkIsVerified' /\ TriedAll'
    BY <1>1, <1>2, <1>9, <2>1 DEF NodeTypeOK, StepPlace, OkIsVerified, TriedAll
  <2> QED
    BY <1>7, <2>1, <2>2, <2>3 DEF StepInv
<1>10. CASE pc' = "done" /\ at = N /\ at' = at /\ result' = "err"
  <2>1. NodeTypeOK'
    BY <1>1, <1>2, <1>5, <1>10 DEF NodeTypeOK, Verify
  <2>2. \A s \in Strategy : tries'[s] \in 2..3
    BY <1>6, <1>10 DEF Strategy
  <2>3. Progress' /\ StepPlace' /\ OkIsVerified' /\ TriedAll'
    BY <1>1, <1>2, <1>10, <2>2 DEF Progress, TriesAt, StepPlace, OkIsVerified, TriedAll
  <2> QED
    BY <1>7, <2>1, <2>3 DEF StepInv
<1> QED
  BY <1>1, <1>2, <1>8, <1>9, <1>10 DEF Verify, Verified, Again, Finish, Strategy

(* The repair of npm keeps it. *)
LEMMA PostKeeps == StepInv /\ UNCHANGED stuck /\ Post => StepInv'
<1> SUFFICES ASSUME StepInv, UNCHANGED stuck, Post PROVE StepInv'
  OBVIOUS
<1>1. /\ pc = "post" /\ pc' = "done" /\ result' \in {"ok", "err"} /\ npm' \in BOOLEAN
      /\ (result' = "ok" => npm')
      /\ UNCHANGED <<node, strict, found, at, sslOff, network, tries, faults>>
  BY DEF Post, Finish, StepInv, NodeTypeOK
<1>2. node = "v22" /\ node' = "v22" /\ ~sslOff /\ (found => strict)
  BY <1>1 DEF StepInv, StepPlace, SslOwed
<1>3. NodeTypeOK'
  BY <1>1 DEF StepInv, NodeTypeOK
<1>4. Progress' /\ StepPlace' /\ SslOwed'
  BY <1>1, <1>2 DEF StepInv, NodeTypeOK, Progress, TriesAt, StepPlace, SslOwed
<1>5. OkIsVerified' /\ TriedAll'
  BY <1>1, <1>2, <1>3 DEF OkIsVerified, TriedAll, NodeTypeOK
<1> QED
  BY <1>3, <1>4, <1>5 DEF StepInv

(* Every step of the specification keeps it. *)
LEMMA StepNext == StepInv /\ [NodeNext]_nodevars => StepInv'
<1> SUFFICES ASSUME StepInv, [NodeNext]_nodevars PROVE StepInv'
  OBVIOUS
<1>1. CASE UNCHANGED nodevars \/ Hang \/ Done
  <2>1. UNCHANGED <<node, npm, strict, found, pc, at, sslOff, network, tries, faults, result>>
        /\ stuck' \in BOOLEAN
    BY <1>1 DEF Hang, Done, nodevars, world, StepInv, NodeTypeOK
  <2> QED
    BY <2>1 DEF StepInv, NodeTypeOK, Progress, TriesAt, StepPlace, SslOwed, OkIsVerified, TriedAll
<1> QED
  BY <1>1, CheckKeeps, SucceedsKeeps, AbortsKeeps, FailsKeeps, RetryKeeps,
     SecondPassKeeps, PostKeeps DEF NodeNext, StepOn, ChainStep

-----------------------------------------------------------------------------
(* The invariant holds in every reachable state. *)
THEOREM StepInvariant == NodeSpec => []StepInv
  BY StepInit, StepNext, PTL DEF NodeSpec

(* The state of the step keeps its types; no strategy is run a fourth time.  *)
THEOREM StepTypes == NodeSpec => []NodeTypeOK
<1>1. StepInv => NodeTypeOK
  BY DEF StepInv
<1> QED
  BY <1>1, StepInvariant, PTL

(* deploy_step_check_node reports success only with Node 22 on the machine,  *)
(* and after a chain only with npm.                                          *)
THEOREM StepIsVerified == NodeSpec => []OkIsVerified
<1>1. StepInv => OkIsVerified
  BY DEF StepInv
<1> QED
  BY <1>1, StepInvariant, PTL

(* Except while a retry is running, npm checks certificates at least as      *)
(* strictly as it did before the step.                                       *)
THEOREM StepRestoresSsl == NodeSpec => []SslRestored
<1>1. StepInv => SslRestored
  BY DEF StepInv, SslOwed, SslRestored
<1> QED
  BY <1>1, StepInvariant, PTL

(* A chain that gives up has run every strategy, twice if the network failed *)
(* and there is more than one, unless the disk is full.                       *)
THEOREM StepTriesAll == NodeSpec => []TriedAll
<1>1. StepInv => TriedAll
  BY DEF StepInv
<1> QED
  BY <1>1, StepInvariant, PTL

-----------------------------------------------------------------------------
(* The watchdog. *)

(* The flag is up before the signal is sent, and what the caller reports is   *)
(* fixed once the shell has been waited for.                                 *)
Flagged == /\ dog \in {"kill", "over"} => killed
           /\ exit = "signal" => killed
           /\ shell = "running" => exit = "none"
           /\ main # "wait" => shell = "reaped"
           /\ verdict # "none" => main = "done"
           /\ verdict = "completed" => exit # "signal"

(* While lines are read, what was written is in the buffers or in the pipe;   *)
(* a caller that has its result left no writer behind.                       *)
Accounted == /\ lines + unread[1] <= written
             /\ reader = "on" /\ ~unread[2] => lines + unread[1] = written
             /\ verdict # "none" /\ reader = "on" =>
                  unread = <<0, FALSE>> /\ shell # "running" /\ Holders = {}

DogInv == WatchTypeOK /\ Flagged /\ Accounted

LEMMA DogInit == WatchInit => DogInv
<1> SUFFICES ASSUME WatchInit PROVE DogInv
  OBVIOUS
<1>1. WatchTypeOK
  <2>1. 0 \in 0..MaxLine /\ 0 \in 0..Stall
    BY StallAssumption
  <2>2. unread \in (0..MaxLine) \X BOOLEAN
    BY <2>1 DEF WatchInit
  <2> QED
    BY <2>1, <2>2 DEF WatchInit, WatchTypeOK
<1>2. Flagged /\ Accounted
  BY DEF WatchInit, Flagged, Accounted
<1> QED
  BY <1>1, <1>2 DEF DogInv

LEMMA DogNext == DogInv /\ [WatchNext]_watchvars => DogInv'
<1> SUFFICES ASSUME DogInv, [WatchNext]_watchvars PROVE DogInv'
  OBVIOUS
<1> USE DEF DogInv
<1>1. CASE \E k \in Kin : Fork(k)
  <2>1. PICK k \in Kin : Fork(k)
    BY <1>1
  <2>2. WatchTypeOK' /\ Flagged'
    BY <2>1 DEF Fork, pipeVars, WatchTypeOK, Flagged
  <2>3. Accounted'
    BY <2>1 DEF Fork, pipeVars, WatchTypeOK, Accounted
  <2> QED
    BY <2>2, <2>3
<1>2. CASE \E k \in Kin : KinEnds(k)
  <2>1. PICK k \in Kin : KinEnds(k)
    BY <1>2
  <2>2. WatchTypeOK' /\ Flagged'
    BY <2>1 DEF KinEnds, pipeVars, WatchTypeOK, Flagged
  <2>3. Holders' \subseteq Holders
    BY <2>1 DEF KinEnds, Holders, WatchTypeOK
  <2>4. Accounted'
    BY <2>1, <2>3 DEF KinEnds, pipeVars, Accounted
  <2> QED
    BY <2>2, <2>4
<1>3. CASE Exit \/ Kill
  <2>1. Orphaned \in [Kin -> {"none", "child", "orphan", "gone"}]
    BY DEF Orphaned, WatchTypeOK
  <2>2. WatchTypeOK'
    BY <1>3, <2>1 DEF Exit, Kill, procVars, pipeVars, WatchTypeOK
  <2>3. Flagged'
    BY <1>3 DEF Exit, Kill, procVars, pipeVars, WatchTypeOK, Flagged
  <2>4. Holders' = Holders
    BY <1>3 DEF Exit, Kill, procVars, Orphaned, Holders, WatchTypeOK
  <2>5. Accounted'
    BY <1>3, <2>4 DEF Exit, Kill, procVars, pipeVars, WatchTypeOK, Accounted
  <2> QED
    BY <2>2, <2>3, <2>5
<1>4. CASE Write
  <2>1. /\ shell = "running" \/ Holders # {}
        /\ written \in Nat /\ written < MaxLine /\ written' = written + 1 /\ MaxLine \in Nat
        /\ UNCHANGED <<shell, exit, kin, lines, reader, quiet, dog, killed, main, verdict>>
        /\ unread \in (0..MaxLine) \X BOOLEAN /\ lines \in 0..MaxLine
    BY <1>4, StallAssumption DEF Write, procVars, WatchTypeOK
  <2>2. \/ unread' = unread /\ unread[2]
        \/ unread' = <<unread[1] + 1, FALSE>> /\ ~unread[2]
        \/ unread' = <<unread[1], TRUE>>
    BY <1>4 DEF Write
  <2>3. lines + unread[1] <= written
    BY DEF Accounted
  <2>4. /\ unread'[1] \in 0..MaxLine /\ unread' \in (0..MaxLine) \X BOOLEAN
        /\ lines + unread'[1] <= written'
    <3>1. unread[1] \in 0..MaxLine /\ unread[2] \in BOOLEAN /\ unread = <<unread[1], unread[2]>>
      BY <2>1
    <3>2. unread'[1] \in {unread[1], unread[1] + 1} /\ unread' = <<unread'[1], unread'[2]>>
          /\ unread'[2] \in BOOLEAN
      <4>1. CASE unread' = unread
        BY <3>1, <4>1
      <4>2. CASE unread' = <<unread[1] + 1, FALSE>>
        BY <4>2
      <4>3. CASE unread' = <<unread[1], TRUE>>
        BY <4>3
      <4> QED
        BY <2>2, <4>1, <4>2, <4>3
    <3>3. unread'[1] \in 0..MaxLine /\ lines + unread'[1] <= written'
      BY <2>1, <2>3, <3>1, <3>2
    <3> QED
      BY <3>2, <3>3
  <2>5. WatchTypeOK'
    BY <2>1, <2>4 DEF WatchTypeOK
  <2>6. Flagged'
    BY <2>1 DEF Flagged
  <2>7. ~(verdict # "none" /\ reader = "on")
    BY <2>1 DEF Accounted
  <2>8. reader = "on" /\ ~unread'[2] => lines + unread'[1] = written'
    <3>1. CASE unread' = <<unread[1] + 1, FALSE>> /\ ~unread[2]
      <4>1. unread'[1] = unread[1] + 1 /\ unread[1] \in 0..MaxLine
        BY <2>1, <3>1
      <4>2. reader = "on" => lines + unread[1] = written
        BY <3>1 DEF Accounted
      <4> QED
        BY <2>1, <4>1, <4>2
    <3>2. CASE unread' = <<unread[1], TRUE>> \/ (unread' = unread /\ unread[2])
      <4>1. CASE unread' = <<unread[1], TRUE>>
        <5>1. unread'[2] = TRUE
          BY <4>1
        <5> QED
          BY <5>1
      <4> QED
        BY <3>2, <4>1
    <3> QED
      BY <2>2, <3>1, <3>2
  <2>9. Accounted'
    BY <2>1, <2>4, <2>7, <2>8 DEF Accounted
  <2> QED
    BY <2>5, <2>6, <2>9
<1>5. CASE ReadLine
  <2>1. /\ reader = "on"
        /\ UNCHANGED <<shell, exit, kin, written, dog, killed, main, verdict>>
        /\ unread \in (0..MaxLine) \X BOOLEAN /\ lines \in 0..MaxLine
        /\ written \in 0..MaxLine /\ MaxLine \in Nat /\ Stall \in Nat
        /\ lines + unread[1] <= written
    BY <1>5, StallAssumption DEF ReadLine, procVars, WatchTypeOK, Accounted
  <2>2. CASE /\ unread[1] > 0 /\ unread' = [unread EXCEPT ![1] = @ - 1]
             /\ lines' = lines + 1 /\ quiet' = 0 /\ reader' = reader
    <3>1. unread'[1] = unread[1] - 1 /\ unread'[2] = unread[2]
          /\ unread' \in (0..MaxLine) \X BOOLEAN
      BY <2>1, <2>2
    <3>2. lines' \in 0..MaxLine /\ lines' + unread'[1] = lines + unread[1]
      BY <2>1, <2>2, <3>1
    <3>3. verdict = "none"
      <4>1. ASSUME unread = <<0, FALSE>> PROVE FALSE
        <5>1. unread[1] = 0
          BY <4>1
        <5> QED
          BY <2>2, <5>1
      <4> QED
        BY <2>1, <4>1 DEF Accounted
    <3>4. WatchTypeOK' /\ Flagged'
      BY <2>1, <2>2, <3>1, <3>2 DEF WatchTypeOK, Flagged
    <3>5. Accounted'
      BY <2>1, <2>2, <3>1, <3>2, <3>3 DEF Accounted
    <3> QED
      BY <3>4, <3>5
  <2>3. CASE reader' = "off" /\ UNCHANGED <<unread, lines, quiet>>
    BY <2>1, <2>3 DEF WatchTypeOK, Flagged, Accounted
  <2> QED
    BY <1>5, <2>2, <2>3 DEF ReadLine
<1>6. CASE Seconds \/ Look \/ CheckChildren \/ Flag
  <2>1. UNCHANGED <<shell, exit, kin, written, unread, lines, reader, main, verdict>>
    BY <1>6 DEF Seconds, Look, CheckChildren, Flag, procVars, pipeVars
  <2>2. quiet' \in 0..Stall
    BY <1>6, StallAssumption DEF Seconds, AtMost, Look, CheckChildren, Flag, WatchTypeOK
  <2>3. /\ dog' \in {"sleep", "children", "flag", "kill", "over"} /\ killed' \in BOOLEAN
        /\ killed => killed'
        /\ dog' \in {"kill", "over"} => killed'
    BY <1>6 DEF Seconds, Look, CheckChildren, Resumes, Flag, WatchTypeOK, Flagged
  <2>4. WatchTypeOK' /\ Flagged'
    BY <2>1, <2>2, <2>3 DEF WatchTypeOK, Flagged
  <2>5. Accounted'
    BY <2>1 DEF Accounted, Holders
  <2> QED
    BY <2>4, <2>5
<1>7. CASE Wait
  BY <1>7 DEF Wait, pipeVars, WatchTypeOK, Flagged, Accounted, Holders
<1>8. CASE Drain
  <2>1. /\ main = "drain" /\ main' = "done" /\ ReadersDone
        /\ verdict' = IF killed THEN "stalled" ELSE "completed"
        /\ UNCHANGED <<shell, exit, kin, written, unread, lines, reader, quiet, dog, killed>>
    BY <1>8 DEF Drain, procVars, pipeVars
  <2>2. WatchTypeOK'
    BY <2>1 DEF WatchTypeOK
  <2>3. Flagged'
    BY <2>1 DEF Flagged
  <2>4. Accounted'
    BY <2>1 DEF Accounted, ReadersDone, Holders
  <2> QED
    BY <2>2, <2>3, <2>4
<1>9. CASE Returned \/ UNCHANGED watchvars
  BY <1>9 DEF Returned, watchvars, procVars, pipeVars, WatchTypeOK, Flagged, Accounted, Holders
<1> QED
  BY <1>1, <1>2, <1>3, <1>4, <1>5, <1>6, <1>7, <1>8, <1>9 DEF WatchNext, DogStep

LEMMA DogInvariant == WatchSpec => []DogInv
  BY DogInit, DogNext, PTL DEF WatchSpec

(* A command that the watchdog killed is reported as stalled, although the    *)
(* caller's wait() returns while the watchdog task still runs.                *)
THEOREM KilledIsStalled == WatchSpec => []KillIsReported
<1>1. DogInv => KillIsReported
  BY DEF DogInv, WatchTypeOK, Flagged, KillIsReported
<1> QED
  BY <1>1, DogInvariant, PTL

(* The result holds every line the command's processes wrote, unless the      *)
(* readers met one they cannot decode.                                       *)
THEOREM ResultHasAllLines == WatchSpec => []OutputIsComplete
<1>1. DogInv => OutputIsComplete
  <2> SUFFICES ASSUME DogInv, verdict # "none", reader = "on"
               PROVE  unread[1] = 0 /\ lines = written
    BY DEF OutputIsComplete
  <2>1. unread = <<0, FALSE>>
    BY DEF DogInv, Accounted
  <2>2. unread[1] = 0 /\ ~unread[2]
    BY <2>1
  <2>3. lines + unread[1] = written /\ lines \in 0..MaxLine
    BY <2>2 DEF DogInv, Accounted, WatchTypeOK
  <2> QED
    BY <2>2, <2>3
<1> QED
  BY <1>1, DogInvariant, PTL

-----------------------------------------------------------------------------
(* The four commands side by side. *)

CommandsInv == /\ PairInv /\ TypeOK /\ Told /\ Alone
               /\ StepInv /\ DogInv /\ GatewayInv

(* The state of every command keeps its types, whichever of them runs.        *)
THEOREM CommandsKeepTypes == CommandsSpec => []CommandsTypes
<1>1. CommandsInit => CommandsInv
  BY PairFull, StepInit, DogInit, IInit DEF CommandsInit, CommandsInv
<1>2. [CommandsNext]_<<which, vars, nodevars, watchvars, gatevars>> =>
        [Next]_vars /\ [NodeNext]_nodevars /\ [WatchNext]_watchvars /\ [GatewayNext]_gatevars
  BY DEF CommandsNext
<1>3. CommandsInv /\ [CommandsNext]_<<which, vars, nodevars, watchvars, gatevars>> => CommandsInv'
  BY <1>2, PairFullNext, StepNext, DogNext, INext DEF CommandsInv
<1>4. CommandsInv => CommandsTypes
  BY DEF CommandsInv, StepInv, DogInv, GatewayInv, Types, Calls, Plan, GatewayTypeOK,
         CommandsTypes
<1> QED
  BY <1>1, <1>3, <1>4, PTL DEF CommandsSpec
=============================================================================
