------------------------- MODULE DeployPagesProofs --------------------------
(***************************************************************************)
(* Theorems about the pages that deploy and watch over gateways, for any   *)
(* number of visits, hosts, addresses, instances and calls in flight.      *)
(*                                                                         *)
(* What a busy control waits for is one handler of the visit on show; that *)
(* handler is found again after a page was left because no handler belongs *)
(* to a visit that is still to come.                                       *)
(***************************************************************************)
EXTENDS MCDeployPages, FiniteSetTheorems, TLAPS

-----------------------------------------------------------------------------
(* The desktop's deploy page. *)

Kinds == {"idle", "scan", "run", "manual", "hung"}

DeployInv == /\ dvisit \in Visit /\ deploying \in BOOLEAN
             /\ runner = [v \in Visit |-> runner[v]]
             /\ \A v \in Visit : /\ runner[v].kind \in Kinds
                                 /\ v > dvisit => runner[v].kind = "idle"
             /\ DeployingIsBusy
             /\ dinst \in [{"local", "remote"} -> {"none", "offline", "online"}]
             /\ OnlineWasStarted
             /\ Start \notin installed /\ Start \notin manual.done

(* The handler of one visit changes, and what the page shows follows it. *)
Moves(v, r) == /\ r.kind \in Kinds /\ runner' = [runner EXCEPT ![v] = r] /\ dvisit' = dvisit
               /\ deploying' = IF v = dvisit THEN r.kind # "idle" ELSE deploying

(* A visit whose handler changes keeps what is shown in step with it. *)
LEMMA RunnerMoves ==
  ASSUME DeployInv, NEW v \in Visit, v <= dvisit, NEW r, Moves(v, r)
  PROVE  /\ deploying' \in BOOLEAN
         /\ runner' = [w \in Visit |-> runner'[w]]
         /\ \A w \in Visit : /\ runner'[w].kind \in Kinds
                             /\ w > dvisit => runner'[w].kind = "idle"
         /\ DeployingIsBusy'
<1>1. /\ runner'[v] = r /\ \A w \in Visit \ {v} : runner'[w] = runner[w]
      /\ runner' = [w \in Visit |-> runner'[w]]
  BY DEF DeployInv, Moves
<1>2. dvisit \in Nat /\ \A w \in Visit : w \in Nat
  BY DeployAssumption DEF DeployInv, Visit
<1>3. \A w \in Visit : runner'[w].kind \in Kinds /\ (w > dvisit => runner'[w].kind = "idle")
  BY <1>1, <1>2 DEF DeployInv, Moves
<1>4. deploying' \in BOOLEAN /\ DeployingIsBusy'
  BY <1>1 DEF DeployInv, DeployingIsBusy, MyRunner, Moves
<1> QED
  BY <1>1, <1>3, <1>4

(* A handler that is in flight belongs to the visit on show or an older one.  *)
LEMMA InFlightIsOld ==
  ASSUME DeployInv, NEW v \in Visit, runner[v].kind # "idle"
  PROVE  v <= dvisit
BY DeployAssumption DEF DeployInv, Visit

(* The record of an instance follows its gateway. *)
LEMMA RegisterKeeps ==
  ASSUME DeployInv, NEW mode, NEW i, dinst' = Registers(mode, i), Takes(mode, i)
  PROVE  /\ dinst' \in [{"local", "remote"} -> {"none", "offline", "online"}]
         /\ OnlineWasStarted' /\ Start \notin installed'
<1>1. dinst' \in [{"local", "remote"} -> {"none", "offline", "online"}]
  BY DEF DeployInv, Registers
<1>2. started \subseteq started' /\ (i = Length(mode) => mode \in started')
  BY DEF Takes
<1>3. OnlineWasStarted'
  BY <1>1, <1>2 DEF DeployInv, Registers, OnlineWasStarted
<1>4. Start \notin installed'
  BY DeployAssumption DEF DeployInv, Takes, Start
<1> QED
  BY <1>1, <1>3, <1>4

LEMMA DeployInit == DInit => DeployInv
<1> SUFFICES ASSUME DInit PROVE DeployInv
  OBVIOUS
<1>1. 1 \in Visit
  BY DeployAssumption DEF Visit
<1>2. Start \notin installed
  BY DeployAssumption DEF DInit, Start
<1> QED
  BY <1>1, <1>2 DEF DInit, DeployInv, Kinds, Idle, DeployingIsBusy, MyRunner, OnlineWasStarted

LEMMA DeployNext == DeployInv /\ [DNext]_dvars => DeployInv'
<1> SUFFICES ASSUME DeployInv, [DNext]_dvars PROVE DeployInv'
  OBVIOUS
<1> DEFINE World == /\ dinst' \in [{"local", "remote"} -> {"none", "offline", "online"}]
                    /\ OnlineWasStarted'
                    /\ Start \notin installed' /\ Start \notin manual'.done
<1>1. ASSUME UNCHANGED <<dvisit, deploying, runner>>, World PROVE DeployInv'
  BY <1>1 DEF DeployInv, DeployingIsBusy, MyRunner
<1>2. ASSUME UNCHANGED <<dinst, started, installed, manual>> PROVE World
  BY <1>2 DEF DeployInv, OnlineWasStarted
<1>3. ASSUME NEW v \in Visit, v <= dvisit, NEW r, Moves(v, r), World
      PROVE  DeployInv'
  BY <1>3, RunnerMoves DEF DeployInv, Moves
<1> HIDE DEF World
<1>4. CASE \/ Toggle \/ Progress \/ (\E m \in {"local", "remote"} : Reset(m))
           \/ (\E v \in Visit, phase \in {"ok", "fail"} : OllamaDone(v, phase))
           \/ (\E v \in Visit : PrepareFails(v))
  <2>1. UNCHANGED <<dvisit, deploying, runner, dinst, started, installed, manual>>
    BY <1>4 DEF Toggle, Progress, Reset, OllamaDone, PrepareFails
  <2> QED
    BY <1>1, <1>2, <2>1
<1>5. ASSUME NEW v \in Visit, Prepared(v) PROVE DeployInv'
  <2>1. /\ UNCHANGED <<dvisit, deploying, runner, dinst, started, installed>>
        /\ manual' = manual \/ manual'.done = installed
    BY <1>5 DEF Prepared
  <2>2. World
    BY <2>1 DEF World, DeployInv, OnlineWasStarted
  <2> QED
    BY <1>1, <2>1, <2>2
<1>6. CASE LocalDeploy \/ RemoteDeploy \/ \E i \in 1 .. Start : ExecuteStep(i)
  <2> DEFINE scan == [Idle EXCEPT !.kind = "scan"]
             run == [kind |-> "run", at |-> 1, call |-> 1, mode |-> "remote"]
             manualAt(i) == [kind |-> "manual", at |-> i, call |-> 0, mode |-> "local"]
  <2>1. World
    BY <1>2, <1>6 DEF LocalDeploy, RemoteDeploy, Begin, ExecuteStep
  <2>2. dvisit \in Visit /\ dvisit <= dvisit
    BY DeployAssumption DEF DeployInv, Visit
  <2>3. CASE LocalDeploy
    <3>1. Moves(dvisit, scan)
      BY <2>3 DEF LocalDeploy, Moves, Idle, Kinds
    <3> QED
      BY <1>3, <2>1, <2>2, <3>1
  <2>4. CASE RemoteDeploy
    <3>1. Moves(dvisit, run)
      BY <2>4 DEF RemoteDeploy, Begin, Awaits, Moves, Kinds
    <3> QED
      BY <1>3, <2>1, <2>2, <3>1
  <2>5. ASSUME NEW i \in 1 .. Start, ExecuteStep(i) PROVE DeployInv'
    <3>1. Moves(dvisit, manualAt(i))
      BY <2>5 DEF ExecuteStep, Moves, Kinds
    <3> QED
      BY <1>3, <2>1, <2>2, <3>1
  <2> QED
    BY <1>6, <2>3, <2>4, <2>5
<1>7. ASSUME NEW v \in Visit, ScanDone(v) \/ ScanFails(v) PROVE DeployInv'
  <2> DEFINE r == [kind |-> "run", at |-> StartFrom, call |-> 1, mode |-> "local"]
  <2>1. World /\ v <= dvisit
    BY <1>2, <1>7, InFlightIsOld DEF ScanDone, ScanFails
  <2>2. CASE ScanDone(v)
    <3>1. Moves(v, r)
      BY <2>2 DEF ScanDone, Begin, Awaits, Moves, Kinds
    <3> QED
      BY <1>3, <2>1, <3>1
  <2>3. CASE ScanFails(v)
    <3>1. Moves(v, Idle)
      BY <2>3 DEF ScanFails, Idle, Moves, Kinds
    <3> QED
      BY <1>3, <2>1, <3>1
  <2> QED
    BY <1>7, <2>2, <2>3
<1>8. ASSUME NEW v \in Visit, StepOk(v) PROVE DeployInv'
  <2> DEFINE r == [kind |-> "run", at |-> runner[v].at + 1, call |-> 1, mode |-> runner[v].mode]
  <2>1. v <= dvisit /\ manual' = manual
    BY <1>8, InFlightIsOld DEF StepOk
  <2>2. World
    BY <1>8, <2>1, RegisterKeeps DEF StepOk, World, DeployInv
  <2>3. v = dvisit => deploying = TRUE
    BY <1>8 DEF StepOk, DeployInv, DeployingIsBusy, MyRunner
  <2>4. CASE runner[v].at < Length(runner[v].mode)
    <3>1. Moves(v, r)
      BY <1>8, <2>3, <2>4 DEF StepOk, Awaits, Moves, Kinds
    <3> QED
      BY <1>3, <2>1, <2>2, <3>1
  <2>5. CASE ~(runner[v].at < Length(runner[v].mode))
    <3>1. Moves(v, Idle)
      BY <1>8, <2>5 DEF StepOk, Idle, Moves, Kinds
    <3> QED
      BY <1>3, <2>1, <2>2, <3>1
  <2> QED
    BY <2>4, <2>5
<1>9. ASSUME NEW v \in Visit, StepFails(v) \/ StepAborts(v) PROVE DeployInv'
  <2> DEFINE r == [kind |-> "run", at |-> runner[v].at, call |-> runner[v].call + 1,
                   mode |-> runner[v].mode]
  <2>1. v <= dvisit /\ UNCHANGED <<started, installed, manual>>
    BY <1>9, InFlightIsOld DEF StepFails, StepAborts
  <2>2. dinst' = dinst \/ dinst' = [dinst EXCEPT !["local"] = "offline"]
    BY <1>9 DEF StepFails, StepAborts
  <2>3. World
    BY <2>1, <2>2 DEF World, DeployInv, OnlineWasStarted
  <2>4. v = dvisit => deploying = TRUE
    BY <1>9 DEF StepFails, StepAborts, DeployInv, DeployingIsBusy, MyRunner
  <2>5. CASE StepFails(v)
    <3>1. Moves(v, r)
      BY <2>4, <2>5 DEF StepFails, Awaits, Moves, Kinds
    <3> QED
      BY <1>3, <2>1, <2>3, <3>1
  <2>6. CASE StepAborts(v)
    <3>1. Moves(v, Idle)
      BY <2>6 DEF StepAborts, AbortShows, Idle, Moves, Kinds
    <3> QED
      BY <1>3, <2>1, <2>3, <3>1
  <2> QED
    BY <1>9, <2>5, <2>6
<1>10. ASSUME NEW v \in Visit, ExecuteOk(v) \/ ExecuteFails(v) PROVE DeployInv'
  <2>1. Moves(v, Idle)
    BY <1>10 DEF ExecuteOk, ExecuteFails, ExecuteEnds, Idle, Kinds, Moves
  <2>2. v <= dvisit /\ manual' = manual
    BY <1>10, InFlightIsOld DEF ExecuteOk, ExecuteFails, ExecuteEnds
  <2>3. CASE ExecuteFails(v)
    BY <1>2, <1>3, <2>1, <2>2, <2>3 DEF ExecuteFails
  <2>4. CASE ExecuteOk(v) /\ Takes("local", runner[v].at)
    <3>1. World
      BY <2>2, <2>4, RegisterKeeps DEF ExecuteOk, World, DeployInv
    <3> QED
      BY <1>3, <2>1, <2>2, <3>1
  <2>5. CASE ExecuteOk(v) /\ runner[v].at \in manual.done /\ UNCHANGED <<installed, started>>
    <3>1. runner[v].at # Start /\ Start = Length("local")
      BY <2>5 DEF DeployInv, Length
    <3>2. dinst' = dinst \/ dinst' = [dinst EXCEPT !["local"] = "offline"]
      BY <2>5, <3>1 DEF ExecuteOk, Registers
    <3>3. World
      BY <2>2, <2>5, <3>2 DEF World, DeployInv, OnlineWasStarted
    <3> QED
      BY <1>3, <2>1, <2>2, <3>3
  <2> QED
    BY <1>10, <2>3, <2>4, <2>5 DEF ExecuteOk
<1>13. ASSUME NEW v \in Visit, Hangs(v) PROVE DeployInv'
  <2> DEFINE r == [Idle EXCEPT !.kind = "hung"]
  <2>1. World /\ v <= dvisit
    BY <1>2, <1>13, InFlightIsOld DEF Hangs, pageVars
  <2>2. v = dvisit => deploying = TRUE
    BY <1>13 DEF Hangs, DeployInv, DeployingIsBusy, MyRunner
  <2>3. r.kind = "hung" /\ runner' = [runner EXCEPT ![v] = r] /\ UNCHANGED <<dvisit, deploying>>
    BY <1>13 DEF Hangs, pageVars, Idle
  <2>4. Moves(v, r)
    BY <2>2, <2>3 DEF Moves, Kinds
  <2> QED
    BY <1>3, <2>1, <2>4
<1>11. CASE Revisit
  <2>1. /\ dvisit' = dvisit + 1 /\ dvisit < MaxVisits /\ deploying' = FALSE
        /\ manual'.done = {} /\ UNCHANGED <<runner, installed, started, dinst>>
    BY <1>11 DEF Revisit
  <2>2. dvisit' \in Visit /\ dvisit' > dvisit /\ \A v \in Visit : v > dvisit' => v > dvisit
    BY <2>1, DeployAssumption DEF DeployInv, Visit
  <2>3. DeployingIsBusy'
    BY <2>1, <2>2 DEF DeployInv, DeployingIsBusy, MyRunner
  <2> QED
    BY <2>1, <2>2, <2>3 DEF DeployInv, OnlineWasStarted
<1>12. CASE UNCHANGED dvars
  BY <1>1, <1>2, <1>12 DEF dvars, pageVars
<1> QED
  BY <1>4, <1>5, <1>6, <1>7, <1>8, <1>9, <1>10, <1>11, <1>12, <1>13 DEF DNext, Returns, HandlerReturns

-----------------------------------------------------------------------------
(* The phone's deploy and security pages. *)

Deploys == {"step", "creds", "pass", "stepHangs"}
Kills == {"readCreds", "readPass", "ssh", "sshHangs"}
PhoneVisit == 1 .. PhoneVisits

(* What a handler between two awaits may rely on. *)
Follows(r, ran, connections, passwords) ==
  /\ r.kind = "step" /\ r.at > BaseSteps => r.host \in ran
  /\ r.kind = "creds" => r.host \in ran
  /\ r.kind = "pass" => r.host \in connections
  /\ r.kind = "ssh" => r.host \in passwords

Handler(r) == /\ r = [kind |-> r.kind, at |-> r.at, host |-> r.host, server |-> r.server]
              /\ r.kind \in {"idle"} \cup Deploys \cup Kills /\ r.at \in Nat

PhoneInv == /\ pvisit \in PhoneVisit
            /\ prun = [v \in PhoneVisit |-> prun[v]]
            /\ \A v \in PhoneVisit : /\ Handler(prun[v]) /\ Follows(prun[v], served, creds, pass)
                                     /\ v > pvisit => prun[v].kind = "idle"
            /\ {pbusy, krunning} \subseteq BOOLEAN
            /\ (pbusy <=> Mine.kind \in Deploys) /\ (krunning <=> Mine.kind \in Kills)
            /\ ppage = "security" => ~pbusy
            /\ ppage = "deploy" => ~krunning
            /\ SecretsFollow

(* The handler of one visit changes, and what the page shows follows it. *)
PhoneMoves(v, r) ==
  /\ Handler(r) /\ prun' = [prun EXCEPT ![v] = r] /\ UNCHANGED <<pvisit, ppage>>
  /\ {pbusy', krunning'} \subseteq BOOLEAN
  /\ IF v = pvisit THEN (pbusy' <=> r.kind \in Deploys) /\ (krunning' <=> r.kind \in Kills)
                   ELSE UNCHANGED <<pbusy, krunning>>

(* A handler goes on as what it was, or ends. *)
SameTask(r, s) == \/ s.kind = "idle"
                  \/ r.kind \in Deploys /\ s.kind \in Deploys
                  \/ r.kind \in Kills /\ s.kind \in Kills

Grow == served \subseteq served' /\ creds \subseteq creds' /\ pass \subseteq pass'

LEMMA PhoneMovesKeeps ==
  ASSUME PhoneInv, NEW v \in PhoneVisit, v <= pvisit, NEW r, PhoneMoves(v, r), Grow,
         Follows(r, served', creds', pass'), SecretsFollow',
         v = pvisit => /\ ppage = "security" => r.kind \notin Deploys
                       /\ ppage = "deploy" => r.kind \notin Kills
  PROVE  PhoneInv'
<1>1. /\ prun'[v] = r /\ \A w \in PhoneVisit \ {v} : prun'[w] = prun[w]
      /\ prun' = [w \in PhoneVisit |-> prun'[w]] /\ pvisit' = pvisit /\ ppage' = ppage
  BY DEF PhoneInv, PhoneMoves
<1>2. Handler(r)' /\ Handler(r)
  BY DEF PhoneMoves, Handler
<1>3. \A w \in PhoneVisit : Handler(prun'[w])
  BY <1>1, <1>2 DEF PhoneInv
<1>4. \A w \in PhoneVisit \ {v} : Follows(prun[w], served, creds, pass)'
  BY <1>1 DEF PhoneInv, Follows, Grow
<1>5. \A w \in PhoneVisit : w > pvisit' => prun'[w].kind = "idle"
  BY <1>1, PhoneAssumption DEF PhoneInv, PhoneVisit
<1>6. /\ {pbusy', krunning'} \subseteq BOOLEAN
      /\ (pbusy <=> Mine.kind \in Deploys)' /\ (krunning <=> Mine.kind \in Kills)'
  BY <1>1 DEF PhoneInv, PhoneMoves, Mine
<1>7. (ppage = "security" => ~pbusy)' /\ (ppage = "deploy" => ~krunning)'
  BY <1>1 DEF PhoneInv, PhoneMoves
<1>8. pvisit' \in PhoneVisit
  BY <1>1 DEF PhoneInv
<1> QED
  BY <1>1, <1>3, <1>4, <1>5, <1>6, <1>7, <1>8 DEF PhoneInv

(* A handler keeps its place and its host when it becomes another kind. *)
LEMMA HandlerTurns ==
  ASSUME NEW r, Handler(r), NEW kind
  PROVE  [r EXCEPT !.kind = kind]
           = [kind |-> kind, at |-> r.at, host |-> r.host, server |-> r.server]
<1>1. PICK k, a, h, s : r = [kind |-> k, at |-> a, host |-> h, server |-> s]
  BY DEF Handler
<1> QED
  BY <1>1

(* What a handler that has read a key becomes. *)
LEMMA HandlerReads ==
  ASSUME NEW r, Handler(r), NEW kind, NEW server
  PROVE  [r EXCEPT !.kind = kind, !.server = server]
           = [kind |-> kind, at |-> r.at, host |-> r.host, server |-> server]
<1>1. PICK k, a, h, s : r = [kind |-> k, at |-> a, host |-> h, server |-> s]
  BY DEF Handler
<1>2. [r EXCEPT !.kind = kind] = [kind |-> kind, at |-> a, host |-> h, server |-> s]
  BY <1>1
<1>3. [r EXCEPT !.kind = kind, !.server = server]
        = [[r EXCEPT !.kind = kind] EXCEPT !.server = server]
  OBVIOUS
<1>4. [[kind |-> kind, at |-> a, host |-> h, server |-> s] EXCEPT !.server = server]
        = [kind |-> kind, at |-> a, host |-> h, server |-> server]
  OBVIOUS
<1>5. r.at = a /\ r.host = h
  BY <1>1
<1> QED
  BY <1>2, <1>3, <1>4, <1>5, Zenon

LEMMA PhoneStarts == PhoneInit => PhoneInv
<1> SUFFICES ASSUME PhoneInit PROVE PhoneInv
  OBVIOUS
<1>1. 1 \in PhoneVisit
  BY PhoneAssumption DEF PhoneVisit
<1>2. \A v \in PhoneVisit : prun[v] = PIdle
  BY DEF PhoneInit, PhoneVisit
<1>3. /\ PIdle.kind = "idle" /\ PIdle.at \in Nat
      /\ PIdle = [kind |-> PIdle.kind, at |-> PIdle.at, host |-> PIdle.host,
                  server |-> PIdle.server]
  BY DEF PIdle
<1>4. \A v \in PhoneVisit : /\ Handler(prun[v]) /\ Follows(prun[v], served, creds, pass)
                         /\ prun[v].kind = "idle"
  BY <1>2, <1>3 DEF Handler, Follows
<1> QED
  BY <1>1, <1>2, <1>3, <1>4 DEF PhoneInit, PhoneInv, PhoneVisit, Mine, Deploys, Kills, SecretsFollow

LEMMA PhoneStep == PhoneInv /\ [PhoneNext]_phonevars => PhoneInv'
<1> SUFFICES ASSUME PhoneInv, [PhoneNext]_phonevars PROVE PhoneInv'
  OBVIOUS
<1>1. ASSUME UNCHANGED <<pvisit, ppage, pbusy, krunning, prun, served, creds, pass, kills>>
      PROVE  PhoneInv'
  BY <1>1 DEF PhoneInv, Mine, Follows, Handler, SecretsFollow
<1>2. PIdle.kind = "idle" /\ Handler(PIdle) /\ Follows(PIdle, served', creds', pass')
  BY DEF PIdle, Handler, Follows
<1>3. ASSUME NEW v \in PhoneVisit, prun[v].kind # "idle" PROVE v <= pvisit
  BY <1>3, PhoneAssumption DEF PhoneInv, PhoneVisit
<1>4. pvisit \in PhoneVisit /\ pvisit <= pvisit
  BY PhoneAssumption DEF PhoneInv, PhoneVisit
<1>5. ASSUME UNCHANGED phoneWorld PROVE Grow /\ SecretsFollow'
  BY <1>5 DEF phoneWorld, Grow, SecretsFollow, PhoneInv
(* A handler that goes on as what it was, or ends. *)
<1>6. ASSUME NEW v \in PhoneVisit, prun[v].kind # "idle", NEW r, PhoneMoves(v, r),
             SameTask(prun[v], r), Grow, Follows(r, served', creds', pass'), SecretsFollow'
      PROVE  PhoneInv'
  <2>1. v = pvisit => /\ ppage = "security" => r.kind \notin Deploys
                      /\ ppage = "deploy" => r.kind \notin Kills
    BY <1>6 DEF PhoneInv, Mine, SameTask, Deploys, Kills
  <2> QED
    BY <1>3, <1>6, <2>1, PhoneMovesKeeps
<1>7. CASE \E page \in {"deploy", "security"} : PhoneGo(page)
  <2>1. /\ pvisit' = pvisit + 1 /\ pvisit < PhoneVisits /\ pbusy' = FALSE /\ krunning' = FALSE
        /\ UNCHANGED <<prun, served, creds, pass, kills>>
    BY <1>7 DEF PhoneGo, Fresh, phoneWorld
  <2>2. pvisit' \in PhoneVisit /\ \A v \in PhoneVisit : v > pvisit' \/ v = pvisit' => v > pvisit
    BY <2>1, PhoneAssumption DEF PhoneInv, PhoneVisit
  <2>3. Mine'.kind = "idle"
    BY <2>1, <2>2 DEF Mine, PhoneInv
  <2>4. (pbusy <=> Mine.kind \in Deploys)' /\ (krunning <=> Mine.kind \in Kills)'
    BY <2>1, <2>3 DEF Deploys, Kills
  <2> QED
    BY <2>1, <2>2, <2>4 DEF PhoneInv, Handler, Follows, SecretsFollow
<1>8. CASE \/ \E h \in Hosts : EditHost(h) \/ RemoveInstance(h)
           \/ IncludeServer \/ HandleTest \/ PhoneReset
           \/ \E t \in ptests, outcome \in {"ok", "error"} : TestAnswers(t, outcome)
  BY <1>1, <1>8 DEF EditHost, RemoveInstance, IncludeServer, HandleTest, PhoneReset,
                    TestAnswers, phoneWorld, phonePage
<1>9. CASE HandleDeploy
  <2> DEFINE r == [kind |-> "step", at |-> 1, host |-> form.host, server |-> form.server]
  <2>1. /\ prun' = [prun EXCEPT ![pvisit] = r] /\ pbusy' = TRUE /\ krunning' = krunning
        /\ UNCHANGED <<pvisit, ppage>> /\ UNCHANGED phoneWorld
        /\ ppage = "deploy" /\ krunning = FALSE
    BY <1>9 DEF HandleDeploy, FormShown, PhoneInv
  <2>2. Handler(r) /\ r.kind = "step"
    BY DEF Handler, Deploys
  <2>3. Follows(r, served', creds', pass')
    BY PhoneAssumption DEF Follows
  <2>4. PhoneMoves(pvisit, r)
    BY <2>1, <2>2 DEF PhoneMoves, Deploys, Kills
  <2>5. ppage # "security" /\ r.kind \notin Kills
    BY <2>1, <2>2 DEF Kills
  <2> QED
    BY <1>4, <1>5, <2>1, <2>3, <2>4, <2>5, PhoneMovesKeeps
<1>10. CASE KillSwitch
  <2> DEFINE r == [kind |-> "readCreds", at |-> 0, host |-> Head(plist), server |-> FALSE]
  <2>1. CASE plist = <<>>
    BY <1>1, <1>10, <2>1 DEF KillSwitch, phoneWorld
  <2>2. CASE plist # <<>>
    <3>1. /\ prun' = [prun EXCEPT ![pvisit] = r] /\ krunning' = TRUE /\ pbusy' = pbusy
          /\ UNCHANGED <<pvisit, ppage>> /\ UNCHANGED phoneWorld
          /\ ppage = "security" /\ pbusy = FALSE
      BY <1>10, <2>2 DEF KillSwitch, PhoneInv, PIdle
    <3>2. Handler(r) /\ r.kind = "readCreds" /\ Follows(r, served', creds', pass')
      BY DEF Handler, Kills, Follows
    <3>3. PhoneMoves(pvisit, r)
      BY <3>1, <3>2 DEF PhoneMoves, Deploys, Kills
    <3>4. ppage # "deploy" /\ r.kind \notin Deploys
      BY <3>1, <3>2 DEF Deploys
    <3> QED
      BY <1>4, <1>5, <3>1, <3>2, <3>3, <3>4, PhoneMovesKeeps
  <2> QED
    BY <2>1, <2>2
<1>11. ASSUME NEW v \in PhoneVisit, prun[v].kind # "idle",
              NEW r, SameTask(prun[v], r), prun' = [prun EXCEPT ![v] = r],
              Handler(r), UNCHANGED <<pvisit, ppage>>, {pbusy', krunning'} \subseteq BOOLEAN,
              IF v = pvisit /\ r.kind = "idle"
              THEN /\ prun[v].kind \in Deploys => pbusy' = FALSE /\ krunning' = krunning
                   /\ prun[v].kind \in Kills => krunning' = FALSE /\ pbusy' = pbusy
              ELSE UNCHANGED <<pbusy, krunning>>
       PROVE  PhoneMoves(v, r)
  BY <1>11 DEF PhoneMoves, SameTask, PhoneInv, Mine, Deploys, Kills, Handler
<1>12. ASSUME NEW v \in PhoneVisit, DeployStepOk(v) PROVE PhoneInv'
  <2> DEFINE n == StepsOf(prun[v].server)
             Work(kind, at) == [kind |-> kind, at |-> at, host |-> prun[v].host,
                                server |-> prun[v].server]
  <2>1. /\ prun[v].kind = "step" /\ UNCHANGED <<pvisit, ppage, pbusy, krunning>>
        /\ UNCHANGED <<creds, pass, kills>> /\ served \subseteq served'
        /\ prun[v].at = BaseSteps => prun[v].host \in served'
        /\ prun[v] = Work("step", prun[v].at) /\ prun[v].at \in Nat
    BY <1>12 DEF DeployStepOk, PhoneInv, Handler
  <2>2. n \in Nat /\ n >= BaseSteps
    BY PhoneAssumption DEF StepsOf
  <2>3. Grow /\ SecretsFollow'
    BY <2>1 DEF Grow, SecretsFollow, PhoneInv
  <2>4. prun[v].at >= BaseSteps => prun[v].host \in served'
    BY <2>1, PhoneAssumption DEF PhoneInv, Follows
  <2>5. {pbusy', krunning'} \subseteq BOOLEAN
    BY <2>1 DEF PhoneInv
  <2>6. CASE prun[v].at < n
    <3> DEFINE r == Work("step", prun[v].at + 1)
    <3>1. prun' = [prun EXCEPT ![v] = r]
      BY <1>12, <2>1, <2>6 DEF DeployStepOk
    <3>2. Handler(r) /\ SameTask(prun[v], r) /\ r.kind = "step"
      BY <2>1 DEF Handler, SameTask, Deploys
    <3>3. Follows(r, served', creds', pass')
      BY <2>1, <2>4, PhoneAssumption DEF Follows
    <3>4. PhoneMoves(v, r)
      BY <1>11, <2>1, <2>5, <3>1, <3>2
    <3> QED
      BY <1>6, <2>1, <2>3, <3>2, <3>3, <3>4
  <2>7. CASE ~(prun[v].at < n)
    <3> DEFINE r == Work("creds", prun[v].at)
    <3>1. prun' = [prun EXCEPT ![v] = r]
      BY <1>12, <2>1, <2>7 DEF DeployStepOk
    <3>2. Handler(r) /\ SameTask(prun[v], r) /\ r.kind = "creds"
      BY <2>1 DEF Handler, SameTask, Deploys
    <3>3. Follows(r, served', creds', pass')
      BY <2>1, <2>2, <2>4, <2>7, PhoneAssumption DEF Follows
    <3>4. PhoneMoves(v, r)
      BY <1>11, <2>1, <2>5, <3>1, <3>2
    <3> QED
      BY <1>6, <2>1, <2>3, <3>2, <3>3, <3>4
  <2> QED
    BY <2>6, <2>7
(* A handler ends, whatever it has stored or killed. *)
<1>13. ASSUME NEW v \in PhoneVisit, prun[v].kind # "idle", prun' = [prun EXCEPT ![v] = PIdle],
              UNCHANGED <<pvisit, ppage>>,
              \/ prun[v].kind \in Deploys /\ krunning' = krunning
                 /\ pbusy' = IF v = pvisit THEN FALSE ELSE pbusy
              \/ prun[v].kind \in Kills /\ pbusy' = pbusy
                 /\ krunning' = IF v = pvisit THEN FALSE ELSE krunning,
              Grow, SecretsFollow'
       PROVE  PhoneInv'
  <2>1. {pbusy', krunning'} \subseteq BOOLEAN
    BY <1>13 DEF PhoneInv
  <2>2. PhoneMoves(v, PIdle)
    BY <1>2, <1>11, <1>13, <2>1 DEF SameTask, Deploys, Kills
  <2> QED
    BY <1>2, <1>6, <1>13, <2>2 DEF SameTask
(* A handler stores or reads one thing and goes on to the next. *)
<1>14. ASSUME NEW v \in PhoneVisit, prun[v].kind # "idle", NEW r, Handler(r), r.kind # "idle",
              SameTask(prun[v], r), prun' = [prun EXCEPT ![v] = r],
              UNCHANGED <<pvisit, ppage, pbusy, krunning>>, Grow, SecretsFollow',
              r.kind \notin {"step", "creds"}, r.kind = "pass" => r.host \in creds',
              r.kind = "ssh" => r.host \in pass'
       PROVE  PhoneInv'
  <2>1. Follows(r, served', creds', pass')
    BY <1>14 DEF Follows
  <2>2. {pbusy', krunning'} \subseteq BOOLEAN
    BY <1>14 DEF PhoneInv
  <2>3. PhoneMoves(v, r)
    BY <1>11, <1>14, <2>2
  <2> QED
    BY <1>6, <1>14, <2>1, <2>3
<1>15. ASSUME NEW v \in PhoneVisit, DeployStepFails(v) PROVE PhoneInv'
  <2>1. Grow /\ SecretsFollow'
    BY <1>5, <1>15 DEF DeployStepFails
  <2> QED
    BY <1>13, <1>15, <2>1 DEF DeployStepFails, Deploys
<1>16. ASSUME NEW v \in PhoneVisit, StoreCreds(v) PROVE PhoneInv'
  <2>1. /\ prun[v].kind = "creds" /\ prun[v].host \in served
        /\ UNCHANGED <<pvisit, ppage, krunning, pass, served, kills>>
        /\ creds' = creds \cup {prun[v].host} \/ creds' = creds
    BY <1>16 DEF StoreCreds, PhoneInv, Follows
  <2>2. Grow /\ SecretsFollow'
    BY <2>1 DEF Grow, SecretsFollow, PhoneInv
  <2>3. CASE Succeeds(v)
    BY <1>13, <2>1, <2>2, <2>3 DEF Succeeds, Deploys
  <2>4. CASE /\ creds' = creds \cup {prun[v].host} /\ prun' = [prun EXCEPT ![v].kind = "pass"]
             /\ pbusy' = pbusy
    <3> DEFINE r == [kind |-> "pass", at |-> prun[v].at, host |-> prun[v].host,
                     server |-> prun[v].server]
    <3>1. r = [prun[v] EXCEPT !.kind = "pass"]
      BY DEF PhoneInv, Handler
    <3>2. prun' = [prun EXCEPT ![v] = r]
      BY <2>4, <3>1
    <3>3. Handler(r) /\ r.kind = "pass" /\ r.host \in creds' /\ SameTask(prun[v], r)
      BY <2>1, <2>4 DEF PhoneInv, Handler, SameTask, Deploys
    <3> QED
      BY <1>14, <2>1, <2>2, <2>4, <3>2, <3>3
  <2> QED
    BY <1>16, <2>3, <2>4 DEF StoreCreds
<1>17. ASSUME NEW v \in PhoneVisit, StorePass(v) PROVE PhoneInv'
  <2>1. /\ prun[v].kind = "pass" /\ prun[v].host \in creds
        /\ UNCHANGED <<pvisit, ppage, krunning, creds, served, kills>>
        /\ pass' = pass \cup {prun[v].host} \/ pass' = pass
    BY <1>17 DEF StorePass, PhoneInv, Follows
  <2>2. Grow /\ SecretsFollow'
    BY <2>1 DEF Grow, SecretsFollow, PhoneInv
  <2> QED
    BY <1>13, <1>17, <2>1, <2>2 DEF StorePass, Succeeds, Deploys
<1>18. ASSUME NEW v \in PhoneVisit, KillReads(v) PROVE PhoneInv'
  <2>1. Grow /\ SecretsFollow' /\ UNCHANGED <<pvisit, ppage, pbusy>> /\ UNCHANGED phoneWorld
    BY <1>5, <1>18 DEF KillReads
  <2>2. CASE prun[v].kind = "readPass" /\ KillEnds(v, "failed")
    BY <1>13, <2>1, <2>2 DEF KillEnds, Kills
  <2>3. CASE /\ prun[v].kind = "readPass" /\ prun[v].host \in pass /\ krunning' = krunning
             /\ prun' = [prun EXCEPT ![v].kind = "ssh"]
    <3> DEFINE r == [kind |-> "ssh", at |-> prun[v].at, host |-> prun[v].host,
                     server |-> prun[v].server]
    <3>1. r = [prun[v] EXCEPT !.kind = "ssh"]
      BY DEF PhoneInv, Handler
    <3>2. prun' = [prun EXCEPT ![v] = r]
      BY <2>3, <3>1
    <3>3. Handler(r) /\ r.kind = "ssh" /\ r.host \in pass' /\ SameTask(prun[v], r)
      BY <2>1, <2>3 DEF PhoneInv, Handler, SameTask, Kills, phoneWorld
    <3> QED
      BY <1>14, <2>1, <2>3, <3>2, <3>3
  <2>4. CASE /\ prun[v].kind = "readCreds" /\ krunning' = krunning
             /\ prun' = [prun EXCEPT ![v].kind = "readPass",
                                     ![v].server = prun[v].host \in creds]
    <3> DEFINE r == [kind |-> "readPass", at |-> prun[v].at, host |-> prun[v].host,
                     server |-> prun[v].host \in creds]
    <3>1. r = [prun[v] EXCEPT !.kind = "readPass", !.server = prun[v].host \in creds]
      <4>1. Handler(prun[v])
        BY DEF PhoneInv
      <4> QED
        BY <4>1, HandlerReads, Zenon
    <3>2. prun' = [prun EXCEPT ![v] = r]
      BY <2>4, <3>1
    <3>3. Handler(r) /\ r.kind = "readPass" /\ SameTask(prun[v], r)
      BY <2>4 DEF PhoneInv, Handler, SameTask, Kills
    <3> QED
      BY <1>14, <2>1, <2>4, <3>2, <3>3
  <2> QED
    BY <1>18, <2>2, <2>3, <2>4 DEF KillReads
<1>19. ASSUME NEW v \in PhoneVisit, KillAnswers(v) PROVE PhoneInv'
  <2>1. /\ prun[v].kind = "ssh" /\ prun[v].host \in pass
        /\ UNCHANGED <<pvisit, ppage, pbusy, creds, pass, served>>
        /\ kills' = kills \cup {prun[v].host} \/ kills' = kills
    BY <1>19 DEF KillAnswers, PhoneInv, Follows
  <2>2. Grow /\ SecretsFollow'
    BY <2>1 DEF Grow, SecretsFollow, PhoneInv
  <2> QED
    BY <1>13, <1>19, <2>1, <2>2 DEF KillAnswers, KillEnds, Kills
<1>21. ASSUME NEW v \in PhoneVisit, SshHangs(v) PROVE PhoneInv'
  <2>1. /\ UNCHANGED <<pvisit, ppage, pbusy, krunning>> /\ UNCHANGED phoneWorld
        /\ Grow /\ SecretsFollow'
    BY <1>5, <1>21 DEF SshHangs, phonePage
  <2>2. CASE prun[v].kind = "step" /\ HangsAs(v, "stepHangs")
    <3> DEFINE r == [kind |-> "stepHangs", at |-> PIdle.at, host |-> PIdle.host,
                     server |-> PIdle.server]
    <3>1. [PIdle EXCEPT !.kind = "stepHangs"] = r
      BY <1>2, HandlerTurns, Zenon
    <3>2. prun' = [prun EXCEPT ![v] = r]
      BY <2>2, <3>1 DEF HangsAs
    <3>3. Handler(r) /\ SameTask(prun[v], r) /\ r.kind = "stepHangs"
      BY <1>2, <2>2 DEF Handler, SameTask, Deploys
    <3> QED
      BY <1>14, <2>1, <2>2, <3>2, <3>3
  <2>3. CASE prun[v].kind = "ssh" /\ HangsAs(v, "sshHangs")
    <3> DEFINE r == [kind |-> "sshHangs", at |-> PIdle.at, host |-> PIdle.host,
                     server |-> PIdle.server]
    <3>1. [PIdle EXCEPT !.kind = "sshHangs"] = r
      BY <1>2, HandlerTurns, Zenon
    <3>2. prun' = [prun EXCEPT ![v] = r]
      BY <2>3, <3>1 DEF HangsAs
    <3>3. Handler(r) /\ SameTask(prun[v], r) /\ r.kind = "sshHangs"
      BY <1>2, <2>3 DEF Handler, SameTask, Kills
    <3> QED
      BY <1>14, <2>1, <2>3, <3>2, <3>3
  <2> QED
    BY <1>21, <2>2, <2>3 DEF SshHangs
<1>20. CASE UNCHANGED phonevars
  BY <1>1, <1>20 DEF phonevars, phonePage, phoneWorld
<1> QED
  BY <1>7, <1>8, <1>9, <1>10, <1>12, <1>15, <1>16, <1>17, <1>18, <1>19, <1>20, <1>21
     DEF PhoneNext, PhoneReturns, PhoneVisit

-----------------------------------------------------------------------------
(* The phone's list of servers. *)

IsCall(c) == /\ c = [kind |-> c.kind, open |-> c.open, id |-> c.id, url |-> c.url, had |-> c.had]
             /\ c.open \in Nat

(* A call that the test button of the page on show waits for. *)
Tests(c, open) == c.open = open /\ c.kind \in {"probe", "token"}

ServersTypes ==
  /\ sopen \in Nat
  /\ con = [url |-> con.url, result |-> con.result, testing |-> con.testing,
            token |-> con.token, added |-> con.added]
  /\ con.testing \in BOOLEAN
  /\ ins = [probing |-> ins.probing, confirm |-> ins.confirm, proxy |-> ins.proxy]
  /\ \A c \in calls : IsCall(c) /\ c.open <= sopen

TestAlone == /\ \A c, d \in calls : Tests(c, sopen) /\ Tests(d, sopen) => c = d
             /\ (con.testing = TRUE) <=> \E c \in calls : Tests(c, sopen)

(* The ids that were ever given are the first numbers, so the next is new. *)
Numbered == /\ servers = [i \in Ids |-> servers[i]]
            /\ IsFiniteSet(Ids) /\ IsFiniteSet(gone)
            /\ DeletedStaysDeleted
            /\ Ids \cup gone = 1 .. Cardinality(Ids) + Cardinality(gone)

ServersInv == ServersTypes /\ TestAlone /\ ProbingIsInFlight /\ Numbered

(* The next id is new, and what was numbered stays numbered. *)
LEMMA NumberedStep == Numbered /\ [ServersNext]_servervars => Numbered'
<1> SUFFICES ASSUME Numbered, [ServersNext]_servervars PROVE Numbered'
  OBVIOUS
<1>1. ASSUME servers' = [i \in Ids |-> servers'[i]], gone' = gone PROVE Numbered'
  <2>1. Ids' = Ids
    BY <1>1 DEF Ids
  <2> QED
    BY <1>1, <2>1 DEF Numbered, DeletedStaysDeleted
<1>2. CASE UNCHANGED <<servers, gone>>
  BY <1>1, <1>2 DEF Numbered
<1>3. CASE HandleAdd
  <2> DEFINE n == Cardinality(Ids) + Cardinality(gone)
  <2>1. n \in Nat /\ Ids \cup gone = 1 .. n /\ NextId = n + 1
    BY FS_CardinalityType DEF Numbered, NextId
  <2>2. NextId \notin Ids /\ NextId \notin gone
    BY <2>1
  <2>3. /\ Ids' = Ids \cup {NextId} /\ gone' = gone
        /\ servers' = [i \in Ids \cup {NextId} |-> servers'[i]]
    BY <1>3 DEF HandleAdd, With, Ids
  <2>4. IsFiniteSet(Ids') /\ Cardinality(Ids') = Cardinality(Ids) + 1
    BY <2>2, <2>3, FS_AddElement DEF Numbered
  <2>5. Cardinality(Ids) \in Nat /\ Cardinality(gone) \in Nat
    BY FS_CardinalityType DEF Numbered
  <2>6. Cardinality(Ids') + Cardinality(gone') = n + 1
    BY <2>3, <2>4, <2>5
  <2>7. 1 .. n + 1 = 1 .. n \cup {n + 1}
    BY <2>1
  <2>8. Ids' \cup gone' = 1 .. Cardinality(Ids') + Cardinality(gone')
    BY <2>1, <2>3, <2>6, <2>7
  <2> QED
    BY <2>2, <2>3, <2>4, <2>8 DEF Numbered, DeletedStaysDeleted
<1>4. ASSUME NEW i \in 1 .. MaxServers, Delete(i) PROVE Numbered'
  <2>1. /\ i \in Ids /\ i \notin gone /\ gone' = gone \cup {i} /\ Ids' = Ids \ {i}
        /\ servers' = [j \in Ids' |-> servers'[j]]
    BY <1>4 DEF Delete, Ids, Numbered, DeletedStaysDeleted
  <2>2. IsFiniteSet(Ids') /\ Cardinality(Ids') = Cardinality(Ids) - 1
    BY <2>1, FS_RemoveElement DEF Numbered
  <2>3. IsFiniteSet(gone') /\ Cardinality(gone') = Cardinality(gone) + 1
    BY <2>1, FS_AddElement DEF Numbered
  <2>4. Cardinality(Ids) \in Nat /\ Cardinality(gone) \in Nat
    BY FS_CardinalityType DEF Numbered
  <2>5. Cardinality(Ids') + Cardinality(gone') = Cardinality(Ids) + Cardinality(gone)
    BY <2>2, <2>3, <2>4
  <2>6. Ids' \cup gone' = Ids \cup gone
    BY <2>1
  <2> QED
    BY <2>1, <2>2, <2>3, <2>5, <2>6 DEF Numbered, DeletedStaysDeleted
<1>5. ASSUME NEW c \in calls, NEW h, HealthAnswers(c, h) PROVE Numbered'
  BY <1>1, <1>5 DEF HealthAnswers, SetHealth
<1>6. ASSUME NEW c \in calls, NEW t, TokenAnswers(c, t) PROVE Numbered'
  <2> DEFINE list == [j \in Ids |-> IF <<servers[j].url, t>> \in SameHost
                                    THEN [servers[j] EXCEPT !.token = t] ELSE servers[j]]
  <2>1. gone' = gone /\ (servers' = servers \/ servers' = list)
    BY <1>6 DEF TokenAnswers
  <2>2. CASE servers' = list
    BY <1>1, <2>1, <2>2
  <2> QED
    BY <1>2, <2>1, <2>2
<1>7. CASE \/ \E view \in {"connect", "instances"} : Open(view)
           \/ \E u \in Urls : EditUrl(u)
           \/ TestUrl \/ AddedExpires \/ DeleteExpires
           \/ \E c \in calls : \/ \E ip \in {None, Vpn} : VpnAnswers(c, ip)
                               \/ \E r \in {"ok", "failed"} : ProbeAnswers(c, r)
                               \/ \E found \in BOOLEAN : DiscoverAnswers(c, found)
                               \/ ProvidersAnswer(c)
           \/ \E j \in 1 .. MaxServers : ProbeOne(j) \/ AskDelete(j)
  BY <1>2, <1>7 DEF Open, EditUrl, TestUrl, AddedExpires, DeleteExpires, VpnAnswers,
                    ProbeAnswers, DiscoverAnswers, ProvidersAnswer, ProbeOne, AskDelete
<1>8. CASE UNCHANGED servervars
  BY <1>2, <1>8 DEF servervars
<1> QED
  BY <1>3, <1>4, <1>5, <1>6, <1>7, <1>8 DEF ServersNext, CallAnswers, Expires

(* A new run of the discovery effect only starts or cancels discoveries. *)
LEMMA RediscoversOnly ==
  ASSUME NEW view, NEW rest, NEW list, NEW proxy, NEW open \in Nat
  PROVE  /\ \A c : c.kind # "discover" => (c \in Rediscovers(view, rest, list, proxy, open) <=> c \in rest)
         /\ \A c \in Rediscovers(view, rest, list, proxy, open) :
              c \in rest \/ (IsCall(c) /\ c.open = open /\ c.kind = "discover")
<1>1. ASSUME NEW i \in DOMAIN list \ proxy, NEW c,
             c = [kind |-> "discover", open |-> open, id |-> i, url |-> list[i].url, had |-> None]
      PROVE  IsCall(c) /\ c.open = open /\ c.kind = "discover"
  BY <1>1 DEF IsCall
<1> QED
  BY <1>1 DEF Rediscovers

(* Two records of a page, and what the calls in flight rely on of them. *)
Pages == /\ con = [url |-> con.url, result |-> con.result, testing |-> con.testing,
                   token |-> con.token, added |-> con.added]
         /\ con.testing \in BOOLEAN
         /\ ins = [probing |-> ins.probing, confirm |-> ins.confirm, proxy |-> ins.proxy]

TestsSame == \A c : c.kind \in {"probe", "token"} => (c \in calls' <=> c \in calls)
HealthSame == \A c : c.kind = "health" => (c \in calls' <=> c \in calls)
OnlyCalls == \A c \in calls' : c \in calls \/ (IsCall(c) /\ c.open <= sopen)

(* A step within one visit that leaves tests and probes alone. *)
LEMMA ServersKeep ==
  ASSUME ServersTypes, TestAlone, ProbingIsInFlight, sopen' = sopen, Pages', OnlyCalls,
         TestsSame, con'.testing = con.testing,
         HealthSame, ins'.probing = ins.probing
  PROVE  ServersTypes' /\ TestAlone' /\ ProbingIsInFlight'
<1>1. ServersTypes'
  BY DEF ServersTypes, Pages, OnlyCalls, IsCall
<1>2. TestAlone'
  BY DEF TestAlone, Tests, TestsSame
<1>3. ProbingIsInFlight'
  BY DEF ProbingIsInFlight, Shown, HealthSame
<1> QED
  BY <1>1, <1>2, <1>3

LEMMA ServersStep ==
  ServersTypes /\ TestAlone /\ ProbingIsInFlight /\ [ServersNext]_servervars
    => ServersTypes' /\ TestAlone' /\ ProbingIsInFlight'
<1> SUFFICES ASSUME ServersTypes, TestAlone, ProbingIsInFlight, [ServersNext]_servervars
             PROVE  ServersTypes' /\ TestAlone' /\ ProbingIsInFlight'
  OBVIOUS
<1>1. Pages /\ sopen \in Nat
  BY DEF ServersTypes, Pages
<1>2. ASSUME UNCHANGED <<sopen, calls>>, Pages', con'.testing = con.testing,
             ins'.probing = ins.probing
      PROVE  ServersTypes' /\ TestAlone' /\ ProbingIsInFlight'
  BY <1>2, ServersKeep DEF OnlyCalls, TestsSame, HealthSame
<1>3. ASSUME NEW view, Open(view) PROVE ServersTypes' /\ TestAlone' /\ ProbingIsInFlight'
  <2> DEFINE probe == [kind |-> "vpn", open |-> sopen + 1, id |-> 0, url |-> None, had |-> None]
             ask(i) == [kind |-> "health", open |-> sopen + 1, id |-> i, url |-> servers[i].url,
                        had |-> None]
             new == IF view = "connect" THEN {probe} ELSE {ask(i) : i \in Ids}
  <2>1. [Call("vpn", 0, None, None) EXCEPT !.open = sopen + 1] = probe
    BY DEF Call
  <2>2. Asks(servers) = {ask(i) : i \in Ids}
    BY DEF Asks, Ids
  <2>3. /\ sopen' = sopen + 1 /\ con' = FreshCon
        /\ ins' = [FreshIns EXCEPT !.probing = IF view = "connect" THEN {} ELSE Ids]
    BY <1>3 DEF Open
  <2>4. calls' = Rediscovers(view, calls \cup new, servers, {}, sopen + 1)
    BY <1>3, <2>1, <2>2, Zenon DEF Open
  <2>5. Pages' /\ con'.testing = FALSE /\ ins'.probing = IF view = "connect" THEN {} ELSE Ids
    BY <2>3 DEF Pages, FreshCon, FreshIns
  <2>6. \A c \in new : IsCall(c) /\ c.open = sopen + 1 /\ c.kind \in {"vpn", "health"}
    BY <1>1 DEF IsCall
  <2>7. \A i \in Ids : ask(i) \in new \/ view = "connect"
    OBVIOUS
  <2>8. \A i : ask(i).kind = "health" /\ ask(i).open = sopen + 1 /\ ask(i).id = i
    OBVIOUS
  <2> HIDE DEF new, ask
  <2>9. /\ \A c : c.kind # "discover" => (c \in calls' <=> c \in calls \cup new)
        /\ \A c \in calls' : \/ c \in calls \cup new
                             \/ IsCall(c) /\ c.open = sopen + 1 /\ c.kind = "discover"
    BY <1>1, <2>4, RediscoversOnly
  <2>10. \A c \in calls : IsCall(c) /\ c.open \in Nat /\ c.open <= sopen
    BY DEF ServersTypes, IsCall
  <2>11. \A c \in calls' : /\ IsCall(c) /\ c.open <= sopen'
                           /\ ~(c.open = sopen' /\ c.kind \in {"probe", "token"})
    BY <1>1, <2>3, <2>6, <2>9, <2>10
  <2>12. ServersTypes'
    BY <1>1, <2>3, <2>5, <2>11 DEF ServersTypes, Pages
  <2>13. TestAlone'
    BY <2>5, <2>11 DEF TestAlone, Tests
  <2>14. ASSUME NEW i \in ins'.probing PROVE ask(i) \in calls'
    BY <2>5, <2>7, <2>8, <2>9, <2>14
  <2>15. ProbingIsInFlight'
    BY <2>3, <2>8, <2>14 DEF ProbingIsInFlight, Shown
  <2> QED
    BY <2>12, <2>13, <2>15
<1>4. ASSUME \/ \E u : EditUrl(u)
             \/ HandleAdd \/ AddedExpires \/ DeleteExpires
             \/ \E j : AskDelete(j)
      PROVE  ServersTypes' /\ TestAlone' /\ ProbingIsInFlight'
  <2>1. Pages' /\ con'.testing = con.testing /\ ins'.probing = ins.probing
    BY <1>1, <1>4 DEF EditUrl, HandleAdd, AddedExpires, DeleteExpires, AskDelete, Pages
  <2> QED
    BY <1>2, <1>4, <2>1 DEF EditUrl, HandleAdd, AddedExpires, DeleteExpires, AskDelete
<1>5. \A c \in calls : IsCall(c) /\ c.open \in Nat /\ c.open <= sopen
  BY DEF ServersTypes, IsCall
<1>6. ASSUME NEW c, VpnAnswers(c, Vpn) \/ VpnAnswers(c, None) \/ ProvidersAnswer(c)
      PROVE  ServersTypes' /\ TestAlone' /\ ProbingIsInFlight'
  <2>1. Pages' /\ con'.testing = con.testing /\ ins'.probing = ins.probing /\ sopen' = sopen
    BY <1>1, <1>6 DEF VpnAnswers, ProvidersAnswer, Pages
  <2>2. calls' = calls \ {c} /\ c.kind \in {"vpn", "providers"}
    BY <1>6 DEF VpnAnswers, ProvidersAnswer
  <2> QED
    BY <2>1, <2>2, ServersKeep DEF OnlyCalls, TestsSame, HealthSame
<1>7. ASSUME NEW c, NEW found \in BOOLEAN, DiscoverAnswers(c, found)
      PROVE  ServersTypes' /\ TestAlone' /\ ProbingIsInFlight'
  <2>1. Pages' /\ con'.testing = con.testing /\ ins'.probing = ins.probing /\ sopen' = sopen
    BY <1>1, <1>7 DEF DiscoverAnswers, Pages
  <2>2. CASE found
    <3> DEFINE asked == [kind |-> "providers", open |-> c.open, id |-> c.id, url |-> c.url,
                         had |-> c.had]
    <3>1. c \in calls /\ c.kind = "discover" /\ c.open \in Nat /\ c.open <= sopen
      BY <1>5, <1>7 DEF DiscoverAnswers
    <3>2. asked = [c EXCEPT !.kind = "providers"]
      BY <1>5, <3>1 DEF IsCall
    <3>3. calls' = Rediscovers(sview, calls \cup {asked}, servers, ins.proxy \cup {c.id}, sopen)
      BY <1>7, <2>2, <3>2 DEF DiscoverAnswers
    <3>4. IsCall(asked) /\ asked.open <= sopen /\ asked.kind = "providers"
      BY <3>1 DEF IsCall
    <3> HIDE DEF asked
    <3>5. OnlyCalls /\ TestsSame /\ HealthSame
      BY <1>1, <3>3, <3>4, RediscoversOnly DEF OnlyCalls, TestsSame, HealthSame
    <3> QED
      BY <2>1, <3>5, ServersKeep
  <2>3. CASE ~found
    <3>1. calls' = calls \ {c} /\ c.kind = "discover"
      BY <1>7, <2>3 DEF DiscoverAnswers
    <3> QED
      BY <2>1, <3>1, ServersKeep DEF OnlyCalls, TestsSame, HealthSame
  <2> QED
    BY <2>2, <2>3
<1>8. ASSUME NEW i, Delete(i) PROVE ServersTypes' /\ TestAlone' /\ ProbingIsInFlight'
  <2>1. Pages' /\ con'.testing = con.testing /\ ins'.probing = ins.probing /\ sopen' = sopen
    BY <1>1, <1>8 DEF Delete, Pages
  <2>2. calls' = Rediscovers(sview, calls, servers', ins.proxy, sopen)
    BY <1>8 DEF Delete
  <2>3. OnlyCalls /\ TestsSame /\ HealthSame
    BY <1>1, <2>2, RediscoversOnly DEF OnlyCalls, TestsSame, HealthSame
  <2> QED
    BY <2>1, <2>3, ServersKeep
<1>9. CASE TestUrl
  <2> DEFINE test == [kind |-> "probe", open |-> sopen, id |-> 0, url |-> con.url,
                      had |-> con.token]
  <2>1. /\ Pages' /\ con'.testing = TRUE /\ ins' = ins /\ sopen' = sopen
        /\ calls' = calls \cup {test} /\ con.testing = FALSE
    BY <1>1, <1>9 DEF TestUrl, Pages, Call
  <2>2. IsCall(test) /\ test.kind = "probe" /\ test.open = sopen
    BY <1>1 DEF IsCall
  <2> HIDE DEF test
  <2>3. ServersTypes'
    BY <1>1, <1>5, <2>1, <2>2 DEF ServersTypes, Pages
  <2>4. TestAlone'
    BY <2>1, <2>2 DEF TestAlone, Tests
  <2>5. ProbingIsInFlight'
    BY <2>1 DEF ProbingIsInFlight, Shown
  <2> QED
    BY <2>3, <2>4, <2>5
<1>10. ASSUME NEW c, NEW result, ProbeAnswers(c, result)
       PROVE  ServersTypes' /\ TestAlone' /\ ProbingIsInFlight'
  <2> DEFINE more == result = "ok" /\ c.had = None
             asked == [kind |-> "token", open |-> c.open, id |-> c.id, url |-> c.url,
                       had |-> c.had]
  <2>1. c \in calls /\ c.kind = "probe" /\ ins' = ins /\ sopen' = sopen
    BY <1>10 DEF ProbeAnswers
  <2>2. asked = [c EXCEPT !.kind = "token"]
    BY <1>5, <2>1 DEF IsCall
  <2>3. calls' = (calls \ {c}) \cup IF more THEN {asked} ELSE {}
    BY <1>10, <2>2 DEF ProbeAnswers
  <2>4. IsCall(asked) /\ asked.open = c.open /\ asked.kind = "token"
    BY <1>5, <2>1 DEF IsCall
  <2>5. /\ Pages'
        /\ con'.testing = IF c.open = sopen THEN more ELSE con.testing
    BY <1>1, <1>10 DEF ProbeAnswers, Pages, Shown
  <2> HIDE DEF asked, more
  <2>6. ServersTypes'
    BY <1>1, <1>5, <2>1, <2>3, <2>4, <2>5 DEF ServersTypes, Pages
  <2>7. TestAlone'
    BY <2>1, <2>3, <2>4, <2>5 DEF TestAlone, Tests
  <2>8. ProbingIsInFlight'
    BY <2>1, <2>3 DEF ProbingIsInFlight, Shown
  <2> QED
    BY <2>6, <2>7, <2>8
<1>11. ASSUME NEW c, NEW token, TokenAnswers(c, token)
       PROVE  ServersTypes' /\ TestAlone' /\ ProbingIsInFlight'
  <2>1. c \in calls /\ c.kind = "token" /\ ins' = ins /\ sopen' = sopen
    BY <1>11 DEF TokenAnswers
  <2>2. Pages' /\ con'.testing = IF c.open = sopen THEN FALSE ELSE con.testing
    BY <1>1, <1>11 DEF TokenAnswers, Pages, Shown
  <2>3. \/ calls' = calls \ {c}
        \/ \E list : calls' = Rediscovers(sview, calls \ {c}, list, ins.proxy, sopen)
    BY <1>11 DEF TokenAnswers
  <2>4. /\ \A d : d.kind # "discover" => (d \in calls' <=> d \in calls \ {c})
        /\ \A d \in calls' : d \in calls \/ (IsCall(d) /\ d.open = sopen /\ d.kind = "discover")
    BY <1>1, <2>3, RediscoversOnly
  <2>5. ServersTypes'
    <3>1. \A d \in calls' : IsCall(d) /\ d.open <= sopen
      BY <1>1, <1>5, <2>1, <2>4
    <3> QED
      BY <1>1, <2>1, <2>2, <3>1 DEF ServersTypes, Pages
  <2>6. TestAlone'
    BY <2>1, <2>2, <2>4 DEF TestAlone, Tests
  <2>7. ProbingIsInFlight'
    BY <2>1, <2>4 DEF ProbingIsInFlight, Shown
  <2> QED
    BY <2>5, <2>6, <2>7
<1>12. ASSUME NEW i, ProbeOne(i) PROVE ServersTypes' /\ TestAlone' /\ ProbingIsInFlight'
  <2>1. PICK n : calls' = calls \cup {Call("health", i, servers[i].url, n)}
    BY <1>12 DEF ProbeOne
  <2> DEFINE c == [kind |-> "health", open |-> sopen, id |-> i, url |-> servers[i].url, had |-> n]
  <2>2. /\ Pages' /\ con' = con /\ ins'.probing = ins.probing \cup {i} /\ sopen' = sopen
        /\ calls' = calls \cup {c}
    BY <1>1, <1>12, <2>1 DEF ProbeOne, Pages, Call
  <2>3. IsCall(c) /\ c.kind = "health" /\ c.open = sopen /\ c.id = i
    BY <1>1 DEF IsCall
  <2> HIDE DEF c
  <2>4. ServersTypes'
    BY <1>1, <1>5, <2>2, <2>3 DEF ServersTypes, Pages
  <2>5. TestAlone'
    BY <2>2, <2>3 DEF TestAlone, Tests
  <2>6. ProbingIsInFlight'
    BY <2>2, <2>3 DEF ProbingIsInFlight, Shown
  <2> QED
    BY <2>4, <2>5, <2>6
<1>13. ASSUME NEW c, NEW h, HealthAnswers(c, h)
       PROVE  ServersTypes' /\ TestAlone' /\ ProbingIsInFlight'
  <2>1. c \in calls /\ c.kind = "health" /\ con' = con /\ sopen' = sopen
    BY <1>13 DEF HealthAnswers
  <2>2. /\ Pages'
        /\ ins'.probing = IF c.open = sopen THEN ins.probing \ {c.id} ELSE ins.probing
    BY <1>1, <1>13 DEF HealthAnswers, Pages, Shown
  <2>3. calls' = Rediscovers(sview, calls \ {c}, servers', ins.proxy, sopen)
    BY <1>13 DEF HealthAnswers
  <2>4. /\ \A d : d.kind # "discover" => (d \in calls' <=> d \in calls \ {c})
        /\ \A d \in calls' : d \in calls \/ (IsCall(d) /\ d.open = sopen /\ d.kind = "discover")
    BY <1>1, <2>3, RediscoversOnly
  <2>5. ServersTypes'
    BY <1>1, <1>5, <2>1, <2>2, <2>4 DEF ServersTypes, Pages
  <2>6. TestAlone'
    BY <2>1, <2>4 DEF TestAlone, Tests
  <2>7. ProbingIsInFlight'
    BY <2>1, <2>2, <2>4 DEF ProbingIsInFlight, Shown
  <2> QED
    BY <2>5, <2>6, <2>7
<1>14. CASE UNCHANGED servervars
  BY <1>1, <1>2, <1>14 DEF servervars, Pages
<1> QED
  BY <1>3, <1>4, <1>6, <1>7, <1>8, <1>9, <1>10, <1>11, <1>12, <1>13, <1>14
     DEF ServersNext, CallAnswers, Expires

LEMMA ServersStart == ServersInit => ServersTypes /\ TestAlone /\ ProbingIsInFlight /\ Numbered
<1> SUFFICES ASSUME ServersInit
             PROVE  ServersTypes /\ TestAlone /\ ProbingIsInFlight /\ Numbered
  OBVIOUS
<1> DEFINE probe == [kind |-> "vpn", open |-> sopen, id |-> 0, url |-> None, had |-> None]
<1>1. sopen = 1 /\ con = FreshCon /\ ins = FreshIns /\ calls = {probe}
  BY DEF ServersInit, Call
<1>2. IsCall(probe) /\ probe.open = sopen /\ probe.kind = "vpn"
  BY <1>1 DEF IsCall
<1> HIDE DEF probe
<1>3. ServersTypes
  BY <1>1, <1>2 DEF ServersTypes, FreshCon, FreshIns
<1>4. TestAlone
  BY <1>1, <1>2 DEF TestAlone, Tests, FreshCon
<1>5. ProbingIsInFlight
  BY <1>1 DEF ProbingIsInFlight, FreshIns
<1>6. servers = [i \in {} |-> None] /\ Ids = {} /\ gone = {}
  BY DEF ServersInit, Ids
<1>7. Cardinality(Ids) + Cardinality(gone) = 0 /\ IsFiniteSet(Ids) /\ IsFiniteSet(gone)
  BY <1>6, FS_EmptySet
<1>8. Numbered
  BY <1>6, <1>7 DEF Numbered, DeletedStaysDeleted
<1> QED
  BY <1>3, <1>4, <1>5, <1>8

(* What is counted is one call or none. *)
LEMMA TestIsCounted == ServersTypes /\ TestAlone => TestingIsInFlight
<1> SUFFICES ASSUME ServersTypes, TestAlone PROVE TestingIsInFlight
  OBVIOUS
<1> DEFINE own == {c \in calls : Shown(c) /\ c.kind \in {"probe", "token"}}
<1>1. CASE con.testing
  <2>1. PICK c \in calls : Tests(c, sopen)
    BY <1>1 DEF TestAlone
  <2>2. own = {c}
    BY <2>1 DEF TestAlone, Tests, Shown
  <2>3. Cardinality(own) = 1
    BY <2>2, FS_Singleton
  <2> QED
    BY <1>1, <2>3 DEF TestingIsInFlight
<1>2. CASE ~con.testing
  <2>1. own = {}
    BY <1>2 DEF TestAlone, Tests, Shown, ServersTypes
  <2>2. Cardinality(own) = 0
    BY <2>1, FS_EmptySet
  <2> QED
    BY <1>2, <2>2 DEF TestingIsInFlight
<1> QED
  BY <1>1, <1>2

-----------------------------------------------------------------------------
(* The desktop's cards. *)

Command(t) == t.kind \notin {"check", "uninstall"}

IsTask(t) == /\ t = [kind |-> t.kind, id |-> t.id, visit |-> t.visit, seen |-> t.seen]
             /\ t.visit \in Nat

(* A command that the card of i on show waits for. *)
Runs(t, i) == Command(t) /\ t.id = i /\ t.visit = cvisit

CardsInv ==
  /\ cvisit \in Nat
  /\ card = [i \in Everything |-> card[i]]
  /\ Listed \subseteq Everything
  /\ \A t \in tasks : IsTask(t) /\ t.visit <= cvisit
  /\ \A i \in Listed : /\ \A t, u \in tasks : Runs(t, i) /\ Runs(u, i) => t = u
                       /\ card[i] # "idle" <=> \E t \in tasks : Runs(t, i)

(* A task goes on as the command, or the probe, that it was. *)
LEMMA TaskGoes ==
  ASSUME CardsInv, NEW t \in tasks, NEW u, IsTask(u), u.id = t.id, u.visit = t.visit,
         Command(u) <=> Command(t), tasks' = (tasks \ {t}) \cup {u},
         UNCHANGED <<cvisit, card>>, Listed' = Listed
  PROVE  CardsInv'
<1>1. \A w \in tasks' : IsTask(w) /\ w.visit <= cvisit
  BY DEF CardsInv
<1>2. ASSUME NEW i \in Listed
      PROVE  /\ \A w, x \in tasks' : Runs(w, i) /\ Runs(x, i) => w = x
             /\ card[i] # "idle" <=> \E w \in tasks' : Runs(w, i)
  <2>1. /\ \A w, x \in tasks : Runs(w, i) /\ Runs(x, i) => w = x
        /\ card[i] # "idle" <=> \E w \in tasks : Runs(w, i)
    BY <1>2 DEF CardsInv
  <2>2. Runs(u, i) <=> Runs(t, i)
    BY DEF Runs
  <2> QED
    BY <2>1, <2>2
<1> QED
  BY <1>1, <1>2 DEF CardsInv, Runs

(* A task ends, and a command releases its card. *)
LEMMA TaskEnds ==
  ASSUME CardsInv, NEW t \in tasks, tasks' = tasks \ {t},
         IF Command(t) THEN Ends(t) ELSE card' = card,
         cvisit' = cvisit, Listed' = Listed
  PROVE  CardsInv'
<1>1. card' = IF Command(t) /\ t.visit = cvisit THEN [card EXCEPT ![t.id] = "idle"] ELSE card
  BY DEF Ends
<1>2. card' = [i \in Everything |-> card'[i]]
  BY <1>1 DEF CardsInv
<1>3. ASSUME NEW i \in Listed
      PROVE  /\ \A w, x \in tasks' : Runs(w, i) /\ Runs(x, i) => w = x
             /\ card'[i] # "idle" <=> \E w \in tasks' : Runs(w, i)
  <2>1. /\ \A w, x \in tasks : Runs(w, i) /\ Runs(x, i) => w = x
        /\ card[i] # "idle" <=> \E w \in tasks : Runs(w, i)
        /\ i \in Everything
    BY <1>3 DEF CardsInv
  <2>2. CASE Runs(t, i)
    <3>1. card'[i] = "idle"
      BY <1>1, <2>1, <2>2 DEF Runs, CardsInv
    <3> QED
      BY <2>1, <2>2, <3>1
  <2>3. CASE ~Runs(t, i)
    <3>1. card'[i] = card[i]
      BY <1>1, <2>1, <2>3 DEF Runs, CardsInv
    <3> QED
      BY <2>1, <2>3, <3>1
  <2> QED
    BY <2>2, <2>3
<1> QED
  BY <1>2, <1>3 DEF CardsInv, Runs

LEMMA CardsStart == CardsInit => CardsInv
BY DEF CardsInit, CardsInv, NoAction, Listed

LEMMA CardsStep == CardsInv /\ [CardsNext]_cardvars => CardsInv'
<1> SUFFICES ASSUME CardsInv, [CardsNext]_cardvars PROVE CardsInv'
  OBVIOUS
<1>1. \A t \in tasks : IsTask(t) /\ t.visit \in Nat /\ t.visit <= cvisit /\ cvisit \in Nat
  BY DEF CardsInv, IsTask
(* New tasks that no card waits for. *)
<1>2. ASSUME NEW new, \A t \in new : IsTask(t) /\ t.visit = cvisit /\ ~Command(t),
             tasks' = tasks \cup new, UNCHANGED <<cvisit, card>>, Listed' = Listed
      PROVE  CardsInv'
  <2>1. ASSUME NEW i, NEW t \in new PROVE ~Runs(t, i)
    BY <1>2, <2>1 DEF Runs
  <2>2. \A t \in tasks' : IsTask(t) /\ t.visit <= cvisit
    BY <1>1, <1>2 DEF CardsInv
  <2>3. ASSUME NEW i \in Listed
        PROVE  /\ \A w, x \in tasks' : Runs(w, i) /\ Runs(x, i) => w = x
               /\ card[i] # "idle" <=> \E w \in tasks' : Runs(w, i)
    BY <1>2, <2>1, <2>3 DEF CardsInv
  <2> QED
    BY <1>2, <2>2, <2>3 DEF CardsInv, Runs
<1>3. ASSUME NEW i, NEW kind
      PROVE  /\ Task(kind, i).kind = kind /\ Task(kind, i).id = i
             /\ Task(kind, i).visit = cvisit /\ IsTask(Task(kind, i))
  BY DEF Task, IsTask, CardsInv
<1>4. CASE CheckAll
  <2> DEFINE new == {Task("check", i) : i \in Listed}
  <2>1. tasks' = tasks \cup new /\ UNCHANGED <<cvisit, card>> /\ Listed' = Listed
    BY <1>4 DEF CheckAll, Listed
  <2>2. \A t \in new : IsTask(t) /\ t.visit = cvisit /\ ~Command(t)
    BY <1>3 DEF Command
  <2> HIDE DEF new
  <2> QED
    BY <1>2, <2>1, <2>2
<1>5. ASSUME NEW i, Refresh(i) PROVE CardsInv'
  <2> DEFINE new == {Task("check", i)}
  <2>1. tasks' = tasks \cup new /\ UNCHANGED <<cvisit, card>> /\ Listed' = Listed
    BY <1>5 DEF Refresh, Listed, SetHealthTo
  <2>2. \A t \in new : IsTask(t) /\ t.visit = cvisit /\ ~Command(t)
    BY <1>3 DEF Command
  <2> HIDE DEF new
  <2> QED
    BY <1>2, <2>1, <2>2
<1>6. ASSUME NEW i, NEW kind \in {"start", "restart", "stop"}, WithFeedback(i, kind) PROVE CardsInv'
  <2> DEFINE new == Task(kind, i)
  <2>1. /\ tasks' = tasks \cup {new} /\ cvisit' = cvisit /\ Listed' = Listed
        /\ card' = [card EXCEPT ![i] = kind] /\ i \in Listed /\ card[i] = "idle"
    BY <1>6 DEF WithFeedback, Offered, Listed, SetHealthTo
  <2>2. IsTask(new) /\ new.visit = cvisit /\ Runs(new, i) /\ \A j : j # i => ~Runs(new, j)
    BY <1>3 DEF Command, Runs
  <2> HIDE DEF new
  <2>3. card' = [j \in Everything |-> card'[j]] /\ card'[i] = kind
        /\ \A j \in Listed \ {i} : card'[j] = card[j]
    BY <2>1 DEF CardsInv
  <2>4. \A t \in tasks' : IsTask(t) /\ t.visit <= cvisit
    BY <1>1, <2>1, <2>2 DEF CardsInv
  <2>5. ASSUME NEW j \in Listed
        PROVE  /\ \A w, x \in tasks' : Runs(w, j) /\ Runs(x, j) => w = x
               /\ card'[j] # "idle" <=> \E w \in tasks' : Runs(w, j)
    BY <2>1, <2>2, <2>3, <2>5 DEF CardsInv
  <2> QED
    BY <2>1, <2>3, <2>4, <2>5 DEF CardsInv, Runs
<1>7. ASSUME NEW i, RemoveCard(i) PROVE CardsInv'
  <2> DEFINE new == IF i \in Locals THEN {Task("uninstall", i)} ELSE {}
  <2>1. /\ tasks' = tasks \cup new /\ cvisit' = cvisit /\ Listed' = Listed \ {i}
        /\ card' = [card EXCEPT ![i] = "idle"] /\ i \in Listed
    BY <1>7 DEF RemoveCard, Listed
  <2>2. \A t \in new : IsTask(t) /\ t.visit = cvisit /\ ~Command(t)
    BY <1>3 DEF Command
  <2> HIDE DEF new
  <2>3. card' = [j \in Everything |-> card'[j]] /\ \A j \in Listed' : card'[j] = card[j]
    BY <2>1 DEF CardsInv
  <2>4. \A t \in tasks' : IsTask(t) /\ t.visit <= cvisit
    BY <1>1, <2>1, <2>2 DEF CardsInv
  <2>5. ASSUME NEW j, NEW t \in new PROVE ~Runs(t, j)
    BY <2>2, <2>5 DEF Runs
  <2>6. ASSUME NEW j \in Listed'
        PROVE  /\ \A w, x \in tasks' : Runs(w, j) /\ Runs(x, j) => w = x
               /\ card'[j] # "idle" <=> \E w \in tasks' : Runs(w, j)
    BY <2>1, <2>3, <2>5, <2>6 DEF CardsInv
  <2> QED
    BY <2>1, <2>3, <2>4, <2>6 DEF CardsInv, Runs
<1>8. CASE RevisitCards
  <2> DEFINE new == {[Task("check", i) EXCEPT !.visit = cvisit + 1] : i \in Listed}
  <2>1. /\ tasks' = tasks \cup new /\ cvisit' = cvisit + 1 /\ card' = NoAction /\ Listed' = Listed
    BY <1>8 DEF RevisitCards, Listed
  <2>2. \A t \in new : IsTask(t) /\ t.visit = cvisit + 1 /\ ~Command(t)
    <3>1. ASSUME NEW i
          PROVE  [Task("check", i) EXCEPT !.visit = cvisit + 1]
                   = [kind |-> "check", id |-> i, visit |-> cvisit + 1, seen |-> "unknown"]
      BY DEF Task
    <3>2. ASSUME NEW t \in new
          PROVE  \E i : t = [kind |-> "check", id |-> i, visit |-> cvisit + 1,
                             seen |-> "unknown"]
      BY <3>1
    <3>3. cvisit + 1 \in Nat
      BY DEF CardsInv
    <3> QED
      BY <3>2, <3>3 DEF Command, IsTask
  <2> HIDE DEF new
  <2>3. \A t \in tasks' : IsTask(t) /\ t.visit <= cvisit' /\ (t.visit # cvisit' \/ ~Command(t))
    BY <1>1, <2>1, <2>2
  <2>4. \A j \in Listed : card'[j] = "idle"
    BY <2>1 DEF CardsInv, NoAction
  <2> QED
    BY <2>1, <2>3, <2>4 DEF CardsInv, Runs, NoAction
<1>9. CASE UNCHANGED <<cvisit, card, health, tasks>>
  BY <1>9 DEF CardsInv, Runs, Listed
<1>10. ASSUME NEW t \in tasks, ProbeReads(t) \/ RestartAnswers(t, TRUE) \/ RestartAnswers(t, FALSE)
                               \/ StopAnswers(t)
       PROVE  CardsInv'
  <2> DEFINE next(kind, seen) == [kind |-> kind, id |-> t.id, visit |-> t.visit, seen |-> seen]
  <2>1. UNCHANGED <<cvisit, card>> /\ Listed' = Listed
    BY <1>10 DEF ProbeReads, RestartAnswers, StopAnswers, Listed
  <2>2. \A kind, seen : /\ IsTask(next(kind, seen)) /\ next(kind, seen).kind = kind
                        /\ next(kind, seen).id = t.id /\ next(kind, seen).visit = t.visit
    BY <1>1 DEF IsTask
  <2>3. CASE ProbeReads(t)
    <3> DEFINE u == next(t.kind, IF gatewayUp THEN "online" ELSE "offline")
    <3>1. tasks' = (tasks \ {t}) \cup {u}
      BY <1>1, <2>3 DEF ProbeReads, IsTask
    <3>2. IsTask(u) /\ u.id = t.id /\ u.visit = t.visit /\ u.kind = t.kind
      BY <2>2
    <3> HIDE DEF u
    <3> QED
      BY <2>1, <3>1, <3>2, TaskGoes DEF Command
  <2>4. CASE RestartAnswers(t, TRUE) \/ RestartAnswers(t, FALSE)
    <3> DEFINE u == next("restarted", t.seen)
    <3>1. tasks' = (tasks \ {t}) \cup {u} /\ t.kind = "restart"
      BY <1>1, <2>4 DEF RestartAnswers, IsTask
    <3>2. IsTask(u) /\ u.id = t.id /\ u.visit = t.visit /\ u.kind = "restarted"
      BY <2>2
    <3> HIDE DEF u
    <3> QED
      BY <2>1, <3>1, <3>2, TaskGoes DEF Command
  <2>5. CASE StopAnswers(t)
    <3> DEFINE u == next("stopped", t.seen)
    <3>1. tasks' = (tasks \ {t}) \cup {u} /\ t.kind = "stop"
      BY <1>1, <2>5 DEF StopAnswers, IsTask
    <3>2. IsTask(u) /\ u.id = t.id /\ u.visit = t.visit /\ u.kind = "stopped"
      BY <2>2
    <3> HIDE DEF u
    <3> QED
      BY <2>1, <3>1, <3>2, TaskGoes DEF Command
  <2> QED
    BY <1>10, <2>3, <2>4, <2>5
<1>11. ASSUME NEW t \in tasks,
              \/ ProbeShows(t) \/ StopShows(t) \/ CommandThrows(t)
              \/ \E ok \in BOOLEAN : StartAnswers(t, ok) \/ UninstallEnds(t, ok)
       PROVE  CardsInv'
  <2>1. tasks' = tasks \ {t} /\ cvisit' = cvisit
    BY <1>11 DEF ProbeShows, StopShows, CommandThrows, StartAnswers, UninstallEnds
  <2>2. Listed' = Listed
    BY <1>11 DEF ProbeShows, StopShows, CommandThrows, StartAnswers, UninstallEnds, Listed,
                 SetHealthTo
  <2>3. IF Command(t) THEN Ends(t) ELSE card' = card
    BY <1>11 DEF ProbeShows, StopShows, CommandThrows, StartAnswers, UninstallEnds, Command,
                 Probes
  <2> QED
    BY <2>1, <2>2, <2>3, TaskEnds
<1>12. CASE GatewayDies \/ UNCHANGED cardvars
  BY <1>9, <1>12 DEF GatewayDies, cardvars
<1> QED
  BY <1>4, <1>5, <1>6, <1>7, <1>8, <1>10, <1>11, <1>12 DEF CardsNext, TaskGoesOn

(* What is counted is the one command of a card, or none. *)
LEMMA CardIsCounted == CardsInv => CardIsBusy
<1> SUFFICES ASSUME CardsInv, NEW i \in Listed
             PROVE  Cardinality({t \in tasks : t.id = i /\ t.visit = cvisit
                                               /\ t.kind \notin {"check", "uninstall"}})
                      = IF card[i] = "idle" THEN 0 ELSE 1
  BY DEF CardIsBusy
<1> DEFINE own == {t \in tasks : t.id = i /\ t.visit = cvisit
                                 /\ t.kind \notin {"check", "uninstall"}}
<1>1. \A t \in tasks : t \in own <=> Runs(t, i)
  BY DEF Runs, Command
<1>2. CASE card[i] = "idle"
  <2>1. own = {}
    BY <1>1, <1>2 DEF CardsInv
  <2>2. Cardinality(own) = 0
    BY <2>1, FS_EmptySet
  <2> QED
    BY <1>2, <2>2
<1>3. CASE card[i] # "idle"
  <2>1. PICK t \in tasks : Runs(t, i)
    BY <1>3 DEF CardsInv
  <2>2. \A u \in tasks : Runs(u, i) => u = t
    BY <2>1 DEF CardsInv
  <2>3. own = {t}
    BY <1>1, <2>1, <2>2
  <2>4. Cardinality(own) = 1
    BY <2>3, FS_Singleton
  <2> QED
    BY <1>3, <2>4
<1> QED
  BY <1>2, <1>3

-----------------------------------------------------------------------------
(* The group: each page keeps its own invariant, and stays as it is while     *)
(* another one is on show.                                                    *)

PagesInv == DeployInv /\ PhoneInv /\ ServersInv /\ CardsInv

LEMMA PagesKeep == PagesSpec => []PagesInv
<1>1. PagesInit => PagesInv
  BY DeployInit, PhoneStarts, ServersStart, CardsStart DEF PagesInit, PagesInv, ServersInv
<1>2. PagesInv /\ [PagesNext]_pagesvars => PagesInv'
  <2>1. [PagesNext]_pagesvars => /\ [DNext]_dvars /\ [PhoneNext]_phonevars
                                 /\ [ServersNext]_servervars /\ [CardsNext]_cardvars
    BY DEF PagesNext, pagesvars
  <2> QED
    BY <2>1, DeployNext, PhoneStep, NumberedStep, ServersStep, CardsStep DEF PagesInv, ServersInv
<1> QED
  BY <1>1, <1>2, PTL DEF PagesSpec

(* On every page a control is shown as busy exactly while the handler it      *)
(* started is in flight: nothing that a busy page withholds overlaps what it  *)
(* waits for, and nothing stays withheld after that has ended.                *)
THEOREM PagesAreBusy == PagesSpec => []BusyIsInFlight
<1>1. PagesInv => BusyIsInFlight
  <2> SUFFICES ASSUME PagesInv PROVE BusyIsInFlight
    OBVIOUS
  <2>1. PhoneIsBusy
    BY DEF PagesInv, PhoneInv, PhoneIsBusy, Mine, Handler, Deploys, Kills
  <2> QED
    BY <2>1, TestIsCounted, CardIsCounted DEF PagesInv, DeployInv, ServersInv, BusyIsInFlight
<1> QED
  BY <1>1, PagesKeep, PTL

(* The store calls an instance online only if its gateway was started, in     *)
(* whatever order pipelines, single steps and visits came.                    *)
THEOREM OnlineIsStarted == PagesSpec => []OnlineWasStarted
<1>1. PagesInv => OnlineWasStarted
  BY DEF PagesInv, DeployInv
<1> QED
  BY <1>1, PagesKeep, PTL

(* A password is kept only beside its connection, both only for a host whose  *)
(* gateway ran, and only such a host is killed.                               *)
THEOREM SecretsAreOrdered == PagesSpec => []SecretsFollow
<1>1. PagesInv => SecretsFollow
  BY DEF PagesInv, PhoneInv
<1> QED
  BY <1>1, PagesKeep, PTL

(* No answer under way brings a deleted instance back, and no new one takes   *)
(* its number.                                                                *)
THEOREM NoneComesBack == PagesSpec => []DeletedStaysDeleted
<1>1. PagesInv => DeletedStaysDeleted
  BY DEF PagesInv, ServersInv, Numbered
<1> QED
  BY <1>1, PagesKeep, PTL
=============================================================================
