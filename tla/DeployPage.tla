----------------------------- MODULE DeployPage -----------------------------
(***************************************************************************)
(* The desktop's deploy page: the hook `useDeployState`, the page and the  *)
(* panels that offer its handlers (apps/desktop/src/pages/DeployPage.tsx   *)
(* and pages/deploy/).  Handlers run on one event loop and interleave at   *)
(* their awaits.  The router unmounts the page when the user leaves it: a  *)
(* handler in flight then goes on, its setState calls are dropped, and the *)
(* next visit starts from a fresh state.                                   *)
(*                                                                         *)
(* Dependencies are the steps 1 .. DepCount of DEP_INSTALL_ORDER; onboard  *)
(* and start follow.  The cache of step results in localStorage is written *)
(* but only read where the scan has said the same, and the pre-deploy      *)
(* status check fills state the page does not show: both are left out.     *)
(***************************************************************************)
EXTENDS Naturals, Sequences, FiniteSets

CONSTANTS DepCount,      \* dependencies of a local deployment
          Bundled,       \* those whose step only says ok (npm comes with Node.js)
          RemoteCount,   \* steps of a remote deployment
          MaxVisits,     \* bound: times the page is mounted
          MaxRuns        \* bound: deployments and single steps started over all visits

ASSUME DeployAssumption == /\ {DepCount, RemoteCount, MaxVisits} \subseteq Nat \ {0}
                           /\ MaxRuns \in Nat /\ Bundled \subseteq 1 .. DepCount

VARIABLES
  dvisit,      \* the current mount of the page
  dmode, advanced, steps, active, deploying, scanning, final, failedIdx,
  manual,      \* manualStepFnsRef: steps with a function, and those that only say done
  ollama,      \* ollamaPhase
  runner,      \* by visit: the handler between two awaits
  retried,     \* by visit: autoRetryCountRef
  preparing,   \* the visits whose prepareSteps awaits the scan
  ollamaCalls, \* the visits whose ollamaEnsureInstalled is pending
  installed,   \* external: dependencies present on the machine
  started,     \* external: gateways started, "local" or "remote"
  dinst,       \* the store's record of each instance
  druns        \* handlers started

pageVars == <<dmode, advanced, steps, active, deploying, scanning, final, failedIdx,
              manual, ollama>>
dvars == <<dvisit, pageVars, runner, retried, preparing, ollamaCalls, installed,
           started, dinst, druns>>

Visit == 1 .. MaxVisits
Onboard == DepCount + 1
Start == DepCount + 2
Row(status) == [status |-> status, progress |-> FALSE]
Idle == [kind |-> "idle", at |-> 0, call |-> 0, mode |-> "local"]
MyRunner == runner[dvisit]

DInit ==
  /\ dvisit = 1 /\ dmode = "local" /\ advanced = FALSE /\ steps = <<>> /\ active = 0
  /\ deploying = FALSE /\ scanning = FALSE /\ final = "none" /\ failedIdx = 0
  /\ manual = [fns |-> 0, done |-> {}] /\ ollama = "idle"
  /\ runner = [v \in Visit |-> Idle] /\ retried = [v \in Visit |-> {}]
  /\ preparing = {} /\ ollamaCalls = {} /\ started = {} /\ druns = 0
  /\ installed \in SUBSET (1 .. DepCount)
  /\ dinst = [k \in {"local", "remote"} |-> "none"]

-----------------------------------------------------------------------------
(* What the page offers. *)

IsPreDeploy == steps = <<>> /\ ~scanning

ToggleOffered == /\ dmode = "local" /\ final = "none" /\ ~deploying
                 /\ IsPreDeploy \/ (steps # <<>> /\ advanced)

DeployOffered == dmode = "local" /\ IsPreDeploy /\ final = "none" /\ ~advanced /\ ~deploying

SshOffered == dmode = "remote" /\ steps = <<>> /\ final = "none" /\ ~deploying

(* A pending row may run when the rows above it are done, a failed row always. *)
RunOffered(i) ==
  /\ advanced /\ ~deploying /\ i \in DOMAIN steps
  /\ \/ steps[i].status = "error"
     \/ steps[i].status = "pending" /\ \A j \in 1 .. i - 1 : steps[j].status = "done"

ResetOffered == final # "none" /\ ~deploying
RetryOffered == ResetOffered /\ final = "failure" /\ failedIdx # 0

-----------------------------------------------------------------------------
(* The pipeline. *)

(* buildDynamicSteps on the result of a scan. *)
LocalRows == [i \in 1 .. Start |->
                Row(IF i \in installed THEN "done" ELSE "pending")]

(* The code moves startFrom past every satisfied step, so past the last one. *)
StartFrom == IF installed = {} THEN 1
             ELSE 1 + CHOOSE i \in installed : \A j \in installed : j <= i

(* The runner of visit v waits for a call of step i, its first or its second.  *)
Awaits(v, i, call, mode) ==
  runner' = [runner EXCEPT ![v] = [kind |-> "run", at |-> i, call |-> call, mode |-> mode]]

(* updateStep of the visit on show; a page that is gone takes no state.       *)
Shows(v, i, status) ==
  IF v = dvisit /\ i \in DOMAIN steps THEN [steps EXCEPT ![i].status = status] ELSE steps

(* Entering step i of a list of rows: running, its old progress removed.      *)
Enter(rows, i) == [j \in DOMAIN rows |-> IF j = i THEN Row("running") ELSE rows[j]]

(* runDeployPipeline up to its first await; retries are forgotten only when   *)
(* it starts at the first step.                                               *)
Begin(v, mode, rows, from) ==
  /\ Awaits(v, from, 1, mode)
  /\ retried' = IF from = 1 THEN [retried EXCEPT ![v] = {}] ELSE retried
  /\ IF v = dvisit
     THEN /\ steps' = Enter([j \in DOMAIN rows |->
                               Row(IF j < from /\ rows[j].status = "done"
                                   THEN "done" ELSE "pending")], from)
          /\ active' = from /\ deploying' = TRUE /\ final' = "none" /\ failedIdx' = 0
     ELSE UNCHANGED <<steps, active, deploying, final, failedIdx>>

Length(mode) == IF mode = "local" THEN Start ELSE RemoteCount

RegistersEarly(mode, i) == IF mode = "local" /\ i >= Onboard   \* mutant: online at onboard
                           THEN [dinst EXCEPT !["local"] = "online"] ELSE dinst
(* onStepSuccess: what a finished step writes in the instance store.          *)
Registers(mode, i) ==
  IF i = Length(mode) THEN [dinst EXCEPT ![mode] = "online"]
  ELSE IF mode = "local" /\ i = Onboard THEN [dinst EXCEPT !["local"] = "offline"]
  ELSE dinst

(* What a call that succeeded has done outside.                               *)
Takes(mode, i) ==
  /\ installed' = IF mode = "local" /\ i <= DepCount /\ i \notin Bundled
                  THEN installed \cup {i} ELSE installed
  /\ started' = IF i = Length(mode) THEN started \cup {mode} ELSE started

(* After the last local step the engine for local models is installed in the  *)
(* background.                                                                *)
StartsOllama(v, mode, i) ==
  IF mode = "local" /\ i = Start
  THEN /\ ollamaCalls' = ollamaCalls \cup {v}
       /\ ollama' = IF v = dvisit THEN "installing" ELSE ollama
  ELSE UNCHANGED <<ollamaCalls, ollama>>

StepOk(v) ==
  LET r == runner[v]  i == r.at  n == Length(r.mode) IN
  /\ r.kind = "run"
  /\ Takes(r.mode, i)
  /\ dinst' = Registers(r.mode, i)
  /\ StartsOllama(v, r.mode, i)
  /\ IF i < n
     THEN /\ Awaits(v, i + 1, 1, r.mode)
          /\ steps' = IF v = dvisit THEN Enter(Shows(v, i, "done"), i + 1) ELSE steps
          /\ active' = IF v = dvisit THEN i + 1 ELSE active
          /\ UNCHANGED <<deploying, final>>
     ELSE /\ runner' = [runner EXCEPT ![v] = Idle]
          /\ steps' = Shows(v, i, "done")
          /\ IF v = dvisit THEN active' = 0 /\ deploying' = FALSE /\ final' = "success"
                           ELSE UNCHANGED <<active, deploying, final>>
  /\ UNCHANGED <<dvisit, dmode, advanced, scanning, failedIdx, manual, retried, preparing,
                 druns>>

(* One retry from the page, unless the backend has reported progress (its own *)
(* strategies have been tried).  A page that is gone keeps its last rows.     *)
MayRetry(v) ==
  LET i == runner[v].at IN
  /\ runner[v].call = 1 /\ i \notin retried[v]
  /\ (v = dvisit /\ i \in DOMAIN steps) => ~steps[i].progress

StepFails(v) ==
  LET r == runner[v] IN
  /\ r.kind = "run" /\ ~(r.mode = "local" /\ r.at \in Bundled)
  /\ MayRetry(v)
  /\ Awaits(v, r.at, r.call + 1, r.mode)
  /\ retried' = [retried EXCEPT ![v] = @ \cup {r.at}]
  /\ steps' = Shows(v, r.at, "running")
  /\ UNCHANGED <<dvisit, dmode, advanced, active, deploying, scanning, final, failedIdx,
                 manual, ollama, preparing, ollamaCalls, installed, started, dinst, druns>>

(* Either a thrown error or a failure that is not retried.                    *)
AbortStuck(v) == UNCHANGED <<active, deploying, final, failedIdx>>   \* mutant
AbortShows(v) ==
  IF v = dvisit
  THEN active' = 0 /\ deploying' = FALSE /\ final' = "failure" /\ failedIdx' = runner[v].at
  ELSE UNCHANGED <<active, deploying, final, failedIdx>>
StepAborts(v) ==
  LET r == runner[v] IN
  /\ r.kind = "run" /\ ~(r.mode = "local" /\ r.at \in Bundled)
  /\ runner' = [runner EXCEPT ![v] = Idle]
  /\ steps' = Shows(v, r.at, "error")
  /\ AbortShows(v)
  /\ dinst' = IF r.mode = "local" THEN [dinst EXCEPT !["local"] = "offline"] ELSE dinst
  /\ UNCHANGED <<dvisit, dmode, advanced, scanning, manual, ollama, retried, preparing,
                 ollamaCalls, installed, started, druns>>

(* deploy-step-progress and deploy-download-progress mark the active row.     *)
Progress ==
  /\ active \in DOMAIN steps /\ steps[active].status = "running"
  /\ ~steps[active].progress
  /\ steps' = [steps EXCEPT ![active].progress = TRUE]
  /\ UNCHANGED <<dvisit, dmode, advanced, active, deploying, scanning, final, failedIdx,
                 manual, ollama, runner, retried, preparing, ollamaCalls, installed,
                 started, dinst, druns>>

-----------------------------------------------------------------------------
(* The handlers. *)

Counted == druns < MaxRuns /\ druns' = druns + 1

(* handleLocalDeploy("full"): the scan first, then the pipeline.              *)
LocalDeploy ==
  /\ (DeployOffered \/ (RetryOffered /\ dmode = "local")) /\ Counted
  /\ runner' = [runner EXCEPT ![dvisit] = [Idle EXCEPT !.kind = "scan"]]
  /\ scanning' = TRUE /\ deploying' = TRUE /\ final' = "none"
  /\ UNCHANGED <<dvisit, dmode, advanced, steps, active, failedIdx, manual, ollama, retried,
                 preparing, ollamaCalls, installed, started, dinst>>

ScanDone(v) ==
  /\ runner[v].kind = "scan"
  /\ Begin(v, "local", LocalRows, StartFrom)
  /\ scanning' = IF v = dvisit THEN FALSE ELSE scanning
  /\ UNCHANGED <<dvisit, dmode, advanced, manual, ollama, preparing, ollamaCalls, installed,
                 started, dinst, druns>>

ScanFails(v) ==
  /\ runner[v].kind = "scan"
  /\ runner' = [runner EXCEPT ![v] = Idle]
  /\ IF v = dvisit THEN scanning' = FALSE /\ deploying' = FALSE /\ final' = "failure"
                   ELSE UNCHANGED <<scanning, deploying, final>>
  /\ UNCHANGED <<dvisit, dmode, advanced, steps, active, failedIdx, manual, ollama, retried,
                 preparing, ollamaCalls, installed, started, dinst, druns>>

RemoteDeploy ==
  /\ (SshOffered \/ (RetryOffered /\ dmode = "remote")) /\ Counted
  /\ Begin(dvisit, "remote", [i \in 1 .. RemoteCount |-> Row("pending")], 1)
  /\ UNCHANGED <<dvisit, dmode, advanced, scanning, manual, ollama, preparing, ollamaCalls,
                 installed, started, dinst>>

(* The toggle; switching it on an empty page starts prepareSteps.             *)
Toggle ==
  /\ ToggleOffered
  /\ advanced' = ~advanced
  /\ IF ~advanced /\ steps = <<>>
     THEN /\ preparing' = preparing \cup {dvisit}
          /\ scanning' = TRUE /\ final' = "none"
     ELSE UNCHANGED <<preparing, scanning, final>>
  /\ UNCHANGED <<dvisit, dmode, steps, active, deploying, failedIdx, manual, ollama, runner,
                 retried, ollamaCalls, installed, started, dinst, druns>>

(* prepareSteps when its scan returns, whatever the page shows by then.       *)
Prepared(v) ==
  /\ v \in preparing /\ preparing' = preparing \ {v}
  /\ IF v = dvisit
     THEN /\ scanning' = FALSE /\ steps' = LocalRows
          /\ manual' = [fns |-> Start, done |-> installed]
     ELSE UNCHANGED <<scanning, steps, manual>>
  /\ UNCHANGED <<dvisit, dmode, advanced, active, deploying, final, failedIdx, ollama, runner,
                 retried, ollamaCalls, installed, started, dinst, druns>>

PrepareFails(v) ==
  /\ v \in preparing /\ preparing' = preparing \ {v}
  /\ IF v = dvisit THEN scanning' = FALSE /\ final' = "failure"
                   ELSE UNCHANGED <<scanning, final>>
  /\ UNCHANGED <<dvisit, dmode, advanced, steps, active, deploying, failedIdx, manual, ollama,
                 runner, retried, ollamaCalls, installed, started, dinst, druns>>

(* executeStep: the function of row i that prepareSteps stored, whatever list *)
(* the row is of.                                                             *)
ExecuteStep(i) ==
  /\ RunOffered(i) /\ i <= manual.fns /\ steps[i].status # "done" /\ Counted
  /\ active' = i /\ deploying' = TRUE
  /\ steps' = [steps EXCEPT ![i].status = "running"]
  /\ runner' = [runner EXCEPT ![dvisit] = [kind |-> "manual", at |-> i, call |-> 0,
                                           mode |-> "local"]]
  /\ UNCHANGED <<dvisit, dmode, advanced, scanning, final, failedIdx, manual, ollama, retried,
                 preparing, ollamaCalls, installed, started, dinst>>

ExecuteEnds(v, status) ==
  /\ runner' = [runner EXCEPT ![v] = Idle]
  /\ steps' = Shows(v, runner[v].at, status)
  /\ IF v = dvisit THEN active' = 0 /\ deploying' = FALSE ELSE UNCHANGED <<active, deploying>>
  /\ UNCHANGED <<dvisit, dmode, advanced, scanning, failedIdx, manual, retried, preparing, druns>>

ExecuteOk(v) ==
  LET i == runner[v].at IN
  /\ runner[v].kind = "manual"
  /\ ExecuteEnds(v, "done")
  /\ IF v = dvisit /\ i \in manual.done THEN UNCHANGED <<installed, started>>
                                        ELSE Takes("local", i)
  /\ dinst' = Registers("local", i)
  /\ final' = IF v = dvisit /\ i = Start THEN "success" ELSE final
  /\ StartsOllama(v, "local", i)

ExecuteFails(v) ==
  /\ runner[v].kind = "manual" /\ runner[v].at \notin Bundled
  /\ ~(v = dvisit /\ runner[v].at \in manual.done)
  /\ ExecuteEnds(v, "error")
  /\ UNCHANGED <<final, ollama, ollamaCalls, installed, started, dinst>>

OllamaDone(v, phase) ==
  /\ v \in ollamaCalls /\ ollamaCalls' = ollamaCalls \ {v}
  /\ ollama' = IF v = dvisit THEN phase ELSE ollama
  /\ UNCHANGED <<dvisit, dmode, advanced, steps, active, deploying, scanning, final, failedIdx,
                 manual, runner, retried, preparing, installed, started, dinst, druns>>

(* reset, on its own or with a change of mode.                                *)
Reset(m) ==
  /\ (m = dmode /\ ResetOffered) \/ ~deploying
  /\ dmode' = m
  /\ steps' = <<>> /\ final' = "none" /\ active' = 0 /\ ollama' = "idle"
  /\ UNCHANGED <<dvisit, advanced, deploying, scanning, failedIdx, manual, runner, retried,
                 preparing, ollamaCalls, installed, started, dinst, druns>>

(* The route changes and comes back: a new mount with its initial state.      *)
Revisit ==
  /\ dvisit < MaxVisits /\ dvisit' = dvisit + 1
  /\ dmode' = "local" /\ advanced' = FALSE /\ steps' = <<>> /\ active' = 0
  /\ deploying' = FALSE /\ scanning' = FALSE /\ final' = "none" /\ failedIdx' = 0
  /\ manual' = [fns |-> 0, done |-> {}] /\ ollama' = "idle"
  /\ UNCHANGED <<runner, retried, preparing, ollamaCalls, installed, started, dinst, druns>>

(* The command a handler awaits never returns: SSH limits the time of the     *)
(* connection only, and a local step waits for its processes and for pm2.     *)
Hangs(v) ==
  LET r == runner[v] IN
  /\ r.kind \in {"scan", "run", "manual"} /\ (r.mode = "local" => r.at \notin Bundled)
  /\ ~(r.kind = "manual" /\ v = dvisit /\ r.at \in manual.done)
  /\ runner' = [runner EXCEPT ![v] = [Idle EXCEPT !.kind = "hung"]]
  /\ UNCHANGED <<dvisit, pageVars, retried, preparing, ollamaCalls, installed, started,
                 dinst, druns>>

HandlerReturns(v) == \/ ScanDone(v) \/ ScanFails(v) \/ StepOk(v) \/ StepFails(v)
                     \/ StepAborts(v) \/ ExecuteOk(v) \/ ExecuteFails(v)
Returns(v) == \/ HandlerReturns(v) \/ Prepared(v) \/ PrepareFails(v)
              \/ \E phase \in {"ok", "fail"} : OllamaDone(v, phase)

DNext == \/ LocalDeploy \/ RemoteDeploy \/ Toggle \/ Revisit \/ Progress
         \/ \E i \in 1 .. Start : ExecuteStep(i)
         \/ \E m \in {"local", "remote"} : Reset(m)
         \/ \E v \in Visit : Returns(v) \/ Hangs(v)

(* A command that does not hang returns, and timers go off; the preparation   *)
(* of the list and the engine for local models may take for ever.             *)
DFair == \A v \in Visit : WF_dvars(HandlerReturns(v))
DSpec == DInit /\ [][DNext]_dvars /\ DFair

-----------------------------------------------------------------------------
(* While the page shows a deployment as running exactly one handler of that   *)
(* visit is in flight, and none is when it does not: no button enabled by     *)
(* ~isDeploying starts a second one, whichever way the last one ended.        *)
DeployingIsBusy == deploying <=> MyRunner.kind # "idle"

(* An instance is recorded as online only after its gateway was started,      *)
(* through pipelines, single steps, visits and lists swapped in between.      *)
OnlineWasStarted == \A k \in DOMAIN dinst : dinst[k] = "online" => k \in started

(* A deployment on show ends, with the page ready for the next, or waits for  *)
(* a command that never returns: retries, fixes, single steps and visits make *)
(* no page that is busy without end.                                          *)
DeploymentEnds == deploying ~> (~deploying \/ MyRunner.kind = "hung")

(* Before a step is run the steps in front of it are done.                    *)
NoStepSkipped ==
  MyRunner.kind = "run" /\ Len(steps) = Length(MyRunner.mode)
    => \A j \in 1 .. MyRunner.at - 1 : j \in DOMAIN steps => steps[j].status = "done"
=============================================================================
