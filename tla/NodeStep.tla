------------------------------ MODULE NodeStep ------------------------------
(***************************************************************************)
(* The deploy step that installs Node.js: deploy_step_check_node           *)
(* (apps/desktop/src-tauri/src/node/install.rs) and the strategy chain it  *)
(* runs (deploy/executor.rs) with the diagnosis of what went wrong         *)
(* (deploy/diagnosis.rs).                                                  *)
(*                                                                         *)
(* A strategy is one installer; running it may leave Node and npm on the   *)
(* machine whether it reports success, failure or a stall.  Installers are *)
(* taken never to remove what is there.                                    *)
(***************************************************************************)
EXTENDS Naturals

CONSTANT N   \* the strategies build_node_strategies found for this machine

(* Direct download is always among them. *)
ASSUME StrategyAssumption == N \in Nat \ {0}

Strategy == 1..N

VARIABLES node,     \* what `node --version` finds: none, old, v22
          npm,      \* npm answers
          strict,   \* npm's strict-ssl setting
          found,    \* its value before the step
          pc,       \* check, try, retry, pass2, post, done
          at,       \* the strategy it is about
          sslOff,   \* ssl_disabled of the retry
          network,  \* all_fixes names a network or an SSL error
          tries,    \* executions of each strategy
          faults,   \* the policies diagnosed so far
          result,   \* none, ok, err
          stuck     \* the step waits for a subprocess that never returns

world == <<node, npm, strict>>
nodevars == <<node, npm, strict, found, pc, at, sslOff, network, tries, faults, result, stuck>>

-----------------------------------------------------------------------------
(* diagnosis.rs *)

NetworkCategory == {"network-timeout", "network-unreachable", "ssl-error"}
PromptCategory == {"eacces", "git-not-installed"}
AbortCategory == {"enospc"}
(* The rest is retried automatically. *)
RetryCategory == NetworkCategory \cup
  {"eaddrinuse", "cache-corrupt", "config-corrupt", "node-version-mismatch",
   "binary-not-found", "process-crash", "unknown"}
Policy(category) == CASE category \in AbortCategory  -> "abort"
                      [] category \in PromptCategory -> "prompt"
                      [] category \in RetryCategory  -> "retry"
Category == RetryCategory \cup PromptCategory \cup AbortCategory

(* Only one remedy changes a setting that outlives the step. *)
DisablesSsl(category) == category = "ssl-error"

-----------------------------------------------------------------------------
NodeInit == /\ node \in {"none", "old", "v22"} /\ npm \in BOOLEAN
            /\ node = "none" => ~npm
            /\ strict \in BOOLEAN /\ found = strict
            /\ pc = "check" /\ at = 1 /\ sslOff = FALSE /\ network = FALSE
            /\ tries = [s \in Strategy |-> 0]
            /\ faults = {} /\ result = "none" /\ stuck = FALSE

(* verify_node_and_npm: a version is returned also when npm is missing. *)
VerifyAlways(v) == TRUE   \* mutant: a strategy's success is believed
Verified(v) == v = "v22"

Finish(r) == pc' = "done" /\ result' = r

(* deploy_step_check_node before its chain: too little disk, Node there (the *)
(* repair of npm behind this check is never reached), Node found by nvm.     *)
Check ==
  /\ pc = "check"
  /\ \/ /\ Finish("err")
        /\ UNCHANGED world
     \/ /\ Verified(node)
        /\ Finish("ok")
        /\ UNCHANGED world
     \/ /\ ~Verified(node)
        /\ node' = "v22" /\ npm' \in {npm, TRUE}
        /\ Finish("ok")
        /\ UNCHANGED strict
     \/ /\ ~Verified(node)
        /\ pc' = "try"
        /\ UNCHANGED <<world, result>>
  /\ UNCHANGED <<found, at, sslOff, network, tries, faults>>

(* strategy.execute: whatever is reported, Node and npm may be there now. *)
Execute == /\ \/ UNCHANGED <<node, npm>>
              \/ node' = "v22" /\ npm' \in {npm, TRUE}
              \/ node = "none" /\ node' = "old" /\ npm' \in {npm, TRUE}
           /\ tries' = [tries EXCEPT ![at] = @ + 1]

Pass2 == network' /\ N > 1
(* After the last strategy: all of them once more if the network failed, or  *)
(* the chain has failed.                                                     *)
NextStrategy ==
  IF at < N
  THEN pc' = "try" /\ at' = at + 1 /\ UNCHANGED result
  ELSE IF Pass2 THEN pc' = "pass2" /\ at' = 1 /\ UNCHANGED result
  ELSE Finish("err") /\ UNCHANGED at

(* The verifier decides; `after` is what an unverified attempt leads to. *)
Verify(after) ==
  /\ IF Verified(node') THEN pc' = "post" /\ UNCHANGED <<at, result>>
                        ELSE after

(* Success, or a stall that is diagnosed for its signature only. *)
SucceedsOrStalls ==
  /\ pc = "try"
  /\ Execute
  /\ \/ UNCHANGED network
     \/ network' = TRUE                \* a stall whose output names the network
  /\ Verify(NextStrategy)
  /\ UNCHANGED <<strict, found, sslOff, faults>>

Diagnosed(category) == /\ faults' = faults \cup {Policy(category)}
                       /\ network' = (network \/ category \in NetworkCategory)

(* A full disk ends the chain, unverified. *)
Aborts ==
  /\ pc = "try"
  /\ Execute
  /\ Finish("err")
  /\ \E category \in Category : Policy(category) = "abort" /\ Diagnosed(category)
  /\ UNCHANGED <<strict, found, at, sslOff>>

(* Missing permission or git: the user is told, and the chain goes on. *)
Prompts ==
  /\ pc = "try"
  /\ Execute
  /\ \E category \in Category : Policy(category) = "prompt" /\ Diagnosed(category)
  /\ Verify(NextStrategy)
  /\ UNCHANGED <<strict, found, sslOff>>

SetStrict(value) == strict' = IF npm' THEN value ELSE strict

(* Any other failure: remedies, the verifier, and the strategy once more. *)
Fails ==
  /\ pc = "try"
  /\ Execute
  /\ \E category \in Category :
       /\ Policy(category) = "retry" /\ Diagnosed(category)
       /\ IF Verified(node')
          THEN /\ IF DisablesSsl(category) THEN SetStrict(TRUE) ELSE UNCHANGED strict
               /\ UNCHANGED sslOff
          ELSE /\ sslOff' = DisablesSsl(category)
               /\ IF DisablesSsl(category) THEN SetStrict(FALSE) ELSE UNCHANGED strict
  /\ Verify(pc' = "retry" /\ UNCHANGED <<at, result>>)
  /\ UNCHANGED found

RestoreNever == UNCHANGED strict   \* mutant: the setting is not put back
Restore == IF sslOff THEN SetStrict(TRUE) ELSE UNCHANGED strict

Retry ==
  /\ pc = "retry"
  /\ Execute
  /\ Restore /\ sslOff' = FALSE
  /\ UNCHANGED network
  /\ Verify(NextStrategy)
  /\ UNCHANGED <<found, faults>>

Again == IF at < N THEN at' = at + 1 /\ UNCHANGED <<pc, result>>
                   ELSE Finish("err") /\ UNCHANGED at

(* The second pass: every strategy once, with growing pauses, no diagnosis. *)
SecondPass ==
  /\ pc = "pass2"
  /\ Execute
  /\ Verify(Again)
  /\ UNCHANGED <<strict, found, sslOff, network, faults>>

PostWaits ==   \* mutant: waits for an npm that does not come
  /\ pc = "post"
  /\ \/ npm /\ Finish("ok") /\ UNCHANGED npm
     \/ ~npm /\ UNCHANGED <<npm, pc, result>>
  /\ UNCHANGED <<node, strict, found, at, sslOff, network, tries, faults>>

(* A chain that succeeded without npm: ensure_npm tries to repair it. *)
Post ==
  /\ pc = "post"
  /\ \/ npm /\ Finish("ok") /\ UNCHANGED npm
     \/ ~npm /\ npm' = TRUE /\ Finish("ok")
     \/ ~npm /\ Finish("err") /\ UNCHANGED npm
  /\ UNCHANGED <<node, strict, found, at, sslOff, network, tries, faults>>

Done == pc = "done" /\ UNCHANGED nodevars

ChainStep == \/ SucceedsOrStalls \/ Aborts \/ Prompts \/ Fails \/ Retry \/ SecondPass
StepOn == ~stuck /\ UNCHANGED stuck /\ (Check \/ ChainStep \/ Post)

(* The verifier and the repair of npm run without a timeout, and so does an   *)
(* installer whose watchdog sees its children, or that leaves a process with  *)
(* its output open.                                                          *)
Hang == /\ pc # "done" /\ ~stuck /\ stuck' = TRUE
        /\ UNCHANGED <<world, found, pc, at, sslOff, network, tries, faults, result>>

NodeNext == StepOn \/ Hang \/ Done

(* What does not hang ends. *)
NodeSpec == NodeInit /\ [][NodeNext]_nodevars /\ WF_nodevars(StepOn)

-----------------------------------------------------------------------------
NodeTypeOK == /\ node \in {"none", "old", "v22"} /\ npm \in BOOLEAN
              /\ strict \in BOOLEAN /\ found \in BOOLEAN
              /\ pc \in {"check", "try", "retry", "pass2", "post", "done"}
              /\ at \in Strategy
              /\ sslOff \in BOOLEAN /\ network \in BOOLEAN
              /\ tries \in [Strategy -> 0..3]
              /\ faults \subseteq {"abort", "prompt", "retry"}
              /\ result \in {"none", "ok", "err"} /\ stuck \in BOOLEAN

(* The step is reported done only with Node 22 on the machine, and after a   *)
(* chain only with npm: no installer's own word is enough.                   *)
OkIsVerified ==
  result = "ok" => node = "v22" /\ (npm \/ \A s \in Strategy : tries[s] = 0)

(* npm is left checking certificates at least as strictly as it was, whatever *)
(* the outcome of the retry that needed them off.                            *)
SslRestored == found /\ pc # "retry" => strict

(* The chain does not give up early: unless the disk is full, every strategy  *)
(* was run, and once more if the network failed; nor does it go on for ever.  *)
TriedAll ==
  /\ result = "err" /\ tries[1] > 0 /\ "abort" \notin faults /\ node # "v22" =>
       \A s \in Strategy : tries[s] >= IF network /\ N > 1 THEN 2 ELSE 1
  /\ \A s \in Strategy : tries[s] <= 3

(* Remedies, strategies and the second pass come to an end: the step has a   *)
(* result, or waits for a subprocess that never returns.                     *)
StepEnds == <>(result # "none" \/ stuck)
=============================================================================
