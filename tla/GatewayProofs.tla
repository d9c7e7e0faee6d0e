--------------------------- MODULE GatewayProofs ----------------------------
(***************************************************************************)
(* What holds of every number of calls and of rounds: the types, that      *)
(* "gateway ready" is said of the gateway or of a program the call failed  *)
(* to kill (ReadyIsGatewayOrSurvivor), and that the user's configuration   *)
(* is never lost (ConfigSafe).                                             *)
(*                                                                         *)
(* Neither of the last two is inductive.  Ready needs that whoever has the *)
(* port once a call is past its first operation has survived that call's   *)
(* kill (Clear); the configuration is safe because `onboard` only comes    *)
(* after it has been set aside (Aside), whatever list of operations a call *)
(* has left (Plan).                                                        *)
(***************************************************************************)
EXTENDS Gateway, TLAPS

(* The plans a call may have: `onboard` is first or follows `set aside`. *)
Plan == {p \in Seq(Operation) :
           \A i \in 2..Len(p) : p[i] = "onboard" => p[i - 1] = "set_aside"}

Types == /\ port \in {"free", "gateway", "other"}
         /\ entry \in {"none", "online", "stopped"}
         /\ config \in {"none", "users", "fresh"}
         /\ backup \in {"none", "old", "users", "fresh"}
         /\ answer \in [Task -> {"none", "ok", "err"}]
         /\ quit \in {"no", "stopped", "gone", "killed"}
         /\ spared \subseteq Task
Calls == /\ todo \in [Task -> Plan]
         /\ stage \in [Task -> {"idle", "run", "wait", "hung", "done"}]
         /\ round \in [Task -> 0..Rounds]
Place == \A t \in Task : /\ stage[t] = "run" => todo[t] # <<>>
                         /\ stage[t] = "wait" => round[t] < Rounds
(* Where a call is past its kill. *)
Past(t) == stage[t] = "wait" \/ (stage[t] = "run" /\ Head(todo[t]) # "free_port")
Clear == \A t \in Task : Past(t) /\ port = "other" => t \in spared
Aside == /\ config = "users" => backup \in {"none", "old"}
         /\ \A t \in Task : stage[t] = "run" /\ Head(todo[t]) = "onboard"
                              => ~(config = "users" /\ backup = "none")

GatewayInv == Types /\ Calls /\ Place /\ Aside

-----------------------------------------------------------------------------
(* What is left of a plan is a plan, and `onboard` follows `set aside`.      *)
LEMMA PlanTails ==
  ASSUME NEW p \in Plan, p # <<>>
  PROVE  /\ Tail(p) \in Plan
         /\ Head(p) \in Operation
         /\ Tail(p) # <<>> /\ Head(Tail(p)) = "onboard" => Head(p) = "set_aside"
<1>1. /\ p \in Seq(Operation) /\ Len(p) \in Nat /\ Len(p) > 0
      /\ \A i \in 2..Len(p) : p[i] = "onboard" => p[i - 1] = "set_aside"
  BY DEF Plan
<1>2. /\ Tail(p) \in Seq(Operation) /\ Len(Tail(p)) = Len(p) - 1
      /\ \A i \in 1..(Len(p) - 1) : Tail(p)[i] = p[i + 1]
  BY <1>1
<1>3. Tail(p) \in Plan
  <2>1. ASSUME NEW i \in 2..Len(Tail(p)), Tail(p)[i] = "onboard"
        PROVE  Tail(p)[i - 1] = "set_aside"
    <3>1. i \in 1..(Len(p) - 1) /\ i - 1 \in 1..(Len(p) - 1) /\ i + 1 \in 2..Len(p)
      BY <1>1, <1>2
    <3>2. Tail(p)[i] = p[i + 1] /\ Tail(p)[i - 1] = p[i]
      BY <1>1, <1>2, <3>1
    <3> QED BY <1>1, <2>1, <3>1, <3>2
  <2> QED BY <1>2, <2>1 DEF Plan
<1>4. Head(p) = p[1] /\ p[1] \in Operation
  BY <1>1
<1>5. ASSUME Tail(p) # <<>>, Head(Tail(p)) = "onboard"
      PROVE  Head(p) = "set_aside"
  <2>1. Len(Tail(p)) > 0
    BY <1>2, <1>5
  <2>2. Head(Tail(p)) = p[2] /\ 2 \in 2..Len(p)
    BY <1>1, <1>2, <2>1
  <2> QED BY <1>1, <1>4, <1>5, <2>2
<1> QED BY <1>3, <1>4, <1>5

(* What a start, a diagnosis or a `pm2 start` that fails asks for is a plan, *)
(* is not empty and does not begin with `onboard`.                           *)
LEMMA BootPlan == /\ Boot \in Plan /\ Boot # <<>> /\ Head(Boot) = "free_port"
BY DEF Plan, Boot, Operation

LEMMA AgainPlan ==
  LET p == <<"kill_pm2", "start_again">>
  IN  p \in Plan /\ p # <<>> /\ Head(p) # "onboard"
BY DEF Plan, Operation

LEMMA RemedyPlan ==
  ASSUME NEW c \in {"node", "port", "config", "crash"}
  PROVE  Remedy(c) \in Plan /\ Remedy(c) # <<>> /\ Head(Remedy(c)) # "onboard"
<1>1. CASE c = "node"
  BY <1>1 DEF Plan, Operation, Remedy
<1>2. CASE c = "port"
  BY <1>2 DEF Plan, Operation, Remedy
<1>3. CASE c = "config"
  BY <1>3 DEF Plan, Operation, Remedy
<1>4. CASE c = "crash"
  BY <1>4 DEF Plan, Operation, Remedy
<1> QED BY <1>1, <1>2, <1>3, <1>4

LEMMA EmptyPlan == <<>> \in Plan
BY DEF Plan

(* Then keeps the calls in order, whichever plan it is given. *)
LEMMA ThenKeeps ==
  ASSUME NEW t \in Task, NEW rest \in Plan, Calls, Place,
         answer \in [Task -> {"none", "ok", "err"}],
         round' \in [Task -> 0..Rounds],
         \A u \in Task \ {t} : round'[u] = round[u],
         Then(t, rest)
  PROVE  /\ Calls' /\ Place'
         /\ answer' \in [Task -> {"none", "ok", "err"}]
         /\ \A u \in Task \ {t} : stage'[u] = stage[u] /\ todo'[u] = todo[u]
         /\ todo'[t] \in {rest, <<>>}
         /\ stage'[t] \in {"wait", "run", "done"}
<1>1. <<>> \in Plan
  BY EmptyPlan
<1>2. CASE rest = <<>> /\ Over(t)
  BY <1>1, <1>2 DEF Then, Return, Calls, Place
<1>3. CASE ~(rest = <<>> /\ Over(t))
  <2>1. /\ todo' = [todo EXCEPT ![t] = rest]
        /\ stage' = [stage EXCEPT ![t] = IF rest = <<>> THEN "wait" ELSE "run"]
        /\ answer' = answer
    BY <1>3 DEF Then
  <2>2. Calls'
    BY <2>1 DEF Calls
  <2>3. rest = <<>> => round'[t] < Rounds
    BY <1>3, GatewayAssumption DEF Over
  <2>4. Place'
    BY <2>1, <2>3 DEF Place, Calls
  <2> QED BY <2>1, <2>2, <2>4 DEF Calls
<1> QED BY <1>2, <1>3

LEMMA ReturnKeeps ==
  ASSUME NEW t \in Task, NEW r \in {"ok", "err"}, Calls, Place,
         answer \in [Task -> {"none", "ok", "err"}],
         round' \in [Task -> 0..Rounds],
         \A u \in Task \ {t} : round'[u] = round[u],
         Return(t, r)
  PROVE  /\ Calls' /\ Place'
         /\ answer' \in [Task -> {"none", "ok", "err"}]
         /\ \A u \in Task \ {t} : stage'[u] = stage[u] /\ todo'[u] = todo[u]
         /\ stage'[t] = "done"
BY EmptyPlan DEF Return, Calls, Place

-----------------------------------------------------------------------------
(* What each action does to a call. *)

(* What t does leaves the other calls alone; where t has come to `onboard`,  *)
(* it has just set the configuration aside.                                  *)
Moved(t) == /\ Calls' /\ Place'
            /\ answer' \in [Task -> {"none", "ok", "err"}]
            /\ \A u \in Task \ {t} : stage'[u] = stage[u] /\ todo'[u] = todo[u]
            /\ stage'[t] \in {"run", "wait", "done"}

LEMMA BeginMoves ==
  ASSUME GatewayInv, NEW t \in Task, Begin(t)
  PROVE  Moved(t) /\ (stage'[t] = "run" => todo'[t] = Boot) /\ stage'[t] # "wait"
<1>1. /\ round' \in [Task -> 0..Rounds]
      /\ \A u \in Task \ {t} : round'[u] = round[u]
      /\ answer \in [Task -> {"none", "ok", "err"}]
  BY DEF GatewayInv, Types, Calls, Begin
<1>2. CASE Return(t, "err")
  BY <1>1, <1>2, ReturnKeeps DEF GatewayInv, Moved
<1>3. CASE Then(t, Boot)
  <2>1. stage'[t] = "run" /\ todo'[t] = Boot
    BY <1>3, BootPlan DEF Then, GatewayInv, Calls
  <2> QED BY <1>1, <1>3, <2>1, ThenKeeps, BootPlan DEF GatewayInv, Moved
<1> QED BY <1>2, <1>3 DEF Begin

LEMMA OperateMoves ==
  ASSUME GatewayInv, NEW t \in Task, Operate(t)
  PROVE  /\ Moved(t)
         /\ stage'[t] = "run" /\ Head(todo'[t]) = "onboard"
              => Head(todo[t]) = "set_aside"
<1> DEFINE op == Head(todo[t])
           rest == Tail(todo[t])
           again == <<"kill_pm2", "start_again">>
<1>1. /\ round' \in [Task -> 0..Rounds]
      /\ \A u \in Task \ {t} : round'[u] = round[u]
      /\ answer \in [Task -> {"none", "ok", "err"}]
  BY DEF GatewayInv, Types, Calls, Operate
<1>2. rest \in Plan /\ (rest # <<>> /\ Head(rest) = "onboard" => op = "set_aside")
  BY PlanTails DEF GatewayInv, Calls, Place, Operate
<1>3. \/ Return(t, "err")
      \/ Then(t, rest) \/ Then(t, <<>>) \/ Then(t, again)
  BY DEF Operate
<1>4. CASE Return(t, "err")
  BY <1>1, <1>4, ReturnKeeps DEF GatewayInv, Moved
<1>5. ASSUME NEW p \in Plan, Then(t, p), p # <<>> /\ Head(p) = "onboard" => op = "set_aside"
      PROVE  Moved(t) /\ (stage'[t] = "run" /\ Head(todo'[t]) = "onboard" => op = "set_aside")
  <2>1. Moved(t) /\ todo'[t] \in {p, <<>>}
    BY <1>1, <1>5, ThenKeeps DEF GatewayInv, Moved
  <2>2. stage'[t] = "run" => todo'[t] # <<>>
    BY <2>1 DEF Moved, Place
  <2> QED BY <1>5, <2>1, <2>2
<1> QED BY <1>2, <1>3, <1>4, <1>5, AgainPlan, EmptyPlan

LEMMA WaitMoves ==
  ASSUME GatewayInv, NEW t \in Task, Ready(t) \/ Diagnose(t)
  PROVE  /\ Moved(t)
         /\ stage'[t] = "run" => Head(todo'[t]) # "onboard"
<1>1. answer \in [Task -> {"none", "ok", "err"}] /\ Calls /\ Place
  BY DEF GatewayInv, Types
<1>2. CASE Ready(t)
  BY <1>1, <1>2, ReturnKeeps DEF Ready, Moved, Calls
<1>3. CASE Diagnose(t)
  <2>1. /\ round' \in [Task -> 0..Rounds]
        /\ \A u \in Task \ {t} : round'[u] = round[u]
    BY <1>1, <1>3, GatewayAssumption DEF Diagnose, NextRound, Calls, Place
  <2>2. CASE Return(t, "err")
    BY <1>1, <2>1, <2>2, ReturnKeeps DEF Moved
  <2>3. ASSUME NEW p \in Plan, Then(t, p), p = <<>> \/ Head(p) # "onboard"
        PROVE  Moved(t) /\ (stage'[t] = "run" => Head(todo'[t]) # "onboard")
    <3>1. Moved(t) /\ todo'[t] \in {p, <<>>}
      BY <1>1, <2>1, <2>3, ThenKeeps DEF Moved
    <3>2. stage'[t] = "run" => todo'[t] # <<>>
      BY <3>1 DEF Moved, Place
    <3> QED BY <2>3, <3>1, <3>2
  <2>4. CASE \E c \in Remedied(t) : Then(t, Remedy(c))
    BY <2>3, <2>4, RemedyPlan DEF Remedied
  <2> QED BY <1>3, <2>2, <2>3, <2>4, EmptyPlan DEF Diagnose
<1> QED BY <1>2, <1>3

LEMMA AllEnd ==
  ASSUME Calls, UNCHANGED <<round, answer>>, AllCallsEnd
  PROVE  Calls' /\ Place' /\ \A t \in Task : stage'[t] = "done"
BY EmptyPlan DEF AllCallsEnd, Calls, Place

-----------------------------------------------------------------------------
(* GatewayInv is inductive. *)

LEMMA IInit == GatewayInit => GatewayInv
<1> SUFFICES ASSUME GatewayInit PROVE GatewayInv
  OBVIOUS
<1>1. Types
  BY DEF GatewayInit, Types
<1>2. Calls /\ Place
  BY EmptyPlan, GatewayAssumption DEF GatewayInit, Calls, Place
<1>3. Aside
  BY DEF GatewayInit, Aside
<1> QED BY <1>1, <1>2, <1>3 DEF GatewayInv

(* The calls of one process: a step of t. *)
LEMMA CallKeeps ==
  ASSUME GatewayInv, NEW t \in Task, Begin(t) \/ Operate(t) \/ Ready(t) \/ Diagnose(t)
  PROVE  GatewayInv'
<1>1. Moved(t) /\ (stage'[t] = "run" /\ Head(todo'[t]) = "onboard"
                      => Operate(t) /\ Head(todo[t]) = "set_aside")
  BY BeginMoves, OperateMoves, WaitMoves, BootPlan
<1>2. Types'
  <2>1. /\ port' \in {"free", "gateway", "other"}
        /\ entry' \in {"none", "online", "stopped"}
        /\ config' \in {"none", "users", "fresh"}
        /\ backup' \in {"none", "old", "users", "fresh"}
        /\ quit' \in {"no", "stopped", "gone", "killed"}
        /\ spared' \subseteq Task
    BY DEF GatewayInv, Types, Begin, Operate, Ready, Diagnose, FreePort, Cleared, Freed, Idle,
           SetAside, Onboard, Started, pm2, home
  <2> QED BY <1>1, <2>1 DEF Moved, Types
<1>3. Aside'
  <2>1. CASE UNCHANGED home
    <3>1. Operate(t) => Head(todo[t]) # "set_aside" \/ SetAside
      BY DEF Operate
    <3>2. stage'[t] = "run" /\ Head(todo'[t]) = "onboard"
            => ~(config = "users" /\ backup = "none")
      BY <1>1, <2>1, <3>1 DEF SetAside, home
    <3> QED BY <1>1, <2>1, <3>2 DEF Aside, GatewayInv, Moved, home
  <2>2. CASE SetAside /\ ~UNCHANGED home
    BY <2>2 DEF SetAside, Aside, GatewayInv, Types, home
  <2>3. CASE Operate(t) /\ Onboard /\ Head(todo[t]) = "onboard" /\ ~UNCHANGED home
    BY <2>3 DEF Onboard, Aside, GatewayInv, Types, home
  <2> QED BY <2>1, <2>2, <2>3
          DEF Begin, Operate, Ready, Diagnose, FreePort, Cleared, Idle, Started, home
<1> QED BY <1>1, <1>2, <1>3 DEF GatewayInv, Moved

LEMMA INext == GatewayInv /\ [GatewayNext]_gatevars => GatewayInv'
<1> SUFFICES ASSUME GatewayInv, [GatewayNext]_gatevars PROVE GatewayInv'
  OBVIOUS
<1>1. ASSUME NEW t \in Task, KillClients(t) PROVE GatewayInv'
  <2>1. AllCallsEnd /\ UNCHANGED <<round, answer, entry, home, spared>>
        /\ port' \in {"free", "gateway"} /\ quit' = "killed"
    BY <1>1 DEF KillClients, FreePortOfClients
  <2> QED BY <2>1, AllEnd DEF GatewayInv, Types, Aside, home
<1>2. CASE AppExits
  <2>1. AllCallsEnd /\ UNCHANGED <<round, answer, pm2, home, spared>> /\ quit' = "gone"
    BY <1>2 DEF AppExits
  <2> QED BY <2>1, AllEnd DEF GatewayInv, Types, Aside, pm2, home
<1>3. CASE \/ Listens \/ Crashes
           \/ StopLocalService \/ RestartLocalService \/ StopOnExit
  <2>1. UNCHANGED <<home, call>>
    BY <1>3 DEF Listens, Crashes, StopLocalService, RestartLocalService, StopOnExit
  <2>2. /\ port' \in {"free", "gateway", "other"}
        /\ entry' \in {"none", "online", "stopped"}
        /\ quit' \in {"no", "stopped", "gone", "killed"}
        /\ spared' \subseteq Task
    BY <1>3 DEF GatewayInv, Types, Listens, Crashes, StopLocalService, RestartLocalService,
                StopOnExit, StopsEntry, Freed
  <2> QED BY <2>1, <2>2 DEF GatewayInv, Types, Calls, Place, Aside, home, call
<1>4. CASE UNCHANGED gatevars
  BY <1>4 DEF GatewayInv, Types, Calls, Place, Aside, gatevars
<1>5. ASSUME NEW t \in Task, Hangs(t) PROVE GatewayInv'
  <2>1. /\ UNCHANGED <<pm2, home, round, answer, spared, quit>>
        /\ stage' = [stage EXCEPT ![t] = "hung"]
        /\ todo' = [todo EXCEPT ![t] = <<>>]
    BY <1>5 DEF Hangs
  <2>2. Calls' /\ Place'
    BY <2>1, EmptyPlan DEF GatewayInv, Calls, Place
  <2> QED BY <2>1, <2>2 DEF GatewayInv, Types, Calls, Aside, pm2, home
<1> QED BY <1>1, <1>2, <1>3, <1>4, <1>5, CallKeeps DEF GatewayNext, Step

THEOREM GatewayInvariant == GatewaySpec => []GatewayInv
BY IInit, INext, PTL DEF GatewaySpec

(* Every variable has its type, for every number of calls and of rounds. *)
THEOREM GatewayTypes == GatewaySpec => []GatewayTypeOK
<1>1. GatewayInv => GatewayTypeOK
  BY DEF GatewayInv, Types, Calls, Plan, GatewayTypeOK
<1> QED BY <1>1, GatewayInvariant, PTL

-----------------------------------------------------------------------------
(* The user's configuration is in place or in the backup, whoever resets it  *)
(* and however often.                                                        *)
THEOREM ConfigIsSafe == GatewaySpec => ConfigSafe
<1> DEFINE Safe == "users" \in {config, backup} /\ backup # "old"
                     => "users" \in {config', backup'}
<1>1. GatewayInv /\ [GatewayNext]_gatevars => [Safe]_gatevars
  <2> SUFFICES ASSUME GatewayInv, GatewayNext PROVE Safe
    BY DEF gatevars
  <2>1. ASSUME NEW t \in Task, Operate(t) PROVE Safe
    <3>1. CASE UNCHANGED home
      BY <3>1 DEF home
    <3>2. CASE SetAside
      BY <3>2 DEF SetAside, GatewayInv, Types, Aside
    <3>3. CASE Head(todo[t]) = "onboard" /\ Onboard
      <4>1. ~(config = "users" /\ backup = "none")
        BY <2>1, <3>3 DEF GatewayInv, Aside, Operate
      <4> QED BY <3>3, <4>1 DEF Onboard, GatewayInv, Aside, Types
    <3> QED BY <2>1, <3>1, <3>2, <3>3
            DEF Operate, FreePort, Cleared, Idle, Started, home
  <2>2. CASE \E t \in Task : Begin(t) \/ KillClients(t) \/ Ready(t) \/ Diagnose(t) \/ Hangs(t)
    BY <2>2 DEF Hangs, Begin, KillClients, FreePortOfClients, Ready, Diagnose, home
  <2>3. CASE \/ Listens \/ Crashes
             \/ StopLocalService \/ RestartLocalService \/ StopOnExit \/ AppExits
    BY <2>3 DEF Listens, Crashes, StopLocalService, RestartLocalService, StopOnExit,
                AppExits, home
  <2> QED BY <2>1, <2>2, <2>3 DEF GatewayNext, Step
<1> QED BY <1>1, GatewayInvariant, PTL DEF GatewaySpec, ConfigSafe

-----------------------------------------------------------------------------
(* Whoever else has the port when a call waits for it has survived its kill. *)

LEMMA ClearKeeps ==
  ASSUME GatewayInv, Clear, [GatewayNext]_gatevars
  PROVE  Clear'
<1> SUFFICES ASSUME port' = "other", NEW t \in Task, Past(t)' PROVE t \in spared'
  BY DEF Clear
<1>1. Past(t) /\ port = "other" => t \in spared
  BY DEF Clear
<1>2. ASSUME NEW u \in Task, Begin(u) PROVE t \in spared'
  <2>1. port = "other" /\ spared' = spared
    BY <1>2 DEF Begin, pm2
  <2>2. Moved(u) /\ ~Past(u)'
    BY <1>2, BeginMoves, BootPlan DEF Past
  <2>3. u # t
    BY <2>2
  <2> QED BY <1>1, <2>1, <2>2, <2>3 DEF Moved, Past
<1>3. ASSUME NEW u \in Task, Operate(u) PROVE t \in spared'
  <2>1. Moved(u) /\ stage[u] = "run"
    BY <1>3, OperateMoves DEF Operate
  <2>2. CASE FreePort(u) /\ Head(todo[u]) = "free_port"
    <3>1. spared' = spared \cup {u} /\ port = "other"
      BY <2>2 DEF FreePort
    <3>2. CASE u = t
      BY <3>1, <3>2
    <3>3. CASE u # t
      BY <1>1, <2>1, <3>1, <3>3 DEF Moved, Past
    <3> QED BY <3>2, <3>3
  <2>3. CASE Head(todo[u]) # "free_port"
    <3>1. spared' = spared
      BY <1>3, <2>3 DEF Operate
    <3>2. port = "other"
      BY <1>3, <2>3 DEF Operate, Cleared, Freed, Idle, SetAside, Onboard, Started, pm2, GatewayInv, Types
    <3>3. CASE u = t
      BY <1>1, <2>1, <2>3, <3>1, <3>2, <3>3 DEF Past
    <3>4. CASE u # t
      BY <1>1, <2>1, <3>1, <3>2, <3>4 DEF Moved, Past
    <3> QED BY <3>3, <3>4
  <2> QED BY <1>3, <2>2, <2>3 DEF Operate
<1>4. ASSUME NEW u \in Task, Ready(u) \/ Diagnose(u) PROVE t \in spared'
  <2>1. Past(u) /\ spared' = spared /\ port = "other" /\ Moved(u)
    BY <1>4, WaitMoves DEF Ready, Diagnose, pm2, Past
  <2>2. CASE u = t
    BY <1>1, <2>1, <2>2
  <2>3. CASE u # t
    BY <1>1, <2>1, <2>3 DEF Moved, Past
  <2> QED BY <2>2, <2>3
<1>5. ASSUME NEW u \in Task, Hangs(u) PROVE t \in spared'
  <2>1. port = "other" /\ spared' = spared
    BY <1>5 DEF Hangs, pm2
  <2>2. stage' = [stage EXCEPT ![u] = "hung"] /\ todo' = [todo EXCEPT ![u] = <<>>]
    BY <1>5 DEF Hangs
  <2>3. u # t
    BY <2>2 DEF Past, GatewayInv, Calls
  <2>4. stage'[t] = stage[t] /\ todo'[t] = todo[t]
    BY <2>2, <2>3 DEF GatewayInv, Calls
  <2> QED BY <1>1, <2>1, <2>4 DEF Past
<1>6. CASE \/ Listens \/ Crashes
           \/ StopLocalService \/ RestartLocalService \/ StopOnExit
  <2>1. port = "other" /\ UNCHANGED <<stage, todo, spared>>
    BY <1>6 DEF Listens, Crashes, StopLocalService, RestartLocalService, StopOnExit,
                StopsEntry, Freed, call, GatewayInv, Types
  <2> QED BY <1>1, <2>1 DEF Past
<1>7. CASE AppExits \/ \E u \in Task : KillClients(u)
  BY <1>7 DEF AppExits, KillClients, FreePortOfClients, AllCallsEnd, Past
<1>8. CASE UNCHANGED gatevars
  BY <1>1, <1>8 DEF Past, gatevars
<1> QED BY <1>2, <1>3, <1>4, <1>5, <1>6, <1>7, <1>8 DEF GatewayNext, Step

(* A start that reports the gateway ready saw the gateway itself, or a       *)
(* program that this start tried to kill and could not.                      *)
THEOREM ReadyOfGatewayOrSurvivor == GatewaySpec => ReadyIsGatewayOrSurvivor
<1> DEFINE Ok == \A t \in Task : answer[t] # "ok" /\ answer'[t] = "ok"
                    => port = "gateway" \/ (port = "other" /\ t \in spared)
<1>1. GatewayInit => Clear
  BY DEF GatewayInit, Clear, Past
<1>2. GatewayInv /\ Clear /\ [GatewayNext]_gatevars => Clear'
  BY ClearKeeps
<1>3. GatewayInv /\ Clear /\ [GatewayNext]_gatevars => [Ok]_gatevars
  <2> SUFFICES ASSUME GatewayInv, Clear, GatewayNext PROVE Ok
    BY DEF gatevars
  <2>1. ASSUME NEW t \in Task, Ready(t) PROVE Ok
    <3>1. /\ stage[t] = "wait" /\ port # "free" /\ port \in {"free", "gateway", "other"}
          /\ answer' = [answer EXCEPT ![t] = "ok"]
      BY <2>1 DEF Ready, Return, GatewayInv, Types
    <3>2. port = "gateway" \/ (port = "other" /\ t \in spared)
      BY <3>1 DEF Clear, Past
    <3>3. \A u \in Task \ {t} : answer'[u] = answer[u]
      BY <3>1 DEF GatewayInv, Types
    <3> QED BY <3>2, <3>3
  <2>2. ASSUME NEW t \in Task, Begin(t) \/ Operate(t) \/ Diagnose(t) PROVE Ok
    <3>1. \/ UNCHANGED answer
          \/ answer' = [answer EXCEPT ![t] = "err"]
      BY <2>2 DEF Begin, Operate, Diagnose, Then, Return
    <3> QED BY <3>1 DEF GatewayInv, Types
  <2>3. CASE \/ Listens \/ Crashes \/ StopLocalService \/ RestartLocalService
             \/ StopOnExit \/ AppExits \/ \E t \in Task : KillClients(t) \/ Hangs(t)
    BY <2>3 DEF Listens, Crashes, StopLocalService, RestartLocalService, StopOnExit, AppExits,
                KillClients, FreePortOfClients, Hangs, call
  <2> QED BY <2>1, <2>2, <2>3 DEF GatewayNext, Step
<1> QED BY <1>1, <1>2, <1>3, GatewayInvariant, PTL DEF GatewaySpec, ReadyIsGatewayOrSurvivor
=============================================================================
