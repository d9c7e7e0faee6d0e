------------------------ MODULE RegistryPagesProofs ------------------------
(***************************************************************************)
(* Theorems about the pages that keep records (MCP servers, token usage,   *)
(* prices and budgets, API keys), for any servers, instances, prices and   *)
(* providers, and any number of handlers in flight.                        *)
(***************************************************************************)
EXTENDS MCRegistryPages, TLAPS

-----------------------------------------------------------------------------
(* The registry of MCP servers. *)

(* The ids that were ever inserted. *)
Inserted == Known \cup dropped

IsJob(j) == j = [kind |-> j.kind, id |-> j.id, at |-> j.at, arg |-> j.arg]

(* What a page shows, and what a load or a delete has kept of it, was inserted; *)
(* what the form is about to insert was not.                                    *)
JobInv(j, ids) ==
  /\ IsJob(j)
  /\ j.kind = "add" => j.at = "insert" /\ j.arg = FALSE /\ j.id \notin ids
  /\ j.kind = "delete" => j.id \in ids /\ DOMAIN j.arg \subseteq ids
  /\ j.kind = "load" /\ j.at = "shows" => DOMAIN j.arg \subseteq ids

IdsInv ==
  /\ DOMAIN rows \subseteq Inserted
  /\ \A j \in jobs : JobInv(j, Inserted)
  /\ DroppedStaysDropped

IsServer(s) == s = [enabled |-> s.enabled, risk |-> s.risk]

GradeInv ==
  /\ table = [i \in Known |-> table[i]] /\ \A i \in Known : IsServer(table[i])
  /\ DangerIsOff

McpInv == IdsInv /\ GradeInv

(* The steps of the registry. *)
LEMMA IdsStep ==
  ASSUME IdsInv, McpNext PROVE IdsInv'
<1> USE DEF IdsInv
<1>1. ASSUME NEW ids, NEW j, JobInv(j, ids), NEW at PROVE
        /\ j.kind # "add" => JobInv([j EXCEPT !.at = at], ids) \/ j.kind = "load"
        /\ [j EXCEPT !.at = at].kind = j.kind
  BY <1>1 DEF JobInv, IsJob
<1>2. \A ids : JobInv(Loads, ids)
  BY DEF JobInv, IsJob, Loads, Job
(* A step that inserts and drops nothing. *)
<1>3. ASSUME Known' = Known, dropped' = dropped, DOMAIN rows' \subseteq Inserted,
             \A j \in jobs' : j \in jobs \/ JobInv(j, Inserted)
      PROVE  IdsInv'
  <2>1. Inserted' = Inserted
    BY <1>3 DEF Inserted
  <2>2. DroppedStaysDropped'
    BY <1>3 DEF DroppedStaysDropped
  <2> QED
    BY <1>3, <2>1, <2>2
<1>4. \A f, id, row : DOMAIN Update(f, id, row) = DOMAIN f
  BY DEF Update
<1>5. ASSUME LoadServers \/ ClearAudit PROVE IdsInv'
  BY <1>2, <1>3, <1>5 DEF LoadServers, ClearAudit, Known
<1>6. ASSUME NEW id \in ServerIds, HandleAdd(id) PROVE IdsInv'
  <2>1. JobInv(Job("add", id, "insert", FALSE), Inserted)
    BY <1>6 DEF HandleAdd, JobInv, IsJob, Job, Inserted
  <2> QED
    BY <1>3, <1>6, <2>1 DEF HandleAdd, Known
<1>7. ASSUME NEW id \in ServerIds, HandleToggle(id) PROVE IdsInv'
  <2>1. JobInv(Job("toggle", id, "write", ~rows[id].enabled), Inserted)
    BY DEF JobInv, IsJob, Job
  <2> QED
    BY <1>3, <1>4, <1>7, <2>1 DEF HandleToggle, Known
<1>8. ASSUME NEW id \in ServerIds, HandleDelete(id) PROVE IdsInv'
  <2>1. JobInv(Job("delete", id, "audit", rows), Inserted)
    BY <1>8 DEF JobInv, IsJob, Job, HandleDelete
  <2> QED
    BY <1>3, <1>8, <2>1 DEF HandleDelete, Known
<1>9. ASSUME NEW id \in ServerIds, HandleScan(id) PROVE IdsInv'
  <2>1. JobInv(Job("scan", id, "grade", "card"), Inserted)
    BY DEF JobInv, IsJob, Job
  <2> QED
    BY <1>3, <1>9, <2>1 DEF HandleScan, Known
<1>10. ASSUME NEW j \in jobs, JobGoesOn(j) PROVE IdsInv'
  <2>0. JobInv(j, Inserted)
    OBVIOUS
  <2>1. CASE LoadReads(j)
    <3>1. JobInv(Job("load", 0, "shows", table), Inserted)
      BY DEF JobInv, IsJob, Job, Inserted, Known
    <3> QED
      BY <1>3, <2>1, <3>1 DEF LoadReads, Moves, Known
  <2>2. CASE LoadShows(j) \/ InsertFails(j) \/ ToggleFails(j) \/ DeleteFails(j)
    <3>1. Known' = Known /\ dropped' = dropped /\ jobs' \subseteq jobs
      BY <2>2 DEF LoadShows, InsertFails, ToggleFails, DeleteFails, Moves, Known
    <3>2. CASE LoadShows(j) \/ InsertFails(j) \/ DeleteFails(j)
      BY <1>3, <2>0, <3>1, <3>2 DEF LoadShows, InsertFails, DeleteFails, JobInv
    <3>3. CASE ToggleFails(j)
      <4>1. DOMAIN rows' = DOMAIN rows
        BY <1>4, <3>3 DEF ToggleFails
      <4> QED
        BY <1>3, <3>1, <4>1
    <3> QED
      BY <2>2, <3>2, <3>3
  <2>3. CASE AddInserts(j)
    <3>1. Known' = Known \cup {j.id} /\ dropped' = dropped /\ j.kind = "add"
      BY <2>3 DEF AddInserts, TableWith, Known
    <3>2. Inserted' = Inserted \cup {j.id} /\ DroppedStaysDropped'
      BY <2>0, <3>1 DEF Inserted, DroppedStaysDropped, JobInv
    <3>3. JobInv(Job("scan", j.id, "grade", "form"), Inserted')
      BY DEF JobInv, IsJob, Job
    <3>4. ASSUME NEW k \in jobs, k # j PROVE JobInv(k, Inserted')
      <4>1. JobInv(k, Inserted)
        OBVIOUS
      <4>2. k.kind = "add" => k.id # j.id
        BY <2>0, <3>1, <3>4, <4>1 DEF JobInv, IsJob
      <4> QED
        BY <3>2, <4>1, <4>2 DEF JobInv
    <3>5. \A k \in jobs' : JobInv(k, Inserted')
      BY <2>3, <3>3, <3>4 DEF AddInserts, Moves
    <3> QED
      BY <2>3, <3>2, <3>5 DEF AddInserts
  <2>4. CASE ToggleWrites(j) \/ AutoDisable(j)
    <3>1. Known' = Known
      BY <1>4, <2>4 DEF ToggleWrites, AutoDisable, SetEnabled, Known
    <3> QED
      <4>1. CASE ToggleWrites(j)
        BY <1>3, <3>1, <4>1 DEF ToggleWrites, Moves
      <4>2. CASE AutoDisable(j)
        <5>1. JobInv([j EXCEPT !.at = "blocked"], Inserted)
          BY <1>1, <2>0, <4>2 DEF AutoDisable
        <5> QED
          BY <1>3, <3>1, <4>2, <5>1 DEF AutoDisable, Moves
      <4> QED
        BY <2>4, <4>1, <4>2
  <2>5. CASE DeleteAudit(j)
    BY <1>1, <1>3, <2>0, <2>5 DEF DeleteAudit, Moves, Known
  <2>6. CASE DeleteRow(j)
    <3>1. Known' = Known \ {j.id} /\ dropped' = dropped \cup {j.id} /\ j.id \in Inserted
      BY <2>0, <2>6 DEF DeleteRow, Known, JobInv
    <3>2. Inserted' = Inserted /\ DroppedStaysDropped'
      BY <3>1 DEF Inserted, DroppedStaysDropped
    <3> QED
      BY <2>6, <3>2 DEF DeleteRow, Moves
  <2>7. CASE \E risk \in {"safe", "danger"} : ScanGrades(j, risk)
    BY <1>1, <1>3, <2>0, <2>7 DEF ScanGrades, Moves, Known
  <2>8. CASE UpdateServerRisk(j)
    <3>1. Known' = Known
      BY <1>4, <2>8 DEF UpdateServerRisk, Known
    <3> QED
      BY <1>1, <1>3, <2>0, <2>8, <3>1 DEF UpdateServerRisk, Moves
  <2>9. CASE ScanAudits(j) \/ ScanFails(j)
    BY <1>2, <1>3, <2>9 DEF ScanAudits, ScanFails, Moves, Known
  <2> QED
    BY <1>10, <2>1, <2>2, <2>3, <2>4, <2>5, <2>6, <2>7, <2>8, <2>9 DEF JobGoesOn
<1> QED
  BY <1>5, <1>6, <1>7, <1>8, <1>9, <1>10 DEF McpNext

(* A server is dangerous and enabled for one of two reasons: the user, or a   *)
(* scan that is still to switch it off.                                       *)
Excused(id, ids, these) ==
  id \in ids \/ \E j \in these : j.kind = "scan" /\ j.id = id /\ j.at = "off"

LEMMA GradeStep ==
  ASSUME IdsInv, GradeInv, McpNext PROVE GradeInv'
<1> USE DEF GradeInv
<1>1. ASSUME NEW id \in Known, table[id].risk = "danger", table[id].enabled
      PROVE  Excused(id, forced, jobs)
  BY <1>1 DEF DangerIsOff, Excused
<1>2. ASSUME \A id \in Known' : table'[id].risk = "danger" /\ table'[id].enabled
               => Excused(id, forced', jobs')
      PROVE  DangerIsOff'
  BY <1>2 DEF DangerIsOff, Excused
(* A step that keeps the table, and every scan that is to switch off.         *)
<1>3. ASSUME table' = table, forced \subseteq forced',
             \A j \in jobs : j.kind = "scan" /\ j.at = "off" => j \in jobs' \/ j.id \in forced'
      PROVE  GradeInv'
  <2>1. \A id : Excused(id, forced, jobs) => Excused(id, forced', jobs')
    BY <1>3 DEF Excused
  <2> QED
    BY <1>1, <1>2, <1>3, <2>1 DEF Known
<1>4. ASSUME LoadServers \/ ClearAudit
             \/ \E id \in ServerIds : HandleAdd(id) \/ HandleToggle(id) \/ HandleDelete(id) \/ HandleScan(id)
      PROVE  GradeInv'
  BY <1>3, <1>4 DEF LoadServers, ClearAudit, HandleAdd, HandleToggle, HandleDelete, HandleScan
<1>5. ASSUME NEW j \in jobs, JobGoesOn(j) PROVE GradeInv'
  <2>0. IsJob(j)
    BY DEF IdsInv, JobInv
  <2>1. CASE \/ LoadReads(j) \/ LoadShows(j) \/ InsertFails(j) \/ ToggleFails(j) \/ DeleteAudit(j) \/ DeleteFails(j)
             \/ \E risk \in {"safe", "danger"} : ScanGrades(j, risk)
             \/ ScanAudits(j) \/ ScanFails(j)
    <3>1. UNCHANGED <<table, forced>> /\ ~(j.kind = "scan" /\ j.at = "off") /\ jobs \ {j} \subseteq jobs'
      BY <2>1 DEF LoadReads, LoadShows, InsertFails, ToggleFails, DeleteAudit, DeleteFails, ScanGrades,
                  ScanAudits, ScanFails, Moves
    <3> QED
      BY <1>3, <3>1
  (* A row changes, or comes, or goes. *)
  <2>2. ASSUME NEW id, id \in Known', \A i \in Known' : i # id => i \in Known /\ table'[i] = table[i],
               table' = [i \in Known' |-> table'[i]], IsServer(table'[id]),
               table'[id].risk = "danger" /\ table'[id].enabled => Excused(id, forced', jobs'),
               forced \subseteq forced' \cup {id},
               \A k \in jobs : k.kind = "scan" /\ k.at = "off" => k \in jobs' \/ k.id = id
        PROVE  GradeInv'
    <3>1. \A i : i # id /\ Excused(i, forced, jobs) => Excused(i, forced', jobs')
      BY <2>2 DEF Excused
    <3>2. DangerIsOff'
      BY <1>1, <1>2, <2>2, <3>1
    <3> QED
      BY <2>2, <3>2
  <2>3. CASE AddInserts(j)
    <3>1. table' = [i \in Known \cup {j.id} |-> IF i = j.id THEN Unknown ELSE table[i]]
      BY <2>3 DEF AddInserts, TableWith
    <3>2. Known' = Known \cup {j.id}
      BY <3>1 DEF Known
    <3>3. table'[j.id] = Unknown /\ \A i \in Known' : i # j.id => i \in Known /\ table'[i] = table[i]
      BY <3>1, <3>2
    <3>4. forced' = forced /\ \A k \in jobs : k.kind = "scan" => k \in jobs'
      BY <2>3 DEF AddInserts, Moves
    <3>5. IsServer(Unknown) /\ Unknown.risk # "danger"
      BY DEF IsServer, Unknown
    <3> QED
      BY <2>2, <3>1, <3>2, <3>3, <3>4, <3>5
  <2>4. ASSUME NEW row, table' = Update(table, j.id, row), j.id \in Known, IsServer(row),
               row.risk = "danger" /\ row.enabled => Excused(j.id, forced', jobs'),
               forced \subseteq forced' \cup {j.id},
               \A k \in jobs : k.kind = "scan" /\ k.at = "off" => k \in jobs' \/ k.id = j.id
        PROVE  GradeInv'
    <3>1. Known' = Known /\ table'[j.id] = row /\ table' = [i \in Known' |-> table'[i]]
      BY <2>4 DEF Update, Known
    <3>2. \A i \in Known' : i # j.id => i \in Known /\ table'[i] = table[i]
      BY <2>4, <3>1 DEF Update, Known
    <3>3. j.id \in Known' /\ IsServer(table'[j.id])
      BY <2>4, <3>1
    <3>4. table'[j.id].risk = "danger" /\ table'[j.id].enabled => Excused(j.id, forced', jobs')
      BY <2>4, <3>1
    <3> QED
      BY <2>2, <2>4, <3>1, <3>2, <3>3, <3>4
  <2>5. ASSUME NEW enabled, j.id \in Known PROVE
          LET row == [table[j.id] EXCEPT !.enabled = enabled]
          IN  IsServer(row) /\ row.risk = table[j.id].risk /\ row.enabled = enabled
    BY <2>5 DEF IsServer
  <2>6. CASE ToggleWrites(j)
    <3>1. \A k \in jobs : k.kind = "scan" => k \in jobs'
      BY <2>6 DEF ToggleWrites, Moves
    <3>2. j.arg => j.id \in forced'
      BY <2>6 DEF ToggleWrites
    <3>3. forced \subseteq forced'
      BY <2>6 DEF ToggleWrites
    <3>4. CASE j.id \notin Known
      BY <1>3, <2>6, <3>1, <3>3, <3>4 DEF ToggleWrites, SetEnabled
    <3>5. CASE j.id \in Known
      <4>1. table' = Update(table, j.id, [table[j.id] EXCEPT !.enabled = j.arg])
        BY <2>6, <3>5 DEF ToggleWrites, SetEnabled
      <4> QED
        <5> DEFINE row == [table[j.id] EXCEPT !.enabled = j.arg]
        <5>1. IsServer(row) /\ row.enabled = j.arg
          BY <2>5, <3>5
        <5>2. j.arg => Excused(j.id, forced', jobs')
          BY <3>2 DEF Excused
        <5> HIDE DEF row
        <5> QED
          BY <2>4, <3>1, <3>3, <3>5, <4>1, <5>1, <5>2 DEF row
    <3> QED
      BY <3>4, <3>5
  <2>7. CASE DeleteRow(j)
    <3>1. /\ table' = [i \in Known \ {j.id} |-> table[i]] /\ forced' = forced
          /\ \A k \in jobs : k.kind = "scan" => k \in jobs'
      BY <2>7 DEF DeleteRow, Moves
    <3>2. Known' = Known \ {j.id}
      BY <3>1 DEF Known
    <3>3. \A i : Excused(i, forced, jobs) => Excused(i, forced', jobs')
      BY <3>1 DEF Excused
    <3>4. DangerIsOff'
      BY <1>1, <1>2, <3>1, <3>2, <3>3
    <3> QED
      BY <3>1, <3>2, <3>4
  <2>8. CASE UpdateServerRisk(j)
    <3>1. /\ j.kind = "scan" /\ j.at \in {"safe", "danger"} /\ forced' = forced
          /\ jobs' = (jobs \ {j}) \cup {[j EXCEPT !.at = IF j.at = "danger" THEN "off" ELSE "allowed"]}
      BY <2>8 DEF UpdateServerRisk, Moves
    <3>2. \A k \in jobs : k.kind = "scan" /\ k.at = "off" => k \in jobs'
      BY <3>1
    <3>3. CASE j.id \notin Known
      BY <1>3, <2>8, <3>1, <3>2, <3>3 DEF UpdateServerRisk
    <3>4. CASE j.id \in Known
      <4>1. table' = Update(table, j.id, [table[j.id] EXCEPT !.risk = j.at])
        BY <2>8, <3>4 DEF UpdateServerRisk
      <4>2. /\ IsServer([table[j.id] EXCEPT !.risk = j.at])
            /\ [table[j.id] EXCEPT !.risk = j.at].risk = j.at
        BY <3>4 DEF IsServer
      <4>3. j.at = "danger" => Excused(j.id, forced', jobs')
        <5>1. [j EXCEPT !.at = "off"].kind = "scan" /\ [j EXCEPT !.at = "off"].id = j.id
              /\ [j EXCEPT !.at = "off"].at = "off"
          BY <2>0, <3>1 DEF IsJob
        <5> QED
          BY <3>1, <5>1 DEF Excused
      <4> QED
        BY <2>4, <3>1, <3>2, <3>4, <4>1, <4>2, <4>3
    <3> QED
      BY <3>3, <3>4
  <2>9. CASE AutoDisable(j)
    <3>1. jobs \ {j} \subseteq jobs'
      BY <2>9 DEF AutoDisable, Moves
    <3>2. CASE forced' = forced \cup {j.id} /\ UNCHANGED table
      BY <1>3, <3>1, <3>2
    <3>3. CASE SetEnabled(j.id, FALSE) /\ forced' = forced \ {j.id} /\ j.id \in Known
      <4>1. table' = Update(table, j.id, [table[j.id] EXCEPT !.enabled = FALSE])
        BY <3>3 DEF SetEnabled
      <4> QED
        <5> DEFINE row == [table[j.id] EXCEPT !.enabled = FALSE]
        <5>1. IsServer(row) /\ row.enabled = FALSE
          BY <2>5, <3>3
        <5>2. forced \subseteq forced' \cup {j.id}
          BY <3>3
        <5>3. \A k \in jobs : k \in jobs' \/ k.id = j.id
          BY <3>1
        <5> HIDE DEF row
        <5> QED
          BY <2>4, <3>3, <4>1, <5>1, <5>2, <5>3 DEF row
    <3>4. CASE SetEnabled(j.id, FALSE) /\ forced' = forced \ {j.id} /\ j.id \notin Known
      <4>1. table' = table
        BY <3>4 DEF SetEnabled
      <4>2. \A i : i # j.id /\ Excused(i, forced, jobs) => Excused(i, forced', jobs')
        BY <3>1, <3>4 DEF Excused
      <4>3. DangerIsOff'
        BY <1>1, <1>2, <3>4, <4>1, <4>2 DEF Known
      <4> QED
        BY <4>1, <4>3 DEF Known
    <3> QED
      BY <2>9, <3>2, <3>3, <3>4 DEF AutoDisable
  <2> QED
    BY <1>5, <2>1, <2>3, <2>6, <2>7, <2>8, <2>9 DEF JobGoesOn
<1> QED
  BY <1>4, <1>5 DEF McpNext

LEMMA McpStarts == McpInit => McpInv
BY DEF McpInit, McpInv, IdsInv, GradeInv, DangerIsOff, DroppedStaysDropped, Known, Inserted,
       Loads, Job, JobInv, IsJob, IsServer

LEMMA McpStep == McpInv /\ [McpNext]_mcpvars => McpInv'
<1> SUFFICES ASSUME McpInv, UNCHANGED mcpvars PROVE McpInv'
  BY IdsStep, GradeStep DEF McpInv
<1>1. Known' = Known /\ Inserted' = Inserted
  BY DEF mcpvars, Known, Inserted
<1> QED
  BY <1>1 DEF McpInv, IdsInv, GradeInv, DangerIsOff, DroppedStaysDropped, mcpvars

-----------------------------------------------------------------------------
(* Prices and budgets. *)

(* The open page shows the budgets as they are stored. *)
CostInv == view = "tokens" => /\ shown.global = GetBudget(Global)
                              /\ shown.own = OwnBudget(shown.sel)

LEMMA CostStarts == CostInit => CostInv
BY DEF CostInit, CostInv

LEMMA CostStep == CostInv /\ [CostNext]_costvars => CostInv'
<1> SUFFICES ASSUME CostInv, [CostNext]_costvars PROVE CostInv'
  OBVIOUS
<1>1. ASSUME UNCHANGED <<view, shown, saved>> PROVE CostInv'
  BY <1>1 DEF CostInv, GetBudget, OwnBudget
<1>2. ASSUME view' # "tokens" PROVE CostInv'
  BY <1>2 DEF CostInv
<1>3. CASE OpenTokenPage
  BY <1>3 DEF OpenTokenPage, CostInv, Unseen, OwnBudget, GetBudget
<1>4. ASSUME NEW scope, SelectScope(scope) PROVE CostInv'
  <2>1. /\ UNCHANGED <<view, saved>> /\ view = "tokens"
        /\ shown' = [shown EXCEPT !.sel = scope, !.own = OwnBudget(scope)]
    BY <1>4 DEF SelectScope
  <2> QED
    BY <2>1 DEF CostInv, GetBudget, OwnBudget
<1>5. CASE \/ LeavesPage \/ OpenSettings
           \/ \E scope \in Scopes : \/ ToggleBudget(scope) \/ SaveBudget(scope)
                                    \/ \E daily \in Limits : BudgetLimitInputs(scope, daily)
           \/ \E inst \in Budgeted : ClearInstanceBudget(inst)
           \/ \E name \in Names : \E price \in Offered : SetUserPriceOverride(name, price)
           \/ \E name \in Names : RemoveUserPriceOverride(name)
  BY <1>2, <1>5 DEF LeavesPage, OpenSettings, ToggleBudget, SaveBudget, BudgetLimitInputs,
                    ClearInstanceBudget, SetUserPriceOverride, RemoveUserPriceOverride, Edits
<1>6. CASE UNCHANGED costvars \/ \E c \in {"ORIGINAL", "USD", "CNY"} : SetDisplayCurrency(c)
  BY <1>1, <1>6 DEF costvars, SetDisplayCurrency
<1> QED
  BY <1>3, <1>4, <1>5, <1>6 DEF CostNext

LEMMA StoredWarns == CostInv => WarnsAsStored
<1> SUFFICES ASSUME CostInv, view = "tokens" PROVE WarnsAsStored
  BY DEF WarnsAsStored
<1>1. shown.global = GetBudget(Global) /\ shown.own = OwnBudget(shown.sel)
  BY DEF CostInv
<1>2. shown.own # NoOwn => shown.own = GetBudget(shown.sel) /\ shown.own.enabled
  BY <1>1 DEF OwnBudget
<1> QED
  BY <1>1, <1>2 DEF WarnsAsStored, EffectiveBudget, BudgetProgress, InstanceLevel

(* The two sums of the costs are over the same terms, for any prices.         *)
LEMMA TotalsAre == TotalsAgree
<1> SUFFICES ASSUME currency # "ORIGINAL" PROVE CostSection.total = AggregateCosts
  BY DEF TotalsAgree
<1>1. ASSUME NEW cost, NEW from PROVE ToDisplay(cost, from) = ConvertCost(cost, from, currency)
  <2>1. CASE from = currency
    BY <2>1 DEF ToDisplay, ConvertCost
  <2>2. CASE from # currency /\ from = "USD"
    BY <2>2 DEF ToDisplay, ConvertCost
  <2>3. CASE from # currency /\ from # "USD"
    BY <2>3 DEF ToDisplay, ConvertCost
  <2> QED
    BY <2>1, <2>2, <2>3
<1> DEFINE Cost(i) == CalculateCost(Priced[i])
           From(i) == FindModelPrice(Priced[i].model).currency
<1>2. [i \in DOMAIN Priced |-> ToDisplay(Cost(i), From(i))]
        = [i \in DOMAIN Priced |-> ConvertCost(Cost(i), From(i), currency)]
  BY <1>1
<1> QED
  BY <1>2 DEF CostSection, AggregateCosts

-----------------------------------------------------------------------------
(* The token log. *)

(* Days are numbers, also those of the records. *)
TokenInv == now \in Nat /\ \A r \in log : r.at \in Nat

LEMMA TokenStarts == TokenInit => TokenInv
BY DEF TokenInit, TokenInv

LEMMA TokenStep == TokenInv /\ [TokenNext]_tokenvars => TokenInv'
<1> SUFFICES ASSUME TokenInv, [TokenNext]_tokenvars PROVE TokenInv'
  OBVIOUS
<1> USE DEF TokenInv
<1>1. ASSUME now' \in {now, now + 1}, \A r \in log' : r \in log \/ r.at = now PROVE TokenInv'
  BY <1>1
<1>2. ASSUME NEW inst, NEW tokens, RecordTokenUsage(inst, tokens) PROVE TokenInv'
  <2> DEFINE r == [id |-> count.records, inst |-> inst, tokens |-> tokens, at |-> now]
  <2>1. r.at = now
    OBVIOUS
  <2> HIDE DEF r
  <2>2. log' = log \cup {r} /\ now' = now
    BY <1>2 DEF RecordTokenUsage, r
  <2> QED
    BY <1>1, <2>1, <2>2
<1>3. ASSUME NEW days, PurgeOldRecords(days) PROVE TokenInv'
  BY <1>1, <1>3 DEF PurgeOldRecords
<1>4. CASE DayPasses
  BY <1>1, <1>4 DEF DayPasses
<1>5. CASE OpenToken \/ LeaveToken \/ RefreshToken \/ TimerFires
  BY <1>1, <1>5 DEF OpenToken, LeaveToken, RefreshToken, TimerFires
<1>6. CASE HandleAnomalyKill \/ KillEnds \/ KillNoteExpires \/ UNCHANGED tokenvars
  BY <1>1, <1>6 DEF HandleAnomalyKill, KillEnds, KillNoteExpires, tokenvars
<1>7. ASSUME NEW scope, SelectInstance(scope) PROVE TokenInv'
  BY <1>1, <1>7 DEF SelectInstance
<1>8. ASSUME NEW c, LoadEnds(c) PROVE TokenInv'
  BY <1>1, <1>8 DEF LoadEnds, LoadReadsLog, LoadShowsSummary, LoadFailsToRead
<1>9. ASSUME NEW days, HandlePurge(days) \/ PurgeFails(days) PROVE TokenInv'
  BY <1>1, <1>9 DEF HandlePurge, PurgeFails
<1> QED
  BY <1>2, <1>3, <1>4, <1>5, <1>6, <1>7, <1>8, <1>9 DEF TokenNext

(* What a purge keeps is all that a sum of a shorter past counts. *)
LEMMA PurgeKeepsSince ==
  ASSUME NEW R, \A r \in R : r.at \in Nat, NEW cut \in Int, NEW day \in Int, cut <= day
  PROVE  Since({r \in R : r.at >= cut}, day) = Since(R, day)
BY DEF Since

LEMMA PurgeSparesUsage ==
  ASSUME TokenInv, NEW days \in PurgeDays, now' = now, NEW R, \A r \in R : r.at \in Nat
  PROVE  /\ \A S : UsageOf(S)' = UsageOf(S)
         /\ SparesUsage(days, UsageOf(R), UsageOf({r \in R : r.at >= now - days}))
<1> DEFINE S == {r \in R : r.at >= now - days}
<1>1. now \in Nat /\ days \in Nat \ {0} /\ Month \in Nat \ {0}
  BY TokenAssumption DEF TokenInv
<1>2. StartOfMonth \in Int /\ StartOfMonth' = StartOfMonth
  BY <1>1 DEF StartOfMonth
<1>3. Since(S, now - 1) = Since(R, now - 1)
  BY <1>1, PurgeKeepsSince
<1>4. now - days <= StartOfMonth => Since(S, StartOfMonth) = Since(R, StartOfMonth)
  BY <1>1, <1>2, PurgeKeepsSince
<1>5. \A Q : UsageOf(Q)' = UsageOf(Q)
  BY <1>2 DEF UsageOf
<1> HIDE DEF S
<1>6. SparesUsage(days, UsageOf(R), UsageOf(S))
  BY <1>3, <1>4 DEF UsageOf, SparesUsage
<1> QED
  BY <1>5, <1>6 DEF S

(* The breakdown of all instances, those that leave it included. *)
LEMMA PurgeSparesBreakdown ==
  ASSUME TokenInv, NEW days \in PurgeDays, PurgeOldRecords(days), NEW s, NEW inst
  PROVE  LET before == InstanceBreakdown(s)  after == InstanceBreakdown(s)' IN
         /\ inst \in DOMAIN after => inst \in DOMAIN before
         /\ inst \in DOMAIN before =>
              SparesUsage(days, before[inst], IF inst \in DOMAIN after THEN after[inst] ELSE UsageOf({}))
<1> DEFINE Of == {r \in log : r.inst = inst}
           Left == {r \in Of : r.at >= now - days}
<1>1. now' = now /\ log' = {r \in log : r.at >= now - days} /\ \A r \in log : r.at \in Nat
  BY DEF PurgeOldRecords, TokenInv
<1>2. {r \in log : r.inst = inst}' = Left
  BY <1>1
<1>3. UsageOf(Left)' = UsageOf(Left) /\ SparesUsage(days, UsageOf(Of), UsageOf(Left))
  BY <1>1, PurgeSparesUsage
<1>4. ASSUME s = All PROVE
        /\ inst \in DOMAIN InstanceBreakdown(s) <=> Of # {}
        /\ inst \in DOMAIN InstanceBreakdown(s) => InstanceBreakdown(s)[inst] = UsageOf(Of)
  BY <1>4 DEF InstanceBreakdown
<1>5. ASSUME s = All PROVE
        /\ inst \in DOMAIN InstanceBreakdown(s)' <=> Left # {}
        /\ inst \in DOMAIN InstanceBreakdown(s)' => InstanceBreakdown(s)'[inst] = UsageOf(Left)
  <2>1. StartOfMonth' = StartOfMonth
    BY <1>1 DEF StartOfMonth
  <2>2. inst \in DOMAIN InstanceBreakdown(s)' <=> Left # {}
    BY <1>1, <1>5 DEF InstanceBreakdown
  <2>3. ASSUME inst \in {r.inst : r \in log'}
        PROVE  InstanceBreakdown(s)'[inst]
                 = [total24h |-> Tokens(Since({r \in log' : r.inst = inst}, now - 1)),
                    totalMonth |-> Tokens(Since({r \in log' : r.inst = inst}, StartOfMonth))]
    BY <1>1, <1>5, <2>1, <2>3 DEF InstanceBreakdown, UsageOf
  <2>4. inst \in DOMAIN InstanceBreakdown(s)' <=> inst \in {r.inst : r \in log'}
    BY <1>5 DEF InstanceBreakdown
  <2> QED
    BY <1>2, <2>2, <2>3, <2>4 DEF UsageOf
<1>6. ASSUME s # All PROVE DOMAIN InstanceBreakdown(s) = {} /\ DOMAIN InstanceBreakdown(s)' = {}
  BY <1>6 DEF InstanceBreakdown
<1>7. Left # {} => Of # {}
  OBVIOUS
<1> HIDE DEF Of, Left
<1> QED
  BY <1>3, <1>4, <1>5, <1>6, <1>7

LEMMA PurgeStep ==
  ASSUME TokenInv, NEW days \in PurgeDays, PurgeOldRecords(days), NEW s \in Logged \cup {All}
  PROVE  SparesSummary(days, GetUsageSummary(s), GetUsageSummary(s)')
<1> DEFINE R == RecordsOf(s)
           S == {r \in R : r.at >= now - days}
<1>1. now' = now /\ now \in Nat /\ days \in Nat \ {0} /\ Week \in Nat /\ Week <= days
  BY TokenAssumption DEF PurgeOldRecords, TokenInv
<1>2. RecordsOf(s)' = S /\ \A r \in R : r.at \in Nat
  BY DEF RecordsOf, PurgeOldRecords, TokenInv
<1> HIDE DEF R
<1>3. SparesUsage(days, UsageOf(R), UsageOf(RecordsOf(s))')
  BY <1>1, <1>2, PurgeSparesUsage
<1>4. {r \in S : now - Week <= r.at /\ r.at < now - 1} = {r \in R : now - Week <= r.at /\ r.at < now - 1}
  BY <1>1, <1>2
<1>5. Since(S, now - 1) = Since(R, now - 1)
  BY <1>1, <1>2, PurgeKeepsSince
<1> HIDE DEF S
<1>6. Anomaly(RecordsOf(s))' = Anomaly(R)
  BY <1>1, <1>2, <1>4, <1>5 DEF Anomaly
<1> DEFINE before == GetUsageSummary(s)
           after == GetUsageSummary(s)'
<1>7. /\ before.usage = UsageOf(R) /\ before.anomaly = Anomaly(R)
      /\ before.instances = InstanceBreakdown(s)
  BY DEF GetUsageSummary, R
<1>8. /\ after.usage = UsageOf(RecordsOf(s))' /\ after.anomaly = Anomaly(RecordsOf(s))'
      /\ after.instances = InstanceBreakdown(s)'
  BY DEF GetUsageSummary
<1> HIDE DEF before, after
<1>9. SparesSummary(days, before, after)
  BY <1>3, <1>6, <1>7, <1>8, PurgeSparesBreakdown DEF SparesSummary, ListedUsage
<1> QED
  BY <1>9 DEF before, after

LEMMA BadgeStep ==
  [TokenNext]_tokenvars => (badge' # badge => \E c \in queries \ queries' : c.of = All /\ c.got # Nothing)
<1> SUFFICES ASSUME [TokenNext]_tokenvars, badge' # badge
             PROVE  \E c \in queries \ queries' : c.of = All /\ c.got # Nothing
  OBVIOUS
<1>1. PICK c \in queries : LoadShowsSummary(c)
  BY DEF TokenNext, tokenvars, DayPasses, RecordTokenUsage, OpenToken, LeaveToken, RefreshToken,
         TimerFires, SelectInstance, LoadEnds, LoadReadsLog, LoadFailsToRead, HandlePurge,
         PurgeOldRecords, PurgeFails, HandleAnomalyKill, KillEnds, KillNoteExpires
<1> QED
  BY <1>1 DEF LoadShowsSummary

-----------------------------------------------------------------------------
(* API keys. *)

IsCall(c) == c = [kind |-> c.kind, id |-> c.id, arg |-> c.arg, at |-> c.at, visit |-> c.visit]
IsForm(f) == f = [typed |-> f.typed, loading |-> f.loading, result |-> f.result,
                  verify |-> f.verify, update |-> f.update]

(* A handler that the form of p of a visit waits for. *)
Serves(c, p, visit) == c.kind = "submit" /\ c.id = p /\ c.visit = visit

(* The form on show is loading for as long as its one handler runs, and       *)
(* verifying only while that one probes.                                      *)
FormAlone(p) ==
  /\ \A c, d \in calls : Serves(c, p, panel) /\ Serves(d, p, panel) => c = d
  /\ form[p].loading <=> \E c \in calls : Serves(c, p, panel)
  /\ form[p].verify = "verifying" => \E c \in calls : Serves(c, p, panel) /\ c.at = "probes"

FormsInv ==
  /\ made = [submits |-> made.submits, screens |-> made.screens, wipes |-> made.wipes]
  /\ form = [p \in Providers |-> form[p]]
  /\ \A p \in Providers : IsForm(form[p]) /\ form[p].loading \in BOOLEAN

VisitsInv ==
  /\ made.screens \in Nat /\ panel \in Nat /\ panel <= made.screens
  /\ \A c \in calls : /\ IsCall(c) /\ c.visit \in Nat /\ c.visit <= made.screens
                      /\ c.kind = "submit" => c.id \in Providers

AloneInv == panel # 0 => \A p \in Providers : FormAlone(p)

AiInv == FormsInv /\ VisitsInv /\ AloneInv

(* Shows, from what the form was to what it is. *)
LEMMA ShowsForm ==
  ASSUME FormsInv, NEW c \in calls, c.id \in Providers, NEW f, IsForm(f), f.loading \in BOOLEAN,
         Shows(c, f)
  PROVE  /\ form' = [p \in Providers |-> form'[p]]
         /\ \A p \in Providers : IsForm(form'[p]) /\ form'[p].loading \in BOOLEAN
         /\ \A p \in Providers : p # c.id => form'[p] = form[p]
         /\ IF panel = c.visit THEN form'[c.id] = f ELSE form' = form
BY DEF Shows, FormsInv

(* Forms stay forms, one field at a time and several. *)
LEMMA FormEdits ==
  ASSUME NEW f, IsForm(f), NEW b, NEW s, NEW u, NEW v, NEW w
  PROVE  /\ IsForm([f EXCEPT !.verify = v]) /\ IsForm([f EXCEPT !.loading = b])
         /\ IsForm([f EXCEPT !.result = w]) /\ IsForm([f EXCEPT !.typed = s])
         /\ IsForm([f EXCEPT !.update = u])
BY DEF IsForm

LEMMA FormEditsAll ==
  ASSUME NEW f, IsForm(f), NEW b, NEW s, NEW u, NEW v, NEW w
  PROVE  /\ IsForm([f EXCEPT !.typed = s, !.result = w, !.verify = v])
         /\ IsForm([f EXCEPT !.update = u, !.verify = v])
         /\ IsForm([f EXCEPT !.typed = s, !.result = w, !.update = u])
         /\ IsForm([f EXCEPT !.loading = b, !.result = w, !.verify = v])
         /\ IsForm([f EXCEPT !.loading = b, !.result = w])
         /\ IsForm([f EXCEPT !.verify = v, !.loading = b, !.result = w])
         /\ IsForm([f EXCEPT !.result = w, !.typed = s, !.update = u])
<1>1. ASSUME NEW g, IsForm(g), NEW x
      PROVE  /\ IsForm([g EXCEPT !.verify = x]) /\ IsForm([g EXCEPT !.loading = x])
             /\ IsForm([g EXCEPT !.result = x]) /\ IsForm([g EXCEPT !.typed = x])
             /\ IsForm([g EXCEPT !.update = x])
  BY <1>1, FormEdits
<1>2. /\ [f EXCEPT !.typed = s, !.result = w, !.verify = v]
           = [[[f EXCEPT !.typed = s] EXCEPT !.result = w] EXCEPT !.verify = v]
      /\ [f EXCEPT !.update = u, !.verify = v] = [[f EXCEPT !.update = u] EXCEPT !.verify = v]
      /\ [f EXCEPT !.typed = s, !.result = w, !.update = u]
           = [[[f EXCEPT !.typed = s] EXCEPT !.result = w] EXCEPT !.update = u]
      /\ [f EXCEPT !.loading = b, !.result = w, !.verify = v]
           = [[[f EXCEPT !.loading = b] EXCEPT !.result = w] EXCEPT !.verify = v]
      /\ [f EXCEPT !.loading = b, !.result = w] = [[f EXCEPT !.loading = b] EXCEPT !.result = w]
      /\ [f EXCEPT !.verify = v, !.loading = b, !.result = w]
           = [[[f EXCEPT !.verify = v] EXCEPT !.loading = b] EXCEPT !.result = w]
      /\ [f EXCEPT !.result = w, !.typed = s, !.update = u]
           = [[[f EXCEPT !.result = w] EXCEPT !.typed = s] EXCEPT !.update = u]
  BY Zenon
<1> QED
  BY <1>1, <1>2, Zenon

(* The form as a step of one of its handlers leaves it. *)
LEMMA FormsStep == FormsInv /\ VisitsInv /\ AiNext => FormsInv'
<1> SUFFICES ASSUME FormsInv, VisitsInv, AiNext PROVE FormsInv'
  OBVIOUS
<1> USE DEF FormsInv
<1>1. ASSUME UNCHANGED <<made, form>> PROVE FormsInv'
  BY <1>1
<1>2. CASE HandleWipeKeys \/ ClosePanel
  <2>1. CASE HandleWipeKeys
    BY <2>1 DEF HandleWipeKeys
  <2> QED
    BY <1>1, <1>2, <2>1 DEF ClosePanel
<1>3. CASE OpenPanel
  BY <1>3 DEF OpenPanel, Blanks, Blank, IsForm
(* One form of the panel changes. *)
<1>4. ASSUME NEW p \in Providers, NEW f, Sets(p, f), IsForm(f), f.loading \in BOOLEAN, made' = made
      PROVE FormsInv'
  BY <1>4 DEF Sets
<1>5. ASSUME NEW p \in Providers, NEW key, TypeKey(p, key) PROVE FormsInv'
  <2> DEFINE f == [form[p] EXCEPT !.typed = key, !.result = "none", !.verify = "idle"]
  <2>1. IsForm(f)
    BY FormEditsAll, Zenon
  <2>2. f.loading = form[p].loading
    BY DEF IsForm
  <2> QED
    BY <1>4, <1>5, <2>1, <2>2 DEF TypeKey
<1>6. ASSUME NEW p \in Providers, ReplaceKey(p) PROVE FormsInv'
  <2> DEFINE f == [form[p] EXCEPT !.update = TRUE,
                             !.verify = IF p \in Featured \/ @ \in {"failed", "relay", "unreachable"}
                                        THEN "idle" ELSE @]
  <2>1. IsForm(f)
    BY FormEditsAll, Zenon
  <2>2. f.loading = form[p].loading
    BY DEF IsForm
  <2> QED
    BY <1>4, <1>6, <2>1, <2>2 DEF ReplaceKey
<1>7. ASSUME NEW p \in Providers, HandleCancelUpdate(p) PROVE FormsInv'
  <2> DEFINE f == [Blank EXCEPT !.loading = form[p].loading]
  <2>1. IsForm(f) /\ f.loading = form[p].loading
    <3>1. IsForm(Blank)
      BY DEF IsForm, Blank
    <3> QED
      BY <3>1, FormEdits DEF Blank
  <2> QED
    BY <1>4, <1>7, <2>1 DEF HandleCancelUpdate
<1>8. ASSUME NEW p \in Providers, ToggleProvider(p) PROVE FormsInv'
  <2> DEFINE f == [form[p] EXCEPT !.typed = "", !.result = "none", !.update = FALSE]
  <2>1. IsForm(f)
    BY FormEditsAll, Zenon
  <2>2. f.loading = form[p].loading
    BY DEF IsForm
  <2> QED
    BY <1>4, <1>8, <2>1, <2>2 DEF ToggleProvider
<1>9. ASSUME NEW p \in Providers, HandleSubmit(p) PROVE FormsInv'
  <2> DEFINE f == [form[p] EXCEPT !.loading = TRUE, !.result = "none", !.verify = "idle"]
  <2>1. IsForm(f) /\ f.loading = TRUE
    <3>1. IsForm(f)
      BY FormEditsAll, Zenon
    <3> QED
      BY <3>1 DEF IsForm
  <2>2. made' = [submits |-> made.submits + 1, screens |-> made.screens, wipes |-> made.wipes]
    BY <1>9 DEF HandleSubmit
  <2> QED
    BY <1>9, <2>1, <2>2 DEF HandleSubmit, Sets
<1>10. ASSUME NEW c \in calls,
              \/ LoadReadsMarks(c) \/ LoadLists(c) \/ LoadMarks(c) \/ WipeAll(c) \/ WipeFails(c)
       PROVE FormsInv'
  BY <1>1, <1>10 DEF LoadReadsMarks, LoadLists, LoadMarks, WipeAll, WipeFails
(* A handler shows what came of it. *)
<1>11. ASSUME NEW c \in calls, c.kind = "submit", NEW f, Shows(c, f), IsForm(f), f.loading \in BOOLEAN,
              made' = made
       PROVE FormsInv'
  BY <1>11, ShowsForm DEF VisitsInv
<1>12. ASSUME NEW c \in calls, c.kind = "submit" PROVE IsForm(form[c.id]) /\ form[c.id].loading \in BOOLEAN
  BY <1>12 DEF VisitsInv
<1>13. ASSUME NEW c \in calls, WriteKey(c) PROVE FormsInv'
  <2>1. CASE c.id \in Featured
    BY <1>1, <1>13, <2>1 DEF WriteKey
  <2>2. CASE c.id \notin Featured
    <3> DEFINE f == [form[c.id] EXCEPT !.verify = "verifying"]
    <3>1. c.kind = "submit" /\ Shows(c, f) /\ made' = made
      BY <1>13, <2>2 DEF WriteKey
    <3>2. IsForm(f)
      BY <1>12, <3>1, FormEdits, Zenon
    <3>3. f.loading = form[c.id].loading
      BY <1>12, <3>1 DEF IsForm
    <3> QED
      BY <1>11, <1>12, <3>1, <3>2, <3>3
  <2> QED
    BY <2>1, <2>2
<1>14. ASSUME NEW c \in calls, WriteFails(c) PROVE FormsInv'
  <2> DEFINE f == [form[c.id] EXCEPT !.loading = FALSE, !.result = "failed"]
  <2>1. IsForm(f) /\ f.loading = FALSE
    <3>1. IsForm(form[c.id])
      BY <1>12, <1>14 DEF WriteFails
    <3>2. IsForm(f)
      BY <3>1, FormEditsAll, Zenon
    <3> QED
      BY <3>1, <3>2 DEF IsForm
  <2> QED
    BY <1>11, <1>14, <2>1 DEF WriteFails
<1>15. ASSUME NEW c \in calls, NEW verdict, ProbeAnswers(c, verdict) PROVE FormsInv'
  <2> DEFINE ends == c.id \in Featured \/ verdict = "failed"
             f == [form[c.id] EXCEPT !.verify = verdict, !.loading = ~ends,
                                     !.result = IF c.id \notin Featured /\ ends THEN "failed" ELSE @]
  <2>1. IsForm(f) /\ f.loading = ~ends
    <3>1. IsForm(form[c.id])
      BY <1>12, <1>15 DEF ProbeAnswers, Probes
    <3> DEFINE result == IF c.id \notin Featured /\ ends THEN "failed" ELSE form[c.id].result
               g == [form[c.id] EXCEPT !.verify = verdict, !.loading = ~ends, !.result = result]
    <3>2. f = g
      BY <3>1 DEF IsForm
    <3>3. IsForm(g)
      <4>1. PICK b : b = (~ends)
        BY Zenon
      <4> HIDE DEF result
      <4> QED
        BY <3>1, <4>1, FormEditsAll, Zenon
    <3>4. f.loading = ~ends
      BY <3>1 DEF IsForm
    <3> QED
      BY <3>2, <3>3, <3>4
  <2> QED
    BY <1>11, <1>15, <2>1 DEF ProbeAnswers, Probes
<1>16. ASSUME NEW c \in calls, MarkConfigured(c) PROVE FormsInv'
  <2> DEFINE f == [form[c.id] EXCEPT !.result = "ok", !.typed = "", !.update = FALSE]
  <2>1. IsForm(f) /\ f.loading = form[c.id].loading
    <3>1. IsForm(form[c.id])
      BY <1>12, <1>16 DEF MarkConfigured
    <3>2. IsForm(f)
      BY <3>1, FormEditsAll, Zenon
    <3> QED
      BY <3>1, <3>2 DEF IsForm
  <2> HIDE DEF f
  <2>2. IsForm([f EXCEPT !.verify = "verifying"])
    BY <2>1, FormEdits, Zenon
  <2>3. [f EXCEPT !.verify = "verifying"].loading = f.loading
    BY <2>1 DEF IsForm
  <2>6. IsForm([f EXCEPT !.loading = FALSE])
    BY <2>1, FormEdits, Zenon
  <2>7. [f EXCEPT !.loading = FALSE].loading = FALSE
    BY <2>1 DEF IsForm
  <2>4. \/ Shows(c, [f EXCEPT !.verify = "verifying"])
        \/ Shows(c, [f EXCEPT !.loading = FALSE])
    BY <1>16 DEF MarkConfigured, f
  <2>5. c.kind = "submit" /\ made' = made
    BY <1>16 DEF MarkConfigured
  <2> QED
    BY <1>11, <1>12, <2>1, <2>2, <2>3, <2>4, <2>5, <2>6, <2>7
<1> QED
  BY <1>2, <1>3, <1>5, <1>6, <1>7, <1>8, <1>9, <1>10, <1>13, <1>14, <1>15, <1>16 DEF AiNext

(* No handler belongs to a visit that is still to come. *)
LEMMA VisitsStep == FormsInv /\ VisitsInv /\ AiNext => VisitsInv'
<1> SUFFICES ASSUME FormsInv, VisitsInv, AiNext PROVE VisitsInv'
  OBVIOUS
<1> DEFINE Fits(c, screens) == /\ IsCall(c) /\ c.visit \in Nat /\ c.visit <= screens
                               /\ c.kind = "submit" => c.id \in Providers
<1>1. \A c \in calls : Fits(c, made.screens)
  BY DEF VisitsInv
<1>2. ASSUME NEW c, Fits(c, made.screens), NEW at PROVE Fits([c EXCEPT !.at = at], made.screens)
  <2>1. [c EXCEPT !.at = at] = [kind |-> c.kind, id |-> c.id, arg |-> c.arg, at |-> at, visit |-> c.visit]
    BY <1>2 DEF IsCall
  <2> QED
    BY <1>2, <2>1 DEF IsCall
<1>3. ASSUME NEW stored, NEW external, NEW at PROVE Fits(Loading(stored, external, at), made.screens)
  BY DEF Loading, IsCall, VisitsInv
<1>4. ASSUME made'.screens = made.screens, panel' \in {0, panel},
             \A c \in calls' : c \in calls \/ Fits(c, made.screens)
      PROVE  VisitsInv'
  BY <1>1, <1>4 DEF VisitsInv
<1> HIDE DEF Fits
<1>5. CASE HandleWipeKeys
  <2> DEFINE w == [Loading({}, {}, "wipes") EXCEPT !.kind = "wipe"]
  <2>1. Fits(w, made.screens)
    BY DEF Loading, IsCall, VisitsInv, Fits
  <2>2. made'.screens = made.screens
    BY <1>5 DEF HandleWipeKeys, FormsInv
  <2> HIDE DEF w
  <2>3. calls' = calls \cup {w} /\ panel' = panel
    BY <1>5 DEF HandleWipeKeys, w
  <2> QED
    BY <1>4, <2>1, <2>2, <2>3
<1>6. CASE OpenPanel
  <2>1. made'.screens = made.screens + 1 /\ panel' = made'.screens /\ calls' = calls
    BY <1>6 DEF OpenPanel, FormsInv
  <2> QED
    BY <2>1 DEF VisitsInv
<1>7. CASE ClosePanel
  BY <1>4, <1>7 DEF ClosePanel
<1>8. ASSUME NEW p \in Providers,
             ReplaceKey(p) \/ ToggleProvider(p) \/ HandleCancelUpdate(p) \/ \E key \in {"good", "bad"} : TypeKey(p, key)
      PROVE  VisitsInv'
  BY <1>4, <1>8 DEF ReplaceKey, ToggleProvider, HandleCancelUpdate, TypeKey
<1>9. ASSUME NEW p \in Providers, HandleSubmit(p) PROVE VisitsInv'
  <2>1. Fits(Submit(p, form[p].typed, "writes"), made.screens)
    BY DEF Submit, IsCall, VisitsInv, Fits
  <2>2. made'.screens = made.screens
    BY <1>9 DEF HandleSubmit, FormsInv
  <2> QED
    BY <1>4, <1>9, <2>1, <2>2 DEF HandleSubmit
<1>10. ASSUME NEW c \in calls, LoadReadsMarks(c) \/ LoadLists(c) \/ LoadMarks(c) \/ WipeAll(c) \/ WipeFails(c)
       PROVE  VisitsInv'
  BY <1>3, <1>4, <1>10 DEF LoadReadsMarks, LoadLists, LoadMarks, WipeAll, WipeFails, Goes
<1>11. ASSUME NEW c \in calls,
              \/ WriteKey(c) \/ WriteFails(c) \/ MarkConfigured(c)
              \/ \E verdict \in {"ok", "relay", "failed", "unreachable"} : ProbeAnswers(c, verdict)
       PROVE  VisitsInv'
  <2>1. made' = made /\ panel' = panel
    BY <1>11 DEF WriteKey, WriteFails, MarkConfigured, ProbeAnswers, Probes
  <2>2. calls' = calls \ {c} \/ \E at : calls' = (calls \ {c}) \cup {[c EXCEPT !.at = at]}
    BY <1>11 DEF WriteKey, WriteFails, MarkConfigured, ProbeAnswers, Goes
  <2>3. Fits(c, made.screens)
    BY <1>1 DEF Fits
  <2> QED
    BY <1>2, <1>4, <2>1, <2>2, <2>3
<1> QED
  BY <1>5, <1>6, <1>7, <1>8, <1>9, <1>10, <1>11 DEF AiNext

(* A handler that has gone on. *)
At(c, at) == [c EXCEPT !.at = at]

LEMMA AtIs ==
  ASSUME NEW c, IsCall(c), NEW at
  PROVE  /\ At(c, at).kind = c.kind /\ At(c, at).id = c.id /\ At(c, at).visit = c.visit
         /\ At(c, at).at = at
BY DEF At, IsCall

(* What a step of a submit does to the form, if its visit is the one on show:  *)
(* it goes on, or it ends and unlocks.                                         *)
LEMMA SubmitMoves ==
  ASSUME FormsInv, VisitsInv, NEW c \in calls,
         \/ WriteKey(c) \/ WriteFails(c) \/ MarkConfigured(c)
         \/ \E verdict \in {"ok", "relay", "failed", "unreachable"} : ProbeAnswers(c, verdict)
  PROVE  /\ c.kind = "submit" /\ c.id \in Providers /\ panel' = panel
         /\ \A p \in Providers : p # c.id => form'[p] = form[p]
         /\ panel # c.visit => form' = form
         /\ \/ /\ calls' = calls \ {c}
               /\ panel = c.visit =>
                    /\ ~form'[c.id].loading
                    /\ form'[c.id].verify = "verifying" => c.at # "probes" /\ form[c.id].verify = "verifying"
            \/ \E at : /\ calls' = (calls \ {c}) \cup {At(c, at)}
                       /\ panel = c.visit =>
                            /\ form[c.id].loading => form'[c.id].loading
                            /\ form'[c.id].verify = "verifying"
                                 => at = "probes" \/ (c.at # "probes" /\ form[c.id].verify = "verifying")
<1>1. c.kind = "submit" /\ c.id \in Providers /\ panel' = panel
  BY DEF WriteKey, WriteFails, MarkConfigured, ProbeAnswers, Probes, VisitsInv
<1>2. IsForm(form[c.id])
  BY <1>1 DEF FormsInv
<1>3. ASSUME NEW f, Shows(c, f)
      PROVE  /\ \A p \in Providers : p # c.id => form'[p] = form[p]
             /\ panel # c.visit => form' = form
             /\ panel = c.visit => form'[c.id] = f
  BY <1>1, <1>3 DEF Shows, FormsInv
<1>4. CASE WriteKey(c) /\ c.id \in Featured
  BY <1>1, <1>4 DEF WriteKey, Goes, At
(* On with a probe. *)
<1>9. ASSUME NEW f, Shows(c, f), f.loading = form[c.id].loading,
             calls' = (calls \ {c}) \cup {At(c, "probes")}
      PROVE  /\ \A p \in Providers : p # c.id => form'[p] = form[p]
             /\ panel # c.visit => form' = form
             /\ \E at : /\ calls' = (calls \ {c}) \cup {At(c, at)}
                        /\ panel = c.visit =>
                             /\ form[c.id].loading => form'[c.id].loading
                             /\ form'[c.id].verify = "verifying"
                                  => at = "probes" \/ (c.at # "probes" /\ form[c.id].verify = "verifying")
  <2>1. panel = c.visit => form'[c.id].loading = form[c.id].loading
    BY <1>3, <1>9
  <2>2. /\ \A p \in Providers : p # c.id => form'[p] = form[p]
        /\ panel # c.visit => form' = form
    BY <1>3, <1>9
  <2>3. \E at : calls' = (calls \ {c}) \cup {At(c, at)} /\ at = "probes"
    BY <1>9
  <2> QED
    BY <2>1, <2>2, <2>3
<1>5. CASE WriteKey(c) /\ c.id \notin Featured
  <2> DEFINE f == [form[c.id] EXCEPT !.verify = "verifying"]
  <2>1. f.loading = form[c.id].loading
    BY <1>2 DEF IsForm
  <2>2. Shows(c, f) /\ calls' = (calls \ {c}) \cup {At(c, "probes")}
    BY <1>5 DEF WriteKey, Goes, At
  <2> HIDE DEF f
  <2> QED
    BY <1>1, <1>9, <2>1, <2>2
<1>6. CASE WriteFails(c)
  <2> DEFINE f == [form[c.id] EXCEPT !.loading = FALSE, !.result = "failed"]
  <2>1. ~f.loading /\ f.verify = form[c.id].verify
    BY <1>2 DEF IsForm
  <2>2. Shows(c, f) /\ calls' = calls \ {c} /\ c.at # "probes"
    BY <1>6 DEF WriteFails, Goes
  <2> QED
    BY <1>1, <1>3, <2>1, <2>2
<1>7. ASSUME NEW verdict \in {"ok", "relay", "failed", "unreachable"}, ProbeAnswers(c, verdict)
      PROVE  /\ \A p \in Providers : p # c.id => form'[p] = form[p]
             /\ panel # c.visit => form' = form
             /\ panel = c.visit => form'[c.id].verify # "verifying"
             /\ \/ calls' = calls \ {c} /\ (panel = c.visit => ~form'[c.id].loading)
                \/ /\ calls' = (calls \ {c}) \cup {At(c, "marks")}
                   /\ panel = c.visit => form'[c.id].loading
  <2> DEFINE ends == c.id \in Featured \/ verdict = "failed"
             f == [form[c.id] EXCEPT !.verify = verdict, !.loading = ~ends,
                                     !.result = IF c.id \notin Featured /\ ends THEN "failed" ELSE @]
  <2>1. f.loading = ~ends /\ f.verify = verdict
    BY <1>2 DEF IsForm
  <2>2. Shows(c, f) /\ calls' = (calls \ {c}) \cup (IF ends THEN {} ELSE {At(c, "marks")})
    BY <1>7 DEF ProbeAnswers, Goes, At
  <2> HIDE DEF f, ends
  <2>3. (ends /\ ~f.loading) \/ (~ends /\ f.loading)
    BY <2>1, Zenon
  <2> QED
    BY <1>3, <1>7, <2>1, <2>2, <2>3
<1>8. CASE MarkConfigured(c)
  <2> DEFINE f == [form[c.id] EXCEPT !.result = "ok", !.typed = "", !.update = FALSE]
  <2>1. f.loading = form[c.id].loading /\ f.verify = form[c.id].verify
    BY <1>2 DEF IsForm
  <2>2. IsForm(f)
    BY <1>2, FormEditsAll, Zenon
  <2> HIDE DEF f
  <2>3. CASE c.id \in Featured
    <3> DEFINE g == [f EXCEPT !.verify = "verifying"]
    <3>1. g.loading = f.loading
      BY <2>2 DEF IsForm
    <3>2. Shows(c, g) /\ calls' = (calls \ {c}) \cup {At(c, "probes")}
      BY <1>8, <2>3 DEF MarkConfigured, Goes, f, At
    <3> HIDE DEF g
    <3> QED
      BY <1>1, <1>9, <2>1, <3>1, <3>2
  <2>4. CASE c.id \notin Featured
    <3> DEFINE g == [f EXCEPT !.loading = FALSE]
    <3>1. ~g.loading /\ g.verify = f.verify
      BY <2>2 DEF IsForm
    <3>2. Shows(c, g) /\ calls' = calls \ {c} /\ c.at # "probes"
      BY <1>8, <2>4 DEF MarkConfigured, Goes, f
    <3> QED
      BY <1>1, <1>3, <2>1, <3>1, <3>2
  <2> QED
    BY <2>3, <2>4
<1> QED
  BY <1>1, <1>4, <1>5, <1>6, <1>7, <1>8

LEMMA AloneStep == AiInv /\ AiNext => AloneInv'
<1> SUFFICES ASSUME AiInv, AiNext PROVE AloneInv'
  OBVIOUS
<1> USE DEF AiInv
(* A step that keeps the handlers, and locks nothing. *)
<1>1. ASSUME panel' = panel,
             \A c : c.kind = "submit" => (c \in calls <=> c \in calls'),
             \A p \in Providers : /\ form'[p].loading <=> form[p].loading
                                  /\ form'[p].verify = "verifying" => form[p].verify = "verifying"
      PROVE  AloneInv'
  <2> SUFFICES ASSUME panel # 0, NEW p \in Providers PROVE FormAlone(p)'
    BY <1>1 DEF AloneInv
  <2>1. FormAlone(p)
    BY DEF AloneInv
  <2>2. \A c : Serves(c, p, panel) => (c \in calls <=> c \in calls')
    BY <1>1 DEF Serves
  <2> QED
    BY <1>1, <2>1, <2>2 DEF FormAlone
(* One form of the panel is edited. *)
<1>2. ASSUME NEW p \in Providers, NEW f, Sets(p, f), panel' = panel, calls' = calls,
             f.loading <=> form[p].loading, f.verify = "verifying" => form[p].verify = "verifying"
      PROVE  AloneInv'
  BY <1>1, <1>2 DEF Sets, FormsInv
<1>3. \A p \in Providers : IsForm(form[p])
  BY DEF FormsInv
<1>4. CASE ClosePanel
  BY <1>4 DEF ClosePanel, AloneInv
<1>5. CASE OpenPanel
  <2> SUFFICES ASSUME NEW p \in Providers PROVE FormAlone(p)'
    BY DEF AloneInv
  <2>1. panel' = made.screens + 1 /\ calls' = calls /\ form' = Blanks
    BY <1>5 DEF OpenPanel, FormsInv
  <2>2. \A c \in calls : ~Serves(c, p, panel')
    BY <2>1 DEF VisitsInv, Serves
  <2>3. ~form'[p].loading /\ form'[p].verify # "verifying"
    BY <2>1 DEF Blanks, Blank
  <2> QED
    BY <2>1, <2>2, <2>3 DEF FormAlone
<1>6. CASE HandleWipeKeys
  <2> DEFINE w == [Loading({}, {}, "wipes") EXCEPT !.kind = "wipe"]
  <2>1. w.kind = "wipe"
    BY DEF Loading
  <2>2. calls' = calls \cup {w} /\ panel' = panel /\ form' = form
    BY <1>6 DEF HandleWipeKeys
  <2> HIDE DEF w
  <2> QED
    BY <1>1, <2>1, <2>2
<1>7. ASSUME NEW p \in Providers, NEW key, TypeKey(p, key) PROVE AloneInv'
  <2> DEFINE f == [form[p] EXCEPT !.typed = key, !.result = "none", !.verify = "idle"]
  <2>1. f.loading = form[p].loading /\ f.verify = "idle"
    BY <1>3 DEF IsForm
  <2> QED
    BY <1>2, <1>7, <2>1 DEF TypeKey
<1>8. ASSUME NEW p \in Providers, ReplaceKey(p) PROVE AloneInv'
  <2> DEFINE f == [form[p] EXCEPT !.update = TRUE,
                             !.verify = IF p \in Featured \/ @ \in {"failed", "relay", "unreachable"}
                                        THEN "idle" ELSE @]
  <2>1. f.loading = form[p].loading /\ f.verify \in {"idle", form[p].verify}
    BY <1>3 DEF IsForm
  <2> QED
    BY <1>2, <1>8, <2>1 DEF ReplaceKey
<1>9. ASSUME NEW p \in Providers, HandleCancelUpdate(p) PROVE AloneInv'
  <2> DEFINE f == [Blank EXCEPT !.loading = form[p].loading]
  <2>1. f.loading = form[p].loading /\ f.verify = "idle"
    BY DEF Blank
  <2> QED
    BY <1>2, <1>9, <2>1 DEF HandleCancelUpdate
<1>10. ASSUME NEW p \in Providers, ToggleProvider(p) PROVE AloneInv'
  <2> DEFINE f == [form[p] EXCEPT !.typed = "", !.result = "none", !.update = FALSE]
  <2>1. f.loading = form[p].loading /\ f.verify = form[p].verify
    BY <1>3 DEF IsForm
  <2> QED
    BY <1>2, <1>10, <2>1 DEF ToggleProvider
<1>11. ASSUME NEW p \in Providers, HandleSubmit(p) PROVE AloneInv'
  <2> SUFFICES ASSUME panel # 0, NEW q \in Providers PROVE FormAlone(q)'
    BY <1>11 DEF AloneInv, HandleSubmit
  <2> DEFINE f == [form[p] EXCEPT !.loading = TRUE, !.result = "none", !.verify = "idle"]
             s == Submit(p, form[p].typed, "writes")
  <2>1. f.loading /\ f.verify = "idle"
    BY <1>3 DEF IsForm
  <2>2. form' = [form EXCEPT ![p] = f] /\ calls' = calls \cup {s} /\ panel' = panel
    BY <1>11 DEF HandleSubmit, Sets
  <2>3. s.kind = "submit" /\ s.id = p /\ s.visit = panel
    BY DEF Submit
  <2>4. ~form[p].loading /\ FormAlone(q) /\ FormAlone(p)
    BY <1>11 DEF HandleSubmit, Enabled, AloneInv
  <2> HIDE DEF f, s
  <2>5. CASE q = p
    <3>1. \A c \in calls : ~Serves(c, p, panel)
      BY <2>4 DEF FormAlone
    <3>2. form'[p] = f
      BY <2>2 DEF FormsInv
    <3>3. Serves(s, p, panel)
      BY <2>3 DEF Serves
    <3> QED
      BY <2>1, <2>2, <2>5, <3>1, <3>2, <3>3 DEF FormAlone
  <2>6. CASE q # p
    <3>1. form'[q] = form[q]
      BY <2>2, <2>6 DEF FormsInv
    <3>2. ~Serves(s, q, panel)
      BY <2>3, <2>6 DEF Serves
    <3> QED
      BY <2>2, <2>4, <3>1, <3>2 DEF FormAlone
  <2> QED
    BY <2>5, <2>6
<1>12. ASSUME NEW c \in calls, LoadReadsMarks(c) \/ LoadLists(c) \/ LoadMarks(c) \/ WipeAll(c) \/ WipeFails(c)
       PROVE  AloneInv'
  <2>1. \A stored, external, at : Loading(stored, external, at).kind = "load"
    BY DEF Loading
  <2>2. /\ c.kind # "submit" /\ panel' = panel /\ form' = form
        /\ \A d \in calls' : d \in calls \/ d.kind = "load"
        /\ calls \ {c} \subseteq calls'
    BY <1>12, <2>1 DEF LoadReadsMarks, LoadLists, LoadMarks, WipeAll, WipeFails, Goes
  <2>3. \A d : d.kind = "submit" => (d \in calls <=> d \in calls')
    BY <2>2
  <2> QED
    BY <1>1, <2>2, <2>3
<1>13. ASSUME NEW c \in calls,
              \/ WriteKey(c) \/ WriteFails(c) \/ MarkConfigured(c)
              \/ \E verdict \in {"ok", "relay", "failed", "unreachable"} : ProbeAnswers(c, verdict)
       PROVE  AloneInv'
  <2>1. /\ c.kind = "submit" /\ c.id \in Providers /\ panel' = panel
        /\ \A p \in Providers : p # c.id => form'[p] = form[p]
        /\ panel # c.visit => form' = form
    BY <1>13, SubmitMoves
  <2> SUFFICES ASSUME panel # 0, NEW p \in Providers PROVE FormAlone(p)'
    BY <2>1 DEF AloneInv
  <2>2. FormAlone(p) /\ IsCall(c)
    BY DEF AloneInv, VisitsInv
  <2>3. calls \ {c} \subseteq calls'
        /\ \A d \in calls' : d \in calls \ {c} \/ (d.kind = "submit" /\ d.id = c.id /\ d.visit = c.visit)
    <3>1. calls' = calls \ {c} \/ \E at : calls' = (calls \ {c}) \cup {At(c, at)}
      BY <1>13, SubmitMoves
    <3>2. \A at : At(c, at).kind = c.kind /\ At(c, at).id = c.id /\ At(c, at).visit = c.visit
      BY <2>2, AtIs
    <3>3. CASE calls' = calls \ {c}
      BY <3>3
    <3>4. ASSUME NEW at, calls' = (calls \ {c}) \cup {At(c, at)}
          PROVE  /\ calls \ {c} \subseteq calls'
                 /\ \A d \in calls' : d \in calls \ {c} \/ d = At(c, at)
      BY <3>4
    <3> QED
      BY <2>1, <3>1, <3>2, <3>3, <3>4
  (* Another form than that of the handler. *)
  <2>4. CASE ~Serves(c, p, panel)
    <3>1. form'[p] = form[p]
      BY <2>1, <2>4 DEF Serves
    <3>2. \A d : Serves(d, p, panel) => (d \in calls <=> d \in calls')
      BY <2>1, <2>3, <2>4 DEF Serves
    <3> QED
      BY <2>1, <2>2, <3>1, <3>2 DEF FormAlone
  <2>5. CASE Serves(c, p, panel)
    <3>1. /\ form[p].loading /\ c.id = p /\ c.visit = panel
          /\ \A d \in calls : Serves(d, p, panel) => d = c
          /\ form[p].verify = "verifying" => c.at = "probes"
      BY <2>2, <2>5 DEF FormAlone, Serves
    <3>2. CASE calls' = calls \ {c} /\ ~form'[p].loading /\ form'[p].verify # "verifying"
      BY <2>1, <3>1, <3>2 DEF FormAlone
    <3>3. ASSUME NEW at, calls' = (calls \ {c}) \cup {At(c, at)}, form'[p].loading,
                 form'[p].verify = "verifying" => at = "probes"
          PROVE  FormAlone(p)'
      <4>1. At(c, at).at = at /\ Serves(At(c, at), p, panel)
        BY <2>1, <2>2, <3>1, AtIs DEF Serves
      <4>2. \A d \in calls' : Serves(d, p, panel) => d = At(c, at)
        BY <3>1, <3>3
      <4> QED
        BY <2>1, <3>3, <4>1, <4>2 DEF FormAlone
    <3> QED
      BY <1>13, <3>1, <3>2, <3>3, SubmitMoves
  <2> QED
    BY <2>4, <2>5
<1> QED
  BY <1>4, <1>5, <1>6, <1>7, <1>8, <1>9, <1>10, <1>11, <1>12, <1>13 DEF AiNext

LEMMA AiStarts == AiInit => AiInv
<1> SUFFICES ASSUME AiInit PROVE AiInv
  OBVIOUS
<1>1. FormsInv
  BY DEF AiInit, FormsInv, Blanks, Blank, IsForm
<1>2. VisitsInv /\ AloneInv
  BY DEF AiInit, VisitsInv, AloneInv, Loading, IsCall
<1> QED
  BY <1>1, <1>2 DEF AiInv

LEMMA AiStep == AiInv /\ [AiNext]_aivars => AiInv'
<1>1. CASE AiNext
  BY <1>1, FormsStep, VisitsStep, AloneStep DEF AiInv
<1>2. CASE UNCHANGED aivars
  BY <1>2 DEF aivars, AiInv, FormsInv, VisitsInv, AloneInv, FormAlone
<1> QED
  BY <1>1, <1>2

LEMMA AiLocked == AiInv => LockedIsInFlight
BY DEF AiInv, AloneInv, FormAlone, Serves, LockedIsInFlight

-----------------------------------------------------------------------------
(* The pages together. *)

RecordsInv == McpInv /\ CostInv /\ TokenInv /\ AiInv

LEMMA RecordsParts ==
  [RecordsNext]_recordsvars
    => [McpNext]_mcpvars /\ [TokenNext]_tokenvars /\ [CostNext]_costvars /\ [AiNext]_aivars
BY DEF RecordsNext, recordsvars, Only

LEMMA RecordsKeep == RecordsSpec => []RecordsInv
<1>1. RecordsInit => RecordsInv
  BY McpStarts, CostStarts, TokenStarts, AiStarts DEF RecordsInit, RecordsInv
<1>2. RecordsInv /\ [RecordsNext]_recordsvars => RecordsInv'
  BY RecordsParts, McpStep, CostStep, TokenStep, AiStep DEF RecordsInv
<1> QED
  BY <1>1, <1>2, PTL DEF RecordsSpec

(* HandleDelete, HandleScan and the toggles of the MCP page interleave at will: *)
(* a deleted server does not come back, and one that was graded dangerous is    *)
(* enabled only by the user or for as long as its scan is still to disable it.  *)
THEOREM ServersAreSafe == RecordsSpec => []McpIsSafe
<1>1. RecordsInv => McpIsSafe
  BY DEF RecordsInv, McpInv, IdsInv, GradeInv, McpIsSafe
<1> QED
  BY <1>1, RecordsKeep, PTL

(* The usage page judges by the budget that is stored, whatever the settings    *)
(* edit; and the total is the sum of the rows, for any table of prices.         *)
THEOREM CostsAreAgreed == RecordsSpec => []CostsAgree
<1>1. RecordsInv => CostsAgree
  BY StoredWarns, TotalsAre DEF RecordsInv, CostsAgree
<1> QED
  BY <1>1, RecordsKeep, PTL

(* A form of an API key is locked only while its handler runs, whatever panels  *)
(* were closed and opened while others ran.                                     *)
THEOREM FormsUnlock == RecordsSpec => []LockedIsInFlight
<1>1. RecordsInv => LockedIsInFlight
  BY AiLocked DEF RecordsInv
<1> QED
  BY <1>1, RecordsKeep, PTL

(* A purge of any of the days offered takes nothing that a summary counts but   *)
(* of a month it reaches into, for any instances, records and length of month.  *)
THEOREM PurgeIsSafe == RecordsSpec => PurgeKeepsSummary
<1>1. RecordsInv /\ [RecordsNext]_recordsvars
        => [\A days \in PurgeDays, s \in Logged \cup {All} :
              PurgeOldRecords(days)
                => SparesSummary(days, GetUsageSummary(s), GetUsageSummary(s)')]_tokenvars
  BY PurgeStep DEF RecordsInv
<1> QED
  BY <1>1, RecordsKeep, PTL DEF RecordsSpec, PurgeKeepsSummary

(* No summary of one instance changes the badge of the sidebar.                 *)
THEOREM BadgeTellsOfAll == RecordsSpec => BadgeIsOfAll
<1>1. [RecordsNext]_recordsvars
        => [badge' # badge => \E c \in queries \ queries' : c.of = All /\ c.got # Nothing]_tokenvars
  BY RecordsParts, BadgeStep
<1> QED
  BY <1>1, PTL DEF RecordsSpec, BadgeIsOfAll
=============================================================================
