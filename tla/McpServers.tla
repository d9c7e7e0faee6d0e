----------------------------- MODULE McpServers -----------------------------
(***************************************************************************)
(* The registry of MCP servers: the SQLite tables behind                   *)
(* packages/shared/src/stores/mcpStore.ts and the page McpPageContent that *)
(* adds, toggles, scans and deletes servers.  Each await of the store is a *)
(* step of its own; the page changes its rows before the store answers.    *)
(***************************************************************************)
EXTENDS Naturals, FiniteSets

CONSTANTS ServerIds,  \* servers ever added
          MaxJobs,    \* bound: handlers in flight when the user starts another
          MaxScans    \* bound: scans ever started

VARIABLES
  table,      \* mcp_servers: by id, enabled and risk_level
  audit,      \* mcp_audit: entries, as <<server, outcome>>
  rows,       \* the page: servers as shown
  adding,     \* phase of AddServerForm
  scanning,   \* cards whose scan runs
  jobs,       \* handlers between two awaits
  scans, dropped, \* scans started; ids ever deleted
  forced      \* ids the user switched on, or whose automatic disabling failed

mcpvars == <<table, audit, rows, adding, scanning, jobs, scans, dropped, forced>>

Unknown == [enabled |-> TRUE, risk |-> "unknown"]
Known == DOMAIN table
Job(kind, id, at, arg) == [kind |-> kind, id |-> id, at |-> at, arg |-> arg]
Busy == Cardinality(jobs) >= MaxJobs
Moves(j, next) == jobs' = (jobs \ {j}) \cup next
Update(f, id, row) == [i \in DOMAIN f |-> IF i = id THEN row ELSE f[i]]
Loads == Job("load", 0, "reads", FALSE)
TableWith(id) == [i \in Known \cup {id} |-> IF i = id THEN Unknown ELSE table[i]]

McpInit ==
  /\ table = [i \in {} |-> Unknown] /\ rows = table /\ audit = {} /\ adding = "idle"
  /\ scanning = {} /\ jobs = {Loads} /\ scans = 0 /\ dropped = {} /\ forced = {}

-----------------------------------------------------------------------------
(* loadServers and handleScanDone: what was read is shown when it arrives.    *)
LoadServers ==
  /\ ~Busy /\ Loads \notin jobs /\ jobs' = jobs \cup {Loads}
  /\ UNCHANGED <<table, audit, rows, adding, scanning, scans, dropped, forced>>

LoadReads(j) ==
  /\ j.kind = "load" /\ j.at = "reads" /\ Moves(j, {Job("load", 0, "shows", table)})
  /\ UNCHANGED <<table, audit, rows, adding, scanning, scans, dropped, forced>>

LoadShows(j) ==
  /\ j.kind = "load" /\ j.at = "shows" /\ Moves(j, {}) /\ rows' = j.arg
  /\ UNCHANGED <<table, audit, adding, scanning, scans, dropped, forced>>

(* handleAdd: the row is inserted enabled, and scanned before it is shown.    *)
HandleAdd(id) ==
  /\ adding = "idle" /\ ~Busy /\ scans < MaxScans /\ id \notin Known \cup dropped
  /\ adding' = "saving" /\ jobs' = jobs \cup {Job("add", id, "insert", FALSE)}
  /\ UNCHANGED <<table, audit, rows, scanning, scans, dropped, forced>>

AddInserts(j) ==
  /\ j.kind = "add" /\ table' = TableWith(j.id)
  /\ adding' = "scanning" /\ scans' = scans + 1
  /\ Moves(j, {Job("scan", j.id, "grade", "form")})
  /\ UNCHANGED <<audit, rows, scanning, dropped, forced>>

InsertFails(j) ==
  /\ j.kind = "add" /\ adding' = "idle" /\ Moves(j, {})
  /\ UNCHANGED <<table, audit, rows, scanning, scans, dropped, forced>>

HandleToggle(id) ==
  /\ id \in DOMAIN rows /\ ~Busy
  /\ rows' = Update(rows, id, [rows[id] EXCEPT !.enabled = ~@])
  /\ jobs' = jobs \cup {Job("toggle", id, "write", ~rows[id].enabled)}
  /\ UNCHANGED <<table, audit, adding, scanning, scans, dropped, forced>>

SetEnabled(id, enabled) ==
  table' = IF id \in Known THEN Update(table, id, [table[id] EXCEPT !.enabled = enabled]) ELSE table

ToggleWrites(j) ==
  /\ j.kind = "toggle" /\ Moves(j, {}) /\ SetEnabled(j.id, j.arg)
  /\ forced' = IF j.arg THEN forced \cup {j.id} ELSE forced
  /\ UNCHANGED <<audit, rows, adding, scanning, scans, dropped>>

ToggleFails(j) ==
  /\ j.kind = "toggle" /\ Moves(j, {})
  /\ rows' = IF j.id \in DOMAIN rows THEN Update(rows, j.id, [rows[j.id] EXCEPT !.enabled = ~j.arg])
                                     ELSE rows
  /\ UNCHANGED <<table, audit, adding, scanning, scans, dropped, forced>>

(* handleDelete: the row goes, then the audit entries, then the server; a     *)
(* failure shows the rows as they were.                                       *)
HandleDelete(id) ==
  /\ id \in DOMAIN rows /\ ~Busy
  /\ rows' = [i \in DOMAIN rows \ {id} |-> rows[i]]
  /\ jobs' = jobs \cup {Job("delete", id, "audit", rows)}
  /\ UNCHANGED <<table, audit, adding, scanning, scans, dropped, forced>>

DeleteAudit(j) ==
  /\ j.kind = "delete" /\ j.at = "audit" /\ Moves(j, {[j EXCEPT !.at = "server"]})
  /\ audit' = {e \in audit : e[1] # j.id}
  /\ UNCHANGED <<table, rows, adding, scanning, scans, dropped, forced>>

DeleteRow(j) ==
  /\ j.kind = "delete" /\ j.at = "server" /\ Moves(j, {})
  /\ table' = [i \in Known \ {j.id} |-> table[i]] /\ dropped' = dropped \cup {j.id}
  /\ UNCHANGED <<audit, rows, adding, scanning, scans, forced>>

DeleteFails(j) ==
  /\ j.kind = "delete" /\ Moves(j, {}) /\ rows' = j.arg
  /\ UNCHANGED <<table, audit, adding, scanning, scans, dropped, forced>>

-----------------------------------------------------------------------------
(* scanServer, for a card or for the form. *)

HandleScan(id) ==
  /\ id \in DOMAIN rows \ scanning /\ ~Busy /\ scans < MaxScans /\ scans' = scans + 1
  /\ scanning' = scanning \cup {id} /\ jobs' = jobs \cup {Job("scan", id, "grade", "card")}
  /\ UNCHANGED <<table, audit, rows, adding, dropped, forced>>

ScanGrades(j, risk) ==
  /\ j.kind = "scan" /\ j.at = "grade" /\ Moves(j, {[j EXCEPT !.at = risk]})
  /\ UNCHANGED <<table, audit, rows, adding, scanning, scans, dropped, forced>>

UpsertsRisk(j) ==   \* mutant: the row is inserted if it is missing
  /\ j.kind = "scan" /\ j.at \in {"safe", "danger"}
  /\ table' = [TableWith(j.id) EXCEPT ![j.id].risk = j.at]
  /\ Moves(j, {[j EXCEPT !.at = IF j.at = "danger" THEN "off" ELSE "allowed"]})
  /\ UNCHANGED <<audit, rows, adding, scanning, scans, dropped, forced>>

UpdateServerRisk(j) ==
  /\ j.kind = "scan" /\ j.at \in {"safe", "danger"}
  /\ table' = IF j.id \in Known THEN Update(table, j.id, [table[j.id] EXCEPT !.risk = j.at])
                                ELSE table
  /\ Moves(j, {[j EXCEPT !.at = IF j.at = "danger" THEN "off" ELSE "allowed"]})
  /\ UNCHANGED <<audit, rows, adding, scanning, scans, dropped, forced>>


(* A danger is switched off, a failure of that only logged.                   *)
AutoDisable(j) ==
  /\ j.kind = "scan" /\ j.at = "off" /\ Moves(j, {[j EXCEPT !.at = "blocked"]})
  /\ \/ SetEnabled(j.id, FALSE) /\ forced' = forced \ {j.id}
     \/ forced' = forced \cup {j.id} /\ UNCHANGED table
  /\ UNCHANGED <<audit, rows, adding, scanning, scans, dropped>>

ScanReturns(j) ==
  IF j.arg = "form" THEN adding' = "idle" /\ UNCHANGED scanning
                    ELSE scanning' = scanning \ {j.id} /\ UNCHANGED adding

(* writeAuditEntry, and the rows loaded again.                                *)
ScanAudits(j) ==
  /\ j.kind = "scan" /\ j.at \in {"allowed", "blocked"}
  /\ audit' = audit \cup {<<j.id, j.at>>}
  /\ ScanReturns(j) /\ Moves(j, {Loads})
  /\ UNCHANGED <<table, rows, scans, dropped, forced>>

(* The scanner or the update of the risk fails: nothing follows.              *)
ScanFails(j) ==
  /\ j.kind = "scan" /\ j.at \in {"grade", "safe", "danger"}
  /\ ScanReturns(j) /\ Moves(j, {})
  /\ UNCHANGED <<table, audit, rows, scans, dropped, forced>>

ClearAudit ==
  /\ audit # {} /\ audit' = {}
  /\ UNCHANGED <<table, rows, adding, scanning, jobs, scans, dropped, forced>>

JobGoesOn(j) ==
  \/ LoadReads(j) \/ LoadShows(j) \/ AddInserts(j) \/ InsertFails(j) \/ ToggleWrites(j) \/ ToggleFails(j)
  \/ DeleteAudit(j) \/ DeleteRow(j) \/ DeleteFails(j)
  \/ \E risk \in {"safe", "danger"} : ScanGrades(j, risk)
  \/ UpdateServerRisk(j) \/ AutoDisable(j) \/ ScanAudits(j) \/ ScanFails(j)

McpNext ==
  \/ LoadServers \/ ClearAudit
  \/ \E id \in ServerIds : HandleAdd(id) \/ HandleToggle(id) \/ HandleDelete(id) \/ HandleScan(id)
  \/ \E j \in jobs : JobGoesOn(j)

McpSpec == McpInit /\ [][McpNext]_mcpvars

-----------------------------------------------------------------------------
(* A server graded dangerous is off, unless the user switched it on or the    *)
(* store refused: the scan that graded it is then still to disable it.        *)
DangerIsOff ==
  \A id \in Known :
    table[id].risk = "danger" /\ table[id].enabled
      => id \in forced \/ \E j \in jobs : j.kind = "scan" /\ j.id = id /\ j.at = "off"

(* A scan or a toggle that was under way when a server was deleted does not   *)
(* put it back.                                                               *)
DroppedStaysDropped == dropped \cap Known = {}

(* What deleteServer is for: no audit entry outlives its server.              *)
NoOrphanRows == \A e \in audit : e[1] \notin dropped
=============================================================================
