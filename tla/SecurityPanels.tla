--------------------------- MODULE SecurityPanels --------------------------
(***************************************************************************)
(* The security page of the desktop (pages/SecurityPage.tsx and its panels *)
(* in pages/security): the kill switch, the network access mode, the       *)
(* firewall toggle, the checks with their fixes, the permissions of the    *)
(* exec tool and the event log, over the firewall and scan commands of the *)
(* backend (security/firewall.rs, scan.rs, checks.rs).  The commands are   *)
(* synchronous: they run one at a time, in the order they were invoked.    *)
(***************************************************************************)
EXTENDS Integers, Sequences, FiniteSets, FiniteSetsExt

CONSTANTS Patterns,                       \* patterns of the exec allowlist
          MaxSecVisits, MaxQueue, MaxActs \* bounds

VARIABLES
  machine,   \* the firewall's rules, the stored mode, the service, the LAN, the exec approvals
  sec,       \* the page: see NewSec
  secVisit,  \* the visit of the open page, 0 when another is shown
  queue,     \* commands invoked and not yet run
  logs,      \* handlers that wait: the visit, what they do next and the control they free
  events,    \* the event log: stored and shown
  failed,    \* a change of the firewall failed since the last scan of the page
  acts       \* what the bounds count

secvars == <<machine, sec, secVisit, queue, logs, events, failed, acts>>

Modes == {"off", "local", "subnet", "tailscale"}
NewSec == [active |-> FALSE, report |-> FALSE, status |-> "unknown", mode |-> "loading", lan |-> FALSE,
           exec |-> "loading", list |-> {}, busy |-> {}, done |-> {}]

-----------------------------------------------------------------------------
(* The backend.  Every change of the rules first deletes the old ones, and    *)
(* does not look whether it could; an addition that fails takes back what was *)
(* added; the mode is stored last, and that may fail too.                     *)
RulesOf(mode) ==
  CASE mode = "local"     -> {"block", "allowLocal"}
    [] mode = "subnet"    -> {"block", "allowLocal", "allowSubnet"}
    [] mode = "tailscale" -> {"block", "allowLocal", "allowTailscale"}
    [] OTHER              -> {}

Deleted == {{}, machine.rules}
Result(ok, rules, mode) == [ok |-> ok, to |-> [machine EXCEPT !.rules = rules, !.mode = mode]]

Applied(mode) ==
  CASE mode = "off"                     -> Deleted
    [] mode = "subnet" /\ ~machine.lan -> {}
    [] OTHER                            -> {RulesOf(mode)}
SetNetworkAccessMode(mode) ==
  {Result(TRUE, rules, mode) : rules \in Applied(mode)}
  \cup {Result(FALSE, rules, machine.mode) : rules \in Applied(mode) \cup Deleted}

ApplyLocalOnlyFirewall ==
  {Result(TRUE, RulesOf("local"), mode) : mode \in {"local", machine.mode}}
  \cup {Result(FALSE, rules, machine.mode) : rules \in Deleted}
RemoveLocalOnlyFirewall ==
  LET left == {machine.rules, machine.rules \ {"block", "allowLocal"}}
  IN  {Result(TRUE, rules, "off") : rules \in left} \cup {Result(TRUE, rules, machine.mode) : rules \in left}

KillSwitchOffline == {[r EXCEPT !.to.service = @ /\ ~r.ok] : r \in ApplyLocalOnlyFirewall}
KillSwitchRestore == {[r EXCEPT !.to.service = TRUE] : r \in RemoveLocalOnlyFirewall}

CheckFirewallActive(rules) == "block" \in rules /\ rules \cap {"allowSubnet", "allowTailscale"} = {}

NetworkAccessStatus(rules) ==
  IF "block" \notin rules THEN "danger" ELSE IF "allowSubnet" \in rules THEN "notice"
  ELSE IF "allowTailscale" \in rules THEN "warn" ELSE "ok"

(* The checks and the statuses each may report. *)
Checks == [network_access |-> {"ok", "notice", "warn", "danger"}, im_connector |-> {"ok", "warn", "danger"},
           port_exposure |-> {"ok", "warn", "danger"}, node_version |-> {"ok", "warn", "danger", "unknown"},
           pm2_status |-> {"ok", "warn"}, offline_mode |-> {"ok", "warn"}]
Weight == [network_access |-> 40, im_connector |-> 20, port_exposure |-> 15, node_version |-> 10,
           pm2_status |-> 10, offline_mode |-> 5]

(* The backend's score rounds down, the breakdown of the page to the nearest. *)
Percent(id, status) ==
  CASE status = "ok" -> 100 [] status = "notice" -> 85 [] status = "unknown" -> 50
    [] status = "warn" -> IF id = "network_access" THEN 75 ELSE 60 [] OTHER -> 0
PointsOf(id, status) == (Weight[id] * Percent(id, status)) \div 100
CalculateScore(statuses) == MapThenSumSet(LAMBDA id : PointsOf(id, statuses[id]), DOMAIN statuses)

CheckContrib(id, status) == (2 * Weight[id] * Percent(id, status) + 100) \div 200

-----------------------------------------------------------------------------
SecInit ==
  /\ machine \in [rules : {{}}, mode : {"off"}, service : {TRUE}, lan : BOOLEAN, exec : {"ask"}, list : {{}}]
  /\ sec = NewSec /\ secVisit = 0 /\ queue = <<>> /\ logs = {} /\ events = [stored |-> 0, shown |-> 0]
  /\ failed = FALSE /\ acts = [visits |-> 0, clicks |-> 0]

Command(kind, arg) == [kind |-> kind, arg |-> arg, visit |-> secVisit]

OpenSecurity ==
  /\ secVisit = 0 /\ acts.visits < MaxSecVisits /\ Len(queue) < MaxQueue
  /\ acts' = [acts EXCEPT !.visits = @ + 1] /\ secVisit' = acts'.visits
  /\ sec' = [NewSec EXCEPT !.busy = {"scan"}]
  /\ queue' = queue \o [i \in 1..3 |-> [kind |-> <<"perms", "mode", "scan">>[i], arg |-> "", visit |-> secVisit']]
  /\ UNCHANGED <<machine, logs, events, failed>>

LeaveSecurity == secVisit # 0 /\ secVisit' = 0 /\ UNCHANGED <<machine, sec, queue, logs, events, failed, acts>>

LanChanges == machine' = [machine EXCEPT !.lan = ~@] /\ acts.clicks < MaxActs
              /\ acts' = [acts EXCEPT !.clicks = @ + 1]
              /\ UNCHANGED <<sec, secVisit, queue, logs, events, failed>>

(* A click that marks a control busy and invokes a command. *)
Invokes(control, command) ==
  /\ secVisit # 0 /\ control \notin sec.busy /\ Len(queue) < MaxQueue /\ acts.clicks < MaxActs
  /\ sec' = [sec EXCEPT !.busy = @ \cup {control}] /\ queue' = Append(queue, command)
  /\ acts' = [acts EXCEPT !.clicks = @ + 1]
  /\ UNCHANGED <<machine, secVisit, logs, events, failed>>

RunScan == Invokes("scan", Command("scan", ""))
HandleKill == ~sec.active /\ Invokes("banner", Command("kill", ""))
HandleRestore == sec.active /\ Invokes("banner", Command("restore", ""))
ToggleFirewall == Invokes("toggle", Command(IF sec.active THEN "fwOff" ELSE "fwOn", ""))
HandlePanic == "panic" \notin sec.done /\ Invokes("panic", Command("wipe", ""))

ApplyMode(m) ==
  /\ sec.mode \notin {"loading", m} /\ (m = "subnet" => sec.lan) /\ m # "local"
  /\ Invokes("network", Command("setMode", m))

HandleSetMode(m) == sec.exec \notin {"loading", m} /\ Invokes("exec", Command("setExec", m))
HandleAddPattern(p) == sec.exec # "loading" /\ Invokes("list", Command("add", p))
HandleRemovePattern(p) ==
  /\ p \in sec.list /\ secVisit # 0 /\ Len(queue) < MaxQueue /\ acts.clicks < MaxActs
  /\ queue' = Append(queue, Command("remove", p)) /\ acts' = [acts EXCEPT !.clicks = @ + 1]
  /\ UNCHANGED <<machine, sec, secVisit, logs, events, failed>>

(* The fix a failing check offers. *)
UseFixAction ==
  CASE sec.status = "danger" -> {"local", "subnet"} [] sec.status \in {"warn", "notice"} -> {"local"} [] OTHER -> {}
HandleFix(m) == sec.report /\ "fix" \notin sec.done /\ m \in UseFixAction /\ Invokes("fix", Command("fix", m))
HandleFixService == sec.report /\ "fixService" \notin sec.done /\ Invokes("fixService", Command("restart", ""))

HandleClear ==
  /\ secVisit # 0 /\ events.shown > 0
  /\ events' = [stored |-> 0, shown |-> 0]
  /\ UNCHANGED <<machine, sec, secVisit, queue, logs, failed, acts>>

-----------------------------------------------------------------------------
(* A command runs and its handler goes on; what a handler of a page that was  *)
(* left sets is lost.                                                         *)
Runs(kinds, to, page, next, control) ==
  /\ queue # <<>> /\ Head(queue).kind \in kinds /\ machine' = to /\ queue' = Tail(queue)
  /\ sec' = IF secVisit = Head(queue).visit THEN page ELSE sec
  /\ logs' = logs \cup {[visit |-> Head(queue).visit, next |-> n, control |-> control] : n \in next}
  /\ UNCHANGED <<secVisit, events, acts>>

Frees(control) == [sec EXCEPT !.busy = @ \ {control}]
Ends(control) == [Frees(control) EXCEPT !.done = @ \cup {control}]

ScanRuns ==
  /\ Runs({"scan"}, machine,
          [sec EXCEPT !.active = CheckFirewallActive(machine.rules), !.report = TRUE,
                      !.status = NetworkAccessStatus(machine.rules)], {"events"}, "scan")
  /\ failed' = (failed /\ secVisit # Head(queue).visit)

LoadRuns ==
  /\ \/ Runs({"perms"}, machine, [sec EXCEPT !.exec = machine.exec, !.list = machine.list], {}, "")
     \/ Runs({"mode"}, machine, [sec EXCEPT !.mode = machine.mode, !.lan = machine.lan], {}, "")
  /\ UNCHANGED failed

(* A change of the firewall by a control of the page: a success is shown, then *)
(* logged, then scanned; a failure of the toggle is logged, of another not.    *)
FirewallRuns(control, kinds, results, page) ==
  \E r \in results :
    /\ IF r.ok THEN Runs(kinds, r.to, page, {"scan"}, control)
       ELSE IF control = "toggle" THEN Runs(kinds, r.to, sec, {"events"}, control)
       ELSE Runs(kinds, r.to, Frees(control), {}, control)
    /\ failed' = (failed \/ ~r.ok)

KillRuns == FirewallRuns("banner", {"kill"}, KillSwitchOffline, [sec EXCEPT !.active = TRUE])
RestoreRuns == FirewallRuns("banner", {"restore"}, KillSwitchRestore, [sec EXCEPT !.active = FALSE])
ToggleRuns ==
  \/ FirewallRuns("toggle", {"fwOn"}, ApplyLocalOnlyFirewall, [sec EXCEPT !.active = TRUE])
  \/ FirewallRuns("toggle", {"fwOff"}, RemoveLocalOnlyFirewall, [sec EXCEPT !.active = FALSE])

ModeRunsUnscanned ==   \* mutant: the panel does not scan again
  queue # <<>> /\ \E r \in SetNetworkAccessMode(Head(queue).arg) :
    /\ Runs({"setMode"}, r.to, [Frees("network") EXCEPT !.mode = IF r.ok THEN Head(queue).arg ELSE @], {}, "network")
    /\ failed' = (failed \/ ~r.ok)

ModeRuns ==
  queue # <<>> /\ FirewallRuns("network", {"setMode"}, SetNetworkAccessMode(Head(queue).arg),
                              [sec EXCEPT !.mode = Head(queue).arg])

(* A fix scans without a log, the restart of the service after 1.5 s.         *)
FixRuns ==
  queue # <<>> /\ \E r \in SetNetworkAccessMode(Head(queue).arg) :
    /\ IF r.ok THEN Runs({"fix"}, r.to, Ends("fix"), {"rescan"}, "fix")
               ELSE Runs({"fix"}, r.to, Frees("fix"), {}, "fix")
    /\ failed' = (failed \/ ~r.ok)

OtherRuns ==
  /\ \/ Runs({"restart"}, [machine EXCEPT !.service = TRUE], sec, {"rescan"}, "fixService")
     \/ Runs({"restart"}, machine, Frees("fixService"), {}, "fixService")
     \/ \E ok \in BOOLEAN :
          Runs({"wipe"}, machine, IF ok THEN [sec EXCEPT !.done = @ \cup {"panic"}] ELSE sec, {"events"}, "panic")
  /\ UNCHANGED failed


(* The exec approvals.  A failure leaves the file and the panel alone.        *)
ApprovalsRun ==
  /\ queue # <<>>
  /\ LET p == Head(queue).arg
     IN  \/ Runs({"setExec"}, [machine EXCEPT !.exec = p], [sec EXCEPT !.exec = p], {"events"}, "exec")
         \/ Runs({"add"}, [machine EXCEPT !.list = @ \cup {p}], [sec EXCEPT !.list = @ \cup {p}], {"events"}, "list")
         \/ Runs({"remove"}, [machine EXCEPT !.list = @ \ {p}], [sec EXCEPT !.list = @ \ {p}], {"events"}, "")
         \/ Runs({"setExec"}, machine, Frees("exec"), {}, "exec") \/ Runs({"add"}, machine, Frees("list"), {}, "list")
         \/ Runs({"remove"}, machine, sec, {}, "")
  /\ UNCHANGED failed

(* The event is stored, and the handler scans again or loads the log; a fix   *)
(* stores nothing.                                                            *)
LogSecurityEvent(l) ==
  LET open   == l.visit = secVisit
      logged == IF l.next # "rescan" /\ events.stored < 2 THEN events.stored + 1 ELSE events.stored
      page   == IF l.next = "rescan" THEN Ends(l.control) ELSE Frees(l.control)
  IN /\ l \in logs /\ logs' = logs \ {l}
     /\ events' = [stored |-> logged, shown |-> IF open /\ l.next = "events" THEN logged ELSE events.shown]
     /\ IF l.next = "events"
        THEN sec' = (IF open THEN page ELSE sec) /\ UNCHANGED queue
        ELSE /\ queue' = Append(queue, [kind |-> "scan", arg |-> "", visit |-> l.visit]) /\ Len(queue) <= MaxQueue
             /\ sec' = IF open THEN [page EXCEPT !.busy = @ \cup {"scan"}] ELSE sec
     /\ UNCHANGED <<machine, secVisit, failed, acts>>

SecNext ==
  \/ OpenSecurity \/ LeaveSecurity \/ LanChanges \/ RunScan \/ HandleKill \/ HandleRestore
  \/ ToggleFirewall \/ HandlePanic \/ HandleFixService \/ HandleClear
  \/ \E m \in Modes : ApplyMode(m) \/ HandleFix(m)
  \/ \E m \in {"deny", "ask", "allow"} : HandleSetMode(m)
  \/ \E p \in Patterns : HandleAddPattern(p) \/ HandleRemovePattern(p)
  \/ ScanRuns \/ LoadRuns \/ KillRuns \/ RestoreRuns \/ ToggleRuns \/ ModeRuns \/ FixRuns
  \/ OtherRuns \/ ApprovalsRun \/ \E l \in logs : LogSecurityEvent(l)

SecSpec == SecInit /\ [][SecNext]_secvars

-----------------------------------------------------------------------------
Settled == secVisit # 0 /\ queue = <<>> /\ logs = {}

(* Once the page has nothing under way, the banner, the toggle and the checks *)
(* show the rules in force, whichever panel changed them, unless a change     *)
(* failed half way.                                                           *)
BannerIsTrue ==
  Settled /\ ~failed =>
    /\ sec.active = CheckFirewallActive(machine.rules)
    /\ sec.report => sec.status = NetworkAccessStatus(machine.rules)

(* The permissions shown are those of the approvals file.                     *)
PermissionsAgree == Settled => sec.exec = machine.exec /\ sec.list = machine.list

(* What the breakdown says of itself: the points it shows add up to the score *)
(* of the backend, for every report the checks can make.                      *)
BreakdownAgrees ==
  \A id \in DOMAIN Checks : \A status \in Checks[id] : CheckContrib(id, status) = PointsOf(id, status)

(* firewall.rs:157 and :168 "port ... was not changed": the error of the local *)
(* restriction says that the rules are as they were.                          *)
FailedChangesNothing ==
  [][(~failed /\ failed' /\ Head(queue).kind \in {"kill", "fwOn"}) => machine'.rules = machine.rules]_secvars

(* The mode stored is the one in force.                                       *)
ModeIsEnforced == machine.rules = RulesOf(machine.mode)

(* A check that reports danger offers its fix.                                *)
FixIsOffered == Settled /\ sec.status = "danger" => "fix" \notin sec.done

(* The mode shown is the one stored.                                          *)
ModeIsShown == Settled => sec.mode = machine.mode
=============================================================================
