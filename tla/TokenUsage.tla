----------------------------- MODULE TokenUsage -----------------------------
(***************************************************************************)
(* The token log (packages/shared/src/stores/tokenLogStore.ts) and the     *)
(* page that summarises it (components/token/TokenPageContent.tsx, with    *)
(* the TokenPage of the desktop and of the phone).  A summary is read at   *)
(* one step and shown at a later one; loads are started by a visit, by a   *)
(* choice of instance, by a button and by a timer, and none is cancelled.  *)
(***************************************************************************)
EXTENDS Integers, FiniteSets, FiniteSetsExt

CONSTANTS Logged,     \* instances that use tokens
          Amounts,    \* tokens of one record
          Week,       \* days a summary averages over
          Month,      \* days in a month
          PurgeDays,  \* days a purge keeps: 30 on the pages, 7, 30 or 90 in the settings
          MaxNow, MaxRecords, MaxSelects, MaxLoads, MaxTokenVisits \* bounds

All == "all"
Nothing == [of |-> "nothing"]
ASSUME TokenAssumption ==
  /\ All \notin Logged /\ PurgeDays \cup {Week, Month, MaxNow, MaxRecords, MaxSelects} \subseteq Nat \ {0}
  /\ \A days \in PurgeDays : Week <= days

VARIABLES
  now,        \* the day
  log,        \* token_records
  page,       \* the page: visit (0 when away), sel, summary, loading, kill
  queries,    \* calls of getUsageSummary, as [visit, of, got]
  purges,     \* purges under way, as days to keep
  badge,      \* useTokenAnomalyStore
  count       \* what the bounds count: records, selects and visits

tokenvars == <<now, log, page, queries, purges, badge, count>>

Away == [visit |-> 0, sel |-> All, summary |-> Nothing, loading |-> FALSE, kill |-> "idle"]
Load(visit, of) == [visit |-> visit, of |-> of, got |-> Nothing]

TokenInit ==
  /\ now = 0 /\ log = {} /\ page = Away /\ queries = {} /\ purges = {} /\ badge = FALSE
  /\ count = [records |-> 0, selects |-> 0, visits |-> 0]

-----------------------------------------------------------------------------
(* tokenLogStore *)

Since(R, day) == {r \in R : r.at >= day}
Tokens(R) == MapThenSumSet(LAMBDA r : r.tokens, R)
StartOfMonth == (now \div Month) * Month
RecordsOf(scope) == IF scope = All THEN log ELSE {r \in log : r.inst = scope}

(* The average is over the days that have a record. *)
Anomaly(R) ==
  LET before == {r \in R : now - Week <= r.at /\ r.at < now - 1}
      days   == Cardinality({r.at : r \in before})
  IN  Tokens(before) > 0 /\ Tokens(Since(R, now - 1)) * days > 3 * Tokens(before)

UsageOf(R) == [total24h |-> Tokens(Since(R, now - 1)), totalMonth |-> Tokens(Since(R, StartOfMonth))]

(* The breakdown by instance reads the whole log, however old its records.    *)
InstanceBreakdown(scope) ==
  [inst \in IF scope = All THEN {r.inst : r \in log} ELSE {} |-> UsageOf({r \in log : r.inst = inst})]

(* The hours, models and kinds of token of the last day go with total24h.     *)
GetUsageSummary(scope) ==
  [of |-> scope, usage |-> UsageOf(RecordsOf(scope)), anomaly |-> Anomaly(RecordsOf(scope)),
   instances |-> InstanceBreakdown(scope)]

RecordTokenUsage(inst, tokens) ==
  /\ count.records < MaxRecords
  /\ log' = log \cup {[id |-> count.records, inst |-> inst, tokens |-> tokens, at |-> now]}
  /\ count' = [count EXCEPT !.records = @ + 1]
  /\ UNCHANGED <<now, page, queries, purges, badge>>

PurgeEarly(days) ==   \* mutant: the week is what a summary needs
  /\ days \in purges /\ purges' = purges \ {days}
  /\ log' = {r \in log : r.at >= now - Week}
  /\ UNCHANGED <<now, page, queries, badge, count>>

PurgeOldRecords(days) ==
  /\ days \in purges /\ purges' = purges \ {days}
  /\ log' = {r \in log : r.at >= now - days}
  /\ UNCHANGED <<now, page, queries, badge, count>>

PurgeFails(days) ==
  days \in purges /\ purges' = purges \ {days} /\ UNCHANGED <<now, log, page, queries, badge, count>>

DayPasses == now < MaxNow /\ now' = now + 1 /\ UNCHANGED <<log, page, queries, purges, badge, count>>

-----------------------------------------------------------------------------
(* TokenPageContent *)

Starts(p) == queries' = queries \cup {Load(p.visit, p.sel)} /\ page' = [p EXCEPT !.loading = TRUE]
MayStart == Cardinality(queries) < MaxLoads

OpenToken ==
  /\ page.visit = 0 /\ count.visits < MaxTokenVisits /\ MayStart
  /\ count' = [count EXCEPT !.visits = @ + 1]
  /\ Starts([Away EXCEPT !.visit = count'.visits])
  /\ UNCHANGED <<now, log, purges, badge>>

LeaveToken ==
  page.visit # 0 /\ page' = Away /\ UNCHANGED <<now, log, queries, purges, badge, count>>

(* A tab chosen again starts no load, but its summary goes all the same.      *)
SelectInstance(scope) ==
  /\ page.visit # 0 /\ count.selects < MaxSelects
  /\ count' = [count EXCEPT !.selects = @ + 1]
  /\ LET p == [page EXCEPT !.sel = scope, !.summary = Nothing]
         settled == IF page.kill = "loading" THEN "loading" ELSE "idle"
     IN IF scope = page.sel THEN page' = p /\ UNCHANGED queries
                            ELSE MayStart /\ Starts([p EXCEPT !.kill = settled])
  /\ UNCHANGED <<now, log, purges, badge>>

(* The button, disabled while loading on the desktop only. *)
RefreshToken ==
  page.visit # 0 /\ MayStart /\ Starts(page) /\ UNCHANGED <<now, log, purges, badge, count>>

TimerKeepsScope ==   \* mutant: the timer of the first render is kept
  /\ page.visit # 0 /\ MayStart
  /\ queries' = queries \cup {Load(page.visit, All)} /\ page' = [page EXCEPT !.loading = TRUE]
  /\ UNCHANGED <<now, log, purges, badge, count>>

(* setInterval(load, AUTO_REFRESH_MS). *)
TimerFires ==
  page.visit # 0 /\ MayStart /\ Starts(page) /\ UNCHANGED <<now, log, purges, badge, count>>

LoadReadsLog(c) ==
  /\ c.got = Nothing /\ queries' = (queries \ {c}) \cup {[c EXCEPT !.got = GetUsageSummary(c.of)]}
  /\ UNCHANGED <<now, log, page, purges, badge, count>>


(* The badge is set after the page was left, too. *)
LoadShowsSummary(c) ==
  /\ c.got # Nothing /\ queries' = queries \ {c}
  /\ badge' = IF c.of = All THEN c.got.anomaly ELSE badge
  /\ page' = IF page.visit = c.visit THEN [page EXCEPT !.summary = c.got, !.loading = FALSE] ELSE page
  /\ UNCHANGED <<now, log, purges, count>>

LoadFailsToRead(c) ==
  /\ c.got = Nothing /\ queries' = queries \ {c}
  /\ page' = IF page.visit = c.visit THEN [page EXCEPT !.loading = FALSE] ELSE page
  /\ UNCHANGED <<now, log, purges, badge, count>>

(* The purge of the page and those of the settings of desktop and phone.      *)
HandlePurge(days) ==
  /\ purges = {} /\ purges' = {days} /\ UNCHANGED <<now, log, page, queries, badge, count>>

(* AnomalyAlert, and handleAnomalyKill of the page around it. *)
AnomalyAlert == page.summary # Nothing /\ page.summary.anomaly
HandleAnomalyKill ==
  /\ AnomalyAlert /\ page.kill \in {"idle", "error"} /\ page' = [page EXCEPT !.kill = "loading"]
  /\ UNCHANGED <<now, log, queries, purges, badge, count>>
KillEnds ==
  /\ page.kill = "loading" /\ \E k \in {"done", "error"} : page' = [page EXCEPT !.kill = k]
  /\ UNCHANGED <<now, log, queries, purges, badge, count>>
KillNoteExpires ==
  /\ page.kill \in {"done", "error"} /\ page' = [page EXCEPT !.kill = "idle"]
  /\ UNCHANGED <<now, log, queries, purges, badge, count>>

LoadEnds(c) == LoadReadsLog(c) \/ LoadShowsSummary(c) \/ LoadFailsToRead(c)
TokenNext ==
  \/ DayPasses \/ \E inst \in Logged, tokens \in Amounts : RecordTokenUsage(inst, tokens)
  \/ OpenToken \/ LeaveToken \/ RefreshToken \/ TimerFires
  \/ \E scope \in Logged \cup {All} : SelectInstance(scope)
  \/ \E c \in queries : LoadEnds(c)
  \/ \E days \in PurgeDays : HandlePurge(days) \/ PurgeOldRecords(days) \/ PurgeFails(days)
  \/ HandleAnomalyKill \/ KillEnds \/ KillNoteExpires

(* The interval goes on for ever; SQLite, asked again and again, answers.     *)
TokenFair ==
  /\ WF_tokenvars(TimerFires)
  /\ SF_tokenvars(\E c \in queries : LoadReadsLog(c))
  /\ WF_tokenvars(\E c \in queries : LoadShowsSummary(c))
TokenSpec == TokenInit /\ [][TokenNext]_tokenvars /\ TokenFair

-----------------------------------------------------------------------------
(* A late answer may show another instance's summary under the chosen tab;    *)
(* the timer repairs it: on an open page, the chosen instance's is shown      *)
(* again and again.                                                           *)
SummaryConverges == []<>(page.visit # 0 => page.summary.of = page.sel)

(* A purge of any number of days, of all records at once, spares every        *)
(* summary: the last day and the anomaly stay, and so does the total of the   *)
(* month, with the budget it is held against, unless the purge reaches into   *)
(* the month (30 days on a 31st, 7 days after the first week).  An instance   *)
(* leaves the breakdown only with no tokens left to show.                     *)
SparesUsage(days, before, after) ==
  /\ after.total24h = before.total24h
  /\ now - days <= StartOfMonth => after.totalMonth = before.totalMonth
ListedUsage(summary, inst) ==
  IF inst \in DOMAIN summary.instances THEN summary.instances[inst] ELSE UsageOf({})
SparesSummary(days, before, after) ==
  /\ SparesUsage(days, before.usage, after.usage) /\ after.anomaly = before.anomaly
  /\ DOMAIN after.instances \subseteq DOMAIN before.instances
  /\ \A inst \in DOMAIN before.instances :
       SparesUsage(days, before.instances[inst], ListedUsage(after, inst))
PurgeKeepsSummary ==
  [][\A days \in PurgeDays, s \in Logged \cup {All} :
       PurgeOldRecords(days) => SparesSummary(days, GetUsageSummary(s), GetUsageSummary(s)')]_tokenvars

(* The badge of the sidebar tells of an anomaly of all instances together,    *)
(* also when summaries are answered out of order: no summary of one instance  *)
(* changes it.                                                                *)
BadgeIsOfAll ==
  [][badge' # badge => \E c \in queries \ queries' : c.of = All /\ c.got # Nothing]_tokenvars
=============================================================================
