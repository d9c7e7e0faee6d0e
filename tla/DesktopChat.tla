----------------------------- MODULE DesktopChat ----------------------------
(***************************************************************************)
(* The chat page of the desktop (apps/desktop/src/pages/ChatPage.tsx): a   *)
(* second webview laid over the page shows the chat of the gateway.  The   *)
(* page mounts it when the machine selected is online, hides it when the   *)
(* user leaves, and mounts it again after a repair; the commands           *)
(* (gateway.rs, mount_chat_webview and on) run on their own.  Unmounting,  *)
(* hiding and resizing take effect in the order they are asked for; a      *)
(* mount may fail at any of its calls.  What a repair says goes after five *)
(* seconds and is left out.                                                *)
(***************************************************************************)
EXTENDS Naturals, FiniteSets

CONSTANTS Gateways,
          MaxPages, MaxPicks, MaxHealth, MaxRepairs    \* bounds
ASSUME DesktopChatAssumption == Gateways # {}

VARIABLES
  webview,    \* the child webview: none, shown, hidden
  onlines,    \* the machines the store holds for online
  pane,       \* the page: see NewPane
  paneVisit,  \* the visit of the open page, 0 when another is shown
  mounts,     \* mounts under way: see Mount
  repair,     \* the repairs under way, one per visit at most
  paneCounts  \* what the bounds count

deskvars == <<webview, onlines, pane, paneVisit, mounts, repair, paneCounts>>

(* lost: what has kept the chat from the page since its effect ran last:      *)
(* "noRoom" (the page had no size), "remount" (that of a repair failed),      *)
(* "taken" (unmounted by the repair of a page that was left).                 *)
NewPane(g) == [selected |-> g, mounted |-> FALSE, inst |-> {}, mounting |-> FALSE, error |-> FALSE, lost |-> {},
               run |-> 0]

(* by: "effect" or "repair"; at: "frame" (waits for the layout), "asked",     *)
(* "url" (no webview was there: the address is asked for).                    *)
Mount(by, p) == [by |-> by, at |-> IF by = "effect" THEN "frame" ELSE "asked",
                 for |-> p.selected, visit |-> paneVisit', run |-> p.run]

DesktopChatInit ==
  /\ webview = "none" /\ onlines \in SUBSET Gateways /\ pane \in {NewPane(g) : g \in Gateways}
  /\ paneVisit = 0 /\ mounts = {} /\ repair = {}
  /\ paneCounts = [visits |-> 0, picks |-> 0, health |-> 0, repairs |-> 0]

Tallies(c) == paneCounts' = [paneCounts EXCEPT ![c] = @ + 1]

-----------------------------------------------------------------------------
(* The effect on [isOnline, selectedId]: the run before it is cancelled; the  *)
(* webview of another machine, or of one that went offline, is unmounted;     *)
(* the mount waits for the next frame.                                        *)
Effect(p) ==
  LET unmounts == p.mounted /\ (p.selected \notin onlines' \/ p.inst # {p.selected})
      fresh    == [p EXCEPT !.lost = {}, !.run = @ + 1]
      q        == IF unmounts THEN [fresh EXCEPT !.mounted = FALSE, !.inst = {}] ELSE fresh
  IN  /\ pane' = q /\ webview' = IF unmounts THEN "none" ELSE webview
      /\ mounts' = IF p.selected \in onlines' THEN mounts \cup {Mount("effect", q)} ELSE mounts

OpenPane ==
  /\ paneVisit = 0 /\ paneCounts.visits < MaxPages /\ Tallies("visits") /\ paneVisit' = paneCounts'.visits
  /\ UNCHANGED <<onlines, repair>> /\ \E g \in Gateways : Effect(NewPane(g))

(* Hide (not destroy): only what the page knows to be mounted.  A repair that *)
(* goes on keeps the refs of the page it was made on.                         *)
LeavePane ==
  /\ paneVisit # 0 /\ paneVisit' = 0
  /\ webview' = IF pane.mounted /\ webview = "shown" THEN "hidden" ELSE webview
  /\ repair' = {IF r.visit = paneVisit THEN [r EXCEPT !.had = pane.mounted] ELSE r : r \in repair}
  /\ UNCHANGED <<onlines, pane, mounts, paneCounts>>

SelectInstance(g) ==
  /\ paneVisit # 0 /\ g # pane.selected /\ paneCounts.picks < MaxPicks /\ Tallies("picks")
  /\ UNCHANGED <<onlines, paneVisit, repair>> /\ Effect([pane EXCEPT !.selected = g])

HealthChanges(g) ==
  /\ paneCounts.health < MaxHealth /\ Tallies("health")
  /\ onlines' = IF g \in onlines THEN onlines \ {g} ELSE onlines \cup {g}
  /\ UNCHANGED <<paneVisit, repair>>
  /\ IF paneVisit # 0 /\ pane.selected = g THEN Effect(pane) ELSE UNCHANGED <<pane, webview, mounts>>

(* The observer of the size moves a hidden webview back as well.              *)
Resize ==
  /\ paneVisit # 0 /\ pane.mounted /\ webview' = IF webview = "hidden" THEN "shown" ELSE webview
  /\ UNCHANGED <<onlines, pane, paneVisit, mounts, repair, paneCounts>>

-----------------------------------------------------------------------------
Cancelled(m) == m.visit # paneVisit \/ (m.by = "effect" /\ m.run # pane.run)

FrameComes(m) ==
  /\ m \in mounts /\ m.at = "frame" /\ UNCHANGED <<webview, onlines, paneVisit, repair, paneCounts>>
  /\ IF Cancelled(m) THEN mounts' = mounts \ {m} /\ UNCHANGED pane
     ELSE \/ /\ mounts' = (mounts \ {m}) \cup {[m EXCEPT !.at = "asked"]}
             /\ pane' = [pane EXCEPT !.mounting = TRUE, !.error = FALSE]
          \/ mounts' = mounts \ {m} /\ pane' = [pane EXCEPT !.lost = @ \cup {"noRoom"}]

(* What the page makes of the end of a mount: an effect that was cancelled    *)
(* says nothing; a repair writes into the page it was made on, and its        *)
(* failure is on show no longer than five seconds.                            *)
MountShows(m, ok) ==
  /\ mounts' = mounts \ {m}
  /\ repair' = IF m.by = "repair" THEN {r \in repair : r.visit # m.visit} ELSE repair
  /\ pane' = IF Cancelled(m) THEN pane
             ELSE LET p == IF ok THEN [pane EXCEPT !.mounted = TRUE, !.inst = {m.for}, !.lost = @ \cap {"noRoom"}]
                           ELSE [pane EXCEPT !.lost = IF m.by = "repair" THEN @ \cup {"remount"} ELSE @]
                  IN  IF m.by = "repair" THEN p ELSE [p EXCEPT !.error = ~ok, !.mounting = FALSE]

(* mount_chat_webview: a webview that is there is moved; else it is added     *)
(* when the address is known.  Either may fail, and the addition does if one  *)
(* was added meanwhile.                                                       *)
MountFails(m) ==
  /\ m \in mounts /\ m.at \in {"asked", "url"} /\ MountShows(m, FALSE)
  /\ UNCHANGED <<webview, onlines, paneVisit, paneCounts>>

MountChecks(m) ==
  /\ m \in mounts /\ m.at = "asked" /\ UNCHANGED <<onlines, paneVisit, paneCounts>>
  /\ IF webview # "none" THEN webview' = "shown" /\ MountShows(m, TRUE)
     ELSE mounts' = (mounts \ {m}) \cup {[m EXCEPT !.at = "url"]} /\ UNCHANGED <<webview, pane, repair>>

AddChild(m) ==
  /\ m \in mounts /\ m.at = "url" /\ webview = "none" /\ webview' = "shown" /\ MountShows(m, TRUE)
  /\ UNCHANGED <<onlines, paneVisit, paneCounts>>

-----------------------------------------------------------------------------
(* handleRepair: a configuration that was repaired is loaded by mounting the  *)
(* webview again, half a second later.                                        *)
HandleRepair ==
  /\ paneVisit # 0 /\ pane.selected \in onlines /\ paneCounts.repairs < MaxRepairs /\ Tallies("repairs")
  /\ ~ \E r \in repair : r.visit = paneVisit
  /\ repair' = repair \cup {[visit |-> paneVisit, for |-> pane.selected, at |-> "asked", had |-> FALSE]}
  /\ UNCHANGED <<webview, onlines, pane, paneVisit, mounts>>

(* The webview is unmounted if the page of the repair had it mounted, though  *)
(* that page may be gone and another one show it by now.                      *)
RepairUnmounts(r) ==
  /\ r \in repair /\ r.at = "asked" /\ UNCHANGED <<onlines, paneVisit, mounts, paneCounts>>
  /\ IF r.visit = paneVisit THEN pane.mounted ELSE r.had
  /\ webview' = "none" /\ repair' = (repair \ {r}) \cup {[r EXCEPT !.at = "pause"]}
  /\ pane' = IF r.visit = paneVisit THEN [pane EXCEPT !.mounted = FALSE, !.inst = {}]
             ELSE IF webview = "shown" THEN [pane EXCEPT !.lost = @ \cup {"taken"}] ELSE pane

(* Nothing had to be repaired, nothing was mounted, or the repair failed.     *)
RepairAnswers(r) ==
  /\ r \in repair /\ r.at = "asked" /\ repair' = repair \ {r}
  /\ UNCHANGED <<webview, onlines, pane, paneVisit, mounts, paneCounts>>

PauseForgets(r) ==   \* mutant: the webview is not mounted again
  /\ r \in repair /\ r.at = "pause" /\ repair' = repair \ {r}
  /\ UNCHANGED <<webview, onlines, pane, paneVisit, mounts, paneCounts>>

(* A page that was left has no size. *)
PauseEnds(r) ==
  /\ r \in repair /\ r.at = "pause" /\ UNCHANGED <<webview, onlines, paneVisit, paneCounts>>
  /\ \/ /\ r.visit = paneVisit /\ repair' = (repair \ {r}) \cup {[r EXCEPT !.at = "mounts"]}
        /\ mounts' = mounts \cup {[Mount("repair", pane) EXCEPT !.for = r.for]} /\ UNCHANGED pane
     \/ /\ repair' = repair \ {r} /\ UNCHANGED mounts
        /\ pane' = IF r.visit = paneVisit THEN [pane EXCEPT !.lost = @ \cup {"noRoom"}] ELSE pane

DesktopChatNext ==
  \/ OpenPane \/ LeavePane \/ Resize \/ HandleRepair
  \/ \E g \in Gateways : SelectInstance(g) \/ HealthChanges(g)
  \/ \E m \in mounts : FrameComes(m) \/ MountFails(m) \/ MountChecks(m) \/ AddChild(m)
  \/ \E r \in repair : RepairUnmounts(r) \/ RepairAnswers(r) \/ PauseEnds(r)

DesktopChatSpec == DesktopChatInit /\ [][DesktopChatNext]_deskvars

-----------------------------------------------------------------------------
ChatSettled == paneVisit # 0 /\ pane.selected \in onlines /\ mounts = {} /\ repair = {}

(* Once nothing is under way, the open page of a machine that is online shows *)
(* the chat or says that it could not be mounted, in whatever order picks,    *)
(* visits, changes of health and repairs came.  It is left without either for *)
(* one of three reasons only: it had no size when the chat was to be mounted  *)
(* (which also leaves it saying that it is mounting), the mount of a repair   *)
(* failed, or the repair of a page that was left took the chat away.          *)
ShownUnlessLost ==
  ChatSettled => /\ webview = "shown" \/ pane.error \/ pane.lost # {}
                 /\ pane.mounting => "noRoom" \in pane.lost

(* The same without the three reasons. *)
OnlineIsShown == ChatSettled => ~pane.mounting /\ (webview = "shown" \/ pane.error)

(* What ChatPage.tsx says: the webview is hidden when the user leaves the page *)
(* ("Hide (not destroy) when leaving the page").                               *)
HiddenWhenAway == (paneVisit = 0 /\ mounts = {} /\ repair = {}) => webview # "shown"

(* A machine that is offline shows no chat of an earlier one.                  *)
OfflineIsUnmounted ==
  (paneVisit # 0 /\ pane.selected \notin onlines /\ mounts = {} /\ repair = {}) => webview # "shown"
=============================================================================
