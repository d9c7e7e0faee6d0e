-------------------------- MODULE ShellPagesProofs --------------------------
(***************************************************************************)
(* Theorems about the shell of the application and the pages that drive    *)
(* the machine (local models, security, routing rules, the chat of the     *)
(* desktop), for any models, routes, patterns, rules and machines, and any *)
(* number of visits, clicks and handlers in flight.                        *)
(***************************************************************************)
EXTENDS MCShellPages, TLAPS

-----------------------------------------------------------------------------
(* The shell of the application. *)

(* The route stored is the one on show, the route asked for at the start the   *)
(* expected one; what the sidebar says of the updater is what runs.            *)
ShellInv ==
  /\ prefs = [pin |-> prefs.pin, mode |-> prefs.mode, preset |-> prefs.preset, lang |-> prefs.lang,
              last |-> prefs.last]
  /\ app = [running |-> app.running, path |-> app.path, asked |-> app.asked, expected |-> app.expected,
            launches |-> app.launches, moves |-> app.moves]
  /\ updater = [status |-> updater.status, handle |-> updater.handle]
  /\ flights = [check |-> flights.check, downloads |-> flights.downloads]
  /\ prefs.last = app.path /\ app.asked = app.expected
  /\ IF app.running
     THEN /\ flights.downloads = IF updater.status = "downloading" THEN 1 ELSE 0
          /\ flights.check # "none" => updater.status = "checking"
     ELSE flights = NoFlights

LEMMA ShellStarts == ShellInit => ShellInv
BY DEF ShellInit, ShellInv, NoFlights

LEMMA ShellStep == ShellInv /\ [ShellNext]_shellvars => ShellInv'
<1> SUFFICES ASSUME ShellInv, [ShellNext]_shellvars PROVE ShellInv'
  OBVIOUS
<1> USE DEF ShellInv
<1>1. CASE Launch
  BY <1>1 DEF Launch, StartupNavigator, Restored
<1>2. CASE Close \/ Restart
  BY <1>2 DEF Close, Restart, NoFlights
<1>3. CASE Redirect
  BY <1>3 DEF Redirect
<1>4. ASSUME NEW r, NavItem(r) PROVE ShellInv'
  <2> DEFINE a == [app EXCEPT !.path = r, !.moves = @ + 1]
  <2>1. a = [running |-> app.running, path |-> r, asked |-> app.asked, expected |-> app.expected,
             launches |-> app.launches, moves |-> app.moves + 1]
    <3>1. a = [[app EXCEPT !.path = r] EXCEPT !.moves = app.moves + 1]
      BY Zenon
    <3> DEFINE b == [app EXCEPT !.path = r]
    <3>2. b = [running |-> app.running, path |-> r, asked |-> app.asked, expected |-> app.expected,
               launches |-> app.launches, moves |-> app.moves]
      OBVIOUS
    <3>3. a = [b EXCEPT !.moves = app.moves + 1]
      BY <3>1
    <3> HIDE DEF a, b
    <3> QED
      BY <3>2, <3>3
  <2> QED
    BY <1>4, <2>1 DEF NavItem
<1>5. CASE UNCHANGED <<prefs, app, updater, flights>>
  BY <1>5
<1>6. CASE PageCrashes \/ RetryPage \/ OpenDialog \/ Later \/ UNCHANGED shellvars
           \/ \E tab \in {"general", "security", "storage", "about"} : SelectTab(tab)
           \/ \E code \in Langs : HandleSelect(code)
  BY <1>5, <1>6 DEF PageCrashes, RetryPage, OpenDialog, Later, shellvars, SelectTab, HandleSelect
<1>7. CASE TogglePin \/ HandleSave
           \/ \E m \in {"auto", "prompt"} : HandleChange(m)
           \/ \E l \in Levels : HandleSelectPreset(l)
  BY <1>7 DEF TogglePin, HandleSave, HandleChange, HandleSelectPreset, Prefers
<1>8. CASE CheckForUpdate
  BY <1>8 DEF CheckForUpdate, MayCheck, OnTab, Reachable
<1>9. CASE CheckFinds
  BY <1>9 DEF CheckFinds, NoFlights
<1>10. CASE CheckEndsWithout
  BY <1>10 DEF CheckEndsWithout, NoFlights
<1>11. CASE DownloadAndInstall
  BY <1>11 DEF DownloadAndInstall
<1>12. CASE DownloadEnds
  BY <1>12 DEF DownloadEnds, NoFlights
<1> QED
  BY <1>1, <1>2, <1>3, <1>4, <1>6, <1>7, <1>8, <1>9, <1>10, <1>11, <1>12 DEF ShellNext

LEMMA ShellHolds == ShellInv => ShellIsTrue
BY DEF ShellInv, ShellIsTrue, RestoresLast, DownloadIsShown


-----------------------------------------------------------------------------
(* Local models. *)

IsModelPage(p) ==
  p = [status |-> p.status, listed |-> p.listed, pulling |-> p.pulling, default |-> p.default,
       installing |-> p.installing, starting |-> p.starting, refreshing |-> p.refreshing,
       deleting |-> p.deleting]

(* A handler; a default that is set and a download end without a refresh.     *)
HandlerInv(h) ==
  /\ h = [kind |-> h.kind, model |-> h.model, at |-> h.at, visit |-> h.visit,
          status |-> h.status, held |-> h.held, wasDefault |-> h.wasDefault]
  /\ h.kind = "set" => h.at = "works"
  /\ h.kind = "pull" => h.at \in {"works", "streams"}

ModelInv == IsModelPage(page) /\ (\A h \in work : HandlerInv(h)) /\ WaitingIsInFlight

(* A handler goes on, and one field of the page changes, or several.          *)
WorksOn(h, at) == [h EXCEPT !.at = at]

LEMMA WorksOnIs ==
  ASSUME NEW h, HandlerInv(h), NEW at, h.kind \notin {"set", "pull"} \/ (h.kind = "pull" /\ at = "streams")
  PROVE  LET g == WorksOn(h, at)
         IN  /\ HandlerInv(g) /\ g.kind = h.kind /\ g.model = h.model /\ g.visit = h.visit /\ g.at = at
BY DEF HandlerInv, WorksOn

Asked(h, s, d) == [h EXCEPT !.at = "shows", !.status = s, !.held = d]

LEMMA AskedIs ==
  ASSUME NEW h, HandlerInv(h), h.kind \notin {"set", "pull"}, NEW s, NEW d
  PROVE  LET g == Asked(h, s, d)
         IN  /\ HandlerInv(g) /\ g.kind = h.kind /\ g.model = h.model /\ g.visit = h.visit /\ g.at = "shows"
<1> DEFINE a == [h EXCEPT !.at = "shows"]
           b == [a EXCEPT !.status = s]
<1>1. HandlerInv(a) /\ a.kind = h.kind /\ a.model = h.model /\ a.visit = h.visit /\ a.at = "shows"
  BY DEF HandlerInv
<1>2. Asked(h, s, d) = [[[h EXCEPT !.at = "shows"] EXCEPT !.status = s] EXCEPT !.held = d]
  BY Zenon DEF Asked
<1> HIDE DEF a
<1>3. HandlerInv(b) /\ b.kind = h.kind /\ b.model = h.model /\ b.visit = h.visit /\ b.at = "shows"
  BY <1>1 DEF HandlerInv
<1>4. Asked(h, s, d) = [b EXCEPT !.held = d]
  BY <1>2 DEF a
<1> HIDE DEF b
<1> QED
  BY <1>1, <1>3, <1>4 DEF HandlerInv

LEMMA PageEdits ==
  ASSUME NEW p, IsModelPage(p), NEW x
  PROVE  /\ IsModelPage([p EXCEPT !.status = x]) /\ IsModelPage([p EXCEPT !.listed = x])
         /\ IsModelPage([p EXCEPT !.pulling = x]) /\ IsModelPage([p EXCEPT !.default = x])
         /\ IsModelPage([p EXCEPT !.installing = x]) /\ IsModelPage([p EXCEPT !.starting = x])
         /\ IsModelPage([p EXCEPT !.refreshing = x]) /\ IsModelPage([p EXCEPT !.deleting = x])
BY DEF IsModelPage

(* What the buttons of the page wait for. *)
SameWaits(p, q) == /\ q.installing = p.installing /\ q.starting = p.starting
                   /\ q.refreshing = p.refreshing /\ q.deleting = p.deleting

(* A refresh of this visit that ends takes its own waits with it.             *)
WaitsEnd(p, q, kind) ==
  /\ ~q.refreshing
  /\ q.installing => p.installing /\ kind # "install"
  /\ q.starting => p.starting /\ kind # "start"
  /\ q.deleting # "" => q.deleting = p.deleting /\ kind # "delete"

PageShown(p, s, d, k) ==
  [p EXCEPT !.status = s, !.listed = d, !.refreshing = FALSE,
            !.installing = @ /\ k # "install", !.starting = @ /\ k # "start",
            !.deleting = IF k = "delete" THEN "" ELSE @]

LEMMA PageShows ==
  ASSUME NEW p, IsModelPage(p), NEW s, NEW d, NEW k
  PROVE  IsModelPage(PageShown(p, s, d, k)) /\ WaitsEnd(p, PageShown(p, s, d, k), k)
<1> DEFINE q == PageShown(p, s, d, k)
<1>1. PICK x : x = (p.installing /\ k # "install")
  BY Zenon
<1>2. PICK y : y = (p.starting /\ k # "start")
  BY Zenon
<1>3. PICK z : z = IF k = "delete" THEN "" ELSE p.deleting
  BY Zenon
<1> DEFINE r == [[[[[[p EXCEPT !.status = s] EXCEPT !.listed = d] EXCEPT !.refreshing = FALSE]
                    EXCEPT !.installing = x] EXCEPT !.starting = y] EXCEPT !.deleting = z]
<1>4. IsModelPage(r)
  BY PageEdits, Zenon
<1>5. q = r
  <2>1. q = [p EXCEPT !.status = s, !.listed = d, !.refreshing = FALSE, !.installing = x, !.starting = y,
                      !.deleting = z]
    BY <1>1, <1>2, <1>3, Zenon DEF PageShown
  <2> QED
    BY <2>1, Zenon
<1>6. WaitsEnd(p, q, k)
  BY DEF IsModelPage, PageShown, WaitsEnd
<1> QED
  BY <1>4, <1>5, <1>6, Zenon

(* A handler ends or goes on: what waited for it waits for what it left.      *)
LEMMA HandlerGoes ==
  ASSUME ModelInv, NEW h \in work, NEW G, work' = (work \ {h}) \cup G, \A g \in G : HandlerInv(g),
         visit' = visit, IsModelPage(page'),
         visit # 0 /\ page'.deleting # "" =>
           /\ page'.deleting = page.deleting
           /\ h.kind = "delete" /\ h.visit = visit
                => \E g \in G : g.kind = "delete" /\ g.model = h.model /\ g.visit = visit,
         visit # 0 /\ page'.installing =>
           /\ page.installing
           /\ h.kind = "install" /\ h.visit = visit => \E g \in G : g.kind = "install" /\ g.visit = visit,
         visit # 0 /\ page'.starting =>
           /\ page.starting
           /\ h.kind = "start" /\ h.visit = visit => \E g \in G : g.kind = "start" /\ g.visit = visit,
         visit # 0 /\ page'.refreshing =>
           \/ \E g \in G : g.at \in {"asks", "shows"} /\ g.visit = visit
           \/ page.refreshing /\ ~(h.at \in {"asks", "shows"} /\ h.visit = visit)
  PROVE  ModelInv'
<1>1. \A g \in work' : HandlerInv(g)
  BY DEF ModelInv
<1>2. ASSUME visit # 0, page'.deleting # ""
      PROVE  \E g \in work' : g.kind = "delete" /\ g.model = page'.deleting /\ g.visit = visit
  <2>1. PICK k \in work : k.kind = "delete" /\ k.model = page.deleting /\ k.visit = visit
    BY <1>2 DEF ModelInv, WaitingIsInFlight
  <2> QED
    BY <1>2, <2>1
<1>3. ASSUME visit # 0, page'.installing
      PROVE  \E g \in work' : g.kind = "install" /\ g.visit = visit
  <2>1. PICK k \in work : k.kind = "install" /\ k.visit = visit
    BY <1>3 DEF ModelInv, WaitingIsInFlight
  <2> QED
    BY <1>3, <2>1
<1>4. ASSUME visit # 0, page'.starting
      PROVE  \E g \in work' : g.kind = "start" /\ g.visit = visit
  <2>1. PICK k \in work : k.kind = "start" /\ k.visit = visit
    BY <1>4 DEF ModelInv, WaitingIsInFlight
  <2> QED
    BY <1>4, <2>1
<1>5. ASSUME visit # 0, page'.refreshing
      PROVE  \E g \in work' : g.at \in {"asks", "shows"} /\ g.visit = visit
  <2>1. CASE page.refreshing /\ ~(h.at \in {"asks", "shows"} /\ h.visit = visit)
    <3>1. PICK k \in work : k.at \in {"asks", "shows"} /\ k.visit = visit
      BY <1>5, <2>1 DEF ModelInv, WaitingIsInFlight
    <3> QED
      BY <2>1, <3>1
  <2> QED
    BY <1>5, <2>1
<1> QED
  BY <1>1, <1>2, <1>3, <1>4, <1>5 DEF ModelInv, WaitingIsInFlight

(* One handler ends, or goes on as itself. *)
LEMMA HandlerEnds ==
  ASSUME ModelInv, NEW h \in work, work' = work \ {h}, visit' = visit, IsModelPage(page'),
         page'.deleting # "" => page'.deleting = page.deleting /\ ~(h.kind = "delete" /\ h.visit = visit),
         page'.installing => page.installing /\ ~(h.kind = "install" /\ h.visit = visit),
         page'.starting => page.starting /\ ~(h.kind = "start" /\ h.visit = visit),
         page'.refreshing => page.refreshing /\ ~(h.at \in {"asks", "shows"} /\ h.visit = visit)
  PROVE  ModelInv'
<1> DEFINE G == {}
<1>1. work' = (work \ {h}) \cup G /\ \A g \in G : HandlerInv(g)
  OBVIOUS
<1> HIDE DEF G
<1>2. /\ visit # 0 /\ page'.deleting # "" => page'.deleting = page.deleting /\ ~(h.kind = "delete" /\ h.visit = visit)
      /\ visit # 0 /\ page'.installing => page.installing /\ ~(h.kind = "install" /\ h.visit = visit)
      /\ visit # 0 /\ page'.starting => page.starting /\ ~(h.kind = "start" /\ h.visit = visit)
      /\ visit # 0 /\ page'.refreshing
           => page.refreshing /\ ~(h.at \in {"asks", "shows"} /\ h.visit = visit)
  OBVIOUS
<1> QED
  BY <1>1, <1>2, HandlerGoes

LEMMA HandlerGoesOn ==
  ASSUME ModelInv, NEW h \in work, NEW g, HandlerInv(g), g.kind = h.kind, g.model = h.model, g.visit = h.visit,
         work' = (work \ {h}) \cup {g}, visit' = visit, IsModelPage(page'),
         page'.deleting \in {page.deleting, ""},
         page'.installing => page.installing,
         page'.starting => page.starting,
         h.at \in {"asks", "shows"} => g.at \in {"asks", "shows"},
         page'.refreshing => page.refreshing \/ (g.at \in {"asks", "shows"} /\ g.visit = visit)
  PROVE  ModelInv'
<1> DEFINE G == {g}
<1>1. work' = (work \ {h}) \cup G /\ (\A k \in G : HandlerInv(k)) /\ g \in G
  OBVIOUS
<1> HIDE DEF G
<1>2. /\ h.kind = "delete" /\ h.visit = visit => \E k \in G : k.kind = "delete" /\ k.model = h.model /\ k.visit = visit
      /\ h.kind = "install" /\ h.visit = visit => \E k \in G : k.kind = "install" /\ k.visit = visit
      /\ h.kind = "start" /\ h.visit = visit => \E k \in G : k.kind = "start" /\ k.visit = visit
      /\ h.at \in {"asks", "shows"} /\ h.visit = visit => \E k \in G : k.at \in {"asks", "shows"} /\ k.visit = visit
      /\ g.at \in {"asks", "shows"} /\ g.visit = visit => \E k \in G : k.at \in {"asks", "shows"} /\ k.visit = visit
  BY <1>1
<1> QED
  BY <1>1, <1>2, HandlerGoes

(* A click starts a handler, and the page waits for it.                       *)
LEMMA HandlerStarts ==
  ASSUME ModelInv, NEW g, HandlerInv(g), work' = work \cup {g}, visit' = visit, g.visit = visit, IsModelPage(page'),
         page'.deleting \in {page.deleting, ""} \/ (g.kind = "delete" /\ g.model = page'.deleting),
         page'.installing => page.installing \/ g.kind = "install",
         page'.starting => page.starting \/ g.kind = "start",
         page'.refreshing => page.refreshing \/ g.at = "asks"
  PROVE  ModelInv'
BY DEF ModelInv, WaitingIsInFlight

(* The handlers the page starts. *)
IsNew(g, kind, m, at, v) == HandlerInv(g) /\ g.kind = kind /\ g.model = m /\ g.at = at /\ g.visit = v

Unmarked(g) == [g EXCEPT !.wasDefault = FALSE]
Visited(g, v) == [g EXCEPT !.visit = v]

LEMMA HandlersNew ==
  ASSUME NEW kind, NEW m, NEW at, kind = "set" => at = "works", kind = "pull" => at \in {"works", "streams"}
  PROVE  /\ IsNew(Handler(kind, m, at), kind, m, at, visit)
         /\ IsNew(Unmarked(Handler(kind, m, at)), kind, m, at, visit)
         /\ \A v : IsNew(Visited(Handler(kind, m, at), v), kind, m, at, v)
<1> DEFINE g == Handler(kind, m, at)
<1>1. PICK b : b = (page.default = m)
  BY Zenon
<1>2. g = [kind |-> kind, model |-> m, at |-> at, visit |-> visit, status |-> Unseen, held |-> {},
           wasDefault |-> b]
  BY <1>1, Zenon DEF Handler
<1> HIDE DEF g
<1>3. IsNew(g, kind, m, at, visit)
  BY <1>2 DEF IsNew, HandlerInv
<1>4. IsNew(Unmarked(g), kind, m, at, visit)
  <2>1. PICK c : c = FALSE
    BY Zenon
  <2>2. Unmarked(g) = [g EXCEPT !.wasDefault = c]
    BY <2>1, Zenon DEF Unmarked
  <2> QED
    BY <1>2, <2>2 DEF IsNew, HandlerInv
<1>5. ASSUME NEW v PROVE IsNew(Visited(g, v), kind, m, at, v)
  BY <1>2 DEF IsNew, HandlerInv, Visited
<1> QED
  BY <1>3, <1>4, <1>5 DEF g

LEMMA ModelStarts == ModelInit => ModelInv
<1> SUFFICES ASSUME ModelInit PROVE ModelInv
  OBVIOUS
<1>1. IsModelPage(NewPage)
  BY DEF NewPage, IsModelPage
<1> QED
  BY <1>1, PageEdits, Zenon DEF ModelInit, ModelInv, WaitingIsInFlight

LEMMA ModelStep == ModelInv /\ [ModelNext]_modelvars => ModelInv'
<1> SUFFICES ASSUME ModelInv, [ModelNext]_modelvars PROVE ModelInv'
  OBVIOUS
<1>1. IsModelPage(page) /\ (\A h \in work : HandlerInv(h))
  BY DEF ModelInv
<1>4. CASE OpenModels
  <2> DEFINE g == Visited(Handler("refresh", "", "asks"), visit')
  <2>1. HandlerInv(g) /\ g.at = "asks" /\ g.visit = visit'
    <3>1. IsNew(g, "refresh", "", "asks", visit')
      BY HandlersNew, Zenon
    <3> QED
      BY <3>1 DEF IsNew
  <2>2. work' = work \cup {g} /\ page' = NewPage
    BY <1>4 DEF OpenModels, Visited
  <2> HIDE DEF g
  <2>3. IsModelPage(page') /\ page'.deleting = "" /\ ~page'.installing /\ ~page'.starting
    BY <2>2 DEF NewPage, IsModelPage
  <2> QED
    BY <1>1, <2>1, <2>2, <2>3 DEF ModelInv, WaitingIsInFlight
<1>5. CASE LeaveModels \/ UNCHANGED modelvars
  BY <1>5 DEF LeaveModels, modelvars, ModelInv, WaitingIsInFlight
<1>6. CASE Refresh
  <2>1. IsModelPage(page')
    BY <1>1, <1>6, PageEdits, Zenon DEF Refresh
  <2>2. page'.deleting = page.deleting /\ page'.installing = page.installing /\ page'.starting = page.starting
    BY <1>1, <1>6 DEF Refresh, IsModelPage
  <2> DEFINE g == Handler("refresh", "", "asks")
  <2>3. work' = work \cup {g} /\ visit' = visit
    BY <1>6 DEF Refresh, Starts
  <2>4. IsNew(g, "refresh", "", "asks", visit)
    BY HandlersNew, Zenon
  <2> HIDE DEF g
  <2> QED
    BY <2>1, <2>2, <2>3, <2>4, HandlerStarts DEF IsNew
<1>7. CASE HandleInstall
  <2>1. IsModelPage(page')
    BY <1>1, <1>7, PageEdits, Zenon DEF HandleInstall
  <2>2. page'.deleting = page.deleting /\ page'.refreshing = page.refreshing /\ page'.starting = page.starting
    BY <1>1, <1>7 DEF HandleInstall, IsModelPage
  <2> DEFINE g == Handler("install", "", "works")
  <2>3. work' = work \cup {g} /\ visit' = visit
    BY <1>7 DEF HandleInstall, Starts
  <2>4. IsNew(g, "install", "", "works", visit)
    BY HandlersNew, Zenon
  <2> HIDE DEF g
  <2> QED
    BY <2>1, <2>2, <2>3, <2>4, HandlerStarts DEF IsNew
<1>8. CASE HandleStartServer
  <2>1. IsModelPage(page')
    BY <1>1, <1>8, PageEdits, Zenon DEF HandleStartServer
  <2>2. page'.deleting = page.deleting /\ page'.refreshing = page.refreshing /\ page'.installing = page.installing
    BY <1>1, <1>8 DEF HandleStartServer, IsModelPage
  <2> DEFINE g == Handler("start", "", "works")
  <2>3. work' = work \cup {g} /\ visit' = visit
    BY <1>8 DEF HandleStartServer, Starts
  <2>4. IsNew(g, "start", "", "works", visit)
    BY HandlersNew, Zenon
  <2> HIDE DEF g
  <2> QED
    BY <2>1, <2>2, <2>3, <2>4, HandlerStarts DEF IsNew
<1>9. ASSUME NEW m \in Models, HandlePull(m) PROVE ModelInv'
  <2>1. page' = [page EXCEPT !.pulling = [page.pulling EXCEPT ![m] = "pulling"]]
    BY <1>9 DEF HandlePull
  <2>2. IsModelPage(page')
    BY <1>1, <2>1, PageEdits, Zenon
  <2>3. SameWaits(page, page')
    BY <1>1, <2>1 DEF IsModelPage, SameWaits
  <2> DEFINE g == Unmarked(Handler("pull", m, "works"))
  <2>4. work' = work \cup {g} /\ visit' = visit
    BY <1>9 DEF HandlePull, Starts, Unmarked
  <2>5. IsNew(g, "pull", m, "works", visit)
    BY HandlersNew, Zenon
  <2> HIDE DEF g
  <2> QED
    BY <2>2, <2>3, <2>4, <2>5, HandlerStarts DEF IsNew, SameWaits
<1>10. ASSUME NEW m \in Models, HandleDelete(m) PROVE ModelInv'
  <2>1. IsModelPage(page')
    BY <1>1, <1>10, PageEdits, Zenon DEF HandleDelete
  <2>2. /\ page'.deleting = m /\ page'.refreshing = page.refreshing /\ page'.installing = page.installing
        /\ page'.starting = page.starting
    BY <1>1, <1>10 DEF HandleDelete, IsModelPage
  <2> DEFINE g == Handler("delete", m, "works")
  <2>3. work' = work \cup {g} /\ visit' = visit
    BY <1>10 DEF HandleDelete, Starts
  <2>4. IsNew(g, "delete", m, "works", visit)
    BY HandlersNew, Zenon
  <2> HIDE DEF g
  <2> QED
    BY <2>1, <2>2, <2>3, <2>4, HandlerStarts DEF IsNew
<1>11. ASSUME NEW m \in Models, HandleSetDefault(m) PROVE ModelInv'
  <2>1. IsModelPage(page')
    BY <1>1, <1>11, PageEdits, Zenon DEF HandleSetDefault
  <2>2. SameWaits(page, page')
    BY <1>1, <1>11 DEF HandleSetDefault, IsModelPage, SameWaits
  <2> DEFINE g == Unmarked(Handler("set", m, "works"))
  <2>3. work' = work \cup {g} /\ visit' = visit
    BY <1>11 DEF HandleSetDefault, Starts, Unmarked
  <2>4. IsNew(g, "set", m, "works", visit)
    BY HandlersNew, Zenon
  <2> HIDE DEF g
  <2> QED
    BY <2>1, <2>2, <2>3, <2>4, HandlerStarts DEF IsNew, SameWaits
<1>12. SameWaits(page, page)
  BY DEF SameWaits
<1>13. ASSUME NEW h \in work, Installs(h) PROVE ModelInv'
  <2> DEFINE g == WorksOn(h, "asks")
  <2>1. HandlerInv(g) /\ g.kind = h.kind /\ g.model = h.model /\ g.visit = h.visit /\ g.at = "asks"
    BY <1>1, <1>13, WorksOnIs DEF Installs
  <2>2. h.kind = "install" /\ h.at = "works" /\ visit' = visit
    BY <1>13 DEF Installs
  <2>3. CASE /\ Onto(h, {[h EXCEPT !.at = "asks"]})
             /\ OnPage(h, [page EXCEPT !.refreshing = TRUE])
    <3>1. work' = (work \ {h}) \cup {g}
      BY <2>3 DEF Onto, WorksOn
    <3> HIDE DEF g
    <3>2. IsModelPage(page')
      BY <1>1, <2>3, PageEdits, Zenon DEF OnPage
    <3>3. /\ page'.deleting = page.deleting /\ page'.installing = page.installing /\ page'.starting = page.starting
          /\ page'.refreshing => page.refreshing \/ visit = h.visit
      BY <1>1, <2>3 DEF OnPage, IsModelPage
    <3> QED
      BY <2>1, <2>2, <3>1, <3>2, <3>3, HandlerGoesOn
  <2>4. CASE Onto(h, {}) /\ OnPage(h, [page EXCEPT !.installing = FALSE])
    <3>1. work' = work \ {h}
      BY <2>4 DEF Onto
    <3>2. IsModelPage(page')
      BY <1>1, <2>4, PageEdits, Zenon DEF OnPage
    <3>3. /\ page'.deleting = page.deleting /\ page'.refreshing = page.refreshing /\ page'.starting = page.starting
          /\ page'.installing => page.installing /\ visit # h.visit
      BY <1>1, <2>4 DEF OnPage, IsModelPage
    <3> QED
      BY <2>2, <3>1, <3>2, <3>3, HandlerEnds
  <2> QED
    BY <1>13, <2>3, <2>4 DEF Installs
<1>14. ASSUME NEW h \in work, StartsServer(h) PROVE ModelInv'
  <2> DEFINE g == WorksOn(h, "asks")
  <2>1. HandlerInv(g) /\ g.kind = h.kind /\ g.model = h.model /\ g.visit = h.visit /\ g.at = "asks"
    BY <1>1, <1>14, WorksOnIs DEF StartsServer
  <2>2. /\ h.kind = "start" /\ h.at = "works" /\ visit' = visit /\ work' = (work \ {h}) \cup {g}
        /\ OnPage(h, [page EXCEPT !.refreshing = TRUE])
    BY <1>14 DEF StartsServer, Onto, WorksOn
  <2> HIDE DEF g
  <2>3. IsModelPage(page')
    BY <1>1, <2>2, PageEdits, Zenon DEF OnPage
  <2>4. /\ page'.deleting = page.deleting /\ page'.installing = page.installing /\ page'.starting = page.starting
        /\ page'.refreshing => page.refreshing \/ visit = h.visit
    BY <1>1, <2>2 DEF OnPage, IsModelPage
  <2> QED
    BY <2>1, <2>2, <2>3, <2>4, HandlerGoesOn
<1>15. ASSUME NEW h \in work, Deletes(h) PROVE ModelInv'
  <2> DEFINE g == WorksOn(h, "asks")
  <2>1. HandlerInv(g) /\ g.kind = h.kind /\ g.model = h.model /\ g.visit = h.visit /\ g.at = "asks"
    BY <1>1, <1>15, WorksOnIs DEF Deletes
  <2>2. /\ h.kind = "delete" /\ h.at = "works" /\ visit' = visit /\ work' = (work \ {h}) \cup {g}
        /\ page' = page \/ page' = [page EXCEPT !.default = ""]
    BY <1>15 DEF Deletes, Onto, WorksOn, OnPage
  <2> HIDE DEF g
  <2>3. IsModelPage(page')
    <3>1. IsModelPage([page EXCEPT !.default = ""])
      BY <1>1, PageEdits, Zenon
    <3> QED
      BY <1>1, <2>2, <3>1, Zenon
  <2>4. SameWaits(page, page')
    BY <1>1, <1>12, <2>2 DEF IsModelPage, SameWaits
  <2> QED
    BY <2>1, <2>2, <2>3, <2>4, HandlerGoesOn DEF SameWaits
<1>16. ASSUME NEW h \in work, SetOllamaModel(h) PROVE ModelInv'
  <2>1. h.kind = "set" /\ h.at = "works" /\ visit' = visit /\ work' = work \ {h} /\ page' = page
    BY <1>1, <1>16 DEF SetOllamaModel, Onto, HandlerInv
  <2> QED
    BY <1>1, <2>1, HandlerEnds
<1>17. ASSUME NEW h \in work, PullBegins(h) PROVE ModelInv'
  <2> DEFINE g == WorksOn(h, "streams")
  <2>1. HandlerInv(g) /\ g.kind = h.kind /\ g.model = h.model /\ g.visit = h.visit /\ g.at = "streams"
    BY <1>1, <1>17, WorksOnIs DEF PullBegins
  <2>2. h.kind = "pull" /\ h.at = "works" /\ visit' = visit /\ work' = (work \ {h}) \cup {g} /\ page' = page
    BY <1>17 DEF PullBegins, Onto, WorksOn
  <2> HIDE DEF g
  <2> QED
    BY <1>1, <2>1, <2>2, HandlerGoesOn
<1>18. ASSUME NEW h \in work, PullProgress(h) PROVE ModelInv'
  <2>1. page' = [page EXCEPT !.pulling = [page.pulling EXCEPT ![h.model] = "pulling"]]
    BY <1>18 DEF PullProgress
  <2>2. IsModelPage(page')
    BY <1>1, <2>1, PageEdits, Zenon
  <2>3. SameWaits(page, page')
    BY <1>1, <2>1 DEF IsModelPage, SameWaits
  <2> QED
    BY <1>18, <2>2, <2>3 DEF PullProgress, SameWaits, ModelInv, WaitingIsInFlight
<1>19. ASSUME NEW h \in work, PullFails(h) PROVE ModelInv'
  <2>1. h.kind = "pull" /\ h.at \in {"works", "streams"} /\ visit' = visit /\ work' = work \ {h}
    BY <1>1, <1>19 DEF PullFails, Onto, HandlerInv
  <2>2. page' = page \/ page' = [page EXCEPT !.pulling = [page.pulling EXCEPT ![h.model] = "failed"]]
    BY <1>19 DEF PullFails
  <2>3. IsModelPage(page')
    <3>1. IsModelPage([page EXCEPT !.pulling = [page.pulling EXCEPT ![h.model] = "failed"]])
      BY <1>1, PageEdits, Zenon
    <3> QED
      BY <1>1, <2>2, <3>1, Zenon
  <2>4. SameWaits(page, page')
    BY <1>1, <1>12, <2>2 DEF IsModelPage, SameWaits
  <2> QED
    BY <2>1, <2>3, <2>4, HandlerEnds DEF SameWaits
<1>20. ASSUME NEW h \in work, PullSucceeds(h) PROVE ModelInv'
  <2>1. h.kind = "pull" /\ h.at = "streams" /\ visit' = visit
    BY <1>20 DEF PullSucceeds
  <2> DEFINE new == (IF visit # 0 THEN {Handler("refresh", "", "asks")} ELSE {}) \cup
                    (IF visit # 0 /\ default = ""
                     THEN {[Handler("set", h.model, "works") EXCEPT !.wasDefault = FALSE]} ELSE {})
  <2>2. work' = (work \ {h}) \cup new
    BY <1>20, Zenon DEF PullSucceeds, Onto
  <2>3. \A g \in new : HandlerInv(g)
    <3>1. HandlerInv(Handler("refresh", "", "asks")) /\ HandlerInv(Unmarked(Handler("set", h.model, "works")))
      BY HandlersNew DEF IsNew
    <3> QED
      BY <3>1, Zenon DEF Unmarked
  <2> HIDE DEF new
  <2>4. PICK z : /\ z = [page.pulling EXCEPT ![h.model] = "done"]
                 /\ page' = page \/ page' = [page EXCEPT !.pulling = z, !.default = default']
    BY <1>20 DEF PullSucceeds
  <2>5. [page EXCEPT !.pulling = z, !.default = default']
          = [[page EXCEPT !.pulling = z] EXCEPT !.default = default']
    BY Zenon
  <2>6. IsModelPage(page')
    <3>1. IsModelPage([page EXCEPT !.pulling = z])
      BY <1>1, PageEdits, Zenon
    <3>2. IsModelPage([[page EXCEPT !.pulling = z] EXCEPT !.default = default'])
      BY <3>1, PageEdits, Zenon
    <3> QED
      BY <1>1, <2>4, <2>5, <3>2, Zenon
  <2>7. SameWaits(page, page')
    BY <1>1, <1>12, <2>4 DEF IsModelPage, SameWaits
  <2> QED
    BY <2>1, <2>2, <2>3, <2>6, <2>7, HandlerGoes DEF SameWaits
<1>21. ASSUME NEW h \in work, PullStreamCloses(h) PROVE ModelInv'
  <2>1. h.kind = "pull" /\ h.at = "streams" /\ visit' = visit /\ work' = work \ {h} /\ page' = page
    BY <1>21 DEF PullStreamCloses, Onto
  <2> QED
    BY <1>1, <2>1, HandlerEnds
<1>22. ASSUME NEW h \in work, RefreshAsks(h) PROVE ModelInv'
  <2>1. PICK s, d : work' = (work \ {h}) \cup {[h EXCEPT !.at = "shows", !.status = s, !.held = d]}
    BY <1>22 DEF RefreshAsks, Onto
  <2> DEFINE g == Asked(h, s, d)
  <2>2. h.at = "asks" /\ visit' = visit /\ page' = page /\ work' = (work \ {h}) \cup {g}
    BY <1>22, <2>1 DEF RefreshAsks, Asked
  <2>3. h.kind \notin {"set", "pull"}
    BY <1>1, <2>2 DEF HandlerInv
  <2>4. HandlerInv(g) /\ g.kind = h.kind /\ g.model = h.model /\ g.visit = h.visit /\ g.at = "shows"
    BY <1>1, <2>3, AskedIs
  <2> HIDE DEF g
  <2> QED
    BY <1>1, <2>2, <2>4, HandlerGoesOn
<1>23. ASSUME NEW h \in work, RefreshShows(h) PROVE ModelInv'
  <2>1. h.at = "shows" /\ visit' = visit /\ work' = work \ {h}
    BY <1>23 DEF RefreshShows, Onto
  <2>2. CASE visit # h.visit
    <3>1. page' = page
      BY <1>23, <2>2 DEF RefreshShows, OnPage
    <3> QED
      BY <1>1, <2>1, <2>2, <3>1, HandlerEnds
  <2>3. CASE visit = h.visit
    <3> DEFINE q == PageShown(page, h.status, h.held, h.kind)
    <3>1. page' = q
      BY <1>23, <2>3, Zenon DEF RefreshShows, OnPage, PageShown
    <3>2. IsModelPage(q) /\ WaitsEnd(page, q, h.kind)
      BY <1>1, PageShows, Zenon
    <3> HIDE DEF q
    <3> QED
      BY <2>1, <3>1, <3>2, HandlerEnds DEF WaitsEnd
  <2> QED
    BY <2>2, <2>3
<1> QED
  BY <1>4, <1>5, <1>6, <1>7, <1>8, <1>9, <1>10, <1>11, <1>13, <1>14, <1>15, <1>16, <1>17, <1>18, <1>19,
     <1>20, <1>21, <1>22, <1>23 DEF ModelNext

LEMMA ModelHolds == ModelInv => WaitingIsInFlight
BY DEF ModelInv

-----------------------------------------------------------------------------
(* The security page. *)

IsMachine(m) == m = [rules |-> m.rules, mode |-> m.mode, service |-> m.service, lan |-> m.lan,
                     exec |-> m.exec, list |-> m.list]
IsSec(s) == s = [active |-> s.active, report |-> s.report, status |-> s.status, mode |-> s.mode,
                 lan |-> s.lan, exec |-> s.exec, list |-> s.list, busy |-> s.busy, done |-> s.done]
IsQueue(q) == Len(q) \in Nat /\ q = [i \in 1..Len(q) |-> q[i]]

(* A command of the page on show waits in the queue. *)
Queued(q, kind, here) == \E i \in 1..Len(q) : q[i].kind = kind /\ q[i].visit = here

(* What an earlier visit has asked to change runs before this visit looks.    *)
Behind(q, kinds, kind, here) ==
  \A i \in 1..Len(q) : q[i].kind \in kinds /\ q[i].visit # here
    => \E j \in 1..Len(q) : i < j /\ q[j].kind = kind /\ q[j].visit = here

FirewallKinds == {"kill", "restore", "fwOn", "fwOff", "setMode", "fix"}
ApprovalKinds == {"setExec", "add", "remove"}

ScanComes == \E l \in logs : l.visit = secVisit /\ l.next \in {"scan", "rescan"}
BannerShown == /\ sec.active = CheckFirewallActive(machine.rules)
               /\ sec.report => sec.status = NetworkAccessStatus(machine.rules)
PermissionsShown == sec.exec = machine.exec /\ sec.list = machine.list
BannerComes == failed \/ ScanComes \/ BannerShown

SecInv ==
  /\ IsMachine(machine) /\ IsSec(sec) /\ IsQueue(queue)
  /\ secVisit # 0 =>
       /\ Behind(queue, FirewallKinds, "scan", secVisit) /\ Behind(queue, ApprovalKinds, "perms", secVisit)
       /\ Queued(queue, "scan", secVisit) \/ BannerComes
       /\ Queued(queue, "perms", secVisit) \/ PermissionsShown

(* The queue: a command is added at its end, the first one runs.              *)
LEMMA QueueIs ==
  ASSUME NEW q
  PROVE  /\ IsQueue(q) => q \in Seq({q[i] : i \in 1..Len(q)})
         /\ \A S : q \in Seq(S) => IsQueue(q)
<1>1. ASSUME IsQueue(q) PROVE q \in Seq({q[i] : i \in 1..Len(q)})
  BY <1>1 DEF IsQueue
<1>2. ASSUME NEW S, q \in Seq(S) PROVE IsQueue(q)
  BY <1>2 DEF IsQueue
<1> QED
  BY <1>1, <1>2

LEMMA AppendsIs ==
  ASSUME NEW q, IsQueue(q), NEW c
  PROVE  /\ IsQueue(Append(q, c)) /\ Len(Append(q, c)) = Len(q) + 1
         /\ \A i \in 1..Len(q) : Append(q, c)[i] = q[i]
         /\ Append(q, c)[Len(q) + 1] = c
<1> DEFINE S == {q[i] : i \in 1..Len(q)} \cup {c}
<1>1. q \in Seq(S) /\ c \in S
  <2>1. q \in Seq({q[i] : i \in 1..Len(q)})
    BY QueueIs
  <2> QED
    BY <2>1
<1> HIDE DEF S
<1>2. Append(q, c) \in Seq(S)
  BY <1>1
<1>3. IsQueue(Append(q, c))
  BY <1>2, QueueIs, Zenon
<1>4. /\ Len(Append(q, c)) = Len(q) + 1
      /\ \A i \in 1..Len(q) : Append(q, c)[i] = q[i]
      /\ Append(q, c)[Len(q) + 1] = c
  BY <1>1
<1> QED
  BY <1>3, <1>4, Zenon

LEMMA TailIs ==
  ASSUME NEW q, IsQueue(q), q # <<>>
  PROVE  /\ IsQueue(Tail(q)) /\ Len(Tail(q)) = Len(q) - 1 /\ Len(q) \in Nat /\ 1 \in 1..Len(q)
         /\ \A i \in 1..Len(Tail(q)) : Tail(q)[i] = q[i + 1]
         /\ Head(q) = q[1]
<1> DEFINE S == {q[i] : i \in 1..Len(q)}
<1>1. q \in Seq(S)
  BY QueueIs
<1> HIDE DEF S
<1>2. Tail(q) \in Seq(S)
  BY <1>1
<1>3. IsQueue(Tail(q))
  BY <1>2, QueueIs, Zenon
<1>4. /\ Len(Tail(q)) = Len(q) - 1 /\ Len(q) \in Nat /\ 1 \in 1..Len(q)
      /\ \A i \in 1..Len(Tail(q)) : Tail(q)[i] = q[i + 1]
      /\ Head(q) = q[1]
  BY <1>1
<1> QED
  BY <1>3, <1>4, Zenon

(* What waits in the queue when a command is added, and when the first runs.  *)
LEMMA AddedKeeps ==
  ASSUME NEW q, IsQueue(q), NEW c, NEW kinds, NEW kind, NEW here
  PROVE  /\ Behind(q, kinds, kind, here) /\ (c.visit = here \/ c.kind \notin kinds)
              => Behind(Append(q, c), kinds, kind, here)
         /\ Queued(q, kind, here) \/ (c.kind = kind /\ c.visit = here) => Queued(Append(q, c), kind, here)
<1> DEFINE r == Append(q, c)
<1>1. /\ IsQueue(r) /\ Len(r) = Len(q) + 1 /\ Len(q) \in Nat
      /\ \A i \in 1..Len(q) : r[i] = q[i]
      /\ r[Len(q) + 1] = c
  BY AppendsIs DEF IsQueue
<1> HIDE DEF r
<1>2. ASSUME Behind(q, kinds, kind, here), c.visit = here \/ c.kind \notin kinds
      PROVE  Behind(r, kinds, kind, here)
  <2> SUFFICES ASSUME NEW i \in 1..Len(r), r[i].kind \in kinds, r[i].visit # here
               PROVE  \E j \in 1..Len(r) : i < j /\ r[j].kind = kind /\ r[j].visit = here
    BY DEF Behind
  <2>1. i \in 1..Len(q)
    BY <1>1, <1>2
  <2>2. PICK j \in 1..Len(q) : i < j /\ q[j].kind = kind /\ q[j].visit = here
    BY <1>1, <1>2, <2>1 DEF Behind
  <2> QED
    BY <1>1, <2>2
<1>3. ASSUME Queued(q, kind, here) PROVE Queued(r, kind, here)
  BY <1>1, <1>3 DEF Queued
<1>4. ASSUME c.kind = kind, c.visit = here PROVE Queued(r, kind, here)
  <2>1. Len(q) + 1 \in 1..Len(r)
    BY <1>1
  <2> QED
    BY <1>1, <1>4, <2>1 DEF Queued
<1> QED
  BY <1>2, <1>3, <1>4 DEF r

LEMMA RunKeeps ==
  ASSUME NEW q, IsQueue(q), q # <<>>, NEW kinds, NEW kind, NEW here
  PROVE  /\ Behind(q, kinds, kind, here) => Behind(Tail(q), kinds, kind, here)
         /\ Queued(q, kind, here) => Queued(Tail(q), kind, here) \/ (Head(q).kind = kind /\ Head(q).visit = here)
         /\ Behind(q, kinds, kind, here) /\ Head(q).kind \in kinds /\ Head(q).visit # here
              => Queued(Tail(q), kind, here)
<1> DEFINE r == Tail(q)
<1>1. /\ IsQueue(r) /\ Len(r) = Len(q) - 1 /\ Len(q) \in Nat /\ 1 \in 1..Len(q)
      /\ \A i \in 1..Len(r) : r[i] = q[i + 1]
      /\ Head(q) = q[1]
  BY TailIs
<1> HIDE DEF r
<1>2. ASSUME NEW j \in 1..Len(q), j # 1, q[j].kind = kind, q[j].visit = here
      PROVE  j - 1 \in 1..Len(r) /\ r[j - 1].kind = kind /\ r[j - 1].visit = here
  BY <1>1, <1>2
<1>3. ASSUME Behind(q, kinds, kind, here) PROVE Behind(r, kinds, kind, here)
  <2> SUFFICES ASSUME NEW i \in 1..Len(r), r[i].kind \in kinds, r[i].visit # here
               PROVE  \E j \in 1..Len(r) : i < j /\ r[j].kind = kind /\ r[j].visit = here
    BY DEF Behind
  <2>1. i + 1 \in 1..Len(q) /\ q[i + 1] = r[i]
    BY <1>1
  <2>2. PICK j \in 1..Len(q) : i + 1 < j /\ q[j].kind = kind /\ q[j].visit = here
    BY <1>3, <2>1 DEF Behind
  <2>3. j - 1 \in 1..Len(r) /\ r[j - 1].kind = kind /\ r[j - 1].visit = here /\ i < j - 1
    BY <1>2, <2>2
  <2> QED
    BY <2>3
<1>4. ASSUME Queued(q, kind, here), ~(Head(q).kind = kind /\ Head(q).visit = here)
      PROVE  Queued(r, kind, here)
  <2>1. PICK j \in 1..Len(q) : q[j].kind = kind /\ q[j].visit = here
    BY <1>4 DEF Queued
  <2>2. j # 1
    BY <1>1, <1>4, <2>1
  <2> QED
    BY <1>2, <2>1, <2>2 DEF Queued
<1>5. ASSUME Behind(q, kinds, kind, here), Head(q).kind \in kinds, Head(q).visit # here
      PROVE  Queued(r, kind, here)
  <2>1. PICK j \in 1..Len(q) : 1 < j /\ q[j].kind = kind /\ q[j].visit = here
    BY <1>1, <1>5 DEF Behind
  <2> QED
    BY <1>2, <2>1 DEF Queued
<1> QED
  BY <1>3, <1>4, <1>5 DEF r

(* The first command of the queue runs. *)
LEMMA CommandRuns ==
  ASSUME SecInv, queue # <<>>, queue' = Tail(queue), secVisit' = secVisit, IsMachine(machine'), IsSec(sec'),
         secVisit # 0 => \/ BannerComes'
                         \/ Head(queue).kind \in FirewallKinds /\ Head(queue).visit # secVisit
                         \/ ~BannerComes /\ ~(Head(queue).kind = "scan" /\ Head(queue).visit = secVisit),
         secVisit # 0 => \/ PermissionsShown'
                         \/ Head(queue).kind \in ApprovalKinds /\ Head(queue).visit # secVisit
                         \/ ~PermissionsShown /\ ~(Head(queue).kind = "perms" /\ Head(queue).visit = secVisit)
  PROVE  SecInv'
<1>1. IsQueue(queue) /\ IsQueue(queue')
  BY TailIs DEF SecInv
<1>2. ASSUME secVisit # 0
      PROVE  /\ Behind(queue', FirewallKinds, "scan", secVisit) /\ Behind(queue', ApprovalKinds, "perms", secVisit)
             /\ Queued(queue', "scan", secVisit) \/ BannerComes'
             /\ Queued(queue', "perms", secVisit) \/ PermissionsShown'
  <2>1. /\ Behind(queue, FirewallKinds, "scan", secVisit) /\ Behind(queue, ApprovalKinds, "perms", secVisit)
        /\ Queued(queue, "scan", secVisit) \/ BannerComes
        /\ Queued(queue, "perms", secVisit) \/ PermissionsShown
    BY <1>2 DEF SecInv
  <2> QED
    BY <1>1, <1>2, <2>1, RunKeeps
<1> QED
  BY <1>1, <1>2 DEF SecInv

(* A command is added: by the page on show, or a scan. *)
LEMMA CommandWaits ==
  ASSUME SecInv, NEW c, queue' = Append(queue, c), secVisit' = secVisit, IsMachine(machine'), IsSec(sec'),
         c.visit = secVisit \/ c.kind = "scan",
         BannerComes => BannerComes' \/ (c.kind = "scan" /\ c.visit = secVisit),
         PermissionsShown => PermissionsShown'
  PROVE  SecInv'
<1>1. IsQueue(queue) /\ IsQueue(queue')
  BY AppendsIs DEF SecInv
<1>2. ASSUME secVisit # 0
      PROVE  /\ Behind(queue', FirewallKinds, "scan", secVisit) /\ Behind(queue', ApprovalKinds, "perms", secVisit)
             /\ Queued(queue', "scan", secVisit) \/ BannerComes'
             /\ Queued(queue', "perms", secVisit) \/ PermissionsShown'
  <2>1. /\ Behind(queue, FirewallKinds, "scan", secVisit) /\ Behind(queue, ApprovalKinds, "perms", secVisit)
        /\ Queued(queue, "scan", secVisit) \/ BannerComes
        /\ Queued(queue, "perms", secVisit) \/ PermissionsShown
    BY <1>2 DEF SecInv
  <2>2. c.visit = secVisit \/ (c.kind \notin FirewallKinds /\ c.kind \notin ApprovalKinds)
    BY DEF FirewallKinds, ApprovalKinds
  <2> QED
    BY <1>1, <1>2, <2>1, <2>2, AddedKeeps
<1> QED
  BY <1>1, <1>2 DEF SecInv

(* The machine and the page change by fields. *)
IsChange(m) == IsMachine(m) /\ m.exec = machine.exec /\ m.list = machine.list

LEMMA MachineEdits ==
  ASSUME NEW m, IsMachine(m), NEW x
  PROVE  /\ IsMachine([m EXCEPT !.rules = x]) /\ IsMachine([m EXCEPT !.mode = x])
         /\ IsMachine([m EXCEPT !.service = x]) /\ IsMachine([m EXCEPT !.lan = x])
         /\ IsMachine([m EXCEPT !.exec = x]) /\ IsMachine([m EXCEPT !.list = x])
BY DEF IsMachine

LEMMA ResultIs ==
  ASSUME IsMachine(machine), NEW ok, NEW rs, NEW m
  PROVE  LET r == Result(ok, rs, m) IN r = [ok |-> ok, to |-> r.to] /\ IsChange(r.to)
<1> DEFINE a == [machine EXCEPT !.rules = rs]
           b == [machine EXCEPT !.rules = rs, !.mode = m]
<1>1. IsMachine(a) /\ a.exec = machine.exec /\ a.list = machine.list
  BY DEF IsMachine
<1>2. b = [a EXCEPT !.mode = m]
  BY Zenon
<1>3. Result(ok, rs, m) = [ok |-> ok, to |-> b]
  BY DEF Result
<1> HIDE DEF a, b
<1>4. IsMachine(b) /\ b.exec = machine.exec /\ b.list = machine.list
  BY <1>1, <1>2 DEF IsMachine
<1> QED
  BY <1>3, <1>4 DEF IsChange

LEMMA ServiceIs ==
  ASSUME NEW r, r = [ok |-> r.ok, to |-> r.to], IsChange(r.to), NEW x
  PROVE  IsChange([r EXCEPT !.to.service = x].to)
<1>1. [r EXCEPT !.to.service = x].to = [r.to EXCEPT !.service = x]
  OBVIOUS
<1> DEFINE m == r.to
<1>2. IsMachine(m) /\ m.exec = machine.exec /\ m.list = machine.list
  BY DEF IsChange
<1> HIDE DEF m
<1>3. IsMachine([m EXCEPT !.service = x]) /\ [m EXCEPT !.service = x].exec = machine.exec
      /\ [m EXCEPT !.service = x].list = machine.list
  BY <1>2 DEF IsMachine
<1> QED
  BY <1>1, <1>3 DEF m, IsChange

LEMMA ResultsAre ==
  ASSUME IsMachine(machine)
  PROVE  /\ \A m : \A r \in SetNetworkAccessMode(m) : IsChange(r.to)
         /\ \A r \in ApplyLocalOnlyFirewall : IsChange(r.to)
         /\ \A r \in RemoveLocalOnlyFirewall : IsChange(r.to)
         /\ \A r \in KillSwitchOffline : IsChange(r.to)
         /\ \A r \in KillSwitchRestore : IsChange(r.to)
<1> DEFINE Whole(r) == r = [ok |-> r.ok, to |-> r.to] /\ IsChange(r.to)
<1>1. ASSUME NEW ok, NEW rs, NEW m PROVE Whole(Result(ok, rs, m))
  <2>1. PICK r : r = Result(ok, rs, m)
    BY Zenon
  <2>2. r = [ok |-> ok, to |-> r.to] /\ IsChange(r.to)
    BY <2>1, ResultIs, Zenon
  <2>3. r.ok = ok
    BY <2>2
  <2> QED
    BY <2>1, <2>2, <2>3
<1> HIDE DEF Whole
<1>2. \A m : \A r \in SetNetworkAccessMode(m) : Whole(r)
  BY <1>1, Zenon DEF SetNetworkAccessMode
<1>3. \A r \in ApplyLocalOnlyFirewall : Whole(r)
  BY <1>1, Zenon DEF ApplyLocalOnlyFirewall
<1>4. \A r \in RemoveLocalOnlyFirewall : Whole(r)
  <2> DEFINE left == {machine.rules, machine.rules \ {"block", "allowLocal"}}
  <2>1. RemoveLocalOnlyFirewall = {Result(TRUE, rs, "off") : rs \in left}
                                  \cup {Result(TRUE, rs, machine.mode) : rs \in left}
    BY Zenon DEF RemoveLocalOnlyFirewall
  <2> HIDE DEF left
  <2> QED
    BY <1>1, <2>1, Zenon
<1>5. ASSUME NEW r, Whole(r), NEW x PROVE IsChange([r EXCEPT !.to.service = x].to)
  BY <1>5, ServiceIs DEF Whole
<1>6. \A r \in KillSwitchOffline : IsChange(r.to)
  <2> SUFFICES ASSUME NEW s \in ApplyLocalOnlyFirewall
               PROVE  IsChange([s EXCEPT !.to.service = @ /\ ~s.ok].to)
    BY Zenon DEF KillSwitchOffline
  <2>1. PICK x : x = (s.to.service /\ ~s.ok)
    BY Zenon
  <2>2. Whole(s)
    BY <1>3
  <2>3. IsChange([s EXCEPT !.to.service = x].to)
    BY <1>5, <2>2, Zenon
  <2> QED
    BY <2>1, <2>3, Zenon
<1>7. \A r \in KillSwitchRestore : IsChange(r.to)
  <2> SUFFICES ASSUME NEW s \in RemoveLocalOnlyFirewall
               PROVE  IsChange([s EXCEPT !.to.service = TRUE].to)
    BY Zenon DEF KillSwitchRestore
  <2>2. Whole(s)
    BY <1>4
  <2> QED
    BY <1>5, <2>2, Zenon
<1> QED
  BY <1>2, <1>3, <1>4, <1>6, <1>7 DEF Whole

LEMMA SecEdits ==
  ASSUME NEW s, IsSec(s), NEW x
  PROVE  /\ IsSec([s EXCEPT !.active = x]) /\ IsSec([s EXCEPT !.report = x]) /\ IsSec([s EXCEPT !.status = x])
         /\ IsSec([s EXCEPT !.mode = x]) /\ IsSec([s EXCEPT !.lan = x]) /\ IsSec([s EXCEPT !.exec = x])
         /\ IsSec([s EXCEPT !.list = x]) /\ IsSec([s EXCEPT !.busy = x]) /\ IsSec([s EXCEPT !.done = x])
BY DEF IsSec

(* A page whose banner and permissions are those of sec. *)
IsAlike(s) == IsSec(s) /\ s.active = sec.active /\ s.report = sec.report /\ s.status = sec.status
              /\ s.exec = sec.exec /\ s.list = sec.list

LEMMA AlikeEdits ==
  ASSUME NEW s, IsAlike(s), NEW x
  PROVE  IsAlike([s EXCEPT !.busy = x]) /\ IsAlike([s EXCEPT !.done = x])
<1>1. IsSec([s EXCEPT !.busy = x]) /\ IsSec([s EXCEPT !.done = x])
  BY SecEdits, Zenon DEF IsAlike
<1>2. /\ [s EXCEPT !.busy = x].active = s.active /\ [s EXCEPT !.busy = x].report = s.report
      /\ [s EXCEPT !.busy = x].status = s.status /\ [s EXCEPT !.busy = x].exec = s.exec
      /\ [s EXCEPT !.busy = x].list = s.list
      /\ [s EXCEPT !.done = x].active = s.active /\ [s EXCEPT !.done = x].report = s.report
      /\ [s EXCEPT !.done = x].status = s.status /\ [s EXCEPT !.done = x].exec = s.exec
      /\ [s EXCEPT !.done = x].list = s.list
  BY DEF IsAlike, IsSec
<1> QED
  BY <1>1, <1>2, Zenon DEF IsAlike

LEMMA FreesIs ==
  ASSUME IsSec(sec), NEW control, NEW x
  PROVE  /\ IsAlike(sec) /\ IsAlike(Frees(control)) /\ IsAlike(Ends(control))
         /\ IsAlike([Frees(control) EXCEPT !.busy = x]) /\ IsAlike([Ends(control) EXCEPT !.busy = x])
<1>1. IsAlike(sec)
  BY DEF IsAlike
<1>2. IsAlike(Frees(control))
  BY <1>1, AlikeEdits DEF Frees
<1>3. IsAlike(Ends(control))
  BY <1>2, AlikeEdits DEF Ends
<1> QED
  BY <1>1, <1>2, <1>3, AlikeEdits

(* What a run of the first command does. *)
LEMMA RunsIs ==
  ASSUME NEW kinds, NEW to, NEW pg, NEW next, NEW control, Runs(kinds, to, pg, next, control)
  PROVE  /\ queue # <<>> /\ Head(queue).kind \in kinds /\ machine' = to /\ queue' = Tail(queue)
         /\ secVisit' = secVisit /\ logs \subseteq logs'
         /\ secVisit = Head(queue).visit => sec' = pg
         /\ secVisit # Head(queue).visit => sec' = sec
         /\ \A n \in next : \E l \in logs' : l.visit = Head(queue).visit /\ l.next = n
<1>1. ASSUME NEW n \in next PROVE \E l \in logs' : l.visit = Head(queue).visit /\ l.next = n
  <2>1. [visit |-> Head(queue).visit, next |-> n, control |-> control] \in logs'
    BY DEF Runs
  <2> QED
    BY <2>1
<1> QED
  BY <1>1 DEF Runs

LEMMA FirewallKeeps ==
  ASSUME SecInv, NEW control, NEW kinds, NEW results, NEW pg, FirewallRuns(control, kinds, results, pg),
         kinds \subseteq FirewallKinds, \A r \in results : IsChange(r.to),
         IsSec(pg), pg.exec = sec.exec, pg.list = sec.list
  PROVE  SecInv'
<1>1. PICK r \in results :
        /\ IF r.ok THEN Runs(kinds, r.to, pg, {"scan"}, control)
           ELSE IF control = "toggle" THEN Runs(kinds, r.to, sec, {"events"}, control)
           ELSE Runs(kinds, r.to, Frees(control), {}, control)
        /\ failed' = (failed \/ ~r.ok)
  BY Zenon DEF FirewallRuns
<1>2. IsChange(r.to) /\ IsAlike(sec) /\ IsAlike(Frees(control))
  BY FreesIs DEF SecInv
<1>3. PICK s, next : Runs(kinds, r.to, s, next, control) /\ (r.ok => "scan" \in next)
                     /\ IsSec(s) /\ s.exec = sec.exec /\ s.list = sec.list
  <2>1. CASE r.ok
    BY <1>1, <2>1
  <2>2. CASE ~r.ok /\ control = "toggle"
    BY <1>1, <1>2, <2>2 DEF IsAlike
  <2>3. CASE ~r.ok /\ control # "toggle"
    BY <1>1, <1>2, <2>3 DEF IsAlike
  <2> QED
    BY <2>1, <2>2, <2>3
<1>4. /\ queue # <<>> /\ Head(queue).kind \in kinds /\ machine' = r.to /\ queue' = Tail(queue)
      /\ secVisit' = secVisit
      /\ secVisit = Head(queue).visit => sec' = s
      /\ secVisit # Head(queue).visit => sec' = sec
      /\ \A n \in next : \E l \in logs' : l.visit = Head(queue).visit /\ l.next = n
  BY <1>3, RunsIs, Zenon
<1>5. Head(queue).kind \in FirewallKinds /\ Head(queue).kind # "perms"
  BY <1>4 DEF FirewallKinds
<1>6. IsMachine(machine') /\ machine'.exec = machine.exec /\ machine'.list = machine.list
  BY <1>2, <1>4 DEF IsChange
<1>7. IsSec(sec') /\ sec'.exec = sec.exec /\ sec'.list = sec.list
  BY <1>3, <1>4 DEF SecInv
<1>8. ASSUME secVisit = Head(queue).visit PROVE BannerComes'
  <2>1. CASE r.ok
    <3>1. PICK l \in logs' : l.visit = Head(queue).visit /\ l.next = "scan"
      BY <1>3, <1>4, <2>1
    <3>2. l.visit = secVisit' /\ l.next \in {"scan", "rescan"}
      BY <1>4, <1>8, <3>1
    <3> QED
      BY <3>1, <3>2 DEF BannerComes, ScanComes
  <2>2. CASE ~r.ok
    BY <1>1, <2>2 DEF BannerComes
  <2> QED
    BY <2>1, <2>2
<1>9. PermissionsShown <=> PermissionsShown'
  BY <1>6, <1>7 DEF PermissionsShown
<1> QED
  BY <1>4, <1>5, <1>6, <1>7, <1>8, <1>9, CommandRuns

(* A fix is a change of the firewall that scans without a log.                *)
LEMMA FixKeeps == SecInv /\ FixRuns => SecInv'
<1> SUFFICES ASSUME SecInv, FixRuns PROVE SecInv'
  OBVIOUS
<1>1. PICK r \in SetNetworkAccessMode(Head(queue).arg) :
        /\ IF r.ok THEN Runs({"fix"}, r.to, Ends("fix"), {"rescan"}, "fix")
                   ELSE Runs({"fix"}, r.to, Frees("fix"), {}, "fix")
        /\ failed' = (failed \/ ~r.ok)
  BY Zenon DEF FixRuns
<1>2. IsChange(r.to) /\ IsAlike(Ends("fix")) /\ IsAlike(Frees("fix"))
  BY FreesIs, ResultsAre DEF SecInv
<1>3. PICK s, next : Runs({"fix"}, r.to, s, next, "fix") /\ (r.ok => "rescan" \in next) /\ IsAlike(s)
  <2>1. CASE r.ok
    BY <1>1, <1>2, <2>1
  <2>2. CASE ~r.ok
    BY <1>1, <1>2, <2>2
  <2> QED
    BY <2>1, <2>2
<1>4. /\ queue # <<>> /\ Head(queue).kind \in {"fix"} /\ machine' = r.to /\ queue' = Tail(queue)
      /\ secVisit' = secVisit
      /\ secVisit = Head(queue).visit => sec' = s
      /\ secVisit # Head(queue).visit => sec' = sec
      /\ \A n \in next : \E l \in logs' : l.visit = Head(queue).visit /\ l.next = n
  BY <1>3, RunsIs, Zenon
<1>5. Head(queue).kind \in FirewallKinds /\ Head(queue).kind # "perms"
  BY <1>4 DEF FirewallKinds
<1>6. IsMachine(machine') /\ machine'.exec = machine.exec /\ machine'.list = machine.list
  BY <1>2, <1>4 DEF IsChange
<1>7. IsSec(sec') /\ sec'.exec = sec.exec /\ sec'.list = sec.list
  BY <1>3, <1>4 DEF SecInv, IsAlike
<1>8. ASSUME secVisit = Head(queue).visit PROVE BannerComes'
  <2>1. CASE r.ok
    <3>1. PICK l \in logs' : l.visit = Head(queue).visit /\ l.next = "rescan"
      BY <1>3, <1>4, <2>1
    <3>2. l.visit = secVisit' /\ l.next \in {"scan", "rescan"}
      BY <1>4, <1>8, <3>1
    <3> QED
      BY <3>1, <3>2 DEF BannerComes, ScanComes
  <2>2. CASE ~r.ok
    BY <1>1, <2>2 DEF BannerComes
  <2> QED
    BY <2>1, <2>2
<1>9. PermissionsShown <=> PermissionsShown'
  BY <1>6, <1>7 DEF PermissionsShown
<1> QED
  BY <1>4, <1>5, <1>6, <1>7, <1>8, <1>9, CommandRuns

(* A command that leaves the rules alone leaves the banner as it is.          *)
LEMMA BannerStays ==
  ASSUME logs \subseteq logs', secVisit' = secVisit, failed => failed', machine'.rules = machine.rules,
         sec'.active = sec.active, sec'.report = sec.report, sec'.status = sec.status, BannerComes
  PROVE  BannerComes'
<1>1. CASE failed
  BY <1>1 DEF BannerComes
<1>2. CASE ScanComes
  <2>1. PICK l \in logs : l.visit = secVisit /\ l.next \in {"scan", "rescan"}
    BY <1>2 DEF ScanComes
  <2>2. l \in logs' /\ l.visit = secVisit'
    BY <2>1
  <2>3. ScanComes'
    BY <2>1, <2>2 DEF ScanComes
  <2> QED
    BY <2>3 DEF BannerComes
<1>3. CASE BannerShown
  BY <1>3 DEF BannerComes, BannerShown
<1> QED
  BY <1>1, <1>2, <1>3 DEF BannerComes

(* So a command of another kind than scan and perms that leaves the rules and *)
(* the permissions alone, on the page and off it.                             *)
LEMMA OtherKeeps ==
  ASSUME SecInv, NEW kinds, NEW m, NEW s, NEW next, NEW control, Runs(kinds, m, s, next, control),
         "scan" \notin kinds, "perms" \notin kinds, failed' = failed,
         IsChange(m), m.rules = machine.rules, IsAlike(s)
  PROVE  SecInv'
<1>1. /\ queue # <<>> /\ Head(queue).kind \in kinds /\ machine' = m /\ queue' = Tail(queue)
      /\ secVisit' = secVisit /\ logs \subseteq logs'
      /\ secVisit = Head(queue).visit => sec' = s
      /\ secVisit # Head(queue).visit => sec' = sec
  BY RunsIs, Zenon
<1>2. Head(queue).kind # "scan" /\ Head(queue).kind # "perms"
  BY <1>1
<1>3. IsAlike(sec) /\ IsAlike(sec')
  BY <1>1, FreesIs DEF SecInv
<1>4. IsMachine(machine') /\ machine'.rules = machine.rules
      /\ machine'.exec = machine.exec /\ machine'.list = machine.list
  BY <1>1 DEF IsChange
<1>5. IsSec(sec') /\ (PermissionsShown => PermissionsShown')
  BY <1>3, <1>4 DEF IsAlike, PermissionsShown
<1>6. BannerComes => BannerComes'
  BY <1>1, <1>3, <1>4, BannerStays DEF IsAlike
<1> QED
  BY <1>1, <1>2, <1>4, <1>5, <1>6, CommandRuns

LEMMA ScanKeeps == SecInv /\ ScanRuns => SecInv'
<1> SUFFICES ASSUME SecInv, ScanRuns PROVE SecInv'
  OBVIOUS
<1> DEFINE a == CheckFirewallActive(machine.rules)
           t == NetworkAccessStatus(machine.rules)
           s == [sec EXCEPT !.active = a, !.report = TRUE, !.status = t]
<1>1. Runs({"scan"}, machine, s, {"events"}, "scan")
  BY DEF ScanRuns
<1>2. failed' = (failed /\ secVisit # Head(queue).visit)
  BY DEF ScanRuns
<1>3. IsSec(s) /\ s.active = a /\ s.status = t /\ s.exec = sec.exec /\ s.list = sec.list
  <2> HIDE DEF a, t
  <2>1. PICK yes : yes = TRUE
    BY Zenon
  <2> DEFINE r == [[[sec EXCEPT !.active = a] EXCEPT !.report = yes] EXCEPT !.status = t]
  <2>2. IsSec(sec)
    BY DEF SecInv
  <2>3. IsSec(r)
    BY <2>2, SecEdits, Zenon
  <2>4. s = r
    <3>1. s = [sec EXCEPT !.active = a, !.report = yes, !.status = t]
      BY <2>1, Zenon
    <3> QED
      BY <3>1, Zenon
  <2>5. s.active = a /\ s.status = t /\ s.exec = sec.exec /\ s.list = sec.list
    BY <2>2 DEF IsSec
  <2> QED
    BY <2>3, <2>4, <2>5, Zenon
<1> HIDE DEF s
<1>4. /\ queue # <<>> /\ Head(queue).kind \in {"scan"} /\ machine' = machine /\ queue' = Tail(queue)
      /\ secVisit' = secVisit /\ logs \subseteq logs'
      /\ secVisit = Head(queue).visit => sec' = s
      /\ secVisit # Head(queue).visit => sec' = sec
  BY <1>1, RunsIs, Zenon
<1>5. IsMachine(machine') /\ IsSec(sec') /\ sec'.exec = sec.exec /\ sec'.list = sec.list
  BY <1>3, <1>4 DEF SecInv
<1>6. PermissionsShown => PermissionsShown'
  BY <1>4, <1>5 DEF PermissionsShown
<1>7. ASSUME secVisit = Head(queue).visit PROVE BannerComes'
  <2>1. sec'.active = CheckFirewallActive(machine'.rules) /\ sec'.status = NetworkAccessStatus(machine'.rules)
    BY <1>3, <1>4, <1>7
  <2>2. BannerShown'
    BY <2>1, Zenon DEF BannerShown
  <2> QED
    BY <2>2 DEF BannerComes
<1>8. ASSUME secVisit # Head(queue).visit, BannerComes PROVE BannerComes'
  <2>1. failed => failed'
    BY <1>2, <1>8
  <2> QED
    BY <1>4, <1>8, <2>1, BannerStays
<1>9. Head(queue).kind # "perms"
  BY <1>4
<1> QED
  BY <1>4, <1>5, <1>6, <1>7, <1>8, <1>9, CommandRuns

LEMMA LoadKeeps == SecInv /\ LoadRuns => SecInv'
<1> SUFFICES ASSUME SecInv, LoadRuns PROVE SecInv'
  OBVIOUS
<1>1. IsSec(sec) /\ IsMachine(machine) /\ failed' = failed
  BY DEF SecInv, LoadRuns
<1>2. CASE Runs({"mode"}, machine, [sec EXCEPT !.mode = machine.mode, !.lan = machine.lan], {}, "")
  <2> DEFINE s == [sec EXCEPT !.mode = machine.mode, !.lan = machine.lan]
  <2>1. IsSec(s)
    <3>1. s = [[sec EXCEPT !.mode = machine.mode] EXCEPT !.lan = machine.lan]
      BY Zenon
    <3> QED
      BY <1>1, <3>1, SecEdits, Zenon
  <2>2. IsAlike(s)
    BY <1>1, <2>1 DEF IsAlike, IsSec
  <2>3. IsChange(machine) /\ Runs({"mode"}, machine, s, {}, "")
    BY <1>1, <1>2 DEF IsChange
  <2> HIDE DEF s
  <2> QED
    BY <1>1, <2>2, <2>3, OtherKeeps
<1>3. CASE Runs({"perms"}, machine, [sec EXCEPT !.exec = machine.exec, !.list = machine.list], {}, "")
  <2> DEFINE s == [sec EXCEPT !.exec = machine.exec, !.list = machine.list]
  <2>1. IsSec(s)
    <3>1. s = [[sec EXCEPT !.exec = machine.exec] EXCEPT !.list = machine.list]
      BY Zenon
    <3> QED
      BY <1>1, <3>1, SecEdits, Zenon
  <2>2. /\ s.exec = machine.exec /\ s.list = machine.list
        /\ s.active = sec.active /\ s.report = sec.report /\ s.status = sec.status
    BY <1>1 DEF IsSec
  <2> HIDE DEF s
  <2>3. /\ queue # <<>> /\ Head(queue).kind \in {"perms"} /\ machine' = machine /\ queue' = Tail(queue)
        /\ secVisit' = secVisit /\ logs \subseteq logs'
        /\ secVisit = Head(queue).visit => sec' = s
        /\ secVisit # Head(queue).visit => sec' = sec
    BY <1>3, RunsIs, Zenon DEF s
  <2>4. IsMachine(machine') /\ IsSec(sec')
    BY <1>1, <2>1, <2>3
  <2>5. BannerComes => BannerComes'
    <3>1. machine'.rules = machine.rules /\ sec'.active = sec.active /\ sec'.report = sec.report
          /\ sec'.status = sec.status
      BY <2>2, <2>3
    <3> QED
      BY <1>1, <2>3, <3>1, BannerStays
  <2>6. /\ secVisit = Head(queue).visit => PermissionsShown'
        /\ secVisit # Head(queue).visit /\ PermissionsShown => PermissionsShown'
    BY <2>2, <2>3 DEF PermissionsShown
  <2>7. Head(queue).kind # "scan"
    BY <2>3
  <2> QED
    BY <2>3, <2>4, <2>5, <2>6, <2>7, CommandRuns
<1> QED
  BY <1>2, <1>3 DEF LoadRuns

(* The approvals: the file and the panel change alike, or neither does.       *)
LEMMA ApprovalKeeps ==
  ASSUME SecInv, NEW kinds, NEW m, NEW s, NEW next, NEW control, Runs(kinds, m, s, next, control),
         kinds \subseteq ApprovalKinds, failed' = failed, IsMachine(m), m.rules = machine.rules,
         IsSec(s), s.active = sec.active, s.report = sec.report, s.status = sec.status,
         PermissionsShown => s.exec = m.exec /\ s.list = m.list
  PROVE  SecInv'
<1>1. /\ queue # <<>> /\ Head(queue).kind \in kinds /\ machine' = m /\ queue' = Tail(queue)
      /\ secVisit' = secVisit /\ logs \subseteq logs'
      /\ secVisit = Head(queue).visit => sec' = s
      /\ secVisit # Head(queue).visit => sec' = sec
  BY RunsIs, Zenon
<1>2. Head(queue).kind \in ApprovalKinds /\ Head(queue).kind # "scan" /\ Head(queue).kind # "perms"
  BY <1>1 DEF ApprovalKinds
<1>3. IsSec(sec') /\ IsMachine(machine') /\ machine'.rules = machine.rules
      /\ sec'.active = sec.active /\ sec'.report = sec.report /\ sec'.status = sec.status
  BY <1>1 DEF SecInv
<1>4. BannerComes => BannerComes'
  BY <1>1, <1>3, BannerStays
<1>5. secVisit = Head(queue).visit /\ PermissionsShown => PermissionsShown'
  BY <1>1 DEF PermissionsShown
<1> QED
  BY <1>1, <1>2, <1>3, <1>4, <1>5, CommandRuns

LEMMA ApprovalsKeep == SecInv /\ ApprovalsRun => SecInv'
<1> SUFFICES ASSUME SecInv, ApprovalsRun PROVE SecInv'
  OBVIOUS
<1> DEFINE p == Head(queue).arg
<1>1. IsSec(sec) /\ IsMachine(machine) /\ failed' = failed
  BY DEF SecInv, ApprovalsRun
<1>2. \A x : /\ IsMachine([machine EXCEPT !.exec = x]) /\ IsMachine([machine EXCEPT !.list = x])
             /\ IsSec([sec EXCEPT !.exec = x]) /\ IsSec([sec EXCEPT !.list = x])
  BY <1>1, MachineEdits, SecEdits, Zenon
<1> HIDE DEF p
<1>3. CASE Runs({"setExec"}, [machine EXCEPT !.exec = p], [sec EXCEPT !.exec = p], {"events"}, "exec")
  <2> DEFINE m == [machine EXCEPT !.exec = p]
             s == [sec EXCEPT !.exec = p]
  <2>1. /\ m.rules = machine.rules /\ s.active = sec.active /\ s.report = sec.report /\ s.status = sec.status
        /\ PermissionsShown => s.exec = m.exec /\ s.list = m.list
    BY <1>1 DEF IsSec, IsMachine, PermissionsShown
  <2>2. IsMachine(m) /\ IsSec(s) /\ Runs({"setExec"}, m, s, {"events"}, "exec")
    BY <1>2, <1>3, Zenon
  <2>3. SecInv /\ {"setExec"} \subseteq ApprovalKinds /\ failed' = failed
    BY <1>1 DEF ApprovalKinds
  <2> HIDE DEF m, s
  <2> QED
    BY <2>1, <2>2, <2>3, ApprovalKeeps
<1>4. CASE Runs({"add"}, [machine EXCEPT !.list = @ \cup {p}], [sec EXCEPT !.list = @ \cup {p}], {"events"}, "list")
  <2> DEFINE m == [machine EXCEPT !.list = @ \cup {p}]
             s == [sec EXCEPT !.list = @ \cup {p}]
  <2>1. /\ m.rules = machine.rules /\ s.active = sec.active /\ s.report = sec.report /\ s.status = sec.status
        /\ PermissionsShown => s.exec = m.exec /\ s.list = m.list
    BY <1>1 DEF IsSec, IsMachine, PermissionsShown
  <2>2. IsMachine(m) /\ IsSec(s) /\ Runs({"add"}, m, s, {"events"}, "list")
    BY <1>2, <1>4, Zenon
  <2>3. SecInv /\ {"add"} \subseteq ApprovalKinds /\ failed' = failed
    BY <1>1 DEF ApprovalKinds
  <2> HIDE DEF m, s
  <2> QED
    BY <2>1, <2>2, <2>3, ApprovalKeeps
<1>5. CASE Runs({"remove"}, [machine EXCEPT !.list = @ \ {p}], [sec EXCEPT !.list = @ \ {p}], {"events"}, "")
  <2> DEFINE m == [machine EXCEPT !.list = @ \ {p}]
             s == [sec EXCEPT !.list = @ \ {p}]
  <2>1. /\ m.rules = machine.rules /\ s.active = sec.active /\ s.report = sec.report /\ s.status = sec.status
        /\ PermissionsShown => s.exec = m.exec /\ s.list = m.list
    BY <1>1 DEF IsSec, IsMachine, PermissionsShown
  <2>2. IsMachine(m) /\ IsSec(s)
    BY <1>2, Zenon
  <2>3. PICK none : Runs({"remove"}, m, s, {"events"}, none)
    BY <1>5, Zenon
  <2>4. SecInv /\ {"remove"} \subseteq ApprovalKinds /\ failed' = failed
    BY <1>1 DEF ApprovalKinds
  <2> HIDE DEF m, s
  <2> QED
    BY <2>1, <2>2, <2>3, <2>4, ApprovalKeeps
<1>6. ASSUME NEW kinds, NEW s, NEW control, Runs(kinds, machine, s, {}, control), kinds \subseteq ApprovalKinds,
             IsAlike(s)
      PROVE  SecInv'
  <2>1. "scan" \notin kinds /\ "perms" \notin kinds
    BY <1>6 DEF ApprovalKinds
  <2>2. IsChange(machine)
    BY <1>1 DEF IsChange
  <2> QED
    BY <1>1, <1>6, <2>1, <2>2, OtherKeeps
<1>7. IsAlike(sec) /\ IsAlike(Frees("exec")) /\ IsAlike(Frees("list"))
  BY <1>1, FreesIs
<1> QED
  <2>1. /\ {"setExec"} \subseteq ApprovalKinds /\ {"add"} \subseteq ApprovalKinds
        /\ {"remove"} \subseteq ApprovalKinds
    BY DEF ApprovalKinds
  <2> QED
    BY <1>3, <1>4, <1>5, <1>6, <1>7, <2>1, Zenon DEF ApprovalsRun, p

LEMMA OthersKeep == SecInv /\ OtherRuns => SecInv'
<1> SUFFICES ASSUME SecInv, OtherRuns PROVE SecInv'
  OBVIOUS
<1>1. IsSec(sec) /\ IsMachine(machine) /\ failed' = failed
  BY DEF SecInv, OtherRuns
<1>2. IsAlike(sec) /\ IsAlike(Frees("fixService"))
  BY <1>1, FreesIs
<1>3. IsAlike([sec EXCEPT !.done = @ \cup {"panic"}])
  BY <1>2, AlikeEdits, Zenon
<1>4. IsChange(machine)
  BY <1>1 DEF IsChange
<1>5. CASE Runs({"restart"}, [machine EXCEPT !.service = TRUE], sec, {"rescan"}, "fixService")
  <2> DEFINE m == [machine EXCEPT !.service = TRUE]
  <2>1. IsMachine(m)
    BY <1>1, MachineEdits, Zenon
  <2>2. m.rules = machine.rules /\ m.exec = machine.exec /\ m.list = machine.list
    BY <1>1 DEF IsMachine
  <2>3. IsChange(m)
    BY <2>1, <2>2 DEF IsChange
  <2>4. Runs({"restart"}, m, sec, {"rescan"}, "fixService")
    BY <1>5
  <2> HIDE DEF m
  <2> QED
    BY <1>1, <1>2, <2>2, <2>3, <2>4, OtherKeeps
<1>6. CASE Runs({"restart"}, machine, Frees("fixService"), {}, "fixService")
  BY <1>1, <1>2, <1>4, <1>6, OtherKeeps
<1>7. ASSUME NEW ok \in BOOLEAN,
             Runs({"wipe"}, machine, IF ok THEN [sec EXCEPT !.done = @ \cup {"panic"}] ELSE sec, {"events"}, "panic")
      PROVE  SecInv'
  <2>1. PICK s : /\ s = IF ok THEN [sec EXCEPT !.done = @ \cup {"panic"}] ELSE sec
                 /\ Runs({"wipe"}, machine, s, {"events"}, "panic")
    BY <1>7, Zenon
  <2>2. IsAlike(s)
    BY <1>2, <1>3, <2>1, Zenon
  <2> QED
    BY <1>1, <1>4, <2>1, <2>2, OtherKeeps
<1> QED
  BY <1>5, <1>6, <1>7, Zenon DEF OtherRuns

(* A click of the page asks for a command. *)
LEMMA ClickKeeps ==
  ASSUME SecInv, NEW c, c.visit = secVisit, queue' = Append(queue, c), secVisit' = secVisit, machine' = machine,
         logs' = logs, failed' = failed, NEW b, sec' = sec \/ sec' = [sec EXCEPT !.busy = b]
  PROVE  SecInv'
<1>1. IsSec(sec) /\ IsMachine(machine)
  BY DEF SecInv
<1>2. IsAlike(sec')
  <2>1. IsAlike(sec) /\ IsAlike([sec EXCEPT !.busy = b])
    BY <1>1, FreesIs, AlikeEdits, Zenon
  <2> QED
    BY <2>1, Zenon
<1>3. BannerComes => BannerComes'
  BY <1>2, BannerStays DEF IsAlike
<1>4. IsMachine(machine') /\ IsSec(sec') /\ (PermissionsShown => PermissionsShown')
  BY <1>1, <1>2 DEF IsAlike, PermissionsShown
<1> QED
  BY <1>3, <1>4, CommandWaits

LEMMA InvokesKeeps ==
  ASSUME SecInv, NEW control, NEW c, c.visit = secVisit, Invokes(control, c)
  PROVE  SecInv'
<1>1. /\ queue' = Append(queue, c) /\ secVisit' = secVisit /\ machine' = machine /\ logs' = logs /\ failed' = failed
      /\ sec' = [sec EXCEPT !.busy = @ \cup {control}]
  BY DEF Invokes
<1>2. PICK b : sec' = [sec EXCEPT !.busy = b]
  BY <1>1, Zenon
<1> QED
  BY <1>1, <1>2, ClickKeeps

(* A handler goes on: it scans again, or it has loaded the log.               *)
LEMMA LogKeeps == ASSUME SecInv, NEW l, LogSecurityEvent(l) PROVE SecInv'
<1>1. IsSec(sec) /\ IsMachine(machine)
  BY DEF SecInv
<1> DEFINE pg == IF l.next = "rescan" THEN Ends(l.control) ELSE Frees(l.control)
           again == [pg EXCEPT !.busy = @ \cup {"scan"}]
<1>2. /\ l \in logs /\ logs' = logs \ {l} /\ UNCHANGED <<machine, secVisit, failed>>
      /\ IF l.next = "events"
         THEN sec' = (IF l.visit = secVisit THEN pg ELSE sec) /\ UNCHANGED queue
         ELSE /\ queue' = Append(queue, [kind |-> "scan", arg |-> "", visit |-> l.visit])
              /\ sec' = IF l.visit = secVisit THEN again ELSE sec
  BY Zenon DEF LogSecurityEvent
<1>3. IsAlike(sec) /\ IsAlike(pg)
  BY <1>1, FreesIs, Zenon
<1> HIDE DEF pg
<1>4. IsAlike(again)
  BY <1>3, AlikeEdits, Zenon
<1> HIDE DEF again
<1>5. IsAlike(sec')
  BY <1>2, <1>3, <1>4, Zenon
<1>6. IsSec(sec') /\ IsMachine(machine') /\ (PermissionsShown <=> PermissionsShown')
  BY <1>1, <1>2, <1>5 DEF IsAlike, PermissionsShown
<1>7. ASSUME BannerComes, ~(l.visit = secVisit /\ l.next \in {"scan", "rescan"}) PROVE BannerComes'
  <2>1. CASE failed
    BY <1>2, <2>1 DEF BannerComes
  <2>2. CASE ScanComes
    <3>1. PICK k \in logs : k.visit = secVisit /\ k.next \in {"scan", "rescan"}
      BY <2>2 DEF ScanComes
    <3>2. k \in logs' /\ k.visit = secVisit'
      BY <1>2, <1>7, <3>1
    <3>3. ScanComes'
      BY <3>1, <3>2 DEF ScanComes
    <3> QED
      BY <3>3 DEF BannerComes
  <2>3. CASE BannerShown
    BY <1>2, <1>5, <2>3 DEF BannerComes, BannerShown, IsAlike
  <2> QED
    BY <1>7, <2>1, <2>2, <2>3 DEF BannerComes
<1>8. CASE l.next = "events"
  <2>1. BannerComes => BannerComes'
    BY <1>7, <1>8
  <2> QED
    BY <1>2, <1>6, <1>8, <2>1 DEF SecInv
<1>9. CASE l.next # "events"
  <2> DEFINE c == [kind |-> "scan", arg |-> "", visit |-> l.visit]
  <2>1. c.kind = "scan" /\ c.visit = l.visit /\ queue' = Append(queue, c)
    BY <1>2, <1>9
  <2> HIDE DEF c
  <2>2. BannerComes => BannerComes' \/ (c.kind = "scan" /\ c.visit = secVisit)
    BY <1>7, <2>1
  <2> QED
    BY <1>2, <1>6, <2>1, <2>2, CommandWaits
<1> QED
  BY <1>8, <1>9

LEMMA ThreeAre ==
  ASSUME NEW S, NEW f \in [1..3 -> S]
  PROVE  f \in Seq(S) /\ Len(f) = 3
<1>1. ASSUME NEW n \in Nat, NEW g \in [1..n -> S] PROVE g \in Seq(S)
  OBVIOUS
<1>2. f \in Seq(S)
  BY <1>1
<1>3. ASSUME NEW q \in Seq(S) PROVE Len(q) \in Nat /\ DOMAIN q = 1..Len(q)
  OBVIOUS
<1>4. DOMAIN f = 1..3
  OBVIOUS
<1>5. Len(f) \in Nat /\ 1..Len(f) = 1..3
  BY <1>2, <1>3, <1>4
<1> QED
  BY <1>2, <1>5

LEMMA ConcatIs ==
  ASSUME NEW S, NEW q \in Seq(S), NEW f \in Seq(S)
  PROVE  /\ q \o f \in Seq(S) /\ Len(q \o f) = Len(q) + Len(f) /\ Len(q) \in Nat
         /\ \A i \in 1..Len(q) : (q \o f)[i] = q[i]
         /\ \A i \in 1..Len(f) : (q \o f)[Len(q) + i] = f[i]
OBVIOUS

(* The page opens and asks for what it shows; the scan comes last.            *)
LEMMA OpenKeeps == SecInv /\ OpenSecurity => SecInv'
<1> SUFFICES ASSUME SecInv, OpenSecurity PROVE SecInv'
  OBVIOUS
<1> DEFINE f == [i \in 1..3 |-> [kind |-> <<"perms", "mode", "scan">>[i], arg |-> "", visit |-> secVisit']]
<1>1. queue' = queue \o f /\ machine' = machine /\ IsQueue(queue)
  BY DEF OpenSecurity, SecInv
<1>2. Len(f) = 3 /\ f[1].kind = "perms" /\ f[3].kind = "scan" /\ (\A i \in 1..3 : f[i].visit = secVisit')
      /\ IsQueue(f)
  <2> DEFINE K == <<"perms", "mode", "scan">>
             T == {f[i] : i \in 1..3}
  <2>1. K[1] = "perms" /\ K[3] = "scan"
    OBVIOUS
  <2> HIDE DEF K
  <2>2. PICK none : f = [i \in 1..3 |-> [kind |-> K[i], arg |-> none, visit |-> secVisit']]
    BY Zenon DEF K
  <2> HIDE DEF f
  <2>3. f[1].kind = "perms" /\ f[3].kind = "scan" /\ (\A i \in 1..3 : f[i].visit = secVisit')
    BY <2>1, <2>2
  <2>4. DOMAIN f = 1..3 /\ f \in [1..3 -> T]
    BY <2>2
  <2> HIDE DEF T
  <2>5. f \in Seq(T) /\ Len(f) = 3
    BY <2>4, ThreeAre, Zenon
  <2>7. IsQueue(f)
    BY <2>5, QueueIs, Zenon
  <2> QED
    BY <2>3, <2>5, <2>7
<1> HIDE DEF f
<1>4. PICK S : queue \in Seq(S) /\ f \in Seq(S)
  <2>1. PICK A, B : queue \in Seq(A) /\ f \in Seq(B)
    BY <1>1, <1>2, QueueIs, Zenon
  <2>2. queue \in Seq(A \cup B) /\ f \in Seq(A \cup B)
    BY <2>1
  <2> QED
    BY <2>2, Zenon
<1>5. queue' \in Seq(S) /\ Len(queue') = Len(queue) + 3 /\ Len(queue) \in Nat
      /\ (\A i \in 1..Len(queue) : queue'[i] = queue[i])
      /\ (\A i \in 1..3 : queue'[Len(queue) + i] = f[i])
  <2>1. queue' = queue \o f /\ queue \in Seq(S) /\ f \in Seq(S) /\ Len(f) = 3
    BY <1>1, <1>2, <1>4
  <2>2. queue' \in Seq(S) /\ Len(queue') = Len(queue) + 3 /\ Len(queue) \in Nat
    <3>1. queue' \in Seq(S) /\ Len(queue') = Len(queue) + Len(f) /\ Len(queue) \in Nat
      BY <2>1, ConcatIs, Zenon
    <3> QED
      BY <2>1, <3>1
  <2>3. \A i \in 1..Len(queue) : queue'[i] = queue[i]
    BY <2>1, ConcatIs
  <2>4. \A i \in 1..3 : queue'[Len(queue) + i] = f[i]
    BY <2>1, ConcatIs
  <2> QED
    BY <2>2, <2>3, <2>4
<1>6. IsQueue(queue')
  BY <1>5, QueueIs, Zenon
<1>7. ASSUME NEW kinds, NEW k \in {1, 3}
      PROVE  /\ "perms" \notin kinds => Behind(queue', kinds, "scan", secVisit')
             /\ k = 1 => Behind(queue', kinds, "perms", secVisit')
  <2>1. Len(queue) + k \in 1..Len(queue') /\ queue'[Len(queue) + k] = f[k]
    BY <1>5
  <2>2. ASSUME NEW i \in 1..Len(queue'), queue'[i].visit # secVisit' PROVE i \in 1..Len(queue)
    <3>1. CASE i \in 1..Len(queue)
      BY <3>1
    <3>2. CASE i \notin 1..Len(queue)
      <4>1. PICK j \in 1..3 : i = Len(queue) + j
        BY <1>5, <3>2
      <4> QED
        BY <1>2, <1>5, <2>2, <4>1
    <3> QED
      BY <3>1, <3>2
  <2>3. Len(queue) + 3 \in 1..Len(queue') /\ queue'[Len(queue) + 3] = f[3]
    BY <1>5
  <2>4. ASSUME NEW i \in 1..Len(queue'), queue'[i].visit # secVisit'
        PROVE  /\ i < Len(queue) + 3
               /\ k = 1 => i < Len(queue) + 1
    BY <1>5, <2>2, <2>4
  <2>5. Behind(queue', kinds, "scan", secVisit')
    BY <1>2, <2>3, <2>4 DEF Behind
  <2>6. k = 1 => Behind(queue', kinds, "perms", secVisit')
    BY <1>2, <2>1, <2>4 DEF Behind
  <2> QED
    BY <2>5, <2>6
<1>8. Queued(queue', "scan", secVisit') /\ Queued(queue', "perms", secVisit')
  <2>1. Len(queue) + 3 \in 1..Len(queue') /\ queue'[Len(queue) + 3] = f[3]
        /\ Len(queue) + 1 \in 1..Len(queue') /\ queue'[Len(queue) + 1] = f[1]
    BY <1>5
  <2> QED
    BY <1>2, <2>1 DEF Queued
<1>9. IsSec(sec') /\ IsMachine(machine')
  <2>1. IsSec(NewSec)
    BY DEF NewSec, IsSec
  <2>2. IsSec([NewSec EXCEPT !.busy = {"scan"}])
    BY <2>1, SecEdits, Zenon
  <2>3. IsSec(sec')
    BY <2>2, Zenon DEF OpenSecurity
  <2> QED
    BY <1>1, <2>3 DEF SecInv
<1>10. /\ Behind(queue', FirewallKinds, "scan", secVisit') /\ Behind(queue', ApprovalKinds, "perms", secVisit')
  BY <1>7 DEF FirewallKinds
<1> QED
  BY <1>6, <1>8, <1>9, <1>10, Zenon DEF SecInv

LEMMA SecStarts == SecInit => SecInv
<1> SUFFICES ASSUME SecInit PROVE SecInv
  OBVIOUS
<1>1. IsMachine(machine)
  BY DEF SecInit, IsMachine
<1>2. IsSec(sec)
  BY DEF SecInit, NewSec, IsSec
<1>3. queue = <<>> /\ secVisit = 0
  BY DEF SecInit
<1>4. IsQueue(queue)
  <2>1. queue \in Seq({0})
    BY <1>3
  <2> QED
    BY <2>1, QueueIs, Zenon
<1> QED
  BY <1>1, <1>2, <1>3, <1>4 DEF SecInv

LEMMA SecStep == SecInv /\ [SecNext]_secvars => SecInv'
<1> SUFFICES ASSUME SecInv, [SecNext]_secvars PROVE SecInv'
  OBVIOUS
<1>1. IsSec(sec) /\ IsMachine(machine)
  BY DEF SecInv
<1>2. ASSUME NEW kind, NEW arg, NEW control, Invokes(control, Command(kind, arg)) PROVE SecInv'
  <2>1. PICK c : c = Command(kind, arg)
    BY Zenon
  <2>2. c.visit = secVisit /\ Invokes(control, c)
    BY <1>2, <2>1 DEF Command
  <2> QED
    BY <2>2, InvokesKeeps
<1>3. CASE OpenSecurity
  BY <1>3, OpenKeeps
<1>4. CASE LeaveSecurity
  BY <1>4 DEF LeaveSecurity, SecInv
<1>5. CASE LanChanges
  <2>1. PICK lan : machine' = [machine EXCEPT !.lan = lan]
    BY <1>5, Zenon DEF LanChanges
  <2>2. IsMachine(machine')
    BY <1>1, <2>1, MachineEdits, Zenon
  <2>3. machine'.rules = machine.rules /\ machine'.exec = machine.exec /\ machine'.list = machine.list
    BY <1>1, <2>1 DEF IsMachine
  <2>4. UNCHANGED <<sec, secVisit, queue, logs, failed>>
    BY <1>5 DEF LanChanges
  <2>5. BannerComes => BannerComes'
    BY <2>3, <2>4, BannerStays
  <2> QED
    BY <2>2, <2>3, <2>4, <2>5 DEF SecInv, PermissionsShown
<1>6. CASE RunScan \/ HandleKill \/ HandleRestore \/ HandlePanic \/ HandleFixService
  BY <1>2, <1>6, Zenon DEF RunScan, HandleKill, HandleRestore, HandlePanic, HandleFixService
<1>7. CASE ToggleFirewall
  BY <1>2, <1>7, Zenon DEF ToggleFirewall
<1>8. CASE HandleClear \/ UNCHANGED secvars
  <2>1. UNCHANGED <<machine, sec, secVisit, queue, logs, failed>>
    BY <1>8 DEF HandleClear, secvars
  <2>2. BannerComes <=> BannerComes'
    BY <2>1 DEF BannerComes, ScanComes, BannerShown
  <2> QED
    BY <2>1, <2>2 DEF SecInv, PermissionsShown
<1>9. ASSUME NEW m, ApplyMode(m) \/ HandleFix(m) \/ HandleSetMode(m) PROVE SecInv'
  BY <1>2, <1>9, Zenon DEF ApplyMode, HandleFix, HandleSetMode
<1>10. ASSUME NEW p, HandleAddPattern(p) PROVE SecInv'
  BY <1>2, <1>10, Zenon DEF HandleAddPattern
<1>11. ASSUME NEW p, HandleRemovePattern(p) PROVE SecInv'
  <2>1. PICK c : c = Command("remove", p)
    BY Zenon
  <2>2. c.visit = secVisit
    BY <2>1 DEF Command
  <2>3. queue' = Append(queue, c) /\ UNCHANGED <<machine, sec, secVisit, logs, failed>>
    BY <1>11, <2>1 DEF HandleRemovePattern
  <2> QED
    BY <2>2, <2>3, ClickKeeps
<1>12. CASE ScanRuns \/ LoadRuns \/ FixRuns \/ OtherRuns \/ ApprovalsRun
  BY <1>12, ScanKeeps, LoadKeeps, FixKeeps, OthersKeep, ApprovalsKeep
<1>13. ASSUME NEW b, NEW s, s = [sec EXCEPT !.active = b]
       PROVE  IsSec(s) /\ s.exec = sec.exec /\ s.list = sec.list
  BY <1>1, <1>13 DEF IsSec
<1>14. ASSUME NEW kinds, kinds \subseteq FirewallKinds, NEW control, NEW results,
              \A r \in results : IsChange(r.to), NEW b, FirewallRuns(control, kinds, results, [sec EXCEPT !.active = b])
       PROVE  SecInv'
  <2>1. PICK s : s = [sec EXCEPT !.active = b]
    BY Zenon
  <2>2. IsSec(s) /\ s.exec = sec.exec /\ s.list = sec.list
    BY <1>13, <2>1, Zenon
  <2>3. FirewallRuns(control, kinds, results, s)
    BY <1>14, <2>1, Zenon
  <2> QED
    BY <1>14, <2>2, <2>3, FirewallKeeps
<1>15. /\ {"kill"} \subseteq FirewallKinds /\ {"restore"} \subseteq FirewallKinds /\ {"fwOn"} \subseteq FirewallKinds
       /\ {"fwOff"} \subseteq FirewallKinds /\ {"setMode"} \subseteq FirewallKinds
  BY DEF FirewallKinds
<1>16. CASE KillRuns \/ RestoreRuns \/ ToggleRuns
  BY <1>1, <1>14, <1>15, <1>16, ResultsAre, Zenon DEF KillRuns, RestoreRuns, ToggleRuns
<1>17. CASE ModeRuns
  <2>1. PICK m : FirewallRuns("network", {"setMode"}, SetNetworkAccessMode(m), [sec EXCEPT !.mode = m])
    BY <1>17, Zenon DEF ModeRuns
  <2>2. PICK s : s = [sec EXCEPT !.mode = m]
    BY Zenon
  <2>3. IsSec(s)
    BY <1>1, <2>2, SecEdits, Zenon
  <2>4. s.exec = sec.exec /\ s.list = sec.list
    BY <1>1, <2>2 DEF IsSec
  <2>5. PICK results : /\ FirewallRuns("network", {"setMode"}, results, s)
                       /\ \A r \in results : IsChange(r.to)
    BY <1>1, <2>1, <2>2, ResultsAre, Zenon
  <2> QED
    BY <1>15, <2>3, <2>4, <2>5, FirewallKeeps
<1>18. ASSUME NEW l \in logs, LogSecurityEvent(l) PROVE SecInv'
  BY <1>18, LogKeeps
<1> QED
  BY <1>3, <1>4, <1>5, <1>6, <1>7, <1>8, <1>9, <1>10, <1>11, <1>12, <1>16, <1>17, <1>18 DEF SecNext

LEMMA SecHolds == SecInv => BannerIsTrue /\ PermissionsAgree
<1> SUFFICES ASSUME SecInv, Settled PROVE (~failed => BannerShown) /\ PermissionsShown
  BY Zenon DEF BannerIsTrue, PermissionsAgree, BannerShown, PermissionsShown
<1>1. secVisit # 0 /\ queue = <<>> /\ logs = {}
  BY DEF Settled
<1>2. Len(queue) = 0
  BY <1>1
<1>3. \A kind : ~Queued(queue, kind, secVisit)
  BY <1>2 DEF Queued
<1>4. ~ScanComes
  BY <1>1 DEF ScanComes
<1>5. BannerComes /\ PermissionsShown
  BY <1>1, <1>3, Zenon DEF SecInv
<1> QED
  BY <1>4, <1>5 DEF BannerComes

(* The points on show and those of the score, check by check.                 *)
LEMMA BreakdownIs == BreakdownAgrees
<1> SUFFICES ASSUME NEW id \in DOMAIN Checks, NEW status \in Checks[id]
             PROVE  CheckContrib(id, status) = PointsOf(id, status)
  BY DEF BreakdownAgrees
<1>1. id \in {"network_access", "im_connector", "port_exposure", "node_version", "pm2_status", "offline_mode"}
  BY DEF Checks
<1>2. CASE id = "network_access"
  <2>1. status \in {"ok", "notice", "warn", "danger"} /\ Weight[id] = 40
    BY <1>2 DEF Checks, Weight
  <2>2. Percent(id, status) \in {100, 85, 75, 0}
    BY <1>2, <2>1 DEF Percent
  <2> QED
    BY <2>1, <2>2 DEF CheckContrib, PointsOf
<1>3. CASE id = "im_connector"
  <2>1. status \in {"ok", "warn", "danger"} /\ Weight[id] = 20
    BY <1>3 DEF Checks, Weight
  <2>2. Percent(id, status) \in {100, 60, 0}
    BY <1>3, <2>1 DEF Percent
  <2> QED
    BY <2>1, <2>2 DEF CheckContrib, PointsOf
<1>4. CASE id = "port_exposure"
  <2>1. status \in {"ok", "warn", "danger"} /\ Weight[id] = 15
    BY <1>4 DEF Checks, Weight
  <2>2. Percent(id, status) \in {100, 60, 0}
    BY <1>4, <2>1 DEF Percent
  <2> QED
    BY <2>1, <2>2 DEF CheckContrib, PointsOf
<1>5. CASE id = "node_version"
  <2>1. status \in {"ok", "warn", "danger", "unknown"} /\ Weight[id] = 10
    BY <1>5 DEF Checks, Weight
  <2>2. Percent(id, status) \in {100, 60, 50, 0}
    BY <1>5, <2>1 DEF Percent
  <2> QED
    BY <2>1, <2>2 DEF CheckContrib, PointsOf
<1>6. CASE id = "pm2_status" \/ id = "offline_mode"
  <2>1. status \in {"ok", "warn"} /\ Weight[id] \in {10, 5}
    BY <1>6 DEF Checks, Weight
  <2>2. Percent(id, status) \in {100, 60}
    BY <1>6, <2>1 DEF Percent
  <2> QED
    BY <2>1, <2>2 DEF CheckContrib, PointsOf
<1> QED
  BY <1>1, <1>2, <1>3, <1>4, <1>5, <1>6

-----------------------------------------------------------------------------
(* The routing rules. *)

RouterInv == RouterTypeOK /\ OrderIsTotal

(* A save stores the new rules or leaves the old: it is enough that the new   *)
(* ones keep the type and the order.                                          *)
LEMMA SaveKeeps ==
  ASSUME RouterInv, NEW to, SaveRules(to),
         DOMAIN to \subseteq Ids, to \in [DOMAIN to -> Rules],
         \A i, j \in DOMAIN to : ~halfMoved /\ to[i].priority = to[j].priority => i = j
  PROVE  /\ DOMAIN rules' \subseteq Ids /\ rules' \in [DOMAIN rules' -> Rules]
         /\ \A i, j \in DOMAIN rules' : ~halfMoved /\ rules'[i].priority = rules'[j].priority => i = j
  BY DEF RouterInv, RouterTypeOK, OrderIsTotal, SaveRules

(* The form: the new rule comes after every other.                            *)
LEMMA AddKeeps ==
  ASSUME RouterInv, NEW i \in Ids, NEW d \in Drafts, HandleAdd(i, d)
  PROVE  RouterInv'
<1>1. PICK p \in 0..MaxPriority :
        /\ NextPriority(p)
        /\ SaveRules([j \in DOMAIN rules \cup {i} |->
             IF j = i THEN [keywords |-> d.keywords, target |-> d.target, priority |-> p, enabled |-> TRUE]
                      ELSE rules[j]])
  BY DEF HandleAdd
<1> DEFINE new == [keywords |-> d.keywords, target |-> d.target, priority |-> p, enabled |-> TRUE]
           to  == [j \in DOMAIN rules \cup {i} |-> IF j = i THEN new ELSE rules[j]]
<1>2. p \in Nat /\ new \in Rules /\ i \notin DOMAIN rules
  <2>1. p \in Nat
    BY RouterAssumption
  <2>2. d.keywords \in SUBSET Inputs \ {{}} /\ d.target \in Targets
    BY DEF Drafts
  <2> QED
    BY <2>1, <2>2 DEF HandleAdd, Rules
<1>3. \A j \in DOMAIN rules : rules[j].priority \in Nat /\ rules[j].priority < p
  BY <1>1, <1>2 DEF NextPriority, RouterInv, RouterTypeOK, Rules
<1>4. DOMAIN to \subseteq Ids /\ to \in [DOMAIN to -> Rules]
  BY <1>2 DEF RouterInv, RouterTypeOK
<1>5. \A j, k \in DOMAIN to : ~halfMoved /\ to[j].priority = to[k].priority => j = k
  BY <1>2, <1>3 DEF RouterInv, OrderIsTotal
<1>6. SaveRules(to)
  BY <1>1
<1> HIDE DEF to
<1>7. /\ DOMAIN rules' \subseteq Ids /\ rules' \in [DOMAIN rules' -> Rules]
      /\ \A j, k \in DOMAIN rules' : ~halfMoved /\ rules'[j].priority = rules'[k].priority => j = k
  BY <1>4, <1>5, <1>6, SaveKeeps
<1> QED
  BY <1>7 DEF RouterInv, RouterTypeOK, OrderIsTotal, HandleAdd

(* The edits of one card keep the priorities.                                 *)
LEMMA PatchKeeps ==
  ASSUME RouterInv, NEW i \in DOMAIN rules, NEW patch \in Rules,
         patch.priority = rules[i].priority, SaveRules(Patched(rules, i, patch)),
         DOMAIN drafts' \subseteq Ids, drafts' \in [DOMAIN drafts' -> Drafts], halfMoved' = halfMoved
  PROVE  RouterInv'
<1> DEFINE to == Patched(rules, i, patch)
<1>1. DOMAIN to = DOMAIN rules /\ to \in [DOMAIN rules -> Rules]
  BY DEF Patched, RouterInv, RouterTypeOK
<1>2. \A j \in DOMAIN rules : to[j].priority = rules[j].priority
  BY DEF Patched, RouterInv, RouterTypeOK
<1>3. \A j, k \in DOMAIN to : ~halfMoved /\ to[j].priority = to[k].priority => j = k
  BY <1>1, <1>2 DEF RouterInv, OrderIsTotal
<1>4. DOMAIN to \subseteq Ids /\ SaveRules(to)
  BY <1>1 DEF RouterInv, RouterTypeOK
<1> HIDE DEF to
<1>5. /\ DOMAIN rules' \subseteq Ids /\ rules' \in [DOMAIN rules' -> Rules]
      /\ \A j, k \in DOMAIN rules' : ~halfMoved /\ rules'[j].priority = rules'[k].priority => j = k
  BY <1>1, <1>3, <1>4, SaveKeeps
<1> QED
  BY <1>5 DEF RouterInv, RouterTypeOK, OrderIsTotal

LEMMA DeleteKeeps ==
  ASSUME RouterInv, NEW i \in Ids, DeleteRule(i)
  PROVE  RouterInv'
<1> DEFINE to == [j \in DOMAIN rules \ {i} |-> rules[j]]
<1>1. DOMAIN to \subseteq Ids /\ to \in [DOMAIN to -> Rules] /\ SaveRules(to)
  BY DEF DeleteRule, RouterInv, RouterTypeOK
<1>2. \A j, k \in DOMAIN to : ~halfMoved /\ to[j].priority = to[k].priority => j = k
  BY DEF RouterInv, OrderIsTotal
<1> HIDE DEF to
<1>3. /\ DOMAIN rules' \subseteq Ids /\ rules' \in [DOMAIN rules' -> Rules]
      /\ \A j, k \in DOMAIN rules' : ~halfMoved /\ rules'[j].priority = rules'[k].priority => j = k
  BY <1>1, <1>2, SaveKeeps
<1> QED
  BY <1>3 DEF RouterInv, RouterTypeOK, OrderIsTotal, DeleteRule

(* A move swaps two priorities; with one half refused it owns up to it.       *)
LEMMA MoveKeeps ==
  ASSUME RouterInv, NEW i \in Ids, NEW j \in Ids, HandleMove(i, j)
  PROVE  RouterInv'
<1> DEFINE Given(k, p) == [rules[k] EXCEPT !.priority = p]
           first  == Patched(rules, i, Given(i, rules[j].priority))
           second == Patched(rules, j, Given(j, rules[i].priority))
           both   == Patched(first, j, Given(j, rules[i].priority))
<1>1. i \in DOMAIN rules /\ j \in DOMAIN rules /\ i # j /\ UNCHANGED drafts
  BY DEF HandleMove, NextTo
<1>2. Given(i, rules[j].priority) \in Rules /\ Given(j, rules[i].priority) \in Rules
  BY <1>1 DEF RouterInv, RouterTypeOK, Rules
<1>3. /\ first \in [DOMAIN rules -> Rules] /\ second \in [DOMAIN rules -> Rules]
      /\ both \in [DOMAIN rules -> Rules]
  BY <1>1, <1>2 DEF Patched, RouterInv, RouterTypeOK
<1>4. CASE rules' = both /\ UNCHANGED halfMoved
  <2>1. /\ rules'[i].priority = rules[j].priority /\ rules'[j].priority = rules[i].priority
        /\ \A k \in DOMAIN rules \ {i, j} : rules'[k] = rules[k]
        /\ DOMAIN rules' = DOMAIN rules
    BY <1>1, <1>2, <1>3, <1>4 DEF Patched, RouterInv, RouterTypeOK, Rules
  <2> QED
    BY <1>1, <1>3, <1>4, <2>1 DEF RouterInv, RouterTypeOK, OrderIsTotal
<1>5. CASE rules' \in {first, second} /\ halfMoved' = TRUE
  BY <1>1, <1>3, <1>5 DEF RouterInv, RouterTypeOK, OrderIsTotal
<1>6. CASE UNCHANGED <<rules, halfMoved>>
  BY <1>1, <1>6 DEF RouterInv, RouterTypeOK, OrderIsTotal
<1> QED
  BY <1>4, <1>5, <1>6 DEF HandleMove

LEMMA RouterInvInductive == RouterInv /\ [RouterNext]_routervars => RouterInv'
<1> SUFFICES ASSUME RouterInv, [RouterNext]_routervars PROVE RouterInv'
  OBVIOUS
<1>1. ASSUME NEW i \in Ids, NEW d \in Drafts, HandleAdd(i, d) PROVE RouterInv'
  BY <1>1, AddKeeps
<1>2. ASSUME NEW i \in Ids, NEW d \in Drafts, EditCard(i, d) PROVE RouterInv'
  BY <1>2 DEF EditCard, RouterInv, RouterTypeOK, OrderIsTotal
<1>3. ASSUME NEW i \in Ids, CancelCard(i) PROVE RouterInv'
  BY <1>3 DEF CancelCard, CloseCard, RouterInv, RouterTypeOK, OrderIsTotal
<1>4. ASSUME NEW i \in Ids, SaveCard(i) PROVE RouterInv'
  <2> DEFINE patch == [rules[i] EXCEPT !.keywords = drafts[i].keywords, !.target = drafts[i].target]
  <2>1. i \in DOMAIN rules /\ patch \in Rules /\ patch.priority = rules[i].priority
    BY <1>4 DEF SaveCard, RouterInv, RouterTypeOK, Rules, Drafts
  <2>2. DOMAIN drafts' \subseteq Ids /\ drafts' \in [DOMAIN drafts' -> Drafts] /\ halfMoved' = halfMoved
    BY <1>4 DEF SaveCard, CloseCard, RouterInv, RouterTypeOK
  <2>3. SaveRules(Patched(rules, i, patch))
    BY <1>4 DEF SaveCard
  <2> HIDE DEF patch
  <2> QED
    BY <2>1, <2>2, <2>3, PatchKeeps
<1>5. ASSUME NEW i \in Ids, HandleToggle(i) PROVE RouterInv'
  <2> DEFINE patch == [rules[i] EXCEPT !.enabled = ~@]
  <2>1. i \in DOMAIN rules /\ patch \in Rules /\ patch.priority = rules[i].priority
    BY <1>5 DEF HandleToggle, RouterInv, RouterTypeOK, Rules
  <2>2. DOMAIN drafts' \subseteq Ids /\ drafts' \in [DOMAIN drafts' -> Drafts] /\ halfMoved' = halfMoved
    BY <1>5 DEF HandleToggle, RouterInv, RouterTypeOK
  <2>3. SaveRules(Patched(rules, i, patch))
    BY <1>5 DEF HandleToggle
  <2> HIDE DEF patch
  <2> QED
    BY <2>1, <2>2, <2>3, PatchKeeps
<1>6. ASSUME NEW i \in Ids, DeleteRule(i) PROVE RouterInv'
  BY <1>6, DeleteKeeps
<1>7. ASSUME NEW i \in Ids, NEW j \in Ids, HandleMove(i, j) PROVE RouterInv'
  BY <1>7, MoveKeeps
<1>8. CASE UNCHANGED routervars
  BY <1>8 DEF routervars, RouterInv, RouterTypeOK, OrderIsTotal
<1> QED
  BY <1>1, <1>2, <1>3, <1>4, <1>5, <1>6, <1>7, <1>8 DEF RouterNext

(* What each action does to the order: only a move changes it, between        *)
(* neighbours.                                                                *)
LEMMA StepKeepsOrder ==
  ASSUME RouterInv, [RouterNext]_routervars
  PROVE  \A i, j \in DOMAIN rules \cap DOMAIN rules' :
           rules[i].priority < rules[j].priority /\ rules'[j].priority < rules'[i].priority => NextTo(i, j)
<1> DEFINE Goal == \A i, j \in DOMAIN rules \cap DOMAIN rules' :
           rules[i].priority < rules[j].priority /\ rules'[j].priority < rules'[i].priority => NextTo(i, j)
           Same == \A i \in DOMAIN rules \cap DOMAIN rules' : rules'[i].priority = rules[i].priority
<1>0. \A i \in DOMAIN rules : rules[i] \in Rules /\ rules[i].priority \in Nat
  BY DEF RouterInv, RouterTypeOK, Rules
<1>1. Same => Goal
  BY <1>0
<1>2. ASSUME NEW i \in Ids, NEW d \in Drafts, HandleAdd(i, d) \/ EditCard(i, d) PROVE Same
  BY <1>2 DEF HandleAdd, EditCard, SaveRules
<1>3. ASSUME NEW i \in Ids, CancelCard(i) \/ DeleteRule(i) PROVE Same
  BY <1>3 DEF CancelCard, DeleteRule, SaveRules
<1>4. ASSUME NEW i \in Ids, SaveCard(i) \/ HandleToggle(i) PROVE Same
  <2> DEFINE saved == [rules[i] EXCEPT !.keywords = drafts[i].keywords, !.target = drafts[i].target]
             toggled == [rules[i] EXCEPT !.enabled = ~@]
  <2>1. i \in DOMAIN rules /\ rules' \in {rules, Patched(rules, i, saved), Patched(rules, i, toggled)}
    BY <1>4 DEF SaveCard, HandleToggle, SaveRules
  <2>2. saved.priority = rules[i].priority /\ toggled.priority = rules[i].priority
    BY <1>0, <2>1 DEF Rules
  <2> HIDE DEF saved, toggled
  <2> QED
    BY <2>1, <2>2 DEF Patched
<1>5. ASSUME NEW i \in Ids, NEW j \in Ids, HandleMove(i, j) PROVE Goal
  <2> DEFINE Given(k, p) == [rules[k] EXCEPT !.priority = p]
             first  == Patched(rules, i, Given(i, rules[j].priority))
             second == Patched(rules, j, Given(j, rules[i].priority))
             both   == Patched(first, j, Given(j, rules[i].priority))
  <2>1. i \in DOMAIN rules /\ j \in DOMAIN rules /\ i # j /\ NextTo(i, j)
    BY <1>5 DEF HandleMove, NextTo
  <2>2. rules' \in {rules, first, second, both}
    BY <1>5 DEF HandleMove
  <2>3. /\ DOMAIN rules' = DOMAIN rules
        /\ \A k \in DOMAIN rules \ {i, j} : rules'[k] = rules[k]
        /\ rules'[i].priority \in {rules[i].priority, rules[j].priority}
        /\ rules'[j].priority \in {rules[i].priority, rules[j].priority}
    BY <1>0, <2>1, <2>2 DEF Patched, Rules
  <2>4. NextTo(j, i)
    BY <2>1 DEF NextTo
  <2>5. ASSUME NEW k \in DOMAIN rules, NEW l \in DOMAIN rules,
               rules[k].priority < rules[l].priority, rules'[l].priority < rules'[k].priority
        PROVE  {k, l} = {i, j}
    BY <1>0, <2>1, <2>3, <2>5 DEF NextTo
  <2>6. ASSUME NEW k, NEW l, {k, l} = {i, j}, k # l PROVE NextTo(k, l)
    BY <2>1, <2>4, <2>6
  <2> QED
    BY <1>0, <2>3, <2>5, <2>6
<1>6. ASSUME UNCHANGED routervars PROVE Same
  BY <1>6 DEF routervars
<1> HIDE DEF Goal, Same
<1>7. Goal
  BY <1>1, <1>2, <1>3, <1>4, <1>5, <1>6 DEF RouterNext
<1> QED
  BY <1>7 DEF Goal

LEMMA RouterStarts == RouterInit => RouterInv
BY DEF RouterInit, RouterInv, RouterTypeOK, OrderIsTotal

LEMMA RouterInvAlways == RouterSpec => []RouterInv
<1> QED
  BY RouterStarts, RouterInvInductive, PTL DEF RouterSpec

(* The rules are totally ordered through every sequence of edits, refused     *)
(* saves included, unless a move was stored by half.                          *)
THEOREM OrderTotal == RouterSpec => []OrderIsTotal
<1>1. RouterInv => OrderIsTotal
  BY DEF RouterInv
<1> QED
  BY <1>1, RouterInvAlways, PTL

(* No edit reorders rules that are not neighbours.                            *)
THEOREM OrderKept == RouterSpec => EditsKeepOrder
<1>1. RouterInv /\ [RouterNext]_routervars =>
        [\A i, j \in DOMAIN rules \cap DOMAIN rules' :
           rules[i].priority < rules[j].priority /\ rules'[j].priority < rules'[i].priority => NextTo(i, j)]_routervars
  BY StepKeepsOrder
<1> QED
  BY <1>1, RouterInvAlways, PTL DEF RouterSpec, EditsKeepOrder

(* The stored rules and the drafts keep their type.                           *)
THEOREM RouterTypes == RouterSpec => []RouterTypeOK
<1>1. RouterInv => RouterTypeOK
  BY DEF RouterInv
<1> QED
  BY <1>1, RouterInvAlways, PTL

-----------------------------------------------------------------------------
(* The chat of the desktop. *)

IsPane(p) == p = [selected |-> p.selected, mounted |-> p.mounted, inst |-> p.inst, mounting |-> p.mounting,
                  error |-> p.error, lost |-> p.lost, run |-> p.run]
IsMount(m) == m = [by |-> m.by, at |-> m.at, for |-> m.for, visit |-> m.visit, run |-> m.run]
IsRepair(r) == r = [visit |-> r.visit, for |-> r.for, at |-> r.at, had |-> r.had]

(* The mount of the effect that ran last on the page on show. *)
Latest(m) == m.by = "effect" /\ m.visit = paneVisit /\ m.run = pane.run

PaneShapes ==
  /\ IsPane(pane)
  /\ \A m \in mounts : IsMount(m) /\ m.by \in {"effect", "repair"} /\ (m.at = "frame" => m.by = "effect")
  /\ \A r \in repair : IsRepair(r)

(* An online machine is shown, is about to be, or is not for a reason known.   *)
Remounts(r) == r.visit = paneVisit /\ r.at \in {"pause", "mounts"}
ShownOrComing ==
  paneVisit # 0 /\ pane.selected \in onlines =>
    \/ \E m \in mounts : Latest(m)
    \/ /\ webview = "shown" \/ pane.error \/ pane.lost # {} \/ \E r \in repair : Remounts(r)
       /\ pane.mounting => "noRoom" \in pane.lost

DesktopChatInv == PaneShapes /\ ShownOrComing

(* One handler goes on; one field of the page changes, and several.           *)
GoneOn(x, at) == [x EXCEPT !.at = at]

LEMMA GoneOnIs ==
  ASSUME NEW x, NEW at
  PROVE  /\ IsMount(x) => /\ IsMount(GoneOn(x, at)) /\ GoneOn(x, at).by = x.by
                          /\ GoneOn(x, at).visit = x.visit /\ GoneOn(x, at).run = x.run
                          /\ GoneOn(x, at).at = at
         /\ IsRepair(x) => /\ IsRepair(GoneOn(x, at)) /\ GoneOn(x, at).visit = x.visit
                           /\ GoneOn(x, at).at = at
BY DEF IsMount, IsRepair, GoneOn

(* q is the page p but for what an edit may change. *)
PaneOf(q, p, mounting, error, lost, run) ==
  /\ IsPane(q) /\ q.selected = p.selected
  /\ q.mounting = mounting /\ q.error = error /\ q.lost = lost /\ q.run = run

LEMMA PaneEdits ==
  ASSUME NEW p, NEW q, NEW g, NEW e, NEW l, NEW n, PaneOf(q, p, g, e, l, n), NEW x
  PROVE  /\ PaneOf([q EXCEPT !.mounted = x], p, g, e, l, n) /\ PaneOf([q EXCEPT !.inst = x], p, g, e, l, n)
         /\ PaneOf([q EXCEPT !.mounting = x], p, x, e, l, n) /\ PaneOf([q EXCEPT !.error = x], p, g, x, l, n)
         /\ PaneOf([q EXCEPT !.lost = x], p, g, e, x, n) /\ PaneOf([q EXCEPT !.run = x], p, g, e, l, x)
BY DEF IsPane, PaneOf

LEMMA PaneEditsAll ==
  ASSUME NEW p, IsPane(p), NEW x, NEW y, NEW z
  PROVE  /\ PaneOf([p EXCEPT !.lost = x], p, p.mounting, p.error, x, p.run)
         /\ PaneOf([p EXCEPT !.lost = x, !.run = y], p, p.mounting, p.error, x, y)
         /\ PaneOf([p EXCEPT !.mounted = x, !.inst = y], p, p.mounting, p.error, p.lost, p.run)
         /\ PaneOf([p EXCEPT !.mounted = x, !.inst = y, !.lost = z], p, p.mounting, p.error, z, p.run)
         /\ PaneOf([p EXCEPT !.mounting = x, !.error = y], p, x, y, p.lost, p.run)
         /\ PaneOf([p EXCEPT !.error = x, !.mounting = y], p, y, x, p.lost, p.run)
<1>1. /\ [p EXCEPT !.lost = x, !.run = y] = [[p EXCEPT !.lost = x] EXCEPT !.run = y]
      /\ [p EXCEPT !.mounted = x, !.inst = y] = [[p EXCEPT !.mounted = x] EXCEPT !.inst = y]
      /\ [p EXCEPT !.mounted = x, !.inst = y, !.lost = z]
           = [[[p EXCEPT !.mounted = x] EXCEPT !.inst = y] EXCEPT !.lost = z]
      /\ [p EXCEPT !.mounting = x, !.error = y] = [[p EXCEPT !.mounting = x] EXCEPT !.error = y]
      /\ [p EXCEPT !.error = x, !.mounting = y] = [[p EXCEPT !.error = x] EXCEPT !.mounting = y]
  BY Zenon
<1>2. PaneOf(p, p, p.mounting, p.error, p.lost, p.run)
  BY DEF PaneOf
<1>3. PaneOf([p EXCEPT !.lost = x], p, p.mounting, p.error, x, p.run)
  BY <1>2, PaneEdits, Zenon
<1>4. PaneOf([[p EXCEPT !.lost = x] EXCEPT !.run = y], p, p.mounting, p.error, x, y)
  BY <1>3, PaneEdits, Zenon
<1>5. PaneOf([p EXCEPT !.mounted = x], p, p.mounting, p.error, p.lost, p.run)
  BY <1>2, PaneEdits, Zenon
<1>6. PaneOf([[p EXCEPT !.mounted = x] EXCEPT !.inst = y], p, p.mounting, p.error, p.lost, p.run)
  BY <1>5, PaneEdits, Zenon
<1>7. PaneOf([[[p EXCEPT !.mounted = x] EXCEPT !.inst = y] EXCEPT !.lost = z], p, p.mounting, p.error, z, p.run)
  BY <1>6, PaneEdits, Zenon
<1>8. PaneOf([p EXCEPT !.mounting = x], p, x, p.error, p.lost, p.run)
  BY <1>2, PaneEdits, Zenon
<1>9. PaneOf([[p EXCEPT !.mounting = x] EXCEPT !.error = y], p, x, y, p.lost, p.run)
  BY <1>8, PaneEdits, Zenon
<1>10. PaneOf([p EXCEPT !.error = x], p, p.mounting, x, p.lost, p.run)
  BY <1>2, PaneEdits, Zenon
<1>11. PaneOf([[p EXCEPT !.error = x] EXCEPT !.mounting = y], p, y, x, p.lost, p.run)
  BY <1>10, PaneEdits, Zenon
<1> QED
  BY <1>1, <1>3, <1>4, <1>6, <1>7, <1>9, <1>11, Zenon

(* The effect runs: a machine that is online has a mount on the way. *)
LEMMA EffectKeeps ==
  ASSUME PaneShapes, NEW p, IsPane(p), Effect(p), repair' = repair
  PROVE  DesktopChatInv'
<1> DEFINE unmounts == p.mounted /\ (p.selected \notin onlines' \/ p.inst # {p.selected})
           fresh == [p EXCEPT !.lost = {}, !.run = @ + 1]
           q == IF unmounts THEN [fresh EXCEPT !.mounted = FALSE, !.inst = {}] ELSE fresh
           n == Mount("effect", q)
<1>1. pane' = q /\ mounts' = IF p.selected \in onlines' THEN mounts \cup {n} ELSE mounts
  BY Zenon DEF Effect
<1>2. IsPane(q) /\ q.selected = p.selected
  <2>1. PaneOf(fresh, p, p.mounting, p.error, {}, p.run + 1)
    BY PaneEditsAll, Zenon
  <2> HIDE DEF fresh
  <2>2. IsPane(fresh) /\ fresh.selected = p.selected
    BY <2>1 DEF PaneOf
  <2>3. PaneOf([fresh EXCEPT !.mounted = FALSE, !.inst = {}], fresh,
               fresh.mounting, fresh.error, fresh.lost, fresh.run)
    BY <2>2, PaneEditsAll, Zenon
  <2>4. q = fresh \/ q = [fresh EXCEPT !.mounted = FALSE, !.inst = {}]
    BY Zenon
  <2> HIDE DEF q
  <2> QED
    BY <2>2, <2>3, <2>4 DEF PaneOf
<1> HIDE DEF q
<1>3. IsMount(n) /\ n.by = "effect" /\ n.visit = paneVisit' /\ n.run = q.run
  BY DEF Mount, IsMount
<1> HIDE DEF n
<1>4. PaneShapes'
  BY <1>1, <1>2, <1>3 DEF PaneShapes
<1>5. ShownOrComing'
  <2> SUFFICES ASSUME pane'.selected \in onlines'
               PROVE  \E m \in mounts' : m.by = "effect" /\ m.visit = paneVisit' /\ m.run = pane'.run
    BY DEF ShownOrComing, Latest
  <2> QED
    BY <1>1, <1>2, <1>3
<1> QED
  BY <1>4, <1>5 DEF DesktopChatInv

(* A mount has ended: its page has the webview, or has said or kept why not,  *)
(* unless nobody waits for it.                                                *)
LEMMA MountEnds ==
  ASSUME DesktopChatInv, NEW m \in mounts, NEW ok \in BOOLEAN, MountShows(m, ok),
         UNCHANGED <<onlines, paneVisit>>, webview' \in {webview, "shown"}, ok => webview' = "shown"
  PROVE  DesktopChatInv'
<1> USE DEF DesktopChatInv
<1>1. IsPane(pane) /\ m.by \in {"effect", "repair"}
  BY DEF PaneShapes
<1> DEFINE p == IF ok THEN [pane EXCEPT !.mounted = TRUE, !.inst = {m.for}, !.lost = @ \cap {"noRoom"}]
                ELSE [pane EXCEPT !.lost = IF m.by = "repair" THEN @ \cup {"remount"} ELSE @]
<1>2. /\ IsPane(p) /\ p.selected = pane.selected /\ p.run = pane.run
      /\ p.mounting = pane.mounting /\ p.error = pane.error
      /\ "noRoom" \in pane.lost => "noRoom" \in p.lost
      /\ ~ok => (pane.lost # {} => p.lost # {}) /\ (m.by = "repair" => p.lost # {})
  <2>1. PaneOf([pane EXCEPT !.mounted = TRUE, !.inst = {m.for}, !.lost = @ \cap {"noRoom"}],
               pane, pane.mounting, pane.error, pane.lost \cap {"noRoom"}, pane.run)
    BY <1>1, PaneEditsAll, Zenon
  <2>2. PaneOf([pane EXCEPT !.lost = IF m.by = "repair" THEN @ \cup {"remount"} ELSE @],
               pane, pane.mounting, pane.error,
               IF m.by = "repair" THEN pane.lost \cup {"remount"} ELSE pane.lost, pane.run)
    BY <1>1, PaneEditsAll, Zenon
  <2>3. CASE ok
    <3>1. p = [pane EXCEPT !.mounted = TRUE, !.inst = {m.for}, !.lost = @ \cap {"noRoom"}]
      BY <2>3
    <3> HIDE DEF p
    <3> QED
      BY <2>1, <2>3, <3>1 DEF PaneOf
  <2>4. CASE ~ok
    <3>1. p = [pane EXCEPT !.lost = IF m.by = "repair" THEN @ \cup {"remount"} ELSE @]
      BY <2>4
    <3> HIDE DEF p
    <3> QED
      BY <2>2, <2>4, <3>1 DEF PaneOf
  <2> QED
    BY <2>3, <2>4
<1>3. /\ mounts' = mounts \ {m}
      /\ repair' = IF m.by = "repair" THEN {r \in repair : r.visit # m.visit} ELSE repair
      /\ pane' = IF Cancelled(m) THEN pane
                 ELSE IF m.by = "repair" THEN p ELSE [p EXCEPT !.error = ~ok, !.mounting = FALSE]
  BY DEF MountShows
<1> HIDE DEF p
<1>4. PICK b \in BOOLEAN :
        b = (~ok) /\ PaneOf([p EXCEPT !.error = ~ok, !.mounting = FALSE], p, FALSE, b, p.lost, p.run)
  <2>1. PICK b \in BOOLEAN : b = (~ok)
    BY Zenon
  <2>2. PaneOf([p EXCEPT !.error = b, !.mounting = FALSE], p, FALSE, b, p.lost, p.run)
    BY <1>2, PaneEditsAll, Zenon
  <2> QED
    BY <2>1, <2>2, Zenon
<1>5. /\ IsPane(pane') /\ pane'.selected = pane.selected /\ pane'.run = pane.run
      /\ pane'.mounting => pane.mounting
      /\ "noRoom" \in pane.lost => "noRoom" \in pane'.lost
  <2>1. CASE Cancelled(m)
    BY <1>1, <1>3, <2>1
  <2>2. CASE ~Cancelled(m) /\ m.by = "repair"
    BY <1>2, <1>3, <2>2
  <2>3. CASE ~Cancelled(m) /\ m.by = "effect"
    <3>1. pane' = [p EXCEPT !.error = ~ok, !.mounting = FALSE]
      BY <1>3, <2>3
    <3>2. PaneOf(pane', p, FALSE, b, p.lost, p.run)
      BY <1>4, <3>1, Zenon
    <3> QED
      BY <1>2, <3>2 DEF PaneOf
  <2> QED
    BY <1>1, <2>1, <2>2, <2>3
<1>6. PaneShapes'
  <2>1. repair' \subseteq repair
    BY <1>3
  <2> QED
    BY <1>3, <1>5, <2>1 DEF PaneShapes
(* Of the page that is on show. *)
<1>7. ASSUME Latest(m) PROVE ~pane'.mounting /\ (webview' = "shown" \/ pane'.error)
  <2>1. ~Cancelled(m) /\ m.by = "effect"
    BY <1>7 DEF Latest, Cancelled
  <2>2. pane' = [p EXCEPT !.error = ~ok, !.mounting = FALSE]
    BY <1>3, <2>1
  <2>3. PaneOf(pane', p, FALSE, b, p.lost, p.run)
    BY <1>4, <2>2, Zenon
  <2> QED
    BY <1>4, <2>3 DEF PaneOf
<1>8. ASSUME ~Latest(m) PROVE
        \/ webview' = "shown"
        \/ (pane.error => pane'.error) /\ (pane.lost # {} => pane'.lost # {})
  <2>1. CASE Cancelled(m)
    BY <1>3, <2>1
  <2>2. CASE ~Cancelled(m)
    <3>1. m.by = "repair"
      BY <1>1, <1>8, <2>2 DEF Latest, Cancelled
    <3> QED
      BY <1>2, <1>3, <2>2, <3>1
  <2> QED
    BY <2>1, <2>2
<1>9. ASSUME m.by = "repair", m.visit = paneVisit PROVE webview' = "shown" \/ pane'.lost # {}
  <2>1. ~Cancelled(m)
    BY <1>9 DEF Cancelled
  <2> QED
    BY <1>2, <1>3, <1>9, <2>1
<1>10. ShownOrComing'
  <2> SUFFICES ASSUME paneVisit # 0, pane.selected \in onlines
               PROVE  \/ \E n \in mounts' : n.by = "effect" /\ n.visit = paneVisit /\ n.run = pane'.run
                      \/ /\ \/ webview' = "shown" \/ pane'.error \/ pane'.lost # {}
                            \/ \E r \in repair' : r.visit = paneVisit /\ r.at \in {"pause", "mounts"}
                         /\ pane'.mounting => "noRoom" \in pane'.lost
    BY <1>5 DEF ShownOrComing, Latest, Remounts
  <2>1. CASE Latest(m)
    BY <1>7, <2>1
  <2>2. ASSUME NEW n \in mounts, n # m, Latest(n)
        PROVE  n \in mounts' /\ n.by = "effect" /\ n.visit = paneVisit /\ n.run = pane'.run
    BY <1>3, <1>5, <2>2 DEF Latest
  <2>3. CASE \A n \in mounts : ~Latest(n)
    <3>1. /\ webview = "shown" \/ pane.error \/ pane.lost # {} \/ \E r \in repair : Remounts(r)
          /\ pane.mounting => "noRoom" \in pane.lost
      BY <2>3 DEF ShownOrComing
    <3>2. CASE webview = "shown" \/ pane.error \/ pane.lost # {}
      BY <1>5, <1>8, <2>3, <3>1, <3>2
    <3>3. ASSUME NEW r \in repair, Remounts(r)
          PROVE  r \in repair' \/ (m.by = "repair" /\ m.visit = paneVisit)
      BY <1>3, <3>3 DEF Remounts
    <3> QED
      BY <1>5, <1>9, <3>1, <3>2, <3>3 DEF Remounts
  <2> QED
    BY <2>1, <2>2, <2>3
<1> QED
  BY <1>6, <1>10

LEMMA DesktopChatStep == DesktopChatInv /\ [DesktopChatNext]_deskvars => DesktopChatInv'
<1> SUFFICES ASSUME DesktopChatInv, [DesktopChatNext]_deskvars PROVE DesktopChatInv'
  OBVIOUS
<1> USE DEF DesktopChatInv
<1>1. IsPane(pane)
  BY DEF PaneShapes
<1>2. CASE OpenPane
  <2>1. PICK g \in Gateways : Effect(NewPane(g))
    BY <1>2 DEF OpenPane
  <2>2. IsPane(NewPane(g)) /\ repair' = repair
    BY <1>2 DEF OpenPane, NewPane, IsPane
  <2> QED
    BY <2>1, <2>2, EffectKeeps
<1>3. ASSUME NEW g \in Gateways, SelectInstance(g) PROVE DesktopChatInv'
  <2>1. IsPane([pane EXCEPT !.selected = g])
    BY <1>1 DEF IsPane
  <2> QED
    BY <1>3, <2>1, EffectKeeps DEF SelectInstance
<1>4. ASSUME NEW g \in Gateways, HealthChanges(g) PROVE DesktopChatInv'
  <2>1. CASE paneVisit # 0 /\ pane.selected = g
    BY <1>1, <1>4, <2>1, EffectKeeps DEF HealthChanges
  <2>2. CASE ~(paneVisit # 0 /\ pane.selected = g)
    <3>1. UNCHANGED <<pane, webview, mounts, paneVisit, repair>>
          /\ (paneVisit # 0 => (pane.selected \in onlines <=> pane.selected \in onlines'))
      BY <1>4, <2>2 DEF HealthChanges
    <3> QED
      BY <3>1 DEF PaneShapes, ShownOrComing, Latest, Remounts
  <2> QED
    BY <2>1, <2>2
<1>5. CASE LeavePane
  <2>1. paneVisit' = 0 /\ UNCHANGED <<onlines, pane, mounts>>
        /\ repair' = {IF r.visit = paneVisit THEN [r EXCEPT !.had = pane.mounted] ELSE r : r \in repair}
    BY <1>5 DEF LeavePane
  <2>2. ASSUME NEW r \in repair PROVE IsRepair(r) /\ IsRepair([r EXCEPT !.had = pane.mounted])
    BY DEF PaneShapes, IsRepair
  <2>3. \A s \in repair' : IsRepair(s)
    BY <2>1, <2>2
  <2> QED
    BY <2>1, <2>3 DEF PaneShapes, ShownOrComing
<1>6. CASE Resize
  <2>1. webview' \in {webview, "shown"} /\ UNCHANGED <<onlines, pane, paneVisit, mounts, repair>>
    BY <1>6 DEF Resize
  <2> QED
    BY <2>1 DEF PaneShapes, ShownOrComing, Latest, Remounts
<1>7. CASE HandleRepair
  <2> DEFINE r == [visit |-> paneVisit, for |-> pane.selected, at |-> "asked", had |-> FALSE]
  <2>1. IsRepair(r)
    BY DEF IsRepair
  <2> HIDE DEF r
  <2>2. repair' = repair \cup {r} /\ UNCHANGED <<webview, onlines, pane, paneVisit, mounts>>
    BY <1>7 DEF HandleRepair, r
  <2> QED
    BY <2>1, <2>2 DEF PaneShapes, ShownOrComing, Latest, Remounts
(* A mount goes on, as the same mount. *)
<1>8. ASSUME NEW m \in mounts, NEW at, at \in {"asked", "url"},
             mounts' = (mounts \ {m}) \cup {GoneOn(m, at)}, UNCHANGED <<webview, onlines, paneVisit, repair>>,
             IsPane(pane'), pane'.selected = pane.selected, pane'.run = pane.run,
             pane' = pane \/ Latest(m)
      PROVE  DesktopChatInv'
  <2> DEFINE n == GoneOn(m, at)
  <2>1. IsMount(n) /\ n.by = m.by /\ n.visit = m.visit /\ n.run = m.run /\ n.at = at
    BY GoneOnIs DEF PaneShapes
  <2> HIDE DEF n
  <2>2. mounts' = (mounts \ {m}) \cup {n}
    BY <1>8 DEF n
  <2>3. PaneShapes'
    BY <1>8, <2>1, <2>2 DEF PaneShapes
  <2>4. ShownOrComing'
    <3>1. CASE Latest(m)
      BY <1>8, <2>1, <2>2, <3>1 DEF Latest, ShownOrComing
    <3>2. CASE ~Latest(m)
      BY <1>8, <2>2, <3>2 DEF ShownOrComing, Latest, Remounts
    <3> QED
      BY <3>1, <3>2
  <2> QED
    BY <2>3, <2>4
(* A reason is kept why the chat is not there. *)
<1>9. ASSUME NEW why, pane' = [pane EXCEPT !.lost = @ \cup {why}]
      PROVE  /\ IsPane(pane') /\ pane'.selected = pane.selected /\ pane'.run = pane.run
             /\ pane'.mounting = pane.mounting /\ pane'.error = pane.error
             /\ pane'.lost = pane.lost \cup {why}
  <2>1. PaneOf(pane', pane, pane.mounting, pane.error, pane.lost \cup {why}, pane.run)
    BY <1>1, <1>9, PaneEditsAll, Zenon
  <2> QED
    BY <2>1 DEF PaneOf
<1>10. ASSUME NEW m \in mounts, FrameComes(m) PROVE DesktopChatInv'
  <2>0. m.at = "frame" /\ m.by = "effect" /\ UNCHANGED <<webview, onlines, paneVisit, repair>>
    BY <1>10 DEF FrameComes, PaneShapes
  <2>1. CASE Cancelled(m)
    <3>1. mounts' = mounts \ {m} /\ ~Latest(m) /\ pane' = pane
      BY <1>10, <2>0, <2>1 DEF FrameComes, Cancelled, Latest
    <3> QED
      BY <2>0, <3>1 DEF PaneShapes, ShownOrComing, Latest, Remounts
  <2>2. CASE ~Cancelled(m) /\ mounts' = (mounts \ {m}) \cup {GoneOn(m, "asked")}
             /\ pane' = [pane EXCEPT !.mounting = TRUE, !.error = FALSE]
    <3>0. PaneOf(pane', pane, TRUE, FALSE, pane.lost, pane.run)
      BY <1>1, <2>2, PaneEditsAll, Zenon
    <3>1. IsPane(pane') /\ pane'.selected = pane.selected /\ pane'.run = pane.run
      BY <3>0 DEF PaneOf
    <3>2. Latest(m)
      BY <2>0, <2>2 DEF Cancelled, Latest
    <3> QED
      BY <1>8, <2>0, <2>2, <3>1, <3>2
  <2>3. CASE ~Cancelled(m) /\ mounts' = mounts \ {m} /\ pane' = [pane EXCEPT !.lost = @ \cup {"noRoom"}]
    <3>1. IsPane(pane') /\ pane'.lost = pane.lost \cup {"noRoom"}
      BY <1>9, <2>3, Zenon
    <3> QED
      BY <2>0, <2>3, <3>1 DEF PaneShapes, ShownOrComing
  <2> QED
    BY <1>10, <2>1, <2>2, <2>3 DEF FrameComes, GoneOn
<1>11. ASSUME NEW m \in mounts, MountFails(m) PROVE DesktopChatInv'
  BY <1>11, MountEnds DEF MountFails
<1>12. ASSUME NEW m \in mounts, MountChecks(m) PROVE DesktopChatInv'
  <2>1. CASE webview # "none"
    BY <1>12, <2>1, MountEnds DEF MountChecks
  <2>2. CASE webview = "none"
    <3>1. /\ mounts' = (mounts \ {m}) \cup {GoneOn(m, "url")}
          /\ UNCHANGED <<webview, onlines, pane, paneVisit, repair>>
      BY <1>12, <2>2 DEF MountChecks, GoneOn
    <3> QED
      BY <1>1, <1>8, <3>1
  <2> QED
    BY <2>1, <2>2
<1>13. ASSUME NEW m \in mounts, AddChild(m) PROVE DesktopChatInv'
  BY <1>13, MountEnds DEF AddChild
<1>14. ASSUME NEW r \in repair, RepairUnmounts(r) PROVE DesktopChatInv'
  <2> DEFINE s == GoneOn(r, "pause")
  <2>1. IsRepair(s) /\ s.visit = r.visit /\ s.at = "pause" /\ r.at = "asked"
    BY <1>14, GoneOnIs DEF PaneShapes, RepairUnmounts
  <2>2. repair' = (repair \ {r}) \cup {s} /\ UNCHANGED <<onlines, paneVisit, mounts>>
    BY <1>14 DEF RepairUnmounts, GoneOn
  <2> HIDE DEF s
  <2>3. \A t \in repair : Remounts(t) => t \in repair'
    BY <2>1, <2>2 DEF Remounts
  <2>4. CASE r.visit = paneVisit
    <3>1. pane' = [pane EXCEPT !.mounted = FALSE, !.inst = {}]
      BY <1>14, <2>4 DEF RepairUnmounts
    <3>2. /\ IsPane(pane') /\ pane'.selected = pane.selected /\ pane'.run = pane.run
          /\ pane'.mounting = pane.mounting /\ pane'.lost = pane.lost
      <4>1. PaneOf(pane', pane, pane.mounting, pane.error, pane.lost, pane.run)
        BY <1>1, <3>1, PaneEditsAll, Zenon
      <4> QED
        BY <4>1 DEF PaneOf
    <3> QED
      BY <2>1, <2>2, <2>4, <3>2 DEF PaneShapes, ShownOrComing, Latest, Remounts
  <2>5. CASE r.visit # paneVisit /\ webview = "shown"
    <3>1. pane' = [pane EXCEPT !.lost = @ \cup {"taken"}]
      BY <1>14, <2>5 DEF RepairUnmounts
    <3>2. /\ IsPane(pane') /\ pane'.selected = pane.selected /\ pane'.run = pane.run
          /\ pane'.mounting = pane.mounting /\ pane'.lost = pane.lost \cup {"taken"}
      BY <1>9, <3>1, Zenon
    <3> QED
      BY <2>1, <2>2, <3>2 DEF PaneShapes, ShownOrComing, Latest
  <2>6. CASE r.visit # paneVisit /\ webview # "shown"
    <3>1. pane' = pane
      BY <1>14, <2>6 DEF RepairUnmounts
    <3> QED
      BY <2>1, <2>2, <2>3, <2>6, <3>1 DEF PaneShapes, ShownOrComing, Latest, Remounts
  <2> QED
    BY <2>4, <2>5, <2>6
<1>15. ASSUME NEW r \in repair, RepairAnswers(r) PROVE DesktopChatInv'
  BY <1>15 DEF RepairAnswers, PaneShapes, ShownOrComing, Latest, Remounts
<1>16. ASSUME NEW r \in repair, PauseEnds(r) PROVE DesktopChatInv'
  <2>0. UNCHANGED <<webview, onlines, paneVisit>>
    BY <1>16 DEF PauseEnds
  <2> DEFINE s == GoneOn(r, "mounts")
             n == [Mount("repair", pane) EXCEPT !.for = r.for]
  <2>1. CASE /\ r.visit = paneVisit /\ repair' = (repair \ {r}) \cup {s}
             /\ mounts' = mounts \cup {n} /\ UNCHANGED pane
    <3>1. IsRepair(s) /\ s.visit = r.visit /\ s.at = "mounts"
      BY GoneOnIs DEF PaneShapes
    <3>2. IsMount(n) /\ n.by = "repair" /\ n.at = "asked"
      BY DEF Mount, IsMount
    <3> HIDE DEF s, n
    <3> QED
      BY <2>0, <2>1, <3>1, <3>2 DEF PaneShapes, ShownOrComing, Latest, Remounts
  <2>2. CASE r.visit = paneVisit /\ repair' = repair \ {r} /\ UNCHANGED mounts
             /\ pane' = [pane EXCEPT !.lost = @ \cup {"noRoom"}]
    <3>1. /\ IsPane(pane') /\ pane'.selected = pane.selected /\ pane'.run = pane.run
          /\ pane'.lost = pane.lost \cup {"noRoom"}
      BY <1>9, <2>2, Zenon
    <3> QED
      BY <2>0, <2>2, <3>1 DEF PaneShapes, ShownOrComing, Latest
  <2>3. CASE r.visit # paneVisit /\ repair' = repair \ {r} /\ UNCHANGED <<mounts, pane>>
    BY <2>0, <2>3 DEF PaneShapes, ShownOrComing, Latest, Remounts
  <2> QED
    BY <1>16, <2>1, <2>2, <2>3 DEF PauseEnds, GoneOn
<1>17. CASE UNCHANGED deskvars
  BY <1>17 DEF deskvars, PaneShapes, ShownOrComing, Latest, Remounts
<1> QED
  BY <1>2, <1>3, <1>4, <1>5, <1>6, <1>7, <1>10, <1>11, <1>12, <1>13, <1>14, <1>15, <1>16, <1>17
     DEF DesktopChatNext

LEMMA DesktopChatStarts == DesktopChatInit => DesktopChatInv
<1> SUFFICES ASSUME DesktopChatInit PROVE DesktopChatInv
  OBVIOUS
<1>1. IsPane(pane)
  BY DEF DesktopChatInit, NewPane, IsPane
<1> QED
  BY <1>1 DEF DesktopChatInit, DesktopChatInv, PaneShapes, ShownOrComing

LEMMA DesktopChatHolds == DesktopChatInv => ShownUnlessLost
BY DEF DesktopChatInv, ShownOrComing, ShownUnlessLost, ChatSettled

-----------------------------------------------------------------------------
(* The pages together. *)

PagesInv == ShellInv /\ ModelInv /\ SecInv /\ RouterInv /\ DesktopChatInv

LEMMA PagesParts ==
  [PagesNext]_pagesvars
    => /\ [ShellNext]_shellvars /\ [ModelNext]_modelvars /\ [SecNext]_secvars
       /\ [RouterNext]_routervars /\ [DesktopChatNext]_deskvars
BY DEF PagesNext, pagesvars, Only

LEMMA PagesKeep == PagesSpec => []PagesInv
<1>1. PagesInit => PagesInv
  BY ShellStarts, ModelStarts, SecStarts, RouterStarts, DesktopChatStarts DEF PagesInit, PagesInv
<1>2. PagesInv /\ [PagesNext]_pagesvars => PagesInv'
  BY PagesParts, ShellStep, ModelStep, SecStep, RouterInvInductive, DesktopChatStep DEF PagesInv
<1> QED
  BY <1>1, <1>2, PTL DEF PagesSpec

(* StartupNavigator goes back to the route stored last, and the sidebar says  *)
(* that an update is downloaded for as long as exactly one is, whatever is    *)
(* closed, crashed, restarted or clicked in between.                          *)
THEOREM ShellStaysTrue == PagesSpec => []ShellIsTrue
<1>1. PagesInv => ShellIsTrue
  BY ShellHolds DEF PagesInv
<1> QED
  BY <1>1, PagesKeep, PTL

(* What the pages of the machine show: a spinner of the local models belongs  *)
(* to a handler in flight; once the security page has nothing under way, its  *)
(* banner, its checks and its permissions are those of the machine, unless a  *)
(* change failed half way; the points it shows add up to the score.           *)
THEOREM PanelsStayTrue == PagesSpec => []PanelsAreTrue
<1>1. PagesInv => PanelsAreTrue
  BY ModelHolds, SecHolds, BreakdownIs DEF PagesInv, PanelsAreTrue
<1> QED
  BY <1>1, PagesKeep, PTL

(* Mounts that fail at any call, pages without a size, repairs, picks, visits *)
(* and changes of health: the page of an online machine shows the chat, says  *)
(* that it failed, or lost it in one of the three ways the property names.    *)
THEOREM OnlineStaysShown == PagesSpec => []ShownUnlessLost
<1>1. PagesInv => ShownUnlessLost
  BY DesktopChatHolds DEF PagesInv
<1> QED
  BY <1>1, PagesKeep, PTL
=============================================================================
