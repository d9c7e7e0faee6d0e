---------------------------- MODULE DesktopShell ---------------------------
(***************************************************************************)
(* The shell of the desktop application: routes, the route restored at the *)
(* start and the error boundary (App.tsx), the sidebar with its update     *)
(* button and dialog (components/Sidebar.tsx) over the updater store       *)
(* (store/updater.ts), and the settings that govern them (SettingsPage.tsx *)
(* with the shared ToggleRow and LangSelector).                            *)
(***************************************************************************)
EXTENDS Naturals

CONSTANTS Routes,              \* routes besides "home" and "settings"
          Langs, Levels,       \* languages and security presets offered
          MaxLaunches, MaxMoves \* bounds: starts of the application, navigations in one

VARIABLES
  prefs,     \* localStorage: pin, mode, preset, lang, last
  app,       \* running, path, the navigation asked at the start, expected route, launches, moves
  boundary,  \* the error boundary shows an error
  settings,  \* the settings page: tab, chosen language
  updater,   \* the updater store: status, handle
  flights,   \* the check and the downloads under way
  dialog     \* the update dialog was asked for

shellvars == <<prefs, app, boundary, settings, updater, flights, dialog>>

AllRoutes == Routes \cup {"home", "settings"}
NoFlights == [check |-> "none", downloads |-> 0]

(* checkForUpdate is refused during a check or a download. *)
ChecksWhileDownloading == updater.status # "checking"     \* mutant
MayCheck == updater.status \notin {"checking", "downloading"}

(* main: initAutoUpdater checks at once; the first effects of the navigator   *)
(* ask for the last route unless home is pinned, then persist the route.      *)
(* What is expected is the route the application was closed on.               *)
Restored(route) == IF prefs.pin \/ route = "settings" THEN "home" ELSE route

StartupNavigator ==
  /\ app' = [running |-> TRUE, path |-> "home", asked |-> Restored(prefs.last),
             expected |-> Restored(app.path), launches |-> app.launches + 1, moves |-> 0]
  /\ prefs' = [prefs EXCEPT !.last = "home"]

Launch ==
  /\ ~app.running /\ app.launches < MaxLaunches /\ StartupNavigator
  /\ boundary' = FALSE /\ settings' = [tab |-> "general", lang |-> prefs.lang]
  /\ updater' = [status |-> "checking", handle |-> FALSE] /\ dialog' = FALSE
  /\ flights' = [check |-> "startup", downloads |-> 0]

ShellInit ==
  /\ prefs \in [pin : {TRUE}, mode : {"prompt"}, preset : {"medium"}, lang : Langs, last : {"home"}]
  /\ app = [running |-> FALSE, path |-> "home", asked |-> "home", expected |-> "home", launches |-> 0, moves |-> 0]
  /\ boundary = FALSE /\ settings = [tab |-> "general", lang |-> prefs.lang]
  /\ updater = [status |-> "idle", handle |-> FALSE] /\ flights = NoFlights /\ dialog = FALSE

Close ==
  /\ app.running /\ app' = [app EXCEPT !.running = FALSE] /\ flights' = NoFlights
  /\ UNCHANGED <<prefs, boundary, settings, updater, dialog>>

-----------------------------------------------------------------------------
(* Routes.  The dialog covers the window. *)

Reachable == app.running /\ ~(dialog /\ updater.status = "available")

(* The route that was asked for is rendered, and persisted. *)
Redirect ==
  /\ app.running /\ app.asked # app.path /\ app.moves = 0
  /\ app' = [app EXCEPT !.path = app.asked] /\ prefs' = [prefs EXCEPT !.last = app.asked]
  /\ UNCHANGED <<boundary, settings, updater, flights, dialog>>

(* A click of the sidebar. *)
NavItem(r) ==
  /\ Reachable /\ (app.asked = app.path \/ app.moves > 0)
  /\ r # app.path /\ app.moves < MaxMoves
  /\ app' = [app EXCEPT !.path = r, !.moves = @ + 1] /\ prefs' = [prefs EXCEPT !.last = r]
  /\ settings' = [tab |-> "general", lang |-> prefs.lang]
  /\ UNCHANGED <<boundary, updater, flights, dialog>>

(* A page throws while it is rendered; Retry renders the routes again.        *)
PageCrashes ==
  /\ app.running /\ ~boundary /\ boundary' = TRUE
  /\ UNCHANGED <<prefs, app, settings, updater, flights, dialog>>

RetryPage ==
  /\ Reachable /\ boundary /\ boundary' = FALSE
  /\ settings' = [tab |-> "general", lang |-> prefs.lang]
  /\ UNCHANGED <<prefs, app, updater, flights, dialog>>

Shown == IF boundary THEN "error" ELSE app.path

-----------------------------------------------------------------------------
(* The settings page. *)

OnTab(tab) == Reachable /\ Shown = "settings" /\ settings.tab = tab

SelectTab(tab) ==
  /\ Reachable /\ Shown = "settings" /\ settings.tab # tab
  /\ settings' = [tab |-> tab, lang |-> prefs.lang]
  /\ UNCHANGED <<prefs, app, boundary, updater, flights, dialog>>

Prefers(p) == prefs' = p /\ UNCHANGED <<app, boundary, settings, updater, flights, dialog>>

TogglePin == OnTab("general") /\ Prefers([prefs EXCEPT !.pin = ~@])
HandleChange(m) == OnTab("general") /\ prefs.mode # m /\ Prefers([prefs EXCEPT !.mode = m])
HandleSelectPreset(l) == OnTab("security") /\ prefs.preset # l /\ Prefers([prefs EXCEPT !.preset = l])
HandleSave == OnTab("general") /\ prefs.lang # settings.lang /\ Prefers([prefs EXCEPT !.lang = settings.lang])

HandleSelect(code) ==
  /\ OnTab("general") /\ settings.lang # code /\ settings' = [settings EXCEPT !.lang = code]
  /\ UNCHANGED <<prefs, app, boundary, updater, flights, dialog>>

-----------------------------------------------------------------------------
(* The updater. *)

CheckForUpdate ==
  /\ OnTab("general") /\ MayCheck
  /\ updater' = [updater EXCEPT !.status = "checking"] /\ flights' = [flights EXCEPT !.check = "user"]
  /\ UNCHANGED <<prefs, app, boundary, settings, dialog>>

(* check(): the check of the start goes on to download in the mode "auto",    *)
(* the dialog is asked for in the mode "prompt".                              *)
CheckFinds ==
  /\ flights.check # "none"
  /\ LET auto == flights.check = "startup" /\ prefs.mode = "auto"
     IN  /\ updater' = [status |-> IF auto THEN "downloading" ELSE "available", handle |-> TRUE]
         /\ flights' = [check |-> "none", downloads |-> flights.downloads + IF auto THEN 1 ELSE 0]
  /\ dialog' = (dialog \/ prefs.mode = "prompt")
  /\ UNCHANGED <<prefs, app, boundary, settings>>

CheckEndsWithout ==
  /\ flights.check # "none" /\ flights' = [flights EXCEPT !.check = "none"]
  /\ \E status \in {"idle", "error"} : updater' = [updater EXCEPT !.status = status]
  /\ UNCHANGED <<prefs, app, boundary, settings, dialog>>

(* The button downloads in the mode "auto" and opens the dialog in the other, *)
(* whose button downloads.                                                    *)
OpenDialog ==
  /\ app.running /\ updater.status = "available" /\ prefs.mode = "prompt" /\ ~dialog /\ dialog' = TRUE
  /\ UNCHANGED <<prefs, app, boundary, settings, updater, flights>>

Later == app.running /\ updater.status = "available" /\ dialog /\ dialog' = FALSE
         /\ UNCHANGED <<prefs, app, boundary, settings, updater, flights>>

DownloadAndInstall ==
  /\ app.running /\ updater.status = "available" /\ updater.handle
  /\ dialog \/ prefs.mode = "auto"
  /\ updater' = [updater EXCEPT !.status = "downloading"] /\ dialog' = FALSE
  /\ flights' = [flights EXCEPT !.downloads = @ + 1]
  /\ UNCHANGED <<prefs, app, boundary, settings>>

DownloadEnds ==
  /\ flights.downloads > 0 /\ flights' = [flights EXCEPT !.downloads = @ - 1]
  /\ \E status \in {"ready", "error"} : updater' = [updater EXCEPT !.status = status]
  /\ UNCHANGED <<prefs, app, boundary, settings, dialog>>

(* relaunch *)
Restart == updater.status = "ready" /\ Close

ShellNext ==
  \/ Launch \/ Close \/ Redirect \/ PageCrashes \/ RetryPage \/ TogglePin \/ HandleSave
  \/ \E r \in AllRoutes : NavItem(r)
  \/ \E tab \in {"general", "security", "storage", "about"} : SelectTab(tab)
  \/ \E m \in {"auto", "prompt"} : HandleChange(m)
  \/ \E l \in Levels : HandleSelectPreset(l)
  \/ \E code \in Langs : HandleSelect(code)
  \/ CheckForUpdate \/ CheckFinds \/ CheckEndsWithout \/ OpenDialog \/ Later
  \/ DownloadAndInstall \/ DownloadEnds \/ Restart

ShellSpec == ShellInit /\ [][ShellNext]_shellvars

-----------------------------------------------------------------------------
(* One download at most runs, and the sidebar says so for as long as it does: *)
(* no check and no other download covers it.                                  *)
DownloadIsShown == app.running => (flights.downloads = IF updater.status = "downloading" THEN 1 ELSE 0)

(* An application that does not start at home shows the route it was closed   *)
(* on once its start is over.                                                 *)
RestoresLast ==
  app.running /\ app.moves = 0 /\ app.asked = app.path => app.path = app.expected

(* What the boundary promises: the crash of a page leaves the other pages.    *)
CrashIsLocal == [][app'.running /\ app'.path # app.path => Shown' # "error"]_shellvars
=============================================================================
