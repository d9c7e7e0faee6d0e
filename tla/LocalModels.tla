---------------------------- MODULE LocalModels ----------------------------
(***************************************************************************)
(* The page of the local models (pages/LocalModelPage.tsx) over the Ollama *)
(* commands of the backend (ollama.rs): the status and the models shown,   *)
(* the downloads with their progress events, the default model, and the    *)
(* engine's installation and server.                                       *)
(***************************************************************************)
EXTENDS Naturals, FiniteSets

CONSTANTS Models, MaxModelVisits, MaxModelCalls, MaxPulls   \* the catalog; bounds

VARIABLES
  ollama,    \* what the machine has: installed, running, held, fallbacks
  default,   \* DEFAULT_MODEL_KEY of localStorage, "" when unset
  page,      \* the page: see NewPage
  visit,     \* the visit of the open page, 0 when another is shown
  work,      \* handlers and commands under way
  modelCounts \* what the bounds count

modelvars == <<ollama, default, page, visit, work, modelCounts>>

Unseen == [installed |-> FALSE, running |-> FALSE, known |-> FALSE]
NewPage == [status |-> Unseen, listed |-> {}, pulling |-> [m \in Models |-> "none"],
            default |-> default, installing |-> FALSE, starting |-> FALSE,
            refreshing |-> TRUE, deleting |-> ""]

(* A handler: what it does to which model, and which refresh ends it. *)
Handler(kind, m, at) == [kind |-> kind, model |-> m, at |-> at, visit |-> visit,
                         status |-> Unseen, held |-> {}, wasDefault |-> page.default = m]
Starts(h) == /\ Cardinality(work) < MaxModelCalls /\ h \notin work /\ work' = work \cup {h}
Onto(h, g) == work' = (work \ {h}) \cup g
OnPage(h, p) == page' = IF visit = h.visit THEN p ELSE page

ModelInit ==
  /\ ollama \in [installed : BOOLEAN, running : {FALSE}, held : {{}}, fallbacks : {{}}]
  /\ default = "" /\ visit = 0 /\ work = {} /\ page = [NewPage EXCEPT !.refreshing = FALSE]
  /\ modelCounts = [visits |-> 0, pulls |-> 0]

-----------------------------------------------------------------------------
OpenModels ==
  /\ visit = 0 /\ modelCounts.visits < MaxModelVisits /\ Cardinality(work) < MaxModelCalls
  /\ modelCounts' = [modelCounts EXCEPT !.visits = @ + 1]
  /\ visit' = modelCounts'.visits /\ page' = NewPage
  /\ work' = work \cup {[Handler("refresh", "", "asks") EXCEPT !.visit = visit']}
  /\ UNCHANGED <<ollama, default>>

LeaveModels == visit # 0 /\ visit' = 0 /\ UNCHANGED <<ollama, default, page, work, modelCounts>>

(* The handlers of the buttons, each offered as the page shows it. *)
Refresh ==
  /\ visit # 0 /\ ~page.refreshing /\ page' = [page EXCEPT !.refreshing = TRUE]
  /\ Starts(Handler("refresh", "", "asks")) /\ UNCHANGED <<ollama, default, visit, modelCounts>>

HandleInstall ==
  /\ visit # 0 /\ page.status.known /\ ~page.status.installed /\ ~page.installing
  /\ page' = [page EXCEPT !.installing = TRUE]
  /\ Starts(Handler("install", "", "works")) /\ UNCHANGED <<ollama, default, visit, modelCounts>>

HandleStartServer ==
  /\ visit # 0 /\ page.status.installed /\ ~page.status.running /\ ~page.starting
  /\ page' = [page EXCEPT !.starting = TRUE]
  /\ Starts(Handler("start", "", "works")) /\ UNCHANGED <<ollama, default, visit, modelCounts>>

HandlePull(m) ==
  /\ visit # 0 /\ page.status.installed /\ m \notin page.listed /\ page.pulling[m] # "pulling"
  /\ modelCounts.pulls < MaxPulls /\ modelCounts' = [modelCounts EXCEPT !.pulls = @ + 1]
  /\ page' = [page EXCEPT !.pulling[m] = "pulling"]
  /\ Starts([Handler("pull", m, "works") EXCEPT !.wasDefault = FALSE])
  /\ UNCHANGED <<ollama, default, visit>>

HandleDelete(m) ==
  /\ visit # 0 /\ m \in page.listed /\ page.deleting # m
  /\ page' = [page EXCEPT !.deleting = m]
  /\ Starts(Handler("delete", m, "works")) /\ UNCHANGED <<ollama, default, visit, modelCounts>>

(* The fallback chain of openclaw is told in the background.                  *)
HandleSetDefault(m) ==
  /\ visit # 0 /\ m \in page.listed /\ page.default # m
  /\ page' = [page EXCEPT !.default = m] /\ default' = m
  /\ Starts([Handler("set", m, "works") EXCEPT !.wasDefault = FALSE])
  /\ UNCHANGED <<ollama, visit, modelCounts>>

-----------------------------------------------------------------------------
(* The commands of the backend. *)

ServerStarts == ollama.installed /\ ollama' = [ollama EXCEPT !.running = TRUE]

Installs(h) ==
  /\ h.kind = "install" /\ h.at = "works"
  /\ \/ /\ ollama' = [ollama EXCEPT !.installed = TRUE] /\ Onto(h, {[h EXCEPT !.at = "asks"]})
        /\ OnPage(h, [page EXCEPT !.refreshing = TRUE])
     \/ Onto(h, {}) /\ OnPage(h, [page EXCEPT !.installing = FALSE]) /\ UNCHANGED ollama
  /\ UNCHANGED <<default, visit, modelCounts>>

StartsServer(h) ==
  /\ h.kind = "start" /\ h.at = "works" /\ Onto(h, {[h EXCEPT !.at = "asks"]})
  /\ OnPage(h, [page EXCEPT !.refreshing = TRUE])
  /\ ServerStarts \/ UNCHANGED ollama
  /\ UNCHANGED <<default, visit, modelCounts>>

Deletes(h) ==
  /\ h.kind = "delete" /\ h.at = "works" /\ Onto(h, {[h EXCEPT !.at = "asks"]})
  /\ \/ ollama.running /\ ollama' = [ollama EXCEPT !.held = @ \ {h.model}]
     \/ UNCHANGED ollama
  /\ IF h.wasDefault THEN default' = "" /\ OnPage(h, [page EXCEPT !.default = ""])
                     ELSE UNCHANGED <<default, page>>
  /\ UNCHANGED <<visit, modelCounts>>

SetOllamaModel(h) ==
  /\ h.kind = "set" /\ Onto(h, {})
  /\ ollama' = [ollama EXCEPT !.fallbacks = @ \cup {h.model}] \/ UNCHANGED ollama
  /\ UNCHANGED <<default, page, visit, modelCounts>>

(* ollama_pull_model: the server is started first, every end but the close of *)
(* the stream is an event, and an event reaches the page that is open.        *)
PullBegins(h) ==
  /\ h.kind = "pull" /\ h.at = "works"
  /\ (ollama.running /\ UNCHANGED ollama) \/ ServerStarts
  /\ Onto(h, {[h EXCEPT !.at = "streams"]})
  /\ UNCHANGED <<default, page, visit, modelCounts>>

PullProgress(h) ==
  /\ h.kind = "pull" /\ visit # 0
  /\ page' = [page EXCEPT !.pulling[h.model] = "pulling"]
  /\ UNCHANGED <<ollama, default, visit, work, modelCounts>>

PullFails(h) ==
  /\ h.kind = "pull" /\ Onto(h, {})
  /\ page' = IF visit # 0 THEN [page EXCEPT !.pulling[h.model] = "failed"] ELSE page
  /\ UNCHANGED <<ollama, default, visit, modelCounts>>

(* The event of the success refreshes the page and makes the model the        *)
(* default when none is.                                                      *)
PullSucceeds(h) ==
  /\ h.kind = "pull" /\ h.at = "streams"
  /\ ollama' = [ollama EXCEPT !.held = @ \cup {h.model}]
  /\ LET takes == visit # 0 /\ default = ""
     IN  /\ default' = IF takes THEN h.model ELSE default
         /\ page' = IF visit = 0 THEN page ELSE
              [page EXCEPT !.pulling[h.model] = "done", !.default = default']
         /\ Onto(h, (IF visit # 0 THEN {Handler("refresh", "", "asks")} ELSE {}) \cup
                    (IF takes THEN {[Handler("set", h.model, "works") EXCEPT !.wasDefault = FALSE]} ELSE {}))
  /\ UNCHANGED <<visit, modelCounts>>

PullStreamCloses(h) ==
  /\ h.kind = "pull" /\ h.at = "streams" /\ Onto(h, {})
  /\ ollama' \in {ollama, [ollama EXCEPT !.held = @ \cup {h.model}]}
  /\ UNCHANGED <<default, page, visit, modelCounts>>

(* refresh: the status and the list are asked together and shown together.    *)
RefreshAsks(h) ==
  /\ h.at = "asks"
  /\ Onto(h, {[h EXCEPT !.at = "shows",
                        !.status = [installed |-> ollama.installed, running |-> ollama.running, known |-> TRUE],
                        !.held = IF ollama.running THEN ollama.held ELSE {}]})
  /\ UNCHANGED <<ollama, default, page, visit, modelCounts>>


RefreshShows(h) ==
  /\ h.at = "shows" /\ Onto(h, {})
  /\ OnPage(h, [page EXCEPT !.status = h.status, !.listed = h.held, !.refreshing = FALSE,
                            !.installing = @ /\ h.kind # "install", !.starting = @ /\ h.kind # "start",
                            !.deleting = IF h.kind = "delete" THEN "" ELSE @])
  /\ UNCHANGED <<ollama, default, visit, modelCounts>>

ModelNext ==
  \/ OpenModels \/ LeaveModels \/ Refresh \/ HandleInstall \/ HandleStartServer
  \/ \E m \in Models : HandlePull(m) \/ HandleDelete(m) \/ HandleSetDefault(m)
  \/ \E h \in work :
       \/ Installs(h) \/ StartsServer(h) \/ Deletes(h) \/ SetOllamaModel(h)
       \/ PullBegins(h) \/ PullProgress(h) \/ PullFails(h) \/ PullSucceeds(h) \/ PullStreamCloses(h)
       \/ RefreshAsks(h) \/ RefreshShows(h)

ModelSpec == ModelInit /\ [][ModelNext]_modelvars

-----------------------------------------------------------------------------
(* A button of the page that waits has a handler of this visit to wait for:   *)
(* overlapping deletions and refreshes never leave it waiting for good.       *)
WaitingIsInFlight ==
  visit # 0 =>
    /\ page.deleting # "" => \E h \in work : h.kind = "delete" /\ h.model = page.deleting /\ h.visit = visit
    /\ page.installing => \E h \in work : h.kind = "install" /\ h.visit = visit
    /\ page.starting => \E h \in work : h.kind = "start" /\ h.visit = visit
    /\ page.refreshing => \E h \in work : h.at \in {"asks", "shows"} /\ h.visit = visit

(* A download shown as running is one.                                        *)
PullingIsInFlight ==
  visit # 0 => \A m \in Models : page.pulling[m] = "pulling" => \E h \in work : h.kind = "pull" /\ h.model = m
=============================================================================
