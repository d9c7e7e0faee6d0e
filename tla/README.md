# ClawNo.11 in TLA+

ClawNo.11 is a Tauri console for an OpenClaw gateway: a desktop application (Rust back end, React pages), a phone
application that talks to the desktop over the LAN, and a Rust crate and a TypeScript package that both share. This
directory holds TLA+ models of its back end and of its pages, the TLC configurations that check them on small
instances, and TLAPS proofs about them. `PROJECT.json` lists the parts of the system, the runs, the mutants (a
plausible bug per property that the run must notice), the source lines every definition stands for, the hazards and
the theorems.

To check a module: `tlc -config ChatProxy.cfg MCChatProxy.tla`. To check its proofs: `tlapm ChatProxyProofs.tla`.

## 1. Inventory

Paths are below `src/`; `C` = `crates/clawno-core/src`, `D` = `apps/desktop/src-tauri/src`,
`M` = `apps/mobile/src-tauri/src`, `P` = `packages/shared/src`, `DP` = `apps/desktop/src/pages`,
`MP` = `apps/mobile/src/pages`. Parts without a module are not modelled yet or at all; `PROJECT.json` says which and
why.

| Part | State it keeps | Operations | What is hard | What makes it correct | Module |
|---|---|---|---|---|---|
| WebSocket client `C/ws_chat.rs` | one `Mutex<Option<ActiveConn>>`, the frames on the socket | `connect`, `chat_full`, `chat_full_streaming`, `disconnect`, `is_connected` | the mutex is released between look and use; one retry; frames carry no run id; a caller may be dropped at any await | one reader per socket, no text of an answered request on it, a call returns once its gateway falls silent | `WsClient` |
| Chat proxy `D/chat_proxy.rs` | the slot `WS_CLIENT`, audit events | `chat_handler`, `get_ws_client`, streaming and collected answers | two mutexes, replacement of the client under others, callers that hang up | the lock order, paired audit events, a request ends if its gateway does not hold it | `ChatProxy` |
| Chat engine `P/chat/useChatEngine.ts`, `M/chat.rs` | refs shared by all turns, listeners, cancel map, history rows | `send`, `stop`, `clear`, `loadSession`, `stream_chat`, `stop_chat_stream` | continuations of turns that are over, listeners that stay, buttons between two awaits | one turn in flight, what was shown is handed to the history, the page can always send again | `ChatEngine` |
| Chat pages `MP/ChatPage.tsx`, `DP/ChatPage.tsx` | the machine selected, the proxy found, polls; a child webview | select, send, reconnect, repair; mount, hide, repair | answers about a machine that was left; an effect and a repair that mount the same webview | the page finds back to a machine that answers; an online machine is shown, or its page says why not | `PhoneChat`, `DesktopChat` |
| Remote sessions `apps/desktop/src/store/remoteSessions.ts` | sessions built from audit events | event handlers | order of events of different requests | a session shows each exchange once | |
| Pairing `D/pairing.rs` | the active token with its PIN, `used` and port; one verify server per generation | `generate_pair_qr`, `verify_pair_token`, the server loop | two generations at once, several servers over one token, expiry, a silent phone | one use per token, only while it is the latest; no peer but a silent one holds the server | `Pairing` |
| Deploy executor `D/deploy/{executor,watchdog,diagnosis}.rs` | a child process, a killed flag, npm's strict-ssl | strategy chain, retries, watchdog | kill racing with completion, fixes that must be undone | success only if verified, settings restored | `NodeStep`, `Watchdog` |
| Gateway and pm2 `D/{gateway,pm2}.rs` | pm2's entry `openclaw`, the port, `~/.openclaw` and its backup | start with self-healing rounds, stop, restart, stop at exit | every subprocess may fail unnoticed; two starts, a stop and the end of the application meet between them | ready means the gateway as far as `kill -9` goes, the user's configuration survives, only a hanging subprocess holds a start | `Gateway` |
| Deploy pages `DP/deploy`, `MP/DeployPage.tsx` | the step list, the running flag, the instance list, secrets of a remote host | deploy, stop, retry, single steps, scans; test, deploy, kill | a handler goes on when its page is left, a second visit starts another | the page is busy exactly while its handler runs; online means started; a secret follows a deployment | `DeployPage`, `PhoneDeploy` |
| Instances and connection `DP/InstancesPage.tsx`, `MP/{InstancesPage,ConnectPage}.tsx` | the list with health and tokens | add, probe, discover, start, stop, delete | answers for an instance that was deleted or moved | a deleted instance stays deleted, health follows the gateway | `PhoneServers`, `DesktopServers` |
| MCP registry `P/stores/mcpStore.ts`, `P/components/mcp` | server and audit rows, the page's copy | add, scan, toggle, delete | toggle or delete during a scan, which stores in two statements | danger is switched off, deletion is final | `McpServers` |
| Token log, pricing, budget `P/stores/token*.ts`, `P/components/token` | records, summaries, prices, budgets | record, summarise, purge; edit prices and budgets | summaries are never cancelled; names are matched by inclusion; purges of three lengths | the summary of the tab on show comes back; a purge spares what it counts; rows, total and warning agree | `TokenUsage`, `TokenCosts` |
| AI providers and keys `P/components/ai`, `P/stores/{aiVerify,providerStore}.ts` | keys, marks, forms | submit, verify, load, wipe | a probe that answers for a key that was replaced or wiped | a form is locked exactly while it is verified | `AiKeys` |
| Local models `DP/LocalModelPage.tsx`, `D/ollama.rs` | what Ollama holds, the downloads, the default | install, start, pull, delete, set default | events and refreshes that overlap | nothing waits for good | `LocalModels` |
| Desktop shell `App.tsx`, `Sidebar.tsx`, `store/updater.ts`, settings | the route, preferences, the updater | navigate, restart, check, download | three callers of one updater; the order of start-up effects | one download at a time and it is shown | `DesktopShell` |
| Security page and firewall `DP/security`, `D/security/firewall.rs` | firewall rules, the stored mode, approvals, the report | kill, restore, modes, fixes, patterns, scan | four controls change the same rules; several commands, each may fail | what the page says is so | `SecurityPanels` |
| Model router `P/modelRouter.ts`, `P/components/router` | rules with priorities, the page's cards | add, edit, move, delete | a move is two writes | the order stays total | `ModelRouter` |
| Bots `D/bots` | a task handle and a stop flag per bot | start, stop, poll | stop while a poll is under way | at most one loop per bot | |
| SSH deployment `C/ssh.rs` | known hosts, the session | trust, connect, deploy | a changed key | no command before trust | |
| Secure store `C/secure_store.rs` | a key in the keychain or a file, an encrypted map | get, set, delete | two writers, fallback | what was set is read | |
| Node installation `D/node` | files on disk | mirrors, installers, npm | failures in the middle | an install is complete or absent | |
| RAG, prompt library, PII filter, version parsing, WeChat, connectors, web site | SQLite rows, or none | small stores, pure functions, wrappers | boundaries | results agree with their definitions | |

How they interact on the path that matters most: the phone's page calls `send` of the chat engine; its Rust side posts
to the desktop's chat proxy; the proxy takes the shared WebSocket client out of its slot (or creates one) and calls the
gateway; text comes back as WebSocket frames, server-sent events, Tauri events and finally rows of the chat history,
while the desktop's window follows the exchange through `remote-chat-request` and `remote-chat-done`. Every hop can be
given up independently of the next one. The pages interact with the back end by commands that they await: a page that
is left drops what its handlers would set, while the handlers, and what they do to stores and to the machine, go on.
These two facts are where the hazards listed in `PROJECT.json` come from.

## 2. Modules

| Module | Models | Run (cfg) | Proofs |
|---|---|---|---|
| `WsClient` | `OpenClawWs` under several tasks, a gateway that may do anything, sockets that break | `ws_client` (`WsClient.cfg`, through `MCWsClient`) | `WsClientProofs` |
| `ChatService` | what the proxy promises its callers, without sockets, locks or retries | the property `ImplementsService` of `ChatProxy` | its safety part in `ChatProxyProofs` |
| `ChatProxy` | `chat_proxy.rs` composed with `WsClient` (it EXTENDS it and adds its own await points) | `chat_proxy`, `sessions_isolated` (through `MCChatProxy`) | `ChatProxyProofs` |
| `ChatEngine` | `useChatEngine` with `stream_chat` and `stop_chat_stream` | `chat_engine`, `stored_once` | `ChatEngineProofs` |
| `OneShotToken` | what pairing promises: a token offered once and accepted at most once | the property `ImplementsOneShot` of `Pairing` | `CommandsProofs` |
| `Pairing` | generations of a QR code, their verify servers, the verify command, phones | `commands` (through `MCCommands`) | `CommandsProofs` |
| `NodeStep` | `deploy_step_check_node`: the strategy chain, diagnosis, remedies | `commands` | `CommandsProofs` |
| `Watchdog` | `run_with_watchdog` | `commands`, `exit_is_reported` | `CommandsProofs` |
| `Gateway` | `deploy_step_start` against pm2 and the other commands | `commands`, `no_orphan` | `GatewayProofs` |
| `DeployPage` | the desktop's deploy page and its hook `useDeployState` | `deploy_pages` (through `MCDeployPages`) | `DeployPagesProofs` |
| `PhoneDeploy` | the phone's deployment over SSH with its kill switch | `deploy_pages` | `DeployPagesProofs` |
| `PhoneServers` | the phone's pages that test, add, probe and delete instances | `deploy_pages` | `DeployPagesProofs` |
| `DesktopServers` | the desktop's instance cards and their health checks | `deploy_pages` | `DeployPagesProofs` |
| `McpServers` | the MCP store and its page | `registry_pages` (through `MCRegistryPages`) | `RegistryPagesProofs` |
| `TokenUsage` | the token log, its summaries and its page in time | `registry_pages` | `RegistryPagesProofs` |
| `TokenCosts` | budgets and prices, the forms that edit them and the sections that judge by them | `registry_pages` | `RegistryPagesProofs` |
| `AiKeys` | keys of model providers: forms, probes, loads, the wipe | `registry_pages` | `RegistryPagesProofs` |
| `LocalModels` | the page of the Ollama models with the commands under it | `shell_pages` (through `MCShellPages`) | `ShellPagesProofs` |
| `DesktopShell` | routes, preferences, the error boundary and the updater | `shell_pages` | `ShellPagesProofs` |
| `SecurityPanels` | the security page over the firewall and scan commands | `shell_pages`, `failed_changes_nothing` | `ShellPagesProofs` |
| `ModelRouter` | the routing rules and the page that edits them | `shell_pages` | `ShellPagesProofs` |
| `PhoneChat` | the phone's chat page around the engine | `shell_pages` | |
| `DesktopChat` | the desktop's chat in a child webview | `shell_pages` | `ShellPagesProofs` |

The action of a module is what its code does between two points at which somebody else may act: two awaits of a Rust
task (`WsClient`, `ChatProxy`, `Pairing`, `Watchdog`), two awaits of the JavaScript thread (`ChatEngine` and all page
modules), two subprocesses (`Gateway`). `NodeStep` is sequential: its actions are the attempts of an installer.

Parts that share no state are checked in groups. `MCCommands`, `MCDeployPages`, `MCRegistryPages` and `MCShellPages`
EXTEND the modules of a group and add a variable `which` that says which of them runs: the others stay in one initial
state. This is no composition and claims none; the state space of a group is the disjoint union of its parts'. A
property of a group is one of a part, or the conjunction of the parts' properties that ask the same question
(`BusyIsInFlight`, `PagesEnd`, `PanelsAreTrue`, `CommandsEnd`, ...), each defined in its own module.

### WsClient

| State | In the code |
|---|---|
| `pc[r]` | the await point of a task in `chat_streaming`: `ensure` (ensure_connected takes the mutex), `connect`/`dial`, `send` (chat_streaming_inner takes it again), `sending` (the frame is on its way out), `collect`, `reset` (`*guard = None` of the retry), `reconnect`/`redial`, `returned` |
| `conn[c]`, `lock[c]` | `conn: Mutex<Option<ActiveConn>>` and the task that owns the mutex across an await |
| `inbox[c]`, `feed[c]` | the frames on the socket and the runs the gateway is still answering on it |
| `parts[r]`, `shown[r]` | `text_parts` of the collection and everything `on_delta` was given, each by the run it came from |
| `outcome[r]` | the result of `chat_streaming`, by the prefix of the error string the callers test |

`Lost` and `Kept` are the errors after which the option is emptied and those after which the connection stays. The
gateway (`Outside`) sends any frame of any run it is working on, in order, or nothing; it also sends *notes*, the
frames the client reads and ignores (ticks, presence, acknowledgements, frames of other runs), as many as it likes:
each of them starts the idle timeout again (`ws_chat.rs:622`). A socket breaks up to `MaxBreaks` times. `Drop` is a
future dropped at an await, with its guards.

### ChatProxy and ChatService

`slot`/`slotLock` are `WS_CLIENT`; `TakeSlot`, `Probe`, `CreateDone`, `CreateFails`, `Store` are `get_ws_client` from
await to await, `Answer` and `Evict` the ends of both kinds of answer, `audit` the events the desktop's window gets,
`http` what the caller was sent. `Probe` calls `is_connected`, which waits for the connection's mutex while the slot's
mutex is held. `HangUp` is a caller that goes away: hyper drops the handler's future, except that a streamed answer is
in a task of its own. The refinement maps `pc`, `audit` and `outcome` to the phase of a request (`PhaseOf`) and the
runs in `shown` to the requests they belong to.

### ChatEngine

A turn is one accepted `send`. `pc[t]` is where its continuation waits (`create`: createSession, `listen`, `streaming`,
`saving`: addMessage in the chat-done handler; `tornSaving` and `torn` are turns that were aborted during that save).
`isSending`, `cancel`, `controller`, `activeReq` are the refs all turns share; `armed`, `aborted`, `listening` belong to
the closure of one turn and outlive it. `loads` are the unfinished `loadMessages` of the mount effect and of
`loadSession`. `backend`, `stops`, `mail` are the Rust side: the state of `stream_chat`, the `stop_chat_stream` calls
on their way, the events emitted and not delivered. `stored` and `refused` say how the `addMessage` calls of a turn
settled (`AddMessage`): the row is in the history, or the database refused it, which is only logged.

### NodeStep and Watchdog

`NodeStep`: `at` is the strategy, `pc` the pass (`try`, `retry` after a remedy, `pass2`), `node`/`npm`/`strict` the
machine. `Execute` lets an installer leave Node and npm there or not, whatever it then reports. `Policy` is
`retry_policy`, from the category `classify` finds; the words a category is recognised by are left out.

`Watchdog`: `shell`, `exit`, `kin` are the command and its processes, `unread` the pipe, `reader` the reader tasks,
`quiet` the age of `last_activity`, `dog` and `main` the watchdog task and the caller. `Look`, `CheckChildren`, `Flag`
and `Kill` are the watchdog's steps in the order of the code; `abort()` reaches the task in its sleep only.

### Pairing and OneShotToken

`Store` and `SetPort` are the two places where `generate_pair_qr_inner` takes the lock, `Serve` the server it starts
between them. `srv[g]` is the loop of one server (`accept`, `read`, `closed`), `deadline[g]` what is left of its
`timeout_at`, `expires[g]` what is left of the token. `Valid` and `Consume` are the test and the update both the server
and the command make under the lock. The body of a request may be missing (`Seen`), as reading stops at the header's
end. The refinement maps `active.token`, the generations that stored a token, those whose time is over and those
accepted to the four variables of `OneShotToken`.

### Gateway

`todo[t]` is the list of operations a start has still to do before it waits (`Boot`, or the `Remedy` of a diagnosis),
each of them one or more subprocesses; `round` and `stage` are the loop around them. `port`, `entry`, `config`,
`backup` are the world: who listens, pm2's entry, `~/.openclaw` and `~/.openclaw.bak`. Every `pm2` call may fail
without being noticed (`Idle`), any subprocess may never return (`Hangs`), a `kill -9` may leave the occupant of the
port alive (`spared` holds the calls to which that happened); `Listens` and `Crashes` are the gateway's own moves,
`KillClients` is `kill -9` of everybody `lsof` names, the application included when it is connected.

### The pages

The page modules share one form. A *visit* is one mount of a page; its number is in the handlers that the visit
started. A handler of a page that was left goes on: what it does to stores and to the machine happens, and its
`setState` calls are dropped (`OnPage`, `Shows`, `Shown`). A button is an action whose guard is the condition under
which the page renders and enables it. An answer that comes from outside (a probe, a command, a request) is a choice
over the answers the code tells apart.

| Module | State, and what it is in the code |
|---|---|
| `DeployPage` | `steps`, `active`, `deploying`, `final`, `failedIdx` and the rest of `pageVars` are the hook's state; `runner[v]` the handler of visit `v` between two awaits (a scan, a step of a pipeline, a single step, with the number of its call); `retried[v]` is `autoRetryCountRef`; `preparing` and `ollamaCalls` the visits whose `prepareSteps` and `ollamaEnsureInstalled` are out; `installed`, `started` the machine; `dinst` the instances recorded; a command over SSH or pm2 may never return (`Hangs`) |
| `PhoneDeploy` | `form`, `ptest`, `prows`, `pbusy`, `pfinal` are the deploy page, `krunning`, `kresult` the kill switch of the security page; `prun[v]` the handler of a visit; `plist`, `creds`, `pass` the instance list and the two entries of the secure store per host, written one after the other (`StoreCreds`, `StorePass`), either of which may fail; `SshHangs` is a command that is never answered |
| `PhoneServers` | `con` is ConnectPage, `ins` InstancesPage with its probes and the proxies found, `servers` and `lastToken` the store, `calls` what is out; `Rediscovers` is the effect that cancels the calls of its last run; `SameHost` is `httpUrl.includes(host)` |
| `DesktopServers` | `card[i]` is the action a card shows, `health` the store, `tasks` the handlers (checks, starts, stops, removal); `CheckAll` is the probe of all on mount, by button and every 30 s |
| `McpServers` | `table` and `audit` are the two SQLite tables, `rows`, `adding`, `scanning` the page, `jobs` the handlers from statement to statement: a scan writes its grade, may then disable the server, returns, and writes an audit entry |
| `TokenUsage` | `log` is `token_records`, `queries` the summaries read (`got`) or about to be, `badge` the sidebar's anomaly; `GetUsageSummary` is the summary as the store computes it, with the breakdown by instance that reads the whole log; `PurgeDays` are the lengths the two pages offer; `TimerFires` is the page's interval |
| `TokenCosts` | `saved` and `overrides` are localStorage, `draft` the forms of the settings, `shown` what the token page has read; `FindModelPrice`, `ConvertCost`, `CostSection` and `AggregateCosts` are the functions the rows and the total are made by |
| `AiKeys` | `keys` is openclaw's configuration, `marks` the entries of the secure store, `configured` the store in memory, `form[p]` a card; a submit writes the key, marks the provider, probes and shows the verdict; a load reads the marks, then the CLI's list, then marks what it found |
| `LocalModels` | `ollama` is the machine, `page` the page, `work` its handlers and the downloads with their events; every handler ends in a refresh that asks and then shows |
| `DesktopShell` | `prefs` is localStorage, `app` the route with the navigation that start-up asks for, `boundary` the error boundary, `updater` the store of the updater, `flights` its check and its downloads |
| `SecurityPanels` | the commands of the back end are synchronous, so `queue` holds those invoked and not yet run; `machine` is the firewall with the stored mode and the approvals; `Deleted`, `Applied` and `Result` say what a command may leave behind when a part of it fails; `logs` are the handlers that still have something to do after their command |
| `ModelRouter` | `rules` is localStorage, `drafts` the open cards, `halfMoved` says that of the two writes of a move one was refused; keywords are the set of inputs they hit |
| `PhoneChat` | `chat.selected`, `chat.origin` (the proxy found), `chat.discovering` (discoveries out) and so on are the page; `sends` are messages in `buildSendOpts`, `probes` the polls; `Reaches` is the order in which `do_stream` tries its targets |
| `DesktopChat` | `webview` is the child webview, `pane` the page with what its refs say of the webview, `mounts` the mounts under way (of the effect and of the repair), `repair` the repairs; `pane.lost` the reasons why the chat is not there and no error stays on show |

## 3. Runs, bounds and fairness

| Run | Bounds | What it shows |
|---|---|---|
| `ws_client` | 2 requests on 1 client, 1 delta per run, 2 breaks, every way a run can end | what is left on a socket belongs to its reader or to a request that was given up; answers hold the text of their last attempt; a call returns unless the gateway goes on for ever with notes or a send never returns |
| `chat_proxy` | 2 requests, each may create a client; 1 delta, 1 break, runs end in `done` or not at all | the order of the two mutexes; audit events are paired; every accepted request ends, under the same condition; the proxy implements `ChatService` |
| `chat_engine` | 2 turns, 1 chunk each, 1 load or clear | one turn in flight, text is lost only with a refused row, the page does not stick, holes are not resumed |
| `commands` | pairing: 2 generations, 2 phones, a token valid for one tick and its server for one more; Node step: 3 installers; watchdog: 2 processes, a stall of 2 ticks, 2 lines; gateway: 2 starts, 2 rounds | a token is accepted once, in time, while it is the latest; success is verified and strict-ssl is put back; a kill is reported and no output is lost; ready means the gateway or a survivor of the kill; the configuration survives; everything ends or is held by one thing that does not |
| `deploy_pages` | 2 dependencies (one bundled), 1 remote step, 2 visits and 2 deployments; 2 hosts; 2 addresses of which one's text contains the other's, 1 server at a time, 3 mounts, 2 calls; 1 local and 1 remote instance | a page is busy exactly while its handler runs; online was started; secrets follow a deployment; what was deleted stays deleted; deployments end unless a command never returns; a gateway that is down is not shown online for good |
| `registry_pages` | 1 server, 2 jobs, 2 scans; 2 records of 1 instance, 2 loads, 5 days, weeks of 2, months of 4, purges of 2 and 3 days; 4 model names, 3 edits; 2 providers, 1 submit, 1 wipe | a dangerous server is off unless the user forced it; the summary of the tab on show comes back and the badge is of all instances; a purge spares what a summary counts; rows, total and warning agree; forms are locked exactly while verified |
| `shell_pages` | 1 model, 2 visits; 2 launches, 2 moves; 2 visits, 2 clicks and 2 queued commands of the security page; 3 rules; 2 machines, 1 flip, 1 selection; 2 gateways, 2 visits, 1 repair | the route is restored and a download shown; what the panels say is so; the order of the rules is total; the chat page follows its machine; an online machine's chat is shown, or not for a reason that is named |
| `sessions_isolated`, `stored_once`, `exit_is_reported`, `no_orphan`, `failed_changes_nothing` | as above (`no_orphan` with the code's 3 rounds) | the five findings of section 5 |

Why these are enough. Two requests are the least that can lose, replace or misread each other's connection; the
interesting cases of the retry need a first attempt, a break and a second attempt, so one or two breaks; a second delta
adds nothing because text is kept as the set of runs it came from. `chat_proxy` bounds the breaks by 1 because with two
clients every break doubles the states; the client alone is run with 2. For `ChatEngine` two turns let an old turn's
listeners meet a new turn. Three installers are needed for a first, a middle and a last one. Two lines and two
processes let one be read and one be left. Two rounds are a first one and a last one: the code's three add a round in
the middle, which differs from neither. Two visits of a page let a handler of the first meet the second; two handlers
in flight are the least that can answer in the wrong order; a third mount of the phone's pages lets a call outlive the
page it was made from, and the page in between. The proofs of section 4 remove the
bounds for every invariant a passing run checks; the bounds above carry the liveness properties alone.

No symmetry is used. `CHECK_DEADLOCK FALSE` stands in the runs of `ChatEngine` and the groups, where the bounds on
turns, visits and clicks stop the model, and `Gateway`, where nothing is left to do after the process has ended.

Fairness assumed, and why:

- `WsClient`, `ChatProxy`: weak fairness of the steps that wait for a mutex, a frame that is there or a timer
  (`OwnStep`, `OwnTask`). Tokio polls every woken task. Nothing is assumed of the peer: the steps that wait for it to
  take bytes or to finish a handshake (`SocketStep`, `PeerStep`) are not fair, as the sends have no timeout
  (`ws_chat.rs:349`, `:415`), and notes may put the idle timeout of 120 s off for ever. What the liveness properties
  need is therefore their hypothesis: `SendsReturn` and `PeersGoOn` (no send and no handshake waits for ever), `Quiet`
  (in the end the gateway sends no more notes). That it answers is not needed. `ChatService` promises no ending at all.
- `ChatEngine`: promises settle, events are delivered, and the Rust command ends: its requests time out after 120 s.
  Buttons, loads and unmounting owe nothing.
- `NodeStep`, `Gateway`, `DeployPage`, `PhoneDeploy`: a subprocess, a command or a handler goes on unless it hangs, and
  it may hang at any time: `run_pm2` and `shell_output` have no timeout (`pm2.rs:114`), a command over SSH has one for
  its connection only (`ssh.rs:603`, `:678`), and the watchdog itself can wait for ever (`exit_is_reported`). That is
  an action of its own (`Hangs`, `SshHangs`, `stuck`), after which no step is fair, and the second disjunct of
  `StepEnds`, `StartEnds`, `DeploymentEnds` and `PhoneEnds`: such a call keeps what it holds, and nothing else does. pm2
  and the gateway owe nothing.
- `Watchdog`: tasks are polled and time passes. `SilentIsEnded` lets a process the command started live for ever; then
  the command need not end.
- `Pairing`: time passes and server tasks are polled. Phones owe nothing: `ServerEndsOrIsHeld` says that a server has
  closed in the end or is held by one read for ever, as the read has no timeout (`pairing.rs:199`).
- `DesktopServers`: the interval of the health check fires while the page is open.
- `TokenUsage`: the interval fires, a query that was read is shown, and queries are served. The last is strong
  fairness of the choice of a query, as new queries may always come before it.
- `PhoneChat`: the interval polls and a probe answers (it has a timeout).

In a group the fairness of a module that does not run owes nothing, as its initial state enables no fair action;
where it would, the conjunct names `which`.

## 4. What is proved

The proofs hold for every value of the constants: any number of requests, clients, deltas and breaks, of turns and
chunks, installers, processes and lines, generations, phones and lifetimes, starts and rounds, of visits, hosts,
servers, instances, jobs, providers, prices, models, routes, rules and machines. They rest on the named assumptions of
the modules only, each of which TLC evaluates in a run. One of these is more than types: `TokenAssumption` has
every length of a purge reach back a week (the shortest that a page offers is 7 days, those of the average).

Every invariant that a passing run checks, every action property and the safety part of both refinements is a theorem.
A theorem module follows a run: each part of a group has an invariant of its own, and a step of the group is a step of
one part and a stutter of the others (`PagesParts`, `RecordsParts`).

- `WsClientProofs`: none of the safety invariants of `WsClient` is inductive. `WsInv` adds that a task in a call has a
  client (`ClientKnown`) and no outcome before its end (`OutcomeIsLast`), that the frame that ends a run is the last one
  for it (`EndIsLast`, needed because a collector stops reading there and leaves the socket to the next one), and what
  the collected parts can be (`PartsKnown`). `Drop` and a kept error turn a run into an abandoned one, which is the
  only way the right-hand side of `PendingIsOwnedOrAbandoned` gets its second disjunct.
- `ChatProxyProofs`: the steps of the client are steps of `WsClient` and keep `WsInv`; the proxy's own steps touch
  `client`, `conn` and `outcome` in few ways, each shown harmless. `PInv` adds what was emitted and sent at each await
  point (`ExchangeKnown`), from which `AuditPaired` follows, and `NoOutcomeBeforeCall`. `ProxyKeepsService` is the
  refinement of `ChatService`: `ServiceInv` adds that what is collected was shown and that a
  request refused before its call has no outcome; then a step of one request moves its phase and its text as one action
  of the service or not at all (`CallMoves`, `HandlerMoves`, `ServiceMoves`). That foreign text comes from a request
  that the service calls given up is `PendingIsOwnedOrAbandoned` at the frame that is read.
- `ChatEngineProofs`: the refs are shared by all turns, so the invariant says whose they are (`Owned`): a turn in flight
  is the one in `abortControllerRef`, `isSendingRef` is set for it, and `cancelRef` says of it and of no other that it
  was aborted. `Phases` ties the place of a continuation to its listeners and rows, `Post` counts the events on their
  way. `Owned` is claimed only while no reply was torn (`Orderly`), as the properties are. From these follow
  `OneTurnInFlight`, `TextIsHandedOver` (every way a turn ends has called `addMessage` for the text shown, so only a
  refusal loses it: `Settled`), `StopIsForATurn` and, for steps, `RepliesHaveNoHoles`.
- `CommandsProofs`, pairing: `Spent` says that a token that was accepted was generated and, while it is still the active
  one, is marked used; so the test under the lock fails for it ever after, which is `TokenAcceptedOnce`. With it every
  step of `Pairing` is a step of `OneShotToken` or leaves it alone (`PairingImplements`). `PairedIsAccepted` counts:
  who was told `ok` posted a token that was accepted (`Told`), and nobody else was told so for it (`Alone`).
- `CommandsProofs`, Node step: `StepInv` holds how often each strategy has run, by the pass and the position
  (`Progress`), what is known of Node where the step stands (`StepPlace`) and that strict-ssl is off beyond the step's
  own doing only while a retry owes its restoration (`SslOwed`). `StepTriesAll` (no installer is skipped) follows too.
- `CommandsProofs`, watchdog: the flag is up before the signal is sent, and the verdict is read after the shell was
  waited for (`Flagged`), so a kill is always reported (`KilledIsStalled`). `Accounted` balances what was written
  against what is in the pipe and in the buffers; it gives `ResultHasAllLines`.
- `GatewayProofs`: `Clear` (a call past its first operation has seen the old occupant of the port go, or its kill has
  spared it) gives `ReadyOfGatewayOrSurvivor`, with no hypothesis on the kill; `Aside` (`onboard` runs only after the
  configuration was set aside or could not be) gives `ConfigIsSafe`. Both need that what a call has left to do is a
  plan in which `onboard` follows `set_aside`, whatever tail of it is left (`PlanTails`).
- `DeployPagesProofs`: `PagesAreBusy` fails to be inductive for one reason on each page, a handler of a visit that was
  left. The invariants say that handlers belong to this visit or an older one, and that the visit on show has one at
  most for each control. `SecretsAreOrdered` needs what a handler between two awaits may rely on (`Follows`): the secret
  it is about to write comes after those written. `NoneComesBack` needs that ids are numbers given in order
  (`Numbered`), so that a call under way can only name one that is listed or gone.
- `RegistryPagesProofs`: a scan that has stored a dangerous grade and not yet switched the server off is the only
  excuse for one that is on (`Excused`), and an id is inserted once (`JobInv`). `CostsAreAgreed` reduces to two sums
  over the same terms, for any table of prices. `FormAlone` is the invariant of a form of a key: it is locked for as
  long as the one submit of this visit runs. `PurgeIsSafe` and `BadgeTellsOfAll` are properties of steps: the first
  compares each part of a summary before and after a purge of any length offered (`PurgeSparesUsage`,
  `PurgeSparesBreakdown`), the month only where the purge does not reach into it; the second is the safety half of
  `UsageConverges`.
- `ShellPagesProofs`: `ShellStaysTrue` counts the downloads against the one status of the updater. `PanelsStayTrue`
  needs the order of the queue of commands: what an earlier visit asked to change runs before the scan of this one
  (`Behind`), and until then a scan is queued or owed by a log (`BannerComes`). `OrderTotal` has a different argument
  for each action: a new rule is given a priority above all others, a card keeps the priority of its rule, and a move
  exchanges two priorities, which keeps them different only if both writes were stored (`halfMoved` records that one
  was not); `OrderKept` says that two rules change places only as neighbours. `OnlineStaysShown` strengthens the
  property to the mount of the effect that ran last (`Latest`) and to the repair that will mount again (`Remounts`): one
  of them is under way, or the chat, an error or a reason is there (`ShownOrComing`). No hypothesis on the mounts is
  left: each call of one may fail.

The proofs changed the models in places. Arms of a `CASE` that overlapped (in `TokenCosts`, `AiKeys` and
`SecurityPanels`) are now `IF` in the order of the code: TLC took the first arm, the definition left the choice open.
That a purge reaches back a week was missing: one of fewer days than the average looks back would change what the page
shows.

Only model-checked: every liveness property (`CallsReturn`, `RequestsEnd`, `SendRecovers`, `CommandsEnd`,
`ServerEndsOrIsHeld`, `PagesEnd`, `HealthConverges`, the liveness half of `UsageConverges` and `ChatFollows`), as
fairness and ENABLED are beyond the prover used. `PhoneChat` has no theorem: its one property that holds is
`ChatFollows`. Of `DesktopServers` only its share of `PagesAreBusy` is proved.

## 5. Where the code and its documents disagree

Five runs end in a counterexample against something the repository says (the quotes are in `PROJECT.json`):

- `sessions_isolated`: a request that timed out leaves its run on the connection; the next request, of another
  session, is given its text, as text events are not filtered by run or session (`ws_chat.rs:712`).
- `stored_once`: the abort listener of a turn outlives the turn, so the next New Chat stores the finished reply again
  (`useChatEngine.ts:296`).
- `exit_is_reported`: a command that ended but left a process with its output open is never reported
  (`watchdog.rs:179`).
- `no_orphan`: a start or restart under way brings the gateway back after the stop at exit (`pm2.rs:196`).
- `failed_changes_nothing`: the local restriction deletes the rules of every mode before it tries the new ones; when it
  fails it says that nothing was changed (`firewall.rs:142`).

Further properties of what the repository says, or of what its pages seem to say, are defined in the modules and are
violated; no run is kept for them. To see the counterexample, put the property in place of those of the group's
configuration.

- `PhoneChat!RoutedReachesTarget`: `modelRouter.ts:9-10` says that a message that matches a rule is routed to the
  rule's instance; `ChatPage.tsx:266` of the phone hands the proxy of the selected instance to the back end, which
  tries it first. `RepairsSelected`: after a selection the repair (`:341`) still asks the proxy found for the instance
  before.
- `DesktopChat!HiddenWhenAway`: "Hide (not destroy) when leaving the page" (`ChatPage.tsx:148` of the desktop): a mount
  that is under way when the page is left shows the webview over the next page. `OfflineIsUnmounted`: the same when the
  instance goes offline during the mount.
- `DeployPage!NoStepSkipped`: `startFrom` is moved behind the last satisfied dependency (`useDeployState.ts:355`), so
  a missing one in front of it is never installed.
- `AiKeys!ConfiguredIsVerified`: `aiVerify.ts:3-4` promises a probe before a key is shown as configured; the provider
  is marked before the probe answers, and stays so when the panel is opened again after a refusal.
- `McpServers!NoOrphanRows`: `mcpStore.ts:139` wants no orphans in `mcp_audit`; a scan or toggle that is under way
  when its server is deleted adds one.
- `DesktopShell!CrashIsLocal`: "prevents one page crash from taking down the whole app" (`App.tsx:23`): the boundary
  is around all routes and keeps its error when the user goes to another page.
- `LocalModels!PullingIsInFlight`: a stream of Ollama that ends without a last status (`ollama.rs:458`) emits no event;
  the page shows the download as running for as long as it is open.
- `PhoneServers!TokenIsOwn`: an address that is edited while it is tested, or one that contains another
  (`instances.ts:30`), takes the other server's token.
- `SecurityPanels!ModeIsShown`, `ModeIsEnforced`, `FixIsOffered`: the mode on show is not read again after the firewall
  switch, the mode stored is not the one in force while the kill switch is on, and a fix that was made is not offered
  again when the danger is back.
- `DesktopChat!OnlineIsShown`: the page of an online machine is left with neither its chat nor a message when it had no
  size at the moment of the mount (`ChatPage.tsx:67`, `:110` of the desktop return without a word, and the page may go
  on saying that it is mounting), when the mount of a repair fails (what it says goes after five seconds, `:74`, `:77`),
  and when a repair of a page that was left answers while another is on show: it unmounts the one webview there is by
  the refs of the old page (`:61`). `ShownUnlessLost` is the property with these three reasons.

Others were met while modelling; the models contain the behaviour:

- `ws_chat.rs:189` "reconnect transparently": two tasks that lose one connection can leave each other with
  `ws-not-connected`, which is not retried. `ws_chat.rs:188` "long-lived singleton": two requests that find the slot
  empty both connect.
- `install.rs:27` and `:1153` promise that npm is there; `verify_node_and_npm` returns a version without it.
- `executor.rs:106`: a permission error does not end in a prompt, the chain goes on; `:107`: an abort is not followed by
  the verifier; `:433`: "restore" sets strict-ssl to true also if the user had it off; `:390`: an application that is
  closed meanwhile leaves it off.
- `watchdog.rs:23`: `Stalled` is reported of a command that ended by itself between the look and the kill; `:61`: output
  that comes during the look does not save the command.
- `pairing.rs:157`: the server does not shut down while a peer that sends nothing is connected; `:69`: of two
  generations at once the first writes its port into the second's token; `:194`: a body in a second segment is not
  read; `:274`: a token whose answer is lost is used up, and the phone cannot know.
- `docs/API.md:95` (`deploy_step_start` waits until the gateway is healthy): readiness is a TCP connect and the result
  of the kill is ignored (`gateway.rs:386`, `:505`), so a foreign program that survives `kill -9` is taken for the
  gateway. `ReadyIsGatewayOrSurvivor` says that this is the only way to be wrong.
- `ws_chat.rs:602`: the 120 s are those since the last Text frame of any kind (`:622`), not of the answer: a gateway
  that ticks and never answers, or a send that never returns (`:349`, `:415` have no timeout), holds the connection's
  mutex, and with it every request behind it, for ever.
- `pm2.rs:114`, `ssh.rs:678`: a pm2 or a command over SSH that never returns keeps the start, and the page that shows it
  as running, for ever.
- `useChatEngine.ts:268`, `:300`: a row that the history refuses is only logged; the text the page showed is gone.
- `tokenLogStore.ts:177`: a purge of 30 days on the 31st of a month (`TokenPageContent.tsx:850`), and one of 7 days on
  most days (`SettingsPage.tsx:455`), deletes records of this month: its total falls, and the budget's bar and warning
  with it. An instance whose records are all older leaves the breakdown, which reads the whole log (`:142`).
- `gateway.rs:81`: `lsof -ti :port` also names clients of the port, so a start may kill the application itself;
  `:386`: a `kill -9` that fails is not noticed.

The models also have hazards that no property excludes, because nothing in the repository says what should happen: a
retry throws away the connection that another task has just made (`ws_chat.rs:296`); two requests that find the slot
empty both connect (`chat_proxy.rs:217`); a reader that meets a line that is not UTF-8 ends, and its command counts as
silent (`watchdog.rs:125`); a short model name takes the price of a longer one (`tokenPricingStore.ts:186`); a move of
which one write fails leaves two rules with one priority (`RouterPageContent.tsx:397`).

## 6. Assumptions and what is left out

Assumed of the world: hyper drops the future of a handler whose caller is gone; a completed run of the agent has text;
`stream_chat` does not reject and the hook is not mounted twice; the effect that keeps `sessionRef` up to date runs
before the next button; installers never remove Node or npm; a peer of the pairing server knows tokens only from QR
codes; the wall clock and the timer go at one pace; nobody else takes the gateway's port after a start has freed it (a
program that survived the kill has kept it); unmounting a webview does not fail; pm2 refuses to start an entry that is
online. All starts use one port. stdout and stderr are one pipe. Of the back end's commands the Unix branches are
modelled; the firewall is that of Windows, the only one with rules.

Of the pages: React runs the effects of a commit before the next event; `setState` of an unmounted component does
nothing; synchronous Tauri commands run one at a time in the order they were invoked; the storage of the browser may
refuse a write only where the code catches that. Answers of the outside (scans, probes, the CLI, Ollama, SSH) are any
the code tells apart. Prices are small integers and names a set with a relation "contains"; keywords are the inputs
they hit. A server's address stands for the server and its token.

Not modelled: the parsing of server-sent events and all wording; charts, exports and layout; the scans of the host
beside their verdicts. The list of parts with their reasons is in `PROJECT.json` under `components`.

## 7. Plan

1. The back end of the deployment: `OpenclawStep` (`install.rs:1214-1452` with the fallback attempts of `npm.rs`, the
   user prefix and strict-ssl) and `Pm2Step` (`deploy_step_install_pm2`), then `Deploy`, which composes `DeployPage`
   with `NodeStep` and `Gateway` in place of its answers: a page that shows a step done only if the machine is in the
   state the step promises.
2. `RemoteSessions` (the store fed by `audit`), composed with `ChatProxy`; `PhoneChat` composed with `ChatEngine` and
   `ModelRouter`.
3. `Bots` (start, stop, polling), SSH host keys, the secure store, the folder watcher of RAG.
4. Pure algorithms against reference definitions: SSE framing, version parsing.
5. Proofs: the step-by-step parts of the liveness properties (from each await point the next action is enabled, and a
   measure falls), which are safety properties and leave only the fairness to TLC; the invariants of the modules that
   items 1 to 3 add.
