------------------------------- MODULE AiKeys -------------------------------
(***************************************************************************)
(* API keys of model providers: the store of the providers configured      *)
(* (stores/providerStore.ts over stores/secureStore.ts), the forms that    *)
(* write a key (components/ai: ConfigureAIPanel with its FeaturedCards and *)
(* ProviderRows; the form of the desktop's DeployResult), the probe of a   *)
(* key (stores/aiVerify.ts) and the wipe of the settings.                  *)
(***************************************************************************)
EXTENDS Naturals, FiniteSets

CONSTANTS Providers, Featured, Direct, Probed,  \* ids; the quick cards, DIRECT_PROVIDER_IDS, PROBES
          HasCli,                     \* the openclaw CLI lists providers: on the desktop
          MaxSubmits, MaxScreens, MaxWipes \* bounds

ASSUME AiAssumption ==
  /\ Featured \subseteq Direct /\ Probed \subseteq Direct /\ Direct \subseteq Providers
  /\ HasCli \in BOOLEAN

VARIABLES
  keys,      \* what the configuration of openclaw holds by provider
  marks,     \* ai_key_configured entries of the secure store
  configured,\* the store in memory
  panel,     \* the visit of the open panel, 0 when closed
  form,      \* by provider: typed, loading, result, verify, update
  calls,     \* handlers between two awaits
  rejected,  \* providers whose key, as last written, a probe refused
  made       \* what the bounds count

aivars == <<keys, marks, configured, panel, form, calls, rejected, made>>

Blank == [typed |-> "", loading |-> FALSE, result |-> "none", verify |-> "idle", update |-> FALSE]
Blanks == [p \in Providers |-> Blank]
Submit(p, key, at) == [kind |-> "submit", id |-> p, arg |-> key, at |-> at, visit |-> panel]
Loading(stored, external, at) == [kind |-> "load", id |-> stored, arg |-> external, at |-> at, visit |-> 0]
Goes(c, next) == calls' = (calls \ {c}) \cup next
External == IF HasCli THEN {p \in Providers : keys[p] # "none"} ELSE {}

AiInit ==
  /\ keys \in [Providers -> {"none", "good"}] /\ marks = {} /\ configured = {}
  /\ panel = 0 /\ form = Blanks /\ calls = {Loading({}, {}, "reads")} /\ rejected = {}
  /\ made = [submits |-> 0, screens |-> 0, wipes |-> 0]

-----------------------------------------------------------------------------
(* load: the marks, then what the CLI lists, marked as well, then shown.      *)
LoadReadsMarks(c) ==
  /\ c.kind = "load" /\ c.at = "reads"
  /\ \/ Goes(c, {Loading(marks, {}, "lists")}) /\ UNCHANGED configured
     \/ Goes(c, {}) /\ configured' = {}
  /\ UNCHANGED <<keys, marks, panel, form, rejected, made>>

LoadLists(c) ==
  /\ c.kind = "load" /\ c.at = "lists"
  /\ \E external \in {{}, External} : Goes(c, {Loading(c.id, external, "marks")})
  /\ UNCHANGED <<keys, marks, configured, panel, form, rejected, made>>

LoadMarks(c) ==
  /\ c.kind = "load" /\ c.at = "marks" /\ Goes(c, {}) /\ configured' = c.id \cup c.arg
  /\ marks' = marks \cup (c.arg \ c.id)
  /\ UNCHANGED <<keys, panel, form, rejected, made>>

(* handleWipeKeys: the marks go, and the list is loaded again. *)
HandleWipeKeys ==
  /\ made.wipes < MaxWipes /\ panel = 0 /\ ~\E c \in calls : c.kind = "wipe"
  /\ calls' = calls \cup {[Loading({}, {}, "wipes") EXCEPT !.kind = "wipe"]}
  /\ made' = [made EXCEPT !.wipes = @ + 1]
  /\ UNCHANGED <<keys, marks, configured, panel, form, rejected>>

WipeAll(c) ==
  /\ c.kind = "wipe" /\ marks' = {} /\ Goes(c, {Loading({}, {}, "reads")})
  /\ UNCHANGED <<keys, configured, panel, form, rejected, made>>

WipeFails(c) ==
  c.kind = "wipe" /\ Goes(c, {}) /\ UNCHANGED <<keys, marks, configured, panel, form, rejected, made>>

-----------------------------------------------------------------------------
(* The forms. *)

OpenPanel ==
  /\ panel = 0 /\ made.screens < MaxScreens /\ made' = [made EXCEPT !.screens = @ + 1]
  /\ panel' = made'.screens /\ form' = Blanks
  /\ UNCHANGED <<keys, marks, configured, calls, rejected>>

ClosePanel == panel # 0 /\ panel' = 0 /\ UNCHANGED <<keys, marks, configured, form, calls, rejected, made>>

ShowInput(p) == panel # 0 /\ (p \notin configured \/ form[p].update)
Sets(p, f) == form' = [form EXCEPT ![p] = f]
Enabled(p) == ~form[p].loading /\ form[p].verify # "verifying"

TypeKey(p, key) ==
  /\ ShowInput(p) /\ Enabled(p)
  /\ Sets(p, [form[p] EXCEPT !.typed = key, !.result = "none", !.verify = "idle"])
  /\ UNCHANGED <<keys, marks, configured, panel, calls, rejected, made>>

(* The button that replaces a key, enabled while one is verified, too.  A row *)
(* that shows a good verdict or none keeps it.                                *)
ReplaceKey(p) ==
  /\ panel # 0 /\ p \in configured /\ ~form[p].update
  /\ Sets(p, [form[p] EXCEPT !.update = TRUE,
                             !.verify = IF p \in Featured \/ @ \in {"failed", "relay", "unreachable"}
                                        THEN "idle" ELSE @])
  /\ UNCHANGED <<keys, marks, configured, panel, calls, rejected, made>>

HandleCancelUpdate(p) ==
  /\ panel # 0 /\ form[p].update /\ Sets(p, [Blank EXCEPT !.loading = form[p].loading])
  /\ UNCHANGED <<keys, marks, configured, panel, calls, rejected, made>>

(* Opening or closing a row forgets its input. *)
ToggleProvider(p) ==
  /\ panel # 0 /\ p \notin Featured
  /\ Sets(p, [form[p] EXCEPT !.typed = "", !.result = "none", !.update = FALSE])
  /\ UNCHANGED <<keys, marks, configured, panel, calls, rejected, made>>

HandleSubmit(p) ==
  /\ ShowInput(p) /\ Enabled(p) /\ form[p].typed # "" /\ made.submits < MaxSubmits
  /\ made' = [made EXCEPT !.submits = @ + 1]
  /\ Sets(p, [form[p] EXCEPT !.loading = TRUE, !.result = "none", !.verify = "idle"])
  /\ calls' = calls \cup {Submit(p, form[p].typed, "writes")}
  /\ UNCHANGED <<keys, marks, configured, panel, rejected>>

(* The panel may have been closed, and opened anew, since.                    *)
Shows(c, f) == form' = IF panel = c.visit THEN [form EXCEPT ![c.id] = f] ELSE form

(* onConfigure: openclaw has the key.  A row is probed first, a card (and the *)
(* form of DeployResult) is marked first.                                     *)
WriteKey(c) ==
  /\ c.at = "writes" /\ c.kind = "submit" /\ keys' = [keys EXCEPT ![c.id] = c.arg]
  /\ rejected' = rejected \ {c.id}
  /\ IF c.id \in Featured
     THEN Goes(c, {[c EXCEPT !.at = "marks"]}) /\ UNCHANGED form
     ELSE Goes(c, {[c EXCEPT !.at = "probes"]}) /\ Shows(c, [form[c.id] EXCEPT !.verify = "verifying"])
  /\ UNCHANGED <<marks, configured, panel, made>>

WriteFails(c) ==
  /\ c.kind = "submit" /\ c.at \in {"writes", "marks"} /\ Goes(c, {})
  /\ Shows(c, [form[c.id] EXCEPT !.loading = FALSE, !.result = "failed"])
  /\ UNCHANGED <<keys, marks, configured, panel, rejected, made>>

(* verifyProviderKey *)
Verdicts(p, key) ==
  IF p \notin Direct THEN {"relay"} ELSE IF p \notin Probed THEN {"ok"}
  ELSE {"unreachable", IF key = "good" THEN "ok" ELSE "failed"}

Probes(c, verdict) ==
  /\ c.kind = "submit" /\ c.at = "probes" /\ verdict \in Verdicts(c.id, c.arg)
  /\ rejected' = IF verdict = "failed" /\ keys[c.id] = c.arg THEN rejected \cup {c.id} ELSE rejected
  /\ UNCHANGED <<keys, marks, configured, panel, made>>

FailedStaysLocked(c, verdict) ==   \* mutant: no finally after a refused key
  /\ Probes(c, verdict)
  /\ LET ends == c.id \in Featured \/ verdict = "failed"
     IN  /\ Goes(c, IF ends THEN {} ELSE {[c EXCEPT !.at = "marks"]})
         /\ Shows(c, [form[c.id] EXCEPT !.verify = verdict, !.loading = c.id \notin Featured])

ProbeAnswers(c, verdict) ==
  /\ Probes(c, verdict)
  /\ LET ends == c.id \in Featured \/ verdict = "failed"
     IN  /\ Goes(c, IF ends THEN {} ELSE {[c EXCEPT !.at = "marks"]})
         /\ Shows(c, [form[c.id] EXCEPT !.verify = verdict, !.loading = ~ends,
                                        !.result = IF c.id \notin Featured /\ ends THEN "failed" ELSE @])

MarkConfigured(c) ==
  /\ c.kind = "submit" /\ c.at = "marks"
  /\ marks' = marks \cup {c.id} /\ configured' = configured \cup {c.id}
  /\ LET f == [form[c.id] EXCEPT !.result = "ok", !.typed = "", !.update = FALSE]
     IN IF c.id \in Featured
        THEN Goes(c, {[c EXCEPT !.at = "probes"]}) /\ Shows(c, [f EXCEPT !.verify = "verifying"])
        ELSE Goes(c, {}) /\ Shows(c, [f EXCEPT !.loading = FALSE])
  /\ UNCHANGED <<keys, panel, rejected, made>>

(* The badge of a card or a row. *)
ConfigBadge(p) ==
  IF panel # 0 /\ form[p].verify # "idle" THEN form[p].verify
  ELSE IF p \in configured THEN "configured" ELSE "not configured"

AiNext ==
  \/ HandleWipeKeys \/ OpenPanel \/ ClosePanel
  \/ \E p \in Providers : \/ ReplaceKey(p) \/ ToggleProvider(p) \/ HandleCancelUpdate(p) \/ HandleSubmit(p)
                          \/ \E key \in {"good", "bad"} : TypeKey(p, key)
  \/ \E c \in calls :
       \/ LoadReadsMarks(c) \/ LoadLists(c) \/ LoadMarks(c) \/ WipeAll(c) \/ WipeFails(c)
       \/ WriteKey(c) \/ WriteFails(c) \/ MarkConfigured(c)
       \/ \E verdict \in {"ok", "relay", "failed", "unreachable"} : ProbeAnswers(c, verdict)

AiSpec == AiInit /\ [][AiNext]_aivars

-----------------------------------------------------------------------------
(* The form of a provider is locked only while a handler of its visit runs.   *)
LockedIsInFlight ==
  panel # 0 => \A p \in Providers :
    form[p].loading \/ form[p].verify = "verifying"
      => \E c \in calls : c.kind = "submit" /\ c.id = p /\ c.visit = panel

(* What aiVerify promises: before a provider is shown as configured its key   *)
(* was probed and not refused.                                                *)
ConfiguredIsVerified == \A p \in rejected : ConfigBadge(p) # "configured"
=============================================================================
