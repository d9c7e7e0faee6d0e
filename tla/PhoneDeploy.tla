---------------------------- MODULE PhoneDeploy ----------------------------
(***************************************************************************)
(* The phone's deployment of a server over SSH and its kill switch: the    *)
(* pages apps/mobile/src/pages/DeployPage.tsx and SecurityPage.tsx, the    *)
(* hook useKillSwitch, the instance list and the secure store they share.  *)
(* One page is mounted at a time; a handler of a page that was left goes   *)
(* on, and what it sets on its own page is dropped.                        *)
(***************************************************************************)
EXTENDS Naturals, Sequences, SequencesExt

CONSTANTS Hosts,
          BaseSteps, ServerSteps, \* lengths of the two step lists
          PhoneVisits,            \* bound: pages opened
          PhoneRuns               \* bound: deployments and kills started

ASSUME PhoneAssumption == /\ {BaseSteps, PhoneVisits} \subseteq Nat \ {0}
                          /\ ServerSteps \in Nat

VARIABLES
  pvisit, ppage,  \* the mounted page: "deploy" or "security"
  form,           \* host and includeClawnoServer
  ptest,          \* testResult and testError
  ptests,         \* tests in flight: the visit and the host
  prows, pbusy, pfinal,
  krunning, kresult, \* the kill switch and its answer on the security page
  prun,           \* by visit: the handler between two awaits
  plist,          \* the remote instances, the newest first
  creds, pass,    \* secure store: the instances with each key
  up, served,     \* external: hosts whose gateway runs, or ever ran
  kills,          \* instances whose kill was logged
  pruns

phonePage == <<form, ptest, prows, pbusy, pfinal, krunning, kresult>>
phoneWorld == <<plist, creds, pass, up, served, kills>>
phonevars == <<pvisit, ppage, phonePage, ptests, prun, phoneWorld, pruns>>

NoHost == "none"
PIdle == [kind |-> "idle", at |-> 0, host |-> NoHost, server |-> FALSE]
Mine == prun[pvisit]
Fresh == /\ form' = [host |-> NoHost, server |-> TRUE] /\ ptest' = "none" /\ prows' = <<>>
         /\ pbusy' = FALSE /\ pfinal' = "none" /\ krunning' = FALSE /\ kresult' = "none"

PhoneInit ==
  /\ pvisit = 1 /\ ppage = "deploy"
  /\ form = [host |-> NoHost, server |-> TRUE] /\ ptest = "none" /\ prows = <<>>
  /\ pbusy = FALSE /\ pfinal = "none" /\ krunning = FALSE /\ kresult = "none"
  /\ ptests = {} /\ prun = [v \in 1 .. PhoneVisits |-> PIdle]
  /\ plist = <<>> /\ creds = {} /\ pass = {} /\ up = {} /\ served = {} /\ kills = {}
  /\ pruns = 0

PhoneGo(page) ==
  /\ pvisit < PhoneVisits /\ page # ppage
  /\ pvisit' = pvisit + 1 /\ ppage' = page /\ Fresh
  /\ UNCHANGED <<ptests, prun, phoneWorld, pruns>>

-----------------------------------------------------------------------------
(* The form. *)

FormShown == ppage = "deploy" /\ prows = <<>> /\ pfinal = "none"
CanTest == form.host # NoHost /\ ~pbusy
CanDeploy == CanTest /\ ptest = "ok"
Testing == \E h \in Hosts : <<pvisit, h>> \in ptests

(* No field forgets the outcome of a test.                                    *)
EditHost(h) ==
  /\ FormShown /\ form' = [form EXCEPT !.host = h] /\ h # form.host
  /\ UNCHANGED <<pvisit, ppage, ptest, prows, pbusy, pfinal, krunning, kresult, ptests, prun,
                 phoneWorld, pruns>>

IncludeServer ==
  /\ FormShown /\ ~pbusy /\ form' = [form EXCEPT !.server = ~@]
  /\ UNCHANGED <<pvisit, ppage, ptest, prows, pbusy, pfinal, krunning, kresult, ptests, prun,
                 phoneWorld, pruns>>

HandleTest ==
  /\ FormShown /\ CanTest /\ ~Testing
  /\ ptests' = ptests \cup {<<pvisit, form.host>>} /\ ptest' = "none"
  /\ UNCHANGED <<pvisit, ppage, form, prows, pbusy, pfinal, krunning, kresult, prun,
                 phoneWorld, pruns>>

TestAnswers(t, outcome) ==
  /\ t \in ptests /\ ptests' = ptests \ {t}
  /\ ptest' = IF t[1] = pvisit THEN outcome ELSE ptest
  /\ UNCHANGED <<pvisit, ppage, form, prows, pbusy, pfinal, krunning, kresult, prun,
                 phoneWorld, pruns>>

-----------------------------------------------------------------------------
(* The deployment. *)

StepsOf(server) == BaseSteps + IF server THEN ServerSteps ELSE 0
RowsAt(n, i, status) == [j \in 1 .. n |-> IF j < i THEN "done"
                                          ELSE IF j = i THEN status ELSE "pending"]
ShowRows(v, n, i, status) == prows' = IF v = pvisit THEN RowsAt(n, i, status) ELSE prows

HandleDeploy ==
  LET n == StepsOf(form.server) IN
  /\ FormShown /\ CanDeploy /\ pruns < PhoneRuns /\ pruns' = pruns + 1
  /\ prun' = [prun EXCEPT ![pvisit] = [kind |-> "step", at |-> 1, host |-> form.host,
                                       server |-> form.server]]
  /\ prows' = RowsAt(n, 1, "running") /\ pfinal' = "none" /\ pbusy' = TRUE
  /\ UNCHANGED <<pvisit, ppage, form, ptest, krunning, kresult, ptests, phoneWorld>>

(* addOrUpdate: an instance keeps its place, a new one comes first.           *)
AddOrUpdate(h) == plist' = IF h \in ToSet(plist) THEN plist ELSE <<h>> \o plist

StoresPassFirst(v) ==   \* mutant: the password is stored before the connection
  /\ prun[v].kind = "creds" /\ prun' = [prun EXCEPT ![v].kind = "pass"]
  /\ pass' = pass \cup {prun[v].host}
  /\ UNCHANGED <<pvisit, ppage, phonePage, ptests, plist, creds, up, served, kills, pruns>>

DeployStepOk(v) ==
  LET r == prun[v]  n == StepsOf(r.server) IN
  /\ r.kind = "step"
  /\ IF r.at = BaseSteps THEN up' = up \cup {r.host} /\ served' = served \cup {r.host}
                         ELSE UNCHANGED <<up, served>>
  /\ IF r.at < n
     THEN /\ prun' = [prun EXCEPT ![v].at = r.at + 1]
          /\ ShowRows(v, n, r.at + 1, "running") /\ UNCHANGED plist
     ELSE /\ prun' = [prun EXCEPT ![v].kind = "creds"]
          /\ ShowRows(v, n, n, "done") /\ AddOrUpdate(r.host)
  /\ UNCHANGED <<pvisit, ppage, form, ptest, pbusy, pfinal, krunning, kresult, ptests, creds,
                 pass, kills, pruns>>

FailsFromStart(v) ==   \* mutant: a deployment that fails begins again
  LET r == prun[v] IN
  /\ r.kind = "step" /\ prun' = [prun EXCEPT ![v].at = 1]
  /\ ShowRows(v, StepsOf(r.server), 1, "running")
  /\ UNCHANGED <<pvisit, ppage, form, ptest, pfinal, pbusy, krunning, kresult, ptests, phoneWorld, pruns>>

DeployStepFails(v) ==
  LET r == prun[v] IN
  /\ r.kind = "step" /\ prun' = [prun EXCEPT ![v] = PIdle]
  /\ ShowRows(v, StepsOf(r.server), r.at, "error")
  /\ IF v = pvisit THEN pfinal' = "failure" /\ pbusy' = FALSE ELSE UNCHANGED <<pfinal, pbusy>>
  /\ UNCHANGED <<pvisit, ppage, form, ptest, krunning, kresult, ptests, phoneWorld, pruns>>

Succeeds(v) ==
  /\ prun' = [prun EXCEPT ![v] = PIdle]
  /\ IF v = pvisit THEN pfinal' = "success" /\ pbusy' = FALSE ELSE UNCHANGED <<pfinal, pbusy>>

(* setSecureValue, the connection and then the password; a failure ends both  *)
(* and the deployment still succeeds.                                         *)
StoreCreds(v) ==
  LET r == prun[v] IN
  /\ r.kind = "creds"
  /\ \/ /\ creds' = creds \cup {r.host} /\ prun' = [prun EXCEPT ![v].kind = "pass"]
        /\ UNCHANGED <<pfinal, pbusy>>
     \/ Succeeds(v) /\ UNCHANGED creds
  /\ UNCHANGED <<pvisit, ppage, form, ptest, prows, krunning, kresult, ptests, plist, pass, up,
                 served, kills, pruns>>

StorePass(v) ==
  LET r == prun[v] IN
  /\ r.kind = "pass" /\ Succeeds(v)
  /\ \/ pass' = pass \cup {r.host}
     \/ UNCHANGED pass
  /\ UNCHANGED <<pvisit, ppage, form, ptest, prows, krunning, kresult, ptests, plist, creds, up,
                 served, kills, pruns>>

(* The back button of a failed deployment; the success page only leads away.  *)
PhoneReset ==
  /\ ppage = "deploy" /\ pfinal = "failure"
  /\ prows' = <<>> /\ pfinal' = "none" /\ ptest' = "none"
  /\ UNCHANGED <<pvisit, ppage, form, pbusy, krunning, kresult, ptests, prun, phoneWorld, pruns>>

-----------------------------------------------------------------------------
(* The list and the kill switch. *)

RemoveInstance(h) ==
  /\ h \in ToSet(plist) /\ plist' = SelectSeq(plist, LAMBDA i : i # h)
  /\ UNCHANGED <<pvisit, ppage, phonePage, ptests, prun, creds, pass, up, served, kills, pruns>>

(* trigger works on the first remote instance of the list it was given.       *)
KillSwitch ==
  /\ ppage = "security" /\ ~krunning /\ pruns < PhoneRuns /\ pruns' = pruns + 1
  /\ IF plist = <<>>
     THEN kresult' = "failed" /\ UNCHANGED <<krunning, prun>>
     ELSE /\ krunning' = TRUE /\ kresult' = "none"
          /\ prun' = [prun EXCEPT ![pvisit] = [PIdle EXCEPT !.kind = "readCreds",
                                                            !.host = Head(plist)]]
  /\ UNCHANGED <<pvisit, ppage, form, ptest, prows, pbusy, pfinal, ptests, phoneWorld>>

KillEnds(v, result) ==
  /\ prun' = [prun EXCEPT ![v] = PIdle]
  /\ IF v = pvisit THEN krunning' = FALSE /\ kresult' = result
                   ELSE UNCHANGED <<krunning, kresult>>

(* Both keys are read, then looked at.                                        *)
KillReads(v) ==
  LET r == prun[v] IN
  /\ \/ /\ r.kind = "readCreds"
        /\ prun' = [prun EXCEPT ![v].kind = "readPass", ![v].server = r.host \in creds]
        /\ UNCHANGED <<krunning, kresult>>
     \/ /\ r.kind = "readPass" /\ r.server /\ r.host \in pass
        /\ prun' = [prun EXCEPT ![v].kind = "ssh"] /\ UNCHANGED <<krunning, kresult>>
     \/ /\ r.kind = "readPass" /\ ~(r.server /\ r.host \in pass)
        /\ KillEnds(v, "failed")
  /\ UNCHANGED <<pvisit, ppage, form, ptest, prows, pbusy, pfinal, ptests, phoneWorld, pruns>>

KillAnswers(v) ==
  LET r == prun[v] IN
  /\ r.kind = "ssh"
  /\ \/ KillEnds(v, "killed") /\ up' = up \ {r.host} /\ kills' = kills \cup {r.host}
     \/ KillEnds(v, "failed") /\ UNCHANGED <<up, kills>>
  /\ UNCHANGED <<pvisit, ppage, form, ptest, prows, pbusy, pfinal, ptests, plist, creds, pass,
                 served, pruns>>

(* Commands over SSH have no timeout once they are connected. *)
HangsAs(v, kind) == prun' = [prun EXCEPT ![v] = [PIdle EXCEPT !.kind = kind]]
SshHangs(v) ==
  /\ \/ prun[v].kind = "step" /\ HangsAs(v, "stepHangs")
     \/ prun[v].kind = "ssh" /\ HangsAs(v, "sshHangs")
  /\ UNCHANGED <<pvisit, ppage, phonePage, ptests, phoneWorld, pruns>>

PhoneReturns(v) == \/ DeployStepOk(v) \/ DeployStepFails(v) \/ StoreCreds(v) \/ StorePass(v)
                   \/ KillReads(v) \/ KillAnswers(v)

PhoneNext ==
  \/ \E page \in {"deploy", "security"} : PhoneGo(page)
  \/ \E h \in Hosts : EditHost(h) \/ RemoveInstance(h)
  \/ IncludeServer \/ HandleTest \/ HandleDeploy \/ PhoneReset \/ KillSwitch
  \/ \E t \in ptests, outcome \in {"ok", "error"} : TestAnswers(t, outcome)
  \/ \E v \in 1 .. PhoneVisits : PhoneReturns(v) \/ SshHangs(v)

(* What does not hang returns. *)
PhoneFair == \A v \in 1 .. PhoneVisits : WF_phonevars(PhoneReturns(v))
PhoneSpec == PhoneInit /\ [][PhoneNext]_phonevars /\ PhoneFair

-----------------------------------------------------------------------------
(* The page on show is busy exactly while its own handler is in flight.       *)
PhoneIsBusy == (pbusy \/ krunning) <=> Mine.kind # "idle"

(* What the kill switch needs follows a deployment that ran to its end: a key *)
(* is stored only for a host whose gateway was started, a password only after *)
(* the connection it belongs to, and only such a host is ever killed.         *)
SecretsFollow == kills \subseteq pass /\ pass \subseteq creds /\ creds \subseteq served

(* A deployment or a kill on show comes to its end, or waits for a command    *)
(* over SSH that never returns.                                               *)
PhoneEnds == (pbusy \/ krunning) ~> (~(pbusy \/ krunning) \/ Mine.kind \in {"stepHangs", "sshHangs"})
=============================================================================
