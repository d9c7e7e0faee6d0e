---------------------------- MODULE PhoneServers ----------------------------
(***************************************************************************)
(* The phone's list of servers: ConnectPage (test an address, add it),     *)
(* InstancesPage (health, chat proxy discovery, delete) and the persisted  *)
(* store both work on (apps/mobile/src/store/instances.ts over the shared  *)
(* instanceSlice).  An address stands for the server behind it and for the *)
(* chat proxy token that server issues.                                    *)
(***************************************************************************)
EXTENDS Naturals, FiniteSets

CONSTANTS Urls,      \* addresses the user types
          Vpn,       \* the address filled in when the VPN reports its own
          SameHost,  \* pairs <<u, w>>: the text of u contains the host of w
          MaxServers, \* bound: instances ever added
          MaxOpens,  \* bound: pages opened
          MaxCalls   \* bound: calls in flight when the user starts another

VARIABLES
  sopen, sview,  \* the mount and its page: "connect" or "instances"
  con,           \* the state of ConnectPage
  ins,           \* the state of InstancesPage
  servers,       \* the store, by id
  lastToken, synced, \* lastChatProxyToken; ids whose providers were marked
  calls,         \* calls in flight
  gone           \* ids ever removed

servervars == <<sopen, sview, con, ins, servers, lastToken, synced, calls, gone>>

None == "none"
FreshCon == [url |-> None, result |-> None, testing |-> FALSE, token |-> None, added |-> FALSE]
FreshIns == [probing |-> {}, confirm |-> 0, proxy |-> {}]
Call(kind, id, url, had) == [kind |-> kind, open |-> sopen, id |-> id, url |-> url, had |-> had]
Ids == DOMAIN servers
Shown(c) == c.open = sopen
With(f, x, y) == [z \in DOMAIN f \cup {x} |-> IF z = x THEN y ELSE f[z]]

(* The discovery effect of InstancesPage, which runs again whenever the list  *)
(* or what was discovered changes: the calls of the run before are cancelled  *)
(* and every instance without a proxy is asked.                               *)
Rediscovers(view, rest, list, proxy, open) ==
  {c \in rest : c.kind # "discover"} \cup
    IF view = "connect" THEN {}
    ELSE {[kind |-> "discover", open |-> open, id |-> i, url |-> list[i].url, had |-> None] :
            i \in DOMAIN list \ proxy}

ServersInit ==
  /\ sopen = 1 /\ sview = "connect" /\ con = FreshCon /\ ins = FreshIns
  /\ servers = [i \in {} |-> None] /\ lastToken = None /\ synced = {} /\ gone = {}
  /\ calls = {Call("vpn", 0, None, None)}

Asks(list) == {[kind |-> "health", open |-> sopen + 1, id |-> i, url |-> list[i].url,
                had |-> None] : i \in DOMAIN list}

(* Mounting a page: the VPN is probed, or all instances are.                  *)
Open(view) ==
  /\ sopen < MaxOpens /\ view # sview /\ Cardinality(calls) < MaxCalls
  /\ sopen' = sopen + 1 /\ sview' = view /\ con' = FreshCon
  /\ ins' = [FreshIns EXCEPT !.probing = IF view = "connect" THEN {} ELSE Ids]
  /\ LET rest == calls \cup (IF view = "connect"
                             THEN {[Call("vpn", 0, None, None) EXCEPT !.open = sopen + 1]}
                             ELSE Asks(servers))
     IN calls' = Rediscovers(view, rest, servers, {}, sopen + 1)
  /\ UNCHANGED <<servers, lastToken, synced, gone>>

-----------------------------------------------------------------------------
(* ConnectPage. *)

EditUrl(u) ==
  /\ sview = "connect" /\ u # con.url
  /\ con' = [con EXCEPT !.url = u, !.result = None, !.added = FALSE]
  /\ UNCHANGED <<sopen, sview, ins, servers, lastToken, synced, calls, gone>>

(* The effect on the answer fills an address that is still empty.             *)
VpnAnswers(c, ip) ==
  /\ c \in calls /\ c.kind = "vpn" /\ calls' = calls \ {c}
  /\ con' = IF Shown(c) /\ ip # None /\ con.url = None THEN [con EXCEPT !.url = ip] ELSE con
  /\ UNCHANGED <<sopen, sview, ins, servers, lastToken, synced, gone>>

TestUrl ==
  /\ sview = "connect" /\ ~con.testing /\ con.url # None /\ Cardinality(calls) < MaxCalls
  /\ con' = [con EXCEPT !.testing = TRUE, !.result = None, !.added = FALSE]
  /\ calls' = calls \cup {Call("probe", 0, con.url, con.token)}
  /\ UNCHANGED <<sopen, sview, ins, servers, lastToken, synced, gone>>

(* The outcome is shown whatever the address is by now; the token is asked    *)
(* for once in the life of the page.                                          *)
ProbeAnswers(c, result) ==
  LET more == result = "ok" /\ c.had = None IN
  /\ c \in calls /\ c.kind = "probe"
  /\ calls' = (calls \ {c}) \cup IF more THEN {[c EXCEPT !.kind = "token"]} ELSE {}
  /\ con' = IF Shown(c) THEN [con EXCEPT !.result = result, !.testing = more] ELSE con
  /\ UNCHANGED <<sopen, sview, ins, servers, lastToken, synced, gone>>


(* updateTokenByHost compares by substring.                                   *)
TokenAnswers(c, token) ==
  /\ c \in calls /\ c.kind = "token" /\ token \in {None, c.url}
  /\ con' = IF Shown(c) THEN [con EXCEPT !.testing = FALSE,
                                         !.token = IF token = None THEN @ ELSE token] ELSE con
  /\ IF token = None
     THEN calls' = calls \ {c} /\ UNCHANGED <<servers, lastToken>>
     ELSE LET hit(i) == <<servers[i].url, token>> \in SameHost
              list == [i \in Ids |-> IF hit(i) THEN [servers[i] EXCEPT !.token = token]
                                               ELSE servers[i]]
          IN /\ lastToken' = token /\ servers' = list
             /\ calls' = IF \E i \in Ids : hit(i)
                         THEN Rediscovers(sview, calls \ {c}, list, ins.proxy, sopen)
                         ELSE calls \ {c}
  /\ UNCHANGED <<sopen, sview, ins, synced, gone>>

NextId == Cardinality(Ids) + Cardinality(gone) + 1

HandleAdd ==
  /\ sview = "connect" /\ con.result = "ok" /\ con.url # None /\ ~con.added
  /\ NextId <= MaxServers
  /\ servers' = With(servers, NextId, [url |-> con.url, token |-> con.token,
                                       health |-> "unknown"])
  /\ con' = [con EXCEPT !.added = TRUE]
  /\ UNCHANGED <<sopen, sview, ins, lastToken, synced, calls, gone>>

AddedExpires ==
  /\ con.added /\ con' = [con EXCEPT !.added = FALSE]
  /\ UNCHANGED <<sopen, sview, ins, servers, lastToken, synced, calls, gone>>

-----------------------------------------------------------------------------
(* InstancesPage. *)

ProbeOne(i) ==
  /\ sview = "instances" /\ i \in Ids /\ Cardinality(calls) < MaxCalls
  /\ ins' = [ins EXCEPT !.probing = @ \cup {i}]
  /\ \E n \in {None, "again"} :
       LET c == Call("health", i, servers[i].url, n) IN c \notin calls /\ calls' = calls \cup {c}
  /\ UNCHANGED <<sopen, sview, con, servers, lastToken, synced, gone>>

SetHealthAdds(i, health) ==   \* mutant: a late answer puts the instance back
  With(servers, i, [url |-> None, token |-> None, health |-> health])
SetHealth(i, health) ==
  [j \in Ids |-> IF j = i THEN [servers[j] EXCEPT !.health = health] ELSE servers[j]]

HealthAnswers(c, health) ==
  /\ c \in calls /\ c.kind = "health"
  /\ servers' = SetHealth(c.id, health)
  /\ ins' = IF Shown(c) THEN [ins EXCEPT !.probing = @ \ {c.id}] ELSE ins
  /\ calls' = Rediscovers(sview, calls \ {c}, servers', ins.proxy, sopen)
  /\ UNCHANGED <<sopen, sview, con, lastToken, synced, gone>>

DiscoverAnswers(c, found) ==
  /\ c \in calls /\ c.kind = "discover"
  /\ ins' = [ins EXCEPT !.proxy = IF found THEN @ \cup {c.id} ELSE @]
  /\ calls' = IF found
              THEN Rediscovers(sview, calls \cup {[c EXCEPT !.kind = "providers"]}, servers,
                               ins.proxy \cup {c.id}, sopen)
              ELSE calls \ {c}
  /\ UNCHANGED <<sopen, sview, con, servers, lastToken, synced, gone>>

(* What the desktop has configured is marked, even if the page has gone.      *)
ProvidersAnswer(c) ==
  /\ c \in calls /\ c.kind = "providers" /\ calls' = calls \ {c}
  /\ synced' = synced \cup {c.id}
  /\ UNCHANGED <<sopen, sview, con, ins, servers, lastToken, gone>>

AskDelete(i) ==
  /\ sview = "instances" /\ i \in Ids /\ ins.confirm # i
  /\ ins' = [ins EXCEPT !.confirm = i]
  /\ UNCHANGED <<sopen, sview, con, servers, lastToken, synced, calls, gone>>

(* Any timer of the last three seconds clears the question that is on show.   *)
DeleteExpires ==
  /\ ins.confirm # 0 /\ ins' = [ins EXCEPT !.confirm = 0]
  /\ UNCHANGED <<sopen, sview, con, servers, lastToken, synced, calls, gone>>

Delete(i) ==
  /\ i \in Ids /\ ins.confirm = i
  /\ servers' = [j \in Ids \ {i} |-> servers[j]] /\ gone' = gone \cup {i}
  /\ ins' = [ins EXCEPT !.confirm = 0]
  /\ calls' = Rediscovers(sview, calls, servers', ins.proxy, sopen)
  /\ UNCHANGED <<sopen, sview, con, lastToken, synced>>

CallAnswers ==
  \E c \in calls : \/ \E ip \in {None, Vpn} : VpnAnswers(c, ip)
                   \/ \E r \in {"ok", "failed"} : ProbeAnswers(c, r)
                   \/ \E t \in {None, c.url} : TokenAnswers(c, t)
                   \/ \E h \in {"online", "offline"} : HealthAnswers(c, h)
                   \/ \E found \in BOOLEAN : DiscoverAnswers(c, found)
                   \/ ProvidersAnswer(c)
Expires == AddedExpires \/ DeleteExpires

ServersNext == \/ \E view \in {"connect", "instances"} : Open(view)
               \/ \E u \in Urls : EditUrl(u)
               \/ TestUrl \/ HandleAdd \/ Expires \/ CallAnswers
               \/ \E i \in 1 .. MaxServers : ProbeOne(i) \/ AskDelete(i) \/ Delete(i)

ServersSpec == ServersInit /\ [][ServersNext]_servervars

-----------------------------------------------------------------------------
(* No answer that was on its way when an instance was deleted - its health,   *)
(* its proxy, a token for its host - brings it back.                          *)
DeletedStaysDeleted == gone \cap Ids = {}

(* The test button waits for the page's own call and for no other, so a page  *)
(* never tests two addresses at once and is never stuck.                      *)
TestingIsInFlight ==
  Cardinality({c \in calls : Shown(c) /\ c.kind \in {"probe", "token"}})
    = IF con.testing THEN 1 ELSE 0

(* A spinner of the list turns only while an answer is on its way.            *)
ProbingIsInFlight == \A i \in ins.probing : \E c \in calls : Shown(c) /\ c.kind = "health" /\ c.id = i

(* The token an instance carries was issued by its own server.                *)
TokenIsOwn == \A i \in Ids : servers[i].token \in {None, servers[i].url}
=============================================================================
