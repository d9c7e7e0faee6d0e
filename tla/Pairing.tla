------------------------------ MODULE Pairing -------------------------------
(***************************************************************************)
(* Pairing a phone with the desktop by a QR code                           *)
(* (apps/desktop/src-tauri/src/pairing.rs): every generation stores a new  *)
(* token in the shared PairingState, starts a verify server of its own and *)
(* then writes that server's port; a server takes one connection after the *)
(* other until it has accepted a token or its time is over.  The commands  *)
(* are called by several tasks, so generations interleave.                 *)
(*                                                                         *)
(* A generation and its token are one value of Gen.  Times are kept as     *)
(* what is left of them; wall clock and timer go at the same pace.         *)
(***************************************************************************)
EXTENDS Naturals

CONSTANTS Gen,       \* generations of a QR code
          Conn,      \* connections phones make to the verify servers
          NoToken,   \* no token, or a request that holds none
          Ttl,       \* TOKEN_TTL_SECS
          Grace      \* what a server stays longer than its token

ASSUME PairingAssumption == /\ NoToken \notin Gen
                            /\ Ttl \in Nat /\ Grace \in Nat

VARIABLES active,    \* PairingState: token, used, verify_port (its generation)
          expires,   \* what is left until now_secs() > expires_at, for each token
          gen,       \* idle, stored, bound, shown
          srv,       \* each generation's server: off, accept, read, closed
          deadline,  \* what is left until it stops accepting
          conn,      \* new, pending, open, ok, refused, dropped
          to,        \* the server a connection goes to
          posted,    \* the token its request carries
          accepts    \* how often each token was accepted

state == <<active, expires, accepts>>
net == <<conn, to, posted>>
vars == <<active, expires, gen, srv, deadline, conn, to, posted, accepts>>

Init == /\ active = [token |-> NoToken, used |-> FALSE, port |-> NoToken]
        /\ expires = [g \in Gen |-> 0]
        /\ gen = [g \in Gen |-> "idle"]
        /\ srv = [g \in Gen |-> "off"]
        /\ deadline = [g \in Gen |-> 0]
        /\ conn = [c \in Conn |-> "new"]
        /\ to = [c \in Conn |-> NoToken]
        /\ posted = [c \in Conn |-> NoToken]
        /\ accepts = [g \in Gen |-> 0]

-----------------------------------------------------------------------------
(* generate_pair_qr_inner, lock by lock *)

Store(g) == /\ gen[g] = "idle"
            /\ active' = [token |-> g, used |-> FALSE, port |-> NoToken]
            /\ expires' = [expires EXCEPT ![g] = Ttl + 1]
            /\ gen' = [gen EXCEPT ![g] = "stored"]
            /\ UNCHANGED <<srv, deadline, net, accepts>>

(* start_verify_server: bound and accepting, bound by a task that fails at   *)
(* once, or not bound, when the QR code carries no port.                     *)
Serve(g) == /\ gen[g] = "stored"
            /\ \E up \in {"accept", "closed", "off"} :
                 /\ srv' = [srv EXCEPT ![g] = up]
                 /\ gen' = [gen EXCEPT ![g] = IF up = "off" THEN "shown" ELSE "bound"]
            /\ deadline' = [deadline EXCEPT ![g] = Ttl + Grace]
            /\ UNCHANGED <<state, net>>

(* The second lock: whatever token is active by now gets the port. *)
SetPort(g) == /\ gen[g] = "bound"
              /\ active' = [active EXCEPT !.port = g]
              /\ gen' = [gen EXCEPT ![g] = "shown"]
              /\ UNCHANGED <<expires, srv, deadline, net, accepts>>

-----------------------------------------------------------------------------
(* The test both ways of verification make under the lock. *)
ValidAlways(t) == t # NoToken /\ active.token = t /\ ~active.used        \* mutant: the time is not looked at
Valid(t) == t # NoToken /\ active.token = t /\ ~active.used /\ expires[t] > 0

ConsumeNot(t) == /\ accepts' = [accepts EXCEPT ![t] = @ + 1]   \* mutant: used is not set
                 /\ UNCHANGED <<active, expires>>
Consume(t) == /\ active' = [active EXCEPT !.used = TRUE]
              /\ accepts' = [accepts EXCEPT ![t] = @ + 1]
              /\ UNCHANGED expires

(* The command verify_pair_token; a refusal changes nothing. *)
VerifyPairToken(t) == /\ Valid(t) /\ Consume(t)
                      /\ UNCHANGED <<gen, srv, deadline, net>>

-----------------------------------------------------------------------------
(* The verify server and its peers *)

Waiting(g) == {c \in Conn : to[c] = g /\ conn[c] = "pending"}
Reading(g) == {c \in Conn : to[c] = g /\ conn[c] = "open"}

Shown == {g \in Gen : gen[g] = "shown"}

(* A phone connects to a port of a QR code; its request will carry the token *)
(* of a QR code, if any token at all.                                        *)
Connect(c, g, t) == /\ conn[c] = "new" /\ srv[g] \in {"accept", "read"}
                    /\ g \in Shown /\ t \in Shown \cup {NoToken}
                    /\ conn' = [conn EXCEPT ![c] = "pending"]
                    /\ to' = [to EXCEPT ![c] = g]
                    /\ posted' = [posted EXCEPT ![c] = t]
                    /\ UNCHANGED <<state, gen, srv, deadline>>

(* timeout_at looks at the listener first and at the clock second. *)
Take(g, c) == /\ srv[g] = "accept" /\ c \in Waiting(g)
              /\ srv' = [srv EXCEPT ![g] = "read"]
              /\ conn' = [conn EXCEPT ![c] = "open"]
              /\ UNCHANGED <<state, gen, deadline, to, posted>>

(* The listener goes with its task, and so do the connections not taken. *)
Closed(g, others) == /\ srv' = [srv EXCEPT ![g] = "closed"]
                     /\ conn' = [c \in Conn |-> IF c \in Waiting(g) THEN "dropped"
                                                                  ELSE others[c]]

Stays(g) == FALSE   \* mutant: accept() without a timeout
TimedOut(g) == deadline[g] = 0 /\ Waiting(g) = {}

TimeOut(g) == /\ srv[g] = "accept" /\ TimedOut(g)
              /\ Closed(g, conn)
              /\ UNCHANGED <<state, gen, deadline, to, posted>>

AcceptFails(g) == /\ srv[g] = "accept"
                  /\ Closed(g, conn)
                  /\ UNCHANGED <<state, gen, deadline, to, posted>>

Answer(g, c, how) == /\ srv' = [srv EXCEPT ![g] = "accept"]
                     /\ conn' = [conn EXCEPT ![c] = how]
                     /\ UNCHANGED <<state, gen, deadline, to, posted>>

(* Closed by the peer, a preflight, another path: no verdict. *)
NoVerdict(g, c) == /\ srv[g] = "read" /\ c \in Reading(g)
                   /\ Answer(g, c, "dropped")

(* Reading stops at the end of the header: a body in a later segment is not  *)
(* seen, and the request holds no token.                                     *)
Seen(c) == {posted[c], NoToken}

Refuse(g, c) == /\ srv[g] = "read" /\ c \in Reading(g)
                /\ \E t \in Seen(c) : ~Valid(t)
                /\ Answer(g, c, "refused")

(* The token is consumed though the response may not get through. *)
Accept(g, c) == /\ srv[g] = "read" /\ c \in Reading(g)
                /\ Valid(posted[c]) /\ Consume(posted[c])
                /\ \E how \in {"ok", "dropped"} : Closed(g, [conn EXCEPT ![c] = how])
                /\ UNCHANGED <<gen, deadline, to, posted>>

Read(g) == \E c \in Conn : NoVerdict(g, c) \/ Refuse(g, c) \/ Accept(g, c)

LessRaw(left) == [g \in Gen |-> left[g] - 1]   \* mutant: expires_at - now_secs(), in Rust's u64
Less(left) == [g \in Gen |-> IF left[g] > 0 THEN left[g] - 1 ELSE 0]

Tick == /\ expires' = Less(expires) /\ deadline' = Less(deadline)
        /\ UNCHANGED <<active, accepts, gen, srv, net>>

Generate(g) == Store(g) \/ Serve(g) \/ SetPort(g)
ServerStep(g) == (\E c \in Conn : Take(g, c)) \/ TimeOut(g)
Next == \/ \E g \in Gen : Generate(g) \/ VerifyPairToken(g) \/ ServerStep(g)
                          \/ AcceptFails(g) \/ Read(g)
        \/ \E c \in Conn, g \in Gen, t \in Gen \cup {NoToken} : Connect(c, g, t)
        \/ Tick

(* Time passes and tasks are polled; a phone owes the server nothing. *)
Spec == /\ Init /\ [][Next]_vars
        /\ WF_vars(Tick) /\ \A g \in Gen : WF_vars(ServerStep(g))

-----------------------------------------------------------------------------
TypeOK == /\ active \in [token : Gen \cup {NoToken}, used : BOOLEAN, port : Gen \cup {NoToken}]
          /\ expires \in [Gen -> 0..(Ttl + 1)]
          /\ gen \in [Gen -> {"idle", "stored", "bound", "shown"}]
          /\ srv \in [Gen -> {"off", "accept", "read", "closed"}]
          /\ deadline \in [Gen -> 0..(Ttl + Grace)]
          /\ conn \in [Conn -> {"new", "pending", "open", "ok", "refused", "dropped"}]
          /\ to \in [Conn -> Gen \cup {NoToken}]
          /\ posted \in [Conn -> Gen \cup {NoToken}]
          /\ accepts \in [Gen -> Nat]

(* A token pairs one phone, by whichever server or command it is brought.    *)
AcceptedOnce == \A g \in Gen : accepts[g] <= 1

(* A phone is told that it is paired only if its token was accepted, and no  *)
(* two phones are told so for one token.                                     *)
OkIsAccepted == \A c, d \in Conn :
  conn[c] = "ok" => /\ accepts[posted[c]] = 1
                    /\ conn[d] = "ok" /\ posted[d] = posted[c] => d = c

(* The latest token, while neither used nor expired, is what an abstract     *)
(* one-shot token is.                                                        *)
OneShot == INSTANCE OneShotToken WITH
  Token <- Gen, NoToken <- NoToken, current <- active.token,
  offered <- {g \in Gen : gen[g] # "idle"},
  expired <- {g \in Gen : gen[g] # "idle" /\ expires[g] = 0},
  accepted <- {g \in Gen : accepts[g] > 0}
ImplementsOneShot == OneShot!Spec

(* Nothing but a single peer that neither sends nor hangs up keeps a verify  *)
(* server past its time: in the end each has closed, or is held for ever by  *)
(* one read.                                                                 *)
ServerEndsOrIsHeld == \A g \in Gen : <>[](srv[g] # "accept")
=============================================================================
