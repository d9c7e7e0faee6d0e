---------------------------- MODULE ChatService -----------------------------
(***************************************************************************)
(* What the desktop's chat proxy promises a phone that talks to the agent  *)
(* through it, with no word of sockets, locks or retries: a request is     *)
(* refused, answered, failed, given up (the run may still be going on      *)
(* behind it) or dropped by its caller, once; and the text it is given is  *)
(* its own, except that text of a request given up earlier may be mixed    *)
(* in.  That a request ends is not promised: the gateway may keep it       *)
(* waiting.                                                                *)
(***************************************************************************)
EXTENDS FiniteSets

CONSTANT Request

VARIABLES phase,  \* where each request is
          text    \* the requests whose text each request was given

vars == <<phase, text>>

Ended == {"refused", "answered", "failed", "gaveup", "dropped"}
(* The text of such a request may still come out of the gateway. *)
GivenUp == {q \in Request : phase[q] \in {"gaveup", "dropped"}}

Init == /\ phase = [r \in Request |-> "new"]
        /\ text = [r \in Request |-> {}]

Accept(r) == /\ phase[r] = "new"
             /\ phase' = [phase EXCEPT ![r] = "pending"]
             /\ UNCHANGED text

(* Text is added while the request is pending. *)
Hear(r) == /\ phase[r] = "pending"
           /\ \E q \in {r} \cup GivenUp : text' = [text EXCEPT ![r] = @ \cup {q}]
           /\ UNCHANGED phase

(* An answer has text, whose last piece may come with it. *)
Answer(r) == /\ phase[r] = "pending"
             /\ phase' = [phase EXCEPT ![r] = "answered"]
             /\ \/ text[r] # {} /\ UNCHANGED text
                \/ text' = [text EXCEPT ![r] = @ \cup {r}]

Fail(r) == /\ phase[r] = "pending"
           /\ \E e \in {"refused", "failed", "gaveup", "dropped"} :
                 phase' = [phase EXCEPT ![r] = e]
           /\ UNCHANGED text

Refuse(r) == /\ phase[r] = "new"
             /\ phase' = [phase EXCEPT ![r] = "refused"]
             /\ UNCHANGED text

End(r) == Answer(r) \/ Fail(r)

Next == \E r \in Request : Accept(r) \/ Hear(r) \/ Refuse(r) \/ End(r)

Spec == Init /\ [][Next]_vars
=============================================================================
