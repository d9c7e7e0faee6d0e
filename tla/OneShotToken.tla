---------------------------- MODULE OneShotToken ----------------------------
(***************************************************************************)
(* What the pairing of a phone promises, with no word of servers, ports or *)
(* connections: a token is offered once, replaces the one before it, is    *)
(* accepted at most once and only while it is the latest and not expired.  *)
(***************************************************************************)
CONSTANTS Token, NoToken

VARIABLES current,   \* the token on offer
          offered,   \* every token there was
          expired,
          accepted

vars == <<current, offered, expired, accepted>>

Init == current = NoToken /\ offered = {} /\ expired = {} /\ accepted = {}

Offer(t) == /\ t \notin offered
            /\ current' = t /\ offered' = offered \cup {t}
            /\ UNCHANGED <<expired, accepted>>

Accept == /\ current \in offered \ (expired \cup accepted)
          /\ accepted' = accepted \cup {current}
          /\ UNCHANGED <<current, offered, expired>>

Expire == /\ \E some \in SUBSET offered : expired' = expired \cup some
          /\ UNCHANGED <<current, offered, accepted>>

Next == (\E t \in Token : Offer(t)) \/ Accept \/ Expire

Spec == Init /\ [][Next]_vars
=============================================================================
