----------------------------- MODULE MCChatProxy ----------------------------
(* ChatProxy with small sets of requests for TLC. *)
EXTENDS ChatProxy
CONSTANTS r1, r2

TwoRequests == {r1, r2}
AllKinds == {"done", "text", "fail", "nak", "err"}
Answers == {"done", "err"}
DoneOnly == {"done"}
=============================================================================
