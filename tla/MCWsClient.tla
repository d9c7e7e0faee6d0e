----------------------------- MODULE MCWsClient -----------------------------
(* WsClient with small sets of requests and clients for TLC. *)
EXTENDS WsClient
CONSTANTS r1, r2, c1

TwoRequests == {r1, r2}
OneClient == {c1}
AllKinds == {"done", "text", "fail", "nak", "err"}
=============================================================================
