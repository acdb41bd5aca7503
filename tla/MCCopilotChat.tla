--------------------------- MODULE MCCopilotChat ---------------------------
(* Model-checking instance of CopilotChat: two concurrent requests, a       *)
(* context window of two messages, so that one request's question and       *)
(* answer push the other's question out, runs of up to two model calls, one *)
(* clear.                                                                   *)
EXTENDS CopilotChat
CONSTANTS r1, r2
MCRequests == {r1, r2}
=============================================================================
