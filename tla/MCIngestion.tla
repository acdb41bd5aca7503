---------------------------- MODULE MCIngestion ----------------------------
(* Model-checking instance of Ingestion: two concurrent requests and four   *)
(* calls over three payloads: one with valid and rejected rows, one whose   *)
(* rows are all rejected, one its adapter cannot parse.                     *)
EXTENDS Ingestion
CONSTANTS r1, r2, mixed, bad, garbled
MCRequests == {r1, r2}
MCPayloads == {mixed, bad, garbled}
MCShape ==
  [p \in MCPayloads |-> [parses |-> p # garbled,
                         valid |-> IF p = mixed THEN 2 ELSE 0,
                         rejects |-> IF p = garbled THEN 0 ELSE 1]]
=============================================================================
