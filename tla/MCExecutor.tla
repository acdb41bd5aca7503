----------------------------- MODULE MCExecutor -----------------------------
(* Model-checking instance of Executor: every plan of up to three steps over *)
(* three ids, so that repeated ids, self-dependencies, cycles of two and     *)
(* three steps, chains behind a cycle and dangling ids all occur.            *)
EXTENDS Executor
MCIds == 1 .. 3
=============================================================================
