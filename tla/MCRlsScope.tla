---------------------------- MODULE MCRlsScope -----------------------------
(* Model-checking instance of RlsScope: two tasks, two connections.         *)
EXTENDS RlsScope, TLC
CONSTANTS t1, t2, c1, c2
MCTasks == {t1, t2}
MCConnections == {c1, c2}
=============================================================================
