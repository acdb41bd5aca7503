------------------------------ MODULE ChatLog ------------------------------
(***************************************************************************)
(* What the chat service promises to whoever asks and reads one            *)
(* portfolio's history: a question is stored once, at most one answer to   *)
(* it, behind it, what is stored keeps its order, and nothing goes but by  *)
(* a clear, which takes all.  Neither need come last: the place of a       *)
(* message is taken before it is visible.  CopilotChat implements this     *)
(* specification; CopilotDrawer's service steps are built from it and keep *)
(* to it.                                                                  *)
(***************************************************************************)
EXTENDS Naturals, Sequences

CONSTANT Questions

VARIABLES
  log,    \* the history as it is read
  turn    \* question -> whether it is stored, and whether its run goes on

vars == <<log, turn>>

Turn == {"new", "asked", "over"}

Message(n, role) == [question |-> n, role |-> role]

Init ==
  /\ log = <<>>
  /\ turn = [n \in Questions |-> "new"]

Places(old) == 1 .. Len(old) + 1

\* The places behind a question, or any if it is not there.
Behind(old, n) ==
  {k \in Places(old) : \A i \in DOMAIN old : old[i] = Message(n, "user") => i < k}

Insert(old, k, message) == SubSeq(old, 1, k - 1) \o <<message>> \o SubSeq(old, k, Len(old))

WithQuestion(old, n) == {Insert(old, k, Message(n, "user")) : k \in Places(old)}
WithAnswer(old, n) == {Insert(old, k, Message(n, "assistant")) : k \in Behind(old, n)}

Goes(n, from, to) == turn[n] \in from /\ turn' = [turn EXCEPT ![n] = to]

Ask(n) == Goes(n, {"new"}, "asked") /\ log' \in WithQuestion(log, n)

Reply(n) == Goes(n, {"asked"}, "over") /\ log' \in WithAnswer(log, n)

\* Refused, failed, or given up without a client: nothing is stored any more.
Drop(n) == Goes(n, {"new", "asked"}, "over") /\ UNCHANGED log

Clear == log' = <<>> /\ UNCHANGED turn

Next == Clear \/ \E n \in Questions : Ask(n) \/ Reply(n) \/ Drop(n)

Spec == Init /\ [][Next]_vars
=============================================================================
