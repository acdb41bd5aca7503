----------------------------- MODULE SseReader ------------------------------
(***************************************************************************)
(* readSseEvents of lib/sse.ts.  The server writes an event as a line      *)
(* "event: ...", a line "data: ..." and an empty line; the network cuts    *)
(* that text anywhere.  The reader appends what arrives to a buffer and,   *)
(* as long as the buffer holds two line ends in a row, cuts off the block  *)
(* before them and hands its event to the caller.  A character is a whole  *)
(* line's text or a line end.                                              *)
(***************************************************************************)
EXTENDS Naturals, Sequences, FiniteSetsExt

NL == [line |-> "end", of |-> ""]
EventLine(e) == [line |-> "event", of |-> e]
DataLine(e) == [line |-> "data", of |-> e]

\* _sse of the agents' services.
Text(e) == <<EventLine(e), NL, DataLine(e), NL, NL>>

Separators(buffer) == {i \in 1 .. Len(buffer) - 1 : buffer[i] = NL /\ buffer[i + 1] = NL}

HasBlock(buffer) == Separators(buffer) # {}
Block(buffer) == SubSeq(buffer, 1, Min(Separators(buffer)) - 1)
\* Mutant: the remainder is dropped with the block.
NoRest(buffer) == <<>>

Rest(buffer) == SubSeq(buffer, Min(Separators(buffer)) + 2, Len(buffer))

\* The last line of a kind wins.
LineOf(block, kind) ==
  LET lines == {i \in DOMAIN block : block[i].line = kind}
  IN  IF lines = {} THEN "" ELSE block[Max(lines)].of

\* A block with no event or no data is skipped.
Yields(block) == LineOf(block, "event") # "" /\ LineOf(block, "data") # ""

\* agentStageLabel: what the page says the agent is doing; "" leaves it as it is.
StageLabel(event) ==
  CASE event = "plan" -> "planning"
    [] event = "evidence" -> "synthesizing"
    [] OTHER -> ""
=============================================================================
