--------------------------- MODULE MCAgentGraph ---------------------------
(* Model-checking instance of AgentGraph: two plan steps, the code's three *)
(* planner attempts, the tightest super-step ceiling that                  *)
(* LimitAssumption allows (the code's 60 is looser), and the draft agent's *)
(* two tools, so a gap step finds no tool.                                 *)
EXTENDS AgentGraph
CONSTANTS s1, s2
MCToolName == {"run_sql", "rag_search", "gap"}
MCTools == {"run_sql", "rag_search"}
MCSteps == {s1, s2}
===========================================================================
