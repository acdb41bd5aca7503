------------------------------ MODULE AgentRun ------------------------------
(***************************************************************************)
(* What one run of the grounded agent promises the service that started    *)
(* it: at most one delivery, and the delivered text is a canned refusal, a *)
(* canned "cannot answer", a portfolio design, or prose whose every        *)
(* checked figure is backed by the evidence delivered with it (or by the   *)
(* user's own words).  AgentGraph implements this specification; the       *)
(* services only ever see the agent through it.                            *)
(***************************************************************************)
CONSTANT Figures    \* the figures an answer can quote and evidence can hold

VARIABLES
  outcome,   \* "running" until the run delivers or is cut off
  quoted,    \* the figures of the delivered text
  backed     \* the figures of the delivered evidence and of the user's words

vars == <<outcome, quoted, backed>>

Outcome == {"running", "refused", "answered", "designed", "unanswered", "aborted"}

Init ==
  /\ outcome = "running"
  /\ quoted = {}
  /\ backed = {}

\* A delivery of figure-free text the graph wrote itself, or no delivery.
Close(o) ==
  /\ outcome = "running"
  /\ outcome' = o
  /\ quoted' = {}
  /\ backed' \in SUBSET Figures

Refuse == Close("refused")

GiveUp == Close("unanswered")

Abort == Close("aborted")

\* An answer of the model: figures only out of what is delivered with it.
Answer ==
  /\ outcome = "running"
  /\ outcome' = "answered"
  /\ backed' \in SUBSET Figures
  /\ quoted' \in SUBSET backed'

\* A portfolio design carries the figures the model chose.
Design ==
  /\ outcome = "running"
  /\ outcome' = "designed"
  /\ backed' \in SUBSET Figures
  /\ quoted' \in SUBSET Figures

Next == Refuse \/ GiveUp \/ Abort \/ Answer \/ Design

Spec == Init /\ [][Next]_vars
=============================================================================
