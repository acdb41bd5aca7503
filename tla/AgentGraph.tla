----------------------------- MODULE AgentGraph -----------------------------
(***************************************************************************)
(* The LangGraph state machine behind both agents (services/agent/graph.py *)
(* driven by services/agent/agent.py): scope_guard -> planner -> execute   *)
(* -> synthesise -> validate, up to MAX_ATTEMPTS plans with the validation *)
(* error fed back, then one rag_fallback over the document corpus, then an *)
(* honest refusal.                                                         *)
(*                                                                         *)
(* The language model is nondeterminism: a scope verdict, a plan and an    *)
(* answer are any value its schema admits, the degraded values of llm.py   *)
(* included (a failed scope call is "in scope", a failed plan is empty, a  *)
(* failed synthesis is an empty text that asks for a re-plan).  A figure   *)
(* is named by the plan step whose evidence holds it, "user" when the      *)
(* query or the conversation states it, or "invented"; the figures         *)
(* numbers_grounded waves through (at most 100, no B/M suffix) are no      *)
(* figures here.  An answer is a design when its action is propose or      *)
(* create, and factual when it is chat.  One action is one super-step of   *)
(* the graph together with GroundedAgent.run's handling of its update.     *)
(***************************************************************************)
EXTENDS Naturals, Sequences

CONSTANTS
  MAX_ATTEMPTS,      \* planner attempts before the document fallback
  RECURSION_LIMIT,   \* LangGraph's ceiling on super-steps
  StepIds,           \* the step ids a plan can use
  FallbackStep,      \* the id of rag_fallback's only step
  ToolName,          \* the tools a plan can name
  Tools              \* the ones the service registered with the executor

ASSUME AttemptsAssumption == MAX_ATTEMPTS \in Nat \ {0}
ASSUME LimitAssumption ==
  RECURSION_LIMIT \in Nat /\ 4 * MAX_ATTEMPTS + 4 <= RECURSION_LIMIT
ASSUME StepAssumption ==
  FallbackStep \in StepIds /\ {"user", "invented"} \cap StepIds = {}
ASSUME ToolsAssumption ==
  /\ ToolName \subseteq {"run_sql", "get_projection", "rag_search", "gap"}
  /\ Tools \subseteq ToolName
  /\ "rag_search" \in Tools

VARIABLES
  node,         \* the node the graph runs next, or how the run ended
  plan,         \* step id -> tool; <<>> for no plan and for an empty one
  evidence,     \* step id -> kind of evidence
  answer,       \* the answer record
  grounded,
  attempts,
  rag_tried,
  problems,     \* validation_error, as the set of its parts ({} for None)
  usage,        \* the nodes whose model calls are on the ledger, in order
  supersteps    \* super-steps LangGraph has run

vars == <<node, plan, evidence, answer, grounded, attempts, rag_tried, problems,
          usage, supersteps>>

Figures == StepIds \cup {"user", "invented"}
Kind == {"facts", "no_rows", "no_docs", "error"}
Node == {"scope_guard", "refuse", "planner", "execute", "synthesise", "validate",
         "rag_fallback", "give_up"}
Terminal == {"end", "aborted"}
Canned == {"off_topic", "cannot_answer"}
Problem == {"no_text", "no_facts", "fabricated", "failed_step", "missed"}

Plans == UNION {[S -> ToolName] : S \in SUBSET StepIds}
EvidenceLists == UNION {[S -> Kind] : S \in SUBSET StepIds}
Answer == [text : {"none", "empty", "prose"} \cup Canned, quotes : SUBSET Figures,
           design : BOOLEAN, needs_replan : BOOLEAN]

\* What the synthesiser can return: a blank text quotes nothing.
ModelAnswers ==
  {a \in Answer : /\ a.text \in {"empty", "prose"}
                  /\ a.text = "empty" => a.quotes = {}}

CannedAnswer(t) ==
  [text |-> t, quotes |-> {}, design |-> FALSE, needs_replan |-> FALSE]

\* The evidence a step's tool can come back with; every exception and every
\* missing tool has become error evidence.
Results(tool) ==
  IF tool \notin Tools THEN {"error"}
  ELSE {"error", "facts"} \cup (IF tool = "run_sql" THEN {"no_rows"} ELSE {})
                          \cup (IF tool = "rag_search" THEN {"no_docs"} ELSE {})

\* What Executor.execute can return for plan p: one item per step.
Execution(p) ==
  {e \in [DOMAIN p -> Kind] : \A s \in DOMAIN p : e[s] \in Results(p[s])}

\* Mutant: the numbers of failed items ground an answer too.
BackedByErrors(e) == DOMAIN e \cup {"user"}

\* The figures the fabrication guard accepts.
Backed(e) == {s \in DOMAIN e : e[s] = "facts"} \cup {"user"}


\* Mutant: any returned item counts, whatever it holds.
AnyItemCounts(e) == DOMAIN e # {}

GatheredFacts(e) == \E s \in DOMAIN e : e[s] \in {"facts", "no_docs"}

RetrievalEmpty(p, e, a) == DOMAIN p # {} /\ ~GatheredFacts(e) /\ ~a.design

IsGrounded(p, e, a) ==
  /\ a.text # "empty"
  /\ ~RetrievalEmpty(p, e, a)
  /\ a.design \/ a.quotes \subseteq Backed(e)

Problems(p, e, a) ==
  (IF a.text = "empty" THEN {"no_text"}
   ELSE IF RetrievalEmpty(p, e, a) THEN {"no_facts"}
   ELSE IF ~IsGrounded(p, e, a) THEN {"fabricated"} ELSE {})
  \cup (IF \E s \in DOMAIN e : e[s] = "error" THEN {"failed_step"} ELSE {})
  \cup (IF a.needs_replan THEN {"missed"} ELSE {})

\* Mutant: the document fallback is tried before the re-plans.
RouteFallbackFirst(ps, ok) ==
  IF ~ok /\ ~rag_tried THEN "rag_fallback"
  ELSE IF ps # {} /\ attempts < MAX_ATTEMPTS THEN "planner"
  ELSE IF ok THEN "end" ELSE "give_up"

RouteAfterValidate(ps, ok) ==
  IF ps # {} /\ attempts < MAX_ATTEMPTS THEN "planner"
  ELSE IF ok THEN "end"
  ELSE IF ~rag_tried THEN "rag_fallback" ELSE "give_up"

Init ==
  /\ node = "scope_guard"
  /\ plan = <<>>
  /\ evidence = <<>>
  /\ answer = CannedAnswer("none")
  /\ grounded = FALSE
  /\ attempts = 0
  /\ rag_tried = FALSE
  /\ problems = {}
  /\ usage = <<>>
  /\ supersteps = 0

\* Every super-step moves the graph from one node to the next.
Goto(from, to) ==
  /\ node = from
  /\ node' = to
  /\ supersteps' = supersteps + 1

\* Mutant: the node returns its own usage instead of the grown ledger.
SpentAlone(n) == usage' = <<n>>

\* A node that called the model puts its usage on the ledger.
Spent(n) == usage' = Append(usage, n)

ScopeGuard ==
  /\ \E inScope \in BOOLEAN :
       Goto("scope_guard", IF inScope THEN "planner" ELSE "refuse")
  /\ Spent("scope_guard")
  /\ UNCHANGED <<plan, evidence, answer, grounded, attempts, rag_tried, problems>>

Refuse ==
  /\ Goto("refuse", "end")
  /\ answer' = CannedAnswer("off_topic")
  /\ grounded' = TRUE
  /\ UNCHANGED <<plan, evidence, attempts, rag_tried, problems, usage>>

\* Mutant: an attempt that is not counted.
PlannerUncounted ==
  /\ Goto("planner", "execute")
  /\ plan' \in Plans
  /\ Spent("planner")
  /\ UNCHANGED <<evidence, answer, grounded, attempts, rag_tried, problems>>

Planner ==
  /\ Goto("planner", "execute")
  /\ plan' \in Plans
  /\ attempts' = attempts + 1
  /\ Spent("planner")
  /\ UNCHANGED <<evidence, answer, grounded, rag_tried, problems>>

\* Mutant: the node waits for a first step an empty plan never has.
ExecuteNeedsStep ==
  /\ DOMAIN plan # {}
  /\ Goto("execute", "synthesise")
  /\ evidence' \in Execution(plan)
  /\ UNCHANGED <<plan, answer, grounded, attempts, rag_tried, problems, usage>>

Execute ==
  /\ Goto("execute", "synthesise")
  /\ evidence' \in Execution(plan)
  /\ UNCHANGED <<plan, answer, grounded, attempts, rag_tried, problems, usage>>

Synthesise ==
  /\ Goto("synthesise", "validate")
  /\ answer' \in ModelAnswers
  /\ Spent("synthesiser")
  /\ UNCHANGED <<plan, evidence, grounded, attempts, rag_tried, problems>>

Validate ==
  LET ps == Problems(plan, evidence, answer)
      ok == IsGrounded(plan, evidence, answer)
  IN  /\ Goto("validate", RouteAfterValidate(ps, ok))
      /\ grounded' = ok
      /\ problems' = ps
      /\ UNCHANGED <<plan, evidence, answer, attempts, rag_tried, usage>>

RagFallback ==
  LET fallback == [s \in {FallbackStep} |-> "rag_search"]
  IN  /\ Goto("rag_fallback", "validate")
      /\ plan' = fallback
      /\ evidence' \in Execution(fallback)
      /\ answer' \in ModelAnswers
      /\ rag_tried' = TRUE
      /\ Spent("rag_fallback")
      /\ UNCHANGED <<grounded, attempts, problems>>

\* Mutant: the refusal leaves the rejected answer in place.
GiveUpKeepsAnswer ==
  /\ Goto("give_up", "end")
  /\ UNCHANGED <<plan, evidence, answer, grounded, attempts, rag_tried, problems, usage>>

GiveUp ==
  /\ Goto("give_up", "end")
  /\ answer' = CannedAnswer("cannot_answer")
  /\ UNCHANGED <<plan, evidence, grounded, attempts, rag_tried, problems, usage>>

\* The client goes away: the generator is closed between two super-steps or
\* the node's task is cancelled, and its update is never applied.
Abort ==
  /\ node \in Node
  /\ node' = "aborted"
  /\ UNCHANGED <<plan, evidence, answer, grounded, attempts, rag_tried, problems,
                 usage, supersteps>>

Step == \/ ScopeGuard \/ Refuse \/ Planner \/ Execute \/ Synthesise \/ Validate
        \/ RagFallback \/ GiveUp

Next == Step \/ Abort

\* The event loop keeps running the node the graph is at, given that every
\* model call returns or raises (the code sets no timeout of its own for them;
\* queries have one); nobody has to abort.
Spec == Init /\ [][Next]_vars /\ WF_vars(Step)

-----------------------------------------------------------------------------
Delivered == node = "end"

\* Every variable stays in its type; in particular the planner runs at most
\* MAX_ATTEMPTS times (the comment on graph.py:21-25).
TypeOK ==
  /\ node \in Node \cup Terminal
  /\ plan \in Plans
  /\ evidence \in EvidenceLists
  /\ answer \in Answer
  /\ grounded \in BOOLEAN
  /\ attempts \in 0 .. MAX_ATTEMPTS
  /\ rag_tried \in BOOLEAN
  /\ problems \in SUBSET Problem
  /\ usage \in Seq({"scope_guard", "planner", "synthesiser", "rag_fallback"})
  /\ supersteps \in Nat

\* Never an ungrounded answer (graph.py:7-8): a delivered factual answer
\* quotes a figure only if the user stated it or the evidence delivered with
\* it, of the last attempt and not of an earlier one, holds it.
ShippedFiguresBacked ==
  Delivered /\ answer.text = "prose" /\ ~answer.design =>
    \A f \in answer.quotes :
      f = "user" \/ (f \in DOMAIN evidence /\ evidence[f] = "facts")

\* A factual answer whose plan ran retrieval is never delivered over evidence
\* that is all failures and "(no rows)" (graph.py:139-147).
NoAnswerFromFailedRetrieval ==
  Delivered /\ answer.text = "prose" /\ ~answer.design /\ DOMAIN plan # {} =>
    \E s \in DOMAIN evidence : evidence[s] \notin {"no_rows", "error"}

\* The same for every kind of empty retrieval, as the comment on
\* graph.py:139-147 states it: an answer needs some gathered fact.  The code
\* counts rag_search's "(no matching documents)" as one.
NoAnswerFromEmptyRetrieval ==
  Delivered /\ answer.text = "prose" /\ ~answer.design /\ DOMAIN plan # {} =>
    \E s \in DOMAIN evidence : evidence[s] = "facts"

\* Retries come in the order the module docstring gives (graph.py:5-8): the
\* planner runs again only with a problem to correct, the document corpus is
\* tried only when the planner attempts are spent, the refusal only after the
\* corpus, and an answer with an open problem is delivered only when no
\* attempt is left.
RetryDiscipline ==
  /\ node = "planner" /\ attempts > 0 => problems # {}
  /\ node = "rag_fallback" \/ rag_tried => attempts = MAX_ATTEMPTS
  /\ node = "give_up" \/ answer.text = "cannot_answer" => rag_tried
  /\ Delivered /\ answer.text = "prose" /\ problems # {} => attempts = MAX_ATTEMPTS

\* The ledger the audit is written from names every model call of the run, in
\* order and once: the scope call, a planner and a synthesiser call for each
\* attempt, the fallback's synthesis (_spent, graph.py:77-78).
UsageLedger ==
  LET open == IF node \in {"execute", "synthesise"} THEN 1 ELSE 0
      last == IF rag_tried THEN 1 ELSE 0
  IN  node \notin {"scope_guard", "aborted"} =>
        /\ Len(usage) = 1 + 2 * attempts - open + last
        /\ usage[1] = "scope_guard"
        /\ \A k \in 1 .. attempts :
             /\ usage[2 * k] = "planner"
             /\ 2 * k + 1 <= Len(usage) => usage[2 * k + 1] = "synthesiser"
        /\ rag_tried => usage[2 * attempts + 2] = "rag_fallback"

\* LangGraph's recursion error never cuts a run short (graph.py:26-29).
WithinRecursionLimit == supersteps <= RECURSION_LIMIT

\* Every run delivers, unless it is aborted: no loop of re-plans, no node
\* without a way out.
Termination == <>(node \in Terminal)

\* The graph implements the agent the services rely on.
Run == INSTANCE AgentRun WITH
  outcome <- IF node = "aborted" THEN "aborted"
             ELSE IF ~Delivered THEN "running"
             ELSE IF answer.text = "off_topic" THEN "refused"
             ELSE IF answer.text = "cannot_answer" THEN "unanswered"
             ELSE IF answer.design THEN "designed" ELSE "answered",
  quoted <- IF Delivered THEN answer.quotes ELSE {},
  backed <- IF Delivered
            THEN {s \in DOMAIN evidence : evidence[s] = "facts"} \cup {"user"} ELSE {}

\* Refinement: at most one delivery, and only of a kind AgentRun allows.
ImplementsAgentRun == Run!Spec
=============================================================================
