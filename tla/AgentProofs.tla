---------------------------- MODULE AgentProofs -----------------------------
(***************************************************************************)
(* Proofs about AgentGraph, for every number of attempts, every recursion  *)
(* limit that LimitAssumption admits, every set of step ids and of tools,  *)
(* and about Executor, for plans of any length over any ids.               *)
(*                                                                         *)
(* AgentGraph's properties are not inductive: they speak of a delivered    *)
(* run, and the facts that make them true are established several          *)
(* super-steps earlier.  Inv adds, node by node, what the graph has done on*)
(* the way there: how often it planned, whether the corpus was tried, that *)
(* the evidence is that of the current plan, and how many super-steps it   *)
(* took.                                                                   *)
(*                                                                         *)
(* In Executor, until the loop ends, a step remains exactly if its id has no*)
(* evidence, and a level is all that was ready when it began; both hold    *)
(* although ids may repeat.  What can never be unblocked never gets evidence*)
(* of a tool, and what is left when nothing is ready cannot be unblocked.  *)
(***************************************************************************)
EXTENDS AgentGraph, Executor, Induction

\* What is true of the answer on the nodes that can see one.
AnswerInv ==
  /\ node \in {"validate", "rag_fallback", "give_up"} => answer \in ModelAnswers
  /\ node \notin {"end", "aborted"} => answer.text \notin Canned
  /\ node = "end" => answer.text \in {"prose"} \cup Canned
  /\ node = "end" /\ answer.text = "prose" =>
       /\ IsGrounded(plan, evidence, answer)
       /\ problems # {} => attempts = MAX_ATTEMPTS
  /\ node = "end" /\ answer.text \in Canned => answer.quotes = {}
  /\ answer.text = "cannot_answer" => rag_tried

\* The evidence a node reads is that of the plan it stands beside.
EvidenceInv ==
  /\ node \in {"synthesise", "validate", "rag_fallback", "give_up"} =>
       DOMAIN evidence = DOMAIN plan
  /\ node = "end" /\ answer.text = "prose" => DOMAIN evidence = DOMAIN plan

\* Where in its course the run is, counted in attempts.
AttemptsInv ==
  /\ node \in {"scope_guard", "refuse"} => attempts = 0
  /\ node = "planner" => /\ attempts < MAX_ATTEMPTS
                         /\ attempts > 0 => problems # {}
  /\ node \in {"execute", "synthesise", "validate"} => attempts > 0
  /\ node \in {"scope_guard", "refuse", "planner", "execute", "synthesise", "rag_fallback"} =>
       ~rag_tried
  /\ node = "rag_fallback" \/ rag_tried => attempts = MAX_ATTEMPTS
  /\ node = "give_up" => rag_tried

\* Super-steps taken, exactly on the way and bounded at the end.
StepsInv ==
  /\ node = "scope_guard" => supersteps = 0
  /\ node = "refuse" => supersteps = 1
  /\ node = "planner" => supersteps = 4 * attempts + 1
  /\ node = "execute" => supersteps = 4 * attempts - 2
  /\ node = "synthesise" => supersteps = 4 * attempts - 1
  /\ node = "validate" => supersteps = 4 * attempts + (IF rag_tried THEN 2 ELSE 0)
  /\ node = "rag_fallback" => supersteps = 4 * attempts + 1
  /\ node = "give_up" => supersteps = 4 * attempts + 3
  /\ supersteps <= 4 * MAX_ATTEMPTS + 4

\* The ledger, and that it is empty before the first call.
LedgerInv == UsageLedger /\ (node = "scope_guard" => usage = <<>>)

Inv == TypeOK /\ AnswerInv /\ EvidenceInv /\ AttemptsInv /\ StepsInv /\ LedgerInv

-----------------------------------------------------------------------------
\* Every step keeps the variables in their types, given that the planner is
\* entered only with an attempt left.
LEMMA TypeStep == TypeOK /\ AttemptsInv /\ [Next]_vars => TypeOK'
<1> SUFFICES ASSUME TypeOK, AttemptsInv, [Next]_vars PROVE TypeOK'
  OBVIOUS
<1> USE AttemptsAssumption, StepAssumption, ToolsAssumption
<1>1. CASE ScopeGuard
  BY <1>1 DEF TypeOK, ScopeGuard, Goto, Spent, Node
<1>2. CASE Refuse
  <2>1. CannedAnswer("off_topic") \in Answer
    BY DEF CannedAnswer, Answer, Canned
  <2>2. QED BY <1>2, <2>1 DEF TypeOK, Refuse, Goto, Terminal
<1>3. CASE Planner
  BY <1>3 DEF TypeOK, AttemptsInv, Planner, Goto, Spent, Node
<1>4. CASE Execute
  <2>1. evidence' \in EvidenceLists
    BY <1>4 DEF TypeOK, Execute, Execution, EvidenceLists, Plans
  <2>2. QED BY <1>4, <2>1 DEF TypeOK, Execute, Goto, Node
<1>5. CASE Synthesise
  BY <1>5 DEF TypeOK, Synthesise, Goto, Spent, Node, ModelAnswers
<1>6. CASE Validate
  <2>1. RouteAfterValidate(problems', grounded') \in Node \cup Terminal
    BY DEF RouteAfterValidate, Node, Terminal
  <2>2. Problems(plan, evidence, answer) \in SUBSET Problem
    BY DEF Problems, Problem
  <2>3. IsGrounded(plan, evidence, answer) \in BOOLEAN
    BY DEF IsGrounded
  <2>4. QED BY <1>6, <2>1, <2>2, <2>3 DEF TypeOK, Validate, Goto
<1>7. CASE RagFallback
  <2> DEFINE fallback == [s \in {FallbackStep} |-> "rag_search"]
  <2>1. fallback \in Plans
    <3>1. fallback \in [{FallbackStep} -> ToolName]
      OBVIOUS
    <3>2. {FallbackStep} \in SUBSET StepIds
      OBVIOUS
    <3> HIDE DEF fallback
    <3>3. QED BY <3>1, <3>2 DEF Plans
  <2>2. evidence' \in EvidenceLists
    BY <1>7, <2>1 DEF RagFallback, Execution, EvidenceLists
  <2>3. QED BY <1>7, <2>1, <2>2 DEF TypeOK, RagFallback, Goto, Spent, Node, ModelAnswers
<1>8. CASE GiveUp
  <2>1. CannedAnswer("cannot_answer") \in Answer
    BY DEF CannedAnswer, Answer, Canned
  <2>2. QED BY <1>8, <2>1 DEF TypeOK, GiveUp, Goto, Terminal
<1>9. CASE Abort
  BY <1>9 DEF TypeOK, Abort, Terminal
<1>10. CASE UNCHANGED vars
  BY <1>10 DEF TypeOK, vars
<1>11. QED BY <1>1, <1>2, <1>3, <1>4, <1>5, <1>6, <1>7, <1>8, <1>9, <1>10 DEF Next, Step

\* A validation that is not grounded always has something to complain about;
\* this is why the fallback can only follow the last attempt.
LEMMA UngroundedHasProblem ==
  ASSUME NEW p, NEW e, NEW a, ~IsGrounded(p, e, a)
  PROVE  Problems(p, e, a) # {}
BY DEF IsGrounded, Problems

\* Validate's four ways out, and what each one means.
LEMMA ValidateRoutes ==
  ASSUME TypeOK, Validate
  PROVE  \/ node' = "planner" /\ problems' # {} /\ attempts < MAX_ATTEMPTS
         \/ /\ node' = "end" /\ IsGrounded(plan, evidence, answer)
            /\ problems' # {} => attempts = MAX_ATTEMPTS
         \/ node' = "rag_fallback" /\ ~rag_tried /\ attempts = MAX_ATTEMPTS
         \/ node' = "give_up" /\ rag_tried /\ attempts = MAX_ATTEMPTS
<1> DEFINE ps == Problems(plan, evidence, answer)
           ok == IsGrounded(plan, evidence, answer)
<1>1. ~ok => ps # {}
  BY UngroundedHasProblem
<1>2. node' = RouteAfterValidate(ps, ok) /\ problems' = ps
  BY DEF Validate, Goto
<1>3. ~(attempts < MAX_ATTEMPTS) => attempts = MAX_ATTEMPTS
  BY AttemptsAssumption DEF TypeOK
<1> HIDE DEF ps, ok
<1>4. QED BY <1>1, <1>2, <1>3 DEF RouteAfterValidate, ps, ok

\* The place of a run in its attempts is kept by every step.
LEMMA AttemptsStep == TypeOK /\ AttemptsInv /\ [Next]_vars => AttemptsInv'
<1> SUFFICES ASSUME TypeOK, AttemptsInv, [Next]_vars PROVE AttemptsInv'
  OBVIOUS
<1> USE AttemptsAssumption DEF AttemptsInv, Goto
<1>1. CASE ScopeGuard
  BY <1>1 DEF ScopeGuard, TypeOK
<1>2. CASE Refuse
  BY <1>2 DEF Refuse
<1>3. CASE Planner
  BY <1>3 DEF Planner, TypeOK
<1>4. CASE Execute
  BY <1>4 DEF Execute
<1>5. CASE Synthesise
  BY <1>5 DEF Synthesise
<1>6. CASE Validate
  <2>1. UNCHANGED <<attempts, rag_tried>>
    BY <1>6 DEF Validate
  <2>2. QED BY <1>6, <2>1, ValidateRoutes DEF TypeOK, Validate
<1>7. CASE RagFallback
  BY <1>7 DEF RagFallback, TypeOK
<1>8. CASE GiveUp
  BY <1>8 DEF GiveUp
<1>9. CASE Abort
  BY <1>9 DEF Abort, Node
<1>10. CASE UNCHANGED vars
  BY <1>10 DEF vars
<1>11. QED BY <1>1, <1>2, <1>3, <1>4, <1>5, <1>6, <1>7, <1>8, <1>9, <1>10 DEF Next, Step

\* The evidence stays that of the plan beside it.
LEMMA EvidenceStep == TypeOK /\ EvidenceInv /\ AnswerInv /\ [Next]_vars => EvidenceInv'
<1> SUFFICES ASSUME TypeOK, EvidenceInv, AnswerInv, [Next]_vars PROVE EvidenceInv'
  OBVIOUS
<1> USE DEF EvidenceInv, Goto
<1>1. CASE ScopeGuard
  BY <1>1 DEF ScopeGuard
<1>2. CASE Refuse
  BY <1>2 DEF Refuse, CannedAnswer
<1>3. CASE Planner
  BY <1>3 DEF Planner
<1>4. CASE Execute
  BY <1>4 DEF Execute, Execution
<1>5. CASE Synthesise
  BY <1>5 DEF Synthesise
<1>6. CASE Validate
  BY <1>6 DEF Validate
<1>7. CASE RagFallback
  BY <1>7 DEF RagFallback, Execution
<1>8. CASE GiveUp
  BY <1>8 DEF GiveUp, CannedAnswer
<1>9. CASE Abort
  BY <1>9 DEF Abort
<1>10. CASE UNCHANGED vars
  BY <1>10 DEF vars
<1>11. QED BY <1>1, <1>2, <1>3, <1>4, <1>5, <1>6, <1>7, <1>8, <1>9, <1>10 DEF Next, Step

\* An answer of the model is never a canned text.
LEMMA ModelAnswerText ==
  ASSUME NEW a \in ModelAnswers
  PROVE  a.text \in {"empty", "prose"} /\ a.text \notin Canned
BY DEF ModelAnswers, Canned

\* What is known of the answer is kept by every step.
LEMMA AnswerStep == TypeOK /\ AttemptsInv /\ AnswerInv /\ [Next]_vars => AnswerInv'
<1> SUFFICES ASSUME TypeOK, AttemptsInv, AnswerInv, [Next]_vars PROVE AnswerInv'
  OBVIOUS
<1> USE DEF AnswerInv, Goto
<1>1. CASE ScopeGuard
  BY <1>1 DEF ScopeGuard, Canned
<1>2. CASE Refuse
  BY <1>2 DEF Refuse, CannedAnswer, Canned
<1>3. CASE Planner
  BY <1>3 DEF Planner, Canned
<1>4. CASE Execute
  BY <1>4 DEF Execute, Canned
<1>5. CASE Synthesise
  BY <1>5, ModelAnswerText DEF Synthesise, Canned
<1>6. CASE Validate
  <2>1. answer.text \in {"empty", "prose"} /\ answer.text \notin Canned
    BY <1>6, ModelAnswerText DEF Validate
  <2>2. IsGrounded(plan, evidence, answer) => answer.text = "prose"
    BY <2>1 DEF IsGrounded
  <2>3. UNCHANGED <<plan, evidence, answer, attempts, rag_tried>>
    BY <1>6 DEF Validate
  <2>4. IsGrounded(plan, evidence, answer)' <=> IsGrounded(plan, evidence, answer)
    BY <2>3 DEF IsGrounded, RetrievalEmpty, GatheredFacts, Backed
  <2>5. QED BY <1>6, <2>1, <2>2, <2>3, <2>4, ValidateRoutes DEF Canned, Validate
<1>7. CASE RagFallback
  BY <1>7, ModelAnswerText DEF RagFallback, Canned
<1>8. CASE GiveUp
  BY <1>8 DEF GiveUp, CannedAnswer, Canned, AttemptsInv
<1>9. CASE Abort
  BY <1>9 DEF Abort, Node, Canned
<1>10. CASE UNCHANGED vars
  <2>1. IsGrounded(plan, evidence, answer)' <=> IsGrounded(plan, evidence, answer)
    BY <1>10 DEF vars, IsGrounded, RetrievalEmpty, GatheredFacts, Backed
  <2>2. QED BY <1>10, <2>1 DEF vars, ModelAnswers
<1>11. QED BY <1>1, <1>2, <1>3, <1>4, <1>5, <1>6, <1>7, <1>8, <1>9, <1>10 DEF Next, Step

\* Each node is entered at the super-step its place in the run determines.
LEMMA StepsStep == TypeOK /\ AttemptsInv /\ StepsInv /\ [Next]_vars => StepsInv'
<1> SUFFICES ASSUME TypeOK, AttemptsInv, StepsInv, [Next]_vars PROVE StepsInv'
  OBVIOUS
<1> USE AttemptsAssumption DEF TypeOK, AttemptsInv, StepsInv, Goto
<1>1. CASE ScopeGuard
  BY <1>1 DEF ScopeGuard
<1>2. CASE Refuse
  BY <1>2 DEF Refuse
<1>3. CASE Planner
  BY <1>3 DEF Planner
<1>4. CASE Execute
  BY <1>4 DEF Execute
<1>5. CASE Synthesise
  BY <1>5 DEF Synthesise
<1>6. CASE Validate
  <2>1. UNCHANGED <<attempts, rag_tried>>
    BY <1>6 DEF Validate
  <2>2. QED BY <1>6, <2>1, ValidateRoutes DEF Validate
<1>7. CASE RagFallback
  BY <1>7 DEF RagFallback
<1>8. CASE GiveUp
  BY <1>8 DEF GiveUp
<1>9. CASE Abort
  BY <1>9 DEF Abort
<1>10. CASE UNCHANGED vars
  BY <1>10 DEF vars
<1>11. QED BY <1>1, <1>2, <1>3, <1>4, <1>5, <1>6, <1>7, <1>8, <1>9, <1>10 DEF Next, Step

\* Appending keeps what is there and puts the new item behind it.
LEMMA AppendFacts ==
  ASSUME NEW S, NEW s \in Seq(S), NEW x \in S
  PROVE  /\ Len(Append(s, x)) = Len(s) + 1
         /\ Append(s, x)[Len(s) + 1] = x
         /\ \A i \in 1 .. Len(s) : Append(s, x)[i] = s[i]
OBVIOUS

\* The ledger grows by exactly the call a node made.
LEMMA LedgerStep == TypeOK /\ AttemptsInv /\ LedgerInv /\ [Next]_vars => LedgerInv'
<1> SUFFICES ASSUME TypeOK, AttemptsInv, LedgerInv, [Next]_vars PROVE LedgerInv'
  OBVIOUS
<1> USE DEF TypeOK, AttemptsInv, LedgerInv, UsageLedger, Goto, Spent
<1>1. CASE ScopeGuard
  BY <1>1 DEF ScopeGuard
<1>2. CASE Refuse
  BY <1>2 DEF Refuse
<1>3. CASE Planner
  BY <1>3 DEF Planner
<1>4. CASE Execute
  BY <1>4 DEF Execute
<1>5. CASE Synthesise
  BY <1>5 DEF Synthesise
<1>6. CASE Validate
  <2>1. UNCHANGED <<attempts, rag_tried, usage>>
    BY <1>6 DEF Validate
  <2>2. QED BY <1>6, <2>1, ValidateRoutes DEF Validate
<1>7. CASE RagFallback
  <2>1. /\ node = "rag_fallback" /\ node' = "validate"
        /\ rag_tried' = TRUE /\ attempts' = attempts
        /\ usage' = Append(usage, "rag_fallback")
    BY <1>7 DEF RagFallback
  <2>2. ~rag_tried /\ Len(usage) = 1 + 2 * attempts
    BY <2>1
  <2>3. /\ Len(usage') = 2 + 2 * attempts
        /\ usage'[2 * attempts + 2] = "rag_fallback"
        /\ \A i \in 1 .. Len(usage) : usage'[i] = usage[i]
    <3>1. 2 * attempts + 2 = Len(usage) + 1
      BY <2>2
    <3>2. QED BY <2>1, <3>1, AppendFacts
  <2>4. \A k \in 1 .. attempts : 2 * k + 1 <= Len(usage)
    BY <2>2
  <2>5. QED BY <2>1, <2>2, <2>3, <2>4
<1>8. CASE GiveUp
  BY <1>8 DEF GiveUp
<1>9. CASE Abort
  BY <1>9 DEF Abort
<1>10. CASE UNCHANGED vars
  BY <1>10 DEF vars
<1>11. QED BY <1>1, <1>2, <1>3, <1>4, <1>5, <1>6, <1>7, <1>8, <1>9, <1>10 DEF Next, Step

\* The initial state satisfies the invariant.
LEMMA InitInv == Init => Inv
<1> SUFFICES ASSUME Init PROVE Inv
  OBVIOUS
<1> USE AttemptsAssumption DEF Init
<1>1. CannedAnswer("none") \in Answer /\ CannedAnswer("none").text = "none"
  BY DEF CannedAnswer, Answer
<1>2. <<>> \in Plans /\ <<>> \in EvidenceLists
  <2>1. <<>> \in [{} -> ToolName] /\ <<>> \in [{} -> Kind]
    OBVIOUS
  <2>2. QED BY <2>1 DEF Plans, EvidenceLists
<1>3. TypeOK
  <2>1. answer \in Answer /\ plan \in Plans /\ evidence \in EvidenceLists
    BY <1>1, <1>2
  <2>2. usage \in Seq({"scope_guard", "planner", "synthesiser", "rag_fallback"})
    OBVIOUS
  <2>3. attempts \in 0 .. MAX_ATTEMPTS /\ supersteps \in Nat /\ node \in Node \cup Terminal
    BY DEF Node
  <2>4. grounded \in BOOLEAN /\ rag_tried \in BOOLEAN /\ problems \in SUBSET Problem
    OBVIOUS
  <2>5. QED BY <2>1, <2>2, <2>3, <2>4 DEF TypeOK
<1>4. AnswerInv
  BY <1>1 DEF AnswerInv, Canned
<1>5. EvidenceInv /\ AttemptsInv /\ StepsInv /\ LedgerInv
  BY DEF EvidenceInv, AttemptsInv, StepsInv, LedgerInv, UsageLedger
<1>6. QED BY <1>3, <1>4, <1>5 DEF Inv

\* The inductive invariant holds in every reachable state.
THEOREM Invariance == Spec => []Inv
<1>1. Inv /\ [Next]_vars => Inv'
  BY TypeStep, AttemptsStep, EvidenceStep, AnswerStep, StepsStep, LedgerStep DEF Inv
<1>2. QED BY InitInv, <1>1, PTL DEF Spec

\* Type correctness, with the bound on planner attempts.
THEOREM TypeCorrectness == Spec => []TypeOK
<1>1. Inv => TypeOK
  BY DEF Inv
<1>2. QED BY Invariance, <1>1, PTL

\* No factual answer is delivered with a figure outside the evidence delivered
\* with it, whatever the model plans and writes (graph.py:117-181).
THEOREM FiguresBacked == Spec => []ShippedFiguresBacked
<1>1. Inv => ShippedFiguresBacked
  BY DEF Inv, AnswerInv, ShippedFiguresBacked, Delivered, IsGrounded, Backed
<1>2. QED BY Invariance, <1>1, PTL

\* No factual answer is delivered over a retrieval that only failed or came
\* back without rows (graph.py:139-156).
THEOREM FailedRetrievalRefused == Spec => []NoAnswerFromFailedRetrieval
<1>1. Inv => NoAnswerFromFailedRetrieval
  BY DEF Inv, AnswerInv, NoAnswerFromFailedRetrieval, Delivered, IsGrounded,
         RetrievalEmpty, GatheredFacts
<1>2. QED BY Invariance, <1>1, PTL

\* Re-plan, then corpus, then refusal, for any number of attempts
\* (graph.py:208-218).
THEOREM RetriesInOrder == Spec => []RetryDiscipline
<1>1. Inv => RetryDiscipline
  BY DEF Inv, AnswerInv, AttemptsInv, RetryDiscipline, Delivered
<1>2. QED BY Invariance, <1>1, PTL

\* The ledger that becomes the audit is complete and in order
\* (graph.py:77-78, 98-115, 192-199).
THEOREM LedgerComplete == Spec => []UsageLedger
<1>1. Inv => UsageLedger
  BY DEF Inv, LedgerInv
<1>2. QED BY Invariance, <1>1, PTL

\* 4 * MAX_ATTEMPTS + 4 super-steps are always enough (graph.py:26-29).
THEOREM NoRecursionError == Spec => []WithinRecursionLimit
<1>1. Inv => WithinRecursionLimit
  BY AttemptsAssumption, LimitAssumption DEF Inv, TypeOK, StepsInv, WithinRecursionLimit
<1>2. QED BY Invariance, <1>1, PTL

\* The figures of a plan's evidence are figures.
LEMMA BackedAreFigures ==
  TypeOK => {s \in DOMAIN evidence : evidence[s] = "facts"} \cup {"user"} \subseteq Figures
<1> SUFFICES ASSUME TypeOK
             PROVE  DOMAIN evidence \subseteq StepIds
  BY DEF Figures
<1>1. PICK S \in SUBSET StepIds : evidence \in [S -> Kind]
  BY DEF TypeOK, EvidenceLists
<1>2. QED BY <1>1

\* A super-step that delivers nothing is a stuttering step of AgentRun.
LEMMA UndeliveredStutters ==
  ASSUME node \notin Terminal, node' \notin Terminal
  PROVE  UNCHANGED Run!vars
BY DEF Run!vars, Delivered, Terminal

\* Every step of the graph is a step of the abstract run or a stutter.
LEMMA StepRefines == Inv /\ Inv' /\ [Next]_vars => [Run!Next]_(Run!vars)
<1> SUFFICES ASSUME Inv, Inv', [Next]_vars PROVE [Run!Next]_(Run!vars)
  OBVIOUS
<1>0. /\ {s \in DOMAIN evidence : evidence[s] = "facts"} \cup {"user"} \subseteq Figures
      /\ {s \in DOMAIN evidence' : evidence'[s] = "facts"} \cup {"user"} \subseteq Figures
      /\ answer.quotes \subseteq Figures
  <2>1. TypeOK /\ TypeOK'
    BY DEF Inv
  <2>2. {s \in DOMAIN evidence' : evidence'[s] = "facts"} \cup {"user"} \subseteq Figures
    <3>1. DOMAIN evidence' \subseteq StepIds
      <4>1. PICK S \in SUBSET StepIds : evidence' \in [S -> Kind]
        BY <2>1 DEF TypeOK, EvidenceLists
      <4>2. QED BY <4>1
    <3>2. QED BY <3>1 DEF Figures
  <2>3. QED BY <2>1, <2>2, BackedAreFigures DEF TypeOK, Answer
<1>1. CASE ScopeGuard \/ Planner \/ Execute \/ Synthesise \/ RagFallback
  <2>1. node \notin Terminal /\ node' \notin Terminal
    BY <1>1 DEF ScopeGuard, Planner, Execute, Synthesise, RagFallback, Goto, Terminal
  <2>2. QED BY <2>1, UndeliveredStutters
<1>2. CASE Refuse
  <2>1. Run!Refuse
    BY <1>0, <1>2 DEF Run!Refuse, Run!Close, Refuse, Goto, CannedAnswer, Delivered
  <2>2. QED BY <2>1 DEF Run!Next
<1>3. CASE GiveUp
  <2>1. Run!GiveUp
    BY <1>0, <1>3 DEF Run!GiveUp, Run!Close, GiveUp, Goto, CannedAnswer, Delivered
  <2>2. QED BY <2>1 DEF Run!Next
<1>4. CASE Abort
  <2>1. Run!Abort
    BY <1>4 DEF Run!Abort, Run!Close, Abort, Node, Delivered
  <2>2. QED BY <2>1 DEF Run!Next
<1>5. CASE Validate
  <2>1. CASE node' # "end"
    <3>1. node \notin Terminal /\ node' \notin Terminal
      BY <1>5, <2>1, ValidateRoutes DEF Inv, Validate, Goto, Terminal
    <3>2. QED BY <3>1, UndeliveredStutters
  <2>2. CASE node' = "end"
    <3>1. /\ node = "validate" /\ UNCHANGED <<answer, evidence>>
          /\ IsGrounded(plan, evidence, answer)
      BY <1>5, <2>2, ValidateRoutes DEF Inv, Validate, Goto
    <3>2. answer.text = "prose"
      BY <3>1 DEF Inv, AnswerInv, ModelAnswers, IsGrounded
    <3>3. CASE answer.design
      <4>1. Run!Design
        BY <1>0, <2>2, <3>1, <3>2, <3>3 DEF Run!Design, Delivered
      <4>2. QED BY <4>1 DEF Run!Next
    <3>4. CASE ~answer.design
      <4>1. answer.quotes \subseteq {s \in DOMAIN evidence : evidence[s] = "facts"} \cup {"user"}
        BY <3>1, <3>4 DEF IsGrounded, Backed
      <4>2. Run!Answer
        BY <1>0, <2>2, <3>1, <3>2, <3>4, <4>1 DEF Run!Answer, Delivered
      <4>3. QED BY <4>2 DEF Run!Next
    <3>5. QED BY <3>3, <3>4
  <2>3. QED BY <2>1, <2>2
<1>6. CASE UNCHANGED vars
  BY <1>6 DEF vars, Run!vars, Delivered
<1>7. QED BY <1>1, <1>2, <1>3, <1>4, <1>5, <1>6 DEF Next, Step

\* The graph implements the agent its services rely on (agent.py:45-70): at
\* most one delivery, never of a factual answer with an unbacked figure.
THEOREM Refinement == Spec => ImplementsAgentRun
<1>1. Init => Run!Init
  BY DEF Init, Run!Init, Delivered
<1>2. QED BY Invariance, StepRefines, <1>1, PTL DEF Spec, ImplementsAgentRun, Run!Spec

-----------------------------------------------------------------------------
\* Executor.

\* Where the loop is, and what a level consists of.
LevelInv ==
  /\ steps \in StepLists
  /\ pc \in {"level", "gather", "returned"}
  /\ remaining \subseteq DOMAIN steps
  /\ pc # "gather" => running = {}
  /\ pc = "gather" =>
       /\ Ready = running \cup DOMAIN results
       /\ \A i \in DOMAIN results : results[i] \in ToolKind

\* Remaining steps are those without evidence.
AnsweredInv ==
  /\ DOMAIN done \subseteq IdsOf(DOMAIN steps)
  /\ \A i \in DOMAIN steps \ remaining : steps[i].id \in DOMAIN done
  /\ pc # "returned" => \A i \in remaining : steps[i].id \notin DOMAIN done
  /\ pc = "returned" => \A i \in DOMAIN steps : steps[i].id \in DOMAIN done

\* The evidence of an id is that of the last of its steps that were ready first.
ProducerInv ==
  \A id \in DOMAIN done :
    /\ done[id].by \in DOMAIN steps /\ steps[done[id].by].id = id
    /\ \A j \in DOMAIN steps : j > done[id].by /\ steps[j].id = id =>
         ~(steps[j].depends_on \subseteq steps[done[id].by].depends_on)

\* Evidence of a tool is never blocked, other evidence always.
KindInv ==
  /\ pc # "returned" => \A id \in DOMAIN done : done[id].kind \in ToolKind
  /\ \A id \in DOMAIN done :
       IF done[id].kind \in ToolKind
       THEN \A U \in SUBSET IdsOf(DOMAIN steps) : Blocked(U) => id \notin U
       ELSE /\ done[id].kind = "unresolvable"
            /\ \E U \in SUBSET IdsOf(DOMAIN steps) : id \in U /\ Blocked(U)

ExecutorInv == LevelInv /\ AnsweredInv /\ ProducerInv /\ KindInv

-----------------------------------------------------------------------------
LEMMA PlanSteps ==
  ASSUME steps \in StepLists
  PROVE  \E n \in Nat : DOMAIN steps = 1 .. n
  BY BoundAssumption DEF StepLists

\* Some of the plan's positions have a last one.
LEMMA LastPosition ==
  ASSUME steps \in StepLists, NEW T \in SUBSET DOMAIN steps, T # {}
  PROVE  Max(T) \in T /\ \A j \in T : j <= Max(T)
<1>1. PICK n \in Nat : DOMAIN steps = 1 .. n
  BY PlanSteps
<1> DEFINE D == {n - i : i \in T}
<1>2. D \subseteq Nat /\ D # {}
  BY <1>1
<1>3. PICK x \in D : \A y \in D : x <= y
  BY <1>2, LeastNatural
<1>4. PICK k \in T : x = n - k
  BY <1>3
<1>5. ASSUME NEW j \in T
      PROVE  k >= j
  <2>1. n - j \in D
    OBVIOUS
  <2>2. n - k <= n - j /\ k \in Int /\ j \in Int
    BY <1>1, <1>3, <1>4, <2>1
  <2>3. QED BY <2>2
<1>6. \E m \in T : \A j \in T : m >= j
  BY <1>5
<1>7. Max(T) \in T /\ \A j \in T : Max(T) >= j
  BY <1>6 DEF Max
<1>8. QED
  <2>1. Max(T) \in Int /\ \A j \in T : j \in Int
    BY <1>1, <1>7
  <2>2. QED BY <1>7, <2>1

\* d is the evidence with that of some positions in the place of what it had.
IsStored(d, S, k) ==
  /\ DOMAIN d = DOMAIN done \cup IdsOf(S)
  /\ \A id \in IdsOf(S) :
       /\ d[id] = [by |-> Producer(id, S), kind |-> k[Producer(id, S)]]
       /\ Producer(id, S) \in S /\ steps[Producer(id, S)].id = id
       /\ \A j \in S : steps[j].id = id => j <= Producer(id, S)
  /\ \A id \in DOMAIN done \ IdsOf(S) : d[id] = done[id]

LEMMA StoredEvidence ==
  ASSUME steps \in StepLists, NEW S \in SUBSET DOMAIN steps, NEW k
  PROVE  IsStored(Stored(S, k), S, k)
<1>1. ASSUME NEW id \in IdsOf(S)
      PROVE  /\ Producer(id, S) \in S /\ steps[Producer(id, S)].id = id
             /\ \A j \in S : steps[j].id = id => j <= Producer(id, S)
  <2> DEFINE T == {i \in S : steps[i].id = id}
  <2>1. T \in SUBSET DOMAIN steps /\ T # {}
    BY DEF IdsOf
  <2>2. Max(T) \in T /\ \A j \in T : j <= Max(T)
    BY <2>1, LastPosition
  <2>3. QED BY <2>2 DEF Producer
<1>2. QED BY <1>1 DEF Stored, IsStored

\* A step that is ready waits for nothing that can never be unblocked.
LEMMA ReadyNotBlocked ==
  ASSUME ExecutorInv, pc # "returned", NEW i \in Ready, NEW U \in SUBSET IdsOf(DOMAIN steps), Blocked(U)
  PROVE  steps[i].id \notin U
<1>1. i \in DOMAIN steps /\ steps[i].depends_on \subseteq DOMAIN done
  BY DEF Ready, ExecutorInv, LevelInv
<1>2. \A d \in DOMAIN done : d \notin U /\ d \in IdsOf(DOMAIN steps)
  BY DEF ExecutorInv, KindInv, AnsweredInv
<1>3. QED BY <1>1, <1>2 DEF Blocked

LEMMA ExecutorInitInv == ExecutorInit => ExecutorInv
<1> SUFFICES ASSUME ExecutorInit PROVE ExecutorInv
  OBVIOUS
<1>1. DOMAIN done = {}
  BY DEF ExecutorInit, Empty
<1>2. QED BY <1>1 DEF ExecutorInit, ExecutorInv, LevelInv, AnsweredInv, ProducerInv, KindInv

\* Steps that leave the evidence alone.
LEMMA SameEvidence ==
  ASSUME ExecutorInv, UNCHANGED <<steps, done, remaining>>,
         pc' = pc \/ (pc = "level" /\ (pc' = "returned" => remaining = {}))
  PROVE  AnsweredInv' /\ ProducerInv' /\ KindInv'
<1>1. IdsOf(DOMAIN steps)' = IdsOf(DOMAIN steps) /\ \A U : Blocked(U)' = Blocked(U)
  BY DEF IdsOf, Blocked
<1>2. AnsweredInv'
  BY <1>1 DEF ExecutorInv, AnsweredInv
<1>3. ProducerInv'
  BY DEF ExecutorInv, ProducerInv
<1>4. KindInv'
  BY <1>1 DEF ExecutorInv, KindInv
<1>5. QED BY <1>2, <1>3, <1>4

LEMMA CollectStep ==
  ASSUME ExecutorInv, Collect
  PROVE  ExecutorInv'
<1> DEFINE R == DOMAIN results
<1>1. /\ pc = "gather" /\ running = {} /\ pc' = "level"
      /\ done' = Stored(R, results)
      /\ remaining' = {i \in remaining : steps[i].id \notin DOMAIN done'}
      /\ UNCHANGED <<steps, running, results>>
  BY DEF Collect
<1>2. R = Ready /\ R \in SUBSET remaining /\ R \in SUBSET DOMAIN steps /\ steps \in StepLists
  BY <1>1 DEF ExecutorInv, LevelInv, Ready
<1>3. /\ DOMAIN done' = DOMAIN done \cup IdsOf(R)
      /\ \A id \in IdsOf(R) :
           /\ done'[id] = [by |-> Producer(id, R), kind |-> results[Producer(id, R)]]
           /\ Producer(id, R) \in R /\ steps[Producer(id, R)].id = id
           /\ \A j \in R : steps[j].id = id => j <= Producer(id, R)
      /\ \A id \in DOMAIN done \ IdsOf(R) : done'[id] = done[id]
  <2> HIDE DEF R
  <2>1. IsStored(Stored(R, results), R, results)
    BY <1>2, StoredEvidence
  <2>2. IsStored(done', R, results)
    BY <1>1, <2>1
  <2>3. QED BY <2>2 DEF IsStored
<1>4. IdsOf(DOMAIN steps)' = IdsOf(DOMAIN steps) /\ \A U : Blocked(U)' = Blocked(U)
  BY <1>1 DEF IdsOf, Blocked
<1>5. \A id \in IdsOf(R) : id \in IdsOf(DOMAIN steps) /\ id \notin DOMAIN done
  BY <1>1, <1>2 DEF IdsOf, ExecutorInv, AnsweredInv
<1> HIDE DEF R
<1>6. LevelInv'
  BY <1>1, <1>2 DEF ExecutorInv, LevelInv
<1>7. AnsweredInv'
  <2>1. DOMAIN done' \subseteq IdsOf(DOMAIN steps)'
    BY <1>3, <1>4, <1>5 DEF ExecutorInv, AnsweredInv
  <2>2. \A i \in DOMAIN steps \ remaining' : steps[i].id \in DOMAIN done'
    BY <1>1, <1>3 DEF ExecutorInv, AnsweredInv
  <2>3. QED BY <1>1, <2>1, <2>2 DEF AnsweredInv
<1>8. ProducerInv'
  <2> SUFFICES ASSUME NEW id \in DOMAIN done'
               PROVE  /\ done'[id].by \in DOMAIN steps /\ steps[done'[id].by].id = id
                      /\ \A j \in DOMAIN steps : j > done'[id].by /\ steps[j].id = id =>
                           ~(steps[j].depends_on \subseteq steps[done'[id].by].depends_on)
    BY <1>1 DEF ProducerInv
  <2>1. CASE id \in IdsOf(R)
    <3> DEFINE k == Producer(id, R)
    <3>1. done'[id].by = k /\ k \in R /\ steps[k].id = id
      BY <1>3, <2>1
    <3>2. k \in Ready /\ k \in DOMAIN steps
      BY <1>2, <3>1
    <3>3. ASSUME NEW j \in DOMAIN steps, j > k, steps[j].id = id
          PROVE  j \in remaining /\ j \notin Ready
      <4>1. j \in remaining
        BY <1>5, <2>1, <3>3 DEF ExecutorInv, AnsweredInv
      <4>2. j \notin R
        <5>1. PICK n \in Nat : DOMAIN steps = 1 .. n
          BY <1>2, PlanSteps
        <5>2. j \in R => j <= k
          BY <1>3, <2>1, <3>3
        <5>3. QED BY <3>2, <3>3, <5>1, <5>2
      <4>3. QED BY <1>2, <4>1, <4>2
    <3>4. steps[k].depends_on \subseteq DOMAIN done
      BY <3>2 DEF Ready
    <3>5. ASSUME NEW j \in DOMAIN steps, j > k, steps[j].id = id
          PROVE  ~(steps[j].depends_on \subseteq steps[k].depends_on)
      BY <3>3, <3>4, <3>5 DEF Ready
    <3> HIDE DEF k
    <3>6. QED BY <3>1, <3>2, <3>5
  <2>2. CASE id \in DOMAIN done \ IdsOf(R)
    BY <1>3, <2>2 DEF ExecutorInv, ProducerInv
  <2>3. QED BY <1>3, <2>1, <2>2
<1>9. KindInv'
  <2> SUFFICES ASSUME NEW id \in DOMAIN done'
               PROVE  /\ done'[id].kind \in ToolKind
                      /\ \A U \in SUBSET IdsOf(DOMAIN steps) : Blocked(U) => id \notin U
    BY <1>1, <1>4 DEF KindInv
  <2>1. CASE id \in IdsOf(R)
    <3> DEFINE k == Producer(id, R)
    <3>1. done'[id].kind = results[k] /\ k \in R /\ steps[k].id = id
      BY <1>3, <2>1
    <3>2. results[k] \in ToolKind
      BY <1>1, <3>1 DEF R, ExecutorInv, LevelInv
    <3>3. k \in Ready
      BY <1>2, <3>1
    <3>4. \A U \in SUBSET IdsOf(DOMAIN steps) : Blocked(U) => id \notin U
      BY <1>1, <3>1, <3>3, ReadyNotBlocked
    <3>5. QED BY <3>1, <3>2, <3>4
  <2>2. CASE id \in DOMAIN done \ IdsOf(R)
    BY <1>1, <1>3, <2>2 DEF ExecutorInv, KindInv
  <2>3. QED BY <1>3, <2>1, <2>2
<1>10. QED BY <1>6, <1>7, <1>8, <1>9 DEF ExecutorInv

LEMMA StuckStep ==
  ASSUME ExecutorInv, Stuck
  PROVE  ExecutorInv'
<1> DEFINE R == remaining
           k == [i \in remaining |-> "unresolvable"]
<1>1. /\ pc = "level" /\ Ready = {} /\ pc' = "returned"
      /\ done' = Stored(R, k)
      /\ UNCHANGED <<steps, remaining, running, results>>
  BY DEF Stuck
<1>2. R \in SUBSET DOMAIN steps /\ steps \in StepLists
  BY DEF ExecutorInv, LevelInv
<1>3. /\ DOMAIN done' = DOMAIN done \cup IdsOf(R)
      /\ \A id \in IdsOf(R) :
           /\ done'[id] = [by |-> Producer(id, R), kind |-> k[Producer(id, R)]]
           /\ Producer(id, R) \in R /\ steps[Producer(id, R)].id = id
           /\ \A j \in R : steps[j].id = id => j <= Producer(id, R)
      /\ \A id \in DOMAIN done \ IdsOf(R) : done'[id] = done[id]
  <2> HIDE DEF R, k
  <2>1. IsStored(Stored(R, k), R, k)
    BY <1>2, StoredEvidence
  <2>2. IsStored(done', R, k)
    BY <1>1, <2>1
  <2>3. QED BY <2>2 DEF IsStored
<1>4. IdsOf(DOMAIN steps)' = IdsOf(DOMAIN steps) /\ \A U : Blocked(U)' = Blocked(U)
  BY <1>1 DEF IdsOf, Blocked
<1>5. \A i \in DOMAIN steps : steps[i].id \notin DOMAIN done <=> i \in R
  BY <1>1, <1>2 DEF ExecutorInv, AnsweredInv
<1>6. \A id \in IdsOf(R) : done'[id].kind = "unresolvable"
  BY <1>3
\* What remains is blocked: a step that waits for nothing else would be ready.
<1>7. Blocked(IdsOf(R))
  <2> SUFFICES ASSUME NEW i \in DOMAIN steps, steps[i].id \in IdsOf(R)
               PROVE  \E d \in steps[i].depends_on : d \in IdsOf(R) \/ d \notin IdsOf(DOMAIN steps)
    BY DEF Blocked
  <2>1. i \in R
    BY <1>2, <1>5 DEF IdsOf
  <2>2. PICK d \in steps[i].depends_on : d \notin DOMAIN done
    BY <1>1, <2>1 DEF Ready
  <2>3. d \in IdsOf(DOMAIN steps) => d \in IdsOf(R)
    BY <1>5, <2>2 DEF IdsOf
  <2>4. QED BY <2>3
<1>8. IdsOf(R) \in SUBSET IdsOf(DOMAIN steps)
  BY <1>2 DEF IdsOf
<1> HIDE DEF R, k
<1>9. LevelInv'
  BY <1>1 DEF ExecutorInv, LevelInv
<1>10. AnsweredInv'
  <2>1. \A i \in DOMAIN steps : steps[i].id \in DOMAIN done'
    BY <1>3, <1>5 DEF IdsOf
  <2>2. DOMAIN done' \subseteq IdsOf(DOMAIN steps)
    BY <1>3, <1>8 DEF ExecutorInv, AnsweredInv
  <2>3. QED BY <1>1, <1>4, <2>1, <2>2 DEF AnsweredInv
<1>11. ProducerInv'
  <2> SUFFICES ASSUME NEW id \in DOMAIN done'
               PROVE  /\ done'[id].by \in DOMAIN steps /\ steps[done'[id].by].id = id
                      /\ \A j \in DOMAIN steps : j > done'[id].by /\ steps[j].id = id =>
                           ~(steps[j].depends_on \subseteq steps[done'[id].by].depends_on)
    BY <1>1 DEF ProducerInv
  <2>1. CASE id \in IdsOf(R)
    <3>1. id \notin DOMAIN done
      BY <1>2, <1>5, <2>1 DEF IdsOf
    <3>2. /\ done'[id].by \in R /\ steps[done'[id].by].id = id
          /\ \A j \in R : steps[j].id = id => j <= done'[id].by
      BY <1>3, <2>1
    <3>3. PICK n \in Nat : DOMAIN steps = 1 .. n
      BY <1>2, PlanSteps
    <3>4. \A j \in DOMAIN steps : steps[j].id = id => ~(j > done'[id].by)
      BY <1>2, <1>5, <3>1, <3>2, <3>3
    <3>5. QED BY <1>2, <3>2, <3>4
  <2>2. CASE id \in DOMAIN done \ IdsOf(R)
    BY <1>3, <2>2 DEF ExecutorInv, ProducerInv
  <2>3. QED BY <1>3, <2>1, <2>2
<1>12. KindInv'
  <2> SUFFICES ASSUME NEW id \in DOMAIN done'
               PROVE  IF done'[id].kind \in ToolKind
                      THEN \A U \in SUBSET IdsOf(DOMAIN steps) : Blocked(U) => id \notin U
                      ELSE /\ done'[id].kind = "unresolvable"
                           /\ \E U \in SUBSET IdsOf(DOMAIN steps) : id \in U /\ Blocked(U)
    BY <1>1, <1>4 DEF KindInv
  <2>1. CASE id \in IdsOf(R)
    BY <1>6, <1>7, <1>8, <2>1 DEF ToolKind
  <2>2. CASE id \in DOMAIN done \ IdsOf(R)
    BY <1>3, <2>2 DEF ExecutorInv, KindInv
  <2>3. QED BY <1>3, <2>1, <2>2
<1>13. QED BY <1>9, <1>10, <1>11, <1>12 DEF ExecutorInv

LEMMA ExecutorInvStep ==
  ASSUME ExecutorInv, [ExecutorNext]_executorVars
  PROVE  ExecutorInv'
<1>1. CASE StartLevel
  <2>1. /\ pc = "level" /\ pc' = "gather" /\ running' = Ready /\ results' = Empty
        /\ UNCHANGED <<steps, done, remaining>>
    BY <1>1 DEF StartLevel
  <2>2. DOMAIN results' = {} /\ Ready' = Ready
    BY <2>1 DEF Empty, Ready
  <2>3. LevelInv'
    BY <2>1, <2>2 DEF ExecutorInv, LevelInv
  <2>4. AnsweredInv' /\ ProducerInv' /\ KindInv'
    BY <2>1, SameEvidence
  <2>5. QED BY <2>3, <2>4 DEF ExecutorInv
<1>2. ASSUME NEW i \in running, Finish(i)
      PROVE  ExecutorInv'
  <2>1. PICK kind \in ToolKind :
          results' = [j \in DOMAIN results \cup {i} |-> IF j = i THEN kind ELSE results[j]]
    BY <1>2 DEF Finish
  <2>2. /\ pc = "gather" /\ running' = running \ {i}
        /\ UNCHANGED <<steps, pc, done, remaining>>
    BY <1>2 DEF Finish, ExecutorInv, LevelInv
  <2>3. Ready' = Ready
    BY <2>2 DEF Ready
  <2>4. LevelInv'
    BY <2>1, <2>2, <2>3 DEF ExecutorInv, LevelInv
  <2>5. AnsweredInv' /\ ProducerInv' /\ KindInv'
    BY <2>2, SameEvidence
  <2>6. QED BY <2>4, <2>5 DEF ExecutorInv
<1>3. CASE Collect
  BY <1>3, CollectStep
<1>4. CASE Stuck
  BY <1>4, StuckStep
<1>5. CASE Return
  <2>1. /\ pc = "level" /\ remaining = {} /\ pc' = "returned"
        /\ UNCHANGED <<steps, done, remaining, running, results>>
    BY <1>5 DEF Return
  <2>2. AnsweredInv' /\ ProducerInv' /\ KindInv'
    BY <2>1, SameEvidence
  <2>3. QED BY <2>1, <2>2 DEF ExecutorInv, LevelInv
<1>6. CASE UNCHANGED executorVars
  <2>1. AnsweredInv' /\ ProducerInv' /\ KindInv'
    BY <1>6, SameEvidence DEF executorVars
  <2>2. LevelInv'
    BY <1>6 DEF executorVars, ExecutorInv, LevelInv, Ready
  <2>3. QED BY <2>1, <2>2 DEF ExecutorInv
<1>7. QED BY <1>1, <1>2, <1>3, <1>4, <1>5, <1>6 DEF ExecutorNext

LEMMA ExecutorInvariance == ExecutorSpec => []ExecutorInv
<1>1. ExecutorInit => ExecutorInv
  BY ExecutorInitInv
<1>2. ExecutorInv /\ [ExecutorNext]_executorVars => ExecutorInv'
  BY ExecutorInvStep
<1>3. QED BY <1>1, <1>2, PTL DEF ExecutorSpec

\* Executor.execute: evidence that is stored stays as it is, for plans of any
\* length with repeated, dangling and cyclic ids.
THEOREM EvidenceStays == ExecutorSpec => EvidenceIsFinal
<1> DEFINE Kept == \A id \in DOMAIN done : id \in DOMAIN done' /\ done'[id] = done[id]
<1>1. ASSUME ExecutorInv, NEW S \in SUBSET remaining, NEW k, done' = Stored(S, k),
             pc # "returned"
      PROVE  Kept
  <2>1. steps \in StepLists /\ S \in SUBSET DOMAIN steps
    BY <1>1 DEF ExecutorInv, LevelInv
  <2>2. IsStored(done', S, k)
    BY <1>1, <2>1, StoredEvidence
  <2>3. \A id \in IdsOf(S) : id \notin DOMAIN done
    BY <1>1 DEF IdsOf, ExecutorInv, AnsweredInv
  <2>4. QED BY <2>2, <2>3 DEF IsStored
<1>2. ASSUME ExecutorInv, Collect
      PROVE  Kept
  <2>1. DOMAIN results \in SUBSET remaining
    BY <1>2 DEF Collect, Ready, ExecutorInv, LevelInv
  <2>2. QED BY <1>1, <1>2, <2>1 DEF Collect
<1>3. ASSUME ExecutorInv, Stuck
      PROVE  Kept
  BY <1>1, <1>3 DEF Stuck
<1>4. ASSUME StartLevel \/ (\E i \in running : Finish(i)) \/ Return \/ UNCHANGED executorVars
      PROVE  Kept
  BY <1>4 DEF StartLevel, Finish, Return, executorVars
<1>5. ExecutorInv /\ [ExecutorNext]_executorVars => [Kept]_executorVars
  BY <1>2, <1>3, <1>4 DEF ExecutorNext
<1>6. QED BY <1>5, ExecutorInvariance, PTL DEF ExecutorSpec, EvidenceIsFinal

\* execute: the comprehension over the plan finds evidence for every step.
THEOREM StepsAreAnswered == ExecutorSpec => []EveryStepAnswered
<1>1. ExecutorInv => EveryStepAnswered
  BY DEF ExecutorInv, AnsweredInv, IdsOf, EveryStepAnswered
<1>2. QED BY <1>1, ExecutorInvariance, PTL

\* execute: a step is reported as unresolvable exactly if it is on, or behind,
\* a cycle or a dependency that no step has.
THEOREM StuckIsBlocked == ExecutorSpec => []StuckExactly
<1>1. ExecutorInv => StuckExactly
  <2> SUFFICES ASSUME ExecutorInv, pc = "returned", NEW id \in IdsOf(DOMAIN steps)
               PROVE  done[id].kind = "unresolvable" <=>
                        \E U \in SUBSET IdsOf(DOMAIN steps) : id \in U /\ Blocked(U)
    BY DEF StuckExactly
  <2>1. id \in DOMAIN done
    BY DEF ExecutorInv, AnsweredInv, IdsOf
  <2>2. "unresolvable" \notin ToolKind
    BY DEF ToolKind
  <2>3. QED BY <2>1, <2>2 DEF ExecutorInv, KindInv
<1>2. QED BY <1>1, ExecutorInvariance, PTL

\* execute: which of the steps that share an id leaves the evidence does not
\* depend on the order in which calls end.
THEOREM OrderIsIrrelevant == ExecutorSpec => []OrderIndependent
<1>1. ExecutorInv => OrderIndependent
  BY DEF ExecutorInv, ProducerInv, OrderIndependent
<1>2. QED BY <1>1, ExecutorInvariance, PTL
=============================================================================
