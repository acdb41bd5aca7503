------------------------------ MODULE Executor ------------------------------
(***************************************************************************)
(* Executor.execute (services/agent/executor.py): a plan is run level by   *)
(* level, a level being the steps whose dependencies are all done, and the *)
(* steps of a level run concurrently under asyncio.gather.  Plans are the  *)
(* planner model's and unchecked: ids may repeat, dependencies may dangle  *)
(* or form cycles.  A step is its position in the plan; the evidence it    *)
(* leaves is who produced it and how it went.                              *)
(***************************************************************************)
EXTENDS Naturals, Sequences, FiniteSets, FiniteSetsExt

CONSTANTS
  Ids,        \* the step ids a plan can use
  MaxSteps    \* bound: the longest plan

ASSUME BoundAssumption == MaxSteps \in Nat

VARIABLES
  steps,       \* sequence of steps [id, depends_on]
  pc,          \* "level" (top of the loop), "gather", "returned"
  done,        \* step id -> evidence [by, kind]
  remaining,   \* positions not resolved yet
  running,     \* positions whose tool call is in flight
  results      \* position -> kind, of the calls of this level that ended

executorVars == <<steps, pc, done, remaining, running, results>>

Steps == [id : Ids, depends_on : SUBSET Ids]
StepLists == UNION {[1 .. n -> Steps] : n \in 0 .. MaxSteps}
ToolKind == {"ok", "error"}   \* _run_step turns every exception into "error"

Empty == [x \in {} |-> x]
IdsOf(S) == {steps[i].id : i \in S}

\* Mutant: a dependency that no step has counts as met.
ReadyIgnoresDangling ==
  {i \in remaining : steps[i].depends_on \cap IdsOf(DOMAIN steps) \subseteq DOMAIN done}

Ready == {i \in remaining : steps[i].depends_on \subseteq DOMAIN done}

\* Mutant: of two results with one id, the first stays.
ProducerFirst(id, S) == Min({i \in S : steps[i].id = id})

\* The step whose evidence done[id] holds after S was stored in plan order.
Producer(id, S) == Max({i \in S : steps[i].id = id})

\* done after storing the evidence k[i] of every position i of S.
Stored(S, k) ==
  [id \in DOMAIN done \cup IdsOf(S) |->
     IF id \in IdsOf(S)
     THEN [by |-> Producer(id, S), kind |-> k[Producer(id, S)]] ELSE done[id]]

ExecutorInit ==
  /\ steps \in StepLists
  /\ pc = "level"
  /\ done = Empty
  /\ remaining = DOMAIN steps
  /\ running = {}
  /\ results = Empty

StartLevel ==
  /\ pc = "level"
  /\ Ready # {}
  /\ running' = Ready
  /\ results' = Empty
  /\ pc' = "gather"
  /\ UNCHANGED <<steps, done, remaining>>

\* A tool call of the level ends, in any order.
Finish(i) ==
  /\ i \in running
  /\ running' = running \ {i}
  /\ \E k \in ToolKind :
       results' = [j \in DOMAIN results \cup {i} |-> IF j = i THEN k ELSE results[j]]
  /\ UNCHANGED <<steps, pc, done, remaining>>

\* Mutant: the evidence of failed calls is dropped.
CollectDropsFailed ==
  /\ pc = "gather"
  /\ running = {}
  /\ LET kept == {i \in DOMAIN results : results[i] = "ok"}
     IN  done' = Stored(kept, results)
  /\ remaining' = {i \in remaining : steps[i].id \notin DOMAIN done' /\ i \notin DOMAIN results}
  /\ pc' = "level"
  /\ UNCHANGED <<steps, running, results>>

\* Mutant: the steps that ran are taken off the plan, not those whose id is done.
CollectByPosition ==
  /\ pc = "gather"
  /\ running = {}
  /\ done' = Stored(DOMAIN results, results)
  /\ remaining' = remaining \ DOMAIN results
  /\ pc' = "level"
  /\ UNCHANGED <<steps, running, results>>

\* gather returns when every call of the level has ended.
Collect ==
  /\ pc = "gather"
  /\ running = {}
  /\ done' = Stored(DOMAIN results, results)
  /\ remaining' = {i \in remaining : steps[i].id \notin DOMAIN done'}
  /\ pc' = "level"
  /\ UNCHANGED <<steps, running, results>>

\* Mutant: the loop waits for a step to become ready.
StuckWaits ==
  /\ pc = "level"
  /\ remaining # {}
  /\ Ready = {}
  /\ UNCHANGED executorVars

\* Nothing is ready: a cycle or a dangling dependency.  The stuck steps fail
\* explicitly and the loop ends.
Stuck ==
  /\ pc = "level"
  /\ remaining # {}
  /\ Ready = {}
  /\ done' = Stored(remaining, [i \in remaining |-> "unresolvable"])
  /\ pc' = "returned"
  /\ UNCHANGED <<steps, remaining, running, results>>

Return ==
  /\ pc = "level"
  /\ remaining = {}
  /\ pc' = "returned"
  /\ UNCHANGED <<steps, done, remaining, running, results>>

ExecutorNext == StartLevel \/ (\E i \in running : Finish(i)) \/ Collect \/ Stuck \/ Return

\* The loop is plain code and every tool call ends: SQL has a statement
\* timeout; the embedding behind a document search is assumed to return.
ExecutorSpec == ExecutorInit /\ [][ExecutorNext]_executorVars /\ WF_executorVars(ExecutorNext)

-----------------------------------------------------------------------------
\* The variables stay in their types.
ExecutorTypeOK ==
  /\ steps \in StepLists
  /\ pc \in {"level", "gather", "returned"}
  /\ DOMAIN done \subseteq Ids
  /\ \A id \in DOMAIN done :
       done[id] \in [by : DOMAIN steps, kind : ToolKind \cup {"unresolvable"}]
  /\ remaining \subseteq DOMAIN steps
  /\ running \subseteq remaining
  /\ DOMAIN results \subseteq DOMAIN steps

\* The comprehension on executor.py:36 finds evidence for every step of the
\* plan, whatever the ids and dependencies are.
EveryStepAnswered == pc = "returned" => IdsOf(DOMAIN steps) \subseteq DOMAIN done

\* Evidence is final: what a level has stored under an id, and later levels may
\* have read, is neither lost nor replaced by a later step of that id, nor by
\* the failure of the stuck ones (executor.py:24-35: the filter is by id, the
\* plan's ids are unchecked).
EvidenceIsFinal ==
  [][\A id \in DOMAIN done : id \in DOMAIN done' /\ done'[id] = done[id]]_executorVars

\* A set of ids that nothing can unblock: each of their steps depends on one
\* of them or on an id no step has.
Blocked(U) ==
  \A i \in DOMAIN steps : steps[i].id \in U =>
    \E d \in steps[i].depends_on : d \in U \/ d \notin IdsOf(DOMAIN steps)

\* "unresolvable dependencies" is reported exactly for the ids on, or behind,
\* a cycle or a dangling dependency (executor.py:21-31), and no step fails for
\* a sibling's or a dependency's error.
StuckExactly ==
  pc = "returned" =>
    \A id \in IdsOf(DOMAIN steps) :
      done[id].kind = "unresolvable" <=> \E U \in SUBSET IdsOf(DOMAIN steps) : id \in U /\ Blocked(U)

\* The evidence of an id does not depend on the order in which the concurrent
\* calls end: of the steps that share an id, a later one loses only to one
\* that became ready on fewer dependencies (executor.py:33-35).
OrderIndependent ==
  pc = "returned" =>
    \A id \in DOMAIN done :
      LET k == done[id].by
      IN  /\ steps[k].id = id
          /\ \A j \in DOMAIN steps : j > k /\ steps[j].id = id =>
               ~(steps[j].depends_on \subseteq steps[k].depends_on)

\* Every plan, cyclic or not, is answered.
ExecutionEnds == <>(pc = "returned")
=============================================================================
