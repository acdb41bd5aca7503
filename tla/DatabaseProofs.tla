--------------------------- MODULE DatabaseProofs ---------------------------
(***************************************************************************)
(* Proofs about Ingestion, for any number of concurrent requests, payloads *)
(* and calls and any outcome of the adapters, and about RlsScope, for any  *)
(* number of tasks, connections, portfolios and jobs.                      *)
(*                                                                         *)
(* Ingestion's properties speak of answers and totals; what makes them     *)
(* inductive is who may still be working.  A payload that no two requests  *)
(* have worked on together has at most one worker and, once it succeeded,  *)
(* none, because a later request is turned away by the skip; before it     *)
(* succeeds nothing of it has been committed, because the load and the     *)
(* status are one transaction.  A settled success stays settled because    *)
(* whoever still works on the payload publishes the same outcome again.    *)
(*                                                                         *)
(* Isolation is not inductive: it needs that an open transaction has its own*)
(* portfolio in force and no other (ScopeInv), hence that nobody else holds*)
(* its connection (HolderInv) and that a free connection carries no        *)
(* portfolio (FreeInv).  A creation changes portfolio halfway, so it must  *)
(* not have read anything before (CreatingInv).                            *)
(***************************************************************************)
EXTENDS Ingestion, RlsScope, TLAPS

\* Without overlap a payload has one worker at most.
OneWorker ==
  \A p \in Payloads : p \notin overlapped =>
    \A r, s \in Working(p) : r = s

\* A succeeded run row stands for committed rows, and without overlap nobody
\* works on its payload any more.
SucceededInv ==
  \A p \in Payloads : runs[p] = "succeeded" =>
    /\ Publishable(p)
    /\ Shape[p].valid > 0 => loads[p] > 0
    /\ p \notin overlapped => Working(p) = {}

\* Only parsed payloads are published.
ParsedInv ==
  \A r \in Requests : pc[r] = "publishing" => Shape[payload[r]].parses

\* A request that has not answered its call has no report.
SilentInv == \A r \in Requests : pc[r] # "idle" => report[r] = "none"

\* What a report means, whether or not its request is idle.
ReportInv ==
  \A r \in Requests :
    /\ report[r] \in {"succeeded", "skipped"} =>
         /\ Publishable(payload[r])
         /\ Shape[payload[r]].valid > 0 => loads[payload[r]] > 0
    /\ report[r] = "failed" =>
         Shape[payload[r]].valid = 0 /\ quarantined[payload[r]] > 0

\* Without overlap, what a payload has committed before and after it succeeded.
CommittedInv ==
  \A p \in Payloads : p \notin overlapped /\ Publishable(p) =>
    /\ runs[p] # "succeeded" => loads[p] = 0 /\ quarantined[p] = 0
    /\ loads[p] <= 1 /\ quarantined[p] <= Shape[p].rejects

Inv == /\ TypeOK /\ OneWorker /\ SucceededInv /\ ParsedInv /\ SilentInv
       /\ ReportInv /\ CommittedInv

-----------------------------------------------------------------------------
\* A run that parsed and has a valid row, or no rejects, succeeds; one that
\* fails has rejects only.
LEMMA OutcomeCases ==
  ASSUME NEW p \in Payloads
  PROVE  /\ Outcome(p) \in {"succeeded", "failed"}
         /\ Outcome(p) = "failed" => Shape[p].valid = 0 /\ Shape[p].rejects > 0
  BY ShapeAssumption DEF Outcome

\* The totals grow by naturals.
LEMMA PublishTotals ==
  ASSUME TypeOK, NEW r \in Requests, Publish(r)
  PROVE  LET p == payload[r]
         IN  /\ p \in Payloads
             /\ loads' = [loads EXCEPT ![p] = loads'[p]]
             /\ loads'[p] \in Nat /\ loads[p] <= loads'[p] /\ loads'[p] <= loads[p] + 1
             /\ Shape[p].valid > 0 => loads'[p] > 0
             /\ quarantined' = [quarantined EXCEPT ![p] = quarantined[p] + Shape[p].rejects]
             /\ quarantined[p] + Shape[p].rejects \in Nat
             /\ Shape[p].rejects > 0 => quarantined'[p] > 0
<1> DEFINE p == payload[r]
<1>1. p \in Payloads
  BY DEF TypeOK
<1>2. loads \in [Payloads -> Nat] /\ quarantined \in [Payloads -> Nat]
  BY DEF TypeOK
<1>3. Shape[p].valid \in Nat /\ Shape[p].rejects \in Nat
  BY <1>1, ShapeAssumption
<1>4. /\ loads' = [loads EXCEPT ![p] = @ + (IF Shape[p].valid > 0 THEN 1 ELSE 0)]
      /\ quarantined' = [quarantined EXCEPT ![p] = @ + Shape[p].rejects]
  BY DEF Publish
<1> HIDE DEF p
<1>5. loads'[p] = loads[p] + (IF Shape[p].valid > 0 THEN 1 ELSE 0)
  BY <1>1, <1>2, <1>4
<1>6. quarantined'[p] = quarantined[p] + Shape[p].rejects
  BY <1>1, <1>2, <1>4
<1>7. loads' = [loads EXCEPT ![p] = loads'[p]]
  BY <1>1, <1>2, <1>4, <1>5
<1>8. QED BY <1>1, <1>2, <1>3, <1>4, <1>5, <1>6, <1>7 DEF p

\* Every step keeps the variables in their types.
LEMMA TypeStep == TypeOK /\ [Next]_vars => TypeOK'
<1> SUFFICES ASSUME TypeOK, [Next]_vars PROVE TypeOK'
  OBVIOUS
<1>1. ASSUME NEW r \in Requests, NEW p \in Payloads, Check(r, p) PROVE TypeOK'
  BY <1>1, BoundAssumption DEF TypeOK, Check, Goto, db, Place, Report
<1>2. ASSUME NEW r \in Requests, Register(r) PROVE TypeOK'
  BY <1>2 DEF TypeOK, Register, Goto, Place, Report, Status
<1>3. ASSUME NEW r \in Requests, Parse(r) PROVE TypeOK'
  BY <1>3 DEF TypeOK, Parse, Goto, db, Place, Report
<1>4. ASSUME NEW r \in Requests, Publish(r) PROVE TypeOK'
  <2> DEFINE p == payload[r]
  <2>1. p \in Payloads /\ Outcome(p) \in {"succeeded", "failed"}
    BY OutcomeCases DEF TypeOK
  <2>2. loads' \in [Payloads -> Nat] /\ quarantined' \in [Payloads -> Nat]
    BY <1>4, PublishTotals DEF TypeOK
  <2>3. QED BY <1>4, <2>1, <2>2 DEF TypeOK, Publish, Goto, Place, Report, Status
<1>5. ASSUME NEW r \in Requests, PublishFails(r) PROVE TypeOK'
  BY <1>5 DEF TypeOK, PublishFails, Goto, db, Place, Report
<1>6. ASSUME Crash PROVE TypeOK'
  BY <1>6 DEF TypeOK, Crash, db, Place, Report
<1>7. CASE UNCHANGED vars
  BY <1>7 DEF TypeOK, vars
<1>8. QED BY <1>1, <1>2, <1>3, <1>4, <1>5, <1>6, <1>7 DEF Next, Step

\* Without overlap there is one worker: a second one makes an overlap.
LEMMA WorkerStep == TypeOK /\ OneWorker /\ [Next]_vars => OneWorker'
<1> SUFFICES ASSUME TypeOK, OneWorker, [Next]_vars,
                    NEW p \in Payloads, p \notin overlapped',
                    NEW r \in Working(p)', NEW s \in Working(p)'
             PROVE  r = s
  BY DEF OneWorker
<1>1. ASSUME NEW t \in Requests, NEW q \in Payloads, Check(t, q) PROVE r = s
  BY <1>1 DEF TypeOK, OneWorker, Working, Check, Goto
<1>2. ASSUME NEW t \in Requests, Step(t) PROVE r = s
  BY <1>2 DEF TypeOK, OneWorker, Working, Step, Register, Parse, Publish, PublishFails, Goto
<1>3. ASSUME Crash PROVE r = s
  BY <1>3 DEF Working, Crash
<1>4. CASE UNCHANGED vars
  BY <1>4 DEF OneWorker, Working, vars
<1>5. QED BY <1>1, <1>2, <1>3, <1>4 DEF Next

\* Success implies committed rows, and no worker unless requests overlapped.
LEMMA SucceededStep ==
  TypeOK /\ OneWorker /\ ParsedInv /\ SucceededInv /\ [Next]_vars => SucceededInv'
<1> SUFFICES ASSUME TypeOK, OneWorker, ParsedInv, SucceededInv, [Next]_vars,
                    NEW p \in Payloads, runs'[p] = "succeeded"
             PROVE  /\ Publishable(p)
                    /\ Shape[p].valid > 0 => loads'[p] > 0
                    /\ p \notin overlapped' => Working(p)' = {}
  BY DEF SucceededInv, Publishable, Outcome
<1>1. ASSUME NEW t \in Requests, NEW q \in Payloads, Check(t, q)
      PROVE  /\ Publishable(p)
             /\ Shape[p].valid > 0 => loads'[p] > 0
             /\ p \notin overlapped' => Working(p)' = {}
  BY <1>1 DEF TypeOK, SucceededInv, Working, Check, AlreadyDone, Goto, db
<1>2. ASSUME NEW t \in Requests, Register(t)
      PROVE  /\ Publishable(p)
             /\ Shape[p].valid > 0 => loads'[p] > 0
             /\ p \notin overlapped' => Working(p)' = {}
  BY <1>2 DEF TypeOK, SucceededInv, Working, Register, Goto
<1>3. ASSUME NEW t \in Requests, Parse(t) \/ PublishFails(t)
      PROVE  /\ Publishable(p)
             /\ Shape[p].valid > 0 => loads'[p] > 0
             /\ p \notin overlapped' => Working(p)' = {}
  BY <1>3 DEF TypeOK, SucceededInv, Working, Parse, PublishFails, Goto, db
<1>4. ASSUME NEW t \in Requests, Publish(t)
      PROVE  /\ Publishable(p)
             /\ Shape[p].valid > 0 => loads'[p] > 0
             /\ p \notin overlapped' => Working(p)' = {}
  <2>1. CASE payload[t] = p
    <3>1. Publishable(p)
      BY <1>4, <2>1 DEF TypeOK, ParsedInv, Publish, Publishable
    <3>2. Shape[p].valid > 0 => loads'[p] > 0
      BY <1>4, <2>1, PublishTotals
    <3>3. p \notin overlapped' => Working(p)' = {}
      BY <1>4, <2>1 DEF TypeOK, OneWorker, Working, Publish, Goto
    <3>4. QED BY <3>1, <3>2, <3>3
  <2>2. CASE payload[t] # p
    <3>1. loads'[p] = loads[p] /\ runs'[p] = runs[p]
      BY <1>4, <2>2 DEF TypeOK, Publish
    <3>2. Working(p)' \subseteq Working(p)
      BY <1>4 DEF TypeOK, Working, Publish, Goto
    <3>3. QED BY <1>4, <3>1, <3>2 DEF SucceededInv, Publish
  <2>3. QED BY <2>1, <2>2
<1>5. ASSUME Crash
      PROVE  /\ Publishable(p)
             /\ Shape[p].valid > 0 => loads'[p] > 0
             /\ p \notin overlapped' => Working(p)' = {}
  BY <1>5 DEF SucceededInv, Working, Crash, db
<1>6. CASE UNCHANGED vars
  BY <1>6 DEF SucceededInv, Working, vars
<1>7. QED BY <1>1, <1>2, <1>3, <1>4, <1>5, <1>6 DEF Next, Step

\* A request parses before it publishes, and reports only when it is idle.
LEMMA CourseStep ==
  TypeOK /\ ParsedInv /\ SilentInv /\ [Next]_vars => ParsedInv' /\ SilentInv'
<1> SUFFICES ASSUME TypeOK, ParsedInv, SilentInv, [Next]_vars
             PROVE  ParsedInv' /\ SilentInv'
  OBVIOUS
<1>1. ASSUME NEW t \in Requests, NEW q \in Payloads, Check(t, q)
      PROVE  ParsedInv' /\ SilentInv'
  BY <1>1 DEF TypeOK, ParsedInv, SilentInv, Check, Goto
<1>2. ASSUME NEW t \in Requests, Step(t) PROVE ParsedInv' /\ SilentInv'
  BY <1>2 DEF TypeOK, ParsedInv, SilentInv, Step, Register, Parse, Publish, PublishFails, Goto
<1>3. ASSUME Crash PROVE ParsedInv' /\ SilentInv'
  BY <1>3 DEF TypeOK, ParsedInv, SilentInv, Crash
<1>4. CASE UNCHANGED vars
  BY <1>4 DEF ParsedInv, SilentInv, vars
<1>5. QED BY <1>1, <1>2, <1>3, <1>4 DEF Next

\* A report stays true: commits only add, and a skip repeats a success.
LEMMA ReportStep ==
  TypeOK /\ ParsedInv /\ SucceededInv /\ ReportInv /\ [Next]_vars => ReportInv'
<1> SUFFICES ASSUME TypeOK, ParsedInv, SucceededInv, ReportInv, [Next]_vars
             PROVE  ReportInv'
  OBVIOUS
<1>1. ASSUME NEW t \in Requests, NEW q \in Payloads, Check(t, q) PROVE ReportInv'
  BY <1>1 DEF TypeOK, SucceededInv, ReportInv, Check, AlreadyDone, Goto, db, Publishable, Outcome
<1>2. ASSUME NEW t \in Requests, Register(t) \/ Parse(t) \/ PublishFails(t)
      PROVE  ReportInv'
  BY <1>2 DEF TypeOK, ReportInv, Register, Parse, PublishFails, Goto, db, Publishable, Outcome
<1>3. ASSUME NEW t \in Requests, Publish(t) PROVE ReportInv'
  <2> DEFINE p == payload[t]
  <2>1. /\ p \in Payloads /\ Shape[p].parses
        /\ payload' = payload
        /\ report' = [report EXCEPT ![t] = Outcome(p)]
    BY <1>3 DEF TypeOK, ParsedInv, Publish, Goto
  <2>2. \A q \in Payloads : loads[q] > 0 => loads'[q] > 0
    BY <1>3, PublishTotals DEF TypeOK
  <2>3. \A q \in Payloads : quarantined[q] > 0 => quarantined'[q] > 0
    <3>1. Shape[p].rejects \in Nat
      BY <2>1, ShapeAssumption
    <3>2. /\ quarantined \in [Payloads -> Nat]
          /\ quarantined' = [quarantined EXCEPT ![p] = quarantined[p] + Shape[p].rejects]
      BY <1>3, PublishTotals DEF TypeOK
    <3> HIDE DEF p
    <3>3. QED BY <2>1, <3>1, <3>2
  <2>4. ASSUME NEW r \in Requests, r # t
        PROVE /\ report'[r] \in {"succeeded", "skipped"} =>
                   /\ Publishable(payload'[r])
                   /\ Shape[payload'[r]].valid > 0 => loads'[payload'[r]] > 0
              /\ report'[r] = "failed" =>
                   Shape[payload'[r]].valid = 0 /\ quarantined'[payload'[r]] > 0
    BY <2>1, <2>2, <2>3, <2>4 DEF TypeOK, ReportInv
  <2>5. /\ report'[t] \in {"succeeded", "skipped"} =>
             /\ Publishable(payload'[t])
             /\ Shape[payload'[t]].valid > 0 => loads'[payload'[t]] > 0
        /\ report'[t] = "failed" =>
             Shape[payload'[t]].valid = 0 /\ quarantined'[payload'[t]] > 0
    <3>1. report'[t] = Outcome(p)
      BY <2>1 DEF TypeOK
    <3>2. Outcome(p) \in {"succeeded", "failed"}
      BY <2>1, OutcomeCases
    <3>3. Outcome(p) = "failed" => Shape[p].valid = 0 /\ Shape[p].rejects > 0
      BY <2>1, OutcomeCases
    <3>4. /\ Shape[p].valid > 0 => loads'[p] > 0
          /\ Shape[p].rejects > 0 => quarantined'[p] > 0
      BY <1>3, PublishTotals
    <3>5. QED BY <2>1, <3>1, <3>2, <3>3, <3>4 DEF Publishable
  <2>6. QED BY <2>4, <2>5 DEF ReportInv, Publishable, Outcome
<1>4. ASSUME Crash PROVE ReportInv'
  BY <1>4 DEF TypeOK, ReportInv, Crash, db, Publishable, Outcome
<1>5. CASE UNCHANGED vars
  BY <1>5 DEF ReportInv, vars, Publishable, Outcome
<1>6. QED BY <1>1, <1>2, <1>3, <1>4, <1>5 DEF Next, Step

\* Without overlap the worker that publishes is the only one there was, and
\* what it publishes is the first that is committed.
LEMMA CommittedStep ==
  TypeOK /\ ParsedInv /\ SucceededInv /\ CommittedInv /\ [Next]_vars => CommittedInv'
<1> SUFFICES ASSUME TypeOK, ParsedInv, SucceededInv, CommittedInv, [Next]_vars,
                    NEW p \in Payloads, p \notin overlapped', Publishable(p)
             PROVE  /\ runs'[p] # "succeeded" => loads'[p] = 0 /\ quarantined'[p] = 0
                    /\ loads'[p] <= 1 /\ quarantined'[p] <= Shape[p].rejects
  BY DEF CommittedInv, Publishable, Outcome
<1> DEFINE Goal == /\ runs'[p] # "succeeded" => loads'[p] = 0 /\ quarantined'[p] = 0
                   /\ loads'[p] <= 1 /\ quarantined'[p] <= Shape[p].rejects
<1>1. ASSUME NEW t \in Requests, NEW q \in Payloads, Check(t, q) PROVE Goal
  BY <1>1 DEF TypeOK, CommittedInv, Check, db
<1>2. ASSUME NEW t \in Requests, Register(t) PROVE Goal
  BY <1>2 DEF TypeOK, SucceededInv, CommittedInv, Working, Register
<1>3. ASSUME NEW t \in Requests, Parse(t) \/ PublishFails(t) PROVE Goal
  BY <1>3 DEF TypeOK, CommittedInv, Parse, PublishFails, db
<1>4. ASSUME NEW t \in Requests, Publish(t) PROVE Goal
  <2>1. CASE payload[t] = p
    <3>1. runs[p] # "succeeded" /\ p \notin overlapped
      BY <1>4, <2>1 DEF TypeOK, SucceededInv, Working, Publish
    <3>2. loads[p] = 0 /\ quarantined[p] = 0
      BY <3>1 DEF CommittedInv
    <3>3. runs'[p] = "succeeded"
      BY <1>4, <2>1 DEF TypeOK, Publish, Publishable
    <3>4. loads'[p] \in Nat /\ loads'[p] <= loads[p] + 1
      BY <1>4, <2>1, PublishTotals
    <3>5. quarantined'[p] = quarantined[p] + Shape[p].rejects
      BY <1>4, <2>1, PublishTotals DEF TypeOK
    <3>6. Shape[p].rejects \in Nat
      BY ShapeAssumption
    <3>7. QED BY <3>2, <3>3, <3>4, <3>5, <3>6
  <2>2. CASE payload[t] # p
    <3>1. /\ loads'[p] = loads[p] /\ runs'[p] = runs[p]
          /\ quarantined'[p] = quarantined[p] /\ overlapped' = overlapped
      BY <1>4, <2>2 DEF TypeOK, Publish
    <3>2. QED BY <3>1 DEF CommittedInv
  <2>3. QED BY <2>1, <2>2
<1>5. ASSUME Crash PROVE Goal
  BY <1>5 DEF CommittedInv, Crash, db
<1>6. CASE UNCHANGED vars
  BY <1>6 DEF CommittedInv, vars
<1>7. QED BY <1>1, <1>2, <1>3, <1>4, <1>5, <1>6 DEF Next, Step

\* At the start nothing is registered, committed, worked on or reported.
LEMMA InitInv == Init => Inv
<1> SUFFICES ASSUME Init PROVE Inv
  OBVIOUS
<1>1. TypeOK
  BY BoundAssumption DEF Init, TypeOK, Status, Place, Report
<1>2. OneWorker /\ ParsedInv /\ SilentInv
  BY DEF Init, OneWorker, Working, ParsedInv, SilentInv
<1>3. SucceededInv /\ ReportInv
  BY DEF Init, SucceededInv, ReportInv
<1>4. CommittedInv
  BY ShapeAssumption DEF Init, CommittedInv
<1>5. QED BY <1>1, <1>2, <1>3, <1>4 DEF Inv

-----------------------------------------------------------------------------
\* The inductive invariant holds in every reachable state, whatever overlaps,
\* fails or crashes.
THEOREM Invariance == Spec => []Inv
<1>1. Inv /\ [Next]_vars => Inv'
  BY TypeStep, WorkerStep, SucceededStep, CourseStep, ReportStep, CommittedStep DEF Inv
<1>2. QED BY InitInv, <1>1, PTL DEF Spec

\* Every variable of IngestionPipeline.run's model keeps its type.
THEOREM TypeCorrectness == Spec => []TypeOK
<1>1. Inv => TypeOK
  BY DEF Inv
<1>2. QED BY Invariance, <1>1, PTL

\* What a caller of run is told about its payload is so and stays so: after
\* "succeeded" or "skipped" its rows are in the fact tables, after "failed" it
\* had no valid row and its rejects are quarantined.
THEOREM ReportsAreTrue == Spec => []ReportsTrue
<1>1. Inv => ReportsTrue
  BY DEF Inv, ReportInv, ReportsTrue
<1>2. QED BY Invariance, <1>1, PTL

\* Calls for one payload that never overlap load it once and quarantine its
\* rejects once, for any number of retries after crashes and failures.
THEOREM LoadedOnce == Spec => []OnceWithoutOverlap
<1>1. Inv => OnceWithoutOverlap
  BY DEF Inv, CommittedInv, OnceWithoutOverlap
<1>2. QED BY Invariance, <1>1, PTL

\* IngestionPipeline.run: once a run has succeeded and no request is left that
\* looked before, it stays so, for any number of requests at work and crashes.
THEOREM SuccessStays == Spec => SuccessIsFinal
<1>1. ASSUME Inv, [Next]_vars, NEW p \in Payloads, Settled(p)
      PROVE  Settled(p)'
  <2>1. runs[p] = "succeeded" /\ \A r \in Requests : ~(pc[r] = "checked" /\ payload[r] = p)
    BY <1>1 DEF Settled
  <2>2. ASSUME NEW t \in Requests, NEW q \in Payloads, Check(t, q) PROVE Settled(p)'
    BY <1>1, <2>1, <2>2 DEF Inv, TypeOK, Settled, Check, AlreadyDone, Goto, db
  <2>3. ASSUME NEW t \in Requests, Register(t) PROVE Settled(p)'
    BY <1>1, <2>1, <2>3 DEF Inv, TypeOK, Settled, Register, Goto
  <2>4. ASSUME NEW t \in Requests, Parse(t) \/ PublishFails(t) PROVE Settled(p)'
    BY <1>1, <2>1, <2>4 DEF Inv, TypeOK, Settled, Parse, PublishFails, Goto, db
  <2>5. ASSUME NEW t \in Requests, Publish(t) PROVE Settled(p)'
    <3>1. Outcome(p) = "succeeded"
      BY <1>1, <2>1 DEF Inv, SucceededInv, Publishable
    <3>2. runs'[p] = "succeeded"
      BY <1>1, <2>1, <2>5, <3>1 DEF Inv, TypeOK, Publish
    <3>3. QED BY <1>1, <2>1, <2>5, <3>2 DEF Inv, TypeOK, Settled, Publish, Goto
  <2>6. ASSUME Crash PROVE Settled(p)'
    BY <2>1, <2>6 DEF Settled, Crash, db
  <2>7. CASE UNCHANGED vars
    BY <2>1, <2>7 DEF Settled, vars
  <2>8. QED BY <1>1, <2>2, <2>3, <2>4, <2>5, <2>6, <2>7 DEF Next, Step
<1>2. Inv /\ [Next]_vars => [\A p \in Payloads : Settled(p) => Settled(p)']_vars
  BY <1>1
<1>3. QED BY Invariance, <1>2, PTL DEF Spec, SuccessIsFinal

\* A run is open only while a request works on it, or because one raised or
\* died: what interleaved requests reopen, they close.
LEMMA OpenStep == TypeOK /\ OpenRunHasCause /\ [Next]_vars => OpenRunHasCause'
<1> SUFFICES ASSUME TypeOK, OpenRunHasCause, [Next]_vars,
                    NEW p \in Payloads, runs'[p] = "running"
             PROVE  p \in left' \/ \E r \in Requests : Registered(r)' /\ payload'[r] = p
  BY DEF OpenRunHasCause, Registered
<1> DEFINE Goal == p \in left' \/ \E r \in Requests : Registered(r)' /\ payload'[r] = p
<1>0. runs[p] = "running" =>
        p \in left \/ \E r \in Requests : Registered(r) /\ payload[r] = p
  BY DEF OpenRunHasCause
<1>1. ASSUME NEW t \in Requests, NEW q \in Payloads, Check(t, q) PROVE Goal
  <2>1. runs[p] = "running" /\ left' = left /\ pc[t] = "idle"
    BY <1>1 DEF Check, db
  <2>2. \A r \in Requests : Registered(r) => Registered(r)' /\ payload'[r] = payload[r]
    BY <1>1, <2>1 DEF TypeOK, Check, Goto, Registered
  <2>3. QED BY <1>0, <2>1, <2>2
<1>2. ASSUME NEW t \in Requests, Register(t) PROVE Goal
  <2>1. Registered(t)' /\ payload' = payload /\ left' = left
    BY <1>2 DEF TypeOK, Register, Goto, Registered
  <2>2. \A r \in Requests : Registered(r) => Registered(r)'
    BY <1>2 DEF TypeOK, Register, Goto, Registered
  <2>3. payload[t] # p => runs[p] = "running"
    BY <1>2 DEF TypeOK, Register
  <2>4. QED BY <1>0, <2>1, <2>2, <2>3
<1>3. ASSUME NEW t \in Requests, Parse(t) \/ PublishFails(t) PROVE Goal
  <2>1. /\ runs[p] = "running" /\ payload' = payload
        /\ \/ left' = left /\ Registered(t)'
           \/ left' = left \cup {payload[t]}
    BY <1>3 DEF TypeOK, Parse, PublishFails, Goto, db, Registered
  <2>2. \A r \in Requests : r # t /\ Registered(r) => Registered(r)'
    BY <1>3 DEF TypeOK, Parse, PublishFails, Goto, Registered
  <2>3. QED BY <1>0, <2>1, <2>2
<1>4. ASSUME NEW t \in Requests, Publish(t) PROVE Goal
  <2>1. payload[t] # p
    BY <1>4, OutcomeCases DEF TypeOK, Publish
  <2>2. runs[p] = "running" /\ payload' = payload /\ left' = left \ {payload[t]}
    BY <1>4, <2>1 DEF TypeOK, Publish
  <2>3. \A r \in Requests : r # t /\ Registered(r) => Registered(r)'
    BY <1>4 DEF TypeOK, Publish, Goto, Registered
  <2>4. QED BY <1>0, <2>1, <2>2, <2>3
<1>5. ASSUME Crash PROVE Goal
  BY <1>0, <1>5 DEF Crash, db
<1>6. CASE UNCHANGED vars
  BY <1>0, <1>6 DEF vars, Registered
<1>7. QED BY <1>1, <1>2, <1>3, <1>4, <1>5, <1>6 DEF Next, Step

\* IngestionPipeline.run: no interleaving of requests that come to their end
\* leaves a run row at "running"; that takes an exception or a crash.
THEOREM OpenRunsHaveCauses == Spec => []OpenRunHasCause
<1>1. Init => OpenRunHasCause
  BY DEF Init, OpenRunHasCause
<1>2. QED BY <1>1, OpenStep, TypeCorrectness, PTL DEF Spec

-----------------------------------------------------------------------------
\* RlsScope.

\* A task in a transaction is the only holder of its connection, and whoever
\* holds a connection is in a transaction on it.
HolderInv ==
  /\ \A t \in Tasks : place[t] \in {"begun", "open"} => owner[conn[t]] = {t}
  /\ \A c \in Connections : \A t \in owner[c] : place[t] \in {"begun", "open"} /\ conn[t] = c

\* A free connection carries no portfolio.
FreeInv == \A c \in Connections : owner[c] = {} => setting[c] = NoScope

\* An open transaction has its task's portfolio in force; one that has just
\* begun has none.
ScopeInv ==
  \A t \in Tasks : /\ place[t] = "open" => setting[conn[t]] = scope[t]
                   /\ place[t] = "begun" => setting[conn[t]] = NoScope /\ scope[t] # NoScope

\* What a transaction has deleted are rows of its portfolio.
RemovedInv ==
  /\ \A c \in Connections : owner[c] = {} => removed[c] = {}
  /\ \A t \in Tasks :
       /\ place[t] = "begun" => removed[conn[t]] = {}
       /\ place[t] = "open" => \A row \in removed[conn[t]] : row[2] = scope[t]

\* A creation under way is unscoped and has read no portfolio row.
CreatingInv ==
  \A t \in creating :
    place[t] # "idle" /\ scope[t] = NoScope /\ seen[t] = {} /\ t \notin refused

IsolationInv == /\ ScopeTypeOK /\ HolderInv /\ FreeInv /\ ScopeInv /\ RemovedInv /\ CreatingInv
       /\ Isolation /\ ScopedNeverRefused

-----------------------------------------------------------------------------
\* No portfolio's id is NoScope.
LEMMA IdsAreScopes == NoScope \notin Ids
  BY DEF NoScope, Ids

\* What the end of a transaction does to the pool.
LEMMA GivenBack ==
  ASSUME ScopeTypeOK, NEW t \in Tasks, NEW rows, GiveBack(t, conn[t], rows)
  PROVE  /\ setting' = [setting EXCEPT ![conn[t]] = NoScope]
         /\ owner' = [owner EXCEPT ![conn[t]] = owner[conn[t]] \ {t}]
         /\ pending' \in [Connections -> SUBSET Row]
         /\ removed' \in [Connections -> SUBSET Row]
         /\ removed'[conn[t]] = {}
         /\ \A c \in Connections : removed'[c] \subseteq removed[c]
         /\ touched' = touched
         /\ conn[t] \in Connections
  BY DEF ScopeTypeOK, GiveBack, SettingAfter

\* Every step keeps the variables in their types.
LEMMA ScopeTypeStep == ScopeTypeOK /\ [ScopeNext]_scopeVars => ScopeTypeOK'
<1> SUFFICES ASSUME ScopeTypeOK, [ScopeNext]_scopeVars PROVE ScopeTypeOK'
  OBVIOUS
<1>0. ASSUME NEW t \in Tasks, Rollback(t), refused' \subseteq Tasks PROVE ScopeTypeOK'
  <2>1. GiveBack(t, conn[t], {})
    BY <1>0 DEF Rollback
  <2>2. setting' \in [Connections -> Ids \cup {NoScope}] /\ owner' \in [Connections -> SUBSET Tasks]
    BY <2>1, GivenBack DEF ScopeTypeOK
  <2>3. QED BY <1>0, <2>1, <2>2, GivenBack DEF ScopeTypeOK, Rollback
<1>1. ASSUME NEW t \in Tasks, NEW p \in Ids \cup {NoScope}, NEW b \in BOOLEAN, Start(t, p, b)
      PROVE  ScopeTypeOK'
  BY <1>1, JobAssumption DEF ScopeTypeOK, Start, pool, data
<1>2. ASSUME NEW t \in Tasks, NEW c \in Connections, Acquire(t, c) PROVE ScopeTypeOK'
  BY <1>2 DEF ScopeTypeOK, Acquire, PlaceAfterBegin, data
<1>3. ASSUME NEW t \in Tasks, GiveUpWaiting(t) PROVE ScopeTypeOK'
  BY <1>3 DEF ScopeTypeOK, GiveUpWaiting, pool, data
<1>4. ASSUME NEW t \in Tasks, SetScope(t) PROVE ScopeTypeOK'
  BY <1>4 DEF ScopeTypeOK, SetScope, data
<1>5. ASSUME NEW t \in Tasks, Read(t) PROVE ScopeTypeOK'
  <2>1. CASE PolicyFails(conn[t])
    BY <1>0, <1>5, <2>1 DEF ScopeTypeOK, Read
  <2>2. CASE ~PolicyFails(conn[t])
    <3>1. Visible(conn[t]) \subseteq Row
      BY DEF ScopeTypeOK, Visible, Table
    <3>2. QED BY <1>5, <2>2, <3>1 DEF ScopeTypeOK, Read, pool, data
  <2>3. QED BY <2>1, <2>2
<1>6. ASSUME NEW t \in Tasks, Write(t) PROVE ScopeTypeOK'
  <2> DEFINE c == conn[t]
  <2>1. CASE PolicyFails(c) \/ setting[c] # scope[t]
    BY <1>0, <1>6, <2>1 DEF ScopeTypeOK, Write
  <2>2. CASE ~(PolicyFails(c) \/ setting[c] # scope[t]) /\ <<"portfolios", scope[t]>> \notin stored
    BY <1>0, <1>6, <2>2 DEF ScopeTypeOK, Write
  <2>3. CASE ~(PolicyFails(c) \/ setting[c] # scope[t]) /\ <<"portfolios", scope[t]>> \in stored
    <3>1. <<"chat_messages", scope[t]>> \in Row
      BY <1>6 DEF ScopeTypeOK, Write, Row
    <3>2. QED BY <1>6, <2>3, <3>1 DEF ScopeTypeOK, Write, pool, task
  <2>4. QED BY <2>1, <2>2, <2>3
<1>7. ASSUME NEW t \in Tasks, CreatePortfolio(t) PROVE ScopeTypeOK'
  <2>1. <<"portfolios", nextId>> \in Row
    BY <1>7, IdAssumption DEF ScopeTypeOK, CreatePortfolio, Row, Ids
  <2>2. nextId + 1 \in 1 .. MaxId + 1
    BY <1>7, IdAssumption DEF ScopeTypeOK, CreatePortfolio
  <2>3. QED BY <1>7, <2>1, <2>2 DEF ScopeTypeOK, CreatePortfolio, pool, task
<1>8. ASSUME NEW t \in Tasks, CommitCreation(t) PROVE ScopeTypeOK'
  <2>1. /\ GiveBack(t, conn[t], pending[conn[t]])
        /\ stored' = (stored \ removed[conn[t]]) \cup pending[conn[t]]
    BY <1>8 DEF CommitCreation, Committed
  <2>2. setting' \in [Connections -> Ids \cup {NoScope}] /\ owner' \in [Connections -> SUBSET Tasks]
    BY <2>1, GivenBack DEF ScopeTypeOK
  <2>3. \A row \in pending[conn[t]] : row[2] \in Ids
    BY DEF ScopeTypeOK, Row
  <2>4. QED BY <1>8, <2>1, <2>2, <2>3, GivenBack DEF ScopeTypeOK, CommitCreation
<1>9. ASSUME NEW t \in Tasks, Commit(t) PROVE ScopeTypeOK'
  <2>1. /\ GiveBack(t, conn[t], pending[conn[t]])
        /\ stored' = (stored \ removed[conn[t]]) \cup pending[conn[t]]
    BY <1>9 DEF Commit, Committed
  <2>2. setting' \in [Connections -> Ids \cup {NoScope}] /\ owner' \in [Connections -> SUBSET Tasks]
    BY <2>1, GivenBack DEF ScopeTypeOK
  <2>3. QED BY <1>9, <2>1, <2>2, GivenBack DEF ScopeTypeOK, Commit
<1>10. ASSUME NEW t \in Tasks, Fail(t) PROVE ScopeTypeOK'
  BY <1>0, <1>10 DEF ScopeTypeOK, Fail
<1>11. ASSUME NEW c \in Connections, Reconnect(c) PROVE ScopeTypeOK'
  BY <1>11 DEF ScopeTypeOK, Reconnect, data, task
<1>12. CASE UNCHANGED scopeVars
  BY <1>12 DEF ScopeTypeOK, scopeVars, pool, data, task
<1>13. ASSUME NEW t \in Tasks, Clear(t) PROVE ScopeTypeOK'
  <2>1. CASE PolicyFails(conn[t])
    BY <1>0, <1>13, <2>1 DEF ScopeTypeOK, Clear
  <2>2. CASE ~PolicyFails(conn[t])
    BY <1>13, <2>2 DEF ScopeTypeOK, Clear, pool, task
  <2>3. QED BY <2>1, <2>2
<1>14. QED
  BY <1>1, <1>2, <1>3, <1>4, <1>5, <1>6, <1>7, <1>8, <1>9, <1>10, <1>11, <1>12, <1>13
  DEF ScopeNext, Proceed

\* The pool's side of the invariant.
PoolInv == HolderInv /\ FreeInv /\ ScopeInv /\ RemovedInv

\* Giving a connection back leaves it free and without a portfolio, and takes
\* nothing from the transactions on other connections.
LEMMA GiveBackKeepsPool ==
  ASSUME ScopeTypeOK, PoolInv, NEW t \in Tasks, place[t] \in {"begun", "open"},
         NEW rows, GiveBack(t, conn[t], rows), conn' = conn,
         NEW at \in {"idle", "waiting"}, place' = [place EXCEPT ![t] = at],
         \A s \in Tasks : s # t => scope'[s] = scope[s]
  PROVE  PoolInv'
<1>1. /\ owner[conn[t]] = {t} /\ conn[t] \in Connections
      /\ setting' = [setting EXCEPT ![conn[t]] = NoScope]
      /\ owner' = [owner EXCEPT ![conn[t]] = {}]
  BY GivenBack DEF PoolInv, HolderInv, ScopeTypeOK
<1>2. \A s \in Tasks : s # t /\ place[s] \in {"begun", "open"} => conn[s] # conn[t]
  BY <1>1 DEF PoolInv, HolderInv
<1>3. HolderInv'
  <2>1. ASSUME NEW s \in Tasks, place'[s] \in {"begun", "open"} PROVE owner'[conn'[s]] = {s}
    BY <1>1, <1>2, <2>1 DEF ScopeTypeOK, PoolInv, HolderInv
  <2>2. ASSUME NEW c \in Connections, NEW s \in owner'[c]
        PROVE  place'[s] \in {"begun", "open"} /\ conn'[s] = c
    BY <1>1, <2>2 DEF ScopeTypeOK, PoolInv, HolderInv
  <2>3. QED BY <2>1, <2>2 DEF HolderInv
<1>4. FreeInv'
  BY <1>1 DEF ScopeTypeOK, PoolInv, FreeInv
<1>5. ScopeInv'
  BY <1>1, <1>2 DEF ScopeTypeOK, PoolInv, ScopeInv
<1>6. RemovedInv'
  <2>1. removed'[conn[t]] = {} /\ \A c \in Connections : removed'[c] \subseteq removed[c]
    BY GivenBack
  <2>2. ASSUME NEW c \in Connections, owner'[c] = {} PROVE removed'[c] = {}
    BY <1>1, <2>1, <2>2 DEF ScopeTypeOK, PoolInv, RemovedInv
  <2>3. ASSUME NEW s \in Tasks, s # t, place[s] \in {"begun", "open"}
        PROVE  /\ place[s] = "begun" => removed'[conn[s]] = {}
               /\ place[s] = "open" => \A row \in removed'[conn[s]] : row[2] = scope'[s]
    BY <2>1, <2>3 DEF ScopeTypeOK, PoolInv, RemovedInv
  <2>4. QED BY <2>2, <2>3 DEF ScopeTypeOK, RemovedInv
<1>7. QED BY <1>3, <1>4, <1>5, <1>6 DEF PoolInv

\* Every step keeps the connections with their holders and portfolios.
LEMMA PoolStep == ScopeTypeOK /\ PoolInv /\ CreatingInv /\ [ScopeNext]_scopeVars => PoolInv'
<1> SUFFICES ASSUME ScopeTypeOK, PoolInv, CreatingInv, [ScopeNext]_scopeVars PROVE PoolInv'
  OBVIOUS
<1>0. ASSUME NEW t \in Tasks, place[t] \in {"begun", "open"}, Rollback(t) PROVE PoolInv'
  <2>1. /\ GiveBack(t, conn[t], {}) /\ conn' = conn /\ scope' = scope
        /\ place' = [place EXCEPT ![t] = "idle"]
    BY <1>0 DEF Rollback
  <2>2. QED BY <1>0, <2>1, GiveBackKeepsPool
<1>1. ASSUME NEW t \in Tasks, NEW p \in Ids \cup {NoScope}, NEW b \in BOOLEAN, Start(t, p, b)
      PROVE  PoolInv'
  BY <1>1 DEF ScopeTypeOK, PoolInv, HolderInv, FreeInv, ScopeInv, RemovedInv, Start, pool, data
<1>2. ASSUME NEW t \in Tasks, NEW c \in Connections, Acquire(t, c) PROVE PoolInv'
  <2>1. \A s \in Tasks : place[s] \in {"begun", "open"} => conn[s] # c
    BY <1>2 DEF PoolInv, HolderInv, Acquire
  <2>2. HolderInv'
    <3>1. /\ owner' = [owner EXCEPT ![c] = {t}] /\ conn' = [conn EXCEPT ![t] = c]
          /\ place'[t] \in {"begun", "open"}
          /\ \A s \in Tasks : s # t => place'[s] = place[s] /\ conn'[s] = conn[s]
      BY <1>2 DEF ScopeTypeOK, Acquire, PlaceAfterBegin
    <3>2. ASSUME NEW s \in Tasks, place'[s] \in {"begun", "open"}
          PROVE  owner'[conn'[s]] = {s}
      BY <2>1, <3>1, <3>2 DEF ScopeTypeOK, PoolInv, HolderInv
    <3>3. ASSUME NEW d \in Connections, NEW s \in owner'[d]
          PROVE  place'[s] \in {"begun", "open"} /\ conn'[s] = d
      <4>1. CASE d = c
        BY <3>1, <3>3, <4>1 DEF ScopeTypeOK
      <4>2. CASE d # c
        <5>1. s \in owner[d] /\ s \in Tasks /\ place[s] \in {"begun", "open"} /\ conn[s] = d
          BY <3>1, <3>3, <4>2 DEF ScopeTypeOK, PoolInv, HolderInv
        <5>2. s # t
          BY <1>2, <5>1 DEF Acquire
        <5>3. QED BY <3>1, <5>1, <5>2
      <4>3. QED BY <4>1, <4>2
    <3>4. QED BY <3>2, <3>3 DEF HolderInv
  <2>3. FreeInv'
    BY <1>2 DEF ScopeTypeOK, PoolInv, FreeInv, Acquire
  <2>4. ScopeInv'
    BY <1>2, <2>1 DEF ScopeTypeOK, PoolInv, FreeInv, ScopeInv, Acquire, PlaceAfterBegin
  <2>5. RemovedInv'
    BY <1>2, <2>1 DEF ScopeTypeOK, PoolInv, RemovedInv, Acquire, PlaceAfterBegin, data
  <2>6. QED BY <2>2, <2>3, <2>4, <2>5 DEF PoolInv
<1>3. ASSUME NEW t \in Tasks, GiveUpWaiting(t) PROVE PoolInv'
  BY <1>3 DEF ScopeTypeOK, PoolInv, HolderInv, FreeInv, ScopeInv, RemovedInv, GiveUpWaiting, pool, data
<1>4. ASSUME NEW t \in Tasks, SetScope(t) PROVE PoolInv'
  <2>1. \A s \in Tasks : s # t /\ place[s] \in {"begun", "open"} => conn[s] # conn[t]
    BY <1>4 DEF PoolInv, HolderInv, SetScope
  <2>2. owner[conn[t]] # {}
    BY <1>4 DEF PoolInv, HolderInv, SetScope
  <2>3. HolderInv'
    BY <1>4 DEF ScopeTypeOK, PoolInv, HolderInv, SetScope
  <2>4. FreeInv' /\ ScopeInv'
    BY <1>4, <2>1, <2>2 DEF ScopeTypeOK, PoolInv, FreeInv, ScopeInv, SetScope
  <2>5. RemovedInv'
    BY <1>4, <2>1 DEF ScopeTypeOK, PoolInv, RemovedInv, SetScope, data
  <2>6. QED BY <2>3, <2>4, <2>5 DEF PoolInv
<1>5. ASSUME NEW t \in Tasks, Read(t) PROVE PoolInv'
  <2>1. CASE PolicyFails(conn[t])
    BY <1>0, <1>5, <2>1 DEF Read
  <2>2. CASE ~PolicyFails(conn[t])
    BY <1>5, <2>2 DEF Read, PoolInv, HolderInv, FreeInv, ScopeInv, RemovedInv, pool, data
  <2>3. QED BY <2>1, <2>2
<1>6. ASSUME NEW t \in Tasks, Write(t) PROVE PoolInv'
  <2>1. CASE Rollback(t)
    BY <1>0, <1>6, <2>1 DEF Write
  <2>2. CASE UNCHANGED <<pool, removed, task>>
    BY <2>2 DEF PoolInv, HolderInv, FreeInv, ScopeInv, RemovedInv, pool, task
  <2>3. QED BY <1>6, <2>1, <2>2 DEF Write
<1>7. ASSUME NEW t \in Tasks, CreatePortfolio(t) PROVE PoolInv'
  BY <1>7 DEF CreatePortfolio, PoolInv, HolderInv, FreeInv, ScopeInv, RemovedInv, pool, task
<1>8. ASSUME NEW t \in Tasks, CommitCreation(t) PROVE PoolInv'
  <2>1. /\ place[t] \in {"begun", "open"} /\ GiveBack(t, conn[t], pending[conn[t]]) /\ conn' = conn
        /\ place' = [place EXCEPT ![t] = "waiting"]
        /\ \A s \in Tasks : s # t => scope'[s] = scope[s]
    BY <1>8 DEF ScopeTypeOK, CommitCreation, Committed
  <2>2. QED BY <2>1, GiveBackKeepsPool
<1>9. ASSUME NEW t \in Tasks, Commit(t) PROVE PoolInv'
  <2>1. /\ place[t] \in {"begun", "open"} /\ GiveBack(t, conn[t], pending[conn[t]]) /\ conn' = conn
        /\ place' = [place EXCEPT ![t] = "idle"] /\ scope' = scope
    BY <1>9 DEF Commit, Committed
  <2>2. QED BY <2>1, GiveBackKeepsPool
<1>10. ASSUME NEW t \in Tasks, Fail(t) PROVE PoolInv'
  BY <1>0, <1>10 DEF Fail
<1>11. ASSUME NEW c \in Connections, Reconnect(c) PROVE PoolInv'
  <2>1. \A s \in Tasks : place[s] \in {"begun", "open"} => conn[s] # c
    BY <1>11 DEF PoolInv, HolderInv, Reconnect
  <2>2. QED
    BY <1>11, <2>1 DEF ScopeTypeOK, PoolInv, HolderInv, FreeInv, ScopeInv, RemovedInv, Reconnect, data, task
<1>12. CASE UNCHANGED scopeVars
  BY <1>12 DEF PoolInv, HolderInv, FreeInv, ScopeInv, RemovedInv, scopeVars, pool, data, task
<1>13. ASSUME NEW t \in Tasks, Clear(t) PROVE PoolInv'
  <2>1. CASE PolicyFails(conn[t])
    BY <1>0, <1>13, <2>1 DEF Clear
  <2>2. CASE ~PolicyFails(conn[t])
    <3>1. /\ owner[conn[t]] = {t} /\ place[t] = "open"
          /\ \A s \in Tasks : s # t /\ place[s] \in {"begun", "open"} => conn[s] # conn[t]
      BY <1>13 DEF PoolInv, HolderInv, Clear
    <3>2. HolderInv' /\ FreeInv' /\ ScopeInv'
      BY <1>13, <2>2 DEF Clear, PoolInv, HolderInv, FreeInv, ScopeInv, pool, task
    <3>3. \A row \in Visible(conn[t]) : row[2] = scope[t]
      BY <3>1 DEF Visible, PoolInv, ScopeInv
    <3>4. RemovedInv'
      <4> DEFINE gone == {row \in Visible(conn[t]) : row[1] = "chat_messages"} \cap stored
      <4>1. /\ removed' = [removed EXCEPT ![conn[t]] = removed[conn[t]] \cup gone]
            /\ UNCHANGED <<owner, place, scope, conn>>
        BY <1>13, <2>2 DEF Clear, pool, task
      <4>2. \A row \in gone : row[2] = scope[t]
        BY <3>3
      <4> HIDE DEF gone
      <4>3. ASSUME NEW c \in Connections, owner[c] = {} PROVE removed'[c] = {}
        BY <3>1, <4>1, <4>3 DEF ScopeTypeOK, PoolInv, RemovedInv
      <4>4. ASSUME NEW s \in Tasks
            PROVE  /\ place[s] = "begun" => removed'[conn[s]] = {}
                   /\ place[s] = "open" => \A row \in removed'[conn[s]] : row[2] = scope[s]
        BY <3>1, <4>1, <4>2 DEF ScopeTypeOK, PoolInv, RemovedInv
      <4>5. QED BY <4>1, <4>3, <4>4 DEF RemovedInv
    <3>5. QED BY <3>2, <3>4 DEF PoolInv
  <2>3. QED BY <2>1, <2>2
<1>14. QED
  BY <1>1, <1>2, <1>3, <1>4, <1>5, <1>6, <1>7, <1>8, <1>9, <1>10, <1>11, <1>12, <1>13
  DEF ScopeNext, Proceed

\* What the tasks have read and been refused.
TaskInv == CreatingInv /\ Isolation /\ ScopedNeverRefused

\* Every step keeps what has been read to the reader's portfolio.
LEMMA TaskStep == ScopeTypeOK /\ PoolInv /\ TaskInv /\ [ScopeNext]_scopeVars => TaskInv'
<1> SUFFICES ASSUME ScopeTypeOK, PoolInv, TaskInv, [ScopeNext]_scopeVars PROVE TaskInv'
  OBVIOUS
<1> USE DEF TaskInv, CreatingInv, Isolation, ScopedNeverRefused
<1>1. ASSUME NEW t \in Tasks, NEW p \in Ids, Start(t, p, FALSE) PROVE TaskInv'
  BY <1>1 DEF ScopeTypeOK, Start
<1>2. ASSUME NEW t \in Tasks, NEW b \in BOOLEAN, Start(t, NoScope, b) PROVE TaskInv'
  BY <1>2 DEF ScopeTypeOK, Start
<1>3. ASSUME NEW t \in Tasks, NEW c \in Connections, Acquire(t, c) PROVE TaskInv'
  BY <1>3 DEF ScopeTypeOK, Acquire, PlaceAfterBegin
<1>4. ASSUME NEW t \in Tasks, GiveUpWaiting(t) PROVE TaskInv'
  BY <1>4 DEF GiveUpWaiting
<1>5. ASSUME NEW t \in Tasks, SetScope(t) PROVE TaskInv'
  BY <1>5 DEF SetScope
<1>6. ASSUME NEW t \in Tasks, Read(t) PROVE TaskInv'
  <2>1. CASE PolicyFails(conn[t])
    <3>1. scope[t] = NoScope
      BY <1>6, <2>1 DEF Read, PolicyFails, PoolInv, ScopeInv
    <3>2. QED BY <1>6, <2>1, <3>1 DEF ScopeTypeOK, Read, Rollback
  <2>2. CASE ~PolicyFails(conn[t])
    <3>1. \A row \in Visible(conn[t]) : row[2] = scope[t] /\ row[2] \in Ids
      BY <1>6 DEF ScopeTypeOK, Read, Visible, Table, Row, PoolInv, ScopeInv
    <3>2. seen' = [seen EXCEPT ![t] = seen[t] \cup Visible(conn[t])] /\ t \notin creating
      BY <1>6, <2>2 DEF Read
    <3>3. UNCHANGED <<place, scope, creating, refused>>
      BY <1>6, <2>2 DEF Read
    <3>4. QED BY <3>1, <3>2, <3>3, IdsAreScopes DEF ScopeTypeOK
  <2>3. QED BY <2>1, <2>2
<1>7. ASSUME NEW t \in Tasks, Write(t) PROVE TaskInv'
  <2>1. setting[conn[t]] = scope[t] /\ ~PolicyFails(conn[t])
    BY <1>7 DEF Write, PolicyFails, PoolInv, ScopeInv
  <2>2. /\ UNCHANGED <<scope, seen, refused>> /\ creating' \subseteq creating
        /\ \A s \in creating' : place'[s] = place[s]
    BY <1>7, <2>1 DEF ScopeTypeOK, Write, Rollback, task
  <2>3. QED BY <2>2
<1>8. ASSUME NEW t \in Tasks, CreatePortfolio(t) PROVE TaskInv'
  BY <1>8 DEF CreatePortfolio, task
<1>9. ASSUME NEW t \in Tasks, CommitCreation(t) PROVE TaskInv'
  <2>1. /\ seen[t] = {} /\ t \notin refused
        /\ UNCHANGED <<seen, refused>> /\ creating' = creating \ {t}
        /\ \A s \in Tasks : s # t => scope'[s] = scope[s] /\ place'[s] = place[s]
    BY <1>9 DEF ScopeTypeOK, CommitCreation
  <2>2. QED BY <2>1 DEF ScopeTypeOK
<1>10. ASSUME NEW t \in Tasks, Commit(t) PROVE TaskInv'
  BY <1>10 DEF Commit
<1>11. ASSUME NEW t \in Tasks, Fail(t) PROVE TaskInv'
  BY <1>11 DEF Fail, Rollback
<1>12. ASSUME NEW c \in Connections, Reconnect(c) PROVE TaskInv'
  BY <1>12 DEF Reconnect, task
<1>13. CASE UNCHANGED scopeVars
  BY <1>13 DEF scopeVars, task
<1>14. ASSUME NEW t \in Tasks, Clear(t) PROVE TaskInv'
  <2>1. setting[conn[t]] = scope[t] /\ ~PolicyFails(conn[t])
    BY <1>14 DEF Clear, PolicyFails, PoolInv, ScopeInv
  <2>2. QED BY <1>14, <2>1 DEF Clear, task
<1>15. QED
  BY <1>1, <1>2, <1>3, <1>4, <1>5, <1>6, <1>7, <1>8, <1>9, <1>10, <1>11, <1>12, <1>13, <1>14
  DEF ScopeNext, Proceed

\* At the start every connection is free and nothing has been read.
LEMMA ScopeInitInv == ScopeInit => IsolationInv
<1> SUFFICES ASSUME ScopeInit PROVE IsolationInv
  OBVIOUS
<1>1. ScopeTypeOK
  BY IdAssumption, JobAssumption DEF ScopeInit, ScopeTypeOK, Ids, Row
<1>2. HolderInv /\ FreeInv /\ ScopeInv /\ RemovedInv
  BY DEF ScopeInit, HolderInv, FreeInv, ScopeInv, RemovedInv
<1>3. CreatingInv /\ Isolation /\ ScopedNeverRefused
  BY DEF ScopeInit, CreatingInv, Isolation, ScopedNeverRefused
<1>4. QED BY <1>1, <1>2, <1>3 DEF IsolationInv

-----------------------------------------------------------------------------
\* The inductive invariant holds however tasks share the pool.
THEOREM ScopeInvariance == ScopeSpec => []IsolationInv
<1>1. IsolationInv /\ [ScopeNext]_scopeVars => IsolationInv'
  <2> SUFFICES ASSUME IsolationInv, [ScopeNext]_scopeVars PROVE IsolationInv'
    OBVIOUS
  <2>1. ScopeTypeOK /\ PoolInv /\ CreatingInv /\ TaskInv
    BY DEF IsolationInv, PoolInv, TaskInv
  <2>2. ScopeTypeOK' /\ PoolInv' /\ TaskInv'
    BY <2>1, ScopeTypeStep, PoolStep, TaskStep
  <2>3. QED BY <2>2 DEF IsolationInv, PoolInv, TaskInv
<1>2. QED BY ScopeInitInv, <1>1, PTL DEF ScopeSpec

\* Every variable of the pool's model keeps its type.
THEOREM ScopeTypeCorrectness == ScopeSpec => []ScopeTypeOK
<1>1. IsolationInv => ScopeTypeOK
  BY DEF IsolationInv
<1>2. QED BY ScopeInvariance, <1>1, PTL

\* No job reads a row of another portfolio, and no unscoped job reads any, for
\* every number of tasks, connections and portfolios.
THEOREM PortfoliosAreIsolated == ScopeSpec => []Isolation
<1>1. IsolationInv => Isolation
  BY DEF IsolationInv
<1>2. QED BY ScopeInvariance, <1>1, PTL

\* The policies refuse no scoped job.
THEOREM ScopedJobsPass == ScopeSpec => []ScopedNeverRefused
<1>1. IsolationInv => ScopedNeverRefused
  BY DEF IsolationInv
<1>2. QED BY ScopeInvariance, <1>1, PTL

\* A committed row goes only when a job of its portfolio deletes it.
THEOREM ForeignRowsSurvive == ScopeSpec => ForeignRowsStay
<1>1. ASSUME IsolationInv, [ScopeNext]_scopeVars, NEW row \in stored \ stored'
      PROVE  \E t \in Tasks : place[t] = "open" /\ scope[t] = row[2]
  <2>1. PICK t \in Tasks : Commit(t) \/ CommitCreation(t)
    BY <1>1 DEF ScopeNext, Proceed, Start, Acquire, GiveUpWaiting, SetScope, Read, Write,
         Clear, CreatePortfolio, Fail, Reconnect, Rollback, scopeVars, data
  <2>2. place[t] = "open" /\ row \in removed[conn[t]]
    BY <1>1, <2>1 DEF Commit, CommitCreation, Committed
  <2>3. QED BY <1>1, <2>2 DEF IsolationInv, RemovedInv
<1>2. IsolationInv /\ [ScopeNext]_scopeVars =>
        [\A row \in stored \ stored' :
           \E t \in Tasks : place[t] = "open" /\ scope[t] = row[2]]_scopeVars
  BY <1>1
<1>3. QED BY ScopeInvariance, <1>2, PTL DEF ScopeSpec, ForeignRowsStay
=============================================================================
