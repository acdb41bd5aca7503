----------------------------- MODULE Ingestion ------------------------------
(***************************************************************************)
(* IngestionPipeline.run (services/ingestion/pipeline.py) under concurrent *)
(* requests (the API and the seed command) and crashes.  A payload stands  *)
(* for its checksum, the UNIQUE key of ingest_runs.  A request is three    *)
(* database steps with everything else in between them: the succeeded-skip *)
(* SELECT, the INSERT ... ON CONFLICT DO UPDATE of the same READ COMMITTED *)
(* transaction, and the transaction that loads, quarantines and closes the *)
(* run.  What the loaders write is abstracted to how often they did.       *)
(***************************************************************************)
EXTENDS Naturals, FiniteSets

CONSTANTS
  Requests,    \* concurrent callers of run
  Payloads,
  Shape,       \* payload -> [parses, valid, rejects]: what its adapter makes of it
  MaxCalls     \* bound: calls of run in a behaviour

ASSUME ShapeAssumption ==
  Shape \in [Payloads -> [parses : BOOLEAN, valid : Nat, rejects : Nat]]
ASSUME BoundAssumption == MaxCalls \in Nat

VARIABLES
  runs,         \* payload -> status of its ingest_runs row, "none" if there is no row
  quarantined,  \* payload -> rows in ingest_quarantine under its run
  loads,        \* payload -> how often its records were loaded and committed
  pc,           \* request -> where it is
  payload,      \* request -> the payload it works on
  report,       \* request -> the answer to its last call
  calls,        \* calls made (bound)
  overlapped,   \* payloads that two requests worked on at the same time (history)
  left          \* payloads whose request raised or died after it had registered
                \* the run, since the run was last closed (history)

vars == <<runs, quarantined, loads, pc, payload, report, calls, overlapped, left>>
db == <<runs, quarantined, loads>>

Status == {"none", "running", "succeeded", "failed"}
Report == {"none", "succeeded", "failed", "skipped", "raised"}
Place == {"idle", "checked", "parsing", "publishing"}

\* Request r has committed its run row and not closed it.
Registered(r) == pc[r] \in {"parsing", "publishing"}
Working(p) == {r \in Requests : pc[r] # "idle" /\ payload[r] = p}

Init ==
  /\ runs = [p \in Payloads |-> "none"]
  /\ quarantined = [p \in Payloads |-> 0]
  /\ loads = [p \in Payloads |-> 0]
  /\ pc = [r \in Requests |-> "idle"]
  /\ payload \in [Requests -> Payloads]
  /\ report = [r \in Requests |-> "none"]
  /\ calls = 0
  /\ overlapped = {}
  /\ left = {}

\* Request r moves to a place; it answers when the place is "idle".
Goto(r, place, answer) ==
  /\ pc' = [pc EXCEPT ![r] = place]
  /\ report' = [report EXCEPT ![r] = answer]

\* Mutant: every run row is taken for a finished one.
AlreadySeen(p) == runs[p] # "none"

\* Mutant: nothing is ever skipped.
NeverDone(p) == FALSE

\* SELECT ... WHERE checksum = :checksum AND status = 'succeeded'.
AlreadyDone(p) == runs[p] = "succeeded"

\* A call arrives and looks for a succeeded run of the payload.
Check(r, p) ==
  /\ pc[r] = "idle"
  /\ calls < MaxCalls
  /\ calls' = calls + 1
  /\ payload' = [payload EXCEPT ![r] = p]
  /\ IF AlreadyDone(p) THEN Goto(r, "idle", "skipped") ELSE Goto(r, "checked", "none")
  /\ overlapped' = IF Working(p) = {} THEN overlapped ELSE overlapped \cup {p}
  /\ UNCHANGED <<db, left>>

\* Insert the run row, or reset the one a crash (or a failure) left behind,
\* and commit.
Register(r) ==
  /\ pc[r] = "checked"
  /\ runs' = [runs EXCEPT ![payload[r]] = "running"]
  /\ Goto(r, "parsing", "none")
  /\ UNCHANGED <<quarantined, loads, payload, calls, overlapped, left>>

\* The adapter splits the payload into valid and rejected rows, or raises; the
\* exception leaves the run row as it is.
Parse(r) ==
  /\ pc[r] = "parsing"
  /\ IF Shape[payload[r]].parses
     THEN Goto(r, "publishing", "none") /\ UNCHANGED left
     ELSE Goto(r, "idle", "raised") /\ left' = left \cup {payload[r]}
  /\ UNCHANGED <<db, payload, calls, overlapped>>

\* A run fails only when every row was rejected.
Outcome(p) ==
  IF Shape[p].valid > 0 \/ Shape[p].rejects = 0 THEN "succeeded" ELSE "failed"

\* Mutant: the load and the quarantine are committed, the status is not.
PublishOpen(r) ==
  LET p == payload[r]
  IN  /\ pc[r] = "publishing"
      /\ loads' = [loads EXCEPT ![p] = @ + (IF Shape[p].valid > 0 THEN 1 ELSE 0)]
      /\ quarantined' = [quarantined EXCEPT ![p] = @ + Shape[p].rejects]
      /\ Goto(r, "idle", Outcome(p))
      /\ UNCHANGED <<runs, payload, calls, overlapped, left>>

\* Mutant: only a success closes the run.
PublishSuccess(r) ==
  LET p == payload[r]
  IN  /\ pc[r] = "publishing"
      /\ loads' = [loads EXCEPT ![p] = @ + (IF Shape[p].valid > 0 THEN 1 ELSE 0)]
      /\ quarantined' = [quarantined EXCEPT ![p] = @ + Shape[p].rejects]
      /\ runs' = IF Outcome(p) = "succeeded" THEN [runs EXCEPT ![p] = Outcome(p)] ELSE runs
      /\ left' = left \ {p}
      /\ Goto(r, "idle", Outcome(p))
      /\ UNCHANGED <<payload, calls, overlapped>>

\* Load, quarantine and close the run in one transaction.
Publish(r) ==
  LET p == payload[r]
  IN  /\ pc[r] = "publishing"
      /\ loads' = [loads EXCEPT ![p] = @ + (IF Shape[p].valid > 0 THEN 1 ELSE 0)]
      /\ quarantined' = [quarantined EXCEPT ![p] = @ + Shape[p].rejects]
      /\ runs' = [runs EXCEPT ![p] = Outcome(p)]
      /\ left' = left \ {p}
      /\ Goto(r, "idle", Outcome(p))
      /\ UNCHANGED <<payload, calls, overlapped>>

\* The transaction fails (a constraint, a deadlock between two loads, a lost
\* connection) and rolls back; the run row stays "running".
PublishFails(r) ==
  /\ pc[r] = "publishing"
  /\ Goto(r, "idle", "raised")
  /\ left' = left \cup {payload[r]}
  /\ UNCHANGED <<db, payload, calls, overlapped>>

\* The process dies with every request in it; open transactions roll back.
Crash ==
  /\ \E r \in Requests : pc[r] # "idle"
  /\ pc' = [r \in Requests |-> "idle"]
  /\ report' = [r \in Requests |-> IF pc[r] = "idle" THEN report[r] ELSE "none"]
  /\ left' = left \cup {payload[r] : r \in {q \in Requests : Registered(q)}}
  /\ UNCHANGED <<db, payload, calls, overlapped>>

Step(r) == Register(r) \/ Parse(r) \/ Publish(r) \/ PublishFails(r)

Next ==
  \/ \E r \in Requests, p \in Payloads : Check(r, p)
  \/ \E r \in Requests : Step(r)
  \/ Crash

\* Nothing has to happen: what is promised of the run rows is safety.
Spec == Init /\ [][Next]_vars

-----------------------------------------------------------------------------
Publishable(p) == Shape[p].parses /\ Outcome(p) = "succeeded"

\* The variables stay in their types.
TypeOK ==
  /\ runs \in [Payloads -> Status]
  /\ quarantined \in [Payloads -> Nat]
  /\ loads \in [Payloads -> Nat]
  /\ pc \in [Requests -> Place]
  /\ payload \in [Requests -> Payloads]
  /\ report \in [Requests -> Report]
  /\ calls \in 0 .. MaxCalls
  /\ overlapped \subseteq Payloads
  /\ left \subseteq Payloads

\* What a caller is told is so: "succeeded" and "skipped" mean that the
\* payload's valid rows are in the fact tables, now, whatever crashed or raced
\* in between; "failed" means that it had none (pipeline.py:105, 76-87).
ReportsTrue ==
  \A r \in Requests : pc[r] = "idle" =>
    LET p == payload[r]
    IN  /\ report[r] \in {"succeeded", "skipped"} =>
             Publishable(p) /\ (Shape[p].valid > 0 => loads[p] > 0)
        /\ report[r] = "failed" => Shape[p].valid = 0 /\ quarantined[p] > 0

\* Requests for one payload that follow each other load it once and quarantine
\* its rejects once, over any crashes and retries (pipeline.py:61: "Same
\* payload twice -> 'skipped'"; README.md: "checksummed idempotent runs").
OnceWithoutOverlap ==
  \A p \in Payloads : p \notin overlapped /\ Publishable(p) =>
    loads[p] <= 1 /\ quarantined[p] <= Shape[p].rejects

\* The run of p succeeded, and nobody who looked before that is yet to register.
Settled(p) ==
  /\ runs[p] = "succeeded"
  /\ \A r \in Requests : ~(pc[r] = "checked" /\ payload[r] = p)

\* A settled success is final: the only way to reopen a run that succeeded is
\* that of a request whose SELECT came before the success and whose upsert
\* comes after it, and once no such request is left, none comes, whoever still
\* parses or publishes the payload (pipeline.py:69-102).
SuccessIsFinal == [][\A p \in Payloads : Settled(p) => Settled(p)']_vars

\* A run row says "running" only while a request works on it, or because one
\* that had registered it raised or died since the row was last closed: no
\* interleaving of requests that all come to their end leaves a run open, a
\* reopened one included (pipeline.py:87-127).
OpenRunHasCause ==
  \A p \in Payloads : runs[p] = "running" =>
    p \in left \/ \E r \in Requests : Registered(r) /\ payload[r] = p
=============================================================================
