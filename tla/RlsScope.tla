------------------------------ MODULE RlsScope ------------------------------
(***************************************************************************)
(* Row-level security on pooled connections: portfolio_scope               *)
(* (db/session.py), the policies of schema.sql, and the services and SQL   *)
(* tools as tasks that take a connection, run a transaction and give the   *)
(* connection back.  A task is a scoped job of one portfolio, an unscoped  *)
(* read (FactSqlTool, the fact-table queries), or the two transactions of  *)
(* PortfolioService.create.  A row is its table and its portfolio; the     *)
(* statements' SQL is abstracted to the rows it asks for, which is all of  *)
(* them; chat_messages stands for the tables that hang on a portfolio.     *)
(* list_portfolios, which bypasses the policies by design, is left out.    *)
(* Only portfolio_scope sets app.portfolio_id.                             *)
(***************************************************************************)
EXTENDS Naturals, FiniteSets

CONSTANTS
  Tasks,        \* coroutines that use the database
  Connections,  \* the pool's connections
  MaxId,        \* bound: portfolio ids
  MaxJobs       \* bound: jobs begun in a behaviour

ASSUME IdAssumption == MaxId \in Nat
ASSUME JobAssumption == MaxJobs \in Nat

VARIABLES
  setting,   \* connection -> app.portfolio_id in force, NoScope if it has no value
  touched,   \* connections whose server session has ever set app.portfolio_id
  owner,     \* connection -> the tasks that hold it (one at most)
  pending,   \* connection -> rows its open transaction has inserted
  removed,   \* connection -> committed rows its open transaction has deleted
  stored,    \* committed rows
  nextId,    \* next portfolio id of the sequence
  place, scope, \* task -> where it is; the portfolio of its transaction, or NoScope
  creating,  \* tasks in the first transaction of PortfolioService.create
  conn,      \* task -> the connection it took last
  seen,      \* task -> the rows its job has read
  refused,   \* tasks whose job ended in an error raised by a policy
  jobs       \* jobs begun (bound)

pool == <<setting, touched, owner>>
data == <<pending, removed, stored, nextId>>
task == <<place, scope, creating, conn, seen, refused>>
scopeVars == <<pool, data, task, jobs>>

NoScope == 0
Ids == 1 .. MaxId
Row == {"portfolios", "chat_messages"} \X Ids

ScopeInit ==
  /\ setting = [c \in Connections |-> NoScope]
  /\ touched = {}
  /\ owner = [c \in Connections |-> {}]
  /\ pending = [c \in Connections |-> {}]
  /\ removed = [c \in Connections |-> {}]
  /\ stored = {}
  /\ nextId = 1
  /\ place = [t \in Tasks |-> "idle"]
  /\ scope = [t \in Tasks |-> NoScope]
  /\ creating = {}
  /\ conn \in [Tasks -> Connections]
  /\ seen = [t \in Tasks |-> {}]
  /\ refused = {}
  /\ jobs = 0

-----------------------------------------------------------------------------
\* Mutant: set_config(..., false): the value outlives the transaction.
SettingKept(c) == setting

\* SET LOCAL ends with the transaction.
SettingAfter(c) == [setting EXCEPT ![c] = NoScope]

\* The transaction on c ends, having committed some insertions, and the pool
\* takes c back.  A row inserted meanwhile is not one that others deleted.
GiveBack(t, c, inserted) ==
  /\ setting' = SettingAfter(c)
  /\ owner' = [owner EXCEPT ![c] = @ \ {t}]
  /\ pending' = [pending EXCEPT ![c] = {}]
  /\ removed' = [d \in Connections |-> IF d = c THEN {} ELSE removed[d] \ inserted]
  /\ UNCHANGED touched

\* The transaction commits.
Committed(t, c) ==
  /\ stored' = (stored \ removed[c]) \cup pending[c]
  /\ GiveBack(t, c, pending[c])

\* The transaction rolls back and the job is over.
Rollback(t) ==
  /\ GiveBack(t, conn[t], {})
  /\ place' = [place EXCEPT ![t] = "idle"]
  /\ creating' = creating \ {t}
  /\ UNCHANGED <<stored, nextId, scope, conn, seen, jobs>>

\* A policy compares a row's portfolio with
\* current_setting('app.portfolio_id', true)::int.  On a session that never set
\* it the setting is NULL; after the transaction that set it, it is '', which
\* is not an integer.
PolicyFails(c) == setting[c] = NoScope /\ c \in touched
Table(c) == (stored \ removed[c]) \cup pending[c]

\* Mutant: a table without row-level security.
EveryRow(c) == Table(c)

Visible(c) == {row \in Table(c) : row[2] = setting[c]}

-----------------------------------------------------------------------------
\* A request or a tool call starts a job for portfolio p, for none, or a
\* creation; it waits for a connection.
Start(t, p, create) ==
  /\ place[t] = "idle" /\ jobs < MaxJobs
  /\ create => nextId + Cardinality(creating) <= MaxId
  /\ jobs' = jobs + 1
  /\ place' = [place EXCEPT ![t] = "waiting"]
  /\ scope' = [scope EXCEPT ![t] = p]
  /\ creating' = IF create THEN creating \cup {t} ELSE creating
  /\ seen' = [seen EXCEPT ![t] = {}]
  /\ refused' = refused \ {t}
  /\ UNCHANGED <<pool, data, conn>>

\* Mutant: the transaction starts without its context.
PlaceWithoutScope(t) == "open"

\* portfolio_scope sets the context first; an unscoped transaction is open.
PlaceAfterBegin(t) == IF scope[t] = NoScope THEN "open" ELSE "begun"

\* engine.connect() yields a pooled connection, and a transaction begins.
Acquire(t, c) ==
  /\ place[t] = "waiting" /\ owner[c] = {}
  /\ owner' = [owner EXCEPT ![c] = {t}]
  /\ conn' = [conn EXCEPT ![t] = c]
  /\ place' = [place EXCEPT ![t] = PlaceAfterBegin(t)]
  /\ UNCHANGED <<setting, touched, data, scope, creating, seen, refused, jobs>>

\* The pool's timeout, or the caller's disconnect, ends the wait.
GiveUpWaiting(t) ==
  /\ place[t] = "waiting"
  /\ place' = [place EXCEPT ![t] = "idle"]
  /\ creating' = creating \ {t}
  /\ UNCHANGED <<pool, data, scope, conn, seen, refused, jobs>>

\* SELECT set_config('app.portfolio_id', :pid, true).
SetScope(t) ==
  /\ place[t] = "begun"
  /\ setting' = [setting EXCEPT ![conn[t]] = scope[t]]
  /\ touched' = touched \cup {conn[t]}
  /\ place' = [place EXCEPT ![t] = "open"]
  /\ UNCHANGED <<owner, data, scope, creating, conn, seen, refused, jobs>>

\* A SELECT on the portfolio tables; an error of a policy leaves the block.
Read(t) ==
  /\ place[t] = "open" /\ t \notin creating
  /\ IF PolicyFails(conn[t])
     THEN Rollback(t) /\ refused' = refused \cup {t}
     ELSE /\ seen' = [seen EXCEPT ![t] = @ \cup Visible(conn[t])]
          /\ UNCHANGED <<pool, data, place, scope, creating, conn, refused, jobs>>

\* An INSERT for the job's portfolio: WITH CHECK compares it with the setting,
\* the foreign key looks for the portfolio, whose absence is an error.
Write(t) ==
  LET c == conn[t]
  IN  /\ place[t] = "open" /\ scope[t] # NoScope
      /\ IF PolicyFails(c) \/ setting[c] # scope[t]
         THEN Rollback(t) /\ refused' = refused \cup {t}
         ELSE IF <<"portfolios", scope[t]>> \notin stored
         THEN Rollback(t) /\ UNCHANGED refused
         ELSE /\ pending' = [pending EXCEPT ![c] = @ \cup {<<"chat_messages", scope[t]>>}]
              /\ UNCHANGED <<pool, removed, stored, nextId, task, jobs>>

\* DELETE FROM chat_messages, with no WHERE: the policy picks the rows.
Clear(t) ==
  LET c == conn[t]
      gone == {row \in Visible(c) : row[1] = "chat_messages"}
  IN  /\ place[t] = "open" /\ scope[t] # NoScope
      /\ IF PolicyFails(c)
         THEN Rollback(t) /\ refused' = refused \cup {t}
         ELSE /\ pending' = [pending EXCEPT ![c] = @ \ gone]
              /\ removed' = [removed EXCEPT ![c] = @ \cup (gone \cap stored)]
              /\ UNCHANGED <<pool, stored, nextId, task, jobs>>

\* create_portfolio (SECURITY DEFINER, past the policies) takes the next id.
CreatePortfolio(t) ==
  /\ place[t] = "open" /\ t \in creating /\ pending[conn[t]] = {} /\ nextId <= MaxId
  /\ pending' = [pending EXCEPT ![conn[t]] = {<<"portfolios", nextId>>}]
  /\ nextId' = nextId + 1
  /\ UNCHANGED <<pool, removed, stored, task, jobs>>

\* The block ends and the transaction commits.
Commit(t) ==
  /\ place[t] = "open" /\ t \notin creating
  /\ Committed(t, conn[t])
  /\ place' = [place EXCEPT ![t] = "idle"]
  /\ UNCHANGED <<nextId, scope, creating, conn, seen, refused, jobs>>

\* Mutant: the second transaction is opened inside the first one's block.
CommitCreationNested(t) ==
  /\ place[t] = "open" /\ t \in creating /\ pending[conn[t]] # {}
  /\ stored' = stored \cup pending[conn[t]]
  /\ pending' = [pending EXCEPT ![conn[t]] = {}]
  /\ \E row \in pending[conn[t]] : scope' = [scope EXCEPT ![t] = row[2]]
  /\ creating' = creating \ {t}
  /\ place' = [place EXCEPT ![t] = "waiting"]
  /\ UNCHANGED <<pool, removed, nextId, conn, seen, refused, jobs>>

\* The first transaction of a creation commits and gives its connection back;
\* the second one, scoped to the new portfolio, waits for one.
CommitCreation(t) ==
  /\ place[t] = "open" /\ t \in creating /\ pending[conn[t]] # {}
  /\ Committed(t, conn[t])
  /\ \E row \in pending[conn[t]] : scope' = [scope EXCEPT ![t] = row[2]]
  /\ creating' = creating \ {t}
  /\ place' = [place EXCEPT ![t] = "waiting"]
  /\ UNCHANGED <<nextId, conn, seen, refused, jobs>>

\* An exception, a statement timeout or a cancellation leaves the block.
Fail(t) ==
  /\ place[t] \in {"begun", "open"}
  /\ Rollback(t)
  /\ UNCHANGED refused

\* The pool replaces an idle connection (pre-ping, overflow): a new session.
Reconnect(c) ==
  /\ owner[c] = {} /\ c \in touched
  /\ touched' = touched \ {c}
  /\ setting' = [setting EXCEPT ![c] = NoScope]
  /\ UNCHANGED <<owner, data, task, jobs>>

\* What a transaction has to do to end.
Proceed(t) == SetScope(t) \/ CreatePortfolio(t) \/ CommitCreation(t) \/ Commit(t)

ScopeNext ==
  \/ \E t \in Tasks, p \in Ids : Start(t, p, FALSE)
  \/ \E t \in Tasks, create \in BOOLEAN : Start(t, NoScope, create)
  \/ \E t \in Tasks, c \in Connections : Acquire(t, c)
  \/ \E t \in Tasks : \/ GiveUpWaiting(t) \/ Read(t) \/ Write(t) \/ Clear(t)
                      \/ Proceed(t) \/ Fail(t)
  \/ \E c \in Connections : Reconnect(c)

\* A transaction runs finitely many statements and ends; the pool serves its
\* waiters in order, so one that could be served again and again is served.
\* Neither timeouts nor failures are owed to anybody.
Fairness ==
  \A t \in Tasks : WF_scopeVars(Proceed(t)) /\ SF_scopeVars(\E c \in Connections : Acquire(t, c))

ScopeSpec == ScopeInit /\ [][ScopeNext]_scopeVars /\ Fairness

-----------------------------------------------------------------------------
\* The variables stay in their types.
ScopeTypeOK ==
  /\ setting \in [Connections -> Ids \cup {NoScope}]
  /\ touched \subseteq Connections
  /\ owner \in [Connections -> SUBSET Tasks]
  /\ pending \in [Connections -> SUBSET Row]
  /\ removed \in [Connections -> SUBSET Row]
  /\ stored \subseteq Row
  /\ nextId \in 1 .. MaxId + 1
  /\ place \in [Tasks -> {"idle", "waiting", "begun", "open"}]
  /\ scope \in [Tasks -> Ids \cup {NoScope}]
  /\ creating \subseteq Tasks
  /\ conn \in [Tasks -> Connections]
  /\ seen \in [Tasks -> SUBSET Row]
  /\ refused \subseteq Tasks
  /\ jobs \in 0 .. MaxJobs

\* A job reads rows of its own portfolio only, and an unscoped job reads no
\* row of any, whoever used the connection before it and however that ended
\* (session.py:23-25, tools.py:125-130, tests/test_integration_rls.py).
Isolation ==
  \A t \in Tasks : \A row \in seen[t] : scope[t] # NoScope /\ row[2] = scope[t]

\* The policies never stand in the way of a scoped job: an error of a policy
\* is an unscoped job's (session.py:19-32).
ScopedNeverRefused == \A t \in refused : scope[t] = NoScope

\* A committed row only goes when a job of its own portfolio deletes it: the
\* DELETE has no WHERE clause and relies on the policy (service.py:113-115).
ForeignRowsStay ==
  [][\A row \in stored \ stored' :
       \E t \in Tasks : place[t] = "open" /\ scope[t] = row[2]]_scopeVars

\* Nobody waits for a connection for good: no task holds one while it waits
\* for another, so the pool cannot be exhausted by its own waiters
\* (portfolios.py:24-58, two transactions in a row).
Served == \A t \in Tasks : place[t] = "waiting" ~> place[t] # "waiting"

\* An unset context means no rows, never an error (schema.sql:206-208).  It is
\* an error on a connection that carried a scope before.
NeverAnError == refused = {}
=============================================================================
