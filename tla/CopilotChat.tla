---------------------------- MODULE CopilotChat -----------------------------
(***************************************************************************)
(* CopilotService (services/agent/service.py) behind POST, GET and DELETE  *)
(* /portfolios/{id}/chat (api/chat.py), for one portfolio and concurrent   *)
(* requests.  A turn spans three transactions: the question is committed   *)
(* before the stream starts, the history is read for the model's context,  *)
(* and only after the agent has run are the answer and one audit row per   *)
(* model call committed together.  In between the client may disconnect,   *)
(* the run may fail, other requests may write, and the chat may be         *)
(* cleared.  The agent is what AgentRun promises: it delivers a text,      *)
(* canned or not, after some model calls, each on its ledger (AgentGraph's *)
(* UsageLedger), or it delivers nothing.                                   *)
(***************************************************************************)
EXTENDS Naturals, FiniteSets

CONSTANTS
  Requests,
  CONTEXT_MESSAGES,   \* how many messages the model is shown
  MaxModelCalls,      \* bound: model calls of one run
  MaxClears           \* bound: clears in a behaviour

ASSUME ContextAssumption == CONTEXT_MESSAGES \in Nat \ {0}
ASSUME BoundAssumption == MaxModelCalls \in Nat \ {0} /\ MaxClears \in Nat

VARIABLES
  messages,   \* committed rows of chat_messages
  audit,      \* request -> committed llm_audit_log rows of its run
  nextId,     \* the sequence behind chat_messages.id
  pc,         \* request -> where it is
  open,       \* request -> the row of its open transaction, as a set
  context,    \* request -> the messages its run was shown
  spent,      \* request -> model calls its run has made
  canned,     \* request -> whether its run delivered a canned text
  client,     \* request -> the last event its client got
  clears,     \* clears so far (bound)
  cleared     \* requests whose question was there when a clear ran (history)

vars == <<messages, audit, nextId, pc, open, context, spent, canned, client, clears, cleared>>

Place == {"idle", "posted", "recorded", "running", "delivered", "inserted", "stored", "closed"}
Event == {"none", "error", "answer", "cut"}
Message == [id : Nat, role : {"user", "assistant"}, req : Requests, canned : BOOLEAN]

Init ==
  /\ messages = {}
  /\ audit = [r \in Requests |-> 0]
  /\ nextId = 1
  /\ pc = [r \in Requests |-> "idle"]
  /\ open = [r \in Requests |-> {}]
  /\ context = [r \in Requests |-> {}]
  /\ spent = [r \in Requests |-> 0]
  /\ canned = [r \in Requests |-> FALSE]
  /\ client = [r \in Requests |-> "none"]
  /\ clears = 0
  /\ cleared = {}

At(r, from, to) == pc[r] = from /\ pc' = [pc EXCEPT ![r] = to]

Row(role, r, isCanned) == [id |-> nextId, role |-> role, req |-> r, canned |-> isCanned]

Later(m, S) == {n \in S : n.id > m.id}

\* Mutant: the window is cut before the canned texts are dropped.
WindowFirst(S) ==
  LET window == {m \in S : Cardinality(Later(m, S)) < CONTEXT_MESSAGES}
  IN  {m \in window : ~m.canned}

\* _render_context: drop the canned texts, then keep the newest messages.
Recent(S) ==
  LET informative == {m \in S : ~m.canned}
  IN  {m \in informative : Cardinality(Later(m, informative)) < CONTEXT_MESSAGES}

\* record_user_message: the question takes its id, uncommitted.
InsertQuestion(r) ==
  /\ At(r, "idle", "posted")
  /\ open' = [open EXCEPT ![r] = {Row("user", r, FALSE)}]
  /\ nextId' = nextId + 1
  /\ UNCHANGED <<messages, audit, context, spent, canned, client, clears, cleared>>

\* Leaving portfolio_scope commits it, before the stream opens.
CommitQuestion(r) ==
  /\ At(r, "posted", "recorded")
  /\ messages' = messages \cup open[r]
  /\ open' = [open EXCEPT ![r] = {}]
  /\ UNCHANGED <<audit, nextId, context, spent, canned, client, clears, cleared>>

\* Mutant: the run waits for a history that a clear may have emptied.
ReadNonEmpty(r) ==
  /\ Recent(messages) # {}
  /\ At(r, "recorded", "running")
  /\ context' = [context EXCEPT ![r] = Recent(messages)]
  /\ UNCHANGED <<messages, audit, nextId, open, spent, canned, client, clears, cleared>>

ReadHistory(r) ==
  /\ At(r, "recorded", "running")
  /\ context' = [context EXCEPT ![r] = Recent(messages)]
  /\ UNCHANGED <<messages, audit, nextId, open, spent, canned, client, clears, cleared>>

\* The run calls the model; plan and evidence events go to the client.
CallModel(r) ==
  /\ pc[r] = "running"
  /\ spent[r] < MaxModelCalls
  /\ spent' = [spent EXCEPT ![r] = @ + 1]
  /\ UNCHANGED <<messages, audit, nextId, pc, open, context, canned, client, clears, cleared>>

Deliver(r) ==
  /\ spent[r] > 0
  /\ At(r, "running", "delivered")
  /\ \E c \in BOOLEAN : canned' = [canned EXCEPT ![r] = c]
  /\ UNCHANGED <<messages, audit, nextId, open, context, spent, client, clears, cleared>>

\* An exception out of the run becomes an error event; nothing is stored.
RunFails(r) ==
  /\ At(r, "running", "closed")
  /\ client' = [client EXCEPT ![r] = "error"]
  /\ UNCHANGED <<messages, audit, nextId, open, context, spent, canned, clears, cleared>>

\* Mutant: the answer is committed on its own, ahead of its audit rows.
InsertAutocommitted(r) ==
  /\ At(r, "delivered", "inserted")
  /\ messages' = messages \cup {Row("assistant", r, canned[r])}
  /\ nextId' = nextId + 1
  /\ UNCHANGED <<audit, open, context, spent, canned, client, clears, cleared>>

\* _persist_turn, first half: the answer row takes its id, uncommitted.
InsertAnswer(r) ==
  /\ At(r, "delivered", "inserted")
  /\ open' = [open EXCEPT ![r] = {Row("assistant", r, canned[r])}]
  /\ nextId' = nextId + 1
  /\ UNCHANGED <<messages, audit, context, spent, canned, client, clears, cleared>>

\* _persist_turn, second half: an audit row per model call, then the commit.
CommitTurn(r) ==
  /\ At(r, "inserted", "stored")
  /\ messages' = messages \cup open[r]
  /\ open' = [open EXCEPT ![r] = {}]
  /\ audit' = [audit EXCEPT ![r] = spent[r]]
  /\ UNCHANGED <<nextId, context, spent, canned, client, clears, cleared>>

SendAnswer(r) ==
  /\ At(r, "stored", "closed")
  /\ client' = [client EXCEPT ![r] = "answer"]
  /\ UNCHANGED <<messages, audit, nextId, open, context, spent, canned, clears, cleared>>

\* The request is cut: the client disconnects or times out, the process dies,
\* or a database error escapes.  An open transaction rolls back.
Cut(r) ==
  /\ pc[r] \notin {"idle", "closed"}
  /\ pc' = [pc EXCEPT ![r] = "closed"]
  /\ open' = [open EXCEPT ![r] = {}]
  /\ client' = [client EXCEPT ![r] = "cut"]
  /\ UNCHANGED <<messages, audit, nextId, context, spent, canned, clears, cleared>>

\* Mutant: a clear spares the questions that are being answered.
ClearFinished ==
  /\ clears < MaxClears
  /\ clears' = clears + 1
  /\ messages' = {m \in messages : pc[m.req] # "closed"}
  /\ cleared' = cleared \cup {r \in Requests : pc[r] \notin {"idle", "posted"}}
  /\ UNCHANGED <<audit, nextId, pc, open, context, spent, canned, client>>

\* clear_history: DELETE removes the committed messages, and no audit row.
Clear ==
  /\ clears < MaxClears
  /\ clears' = clears + 1
  /\ messages' = {}
  /\ cleared' = cleared \cup {r \in Requests : pc[r] \notin {"idle", "posted"}}
  /\ UNCHANGED <<audit, nextId, pc, open, context, spent, canned, client>>

Step(r) ==
  \/ CommitQuestion(r) \/ ReadHistory(r) \/ CallModel(r) \/ Deliver(r) \/ RunFails(r)
  \/ InsertAnswer(r) \/ CommitTurn(r) \/ SendAnswer(r)

Next == (\E r \in Requests : InsertQuestion(r) \/ Step(r) \/ Cut(r)) \/ Clear

\* Starlette drives an accepted request's generator; nobody has to ask, to
\* clear or to disconnect.
Spec == Init /\ [][Next]_vars /\ \A r \in Requests : WF_vars(Step(r))

-----------------------------------------------------------------------------
Before(m, S) == {n \in S : n.id < m.id}

\* history: the rows in the order of their ids; what tells two messages apart.
History(S) ==
  LET Nth(i) == CHOOSE m \in S : Cardinality(Before(m, S)) = i - 1
  IN  [i \in 1 .. Cardinality(S) |-> [question |-> Nth(i).req, role |-> Nth(i).role]]

TurnOf(at) ==
  IF at \in {"idle", "posted"} THEN "new"
  ELSE IF at \in {"stored", "closed"} THEN "over" ELSE "asked"

Log == INSTANCE ChatLog WITH Questions <- Requests,
                             log <- History(messages),
                             turn <- [r \in Requests |-> TurnOf(pc[r])]

Question(r, S) == {m \in S : m.req = r /\ m.role = "user"}
AnswerTo(r, S) == {m \in S : m.req = r /\ m.role = "assistant"}

\* The variables stay in their types.
TypeOK ==
  /\ messages \subseteq Message
  /\ audit \in [Requests -> 0 .. MaxModelCalls]
  /\ nextId \in Nat
  /\ pc \in [Requests -> Place]
  /\ open \in [Requests -> SUBSET Message]
  /\ context \in [Requests -> SUBSET Message]
  /\ spent \in [Requests -> 0 .. MaxModelCalls]
  /\ canned \in [Requests -> BOOLEAN]
  /\ client \in [Requests -> Event]
  /\ clears \in 0 .. MaxClears
  /\ cleared \subseteq Requests

\* The model never sees a canned refusal, sees at most CONTEXT_MESSAGES
\* messages, and sees the question being asked unless a clear removed it or a
\* full window of newer messages pushed it out (service.py:169-178).
ContextSound ==
  \A r \in Requests : pc[r] \in {"running", "delivered"} =>
    LET ctx == context[r]
    IN  /\ \A m \in ctx : ~m.canned
        /\ Cardinality(ctx) <= CONTEXT_MESSAGES
        /\ \/ Question(r, ctx) # {}
           \/ r \in cleared
           \/ /\ Cardinality(ctx) = CONTEXT_MESSAGES
              /\ \A q \in Question(r, messages), m \in ctx : m.id > q.id

\* A turn is stored whole or not at all: an answer comes with the audit rows
\* of all its run's model calls, audit rows never come without the answer, and
\* what the client was shown as an answer is what was stored; a clear may only
\* remove messages (service.py:150-167, 189-223).
TurnIsAtomic ==
  \A r \in Requests :
    /\ AnswerTo(r, messages) # {} => audit[r] = spent[r] /\ audit[r] > 0
    /\ audit[r] > 0 /\ r \notin cleared => AnswerTo(r, messages) # {}
    /\ client[r] = "answer" => audit[r] > 0
    /\ client[r] = "error" => AnswerTo(r, messages) = {} /\ audit[r] = 0

\* In the history an answer comes after its question, whatever else was asked
\* meanwhile; it stands without a question only if a clear ran after the
\* request began, and never next to a second answer to the same question.
AnswerFollowsQuestion ==
  \A r \in Requests : \A a \in AnswerTo(r, messages) :
    /\ \A q \in Question(r, messages) : q.id < a.id
    /\ Question(r, messages) = {} => r \in cleared
    /\ \A b \in messages : b.id = a.id => b = a
    /\ AnswerTo(r, messages) = {a}

\* Whoever reads the history sees it as ChatLog promises, and as the drawer is
\* modelled on it: a message may slip in before others whose ids are newer, an
\* answer never before its question, and a clear takes everything at once.
ImplementsChatLog == Log!Spec

\* A question that was accepted is answered, refused or reported as failed,
\* unless the stream is cut.
RequestsEnd == \A r \in Requests : pc[r] = "recorded" ~> pc[r] = "closed"
=============================================================================
