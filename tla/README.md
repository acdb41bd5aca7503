# CoreSat: specification and proofs

TLA+ models of CoreSat, the demo that composes a core/satellite portfolio in a
wizard and answers questions about it with a grounded LLM agent. Sources are
under `src/projects/backend/coresat` (Python: FastAPI, SQLAlchemy, LangGraph)
and `src/projects/frontend/src` (Next.js); paths below are relative to these.
Every module is written from the code; where a comment or a document says
something else, that is a *finding* (section 6).

1. [Inventory](#1-inventory)
2. [Modules](#2-modules)
3. [How the modules correspond to the code](#3-how-the-modules-correspond-to-the-code)
4. [Runs, bounds, fairness](#4-runs-bounds-fairness)
5. [Proofs](#5-proofs)
6. [Findings and observations](#6-findings-and-observations)
7. [What is not modelled](#7-what-is-not-modelled)
8. [Running it](#8-running-it)

## 1. Inventory

**Server**

| Component | State it keeps | Operations | Talks to |
|---|---|---|---|
| **Agent graph** `services/agent/graph.py`, `agent.py`, `domain/agent.py` | one `AgentState` per run: plan, evidence, answer, grounded, attempts, rag_tried, validation_error, usage | nodes scope_guard, refuse, planner, execute, synthesise, validate, rag_fallback, give_up; `GroundedAgent.run` streams their updates and delivers the last state | LLM (three structured calls), executor, RAG tool |
| **Plan executor** `services/agent/executor.py` | `done`, `remaining` of one plan | `execute`, `_run_step` (never raises) | tools, concurrently |
| **Agent tools, model client** `tools.py`, `llm.py`, `provider.py`, `sql_templates.py` | none | run_sql (scoped / facts only), get_projection, rag_search; classify_scope, plan, synthesise with a three-try structured call | database, Ollama or cloud model |
| **Copilot chat service** `services/agent/service.py`, `api/chat.py` | `chat_messages`, `llm_audit_log` | record_user_message, stream_chat (SSE), history, clear_history, audit | agent graph, database |
| **Draft service, portfolio creation** `draft_service.py`, `services/portfolios.py`, `domain/draft.py`, `domain/portfolio.py` | `portfolios`, `sleeves`, `positions`; none of the conversation | stream_chat, _normalize_draft, _resolve_draft, _create; create in two transactions | agent graph, database |
| **Ingestion pipeline** `services/ingestion/pipeline.py`, `api/ingest.py`, `seed.py` | `ingest_runs` (checksum UNIQUE), `ingest_quarantine` | run: skip, register, parse, publish | adapters, loaders |
| **Loaders, adapters** `loaders.py`, `adapters.py` | instruments, prices, funds, fundamentals, doc_chunks | upserts per source; CSV/XLSX/JSON/PDF parsing, chunk packing | database, embedder |
| **Schema, row-level security** `db/schema.sql`, `db/session.py` | policies keyed by the setting `app.portfolio_id`; the connection pool | portfolio_scope, create_portfolio, list_portfolios | every service |
| **Grounded single calls** `services/grounding.py`, `comparison.py`, `analysis.py` | audit rows | two-attempt call, fabrication guard, audit | LLM, database |
| **Analytics** `analytics.py`, `projection.py`, `indicators.py` | none | summaries, health scores, screener, candles, projections, indicators | database |
| **Retrieval** `services/agent/retrieval.py` | none | vector + full-text pool, rerank | database, reranker |
| **Application assembly** `main.py`, middleware | none | wiring, CORS, logging | all |

**Browser**

| Component | State it keeps | Operations | Talks to |
|---|---|---|---|
| **Generated client, query cache** `lib/generated/endpoints.ts`, `lib/query-client.ts` | one cache entry per query key: data and a fetch | fetch, retry, refetch, invalidate, abort | the API |
| **Copilot drawer, SSE reader** `components/copilot/CopilotDrawer.tsx`, `lib/sse.ts` | the pending question, its phase and error; the reader's buffer | send, abort after five minutes, clear; split a byte stream into events | chat API, cache entry of the history |
| **Frame, portfolio picker** `components/layout/AppNav.tsx`, `lib/portfolio-context.tsx` | the selected portfolio, the removals (also in localStorage), the drawer's open flag | list, select, hide, navigate | list query, second tab |
| **Wizard's guided steps** `app/wizard/page.tsx` | step, amounts, selections, typed percentages, filters | four steps in both directions, submit, onCreated | funds and screener queries, portfolio API |
| **Assistant panel** `components/wizard/PortfolioAssistant.tsx` | messages, the shown draft, the pending request | send, abort after five minutes, onCreated | draft API over SSE |
| **Market pages, dashboard** `app/page.tsx`, `app/core`, `app/satellite`, `app/indicators`, `app/ingestion`, `components/market/CompareDialog.tsx`, `StockAnalysisDialog.tsx`, `CandleChartCard.tsx` | tickers, ranges, grid selection, dialogs with a mutation each, what-if inputs | switch, select, filter, compare, analyse, retry | nine queries, two POSTs |
| **Presentation** `Markdown.tsx`, `FinancialsPanel.tsx`, `CandleChart.tsx`, `lib/format.ts`, ... | none | layout, formatting, drawing | |

**What is hard.** Concurrency: plan steps run together under `asyncio.gather`;
chat requests of one portfolio interleave between three transactions each;
ingest requests for one payload interleave between the skip, the upsert and the
load; tasks hand pooled connections to each other; in the browser, answers
arrive after the portfolio, ticker or page they were asked for is gone, and a
second tab writes the same storage. Failure: a stream can be cut at any `await`;
`create` can die between its two transactions; an ingest can crash while its run
row says "running"; any model call can fail or degrade; any request or answer
can be lost and is then retried once, or by the user. Ordering and staleness:
the validator compares the newest answer with whatever evidence is in the state;
the page sends back the draft it shows, which an earlier request may have
replaced; the model's window is cut from messages of several requests; a cache
entry follows the server only by a refetch, which may be joined with an older
fetch, aborted or lost. Unchecked input: plans, answers and drafts are model
output of which only the schema is known.

**What makes each component correct.** The agent delivers no figure that its
evidence does not back, keeps its retry order, accounts for every model call and
ends. The executor answers every step of every plan, keeps the evidence it has,
and reports exactly the unresolvable steps as such, whatever the order of completion. A chat turn is stored whole and in order, and
the model sees a sound window. A portfolio is built from the draft the page
showed, whole unless cut, once unless retried, and without waiting for the model;
a shown draft is refused only for a field of its own. An ingest report is true, a
retry loads once, a settled success stays, and an open run has somebody at work
on it or somebody who left it. A transaction sees its own
portfolio and no other, and waits for a connection only while it holds none. The
drawer shows the stored conversation, keeps a question visible until it is part
of it, and is never locked for good; the stream reader yields the events that
were written. The picker lists what exists and keeps removals. A page shows under
each title the answer to what that title asks, and the wizard submits what the
server accepts.

## 2. Modules

| Module | Models | Composition |
|---|---|---|
| `AgentRun` | what one agent run promises (abstract) | implemented by `AgentGraph`; the contract `CopilotChat` and `PortfolioDraft` build on |
| `AgentGraph` | graph.py and agent.py | refines `AgentRun` (`Run == INSTANCE AgentRun WITH ...`) |
| `Executor` | executor.py | its result is the evidence of `AgentGraph`'s `Execute` |
| `ChatLog` | what the chat service promises of a portfolio's history (abstract) | implemented by `CopilotChat`; `CopilotDrawer`'s service is built from it |
| `CopilotChat` | service.py, api/chat.py | refines `ChatLog` (`Log == INSTANCE ChatLog WITH ...`); a run is `AgentRun`'s outcome plus the ledger `AgentGraph` guarantees |
| `PortfolioDraft` | PortfolioAssistant.tsx, draft_service.py, portfolios.py | page, service and database in one module |
| `Ingestion` | pipeline.py | adapters and loaders by their outcome |
| `RlsScope` | session.py, the policies of schema.sql, the SQL tools | the tasks stand for the transactions of all services |
| `QueryCache` | react-query as the frontend uses it, query-client.ts | operators on a cache, used by the three modules below |
| `Endpoints` | the requests, keys and enabled flags of endpoints.ts | used by the modules below |
| `SseReader` | sse.ts and the server's event format | used by `CopilotDrawer` |
| `CopilotDrawer` | CopilotDrawer.tsx under AppNav.tsx | over `Endpoints`, `QueryCache`, `SseReader`; the server is a `ChatLog` per portfolio (`Store(p) == INSTANCE ChatLog WITH ...`), what a browser sees of `CopilotChat` |
| `Picker` | AppNav.tsx, onCreated of the wizard and the assistant | over `Endpoints`, `QueryCache`; a creation is one step, detailed in `PortfolioDraft` |
| `Wizard` | the guided steps of app/wizard/page.tsx | extended by `Pages` |
| `Pages` | the routes: wizard, dashboard, core, satellite, indicators, ingestion, with dialogs | extends `Wizard`, `Endpoints`, `QueryCache` |
| `AgentProofs` | theorems on the agent graph and the plan executor | extends `AgentGraph`, `Executor`, `Induction` |
| `DatabaseProofs` | theorems on ingestion and on row-level security | extends `Ingestion`, `RlsScope` |
| `CopilotChatProofs`, `PortfolioDraftProofs`, `CopilotDrawerProofs`, `PagesProofs`, `PickerProofs` | theorems on the module they are named after | extend it, and `Induction` |
| `Induction` | lemmas: induction over numbers and finite sets, folds, sums, flattened sequences, insertion | shared by the proofs |
| `MC*` | model-checking instances | extend their module |

Beside the definitions stand the small operators marked "Mutant": plausible bugs
that the named property has to catch.

## 3. How the modules correspond to the code

**AgentGraph.** One action per node, `supersteps` counting LangGraph's
super-steps; `node` is the edge taken. `Planner`, `Synthesise` and `RagFallback`
choose any value the schema of the model's answer admits, the degraded ones of
llm.py included. A figure is named after the step whose evidence holds it, or is
the user's, or invented; figures of at most 100 without a suffix are waved
through by the code and are no figures here. `Validate` is the whole of
`validate` followed by `route_after_validate`. `Abort` is the consumer closing
the generator. Plans map distinct step ids to tools; repeated ids are
`Executor`'s subject.

**Executor.** `Ready`, `StartLevel`, `Finish`, `Collect`, `Stuck`, `Return`
follow the while loop; plans are any sequences of steps, with repeated ids,
self-dependencies, cycles and dangling ids. `done` records which position
produced an id's evidence, so that "the order of completion does not matter" can
be said. The module's own names (`ExecutorSpec`, `executorVars`, ...) leave
room for `AgentGraph`'s beside them in one module of proofs; so do `RlsScope`'s
beside `Ingestion`'s.

**CopilotChat.** One portfolio. `InsertQuestion` with `CommitQuestion`,
`ReadHistory`, `InsertAnswer` with `CommitTurn`, and `Clear` are the transactions; `CallModel`, `Deliver`,
`RunFails` are the agent's run; `SendAnswer` is the SSE event; `Cut` is
Starlette cancelling the generator, at every point. Ids come from a sequence,
which is not rolled back. `History` is the query of `history`: the rows in the
order of their ids, which is not the order of their commits, because a row takes
its id first and is visible later.

**ChatLog.** The contract between the service and whoever asks and reads one
history: a question is stored once, somewhere, an answer somewhere behind its
question, what is stored keeps its order, a question may be dropped, and a clear
takes everything. Neither message need come last: two requests may take their
ids in one order and commit in the other. `CopilotChat`
implements it with `log <- History(messages)` and a turn that is over with the
commit, the failure or the cut.

**PortfolioDraft.** `Send`, `Timeout`, `Leave` and `Reply` are the page's;
`Route`, `AgentFails`, `ModelCreates`, `ModelAnswers`, `Reject`, `Name`, `Fill`,
`Announce`, `Cut` the server's. Weights are integers in units of 1/`unit`, so
that normalising (dividing by the sum) is exact: it changes the unit. `terms`
says whether name, capital and contribution, which a draft leaves free, pass the
checks of `PortfolioCreate`. A pick is a position in the draft with what the
model named there, so that two picks that resolve to one ticker stay two
positions; the lookup itself (case, suffix, company name) is `Known`: a name
finds a row or does not. `built` is the argument of `_create`.
`Normalize`, `Resolve` and `ValidSpec` are the code's tests, in its order. A
draft of the model is a list, so its picks are finitely many.

**Ingestion.** `Check` and `Register` are the two statements of the first
transaction (READ COMMITTED, hence separate steps), `Publish` the load
transaction, `PublishFails` its rollback, `Crash` the process's end. What
adapters and loaders do is `Shape`: whether the payload parses and how many rows
are valid or rejected. Two history variables: `overlapped`, the payloads two
requests worked on at the same time, and `left`, those whose request raised or
died after it had registered the run, since the run was last closed.

**RlsScope.** A task waits for a connection, begins, sets the context
(`SetScope`), runs statements and commits or fails. `setting` is the
transaction-local value, `touched` whether the session has ever set it, which
decides between NULL and the empty string afterwards. `Clear` is the DELETE
without a WHERE clause, `CreatePortfolio`/`CommitCreation` the first transaction
of `create`. Statements ask for all rows; only `portfolio_scope` sets
`app.portfolio_id`.

**QueryCache, Endpoints.** A query is its request, its key and its enabled flag,
as the generated hooks build them from their parameters. An entry holds the last
answer and a fetch that is idle, asked, or answered by the server and not yet
taken over, so that anything may happen between the three. `Refetch` abandons a
fetch in flight for a new one unless it is the first of all, which is joined;
`Leave` aborts it; `Failed` retries once (query-client.ts). Answers of a status
other than 200 resolve and replace the data, as the generated functions do.

**CopilotDrawer.** `Turn` is the frame's change of portfolio under a drawer that
stays mounted; `Send`, `Receive`, `NextEvent`, `EndOfStream` and `Finally` are
send() with its stream, `GiveUp` its catch; `Clear`, `ServeClear`, `Cleared` the
button. Nothing keeps a second DELETE from being sent while the first is under
way (`clear` maps the clears to their requests). The hook's `onSuccess` reads the
portfolio of the latest render, and once another `mutate` has overtaken the
request, the portfolio of the render in which that happened (`Told`). The drawer's question, phase and error are kept for all portfolios, as
in the code. `Record`, `Answer`, `Fail`, `Abandon` are the service, written with
`ChatLog`'s operators: a message may land in front of one that is already there,
as the answer to a question whose client has gone does. `outdated`
is a history variable: the portfolios whose entry nothing will refresh by itself.

**SseReader.** A character is a line's text or a line end, so that a chunk may
end between any two of them; `Block`, `Rest` and `LineOf` follow the loop.

**Picker.** `OnCreated` is the wizard's and the assistant's; the mutation's
callbacks go with the page (`Unmount`), the assistant's stream goes on. `Create`,
`Reject` (a 422 for the wizard, an error event for the assistant) and `Break` are
the server's outcomes, `Break` being the second
transaction's failure, after which the portfolio is listed and the status is 500.
`removed` and `back` say what was removed here and why it may be seen again.

**Wizard.** The state of the stepper, one action per control. Percentages are
scaled by the product of the numbers of picks, so that the equal split is exact.
`Order` is the body that is posted, `Accepted` the server's field checks on it.

**Pages.** One route is mounted at a time; `Queries` lists what it observes, and
`Follow` turns the observers after every change. An answer is named by the
request it answers, market data being constant. The grid keeps its own selection
model, from which `Selected` takes what is charted (`Among` is what the grid leaves of
it when rows go); a dialog keeps the state of
its latest POST while it is closed. `body` is the mounted `DashboardBody`: the
React key it was mounted under and the summary its `useState` inputs started
from. `BodyAfter` is React's rule: same key, same instance with its state; another
key, or a page that showed its spinner in between, a new one that copies the
summary it is given. `Reconnect` asks again for what is observed and joins what is
in flight.

## 4. Runs, bounds, fairness

Deadlock checking is off in all runs, because in all of them the system may
rightly come to rest: a run has delivered, a plan is answered, or a bounded
number of calls, messages or jobs has been made. What must not stop is stated as
liveness. The type invariants of `AgentGraph`, `Ingestion` and `RlsScope` are
proved (section 5), and no run spends a property on types.

| Run | Asks |
|---|---|
| `agent_graph` | `ShippedFiguresBacked`, `NoAnswerFromFailedRetrieval` (grounding of what is delivered), `RetryDiscipline`, `UsageLedger`, `WithinRecursionLimit`, `Termination`, `ImplementsAgentRun` |
| `executor` | `EveryStepAnswered`, `EvidenceIsFinal` (what a level stored is never lost or replaced), `StuckExactly` (unresolvable is exactly: on or behind a cycle or a dangling id), `OrderIndependent`, `ExecutionEnds` |
| `ingestion` | `ReportsTrue`, `OnceWithoutOverlap`, `SuccessIsFinal` (only a call that looked before the success and registers after it reopens the run), `OpenRunHasCause` (a run row says "running" with somebody at work on it, or left by one that raised or died) |
| `copilot_chat` | `ContextSound`, `TurnIsAtomic`, `ImplementsChatLog` (refinement: what every reader may rely on), `RequestsEnd` |
| `portfolio_draft` | `PartialOnlyIfCut`, `BuildsWhatIsShown` (the draft of the request, not the model's, and the one still on the page), `RejectedOnlyForAField`, `DuplicateNeedsRetry`, `BuildNeedsNoModel` |
| `rls_scope` | `Isolation`, `ScopedNeverRefused`, `ForeignRowsStay`, `Served` |
| `copilot_drawer` | `ConversationCurrent`, `StreamIntact` (events survive any chunking), `NeverLocked` (while the input is locked, something at work leads out), `QuestionStaysVisible` |
| `picker` | `ListCurrent`, `RemovedStaysRemoved`, `DuplicateNeedsCause` |
| `pages` | `ShownIsAsked` (no answer under another request's title), `WhatIfOfSelected` (the what-if inputs in view are of the selected portfolio), `DialogMatches` (a dialog shows what its title asks, the second time too), `SubmissionSound` |
| `agent_graph_empty_retrieval`, `rls_scope_unset`, `satellite_select_all` | one claim of a comment or document each, which the code does not keep (section 6) |

**Bounds, and why they are enough.**

- `agent_graph`: two step ids, three tools of which one is not registered, the
  code's three attempts. Two steps are the least at which an attempt can be part
  facts, part failure, and at which an answer can quote the wrong step. The
  recursion limit is 16, the least the assumption allows (the code's 60 is
  looser), so that `WithinRecursionLimit` is tight.
- `executor`: all plans of up to three steps over three ids: cycles of length
  one to three, chains behind a cycle, dangling ids, pairs with the same id.
- `ingestion`: two requests, four calls, three payloads (mixed, all rejected,
  unparsable): a call after a crash, a retry after a failure, and two calls in
  every interleaving, including one that looked before the other succeeded.
- `copilot_chat`: two requests, a window of two messages (the code's is larger),
  one clear, up to two model calls: one request's turn fills the window of the
  other. The code's constant only moves the point where the window is full.
- `portfolio_draft`: one page, three messages, a known and an unknown core, a
  known satellite, weights of -0.2, 0.6 and 1.005: sums within and outside the
  tolerance, a negative weight, and a single weight over 1 that the tolerance
  lets pass; the other fields pass or do not. Three messages allow a proposal, a
  build that times out and a second build.
- `rls_scope`: two tasks, two connections, two portfolios, four jobs: each
  connection is used by both tasks for different portfolios and for none, and
  both tasks can be in a creation at once with the whole pool in their hands.
- `copilot_drawer`: two portfolios (symmetric), two questions, the first of
  which may write a progress event before its answer, two clears, one fault; a
  behaviour has at most two questions and two clears, or two questions and a
  fault, or a question, a clear and a fault (`MaxEvents`). So there is a question
  under one portfolio while another is selected, a second question while the first
  goes on without its client, a clear between a question and its refetch, and two
  DELETEs of one portfolio or of two, served in either order.
- `picker`: two creations, by the wizard or the assistant each, two faults
  (lost answers, server errors, bad or lost lists, reloads), two tabs: one
  creation meets the other's refresh, and a retry follows a loss.
- `pages`: two funds on pages of one card, two stocks in two sectors, two
  portfolios (symmetric), two values for each of range, interval and period, the
  first two changed on the funds' page (`Tuned`; the screener mounts the same chart
  card); one typed percentage (-60 or 40: a negative, a zero and a positive total);
  two comparisons or analyses on opening a dialog, so that the second can be of
  another selection while the first is unanswered, or one with a fault (lost or bad
  answer, reconnection) and its retries (`MaxEvents`). The wizard comes first and
  then any route, without a way back to it, since leaving it resets it. Answers kept unobserved are
  those of the portfolio paths (`Kept`), until the page is left: these are the
  entries that a switch of the selection comes back to with inputs in place.

**Fairness, and why the code justifies it.** `AgentGraph` has weak fairness on
the graph's next node: the event loop drives it. This takes for granted that a
model call returns or raises; the code gives it no timeout of its own, so
`Termination` says that the control flow ends, not that the model answers.
`Executor` has it on the loop, since `_run_step` turns every exception into an
error result and SQL has a statement timeout. `CopilotChat` has it on each
accepted request's own steps, under the same provision. `Ingestion` assumes none:
what is asked of its run rows is safety. `PortfolioDraft` has it only on the steps
of a build that do not involve the model, because the claim is that a click on
"build it" needs no model: the model may hang.
`RlsScope` has weak fairness on what a transaction does to end and strong
fairness on getting a connection (the pool's queue is first in, first out). New
requests, clears, disconnects, crashes, failures and pool timeouts are never
owed to anybody. The browser's modules assume no fairness: `NeverLocked` is an
invariant that says which step is possible whenever the input is locked.

## 5. Proofs

TLC shows the properties on the instances above; the theorems hold for every
value of the constants. All proofs have the same shape: an inductive invariant,
one lemma per conjunct or group of conjuncts with one step per action,
`Spec => []Inv`, and each property from the invariant. The assumptions are the
ones named in each module: the bounds are natural numbers, zero is no
portfolio's id, and the few below. Together they state every safety property
that a passing run checks except `NeverLocked`, whose ENABLED is beyond the
prover, and of it the guards are proved.

**Induction** — the library's sums, folds and flattened sequences are recursive
functions, and its induction theorems take the property as an operator, which
the provers cannot instantiate. Here the property is a set: of numbers
(`NaturalInduction`, from `LeastNatural`) or of subsets of a finite set
(`SubsetInduction`, from the well-foundedness of inclusion). A recursive function
that the library picks with CHOOSE is handled in two halves, that one exists
(`FoldExists`, `SumExists`, `JoinedExists`) and what any such function yields
(`FoldKeeps`, `SumOf`, `JoinedUnique`), so that it does not matter in which order
elements are chosen. `FlattenAppend` and `FlattenCons` are what flattening does
at either end.

**AgentProofs**, the graph — every number of attempts, set of steps and tools.
Assumptions: at least one attempt; `4 * MAX_ATTEMPTS + 4 <= RECURSION_LIMIT`
(16 <= 60 in the code); step ids are not the words "user" and "invented";
`rag_search` is registered. The properties speak of a delivered run, but what
makes them true happens several super-steps earlier. `EvidenceInv` keeps the
evidence beside the plan it was gathered for, `AnswerInv` says that only a
grounded validation leads to a delivery, `AttemptsInv` locates every node in the
retry order, `StepsInv` counts super-steps exactly as a function of attempts,
and `LedgerInv` is the shape of the usage list. Theorems: `TypeCorrectness`,
`FiguresBacked`, `FailedRetrievalRefused`, `RetriesInOrder`, `LedgerComplete`,
`NoRecursionError`, and `Refinement`: `Spec => Run!Spec`.

**AgentProofs**, the executor — plans of any length over any ids. Until the loop ends a
step remains exactly if its id has no evidence (`AnsweredInv`), and a level is
all that was ready when it began (`LevelInv`); both although ids may repeat.
`ProducerInv` says whose evidence an id has, `KindInv` that what can never be
unblocked never gets evidence of a tool; conversely, when nothing is ready, what
is left is itself a set that nothing can unblock. Evidence stays because a level
contains no step whose id has some: `AnsweredInv`, which holds only because the
loop filters what remains by id and not by position. Theorems: `EvidenceStays`,
`StepsAreAnswered`, `StuckIsBlocked`, `OrderIsIrrelevant`.

**CopilotChatProofs** — any number of concurrent requests, window, model calls
and clears. What is stored of a turn follows from its request's place (`TurnInv`,
`OpenInv`), and order from the sequence, which gives every id once, to committed
rows and open ones (`IdInv`, `OrderInv`). That the window keeps the question is
the lemma `WindowIsNewest`: what is cut from the window is older than what is
kept, and the window is then full; it needs the finiteness of the history, which
is in the invariant. The refinement of `ChatLog` is about ranks: the place of a
row in the history is the number of smaller ids, every place is the rank of one
row (`RanksOnto`, an injection between finite sets of one size), and a row that
is added moves those of greater ids by one (`HistoryInsert`). So a commit inserts
its message at the rank of its id (`CommitIsAsk`), which for an answer is behind
its question by `OrderInv` (`CommitIsReply`). Theorems: `TurnsAreAtomic`,
`AnswersFollow` (`AnswerFollowsQuestion`, which says more of the rows than
`ChatLog` shows a reader: ids are unique, an answer is the only one to its
question, and one without a question is a clear's doing; no run checks it),
`ContextsAreSound`, `ChatTypeCorrectness`, and `ChatLogRefinement`:
`Spec => Log!Spec`.

**PortfolioDraftProofs** — any picks, weights and number of messages. A
request the page does not wait for is over, or was given up or cut, and while it
waits for one the draft it shows is the one it sent (`PageInv`): it takes no
answer but that of the request it waits for. What is stored, and which draft is
built, follows from the request's place (`RequestInv`). Every draft that is shown, and so every draft that is
sent back, is within the tolerance of its unit or has a sum that is not positive
(`DraftInv`, by `ProposalOffered` over the cases of `Normalize`); a draft of
positive weights has a positive sum (`TotalSign`), so one that is refused has a
weight, or its name, capital or contribution, to blame. The weights are any integers, the unit any positive one.
Theorems: `PartialNeedsCut`, `BuildsAreShown`, `SecondNeedsRetry`,
`ShownDraftsAddUp`.

**DatabaseProofs**, ingestion — any number of requests, payloads and calls.
`OnceWithoutOverlap` is about totals; the
invariant is about who may still be working: a payload that never had two
workers has at most one (`OneWorker`) and, once it succeeded, none
(`SucceededInv`), because a later call is turned away by the skip; and before it
succeeds nothing of it is committed (`CommittedInv`), because load, quarantine
and status are one transaction. A settled success stays because what is still
parsed or published of a payload that succeeded closes its run as succeeded again
(`SucceededInv`, `ParsedInv`), and whoever calls is turned away.
`OpenRunHasCause` is inductive with the types (`OpenStep`): of several requests
on one payload each may close the run, and any later registration reopens it.
Assumption: `Shape` is a record of a Boolean and
two naturals. Theorems: `TypeCorrectness`, `ReportsAreTrue`, `LoadedOnce`,
`SuccessStays` (an action property), `OpenRunsHaveCauses`.

**DatabaseProofs**, row-level security — any number of tasks, connections and portfolios. An open
transaction has its own portfolio in force (`ScopeInv`), hence nobody else holds
its connection (`HolderInv`) and a free connection carries none (`FreeInv`);
what it has deleted is its own (`RemovedInv`); a creation, whose portfolio
changes halfway, has read nothing before (`CreatingInv`). Theorems:
`ScopeTypeCorrectness`, `PortfoliosAreIsolated`, `ScopedJobsPass`,
`ForeignRowsSurvive`.

**CopilotDrawerProofs** — any number of portfolios, questions, clears and
faults. An entry is behind the server only with an excuse: its question is being
read, a clear of it is unconfirmed, or it is recorded as outdated; without one,
what the open drawer observes is current, or will be by the answer under way
(`CurrentInv`). Every end of an excuse is a fetch that is only asked, or a record
that the refresh joined an older one (`RefreshStep`, `EndOfStreamStep`,
`ClearedStep`). The answer that send() waits for holds the question if the server
still does (`QuestionInv`), although a clear may come between. The lemmas on
`QueryCache` (what a put, an observer, a refetch leave in an entry) carry both.
The stream is one text at every moment: what is handled, then what the reader
holds, then what is in transit (`StreamInv`). Reading moves the border between the
last two; taking a block moves the first, and is right because what is not
handled is the text of whole events, and the text of an event holds one block end,
its last character: so the first block end of the buffer ends the first of them
and nothing else. Those events are what the written ones have beyond the handled
ones; where the reader finds no block and nothing is in transit there are none.
This needs that an event's name is not
empty (`ProgressAssumption`). While the input is locked, the place of the question
tells who moves next (`WaitInv`): a wait for the history ends when its fetch does.
A run that is done wrote its outcome, and an error that is handled shows until the
next question (`OutcomeInv`).
The drawer's service keeps `ChatLog` for every portfolio at once: a step of a run
changes the history and the turns of its own portfolio and stutters for the
others (`TurnsMove`, `StoreStep`). With `ChatLogRefinement` the drawer talks to
the service that was verified, and not to another: a run whose client is gone and
a refused request are drops, a question that was sent and not stored is new.
Theorems: `ConversationIsStored`, `QuestionsStay` (an action property),
`StreamsAreIntact`, `EventsComeInOrder`, `StreamsEndComplete`, `OutcomesAreTold`,
`LockedHasWayOut`, `DrawerUsesChatLog`: `Spec => \A p \in Portfolios : Store(p)!Spec`.

**PagesProofs** — any tickers, sectors, portfolios, ranges, percentages and
number of questions and faults. `CacheInv` is about every entry of the cache,
observed or not: it holds nothing, an error, or the answer to the request that
its own key spells out (`Typed`). It is kept by whatever happens to an entry
(`EventTyped`) and so by a sweep over any finite set of them (`SweepTyped`), which
is what turning observers is; a page's queries all spell their requests in their
keys (`ObservedSpelled`, endpoint by endpoint). A mounted body has the selected
portfolio's key and that portfolio's summary in its inputs (`BodyInv`): the first
by React's rule, the second because the cache entry it was mounted from is typed
(`BodyAfterKeyed`); both go on over switches to an entry that is there, one that
is loading and one in error. `DialogInv` holds a title and its
request together: with a dialog open the portfolio stays, and the charted rows
change only when the grid loses all of its rows, since new rows are all of the
stocks or none and the grid's model names rows of the sector (`GridInv`,
`RecheckedStep`). `StepInv` is what each step of the wizard requires of those
before it, kept although answers and filters take stocks back, which they do only
at or before the step that asks for them. That the server accepts the result is
about sums: each percentage is a positive integer, and their total is no less
than any of them (`SumOf`). Theorems: `ShownAnswersTheRequest`,
`WhatIfFollowsPortfolio`, `DialogsMatch`, `SubmissionsAreSound` (an action
property).

**PickerProofs** — any number of creations and faults. A removal is two facts,
the frame's and the storage's, and neither implies the other, since a reload
exchanges one for the other (`RemovedInv`); a creation of this visit is waited
for, unheard of, refused or failed, or answered, and then the page is about to go
(`VisitInv`); the list is current or about to be (`ListInv`). Theorems:
`RemovalsHold`, `OnePerVisit` (an action property), `ListIsCurrent`.

**Only model-checked:** the liveness properties (`Termination`, `ExecutionEnds`,
`RequestsEnd`, `BuildNeedsNoModel`, `Served`), which rest on fairness,
and `NeverLocked` in its ENABLED form; the guards of the steps it names are
`LockedHasWayOut`.

## 6. Findings and observations

Each finding is a run that TLC ends with a counterexample, and a sentence in the
repository that says otherwise.

- `agent_graph_empty_retrieval` (`NoAnswerFromEmptyRetrieval`): an answer over a
  rag_search that found nothing is delivered as grounded, since "(no matching
  documents)" counts as a gathered fact; the comment at graph.py:139-143 wants
  empty retrieval treated as ungrounded.
- `rls_scope_unset` (`NeverAnError`): on a pooled connection that carried a
  scope, an unscoped read of a portfolio table is a cast error and not "no
  rows"; schema.sql:208 says never an error.
- `satellite_select_all` (`ChartedIsChecked`): the stock screener takes the ids
  of the grid's selection model for the selected rows. After "select all" they
  are the unchecked ones: all rows on and one off charts the one that is off.
  The wizard's own comment (app/wizard/page.tsx:170-171) says how to read them.

Observations, without a run of their own. They are behaviours the properties
name as exceptions, or that follow from the modelled steps.

*Agents and ingestion.* A payload whose rows were all rejected is quarantined
again on each re-run. A run that fails or is cut leaves no audit row for the
model calls it made. A message that asks for a change builds the draft it was sent
with if the model answers with action "create" (`ModelCreates`): the page sends
its draft with every message, and the comment at draft_service.py:144-145 speaks
of "an explicit confirmation". `BuildsWhatIsShown` says which draft is built, not
who asked for it. A call that looked before a run succeeded and registers
after it reopens that run and loads the payload again. A lone core of weight 1.005
passes the sum's tolerance and is then refused at creation by the field check
(`le=1`): the exception in `RejectedOnlyForAField`, as is a draft of capital 0 or
without a name, which the page shows like any other. A build that the page gave up on may have
gone through, so that building again makes a second portfolio: the exception in
`DuplicateNeedsRetry`.

*Drawer.* A refresh that joins a first fetch which the server has already
answered leaves the conversation outdated. The pending question and the error are
shown under whatever portfolio is selected. A confirmed clear refreshes the
portfolio of the latest render, not the cleared one, and if another clear has
overtaken it the portfolio of that moment: clear one portfolio, switch, clear the
other, switch back, and the first one's conversation may stay on the screen until
its next fetch (the last exception in `ConversationCurrent`). No timer covers the
wait for the refetch.

*Picker.* A portfolio whose page was left before the answer is neither listed nor
selected until the next fetch. After a network loss behind the commit, or by a
click between the answer and the change of route, a visit makes two portfolios. A
refused or failed creation (422, 500) shows nothing. Two tabs overwrite each
other's removals, and a late answer selects an id that was removed meanwhile.

*Pages.* A dialog opened with no portfolio selected shows the result of the time
before; rows dropped by a bad refetch change the selection under an open
comparison. The what-if inputs are kept when the same portfolio's summary is
fetched again. A summary that answers with an error status leaves the dashboard
with its spinner.

## 7. What is not modelled

- SQL texts, prompts, rendering, formatting and logging: no property is about
  them. `_prepare_sql` appears as "the step fails".
- The loaders' upserts and the adapters' parsing: a payload is a number of valid
  and rejected rows; what the tables contain after several files is SQL conflict
  clauses and file formats. Their order dependence is listed as a hazard.
- Analytics, projection, indicators: floating-point formulas over query results,
  without state; integers would not show their rounding and division.
- Retrieval ranking: a tool result is facts, no rows, no documents or an error.
- The structured call's three tries and the grounded single calls' two attempts:
  sequential, without state but the audit row, they end in one of the values that
  `AgentGraph` and `Pages` take from the model or the server.
- list_portfolios, which bypasses the policies by design and returns names only.
- In the browser: edits of the what-if inputs, the text search of the funds'
  table, drawing and formatting; infinite and suspense variants of the hooks and
  endpoints no page calls.
- main.py, middleware: wiring without state.

## 8. Running it

    tlc -workers 2 -config AgentGraph.cfg MCAgentGraph
    tlapm AgentProofs.tla

The largest runs are `CopilotDrawer.cfg` with 1.61 million distinct states, two to
three minutes on two workers, and `PortfolioDraft.cfg` with 784,502;
`Pages.cfg` has 488,505, `AgentGraph.cfg` 437,750, `Picker.cfg` 385,183,
`RlsScope.cfg` 113,336, `CopilotChat.cfg` 104,584, `Executor.cfg` 76,496 and
`Ingestion.cfg` 17,317.
`PROJECT.json` lists runs, properties, mutants, the source lines of every
definition, the hazards and the theorems.
