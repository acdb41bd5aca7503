--------------------------- MODULE PortfolioDraft ---------------------------
(***************************************************************************)
(* From a conversation to a portfolio: the wizard's assistant panel        *)
(* (PortfolioAssistant.tsx), DraftService (services/agent/draft_service.py)*)
(* and the two-transaction PortfolioService.create                         *)
(* (services/portfolios.py), for one page and the requests it sends.  The  *)
(* page holds all conversational state and sends the draft it shows back   *)
(* with every message; the server builds from that draft on a click on     *)
(* "build it", or when the model answers with action "create".  A request  *)
(* the page has given up may still run on the server.                      *)
(*                                                                         *)
(* A draft maps picks to weights in units of 1/unit, so that normalising it*)
(* is exact.  A pick is a place in the draft's list of cores or satellites *)
(* with what the model named there: two picks may resolve to one ticker and*)
(* stay two positions, which nothing in the schema forbids.  What a name   *)
(* resolves to is stable: fact rows are never deleted.                     *)
(***************************************************************************)
EXTENDS Integers, Sequences, FiniteSets, FiniteSetsExt

CONSTANTS
  Cores,       \* picks the model can put in a draft's cores
  Satellites,  \* and in its satellites
  Known,       \* the ones whose name matches a row of funds or instruments
  UNIT,        \* a weight of 1 as the model writes it
  Weights,     \* the weights the model can write, in units of 1/UNIT
  MaxSends     \* bound: messages sent from the page

ASSUME PicksAssumption == Cores \cap Satellites = {}
ASSUME WeightAssumption == UNIT \in Nat \ {0} /\ Weights \subseteq Int
ASSUME BoundAssumption == MaxSends \in Nat

VARIABLES
  page,      \* "open", "leaving" (after onCreated, until the route changes), "gone"
  shown,     \* the draft on the page
  pending,   \* the request the page waits for, 0 for none
  sent,      \* requests in order: [wish, draft], with what the page showed
  pc,        \* request -> where the server is with it
  built,     \* request -> the draft _create was called with, NoDraft before
  rows,      \* request -> the portfolio it left: "none", "named" or "full"
  event,     \* request -> the last event the server sent
  broken     \* requests the page gave up or the server was cut off (history)

vars == <<page, shown, pending, sent, pc, built, rows, event, broken>>

NoDraft == [w |-> <<>>, unit |-> UNIT, terms |-> TRUE]
\* A draft is a list of picks, so it has finitely many.
Picks == {S \in SUBSET (Cores \cup Satellites) : IsFiniteSet(S)}
\* Name, capital and contribution are free in a draft: terms says whether they
\* pass the checks of PortfolioCreate.
ModelDrafts ==
  {[w |-> w, unit |-> UNIT, terms |-> t] :
     w \in UNION {[S -> Weights] : S \in Picks}, t \in BOOLEAN}
Wish == {"change", "yes", "build"}
Place == {"routing", "agent", "creating", "named", "full", "closed"}
Event == {"none", "answer", "created", "rejected", "error"}

Requests == 1 .. Len(sent)

Total(d) == MapThenSumSet(LAMBDA p : d.w[p], DOMAIN d.w)

\* abs(total - 1.0) <= _WEIGHT_TOLERANCE, a hundredth.
WithinTolerance(d) ==
  /\ 100 * (Total(d) - d.unit) <= d.unit
  /\ 100 * (d.unit - Total(d)) <= d.unit

\* Mutant: any sum below 1 is left alone.
NormalizeDown(d) == IF Total(d) <= d.unit THEN d ELSE [d EXCEPT !.unit = Total(d)]

\* _normalize_draft: weights that miss 1 are divided by their sum.
Normalize(d) ==
  IF Total(d) <= 0 \/ WithinTolerance(d) THEN d ELSE [d EXCEPT !.unit = Total(d)]

\* _resolve_draft: the others get the ticker they resolve to, unknown picks are
\* dropped; a draft that loses every core, or every satellite it had, is
\* no draft.
Resolve(d) ==
  LET kept == DOMAIN d.w \cap Known
  IN  IF kept \cap Cores = {} \/ (DOMAIN d.w \cap Satellites # {} /\ kept \cap Satellites = {})
      THEN NoDraft ELSE [d EXCEPT !.w = [p \in kept |-> d.w[p]]]

\* What the page is shown for a draft of the model.
Proposal(d) == IF Resolve(d) = NoDraft THEN NoDraft ELSE Normalize(Resolve(d))

\* The domain model's field checks: a name, a positive capital and no negative
\* contribution, every weight in (0, 1], at least one core.
ValidSpec(d) ==
  /\ d.terms
  /\ \A p \in DOMAIN d.w : 0 < d.w[p] /\ d.w[p] <= d.unit
  /\ DOMAIN d.w \cap Cores # {}

Init ==
  /\ page = "open"
  /\ shown = NoDraft
  /\ pending = 0
  /\ sent = <<>>
  /\ pc = <<>>
  /\ built = <<>>
  /\ rows = <<>>
  /\ event = <<>>
  /\ broken = {}

\* The message field, and the panel of the draft with its button.
CanType == page # "gone" /\ pending = 0
CanBuild == CanType /\ shown # NoDraft

\* Mutant: sending is possible while a request is pending.
SendAnyTime(wish) ==
  /\ page # "gone"
  /\ Len(sent) < MaxSends
  /\ wish = "build" => shown # NoDraft
  /\ sent' = Append(sent, [wish |-> wish, draft |-> shown])
  /\ pending' = Len(sent) + 1
  /\ pc' = Append(pc, "routing")
  /\ built' = Append(built, NoDraft)
  /\ rows' = Append(rows, "none")
  /\ event' = Append(event, "none")
  /\ UNCHANGED <<page, shown, broken>>

\* The user types a message (asking for a change, or saying yes) or clicks
\* "build it", which needs a draft on the page; nothing is sent while another
\* request is pending.
Send(wish) ==
  /\ IF wish = "build" THEN CanBuild ELSE CanType
  /\ Len(sent) < MaxSends
  /\ sent' = Append(sent, [wish |-> wish, draft |-> shown])
  /\ pending' = Len(sent) + 1
  /\ pc' = Append(pc, "routing")
  /\ built' = Append(built, NoDraft)
  /\ rows' = Append(rows, "none")
  /\ event' = Append(event, "none")
  /\ UNCHANGED <<page, shown, broken>>

At(r, from, to) == pc[r] = from /\ pc' = [pc EXCEPT ![r] = to]

\* Mutant: a late answer of a request the page has given up is taken as well.
ReplyLate(r, e, draft) ==
  /\ event' = [event EXCEPT ![r] = e]
  /\ shown' = IF draft # NoDraft THEN draft ELSE shown
  /\ pending' = IF pending = r THEN 0 ELSE pending
  /\ page' = IF pending = r /\ e = "created" /\ page = "open" THEN "leaving" ELSE page

\* The page's reader takes the event of the request it waits for: an answer
\* may bring a new draft, a creation leaves the wizard, and the stream is over.
Reply(r, e, draft) ==
  /\ event' = [event EXCEPT ![r] = e]
  /\ IF pending = r
     THEN /\ pending' = 0
          /\ shown' = IF draft # NoDraft THEN draft ELSE shown
          /\ page' = IF e = "created" /\ page = "open" THEN "leaving" ELSE page
     ELSE UNCHANGED <<pending, shown, page>>

\* Mutant: a confirmation is a message like any other.
RouteToAgent(r) ==
  /\ At(r, "routing", "agent")
  /\ UNCHANGED <<page, shown, pending, sent, built, rows, event, broken>>

\* A confirmation of a shown draft goes straight to its creation.
Route(r) ==
  /\ IF sent[r].wish = "build" /\ sent[r].draft # NoDraft
     THEN At(r, "routing", "creating") /\ built' = [built EXCEPT ![r] = sent[r].draft]
     ELSE At(r, "routing", "agent") /\ UNCHANGED built
  /\ UNCHANGED <<page, shown, pending, sent, rows, event, broken>>

AgentFails(r) ==
  /\ At(r, "agent", "closed")
  /\ Reply(r, "error", NoDraft)
  /\ UNCHANGED <<sent, built, rows, broken>>

\* Mutant: the draft that is built is the model's echo.
ModelCreatesEcho(r) ==
  /\ At(r, "agent", "creating")
  /\ sent[r].draft # NoDraft
  /\ \E d \in ModelDrafts : built' = [built EXCEPT ![r] = Proposal(d)]
  /\ UNCHANGED <<page, shown, pending, sent, rows, event, broken>>

\* The model answers with action "create" on a request that carried a draft,
\* whatever its message was; that draft is built.
ModelCreates(r) ==
  /\ At(r, "agent", "creating")
  /\ sent[r].draft # NoDraft
  /\ built' = [built EXCEPT ![r] = sent[r].draft]
  /\ UNCHANGED <<page, shown, pending, sent, rows, event, broken>>

\* Any other answer, with a draft or without one.
ModelAnswers(r) ==
  /\ At(r, "agent", "closed")
  /\ \E d \in ModelDrafts : Reply(r, "answer", Proposal(d))
  /\ UNCHANGED <<sent, built, rows, broken>>

\* _create up to the first transaction's checks: sum, field checks, tickers.
Reject(r) ==
  LET d == built[r]
  IN  /\ At(r, "creating", "closed")
      /\ ~WithinTolerance(d) \/ ~ValidSpec(d) \/ ~(DOMAIN d.w \subseteq Known)
      /\ Reply(r, "rejected", NoDraft)
      /\ UNCHANGED <<sent, built, rows, broken>>

\* First transaction of PortfolioService.create: the portfolios row.
Name(r) ==
  LET d == built[r]
  IN  /\ At(r, "creating", "named")
      /\ WithinTolerance(d) /\ ValidSpec(d) /\ DOMAIN d.w \subseteq Known
      /\ rows' = [rows EXCEPT ![r] = "named"]
      /\ UNCHANGED <<page, shown, pending, sent, built, event, broken>>

\* Second transaction: sleeves and positions, under the new row's scope.
Fill(r) ==
  /\ At(r, "named", "full")
  /\ rows' = [rows EXCEPT ![r] = "full"]
  /\ UNCHANGED <<page, shown, pending, sent, built, event, broken>>

\* Mutant: the client is told as soon as the row has an id.
AnnounceEarly(r) ==
  /\ At(r, "named", "closed")
  /\ Reply(r, "created", NoDraft)
  /\ UNCHANGED <<sent, built, rows, broken>>

Announce(r) ==
  /\ At(r, "full", "closed")
  /\ Reply(r, "created", NoDraft)
  /\ UNCHANGED <<sent, built, rows, broken>>

\* The stream breaks off: the process dies, a database error escapes the
\* generator (the open transaction rolls back), or the server notices that the
\* client is gone and cancels the task.
Cut(r) ==
  /\ pc[r] # "closed"
  /\ pc' = [pc EXCEPT ![r] = "closed"]
  /\ broken' = broken \cup {r}
  /\ pending' = IF pending = r THEN 0 ELSE pending
  /\ UNCHANGED <<page, shown, sent, built, rows, event>>

\* AGENT_TIMEOUT_MS passes: the page aborts its request and lets the user go on.
Timeout ==
  /\ pending # 0
  /\ broken' = broken \cup {pending}
  /\ pending' = 0
  /\ UNCHANGED <<page, shown, sent, pc, built, rows, event>>

\* The route pushed by onCreated takes effect, or the user navigates away,
\* whatever is pending.
Leave ==
  /\ page # "gone"
  /\ page' = "gone"
  /\ UNCHANGED <<shown, pending, sent, pc, built, rows, event, broken>>

\* The steps of a request that wait for no model.
Build(r) == Route(r) \/ Reject(r) \/ Name(r) \/ Fill(r) \/ Announce(r)

Model(r) == AgentFails(r) \/ ModelCreates(r) \/ ModelAnswers(r)

Next ==
  \/ \E wish \in Wish : Send(wish)
  \/ \E r \in Requests : Build(r) \/ Model(r) \/ Cut(r)
  \/ Timeout
  \/ Leave

\* The event loop drives an accepted request and the database answers; the
\* model may take for ever.
Spec == Init /\ [][Next]_vars
             /\ \A r \in 1 .. MaxSends : WF_vars(r \in Requests /\ Build(r))

-----------------------------------------------------------------------------
\* The variables stay in their types.
TypeOK ==
  /\ page \in {"open", "leaving", "gone"}
  /\ pending \in 0 .. Len(sent)
  /\ Len(sent) <= MaxSends
  /\ DOMAIN pc = Requests /\ DOMAIN built = Requests
  /\ DOMAIN rows = Requests /\ DOMAIN event = Requests
  /\ \A d \in {shown} \cup {sent[r].draft : r \in Requests} \cup {built[r] : r \in Requests} :
       d = NoDraft \/ (DOMAIN d.w \subseteq Known /\ d.unit > 0)
  /\ \A r \in Requests :
       /\ sent[r].wish \in Wish
       /\ pc[r] \in Place
       /\ rows[r] \in {"none", "named", "full"}
       /\ event[r] \in Event
  /\ broken \subseteq Requests

\* The page leaves for a portfolio that is whole, and a portfolio without
\* sleeves and positions is only ever left by a request that was cut between
\* the two transactions of create (portfolios.py:24-58).
PartialOnlyIfCut ==
  /\ \A r \in Requests : rows[r] = "named" => pc[r] = "named" \/ r \in broken
  /\ page = "leaving" => \E r \in Requests : event[r] = "created" /\ rows[r] = "full"

\* "Build from THAT draft - not the LLM's echo - so the model can trigger the
\* action but never mutate the payload" (draft_service.py:144-147): what is
\* built is the draft that the page showed when it sent the request, and, as
\* long as the page waits for it, the one it still shows, with late answers of
\* requests given up under way.
BuildsWhatIsShown ==
  \A r \in Requests :
    /\ pc[r] \in {"creating", "named", "full"} \/ rows[r] # "none" => built[r] = sent[r].draft
    /\ r = pending => shown = sent[r].draft

\* A single weight outside (0, 1], which normalising need not mend.
BadPick(d) == \E p \in DOMAIN d.w : d.w[p] <= 0 \/ d.w[p] > d.unit

\* "A good recommendation is never rejected by the create weight check"
\* (draft_service.py:58-61): creation rejects a draft the page was shown only
\* for a field of its own - name, capital, contribution or a single weight -,
\* never for the sum, for a missing core or for an unknown ticker.
RejectedOnlyForAField ==
  \A r \in Requests : event[r] = "rejected" => ~sent[r].draft.terms \/ BadPick(sent[r].draft)

\* One build makes one portfolio: a second one takes a request that was given
\* up or cut (its build may have gone through), or a message sent after the
\* first was announced and before the page was left.
DuplicateNeedsRetry ==
  \A r, s \in Requests : r < s /\ rows[r] # "none" /\ rows[s] # "none" =>
    r \in broken \/ event[r] = "created"

Built(r) == rows[r] = "full" /\ event[r] = "created"

\* "Creation never depends on the model choosing to emit a create action"
\* (domain/draft.py:19-22): a click on "build it" ends in a whole portfolio or
\* a rejection, however the model behaves, unless the request is given up or
\* cut.
BuildNeedsNoModel ==
  \A r \in 1 .. MaxSends :
    r \in Requests /\ sent[r].wish = "build" ~>
      r \in Requests /\ (Built(r) \/ event[r] = "rejected" \/ r \in broken)
=============================================================================
