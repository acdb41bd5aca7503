------------------------------- MODULE Pages --------------------------------
(***************************************************************************)
(* The routes of the application under its frame: the wizard (Wizard), the *)
(* dashboard (app/page.tsx), the funds (app/core), the stock screener      *)
(* (app/satellite), the indicators and the ingestion page.  One page is    *)
(* mounted at a time and loses its state when it is left; the query cache  *)
(* and the selected portfolio stay.  A page shows what the cache holds for *)
(* the queries it observes at that moment, so that every change of ticker, *)
(* range or portfolio turns an observer from one key to another while      *)
(* answers are under way.  Market data do not change here: an answer is    *)
(* named by its request.  The two dialogs of the screener keep the state   *)
(* of their latest POST while they are closed.                             *)
(***************************************************************************)
EXTENDS Wizard, Endpoints, QueryCache

CONSTANTS
  Portfolios,    \* ids
  ChartRanges, Periods, \* days the charts and the indicators can be set to
  Intervals,     \* of a candle
  Routes,        \* the routes taken after the wizard
  Kept,          \* bound: the paths whose answers are kept unobserved
  Tuned,         \* bound: the routes on which range and interval are changed
  MaxAsked,      \* bound: comparisons and analyses posted on opening a dialog
  MaxFaults,     \* bound: lost requests, answers without data, reconnections
  MaxEvents      \* bound: the two together

ASSUME RouteAssumption == Routes \subseteq {"main", "core", "satellite", "indicators", "ingestion"}
ASSUME PagesBoundAssumption ==
  NoId \notin Portfolios /\ {MaxAsked, MaxFaults, MaxEvents} \subseteq Nat

VARIABLES
  route, portfolioId, cache,
  ticker,        \* the one whose chart and figures are shown, or NoTicker
  days, interval,\* of the chart
  sector,        \* satellite: the rows the sector filter leaves
  grid,          \* satellite: the grid's own selection model
  selection,     \* satellite: the tickers charted; indicators: the symbol picked, if any
  activeTab,
  compareOpen, analysisTicker,
  compare, analyze, \* the dialogs' mutations: place and body
  compareFunds,  \* core: up to two tickers
  body,          \* main: the mounted DashboardBody, its key and its inputs' first values
  asked, faults

chartVars == <<ticker, days, interval>>
gridVars == <<sector, grid, selection, activeTab>>
dialogs == <<compareOpen, analysisTicker, compare, analyze>>
view == <<route, portfolioId, chartVars, gridVars, dialogs, compareFunds>>
data == <<cache, body>>
counters == <<asked, faults>>
pagesVars == <<view, data, counters>>
vars == <<wizardVars, pagesVars>>

NoModel == [type |-> "include", ids |-> <<>>]
NoAsk == [at |-> "idle", body |-> NoValue]
NoBody == [key |-> NoId, inputs |-> NoValue]
FirstDays(r) == IF r = "indicators" THEN 180 ELSE 365

----------------------------------------------------------------------------
\* The queries each page observes.

ScreenerOf(r) == IF r = "indicators" THEN ScreenerQuery([limit |-> 500]) ELSE ScreenerQuery(<<>>)

BarsQuery(t, d, i) == With(CandlesQuery(t, [days |-> d, interval |-> i]), t # NoTicker)
OverlayQuery(t, d) == With(IndicatorsQuery(t, [days |-> d]), t # NoTicker)
FiguresQuery(t) == With(FinancialsQuery(t), t # NoTicker)
DragQuery(t) == With(TerDragQuery([fund |-> t, capital |-> 10000, years |-> 20]), t # NoTicker)
PortfolioQuery(p) == With(SummaryQuery(p), p # NoId)

Queries ==
  CASE route = "main" -> {PortfolioQuery(portfolioId)}
    [] route = "core" ->
         {FundsQuery, DragQuery(ticker), BarsQuery(ticker, days, interval), OverlayQuery(ticker, days)}
    [] route = "satellite" ->
         {ScreenerOf(route), FiguresQuery(ticker), BarsQuery(ticker, days, interval), OverlayQuery(ticker, days)}
    [] route = "indicators" -> {ScreenerOf(route), OverlayQuery(ticker, days)}
    [] route = "ingestion" -> {RunsQuery, QuarantineQuery}
    [] OTHER -> {}

KeysOf(queries) == {q.key : q \in {p \in queries : p.enabled}}

\* What a page reads of a query: the 200 answer its key holds, if any.
Read(q) == IF q.enabled THEN Entry(cache, q.key).data ELSE None

Rows(c, q) == IF Entry(c, q.key).data.status = "ok" THEN Stocks ELSE {}

----------------------------------------------------------------------------
Init ==
  /\ WizardInit
  /\ route = "wizard" /\ portfolioId = NoId
  /\ cache = NoQueries
  /\ ticker = NoTicker /\ days = 365 /\ interval = "1D"
  /\ sector = Stocks /\ grid = NoModel /\ selection = <<>> /\ activeTab = 0
  /\ compareOpen = FALSE /\ analysisTicker = NoTicker /\ compare = NoAsk /\ analyze = NoAsk
  /\ compareFunds = {} /\ body = NoBody
  /\ asked = 0 /\ faults = 0

Room == asked + faults < MaxEvents
Fault == Room /\ faults < MaxFaults /\ faults' = faults + 1
Modal == compareOpen \/ analysisTicker # NoTicker

\* Mutant: the what-if inputs are not keyed by the portfolio.
BodyKept(c, r, p) ==
  LET summary == Entry(c, PortfolioQuery(p).key).data
  IN  IF r # "main" \/ p = NoId \/ summary.status # "ok" THEN NoBody
      ELSE IF body # NoBody THEN body
      ELSE [key |-> p, inputs |-> summary.value]

\* DashboardBody is mounted while the page shows a summary. Under the key it has
\* it goes on with the inputs it has, under another one it is mounted anew, and
\* its inputs start from the summary it is mounted with.
BodyAfter(c, r, p) ==
  LET summary == Entry(c, PortfolioQuery(p).key).data
  IN  IF r # "main" \/ p = NoId \/ summary.status # "ok" THEN NoBody
      ELSE IF body # NoBody /\ body.key = p THEN body
      ELSE [key |-> p, inputs |-> summary.value]

\* The queries follow the page. What they left stays for five minutes (Collect);
\* by the bound Kept, some paths' answers only, and only until the page is left.
Follow(c) ==
  /\ \E shown \in {KeysOf(Queries)'} : \E turned \in {Turned(c, KeysOf(Queries), shown)} :
       LET kept == {k \in DOMAIN turned : route' = route /\ k[1][1] \in Kept}
       IN  cache' = Restrict(turned, DOMAIN turned \cap (shown \cup kept))
  /\ body' = BodyAfter(cache', route', portfolioId')

----------------------------------------------------------------------------
\* The frame.

Navigate(r) ==
  /\ r # route /\ ~Modal
  /\ route' = r
  /\ ticker' = NoTicker /\ days' = FirstDays(r) /\ interval' = "1D"
  /\ sector' = Stocks /\ grid' = NoModel /\ selection' = <<>> /\ activeTab' = 0
  /\ compareOpen' = FALSE /\ analysisTicker' = NoTicker /\ compare' = NoAsk /\ analyze' = NoAsk
  /\ compareFunds' = {}
  /\ WizardGone
  /\ UNCHANGED <<portfolioId, counters>>
  /\ Follow(cache)

\* Select, hidePortfolio, or onCreated of the wizard.
SetPortfolio(p) ==
  /\ route # "wizard" /\ ~Modal /\ p # portfolioId /\ portfolioId' = p
  /\ UNCHANGED <<wizardVars, route, chartVars, gridVars, dialogs, compareFunds, counters>>
  /\ Follow(cache)

WizardPage == route = "wizard" /\ WizardNext /\ UNCHANGED pagesVars

----------------------------------------------------------------------------
\* The chart's range and interval, and the indicators' period and symbol.

ChartFrame == UNCHANGED <<wizardVars, route, portfolioId, gridVars, dialogs, compareFunds, counters>>
Charting == route # "indicators" /\ ticker # NoTicker /\ ~Modal

SetRange(d) ==
  /\ Charting /\ route \in Tuned /\ d # days /\ days' = d
  /\ UNCHANGED <<ticker, interval>> /\ ChartFrame
  /\ Follow(cache)

SetInterval(i) ==
  /\ Charting /\ route \in Tuned /\ i # interval /\ interval' = i
  /\ UNCHANGED <<ticker, days>> /\ ChartFrame
  /\ Follow(cache)

SetPeriod(d) ==
  /\ route = "indicators" /\ d # days /\ days' = d
  /\ UNCHANGED <<ticker, interval>> /\ ChartFrame
  /\ Follow(cache)

PickSymbol(t) ==
  /\ route = "indicators" /\ t \in Rows(cache, ScreenerOf(route))
  /\ selection' = <<t>> /\ ticker' = t
  /\ UNCHANGED <<wizardVars, route, portfolioId, days, interval, sector, grid, activeTab, dialogs, compareFunds, counters>>
  /\ Follow(cache)

----------------------------------------------------------------------------
\* The funds' table.

FundRows == IF Entry(cache, FundsKey).data.status = "ok" THEN Funds ELSE {}

PickFund(f) ==
  /\ route = "core" /\ f \in FundRows
  /\ ticker' = f
  /\ UNCHANGED <<days, interval>> /\ ChartFrame
  /\ Follow(cache)

\* toggleCompare: at most two funds.
Compared(f) ==
  IF f \in compareFunds THEN compareFunds \ {f}
  ELSE IF Cardinality(compareFunds) < 2 THEN compareFunds \cup {f} ELSE compareFunds

ToggleCompare(f) ==
  /\ route = "core" /\ f \in FundRows
  /\ compareFunds' = Compared(f)
  /\ UNCHANGED <<wizardVars, route, portfolioId, chartVars, gridVars, dialogs, data, counters>>

----------------------------------------------------------------------------
\* The screener's grid.

GridRows == Rows(cache, ScreenerOf(route)) \cap sector
Checked == IF grid.type = "exclude" THEN GridRows \ ToSet(grid.ids) ELSE ToSet(grid.ids)

ActiveTicker(picks, tab) ==
  IF picks = <<>> THEN NoTicker ELSE picks[Min({tab, Len(picks) - 1}) + 1]

\* onSelection takes the first four ids of the model, whatever its type.
Selected(model) ==
  /\ grid' = model
  /\ selection' = SubSeq(model.ids, 1, Min({4, Len(model.ids)}))
  /\ activeTab' = 0
  /\ ticker' = ActiveTicker(selection', 0)

\* The ids among some rows, in their order.
Among(ids, rows) ==
  FlattenSeq([i \in DOMAIN ids |-> IF ids[i] \in rows THEN <<ids[i]>> ELSE <<>>])
Toggled(ids, t) ==
  IF t \in ToSet(ids) THEN Among(ids, ToSet(ids) \ {t}) ELSE Append(ids, t)

ToggleRow(t) ==
  /\ route = "satellite" /\ ~Modal /\ t \in GridRows
  /\ Selected([grid EXCEPT !.ids = Toggled(@, t)])
  /\ UNCHANGED <<wizardVars, route, portfolioId, days, interval, sector, dialogs, compareFunds, counters>>
  /\ Follow(cache)

\* The header's checkbox: all rows, as an exclude-model, or none when one is checked.
ToggleAll ==
  /\ route = "satellite" /\ ~Modal /\ GridRows # {}
  /\ Selected(IF Checked \cap GridRows # {} THEN NoModel ELSE [type |-> "exclude", ids |-> <<>>])
  /\ UNCHANGED <<wizardVars, route, portfolioId, days, interval, sector, dialogs, compareFunds, counters>>
  /\ Follow(cache)

\* Ids of rows that are gone leave the model; without a change nobody is told.
Rechecked(rows) ==
  LET ids == Among(grid.ids, rows)
  IN  IF ids = grid.ids THEN UNCHANGED <<grid, selection, activeTab, ticker>>
      ELSE Selected([grid EXCEPT !.ids = ids])

SetSector(s) ==
  /\ route = "satellite" /\ ~Modal /\ s # sector /\ sector' = s
  /\ Rechecked(Rows(cache, ScreenerOf(route)) \cap s)
  /\ UNCHANGED <<wizardVars, route, portfolioId, days, interval, dialogs, compareFunds, counters>>
  /\ Follow(cache)

SetTab(n) ==
  /\ route = "satellite" /\ ~Modal /\ Len(selection) > 1 /\ n < Len(selection) /\ n # activeTab
  /\ activeTab' = n /\ ticker' = ActiveTicker(selection, n)
  /\ UNCHANGED <<wizardVars, route, portfolioId, days, interval, sector, grid, selection, dialogs, compareFunds, counters>>
  /\ Follow(cache)

----------------------------------------------------------------------------
\* The dialogs: a POST on opening, when a portfolio is selected; the page tracks
\* the latest one only.

Asks == Room /\ asked < MaxAsked /\ asked' = asked + 1
Ask(b) == [at |-> "pending", body |-> b]

DialogFrame == UNCHANGED <<wizardVars, route, portfolioId, chartVars, gridVars, compareFunds, data, faults>>

\* Mutant: a dialog that has an answer does not ask again.
CompareIfNew ==
  IF portfolioId # NoId /\ compare.at # "ok"
  THEN compare' = Ask(Compare(selection, portfolioId)) /\ Asks
  ELSE UNCHANGED <<compare, asked>>

\* The dialogs' effects on open.
CompareOnOpen ==
  IF portfolioId # NoId
  THEN compare' = Ask(Compare(selection, portfolioId)) /\ Asks
  ELSE UNCHANGED <<compare, asked>>

AnalyzeOnOpen(t) ==
  IF portfolioId # NoId
  THEN analyze' = Ask(AnalyzeStock(t, portfolioId)) /\ Asks
  ELSE UNCHANGED <<analyze, asked>>

OpenCompare ==
  /\ route = "satellite" /\ ~Modal /\ Len(selection) >= 2 /\ compareOpen' = TRUE
  /\ CompareOnOpen
  /\ UNCHANGED <<analysisTicker, analyze>> /\ DialogFrame

\* The AI button of a row; the click may also reach the row itself, and toggle it.
OpenAnalysis(t) ==
  /\ route = "satellite" /\ ~Modal /\ t \in GridRows /\ analysisTicker' = t
  /\ AnalyzeOnOpen(t)
  /\ UNCHANGED <<wizardVars, route, portfolioId, days, interval, sector, compareOpen, compare, compareFunds, faults>>
  /\ \/ Selected([grid EXCEPT !.ids = Toggled(@, t)]) /\ Follow(cache)
     \/ UNCHANGED <<ticker, grid, selection, activeTab, data>>

\* Retry is offered for a request that was lost, not for a refused one.
RetryCompare ==
  /\ compareOpen /\ compare.at = "lost" /\ portfolioId # NoId
  /\ compare' = Ask(Compare(selection, portfolioId))
  /\ UNCHANGED <<compareOpen, analysisTicker, analyze, asked>> /\ DialogFrame

RetryAnalysis ==
  /\ analysisTicker # NoTicker /\ analyze.at = "lost" /\ portfolioId # NoId
  /\ analyze' = Ask(AnalyzeStock(analysisTicker, portfolioId))
  /\ UNCHANGED <<compareOpen, compare, analysisTicker, asked>> /\ DialogFrame

Close ==
  /\ Modal /\ compareOpen' = FALSE /\ analysisTicker' = NoTicker
  /\ UNCHANGED <<compare, analyze, asked>> /\ DialogFrame

\* The server refuses fewer than two tickers.
Outcomes(b) ==
  IF "tickers" \in DOMAIN b.body /\ Len(b.body.tickers) < 2 THEN {"refused"} ELSE {"ok", "refused"}

CompareAnswered ==
  /\ compare.at = "pending"
  /\ compare' \in {[compare EXCEPT !.at = o] : o \in Outcomes(compare.body)}
  /\ UNCHANGED <<compareOpen, analysisTicker, analyze, asked>> /\ DialogFrame

AnalysisAnswered ==
  /\ analyze.at = "pending"
  /\ analyze' \in {[analyze EXCEPT !.at = o] : o \in Outcomes(analyze.body)}
  /\ UNCHANGED <<compareOpen, analysisTicker, compare, asked>> /\ DialogFrame

AskLost ==
  /\ Fault
  /\ \/ /\ compare.at = "pending" /\ compare' = [compare EXCEPT !.at = "lost"]
        /\ UNCHANGED analyze
     \/ /\ analyze.at = "pending" /\ analyze' = [analyze EXCEPT !.at = "lost"]
        /\ UNCHANGED compare
  /\ UNCHANGED <<wizardVars, route, portfolioId, chartVars, gridVars, compareFunds, data, compareOpen, analysisTicker, asked>>

----------------------------------------------------------------------------
\* The queries' answers.

\* New rows of the screener reach the grid, or the indicators' symbol: the picked
\* one, or the first.
Taken(c) ==
  \/ /\ route = "satellite"
     /\ Rechecked(Rows(c, ScreenerOf(route)) \cap sector)
     /\ UNCHANGED <<sector, days, interval>>
  \/ /\ route = "indicators"
     /\ ticker' = IF selection # <<>> THEN selection[1]
                  ELSE IF Rows(c, ScreenerOf(route)) # {} THEN SetToSeq(Stocks)[1] ELSE NoTicker
     /\ UNCHANGED <<gridVars, days, interval>>

Landed(k, c) ==
  /\ IF k \in {ScreenerOf("satellite").key, ScreenerOf("indicators").key}
     THEN Taken(c) ELSE UNCHANGED <<chartVars, gridVars>>
  /\ UNCHANGED <<wizardVars, route, portfolioId, dialogs, compareFunds, asked>>
  /\ Follow(c)

Arrive(k) ==
  /\ InFlight(cache, k)
  /\ \E q \in Queries :
       /\ q.key = k
       /\ \/ Landed(k, Settled(Answered(cache, k, Ok(q.request)), k)) /\ UNCHANGED faults
          \/ Landed(k, Settled(Answered(cache, k, Bad), k)) /\ Fault

Lose(k) ==
  /\ InFlight(cache, k) /\ Fault
  /\ cache' = Failed(cache, k)
  /\ UNCHANGED <<wizardVars, view, body, asked>>

\* refetchOnReconnect: what is observed is asked for again, unless it is under
\* way already.
Reconnect ==
  /\ Fault
  /\ cache' = FoldSet(LAMBDA k, c : Observe(c, k), cache, KeysOf(Queries))
  /\ UNCHANGED <<wizardVars, view, body, asked>>

Collect(k) ==
  /\ k \notin KeysOf(Queries)
  /\ cache' = Collected(cache, k)
  /\ UNCHANGED <<wizardVars, view, body, counters>>

----------------------------------------------------------------------------
Frame ==
  \/ \E r \in Routes : Navigate(r)
  \/ \E p \in Portfolios \cup {NoId} : SetPortfolio(p)

Chart ==
  \/ \E d \in ChartRanges : SetRange(d)
  \/ \E i \in Intervals : SetInterval(i)
  \/ \E d \in Periods : SetPeriod(d)
  \/ \E t \in Stocks : PickSymbol(t)
  \/ \E f \in Funds : PickFund(f) \/ ToggleCompare(f)

Grid ==
  \/ \E t \in Stocks : ToggleRow(t)
  \/ ToggleAll
  \/ \E s \in Searches : SetSector(Stocks \cap s)
  \/ \E n \in 0 .. 3 : SetTab(n)

Dialog ==
  \/ OpenCompare \/ \E t \in Stocks : OpenAnalysis(t)
  \/ RetryCompare \/ RetryAnalysis \/ Close
  \/ CompareAnswered \/ AnalysisAnswered \/ AskLost

Network == Reconnect \/ \E k \in DOMAIN cache : Arrive(k) \/ Lose(k) \/ Collect(k)

Next == WizardPage \/ Frame \/ Chart \/ Grid \/ Dialog \/ Network

Spec == Init /\ [][Next]_vars

----------------------------------------------------------------------------
\* Every figure on a page answers the request its title stands for: the summary
\* the selected portfolio's, bars, overlay, figures and drag those of the ticker,
\* the range and the interval in the selectors, whatever was under way when they
\* changed (the keys of the generated client).
ShownIsAsked ==
  \A q \in Queries : Read(q).status = "ok" => Read(q).value = q.request

\* The what-if inputs of the dashboard started from the summary of the portfolio
\* that is selected, whatever was under way when it was switched: not from the
\* one before, nor from an answer under another key (DashboardBody's key and its
\* useState).
WhatIfOfSelected ==
  body # NoBody => body.inputs = PortfolioQuery(portfolioId).request

\* A comparison or an analysis that is shown is the one of the tickers in the
\* dialog's title; the exceptions are a dialog opened with no portfolio
\* selected, which shows the one before, and rows that left the grid under an
\* open dialog (the effects on open; the mutations' state).
DialogMatches ==
  portfolioId # NoId =>
    /\ analysisTicker # NoTicker /\ analyze.at = "ok" => analyze.body.body.ticker = analysisTicker
    /\ compareOpen /\ compare.at = "ok" /\ Len(selection) >= 2 => compare.body.body.tickers = selection

\* The charts and comparisons are of rows that are checked ("Select 2-4 rows to
\* compare", app/satellite/page.tsx).
ChartedIsChecked == route = "satellite" => ToSet(selection) \subseteq Checked
=============================================================================
