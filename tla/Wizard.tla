------------------------------- MODULE Wizard -------------------------------
(***************************************************************************)
(* The guided wizard (app/wizard/page.tsx): four steps over the answers of *)
(* the funds' and the screener's queries, the selections and percentages   *)
(* they collect, and the body of the POST that creates the portfolio.      *)
(* Every step can be left in both directions; the queries can be answered  *)
(* again, badly too, at any of them.  Picker has what a creation leads to. *)
(*                                                                         *)
(* Percentages are scaled by the number of funds times that of stocks, so  *)
(* that the equal split is exact.                                          *)
(***************************************************************************)
EXTENDS Integers, SequencesExt, Endpoints

CONSTANTS
  Funds, Stocks, \* tickers
  Searches,      \* sets of tickers, each what some search text or filter keeps
  CoreShares,    \* percentages the slider can be set to
  Percents,      \* percentages a user types into "Adjust proportions"
  CORE_PAGE_SIZE,\* funds on a page of cards (12)
  MaxTyped       \* bound: percentages typed in a visit of the page

ASSUME TickerAssumption == Funds \cap Stocks = {} /\ IsFiniteSet(Funds \cup Stocks)
ASSUME PercentAssumption == CoreShares \subseteq 1 .. 99 /\ Percents \subseteq Int
ASSUME PageAssumption == CORE_PAGE_SIZE \in Nat \ {0} /\ MaxTyped \in Nat

VARIABLES
  mode, step,
  basics,        \* name and amounts
  coreWeight, coreFunds, satellites,
  percents,      \* coreWeights and satWeights: ticker -> typed percentage
  fundFilter, corePage, satSearch,
  funds, stocks, \* the rows of the two queries' answers
  pending,       \* create.isPending
  failed         \* create.isError

choices == <<basics, coreWeight, coreFunds, satellites, percents>>
filters == <<fundFilter, corePage, satSearch>>
request == <<pending, failed>>
answers == <<funds, stocks>>
wizardVars == <<mode, step, choices, filters, answers, request>>

\* "complete": a name, a positive capital, no negative contribution.
Basics == {"complete", "negative", "incomplete"}

----------------------------------------------------------------------------
\* What the page computes from its state.

\* An empty selection has no share; the scale stays positive.
Count(S) == IF S = {} THEN 1 ELSE Cardinality(S)
Scale == Count(coreFunds) * Count(satellites)

\* corePct, satPct: the typed percentage, or the equal part of the sleeve's.
Percent(t) ==
  IF t \in DOMAIN percents THEN percents[t] * Scale
  ELSE IF t \in Funds THEN coreWeight * Count(satellites)
  ELSE (100 - coreWeight) * Count(coreFunds)

Picks == coreFunds \cup satellites
TotalPercent == MapThenSumSet(Percent, Picks)

CorePages(n) == Max({1, (n + CORE_PAGE_SIZE - 1) \div CORE_PAGE_SIZE})

CoreFiltered == SelectSeq(SetToSeq(Funds), LAMBDA f : f \in funds \cap fundFilter)
CorePageCount == CorePages(Len(CoreFiltered))
CardsOf(page) ==
  LET first == (page - 1) * CORE_PAGE_SIZE + 1
      last == Min({page * CORE_PAGE_SIZE, Len(CoreFiltered)})
  IN  {CoreFiltered[i] : i \in first .. last}
CoreVisible == CardsOf(Min({corePage, CorePageCount}))

SatRows == stocks \cap satSearch

StepValid ==
  /\ step = 0 => basics # "incomplete"
  /\ step = 1 => coreFunds # {}
  /\ step = 2 => satellites # {}

\* The POST: each percentage in proportion to their sum.
Order ==
  CreatePortfolio(
    [basics |-> basics, core |-> coreFunds, satellites |-> satellites,
     weights |-> [t \in Picks |-> Percent(t)], total |-> TotalPercent])

\* The server's field checks on it (201 or 422).
Accepted(portfolio) ==
  /\ portfolio.basics = "complete" /\ portfolio.core # {}
  /\ \A t \in DOMAIN portfolio.weights :
       0 < portfolio.weights[t] /\ portfolio.weights[t] <= portfolio.total

----------------------------------------------------------------------------
WizardInit ==
  /\ mode = "wizard" /\ step = 0
  /\ basics = "complete" /\ coreWeight = 80 /\ coreFunds = {} /\ satellites = {} /\ percents = <<>>
  /\ fundFilter = Funds /\ corePage = 1 /\ satSearch = Stocks
  /\ funds = {} /\ stocks = {}
  /\ pending = FALSE /\ failed = FALSE

On(s) == mode = "wizard" /\ step = s

SetMode ==
  /\ mode' = IF mode = "wizard" THEN "assistant" ELSE "wizard"
  /\ UNCHANGED <<step, choices, filters, answers, request>>

EditBasics ==
  /\ On(0) /\ basics' \in Basics
  /\ UNCHANGED <<mode, step, coreWeight, coreFunds, satellites, percents, filters, answers, request>>

MoveSlider ==
  /\ On(0) /\ coreWeight' \in CoreShares
  /\ UNCHANGED <<mode, step, basics, coreFunds, satellites, percents, filters, answers, request>>

\* Search text, greatest TER or least growth.
FilterFunds ==
  /\ On(1) /\ fundFilter' \in {Funds \cap s : s \in Searches}
  /\ UNCHANGED <<mode, step, choices, corePage, satSearch, answers, request>>

TurnPage ==
  /\ On(1) /\ corePage' \in 1 .. CorePageCount
  /\ UNCHANGED <<mode, step, choices, fundFilter, satSearch, answers, request>>

ToggleCoreFund ==
  /\ On(1)
  /\ \E f \in CoreVisible :
       coreFunds' = IF f \in coreFunds THEN coreFunds \ {f} ELSE coreFunds \cup {f}
  /\ UNCHANGED <<mode, step, basics, coreWeight, satellites, percents, filters, answers, request>>

\* The grid is controlled and takes back the checks of rows that leave it.
SearchStocks ==
  /\ On(2) /\ satSearch' \in {Stocks \cap s : s \in Searches}
  /\ satellites' = satellites \cap stocks \cap satSearch'
  /\ UNCHANGED <<mode, step, basics, coreWeight, coreFunds, percents, fundFilter, corePage, answers, request>>

\* onSatelliteSelection: an exclude-model's ids are the rows not checked.
SelectRows ==
  /\ On(2)
  /\ \E ids \in SUBSET SatRows, type \in {"include", "exclude"} :
       satellites' = IF type = "exclude" THEN SatRows \ ids ELSE ids
  /\ UNCHANGED <<mode, step, basics, coreWeight, coreFunds, percents, filters, answers, request>>

AdjustPercent ==
  /\ On(3)
  /\ \E t \in Picks, p \in Percents :
       /\ Cardinality(DOMAIN percents \cup {t}) <= MaxTyped
       /\ percents' = [u \in DOMAIN percents \cup {t} |-> IF u = t THEN p ELSE percents[u]]
  /\ UNCHANGED <<mode, step, basics, coreWeight, coreFunds, satellites, filters, answers, request>>

\* Shown again, the grid may take back checks of rows that left meanwhile.
GridShown(s) ==
  satellites' \in IF s = 2 THEN {satellites, satellites \cap SatRows} ELSE {satellites}

Back ==
  /\ \E s \in 1 .. 3 : On(s)
  /\ step' = step - 1 /\ GridShown(step')
  /\ UNCHANGED <<mode, basics, coreWeight, coreFunds, percents, filters, answers, request>>

\* Mutant: the button does not look at the stocks.
NextStepOfFunds ==
  /\ \E s \in 0 .. 2 : On(s)
  /\ step < 2 => StepValid
  /\ step' = step + 1 /\ GridShown(step')
  /\ UNCHANGED <<mode, basics, coreWeight, coreFunds, percents, filters, answers, request>>

NextStep ==
  /\ \E s \in 0 .. 2 : On(s)
  /\ StepValid
  /\ step' = step + 1 /\ GridShown(step')
  /\ UNCHANGED <<mode, basics, coreWeight, coreFunds, percents, filters, answers, request>>

\* The two queries are answered, or answered again, by rows or by an error; a
\* grid on the screen takes back the checks of rows that are gone.
FundsArrive ==
  /\ funds' \in {Funds, {}}
  /\ UNCHANGED <<mode, step, choices, filters, stocks, request>>

ScreenerArrives ==
  /\ stocks' \in {Stocks, {}}
  /\ satellites' = IF On(2) THEN satellites \cap stocks' \cap satSearch ELSE satellites
  /\ UNCHANGED <<mode, step, basics, coreWeight, coreFunds, percents, filters, funds, request>>

\* submit: nothing is sent when the percentages do not add up to something.
Submit ==
  /\ On(3) /\ ~pending /\ TotalPercent > 0
  /\ pending' = TRUE /\ failed' = FALSE
  /\ UNCHANGED <<mode, step, choices, filters, answers>>

\* 201 leads away (onCreated); another status leads nowhere and shows nothing.
Answer ==
  /\ pending /\ pending' = FALSE
  /\ UNCHANGED <<mode, step, choices, filters, answers, failed>>

AnswerLost ==
  /\ pending /\ pending' = FALSE /\ failed' = TRUE
  /\ UNCHANGED <<mode, step, choices, filters, answers>>

WizardNext ==
  \/ SetMode \/ EditBasics \/ MoveSlider \/ FilterFunds \/ TurnPage \/ ToggleCoreFund
  \/ SearchStocks \/ SelectRows \/ AdjustPercent \/ Back \/ NextStep
  \/ FundsArrive \/ ScreenerArrives
  \/ Submit \/ Answer \/ AnswerLost

\* The page goes, and its state with it.
WizardGone ==
  /\ mode' = "wizard" /\ step' = 0
  /\ basics' = "complete" /\ coreWeight' = 80 /\ coreFunds' = {} /\ satellites' = {} /\ percents' = <<>>
  /\ fundFilter' = Funds /\ corePage' = 1 /\ satSearch' = Stocks
  /\ funds' = {} /\ stocks' = {}
  /\ pending' = FALSE /\ failed' = FALSE

----------------------------------------------------------------------------
\* What is submitted after any walk through the steps, with answers of the two
\* queries in between, has a fund and a stock and complete basics, and the server
\* accepts it unless the contribution is negative or a typed percentage is not
\* positive (stepValid, submit).
SubmissionSound ==
  [][ pending' /\ ~pending =>
        /\ Order.body.core # {} /\ Order.body.satellites # {} /\ basics # "incomplete"
        /\ (basics # "negative" /\ \A t \in DOMAIN percents \cap Picks : percents[t] > 0)
           => Accepted(Order.body) ]_wizardVars
=============================================================================
