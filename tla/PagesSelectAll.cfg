SPECIFICATION Spec
CONSTANTS
  f1 = f1
  f2 = f2
  s1 = s1
  s2 = s2
  p1 = p1
  p2 = p2
  NoValue = NoValue
  Funds = {f1, f2}
  Stocks = {s1, s2}
  Searches <- MCSearches
  CoreShares = {80}
  Percents <- MCPercents
  CORE_PAGE_SIZE = 1
  MaxTyped = 0
  Portfolios <- MCPortfolios
  ChartRanges = {365, 730}
  Periods = {180, 365}
  Intervals = {"1D", "7D"}
  Routes = {"satellite"}
  Kept = {}
  MaxAsked = 0
  Tuned = {}
  MaxFaults = 0
  MaxEvents = 2
INVARIANTS ChartedIsChecked
CHECK_DEADLOCK FALSE
