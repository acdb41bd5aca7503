----------------------------- MODULE Endpoints ------------------------------
(***************************************************************************)
(* The endpoints of the generated client (lib/generated/endpoints.ts) that *)
(* the pages call.  A query has a request (what its fetch function asks    *)
(* the server), a key (the cache entry it reads and writes) and the        *)
(* enabled flag its options get from its path parameter; the page may      *)
(* override the flag.  A template path is the tuple of its segments, a     *)
(* params object the record of its defined fields.  A parameter that the   *)
(* request sends and the key leaves out would let one request's answer be  *)
(* shown for another's (ShownIsAsked of Pages).                            *)
(***************************************************************************)
EXTENDS Naturals, Sequences

NoTicker == ""
NoId == 0

Query(request, key, enabled) == [request |-> request, key |-> key, enabled |-> enabled]

\* The portfolio a request is about.
IdIn(request) == request.path[2]

\* { enabled: ..., ...queryOptions }: the page's options win.
With(query, enabled) == [query EXCEPT !.enabled = enabled]

Get(path) == [method |-> "GET", path |-> path, params |-> <<>>]
GetWith(path, params) == [method |-> "GET", path |-> path, params |-> params]

----------------------------------------------------------------------------
\* Ingestion and portfolios.

RunsRequest == Get(<<"ingest", "runs">>)
RunsKey == <<<<"ingest", "runs">>>>
RunsQuery == Query(RunsRequest, RunsKey, TRUE)

QuarantineRequest == Get(<<"ingest", "quarantine">>)
QuarantineKey == <<<<"ingest", "quarantine">>>>
QuarantineQuery == Query(QuarantineRequest, QuarantineKey, TRUE)

PortfoliosRequest == Get(<<"portfolios">>)
PortfoliosKey == <<<<"portfolios">>>>
PortfoliosQuery == Query(PortfoliosRequest, PortfoliosKey, TRUE)

CreatePortfolio(portfolio) == [method |-> "POST", path |-> <<"portfolios">>, body |-> portfolio]

SummaryRequest(id) == Get(<<"portfolios", id, "summary">>)
SummaryKey(id) == <<<<"portfolios", id, "summary">>>>
SummaryQuery(id) == Query(SummaryRequest(id), SummaryKey(id), id # NoId)

ChatRequest(id) == Get(<<"portfolios", id, "chat">>)
ChatKey(id) == <<<<"portfolios", id, "chat">>>>
ChatQuery(id) == Query(ChatRequest(id), ChatKey(id), id # NoId)

ClearChat(id) == [method |-> "DELETE", path |-> <<"portfolios", id, "chat">>]

----------------------------------------------------------------------------
\* Market data.

CandlesRequest(ticker, params) == GetWith(<<"candles", ticker>>, params)

\* Mutant: the parameters are left out of the key.
CandlesPathKey(ticker, params) == <<<<"candles", ticker>>>>

CandlesKey(ticker, params) == <<<<"candles", ticker>>, params>>
CandlesQuery(ticker, params) ==
  Query(CandlesRequest(ticker, params), CandlesKey(ticker, params), ticker # NoTicker)

IndicatorsRequest(ticker, params) == GetWith(<<"indicators", ticker>>, params)
IndicatorsKey(ticker, params) == <<<<"indicators", ticker>>, params>>
IndicatorsQuery(ticker, params) ==
  Query(IndicatorsRequest(ticker, params), IndicatorsKey(ticker, params), ticker # NoTicker)

FinancialsRequest(ticker) == Get(<<"financials", ticker>>)
FinancialsKey(ticker) == <<<<"financials", ticker>>>>
FinancialsQuery(ticker) ==
  Query(FinancialsRequest(ticker), FinancialsKey(ticker), ticker # NoTicker)

ScreenerRequest(params) == GetWith(<<"screener">>, params)
ScreenerKey(params) == IF params = <<>> THEN <<<<"screener">>>> ELSE <<<<"screener">>, params>>
ScreenerQuery(params) == Query(ScreenerRequest(params), ScreenerKey(params), TRUE)

FundsRequest == Get(<<"funds">>)
FundsKey == <<<<"funds">>>>
FundsQuery == Query(FundsRequest, FundsKey, TRUE)

TerDragRequest(params) == GetWith(<<"ter-drag">>, params)
TerDragKey(params) == <<<<"ter-drag">>, params>>
TerDragQuery(params) == Query(TerDragRequest(params), TerDragKey(params), TRUE)

Compare(tickers, portfolio) ==
  [method |-> "POST", path |-> <<"compare">>, body |-> [tickers |-> tickers, portfolio |-> portfolio]]

AnalyzeStock(ticker, portfolio) ==
  [method |-> "POST", path |-> <<"analysis", "stock">>, body |-> [ticker |-> ticker, portfolio |-> portfolio]]
=============================================================================
