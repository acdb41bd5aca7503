---------------------------- MODULE PagesProofs -----------------------------
(***************************************************************************)
(* Proofs about Pages and the Wizard on it for any tickers, portfolios,    *)
(* ranges, periods, percentages and number of questions and faults.        *)
(*                                                                         *)
(* What a page shows is right because of what every entry of the cache     *)
(* holds, those of other pages and of earlier tickers included: nothing,   *)
(* an error, or the answer to the request its own key spells out.  So it   *)
(* does not matter which observers turned from which key while answers     *)
(* were under way.                                                         *)
(*                                                                         *)
(* A dialog matches its title because what is charted can change under it  *)
(* in one way only: the rows of the grid are all of the stocks or, after a *)
(* bad answer, none.  A submission is sound because no way back into an    *)
(* earlier step leads forward past its check, and because the percentages  *)
(* are fractions of a sum that is positive and no less than any of them.   *)
(***************************************************************************)
EXTENDS Pages, Induction

\* The request a key spells out, and what its entry may hold.
RequestOf(k) == [method |-> "GET", path |-> k[1], params |-> IF Len(k) = 1 THEN <<>> ELSE k[2]]
Answers(k) == {None, Bad, Ok(RequestOf(k))}
Fetches(k) == [at : {"idle", "asked", "answered"}, tries : Nat, answer : Answers(k)]
Entries(k) == [data : Answers(k), fetch : Fetches(k)]

Typed(c) ==
  /\ c = [k \in DOMAIN c |-> c[k]]
  /\ \A k \in DOMAIN c : c[k] \in Entries(k)

CacheInv == Typed(cache)
\* A mounted body is that of the selected portfolio, and so are its inputs.
BodyInv ==
  body # NoBody =>
    /\ body.key = portfolioId
    /\ body.inputs = PortfolioQuery(portfolioId).request

\* The grid's model names rows of the sector; a dialog that is open is about
\* what its latest POST asked, unless no portfolio was selected.
GridInv ==
  /\ sector \subseteq Stocks
  /\ grid \in [type : {"include", "exclude"}, ids : Seq(sector)]
DialogInv ==
  /\ compareOpen \in BOOLEAN
  /\ Modal => route = "satellite"
  /\ compare = [at |-> compare.at, body |-> compare.body]
  /\ analyze = [at |-> analyze.at, body |-> analyze.body]
  /\ portfolioId # NoId =>
       /\ analysisTicker # NoTicker => analyze.body.body.ticker = analysisTicker
       /\ compareOpen /\ Len(selection) >= 2 => compare.body.body.tickers = selection

\* What each step of the wizard requires of the ones before it.
StepInv ==
  /\ step \in 0 .. 3 /\ basics \in Basics /\ coreWeight \in 1 .. 99
  /\ stocks \subseteq Stocks /\ IsFiniteSet(coreFunds) /\ IsFiniteSet(satellites)
  /\ \A t \in DOMAIN percents : percents[t] \in Int
  /\ step > 0 => basics # "incomplete"
  /\ step > 1 => coreFunds # {}
  /\ step > 2 => satellites # {}

Inv == CacheInv /\ BodyInv /\ GridInv /\ DialogInv /\ StepInv

-----------------------------------------------------------------------------
\* The cache: its operations keep every entry its own.

LEMMA EmptyTyped == \A k : EmptyEntry \in Entries(k) /\ Idle \in Fetches(k)
  BY DEF EmptyEntry, Entries, Fetches, Answers, Idle, None

LEMMA EntryTyped ==
  ASSUME NEW c, Typed(c), NEW k
  PROVE  Entry(c, k) \in Entries(k)
  BY EmptyTyped DEF Typed, Entry

LEMMA PutTyped ==
  ASSUME NEW c, Typed(c), NEW k, NEW e \in Entries(k)
  PROVE  Typed(Put(c, k, e)) /\ DOMAIN Put(c, k, e) \subseteq DOMAIN c \cup {k}
<1> DEFINE D == IF e = EmptyEntry THEN DOMAIN c \ {k} ELSE DOMAIN c \cup {k}
           p == [j \in D |-> IF j = k THEN e ELSE c[j]]
<1>1. D \subseteq DOMAIN c \cup {k}
  OBVIOUS
<1>2. \A j \in DOMAIN c : c[j] \in Entries(j)
  BY DEF Typed
<1>3. \A j \in D : p[j] \in Entries(j)
  <2> HIDE DEF D
  <2>1. QED BY <1>1, <1>2
<1>4. DOMAIN p = D /\ p = [j \in D |-> p[j]]
  <2> HIDE DEF D
  <2>1. QED OBVIOUS
<1>5. Put(c, k, e) = p
  BY DEF Put
<1> HIDE DEF p, D
<1>6. QED BY <1>1, <1>3, <1>4, <1>5 DEF Typed

LEMMA FetchTyped ==
  ASSUME NEW c, Typed(c), NEW k, NEW f \in Fetches(k)
  PROVE  Typed(Fetch(c, k, f)) /\ DOMAIN Fetch(c, k, f) \subseteq DOMAIN c \cup {k}
<1>1. [Entry(c, k) EXCEPT !.fetch = f] \in Entries(k)
  BY EntryTyped DEF Entries
<1>2. QED BY <1>1, PutTyped DEF Fetch

\* The caches over some keys.
Caches(K) ==
  {c \in UNION {[D -> UNION {Entries(k) : k \in K}] : D \in SUBSET K} : Typed(c)}

LEMMA CachesTyped ==
  ASSUME NEW K, NEW c
  PROVE  c \in Caches(K) <=> Typed(c) /\ DOMAIN c \subseteq K
<1>1. ASSUME Typed(c), DOMAIN c \subseteq K PROVE c \in Caches(K)
  <2>1. \A k \in DOMAIN c : c[k] \in UNION {Entries(j) : j \in K}
    BY <1>1 DEF Typed
  <2>2. c \in [DOMAIN c -> UNION {Entries(j) : j \in K}]
    BY <1>1, <2>1 DEF Typed
  <2>3. QED BY <1>1, <2>2 DEF Caches
<1>2. ASSUME c \in Caches(K) PROVE Typed(c) /\ DOMAIN c \subseteq K
  <2>1. PICK D \in SUBSET K : c \in [D -> UNION {Entries(k) : k \in K}]
    BY <1>2 DEF Caches
  <2>2. QED BY <1>2, <2>1 DEF Caches
<1>3. QED BY <1>1, <1>2

\* What happens to each key of a set in turn.
Event(op, c, k) ==
  CASE op = "observe" -> Observe(c, k)
    [] op = "leave" -> Leave(c, k)
Ops == {"observe", "leave"}

LEMMA EventTyped ==
  ASSUME NEW op \in Ops, NEW c, Typed(c), NEW k
  PROVE  Typed(Event(op, c, k)) /\ DOMAIN Event(op, c, k) \subseteq DOMAIN c \cup {k}
<1>1. Asked(0) \in Fetches(k) /\ Idle \in Fetches(k)
  BY EmptyTyped DEF Asked, Fetches, Answers
<1>2. CASE op = "observe"
  BY <1>1, <1>2, FetchTyped DEF Event, Observe
<1>3. CASE op = "leave"
  BY <1>1, <1>3, FetchTyped DEF Event, Leave
<1>4. QED BY <1>2, <1>3 DEF Ops

Swept(op, S, c, f) ==
  f = [T \in SUBSET S |-> IF T = {} THEN c ELSE Event(op, f[T \ {First(T)}], First(T))]

LEMMA SweptExists ==
  ASSUME NEW op \in Ops, NEW S, IsFiniteSet(S), NEW c, Typed(c)
  PROVE  \E f : Swept(op, S, c, f)
<1> DEFINE K == DOMAIN c \cup S
           C == Caches(K)
           F == [k \in S |-> [d \in C |-> Event(op, d, k)]]
<1>1. c \in C
  BY CachesTyped
<1>2. \A k \in S, d \in C : Event(op, d, k) \in C
  <2> SUFFICES ASSUME NEW k \in S, NEW d \in C PROVE Event(op, d, k) \in C
    OBVIOUS
  <2> HIDE DEF F
  <2>1. Typed(d) /\ DOMAIN d \subseteq K
    BY CachesTyped
  <2>2. Typed(Event(op, d, k)) /\ DOMAIN Event(op, d, k) \subseteq K
    BY <2>1, EventTyped
  <2>3. QED BY <2>2, CachesTyped
<1> HIDE DEF C
<1>3. \A k \in S, d \in C : F[k][d] = Event(op, d, k)
  OBVIOUS
<1> HIDE DEF F
<1>4. PICK g : FoldOn(S, c, F, g)
  BY FoldExists
<1>5. \A U \in SUBSET S : g[U] \in C
  <2>1. \A k \in S, d \in C : F[k][d] \in C
    BY <1>2, <1>3
  <2>2. QED BY <1>1, <1>4, <2>1, FoldKeeps
<1>6. \A U \in SUBSET S : U # {} => First(U) \in S
  BY DEF First
<1>7. Swept(op, S, c, g)
  <2> DEFINE e(U) == IF U = {} THEN c ELSE F[First(U)][g[U \ {First(U)}]]
             h(U) == IF U = {} THEN c ELSE Event(op, g[U \ {First(U)}], First(U))
  <2>1. g = [U \in SUBSET S |-> e(U)]
    BY <1>4 DEF FoldOn
  <2>2. \A U \in SUBSET S : e(U) = h(U)
    BY <1>3, <1>5, <1>6
  <2>3. g = [U \in SUBSET S |-> h(U)]
    <3> HIDE DEF e, h
    <3>1. QED BY <2>1, <2>2
  <2>4. QED BY <2>3 DEF Swept
<1>8. QED BY <1>7

LEMMA SweptTyped ==
  ASSUME NEW op \in Ops, NEW S, IsFiniteSet(S), NEW c, Typed(c), NEW f, Swept(op, S, c, f)
  PROVE  Typed(f[S])
<1> DEFINE G == {U \in SUBSET S : Typed(f[U])}
<1>1. \A U \in SUBSET S : f[U] = IF U = {} THEN c ELSE Event(op, f[U \ {First(U)}], First(U))
  BY DEF Swept
<1>2. \A U \in SUBSET S : U # {} => First(U) \in U
  BY DEF First
<1>3. ASSUME NEW U \in SUBSET S, \A V \in SUBSET U : V # U => V \in G
      PROVE  U \in G
  <2>1. CASE U = {}
    BY <1>1, <2>1
  <2>2. CASE U # {}
    <3>1. U \ {First(U)} \in SUBSET U /\ U \ {First(U)} # U
      BY <1>2, <2>2
    <3>2. Typed(f[U \ {First(U)}])
      BY <1>3, <3>1
    <3>3. Typed(Event(op, f[U \ {First(U)}], First(U)))
      BY <3>2, EventTyped
    <3>4. QED BY <1>1, <2>2, <3>3
  <2>3. QED BY <2>1, <2>2
<1> HIDE DEF G
<1>4. \A U \in SUBSET S : U \in G
  BY <1>3, SubsetInduction
<1>5. QED BY <1>4 DEF G

LEMMA SweepTyped ==
  ASSUME NEW S, IsFiniteSet(S), NEW c, Typed(c)
  PROVE  /\ Typed(FoldSet(LAMBDA k, d : Observe(d, k), c, S))
         /\ Typed(FoldSet(LAMBDA k, d : Leave(d, k), c, S))
<1> DEFINE O(f) == f = [T \in SUBSET S |-> IF T = {} THEN c ELSE Observe(f[T \ {First(T)}], First(T))]
           L(f) == f = [T \in SUBSET S |-> IF T = {} THEN c ELSE Leave(f[T \ {First(T)}], First(T))]
<1>1. /\ FoldSet(LAMBDA k, d : Observe(d, k), c, S) = (CHOOSE f : O(f))[S]
      /\ FoldSet(LAMBDA k, d : Leave(d, k), c, S) = (CHOOSE f : L(f))[S]
  BY DEF FoldSet, MapThenFoldSet, First
<1>2. \A f : /\ Swept("observe", S, c, f) <=> O(f)
             /\ Swept("leave", S, c, f) <=> L(f)
  BY DEF Swept, Event
<1>3. {"observe", "leave"} \subseteq Ops
  BY DEF Ops
<1>4. (\E f : O(f)) /\ (\E f : L(f))
  <2>1. /\ \E f : Swept("observe", S, c, f)
        /\ \E f : Swept("leave", S, c, f)
    BY <1>3, SweptExists
  <2> HIDE DEF O, L
  <2>2. QED BY <1>2, <2>1
<1> HIDE DEF O, L
<1>5. O(CHOOSE f : O(f)) /\ L(CHOOSE f : L(f))
  BY <1>4
<1>6. /\ Swept("observe", S, c, CHOOSE f : O(f))
      /\ Swept("leave", S, c, CHOOSE f : L(f))
  BY <1>2, <1>5
<1>7. QED BY <1>1, <1>3, <1>6, SweptTyped

\* Turned: observers come and go.
LEMMA TurnedTyped ==
  ASSUME NEW c, Typed(c), NEW before, IsFiniteSet(before), NEW after, IsFiniteSet(after)
  PROVE  Typed(Turned(c, before, after))
<1> DEFINE left == FoldSet(LAMBDA k, d : Leave(d, k), c, before \ after)
<1>1. IsFiniteSet(before \ after) /\ IsFiniteSet(after \ before)
  BY FS_Difference
<1>2. Typed(left)
  BY <1>1, SweepTyped
<1> HIDE DEF left
<1>3. Typed(FoldSet(LAMBDA k, d : Observe(d, k), left, after \ before))
  BY <1>1, <1>2, SweepTyped
<1>4. QED BY <1>3 DEF Turned, left

LEMMA FailedTyped ==
  ASSUME NEW c, Typed(c), NEW k \in DOMAIN c
  PROVE  Typed(Failed(c, k))
<1>1. c[k].fetch.tries \in Nat
  BY DEF Typed, Entries, Fetches
<1>2. Asked(c[k].fetch.tries + 1) \in Fetches(k) /\ Idle \in Fetches(k)
  BY <1>1, EmptyTyped DEF Asked, Fetches, Answers
<1>3. QED BY <1>2, FetchTyped DEF Failed

\* An answer of its own request, or an error.
LEMMA SettledTyped ==
  ASSUME NEW c, Typed(c), NEW k \in DOMAIN c, NEW a \in Answers(k)
  PROVE  Typed(Settled(Answered(c, k, a), k))
<1> DEFINE f == [c[k].fetch EXCEPT !.at = "answered", !.answer = a]
           e == [Entry(c, k) EXCEPT !.fetch = f]
           d == Answered(c, k, a)
<1>1. f \in Fetches(k) /\ f.at = "answered" /\ f.answer = a
  BY DEF Typed, Entries, Fetches
<1> HIDE DEF f
<1>2. e \in Entries(k) /\ e # EmptyEntry /\ e.fetch.answer = a
  BY <1>1, EntryTyped DEF Entries, EmptyEntry, Idle
<1>3. Typed(d)
  BY <1>1, FetchTyped DEF Answered, f
<1>4. k \in DOMAIN d /\ d[k] = e
  BY <1>2 DEF Answered, Fetch, Put, f
<1> HIDE DEF d, e
<1>5. [data |-> d[k].fetch.answer, fetch |-> Idle] \in Entries(k)
  BY <1>2, <1>4, EmptyTyped DEF Entries
<1>6. QED BY <1>3, <1>5, PutTyped DEF Settled, d

-----------------------------------------------------------------------------
\* The queries: a key spells out the request of its query.

Spelled(q) == q.request = RequestOf(q.key)

LEMMA QueriesSpelled ==
  /\ \A p : Spelled(PortfolioQuery(p))
  /\ \A t, d, i : Spelled(BarsQuery(t, d, i)) /\ Spelled(OverlayQuery(t, d))
  /\ \A t : Spelled(FiguresQuery(t)) /\ Spelled(DragQuery(t))
  /\ \A r : Spelled(ScreenerOf(r))
  /\ Spelled(FundsQuery) /\ Spelled(RunsQuery) /\ Spelled(QuarantineQuery)
<1>1. \A p : Spelled(PortfolioQuery(p))
  BY DEF Spelled, RequestOf, PortfolioQuery, With, SummaryQuery, Query, SummaryRequest, SummaryKey, Get
<1>2. \A t, d, i : Spelled(BarsQuery(t, d, i))
  BY DEF Spelled, RequestOf, BarsQuery, With, CandlesQuery, Query, CandlesRequest, CandlesKey, GetWith
<1>3. \A t, d : Spelled(OverlayQuery(t, d))
  BY DEF Spelled, RequestOf, OverlayQuery, With, IndicatorsQuery, Query, IndicatorsRequest, IndicatorsKey,
         GetWith
<1>4. \A t : Spelled(FiguresQuery(t))
  BY DEF Spelled, RequestOf, FiguresQuery, With, FinancialsQuery, Query, FinancialsRequest, FinancialsKey,
         Get
<1>5. \A t : Spelled(DragQuery(t))
  BY DEF Spelled, RequestOf, DragQuery, With, TerDragQuery, Query, TerDragRequest, TerDragKey, GetWith
<1>6. \A params : Spelled(ScreenerQuery(params))
  BY DEF Spelled, RequestOf, ScreenerQuery, Query, ScreenerRequest, ScreenerKey, GetWith
<1>7. \A r : Spelled(ScreenerOf(r))
  BY <1>6 DEF ScreenerOf
<1>8. Spelled(FundsQuery) /\ Spelled(RunsQuery) /\ Spelled(QuarantineQuery)
  BY DEF Spelled, RequestOf, Query, Get, FundsQuery, FundsRequest, FundsKey, RunsQuery, RunsRequest,
         RunsKey, QuarantineQuery, QuarantineRequest, QuarantineKey
<1>9. QED BY <1>1, <1>2, <1>3, <1>4, <1>5, <1>7, <1>8

LEMMA ObservedSpelled == \A q \in Queries : Spelled(q)
<1>1. CASE route = "main"
  BY <1>1, QueriesSpelled DEF Queries
<1>2. CASE route = "core"
  BY <1>2, QueriesSpelled DEF Queries
<1>3. CASE route = "satellite"
  BY <1>3, QueriesSpelled DEF Queries
<1>4. CASE route = "indicators"
  BY <1>4, QueriesSpelled DEF Queries
<1>5. CASE route = "ingestion"
  BY <1>5, QueriesSpelled DEF Queries
<1>6. CASE route \notin {"main", "core", "satellite", "indicators", "ingestion"}
  BY <1>6 DEF Queries
<1>7. QED BY <1>1, <1>2, <1>3, <1>4, <1>5, <1>6

\* A page observes four queries at most.
LEMMA FewQueries == \E a, b, c, d : Queries \subseteq {a, b, c, d}
<1>1. CASE route \in {"core", "satellite"}
  BY <1>1 DEF Queries
<1>2. CASE route \in {"main", "indicators", "ingestion"}
  BY <1>2 DEF Queries
<1>3. CASE route \notin {"main", "core", "satellite", "indicators", "ingestion"}
  BY <1>3 DEF Queries
<1>4. QED BY <1>1, <1>2, <1>3

LEMMA KeysFinite == IsFiniteSet(KeysOf(Queries))
<1>1. PICK a, b, c, d : Queries \subseteq {a, b, c, d}
  BY FewQueries
<1> DEFINE four == {a.key, b.key, c.key, d.key}
<1>2. IsFiniteSet(four)
  <2>1. IsFiniteSet({a.key})
    BY FS_Singleton
  <2>2. IsFiniteSet({a.key} \cup {b.key})
    BY <2>1, FS_AddElement
  <2>3. IsFiniteSet(({a.key} \cup {b.key}) \cup {c.key})
    BY <2>2, FS_AddElement
  <2>4. IsFiniteSet((({a.key} \cup {b.key}) \cup {c.key}) \cup {d.key})
    BY <2>3, FS_AddElement
  <2>5. (({a.key} \cup {b.key}) \cup {c.key}) \cup {d.key} = four
    OBVIOUS
  <2>6. QED BY <2>4, <2>5
<1>3. KeysOf(Queries) \in SUBSET four
  BY <1>1 DEF KeysOf
<1> HIDE DEF four
<1>4. QED BY <1>2, <1>3, FS_Subset

LEMMA KeysFiniteNext == IsFiniteSet(KeysOf(Queries)')
<1>1. IsFiniteSet(KeysOf(Queries))'
  BY KeysFinite, PTL
<1>2. QED BY <1>1

\* A body is mounted anew with the summary the cache holds under the key of the
\* portfolio, or goes on under the same key.
LEMMA BodyAfterKeyed ==
  ASSUME BodyInv, NEW c, Typed(c), NEW r, NEW p,
         BodyAfter(c, r, p) # NoBody
  PROVE  /\ BodyAfter(c, r, p).key = p
         /\ BodyAfter(c, r, p).inputs = PortfolioQuery(p).request
<1> DEFINE summary == Entry(c, PortfolioQuery(p).key).data
           anew == [key |-> p, inputs |-> summary.value]
<1>1. summary \in Answers(PortfolioQuery(p).key)
  BY EntryTyped DEF Entries
<1>2. RequestOf(PortfolioQuery(p).key) = PortfolioQuery(p).request
  BY QueriesSpelled DEF Spelled
<1>3. summary.status = "ok" => summary.value = PortfolioQuery(p).request
  BY <1>1, <1>2 DEF Answers, None, Bad, Ok
<1>4. /\ summary.status = "ok"
      /\ BodyAfter(c, r, p) = IF body # NoBody /\ body.key = p THEN body ELSE anew
  BY DEF BodyAfter
<1>5. anew.key = p /\ anew.inputs = summary.value
  OBVIOUS
<1> HIDE DEF anew, summary
<1>6. CASE body # NoBody /\ body.key = p
  BY <1>4, <1>6 DEF BodyInv
<1>7. CASE ~(body # NoBody /\ body.key = p)
  BY <1>3, <1>4, <1>5, <1>7
<1>8. QED BY <1>6, <1>7

\* The observers follow the page; DashboardBody is that of the portfolio.
LEMMA FollowStep ==
  ASSUME BodyInv, NEW c, Typed(c), Follow(c)
  PROVE  CacheInv' /\ BodyInv'
<1> DEFINE shown == KeysOf(Queries)'
           turned == Turned(c, KeysOf(Queries), shown)
           kept == {k \in DOMAIN turned : route' = route /\ k[1][1] \in Kept}
           left == DOMAIN turned \cap (shown \cup kept)
<1>1. cache' = Restrict(turned, left) /\ body' = BodyAfter(cache', route', portfolioId')
  BY DEF Follow
<1>2. Typed(turned)
  BY KeysFinite, KeysFiniteNext, TurnedTyped
<1> HIDE DEF turned
<1>3. left \subseteq DOMAIN turned
  OBVIOUS
<1> HIDE DEF left
<1>4. Typed(Restrict(turned, left))
  <2> DEFINE r == [k \in left |-> turned[k]]
  <2>1. DOMAIN r = left /\ \A k \in left : r[k] \in Entries(k)
    BY <1>2, <1>3 DEF Typed
  <2>2. r = [k \in left |-> r[k]]
    OBVIOUS
  <2>3. Restrict(turned, left) = r
    BY DEF Restrict
  <2> HIDE DEF r
  <2>4. QED BY <2>1, <2>2, <2>3 DEF Typed
<1>5. CacheInv'
  BY <1>1, <1>4 DEF CacheInv
<1>6. BodyInv'
  <2>1. body' # NoBody => body'.key = portfolioId' /\ body'.inputs = PortfolioQuery(portfolioId').request
    BY <1>1, <1>5, BodyAfterKeyed DEF CacheInv
  <2>2. QED BY <2>1 DEF BodyInv, PortfolioQuery
<1>7. QED BY <1>5, <1>6

\* The network: answers, losses, reconnections and collections.
LEMMA NetworkStep ==
  ASSUME CacheInv, BodyInv, Network
  PROVE  CacheInv' /\ BodyInv'
<1>1. ASSUME NEW k \in DOMAIN cache, Arrive(k)
      PROVE  CacheInv' /\ BodyInv'
  <2>1. PICK q \in Queries :
          /\ q.key = k
          /\ \E a \in {Ok(q.request), Bad} : Landed(k, Settled(Answered(cache, k, a), k))
    BY <1>1 DEF Arrive
  <2>2. Ok(q.request) \in Answers(k) /\ Bad \in Answers(k)
    BY <2>1, ObservedSpelled DEF Answers, Spelled
  <2>3. PICK a \in Answers(k) : Landed(k, Settled(Answered(cache, k, a), k))
    BY <2>1, <2>2
  <2>4. Typed(Settled(Answered(cache, k, a), k))
    BY SettledTyped DEF CacheInv
  <2>5. Follow(Settled(Answered(cache, k, a), k))
    BY <2>3 DEF Landed
  <2>6. QED BY <2>4, <2>5, FollowStep
<1>2. ASSUME NEW k \in DOMAIN cache, Lose(k)
      PROVE  CacheInv' /\ BodyInv'
  <2>1. Typed(Failed(cache, k))
    BY FailedTyped DEF CacheInv
  <2>2. cache' = Failed(cache, k) /\ body' = body /\ portfolioId' = portfolioId
    BY <1>2 DEF Lose, view
  <2>3. QED BY <2>1, <2>2 DEF CacheInv, BodyInv
<1>3. ASSUME Reconnect
      PROVE  CacheInv' /\ BodyInv'
  <2>1. Typed(FoldSet(LAMBDA k, c : Observe(c, k), cache, KeysOf(Queries)))
    BY KeysFinite, SweepTyped DEF CacheInv
  <2>2. /\ cache' = FoldSet(LAMBDA k, c : Observe(c, k), cache, KeysOf(Queries))
        /\ body' = body /\ portfolioId' = portfolioId
    BY <1>3 DEF Reconnect, view
  <2>3. QED BY <2>1, <2>2 DEF CacheInv, BodyInv
<1>4. ASSUME NEW k \in DOMAIN cache, Collect(k)
      PROVE  CacheInv' /\ BodyInv'
  <2>1. Typed(Collected(cache, k))
    BY EmptyTyped, PutTyped DEF CacheInv, Collected
  <2>2. cache' = Collected(cache, k) /\ body' = body /\ portfolioId' = portfolioId
    BY <1>4 DEF Collect, view
  <2>3. QED BY <2>1, <2>2 DEF CacheInv, BodyInv
<1>5. QED BY <1>1, <1>2, <1>3, <1>4 DEF Network

LEMMA CacheStep ==
  ASSUME CacheInv, BodyInv, [Next]_vars
  PROVE  CacheInv' /\ BodyInv'
<1>1. CASE Follow(cache)
  BY <1>1, FollowStep DEF CacheInv
<1>2. CASE UNCHANGED <<data, portfolioId>>
  <2>1. cache' = cache /\ body' = body /\ portfolioId' = portfolioId
    BY <1>2 DEF data
  <2>2. QED BY <2>1 DEF CacheInv, BodyInv
<1>3. CASE WizardPage \/ UNCHANGED vars
  BY <1>2, <1>3 DEF WizardPage, vars, pagesVars, view
<1>4. CASE Frame
  BY <1>1, <1>4 DEF Frame, Navigate, SetPortfolio
<1>5. CASE Chart
  <2>1. ASSUME NEW f \in Funds, ToggleCompare(f) PROVE UNCHANGED <<data, portfolioId>>
    BY <2>1 DEF ToggleCompare
  <2>2. QED BY <1>1, <1>2, <1>5, <2>1 DEF Chart, SetRange, SetInterval, SetPeriod, PickSymbol, PickFund
<1>6. CASE Grid
  BY <1>1, <1>6 DEF Grid, ToggleRow, ToggleAll, SetSector, SetTab
<1>7. CASE Dialog
  <2>1. ASSUME NEW t \in Stocks, OpenAnalysis(t)
        PROVE  Follow(cache) \/ UNCHANGED <<data, portfolioId>>
    BY <2>1 DEF OpenAnalysis
  <2>2. CASE AskLost
    BY <1>2, <2>2 DEF AskLost
  <2>3. CASE OpenCompare \/ RetryCompare \/ RetryAnalysis \/ Close \/ CompareAnswered \/ AnalysisAnswered
    BY <1>2, <2>3
    DEF OpenCompare, RetryCompare, RetryAnalysis, Close, CompareAnswered, AnalysisAnswered, DialogFrame
  <2>4. QED BY <1>1, <1>2, <1>7, <2>1, <2>2, <2>3 DEF Dialog
<1>8. CASE Network
  BY <1>8, NetworkStep
<1>9. QED BY <1>3, <1>4, <1>5, <1>6, <1>7, <1>8 DEF Next

-----------------------------------------------------------------------------
\* The grid and the dialogs.

Piece(x, rows) == IF x \in rows THEN <<x>> ELSE <<>>

LEMMA PieceTyped ==
  ASSUME NEW T, NEW x \in T, NEW rows
  PROVE  Piece(x, rows) \in Seq(T) /\ Piece(x, rows) \in Seq(T \cap rows)
<1>1. <<>> \in Seq(T) /\ <<>> \in Seq(T \cap rows) /\ <<x>> \in Seq(T)
  OBVIOUS
<1>2. x \in rows => <<x>> \in Seq(T \cap rows)
  OBVIOUS
<1>3. QED BY <1>1, <1>2 DEF Piece

LEMMA AmongEmpty == \A rows : Among(<<>>, rows) = <<>>
<1> TAKE rows
<1>1. [i \in DOMAIN <<>> |-> IF <<>>[i] \in rows THEN <<<<>>[i]>> ELSE <<>>] = <<>>
  OBVIOUS
<1>2. QED BY <1>1, FlattenEmpty DEF Among

LEMMA AmongAppend ==
  ASSUME NEW T, NEW s \in Seq(T), NEW e \in T, NEW rows
  PROVE  /\ Among(s, rows) \in Seq(T \cap rows)
         /\ Among(Append(s, e), rows) = Among(s, rows) \o Piece(e, rows)
<1> DEFINE P == T \cap rows
           u == [i \in DOMAIN s |-> Piece(s[i], rows)]
           v == [i \in DOMAIN Append(s, e) |-> Piece(Append(s, e)[i], rows)]
           n == Len(s)
           x == Piece(e, rows)
<1>1. n \in Nat /\ DOMAIN s = 1 .. n /\ DOMAIN Append(s, e) = 1 .. n + 1
  OBVIOUS
<1>2. \A i \in 1 .. n : Append(s, e)[i] = s[i] /\ s[i] \in T
  OBVIOUS
<1>3. Append(s, e)[n + 1] = e
  OBVIOUS
<1>4. u \in Seq(Seq(P)) /\ Len(u) = n /\ \A i \in 1 .. n : u[i] = Piece(s[i], rows)
  <2>1. \A i \in 1 .. n : Piece(s[i], rows) \in Seq(P)
    BY <1>2, PieceTyped
  <2>2. QED BY <1>1, <2>1
<1>5. x \in Seq(P)
  BY PieceTyped
<1> HIDE DEF P
<1>6. v = Append(u, x)
  <2> DEFINE w == Append(u, x)
  <2>1. w \in Seq(Seq(P)) /\ Len(w) = n + 1 /\ w[n + 1] = x
        /\ \A i \in 1 .. n : w[i] = Piece(s[i], rows)
    <3> HIDE DEF u, x
    <3>1. QED BY <1>1, <1>4, <1>5
  <2>2. DOMAIN w = 1 .. n + 1
    BY <1>1, <2>1
  <2>3. \A i \in 1 .. n + 1 : v[i] = Piece(Append(s, e)[i], rows)
    BY <1>1
  <2>4. \A i \in 1 .. n + 1 : i \in 1 .. n \/ i = n + 1
    BY <1>1
  <2>5. \A i \in 1 .. n + 1 : v[i] = w[i]
    BY <1>2, <1>3, <2>1, <2>3, <2>4
  <2>6. w = [i \in 1 .. n + 1 |-> w[i]] /\ v = [i \in 1 .. n + 1 |-> v[i]]
    <3>1. w = [i \in 1 .. n + 1 |-> w[i]]
      <4> HIDE DEF w
      <4>1. QED BY <2>1, <2>2
    <3>2. v = [i \in 1 .. n + 1 |-> v[i]]
      BY <1>1
    <3>3. QED BY <3>1, <3>2
  <2> HIDE DEF v, w
  <2>7. QED BY <2>5, <2>6 DEF w
<1>7. Among(s, rows) = FlattenSeq(u) /\ Among(Append(s, e), rows) = FlattenSeq(v)
  BY DEF Among, Piece
<1> HIDE DEF u, v, x
<1>8. FlattenSeq(u) \in Seq(P) /\ FlattenSeq(Append(u, x)) = FlattenSeq(u) \o x
  BY <1>4, <1>5, FlattenAppend
<1>9. QED BY <1>6, <1>7, <1>8 DEF x, P

\* Of ids that are all among the rows, all stay; of no rows, none.
LEMMA AmongAll ==
  ASSUME NEW T, NEW rows, T \subseteq rows
  PROVE  \A s \in Seq(T) : Among(s, rows) = s
<1> DEFINE G == {n \in Nat : \A s \in Seq(T) : Len(s) = n => Among(s, rows) = s}
<1>1. 0 \in G
  <2>1. \A s \in Seq(T) : Len(s) = 0 => s = <<>>
    OBVIOUS
  <2>2. QED BY <2>1, AmongEmpty
<1>2. ASSUME NEW n \in Nat, n \in G
      PROVE  n + 1 \in G
  <2> SUFFICES ASSUME NEW s \in Seq(T), Len(s) = n + 1
               PROVE  Among(s, rows) = s
    OBVIOUS
  <2> DEFINE u == SubSeq(s, 1, n)
             e == s[n + 1]
  <2>1. u \in Seq(T) /\ e \in T /\ Len(u) = n /\ s = Append(u, e)
    OBVIOUS
  <2> HIDE DEF u, e
  <2>2. Among(u, rows) = u
    BY <1>2, <2>1
  <2>3. Among(s, rows) = u \o <<e>>
    <3>1. Piece(e, rows) = <<e>>
      BY <2>1 DEF Piece
    <3>2. Among(Append(u, e), rows) = Among(u, rows) \o Piece(e, rows)
      BY <2>1, AmongAppend, Zenon
    <3>3. QED BY <2>1, <2>2, <3>1, <3>2, Zenon
  <2>4. u \o <<e>> = Append(u, e)
    BY <2>1
  <2>5. QED BY <2>1, <2>3, <2>4
<1> HIDE DEF G
<1>3. Nat \subseteq G
  BY <1>1, <1>2, NaturalInduction
<1>4. QED BY <1>3 DEF G

LEMMA AmongIn ==
  ASSUME NEW T, NEW s \in Seq(T), NEW rows
  PROVE  Among(s, rows) \in Seq(T \cap rows)
<1>1. CASE s = <<>>
  <2>1. <<>> \in Seq(T \cap rows)
    OBVIOUS
  <2>2. QED BY <1>1, <2>1, AmongEmpty, Zenon
<1>2. CASE s # <<>>
  <2>1. s[1] \in T
    BY <1>2
  <2>2. QED BY <2>1, AmongAppend, Zenon
<1>3. QED BY <1>1, <1>2

LEMMA AmongTyped ==
  ASSUME NEW T, NEW s \in Seq(T), NEW rows
  PROVE  /\ Among(s, rows) \in Seq(T)
         /\ rows = {} => Among(s, rows) = <<>>
<1>1. Among(s, rows) \in Seq(T \cap rows)
  BY AmongIn
<1>2. Seq(T \cap rows) \subseteq Seq(T)
  OBVIOUS
<1>3. rows = {} => \A u \in Seq(T \cap rows) : u = <<>>
  OBVIOUS
<1>4. QED BY <1>1, <1>2, <1>3

LEMMA ToggledTyped ==
  ASSUME NEW T, NEW ids \in Seq(T), NEW t \in T
  PROVE  Toggled(ids, t) \in Seq(T)
<1>1. Append(ids, t) \in Seq(T)
  OBVIOUS
<1>2. Among(ids, ToSet(ids) \ {t}) \in Seq(T)
  BY AmongTyped
<1>3. QED BY <1>1, <1>2 DEF Toggled

\* No id is left of an empty model.
LEMMA NoneSelected ==
  ASSUME NEW model, model.ids = <<>>, Selected(model)
  PROVE  selection' = <<>>
<1>1. Len(<<>>) = 0 /\ Min({4, 0}) = 0
  BY DEF Min
<1>2. SubSeq(<<>>, 1, 0) = <<>>
  OBVIOUS
<1>3. QED BY <1>1, <1>2 DEF Selected

LEMMA RecheckedStep ==
  ASSUME GridInv, NEW rows, Rechecked(rows)
  PROVE  /\ grid' \in [type : {"include", "exclude"}, ids : Seq(sector \cap rows)]
         /\ sector \subseteq rows => selection' = selection
         /\ rows = {} => selection' = selection \/ selection' = <<>>
<1> DEFINE ids == Among(grid.ids, rows)
<1>1. grid.ids \in Seq(sector)
  BY DEF GridInv
<1>2. ids \in Seq(sector \cap rows)
  BY <1>1, AmongIn
<1>3. sector \subseteq rows => ids = grid.ids
  BY <1>1, AmongAll
<1>4. rows = {} => ids = <<>>
  BY <1>1, AmongTyped
<1> HIDE DEF ids
<1>5. CASE ids = grid.ids
  <2>1. grid' = grid /\ selection' = selection
    BY <1>5 DEF Rechecked, ids
  <2>2. QED BY <1>2, <1>5, <2>1 DEF GridInv
<1>6. CASE ids # grid.ids
  <2>1. Selected([grid EXCEPT !.ids = ids])
    BY <1>6 DEF Rechecked, ids
  <2>2. grid' = [grid EXCEPT !.ids = ids] /\ [grid EXCEPT !.ids = ids].ids = ids
    BY <2>1 DEF Selected, GridInv
  <2>3. ids = <<>> => selection' = <<>>
    BY <2>1, <2>2, NoneSelected
  <2>4. QED BY <1>2, <1>3, <1>4, <1>6, <2>2, <2>3 DEF GridInv
<1>7. QED BY <1>5, <1>6

\* While no dialog is open, a step that opens none need only keep the grid; and
\* the dialogs keep what they show unless the charted rows change.
LEMMA ClosedStep ==
  ASSUME DialogInv, ~Modal, UNCHANGED dialogs
  PROVE  DialogInv'
<1>1. /\ compareOpen' = compareOpen /\ analysisTicker' = analysisTicker
      /\ compare' = compare /\ analyze' = analyze
  BY DEF dialogs
<1>2. QED BY <1>1 DEF DialogInv, Modal

LEMMA ShownStep ==
  ASSUME DialogInv, UNCHANGED <<dialogs, route, portfolioId>>,
         selection' = selection \/ selection' = <<>>
  PROVE  DialogInv'
<1>1. /\ compareOpen' = compareOpen /\ analysisTicker' = analysisTicker
      /\ compare' = compare /\ analyze' = analyze
      /\ route' = route /\ portfolioId' = portfolioId
  BY DEF dialogs
<1>2. selection' = <<>> => ~(Len(selection') >= 2)
  OBVIOUS
<1>3. QED BY <1>1, <1>2 DEF DialogInv, Modal

LEMMA GridKept ==
  ASSUME GridInv, UNCHANGED gridVars
  PROVE  GridInv' /\ selection' = selection
  BY DEF GridInv, gridVars

\* The rows shown are rows of the sector.
LEMMA SelectedStep ==
  ASSUME GridInv, NEW model \in [type : {"include", "exclude"}, ids : Seq(sector)],
         Selected(model), UNCHANGED sector
  PROVE  GridInv'
  BY DEF GridInv, Selected

LEMMA ToggledStep ==
  ASSUME GridInv, NEW t \in GridRows, Selected([grid EXCEPT !.ids = Toggled(@, t)]),
         UNCHANGED sector
  PROVE  GridInv'
<1>1. t \in sector /\ grid.ids \in Seq(sector)
  BY DEF GridRows, GridInv
<1>2. Toggled(grid.ids, t) \in Seq(sector)
  BY <1>1, ToggledTyped
<1>3. [grid EXCEPT !.ids = Toggled(@, t)] \in [type : {"include", "exclude"}, ids : Seq(sector)]
  BY <1>2 DEF GridInv
<1>4. QED BY <1>3, SelectedStep

LEMMA GridStep ==
  ASSUME GridInv, DialogInv, Grid
  PROVE  GridInv' /\ DialogInv'
<1>1. ASSUME NEW t \in Stocks, ToggleRow(t) PROVE GridInv' /\ DialogInv'
  <2>1. GridInv'
    BY <1>1, ToggledStep DEF ToggleRow
  <2>2. ~Modal /\ UNCHANGED dialogs
    BY <1>1 DEF ToggleRow
  <2>3. QED BY <2>1, <2>2, ClosedStep
<1>2. CASE ToggleAll
  <2> DEFINE model == IF Checked \cap GridRows # {} THEN NoModel ELSE [type |-> "exclude", ids |-> <<>>]
  <2>1. Selected(model) /\ UNCHANGED sector /\ ~Modal /\ UNCHANGED dialogs
    BY <1>2 DEF ToggleAll
  <2>2. model \in [type : {"include", "exclude"}, ids : Seq(sector)]
    <3>1. <<>> \in Seq(sector)
      OBVIOUS
    <3>2. QED BY <3>1 DEF NoModel
  <2> HIDE DEF model
  <2>3. QED BY <2>1, <2>2, SelectedStep, ClosedStep
<1>3. ASSUME NEW q \in Searches, SetSector(Stocks \cap q) PROVE GridInv' /\ DialogInv'
  <2> DEFINE s == Stocks \cap q
             rows == Rows(cache, ScreenerOf(route)) \cap s
  <2>1. sector' = s /\ Rechecked(rows) /\ ~Modal /\ UNCHANGED dialogs
    BY <1>3 DEF SetSector
  <2>2. s \subseteq Stocks /\ Seq(sector \cap rows) \subseteq Seq(s)
    OBVIOUS
  <2> HIDE DEF s, rows
  <2>3. grid' \in [type : {"include", "exclude"}, ids : Seq(sector \cap rows)]
    BY <2>1, RecheckedStep
  <2>4. GridInv'
    BY <2>1, <2>2, <2>3 DEF GridInv
  <2>5. QED BY <2>1, <2>4, ClosedStep
<1>4. ASSUME NEW n \in 0 .. 3, SetTab(n) PROVE GridInv' /\ DialogInv'
  <2>1. GridInv'
    BY <1>4 DEF SetTab, GridInv
  <2>2. ~Modal /\ UNCHANGED dialogs
    BY <1>4 DEF SetTab
  <2>3. QED BY <2>1, <2>2, ClosedStep
<1>5. QED BY <1>1, <1>2, <1>3, <1>4 DEF Grid

LEMMA OpeningStep ==
  ASSUME GridInv, DialogInv, Dialog
  PROVE  GridInv' /\ DialogInv'
<1>1. CASE OpenCompare
  <2>1. GridInv' /\ selection' = selection
    BY <1>1, GridKept DEF OpenCompare, DialogFrame
  <2>2. /\ compareOpen' = TRUE /\ analysisTicker' = NoTicker /\ analyze' = analyze
        /\ route' = "satellite" /\ portfolioId' = portfolioId
    BY <1>1 DEF OpenCompare, DialogFrame, Modal
  <2>3. IF portfolioId # NoId THEN compare' = Ask(Compare(selection, portfolioId))
        ELSE compare' = compare
    BY <1>1 DEF OpenCompare, CompareOnOpen
  <2>4. QED BY <2>1, <2>2, <2>3 DEF DialogInv, Modal, Ask, Compare
<1>2. ASSUME NEW t \in Stocks, OpenAnalysis(t) PROVE GridInv' /\ DialogInv'
  <2>1. GridInv'
    <3>1. UNCHANGED sector /\ t \in GridRows
      BY <1>2 DEF OpenAnalysis
    <3>2. CASE Selected([grid EXCEPT !.ids = Toggled(@, t)])
      BY <3>1, <3>2, ToggledStep
    <3>3. CASE UNCHANGED grid
      BY <3>1, <3>3 DEF GridInv
    <3>4. QED BY <1>2, <3>2, <3>3 DEF OpenAnalysis
  <2>2. /\ ~compareOpen' /\ compareOpen' = compareOpen /\ analysisTicker' = t /\ compare' = compare
        /\ route' = "satellite" /\ portfolioId' = portfolioId
    BY <1>2 DEF OpenAnalysis, Modal
  <2>3. IF portfolioId # NoId THEN analyze' = Ask(AnalyzeStock(t, portfolioId))
        ELSE analyze' = analyze
    BY <1>2 DEF OpenAnalysis, AnalyzeOnOpen
  <2>4. QED BY <2>1, <2>2, <2>3 DEF DialogInv, Modal, Ask, AnalyzeStock
<1>3. CASE RetryCompare
  <2>1. GridInv' /\ selection' = selection
    BY <1>3, GridKept DEF RetryCompare, DialogFrame
  <2>2. QED BY <1>3, <2>1 DEF RetryCompare, DialogFrame, DialogInv, Modal, Ask, Compare
<1>4. CASE RetryAnalysis
  <2>1. GridInv' /\ selection' = selection
    BY <1>4, GridKept DEF RetryAnalysis, DialogFrame
  <2>2. QED BY <1>4, <2>1 DEF RetryAnalysis, DialogFrame, DialogInv, Modal, Ask, AnalyzeStock
<1>5. CASE Close
  <2>1. GridInv' /\ selection' = selection
    BY <1>5, GridKept DEF Close, DialogFrame
  <2>2. QED BY <1>5, <2>1 DEF Close, DialogInv, Modal
<1>6. CASE CompareAnswered
  <2>1. GridInv' /\ selection' = selection
    BY <1>6, GridKept DEF CompareAnswered, DialogFrame
  <2>2. PICK o : compare' = [compare EXCEPT !.at = o]
    BY <1>6 DEF CompareAnswered
  <2>3. compare' = [at |-> o, body |-> compare.body]
    BY <2>2 DEF DialogInv
  <2>4. QED BY <1>6, <2>1, <2>3 DEF CompareAnswered, DialogFrame, DialogInv, Modal
<1>7. CASE AnalysisAnswered
  <2>1. GridInv' /\ selection' = selection
    BY <1>7, GridKept DEF AnalysisAnswered, DialogFrame
  <2>2. PICK o : analyze' = [analyze EXCEPT !.at = o]
    BY <1>7 DEF AnalysisAnswered
  <2>3. analyze' = [at |-> o, body |-> analyze.body]
    BY <2>2 DEF DialogInv
  <2>4. QED BY <1>7, <2>1, <2>3 DEF AnalysisAnswered, DialogFrame, DialogInv, Modal
<1>8. CASE AskLost
  <2>1. GridInv' /\ selection' = selection
    BY <1>8, GridKept DEF AskLost
  <2>2. /\ compare' = [at |-> compare'.at, body |-> compare.body]
        /\ analyze' = [at |-> analyze'.at, body |-> analyze.body]
    <3>1. compare' \in {compare, [compare EXCEPT !.at = "lost"]}
          /\ analyze' \in {analyze, [analyze EXCEPT !.at = "lost"]}
      BY <1>8 DEF AskLost
    <3>2. QED BY <3>1 DEF DialogInv
  <2>3. QED BY <1>8, <2>1, <2>2 DEF AskLost, DialogInv, Modal
<1>9. QED BY <1>1, <1>2, <1>3, <1>4, <1>5, <1>6, <1>7, <1>8 DEF Dialog

\* New rows of the screener are all of the stocks, or none.
LEMMA LandedStep ==
  ASSUME GridInv, DialogInv, NEW k, NEW c, Landed(k, c)
  PROVE  GridInv' /\ DialogInv'
<1>1. UNCHANGED <<dialogs, route, portfolioId>>
  BY DEF Landed
<1>2. CASE UNCHANGED gridVars
  BY <1>1, <1>2, GridKept, ShownStep
<1>3. CASE Taken(c) /\ route = "satellite"
  <2> DEFINE rows == Rows(c, ScreenerOf(route)) \cap sector
  <2>1. Rechecked(rows) /\ sector' = sector
    BY <1>3 DEF Taken
  <2>2. sector \subseteq rows \/ rows = {}
    BY DEF Rows, GridInv
  <2>3. Seq(sector \cap rows) \subseteq Seq(sector)
    OBVIOUS
  <2> HIDE DEF rows
  <2>4. /\ grid' \in [type : {"include", "exclude"}, ids : Seq(sector \cap rows)]
        /\ selection' = selection \/ selection' = <<>>
    BY <2>1, <2>2, RecheckedStep
  <2>5. GridInv'
    BY <2>1, <2>3, <2>4 DEF GridInv
  <2>6. QED BY <1>1, <2>4, <2>5, ShownStep
<1>4. QED BY <1>2, <1>3 DEF Landed, Taken

LEMMA DialogStep ==
  ASSUME GridInv, DialogInv, [Next]_vars
  PROVE  GridInv' /\ DialogInv'
<1>1. CASE UNCHANGED <<dialogs, route, portfolioId, gridVars>>
  BY <1>1, GridKept, ShownStep
<1>2. CASE WizardPage \/ UNCHANGED vars
  BY <1>1, <1>2 DEF WizardPage, vars, pagesVars, view
<1>3. ASSUME NEW r \in Routes, Navigate(r) PROVE GridInv' /\ DialogInv'
  <2>1. GridInv'
    <3>1. <<>> \in Seq(Stocks)
      OBVIOUS
    <3>2. QED BY <1>3, <3>1 DEF Navigate, GridInv, NoModel
  <2>2. DialogInv'
    BY <1>3 DEF Navigate, DialogInv, Modal, NoAsk
  <2>3. QED BY <2>1, <2>2
<1>4. ASSUME NEW p, SetPortfolio(p) PROVE GridInv' /\ DialogInv'
  BY <1>4, GridKept, ClosedStep DEF SetPortfolio
<1>5. CASE Chart
  <2>1. ASSUME NEW t, PickSymbol(t) PROVE GridInv' /\ DialogInv'
    <3>1. GridInv'
      BY <2>1 DEF PickSymbol, GridInv
    <3>2. ~Modal /\ UNCHANGED dialogs
      BY <2>1 DEF PickSymbol, DialogInv
    <3>3. QED BY <3>1, <3>2, ClosedStep
  <2>2. ASSUME NEW f, ToggleCompare(f) PROVE UNCHANGED <<dialogs, route, portfolioId, gridVars>>
    BY <2>2 DEF ToggleCompare
  <2>3. QED BY <1>1, <1>5, <2>1, <2>2
        DEF Chart, SetRange, SetInterval, SetPeriod, PickFund, ChartFrame
<1>6. CASE Grid
  BY <1>6, GridStep
<1>7. CASE Dialog
  BY <1>7, OpeningStep
<1>8. CASE Network
  <2>1. ASSUME NEW k, Arrive(k) PROVE GridInv' /\ DialogInv'
    BY <2>1, LandedStep DEF Arrive
  <2>2. QED BY <1>1, <1>8, <2>1 DEF Network, Reconnect, Lose, Collect, view
<1>9. QED BY <1>2, <1>3, <1>4, <1>5, <1>6, <1>7, <1>8 DEF Next, Frame

-----------------------------------------------------------------------------
\* The wizard.

\* A step backwards or to a grid that takes rows back asks for no stock.
LEMMA WalkStep ==
  ASSUME StepInv, WizardNext
  PROVE  StepInv'
<1>1. CASE SetMode
  BY <1>1 DEF SetMode, StepInv, choices, answers
<1>2. CASE EditBasics
  BY <1>2 DEF EditBasics, On, Basics, StepInv, answers
<1>3. CASE MoveSlider
  BY <1>3, PercentAssumption DEF MoveSlider, StepInv, answers
<1>4. CASE FilterFunds \/ TurnPage
  BY <1>4 DEF FilterFunds, TurnPage, StepInv, choices, answers
<1>5. CASE ToggleCoreFund
  <2>1. PICK f : coreFunds' = IF f \in coreFunds THEN coreFunds \ {f} ELSE coreFunds \cup {f}
    BY <1>5 DEF ToggleCoreFund
  <2>2. IsFiniteSet(coreFunds')
    <3>1. IsFiniteSet(coreFunds)
      BY DEF StepInv
    <3>2. QED BY <2>1, <3>1, FS_AddElement, FS_RemoveElement
  <2>3. QED BY <1>5, <2>2 DEF ToggleCoreFund, On, StepInv, answers
<1>6. CASE SearchStocks
  <2>1. satellites' \subseteq satellites
    BY <1>6 DEF SearchStocks
  <2>2. IsFiniteSet(satellites')
    BY <2>1, FS_Subset DEF StepInv
  <2>3. QED BY <1>6, <2>2 DEF SearchStocks, On, StepInv, answers
<1>7. CASE SelectRows
  <2>1. satellites' \subseteq Stocks
    BY <1>7 DEF SelectRows, SatRows, StepInv
  <2>2. IsFiniteSet(satellites')
    <3>1. IsFiniteSet(Funds \cup Stocks) /\ satellites' \subseteq Funds \cup Stocks
      BY <2>1, TickerAssumption
    <3>2. QED BY <3>1, FS_Subset
  <2>3. QED BY <1>7, <2>2 DEF SelectRows, On, StepInv, answers
<1>8. CASE AdjustPercent
  <2>1. PICK t \in Picks, p \in Percents :
          percents' = [u \in DOMAIN percents \cup {t} |-> IF u = t THEN p ELSE percents[u]]
    BY <1>8 DEF AdjustPercent
  <2>2. \A u \in DOMAIN percents' : percents'[u] \in Int
    BY <2>1, PercentAssumption DEF StepInv
  <2>3. QED BY <1>8, <2>2 DEF AdjustPercent, StepInv, answers
<1>9. CASE Back
  <2>1. satellites' \subseteq satellites
    BY <1>9 DEF Back, GridShown
  <2>2. IsFiniteSet(satellites')
    BY <2>1, FS_Subset DEF StepInv
  <2>3. step \in 1 .. 3 /\ step' = step - 1
    BY <1>9 DEF Back, On
  <2>4. QED BY <1>9, <2>2, <2>3 DEF Back, StepInv, answers
<1>10. CASE NextStep
  <2>1. step \in 0 .. 2 /\ step' = step + 1 /\ StepValid
    BY <1>10 DEF NextStep, On
  <2>2. satellites' \subseteq satellites /\ (step = 2 => satellites' = satellites)
    BY <1>10, <2>1 DEF NextStep, GridShown
  <2>3. IsFiniteSet(satellites')
    BY <2>2, FS_Subset DEF StepInv
  <2>4. QED BY <1>10, <2>1, <2>2, <2>3 DEF NextStep, StepValid, StepInv, answers
<1>11. CASE FundsArrive
  BY <1>11 DEF FundsArrive, StepInv, choices
<1>12. CASE ScreenerArrives
  <2>1. satellites' \subseteq satellites /\ (step # 2 => satellites' = satellites)
        /\ stocks' \subseteq Stocks
    BY <1>12 DEF ScreenerArrives, On
  <2>2. IsFiniteSet(satellites')
    BY <2>1, FS_Subset DEF StepInv
  <2>3. QED BY <1>12, <2>1, <2>2 DEF ScreenerArrives, StepInv
<1>13. CASE Submit \/ Answer \/ AnswerLost
  BY <1>13 DEF Submit, Answer, AnswerLost, StepInv, choices, answers
<1>14. QED
  BY <1>1, <1>2, <1>3, <1>4, <1>5, <1>6, <1>7, <1>8, <1>9, <1>10, <1>11, <1>12, <1>13
  DEF WizardNext

\* Only its own steps, and leaving its page, change what the wizard keeps.
LEMMA OtherStep ==
  ASSUME [Next]_vars
  PROVE  WizardPage \/ (\E r : Navigate(r)) \/ UNCHANGED wizardVars
<1>1. ASSUME NEW p, SetPortfolio(p) PROVE UNCHANGED wizardVars
  BY <1>1 DEF SetPortfolio
<1>2. Chart => UNCHANGED wizardVars
  BY DEF Chart, SetRange, SetInterval, SetPeriod, PickSymbol, PickFund, ToggleCompare, ChartFrame
<1>3. Grid => UNCHANGED wizardVars
  BY DEF Grid, ToggleRow, ToggleAll, SetSector, SetTab
<1>4. Dialog => UNCHANGED wizardVars
  BY DEF Dialog, OpenCompare, OpenAnalysis, RetryCompare, RetryAnalysis, Close, CompareAnswered,
         AnalysisAnswered, AskLost, DialogFrame
<1>5. Network => UNCHANGED wizardVars
  BY DEF Network, Reconnect, Arrive, Landed, Lose, Collect
<1>6. UNCHANGED vars => UNCHANGED wizardVars
  BY DEF vars
<1>7. QED BY <1>1, <1>2, <1>3, <1>4, <1>5, <1>6 DEF Next, Frame

LEMMA StepStep ==
  ASSUME StepInv, [Next]_vars
  PROVE  StepInv'
<1>1. CASE UNCHANGED wizardVars
  BY <1>1 DEF wizardVars, StepInv, choices, answers
<1>2. CASE WizardPage
  BY <1>2, WalkStep DEF WizardPage
<1>3. ASSUME NEW r, Navigate(r) PROVE StepInv'
  <2>1. IsFiniteSet({})
    BY FS_EmptySet
  <2>2. QED BY <1>3, <2>1 DEF Navigate, WizardGone, Basics, StepInv
<1>4. QED BY <1>1, <1>2, <1>3, OtherStep

-----------------------------------------------------------------------------
\* What the wizard submits.

LEMMA PositiveProduct == \A a, b \in Int : a > 0 /\ b > 0 => a * b > 0 /\ a * b \in Int
  OBVIOUS

LEMMA CountPositive ==
  ASSUME NEW S, IsFiniteSet(S)
  PROVE  Count(S) \in Int /\ Count(S) > 0
  BY FS_CardinalityType, FS_EmptySet DEF Count

\* A percentage is an integer, and positive unless a typed one is not.
LEMMA PercentSign ==
  ASSUME StepInv, NEW t
  PROVE  /\ Percent(t) \in Int
         /\ (t \in DOMAIN percents => percents[t] > 0) => Percent(t) > 0
<1>1. /\ Count(coreFunds) \in Int /\ Count(coreFunds) > 0
      /\ Count(satellites) \in Int /\ Count(satellites) > 0
  BY CountPositive DEF StepInv
<1>2. Scale \in Int /\ Scale > 0
  BY <1>1, PositiveProduct DEF Scale
<1>3. /\ coreWeight \in Int /\ coreWeight > 0
      /\ 100 - coreWeight \in Int /\ 100 - coreWeight > 0
  BY DEF StepInv
<1>4. CASE t \in DOMAIN percents
  <2>1. Percent(t) = percents[t] * Scale /\ percents[t] \in Int
    BY <1>4 DEF Percent, StepInv
  <2>2. QED BY <1>2, <1>4, <2>1, PositiveProduct
<1>5. CASE t \notin DOMAIN percents
  <2>1. Percent(t) \in {coreWeight * Count(satellites), (100 - coreWeight) * Count(coreFunds)}
    BY <1>5 DEF Percent
  <2>2. QED BY <1>1, <1>3, <1>5, <2>1, PositiveProduct
<1>6. QED BY <1>4, <1>5

\* The total is the library's sum of the percentages of the picks.
LEMMA TotalOfPicks ==
  ASSUME StepInv
  PROVE  \E f : /\ Summed([t \in Picks |-> Percent(t)], f)
                /\ TotalPercent = f[Picks]
<1> DEFINE w == [t \in Picks |-> Percent(t)]
           e(f, T) == IF T = {} THEN 0 ELSE Percent(First(T)) + f[T \ {First(T)}]
           k(f, T) == IF T = {} THEN 0 ELSE w[First(T)] + f[T \ {First(T)}]
           P(f) == f = [T \in SUBSET Picks |-> e(f, T)]
<1>1. TotalPercent = (CHOOSE f : P(f))[Picks]
  BY DEF TotalPercent, MapThenSumSet, MapThenFoldSet, First
<1>2. IsFiniteSet(Picks)
  BY FS_Union DEF StepInv, Picks
<1>3. DOMAIN w = Picks /\ \A t \in Picks : w[t] = Percent(t) /\ w[t] \in Int
  BY PercentSign
<1>4. \A f : \A T \in SUBSET Picks : e(f, T) = k(f, T)
  <2>1. \A T \in SUBSET Picks : T # {} => First(T) \in Picks
    BY DEF First
  <2> HIDE DEF w
  <2>2. QED BY <1>3, <2>1
<1>5. \A f : Summed(w, f) <=> f = [T \in SUBSET Picks |-> k(f, T)]
  <2> HIDE DEF w
  <2>1. QED BY <1>3 DEF Summed
<1> HIDE DEF e, k, w
<1>6. \A f : [T \in SUBSET Picks |-> e(f, T)] = [T \in SUBSET Picks |-> k(f, T)]
  BY <1>4
<1>7. \A f : Summed(w, f) <=> P(f)
  <2> SUFFICES ASSUME NEW f PROVE Summed(w, f) <=> P(f)
    OBVIOUS
  <2>1. [T \in SUBSET Picks |-> e(f, T)] = [T \in SUBSET Picks |-> k(f, T)]
    BY <1>6
  <2>2. QED BY <1>5, <2>1
<1>8. \E f : Summed(w, f)
  BY <1>2, <1>3, SumExists
<1> HIDE DEF P
<1>9. P(CHOOSE f : P(f))
  BY <1>7, <1>8
<1>10. QED BY <1>1, <1>7, <1>9 DEF w

LEMMA OrderAccepted ==
  ASSUME StepInv, coreFunds # {}, basics = "complete",
         \A t \in DOMAIN percents \cap Picks : percents[t] > 0
  PROVE  Accepted(Order.body)
<1> DEFINE w == [t \in Picks |-> Percent(t)]
<1>1. PICK f : Summed(w, f) /\ TotalPercent = f[Picks]
  BY TotalOfPicks
<1>2. DOMAIN w = Picks /\ Picks # {} /\ IsFiniteSet(Picks)
  BY FS_Union DEF StepInv, Picks
<1>3. \A t \in Picks : w[t] \in Int /\ w[t] > 0
  BY PercentSign
<1>4. Order.body = [basics |-> basics, core |-> coreFunds, satellites |-> satellites,
                    weights |-> w, total |-> TotalPercent]
  BY DEF Order, CreatePortfolio
<1> HIDE DEF w
<1>5. \A t \in Picks : w[t] <= TotalPercent
  BY <1>1, <1>2, <1>3, SumOf
<1>6. QED BY <1>2, <1>3, <1>4, <1>5 DEF Accepted

\* A POST begins in Submit, at the last step.
LEMMA SubmitStep ==
  ASSUME StepInv, [Next]_vars, pending', ~pending
  PROVE  Submit
<1>1. CASE WizardPage
  <2>1. WizardNext
    BY <1>1 DEF WizardPage
  <2>2. QED
    BY <2>1
    DEF WizardNext, SetMode, EditBasics, MoveSlider, FilterFunds, TurnPage, ToggleCoreFund, SearchStocks,
        SelectRows, AdjustPercent, Back, NextStep, FundsArrive, ScreenerArrives, Answer, AnswerLost, request
<1>2. ASSUME NEW r, Navigate(r) PROVE FALSE
  BY <1>2 DEF Navigate, WizardGone
<1>3. CASE UNCHANGED wizardVars
  BY <1>3 DEF wizardVars, request
<1>4. QED BY <1>1, <1>2, <1>3, OtherStep

-----------------------------------------------------------------------------
LEMMA InvInit == Init => Inv
<1> SUFFICES ASSUME Init PROVE Inv
  OBVIOUS
<1>1. CacheInv /\ BodyInv
  BY DEF Init, CacheInv, BodyInv, Typed, NoQueries
<1>2. GridInv /\ DialogInv
  <2>1. <<>> \in Seq(Stocks)
    OBVIOUS
  <2>2. QED BY <2>1 DEF Init, GridInv, DialogInv, Modal, NoModel, NoAsk
<1>3. StepInv
  BY FS_EmptySet DEF Init, WizardInit, Basics, StepInv
<1>4. QED BY <1>1, <1>2, <1>3 DEF Inv

\* Whatever is navigated, picked, typed and answered, the invariant holds.
THEOREM Invariance == Spec => []Inv
<1>1. Inv /\ [Next]_vars => Inv'
  BY CacheStep, DialogStep, StepStep DEF Inv
<1>2. QED BY <1>1, InvInit, PTL DEF Spec

\* ShownIsAsked: every figure on a page answers the request its title stands
\* for, whatever was under way when ticker, range or portfolio changed (the keys
\* of the generated client).
THEOREM ShownAnswersTheRequest == Spec => []ShownIsAsked
<1>1. Inv => ShownIsAsked
  <2> SUFFICES ASSUME Inv, NEW q \in Queries, Read(q).status = "ok"
               PROVE  Read(q).value = q.request
    BY DEF ShownIsAsked
  <2>1. Typed(cache)
    BY DEF Inv, CacheInv
  <2>2. q.enabled /\ Read(q) = Entry(cache, q.key).data
    BY DEF Read, None
  <2>3. Read(q) \in Answers(q.key)
    BY <2>1, <2>2, EntryTyped DEF Entries
  <2>4. Read(q) = Ok(RequestOf(q.key))
    BY <2>3 DEF Answers, None, Bad
  <2>5. QED BY <2>4, ObservedSpelled DEF Spelled, Ok
<1>2. QED BY <1>1, Invariance, PTL

\* WhatIfOfSelected: the what-if inputs of the dashboard started from the summary
\* of the portfolio that is selected, whatever answer was under way when it was
\* switched (DashboardBody's key, the keys of the generated client).
THEOREM WhatIfFollowsPortfolio == Spec => []WhatIfOfSelected
<1>1. Inv => WhatIfOfSelected
  BY DEF Inv, BodyInv, WhatIfOfSelected
<1>2. QED BY <1>1, Invariance, PTL

\* DialogMatches: a comparison or an analysis that is shown is the one of the
\* tickers in the dialog's title, answers of an earlier opening and rows that
\* leave the grid notwithstanding (the dialogs' effects on open).
THEOREM DialogsMatch == Spec => []DialogMatches
<1>1. Inv => DialogMatches
  BY DEF Inv, DialogInv, DialogMatches
<1>2. QED BY <1>1, Invariance, PTL

\* SubmissionSound: what is submitted after any walk through the steps has a
\* fund, a stock and complete basics, and the server accepts it unless the
\* contribution is negative or a typed percentage is not positive (stepValid,
\* submit).
THEOREM SubmissionsAreSound == Spec => SubmissionSound
<1>1. ASSUME StepInv, [Next]_vars, pending', ~pending
      PROVE  /\ Order.body.core # {} /\ Order.body.satellites # {} /\ basics # "incomplete"
             /\ (basics # "negative" /\ \A t \in DOMAIN percents \cap Picks : percents[t] > 0)
                => Accepted(Order.body)
  <2>1. step = 3
    BY <1>1, SubmitStep DEF Submit, On
  <2>2. coreFunds # {} /\ satellites # {} /\ basics # "incomplete"
    BY <1>1, <2>1 DEF StepInv
  <2>3. Order.body.core = coreFunds /\ Order.body.satellites = satellites
    BY DEF Order, CreatePortfolio
  <2>4. basics \in Basics
    BY <1>1 DEF StepInv
  <2>5. QED BY <1>1, <2>2, <2>3, <2>4, OrderAccepted DEF Basics
<1>2. Inv /\ [Next]_vars =>
        [ pending' /\ ~pending =>
            /\ Order.body.core # {} /\ Order.body.satellites # {} /\ basics # "incomplete"
            /\ (basics # "negative" /\ \A t \in DOMAIN percents \cap Picks : percents[t] > 0)
               => Accepted(Order.body) ]_wizardVars
  BY <1>1 DEF Inv
<1>3. QED BY <1>2, Invariance, PTL DEF Spec, SubmissionSound

=============================================================================
