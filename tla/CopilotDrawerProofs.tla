------------------------- MODULE CopilotDrawerProofs -------------------------
(***************************************************************************)
(* Proofs about CopilotDrawer for any number of portfolios, questions,     *)
(* clears and faults.                                                      *)
(*                                                                         *)
(* An entry may be behind the server while a question is read, a clear is  *)
(* unconfirmed, or nobody looks at it; each of them ends in a fetch that   *)
(* is only asked, or in a record that the entry is outdated.  So what the  *)
(* open drawer observes without such an excuse is current, or will be by   *)
(* the answer that is under way.                                           *)
(*                                                                         *)
(* That no event is lost or torn is said of the whole stream at every      *)
(* moment: what is handled, what the reader holds and what is in transit,  *)
(* read as one, is what the server wrote.  What is not handled is whole    *)
(* events, so a stream that ends has none left, its outcome included.      *)
(* While the input is locked, the place of the question tells who has to   *)
(* move next.                                                              *)
(***************************************************************************)
EXTENDS CopilotDrawer, Induction

Conversations == Seq([question : Questions, role : {"user", "assistant"}])
Answers == [status : {"none", "ok", "bad"}, value : Conversations \cup {NoValue}]
Fetches == [at : {"idle", "asked", "answered"}, tries : Nat, answer : Answers]
Entries == [data : Answers, fetch : Fetches]

Deletes ==
  [request : {ClearChat(p) : p \in Portfolios}, at : {"sent", "cleared"},
   told : Portfolios \cup {NoId}]

TypeInv ==
  /\ portfolioId \in Portfolios \cup {NoId}
  /\ history \in [Portfolios -> Conversations]
  /\ \A p \in Portfolios : Entry(cache, Key(p)) \in Entries
  /\ clear \in [Clears -> Deletes \cup {NoClear}]
  /\ clears \in Nat /\ \A n \in Clears : n > clears => clear[n] = NoClear

\* A question under way, the bubble that shows it and its run.
Chats ==
  [question : Questions, portfolio : Portfolios, at : {"posted", "reading", "refreshing"}]
Runs ==
  [question : Questions, portfolio : Portfolios, at : {"asked", "running", "done", "gone"}]

ChatInv ==
  /\ run \in [Questions -> Runs \cup {NoChat}]
  /\ chat \in Chats \cup {NoChat}
  /\ ~sending => chat = NoChat
  /\ pendingUser = [question |-> chat.question, portfolio |-> chat.portfolio]
  /\ chat # NoChat => run[chat.question].portfolio = chat.portfolio
  /\ chat.at = "posted" => run[chat.question].at = "asked" /\ handled = <<>>
  /\ chat.at = "reading" => run[chat.question].at \in {"running", "done"}

\* Why the entry of a portfolio may be behind its history.
Excused(p) ==
  \/ p \in outdated
  \/ chat.at = "reading" /\ chat.portfolio = p
  \/ \E n \in Clears : clear[n].at = "cleared" /\ ClearedId(n) = p

\* What an entry shows, or is about to show, is the conversation stored.
Fresh(e, stored) ==
  /\ e.fetch.at = "idle" /\ e.data.status = "ok" => e.data.value = stored
  /\ e.fetch.at = "answered" /\ e.fetch.answer.status = "ok" => e.fetch.answer.value = stored

CurrentInv ==
  \A p \in Portfolios :
    open /\ portfolioId = p /\ ~Excused(p) => Fresh(Entry(cache, Key(p)), history[p])

\* The answer that is about to end the wait of send() holds the question.
HoldsQuestion(e, stored) ==
  e.fetch.at = "answered" /\ e.fetch.answer.status = "ok"
    /\ Message(chat.question, "user") \in ToSet(stored)
      => Message(chat.question, "user") \in ToSet(e.fetch.answer.value)

QuestionInv ==
  \A p \in Portfolios :
    Waits(p) /\ p \notin outdated => HoldsQuestion(Entry(cache, Key(p)), history[p])

\* While send() waits for a refetch, it is one of the selected portfolio, in
\* flight.
WaitInv ==
  /\ sending => chat # NoChat
  /\ chat.at = "refreshing" => chat.portfolio = portfolioId /\ InFlight(cache, Key(portfolioId))

\* The stream of a question: what is not handled yet is the text of the events
\* that are written and not handled.
Events == ProgressEvents \cup {"answer", "error"}
Chars == [line : {"end", "event", "data"}, of : Events \cup {""}]
Texts(events) == FlattenSeq([i \in DOMAIN events |-> Text(events[i])])

StreamInv ==
  /\ chat.at = "posted" => \A s \in {handled, written, buffer, wire} : s = <<>>
  /\ chat.at = "reading" =>
       /\ handled \in Seq(Events) /\ written \in Seq(Events)
       /\ buffer \in Seq(Chars) /\ wire \in Seq(Chars)
       /\ Texts(handled) \o (buffer \o wire) = Texts(written)
       /\ \E rest \in Seq(Events) : buffer \o wire = Texts(rest) /\ written = handled \o rest

\* A run that is done wrote its outcome, and an error that is handled shows.
Outcomes == {"answer", "error"}
OutcomeInv ==
  chat.at = "reading" =>
    /\ run[chat.question].at = "done" => ToSet(written) \cap Outcomes # {}
    /\ "error" \in ToSet(handled) => error = "agent"

Inv ==
  TypeInv /\ ChatInv /\ CurrentInv /\ QuestionInv /\ WaitInv /\ StreamInv /\ OutcomeInv

-----------------------------------------------------------------------------
\* The cache.

LEMMA KeysDiffer ==
  ASSUME NEW p, NEW q, Key(p) = Key(q)
  PROVE  p = q
<1>1. Key(p)[1][2] = p /\ Key(q)[1][2] = q
  BY DEF Key, ChatQuery, Query, ChatKey
<1>2. QED BY <1>1

LEMMA KeyMatches ==
  ASSUME NEW p, NEW q
  PROVE  Matches(Key(p), Key(q)) <=> p = q
<1>1. /\ Len(Key(p)) = 1 /\ Len(Key(q)) = 1
      /\ Key(p) \in Seq({Key(p)[1]}) /\ Key(q) \in Seq({Key(q)[1]})
  BY DEF Key, ChatQuery, Query, ChatKey
<1>2. SubSeq(Key(q), 1, Len(Key(q))) = Key(q)
  BY <1>1, SubSeqFull
<1>3. QED BY <1>1, <1>2, KeysDiffer DEF Matches

\* An entry that is put is the one that is found, and the others stay.
LEMMA PutEntry ==
  ASSUME NEW c, NEW k, NEW e
  PROVE  /\ Entry(Put(c, k, e), k) = e
         /\ \A j : j # k => Entry(Put(c, k, e), j) = Entry(c, j)
  BY DEF Entry, Put

LEMMA FetchEntry ==
  ASSUME NEW c, NEW k, NEW f
  PROVE  /\ Entry(Fetch(c, k, f), k) = [Entry(c, k) EXCEPT !.fetch = f]
         /\ \A j : j # k => Entry(Fetch(c, k, f), j) = Entry(c, j)
  BY PutEntry DEF Fetch

LEMMA SmallFetches ==
  /\ EmptyEntry \in Entries /\ EmptyEntry.fetch.at = "idle" /\ EmptyEntry.data.status = "none"
  /\ Idle \in Fetches /\ Idle.at = "idle"
  /\ \A n \in Nat : Asked(n) \in Fetches /\ Asked(n).at = "asked"
  BY DEF EmptyEntry, Entries, Fetches, Answers, None, Idle, Asked

\* A fetch in flight is in the cache.
LEMMA FlyingEntry ==
  ASSUME NEW c, NEW k, Entry(c, k).fetch.at # "idle"
  PROVE  k \in DOMAIN c /\ c[k] = Entry(c, k)
  BY SmallFetches DEF Entry

\* An observer that comes, or a refresh, leaves a fetch in flight.
LEMMA AskingEntry ==
  ASSUME NEW c, NEW k, Entry(c, k) \in Entries, NEW d, d = Observe(c, k) \/ d = Refetch(c, k)
  PROVE  /\ Entry(d, k) \in Entries /\ Entry(d, k).fetch.at # "idle"
         /\ \A j : j # k => Entry(d, j) = Entry(c, j)
<1>1. CASE d = c /\ InFlight(c, k)
  BY <1>1 DEF InFlight
<1>2. CASE d = Fetch(c, k, Asked(0))
  <2>1. Entry(d, k) = [Entry(c, k) EXCEPT !.fetch = Asked(0)]
    BY <1>2, FetchEntry
  <2>2. QED BY <1>2, <2>1, FetchEntry, SmallFetches DEF Entries
<1>3. QED BY <1>1, <1>2 DEF Observe, Refetch

LEMMA LeaveEntry ==
  ASSUME NEW c, NEW k, Entry(c, k) \in Entries
  PROVE  /\ Entry(Leave(c, k), k) \in Entries
         /\ \A j : j # k => Entry(Leave(c, k), j) = Entry(c, j)
  BY FetchEntry, SmallFetches DEF Leave, Entries

\* A fold over one key, and over none.
LEMMA InvalidateOne ==
  ASSUME NEW c, NEW k, NEW prefix, NEW active, {j \in active : Matches(prefix, j)} = {k}
  PROVE  Invalidate(c, prefix, active) = Refetch(c, k)
<1> DEFINE D(s, h) == IF s = {} THEN c
                      ELSE Refetch(h[s \ {CHOOSE x \in s : TRUE}], CHOOSE x \in s : TRUE)
           g == [s \in SUBSET {k} |-> IF s = {} THEN c ELSE Refetch(c, k)]
<1>1. ASSUME NEW s \in SUBSET {k}
      PROVE  g[s] = D(s, g)
  <2>1. CASE s = {}
    BY <2>1
  <2>2. CASE s = {k}
    <3>1. (CHOOSE x \in s : TRUE) = k
      BY <2>2
    <3>2. s \ {k} = {} /\ {} \in SUBSET {k}
      BY <2>2
    <3>3. QED BY <2>2, <3>1, <3>2
  <2>3. QED BY <2>1, <2>2
<1>2. ASSUME NEW h, h = [s \in SUBSET {k} |-> D(s, h)]
      PROVE  h[{k}] = Refetch(c, k)
  <2>1. h[{}] = c
    BY <1>2
  <2>2. (CHOOSE x \in {k} : TRUE) = k
    OBVIOUS
  <2>3. {k} \ {k} = {} /\ {k} # {}
    OBVIOUS
  <2>4. QED BY <1>2, <2>1, <2>2, <2>3
<1>3. g = [s \in SUBSET {k} |-> D(s, g)]
  BY <1>1
<1> HIDE DEF g
<1>4. Invalidate(c, prefix, active)
        = LET iter == CHOOSE h : h = [s \in SUBSET {k} |-> D(s, h)]
          IN  iter[{k}]
  BY DEF Invalidate, FoldSet, MapThenFoldSet
<1>5. QED BY <1>2, <1>3, <1>4

LEMMA InvalidateNone ==
  ASSUME NEW c, NEW prefix, NEW active, {j \in active : Matches(prefix, j)} = {}
  PROVE  Invalidate(c, prefix, active) = c
<1> DEFINE D(s, h) == IF s = {} THEN c
                      ELSE Refetch(h[s \ {CHOOSE x \in s : TRUE}], CHOOSE x \in s : TRUE)
           g == [s \in SUBSET {} |-> c]
<1>1. g = [s \in SUBSET {} |-> D(s, g)]
  OBVIOUS
<1> HIDE DEF g
<1>2. ASSUME NEW h, h = [s \in SUBSET {} |-> D(s, h)]
      PROVE  h[{}] = c
  BY <1>2
<1>3. Invalidate(c, prefix, active)
        = LET iter == CHOOSE h : h = [s \in SUBSET {} |-> D(s, h)]
          IN  iter[{}]
  BY DEF Invalidate, FoldSet, MapThenFoldSet
<1>4. QED BY <1>1, <1>2, <1>3

LEMMA HistoryFields ==
  /\ HistoryQuery.enabled <=> (open /\ portfolioId # NoId)
  /\ HistoryQuery.key = Key(portfolioId)
<1> DEFINE q == ChatQuery(portfolioId)
<1>1. /\ q = [request |-> q.request, key |-> q.key, enabled |-> q.enabled]
      /\ q.key = Key(portfolioId)
  BY DEF ChatQuery, Query, Key
<1>2. HistoryQuery = [q EXCEPT !.enabled = (open /\ portfolioId # NoId)]
  BY DEF HistoryQuery, With
<1> HIDE DEF q
<1>3. QED BY <1>1, <1>2

\* A refresh of one portfolio reaches the observed entry, if it is that one's.
LEMMA InvalidateActive ==
  ASSUME NEW p
  PROVE  Invalidate(cache, Key(p), Active)
           = IF Key(p) \in Active THEN Refetch(cache, Key(p)) ELSE cache
<1>1. {k \in Active : Matches(Key(p), k)} = IF Key(p) \in Active THEN {Key(p)} ELSE {}
  <2>1. \A k \in Active : k = Key(portfolioId)
    BY HistoryFields DEF Active
  <2>2. \A k \in Active : Matches(Key(p), k) <=> k = Key(p)
    BY <2>1, KeyMatches, KeysDiffer
  <2>3. QED BY <2>2
<1>2. QED BY <1>1, InvalidateOne, InvalidateNone

LEMMA ActiveKey ==
  ASSUME NEW p \in Portfolios
  PROVE  Key(p) \in Active <=> open /\ portfolioId = p
  BY HistoryFields, KeysDiffer, PortfoliosAssumption DEF Active

-----------------------------------------------------------------------------
\* What the steps that touch the cache do to it.

\* The entry of one portfolio changes, and is typed.
OnlyEntry(p) ==
  /\ Entry(cache', Key(p)) \in Entries
  /\ \A q \in Portfolios \ {p} : Entry(cache', Key(q)) = Entry(cache, Key(q))

\* What is asked anew is not outdated; what joins an answered fetch is.
Follows(p) ==
  /\ InFlight(cache', Key(p))
  /\ Entry(cache', Key(p)).fetch.at = "asked" \/ p \in outdated'
  /\ \A q \in Portfolios \ {p} : q \in outdated' <=> q \in outdated

LEMMA RefreshesFollows ==
  ASSUME NEW p \in Portfolios, Entry(cache', Key(p)) \in Entries,
         Entry(cache', Key(p)).fetch.at # "idle", outdated' = Refreshes(cache', p)
  PROVE  Follows(p)
<1>1. cache'[Key(p)] = Entry(cache', Key(p))
  BY FlyingEntry
<1>2. Entry(cache', Key(p)).fetch.at \in {"asked", "answered"}
  BY DEF Entries, Fetches
<1>3. QED BY <1>1, <1>2 DEF Refreshes, Follows, InFlight

LEMMA RefreshStep ==
  ASSUME TypeInv, NEW p \in Portfolios, outdated' = Refreshes(cache', p),
         cache' = Observe(cache, Key(p)) \/ cache' = Refetch(cache, Key(p))
  PROVE  OnlyEntry(p) /\ Follows(p)
<1>1. Entry(cache, Key(p)) \in Entries
  BY DEF TypeInv
<1>2. /\ Entry(cache', Key(p)) \in Entries /\ Entry(cache', Key(p)).fetch.at # "idle"
      /\ \A j : j # Key(p) => Entry(cache', j) = Entry(cache, j)
  BY <1>1, AskingEntry
<1>3. QED BY <1>2, KeysDiffer, RefreshesFollows DEF OnlyEntry

LEMMA TurnStep ==
  ASSUME TypeInv, NEW p \in Portfolios \cup {NoId}, p # portfolioId, Turn(p)
  PROVE  /\ \A q \in Portfolios : Entry(cache', Key(q)) \in Entries
         /\ \A q \in Portfolios \ {p, portfolioId} :
              Entry(cache', Key(q)) = Entry(cache, Key(q))
         /\ open /\ p # NoId => Follows(p)
         /\ ~(open /\ p # NoId) =>
              /\ outdated' = outdated
              /\ \A q \in Portfolios \ {portfolioId} :
                   Entry(cache', Key(q)) = Entry(cache, Key(q))
<1> DEFINE left == IF portfolioId = NoId THEN cache ELSE Leave(cache, Key(portfolioId))
<1>1. ASSUME NEW q \in Portfolios
      PROVE  /\ Entry(left, Key(q)) \in Entries
             /\ q # portfolioId => Entry(left, Key(q)) = Entry(cache, Key(q))
  <2>1. CASE portfolioId = NoId
    BY <2>1 DEF TypeInv
  <2>2. CASE portfolioId # NoId
    <3>1. left = Leave(cache, Key(portfolioId)) /\ Entry(cache, Key(portfolioId)) \in Entries
      BY <2>2 DEF TypeInv
    <3>2. q # portfolioId => Key(q) # Key(portfolioId)
      BY KeysDiffer
    <3>3. /\ Entry(left, Key(portfolioId)) \in Entries
          /\ \A j : j # Key(portfolioId) => Entry(left, j) = Entry(cache, j)
      BY <3>1, LeaveEntry
    <3>4. QED BY <3>2, <3>3 DEF TypeInv
  <2>3. QED BY <2>1, <2>2
<1>2. IF open /\ p # NoId
      THEN cache' = Observe(left, Key(p)) /\ outdated' = Refreshes(cache', p)
      ELSE cache' = left /\ UNCHANGED outdated
  BY DEF Turn
<1> HIDE DEF left
<1>3. CASE open /\ p # NoId
  <2>1. p \in Portfolios
    BY <1>3
  <2>2. cache' = Observe(left, Key(p)) /\ outdated' = Refreshes(cache', p)
    BY <1>2, <1>3
  <2>3. /\ Entry(cache', Key(p)) \in Entries /\ Entry(cache', Key(p)).fetch.at # "idle"
        /\ \A j : j # Key(p) => Entry(cache', j) = Entry(left, j)
    BY <1>1, <2>1, <2>2, AskingEntry
  <2>4. \A q \in Portfolios \ {p} : Entry(cache', Key(q)) = Entry(left, Key(q))
    BY <2>3, KeysDiffer
  <2>5. Follows(p)
    BY <2>1, <2>2, <2>3, RefreshesFollows
  <2>6. QED BY <1>1, <1>3, <2>3, <2>4, <2>5
<1>4. CASE ~(open /\ p # NoId)
  BY <1>1, <1>2, <1>4
<1>5. QED BY <1>3, <1>4

\* A fetch in flight is answered, taken over, or lost.
LEMMA ServeStep ==
  ASSUME TypeInv, NEW p \in Portfolios, Serve(p)
  PROVE  /\ OnlyEntry(p) /\ Entry(cache', Key(p)).fetch.at = "answered"
         /\ Entry(cache', Key(p)).fetch.answer.status = "ok"
              => Entry(cache', Key(p)).fetch.answer.value = history[p]
<1> DEFINE e == Entry(cache, Key(p))
<1>1. e \in Entries /\ e.fetch.at = "asked" /\ cache[Key(p)] = e
  BY FlyingEntry DEF TypeInv, Serve
<1>2. history[p] \in Conversations
  BY DEF TypeInv
<1>3. PICK a \in {Ok(history[p]), Bad} : cache' = Answered(cache, Key(p), a)
  BY DEF Serve
<1>4. a \in Answers /\ (a.status = "ok" => a.value = history[p])
  BY <1>2, <1>3 DEF Ok, Bad, Answers
<1> DEFINE f == [e.fetch EXCEPT !.at = "answered", !.answer = a]
<1>5. /\ Entry(cache', Key(p)) = [e EXCEPT !.fetch = f]
      /\ \A j : j # Key(p) => Entry(cache', j) = Entry(cache, j)
  BY <1>1, <1>3, FetchEntry DEF Answered
<1> HIDE DEF e
<1>6. f \in Fetches /\ f.at = "answered" /\ f.answer = a
  <2>1. e.fetch \in Fetches
    BY <1>1 DEF Entries
  <2> DEFINE g == [e.fetch EXCEPT !.at = "answered"]
  <2>2. g \in Fetches /\ g.at = "answered"
    BY <2>1 DEF Fetches
  <2>3. f = [g EXCEPT !.answer = a]
    OBVIOUS
  <2> HIDE DEF g, f
  <2>4. QED BY <1>4, <2>2, <2>3 DEF Fetches
<1> HIDE DEF f
<1>7. Entry(cache', Key(p)) \in Entries /\ Entry(cache', Key(p)).fetch = f
  BY <1>1, <1>5, <1>6 DEF Entries
<1>8. OnlyEntry(p)
  BY <1>5, <1>7, KeysDiffer DEF OnlyEntry
<1>9. QED BY <1>4, <1>6, <1>7, <1>8

LEMMA SettleStep ==
  ASSUME TypeInv, NEW p \in Portfolios, Settle(p)
  PROVE  /\ OnlyEntry(p)
         /\ Entry(cache', Key(p)).data = Entry(cache, Key(p)).fetch.answer
         /\ Entry(cache', Key(p)).fetch.at = "idle"
<1> DEFINE e == Entry(cache, Key(p))
<1>1. e \in Entries /\ e.fetch.at = "answered" /\ cache[Key(p)] = e
  BY FlyingEntry DEF TypeInv, Settle
<1>2. cache' = Put(cache, Key(p), [data |-> e.fetch.answer, fetch |-> Idle])
  BY <1>1 DEF Settle, Settled
<1> HIDE DEF e
<1>3. /\ Entry(cache', Key(p)) = [data |-> e.fetch.answer, fetch |-> Idle]
      /\ \A j : j # Key(p) => Entry(cache', j) = Entry(cache, j)
  BY <1>2, PutEntry
<1>4. QED BY <1>1, <1>3, SmallFetches, KeysDiffer DEF Entries, Fetches, OnlyEntry, e

LEMMA LoseStep ==
  ASSUME TypeInv, NEW p \in Portfolios, Lose(p)
  PROVE  /\ OnlyEntry(p)
         /\ \/ Entry(cache', Key(p)).fetch.at = "asked" /\ UNCHANGED <<outdated, Sending>>
            \/ outdated' = outdated \cup {p} /\ Released(p)
<1> DEFINE e == Entry(cache, Key(p))
<1>1. e \in Entries /\ cache[Key(p)] = e
  BY FlyingEntry DEF TypeInv, Lose, InFlight
<1>2. PICK f \in {Asked(e.fetch.tries + 1), Idle} : cache' = Fetch(cache, Key(p), f)
  BY <1>1 DEF Lose, Failed
<1> HIDE DEF e
<1>3. f \in Fetches /\ f.at \in {"asked", "idle"}
  BY <1>1, <1>2, SmallFetches DEF Entries, Fetches
<1>4. /\ Entry(cache', Key(p)) = [e EXCEPT !.fetch = f]
      /\ \A j : j # Key(p) => Entry(cache', j) = Entry(cache, j)
  BY <1>2, FetchEntry DEF e
<1>5. Entry(cache', Key(p)).fetch = f
  BY <1>1, <1>4 DEF Entries
<1>6. OnlyEntry(p)
  BY <1>1, <1>3, <1>4, KeysDiffer DEF Entries, OnlyEntry
<1>7. f.at = "idle" => outdated' = outdated \cup {p} /\ Released(p)
  BY <1>5 DEF Lose, InFlight
<1>8. f.at = "asked" => UNCHANGED <<outdated, Sending>>
  BY <1>5 DEF Lose, InFlight
<1>9. QED BY <1>3, <1>5, <1>6, <1>7, <1>8

LEMMA CollectStep ==
  ASSUME TypeInv, NEW p \in Portfolios, Collect(p)
  PROVE  OnlyEntry(p) /\ Entry(cache', Key(p)) = EmptyEntry
  BY PutEntry, SmallFetches, KeysDiffer DEF Collect, Collected, OnlyEntry

\* The refresh of send(), and that of a confirmed clear.
LEMMA EndOfStreamStep ==
  ASSUME TypeInv, ChatInv, EndOfStream
  PROVE  /\ chat.at = "reading" /\ chat.portfolio \in Portfolios
         /\ \/ /\ open /\ portfolioId = chat.portfolio
               /\ OnlyEntry(chat.portfolio) /\ Follows(chat.portfolio)
               /\ chat' = [chat EXCEPT !.at = "refreshing"]
               /\ UNCHANGED <<sending, phase, pendingUser, stream>>
            \/ /\ ~(open /\ portfolioId = chat.portfolio)
               /\ UNCHANGED <<cache, outdated>> /\ Finally
<1>1. chat.at = "reading" /\ chat.portfolio \in Portfolios
  BY DEF EndOfStream, StreamDone, ChatInv, Chats, NoChat
<1>2. Key(chat.portfolio) \in Active <=> open /\ portfolioId = chat.portfolio
  BY <1>1, ActiveKey
<1>3. cache' = IF Key(chat.portfolio) \in Active THEN Refetch(cache, Key(chat.portfolio)) ELSE cache
  BY <1>1, InvalidateActive DEF EndOfStream
<1>4. CASE Key(chat.portfolio) \in Active
  BY <1>1, <1>2, <1>3, <1>4, RefreshStep DEF EndOfStream
<1>5. CASE Key(chat.portfolio) \notin Active
  BY <1>1, <1>2, <1>3, <1>5 DEF EndOfStream
<1>6. QED BY <1>4, <1>5

LEMMA ClearedStep ==
  ASSUME TypeInv, NEW n \in Clears, Cleared(n)
  PROVE  \/ /\ open /\ portfolioId \in Portfolios
            /\ OnlyEntry(portfolioId) /\ Follows(portfolioId)
            /\ Released(portfolioId) \/ UNCHANGED Sending
         \/ /\ open /\ portfolioId \in Portfolios => outdated' = outdated \cup {ClearedId(n)}
            /\ outdated \subseteq outdated' /\ UNCHANGED <<cache, Sending>>
<1>1. CASE HistoryQuery.enabled /\ Told(n) = portfolioId
  <2>1. open /\ portfolioId \in Portfolios
    BY <1>1, HistoryFields DEF TypeInv
  <2>2. Key(portfolioId) \in Active
    BY <2>1, ActiveKey
  <2>3. cache' = Refetch(cache, Key(portfolioId)) /\ outdated' = Refreshes(cache', portfolioId)
    BY <1>1, <2>1, <2>2, InvalidateActive DEF Cleared
  <2>4. QED BY <1>1, <2>1, <2>3, RefreshStep DEF Cleared
<1>2. CASE ~(HistoryQuery.enabled /\ Told(n) = portfolioId)
  <2>1. open /\ portfolioId \in Portfolios => Told(n) # portfolioId
    BY <1>2, HistoryFields, PortfoliosAssumption
  <2>2. /\ outdated' = IF Told(n) = portfolioId THEN outdated ELSE outdated \cup {ClearedId(n)}
        /\ UNCHANGED <<cache, Sending>>
    BY <1>2 DEF Cleared
  <2>3. QED BY <2>1, <2>2
<1>3. QED BY <1>1, <1>2

-----------------------------------------------------------------------------
\* Types.

\* The entries of all portfolios, after a step that changes one.
LEMMA EntriesTyped ==
  ASSUME TypeInv, NEW p \in Portfolios, OnlyEntry(p)
  PROVE  \A q \in Portfolios : Entry(cache', Key(q)) \in Entries
  BY DEF TypeInv, OnlyEntry

LEMMA TypeFrame ==
  ASSUME TypeInv, UNCHANGED <<portfolioId, history, clear, clears>>,
         \A q \in Portfolios : Entry(cache', Key(q)) \in Entries
  PROVE  TypeInv'
  BY DEF TypeInv

LEMMA RunIsRun ==
  ASSUME ChatInv, NEW n \in Questions, run[n].at # "none"
  PROVE  run[n] \in Runs
  BY DEF ChatInv, NoChat

\* A DELETE goes to one of the portfolios.
LEMMA ClearIds ==
  ASSUME TypeInv, NEW n \in Clears, clear[n] # NoClear
  PROVE  clear[n] \in Deletes /\ ClearedId(n) \in Portfolios
<1>1. clear[n] \in Deletes
  BY DEF TypeInv
<1>2. PICK p \in Portfolios : clear[n].request = ClearChat(p)
  BY <1>1 DEF Deletes
<1>3. IdIn(ClearChat(p)) = p
  BY DEF IdIn, ClearChat
<1>4. QED BY <1>1, <1>2, <1>3 DEF ClearedId

\* A question or an answer is written to the history of the run's portfolio.
LEMMA HistoryWritten ==
  ASSUME TypeInv, ChatInv, NEW n \in Questions, Record(n) \/ Answer(n)
  PROVE  /\ run[n].portfolio \in Portfolios
         /\ \E log \in Conversations : history' = [history EXCEPT ![run[n].portfolio] = log]
<1> DEFINE p == run[n].portfolio
           S == [question : Questions, role : {"user", "assistant"}]
<1>1. p \in Portfolios
  BY RunIsRun DEF Runs, Record, Answer
<1>2. history[p] \in Seq(S) /\ history \in [Portfolios -> Conversations]
  BY <1>1 DEF TypeInv, Conversations
<1>3. ASSUME NEW role \in {"user", "assistant"}
      PROVE  Store(p)!Message(n, role) \in S
  BY DEF Store!Message
<1> HIDE DEF p, S
<1>4. CASE Record(n)
  <2>1. PICK log \in Store(p)!WithQuestion(history[p], n) : history' = [history EXCEPT ![p] = log]
    BY <1>4 DEF Record, p
  <2>2. PICK k \in 1 .. Len(history[p]) + 1 :
          log = InsertAt(history[p], k, Store(p)!Message(n, "user"))
    BY <2>1 DEF Store!WithQuestion, Store!Insert, Store!Places, InsertAt
  <2>3. log \in Seq(S)
    BY <1>2, <1>3, <2>2, InsertAtIs
  <2>4. QED BY <1>1, <2>1, <2>3 DEF Conversations, p, S
<1>5. CASE Answer(n)
  <2>1. PICK log \in Store(p)!WithAnswer(history[p], n) : history' = [history EXCEPT ![p] = log]
    BY <1>5 DEF Answer, p
  <2>2. PICK k \in Store(p)!Behind(history[p], n) :
          log = InsertAt(history[p], k, Store(p)!Message(n, "assistant"))
    BY <2>1 DEF Store!WithAnswer, Store!Insert, InsertAt
  <2>3. k \in 1 .. Len(history[p]) + 1
    BY <2>2 DEF Store!Behind, Store!Places
  <2>4. log \in Seq(S)
    BY <1>2, <1>3, <2>2, <2>3, InsertAtIs
  <2>5. QED BY <1>1, <2>1, <2>4 DEF Conversations, p, S
<1>6. QED BY <1>4, <1>5

LEMMA TypeInit == Init => TypeInv
<1> SUFFICES ASSUME Init PROVE TypeInv
  OBVIOUS
<1>1. \A k : Entry(NoQueries, k) = EmptyEntry
  BY DEF Entry, NoQueries
<1>2. <<>> \in Conversations
  BY DEF Conversations
<1>3. cache = NoQueries /\ history = [p \in Portfolios |-> <<>>]
  BY DEF Init
<1>4. (\A p \in Portfolios : Entry(cache, Key(p)) \in Entries) /\ history \in [Portfolios -> Conversations]
  BY <1>1, <1>2, <1>3, SmallFetches
<1>5. portfolioId = NoId /\ clear = [n \in Clears |-> NoClear] /\ clears = 0
  BY DEF Init
<1>6. QED BY <1>4, <1>5 DEF TypeInv

LEMMA TypeStep ==
  ASSUME TypeInv, ChatInv, [Next]_vars
  PROVE  TypeInv'
<1>1. CASE UNCHANGED <<portfolioId, history, clear, clears, cache>>
  BY <1>1, TypeFrame DEF TypeInv
<1>2. ASSUME NEW p \in Portfolios \cup {NoId}, p # portfolioId, Turn(p),
             UNCHANGED <<clear, clears, history>>
      PROVE  TypeInv'
  BY <1>2, TurnStep DEF TypeInv, Turn
<1>3. CASE OpenDrawer
  <2>1. CASE portfolioId = NoId
    BY <1>1, <1>3, <2>1 DEF OpenDrawer, server, bounds
  <2>2. CASE portfolioId # NoId
    <3>1. OnlyEntry(portfolioId)
      BY <1>3, <2>2, RefreshStep DEF OpenDrawer, TypeInv
    <3>2. QED BY <1>3, <2>2, <3>1, EntriesTyped, TypeFrame DEF OpenDrawer, TypeInv, server, bounds
  <2>3. QED BY <2>1, <2>2
<1>4. CASE EndOfStream
  BY <1>1, <1>4, EndOfStreamStep, EntriesTyped, TypeFrame DEF EndOfStream, nav, server, bounds
<1>5. ASSUME NEW n \in Questions, Record(n) \/ Answer(n)
      PROVE  TypeInv'
  <2>1. history' \in [Portfolios -> Conversations]
    BY <1>5, HistoryWritten DEF TypeInv
  <2>2. QED BY <1>5, <2>1 DEF Record, Answer, TypeInv, nav, bounds
<1>6. CASE Clear
  <2> DEFINE new == [request |-> ClearChat(portfolioId), at |-> "sent", told |-> NoId]
             over(n) == [clear[n] EXCEPT !.told = portfolioId]
  <2>1. portfolioId \in Portfolios
    BY <1>6 DEF Clear, CanClear, TypeInv
  <2>2. new \in Deletes
    BY <2>1 DEF Deletes
  <2>3. ASSUME NEW n \in Clears, clear[n] # NoClear
        PROVE  over(n) \in Deletes
    <3>1. clear[n] \in Deletes
      BY <2>3 DEF TypeInv
    <3>2. QED BY <2>1, <3>1 DEF Deletes
  <2>4. clear' = [n \in Clears |-> IF n = clears + 1 THEN new
                                   ELSE IF n = clears /\ clear[n] # NoClear THEN over(n) ELSE clear[n]]
    BY <1>6 DEF Clear
  <2> HIDE DEF new, over
  <2>5. clear' \in [Clears -> Deletes \cup {NoClear}]
    BY <2>2, <2>3, <2>4 DEF TypeInv
  <2>6. clears' = clears + 1 /\ clears \in Nat
    BY <1>6 DEF Clear, TypeInv
  <2>7. ASSUME NEW n \in Clears, n > clears' PROVE clear'[n] = NoClear
    <3>1. n # clears + 1 /\ n # clears /\ n > clears
      BY <2>6, <2>7 DEF Clears
    <3>2. QED BY <2>4, <3>1 DEF TypeInv
  <2>8. QED BY <1>6, <2>5, <2>6, <2>7 DEF Clear, TypeInv, nav, server
<1>7. ASSUME NEW n \in Clears, ServeClear(n)
      PROVE  TypeInv'
  <2>1. clear[n] \in Deletes /\ clear[n] # NoClear
    BY <1>7, ClearIds DEF ServeClear, NoClear
  <2>2. [clear[n] EXCEPT !.at = "cleared"] \in Deletes
    BY <2>1 DEF Deletes
  <2>3. clear' = [clear EXCEPT ![n] = [clear[n] EXCEPT !.at = "cleared"]]
    BY <1>7 DEF ServeClear, TypeInv
  <2>4. clear' \in [Clears -> Deletes \cup {NoClear}]
    BY <2>2, <2>3 DEF TypeInv
  <2>5. clears' = clears
    BY <1>7 DEF ServeClear, bounds
  <2>6. ASSUME NEW m \in Clears, m > clears' PROVE clear'[m] = NoClear
    <3>1. m # n
      BY <2>1, <2>5, <2>6 DEF TypeInv
    <3>2. QED BY <2>3, <2>5, <2>6, <3>1 DEF TypeInv
  <2>7. <<>> \in Conversations
    BY DEF Conversations
  <2>8. QED BY <1>7, <2>4, <2>5, <2>6, <2>7 DEF ServeClear, TypeInv, nav
<1>8. ASSUME NEW n \in Clears, clear' = [clear EXCEPT ![n] = NoClear],
             UNCHANGED <<portfolioId, history, clears>>,
             \A q \in Portfolios : Entry(cache', Key(q)) \in Entries
      PROVE  TypeInv'
  <2>1. /\ clear' \in [Clears -> Deletes \cup {NoClear}]
        /\ \A m \in Clears : m > clears => clear'[m] = NoClear
    BY <1>8 DEF TypeInv
  <2>2. QED BY <1>8, <2>1 DEF TypeInv
<1>9. ASSUME NEW n \in Clears, Cleared(n)
      PROVE  TypeInv'
  <2>1. \A q \in Portfolios : Entry(cache', Key(q)) \in Entries
    BY <1>9, ClearedStep, EntriesTyped DEF TypeInv
  <2>2. QED BY <1>8, <1>9, <2>1 DEF Cleared, nav, server, bounds
<1>10. ASSUME NEW n \in Clears, ClearLost(n)
       PROVE  TypeInv'
  BY <1>8, <1>10 DEF ClearLost, nav, server, TypeInv
<1>11. ASSUME NEW p \in Portfolios, Serve(p) \/ Settle(p) \/ Lose(p) \/ Collect(p)
       PROVE  TypeInv'
  <2>1. OnlyEntry(p)
    BY <1>11, ServeStep, SettleStep, LoseStep, CollectStep
  <2>2. QED
    BY <1>11, <2>1, EntriesTyped, TypeFrame DEF Serve, Settle, Lose, Collect, nav, server, bounds
<1>12. CASE CloseDrawer \/ Send \/ Receive \/ NextEvent \/ Timeout \/ ConnectionLost
  BY <1>1, <1>12
  DEF CloseDrawer, Send, Receive, NextEvent, Timeout, ConnectionLost, GiveUp, nav, server, bounds
<1>13. ASSUME NEW n \in Questions, Refuse(n) \/ Abandon(n) \/ Progress(n) \/ Fail(n)
       PROVE  TypeInv'
  BY <1>1, <1>13 DEF Refuse, Abandon, Progress, Fail, nav, server, bounds
<1>14. CASE UNCHANGED vars
  BY <1>1, <1>14 DEF vars, nav, server, bounds
<1>15. ASSUME NEW p \in Portfolios, SelectPortfolio(p)
       PROVE  TypeInv'
  BY <1>2, <1>15 DEF SelectPortfolio, server, bounds
<1>16. CASE HideSelected
  BY <1>2, <1>16 DEF HideSelected, server, bounds
<1>17. QED
  BY <1>3, <1>4, <1>5, <1>6, <1>7, <1>9, <1>10, <1>11, <1>12, <1>13, <1>14, <1>15, <1>16
  DEF Next, Frame, User, Sender, Clearing, Loss, Running, Fetching

-----------------------------------------------------------------------------
\* The question under way.

LEMMA ChatInit == Init => ChatInv
<1> SUFFICES ASSUME Init PROVE ChatInv
  OBVIOUS
<1>1. chat = NoChat /\ pendingUser = NoQuestion /\ run = [n \in Questions |-> NoChat]
  BY DEF Init
<1>2. QED BY <1>1 DEF ChatInv, NoChat, NoQuestion

LEMMA ChatFrame ==
  ASSUME ChatInv, run' = run, UNCHANGED Sending \/ Finally
  PROVE  ChatInv'
<1>1. CASE UNCHANGED Sending
  BY <1>1 DEF ChatInv, Sending, stream
<1>2. CASE Finally
  BY <1>2 DEF ChatInv, Finally, NoChat, NoQuestion
<1>3. QED BY <1>1, <1>2

\* A run goes to another place.
LEMMA GoesTyped ==
  ASSUME ChatInv, NEW n \in Questions, run[n].at # "none",
         NEW to \in {"asked", "running", "done", "gone"}, Goes(n, to)
  PROVE  /\ run' \in [Questions -> Runs \cup {NoChat}]
         /\ run'[n].at = to /\ run'[n].portfolio = run[n].portfolio
         /\ \A m \in Questions \ {n} : run'[m] = run[m]
<1>1. run[n] \in Runs /\ run \in [Questions -> Runs \cup {NoChat}]
  BY RunIsRun DEF ChatInv
<1>2. run' = [run EXCEPT ![n] = [run[n] EXCEPT !.at = to]]
  BY DEF Goes
<1>3. [run[n] EXCEPT !.at = to] \in Runs
  BY <1>1 DEF Runs
<1>4. QED BY <1>1, <1>2, <1>3 DEF Runs

\* A run that is only asked, and has a client, is one the drawer has posted.
LEMMA PostedClient ==
  ASSUME ChatInv, NEW n \in Questions, Client(n)
  PROVE  /\ chat \in Chats /\ chat.portfolio = run[n].portfolio /\ chat.question = n
         /\ run[n].at = "asked" => chat.at = "posted"
         /\ run[n].at = "running" => chat.at = "reading"
  BY DEF ChatInv, Client, Chats, NoChat

LEMMA ChatStep ==
  ASSUME TypeInv, ChatInv, [Next]_vars
  PROVE  ChatInv'
<1>1. CASE UNCHANGED <<run, drawer, chat, stream>>
  BY <1>1, ChatFrame DEF drawer, Sending
<1>2. ASSUME NEW p, Turn(p), UNCHANGED server
      PROVE  ChatInv'
  BY <1>2, ChatFrame DEF Turn, Released, server
<1>3. CASE OpenDrawer \/ CloseDrawer \/ Clear \/ \E n \in Clears : ServeClear(n) \/ ClearLost(n)
  BY <1>1, <1>3 DEF OpenDrawer, CloseDrawer, Clear, ServeClear, ClearLost, server
<1>4. CASE Send
  <2>1. PICK n \in Questions :
          /\ run[n] = NoChat
          /\ run' = [run EXCEPT ![n] = [question |-> n, portfolio |-> portfolioId, at |-> "asked"]]
          /\ chat' = [question |-> n, portfolio |-> portfolioId, at |-> "posted"]
          /\ pendingUser' = [question |-> n, portfolio |-> portfolioId]
    BY <1>4 DEF Send
  <2>2. portfolioId \in Portfolios /\ sending' = TRUE /\ handled' = <<>>
    BY <1>4 DEF Send, CanSend, TypeInv
  <2>3. [question |-> n, portfolio |-> portfolioId, at |-> "asked"] \in Runs /\ chat' \in Chats
    BY <2>1, <2>2 DEF Runs, Chats
  <2>4. run \in [Questions -> Runs \cup {NoChat}]
    BY DEF ChatInv
  <2>5. /\ run' \in [Questions -> Runs \cup {NoChat}]
        /\ run'[n].at = "asked" /\ run'[n].portfolio = portfolioId
    BY <2>1, <2>3, <2>4
  <2>6. QED BY <2>1, <2>2, <2>3, <2>5 DEF ChatInv
<1>5. CASE Receive
  BY <1>5 DEF Receive, drawer, server, ChatInv
<1>6. CASE NextEvent
  BY <1>6 DEF NextEvent, server, ChatInv
<1>7. CASE EndOfStream
  <2>1. CASE chat' = [chat EXCEPT !.at = "refreshing"] /\ UNCHANGED <<sending, phase, pendingUser, stream>>
    <3>1. chat \in Chats /\ chat.at = "reading"
      BY <1>7, EndOfStreamStep DEF ChatInv, NoChat
    <3>2. /\ chat' \in Chats /\ chat'.at = "refreshing"
          /\ chat'.question = chat.question /\ chat'.portfolio = chat.portfolio
      BY <2>1, <3>1 DEF Chats
    <3>3. run' = run
      BY <1>7 DEF EndOfStream, server
    <3>4. chat # NoChat
      BY <3>1 DEF NoChat
    <3>5. QED BY <2>1, <3>2, <3>3, <3>4 DEF ChatInv
  <2>2. CASE Finally
    BY <1>7, <2>2, ChatFrame DEF EndOfStream, server
  <2>3. QED BY <1>7, <2>1, <2>2, EndOfStreamStep
<1>8. CASE Timeout \/ ConnectionLost
  BY <1>8, ChatFrame DEF Timeout, ConnectionLost, GiveUp, server
<1>9. ASSUME NEW n \in Questions, Record(n)
      PROVE  ChatInv'
  <2>1. /\ run[n].at = "asked" /\ Goes(n, "running") /\ UNCHANGED <<drawer, stream>>
        /\ chat' = IF Client(n) THEN [chat EXCEPT !.at = "reading"] ELSE chat
    BY <1>9 DEF Record
  <2>2. /\ run' \in [Questions -> Runs \cup {NoChat}]
        /\ run'[n].at = "running" /\ run'[n].portfolio = run[n].portfolio
        /\ \A m \in Questions \ {n} : run'[m] = run[m]
    BY <2>1, GoesTyped
  <2>3. CASE Client(n)
    <3>1. chat \in Chats /\ chat.question = n
      BY <2>3, PostedClient
    <3>2. /\ chat' \in Chats /\ chat'.at = "reading" /\ chat # NoChat
          /\ chat'.question = chat.question /\ chat'.portfolio = chat.portfolio
      BY <2>1, <2>3, <3>1 DEF Chats, NoChat
    <3>3. QED BY <2>1, <2>2, <3>1, <3>2 DEF ChatInv, drawer
  <2>4. CASE ~Client(n)
    <3>1. chat.at \in {"posted", "reading"} => chat.question # n
      BY <2>4 DEF Client
    <3>2. UNCHANGED <<sending, pendingUser, chat, handled>>
      BY <2>1, <2>4 DEF drawer, stream
    <3>3. CASE chat = NoChat
      BY <2>2, <3>2, <3>3 DEF ChatInv, NoChat
    <3>4. CASE chat \in Chats
      <4>1. /\ run'[chat.question].portfolio = run[chat.question].portfolio
            /\ chat.at \in {"posted", "reading"} => run'[chat.question] = run[chat.question]
        BY <2>2, <3>1, <3>4 DEF Chats
      <4>2. QED BY <2>2, <3>2, <4>1 DEF ChatInv
    <3>5. QED BY <3>3, <3>4 DEF ChatInv
  <2>5. QED BY <2>3, <2>4
<1>10. ASSUME NEW n \in Questions, NEW to \in {"done", "gone"}, run[n].at # "none",
              Goes(n, to), run[n].at = "asked" => ~Client(n),
              to = "gone" => ~Client(n),
              UNCHANGED <<sending, pendingUser, chat, handled>>
       PROVE  ChatInv'
  <2>1. /\ run' \in [Questions -> Runs \cup {NoChat}]
        /\ run'[n].at = to /\ run'[n].portfolio = run[n].portfolio
        /\ \A m \in Questions \ {n} : run'[m] = run[m]
    BY <1>10, GoesTyped
  <2>2. chat.at = "posted" => chat.question # n
    BY <1>10 DEF ChatInv, Client
  <2>3. chat.at = "reading" /\ chat.question = n => to = "done"
    BY <1>10 DEF Client
  <2>4. CASE chat = NoChat
    BY <1>10, <2>1, <2>4 DEF ChatInv, NoChat
  <2>5. CASE chat \in Chats
    <3>1. /\ run'[chat.question].portfolio = run[chat.question].portfolio
          /\ chat.question # n => run'[chat.question] = run[chat.question]
      BY <2>1, <2>5 DEF Chats
    <3>2. chat.at = "reading" => run'[chat.question].at \in {"running", "done"}
      BY <2>1, <2>3, <3>1 DEF ChatInv
    <3>3. QED BY <1>10, <2>1, <2>2, <3>1, <3>2 DEF ChatInv
  <2>6. QED BY <2>4, <2>5 DEF ChatInv
<1>11. ASSUME NEW n \in Questions, Answer(n) \/ Fail(n)
       PROVE  ChatInv'
  BY <1>10, <1>11 DEF Answer, Fail, drawer
<1>12. ASSUME NEW n \in Questions, Abandon(n)
       PROVE  ChatInv'
  BY <1>10, <1>12 DEF Abandon, drawer, stream
<1>13. ASSUME NEW n \in Questions, Progress(n)
       PROVE  ChatInv'
  BY <1>13 DEF Progress, drawer, server, ChatInv
<1>14. ASSUME NEW n \in Questions, Refuse(n)
       PROVE  ChatInv'
  <2>1. run' \in [Questions -> Runs \cup {NoChat}] /\ Finally
    BY <1>14, GoesTyped DEF Refuse
  <2>2. QED BY <2>1 DEF ChatInv, Finally, NoChat, NoQuestion
<1>15. ASSUME NEW n \in Clears, Cleared(n)
       PROVE  ChatInv'
  BY <1>15, ChatFrame DEF Cleared, Released, server
<1>16. ASSUME NEW p \in Portfolios, Serve(p) \/ Collect(p)
       PROVE  ChatInv'
  BY <1>1, <1>16 DEF Serve, Collect, server
<1>17. ASSUME NEW p \in Portfolios, Settle(p) \/ Lose(p)
       PROVE  ChatInv'
  BY <1>17, ChatFrame DEF Settle, Lose, Released, server
<1>18. CASE UNCHANGED vars
  BY <1>1, <1>18 DEF vars, server
<1>19. ASSUME NEW p \in Portfolios, SelectPortfolio(p)
       PROVE  ChatInv'
  BY <1>2, <1>19 DEF SelectPortfolio
<1>20. CASE HideSelected
  BY <1>2, <1>20 DEF HideSelected
<1>21. QED
  BY <1>3, <1>4, <1>5, <1>6, <1>7, <1>8, <1>9, <1>11, <1>12, <1>13, <1>14, <1>15, <1>16,
     <1>17, <1>18, <1>19, <1>20
  DEF Next, Frame, User, Sender, Clearing, Loss, Running, Fetching

-----------------------------------------------------------------------------
\* What the drawer observes.

LEMMA AskedIsFresh ==
  ASSUME NEW e, NEW stored, e.fetch.at = "asked"
  PROVE  Fresh(e, stored)
  BY DEF Fresh

\* The end of a wait touches no question that is being read.
LEMMA ReleasedExcuses ==
  ASSUME NEW p, NEW q, Released(q) \/ UNCHANGED Sending
  PROVE  /\ chat'.at = "reading" /\ chat'.portfolio = p
              <=> chat.at = "reading" /\ chat.portfolio = p
         /\ chat'.at = "refreshing" => chat' = chat
         /\ chat'.at = "refreshing" /\ Released(q) => ~Waits(q)
<1>1. CASE chat' = chat /\ (Released(q) => ~Waits(q))
  BY <1>1
<1>2. CASE chat' = NoChat /\ chat.at = "refreshing"
  BY <1>2 DEF NoChat
<1>3. Waits(q) => chat.at = "refreshing"
  BY DEF Waits
<1>4. Released(q) => IF Waits(q) THEN chat' = NoChat ELSE chat' = chat
  BY DEF Released, Finally, Sending
<1>5. UNCHANGED Sending => chat' = chat
  BY DEF Sending
<1>6. CASE Released(q)
  BY <1>1, <1>2, <1>3, <1>4, <1>6
<1>7. CASE ~Released(q)
  BY <1>1, <1>5, <1>7
<1>8. QED BY <1>6, <1>7

LEMMA CurrentStep ==
  ASSUME TypeInv, ChatInv, CurrentInv, [Next]_vars
  PROVE  CurrentInv'
<1> SUFFICES ASSUME NEW p \in Portfolios, open', portfolioId' = p, ~Excused(p)'
             PROVE  Fresh(Entry(cache', Key(p)), history'[p])
  BY DEF CurrentInv
<1>1. ASSUME UNCHANGED <<open, portfolioId>>, ~Excused(p), history'[p] = history[p],
             Entry(cache', Key(p)) = Entry(cache, Key(p))
      PROVE  Fresh(Entry(cache', Key(p)), history'[p])
  BY <1>1 DEF CurrentInv
<1>2. ASSUME Follows(p)
      PROVE  Fresh(Entry(cache', Key(p)), history'[p])
  BY <1>2, AskedIsFresh DEF Follows, Excused
<1>3. CASE UNCHANGED <<open, portfolioId, chat, clear, cache, history, outdated>>
  BY <1>1, <1>3 DEF Excused, ClearedId
<1>4. ASSUME NEW q \in Portfolios \cup {NoId}, q # portfolioId, Turn(q), open' = open
      PROVE  Fresh(Entry(cache', Key(p)), history'[p])
  <2>1. portfolioId' = q /\ p # NoId
    BY <1>4, PortfoliosAssumption DEF Turn
  <2>2. QED BY <1>2, <1>4, <2>1, TurnStep
<1>5. CASE OpenDrawer
  <2>1. portfolioId = p /\ p # NoId
    BY <1>5, PortfoliosAssumption DEF OpenDrawer
  <2>2. QED BY <1>2, <1>5, <2>1, RefreshStep DEF OpenDrawer
<1>6. CASE Send
  <2>1. chat = NoChat /\ chat'.at = "posted"
    <3>1. ~sending
      BY <1>6 DEF Send, CanSend
    <3>2. chat = NoChat
      BY <3>1 DEF ChatInv
    <3>3. \E n \in Questions : chat' = [question |-> n, portfolio |-> portfolioId, at |-> "posted"]
      BY <1>6 DEF Send
    <3>4. QED BY <3>2, <3>3
  <2>2. ~Excused(p)
    BY <1>6, <2>1 DEF Send, Excused, ClearedId, NoChat
  <2>3. QED BY <1>1, <1>6, <2>2 DEF Send, nav
<1>7. CASE EndOfStream
  <2>1. CASE open /\ portfolioId = chat.portfolio /\ Follows(chat.portfolio)
    <3>1. chat.portfolio = p
      BY <1>7, <2>1 DEF EndOfStream, nav
    <3>2. QED BY <1>2, <2>1, <3>1
  <2>2. CASE ~(open /\ portfolioId = chat.portfolio) /\ UNCHANGED <<cache, outdated>>
    <3>1. chat.portfolio # p
      BY <1>7, <2>2 DEF EndOfStream, nav
    <3>2. QED BY <1>1, <1>7, <2>2, <3>1 DEF EndOfStream, nav, server, Excused, ClearedId
  <2>3. QED BY <1>7, <2>1, <2>2, EndOfStreamStep
<1>8. CASE Timeout \/ ConnectionLost
  <2>1. /\ outdated' = outdated \cup {chat.portfolio}
        /\ UNCHANGED <<portfolioId, open, clear, cache, history>>
    BY <1>8 DEF Timeout, ConnectionLost, GiveUp, nav, server
  <2>2. QED BY <1>1, <2>1 DEF Excused, ClearedId
<1>9. ASSUME NEW n \in Questions, Record(n) \/ Answer(n), run[n].portfolio # p, Unseen(n),
             UNCHANGED <<portfolioId, open, clear, cache>>,
             chat.at = "reading" => chat' = chat
      PROVE  Fresh(Entry(cache', Key(p)), history'[p])
  <2>1. history'[p] = history[p]
    BY <1>9, HistoryWritten DEF TypeInv
  <2>2. ~Excused(p)
    BY <1>9 DEF Excused, ClearedId, Unseen
  <2>3. QED BY <1>1, <1>9, <2>1, <2>2
<1>10. ASSUME NEW n \in Questions, Record(n)
       PROVE  Fresh(Entry(cache', Key(p)), history'[p])
  <2>1. run[n].at = "asked" /\ Unseen(n)
    BY <1>10 DEF Record
  <2>2. CASE Client(n)
    <3>1. chat \in Chats /\ chat.portfolio = run[n].portfolio /\ chat.at = "posted"
      BY <2>1, <2>2, PostedClient
    <3>2. chat'.at = "reading" /\ chat'.portfolio = run[n].portfolio
      BY <1>10, <2>2, <3>1 DEF Record, Chats
    <3>3. run[n].portfolio # p
      BY <3>2 DEF Excused
    <3>4. QED BY <1>9, <1>10, <2>1, <3>1, <3>3 DEF Record, nav
  <2>3. CASE ~Client(n)
    <3>1. run[n].portfolio # p /\ chat' = chat
      BY <1>10, <2>1, <2>3 DEF Record, Unseen, Excused
    <3>2. QED BY <1>9, <1>10, <2>1, <3>1 DEF Record, nav
  <2>4. QED BY <2>2, <2>3
<1>11. ASSUME NEW n \in Questions, Answer(n)
       PROVE  Fresh(Entry(cache', Key(p)), history'[p])
  <2>1. run[n].at = "running" /\ Unseen(n) /\ chat' = chat
    BY <1>11 DEF Answer
  <2>2. Client(n) => chat.at = "reading" /\ chat.portfolio = run[n].portfolio
    BY <2>1, PostedClient
  <2>3. run[n].portfolio # p
    BY <2>1, <2>2 DEF Unseen, Excused
  <2>4. QED BY <1>9, <1>11, <2>1, <2>3 DEF Answer, nav
<1>12. ASSUME NEW n \in Questions, Refuse(n)
       PROVE  Fresh(Entry(cache', Key(p)), history'[p])
  <2>1. chat.at = "posted"
    BY <1>12, PostedClient DEF Refuse
  <2>2. QED BY <1>1, <1>12, <2>1 DEF Refuse, nav, Excused, ClearedId
<1>13. ASSUME NEW n \in Questions, Progress(n) \/ Fail(n) \/ Abandon(n)
       PROVE  Fresh(Entry(cache', Key(p)), history'[p])
  BY <1>3, <1>13 DEF Progress, Fail, Abandon, nav, server
<1>14. CASE Clear
  <2>1. UNCHANGED <<portfolioId, open, chat, cache, history, outdated>>
    BY <1>14 DEF Clear, nav, server
  <2>2. ASSUME NEW m \in Clears, clear[m].at = "cleared", ClearedId(m) = p
        PROVE  clear'[m].at = "cleared" /\ ClearedId(m)' = p
    <3>1. clear[m] \in Deletes /\ m # clears + 1
      BY <2>2, ClearIds DEF NoClear, TypeInv, Clears
    <3>2. clear'[m] \in {clear[m], [clear[m] EXCEPT !.told = portfolioId]}
      BY <1>14, <3>1 DEF Clear
    <3>3. clear'[m].at = clear[m].at /\ clear'[m].request = clear[m].request
      BY <3>1, <3>2 DEF Deletes
    <3>4. QED BY <2>2, <3>3 DEF ClearedId
  <2>3. ~Excused(p)
    BY <2>1, <2>2 DEF Excused
  <2>4. QED BY <1>1, <2>1, <2>3
<1>15. ASSUME NEW n \in Clears, ServeClear(n)
       PROVE  Fresh(Entry(cache', Key(p)), history'[p])
  <2>1. clear[n] \in Deletes /\ clear[n].at = "sent" /\ ClearedId(n) \in Portfolios
    BY <1>15, ClearIds DEF ServeClear, NoClear
  <2>2. clear' = [clear EXCEPT ![n] = [clear[n] EXCEPT !.at = "cleared"]]
    BY <1>15 DEF ServeClear, TypeInv
  <2>3. clear'[n].at = "cleared" /\ ClearedId(n)' = ClearedId(n)
    BY <2>1, <2>2 DEF TypeInv, Deletes, ClearedId
  <2>4. ClearedId(n) # p
    BY <2>3 DEF Excused
  <2>5. history'[p] = history[p]
    BY <1>15, <2>4 DEF ServeClear, TypeInv
  <2>6. \A m \in Clears : clear[m].at = "cleared" => m # n /\ clear'[m] = clear[m]
    BY <2>1, <2>2 DEF TypeInv
  <2>7. ~Excused(p)
    BY <1>15, <2>6 DEF ServeClear, Excused, ClearedId
  <2>8. QED BY <1>1, <1>15, <2>5, <2>7 DEF ServeClear, nav
<1>16. ASSUME NEW n \in Clears, clear' = [clear EXCEPT ![n] = NoClear],
              UNCHANGED <<portfolioId, open, cache, history>>, chat' = chat,
              outdated' = outdated \cup {ClearedId(n)}
       PROVE  Fresh(Entry(cache', Key(p)), history'[p])
  <2>1. ClearedId(n) # p
    BY <1>16 DEF Excused
  <2>2. \A m \in Clears : m # n => clear'[m] = clear[m]
    BY <1>16 DEF TypeInv
  <2>3. ~Excused(p)
    BY <1>16, <2>1, <2>2 DEF Excused, ClearedId
  <2>4. QED BY <1>1, <1>16, <2>3
<1>17. ASSUME NEW n \in Clears, Cleared(n) \/ ClearLost(n)
       PROVE  Fresh(Entry(cache', Key(p)), history'[p])
  <2>1. UNCHANGED <<open, portfolioId, history>> /\ clear' = [clear EXCEPT ![n] = NoClear]
    BY <1>17 DEF Cleared, ClearLost, nav, server
  <2>2. CASE Cleared(n) /\ ~Follows(portfolioId)
    BY <1>16, <2>1, <2>2, ClearedStep DEF Sending
  <2>3. CASE ClearLost(n)
    BY <1>16, <2>1, <2>3 DEF ClearLost
  <2>4. CASE Follows(portfolioId)
    BY <1>2, <2>1, <2>4
  <2>5. QED BY <1>17, <2>2, <2>3, <2>4
<1>18. ASSUME NEW q \in Portfolios, Serve(q)
       PROVE  Fresh(Entry(cache', Key(p)), history'[p])
  <2>1. UNCHANGED <<portfolioId, open, chat, clear, history, outdated>>
    BY <1>18 DEF Serve, nav, server
  <2>2. CASE q = p
    BY <1>18, <2>1, <2>2, ServeStep DEF Fresh
  <2>3. CASE q # p
    BY <1>1, <1>18, <2>1, <2>3, ServeStep DEF Excused, ClearedId, OnlyEntry
  <2>4. QED BY <2>2, <2>3
<1>19. ASSUME NEW q \in Portfolios, Settle(q)
       PROVE  Fresh(Entry(cache', Key(p)), history'[p])
  <2>1. UNCHANGED <<portfolioId, open, clear, history, outdated>> /\ Released(q)
    BY <1>19 DEF Settle, nav, server
  <2>2. ~Excused(p)
    BY <2>1, ReleasedExcuses DEF Excused, ClearedId
  <2>3. CASE q = p
    <3>1. Fresh(Entry(cache, Key(p)), history[p]) /\ Entry(cache, Key(p)).fetch.at = "answered"
      BY <1>19, <2>1, <2>2, <2>3 DEF CurrentInv, Settle
    <3>2. QED BY <1>19, <2>1, <2>3, <3>1, SettleStep DEF Fresh
  <2>4. CASE q # p
    BY <1>1, <1>19, <2>1, <2>2, <2>4, SettleStep DEF OnlyEntry
  <2>5. QED BY <2>3, <2>4
<1>20. ASSUME NEW q \in Portfolios, Lose(q)
       PROVE  Fresh(Entry(cache', Key(p)), history'[p])
  <2>1. UNCHANGED <<portfolioId, open, clear, history>>
    BY <1>20 DEF Lose, nav, server
  <2>2. CASE q = p
    BY <1>20, <2>2, LoseStep, AskedIsFresh DEF Excused
  <2>3. CASE q # p
    <3>1. /\ OnlyEntry(q) /\ outdated \subseteq outdated'
          /\ Released(q) \/ UNCHANGED Sending
      BY <1>20, LoseStep
    <3>2. ~Excused(p)
      BY <2>1, <3>1, ReleasedExcuses DEF Excused, ClearedId
    <3>3. QED BY <1>1, <2>1, <2>3, <3>1, <3>2 DEF OnlyEntry
  <2>4. QED BY <2>2, <2>3
<1>21. ASSUME NEW q \in Portfolios, Collect(q)
       PROVE  Fresh(Entry(cache', Key(p)), history'[p])
  <2>1. UNCHANGED <<portfolioId, open, chat, clear, history, outdated>> /\ q # p
    BY <1>21 DEF Collect, nav, server
  <2>2. QED BY <1>1, <1>21, <2>1, CollectStep DEF Excused, ClearedId, OnlyEntry
<1>22. CASE CloseDrawer
  BY <1>22 DEF CloseDrawer
<1>23. CASE Receive \/ NextEvent
  BY <1>3, <1>23 DEF Receive, NextEvent, nav, server
<1>24. CASE UNCHANGED vars
  BY <1>3, <1>24 DEF vars, nav, server
<1>25. ASSUME NEW q \in Portfolios, SelectPortfolio(q)
       PROVE  Fresh(Entry(cache', Key(p)), history'[p])
  BY <1>4, <1>25 DEF SelectPortfolio
<1>26. CASE HideSelected
  BY <1>4, <1>26 DEF HideSelected
<1>27. QED
  BY <1>5, <1>6, <1>7, <1>8, <1>10, <1>11, <1>12, <1>13, <1>14, <1>15, <1>17, <1>18,
     <1>19, <1>20, <1>21, <1>22, <1>23, <1>24, <1>25, <1>26
  DEF Next, Frame, User, Sender, Clearing, Loss, Running, Fetching

-----------------------------------------------------------------------------
\* The answer that send() waits for.

LEMMA QuestionStep ==
  ASSUME TypeInv, ChatInv, QuestionInv, [Next]_vars
  PROVE  QuestionInv'
<1> DEFINE Goal(p) == HoldsQuestion(Entry(cache, Key(p)), history[p])'
<1> SUFFICES ASSUME NEW p \in Portfolios, chat'.at = "refreshing", chat'.portfolio = p,
                    p \notin outdated'
             PROVE  Goal(p)
  BY DEF QuestionInv, Waits
<1>1. ASSUME chat' = chat, p \notin outdated, history'[p] = history[p],
             Entry(cache', Key(p)) = Entry(cache, Key(p))
      PROVE  Goal(p)
  BY <1>1 DEF QuestionInv, Waits, HoldsQuestion
<1>2. ASSUME Entry(cache', Key(p)).fetch.at # "answered"
      PROVE  Goal(p)
  BY <1>2 DEF HoldsQuestion
<1>3. CASE UNCHANGED <<chat, cache, history, outdated>>
  BY <1>1, <1>3
<1>4. ASSUME NEW q \in Portfolios \cup {NoId}, q # portfolioId, Turn(q), history' = history
      PROVE  Goal(p)
  <2>1. chat' = chat /\ p # portfolioId
    BY <1>4, ReleasedExcuses DEF Turn, Waits
  <2>2. CASE open /\ q = p
    <3>1. p # NoId
      BY PortfoliosAssumption
    <3>2. Follows(p)
      BY <1>4, <2>2, <3>1, TurnStep
    <3>3. QED BY <1>2, <3>2 DEF Follows
  <2>3. CASE ~(open /\ q = p)
    <3>1. Entry(cache', Key(p)) = Entry(cache, Key(p))
      BY <1>4, <2>1, <2>3, TurnStep, PortfoliosAssumption
    <3>2. p \notin outdated
      BY <1>4, <2>3, TurnStep DEF Follows
    <3>3. QED BY <1>1, <1>4, <2>1, <3>1, <3>2
  <2>4. QED BY <2>2, <2>3
<1>5. ASSUME NEW q \in Portfolios, OnlyEntry(q), Follows(q), chat' = chat, history' = history
      PROVE  Goal(p)
  <2>1. CASE q = p
    BY <1>2, <1>5, <2>1 DEF Follows
  <2>2. CASE q # p
    BY <1>1, <1>5, <2>2 DEF Follows, OnlyEntry
  <2>3. QED BY <2>1, <2>2
<1>6. CASE OpenDrawer
  <2>1. CASE portfolioId = NoId
    BY <1>3, <1>6, <2>1 DEF OpenDrawer, server
  <2>2. CASE portfolioId # NoId
    BY <1>5, <1>6, <2>2, RefreshStep DEF OpenDrawer, TypeInv, server
  <2>3. QED BY <2>1, <2>2
<1>7. CASE EndOfStream
  <2>1. CASE OnlyEntry(chat.portfolio) /\ Follows(chat.portfolio)
             /\ chat' = [chat EXCEPT !.at = "refreshing"]
    <3>1. chat \in Chats
      BY <1>7, EndOfStreamStep DEF ChatInv, NoChat
    <3>2. chat.portfolio = p
      BY <2>1, <3>1 DEF Chats
    <3>3. QED BY <1>2, <2>1, <3>2 DEF Follows
  <2>2. CASE Finally
    BY <2>2 DEF Finally, NoChat
  <2>3. QED BY <1>7, <2>1, <2>2, EndOfStreamStep
<1>8. CASE Timeout \/ ConnectionLost
  <2>1. chat' = NoChat
    BY <1>8 DEF Timeout, ConnectionLost, GiveUp, Finally
  <2>2. QED BY <2>1 DEF NoChat
<1>9. CASE Send
  <2>1. PICK n \in Questions : chat' = [question |-> n, portfolio |-> portfolioId, at |-> "posted"]
    BY <1>9 DEF Send
  <2>2. chat'.at = "posted"
    BY <2>1
  <2>3. QED BY <2>2
<1>10. ASSUME NEW n \in Questions, Refuse(n)
       PROVE  Goal(p)
  BY <1>10 DEF Refuse, Finally, NoChat
<1>11. ASSUME NEW n \in Questions, Record(n) \/ Answer(n)
       PROVE  Goal(p)
  <2>1. ~Client(n)
    <3>1. CASE Client(n) /\ Record(n)
      <4>1. chat \in Chats /\ chat' = [chat EXCEPT !.at = "reading"]
        BY <3>1, PostedClient DEF Record
      <4>2. QED BY <4>1 DEF Chats
    <3>2. CASE Client(n) /\ Answer(n)
      BY <3>2 DEF Client, Answer
    <3>3. QED BY <1>11, <3>1, <3>2
  <2>2. chat' = chat /\ outdated' = outdated \cup {run[n].portfolio}
    BY <1>11, <2>1 DEF Record, Answer, Unseen
  <2>3. history'[p] = history[p]
    <3>1. run[n].portfolio # p
      BY <2>2
    <3>2. QED BY <1>11, <3>1, HistoryWritten DEF TypeInv
  <2>4. QED BY <1>1, <1>11, <2>2, <2>3 DEF Record, Answer
<1>12. ASSUME NEW n \in Clears, ServeClear(n)
       PROVE  Goal(p)
  <2>1. UNCHANGED <<chat, cache, outdated>>
    BY <1>12 DEF ServeClear
  <2>2. CASE ClearedId(n) = p
    <3>1. history'[p] = <<>>
      BY <1>12, <2>2 DEF ServeClear, TypeInv
    <3>2. ToSet(history'[p]) = {}
      BY <3>1 DEF ToSet
    <3>3. QED BY <3>2 DEF HoldsQuestion
  <2>3. CASE ClearedId(n) # p
    BY <1>1, <1>12, <2>1, <2>3 DEF ServeClear, TypeInv
  <2>4. QED BY <2>2, <2>3
<1>13. ASSUME NEW n \in Clears, Cleared(n)
       PROVE  Goal(p)
  <2>1. CASE portfolioId \in Portfolios /\ OnlyEntry(portfolioId) /\ Follows(portfolioId)
             /\ (Released(portfolioId) \/ UNCHANGED Sending)
    BY <1>5, <1>13, <2>1, ReleasedExcuses DEF Cleared, server
  <2>2. CASE outdated \subseteq outdated' /\ UNCHANGED <<cache, Sending>>
    BY <1>1, <1>13, <2>2 DEF Cleared, server, Sending
  <2>3. QED BY <1>13, <2>1, <2>2, ClearedStep
<1>14. ASSUME NEW q \in Portfolios, Serve(q)
       PROVE  Goal(p)
  <2>1. UNCHANGED <<chat, history, outdated>>
    BY <1>14 DEF Serve, server
  <2>2. CASE q = p
    BY <1>14, <2>1, <2>2, ServeStep DEF HoldsQuestion
  <2>3. CASE q # p
    BY <1>1, <1>14, <2>1, <2>3, ServeStep DEF OnlyEntry
  <2>4. QED BY <2>2, <2>3
<1>15. ASSUME NEW q \in Portfolios, Settle(q)
       PROVE  Goal(p)
  <2>1. UNCHANGED <<history, outdated>> /\ Released(q)
    BY <1>15 DEF Settle, server
  <2>2. chat' = chat /\ q # p
    BY <2>1, ReleasedExcuses DEF Waits
  <2>3. QED BY <1>1, <1>15, <2>1, <2>2, SettleStep DEF OnlyEntry
<1>16. ASSUME NEW q \in Portfolios, Lose(q)
       PROVE  Goal(p)
  <2>1. history' = history
    BY <1>16 DEF Lose, server
  <2>2. CASE q = p
    BY <1>2, <1>16, <2>2, LoseStep
  <2>3. CASE q # p
    <3>1. /\ OnlyEntry(q) /\ outdated \subseteq outdated'
          /\ Released(q) \/ UNCHANGED Sending
      BY <1>16, LoseStep
    <3>2. QED BY <1>1, <2>1, <2>3, <3>1, ReleasedExcuses DEF OnlyEntry
  <2>4. QED BY <2>2, <2>3
<1>17. ASSUME NEW q \in Portfolios, Collect(q)
       PROVE  Goal(p)
  <2>1. UNCHANGED <<chat, history, outdated>>
    BY <1>17 DEF Collect, server
  <2>2. CASE q = p
    BY <1>2, <1>17, <2>2, CollectStep, SmallFetches
  <2>3. CASE q # p
    BY <1>1, <1>17, <2>1, <2>3, CollectStep DEF OnlyEntry
  <2>4. QED BY <2>2, <2>3
<1>18. ASSUME NEW n \in Clears, ClearLost(n)
       PROVE  Goal(p)
  BY <1>1, <1>18 DEF ClearLost, server
<1>19. CASE CloseDrawer \/ Receive \/ NextEvent \/ Clear
  BY <1>3, <1>19 DEF CloseDrawer, Receive, NextEvent, Clear, server
<1>20. ASSUME NEW n \in Questions, Progress(n) \/ Fail(n) \/ Abandon(n)
       PROVE  Goal(p)
  BY <1>3, <1>20 DEF Progress, Fail, Abandon, server
<1>21. CASE UNCHANGED vars
  BY <1>3, <1>21 DEF vars, server
<1>22. ASSUME NEW q \in Portfolios, SelectPortfolio(q)
       PROVE  Goal(p)
  BY <1>4, <1>22 DEF SelectPortfolio, server
<1>23. CASE HideSelected
  BY <1>4, <1>23 DEF HideSelected, server
<1>24. QED
  BY <1>6, <1>7, <1>8, <1>9, <1>10, <1>11, <1>12, <1>13, <1>14, <1>15, <1>16, <1>17, <1>18,
     <1>19, <1>20, <1>21, <1>22, <1>23
  DEF Next, Frame, User, Sender, Clearing, Loss, Running, Fetching

-----------------------------------------------------------------------------
\* What send() waits for.

LEMMA FinallyNoChat ==
  ASSUME Finally
  PROVE  chat' = NoChat /\ ~sending'
  BY DEF Finally

\* The wait ends with the fetch, or nothing of it changes.
LEMMA ReleasedWait ==
  ASSUME WaitInv, NEW p, Released(p) \/ UNCHANGED Sending
  PROVE  /\ sending' => chat' # NoChat
         /\ chat'.at = "refreshing" => chat' = chat /\ (Released(p) => chat.portfolio # p)
<1>1. CASE Finally
  BY <1>1, FinallyNoChat DEF NoChat
<1>2. CASE UNCHANGED Sending /\ (Released(p) => ~Waits(p))
  BY <1>2 DEF Sending, WaitInv, Waits
<1>3. QED BY <1>1, <1>2 DEF Released

LEMMA WaitStep ==
  ASSUME TypeInv, ChatInv, WaitInv, [Next]_vars
  PROVE  WaitInv'
<1>1. ASSUME chat'.at # "refreshing", sending' => chat' # NoChat
      PROVE  WaitInv'
  BY <1>1 DEF WaitInv
<1>2. CASE Finally
  BY <1>1, <1>2, FinallyNoChat DEF NoChat
<1>3. ASSUME UNCHANGED <<sending, chat, portfolioId>>,
             Entry(cache', Key(portfolioId)) = Entry(cache, Key(portfolioId))
                \/ InFlight(cache', Key(portfolioId))
      PROVE  WaitInv'
  BY <1>3 DEF WaitInv, InFlight
<1>4. CASE UNCHANGED <<sending, chat, portfolioId, cache>>
  BY <1>3, <1>4
<1>5. ASSUME NEW q, Turn(q)
      PROVE  WaitInv'
  <2>1. Released(portfolioId)
    BY <1>5 DEF Turn
  <2>2. chat'.at # "refreshing"
    BY <2>1, ReleasedWait DEF WaitInv
  <2>3. QED BY <1>1, <2>1, <2>2, ReleasedWait
<1>6. CASE OpenDrawer
  <2>1. CASE portfolioId = NoId
    BY <1>4, <1>6, <2>1 DEF OpenDrawer, drawer
  <2>2. CASE portfolioId # NoId
    <3>1. Follows(portfolioId)
      BY <1>6, <2>2, RefreshStep DEF OpenDrawer, TypeInv
    <3>2. QED BY <1>3, <1>6, <3>1 DEF OpenDrawer, drawer, Follows
  <2>3. QED BY <2>1, <2>2
<1>7. CASE Send
  <2>1. PICK n \in Questions : chat' = [question |-> n, portfolio |-> portfolioId, at |-> "posted"]
    BY <1>7 DEF Send
  <2>2. QED BY <1>1, <2>1 DEF NoChat
<1>8. CASE EndOfStream
  <2>1. CASE /\ portfolioId = chat.portfolio /\ Follows(chat.portfolio)
             /\ chat' = [chat EXCEPT !.at = "refreshing"] /\ UNCHANGED sending
    <3>1. chat \in Chats
      BY <1>8, EndOfStreamStep DEF ChatInv, NoChat
    <3>2. chat'.at = "refreshing" /\ chat'.portfolio = portfolioId
      BY <2>1, <3>1 DEF Chats
    <3>3. portfolioId' = portfolioId
      BY <1>8 DEF EndOfStream, nav
    <3>4. QED BY <2>1, <3>2, <3>3 DEF WaitInv, Follows, NoChat
  <2>2. QED BY <1>2, <1>8, <2>1, EndOfStreamStep
<1>9. CASE Timeout \/ ConnectionLost
  BY <1>2, <1>9 DEF Timeout, ConnectionLost, GiveUp
<1>10. ASSUME NEW n \in Questions, Refuse(n)
       PROVE  WaitInv'
  BY <1>2, <1>10 DEF Refuse
<1>11. ASSUME NEW n \in Questions, Record(n)
       PROVE  WaitInv'
  <2>1. CASE Client(n)
    <3>1. chat \in Chats /\ chat' = [chat EXCEPT !.at = "reading"]
      BY <1>11, <2>1, PostedClient DEF Record
    <3>2. chat'.at = "reading"
      BY <3>1 DEF Chats
    <3>3. QED BY <1>1, <3>2 DEF NoChat
  <2>2. CASE ~Client(n)
    BY <1>4, <1>11, <2>2 DEF Record, nav, drawer
  <2>3. QED BY <2>1, <2>2
<1>12. ASSUME NEW n \in Clears, Cleared(n)
       PROVE  WaitInv'
  <2>1. portfolioId' = portfolioId
    BY <1>12 DEF Cleared, nav
  <2>2. CASE Follows(portfolioId) /\ (Released(portfolioId) \/ UNCHANGED Sending)
    BY <2>1, <2>2, ReleasedWait DEF WaitInv, Follows
  <2>3. CASE UNCHANGED <<cache, Sending>>
    BY <1>4, <2>1, <2>3 DEF Sending
  <2>4. QED BY <1>12, <2>2, <2>3, ClearedStep
<1>13. ASSUME NEW p \in Portfolios, Serve(p)
       PROVE  WaitInv'
  <2>1. CASE p = portfolioId
    BY <1>3, <1>13, <2>1, ServeStep DEF Serve, nav, drawer, InFlight
  <2>2. CASE p # portfolioId /\ portfolioId \in Portfolios
    BY <1>3, <1>13, <2>2, ServeStep DEF Serve, nav, drawer, OnlyEntry
  <2>3. CASE portfolioId = NoId
    <3>1. chat.at # "refreshing"
      BY <2>3, PortfoliosAssumption DEF WaitInv, ChatInv, Chats, NoChat
    <3>2. QED BY <1>1, <1>13, <3>1 DEF Serve, drawer, WaitInv
  <2>4. QED BY <2>1, <2>2, <2>3 DEF TypeInv
<1>14. ASSUME NEW p \in Portfolios, OnlyEntry(p), Released(p), portfolioId' = portfolioId
       PROVE  WaitInv'
  <2>1. /\ sending' => chat' # NoChat
        /\ chat'.at = "refreshing" => chat' = chat /\ chat.portfolio # p
    BY <1>14, ReleasedWait
  <2>2. chat.at = "refreshing" => chat.portfolio \in Portfolios
    BY DEF ChatInv, Chats, NoChat
  <2>3. QED BY <1>14, <2>1, <2>2 DEF WaitInv, OnlyEntry, InFlight
<1>15. ASSUME NEW p \in Portfolios, Settle(p)
       PROVE  WaitInv'
  BY <1>14, <1>15, SettleStep DEF Settle, nav
<1>16. ASSUME NEW p \in Portfolios, Lose(p)
       PROVE  WaitInv'
  <2>1. portfolioId' = portfolioId /\ OnlyEntry(p)
    BY <1>16, LoseStep DEF Lose, nav
  <2>2. CASE Entry(cache', Key(p)).fetch.at = "asked" /\ UNCHANGED Sending
    <3>1. chat.at = "refreshing" => chat.portfolio \in Portfolios
      BY DEF ChatInv, Chats, NoChat
    <3>2. QED BY <2>1, <2>2, <3>1 DEF WaitInv, OnlyEntry, InFlight, Sending
  <2>3. QED BY <1>14, <1>16, <2>1, <2>2, LoseStep
<1>17. ASSUME NEW p \in Portfolios, Collect(p)
       PROVE  WaitInv'
  <2>1. p # portfolioId /\ OnlyEntry(p) /\ UNCHANGED <<portfolioId, sending, chat>>
    BY <1>17, CollectStep DEF Collect, nav, drawer
  <2>2. chat.at = "refreshing" => chat.portfolio \in Portfolios
    BY DEF ChatInv, Chats, NoChat
  <2>3. QED BY <2>1, <2>2 DEF WaitInv, OnlyEntry, InFlight
<1>18. CASE \/ CloseDrawer \/ Receive \/ NextEvent \/ Clear
            \/ \E n \in Clears : ServeClear(n) \/ ClearLost(n)
  BY <1>4, <1>18
  DEF CloseDrawer, Receive, NextEvent, Clear, ServeClear, ClearLost, nav, drawer
<1>19. ASSUME NEW n \in Questions, Progress(n) \/ Answer(n) \/ Fail(n) \/ Abandon(n)
       PROVE  WaitInv'
  BY <1>4, <1>19 DEF Progress, Answer, Fail, Abandon, nav, drawer
<1>20. CASE UNCHANGED vars
  BY <1>4, <1>20 DEF vars, nav, drawer
<1>21. CASE HideSelected \/ \E p \in Portfolios : SelectPortfolio(p)
  BY <1>5, <1>21 DEF HideSelected, SelectPortfolio
<1>22. QED
  BY <1>6, <1>7, <1>8, <1>9, <1>10, <1>11, <1>12, <1>13, <1>15, <1>16, <1>17, <1>18, <1>19,
     <1>20, <1>21
  DEF Next, Frame, User, Sender, Clearing, Loss, Running, Fetching

-----------------------------------------------------------------------------
\* The stream: the text of one event, and of several.

LEMMA TextTyped ==
  ASSUME NEW e \in Events
  PROVE  /\ Text(e) \in Seq(Chars) /\ Len(Text(e)) = 5
         /\ Text(e)[1] = EventLine(e) /\ Text(e)[2] = NL /\ Text(e)[3] = DataLine(e)
         /\ Text(e)[4] = NL /\ Text(e)[5] = NL
<1>1. EventLine(e) \in Chars /\ DataLine(e) \in Chars /\ NL \in Chars
  BY DEF EventLine, DataLine, NL, Chars
<1>2. QED BY <1>1 DEF Text

LEMMA TextsAppend ==
  ASSUME NEW s \in Seq(Events), NEW e \in Events
  PROVE  /\ Texts(s) \in Seq(Chars)
         /\ Texts(Append(s, e)) = Texts(s) \o Text(e)
<1> DEFINE u == [i \in DOMAIN s |-> Text(s[i])]
           v == [i \in DOMAIN Append(s, e) |-> Text(Append(s, e)[i])]
           n == Len(s)
<1>1. n \in Nat /\ DOMAIN s = 1 .. n /\ DOMAIN Append(s, e) = 1 .. n + 1
  OBVIOUS
<1>2. \A i \in 1 .. n : Append(s, e)[i] = s[i] /\ s[i] \in Events
  OBVIOUS
<1>3. Append(s, e)[n + 1] = e
  OBVIOUS
<1>4. u \in Seq(Seq(Chars)) /\ Len(u) = n /\ \A i \in 1 .. n : u[i] = Text(s[i])
  BY <1>1, <1>2, TextTyped
<1>5. Text(e) \in Seq(Chars)
  BY TextTyped
<1>6. v = Append(u, Text(e))
  <2> DEFINE w == Append(u, Text(e))
  <2>1. w \in Seq(Seq(Chars)) /\ Len(w) = n + 1 /\ w[n + 1] = Text(e)
        /\ \A i \in 1 .. n : w[i] = Text(s[i])
    <3> HIDE DEF u
    <3>1. QED BY <1>1, <1>4, <1>5
  <2>2. DOMAIN w = 1 .. n + 1
    BY <1>1, <2>1
  <2>3. \A i \in 1 .. n + 1 : v[i] = Text(Append(s, e)[i])
    BY <1>1
  <2>4. \A i \in 1 .. n + 1 : i \in 1 .. n \/ i = n + 1
    BY <1>1
  <2>5. \A i \in 1 .. n + 1 : v[i] = w[i]
    BY <1>2, <1>3, <2>1, <2>3, <2>4
  <2>6. w = [i \in 1 .. n + 1 |-> w[i]] /\ v = [i \in 1 .. n + 1 |-> v[i]]
    <3>1. w = [i \in 1 .. n + 1 |-> w[i]]
      <4> HIDE DEF w
      <4>1. QED BY <2>1, <2>2
    <3>2. v = [i \in 1 .. n + 1 |-> v[i]]
      BY <1>1
    <3>3. QED BY <3>1, <3>2
  <2> HIDE DEF v, w
  <2>7. QED BY <2>5, <2>6 DEF w
<1> HIDE DEF u, v
<1>7. FlattenSeq(u) \in Seq(Chars) /\ FlattenSeq(Append(u, Text(e))) = FlattenSeq(u) \o Text(e)
  BY <1>4, <1>5, FlattenAppend
<1>8. QED BY <1>6, <1>7 DEF Texts, u, v

LEMMA TextsEmpty == Texts(<<>>) = <<>>
<1>1. [i \in DOMAIN <<>> |-> Text(<<>>[i])] = <<>>
  OBVIOUS
<1>2. QED BY <1>1, FlattenEmpty DEF Texts

LEMMA TextsCons ==
  ASSUME NEW e \in Events, NEW s \in Seq(Events)
  PROVE  Texts(<<e>> \o s) = Text(e) \o Texts(s)
<1> DEFINE u == [i \in DOMAIN s |-> Text(s[i])]
           r == <<e>> \o s
           v == [i \in DOMAIN r |-> Text(r[i])]
           w == <<Text(e)>> \o u
           n == Len(s)
<1>1. n \in Nat /\ DOMAIN s = 1 .. n /\ DOMAIN r = 1 .. n + 1 /\ Len(r) = n + 1
  OBVIOUS
<1>2. r[1] = e /\ \A i \in 1 .. n + 1 : i # 1 => r[i] = s[i - 1] /\ i - 1 \in 1 .. n
  BY <1>1
<1>3. u \in Seq(Seq(Chars)) /\ Len(u) = n /\ \A i \in 1 .. n : u[i] = Text(s[i])
  BY <1>1, TextTyped
<1>4. Text(e) \in Seq(Chars)
  BY TextTyped
<1>5. v = w
  <2>1. /\ w \in Seq(Seq(Chars)) /\ Len(w) = n + 1 /\ w[1] = Text(e) /\ DOMAIN w = 1 .. n + 1
        /\ \A i \in 1 .. n + 1 : i # 1 => w[i] = u[i - 1]
    <3> HIDE DEF u
    <3>1. QED BY <1>1, <1>3, <1>4, ConsIs
  <2>2. \A i \in 1 .. n + 1 : v[i] = Text(r[i])
    BY <1>1
  <2>3. \A i \in 1 .. n + 1 : v[i] = w[i]
    <3> HIDE DEF u, v, w, r
    <3>1. QED BY <1>2, <1>3, <2>1, <2>2
  <2>4. v = [i \in 1 .. n + 1 |-> v[i]]
    BY <1>1
  <2>5. w = [i \in 1 .. n + 1 |-> w[i]]
    <3> HIDE DEF w
    <3>1. QED BY <2>1
  <2> HIDE DEF v, w
  <2>6. QED BY <2>3, <2>4, <2>5
<1> HIDE DEF u, v, r
<1>6. FlattenSeq(w) = Text(e) \o FlattenSeq(u)
  BY <1>3, <1>4, FlattenCons
<1>7. QED BY <1>5, <1>6 DEF Texts, u, v, r

\* What is left of the text is the text of an event and of the others.
LEMMA FirstEvent ==
  ASSUME NEW s \in Seq(Events), s # <<>>
  PROVE  \E e \in Events, t \in Seq(Events) : s = <<e>> \o t /\ Texts(s) = Text(e) \o Texts(t)
<1>1. s[1] \in Events /\ Tail(s) \in Seq(Events) /\ s = <<s[1]>> \o Tail(s)
  OBVIOUS
<1>2. QED BY <1>1, TextsCons

\* The characters of a block.
LEMMA ThreeFirst ==
  ASSUME NEW S, NEW b \in Seq(S), Len(b) >= 3
  PROVE  SubSeq(b, 1, 3) = <<b[1], b[2], b[3]>>
<1>1. b[1] \in S /\ b[2] \in S /\ b[3] \in S
  OBVIOUS
<1>2. \A i \in 1 .. 3 : b[i] \in S
  OBVIOUS
<1>3. SubSeq(b, 1, 3) \in Seq(S) /\ Len(SubSeq(b, 1, 3)) = 3 /\ \A i \in 1 .. 3 : SubSeq(b, 1, 3)[i] = b[i]
  <2>1. /\ SubSeq(b, 1, 3) \in Seq(S) /\ Len(SubSeq(b, 1, 3)) = IF 1 <= 3 THEN 3 - 1 + 1 ELSE 0
        /\ \A i \in 1 .. 3 - 1 + 1 : SubSeq(b, 1, 3)[i] = b[1 + i - 1]
    BY <1>2, SubSeqProperties
  <2>2. QED BY <2>1
<1>4. QED
  <2> DEFINE r == SubSeq(b, 1, 3)
             q == <<b[1], b[2], b[3]>>
  <2>1. q \in Seq(S) /\ Len(q) = 3 /\ \A i \in 1 .. 3 : q[i] = b[i]
    BY <1>1
  <2> HIDE DEF r, q
  <2>2. r \in Seq(S) /\ Len(r) = 3 /\ \A i \in 1 .. 3 : r[i] = b[i]
    BY <1>3 DEF r
  <2>3. r = q
    BY <2>1, <2>2, SeqEqual
  <2>4. QED BY <2>3 DEF r, q

LEMMA BlockLines ==
  ASSUME NEW e
  PROVE  /\ LineOf(<<EventLine(e), NL, DataLine(e)>>, "event") = e
         /\ LineOf(<<EventLine(e), NL, DataLine(e)>>, "data") = e
<1> DEFINE block == <<EventLine(e), NL, DataLine(e)>>
<1>1. DOMAIN block = {1, 2, 3} /\ block[1] = EventLine(e) /\ block[2] = NL /\ block[3] = DataLine(e)
  OBVIOUS
<1>2. /\ EventLine(e).line = "event" /\ NL.line = "end" /\ DataLine(e).line = "data"
      /\ EventLine(e).of = e /\ DataLine(e).of = e
  BY DEF EventLine, DataLine, NL
<1> HIDE DEF block
<1>3. {i \in DOMAIN block : block[i].line = "event"} = {1}
  BY <1>1, <1>2
<1>4. {i \in DOMAIN block : block[i].line = "data"} = {3}
  BY <1>1, <1>2
<1>5. Max({1}) = 1 /\ Max({3}) = 3
  BY DEF Max
<1>6. LineOf(block, "event") = block[1].of /\ LineOf(block, "data") = block[3].of
  BY <1>3, <1>4, <1>5 DEF LineOf
<1>7. QED BY <1>1, <1>2, <1>6 DEF block

\* readSseEvents: the first block of the buffer is the first event that is left.
LEMMA FirstBlock ==
  ASSUME NEW b \in Seq(Chars), NEW w \in Seq(Chars), NEW rest \in Seq(Events),
         b \o w = Texts(rest), HasBlock(b)
  PROVE  \E e \in Events, t \in Seq(Events) :
           /\ rest = <<e>> \o t /\ LineOf(Block(b), "event") = e /\ Yields(Block(b))
           /\ Rest(b) \in Seq(Chars) /\ b = Text(e) \o Rest(b) /\ Rest(b) \o w = Texts(t)
<1>1. PICK k \in 1 .. Len(b) - 1 : b[k] = NL /\ b[k + 1] = NL
  BY DEF HasBlock, Separators
<1>2. rest # <<>>
  <2>1. ASSUME rest = <<>> PROVE FALSE
    <3>1. b \o w = <<>>
      BY <2>1, TextsEmpty
    <3>2. Len(b) >= 1 /\ Len(b \o w) = Len(b) + Len(w) /\ Len(w) \in Nat /\ Len(b) \in Nat
      BY <1>1
    <3>3. QED BY <3>1, <3>2
  <2>2. QED BY <2>1
<1>3. PICK e \in Events, t \in Seq(Events) : rest = <<e>> \o t /\ Texts(rest) = Text(e) \o Texts(t)
  BY <1>2, FirstEvent
<1>4. Texts(t) \in Seq(Chars)
  BY <1>3, TextsAppend
<1>5. b \o w = Text(e) \o Texts(t)
  BY <1>3
<1>6. Text(e) \in Seq(Chars) /\ Len(Text(e)) = 5
  BY TextTyped
<1>7. \A i \in 1 .. Len(b) : b[i] = (Text(e) \o Texts(t))[i]
  <2>1. \A i \in 1 .. Len(b) : b[i] = (b \o w)[i]
    OBVIOUS
  <2>2. QED BY <1>5, <2>1
<1>8. \A i \in 1 .. 5 : i <= Len(b) => b[i] = Text(e)[i]
  <2>1. \A i \in 1 .. 5 : (Text(e) \o Texts(t))[i] = Text(e)[i]
    <3>1. \A i \in 1 .. Len(Text(e)) : (Text(e) \o Texts(t))[i] = Text(e)[i]
      BY <1>4, <1>6, ConcatLeft, Zenon
    <3>2. QED BY <1>6, <3>1, Zenon
  <2>2. Len(b) \in Nat
    OBVIOUS
  <2>3. \A i \in 1 .. 5 : i <= Len(b) => i \in 1 .. Len(b)
    BY <2>2
  <2>4. QED BY <1>7, <2>1, <2>3
<1>9. EventLine(e) # NL /\ DataLine(e) # NL
  BY DEF EventLine, DataLine, NL
<1>10. k >= 4 /\ Len(b) >= 5
  <2>1. Len(b) \in Nat /\ k \in Nat /\ k + 1 <= Len(b)
    BY <1>1
  <2>2. k # 1
    BY <1>1, <1>8, <1>9, <2>1, TextTyped
  <2>3. k # 2
    BY <1>1, <1>8, <1>9, <2>1, TextTyped
  <2>4. k # 3
    BY <1>1, <1>8, <1>9, <2>1, TextTyped
  <2>5. QED BY <1>1, <2>1, <2>2, <2>3, <2>4
<1>11. b[1] = EventLine(e) /\ b[2] = NL /\ b[3] = DataLine(e) /\ b[4] = NL /\ b[5] = NL
  BY <1>8, <1>10, TextTyped
<1>12. Min(Separators(b)) = 4
  <2>1. 4 \in Separators(b)
    BY <1>10, <1>11 DEF Separators
  <2>2. \A i \in Separators(b) : i \in Nat /\ i >= 4
    <3> SUFFICES ASSUME NEW i \in Separators(b), ~(i >= 4) PROVE FALSE
      BY DEF Separators
    <3>1. i \in {1, 2, 3} /\ b[i] = NL /\ b[i + 1] = NL
      BY DEF Separators
    <3>2. QED BY <1>9, <1>11, <3>1
  <2>3. \A x \in Separators(b) : (\A y \in Separators(b) : x <= y) => x = 4
    BY <2>1, <2>2
  <2>4. QED BY <2>1, <2>2, <2>3 DEF Min
<1> DEFINE block == <<EventLine(e), NL, DataLine(e)>>
<1>13. Block(b) = block
  <2>1. Block(b) = SubSeq(b, 1, 3)
    BY <1>12 DEF Block
  <2>2. SubSeq(b, 1, 3) = <<b[1], b[2], b[3]>>
    <3>1. Len(b) >= 3
      BY <1>10
    <3>2. QED BY <3>1, ThreeFirst
  <2>3. QED BY <1>11, <2>1, <2>2
<1>14. Rest(b) = SubSeq(b, 6, Len(b))
  BY <1>12 DEF Rest
<1>15. b = Text(e) \o Rest(b) /\ Rest(b) \in Seq(Chars)
  <2> DEFINE x == Text(e)
  <2>1. x \in Seq(Chars) /\ Len(x) = 5 /\ \A i \in 1 .. 5 : b[i] = x[i]
    BY <1>6, <1>8, <1>10
  <2> HIDE DEF x
  <2>2. /\ SubSeq(b, Len(x) + 1, Len(b)) \in Seq(Chars)
        /\ b = x \o SubSeq(b, Len(x) + 1, Len(b))
    <3>1. Len(x) <= Len(b) /\ \A i \in 1 .. Len(x) : b[i] = x[i]
      BY <1>10, <2>1
    <3>2. QED BY <2>1, <3>1, PrefixSplit
  <2>3. Len(x) + 1 = 6
    BY <2>1
  <2>4. QED BY <1>14, <2>2, <2>3 DEF x
<1>16. Rest(b) \o w = Texts(t)
  <2>1. (Text(e) \o Rest(b)) \o w = Text(e) \o Texts(t)
    BY <1>5, <1>15, Zenon
  <2>2. Rest(b) \in Seq(Chars) /\ Text(e) \in Seq(Chars)
    BY <1>6, <1>15
  <2>3. QED BY <1>4, <2>1, <2>2, ConcatCancel, Zenon
<1>17. e # "" /\ LineOf(block, "event") = e /\ LineOf(block, "data") = e
  BY BlockLines, ProgressAssumption DEF Events
<1>18. Yields(Block(b)) /\ LineOf(Block(b), "event") = e
  BY <1>13, <1>17 DEF Yields
<1>19. QED BY <1>3, <1>15, <1>16, <1>18

\* The stream stays, or its question is over.
LEMMA StreamFrame ==
  ASSUME StreamInv, UNCHANGED <<chat, stream>> \/ chat'.at \notin {"posted", "reading"}
  PROVE  StreamInv'
<1>1. CASE UNCHANGED <<chat, stream>>
  <2>1. /\ chat' = chat /\ handled' = handled /\ written' = written
        /\ buffer' = buffer /\ wire' = wire
    BY <1>1 DEF stream
  <2>2. QED BY <2>1, Zenon DEF StreamInv
<1>2. CASE chat'.at \notin {"posted", "reading"}
  BY <1>2, Zenon DEF StreamInv
<1>3. QED BY <1>1, <1>2

LEMMA OverStream ==
  ASSUME Finally
  PROVE  chat'.at \notin {"posted", "reading"}
  BY FinallyNoChat DEF NoChat

LEMMA ReleasedStream ==
  ASSUME StreamInv, NEW p, Released(p) \/ UNCHANGED Sending
  PROVE  StreamInv'
  BY StreamFrame, OverStream DEF Released, Sending

\* What the run writes is the next event of the text.
LEMMA WriteStream ==
  ASSUME StreamInv, chat.at = "reading", NEW e \in Events, Write(e),
         UNCHANGED <<chat, buffer, handled>>
  PROVE  StreamInv'
<1>1. /\ handled \in Seq(Events) /\ written \in Seq(Events)
      /\ buffer \in Seq(Chars) /\ wire \in Seq(Chars)
      /\ Texts(handled) \o (buffer \o wire) = Texts(written)
  BY DEF StreamInv
<1>2. PICK rest \in Seq(Events) : buffer \o wire = Texts(rest) /\ written = handled \o rest
  BY DEF StreamInv
<1>3. written' = Append(written, e) /\ wire' = wire \o Text(e)
  BY DEF Write
<1> DEFINE x == Text(e)
<1>4. x \in Seq(Chars) /\ Texts(handled) \in Seq(Chars)
  BY <1>1, TextTyped, TextsAppend
<1> HIDE DEF x
<1>5. wire \o x \in Seq(Chars) /\ buffer \o wire \in Seq(Chars)
  BY <1>1, <1>4
<1>6. (buffer \o wire) \o x = buffer \o (wire \o x)
  <2>1. buffer \in Seq(Chars) /\ wire \in Seq(Chars)
    BY <1>1, Zenon
  <2>2. QED BY <1>4, <2>1
<1>7. (Texts(handled) \o (buffer \o wire)) \o x = Texts(handled) \o ((buffer \o wire) \o x)
  <2> DEFINE h == Texts(handled)
             v == buffer \o wire
  <2>1. h \in Seq(Chars) /\ v \in Seq(Chars)
    BY <1>4, <1>5
  <2> HIDE DEF h, v
  <2>2. (h \o v) \o x = h \o (v \o x)
    BY <1>4, <2>1
  <2>3. QED BY <2>2 DEF h, v
<1>8. Texts(Append(written, e)) = Texts(written) \o x
  BY <1>1, TextsAppend DEF x
<1>9. Texts(Append(rest, e)) = Texts(rest) \o x
  BY TextsAppend DEF x
<1>10. wire' = wire \o x
  BY <1>3 DEF x
<1>11. Texts(handled) \o (buffer \o wire') = Texts(written')
  BY <1>1, <1>3, <1>6, <1>7, <1>8, <1>10, Zenon
<1>12. buffer \o wire' = Texts(Append(rest, e))
  BY <1>2, <1>6, <1>9, <1>10, Zenon
<1>13. Append(rest, e) \in Seq(Events) /\ written' \in Seq(Events)
  BY <1>1, <1>3
<1>14. wire' \in Seq(Chars)
  BY <1>5, <1>10
<1>15. /\ handled' \in Seq(Events) /\ written' \in Seq(Events)
       /\ buffer' \in Seq(Chars) /\ wire' \in Seq(Chars)
       /\ Texts(handled') \o (buffer' \o wire') = Texts(written')
  BY <1>1, <1>11, <1>13, <1>14
<1>16. \E r \in Seq(Events) : buffer' \o wire' = Texts(r) /\ written' = handled' \o r
  <2>1. buffer' \o wire' = Texts(Append(rest, e))
    BY <1>12
  <2>2. Append(handled \o rest, e) = handled \o Append(rest, e)
    <3>1. handled \in Seq(Events) /\ rest \in Seq(Events)
      BY <1>1, <1>2, Zenon
    <3>2. QED BY <3>1
  <2>3. written' = handled' \o Append(rest, e)
    BY <1>2, <1>3, <2>2, Zenon
  <2>4. QED BY <1>13, <2>1, <2>3
<1>17. QED BY <1>15, <1>16 DEF StreamInv

\* What is received stands before what is still to come.
LEMMA ReceiveStream ==
  ASSUME StreamInv, Receive
  PROVE  StreamInv'
<1>1. /\ chat.at = "reading" /\ UNCHANGED <<chat, written, handled>>
      /\ handled \in Seq(Events) /\ written \in Seq(Events)
      /\ buffer \in Seq(Chars) /\ wire \in Seq(Chars)
      /\ Texts(handled) \o (buffer \o wire) = Texts(written)
      /\ \E rest \in Seq(Events) : buffer \o wire = Texts(rest) /\ written = handled \o rest
  BY DEF StreamInv, Receive
<1>2. PICK n \in 1 .. Len(wire) : /\ buffer' = buffer \o SubSeq(wire, 1, n)
                                  /\ wire' = SubSeq(wire, n + 1, Len(wire))
  BY DEF Receive
<1>3. SubSeq(wire, 1, n) \in Seq(Chars) /\ SubSeq(wire, n + 1, Len(wire)) \in Seq(Chars)
  BY <1>1
<1>4. SubSeq(wire, 1, n) \o SubSeq(wire, n + 1, Len(wire)) = wire
  <2> DEFINE s == wire
             m == Len(s)
  <2>1. s \in Seq(Chars) /\ m \in Nat /\ n \in Nat /\ 1 <= n /\ n <= m
    BY <1>1
  <2>2. SubSeq(s, 1, m) = s
    BY <2>1, SubSeqFull
  <2>3. 1 \in 1 .. m + 1 /\ n \in 1 - 1 .. m /\ m \in n .. m
    BY <2>1
  <2> HIDE DEF s
  <2>4. SubSeq(s, 1, n) \o SubSeq(s, n + 1, m) = SubSeq(s, 1, m)
    BY <2>1, <2>3, ConcatAdjacentSubSeq
  <2>5. QED BY <2>2, <2>4 DEF s
<1>5. buffer' \o wire' = buffer \o wire
  <2> DEFINE x == SubSeq(wire, 1, n)
             y == SubSeq(wire, n + 1, Len(wire))
  <2>1. x \in Seq(Chars) /\ y \in Seq(Chars) /\ x \o y = wire /\ buffer' = buffer \o x /\ wire' = y
    BY <1>2, <1>3, <1>4
  <2> HIDE DEF x, y
  <2>2. (buffer \o x) \o y = buffer \o (x \o y)
    <3>1. buffer \in Seq(Chars) /\ x \in Seq(Chars) /\ y \in Seq(Chars)
      BY <1>1, <2>1, Zenon
    <3>2. QED BY <3>1
  <2>3. QED BY <2>1, <2>2, Zenon
<1>6. buffer' \in Seq(Chars) /\ wire' \in Seq(Chars)
  BY <1>1, <1>2, <1>3
<1>7. QED
  <2>1. Texts(handled') \o (buffer' \o wire') = Texts(written')
    BY <1>1, <1>5
  <2>2. \E rest \in Seq(Events) : buffer' \o wire' = Texts(rest) /\ written' = handled' \o rest
    BY <1>1, <1>5
  <2>3. QED BY <1>1, <1>6, <2>1, <2>2 DEF StreamInv

\* What is handled is the event whose text leaves the buffer.
LEMMA NextEventStream ==
  ASSUME StreamInv, NextEvent
  PROVE  StreamInv'
<1>1. /\ chat.at = "reading" /\ UNCHANGED <<chat, wire, written>>
      /\ HasBlock(buffer) /\ buffer' = Rest(buffer)
      /\ handled \in Seq(Events) /\ written \in Seq(Events)
      /\ buffer \in Seq(Chars) /\ wire \in Seq(Chars)
      /\ Texts(handled) \o (buffer \o wire) = Texts(written)
  BY DEF StreamInv, NextEvent
<1>2. PICK rest \in Seq(Events) : buffer \o wire = Texts(rest) /\ written = handled \o rest
  BY <1>1 DEF StreamInv
<1>3. PICK e \in Events, t \in Seq(Events) :
        /\ rest = <<e>> \o t /\ LineOf(Block(buffer), "event") = e /\ Yields(Block(buffer))
        /\ Rest(buffer) \in Seq(Chars) /\ buffer = Text(e) \o Rest(buffer)
        /\ Rest(buffer) \o wire = Texts(t)
  <2>1. \E e \in Events, t \in Seq(Events) :
          /\ rest = <<e>> \o t /\ LineOf(Block(buffer), "event") = e /\ Yields(Block(buffer))
          /\ Rest(buffer) \in Seq(Chars) /\ buffer = Text(e) \o Rest(buffer)
          /\ Rest(buffer) \o wire = Texts(t)
    BY <1>1, <1>2, FirstBlock, Zenon
  <2>2. QED BY <2>1
<1>4. handled' = Append(handled, e)
  BY <1>3 DEF NextEvent
<1>5. Texts(handled') = Texts(handled) \o Text(e) /\ Texts(handled) \in Seq(Chars)
  BY <1>1, <1>4, TextsAppend
<1>6. Texts(handled') \o (buffer' \o wire') = Texts(written')
  <2> DEFINE x == Text(e)
             r == Rest(buffer)
             h == Texts(handled)
  <2>1. x \in Seq(Chars) /\ r \in Seq(Chars) /\ h \in Seq(Chars) /\ wire \in Seq(Chars)
    BY <1>1, <1>3, <1>5, TextTyped
  <2>2. buffer = x \o r /\ h \o (buffer \o wire) = Texts(written)
    BY <1>1, <1>3
  <2>3. Texts(handled') = h \o x /\ buffer' = r /\ wire' = wire /\ written' = written
    BY <1>1, <1>5
  <2> HIDE DEF x, r, h
  <2>4. (h \o x) \o (r \o wire) = h \o ((x \o r) \o wire)
    <3>1. (x \o r) \o wire = x \o (r \o wire) /\ r \o wire \in Seq(Chars)
      BY <2>1
    <3> DEFINE v == r \o wire
    <3>2. v \in Seq(Chars)
      BY <3>1
    <3> HIDE DEF v
    <3>3. (h \o x) \o v = h \o (x \o v)
      BY <2>1, <3>2
    <3>4. QED BY <3>1, <3>3 DEF v
  <2>5. QED BY <2>2, <2>3, <2>4, Zenon
<1>7. handled' \in Seq(Events)
  BY <1>1, <1>4
<1>8. \E s \in Seq(Events) : buffer' \o wire' = Texts(s) /\ written' = handled' \o s
  <2>1. handled \o (<<e>> \o t) = Append(handled, e) \o t
    <3>1. handled \in Seq(Events) /\ t \in Seq(Events) /\ e \in Events
      BY <1>1, <1>3, Zenon
    <3>2. QED BY <3>1
  <2>2. written' = handled' \o t
    BY <1>1, <1>2, <1>3, <1>4, <2>1, Zenon
  <2>3. QED BY <1>1, <1>3, <2>2
<1>9. buffer' \in Seq(Chars)
  BY <1>1, <1>3
<1>10. QED BY <1>1, <1>6, <1>7, <1>8, <1>9 DEF StreamInv

LEMMA StreamStep ==
  ASSUME TypeInv, ChatInv, StreamInv, [Next]_vars
  PROVE  StreamInv'
<1>1. CASE UNCHANGED <<chat, stream>>
  BY <1>1, StreamFrame
<1>2. CASE Finally
  BY <1>2, StreamFrame, OverStream
<1>3. ASSUME NEW p, Turn(p)
      PROVE  StreamInv'
  BY <1>3, ReleasedStream DEF Turn
<1>4. CASE Send
  <2>1. PICK n : chat' = [question |-> n, portfolio |-> portfolioId, at |-> "posted"]
    BY <1>4 DEF Send
  <2>2. chat'.at = "posted"
    BY <2>1
  <2>3. buffer' = <<>> /\ wire' = <<>> /\ written' = <<>> /\ handled' = <<>>
    BY <1>4 DEF Send
  <2>4. QED BY <2>2, <2>3 DEF StreamInv
<1>5. CASE EndOfStream
  <2>1. CASE chat' = [chat EXCEPT !.at = "refreshing"]
    <3>1. chat \in Chats
      BY <1>5, EndOfStreamStep DEF ChatInv, NoChat
    <3>2. chat'.at = "refreshing"
      BY <2>1, <3>1 DEF Chats
    <3>3. QED BY <3>2, StreamFrame
  <2>2. QED BY <1>2, <1>5, <2>1, EndOfStreamStep
<1>6. CASE Timeout \/ ConnectionLost
  BY <1>2, <1>6 DEF Timeout, ConnectionLost, GiveUp
<1>7. ASSUME NEW n \in Questions, Refuse(n)
      PROVE  StreamInv'
  BY <1>2, <1>7 DEF Refuse
<1>8. ASSUME NEW n \in Questions, Record(n)
      PROVE  StreamInv'
  <2>1. CASE Client(n)
    <3>1. chat \in Chats /\ chat.at = "posted" /\ chat' = [chat EXCEPT !.at = "reading"]
      BY <1>8, <2>1, PostedClient DEF Record
    <3>2. chat'.at = "reading"
      BY <3>1 DEF Chats
    <3>3. UNCHANGED stream
      BY <1>8 DEF Record
    <3>4. handled' = <<>> /\ written' = <<>> /\ buffer' = <<>> /\ wire' = <<>>
      BY <3>1, <3>3 DEF StreamInv, stream
    <3>5. <<>> \o (<<>> \o <<>>) = <<>> /\ <<>> \o <<>> = <<>>
      OBVIOUS
    <3>6. <<>> \in Seq(Events) /\ <<>> \in Seq(Chars)
      OBVIOUS
    <3>7. QED BY <3>2, <3>4, <3>5, <3>6, TextsEmpty DEF StreamInv
  <2>2. CASE ~Client(n)
    BY <1>1, <1>8, <2>2 DEF Record
  <2>3. QED BY <2>1, <2>2
<1>9. ASSUME NEW n \in Questions, run[n].at = "running", Client(n), NEW e \in Events, Write(e),
             UNCHANGED <<chat, buffer, handled>>
      PROVE  StreamInv'
  BY <1>9, PostedClient, WriteStream
<1>10. ASSUME NEW n \in Questions, Progress(n) \/ Answer(n) \/ Fail(n)
       PROVE  StreamInv'
  <2>1. run[n].at = "running" /\ UNCHANGED <<chat, buffer, handled>>
    BY <1>10 DEF Progress, Answer, Fail
  <2>2. CASE UNCHANGED <<written, wire>>
    BY <1>1, <2>1, <2>2 DEF stream
  <2>3. CASE Client(n) /\ \E e \in Events : Write(e)
    BY <1>9, <2>1, <2>3
  <2>4. QED BY <1>10, <2>2, <2>3 DEF Progress, Answer, Fail, Events
<1>11. ASSUME NEW p \in Portfolios, Serve(p) \/ Collect(p)
       PROVE  StreamInv'
  BY <1>1, <1>11 DEF Serve, Collect
<1>12. ASSUME NEW p \in Portfolios, Settle(p) \/ Lose(p)
       PROVE  StreamInv'
  BY <1>12, ReleasedStream DEF Settle, Lose
<1>13. ASSUME NEW n \in Clears, Cleared(n)
       PROVE  StreamInv'
  BY <1>13, ReleasedStream DEF Cleared
<1>14. CASE \/ OpenDrawer \/ CloseDrawer \/ Clear \/ UNCHANGED vars
            \/ \E n \in Clears : ServeClear(n) \/ ClearLost(n)
  BY <1>1, <1>14 DEF OpenDrawer, CloseDrawer, Clear, ServeClear, ClearLost, vars
<1>15. ASSUME NEW n \in Questions, Abandon(n)
       PROVE  StreamInv'
  BY <1>1, <1>15 DEF Abandon
<1>16. CASE HideSelected \/ \E p \in Portfolios : SelectPortfolio(p)
  BY <1>3, <1>16 DEF HideSelected, SelectPortfolio
<1>17. CASE Receive
  BY <1>17, ReceiveStream
<1>18. CASE NextEvent
  BY <1>18, NextEventStream
<1>19. QED
  BY <1>4, <1>5, <1>6, <1>7, <1>8, <1>10, <1>11, <1>12, <1>13, <1>14, <1>15, <1>16, <1>17,
     <1>18
  DEF Next, Frame, User, Sender, Clearing, Loss, Running, Fetching

-----------------------------------------------------------------------------
\* The outcome of the run.

LEMMA ToSetAppend ==
  ASSUME NEW S, NEW s \in Seq(S), NEW e \in S
  PROVE  ToSet(Append(s, e)) = ToSet(s) \cup {e}
<1>1. /\ Len(s) \in Nat /\ DOMAIN s = 1 .. Len(s)
      /\ DOMAIN Append(s, e) = DOMAIN s \cup {Len(s) + 1}
  OBVIOUS
<1>2. (\A i \in DOMAIN s : Append(s, e)[i] = s[i]) /\ Append(s, e)[Len(s) + 1] = e
  OBVIOUS
<1>3. QED BY <1>1, <1>2 DEF ToSet

\* The stream, the error and the run of the question stay, or the reading is over.
LEMMA OutcomeFrame ==
  ASSUME OutcomeInv,
         \/ chat'.at # "reading"
         \/ UNCHANGED <<chat, written, handled, error>> /\ run'[chat.question] = run[chat.question]
  PROVE  OutcomeInv'
  BY DEF OutcomeInv

LEMMA OutcomeReleased ==
  ASSUME OutcomeInv, NEW p, Released(p) \/ UNCHANGED Sending, UNCHANGED <<error, run>>
  PROVE  OutcomeInv'
<1>1. CASE Finally
  BY <1>1, OverStream, OutcomeFrame
<1>2. CASE UNCHANGED Sending
  BY <1>2, OutcomeFrame DEF Sending, stream
<1>3. QED BY <1>1, <1>2 DEF Released

\* A run goes on: no other run is touched, and only Answer and Fail end it.
LEMMA GoesElsewhere ==
  ASSUME ChatInv, chat.at = "reading", NEW n \in Questions, NEW to, Goes(n, to), ~Client(n)
  PROVE  run'[chat.question] = run[chat.question]
<1>1. chat.question \in Questions /\ chat.question # n
  BY DEF ChatInv, Client, Chats, NoChat
<1>2. QED BY <1>1 DEF Goes, ChatInv

LEMMA OutcomeStep ==
  ASSUME ChatInv, StreamInv, OutcomeInv, TypeInv, [Next]_vars
  PROVE  OutcomeInv'
<1> USE DEF server, nav, drawer, bounds
<1>1. CASE chat'.at # "reading"
  BY <1>1, OutcomeFrame
<1>2. CASE Finally
  BY <1>2, OverStream, OutcomeFrame
<1>3. ASSUME NEW p, Turn(p), UNCHANGED <<error, run>>
      PROVE  OutcomeInv'
  BY <1>3, OutcomeReleased DEF Turn
<1>4. CASE Send
  <2>1. PICK n : chat' = [question |-> n, portfolio |-> portfolioId, at |-> "posted"]
    BY <1>4 DEF Send
  <2>2. chat'.at = "posted"
    BY <2>1
  <2>3. QED BY <1>1, <2>2
<1>5. CASE EndOfStream
  <2>1. CASE chat' = [chat EXCEPT !.at = "refreshing"]
    <3>1. chat \in Chats
      BY <1>5, EndOfStreamStep DEF ChatInv, NoChat
    <3>2. chat'.at = "refreshing"
      BY <2>1, <3>1 DEF Chats
    <3>3. QED BY <1>1, <3>2
  <2>2. QED BY <1>2, <1>5, <2>1, EndOfStreamStep
<1>6. CASE Timeout \/ ConnectionLost
  BY <1>2, <1>6 DEF Timeout, ConnectionLost, GiveUp
<1>7. ASSUME NEW n \in Questions, Refuse(n)
      PROVE  OutcomeInv'
  BY <1>2, <1>7 DEF Refuse
<1>8. ASSUME NEW n \in Questions, Record(n)
      PROVE  OutcomeInv'
  <2>1. CASE Client(n)
    <3>1. chat \in Chats /\ chat.at = "posted" /\ chat' = [chat EXCEPT !.at = "reading"]
          /\ chat.question = n
      BY <1>8, <2>1, PostedClient DEF Record
    <3>2. chat'.question = n
      BY <3>1 DEF Chats
    <3>3. run'[n].at # "done"
      <4>1. run[n] \in Runs
        BY <1>8, RunIsRun DEF Record
      <4>2. run'[n] = [run[n] EXCEPT !.at = "running"]
        BY <1>8 DEF Record, Goes, ChatInv
      <4>3. QED BY <4>1, <4>2 DEF Runs
    <3>4. handled' = <<>>
      BY <1>8, <3>1 DEF Record, stream, StreamInv
    <3>5. ToSet(handled') = {}
      BY <3>4 DEF ToSet
    <3>6. QED BY <3>2, <3>3, <3>5 DEF OutcomeInv
  <2>2. CASE ~Client(n) /\ chat.at = "reading"
    BY <1>8, <2>2, GoesElsewhere, OutcomeFrame DEF Record, stream
  <2>3. CASE ~Client(n) /\ chat.at # "reading"
    BY <1>1, <1>8, <2>3 DEF Record
  <2>4. QED BY <2>1, <2>2, <2>3
\* The run writes: what was written stays, and an outcome is one.
<1>9. ASSUME NEW n \in Questions, Client(n), run[n].at = "running", NEW e \in Events, Write(e),
             UNCHANGED <<chat, handled, error>>, e \in Outcomes \/ run' = run
      PROVE  OutcomeInv'
  <2>1. chat.at = "reading" /\ chat.question = n
    BY <1>9, PostedClient
  <2>2. written \in Seq(Events) /\ written' = Append(written, e)
    BY <1>9, <2>1 DEF StreamInv, Write
  <2>3. ToSet(written') = ToSet(written) \cup {e}
    BY <2>2, ToSetAppend
  <2>4. CASE e \in Outcomes
    BY <1>9, <2>1, <2>3, <2>4 DEF OutcomeInv
  <2>5. CASE run' = run
    BY <1>9, <2>1, <2>3, <2>5 DEF OutcomeInv
  <2>6. QED BY <1>9, <2>4, <2>5
<1>10. ASSUME NEW n \in Questions, Progress(n)
       PROVE  OutcomeInv'
  <2>1. PICK e \in ProgressEvents : Write(e)
    BY <1>10 DEF Progress
  <2>2. e \in Events
    BY DEF Events
  <2>3. QED BY <1>9, <1>10, <2>1, <2>2 DEF Progress
<1>11. ASSUME NEW n \in Questions, Answer(n) \/ Fail(n)
       PROVE  OutcomeInv'
  <2>1. run[n].at = "running" /\ UNCHANGED <<chat, handled, error>> /\ Goes(n, "done")
    BY <1>11 DEF Answer, Fail
  <2>2. CASE Client(n)
    <3>1. PICK e \in Outcomes : Write(e)
      BY <1>11, <2>2 DEF Answer, Fail, Outcomes
    <3>2. e \in Events
      BY DEF Events, Outcomes
    <3>3. QED BY <1>9, <2>1, <2>2, <3>1, <3>2
  <2>3. CASE ~Client(n)
    <3>1. UNCHANGED written
      BY <1>11, <2>3 DEF Answer, Fail
    <3>2. CASE chat.at = "reading"
      BY <2>1, <2>3, <3>1, <3>2, GoesElsewhere, OutcomeFrame
    <3>3. CASE chat.at # "reading"
      BY <1>1, <2>1, <3>3
    <3>4. QED BY <3>2, <3>3
  <2>4. QED BY <2>2, <2>3
<1>12. ASSUME NEW n \in Questions, Abandon(n)
       PROVE  OutcomeInv'
  <2>1. Goes(n, "gone") /\ ~Client(n) /\ UNCHANGED <<chat, written, handled, error>>
    BY <1>12 DEF Abandon, stream
  <2>2. CASE chat.at = "reading"
    BY <2>1, <2>2, GoesElsewhere, OutcomeFrame
  <2>3. CASE chat.at # "reading"
    BY <1>1, <2>1, <2>3
  <2>4. QED BY <2>2, <2>3
<1>13. CASE HideSelected \/ \E p \in Portfolios : SelectPortfolio(p)
  BY <1>3, <1>13 DEF HideSelected, SelectPortfolio
<1>14. ASSUME NEW p \in Portfolios, Settle(p) \/ Lose(p)
       PROVE  OutcomeInv'
  BY <1>14, OutcomeReleased DEF Settle, Lose
<1>15. ASSUME NEW n \in Clears, Cleared(n)
       PROVE  OutcomeInv'
  BY <1>15, OutcomeReleased DEF Cleared
<1>16. CASE \/ OpenDrawer \/ CloseDrawer \/ Clear \/ UNCHANGED vars
            \/ \E n \in Clears : ServeClear(n) \/ ClearLost(n)
            \/ \E p \in Portfolios : Serve(p) \/ Collect(p)
  BY <1>16, OutcomeFrame
  DEF OpenDrawer, CloseDrawer, Clear, ServeClear, ClearLost, Serve, Collect, stream, vars
<1>17. CASE Receive
  BY <1>17, OutcomeFrame DEF Receive
\* An error that is handled shows.
<1>18. CASE NextEvent
  <2>1. chat.at = "reading" /\ handled \in Seq(Events) /\ UNCHANGED <<chat, run, written>>
    BY <1>18 DEF NextEvent, StreamInv
  <2>2. CASE UNCHANGED <<handled, error>>
    BY <2>1, <2>2, OutcomeFrame
  <2>3. ASSUME NEW e, handled' = Append(handled, e),
               error' = IF e = "error" THEN "agent" ELSE error
        PROVE  OutcomeInv'
    <3>1. handled \in Seq(Events \cup {e}) /\ e \in Events \cup {e}
      BY <2>1
    <3>2. ToSet(handled') = ToSet(handled) \cup {e}
      BY <2>3, <3>1, ToSetAppend
    <3>3. QED BY <2>1, <2>3, <3>2 DEF OutcomeInv
  <2>4. QED BY <1>18, <2>2, <2>3 DEF NextEvent
<1>19. QED
  BY <1>4, <1>5, <1>6, <1>7, <1>8, <1>10, <1>11, <1>12, <1>13, <1>14, <1>15, <1>16, <1>17,
     <1>18
  DEF Next, Frame, User, Sender, Clearing, Loss, Running, Fetching

-----------------------------------------------------------------------------
LEMMA InitInv == Init => Inv
<1> SUFFICES ASSUME Init PROVE Inv
  OBVIOUS
<1>1. open = FALSE /\ chat = NoChat
  BY DEF Init
<1>2. CurrentInv
  BY <1>1 DEF CurrentInv
<1>3. QuestionInv
  BY <1>1 DEF QuestionInv, Waits, NoChat
<1>4. sending = FALSE /\ chat.at = "none"
  BY DEF Init, NoChat
<1>5. StreamInv
  BY <1>4 DEF StreamInv
<1>6. WaitInv
  BY <1>4 DEF WaitInv
<1>7. OutcomeInv
  BY <1>4 DEF OutcomeInv
<1>8. QED BY <1>2, <1>3, <1>5, <1>6, <1>7, TypeInit, ChatInit DEF Inv

LEMMA Invariance == Spec => []Inv
<1>1. Init => Inv
  BY InitInv
<1>2. Inv /\ [Next]_vars => Inv'
  BY TypeStep, ChatStep, CurrentStep, QuestionStep, WaitStep, StreamStep, OutcomeStep DEF Inv
<1>3. QED BY <1>1, <1>2, PTL DEF Spec

\* history observer, send, onSuccess of the clear: with nothing under way for the
\* selected portfolio, the open drawer shows the conversation that is stored,
\* whatever was sent, cleared, switched and lost before.
THEOREM ConversationIsStored == Spec => []ConversationCurrent
<1>1. ASSUME Inv PROVE ConversationCurrent
  <2> SUFFICES ASSUME NEW p \in Portfolios, open, portfolioId = p, ~InFlight(cache, Key(p)),
                      Entry(cache, Key(p)).data.status = "ok",
                      chat.portfolio # p, \A n \in Clears : ClearedId(n) # p, p \notin outdated
               PROVE  Shown = history[p]
    BY DEF ConversationCurrent
  <2>1. Fresh(Entry(cache, Key(p)), history[p])
    BY <1>1 DEF Inv, CurrentInv, Excused
  <2>2. Entry(cache, Key(p)).data.value = history[p]
    BY <2>1 DEF Fresh, InFlight
  <2>3. p # NoId
    BY PortfoliosAssumption
  <2>4. QED BY <2>2, <2>3 DEF Shown
<1>2. QED BY <1>1, Invariance, PTL

\* send: the await before finally.  The bubble of an answered question is taken
\* back by the arrival of the history only, which holds it.
THEOREM QuestionsStay == Spec => QuestionStaysVisible
<1>1. ASSUME Inv, Inv', [Next]_vars
      PROVE  [~Vanishes]_vars
  <2> SUFFICES ASSUME Vanishes PROVE FALSE
    OBVIOUS
  <2> DEFINE p == chat.portfolio
             n == chat.question
  <2>1. /\ portfolioId # NoId /\ portfolioId' = portfolioId
        /\ pendingUser # NoQuestion /\ pendingUser' = NoQuestion
        /\ Body.pending = pendingUser
    BY DEF Vanishes, Body
  <2>2. pendingUser = [question |-> n, portfolio |-> p] /\ chat \in Chats
    BY <1>1, <2>1 DEF Inv, ChatInv, NoChat, NoQuestion
  <2>3. chat' = NoChat
    <3>1. chat'.question = 0
      BY <1>1, <2>1 DEF Inv, ChatInv, NoQuestion
    <3>2. QED BY <1>1, <3>1 DEF Inv, ChatInv, Chats, Questions
  <2>4. /\ "answer" \in ToSet(handled) /\ clear' = clear /\ open /\ portfolioId = p
        /\ Message(n, "user") \in ToSet(history[p])
        /\ p \notin outdated' /\ Entry(cache', Key(p)).data.status = "ok"
        /\ Message(n, "user") \notin ToSet(Body'.messages)
    BY <2>1, <2>2 DEF Vanishes
  <2>5. p \in Portfolios /\ chat # NoChat /\ chat' # chat
    BY <2>2, <2>3 DEF Chats, NoChat
  <2>6. PICK q \in Portfolios : Settle(q)
    <3>1. ASSUME NEW q, Turn(q), q # portfolioId
          PROVE  FALSE
      BY <2>1, <3>1 DEF Turn
    <3>2. ~EndOfStream
      BY <1>1, <2>3, <2>4, EndOfStreamStep DEF Inv, Chats, NoChat
    <3>3. ~Send
      BY <2>3 DEF Send, NoChat
    <3>4. ~(Timeout \/ ConnectionLost)
      <4>1. p \notin outdated'
        BY <2>4
      <4>2. QED BY <4>1 DEF Timeout, ConnectionLost, GiveUp
    <3>5. ASSUME NEW m \in Questions, Refuse(m)
          PROVE  FALSE
      <4>1. chat.at = "posted"
        BY <1>1, <3>5, PostedClient DEF Refuse, Inv
      <4>2. ToSet(handled) = {}
        BY <1>1, <4>1 DEF Inv, ChatInv, ToSet
      <4>3. QED BY <2>4, <4>2
    <3>6. ASSUME NEW m \in Questions, Record(m)
          PROVE  FALSE
      <4>1. chat' = [chat EXCEPT !.at = "reading"]
        BY <2>5, <3>6 DEF Record
      <4>2. QED BY <2>2, <2>3, <4>1 DEF Chats, NoChat
    <3>7. ASSUME NEW m \in Clears, Cleared(m)
          PROVE  FALSE
      <4>1. clear[m].at = "cleared" /\ clear' = [clear EXCEPT ![m] = NoClear]
        BY <3>7 DEF Cleared
      <4>2. clear'[m].at = "none"
        BY <1>1, <4>1 DEF Inv, TypeInv, NoClear
      <4>3. QED BY <2>4, <4>1, <4>2
    <3>8. ASSUME NEW q \in Portfolios, Lose(q)
          PROVE  FALSE
      <4>1. Released(q) /\ outdated' = outdated \cup {q}
        BY <1>1, <2>5, <3>8, LoseStep DEF Inv, Sending
      <4>2. q = p
        BY <2>5, <4>1 DEF Released, Waits, Sending
      <4>3. QED BY <2>4, <4>1, <4>2
    <3>9. ASSUME NEW m \in Questions, Answer(m) \/ Fail(m) \/ Progress(m) \/ Abandon(m)
          PROVE  FALSE
      BY <2>5, <3>9 DEF Answer, Fail, Progress, Abandon
    <3>10. ASSUME NEW q \in Portfolios, Serve(q) \/ Collect(q)
           PROVE  FALSE
      BY <2>5, <3>10 DEF Serve, Collect
    <3>11. ~(OpenDrawer \/ CloseDrawer \/ Receive \/ NextEvent)
      BY <2>5 DEF OpenDrawer, CloseDrawer, Receive, NextEvent
    <3>12. ~(Clear \/ UNCHANGED vars) /\ \A m \in Clears : ~(ServeClear(m) \/ ClearLost(m))
      BY <2>5 DEF Clear, ServeClear, ClearLost, vars
    <3>13. ASSUME NEW q \in Portfolios, SelectPortfolio(q)
           PROVE  FALSE
      BY <3>1, <3>13 DEF SelectPortfolio
    <3>14. ~HideSelected
      BY <3>1 DEF HideSelected
    <3>15. QED
      BY <1>1, <3>2, <3>3, <3>4, <3>5, <3>6, <3>7, <3>8, <3>9, <3>10, <3>11, <3>12, <3>13, <3>14
      DEF Next, Frame, User, Sender, Clearing, Loss, Running, Fetching
  <2>7. Waits(p) /\ q = p
    BY <2>5, <2>6 DEF Settle, Released, Waits, Sending
  <2>8. /\ Entry(cache, Key(p)).fetch.at = "answered"
        /\ Entry(cache', Key(p)).data = Entry(cache, Key(p)).fetch.answer
        /\ outdated' = outdated
    BY <1>1, <2>6, <2>7, SettleStep DEF Settle, Inv
  <2>9. Message(n, "user") \in ToSet(Entry(cache', Key(p)).data.value)
    BY <1>1, <2>4, <2>5, <2>7, <2>8 DEF Inv, QuestionInv, HoldsQuestion
  <2>10. Body'.messages = Entry(cache', Key(p)).data.value
    <3>1. portfolioId' = p /\ portfolioId' # NoId
      BY <2>1, <2>4
    <3>2. Shown' = Entry(cache', Key(p)).data.value
      BY <2>4, <3>1 DEF Shown
    <3>3. QED BY <3>1, <3>2 DEF Body
  <2>11. QED BY <2>4, <2>9, <2>10
<1>2. QED BY <1>1, Invariance, PTL DEF Spec, QuestionStaysVisible

\* readSseEvents: however the network cuts the text, the events handled, in
\* their order, are those written, up to what is still on the way.
THEOREM StreamsAreIntact == Spec => []StreamIntact
<1>1. ASSUME Inv PROVE StreamIntact
  <2> SUFFICES ASSUME chat.at = "reading"
               PROVE  (Texts(handled) \o buffer) \o wire = Texts(written)
    BY DEF StreamIntact, Texts
  <2>1. /\ handled \in Seq(Events) /\ buffer \in Seq(Chars) /\ wire \in Seq(Chars)
        /\ Texts(handled) \o (buffer \o wire) = Texts(written)
    BY <1>1 DEF Inv, StreamInv
  <2> DEFINE h == Texts(handled)
  <2>2. h \in Seq(Chars)
    <3>1. "answer" \in Events
      BY DEF Events
    <3>2. QED BY <2>1, <3>1, TextsAppend
  <2> HIDE DEF h
  <2>3. (h \o buffer) \o wire = h \o (buffer \o wire)
    <3>1. buffer \in Seq(Chars) /\ wire \in Seq(Chars)
      BY <2>1, Zenon
    <3>2. QED BY <2>2, <3>1
  <2>4. QED BY <2>1, <2>3, Zenon DEF h
<1>2. QED BY <1>1, Invariance, PTL

\* readSseEvents: the events handled are the first of those written, each of them
\* once and in their order.
THEOREM EventsComeInOrder ==
  Spec => [](chat.at = "reading" => \E rest \in Seq(Events) : written = handled \o rest)
<1>1. Inv => (chat.at = "reading" => \E rest \in Seq(Events) : written = handled \o rest)
  BY DEF Inv, StreamInv
<1>2. QED BY <1>1, Invariance, PTL

\* Where the reader finds no block and nothing is to come, nothing is left.
LEMMA NothingIsLeft ==
  ASSUME StreamInv, StreamDone
  PROVE  handled = written
<1>1. /\ chat.at = "reading" /\ ~HasBlock(buffer) /\ wire = <<>>
      /\ handled \in Seq(Events) /\ buffer \in Seq(Chars)
  BY DEF StreamInv, StreamDone
<1>2. PICK rest \in Seq(Events) : buffer \o wire = Texts(rest) /\ written = handled \o rest
  BY <1>1 DEF StreamInv
<1>3. buffer = Texts(rest)
  BY <1>1, <1>2
<1>4. rest = <<>>
  <2> SUFFICES ASSUME rest # <<>> PROVE FALSE
    OBVIOUS
  <2>1. PICK e \in Events, t \in Seq(Events) : rest = <<e>> \o t /\ Texts(rest) = Text(e) \o Texts(t)
    BY FirstEvent
  <2> DEFINE x == Text(e)
             y == Texts(t)
  <2>2. x \in Seq(Chars) /\ Len(x) = 5 /\ x[4] = NL /\ x[5] = NL /\ y \in Seq(Chars)
    BY <2>1, TextTyped, TextsAppend
  <2>3. buffer = x \o y
    BY <1>3, <2>1
  <2> HIDE DEF x, y
  <2>4. Len(x \o y) = Len(x) + Len(y) /\ Len(y) \in Nat
    <3>1. x \in Seq(Chars) /\ y \in Seq(Chars)
      BY <2>2, Zenon
    <3>2. QED BY <3>1
  <2>5. \A i \in 1 .. Len(x) : (x \o y)[i] = x[i]
    BY <2>2, ConcatLeft, Zenon
  <2>6. Len(buffer) >= 5 /\ buffer[4] = NL /\ buffer[5] = NL
    <3> DEFINE z == x \o y
               n == Len(x)
    <3>1. n = 5 /\ Len(z) = n + Len(y) /\ Len(y) \in Nat
      BY <2>2, <2>4
    <3>2. z[4] = x[4] /\ z[5] = x[5]
      <4>1. 4 \in 1 .. n /\ 5 \in 1 .. n
        BY <3>1
      <4>2. QED BY <2>5, <4>1, Zenon
    <3>3. Len(z) >= 5
      <4> HIDE DEF z, n
      <4>1. QED BY <3>1
    <3>4. QED BY <2>2, <2>3, <3>2, <3>3, Zenon
  <2>7. 4 \in Separators(buffer)
    BY <1>1, <2>6 DEF Separators
  <2>8. QED BY <1>1, <2>7 DEF HasBlock
<1>5. QED BY <1>1, <1>2, <1>4

\* send: the stream ends with every event handled that was written.
THEOREM StreamsEndComplete == Spec => [][EndOfStream => handled = written]_vars
<1>1. Inv /\ [Next]_vars => [EndOfStream => handled = written]_vars
  BY NothingIsLeft DEF Inv, EndOfStream
<1>2. QED BY <1>1, Invariance, PTL DEF Spec

\* send: a question whose stream ends has its outcome handled: the answer, or the
\* error, which then shows.
OutcomeTold ==
  "answer" \in ToSet(handled) \/ ("error" \in ToSet(handled) /\ error' = "agent")

THEOREM OutcomesAreTold == Spec => [][EndOfStream => OutcomeTold]_vars
<1>1. ASSUME Inv, EndOfStream PROVE OutcomeTold
  <2>1. StreamDone /\ chat.at = "reading" /\ run[chat.question].at = "done" /\ error' = error
    BY <1>1 DEF EndOfStream, StreamDone
  <2>2. handled = written
    BY <1>1, <2>1, NothingIsLeft DEF Inv
  <2>3. QED BY <1>1, <2>1, <2>2 DEF Inv, OutcomeInv, Outcomes, OutcomeTold
<1>2. Inv /\ [Next]_vars => [EndOfStream => OutcomeTold]_vars
  BY <1>1
<1>3. QED BY <1>2, Invariance, PTL DEF Spec

\* The guards of what leads out of a question under way.
WayOut ==
  \/ chat.at = "reading" /\ (HasBlock(buffer) \/ wire # <<>> \/ StreamDone)
  \/ chat.question \in Questions /\ run[chat.question].at \in {"asked", "running"}
  \/ Waits(portfolioId) /\ InFlight(cache, Key(portfolioId))

\* send: input and buttons are locked only while an event can be read, the run
\* is at work, or a refetch of the selected portfolio's history is in flight.
THEOREM LockedHasWayOut == Spec => [](sending => WayOut)
<1>1. ASSUME Inv, sending PROVE WayOut
  <2>1. chat \in Chats
    BY <1>1 DEF Inv, ChatInv, WaitInv
  <2>2. chat.question \in Questions /\ chat.at \in {"posted", "reading", "refreshing"}
    BY <2>1 DEF Chats
  <2>3. CASE chat.at = "posted"
    BY <1>1, <2>2, <2>3 DEF Inv, ChatInv, WayOut
  <2>4. CASE chat.at = "reading"
    BY <1>1, <2>2, <2>4 DEF Inv, ChatInv, WayOut, StreamDone
  <2>5. CASE chat.at = "refreshing"
    BY <1>1, <2>5 DEF Inv, WaitInv, WayOut, Waits
  <2>6. QED BY <2>2, <2>3, <2>4, <2>5
<1>2. QED BY <1>1, Invariance, PTL

-----------------------------------------------------------------------------
\* The server's histories, as ChatLog.

\* A run that goes on changes the turns of its own portfolio only.
LEMMA TurnsMove ==
  ASSUME ChatInv, NEW n \in Questions, run[n].at \in {"asked", "running"},
         NEW to \in {"running", "done", "gone"}, Goes(n, to), NEW p \in Portfolios
  PROVE  /\ run[n].portfolio # p => TurnsOf(p)' = TurnsOf(p)
         /\ run[n].portfolio = p =>
              /\ TurnsOf(p)[n] = IF run[n].at = "asked" THEN "new" ELSE "asked"
              /\ TurnsOf(p)' =
                   [TurnsOf(p) EXCEPT ![n] = IF to = "running" THEN "asked" ELSE "over"]
<1>1. /\ run'[n].at = to /\ run'[n].portfolio = run[n].portfolio
      /\ \A m \in Questions \ {n} : run'[m] = run[m]
  BY GoesTyped
<1>2. QED BY <1>1 DEF TurnsOf

\* A question or an answer is written where it belongs, and nowhere else.
LEMMA StoreWritten ==
  ASSUME TypeInv, ChatInv, NEW n \in Questions, NEW p \in Portfolios
  PROVE  /\ Record(n) => IF run[n].portfolio = p THEN Store(p)!Ask(n)
                         ELSE UNCHANGED <<history[p], TurnsOf(p)>>
         /\ Answer(n) => IF run[n].portfolio = p THEN Store(p)!Reply(n)
                         ELSE UNCHANGED <<history[p], TurnsOf(p)>>
<1>1. history \in [Portfolios -> Conversations]
  BY DEF TypeInv
<1>2. ASSUME Record(n)
      PROVE  IF run[n].portfolio = p THEN Store(p)!Ask(n)
             ELSE UNCHANGED <<history[p], TurnsOf(p)>>
  <2>1. run[n].at = "asked" /\ Goes(n, "running")
    BY <1>2 DEF Record
  <2>2. CASE run[n].portfolio = p
    <3>1. history'[p] \in Store(p)!WithQuestion(history[p], n)
      BY <1>1, <1>2, <2>2 DEF Record
    <3>2. TurnsOf(p)[n] \in {"new"} /\ TurnsOf(p)' = [TurnsOf(p) EXCEPT ![n] = "asked"]
      BY <2>1, <2>2, TurnsMove
    <3>3. QED BY <2>2, <3>1, <3>2 DEF Store!Ask, Store!Goes
  <2>3. CASE run[n].portfolio # p
    <3>1. history'[p] = history[p]
      BY <1>1, <1>2, <2>3 DEF Record
    <3>2. QED BY <2>1, <2>3, <3>1, TurnsMove
  <2>4. QED BY <2>2, <2>3
<1>3. ASSUME Answer(n)
      PROVE  IF run[n].portfolio = p THEN Store(p)!Reply(n)
             ELSE UNCHANGED <<history[p], TurnsOf(p)>>
  <2>1. run[n].at = "running" /\ Goes(n, "done")
    BY <1>3 DEF Answer
  <2>2. CASE run[n].portfolio = p
    <3>1. history'[p] \in Store(p)!WithAnswer(history[p], n)
      BY <1>1, <1>3, <2>2 DEF Answer
    <3>2. TurnsOf(p)[n] \in {"asked"} /\ TurnsOf(p)' = [TurnsOf(p) EXCEPT ![n] = "over"]
      BY <2>1, <2>2, TurnsMove
    <3>3. QED BY <2>2, <3>1, <3>2 DEF Store!Reply, Store!Goes
  <2>3. CASE run[n].portfolio # p
    <3>1. history'[p] = history[p]
      BY <1>1, <1>3, <2>3 DEF Answer
    <3>2. QED BY <2>1, <2>3, <3>1, TurnsMove
  <2>4. QED BY <2>2, <2>3
<1>4. QED BY <1>2, <1>3

LEMMA StoreStep ==
  ASSUME TypeInv, ChatInv, [Next]_vars, NEW p \in Portfolios
  PROVE  [Store(p)!Next]_(Store(p)!vars)
<1> DEFINE unchanged == UNCHANGED <<history[p], TurnsOf(p)>>
<1>1. unchanged => [Store(p)!Next]_(Store(p)!vars)
  BY DEF Store!vars
<1>2. UNCHANGED <<history, run>> => unchanged
  BY DEF TurnsOf
<1>3. ASSUME NEW n \in Questions, Record(n)
      PROVE  Store(p)!Ask(n) \/ unchanged
  BY <1>3, StoreWritten
<1>4. ASSUME NEW n \in Questions, Answer(n)
      PROVE  Store(p)!Reply(n) \/ unchanged
  BY <1>4, StoreWritten
<1>5. ASSUME NEW n \in Questions, Fail(n) \/ Abandon(n) \/ Refuse(n)
      PROVE  Store(p)!Drop(n) \/ unchanged
  <2>1. PICK to \in {"done", "gone"} : Goes(n, to)
    BY <1>5 DEF Fail, Abandon, Refuse
  <2>2. history' = history /\ run[n].at \in {"asked", "running"}
    BY <1>5 DEF Fail, Abandon, Refuse
  <2>3. CASE run[n].portfolio = p
    <3>1. TurnsOf(p)[n] \in {"new", "asked"} /\ TurnsOf(p)' = [TurnsOf(p) EXCEPT ![n] = "over"]
      BY <2>1, <2>2, <2>3, TurnsMove
    <3>2. QED BY <2>2, <3>1 DEF Store!Drop, Store!Goes
  <2>4. CASE run[n].portfolio # p
    BY <2>1, <2>2, <2>4, TurnsMove
  <2>5. QED BY <2>3, <2>4
<1>6. ASSUME Send
      PROVE  unchanged
  <2>1. PICK n \in Questions :
          /\ run[n] = NoChat
          /\ run' = [run EXCEPT ![n] = [question |-> n, portfolio |-> portfolioId, at |-> "asked"]]
    BY <1>6 DEF Send
  <2>2. history' = history
    BY <1>6 DEF Send
  <2>3. run \in [Questions -> Runs \cup {NoChat}]
    BY DEF ChatInv
  <2>4. run[n].portfolio # p /\ run'[n].at = "asked" /\ \A m \in Questions \ {n} : run'[m] = run[m]
    BY <2>1, <2>3, PortfoliosAssumption DEF NoChat
  <2>5. QED BY <2>2, <2>4 DEF TurnsOf
<1>7. ASSUME NEW n \in Clears, ServeClear(n)
      PROVE  Store(p)!Clear \/ unchanged
  <2>1. history' = [history EXCEPT ![ClearedId(n)] = <<>>] /\ run' = run
    BY <1>7 DEF ServeClear
  <2>2. TurnsOf(p)' = TurnsOf(p)
    BY <2>1 DEF TurnsOf
  <2>3. history'[p] = <<>> \/ history'[p] = history[p]
    BY <2>1 DEF TypeInv
  <2>4. QED BY <2>2, <2>3 DEF Store!Clear
<1>8. Store(p)!Clear \/ (\E n \in Questions : Store(p)!Ask(n) \/ Store(p)!Reply(n) \/ Store(p)!Drop(n))
        => [Store(p)!Next]_(Store(p)!vars)
  BY DEF Store!Next
<1>9. ASSUME Next, ~UNCHANGED <<history, run>>
      PROVE  \/ Send \/ \E n \in Clears : ServeClear(n)
             \/ \E n \in Questions : Record(n) \/ Answer(n) \/ Fail(n) \/ Abandon(n) \/ Refuse(n)
  <2> USE DEF server
  <2>1. ~(Frame \/ Clear \/ Sender) /\ \A n \in Clears : ~Cleared(n)
    BY <1>9
    DEF Frame, SelectPortfolio, HideSelected, OpenDrawer, CloseDrawer, Clear, Sender, Receive,
        NextEvent, EndOfStream, Cleared
  <2>2. /\ ~(Timeout \/ ConnectionLost) /\ \A n \in Clears : ~ClearLost(n)
        /\ \A q \in Portfolios : ~(Lose(q) \/ Collect(q) \/ Fetching(q))
        /\ \A n \in Questions : ~Progress(n)
    BY <1>9
    DEF Timeout, ConnectionLost, GiveUp, ClearLost, Lose, Collect, Fetching, Serve, Settle, Progress
  <2>3. QED BY <1>9, <2>1, <2>2 DEF Next, User, Clearing, Loss, Running
<1>10. QED
  BY <1>1, <1>2, <1>3, <1>4, <1>5, <1>6, <1>7, <1>8, <1>9 DEF vars, server

LEMMA StoreIsLog ==
  ASSUME NEW p \in Portfolios
  PROVE  Spec => Store(p)!Spec
<1>1. Init => Store(p)!Init
  <2> SUFFICES ASSUME Init PROVE Store(p)!Init
    OBVIOUS
  <2>1. history[p] = <<>> /\ \A n \in Questions : run[n] = NoChat
    BY DEF Init
  <2>2. \A n \in Questions : run[n].portfolio # p
    BY <2>1, PortfoliosAssumption DEF NoChat
  <2>3. TurnsOf(p) = [n \in Questions |-> "new"]
    BY <2>2 DEF TurnsOf
  <2>4. QED BY <2>1, <2>3 DEF Store!Init
<1>2. Inv /\ [Next]_vars => [Store(p)!Next]_(Store(p)!vars)
  BY StoreStep DEF Inv
<1>3. QED BY <1>1, <1>2, Invariance, PTL DEF Spec, Store!Spec

\* send, the DELETE of the clear button and the runs they leave behind do to the
\* history of every portfolio what the chat service is shown to do, and one
\* portfolio's questions never reach another's history.
THEOREM DrawerUsesChatLog == Spec => \A p \in Portfolios : Store(p)!Spec
<1>1. ASSUME NEW p \in Portfolios
      PROVE  Spec => Store(p)!Spec
  BY StoreIsLog
<1>2. QED BY <1>1
=============================================================================
