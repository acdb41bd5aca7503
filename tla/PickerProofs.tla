---------------------------- MODULE PickerProofs ----------------------------
(***************************************************************************)
(* Proofs about Picker for any number of creations and of faults.          *)
(*                                                                         *)
(* A removal is two facts, the frame's and the storage's, and neither      *)
(* implies the other: a reload exchanges the one for the other.  That no   *)
(* cause-less duplicate is made rests on where each creation of the visit  *)
(* is: still waited for, unheard of, refused or failed, or answered, and   *)
(* then the page is about to go.                                           *)
(***************************************************************************)
EXTENDS Picker, SequenceTheorems, TLAPS

\* What was removed and did not come back is hidden here and in the storage,
\* and is not selected.
RemovedInv ==
  /\ removed \subseteq Ids
  /\ removed \ back \subseteq hiddenIds \cap storage
  /\ portfolioId \notin removed \ back

Askers == {"none", "wizard", "assistant", "nobody"}
Places == {"none", "sent", "made", "refused", "failed", "told"}

PostsInv == posts \in [Ids -> [by : Askers, at : Places]]

\* Only what the server has made, whole or in part, is listed.
RowsInv ==
  \A m \in Ids \cap rows : posts[m].at \notin {"none", "sent", "refused"}

\* Where a creation of this visit of the page can be.
MineInv ==
  /\ mine \subseteq Ids
  /\ \A m \in mine :
       /\ posts[m].by = "wizard"
       /\ \/ waiting = m
          \/ m \in unheard
          \/ posts[m].at \in {"refused", "failed"}
          \/ route = "leaving"

\* The page that waits is there.
WaitingInv == waiting # NoId => route # "elsewhere"

VisitInv == PostsInv /\ RowsInv /\ MineInv /\ WaitingInv

-----------------------------------------------------------------------------
\* Ids are numbered from one; zero is no portfolio.
LEMMA IdsArePositive == NoId \notin Ids
  BY BoundAssumption DEF Ids, NoId

-----------------------------------------------------------------------------
\* Removals.

LEMMA RemovedInit == Init => RemovedInv
  BY DEF Init, RemovedInv

\* A portfolio that the assistant or the wizard has made is selected; when it
\* had been removed it counts as come back.
LEMMA SelectedOnCreation ==
  ASSUME RemovedInv, NEW n \in Ids, OnCreated(n),
         UNCHANGED <<hiddenIds, storage, removed>>
  PROVE  RemovedInv'
  BY DEF RemovedInv, OnCreated

LEMMA RemovedStep ==
  ASSUME RemovedInv, [Next]_vars
  PROVE  RemovedInv'
<1> USE IdsArePositive
<1>1. CASE UNCHANGED <<portfolioId, hiddenIds, storage, removed, back>>
  BY <1>1 DEF RemovedInv
<1>2. ASSUME NEW id \in Ids, Select(id)
      PROVE  RemovedInv'
  BY <1>2 DEF Select, Shown, RemovedInv
<1>3. ASSUME NEW id \in Ids, Hide(id)
      PROVE  RemovedInv'
  BY <1>3 DEF Hide, RemovedInv
<1>4. ASSUME NEW id \in Ids, OtherTabHides(id)
      PROVE  RemovedInv'
  BY <1>4 DEF OtherTabHides, RemovedInv
<1>5. CASE Reload
  BY <1>5 DEF Reload, RemovedInv
<1>6. ASSUME NEW n \in Ids, Answer(n)
      PROVE  RemovedInv'
  <2>1. CASE OnCreated(n)
    BY <1>6, <2>1, SelectedOnCreation DEF Answer
  <2>2. CASE UNCHANGED <<posts, list, outdated, portfolioId, back, route>>
    BY <1>1, <1>6, <2>2 DEF Answer
  <2>3. QED BY <1>6, <2>1, <2>2 DEF Answer
<1>7. ASSUME NEW n \in Ids, AssistantAnswer(n)
      PROVE  RemovedInv'
  <2>1. CASE OnCreated(n)
    BY <1>7, <2>1, SelectedOnCreation DEF AssistantAnswer
  <2>2. CASE UNCHANGED <<list, outdated, portfolioId, back, route>>
    BY <1>1, <1>7, <2>2 DEF AssistantAnswer
  <2>3. QED BY <1>7, <2>1, <2>2 DEF AssistantAnswer
<1>8. CASE OpenWizard \/ LeaveWizard \/ OtherTabOpens
  BY <1>1, <1>8 DEF OpenWizard, LeaveWizard, OtherTabOpens, picker
<1>9. CASE TogglePanel \/ ServeList \/ SettleList \/ LoseList
  BY <1>1, <1>9 DEF TogglePanel, ServeList, SettleList, LoseList, picker
<1>10. ASSUME NEW n \in Ids,
              \/ Submit(n) \/ Build(n) \/ Create(n) \/ Reject(n) \/ Break(n)
              \/ AnswerLost(n) \/ AssistantLost(n)
       PROVE  RemovedInv'
  BY <1>1, <1>10
  DEF Submit, Posted, Build, Create, Reject, Break, AnswerLost, AssistantLost, picker
<1>11. CASE UNCHANGED vars
  BY <1>1, <1>11 DEF vars, picker
<1>12. QED
  BY <1>2, <1>3, <1>4, <1>5, <1>6, <1>7, <1>8, <1>9, <1>10, <1>11
  DEF Next, Frame, Creation

LEMMA RemovedInvariance == Spec => []RemovedInv
<1>1. Init => RemovedInv
  BY RemovedInit
<1>2. RemovedInv /\ [Next]_vars => RemovedInv'
  BY RemovedStep
<1>3. QED BY <1>1, <1>2, PTL DEF Spec

\* hidePortfolio: whatever is created, answered or reloaded, in this tab and
\* the other, a portfolio removed from the picker is neither listed nor
\* selected again, but for the two ways it may come back.
THEOREM RemovalsHold == Spec => []RemovedStaysRemoved
<1>1. RemovedInv => RemovedStaysRemoved
  BY DEF RemovedInv, RemovedStaysRemoved, Shown
<1>2. QED BY <1>1, RemovedInvariance, PTL

-----------------------------------------------------------------------------
\* Creations of one visit of the page.

LEMMA VisitInit == Init => VisitInv
  BY DEF Init, VisitInv, PostsInv, RowsInv, MineInv, WaitingInv, NoPost, Askers, Places

\* A creation's place and asker are all that a step of the server changes.
LEMMA AtTyped ==
  ASSUME PostsInv, NEW n \in Ids, NEW from \in Places, NEW to \in Places, At(n, from, to)
  PROVE  /\ PostsInv'
         /\ posts[n].at = from /\ posts'[n].at = to
         /\ \A m \in Ids : posts'[m].by = posts[m].by
         /\ \A m \in Ids : m # n => posts'[m] = posts[m]
  BY DEF PostsInv, At

LEMMA VisitStep ==
  ASSUME VisitInv, [Next]_vars
  PROVE  VisitInv'
<1> USE IdsArePositive
<1>1. CASE UNCHANGED <<page, posts, rows, unheard>>
  BY <1>1 DEF page, VisitInv, PostsInv, RowsInv, MineInv, WaitingInv
<1>2. CASE OpenWizard
  BY <1>2 DEF OpenWizard, Mounted, server, VisitInv, PostsInv, RowsInv, MineInv, WaitingInv
<1>3. CASE LeaveWizard
  BY <1>3 DEF LeaveWizard, Unmount, server, VisitInv, PostsInv, RowsInv, MineInv, WaitingInv
<1>4. CASE Reload
  <2>1. PostsInv' /\ \A m \in Ids : posts'[m].at = posts[m].at
    BY <1>4 DEF Reload, VisitInv, PostsInv, Askers
  <2>2. RowsInv'
    BY <1>4, <2>1 DEF Reload, VisitInv, RowsInv
  <2>3. MineInv' /\ WaitingInv'
    BY <1>4 DEF Reload, Unmount, MineInv, WaitingInv
  <2>4. QED BY <2>1, <2>2, <2>3 DEF VisitInv
<1>5. ASSUME NEW n \in Ids, Submit(n)
      PROVE  VisitInv'
  <2>1. /\ waiting = NoId /\ route # "elsewhere" /\ posts[n] = NoPost
        /\ posts' = [posts EXCEPT ![n] = [by |-> "wizard", at |-> "sent"]]
        /\ waiting' = n /\ mine' = mine \cup {n}
        /\ UNCHANGED <<route, rows, unheard>>
    BY <1>5 DEF Submit, Posted, NextId
  <2>2. PostsInv'
    BY <2>1 DEF VisitInv, PostsInv, Askers, Places
  <2>3. RowsInv'
    BY <2>1 DEF VisitInv, PostsInv, RowsInv, NoPost
  <2>4. MineInv'
    BY <2>1 DEF VisitInv, PostsInv, MineInv, NoPost
  <2>5. QED BY <2>1, <2>2, <2>3, <2>4 DEF VisitInv, WaitingInv
<1>6. ASSUME NEW n \in Ids, Build(n)
      PROVE  VisitInv'
  <2>1. /\ posts[n] = NoPost
        /\ posts' = [posts EXCEPT ![n] = [by |-> "assistant", at |-> "sent"]]
        /\ UNCHANGED <<route, waiting, mine, rows, unheard>>
    BY <1>6 DEF Build, NextId
  <2>2. PostsInv'
    BY <2>1 DEF VisitInv, PostsInv, Askers, Places
  <2>3. RowsInv'
    BY <2>1 DEF VisitInv, PostsInv, RowsInv, NoPost
  <2>4. MineInv'
    BY <2>1 DEF VisitInv, PostsInv, MineInv, NoPost
  <2>5. QED BY <2>1, <2>2, <2>3, <2>4 DEF VisitInv, WaitingInv
<1>7. ASSUME NEW n \in Ids, NEW to \in {"made", "refused", "failed"}, At(n, "sent", to),
             rows' = rows \/ (to # "refused" /\ rows' = rows \cup {n}),
             UNCHANGED <<page, unheard>>
      PROVE  VisitInv'
  <2>1. /\ PostsInv' /\ posts[n].at = "sent" /\ posts'[n].at = to
        /\ \A m \in Ids : posts'[m].by = posts[m].by
        /\ \A m \in Ids : m # n => posts'[m] = posts[m]
    BY <1>7, AtTyped DEF VisitInv, Places
  <2>2. RowsInv'
    BY <1>7, <2>1 DEF VisitInv, RowsInv
  <2>3. MineInv'
    BY <1>7, <2>1 DEF VisitInv, MineInv, page
  <2>4. QED BY <1>7, <2>1, <2>2, <2>3 DEF VisitInv, WaitingInv, page
<1>8. ASSUME NEW n \in Ids, Create(n) \/ Reject(n) \/ Break(n)
      PROVE  VisitInv'
  BY <1>7, <1>8 DEF Create, Reject, Break
<1>9. ASSUME NEW n \in Ids, Answer(n)
      PROVE  VisitInv'
  <2>1. waiting = n /\ waiting' = NoId /\ UNCHANGED <<mine, rows, unheard>>
    BY <1>9 DEF Answer
  <2>2. CASE At(n, "made", "told") /\ OnCreated(n)
    <3>1. /\ PostsInv' /\ posts'[n].at = "told"
          /\ \A m \in Ids : posts'[m].by = posts[m].by
          /\ \A m \in Ids : m # n => posts'[m] = posts[m]
      BY <2>2, AtTyped DEF VisitInv, Places
    <3>2. route' = "leaving"
      BY <2>1, <2>2 DEF OnCreated, Mounted, VisitInv, WaitingInv
    <3>3. RowsInv'
      BY <2>1, <3>1 DEF VisitInv, RowsInv
    <3>4. MineInv'
      BY <2>1, <3>1, <3>2 DEF VisitInv, MineInv
    <3>5. QED BY <2>1, <3>1, <3>3, <3>4 DEF VisitInv, WaitingInv
  <2>3. CASE posts[n].at \in {"refused", "failed"} /\ UNCHANGED <<posts, route>>
    BY <2>1, <2>3 DEF VisitInv, PostsInv, RowsInv, MineInv, WaitingInv
  <2>4. QED BY <1>9, <2>2, <2>3 DEF Answer
<1>10. ASSUME NEW n \in Ids, AssistantAnswer(n)
       PROVE  VisitInv'
  <2>1. posts[n].by = "assistant" /\ UNCHANGED <<waiting, mine, rows, unheard>>
    BY <1>10 DEF AssistantAnswer
  <2>2. /\ PostsInv' /\ posts[n].at \in {"made", "refused", "failed"}
        /\ posts'[n].at = "told"
        /\ \A m \in Ids : posts'[m].by = posts[m].by
        /\ \A m \in Ids : m # n => posts'[m] = posts[m]
    <3>1. PICK from \in {"made", "refused", "failed"} : At(n, from, "told")
      BY <1>10 DEF AssistantAnswer
    <3>2. QED BY <3>1, AtTyped DEF VisitInv, Places
  <2>3. \/ UNCHANGED route
        \/ route # "elsewhere" /\ route' = "leaving"
    BY <1>10 DEF AssistantAnswer, OnCreated, Mounted
  <2>4. RowsInv'
    BY <2>1, <2>2 DEF VisitInv, RowsInv
  <2>5. MineInv'
    BY <2>1, <2>2, <2>3 DEF VisitInv, MineInv
  <2>6. QED BY <2>1, <2>2, <2>3, <2>4, <2>5 DEF VisitInv, WaitingInv
<1>11. ASSUME NEW n \in Ids, AnswerLost(n)
       PROVE  VisitInv'
  BY <1>11 DEF AnswerLost, server, VisitInv, PostsInv, RowsInv, MineInv, WaitingInv
<1>12. ASSUME NEW n \in Ids, AssistantLost(n)
       PROVE  VisitInv'
  <2>1. /\ posts[n].by = "assistant"
        /\ posts' = [posts EXCEPT ![n].by = "nobody"]
        /\ UNCHANGED <<route, waiting, mine, rows, unheard>>
    BY <1>12 DEF AssistantLost
  <2>2. /\ PostsInv'
        /\ \A m \in Ids : posts'[m].at = posts[m].at
        /\ \A m \in Ids : posts[m].by = "wizard" => posts'[m].by = "wizard"
    BY <2>1 DEF VisitInv, PostsInv, Askers
  <2>3. RowsInv' /\ MineInv'
    BY <2>1, <2>2 DEF VisitInv, RowsInv, MineInv
  <2>4. QED BY <2>1, <2>2, <2>3 DEF VisitInv, WaitingInv
<1>13. CASE TogglePanel
  BY <1>13 DEF TogglePanel, server, VisitInv, PostsInv, RowsInv, MineInv, WaitingInv
<1>14. ASSUME NEW id \in Ids, Select(id) \/ Hide(id) \/ OtherTabHides(id)
       PROVE  VisitInv'
  BY <1>1, <1>14 DEF Select, Hide, OtherTabHides, server
<1>15. CASE OtherTabOpens \/ ServeList \/ SettleList \/ LoseList
  BY <1>1, <1>15 DEF OtherTabOpens, ServeList, SettleList, LoseList, server
<1>16. CASE UNCHANGED vars
  BY <1>1, <1>16 DEF vars, server
<1>17. QED
  BY <1>2, <1>3, <1>4, <1>5, <1>6, <1>8, <1>9, <1>10, <1>11, <1>12, <1>13, <1>14, <1>15, <1>16
  DEF Next, Frame, Creation

LEMMA VisitInvariance == Spec => []VisitInv
<1>1. Init => VisitInv
  BY VisitInit
<1>2. VisitInv /\ [Next]_vars => VisitInv'
  BY VisitStep
<1>3. QED BY <1>1, <1>2, PTL DEF Spec
\* submit, create.isPending: while a portfolio of this visit is listed, another
\* is posted only after an answer that did not arrive, a server error, or in the
\* moment between an answer and the change of route.
THEOREM OnePerVisit == Spec => DuplicateNeedsCause
<1>1. ASSUME VisitInv, [Next]_vars, NEW n \in Ids,
             posts[n] = NoPost, posts'[n].by = "wizard",
             NEW m \in mine \cap rows
      PROVE  m \in unheard \/ posts[m].at = "failed" \/ route = "leaving"
  <2>1. PICK k \in Ids : Submit(k)
    <3>1. ASSUME NEW k \in Ids, NEW from, NEW to, At(k, from, to)
          PROVE  posts'[n].by # "wizard"
      BY <1>1, <3>1 DEF VisitInv, PostsInv, At, NoPost
    <3>2. ASSUME NEW k \in Ids,
                 Create(k) \/ Reject(k) \/ Break(k) \/ Answer(k) \/ AssistantAnswer(k)
          PROVE  FALSE
      <4>1. \/ posts' = posts
            \/ \E from, to \in Places : At(k, from, to)
        BY <3>2 DEF Create, Reject, Break, Answer, AssistantAnswer, Places
      <4>2. QED BY <1>1, <3>1, <4>1 DEF NoPost
    <3>3. ASSUME NEW k \in Ids, Build(k) \/ AssistantLost(k) \/ AnswerLost(k)
          PROVE  FALSE
      BY <1>1, <3>3
      DEF Build, AssistantLost, AnswerLost, server, VisitInv, PostsInv, NoPost
    <3>4. ~Reload
      BY <1>1 DEF Reload, NoPost
    <3>5. posts' # posts
      BY <1>1 DEF NoPost
    <3>6. QED
      BY <1>1, <3>2, <3>3, <3>4, <3>5
      DEF Next, Frame, Creation, OpenWizard, LeaveWizard, OtherTabOpens, Select, Hide,
          OtherTabHides, TogglePanel, ServeList, SettleList, LoseList, server, vars
  <2>2. waiting = NoId
    BY <2>1 DEF Submit
  <2>3. m \in Ids /\ m # NoId
    BY <1>1, IdsArePositive DEF VisitInv, MineInv
  <2>4. posts[m].at # "refused"
    BY <1>1, <2>3 DEF VisitInv, RowsInv
  <2>5. QED BY <1>1, <2>2, <2>3, <2>4 DEF VisitInv, MineInv
<1>2. VisitInv /\ [Next]_vars =>
        [\A n \in Ids : posts[n] = NoPost /\ posts'[n].by = "wizard" =>
           \A m \in mine \cap rows :
             m \in unheard \/ posts[m].at = "failed" \/ route = "leaving"]_vars
  BY <1>1
<1>3. QED BY <1>2, VisitInvariance, PTL DEF Spec, DuplicateNeedsCause

-----------------------------------------------------------------------------
\* The cache, of which only the entry of the list is used here.

\* An entry that is put is the one that is found.
LEMMA PutEntry ==
  ASSUME NEW c, NEW k, NEW e
  PROVE  Entry(Put(c, k, e), k) = e
  BY DEF Entry, Put

LEMMA FetchEntry ==
  ASSUME NEW c, NEW k, NEW f
  PROVE  Entry(Fetch(c, k, f), k) = [Entry(c, k) EXCEPT !.fetch = f]
  BY PutEntry DEF Fetch

\* A fold over one key.
LEMMA InvalidateOne ==
  ASSUME NEW c, NEW k, Matches(PortfoliosKey, k)
  PROVE  Invalidate(c, PortfoliosKey, {k}) = Refetch(c, k)
<1> DEFINE g == [s \in SUBSET {k} |-> IF s = {} THEN c ELSE Refetch(c, k)]
           D(s, h) == IF s = {} THEN c
                      ELSE Refetch(h[s \ {CHOOSE x \in s : TRUE}], CHOOSE x \in s : TRUE)
<1>1. {j \in {k} : Matches(PortfoliosKey, j)} = {k}
  OBVIOUS
<1>2. ASSUME NEW s \in SUBSET {k}
      PROVE  g[s] = D(s, g)
  <2>1. CASE s = {}
    BY <2>1
  <2>2. CASE s = {k}
    <3>1. (CHOOSE x \in s : TRUE) = k
      BY <2>2
    <3>2. s \ {k} = {} /\ {} \in SUBSET {k}
      BY <2>2
    <3>3. QED BY <2>2, <3>1, <3>2
  <2>3. QED BY <2>1, <2>2
<1>3. ASSUME NEW h, h = [s \in SUBSET {k} |-> D(s, h)]
      PROVE  h[{k}] = Refetch(c, k)
  <2>1. h[{}] = c
    BY <1>3
  <2>2. (CHOOSE x \in {k} : TRUE) = k
    OBVIOUS
  <2>3. {k} \ {k} = {} /\ {k} # {}
    OBVIOUS
  <2>4. QED BY <1>3, <2>1, <2>2, <2>3
<1>4. g = [s \in SUBSET {k} |-> D(s, g)]
  BY <1>2
<1> HIDE DEF g
<1>5. Invalidate(c, PortfoliosKey, {k})
        = LET iter == CHOOSE h : h = [s \in SUBSET {k} |-> D(s, h)]
          IN  iter[{k}]
  BY <1>1 DEF Invalidate, FoldSet, MapThenFoldSet
<1>6. QED BY <1>3, <1>4, <1>5
-----------------------------------------------------------------------------
\* The list shown.

Answers == [status : {"none", "ok", "bad"}, value : (SUBSET Ids) \cup {NoValue}]
Fetches == [at : {"idle", "asked", "answered"}, tries : Nat, answer : Answers]
Entries == [data : Answers, fetch : Fetches]

CacheInv == rows \subseteq Ids /\ Entry(list, Listing) \in Entries

\* Nobody is to be told of a row.
Quiet == \A n \in rows : posts[n].at = "made" => ~Heard(n)

\* What an entry shows, or is about to show, is the server's list.
Current(e, listed) ==
  /\ e.fetch.at = "idle" /\ e.data.status = "ok" => e.data.value = listed
  /\ e.fetch.at = "answered" /\ e.fetch.answer.status = "ok" => e.fetch.answer.value = listed

CurrentInv == Quiet /\ ~outdated => Current(Entry(list, Listing), rows)

ListInv == PostsInv /\ CacheInv /\ CurrentInv

LEMMA EmptyIsEntry == EmptyEntry \in Entries /\ EmptyEntry.fetch.at = "idle"
  BY DEF EmptyEntry, Entries, Fetches, Answers, None, Idle

LEMMA AskedIsFetch ==
  ASSUME NEW n \in Nat
  PROVE  Asked(n) \in Fetches /\ Asked(n).at = "asked"
  BY DEF Asked, Fetches, Answers, None

LEMMA ListingMatches == Matches(PortfoliosKey, Listing)
<1>1. Listing = PortfoliosKey
  BY DEF Listing, PortfoliosQuery, Query
<1>2. PortfoliosKey \in Seq({<<"portfolios">>}) /\ Len(PortfoliosKey) = 1
  BY DEF PortfoliosKey
<1>3. SubSeq(PortfoliosKey, 1, Len(PortfoliosKey)) = PortfoliosKey
  BY <1>2, SubSeqFull
<1>4. QED BY <1>1, <1>2, <1>3 DEF Matches

\* A refresh asks anew, or joins the first fetch of all.
LEMMA RefetchEntry ==
  ASSUME NEW c, NEW k, Entry(c, k) \in Entries
  PROVE  LET e == Entry(Refetch(c, k), k)
         IN  /\ e \in Entries /\ e.fetch.at # "idle"
             /\ e.fetch.at = "answered" => e = Entry(c, k)
<1>1. CASE InFlight(c, k) /\ Entry(c, k).data = None
  BY <1>1 DEF Refetch, InFlight
<1>2. CASE ~(InFlight(c, k) /\ Entry(c, k).data = None)
  <2>1. Entry(Refetch(c, k), k) = [Entry(c, k) EXCEPT !.fetch = Asked(0)]
    BY <1>2, FetchEntry DEF Refetch
  <2>2. QED BY <2>1, AskedIsFetch DEF Entries
<1>3. QED BY <1>1, <1>2

\* A fetch in flight is in the cache.
LEMMA FlyingEntry ==
  ASSUME NEW c, NEW k, Entry(c, k).fetch.at # "idle"
  PROVE  k \in DOMAIN c /\ c[k] = Entry(c, k)
  BY EmptyIsEntry DEF Entry

\* onCreated: the list is asked for again, or joined and then known as outdated.
LEMMA CreatedIsCurrent ==
  ASSUME CacheInv, NEW n \in Ids, OnCreated(n), rows' = rows
  PROVE  CacheInv' /\ CurrentInv'
<1>1. list' = Refetch(list, Listing)
  BY InvalidateOne, ListingMatches DEF OnCreated
<1>2. Entry(list', Listing) \in Entries /\ Entry(list', Listing).fetch.at # "idle"
  BY <1>1, RefetchEntry DEF CacheInv
<1>3. list'[Listing] = Entry(list', Listing)
  BY <1>2, FlyingEntry
<1>4. outdated' = (Entry(list', Listing).fetch.at = "answered")
  BY <1>3 DEF OnCreated, Refreshed
<1>5. CASE outdated'
  BY <1>2, <1>5 DEF CacheInv, CurrentInv, Listing
<1>6. CASE ~outdated'
  <2>1. Entry(list', Listing).fetch.at \notin {"answered", "idle"}
    BY <1>2, <1>4, <1>6
  <2>2. Current(Entry(list', Listing), rows')
    BY <2>1 DEF Current
  <2>3. QED BY <1>2, <2>2 DEF CacheInv, CurrentInv, Listing
<1>7. QED BY <1>5, <1>6

\* What nobody will be told of is recorded, unless the list is only asked for.
LEMMA MissedIsCurrent ==
  ASSUME ListInv, NEW new \in BOOLEAN, Missed(new), list' = list,
         new \/ (rows' = rows /\ (Quiet' => Quiet))
  PROVE  CurrentInv'
<1> DEFINE e == Entry(list, Listing)
<1>1. outdated' = (outdated \/ (new /\ e.fetch.at # "asked"))
  BY DEF Missed
<1>2. Entry(list, Listing)' = e
  BY DEF Listing
<1>3. CASE e.fetch.at = "asked"
  BY <1>2, <1>3 DEF CurrentInv, Current
<1>4. CASE ~(e.fetch.at = "asked") /\ new
  BY <1>1, <1>4 DEF CurrentInv
<1>5. CASE ~new
  BY <1>1, <1>2, <1>5 DEF ListInv, CurrentInv, Current
<1>6. QED BY <1>3, <1>4, <1>5

LEMMA ListInit == Init => ListInv
<1> SUFFICES ASSUME Init PROVE ListInv
  OBVIOUS
<1>1. PostsInv
  BY VisitInit DEF VisitInv
<1>2. Entry(NoQueries, Listing) = EmptyEntry
  BY DEF Entry, NoQueries
<1>3. Entry(list, Listing) = [EmptyEntry EXCEPT !.fetch = Asked(0)]
  BY <1>2, FetchEntry, EmptyIsEntry DEF Init, Observe, InFlight
<1>4. Entry(list, Listing) \in Entries /\ Entry(list, Listing).fetch.at = "asked"
  BY <1>3, EmptyIsEntry, AskedIsFetch DEF Entries
<1>5. QED BY <1>1, <1>4 DEF Init, ListInv, CacheInv, CurrentInv, Current

\* Nothing of the list, the rows and who is to be told changes.
LEMMA ListFrame ==
  ASSUME ListInv, UNCHANGED <<posts, rows, list, waiting, outdated>>
  PROVE  ListInv'
  BY DEF ListInv, PostsInv, CacheInv, CurrentInv, Current, Quiet, Heard, Listing
\* A step of one creation's place: who is to be told of which row follows.
LEMMA PlacedIsQuiet ==
  ASSUME PostsInv, NEW n \in Ids, NEW from \in Places, NEW to \in Places, At(n, from, to),
         rows \subseteq Ids, from # "made", waiting' = waiting, to = "made" => n \notin rows,
         rows' = rows
  PROVE  Quiet' => Quiet
<1>1. /\ \A m \in Ids : posts'[m].by = posts[m].by
      /\ \A m \in Ids : m # n => posts'[m] = posts[m]
      /\ posts[n].at = from
  BY AtTyped
<1>2. QED BY <1>1 DEF Quiet, Heard

LEMMA ListStep ==
  ASSUME VisitInv, ListInv, [Next]_vars
  PROVE  ListInv'
<1> USE IdsArePositive
<1> DEFINE e == Entry(list, Listing)
<1>1. PostsInv'
  BY VisitStep DEF VisitInv
<1>2. ASSUME list' = list, rows' = rows
      PROVE  CacheInv'
  BY <1>2 DEF ListInv, CacheInv, Listing
<1>3. CASE OpenWizard \/ OtherTabOpens \/ TogglePanel
  BY <1>3, ListFrame DEF OpenWizard, OtherTabOpens, TogglePanel, page, server
<1>4. CASE LeaveWizard
  <2>1. /\ UNCHANGED <<list, posts, rows>> /\ waiting' = NoId
        /\ Missed(waiting \in rows)
    BY <1>4 DEF LeaveWizard, Unmount, server
  <2>2. waiting \in rows \/ (Quiet' => Quiet)
    BY <2>1 DEF Quiet, Heard
  <2>3. Missed(TRUE) \/ (Missed(FALSE) /\ (Quiet' => Quiet))
    BY <2>1, <2>2 DEF Missed
  <2>4. Missed(TRUE) \/ (Missed(FALSE) /\ (Quiet' => Quiet))
    BY <2>1, <2>3 DEF Missed
  <2>5. QED BY <1>1, <1>2, <2>1, <2>4, MissedIsCurrent DEF ListInv
<1>5. CASE Reload
  <2>1. list' = Observe(NoQueries, Listing) /\ rows' = rows
    BY <1>5 DEF Reload
  <2>2. Entry(NoQueries, Listing) = EmptyEntry
    BY DEF Entry, NoQueries
  <2>3. Entry(list', Listing) = [EmptyEntry EXCEPT !.fetch = Asked(0)]
    BY <2>1, <2>2, FetchEntry, EmptyIsEntry DEF Observe, InFlight
  <2>4. Entry(list', Listing) \in Entries /\ Entry(list', Listing).fetch.at = "asked"
    BY <2>3, EmptyIsEntry, AskedIsFetch DEF Entries
  <2>5. CacheInv' /\ CurrentInv'
    BY <2>1, <2>4 DEF ListInv, CacheInv, CurrentInv, Current, Listing
  <2>6. QED BY <1>1, <2>5 DEF ListInv
<1>6. ASSUME NEW id \in Ids, Select(id) \/ Hide(id) \/ OtherTabHides(id)
      PROVE  ListInv'
  BY <1>6, ListFrame DEF Select, Hide, OtherTabHides, page, server
<1>7. ASSUME NEW n \in Ids, Submit(n) \/ Build(n)
      PROVE  ListInv'
  <2>1. /\ UNCHANGED <<rows, list, outdated>> /\ posts[n] = NoPost
        /\ \E w \in Askers : posts' = [posts EXCEPT ![n] = [by |-> w, at |-> "sent"]]
        /\ waiting' = waiting \/ (waiting = NoId /\ waiting' = n)
    BY <1>7 DEF Submit, Posted, Build, NextId, Askers
  <2>2. n \notin rows
    BY <2>1 DEF VisitInv, RowsInv, NoPost
  <2>3. Quiet' => Quiet
    BY <2>1, <2>2 DEF Quiet, Heard, ListInv, PostsInv, CacheInv
  <2>4. CurrentInv'
    BY <2>1, <2>3 DEF ListInv, CurrentInv, Current, Listing
  <2>5. QED BY <1>1, <1>2, <2>1, <2>4 DEF ListInv
<1>8. ASSUME NEW n \in Ids, Create(n)
      PROVE  ListInv'
  <2>1. /\ list' = list /\ rows' = rows \cup {n} /\ waiting' = waiting
        /\ At(n, "sent", "made") /\ Missed(~Heard(n))
    BY <1>8 DEF Create, page
  <2>2. CacheInv'
    BY <2>1 DEF ListInv, CacheInv, Listing
  <2>3. CASE Heard(n)
    <3>1. posts'[n].at = "made" /\ posts'[n].by = posts[n].by
      BY <2>1, AtTyped DEF ListInv, Places
    <3>2. Heard(n)' /\ ~Quiet'
      BY <2>1, <2>3, <3>1 DEF Quiet, Heard
    <3>3. QED BY <1>1, <2>2, <3>2 DEF ListInv, CurrentInv
  <2>4. CASE ~Heard(n)
    BY <1>1, <2>1, <2>2, <2>4, MissedIsCurrent DEF ListInv
  <2>5. QED BY <2>3, <2>4
<1>9. ASSUME NEW n \in Ids, Reject(n)
      PROVE  ListInv'
  <2>1. /\ UNCHANGED <<list, rows, waiting, outdated>> /\ At(n, "sent", "refused")
    BY <1>9 DEF Reject, page
  <2>2. Quiet' => Quiet
    BY <2>1, PlacedIsQuiet DEF ListInv, CacheInv, Places
  <2>3. CurrentInv'
    BY <2>1, <2>2 DEF ListInv, CurrentInv, Current, Listing
  <2>4. QED BY <1>1, <1>2, <2>1, <2>3 DEF ListInv
<1>10. ASSUME NEW n \in Ids, Break(n)
       PROVE  ListInv'
  <2>1. list' = list /\ rows' = rows \cup {n} /\ Missed(TRUE)
    BY <1>10 DEF Break
  <2>2. CacheInv' /\ CurrentInv'
    BY <2>1, MissedIsCurrent DEF ListInv, CacheInv, Listing
  <2>3. QED BY <1>1, <2>2 DEF ListInv
<1>11. ASSUME NEW n \in Ids, Answer(n)
       PROVE  ListInv'
  <2>1. CASE OnCreated(n)
    BY <1>1, <1>11, <2>1, CreatedIsCurrent DEF Answer, ListInv
  <2>2. CASE posts[n].at \in {"refused", "failed"} /\ UNCHANGED <<posts, list, outdated>>
    <3>1. rows' = rows /\ waiting = n /\ waiting' = NoId
      BY <1>11 DEF Answer
    <3>2. Quiet' => Quiet
      BY <2>2, <3>1 DEF Quiet, Heard
    <3>3. CurrentInv'
      BY <2>2, <3>1, <3>2 DEF ListInv, CurrentInv, Current, Listing
    <3>4. QED BY <1>1, <1>2, <2>2, <3>1, <3>3 DEF ListInv
  <2>3. QED BY <1>11, <2>1, <2>2 DEF Answer
<1>12. ASSUME NEW n \in Ids, AssistantAnswer(n)
       PROVE  ListInv'
  <2>1. CASE OnCreated(n)
    BY <1>1, <1>12, <2>1, CreatedIsCurrent DEF AssistantAnswer, ListInv
  <2>2. ASSUME NEW from \in {"refused", "failed"},
               At(n, from, "told"), UNCHANGED <<list, outdated>>
        PROVE  ListInv'
    <3>1. rows' = rows /\ waiting' = waiting
      BY <1>12 DEF AssistantAnswer
    <3>2. Quiet' => Quiet
      BY <2>2, <3>1, PlacedIsQuiet DEF ListInv, CacheInv, Places
    <3>3. CurrentInv'
      BY <2>2, <3>1, <3>2 DEF ListInv, CurrentInv, Current, Listing
    <3>4. QED BY <1>1, <1>2, <2>2, <3>1, <3>3 DEF ListInv
  <2>3. QED BY <1>12, <2>1, <2>2 DEF AssistantAnswer
<1>13. ASSUME NEW n \in Ids, AnswerLost(n)
       PROVE  ListInv'
  <2>1. /\ UNCHANGED <<list, posts, rows>> /\ waiting = n /\ waiting' = NoId
        /\ Missed(n \in rows)
    BY <1>13 DEF AnswerLost, server
  <2>2. n \in rows \/ (Quiet' => Quiet)
    BY <2>1 DEF Quiet, Heard
  <2>3. Missed(TRUE) \/ (Missed(FALSE) /\ (Quiet' => Quiet))
    BY <2>1, <2>2 DEF Missed
  <2>4. Missed(TRUE) \/ (Missed(FALSE) /\ (Quiet' => Quiet))
    BY <2>1, <2>3 DEF Missed
  <2>5. QED BY <1>1, <1>2, <2>1, <2>4, MissedIsCurrent DEF ListInv
<1>14. ASSUME NEW n \in Ids, AssistantLost(n)
       PROVE  ListInv'
  <2>1. /\ UNCHANGED <<list, rows, waiting>> /\ Missed(n \in rows)
        /\ posts' = [posts EXCEPT ![n].by = "nobody"]
    BY <1>14 DEF AssistantLost
  <2>2. \A m \in Ids : m # n => posts'[m] = posts[m]
    BY <2>1 DEF ListInv, PostsInv
  <2>3. n \in rows \/ (Quiet' => Quiet)
    BY <2>1, <2>2 DEF Quiet, Heard, ListInv, CacheInv
  <2>4. Missed(TRUE) \/ (Missed(FALSE) /\ (Quiet' => Quiet))
    BY <2>1, <2>3 DEF Missed
  <2>5. QED BY <1>1, <1>2, <2>1, <2>4, MissedIsCurrent DEF ListInv
<1>15. CASE ServeList
  <2>1. e.fetch.at = "asked" /\ list[Listing] = e /\ e \in Entries
    BY <1>15, FlyingEntry DEF ServeList, ListInv, CacheInv
  <2>2. PICK a \in {Ok(rows), Bad} : list' = Answered(list, Listing, a)
    BY <1>15 DEF ServeList
  <2>3. a \in Answers /\ (a.status = "ok" => a.value = rows)
    BY <2>2 DEF Ok, Bad, Answers, ListInv, CacheInv
  <2>4. Entry(list', Listing)
          = [e EXCEPT !.fetch = [e.fetch EXCEPT !.at = "answered", !.answer = a]]
    BY <2>1, <2>2, FetchEntry DEF Answered
  <2>5. /\ Entry(list', Listing) \in Entries /\ Entry(list', Listing).fetch.at = "answered"
        /\ Entry(list', Listing).fetch.answer = a
    BY <2>1, <2>3, <2>4 DEF Entries, Fetches
  <2>6. rows' = rows
    BY <1>15 DEF ServeList, server
  <2>7. CacheInv' /\ CurrentInv'
    BY <2>3, <2>5, <2>6 DEF ListInv, CacheInv, CurrentInv, Current, Listing
  <2>8. QED BY <1>1, <2>7 DEF ListInv
<1>16. CASE SettleList
  <2>1. /\ e.fetch.at = "answered" /\ list[Listing] = e /\ e \in Entries
        /\ UNCHANGED <<rows, posts, waiting, outdated>>
    BY <1>16, FlyingEntry DEF SettleList, ListInv, CacheInv, server, page
  <2>2. Entry(list', Listing) = [data |-> e.fetch.answer, fetch |-> Idle]
    BY <1>16, <2>1, PutEntry DEF SettleList, Settled
  <2>3. Entry(list', Listing) \in Entries /\ Entry(list', Listing).fetch.at = "idle"
    BY <2>1, <2>2, EmptyIsEntry DEF Entries, Fetches, EmptyEntry, Idle
  <2>4. Quiet' => Quiet
    BY <2>1 DEF Quiet, Heard
  <2>5. Current(e, rows) => Current(Entry(list', Listing), rows')
    BY <2>1, <2>2, <2>3 DEF Current
  <2>6. CacheInv' /\ CurrentInv'
    BY <2>1, <2>3, <2>4, <2>5 DEF ListInv, CacheInv, CurrentInv, Listing
  <2>7. QED BY <1>1, <2>6 DEF ListInv
<1>17. CASE LoseList
  <2>1. /\ e.fetch.at # "idle" /\ list[Listing] = e /\ e \in Entries
        /\ UNCHANGED <<rows, posts, waiting>>
        /\ list' = Failed(list, Listing)
        /\ outdated' = (outdated \/ Entry(list', Listing).fetch.at = "idle")
    BY <1>17, FlyingEntry DEF LoseList, InFlight, ListInv, CacheInv, server, page
  <2>2. PICK f : /\ Entry(list', Listing) = [e EXCEPT !.fetch = f]
                 /\ f \in {Idle, Asked(e.fetch.tries + 1)}
    BY <2>1, FetchEntry DEF Failed
  <2>3. f \in Fetches /\ f.at \in {"idle", "asked"}
    BY <2>1, <2>2, EmptyIsEntry, AskedIsFetch DEF EmptyEntry, Idle, Entries, Fetches
  <2>4. /\ Entry(list', Listing) \in Entries
        /\ Entry(list', Listing).fetch.at \in {"idle", "asked"}
    BY <2>1, <2>2, <2>3 DEF Entries
  <2>5. CacheInv' /\ CurrentInv'
    BY <2>1, <2>4 DEF ListInv, CacheInv, CurrentInv, Current, Listing
  <2>6. QED BY <1>1, <2>5 DEF ListInv
<1>18. CASE UNCHANGED vars
  BY <1>18, ListFrame DEF vars, page, server
<1>19. QED
  BY <1>3, <1>4, <1>5, <1>6, <1>7, <1>8, <1>9, <1>10, <1>11, <1>12, <1>13, <1>14,
     <1>15, <1>16, <1>17, <1>18
  DEF Next, Frame, Creation

\* onCreated: the list shown, once nothing is under way, is the server's, but
\* for what was missed.
THEOREM ListIsCurrent == Spec => []ListCurrent
<1>1. Init => VisitInv /\ ListInv
  BY VisitInit, ListInit
<1>2. (VisitInv /\ ListInv) /\ [Next]_vars => (VisitInv /\ ListInv)'
  BY VisitStep, ListStep
<1>3. VisitInv /\ ListInv => ListCurrent
  <2> SUFFICES ASSUME ListInv,
                      Entry(list, Listing).data.status = "ok", ~InFlight(list, Listing),
                      Quiet, ~outdated
               PROVE  Listed = rows
    BY DEF ListCurrent, Quiet
  <2> QED BY DEF ListInv, CurrentInv, Current, InFlight, Listed
<1>4. QED BY <1>1, <1>2, <1>3, PTL DEF Spec
=============================================================================
