------------------------------- MODULE Picker -------------------------------
(***************************************************************************)
(* The application's frame (components/layout/AppNav.tsx) and what creates *)
(* portfolios: its picker lists them from a query of its own, keeps the    *)
(* removals in the browser's storage, shared with a second tab, and shows  *)
(* the context's selection; the wizard page's POST and the assistant       *)
(* panel's stream both end in onCreated (app/wizard/page.tsx).  The page   *)
(* may be left, and the tab reloaded, while a request is under way.        *)
(* A creation is one step here, its body sound or refused: PortfolioDraft  *)
(* has its two transactions, Wizard its body.  Ids are numbered as their   *)
(* requests.                                                               *)
(***************************************************************************)
EXTENDS Naturals, Endpoints, QueryCache

CONSTANTS
  MaxCreates,    \* bound: creations in a behaviour
  MaxFaults      \* bound: lost requests, server errors, bad answers, reloads

ASSUME BoundAssumption == {MaxCreates, MaxFaults} \subseteq Nat

VARIABLES
  route,         \* "wizard", "leaving" (router.push until the route changes), "elsewhere"
  waiting,       \* the creation the page's mutation waits for, or NoId
  building,      \* the creation the assistant panel waits for, or NoId
  portfolioId,   \* the context's selection, or NoId
  hiddenIds,     \* the frame's removals
  storage,       \* the removals in localStorage
  otherHidden,   \* hiddenIds of a second tab
  list,          \* the query cache, of the portfolios' key
  posts,         \* creations: who asked, and the server's place
  rows,          \* server: ids it lists
  mine,          \* creations of this visit of the page (history)
  unheard,       \* creations whose answer the page did not get (history)
  outdated,      \* nothing will bring the list up to date (history)
  removed, back, \* ids removed in this tab, and those of them that came back (history)
  faults

page == <<route, waiting, building, mine>>
picker == <<portfolioId, hiddenIds, storage, otherHidden, removed, back>>
server == <<posts, rows>>
vars == <<page, picker, list, server, unheard, outdated, faults>>

Ids == 1 .. MaxCreates
NoPost == [by |-> "none", at |-> "none"]

Listing == PortfoliosQuery.key

\* The picker lists what the frame knows and the user has not removed.
Listed == IF Entry(list, Listing).data.status = "ok" THEN Entry(list, Listing).data.value ELSE {}
Shown == Listed \ hiddenIds

----------------------------------------------------------------------------
Init ==
  /\ route = "elsewhere" /\ waiting = NoId /\ building = NoId
  /\ portfolioId = NoId /\ hiddenIds = {} /\ storage = {} /\ otherHidden = {}
  /\ list = Observe(NoQueries, Listing)
  /\ posts = [n \in Ids |-> NoPost] /\ rows = {}
  /\ mine = {} /\ unheard = {} /\ outdated = FALSE /\ removed = {} /\ back = {}
  /\ faults = 0

Fault == faults < MaxFaults /\ faults' = faults + 1
Mounted == route # "elsewhere"

\* The page goes: its mutation's callbacks are dropped, the assistant's are not.
Unmount ==
  /\ waiting' = NoId /\ building' = NoId /\ mine' = {}
  /\ unheard' = unheard \cup ({waiting} \ {NoId})

\* A list fetch that the server has answered does not hold what is newer.
Refreshed == outdated' = (list'[Listing].fetch.at = "answered")

\* A new row that no refresh will follow; one that is only asked still holds it.
Missed(new) ==
  outdated' = (outdated \/ (new /\ Entry(list, Listing).fetch.at # "asked"))

\* Mutant: the list query is left as it is.
OnCreatedQuiet(id) ==
  /\ portfolioId' = id
  /\ back' = back \cup (removed \cap {id})
  /\ route' = IF Mounted THEN "leaving" ELSE route
  /\ UNCHANGED <<list, outdated>>

\* onCreated: refresh the list, select the portfolio, go to the main page.
OnCreated(id) ==
  /\ list' = Invalidate(list, PortfoliosKey, {Listing})
  /\ Refreshed
  /\ portfolioId' = id
  /\ back' = back \cup (removed \cap {id})
  /\ route' = IF Mounted THEN "leaving" ELSE route

----------------------------------------------------------------------------
\* The frame.

OpenWizard ==
  /\ ~Mounted /\ route' = "wizard"
  /\ UNCHANGED <<waiting, building, mine, picker, list, server, unheard, outdated, faults>>

\* A link of the navigation, or the end of router.push.
LeaveWizard ==
  /\ Mounted /\ route' = "elsewhere"
  /\ Unmount /\ Missed(waiting \in rows)
  /\ UNCHANGED <<picker, list, server, faults>>

Select(id) ==
  /\ id \in Shown /\ id # portfolioId /\ portfolioId' = id
  /\ UNCHANGED <<page, hiddenIds, storage, otherHidden, removed, back, list, server, unheard, outdated, faults>>

\* Mutant: the selection stays on the portfolio that is removed.
HideKeepsSelection(id) ==
  /\ id \in Shown
  /\ hiddenIds' = hiddenIds \cup {id}
  /\ storage' = hiddenIds \cup {id}
  /\ removed' = removed \cup {id} /\ back' = back \ {id}
  /\ UNCHANGED <<portfolioId, page, otherHidden, list, server, unheard, outdated, faults>>

\* hidePortfolio: out of the picker, into the storage, out of the selection.
Hide(id) ==
  /\ id \in Shown
  /\ hiddenIds' = hiddenIds \cup {id}
  /\ storage' = hiddenIds \cup {id}
  /\ portfolioId' = IF portfolioId = id THEN NoId ELSE portfolioId
  /\ removed' = removed \cup {id} /\ back' = back \ {id}
  /\ UNCHANGED <<page, otherHidden, list, server, unheard, outdated, faults>>

\* A second tab writes its own list of removals, which it read when it opened.
OtherTabOpens ==
  /\ otherHidden' = storage
  /\ UNCHANGED <<portfolioId, hiddenIds, storage, removed, back, page, list, server, unheard, outdated, faults>>

OtherTabHides(id) ==
  /\ id \in rows \ otherHidden
  /\ otherHidden' = otherHidden \cup {id} /\ storage' = otherHidden'
  /\ back' = back \cup (removed \ storage')
  /\ UNCHANGED <<portfolioId, hiddenIds, removed, page, list, server, unheard, outdated, faults>>

\* The tab is loaded anew: the removals come from the storage, the selection is
\* gone, and so is every request's reader.
Reload ==
  /\ Fault
  /\ route' = "elsewhere" /\ Unmount
  /\ portfolioId' = NoId /\ hiddenIds' = storage
  /\ list' = Observe(NoQueries, Listing) /\ Refreshed
  /\ posts' = [n \in Ids |-> IF posts[n].by = "assistant" THEN [posts[n] EXCEPT !.by = "nobody"] ELSE posts[n]]
  /\ UNCHANGED <<storage, otherHidden, removed, back, rows>>

----------------------------------------------------------------------------
\* Creation.

NextId(n) == posts[n] = NoPost /\ \A m \in 1 .. n - 1 : posts[m] # NoPost

Posted(n) ==
  /\ route # "elsewhere" /\ NextId(n)
  /\ posts' = [posts EXCEPT ![n] = [by |-> "wizard", at |-> "sent"]]
  /\ waiting' = n /\ mine' = mine \cup {n}
  /\ UNCHANGED <<route, building, picker, list, rows, unheard, outdated, faults>>

\* Mutant: the button is not disabled while a request is pending.
SubmitAgain(n) == Posted(n)

\* submit, whose body Wizard gives; the button waits for the answer.
Submit(n) == waiting = NoId /\ Posted(n)

\* "Build it" of the assistant panel.
Build(n) ==
  /\ Mounted /\ building = NoId /\ NextId(n)
  /\ posts' = [posts EXCEPT ![n] = [by |-> "assistant", at |-> "sent"]]
  /\ building' = n
  /\ UNCHANGED <<route, waiting, mine, picker, list, rows, unheard, outdated, faults>>

\* The panel goes with the wizard mode and comes back without its request.
TogglePanel ==
  /\ building # NoId /\ building' = NoId
  /\ UNCHANGED <<route, waiting, mine, picker, list, server, unheard, outdated, faults>>

\* Somebody will be told of the creation.
Heard(n) == waiting = n \/ posts[n].by = "assistant"

At(n, from, to) ==
  posts[n].at = from /\ posts' = [posts EXCEPT ![n].at = to]

Create(n) ==
  /\ At(n, "sent", "made")
  /\ rows' = rows \cup {n}
  /\ Missed(~Heard(n))
  /\ UNCHANGED <<page, picker, list, unheard, faults>>

\* A check before the first row refuses the wizard's selection, or the draft.
Reject(n) ==
  /\ At(n, "sent", "refused")
  /\ UNCHANGED <<page, picker, list, rows, unheard, outdated, faults>>

\* The second transaction of the creation fails: a listed portfolio, status 500.
Break(n) ==
  /\ Fault
  /\ At(n, "sent", "failed")
  /\ rows' = rows \cup {n}
  /\ Missed(TRUE)
  /\ UNCHANGED <<page, picker, list, unheard>>

\* The wizard's mutation settles; only a 201 has consequences.
Answer(n) ==
  /\ waiting = n /\ waiting' = NoId
  /\ \/ /\ At(n, "made", "told")
        /\ OnCreated(n)
     \/ /\ posts[n].at \in {"refused", "failed"}
        /\ UNCHANGED <<posts, list, outdated, portfolioId, back, route>>
  /\ UNCHANGED <<building, mine, hiddenIds, storage, otherHidden, removed, rows, unheard, faults>>

\* The assistant's stream goes on when its panel is gone.
AssistantAnswer(n) ==
  /\ posts[n].by = "assistant"
  /\ building' = IF building = n THEN NoId ELSE building
  /\ \/ /\ At(n, "made", "told")
        /\ OnCreated(n)
     \/ /\ \E from \in {"refused", "failed"} : At(n, from, "told")
        /\ UNCHANGED <<list, outdated, portfolioId, back, route>>
  /\ UNCHANGED <<waiting, mine, hiddenIds, storage, otherHidden, removed, rows, unheard, faults>>

\* The connection is lost: the page gives up, the server goes on.
AnswerLost(n) ==
  /\ waiting = n /\ waiting' = NoId
  /\ Fault
  /\ unheard' = unheard \cup {n}
  /\ Missed(n \in rows)
  /\ UNCHANGED <<route, building, mine, picker, list, server>>

AssistantLost(n) ==
  /\ posts[n].by = "assistant" /\ posts[n].at # "told"
  /\ Fault
  /\ posts' = [posts EXCEPT ![n].by = "nobody"]
  /\ building' = IF building = n THEN NoId ELSE building
  /\ Missed(n \in rows)
  /\ UNCHANGED <<route, waiting, mine, picker, list, rows, unheard>>

----------------------------------------------------------------------------
\* The list query.

ServeList ==
  /\ Entry(list, Listing).fetch.at = "asked"
  /\ \/ list' = Answered(list, Listing, Ok(rows)) /\ UNCHANGED faults
     \/ list' = Answered(list, Listing, Bad) /\ Fault
  /\ UNCHANGED <<page, picker, server, unheard, outdated>>

SettleList ==
  /\ Entry(list, Listing).fetch.at = "answered"
  /\ list' = Settled(list, Listing)
  /\ UNCHANGED <<page, picker, server, unheard, outdated, faults>>

LoseList ==
  /\ InFlight(list, Listing)
  /\ Fault
  /\ list' = Failed(list, Listing)
  /\ outdated' = (outdated \/ ~InFlight(list', Listing))
  /\ UNCHANGED <<page, picker, server, unheard>>

----------------------------------------------------------------------------
Frame ==
  \/ OpenWizard \/ LeaveWizard \/ OtherTabOpens \/ Reload
  \/ \E id \in Ids : Select(id) \/ Hide(id) \/ OtherTabHides(id)

Creation(n) ==
  \/ Submit(n) \/ Build(n) \/ Create(n) \/ Reject(n) \/ Break(n)
  \/ Answer(n) \/ AssistantAnswer(n) \/ AnswerLost(n) \/ AssistantLost(n)

Next ==
  \/ Frame \/ TogglePanel
  \/ \E n \in Ids : Creation(n)
  \/ ServeList \/ SettleList \/ LoseList

Spec == Init /\ [][Next]_vars

----------------------------------------------------------------------------
\* The list shown is the server's, once nothing is under way; the exceptions are
\* a creation nobody was told of, a refresh that joined an older first load, a
\* refresh that was lost (onCreated).
ListCurrent ==
  (/\ Entry(list, Listing).data.status = "ok" /\ ~InFlight(list, Listing)
   /\ \A n \in rows : posts[n].at = "made" => ~Heard(n)
   /\ ~outdated)
    => Listed = rows

\* A second portfolio comes from one visit of the page only after an answer that
\* was lost, a server error, or a click before the route had changed (submit,
\* create.isPending).
DuplicateNeedsCause ==
  [][ \A n \in Ids : posts[n] = NoPost /\ posts'[n].by = "wizard" =>
        \A m \in mine \cap rows :
          m \in unheard \/ posts[m].at = "failed" \/ route = "leaving" ]_vars

\* A portfolio removed from the picker is neither listed nor selected again,
\* reloads included, unless a tab that did not know of the removal wrote the
\* storage, or its own creation was answered after the removal (hidePortfolio).
RemovedStaysRemoved ==
  (removed \ back) \cap (Shown \cup {portfolioId}) = {}
=============================================================================
