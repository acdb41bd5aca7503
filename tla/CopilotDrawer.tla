--------------------------- MODULE CopilotDrawer ----------------------------
(***************************************************************************)
(* The copilot drawer (components/copilot/CopilotDrawer.tsx) in the        *)
(* application's frame (components/layout/AppNav.tsx), over the query      *)
(* cache and the chat service.  The frame stays mounted: it holds the      *)
(* selected portfolio, which may change while the drawer is open and while *)
(* a question is under way, and the drawer keeps one question, one phase   *)
(* and one error for all portfolios.  The conversation shown is the cache  *)
(* entry of the selected portfolio's history; a question or a clear        *)
(* changes the server's history, and the entry follows only by a refetch.  *)
(* The service is seen from the browser: a question is stored, then the    *)
(* run answers, fails, or is given up once its client is gone              *)
(* (CopilotChat).                                                          *)
(***************************************************************************)
EXTENDS Endpoints, QueryCache, SseReader, SequencesExt

CONSTANTS
  Portfolios,    \* ids
  ProgressEvents,\* of plan and evidence, those a run may write
  MaxProgress,   \* bound: the first questions whose run writes one of them
  MaxSends,      \* bound: questions in a behaviour
  MaxClears,     \* bound: clears in a behaviour
  MaxFaults,     \* bound: lost requests, refusals, bad answers, timeouts
  MaxEvents      \* bound: questions, clears and, counted twice, faults together

ASSUME PortfoliosAssumption == NoId \notin Portfolios
ASSUME ProgressAssumption == "" \notin ProgressEvents
ASSUME BoundAssumption ==
  {MaxProgress, MaxSends, MaxClears, MaxFaults, MaxEvents} \subseteq Nat

VARIABLES
  portfolioId,   \* the selected portfolio of the context, or NoId
  open,          \* the drawer is open
  sending, pendingUser, phase, error,   \* the drawer's state
  chat,          \* send() under way: its question, portfolio and place
  buffer,        \* of the stream reader
  clear,         \* the DELETEs under way, by their clicks
  cache,         \* the query cache
  history,       \* server: portfolio -> its chat_messages
  run,           \* server: question -> its portfolio and place
  wire,          \* what the server wrote and the reader has not received
  written,       \* the events the server wrote for the question under way (history)
  handled,       \* the events the drawer handled of them (history)
  outdated,      \* portfolios whose entry nothing will refresh by itself (history)
  clears, faults \* counters of the bounds

nav == <<portfolioId, open>>
drawer == <<sending, pendingUser, phase, error>>
stream == <<buffer, wire, written, handled>>
server == <<history, run>>
bounds == <<clears, faults>>
vars == <<nav, drawer, chat, stream, clear, cache, server, outdated, bounds>>

Questions == 1 .. MaxSends
Clears == 1 .. MaxClears
Message(n, role) == [question |-> n, role |-> role]

Key(p) == ChatQuery(p).key
NoQuestion == [question |-> 0, portfolio |-> NoId]
NoChat == [question |-> 0, portfolio |-> NoId, at |-> "none"]
NoClear == [request |-> ClearChat(NoId), at |-> "none", told |-> NoId]

----------------------------------------------------------------------------
\* What the drawer shows and offers.

\* The history observer: enabled while the drawer is open with a portfolio.
HistoryQuery == With(ChatQuery(portfolioId), open /\ portfolioId # NoId)
Active == IF HistoryQuery.enabled THEN {HistoryQuery.key} ELSE {}

Shown ==
  IF portfolioId # NoId /\ Entry(cache, Key(portfolioId)).data.status = "ok"
  THEN Entry(cache, Key(portfolioId)).data.value
  ELSE <<>>

CanSend == open /\ portfolioId # NoId /\ ~sending
CanClear == open /\ portfolioId # NoId /\ ~sending /\ Shown # <<>>

\* The body: a prompt, or the error, the typing indicator, the question under
\* way and the conversation.
Body ==
  IF portfolioId = NoId
  THEN [prompt |-> TRUE, error |-> "", typing |-> FALSE, pending |-> NoQuestion, messages |-> <<>>]
  ELSE [prompt |-> FALSE, error |-> error, typing |-> sending, pending |-> pendingUser,
        messages |-> Shown]

----------------------------------------------------------------------------
Init ==
  /\ portfolioId = NoId /\ open = FALSE
  /\ sending = FALSE /\ pendingUser = NoQuestion /\ phase = "" /\ error = ""
  /\ chat = NoChat /\ buffer = <<>>
  /\ clear = [n \in Clears |-> NoClear]
  /\ cache = NoQueries
  /\ history = [p \in Portfolios |-> <<>>]
  /\ run = [n \in Questions |-> NoChat]
  /\ wire = <<>> /\ written = <<>> /\ handled = <<>>
  /\ outdated = {}
  /\ clears = 0 /\ faults = 0

\* What the bounds leave room for.
Sends == Cardinality({n \in Questions : run[n] # NoChat})
Room(weight) == Sends + clears + 2 * faults + weight <= MaxEvents
Fault == Room(2) /\ faults < MaxFaults /\ faults' = faults + 1

\* A refresh brings the entry up to date, unless it joined a fetch that the
\* server has already answered.
Refreshes(after, p) ==
  IF after[Key(p)].fetch.at = "answered" THEN outdated \cup {p} ELSE outdated \ {p}

\* finally, whatever the way out; the reader goes with it.
Finally ==
  /\ sending' = FALSE /\ phase' = "" /\ pendingUser' = NoQuestion /\ chat' = NoChat
  /\ buffer' = <<>> /\ wire' = <<>> /\ written' = <<>> /\ handled' = <<>>

\* send() waits for the refetch of a portfolio's history; when that fetch is
\* over, however it ended, send() is over.
Waits(p) == chat.at = "refreshing" /\ chat.portfolio = p
Sending == <<sending, phase, pendingUser, chat, stream>>
Released(p) == IF Waits(p) THEN Finally ELSE UNCHANGED Sending

----------------------------------------------------------------------------
\* The frame: picker, removal from the picker, drawer.

\* setPortfolioId: the history observer leaves one key for the other.
Turn(p) ==
  LET left == IF portfolioId = NoId THEN cache ELSE Leave(cache, Key(portfolioId))
  IN  /\ portfolioId' = p
      /\ Released(portfolioId)
      /\ IF open /\ p # NoId
         THEN cache' = Observe(left, Key(p)) /\ outdated' = Refreshes(cache', p)
         ELSE cache' = left /\ UNCHANGED outdated

SelectPortfolio(p) ==
  /\ p # portfolioId
  /\ Turn(p)
  /\ UNCHANGED <<open, error, clear, server, bounds>>

\* hidePortfolio of the selected one (the list itself is AppNav's).
HideSelected ==
  /\ portfolioId # NoId
  /\ Turn(NoId)
  /\ UNCHANGED <<open, error, clear, server, bounds>>

OpenDrawer ==
  /\ ~open /\ open' = TRUE
  /\ IF portfolioId # NoId
     THEN /\ cache' = Observe(cache, Key(portfolioId))
          /\ outdated' = Refreshes(cache', portfolioId)
     ELSE UNCHANGED <<cache, outdated>>
  /\ UNCHANGED <<portfolioId, drawer, chat, stream, clear, server, bounds>>

\* The observer stays, disabled: a fetch in flight goes on.
CloseDrawer ==
  /\ open /\ open' = FALSE
  /\ UNCHANGED <<portfolioId, drawer, chat, stream, clear, cache, server, outdated, bounds>>

----------------------------------------------------------------------------
\* send()

\* The user has typed a message and sends it.
Send ==
  /\ CanSend /\ Room(1)
  /\ \E n \in Questions :
       /\ run[n] = NoChat /\ \A m \in 1 .. n - 1 : run[m] # NoChat
       /\ run' = [run EXCEPT ![n] = [question |-> n, portfolio |-> portfolioId, at |-> "asked"]]
       /\ chat' = [question |-> n, portfolio |-> portfolioId, at |-> "posted"]
       /\ pendingUser' = [question |-> n, portfolio |-> portfolioId]
  /\ error' = "" /\ sending' = TRUE /\ phase' = "routing"
  /\ buffer' = <<>> /\ wire' = <<>> /\ written' = <<>> /\ handled' = <<>>
  /\ UNCHANGED <<nav, clear, cache, history, outdated, bounds>>

Receive ==
  /\ chat.at = "reading" /\ ~HasBlock(buffer)
  /\ \E n \in 1 .. Len(wire) :
       /\ buffer' = buffer \o SubSeq(wire, 1, n)
       /\ wire' = SubSeq(wire, n + 1, Len(wire))
  /\ UNCHANGED <<nav, drawer, chat, written, handled, clear, cache, server, outdated, bounds>>

NextEvent ==
  /\ chat.at = "reading" /\ HasBlock(buffer)
  /\ buffer' = Rest(buffer)
  /\ LET block == Block(buffer)
         event == LineOf(block, "event")
     IN  IF Yields(block)
         THEN /\ handled' = Append(handled, event)
              /\ phase' = IF StageLabel(event) # "" THEN StageLabel(event) ELSE phase
              /\ error' = IF event = "error" THEN "agent" ELSE error
         ELSE UNCHANGED <<handled, phase, error>>
  /\ UNCHANGED <<nav, sending, pendingUser, chat, wire, written, clear, cache, server, outdated, bounds>>

\* Mutant: only an answer ends the stream.
StreamDoneOnAnswer ==
  /\ chat.at = "reading" /\ ~HasBlock(buffer) /\ wire = <<>> /\ run[chat.question].at = "done"
  /\ "answer" \in ToSet(handled)

StreamDone ==
  chat.at = "reading" /\ ~HasBlock(buffer) /\ wire = <<>> /\ run[chat.question].at = "done"

\* Mutant: the refresh is started and not waited for.
EndOfStreamNoAwait ==
  /\ StreamDone
  /\ cache' = Invalidate(cache, Key(chat.portfolio), Active)
  /\ outdated' = IF Key(chat.portfolio) \in Active THEN Refreshes(cache', chat.portfolio) ELSE outdated
  /\ Finally
  /\ UNCHANGED <<nav, error, clear, server, bounds>>

\* The stream is done: refresh the history of the portfolio that was asked,
\* and wait for it if it is the one observed.
EndOfStream ==
  /\ StreamDone
  /\ cache' = Invalidate(cache, Key(chat.portfolio), Active)
  /\ IF Key(chat.portfolio) \in Active
     THEN /\ chat' = [chat EXCEPT !.at = "refreshing"]
          /\ outdated' = Refreshes(cache', chat.portfolio)
          /\ UNCHANGED <<sending, phase, pendingUser, stream>>
     ELSE Finally /\ UNCHANGED outdated
  /\ UNCHANGED <<nav, error, clear, server, bounds>>

\* The five minutes are over, or the connection is lost: no refresh.
GiveUp(reason) ==
  /\ chat.at \in {"posted", "reading"}
  /\ Fault
  /\ Finally
  /\ error' = reason
  /\ outdated' = outdated \cup {chat.portfolio}
  /\ UNCHANGED <<nav, clear, cache, server, clears>>

Timeout == GiveUp("timed out")
ConnectionLost == GiveUp("failed")

----------------------------------------------------------------------------
\* The chat service, as far as the browser sees it: what ChatLog promises of
\* each portfolio's history.  A message takes its place before its commit, so
\* that later ones may stand behind it.

TurnsOf(p) ==
  [n \in Questions |-> IF run[n].portfolio # p \/ run[n].at = "asked" THEN "new"
                       ELSE IF run[n].at = "running" THEN "asked" ELSE "over"]

Store(p) == INSTANCE ChatLog WITH log <- history[p], turn <- TurnsOf(p)

Client(n) == chat.question = n /\ chat.at \in {"posted", "reading"}
Write(e) == written' = Append(written, e) /\ wire' = wire \o Text(e)
Goes(n, to) == run' = [run EXCEPT ![n].at = to]

\* What a run does without its client shows in no refresh of send().
Unseen(n) == outdated' = IF Client(n) THEN outdated ELSE outdated \cup {run[n].portfolio}

Record(n) ==
  LET p == run[n].portfolio
  IN  /\ run[n].at = "asked" /\ Goes(n, "running")
      /\ \E log \in Store(p)!WithQuestion(history[p], n) : history' = [history EXCEPT ![p] = log]
      /\ chat' = IF Client(n) THEN [chat EXCEPT !.at = "reading"] ELSE chat
      /\ Unseen(n)
      /\ UNCHANGED <<nav, drawer, stream, clear, cache, bounds>>

\* A status other than 2xx: send() returns with an error.
Refuse(n) ==
  /\ run[n].at = "asked" /\ Client(n) /\ Goes(n, "gone")
  /\ Fault
  /\ Finally
  /\ error' = "failed"
  /\ UNCHANGED <<nav, clear, cache, history, outdated, clears>>

Progress(n) ==
  /\ run[n].at = "running" /\ Client(n) /\ n <= MaxProgress /\ written = <<>>
  /\ \E e \in ProgressEvents : Write(e)
  /\ UNCHANGED <<nav, drawer, chat, buffer, handled, clear, cache, server, outdated, bounds>>

Answer(n) ==
  LET p == run[n].portfolio
  IN  /\ run[n].at = "running" /\ Goes(n, "done")
      /\ \E log \in Store(p)!WithAnswer(history[p], n) : history' = [history EXCEPT ![p] = log]
      /\ IF Client(n) THEN Write("answer") ELSE UNCHANGED <<written, wire>>
      /\ Unseen(n)
      /\ UNCHANGED <<nav, drawer, chat, buffer, handled, clear, cache, bounds>>

Fail(n) ==
  /\ run[n].at = "running" /\ Goes(n, "done")
  /\ IF Client(n) THEN Write("error") ELSE UNCHANGED <<written, wire>>
  /\ UNCHANGED <<nav, drawer, chat, buffer, handled, clear, cache, history, outdated, bounds>>

Abandon(n) ==
  /\ run[n].at \in {"asked", "running"} /\ ~Client(n) /\ Goes(n, "gone")
  /\ UNCHANGED <<nav, drawer, chat, stream, clear, cache, history, outdated, bounds>>

----------------------------------------------------------------------------
\* The clear button. Nothing locks it while a DELETE is under way, and the page
\* tracks the latest one only: its onSuccess is that of the latest render, the
\* one of an overtaken DELETE stays that of the render in which it was overtaken.

Clear ==
  /\ CanClear /\ Room(1) /\ clears < MaxClears /\ clears' = clears + 1
  /\ clear' = [n \in Clears |->
                IF n = clears + 1 THEN [request |-> ClearChat(portfolioId), at |-> "sent", told |-> NoId]
                ELSE IF n = clears /\ clear[n] # NoClear THEN [clear[n] EXCEPT !.told = portfolioId]
                ELSE clear[n]]
  /\ UNCHANGED <<nav, drawer, chat, stream, cache, server, outdated, faults>>

\* The portfolio that onSuccess is about, and the one that is cleared.
Told(n) == IF n = clears THEN portfolioId ELSE clear[n].told
ClearedId(n) == IdIn(clear[n].request)

ServeClear(n) ==
  /\ clear[n].at = "sent" /\ clear' = [clear EXCEPT ![n].at = "cleared"]
  /\ history' = [history EXCEPT ![ClearedId(n)] = <<>>]
  /\ UNCHANGED <<nav, drawer, chat, stream, cache, run, outdated, bounds>>

\* Mutant: the conversation is not asked for again.
ClearedQuietly(n) ==
  /\ clear[n].at = "cleared" /\ clear' = [clear EXCEPT ![n] = NoClear]
  /\ UNCHANGED <<nav, drawer, chat, stream, cache, server, outdated, bounds>>

\* Mutant: onSuccess is an argument of mutate(), called for the latest click only.
ClearedLatest(n) ==
  /\ clear[n].at = "cleared" /\ clear' = [clear EXCEPT ![n] = NoClear]
  /\ IF HistoryQuery.enabled /\ n = clears
     THEN /\ cache' = Invalidate(cache, Key(portfolioId), Active)
          /\ outdated' = Refreshes(cache', portfolioId)
          /\ IF Entry(cache, Key(portfolioId)).data # None
             THEN Released(portfolioId)
             ELSE UNCHANGED Sending
     ELSE UNCHANGED <<cache, outdated, Sending>>
  /\ UNCHANGED <<nav, error, server, bounds>>

\* onSuccess is about the portfolio of its render, not the cleared one, and only
\* the observed entry is fetched again. A fetch it abandons ends the wait of send().
Cleared(n) ==
  /\ clear[n].at = "cleared" /\ clear' = [clear EXCEPT ![n] = NoClear]
  /\ IF HistoryQuery.enabled /\ Told(n) = portfolioId
     THEN /\ cache' = Invalidate(cache, Key(portfolioId), Active)
          /\ outdated' = Refreshes(cache', portfolioId)
          /\ IF Entry(cache, Key(portfolioId)).data # None
             THEN Released(portfolioId)
             ELSE UNCHANGED Sending
     ELSE /\ outdated' = IF Told(n) = portfolioId THEN outdated ELSE outdated \cup {ClearedId(n)}
          /\ UNCHANGED <<cache, Sending>>
  /\ UNCHANGED <<nav, error, server, bounds>>

ClearLost(n) ==
  /\ clear[n] # NoClear /\ clear' = [clear EXCEPT ![n] = NoClear]
  /\ Fault
  /\ outdated' = outdated \cup {ClearedId(n)}
  /\ UNCHANGED <<nav, drawer, chat, stream, cache, server, clears>>

----------------------------------------------------------------------------
\* The fetches of the histories.

Serve(p) ==
  /\ Entry(cache, Key(p)).fetch.at = "asked"
  /\ \/ cache' = Answered(cache, Key(p), Ok(history[p])) /\ UNCHANGED faults
     \/ cache' = Answered(cache, Key(p), Bad) /\ Fault
  /\ UNCHANGED <<nav, drawer, chat, stream, clear, server, outdated, clears>>

Settle(p) ==
  /\ Entry(cache, Key(p)).fetch.at = "answered"
  /\ cache' = Settled(cache, Key(p))
  /\ Released(p)
  /\ UNCHANGED <<nav, error, clear, server, outdated, bounds>>

Lose(p) ==
  /\ InFlight(cache, Key(p))
  /\ Fault
  /\ cache' = Failed(cache, Key(p))
  /\ IF InFlight(cache', Key(p))
     THEN UNCHANGED <<outdated, Sending>>
     ELSE outdated' = outdated \cup {p} /\ Released(p)
  /\ UNCHANGED <<nav, error, clear, server, clears>>

Collect(p) ==
  /\ p # portfolioId /\ Entry(cache, Key(p)) # EmptyEntry
  /\ cache' = Collected(cache, Key(p))
  /\ UNCHANGED <<nav, drawer, chat, stream, clear, server, outdated, bounds>>

----------------------------------------------------------------------------
Frame ==
  \/ \E p \in Portfolios : SelectPortfolio(p)
  \/ HideSelected \/ OpenDrawer \/ CloseDrawer

User == Send \/ Clear

Sender == Receive \/ NextEvent \/ EndOfStream

Running(n) == Record(n) \/ Answer(n) \/ Fail(n)

Fetching(p) == Serve(p) \/ Settle(p)

Clearing(n) == ServeClear(n) \/ Cleared(n)

Loss ==
  \/ Timeout \/ ConnectionLost
  \/ \E n \in Clears : ClearLost(n)
  \/ \E p \in Portfolios : Lose(p) \/ Collect(p)
  \/ \E n \in Questions : Refuse(n) \/ Abandon(n)

Next ==
  \/ Frame \/ User \/ Sender \/ Loss
  \/ \E n \in Clears : Clearing(n)
  \/ \E n \in Questions : Running(n) \/ Progress(n)
  \/ \E p \in Portfolios : Fetching(p)

Spec == Init /\ [][Next]_vars

----------------------------------------------------------------------------
\* The conversation shown is the stored one of the selected portfolio, once
\* nothing is under way for it; the exceptions are a run that went on without
\* its client, a refresh that joined an older fetch, a refresh or a clear that
\* was lost, and a clear that a clear of another portfolio has overtaken
\* (CopilotDrawer: history observer, send, onSuccess of the clear).
ConversationCurrent ==
  \A p \in Portfolios :
    (/\ open /\ portfolioId = p /\ ~InFlight(cache, Key(p))
     /\ Entry(cache, Key(p)).data.status = "ok"
     /\ chat.portfolio # p /\ \A n \in Clears : ClearedId(n) # p
     /\ p \notin outdated)
      => Shown = history[p]

\* The drawer handles the events the service wrote, in their order, for every
\* way the network cuts the text: what it has handled, holds and has still to
\* receive is what was written (readSseEvents).
StreamIntact ==
  chat.at = "reading" =>
    FlattenSeq([i \in DOMAIN handled |-> Text(handled[i])]) \o buffer \o wire
      = FlattenSeq([i \in DOMAIN written |-> Text(written[i])])

\* The bubble of an answered question goes in this step, in sight of the user, and
\* neither the conversation shown holds the question nor anything explains it.
Vanishes ==
  LET n == Body.pending.question
      p == Body.pending.portfolio
  IN  /\ Body.pending # NoQuestion /\ Body'.pending = NoQuestion
      /\ "answer" \in ToSet(handled) /\ clear' = clear
      /\ open /\ portfolioId = p /\ portfolioId' = p
      /\ Message(n, "user") \in ToSet(history[p])
      /\ p \notin outdated' /\ Entry(cache', Key(p)).data.status = "ok"
      /\ Message(n, "user") \notin ToSet(Body'.messages)

\* The bubble of an answered question only goes when the conversation shown
\* holds the question, or the server no longer does, or the refresh met an
\* older fetch, a bad answer or the confirmation of an earlier clear (send:
\* the await before finally).
QuestionStaysVisible == [][~Vanishes]_vars

\* While a question is under way, the input and the clear button are locked,
\* and no timer covers the wait for the refetch; so something is always at work
\* that leads out: the stream, the run, or a fetch of that very history.
NeverLocked ==
  sending => \/ ENABLED Sender
             \/ ENABLED Running(chat.question)
             \/ Waits(portfolioId) /\ ENABLED Fetching(portfolioId)
=============================================================================
