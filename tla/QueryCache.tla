----------------------------- MODULE QueryCache -----------------------------
(***************************************************************************)
(* The browser's query cache: @tanstack/react-query as the frontend uses   *)
(* it, with the defaults of lib/query-client.ts (one retry, no refetch on  *)
(* window focus, data stale at once).  A cache is a function from query    *)
(* keys to entries; the operators give the cache after an event.  A fetch  *)
(* is asked, answered by the server and only later taken over, so that     *)
(* anything may happen between the three.                                  *)
(***************************************************************************)
EXTENDS Naturals, Sequences, FiniteSetsExt

CONSTANT NoValue      \* what an entry holds besides a 200 answer

RETRY == 1            \* queries are tried once more after a network failure

\* What a settled request left: nothing yet, a 200 answer, or another status
\* (the generated functions resolve for every status).
None == [status |-> "none", value |-> NoValue]
Ok(v) == [status |-> "ok", value |-> v]
Bad == [status |-> "bad", value |-> NoValue]

Idle == [at |-> "idle", tries |-> 0, answer |-> None]
Asked(n) == [at |-> "asked", tries |-> n, answer |-> None]

EmptyEntry == [data |-> None, fetch |-> Idle]
NoQueries == <<>>

\* The entry of a key, and the cache with another in its place.
Entry(c, k) == IF k \in DOMAIN c THEN c[k] ELSE EmptyEntry
Put(c, k, e) ==
  [j \in IF e = EmptyEntry THEN DOMAIN c \ {k} ELSE DOMAIN c \cup {k} |-> IF j = k THEN e ELSE c[j]]
Fetch(c, k, f) == Put(c, k, [Entry(c, k) EXCEPT !.fetch = f])

InFlight(c, k) == Entry(c, k).fetch.at # "idle"

\* A key matches when the invalidated key is a prefix of it.
Matches(prefix, k) == Len(prefix) <= Len(k) /\ SubSeq(k, 1, Len(prefix)) = prefix

\* An enabled observer mounts, turns to the key or becomes enabled: its data
\* are stale, so it fetches, or joins the fetch that is in flight.
Observe(c, k) == IF InFlight(c, k) THEN c ELSE Fetch(c, k, Asked(0))

\* An active query is refetched: a fetch in flight is abandoned for a new
\* one, except the first of all, which is joined.
Refetch(c, k) ==
  IF InFlight(c, k) /\ Entry(c, k).data = None THEN c ELSE Fetch(c, k, Asked(0))

\* invalidateQueries: only the active ones of the matching queries refetch.
Invalidate(c, prefix, active) ==
  FoldSet(LAMBDA k, d : Refetch(d, k), c, {k \in active : Matches(prefix, k)})

\* The last observer of a key leaves: its fetch is aborted (the generated
\* functions take the signal) and the entry is as it was.
Leave(c, k) == Fetch(c, k, Idle)

\* The observers turn from the keys they had to those they want.
Turned(c, before, after) ==
  FoldSet(LAMBDA k, d : Observe(d, k),
          FoldSet(LAMBDA k, d : Leave(d, k), c, before \ after), after \ before)

\* The server answers, from its state at that moment.
Answered(c, k, a) == Fetch(c, k, [c[k].fetch EXCEPT !.at = "answered", !.answer = a])

\* The answer reaches the page and replaces what the entry held.
Settled(c, k) == Put(c, k, [data |-> c[k].fetch.answer, fetch |-> Idle])

\* The request or its answer is lost: retried, then given up with the old data.
Failed(c, k) ==
  Fetch(c, k, IF c[k].fetch.tries < RETRY THEN Asked(c[k].fetch.tries + 1) ELSE Idle)

\* Unobserved for five minutes.
Collected(c, k) == Put(c, k, EmptyEntry)
=============================================================================
