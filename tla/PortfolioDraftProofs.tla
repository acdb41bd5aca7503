------------------------ MODULE PortfolioDraftProofs -------------------------
(***************************************************************************)
(* Proofs about PortfolioDraft for any tickers, weights and number of      *)
(* messages.                                                               *)
(*                                                                         *)
(* A request the page does not wait for is over, or is among those the     *)
(* page gave up or the server was cut off: this is what makes a second     *)
(* portfolio need a cause.  Since the page takes the answer of the request *)
(* it waits for and no other, the draft it shows is the one it sent.  That *)
(* a shown draft is only rejected for a field of its own is about sums: in *)
(* each of its three cases _normalize_draft leaves weights whose sum is    *)
(* within the tolerance of the unit, or not positive, and then one of them *)
(* is not positive either.                                                 *)
(***************************************************************************)
EXTENDS PortfolioDraft, Induction

\* The requests and what is known of each are sequences of one length.
TypeInv ==
  /\ \E S : sent \in Seq(S)
  /\ pc \in Seq(Place) /\ Len(pc) = Len(sent)
  /\ \E S : built \in Seq(S)
  /\ Len(built) = Len(sent)
  /\ rows \in Seq({"none", "named", "full"}) /\ Len(rows) = Len(sent)
  /\ event \in Seq(Event) /\ Len(event) = Len(sent)
  /\ broken \subseteq Requests

\* The portfolio of one request, the server's place and the page's knowledge.
RequestInv ==
  \A r \in Requests :
    /\ pc[r] \in {"routing", "agent", "creating"} => rows[r] = "none"
    /\ pc[r] = "named" => rows[r] = "named"
    /\ pc[r] = "full" => rows[r] = "full"
    /\ event[r] = "created" => pc[r] = "closed" /\ rows[r] = "full"
    /\ rows[r] = "named" => pc[r] = "named" \/ r \in broken
    /\ rows[r] = "full" => pc[r] = "full" \/ event[r] = "created" \/ r \in broken
    /\ pc[r] \in {"creating", "named", "full"} \/ rows[r] # "none" =>
         built[r] = sent[r].draft /\ sent[r].draft # NoDraft

\* The page waits for the latest request only; the others are over or given up.
PageInv ==
  /\ pending \in {0, Len(sent)}
  /\ \A r \in Requests : r # pending => pc[r] = "closed" \/ r \in broken
  /\ \A r \in Requests : r = pending => shown = sent[r].draft
  /\ page = "leaving" => \E r \in Requests : event[r] = "created"

Inv == TypeInv /\ RequestInv /\ PageInv

-----------------------------------------------------------------------------
\* Appending to a sequence keeps what it has.
LEMMA AppendKeeps ==
  ASSUME NEW S, NEW s \in Seq(S), NEW x
  PROVE  /\ Append(s, x) \in Seq(S \cup {x}) /\ Len(Append(s, x)) = Len(s) + 1
         /\ Len(s) \in Nat
         /\ \A i \in 1 .. Len(s) : Append(s, x)[i] = s[i]
         /\ Append(s, x)[Len(s) + 1] = x
  OBVIOUS

LEMMA InitInv == Init => Inv
<1> SUFFICES ASSUME Init PROVE Inv
  OBVIOUS
<1>1. sent \in Seq({}) /\ Len(sent) = 0 /\ Requests = {}
  BY DEF Init, Requests
<1>2. QED BY <1>1 DEF Init, Inv, TypeInv, RequestInv, PageInv

\* A step of the server on one request.
LEMMA Placed ==
  ASSUME TypeInv, NEW r \in Requests, NEW from, NEW to \in Place, At(r, from, to)
  PROVE  /\ pc' \in Seq(Place) /\ Len(pc') = Len(pc)
         /\ pc[r] = from /\ pc'[r] = to
         /\ \A s \in Requests : s # r => pc'[s] = pc[s]
<1>1. pc' = [pc EXCEPT ![r] = to] /\ r \in 1 .. Len(pc) /\ pc \in Seq(Place)
  BY DEF TypeInv, At, Requests
<1>2. QED BY <1>1 DEF At, TypeInv, Requests

\* A reply changes one event, and what the page waits for.
LEMMA Replied ==
  ASSUME TypeInv, NEW r \in Requests, NEW e \in Event, NEW d, Reply(r, e, d)
  PROVE  /\ event' \in Seq(Event) /\ Len(event') = Len(event) /\ event'[r] = e
         /\ \A s \in Requests : s # r => event'[s] = event[s]
         /\ pending' = IF pending = r THEN 0 ELSE pending
         /\ pending' # 0 => shown' = shown
         /\ page' = page \/ (page' = "leaving" /\ e = "created")
<1>1. event' = [event EXCEPT ![r] = e] /\ r \in 1 .. Len(event) /\ event \in Seq(Event)
  BY DEF TypeInv, Reply, Requests
<1>2. QED BY <1>1 DEF Reply, TypeInv, Requests

LEMMA SendStep ==
  ASSUME Inv, NEW wish \in Wish, Send(wish)
  PROVE  Inv'
<1> DEFINE n == Len(sent)
           new == [wish |-> wish, draft |-> shown]
<1>1. PICK S : sent \in Seq(S)
  BY DEF Inv, TypeInv
<1>2. /\ sent' = Append(sent, new) /\ pc' = Append(pc, "routing")
      /\ built' = Append(built, NoDraft)
      /\ rows' = Append(rows, "none") /\ event' = Append(event, "none")
      /\ pending = 0 /\ pending' = n + 1 /\ UNCHANGED <<page, shown, broken>>
      /\ new.draft = shown
  BY DEF Send, CanType, CanBuild
<1> HIDE DEF new
<1>3. n \in Nat /\ Requests = 1 .. n /\ Requests' = 1 .. n + 1
  BY <1>1, <1>2, AppendKeeps DEF Requests
<1>4. /\ Len(sent') = n + 1
      /\ sent' \in Seq(S \cup {new})
      /\ \A r \in Requests : sent'[r] = sent[r]
      /\ sent'[n + 1] = new
  BY <1>1, <1>2, <1>3, AppendKeeps
<1>4a. PICK B : built \in Seq(B)
  BY DEF Inv, TypeInv
<1>4b. /\ built' \in Seq(B \cup {NoDraft}) /\ Len(built') = n + 1
       /\ \A r \in Requests : built'[r] = built[r]
  BY <1>2, <1>3, <1>4a, AppendKeeps DEF Inv, TypeInv
<1>5. /\ pc' \in Seq(Place) /\ Len(pc') = n + 1 /\ pc'[n + 1] = "routing"
      /\ \A r \in Requests : pc'[r] = pc[r]
  BY <1>2, <1>3 DEF Inv, TypeInv, Place
<1>6. /\ rows' \in Seq({"none", "named", "full"}) /\ Len(rows') = n + 1
      /\ rows'[n + 1] = "none" /\ \A r \in Requests : rows'[r] = rows[r]
  BY <1>2, <1>3 DEF Inv, TypeInv
<1>7. /\ event' \in Seq(Event) /\ Len(event') = n + 1
      /\ event'[n + 1] = "none" /\ \A r \in Requests : event'[r] = event[r]
  BY <1>2, <1>3 DEF Inv, TypeInv, Event
<1>8. TypeInv'
  <2>1. broken' \subseteq Requests'
    BY <1>2, <1>3 DEF Inv, TypeInv
  <2>2. \E T : sent' \in Seq(T)
    BY <1>4
  <2>3. \E T : built' \in Seq(T)
    BY <1>4b
  <2>4. QED BY <1>4, <1>4b, <1>5, <1>6, <1>7, <2>1, <2>2, <2>3 DEF TypeInv
<1>9. \A r \in Requests' : r \in Requests \/ r = n + 1
  BY <1>3
<1>10. RequestInv'
  <2>1. ASSUME NEW r \in Requests
        PROVE  /\ sent'[r] = sent[r] /\ pc'[r] = pc[r]
               /\ rows'[r] = rows[r] /\ event'[r] = event[r]
               /\ built'[r] = built[r]
    BY <1>4, <1>4b, <1>5, <1>6, <1>7
  <2> DEFINE P(d, f, p, o, e, b) ==
        /\ p \in {"routing", "agent", "creating"} => o = "none"
        /\ p = "named" => o = "named"
        /\ p = "full" => o = "full"
        /\ e = "created" => p = "closed" /\ o = "full"
        /\ o = "named" => p = "named" \/ b
        /\ o = "full" => p = "full" \/ e = "created" \/ b
        /\ p \in {"creating", "named", "full"} \/ o # "none" => f = d /\ d # NoDraft
  <2>2. \A r \in Requests : P(sent[r].draft, built[r], pc[r], rows[r], event[r], r \in broken)
    BY DEF Inv, RequestInv
  <2>3. \A d, f, b : P(d, f, "routing", "none", "none", b)
    OBVIOUS
  <2>4. \A r \in Requests' : P(sent'[r].draft, built'[r], pc'[r], rows'[r], event'[r], r \in broken')
    <3> SUFFICES ASSUME NEW r \in Requests'
                 PROVE  P(sent'[r].draft, built'[r], pc'[r], rows'[r], event'[r], r \in broken')
      OBVIOUS
    <3> HIDE DEF P
    <3>1. CASE r \in Requests
      BY <1>2, <2>1, <2>2, <3>1
    <3>2. CASE r = n + 1
      BY <1>5, <1>6, <1>7, <2>3, <3>2
    <3>3. QED BY <1>9, <3>1, <3>2
  <2>5. QED BY <2>4 DEF RequestInv
<1>11. PageInv'
  <2>1. \A r \in Requests : pc[r] = "closed" \/ r \in broken
    BY <1>2, <1>3 DEF Inv, PageInv
  <2>2. pending' = Len(sent')
    BY <1>2, <1>4
  <2>3. \A r \in Requests' : r # pending' => pc'[r] = "closed" \/ r \in broken'
    BY <1>2, <1>5, <1>9, <2>1
  <2>4. page' = "leaving" => \E r \in Requests' : event'[r] = "created"
    BY <1>2, <1>3, <1>7 DEF Inv, PageInv
  <2>5. \A r \in Requests' : r = pending' => shown' = sent'[r].draft
    BY <1>2, <1>4
  <2>6. QED BY <2>2, <2>3, <2>4, <2>5 DEF PageInv
<1>12. QED BY <1>8, <1>10, <1>11 DEF Inv

\* What a step of the server on a request it keeps open must establish.
LEMMA WorkStep ==
  ASSUME Inv, NEW r \in Requests, NEW from, NEW to \in Place, At(r, from, to),
         from # "closed", to # "closed",
         UNCHANGED <<page, shown, pending, sent, event, broken>>,
         built' = built \/ (to = "creating" /\ built' = [built EXCEPT ![r] = sent[r].draft]),
         rows' = rows \/ (to \in {"named", "full"} /\ rows' = [rows EXCEPT ![r] = to]),
         to \in {"routing", "agent", "creating"} => rows'[r] = "none",
         to = "named" => rows'[r] = "named",
         to = "full" => rows'[r] = "full",
         to \in {"creating", "named", "full"} =>
           built'[r] = sent[r].draft /\ sent[r].draft # NoDraft
  PROVE  Inv'
<1>1. Requests' = Requests
  BY DEF Requests
<1>2. /\ pc' \in Seq(Place) /\ Len(pc') = Len(pc) /\ pc[r] = from /\ pc'[r] = to
      /\ \A s \in Requests : s # r => pc'[s] = pc[s]
  BY Placed DEF Inv
<1>3. /\ rows' \in Seq({"none", "named", "full"}) /\ Len(rows') = Len(rows)
      /\ \A s \in Requests : s # r => rows'[s] = rows[s]
  BY DEF Inv, TypeInv, Requests
<1>3a. PICK B : built \in Seq(B)
  BY DEF Inv, TypeInv
<1>3b. /\ built' \in Seq(B \cup {sent[r].draft}) /\ Len(built') = Len(built)
       /\ \A s \in Requests : s # r => built'[s] = built[s]
  <2>1. Requests = 1 .. Len(built) /\ Len(built) \in Nat
    BY <1>3a DEF Inv, TypeInv, Requests
  <2>2. CASE built' = built
    BY <1>3a, <2>2
  <2>3. CASE built' = [built EXCEPT ![r] = sent[r].draft]
    BY <1>3a, <2>1, <2>3
  <2>4. QED BY <2>2, <2>3
<1>4. TypeInv'
  <2>1. \E T : built' \in Seq(T)
    BY <1>3b
  <2>2. QED BY <1>1, <1>2, <1>3, <1>3b, <2>1 DEF Inv, TypeInv
<1>5. RequestInv'
  <2>1. event[r] # "created"
    BY <1>2 DEF Inv, RequestInv
  <2>2. pc'[r] \in {"routing", "agent", "creating", "named", "full"}
    BY <1>2 DEF Place
  <2>3. QED BY <1>1, <1>2, <1>3, <1>3b, <2>1, <2>2 DEF Inv, RequestInv
<1>6. PageInv'
  BY <1>1, <1>2 DEF Inv, PageInv
<1>7. QED BY <1>4, <1>5, <1>6 DEF Inv

\* What a step that ends a request with an event must establish.
LEMMA EndStep ==
  ASSUME Inv, NEW r \in Requests, NEW from, At(r, from, "closed"), from # "closed",
         NEW e \in Event, NEW d, Reply(r, e, d),
         UNCHANGED <<sent, built, rows, broken>>,
         IF e = "created" THEN rows[r] = "full" ELSE rows[r] = "none"
  PROVE  Inv'
<1>1. Requests' = Requests
  BY DEF Requests
<1>2. /\ pc' \in Seq(Place) /\ Len(pc') = Len(pc) /\ pc[r] = from /\ pc'[r] = "closed"
      /\ \A s \in Requests : s # r => pc'[s] = pc[s]
  BY Placed DEF Inv, Place
<1>3. /\ event' \in Seq(Event) /\ Len(event') = Len(event) /\ event'[r] = e
      /\ \A s \in Requests : s # r => event'[s] = event[s]
      /\ pending' = IF pending = r THEN 0 ELSE pending
      /\ pending' # 0 => shown' = shown
      /\ page' = page \/ (page' = "leaving" /\ e = "created")
  BY Replied DEF Inv
<1>4. TypeInv'
  BY <1>1, <1>2, <1>3 DEF Inv, TypeInv
<1>5. RequestInv'
  BY <1>1, <1>2, <1>3 DEF Inv, RequestInv
<1>6. PageInv'
  <2>1. event[r] # "created"
    BY <1>2 DEF Inv, RequestInv
  <2>2. page' = "leaving" => \E s \in Requests' : event'[s] = "created"
    BY <1>1, <1>3, <2>1 DEF Inv, PageInv
  <2>3. \A s \in Requests' : s # pending' => pc'[s] = "closed" \/ s \in broken'
    BY <1>1, <1>2, <1>3 DEF Inv, PageInv
  <2>4. \A s \in Requests' : s = pending' => shown' = sent'[s].draft
    BY <1>1, <1>3 DEF Inv, PageInv, Requests
  <2>5. QED BY <1>3, <2>2, <2>3, <2>4 DEF Inv, PageInv
<1>7. QED BY <1>4, <1>5, <1>6 DEF Inv

LEMMA InvStep ==
  ASSUME Inv, [Next]_vars
  PROVE  Inv'
<1>1. ASSUME NEW wish \in Wish, Send(wish)
      PROVE  Inv'
  BY <1>1, SendStep
<1>2. ASSUME NEW r \in Requests, Route(r) \/ ModelCreates(r)
      PROVE  Inv'
  <2>1. /\ UNCHANGED <<page, shown, pending, sent, event, broken, rows>>
        /\ \E from \in {"routing", "agent"} :
             \/ /\ At(r, from, "creating") /\ sent[r].draft # NoDraft
                /\ built' = [built EXCEPT ![r] = sent[r].draft]
             \/ At(r, from, "agent") /\ built' = built
    BY <1>2 DEF Route, ModelCreates
  <2>2. PICK from \in {"routing", "agent"} :
             \/ /\ At(r, from, "creating") /\ sent[r].draft # NoDraft
                /\ built' = [built EXCEPT ![r] = sent[r].draft]
             \/ At(r, from, "agent") /\ built' = built
    BY <2>1
  <2>3. rows[r] = "none"
    BY <2>2 DEF At, Inv, RequestInv
  <2>4. CASE At(r, from, "creating") /\ sent[r].draft # NoDraft
             /\ built' = [built EXCEPT ![r] = sent[r].draft]
    <3>1. built'[r] = sent[r].draft
      BY <2>4 DEF Inv, TypeInv, Requests
    <3>2. QED BY <2>1, <2>3, <2>4, <3>1, WorkStep DEF Place
  <2>5. CASE At(r, from, "agent") /\ built' = built
    BY <2>1, <2>3, <2>5, WorkStep DEF Place
  <2>6. QED BY <2>2, <2>4, <2>5
<1>3. ASSUME NEW r \in Requests, Name(r)
      PROVE  Inv'
  <2>1. At(r, "creating", "named") /\ UNCHANGED <<page, shown, pending, sent, built, event, broken>>
    BY <1>3 DEF Name
  <2>2. built[r] = sent[r].draft /\ sent[r].draft # NoDraft
    BY <2>1 DEF At, Inv, RequestInv
  <2>3. rows' = [rows EXCEPT ![r] = "named"] /\ rows'[r] = "named"
    BY <1>3 DEF Name, Inv, TypeInv, Requests
  <2>4. QED BY <2>1, <2>2, <2>3, WorkStep DEF Place
<1>4. ASSUME NEW r \in Requests, Fill(r)
      PROVE  Inv'
  <2>1. At(r, "named", "full") /\ UNCHANGED <<page, shown, pending, sent, built, event, broken>>
    BY <1>4 DEF Fill
  <2>2. built[r] = sent[r].draft /\ sent[r].draft # NoDraft
    BY <2>1 DEF At, Inv, RequestInv
  <2>3. rows' = [rows EXCEPT ![r] = "full"] /\ rows'[r] = "full"
    BY <1>4 DEF Fill, Inv, TypeInv, Requests
  <2>4. QED BY <2>1, <2>2, <2>3, WorkStep DEF Place
<1>5. ASSUME NEW r \in Requests, AgentFails(r) \/ ModelAnswers(r) \/ Reject(r)
      PROVE  Inv'
  <2>1. PICK from \in {"agent", "creating"}, e \in Event \ {"created"} :
          At(r, from, "closed") /\ \E d : Reply(r, e, d)
    BY <1>5 DEF AgentFails, ModelAnswers, Reject, Event
  <2> PICK d : Reply(r, e, d)
    BY <2>1
  <2>2. UNCHANGED <<sent, built, rows, broken>>
    BY <1>5 DEF AgentFails, ModelAnswers, Reject
  <2>3. rows[r] = "none"
    BY <2>1 DEF At, Inv, RequestInv
  <2>4. QED BY <2>1, <2>2, <2>3, EndStep
<1>6. ASSUME NEW r \in Requests, Announce(r)
      PROVE  Inv'
  <2>1. /\ At(r, "full", "closed") /\ Reply(r, "created", NoDraft)
        /\ UNCHANGED <<sent, built, rows, broken>>
    BY <1>6 DEF Announce
  <2>2. rows[r] = "full"
    BY <2>1 DEF At, Inv, RequestInv
  <2>3. QED BY <2>1, <2>2, EndStep DEF Event
<1>7. ASSUME NEW r \in Requests, Cut(r)
      PROVE  Inv'
  <2>1. /\ pc[r] # "closed" /\ pc' = [pc EXCEPT ![r] = "closed"]
        /\ broken' = broken \cup {r} /\ pending' = IF pending = r THEN 0 ELSE pending
        /\ UNCHANGED <<page, shown, sent, built, rows, event>>
    BY <1>7 DEF Cut
  <2>2. /\ pc' \in Seq(Place) /\ Len(pc') = Len(pc) /\ pc'[r] = "closed"
        /\ \A s \in Requests : s # r => pc'[s] = pc[s]
    BY <2>1, Placed DEF At, Inv, Place
  <2>3. Requests' = Requests
    BY <2>1 DEF Requests
  <2>4. TypeInv'
    BY <2>1, <2>2, <2>3 DEF Inv, TypeInv
  <2>5. RequestInv'
    BY <2>1, <2>2, <2>3 DEF Inv, RequestInv
  <2>6. PageInv'
    <3>1. 0 \notin Requests
      BY DEF Requests
    <3>2. QED BY <2>1, <2>2, <2>3, <3>1 DEF Inv, PageInv
  <2>7. QED BY <2>4, <2>5, <2>6 DEF Inv
<1>8. CASE Timeout
  <2>1. /\ pending # 0 /\ pending' = 0 /\ broken' = broken \cup {pending}
        /\ UNCHANGED <<page, shown, sent, built, pc, rows, event>>
    BY <1>8 DEF Timeout
  <2>2. Requests' = Requests /\ pending \in Requests
    <3>1. Len(sent) \in Nat
      BY DEF Inv, TypeInv
    <3>2. QED BY <2>1, <3>1 DEF Requests, Inv, PageInv
  <2>3. TypeInv'
    BY <2>1, <2>2 DEF Inv, TypeInv
  <2>4. RequestInv'
    BY <2>1, <2>2 DEF Inv, RequestInv
  <2>5. PageInv'
    <3>1. 0 \notin Requests
      BY DEF Requests
    <3>2. QED BY <2>1, <2>2, <3>1 DEF Inv, PageInv
  <2>6. QED BY <2>3, <2>4, <2>5 DEF Inv
<1>9. CASE Leave \/ UNCHANGED vars
  <2>1. UNCHANGED <<shown, pending, sent, pc, built, rows, event, broken>> /\ page' \in {page, "gone"}
    BY <1>9 DEF Leave, vars
  <2>2. QED BY <2>1 DEF Inv, TypeInv, RequestInv, PageInv, Requests
<1>10. QED
  BY <1>1, <1>2, <1>3, <1>4, <1>5, <1>6, <1>7, <1>8, <1>9 DEF Next, Build, Model

LEMMA Invariance == Spec => []Inv
<1>1. Init => Inv
  BY InitInv
<1>2. Inv /\ [Next]_vars => Inv'
  BY InvStep
<1>3. QED BY <1>1, <1>2, PTL DEF Spec

\* PortfolioService.create: whatever is cut, retried or left, the page leaves
\* for a whole portfolio, and a partial one is the work of a cut.
THEOREM PartialNeedsCut == Spec => []PartialOnlyIfCut
<1>1. Inv => PartialOnlyIfCut
  BY DEF Inv, RequestInv, PageInv, PartialOnlyIfCut
<1>2. QED BY <1>1, Invariance, PTL

\* send, stream_chat, _create: what is built is the draft the page showed when
\* it asked, whoever decided to build it, and while the page waits no answer of
\* an earlier request replaces what it shows.
THEOREM BuildsAreShown == Spec => []BuildsWhatIsShown
<1>1. Inv => BuildsWhatIsShown
  BY DEF Inv, RequestInv, PageInv, BuildsWhatIsShown
<1>2. QED BY <1>1, Invariance, PTL

\* send, handleBuild: a second portfolio of one page takes a request that was
\* given up or cut, or a message after the first was announced.
THEOREM SecondNeedsRetry == Spec => []DuplicateNeedsRetry
<1>1. Inv => DuplicateNeedsRetry
  <2> SUFFICES ASSUME Inv, NEW r \in Requests, NEW s \in Requests, r < s,
                      rows[r] # "none", r \notin broken
               PROVE  event[r] = "created"
    BY DEF DuplicateNeedsRetry
  <2>1. r # pending
    <3>1. Len(sent) \in Nat
      BY DEF Inv, TypeInv
    <3>2. QED BY <3>1 DEF Inv, PageInv, Requests
  <2>2. pc[r] = "closed"
    BY <2>1 DEF Inv, PageInv
  <2>3. rows[r] \in {"named", "full"}
    BY DEF Inv, TypeInv, Requests
  <2>4. QED BY <2>2, <2>3 DEF Inv, RequestInv
<1>2. QED BY <1>1, Invariance, PTL

-----------------------------------------------------------------------------
\* A total is the library's sum of the weights.
LEMMA TotalIs ==
  ASSUME NEW d
  PROVE  Total(d) = (CHOOSE f : Summed(d.w, f))[DOMAIN d.w]
  BY DEF Total, MapThenSumSet, MapThenFoldSet, Summed, First

\* So a total is an integer, and that of positive
\* weights is positive.
LEMMA TotalSign ==
  ASSUME NEW d, IsFiniteSet(DOMAIN d.w), \A p \in DOMAIN d.w : d.w[p] \in Int
  PROVE  /\ Total(d) \in Int
         /\ (DOMAIN d.w # {} /\ \A p \in DOMAIN d.w : d.w[p] > 0) => Total(d) > 0
<1> DEFINE f == CHOOSE g : Summed(d.w, g)
<1>1. Summed(d.w, f)
  BY SumExists
<1>2. Total(d) = f[DOMAIN d.w]
  BY TotalIs
<1> HIDE DEF f
<1>3. QED BY <1>1, <1>2, SumOf

-----------------------------------------------------------------------------
\* A draft as the page may show it and send it.
Offered(d) ==
  d = NoDraft \/
    /\ IsFiniteSet(DOMAIN d.w) /\ DOMAIN d.w \subseteq Known /\ DOMAIN d.w \cap Cores # {}
    /\ \A p \in DOMAIN d.w : d.w[p] \in Int
    /\ d.unit \in Int /\ d.unit > 0 /\ d.terms \in BOOLEAN
    /\ WithinTolerance(d) \/ Total(d) <= 0

\* What the checks of PortfolioCreate refuse a draft for.
BadField(d) == ~d.terms \/ BadPick(d)

DraftInv ==
  /\ Offered(shown)
  /\ \A r \in Requests : Offered(sent[r].draft)
  /\ \A r \in Requests : event[r] = "rejected" => BadField(sent[r].draft)

\* _resolve_draft, then _normalize_draft.
LEMMA ProposalOffered ==
  ASSUME NEW d \in ModelDrafts
  PROVE  Offered(Proposal(d))
<1> DEFINE e == Resolve(d)
<1>1. SUFFICES ASSUME e # NoDraft PROVE Offered(Normalize(e))
  BY DEF Proposal, Offered
<1>2. PICK S \in Picks : d.unit = UNIT /\ d.w \in [S -> Weights] /\ d = [w |-> d.w, unit |-> UNIT, terms |-> d.terms]
                     /\ d.terms \in BOOLEAN
  BY DEF ModelDrafts
<1>3. PICK K : /\ K = S \cap Known /\ K \cap Cores # {}
               /\ e = [d EXCEPT !.w = [p \in K |-> d.w[p]]]
  BY <1>1, <1>2 DEF Resolve
<1>4. e.unit = UNIT /\ e.w = [p \in K |-> d.w[p]] /\ e = [w |-> e.w, unit |-> UNIT, terms |-> e.terms]
      /\ e.terms \in BOOLEAN
  BY <1>2, <1>3
<1>5. IsFiniteSet(K)
  BY <1>3, FS_Subset DEF Picks
<1>6. UNIT \in Int /\ UNIT > 0 /\ \A p \in K : e.w[p] \in Int
  BY <1>2, <1>3, <1>4, WeightAssumption
<1> DEFINE n == Normalize(e)
<1>7. DOMAIN e.w = K
  BY <1>4
<1> HIDE DEF e
<1>8. Total(e) \in Int
  BY <1>5, <1>6, <1>7, TotalSign
<1>9. n.w = e.w /\ n.terms = e.terms /\ n.unit \in {e.unit, Total(e)}
  BY <1>4 DEF Normalize
<1>10. Total(n) = Total(e)
  BY <1>9 DEF Total
<1>11. n.unit \in Int /\ n.unit > 0 /\ (WithinTolerance(n) \/ Total(n) <= 0)
  <2>1. CASE Total(e) <= 0 \/ WithinTolerance(e)
    BY <1>4, <1>6, <2>1 DEF Normalize
  <2>2. CASE ~(Total(e) <= 0 \/ WithinTolerance(e))
    <3>1. n.unit = Total(e)
      BY <1>4, <2>2 DEF Normalize
    <3>2. QED BY <1>8, <1>10, <2>2, <3>1 DEF WithinTolerance
  <2>3. QED BY <2>1, <2>2
<1>12. Offered(n)
  <2> HIDE DEF n
  <2>1. QED BY <1>3, <1>4, <1>5, <1>6, <1>7, <1>9, <1>11 DEF Offered
<1>13. QED BY <1>12

\* _create: what keeps a shown draft from being created is a field of its own.
LEMMA RejectedHasBadField ==
  ASSUME NEW d, Offered(d), d # NoDraft,
         ~WithinTolerance(d) \/ ~ValidSpec(d) \/ ~(DOMAIN d.w \subseteq Known)
  PROVE  BadField(d)
<1>1. CASE ~ValidSpec(d)
  BY <1>1 DEF Offered, ValidSpec, BadField, BadPick
<1>2. CASE ~WithinTolerance(d)
  <2>1. DOMAIN d.w # {} /\ Total(d) <= 0
    BY <1>2 DEF Offered
  <2>2. ~(\A p \in DOMAIN d.w : d.w[p] > 0)
    BY <2>1, TotalSign DEF Offered
  <2>3. QED BY <2>2 DEF Offered, BadField, BadPick
<1>3. QED BY <1>1, <1>2 DEF Offered

LEMMA DraftStep ==
  ASSUME Inv, DraftInv, [Next]_vars
  PROVE  DraftInv'
<1>1. Len(sent) \in Nat /\ Requests = 1 .. Len(sent)
  BY DEF Inv, TypeInv, Requests
<1>2. ASSUME NEW wish \in Wish, Send(wish)
      PROVE  DraftInv'
  <2> DEFINE n == Len(sent)
             new == [wish |-> wish, draft |-> shown]
  <2>1. PICK S : sent \in Seq(S)
    BY DEF Inv, TypeInv
  <2>2. /\ sent' = Append(sent, new) /\ event' = Append(event, "none") /\ shown' = shown
    BY <1>2 DEF Send
  <2>3. new.draft = shown
    OBVIOUS
  <2> HIDE DEF new
  <2>4. /\ Len(sent') = n + 1 /\ sent'[n + 1] = new
        /\ \A r \in Requests : sent'[r] = sent[r]
    BY <1>1, <2>1, <2>2, AppendKeeps
  <2>5. event'[n + 1] = "none" /\ \A r \in Requests : event'[r] = event[r]
    BY <1>1, <2>2 DEF Inv, TypeInv, Event
  <2>6. \A r \in Requests' : r \in Requests \/ r = n + 1
    BY <1>1, <2>4 DEF Requests
  <2>7. Offered(shown')
    BY <2>2 DEF DraftInv
  <2>8. \A r \in Requests' : Offered(sent'[r].draft)
    BY <2>3, <2>4, <2>6 DEF DraftInv
  <2>9. \A r \in Requests' : event'[r] = "rejected" => BadField(sent'[r].draft)
    BY <2>4, <2>5, <2>6 DEF DraftInv
  <2>10. QED BY <2>7, <2>8, <2>9 DEF DraftInv
<1>3. ASSUME sent' = sent, shown' = shown \/ Offered(shown'),
             \A r \in Requests : event'[r] = event[r] \/ (event'[r] = "rejected" => BadField(sent[r].draft))
      PROVE  DraftInv'
  <2>1. Requests' = Requests
    BY <1>3 DEF Requests
  <2>2. Offered(shown')
    BY <1>3 DEF DraftInv
  <2>3. QED BY <1>3, <2>1, <2>2 DEF DraftInv
<1>4. ASSUME NEW r \in Requests, NEW e \in Event, NEW d, Reply(r, e, d), Offered(d),
             sent' = sent, e = "rejected" => BadField(sent[r].draft)
      PROVE  DraftInv'
  <2>1. shown' = shown \/ Offered(shown')
    BY <1>4 DEF Reply
  <2>2. event'[r] = e /\ \A s \in Requests : s # r => event'[s] = event[s]
    BY <1>4, Replied DEF Inv
  <2>3. QED BY <1>3, <1>4, <2>1, <2>2
<1>5. Offered(NoDraft)
  BY DEF Offered
<1>6. ASSUME NEW r \in Requests, AgentFails(r) \/ Announce(r)
      PROVE  DraftInv'
  BY <1>4, <1>5, <1>6 DEF AgentFails, Announce, Event
<1>7. ASSUME NEW r \in Requests, ModelAnswers(r)
      PROVE  DraftInv'
  BY <1>4, <1>7, ProposalOffered DEF ModelAnswers, Event
<1>8. ASSUME NEW r \in Requests, Reject(r)
      PROVE  DraftInv'
  <2> DEFINE d == sent[r].draft
  <2>1. pc[r] = "creating" /\ Reply(r, "rejected", NoDraft) /\ sent' = sent
    BY <1>8 DEF Reject, At
  <2>2. d # NoDraft /\ Offered(d) /\ built[r] = d
    BY <2>1 DEF Inv, RequestInv, DraftInv
  <2>3. ~WithinTolerance(d) \/ ~ValidSpec(d) \/ ~(DOMAIN d.w \subseteq Known)
    BY <1>8, <2>2 DEF Reject
  <2>4. BadField(d)
    BY <2>2, <2>3, RejectedHasBadField
  <2>5. QED BY <1>4, <1>5, <2>1, <2>4 DEF Event
<1>9. ASSUME \E r \in Requests : Route(r) \/ ModelCreates(r) \/ Name(r) \/ Fill(r) \/ Cut(r)
      PROVE  DraftInv'
  BY <1>3, <1>9 DEF Route, ModelCreates, Name, Fill, Cut
<1>10. ASSUME Timeout \/ Leave \/ UNCHANGED vars
       PROVE  DraftInv'
  BY <1>3, <1>10 DEF Timeout, Leave, vars
<1>11. QED
  BY <1>2, <1>6, <1>7, <1>8, <1>9, <1>10 DEF Next, Build, Model

LEMMA DraftInvariance == Spec => [](Inv /\ DraftInv)
<1>1. Init => DraftInv
  <2> SUFFICES ASSUME Init PROVE DraftInv
    OBVIOUS
  <2>1. Requests = {}
    BY DEF Init, Requests
  <2>2. QED BY <2>1 DEF Init, DraftInv, Offered
<1>2. Inv /\ DraftInv /\ [Next]_vars => DraftInv'
  BY DraftStep
<1>3. QED BY <1>1, <1>2, Invariance, PTL DEF Spec

\* _resolve_draft, _normalize_draft and _create: whatever the model writes, a
\* draft the page was shown is rejected for its name, capital, contribution or
\* a single weight only, never for the sum, a missing core or an unknown ticker.
THEOREM ShownDraftsAddUp == Spec => []RejectedOnlyForAField
<1>1. DraftInv => RejectedOnlyForAField
  BY DEF DraftInv, BadField, RejectedOnlyForAField
<1>2. QED BY <1>1, DraftInvariance, PTL
=============================================================================
