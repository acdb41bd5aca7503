------------------------- MODULE CopilotChatProofs --------------------------
(***************************************************************************)
(* Proofs about CopilotChat for any number of concurrent requests, any     *)
(* window and any number of model calls and clears.                        *)
(*                                                                         *)
(* What a stored turn is worth is decided by the place of its request:     *)
(* until the commit nothing of the answer is there, and from then on all   *)
(* of it, except for what a clear removes.  Order rests on the sequence:   *)
(* every id, of a committed row or of an open one, was taken once.  That   *)
(* the model sees the question is a fact about the window: what is cut     *)
(* from it is older than what is kept, and the window is then full.        *)
(***************************************************************************)
EXTENDS CopilotChat, Induction

\* Nothing, or all, of a request's answer is stored.
Unstored(r) == audit[r] = 0 /\ AnswerTo(r, messages) = {}
StoredWhole(r) ==
  /\ audit[r] = spent[r] /\ audit[r] > 0
  /\ r \in cleared \/ AnswerTo(r, messages) # {}

\* What is stored follows from where the request is.
TurnInv ==
  \A r \in Requests :
    /\ pc[r] \in {"idle", "posted", "recorded", "running", "delivered", "inserted"} => Unstored(r)
    /\ pc[r] = "stored" => StoredWhole(r)
    /\ pc[r] = "closed" => StoredWhole(r) \/ Unstored(r)
    /\ pc[r] \in {"delivered", "inserted"} => spent[r] > 0
    /\ client[r] = "answer" => pc[r] = "closed" /\ StoredWhole(r)
    /\ client[r] = "error" => pc[r] = "closed" /\ Unstored(r)

\* An open transaction holds its request's question, or its answer, and
\* nothing else.
OpenInv ==
  \A r \in Requests :
    /\ pc[r] \notin {"posted", "inserted"} => open[r] = {}
    /\ pc[r] \in {"posted", "inserted"} => \E x \in Message : open[r] = {x}
    /\ \A x \in open[r] :
         x.req = r /\ x.role = IF pc[r] = "posted" THEN "user" ELSE "assistant"

\* Every id was taken once from the sequence.
IdInv ==
  /\ \A m \in messages : m.id < nextId
  /\ \A m, n \in messages : m.id = n.id => m = n
  /\ \A r \in Requests : \A x \in open[r] :
       /\ x.id < nextId
       /\ \A m \in messages : m.id # x.id
       /\ \A s \in Requests \ {r} : \A y \in open[s] : y.id # x.id

\* A question is there until a clear, and before its answer, of which there is
\* one.
OrderInv ==
  \A r \in Requests :
    /\ pc[r] \in {"idle", "posted"} => Question(r, messages) = {} /\ r \notin cleared
    /\ pc[r] \notin {"idle", "posted", "closed"} => r \in cleared \/ Question(r, messages) # {}
    /\ AnswerTo(r, messages) # {} => r \in cleared \/ Question(r, messages) # {}
    /\ \A q \in Question(r, messages), a \in AnswerTo(r, messages) \cup open[r] : q.id < a.id
    /\ \A a, b \in AnswerTo(r, messages) : a = b

Inv == TypeOK /\ TurnInv /\ OpenInv /\ IdInv /\ OrderInv

-----------------------------------------------------------------------------
LEMMA InitInv == Init => Inv
  BY BoundAssumption
  DEF Init, Inv, TypeOK, TurnInv, OpenInv, IdInv, OrderInv, Unstored, Question, AnswerTo,
      Place, Event

\* The variables stay in their types.
LEMMA TypeStep ==
  ASSUME TypeOK, [Next]_vars
  PROVE  TypeOK'
<1> USE BoundAssumption DEF TypeOK
<1>1. ASSUME NEW r \in Requests, InsertQuestion(r)
      PROVE  TypeOK'
  <2>1. Row("user", r, FALSE) \in Message /\ nextId' \in Nat
    BY <1>1 DEF InsertQuestion, Row, Message
  <2>2. QED BY <1>1, <2>1 DEF InsertQuestion, At, Place
<1>2. ASSUME NEW r \in Requests, ReadHistory(r)
      PROVE  TypeOK'
  <2>1. Recent(messages) \in SUBSET Message
    BY DEF Recent
  <2>2. QED BY <1>2, <2>1 DEF ReadHistory, At, Place
<1>3. ASSUME NEW r \in Requests, CallModel(r)
      PROVE  TypeOK'
  BY <1>3 DEF CallModel
<1>4. ASSUME NEW r \in Requests, Deliver(r)
      PROVE  TypeOK'
  BY <1>4 DEF Deliver, At, Place
<1>5. ASSUME NEW r \in Requests, RunFails(r) \/ SendAnswer(r) \/ Cut(r)
      PROVE  TypeOK'
  BY <1>5 DEF RunFails, SendAnswer, Cut, At, Place, Event
<1>6. ASSUME NEW r \in Requests, InsertAnswer(r)
      PROVE  TypeOK'
  <2>1. Row("assistant", r, canned[r]) \in Message /\ nextId' \in Nat
    BY <1>6 DEF InsertAnswer, Row, Message
  <2>2. QED BY <1>6, <2>1 DEF InsertAnswer, At, Place
<1>7. ASSUME NEW r \in Requests, CommitTurn(r) \/ CommitQuestion(r)
      PROVE  TypeOK'
  BY <1>7 DEF CommitTurn, CommitQuestion, At, Place
<1>8. CASE Clear
  BY <1>8 DEF Clear
<1>9. CASE UNCHANGED vars
  BY <1>9 DEF vars
<1>10. QED
  BY <1>1, <1>2, <1>3, <1>4, <1>5, <1>6, <1>7, <1>8, <1>9 DEF Next, Step

LEMMA AtMoves ==
  ASSUME TypeOK, NEW r \in Requests, NEW from, NEW to \in Place, At(r, from, to)
  PROVE  /\ pc[r] = from /\ pc'[r] = to
         /\ \A s \in Requests : s # r => pc'[s] = pc[s]
  BY DEF TypeOK, At

\* Steps of one request that leave the rows alone, its transaction closed.
LEMMA QuietStep ==
  ASSUME Inv, NEW r \in Requests,
         UNCHANGED <<messages, audit, nextId, cleared>>,
         \A s \in Requests : s # r =>
           pc'[s] = pc[s] /\ open'[s] = open[s] /\ spent'[s] = spent[s] /\ client'[s] = client[s],
         pc[r] # "idle", pc'[r] \notin {"idle", "posted", "inserted"},
         pc[r] = "posted" => pc'[r] = "closed",
         pc'[r] = "closed" \/ pc[r] # "closed",
         open'[r] = {}
  PROVE  OpenInv' /\ IdInv' /\ OrderInv'
<1>1. OpenInv'
  BY DEF Inv, OpenInv
<1>2. \A s \in Requests : open'[s] = open[s] \/ open'[s] = {}
  OBVIOUS
<1>3. IdInv'
  BY <1>2 DEF Inv, IdInv
<1>4. OrderInv'
  BY <1>2 DEF Inv, OrderInv, Question, AnswerTo
<1>5. QED BY <1>1, <1>3, <1>4

LEMMA InvStep ==
  ASSUME Inv, [Next]_vars
  PROVE  Inv'
<1>1. TypeOK' /\ TypeOK
  BY TypeStep DEF Inv
<1>2. ASSUME NEW r \in Requests, InsertQuestion(r)
      PROVE  Inv'
  <2> DEFINE q == Row("user", r, FALSE)
  <2>1. /\ pc[r] = "idle" /\ pc'[r] = "posted"
        /\ \A s \in Requests : s # r => pc'[s] = pc[s]
    BY <1>1, <1>2, AtMoves DEF InsertQuestion, Place
  <2>2. /\ open'[r] = {q} /\ \A s \in Requests : s # r => open'[s] = open[s]
        /\ nextId' = nextId + 1
        /\ UNCHANGED <<messages, audit, spent, client, cleared>>
        /\ q.id = nextId /\ q.req = r /\ q.role = "user" /\ q \in Message
    BY <1>1, <1>2 DEF InsertQuestion, Row, TypeOK, Message
  <2> HIDE DEF q
  <2>3. TurnInv'
    BY <2>1, <2>2 DEF Inv, TurnInv, Unstored, StoredWhole
  <2>4. OpenInv'
    BY <2>1, <2>2 DEF Inv, OpenInv
  <2>5. IdInv'
    BY <1>1, <2>2 DEF Inv, IdInv, TypeOK, Message
  <2>6. OrderInv'
    <3>1. Question(r, messages) = {} /\ AnswerTo(r, messages) = {} /\ r \notin cleared
      BY <2>1 DEF Inv, OrderInv, TurnInv, Unstored
    <3>2. QED BY <2>1, <2>2, <3>1 DEF Inv, OrderInv
  <2>7. QED BY <1>1, <2>3, <2>4, <2>5, <2>6 DEF Inv
<1>10. ASSUME NEW r \in Requests, CommitQuestion(r)
      PROVE  Inv'
  <2>1. /\ pc[r] = "posted" /\ pc'[r] = "recorded"
        /\ \A s \in Requests : s # r => pc'[s] = pc[s]
    BY <1>1, <1>10, AtMoves DEF CommitQuestion, Place
  <2>2. PICK q \in Message : open[r] = {q} /\ q.req = r /\ q.role = "user"
    BY <2>1 DEF Inv, OpenInv
  <2>3. /\ messages' = messages \cup {q} /\ open'[r] = {}
        /\ \A s \in Requests : s # r => open'[s] = open[s]
        /\ UNCHANGED <<audit, nextId, spent, client, cleared>>
    BY <1>1, <1>10, <2>2 DEF CommitQuestion, TypeOK
  <2>4. \A s \in Requests :
          /\ AnswerTo(s, messages') = AnswerTo(s, messages)
          /\ Question(s, messages') = IF s = r THEN {q} ELSE Question(s, messages)
    <3>1. Question(r, messages) = {}
      BY <2>1 DEF Inv, OrderInv
    <3>2. QED BY <2>2, <2>3, <3>1 DEF Question, AnswerTo
  <2>5. TurnInv'
    BY <2>1, <2>3, <2>4 DEF Inv, TurnInv, Unstored, StoredWhole
  <2>6. OpenInv'
    BY <2>1, <2>3 DEF Inv, OpenInv
  <2>7. IdInv'
    BY <2>2, <2>3 DEF Inv, IdInv
  <2>8. OrderInv'
    <3>1. ASSUME NEW s \in Requests, s # r
          PROVE  /\ Question(s, messages') = Question(s, messages) /\ open'[s] = open[s]
                 /\ AnswerTo(s, messages') = AnswerTo(s, messages) /\ pc'[s] = pc[s]
      BY <2>1, <2>3, <2>4, <3>1
    <3>2. AnswerTo(r, messages) = {}
      BY <2>1 DEF Inv, TurnInv, Unstored
    <3>3. Question(r, messages') = {q} /\ AnswerTo(r, messages') = {} /\ open'[r] = {}
      BY <2>3, <2>4, <3>2
    <3>4. ASSUME NEW s \in Requests
          PROVE  /\ pc'[s] \in {"idle", "posted"}
                    => Question(s, messages') = {} /\ s \notin cleared'
                 /\ pc'[s] \notin {"idle", "posted", "closed"}
                    => s \in cleared' \/ Question(s, messages') # {}
                 /\ AnswerTo(s, messages') # {}
                    => s \in cleared' \/ Question(s, messages') # {}
                 /\ \A m \in Question(s, messages'),
                       a \in AnswerTo(s, messages') \cup open'[s] : m.id < a.id
                 /\ \A a, b \in AnswerTo(s, messages') : a = b
      <4>1. CASE s = r
        BY <2>1, <3>3, <4>1
      <4>2. CASE s # r
        BY <2>3, <3>1, <4>2 DEF Inv, OrderInv
      <4>3. QED BY <4>1, <4>2
    <3>5. QED BY <3>4 DEF OrderInv
  <2>9. QED BY <1>1, <2>5, <2>6, <2>7, <2>8 DEF Inv
<1>3. ASSUME NEW r \in Requests, ReadHistory(r) \/ CallModel(r) \/ Deliver(r)
      PROVE  Inv'
  <2>1. /\ pc[r] \in {"recorded", "running"} /\ pc'[r] \in {"running", "delivered"}
        /\ pc'[r] = "delivered" => spent'[r] > 0
        /\ \A s \in Requests : s # r => pc'[s] = pc[s] /\ spent'[s] = spent[s]
    BY <1>1, <1>3, AtMoves DEF ReadHistory, CallModel, Deliver, Place, TypeOK
  <2>2. UNCHANGED <<messages, audit, nextId, open, client, cleared>>
    BY <1>3 DEF ReadHistory, CallModel, Deliver
  <2>3. open'[r] = {} /\ client[r] \notin {"answer", "error"} /\ Unstored(r)
    BY <2>1, <2>2 DEF Inv, OpenInv, TurnInv
  <2>4. TurnInv'
    BY <2>1, <2>2, <2>3 DEF Inv, TurnInv, Unstored, StoredWhole
  <2>5. OpenInv' /\ IdInv' /\ OrderInv'
    BY <2>1, <2>2, <2>3, QuietStep
  <2>6. QED BY <1>1, <2>4, <2>5 DEF Inv
<1>4. ASSUME NEW r \in Requests, RunFails(r) \/ SendAnswer(r) \/ Cut(r)
      PROVE  Inv'
  <2>1. /\ pc[r] # "idle" /\ pc'[r] = "closed"
        /\ \A s \in Requests : s # r => pc'[s] = pc[s]
    BY <1>1, <1>4, AtMoves DEF RunFails, SendAnswer, Cut, Place, TypeOK
  <2>2. UNCHANGED <<messages, audit, nextId, spent, cleared>>
    BY <1>4 DEF RunFails, SendAnswer, Cut
  <2>3. \A s \in Requests : s # r => open'[s] = open[s] /\ client'[s] = client[s]
    BY <1>1, <1>4 DEF RunFails, SendAnswer, Cut, TypeOK
  <2>4. open'[r] = {}
    BY <1>1, <1>4 DEF RunFails, SendAnswer, Cut, At, Inv, OpenInv, TypeOK
  <2>5. \/ client'[r] = "cut"
        \/ client'[r] = "error" /\ pc[r] = "running"
        \/ client'[r] = "answer" /\ pc[r] = "stored"
    BY <1>1, <1>4 DEF RunFails, SendAnswer, Cut, At, TypeOK
  <2>6. StoredWhole(r) \/ Unstored(r)
    BY <1>1, <2>1 DEF Inv, TurnInv, TypeOK, Place
  <2>7. TurnInv'
    BY <2>1, <2>2, <2>3, <2>5, <2>6 DEF Inv, TurnInv, Unstored, StoredWhole
  <2>8. OpenInv' /\ IdInv' /\ OrderInv'
    BY <2>1, <2>2, <2>3, <2>4, QuietStep
  <2>9. QED BY <1>1, <2>7, <2>8 DEF Inv
<1>5. ASSUME NEW r \in Requests, InsertAnswer(r)
      PROVE  Inv'
  <2> DEFINE a == Row("assistant", r, canned[r])
  <2>1. /\ pc[r] = "delivered" /\ pc'[r] = "inserted"
        /\ \A s \in Requests : s # r => pc'[s] = pc[s]
    BY <1>1, <1>5, AtMoves DEF InsertAnswer, Place
  <2>2. /\ open'[r] = {a} /\ \A s \in Requests : s # r => open'[s] = open[s]
        /\ nextId' = nextId + 1
        /\ UNCHANGED <<messages, audit, spent, client, cleared>>
        /\ a.id = nextId /\ a.req = r /\ a.role = "assistant" /\ a \in Message
    BY <1>1, <1>5 DEF InsertAnswer, Row, TypeOK, Message
  <2> HIDE DEF a
  <2>3. TurnInv'
    BY <2>1, <2>2 DEF Inv, TurnInv, Unstored, StoredWhole
  <2>4. OpenInv'
    BY <2>1, <2>2 DEF Inv, OpenInv
  <2>5. IdInv'
    BY <1>1, <2>2 DEF Inv, IdInv, TypeOK, Message
  <2>6. OrderInv'
    <3>1. AnswerTo(r, messages) = {}
      BY <2>1 DEF Inv, TurnInv, Unstored
    <3>2. \A q \in Question(r, messages) : q.id < a.id
      BY <2>2 DEF Inv, IdInv, Question
    <3>3. QED BY <2>1, <2>2, <3>1, <3>2 DEF Inv, OrderInv
  <2>7. QED BY <1>1, <2>3, <2>4, <2>5, <2>6 DEF Inv
<1>6. ASSUME NEW r \in Requests, CommitTurn(r)
      PROVE  Inv'
  <2>1. /\ pc[r] = "inserted" /\ pc'[r] = "stored"
        /\ \A s \in Requests : s # r => pc'[s] = pc[s]
    BY <1>1, <1>6, AtMoves DEF CommitTurn, Place
  <2>2. PICK a \in Message : open[r] = {a} /\ a.req = r /\ a.role = "assistant"
    BY <2>1 DEF Inv, OpenInv
  <2>3. /\ messages' = messages \cup {a}
        /\ open'[r] = {} /\ audit'[r] = spent[r]
        /\ \A s \in Requests : s # r => open'[s] = open[s] /\ audit'[s] = audit[s]
        /\ UNCHANGED <<nextId, spent, client, cleared>>
    BY <1>1, <1>6, <2>2 DEF CommitTurn, TypeOK
  <2>4. AnswerTo(r, messages) = {} /\ spent[r] > 0 /\ client[r] \notin {"answer", "error"}
    BY <2>1 DEF Inv, TurnInv, Unstored
  <2>5. \A s \in Requests :
          /\ Question(s, messages') = Question(s, messages)
          /\ AnswerTo(s, messages') = IF s = r THEN {a} ELSE AnswerTo(s, messages)
    BY <2>2, <2>3, <2>4 DEF Question, AnswerTo
  <2>6. TurnInv'
    BY <2>1, <2>3, <2>4, <2>5 DEF Inv, TurnInv, Unstored, StoredWhole
  <2>7. OpenInv'
    BY <2>1, <2>3 DEF Inv, OpenInv
  <2>8. IdInv'
    BY <2>2, <2>3 DEF Inv, IdInv
  <2>9. OrderInv'
    <3>1. ASSUME NEW s \in Requests, s # r
          PROVE  /\ Question(s, messages') = Question(s, messages) /\ open'[s] = open[s]
                 /\ AnswerTo(s, messages') = AnswerTo(s, messages) /\ pc'[s] = pc[s]
      BY <2>1, <2>3, <2>5, <3>1
    <3>2. /\ Question(r, messages') = Question(r, messages)
          /\ AnswerTo(r, messages') = {a} /\ open'[r] = {}
      BY <2>3, <2>5
    <3>3. \A q \in Question(r, messages) : q.id < a.id
      BY <2>2 DEF Inv, OrderInv
    <3>4. r \in cleared \/ Question(r, messages) # {}
      BY <2>1 DEF Inv, OrderInv
    <3> SUFFICES ASSUME NEW s \in Requests
                 PROVE  /\ pc'[s] \in {"idle", "posted"} =>
                             Question(s, messages') = {} /\ s \notin cleared'
                        /\ pc'[s] \notin {"idle", "posted", "closed"} =>
                             s \in cleared' \/ Question(s, messages') # {}
                        /\ AnswerTo(s, messages') # {} =>
                             s \in cleared' \/ Question(s, messages') # {}
                        /\ \A q \in Question(s, messages'),
                             b \in AnswerTo(s, messages') \cup open'[s] : q.id < b.id
                        /\ \A b, c \in AnswerTo(s, messages') : b = c
      BY DEF OrderInv
    <3>5. CASE s = r
      BY <2>1, <2>3, <3>2, <3>3, <3>4, <3>5
    <3>6. CASE s # r
      BY <2>3, <3>1, <3>6 DEF Inv, OrderInv
    <3>7. QED BY <3>5, <3>6
  <2>10. QED BY <1>1, <2>6, <2>7, <2>8, <2>9 DEF Inv
<1>7. CASE Clear
  <2>1. /\ messages' = {} /\ cleared' = cleared \cup {r \in Requests : pc[r] \notin {"idle", "posted"}}
        /\ UNCHANGED <<audit, nextId, pc, open, spent, client>>
    BY <1>7 DEF Clear
  <2>2. \A r \in Requests : Question(r, messages') = {} /\ AnswerTo(r, messages') = {}
    BY <2>1 DEF Question, AnswerTo
  <2>3. TurnInv'
    BY <2>1, <2>2 DEF Inv, TurnInv, Unstored, StoredWhole
  <2>4. OpenInv' /\ IdInv'
    BY <2>1 DEF Inv, OpenInv, IdInv
  <2>5. OrderInv'
    BY <2>1, <2>2 DEF Inv, OrderInv
  <2>6. QED BY <1>1, <2>3, <2>4, <2>5 DEF Inv
<1>8. CASE UNCHANGED vars
  BY <1>1, <1>8
  DEF Inv, vars, TurnInv, OpenInv, IdInv, OrderInv, Unstored, StoredWhole, Question, AnswerTo
<1>9. QED
  BY <1>2, <1>3, <1>4, <1>5, <1>6, <1>7, <1>8, <1>10 DEF Next, Step

LEMMA Invariance == Spec => []Inv
<1>1. Init => Inv
  BY InitInv
<1>2. Inv /\ [Next]_vars => Inv'
  BY InvStep
<1>3. QED BY <1>1, <1>2, PTL DEF Spec

\* stream_chat, _persist_turn: an answer and the audit rows of its run are
\* stored together or not at all, and the client is shown an answer only when
\* they are.
THEOREM TurnsAreAtomic == Spec => []TurnIsAtomic
<1>1. Inv => TurnIsAtomic
  <2> SUFFICES ASSUME Inv, NEW r \in Requests
               PROVE  /\ AnswerTo(r, messages) # {} => audit[r] = spent[r] /\ audit[r] > 0
                      /\ audit[r] > 0 /\ r \notin cleared => AnswerTo(r, messages) # {}
                      /\ client[r] = "answer" => audit[r] > 0
                      /\ client[r] = "error" => AnswerTo(r, messages) = {} /\ audit[r] = 0
    BY DEF TurnIsAtomic
  <2>1. StoredWhole(r) \/ Unstored(r)
    BY DEF Inv, TurnInv, TypeOK, Place
  <2>2. audit[r] \in Nat
    BY BoundAssumption DEF Inv, TypeOK
  <2>3. QED BY <2>1, <2>2 DEF Inv, TurnInv, Unstored, StoredWhole
<1>2. QED BY <1>1, Invariance, PTL

\* record_user_message and _persist_turn: whatever is asked, cut or cleared
\* meanwhile, an answer is the only one of its question and comes after it.
THEOREM AnswersFollow == Spec => []AnswerFollowsQuestion
<1>1. Inv => AnswerFollowsQuestion
  <2> SUFFICES ASSUME Inv, NEW r \in Requests, NEW a \in AnswerTo(r, messages)
               PROVE  /\ \A q \in Question(r, messages) : q.id < a.id
                      /\ Question(r, messages) = {} => r \in cleared
                      /\ \A b \in messages : b.id = a.id => b = a
                      /\ AnswerTo(r, messages) = {a}
    BY DEF AnswerFollowsQuestion
  <2>1. a \in messages
    BY DEF AnswerTo
  <2>2. QED BY <2>1 DEF Inv, OrderInv, IdInv
<1>2. QED BY <1>1, Invariance, PTL
-----------------------------------------------------------------------------
\* The window.

\* Of some messages one is the oldest.
LEMMA Oldest ==
  ASSUME NEW W, W \subseteq Message, W # {}
  PROVE  \E m \in W : \A n \in W : m.id <= n.id
<1> DEFINE T == {m.id : m \in W}
<1>1. T \subseteq Nat /\ T # {}
  BY DEF Message
<1>2. PICK x \in T : \A y \in T : x <= y
  BY <1>1, LeastNatural
<1>3. QED BY <1>2

\* And, below a bound, one is the newest.
LEMMA Newest ==
  ASSUME NEW W, W \subseteq Message, W # {}, NEW b \in Nat, \A m \in W : m.id < b
  PROVE  \E m \in W : \A n \in W : n.id <= m.id
<1> DEFINE T == {b - m.id : m \in W}
<1>1. T \subseteq Nat /\ T # {}
  BY DEF Message
<1>2. PICK x \in T : \A y \in T : x <= y
  BY <1>1, LeastNatural
<1>3. PICK m \in W : x = b - m.id
  OBVIOUS
<1>4. \A n \in W : n.id <= m.id
  <2> TAKE n \in W
  <2>1. b - m.id <= b - n.id /\ m.id \in Nat /\ n.id \in Nat
    BY <1>2, <1>3 DEF Message
  <2>2. QED BY <2>1
<1>5. QED BY <1>4

\* _render_context keeps at most a window of informative messages, and what it
\* cuts is older than a full window.
LEMMA WindowIsNewest ==
  ASSUME NEW S, S \subseteq Message, IsFiniteSet(S),
         \A m, n \in S : m.id = n.id => m = n,
         NEW b \in Nat, \A m \in S : m.id < b
  PROVE  /\ Recent(S) \subseteq S
         /\ \A m \in Recent(S) : ~m.canned
         /\ Cardinality(Recent(S)) <= CONTEXT_MESSAGES
         /\ \A q \in S : ~q.canned /\ q \notin Recent(S) =>
              /\ Cardinality(Recent(S)) = CONTEXT_MESSAGES
              /\ \A m \in Recent(S) : m.id > q.id
<1> DEFINE I == {m \in S : ~m.canned}
           W == {m \in I : Cardinality(Later(m, I)) < CONTEXT_MESSAGES}
<1>1. Recent(S) = W
  BY DEF Recent
<1>2. I \subseteq Message /\ IsFiniteSet(I)
  BY FS_Subset
<1>3. ASSUME NEW T \in SUBSET I
      PROVE  IsFiniteSet(T) /\ Cardinality(T) \in Nat
  BY <1>2, FS_Subset, FS_CardinalityType
<1>4. \A m \in I : Later(m, I) \in SUBSET I
  BY DEF Later
<1>5. CONTEXT_MESSAGES \in Nat \ {0}
  BY ContextAssumption
<1>6. \A m \in I : m \notin W => Cardinality(Later(m, I)) >= CONTEXT_MESSAGES
  BY <1>3, <1>4, <1>5
<1>7. W \in SUBSET I
  OBVIOUS
<1> HIDE DEF W
\* The rest of the window comes after its oldest message.
<1>8. Cardinality(W) <= CONTEXT_MESSAGES
  <2>1. CASE W = {}
    BY <2>1, <1>5, FS_EmptySet
  <2>2. CASE W # {}
    <3>1. PICK m \in W : \A n \in W : m.id <= n.id
      BY <1>2, <1>7, <2>2, Oldest
    <3>2. W \ {m} \in SUBSET Later(m, I)
      <4> SUFFICES ASSUME NEW n \in W, n # m PROVE n.id > m.id
        BY <1>7 DEF Later
      <4>1. n.id # m.id /\ n.id \in Nat /\ m.id \in Nat
        BY <1>2, <1>7 DEF Message
      <4>2. QED BY <3>1, <4>1
    <3>3. Cardinality(W \ {m}) <= Cardinality(Later(m, I))
      BY <1>3, <1>4, <1>7, <3>2, FS_Subset
    <3>4. Cardinality(W \ {m}) = Cardinality(W) - 1
      BY <1>3, <1>7, FS_RemoveElement
    <3>5. Cardinality(Later(m, I)) < CONTEXT_MESSAGES
      BY DEF W
    <3>6. Cardinality(W) \in Nat /\ Cardinality(Later(m, I)) \in Nat
      BY <1>3, <1>4, <1>7
    <3>7. QED BY <1>5, <3>3, <3>4, <3>5, <3>6
  <2>3. QED BY <2>1, <2>2
<1>9. ASSUME NEW q \in I, q \notin W
      PROVE  Cardinality(W) = CONTEXT_MESSAGES /\ \A m \in W : m.id > q.id
  \* Of the messages cut off, those after the newest are the window.
  <2>1. PICK j \in I \ W : \A n \in I \ W : n.id <= j.id
    <3>1. I \ W \subseteq Message /\ I \ W # {} /\ \A m \in I \ W : m.id < b
      BY <1>2, <1>9
    <3>2. QED BY <3>1, Newest
  <2>2. Later(j, I) \in SUBSET W
    <3> SUFFICES ASSUME NEW n \in I, n.id > j.id, n \notin W PROVE FALSE
      BY DEF Later
    <3>1. n.id <= j.id /\ n.id \in Nat /\ j.id \in Nat
      BY <1>2, <2>1 DEF Message
    <3>2. QED BY <3>1
  <2>3. Cardinality(Later(j, I)) >= CONTEXT_MESSAGES
    BY <1>6, <2>1
  <2>4. Cardinality(Later(j, I)) <= Cardinality(W)
    BY <1>3, <1>7, <2>2, FS_Subset
  <2>5. Cardinality(W) = CONTEXT_MESSAGES
    BY <1>3, <1>4, <1>5, <1>7, <1>8, <2>1, <2>3, <2>4
  <2>6. ASSUME NEW m \in W, ~(m.id > q.id)
        PROVE  FALSE
    <3>1. m.id \in Nat /\ q.id \in Nat /\ m \in I
      BY <1>2, <1>7 DEF Message
    <3>2. Later(q, I) \in SUBSET Later(m, I)
      <4> SUFFICES ASSUME NEW n \in I, n.id > q.id PROVE n.id > m.id
        BY DEF Later
      <4>1. n.id \in Nat
        BY <1>2 DEF Message
      <4>2. QED BY <2>6, <3>1, <4>1
    <3>3. Cardinality(Later(q, I)) <= Cardinality(Later(m, I))
      BY <1>3, <1>4, <3>1, <3>2, FS_Subset
    <3>4. Cardinality(Later(q, I)) >= CONTEXT_MESSAGES
      BY <1>6, <1>9
    <3>5. Cardinality(Later(m, I)) < CONTEXT_MESSAGES
      BY DEF W
    <3>6. Cardinality(Later(q, I)) \in Nat /\ Cardinality(Later(m, I)) \in Nat
      BY <1>3, <1>4, <3>1
    <3>7. QED BY <1>5, <3>3, <3>4, <3>5, <3>6
  <2>7. QED BY <2>5, <2>6
<1>10. QED BY <1>1, <1>7, <1>8, <1>9

\* A question is never a canned text, and the history is finite.
RowsInv ==
  /\ IsFiniteSet(messages)
  /\ \A m \in messages : m.role = "user" => ~m.canned
  /\ \A r \in Requests : \A x \in open[r] : x.role = "user" => ~x.canned
  /\ \A r \in Requests : IsFiniteSet(open[r])

\* What a run was shown.
ContextInv ==
  \A r \in Requests : pc[r] \in {"running", "delivered"} =>
    /\ \A m \in context[r] : ~m.canned
    /\ Cardinality(context[r]) <= CONTEXT_MESSAGES
    /\ \/ Question(r, context[r]) # {}
       \/ r \in cleared
       \/ /\ Cardinality(context[r]) = CONTEXT_MESSAGES
          /\ \A q \in Question(r, messages), m \in context[r] : m.id > q.id

LEMMA RowsStep ==
  ASSUME Inv, RowsInv, [Next]_vars
  PROVE  RowsInv'
<1> USE DEF RowsInv
<1>1. ASSUME NEW r \in Requests, NEW a, a.role = "user" => ~a.canned,
             open' = [open EXCEPT ![r] = {a}], messages' = messages
      PROVE  RowsInv'
  <2>1. IsFiniteSet({a})
    BY FS_Singleton
  <2>2. QED BY <1>1, <2>1 DEF Inv, TypeOK
<1>2. ASSUME NEW r \in Requests, InsertQuestion(r) \/ InsertAnswer(r)
      PROVE  RowsInv'
  <2>1. PICK a : /\ a.role = "user" => ~a.canned
                 /\ open' = [open EXCEPT ![r] = {a}] /\ messages' = messages
    BY <1>2 DEF InsertQuestion, InsertAnswer, Row
  <2>2. QED BY <1>1, <2>1
<1>3. ASSUME NEW r \in Requests, CommitQuestion(r) \/ CommitTurn(r) \/ Cut(r)
      PROVE  RowsInv'
  <2>1. messages' = messages \/ messages' = messages \cup open[r]
    BY <1>3 DEF CommitQuestion, CommitTurn, Cut
  <2>2. IsFiniteSet(messages') /\ \A m \in messages' : m.role = "user" => ~m.canned
    BY <2>1, FS_Union
  <2>3. \A s \in Requests : open'[s] = open[s] \/ open'[s] = {}
    BY <1>3 DEF CommitQuestion, CommitTurn, Cut, Inv, TypeOK
  <2>4. QED BY <2>2, <2>3, FS_EmptySet
<1>4. CASE Clear
  BY <1>4, FS_EmptySet DEF Clear
<1>5. CASE UNCHANGED <<messages, open>>
  BY <1>5
<1>6. ASSUME NEW r \in Requests,
             ReadHistory(r) \/ CallModel(r) \/ Deliver(r) \/ RunFails(r) \/ SendAnswer(r)
      PROVE  RowsInv'
  BY <1>5, <1>6 DEF ReadHistory, CallModel, Deliver, RunFails, SendAnswer
<1>7. QED
  BY <1>2, <1>3, <1>4, <1>5, <1>6 DEF Next, Step, vars

LEMMA ContextStep ==
  ASSUME Inv, RowsInv, ContextInv, [Next]_vars
  PROVE  ContextInv'
<1>1. TypeOK
  BY DEF Inv
<1>2. ASSUME NEW r \in Requests, ReadHistory(r)
      PROVE  ContextInv'
  <2>1. /\ pc[r] = "recorded" /\ UNCHANGED <<messages, cleared>>
        /\ \A s \in Requests : s # r => pc'[s] = pc[s] /\ context'[s] = context[s]
        /\ context'[r] = Recent(messages)
    BY <1>1, <1>2, AtMoves DEF ReadHistory, Place, TypeOK
  <2>2. /\ messages \subseteq Message /\ IsFiniteSet(messages)
        /\ \A m, n \in messages : m.id = n.id => m = n
        /\ nextId \in Nat /\ \A m \in messages : m.id < nextId
    BY <1>1 DEF TypeOK, RowsInv, Inv, IdInv
  <2> DEFINE C == Recent(messages)
  <2>3. /\ \A m \in C : ~m.canned
        /\ Cardinality(C) <= CONTEXT_MESSAGES
        /\ \A q \in messages : ~q.canned /\ q \notin C =>
             Cardinality(C) = CONTEXT_MESSAGES /\ \A m \in C : m.id > q.id
    BY <2>2, WindowIsNewest
  <2> HIDE DEF C
  <2>4. r \in cleared \/ Question(r, messages) # {}
    BY <2>1 DEF Inv, OrderInv
  <2>5. \A q \in Question(r, messages) :
          /\ q \in messages /\ ~q.canned
          /\ q \in C => q \in Question(r, C)
    BY DEF RowsInv, Question
  <2>6. \/ Question(r, C) # {}
        \/ r \in cleared
        \/ /\ Cardinality(C) = CONTEXT_MESSAGES
           /\ \A q \in Question(r, messages), m \in C : m.id > q.id
    BY <2>3, <2>4, <2>5
  <2>7. context'[r] = C
    BY <2>1 DEF C
  <2>8. QED BY <2>1, <2>3, <2>6, <2>7 DEF ContextInv
<1>3. ASSUME NEW r \in Requests, CommitQuestion(r)
      PROVE  ContextInv'
  <2>1. /\ pc[r] = "posted" /\ pc'[r] = "recorded"
        /\ \A s \in Requests : s # r => pc'[s] = pc[s]
        /\ messages' = messages \cup open[r] /\ UNCHANGED <<context, cleared>>
    BY <1>1, <1>3, AtMoves DEF CommitQuestion, Place
  <2>2. \A x \in open[r] : x.req = r
    BY DEF Inv, OpenInv
  <2>3. \A s \in Requests : s # r => Question(s, messages') = Question(s, messages)
    BY <2>1, <2>2 DEF Question
  <2>4. QED BY <2>1, <2>3 DEF ContextInv
<1>4. ASSUME UNCHANGED <<messages, context, cleared>>,
             \A s \in Requests : pc'[s] \in {"running", "delivered"} =>
               pc[s] \in {"running", "delivered"}
      PROVE  ContextInv'
  BY <1>4 DEF ContextInv
<1>5. ASSUME NEW r \in Requests,
             \/ InsertQuestion(r) \/ CallModel(r) \/ Deliver(r) \/ RunFails(r)
             \/ InsertAnswer(r) \/ SendAnswer(r) \/ Cut(r)
      PROVE  ContextInv'
  <2>1. UNCHANGED <<messages, context, cleared>>
    BY <1>5 DEF InsertQuestion, CallModel, Deliver, RunFails, InsertAnswer, SendAnswer, Cut
  <2>2. \A s \in Requests : pc'[s] \in {"running", "delivered"} =>
          pc[s] \in {"running", "delivered"}
    BY <1>1, <1>5
    DEF InsertQuestion, CallModel, Deliver, RunFails, InsertAnswer, SendAnswer, Cut, At, TypeOK
  <2>3. QED BY <1>4, <2>1, <2>2
<1>6. ASSUME NEW r \in Requests, CommitTurn(r)
      PROVE  ContextInv'
  <2>1. /\ pc[r] = "inserted" /\ pc'[r] = "stored"
        /\ \A s \in Requests : s # r => pc'[s] = pc[s]
        /\ messages' = messages \cup open[r] /\ UNCHANGED <<context, cleared>>
    BY <1>1, <1>6, AtMoves DEF CommitTurn, Place
  <2>2. \A s \in Requests : Question(s, messages') = Question(s, messages)
    <3>1. \A x \in open[r] : x.role = "assistant"
      BY <2>1 DEF Inv, OpenInv
    <3>2. QED BY <2>1, <3>1 DEF Question
  <2>3. QED BY <2>1, <2>2 DEF ContextInv
<1>7. CASE Clear
  <2>1. /\ UNCHANGED <<pc, context>>
        /\ \A s \in Requests : pc[s] \in {"running", "delivered"} => s \in cleared'
    BY <1>7 DEF Clear
  <2>2. QED BY <2>1 DEF ContextInv
<1>8. CASE UNCHANGED vars
  BY <1>4, <1>8 DEF vars
<1>9. QED
  BY <1>2, <1>3, <1>5, <1>6, <1>7, <1>8 DEF Next, Step

\* stream_chat, _render_context: the model is shown a sound window, and the
\* question in it unless a clear or newer messages removed it.
THEOREM ContextsAreSound == Spec => []ContextSound
<1>1. Init => RowsInv /\ ContextInv
  BY FS_EmptySet DEF Init, RowsInv, ContextInv
<1>2. Inv /\ RowsInv /\ ContextInv /\ [Next]_vars => (RowsInv /\ ContextInv)'
  BY RowsStep, ContextStep
<1>3. ContextInv => ContextSound
  BY DEF ContextInv, ContextSound
<1>4. QED BY <1>1, <1>2, <1>3, Invariance, PTL DEF Spec

-----------------------------------------------------------------------------
\* The history, as ChatLog.

\* Rows as a table holds them: each of its own id.
Rows(S) == S \subseteq Message /\ IsFiniteSet(S) /\ \A m, n \in S : m.id = n.id => m = n
Rank(m, S) == Cardinality(Before(m, S))
Entry == [question : Requests, role : {"user", "assistant"}]

\* Of two messages the one with the smaller id has the smaller rank.
LEMMA Ranks ==
  ASSUME NEW S, Rows(S), NEW m \in Message, NEW n \in Message
  PROVE  /\ Rank(m, S) \in 0 .. Cardinality(S) /\ Cardinality(S) \in Nat
         /\ m.id < n.id /\ m \in S => Rank(m, S) + 1 <= Rank(n, S)
         /\ m.id <= n.id => Rank(m, S) <= Rank(n, S)
         /\ m \in S => Rank(m, S) < Cardinality(S)
<1> USE DEF Rows
<1>1. /\ Before(m, S) \in SUBSET S /\ Before(n, S) \in SUBSET S
      /\ m.id \in Nat /\ n.id \in Nat /\ \A l \in S : l.id \in Nat
  BY DEF Before, Message
<1>2. ASSUME NEW T \in SUBSET S
      PROVE  IsFiniteSet(T) /\ Cardinality(T) \in Nat /\ Cardinality(T) <= Cardinality(S)
  BY FS_Subset, FS_CardinalityType
<1>3. Cardinality(S) \in Nat /\ Rank(m, S) \in 0 .. Cardinality(S) /\ Rank(n, S) \in Nat
  <2>1. S \in SUBSET S
    OBVIOUS
  <2>2. QED BY <1>1, <1>2, <2>1 DEF Rank
<1>4. m \notin Before(m, S)
  BY <1>1 DEF Before
<1>5. Cardinality(Before(m, S) \cup {m}) = Rank(m, S) + 1
  BY <1>1, <1>2, <1>4, FS_AddElement DEF Rank
<1>6. ASSUME m.id < n.id, m \in S
      PROVE  Rank(m, S) + 1 <= Rank(n, S)
  <2>1. Before(m, S) \cup {m} \in SUBSET Before(n, S)
    BY <1>1, <1>6 DEF Before
  <2>2. Cardinality(Before(m, S) \cup {m}) <= Cardinality(Before(n, S))
    BY <1>1, <1>2, <2>1, FS_Subset
  <2>3. QED BY <1>5, <2>2 DEF Rank
<1>7. ASSUME m.id <= n.id
      PROVE  Rank(m, S) <= Rank(n, S)
  <2>1. Before(m, S) \in SUBSET Before(n, S)
    BY <1>1, <1>7 DEF Before
  <2>2. QED BY <1>1, <1>2, <2>1, FS_Subset DEF Rank
<1>8. ASSUME m \in S
      PROVE  Rank(m, S) < Cardinality(S)
  <2>1. Before(m, S) \cup {m} \in SUBSET S
    BY <1>1, <1>8
  <2>2. Cardinality(Before(m, S) \cup {m}) <= Cardinality(S)
    BY <1>2, <2>1
  <2>3. QED BY <1>3, <1>5, <2>2
<1>9. QED BY <1>3, <1>6, <1>7, <1>8

\* Every place is the rank of one message.
LEMMA RanksOnto ==
  ASSUME NEW S, Rows(S)
  PROVE  /\ \A m, n \in S : Rank(m, S) = Rank(n, S) => m = n
         /\ \A i \in 1 .. Cardinality(S) : \E m \in S : Rank(m, S) = i - 1
<1> DEFINE c == Cardinality(S)
           T == 0 .. c - 1
           f == [m \in S |-> Rank(m, S)]
<1>1. S \subseteq Message /\ IsFiniteSet(S) /\ c \in Nat
  BY FS_CardinalityType DEF Rows
<1>2. ASSUME NEW m \in S
      PROVE  Rank(m, S) \in T
  BY <1>1, Ranks
<1>3. ASSUME NEW m \in S, NEW n \in S, Rank(m, S) = Rank(n, S)
      PROVE  m = n
  <2>1. m.id \in Nat /\ n.id \in Nat /\ Rank(m, S) \in Nat /\ Rank(n, S) \in Nat
    BY <1>1, <1>2 DEF Message
  <2>2. ~(m.id < n.id) /\ ~(n.id < m.id)
    <3>1. m.id < n.id => Rank(m, S) + 1 <= Rank(n, S)
      BY <1>1, Ranks
    <3>2. n.id < m.id => Rank(n, S) + 1 <= Rank(m, S)
      BY <1>1, Ranks
    <3>3. QED BY <1>3, <2>1, <3>1, <3>2
  <2>3. QED BY <2>1, <2>2 DEF Rows
<1>4. f \in Injection(S, T)
  BY <1>2, <1>3 DEF Injection, IsInjective
<1>5. IsFiniteSet(T) /\ Cardinality(T) = c
  <2>1. 0 \in Int /\ c - 1 \in Int
    BY <1>1
  <2>2. IsFiniteSet(T) /\ Cardinality(T) = IF 0 > c - 1 THEN 0 ELSE c - 1 - 0 + 1
    BY <2>1, FS_Interval
  <2>3. QED BY <1>1, <2>2
<1>6. f \in Surjection(S, T)
  BY <1>4, <1>5, FS_Injection
<1>7. \A t \in T : \E m \in S : f[m] = t
  BY <1>6 DEF Surjection
<1>8. ASSUME NEW i \in 1 .. c
      PROVE  \E m \in S : Rank(m, S) = i - 1
  <2>1. i - 1 \in T
    BY <1>1
  <2>2. PICK m \in S : f[m] = i - 1
    BY <1>7, <2>1
  <2>3. QED BY <2>2
<1>9. QED BY <1>3, <1>8

\* The history holds every message, at the place of its rank.
LEMMA HistoryIs ==
  ASSUME NEW S, Rows(S)
  PROVE  /\ History(S) \in Seq(Entry) /\ Len(History(S)) = Cardinality(S)
         /\ Cardinality(S) \in Nat
         /\ \A m \in S : /\ Rank(m, S) + 1 \in 1 .. Cardinality(S)
                         /\ History(S)[Rank(m, S) + 1] = Log!Message(m.req, m.role)
<1> DEFINE c == Cardinality(S)
           Nth(i) == CHOOSE m \in S : Cardinality(Before(m, S)) = i - 1
<1>1. S \subseteq Message /\ c \in Nat
  BY FS_CardinalityType DEF Rows
<1>2. ASSUME NEW i \in 1 .. c
      PROVE  Nth(i) \in S /\ Rank(Nth(i), S) = i - 1
  BY RanksOnto DEF Rank
<1>3. History(S) = [i \in 1 .. c |-> Log!Message(Nth(i).req, Nth(i).role)]
  BY DEF History, Log!Message
<1>4. ASSUME NEW m \in S
      PROVE  Log!Message(m.req, m.role) \in Entry
  BY <1>1 DEF Message, Entry, Log!Message
<1> HIDE DEF Nth
<1>5. \A i \in 1 .. c : Log!Message(Nth(i).req, Nth(i).role) \in Entry
  BY <1>2, <1>4
<1>6. History(S) \in [1 .. c -> Entry]
  BY <1>3, <1>5
<1>7. History(S) \in Seq(Entry) /\ Len(History(S)) = c
  BY <1>1, <1>6
<1>8. ASSUME NEW m \in S
      PROVE  /\ Rank(m, S) + 1 \in 1 .. c
             /\ History(S)[Rank(m, S) + 1] = Log!Message(m.req, m.role)
  <2>1. Rank(m, S) \in 0 .. c /\ Rank(m, S) < c
    BY <1>1, Ranks
  <2>2. Rank(m, S) + 1 \in 1 .. c /\ Rank(m, S) + 1 - 1 = Rank(m, S)
    BY <1>1, <2>1
  <2>3. Nth(Rank(m, S) + 1) = m
    <3>1. Nth(Rank(m, S) + 1) \in S /\ Rank(Nth(Rank(m, S) + 1), S) = Rank(m, S)
      <4>1. PICK j \in 1 .. c : j = Rank(m, S) + 1 /\ j - 1 = Rank(m, S)
        BY <1>1, <2>1
      <4>2. Nth(j) \in S /\ Rank(Nth(j), S) = j - 1
        BY <1>2
      <4>3. QED BY <4>1, <4>2
    <3>2. QED BY <3>1, RanksOnto
  <2>4. QED BY <1>3, <2>2, <2>3
<1>9. QED BY <1>1, <1>7, <1>8

\* A row more is an entry more, at the place of its id.
LEMMA HistoryInsert ==
  ASSUME NEW S, Rows(S), NEW x \in Message, \A m \in S : m.id # x.id
  PROVE  /\ Rows(S \cup {x}) /\ Rank(x, S) + 1 \in 1 .. Len(History(S)) + 1
         /\ History(S \cup {x}) =
              InsertAt(History(S), Rank(x, S) + 1, Log!Message(x.req, x.role))
<1> DEFINE R == S \cup {x}
           c == Cardinality(S)
           k == Rank(x, S)
           h == History(S)
           g == History(R)
           e == Log!Message(x.req, x.role)
<1>1. S \subseteq Message /\ IsFiniteSet(S) /\ c \in Nat /\ x \notin S
  BY FS_CardinalityType DEF Rows
<1>2. Rows(R) /\ Cardinality(R) = c + 1
  BY <1>1, FS_AddElement DEF Rows
<1>3. k \in 0 .. c
  BY Ranks
<1>4. /\ h \in Seq(Entry) /\ Len(h) = c
      /\ g \in Seq(Entry) /\ Len(g) = c + 1
      /\ \A m \in S : Rank(m, S) + 1 \in 1 .. c /\ h[Rank(m, S) + 1] = Log!Message(m.req, m.role)
      /\ \A m \in R : g[Rank(m, R) + 1] = Log!Message(m.req, m.role)
  BY <1>2, HistoryIs
<1>5. ASSUME NEW m \in S
      PROVE  /\ m.id \in Nat /\ x.id \in Nat /\ Rank(m, S) \in Nat
             /\ m.id < x.id => Rank(m, R) = Rank(m, S) /\ Rank(m, S) < k
             /\ x.id < m.id => Rank(m, R) = Rank(m, S) + 1 /\ k <= Rank(m, S)
  <2>1. m \in Message /\ m.id \in Nat /\ x.id \in Nat
    BY <1>1 DEF Message
  <2>2. IsFiniteSet(Before(m, S)) /\ x \notin Before(m, S) /\ Rank(m, S) \in Nat
    <3>1. Before(m, S) \subseteq S
      BY DEF Before
    <3>2. QED BY <1>1, <2>1, <3>1, FS_Subset, FS_CardinalityType DEF Rank
  <2>3. ASSUME m.id < x.id
        PROVE  Rank(m, R) = Rank(m, S) /\ Rank(m, S) < k
    <3>1. Before(m, R) = Before(m, S)
      BY <2>1, <2>3 DEF Before
    <3>2. Rank(m, S) + 1 <= k
      BY <2>1, <2>3, Ranks
    <3>3. QED BY <1>3, <2>2, <3>1, <3>2 DEF Rank
  <2>4. ASSUME x.id < m.id
        PROVE  Rank(m, R) = Rank(m, S) + 1 /\ k <= Rank(m, S)
    <3>1. Before(m, R) = Before(m, S) \cup {x}
      BY <2>1, <2>4 DEF Before
    <3>2. Cardinality(Before(m, R)) = Cardinality(Before(m, S)) + 1
      BY <2>2, <3>1, FS_AddElement
    <3>3. k <= Rank(m, S)
      BY <2>1, <2>4, Ranks
    <3>4. QED BY <3>2, <3>3 DEF Rank
  <2>5. QED BY <2>1, <2>2, <2>3, <2>4
<1>6. Rank(x, R) = k
  <2>1. Before(x, R) = Before(x, S)
    BY <1>1 DEF Before, Message
  <2>2. QED BY <2>1 DEF Rank
<1>7. e \in Entry
  BY DEF Message, Entry, Log!Message
<1>8. ASSUME NEW i \in 1 .. c + 1
      PROVE  g[i] = IF i < k + 1 THEN h[i] ELSE IF i = k + 1 THEN e ELSE h[i - 1]
  <2> HIDE DEF c, k, h, g, e, R
  <2>1. PICK m \in R : Rank(m, R) = i - 1
    BY <1>1, <1>2, RanksOnto
  <2>2. i - 1 + 1 = i
    OBVIOUS
  <2>3. g[i] = Log!Message(m.req, m.role)
    BY <1>4, <2>1, <2>2
  <2>4. CASE m = x
    <3>1. i = k + 1 /\ ~(i < k + 1)
      BY <1>3, <1>6, <2>1, <2>4
    <3>2. QED BY <2>3, <2>4, <3>1 DEF e
  <2>5. CASE m # x
    <3>1. m \in S /\ m.id # x.id
      BY <2>5 DEF R
    <3>2. m.id < x.id \/ x.id < m.id
      BY <1>5, <3>1
    <3>3. h[Rank(m, S) + 1] = g[i] /\ Rank(m, S) + 1 \in 1 .. c
      BY <1>4, <2>3, <3>1
    <3>4. CASE m.id < x.id
      <4>1. Rank(m, S) = i - 1 /\ i < k + 1
        BY <1>3, <1>5, <2>1, <3>1, <3>3, <3>4
      <4>2. Rank(m, S) + 1 = i
        BY <4>1
      <4>3. QED BY <3>3, <4>1, <4>2
    <3>5. CASE x.id < m.id
      <4>1. Rank(m, S) + 1 = i - 1 /\ k <= Rank(m, S)
        BY <1>5, <2>1, <3>1, <3>5
      <4>2. ~(i < k + 1) /\ i # k + 1
        <5>1. Rank(m, S) \in Nat /\ k \in Nat /\ i \in Int
          BY <1>1, <1>3, <1>5, <3>1
        <5>2. QED BY <4>1, <5>1
      <4>3. QED BY <3>3, <4>1, <4>2
    <3>6. QED BY <3>2, <3>4, <3>5
  <2>6. QED BY <2>4, <2>5
<1>9. k + 1 \in 1 .. Len(h) + 1
  BY <1>1, <1>3, <1>4
<1> HIDE DEF k, h, g, e, R
<1>10. g = InsertAt(h, k + 1, e)
  BY <1>4, <1>7, <1>8, <1>9, InsertAtUnique
<1>11. QED BY <1>2, <1>9, <1>10 DEF k, h, g, e, R

\* The turns of the specification, and what a step of one request makes of them.
Turns == [r \in Requests |-> TurnOf(pc[r])]

LEMMA TurnMoves ==
  ASSUME NEW r \in Requests, \A s \in Requests : s # r => pc'[s] = pc[s]
  PROVE  /\ Turns' = [Turns EXCEPT ![r] = TurnOf(pc'[r])]
         /\ TurnOf(pc'[r]) = TurnOf(pc[r]) => Turns' = Turns
  BY DEF Turns

\* A commit adds the question, at the place its id has among the rows.
LEMMA CommitIsAsk ==
  ASSUME Inv, RowsInv, NEW r \in Requests, CommitQuestion(r)
  PROVE  Log!Ask(r)
<1>1. TypeOK /\ Rows(messages)
  BY DEF Inv, IdInv, RowsInv, TypeOK, Rows
<1>2. /\ pc[r] = "posted" /\ pc'[r] = "recorded"
      /\ \A s \in Requests : s # r => pc'[s] = pc[s]
  BY <1>1, AtMoves DEF CommitQuestion, Place
<1>3. PICK q \in Message : open[r] = {q} /\ q.req = r /\ q.role = "user"
  BY <1>2 DEF Inv, OpenInv
<1>4. messages' = messages \cup {q} /\ \A m \in messages : m.id # q.id
  BY <1>3 DEF CommitQuestion, Inv, IdInv
<1> DEFINE h == History(messages)
           k == Rank(q, messages) + 1
<1>5. /\ History(messages') = InsertAt(h, k, Log!Message(r, "user"))
      /\ k \in 1 .. Len(h) + 1
  BY <1>1, <1>3, <1>4, HistoryInsert
<1>6. History(messages') \in Log!WithQuestion(h, r)
  <2>1. k \in Log!Places(h)
    BY <1>5 DEF Log!Places
  <2>2. QED BY <1>5, <2>1 DEF Log!WithQuestion, Log!Insert, InsertAt
<1>7. /\ Turns[r] \in {"new"} /\ Turns' = [Turns EXCEPT ![r] = "asked"]
  BY <1>2, TurnMoves DEF Turns, TurnOf
<1>8. QED BY <1>6, <1>7 DEF Log!Ask, Log!Goes, Turns

\* A commit adds the answer behind its question.
LEMMA CommitIsReply ==
  ASSUME Inv, RowsInv, NEW r \in Requests, CommitTurn(r)
  PROVE  Log!Reply(r)
<1>1. TypeOK /\ Rows(messages)
  BY DEF Inv, IdInv, RowsInv, TypeOK, Rows
<1>2. /\ pc[r] = "inserted" /\ pc'[r] = "stored"
      /\ \A s \in Requests : s # r => pc'[s] = pc[s]
  BY <1>1, AtMoves DEF CommitTurn, Place
<1>3. PICK a \in Message : open[r] = {a} /\ a.req = r /\ a.role = "assistant"
  BY <1>2 DEF Inv, OpenInv
<1>4. messages' = messages \cup {a} /\ \A m \in messages : m.id # a.id
  BY <1>3 DEF CommitTurn, Inv, IdInv
<1> DEFINE h == History(messages)
           k == Rank(a, messages) + 1
<1>5. /\ History(messages') = InsertAt(h, k, Log!Message(r, "assistant"))
      /\ k \in 1 .. Len(h) + 1
  BY <1>1, <1>3, <1>4, HistoryInsert
<1>6. ASSUME NEW i \in DOMAIN h, h[i] = Log!Message(r, "user")
      PROVE  i < k
  <2>1. /\ h \in Seq(Entry) /\ Len(h) = Cardinality(messages) /\ Cardinality(messages) \in Nat
        /\ \A m \in messages : h[Rank(m, messages) + 1] = Log!Message(m.req, m.role)
    BY <1>1, HistoryIs
  <2>2. i \in 1 .. Cardinality(messages)
    BY <2>1
  <2>3. PICK q \in messages : Rank(q, messages) = i - 1
    BY <1>1, <2>2, RanksOnto
  <2>4. h[i] = Log!Message(q.req, q.role)
    <3>1. i - 1 + 1 = i
      BY <2>2
    <3>2. h[i - 1 + 1] = Log!Message(q.req, q.role)
      BY <2>1, <2>3
    <3>3. QED BY <3>1, <3>2
  <2>5. q \in Question(r, messages)
    BY <1>6, <2>4 DEF Log!Message, Question
  <2>6. q.id < a.id
    BY <1>3, <2>5 DEF Inv, OrderInv
  <2>7. Rank(q, messages) + 1 <= Rank(a, messages) /\ Rank(a, messages) \in 0 .. Cardinality(messages)
    BY <1>1, <2>3, <2>6, Ranks DEF Rows
  <2>8. QED BY <2>1, <2>2, <2>3, <2>7
<1>7. k \in Log!Behind(h, r)
  BY <1>5, <1>6 DEF Log!Behind, Log!Places
<1>8. History(messages') \in Log!WithAnswer(h, r)
  <2>1. History(messages') = InsertAt(h, k, Log!Message(r, "assistant"))
    BY <1>5
  <2>2. QED BY <1>7, <2>1 DEF Log!WithAnswer, Log!Insert, InsertAt
<1>9. /\ Turns[r] \in {"asked"} /\ Turns' = [Turns EXCEPT ![r] = "over"]
  BY <1>2, TurnMoves DEF Turns, TurnOf
<1>10. QED BY <1>8, <1>9 DEF Log!Reply, Log!Goes, Turns

LEMMA LogStep ==
  ASSUME Inv, RowsInv, [Next]_vars
  PROVE  [Log!Next]_Log!vars
<1> DEFINE unchanged == UNCHANGED <<History(messages), Turns>>
<1>1. TypeOK /\ Rows(messages)
  BY DEF Inv, IdInv, RowsInv, TypeOK, Rows
<1>2. ASSUME NEW r \in Requests, CommitQuestion(r)
      PROVE  Log!Ask(r)
  BY <1>2, CommitIsAsk
<1>3. ASSUME NEW r \in Requests, CommitTurn(r)
      PROVE  Log!Reply(r)
  BY <1>3, CommitIsReply
<1>4. ASSUME NEW r \in Requests,
             \/ InsertQuestion(r) \/ ReadHistory(r) \/ CallModel(r) \/ Deliver(r)
             \/ InsertAnswer(r) \/ SendAnswer(r)
      PROVE  unchanged
  <2>1. messages' = messages
    BY <1>4 DEF InsertQuestion, ReadHistory, CallModel, Deliver, InsertAnswer, SendAnswer
  <2>2. TurnOf(pc'[r]) = TurnOf(pc[r]) /\ \A s \in Requests : s # r => pc'[s] = pc[s]
    <3>1. CASE CallModel(r)
      BY <3>1 DEF CallModel
    <3>2. CASE ~CallModel(r)
      <4>1. \E from, to \in {"idle", "posted", "recorded", "running", "delivered",
                             "inserted", "stored", "closed"} :
              At(r, from, to) /\ TurnOf(from) = TurnOf(to)
        BY <1>4, <3>2
        DEF InsertQuestion, ReadHistory, Deliver, InsertAnswer, SendAnswer, TurnOf
      <4>2. QED BY <1>1, <4>1, AtMoves DEF Place
    <3>3. QED BY <3>1, <3>2
  <2>3. QED BY <2>1, <2>2, TurnMoves
<1>5. ASSUME NEW r \in Requests, RunFails(r) \/ Cut(r)
      PROVE  Log!Drop(r) \/ unchanged
  <2>1. /\ pc[r] \notin {"idle", "closed"} /\ pc'[r] = "closed" /\ messages' = messages
        /\ \A s \in Requests : s # r => pc'[s] = pc[s]
    BY <1>1, <1>5, AtMoves DEF RunFails, Cut, Place, TypeOK
  <2>2. CASE pc[r] = "stored"
    <3>1. TurnOf(pc'[r]) = TurnOf(pc[r])
      BY <2>1, <2>2 DEF TurnOf
    <3>2. QED BY <2>1, <3>1, TurnMoves
  <2>3. CASE pc[r] # "stored"
    <3>1. Turns[r] \in {"new", "asked"} /\ Turns' = [Turns EXCEPT ![r] = "over"]
      BY <2>1, <2>3, TurnMoves DEF Turns, TurnOf
    <3>2. QED BY <2>1, <3>1 DEF Log!Drop, Log!Goes, Turns
  <2>4. QED BY <2>2, <2>3
<1>6. CASE Clear
  <2>1. messages' = {} /\ Turns' = Turns
    BY <1>6 DEF Clear, Turns
  <2>2. History({}) = <<>>
    BY FS_EmptySet DEF History
  <2>3. QED BY <2>1, <2>2 DEF Log!Next, Log!Clear, Turns
<1>7. UNCHANGED vars => unchanged
  BY DEF vars, Turns
<1>8. unchanged => UNCHANGED Log!vars
  BY DEF Log!vars, Turns
<1>9. QED
  BY <1>2, <1>3, <1>4, <1>5, <1>6, <1>7, <1>8 DEF Next, Step, Log!Next

\* record_user_message, _persist_turn, clear_history: whoever reads the history
\* of a portfolio sees what ChatLog promises, whatever the requests interleave.
THEOREM ChatLogRefinement == Spec => ImplementsChatLog
<1>1. Init => RowsInv /\ Log!Init
  <2>1. History({}) = <<>>
    BY FS_EmptySet DEF History
  <2>2. QED BY <2>1, FS_EmptySet DEF Init, RowsInv, Log!Init, TurnOf
<1>2. Inv /\ RowsInv /\ [Next]_vars => RowsInv'
  BY RowsStep
<1>3. Inv /\ RowsInv /\ [Next]_vars => [Log!Next]_Log!vars
  BY LogStep
<1>4. QED BY <1>1, <1>2, <1>3, Invariance, PTL DEF Spec, ImplementsChatLog, Log!Spec

\* The rows keep their columns, every request its place, every turn its bounds.
THEOREM ChatTypeCorrectness == Spec => []TypeOK
<1>1. Inv => TypeOK
  BY DEF Inv
<1>2. QED BY <1>1, Invariance, PTL
=============================================================================
