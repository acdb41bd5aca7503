----------------------------- MODULE Induction ------------------------------
(***************************************************************************)
(* Induction over numbers and over finite sets, for the recursive          *)
(* functions of the library: a set holds every number, or every subset, if *)
(* each one follows from the smaller ones.  With it: what a fold over a    *)
(* finite set yields, what flattening a sequence of sequences yields, and  *)
(* what an insertion makes of a sequence.                                  *)
(***************************************************************************)
EXTENDS Integers, Sequences, FiniteSetsExt, SequencesExt,
        FiniteSetTheorems, SequenceTheorems, NaturalsInduction, WellFoundedInduction, TLAPS

\* A set of numbers has a least one.
LEMMA LeastNatural ==
  ASSUME NEW T, T \subseteq Nat, T # {}
  PROVE  \E x \in T : \A y \in T : x <= y
<1>1. PICK x \in T : \A y \in T : ~(<<y, x>> \in OpToRel(<, Nat))
  BY WFMin, NatLessThanWellFounded
<1>2. \A y \in T : ~(y < x)
  BY <1>1 DEF OpToRel
<1>3. QED BY <1>2

\* Induction, with the set of the numbers that have the property.
LEMMA NaturalInduction ==
  ASSUME NEW G, 0 \in G, \A n \in Nat : n \in G => n + 1 \in G
  PROVE  Nat \subseteq G
<1> DEFINE B == Nat \ G
<1>1. SUFFICES ASSUME B # {} PROVE FALSE
  OBVIOUS
<1>2. PICK n \in B : \A m \in B : n <= m
  BY <1>1, LeastNatural
<1>3. n # 0 /\ n - 1 \in Nat /\ ~(n <= n - 1)
  BY <1>2
<1>4. n - 1 \in G
  BY <1>2, <1>3
<1>5. QED BY <1>3, <1>4

\* Induction over the subsets of a finite set, by inclusion.
LEMMA SubsetInduction ==
  ASSUME NEW S, IsFiniteSet(S), NEW G,
         \A T \in SUBSET S : (\A U \in SUBSET T : U # T => U \in G) => T \in G
  PROVE  \A T \in SUBSET S : T \in G
<1> DEFINE B == {T \in SUBSET S : T \notin G}
           R == StrictSubsetOrdering(S)
<1>1. SUFFICES ASSUME B # {} PROVE FALSE
  OBVIOUS
<1>2. IsWellFoundedOn(R, SUBSET S)
  <2>1. IsWellFoundedOn(R, FiniteSubsetsOf(S))
    BY FS_StrictSubsetOrderingWellFounded
  <2>2. FiniteSubsetsOf(S) = SUBSET S
    BY FS_Subset DEF FiniteSubsetsOf
  <2>3. QED BY <2>1, <2>2
<1>3. B \subseteq SUBSET S
  OBVIOUS
<1>4. \A T \in B : \A U \in SUBSET T : U # T /\ U \notin B => U \in G
  OBVIOUS
<1>6. \A T \in B : \A U \in SUBSET T : U # T => <<U, T>> \in R
  BY <1>3 DEF StrictSubsetOrdering
<1>7. \A T \in B : T \notin G /\ T \in SUBSET S
  OBVIOUS
<1> HIDE DEF R, B
<1>5. PICK T \in B : \A U \in B : ~(<<U, T>> \in R)
  BY <1>1, <1>2, <1>3, WFMin
<1>8. QED BY <1>4, <1>5, <1>6, <1>7

-----------------------------------------------------------------------------
First(U) == CHOOSE x \in U : TRUE

\* A fold over the subsets of T, by a function F of an element and the fold of
\* the others.
FoldOn(T, base, F, f) ==
  f = [U \in SUBSET T |-> IF U = {} THEN base ELSE F[First(U)][f[U \ {First(U)}]]]

\* Two folds agree where both are defined.
LEMMA FoldUnique ==
  ASSUME NEW S, IsFiniteSet(S), NEW base, NEW F,
         NEW T \in SUBSET S, NEW f, FoldOn(T, base, F, f),
         NEW W \in SUBSET T, NEW g, FoldOn(W, base, F, g)
  PROVE  \A U \in SUBSET W : g[U] = f[U]
<1> DEFINE G == {U \in SUBSET W : g[U] = f[U]}
<1>1. \A U \in SUBSET W :
        /\ f[U] = IF U = {} THEN base ELSE F[First(U)][f[U \ {First(U)}]]
        /\ g[U] = IF U = {} THEN base ELSE F[First(U)][g[U \ {First(U)}]]
  BY DEF FoldOn
<1>2. \A U \in SUBSET W : U # {} => First(U) \in U
  BY DEF First
<1>3. ASSUME NEW U \in SUBSET W, \A V \in SUBSET U : V # U => V \in G
      PROVE  U \in G
  <2>1. CASE U = {}
    BY <1>1, <2>1
  <2>2. CASE U # {}
    <3>1. U \ {First(U)} \in SUBSET U /\ U \ {First(U)} # U
      BY <1>2, <2>2
    <3>2. g[U \ {First(U)}] = f[U \ {First(U)}]
      BY <1>3, <3>1
    <3>3. QED BY <1>1, <2>2, <3>2
  <2>3. QED BY <2>1, <2>2
<1>4. IsFiniteSet(W)
  BY FS_Subset
<1> HIDE DEF G
<1>5. \A U \in SUBSET W : U \in G
  BY <1>3, <1>4, SubsetInduction
<1>6. QED BY <1>5 DEF G

\* There is a fold over the subsets of a finite set.
LEMMA FoldExists ==
  ASSUME NEW S, IsFiniteSet(S), NEW base, NEW F
  PROVE  \E f : FoldOn(S, base, F, f)
<1> DEFINE G == {T \in SUBSET S : \E f : FoldOn(T, base, F, f)}
<1>1. \A U : U # {} => First(U) \in U
  BY DEF First
<1>2. ASSUME NEW T \in SUBSET S, \A U \in SUBSET T : U # T => U \in G
      PROVE  T \in G
  <2> DEFINE fold(U) == CHOOSE f : FoldOn(U, base, F, f)
             val(U) == IF U = {} THEN base
                       ELSE F[First(U)][fold(U \ {First(U)})[U \ {First(U)}]]
             h == [U \in SUBSET T |-> val(U)]
  <2>1. ASSUME NEW U \in SUBSET T, U # T
        PROVE  FoldOn(U, base, F, fold(U))
    BY <1>2, <2>1
  <2>2. ASSUME NEW U \in SUBSET T, U # T
        PROVE  fold(U)[U] = h[U]
    <3>0. FoldOn(U, base, F, fold(U))
      BY <2>1, <2>2
    <3>1. fold(U)[U] = IF U = {} THEN base ELSE F[First(U)][fold(U)[U \ {First(U)}]]
      <4> DEFINE g == fold(U)
      <4>1. FoldOn(U, base, F, g)
        BY <3>0
      <4> HIDE DEF g
      <4>2. g[U] = IF U = {} THEN base ELSE F[First(U)][g[U \ {First(U)}]]
        BY <4>1 DEF FoldOn
      <4>3. QED BY <4>2 DEF g
    <3>2. CASE U = {}
      BY <3>1, <3>2
    <3>3. CASE U # {}
      <4> DEFINE V == U \ {First(U)}
      <4>1. V \in SUBSET U /\ V \in SUBSET T /\ V # T /\ V # U
        BY <1>1, <2>2, <3>3
      <4>2. FoldOn(V, base, F, fold(V))
        BY <2>1, <4>1
      <4>3. fold(V)[V] = fold(U)[V]
        <5> HIDE DEF fold
        <5>1. U \in SUBSET S
          OBVIOUS
        <5>2. QED BY <3>0, <4>1, <4>2, <5>1, FoldUnique
      <4>4. QED BY <3>1, <3>3, <4>3
    <3>4. QED BY <3>2, <3>3
  <2>3. \A U \in SUBSET T : U # {} => U \ {First(U)} \in SUBSET T /\ U \ {First(U)} # T
    BY <1>1
  <2>4. h = [U \in SUBSET T |-> IF U = {} THEN base ELSE F[First(U)][h[U \ {First(U)}]]]
    <3>1. \A U \in SUBSET T : h[U] = IF U = {} THEN base ELSE F[First(U)][h[U \ {First(U)}]]
      <4> SUFFICES ASSUME NEW U \in SUBSET T
                   PROVE  h[U] = IF U = {} THEN base ELSE F[First(U)][h[U \ {First(U)}]]
        OBVIOUS
      <4>1. h[U] = val(U)
        OBVIOUS
      <4>2. CASE U = {}
        BY <4>1, <4>2
      <4>3. CASE U # {}
        <5> DEFINE V == U \ {First(U)}
        <5>1. fold(V)[V] = h[V]
          BY <2>2, <2>3, <4>3
        <5> HIDE DEF fold, h
        <5>2. QED BY <4>1, <4>3, <5>1
      <4>4. QED BY <4>2, <4>3
    <3>2. h = [U \in SUBSET T |-> h[U]]
      <4> HIDE DEF val
      <4>1. QED OBVIOUS
    <3> HIDE DEF h
    <3>3. QED BY <3>1, <3>2
  <2>5. FoldOn(T, base, F, h)
    BY <2>4 DEF FoldOn
  <2>6. QED BY <2>5
<1> HIDE DEF G
<1>3. \A T \in SUBSET S : T \in G
  BY <1>2, SubsetInduction
<1>4. QED BY <1>3 DEF G

\* What a fold starts from and keeps, it has.
LEMMA FoldKeeps ==
  ASSUME NEW S, IsFiniteSet(S), NEW Typ, NEW base \in Typ, NEW F, NEW f, FoldOn(S, base, F, f),
         \A x \in S, v \in Typ : F[x][v] \in Typ
  PROVE  \A U \in SUBSET S : f[U] \in Typ
<1> DEFINE G == {U \in SUBSET S : f[U] \in Typ}
<1>1. \A U \in SUBSET S :
        f[U] = IF U = {} THEN base ELSE F[First(U)][f[U \ {First(U)}]]
  BY DEF FoldOn
<1>2. \A U \in SUBSET S : U # {} => First(U) \in U
  BY DEF First
<1>3. ASSUME NEW U \in SUBSET S, \A V \in SUBSET U : V # U => V \in G
      PROVE  U \in G
  <2>1. CASE U = {}
    BY <1>1, <2>1
  <2>2. CASE U # {}
    <3>1. U \ {First(U)} \in SUBSET U /\ U \ {First(U)} # U
      BY <1>2, <2>2
    <3>2. f[U \ {First(U)}] \in Typ
      BY <1>3, <3>1
    <3>3. QED BY <1>1, <1>2, <2>2, <3>2
  <2>3. QED BY <2>1, <2>2
<1> HIDE DEF G
<1>4. \A U \in SUBSET S : U \in G
  BY <1>3, SubsetInduction
<1>5. QED BY <1>4 DEF G

\* The sums of a function's values over the subsets of its domain.
Summed(w, f) ==
  f = [T \in SUBSET DOMAIN w |->
         IF T = {} THEN 0 ELSE w[First(T)] + f[T \ {First(T)}]]

LEMMA SumExists ==
  ASSUME NEW w, IsFiniteSet(DOMAIN w), \A p \in DOMAIN w : w[p] \in Int
  PROVE  \E f : Summed(w, f)
<1> DEFINE S == DOMAIN w
           F == [x \in S |-> [v \in Int |-> w[x] + v]]
<1>1. PICK g : FoldOn(S, 0, F, g)
  BY FoldExists
<1>2. \A x \in S, v \in Int : F[x][v] = w[x] + v
  OBVIOUS
<1>3. \A U \in SUBSET S : g[U] \in Int
  <2> HIDE DEF F
  <2>1. \A x \in S, v \in Int : F[x][v] \in Int
    BY <1>2
  <2>2. QED BY <1>1, <2>1, FoldKeeps
<1>4. \A U \in SUBSET S : U # {} => First(U) \in U /\ First(U) \in S
  BY DEF First
<1> DEFINE e(U) == IF U = {} THEN 0 ELSE F[First(U)][g[U \ {First(U)}]]
           k(U) == IF U = {} THEN 0 ELSE w[First(U)] + g[U \ {First(U)}]
<1>5. g = [U \in SUBSET S |-> e(U)]
  BY <1>1 DEF FoldOn
<1>6. \A U \in SUBSET S : e(U) = k(U)
  BY <1>2, <1>3, <1>4
<1>7. g = [U \in SUBSET S |-> k(U)]
  <2> HIDE DEF e, k
  <2>1. QED BY <1>5, <1>6
<1>8. QED BY <1>7 DEF Summed

\* A sum of integers is one; of positive ones it is positive and no less than
\* any of them.
LEMMA SumOf ==
  ASSUME NEW w, IsFiniteSet(DOMAIN w), \A p \in DOMAIN w : w[p] \in Int,
         NEW f, Summed(w, f)
  PROVE  /\ f[DOMAIN w] \in Int
         /\ (DOMAIN w # {} /\ \A p \in DOMAIN w : w[p] > 0) =>
              f[DOMAIN w] > 0 /\ \A p \in DOMAIN w : w[p] <= f[DOMAIN w]
<1> DEFINE S == DOMAIN w
           Bounds(U) == /\ f[U] >= 0
                        /\ U # {} => f[U] > 0
                        /\ \A p \in U : w[p] <= f[U]
           G == {U \in SUBSET S :
                   f[U] \in Int /\ ((\A p \in U : w[p] > 0) => Bounds(U))}
<1>1. \A U \in SUBSET S : f[U] = IF U = {} THEN 0 ELSE w[First(U)] + f[U \ {First(U)}]
  BY DEF Summed
<1>2. \A U \in SUBSET S : U # {} => First(U) \in U /\ First(U) \in S
  BY DEF First
<1>3. ASSUME NEW U \in SUBSET S, \A V \in SUBSET U : V # U => V \in G
      PROVE  U \in G
  <2>1. CASE U = {}
    BY <1>1, <2>1
  <2>2. CASE U # {}
    <3> DEFINE V == U \ {First(U)}
               x == First(U)
    <3>1. V \in SUBSET U /\ V # U
      BY <1>2, <2>2
    <3>2. V \in G
      BY <1>3, <3>1
    <3>3. f[U] = w[x] + f[V] /\ w[x] \in Int /\ x \in U
      BY <1>1, <1>2, <2>2
    <3>4. f[V] \in Int /\ ((\A p \in V : w[p] > 0) => Bounds(V))
      BY <3>2
    <3>5. f[U] \in Int
      BY <3>3, <3>4
    <3>6. ASSUME \A p \in U : w[p] > 0 PROVE Bounds(U)
      <4>1. f[V] >= 0 /\ w[x] > 0 /\ \A p \in V : w[p] <= f[V]
        BY <3>1, <3>3, <3>4, <3>6
      <4>2. \A p \in U : (p = x \/ p \in V) /\ w[p] \in Int
        OBVIOUS
      <4> HIDE DEF V, x
      <4>3. f[U] > 0 /\ f[V] <= f[U] /\ w[x] <= f[U]
        BY <3>3, <3>4, <4>1
      <4>4. \A p \in U : w[p] <= f[U]
        BY <3>3, <3>4, <3>5, <4>1, <4>2, <4>3
      <4>5. QED BY <3>5, <4>3, <4>4
    <3>7. QED BY <3>5, <3>6
  <2>3. QED BY <2>1, <2>2
<1> HIDE DEF G
<1>4. \A U \in SUBSET S : U \in G
  BY <1>3, SubsetInduction
<1>5. S \in G
  BY <1>4
<1>6. QED BY <1>5 DEF G

-----------------------------------------------------------------------------
\* A sequence whose first elements are those of x is x and what follows.
LEMMA PrefixSplit ==
  ASSUME NEW S, NEW b \in Seq(S), NEW x \in Seq(S), Len(x) <= Len(b),
         \A i \in 1 .. Len(x) : b[i] = x[i]
  PROVE  /\ SubSeq(b, Len(x) + 1, Len(b)) \in Seq(S)
         /\ b = x \o SubSeq(b, Len(x) + 1, Len(b))
<1> DEFINE n == Len(x)
           m == Len(b)
           r == SubSeq(b, n + 1, m)
<1>1. n \in Nat /\ m \in Nat /\ n <= m
  OBVIOUS
<1>2. \A i \in n + 1 .. m : b[i] \in S
  BY <1>1, ElementOfSeq
<1>3. r \in Seq(S) /\ Len(r) = m - n /\ \A i \in 1 .. m - n : r[i] = b[n + i]
  <2> HIDE DEF n, m
  <2>1. n + 1 \in Int /\ m \in Int /\ m - (n + 1) + 1 = m - n
    BY <1>1
  <2>2. /\ r \in Seq(S) /\ Len(r) = IF n + 1 <= m THEN m - (n + 1) + 1 ELSE 0
        /\ \A i \in 1 .. m - (n + 1) + 1 : r[i] = b[n + 1 + i - 1]
    BY <1>2, <2>1, SubSeqProperties
  <2>3. \A i \in 1 .. m - n : n + 1 + i - 1 = n + i
    BY <1>1
  <2>4. QED BY <1>1, <2>1, <2>2, <2>3
<1> HIDE DEF r
<1>4. /\ x \o r \in Seq(S) /\ Len(x \o r) = m
      /\ \A i \in 1 .. m : (x \o r)[i] = IF i <= n THEN x[i] ELSE r[i - n]
  <2>1. /\ x \o r \in Seq(S) /\ Len(x \o r) = n + Len(r)
        /\ \A i \in 1 .. n + Len(r) : (x \o r)[i] = IF i <= n THEN x[i] ELSE r[i - n]
    BY <1>3, ConcatProperties
  <2>2. n + Len(r) = m
    BY <1>1, <1>3
  <2>3. QED BY <2>1, <2>2
<1>5. \A i \in 1 .. m : (x \o r)[i] = b[i]
  <2> SUFFICES ASSUME NEW i \in 1 .. m PROVE (x \o r)[i] = b[i]
    OBVIOUS
  <2>1. CASE i <= n
    BY <1>1, <1>4, <2>1
  <2>2. CASE ~(i <= n)
    <3>1. i - n \in 1 .. m - n /\ n + (i - n) = i
      BY <1>1, <2>2
    <3>2. QED BY <1>3, <1>4, <2>2, <3>1
  <2>3. QED BY <2>1, <2>2
<1>6. x \o r = b
  <2> HIDE DEF n, m
  <2>1. QED BY <1>4, <1>5, SeqEqual DEF m
<1>7. QED BY <1>3, <1>6 DEF r

LEMMA ConcatLeft ==
  ASSUME NEW S, NEW x \in Seq(S), NEW y \in Seq(S)
  PROVE  \A i \in 1 .. Len(x) : (x \o y)[i] = x[i]
  OBVIOUS

LEMMA ConsIs ==
  ASSUME NEW S, NEW e \in S, NEW u \in Seq(S)
  PROVE  LET w == <<e>> \o u
         IN  /\ w \in Seq(S) /\ Len(w) = Len(u) + 1 /\ w[1] = e /\ DOMAIN w = 1 .. Len(u) + 1
             /\ \A i \in 1 .. Len(u) + 1 : i # 1 => w[i] = u[i - 1]
<1> DEFINE x == <<e>>
           w == x \o u
<1>1. x \in Seq(S) /\ Len(x) = 1 /\ x[1] = e
  OBVIOUS
<1> HIDE DEF x
<1>2. /\ w \in Seq(S) /\ Len(w) = Len(x) + Len(u)
      /\ \A i \in 1 .. Len(x) + Len(u) : w[i] = IF i <= Len(x) THEN x[i] ELSE u[i - Len(x)]
  BY <1>1, ConcatProperties
<1> HIDE DEF w
<1>3. Len(w) = Len(u) + 1 /\ DOMAIN w = 1 .. Len(u) + 1
  BY <1>1, <1>2
<1>4. w[1] = e
  BY <1>1, <1>2
<1>5. \A i \in 1 .. Len(u) + 1 : i # 1 => w[i] = u[i - 1]
  BY <1>1, <1>2
<1>6. QED BY <1>2, <1>3, <1>4, <1>5 DEF w, x

LEMMA ConcatCancel ==
  ASSUME NEW S, NEW x \in Seq(S), NEW r \in Seq(S), NEW w \in Seq(S), NEW t \in Seq(S)
  PROVE  (x \o r) \o w = x \o t => r \o w = t
<1>1. (x \o r) \o w = x \o (r \o w)
  OBVIOUS
<1>2. r \o w \in Seq(S)
  OBVIOUS
<1>3. \A v \in Seq(S) : x \o v = x \o t => v = t
  BY ConcatSimplifications
<1>4. QED BY <1>1, <1>2, <1>3, Zenon

\* The first n pieces of a sequence, one after another.
Joined(s, n, f) ==
  f = [i \in 1 .. n |-> IF i = 1 THEN s[i] ELSE f[i - 1] \o s[i]]

Pieces(S, s, n) == \A i \in 1 .. n : s[i] \in Seq(S)
Agree(s, t, n) == \A i \in 1 .. n : s[i] = t[i]

\* Joining sequences gives sequences, and only the pieces matter.
LEMMA JoinedUnique ==
  ASSUME NEW S, NEW s, NEW n \in Nat, Pieces(S, s, n), NEW f, Joined(s, n, f),
         NEW t, NEW m \in 0 .. n, Agree(t, s, m), NEW g, Joined(t, m, g)
  PROVE  \A i \in 1 .. m : g[i] = f[i] /\ f[i] \in Seq(S)
<1> DEFINE G == {i \in Nat : i \in 1 .. m => g[i] = f[i] /\ f[i] \in Seq(S)}
<1>1. /\ \A i \in 1 .. n : f[i] = IF i = 1 THEN s[i] ELSE f[i - 1] \o s[i]
      /\ \A i \in 1 .. m : g[i] = IF i = 1 THEN t[i] ELSE g[i - 1] \o t[i]
  <2> HIDE DEF G
  <2>1. \A i \in 1 .. n : f[i] = IF i = 1 THEN s[i] ELSE f[i - 1] \o s[i]
    BY DEF Joined
  <2>2. \A i \in 1 .. m : g[i] = IF i = 1 THEN t[i] ELSE g[i - 1] \o t[i]
    BY DEF Joined
  <2>3. QED BY <2>1, <2>2
<1>2. 0 \in G
  OBVIOUS
<1>3. ASSUME NEW i \in Nat, i \in G
      PROVE  i + 1 \in G
  <2> SUFFICES ASSUME i + 1 \in 1 .. m
               PROVE  g[i + 1] = f[i + 1] /\ f[i + 1] \in Seq(S)
    OBVIOUS
  <2>1. s[i + 1] \in Seq(S) /\ t[i + 1] = s[i + 1]
    BY DEF Pieces, Agree
  <2>2. CASE i = 0
    BY <1>1, <2>1, <2>2
  <2>3. CASE i # 0
    <3>1. g[i] = f[i] /\ f[i] \in Seq(S)
      BY <1>3, <2>3
    <3>2. f[i + 1] = f[i] \o s[i + 1] /\ g[i + 1] = g[i] \o t[i + 1]
      <4>1. i + 1 \in 1 .. n /\ i + 1 # 1 /\ (i + 1) - 1 = i
        BY <2>3
      <4> HIDE DEF G
      <4>2. QED BY <1>1, <4>1
    <3>3. QED BY <2>1, <3>1, <3>2
  <2>4. QED BY <2>2, <2>3
<1> HIDE DEF G
<1>4. Nat \subseteq G
  BY <1>2, <1>3, NaturalInduction
<1>5. QED BY <1>4 DEF G

LEMMA JoinedExists ==
  ASSUME NEW s, NEW n \in Nat
  PROVE  \E f : Joined(s, n, f)
<1> DEFINE G == {m \in Nat : \E f : Joined(s, m, f)}
<1>1. 0 \in G
  <2>1. Joined(s, 0, [i \in 1 .. 0 |-> 0])
    BY DEF Joined
  <2>2. QED BY <2>1
<1>2. ASSUME NEW m \in Nat, m \in G
      PROVE  m + 1 \in G
  <2>1. PICK f : Joined(s, m, f)
    BY <1>2
  <2> DEFINE last == IF m = 0 THEN s[1] ELSE f[m] \o s[m + 1]
             val(i) == IF i = m + 1 THEN last ELSE f[i]
             g == [i \in 1 .. m + 1 |-> val(i)]
  <2>2. \A i \in 1 .. m : f[i] = IF i = 1 THEN s[i] ELSE f[i - 1] \o s[i]
    BY <2>1 DEF Joined
  <2>3. \A i \in 1 .. m + 1 : g[i] = val(i)
    OBVIOUS
  <2>4. \A i \in 1 .. m + 1 : g[i] = IF i = 1 THEN s[i] ELSE g[i - 1] \o s[i]
    <3> SUFFICES ASSUME NEW i \in 1 .. m + 1
                 PROVE  g[i] = IF i = 1 THEN s[i] ELSE g[i - 1] \o s[i]
      OBVIOUS
    <3>1. i # 1 => i - 1 \in 1 .. m /\ g[i - 1] = f[i - 1]
      BY <2>3
    <3>2. CASE i = m + 1
      BY <2>3, <3>1, <3>2
    <3>3. CASE i # m + 1
      <4>1. i \in 1 .. m
        BY <3>3
      <4>2. g[i] = f[i]
        BY <2>3, <3>3
      <4> HIDE DEF g
      <4>3. QED BY <2>2, <3>1, <4>1, <4>2
    <3>4. QED BY <3>2, <3>3
  <2>5. g = [i \in 1 .. m + 1 |-> g[i]]
    <3> HIDE DEF val
    <3>1. QED OBVIOUS
  <2> HIDE DEF g
  <2>6. Joined(s, m + 1, g)
    BY <2>4, <2>5 DEF Joined
  <2>7. QED BY <2>6
<1> HIDE DEF G
<1>3. Nat \subseteq G
  BY <1>1, <1>2, NaturalInduction
<1>4. QED BY <1>3 DEF G

\* What the library's flattening computes.
LEMMA FlattenIs ==
  ASSUME NEW s
  PROVE  FlattenSeq(s) = IF Len(s) = 0 THEN s
                         ELSE (CHOOSE f : Joined(s, Len(s), f))[Len(s)]
  BY DEF FlattenSeq, Joined

\* A piece more, and a piece before all others.
LEMMA FlattenAppend ==
  ASSUME NEW S, NEW s \in Seq(Seq(S)), NEW e \in Seq(S)
  PROVE  /\ FlattenSeq(s) \in Seq(S)
         /\ FlattenSeq(Append(s, e)) = FlattenSeq(s) \o e
<1> DEFINE n == Len(s)
           t == Append(s, e)
           f == CHOOSE h : Joined(t, n + 1, h)
           g == CHOOSE h : Joined(s, n, h)
<1>1. n \in Nat /\ Len(t) = n + 1 /\ n + 1 # 0
  OBVIOUS
<1>2. (\A i \in 1 .. n : t[i] = s[i] /\ s[i] \in Seq(S)) /\ t[n + 1] = e
  OBVIOUS
<1>3. Joined(t, n + 1, f) /\ Joined(s, n, g)
  <2>1. (\E h : Joined(t, n + 1, h)) /\ \E h : Joined(s, n, h)
    <3>1. n + 1 \in Nat
      BY <1>1
    <3> HIDE DEF n, t
    <3>2. QED BY <1>1, <3>1, JoinedExists
  <2>2. QED BY <2>1
<1>4. FlattenSeq(t) = f[n + 1] /\ FlattenSeq(s) = IF n = 0 THEN s ELSE g[n]
  BY <1>1, FlattenIs
<1> HIDE DEF t, f, g
<1>5. \A i \in 1 .. n + 1 : t[i] \in Seq(S)
  <2>1. \A i \in 1 .. n + 1 : i \in 1 .. n \/ i = n + 1
    BY <1>1
  <2>2. QED BY <1>2, <2>1
<1>6. \A i \in 1 .. n : g[i] = f[i] /\ f[i] \in Seq(S)
  <2>1. n + 1 \in Nat /\ n \in 0 .. n + 1
    BY <1>1
  <2>2. Pieces(S, t, n + 1) /\ Agree(s, t, n)
    BY <1>2, <1>5 DEF Pieces, Agree
  <2> HIDE DEF n
  <2>3. QED BY <1>3, <2>1, <2>2, JoinedUnique, Zenon
<1>7. f[n + 1] = IF n + 1 = 1 THEN t[n + 1] ELSE f[n] \o t[n + 1]
  <2>1. n + 1 \in 1 .. n + 1 /\ (n + 1) - 1 = n
    BY <1>1
  <2> HIDE DEF n
  <2>2. \A i \in 1 .. n + 1 : f[i] = IF i = 1 THEN t[i] ELSE f[i - 1] \o t[i]
    BY <1>3 DEF Joined
  <2>3. QED BY <2>1, <2>2
<1>8. CASE n = 0
  <2>1. s = <<>> /\ FlattenSeq(t) = e
    BY <1>2, <1>4, <1>7, <1>8
  <2>2. FlattenSeq(s) = <<>>
    BY <1>4, <1>8, <2>1
  <2>3. <<>> \in Seq(S) /\ <<>> \o e = e
    OBVIOUS
  <2>4. QED BY <2>1, <2>2, <2>3 DEF t
<1>9. CASE n # 0
  <2>1. n \in 1 .. n /\ n + 1 # 1
    BY <1>1, <1>9
  <2>2. FlattenSeq(s) = f[n] /\ f[n] \in Seq(S)
    BY <1>4, <1>6, <1>9, <2>1
  <2>3. FlattenSeq(t) = f[n] \o e
    BY <1>2, <1>4, <1>7, <2>1
  <2>4. QED BY <2>2, <2>3 DEF t
<1>10. QED BY <1>8, <1>9

LEMMA FlattenEmpty == FlattenSeq(<<>>) = <<>>
  BY FlattenIs

LEMMA FlattenCons ==
  ASSUME NEW S, NEW e \in Seq(S), NEW t \in Seq(Seq(S))
  PROVE  FlattenSeq(<<e>> \o t) = e \o FlattenSeq(t)
<1> DEFINE Holds(u) == FlattenSeq(<<e>> \o u) = e \o FlattenSeq(u)
           G == {n \in Nat : \A u \in Seq(Seq(S)) : Len(u) = n => Holds(u)}
<1>1. 0 \in G
  <2> SUFFICES ASSUME NEW u \in Seq(Seq(S)), Len(u) = 0 PROVE Holds(u)
    OBVIOUS
  <2>1. u = <<>>
    OBVIOUS
  <2>2. <<e>> \o <<>> = Append(<<>>, e) /\ <<>> \in Seq(Seq(S)) /\ <<>> \o e = e /\ e \o <<>> = e
    OBVIOUS
  <2>3. FlattenSeq(Append(<<>>, e)) = FlattenSeq(<<>>) \o e
    BY <2>2, FlattenAppend
  <2>4. QED BY <2>1, <2>2, <2>3, FlattenEmpty
<1>2. ASSUME NEW n \in Nat, n \in G
      PROVE  n + 1 \in G
  <2> SUFFICES ASSUME NEW u \in Seq(Seq(S)), Len(u) = n + 1 PROVE Holds(u)
    <3> HIDE DEF Holds
    <3>1. QED OBVIOUS
  <2> DEFINE v == SubSeq(u, 1, n)
             x == u[n + 1]
  <2>1. v \in Seq(Seq(S)) /\ x \in Seq(S) /\ Len(v) = n /\ u = Append(v, x)
    OBVIOUS
  <2> HIDE DEF v, x
  <2>2. Holds(v)
    BY <1>2, <2>1
  <2>3. <<e>> \o v \in Seq(Seq(S)) /\ <<e>> \o Append(v, x) = Append(<<e>> \o v, x)
    BY <2>1
  <2>4. FlattenSeq(Append(<<e>> \o v, x)) = FlattenSeq(<<e>> \o v) \o x
    BY <2>1, <2>3, FlattenAppend
  <2>5. FlattenSeq(v) \in Seq(S) /\ FlattenSeq(Append(v, x)) = FlattenSeq(v) \o x
    BY <2>1, FlattenAppend
  <2>6. (e \o FlattenSeq(v)) \o x = e \o (FlattenSeq(v) \o x)
    <3> DEFINE y == FlattenSeq(v)
    <3>1. e \in Seq(S) /\ y \in Seq(S) /\ x \in Seq(S)
      BY <2>1, <2>5
    <3> HIDE DEF y, G, Holds
    <3>2. (e \o y) \o x = e \o (y \o x)
      BY <3>1
    <3>3. QED BY <3>2 DEF y
  <2>7. FlattenSeq(<<e>> \o Append(v, x)) = (e \o FlattenSeq(v)) \o x
    BY <2>2, <2>3, <2>4, Zenon
  <2>8. FlattenSeq(<<e>> \o Append(v, x)) = e \o FlattenSeq(Append(v, x))
    BY <2>5, <2>6, <2>7, Zenon
  <2>9. QED BY <2>1, <2>8, Zenon
<1> HIDE DEF G
<1>3. Nat \subseteq G
  BY <1>1, <1>2, NaturalInduction
<1>4. Len(t) \in G
  BY <1>3
<1>5. QED BY <1>4 DEF G

-----------------------------------------------------------------------------
\* What a sequence is after an insertion, place by place.
LEMMA InsertAtIs ==
  ASSUME NEW S, NEW s \in Seq(S), NEW k \in 1 .. Len(s) + 1, NEW e \in S
  PROVE  /\ InsertAt(s, k, e) \in Seq(S)
         /\ Len(InsertAt(s, k, e)) = Len(s) + 1
         /\ \A i \in 1 .. Len(s) + 1 :
              InsertAt(s, k, e)[i] = IF i < k THEN s[i] ELSE IF i = k THEN e ELSE s[i - 1]
<1> DEFINE n == Len(s)
           x == SubSeq(s, 1, k - 1)
           z == SubSeq(s, k, n)
           y == x \o <<e>>
<1>1. n \in Nat /\ k \in 1 .. n + 1 /\ \A i \in 1 .. n : s[i] \in S
  BY ElementOfSeq
<1>2. x \in Seq(S) /\ Len(x) = k - 1 /\ \A i \in 1 .. k - 1 : x[i] = s[i]
  <2> HIDE DEF n
  <2>1. k - 1 \in Int /\ 1 \in Int /\ \A i \in 1 .. k - 1 : s[i] \in S
    BY <1>1
  <2>2. /\ x \in Seq(S) /\ Len(x) = IF 1 <= k - 1 THEN k - 1 - 1 + 1 ELSE 0
        /\ \A i \in 1 .. k - 1 - 1 + 1 : x[i] = s[1 + i - 1]
    BY <2>1, SubSeqProperties
  <2>3. \A i \in 1 .. k - 1 : 1 + i - 1 = i
    BY <1>1
  <2>4. k - 1 - 1 + 1 = k - 1 /\ (~(1 <= k - 1) => k - 1 = 0)
    BY <1>1
  <2>5. QED BY <2>2, <2>3, <2>4
<1>3. z \in Seq(S) /\ Len(z) = n - k + 1 /\ \A i \in 1 .. n - k + 1 : z[i] = s[k + i - 1]
  <2> HIDE DEF n
  <2>1. k \in Int /\ n \in Int /\ \A i \in k .. n : s[i] \in S
    BY <1>1
  <2>2. /\ z \in Seq(S) /\ Len(z) = IF k <= n THEN n - k + 1 ELSE 0
        /\ \A i \in 1 .. n - k + 1 : z[i] = s[k + i - 1]
    BY <2>1, SubSeqProperties
  <2>3. ~(k <= n) => n - k + 1 = 0
    BY <1>1
  <2>4. QED BY <2>2, <2>3
<1> HIDE DEF x, z
<1>4. y \in Seq(S) /\ Len(y) = k /\ \A i \in 1 .. k : y[i] = IF i < k THEN s[i] ELSE e
  <2>1. <<e>> \in Seq(S) /\ Len(<<e>>) = 1 /\ <<e>>[1] = e
    OBVIOUS
  <2>2. /\ y \in Seq(S) /\ Len(y) = Len(x) + 1
        /\ \A i \in 1 .. Len(x) + 1 : y[i] = IF i <= Len(x) THEN x[i] ELSE <<e>>[i - Len(x)]
    BY <1>2, <2>1, ConcatProperties
  <2> HIDE DEF n, y
  <2>3. k - 1 + 1 = k /\ k - (k - 1) = 1
    BY <1>1
  <2>4. \A i \in 1 .. k : (i <= k - 1 => i < k /\ i \in 1 .. k - 1) /\ (~(i <= k - 1) => i = k /\ ~(i < k))
    BY <1>1
  <2>5. QED BY <1>2, <2>1, <2>2, <2>3, <2>4
<1> HIDE DEF y
<1>5. /\ y \o z \in Seq(S) /\ Len(y \o z) = n + 1
      /\ \A i \in 1 .. n + 1 : (y \o z)[i] = IF i <= k THEN y[i] ELSE z[i - k]
  <2>1. /\ y \o z \in Seq(S) /\ Len(y \o z) = k + Len(z)
        /\ \A i \in 1 .. k + Len(z) : (y \o z)[i] = IF i <= k THEN y[i] ELSE z[i - k]
    BY <1>3, <1>4, ConcatProperties
  <2>2. k + Len(z) = n + 1
    BY <1>1, <1>3
  <2>3. QED BY <2>1, <2>2
<1>6. ASSUME NEW i \in 1 .. n + 1
      PROVE  (y \o z)[i] = IF i < k THEN s[i] ELSE IF i = k THEN e ELSE s[i - 1]
  <2> HIDE DEF n
  <2>1. CASE i <= k
    <3>1. i \in 1 .. k /\ (~(i < k) => i = k)
      BY <1>1, <2>1
    <3>2. QED BY <1>4, <1>5, <2>1, <3>1
  <2>2. CASE ~(i <= k)
    <3>1. i - k \in 1 .. n - k + 1 /\ k + (i - k) - 1 = i - 1 /\ ~(i < k) /\ i # k
      BY <1>1, <2>2
    <3>2. QED BY <1>3, <1>5, <2>2, <3>1
  <2>3. QED BY <2>1, <2>2
<1>7. InsertAt(s, k, e) = y \o z
  BY DEF InsertAt, x, y, z
<1>8. QED BY <1>5, <1>6, <1>7

\* A sequence that is so, place by place, is the insertion.
LEMMA InsertAtUnique ==
  ASSUME NEW S, NEW s \in Seq(S), NEW k \in 1 .. Len(s) + 1, NEW e \in S,
         NEW t \in Seq(S), Len(t) = Len(s) + 1,
         \A i \in 1 .. Len(s) + 1 :
           t[i] = IF i < k THEN s[i] ELSE IF i = k THEN e ELSE s[i - 1]
  PROVE  t = InsertAt(s, k, e)
<1> DEFINE u == InsertAt(s, k, e)
<1>1. /\ u \in Seq(S) /\ Len(u) = Len(s) + 1
      /\ \A i \in 1 .. Len(s) + 1 : u[i] = IF i < k THEN s[i] ELSE IF i = k THEN e ELSE s[i - 1]
  BY InsertAtIs
<1> HIDE DEF u
<1>2. Len(t) = Len(u) /\ \A i \in 1 .. Len(t) : t[i] = u[i]
  BY <1>1
<1>3. t = u
  BY <1>1, <1>2, SeqEqual
<1>4. QED BY <1>3 DEF u
=============================================================================
