---------------------------- MODULE SequenceFacts ----------------------------
(***************************************************************************)
(* What the operators that the models take from the community modules      *)
(* yield on the arguments the models give them.  They are recursive        *)
(* functions; what they yield is proved by induction over sets of natural  *)
(* numbers, from the least element every one of them has.                  *)
(***************************************************************************)
EXTENDS Integers, Sequences, SequencesExt, SequenceTheorems, FiniteSetTheorems,
        WellFoundedInduction, TLAPS

\* Every set of natural numbers has a least element.
LEMMA LeastNat ==
    ASSUME NEW T \in SUBSET Nat, T # {}
    PROVE  \E n \in T : \A m \in T : n <= m
<1>1. PICK n \in T : \A m \in T : ~ (<<m, n>> \in OpToRel(<, Nat))
  BY NatLessThanWellFounded, WFMin
<1>2. \A m \in T : m \in Nat /\ n \in Nat /\ <<m, n>> \in Nat \X Nat
                   /\ (m < n => <<m, n>> \in OpToRel(<, Nat))
  BY DEF OpToRel
<1>3. \A m \in T : ~ (m < n)
  BY <1>1, <1>2, Zenon
<1>4. n \in Nat /\ \A m \in T : m \in Nat
  OBVIOUS
<1>. QED
  BY <1>3, <1>4

\* Induction: a set of natural numbers with 0 and all successors is all of them.
LEMMA SetInduction ==
    ASSUME NEW T \in SUBSET Nat, 0 \in T, \A n \in T : n + 1 \in T
    PROVE  T = Nat
<1>. SUFFICES ASSUME T # Nat
              PROVE  FALSE
  OBVIOUS
<1>. DEFINE U == Nat \ T
<1>1. PICK n \in U : \A m \in U : n <= m
  BY LeastNat
<1>2. n # 0 /\ n \in Nat
  BY <1>1
<1>3. n - 1 \in Nat /\ n - 1 \notin U
  BY <1>1, <1>2
<1>4. n - 1 \in T
  BY <1>3
<1>5. (n - 1) + 1 \in T
  BY <1>4
<1>. QED
  BY <1>5, <1>2

\* Max of a bounded set of natural numbers is its greatest element.
LEMMA MaxOfBounded ==
    ASSUME NEW S \in SUBSET Nat, S # {}, NEW n \in Nat, \A x \in S : x <= n
    PROVE  Max(S) \in S /\ \A x \in S : x <= Max(S)
<1>. DEFINE U == {u \in Nat : \A x \in S : x <= u}
<1>1. PICK m \in U : \A u \in U : m <= u
  <2>1. n \in U /\ U \subseteq Nat
    OBVIOUS
  <2>. QED
    BY <2>1, LeastNat
<1>2. m \in S
  <2>. SUFFICES ASSUME m \notin S
                PROVE  FALSE
    OBVIOUS
  <2>1. \A x \in S : x \in Nat /\ x <= m /\ x # m /\ m \in Nat
    BY <1>1
  <2>2. m - 1 \in Nat
    <3>1. PICK x : x \in S
      OBVIOUS
    <3>. QED
      BY <2>1, <3>1
  <2>3. \A x \in S : x <= m - 1
    BY <2>1
  <2>4. m - 1 \in U
    BY <2>2, <2>3
  <2>. QED
    BY <1>1, <2>2, <2>4
<1>3. \E x \in S : \A y \in S : x >= y
  BY <1>1, <1>2
<1>4. Max(S) \in S /\ \A y \in S : Max(S) >= y
  BY <1>3 DEF Max
<1>. QED
  BY <1>4

\* FlattenSeq joins the files one after the other: h[i] is what the first i yield.
LEMMA FlattenUnfolds ==
    ASSUME NEW S, NEW n \in Nat \ {0}, NEW files \in [1..n -> S]
    PROVE  \E h : /\ h[1] = files[1]
                  /\ \A i \in 2..n : h[i] = h[i - 1] \o files[i]
                  /\ FlattenSeq(files) = h[n]
<1>. DEFINE Step(f, i) == IF i = 1 THEN files[i] ELSE f[i - 1] \o files[i]
            Is(f, k) == /\ f = [i \in 1..k |-> f[i]]
                        /\ \A i \in 1..k : f[i] = Step(f, i)
            T == {k \in Nat : \E f : Is(f, k)}
<1>1. T = Nat
  <2>1. 0 \in T
    <3>1. Is([i \in 1..0 |-> 0], 0)
      OBVIOUS
    <3>. QED
      BY <3>1
  <2>2. ASSUME NEW k \in T
        PROVE  k + 1 \in T
    <3>1. PICK f : Is(f, k)
      OBVIOUS
    <3>. DEFINE g == [i \in 1..(k + 1) |-> IF i = k + 1 THEN Step(f, k + 1) ELSE f[i]]
    <3>2. k \in Nat
      OBVIOUS
    <3>. HIDE DEF T
    <3>3. ASSUME NEW i \in 1..(k + 1)
          PROVE  g[i] = Step(g, i)
      <4>1. i = 1 \/ (i - 1 \in 1..k /\ g[i - 1] = f[i - 1])
        BY <3>2
      <4>2. Step(g, i) = Step(f, i)
        BY <4>1
      <4>3. CASE i = k + 1
        BY <4>2, <4>3
      <4>4. CASE i # k + 1
        <5>1. i \in 1..k /\ g[i] = f[i]
          BY <3>2, <4>4
        <5>2. f[i] = Step(f, i)
          BY <3>1, <5>1
        <5>. QED
          BY <4>2, <5>1, <5>2
      <4>. QED
        BY <4>3, <4>4
    <3>4. g = [i \in 1..(k + 1) |-> g[i]]
      OBVIOUS
    <3>. HIDE DEF g, Step
    <3>5. Is(g, k + 1)
      BY <3>3, <3>4
    <3>. QED
      BY <3>2, <3>5 DEF T
  <2>3. T \in SUBSET Nat
    OBVIOUS
  <2>. HIDE DEF T
  <2>. QED
    BY <2>1, <2>2, <2>3, SetInduction
<1>2. PICK f : Is(f, n)
  BY <1>1
<1>. HIDE DEF T
<1>3. Len(files) = n
  OBVIOUS
<1>4. f = [i \in 1..n |-> Step(f, i)]
  BY <1>2
<1>5. PICK h : /\ h = [i \in 1..n |-> Step(h, i)]
               /\ FlattenSeq(files) = h[n]
  BY <1>3, <1>4 DEF FlattenSeq
<1>6. h[1] = files[1] /\ \A i \in 2..n : h[i] = h[i - 1] \o files[i]
  <2>1. \A i \in 1..n : h[i] = Step(h, i)
    <3>. HIDE DEF Step
    <3>. QED
      BY <1>5
  <2>2. 1 \in 1..n /\ \A i \in 2..n : i \in 1..n /\ i # 1
    OBVIOUS
  <2>. QED
    BY <2>1, <2>2
<1>. QED
  BY <1>5, <1>6

\* The n files of length t stand one behind the other in s.
InPlaces(s, files, n, t) ==
    \A r \in 1..n, i \in 1..t : s[(r - 1) * t + i] = files[r][i]

\* FlattenSeq over files of one size: file r stands at its place.
LEMMA FlattenBlocks ==
    ASSUME NEW E, NEW t \in Nat, NEW n \in Nat \ {0},
           NEW files \in [1..n -> Seq(E)], \A r \in 1..n : Len(files[r]) = t
    PROVE  /\ FlattenSeq(files) \in Seq(E)
           /\ Len(FlattenSeq(files)) = n * t
           /\ InPlaces(FlattenSeq(files), files, n, t)
<1>5. PICK h : /\ h[1] = files[1]
               /\ \A i \in 2..n : h[i] = h[i - 1] \o files[i]
               /\ FlattenSeq(files) = h[n]
  BY FlattenUnfolds
<1>. DEFINE P(k) == /\ h[k] \in Seq(E)
                    /\ Len(h[k]) = k * t
                    /\ \A r \in 1..k, i \in 1..t : h[k][(r - 1) * t + i] = files[r][i]
            U == {k \in Nat : k + 1 <= n => P(k + 1)}
<1>7. U = Nat
  <2>1. 0 \in U
    <3>1. 1 \in 1..n /\ 1 * t = t /\ (1 - 1) * t = 0
      OBVIOUS
    <3>2. h[1] \in Seq(E) /\ Len(h[1]) = 1 * t
      BY <1>5, <3>1
    <3>3. \A i \in 1..t : h[1][(1 - 1) * t + i] = files[1][i]
      BY <1>5, <3>1
    <3>4. P(0 + 1)
      BY <3>2, <3>3
    <3>. QED
      BY <3>4
  <2>2. ASSUME NEW k \in U
        PROVE  k + 1 \in U
    <3>. SUFFICES ASSUME k + 2 <= n
                  PROVE  P(k + 2)
      <4>1. k \in Nat /\ (k + 1) + 1 = k + 2
        OBVIOUS
      <4>. HIDE DEF P
      <4>. QED
        BY <4>1
    <3>1. k \in Nat /\ k + 1 \in 1..n /\ k + 2 \in 2..n /\ (k + 2) - 1 = k + 1 /\ k + 1 <= n
      OBVIOUS
    <3>2. P(k + 1)
      BY <3>1
    <3>. HIDE DEF U, P
    <3>3. h[k + 2] = h[k + 1] \o files[k + 2]
      BY <1>5, <3>1
    <3>4. files[k + 2] \in Seq(E) /\ Len(files[k + 2]) = t
      <4>1. k + 2 \in 1..n
        BY <3>1
      <4>. QED
        BY <4>1
    <3>5. PICK q : q = (k + 1) * t
      OBVIOUS
    <3>6. q \in Nat /\ q + t = (k + 2) * t
      BY <3>1, <3>5
    <3>7. h[k + 1] \in Seq(E) /\ Len(h[k + 1]) = q
      BY <3>2, <3>5 DEF P
    <3>8. /\ h[k + 2] \in Seq(E) /\ Len(h[k + 2]) = q + t
          /\ \A j \in 1..q : h[k + 2][j] = h[k + 1][j]
          /\ \A j \in 1..t : h[k + 2][q + j] = files[k + 2][j]
      <4>. DEFINE a == h[k + 1]
                  b == files[k + 2]
      <4>1. a \in Seq(E) /\ b \in Seq(E) /\ Len(a) = q /\ Len(b) = t /\ h[k + 2] = a \o b
        BY <3>3, <3>4, <3>7
      <4>. HIDE DEF a, b
      <4>2. a \in Seq(E) /\ b \in Seq(E)
        BY <4>1
      <4>3. /\ a \o b \in Seq(E) /\ Len(a \o b) = Len(a) + Len(b)
            /\ \A j \in 1..Len(a) : (a \o b)[j] = a[j]
            /\ \A j \in 1..Len(b) : (a \o b)[Len(a) + j] = b[j]
        BY <4>2
      <4>. QED
        BY <4>1, <4>3 DEF a, b
    <3>9. ASSUME NEW r \in 1..(k + 2), NEW i \in 1..t
          PROVE  h[k + 2][(r - 1) * t + i] = files[r][i]
      <4>1. CASE r = k + 2
        <5>1. (r - 1) * t = q
          BY <3>1, <3>5, <4>1
        <5>. QED
          BY <3>8, <4>1, <5>1
      <4>2. CASE r # k + 2
        <5>1. r \in 1..(k + 1) /\ r \in Nat /\ i \in Nat
          BY <3>1, <4>2
        <5>2. PICK o : o = (r - 1) * t
          OBVIOUS
        <5>3. o \in Nat /\ o + t = r * t
          BY <5>1, <5>2
        <5>4. r * t <= q
          BY <3>1, <3>5, <5>1
        <5>5. o + i \in 1..q
          BY <3>6, <5>1, <5>3, <5>4
        <5>6. h[k + 1][o + i] = files[r][i]
          BY <3>2, <5>1, <5>2 DEF P
        <5>. QED
          BY <3>8, <5>2, <5>5, <5>6
      <4>. QED
        BY <4>1, <4>2
    <3>. QED
      BY <3>6, <3>8, <3>9 DEF P
  <2>3. U \in SUBSET Nat
    OBVIOUS
  <2>. HIDE DEF U
  <2>. QED
    BY <2>1, <2>2, <2>3, SetInduction
<1>8. P(n)
  <2>1. n - 1 \in Nat /\ (n - 1) + 1 = n /\ n <= n
    OBVIOUS
  <2>2. n - 1 \in U
    <3>. HIDE DEF U
    <3>. QED
      BY <1>7, <2>1
  <2>. HIDE DEF P
  <2>. QED
    BY <2>1, <2>2
<1>. QED
  BY <1>5, <1>8 DEF InPlaces

\* Consecutive pieces of a sequence, joined, are the sequence.
LEMMA PiecesJoin ==
    ASSUME NEW E, NEW s \in Seq(E), NEW n \in Nat \ {0}, NEW cut \in [0..n -> 0..Len(s)],
           NEW files \in [1..n -> Seq(E)],
           cut[0] = 0, cut[n] = Len(s), \A i \in 1..n : cut[i - 1] <= cut[i],
           \A i \in 1..n : files[i] = SubSeq(s, cut[i - 1] + 1, cut[i])
    PROVE  FlattenSeq(files) = s
<1>1. PICK h : /\ h[1] = files[1]
               /\ \A i \in 2..n : h[i] = h[i - 1] \o files[i]
               /\ FlattenSeq(files) = h[n]
  BY FlattenUnfolds
<1>. DEFINE U == {k \in Nat : k + 1 <= n => h[k + 1] = SubSeq(s, 1, cut[k + 1])}
<1>2. 0 \in U
  <2>1. 1 \in 1..n /\ 1 - 1 = 0 /\ 0 + 1 = 1
    OBVIOUS
  <2>2. files[1] = SubSeq(s, cut[1 - 1] + 1, cut[1])
    BY <2>1
  <2>3. h[1] = SubSeq(s, 1, cut[1])
    BY <1>1, <2>1, <2>2
  <2>. QED
    BY <2>3
<1>3. ASSUME NEW k \in U
      PROVE  k + 1 \in U
  <2>. SUFFICES ASSUME k + 2 <= n
                PROVE  h[k + 2] = SubSeq(s, 1, cut[k + 2])
    <3>1. k \in Nat /\ (k + 1) + 1 = k + 2
      OBVIOUS
    <3>. QED
      BY <3>1
  <2>1. k \in Nat /\ k + 2 \in 2..n /\ k + 2 \in 1..n /\ (k + 2) - 1 = k + 1 /\ k + 1 <= n
        /\ k + 1 \in 0..n /\ k + 2 \in 0..n
    OBVIOUS
  <2>2. h[k + 1] = SubSeq(s, 1, cut[k + 1])
    BY <2>1
  <2>. HIDE DEF U
  <2>3. h[k + 2] = h[k + 1] \o files[k + 2]
    BY <1>1, <2>1
  <2>4. files[k + 2] = SubSeq(s, cut[k + 1] + 1, cut[k + 2])
    BY <2>1
  <2>5. cut[k + 1] <= cut[k + 2] /\ cut[k + 1] \in 0..Len(s) /\ cut[k + 2] \in 0..Len(s)
    BY <2>1
  <2>6. PICK c, d : c = cut[k + 1] /\ d = cut[k + 2]
    OBVIOUS
  <2>7. Len(s) \in Nat
    OBVIOUS
  <2>8. 1 \in 1..(Len(s) + 1) /\ c \in (1 - 1)..Len(s) /\ d \in c..Len(s)
    BY <2>5, <2>6, <2>7
  <2>9. SubSeq(s, 1, c) \o SubSeq(s, c + 1, d) = SubSeq(s, 1, d)
    BY <2>8, ConcatAdjacentSubSeq
  <2>. QED
    BY <2>2, <2>3, <2>4, <2>6, <2>9
<1>4. U = Nat
  <2>1. U \in SUBSET Nat
    OBVIOUS
  <2>. HIDE DEF U
  <2>. QED
    BY <1>2, <1>3, <2>1, SetInduction
<1>5. n - 1 \in U /\ n - 1 \in Nat /\ (n - 1) + 1 = n /\ (n - 1) + 1 <= n
  <2>. HIDE DEF U
  <2>. QED
    BY <1>4
<1>6. h[n] = SubSeq(s, 1, cut[n])
  <2>1. \A k \in U : k + 1 <= n => h[k + 1] = SubSeq(s, 1, cut[k + 1])
    OBVIOUS
  <2>. HIDE DEF U
  <2>2. h[(n - 1) + 1] = SubSeq(s, 1, cut[(n - 1) + 1])
    BY <1>5, <2>1
  <2>. QED
    BY <1>5, <2>2
<1>7. SubSeq(s, 1, Len(s)) = s
  BY SubSeqFull
<1>. QED
  BY <1>1, <1>6, <1>7

------------------------------------------------------------------------------
(* Sums.  SumFunction takes the arguments in an order of its own. *)

\* MapThenFoldSet takes the elements of a set one by one.
Taken(s) == CHOOSE x \in s : TRUE

AddsUp(g, F, S) ==
    g = [s \in SUBSET S |-> IF s = {} THEN 0 ELSE F[Taken(s)] + g[s \ {Taken(s)}]]

\* One element less.
LEMMA OneLess ==
    ASSUME NEW s, IsFiniteSet(s), NEW x \in s
    PROVE  /\ Cardinality(s) \in Nat \ {0} /\ IsFiniteSet(s \ {x})
           /\ Cardinality(s \ {x}) = Cardinality(s) - 1
<1>1. Cardinality(s) \in Nat /\ Cardinality(s) # 0
  BY FS_CardinalityType, FS_EmptySet
<1>. QED
  BY <1>1, FS_RemoveElement

LEMMA TakenIn == \A s : s # {} => Taken(s) \in s
BY DEF Taken

\* A finite set can be added up.
LEMMA SumExists ==
    ASSUME NEW S, IsFiniteSet(S), NEW F
    PROVE  \E g : AddsUp(g, F, S)
<1>. DEFINE Upto(n) == {s \in SUBSET S : Cardinality(s) <= n}
            Step(g, s) == IF s = {} THEN 0 ELSE F[Taken(s)] + g[s \ {Taken(s)}]
            Is(g, n) == \A s \in Upto(n) : g[s] = Step(g, s)
            T == {n \in Nat : \E g : Is(g, n)}
<1>s. ASSUME NEW s \in SUBSET S, s # {}
      PROVE  /\ Cardinality(s) \in Nat \ {0}
             /\ s \ {Taken(s)} \in SUBSET S
             /\ Cardinality(s \ {Taken(s)}) = Cardinality(s) - 1
  <2>1. Taken(s) \in s
    BY <1>s, TakenIn
  <2>2. IsFiniteSet(s)
    BY FS_Subset
  <2>. QED
    BY <2>1, <2>2, OneLess
<1>1. T = Nat
  <2>1. 0 \in T
    <3>1. \A s \in Upto(0) : s = {}
      <4>1. \A s \in SUBSET S : s # {} => Cardinality(s) \in Nat \ {0}
        BY <1>s
      <4>. QED
        BY <4>1
    <3>. DEFINE z == [s \in SUBSET S |-> 0]
    <3>2. Is(z, 0)
      BY <3>1
    <3>. HIDE DEF Is
    <3>. QED
      BY <3>2
  <2>2. ASSUME NEW n \in T
        PROVE  n + 1 \in T
    <3>1. n \in Nat
      OBVIOUS
    <3>2. PICK g : Is(g, n)
      OBVIOUS
    <3>. HIDE DEF T
    <3>. DEFINE h == [s \in SUBSET S |-> Step(g, s)]
    <3>3. ASSUME NEW s \in Upto(n + 1)
          PROVE  h[s] = Step(h, s)
      <4>1. h[s] = Step(g, s)
        OBVIOUS
      <4>2. CASE s = {}
        BY <4>1, <4>2
      <4>3. CASE s # {}
        <5>. DEFINE r == s \ {Taken(s)}
        <5>1. r \in Upto(n)
          <6>1. s \in SUBSET S /\ Cardinality(s) <= n + 1
            OBVIOUS
          <6>. QED
            BY <1>s, <3>1, <4>3, <6>1
        <5>2. h[r] = Step(g, r) /\ g[r] = Step(g, r)
          <6>. HIDE DEF r, Step
          <6>. QED
            BY <3>2, <5>1
        <5>. HIDE DEF h
        <5>. QED
          BY <4>1, <4>3, <5>2
      <4>. QED
        BY <4>2, <4>3
    <3>4. Is(h, n + 1)
      <4>. HIDE DEF h, Step, Upto
      <4>. QED
        BY <3>3
    <3>. HIDE DEF Is
    <3>. QED
      BY <3>1, <3>4 DEF T
  <2>3. T \in SUBSET Nat
    OBVIOUS
  <2>. HIDE DEF T
  <2>. QED
    BY <2>1, <2>2, <2>3, SetInduction
<1>2. Cardinality(S) \in T
  BY <1>1, FS_CardinalityType
<1>3. PICK g : Is(g, Cardinality(S))
  BY <1>2
<1>4. \A s \in SUBSET S : s \in Upto(Cardinality(S))
  BY FS_Subset
<1>. DEFINE f == [s \in SUBSET S |-> g[s]]
<1>5. ASSUME NEW s \in SUBSET S
      PROVE  f[s] = Step(f, s)
  <2>1. g[s] = Step(g, s)
    <3>. HIDE DEF Upto, Step
    <3>. QED
      BY <1>3, <1>4
  <2>2. f[s] = g[s] /\ (s # {} => f[s \ {Taken(s)}] = g[s \ {Taken(s)}])
    BY <1>s
  <2>. HIDE DEF f
  <2>. QED
    BY <2>1, <2>2
<1>6. f = [s \in SUBSET S |-> Step(f, s)]
  <2>1. f = [s \in SUBSET S |-> f[s]]
    OBVIOUS
  <2>. HIDE DEF f, Step
  <2>. QED
    BY <1>5, <2>1
<1>. HIDE DEF f
<1>. QED
  BY <1>6 DEF AddsUp

StepOf(g, F, s) == IF s = {} THEN 0 ELSE F[Taken(s)] + g[s \ {Taken(s)}]

\* What such a g is of each set.
LEMMA AddsUpStep ==
    ASSUME NEW S, NEW F, NEW g, AddsUp(g, F, S), NEW s \in SUBSET S
    PROVE  g[s] = StepOf(g, F, s)
<1>. DEFINE Step(t) == IF t = {} THEN 0 ELSE F[Taken(t)] + g[t \ {Taken(t)}]
<1>1. g = [t \in SUBSET S |-> Step(t)]
  BY DEF AddsUp
<1>. HIDE DEF Step
<1>2. g[s] = Step(s)
  BY <1>1
<1>. QED
  BY <1>2 DEF Step, StepOf

\* The sum of a function is what adding up its domain yields.
LEMMA SumIs ==
    ASSUME NEW S, IsFiniteSet(S), NEW F, DOMAIN F = S
    PROVE  \E g : AddsUp(g, F, S) /\ SumFunction(F) = g[S]
<1>1. PICK h : AddsUp(h, F, S)
  BY SumExists
<1>. DEFINE g == CHOOSE g : g = [s \in SUBSET S |->
                    IF s = {} THEN 0
                    ELSE F[CHOOSE x \in s : TRUE] + g[s \ {CHOOSE x \in s : TRUE}]]
<1>2. SumFunction(F) = g[S]
  BY DEF SumFunction, SumFunctionOnSet, FoldFunctionOnSet, MapThenFoldSet
<1>3. AddsUp(g, F, S)
  BY <1>1, ZenonT(60) DEF AddsUp, Taken
<1>. QED
  BY <1>2, <1>3

AnyFirst(g, F, S) ==
    \A s \in SUBSET S : g[s] \in Int /\ \A x \in s : g[s] = F[x] + g[s \ {x}]

\* Any element may be taken first.
LEMMA TakeAny ==
    ASSUME NEW S, IsFiniteSet(S), NEW F \in [S -> Int], NEW g, AddsUp(g, F, S)
    PROVE  AnyFirst(g, F, S)
<1>. DEFINE Good(s) == g[s] \in Int /\ \A x \in s : g[s] = F[x] + g[s \ {x}]
            T == {n \in Nat : \A s \in SUBSET S : Cardinality(s) <= n => Good(s)}
<1>f. \A s \in SUBSET S : IsFiniteSet(s) /\ Cardinality(s) \in Nat
  BY FS_Subset, FS_CardinalityType
<1>1. 0 \in T
  <2>1. ASSUME NEW s \in SUBSET S, Cardinality(s) <= 0
        PROVE  Good(s)
    <3>1. s = {}
      BY <1>f, <2>1, FS_EmptySet
    <3>. QED
      BY <3>1, AddsUpStep DEF StepOf
  <2>. HIDE DEF Good
  <2>. QED
    BY <2>1
<1>2. ASSUME NEW n \in T
      PROVE  n + 1 \in T
  <2>1. n \in Nat /\ \A r \in SUBSET S : Cardinality(r) <= n => Good(r)
    BY DEF T
  <2>2. ASSUME NEW s \in SUBSET S, Cardinality(s) <= n + 1, s # {}
        PROVE  Good(s)
    <3>1. IsFiniteSet(s) /\ s # {}
      BY <1>f, <2>2
    <3>2. PICK t \in s : t = Taken(s)
      BY <3>1, TakenIn
    <3>3. g[s] = F[t] + g[s \ {t}]
      BY <3>1, <3>2, AddsUpStep DEF StepOf
    <3>4. \A x \in s : Cardinality(s \ {x}) <= n /\ s \ {x} \in SUBSET S
      BY <1>f, <2>1, <2>2, <3>1, OneLess
    <3>5. \A x \in s : Good(s \ {x})
      <4>. HIDE DEF Good
      <4>. QED
        BY <2>1, <3>4
    <3>6. \A x \in s : F[x] \in Int /\ g[s \ {x}] \in Int
      BY <3>5
    <3>7. g[s] \in Int
      BY <3>3, <3>6
    <3>8. ASSUME NEW x \in s
          PROVE  g[s] = F[x] + g[s \ {x}]
      <4>1. CASE x = t
        BY <3>3, <4>1
      <4>2. CASE x # t
        <5>1. x \in s \ {t} /\ t \in s \ {x}
          BY <4>2
        <5>2. g[s \ {t}] = F[x] + g[(s \ {t}) \ {x}] /\ g[s \ {x}] = F[t] + g[(s \ {x}) \ {t}]
          BY <3>5, <5>1
        <5>3. (s \ {t}) \ {x} = (s \ {x}) \ {t}
          OBVIOUS
        <5>4. PICK r : r = g[(s \ {t}) \ {x}]
          OBVIOUS
        <5>5. r \in Int
          <6>1. (s \ {t}) \ {x} \in SUBSET S /\ Cardinality((s \ {t}) \ {x}) <= n
            <7>1. PICK u : u = s \ {t}
              OBVIOUS
            <7>2. x \in u /\ u \in SUBSET S /\ Cardinality(u) <= n /\ IsFiniteSet(u)
              BY <1>f, <3>4, <5>1, <7>1
            <7>3. Cardinality(u \ {x}) = Cardinality(u) - 1 /\ Cardinality(u) \in Nat
              BY <7>2, OneLess
            <7>. QED
              BY <2>1, <7>1, <7>2, <7>3
          <6>. HIDE DEF Good
          <6>2. Good((s \ {t}) \ {x})
            BY <2>1, <6>1
          <6>. QED
            BY <5>4, <6>2 DEF Good
        <5>. QED
          <6>1. F[t] \in Int /\ F[x] \in Int
            BY <3>6
          <6>2. g[s] = F[t] + (F[x] + r) /\ g[s \ {x}] = F[t] + r
            BY <3>3, <5>2, <5>3, <5>4, Zenon
          <6>. HIDE DEF Good
          <6>. QED
            BY <5>5, <6>1, <6>2
      <4>. QED
        BY <4>1, <4>2
    <3>. QED
      BY <3>7, <3>8
  <2>3. Good({})
    BY <1>f, AddsUpStep DEF StepOf
  <2>. HIDE DEF Good
  <2>4. \A s \in SUBSET S : Cardinality(s) <= n + 1 => Good(s)
    BY <2>2, <2>3
  <2>. QED
    BY <2>1, <2>4 DEF T
<1>3. T = Nat
  <2>1. T \in SUBSET Nat
    OBVIOUS
  <2>. HIDE DEF T
  <2>. QED
    BY <1>1, <1>2, <2>1, SetInduction
<1>4. ASSUME NEW s \in SUBSET S
      PROVE  Good(s)
  <2>. HIDE DEF Good
  <2>1. Cardinality(s) \in T /\ Cardinality(s) <= Cardinality(s)
    BY <1>3, <1>f
  <2>. QED
    BY <2>1
<1>. QED
  BY <1>4 DEF AnyFirst

\* A sum takes out any element.
LEMMA SumUnfolds ==
    ASSUME NEW S, IsFiniteSet(S), NEW F \in [S -> Int]
    PROVE  /\ SumFunction(F) \in Int
           /\ S = {} => SumFunction(F) = 0
           /\ \A x \in S : SumFunction(F) = F[x] + SumFunction([y \in S \ {x} |-> F[y]])
<1>1. PICK g : AddsUp(g, F, S) /\ SumFunction(F) = g[S]
  BY SumIs
<1>2. S = {} => g[S] = 0
  BY <1>1, AddsUpStep DEF StepOf
<1>3. ASSUME NEW x \in S
      PROVE  g[S \ {x}] = SumFunction([y \in S \ {x} |-> F[y]])
  <2>. DEFINE R == S \ {x}
              G == [y \in R |-> F[y]]
              T == {n \in Nat : \A k : AddsUp(k, G, R) =>
                       \A s \in SUBSET R : Cardinality(s) = n => g[s] = k[s]}
  <2>1. IsFiniteSet(R) /\ DOMAIN G = R
    BY FS_Subset
  <2>2. PICK k : AddsUp(k, G, R) /\ SumFunction(G) = k[R]
    <3>. HIDE DEF R, G
    <3>. QED
      BY <2>1, SumIs
  <2>f. \A s \in SUBSET R : IsFiniteSet(s) /\ Cardinality(s) \in Nat
    <3>. HIDE DEF R
    <3>. QED
      BY <2>1, FS_Subset, FS_CardinalityType
  <2>3. ASSUME NEW l, AddsUp(l, G, R), NEW s \in SUBSET R
        PROVE  /\ s = {} => g[s] = l[s]
               /\ s # {} /\ g[s \ {Taken(s)}] = l[s \ {Taken(s)}] => g[s] = l[s]
    <3>1. g[s] = IF s = {} THEN 0 ELSE F[Taken(s)] + g[s \ {Taken(s)}]
      <4>1. s \in SUBSET S /\ AddsUp(g, F, S)
        BY <1>1
      <4>. HIDE DEF G, R
      <4>2. g[s] = StepOf(g, F, s)
        BY <4>1, AddsUpStep
      <4>. QED
        BY <4>2 DEF StepOf
    <3>2. l[s] = IF s = {} THEN 0 ELSE G[Taken(s)] + l[s \ {Taken(s)}]
      <4>. HIDE DEF G, R
      <4>1. l[s] = StepOf(l, G, s)
        BY <2>3, AddsUpStep
      <4>. QED
        BY <4>1 DEF StepOf
    <3>3. s # {} => F[Taken(s)] = G[Taken(s)]
      BY TakenIn
    <3>. HIDE DEF G
    <3>. QED
      BY <3>1, <3>2, <3>3
  <2>. HIDE DEF G, R
  <2>4. 0 \in T
    <3>1. ASSUME NEW l, AddsUp(l, G, R), NEW s \in SUBSET R, Cardinality(s) = 0
          PROVE  g[s] = l[s]
      BY <2>3, <2>f, <3>1, FS_EmptySet
    <3>. QED
      BY <3>1
  <2>5. ASSUME NEW n \in T
        PROVE  n + 1 \in T
    <3>1. n \in Nat /\ \A l : AddsUp(l, G, R) =>
                         \A s \in SUBSET R : Cardinality(s) = n => g[s] = l[s]
      BY DEF T
    <3>2. ASSUME NEW l, AddsUp(l, G, R), NEW s \in SUBSET R, Cardinality(s) = n + 1
          PROVE  g[s] = l[s]
      <4>1. s # {}
        BY <2>f, <3>1, <3>2, FS_EmptySet
      <4>2. Cardinality(s \ {Taken(s)}) = n /\ s \ {Taken(s)} \in SUBSET R
        BY <2>f, <3>1, <3>2, <4>1, TakenIn, OneLess
      <4>. QED
        BY <2>3, <3>1, <3>2, <4>1, <4>2
    <3>. QED
      BY <3>1, <3>2 DEF T
  <2>6. T = Nat
    <3>1. T \in SUBSET Nat
      OBVIOUS
    <3>. HIDE DEF T
    <3>. QED
      BY <2>4, <2>5, <3>1, SetInduction
  <2>7. Cardinality(R) \in T
    BY <2>6, <2>f
  <2>8. g[R] = k[R]
    BY <2>2, <2>7
  <2>. QED
    BY <2>2, <2>8 DEF G, R
<1>4. SumFunction(F) \in Int /\ \A x \in S : g[S] = F[x] + g[S \ {x}]
  <2>1. AddsUp(g, F, S) /\ S \in SUBSET S
    BY <1>1
  <2>2. AnyFirst(g, F, S)
    BY <2>1, TakeAny
  <2>. QED
    BY <1>1, <2>1, <2>2 DEF AnyFirst
<1>. QED
  BY <1>1, <1>2, <1>3, <1>4

\* The sum of the first n values.
SumTo(F, n) == SumFunction([i \in 1..n |-> F[i]])

LEMMA SumToType ==
    ASSUME NEW F, NEW n \in Nat, \A i \in 1..n : F[i] \in Int
    PROVE  SumTo(F, n) \in Int /\ SumTo(F, 0) = 0
<1>1. [i \in 1..n |-> F[i]] \in [1..n -> Int] /\ [i \in 1..0 |-> F[i]] \in [1..0 -> Int]
  OBVIOUS
<1>2. IsFiniteSet(1..n) /\ IsFiniteSet(1..0) /\ 1..0 = {}
  BY FS_Interval
<1>3. SumFunction([i \in 1..n |-> F[i]]) \in Int
  BY <1>1, <1>2, SumUnfolds
<1>4. SumFunction([i \in 1..0 |-> F[i]]) = 0
  BY <1>1, <1>2, SumUnfolds
<1>. QED
  BY <1>3, <1>4 DEF SumTo

LEMMA SumWhole ==
    ASSUME NEW n \in Nat, NEW F, F = [i \in 1..n |-> F[i]]
    PROVE  SumFunction(F) = SumTo(F, n)
BY DEF SumTo

LEMMA SumSame ==
    ASSUME NEW n \in Nat, NEW F, NEW G, \A i \in 1..n : F[i] = G[i]
    PROVE  SumTo(F, n) = SumTo(G, n)
<1>1. [i \in 1..n |-> F[i]] = [i \in 1..n |-> G[i]]
  OBVIOUS
<1>. QED
  BY <1>1 DEF SumTo

LEMMA SumNext ==
    ASSUME NEW F, NEW n \in Nat, \A i \in 1..(n + 1) : F[i] \in Int
    PROVE  SumTo(F, n + 1) = SumTo(F, n) + F[n + 1]
<1>. DEFINE S == 1..(n + 1)
            G == [i \in S |-> F[i]]
<1>1. G \in [S -> Int] /\ IsFiniteSet(S) /\ n + 1 \in S /\ S \ {n + 1} = 1..n
  BY FS_Interval
<1>2. G[n + 1] = F[n + 1] /\ F[n + 1] \in Int
  BY <1>1
<1>3. [y \in S \ {n + 1} |-> G[y]] = [i \in 1..n |-> F[i]]
  <2>1. S \ {n + 1} = 1..n /\ \A i \in 1..n : G[i] = F[i]
    BY <1>1
  <2>. HIDE DEF S, G
  <2>. QED
    BY <2>1
<1>4. SumFunction(G) = G[n + 1] + SumFunction([y \in S \ {n + 1} |-> G[y]])
  <2>. HIDE DEF S, G
  <2>. QED
    BY <1>1, SumUnfolds
<1>5. SumTo(F, n) \in Int
  BY SumToType
<1>6. SumTo(F, n + 1) = F[n + 1] + SumTo(F, n)
  <2>. HIDE DEF G
  <2>1. SumTo(F, n + 1) = SumFunction(G)
    BY DEF SumTo, G
  <2>2. SumTo(F, n) = SumFunction([y \in S \ {n + 1} |-> G[y]])
    BY <1>3 DEF SumTo
  <2>. QED
    BY <1>2, <1>4, <2>1, <2>2
<1>. QED
  BY <1>2, <1>5, <1>6

\* Induction up to a bound.
LEMMA InductionTo ==
    ASSUME NEW n \in Nat, NEW T, 0 \in T, \A k \in 0..(n - 1) : k \in T => k + 1 \in T
    PROVE  n \in T
<1>. DEFINE U == {k \in Nat : k <= n => k \in T}
<1>1. 0 \in U
  OBVIOUS
<1>2. ASSUME NEW k \in U
      PROVE  k + 1 \in U
  <2>1. k \in Nat /\ (k <= n => k \in T)
    OBVIOUS
  <2>2. k + 1 <= n => k \in 0..(n - 1)
    BY <2>1
  <2>. QED
    BY <2>1, <2>2
<1>3. U = Nat
  <2>1. U \in SUBSET Nat
    OBVIOUS
  <2>. HIDE DEF U
  <2>. QED
    BY <1>1, <1>2, <2>1, SetInduction
<1>. QED
  BY <1>3

\* A sum breaks in two anywhere.
LEMMA SumSplit ==
    ASSUME NEW a \in Nat, NEW b \in Nat, NEW F, NEW G,
           \A i \in 1..(a + b) : F[i] \in Int, \A i \in 1..b : G[i] = F[a + i]
    PROVE  SumTo(F, a + b) = SumTo(F, a) + SumTo(G, b)
<1>. DEFINE T == {k \in Nat : SumTo(F, a + k) = SumTo(F, a) + SumTo(G, k)}
<1>0. \A i \in 1..b : G[i] \in Int
  OBVIOUS
<1>1. 0 \in T
  <2>1. SumTo(F, a) \in Int /\ SumTo(G, 0) = 0
    BY <1>0, SumToType
  <2>. QED
    BY <2>1
<1>2. ASSUME NEW k \in 0..(b - 1), k \in T
      PROVE  k + 1 \in T
  <2>1. SumTo(F, (a + k) + 1) = SumTo(F, a + k) + F[(a + k) + 1]
    <3>1. a + k \in Nat /\ \A i \in 1..((a + k) + 1) : F[i] \in Int
      OBVIOUS
    <3>. QED
      BY <3>1, SumNext
  <2>2. SumTo(G, k + 1) = SumTo(G, k) + G[k + 1]
    <3>1. k \in Nat /\ \A i \in 1..(k + 1) : G[i] \in Int
      BY <1>0
    <3>. QED
      BY <3>1, SumNext
  <2>3. G[k + 1] = F[a + (k + 1)] /\ G[k + 1] \in Int
    BY <1>0
  <2>4. SumTo(F, a) \in Int /\ SumTo(G, k) \in Int
    <3>1. k \in Nat /\ (\A i \in 1..k : G[i] \in Int) /\ \A i \in 1..a : F[i] \in Int
      BY <1>0
    <3>. QED
      BY <3>1, SumToType
  <2>5. SumTo(F, a + k) = SumTo(F, a) + SumTo(G, k)
    BY <1>2
  <2>6. (a + k) + 1 = a + (k + 1) /\ k + 1 \in Nat
    OBVIOUS
  <2>7. SumTo(F, a + (k + 1)) = SumTo(F, a) + SumTo(G, k + 1)
    BY <2>1, <2>2, <2>3, <2>4, <2>5, <2>6
  <2>. QED
    BY <2>6, <2>7
<1>. HIDE DEF T
<1>3. b \in T
  BY <1>1, <1>2, InductionTo
<1>. QED
  BY <1>3 DEF T

\* The sum of sums.
LEMMA SumBoth ==
    ASSUME NEW n \in Nat, NEW F, NEW G, NEW H,
           \A i \in 1..n : F[i] \in Int /\ G[i] \in Int /\ H[i] = F[i] + G[i]
    PROVE  SumTo(H, n) = SumTo(F, n) + SumTo(G, n)
<1>. DEFINE T == {k \in Nat : SumTo(H, k) = SumTo(F, k) + SumTo(G, k)}
<1>0. \A i \in 1..n : H[i] \in Int
  OBVIOUS
<1>1. 0 \in T
  <2>1. SumTo(F, 0) = 0 /\ SumTo(G, 0) = 0 /\ SumTo(H, 0) = 0
    BY <1>0, SumToType
  <2>. QED
    BY <2>1
<1>2. ASSUME NEW k \in 0..(n - 1), k \in T
      PROVE  k + 1 \in T
  <2>1. /\ k \in Nat /\ k + 1 \in 1..n
        /\ \A i \in 1..(k + 1) : F[i] \in Int /\ G[i] \in Int /\ H[i] \in Int
    BY <1>0
  <2>2. /\ SumTo(F, k + 1) = SumTo(F, k) + F[k + 1]
        /\ SumTo(G, k + 1) = SumTo(G, k) + G[k + 1]
        /\ SumTo(H, k + 1) = SumTo(H, k) + H[k + 1]
    BY <2>1, SumNext
  <2>3. SumTo(F, k) \in Int /\ SumTo(G, k) \in Int
    BY <2>1, SumToType
  <2>4. F[k + 1] \in Int /\ G[k + 1] \in Int /\ H[k + 1] = F[k + 1] + G[k + 1]
    BY <2>1
  <2>5. SumTo(H, k) = SumTo(F, k) + SumTo(G, k)
    BY <1>2
  <2>. QED
    BY <2>1, <2>2, <2>3, <2>4, <2>5
<1>. HIDE DEF T
<1>3. n \in T
  BY <1>1, <1>2, InductionTo
<1>. QED
  BY <1>3 DEF T

\* A common factor.
LEMMA SumTimes ==
    ASSUME NEW n \in Nat, NEW c \in Int, NEW F, NEW H,
           \A i \in 1..n : F[i] \in Int /\ H[i] = c * F[i]
    PROVE  SumTo(H, n) = c * SumTo(F, n)
<1>. DEFINE T == {k \in Nat : SumTo(H, k) = c * SumTo(F, k)}
<1>0. \A i \in 1..n : H[i] \in Int
  OBVIOUS
<1>1. 0 \in T
  <2>1. SumTo(F, 0) = 0 /\ SumTo(H, 0) = 0
    BY <1>0, SumToType
  <2>. QED
    BY <2>1
<1>2. ASSUME NEW k \in 0..(n - 1), k \in T
      PROVE  k + 1 \in T
  <2>1. k \in Nat /\ k + 1 \in 1..n /\ \A i \in 1..(k + 1) : F[i] \in Int /\ H[i] \in Int
    BY <1>0
  <2>2. /\ SumTo(F, k + 1) = SumTo(F, k) + F[k + 1]
        /\ SumTo(H, k + 1) = SumTo(H, k) + H[k + 1]
    BY <2>1, SumNext
  <2>3. SumTo(F, k) \in Int
    BY <2>1, SumToType
  <2>4. F[k + 1] \in Int /\ H[k + 1] = c * F[k + 1]
    BY <2>1
  <2>5. SumTo(H, k) = c * SumTo(F, k)
    BY <1>2
  <2>6. c * (SumTo(F, k) + F[k + 1]) = c * SumTo(F, k) + c * F[k + 1]
    BY <2>3, <2>4
  <2>7. SumTo(H, k + 1) = c * SumTo(F, k + 1)
    BY <2>2, <2>4, <2>5, <2>6
  <2>. QED
    BY <2>1, <2>7
<1>. HIDE DEF T
<1>3. n \in T
  BY <1>1, <1>2, InductionTo
<1>. QED
  BY <1>3 DEF T

\* Larger terms, larger sum; the sum is larger if one term is.
LEMMA SumLess ==
    ASSUME NEW n \in Nat, NEW F, NEW G,
           \A i \in 1..n : F[i] \in Int /\ G[i] \in Int /\ F[i] <= G[i]
    PROVE  /\ SumTo(F, n) <= SumTo(G, n)
           /\ \A i \in 1..n : F[i] < G[i] => SumTo(F, n) < SumTo(G, n)
<1>. DEFINE Below(k) == /\ SumTo(F, k) <= SumTo(G, k)
                        /\ \A i \in 1..k : F[i] < G[i] => SumTo(F, k) < SumTo(G, k)
            T == {k \in Nat : Below(k)}
<1>1. 0 \in T
  <2>1. SumTo(F, 0) = 0 /\ SumTo(G, 0) = 0
    BY SumToType
  <2>. QED
    BY <2>1
<1>2. ASSUME NEW k \in 0..(n - 1), k \in T
      PROVE  k + 1 \in T
  <2>1. k \in Nat /\ k + 1 \in 1..n /\ \A i \in 1..(k + 1) : F[i] \in Int /\ G[i] \in Int
    OBVIOUS
  <2>2. /\ SumTo(F, k + 1) = SumTo(F, k) + F[k + 1]
        /\ SumTo(G, k + 1) = SumTo(G, k) + G[k + 1]
    BY <2>1, SumNext
  <2>3. SumTo(F, k) \in Int /\ SumTo(G, k) \in Int
    BY <2>1, SumToType
  <2>4. F[k + 1] \in Int /\ G[k + 1] \in Int /\ F[k + 1] <= G[k + 1]
    BY <2>1
  <2>5. Below(k)
    BY <1>2
  <2>6. SumTo(F, k + 1) <= SumTo(G, k + 1)
    BY <2>2, <2>3, <2>4, <2>5
  <2>7. ASSUME NEW i \in 1..(k + 1), F[i] < G[i]
        PROVE  SumTo(F, k + 1) < SumTo(G, k + 1)
    <3>1. CASE i = k + 1
      BY <2>2, <2>3, <2>4, <2>5, <2>7, <3>1
    <3>2. CASE i \in 1..k
      BY <2>2, <2>3, <2>4, <2>5, <2>7, <3>2
    <3>. QED
      BY <2>1, <3>1, <3>2
  <2>. QED
    BY <2>1, <2>6, <2>7
<1>. HIDE DEF T, Below
<1>3. n \in T
  BY <1>1, <1>2, InductionTo
<1>. QED
  BY <1>3 DEF T, Below

\* The numbers up to n are n.
LEMMA CountUp ==
    ASSUME NEW n \in Nat
    PROVE  IsFiniteSet(1..n) /\ Cardinality(1..n) = n
<1>1. 1 \in Int /\ n \in Int
  OBVIOUS
<1>2. IsFiniteSet(1..n) /\ Cardinality(1..n) = IF 1 > n THEN 0 ELSE n - 1 + 1
  BY <1>1, FS_Interval, Zenon
<1>. QED
  BY <1>2

\* Things that are numbered one to one are as many as their numbers.
LEMMA OneToOne ==
    ASSUME NEW S, IsFiniteSet(S), NEW T, NEW f \in [S -> T],
           \A a, b \in S : f[a] = f[b] => a = b,
           \A t \in T : \E a \in S : f[a] = t
    PROVE  IsFiniteSet(T) /\ Cardinality(T) = Cardinality(S)
<1>1. f \in Injection(S, T)
  BY DEF Injection, IsInjective
<1>2. f \in Surjection(S, T)
  BY DEF Surjection
<1>3. ExistsBijection(S, T)
  BY <1>1, <1>2 DEF ExistsBijection, Bijection
<1>. QED
  BY <1>3, FS_Bijection

\* Two sets without a common element.
LEMMA TwoParts ==
    ASSUME NEW S, IsFiniteSet(S), NEW A, NEW B, S = A \cup B, A \cap B = {}
    PROVE  /\ IsFiniteSet(A) /\ IsFiniteSet(B)
           /\ Cardinality(A) \in Nat /\ Cardinality(B) \in Nat
           /\ Cardinality(S) = Cardinality(A) + Cardinality(B)
<1>1. IsFiniteSet(A) /\ IsFiniteSet(B)
  BY FS_Subset
<1>2. Cardinality(A) \in Nat /\ Cardinality(B) \in Nat /\ Cardinality({}) = 0
  BY <1>1, FS_CardinalityType, FS_EmptySet
<1>3. Cardinality(A \cup B) = Cardinality(A) + Cardinality(B) - Cardinality(A \cap B)
  BY <1>1, FS_Union
<1>4. Cardinality(A \cap B) = 0 /\ Cardinality(A \cup B) = Cardinality(S)
  BY <1>2
<1>. QED
  BY <1>1, <1>2, <1>3, <1>4

\* A set of places is counted in two parts.
LEMMA CountSplit ==
    ASSUME NEW a \in Nat, NEW b \in Nat, NEW P \in SUBSET (1..(a + b))
    PROVE  /\ Cardinality({i \in 1..a : i \in P}) \in Nat
           /\ Cardinality({i \in 1..b : a + i \in P}) \in Nat
           /\ Cardinality(P) = Cardinality({i \in 1..a : i \in P})
                               + Cardinality({i \in 1..b : a + i \in P})
<1>. DEFINE A == {i \in 1..a : i \in P}
            B == {i \in 1..b : a + i \in P}
            C == {i \in P : i > a}
            f == [i \in B |-> a + i]
<1>1. IsFiniteSet(P)
  <2>1. a + b \in Nat
    OBVIOUS
  <2>2. IsFiniteSet(1..(a + b))
    BY <2>1, CountUp
  <2>. QED
    BY <2>2, FS_Subset
<1>2. P = A \cup C /\ A \cap C = {}
  <2>1. \A i \in P : i \in 1..(a + b) /\ i \in Int /\ i >= 1
    OBVIOUS
  <2>2. \A i \in P : i \in A \/ i \in C
    BY <2>1
  <2>3. \A i \in A : i \in P /\ i \notin C
    OBVIOUS
  <2>. QED
    BY <2>2, <2>3
<1>3. IsFiniteSet(B)
  <2>1. IsFiniteSet(1..b) /\ B \in SUBSET (1..b)
    BY CountUp
  <2>. QED
    BY <2>1, FS_Subset
<1>4. f \in [B -> C] /\ (\A x, y \in B : f[x] = f[y] => x = y)
  OBVIOUS
<1>5. \A c \in C : \E x \in B : f[x] = c
  <2>1. \A c \in C : c - a \in B /\ f[c - a] = c
    OBVIOUS
  <2>. QED
    BY <2>1
<1>. HIDE DEF A, B, C, f
<1>6. Cardinality(C) = Cardinality(B)
  BY <1>3, <1>4, <1>5, OneToOne
<1>7. Cardinality(P) = Cardinality(A) + Cardinality(C) /\ Cardinality(A) \in Nat /\ Cardinality(C) \in Nat
  BY <1>1, <1>2, TwoParts
<1>. QED
  BY <1>6, <1>7 DEF A, B

\* The lesser of two numbers.
LEMMA MinOfTwo ==
    ASSUME NEW a \in Int, NEW b \in Int
    PROVE  Min({a, b}) = IF a <= b THEN a ELSE b
BY DEF Min

\* The greatest and the least number of a set, by name.
LEMMA GreatestIs ==
    ASSUME NEW S \in SUBSET Int, NEW m \in S, \A y \in S : y <= m
    PROVE  Max(S) = m
<1>1. \A x \in S : (\A y \in S : x >= y) => x = m
  OBVIOUS
<1>2. \A y \in S : m >= y
  OBVIOUS
<1>. QED
  BY <1>1, <1>2 DEF Max

LEMMA LeastIs ==
    ASSUME NEW S \in SUBSET Int, NEW m \in S, \A y \in S : m <= y
    PROVE  Min(S) = m
<1>1. \A x \in S : (\A y \in S : x <= y) => x = m
  OBVIOUS
<1>. QED
  BY <1>1 DEF Min

\* A sum of terms that are not negative.
LEMMA SumZero ==
    ASSUME NEW n \in Nat, NEW F, \A i \in 1..n : F[i] \in Nat
    PROVE  /\ SumTo(F, n) \in Nat
           /\ SumTo(F, n) = 0 <=> \A i \in 1..n : F[i] = 0
<1>. DEFINE Z == [i \in 1..n |-> 0]
<1>0. \A i \in 1..n : F[i] \in Int
  OBVIOUS
<1>1. SumTo(Z, n) = 0
  <2>1. \A i \in 1..n : F[i] \in Int /\ Z[i] = 0 * F[i]
    BY <1>0
  <2>2. 0 \in Int
    OBVIOUS
  <2>. HIDE DEF Z
  <2>3. SumTo(Z, n) = 0 * SumTo(F, n)
    BY <2>1, <2>2, SumTimes
  <2>4. SumTo(F, n) \in Int
    BY <1>0, SumToType
  <2>. QED
    BY <2>3, <2>4
<1>2. SumTo(F, n) \in Int
  BY <1>0, SumToType
<1>3. SumTo(Z, n) <= SumTo(F, n) /\ \A i \in 1..n : Z[i] < F[i] => SumTo(Z, n) < SumTo(F, n)
  <2>1. \A i \in 1..n : Z[i] \in Int /\ F[i] \in Int /\ Z[i] <= F[i]
    OBVIOUS
  <2>. HIDE DEF Z
  <2>. QED
    BY <2>1, SumLess
<1>4. (\A i \in 1..n : F[i] = 0) => SumTo(F, n) = SumTo(Z, n)
  <2>1. (\A i \in 1..n : F[i] = 0) => \A i \in 1..n : F[i] = Z[i]
    OBVIOUS
  <2>. HIDE DEF Z
  <2>. QED
    BY <2>1, SumSame
<1>5. \A i \in 1..n : F[i] # 0 => Z[i] < F[i]
  OBVIOUS
<1>. HIDE DEF Z
<1>. QED
  BY <1>1, <1>2, <1>3, <1>4, <1>5

\* A set with two elements at least.
LEMMA MoreThanOne ==
    ASSUME NEW S, IsFiniteSet(S)
    PROVE  Cardinality(S) > 1 <=> \E x, y \in S : x # y
<1>1. Cardinality(S) \in Nat
  BY FS_CardinalityType
<1>2. ASSUME NEW x \in S, NEW y \in S, x # y
      PROVE  Cardinality(S) > 1
  <2>1. Cardinality({x, y}) = 2
    <3>1. IsFiniteSet({x}) /\ Cardinality({x}) = 1
      BY FS_Singleton
    <3>2. Cardinality({x} \cup {y}) = Cardinality({x}) + 1
      <4>1. y \notin {x}
        BY <1>2
      <4>. QED
        BY <3>1, <4>1, FS_AddElement
    <3>3. {x, y} = {x} \cup {y}
      OBVIOUS
    <3>. QED
      BY <3>1, <3>2, <3>3
  <2>2. {x, y} \in SUBSET S
    OBVIOUS
  <2>3. Cardinality({x, y}) <= Cardinality(S)
    BY <2>2, FS_Subset
  <2>. QED
    BY <1>1, <2>1, <2>3
<1>3. ASSUME Cardinality(S) > 1
      PROVE  \E x, y \in S : x # y
  <2>1. S # {}
    BY <1>3, FS_EmptySet
  <2>2. PICK x : x \in S
    BY <2>1
  <2>3. S # {x}
    BY <1>3, FS_Singleton
  <2>4. \E y \in S : y # x
    BY <2>2, <2>3
  <2>. QED
    BY <2>2, <2>4
<1>. QED
  BY <1>2, <1>3

\* Groups without a common element: their elements beyond the first of each.
LEMMA GroupsAddUp ==
    ASSUME NEW S, IsFiniteSet(S), NEW G, IsFiniteSet(G), \A g \in G : g \subseteq S /\ g # {},
           \A g, h \in G : g # h => g \cap h = {}
    PROVE  Cardinality(G) + SumFunction([g \in {h \in G : Cardinality(h) > 1} |-> Cardinality(g) - 1])
           = Cardinality(UNION G)
<1>. DEFINE Big(H) == {h \in H : Cardinality(h) > 1}
            Extra(B) == SumFunction([g \in B |-> Cardinality(g) - 1])
            T == {n \in Nat : \A H \in SUBSET G : Cardinality(H) = n =>
                     Cardinality(H) + Extra(Big(H)) = Cardinality(UNION H)}
<1>f. \A H \in SUBSET G : IsFiniteSet(H) /\ Cardinality(H) \in Nat
  BY FS_Subset, FS_CardinalityType
<1>g. \A g \in G : IsFiniteSet(g) /\ Cardinality(g) \in Nat \ {0}
  <2>1. \A g \in G : IsFiniteSet(g) /\ g # {}
    BY FS_Subset
  <2>. QED
    BY <2>1, FS_CardinalityType, FS_EmptySet
<1>e. ASSUME NEW B \in SUBSET G
      PROVE  /\ Extra(B) \in Int
             /\ B = {} => Extra(B) = 0
             /\ \A x \in B : Extra(B) = Cardinality(x) - 1 + Extra(B \ {x})
  <2>. DEFINE F == [g \in B |-> Cardinality(g) - 1]
  <2>1. F \in [B -> Int] /\ IsFiniteSet(B)
    BY <1>f, <1>g
  <2>2. \A x \in B : F[x] = Cardinality(x) - 1 /\ [y \in B \ {x} |-> F[y]] = [g \in B \ {x} |-> Cardinality(g) - 1]
    OBVIOUS
  <2>3. /\ SumFunction(F) \in Int
        /\ B = {} => SumFunction(F) = 0
        /\ \A x \in B : SumFunction(F) = F[x] + SumFunction([y \in B \ {x} |-> F[y]])
    <3>. HIDE DEF F
    <3>. QED
      BY <2>1, SumUnfolds
  <2>4. Extra(B) = SumFunction(F)
    OBVIOUS
  <2>5. \A x \in B : Extra(B \ {x}) = SumFunction([y \in B \ {x} |-> F[y]])
    BY <2>2
  <2>. HIDE DEF F, Extra
  <2>. QED
    BY <2>2, <2>3, <2>4, <2>5
<1>. HIDE DEF Extra
<1>1. 0 \in T
  <2>1. ASSUME NEW H \in SUBSET G, Cardinality(H) = 0
        PROVE  Cardinality(H) + Extra(Big(H)) = Cardinality(UNION H)
    <3>1. H = {}
      BY <1>f, <2>1, FS_EmptySet
    <3>2. Big(H) = {} /\ UNION H = {} /\ Big(H) \in SUBSET G
      BY <3>1
    <3>3. Extra(Big(H)) = 0
      <4>. HIDE DEF Big
      <4>. QED
        BY <1>e, <3>2
    <3>4. Cardinality(UNION H) = 0
      BY <3>2, FS_EmptySet
    <3>. HIDE DEF Big
    <3>. QED
      BY <2>1, <3>3, <3>4
  <2>. QED
    BY <2>1
<1>2. ASSUME NEW n \in T
      PROVE  n + 1 \in T
  <2>1. n \in Nat /\ \A H \in SUBSET G : Cardinality(H) = n =>
                        Cardinality(H) + Extra(Big(H)) = Cardinality(UNION H)
    BY DEF T
  <2>2. ASSUME NEW H \in SUBSET G, Cardinality(H) = n + 1
        PROVE  Cardinality(H) + Extra(Big(H)) = Cardinality(UNION H)
    <3>1. H # {}
      <4>1. Cardinality({}) = 0 /\ n + 1 # 0
        BY <2>1, FS_EmptySet
      <4>. QED
        BY <2>2, <4>1
    <3>2. PICK x : x \in H
      BY <3>1
    <3>. DEFINE R == H \ {x}
    <3>3. R \in SUBSET G /\ Cardinality(R) = n /\ IsFiniteSet(H)
      BY <1>f, <2>1, <2>2, <3>2, OneLess
    <3>4. Cardinality(UNION H) = Cardinality(UNION R) + Cardinality(x)
      <4>1. UNION H = (UNION R) \cup x /\ (UNION R) \cap x = {}
        BY <3>2
      <4>2. IsFiniteSet(UNION H)
        <5>1. UNION H \in SUBSET S
          OBVIOUS
        <5>. QED
          BY <5>1, FS_Subset
      <4>. HIDE DEF R
      <4>. QED
        BY <4>1, <4>2, TwoParts
    <3>5. Cardinality(R) + Extra(Big(R)) = Cardinality(UNION R)
      BY <2>1, <3>3
    <3>6. x \in G /\ Cardinality(x) \in Nat \ {0} /\ Big(R) \in SUBSET G /\ Big(H) \in SUBSET G
      BY <1>g, <3>2, <3>3
    <3>7. Extra(Big(H)) = Cardinality(x) - 1 + Extra(Big(R))
      <4>1. CASE Cardinality(x) > 1
        <5>1. x \in Big(H) /\ Big(H) \ {x} = Big(R)
          BY <3>2, <4>1
        <5>. HIDE DEF Big, R
        <5>. QED
          BY <1>e, <3>6, <5>1
      <4>2. CASE ~ (Cardinality(x) > 1)
        <5>1. Big(H) = Big(R)
          BY <3>2, <4>2
        <5>2. Cardinality(x) = 1
          BY <3>6, <4>2
        <5>. HIDE DEF Big, R
        <5>3. Extra(Big(R)) \in Int
          BY <1>e, <3>6
        <5>. QED
          BY <5>1, <5>2, <5>3
      <4>. QED
        BY <4>1, <4>2
    <3>8. Extra(Big(R)) \in Int
      BY <1>e, <3>6
    <3>. HIDE DEF Big, R
    <3>. QED
      BY <2>1, <2>2, <3>3, <3>4, <3>5, <3>6, <3>7, <3>8
  <2>. QED
    BY <2>1, <2>2 DEF T
<1>3. T = Nat
  <2>1. T \in SUBSET Nat
    OBVIOUS
  <2>. HIDE DEF T
  <2>. QED
    BY <1>1, <1>2, <2>1, SetInduction
<1>4. G \in SUBSET G /\ Cardinality(G) \in T
  BY <1>3, <1>f
<1>. QED
  BY <1>4 DEF Extra
==============================================================================
