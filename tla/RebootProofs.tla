----------------------------- MODULE RebootProofs -----------------------------
(***************************************************************************)
(* Proofs about the analysis of the collected slices: what the running     *)
(* sums are after any number of chunks of any size, where the windows of a *)
(* run lie, what the comparison of two files counts, and what repeats and  *)
(* trends must show in the summary.                                        *)
(***************************************************************************)
EXTENDS RebootAnalysis, SequenceFacts

------------------------------------------------------------------------------
(* The running sums over a file. *)

\* A byte value is a number, and never NoValue.
LEMMA ValuesAreBytes ==
    Values \subseteq Nat /\ (\A v \in Values : v \in Int /\ v # NoValue) /\ IsFiniteSet(Values)
<1>1. Values \subseteq 0..255
  BY AnalysisAssumption
<1>2. IsFiniteSet(0..255)
  <2>1. 0 \in Int /\ 255 \in Int
    OBVIOUS
  <2>. QED
    BY <2>1, FS_Interval, Zenon
<1>3. IsFiniteSet(Values)
  BY <1>1, <1>2, FS_Subset
<1>. QED
  BY <1>1, <1>3 DEF NoValue

\* A chunk is the bytes of the file from there on.
LEMMA ChunkIs ==
    ASSUME NEW E, NEW f \in Seq(E), NEW k \in 0..Len(f), NEW size \in 0..(Len(f) - k)
    PROVE  /\ Chunk(f, k, size) \in Seq(E)
           /\ Len(Chunk(f, k, size)) = size
           /\ \A i \in 1..size : Chunk(f, k, size)[i] = f[k + i]
<1>1. k + 1 \in Nat /\ k + size \in Nat /\ k + size <= Len(f)
  OBVIOUS
<1>. QED
  BY <1>1 DEF Chunk

\* Of k bytes, the pairs of neighbours.
PairsIn(k) == IF k = 0 THEN 0 ELSE k - 1

\* The terms of the sums over pairs.
XOf(f) == [i \in 1..(Len(f) - 1) |-> f[i]]
YOf(f) == [i \in 1..(Len(f) - 1) |-> f[i + 1]]
X2Of(f) == [i \in 1..(Len(f) - 1) |-> f[i] * f[i]]
Y2Of(f) == [i \in 1..(Len(f) - 1) |-> f[i + 1] * f[i + 1]]
XYOf(f) == [i \in 1..(Len(f) - 1) |-> f[i] * f[i + 1]]

\* The running sums after the first k bytes of a file.
StateOf(f, k) ==
    [n |-> k, counts |-> [v \in Values |-> Cardinality({i \in 1..k : f[i] = v})],
     prev |-> IF k = 0 THEN NoValue ELSE f[k], pairs |-> PairsIn(k),
     x |-> SumTo(XOf(f), PairsIn(k)), y |-> SumTo(YOf(f), PairsIn(k)),
     x2 |-> SumTo(X2Of(f), PairsIn(k)), y2 |-> SumTo(Y2Of(f), PairsIn(k)),
     xy |-> SumTo(XYOf(f), PairsIn(k))]

PairsFollow(f, k, size, p) ==
    /\ Len(p) \in Nat
    /\ PairsIn(k) + Len(p) = PairsIn(k + size)
    /\ \A i \in 1..Len(p) : p[i] = <<f[PairsIn(k) + i], f[PairsIn(k) + i + 1]>>

\* The pairs of a chunk follow those of the bytes before it.
LEMMA ChunkPairsAre ==
    ASSUME NEW f \in Seq(Values), NEW k \in 0..(Len(f) - 1), NEW size \in 1..(Len(f) - k),
           NEW prev, prev = IF k = 0 THEN NoValue ELSE f[k]
    PROVE  PairsFollow(f, k, size, ChunkPairs(Chunk(f, k, size), prev))
<1>. DEFINE d == Chunk(f, k, size)
<1>1. d \in Seq(Values) /\ Len(d) = size /\ \A i \in 1..size : d[i] = f[k + i]
  <2>1. k \in 0..Len(f) /\ size \in 0..(Len(f) - k)
    OBVIOUS
  <2>. QED
    BY <2>1, ChunkIs
<1>. HIDE DEF d
<1>. DEFINE c == ChunkPairs(d, prev)
<1>. SUFFICES PairsFollow(f, k, size, c)
  BY DEF c, d
<1>2. CASE k = 0
  <2>1. c = [i \in 1..(size - 1) |-> <<d[i], d[i + 1]>>]
    BY <1>1, <1>2 DEF ChunkPairs, c
  <2>2. Len(c) = size - 1
    BY <2>1
  <2>3. \A i \in 1..(size - 1) : d[i] = f[0 + i] /\ d[i + 1] = f[0 + i + 1]
    BY <1>1, <1>2
  <2>4. PairsIn(k) = 0 /\ PairsIn(k + size) = size - 1 /\ size - 1 \in Nat
    BY <1>2 DEF PairsIn
  <2>5. \A i \in 1..(size - 1) : c[i] = <<d[i], d[i + 1]>>
    BY <2>1
  <2>. HIDE DEF c
  <2>. QED
    BY <1>2, <2>2, <2>3, <2>4, <2>5 DEF PairsFollow
<1>3. CASE k # 0
  <2>. DEFINE s == <<prev>> \o d
  <2>1. prev = f[k] /\ f[k] \in Values /\ prev # NoValue
    <3>1. k \in 1..Len(f)
      BY <1>3
    <3>2. f[k] \in Values
      BY <3>1
    <3>. QED
      BY <1>3, <3>2, ValuesAreBytes
  <2>2. s \in Seq(Values) /\ Len(s) = size + 1
    BY <1>1, <2>1
  <2>3. \A i \in 1..(size + 1) : s[i] = f[k - 1 + i]
    <3>1. s[1] = f[k]
      BY <1>1, <2>1
    <3>2. \A i \in 2..(size + 1) : s[i] = d[i - 1] /\ i - 1 \in 1..size
      BY <1>1
    <3>3. \A i \in 2..(size + 1) : s[i] = f[k + (i - 1)] /\ k + (i - 1) = k - 1 + i
      BY <1>1, <3>2
    <3>4. \A i \in 2..(size + 1) : s[i] = f[k - 1 + i]
      BY <3>3
    <3>5. \A i \in 1..(size + 1) : i = 1 \/ i \in 2..(size + 1)
      OBVIOUS
    <3>6. k - 1 + 1 = k
      OBVIOUS
    <3>. HIDE DEF s
    <3>. QED
      BY <3>1, <3>4, <3>5, <3>6
  <2>4. c = [i \in 1..(Len(s) - 1) |-> <<s[i], s[i + 1]>>]
    BY <2>1 DEF ChunkPairs, c
  <2>. HIDE DEF s
  <2>5. c = [i \in 1..size |-> <<s[i], s[i + 1]>>]
    BY <2>2, <2>4
  <2>6. Len(c) = size
    BY <2>5
  <2>7. \A i \in 1..size : s[i] = f[k - 1 + i] /\ s[i + 1] = f[k - 1 + i + 1]
    <3>1. \A i \in 1..size : i \in 1..(size + 1) /\ i + 1 \in 1..(size + 1)
                             /\ k - 1 + (i + 1) = k - 1 + i + 1
      OBVIOUS
    <3>. QED
      BY <2>3, <3>1
  <2>8. PairsIn(k) = k - 1 /\ PairsIn(k + size) = k - 1 + size /\ size \in Nat
    BY <1>3 DEF PairsIn
  <2>9. \A i \in 1..size : c[i] = <<s[i], s[i + 1]>>
    BY <2>5
  <2>10. \A i \in 1..size : c[i] = <<f[k - 1 + i], f[k - 1 + i + 1]>>
    BY <2>7, <2>9
  <2>. HIDE DEF c
  <2>. QED
    BY <2>6, <2>8, <2>10 DEF PairsFollow
<1>. QED
  BY <1>2, <1>3

\* A sum goes on where it was.
LEMMA SumGoesOn ==
    ASSUME NEW q \in Nat, NEW m \in Nat, NEW F, \A i \in 1..(q + m) : F[i] \in Int,
           NEW G, G = [i \in 1..m |-> G[i]], \A i \in 1..m : G[i] = F[q + i]
    PROVE  SumTo(F, q) + SumFunction(G) = SumTo(F, q + m)
<1>1. SumFunction(G) = SumTo(G, m)
  BY SumWhole
<1>2. SumTo(F, q + m) = SumTo(F, q) + SumTo(G, m)
  BY SumSplit
<1>. QED
  BY <1>1, <1>2

\* update_stats_from_bytes on the next chunk of a file.
LEMMA UpdateGoesOn ==
    ASSUME NEW f \in Seq(Values), NEW k \in 0..(Len(f) - 1), NEW size \in 1..(Len(f) - k)
    PROVE  Update(Chunk(f, k, size), StateOf(f, k)) = StateOf(f, k + size)
<1>. DEFINE d == Chunk(f, k, size)
            st == StateOf(f, k)
            p == ChunkPairs(d, st.prev)
            q == PairsIn(k)
            m == Len(p)
<1>1. d \in Seq(Values) /\ Len(d) = size /\ \A i \in 1..size : d[i] = f[k + i]
  <2>1. k \in 0..Len(f) /\ size \in 0..(Len(f) - k)
    OBVIOUS
  <2>. QED
    BY <2>1, ChunkIs
<1>2. st.prev = IF k = 0 THEN NoValue ELSE f[k]
  BY DEF StateOf
<1>3. /\ m \in Nat /\ q + m = PairsIn(k + size) /\ q \in Nat
      /\ \A i \in 1..m : p[i] = <<f[q + i], f[q + i + 1]>>
  <2>1. q \in Nat
    BY DEF PairsIn
  <2>. DEFINE v == st.prev
  <2>2. v = IF k = 0 THEN NoValue ELSE f[k]
    BY <1>2
  <2>. HIDE DEF v
  <2>3. PairsFollow(f, k, size, ChunkPairs(Chunk(f, k, size), v))
    BY <2>2, ChunkPairsAre
  <2>4. PairsFollow(f, k, size, p)
    BY <2>3 DEF v
  <2>. HIDE DEF p
  <2>. QED
    BY <2>1, <2>4 DEF PairsFollow
<1>4. q + m <= Len(f) - 1 /\ Len(f) \in Nat /\ \A i \in 1..Len(f) : f[i] \in Int
  <2>1. PairsIn(k + size) <= Len(f) - 1
    BY DEF PairsIn
  <2>2. \A i \in 1..Len(f) : f[i] \in Int
    <3>1. \A i \in 1..Len(f) : f[i] \in Values
      OBVIOUS
    <3>. QED
      BY <3>1, ValuesAreBytes
  <2>3. q + m = PairsIn(k + size)
    BY <1>3
  <2>. HIDE DEF q, m
  <2>. QED
    BY <2>1, <2>2, <2>3
<1>. HIDE DEF p, m, d, q
<1>5. \A i \in 1..m : /\ p[i][1] = f[q + i] /\ p[i][2] = f[q + i + 1]
                      /\ q + i \in 1..(Len(f) - 1)
  BY <1>3, <1>4
<1>6. \A i \in 1..(q + m) : i \in 1..(Len(f) - 1) /\ f[i] \in Int /\ f[i + 1] \in Int
  BY <1>3, <1>4
<1>x. SumTo(XOf(f), q) + SumFunction([i \in 1..m |-> p[i][1]]) = SumTo(XOf(f), q + m)
  <2>. DEFINE F == XOf(f)
              G == [i \in 1..m |-> p[i][1]]
  <2>1. \A i \in 1..(q + m) : F[i] \in Int
    BY <1>6 DEF XOf
  <2>2. \A i \in 1..m : G[i] = F[q + i]
    BY <1>5 DEF XOf
  <2>3. G = [i \in 1..m |-> G[i]]
    OBVIOUS
  <2>. HIDE DEF F, G
  <2>. QED
    BY <1>3, <2>1, <2>2, <2>3, SumGoesOn DEF F, G
<1>y. SumTo(YOf(f), q) + SumFunction([i \in 1..m |-> p[i][2]]) = SumTo(YOf(f), q + m)
  <2>. DEFINE F == YOf(f)
              G == [i \in 1..m |-> p[i][2]]
  <2>1. \A i \in 1..(q + m) : F[i] \in Int
    BY <1>6 DEF YOf
  <2>2. \A i \in 1..m : G[i] = F[q + i]
    BY <1>5 DEF YOf
  <2>3. G = [i \in 1..m |-> G[i]]
    OBVIOUS
  <2>. HIDE DEF F, G
  <2>. QED
    BY <1>3, <2>1, <2>2, <2>3, SumGoesOn DEF F, G
<1>x2. SumTo(X2Of(f), q) + SumFunction([i \in 1..m |-> p[i][1] * p[i][1]]) = SumTo(X2Of(f), q + m)
  <2>. DEFINE F == X2Of(f)
              G == [i \in 1..m |-> p[i][1] * p[i][1]]
  <2>1. \A i \in 1..(q + m) : F[i] \in Int
    BY <1>6 DEF X2Of
  <2>2. \A i \in 1..m : G[i] = F[q + i]
    BY <1>5 DEF X2Of
  <2>3. G = [i \in 1..m |-> G[i]]
    OBVIOUS
  <2>. HIDE DEF F, G
  <2>. QED
    BY <1>3, <2>1, <2>2, <2>3, SumGoesOn DEF F, G
<1>y2. SumTo(Y2Of(f), q) + SumFunction([i \in 1..m |-> p[i][2] * p[i][2]]) = SumTo(Y2Of(f), q + m)
  <2>. DEFINE F == Y2Of(f)
              G == [i \in 1..m |-> p[i][2] * p[i][2]]
  <2>1. \A i \in 1..(q + m) : F[i] \in Int
    BY <1>6 DEF Y2Of
  <2>2. \A i \in 1..m : G[i] = F[q + i]
    BY <1>5 DEF Y2Of
  <2>3. G = [i \in 1..m |-> G[i]]
    OBVIOUS
  <2>. HIDE DEF F, G
  <2>. QED
    BY <1>3, <2>1, <2>2, <2>3, SumGoesOn DEF F, G
<1>xy. SumTo(XYOf(f), q) + SumFunction([i \in 1..m |-> p[i][1] * p[i][2]]) = SumTo(XYOf(f), q + m)
  <2>. DEFINE F == XYOf(f)
              G == [i \in 1..m |-> p[i][1] * p[i][2]]
  <2>1. \A i \in 1..(q + m) : F[i] \in Int
    BY <1>6 DEF XYOf
  <2>2. \A i \in 1..m : G[i] = F[q + i]
    BY <1>5 DEF XYOf
  <2>3. G = [i \in 1..m |-> G[i]]
    OBVIOUS
  <2>. HIDE DEF F, G
  <2>. QED
    BY <1>3, <2>1, <2>2, <2>3, SumGoesOn DEF F, G
<1>c. ASSUME NEW v \in Values
      PROVE  Cardinality({i \in 1..k : f[i] = v}) + Cardinality({i \in 1..Len(d) : d[i] = v})
             = Cardinality({i \in 1..(k + size) : f[i] = v})
  <2>. DEFINE P == {i \in 1..(k + size) : f[i] = v}
  <2>1. {i \in 1..k : i \in P} = {i \in 1..k : f[i] = v}
    OBVIOUS
  <2>2. {i \in 1..size : k + i \in P} = {i \in 1..Len(d) : d[i] = v}
    <3>1. \A i \in 1..size : k + i \in 1..(k + size) /\ d[i] = f[k + i]
      BY <1>1
    <3>. QED
      BY <1>1, <3>1
  <2>3. k \in Nat /\ size \in Nat /\ P \in SUBSET (1..(k + size))
    OBVIOUS
  <2>. HIDE DEF P
  <2>4. Cardinality(P) = Cardinality({i \in 1..k : i \in P})
                         + Cardinality({i \in 1..size : k + i \in P})
    BY <2>3, CountSplit
  <2>. QED
    BY <2>1, <2>2, <2>4 DEF P
<1>l. d[Len(d)] = f[k + size] /\ k + size # 0 /\ k + size \in 1..Len(f)
  BY <1>1
<1>p. st.n = k /\ st.pairs = q /\ st.x = SumTo(XOf(f), q) /\ st.y = SumTo(YOf(f), q)
      /\ st.x2 = SumTo(X2Of(f), q) /\ st.y2 = SumTo(Y2Of(f), q) /\ st.xy = SumTo(XYOf(f), q)
      /\ \A v \in Values : st.counts[v] = Cardinality({i \in 1..k : f[i] = v})
  BY DEF StateOf, q
<1>u. Update(d, st) =
        [n |-> st.n + Len(d),
         counts |-> [v \in Values |-> st.counts[v] + Cardinality({i \in 1..Len(d) : d[i] = v})],
         prev |-> d[Len(d)],
         pairs |-> st.pairs + m,
         x |-> st.x + SumFunction([i \in 1..m |-> p[i][1]]),
         y |-> st.y + SumFunction([i \in 1..m |-> p[i][2]]),
         x2 |-> st.x2 + SumFunction([i \in 1..m |-> p[i][1] * p[i][1]]),
         y2 |-> st.y2 + SumFunction([i \in 1..m |-> p[i][2] * p[i][2]]),
         xy |-> st.xy + SumFunction([i \in 1..m |-> p[i][1] * p[i][2]])]
  BY Zenon DEF Update, p, m
<1>. HIDE DEF st
<1>7. [v \in Values |-> st.counts[v] + Cardinality({i \in 1..Len(d) : d[i] = v})]
      = [v \in Values |-> Cardinality({i \in 1..(k + size) : f[i] = v})]
  BY <1>c, <1>p
<1>8. /\ st.n + Len(d) = k + size /\ d[Len(d)] = f[k + size] /\ st.pairs + m = PairsIn(k + size)
      /\ st.x + SumFunction([i \in 1..m |-> p[i][1]]) = SumTo(XOf(f), PairsIn(k + size))
      /\ st.y + SumFunction([i \in 1..m |-> p[i][2]]) = SumTo(YOf(f), PairsIn(k + size))
      /\ st.x2 + SumFunction([i \in 1..m |-> p[i][1] * p[i][1]]) = SumTo(X2Of(f), PairsIn(k + size))
      /\ st.y2 + SumFunction([i \in 1..m |-> p[i][2] * p[i][2]]) = SumTo(Y2Of(f), PairsIn(k + size))
      /\ st.xy + SumFunction([i \in 1..m |-> p[i][1] * p[i][2]]) = SumTo(XYOf(f), PairsIn(k + size))
  BY <1>1, <1>3, <1>l, <1>p, <1>x, <1>y, <1>x2, <1>y2, <1>xy
<1>9. StateOf(f, k + size) =
        [n |-> k + size,
         counts |-> [v \in Values |-> Cardinality({i \in 1..(k + size) : f[i] = v})],
         prev |-> f[k + size], pairs |-> PairsIn(k + size),
         x |-> SumTo(XOf(f), PairsIn(k + size)), y |-> SumTo(YOf(f), PairsIn(k + size)),
         x2 |-> SumTo(X2Of(f), PairsIn(k + size)), y2 |-> SumTo(Y2Of(f), PairsIn(k + size)),
         xy |-> SumTo(XYOf(f), PairsIn(k + size))]
  BY <1>l, Zenon DEF StateOf
<1>10. Update(d, st) = StateOf(f, k + size)
  BY <1>u, <1>7, <1>8, <1>9, Zenon
<1>. QED
  BY <1>10 DEF d, st

\* The state before the first byte.
LEMMA EmptyIsState == ASSUME NEW f \in Seq(Values) PROVE EmptyState = StateOf(f, 0)
<1>1. PairsIn(0) = 0
  BY DEF PairsIn
<1>2. /\ SumTo(XOf(f), 0) = 0 /\ SumTo(YOf(f), 0) = 0 /\ SumTo(X2Of(f), 0) = 0
      /\ SumTo(Y2Of(f), 0) = 0 /\ SumTo(XYOf(f), 0) = 0
  BY SumToType
<1>3. [v \in Values |-> 0] = [v \in Values |-> Cardinality({i \in 1..0 : f[i] = v})]
  <2>1. \A v \in Values : {i \in 1..0 : f[i] = v} = {}
    OBVIOUS
  <2>2. \A v \in Values : Cardinality({i \in 1..0 : f[i] = v}) = 0
    BY <2>1, FS_EmptySet
  <2>. QED
    BY <2>2
<1>. QED
  BY <1>1, <1>2, <1>3, Zenon DEF EmptyState, StateOf

\* The metrics look at the sums, not at the last byte.
LEMMA FinalizeOf ==
    ASSUME NEW a, NEW b, a.n = b.n, a.counts = b.counts, a.pairs = b.pairs, a.x = b.x, a.y = b.y,
           a.x2 = b.x2, a.y2 = b.y2, a.xy = b.xy
    PROVE  Finalize(a) = Finalize(b)
BY Zenon DEF Finalize

\* The metrics after the last byte.
LEMMA WholeFileIs ==
    ASSUME NEW f \in Seq(Values), Len(f) # 0
    PROVE  Finalize(StateOf(f, Len(f))) = WholeFile(f)
<1>. DEFINE n == Len(f)
            w == [n |-> n, counts |-> [v \in Values |-> Cardinality({i \in 1..n : f[i] = v})],
                  prev |-> NoValue, pairs |-> n - 1,
                  x |-> SumFunction(XOf(f)), y |-> SumFunction(YOf(f)),
                  x2 |-> SumFunction(X2Of(f)), y2 |-> SumFunction(Y2Of(f)),
                  xy |-> SumFunction(XYOf(f))]
<1>1. WholeFile(f) = Finalize(w)
  BY DEF WholeFile, XOf, YOf, X2Of, Y2Of, XYOf
<1>2. PairsIn(n) = n - 1 /\ n - 1 \in Nat
  BY DEF PairsIn
<1>3. /\ SumFunction(XOf(f)) = SumTo(XOf(f), n - 1) /\ SumFunction(YOf(f)) = SumTo(YOf(f), n - 1)
      /\ SumFunction(X2Of(f)) = SumTo(X2Of(f), n - 1)
      /\ SumFunction(Y2Of(f)) = SumTo(Y2Of(f), n - 1)
      /\ SumFunction(XYOf(f)) = SumTo(XYOf(f), n - 1)
  <2>1. /\ XOf(f) = [i \in 1..(n - 1) |-> XOf(f)[i]] /\ YOf(f) = [i \in 1..(n - 1) |-> YOf(f)[i]]
        /\ X2Of(f) = [i \in 1..(n - 1) |-> X2Of(f)[i]]
        /\ Y2Of(f) = [i \in 1..(n - 1) |-> Y2Of(f)[i]]
        /\ XYOf(f) = [i \in 1..(n - 1) |-> XYOf(f)[i]]
    BY DEF XOf, YOf, X2Of, Y2Of, XYOf
  <2>. HIDE DEF n
  <2>. QED
    BY <1>2, <2>1, SumWhole
<1>4. Finalize(StateOf(f, n)) = Finalize(w)
  <2>. DEFINE st == StateOf(f, n)
  <2>1. /\ st.n = n /\ st.counts = w.counts /\ st.pairs = PairsIn(n)
        /\ st.x = SumTo(XOf(f), PairsIn(n)) /\ st.y = SumTo(YOf(f), PairsIn(n))
        /\ st.x2 = SumTo(X2Of(f), PairsIn(n)) /\ st.y2 = SumTo(Y2Of(f), PairsIn(n))
        /\ st.xy = SumTo(XYOf(f), PairsIn(n))
    BY DEF StateOf
  <2>2. /\ w.n = n /\ w.pairs = n - 1 /\ w.x = SumFunction(XOf(f)) /\ w.y = SumFunction(YOf(f))
        /\ w.x2 = SumFunction(X2Of(f)) /\ w.y2 = SumFunction(Y2Of(f))
        /\ w.xy = SumFunction(XYOf(f))
    OBVIOUS
  <2>3. /\ st.n = w.n /\ st.counts = w.counts /\ st.pairs = w.pairs /\ st.x = w.x /\ st.y = w.y
        /\ st.x2 = w.x2 /\ st.y2 = w.y2 /\ st.xy = w.xy
    <3>. HIDE DEF st, w, n
    <3>. QED
      BY <1>2, <1>3, <2>1, <2>2
  <2>. HIDE DEF st, w
  <2>4. Finalize(st) = Finalize(w)
    BY <2>3, FinalizeOf
  <2>. QED
    BY <2>4 DEF st
<1>. QED
  BY <1>1, <1>4 DEF n
------------------------------------------------------------------------------
(* What the program holds at each moment. *)

TypeOK ==
    /\ slices \in [1..Runs -> [1..RunBytes -> Values]]
    /\ phase \in {"aggregate", "run", "window", "compare", "done"}
    /\ phase \in {"aggregate", "run", "window"} => run \in 1..Runs
    /\ phase \in {"compare", "done"} => run \in 1..(Pairs + 1)
    /\ offset \in 0..(IF phase = "aggregate" THEN Runs * RunBytes ELSE RunBytes)

\* How many rows of runs there are.
RunsMeasured ==
    IF phase = "aggregate" THEN 0
    ELSE IF phase = "run" THEN run - 1
    ELSE IF phase = "window" THEN run
    ELSE Runs

RunRowsOf(n) == [r \in 1..n |-> WholeFile(slices[r])]

\* The sums are those of the bytes read, and the rows those of their files.
ReadInv ==
    /\ phase = "aggregate" => run = 1
    /\ phase \in {"aggregate", "run"} => state = StateOf(CurrentFile, offset)
    /\ phase # "aggregate" => aggregate = WholeFile(AggregateFile)
    /\ runRows = RunRowsOf(RunsMeasured)

\* The bytes in the window at an offset.
WindowSize(o) == IF WindowBytes <= RunBytes - o THEN WindowBytes ELSE RunBytes - o

WindowMetrics(r, o) == WholeFile(Chunk(slices[r], o, WindowSize(o)))

WindowRow ==
    [run : 1..Runs, window : Nat, offset : 0..(RunBytes - 1),
     metrics : {WindowMetrics(r, o) : r \in 1..Runs, o \in 0..(RunBytes - 1)}]

\* The rows of a run.
RowsOfRun(r) == {k \in 1..Len(windowRows) : windowRows[k].run = r}

Ends(w) == w.offset + WindowSize(w.offset)

\* A row follows the one before it in the run, or starts the next run.
Follows(v, w) ==
    \/ w.run = v.run /\ w.window = v.window + 1 /\ w.offset = Ends(v)
    \/ w.run > v.run /\ Ends(v) = RunBytes

\* The windows read: every one where the one before ended.
WindowInv ==
    /\ windowRows \in Seq(WindowRow)
    /\ \A k \in 1..Len(windowRows) :
          LET w == windowRows[k]
          IN  /\ w.metrics = WindowMetrics(w.run, w.offset)
              /\ w.window = 0 <=> w.offset = 0
    /\ \A j, k \in 1..Len(windowRows) :
          j < k => \/ windowRows[j].run < windowRows[k].run
                   \/ /\ windowRows[j].run = windowRows[k].run
                      /\ windowRows[j].window < windowRows[k].window
    /\ \A k \in 1..(Len(windowRows) - 1) : Follows(windowRows[k], windowRows[k + 1])

\* Where the reading of windows is: in a run whose last window ends here, or
\* between two runs.
WindowAt ==
    LET n == Len(windowRows)
    IN  IF phase = "window" /\ offset > 0
        THEN /\ n > 0
             /\ windowRows[n].run = run
             /\ Ends(windowRows[n]) = offset
             /\ windowRows[n].window + 1 = Cardinality(RowsOfRun(run))
        ELSE /\ n > 0 => Ends(windowRows[n]) = RunBytes
             /\ phase \in {"aggregate", "run", "window"} =>
                   \A k \in 1..n : windowRows[k].run < run

\* The comparison of two files up to a byte.
Distances(f, g) == [i \in 1..RunBytes |-> DifferingBits(f[i], g[i])]

PairOf(f, g, k) ==
    [compared |-> k, equal |-> Cardinality({i \in 1..k : f[i] = g[i]}),
     differing |-> SumTo(Distances(f, g), k)]

LeftOf(k) == IF k < Runs THEN k ELSE 1
RightOf(k) == IF k < Runs THEN k + 1 ELSE Runs

AdjacentRow(k) ==
    LET p == PairOf(slices[LeftOf(k)], slices[RightOf(k)], RunBytes)
    IN  [left |-> LeftOf(k), right |-> RightOf(k), compared |-> p.compared,
         equal |-> p.equal, differing |-> p.differing]

AdjacentRows(n) == [k \in 1..n |-> AdjacentRow(k)]

PairsCompared ==
    IF phase = "compare" THEN run - 1
    ELSE IF phase = "done" THEN Pairs
    ELSE 0

\* The comparison is of the bytes read of both files, and the rows are of whole
\* files.
CompareInv ==
    /\ phase = "compare" /\ run <= Pairs =>
          pair = PairOf(slices[LeftOf(run)], slices[RightOf(run)], offset)
    /\ phase \notin {"compare", "done"} => pair = [compared |-> 0, equal |-> 0, differing |-> 0]
    /\ adjacent = AdjacentRows(PairsCompared)

\* The summary is of the rows.
SummaryInv ==
    phase = "done" =>
        /\ summary.unique = Cardinality({slices[r] : r \in 1..Runs})
        /\ summary.duplicates = DuplicateRunGroups(slices)
        /\ summary.duplicatePrefix = DuplicateRunGroups([r \in 1..Runs |-> Prefix(slices[r])])
        /\ summary.perRun = StatRange([r \in 1..Runs |-> runRows[r].ones])
        /\ summary.firstWindows = FirstWindows(windowRows)
        /\ summary.lastWindows = LastWindows(windowRows)
        /\ summary.slope = Slope([r \in 1..Runs |-> runRows[r].ones])
        /\ summary.firstLast = FirstLast([r \in 1..Runs |-> runRows[r].ones])

\* The files are what they are of, and not empty.
LEMMA Files ==
    ASSUME TypeOK
    PROVE  /\ Runs \in Nat \ {0} /\ RunBytes \in Nat \ {0} /\ Runs * RunBytes \in Nat \ {0}
           /\ \A r \in 1..Runs : slices[r] \in Seq(Values) /\ Len(slices[r]) = RunBytes
           /\ AggregateFile \in Seq(Values) /\ Len(AggregateFile) = Runs * RunBytes
<1>1. Runs \in Nat \ {0} /\ RunBytes \in Nat \ {0}
  BY AnalysisAssumption
<1>2. Runs * RunBytes \in Nat \ {0}
  BY <1>1
<1>3. ASSUME NEW r \in 1..Runs
      PROVE  slices[r] \in Seq(Values) /\ Len(slices[r]) = RunBytes
  <2>1. slices[r] \in [1..RunBytes -> Values]
    BY DEF TypeOK
  <2>. QED
    BY <1>1, <2>1
<1>4. slices \in [1..Runs -> Seq(Values)]
  BY <1>3 DEF TypeOK
<1>5. FlattenSeq(slices) \in Seq(Values) /\ Len(FlattenSeq(slices)) = Runs * RunBytes
  BY <1>1, <1>3, <1>4, FlattenBlocks
<1>. QED
  BY <1>1, <1>2, <1>3, <1>5 DEF AggregateFile

\* The file that is read.
LEMMA CurrentIs ==
    ASSUME TypeOK, phase \in {"aggregate", "run"}
    PROVE  /\ CurrentFile \in Seq(Values) /\ Len(CurrentFile) # 0
           /\ Len(CurrentFile) = IF phase = "aggregate" THEN Runs * RunBytes ELSE RunBytes
           /\ offset \in 0..Len(CurrentFile)
<1>1. CASE phase = "aggregate"
  BY <1>1, Files DEF CurrentFile, TypeOK
<1>2. CASE phase = "run"
  <2>1. run \in 1..Runs /\ CurrentFile = slices[run] /\ offset \in 0..RunBytes
    BY <1>2 DEF CurrentFile, TypeOK
  <2>. QED
    BY <1>2, <2>1, Files
<1>. QED
  BY <1>1, <1>2

\* One chunk or window.
LEMMA PieceIs ==
    ASSUME NEW size \in Nat \ {0}, NEW n \in Nat, NEW o \in 0..n, o < n
    PROVE  /\ Min({size, n - o}) = IF size <= n - o THEN size ELSE n - o
           /\ Min({size, n - o}) \in 1..(n - o)
<1>1. n - o \in Nat \ {0}
  OBVIOUS
<1>2. Min({size, n - o}) = IF size <= n - o THEN size ELSE n - o
  BY <1>1, MinOfTwo
<1>. QED
  BY <1>1, <1>2

\* What reading a chunk does.
LEMMA ChunkRead ==
    ASSUME TypeOK, ReadChunk
    PROVE  \E size \in 1..(Len(CurrentFile) - offset) :
              /\ state' = Update(Chunk(CurrentFile, offset, size), state)
              /\ offset' = offset + size
<1>. DEFINE f == CurrentFile
            size == Min({ChunkBytes, Len(f) - offset})
<1>1. f \in Seq(Values) /\ offset \in 0..Len(f) /\ offset < Len(f) /\ Len(f) \in Nat
  BY CurrentIs DEF ReadChunk
<1>2. size \in 1..(Len(f) - offset)
  <2>1. ChunkBytes \in Nat \ {0}
    BY AnalysisAssumption
  <2>. HIDE DEF f
  <2>. QED
    BY <1>1, <2>1, PieceIs
<1>3. state' = Update(Chunk(f, offset, size), state) /\ offset' = offset + Len(Chunk(f, offset, size))
  BY DEF ReadChunk
<1>. HIDE DEF f, size
<1>4. Len(Chunk(f, offset, size)) = size
  <2>1. size \in 0..(Len(f) - offset)
    BY <1>2
  <2>. QED
    BY <1>1, <2>1, ChunkIs
<1>. QED
  BY <1>2, <1>3, <1>4 DEF f

\* The window that is read.
LEMMA WindowRead ==
    ASSUME TypeOK, ReadWindow
    PROVE  /\ WindowSize(offset) \in 1..(RunBytes - offset)
           /\ Len(Chunk(slices[run], offset, WindowSize(offset))) = WindowSize(offset)
           /\ Chunk(slices[run], offset, WindowSize(offset)) \in Seq(Values)
           /\ offset' = offset + WindowSize(offset)
           /\ windowRows' =
                 Append(windowRows, [run |-> run, window |-> Cardinality(RowsOfRun(run)),
                                     offset |-> offset,
                                     metrics |-> WindowMetrics(run, offset)])
<1>. DEFINE f == slices[run]
            size == WindowSize(offset)
            d == Chunk(f, offset, size)
<1>1. f \in Seq(Values) /\ Len(f) = RunBytes /\ offset \in 0..RunBytes /\ offset < RunBytes
      /\ RunBytes \in Nat /\ WindowBytes \in Nat \ {0}
  BY Files, AnalysisAssumption DEF ReadWindow, TypeOK
<1>2. Min({WindowBytes, RunBytes - offset}) = size /\ size \in 1..(RunBytes - offset)
  BY <1>1, PieceIs DEF WindowSize
<1>. HIDE DEF size
<1>3. d \in Seq(Values) /\ Len(d) = size /\ \A i \in 1..size : d[i] = f[offset + i]
  <2>1. size \in 0..(Len(f) - offset) /\ offset \in 0..Len(f)
    BY <1>1, <1>2
  <2>. HIDE DEF f
  <2>. QED
    BY <1>1, <2>1, ChunkIs
<1>4. Finalize(Update(d, EmptyState)) = WholeFile(d)
  <2>. HIDE DEF d
  <2>1. EmptyState = StateOf(d, 0)
    BY <1>3, EmptyIsState
  <2>2. Chunk(d, 0, size) = d
    <3>1. 0 \in 0..Len(d) /\ size \in 0..(Len(d) - 0)
      BY <1>2, <1>3
    <3>2. /\ Chunk(d, 0, size) \in Seq(Values) /\ Len(Chunk(d, 0, size)) = size
          /\ \A i \in 1..size : Chunk(d, 0, size)[i] = d[0 + i]
      BY <1>3, <3>1, ChunkIs
    <3>3. \A i \in 1..size : d[0 + i] = d[i]
      OBVIOUS
    <3>. HIDE DEF Chunk
    <3>. QED
      BY <1>3, <3>2, <3>3
  <2>3. Update(Chunk(d, 0, size), StateOf(d, 0)) = StateOf(d, 0 + size)
    <3>1. 0 \in 0..(Len(d) - 1) /\ size \in 1..(Len(d) - 0)
      BY <1>2, <1>3
    <3>. QED
      BY <1>3, <3>1, UpdateGoesOn
  <2>4. 0 + size = Len(d) /\ Len(d) # 0
    BY <1>2, <1>3
  <2>5. Finalize(StateOf(d, Len(d))) = WholeFile(d)
    BY <1>3, <2>4, WholeFileIs
  <2>. QED
    BY <2>1, <2>2, <2>3, <2>4, <2>5
<1>5. /\ windowRows' = Append(windowRows,
            [run |-> run, window |-> Cardinality(RowsOfRun(run)), offset |-> offset,
             metrics |-> Finalize(Update(d, EmptyState))])
      /\ offset' = offset + Len(d)
  BY <1>2 DEF ReadWindow, WindowState, RowsOfRun
<1>6. WholeFile(d) = WindowMetrics(run, offset)
  BY DEF WindowMetrics, size
<1>. QED
  BY <1>2, <1>3, <1>4, <1>5, <1>6 DEF size

LEMMA TypeInit == AnalysisInit => TypeOK
<1>1. Runs \in Nat \ {0} /\ RunBytes \in Nat \ {0} /\ Runs * RunBytes \in Nat
  BY AnalysisAssumption
<1>. QED
  BY <1>1 DEF AnalysisInit, TypeOK

\* A step keeps the types.
LEMMA TypeStep == TypeOK /\ [AnalysisNext]_analysisVars => TypeOK'
<1>. SUFFICES ASSUME TypeOK, [AnalysisNext]_analysisVars
              PROVE  TypeOK'
  OBVIOUS
<1>0. /\ Runs \in Nat \ {0} /\ RunBytes \in Nat \ {0} /\ Runs * RunBytes \in Nat \ {0}
      /\ Pairs \in 0..Runs
  BY Files DEF Pairs
<1>t. /\ slices \in [1..Runs -> [1..RunBytes -> Values]]
      /\ phase \in {"aggregate", "run", "window", "compare", "done"}
      /\ phase \in {"aggregate", "run", "window"} => run \in 1..Runs
      /\ phase \in {"compare", "done"} => run \in 1..(Pairs + 1)
      /\ offset \in 0..(IF phase = "aggregate" THEN Runs * RunBytes ELSE RunBytes)
  BY DEF TypeOK
<1>p. Pairs' = Pairs
  BY DEF Pairs
<1>1. CASE ReadChunk
  <2>1. PICK size \in 1..(Len(CurrentFile) - offset) : offset' = offset + size
    BY <1>1, ChunkRead
  <2>2. Len(CurrentFile) = (IF phase = "aggregate" THEN Runs * RunBytes ELSE RunBytes)
    BY <1>1, CurrentIs DEF ReadChunk
  <2>3. slices' = slices /\ phase' = phase /\ run' = run
    BY <1>1 DEF ReadChunk
  <2>. QED
    BY <1>0, <1>t, <1>p, <2>1, <2>2, <2>3 DEF TypeOK
<1>2. CASE FileRead
  <2>1. /\ slices' = slices /\ run' = run /\ offset' = 0 /\ phase' \in {"run", "window"}
        /\ phase \in {"aggregate", "run"}
    BY <1>2 DEF FileRead
  <2>. QED
    BY <1>0, <1>t, <1>p, <2>1 DEF TypeOK
<1>3. CASE ReadWindow
  <2>1. /\ slices' = slices /\ run' = run /\ phase' = phase /\ phase = "window"
        /\ offset' = offset + WindowSize(offset) /\ WindowSize(offset) \in 1..(RunBytes - offset)
    BY <1>3, WindowRead DEF ReadWindow
  <2>. QED
    BY <1>0, <1>t, <1>p, <2>1 DEF TypeOK
<1>4. CASE WindowsRead
  <2>1. /\ slices' = slices /\ offset' = 0 /\ phase = "window"
        /\ \/ run < Runs /\ run' = run + 1 /\ phase' = "run"
           \/ run' = 1 /\ phase' = "compare"
    BY <1>4 DEF WindowsRead
  <2>. QED
    BY <1>0, <1>t, <1>p, <2>1 DEF TypeOK
<1>5. CASE CompareChunk
  <2>. DEFINE size == Min({ChunkBytes, RunBytes - offset})
  <2>1. /\ slices' = slices /\ phase' = phase /\ phase = "compare" /\ run' = run
        /\ offset' = offset + size /\ offset < RunBytes
    BY <1>5 DEF CompareChunk
  <2>2. size \in 1..(RunBytes - offset)
    BY <1>0, <1>t, <2>1, AnalysisAssumption, PieceIs
  <2>. HIDE DEF size
  <2>. QED
    BY <1>0, <1>t, <1>p, <2>1, <2>2 DEF TypeOK
<1>6. CASE PairCompared
  <2>1. /\ slices' = slices /\ phase' = phase /\ phase = "compare" /\ run' = run + 1
        /\ run <= Pairs /\ offset' = 0
    BY <1>6 DEF PairCompared
  <2>. QED
    BY <1>0, <1>t, <1>p, <2>1 DEF TypeOK
<1>7. CASE Summarize
  <2>1. slices' = slices /\ phase' = "done" /\ phase = "compare" /\ run' = run /\ offset' = offset
    BY <1>7 DEF Summarize
  <2>. QED
    BY <1>0, <1>t, <1>p, <2>1 DEF TypeOK
<1>8. CASE UNCHANGED analysisVars
  BY <1>8, <1>t, <1>p DEF TypeOK, analysisVars
<1>. QED
  BY <1>1, <1>2, <1>3, <1>4, <1>5, <1>6, <1>7, <1>8 DEF AnalysisNext

\* Every reachable state of the analysis has its type: no read leaves its file,
\* and run numbers stay with the slices of the manifest.
THEOREM AnalysisTypeCorrect == AnalysisSpec => []TypeOK
BY TypeInit, TypeStep, PTL DEF AnalysisSpec

------------------------------------------------------------------------------
(* The metrics of the files. *)

\* Rows are added one at a time.
LEMMA RunRowsGrow ==
    ASSUME NEW n \in Nat
    PROVE  /\ RunRowsOf(0) = <<>>
           /\ Append(RunRowsOf(n), WholeFile(slices[n + 1])) = RunRowsOf(n + 1)
           /\ Len(RunRowsOf(n)) = n
           /\ \A r \in 1..n : RunRowsOf(n)[r] = WholeFile(slices[r])
<1>. DEFINE S == {WholeFile(slices[r]) : r \in Nat}
            W(r) == WholeFile(slices[r])
<1>1. \A r \in Nat : W(r) \in S
  OBVIOUS
<1>. HIDE DEF S, W
<1>2. [r \in 1..n |-> W(r)] \in Seq(S) /\ [r \in 1..(n + 1) |-> W(r)] \in Seq(S)
  BY <1>1
<1>3. Append([r \in 1..n |-> W(r)], W(n + 1)) = [r \in 1..(n + 1) |-> W(r)]
  BY <1>1, <1>2
<1>4. [r \in 1..0 |-> W(r)] = <<>>
  OBVIOUS
<1>5. Len([r \in 1..n |-> W(r)]) = n
  OBVIOUS
<1>. QED
  BY <1>3, <1>4, <1>5 DEF RunRowsOf, W

LEMMA ReadInit == AnalysisInit => ReadInv
<1>. SUFFICES ASSUME AnalysisInit
              PROVE  ReadInv
  OBVIOUS
<1>1. TypeOK /\ phase = "aggregate" /\ run = 1 /\ offset = 0 /\ state = EmptyState /\ runRows = <<>>
  BY TypeInit DEF AnalysisInit
<1>2. EmptyState = StateOf(CurrentFile, 0)
  BY <1>1, CurrentIs, EmptyIsState
<1>3. RunsMeasured = 0 /\ RunRowsOf(0) = <<>>
  BY <1>1, RunRowsGrow DEF RunsMeasured
<1>. QED
  BY <1>1, <1>2, <1>3 DEF ReadInv

\* A step keeps the sums those of the bytes read.
LEMMA ReadStep == TypeOK /\ ReadInv /\ [AnalysisNext]_analysisVars => ReadInv'
<1>. SUFFICES ASSUME TypeOK, ReadInv, [AnalysisNext]_analysisVars
              PROVE  ReadInv'
  OBVIOUS
<1>0. /\ phase = "aggregate" => run = 1
      /\ phase \in {"aggregate", "run"} => state = StateOf(CurrentFile, offset)
      /\ phase # "aggregate" => aggregate = WholeFile(AggregateFile)
      /\ runRows = RunRowsOf(RunsMeasured)
  BY DEF ReadInv
<1>t. TypeOK'
  BY TypeStep
<1>s. slices' = slices
  BY DEF AnalysisNext, ReadChunk, FileRead, ReadWindow, WindowsRead, CompareChunk, PairCompared,
         Summarize, analysisVars
<1>a. AggregateFile' = AggregateFile /\ \A n : RunRowsOf(n)' = RunRowsOf(n)
  BY <1>s DEF AggregateFile, RunRowsOf
<1>1. CASE ReadChunk
  <2>1. PICK size \in 1..(Len(CurrentFile) - offset) :
            state' = Update(Chunk(CurrentFile, offset, size), state) /\ offset' = offset + size
    BY <1>1, ChunkRead
  <2>2. phase' = phase /\ run' = run /\ aggregate' = aggregate /\ runRows' = runRows
        /\ phase \in {"aggregate", "run"} /\ offset < Len(CurrentFile)
    BY <1>1 DEF ReadChunk
  <2>3. CurrentFile' = CurrentFile
    BY <1>s, <1>a, <2>2 DEF CurrentFile
  <2>4. CurrentFile \in Seq(Values) /\ offset \in 0..(Len(CurrentFile) - 1)
    BY <2>2, CurrentIs
  <2>5. state' = StateOf(CurrentFile, offset')
    <3>. DEFINE f == CurrentFile
    <3>1. f \in Seq(Values) /\ offset \in 0..(Len(f) - 1) /\ size \in 1..(Len(f) - offset)
      BY <2>1, <2>4
    <3>. HIDE DEF f
    <3>2. Update(Chunk(f, offset, size), StateOf(f, offset)) = StateOf(f, offset + size)
      BY <3>1, UpdateGoesOn
    <3>. QED
      BY <1>0, <2>1, <2>2, <3>2 DEF f
  <2>6. RunsMeasured' = RunsMeasured
    BY <2>2 DEF RunsMeasured
  <2>. QED
    BY <1>0, <1>a, <2>2, <2>3, <2>5, <2>6 DEF ReadInv
<1>2. CASE FileRead
  <2>1. /\ phase \in {"aggregate", "run"} /\ offset = Len(CurrentFile)
        /\ state' = EmptyState /\ run' = run /\ offset' = 0
        /\ phase = "aggregate" =>
              aggregate' = Finalize(state) /\ phase' = "run" /\ runRows' = runRows
        /\ phase = "run" =>
              /\ runRows' = Append(runRows, Finalize(state))
              /\ phase' = "window" /\ aggregate' = aggregate
    BY <1>2 DEF FileRead
  <2>2. CurrentFile \in Seq(Values) /\ Len(CurrentFile) # 0
    BY <2>1, CurrentIs
  <2>3. Finalize(state) = WholeFile(CurrentFile)
    BY <1>0, <2>1, <2>2, WholeFileIs
  <2>4. CASE phase = "aggregate"
    <3>1. phase' = "run" /\ run' = 1 /\ run = 1 /\ aggregate' = WholeFile(AggregateFile)
      BY <1>0, <2>1, <2>3, <2>4 DEF CurrentFile
    <3>2. CurrentFile' \in Seq(Values)
      <4>1. run' \in 1..Runs /\ CurrentFile' = slices[run']
        BY <1>s, <1>t, <3>1 DEF TypeOK, CurrentFile
      <4>. QED
        BY <4>1, Files
    <3>3. state' = StateOf(CurrentFile', 0)
      BY <2>1, <3>2, EmptyIsState
    <3>4. RunsMeasured = 0 /\ RunsMeasured' = 0 /\ runRows' = runRows
      BY <2>1, <2>4, <3>1 DEF RunsMeasured
    <3>. QED
      BY <1>0, <1>a, <2>1, <3>1, <3>3, <3>4 DEF ReadInv
  <2>5. CASE phase = "run"
    <3>1. phase' = "window" /\ runRows' = Append(runRows, WholeFile(slices[run]))
          /\ aggregate' = aggregate
      BY <2>1, <2>3, <2>5 DEF CurrentFile
    <3>2. run \in 1..Runs /\ run \in Int /\ run - 1 \in Nat
      BY <2>5, Files DEF TypeOK
    <3>3. RunsMeasured = run - 1 /\ RunsMeasured' = run /\ (run - 1) + 1 = run
      BY <2>1, <2>5, <3>1, <3>2 DEF RunsMeasured
    <3>4. runRows' = RunRowsOf(run)
      BY <1>0, <3>1, <3>2, <3>3, RunRowsGrow
    <3>. QED
      BY <1>0, <1>a, <2>5, <3>1, <3>3, <3>4 DEF ReadInv
  <2>. QED
    BY <2>1, <2>4, <2>5
<1>3. CASE WindowsRead
  <2>1. /\ phase = "window" /\ state' = EmptyState /\ offset' = 0
        /\ runRows' = runRows /\ aggregate' = aggregate
        /\ \/ run < Runs /\ run' = run + 1 /\ phase' = "run"
           \/ ~ (run < Runs) /\ run' = 1 /\ phase' = "compare"
    BY <1>3 DEF WindowsRead
  <2>2. phase' = "run" => state' = StateOf(CurrentFile', 0)
    <3>. SUFFICES ASSUME phase' = "run"
                  PROVE  state' = StateOf(CurrentFile', 0)
      OBVIOUS
    <3>1. CurrentFile' \in Seq(Values)
      <4>1. run' \in 1..Runs /\ CurrentFile' = slices[run']
        BY <1>s, <1>t DEF TypeOK, CurrentFile
      <4>. QED
        BY <4>1, Files
    <3>. QED
      BY <2>1, <3>1, EmptyIsState
  <2>3. RunsMeasured' = RunsMeasured
    <3>1. run \in 1..Runs /\ Runs \in Nat
      BY <2>1, Files DEF TypeOK
    <3>. QED
      BY <2>1, <3>1 DEF RunsMeasured
  <2>. QED
    BY <1>0, <1>a, <2>1, <2>2, <2>3 DEF ReadInv
<1>4. CASE ReadWindow \/ CompareChunk \/ PairCompared \/ Summarize
  <2>1. /\ phase \in {"window", "compare"} /\ phase' \in {"window", "compare", "done"}
        /\ runRows' = runRows /\ aggregate' = aggregate
        /\ phase = "window" => phase' = "window" /\ run' = run
        /\ phase = "compare" => phase' \in {"compare", "done"}
    BY <1>4 DEF ReadWindow, CompareChunk, PairCompared, Summarize
  <2>2. RunsMeasured' = RunsMeasured
    BY <2>1 DEF RunsMeasured
  <2>. QED
    BY <1>0, <1>a, <2>1, <2>2 DEF ReadInv
<1>5. CASE UNCHANGED analysisVars
  <2>1. CurrentFile' = CurrentFile /\ RunsMeasured' = RunsMeasured
    BY <1>5, <1>a DEF CurrentFile, RunsMeasured, analysisVars
  <2>. QED
    BY <1>0, <1>5, <1>a, <2>1 DEF ReadInv, analysisVars
<1>. QED
  BY <1>1, <1>2, <1>3, <1>4, <1>5 DEF AnalysisNext

\* The metrics of the aggregate and of every run, for every dataset and every
\* chunk size, are those of the whole file: update_stats_from_bytes carries the
\* last byte of a chunk over to the next.
THEOREM ChunksAddUp == AnalysisSpec => []ChunksDoNotMatter
<1>1. AnalysisInit => TypeOK /\ ReadInv
  BY TypeInit, ReadInit
<1>2. TypeOK /\ ReadInv /\ [AnalysisNext]_analysisVars => (TypeOK /\ ReadInv)'
  BY TypeStep, ReadStep
<1>3. TypeOK /\ ReadInv => ChunksDoNotMatter
  <2>. SUFFICES ASSUME TypeOK, ReadInv
                PROVE  ChunksDoNotMatter
    OBVIOUS
  <2>1. RunsMeasured \in Nat
    BY Files DEF RunsMeasured, TypeOK
  <2>2. Len(runRows) = RunsMeasured /\ \A r \in 1..RunsMeasured : runRows[r] = WholeFile(slices[r])
    BY <2>1, RunRowsGrow DEF ReadInv
  <2>. QED
    BY <2>2 DEF ReadInv, ChunksDoNotMatter
<1>. QED
  BY <1>1, <1>2, <1>3, PTL DEF AnalysisSpec

------------------------------------------------------------------------------
(* The windows of the runs. *)

LEMMA WindowInit == AnalysisInit => WindowInv /\ WindowAt
<1>. SUFFICES ASSUME AnalysisInit
              PROVE  WindowInv /\ WindowAt
  OBVIOUS
<1>1. windowRows = <<>> /\ phase = "aggregate"
  BY DEF AnalysisInit
<1>2. Len(windowRows) = 0 /\ windowRows \in Seq(WindowRow)
  BY <1>1
<1>. QED
  BY <1>1, <1>2 DEF WindowInv, WindowAt

\* The parts of a row.
LEMMA RowTypes ==
    ASSUME TypeOK, windowRows \in Seq(WindowRow)
    PROVE  /\ Len(windowRows) \in Nat
           /\ \A k \in 1..Len(windowRows) :
                 /\ windowRows[k].run \in 1..Runs /\ windowRows[k].run \in Int
                 /\ windowRows[k].window \in Nat
                 /\ windowRows[k].offset \in 0..(RunBytes - 1)
<1>1. Len(windowRows) \in Nat /\ \A k \in 1..Len(windowRows) : windowRows[k] \in WindowRow
  OBVIOUS
<1>2. \A w \in WindowRow : w.run \in 1..Runs /\ w.window \in Nat /\ w.offset \in 0..(RunBytes - 1)
  BY DEF WindowRow
<1>3. \A r \in 1..Runs : r \in Int
  OBVIOUS
<1>. QED
  BY <1>1, <1>2, <1>3

\* What a window read adds to the rows.
LEMMA WindowAdded ==
    ASSUME TypeOK, WindowInv, WindowAt, phase = "window", offset < RunBytes,
           WindowSize(offset) \in 1..(RunBytes - offset),
           NEW w, w = [run |-> run, window |-> Cardinality(RowsOfRun(run)), offset |-> offset,
                       metrics |-> WindowMetrics(run, offset)]
    PROVE  /\ w \in WindowRow
           /\ w.window = 0 <=> offset = 0
           /\ \A k \in 1..Len(windowRows) :
                 \/ windowRows[k].run < run
                 \/ windowRows[k].run = run /\ windowRows[k].window < w.window
           /\ Len(windowRows) > 0 => Follows(windowRows[Len(windowRows)], w)
<1>. DEFINE n == Len(windowRows)
<1>0. /\ windowRows \in Seq(WindowRow) /\ n \in Nat /\ Runs \in Nat \ {0} /\ RunBytes \in Nat \ {0}
      /\ run \in 1..Runs /\ offset \in 0..RunBytes /\ offset \in 0..(RunBytes - 1)
  BY Files DEF WindowInv, TypeOK
<1>1. \A k \in 1..n : windowRows[k].run \in Int /\ windowRows[k].window \in Nat
  BY <1>0, RowTypes
<1>2. IsFiniteSet(RowsOfRun(run)) /\ Cardinality(RowsOfRun(run)) \in Nat
  <2>1. IsFiniteSet(1..n) /\ RowsOfRun(run) \in SUBSET (1..n)
    BY <1>0, CountUp DEF RowsOfRun
  <2>2. IsFiniteSet(RowsOfRun(run))
    BY <2>1, FS_Subset
  <2>. QED
    BY <2>2, FS_CardinalityType
<1>3. /\ w.run = run /\ w.window = Cardinality(RowsOfRun(run)) /\ w.offset = offset
      /\ w.metrics = WindowMetrics(run, offset)
  OBVIOUS
<1>4. w \in WindowRow
  BY <1>0, <1>2 DEF WindowRow
<1>5. CASE offset = 0
  <2>1. /\ n > 0 => Ends(windowRows[n]) = RunBytes
        /\ \A k \in 1..n : windowRows[k].run < run
    BY <1>5 DEF WindowAt
  <2>2. RowsOfRun(run) = {}
    BY <1>0, <1>1, <2>1 DEF RowsOfRun
  <2>3. w.window = 0
    BY <1>3, <2>2, FS_EmptySet
  <2>. QED
    BY <1>0, <1>1, <1>3, <1>4, <1>5, <2>1, <2>3 DEF Follows
<1>6. CASE offset # 0
  <2>1. /\ n > 0 /\ windowRows[n].run = run /\ Ends(windowRows[n]) = offset
        /\ windowRows[n].window + 1 = Cardinality(RowsOfRun(run))
    BY <1>0, <1>6 DEF WindowAt
  <2>2. n \in 1..n /\ windowRows[n].window \in Nat
    BY <1>0, <1>1, <2>1
  <2>3. ASSUME NEW k \in 1..n
        PROVE  \/ windowRows[k].run < run
               \/ windowRows[k].run = run /\ windowRows[k].window < w.window
    <3>1. CASE k = n
      BY <1>3, <2>1, <2>2, <3>1
    <3>2. CASE k # n
      <4>1. k < n
        BY <1>0, <3>2
      <4>2. \/ windowRows[k].run < windowRows[n].run
            \/ windowRows[k].run = windowRows[n].run /\ windowRows[k].window < windowRows[n].window
        BY <2>2, <4>1 DEF WindowInv
      <4>3. windowRows[k].run \in Int /\ windowRows[k].window \in Nat
        BY <1>1
      <4>. QED
        BY <1>3, <2>1, <2>2, <4>2, <4>3
    <3>. QED
      BY <3>1, <3>2
  <2>4. Follows(windowRows[n], w)
    BY <1>3, <2>1 DEF Follows
  <2>. QED
    BY <1>2, <1>3, <1>4, <1>6, <2>1, <2>2, <2>3, <2>4
<1>. QED
  BY <1>5, <1>6

\* A step keeps the windows one after the other.
LEMMA WindowStep ==
    TypeOK /\ WindowInv /\ WindowAt /\ [AnalysisNext]_analysisVars => (WindowInv /\ WindowAt)'
<1>. SUFFICES ASSUME TypeOK, WindowInv, WindowAt, [AnalysisNext]_analysisVars
              PROVE  WindowInv' /\ WindowAt'
  OBVIOUS
<1>s. slices' = slices
  BY DEF AnalysisNext, ReadChunk, FileRead, ReadWindow, WindowsRead, CompareChunk, PairCompared,
         Summarize, analysisVars
<1>0. /\ RunBytes \in Nat \ {0} /\ Runs \in Nat \ {0} /\ run \in Int
      /\ offset \in Nat
  BY Files DEF TypeOK, Pairs
<1>r. WindowRow' = WindowRow /\ \A r, o : WindowMetrics(r, o)' = WindowMetrics(r, o)
  BY <1>s DEF WindowRow, WindowMetrics
<1>1. CASE ReadWindow
  <2>. DEFINE w == [run |-> run, window |-> Cardinality(RowsOfRun(run)), offset |-> offset,
                    metrics |-> WindowMetrics(run, offset)]
              n == Len(windowRows)
  <2>1. /\ WindowSize(offset) \in 1..(RunBytes - offset)
        /\ offset' = offset + WindowSize(offset)
        /\ windowRows' = Append(windowRows, w)
        /\ phase = "window" /\ phase' = "window" /\ run' = run /\ offset < RunBytes
    BY <1>1, WindowRead DEF ReadWindow
  <2>2. /\ w.run = run /\ w.window = Cardinality(RowsOfRun(run)) /\ w.offset = offset
        /\ w.metrics = WindowMetrics(run, offset)
    OBVIOUS
  <2>3. /\ w \in WindowRow
        /\ w.window = 0 <=> offset = 0
        /\ \A k \in 1..n :
              \/ windowRows[k].run < run
              \/ windowRows[k].run = run /\ windowRows[k].window < w.window
        /\ n > 0 => Follows(windowRows[n], w)
    BY <2>1, WindowAdded
  <2>4. windowRows \in Seq(WindowRow)
    BY DEF WindowInv
  <2>. HIDE DEF w
  <2>5. /\ n \in Nat /\ Len(windowRows') = n + 1 /\ windowRows'[n + 1] = w
        /\ windowRows' \in Seq(WindowRow)
        /\ \A k \in 1..n : windowRows'[k] = windowRows[k]
    BY <2>1, <2>3, <2>4
  <2>. HIDE DEF n
  <2>6. WindowInv'
    <3>1. windowRows' \in Seq(WindowRow')
      BY <1>r, <2>5
    <3>2. ASSUME NEW k \in 1..(n + 1)
          PROVE  /\ windowRows'[k].metrics
                    = WindowMetrics(windowRows'[k].run, windowRows'[k].offset)
                 /\ windowRows'[k].window = 0 <=> windowRows'[k].offset = 0
      <4>1. CASE k = n + 1
        BY <2>2, <2>3, <2>5, <4>1
      <4>2. CASE k \in 1..n
        <5>1. /\ windowRows[k].metrics = WindowMetrics(windowRows[k].run, windowRows[k].offset)
              /\ windowRows[k].window = 0 <=> windowRows[k].offset = 0
          BY <4>2 DEF WindowInv, n
        <5>. QED
          BY <2>5, <4>2, <5>1
      <4>. QED
        BY <2>5, <4>1, <4>2
    <3>3. ASSUME NEW j \in 1..(n + 1), NEW k \in 1..(n + 1), j < k
          PROVE  \/ windowRows'[j].run < windowRows'[k].run
                 \/ /\ windowRows'[j].run = windowRows'[k].run
                    /\ windowRows'[j].window < windowRows'[k].window
      <4>1. CASE k = n + 1
        <5>1. j \in 1..n
          BY <2>5, <3>3, <4>1
        <5>. QED
          BY <2>2, <2>3, <2>5, <4>1, <5>1
      <4>2. CASE k \in 1..n
        <5>1. j \in 1..n
          BY <2>5, <3>3, <4>2
        <5>. QED
          BY <2>5, <3>3, <4>2, <5>1 DEF WindowInv, n
      <4>. QED
        BY <2>5, <4>1, <4>2
    <3>4. ASSUME NEW k \in 1..n
          PROVE  Follows(windowRows'[k], windowRows'[k + 1])
      <4>1. CASE k = n
        BY <2>3, <2>5, <4>1
      <4>2. CASE k \in 1..(n - 1)
        <5>1. Follows(windowRows[k], windowRows[k + 1]) /\ k + 1 \in 1..n
          BY <2>5, <4>2 DEF WindowInv, n
        <5>. QED
          BY <2>5, <4>2, <5>1
      <4>. QED
        BY <2>5, <4>1, <4>2
    <3>5. \A v, x : Follows(v, x)' <=> Follows(v, x)
      BY DEF Follows, Ends, WindowSize
    <3>6. \A k \in 1..((n + 1) - 1) : Follows(windowRows[k], windowRows[k + 1])'
      <4>1. (n + 1) - 1 = n
        BY <2>5
      <4>. QED
        BY <3>4, <4>1 DEF Follows, Ends, WindowSize
    <3>7. \A k \in 1..(n + 1) :
              /\ (windowRows[k].metrics = WindowMetrics(windowRows[k].run, windowRows[k].offset))'
              /\ windowRows'[k].window = 0 <=> windowRows'[k].offset = 0
      BY <1>s, <3>2 DEF WindowMetrics, WindowSize
    <3>. QED
      BY <2>5, <3>1, <3>3, <3>6, <3>7 DEF WindowInv
  <2>7. WindowAt'
    <3>1. RowsOfRun(run)' = RowsOfRun(run) \cup {n + 1}
      <4>1. 1..(n + 1) = (1..n) \cup {n + 1}
        BY <2>5
      <4>. QED
        BY <2>1, <2>2, <2>5, <4>1 DEF RowsOfRun, n
    <3>2. IsFiniteSet(RowsOfRun(run)) /\ n + 1 \notin RowsOfRun(run)
      <4>1. IsFiniteSet(1..n) /\ RowsOfRun(run) \in SUBSET (1..n)
        BY <2>5, CountUp DEF RowsOfRun, n
      <4>2. n + 1 \notin 1..n
        BY <2>5
      <4>. QED
        BY <4>1, <4>2, FS_Subset
    <3>3. Cardinality(RowsOfRun(run)') = Cardinality(RowsOfRun(run)) + 1
      BY <3>1, <3>2, FS_AddElement
    <3>4. Ends(w) = offset' /\ offset' > 0
      BY <1>0, <2>1, <2>2 DEF Ends
    <3>5. Ends(windowRows'[n + 1]) = offset'
      BY <2>5, <3>4
    <3>. QED
      BY <2>1, <2>2, <2>5, <3>3, <3>4, <3>5 DEF WindowAt, Ends, WindowSize
  <2>. QED
    BY <2>6, <2>7
<1>2. ASSUME windowRows' = windowRows
      PROVE  WindowInv'
  <2>1. \A k \in 1..Len(windowRows) :
            /\ windowRows[k].metrics = WindowMetrics(windowRows[k].run, windowRows[k].offset)
            /\ windowRows[k].window = 0 <=> windowRows[k].offset = 0
    BY DEF WindowInv
  <2>. QED
    BY <1>2, <1>s, <1>r, <2>1 DEF WindowInv, WindowMetrics, Follows, Ends, WindowSize
<1>3. CASE WindowsRead
  <2>. DEFINE n == Len(windowRows)
  <2>1. /\ phase = "window" /\ offset = RunBytes /\ offset' = 0 /\ windowRows' = windowRows
        /\ \/ phase' = "run" /\ run' = run + 1
           \/ phase' = "compare"
    BY <1>3 DEF WindowsRead
  <2>2. n > 0 /\ windowRows[n].run = run /\ Ends(windowRows[n]) = RunBytes
    BY <1>0, <2>1 DEF WindowAt
  <2>3. ASSUME NEW k \in 1..n
        PROVE  windowRows[k].run < run + 1
    <3>1. windowRows \in Seq(WindowRow)
      BY DEF WindowInv
    <3>2. windowRows[k].run \in Int /\ windowRows[n].run \in Int /\ n \in Nat /\ n \in 1..n
      BY <2>2, <3>1, RowTypes
    <3>3. k = n \/ k < n
      BY <3>2
    <3>4. k < n => windowRows[k].run < windowRows[n].run \/ windowRows[k].run = windowRows[n].run
      BY <3>2 DEF WindowInv
    <3>. QED
      BY <1>0, <2>2, <3>2, <3>3, <3>4
  <2>4. WindowAt'
    BY <2>1, <2>2, <2>3 DEF WindowAt, Ends, WindowSize
  <2>. QED
    BY <1>2, <2>1, <2>4
<1>4. CASE FileRead
  <2>1. /\ phase \in {"aggregate", "run"} /\ offset' = 0 /\ run' = run /\ windowRows' = windowRows
        /\ phase' \in {"run", "window"}
    BY <1>4 DEF FileRead
  <2>2. WindowAt'
    BY <2>1 DEF WindowAt, Ends, WindowSize
  <2>. QED
    BY <1>2, <2>1, <2>2
<1>5. CASE ReadChunk
  <2>1. phase \in {"aggregate", "run"} /\ phase' = phase /\ run' = run /\ windowRows' = windowRows
    BY <1>5 DEF ReadChunk
  <2>2. WindowAt'
    BY <2>1 DEF WindowAt, Ends, WindowSize
  <2>. QED
    BY <1>2, <2>1, <2>2
<1>6. CASE CompareChunk \/ PairCompared \/ Summarize
  <2>1. phase = "compare" /\ phase' \in {"compare", "done"} /\ windowRows' = windowRows
    BY <1>6 DEF CompareChunk, PairCompared, Summarize
  <2>2. WindowAt'
    BY <2>1 DEF WindowAt, Ends, WindowSize
  <2>. QED
    BY <1>2, <2>1, <2>2
<1>7. CASE UNCHANGED analysisVars
  <2>1. WindowAt'
    BY <1>7 DEF WindowAt, Ends, WindowSize, RowsOfRun, analysisVars
  <2>. QED
    BY <1>2, <1>7, <2>1 DEF analysisVars
<1>. QED
  BY <1>1, <1>3, <1>4, <1>5, <1>6, <1>7 DEF AnalysisNext

\* The summary is written once, from the rows that stay as they are.
LEMMA SummaryStep == SummaryInv /\ [AnalysisNext]_analysisVars => SummaryInv'
<1>. SUFFICES ASSUME SummaryInv, [AnalysisNext]_analysisVars, phase' = "done"
              PROVE  SummaryInv'
  BY DEF SummaryInv
<1>1. CASE Summarize
  <2>1. slices' = slices /\ runRows' = runRows /\ windowRows' = windowRows
    BY <1>1 DEF Summarize
  <2>2. /\ summary'.unique = Cardinality({slices[r] : r \in 1..Runs})
        /\ summary'.duplicates = DuplicateRunGroups(slices)
        /\ summary'.duplicatePrefix = DuplicateRunGroups([r \in 1..Runs |-> Prefix(slices[r])])
        /\ summary'.perRun = StatRange([r \in 1..Runs |-> runRows[r].ones])
        /\ summary'.firstWindows = FirstWindows(windowRows)
        /\ summary'.lastWindows = LastWindows(windowRows)
        /\ summary'.slope = Slope([r \in 1..Runs |-> runRows[r].ones])
        /\ summary'.firstLast = FirstLast([r \in 1..Runs |-> runRows[r].ones])
    BY <1>1 DEF Summarize
  <2>. QED
    BY <2>1, <2>2 DEF SummaryInv
<1>2. CASE UNCHANGED analysisVars
  BY <1>2 DEF SummaryInv, analysisVars
<1>3. ASSUME ReadChunk \/ FileRead \/ ReadWindow \/ WindowsRead \/ CompareChunk \/ PairCompared
      PROVE  FALSE
  BY <1>3 DEF ReadChunk, FileRead, ReadWindow, WindowsRead, CompareChunk, PairCompared
<1>. QED
  BY <1>1, <1>2, <1>3 DEF AnalysisNext

\* The row of the last window of a run is the last of its rows, and has the
\* greatest number.
LEMMA LastOfRun ==
    ASSUME TypeOK, WindowInv, NEW k \in 1..Len(windowRows)
    PROVE  \E m \in 1..Len(windowRows) :
              /\ windowRows[m].run = windowRows[k].run
              /\ \A j \in 1..Len(windowRows) :
                    windowRows[j].run = windowRows[k].run =>
                        j <= m /\ (windowRows[j].window = windowRows[m].window => j = m)
              /\ Max({row.window : row \in {x \in Range(windowRows) : x.run = windowRows[k].run}})
                 = windowRows[m].window
<1>. DEFINE n == Len(windowRows)
            r == windowRows[k].run
            K == {j \in 1..n : windowRows[j].run = r}
            S == {row.window : row \in {x \in Range(windowRows) : x.run = r}}
<1>1. /\ windowRows \in Seq(WindowRow) /\ n \in Nat
      /\ \A j \in 1..n : windowRows[j].run \in Int /\ windowRows[j].window \in Nat
  BY RowTypes DEF WindowInv
<1>2. \A i, j \in 1..n : i < j => \/ windowRows[i].run < windowRows[j].run
                                  \/ /\ windowRows[i].run = windowRows[j].run
                                     /\ windowRows[i].window < windowRows[j].window
  BY DEF WindowInv
<1>3. k \in K /\ K \in SUBSET Nat /\ \A j \in K : j <= n
  BY <1>1
<1>4. PICK m \in K : \A j \in K : j <= m
  <2>. HIDE DEF K, n
  <2>. QED
    BY <1>1, <1>3, MaxOfBounded
<1>5. ASSUME NEW j \in 1..n, windowRows[j].run = r
      PROVE  /\ j <= m /\ windowRows[j].window <= windowRows[m].window
             /\ windowRows[j].window = windowRows[m].window => j = m
  <2>1. j \in K
    BY <1>5
  <2>2. j <= m /\ m \in 1..n /\ windowRows[m].run = r /\ j \in Int /\ m \in Int
    BY <1>4, <2>1
  <2>3. CASE j = m
    BY <1>1, <2>2, <2>3
  <2>4. CASE j < m
    <3>1. windowRows[j].window < windowRows[m].window
      BY <1>1, <1>2, <1>5, <2>2, <2>4
    <3>. QED
      BY <1>1, <2>2, <2>4, <3>1
  <2>. QED
    BY <2>2, <2>3, <2>4
<1>6. Max(S) = windowRows[m].window
  <2>1. Range(windowRows) = {windowRows[j] : j \in 1..n}
    BY <1>1 DEF Range
  <2>2. windowRows[m].window \in S /\ \A y \in S : y <= windowRows[m].window /\ y \in Nat
    BY <1>1, <1>4, <1>5, <2>1
  <2>. HIDE DEF S
  <2>3. windowRows[m].window \in Nat
    BY <1>1, <1>4
  <2>4. S \in SUBSET Nat /\ S # {} /\ \A y \in S : y <= windowRows[m].window
    BY <2>2
  <2>5. Max(S) \in S /\ \A y \in S : y <= Max(S)
    BY <2>3, <2>4, MaxOfBounded
  <2>6. \A a, b \in Nat : a <= b /\ b <= a => a = b
    OBVIOUS
  <2>. QED
    BY <2>2, <2>3, <2>5, <2>6
<1>7. m \in 1..n /\ windowRows[m].run = r
  BY <1>4
<1>. QED
  BY <1>5, <1>6, <1>7

LEMMA WholeFileBytes == ASSUME NEW f PROVE WholeFile(f).bytes = Len(f)
BY DEF WholeFile, Finalize

\* The windows of every run, for every window size and run length, partition it
\* in order; first and last windows are those of iter_windows' first and last
\* pass.
THEOREM WindowsCover == AnalysisSpec => []WindowsPartitionTheRun
<1>. DEFINE Inv == TypeOK /\ WindowInv /\ WindowAt /\ SummaryInv
<1>1. AnalysisInit => Inv
  <2>1. AnalysisInit => SummaryInv
    BY DEF AnalysisInit, SummaryInv
  <2>. QED
    BY <2>1, TypeInit, WindowInit
<1>2. Inv /\ [AnalysisNext]_analysisVars => Inv'
  BY TypeStep, WindowStep, SummaryStep
<1>3. Inv => WindowsPartitionTheRun
  <2>. SUFFICES ASSUME TypeOK, WindowInv, WindowAt, SummaryInv, NEW k \in 1..Len(windowRows)
                PROVE  LET w == windowRows[k]
                           end == w.offset + w.metrics.bytes
                           final == k = Len(windowRows) \/ windowRows[k + 1].run # w.run
                       IN  /\ end <= RunBytes
                           /\ w.metrics = WholeFile(Chunk(slices[w.run], w.offset, w.metrics.bytes))
                           /\ ~final => windowRows[k + 1].offset = end
                           /\ final /\ (phase # "window" \/ run # w.run) => end = RunBytes
                           /\ phase = "done" =>
                                 /\ (w \in summary.firstWindows) <=> w.offset = 0
                                 /\ (w \in summary.lastWindows) <=> final
    BY DEF WindowsPartitionTheRun
  <2>. DEFINE w == windowRows[k]
              n == Len(windowRows)
              end == w.offset + w.metrics.bytes
              final == k = n \/ windowRows[k + 1].run # w.run
  <2>1. /\ windowRows \in Seq(WindowRow) /\ n \in Nat /\ w.run \in 1..Runs
        /\ w.offset \in 0..(RunBytes - 1)
        /\ \A j \in 1..n : windowRows[j].run \in Int /\ windowRows[j].window \in Nat
    BY RowTypes DEF WindowInv
  <2>2. w.metrics = WindowMetrics(w.run, w.offset) /\ (w.window = 0 <=> w.offset = 0)
    BY DEF WindowInv
  <2>3. \A i, j \in 1..n : i < j => \/ windowRows[i].run < windowRows[j].run
                                    \/ /\ windowRows[i].run = windowRows[j].run
                                       /\ windowRows[i].window < windowRows[j].window
    BY DEF WindowInv
  <2>4. w.metrics.bytes = WindowSize(w.offset) /\ WindowSize(w.offset) \in 1..(RunBytes - w.offset)
        /\ RunBytes \in Nat
    <3>. DEFINE o == w.offset
                f == slices[w.run]
                size == WindowSize(o)
    <3>1. RunBytes \in Nat /\ WindowBytes \in Nat \ {0} /\ o \in 0..(RunBytes - 1)
      BY <2>1, AnalysisAssumption
    <3>2. size \in 1..(RunBytes - o)
      <4>. HIDE DEF o
      <4>. QED
        BY <3>1 DEF WindowSize
    <3>3. f \in Seq(Values) /\ Len(f) = RunBytes
      BY <2>1, Files
    <3>. HIDE DEF f, o, size
    <3>4. Len(Chunk(f, o, size)) = size
      <4>1. o \in 0..Len(f) /\ size \in 0..(Len(f) - o)
        BY <3>1, <3>2, <3>3
      <4>. QED
        BY <3>3, <4>1, ChunkIs
    <3>5. WholeFile(Chunk(f, o, size)).bytes = size
      BY <3>4, WholeFileBytes
    <3>6. w.metrics = WholeFile(Chunk(f, o, size))
      BY <2>2 DEF WindowMetrics, f, o, size
    <3>. QED
      BY <3>1, <3>2, <3>5, <3>6 DEF o, size
  <2>5. Ends(w) = end
    BY <2>4 DEF Ends
  <2>6. end <= RunBytes
    BY <2>1, <2>4
  <2>7. w.metrics = WholeFile(Chunk(slices[w.run], w.offset, w.metrics.bytes))
    BY <2>2, <2>4 DEF WindowMetrics
  <2>8. k # n => Follows(w, windowRows[k + 1])
    BY <2>1 DEF WindowInv
  <2>. HIDE DEF w, n, end
  <2>k. k \in 1..n /\ k \in Int /\ windowRows[k] = w
    BY <2>1 DEF w, n
  <2>9. ~final => windowRows[k + 1].offset = end
    <3>1. k + 1 \in 1..n \/ k = n
      BY <2>1, <2>k
    <3>. QED
      BY <2>1, <2>5, <2>8, <3>1 DEF Follows
  <2>10. final /\ (phase # "window" \/ run # w.run) => end = RunBytes
    <3>1. CASE k = n
      <4>1. phase # "window" \/ run # w.run => Ends(w) = RunBytes
        BY <2>1, <2>k, <3>1 DEF WindowAt, n, w
      <4>. QED
        BY <2>5, <4>1
    <3>2. CASE k # n
      BY <2>5, <2>8, <3>2 DEF Follows
    <3>. QED
      BY <3>1, <3>2
  <2>11. ASSUME phase = "done"
         PROVE  (w \in summary.firstWindows) <=> w.offset = 0
    <3>1. w \in Range(windowRows)
      BY <2>1, <2>k DEF Range, n
    <3>. QED
      BY <2>2, <2>11, <3>1 DEF SummaryInv, FirstWindows
  <2>12. ASSUME phase = "done"
         PROVE  (w \in summary.lastWindows) <=> final
    <3>1. w \in Range(windowRows)
      BY <2>1, <2>k DEF Range, n
    <3>2. PICK m \in 1..n :
              /\ windowRows[m].run = w.run
              /\ \A j \in 1..n :
                    windowRows[j].run = w.run =>
                        j <= m /\ (windowRows[j].window = windowRows[m].window => j = m)
              /\ Max({row.window : row \in {x \in Range(windowRows) : x.run = w.run}})
                 = windowRows[m].window
      BY LastOfRun DEF n, w
    <3>3. (w \in summary.lastWindows) <=> w.window = windowRows[m].window
      BY <2>12, <3>1, <3>2 DEF SummaryInv, LastWindows
    <3>4. (w.window = windowRows[m].window) <=> k = m
      BY <2>k, <3>2
    <3>5. (k = m) <=> final
      <4>1. CASE k = n
        <5>1. k <= m /\ m <= n
          BY <2>k, <3>2
        <5>. QED
          BY <2>1, <2>k, <4>1, <5>1
      <4>2. CASE k # n
        <5>1. k + 1 \in 1..n /\ k < k + 1
          BY <2>1, <2>k, <4>2
        <5>2. CASE windowRows[k + 1].run = w.run
          <6>1. k + 1 <= m
            BY <3>2, <5>1, <5>2
          <6>. QED
            BY <2>1, <2>k, <4>2, <5>2, <6>1
        <5>3. CASE windowRows[k + 1].run # w.run
          <6>1. w.run < windowRows[k + 1].run
            BY <2>3, <2>k, <5>1, <5>3
          <6>2. ~ (k + 1 <= m)
            <7>1. k + 1 < m => windowRows[k + 1].run <= windowRows[m].run
              BY <2>1, <2>3, <5>1
            <7>2. k + 1 = m => windowRows[k + 1].run = windowRows[m].run
              OBVIOUS
            <7>. QED
              BY <2>1, <2>k, <3>2, <5>1, <6>1, <7>1, <7>2
          <6>3. k <= m
            BY <2>k, <3>2
          <6>. QED
            BY <2>k, <5>3, <6>2, <6>3
        <5>. QED
          BY <5>2, <5>3
      <4>. QED
        BY <4>1, <4>2
    <3>. QED
      BY <3>3, <3>4, <3>5
  <2>. QED
    BY <2>6, <2>7, <2>9, <2>10, <2>11, <2>12 DEF w, n, end
<1>. QED
  BY <1>1, <1>2, <1>3, PTL DEF AnalysisSpec

------------------------------------------------------------------------------
(* The comparison of two files. *)

\* The bits of a byte tell it.
LEMMA BitsTell ==
    ASSUME NEW x \in 0..255, NEW y \in 0..255,
           \A w \in BitWeights : (x \div w) % 2 = (y \div w) % 2
    PROVE  x = y
<1>1. /\ (x \div 1) % 2 = (y \div 1) % 2 /\ (x \div 2) % 2 = (y \div 2) % 2
      /\ (x \div 4) % 2 = (y \div 4) % 2 /\ (x \div 8) % 2 = (y \div 8) % 2
      /\ (x \div 16) % 2 = (y \div 16) % 2 /\ (x \div 32) % 2 = (y \div 32) % 2
      /\ (x \div 64) % 2 = (y \div 64) % 2 /\ (x \div 128) % 2 = (y \div 128) % 2
  BY DEF BitWeights
<1>2. \A v \in 0..255 : v \in Nat /\ (v \div 128) \in 0..1
  OBVIOUS
<1>3. x \div 128 = y \div 128
  BY <1>1, <1>2
<1>4. x \div 64 = y \div 64
  BY <1>1, <1>3
<1>5. x \div 32 = y \div 32
  BY <1>1, <1>4
<1>6. x \div 16 = y \div 16
  BY <1>1, <1>5
<1>7. x \div 8 = y \div 8
  BY <1>1, <1>6
<1>8. x \div 4 = y \div 4
  BY <1>1, <1>7
<1>9. x \div 2 = y \div 2
  BY <1>1, <1>8
<1>. QED
  BY <1>1, <1>9

\* The number of differing bits is a distance.
LEMMA DifferingIs ==
    ASSUME NEW x \in 0..255, NEW y \in 0..255
    PROVE  /\ DifferingBits(x, y) \in Nat
           /\ DifferingBits(x, y) = 0 <=> x = y
           /\ \A z \in 0..255 : DifferingBits(x, z) <= DifferingBits(x, y) + DifferingBits(y, z)
<1>. DEFINE D(a, b) == {w \in BitWeights : (a \div w) % 2 # (b \div w) % 2}
<1>1. IsFiniteSet(BitWeights)
  <2>1. BitWeights \in SUBSET (1..128) /\ 128 \in Nat
    BY DEF BitWeights
  <2>2. IsFiniteSet(1..128)
    BY <2>1, CountUp
  <2>. QED
    BY <2>1, <2>2, FS_Subset
<1>2. ASSUME NEW a, NEW b
      PROVE  IsFiniteSet(D(a, b)) /\ Cardinality(D(a, b)) \in Nat /\ DifferingBits(a, b) = Cardinality(D(a, b))
  <2>1. D(a, b) \in SUBSET BitWeights
    OBVIOUS
  <2>2. IsFiniteSet(D(a, b))
    BY <1>1, <2>1, FS_Subset
  <2>3. DifferingBits(a, b) = Cardinality(D(a, b))
    BY DEF DifferingBits
  <2>. HIDE DEF D
  <2>. QED
    BY <2>2, <2>3, FS_CardinalityType
<1>3. DifferingBits(x, y) = 0 <=> x = y
  <2>1. D(x, y) = {} <=> x = y
    <3>1. ASSUME D(x, y) = {}
          PROVE  x = y
      <4>1. \A w \in BitWeights : (x \div w) % 2 = (y \div w) % 2
        BY <3>1
      <4>. QED
        BY <4>1, BitsTell
    <3>2. x = y => D(x, y) = {}
      OBVIOUS
    <3>. QED
      BY <3>1, <3>2
  <2>. HIDE DEF D
  <2>. QED
    BY <1>2, <2>1, FS_EmptySet
<1>4. ASSUME NEW z \in 0..255
      PROVE  DifferingBits(x, z) <= DifferingBits(x, y) + DifferingBits(y, z)
  <2>1. D(x, z) \in SUBSET (D(x, y) \cup D(y, z))
    OBVIOUS
  <2>. HIDE DEF D
  <2>2. IsFiniteSet(D(x, y) \cup D(y, z))
        /\ Cardinality(D(x, y) \cup D(y, z))
           = Cardinality(D(x, y)) + Cardinality(D(y, z)) - Cardinality(D(x, y) \cap D(y, z))
    BY <1>2, FS_Union
  <2>3. Cardinality(D(x, z)) <= Cardinality(D(x, y) \cup D(y, z))
    BY <2>1, <2>2, FS_Subset
  <2>4. Cardinality(D(x, y) \cap D(y, z)) \in Nat
    <3>1. IsFiniteSet(D(x, y) \cap D(y, z))
      BY <1>2, FS_Intersection
    <3>. QED
      BY <3>1, FS_CardinalityType
  <2>. QED
    BY <1>2, <2>2, <2>3, <2>4
<1>. QED
  BY <1>2, <1>3, <1>4

\* The bytes of a slice, and how two slices differ at one.
LEMMA SliceBytes ==
    ASSUME TypeOK
    PROVE  /\ \A r \in 1..Runs : \A i \in 1..RunBytes : slices[r][i] \in 0..255
           /\ \A r, s \in 1..Runs : \A i \in 1..RunBytes :
                 /\ Distances(slices[r], slices[s])[i] \in Nat
                 /\ Distances(slices[r], slices[s])[i] = 0 <=> slices[r][i] = slices[s][i]
           /\ \A r \in 1..Runs : slices[r] = [i \in 1..RunBytes |-> slices[r][i]]
<1>1. ASSUME NEW r \in 1..Runs
      PROVE  /\ \A i \in 1..RunBytes : slices[r][i] \in 0..255
             /\ slices[r] = [i \in 1..RunBytes |-> slices[r][i]]
  <2>1. slices[r] \in [1..RunBytes -> Values] /\ Values \subseteq 0..255
    BY AnalysisAssumption DEF TypeOK
  <2>. QED
    BY <2>1
<1>2. ASSUME NEW r \in 1..Runs, NEW s \in 1..Runs, NEW i \in 1..RunBytes
      PROVE  /\ Distances(slices[r], slices[s])[i] \in Nat
             /\ Distances(slices[r], slices[s])[i] = 0 <=> slices[r][i] = slices[s][i]
  <2>1. Distances(slices[r], slices[s])[i] = DifferingBits(slices[r][i], slices[s][i])
    BY DEF Distances
  <2>2. PICK x \in 0..255 : x = slices[r][i]
    BY <1>1
  <2>3. PICK y \in 0..255 : y = slices[s][i]
    BY <1>1
  <2>4. DifferingBits(x, y) \in Nat /\ (DifferingBits(x, y) = 0 <=> x = y)
    BY DifferingIs
  <2>. QED
    BY <2>1, <2>2, <2>3, <2>4
<1>. QED
  BY <1>1, <1>2

\* The slices of a pair.
LEMMA PairNames ==
    ASSUME NEW k \in 1..Pairs
    PROVE  LeftOf(k) \in 1..Runs /\ RightOf(k) \in 1..Runs /\ k \in 1..Runs /\ Runs > 1
BY AnalysisAssumption DEF LeftOf, RightOf, Pairs

\* Rows are added one at a time.
LEMMA AdjacentGrow ==
    ASSUME NEW n \in Nat
    PROVE  /\ AdjacentRows(0) = <<>>
           /\ Append(AdjacentRows(n), AdjacentRow(n + 1)) = AdjacentRows(n + 1)
           /\ Len(AdjacentRows(n)) = n
           /\ \A k \in 1..n : AdjacentRows(n)[k] = AdjacentRow(k)
<1>. DEFINE S == {AdjacentRow(k) : k \in Nat}
<1>1. \A k \in Nat : AdjacentRow(k) \in S
  OBVIOUS
<1>. HIDE DEF S
<1>2. [k \in 1..n |-> AdjacentRow(k)] \in Seq(S) /\ [k \in 1..(n + 1) |-> AdjacentRow(k)] \in Seq(S)
  BY <1>1
<1>3. Append([k \in 1..n |-> AdjacentRow(k)], AdjacentRow(n + 1)) = [k \in 1..(n + 1) |-> AdjacentRow(k)]
  BY <1>1, <1>2
<1>4. [k \in 1..0 |-> AdjacentRow(k)] = <<>>
  OBVIOUS
<1>5. Len([k \in 1..n |-> AdjacentRow(k)]) = n
  OBVIOUS
<1>. QED
  BY <1>3, <1>4, <1>5 DEF AdjacentRows

\* A comparison starts with nothing.
LEMMA PairStarts ==
    ASSUME NEW f, NEW g
    PROVE  PairOf(f, g, 0) = [compared |-> 0, equal |-> 0, differing |-> 0]
<1>1. {i \in 1..0 : f[i] = g[i]} = {}
  OBVIOUS
<1>2. Cardinality({i \in 1..0 : f[i] = g[i]}) = 0
  BY <1>1, FS_EmptySet
<1>3. SumTo(Distances(f, g), 0) = 0
  BY SumToType
<1>. QED
  BY <1>2, <1>3, Zenon DEF PairOf

\* compare_aligned_files on the next chunks of two files.
LEMMA PairGoesOn ==
    ASSUME TypeOK, NEW r \in 1..Runs, NEW s \in 1..Runs, NEW k \in 0..(RunBytes - 1),
           NEW size \in 1..(RunBytes - k), NEW p, p = PairOf(slices[r], slices[s], k),
           NEW a, a = Chunk(slices[r], k, size), NEW b, b = Chunk(slices[s], k, size)
    PROVE  [compared |-> p.compared + size,
            equal |-> p.equal + Cardinality({i \in 1..size : a[i] = b[i]}),
            differing |-> p.differing
                          + SumFunction([i \in 1..size |-> DifferingBits(a[i], b[i])])]
           = PairOf(slices[r], slices[s], k + size)
<1>. DEFINE f == slices[r]
            g == slices[s]
            F == Distances(f, g)
            G == [i \in 1..size |-> DifferingBits(a[i], b[i])]
            P == {i \in 1..(k + size) : f[i] = g[i]}
<1>0. RunBytes \in Nat \ {0} /\ k \in Nat /\ size \in Nat /\ k + size \in Nat /\ k + size <= RunBytes
  BY Files
<1>1. f \in Seq(Values) /\ Len(f) = RunBytes /\ g \in Seq(Values) /\ Len(g) = RunBytes
  BY Files
<1>2. \A i \in 1..(k + size) : F[i] \in Int
  BY <1>0, SliceBytes
<1>3. \A i \in 1..size : a[i] = f[k + i] /\ b[i] = g[k + i]
  <2>1. /\ k \in 0..Len(f) /\ size \in 0..(Len(f) - k)
        /\ k \in 0..Len(g) /\ size \in 0..(Len(g) - k)
    BY <1>0, <1>1
  <2>2. a = Chunk(f, k, size) /\ b = Chunk(g, k, size)
    OBVIOUS
  <2>. HIDE DEF f, g
  <2>3. \A i \in 1..size : Chunk(f, k, size)[i] = f[k + i]
    BY <1>1, <2>1, ChunkIs
  <2>4. \A i \in 1..size : Chunk(g, k, size)[i] = g[k + i]
    BY <1>1, <2>1, ChunkIs
  <2>. QED
    BY <2>2, <2>3, <2>4
<1>4. \A i \in 1..size : G[i] = F[k + i]
  <2>1. \A i \in 1..size : k + i \in 1..RunBytes
    BY <1>0
  <2>. QED
    BY <1>3, <2>1 DEF Distances
<1>5. SumTo(F, k) + SumFunction(G) = SumTo(F, k + size)
  <2>1. G = [i \in 1..size |-> G[i]]
    OBVIOUS
  <2>. HIDE DEF F, G
  <2>. QED
    BY <1>0, <1>2, <1>4, <2>1, SumGoesOn
<1>6. Cardinality({i \in 1..k : f[i] = g[i]}) + Cardinality({i \in 1..size : a[i] = b[i]})
      = Cardinality(P)
  <2>1. {i \in 1..k : i \in P} = {i \in 1..k : f[i] = g[i]}
    BY <1>0
  <2>2. {i \in 1..size : k + i \in P} = {i \in 1..size : a[i] = b[i]}
    <3>1. \A i \in 1..size : k + i \in 1..(k + size)
      BY <1>0
    <3>. QED
      BY <1>3, <3>1
  <2>3. P \in SUBSET (1..(k + size))
    OBVIOUS
  <2>. HIDE DEF P
  <2>. QED
    BY <1>0, <2>1, <2>2, <2>3, CountSplit
<1>7. /\ p.compared = k /\ p.equal = Cardinality({i \in 1..k : f[i] = g[i]})
      /\ p.differing = SumTo(F, k)
  BY DEF PairOf
<1>8. PairOf(f, g, k + size) = [compared |-> k + size, equal |-> Cardinality(P),
                                differing |-> SumTo(F, k + size)]
  BY DEF PairOf
<1>. HIDE DEF F, P, f, g
<1>9. [compared |-> p.compared + size,
       equal |-> p.equal + Cardinality({i \in 1..size : a[i] = b[i]}),
       differing |-> p.differing + SumFunction(G)] = PairOf(f, g, k + size)
  BY <1>5, <1>6, <1>7, <1>8
<1>. QED
  BY <1>9 DEF f, g

LEMMA CompareInit == AnalysisInit => CompareInv
BY AdjacentGrow DEF AnalysisInit, CompareInv, PairsCompared

\* A step keeps the comparison that of the bytes read.
LEMMA CompareStep == TypeOK /\ CompareInv /\ [AnalysisNext]_analysisVars => CompareInv'
<1>. SUFFICES ASSUME TypeOK, CompareInv, [AnalysisNext]_analysisVars
              PROVE  CompareInv'
  OBVIOUS
<1>0. /\ phase = "compare" /\ run <= Pairs =>
            pair = PairOf(slices[LeftOf(run)], slices[RightOf(run)], offset)
      /\ phase \notin {"compare", "done"} => pair = [compared |-> 0, equal |-> 0, differing |-> 0]
      /\ adjacent = AdjacentRows(PairsCompared)
  BY DEF CompareInv
<1>s. slices' = slices
  BY DEF AnalysisNext, ReadChunk, FileRead, ReadWindow, WindowsRead, CompareChunk, PairCompared,
         Summarize, analysisVars
<1>a. \A n : AdjacentRows(n)' = AdjacentRows(n)
  BY <1>s DEF AdjacentRows, AdjacentRow, PairOf, Distances
<1>p. Pairs \in Nat /\ Runs \in Nat
  BY Files DEF Pairs
<1>1. CASE ReadChunk \/ FileRead \/ ReadWindow
  <2>1. /\ phase \notin {"compare", "done"} /\ phase' \notin {"compare", "done"}
        /\ pair' = pair /\ adjacent' = adjacent
    BY <1>1 DEF ReadChunk, FileRead, ReadWindow
  <2>2. PairsCompared = 0 /\ PairsCompared' = 0
    BY <2>1 DEF PairsCompared
  <2>. QED
    BY <1>0, <1>a, <2>1, <2>2 DEF CompareInv
<1>2. CASE WindowsRead
  <2>1. /\ phase = "window" /\ pair' = pair /\ adjacent' = adjacent /\ offset' = 0
        /\ \/ phase' = "run"
           \/ phase' = "compare" /\ run' = 1
    BY <1>2 DEF WindowsRead
  <2>2. PairsCompared = 0 /\ PairsCompared' = 0
    BY <2>1 DEF PairsCompared
  <2>3. pair' = PairOf(slices[LeftOf(run')], slices[RightOf(run')], 0)
    BY <1>0, <2>1, PairStarts
  <2>. QED
    BY <1>0, <1>s, <1>a, <2>1, <2>2, <2>3 DEF CompareInv, PairOf, LeftOf, RightOf, Distances
<1>3. CASE CompareChunk
  <2>. DEFINE size == Min({ChunkBytes, RunBytes - offset})
              r == LeftOf(run)
              s == RightOf(run)
              a == Chunk(slices[r], offset, size)
              b == Chunk(slices[s], offset, size)
  <2>1. /\ phase = "compare" /\ run <= Pairs /\ offset < RunBytes /\ offset' = offset + size
        /\ phase' = phase /\ run' = run /\ adjacent' = adjacent
        /\ pair' = [compared |-> pair.compared + size,
                    equal |-> pair.equal + Cardinality({i \in 1..size : a[i] = b[i]}),
                    differing |-> pair.differing
                                  + SumFunction([i \in 1..size |-> DifferingBits(a[i], b[i])])]
    BY <1>3 DEF CompareChunk, SecondChunk, Left, Right, LeftOf, RightOf
  <2>2. /\ run \in 1..Pairs /\ offset \in 0..RunBytes /\ RunBytes \in Nat \ {0}
        /\ ChunkBytes \in Nat \ {0}
    BY <1>p, <2>1, AnalysisAssumption DEF TypeOK
  <2>3. size \in 1..(RunBytes - offset) /\ offset \in 0..(RunBytes - 1)
    <3>1. offset < RunBytes /\ offset \in 0..RunBytes /\ RunBytes \in Nat
      BY <2>1, <2>2
    <3>2. size \in 1..(RunBytes - offset)
      BY <2>2, <3>1, PieceIs
    <3>. QED
      BY <3>1, <3>2
  <2>4. r \in 1..Runs /\ s \in 1..Runs
    BY <2>2, PairNames
  <2>5. pair = PairOf(slices[r], slices[s], offset)
    BY <1>0, <2>1
  <2>. HIDE DEF size, r, s
  <2>6. pair' = PairOf(slices[r], slices[s], offset + size)
    BY <2>1, <2>3, <2>4, <2>5, PairGoesOn
  <2>7. PairsCompared' = PairsCompared
    BY <2>1 DEF PairsCompared
  <2>8. pair' = PairOf(slices[LeftOf(run')], slices[RightOf(run')], offset')
    BY <2>1, <2>6 DEF r, s
  <2>. QED
    BY <1>0, <1>s, <1>a, <2>1, <2>7, <2>8 DEF CompareInv, PairOf, LeftOf, RightOf, Distances
<1>4. CASE PairCompared
  <2>1. /\ phase = "compare" /\ phase' = "compare" /\ run <= Pairs /\ offset = RunBytes
        /\ run' = run + 1 /\ offset' = 0
        /\ adjacent' = Append(adjacent, [left |-> LeftOf(run), right |-> RightOf(run),
                                         compared |-> pair.compared, equal |-> pair.equal,
                                         differing |-> pair.differing])
        /\ pair' = [compared |-> 0, equal |-> 0, differing |-> 0]
    BY <1>4 DEF PairCompared, Left, Right, LeftOf, RightOf
  <2>2. run \in 1..Pairs /\ run \in Int /\ run - 1 \in Nat /\ (run - 1) + 1 = run
    BY <1>p, <2>1 DEF TypeOK
  <2>3. pair = PairOf(slices[LeftOf(run)], slices[RightOf(run)], RunBytes)
    BY <1>0, <2>1
  <2>4. [left |-> LeftOf(run), right |-> RightOf(run), compared |-> pair.compared,
         equal |-> pair.equal, differing |-> pair.differing] = AdjacentRow(run)
    BY <2>3, Zenon DEF AdjacentRow
  <2>5. PairsCompared = run - 1 /\ PairsCompared' = run
    BY <2>1, <2>2 DEF PairsCompared
  <2>6. adjacent' = AdjacentRows(run)
    BY <1>0, <2>1, <2>2, <2>4, <2>5, AdjacentGrow
  <2>7. pair' = PairOf(slices[LeftOf(run')], slices[RightOf(run')], 0)
    BY <2>1, PairStarts
  <2>. QED
    BY <1>s, <1>a, <2>1, <2>5, <2>6, <2>7 DEF CompareInv, PairOf, LeftOf, RightOf, Distances
<1>5. CASE Summarize
  <2>1. phase = "compare" /\ run > Pairs /\ phase' = "done" /\ adjacent' = adjacent
    BY <1>5 DEF Summarize
  <2>2. run = Pairs + 1
    BY <1>p, <2>1 DEF TypeOK
  <2>3. PairsCompared = Pairs /\ PairsCompared' = Pairs
    BY <1>p, <2>1, <2>2 DEF PairsCompared, Pairs
  <2>. QED
    BY <1>0, <1>a, <2>1, <2>3 DEF CompareInv
<1>6. CASE UNCHANGED analysisVars
  <2>1. PairsCompared' = PairsCompared
    BY <1>6 DEF PairsCompared, Pairs, analysisVars
  <2>. QED
    BY <1>0, <1>6, <1>a, <2>1 DEF CompareInv, PairOf, LeftOf, RightOf, Distances, analysisVars
<1>. QED
  BY <1>1, <1>2, <1>3, <1>4, <1>5, <1>6 DEF AnalysisNext

\* Two whole slices: what is counted tells whether they are equal.
LEMMA PairIsTrue ==
    ASSUME TypeOK, NEW r \in 1..Runs, NEW s \in 1..Runs, NEW p, p = PairOf(slices[r], slices[s], RunBytes)
    PROVE  /\ p.compared = RunBytes /\ p.differing \in Nat
           /\ p.equal = RunBytes <=> slices[r] = slices[s]
           /\ p.differing = 0 <=> slices[r] = slices[s]
<1>. DEFINE E == {i \in 1..RunBytes : slices[r][i] = slices[s][i]}
            F == Distances(slices[r], slices[s])
<1>0. RunBytes \in Nat
  BY Files
<1>1. p.compared = RunBytes /\ p.equal = Cardinality(E) /\ p.differing = SumTo(F, RunBytes)
  BY DEF PairOf
<1>2. slices[r] = slices[s] <=> \A i \in 1..RunBytes : slices[r][i] = slices[s][i]
  <2>1. /\ slices[r] = [i \in 1..RunBytes |-> slices[r][i]]
        /\ slices[s] = [i \in 1..RunBytes |-> slices[s][i]]
    BY SliceBytes
  <2>. QED
    BY <2>1
<1>3. Cardinality(E) = RunBytes <=> E = 1..RunBytes
  <2>1. IsFiniteSet(1..RunBytes) /\ Cardinality(1..RunBytes) = RunBytes /\ E \in SUBSET (1..RunBytes)
    BY <1>0, CountUp
  <2>. HIDE DEF E
  <2>. QED
    BY <2>1, FS_Subset
<1>4. E = 1..RunBytes <=> \A i \in 1..RunBytes : slices[r][i] = slices[s][i]
  OBVIOUS
<1>5. \A i \in 1..RunBytes : F[i] \in Nat /\ (F[i] = 0 <=> slices[r][i] = slices[s][i])
  BY SliceBytes
<1>. HIDE DEF E, F
<1>6. SumTo(F, RunBytes) \in Nat /\ (SumTo(F, RunBytes) = 0 <=> \A i \in 1..RunBytes : F[i] = 0)
  BY <1>0, <1>5, SumZero
<1>. QED
  BY <1>1, <1>2, <1>3, <1>4, <1>5, <1>6

\* In how many bits two slices differ.
Distance(r, s) == SumTo(Distances(slices[r], slices[s]), RunBytes)

LEMMA Triangle ==
    ASSUME TypeOK, NEW r \in 1..Runs, NEW s \in 1..Runs, NEW q \in 1..Runs
    PROVE  /\ Distance(r, q) \in Nat /\ Distance(r, s) \in Nat /\ Distance(s, q) \in Nat
           /\ Distance(r, q) <= Distance(r, s) + Distance(s, q)
           /\ Distance(r, r) = 0
<1>. DEFINE A == Distances(slices[r], slices[q])
            B == Distances(slices[r], slices[s])
            C == Distances(slices[s], slices[q])
            H == [i \in 1..RunBytes |-> B[i] + C[i]]
            Z == Distances(slices[r], slices[r])
<1>0. RunBytes \in Nat
  BY Files
<1>1. \A i \in 1..RunBytes : A[i] \in Nat /\ B[i] \in Nat /\ C[i] \in Nat /\ A[i] <= B[i] + C[i]
  <2>. SUFFICES ASSUME NEW i \in 1..RunBytes
                PROVE  A[i] \in Nat /\ B[i] \in Nat /\ C[i] \in Nat /\ A[i] <= B[i] + C[i]
    OBVIOUS
  <2>1. A[i] \in Nat /\ B[i] \in Nat /\ C[i] \in Nat
    BY SliceBytes
  <2>2. PICK x \in 0..255 : x = slices[r][i]
    BY SliceBytes
  <2>3. PICK y \in 0..255 : y = slices[s][i]
    BY SliceBytes
  <2>4. PICK z \in 0..255 : z = slices[q][i]
    BY SliceBytes
  <2>5. A[i] = DifferingBits(x, z) /\ B[i] = DifferingBits(x, y) /\ C[i] = DifferingBits(y, z)
    BY <2>2, <2>3, <2>4 DEF Distances
  <2>6. DifferingBits(x, z) <= DifferingBits(x, y) + DifferingBits(y, z)
    BY DifferingIs
  <2>. HIDE DEF A, B, C
  <2>. QED
    BY <2>1, <2>5, <2>6
<1>2. \A i \in 1..RunBytes : Z[i] \in Nat /\ Z[i] = 0
  BY SliceBytes
<1>. HIDE DEF A, B, C, Z
<1>3. \A i \in 1..RunBytes : /\ A[i] \in Int /\ B[i] \in Int /\ C[i] \in Int
                             /\ H[i] = B[i] + C[i] /\ H[i] \in Int /\ A[i] <= H[i]
  BY <1>1
<1>. HIDE DEF H
<1>4. SumTo(A, RunBytes) <= SumTo(H, RunBytes)
  BY <1>0, <1>3, SumLess
<1>5. SumTo(H, RunBytes) = SumTo(B, RunBytes) + SumTo(C, RunBytes)
  BY <1>0, <1>3, SumBoth
<1>6. SumTo(A, RunBytes) \in Nat /\ SumTo(B, RunBytes) \in Nat /\ SumTo(C, RunBytes) \in Nat
  BY <1>0, <1>1, SumZero
<1>7. SumTo(Z, RunBytes) = 0
  BY <1>0, <1>2, SumZero
<1>. QED
  BY <1>4, <1>5, <1>6, <1>7 DEF Distance, A, B, C, Z

\* From slice to slice, the first and the last one differ in no more bits than
\* the neighbours do together.
LEMMA NeighboursReach ==
    ASSUME TypeOK, NEW F, \A r \in 1..(Runs - 1) : F[r] = Distance(r, r + 1)
    PROVE  Distance(1, Runs) <= SumTo(F, Runs - 1) /\ SumTo(F, Runs - 1) \in Int
<1>. DEFINE n == Runs - 1
            T == {k \in Nat : Distance(1, k + 1) <= SumTo(F, k)}
<1>0. Runs \in Nat \ {0} /\ n \in Nat /\ n + 1 = Runs
  BY Files
<1>1. \A r \in 1..n : F[r] \in Int
  <2>1. \A r \in 1..n : r \in 1..Runs /\ r + 1 \in 1..Runs
    BY <1>0
  <2>2. \A r \in 1..n : Distance(r, r + 1) \in Nat
    BY <2>1, Triangle
  <2>. QED
    BY <2>2
<1>2. 0 \in T
  <2>1. 1 \in 1..Runs
    BY <1>0
  <2>2. Distance(1, 1) = 0
    BY <2>1, Triangle
  <2>3. SumTo(F, 0) = 0
    BY SumToType
  <2>. QED
    BY <2>2, <2>3
<1>3. ASSUME NEW k \in 0..(n - 1), k \in T
      PROVE  k + 1 \in T
  <2>1. /\ k \in Nat /\ 1 \in 1..Runs /\ k + 1 \in 1..Runs /\ (k + 1) + 1 \in 1..Runs
        /\ k + 1 \in 1..n /\ k + 1 \in Nat
    BY <1>0
  <2>2. /\ Distance(1, (k + 1) + 1) <= Distance(1, k + 1) + Distance(k + 1, (k + 1) + 1)
        /\ Distance(1, (k + 1) + 1) \in Nat /\ Distance(1, k + 1) \in Nat
        /\ Distance(k + 1, (k + 1) + 1) \in Nat
    BY <2>1, Triangle
  <2>3. SumTo(F, k + 1) = SumTo(F, k) + F[k + 1] /\ SumTo(F, k) \in Int
    <3>1. (\A i \in 1..(k + 1) : F[i] \in Int) /\ (\A i \in 1..k : F[i] \in Int)
      <4>1. k + 1 <= n /\ n \in Nat
        BY <1>0, <2>1
      <4>2. \A i \in 1..(k + 1) : i \in 1..n
        BY <2>1, <4>1
      <4>3. \A i \in 1..k : i \in 1..n
        BY <2>1, <4>1
      <4>. QED
        BY <1>1, <4>2, <4>3
    <3>. QED
      BY <2>1, <3>1, SumNext, SumToType
  <2>4. F[k + 1] = Distance(k + 1, (k + 1) + 1)
    BY <2>1
  <2>5. Distance(1, k + 1) <= SumTo(F, k)
    BY <1>3
  <2>6. Distance(1, (k + 1) + 1) <= SumTo(F, k + 1)
    BY <2>2, <2>3, <2>4, <2>5
  <2>. QED
    BY <2>1, <2>6
<1>. HIDE DEF T, n
<1>4. n \in T
  BY <1>0, <1>2, <1>3, InductionTo
<1>5. SumTo(F, n) \in Int
  BY <1>0, <1>1, SumToType
<1>. QED
  BY <1>0, <1>4, <1>5 DEF T, n

\* cross_reboot_similarity, for every dataset and chunk size: each pair is
\* compared from its first to its last byte, the counts tell whether two slices
\* are equal, and the change from the first to the last slice is bounded by the
\* changes on the way.
THEOREM PairsAreCompared == AnalysisSpec => []PairsAreAligned
<1>1. AnalysisInit => TypeOK /\ CompareInv
  BY TypeInit, CompareInit
<1>2. TypeOK /\ CompareInv /\ [AnalysisNext]_analysisVars => (TypeOK /\ CompareInv)'
  BY TypeStep, CompareStep
<1>3. TypeOK /\ CompareInv => PairsAreAligned
  <2>. SUFFICES ASSUME TypeOK, CompareInv
                PROVE  PairsAreAligned
    OBVIOUS
  <2>1. PairsCompared \in 0..Pairs /\ Pairs \in Nat /\ Runs \in Nat \ {0}
        /\ (phase = "done" => PairsCompared = Pairs)
    BY Files DEF PairsCompared, Pairs, TypeOK
  <2>2. Len(adjacent) = PairsCompared /\ \A k \in 1..PairsCompared : adjacent[k] = AdjacentRow(k)
    <3>1. PICK n \in Nat : n = PairsCompared
      BY <2>1
    <3>2. adjacent = AdjacentRows(n)
      BY <3>1 DEF CompareInv
    <3>3. Len(AdjacentRows(n)) = n /\ \A k \in 1..n : AdjacentRows(n)[k] = AdjacentRow(k)
      BY AdjacentGrow
    <3>. QED
      BY <3>1, <3>2, <3>3
  <2>3. ASSUME NEW k \in 1..PairsCompared
        PROVE  /\ adjacent[k].compared = RunBytes
               /\ (adjacent[k].equal = RunBytes) <=> (slices[adjacent[k].left] = slices[adjacent[k].right])
               /\ (adjacent[k].differing = 0) <=> (slices[adjacent[k].left] = slices[adjacent[k].right])
    <3>1. k \in 1..Pairs
      BY <2>1
    <3>2. LeftOf(k) \in 1..Runs /\ RightOf(k) \in 1..Runs
      BY <3>1, PairNames
    <3>. DEFINE p == PairOf(slices[LeftOf(k)], slices[RightOf(k)], RunBytes)
    <3>3. /\ adjacent[k].left = LeftOf(k) /\ adjacent[k].right = RightOf(k)
          /\ adjacent[k].compared = p.compared /\ adjacent[k].equal = p.equal
          /\ adjacent[k].differing = p.differing
      BY <2>2 DEF AdjacentRow
    <3>4. /\ p.compared = RunBytes
          /\ p.equal = RunBytes <=> slices[LeftOf(k)] = slices[RightOf(k)]
          /\ p.differing = 0 <=> slices[LeftOf(k)] = slices[RightOf(k)]
      BY <3>2, PairIsTrue
    <3>. HIDE DEF p
    <3>. QED
      BY <3>3, <3>4
  <2>4. ASSUME phase = "done", Runs > 1
        PROVE  /\ Len(adjacent) = Runs
               /\ adjacent[Runs].differing
                  <= SumFunction([r \in 1..(Runs - 1) |-> adjacent[r].differing])
    <3>1. Pairs = Runs /\ PairsCompared = Runs
      BY <2>1, <2>4 DEF Pairs
    <3>. DEFINE F == [r \in 1..(Runs - 1) |-> adjacent[r].differing]
    <3>2. \A k \in 1..Runs : adjacent[k].differing = Distance(LeftOf(k), RightOf(k))
      <4>1. \A k : AdjacentRow(k).differing = Distance(LeftOf(k), RightOf(k))
        BY DEF AdjacentRow, PairOf, Distance
      <4>2. \A k \in 1..Runs : adjacent[k] = AdjacentRow(k)
        BY <2>2, <3>1
      <4>. QED
        BY <4>1, <4>2
    <3>3. \A r \in 1..(Runs - 1) : F[r] = Distance(r, r + 1)
      <4>1. \A r \in 1..(Runs - 1) : r \in 1..Runs /\ LeftOf(r) = r /\ RightOf(r) = r + 1
        BY <2>1 DEF LeftOf, RightOf
      <4>. QED
        BY <3>2, <4>1
    <3>4. adjacent[Runs].differing = Distance(1, Runs)
      <4>1. Runs \in 1..Runs /\ LeftOf(Runs) = 1 /\ RightOf(Runs) = Runs
        BY <2>1 DEF LeftOf, RightOf
      <4>. QED
        BY <3>2, <4>1
    <3>5. SumFunction(F) = SumTo(F, Runs - 1)
      <4>1. F = [i \in 1..(Runs - 1) |-> F[i]] /\ Runs - 1 \in Nat
        BY <2>1
      <4>. HIDE DEF F
      <4>. QED
        BY <4>1, SumWhole
    <3>6. Distance(1, Runs) <= SumTo(F, Runs - 1)
      <4>. HIDE DEF F
      <4>. QED
        BY <3>3, NeighboursReach
    <3>. QED
      BY <2>2, <3>1, <3>4, <3>5, <3>6
  <2>. QED
    BY <2>2, <2>3, <2>4 DEF PairsAreAligned
<1>. QED
  BY <1>1, <1>2, <1>3, PTL DEF AnalysisSpec

------------------------------------------------------------------------------
(* Repeats. *)

\* The runs with the same value as one of them.
Alike(v, j) == {i \in 1..Len(v) : v[i] = v[j]}

Classes(v) == {Alike(v, j) : j \in 1..Len(v)}

LEMMA AlikeIs ==
    ASSUME NEW v, Len(v) \in Nat
    PROVE  /\ DuplicateRunGroups(v) = {g \in Classes(v) : Cardinality(g) > 1}
           /\ \A j \in 1..Len(v) : /\ j \in Alike(v, j)
                                   /\ Alike(v, j) \in Classes(v)
                                   /\ IsFiniteSet(Alike(v, j))
           /\ \A i, j \in 1..Len(v) : /\ i \in Alike(v, j) <=> v[i] = v[j]
                                      /\ Alike(v, i) = Alike(v, j) <=> v[i] = v[j]
<1>1. DuplicateRunGroups(v) = {g \in Classes(v) : Cardinality(g) > 1}
  BY DEF DuplicateRunGroups, Classes, Alike
<1>2. IsFiniteSet(1..Len(v))
  BY CountUp
<1>3. ASSUME NEW j \in 1..Len(v)
      PROVE  j \in Alike(v, j) /\ Alike(v, j) \in Classes(v) /\ IsFiniteSet(Alike(v, j))
  BY <1>2, FS_Subset DEF Alike, Classes
<1>4. ASSUME NEW i \in 1..Len(v), NEW j \in 1..Len(v)
      PROVE  (i \in Alike(v, j) <=> v[i] = v[j]) /\ (Alike(v, i) = Alike(v, j) <=> v[i] = v[j])
  BY DEF Alike
<1>. QED
  BY <1>1, <1>3, <1>4

\* Two runs are in one group if they have the same value, and only then.
LEMMA GroupsTell ==
    ASSUME NEW v, Len(v) \in Nat, NEW i \in 1..Len(v), NEW j \in 1..Len(v), i # j
    PROVE  v[i] = v[j] <=> \E g \in DuplicateRunGroups(v) : {i, j} \subseteq g
<1>1. ASSUME v[i] = v[j]
      PROVE  \E g \in DuplicateRunGroups(v) : {i, j} \subseteq g
  <2>1. i \in Alike(v, j) /\ j \in Alike(v, j) /\ Alike(v, j) \in Classes(v)
        /\ IsFiniteSet(Alike(v, j))
    BY <1>1, AlikeIs
  <2>2. Cardinality(Alike(v, j)) > 1
    BY <2>1, MoreThanOne
  <2>3. Alike(v, j) \in DuplicateRunGroups(v)
    BY <2>1, <2>2, AlikeIs
  <2>. QED
    BY <2>1, <2>3
<1>2. ASSUME NEW g \in DuplicateRunGroups(v), {i, j} \subseteq g
      PROVE  v[i] = v[j]
  <2>1. g \in Classes(v)
    BY AlikeIs
  <2>2. PICK k \in 1..Len(v) : g = Alike(v, k)
    BY <2>1 DEF Classes
  <2>3. v[i] = v[k] /\ v[j] = v[k]
    BY <1>2, <2>2 DEF Alike
  <2>. QED
    BY <2>3
<1>. QED
  BY <1>1, <1>2

\* Every run is in one class, and there are as many classes as values.
LEMMA GroupsCount ==
    ASSUME NEW v, Len(v) \in Nat
    PROVE  Cardinality({v[r] : r \in 1..Len(v)})
           + SumFunction([g \in DuplicateRunGroups(v) |-> Cardinality(g) - 1]) = Len(v)
<1>. DEFINE n == Len(v)
            V == {v[r] : r \in 1..n}
            G == Classes(v)
            f == [x \in V |-> {i \in 1..n : v[i] = x}]
<1>1. IsFiniteSet(1..n) /\ Cardinality(1..n) = n
  BY CountUp
<1>2. IsFiniteSet(V)
  <2>. DEFINE value == [r \in 1..n |-> v[r]]
  <2>1. value \in Surjection(1..n, V)
    BY DEF Surjection
  <2>. HIDE DEF value, V, n
  <2>. QED
    BY <1>1, <2>1, FS_Surjection
<1>3. IsFiniteSet(G) /\ Cardinality(G) = Cardinality(V)
  <2>1. \A r \in 1..n : v[r] \in V /\ f[v[r]] = Alike(v, r)
    BY DEF Alike
  <2>2. \A x \in V : \E r \in 1..n : x = v[r]
    OBVIOUS
  <2>3. \A g \in G : \E r \in 1..n : g = Alike(v, r)
    BY DEF Classes
  <2>4. DOMAIN f = V /\ f = [x \in V |-> f[x]]
    OBVIOUS
  <2>. HIDE DEF f, V, G
  <2>5. \A x \in V : f[x] \in G
    BY <2>1, <2>2, AlikeIs DEF G
  <2>6. f \in [V -> G]
    BY <2>4, <2>5
  <2>7. \A a, b \in V : f[a] = f[b] => a = b
    BY <2>1, <2>2, AlikeIs DEF n
  <2>8. \A g \in G : \E a \in V : f[a] = g
    BY <2>1, <2>3
  <2>. QED
    BY <1>2, <2>6, <2>7, <2>8, OneToOne
<1>4. \A g \in G : g \subseteq 1..n /\ g # {}
  BY AlikeIs DEF Classes, Alike
<1>5. \A g, h \in G : g # h => g \cap h = {}
  BY DEF Classes, Alike
<1>6. UNION G = 1..n
  <2>1. \A i \in 1..n : \E g \in G : i \in g
    BY AlikeIs
  <2>. HIDE DEF G
  <2>. QED
    BY <1>4, <2>1
<1>7. DuplicateRunGroups(v) = {h \in G : Cardinality(h) > 1}
  BY AlikeIs
<1>8. Cardinality(G) + SumFunction([g \in {h \in G : Cardinality(h) > 1} |-> Cardinality(g) - 1])
      = Cardinality(UNION G)
  <2>. HIDE DEF G, n
  <2>. QED
    BY <1>1, <1>3, <1>4, <1>5, GroupsAddUp
<1>. HIDE DEF G, V, n
<1>9. Cardinality(V) + SumFunction([g \in DuplicateRunGroups(v) |-> Cardinality(g) - 1]) = n
  BY <1>1, <1>3, <1>6, <1>7, <1>8
<1>. QED
  BY <1>9 DEF V, n

\* What repeats as a whole repeats in part.
LEMMA GroupsWiden ==
    ASSUME NEW v, NEW w, Len(v) \in Nat, Len(w) = Len(v),
           \A i, j \in 1..Len(v) : v[i] = v[j] => w[i] = w[j],
           NEW g \in DuplicateRunGroups(v)
    PROVE  \E h \in DuplicateRunGroups(w) : g \subseteq h
<1>1. g \in Classes(v) /\ Cardinality(g) > 1
  BY AlikeIs
<1>2. PICK k \in 1..Len(v) : g = Alike(v, k)
  BY <1>1 DEF Classes
<1>3. g \subseteq Alike(w, k)
  BY <1>2 DEF Alike
<1>4. IsFiniteSet(g) /\ IsFiniteSet(Alike(w, k)) /\ Alike(w, k) \in Classes(w)
  BY <1>2, AlikeIs
<1>5. PICK x \in g, y \in g : x # y
  BY <1>1, <1>4, MoreThanOne
<1>6. Cardinality(Alike(w, k)) > 1
  BY <1>3, <1>4, <1>5, MoreThanOne
<1>7. Alike(w, k) \in DuplicateRunGroups(w)
  BY <1>4, <1>6, AlikeIs
<1>. QED
  BY <1>3, <1>7

LEMMA RepeatsShow == TypeOK /\ SummaryInv => RepeatsAreReported
<1>. SUFFICES ASSUME TypeOK, SummaryInv, phase = "done"
              PROVE  /\ \A i, j \in 1..Runs : i # j =>
                           ((slices[i] = slices[j]) <=> \E g \in summary.duplicates : {i, j} \subseteq g)
                     /\ summary.unique + SumFunction([g \in summary.duplicates |-> Cardinality(g) - 1]) = Runs
                     /\ \A g \in summary.duplicates : \E h \in summary.duplicatePrefix : g \subseteq h
  BY DEF RepeatsAreReported
<1>. DEFINE prefix == [r \in 1..Runs |-> Prefix(slices[r])]
<1>1. Runs \in Nat /\ Len(slices) = Runs /\ Len(prefix) = Runs
  BY Files DEF TypeOK
<1>2. /\ summary.unique = Cardinality({slices[r] : r \in 1..Runs})
      /\ summary.duplicates = DuplicateRunGroups(slices)
      /\ summary.duplicatePrefix = DuplicateRunGroups(prefix)
  BY DEF SummaryInv
<1>3. \A i, j \in 1..Runs : slices[i] = slices[j] => prefix[i] = prefix[j]
  OBVIOUS
<1>. HIDE DEF prefix
<1>4. \A i, j \in 1..Runs : i # j =>
          ((slices[i] = slices[j]) <=> \E g \in DuplicateRunGroups(slices) : {i, j} \subseteq g)
  BY <1>1, GroupsTell
<1>5. Cardinality({slices[r] : r \in 1..Runs})
      + SumFunction([g \in DuplicateRunGroups(slices) |-> Cardinality(g) - 1]) = Runs
  BY <1>1, GroupsCount
<1>6. \A g \in DuplicateRunGroups(slices) : \E h \in DuplicateRunGroups(prefix) : g \subseteq h
  BY <1>1, <1>3, GroupsWiden
<1>. QED
  BY <1>2, <1>4, <1>5, <1>6

------------------------------------------------------------------------------
(* Trends. *)

\* The bits of a file are a number.
LEMMA OnesAreCounted ==
    ASSUME NEW f, Len(f) \in Nat
    PROVE  WholeFile(f).ones \in Int
<1>. DEFINE count == [v \in Values |-> Cardinality({i \in 1..Len(f) : f[i] = v})]
            S == [v \in Values |-> BitCount(v) * count[v]]
<1>1. WholeFile(f).ones = SumFunction(S)
  BY DEF WholeFile, Finalize
<1>2. ASSUME NEW v \in Values
      PROVE  S[v] \in Int
  <2>1. IsFiniteSet(1..Len(f))
    BY CountUp
  <2>2. IsFiniteSet({i \in 1..Len(f) : f[i] = v})
    BY <2>1, FS_Subset
  <2>3. IsFiniteSet({w \in BitWeights : (v \div w) % 2 = 1})
    <3>1. IsFiniteSet(1..128)
      BY CountUp
    <3>2. {w \in BitWeights : (v \div w) % 2 = 1} \in SUBSET (1..128)
      BY DEF BitWeights
    <3>. QED
      BY <3>1, <3>2, FS_Subset
  <2>4. count[v] \in Nat /\ BitCount(v) \in Nat
    BY <2>2, <2>3, FS_CardinalityType DEF BitCount
  <2>. QED
    BY <2>4
<1>3. S \in [Values -> Int]
  <2>1. S = [v \in Values |-> S[v]]
    OBVIOUS
  <2>. HIDE DEF S
  <2>. QED
    BY <1>2, <2>1
<1>. HIDE DEF S
<1>. QED
  BY <1>1, <1>3, ValuesAreBytes, SumUnfolds

\* What grows at each step grows at least as much as the number of steps.
LEMMA RisesBySteps ==
    ASSUME NEW n \in Nat, NEW v, \A i \in 1..n : v[i] \in Int,
           \A r \in 1..(n - 1) : v[r + 1] > v[r]
    PROVE  \A i, j \in 1..n : i <= j => v[j] - v[i] >= j - i
<1>. DEFINE T == {d \in Nat : \A i \in 1..n : i + d <= n => v[i + d] - v[i] >= d}
<1>1. 0 \in T
  OBVIOUS
<1>2. ASSUME NEW d \in T
      PROVE  d + 1 \in T
  <2>1. ASSUME NEW i \in 1..n, i + (d + 1) <= n
        PROVE  v[i + (d + 1)] - v[i] >= d + 1
    <3>1. i + d \in 1..(n - 1) /\ i + d <= n /\ i + (d + 1) = (i + d) + 1
      BY <2>1
    <3>2. v[i + d] - v[i] >= d
      BY <3>1
    <3>3. v[(i + d) + 1] > v[i + d]
      BY <3>1
    <3>4. v[i] \in Int /\ v[i + d] \in Int /\ v[(i + d) + 1] \in Int
      BY <2>1, <3>1
    <3>. QED
      BY <3>1, <3>2, <3>3, <3>4
  <2>. QED
    BY <2>1
<1>3. T = Nat
  <2>1. T \in SUBSET Nat
    OBVIOUS
  <2>. HIDE DEF T
  <2>. QED
    BY <1>1, <1>2, <2>1, SetInduction
<1>. SUFFICES ASSUME NEW i \in 1..n, NEW j \in 1..n, i <= j
              PROVE  v[j] - v[i] >= j - i
  OBVIOUS
<1>4. j - i \in Nat /\ i + (j - i) = j
  OBVIOUS
<1>5. j - i \in T
  <2>. HIDE DEF T
  <2>. QED
    BY <1>3, <1>4
<1>6. i + (j - i) <= n => v[i + (j - i)] - v[i] >= j - i
  BY <1>5
<1>. QED
  BY <1>4, <1>6

\* The two steps of the slope's induction, as polynomials.
LEMMA SlopeGrows ==
    ASSUME NEW k \in Int, NEW X \in Int, NEW N \in Int, NEW V \in Int, NEW c \in Int,
           2 * N = (k + 1) * k
    PROVE  (k + 1) * (X + (k + 1) * c) - (N + (k + 1)) * (V + c)
           = (k * X - N * V) + ((c * N + X) - (k + 1) * V)
<1>1. (k + 1) * (X + (k + 1) * c) - (N + (k + 1)) * (V + c)
      = (k * X - N * V) + X - (k + 1) * V + c * ((k + 1) * k) - c * N
  OBVIOUS
<1>2. c * ((k + 1) * k) = c * (2 * N)
  OBVIOUS
<1>3. c * (2 * N) = c * N + c * N
  OBVIOUS
<1>4. /\ c * N \in Int /\ (k + 1) * V \in Int /\ k * X - N * V \in Int
      /\ c * ((k + 1) * k) \in Int
  OBVIOUS
<1>. QED
  BY <1>1, <1>2, <1>3, <1>4

LEMMA SpreadGrows ==
    ASSUME NEW k \in Int, NEW X \in Int, NEW N \in Int, NEW V \in Int, NEW a \in Int, NEW c \in Int
    PROVE  (c * (N + (k + 1)) + (X + (k + 1) * a)) - (k + 2) * (V + a)
           = ((c * N + X) - (k + 1) * V) + ((k + 1) * c - (V + a))
OBVIOUS

\* i, values[i] times i, and values[i], summed up to a run.
Numbers == [i \in Nat |-> i]
Weighted(v) == [i \in 1..Len(v) |-> i * v[i]]

NumberSum(k) == SumTo(Numbers, k)

LEMMA SlopeSums ==
    ASSUME NEW v, Len(v) \in Nat, \A i \in 1..Len(v) : v[i] \in Int, NEW k \in 0..(Len(v) - 1)
    PROVE  /\ NumberSum(k) \in Int /\ SumTo(v, k) \in Int /\ SumTo(Weighted(v), k) \in Int
           /\ NumberSum(k + 1) = NumberSum(k) + (k + 1)
           /\ SumTo(v, k + 1) = SumTo(v, k) + v[k + 1]
           /\ SumTo(Weighted(v), k + 1) = SumTo(Weighted(v), k) + (k + 1) * v[k + 1]
<1>1. k \in Nat /\ k + 1 \in 1..Len(v) /\ k + 1 \in Nat
  OBVIOUS
<1>2. \A i \in 1..(k + 1) : Numbers[i] \in Int /\ v[i] \in Int
  BY <1>1 DEF Numbers
<1>3. \A i \in 1..(k + 1) : Weighted(v)[i] = i * v[i] /\ Weighted(v)[i] \in Int
  <2>. SUFFICES ASSUME NEW i \in 1..(k + 1)
                PROVE  Weighted(v)[i] = i * v[i] /\ Weighted(v)[i] \in Int
    OBVIOUS
  <2>1. i \in 1..Len(v) /\ i \in Int
    BY <1>1
  <2>2. Weighted(v)[i] = i * v[i]
    BY <2>1 DEF Weighted
  <2>3. i * v[i] \in Int
    BY <2>1
  <2>. QED
    BY <2>2, <2>3
<1>4. NumberSum(k + 1) = NumberSum(k) + Numbers[k + 1]
  BY <1>1, <1>2, SumNext DEF NumberSum
<1>5. Numbers[k + 1] = k + 1
  BY <1>1 DEF Numbers
<1>6. SumTo(v, k + 1) = SumTo(v, k) + v[k + 1]
  BY <1>1, <1>2, SumNext
<1>7. SumTo(Weighted(v), k + 1) = SumTo(Weighted(v), k) + Weighted(v)[k + 1]
  BY <1>1, <1>3, SumNext
<1>8. Weighted(v)[k + 1] = (k + 1) * v[k + 1]
  <2>1. k + 1 \in 1..(k + 1)
    BY <1>1
  <2>. QED
    BY <1>3, <2>1
<1>9. SumTo(Numbers, k) \in Int /\ SumTo(v, k) \in Int /\ SumTo(Weighted(v), k) \in Int
  <2>1. /\ \A i \in 1..k : Numbers[i] \in Int
        /\ \A i \in 1..k : v[i] \in Int
        /\ \A i \in 1..k : Weighted(v)[i] \in Int
    BY <1>1, <1>2, <1>3
  <2>. QED
    BY <1>1, <2>1, SumToType
<1>. QED
  BY <1>4, <1>5, <1>6, <1>7, <1>8, <1>9 DEF NumberSum

\* The slope over the first values, and how far a greater value is above them.
SlopeTo(v, k) == k * SumTo(Weighted(v), k) - NumberSum(k) * SumTo(v, k)

Above(v, k, c) ==
    /\ k * c > SumTo(v, k)
    /\ (c * NumberSum(k) + SumTo(Weighted(v), k)) - (k + 1) * SumTo(v, k) > 0

RisingTo(v, k) ==
    /\ 2 * NumberSum(k) = (k + 1) * k
    /\ k = 1 => SlopeTo(v, k) = 0
    /\ k > 1 => SlopeTo(v, k) > 0
    /\ k > 0 => \A c \in Int : (\A i \in 1..k : v[i] < c) => Above(v, k, c)

LEMMA SlopeStarts ==
    ASSUME NEW v, Len(v) \in Nat, \A i \in 1..Len(v) : v[i] \in Int
    PROVE  NumberSum(0) = 0 /\ SumTo(v, 0) = 0 /\ SumTo(Weighted(v), 0) = 0 /\ RisingTo(v, 0)
<1>1. 0 \in Nat /\ \A i \in 1..0 : i \notin 1..0
  OBVIOUS
<1>2. /\ \A i \in 1..0 : Numbers[i] \in Int
      /\ \A i \in 1..0 : v[i] \in Int
      /\ \A i \in 1..0 : Weighted(v)[i] \in Int
  OBVIOUS
<1>3. SumTo(Numbers, 0) = 0 /\ SumTo(v, 0) = 0 /\ SumTo(Weighted(v), 0) = 0
  BY <1>1, <1>2, SumToType
<1>. QED
  BY <1>3 DEF NumberSum, RisingTo

LEMMA SlopeRises ==
    ASSUME NEW v, Len(v) \in Nat, \A i \in 1..Len(v) : v[i] \in Int,
           \A i, j \in 1..Len(v) : i < j => v[i] < v[j],
           NEW k \in 0..(Len(v) - 1), RisingTo(v, k)
    PROVE  RisingTo(v, k + 1)
<1>. DEFINE X == SumTo(Weighted(v), k)
            N == NumberSum(k)
            V == SumTo(v, k)
            a == v[k + 1]
<1>1. k \in Int /\ k >= 0 /\ X \in Int /\ N \in Int /\ V \in Int /\ a \in Int
  BY SlopeSums
<1>2. /\ NumberSum(k + 1) = N + (k + 1)
      /\ SumTo(v, k + 1) = V + a
      /\ SumTo(Weighted(v), k + 1) = X + (k + 1) * a
  BY SlopeSums
<1>3. 2 * N = (k + 1) * k
  BY DEF RisingTo
<1>4. k > 0 => Above(v, k, a)
  <2>1. k > 0 => \A i \in 1..k : v[i] < v[k + 1]
    OBVIOUS
  <2>. QED
    BY <1>1, <2>1 DEF RisingTo
<1>5. k = 0 => N = 0 /\ V = 0 /\ X = 0
  BY SlopeStarts
<1>6. (k + 1) * (X + (k + 1) * a) - (N + (k + 1)) * (V + a)
      = (k * X - N * V) + ((a * N + X) - (k + 1) * V)
  <2>. HIDE DEF X, N, V, a
  <2>. QED
    BY <1>1, <1>3, SlopeGrows
<1>7. SlopeTo(v, k + 1) = SlopeTo(v, k) + ((a * N + X) - (k + 1) * V)
  BY <1>2, <1>6 DEF SlopeTo
<1>8. SlopeTo(v, k) \in Int /\ (a * N + X) - (k + 1) * V \in Int
  BY <1>1 DEF SlopeTo
<1>9. k = 0 => SlopeTo(v, k + 1) = 0
  <2>1. k = 0 => SlopeTo(v, k) = 0 /\ (a * N + X) - (k + 1) * V = 0
    BY <1>1, <1>5 DEF SlopeTo
  <2>. QED
    BY <1>7, <2>1
<1>10. k > 0 => SlopeTo(v, k + 1) > 0
  <2>1. k > 0 => SlopeTo(v, k) >= 0
    BY <1>1, <1>8 DEF RisingTo
  <2>2. k > 0 => (a * N + X) - (k + 1) * V > 0
    BY <1>4 DEF Above
  <2>. HIDE DEF X, N, V, a
  <2>. QED
    BY <1>7, <1>8, <2>1, <2>2
<1>11. ASSUME NEW c \in Int, \A i \in 1..(k + 1) : v[i] < c
       PROVE  Above(v, k + 1, c)
  <2>1. a < c
    BY <1>1, <1>11
  <2>2. k > 0 => Above(v, k, c)
    <3>1. k > 0 => \A i \in 1..k : v[i] < c
      BY <1>11
    <3>. QED
      BY <3>1 DEF RisingTo
  <2>3. k * c >= V /\ (c * N + X) - (k + 1) * V >= 0
    <3>1. CASE k = 0
      BY <1>5, <3>1
    <3>2. CASE k > 0
      <4>1. k * c > V /\ (c * N + X) - (k + 1) * V > 0
        BY <2>2, <3>2 DEF Above
      <4>2. k * c \in Int /\ (c * N + X) - (k + 1) * V \in Int
        BY <1>1
      <4>. HIDE DEF X, N, V, a
      <4>. QED
        BY <1>1, <4>1, <4>2
    <3>. QED
      BY <1>1, <3>1, <3>2
  <2>. HIDE DEF X, N, V, a
  <2>4. (k + 1) * c > V + a
    <3>1. (k + 1) * c = k * c + c /\ k * c \in Int
      BY <1>1
    <3>. QED
      BY <1>1, <2>1, <2>3, <3>1
  <2>5. (c * (N + (k + 1)) + (X + (k + 1) * a)) - ((k + 1) + 1) * (V + a) > 0
    <3>1. (c * (N + (k + 1)) + (X + (k + 1) * a)) - (k + 2) * (V + a)
          = ((c * N + X) - (k + 1) * V) + ((k + 1) * c - (V + a))
      BY <1>1, SpreadGrows
    <3>2. (c * N + X) - (k + 1) * V \in Int /\ (k + 1) * c \in Int /\ V + a \in Int
      BY <1>1
    <3>3. (k + 1) + 1 = k + 2
      BY <1>1
    <3>. QED
      BY <2>3, <2>4, <3>1, <3>2, <3>3
  <2>. QED
    BY <1>2, <2>4, <2>5 DEF Above
<1>12. 2 * NumberSum(k + 1) = ((k + 1) + 1) * (k + 1)
  <2>1. ((k + 1) + 1) * (k + 1) = (k + 1) * k + 2 * (k + 1) /\ (k + 1) * k \in Int
    BY <1>1
  <2>. HIDE DEF X, N, V, a
  <2>. QED
    BY <1>1, <1>2, <1>3, <2>1
<1>. QED
  BY <1>1, <1>9, <1>10, <1>11, <1>12 DEF RisingTo

\* linear_slope of values that grow is positive, and of values that are all
\* alike it is zero.
LEMMA SlopeShows ==
    ASSUME NEW v, Len(v) \in Nat, Len(v) > 1, \A i \in 1..Len(v) : v[i] \in Int
    PROVE  /\ (\A i, j \in 1..Len(v) : i < j => v[i] < v[j]) => Slope(v) > 0
           /\ (\A i \in 1..Len(v) : v[i] = v[1]) => Slope(v) = 0
<1>. DEFINE n == Len(v)
<1>1. Slope(v) = SlopeTo(v, n)
  <2>. DEFINE A == [i \in 1..n |-> i * v[i]]
              B == [i \in 1..n |-> i]
              C == [i \in 1..n |-> v[i]]
  <2>1. Slope(v) = n * SumFunction(A) - SumFunction(B) * SumFunction(C)
    BY DEF Slope
  <2>2. A = Weighted(v) /\ A = [i \in 1..n |-> A[i]]
    BY DEF Weighted
  <2>3. SumFunction(A) = SumTo(Weighted(v), n)
    <3>. HIDE DEF A, n
    <3>. QED
      BY <2>2, SumWhole DEF n
  <2>4. SumFunction(B) = NumberSum(n)
    <3>1. B = [i \in 1..n |-> Numbers[i]]
      BY DEF Numbers
    <3>. QED
      BY <3>1 DEF SumTo, NumberSum
  <2>5. SumFunction(C) = SumTo(v, n)
    BY DEF SumTo
  <2>. HIDE DEF A, B, C
  <2>. QED
    BY <2>1, <2>3, <2>4, <2>5 DEF SlopeTo
<1>2. ASSUME \A i, j \in 1..n : i < j => v[i] < v[j]
      PROVE  SlopeTo(v, n) > 0
  <2>. DEFINE T == {k \in Nat : RisingTo(v, k)}
  <2>1. 0 \in T
    BY SlopeStarts
  <2>2. \A k \in 0..(n - 1) : k \in T => k + 1 \in T
    <3>. SUFFICES ASSUME NEW k \in 0..(n - 1), k \in T
                  PROVE  RisingTo(v, k + 1)
      OBVIOUS
    <3>. QED
      BY <1>2, SlopeRises
  <2>3. n \in T
    <3>. HIDE DEF T, n
    <3>. QED
      BY <2>1, <2>2, InductionTo DEF n
  <2>. QED
    BY <2>3 DEF RisingTo
<1>3. ASSUME \A i \in 1..n : v[i] = v[1]
      PROVE  SlopeTo(v, n) = 0
  <2>. DEFINE c == v[1]
              T == {k \in Nat : SumTo(v, k) = k * c /\ SumTo(Weighted(v), k) = c * NumberSum(k)}
  <2>0. c \in Int
    OBVIOUS
  <2>1. 0 \in T
    BY <2>0, SlopeStarts
  <2>2. ASSUME NEW k \in 0..(n - 1), k \in T
        PROVE  k + 1 \in T
    <3>1. /\ NumberSum(k) \in Int
          /\ NumberSum(k + 1) = NumberSum(k) + (k + 1)
          /\ SumTo(v, k + 1) = SumTo(v, k) + v[k + 1]
          /\ SumTo(Weighted(v), k + 1) = SumTo(Weighted(v), k) + (k + 1) * v[k + 1]
      BY SlopeSums
    <3>2. v[k + 1] = c /\ k \in Nat
      BY <1>3
    <3>3. SumTo(v, k) = k * c /\ SumTo(Weighted(v), k) = c * NumberSum(k)
      BY <2>2
    <3>. HIDE DEF c
    <3>4. k * c + c = (k + 1) * c
      BY <2>0, <3>2
    <3>5. c * NumberSum(k) + (k + 1) * c = c * (NumberSum(k) + (k + 1))
      BY <2>0, <3>1, <3>2
    <3>. QED
      BY <3>1, <3>2, <3>3, <3>4, <3>5
  <2>3. n \in T
    <3>. HIDE DEF T, n
    <3>. QED
      BY <2>1, <2>2, InductionTo DEF n
  <2>4. SumTo(v, n) = n * c /\ SumTo(Weighted(v), n) = c * NumberSum(n)
    BY <2>3
  <2>5. NumberSum(n) \in Int
    <3>1. \A i \in 1..n : Numbers[i] \in Int
      BY DEF Numbers
    <3>. QED
      BY <3>1, SumToType DEF NumberSum
  <2>. HIDE DEF c
  <2>6. n * (c * NumberSum(n)) - NumberSum(n) * (n * c) = 0
    BY <2>0, <2>5
  <2>. QED
    BY <2>4, <2>6 DEF SlopeTo
<1>. QED
  BY <1>1, <1>2, <1>3

\* first_last_quartile likewise.
LEMMA QuartilesShow ==
    ASSUME NEW v, Len(v) \in Nat, Len(v) > 1, \A i \in 1..Len(v) : v[i] \in Int
    PROVE  /\ (\A i, j \in 1..Len(v) : i < j => v[i] < v[j]) => FirstLast(v) > 0
           /\ (\A i \in 1..Len(v) : v[i] = v[1]) => FirstLast(v) = 0
<1>. DEFINE n == Len(v)
            q == Max({1, n \div 4})
            F == [i \in 1..q |-> v[n - q + i]]
            G == [i \in 1..q |-> v[i]]
<1>1. FirstLast(v) = SumFunction(F) - SumFunction(G)
  BY DEF FirstLast
<1>2. q \in 1..(n - 1)
  <2>1. n \div 4 \in Nat /\ n \div 4 < n
    OBVIOUS
  <2>2. CASE n \div 4 <= 1
    <3>1. {1, n \div 4} \in SUBSET Int /\ 1 \in {1, n \div 4} /\ \A y \in {1, n \div 4} : y <= 1
      BY <2>1, <2>2
    <3>2. Max({1, n \div 4}) = 1
      BY <3>1, GreatestIs
    <3>. QED
      BY <3>2
  <2>3. CASE n \div 4 > 1
    <3>1. /\ {1, n \div 4} \in SUBSET Int /\ n \div 4 \in {1, n \div 4}
          /\ \A y \in {1, n \div 4} : y <= n \div 4
      BY <2>1, <2>3
    <3>2. Max({1, n \div 4}) = n \div 4
      BY <3>1, GreatestIs
    <3>. QED
      BY <2>1, <2>3, <3>2
  <2>. QED
    BY <2>1, <2>2, <2>3
<1>. HIDE DEF q
<1>3. SumFunction(F) = SumTo(F, q) /\ SumFunction(G) = SumTo(G, q)
  <2>1. q \in Nat /\ F = [i \in 1..q |-> F[i]] /\ G = [i \in 1..q |-> G[i]]
    BY <1>2
  <2>. HIDE DEF F, G
  <2>. QED
    BY <2>1, SumWhole
<1>4. \A i \in 1..q : /\ n - q + i \in 1..n /\ i \in 1..n /\ i < n - q + i
                      /\ F[i] = v[n - q + i] /\ G[i] = v[i]
  BY <1>2
<1>5. q \in Nat /\ 1 \in 1..q /\ \A i \in 1..q : F[i] \in Int /\ G[i] \in Int
  BY <1>2, <1>4
<1>6. SumTo(F, q) \in Int /\ SumTo(G, q) \in Int
  <2>. HIDE DEF F, G
  <2>. QED
    BY <1>5, SumToType
<1>7. ASSUME \A i, j \in 1..n : i < j => v[i] < v[j]
      PROVE  FirstLast(v) > 0
  <2>1. \A i \in 1..q : G[i] < F[i]
    BY <1>4, <1>7
  <2>. HIDE DEF F, G, n
  <2>2. \A i \in 1..q : G[i] \in Int /\ F[i] \in Int /\ G[i] <= F[i]
    BY <1>5, <2>1
  <2>3. SumTo(G, q) < SumTo(F, q)
    BY <1>5, <2>1, <2>2, SumLess
  <2>. QED
    BY <1>1, <1>3, <1>6, <2>3
<1>8. ASSUME \A i \in 1..n : v[i] = v[1]
      PROVE  FirstLast(v) = 0
  <2>1. \A i \in 1..q : F[i] = G[i]
    BY <1>4, <1>8
  <2>. HIDE DEF F, G, n
  <2>2. SumTo(F, q) = SumTo(G, q)
    BY <1>5, <2>1, SumSame
  <2>. QED
    BY <1>1, <1>3, <1>6, <2>2
<1>. QED
  BY <1>7, <1>8

LEMMA TrendsShow == TypeOK /\ ReadInv /\ SummaryInv => TrendShows
<1>. SUFFICES ASSUME TypeOK, ReadInv, SummaryInv, phase = "done", Runs > 1
              PROVE  TrendShows
  BY DEF TrendShows
<1>. DEFINE v == [r \in 1..Runs |-> runRows[r].ones]
<1>1. Runs \in Nat /\ Len(v) = Runs /\ \A r \in 1..Runs : v[r] = runRows[r].ones
  BY Files
<1>2. \A r \in 1..Runs : v[r] \in Int
  <2>1. runRows = RunRowsOf(Runs)
    BY DEF ReadInv, RunsMeasured
  <2>2. \A r \in 1..Runs : runRows[r] = WholeFile(slices[r])
    BY <1>1, <2>1, RunRowsGrow
  <2>3. \A r \in 1..Runs : Len(slices[r]) \in Nat
    BY Files
  <2>. QED
    BY <1>1, <2>2, <2>3, OnesAreCounted
<1>3. summary.perRun = StatRange(v) /\ summary.slope = Slope(v) /\ summary.firstLast = FirstLast(v)
  BY DEF SummaryInv
<1>. HIDE DEF v
<1>4. /\ summary.perRun.max = Max(Range(v)) /\ summary.perRun.min = Min(Range(v))
      /\ Range(v) = {v[r] : r \in 1..Runs}
  <2>1. DOMAIN v = 1..Runs
    BY DEF v
  <2>. QED
    BY <1>3, <2>1 DEF StatRange, Range
<1>5. ASSUME \A r \in 1..(Runs - 1) : runRows[r + 1].ones > runRows[r].ones
      PROVE  /\ summary.slope > 0
             /\ summary.firstLast > 0
             /\ summary.perRun.max - summary.perRun.min >= Runs - 1
  <2>1. \A r \in 1..(Runs - 1) : v[r + 1] > v[r]
    BY <1>1, <1>5
  <2>2. \A i, j \in 1..Runs : i <= j => v[j] - v[i] >= j - i
    BY <1>1, <1>2, <2>1, RisesBySteps
  <2>3. \A i, j \in 1..Runs : i < j => v[i] < v[j]
    BY <1>1, <1>2, <2>2
  <2>4. Slope(v) > 0 /\ FirstLast(v) > 0
    BY <1>1, <1>2, <2>3, SlopeShows, QuartilesShow
  <2>5. 1 \in 1..Runs /\ Runs \in 1..Runs /\ \A r \in 1..Runs : v[1] <= v[r] /\ v[r] <= v[Runs]
    BY <1>1, <1>2, <2>2
  <2>6. /\ Range(v) \in SUBSET Int /\ v[1] \in Range(v) /\ v[Runs] \in Range(v)
        /\ \A y \in Range(v) : v[1] <= y /\ y <= v[Runs]
    BY <1>2, <1>4, <2>5
  <2>7. Max(Range(v)) = v[Runs] /\ Min(Range(v)) = v[1]
    BY <2>6, GreatestIs, LeastIs
  <2>8. v[Runs] - v[1] >= Runs - 1
    BY <1>1, <2>2, <2>5
  <2>. QED
    BY <1>3, <1>4, <2>4, <2>7, <2>8
<1>6. ASSUME \A r \in 1..(Runs - 1) : runRows[r + 1].ones = runRows[r].ones
      PROVE  /\ summary.slope = 0
             /\ summary.firstLast = 0
             /\ summary.perRun.max = summary.perRun.min
  <2>1. ASSUME NEW k \in 0..(Runs - 1), k \in {r \in Nat : r + 1 \in 1..Runs => v[r + 1] = v[1]}
        PROVE  k + 1 \in {r \in Nat : r + 1 \in 1..Runs => v[r + 1] = v[1]}
    <3>1. k + 1 \in 1..Runs /\ k \in Nat
      BY <1>1
    <3>2. (k + 1) + 1 \in 1..Runs => v[(k + 1) + 1] = v[k + 1]
      BY <1>1, <1>6
    <3>. QED
      BY <2>1, <3>1, <3>2
  <2>. DEFINE T == {r \in Nat : r + 1 \in 1..Runs => v[r + 1] = v[1]}
  <2>2. \A r \in 1..Runs : v[r] = v[1]
    <3>. SUFFICES ASSUME NEW r \in 1..Runs
                  PROVE  v[r] = v[1]
      OBVIOUS
    <3>1. r - 1 \in Nat /\ (r - 1) + 1 = r /\ 0..((r - 1) - 1) \subseteq 0..(Runs - 1)
      BY <1>1
    <3>2. 0 \in T
      OBVIOUS
    <3>3. \A k \in 0..((r - 1) - 1) : k \in T => k + 1 \in T
      BY <2>1, <3>1
    <3>4. r - 1 \in T
      <4>. HIDE DEF T
      <4>. QED
        BY <3>1, <3>2, <3>3, InductionTo
    <3>. QED
      BY <3>1, <3>4
  <2>3. Slope(v) = 0 /\ FirstLast(v) = 0
    BY <1>1, <1>2, <2>2, SlopeShows, QuartilesShow
  <2>4. v[1] \in Range(v) /\ Range(v) = {v[1]} /\ v[1] \in Int
    BY <1>1, <1>2, <1>4, <2>2
  <2>5. Range(v) \in SUBSET Int /\ \A y \in Range(v) : v[1] <= y /\ y <= v[1]
    BY <2>4
  <2>6. Max(Range(v)) = v[1] /\ Min(Range(v)) = v[1]
    BY <2>4, <2>5, GreatestIs, LeastIs
  <2>. QED
    BY <1>3, <1>4, <2>3, <2>6
<1>. QED
  BY <1>5, <1>6 DEF TrendShows

\* The claim of write_markdown, for every dataset of every size: equal slices
\* are reported together and counted, and a rise from run to run shows in the
\* slope, between the first and the last quartile, and in the range.
THEOREM WeaknessIsReported == AnalysisSpec => []WeaknessShows
<1>1. AnalysisInit => TypeOK /\ ReadInv /\ SummaryInv
  <2>1. AnalysisInit => SummaryInv
    BY DEF AnalysisInit, SummaryInv
  <2>. QED
    BY <2>1, TypeInit, ReadInit
<1>2. TypeOK /\ ReadInv /\ SummaryInv /\ [AnalysisNext]_analysisVars
      => (TypeOK /\ ReadInv /\ SummaryInv)'
  BY TypeStep, ReadStep, SummaryStep
<1>3. TypeOK /\ ReadInv /\ SummaryInv => WeaknessShows
  BY RepeatsShow, TrendsShow DEF WeaknessShows
<1>. QED
  BY <1>1, <1>2, <1>3, PTL DEF AnalysisSpec
===============================================================================
