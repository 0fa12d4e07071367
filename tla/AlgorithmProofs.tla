-------------------------- MODULE AlgorithmProofs ---------------------------
(***************************************************************************)
(* Proofs about the pure parts of the program.  PhotoLibrary: what         *)
(* selecting, sorting and paging do to a sequence, and where the calendar  *)
(* puts an instant.  Renditions, for pictures of every size, every         *)
(* orientation and every box: a turned picture is upright, a downscaled    *)
(* one still is, and it fits.                                              *)
(*                                                                         *)
(* The two transforms of a picture meet in one fact each.  Turning moves   *)
(* each pixel to where a viewer that knows the orientation shows it, so it *)
(* keeps all pixels and their order.  Downscaling gives each position a    *)
(* block of the picture's, and the blocks divide the picture up in order.  *)
(***************************************************************************)
EXTENDS PhotoLibrary, Renditions, FiniteSetTheorems, SequenceTheorems, WellFoundedInduction, TLAPS

-----------------------------------------------------------------------------
(* Induction, by sets. *)

LEMMA LeastNat ==
    ASSUME NEW S \in SUBSET Nat, S # {}
    PROVE  \E x \in S : \A y \in S : x <= y
<1> DEFINE R == {ss \in Nat \X Nat : ss[1] < ss[2]}
<1>1. IsWellFoundedOn(R, Nat)
    BY NatLessThanWellFounded DEF OpToRel
<1>2. PICK x \in S : \A y \in S : ~(<<y, x>> \in R)
  <2> HIDE DEF R
  <2> QED
      BY <1>1, WFMin
<1>3. ASSUME NEW y \in S PROVE x <= y
  <2>1. ~(<<y, x>> \in R)
      BY <1>2
  <2>2. x \in Nat /\ y \in Nat
      OBVIOUS
  <2>3. ~(y < x)
      BY <2>1, <2>2
  <2> QED
      BY <2>2, <2>3
<1> QED
    BY <1>3

LEMMA Induction ==
    ASSUME NEW S, 0 \in S, \A n \in Nat : n \in S => n + 1 \in S
    PROVE  \A n \in Nat : n \in S
<1> DEFINE T == Nat \ S
<1>1. SUFFICES ASSUME T # {} PROVE FALSE
    OBVIOUS
<1>2. PICK x \in T : \A y \in T : x <= y
    BY <1>1, LeastNat
<1>3. x # 0 /\ x - 1 \in Nat /\ x - 1 \notin T
    BY <1>2
<1>4. x - 1 \in S
    BY <1>3
<1>5. (x - 1) + 1 \in S
    BY <1>3, <1>4
<1> QED
    BY <1>2, <1>5

LEMMA InductionTo ==
    ASSUME NEW N \in Nat, NEW S, 0 \in S, \A n \in 1..N : n - 1 \in S => n \in S
    PROVE  \A n \in 0..N : n \in S
<1> DEFINE T == {n \in Nat : n <= N => n \in S}
<1>1. 0 \in T
    OBVIOUS
<1>2. ASSUME NEW n \in Nat, n \in T PROVE n + 1 \in T
  <2>1. CASE n + 1 <= N
    <3>1. n + 1 \in 1..N /\ (n + 1) - 1 = n /\ n \in S
        BY <1>2, <2>1
    <3>2. n + 1 \in S
        BY <3>1
    <3> QED
        BY <3>2
  <2> QED
      BY <2>1
<1>3. \A n \in Nat : n \in T
  <2> HIDE DEF T
  <2> QED
      BY <1>1, <1>2, Induction
<1> QED
    BY <1>3

\* f is defined on 0..N by recursion: its first value, and each of the others from the one before.
IsRecursive(f, N, V, v, G) ==
    f \in [0..N -> V] /\ f[0] = v /\ \A n \in 1..N : f[n] = G[<<n, f[n - 1]>>]

LEMMA RecursionExists ==
    ASSUME NEW N \in Nat, NEW V, NEW v \in V, NEW G \in [(1..N) \X V -> V]
    PROVE  \E f : IsRecursive(f, N, V, v, G)
<1> DEFINE UpTo(f, k) == f[0] = v /\ \A n \in 1..N : n <= k => f[n] = G[<<n, f[n - 1]>>]
           S == {k \in Nat : \E f \in [0..N -> V] : UpTo(f, k)}
<1>1. 0 \in S
  <2> DEFINE f == [n \in 0..N |-> v]
  <2>1. f \in [0..N -> V] /\ UpTo(f, 0)
      OBVIOUS
  <2> QED
      BY <2>1
<1>2. ASSUME NEW k \in Nat, k \in S PROVE k + 1 \in S
  <2>1. PICK f \in [0..N -> V] : UpTo(f, k)
      BY <1>2
  <2> DEFINE g == [n \in 0..N |-> IF n = 0 THEN v ELSE G[<<n, f[n - 1]>>]]
  <2>2. g \in [0..N -> V]
    <3> SUFFICES ASSUME NEW n \in 0..N, n # 0 PROVE G[<<n, f[n - 1]>>] \in V
        OBVIOUS
    <3>1. n \in 1..N /\ f[n - 1] \in V
        OBVIOUS
    <3> QED
        BY <3>1
  <2>3. \A n \in 0..N : n <= k => g[n] = f[n]
      BY <2>1
  <2>4. UpTo(g, k + 1)
    <3>1. ASSUME NEW n \in 1..N, n <= k + 1 PROVE g[n] = G[<<n, g[n - 1]>>]
      <4>1. n - 1 \in 0..N /\ n - 1 <= k /\ n \in 0..N /\ n # 0
          BY <3>1
      <4>2. g[n - 1] = f[n - 1]
          BY <2>3, <4>1
      <4>3. g[n] = G[<<n, f[n - 1]>>]
          BY <4>1
      <4> HIDE DEF g
      <4> QED
          BY <4>2, <4>3
    <3>2. g[0] = v
        OBVIOUS
    <3> QED
        BY <3>1, <3>2
  <2> HIDE DEF g
  <2> QED
      BY <2>2, <2>4, SMTT(20)
<1>3. N \in S
  <2> HIDE DEF S
  <2> QED
      BY <1>1, <1>2, Induction
<1>4. PICK f \in [0..N -> V] : UpTo(f, N)
    BY <1>3
<1>5. \A n \in 1..N : f[n] = G[<<n, f[n - 1]>>]
    BY <1>4
<1> QED
    BY <1>4, <1>5 DEF IsRecursive

-----------------------------------------------------------------------------
(* Selecting. *)

\* The steps of Where.
Selecting(f, T, s, set) ==
    /\ f \in [0..Len(s) -> Seq(T)]
    /\ f[0] = <<>>
    /\ \A n \in 1..Len(s) : f[n] = IF s[n] \in set THEN Append(f[n - 1], s[n]) ELSE f[n - 1]
    /\ Where(s, set) = f[Len(s)]

LEMMA WhereSteps ==
    ASSUME NEW T, NEW s \in Seq(T), NEW set
    PROVE  \E f : Selecting(f, T, s, set)
<1> DEFINE N == Len(s)
           Next1(n, r) == IF s[n] \in set THEN Append(r, s[n]) ELSE r
           G == [p \in (1..N) \X Seq(T) |-> Next1(p[1], p[2])]
           Def(f) == [n \in 0..N |-> IF n = 0 THEN <<>> ELSE Next1(n, f[n - 1])]
           kept == CHOOSE f : f = Def(f)
<1>0. N \in Nat /\ <<>> \in Seq(T) /\ \A n \in 1..N : s[n] \in T
    OBVIOUS
<1> HIDE DEF N
<1>1. G \in [(1..N) \X Seq(T) -> Seq(T)] /\ \A n \in 1..N, r \in Seq(T) : G[<<n, r>>] = Next1(n, r)
    BY <1>0
<1>2. PICK g \in [0..N -> Seq(T)] : g[0] = <<>> /\ \A n \in 1..N : g[n] = G[<<n, g[n - 1]>>]
  <2> DEFINE V == Seq(T)
             v == <<>>
  <2> HIDE DEF G, V, v
  <2>1. N \in Nat /\ v \in V /\ G \in [(1..N) \X V -> V]
      BY <1>0, <1>1 DEF V, v
  <2>2. \E g : IsRecursive(g, N, V, v, G)
      BY <2>1, RecursionExists
  <2> QED
      BY <2>2 DEF IsRecursive, V, v
<1>3. g = Def(g)
  <2>1. ASSUME NEW n \in 1..N PROVE g[n] = Next1(n, g[n - 1])
    <3>1. n - 1 \in 0..N
        BY <1>0
    <3>2. g[n - 1] \in Seq(T)
        BY <1>2, <3>1
    <3> HIDE DEF G, Next1
    <3> QED
        BY <1>1, <1>2, <3>2
  <2> HIDE DEF Next1
  <2> QED
      BY <1>2, <2>1
<1>4. kept = Def(kept)
    BY <1>3
<1>5. Where(s, set) = kept[N]
    BY DEF Where, N
<1> HIDE DEF kept
<1>6. kept[0] = <<>> /\ \A n \in 1..N : kept[n] = Next1(n, kept[n - 1])
  <2> HIDE DEF Next1
  <2>1. 0 \in 0..N /\ \A n \in 1..N : n \in 0..N /\ n # 0
      BY <1>0
  <2> QED
      BY <1>4, <2>1
<1>7. \A n \in 0..N : kept[n] \in Seq(T)
  <2> DEFINE S == {n \in 0..N : kept[n] \in Seq(T)}
  <2>1. 0 \in S
    <3>1. kept[0] \in Seq(T) /\ 0 \in 0..N
        BY <1>0, <1>6
    <3> QED
        BY <3>1
  <2>2. ASSUME NEW n \in 1..N, n - 1 \in S PROVE n \in S
    <3>1. n \in 0..N /\ s[n] \in T /\ kept[n - 1] \in Seq(T) /\ kept[n] = Next1(n, kept[n - 1])
        BY <1>0, <1>6, <2>2
    <3>2. Next1(n, kept[n - 1]) \in Seq(T)
        BY <3>1
    <3> HIDE DEF Next1
    <3> QED
        BY <3>1, <3>2
  <2> HIDE DEF S
  <2>3. \A n \in 0..N : n \in S
      BY <1>0, <2>1, <2>2, InductionTo
  <2> QED
      BY <2>3 DEF S
<1>8. kept = [n \in 0..N |-> kept[n]] /\ kept \in [0..N -> Seq(T)]
    BY <1>4, <1>7
<1> QED
    BY <1>5, <1>6, <1>8 DEF N, Selecting

\* Each element of w is one of s, in the same order.
Within(w, s, h) == /\ h \in [DOMAIN w -> DOMAIN s]
                   /\ \A i \in DOMAIN w : w[i] = s[h[i]]
                   /\ \A i, j \in DOMAIN w : i < j => h[i] < h[j]

LEMMA WhereProperties ==
    ASSUME NEW T, NEW s \in Seq(T), NEW set
    PROVE  /\ Where(s, set) \in Seq(T)
           /\ ToSet(Where(s, set)) = ToSet(s) \cap set
           /\ \E h : Within(Where(s, set), s, h)
<1> DEFINE N == Len(s)
<1>0. PICK f : Selecting(f, T, s, set)
    BY WhereSteps
<1>1. /\ f \in [0..N -> Seq(T)]
      /\ f[0] = <<>>
      /\ \A n \in 1..N : f[n] = IF s[n] \in set THEN Append(f[n - 1], s[n]) ELSE f[n - 1]
      /\ Where(s, set) = f[N]
    BY <1>0 DEF Selecting
<1>2. N \in Nat /\ DOMAIN s = 1..N /\ \A n \in 1..N : s[n] \in T
    OBVIOUS
<1> DEFINE From(n, w, h) ==
               /\ h \in [DOMAIN w -> 1..n]
               /\ \A i \in DOMAIN w : w[i] = s[h[i]]
               /\ \A i, j \in DOMAIN w : i < j => h[i] < h[j]
           Good(n) == /\ ToSet(f[n]) = {s[i] : i \in 1..n} \cap set
                      /\ \E h : From(n, f[n], h)
           S == {n \in 0..N : Good(n)}
<1> HIDE DEF N
<1>3. 0 \in S
  <2>1. DOMAIN f[0] = {} /\ ToSet(f[0]) = {}
      BY <1>1 DEF ToSet
  <2>2. From(0, f[0], [i \in DOMAIN f[0] |-> 0])
      BY <2>1
  <2>3. {s[i] : i \in 1..0} = {}
      OBVIOUS
  <2>4. 0 \in 0..N
      BY <1>2
  <2> HIDE DEF From
  <2> QED
      BY <2>1, <2>2, <2>3, <2>4
<1>4. ASSUME NEW n \in 1..N, n - 1 \in S PROVE n \in S
  <2> DEFINE w == f[n - 1]
  <2>0. n - 1 \in 0..N /\ n \in 0..N
      BY <1>2
  <2>1. n \in 0..N /\ w \in Seq(T) /\ s[n] \in T /\ f[n] \in Seq(T)
      BY <1>1, <1>2, <2>0
  <2>2. DOMAIN w = 1..Len(w) /\ Len(w) \in Nat
      BY <2>1
  <2>3. PICK h : From(n - 1, w, h)
      BY <1>4
  <2>4. ToSet(w) = {s[i] : i \in 1..n - 1} \cap set
      BY <1>4
  <2>5. \A i \in 1..n : i \in 1..n - 1 \/ i = n
      BY <1>2
  <2>6. CASE s[n] \in set
    <3>1. f[n] = Append(w, s[n])
        BY <1>1, <2>6
    <3> DEFINE a == f[n]
               g == [i \in DOMAIN a |-> IF i = Len(w) + 1 THEN n ELSE h[i]]
    <3>2. DOMAIN a = 1..Len(w) + 1 /\ a[Len(w) + 1] = s[n] /\ \A i \in 1..Len(w) : a[i] = w[i]
        BY <2>1, <3>1
    <3> HIDE DEF w, a
    <3>3. \A i \in DOMAIN a : (i \in DOMAIN w /\ i # Len(w) + 1) \/ i = Len(w) + 1
        BY <2>2, <3>2
    <3>4. From(n, a, g)
      <4>1. \A i \in DOMAIN w : h[i] \in 1..n /\ h[i] < n
          BY <1>2, <2>3
      <4>2. g \in [DOMAIN a -> 1..n]
          BY <1>2, <3>3, <4>1
      <4>3. \A i \in DOMAIN a : a[i] = s[g[i]]
          BY <2>2, <2>3, <3>2, <3>3
      <4>4. ASSUME NEW i \in DOMAIN a, NEW j \in DOMAIN a, i < j PROVE g[i] < g[j]
        <5>1. i \in DOMAIN w /\ i # Len(w) + 1
            BY <2>2, <3>2, <4>4
        <5>2. CASE j = Len(w) + 1
            BY <4>1, <5>1, <5>2
        <5>3. CASE j \in DOMAIN w /\ j # Len(w) + 1
            BY <2>3, <4>4, <5>1, <5>3
        <5> QED
            BY <3>3, <5>2, <5>3
      <4> HIDE DEF g
      <4> QED
          BY <4>2, <4>3, <4>4
    <3>5. ToSet(a) = {s[i] : i \in 1..n} \cap set
      <4>1. ToSet(a) = ToSet(w) \cup {s[n]}
          BY <2>2, <3>2, <3>3 DEF ToSet
      <4> QED
          BY <1>2, <2>4, <2>5, <2>6, <4>1
    <3> HIDE DEF From, g
    <3>6. n \in 0..N
        BY <2>1
    <3> QED
        BY <3>4, <3>5, <3>6 DEF a
  <2>7. CASE s[n] \notin set
    <3>1. f[n] = w
        BY <1>1, <2>7
    <3>2. From(n, w, h)
        BY <1>2, <2>3
    <3>3. {s[i] : i \in 1..n} \cap set = {s[i] : i \in 1..n - 1} \cap set
        BY <1>2, <2>5, <2>7
    <3> HIDE DEF From, w
    <3> QED
        BY <2>1, <2>4, <3>1, <3>2, <3>3
  <2> QED
      BY <2>6, <2>7
<1>5. \A n \in 0..N : n \in S
  <2> HIDE DEF S
  <2> QED
      BY <1>2, <1>3, <1>4, InductionTo
<1>6. N \in 0..N /\ Good(N)
  <2>1. N \in 0..N
      BY <1>2
  <2>2. N \in S
      BY <1>5, <2>1
  <2> QED
      BY <2>1, <2>2
<1>7. ToSet(s) = {s[i] : i \in 1..N}
    BY <1>2 DEF ToSet
<1>8. \E h : Within(f[N], s, h)
  <2>1. PICK h : From(N, f[N], h)
      BY <1>6
  <2> QED
      BY <1>2, <2>1 DEF Within
<1> HIDE DEF Good
<1>9. ToSet(f[N]) = {s[i] : i \in 1..N} \cap set
    BY <1>6 DEF Good
<1> QED
    BY <1>1, <1>6, <1>7, <1>8, <1>9

-----------------------------------------------------------------------------
(* Sorting. *)

\* x inserted after the first k elements of w.
Inserted(w, k, x) == SubSeq(w, 1, k) \o <<x>> \o SubSeq(w, k + 1, Len(w))

IsInserted(a, T, w, k, x) ==
    /\ a \in Seq(T) /\ Len(a) = Len(w) + 1 /\ a[k + 1] = x
    /\ \A i \in 1..k : a[i] = w[i]
    /\ \A i \in k + 1..Len(w) : a[i + 1] = w[i]

LEMMA InsertedProperties ==
    ASSUME NEW T, NEW w \in Seq(T), NEW x \in T, NEW k \in 0..Len(w)
    PROVE  IsInserted(Inserted(w, k, x), T, w, k, x)
<1> DEFINE u == SubSeq(w, 1, k)
           v == SubSeq(w, k + 1, Len(w))
<1>1. k \in Nat /\ Len(w) \in Nat /\ k <= Len(w)
    OBVIOUS
<1>2. u \in Seq(T) /\ Len(u) = k /\ \A i \in 1..k : u[i] = w[i]
    OBVIOUS
<1>3. v \in Seq(T) /\ Len(v) = Len(w) - k /\ \A i \in 1..Len(w) - k : v[i] = w[k + i]
    OBVIOUS
<1> HIDE DEF u, v
<1> DEFINE b == u \o <<x>>
           a == b \o v
<1>4. b \in Seq(T) /\ Len(b) = k + 1 /\ b[k + 1] = x /\ \A i \in 1..k : b[i] = w[i]
    BY <1>1, <1>2
<1>5. Inserted(w, k, x) = a
    BY DEF Inserted, u, v
<1> HIDE DEF b
<1>6. a \in Seq(T) /\ Len(a) = Len(w) + 1
  <2>1. b \in Seq(T) /\ v \in Seq(T)
      BY <1>3, <1>4
  <2>2. b \o v \in Seq(T) /\ Len(b \o v) = Len(b) + Len(v)
      BY <2>1
  <2>3. Len(b) + Len(v) = Len(w) + 1
      BY <1>1, <1>3, <1>4
  <2> QED
      BY <2>2, <2>3
<1>7. (\A i \in 1..k + 1 : a[i] = b[i]) /\ \A i \in 1..Len(w) - k : a[(k + 1) + i] = v[i]
    BY <1>1, <1>3, <1>4
<1> HIDE DEF a
<1>8. ASSUME NEW i \in k + 1..Len(w) PROVE a[i + 1] = w[i]
  <2>1. i - k \in 1..Len(w) - k /\ (k + 1) + (i - k) = i + 1 /\ k + (i - k) = i
      BY <1>1
  <2> QED
      BY <1>3, <1>7, <2>1
<1>9. a[k + 1] = x
    BY <1>1, <1>4, <1>7
<1>10. ASSUME NEW i \in 1..k PROVE a[i] = w[i]
  <2>1. i \in 1..k + 1
      BY <1>1
  <2> QED
      BY <1>4, <1>7, <2>1
<1> QED
    BY <1>5, <1>6, <1>8, <1>9, <1>10 DEF IsInserted

\* A set of positions that has all those before each of its own.
LEMMA FirstPositions ==
    ASSUME NEW n \in Nat, NEW P \in SUBSET (1..n), \A i \in P : \A j \in 1..i : j \in P
    PROVE  Cardinality(P) \in 0..n /\ P = 1..Cardinality(P)
<1>1. PICK m \in 0..n : P = 1..m
  <2>1. CASE P = 1..n
      BY <2>1
  <2>2. CASE P # 1..n
    <3> DEFINE R == (1..n) \ P
    <3>0. 1..n \subseteq Nat /\ P \subseteq 1..n
        OBVIOUS
    <3>1. R \in SUBSET Nat /\ R # {}
        BY <2>2, <3>0, Zenon
    <3>2. PICK k \in R : \A i \in R : k <= i
      <4> HIDE DEF R
      <4> QED
          BY <3>1, LeastNat
    <3>3. k \in 1..n /\ k \notin P /\ \A i \in 1..k - 1 : i \in P
        BY <3>2
    <3>4. \A i \in P : i < k
        BY <3>3
    <3>5. \A i \in 1..n : i \in P <=> i \in 1..k - 1
        BY <3>3, <3>4
    <3>6. 1..k - 1 \subseteq 1..n
        BY <3>3
    <3>7. P = 1..k - 1
        BY <3>0, <3>5, <3>6, Zenon
    <3> QED
        BY <3>3, <3>7
  <2> QED
      BY <2>1, <2>2
<1>2. Cardinality(1..m) = m
  <2>1. Cardinality(1..m) = IF 1 > m THEN 0 ELSE m - 1 + 1
      BY FS_Interval
  <2> QED
      BY <2>1
<1> QED
    BY <1>1, <1>2

\* One step of SortFunc.
PlaceIn(w, x, key)     == Cardinality({i \in DOMAIN w : key[w[i]] <= key[x]})
SortStep(n, w, x, key) ==
    SubSeq(w, 1, PlaceIn(w, x, key)) \o <<x>> \o SubSeq(w, PlaceIn(w, x, key) + 1, n - 1)

InOrder(w, key) == \A i, j \in DOMAIN w : i < j => key[w[i]] <= key[w[j]]

\* a is w with x where it belongs.
Takes(a, T, w, x, key) ==
    /\ a \in Seq(T) /\ Len(a) = Len(w) + 1
    /\ ToSet(a) = ToSet(w) \cup {x}
    /\ InOrder(a, key)
    /\ IsInjective(w) /\ x \notin ToSet(w) => IsInjective(a)

LEMMA SortStepProperties ==
    ASSUME NEW T, NEW w \in Seq(T), NEW x \in T, NEW key, \A y \in T : key[y] \in Int, InOrder(w, key)
    PROVE  Takes(SortStep(Len(w) + 1, w, x, key), T, w, x, key)
<1> DEFINE P == {i \in DOMAIN w : key[w[i]] <= key[x]}
           k == PlaceIn(w, x, key)
           a == SortStep(Len(w) + 1, w, x, key)
<1>1. Len(w) \in Nat /\ DOMAIN w = 1..Len(w) /\ \A i \in 1..Len(w) : w[i] \in T
    OBVIOUS
<1>2. \A i \in P : \A j \in 1..i : j \in P
  <2> SUFFICES ASSUME NEW i \in P, NEW j \in 1..i PROVE j \in P
      OBVIOUS
  <2>1. i \in 1..Len(w) /\ j \in 1..Len(w) /\ (j = i \/ j < i)
      BY <1>1
  <2>2. key[w[j]] <= key[w[i]]
      BY <1>1, <2>1 DEF InOrder
  <2> QED
      BY <1>1, <2>1, <2>2
<1>3. k \in 0..Len(w) /\ P = 1..k
  <2>1. P \in SUBSET (1..Len(w)) /\ k = Cardinality(P)
      BY <1>1 DEF PlaceIn
  <2> HIDE DEF P, k
  <2> QED
      BY <1>1, <1>2, <2>1, FirstPositions
<1>4. a = Inserted(w, k, x)
  <2>1. (Len(w) + 1) - 1 = Len(w)
      BY <1>1
  <2> QED
      BY ONLY <2>1 DEF SortStep, Inserted
<1> HIDE DEF a, k
<1>5. /\ a \in Seq(T) /\ Len(a) = Len(w) + 1 /\ a[k + 1] = x
      /\ \A i \in 1..k : a[i] = w[i]
      /\ \A i \in k + 1..Len(w) : a[i + 1] = w[i]
  <2>1. IsInserted(Inserted(w, k, x), T, w, k, x)
      BY <1>3, InsertedProperties
  <2> QED
      BY <1>4, <2>1 DEF IsInserted
\* Where each position of a comes from.
<1> DEFINE from(i) == IF i <= k THEN i ELSE i - 1
<1>6. DOMAIN a = 1..Len(w) + 1
    BY <1>1, <1>5
<1>7. ASSUME NEW i \in DOMAIN a, i # k + 1 PROVE from(i) \in DOMAIN w /\ a[i] = w[from(i)]
  <2>1. CASE i <= k
      BY <1>1, <1>3, <1>5, <1>6, <2>1
  <2>2. CASE i > k
    <3>1. i - 1 \in k + 1..Len(w) /\ (i - 1) + 1 = i
        BY <1>1, <1>3, <1>6, <1>7, <2>2
    <3>2. a[i] = w[i - 1]
        BY <1>5, <3>1
    <3> QED
        BY <1>1, <1>3, <1>6, <2>2, <3>1, <3>2
  <2> QED
      BY <1>3, <1>6, <2>1, <2>2
<1>8. ToSet(a) = ToSet(w) \cup {x}
  <2>1. \A i \in DOMAIN a : a[i] \in ToSet(w) \cup {x}
    <3> HIDE DEF from
    <3> QED
        BY <1>5, <1>7 DEF ToSet
  <2>2. ASSUME NEW i \in DOMAIN w PROVE w[i] \in ToSet(a)
    <3>1. CASE i <= k
        BY <1>1, <1>3, <1>5, <1>6, <3>1 DEF ToSet
    <3>2. CASE i > k
      <4>1. i \in k + 1..Len(w) /\ i + 1 \in DOMAIN a
          BY <1>1, <1>3, <1>6, <3>2
      <4>2. a[i + 1] = w[i]
          BY <1>5, <4>1
      <4> QED
          BY <4>1, <4>2 DEF ToSet
    <3> QED
        BY <1>1, <1>3, <3>1, <3>2
  <2>3. x \in ToSet(a)
      BY <1>1, <1>3, <1>5, <1>6 DEF ToSet
  <2> QED
      BY <2>1, <2>2, <2>3 DEF ToSet
<1>9. InOrder(a, key)
  <2> SUFFICES ASSUME NEW i \in DOMAIN a, NEW j \in DOMAIN a, i < j PROVE key[a[i]] <= key[a[j]]
      BY DEF InOrder
  <2>1. CASE i = k + 1
    <3>1. j # k + 1 /\ from(j) \in DOMAIN w /\ a[j] = w[from(j)] /\ from(j) > k
        BY <1>3, <1>6, <1>7, <2>1
    <3>2. from(j) \notin P
        BY <1>3, <3>1
    <3> HIDE DEF from
    <3>3. ~(key[w[from(j)]] <= key[x])
        BY <3>1, <3>2
    <3>4. key[w[from(j)]] \in Int /\ key[x] \in Int
        BY <1>1, <3>1
    <3> QED
        BY <1>5, <2>1, <3>1, <3>3, <3>4
  <2>2. CASE j = k + 1
    <3>1. i # k + 1 /\ from(i) \in DOMAIN w /\ a[i] = w[from(i)] /\ from(i) \in 1..k
        BY <1>3, <1>6, <1>7, <2>2
    <3>2. from(i) \in P
        BY <1>3, <3>1
    <3> HIDE DEF from
    <3> QED
        BY <1>5, <2>2, <3>1, <3>2
  <2>3. CASE i # k + 1 /\ j # k + 1
    <3>1. from(i) \in DOMAIN w /\ a[i] = w[from(i)] /\ from(j) \in DOMAIN w /\ a[j] = w[from(j)]
        BY <1>7, <2>3
    <3>2. from(i) < from(j)
        BY <1>3, <1>6, <2>3
    <3> HIDE DEF from
    <3> QED
        BY <3>1, <3>2 DEF InOrder
  <2> QED
      BY <2>1, <2>2, <2>3
<1>10. ASSUME IsInjective(w), x \notin ToSet(w) PROVE IsInjective(a)
  <2> SUFFICES ASSUME NEW i \in DOMAIN a, NEW j \in DOMAIN a, a[i] = a[j] PROVE i = j
      BY DEF IsInjective
  <2>1. \A n \in DOMAIN w : w[n] # x
      BY <1>10 DEF ToSet
  <2>2. CASE i = k + 1 \/ j = k + 1
    <3> HIDE DEF from
    <3> QED
        BY <1>5, <1>7, <2>1, <2>2
  <2>3. CASE i # k + 1 /\ j # k + 1
    <3>1. from(i) \in DOMAIN w /\ a[i] = w[from(i)] /\ from(j) \in DOMAIN w /\ a[j] = w[from(j)]
        BY <1>7, <2>3
    <3>2. from(i) = from(j)
      <4> HIDE DEF from
      <4> QED
          BY <1>10, <3>1 DEF IsInjective
    <3> QED
        BY <1>3, <1>6, <2>3, <3>2
  <2> QED
      BY <2>2, <2>3
<1> QED
    BY <1>5, <1>8, <1>9, <1>10 DEF a, Takes

\* a is s, sorted.
SortedInto(a, T, s, key) ==
    /\ a \in Seq(T) /\ Len(a) = Len(s) /\ ToSet(a) = ToSet(s)
    /\ InOrder(a, key)
    /\ IsInjective(s) => IsInjective(a)

LEMMA SortFuncProperties ==
    ASSUME NEW T, NEW s \in Seq(T), NEW key, \A y \in T : key[y] \in Int
    PROVE  SortedInto(SortFunc(s, key), T, s, key)
<1> DEFINE N == Len(s)
           V == {w \in Seq(T) : InOrder(w, key)}
           e == <<>>
           G == [p \in (1..N) \X V |-> IF Len(p[2]) = p[1] - 1 THEN SortStep(p[1], p[2], s[p[1]], key) ELSE p[2]]
           Def(f) == [n \in 0..N |-> IF n = 0 THEN <<>> ELSE SortStep(n, f[n - 1], s[n], key)]
           sorted == CHOOSE f : f = Def(f)
<1>0. N \in Nat /\ DOMAIN s = 1..N /\ \A n \in 1..N : s[n] \in T
    OBVIOUS
<1>1. e \in V
    BY DEF InOrder
<1>2. ASSUME NEW n \in 1..N, NEW w \in V, Len(w) = n - 1
      PROVE  LET a == SortStep(n, w, s[n], key)
             IN  /\ a \in V /\ Len(a) = n /\ ToSet(a) = ToSet(w) \cup {s[n]}
                 /\ IsInjective(w) /\ s[n] \notin ToSet(w) => IsInjective(a)
  <2>1. w \in Seq(T) /\ InOrder(w, key) /\ s[n] \in T /\ Len(w) + 1 = n
      BY <1>0, <1>2
  <2>2. Takes(SortStep(Len(w) + 1, w, s[n], key), T, w, s[n], key)
      BY <2>1, SortStepProperties
  <2> QED
      BY <2>1, <2>2 DEF Takes
<1> HIDE DEF N, e
<1>3. G \in [(1..N) \X V -> V]
  <2> SUFFICES ASSUME NEW n \in 1..N, NEW w \in V
               PROVE  (IF Len(w) = n - 1 THEN SortStep(n, w, s[n], key) ELSE w) \in V
      OBVIOUS
  <2> HIDE DEF V
  <2> QED
      BY <1>2
<1>4. PICK g : IsRecursive(g, N, V, e, G)
  <2> HIDE DEF G, V
  <2> QED
      BY <1>0, <1>1, <1>3, RecursionExists
<1>5. \A n \in 0..N : g[n] \in V /\ Len(g[n]) = n
  <2> DEFINE S == {n \in 0..N : g[n] \in V /\ Len(g[n]) = n}
  <2> HIDE DEF V
  <2>1. 0 \in S
    <3>1. g[0] = e /\ Len(e) = 0
        BY <1>4 DEF IsRecursive, e
    <3> QED
        BY <1>0, <1>1, <3>1
  <2>2. ASSUME NEW n \in 1..N, n - 1 \in S PROVE n \in S
    <3>1. g[n - 1] \in V /\ Len(g[n - 1]) = n - 1 /\ g[n] = G[<<n, g[n - 1]>>]
        BY <1>4, <2>2 DEF IsRecursive
    <3>2. g[n] = SortStep(n, g[n - 1], s[n], key)
        BY <3>1
    <3> HIDE DEF G
    <3>3. g[n] \in V /\ Len(g[n]) = n
        BY <1>2, <3>1, <3>2
    <3> QED
        BY <1>0, <3>3
  <2> HIDE DEF S
  <2>3. \A n \in 0..N : n \in S
      BY <1>0, <2>1, <2>2, InductionTo
  <2> QED
      BY <2>3 DEF S
<1>6. g = Def(g)
  <2>1. ASSUME NEW n \in 1..N PROVE g[n] = SortStep(n, g[n - 1], s[n], key)
    <3>1. n - 1 \in 0..N
        BY <1>0
    <3>2. g[n - 1] \in V /\ Len(g[n - 1]) = n - 1
        BY <1>5, <3>1
    <3>3. g[n] = G[<<n, g[n - 1]>>]
        BY <1>4 DEF IsRecursive
    <3> HIDE DEF V
    <3> QED
        BY <3>2, <3>3
  <2>2. g \in [0..N -> V] /\ g[0] = <<>>
      BY <1>4 DEF IsRecursive, e
  <2> HIDE DEF V, G
  <2> QED
      BY <2>1, <2>2
<1>7. sorted = Def(sorted)
    BY <1>6
<1>8. SortFunc(s, key) = sorted[N]
    BY DEF SortFunc, N, SortStep, PlaceIn
<1> HIDE DEF sorted
<1>9. sorted[0] = e /\ \A n \in 1..N : sorted[n] = SortStep(n, sorted[n - 1], s[n], key)
  <2>1. 0 \in 0..N /\ \A n \in 1..N : n \in 0..N /\ n # 0
      BY <1>0
  <2> QED
      BY <1>7, <2>1 DEF e
<1> DEFINE Good(n) == /\ sorted[n] \in V /\ Len(sorted[n]) = n
                      /\ ToSet(sorted[n]) = {s[i] : i \in 1..n}
                      /\ IsInjective(s) => IsInjective(sorted[n])
           S == {n \in 0..N : Good(n)}
<1> HIDE DEF V
<1>10. 0 \in S
  <2>1. DOMAIN e = {} /\ Len(e) = 0 /\ ToSet(e) = {} /\ IsInjective(e)
      BY DEF e, ToSet, IsInjective
  <2>2. {s[i] : i \in 1..0} = {}
      OBVIOUS
  <2> QED
      BY <1>0, <1>1, <1>9, <2>1, <2>2
<1>11. ASSUME NEW n \in 1..N, n - 1 \in S PROVE n \in S
  <2> DEFINE w == sorted[n - 1]
             a == sorted[n]
  <2>1. w \in V /\ Len(w) = n - 1 /\ ToSet(w) = {s[i] : i \in 1..n - 1}
        /\ (IsInjective(s) => IsInjective(w))
      BY <1>11
  <2>2. a = SortStep(n, w, s[n], key)
      BY <1>9
  <2> HIDE DEF w, a
  <2>3. /\ a \in V /\ Len(a) = n /\ ToSet(a) = ToSet(w) \cup {s[n]}
        /\ IsInjective(w) /\ s[n] \notin ToSet(w) => IsInjective(a)
      BY <1>2, <2>1, <2>2
  <2>4. \A i \in 1..n : i \in 1..n - 1 \/ i = n
      BY <1>0
  <2>5. ToSet(a) = {s[i] : i \in 1..n}
      BY <1>0, <2>1, <2>3, <2>4
  <2>6. IsInjective(s) => s[n] \notin ToSet(w)
      BY <1>0, <2>1 DEF IsInjective
  <2>7. n \in 0..N
      BY <1>0
  <2> QED
      BY <2>1, <2>3, <2>5, <2>6, <2>7 DEF a
<1>12. Good(N)
  <2> HIDE DEF S
  <2>1. \A n \in 0..N : n \in S
      BY <1>0, <1>10, <1>11, InductionTo
  <2>2. N \in 0..N
      BY <1>0
  <2> QED
      BY <2>1, <2>2 DEF S
<1>13. ToSet(s) = {s[i] : i \in 1..N}
    BY <1>0 DEF ToSet
<1> QED
    BY <1>8, <1>12, <1>13 DEF SortedInto, N, V

-----------------------------------------------------------------------------
(* Immich's order. *)

Newest(rest) == CHOOSE a \in rest : \A z \in rest : Captured[a] >= Captured[z]

LEMMA CapturedIsInt == \A a \in Assets : Captured[a] \in Int
BY AssetsAreDescribed DEF AssetsAreDescribed, Zero

LEMMA SubsetsAreFinite ==
    ASSUME NEW set \in SUBSET Assets
    PROVE  IsFiniteSet(set) /\ Cardinality(set) \in Nat /\ (Cardinality(set) = 0 <=> set = {})
<1>1. IsFiniteSet(set)
    BY AssetsAreDescribed, FS_Subset DEF AssetsAreDescribed
<1> QED
    BY <1>1, FS_CardinalityType, FS_EmptySet

\* A set of assets that is not empty has a newest one.
LEMMA NewestProperties ==
    ASSUME NEW set \in SUBSET Assets, set # {}
    PROVE  Newest(set) \in set /\ \A z \in set : Captured[Newest(set)] >= Captured[z]
<1> DEFINE Has(R) == \E a \in R : \A z \in R : Captured[a] >= Captured[z]
           S == {k \in Nat : \A R \in SUBSET Assets : Cardinality(R) = k /\ R # {} => Has(R)}
<1>1. 0 \in S
    BY SubsetsAreFinite
<1>2. ASSUME NEW k \in Nat, k \in S PROVE k + 1 \in S
  <2> SUFFICES ASSUME NEW R \in SUBSET Assets, Cardinality(R) = k + 1 PROVE Has(R)
      OBVIOUS
  <2>1. R # {} /\ IsFiniteSet(R)
      BY SubsetsAreFinite
  <2>2. PICK x \in R : TRUE
      BY <2>1
  <2> DEFINE Q == R \ {x}
  <2>3. Q \in SUBSET Assets /\ Cardinality(Q) = k
    <3>1. Cardinality(R \ {x}) = Cardinality(R) - 1
        BY <2>1, <2>2, FS_RemoveElement
    <3> QED
        BY <3>1
  <2>4. CASE Q = {}
    <3>1. R = {x}
        BY <2>2, <2>4
    <3> QED
        BY <3>1, CapturedIsInt
  <2>5. CASE Q # {}
    <3>1. PICK a \in Q : \A z \in Q : Captured[a] >= Captured[z]
      <4> HIDE DEF Q
      <4> QED
          BY <1>2, <2>3, <2>5
    <3>2. Captured[a] \in Int /\ Captured[x] \in Int /\ \A z \in R : Captured[z] \in Int /\ (z \in Q \/ z = x)
        BY <2>2, CapturedIsInt
    <3>3. CASE Captured[a] >= Captured[x]
        BY <3>1, <3>2, <3>3
    <3>4. CASE Captured[x] > Captured[a]
        BY <2>2, <3>1, <3>2, <3>4
    <3> QED
        BY <3>2, <3>3, <3>4
  <2> QED
      BY <2>4, <2>5
<1>3. Has(set)
  <2>1. \A k \in Nat : k \in S
    <3> HIDE DEF S
    <3> QED
        BY <1>1, <1>2, Induction
  <2>2. Cardinality(set) \in S
      BY <2>1, SubsetsAreFinite
  <2> QED
      BY <2>2
<1> QED
    BY <1>3 DEF Newest

\* The steps of NewestFirst.
ListStep(g, R) == IF R = {} THEN <<>> ELSE <<Newest(R)>> \o g[R \ {Newest(R)}]

LEMMA ListExists ==
    ASSUME NEW set \in SUBSET Assets
    PROVE  \E g : g = [R \in SUBSET set |-> ListStep(g, R)]
<1> DEFINE D == SUBSET set
           UpTo(g, k) == \A R \in D : Cardinality(R) <= k => g[R] = ListStep(g, R)
           F == [D -> Seq(set)]
           S == {k \in Nat : \E g \in F : UpTo(g, k)}
<1>0. \A R \in D : /\ R \in SUBSET Assets /\ Cardinality(R) \in Nat /\ IsFiniteSet(R)
                   /\ (Cardinality(R) = 0 <=> R = {})
    BY SubsetsAreFinite
<1>1. ASSUME NEW R \in D, R # {}
      PROVE  LET Q == R \ {Newest(R)}
             IN  Newest(R) \in set /\ Q \in D /\ Cardinality(Q) = Cardinality(R) - 1
  <2>1. Newest(R) \in R
      BY <1>0, <1>1, NewestProperties
  <2>2. Cardinality(R \ {Newest(R)}) = Cardinality(R) - 1
      BY <1>0, <2>1, FS_RemoveElement
  <2> QED
      BY <2>1, <2>2
<1>2. ASSUME NEW g \in F, NEW R \in D PROVE ListStep(g, R) \in Seq(set)
  <2>1. CASE R = {}
      BY <2>1 DEF ListStep
  <2>2. CASE R # {}
    <3> DEFINE x == Newest(R)
               b == g[R \ {Newest(R)}]
    <3>1. x \in set /\ b \in Seq(set)
        BY <1>1, <2>2
    <3> HIDE DEF x, b
    <3>2. <<x>> \o b \in Seq(set)
        BY <3>1
    <3> QED
        BY <2>2, <3>2 DEF ListStep, x, b
  <2> QED
      BY <2>1, <2>2
<1> HIDE DEF D
<1>3. 0 \in S
  <2> DEFINE g == [R \in D |-> <<>>]
  <2>1. g \in F /\ UpTo(g, 0)
      BY <1>0 DEF ListStep
  <2> QED
      BY <2>1
<1>4. ASSUME NEW k \in Nat, k \in S PROVE k + 1 \in S
  <2>1. PICK g \in F : UpTo(g, k)
      BY <1>4
  <2> DEFINE h == [R \in D |-> ListStep(g, R)]
  <2> HIDE DEF F
  <2>2. h \in F
    <3>1. \A R \in D : ListStep(g, R) \in Seq(set)
        BY <1>2
    <3> QED
        BY <3>1 DEF F
  <2>3. ASSUME NEW R \in D, Cardinality(R) <= k + 1 PROVE h[R] = ListStep(h, R)
    <3>1. CASE R = {}
        BY <3>1 DEF ListStep
    <3>2. CASE R # {}
      <4> DEFINE Q == R \ {Newest(R)}
      <4>1. Q \in D /\ Cardinality(Q) <= k
          BY <1>0, <1>1, <2>3, <3>2
      <4> HIDE DEF Q
      <4>2. g[Q] = h[Q]
          BY <2>1, <4>1
      <4>3. h[R] = ListStep(g, R)
          OBVIOUS
      <4> HIDE DEF h
      <4> QED
          BY <3>2, <4>2, <4>3 DEF ListStep, Q
    <3> QED
        BY <3>1, <3>2
  <2> HIDE DEF h
  <2> QED
      BY <2>2, <2>3
<1>5. PICK g \in F : UpTo(g, Cardinality(set))
  <2>1. \A k \in Nat : k \in S
    <3> HIDE DEF S
    <3> QED
        BY <1>3, <1>4, Induction
  <2> QED
      BY <2>1, SubsetsAreFinite
<1>6. ASSUME NEW R \in D PROVE g[R] = ListStep(g, R)
  <2>1. Cardinality(R) <= Cardinality(set)
      BY SubsetsAreFinite, FS_Subset DEF D
  <2> QED
      BY <1>5, <2>1
<1>7. g = [R \in D |-> g[R]]
    BY DEF F
<1>8. g = [R \in D |-> ListStep(g, R)]
    BY <1>6, <1>7
<1> QED
    BY <1>8 DEF D

\* a lists the assets of a set, each once, newest first.
Lists(a, set) ==
    /\ a \in Seq(set) /\ Len(a) = Cardinality(set) /\ ToSet(a) = set /\ IsInjective(a)
    /\ \A i, j \in DOMAIN a : i < j => Captured[a[i]] >= Captured[a[j]]

LEMMA ListsMore ==
    ASSUME NEW R \in SUBSET Assets, NEW x \in R, \A z \in R : Captured[x] >= Captured[z],
           NEW b, Lists(b, R \ {x})
    PROVE  Lists(<<x>> \o b, R)
<1> DEFINE a == <<x>> \o b
           Q == R \ {x}
<1>1. Cardinality(Q) = Cardinality(R) - 1
    BY SubsetsAreFinite, FS_RemoveElement
<1>2. b \in Seq(R) /\ Len(b) = Cardinality(Q) /\ ToSet(b) = Q /\ IsInjective(b)
  <2>1. b \in Seq(Q)
      BY DEF Lists
  <2>2. b \in Seq(R)
      BY <2>1
  <2> QED
      BY <2>2 DEF Lists
<1>3. DOMAIN b = 1..Len(b) /\ Len(b) \in Nat /\ Cardinality(R) \in Nat
    BY <1>2, SubsetsAreFinite
<1>4. a \in Seq(R) /\ Len(a) = Cardinality(R) /\ a[1] = x /\ \A i \in DOMAIN b : a[i + 1] = b[i]
    BY <1>1, <1>2, <1>3
<1>5. DOMAIN a = 1..Len(b) + 1
    BY <1>1, <1>2, <1>3, <1>4
<1> HIDE DEF a
<1>6. ASSUME NEW i \in DOMAIN a, i # 1 PROVE i - 1 \in DOMAIN b /\ a[i] = b[i - 1]
  <2>1. i - 1 \in DOMAIN b /\ (i - 1) + 1 = i
      BY <1>3, <1>5, <1>6
  <2> QED
      BY <1>4, <2>1
<1>7. \A i \in DOMAIN b : b[i] \in Q
    BY <1>2 DEF ToSet
<1> HIDE DEF Q
<1>8. ToSet(a) = R
  <2>1. \A i \in DOMAIN a : a[i] \in R
      BY <1>4
  <2>2. ASSUME NEW z \in R PROVE z \in ToSet(a)
    <3>1. CASE z = x
        BY <1>3, <1>4, <1>5, <3>1 DEF ToSet
    <3>2. CASE z # x
      <4>1. PICK i \in DOMAIN b : z = b[i]
          BY <1>2, <3>2 DEF ToSet, Q
      <4>2. i + 1 \in DOMAIN a /\ a[i + 1] = z
          BY <1>3, <1>4, <1>5, <4>1
      <4> QED
          BY <4>2 DEF ToSet
    <3> QED
        BY <3>1, <3>2
  <2> QED
      BY <2>1, <2>2 DEF ToSet
<1>9. IsInjective(a)
  <2> SUFFICES ASSUME NEW i \in DOMAIN a, NEW j \in DOMAIN a, a[i] = a[j] PROVE i = j
      BY DEF IsInjective
  <2>1. \A k \in DOMAIN b : b[k] # x
      BY <1>7 DEF Q
  <2>2. CASE i = 1 \/ j = 1
      BY <1>4, <1>6, <2>1, <2>2
  <2>3. CASE i # 1 /\ j # 1
    <3>1. i - 1 = j - 1
        BY <1>2, <1>6, <2>3 DEF IsInjective
    <3> QED
        BY <1>3, <1>5, <3>1
  <2> QED
      BY <2>2, <2>3
<1>10. ASSUME NEW i \in DOMAIN a, NEW j \in DOMAIN a, i < j PROVE Captured[a[i]] >= Captured[a[j]]
  <2>1. CASE i = 1
      BY <1>4, <2>1
  <2>2. CASE i # 1
    <3>1. j # 1 /\ i - 1 < j - 1
        BY <1>3, <1>5, <1>10, <2>2
    <3>2. \A k, l \in DOMAIN b : k < l => Captured[b[k]] >= Captured[b[l]]
        BY DEF Lists
    <3> QED
        BY <1>6, <2>2, <3>1, <3>2
  <2> QED
      BY <2>1, <2>2
<1> QED
    BY <1>4, <1>8, <1>9, <1>10 DEF Lists, a

LEMMA NewestFirstProperties ==
    ASSUME NEW set \in SUBSET Assets
    PROVE  Lists(NewestFirst(set), set)
<1> DEFINE D == SUBSET set
           list == CHOOSE g : g = [R \in D |-> ListStep(g, R)]
<1>1. list = [R \in D |-> ListStep(list, R)]
    BY ListExists
<1>2. NewestFirst(set) = list[set]
    BY DEF NewestFirst, ListStep, Newest
<1> HIDE DEF list
<1>3. \A R \in D : list[R] = ListStep(list, R)
    BY <1>1
<1> DEFINE S == {k \in Nat : \A R \in D : Cardinality(R) = k => Lists(list[R], R)}
<1>4. 0 \in S
  <2> SUFFICES ASSUME NEW R \in D, Cardinality(R) = 0 PROVE Lists(list[R], R)
      OBVIOUS
  <2>1. R = {}
      BY SubsetsAreFinite
  <2>2. list[R] = <<>>
      BY <1>3, <2>1 DEF ListStep
  <2>3. Lists(<<>>, {})
      BY FS_EmptySet DEF Lists, ToSet, IsInjective
  <2> QED
      BY <2>1, <2>2, <2>3
<1>5. ASSUME NEW k \in Nat, k \in S PROVE k + 1 \in S
  <2> SUFFICES ASSUME NEW R \in D, Cardinality(R) = k + 1 PROVE Lists(list[R], R)
      OBVIOUS
  <2>1. R \in SUBSET Assets /\ R # {} /\ IsFiniteSet(R)
      BY SubsetsAreFinite
  <2> DEFINE x == Newest(R)
             Q == R \ {x}
  <2>2. x \in R /\ \A z \in R : Captured[x] >= Captured[z]
      BY <2>1, NewestProperties
  <2>3. Q \in D /\ Cardinality(Q) = k
    <3>1. Cardinality(Q) = Cardinality(R) - 1
        BY <2>1, <2>2, FS_RemoveElement
    <3> QED
        BY <3>1
  <2>4. list[R] = <<x>> \o list[Q]
      BY <1>3, <2>1 DEF ListStep
  <2>5. Lists(list[Q], Q)
    <3> HIDE DEF Q
    <3> QED
        BY <1>5, <2>3
  <2> HIDE DEF x
  <2> QED
      BY <2>1, <2>2, <2>4, <2>5, ListsMore
<1>6. \A k \in Nat : k \in S
  <2> HIDE DEF S
  <2> QED
      BY <1>4, <1>5, Induction
<1> QED
    BY <1>2, <1>6, SubsetsAreFinite


-----------------------------------------------------------------------------
(* The calendar. *)

LEMMA MidnightIsInt == \A y, d \in Int : Midnight(y, d) \in Int
BY YearsHaveDays DEF YearsHaveDays, Midnight

LEMMA DaysOfYear ==
    ASSUME NEW y \in Nat
    PROVE  /\ Midnight(y + 1, 1) = Midnight(y, 1) + 24 * DaysIn(y)
           /\ DaysIn(y) \in Nat /\ DaysIn(y) >= Days
<1>1. Days * (y + 1) = Days * y + Days /\ Days * y \in Int /\ Days \in Nat
    BY YearsHaveDays DEF YearsHaveDays
<1>2. (y + 4) \div 4 = (IF y % 4 = 0 THEN 1 ELSE 0) + (y + 3) \div 4
    OBVIOUS
<1> QED
    BY <1>1, <1>2 DEF Midnight, DaysIn

\* Later years begin later, by all the days between.
LEMMA LaterYears ==
    ASSUME NEW x \in Nat, NEW y \in Nat, x <= y, NEW d \in Int
    PROVE  Midnight(x, d) + 24 * (Days * (y - x)) <= Midnight(y, d)
<1>1. Days * y = Days * x + Days * (y - x) /\ Days * x \in Int /\ Days * (y - x) \in Int
    BY YearsHaveDays DEF YearsHaveDays
<1>2. (x + 3) \div 4 <= (y + 3) \div 4
    OBVIOUS
<1> QED
    BY <1>1, <1>2 DEF Midnight

LEMMA AtLeastAsMany ==
    ASSUME NEW n \in Nat
    PROVE  Days * n \in Nat /\ Days * n >= n /\ (n >= 1 => Days * n >= Days)
<1>1. Days \in Nat /\ Days >= 1
    BY YearsHaveDays DEF YearsHaveDays
<1>2. Days * n = n + (Days - 1) * n /\ (Days - 1) * n >= 0
    BY <1>1
<1>3. ASSUME n >= 1 PROVE Days * n >= Days
  <2>1. Days * n = Days + Days * (n - 1) /\ Days * (n - 1) >= 0
      BY <1>1, <1>3
  <2> QED
      BY <1>1, <2>1
<1> QED
    BY <1>1, <1>2, <1>3

LEMMA YearExists ==
    ASSUME NEW t \in Nat
    PROVE  \E y \in 0..t \div 24 : Midnight(y, 1) <= t /\ t < Midnight(y + 1, 1)
<1> DEFINE q == t \div 24
           S == {y \in Nat : t < Midnight(y + 1, 1)}
<1>1. q \in Nat /\ t < 24 * q + 24
    OBVIOUS
<1> HIDE DEF q
<1>2. Midnight(0, 1) = 0
  <2>1. Days * 0 = 0
      BY YearsHaveDays DEF YearsHaveDays
  <2> QED
      BY <2>1 DEF Midnight
<1>3. q \in S
  <2>1. Midnight(0, 1) + 24 * (Days * (q + 1 - 0)) <= Midnight(q + 1, 1)
      BY <1>1, LaterYears
  <2>2. Days * (q + 1) >= q + 1 /\ Days * (q + 1) \in Nat
      BY <1>1, AtLeastAsMany
  <2>3. Midnight(q + 1, 1) \in Int
      BY <1>1, MidnightIsInt
  <2> QED
      BY <1>1, <1>2, <2>1, <2>2, <2>3
<1>4. PICK y \in S : \A z \in S : y <= z
    BY <1>3, LeastNat
<1>5. y \in 0..q
    BY <1>1, <1>3, <1>4
<1>6. Midnight(y, 1) <= t
  <2>1. CASE y = 0
      BY <1>2, <2>1
  <2>2. CASE y # 0
    <3>1. y - 1 \in Nat /\ (y - 1) + 1 = y /\ y - 1 \notin S
        BY <1>4, <2>2
    <3>2. Midnight(y, 1) \in Int
        BY MidnightIsInt
    <3> QED
        BY <3>1, <3>2
  <2> QED
      BY <2>1, <2>2
<1> QED
    BY <1>4, <1>5, <1>6 DEF q

\* The year and the day of an instant are those in which it is.
LEMMA DateProperties ==
    ASSUME NEW t \in Nat, NEW y, NEW d, DateOf(t) = <<y, d>>
    PROVE  /\ y = YearOf(t) /\ y \in Nat /\ Midnight(y, 1) <= t /\ t < Midnight(y + 1, 1)
           /\ d \in 1..DaysIn(y)
           /\ Midnight(y, d) <= t /\ t < Midnight(y, d) + 24
<1>1. y = YearOf(t) /\ d = 1 + (t - Midnight(y, 1)) \div 24
    BY DEF DateOf
<1>2. y \in Nat /\ Midnight(y, 1) <= t /\ t < Midnight(y + 1, 1)
  <2>1. \E z \in 0..t \div 24 : Midnight(z, 1) <= t /\ t < Midnight(z + 1, 1)
      BY YearExists
  <2>2. y \in 0..t \div 24 /\ Midnight(y, 1) <= t /\ t < Midnight(y + 1, 1)
    <3> HIDE DEF Midnight
    <3> QED
        BY <1>1, <2>1 DEF YearOf
  <2> QED
      BY <2>2
<1> DEFINE s == t - Midnight(y, 1)
<1>3. Midnight(y, 1) \in Int /\ Midnight(y + 1, 1) = Midnight(y, 1) + 24 * DaysIn(y) /\ DaysIn(y) \in Nat
    BY <1>2, DaysOfYear, MidnightIsInt
<1>4. s \in Nat /\ s < 24 * DaysIn(y)
    BY <1>2, <1>3
<1>5. d \in Int /\ d >= 1 /\ 24 * (d - 1) <= s /\ s < 24 * d
  <2> HIDE DEF s
  <2>1. d = 1 + s \div 24
      BY <1>1 DEF s
  <2> QED
      BY <1>4, <2>1
<1>6. Midnight(y, d) = Midnight(y, 1) + 24 * (d - 1)
  <2>1. Days * y \in Int
      BY <1>2, YearsHaveDays DEF YearsHaveDays
  <2> QED
      BY <1>2, <1>5, <2>1 DEF Midnight
<1> QED
    BY <1>1, <1>2, <1>3, <1>4, <1>5, <1>6

LEMMA YearProperties ==
    ASSUME NEW t \in Nat
    PROVE  YearOf(t) \in Nat /\ Midnight(YearOf(t), 1) <= t /\ t < Midnight(YearOf(t) + 1, 1)
<1>1. \E z \in 0..t \div 24 : Midnight(z, 1) <= t /\ t < Midnight(z + 1, 1)
    BY YearExists
<1>2. YearOf(t) \in 0..t \div 24 /\ Midnight(YearOf(t), 1) <= t /\ t < Midnight(YearOf(t) + 1, 1)
  <2> HIDE DEF Midnight
  <2> QED
      BY <1>1 DEF YearOf
<1> QED
    BY <1>2

-----------------------------------------------------------------------------
(* Pages, and searches put one after another. *)

LEMMA FirstAnd ==
    ASSUME NEW T, NEW a \in Seq(T), NEW k \in 0..Len(a), NEW n \in k..Len(a)
    PROVE  SubSeq(a, 1, k) \o SubSeq(a, k + 1, n) = SubSeq(a, 1, n)
<1>1. 1 \in 1..Len(a) + 1 /\ k \in (1 - 1)..Len(a)
    OBVIOUS
<1> QED
    BY <1>1, ConcatAdjacentSubSeq

\* The pages add up: after the first p - 1 of them, page p leads to the first p, or to all there is.
LEMMA PageProperties ==
    ASSUME NEW set \in SUBSET Assets, NEW p \in Nat \ {0}, (p - 1) * PageSize <= Cardinality(set)
    PROVE  LET all   == NewestFirst(set)
               first == SubSeq(all, 1, (p - 1) * PageSize)
               pg    == PageOf(set, p)
           IN  /\ pg.items \in Seq(Assets)
               /\ pg.more => /\ p * PageSize <= Cardinality(set)
                             /\ first \o pg.items = SubSeq(all, 1, p * PageSize)
               /\ ~pg.more => first \o pg.items = all
<1> DEFINE all == NewestFirst(set)
           k == (p - 1) * PageSize
           K == p * PageSize
           C == Cardinality(set)
           pg == PageOf(set, p)
<1>1. Lists(all, set)
    BY NewestFirstProperties
<1>2. all \in Seq(set) /\ Len(all) = C
  <2> HIDE DEF all
  <2> QED
      BY <1>1 DEF Lists
<1>3. k \in Nat /\ K = k + PageSize /\ K \in Nat /\ k <= K /\ C \in Nat /\ k <= C
    BY SizesArePositive, SubsetsAreFinite DEF SizesArePositive
<1>4. pg = [items |-> SubSeq(all, k + 1, IF K < C THEN K ELSE C), more |-> K < C]
    BY DEF PageOf
<1> HIDE DEF all, k, K, C, pg
<1> DEFINE adds == /\ pg.items \in Seq(Assets)
                   /\ pg.more => /\ K <= C
                                 /\ SubSeq(all, 1, k) \o pg.items = SubSeq(all, 1, K)
                   /\ ~pg.more => SubSeq(all, 1, k) \o pg.items = all
<1>5. ASSUME K < C PROVE adds
  <2>1. pg.more /\ pg.items = SubSeq(all, k + 1, K)
      BY <1>4, <1>5
  <2>2. k \in 0..Len(all) /\ K \in k..Len(all)
      BY <1>2, <1>3, <1>5
  <2>3. SubSeq(all, 1, k) \o SubSeq(all, k + 1, K) = SubSeq(all, 1, K)
      BY <1>2, <2>2, FirstAnd
  <2>4. SubSeq(all, k + 1, K) \in Seq(Assets)
    <3>1. \A i \in k + 1..K : all[i] \in Assets
        BY <1>2, <1>3, <1>5
    <3> QED
        BY <1>3, <3>1, SubSeqProperties
  <2>5. K <= C
      BY <1>3, <1>5
  <2> QED
      BY <2>1, <2>3, <2>4, <2>5
<1>6. ASSUME ~(K < C) PROVE adds
  <2>1. ~pg.more /\ pg.items = SubSeq(all, k + 1, C)
      BY <1>4, <1>6
  <2>2. k \in 0..Len(all) /\ C \in k..Len(all)
      BY <1>2, <1>3
  <2>3. SubSeq(all, 1, k) \o SubSeq(all, k + 1, C) = SubSeq(all, 1, C)
      BY <1>2, <2>2, FirstAnd
  <2>4. SubSeq(all, 1, C) = all
      BY <1>2, SubSeqFull
  <2>5. SubSeq(all, k + 1, C) \in Seq(Assets)
    <3>1. \A i \in k + 1..C : all[i] \in Assets
        BY <1>2, <1>3
    <3> QED
        BY <1>3, <3>1, SubSeqProperties
  <2> QED
      BY <2>1, <2>3, <2>4, <2>5
<1>7. adds
    BY <1>5, <1>6
<1> HIDE DEF adds
<1> QED
    BY ONLY <1>7 DEF adds, all, k, K, C, pg

LEMMA PageIsSeq ==
    ASSUME NEW set \in SUBSET Assets, NEW p \in Nat \ {0}
    PROVE  PageOf(set, p).items \in Seq(Assets)
<1> DEFINE all == NewestFirst(set)
           k == (p - 1) * PageSize
           n == IF PageOf(set, p).more THEN p * PageSize ELSE Cardinality(set)
<1>1. all \in Seq(set) /\ Len(all) = Cardinality(set)
  <2> HIDE DEF all
  <2> QED
      BY NewestFirstProperties DEF Lists, all
<1>2. PageOf(set, p).items = SubSeq(all, k + 1, n)
    BY DEF PageOf
<1>3. k \in Nat /\ n \in Nat /\ n <= Cardinality(set) /\ Cardinality(set) \in Nat
  <2> DEFINE K == p * PageSize
             C == Cardinality(set)
  <2>1. k \in Nat /\ K \in Nat /\ C \in Nat
      BY SizesArePositive, SubsetsAreFinite DEF SizesArePositive
  <2>2. PageOf(set, p).more <=> K < C
      BY DEF PageOf
  <2> HIDE DEF k, K, C
  <2> QED
      BY <2>1, <2>2 DEF K, C
<1> HIDE DEF all, k, n
<1>4. \A i \in k + 1..n : all[i] \in Assets
    BY <1>1, <1>3
<1> QED
    BY <1>2, <1>3, <1>4, SubSeqProperties

\* Sequences put one after another: their elements, each once if none has two the same and no two
\* have one in common; and in order if each is, and each comes before the next.
Apart(ss, n) == /\ \A i \in 1..n : IsInjective(ss[i])
                /\ \A i, j \in 1..n : i # j => ToSet(ss[i]) \cap ToSet(ss[j]) = {}
InTurn(ss, n, key) == /\ \A i \in 1..n : InOrder(ss[i], key)
                      /\ \A i, j \in 1..n : i < j =>
                             \A x \in ToSet(ss[i]), y \in ToSet(ss[j]) : key[x] <= key[y]
Joins(a, ss, n, T) == /\ a \in Seq(T) /\ ToSet(a) = UNION {ToSet(ss[i]) : i \in 1..n}
                      /\ Apart(ss, n) => IsInjective(a)
                      /\ \A key : InTurn(ss, n, key) => InOrder(a, key)

LEMMA JoinOne ==
    ASSUME NEW T, NEW n \in Nat, NEW ss, NEW a, Joins(a, ss, n, T), ss[n + 1] \in Seq(T)
    PROVE  Joins(a \o ss[n + 1], ss, n + 1, T)
<1> DEFINE b == ss[n + 1]
           c == a \o b
<1>1. a \in Seq(T) /\ b \in Seq(T) /\ ToSet(a) = UNION {ToSet(ss[i]) : i \in 1..n}
    BY DEF Joins
<1> HIDE DEF b
<1>2. /\ c \in Seq(T) /\ Len(c) = Len(a) + Len(b) /\ Len(a) \in Nat /\ Len(b) \in Nat
      /\ \A i \in 1..Len(a) + Len(b) : c[i] = IF i <= Len(a) THEN a[i] ELSE b[i - Len(a)]
    BY <1>1, ConcatProperties
<1>3. DOMAIN a = 1..Len(a) /\ DOMAIN b = 1..Len(b) /\ DOMAIN c = 1..Len(a) + Len(b)
    BY <1>1, <1>2
<1> HIDE DEF c
<1>4. ToSet(c) = ToSet(a) \cup ToSet(b)
  <2>1. ASSUME NEW i \in DOMAIN c PROVE c[i] \in ToSet(a) \cup ToSet(b)
    <3>1. CASE i <= Len(a)
        BY <1>2, <1>3, <3>1 DEF ToSet
    <3>2. CASE ~(i <= Len(a))
      <4>1. i - Len(a) \in DOMAIN b /\ c[i] = b[i - Len(a)]
          BY <1>2, <1>3, <3>2
      <4> QED
          BY <4>1 DEF ToSet
    <3> QED
        BY <3>1, <3>2
  <2>2. ASSUME NEW i \in DOMAIN a PROVE a[i] \in ToSet(c)
    <3>1. i \in DOMAIN c /\ c[i] = a[i]
        BY <1>2, <1>3
    <3> QED
        BY <3>1 DEF ToSet
  <2>3. ASSUME NEW i \in DOMAIN b PROVE b[i] \in ToSet(c)
    <3>1. i + Len(a) \in DOMAIN c /\ c[i + Len(a)] = b[i]
        BY <1>2, <1>3
    <3> QED
        BY <3>1 DEF ToSet
  <2> QED
      BY <2>1, <2>2, <2>3 DEF ToSet
<1>5. ToSet(c) = UNION {ToSet(ss[i]) : i \in 1..n + 1}
  <2>1. \A i : i \in 1..n + 1 <=> i \in 1..n \/ i = n + 1
      OBVIOUS
  <2> QED
      BY <1>1, <1>4, <2>1, Zenon DEF b
<1>6. ASSUME Apart(ss, n + 1) PROVE IsInjective(c)
  <2>1. Apart(ss, n) /\ IsInjective(b) /\ \A i \in 1..n : ToSet(ss[i]) \cap ToSet(b) = {}
    <3>1. n + 1 \in 1..n + 1 /\ \A i \in 1..n : i \in 1..n + 1 /\ i # n + 1
        OBVIOUS
    <3> QED
        BY <1>6, <3>1 DEF Apart, b
  <2>2. IsInjective(a)
      BY <2>1 DEF Joins
  <2>3. ToSet(a) \cap ToSet(b) = {}
      BY <1>1, <2>1
  <2> SUFFICES ASSUME NEW i \in DOMAIN c, NEW j \in DOMAIN c, c[i] = c[j] PROVE i = j
      BY DEF IsInjective
  <2>4. \A k \in DOMAIN c : \/ k \in DOMAIN a /\ c[k] = a[k] /\ c[k] \in ToSet(a)
                            \/ k - Len(a) \in DOMAIN b /\ c[k] = b[k - Len(a)] /\ c[k] \in ToSet(b)
    <3> SUFFICES ASSUME NEW k \in DOMAIN c
                 PROVE  \/ k \in DOMAIN a /\ c[k] = a[k]
                        \/ k - Len(a) \in DOMAIN b /\ c[k] = b[k - Len(a)]
        BY DEF ToSet
    <3> QED
        BY <1>2, <1>3
  <2>5. CASE c[i] \in ToSet(a)
    <3>1. i \in DOMAIN a /\ j \in DOMAIN a /\ a[i] = a[j]
        BY <2>3, <2>4, <2>5
    <3> QED
        BY <2>2, <3>1 DEF IsInjective
  <2>6. CASE c[i] \in ToSet(b)
    <3>1. i - Len(a) \in DOMAIN b /\ j - Len(a) \in DOMAIN b /\ b[i - Len(a)] = b[j - Len(a)]
        BY <2>3, <2>4, <2>6
    <3>2. i - Len(a) = j - Len(a)
        BY <2>1, <3>1 DEF IsInjective
    <3> QED
        BY <1>2, <1>3, <3>2
  <2> QED
      BY <2>4, <2>5, <2>6
<1>7. ASSUME NEW key, InTurn(ss, n + 1, key) PROVE InOrder(c, key)
  <2>1. /\ InTurn(ss, n, key) /\ InOrder(b, key)
        /\ \A i \in 1..n : \A x \in ToSet(ss[i]), y \in ToSet(b) : key[x] <= key[y]
    <3>1. n + 1 \in 1..n + 1 /\ \A i \in 1..n : i \in 1..n + 1 /\ i < n + 1
        OBVIOUS
    <3> QED
        BY <1>7, <3>1 DEF InTurn, b
  <2>2. InOrder(a, key)
      BY <2>1 DEF Joins
  <2>3. \A x \in ToSet(a), y \in ToSet(b) : key[x] <= key[y]
      BY <1>1, <2>1
  <2> SUFFICES ASSUME NEW i \in DOMAIN c, NEW j \in DOMAIN c, i < j PROVE key[c[i]] <= key[c[j]]
      BY DEF InOrder
  <2>4. CASE j <= Len(a)
    <3>1. i \in DOMAIN a /\ j \in DOMAIN a /\ c[i] = a[i] /\ c[j] = a[j]
        BY <1>2, <1>3, <2>4
    <3> QED
        BY <2>2, <3>1 DEF InOrder
  <2>5. CASE ~(j <= Len(a)) /\ i <= Len(a)
    <3>1. i \in DOMAIN a /\ j - Len(a) \in DOMAIN b /\ c[i] = a[i] /\ c[j] = b[j - Len(a)]
        BY <1>2, <1>3, <2>5
    <3>2. c[i] \in ToSet(a) /\ c[j] \in ToSet(b)
        BY <3>1 DEF ToSet
    <3> QED
        BY <2>3, <3>2
  <2>6. CASE ~(j <= Len(a)) /\ ~(i <= Len(a))
    <3>1. /\ i - Len(a) \in DOMAIN b /\ j - Len(a) \in DOMAIN b /\ i - Len(a) < j - Len(a)
          /\ c[i] = b[i - Len(a)] /\ c[j] = b[j - Len(a)]
        BY <1>2, <1>3, <2>6, SMTT(20)
    <3> QED
        BY <2>1, <3>1 DEF InOrder
  <2> QED
      BY <2>4, <2>5, <2>6
<1> QED
    BY <1>2, <1>5, <1>6, <1>7 DEF Joins, c, b

LEMMA FlattenProperties ==
    ASSUME NEW T, NEW n \in Nat, NEW ss \in [1..n -> Seq(T)]
    PROVE  Joins(FlattenSeq(ss), ss, n, T)
<1> DEFINE V == Seq(T)
           e == <<>>
           Step(k, r) == IF k = 1 THEN ss[k] ELSE r \o ss[k]
           G == [p \in (1..n) \X V |-> Step(p[1], p[2])]
           Def(f) == [k \in 1..n |-> Step(k, f[k - 1])]
           flatten == CHOOSE f : f = Def(f)
<1>0. Len(ss) = n /\ ss \in Seq(Seq(T)) /\ \A k \in 1..n : ss[k] \in V
    OBVIOUS
<1>1. e \in V
    OBVIOUS
<1>2. ASSUME NEW k \in 1..n, NEW r \in V PROVE Step(k, r) \in V
  <2>1. r \in Seq(T) /\ ss[k] \in Seq(T)
      OBVIOUS
  <2>2. r \o ss[k] \in Seq(T)
      BY <2>1, ConcatProperties
  <2> QED
      BY <2>1, <2>2
<1> HIDE DEF V, e, Step
<1>3. CASE n = 0
  <2>1. FlattenSeq(ss) = ss /\ ss = <<>>
      BY <1>0, <1>3 DEF FlattenSeq
  <2>2. \A i : i \notin 1..n
      BY <1>3
  <2>3. ToSet(<<>>) = {} /\ IsInjective(<<>>) /\ <<>> \in Seq(T) /\ \A key : InOrder(<<>>, key)
      BY DEF ToSet, IsInjective, InOrder
  <2> QED
      BY <2>1, <2>2, <2>3 DEF Joins
<1>4. CASE n # 0
  <2>1. FlattenSeq(ss) = flatten[n]
      BY <1>0, <1>4 DEF FlattenSeq, Step
  <2>2. G \in [(1..n) \X V -> V]
      BY <1>2
  <2>3. PICK g : IsRecursive(g, n, V, e, G)
    <3> HIDE DEF G
    <3> QED
        BY <1>1, <2>2, RecursionExists
  <2>4. \E f : f = Def(f)
    <3> DEFINE f == [k \in 1..n |-> g[k]]
    <3>1. ASSUME NEW k \in 1..n PROVE g[k] = Step(k, f[k - 1])
      <4>1. g[k] = G[<<k, g[k - 1]>>] /\ g[k - 1] \in V
        <5>1. k - 1 \in 0..n
            OBVIOUS
        <5> HIDE DEF G
        <5> QED
            BY <2>3, <5>1 DEF IsRecursive
      <4>2. g[k] = Step(k, g[k - 1])
          BY <4>1
      <4>3. CASE k = 1
          BY <4>2, <4>3 DEF Step
      <4>4. CASE k # 1
        <5>1. k - 1 \in 1..n
            BY <4>4
        <5>2. f[k - 1] = g[k - 1]
            BY <5>1
        <5> HIDE DEF f
        <5> QED
            BY <4>2, <5>2
      <4> QED
          BY <4>3, <4>4
    <3>2. f = Def(f)
        BY <3>1
    <3> QED
        BY <3>2
  <2>5. flatten = Def(flatten)
      BY <2>4
  <2> HIDE DEF flatten
  <2>6. \A k \in 1..n : flatten[k] = Step(k, flatten[k - 1])
      BY <2>5
  <2> DEFINE S == {k \in 0..n : k = 0 \/ Joins(flatten[k], ss, k, T)}
  <2>7. 0 \in S
      OBVIOUS
  <2>8. ASSUME NEW k \in 1..n, k - 1 \in S PROVE k \in S
    <3>1. CASE k = 1
      <4>1. flatten[k] = ss[k]
          BY <2>6, <3>1 DEF Step
      <4>2. \A i : i \in 1..k <=> i = 1
          BY <3>1
      <4>3. ToSet(ss[k]) = UNION {ToSet(ss[i]) : i \in 1..k}
        <5> HIDE DEF V
        <5> QED
            BY <4>2, <3>1
      <4>4. Apart(ss, k) => IsInjective(ss[k])
          BY DEF Apart
      <4>5. \A key : InTurn(ss, k, key) => InOrder(ss[k], key)
          BY DEF InTurn
      <4>6. Joins(flatten[k], ss, k, T)
          BY <4>1, <4>3, <4>4, <4>5 DEF Joins
      <4> QED
          BY <4>6
    <3>2. CASE k # 1
      <4> DEFINE m == k - 1
      <4>1. m \in Nat /\ m # 0 /\ m + 1 = k
          BY <3>2
      <4>2. Joins(flatten[m], ss, m, T)
          BY <2>8, <4>1
      <4>3. flatten[k] = flatten[m] \o ss[k]
          BY <2>6, <3>2 DEF Step
      <4> HIDE DEF m
      <4>4. Joins(flatten[k], ss, k, T)
          BY <4>1, <4>2, <4>3, JoinOne
      <4> QED
          BY <4>4
    <3> QED
        BY <3>1, <3>2
  <2>9. n \in S
    <3> HIDE DEF S
    <3>1. \A k \in 0..n : k \in S
        BY <2>7, <2>8, InductionTo
    <3> QED
        BY <3>1
  <2> QED
      BY <1>4, <2>1, <2>9
<1> QED
    BY <1>3, <1>4

\* One sequence on its own.
LEMMA FlattenOne ==
    ASSUME NEW ss, DOMAIN ss = {1}, ss = [i \in {1} |-> ss[i]]
    PROVE  FlattenSeq(ss) = ss[1]
<1> DEFINE Def(f) == [k \in 1..Len(ss) |-> IF k = 1 THEN ss[k] ELSE f[k - 1] \o ss[k]]
           flatten == CHOOSE f : f = Def(f)
<1>1. Len(ss) = 1
    OBVIOUS
<1>2. FlattenSeq(ss) = flatten[Len(ss)]
    BY <1>1 DEF FlattenSeq
<1>3. \E f : f = Def(f)
  <2> DEFINE f == [k \in 1..Len(ss) |-> ss[k]]
  <2>1. \A k \in 1..Len(ss) : k = 1
    <3>1. \A k \in 1..1 : k = 1
        OBVIOUS
    <3> QED
        BY ONLY <1>1, <3>1
  <2>2. f = Def(f)
      BY <2>1
  <2> QED
      BY <2>2
<1>4. flatten = Def(flatten)
    BY <1>3
<1> HIDE DEF flatten
<1>5. flatten[1] = ss[1]
    BY <1>1, <1>4
<1> QED
    BY <1>1, <1>2, <1>5

-----------------------------------------------------------------------------
(* Pictures. *)

Positive == Nat \ {0}

\* A picture with a pixel for every position.
IsPicture(pic) == /\ pic.w \in Positive /\ pic.h \in Positive
                  /\ DOMAIN pic.at = Positions(pic.w, pic.h)

-----------------------------------------------------------------------------
(* Turning. *)

LEMMA StoredIsPicture ==
    ASSUME NEW w \in Positive, NEW h \in Positive
    PROVE  /\ IsPicture(Stored(w, h))
           /\ \A p \in Positions(w, h) : Stored(w, h).at[p] = {p}
BY DEF IsPicture, Stored, Positions

\* Immich's previews, and files with no orientation or the normal one, are upright as they are.
LEMMA StoredIsUpright ==
    ASSUME NEW w \in Positive, NEW h \in Positive, NEW o \in Nat, o \notin 2..8
    PROVE  Upright(Stored(w, h), o, w, h)
<1> DEFINE pic == Stored(w, h)
<1>1. DOMAIN pic.at = Positions(w, h) /\ \A p \in Positions(w, h) : pic.at[p] = {p}
    BY DEF Stored
<1>2. UNION {pic.at[q] : q \in DOMAIN pic.at} = Positions(w, h)
    BY <1>1
<1>3. ASSUME NEW q1 \in DOMAIN pic.at, NEW q2 \in DOMAIN pic.at,
             NEW p1 \in pic.at[q1], NEW p2 \in pic.at[q2]
      PROVE  p1 = q1 /\ p2 = q2
    BY <1>1, <1>3
<1> HIDE DEF pic
<1> QED
    BY <1>2, <1>3 DEF Upright, pic

\* A picture made of single pixels, each where a viewer that knows the orientation shows it.
LEMMA MovedIsUpright ==
    ASSUME NEW w \in Positive, NEW h \in Positive, NEW o \in 2..8, NEW pic, IsPicture(pic),
           \A p \in Positions(w, h) : Shown(o, w, h, p[1], p[2]) \in Positions(pic.w, pic.h),
           \A q \in Positions(pic.w, pic.h) :
               pic.at[q] = {p \in Positions(w, h) : Shown(o, w, h, p[1], p[2]) = q}
    PROVE  Upright(pic, o, w, h)
<1> DEFINE to(p) == Shown(o, w, h, p[1], p[2])
<1>1. UNION {pic.at[q] : q \in DOMAIN pic.at} = Positions(w, h)
  <2>1. ASSUME NEW p \in Positions(w, h)
        PROVE  \E q \in DOMAIN pic.at : p \in pic.at[q]
      BY <2>1 DEF IsPicture
  <2>2. ASSUME NEW q \in DOMAIN pic.at
        PROVE  pic.at[q] \subseteq Positions(w, h)
      BY <2>2 DEF IsPicture
  <2> QED
      BY <2>1, <2>2
<1>2. ASSUME NEW q1 \in DOMAIN pic.at, NEW q2 \in DOMAIN pic.at,
             NEW p1 \in pic.at[q1], NEW p2 \in pic.at[q2]
      PROVE  to(p1) = q1 /\ to(p2) = q2
    BY <1>2 DEF IsPicture
<1>3. \A p : (IF o \in 2..8 THEN Shown(o, w, h, p[1], p[2]) ELSE p) = to(p)
    OBVIOUS
<1> HIDE DEF to
<1>4. ASSUME NEW q1 \in DOMAIN pic.at, NEW q2 \in DOMAIN pic.at,
             NEW p1 \in pic.at[q1], NEW p2 \in pic.at[q2]
      PROVE  /\ q1 # q2 => p1 # p2
             /\ \A i \in {1, 2} : q1[i] < q2[i] => to(p1)[i] < to(p2)[i]
    BY <1>2, <1>4
<1> QED
    BY <1>1, <1>3, <1>4 DEF Upright

\* The pixels of a stored picture, one per position.
LEMMA StoredPixels ==
    ASSUME NEW w \in Positive, NEW h \in Positive, NEW P, P \subseteq Positions(w, h)
    PROVE  UNION {Stored(w, h).at[p] : p \in P} = P
BY DEF Stored

\* Each of the seven transforms moves a pixel to where its orientation shows it.
LEMMA TurnedIsUpright ==
    ASSUME NEW w \in Positive, NEW h \in Positive, NEW o \in 2..8
    PROVE  /\ IsPicture(applyOrientation(Stored(w, h), o))
           /\ Upright(applyOrientation(Stored(w, h), o), o, w, h)
<1> DEFINE S == Stored(w, h)
           T == applyOrientation(S, o)
           to(p) == Shown(o, w, h, p[1], p[2])
           dw == IF o \in 2..4 THEN w ELSE h
           dh == IF o \in 2..4 THEN h ELSE w
           Moves == /\ T.w = dw /\ T.h = dh /\ DOMAIN T.at = Positions(dw, dh)
                    /\ \A q \in Positions(dw, dh) : T.at[q] = {r \in Positions(w, h) : to(r) = q}
                    /\ \A p \in Positions(w, h) : to(p) \in Positions(dw, dh)
<1>0. S.w = w /\ S.h = h /\ DOMAIN S.at = Positions(w, h)
    BY DEF Stored
<1>1. \A P : P \subseteq Positions(w, h) => UNION {S.at[p] : p \in P} = P
    BY StoredPixels
<1> HIDE DEF S
<1>2. ASSUME o = 2 PROVE Moves
  <2> DEFINE at == [q \in Positions(w, h) |->
                      UNION {S.at[p] : p \in {r \in Positions(w, h) : <<w - 1 - r[1], r[2]>> = q}}]
  <2>1. \A p : to(p) = <<w - 1 - p[1], p[2]>>
      BY <1>2 DEF Shown, RowSide, ColumnSide
  <2>2. T = flipH(S)
      BY <1>2 DEF applyOrientation
  <2>3. flipH(S) = [w |-> w, h |-> h, at |-> at]
      BY <1>0 DEF flipH, Redraw
  <2>4. dw = w /\ dh = h
      BY <1>2
  <2>5. \A q \in Positions(w, h) : at[q] = {r \in Positions(w, h) : <<w - 1 - r[1], r[2]>> = q}
      BY <1>1
  <2>6. \A p \in Positions(w, h) : <<w - 1 - p[1], p[2]>> \in Positions(w, h)
      BY DEF Positions, Positive
  <2>7. T.w = w /\ T.h = h /\ T.at = at /\ DOMAIN at = Positions(w, h)
      BY <2>2, <2>3
  <2>8. \A q : {r \in Positions(w, h) : <<w - 1 - r[1], r[2]>> = q} = {r \in Positions(w, h) : to(r) = q}
      BY <2>1
  <2> HIDE DEF at, T, to, dw, dh
  <2> QED
      BY <2>1, <2>4, <2>5, <2>6, <2>7, <2>8
<1>3. ASSUME o = 3 PROVE Moves
  <2> DEFINE at == [q \in Positions(w, h) |->
                      UNION {S.at[p] : p \in {r \in Positions(w, h) : <<w - 1 - r[1], h - 1 - r[2]>> = q}}]
  <2>1. \A p : to(p) = <<w - 1 - p[1], h - 1 - p[2]>>
      BY <1>3 DEF Shown, RowSide, ColumnSide
  <2>2. T = rotate180(S)
      BY <1>3 DEF applyOrientation
  <2>3. rotate180(S) = [w |-> w, h |-> h, at |-> at]
      BY <1>0 DEF rotate180, Redraw
  <2>4. dw = w /\ dh = h
      BY <1>3
  <2>5. \A q \in Positions(w, h) : at[q] = {r \in Positions(w, h) : <<w - 1 - r[1], h - 1 - r[2]>> = q}
      BY <1>1
  <2>6. \A p \in Positions(w, h) : <<w - 1 - p[1], h - 1 - p[2]>> \in Positions(w, h)
      BY DEF Positions, Positive
  <2>7. T.w = w /\ T.h = h /\ T.at = at /\ DOMAIN at = Positions(w, h)
      BY <2>2, <2>3
  <2>8. \A q : {r \in Positions(w, h) : <<w - 1 - r[1], h - 1 - r[2]>> = q} = {r \in Positions(w, h) : to(r) = q}
      BY <2>1
  <2> HIDE DEF at, T, to, dw, dh
  <2> QED
      BY <2>1, <2>4, <2>5, <2>6, <2>7, <2>8
<1>4. ASSUME o = 4 PROVE Moves
  <2> DEFINE at == [q \in Positions(w, h) |->
                      UNION {S.at[p] : p \in {r \in Positions(w, h) : <<r[1], h - 1 - r[2]>> = q}}]
  <2>1. \A p : to(p) = <<p[1], h - 1 - p[2]>>
      BY <1>4 DEF Shown, RowSide, ColumnSide
  <2>2. T = flipV(S)
      BY <1>4 DEF applyOrientation
  <2>3. flipV(S) = [w |-> w, h |-> h, at |-> at]
      BY <1>0 DEF flipV, Redraw
  <2>4. dw = w /\ dh = h
      BY <1>4
  <2>5. \A q \in Positions(w, h) : at[q] = {r \in Positions(w, h) : <<r[1], h - 1 - r[2]>> = q}
      BY <1>1
  <2>6. \A p \in Positions(w, h) : <<p[1], h - 1 - p[2]>> \in Positions(w, h)
      BY DEF Positions, Positive
  <2>7. T.w = w /\ T.h = h /\ T.at = at /\ DOMAIN at = Positions(w, h)
      BY <2>2, <2>3
  <2>8. \A q : {r \in Positions(w, h) : <<r[1], h - 1 - r[2]>> = q} = {r \in Positions(w, h) : to(r) = q}
      BY <2>1
  <2> HIDE DEF at, T, to, dw, dh
  <2> QED
      BY <2>1, <2>4, <2>5, <2>6, <2>7, <2>8
<1>5. ASSUME o = 5 PROVE Moves
  <2> DEFINE at == [q \in Positions(h, w) |->
                      UNION {S.at[p] : p \in {r \in Positions(w, h) : <<r[2], r[1]>> = q}}]
  <2>1. \A p : to(p) = <<p[2], p[1]>>
      BY <1>5 DEF Shown, RowSide, ColumnSide
  <2>2. T = transpose(S)
      BY <1>5 DEF applyOrientation
  <2>3. transpose(S) = [w |-> h, h |-> w, at |-> at]
      BY <1>0 DEF transpose, Redraw
  <2>4. dw = h /\ dh = w
      BY <1>5
  <2>5. \A q \in Positions(h, w) : at[q] = {r \in Positions(w, h) : <<r[2], r[1]>> = q}
      BY <1>1
  <2>6. \A p \in Positions(w, h) : <<p[2], p[1]>> \in Positions(h, w)
      BY DEF Positions, Positive
  <2>7. T.w = h /\ T.h = w /\ T.at = at /\ DOMAIN at = Positions(h, w)
      BY <2>2, <2>3
  <2>8. \A q : {r \in Positions(w, h) : <<r[2], r[1]>> = q} = {r \in Positions(w, h) : to(r) = q}
      BY <2>1
  <2> HIDE DEF at, T, to, dw, dh
  <2> QED
      BY <2>1, <2>4, <2>5, <2>6, <2>7, <2>8
<1>6. ASSUME o = 6 PROVE Moves
  <2> DEFINE at == [q \in Positions(h, w) |->
                      UNION {S.at[p] : p \in {r \in Positions(w, h) : <<h - 1 - r[2], r[1]>> = q}}]
  <2>1. \A p : to(p) = <<h - 1 - p[2], p[1]>>
      BY <1>6 DEF Shown, RowSide, ColumnSide
  <2>2. T = rotate90CW(S)
      BY <1>6 DEF applyOrientation
  <2>3. rotate90CW(S) = [w |-> h, h |-> w, at |-> at]
      BY <1>0 DEF rotate90CW, Redraw
  <2>4. dw = h /\ dh = w
      BY <1>6
  <2>5. \A q \in Positions(h, w) : at[q] = {r \in Positions(w, h) : <<h - 1 - r[2], r[1]>> = q}
      BY <1>1
  <2>6. \A p \in Positions(w, h) : <<h - 1 - p[2], p[1]>> \in Positions(h, w)
      BY DEF Positions, Positive
  <2>7. T.w = h /\ T.h = w /\ T.at = at /\ DOMAIN at = Positions(h, w)
      BY <2>2, <2>3
  <2>8. \A q : {r \in Positions(w, h) : <<h - 1 - r[2], r[1]>> = q} = {r \in Positions(w, h) : to(r) = q}
      BY <2>1
  <2> HIDE DEF at, T, to, dw, dh
  <2> QED
      BY <2>1, <2>4, <2>5, <2>6, <2>7, <2>8
<1>7. ASSUME o = 7 PROVE Moves
  <2> DEFINE at == [q \in Positions(h, w) |->
                      UNION {S.at[p] : p \in {r \in Positions(w, h) : <<h - 1 - r[2], w - 1 - r[1]>> = q}}]
  <2>1. \A p : to(p) = <<h - 1 - p[2], w - 1 - p[1]>>
      BY <1>7 DEF Shown, RowSide, ColumnSide
  <2>2. T = transverse(S)
      BY <1>7 DEF applyOrientation
  <2>3. transverse(S) = [w |-> h, h |-> w, at |-> at]
      BY <1>0 DEF transverse, Redraw
  <2>4. dw = h /\ dh = w
      BY <1>7
  <2>5. \A q \in Positions(h, w) : at[q] = {r \in Positions(w, h) : <<h - 1 - r[2], w - 1 - r[1]>> = q}
      BY <1>1
  <2>6. \A p \in Positions(w, h) : <<h - 1 - p[2], w - 1 - p[1]>> \in Positions(h, w)
      BY DEF Positions, Positive
  <2>7. T.w = h /\ T.h = w /\ T.at = at /\ DOMAIN at = Positions(h, w)
      BY <2>2, <2>3
  <2>8. \A q : {r \in Positions(w, h) : <<h - 1 - r[2], w - 1 - r[1]>> = q} = {r \in Positions(w, h) : to(r) = q}
      BY <2>1
  <2> HIDE DEF at, T, to, dw, dh
  <2> QED
      BY <2>1, <2>4, <2>5, <2>6, <2>7, <2>8
<1>8. ASSUME o = 8 PROVE Moves
  <2> DEFINE at == [q \in Positions(h, w) |->
                      UNION {S.at[p] : p \in {r \in Positions(w, h) : <<r[2], w - 1 - r[1]>> = q}}]
  <2>1. \A p : to(p) = <<p[2], w - 1 - p[1]>>
      BY <1>8 DEF Shown, RowSide, ColumnSide
  <2>2. T = rotate90CCW(S)
      BY <1>8 DEF applyOrientation
  <2>3. rotate90CCW(S) = [w |-> h, h |-> w, at |-> at]
      BY <1>0 DEF rotate90CCW, Redraw
  <2>4. dw = h /\ dh = w
      BY <1>8
  <2>5. \A q \in Positions(h, w) : at[q] = {r \in Positions(w, h) : <<r[2], w - 1 - r[1]>> = q}
      BY <1>1
  <2>6. \A p \in Positions(w, h) : <<p[2], w - 1 - p[1]>> \in Positions(h, w)
      BY DEF Positions, Positive
  <2>7. T.w = h /\ T.h = w /\ T.at = at /\ DOMAIN at = Positions(h, w)
      BY <2>2, <2>3
  <2>8. \A q : {r \in Positions(w, h) : <<r[2], w - 1 - r[1]>> = q} = {r \in Positions(w, h) : to(r) = q}
      BY <2>1
  <2> HIDE DEF at, T, to, dw, dh
  <2> QED
      BY <2>1, <2>4, <2>5, <2>6, <2>7, <2>8
<1>9. Moves
    BY <1>2, <1>3, <1>4, <1>5, <1>6, <1>7, <1>8
<1>10. IsPicture(T)
    BY <1>9 DEF IsPicture, Positive
<1> QED
    BY <1>9, <1>10, MovedIsUpright DEF S

-----------------------------------------------------------------------------
(* Downscaling. *)

LEMMA Quotient ==
    ASSUME NEW a \in Nat, NEW d \in Positive
    PROVE  a \div d \in Nat /\ (a \div d) * d <= a /\ a < (a \div d) * d + d
BY DEF Positive

LEMMA TimesIsMonotone ==
    ASSUME NEW a \in Nat, NEW b \in Nat, NEW d \in Positive
    PROVE  a * d \in Nat /\ (a * d < b * d <=> a < b) /\ (a * d <= b * d <=> a <= b)
BY DEF Positive

\* Where block i begins when a side of from pixels is made one of to.
Cut(i, from, to) == (i * from) \div to

\* The blocks of a side that does not grow follow one another, none of them empty.
LEMMA CutsAscend ==
    ASSUME NEW from \in Positive, NEW to \in Positive, to <= from, NEW i \in Nat
    PROVE  /\ Cut(i, from, to) \in Nat
           /\ Cut(i, from, to) < Cut(i + 1, from, to)
           /\ \A j \in Nat : i < j => Cut(i + 1, from, to) <= Cut(j, from, to)
           /\ i < to => Cut(i + 1, from, to) <= from
<1> DEFINE a == i * from
           c == Cut(i, from, to)
           e == Cut(i + 1, from, to)
<1>1. a \in Nat /\ (i + 1) * from = a + from /\ a + from \in Nat
    BY DEF Positive
<1>2. c \in Nat /\ c * to <= a /\ a < c * to + to
    BY <1>1, Quotient DEF Cut
<1>3. e \in Nat /\ e * to <= a + from /\ a + from < e * to + to
    BY <1>1, Quotient DEF Cut
<1>4. c < e
  <2>1. (c + 1) * to = c * to + to /\ (e + 1) * to = e * to + to /\ c * to \in Nat /\ e * to \in Nat
      BY <1>2, <1>3 DEF Positive
  <2>2. (c + 1) * to <= a + from
      BY <1>1, <1>2, <2>1 DEF Positive
  <2>3. (c + 1) * to < (e + 1) * to
      BY <1>1, <1>3, <2>1, <2>2 DEF Positive
  <2>4. c + 1 < e + 1
      BY <1>2, <1>3, <2>3, TimesIsMonotone
  <2> QED
      BY <1>2, <1>3, <2>4
<1>5. ASSUME NEW j \in Nat, i < j PROVE e <= Cut(j, from, to)
  <2> DEFINE f == Cut(j, from, to)
  <2>1. j * from \in Nat /\ a + from <= j * from
    <3>1. i + 1 <= j
        BY <1>5
    <3> QED
        BY <1>1, <3>1, TimesIsMonotone
  <2>2. f \in Nat /\ j * from < f * to + to
      BY <2>1, Quotient DEF Cut
  <2>3. e * to < (f + 1) * to
    <3>1. (f + 1) * to = f * to + to /\ f * to \in Nat /\ e * to \in Nat
        BY <1>3, <2>2 DEF Positive
    <3> QED
        BY <1>1, <1>3, <2>1, <2>2, <3>1 DEF Positive
  <2>4. e < f + 1
      BY <1>3, <2>2, <2>3, TimesIsMonotone
  <2> QED
      BY <1>3, <2>2, <2>4
<1>6. ASSUME i < to PROVE e <= from
  <2>1. (i + 1) * from <= to * from
    <3>1. i + 1 <= to /\ i + 1 \in Nat /\ to \in Nat
        BY <1>6 DEF Positive
    <3> QED
        BY <3>1, TimesIsMonotone
  <2>2. e * to <= from * to
      BY <1>1, <1>3, <2>1 DEF Positive
  <2> QED
      BY <1>3, <2>2, TimesIsMonotone DEF Positive
<1> QED
    BY <1>2, <1>4, <1>5, <1>6

\* Every pixel of a side is in one of its blocks.
LEMMA CutsCover ==
    ASSUME NEW from \in Positive, NEW to \in Positive, to <= from, NEW p \in 0..from - 1
    PROVE  \E i \in 0..to - 1 : Cut(i, from, to) <= p /\ p < Cut(i + 1, from, to)
<1> DEFINE n == (p + 1) * to - 1
           i == n \div from
<1>1. n \in Nat /\ n + 1 = (p + 1) * to
    BY DEF Positive
<1>2. i \in Nat /\ i * from <= n /\ n < i * from + from
    BY <1>1, Quotient
<1> HIDE DEF i
<1>3. i < to
  <2>1. n < from * to
    <3>1. p + 1 <= from /\ p + 1 \in Nat /\ from \in Nat
        BY DEF Positive
    <3>2. (p + 1) * to <= from * to /\ from * to \in Nat
        BY <3>1, TimesIsMonotone
    <3> QED
        BY <1>1, <3>2
  <2>2. i * from < to * from
      BY <1>1, <1>2, <2>1 DEF Positive
  <2> QED
      BY <1>2, <2>2, TimesIsMonotone DEF Positive
<1>4. Cut(i, from, to) <= p
  <2> DEFINE c == Cut(i, from, to)
  <2>1. i * from \in Nat
      BY <1>2 DEF Positive
  <2>2. c \in Nat /\ c * to <= i * from
      BY <2>1, Quotient DEF Cut
  <2>3. c * to \in Nat /\ c * to < (p + 1) * to
      BY <1>1, <1>2, <2>1, <2>2 DEF Positive
  <2>4. c < p + 1
      BY <2>2, <2>3, TimesIsMonotone
  <2> QED
      BY <2>2, <2>4
<1>5. p < Cut(i + 1, from, to)
  <2> DEFINE e == Cut(i + 1, from, to)
  <2>1. (i + 1) * from = i * from + from /\ (i + 1) * from \in Nat /\ i * from \in Nat
      BY <1>2 DEF Positive
  <2>2. e \in Nat /\ (i + 1) * from < e * to + to
      BY <2>1, Quotient DEF Cut
  <2>3. (p + 1) * to < (e + 1) * to
    <3>1. (e + 1) * to = e * to + to /\ e * to \in Nat
        BY <2>2 DEF Positive
    <3> QED
        BY <1>1, <1>2, <2>1, <2>2, <3>1 DEF Positive
  <2>4. p + 1 < e + 1
      BY <2>2, <2>3, TimesIsMonotone
  <2> QED
      BY <2>2, <2>4
<1> i \in 0..to - 1
    BY <1>2, <1>3 DEF Positive
<1> QED
    BY <1>4, <1>5

\* Blocks divides a side of from pixels into to of them, in order.
Divides(Blocks, from, to) ==
    /\ Blocks \in [0..to - 1 -> SUBSET (0..from - 1)]
    /\ \A p \in 0..from - 1 : \E i \in 0..to - 1 : p \in Blocks[i]
    /\ \A i, j \in 0..to - 1 : i < j => \A a \in Blocks[i], b \in Blocks[j] : a < b

\* Each position of d shows the pixels of pic in its column's and its row's block.
Gathers(d, pic, X, Y) ==
    \A q \in Positions(d.w, d.h) : d.at[q] = UNION {pic.at[p] : p \in X[q[1]] \X Y[q[2]]}

\* A picture whose columns and rows are blocks of another's, all of them and in order.
LEMMA BlocksKeepUpright ==
    ASSUME NEW pic, IsPicture(pic), NEW d, IsPicture(d),
           NEW X, Divides(X, pic.w, d.w), NEW Y, Divides(Y, pic.h, d.h), Gathers(d, pic, X, Y),
           NEW o \in Nat, NEW w \in Positive, NEW h \in Positive, Upright(pic, o, w, h)
    PROVE  Upright(d, o, w, h)
<1> USE DEF Divides, Gathers
<1> DEFINE shown(p) == IF o \in 2..8 THEN Shown(o, w, h, p[1], p[2]) ELSE p
<1>1. /\ UNION {pic.at[q] : q \in DOMAIN pic.at} = Positions(w, h)
      /\ \A q1, q2 \in DOMAIN pic.at : \A p1 \in pic.at[q1], p2 \in pic.at[q2] :
           /\ q1 # q2 => p1 # p2
           /\ \A i \in {1, 2} : q1[i] < q2[i] => shown(p1)[i] < shown(p2)[i]
    BY DEF Upright
<1> HIDE DEF shown
<1>2. ASSUME NEW q \in Positions(d.w, d.h)
      PROVE  /\ q[1] \in 0..d.w - 1 /\ q[2] \in 0..d.h - 1 /\ q = <<q[1], q[2]>>
             /\ \A r \in X[q[1]] \X Y[q[2]] : r \in Positions(pic.w, pic.h)
    BY <1>2 DEF Positions
<1>3. UNION {d.at[q] : q \in DOMAIN d.at} = Positions(w, h)
  <2>1. ASSUME NEW q \in DOMAIN d.at
        PROVE  d.at[q] \subseteq Positions(w, h)
      BY <1>1, <1>2, <2>1 DEF IsPicture
  <2>2. ASSUME NEW p \in Positions(w, h)
        PROVE  \E q \in DOMAIN d.at : p \in d.at[q]
    <3>1. PICK r \in Positions(pic.w, pic.h) : p \in pic.at[r]
        BY <1>1, <2>2 DEF IsPicture
    <3>2. r[1] \in 0..pic.w - 1 /\ r[2] \in 0..pic.h - 1 /\ r = <<r[1], r[2]>>
        BY <3>1 DEF Positions
    <3>3. PICK x \in 0..d.w - 1 : r[1] \in X[x]
        BY <3>2
    <3>4. PICK y \in 0..d.h - 1 : r[2] \in Y[y]
        BY <3>2
    <3>5. <<x, y>> \in Positions(d.w, d.h) /\ r \in X[x] \X Y[y]
        BY <3>2, <3>3, <3>4 DEF Positions
    <3>6. p \in d.at[<<x, y>>]
        BY <3>1, <3>5
    <3> QED
        BY <3>5, <3>6 DEF IsPicture
  <2> QED
      BY <2>1, <2>2
<1>4. ASSUME NEW q1 \in DOMAIN d.at, NEW q2 \in DOMAIN d.at,
             NEW p1 \in d.at[q1], NEW p2 \in d.at[q2]
      PROVE  /\ q1 # q2 => p1 # p2
             /\ \A i \in {1, 2} : q1[i] < q2[i] => shown(p1)[i] < shown(p2)[i]
  <2>1. q1 \in Positions(d.w, d.h) /\ q2 \in Positions(d.w, d.h)
      BY <1>4 DEF IsPicture
  <2>2. PICK r1 \in X[q1[1]] \X Y[q1[2]] : p1 \in pic.at[r1]
      BY <1>4, <2>1
  <2>3. PICK r2 \in X[q2[1]] \X Y[q2[2]] : p2 \in pic.at[r2]
      BY <1>4, <2>1
  <2>4. r1 \in DOMAIN pic.at /\ r2 \in DOMAIN pic.at
      BY <1>2, <2>1, <2>2, <2>3 DEF IsPicture
  <2>5. q1[1] < q2[1] => r1[1] < r2[1]
      BY <1>2, <2>1, <2>2, <2>3
  <2>6. q1[2] < q2[2] => r1[2] < r2[2]
      BY <1>2, <2>1, <2>2, <2>3
  <2>7. q2[1] < q1[1] => r2[1] < r1[1]
      BY <1>2, <2>1, <2>2, <2>3
  <2>8. q2[2] < q1[2] => r2[2] < r1[2]
      BY <1>2, <2>1, <2>2, <2>3
  <2>9. ASSUME q1 # q2 PROVE r1 # r2
    <3>1. q1[1] # q2[1] \/ q1[2] # q2[2]
        BY <1>2, <2>1, <2>9
    <3>2. \/ q1[1] < q2[1] \/ q2[1] < q1[1] \/ q1[2] < q2[2] \/ q2[2] < q1[2]
        BY <1>2, <2>1, <3>1 DEF IsPicture, Positive
    <3>3. r1[1] \in Int /\ r1[2] \in Int
        BY <1>2, <2>1, <2>2 DEF Positions
    <3> QED
        BY <2>5, <2>6, <2>7, <2>8, <3>2, <3>3
  <2> QED
      BY <1>1, <2>2, <2>3, <2>4, <2>5, <2>6, <2>9
<1> QED
    BY <1>3, <1>4 DEF Upright, shown

\* Rounding half up, of a fraction that is not more than n.
LEMMA RoundedIsAtMost ==
    ASSUME NEW num \in Nat, NEW den \in Positive, NEW n \in Nat, num <= n * den
    PROVE  Rounded(num, den) \in Nat /\ Rounded(num, den) <= n
<1> DEFINE r == Rounded(num, den)
<1>1. n * den \in Nat /\ 2 * den \in Positive /\ 2 * num + den \in Nat
    BY DEF Positive
<1>2. r \in Nat /\ r * (2 * den) <= 2 * num + den
    BY <1>1, Quotient DEF Rounded
<1>3. r * (2 * den) < (n + 1) * (2 * den)
  <2>1. (n + 1) * (2 * den) = 2 * (n * den) + 2 * den
      BY DEF Positive
  <2> QED
      BY <1>1, <1>2, <2>1 DEF Positive
<1>4. r < n + 1
    BY <1>1, <1>2, <1>3, TimesIsMonotone
<1> QED
    BY <1>2, <1>4

\* One side of the picture scaled by num / den: it fits, and it does not grow.
LEMMA SideFits ==
    ASSUME NEW side \in Positive, NEW num \in Positive, NEW den \in Positive, num <= den,
           NEW max \in Positive, side * num <= max * den
    PROVE  /\ AtLeast1(Rounded(side * num, den)) \in Positive
           /\ AtLeast1(Rounded(side * num, den)) <= max
           /\ AtLeast1(Rounded(side * num, den)) <= side
<1>1. side * num \in Nat /\ side * num <= side * den
  <2>1. num * side <= den * side /\ num * side \in Nat
      BY TimesIsMonotone DEF Positive
  <2>2. num * side = side * num /\ den * side = side * den
      BY DEF Positive
  <2> QED
      BY <2>1, <2>2
<1>2. Rounded(side * num, den) \in Nat /\ Rounded(side * num, den) <= max
    BY <1>1, RoundedIsAtMost DEF Positive
<1>3. Rounded(side * num, den) <= side
    BY <1>1, RoundedIsAtMost DEF Positive
<1> QED
    BY <1>2, <1>3 DEF AtLeast1, Positive

\* The size that downscale gives a picture that does not fit.
LEMMA DownscaledSize ==
    ASSUME NEW pic, IsPicture(pic), NEW maxW \in Positive, NEW maxH \in Positive,
           ~(pic.w <= maxW /\ pic.h <= maxH)
    PROVE  LET d == downscale(pic, maxW, maxH)
           IN  /\ d.w \in Positive /\ d.w <= pic.w /\ d.w <= maxW
               /\ d.h \in Positive /\ d.h <= pic.h /\ d.h <= maxH
<1> DEFINE d == downscale(pic, maxW, maxH)
           w == pic.w
           h == pic.h
<1>1. w \in Positive /\ h \in Positive
    BY DEF IsPicture
<1>2. /\ w * maxW = maxW * w /\ h * maxH = maxH * h /\ w * maxH = maxH * w /\ h * maxW = maxW * h
      /\ maxH * w \in Nat /\ maxW * h \in Nat /\ maxW * w \in Nat /\ maxH * h \in Nat
    BY <1>1 DEF Positive
<1>3. CASE maxH * w < maxW * h
  <2>1. /\ d.w = AtLeast1(Rounded(w * maxH, h))
        /\ d.h = AtLeast1(Rounded(h * maxH, h))
      BY <1>3 DEF downscale
  <2>2. maxH <= h
    <3> SUFFICES ASSUME h < maxH PROVE FALSE
        BY <1>1 DEF Positive
    <3>1. maxW < w
        BY <1>1 DEF Positive
    <3>2. h * maxW < maxH * maxW
        BY <1>1, TimesIsMonotone DEF Positive
    <3>3. maxW * maxH < w * maxH
        BY <1>1, <3>1, TimesIsMonotone DEF Positive
    <3>4. maxH * maxW = maxW * maxH /\ maxH * maxW \in Nat
        BY DEF Positive
    <3> QED
        BY <1>2, <1>3, <3>2, <3>3, <3>4
  <2>3. /\ AtLeast1(Rounded(w * maxH, h)) \in Positive
        /\ AtLeast1(Rounded(w * maxH, h)) <= maxW /\ AtLeast1(Rounded(w * maxH, h)) <= w
    <3>1. w * maxH <= maxW * h
        BY <1>2, <1>3
    <3> QED
        BY <1>1, <2>2, <3>1, SideFits
  <2>4. /\ AtLeast1(Rounded(h * maxH, h)) \in Positive
        /\ AtLeast1(Rounded(h * maxH, h)) <= maxH /\ AtLeast1(Rounded(h * maxH, h)) <= h
      BY <1>1, <1>2, <2>2, SideFits
  <2> QED
      BY <2>1, <2>3, <2>4
<1>4. CASE ~(maxH * w < maxW * h)
  <2>1. /\ d.w = AtLeast1(Rounded(w * maxW, w))
        /\ d.h = AtLeast1(Rounded(h * maxW, w))
      BY <1>4 DEF downscale
  <2>2. maxW <= w
    <3> SUFFICES ASSUME w < maxW PROVE FALSE
        BY <1>1 DEF Positive
    <3>1. maxH < h
        BY <1>1 DEF Positive
    <3>2. w * maxH < maxW * maxH
        BY <1>1, TimesIsMonotone DEF Positive
    <3>3. maxH * maxW < h * maxW
        BY <1>1, <3>1, TimesIsMonotone DEF Positive
    <3>4. maxH * maxW = maxW * maxH /\ maxH * maxW \in Nat
        BY DEF Positive
    <3> QED
        BY <1>2, <1>4, <3>2, <3>3, <3>4
  <2>3. /\ AtLeast1(Rounded(w * maxW, w)) \in Positive
        /\ AtLeast1(Rounded(w * maxW, w)) <= maxW /\ AtLeast1(Rounded(w * maxW, w)) <= w
      BY <1>1, <1>2, <2>2, SideFits
  <2>4. h * maxW <= maxH * w
      BY <1>2, <1>4
  <2>5. /\ AtLeast1(Rounded(h * maxW, w)) \in Positive
        /\ AtLeast1(Rounded(h * maxW, w)) <= maxH /\ AtLeast1(Rounded(h * maxW, w)) <= h
      BY <1>1, <2>2, <2>4, SideFits
  <2> QED
      BY <2>1, <2>3, <2>5
<1> QED
    BY <1>3, <1>4

\* A downscaled picture is upright if the picture was.
LEMMA DownscaledIsUpright ==
    ASSUME NEW pic, IsPicture(pic), NEW maxW \in Positive, NEW maxH \in Positive,
           ~(pic.w <= maxW /\ pic.h <= maxH),
           NEW o \in Nat, NEW w \in Positive, NEW h \in Positive, Upright(pic, o, w, h)
    PROVE  /\ IsPicture(downscale(pic, maxW, maxH))
           /\ Upright(downscale(pic, maxW, maxH), o, w, h)
           /\ Fits(downscale(pic, maxW, maxH), maxW, maxH)
<1> DEFINE d == downscale(pic, maxW, maxH)
           X == [x \in 0..d.w - 1 |-> Cut(x, pic.w, d.w)..Cut(x + 1, pic.w, d.w) - 1]
           Y == [y \in 0..d.h - 1 |-> Cut(y, pic.h, d.h)..Cut(y + 1, pic.h, d.h) - 1]
           Block(i, from, to) ==
               LET first == (i * from) \div to
                   end   == ((i + 1) * from) \div to
               IN  first..(IF end <= first THEN first ELSE end - 1)
<1>1. /\ d.w \in Positive /\ d.w <= pic.w /\ d.w <= maxW
      /\ d.h \in Positive /\ d.h <= pic.h /\ d.h <= maxH
    BY DownscaledSize
<1>2. pic.w \in Positive /\ pic.h \in Positive
    BY DEF IsPicture
<1>3. d.at = [q \in Positions(d.w, d.h) |->
                UNION {pic.at[p] : p \in Block(q[1], pic.w, d.w) \X Block(q[2], pic.h, d.h)}]
  <2> DEFINE tall == maxH * pic.w < maxW * pic.h
             num  == IF tall THEN maxH ELSE maxW
             den  == IF tall THEN pic.h ELSE pic.w
             dw   == AtLeast1(Rounded(pic.w * num, den))
             dh   == AtLeast1(Rounded(pic.h * num, den))
             at   == [q \in Positions(dw, dh) |->
                        UNION {pic.at[p] : p \in Block(q[1], pic.w, dw) \X Block(q[2], pic.h, dh)}]
  <2>1. d = [w |-> dw, h |-> dh, at |-> at]
      BY Zenon DEF downscale
  <2> HIDE DEF d, dw, dh, Block
  <2> QED
      BY <2>1
<1> HIDE DEF d
<1>4. ASSUME NEW from \in Positive, NEW to \in Positive, to <= from, NEW i \in 0..to - 1
      PROVE  Block(i, from, to) = Cut(i, from, to)..Cut(i + 1, from, to) - 1
  <2>1. i \in Nat
      BY DEF Positive
  <2>2. Cut(i, from, to) \in Nat /\ Cut(i + 1, from, to) \in Nat /\ Cut(i, from, to) < Cut(i + 1, from, to)
      BY <1>4, <2>1, CutsAscend
  <2> QED
      BY <2>2 DEF Cut
<1> HIDE DEF Block
<1>5. \A q \in Positions(d.w, d.h) :
          d.at[q] = UNION {pic.at[p] : p \in X[q[1]] \X Y[q[2]]}
  <2> SUFFICES ASSUME NEW q \in Positions(d.w, d.h)
               PROVE  d.at[q] = UNION {pic.at[p] : p \in X[q[1]] \X Y[q[2]]}
      OBVIOUS
  <2>1. q[1] \in 0..d.w - 1 /\ q[2] \in 0..d.h - 1
      BY DEF Positions
  <2>2. Block(q[1], pic.w, d.w) = X[q[1]] /\ Block(q[2], pic.h, d.h) = Y[q[2]]
      BY <1>1, <1>2, <1>4, <2>1
  <2> HIDE DEF X, Y
  <2> QED
      BY <1>3, <2>2
<1>6. ASSUME NEW from \in Positive, NEW to \in Positive, to <= from
      PROVE  Divides([i \in 0..to - 1 |-> Cut(i, from, to)..Cut(i + 1, from, to) - 1], from, to)
  <2> DEFINE Z == [i \in 0..to - 1 |-> Cut(i, from, to)..Cut(i + 1, from, to) - 1]
  <2>1. ASSUME NEW i \in 0..to - 1
        PROVE  /\ Cut(i, from, to) \in Nat /\ Cut(i + 1, from, to) \in Nat
               /\ Cut(i + 1, from, to) <= from
               /\ \A j \in 0..to - 1 : i < j => Cut(i + 1, from, to) <= Cut(j, from, to)
    <3>1. i \in Nat /\ i + 1 \in Nat /\ i < to /\ 0..to - 1 \subseteq Nat
        BY DEF Positive
    <3> QED
        BY <1>6, <3>1, CutsAscend
  <2>2. \A i \in 0..to - 1 : Z[i] = Cut(i, from, to)..Cut(i + 1, from, to) - 1
      OBVIOUS
  <2>3. Z \in [0..to - 1 -> SUBSET (0..from - 1)]
    <3> SUFFICES ASSUME NEW i \in 0..to - 1
                 PROVE  Cut(i, from, to)..Cut(i + 1, from, to) - 1 \subseteq 0..from - 1
        OBVIOUS
    <3> QED
        BY <2>1 DEF Positive
  <2>4. ASSUME NEW p \in 0..from - 1
        PROVE  \E i \in 0..to - 1 : p \in Z[i]
    <3>1. PICK i \in 0..to - 1 : Cut(i, from, to) <= p /\ p < Cut(i + 1, from, to)
        BY <1>6, CutsCover
    <3>2. p \in Cut(i, from, to)..Cut(i + 1, from, to) - 1
        BY <2>1, <3>1
    <3> QED
        BY <2>2, <3>2
  <2>5. ASSUME NEW i \in 0..to - 1, NEW j \in 0..to - 1, i < j, NEW a \in Z[i], NEW b \in Z[j]
        PROVE  a < b
    <3>1. Cut(i + 1, from, to) <= Cut(j, from, to)
        BY <2>1, <2>5
    <3>2. a \in Int /\ b \in Int /\ a <= Cut(i + 1, from, to) - 1 /\ Cut(j, from, to) <= b
        BY <2>1, <2>2, <2>5
    <3> QED
        BY <2>1, <3>1, <3>2
  <2> QED
      BY <2>3, <2>4, <2>5 DEF Divides
<1>7. IsPicture(d)
    BY <1>1, <1>3 DEF IsPicture
<1>8. Divides(X, pic.w, d.w) /\ Divides(Y, pic.h, d.h)
    BY <1>1, <1>2, <1>6
<1> HIDE DEF X, Y
<1>9. Gathers(d, pic, X, Y)
    BY <1>5 DEF Gathers
<1>10. Upright(d, o, w, h)
    BY <1>7, <1>8, <1>9, BlocksKeepUpright
<1>11. Fits(d, maxW, maxH)
    BY <1>1 DEF Fits
<1> QED
    BY <1>7, <1>10, <1>11 DEF d

-----------------------------------------------------------------------------
(* What a TV is sent. *)

\* What is made of the fetched bytes k: but for these three fields, they stay.
Got(k, o, pic, c) ==
    [rendition |-> k.rendition, lookup |-> k.lookup, mime |-> k.mime, format |-> k.format,
     decodes |-> k.decodes, orientation |-> o, picture |-> pic, changed |-> c]

\* A JPEG or PNG that can be read.
IsImage(k) == k.format \in {"jpeg", "png"} /\ k.decodes = TRUE

\* After fixOrientation the picture is upright, and says nothing more of how to turn it.
LEMMA FixedIsUpright ==
    ASSUME NEW k, IsImage(k), NEW w \in Positive, NEW h \in Positive, NEW o \in Nat, NEW c,
           o \in 2..8 => k.format = "jpeg"
    PROVE  \E pic, r, d : /\ FixOrientation(Got(k, o, Stored(w, h), c)) = Got(k, r, pic, d)
                          /\ r \notin 2..8
                          /\ o \notin 2..8 => d = c
                          /\ IsPicture(pic) /\ Upright(pic, o, w, h)
<1> DEFINE got == Got(k, o, Stored(w, h), c)
<1>0. got.format = k.format /\ got.decodes = TRUE /\ got.orientation = o /\ got.picture = Stored(w, h)
    BY DEF Got, IsImage
<1>1. CASE o \in 2..8
  <2>1. FixOrientation(got) = Got(k, 1, applyOrientation(Stored(w, h), o), TRUE)
      BY <1>0, <1>1 DEF FixOrientation, Got
  <2>2. IsPicture(applyOrientation(Stored(w, h), o)) /\ Upright(applyOrientation(Stored(w, h), o), o, w, h)
      BY <1>1, TurnedIsUpright
  <2>3. 1 \notin 2..8
      OBVIOUS
  <2> QED
      BY <1>1, <2>1, <2>2, <2>3
<1>2. CASE o \notin 2..8
  <2>1. FixOrientation(got) = got
      BY <1>0, <1>2 DEF FixOrientation
  <2>2. IsPicture(Stored(w, h)) /\ Upright(Stored(w, h), o, w, h)
      BY <1>2, StoredIsPicture, StoredIsUpright
  <2> QED
      BY <1>2, <2>1, <2>2
<1> QED
    BY <1>1, <1>2

\* maybeResize keeps it so, and makes it fit.
LEMMA ResizedIsUpright ==
    ASSUME NEW k, IsImage(k), NEW r, r \notin 2..8, NEW pic, IsPicture(pic), NEW c,
           NEW maxW \in Nat, NEW maxH \in Nat,
           NEW o \in Nat, NEW w \in Positive, NEW h \in Positive, Upright(pic, o, w, h)
    PROVE  \E p, s, d : /\ MaybeDownscale(Got(k, r, pic, c), maxW, maxH) = Got(k, s, p, d)
                        /\ s \notin 2..8 /\ Upright(p, o, w, h)
                        /\ maxW > 0 /\ maxH > 0 => Fits(p, maxW, maxH)
                        /\ ~(maxW > 0 /\ maxH > 0) => d = c
<1> DEFINE got == Got(k, r, pic, c)
           fits == pic.w <= maxW /\ pic.h <= maxH
<1>0. /\ got.format \in {"jpeg", "png"} /\ got.decodes = TRUE
      /\ got.orientation = r /\ got.picture = pic /\ got.changed = c
    BY DEF Got, IsImage
<1>1. CASE maxW <= 0 \/ maxH <= 0 \/ fits
  <2>1. MaybeDownscale(got, maxW, maxH) = got
      BY <1>0, <1>1 DEF MaybeDownscale
  <2>2. maxW > 0 /\ maxH > 0 => Fits(pic, maxW, maxH)
      BY <1>1 DEF Fits
  <2> QED
      BY <2>1, <2>2
<1>2. CASE ~(maxW <= 0 \/ maxH <= 0 \/ fits)
  <2>1. MaybeDownscale(got, maxW, maxH) = Got(k, 1, downscale(pic, maxW, maxH), TRUE)
      BY <1>0, <1>2 DEF MaybeDownscale, Got
  <2>2. maxW \in Positive /\ maxH \in Positive /\ ~fits
      BY <1>2 DEF Positive
  <2>3. Upright(downscale(pic, maxW, maxH), o, w, h) /\ Fits(downscale(pic, maxW, maxH), maxW, maxH)
      BY <2>2, DownscaledIsUpright
  <2>4. maxW > 0 /\ maxH > 0 /\ 1 \notin 2..8
      BY <1>2
  <2> QED
      BY <2>1, <2>3, <2>4
<1> QED
    BY <1>1, <1>2

\* t is what the transform makes of the fetched picture k: upright, within the limit, and the same
\* bytes if nothing had to be done.
Transformed(cfg, k, w, h, o, c, t) ==
    /\ t = Got(k, t.orientation, t.picture, t.changed)
    /\ t.orientation \notin 2..8 /\ Upright(t.picture, o, w, h)
    /\ Downscaling(cfg) => Fits(t.picture, cfg.maxW, cfg.maxH)
    /\ ~Downscaling(cfg) /\ o \notin 2..8 => t.changed = c

LEMMA TransformedIsUpright ==
    ASSUME NEW cfg, cfg.maxW \in Nat, cfg.maxH \in Nat, NEW k, IsImage(k),
           NEW w \in Positive, NEW h \in Positive, NEW o \in Nat, NEW c,
           o \in 2..8 => k.format = "jpeg"
    PROVE  Transformed(cfg, k, w, h, o, c, transform(cfg, Got(k, o, Stored(w, h), c)))
<1>1. PICK pic, r, e : /\ FixOrientation(Got(k, o, Stored(w, h), c)) = Got(k, r, pic, e)
                       /\ r \notin 2..8
                       /\ o \notin 2..8 => e = c
                       /\ IsPicture(pic) /\ Upright(pic, o, w, h)
    BY FixedIsUpright
<1>2. PICK p, s, d :
         /\ MaybeDownscale(Got(k, r, pic, e), cfg.maxW, cfg.maxH) = Got(k, s, p, d)
         /\ s \notin 2..8 /\ Upright(p, o, w, h)
         /\ cfg.maxW > 0 /\ cfg.maxH > 0 => Fits(p, cfg.maxW, cfg.maxH)
         /\ ~(cfg.maxW > 0 /\ cfg.maxH > 0) => d = e
    BY <1>1, ResizedIsUpright
<1>3. transform(cfg, Got(k, o, Stored(w, h), c)) = Got(k, s, p, d)
    BY <1>1, <1>2 DEF transform
<1>4. Got(k, s, p, d).orientation = s /\ Got(k, s, p, d).picture = p /\ Got(k, s, p, d).changed = d
    BY DEF Got
<1> QED
    BY <1>1, <1>2, <1>3, <1>4 DEF Downscaling, Transformed

\* Bytes that are no picture, or do not decode, pass through.
LEMMA OthersPassThrough ==
    ASSUME NEW cfg, NEW got, got.format \notin {"jpeg", "png"} \/ got.decodes = FALSE
    PROVE  transform(cfg, got) = got
<1>1. FixOrientation(got) = got
    BY DEF FixOrientation
<1>2. MaybeDownscale(got, cfg.maxW, cfg.maxH) = got
    BY DEF MaybeDownscale
<1> QED
    BY <1>1, <1>2 DEF transform

\* What Immich sends for a rendition, one by one.
Sends(file, variant, lookup, f) ==
    /\ f = Got(f, f.orientation, f.picture, FALSE)
    /\ f.rendition = variant /\ f.lookup = lookup /\ f.changed = FALSE /\ f.decodes \in BOOLEAN
    /\ IF variant = "preview"
       THEN /\ f.mime = "image/jpeg" /\ f.format = "jpeg" /\ f.decodes = TRUE /\ f.orientation = 1
            /\ f.picture = Stored(file.preview[1], file.preview[2])
       ELSE IF variant = "playback" /\ file.transcoded
       THEN f.mime = "video/mp4" /\ f.format = "other"
       ELSE /\ f.mime = contentType(file.content) /\ f.format = file.format
            /\ f.orientation = file.orientation /\ f.picture = Stored(file.w, file.h)

LEMMA FetchedIs ==
    ASSUME NEW file, IsFile(file), NEW variant \in {"original", "preview", "playback"}, NEW lookup
    PROVE  Sends(file, variant, lookup, Fetched(file, variant, lookup))
<1> DEFINE f == Fetched(file, variant, lookup)
<1>0. file.decodes \in BOOLEAN
    BY DEF IsFile
<1>1. CASE variant = "preview"
  <2>1. f = [rendition |-> variant, lookup |-> lookup, mime |-> "image/jpeg", format |-> "jpeg",
             decodes |-> TRUE, orientation |-> 1,
             picture |-> Stored(file.preview[1], file.preview[2]), changed |-> FALSE]
      BY <1>1 DEF Fetched
  <2> HIDE DEF f
  <2>2. /\ f.rendition = variant /\ f.lookup = lookup /\ f.mime = "image/jpeg" /\ f.format = "jpeg"
        /\ f.decodes = TRUE /\ f.orientation = 1 /\ f.changed = FALSE
        /\ f.picture = Stored(file.preview[1], file.preview[2])
      BY <2>1
  <2>3. f = Got(f, f.orientation, f.picture, FALSE)
      BY <2>1, <2>2 DEF Got
  <2> QED
      BY <1>1, <2>2, <2>3 DEF f, Sends
<1>2. CASE variant = "playback" /\ file.transcoded
  <2>1. f = [rendition |-> variant, lookup |-> lookup, mime |-> "video/mp4", format |-> "other",
             decodes |-> FALSE, orientation |-> 1, picture |-> Stored(file.w, file.h),
             changed |-> FALSE]
      BY <1>2 DEF Fetched
  <2> HIDE DEF f
  <2>2. /\ f.rendition = variant /\ f.lookup = lookup /\ f.mime = "video/mp4" /\ f.format = "other"
        /\ f.decodes = FALSE /\ f.changed = FALSE
      BY <2>1
  <2>3. f = Got(f, f.orientation, f.picture, FALSE)
      BY <2>1, <2>2 DEF Got
  <2> QED
      BY <1>2, <2>2, <2>3 DEF f, Sends
<1>3. CASE variant # "preview" /\ ~(variant = "playback" /\ file.transcoded)
  <2>1. f = [rendition |-> variant, lookup |-> lookup, mime |-> contentType(file.content),
             format |-> file.format, decodes |-> file.decodes, orientation |-> file.orientation,
             picture |-> Stored(file.w, file.h), changed |-> FALSE]
      BY <1>3 DEF Fetched
  <2> HIDE DEF f
  <2>2. /\ f.rendition = variant /\ f.lookup = lookup /\ f.mime = contentType(file.content)
        /\ f.format = file.format /\ f.decodes = file.decodes /\ f.orientation = file.orientation
        /\ f.changed = FALSE /\ f.picture = Stored(file.w, file.h)
      BY <2>1
  <2>3. f = Got(f, f.orientation, f.picture, FALSE)
      BY <2>1, <2>2 DEF Got
  <2> QED
      BY <1>0, <1>3, <2>2, <2>3 DEF f, Sends
<1> QED
    BY <1>1, <1>2, <1>3

\* Only a video is sent with a video's MIME type, and no video's bytes are a picture.
LEMMA VideosAreVideos ==
    ASSUME NEW cfg, NEW file, IsFile(file), NEW lookup,
           isVideoMimeType(Fetched(file, mediaVariantFor(cfg, file, lookup), lookup).mime)
    PROVE  Video(file) /\ file.format = "other"
<1> DEFINE variant == mediaVariantFor(cfg, file, lookup)
           f == Fetched(file, variant, lookup)
<1>1. variant \in {"original", "preview", "playback"} /\ (variant = "playback" => Video(file))
    BY DEF mediaVariantFor
<1>2. ~isVideoMimeType("image/jpeg")
    BY DEF isVideoMimeType, VideoTypes
<1> SUFFICES ASSUME isVideoMimeType(f.mime) PROVE Video(file) /\ file.format = "other"
    OBVIOUS
<1> HIDE DEF variant
<1>s. Sends(file, variant, lookup, f)
    BY <1>1, FetchedIs
<1> HIDE DEF f
<1>3. CASE variant = "original"
  <2>1. f.mime = contentType(file.content)
      BY <1>s, <1>3 DEF Sends
  <2>2. isVideoMimeType(file.content)
      BY <1>2, <2>1 DEF contentType
  <2> QED
      BY <2>2 DEF IsFile
<1>4. CASE variant = "playback"
    BY <1>1, <1>4 DEF IsFile
<1>5. CASE variant = "preview"
  <2>1. f.mime = "image/jpeg"
      BY <1>s, <1>5 DEF Sends
  <2> QED
      BY <1>2, <2>1
<1> QED
    BY <1>1, <1>3, <1>4, <1>5

\* What the cache is filled with is the rendition fetched, with its type, and shown as promised.
\* Its bytes are changed only if they are a picture that is turned, or too large.
LEMMA FillIsShown ==
    ASSUME NEW cfg, cfg.maxW \in Nat, cfg.maxH \in Nat, NEW file, IsFile(file),
           NEW lookup \in {"ok", "failed"}
    PROVE  LET variant == mediaVariantFor(cfg, file, lookup)
               f       == Fetched(file, variant, lookup)
               filled  == cacheFill(cfg, file, lookup)
           IN  /\ filled = Got(f, filled.orientation, filled.picture, filled.changed)
               /\ ShownAsPromised(cfg, file, filled)
               /\ filled.changed /\ variant = "original" =>
                    file.format \in {"jpeg", "png"} /\ (file.orientation \in 2..8 \/ Downscaling(cfg))
<1> DEFINE variant == mediaVariantFor(cfg, file, lookup)
           f       == Fetched(file, variant, lookup)
           filled  == cacheFill(cfg, file, lookup)
<1>0. variant \in {"original", "preview", "playback"} /\ (variant = "playback" => Video(file))
    BY DEF mediaVariantFor
<1>1. filled = IF isVideoMimeType(f.mime) THEN f ELSE transform(cfg, f)
    BY DEF cacheFill
<1>2. /\ f = Got(f, f.orientation, f.picture, FALSE)
      /\ f.rendition = variant /\ f.changed = FALSE /\ f.decodes \in BOOLEAN
      /\ variant = "preview" =>
           /\ f.mime = "image/jpeg" /\ f.format = "jpeg" /\ f.decodes = TRUE /\ f.orientation = 1
           /\ f.picture = Stored(file.preview[1], file.preview[2])
      /\ variant = "playback" /\ file.transcoded => f.mime = "video/mp4" /\ f.format = "other"
      /\ variant = "original" \/ (variant = "playback" /\ ~file.transcoded) =>
           /\ f.mime = contentType(file.content) /\ f.format = file.format
           /\ f.orientation = file.orientation /\ f.picture = Stored(file.w, file.h)
  <2> HIDE DEF variant
  <2>1. Sends(file, variant, lookup, f)
      BY <1>0, FetchedIs
  <2> HIDE DEF f
  <2> QED
      BY <1>0, <2>1 DEF Sends
<1>3. isVideoMimeType(f.mime) => file.format = "other" /\ variant # "preview"
  <2>1. ~isVideoMimeType("image/jpeg")
      BY DEF isVideoMimeType, VideoTypes
  <2> QED
      BY <1>2, <2>1, VideosAreVideos
<1>4. /\ file.w \in Positive /\ file.h \in Positive /\ file.orientation \in Nat
      /\ file.preview[1] \in Positive /\ file.preview[2] \in Positive
      /\ file.transcoded \in BOOLEAN /\ (Video(file) => file.format = "other")
      /\ file.orientation \in 2..8 => file.format = "jpeg"
    BY DEF IsFile, Positive
<1> HIDE DEF filled, f, variant
\* The fetched bytes are passed on.
<1>5. CASE ~IsImage(f)
  <2>1. f.format \notin {"jpeg", "png"} \/ f.decodes = FALSE
      BY <1>2, <1>5 DEF IsImage
  <2>2. filled = f
      BY <1>1, <2>1, OthersPassThrough
  <2>3. ShownAsPromised(cfg, file, f)
      BY <1>2, <2>1 DEF ShownAsPromised
  <2> QED
      BY <1>2, <2>2, <2>3 DEF f, variant, filled
\* They are a picture, so not a video's.
<1>6. CASE IsImage(f)
  <2>1. variant # "playback" /\ ~isVideoMimeType(f.mime)
      BY <1>0, <1>2, <1>3, <1>4, <1>6 DEF IsImage
  <2>2. PICK w \in Positive, h \in Positive, o \in Nat :
            /\ f.picture = Stored(w, h) /\ f.orientation = o /\ (o \in 2..8 => f.format = "jpeg")
            /\ IF variant = "preview" THEN o = 1 /\ w = file.preview[1] /\ h = file.preview[2]
               ELSE o = file.orientation /\ w = file.w /\ h = file.h
    <3>1. CASE variant = "preview"
        BY <1>2, <1>4, <3>1
    <3>2. CASE variant = "original"
        BY <1>2, <1>4, <3>2
    <3> QED
        BY <1>0, <2>1, <3>1, <3>2
  <2>3. filled = transform(cfg, Got(f, o, Stored(w, h), FALSE))
      BY <1>1, <1>2, <2>1, <2>2
  <2>t. Transformed(cfg, f, w, h, o, FALSE, transform(cfg, Got(f, o, Stored(w, h), FALSE)))
      BY <1>6, <2>2, TransformedIsUpright
  <2>4. /\ filled = Got(f, filled.orientation, filled.picture, filled.changed)
        /\ filled.orientation \notin 2..8 /\ Upright(filled.picture, o, w, h)
        /\ Downscaling(cfg) => Fits(filled.picture, cfg.maxW, cfg.maxH)
        /\ ~Downscaling(cfg) /\ o \notin 2..8 => filled.changed = FALSE
      BY <2>3, <2>t DEF Transformed
  <2>5. filled.format = f.format /\ filled.decodes = TRUE /\ filled.rendition = variant
      BY <1>2, <1>6, <2>4 DEF Got, IsImage
  <2>6. ShownAsPromised(cfg, file, filled)
      BY <1>6, <2>2, <2>4, <2>5 DEF ShownAsPromised, IsImage
  <2>7. filled.changed /\ variant = "original" =>
            file.format \in {"jpeg", "png"} /\ (file.orientation \in 2..8 \/ Downscaling(cfg))
      BY <1>2, <1>6, <2>2, <2>4 DEF IsImage
  <2> QED
      BY <2>4, <2>6, <2>7 DEF f, variant, filled
<1> QED
    BY <1>5, <1>6

\* buildAssetItem and mediaVariantFor agree unless the lookup fails, and what has a size is not
\* converted, nor a photo listed as one that is downscaled.
LEMMA VariantIsListed ==
    ASSUME NEW cfg, NEW file, IsFile(file), NEW lookup \in {"ok", "failed"}
    PROVE  LET item    == buildAssetItem(cfg, file)
               variant == mediaVariantFor(cfg, file, lookup)
           IN  /\ item.converted \in BOOLEAN /\ item.sized \in BOOLEAN
               /\ lookup = "ok" => (item.converted <=> variant # "original")
               /\ item.sized => /\ ~item.converted /\ variant = "original"
                                /\ Video(file) \/ ~(Downscaling(cfg) /\ displayableImage(file.mime))
               /\ item.converted => item.mime = IF Video(file) THEN "video/mp4" ELSE "image/jpeg"
               /\ ~item.converted => item.mime = listedType(file)
               /\ Video(file) => (item.converted <=> servesTranscoded(cfg))
               /\ variant = "preview" => ~Video(file)
BY DEF buildAssetItem, mediaVariantFor, servesPreview, Photo, Video, IsFile

\* Whatever the file and the configuration, what a request is sent for it, be it what it fetched,
\* what another request left in the cache or a video that is proxied, is the rendition that was
\* listed, with its type, unless the lookup failed; where a size was listed, the original's bytes
\* with the exceptions of SentAsListed; and a picture that a TV which knows nothing of EXIF shows
\* upright and whole, within MAX_RESOLUTION, or one that was not touched.
\* (contentdirectory.go:508-552, server.go:223-257, imageproc/.)
THEOREM RenditionAsPromised ==
    ASSUME NEW cfg, cfg.maxW \in Nat, cfg.maxH \in Nat, NEW file, IsFile(file),
           NEW lookup \in {"ok", "failed"}
    PROVE  LET filled == cacheFill(cfg, file, lookup)
           IN  \A sent \in {filled, handleMedia(cfg, file, lookup)}
                           \cup {p \in {proxied(cfg, file)} : isVideoMimeType(filled.mime)} :
                   /\ ShownAsPromised(cfg, file, sent)
                   /\ SentAsListed(cfg, file, buildAssetItem(cfg, file), sent)
<1> DEFINE item == buildAssetItem(cfg, file)
           variant == mediaVariantFor(cfg, file, lookup)
           f == Fetched(file, variant, lookup)
           filled == cacheFill(cfg, file, lookup)
           proxy == proxied(cfg, file)
<1>0. variant \in {"original", "preview", "playback"} /\ (variant = "playback" => Video(file))
    BY DEF mediaVariantFor
<1>1. /\ filled = Got(f, filled.orientation, filled.picture, filled.changed)
      /\ ShownAsPromised(cfg, file, filled)
      /\ filled.changed /\ variant = "original" =>
           file.format \in {"jpeg", "png"} /\ (file.orientation \in 2..8 \/ Downscaling(cfg))
    BY FillIsShown
<1>2. /\ item.converted \in BOOLEAN /\ item.sized \in BOOLEAN
      /\ lookup = "ok" => (item.converted <=> variant # "original")
      /\ item.sized => /\ ~item.converted /\ variant = "original"
                       /\ Video(file) \/ ~(Downscaling(cfg) /\ displayableImage(file.mime))
      /\ item.converted => item.mime = IF Video(file) THEN "video/mp4" ELSE "image/jpeg"
      /\ ~item.converted => item.mime = listedType(file)
      /\ Video(file) => (item.converted <=> servesTranscoded(cfg))
      /\ variant = "preview" => ~Video(file)
    BY VariantIsListed
<1>3. /\ f.rendition = variant /\ f.lookup = lookup
      /\ variant = "preview" => f.mime = "image/jpeg"
      /\ variant = "playback" /\ file.transcoded => f.mime = "video/mp4"
      /\ variant = "original" => f.mime = contentType(file.content) /\ f.format = file.format
  <2> HIDE DEF variant
  <2>1. Sends(file, variant, lookup, f)
      BY <1>0, FetchedIs
  <2> HIDE DEF f
  <2> QED
      BY <1>0, <2>1 DEF Sends
<1>4. filled.rendition = variant /\ filled.lookup = lookup /\ filled.mime = f.mime /\ filled.format = f.format
    BY <1>1, <1>3 DEF Got
\* Where Immich knows a type, the original is listed with it and sent with it.
<1>5. file.mime # NoType => contentType(file.content) = listedType(file)
    BY DEF IsFile, contentType, listedType
<1>6. Video(file) => file.format = "other"
    BY DEF IsFile
<1>7. handleMedia(cfg, file, lookup) = IF isVideoMimeType(filled.mime) THEN proxy ELSE filled
    BY DEF handleMedia
<1>8. isVideoMimeType(filled.mime) => Video(file)
    BY <1>4, VideosAreVideos
<1>9. ASSUME Video(file)
      PROVE  ShownAsPromised(cfg, file, proxy) /\ SentAsListed(cfg, file, item, proxy)
  <2> DEFINE which == IF servesTranscoded(cfg) THEN "playback" ELSE "original"
  <2>1. proxy = Fetched(file, which, "none") /\ which \in {"original", "preview", "playback"}
      BY DEF proxied
  <2>2. /\ proxy.rendition = which /\ proxy.lookup = "none" /\ proxy.changed = FALSE
        /\ which = "playback" /\ file.transcoded => proxy.mime = "video/mp4" /\ proxy.format = "other"
        /\ which = "original" \/ ~file.transcoded =>
             proxy.mime = contentType(file.content) /\ proxy.format = file.format
    <3> HIDE DEF proxy, which
    <3>1. Sends(file, which, "none", proxy)
        BY <2>1, FetchedIs
    <3> QED
        BY <2>1, <3>1 DEF Sends, which
  <2>3. proxy.format = "other"
      BY <1>6, <1>9, <2>2
  <2> HIDE DEF proxy, item
  <2>4. ShownAsPromised(cfg, file, proxy)
      BY <2>2, <2>3 DEF ShownAsPromised
  <2>5. SentAsListed(cfg, file, item, proxy)
      BY <1>2, <1>5, <1>9, <2>2 DEF SentAsListed
  <2> QED
      BY <2>4, <2>5
<1> HIDE DEF item, variant, f, filled, proxy
<1>10. SentAsListed(cfg, file, item, filled)
  <2>1. ASSUME lookup # "failed", file.mime # NoType \/ item.converted
        PROVE  filled.mime = item.mime \/ (filled.rendition = "playback" /\ ~file.transcoded)
    <3>1. CASE variant = "original"
        BY <1>2, <1>3, <1>4, <1>5, <2>1, <3>1
    <3>2. CASE variant = "preview"
        BY <1>2, <1>3, <1>4, <2>1, <3>2
    <3>3. CASE variant = "playback"
        BY <1>0, <1>2, <1>3, <1>4, <2>1, <3>3
    <3> QED
        BY <1>0, <3>1, <3>2, <3>3
  <2>2. ASSUME item.sized
        PROVE  /\ filled.rendition = "original"
               /\ filled.changed => \/ file.orientation \in 2..8
                                    \/ filled.format \in {"jpeg", "png"} /\ ~displayableImage(file.mime)
      BY <1>1, <1>2, <1>3, <1>4, <1>6, <2>2
  <2>3. lookup # "failed" => (item.converted <=> filled.rendition # "original")
      BY <1>2, <1>4
  <2> QED
      BY <1>4, <2>1, <2>2, <2>3 DEF SentAsListed
<1> QED
    BY <1>1, <1>7, <1>8, <1>9, <1>10 DEF item, filled, proxy
=============================================================================
