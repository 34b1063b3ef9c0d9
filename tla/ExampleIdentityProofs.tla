----------------------- MODULE ExampleIdentityProofs -----------------------
(***************************************************************************)
(* For all inputs, whatever the length of the datasets, and all proofs that *)
(* may arrive: the roots, refusals and relations of compute_multiset_root  *)
(* say of the items what they should, a built inclusion proof is accepted, *)
(* and what is accepted is true. First the tree: the bounds of _mth, and   *)
(* the levels by which _fold_audit_path climbs. Then counting and sorting: *)
(* what _normalize computes. Then the two invariants, of the calls and of  *)
(* the fold, and what they tell.                                           *)
(***************************************************************************)
EXTENDS ExampleIdentity, FiniteSetTheorems, SequenceTheorems, WellFoundedInduction, TLAPS

-----------------------------------------------------------------------------
(* Induction on numbers *)

\* A set of numbers that holds each one whose predecessors it holds is all of Nat.
LEMMA StrongInduction ==
    ASSUME NEW S, \A n \in Nat : (\A m \in 0..(n - 1) : m \in S) => n \in S
    PROVE  \A n \in Nat : n \in S
<1> DEFINE T == Nat \ S
<1> SUFFICES ASSUME T # {} PROVE FALSE
  OBVIOUS
<1>1. PICK n \in T : \A m \in T : <<m, n>> \notin OpToRel(<, Nat)
  <2>1. T \subseteq Nat /\ T # {}
    OBVIOUS
  <2> HIDE DEF T
  <2> QED  BY <2>1, NatLessThanWellFounded, WFMin
<1>2. ASSUME NEW m \in 0..(n - 1), m \notin S PROVE FALSE
  <2>1. m \in T /\ n \in Nat /\ m < n
    BY <1>2
  <2> QED  BY <1>1, <2>1 DEF OpToRel
<1> QED  BY <1>2

LEMMA StepInduction ==
    ASSUME NEW S, 0 \in S, \A n \in Nat : n \in S => n + 1 \in S
    PROVE  \A n \in Nat : n \in S
<1>1. ASSUME NEW n \in Nat, \A m \in 0..(n - 1) : m \in S
      PROVE  n \in S
  <2>1. CASE n = 0
    BY <2>1
  <2>2. CASE n # 0
    <3>1. n - 1 \in 0..(n - 1) /\ n - 1 \in Nat /\ (n - 1) + 1 = n
      BY <2>2
    <3> QED  BY <1>1, <3>1
  <2> QED  BY <2>1, <2>2
<1> QED  BY <1>1, StrongInduction

-----------------------------------------------------------------------------
(* Split *)

\* The loop of _split from i on.
Doubled(n, k, i) == IF i * 2 < n THEN k[i * 2] ELSE i
Doubling(n) == CHOOSE k : k = [i \in 1..n |-> Doubled(n, k, i)]

\* The recursive definition of Split has a solution, and Split is its value at 1.
LEMMA SplitDefined ==
    ASSUME NEW n \in Nat
    PROVE  /\ Doubling(n) = [i \in 1..n |-> Doubled(n, Doubling(n), i)]
           /\ Split(n) = Doubling(n)[1]
<1> DEFINE Solves(k, d) == \A i \in 1..n : n - i <= d => k[i] = Doubled(n, k, i)
           S == {d \in Nat : \E k : k = [i \in 1..n |-> k[i]] /\ Solves(k, d)}
<1>1. 0 \in S
  <2> DEFINE k == [i \in 1..n |-> i]
  <2>1. k = [i \in 1..n |-> k[i]] /\ Solves(k, 0)
    BY DEF Doubled
  <2> QED  BY <2>1
<1>2. ASSUME NEW d \in Nat, d \in S PROVE d + 1 \in S
  <2>1. PICK k : k = [i \in 1..n |-> k[i]] /\ Solves(k, d)
    BY <1>2
  <2> DEFINE l == [i \in 1..n |-> IF n - i <= d THEN k[i] ELSE Doubled(n, k, i)]
  <2>2. ASSUME NEW i \in 1..n, n - i <= d + 1
        PROVE  l[i] = Doubled(n, l, i)
    <3>1. l[i] = Doubled(n, k, i)
      BY <2>1
    <3>2. i * 2 < n => i * 2 \in 1..n /\ n - i * 2 <= d
      BY <2>2
    <3>3. i * 2 < n => l[i * 2] = k[i * 2]
      BY <3>2
    <3> QED  BY <3>1, <3>3 DEF Doubled
  <2>3. l = [i \in 1..n |-> l[i]]
    OBVIOUS
  <2> HIDE DEF l
  <2>4. Solves(l, d + 1)
    BY <2>2
  <2> QED  BY <2>3, <2>4
<1>3. n \in S
  <2> HIDE DEF S
  <2> QED  BY <1>1, <1>2, StepInduction
<1>4. PICK k : k = [i \in 1..n |-> k[i]] /\ Solves(k, n)
  BY <1>3
<1>5. k = [i \in 1..n |-> Doubled(n, k, i)]
  <2>1. \A i \in 1..n : k[i] = Doubled(n, k, i)
    BY <1>4
  <2> QED  BY <1>4, <2>1
<1>6. Doubling(n) = [i \in 1..n |-> Doubled(n, Doubling(n), i)]
  <2> DEFINE F(f) == [i \in 1..n |-> Doubled(n, f, i)]
  <2>1. \E f : f = F(f)
    BY <1>5
  <2> HIDE DEF F
  <2>2. (CHOOSE f : f = F(f)) = F(CHOOSE f : f = F(f))
    BY <2>1
  <2> QED  BY <2>2 DEF Doubling, F
<1>7. Split(n) = Doubling(n)[1]
  BY DEF Split, Doubling, Doubled
<1> QED  BY <1>6, <1>7

\* Two subtrees of at least one leaf.
LEMMA SplitBounds ==
    ASSUME NEW n \in Nat, n >= 2
    PROVE  Split(n) \in 1..(n - 1)
<1> DEFINE k == Doubling(n)
           S == {d \in Nat : \A i \in 1..(n - 1) : n - i <= d => k[i] \in 1..(n - 1)}
<1>1. \A i \in 1..n : k[i] = Doubled(n, k, i)
  BY SplitDefined
<1> HIDE DEF k
<1>2. 0 \in S
  OBVIOUS
<1>3. ASSUME NEW d \in Nat, d \in S PROVE d + 1 \in S
  <2>1. ASSUME NEW i \in 1..(n - 1), n - i <= d + 1
        PROVE  k[i] \in 1..(n - 1)
    <3>1. i * 2 < n => i * 2 \in 1..(n - 1) /\ n - i * 2 <= d
      BY <2>1
    <3> QED  BY <1>1, <1>3, <3>1 DEF Doubled
  <2> QED  BY <2>1
<1>4. n \in S
  <2> HIDE DEF S
  <2> QED  BY <1>2, <1>3, StepInduction
<1>5. k[1] \in 1..(n - 1)
  BY <1>4
<1> QED  BY <1>5, SplitDefined DEF k

\* The numbers that doubling reaches from 1.
PowersOfTwo ==
    {x \in Nat : \A S \in SUBSET Nat : 1 \in S /\ (\A y \in S : y * 2 \in S) => x \in S}

LEMMA PowersDouble ==
    /\ 1 \in PowersOfTwo
    /\ \A w \in PowersOfTwo : w \in Nat /\ w >= 1 /\ w * 2 \in PowersOfTwo
<1>1. 1 \in PowersOfTwo
  BY DEF PowersOfTwo
<1>2. ASSUME NEW w \in PowersOfTwo PROVE w \in Nat /\ w >= 1 /\ w * 2 \in PowersOfTwo
  <2> DEFINE S == {x \in Nat : x >= 1}
  <2>1. S \in SUBSET Nat /\ 1 \in S /\ \A y \in S : y * 2 \in S
    OBVIOUS
  <2>2. w \in S
    <3> HIDE DEF S
    <3> QED  BY <2>1 DEF PowersOfTwo
  <2>3. w * 2 \in Nat
    BY DEF PowersOfTwo
  <2>4. ASSUME NEW R \in SUBSET Nat, 1 \in R, \A y \in R : y * 2 \in R
        PROVE  w * 2 \in R
    BY <2>4 DEF PowersOfTwo
  <2> QED  BY <2>2, <2>3, <2>4 DEF PowersOfTwo
<1> QED  BY <1>1, <1>2

\* Split is the largest power of two below its argument.
LEMMA SplitIsPower ==
    ASSUME NEW w \in PowersOfTwo, NEW n \in Nat, w < n, n <= w * 2
    PROVE  Split(n) = w
<1> DEFINE k == Doubling(n)
           S == {x \in Nat : x >= 1 /\ (x < n => k[x] = k[1])}
<1>1. \A i \in 1..n : k[i] = Doubled(n, k, i)
  BY SplitDefined
<1> HIDE DEF k
<1>2. S \in SUBSET Nat /\ 1 \in S
  OBVIOUS
<1>3. ASSUME NEW y \in S PROVE y * 2 \in S
  <2>1. y \in Nat /\ y >= 1 /\ (y < n => k[y] = k[1])
    OBVIOUS
  <2>2. y * 2 < n => y \in 1..n /\ y < n
    BY <2>1
  <2> QED  BY <1>1, <2>1, <2>2 DEF Doubled
<1>4. w \in S
  <2> HIDE DEF S
  <2> QED  BY <1>2, <1>3 DEF PowersOfTwo
<1>5. k[w] = k[1] /\ w \in 1..n
  BY <1>4
<1>6. k[w] = w
  BY <1>1, <1>5 DEF Doubled
<1> QED  BY <1>5, <1>6, SplitDefined DEF k

-----------------------------------------------------------------------------
(* The tree *)

\* The recursion of _mth over the n leaves after lo.
HashOf(leaves, f, n, lo) ==
    IF n = 1 THEN LeafHash(leaves[lo + 1])
    ELSE NodeHash(f[Split(n)][lo], f[n - Split(n)][lo + Split(n)])
Row(leaves, f, n) == [lo \in 0..Len(leaves) - n |-> HashOf(leaves, f, n, lo)]
Tree(leaves) == CHOOSE f : f = [n \in 1..Len(leaves) |-> Row(leaves, f, n)]

\* The recursive definition of SubtreeHash has a solution.
LEMMA TreeDefined ==
    ASSUME NEW leaves, Len(leaves) \in Nat
    PROVE  /\ Tree(leaves) = [n \in 1..Len(leaves) |-> Row(leaves, Tree(leaves), n)]
           /\ \A from, to : SubtreeHash(leaves, from, to) = Tree(leaves)[to - from][from]
<1> DEFINE L == 1..Len(leaves)
           Solves(f, d) == \A n \in L : n <= d => f[n] = Row(leaves, f, n)
           S == {d \in Nat : \E f : f = [n \in L |-> f[n]] /\ Solves(f, d)}
<1>1. 0 \in S
  <2> DEFINE f == [n \in L |-> 0]
  <2>1. f = [n \in L |-> f[n]] /\ Solves(f, 0)
    OBVIOUS
  <2> QED  BY <2>1
<1>2. ASSUME NEW d \in Nat, d \in S PROVE d + 1 \in S
  <2>1. PICK f : f = [n \in L |-> f[n]] /\ Solves(f, d)
    BY <1>2
  <2> DEFINE g == [n \in L |-> IF n <= d THEN f[n] ELSE Row(leaves, f, n)]
  <2>2. g = [n \in L |-> g[n]]
    OBVIOUS
  <2>3. ASSUME NEW n \in L, n <= d + 1
        PROVE  g[n] = Row(leaves, g, n)
    <3>1. g[n] = Row(leaves, f, n)
      BY <2>1
    <3>2. \A lo \in 0..Len(leaves) - n : HashOf(leaves, f, n, lo) = HashOf(leaves, g, n, lo)
      <4>1. CASE n = 1
        BY <4>1 DEF HashOf
      <4>2. CASE n # 1
        <5>1. Split(n) \in 1..(n - 1)
          BY <4>2, SplitBounds
        <5>2. Split(n) \in L /\ Split(n) <= d /\ n - Split(n) \in L /\ n - Split(n) <= d
          BY <2>3, <5>1
        <5>3. g[Split(n)] = f[Split(n)] /\ g[n - Split(n)] = f[n - Split(n)]
          BY <5>2
        <5> QED  BY <4>2, <5>3 DEF HashOf
      <4> QED  BY <4>1, <4>2
    <3> QED  BY <3>1, <3>2 DEF Row
  <2> HIDE DEF g
  <2>4. Solves(g, d + 1)
    BY <2>3
  <2> QED  BY <2>2, <2>4
<1>3. Len(leaves) \in S
  <2> HIDE DEF S
  <2> QED  BY <1>1, <1>2, StepInduction
<1>4. PICK f : f = [n \in L |-> f[n]] /\ Solves(f, Len(leaves))
  BY <1>3
<1>5. f = [n \in L |-> Row(leaves, f, n)]
  <2>1. \A n \in L : f[n] = Row(leaves, f, n)
    BY <1>4
  <2> QED  BY <1>4, <2>1
<1> DEFINE F(g) == [n \in L |-> Row(leaves, g, n)]
<1>6. Tree(leaves) = F(Tree(leaves))
  <2>1. \E g : g = F(g)
    BY <1>5
  <2> HIDE DEF F
  <2>2. (CHOOSE g : g = F(g)) = F(CHOOSE g : g = F(g))
    BY <2>1
  <2> QED  BY <2>2 DEF Tree, F
<1>7. \A from, to : SubtreeHash(leaves, from, to) = Tree(leaves)[to - from][from]
  BY DEF SubtreeHash, Tree, Row, HashOf
<1> QED  BY <1>6, <1>7

\* The hash of one leaf, and of more than one.
LEMMA SubtreeIsLeaf ==
    ASSUME NEW leaves, Len(leaves) \in Nat, NEW lo \in 0..(Len(leaves) - 1)
    PROVE  SubtreeHash(leaves, lo, lo + 1) = LeafHash(leaves[lo + 1])
<1>1. 1 \in 1..Len(leaves) /\ lo \in 0..Len(leaves) - 1 /\ (lo + 1) - lo = 1
  OBVIOUS
<1>2. Tree(leaves)[1] = Row(leaves, Tree(leaves), 1)
  BY <1>1, TreeDefined
<1>3. Tree(leaves)[1][lo] = HashOf(leaves, Tree(leaves), 1, lo)
  BY <1>1, <1>2 DEF Row
<1>4. SubtreeHash(leaves, lo, lo + 1) = Tree(leaves)[1][lo]
  BY <1>1, TreeDefined
<1> QED  BY <1>3, <1>4 DEF HashOf

LEMMA SubtreeIsNode ==
    ASSUME NEW leaves, Len(leaves) \in Nat, NEW lo \in 0..Len(leaves), NEW hi \in 0..Len(leaves),
           hi - lo >= 2, NEW k, k = Split(hi - lo)
    PROVE  /\ k \in 1..(hi - lo - 1)
           /\ SubtreeHash(leaves, lo, hi)
                = NodeHash(SubtreeHash(leaves, lo, lo + k), SubtreeHash(leaves, lo + k, hi))
<1> DEFINE n == hi - lo
           T == Tree(leaves)
<1>1. k \in 1..(n - 1)
  BY SplitBounds
<1>2. n \in 1..Len(leaves) /\ lo \in 0..Len(leaves) - n
  OBVIOUS
<1>3. T[n] = Row(leaves, T, n)
  BY <1>2, TreeDefined
<1>4. T[n][lo] = HashOf(leaves, T, n, lo)
  BY <1>2, <1>3 DEF Row
<1>5. (lo + k) - lo = k /\ hi - (lo + k) = n - k
  BY <1>1
<1>6. /\ SubtreeHash(leaves, lo, hi) = T[n][lo]
      /\ SubtreeHash(leaves, lo, lo + k) = T[k][lo]
      /\ SubtreeHash(leaves, lo + k, hi) = T[n - k][lo + k]
  BY <1>5, TreeDefined
<1>7. n # 1
  OBVIOUS
<1> QED  BY <1>1, <1>4, <1>6, <1>7 DEF HashOf

-----------------------------------------------------------------------------
(* The audit path *)

\* The recursion of _path over the n leaves after lo.
PathOf(m, leaves, f, n, lo) ==
    LET k == Split(n)
    IN  IF n = 1 THEN <<>>
        ELSE IF m < lo + k THEN f[k][lo] \o <<SubtreeHash(leaves, lo + k, lo + n)>>
        ELSE f[n - k][lo + k] \o <<SubtreeHash(leaves, lo, lo + k)>>
PathRow(m, leaves, f, n) == [lo \in 0..Len(leaves) - n |-> PathOf(m, leaves, f, n, lo)]
Paths(m, leaves) == CHOOSE f : f = [n \in 1..Len(leaves) |-> PathRow(m, leaves, f, n)]

\* The path of leaf m within the leaves lo+1..hi.
PathWithin(m, leaves, lo, hi) == Paths(m, leaves)[hi - lo][lo]

\* The recursive definition of Path has a solution.
LEMMA PathDefined ==
    ASSUME NEW m, NEW leaves, Len(leaves) \in Nat
    PROVE  /\ Paths(m, leaves) = [n \in 1..Len(leaves) |-> PathRow(m, leaves, Paths(m, leaves), n)]
           /\ Path(m, leaves) = Paths(m, leaves)[Len(leaves)][0]
<1> DEFINE L == 1..Len(leaves)
           Solves(f, d) == \A n \in L : n <= d => f[n] = PathRow(m, leaves, f, n)
           S == {d \in Nat : \E f : f = [n \in L |-> f[n]] /\ Solves(f, d)}
<1>1. 0 \in S
  <2> DEFINE f == [n \in L |-> 0]
  <2>1. f = [n \in L |-> f[n]] /\ Solves(f, 0)
    OBVIOUS
  <2> QED  BY <2>1
<1>2. ASSUME NEW d \in Nat, d \in S PROVE d + 1 \in S
  <2>1. PICK f : f = [n \in L |-> f[n]] /\ Solves(f, d)
    BY <1>2
  <2> DEFINE g == [n \in L |-> IF n <= d THEN f[n] ELSE PathRow(m, leaves, f, n)]
  <2>2. g = [n \in L |-> g[n]]
    OBVIOUS
  <2>3. ASSUME NEW n \in L, n <= d + 1
        PROVE  g[n] = PathRow(m, leaves, g, n)
    <3>1. g[n] = PathRow(m, leaves, f, n)
      BY <2>1
    <3>2. \A lo \in 0..Len(leaves) - n : PathOf(m, leaves, f, n, lo) = PathOf(m, leaves, g, n, lo)
      <4>1. CASE n = 1
        BY <4>1 DEF PathOf
      <4>2. CASE n # 1
        <5>1. Split(n) \in 1..(n - 1)
          BY <4>2, SplitBounds
        <5>2. Split(n) \in L /\ Split(n) <= d /\ n - Split(n) \in L /\ n - Split(n) <= d
          BY <2>3, <5>1
        <5>3. g[Split(n)] = f[Split(n)] /\ g[n - Split(n)] = f[n - Split(n)]
          BY <5>2
        <5> QED  BY <4>2, <5>3 DEF PathOf
      <4> QED  BY <4>1, <4>2
    <3> QED  BY <3>1, <3>2 DEF PathRow
  <2> HIDE DEF g
  <2>4. Solves(g, d + 1)
    BY <2>3
  <2> QED  BY <2>2, <2>4
<1>3. Len(leaves) \in S
  <2> HIDE DEF S
  <2> QED  BY <1>1, <1>2, StepInduction
<1>4. PICK f : f = [n \in L |-> f[n]] /\ Solves(f, Len(leaves))
  BY <1>3
<1>5. f = [n \in L |-> PathRow(m, leaves, f, n)]
  <2>1. \A n \in L : f[n] = PathRow(m, leaves, f, n)
    BY <1>4
  <2> QED  BY <1>4, <2>1
<1> DEFINE F(g) == [n \in L |-> PathRow(m, leaves, g, n)]
<1>6. Paths(m, leaves) = F(Paths(m, leaves))
  <2>1. \E g : g = F(g)
    BY <1>5
  <2> HIDE DEF F
  <2>2. (CHOOSE g : g = F(g)) = F(CHOOSE g : g = F(g))
    BY <2>1
  <2> QED  BY <2>2 DEF Paths, F
<1>7. Path(m, leaves) = Paths(m, leaves)[Len(leaves)][0]
  BY DEF Path, Paths, PathRow, PathOf
<1> QED  BY <1>6, <1>7

LEMMA PathWithinIs ==
    ASSUME NEW m, NEW leaves, Len(leaves) \in Nat, NEW lo \in 0..Len(leaves),
           NEW hi \in 0..Len(leaves), lo < hi
    PROVE  PathWithin(m, leaves, lo, hi) = PathOf(m, leaves, Paths(m, leaves), hi - lo, lo)
<1>1. hi - lo \in 1..Len(leaves) /\ lo \in 0..Len(leaves) - (hi - lo)
  OBVIOUS
<1>2. Paths(m, leaves)[hi - lo] = PathRow(m, leaves, Paths(m, leaves), hi - lo)
  BY <1>1, PathDefined
<1> QED  BY <1>1, <1>2 DEF PathRow, PathWithin

Extended(path, hash) == path \o <<hash>>

\* The path of one leaf is empty; that of more is the path within the half
\* that holds leaf m, and then the hash of the other half.
LEMMA PathOfLeaf ==
    ASSUME NEW m, NEW leaves, Len(leaves) \in Nat, NEW lo \in 0..(Len(leaves) - 1)
    PROVE  PathWithin(m, leaves, lo, lo + 1) = <<>>
<1>1. lo \in 0..Len(leaves) /\ lo + 1 \in 0..Len(leaves) /\ lo < lo + 1 /\ (lo + 1) - lo = 1
  OBVIOUS
<1> QED  BY <1>1, PathWithinIs DEF PathOf

LEMMA PathOfNode ==
    ASSUME NEW m, NEW leaves, Len(leaves) \in Nat, NEW lo \in 0..Len(leaves),
           NEW hi \in 0..Len(leaves), hi - lo >= 2, NEW k, k = Split(hi - lo)
    PROVE  /\ m < lo + k =>
                 PathWithin(m, leaves, lo, hi)
                   = Extended(PathWithin(m, leaves, lo, lo + k), SubtreeHash(leaves, lo + k, hi))
           /\ ~(m < lo + k) =>
                 PathWithin(m, leaves, lo, hi)
                   = Extended(PathWithin(m, leaves, lo + k, hi), SubtreeHash(leaves, lo, lo + k))
<1>1. k \in 1..(hi - lo - 1)
  BY SplitBounds
<1>2. (lo + k) - lo = k /\ hi - (lo + k) = (hi - lo) - k /\ lo + (hi - lo) = hi /\ hi - lo # 1 /\ lo < hi
  BY <1>1
<1>3. PathWithin(m, leaves, lo, hi) = PathOf(m, leaves, Paths(m, leaves), hi - lo, lo)
  BY <1>2, PathWithinIs
<1> QED  BY <1>2, <1>3 DEF PathOf, PathWithin, Extended

\* Paths are sequences of hashes.
SubtreeHashes(leaves) ==
    {SubtreeHash(leaves, r[1], r[2]) : r \in {x \in (0..Len(leaves)) \X (0..Len(leaves)) : x[1] < x[2]}}
LEMMA SubtreeHashesHas ==
    ASSUME NEW leaves, NEW a \in 0..Len(leaves), NEW b \in 0..Len(leaves), a < b
    PROVE  SubtreeHash(leaves, a, b) \in SubtreeHashes(leaves)
<1>1. <<a, b>> \in {x \in (0..Len(leaves)) \X (0..Len(leaves)) : x[1] < x[2]}
      /\ <<a, b>>[1] = a /\ <<a, b>>[2] = b
  OBVIOUS
<1> QED  BY <1>1 DEF SubtreeHashes

LEMMA PathType ==
    ASSUME NEW m, NEW leaves, Len(leaves) \in Nat, NEW lo \in 0..Len(leaves),
           NEW hi \in 0..Len(leaves), lo < hi
    PROVE  PathWithin(m, leaves, lo, hi) \in Seq(SubtreeHashes(leaves))
<1> DEFINE N == 0..Len(leaves)
           S == {d \in Nat : \A a, b \in N : a < b /\ b - a <= d =>
                                PathWithin(m, leaves, a, b) \in Seq(SubtreeHashes(leaves))}
<1>1. 0 \in S
  OBVIOUS
<1>2. ASSUME NEW d \in Nat, d \in S PROVE d + 1 \in S
  <2>1. ASSUME NEW a \in N, NEW b \in N, a < b, b - a <= d + 1
        PROVE  PathWithin(m, leaves, a, b) \in Seq(SubtreeHashes(leaves))
    <3>1. CASE b = a + 1
      <4>1. a \in 0..(Len(leaves) - 1)
        BY <3>1
      <4>2. PathWithin(m, leaves, a, b) = <<>>
        BY <3>1, <4>1, PathOfLeaf
      <4> QED  BY <4>2
    <3>2. CASE b - a >= 2
      <4>1. PICK k : k = Split(b - a)
        OBVIOUS
      <4>2. k \in 1..(b - a - 1)
        BY <3>2, <4>1, SplitBounds
      <4>3. a + k \in N /\ a < a + k /\ (a + k) - a <= d /\ a + k < b /\ b - (a + k) <= d
        BY <2>1, <3>2, <4>2
      <4>4. /\ PathWithin(m, leaves, a, a + k) \in Seq(SubtreeHashes(leaves))
            /\ PathWithin(m, leaves, a + k, b) \in Seq(SubtreeHashes(leaves))
        BY <1>2, <4>3
      <4>5. SubtreeHash(leaves, a, a + k) \in SubtreeHashes(leaves)
            /\ SubtreeHash(leaves, a + k, b) \in SubtreeHashes(leaves)
        BY <4>3, SubtreeHashesHas
      <4>6. \A s \in Seq(SubtreeHashes(leaves)) : \A x \in SubtreeHashes(leaves) :
               Extended(s, x) \in Seq(SubtreeHashes(leaves))
        BY DEF Extended
      <4>7. CASE m < a + k
        <5>1. PathWithin(m, leaves, a, b)
                = Extended(PathWithin(m, leaves, a, a + k), SubtreeHash(leaves, a + k, b))
          BY <3>2, <4>1, <4>7, PathOfNode
        <5> QED  BY <4>4, <4>5, <4>6, <5>1
      <4>8. CASE ~(m < a + k)
        <5>1. PathWithin(m, leaves, a, b)
                = Extended(PathWithin(m, leaves, a + k, b), SubtreeHash(leaves, a, a + k))
          BY <3>2, <4>1, <4>8, PathOfNode
        <5> QED  BY <4>4, <4>5, <4>6, <5>1
      <4> QED  BY <4>7, <4>8
    <3> QED  BY <2>1, <3>1, <3>2
  <2> QED  BY <2>1
<1>3. Len(leaves) \in S
  <2> HIDE DEF S
  <2> QED  BY <1>1, <1>2, StepInduction
<1> QED  BY <1>3

-----------------------------------------------------------------------------
(* Levels of the tree *)

\* At the level whose full nodes have w leaves, the node of index f has the
\* leaves from f * w on; the last node, of index s, may have less than w.
LastOf(leaves, w, f) == IF f * w + w <= Len(leaves) THEN f * w + w ELSE Len(leaves)
NodeAt(leaves, w, f) == SubtreeHash(leaves, f * w, LastOf(leaves, w, f))
PathAt(m, leaves, w, f) == PathWithin(m, leaves, f * w, LastOf(leaves, w, f))

\* f is the index of the node above leaf m, and s that of the last node.
AtLevel(m, leaves, w, f, s) ==
    /\ w \in PowersOfTwo /\ f \in Nat /\ s \in Nat
    /\ f * w <= m /\ m < f * w + w
    /\ s * w < Len(leaves) /\ Len(leaves) <= s * w + w

LEMMA Halves ==
    ASSUME NEW f \in Nat
    PROVE  f \div 2 \in Nat /\ f % 2 \in {0, 1} /\ f = 2 * (f \div 2) + (f % 2)
<1>1. f \div 2 \in Int /\ f % 2 \in {0, 1}
  OBVIOUS
<1>2. f = 2 * (f \div 2) + (f % 2)
  OBVIOUS
<1> QED  BY <1>1, <1>2

LEMMA Multiples ==
    ASSUME NEW w \in Nat, NEW f \in Nat, NEW s \in Nat
    PROVE  /\ f * w \in Nat
           /\ f < s => f * w + w <= s * w
           /\ f \div 2 \in Nat
           /\ f % 2 = 0 => f = 2 * (f \div 2) /\ f * w = (f \div 2) * (w * 2)
           /\ f % 2 = 1 => f = 2 * (f \div 2) + 1 /\ f * w = (f \div 2) * (w * 2) + w
           /\ f % 2 \in {0, 1}
<1>1. f * w \in Nat
  OBVIOUS
<1>2. ASSUME f < s PROVE f * w + w <= s * w
  <2>1. PICK d \in Nat : s = f + 1 + d
    <3>1. s - f - 1 \in Nat /\ s = f + 1 + (s - f - 1)
      BY <1>2
    <3> QED  BY <3>1
  <2>2. d * w \in Nat /\ s * w = f * w + w + d * w
    BY <2>1
  <2> QED  BY <1>1, <2>2
<1>3. f \div 2 \in Nat /\ f % 2 \in {0, 1} /\ f = 2 * (f \div 2) + (f % 2)
  BY Halves
<1>4. PICK g \in Nat : g = f \div 2
  BY <1>3
<1>5. ASSUME f % 2 = 0 PROVE f = 2 * g /\ f * w = g * (w * 2)
  BY <1>3, <1>4, <1>5
<1>6. ASSUME f % 2 = 1 PROVE f = 2 * g + 1 /\ f * w = g * (w * 2) + w
  BY <1>3, <1>4, <1>6
<1> QED  BY <1>1, <1>2, <1>3, <1>4, <1>5, <1>6

LEMMA LevelFacts ==
    ASSUME NEW leaves, Len(leaves) \in Nat, NEW m \in 0..(Len(leaves) - 1), NEW w, NEW f, NEW s,
           AtLevel(m, leaves, w, f, s)
    PROVE  /\ w \in Nat /\ w >= 1 /\ f \in Nat /\ s \in Nat /\ f * w \in Nat /\ s * w \in Nat
           /\ f <= s
           /\ f < s => f * w + w <= s * w
           /\ f = s <=> Len(leaves) <= f * w + w
           /\ f * w \in 0..Len(leaves) /\ LastOf(leaves, w, f) \in 0..Len(leaves)
           /\ f * w <= m /\ m < LastOf(leaves, w, f)
<1>1. w \in Nat /\ w >= 1 /\ f \in Nat /\ s \in Nat
  BY PowersDouble DEF AtLevel
<1>2. f * w \in Nat /\ s * w \in Nat /\ (f < s => f * w + w <= s * w) /\ (s < f => s * w + w <= f * w)
  BY <1>1, Multiples
<1>3. /\ f * w <= m /\ m < f * w + w
      /\ s * w < Len(leaves) /\ Len(leaves) <= s * w + w
  BY DEF AtLevel
<1> DEFINE a == f * w
           b == s * w
<1>4. f <= s
  <2> SUFFICES ASSUME s < f PROVE FALSE
    BY <1>1
  <2>1. b + w <= a /\ a <= m /\ m < Len(leaves) /\ Len(leaves) <= b + w /\ a \in Nat /\ b \in Nat
    BY <1>2, <1>3
  <2> HIDE DEF a, b
  <2> QED  BY <1>1, <2>1
<1>5. f = s <=> Len(leaves) <= a + w
  <2>1. f = s => Len(leaves) <= a + w
    BY <1>3
  <2>2. f < s => a + w <= b /\ b < Len(leaves) /\ a \in Nat /\ b \in Nat
    BY <1>2, <1>3
  <2> HIDE DEF a, b
  <2> QED  BY <1>1, <1>4, <2>1, <2>2
<1>6. LastOf(leaves, w, f) = IF a + w <= Len(leaves) THEN a + w ELSE Len(leaves)
  BY DEF LastOf
<1>7. a \in Nat /\ a <= m /\ m < a + w
  BY <1>2, <1>3
<1>8. a \in 0..Len(leaves) /\ LastOf(leaves, w, f) \in 0..Len(leaves) /\ m < LastOf(leaves, w, f)
  <2> HIDE DEF a, b
  <2> QED  BY <1>1, <1>6, <1>7
<1> QED  BY <1>1, <1>2, <1>4, <1>5, <1>7, <1>8

\* The level above: the node of index f is the right child of its parent, the
\* left child, or on the right edge a node without a sibling, which is the
\* node of the level above itself.
LeftSibling(leaves, w, f) == SubtreeHash(leaves, (f \div 2) * (w * 2), f * w)
RightSibling(leaves, w, f) == SubtreeHash(leaves, f * w + w, LastOf(leaves, w * 2, f \div 2))
Rises(m, leaves, w, f, s) ==
    LET v == w * 2  g == f \div 2
    IN  /\ AtLevel(m, leaves, v, g, s \div 2)
        /\ f % 2 = 1 =>
             /\ NodeAt(leaves, v, g) = NodeHash(LeftSibling(leaves, w, f), NodeAt(leaves, w, f))
             /\ PathAt(m, leaves, v, g) = Extended(PathAt(m, leaves, w, f), LeftSibling(leaves, w, f))
        /\ f % 2 = 0 /\ f # s =>
             /\ NodeAt(leaves, v, g) = NodeHash(NodeAt(leaves, w, f), RightSibling(leaves, w, f))
             /\ PathAt(m, leaves, v, g) = Extended(PathAt(m, leaves, w, f), RightSibling(leaves, w, f))
        /\ f % 2 = 0 /\ f = s =>
             /\ NodeAt(leaves, v, g) = NodeAt(leaves, w, f)
             /\ PathAt(m, leaves, v, g) = PathAt(m, leaves, w, f)
LEMMA NextLevel ==
    ASSUME NEW leaves, Len(leaves) \in Nat, NEW m \in 0..(Len(leaves) - 1), NEW w, NEW f, NEW s,
           AtLevel(m, leaves, w, f, s)
    PROVE  Rises(m, leaves, w, f, s)
<1> SUFFICES ASSUME NEW v, v = w * 2, NEW g, g = f \div 2, NEW t, t = s \div 2
    PROVE  /\ AtLevel(m, leaves, v, g, t)
           /\ f % 2 = 1 =>
                /\ NodeAt(leaves, v, g) = NodeHash(LeftSibling(leaves, w, f), NodeAt(leaves, w, f))
                /\ PathAt(m, leaves, v, g)
                     = Extended(PathAt(m, leaves, w, f), LeftSibling(leaves, w, f))
           /\ f % 2 = 0 /\ f # s =>
                /\ NodeAt(leaves, v, g) = NodeHash(NodeAt(leaves, w, f), RightSibling(leaves, w, f))
                /\ PathAt(m, leaves, v, g)
                     = Extended(PathAt(m, leaves, w, f), RightSibling(leaves, w, f))
           /\ f % 2 = 0 /\ f = s =>
                /\ NodeAt(leaves, v, g) = NodeAt(leaves, w, f)
                /\ PathAt(m, leaves, v, g) = PathAt(m, leaves, w, f)
  BY Zenon DEF Rises
<1> DEFINE L == Len(leaves)
           a == f * w
           b == s * w
           c == g * v
           d == t * v
<1>1. /\ w \in Nat /\ w >= 1 /\ f \in Nat /\ s \in Nat /\ a \in Nat /\ b \in Nat
      /\ f <= s
      /\ f < s => a + w <= b
      /\ f = s <=> L <= a + w
      /\ a <= m
      /\ LastOf(leaves, w, f) \in 0..L /\ m < LastOf(leaves, w, f)
  BY LevelFacts
<1>2. m < a + w /\ b < L /\ L <= b + w /\ w \in PowersOfTwo
  BY DEF AtLevel
<1>3. g \in Nat /\ t \in Nat /\ v \in Nat /\ v = w + w /\ v \in PowersOfTwo
  <2>1. f \in Nat /\ s \in Nat /\ w \in Nat /\ w \in PowersOfTwo
    BY <1>1, <1>2
  <2>2. g \in Nat /\ t \in Nat
    BY ONLY <2>1, Halves, g = f \div 2, t = s \div 2
  <2>3. v \in PowersOfTwo
    BY ONLY <2>1, PowersDouble, v = w * 2
  <2>4. v \in Nat /\ v = w + w
    BY ONLY <2>1, v = w * 2
  <2> QED  BY <2>2, <2>3, <2>4
<1>4. /\ c \in Nat /\ d \in Nat
      /\ f % 2 \in {0, 1} /\ s % 2 \in {0, 1}
      /\ f % 2 = 0 => a = c
      /\ f % 2 = 1 => a = c + w
      /\ s % 2 = 0 => b = d
      /\ s % 2 = 1 => b = d + w
  BY <1>1, <1>3, Multiples
<1>5. LastOf(leaves, w, f) = IF a + w <= L THEN a + w ELSE L
  BY DEF LastOf
<1>6. LastOf(leaves, v, g) = IF c + v <= L THEN c + v ELSE L
  BY DEF LastOf
<1>7. PICK h : h = LastOf(leaves, v, g)
  OBVIOUS
<1>8. PICK e : e = LastOf(leaves, w, f)
  OBVIOUS
<1>9. /\ NodeAt(leaves, w, f) = SubtreeHash(leaves, a, e)
      /\ NodeAt(leaves, v, g) = SubtreeHash(leaves, c, h)
      /\ PathAt(m, leaves, w, f) = PathWithin(m, leaves, a, e)
      /\ PathAt(m, leaves, v, g) = PathWithin(m, leaves, c, h)
      /\ LeftSibling(leaves, w, f) = SubtreeHash(leaves, c, a)
      /\ RightSibling(leaves, w, f) = SubtreeHash(leaves, a + w, h)
  BY <1>7, <1>8 DEF NodeAt, PathAt, LeftSibling, RightSibling
<1>10. L \in Nat
  OBVIOUS
<1>11. c <= m /\ m < c + v /\ d < L /\ L <= d + v
  <2> HIDE DEF a, b, c, d, L
  <2> QED  BY <1>1, <1>2, <1>3, <1>4, <1>10
<1>12. AtLevel(m, leaves, v, g, t)
  BY <1>3, <1>11 DEF AtLevel
<1>13. ASSUME f % 2 = 1
       PROVE  c \in 0..L /\ h \in 0..L /\ h - c >= 2 /\ w < h - c /\ h - c <= w * 2 /\ a = c + w /\ e = h /\ ~(m < c + w)
  <2> HIDE DEF a, b, c, d, L
  <2> QED  BY <1>1, <1>2, <1>3, <1>4, <1>5, <1>6, <1>7, <1>8, <1>10, <1>13
<1>14. ASSUME f % 2 = 0, f # s
       PROVE  c \in 0..L /\ h \in 0..L /\ h - c >= 2 /\ w < h - c /\ h - c <= w * 2 /\ a = c /\ e = c + w /\ m < c + w
  <2> HIDE DEF a, b, c, d, L
  <2> QED  BY <1>1, <1>2, <1>3, <1>4, <1>5, <1>6, <1>7, <1>8, <1>10, <1>14
<1>15. ASSUME f % 2 = 0, f = s
       PROVE  a = c /\ e = h
  <2> HIDE DEF a, b, c, d, L
  <2> QED  BY <1>1, <1>2, <1>3, <1>4, <1>5, <1>6, <1>7, <1>8, <1>10, <1>15
<1>16. ASSUME NEW x \in 0..L, NEW y \in 0..L, y - x >= 2, w < y - x, y - x <= w * 2
       PROVE  /\ SubtreeHash(leaves, x, y)
                   = NodeHash(SubtreeHash(leaves, x, x + w), SubtreeHash(leaves, x + w, y))
              /\ m < x + w => PathWithin(m, leaves, x, y)
                   = Extended(PathWithin(m, leaves, x, x + w), SubtreeHash(leaves, x + w, y))
              /\ ~(m < x + w) => PathWithin(m, leaves, x, y)
                   = Extended(PathWithin(m, leaves, x + w, y), SubtreeHash(leaves, x, x + w))
  <2>1. w = Split(y - x)
    BY <1>2, <1>16, SplitIsPower
  <2> QED  BY <1>16, <2>1, SubtreeIsNode, PathOfNode
<1>17. CASE f % 2 = 1
  <2> HIDE DEF a, b, c, d, L
  <2> QED  BY <1>9, <1>12, <1>13, <1>16, <1>17
<1>18. CASE f % 2 = 0 /\ f # s
  <2> HIDE DEF a, b, c, d, L
  <2> QED  BY <1>9, <1>12, <1>14, <1>16, <1>18
<1>19. CASE f % 2 = 0 /\ f = s
  <2> HIDE DEF a, b, c, d, L
  <2> QED  BY <1>9, <1>12, <1>15, <1>19
<1>20. f % 2 = 1 \/ (f % 2 = 0 /\ f # s) \/ (f % 2 = 0 /\ f = s)
  BY <1>4
<1> QED  BY <1>17, <1>18, <1>19, <1>20

-----------------------------------------------------------------------------
(* The skipped levels of the right edge *)

SkipOf(k, f, s) == IF f % 2 = 0 /\ f # 0 THEN k[f \div 2][s \div 2] ELSE <<f, s>>
SkipRow(k, f, sn) == [s \in 0..sn |-> SkipOf(k, f, s)]
Skips(fn, sn) == CHOOSE k : k = [f \in 0..fn |-> SkipRow(k, f, sn)]

\* The recursive definition of SkipRightEdgeLevels has a solution.
LEMMA SkipDefined ==
    ASSUME NEW fn \in Nat, NEW sn \in Nat
    PROVE  /\ Skips(fn, sn) = [f \in 0..fn |-> SkipRow(Skips(fn, sn), f, sn)]
           /\ SkipRightEdgeLevels(fn, sn) = Skips(fn, sn)[fn][sn]
<1> DEFINE L == 0..fn
           Solves(k, d) == \A f \in L : f <= d => k[f] = SkipRow(k, f, sn)
           S == {d \in Nat : \E k : k = [f \in L |-> k[f]] /\ Solves(k, d)}
<1>0. 0 \in S
  <2> DEFINE k == [f \in L |-> [s \in 0..sn |-> <<f, s>>]]
  <2>1. k = [f \in L |-> k[f]] /\ Solves(k, 0)
    BY DEF SkipRow, SkipOf
  <2> QED  BY <2>1
<1>2. ASSUME NEW d \in Nat, d \in S PROVE d + 1 \in S
  <2>1. PICK k : k = [f \in L |-> k[f]] /\ Solves(k, d)
    BY <1>2
  <2> DEFINE l == [f \in L |-> IF f <= d THEN k[f] ELSE SkipRow(k, f, sn)]
  <2>2. l = [f \in L |-> l[f]]
    OBVIOUS
  <2>3. ASSUME NEW f \in L, f <= d + 1
        PROVE  l[f] = SkipRow(l, f, sn)
    <3>1. l[f] = SkipRow(k, f, sn)
      BY <2>1
    <3>2. \A s \in 0..sn : SkipOf(k, f, s) = SkipOf(l, f, s)
      <4>1. CASE f % 2 = 0 /\ f # 0
        <5>1. f \div 2 \in L /\ f \div 2 <= d
          BY <2>3, <4>1, Halves
        <5>2. l[f \div 2] = k[f \div 2]
          BY <5>1
        <5> QED  BY <4>1, <5>2 DEF SkipOf
      <4>2. CASE ~(f % 2 = 0 /\ f # 0)
        BY <4>2 DEF SkipOf
      <4> QED  BY <4>1, <4>2
    <3> QED  BY <3>1, <3>2 DEF SkipRow
  <2> HIDE DEF l
  <2>4. Solves(l, d + 1)
    BY <2>3
  <2> QED  BY <2>2, <2>4
<1>3. fn \in S
  <2> HIDE DEF S
  <2> QED  BY <1>0, <1>2, StepInduction
<1>4. PICK k : k = [f \in L |-> k[f]] /\ Solves(k, fn)
  BY <1>3
<1>5. k = [f \in L |-> SkipRow(k, f, sn)]
  <2>1. \A f \in L : k[f] = SkipRow(k, f, sn)
    BY <1>4
  <2> QED  BY <1>4, <2>1
<1> DEFINE F(j) == [f \in L |-> SkipRow(j, f, sn)]
<1>6. Skips(fn, sn) = F(Skips(fn, sn))
  <2>1. \E j : j = F(j)
    BY <1>5
  <2> HIDE DEF F
  <2>2. (CHOOSE j : j = F(j)) = F(CHOOSE j : j = F(j))
    BY <2>1
  <2> QED  BY <2>2 DEF Skips, F
<1>7. SkipRightEdgeLevels(fn, sn) = Skips(fn, sn)[fn][sn]
  BY DEF SkipRightEdgeLevels, Skips, SkipRow, SkipOf
<1> QED  BY <1>6, <1>7

\* From a last node without a sibling, skipping levels leads to the same node
\* as a right child.
LEMMA SkippedLevel ==
    ASSUME NEW leaves, Len(leaves) \in Nat, NEW m \in 0..(Len(leaves) - 1), NEW w, NEW s,
           s # 0, AtLevel(m, leaves, w, s, s)
    PROVE  \E v, g : /\ SkipRightEdgeLevels(s, s) = <<g, g>>
                     /\ g \in Nat /\ g % 2 = 1
                     /\ AtLevel(m, leaves, v, g, g)
                     /\ NodeAt(leaves, v, g) = NodeAt(leaves, w, s)
                     /\ PathAt(m, leaves, v, g) = PathAt(m, leaves, w, s)
<1> DEFINE k == Skips(s, s)
           Reached(a, x) ==
               \E v, g : /\ k[a][a] = <<g, g>>
                         /\ g \in Nat /\ g % 2 = 1
                         /\ AtLevel(m, leaves, v, g, g)
                         /\ NodeAt(leaves, v, g) = NodeAt(leaves, x, a)
                         /\ PathAt(m, leaves, v, g) = PathAt(m, leaves, x, a)
           S == {a \in Nat : a # 0 /\ a <= s => \A x : AtLevel(m, leaves, x, a, a) => Reached(a, x)}
<1>1. s \in Nat
  BY DEF AtLevel
<1>2. \A a \in 0..s : k[a][a] = SkipOf(k, a, a)
  <2>1. k = [f \in 0..s |-> SkipRow(k, f, s)]
    BY <1>1, SkipDefined
  <2> HIDE DEF k
  <2>2. \A f \in 0..s : k[f] = SkipRow(k, f, s)
    BY <2>1
  <2> QED  BY <2>2 DEF SkipRow
<1> HIDE DEF k
<1>3. ASSUME NEW a \in Nat, \A b \in 0..(a - 1) : b \in S
      PROVE  a \in S
  <2> SUFFICES ASSUME a # 0, a <= s, NEW x, AtLevel(m, leaves, x, a, a)
               PROVE  Reached(a, x)
    OBVIOUS
  <2>1. a \in 0..s /\ k[a][a] = SkipOf(k, a, a)
    BY <1>1, <1>2
  <2>2. CASE a % 2 = 1
    <3>1. k[a][a] = <<a, a>>
      BY <2>1, <2>2 DEF SkipOf
    <3> QED  BY <2>2, <3>1
  <2>3. CASE a % 2 = 0
    <3>1. PICK b : b = a \div 2
      OBVIOUS
    <3>2. b \in Nat /\ b \in 0..(a - 1) /\ b # 0 /\ b <= s
      BY <1>1, <2>3, <3>1, Halves
    <3>3. k[a][a] = k[b][b]
      BY <2>1, <2>3, <3>1 DEF SkipOf
    <3>4. PICK y : y = x * 2
      OBVIOUS
    <3>5. /\ AtLevel(m, leaves, y, b, b)
          /\ NodeAt(leaves, y, b) = NodeAt(leaves, x, a)
          /\ PathAt(m, leaves, y, b) = PathAt(m, leaves, x, a)
      <4>1. Rises(m, leaves, x, a, a)
        BY NextLevel
      <4> QED  BY ONLY <2>3, <3>1, <3>4, <4>1 DEF Rises
    <3>6. Reached(b, y)
      BY <1>3, <3>2, <3>5
    <3> QED  BY <3>3, <3>5, <3>6
  <2> QED  BY <2>2, <2>3, Halves
<1>4. s \in S
  <2> HIDE DEF S
  <2> QED  BY <1>1, <1>3, StrongInduction
<1>5. Reached(s, w)
  BY <1>1, <1>4
<1>6. SkipRightEdgeLevels(s, s) = k[s][s]
  BY <1>1, SkipDefined DEF k
<1> QED  BY <1>5, <1>6

-----------------------------------------------------------------------------
(* One step of _fold_audit_path *)

\* From the node x of level w, one step with a hash p of the path leads to the
\* node of another level: its true hash is that of the node at x and some
\* hash q, combined as the step combines r and p, and q is next in the path.
Climbs(m, leaves, w, x, v, q) ==
    LET p == Head(x.path)
        y == Folded(x)
    IN  /\ AtLevel(m, leaves, v, y.fn, y.sn)
        /\ PathAt(m, leaves, v, y.fn) = Extended(PathAt(m, leaves, w, x.fn), q)
        /\ y.path = Tail(x.path)
        /\ \/ /\ y.r = NodeHash(p, x.r)
              /\ NodeAt(leaves, v, y.fn) = NodeHash(q, NodeAt(leaves, w, x.fn))
           \/ /\ y.r = NodeHash(x.r, p)
              /\ NodeAt(leaves, v, y.fn) = NodeHash(NodeAt(leaves, w, x.fn), q)

\* The indices after a step that skips levels, one to the right, one to the left.
LEMMA FoldedIs ==
    ASSUME NEW x, x.fn \in Nat
    PROVE  /\ Folded(x).path = Tail(x.path)
           /\ x.fn % 2 = 1 => /\ Folded(x).r = NodeHash(Head(x.path), x.r)
                              /\ Folded(x).fn = x.fn \div 2 /\ Folded(x).sn = x.sn \div 2
           /\ x.fn % 2 = 0 /\ x.fn # x.sn =>
                 /\ Folded(x).r = NodeHash(x.r, Head(x.path))
                 /\ Folded(x).fn = x.fn \div 2 /\ Folded(x).sn = x.sn \div 2
           /\ x.fn % 2 = 0 /\ x.fn = x.sn =>
                 /\ Folded(x).r = NodeHash(Head(x.path), x.r)
                 /\ \A g : SkipRightEdgeLevels(x.fn, x.sn) = <<g, g>> =>
                       Folded(x).fn = g \div 2 /\ Folded(x).sn = g \div 2
<1> DEFINE right == x.fn % 2 = 1 \/ x.fn = x.sn
           at == IF right /\ x.fn % 2 = 0 THEN SkipRightEdgeLevels(x.fn, x.sn) ELSE <<x.fn, x.sn>>
<1>1. /\ Folded(x).r = IF right THEN NodeHash(Head(x.path), x.r) ELSE NodeHash(x.r, Head(x.path))
      /\ Folded(x).path = Tail(x.path)
      /\ Folded(x).fn = at[1] \div 2 /\ Folded(x).sn = at[2] \div 2
  BY DEF Folded
<1>2. x.fn % 2 \in {0, 1}
  BY Halves
<1>3. CASE x.fn % 2 = 1
  <2>1. right /\ at = <<x.fn, x.sn>> /\ at[1] = x.fn /\ at[2] = x.sn
    BY <1>3
  <2> HIDE DEF right, at
  <2> QED  BY <1>1, <1>3, <2>1
<1>4. CASE x.fn % 2 = 0 /\ x.fn # x.sn
  <2>1. ~right /\ at = <<x.fn, x.sn>> /\ at[1] = x.fn /\ at[2] = x.sn
    BY <1>4
  <2> HIDE DEF right, at
  <2> QED  BY <1>1, <1>4, <2>1
<1>5. CASE x.fn % 2 = 0 /\ x.fn = x.sn
  <2>1. right /\ at = SkipRightEdgeLevels(x.fn, x.sn)
    BY <1>5
  <2>2. \A g : at = <<g, g>> => at[1] = g /\ at[2] = g
    OBVIOUS
  <2> HIDE DEF right, at
  <2> QED  BY <1>1, <1>5, <2>1, <2>2
<1> QED  BY <1>2, <1>3, <1>4, <1>5

LEMMA FoldedLevel ==
    ASSUME NEW leaves, Len(leaves) \in Nat, NEW m \in 0..(Len(leaves) - 1), NEW w, NEW x,
           AtLevel(m, leaves, w, x.fn, x.sn), x.sn # 0
    PROVE  \E v, q : Climbs(m, leaves, w, x, v, q)
<1>1. x.fn \in Nat /\ x.sn \in Nat
  BY DEF AtLevel
<1>2. Rises(m, leaves, w, x.fn, x.sn)
  BY NextLevel
<1>3. CASE x.fn % 2 = 1
  <2>1. Climbs(m, leaves, w, x, w * 2, LeftSibling(leaves, w, x.fn))
    BY ONLY <1>1, <1>2, <1>3, FoldedIs DEF Rises, Climbs
  <2> QED  BY <2>1
<1>4. CASE x.fn % 2 = 0 /\ x.fn # x.sn
  <2>1. Climbs(m, leaves, w, x, w * 2, RightSibling(leaves, w, x.fn))
    BY ONLY <1>1, <1>2, <1>4, FoldedIs DEF Rises, Climbs
  <2> QED  BY <2>1
<1>5. CASE x.fn % 2 = 0 /\ x.fn = x.sn
  <2>1. PICK v, g : /\ SkipRightEdgeLevels(x.fn, x.sn) = <<g, g>>
                    /\ g \in Nat /\ g % 2 = 1
                    /\ AtLevel(m, leaves, v, g, g)
                    /\ NodeAt(leaves, v, g) = NodeAt(leaves, w, x.fn)
                    /\ PathAt(m, leaves, v, g) = PathAt(m, leaves, w, x.fn)
    BY <1>5, SkippedLevel
  <2>2. Rises(m, leaves, v, g, g)
    BY <2>1, NextLevel
  <2>3. Folded(x).path = Tail(x.path) /\ Folded(x).r = NodeHash(Head(x.path), x.r)
        /\ Folded(x).fn = g \div 2 /\ Folded(x).sn = g \div 2
    BY <1>1, <1>5, <2>1, FoldedIs
  <2>4. Climbs(m, leaves, w, x, v * 2, LeftSibling(leaves, v, g))
    BY ONLY <2>1, <2>2, <2>3 DEF Rises, Climbs
  <2> QED  BY <2>4
<1> QED  BY <1>1, <1>3, <1>4, <1>5, Halves

\* The last level is the root.
LEMMA TopLevel ==
    ASSUME NEW leaves, Len(leaves) \in Nat, NEW m \in 0..(Len(leaves) - 1), NEW w, NEW f,
           AtLevel(m, leaves, w, f, 0)
    PROVE  NodeAt(leaves, w, f) = Mth(leaves) /\ PathAt(m, leaves, w, f) = Path(m, leaves)
<1>1. /\ w \in Nat /\ f \in Nat /\ f <= 0
      /\ f = 0 <=> Len(leaves) <= f * w + w
  BY LevelFacts
<1>2. f = 0 /\ f * w = 0 /\ Len(leaves) <= 0 + w
  BY <1>1
<1>3. LastOf(leaves, w, f) = Len(leaves)
  BY <1>1, <1>2 DEF LastOf
<1>4. leaves # <<>> /\ Len(leaves) - 0 = Len(leaves)
  OBVIOUS
<1>5. Mth(leaves) = SubtreeHash(leaves, 0, Len(leaves))
  BY <1>4 DEF Mth
<1>6. Path(m, leaves) = PathWithin(m, leaves, 0, Len(leaves))
  BY <1>4, PathDefined DEF PathWithin
<1> QED  BY <1>2, <1>3, <1>5, <1>6 DEF NodeAt, PathAt

\* The path of a level, as long as it is, is the beginning of the whole path.
Starts(path, whole) == Len(path) <= Len(whole) /\ \A i \in 1..Len(path) : path[i] = whole[i]

LEMMA ExtendedIs ==
    ASSUME NEW T, NEW path \in Seq(T), NEW hash
    PROVE  /\ Len(Extended(path, hash)) = Len(path) + 1
           /\ \A i \in 1..Len(path) : Extended(path, hash)[i] = path[i]
           /\ Extended(path, hash)[Len(path) + 1] = hash
  BY DEF Extended

LEMMA PathAtType ==
    ASSUME NEW leaves, Len(leaves) \in Nat, NEW m \in 0..(Len(leaves) - 1), NEW w, NEW f, NEW s,
           AtLevel(m, leaves, w, f, s)
    PROVE  PathAt(m, leaves, w, f) \in Seq(SubtreeHashes(leaves))
<1>1. /\ f * w \in 0..Len(leaves) /\ LastOf(leaves, w, f) \in 0..Len(leaves)
      /\ f * w <= m /\ m < LastOf(leaves, w, f)
  BY LevelFacts
<1>2. f * w < LastOf(leaves, w, f)
  BY <1>1
<1> QED  BY <1>1, <1>2, PathType DEF PathAt

LEMMA LevelPrefix ==
    ASSUME NEW leaves, Len(leaves) \in Nat, NEW m \in 0..(Len(leaves) - 1), NEW w, NEW f, NEW s,
           AtLevel(m, leaves, w, f, s)
    PROVE  /\ Starts(PathAt(m, leaves, w, f), Path(m, leaves))
           /\ s # 0 => Len(PathAt(m, leaves, w, f)) < Len(Path(m, leaves))
<1> DEFINE Within(p, a) ==
               /\ Starts(p, Path(m, leaves))
               /\ a # 0 => Len(p) < Len(Path(m, leaves))
           S == {a \in Nat : \A x, b : AtLevel(m, leaves, x, b, a) => Within(PathAt(m, leaves, x, b), a)}
<1>1. ASSUME NEW a \in Nat, \A b \in 0..(a - 1) : b \in S
      PROVE  a \in S
  <2> SUFFICES ASSUME NEW x, NEW b, AtLevel(m, leaves, x, b, a)
               PROVE  Within(PathAt(m, leaves, x, b), a)
    OBVIOUS
  <2>1. PathAt(m, leaves, x, b) \in Seq(SubtreeHashes(leaves)) /\ b \in Nat /\ b <= a
    BY PathAtType, LevelFacts
  <2>2. CASE a = 0
    <3>1. PathAt(m, leaves, x, b) = Path(m, leaves)
      BY <2>2, TopLevel
    <3> QED  BY <2>1, <2>2, <3>1 DEF Starts
  <2>3. CASE a # 0
    <3>1. PICK c : c = a \div 2
      OBVIOUS
    <3>2. c \in Nat /\ c \in 0..(a - 1) /\ (a % 2 = 0 => c # 0)
      BY <2>3, <3>1, Halves
    <3>3. PICK p : p = PathAt(m, leaves, x * 2, b \div 2)
      OBVIOUS
    <3>4. PICK o : o = PathAt(m, leaves, x, b)
      OBVIOUS
    <3>5. Rises(m, leaves, x, b, a)
      BY NextLevel
    <3>6. AtLevel(m, leaves, x * 2, b \div 2, c)
      BY <3>1, <3>5 DEF Rises
    <3>7. Within(p, c)
      <4>1. c \in S
        BY <1>1, <3>2
      <4> HIDE DEF Within
      <4> QED  BY <3>3, <3>6, <4>1
    <3>8. (\E q : p = Extended(o, q)) \/ (p = o /\ a % 2 = 0)
      BY <2>1, <3>3, <3>4, <3>5, Halves DEF Rises
    <3>9. Starts(p, Path(m, leaves)) /\ o \in Seq(SubtreeHashes(leaves))
      BY <2>1, <3>4, <3>7
    <3>10. p \in Seq(SubtreeHashes(leaves)) /\ Path(m, leaves) \in Seq(SubtreeHashes(leaves))
      <4>1. 0 \in 0..Len(leaves) /\ Len(leaves) \in 0..Len(leaves) /\ 0 < Len(leaves) /\ Len(leaves) - 0 = Len(leaves)
        OBVIOUS
      <4>2. PathWithin(m, leaves, 0, Len(leaves)) = Path(m, leaves)
        BY <4>1, PathDefined DEF PathWithin
      <4> QED  BY <3>3, <3>6, <4>1, <4>2, PathAtType, PathType
    <3>11. Len(o) \in Nat /\ Len(Path(m, leaves)) \in Nat
      BY <3>9, <3>10
    <3>12. ASSUME NEW q, p = Extended(o, q) PROVE Within(o, a)
      <4>1. Len(p) = Len(o) + 1 /\ \A i \in 1..Len(o) : p[i] = o[i]
        BY <3>9, <3>12, ExtendedIs
      <4> QED  BY <3>9, <3>11, <4>1 DEF Starts
    <3>13. ASSUME p = o, a % 2 = 0 PROVE Within(o, a)
      BY <3>2, <3>7, <3>13
    <3> HIDE DEF Within
    <3> QED  BY <3>4, <3>8, <3>12, <3>13
  <2> QED  BY <2>2, <2>3
<1>2. s \in Nat
  BY DEF AtLevel
<1>3. s \in S
  <2> HIDE DEF S
  <2> QED  BY <1>1, <1>2, StrongInduction
<1> QED  BY <1>3

-----------------------------------------------------------------------------
(* What a hash tells of the leaves *)

\* A leaf is no inner node, and both tell what was hashed.
LEMMA HashesDiffer ==
    /\ \A x, y, z : LeafHash(x) # NodeHash(y, z) /\ LeafHash(x) # NotAHash /\ LeafHash(x) # EmptyHash
    /\ \A y, z : NodeHash(y, z) # NotAHash /\ NodeHash(y, z) # EmptyHash
    /\ \A x, y : LeafHash(x) = LeafHash(y) => LeafData(x) = LeafData(y)
    /\ \A u, v, y, z : NodeHash(u, v) = NodeHash(y, z) => u = y /\ v = z
<1>1. \A u, v, y, z : NodeHash(u, v) = NodeHash(y, z) => u = y /\ v = z
  BY DEF NodeHash
<1>2. \A x, y : LeafHash(x) = LeafHash(y) => LeafData(x) = LeafData(y)
  <2> SUFFICES ASSUME NEW x, NEW y, LeafHash(x) = LeafHash(y) PROVE LeafData(x) = LeafData(y)
    OBVIOUS
  <2>1. LeafHash(x)[2] = LeafData(x) /\ LeafHash(y)[2] = LeafData(y)
    BY DEF LeafHash
  <2> QED  BY <2>1
<1>3. \A x, y, z : LeafHash(x) # NodeHash(y, z)
  BY DEF LeafHash, NodeHash
<1>4. \A x : LeafHash(x) # NotAHash /\ LeafHash(x) # EmptyHash
  BY DEF LeafHash, NotAHash, EmptyHash
<1>5. \A y, z : NodeHash(y, z) # NotAHash /\ NodeHash(y, z) # EmptyHash
  BY DEF NodeHash, NotAHash, EmptyHash
<1> QED  BY <1>1, <1>2, <1>3, <1>4, <1>5

\* The hash of some leaves is that of a leaf, or of a node over fewer leaves.
LEMMA SubtreeKinds ==
    ASSUME NEW leaves, Len(leaves) \in Nat, NEW lo \in 0..Len(leaves), NEW hi \in 0..Len(leaves), lo < hi
    PROVE  \/ hi = lo + 1 /\ SubtreeHash(leaves, lo, hi) = LeafHash(leaves[lo + 1])
           \/ \E mid \in (lo + 1)..(hi - 1) :
                 SubtreeHash(leaves, lo, hi)
                   = NodeHash(SubtreeHash(leaves, lo, mid), SubtreeHash(leaves, mid, hi))
<1>1. CASE hi = lo + 1
  BY <1>1, SubtreeIsLeaf
<1>2. CASE hi - lo >= 2
  <2>1. PICK k : k = Split(hi - lo)
    OBVIOUS
  <2>2. k \in 1..(hi - lo - 1)
        /\ SubtreeHash(leaves, lo, hi)
             = NodeHash(SubtreeHash(leaves, lo, lo + k), SubtreeHash(leaves, lo + k, hi))
    BY <1>2, <2>1, SubtreeIsNode
  <2>3. lo + k \in (lo + 1)..(hi - 1)
    BY <2>2
  <2> QED  BY <2>2, <2>3
<1> QED  BY <1>1, <1>2

LEMMA SubtreeIsHash ==
    ASSUME NEW leaves, Len(leaves) \in Nat
    PROVE  NotAHash \notin SubtreeHashes(leaves) /\ EmptyHash \notin SubtreeHashes(leaves)
<1> SUFFICES ASSUME NEW r \in (0..Len(leaves)) \X (0..Len(leaves)), r[1] < r[2]
             PROVE  SubtreeHash(leaves, r[1], r[2]) \notin {NotAHash, EmptyHash}
  BY DEF SubtreeHashes
<1> QED  BY SubtreeKinds, HashesDiffer

SameLeaves(x, a, b, y, c, d) ==
    b - a = d - c /\ \A i \in 1..(b - a) : LeafData(x[a + i]) = LeafData(y[c + i])

\* Trees of the same hash have the same leaves.
LEMMA SameTree ==
    ASSUME NEW x, NEW y, Len(x) \in Nat, Len(y) \in Nat,
           NEW a \in 0..Len(x), NEW b \in 0..Len(x), a < b,
           NEW c \in 0..Len(y), NEW d \in 0..Len(y), c < d,
           SubtreeHash(x, a, b) = SubtreeHash(y, c, d)
    PROVE  SameLeaves(x, a, b, y, c, d)
<1> DEFINE Same(p, q, r, s) == SameLeaves(x, p, q, y, r, s)
           Sizes(n) == \A p, q \in 0..Len(x) : \A r, s \in 0..Len(y) :
                          p < q /\ r < s /\ q - p = n /\ SubtreeHash(x, p, q) = SubtreeHash(y, r, s)
                             => Same(p, q, r, s)
           S == {n \in Nat : Sizes(n)}
<1>1. ASSUME NEW n \in Nat, \A k \in 0..(n - 1) : k \in S
      PROVE  n \in S
  <2> SUFFICES ASSUME NEW p \in 0..Len(x), NEW q \in 0..Len(x), NEW r \in 0..Len(y), NEW s \in 0..Len(y),
                      p < q, r < s, q - p = n, SubtreeHash(x, p, q) = SubtreeHash(y, r, s)
               PROVE  Same(p, q, r, s)
    OBVIOUS
  <2>1. \/ q = p + 1 /\ SubtreeHash(x, p, q) = LeafHash(x[p + 1])
        \/ \E mid \in (p + 1)..(q - 1) :
              SubtreeHash(x, p, q) = NodeHash(SubtreeHash(x, p, mid), SubtreeHash(x, mid, q))
    BY SubtreeKinds
  <2>2. \/ s = r + 1 /\ SubtreeHash(y, r, s) = LeafHash(y[r + 1])
        \/ \E mid \in (r + 1)..(s - 1) :
              SubtreeHash(y, r, s) = NodeHash(SubtreeHash(y, r, mid), SubtreeHash(y, mid, s))
    BY SubtreeKinds
  <2>3. CASE /\ q = p + 1 /\ SubtreeHash(x, p, q) = LeafHash(x[p + 1])
             /\ s = r + 1 /\ SubtreeHash(y, r, s) = LeafHash(y[r + 1])
    <3>1. LeafData(x[p + 1]) = LeafData(y[r + 1])
      BY <2>3, HashesDiffer
    <3>2. q - p = s - r /\ \A i \in 1..(q - p) : i = 1
      BY <2>3
    <3> QED  BY <3>1, <3>2 DEF SameLeaves
  <2>4. ASSUME NEW u \in (p + 1)..(q - 1), NEW v \in (r + 1)..(s - 1),
               SubtreeHash(x, p, q) = NodeHash(SubtreeHash(x, p, u), SubtreeHash(x, u, q)),
               SubtreeHash(y, r, s) = NodeHash(SubtreeHash(y, r, v), SubtreeHash(y, v, s))
        PROVE  Same(p, q, r, s)
    <3>1. SubtreeHash(x, p, u) = SubtreeHash(y, r, v) /\ SubtreeHash(x, u, q) = SubtreeHash(y, v, s)
      <4>1. NodeHash(SubtreeHash(x, p, u), SubtreeHash(x, u, q))
              = NodeHash(SubtreeHash(y, r, v), SubtreeHash(y, v, s))
        BY <2>4
      <4> QED  BY ONLY <4>1, HashesDiffer
    <3>2. /\ u \in 0..Len(x) /\ v \in 0..Len(y) /\ p < u /\ r < v /\ u < q /\ v < s
          /\ u - p \in 0..(n - 1) /\ q - u \in 0..(n - 1)
      OBVIOUS
    <3>3. Sizes(u - p) /\ Sizes(q - u)
      <4>1. u - p \in S /\ q - u \in S
        BY <1>1, <3>2
      <4> HIDE DEF Sizes
      <4> QED  BY <4>1
    <3>4. Same(p, u, r, v)
      <4> HIDE DEF Same
      <4> QED  BY <3>1, <3>2, <3>3
    <3>5. Same(u, q, v, s)
      <4> HIDE DEF Same
      <4> QED  BY <3>1, <3>2, <3>3
    <3>6. q - p = s - r
      BY <3>4, <3>5 DEF SameLeaves
    <3>7. ASSUME NEW i \in 1..(q - p) PROVE LeafData(x[p + i]) = LeafData(y[r + i])
      <4>1. CASE i \in 1..(u - p)
        BY <3>4, <4>1 DEF SameLeaves
      <4>2. CASE i - (u - p) \in 1..(q - u)
        <5>1. u + (i - (u - p)) = p + i /\ v + (i - (u - p)) = r + i
          BY <3>4 DEF SameLeaves
        <5> QED  BY <3>5, <4>2, <5>1 DEF SameLeaves
      <4> QED  BY <3>2, <4>1, <4>2
    <3> QED  BY <3>6, <3>7 DEF SameLeaves
  <2> QED  BY <2>1, <2>2, <2>3, <2>4, HashesDiffer
<1>2. b - a \in S
  <2>1. b - a \in Nat
    OBVIOUS
  <2> HIDE DEF S
  <2> QED  BY <1>1, <2>1, StrongInduction
<1>3. Sizes(b - a)
  BY <1>2
<1> QED  BY <1>3

LEMMA SameLeafData ==
    ASSUME NEW x \in Member, NEW y \in Member, LeafData(x) = LeafData(y)
    PROVE  x = y
<1>1. x.id = y.id /\ x.version = y.version /\ x.count = y.count
  BY DEF LeafData
<1> QED  BY <1>1 DEF Member

\* Roots tell the members.
LEMMA SameRoot ==
    ASSUME NEW x, NEW y, x \in Seq(Member), y \in Seq(Member), Mth(x) = Mth(y)
    PROVE  x = y
<1>1. Len(x) \in Nat /\ Len(y) \in Nat
  OBVIOUS
<1>2. ASSUME NEW z \in Seq(Member), z # <<>>
      PROVE  /\ 0 \in 0..Len(z) /\ Len(z) \in 0..Len(z) /\ 0 < Len(z)
             /\ Mth(z) = SubtreeHash(z, 0, Len(z)) /\ Mth(z) # EmptyHash
  <2>1. 0 \in 0..Len(z) /\ Len(z) \in 0..Len(z) /\ 0 < Len(z) /\ Len(z) \in Nat
    BY <1>2
  <2>2. Mth(z) = SubtreeHash(z, 0, Len(z))
    BY <1>2 DEF Mth
  <2> QED  BY <2>1, <2>2, SubtreeKinds, HashesDiffer
<1>3. Mth(<<>>) = EmptyHash
  BY DEF Mth
<1>4. CASE x # <<>> /\ y # <<>>
  <2> DEFINE zero == 0
  <2>0. SubtreeHash(x, zero, Len(x)) = SubtreeHash(y, zero, Len(y))
        /\ zero \in 0..Len(x) /\ zero < Len(x) /\ Len(x) \in 0..Len(x)
        /\ zero \in 0..Len(y) /\ zero < Len(y) /\ Len(y) \in 0..Len(y)
    BY <1>2, <1>4
  <2> HIDE DEF zero
  <2>1. Len(x) - zero = Len(y) - zero
        /\ \A i \in 1..(Len(x) - zero) : LeafData(x[zero + i]) = LeafData(y[zero + i])
    <3>1. SameLeaves(x, zero, Len(x), y, zero, Len(y))
      BY ONLY <1>1, <2>0, SameTree
    <3> QED  BY <3>1 DEF SameLeaves
  <2>2. Len(x) = Len(y) /\ \A i \in 1..Len(x) : LeafData(x[i]) = LeafData(y[i])
    <3>1. zero = 0 /\ \A i \in Int : zero + i = i
      BY DEF zero
    <3> QED  BY <1>1, <2>1, <3>1
  <2>3. ASSUME NEW i \in 1..Len(x) PROVE x[i] = y[i]
    <3>1. x[i] \in Member /\ y[i] \in Member
      BY <2>2
    <3>2. LeafData(x[i]) = LeafData(y[i])
      BY <2>2
    <3> QED  BY ONLY <3>1, <3>2, SameLeafData
  <2> QED  BY <2>2, <2>3
<1> QED  BY <1>2, <1>3, <1>4

-----------------------------------------------------------------------------
(* Counting the items of pairs *)

\* The recursion of Counted over the first i members.
CountOf(members, pairs, c, i) ==
    IF i = 0 THEN 0
    ELSE IF Pair(members[i]) \in pairs THEN c[i - 1] + members[i].count ELSE c[i - 1]
Counts(members, pairs) ==
    CHOOSE c : c = [i \in 0..Len(members) |-> CountOf(members, pairs, c, i)]
Upto(members, pairs, i) == Counts(members, pairs)[i]

\* The recursive definition of Counted has a solution.
LEMMA CountedDefined ==
    ASSUME NEW members, Len(members) \in Nat, NEW pairs
    PROVE  /\ Counts(members, pairs)
                = [i \in 0..Len(members) |-> CountOf(members, pairs, Counts(members, pairs), i)]
           /\ Counted(members, pairs) = Counts(members, pairs)[Len(members)]
<1> DEFINE L == 0..Len(members)
           Step(c, i) == CountOf(members, pairs, c, i)
           Solves(c, d) == \A i \in L : i <= d => c[i] = Step(c, i)
           S == {d \in Nat : \E c : c = [i \in L |-> c[i]] /\ Solves(c, d)}
<1>1. 0 \in S
  <2> DEFINE c == [i \in L |-> 0]
  <2>1. c = [i \in L |-> c[i]] /\ Solves(c, 0)
    BY DEF CountOf
  <2> QED  BY <2>1
<1>2. ASSUME NEW d \in Nat, d \in S PROVE d + 1 \in S
  <2>1. PICK c : c = [i \in L |-> c[i]] /\ Solves(c, d)
    BY <1>2
  <2> DEFINE e == [i \in L |-> IF i <= d THEN c[i] ELSE Step(c, i)]
  <2>2. e = [i \in L |-> e[i]]
    OBVIOUS
  <2>3. ASSUME NEW i \in L, i <= d + 1
        PROVE  e[i] = Step(e, i)
    <3>1. e[i] = Step(c, i)
      BY <2>1
    <3>2. i # 0 => i - 1 \in L /\ i - 1 <= d
      BY <2>3
    <3>3. i # 0 => e[i - 1] = c[i - 1]
      BY <3>2
    <3> HIDE DEF e
    <3> QED  BY <3>1, <3>3 DEF CountOf
  <2> HIDE DEF e
  <2>4. Solves(e, d + 1)
    BY <2>3
  <2> QED  BY <2>2, <2>4
<1>3. Len(members) \in S
  <2> HIDE DEF S
  <2> QED  BY <1>1, <1>2, StepInduction
<1>4. PICK c : c = [i \in L |-> c[i]] /\ Solves(c, Len(members))
  BY <1>3
<1>5. c = [i \in L |-> Step(c, i)]
  <2>1. \A i \in L : c[i] = Step(c, i)
    BY <1>4
  <2> QED  BY <1>4, <2>1
<1> DEFINE F(e) == [i \in L |-> Step(e, i)]
<1>6. Counts(members, pairs) = F(Counts(members, pairs))
  <2>1. \E e : e = F(e)
    BY <1>5
  <2> HIDE DEF F
  <2>2. (CHOOSE e : e = F(e)) = F(CHOOSE e : e = F(e))
    BY <2>1
  <2> QED  BY <2>2 DEF Counts, F
<1>7. Counted(members, pairs) = Counts(members, pairs)[Len(members)]
  BY DEF Counted, Counts, CountOf
<1> QED  BY <1>6, <1>7

LEMMA CountedIs ==
    ASSUME NEW members, Len(members) \in Nat, NEW pairs, NEW i \in 0..Len(members)
    PROVE  Counts(members, pairs)[i] = CountOf(members, pairs, Counts(members, pairs), i)
<1>1. PICK c : c = Counts(members, pairs)
  OBVIOUS
<1>2. c = [j \in 0..Len(members) |-> CountOf(members, pairs, c, j)]
  BY <1>1, CountedDefined
<1>3. c[i] = CountOf(members, pairs, c, i)
  BY <1>2
<1> QED  BY <1>1, <1>3

LEMMA MemberAt ==
    ASSUME NEW members \in Seq(Member), NEW i \in 1..Len(members)
    PROVE  members[i] \in Member /\ members[i].count \in Int
<1>1. members[i] \in Member
  OBVIOUS
<1>2. \A x \in Member : x.count \in Int
  BY DEF Member
<1> QED  BY <1>1, <1>2

Own(members, pairs, i) == IF Pair(members[i]) \in pairs THEN members[i].count ELSE 0
LEMMA UptoIs ==
    ASSUME NEW members \in Seq(Member), NEW pairs
    PROVE  /\ Upto(members, pairs, 0) = 0
           /\ \A i \in 1..Len(members) :
                 /\ Own(members, pairs, i) \in Int
                 /\ Upto(members, pairs, i) = Upto(members, pairs, i - 1) + Own(members, pairs, i)
           /\ \A i \in 0..Len(members) : Upto(members, pairs, i) \in Int
           /\ Counted(members, pairs) = Upto(members, pairs, Len(members))
<1> DEFINE U(i) == Upto(members, pairs, i)
           S == {d \in Nat : d <= Len(members) => U(d) \in Int}
<1>1. Len(members) \in Nat
  OBVIOUS
<1>2. \A i \in 0..Len(members) :
         U(i) = IF i = 0 THEN 0
                ELSE IF Pair(members[i]) \in pairs THEN U(i - 1) + members[i].count ELSE U(i - 1)
  <2>1. \A i \in 0..Len(members) : Counts(members, pairs)[i] = CountOf(members, pairs, Counts(members, pairs), i)
    BY <1>1, CountedIs
  <2> QED  BY <2>1 DEF Upto, CountOf
<1>3. U(0) = 0 /\ Counted(members, pairs) = U(Len(members))
  BY <1>1, <1>2, CountedDefined DEF Upto
<1> HIDE DEF U
<1>4. \A i \in 1..Len(members) : members[i].count \in Int /\ Own(members, pairs, i) \in Int
  BY MemberAt DEF Own
<1>5. ASSUME NEW d \in Nat, d \in S PROVE d + 1 \in S
  <2> SUFFICES ASSUME d + 1 <= Len(members) PROVE U(d + 1) \in Int
    OBVIOUS
  <2>1. d + 1 \in 1..Len(members) /\ d + 1 \in 0..Len(members) /\ d + 1 # 0 /\ (d + 1) - 1 = d
    BY <1>1
  <2>2. U(d) \in Int /\ members[d + 1].count \in Int
    BY <1>4, <1>5, <2>1
  <2> QED  BY <1>2, <2>1, <2>2
<1>6. \A d \in Nat : d \in S
  <2>1. 0 \in S
    BY <1>3
  <2> HIDE DEF S
  <2> QED  BY <1>5, <2>1, StepInduction
<1>7. \A i \in 0..Len(members) : U(i) \in Int
  BY <1>1, <1>6
<1>8. ASSUME NEW i \in 1..Len(members) PROVE U(i) = U(i - 1) + Own(members, pairs, i)
  <2>1. i \in 0..Len(members) /\ i # 0 /\ i - 1 \in 0..Len(members) /\ U(i - 1) \in Int
    BY <1>1, <1>7
  <2> QED  BY <1>2, <2>1 DEF Own
<1> QED  BY <1>3, <1>4, <1>7, <1>8 DEF U

\* What MultisetMember has checked.
Proper(members) == members \in Seq(Member) /\ \A i \in 1..Len(members) : members[i].count >= 1

\* Two disjoint sets of pairs count for themselves.
LEMMA UptoAdds ==
    ASSUME NEW members \in Seq(Member), NEW p, NEW q, p \cap q = {}, NEW k \in 0..Len(members)
    PROVE  Upto(members, p \cup q, k) = Upto(members, p, k) + Upto(members, q, k)
<1> DEFINE Adds(i) == Upto(members, p \cup q, i) = Upto(members, p, i) + Upto(members, q, i)
           S == {d \in Nat : d <= Len(members) => Adds(d)}
<1>1. 0 \in S
  <2>1. Adds(0)
    BY UptoIs
  <2> HIDE DEF Adds
  <2> QED  BY <2>1
<1>2. ASSUME NEW d \in Nat, d \in S PROVE d + 1 \in S
  <2> SUFFICES ASSUME d + 1 <= Len(members) PROVE Adds(d + 1)
    OBVIOUS
  <2>1. d + 1 \in 1..Len(members) /\ (d + 1) - 1 = d /\ d \in 0..Len(members)
    OBVIOUS
  <2>2. \A r : /\ Upto(members, r, d + 1) = Upto(members, r, d) + Own(members, r, d + 1)
               /\ Upto(members, r, d) \in Int /\ Own(members, r, d + 1) \in Int
    BY <2>1, UptoIs
  <2>3. Adds(d)
    BY <1>2, <2>1
  <2>4. Own(members, p \cup q, d + 1) = Own(members, p, d + 1) + Own(members, q, d + 1)
    <3>1. members[d + 1].count \in Int
      BY <2>1, MemberAt
    <3> QED  BY <3>1 DEF Own
  <2> QED  BY <2>2, <2>3, <2>4
<1>3. k \in S
  <2> HIDE DEF S
  <2> QED  BY <1>1, <1>2, StepInduction
<1> QED  BY <1>3

\* Counts do not fall, and what occurs is counted.
LEMMA UptoGrows ==
    ASSUME NEW members, Proper(members), NEW p, NEW q, p \subseteq q,
           NEW i \in 0..Len(members), NEW k \in 0..Len(members), i <= k
    PROVE  0 <= Upto(members, p, i) /\ Upto(members, p, i) <= Upto(members, q, k)
<1> DEFINE Grows(d) == 0 <= Upto(members, p, d) /\ Upto(members, p, d) <= Upto(members, q, d)
           S == {d \in Nat : d <= Len(members) => Grows(d)}
           T == {d \in Nat : i + d <= Len(members) => Upto(members, q, i) <= Upto(members, q, i + d)}
<1>1. members \in Seq(Member) /\ Len(members) \in Nat
  BY DEF Proper
<1>2. ASSUME NEW r, NEW d \in Nat, d + 1 <= Len(members)
      PROVE  /\ Upto(members, r, d + 1) = Upto(members, r, d) + Own(members, r, d + 1)
             /\ Upto(members, r, d) \in Int /\ Own(members, r, d + 1) \in Int
             /\ Own(members, r, d + 1) >= 0
             /\ r = p => Own(members, p, d + 1) <= Own(members, q, d + 1)
  <2>1. d + 1 \in 1..Len(members) /\ (d + 1) - 1 = d /\ d \in 0..Len(members)
    BY <1>1, <1>2
  <2>2. members[d + 1].count >= 1 /\ members[d + 1].count \in Int
    BY <1>1, <2>1, MemberAt DEF Proper
  <2>3. Own(members, r, d + 1) >= 0 /\ Own(members, p, d + 1) <= Own(members, q, d + 1)
    BY <2>2 DEF Own
  <2> QED  BY <1>1, <2>1, <2>3, UptoIs
<1>3. 0 \in S /\ 0 \in T
  <2>1. Grows(0)
    BY <1>1, UptoIs
  <2>2. Upto(members, q, i) \in Int
    BY <1>1, UptoIs
  <2>3. i + 0 = i
    OBVIOUS
  <2> HIDE DEF Grows
  <2> QED  BY <2>1, <2>2, <2>3
<1>4. ASSUME NEW d \in Nat, d \in S PROVE d + 1 \in S
  <2> SUFFICES ASSUME d + 1 <= Len(members) PROVE Grows(d + 1)
    OBVIOUS
  <2>1. Grows(d)
    BY <1>1, <1>4
  <2>2. /\ Upto(members, p, d + 1) = Upto(members, p, d) + Own(members, p, d + 1)
        /\ Upto(members, q, d + 1) = Upto(members, q, d) + Own(members, q, d + 1)
        /\ Upto(members, p, d) \in Int /\ Own(members, p, d + 1) \in Int
        /\ Upto(members, q, d) \in Int /\ Own(members, q, d + 1) \in Int
        /\ Own(members, p, d + 1) >= 0 /\ Own(members, p, d + 1) <= Own(members, q, d + 1)
    BY <1>2
  <2> QED  BY <2>1, <2>2
<1>5. ASSUME NEW d \in Nat, d \in T PROVE d + 1 \in T
  <2> SUFFICES ASSUME i + (d + 1) <= Len(members)
               PROVE  Upto(members, q, i) <= Upto(members, q, i + (d + 1))
    OBVIOUS
  <2>1. i + d \in Nat /\ (i + d) + 1 <= Len(members) /\ (i + d) + 1 = i + (d + 1) /\ i + d <= Len(members)
    BY <1>1
  <2>2. Upto(members, q, i) <= Upto(members, q, i + d)
    BY <1>5, <2>1
  <2>3. /\ Upto(members, q, (i + d) + 1) = Upto(members, q, i + d) + Own(members, q, (i + d) + 1)
        /\ Upto(members, q, i + d) \in Int /\ Own(members, q, (i + d) + 1) \in Int
        /\ Own(members, q, (i + d) + 1) >= 0
    BY <1>2, <2>1
  <2>4. Upto(members, q, i) \in Int
    BY <1>1, UptoIs
  <2> QED  BY <2>1, <2>2, <2>3, <2>4
<1>6. i \in S /\ k - i \in T
  <2>1. i \in Nat /\ k - i \in Nat
    BY <1>1
  <2>2. \A d \in Nat : d \in S
    <3> HIDE DEF S
    <3> QED  BY <1>3, <1>4, StepInduction
  <2>3. \A d \in Nat : d \in T
    <3> HIDE DEF T
    <3> QED  BY <1>3, <1>5, StepInduction
  <2> QED  BY <2>1, <2>2, <2>3
<1>7. i + (k - i) = k /\ i <= Len(members) /\ k <= Len(members)
  BY <1>1
<1>8. Grows(i) /\ Upto(members, q, i) <= Upto(members, q, k)
  BY <1>6, <1>7
<1>9. Upto(members, p, i) \in Int /\ Upto(members, q, i) \in Int /\ Upto(members, q, k) \in Int
  BY <1>1, UptoIs
<1> QED  BY <1>8, <1>9

LEMMA UptoCounts ==
    ASSUME NEW members, Proper(members), NEW p, NEW k \in 0..Len(members)
    PROVE  /\ \A i \in 1..k : Pair(members[i]) \in p => Upto(members, p, k) >= 1
           /\ (\A i \in 1..k : Pair(members[i]) \notin p) => Upto(members, p, k) = 0
<1>1. members \in Seq(Member) /\ Len(members) \in Nat
  BY DEF Proper
<1>2. ASSUME NEW i \in 1..k, Pair(members[i]) \in p PROVE Upto(members, p, k) >= 1
  <2>1. i \in 1..Len(members) /\ i - 1 \in 0..Len(members) /\ i \in 0..Len(members) /\ i <= k
    BY <1>1
  <2>2. members[i].count >= 1 /\ members[i].count \in Int
    BY <1>1, <2>1, MemberAt DEF Proper
  <2>3. /\ Upto(members, p, i) = Upto(members, p, i - 1) + members[i].count
        /\ Upto(members, p, i - 1) \in Int /\ Upto(members, p, i) \in Int /\ Upto(members, p, k) \in Int
    BY <1>1, <1>2, <2>1, UptoIs DEF Own
  <2>4. 0 <= Upto(members, p, i - 1)
    BY <2>1, UptoGrows
  <2>5. Upto(members, p, i) <= Upto(members, p, k)
    BY <2>1, UptoGrows
  <2> QED  BY <2>2, <2>3, <2>4, <2>5
<1>3. ASSUME \A i \in 1..k : Pair(members[i]) \notin p PROVE Upto(members, p, k) = 0
  <2> DEFINE S == {d \in Nat : d <= k => Upto(members, p, d) = 0}
  <2>1. 0 \in S
    BY <1>1, UptoIs
  <2>2. ASSUME NEW d \in Nat, d \in S PROVE d + 1 \in S
    <3> SUFFICES ASSUME d + 1 <= k PROVE Upto(members, p, d + 1) = 0
      OBVIOUS
    <3>1. d + 1 \in 1..Len(members) /\ d + 1 \in 1..k /\ (d + 1) - 1 = d
      BY <1>1
    <3>2. Upto(members, p, d) = 0 /\ Own(members, p, d + 1) = 0
      BY <1>3, <2>2, <3>1 DEF Own
    <3>3. Upto(members, p, d + 1) = Upto(members, p, d) + Own(members, p, d + 1)
      BY <1>1, <3>1, UptoIs
    <3> QED  BY <3>2, <3>3
  <2>3. k \in S
    <3>1. k \in Nat
      BY <1>1
    <3> HIDE DEF S
    <3> QED  BY <2>1, <2>2, <3>1, StepInduction
  <2> QED  BY <1>1, <2>3
<1> QED  BY <1>2, <1>3

-----------------------------------------------------------------------------
(* The order of the members *)

\* Before orders members strictly, and those of different pairs totally.
LEMMA BeforeIsOrder ==
    ASSUME NEW a \in Member, NEW b \in Member, NEW c \in Member
    PROVE  /\ ~Before(a, a)
           /\ Before(a, b) /\ Before(b, c) => Before(a, c)
           /\ Pair(a) # Pair(b) => Before(a, b) \/ Before(b, a)
<1> DEFINE Less(x, y) == x.kid < y.kid \/ (x.kid = y.kid /\ x.digest < y.digest)
<1>1. \A x, y : Before(x, y) <=> Less(x.id, y.id) \/ (x.id = y.id /\ Less(x.version, y.version))
  BY DEF Before
<1>2. \A x \in Member : x.id \in Identifier /\ x.version \in Identifier
  BY DEF Member
<1>3. \A x \in Identifier : x.kid \in Int /\ x.digest \in Int
  BY DEF Identifier
<1>4. \A x, y \in Identifier : x.kid = y.kid /\ x.digest = y.digest => x = y
  BY DEF Identifier
<1>5. \A x, y, z \in Identifier : ~Less(x, x) /\ (Less(x, y) /\ Less(y, z) => Less(x, z))
                                  /\ (x # y => Less(x, y) \/ Less(y, x))
  BY <1>3, <1>4
<1> HIDE DEF Less
<1>6. Pair(a) # Pair(b) => a.id # b.id \/ a.version # b.version
  BY DEF Pair
<1> QED  BY <1>1, <1>2, <1>5, <1>6

\* In a finite set of members of different pairs, the places are 1 to its size.
PlaceIn(T, m) == Cardinality({x \in T : Before(x, m)}) + 1

LEMMA PlaceGrows ==
    ASSUME NEW T \in SUBSET Member, IsFiniteSet(T), NEW m \in T, NEW n \in T
    PROVE  /\ PlaceIn(T, m) \in 1..Cardinality(T) /\ PlaceIn(T, n) \in 1..Cardinality(T)
           /\ Before(m, n) => PlaceIn(T, m) < PlaceIn(T, n)
<1> DEFINE Lower(x) == {y \in T : Before(y, x)}
<1>1. Cardinality(T) \in Nat
  BY FS_CardinalityType
<1>2. ASSUME NEW x \in T
      PROVE  /\ IsFiniteSet(Lower(x)) /\ Cardinality(Lower(x)) \in Nat
             /\ PlaceIn(T, x) = Cardinality(Lower(x)) + 1
             /\ PlaceIn(T, x) \in 1..Cardinality(T)
  <2>1. Lower(x) \in SUBSET T /\ x \notin Lower(x)
    BY BeforeIsOrder
  <2>2. /\ IsFiniteSet(Lower(x)) /\ Cardinality(Lower(x)) \in Nat
        /\ Cardinality(Lower(x)) <= Cardinality(T)
        /\ Cardinality(T) = Cardinality(Lower(x)) => T = Lower(x)
    <3> HIDE DEF Lower
    <3> QED  BY <2>1, FS_Subset, FS_CardinalityType
  <2>3. Cardinality(Lower(x)) # Cardinality(T)
    BY <2>1, <2>2
  <2>4. PlaceIn(T, x) = Cardinality(Lower(x)) + 1
    BY DEF PlaceIn
  <2> QED  BY <1>1, <2>2, <2>3, <2>4
<1>3. ASSUME Before(m, n) PROVE PlaceIn(T, m) < PlaceIn(T, n)
  <2>1. Lower(m) \in SUBSET Lower(n)
    BY <1>3, BeforeIsOrder
  <2>2. m \in Lower(n) /\ m \notin Lower(m)
    BY <1>3, BeforeIsOrder
  <2> HIDE DEF Lower
  <2>3. /\ Cardinality(Lower(m)) <= Cardinality(Lower(n))
        /\ Cardinality(Lower(n)) = Cardinality(Lower(m)) => Lower(n) = Lower(m)
    BY <1>2, <2>1, FS_Subset
  <2> QED  BY <1>2, <2>2, <2>3
<1> QED  BY <1>2, <1>3

LEMMA Places ==
    ASSUME NEW T \in SUBSET Member, IsFiniteSet(T),
           \A x, y \in T : x # y => Pair(x) # Pair(y)
    PROVE  /\ Cardinality(T) \in Nat
           /\ \A m \in T : PlaceIn(T, m) \in 1..Cardinality(T)
           /\ \A m, n \in T : PlaceIn(T, m) = PlaceIn(T, n) => m = n
           /\ \A i \in 1..Cardinality(T) : \E m \in T : PlaceIn(T, m) = i
<1> DEFINE N == Cardinality(T)
           f == [m \in T |-> PlaceIn(T, m)]
<1>1. N \in Nat
  BY FS_CardinalityType
<1>2. \A m, n \in T : PlaceIn(T, m) \in 1..N /\ (Before(m, n) => PlaceIn(T, m) < PlaceIn(T, n))
  BY PlaceGrows
<1>3. ASSUME NEW m \in T, NEW n \in T, m # n PROVE PlaceIn(T, m) # PlaceIn(T, n)
  <2>1. Before(m, n) \/ Before(n, m)
    BY <1>3, BeforeIsOrder
  <2> QED  BY <1>1, <1>2, <2>1
<1>4. f \in Injection(T, 1..N)
  <2>1. f \in [T -> 1..N] /\ \A m, n \in T : f[m] = f[n] => m = n
    BY <1>2, <1>3
  <2> HIDE DEF f
  <2> QED  BY <2>1 DEF Injection, IsInjective
<1>5. IsFiniteSet(1..N) /\ Cardinality(1..N) = N
  BY <1>1, FS_Interval
<1>6. f \in Surjection(T, 1..N)
  <2> HIDE DEF f, N
  <2>1. Cardinality(T) = Cardinality(1..N)
    BY <1>5 DEF N
  <2> QED  BY <1>4, <1>5, <2>1, FS_Injection
<1>7. \A i \in 1..N : \E m \in T : f[m] = i
  BY <1>6 DEF Surjection
<1> QED  BY <1>1, <1>2, <1>3, <1>7

-----------------------------------------------------------------------------
(* The members that _normalize lists *)

Entry(t, p) == [id |-> p[1], version |-> p[2], count |-> t[p]]
Listed(t) == {Entry(t, p) : p \in DOMAIN t}
IsTotals(t) ==
    /\ IsFiniteSet(DOMAIN t) /\ DOMAIN t \subseteq Identifier \X Identifier
    /\ \A p \in DOMAIN t : t[p] \in Int

LEMMA EntryIs ==
    ASSUME NEW t, IsTotals(t), NEW p \in DOMAIN t
    PROVE  /\ Entry(t, p) \in Member /\ Pair(Entry(t, p)) = p /\ Entry(t, p).count = t[p]
<1>1. p \in Identifier \X Identifier /\ t[p] \in Int
  BY DEF IsTotals
<1>2. p = <<p[1], p[2]>> /\ p[1] \in Identifier /\ p[2] \in Identifier
  BY <1>1
<1> QED  BY <1>1, <1>2 DEF Entry, Pair, Member

LEMMA ListedIs ==
    ASSUME NEW t, IsTotals(t)
    PROVE  /\ Listed(t) \in SUBSET Member /\ IsFiniteSet(Listed(t))
           /\ Cardinality(Listed(t)) = Cardinality(DOMAIN t)
           /\ \A x, y \in Listed(t) : x # y => Pair(x) # Pair(y)
           /\ \A m \in Listed(t) : Pair(m) \in DOMAIN t /\ m = Entry(t, Pair(m)) /\ m.count = t[Pair(m)]
<1> DEFINE f == [p \in DOMAIN t |-> Entry(t, p)]
<1>1. \A p \in DOMAIN t : Entry(t, p) \in Member /\ Pair(Entry(t, p)) = p /\ Entry(t, p).count = t[p]
  BY EntryIs
<1>2. Listed(t) \in SUBSET Member /\ \A x, y \in Listed(t) : x # y => Pair(x) # Pair(y)
  BY <1>1 DEF Listed
<1>3. \A m \in Listed(t) : Pair(m) \in DOMAIN t /\ m = Entry(t, Pair(m)) /\ m.count = t[Pair(m)]
  BY <1>1 DEF Listed
<1>4. f \in Surjection(DOMAIN t, Listed(t)) /\ f \in Injection(DOMAIN t, Listed(t))
  <2>1. f \in [DOMAIN t -> Listed(t)] /\ \A m \in Listed(t) : \E p \in DOMAIN t : f[p] = m
    BY DEF Listed
  <2>2. \A p, q \in DOMAIN t : f[p] = f[q] => p = q
    BY <1>1
  <2> HIDE DEF f
  <2> QED  BY <2>1, <2>2 DEF Surjection, Injection, IsInjective
<1>5. IsFiniteSet(Listed(t)) /\ Cardinality(Listed(t)) = Cardinality(DOMAIN t)
  <2>1. IsFiniteSet(DOMAIN t)
    BY DEF IsTotals
  <2> HIDE DEF f
  <2> QED  BY <1>4, <2>1, FS_Surjection
<1> QED  BY <1>2, <1>3, <1>5

\* MembersOf lists each of them once, at its place.
LEMMA MembersOfIs ==
    ASSUME NEW t, IsTotals(t)
    PROVE  /\ MembersOf(t) \in Seq(Member)
           /\ Len(MembersOf(t)) = Cardinality(DOMAIN t)
           /\ \A i \in 1..Len(MembersOf(t)) :
                 MembersOf(t)[i] \in Listed(t) /\ PlaceIn(Listed(t), MembersOf(t)[i]) = i
           /\ Range(MembersOf(t)) = Listed(t)
<1> DEFINE T == Listed(t)
           N == Cardinality(DOMAIN t)
           M == MembersOf(t)
<1>1. /\ T \in SUBSET Member /\ IsFiniteSet(T) /\ Cardinality(T) = N
      /\ \A x, y \in T : x # y => Pair(x) # Pair(y)
  BY ListedIs
<1>2. M = [i \in 1..Cardinality(T) |-> CHOOSE m \in T : PlaceIn(T, m) = i]
  BY DEF MembersOf, PlaceIn, Listed, Entry
<1> HIDE DEF T, M
<1>3. /\ N \in Nat
      /\ \A m \in T : PlaceIn(T, m) \in 1..N
      /\ \A m, n \in T : PlaceIn(T, m) = PlaceIn(T, n) => m = n
      /\ \A i \in 1..N : \E m \in T : PlaceIn(T, m) = i
  BY <1>1, Places
<1> HIDE DEF N
<1>4. DOMAIN M = 1..N /\ \A i \in 1..N : M[i] = CHOOSE m \in T : PlaceIn(T, m) = i
  BY <1>1, <1>2
<1>5. \A i \in 1..N : M[i] \in T /\ PlaceIn(T, M[i]) = i
  BY <1>3, <1>4
<1>6. M \in Seq(Member) /\ Len(M) = N
  <2>1. M \in [1..N -> Member]
    BY <1>1, <1>2, <1>5
  <2> QED  BY <1>3, <2>1
<1>7. Range(M) = T
  <2>1. ASSUME NEW m \in T PROVE \E i \in 1..N : M[i] = m
    <3>1. PICK i \in 1..N : i = PlaceIn(T, m)
      BY <1>3
    <3>2. M[i] \in T /\ PlaceIn(T, M[i]) = PlaceIn(T, m)
      BY <1>5, <3>1
    <3> QED  BY <1>3, <3>2
  <2>2. Range(M) = {M[i] : i \in 1..N}
    BY <1>4 DEF Range
  <2> QED  BY <1>5, <2>1, <2>2
<1>8. \A i \in 1..Len(M) : M[i] \in T /\ PlaceIn(T, M[i]) = i
  BY <1>5, <1>6
<1> QED  BY <1>6, <1>7, <1>8 DEF T, M, N

-----------------------------------------------------------------------------
(* The totals of the first items *)

Summed(t, items, k) ==
    /\ t = [p \in DOMAIN t |-> t[p]] /\ IsFiniteSet(DOMAIN t)
    /\ DOMAIN t = {Pair(items[i]) : i \in 1..k}
    /\ \A p \in DOMAIN t : t[p] = Upto(items, {p}, k)

LEMMA SummedNone ==
    ASSUME NEW items
    PROVE  Summed(NoTotals, items, 0)
  BY FS_EmptySet DEF Summed, NoTotals

\* One more item.
WithOne(t, m) == [p \in DOMAIN t \cup {Pair(m)} |-> IF p = Pair(m) THEN Added(t, m) ELSE t[p]]
LEMMA SummedNext ==
    ASSUME NEW items, Proper(items), NEW k \in 0..(Len(items) - 1), NEW t, Summed(t, items, k),
           NEW m, m = items[k + 1]
    PROVE  Added(t, m) = Upto(items, {Pair(m)}, k + 1) /\ Summed(WithOne(t, m), items, k + 1)
<1>0. PICK u : u = WithOne(t, m)
  OBVIOUS
<1>1. items \in Seq(Member) /\ Len(items) \in Nat /\ k \in Nat /\ k + 1 \in 1..Len(items) /\ (k + 1) - 1 = k
      /\ k \in 0..Len(items)
  BY DEF Proper
<1>2. \A p : /\ Upto(items, {p}, k + 1) = Upto(items, {p}, k) + Own(items, {p}, k + 1)
             /\ Upto(items, {p}, k) \in Int /\ Own(items, {p}, k + 1) \in Int
  BY <1>1, UptoIs
<1>3. \A p : Own(items, {p}, k + 1) = IF p = Pair(m) THEN m.count ELSE 0
  BY DEF Own
<1>4. Total(t, Pair(m)) = Upto(items, {Pair(m)}, k)
  <2>1. CASE Pair(m) \in DOMAIN t
    BY <2>1 DEF Total, Summed
  <2>2. CASE Pair(m) \notin DOMAIN t
    <3>1. \A i \in 1..k : Pair(items[i]) \notin {Pair(m)}
      BY <2>2 DEF Summed
    <3>2. Upto(items, {Pair(m)}, k) = 0
      BY <1>1, <3>1, UptoCounts
    <3> QED  BY <2>2, <3>2 DEF Total
  <2> QED  BY <2>1, <2>2
<1>5. Added(t, m) = Upto(items, {Pair(m)}, k + 1)
  BY <1>2, <1>3, <1>4 DEF Added
<1>6. /\ DOMAIN u = DOMAIN t \cup {Pair(m)} /\ u = [p \in DOMAIN u |-> u[p]]
      /\ \A p \in DOMAIN u : u[p] = IF p = Pair(m) THEN Added(t, m) ELSE t[p]
  BY <1>0 DEF WithOne
<1>7. IsFiniteSet(DOMAIN u)
  BY <1>6, FS_AddElement DEF Summed
<1>8. DOMAIN u = {Pair(items[i]) : i \in 1..(k + 1)}
  <2>1. \A i : i \in 1..(k + 1) <=> i \in 1..k \/ i = k + 1
    BY <1>1
  <2>2. DOMAIN t = {Pair(items[i]) : i \in 1..k}
    BY DEF Summed
  <2> QED  BY <1>6, <2>1, <2>2
<1>9. ASSUME NEW p \in DOMAIN u PROVE u[p] = Upto(items, {p}, k + 1)
  <2>1. CASE p = Pair(m)
    BY <1>5, <1>6, <2>1
  <2>2. CASE p # Pair(m)
    <3>1. p \in DOMAIN t /\ u[p] = t[p]
      BY <1>6, <2>2
    <3>2. t[p] = Upto(items, {p}, k)
      BY <3>1 DEF Summed
    <3>3. Upto(items, {p}, k + 1) = Upto(items, {p}, k)
      <4>1. Own(items, {p}, k + 1) = 0
        BY <1>3, <2>2
      <4>2. \A a, b, c : a \in Int /\ c = 0 /\ b = a + c => b = a
        OBVIOUS
      <4> QED  BY <1>2, <4>1, <4>2
    <3> QED  BY <3>1, <3>2, <3>3
  <2> QED  BY <2>1, <2>2
<1> QED  BY <1>0, <1>5, <1>6, <1>7, <1>8, <1>9 DEF Summed

\* The totals of all items: how often each pair occurs.
TotalsIn(items) == [p \in Pairs(items) |-> Counted(items, {p})]

LEMMA PairsAre ==
    ASSUME NEW items, Proper(items)
    PROVE  /\ Pairs(items) = {Pair(items[i]) : i \in 1..Len(items)}
           /\ Range(items) = {items[i] : i \in 1..Len(items)}
           /\ IsFiniteSet(Pairs(items)) /\ Pairs(items) \subseteq Identifier \X Identifier
<1> DEFINE L == 1..Len(items)
           f == [i \in L |-> Pair(items[i])]
<1>1. items \in Seq(Member) /\ Len(items) \in Nat /\ DOMAIN items = L
  BY DEF Proper
<1>2. Range(items) = {items[i] : i \in L}
  BY <1>1 DEF Range
<1>3. Pairs(items) = {Pair(items[i]) : i \in L}
  BY <1>2 DEF Pairs
<1>4. IsFiniteSet(L)
  BY <1>1, FS_Interval
<1>5. f \in Surjection(L, Pairs(items))
  BY <1>3 DEF Surjection
<1>6. IsFiniteSet(Pairs(items))
  <2> HIDE DEF f, L
  <2> QED  BY <1>4, <1>5, FS_Surjection
<1>7. \A m \in Member : Pair(m) \in Identifier \X Identifier
  BY DEF Pair, Member
<1> QED  BY <1>1, <1>2, <1>3, <1>6, <1>7

LEMMA SummedAll ==
    ASSUME NEW items, Proper(items), NEW t, Summed(t, items, Len(items))
    PROVE  t = TotalsIn(items)
<1>1. DOMAIN t = Pairs(items) /\ t = [p \in DOMAIN t |-> t[p]]
  BY PairsAre DEF Summed
<1>2. items \in Seq(Member)
  BY DEF Proper
<1>3. \A p \in DOMAIN t : t[p] = Counted(items, {p})
  BY <1>2, UptoIs DEF Summed
<1> QED  BY <1>1, <1>3 DEF TotalsIn

LEMMA TotalsInIs ==
    ASSUME NEW items, Proper(items)
    PROVE  /\ IsTotals(TotalsIn(items)) /\ DOMAIN TotalsIn(items) = Pairs(items)
           /\ \A p \in Pairs(items) : TotalsIn(items)[p] = Counted(items, {p}) /\ Counted(items, {p}) >= 1
           /\ \A p : p \notin Pairs(items) => Counted(items, {p}) = 0
<1>1. items \in Seq(Member) /\ Len(items) \in Nat /\ Len(items) \in 0..Len(items)
  BY DEF Proper
<1>2. DOMAIN TotalsIn(items) = Pairs(items)
      /\ \A p \in Pairs(items) : TotalsIn(items)[p] = Counted(items, {p})
  BY DEF TotalsIn
<1>3. \A p : Counted(items, {p}) = Upto(items, {p}, Len(items)) /\ Counted(items, {p}) \in Int
  BY <1>1, UptoIs
<1>4. \A p \in Pairs(items) : Counted(items, {p}) >= 1
  <2>1. \A i \in 1..Len(items) : Upto(items, {Pair(items[i])}, Len(items)) >= 1
    BY <1>1, UptoCounts
  <2>2. Pairs(items) = {Pair(items[i]) : i \in 1..Len(items)}
    BY PairsAre
  <2> QED  BY <1>3, <2>1, <2>2
<1>5. ASSUME NEW p, p \notin Pairs(items) PROVE Counted(items, {p}) = 0
  <2>1. \A i \in 1..Len(items) : Pair(items[i]) \notin {p}
    BY <1>5, PairsAre
  <2> QED  BY <1>1, <1>3, <2>1, UptoCounts
<1> QED  BY <1>2, <1>3, <1>4, <1>5, PairsAre DEF IsTotals

-----------------------------------------------------------------------------
(* The normalized members against the items *)

LEMMA BeforeOfPair ==
    ASSUME NEW x, NEW y, Pair(x) = Pair(y)
    PROVE  /\ x.id = y.id /\ x.version = y.version
           /\ \A z : (Before(x, z) <=> Before(y, z)) /\ (Before(z, x) <=> Before(z, y))
<1>1. x.id = y.id /\ x.version = y.version
  BY DEF Pair
<1> QED  BY <1>1 DEF Before

LEMMA NormalizedIs ==
    ASSUME NEW items, Proper(items), NEW M, M = MembersOf(TotalsIn(items))
    PROVE  /\ Proper(M) /\ Len(M) = Cardinality(Pairs(items)) /\ Len(M) \in Nat
           /\ Range(M) = {M[i] : i \in 1..Len(M)} /\ Pairs(M) = Pairs(items)
           /\ \A m \in Range(M) : /\ m \in Member /\ Pair(m) \in Pairs(items)
                                  /\ m.count = Counted(items, {Pair(m)}) /\ m.count >= 1
           /\ \A i, j \in 1..Len(M) : Pair(M[i]) = Pair(M[j]) => i = j
           /\ \A i \in 1..Len(M) :
                 Cardinality({Pair(m) : m \in {x \in Range(items) : Before(x, M[i])}}) = i - 1
<1> DEFINE t == TotalsIn(items)
           T == Listed(t)
<1>1. /\ IsTotals(t) /\ DOMAIN t = Pairs(items)
      /\ \A p \in Pairs(items) : t[p] = Counted(items, {p}) /\ Counted(items, {p}) >= 1
  BY TotalsInIs
<1> HIDE DEF t
<1>2. /\ M \in Seq(Member) /\ Len(M) = Cardinality(Pairs(items))
      /\ \A i \in 1..Len(M) : M[i] \in T /\ PlaceIn(T, M[i]) = i
      /\ Range(M) = T
  BY <1>1, MembersOfIs DEF t
<1>3. /\ T \in SUBSET Member /\ IsFiniteSet(T)
      /\ \A x, y \in T : x # y => Pair(x) # Pair(y)
      /\ \A m \in T : Pair(m) \in Pairs(items) /\ m.count = t[Pair(m)]
  BY <1>1, ListedIs
<1>4. \A p \in Pairs(items) : \E m \in T : Pair(m) = p
  BY <1>1, EntryIs DEF Listed
<1> HIDE DEF T
<1>5. Len(M) \in Nat /\ Range(M) = {M[i] : i \in 1..Len(M)}
  BY <1>2 DEF Range
<1>6. \A m \in Range(M) : /\ m \in Member /\ Pair(m) \in Pairs(items)
                          /\ m.count = Counted(items, {Pair(m)}) /\ m.count >= 1
  BY <1>1, <1>2, <1>3
<1>7. Proper(M)
  BY <1>2, <1>5, <1>6 DEF Proper
<1>8. Pairs(M) = Pairs(items)
  <2>1. Pairs(M) = {Pair(m) : m \in T}
    BY <1>2 DEF Pairs
  <2> QED  BY <1>3, <1>4, <2>1
<1>9. \A i, j \in 1..Len(M) : Pair(M[i]) = Pair(M[j]) => i = j
  BY <1>2, <1>3
<1>10. ASSUME NEW i \in 1..Len(M)
       PROVE  Cardinality({Pair(m) : m \in {x \in Range(items) : Before(x, M[i])}}) = i - 1
  <2> DEFINE Lower == {x \in T : Before(x, M[i])}
             Low == {Pair(m) : m \in {x \in Range(items) : Before(x, M[i])}}
             f == [x \in Lower |-> Pair(x)]
  <2>1. IsFiniteSet(Lower) /\ Cardinality(Lower) \in Nat /\ Cardinality(Lower) + 1 = i
    <3>1. Lower \in SUBSET T /\ PlaceIn(T, M[i]) = Cardinality(Lower) + 1
      BY DEF PlaceIn
    <3> HIDE DEF Lower
    <3> QED  BY <1>2, <1>3, <3>1, FS_Subset, FS_CardinalityType
  <2>2. \A p : p \in Low <=> \E x \in Lower : Pair(x) = p
    <3>1. \A m \in Range(items) : Pair(m) \in Pairs(items)
      BY DEF Pairs
    <3>2. \A p \in Pairs(items) : \E m \in Range(items) : Pair(m) = p
      BY DEF Pairs
    <3>3. \A x, y : Pair(x) = Pair(y) => (Before(x, M[i]) <=> Before(y, M[i]))
      BY BeforeOfPair
    <3> QED  BY <1>3, <1>4, <3>1, <3>2, <3>3
  <2>3. \A x, y \in Lower : Pair(x) = Pair(y) => x = y
    BY <1>3
  <2> HIDE DEF Low, Lower
  <2>4. f \in [Lower -> Low] /\ (\A p \in Low : \E x \in Lower : f[x] = p)
        /\ \A x, y \in Lower : f[x] = f[y] => x = y
    BY <2>2, <2>3
  <2> HIDE DEF f
  <2>5. f \in Surjection(Lower, Low) /\ f \in Injection(Lower, Low)
    BY <2>4 DEF Surjection, Injection, IsInjective
  <2>6. Cardinality(Low) = Cardinality(Lower)
    BY <2>1, <2>5, FS_Surjection
  <2>7. i \in Int /\ Cardinality(Low) = i - 1
    BY <2>1, <2>6
  <2> QED  BY <2>7 DEF Low
<1> QED  BY <1>2, <1>5, <1>6, <1>7, <1>8, <1>9, <1>10

\* The members of a root count as much as the items.
LEMMA TotalCount ==
    ASSUME NEW items, Proper(items), NEW M, M = MembersOf(TotalsIn(items))
    PROVE  Counted(M, Pairs(M)) = Counted(items, Pairs(items))
<1> DEFINE First(j) == {Pair(M[i]) : i \in 1..j}
           Sum(j) == Upto(M, Pairs(M), j) = Counted(items, First(j))
           S == {d \in Nat : d <= Len(M) => Sum(d)}
<1>1. /\ M \in Seq(Member) /\ items \in Seq(Member) /\ Len(M) \in Nat
      /\ Range(M) = {M[i] : i \in 1..Len(M)} /\ Pairs(M) = Pairs(items)
      /\ \A m \in Range(M) : m.count = Counted(items, {Pair(m)})
      /\ \A i, j \in 1..Len(M) : Pair(M[i]) = Pair(M[j]) => i = j
  BY NormalizedIs DEF Proper
<1>2. /\ Len(items) \in 0..Len(items)
      /\ \A p : Counted(items, p) = Upto(items, p, Len(items)) /\ Counted(items, p) \in Int
  BY <1>1, UptoIs
<1>3. 0 \in S
  <2>1. First(0) = {}
    OBVIOUS
  <2>2. Counted(items, {}) = 0
    BY <1>2, UptoCounts
  <2>3. Sum(0)
    BY <1>1, <2>1, <2>2, UptoIs
  <2> HIDE DEF Sum
  <2> QED  BY <2>3
<1>4. ASSUME NEW d \in Nat, d \in S PROVE d + 1 \in S
  <2> SUFFICES ASSUME d + 1 <= Len(M) PROVE Sum(d + 1)
    OBVIOUS
  <2>1. d + 1 \in 1..Len(M) /\ (d + 1) - 1 = d /\ d \in 0..Len(M) /\ Sum(d)
    BY <1>1, <1>4
  <2>2. Upto(M, Pairs(M), d + 1) = Upto(M, Pairs(M), d) + Own(M, Pairs(M), d + 1)
    BY <1>1, <2>1, UptoIs
  <2>3. PICK p : p = Pair(M[d + 1])
    OBVIOUS
  <2>4. Own(M, Pairs(M), d + 1) = Counted(items, {p})
    BY <1>1, <2>1, <2>3 DEF Own, Pairs
  <2>5. First(d) \cap {p} = {}
    <3> SUFFICES ASSUME NEW i \in 1..d, Pair(M[i]) = p PROVE FALSE
      OBVIOUS
    <3>1. i \in 1..Len(M) /\ i # d + 1
      BY <1>1, <2>1
    <3> QED  BY <1>1, <2>1, <2>3, <3>1
  <2>6. First(d + 1) = First(d) \cup {p}
    <3>1. \A i : i \in 1..(d + 1) <=> i \in 1..d \/ i = d + 1
      OBVIOUS
    <3> QED  BY <2>3, <3>1
  <2> HIDE DEF First
  <2>7. Counted(items, First(d) \cup {p}) = Counted(items, First(d)) + Counted(items, {p})
    BY <1>1, <1>2, <2>5, UptoAdds
  <2> QED  BY <2>1, <2>2, <2>4, <2>6, <2>7
<1>5. Len(M) \in S
  <2> HIDE DEF S
  <2> QED  BY <1>1, <1>3, <1>4, StepInduction
<1>6. Sum(Len(M))
  BY <1>1, <1>5
<1>7. First(Len(M)) = Pairs(M)
  BY <1>1 DEF Pairs
<1> QED  BY <1>1, <1>6, <1>7, UptoIs

\* The identifiers of the members are those of the items.
LEMMA SameParts ==
    ASSUME NEW x, NEW y, Pairs(x) = Pairs(y)
    PROVE  /\ {m.id : m \in Range(x)} = {m.id : m \in Range(y)}
           /\ {m.id.kid : m \in Range(x)} = {m.id.kid : m \in Range(y)}
<1>1. \A m \in Range(x) : \E n \in Range(y) : Pair(n) = Pair(m)
  BY DEF Pairs
<1>2. \A m \in Range(y) : \E n \in Range(x) : Pair(n) = Pair(m)
  BY DEF Pairs
<1>3. (\A m \in Range(x) : \E n \in Range(y) : n.id = m.id) /\ (\A m \in Range(y) : \E n \in Range(x) : n.id = m.id)
  BY <1>1, <1>2, BeforeOfPair
<1> QED  BY <1>3

-----------------------------------------------------------------------------
(* What compute_multiset_root concludes *)

Kids(items, key_id) == {m.id.kid : m \in Range(items)} \cup ({key_id} \ {ABSENT})

LEMMA KidsFinite ==
    ASSUME NEW items, Proper(items), NEW key_id
    PROVE  IsFiniteSet(Kids(items, key_id))
<1> DEFINE L == 1..Len(items)
           K == {m.id.kid : m \in Range(items)}
           f == [i \in L |-> items[i].id.kid]
<1>1. Len(items) \in Nat /\ Range(items) = {items[i] : i \in L}
  BY PairsAre DEF Proper
<1>2. f \in Surjection(L, K)
  BY <1>1 DEF Surjection
<1>3. IsFiniteSet(L)
  BY <1>1, FS_Interval
<1>4. IsFiniteSet(K)
  <2> HIDE DEF f, L, K
  <2> QED  BY <1>2, <1>3, FS_Surjection
<1>5. IsFiniteSet({key_id} \ {ABSENT})
  BY FS_Singleton, FS_Difference
<1> HIDE DEF K
<1>6. IsFiniteSet(K \cup ({key_id} \ {ABSENT}))
  BY <1>4, <1>5, FS_Union
<1> QED  BY <1>6 DEF K, Kids

LEMMA ConcludeIs ==
    ASSUME NEW items, Proper(items), NEW M, M = MembersOf(TotalsIn(items)),
           NEW key_id, NEW r, r = Conclude(M, key_id)
    PROVE  /\ r.error # ABSENT <=> \/ key_id = MALFORMED \/ Cardinality(Kids(items, key_id)) # 1
                                   \/ Counted(items, Pairs(items)) > MAX_COUNT
           /\ r.error = ABSENT => /\ r.members = M /\ r.root = RootOf(r.key_id, M)
                                  /\ \A m \in Range(M) : m.id.kid = r.key_id
<1> DEFINE kids == {m.id.kid : m \in Range(M)} \cup (IF key_id = ABSENT THEN {} ELSE {key_id})
           total == Counted(M, Pairs(M))
           kid == CHOOSE k \in kids : TRUE
<1>1. /\ key_id = MALFORMED => r = [error |-> "key_id_shape"]
      /\ key_id # MALFORMED /\ kids = {} => r = [error |-> "needs_key_id"]
      /\ key_id # MALFORMED /\ kids # {} /\ Cardinality(kids) # 1 => r = [error |-> "mixed_key_ids"]
      /\ key_id # MALFORMED /\ kids # {} /\ Cardinality(kids) = 1 /\ total > MAX_COUNT =>
            r = [error |-> "total_overflow"]
      /\ key_id # MALFORMED /\ kids # {} /\ Cardinality(kids) = 1 /\ ~(total > MAX_COUNT) =>
            r = [error |-> ABSENT, key_id |-> kid, root |-> RootOf(kid, M),
                 members |-> M, total_count |-> total,
                 conflicts |-> ConflictingExampleIds(M)]
  BY DEF Conclude
<1>2. total = Counted(items, Pairs(items))
  BY TotalCount
<1>3. kids = Kids(items, key_id)
  <2>1. {m.id.kid : m \in Range(M)} = {m.id.kid : m \in Range(items)}
    BY NormalizedIs, SameParts
  <2>2. (IF key_id = ABSENT THEN {} ELSE {key_id}) = {key_id} \ {ABSENT}
    OBVIOUS
  <2> QED  BY <2>1, <2>2 DEF Kids
<1>4. \A m \in Range(M) : m.id.kid \in kids
  OBVIOUS
<1> HIDE DEF kids, total
<1>5. IsFiniteSet(kids) /\ (kids = {} => Cardinality(kids) # 1)
  BY <1>3, KidsFinite, FS_EmptySet
<1>6. Cardinality(kids) = 1 => \A m \in Range(M) : m.id.kid = kid
  <2> SUFFICES ASSUME Cardinality(kids) = 1 PROVE \A m \in Range(M) : m.id.kid = kid
    OBVIOUS
  <2>1. PICK x : kids = {x}
    BY <1>5, FS_Singleton
  <2> QED  BY <1>4, <2>1
<1> HIDE DEF kid
<1>7. /\ "key_id_shape" # ABSENT /\ "needs_key_id" # ABSENT
      /\ "mixed_key_ids" # ABSENT /\ "total_overflow" # ABSENT
  BY AbsentAssumption DEF Refusals
<1>8. CASE key_id = MALFORMED
  BY <1>1, <1>7, <1>8
<1>9. CASE key_id # MALFORMED /\ (kids = {} \/ Cardinality(kids) # 1)
  BY <1>1, <1>3, <1>5, <1>7, <1>9
<1>10. CASE key_id # MALFORMED /\ kids # {} /\ Cardinality(kids) = 1 /\ total > MAX_COUNT
  BY <1>1, <1>2, <1>7, <1>10
<1>11. CASE key_id # MALFORMED /\ kids # {} /\ Cardinality(kids) = 1 /\ ~(total > MAX_COUNT)
  <2>1. r.error = ABSENT /\ r.members = M /\ r.root = RootOf(r.key_id, M) /\ r.key_id = kid
    BY <1>1, <1>11
  <2> QED  BY <1>2, <1>3, <1>6, <1>11, <2>1
<1> QED  BY <1>8, <1>9, <1>10, <1>11

-----------------------------------------------------------------------------
(* The invariant of the calls *)

AllMembers(items) == \A i \in 1..Len(items) : MemberError(items[i]) = ABSENT

\* A call that ends refuses an item, passes the ceiling, or concludes.
Judged(call, r) ==
    \/ (\E i \in 1..Len(call.items) : MemberError(call.items[i]) # ABSENT) /\ r.error # ABSENT
    \/ /\ AllMembers(call.items) /\ r.error # ABSENT
       /\ Counted(call.items, Pairs(call.items)) > MAX_COUNT
    \/ /\ AllMembers(call.items)
       /\ r = Conclude(MembersOf(TotalsIn(call.items)), call.key_id)

\* todo is what is left of items after the first k.
Rest(rest, items, k) ==
    /\ rest \in Seq(Member) /\ Len(rest) = Len(items) - k
    /\ \A i \in 1..Len(rest) : rest[i] = items[k + i]

Adding(items) ==
    /\ AllMembers(items)
    /\ \E k \in 0..Len(items) : Rest(todo, items, k) /\ Summed(totals, items, k)

CallsInv ==
    /\ inputs \in Inputs
    /\ current \in Nat
    /\ results = [n \in Range(Names) |-> results[n]]
    /\ \A n \in Range(Names) : results[n] # ABSENT => Judged(inputs[n], results[n])
    /\ current \in DOMAIN Names /\ todo # ABSENT => Adding(Call.items)

LEMMA NamesAre ==
    /\ DOMAIN Names = {1, 2} /\ Range(Names) = {"dataset", "evaluated"}
    /\ \A i \in DOMAIN Names : Names[i] \in Range(Names)
<1>1. DOMAIN Names = {1, 2} /\ Names[1] = "dataset" /\ Names[2] = "evaluated"
  BY DEF Names
<1>2. Range(Names) = {Names[i] : i \in {1, 2}}
  BY <1>1 DEF Range
<1> QED  BY <1>1, <1>2

\* A refusal says why; what is not refused is a member with a positive count.
LEMMA MemberErrorIs ==
    ASSUME NEW item \in Member \cup {MALFORMED}
    PROVE  /\ MemberError(item) # ABSENT => MemberError(item) \in Refusals
           /\ MemberError(item) = ABSENT => item \in Member /\ item.count >= 1
<1>1. /\ item = MALFORMED => MemberError(item) = "not_a_member"
      /\ item # MALFORMED /\ item.id.kid # item.version.kid => MemberError(item) = "different_key_ids"
      /\ item # MALFORMED /\ item.id.kid = item.version.kid /\ item.count \notin 1..MAX_COUNT =>
            MemberError(item) = "count_range"
      /\ item # MALFORMED /\ item.id.kid = item.version.kid /\ item.count \in 1..MAX_COUNT =>
            MemberError(item) = ABSENT
  BY DEF MemberError
<1>2. ABSENT \notin Refusals /\ MAX_COUNT \in Nat
  BY AbsentAssumption, MaxCountAssumption
<1>3. "not_a_member" \in Refusals /\ "different_key_ids" \in Refusals /\ "count_range" \in Refusals
  BY DEF Refusals
<1>4. item \in Member => item.count \in Int
  BY DEF Member
<1> QED  BY <1>1, <1>2, <1>3, <1>4

LEMMA AllMembersAre ==
    ASSUME NEW items \in Seq(Member \cup {MALFORMED}), AllMembers(items)
    PROVE  Proper(items)
<1>1. \A i \in 1..Len(items) : items[i] \in Member \cup {MALFORMED}
  OBVIOUS
<1>2. \A i \in 1..Len(items) : items[i] \in Member /\ items[i].count >= 1
  BY <1>1, MemberErrorIs DEF AllMembers
<1>3. items \in Seq(Member)
  BY <1>2
<1> QED  BY <1>2, <1>3 DEF Proper

LEMMA MinIs ==
    ASSUME NEW S \in SUBSET Nat, S # {}
    PROVE  Min(S) \in S
<1>1. PICK x \in S : \A y \in S : <<y, x>> \notin OpToRel(<, Nat)
  BY NatLessThanWellFounded, WFMin
<1>2. ASSUME NEW y \in S PROVE x <= y
  <2> SUFFICES ASSUME y < x PROVE FALSE
    OBVIOUS
  <2>1. x \in Nat /\ y \in Nat /\ y < x
    OBVIOUS
  <2> QED  BY <1>1, <2>1 DEF OpToRel
<1> QED  BY <1>2 DEF Min

LEMMA CallIs ==
    ASSUME CallsInv, current \in DOMAIN Names
    PROVE  Call.items \in Seq(Member \cup {MALFORMED})
<1>1. Names[current] \in {"dataset", "evaluated"} /\ inputs \in Inputs
  BY NamesAre DEF CallsInv
<1>2. inputs[Names[current]].items \in Seq(Member \cup {MALFORMED})
  BY <1>1, InputsAssumption
<1> QED  BY <1>2 DEF Call

LEMMA FinishKeeps ==
    ASSUME CallsInv, current \in DOMAIN Names, NEW r, Judged(Call, r), Finish(r)
    PROVE  CallsInv'
<1>1. /\ results' = [results EXCEPT ![Names[current]] = r]
      /\ current' = current + 1 /\ todo' = ABSENT /\ inputs' = inputs
  BY DEF Finish
<1>2. /\ inputs \in Inputs /\ current \in Nat /\ results = [n \in Range(Names) |-> results[n]]
      /\ \A n \in Range(Names) : results[n] # ABSENT => Judged(inputs[n], results[n])
  BY DEF CallsInv
<1>3. Names[current] \in Range(Names) /\ Judged(inputs[Names[current]], r)
  BY NamesAre DEF Call
<1>4. results' = [n \in Range(Names) |-> IF n = Names[current] THEN r ELSE results[n]]
  BY <1>1, <1>2
<1>5. results' = [n \in Range(Names) |-> results'[n]]
  BY <1>4
<1>6. \A n \in Range(Names) : results'[n] # ABSENT => Judged(inputs'[n], results'[n])
  BY <1>1, <1>2, <1>3, <1>4
<1>7. inputs' \in Inputs /\ current' \in Nat
  BY <1>1, <1>2
<1> HIDE DEF Judged
<1>8. (Range(Names))' = Range(Names) /\ \A c, x : Judged(c, x)' = Judged(c, x)
  BY DEF Names, Judged
<1> QED  BY <1>1, <1>5, <1>6, <1>7 DEF CallsInv

\* A step within a call keeps what the calls have returned.
LEMMA SameCalls ==
    ASSUME CallsInv, inputs' = inputs, current' = current, results' = results,
           (current \in DOMAIN Names /\ todo # ABSENT => Adding(Call.items))'
    PROVE  CallsInv'
<1>1. /\ inputs \in Inputs /\ current \in Nat /\ results = [n \in Range(Names) |-> results[n]]
      /\ \A n \in Range(Names) : results[n] # ABSENT => Judged(inputs[n], results[n])
  BY DEF CallsInv
<1>2. (Range(Names))' = Range(Names) /\ \A c, x : Judged(c, x)' = Judged(c, x)
  BY DEF Names, Judged
<1> HIDE DEF Judged
<1> QED  BY <1>1, <1>2 DEF CallsInv

\* What _coerce_members refuses, and what it hands to _normalize.
LEMMA CoerceKeeps ==
    ASSUME CallsInv, CoerceMembers
    PROVE  CallsInv'
<1> DEFINE items == Call.items
           refused == {i \in DOMAIN items : MemberError(items[i]) # ABSENT}
<1>1. current \in DOMAIN Names /\ items \in Seq(Member \cup {MALFORMED})
  BY CallIs DEF CoerceMembers
<1>2. /\ refused # {} => Finish([error |-> MemberError(items[Min(refused)])])
      /\ refused = {} => /\ todo' = items /\ totals' = NoTotals
                         /\ inputs' = inputs /\ current' = current /\ results' = results
  BY DEF CoerceMembers
<1>3. CASE refused # {}
  <2>1. refused \in SUBSET Nat /\ DOMAIN items = 1..Len(items)
    BY <1>1
  <2>2. Min(refused) \in refused
    <3> HIDE DEF refused
    <3> QED  BY <1>3, <2>1, MinIs
  <2>3. PICK i : i = Min(refused)
    OBVIOUS
  <2>4. i \in 1..Len(items) /\ MemberError(items[i]) # ABSENT
    BY <2>1, <2>2, <2>3
  <2>5. PICK r : r = [error |-> MemberError(items[i])]
    OBVIOUS
  <2>6. r.error # ABSENT
    BY <2>4, <2>5
  <2>7. Judged(Call, r)
    BY <2>4, <2>6 DEF Judged
  <2>8. Finish(r)
    BY <1>2, <1>3, <2>3, <2>5
  <2> QED  BY <1>1, <2>7, <2>8, FinishKeeps
<1>4. CASE refused = {}
  <2>1. AllMembers(items)
    BY <1>1, <1>4 DEF AllMembers
  <2>2. Proper(items)
    BY <1>1, <2>1, AllMembersAre
  <2>3. /\ todo' = items /\ totals' = NoTotals
        /\ inputs' = inputs /\ current' = current /\ results' = results
    BY <1>2, <1>4
  <2>4. Len(items) \in Nat /\ 0 \in 0..Len(items) /\ Rest(items, items, 0)
    BY <2>2 DEF Proper, Rest
  <2>5. Summed(NoTotals, items, 0)
    BY SummedNone
  <2>6. Call' = Call
    BY <2>3 DEF Call, Names
  <2>7. Adding(items)'
    <3> HIDE DEF items
    <3>1. items' = items
      BY <2>6 DEF items
    <3>2. AllMembers(items)' = AllMembers(items)
      BY <3>1 DEF AllMembers, MemberError
    <3>3. Rest(todo', items', 0) /\ Summed(totals', items', 0) /\ 0 \in 0..Len(items')
      BY <2>3, <2>4, <2>5, <3>1
    <3> QED  BY <2>1, <3>2, <3>3 DEF Adding
  <2> QED  BY <2>3, <2>7, SameCalls
<1> QED  BY <1>3, <1>4

\* One item more in the totals, or the ceiling passed by a pair and so by all.
LEMMA NormalizeKeeps ==
    ASSUME CallsInv, Normalize
    PROVE  CallsInv'
<1> DEFINE m == Head(todo)
           count == Added(totals, m)
           u == WithOne(totals, m)
<1>1. current \in DOMAIN Names /\ todo # ABSENT /\ todo # <<>>
  BY DEF Normalize
<1>2. PICK items : items = Call.items
  OBVIOUS
<1>3. items \in Seq(Member \cup {MALFORMED}) /\ AllMembers(items)
  BY <1>1, <1>2, CallIs DEF CallsInv, Adding
<1>4. Proper(items) /\ items \in Seq(Member) /\ Len(items) \in Nat
  BY <1>3, AllMembersAre DEF Proper
<1>5. PICK k \in 0..Len(items) : Rest(todo, items, k) /\ Summed(totals, items, k)
  BY <1>1, <1>2 DEF CallsInv, Adding
<1>6. /\ todo \in Seq(Member) /\ Len(todo) = Len(items) - k /\ Len(todo) \in Nat /\ Len(todo) >= 1
      /\ \A i \in 1..Len(todo) : todo[i] = items[k + i]
  BY <1>1, <1>5 DEF Rest
<1>7. k \in 0..(Len(items) - 1) /\ k + 1 \in 0..Len(items) /\ k + 1 <= Len(items) /\ Len(items) \in 0..Len(items)
  BY <1>4, <1>6
<1>8. m = items[k + 1]
  BY <1>6
<1>9. /\ count > MAX_COUNT => Finish([error |-> "count_overflow"])
      /\ ~(count > MAX_COUNT) => /\ totals' = u /\ todo' = Tail(todo)
                                 /\ inputs' = inputs /\ current' = current /\ results' = results
  BY DEF Normalize, WithOne
<1> HIDE DEF m
<1>10. count = Upto(items, {Pair(m)}, k + 1) /\ Summed(u, items, k + 1)
  BY <1>4, <1>5, <1>7, <1>8, SummedNext
<1> HIDE DEF count, u
<1>11. CASE count > MAX_COUNT
  <2>1. {Pair(m)} \subseteq Pairs(items)
    <3>1. k + 1 \in 1..Len(items)
      BY <1>7
    <3> QED  BY <1>4, <1>8, <3>1, PairsAre
  <2>2. Upto(items, {Pair(m)}, k + 1) <= Upto(items, Pairs(items), Len(items))
    BY <1>4, <1>7, <2>1, UptoGrows
  <2>3. /\ Counted(items, Pairs(items)) = Upto(items, Pairs(items), Len(items))
        /\ Upto(items, {Pair(m)}, k + 1) \in Int /\ Upto(items, Pairs(items), Len(items)) \in Int
    BY <1>4, <1>7, UptoIs
  <2>4. Counted(items, Pairs(items)) > MAX_COUNT
    BY <1>10, <1>11, <2>2, <2>3, MaxCountAssumption
  <2>5. PICK r : r = [error |-> "count_overflow"]
    OBVIOUS
  <2>6. r.error # ABSENT
    BY <2>5, AbsentAssumption DEF Refusals
  <2>7. Judged(Call, r)
    BY <1>2, <1>3, <2>4, <2>6 DEF Judged
  <2> QED  BY <1>1, <1>9, <1>11, <2>5, <2>7, FinishKeeps
<1>12. CASE ~(count > MAX_COUNT)
  <2>1. /\ totals' = u /\ todo' = Tail(todo)
        /\ inputs' = inputs /\ current' = current /\ results' = results
    BY <1>9, <1>12
  <2>2. Rest(Tail(todo), items, k + 1)
    <3>1. Tail(todo) \in Seq(Member) /\ Len(Tail(todo)) = Len(todo) - 1
          /\ \A i \in 1..Len(Tail(todo)) : Tail(todo)[i] = todo[i + 1]
      BY <1>1, <1>6
    <3>2. Len(Tail(todo)) = Len(items) - (k + 1)
      BY <1>4, <1>6, <1>7, <3>1
    <3>3. ASSUME NEW i \in 1..Len(Tail(todo)) PROVE Tail(todo)[i] = items[(k + 1) + i]
      <4>1. i + 1 \in 1..Len(todo) /\ k + (i + 1) = (k + 1) + i
        BY <1>6, <1>7, <3>1
      <4> QED  BY <1>6, <3>1, <4>1
    <3> QED  BY <3>1, <3>2, <3>3 DEF Rest
  <2>3. (Call.items)' = items /\ AllMembers(items)
    BY <1>2, <1>3, <2>1 DEF Call, Names
  <2>4. (Adding(Call.items))'
    <3>1. k + 1 \in 0..Len(items) /\ Rest(todo', items, k + 1) /\ Summed(totals', items, k + 1)
      BY <1>7, <1>10, <2>1, <2>2
    <3>2. AllMembers(items)'
      BY <2>3 DEF AllMembers, MemberError
    <3> QED  BY <2>3, <3>1, <3>2 DEF Adding
  <2> QED  BY <2>1, <2>4, SameCalls
<1> QED  BY <1>11, <1>12

\* With every item added, the totals are those of the items.
LEMMA ComputeKeeps ==
    ASSUME CallsInv, ComputeRoot
    PROVE  CallsInv'
<1>1. current \in DOMAIN Names /\ todo = <<>> /\ Finish(Conclude(MembersOf(totals), Call.key_id))
  BY DEF ComputeRoot
<1>2. todo # ABSENT
  BY <1>1, AbsentAssumption
<1>3. PICK items : items = Call.items
  OBVIOUS
<1>4. items \in Seq(Member \cup {MALFORMED}) /\ AllMembers(items)
  BY <1>1, <1>2, <1>3, CallIs DEF CallsInv, Adding
<1>5. Proper(items) /\ Len(items) \in Nat
  BY <1>4, AllMembersAre DEF Proper
<1>6. PICK k \in 0..Len(items) : Rest(todo, items, k) /\ Summed(totals, items, k)
  BY <1>1, <1>2, <1>3 DEF CallsInv, Adding
<1>7. k = Len(items)
  <2>1. Len(todo) = 0 /\ Len(todo) = Len(items) - k
    BY <1>1, <1>6 DEF Rest
  <2> QED  BY <1>5, <2>1
<1>8. totals = TotalsIn(items)
  BY <1>5, <1>6, <1>7, SummedAll
<1>9. Judged(Call, Conclude(MembersOf(totals), Call.key_id))
  BY <1>3, <1>4, <1>8 DEF Judged
<1> QED  BY <1>1, <1>9, FinishKeeps

LEMMA CallsInvInit ==
    ASSUME Init
    PROVE  CallsInv
<1>1. results = [n \in Range(Names) |-> ABSENT] /\ todo = ABSENT /\ inputs \in Inputs /\ current = 1
  BY DEF Init
<1>2. results = [n \in Range(Names) |-> results[n]] /\ \A n \in Range(Names) : results[n] = ABSENT
  BY <1>1
<1> QED  BY <1>1, <1>2 DEF CallsInv

LEMMA CallsInvStep ==
    ASSUME CallsInv, [IdentityNext]_allVars
    PROVE  CallsInv'
<1>1. CASE Compute
  BY <1>1, CoerceKeeps, NormalizeKeeps, ComputeKeeps DEF Compute, Next
<1>2. CASE UNCHANGED vars
  <2>1. inputs' = inputs /\ current' = current /\ results' = results /\ todo' = todo /\ totals' = totals
    BY <1>2 DEF vars
  <2>2. (current \in DOMAIN Names /\ todo # ABSENT => Adding(Call.items))'
        = (current \in DOMAIN Names /\ todo # ABSENT => Adding(Call.items))
    BY <2>1 DEF Adding, AllMembers, MemberError, Rest, Summed, Call, Names
  <2> QED  BY <2>1, <2>2, SameCalls DEF CallsInv
<1> QED  BY <1>1, <1>2 DEF IdentityNext, BuildProof, VerifyProof, allVars

-----------------------------------------------------------------------------
(* Roots, refusals and relations *)

\* What a call has returned, by its items alone.
LEMMA Returned ==
    ASSUME CallsInv, NEW n \in {"dataset", "evaluated"}, Has(n),
           NEW items, items = inputs[n].items, NEW M, M = MembersOf(TotalsIn(items))
    PROVE  /\ Proper(items)
           /\ results[n].members = M /\ results[n].root = RootOf(results[n].key_id, M)
           /\ \A m \in Range(M) : m.id.kid = results[n].key_id
<1>1. Judged(inputs[n], results[n]) /\ results[n].error = ABSENT /\ inputs \in Inputs
  BY NamesAre DEF CallsInv, Has
<1>2. AllMembers(items) /\ results[n] = Conclude(M, inputs[n].key_id)
  BY <1>1 DEF Judged
<1>3. Proper(items)
  BY <1>1, <1>2, InputsAssumption, AllMembersAre
<1> QED  BY <1>1, <1>2, <1>3, ConcludeIs

LEMMA RootsTell ==
    ASSUME CallsInv
    PROVE  SameRootIffSameBag
<1> SUFFICES ASSUME Has("dataset"), Has("evaluated")
    PROVE  results["dataset"].root = results["evaluated"].root
           <=> /\ results["dataset"].key_id = results["evaluated"].key_id
               /\ \A m \in Items("dataset") \cup Items("evaluated") :
                     Occurrences("dataset", Pair(m)) = Occurrences("evaluated", Pair(m))
  BY DEF SameRootIffSameBag
<1> DEFINE d == results["dataset"]
           e == results["evaluated"]
<1>1. PICK x, y : x = inputs["dataset"].items /\ y = inputs["evaluated"].items
  OBVIOUS
<1>2. PICK M, N : M = MembersOf(TotalsIn(x)) /\ N = MembersOf(TotalsIn(y))
  OBVIOUS
<1>3. Proper(x) /\ d.members = M /\ d.root = RootOf(d.key_id, M)
  BY <1>1, <1>2, Returned
<1>4. Proper(y) /\ e.members = N /\ e.root = RootOf(e.key_id, N)
  BY <1>1, <1>2, Returned
<1> HIDE DEF d, e
<1>5. /\ M \in Seq(Member) /\ N \in Seq(Member)
      /\ Pairs(M) = Pairs(x) /\ Pairs(N) = Pairs(y)
      /\ \A m \in Range(M) : m.count = Counted(x, {Pair(m)})
      /\ \A m \in Range(N) : m.count = Counted(y, {Pair(m)})
  BY <1>2, <1>3, <1>4, NormalizedIs DEF Proper
<1>6. d.root = e.root <=> d.key_id = e.key_id /\ Mth(M) = Mth(N)
  BY <1>3, <1>4 DEF RootOf
<1>7. Mth(M) = Mth(N) <=> M = N
  BY <1>5, SameRoot
<1>8. ASSUME M = N, NEW m \in Range(x) \cup Range(y)
      PROVE  Counted(x, {Pair(m)}) = Counted(y, {Pair(m)})
  <2>1. Pair(m) \in Pairs(M)
    BY <1>5, <1>8 DEF Pairs
  <2>2. PICK o \in Range(M) : Pair(o) = Pair(m)
    BY <2>1 DEF Pairs
  <2> QED  BY <1>5, <1>8, <2>2
<1>9. ASSUME \A m \in Range(x) \cup Range(y) : Counted(x, {Pair(m)}) = Counted(y, {Pair(m)})
      PROVE  M = N
  <2>1. \A p \in Pairs(x) \cup Pairs(y) : Counted(x, {p}) = Counted(y, {p})
    BY <1>9 DEF Pairs
  <2>2. /\ \A p \in Pairs(x) : Counted(x, {p}) >= 1
        /\ \A p \in Pairs(y) : Counted(y, {p}) >= 1
        /\ \A p : p \notin Pairs(x) => Counted(x, {p}) = 0
        /\ \A p : p \notin Pairs(y) => Counted(y, {p}) = 0
    BY <1>3, <1>4, TotalsInIs
  <2>3. Pairs(x) = Pairs(y)
    <3>1. ASSUME NEW p \in Pairs(x), p \notin Pairs(y) PROVE FALSE
      <4>1. Counted(x, {p}) = 0 /\ Counted(x, {p}) >= 1
        BY <2>1, <2>2, <3>1
      <4> QED  BY <4>1
    <3>2. ASSUME NEW p \in Pairs(y), p \notin Pairs(x) PROVE FALSE
      <4>1. Counted(y, {p}) = 0 /\ Counted(y, {p}) >= 1
        BY <2>1, <2>2, <3>2
      <4> QED  BY <4>1
    <3> QED  BY <3>1, <3>2
  <2>4. TotalsIn(x) = TotalsIn(y)
    BY <2>1, <2>3 DEF TotalsIn
  <2> QED  BY <1>2, <2>4
<1>10. /\ Items("dataset") = Range(x) /\ Items("evaluated") = Range(y)
       /\ \A p : Occurrences("dataset", p) = Counted(x, {p}) /\ Occurrences("evaluated", p) = Counted(y, {p})
  BY <1>1 DEF Items, Occurrences
<1> QED  BY <1>6, <1>7, <1>8, <1>9, <1>10 DEF d, e

LEMMA RefusalsTell ==
    ASSUME CallsInv
    PROVE  RefusedIffImproper
<1> SUFFICES ASSUME NEW n \in Range(Names), results[n] # ABSENT
    PROVE  results[n].error # ABSENT <=>
            \/ inputs[n].key_id = MALFORMED \/ \E m \in Items(n) : MemberError(m) # ABSENT
            \/ Cardinality({m.id.kid : m \in Items(n)} \cup ({inputs[n].key_id} \ {ABSENT})) # 1
            \/ Counted(inputs[n].items, Pairs(inputs[n].items)) > MAX_COUNT
  BY DEF RefusedIffImproper
<1>1. PICK items, key_id : items = inputs[n].items /\ key_id = inputs[n].key_id
  OBVIOUS
<1>2. Judged(inputs[n], results[n]) /\ inputs \in Inputs /\ n \in {"dataset", "evaluated"}
  BY NamesAre DEF CallsInv
<1>3. items \in Seq(Member \cup {MALFORMED})
  BY <1>1, <1>2, InputsAssumption
<1>4. Items(n) = {items[i] : i \in 1..Len(items)}
  BY <1>1, <1>3 DEF Items, Range
<1>5. {m.id.kid : m \in Items(n)} \cup ({inputs[n].key_id} \ {ABSENT}) = Kids(items, key_id)
  BY <1>1 DEF Items, Kids
<1>6. CASE (\E i \in 1..Len(items) : MemberError(items[i]) # ABSENT) /\ results[n].error # ABSENT
  BY <1>4, <1>6
<1>7. CASE /\ AllMembers(items) /\ results[n].error # ABSENT
           /\ Counted(items, Pairs(items)) > MAX_COUNT
  BY <1>1, <1>7
<1>8. CASE AllMembers(items) /\ results[n] = Conclude(MembersOf(TotalsIn(items)), key_id)
  <2>1. Proper(items)
    BY <1>3, <1>8, AllMembersAre
  <2>2. ~ \E m \in Items(n) : MemberError(m) # ABSENT
    BY <1>4, <1>8 DEF AllMembers
  <2>3. results[n].error # ABSENT <=> \/ key_id = MALFORMED \/ Cardinality(Kids(items, key_id)) # 1
                                      \/ Counted(items, Pairs(items)) > MAX_COUNT
    BY <1>8, <2>1, ConcludeIs
  <2> QED  BY <1>1, <1>5, <2>2, <2>3
<1> QED  BY <1>1, <1>2, <1>6, <1>7, <1>8 DEF Judged

LEMMA RelationsTell ==
    ASSUME CallsInv
    PROVE  RelationsHoldOfItems
<1> SUFFICES ASSUME Has("dataset"), Has("evaluated"), NEW d, d = results["dataset"],
                    NEW e, e = results["evaluated"]
    PROVE  /\ IsSubMultiset(e, d)
               <=> /\ e.key_id = d.key_id
                   /\ \A m \in Items("evaluated") :
                         Occurrences("evaluated", Pair(m)) <= Occurrences("dataset", Pair(m))
           /\ e.key_id = d.key_id =>
                  ExampleIdOverlap(d, e) =
                      {m.id : m \in Items("dataset")} \cap {m.id : m \in Items("evaluated")}
  BY DEF RelationsHoldOfItems
<1>1. PICK x, y : x = inputs["dataset"].items /\ y = inputs["evaluated"].items
  OBVIOUS
<1>2. PICK M, N : M = MembersOf(TotalsIn(x)) /\ N = MembersOf(TotalsIn(y))
  OBVIOUS
<1>3. Proper(x) /\ d.members = M /\ Proper(y) /\ e.members = N
  BY <1>1, <1>2, Returned
<1>4. /\ Pairs(M) = Pairs(x) /\ Pairs(N) = Pairs(y)
      /\ \A m \in Range(M) : m.count = Counted(x, {Pair(m)})
      /\ \A m \in Range(N) : m.count = Counted(y, {Pair(m)})
  BY <1>2, <1>3, NormalizedIs
<1>5. /\ Items("dataset") = Range(x) /\ Items("evaluated") = Range(y)
      /\ \A p : Occurrences("dataset", p) = Counted(x, {p}) /\ Occurrences("evaluated", p) = Counted(y, {p})
  BY <1>1 DEF Items, Occurrences
<1>6. /\ \A p \in Pairs(y) : Counted(y, {p}) >= 1 /\ Counted(y, {p}) \in Int
      /\ \A p : p \notin Pairs(x) => Counted(x, {p}) = 0
  <2>1. y \in Seq(Member)
    BY <1>3 DEF Proper
  <2> QED  BY <1>3, <2>1, TotalsInIs, UptoIs
<1> DEFINE Within == \A m \in Range(N) : \E o \in Range(M) : Pair(o) = Pair(m) /\ o.count >= m.count
           Fewer == \A m \in Range(y) : Counted(y, {Pair(m)}) <= Counted(x, {Pair(m)})
<1>7. ASSUME Within, NEW m \in Range(y)
      PROVE  Counted(y, {Pair(m)}) <= Counted(x, {Pair(m)})
  <2>1. PICK n \in Range(N) : Pair(n) = Pair(m)
    BY <1>4 DEF Pairs
  <2>2. PICK o \in Range(M) : Pair(o) = Pair(n) /\ o.count >= n.count
    BY <1>7
  <2>3. o.count = Counted(x, {Pair(m)}) /\ n.count = Counted(y, {Pair(m)})
    BY <1>4, <2>1, <2>2
  <2> QED  BY <2>2, <2>3
<1>8. ASSUME Fewer, NEW m \in Range(N)
      PROVE  \E o \in Range(M) : Pair(o) = Pair(m) /\ o.count >= m.count
  <2>1. PICK n \in Range(y) : Pair(n) = Pair(m)
    BY <1>4 DEF Pairs
  <2>2. Pair(m) \in Pairs(y) /\ Counted(y, {Pair(m)}) <= Counted(x, {Pair(m)})
    BY <1>8, <2>1 DEF Pairs
  <2>3. Pair(m) \in Pairs(M)
    BY <1>4, <1>6, <2>2
  <2>4. PICK o \in Range(M) : Pair(o) = Pair(m)
    BY <2>3 DEF Pairs
  <2>5. o.count = Counted(x, {Pair(m)}) /\ m.count = Counted(y, {Pair(m)})
    BY <1>4, <2>4
  <2> QED  BY <2>2, <2>4, <2>5
<1>9. Within <=> Fewer
  BY <1>7, <1>8
<1>10. IsSubMultiset(e, d) <=> e.key_id = d.key_id /\ Within
  BY <1>3 DEF IsSubMultiset
<1>11. e.key_id = d.key_id =>
          ExampleIdOverlap(d, e) = {m.id : m \in Range(M)} \cap {m.id : m \in Range(N)}
  BY <1>3 DEF ExampleIdOverlap
<1>12. {m.id : m \in Range(M)} = {m.id : m \in Range(x)} /\ {m.id : m \in Range(N)} = {m.id : m \in Range(y)}
  BY <1>4, SameParts
<1> QED  BY <1>5, <1>9, <1>10, <1>11, <1>12

-----------------------------------------------------------------------------
(* What holds while a path is folded *)

\* The leaves themselves are the first level.
LEMMA BaseLevel ==
    ASSUME NEW leaves, Len(leaves) \in Nat, NEW m \in 0..(Len(leaves) - 1)
    PROVE  /\ AtLevel(m, leaves, 1, m, Len(leaves) - 1)
           /\ NodeAt(leaves, 1, m) = LeafHash(leaves[m + 1])
           /\ PathAt(m, leaves, 1, m) = <<>>
<1>1. m \in Nat /\ m * 1 = m /\ (Len(leaves) - 1) * 1 = Len(leaves) - 1 /\ Len(leaves) - 1 \in Nat
      /\ m + 1 <= Len(leaves) /\ m < m + 1 /\ Len(leaves) - 1 < Len(leaves)
      /\ (Len(leaves) - 1) + 1 = Len(leaves)
  OBVIOUS
<1>2. AtLevel(m, leaves, 1, m, Len(leaves) - 1)
  BY <1>1, PowersDouble DEF AtLevel
<1>3. LastOf(leaves, 1, m) = m + 1
  BY <1>1 DEF LastOf
<1>4. NodeAt(leaves, 1, m) = SubtreeHash(leaves, m, m + 1) /\ PathAt(m, leaves, 1, m) = PathWithin(m, leaves, m, m + 1)
  BY <1>1, <1>3 DEF NodeAt, PathAt
<1> QED  BY <1>2, <1>4, SubtreeIsLeaf, PathOfLeaf

\* rest is what follows done in whole.
Follows(rest, done, whole) ==
    /\ Len(rest) = Len(whole) - Len(done)
    /\ \A i \in 1..Len(rest) : rest[i] = whole[Len(done) + i]

\* A built proof: f is at the true hash of a node, and the rest of the path is
\* that of the node.
OnPath(leaves, m, f) ==
    \E w : /\ AtLevel(m, leaves, w, f.fn, f.sn) /\ f.r = NodeAt(leaves, w, f.fn)
           /\ f.path \in Seq(SubtreeHashes(leaves))
           /\ Follows(f.path, PathAt(m, leaves, w, f.fn), Path(m, leaves))

\* Any proof: what has become a hash of the tree began with one of its leaves;
\* and where index and size are true, with the leaf of that index.
InTree(leaves, member, f) ==
    f.r \in SubtreeHashes(leaves) => \E i \in 1..Len(leaves) : LeafData(leaves[i]) = LeafData(member)
AtIndex(leaves, m, member, f) ==
    \E w : /\ AtLevel(m, leaves, w, f.fn, f.sn)
           /\ f.r = NodeAt(leaves, w, f.fn) => LeafData(leaves[m + 1]) = LeafData(member)

LEMMA PathIsHashes ==
    ASSUME NEW leaves, Len(leaves) \in Nat, NEW m \in 0..(Len(leaves) - 1)
    PROVE  Path(m, leaves) \in Seq(SubtreeHashes(leaves))
<1> DEFINE zero == 0
<1>1. zero \in 0..Len(leaves) /\ Len(leaves) \in 0..Len(leaves) /\ zero < Len(leaves)
      /\ Len(leaves) - zero = Len(leaves)
  OBVIOUS
<1>2. PathWithin(m, leaves, zero, Len(leaves)) = Path(m, leaves)
  BY <1>1, PathDefined DEF PathWithin
<1> HIDE DEF zero
<1>3. PathWithin(m, leaves, zero, Len(leaves)) \in Seq(SubtreeHashes(leaves))
  BY <1>1, PathType
<1> QED  BY <1>2, <1>3

LEMMA SomeHash ==
    ASSUME NEW leaves, Len(leaves) \in Nat, NEW h \in SubtreeHashes(leaves)
    PROVE  \E lo, hi \in 0..Len(leaves) : lo < hi /\ h = SubtreeHash(leaves, lo, hi)
<1>1. PICK r \in (0..Len(leaves)) \X (0..Len(leaves)) :
             r[1] < r[2] /\ h = SubtreeHash(leaves, r[1], r[2])
  BY DEF SubtreeHashes
<1>2. r[1] \in 0..Len(leaves) /\ r[2] \in 0..Len(leaves)
  OBVIOUS
<1> QED  BY <1>1, <1>2

LEMMA FoldStarts ==
    ASSUME NEW leaves, Len(leaves) \in Nat, NEW m \in 0..(Len(leaves) - 1),
           NEW member, NEW f, f.r = LeafHash(member), f.fn = m, f.sn = Len(leaves) - 1
    PROVE  /\ AtIndex(leaves, m, member, f)
           /\ member = leaves[m + 1] /\ f.path = Path(m, leaves) => OnPath(leaves, m, f)
<1>1. /\ AtLevel(m, leaves, 1, f.fn, f.sn)
      /\ NodeAt(leaves, 1, f.fn) = LeafHash(leaves[m + 1])
      /\ PathAt(m, leaves, 1, f.fn) = <<>>
  BY BaseLevel
<1>2. AtIndex(leaves, m, member, f)
  BY <1>1, HashesDiffer DEF AtIndex
<1>3. ASSUME member = leaves[m + 1], f.path = Path(m, leaves)
      PROVE  OnPath(leaves, m, f)
  <2>1. f.path \in Seq(SubtreeHashes(leaves))
    BY <1>3, PathIsHashes
  <2>2. Len(f.path) \in Nat /\ Len(<<>>) = 0
    BY <2>1
  <2>3. PICK e : e = <<>>
    OBVIOUS
  <2>4. Follows(f.path, e, f.path)
    BY <2>2, <2>3 DEF Follows
  <2> QED  BY <1>1, <1>3, <2>1, <2>3, <2>4 DEF OnPath
<1> QED  BY <1>2, <1>3

LEMMA InTreeStarts ==
    ASSUME NEW leaves, Len(leaves) \in Nat, NEW member, NEW f, f.r = LeafHash(member)
    PROVE  InTree(leaves, member, f)
<1> SUFFICES ASSUME f.r \in SubtreeHashes(leaves)
             PROVE  \E i \in 1..Len(leaves) : LeafData(leaves[i]) = LeafData(member)
  BY DEF InTree
<1>1. PICK lo \in 0..Len(leaves), hi \in 0..Len(leaves) : lo < hi /\ f.r = SubtreeHash(leaves, lo, hi)
  BY SomeHash
<1>2. LeafHash(member) = SubtreeHash(leaves, lo, hi)
  BY <1>1
<1>3. \/ hi = lo + 1 /\ SubtreeHash(leaves, lo, hi) = LeafHash(leaves[lo + 1])
      \/ \E mid \in (lo + 1)..(hi - 1) :
            SubtreeHash(leaves, lo, hi) = NodeHash(SubtreeHash(leaves, lo, mid), SubtreeHash(leaves, mid, hi))
  BY <1>1, SubtreeKinds
<1>4. lo + 1 \in 1..Len(leaves) /\ LeafHash(member) = LeafHash(leaves[lo + 1])
  <2>1. ASSUME NEW p, NEW q, LeafHash(member) = NodeHash(p, q) PROVE FALSE
    BY ONLY <2>1, HashesDiffer
  <2>2. hi = lo + 1 /\ SubtreeHash(leaves, lo, hi) = LeafHash(leaves[lo + 1])
    BY <1>2, <1>3, <2>1
  <2>3. lo + 1 \in 1..Len(leaves)
    BY <2>2
  <2> QED  BY <1>2, <2>2, <2>3
<1>5. LeafData(leaves[lo + 1]) = LeafData(member)
  <2>1. LeafHash(leaves[lo + 1]) = LeafHash(member)
    BY <1>4
  <2> QED  BY ONLY <2>1, HashesDiffer
<1> QED  BY <1>4, <1>5

LEMMA InTreeSteps ==
    ASSUME NEW leaves, Len(leaves) \in Nat, NEW member, NEW f, InTree(leaves, member, f)
    PROVE  InTree(leaves, member, Folded(f))
<1> SUFFICES ASSUME Folded(f).r \in SubtreeHashes(leaves)
             PROVE  \E i \in 1..Len(leaves) : LeafData(leaves[i]) = LeafData(member)
  BY DEF InTree
<1>1. PICK p, q : Folded(f).r = NodeHash(p, q) /\ (p = f.r \/ q = f.r)
  BY DEF Folded
<1>2. PICK lo \in 0..Len(leaves), hi \in 0..Len(leaves) : lo < hi /\ NodeHash(p, q) = SubtreeHash(leaves, lo, hi)
  BY <1>1, SomeHash
<1>3. PICK mid \in (lo + 1)..(hi - 1) :
             NodeHash(p, q) = NodeHash(SubtreeHash(leaves, lo, mid), SubtreeHash(leaves, mid, hi))
  BY <1>2, SubtreeKinds, HashesDiffer
<1>4. p = SubtreeHash(leaves, lo, mid) /\ q = SubtreeHash(leaves, mid, hi)
  BY <1>3, HashesDiffer
<1>5. mid \in 0..Len(leaves) /\ lo < mid /\ mid < hi
  BY <1>2
<1>6. p \in SubtreeHashes(leaves) /\ q \in SubtreeHashes(leaves)
  BY <1>4, <1>5, SubtreeHashesHas
<1> QED  BY <1>1, <1>6 DEF InTree

LEMMA AtIndexSteps ==
    ASSUME NEW leaves, Len(leaves) \in Nat, NEW m \in 0..(Len(leaves) - 1), NEW member, NEW f,
           AtIndex(leaves, m, member, f), f.sn # 0
    PROVE  AtIndex(leaves, m, member, Folded(f))
<1>1. PICK w : /\ AtLevel(m, leaves, w, f.fn, f.sn)
               /\ f.r = NodeAt(leaves, w, f.fn) => LeafData(leaves[m + 1]) = LeafData(member)
  BY DEF AtIndex
<1>2. PICK v, q : Climbs(m, leaves, w, f, v, q)
  BY <1>1, FoldedLevel
<1>3. PICK y : y = Folded(f)
  OBVIOUS
<1>4. /\ AtLevel(m, leaves, v, y.fn, y.sn)
      /\ \/ /\ y.r = NodeHash(Head(f.path), f.r)
            /\ NodeAt(leaves, v, y.fn) = NodeHash(q, NodeAt(leaves, w, f.fn))
         \/ /\ y.r = NodeHash(f.r, Head(f.path))
            /\ NodeAt(leaves, v, y.fn) = NodeHash(NodeAt(leaves, w, f.fn), q)
  BY <1>2, <1>3 DEF Climbs
<1>5. y.r = NodeAt(leaves, v, y.fn) => f.r = NodeAt(leaves, w, f.fn)
  BY <1>4, HashesDiffer
<1> QED  BY <1>1, <1>3, <1>4, <1>5 DEF AtIndex

\* A built proof has neither a hash too many nor one too few.
LEMMA OnPathSteps ==
    ASSUME NEW leaves, Len(leaves) \in Nat, NEW m \in 0..(Len(leaves) - 1), NEW f,
           OnPath(leaves, m, f)
    PROVE  /\ f.path # <<>> => f.sn # 0 /\ OnPath(leaves, m, Folded(f))
           /\ f.path = <<>> => f.sn = 0 /\ f.r = Mth(leaves)
<1>1. PICK w : /\ AtLevel(m, leaves, w, f.fn, f.sn) /\ f.r = NodeAt(leaves, w, f.fn)
               /\ f.path \in Seq(SubtreeHashes(leaves))
               /\ Follows(f.path, PathAt(m, leaves, w, f.fn), Path(m, leaves))
  BY DEF OnPath
<1>2. PICK done, whole : done = PathAt(m, leaves, w, f.fn) /\ whole = Path(m, leaves)
  OBVIOUS
<1>3. /\ done \in Seq(SubtreeHashes(leaves)) /\ whole \in Seq(SubtreeHashes(leaves))
      /\ Len(done) \in Nat /\ Len(whole) \in Nat /\ Len(f.path) \in Nat
  BY <1>1, <1>2, PathAtType, PathIsHashes
<1>4. Len(f.path) = Len(whole) - Len(done) /\ \A i \in 1..Len(f.path) : f.path[i] = whole[Len(done) + i]
  BY <1>1, <1>2 DEF Follows
<1>5. f.sn # 0 => Len(done) < Len(whole)
  BY <1>1, <1>2, LevelPrefix
<1>6. f.sn = 0 => f.r = Mth(leaves) /\ done = whole
  BY <1>1, <1>2, TopLevel
<1>7. ASSUME f.path = <<>> PROVE f.sn = 0 /\ f.r = Mth(leaves)
  <2>1. Len(f.path) = 0
    BY <1>7
  <2> QED  BY <1>3, <1>4, <1>5, <1>6, <2>1
<1>8. ASSUME f.path # <<>> PROVE f.sn # 0 /\ OnPath(leaves, m, Folded(f))
  <2>1. Len(f.path) >= 1
    BY <1>1, <1>3, <1>8
  <2>2. f.sn # 0
    BY <1>3, <1>4, <1>6, <2>1
  <2>3. PICK v, q : Climbs(m, leaves, w, f, v, q)
    BY <1>1, <2>2, FoldedLevel
  <2>4. PICK y, p : y = Folded(f) /\ p = Head(f.path)
    OBVIOUS
  <2>5. PICK more : more = PathAt(m, leaves, v, y.fn)
    OBVIOUS
  <2>6. /\ AtLevel(m, leaves, v, y.fn, y.sn)
        /\ more = Extended(done, q) /\ y.path = Tail(f.path)
        /\ \/ y.r = NodeHash(p, f.r) /\ NodeAt(leaves, v, y.fn) = NodeHash(q, f.r)
           \/ y.r = NodeHash(f.r, p) /\ NodeAt(leaves, v, y.fn) = NodeHash(f.r, q)
    BY <1>1, <1>2, <2>3, <2>4, <2>5 DEF Climbs
  <2>7. Starts(more, whole)
    BY <1>2, <2>5, <2>6, LevelPrefix
  <2>8. Len(more) = Len(done) + 1 /\ more[Len(done) + 1] = q
    BY <1>3, <2>6, ExtendedIs
  <2>9. whole[Len(done) + 1] = q
    <3>1. Len(done) + 1 \in 1..Len(more)
      BY <1>3, <2>8
    <3> QED  BY <2>7, <2>8, <3>1 DEF Starts
  <2>10. p = q
    <3>1. f.path[1] = whole[Len(done) + 1] /\ p = f.path[1]
      BY <1>1, <1>4, <2>1, <2>4
    <3> QED  BY <2>9, <3>1
  <2>11. y.path \in Seq(SubtreeHashes(leaves)) /\ Len(y.path) = Len(f.path) - 1
         /\ \A i \in 1..Len(y.path) : y.path[i] = f.path[i + 1]
    BY <1>1, <1>8, <2>6
  <2>12. Follows(y.path, more, whole)
    <3>1. Len(y.path) = Len(whole) - Len(more)
      BY <1>3, <1>4, <2>8, <2>11
    <3>2. ASSUME NEW i \in 1..Len(y.path) PROVE y.path[i] = whole[Len(more) + i]
      <4>1. i + 1 \in 1..Len(f.path) /\ Len(done) + (i + 1) = Len(more) + i
        BY <1>3, <2>8, <2>11
      <4> QED  BY <1>4, <2>11, <4>1
    <3> QED  BY <3>1, <3>2 DEF Follows
  <2> QED  BY <1>2, <2>2, <2>4, <2>5, <2>6, <2>10, <2>11, <2>12 DEF OnPath
<1> QED  BY <1>7, <1>8

-----------------------------------------------------------------------------
(* What verify_inclusion_proof has found so far *)

\* The proof that build_inclusion_proof gives of a member of d.
BuiltFrom(d, s) ==
    \E m \in 0..(Len(d.members) - 1) :
        s = [member |-> d.members[m + 1], leaf_index |-> m, tree_size |-> Len(d.members),
             audit_path |-> Path(m, d.members), root |-> d.root]

FoldOK(leaves, p, f) ==
    /\ InTree(leaves, p.member, f)
    /\ p.tree_size = Len(leaves) => /\ p.leaf_index \in 0..(Len(leaves) - 1)
                                    /\ AtIndex(leaves, p.leaf_index, p.member, f)

\* Of the proof p that arrived, the proof s that was built, the fold f and the
\* verdict v.
Found(d, p, s, f, v) ==
    /\ BuiltFrom(d, s)
    /\ f # ABSENT => FoldOK(d.members, p, f)
    /\ v = TRUE => FoldOK(d.members, p, f) /\ f.r = p.root.hash /\ f.sn = 0
    /\ p = s => v \in {ABSENT, TRUE}
    /\ p = s /\ f # ABSENT /\ v = ABSENT => OnPath(d.members, p.leaf_index, f)

ProofInv ==
    /\ proof = ABSENT => fold = ABSENT /\ verdict = ABSENT
    /\ proof # ABSENT => /\ current \notin DOMAIN Names /\ Has("dataset")
                         /\ Found(results["dataset"], proof, sent, fold, verdict)

\* The members of a root are the normalized items.
IsRootOf(d, items) ==
    /\ Proper(items) /\ d.members = MembersOf(TotalsIn(items)) /\ Len(d.members) \in Nat
    /\ d.root = RootOf(d.key_id, d.members)
    /\ \A i \in 1..Len(d.members) : d.members[i] \in Range(d.members) /\ d.members[i].id.kid = d.key_id

LEMMA DatasetIs ==
    ASSUME CallsInv, Has("dataset")
    PROVE  IsRootOf(results["dataset"], inputs["dataset"].items)
<1>1. PICK items, M, n : items = inputs["dataset"].items /\ M = MembersOf(TotalsIn(items)) /\ n = "dataset"
  OBVIOUS
<1>2. /\ Proper(items)
      /\ results[n].members = M /\ results[n].root = RootOf(results[n].key_id, M)
      /\ \A m \in Range(M) : m.id.kid = results[n].key_id
  <2>1. n \in {"dataset", "evaluated"} /\ Has(n) /\ items = inputs[n].items
    BY <1>1
  <2> QED  BY <1>1, <2>1, Returned
<1>3. Len(M) \in Nat /\ Range(M) = {M[i] : i \in 1..Len(M)}
  BY <1>1, <1>2, NormalizedIs
<1> QED  BY <1>1, <1>2, <1>3 DEF IsRootOf

\* A built proof has the shape that verify_inclusion_proof asks for.
LEMMA BuiltShape ==
    ASSUME NEW d, NEW items, IsRootOf(d, items), NEW s, BuiltFrom(d, s)
    PROVE  /\ ProofShapeOK(s)
           /\ s.leaf_index \in 0..(Len(d.members) - 1) /\ s.tree_size = Len(d.members)
           /\ s.member = d.members[s.leaf_index + 1] /\ s.audit_path = Path(s.leaf_index, d.members)
           /\ s.root.hash = Mth(d.members)
<1>1. PICK D, m : D = d.members /\ m \in 0..(Len(D) - 1)
                  /\ s = [member |-> D[m + 1], leaf_index |-> m, tree_size |-> Len(D),
                          audit_path |-> Path(m, D), root |-> d.root]
  BY DEF BuiltFrom
<1>2. /\ s.member = D[m + 1] /\ s.leaf_index = m /\ s.tree_size = Len(D)
      /\ s.audit_path = Path(m, D) /\ s.root = d.root
  BY <1>1
<1>3. Len(D) \in Nat /\ d.root.kid = d.key_id /\ d.root.hash = Mth(D) /\ D[m + 1].id.kid = d.key_id
  BY <1>1 DEF IsRootOf, RootOf
<1>4. Path(m, D) \in Seq(SubtreeHashes(D))
  BY <1>1, <1>3, PathIsHashes
<1>5. \A i \in DOMAIN s.audit_path : s.audit_path[i] # NotAHash
  <2> SUFFICES ASSUME NEW i \in DOMAIN s.audit_path PROVE s.audit_path[i] # NotAHash
    OBVIOUS
  <2>1. s.audit_path[i] \in SubtreeHashes(D)
    BY <1>2, <1>4
  <2> QED  BY <1>3, <2>1, SubtreeIsHash
<1>6. ProofShapeOK(s)
  BY <1>1, <1>2, <1>3, <1>5 DEF ProofShapeOK, KeyId
<1> QED  BY <1>1, <1>2, <1>3, <1>6

LEMMA FoundAtStart ==
    ASSUME NEW leaves, Len(leaves) \in Nat, NEW p, ProofShapeOK(p), NEW f,
           f = [r |-> LeafHash(p.member), path |-> p.audit_path,
                fn |-> p.leaf_index, sn |-> p.tree_size - 1]
    PROVE  FoldOK(leaves, p, f)
<1>1. f.r = LeafHash(p.member) /\ f.fn = p.leaf_index /\ f.sn = p.tree_size - 1
  OBVIOUS
<1>2. InTree(leaves, p.member, f)
  BY <1>1, InTreeStarts
<1>3. ASSUME p.tree_size = Len(leaves)
      PROVE  p.leaf_index \in 0..(Len(leaves) - 1) /\ AtIndex(leaves, p.leaf_index, p.member, f)
  <2>1. p.leaf_index \in 0..(Len(leaves) - 1)
    BY <1>3 DEF ProofShapeOK
  <2> QED  BY <1>1, <1>3, <2>1, FoldStarts
<1> QED  BY <1>2, <1>3 DEF FoldOK

LEMMA FoundAfterStep ==
    ASSUME NEW leaves, Len(leaves) \in Nat, NEW p, NEW f, FoldOK(leaves, p, f), f.sn # 0
    PROVE  FoldOK(leaves, p, Folded(f))
BY InTreeSteps, AtIndexSteps DEF FoldOK

LEMMA FoundAtBuild ==
    ASSUME NEW d, NEW p, NEW s, BuiltFrom(d, s)
    PROVE  Found(d, p, s, ABSENT, ABSENT)
<1>1. ABSENT # TRUE
  BY AbsentAssumption
<1> QED  BY <1>1 DEF Found

LEMMA StartFinds ==
    ASSUME NEW d, NEW items, IsRootOf(d, items), NEW p, NEW s, NEW f, NEW v, NEW g, NEW u,
           Found(d, p, s, f, v), f = ABSENT, v = ABSENT,
           IF ProofShapeOK(p)
           THEN /\ g = [r |-> LeafHash(p.member), path |-> p.audit_path,
                        fn |-> p.leaf_index, sn |-> p.tree_size - 1]
                /\ u = v
           ELSE u = FALSE /\ g = f
    PROVE  Found(d, p, s, g, u)
<1>1. BuiltFrom(d, s) /\ Len(d.members) \in Nat /\ ABSENT # TRUE /\ FALSE # ABSENT
  BY AbsentAssumption DEF Found, IsRootOf
<1>2. CASE ~ProofShapeOK(p)
  <2>1. p # s
    BY <1>1, <1>2, BuiltShape
  <2>2. u = FALSE /\ g = ABSENT
    BY <1>2
  <2> QED  BY <1>1, <2>1, <2>2 DEF Found
<1>3. CASE ProofShapeOK(p)
  <2>1. g = [r |-> LeafHash(p.member), path |-> p.audit_path,
             fn |-> p.leaf_index, sn |-> p.tree_size - 1] /\ u = ABSENT
    BY <1>3
  <2>2. FoldOK(d.members, p, g)
    BY <1>1, <1>3, <2>1, FoundAtStart
  <2>3. ASSUME p = s PROVE OnPath(d.members, p.leaf_index, g)
    <3>1. PICK D, m : D = d.members /\ m = p.leaf_index
      OBVIOUS
    <3>2. /\ m \in 0..(Len(D) - 1) /\ p.tree_size = Len(D)
          /\ p.member = D[m + 1] /\ p.audit_path = Path(m, D)
      BY <1>1, <2>3, <3>1, BuiltShape
    <3>3. /\ g.r = LeafHash(p.member) /\ g.fn = m /\ g.sn = Len(D) - 1
          /\ g.path = Path(m, D)
      BY <2>1, <3>1, <3>2
    <3> QED  BY <1>1, <3>1, <3>2, <3>3, FoldStarts
  <2> QED  BY <1>1, <2>1, <2>2, <2>3 DEF Found
<1> QED  BY <1>2, <1>3

LEMMA StepFinds ==
    ASSUME NEW d, NEW items, IsRootOf(d, items), NEW p, NEW s, NEW f, NEW v, NEW g, NEW u,
           Found(d, p, s, f, v), f # ABSENT, v = ABSENT, f.path # <<>>,
           IF f.sn = 0 THEN u = FALSE /\ g = f ELSE g = Folded(f) /\ u = v
    PROVE  Found(d, p, s, g, u)
<1>1. /\ BuiltFrom(d, s) /\ Len(d.members) \in Nat /\ ABSENT # TRUE /\ FALSE # ABSENT
      /\ FoldOK(d.members, p, f)
      /\ p = s => OnPath(d.members, p.leaf_index, f)
  BY AbsentAssumption DEF Found, IsRootOf
<1>2. ASSUME p = s PROVE f.sn # 0 /\ OnPath(d.members, p.leaf_index, Folded(f))
  <2>1. p.leaf_index \in 0..(Len(d.members) - 1)
    BY <1>1, <1>2, BuiltShape
  <2> QED  BY <1>1, <1>2, <2>1, OnPathSteps
<1>3. CASE f.sn = 0
  <2>1. u = FALSE /\ g = f /\ p # s
    BY <1>2, <1>3
  <2> QED  BY <1>1, <2>1 DEF Found
<1>4. CASE f.sn # 0
  <2>1. u = ABSENT /\ g = Folded(f)
    BY <1>4
  <2>2. FoldOK(d.members, p, g)
    BY <1>1, <1>4, <2>1, FoundAfterStep
  <2> QED  BY <1>1, <1>2, <2>1, <2>2 DEF Found
<1> QED  BY <1>3, <1>4

LEMMA EndFinds ==
    ASSUME NEW d, NEW items, IsRootOf(d, items), NEW p, NEW s, NEW f, NEW v,
           Found(d, p, s, f, v), f # ABSENT, v = ABSENT, f.path = <<>>
    PROVE  Found(d, p, s, f, f.sn = 0 /\ f.r = p.root.hash)
<1>1. /\ BuiltFrom(d, s) /\ Len(d.members) \in Nat /\ ABSENT # TRUE /\ ABSENT # FALSE
      /\ FoldOK(d.members, p, f)
      /\ p = s => OnPath(d.members, p.leaf_index, f)
  BY AbsentAssumption DEF Found, IsRootOf
<1>2. ASSUME p = s PROVE f.sn = 0 /\ f.r = p.root.hash
  <2>1. p.leaf_index \in 0..(Len(d.members) - 1) /\ p.root.hash = Mth(d.members)
    BY <1>1, <1>2, BuiltShape
  <2> QED  BY <1>1, <1>2, <2>1, OnPathSteps
<1>3. PICK u \in BOOLEAN : u = (f.sn = 0 /\ f.r = p.root.hash)
  OBVIOUS
<1>4. u = TRUE => f.sn = 0 /\ f.r = p.root.hash
  BY <1>3
<1>5. p = s => u = TRUE
  BY <1>2, <1>3
<1>6. Found(d, p, s, f, u)
  BY <1>1, <1>3, <1>4, <1>5 DEF Found
<1> QED  BY <1>3, <1>6

-----------------------------------------------------------------------------
(* The steps *)

LEMMA SameDataset ==
    ASSUME UNCHANGED vars
    PROVE  /\ results' = results /\ inputs' = inputs /\ current' = current
           /\ Has("dataset")' = Has("dataset")
BY DEF vars, Has

LEMMA BuildKeeps ==
    ASSUME CallsInv, BuildProof
    PROVE  ProofInv'
<1>1. PICK d, member : /\ d = results["dataset"] /\ member \in Range(d.members)
                       /\ BuildInclusionProof(d, member) /\ Has("dataset") /\ current \notin DOMAIN Names
  BY DEF BuildProof
<1>2. PICK D : D = d.members
  OBVIOUS
<1>3. PICK i \in DOMAIN D :
             sent' = [member |-> D[i], leaf_index |-> i - 1, tree_size |-> Len(D),
                      audit_path |-> Path(i - 1, D), root |-> d.root]
  BY <1>1, <1>2 DEF BuildInclusionProof
<1>4. Len(D) \in Nat /\ DOMAIN D = 1..Len(D)
  <2>1. IsRootOf(d, inputs["dataset"].items)
    BY <1>1, DatasetIs
  <2>2. Proper(D)
    BY <1>2, <2>1, NormalizedIs DEF IsRootOf
  <2> QED  BY <2>2 DEF Proper
<1>5. BuiltFrom(d, sent')
  <2>1. PICK m : m = i - 1
    OBVIOUS
  <2>2. m \in 0..(Len(D) - 1) /\ m + 1 = i
    BY <1>4, <2>1
  <2>3. sent' = [member |-> D[m + 1], leaf_index |-> m, tree_size |-> Len(D),
                 audit_path |-> Path(m, D), root |-> d.root]
    BY <1>3, <2>1, <2>2
  <2> QED  BY <1>2, <2>2, <2>3 DEF BuiltFrom
<1>6. fold' = ABSENT /\ verdict' = ABSENT
  BY <1>1 DEF BuildInclusionProof, NoProof
<1>7. Found(d, proof', sent', fold', verdict')
  BY <1>5, <1>6, FoundAtBuild
<1>8. results' = results /\ current' = current /\ Has("dataset")'
  BY <1>1, SameDataset DEF BuildProof
<1> QED  BY <1>1, <1>6, <1>7, <1>8 DEF ProofInv

LEMMA VerifyKeeps ==
    ASSUME CallsInv, ProofInv, VerifyProof
    PROVE  ProofInv'
<1>1. PICK d : d = results["dataset"]
  OBVIOUS
<1>2. proof # ABSENT
  BY DEF ProofInv, VerifyProof, Verification, StartVerification, FoldStep, FoldEnd
<1>3. /\ current \notin DOMAIN Names /\ Has("dataset")
      /\ Found(d, proof, sent, fold, verdict)
  BY <1>1, <1>2 DEF ProofInv
<1>4. IsRootOf(d, inputs["dataset"].items)
  BY <1>1, <1>3, DatasetIs
<1>5. proof' = proof /\ sent' = sent
  BY DEF VerifyProof, Verification, StartVerification, FoldStep, FoldEnd
<1>6. Found(d, proof, sent, fold', verdict')
  <2>1. CASE StartVerification
    BY <1>3, <1>4, <2>1, StartFinds DEF StartVerification
  <2>2. CASE FoldStep
    BY <1>3, <1>4, <2>2, StepFinds DEF FoldStep
  <2>3. CASE FoldEnd
    BY <1>3, <1>4, <2>3, EndFinds DEF FoldEnd
  <2> QED  BY <2>1, <2>2, <2>3 DEF VerifyProof, Verification
<1>7. results' = results /\ current' = current /\ Has("dataset")'
  BY <1>3, SameDataset DEF VerifyProof
<1> QED  BY <1>1, <1>2, <1>3, <1>5, <1>6, <1>7 DEF ProofInv

LEMMA ProofInvStep ==
    ASSUME CallsInv, ProofInv, [IdentityNext]_allVars
    PROVE  ProofInv'
<1>1. CASE Compute
  <2>1. current \in DOMAIN Names
    BY <1>1 DEF Compute, Next, CoerceMembers, Normalize, ComputeRoot
  <2>2. proof = ABSENT /\ proof' = proof /\ fold' = fold /\ verdict' = verdict
    BY <1>1, <2>1 DEF ProofInv, Compute, proofVars
  <2> QED  BY <2>2 DEF ProofInv
<1>2. CASE UNCHANGED allVars
  <2>1. proof' = proof /\ sent' = sent /\ fold' = fold /\ verdict' = verdict /\ UNCHANGED vars
    BY <1>2 DEF allVars, proofVars
  <2>2. results' = results /\ current' = current /\ Has("dataset")' = Has("dataset")
    BY <2>1, SameDataset
  <2> QED  BY <2>1, <2>2 DEF ProofInv
<1> QED  BY <1>1, <1>2, BuildKeeps, VerifyKeeps DEF IdentityNext

-----------------------------------------------------------------------------
(* What a verdict says *)

LEMMA AcceptedTells ==
    ASSUME CallsInv, ProofInv, UnderDatasetRoot,
           NEW items, items = inputs["dataset"].items
    PROVE  \E D : /\ D = MembersOf(TotalsIn(items)) /\ Proper(items) /\ Len(D) \in Nat \ {0}
                  /\ FoldOK(D, proof, fold) /\ fold.r = Mth(D) /\ fold.sn = 0
<1>1. PICK d : d = results["dataset"]
  OBVIOUS
<1>2. verdict = TRUE /\ proof.root = d.root /\ proof # ABSENT
  BY <1>1, AbsentAssumption DEF UnderDatasetRoot, ProofInv
<1>3. Has("dataset") /\ Found(d, proof, sent, fold, verdict)
  BY <1>1, <1>2 DEF ProofInv
<1>4. IsRootOf(d, items)
  BY <1>1, <1>3, DatasetIs
<1>5. FoldOK(d.members, proof, fold) /\ fold.r = proof.root.hash /\ fold.sn = 0
  BY <1>2, <1>3 DEF Found
<1>6. proof.root.hash = Mth(d.members)
  BY <1>2, <1>4 DEF IsRootOf, RootOf
<1>7. Len(d.members) \in Nat \ {0}
  BY <1>3, <1>4 DEF Found, BuiltFrom, IsRootOf
<1> QED  BY <1>4, <1>5, <1>6, <1>7 DEF IsRootOf

LEMMA MembershipTells ==
    ASSUME CallsInv, ProofInv
    PROVE  AcceptedIsInDataset
<1> SUFFICES ASSUME UnderDatasetRoot
             PROVE  /\ proof.member.count > 0
                    /\ Occurrences("dataset", Pair(proof.member)) = proof.member.count
  BY DEF AcceptedIsInDataset
<1>1. PICK items : items = inputs["dataset"].items
  OBVIOUS
<1>2. PICK D : /\ D = MembersOf(TotalsIn(items)) /\ Proper(items) /\ Len(D) \in Nat \ {0}
               /\ FoldOK(D, proof, fold) /\ fold.r = Mth(D)
  BY <1>1, AcceptedTells
<1>3. InTree(D, proof.member, fold)
  BY <1>2 DEF FoldOK
<1>4. fold.r \in SubtreeHashes(D)
  <2>1. D # <<>> /\ Len(D) \in Nat /\ Len(D) > 0
    BY <1>2
  <2>2. PICK zero : zero = 0
    OBVIOUS
  <2>3. zero \in 0..Len(D) /\ Len(D) \in 0..Len(D) /\ zero < Len(D)
    BY <2>1, <2>2
  <2>4. Mth(D) = SubtreeHash(D, zero, Len(D))
    BY <2>1, <2>2 DEF Mth
  <2> QED  BY <1>2, <2>3, <2>4, SubtreeHashesHas
<1>5. PICK i \in 1..Len(D) : LeafData(D[i]) = LeafData(proof.member)
  BY <1>3, <1>4 DEF InTree
<1>6. D[i] \in Member /\ D[i].count = Counted(items, {Pair(D[i])}) /\ D[i].count >= 1
  BY <1>2, NormalizedIs
<1>7. D[i].count > 0
  BY <1>6 DEF Member
<1>8. D[i].count = proof.member.count /\ Pair(D[i]) = Pair(proof.member)
  BY <1>5 DEF LeafData, Pair
<1> QED  BY <1>1, <1>6, <1>7, <1>8 DEF Occurrences

LEMMA IndexTells ==
    ASSUME CallsInv, ProofInv
    PROVE  AcceptedAtIndex
<1> SUFFICES ASSUME UnderDatasetRoot,
                    proof.tree_size = Cardinality({Pair(m) : m \in Items("dataset")})
             PROVE  proof.leaf_index =
                      Cardinality({Pair(m) : m \in {x \in Items("dataset") : Before(x, proof.member)}})
  BY DEF AcceptedAtIndex
<1>1. PICK items : items = inputs["dataset"].items
  OBVIOUS
<1>2. PICK D : /\ D = MembersOf(TotalsIn(items)) /\ Proper(items) /\ Len(D) \in Nat \ {0}
               /\ FoldOK(D, proof, fold) /\ fold.r = Mth(D) /\ fold.sn = 0
  BY <1>1, AcceptedTells
<1>3. PICK m : m = proof.leaf_index
  OBVIOUS
<1>4. m \in 0..(Len(D) - 1) /\ AtIndex(D, m, proof.member, fold)
  <2>1. Len(D) = Cardinality(Pairs(items))
    BY <1>2, NormalizedIs
  <2>2. proof.tree_size = Len(D)
    BY <1>1, <2>1 DEF Items, Pairs
  <2> QED  BY <1>2, <1>3, <2>2 DEF FoldOK
<1>5. PICK w : /\ AtLevel(m, D, w, fold.fn, fold.sn)
               /\ fold.r = NodeAt(D, w, fold.fn) => LeafData(D[m + 1]) = LeafData(proof.member)
  BY <1>4 DEF AtIndex
<1>6. LeafData(D[m + 1]) = LeafData(proof.member)
  <2>1. Len(D) \in Nat /\ AtLevel(m, D, w, fold.fn, 0)
    BY <1>2, <1>5
  <2>2. NodeAt(D, w, fold.fn) = Mth(D)
    BY <1>4, <2>1, TopLevel
  <2> QED  BY <1>2, <1>5, <2>2
<1>7. PICK i : i = m + 1
  OBVIOUS
<1>8. i \in 1..Len(D) /\ m = i - 1
  BY <1>2, <1>4, <1>7
<1>9. Cardinality({Pair(x) : x \in {y \in Range(items) : Before(y, D[i])}}) = m
  BY <1>2, <1>8, NormalizedIs
<1>10. Pair(D[i]) = Pair(proof.member)
  BY <1>6, <1>7 DEF LeafData, Pair
<1>11. {y \in Range(items) : Before(y, D[i])} = {y \in Range(items) : Before(y, proof.member)}
  BY <1>10, BeforeOfPair
<1> QED  BY <1>1, <1>3, <1>9, <1>11 DEF Items

-----------------------------------------------------------------------------
(* The theorems *)

\* In every state of compute_multiset_root, build_inclusion_proof and
\* verify_inclusion_proof: what the calls have counted and returned is what
\* their items say, and what the fold and the verdict have found holds.
THEOREM IdentityInvariant == Spec => [](CallsInv /\ ProofInv)
<1>1. IdentityInit => CallsInv /\ ProofInv
  BY CallsInvInit DEF IdentityInit, NoProof, ProofInv
<1>2. CallsInv /\ ProofInv /\ [IdentityNext]_allVars => (CallsInv /\ ProofInv)'
  BY CallsInvStep, ProofInvStep
<1> QED  BY <1>1, <1>2, PTL DEF Spec

\* Two calls of compute_multiset_root return the same root exactly when they
\* were given the same multiset under the same key, whatever the order of the
\* items and the split of the counts.
THEOREM SameRootAlways == Spec => []SameRootIffSameBag
<1>1. CallsInv /\ ProofInv => SameRootIffSameBag
  BY RootsTell
<1> QED  BY <1>1, IdentityInvariant, PTL

\* compute_multiset_root refuses exactly what is improper, whatever the order
\* in which it meets the items.
THEOREM RefusedAlways == Spec => []RefusedIffImproper
<1>1. CallsInv /\ ProofInv => RefusedIffImproper
  BY RefusalsTell
<1> QED  BY <1>1, IdentityInvariant, PTL

\* is_sub_multiset and example_id_overlap, which see normalized members, hold
\* of the items that were given.
THEOREM RelationsAlways == Spec => []RelationsHoldOfItems
<1>1. CallsInv /\ ProofInv => RelationsHoldOfItems
  BY RelationsTell
<1> QED  BY <1>1, IdentityInvariant, PTL

\* verify_inclusion_proof accepts what build_inclusion_proof built, for a tree
\* of every size and shape.
THEOREM BuiltVerifiesAlways == Spec => []BuiltProofVerifies
<1>1. CallsInv /\ ProofInv => BuiltProofVerifies
  BY DEF ProofInv, Found, BuiltProofVerifies
<1> QED  BY <1>1, IdentityInvariant, PTL

\* What verify_inclusion_proof accepts under the root of a dataset is one of
\* its inputs, with its true multiplicity, whatever proof arrives.
THEOREM AcceptedIsIn == Spec => []AcceptedIsInDataset
<1>1. CallsInv /\ ProofInv => AcceptedIsInDataset
  BY MembershipTells
<1> QED  BY <1>1, IdentityInvariant, PTL

\* Where the size of the tree is the true one, the index of an accepted proof
\* is the true place of the member, whatever path arrives.
THEOREM AcceptedIsAtIndex == Spec => []AcceptedAtIndex
<1>1. CallsInv /\ ProofInv => AcceptedAtIndex
  BY IndexTells
<1> QED  BY <1>1, IdentityInvariant, PTL
=============================================================================
