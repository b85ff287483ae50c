---------------------------- MODULE DecisionsProofs ----------------------------
(* Proofs about the rules of Decisions, for any sizes and any question of the  *)
(* types Decisions assumes: what the daemon runs beside itself; which entry of *)
(* the watch list stands for a merge request, which worker is woken for it and *)
(* what the memory is told of it.  They rest on lemmas on folds over sequences:*)
(* what a loop keeps, and what it puts together.  WebTermProofs has the rules  *)
(* of the terminal and the forges, WorkersProofs those of the calendar and the *)
(* workers, MemoryPipelineProofs those of the memory, which rest on the lemmas *)
(* on clusterings and staged rows at the end.                                  *)
EXTENDS Decisions, FiniteSetTheorems, SequenceTheorems, WellFoundedInduction, TLAPS

-----------------------------------------------------------------------------
(* Sets of numbers, and folds over sequences.                                  *)

LEMMA LeastMember ==
    ASSUME NEW S \in SUBSET Nat, S # {}
    PROVE  \E e \in S : \A f \in S : e <= f
<1> DEFINE Less == {ss \in Nat \X Nat : ss[1] < ss[2]}
<1>1. IsWellFoundedOn(Less, Nat)
  BY NatLessThanWellFounded DEF OpToRel
<1>2. PICK e \in S : \A f \in S : ~(<<f, e>> \in Less)
  BY <1>1, WFMin
<1>3. ASSUME NEW f \in S PROVE e <= f
  <2>1. e \in Nat /\ f \in Nat /\ ~(<<f, e>> \in Less)
    BY <1>2
  <2>2. ASSUME f < e PROVE FALSE
    <3>1. <<f, e>> \in Nat \X Nat /\ <<f, e>>[1] < <<f, e>>[2]
      BY <2>1, <2>2
    <3> QED BY <2>1, <3>1
  <2> QED BY <2>1, <2>2
<1> QED BY <1>3

(* A set of indices has a greatest, which Max picks.                           *)
LEMMA GreatestIndex ==
    ASSUME NEW n \in Nat, NEW s \in SUBSET (1..n), s # {}
    PROVE  Max(s) \in s /\ \A i \in s : i <= Max(s)
<1> DEFINE Bounds == {k \in Nat : \A i \in s : i <= k}
<1>1. n \in Bounds
  OBVIOUS
<1>2. PICK k \in Bounds : \A f \in Bounds : k <= f
  <2> HIDE DEF Bounds
  <2> QED BY <1>1, LeastMember DEF Bounds
<1>3. k \in s
  <2> SUFFICES ASSUME k \notin s PROVE FALSE
    OBVIOUS
  <2>1. \A i \in s : i \in Nat /\ i >= 1 /\ i < k
    OBVIOUS
  <2>2. k >= 1
    <3>1. PICK i \in s : TRUE
      OBVIOUS
    <3>2. k \in Nat /\ i \in Nat /\ i >= 1 /\ i < k
      BY <2>1
    <3> QED BY <3>2
  <2>3. k - 1 \in Bounds
    BY <2>1, <2>2
  <2> QED BY <1>2, <2>3
<1>4. \E x \in s : \A y \in s : x >= y
  BY <1>2, <1>3
<1> QED BY <1>4 DEF Max

(* What FoldLeft computes its result with: a function on the sets of indices,  *)
(* whose value at a set is the step from its value without the last of them.   *)
IsFold(it, S, n, G, b) ==
    /\ it \in [SUBSET (1..n) -> S]
    /\ it[{}] = b
    /\ \A s \in (SUBSET (1..n)) \ {{}} : it[s] = G[<<it[s \ {Max(s)}], Max(s)>>]

LEMMA OneOrNone ==
    ASSUME NEW S, \A x, y \in S : x = y
    PROVE  IsFiniteSet(S) /\ Cardinality(S) <= 1
<1>1. CASE S = {}
  BY <1>1, FS_EmptySet
<1>2. CASE S # {}
  <2>1. PICK x \in S : S = {x}
    BY <1>2
  <2> QED BY <2>1, FS_Singleton, 1 <= 1
<1> QED BY <1>1, <1>2

LEMMA FoldExists ==
    ASSUME NEW S, NEW n \in Nat, NEW G \in [S \X (1..n) -> S], NEW b \in S
    PROVE  \E it : IsFold(it, S, n, G, b)
<1> DEFINE Is(it, k) ==
        /\ it[{}] = b
        /\ \A s \in (SUBSET (1..k)) \ {{}} : it[s] = G[<<it[s \ {Max(s)}], Max(s)>>]
           Without == {k \in 0..n : ~\E it \in [SUBSET (1..k) -> S] : Is(it, k)}
<1>1. \E it \in [SUBSET (1..0) -> S] : Is(it, 0)
  <2>1. SUBSET (1..0) = {{}}
    OBVIOUS
  <2> WITNESS [s \in SUBSET (1..0) |-> b] \in [SUBSET (1..0) -> S]
  <2> QED BY <2>1
<1>2. ASSUME NEW k \in 0..(n - 1), NEW it \in [SUBSET (1..k) -> S], Is(it, k)
      PROVE  \E g \in [SUBSET (1..(k + 1)) -> S] : Is(g, k + 1)
  <2> DEFINE g == [s \in SUBSET (1..(k + 1)) |->
                        IF s = {} THEN b ELSE G[<<it[s \ {Max(s)}], Max(s)>>]]
  <2>1. ASSUME NEW s \in SUBSET (1..(k + 1)), s # {}
        PROVE  Max(s) \in 1..n /\ s \ {Max(s)} \in SUBSET (1..k)
    <3>1. k + 1 \in Nat
      OBVIOUS
    <3>2. Max(s) \in s /\ \A i \in s : i <= Max(s)
      BY <2>1, <3>1, GreatestIndex
    <3>3. \A m \in 1..(k + 1) : m \in 1..n
      OBVIOUS
    <3>4. Max(s) \in 1..(k + 1) /\ Max(s) \in 1..n
      BY <3>2, <3>3
    <3>5. \A i \in s \ {Max(s)} : i \in 1..k
      BY <3>2, <3>4
    <3> QED BY <3>4, <3>5
  <2>2. ASSUME NEW s \in SUBSET (1..k) PROVE g[s] = it[s]
    <3>1. s \in SUBSET (1..(k + 1))
      OBVIOUS
    <3>2. it[s] = IF s = {} THEN b ELSE G[<<it[s \ {Max(s)}], Max(s)>>]
      BY <1>2
    <3> QED BY <3>1, <3>2
  <2>3. g \in [SUBSET (1..(k + 1)) -> S]
    <3> SUFFICES ASSUME NEW s \in SUBSET (1..(k + 1)), s # {}
                 PROVE  G[<<it[s \ {Max(s)}], Max(s)>>] \in S
      OBVIOUS
    <3>1. Max(s) \in 1..n /\ it[s \ {Max(s)}] \in S
      BY <2>1
    <3> QED BY <3>1
  <2>4. ASSUME NEW s \in (SUBSET (1..(k + 1))) \ {{}}
        PROVE  g[s] = G[<<g[s \ {Max(s)}], Max(s)>>]
    <3>1. g[s] = G[<<it[s \ {Max(s)}], Max(s)>>]
      OBVIOUS
    <3>2. it[s \ {Max(s)}] = g[s \ {Max(s)}]
      <4> HIDE DEF g
      <4> QED BY <2>1, <2>2
    <3> QED BY <3>1, <3>2
  <2>5. g[{}] = b
    OBVIOUS
  <2> HIDE DEF g
  <2> QED BY <2>3, <2>4, <2>5
<1>3. Without = {}
  <2> SUFFICES ASSUME Without # {} PROVE FALSE
    OBVIOUS
  <2>1. PICK k \in Without : \A f \in Without : k <= f
    <3>1. Without \in SUBSET Nat
      OBVIOUS
    <3> HIDE DEF Without
    <3> QED BY <3>1, LeastMember
  <2>2. k # 0
    BY <1>1
  <2>3. k \in 1..n
    BY <2>2
  <2>4. k - 1 \in 0..(n - 1) /\ k - 1 \in 0..n /\ (k - 1) + 1 = k
    BY <2>3
  <2>5. k - 1 \notin Without
    <3> HIDE DEF Without
    <3> QED BY <2>1, <2>4
  <2>6. PICK it \in [SUBSET (1..(k - 1)) -> S] : Is(it, k - 1)
    <3> HIDE DEF Is
    <3> QED BY <2>4, <2>5
  <2>7. \E g \in [SUBSET (1..((k - 1) + 1)) -> S] : Is(g, (k - 1) + 1)
    <3> HIDE DEF Is
    <3> QED BY <2>4, <2>6, <1>2
  <2> HIDE DEF Is
  <2> QED BY <2>4, <2>7
<1>4. PICK it \in [SUBSET (1..n) -> S] : Is(it, n)
  <2>1. n \in 0..n
    OBVIOUS
  <2> HIDE DEF Is
  <2> QED BY <1>3, <2>1
<1> QED BY <1>4 DEF IsFold

(* The sets 1..k are those a fold passes through.                              *)
LEMMA FoldPasses ==
    ASSUME NEW n \in Nat, NEW k \in 1..n
    PROVE  /\ 1..k \in SUBSET (1..n) /\ 1..k # {}
           /\ Max(1..k) = k /\ (1..k) \ {Max(1..k)} = 1..(k - 1)
<1>1. 1..k \in SUBSET (1..n) /\ 1..k # {} /\ k \in 1..k
  OBVIOUS
<1>2. Max(1..k) = k
  <2> HIDE DEF Max
  <2>1. Max(1..k) \in 1..k /\ \A i \in 1..k : i <= Max(1..k)
    BY <1>1, GreatestIndex
  <2> QED BY <1>1, <2>1
<1> QED BY <1>1, <1>2

(* Induction up to a bound, over the set of the numbers it holds for.          *)
LEMMA UpToBound ==
    ASSUME NEW n \in Nat, NEW P, 0 \in P, \A k \in 1..n : k - 1 \in P => k \in P
    PROVE  \A k \in 0..n : k \in P
<1> DEFINE Without == {k \in 0..n : k \notin P}
<1>1. Without \in SUBSET Nat
  OBVIOUS
<1>2. ASSUME NEW k \in Without, \A f \in Without : k <= f PROVE FALSE
  <2>1. k \in 1..n
    OBVIOUS
  <2>2. k - 1 \in 0..n /\ ~(k <= k - 1)
    BY <2>1
  <2>3. k - 1 \in P
    BY <1>2, <2>2
  <2> QED BY <2>1, <2>3
<1>3. Without = {}
  <2> HIDE DEF Without
  <2> QED BY <1>1, <1>2, LeastMember
<1> QED BY <1>3

LEMMA FoldStays ==
    ASSUME NEW n \in Nat, NEW T, NEW it, it[{}] \in T[0],
           \A k \in 1..n : it[1..(k - 1)] \in T[k - 1] => it[1..k] \in T[k]
    PROVE  it[1..n] \in T[n]
<1> DEFINE P == {k \in 0..n : it[1..k] \in T[k]}
<1>1. 0 \in P
  <2>1. 1..0 = {} /\ 0 \in 0..n
    OBVIOUS
  <2> QED BY <2>1
<1>2. ASSUME NEW k \in 1..n, k - 1 \in P PROVE k \in P
  BY <1>2
<1>3. \A k \in 0..n : k \in P
  <2> HIDE DEF P
  <2> QED BY <1>1, <1>2, UpToBound
<1> QED BY <1>3

-----------------------------------------------------------------------------
(* Part of a list, in its order, and lists put together.                       *)

(* The instances of Decisions have operators of their own, which are the same. *)
LEMMA SameMaxTrack == \A s : Track!Max(s) = Max(s)
BY DEF Track!Max, Max

LEMMA SameMaxHost == \A s : Host!Max(s) = Max(s)
BY DEF Host!Max, Max

LEMMA SameMaxMemory == \A s : Memory!Max(s) = Max(s)
BY DEF Memory!Max, Max

LEMMA SameToSet == \A s : Track!ToSet(s) = ToSet(s)
BY DEF Track!ToSet, ToSet

LEMMA SameToSetHost == \A s : Host!ToSet(s) = ToSet(s)
BY DEF Host!ToSet, ToSet

LEMMA SameCardinalityHost == \A s : Host!Cardinality(s) = Cardinality(s)
BY DEF Host!Cardinality, Cardinality

LEMMA SameToSetMemory == \A s : Memory!ToSet(s) = ToSet(s)
BY DEF Memory!ToSet, ToSet

LEMMA NothingIn == ToSet(<<>>) = {}
BY EmptySeq DEF ToSet

(* The entries of a, one after the other, are those of s[1..k] that are in keep*)
(* and f says where.                                                           *)
Picks(s, k, keep, a, f) ==
    /\ f \in [1..Len(a) -> 1..k]
    /\ \A i, j \in 1..Len(a) : i < j => f[i] < f[j]
    /\ \A j \in 1..Len(a) : a[j] = s[f[j]] /\ s[f[j]] \in keep
    /\ \A i \in 1..k : s[i] \in keep => \E j \in 1..Len(a) : f[j] = i

LEMMA PicksNext ==
    ASSUME NEW V, NEW s \in Seq(V), NEW k \in 1..Len(s), NEW keep,
           NEW r \in Seq(V), NEW f, Picks(s, k - 1, keep, r, f)
    PROVE  \E g : Picks(s, k, keep, IF s[k] \in keep THEN Append(r, s[k]) ELSE r, g)
<1>1. Len(s) \in Nat /\ Len(r) \in Nat /\ DOMAIN r = 1..Len(r) /\ s[k] \in V /\ k \in Nat /\ k >= 1
  BY LenProperties, ElementOfSeq
<1>0. /\ f \in [1..Len(r) -> 1..(k - 1)]
      /\ \A i, j \in 1..Len(r) : i < j => f[i] < f[j]
      /\ \A j \in 1..Len(r) : r[j] = s[f[j]] /\ s[f[j]] \in keep
      /\ \A i \in 1..(k - 1) : s[i] \in keep => \E j \in 1..Len(r) : f[j] = i
  BY DEF Picks
<1>2. CASE s[k] \notin keep
  <2>1. f \in [1..Len(r) -> 1..k]
    BY <1>0, <1>1
  <2>2. ASSUME NEW i \in 1..k, s[i] \in keep PROVE \E j \in 1..Len(r) : f[j] = i
    <3>1. i \in 1..(k - 1)
      BY <1>1, <1>2, <2>2
    <3> QED BY <1>0, <2>2, <3>1
  <2>3. Picks(s, k, keep, r, f)
    BY <1>0, <2>1, <2>2 DEF Picks
  <2> QED BY <1>2, <2>3
<1>3. CASE s[k] \in keep
  <2> DEFINE n == Len(r)
             a == Append(r, s[k])
             g == [j \in 1..(n + 1) |-> IF j <= n THEN f[j] ELSE k]
  <2>1. Len(a) = n + 1 /\ a[n + 1] = s[k] /\ \A j \in 1..n : a[j] = r[j]
    BY <1>1, AppendProperties
  <2>2. n \in Nat
    BY <1>1
  <2> HIDE DEF a, n
  <2>3. \A j \in 1..n : j \in 1..(n + 1) /\ g[j] = f[j] /\ f[j] \in 1..(k - 1) /\ f[j] \in 1..k /\ f[j] < k
    BY <1>0, <1>1, <2>2 DEF n
  <2>4. n + 1 \in 1..(n + 1) /\ g[n + 1] = k /\ k \in 1..k
    BY <1>1, <2>2
  <2>5. \A j \in 1..(n + 1) : j \in 1..n \/ j = n + 1
    BY <2>2
  <2>6. g \in [1..(n + 1) -> 1..k]
    <3>1. \A j \in 1..(n + 1) : g[j] \in 1..k
      BY <2>3, <2>4, <2>5
    <3> QED BY <3>1
  <2> HIDE DEF g
  <2>7. \A i, j \in 1..(n + 1) : i < j => g[i] < g[j]
    <3> SUFFICES ASSUME NEW i \in 1..(n + 1), NEW j \in 1..(n + 1), i < j PROVE g[i] < g[j]
      OBVIOUS
    <3>1. i \in 1..n
      BY <2>2
    <3> QED BY <1>0, <2>3, <2>4, <2>5, <3>1 DEF n
  <2>8. \A j \in 1..(n + 1) : a[j] = s[g[j]] /\ s[g[j]] \in keep
    BY <1>0, <1>3, <2>1, <2>3, <2>4, <2>5 DEF n
  <2>9. ASSUME NEW i \in 1..k, s[i] \in keep PROVE \E j \in 1..(n + 1) : g[j] = i
    <3>1. CASE i = k
      BY <2>4, <3>1
    <3>2. CASE i # k
      <4>1. i \in 1..(k - 1)
        BY <1>1, <3>2
      <4>2. PICK j \in 1..n : f[j] = i
        BY <1>0, <2>9, <4>1 DEF n
      <4> QED BY <2>3, <4>2
    <3> QED BY <3>1, <3>2
  <2>10. Picks(s, k, keep, a, g)
    BY <2>1, <2>6, <2>7, <2>8, <2>9 DEF Picks
  <2> QED BY <1>3, <2>10 DEF a
<1> QED BY <1>2, <1>3

(* What a loop that keeps some entries has after the first k.                  *)
Gathers(s, n, keep, got) ==
    /\ got[0] = <<>>
    /\ \A k \in 1..n : got[k] = IF s[k] \in keep THEN Append(got[k - 1], s[k]) ELSE got[k - 1]

LEMMA AmongGathers ==
    ASSUME NEW V, NEW s \in Seq(V), NEW keep
    PROVE  /\ Track!Among(s, keep) = Among(s, keep) /\ Host!Among(s, keep) = Among(s, keep)
           /\ Memory!Among(s, keep) = Among(s, keep)
           /\ \E got \in [0..Len(s) -> Seq(V)] : Gathers(s, Len(s), keep, got) /\ Among(s, keep) = got[Len(s)]
<1> DEFINE S == Seq(V)
           n == Len(s)
           b == <<>>
           Take(got, x) == IF x \in keep THEN Append(got, x) ELSE got
           G == [p \in S \X (1..n) |-> Take(p[1], s[p[2]])]
           Is(it) == it = [u \in SUBSET (1..n) |->
                        IF u = {} THEN b ELSE Take(it[u \ {Max(u)}], s[Max(u)])]
<1>1. n \in Nat /\ DOMAIN s = 1..n /\ \A i \in 1..n : s[i] \in V
  BY LenProperties, ElementOfSeq
<1>2. b \in S
  BY EmptySeq
<1>3. ASSUME NEW r \in S, NEW x \in V
      PROVE  Take(r, x) \in S
  BY AppendProperties
<1> HIDE DEF Take, S, b
<1>4. G \in [S \X (1..n) -> S]
  BY <1>1, <1>3
<1>5. PICK it : IsFold(it, S, n, G, b)
  <2> HIDE DEF G, n
  <2> QED BY <1>1, <1>2, <1>4, FoldExists
<1>6. Is(it)
  <2>1. ASSUME NEW u \in (SUBSET (1..n)) \ {{}}
        PROVE  it[u] = Take(it[u \ {Max(u)}], s[Max(u)])
    <3>1. Max(u) \in 1..n
      BY <1>1, GreatestIndex
    <3>2. it[u \ {Max(u)}] \in S
      BY <1>5 DEF IsFold
    <3>3. it[u] = G[<<it[u \ {Max(u)}], Max(u)>>]
      BY <1>5 DEF IsFold
    <3> QED BY <3>1, <3>2, <3>3
  <2> HIDE DEF G, n
  <2> QED BY <1>5, <2>1 DEF IsFold
<1> DEFINE it2 == CHOOSE h : Is(h)
<1>7. Is(it2)
  <2> HIDE DEF Is
  <2> QED BY <1>6
<1>8. /\ Among(s, keep) = it2[1..n]
      /\ Track!Among(s, keep) = it2[1..n]
      /\ Host!Among(s, keep) = it2[1..n]
      /\ Memory!Among(s, keep) = it2[1..n]
  <2>1. Among(s, keep) = it2[1..n]
    BY <1>1 DEF Among, FoldLeft, MapThenFoldSet, Take, b
  <2>2. Track!Among(s, keep) = it2[1..n]
    BY <1>1, SameMaxTrack DEF Track!Among, Track!FoldLeft, Track!MapThenFoldSet, Take, b
  <2>3. Host!Among(s, keep) = it2[1..n]
    BY <1>1, SameMaxHost DEF Host!Among, Host!FoldLeft, Host!MapThenFoldSet, Take, b
  <2>4. Memory!Among(s, keep) = it2[1..n]
    BY <1>1, SameMaxMemory DEF Memory!Among, Memory!FoldLeft, Memory!MapThenFoldSet, Take, b
  <2> QED BY <2>1, <2>2, <2>3, <2>4
<1>9. it2[{}] = b /\ \A k \in 1..n : it2[1..k] = Take(it2[1..(k - 1)], s[k])
  <2>1. {} \in SUBSET (1..n)
    OBVIOUS
  <2>2. \A k \in 1..n : /\ 1..k \in SUBSET (1..n) /\ 1..k # {}
           /\ Max(1..k) = k /\ (1..k) \ {Max(1..k)} = 1..(k - 1)
    BY <1>1, FoldPasses
  <2> HIDE DEF it2
  <2> QED BY <1>7, <2>1, <2>2
<1> HIDE DEF it2
<1> DEFINE got == [k \in 0..n |-> it2[1..k]]
<1>10. got[0] = b /\ \A k \in 1..n : got[k] = Take(got[k - 1], s[k])
  <2>1. 1..0 = {} /\ 0 \in 0..n /\ \A k \in 1..n : k \in 0..n /\ k - 1 \in 0..n
    BY <1>1
  <2> HIDE DEF n
  <2> QED BY <1>9, <2>1
<1>11. got = [k \in 0..n |-> got[k]]
  OBVIOUS
<1>12. got[n] = it2[1..n]
  <2>1. n \in 0..n
    BY <1>1
  <2> QED BY <2>1
<1> HIDE DEF got
<1>13. \A k \in 0..n : got[k] \in S
  <2> DEFINE P == {k \in 0..n : got[k] \in S}
  <2>1. 0 \in P
    BY <1>1, <1>2, <1>10
  <2>2. \A k \in 1..n : k - 1 \in P => k \in P
    <3> SUFFICES ASSUME NEW k \in 1..n, k - 1 \in P PROVE k \in P
      OBVIOUS
    <3>1. got[k - 1] \in S /\ s[k] \in V /\ k \in 0..n
      BY <1>1
    <3> QED BY <1>3, <1>10, <3>1
  <2>3. \A k \in 0..n : k \in P
    <3> HIDE DEF P, n
    <3> QED BY <1>1, <2>1, <2>2, UpToBound
  <2> QED BY <2>3
<1>14. got \in [0..n -> S]
  BY <1>11, <1>13
<1>15. Gathers(s, n, keep, got)
  BY <1>10 DEF Gathers, Take, b
<1> QED BY <1>8, <1>12, <1>14, <1>15 DEF S

LEMMA AmongPicks ==
    ASSUME NEW V, NEW s \in Seq(V), NEW keep
    PROVE  LET a == Among(s, keep) IN
           /\ a \in Seq(V)
           /\ Track!Among(s, keep) = a /\ Host!Among(s, keep) = a /\ Memory!Among(s, keep) = a
           /\ \E f : Picks(s, Len(s), keep, a, f)
<1> DEFINE n == Len(s)
<1>1. n \in Nat
  BY LenProperties
<1>2. PICK got \in [0..n -> Seq(V)] : Gathers(s, n, keep, got) /\ Among(s, keep) = got[n]
  BY AmongGathers
<1> DEFINE P == {k \in 0..n : \E f : Picks(s, k, keep, got[k], f)}
<1>3. 0 \in P
  <2>1. got[0] = <<>> /\ 0 \in 0..n
    BY <1>1, <1>2 DEF Gathers
  <2>2. Picks(s, 0, keep, <<>>, [j \in 1..0 |-> 1])
    <3>1. Len(<<>>) = 0
      BY EmptySeq
    <3> QED BY <3>1 DEF Picks
  <2> HIDE DEF n
  <2> QED BY <2>1, <2>2
<1>4. \A k \in 1..n : k - 1 \in P => k \in P
  <2> SUFFICES ASSUME NEW k \in 1..n, k - 1 \in P PROVE k \in P
    OBVIOUS
  <2>1. PICK f : Picks(s, k - 1, keep, got[k - 1], f)
    OBVIOUS
  <2>2. got[k - 1] \in Seq(V) /\ k \in 0..n
    BY <1>1
  <2>3. \E g : Picks(s, k, keep, IF s[k] \in keep THEN Append(got[k - 1], s[k]) ELSE got[k - 1], g)
    BY <2>1, <2>2, PicksNext
  <2>4. got[k] = IF s[k] \in keep THEN Append(got[k - 1], s[k]) ELSE got[k - 1]
    BY <1>2 DEF Gathers
  <2> QED BY <2>2, <2>3, <2>4
<1>5. n \in P
  <2>1. \A k \in 0..n : k \in P
    <3> HIDE DEF P, n
    <3> QED BY <1>1, <1>3, <1>4, UpToBound
  <2> QED BY <1>1, <2>1
<1> QED BY <1>1, <1>2, <1>5, AmongGathers

LEMMA AmongSet ==
    ASSUME NEW V, NEW s \in Seq(V), NEW keep
    PROVE  /\ Among(s, keep) \in Seq(V)
           /\ ToSet(Among(s, keep)) = ToSet(s) \cap keep
           /\ Among(s, keep) = <<>> <=> ToSet(s) \cap keep = {}
<1> DEFINE a == Among(s, keep)
<1>1. PICK f : a \in Seq(V) /\ Picks(s, Len(s), keep, a, f)
  BY AmongPicks
<1> HIDE DEF a
<1>2. /\ DOMAIN s = 1..Len(s) /\ DOMAIN a = 1..Len(a) /\ Len(a) \in Nat
      /\ \A j \in 1..Len(a) : f[j] \in 1..Len(s)
      /\ \A j \in 1..Len(a) : a[j] = s[f[j]] /\ s[f[j]] \in keep
      /\ \A i \in 1..Len(s) : s[i] \in keep => \E j \in 1..Len(a) : f[j] = i
  BY <1>1, LenProperties DEF Picks
<1>3. ToSet(a) \subseteq ToSet(s) \cap keep
  <2> SUFFICES ASSUME NEW x \in ToSet(a) PROVE x \in ToSet(s) \cap keep
    OBVIOUS
  <2>1. PICK j \in 1..Len(a) : x = a[j]
    BY <1>2 DEF ToSet
  <2> QED BY <1>2, <2>1 DEF ToSet
<1>4. ToSet(s) \cap keep \subseteq ToSet(a)
  <2> SUFFICES ASSUME NEW x \in ToSet(s), x \in keep PROVE x \in ToSet(a)
    OBVIOUS
  <2>1. PICK i \in 1..Len(s) : x = s[i]
    BY <1>2 DEF ToSet
  <2>2. PICK j \in 1..Len(a) : f[j] = i
    BY <1>2, <2>1
  <2> QED BY <1>2, <2>1, <2>2 DEF ToSet
<1>5. a = <<>> <=> ToSet(a) = {}
  <2>1. CASE a = <<>>
    BY <2>1, NothingIn
  <2>2. CASE a # <<>>
    <3>1. 1 \in 1..Len(a)
      BY <1>1, <1>2, <2>2, EmptySeq
    <3>2. a[1] \in ToSet(a)
      BY <1>2, <3>1 DEF ToSet
    <3> QED BY <2>2, <3>2
  <2> QED BY <2>1, <2>2
<1> QED BY <1>1, <1>3, <1>4, <1>5 DEF a

(* Nothing is lost and nothing doubled.                                        *)
LEMMA AmongCounts ==
    ASSUME NEW V, NEW s \in Seq(V), NEW keep
    PROVE  Len(Among(s, keep)) = Cardinality({i \in DOMAIN s : s[i] \in keep})
<1> DEFINE a == Among(s, keep)
           own == {i \in DOMAIN s : s[i] \in keep}
<1>1. PICK f : a \in Seq(V) /\ Picks(s, Len(s), keep, a, f)
  BY AmongPicks
<1> HIDE DEF a
<1>2. DOMAIN s = 1..Len(s) /\ Len(a) \in Nat /\ Len(s) \in Nat
  BY <1>1, LenProperties
<1>3. /\ f \in [1..Len(a) -> 1..Len(s)]
      /\ \A i, j \in 1..Len(a) : i < j => f[i] < f[j]
      /\ \A j \in 1..Len(a) : s[f[j]] \in keep
      /\ \A i \in 1..Len(s) : s[i] \in keep => \E j \in 1..Len(a) : f[j] = i
  BY <1>1 DEF Picks
<1>4. f \in [1..Len(a) -> own]
  BY <1>2, <1>3
<1>5. \A i, j \in 1..Len(a) : f[i] = f[j] => i = j
  <2> SUFFICES ASSUME NEW i \in 1..Len(a), NEW j \in 1..Len(a), f[i] = f[j], i # j PROVE FALSE
    OBVIOUS
  <2>1. f[i] \in Int /\ f[j] \in Int
    BY <1>2, <1>3
  <2>2. i < j \/ j < i
    BY <1>2
  <2> QED BY <1>3, <2>1, <2>2
<1>6. \A i \in own : \E j \in 1..Len(a) : f[j] = i
  BY <1>2, <1>3
<1> HIDE DEF own
<1>7. f \in Bijection(1..Len(a), own)
  BY <1>4, <1>5, <1>6 DEF Bijection, Injection, Surjection, IsInjective
<1>8. IsFiniteSet(1..Len(a)) /\ Cardinality(1..Len(a)) = Len(a)
  <2> DEFINE m == Len(a)
  <2>1. m \in Int /\ 1 \in Int /\ m >= 0
    BY <1>2
  <2> HIDE DEF m
  <2>2. IsFiniteSet(1..m) /\ Cardinality(1..m) = IF 1 > m THEN 0 ELSE m - 1 + 1
    BY <2>1, FS_Interval
  <2> QED BY <2>1, <2>2 DEF m
<1>9. Cardinality(own) = Len(a)
  BY <1>7, <1>8, FS_Bijection DEF ExistsBijection
<1> QED BY <1>9 DEF a, own

LEMMA AmongLast ==
    ASSUME NEW V, NEW s \in Seq(V), NEW keep, NEW m \in 1..Len(s), s[m] \in keep,
           \A i \in 1..Len(s) : i > m => s[i] \notin keep
    PROVE  Among(s, keep) # <<>> /\ Among(s, keep)[Len(Among(s, keep))] = s[m]
<1> DEFINE a == Among(s, keep)
           n == Len(a)
<1>1. PICK f : a \in Seq(V) /\ Picks(s, Len(s), keep, a, f)
  BY AmongPicks
<1> HIDE DEF a
<1>2. n \in Nat /\ Len(s) \in Nat
  BY <1>1, LenProperties
<1>3. /\ f \in [1..n -> 1..Len(s)]
      /\ \A i, j \in 1..n : i < j => f[i] < f[j]
      /\ \A j \in 1..n : a[j] = s[f[j]] /\ s[f[j]] \in keep
      /\ \A i \in 1..Len(s) : s[i] \in keep => \E j \in 1..n : f[j] = i
  BY <1>1 DEF Picks
<1> HIDE DEF n
<1>4. PICK j \in 1..n : f[j] = m
  BY <1>3
<1>5. n \in 1..n /\ j <= n /\ f[n] \in Int /\ m \in Int
  BY <1>2, <1>3
<1>6. j = n
  <2> SUFFICES ASSUME j < n PROVE FALSE
    BY <1>5
  <2>1. f[n] > m /\ f[n] \in 1..Len(s) /\ s[f[n]] \in keep
    BY <1>3, <1>4, <1>5
  <2> QED BY <2>1
<1>7. a # <<>>
  BY <1>1, <1>2, <1>5, EmptySeq DEF n
<1> QED BY <1>3, <1>4, <1>6, <1>7 DEF a, n

LEMMA AmongHead ==
    ASSUME NEW V, NEW s \in Seq(V), NEW keep, NEW m \in 1..Len(s), s[m] \in keep,
           \A i \in 1..Len(s) : i < m => s[i] \notin keep
    PROVE  Among(s, keep) # <<>> /\ Head(Among(s, keep)) = s[m]
<1> DEFINE a == Among(s, keep)
           n == Len(a)
<1>1. PICK f : a \in Seq(V) /\ Picks(s, Len(s), keep, a, f)
  BY AmongPicks
<1> HIDE DEF a
<1>2. n \in Nat /\ Len(s) \in Nat
  BY <1>1, LenProperties
<1>3. /\ f \in [1..n -> 1..Len(s)]
      /\ \A i, j \in 1..n : i < j => f[i] < f[j]
      /\ \A j \in 1..n : a[j] = s[f[j]] /\ s[f[j]] \in keep
      /\ \A i \in 1..Len(s) : s[i] \in keep => \E j \in 1..n : f[j] = i
  BY <1>1 DEF Picks
<1> HIDE DEF n
<1>4. PICK j \in 1..n : f[j] = m
  BY <1>3
<1>5. 1 \in 1..n /\ j >= 1 /\ f[1] \in Int /\ m \in Int
  BY <1>2, <1>3
<1>6. j = 1
  <2> SUFFICES ASSUME j > 1 PROVE FALSE
    BY <1>5
  <2>1. f[1] < m /\ f[1] \in 1..Len(s) /\ s[f[1]] \in keep
    BY <1>3, <1>4, <1>5
  <2> QED BY <2>1
<1>7. a # <<>>
  BY <1>1, <1>2, <1>5, EmptySeq DEF n
<1>8. Head(a) = a[1]
  BY <1>1, <1>7, HeadTailProperties
<1> QED BY <1>3, <1>4, <1>6, <1>7, <1>8 DEF a, n

(* Each value once, at the first of its places.                                *)
LEMMA FirstsAre ==
    ASSUME NEW V, NEW s \in Seq(V)
    PROVE  /\ Host!Firsts(s) = Firsts(s)
           /\ Firsts(s) \in Seq(DOMAIN s)
           /\ \A k, l \in DOMAIN Firsts(s) : s[Firsts(s)[k]] = s[Firsts(s)[l]] => k = l
           /\ \A i \in DOMAIN s : \E k \in DOMAIN Firsts(s) : s[Firsts(s)[k]] = s[i]
<1> DEFINE n == Len(s)
           t == Indices(s)
           keep == {i \in DOMAIN s : \A j \in 1..(i - 1) : s[j] # s[i]}
           a == Among(t, keep)
<1>1. n \in Nat /\ DOMAIN s = 1..n
  BY LenProperties
<1>2. t = [i \in 1..n |-> i]
  BY <1>1 DEF Indices
<1>3. t \in Seq(1..n) /\ Len(t) = n
  <2> HIDE DEF n, t
  <2>1. \A i \in 1..n : i \in 1..n
    OBVIOUS
  <2> QED BY <1>1, <1>2, IsASeq, LenProperties
<1>4. a = Firsts(s)
  BY DEF Firsts
<1>5. Host!Firsts(s) = a
  <2>1. Host!Indices(s) = t
    BY DEF Host!Indices, Indices
  <2>2. Host!Firsts(s) = Host!Among(t, keep)
    BY <2>1 DEF Host!Firsts
  <2> QED BY <1>3, <2>2, AmongPicks
<1> HIDE DEF t, n
<1>6. PICK f : a \in Seq(1..n) /\ Picks(t, n, keep, a, f)
  <2> HIDE DEF keep
  <2> QED BY <1>3, AmongPicks
<1>7. DOMAIN a = 1..Len(a) /\ Len(a) \in Nat
  <2> HIDE DEF a
  <2> QED BY <1>6, LenProperties
<1> HIDE DEF a
<1>8. /\ \A j \in 1..Len(a) : f[j] \in 1..n /\ a[j] = f[j] /\ f[j] \in keep
      /\ \A i, j \in 1..Len(a) : i < j => f[i] < f[j]
      /\ \A i \in 1..n : i \in keep => \E j \in 1..Len(a) : f[j] = i
  BY <1>2, <1>6 DEF Picks
<1>9. ASSUME NEW k \in 1..Len(a), NEW l \in 1..Len(a), k < l, s[a[k]] = s[a[l]] PROVE FALSE
  <2>1. a[k] = f[k] /\ a[l] = f[l] /\ f[k] \in 1..n /\ f[l] \in 1..n /\ f[k] < f[l]
    BY <1>8, <1>9
  <2>2. f[k] \in 1..(f[l] - 1)
    BY <1>1, <2>1
  <2> QED BY <1>8, <1>9, <2>1, <2>2
<1>10. ASSUME NEW k \in DOMAIN a, NEW l \in DOMAIN a, s[a[k]] = s[a[l]] PROVE k = l
  <2>1. k < l \/ l < k \/ k = l
    BY <1>7
  <2> QED BY <1>7, <1>9, <1>10, <2>1
<1>11. ASSUME NEW i \in DOMAIN s PROVE \E k \in DOMAIN a : s[a[k]] = s[i]
  <2> DEFINE P == {j \in 1..n : s[j] = s[i]}
  <2>1. i \in P /\ P \in SUBSET Nat
    BY <1>1
  <2>2. PICK e \in P : \A x \in P : e <= x
    <3> HIDE DEF P
    <3> QED BY <2>1, LeastMember
  <2>3. \A j \in 1..(e - 1) : j \in 1..n /\ ~(e <= j)
    BY <1>1, <2>2
  <2>4. e \in keep
    BY <1>1, <2>2, <2>3
  <2>5. PICK k \in 1..Len(a) : f[k] = e
    BY <1>8, <2>2, <2>4
  <2> QED BY <1>7, <1>8, <2>2, <2>5
<1> QED BY <1>1, <1>4, <1>5, <1>6, <1>10, <1>11

(* A list of lists put together: a growing list, one of the lists at a time.   *)
Grows(s, n, flat) ==
    /\ flat[0] = <<>>
    /\ \A k \in 1..n : flat[k] = flat[k - 1] \o s[k]

LEMMA FlattenGrows ==
    ASSUME NEW V, NEW s \in Seq(Seq(V))
    PROVE  /\ Host!FlattenSeq(s) = FlattenSeq(s) /\ Memory!FlattenSeq(s) = FlattenSeq(s)
           /\ \E flat \in [0..Len(s) -> Seq(V)] : Grows(s, Len(s), flat) /\ FlattenSeq(s) = flat[Len(s)]
<1> DEFINE S == Seq(V)
           n == Len(s)
           b == <<>>
           G == [p \in S \X (1..n) |-> p[1] \o s[p[2]]]
           Is(h) == h = [i \in 1..n |-> IF i = 1 THEN s[i] ELSE h[i - 1] \o s[i]]
<1>1. n \in Nat /\ DOMAIN s = 1..n /\ \A i \in 1..n : s[i] \in S
  BY LenProperties, ElementOfSeq
<1>2. b \in S
  BY EmptySeq
<1>3. G \in [S \X (1..n) -> S]
  <2>1. \A p \in S \X (1..n) : p[1] \o s[p[2]] \in S
    BY <1>1, ConcatProperties
  <2> QED BY <2>1
<1>4. PICK it : IsFold(it, S, n, G, b)
  <2> HIDE DEF G, n, S, b
  <2> QED BY <1>1, <1>2, <1>3, FoldExists
<1> HIDE DEF S
<1>5. \A k \in 1..n : it[1..k] = it[1..(k - 1)] \o s[k] /\ it[1..k] \in S /\ it[1..(k - 1)] \in S
  <2> SUFFICES ASSUME NEW k \in 1..n
               PROVE  it[1..k] = it[1..(k - 1)] \o s[k] /\ it[1..k] \in S /\ it[1..(k - 1)] \in S
    OBVIOUS
  <2>1. /\ 1..k \in SUBSET (1..n) /\ 1..k # {} /\ 1..(k - 1) \in SUBSET (1..n)
        /\ Max(1..k) = k /\ (1..k) \ {Max(1..k)} = 1..(k - 1)
    BY <1>1, FoldPasses
  <2>2. it[1..k] \in S /\ it[1..(k - 1)] \in S /\ it[1..k] = G[<<it[1..(k - 1)], k>>]
    <3> HIDE DEF G
    <3> QED BY <1>4, <2>1 DEF IsFold
  <2> QED BY <2>2
<1>6. it[1..0] = b
  <2>1. 1..0 = {}
    OBVIOUS
  <2> QED BY <1>4, <2>1 DEF IsFold
<1> HIDE DEF G
<1> DEFINE h1 == [i \in 1..n |-> it[1..i]]
<1>7. Is(h1)
  <2> SUFFICES ASSUME NEW i \in 1..n PROVE h1[i] = IF i = 1 THEN s[i] ELSE h1[i - 1] \o s[i]
    OBVIOUS
  <2>1. CASE i = 1
    <3>1. 1 \in 1..n /\ 1 - 1 = 0 /\ s[1] \in S
      BY <1>1, <2>1
    <3>3. h1[1] = it[1..1] /\ it[1..1] = it[1..(1 - 1)] \o s[1]
      BY <1>5, <3>1
    <3>2. <<>> \o s[1] = s[1]
      BY <3>1, ConcatEmptySeq DEF S
    <3> QED BY <1>6, <2>1, <3>1, <3>2, <3>3
  <2>2. CASE i # 1
    <3>1. i - 1 \in 1..n
      BY <1>1, <2>2
    <3> QED BY <1>5, <2>2, <3>1
  <2> QED BY <2>1, <2>2
<1> DEFINE h2 == CHOOSE h : Is(h)
<1>8. Is(h2)
  <2> HIDE DEF Is, h1
  <2> QED BY <1>7
<1> HIDE DEF h1
<1> DEFINE flat == [k \in 0..n |-> IF k = 0 THEN <<>> ELSE h2[k]]
<1>9. n = 0 => s = <<>>
  BY EmptySeq
<1>10. FlattenSeq(s) = flat[n] /\ Host!FlattenSeq(s) = flat[n] /\ Memory!FlattenSeq(s) = flat[n]
  <2>1. CASE n = 0
    BY <1>9, <2>1 DEF FlattenSeq, Host!FlattenSeq, Memory!FlattenSeq
  <2>2. CASE n # 0
    BY <1>1, <2>2 DEF FlattenSeq, Host!FlattenSeq, Memory!FlattenSeq
  <2> QED BY <2>1, <2>2
<1> HIDE DEF h2
<1>11. flat[0] = <<>> /\ \A k \in 1..n : flat[k] = flat[k - 1] \o s[k]
  <2>1. 0 \in 0..n
    BY <1>1
  <2>2. ASSUME NEW k \in 1..n PROVE flat[k] = flat[k - 1] \o s[k]
    <3>1. k \in 0..n /\ k - 1 \in 0..n /\ k # 0
      BY <1>1
    <3>2. h2[k] = IF k = 1 THEN s[k] ELSE h2[k - 1] \o s[k]
      BY <1>8
    <3>3. CASE k = 1
      <4>1. <<>> \o s[1] = s[1]
        BY <1>1, <3>3, ConcatEmptySeq DEF S
      <4> QED BY <3>1, <3>2, <3>3, <4>1
    <3>4. CASE k # 1
      <4>1. k - 1 # 0
        BY <3>4
      <4> QED BY <3>1, <3>2, <3>4, <4>1
    <3> QED BY <3>3, <3>4
  <2> QED BY <2>1, <2>2
<1> HIDE DEF flat
<1>12. \A k \in 0..n : flat[k] \in S
  <2> DEFINE P == {k \in 0..n : flat[k] \in S}
  <2>1. 0 \in P
    BY <1>1, <1>2, <1>11
  <2>2. \A k \in 1..n : k - 1 \in P => k \in P
    <3> SUFFICES ASSUME NEW k \in 1..n, k - 1 \in P PROVE k \in P
      OBVIOUS
    <3>1. flat[k - 1] \in S /\ s[k] \in S /\ k \in 0..n
      BY <1>1
    <3> QED BY <1>11, <3>1, ConcatProperties DEF S
  <2>3. \A k \in 0..n : k \in P
    <3> HIDE DEF P
    <3> QED BY <1>1, <2>1, <2>2, UpToBound
  <2> QED BY <2>3
<1>13. flat = [k \in 0..n |-> flat[k]]
  BY DEF flat
<1>14. flat \in [0..n -> S]
  BY <1>12, <1>13
<1>15. Grows(s, n, flat)
  BY <1>11 DEF Grows
<1> QED BY <1>10, <1>14, <1>15 DEF S

(* Sets that hold the same of a list take the same of it.                      *)
LEMMA AmongSame ==
    ASSUME NEW V, NEW s \in Seq(V), NEW keep, NEW kept,
           \A i \in 1..Len(s) : s[i] \in keep <=> s[i] \in kept
    PROVE  Among(s, keep) = Among(s, kept)
<1> DEFINE n == Len(s)
<1>1. n \in Nat
  BY LenProperties
<1>2. PICK one \in [0..n -> Seq(V)] : Gathers(s, n, keep, one) /\ Among(s, keep) = one[n]
  BY AmongGathers
<1>3. PICK two \in [0..n -> Seq(V)] : Gathers(s, n, kept, two) /\ Among(s, kept) = two[n]
  BY AmongGathers
<1> DEFINE P == {k \in 0..n : one[k] = two[k]}
<1>4. 0 \in P
  BY <1>1, <1>2, <1>3 DEF Gathers
<1>5. \A k \in 1..n : k - 1 \in P => k \in P
  BY <1>1, <1>2, <1>3 DEF Gathers
<1>6. \A k \in 0..n : k \in P
  <2> HIDE DEF P, n
  <2> QED BY <1>1, <1>4, <1>5, UpToBound
<1> QED BY <1>1, <1>2, <1>3, <1>6

LEMMA FlattenAppend ==
    ASSUME NEW V, NEW s \in Seq(Seq(V)), NEW x \in Seq(V)
    PROVE  /\ FlattenSeq(Append(s, x)) = FlattenSeq(s) \o x
           /\ FlattenSeq(s) \in Seq(V)
<1> DEFINE n == Len(s)
           t == Append(s, x)
           S == Seq(V)
<1>1. n \in Nat /\ t \in Seq(S) /\ Len(t) = n + 1 /\ t[n + 1] = x /\ \A i \in 1..n : t[i] = s[i]
  BY AppendProperties, LenProperties
<1>2. PICK one \in [0..n -> S] : Grows(s, n, one) /\ FlattenSeq(s) = one[n]
  BY FlattenGrows
<1>3. PICK two \in [0..(n + 1) -> S] : Grows(t, n + 1, two) /\ FlattenSeq(t) = two[n + 1]
  <2>1. \E f \in [0..Len(t) -> S] : Grows(t, Len(t), f) /\ FlattenSeq(t) = f[Len(t)]
    <3> HIDE DEF t
    <3> QED BY <1>1, FlattenGrows
  <2> QED BY <1>1, <2>1
<1> HIDE DEF t, S, n
<1> DEFINE P == {k \in 0..n : one[k] = two[k]}
<1>4. 0 \in P
  BY <1>1, <1>2, <1>3 DEF Grows
<1>5. \A k \in 1..n : k - 1 \in P => k \in P
  <2> SUFFICES ASSUME NEW k \in 1..n, k - 1 \in P PROVE k \in P
    OBVIOUS
  <2>1. k \in 0..n /\ k \in 1..(n + 1) /\ one[k - 1] = two[k - 1] /\ t[k] = s[k]
    BY <1>1
  <2>2. one[k] = one[k - 1] \o s[k]
    BY <1>2 DEF Grows
  <2>3. two[k] = two[k - 1] \o t[k]
    BY <1>3, <2>1 DEF Grows
  <2> QED BY <2>1, <2>2, <2>3
<1>6. \A k \in 0..n : k \in P
  <2> HIDE DEF P
  <2> QED BY <1>1, <1>4, <1>5, UpToBound
<1>7. n \in 0..n /\ n + 1 \in 1..(n + 1) /\ (n + 1) - 1 = n
  BY <1>1
<1>8. two[n + 1] = two[(n + 1) - 1] \o t[n + 1]
  BY <1>3, <1>7 DEF Grows
<1>9. FlattenSeq(t) = FlattenSeq(s) \o x /\ FlattenSeq(s) \in S
  BY <1>1, <1>2, <1>3, <1>6, <1>7, <1>8
<1> QED BY <1>9 DEF t, S

(* Entries that say nothing may as well be left out.                           *)
Together(r, f) == FlattenSeq([i \in DOMAIN r |-> f[r[i]]])

LEMMA SaysMore ==
    ASSUME NEW V, NEW W, NEW f \in [V -> Seq(W)], NEW r \in Seq(V), NEW x \in V
    PROVE  Together(Append(r, x), f) = Together(r, f) \o f[x] /\ Together(r, f) \in Seq(W)
<1> DEFINE n == Len(r)
           t == Append(r, x)
           S == Seq(W)
           E(i) == f[r[i]]
           told == [i \in 1..n |-> E(i)]
           more == [i \in 1..(n + 1) |-> f[t[i]]]
<1>1. /\ n \in Nat /\ DOMAIN r = 1..n /\ \A i \in 1..n : r[i] \in V
      /\ t \in Seq(V) /\ Len(t) = n + 1 /\ DOMAIN t = 1..(n + 1)
      /\ t[n + 1] = x /\ \A i \in 1..n : t[i] = r[i]
  <2>1. t \in Seq(V) /\ Len(t) = n + 1 /\ t[n + 1] = x /\ \A i \in 1..n : t[i] = r[i]
    BY AppendProperties
  <2> QED BY <2>1, LenProperties, ElementOfSeq
<1> HIDE DEF t, n
<1>2. told \in Seq(S) /\ Len(told) = n /\ \A i \in 1..n : told[i] = f[r[i]]
  <2>1. \A i \in 1..n : E(i) \in S
    BY <1>1
  <2>2. DOMAIN told = 1..n /\ \A i \in 1..n : told[i] = f[r[i]]
    OBVIOUS
  <2>3. told \in Seq(S)
    <3> HIDE DEF E, S
    <3> QED BY <1>1, <2>1, IsASeq
  <2> HIDE DEF told, S
  <2> QED BY <1>1, <2>2, <2>3, LenProperties
<1>3. f[x] \in S
  OBVIOUS
<1>4. more = Append(told, f[x])
  <2> DEFINE y == f[x]
             u == Append(told, y)
  <2>1. u \in Seq(S) /\ Len(u) = n + 1 /\ u[n + 1] = y /\ \A i \in 1..n : u[i] = told[i]
    <3> HIDE DEF told, S, y
    <3>1. y \in S
      BY <1>3 DEF y, S
    <3> QED BY <1>2, <3>1, AppendProperties
  <2> HIDE DEF u, S
  <2>2. DOMAIN u = 1..(n + 1) /\ u = [i \in 1..(n + 1) |-> u[i]]
    BY <1>1, <2>1, LenProperties
  <2>3. \A i \in 1..(n + 1) : u[i] = f[t[i]]
    <3> SUFFICES ASSUME NEW i \in 1..(n + 1) PROVE u[i] = f[t[i]]
      OBVIOUS
    <3>1. CASE i \in 1..n
      BY <1>1, <1>2, <2>1, <3>1
    <3>2. CASE i = n + 1
      BY <1>1, <2>1, <3>2
    <3> QED BY <1>1, <3>1, <3>2
  <2>4. u = more
    <3> HIDE DEF y
    <3> QED BY <2>2, <2>3
  <2> QED BY <2>4 DEF u
<1>5. Together(r, f) = FlattenSeq(told) /\ Together(t, f) = FlattenSeq(more)
  BY <1>1 DEF Together
<1> HIDE DEF told, more
<1>6. FlattenSeq(Append(told, f[x])) = FlattenSeq(told) \o f[x] /\ FlattenSeq(told) \in S
  BY <1>2, <1>3, FlattenAppend
<1> QED BY <1>4, <1>5, <1>6 DEF t, S

LEMMA SilentAreLeftOut ==
    ASSUME NEW V, NEW W, NEW f \in [V -> Seq(W)], NEW s \in Seq(V), NEW keep, NEW kept,
           \A i \in 1..Len(s) : s[i] \in kept <=> s[i] \in keep /\ f[s[i]] # <<>>
    PROVE  Together(Among(s, kept), f) = Together(Among(s, keep), f)
<1> DEFINE n == Len(s)
<1>1. n \in Nat /\ \A i \in 1..n : s[i] \in V
  BY LenProperties, ElementOfSeq
<1>2. PICK one \in [0..n -> Seq(V)] : Gathers(s, n, keep, one) /\ Among(s, keep) = one[n]
  BY AmongGathers
<1>3. PICK two \in [0..n -> Seq(V)] : Gathers(s, n, kept, two) /\ Among(s, kept) = two[n]
  BY AmongGathers
<1> DEFINE P == {k \in 0..n : Together(one[k], f) = Together(two[k], f)}
<1>4. 0 \in P
  BY <1>1, <1>2, <1>3 DEF Gathers
<1>5. \A k \in 1..n : k - 1 \in P => k \in P
  <2> SUFFICES ASSUME NEW k \in 1..n, k - 1 \in P PROVE k \in P
    OBVIOUS
  <2> DEFINE x == s[k]
             a == one[k - 1]
             b == two[k - 1]
  <2>1. k \in 0..n /\ x \in V /\ a \in Seq(V) /\ b \in Seq(V) /\ Together(a, f) = Together(b, f)
    <3>1. k \in 0..n /\ k - 1 \in 0..n /\ x \in V
      BY <1>1
    <3>2. a \in Seq(V) /\ b \in Seq(V)
      BY <3>1
    <3> QED BY <3>1, <3>2
  <2>2. one[k] = (IF x \in keep THEN Append(a, x) ELSE a) /\ two[k] = (IF x \in kept THEN Append(b, x) ELSE b)
    BY <1>2, <1>3 DEF Gathers
  <2>3. x \in kept <=> x \in keep /\ f[x] # <<>>
    OBVIOUS
  <2> HIDE DEF x, a, b
  <2>4. /\ Together(Append(a, x), f) = Together(a, f) \o f[x] /\ Together(a, f) \in Seq(W)
        /\ Together(Append(b, x), f) = Together(b, f) \o f[x] /\ Together(b, f) \in Seq(W)
    <3>1. \A r \in Seq(V) : Together(Append(r, x), f) = Together(r, f) \o f[x] /\ Together(r, f) \in Seq(W)
      BY <2>1, SaysMore
    <3> QED BY <2>1, <3>1
  <2>5. Together(one[k], f) = Together(two[k], f)
    <3>1. CASE x \in kept
      BY <2>1, <2>2, <2>3, <2>4, <3>1
    <3>2. CASE x \notin keep
      BY <2>1, <2>2, <2>3, <3>2
    <3>3. CASE x \in keep /\ x \notin kept
      <4>1. f[x] = <<>> /\ Together(a, f) \o <<>> = Together(a, f)
        BY <2>3, <2>4, <3>3, ConcatEmptySeq
      <4> QED BY <2>1, <2>2, <2>4, <3>3, <4>1
    <3> QED BY <2>3, <3>1, <3>2, <3>3
  <2> QED BY <2>1, <2>5
<1>6. \A k \in 0..n : k \in P
  <2> HIDE DEF P, n
  <2> QED BY <1>1, <1>4, <1>5, UpToBound
<1> QED BY <1>1, <1>2, <1>3, <1>6

Associates(S) == \A x, y, z \in S : (x \o y) \o z = x \o (y \o z)
LEMMA JoinedInAnyOrder == \A V : Associates(Seq(V))
<1> SUFFICES ASSUME NEW V, NEW x \in Seq(V), NEW y \in Seq(V), NEW z \in Seq(V)
             PROVE  (x \o y) \o z = x \o (y \o z)
  BY DEF Associates
<1> QED BY ConcatAssociative, Z3

LEMMA FlattenTail ==
    ASSUME NEW V, NEW s \in Seq(Seq(V)), s # <<>>
    PROVE  /\ FlattenSeq(s) \in Seq(V)
           /\ s[1] \o Host!FlattenSeq(Tail(s)) = FlattenSeq(s)
<1> DEFINE S == Seq(V)
           n == Len(s)
           m == n - 1
           t == Tail(s)
<1>1. /\ n \in Nat /\ n >= 1 /\ m \in Nat /\ s[1] \in S
      /\ t \in Seq(S) /\ Len(t) = m /\ \A i \in 1..m : t[i] = s[i + 1]
      /\ \A i \in 1..n : s[i] \in S
  <2>1. n \in Nat /\ n # 0
    BY EmptySeq, LenProperties
  <2>2. t \in Seq(S) /\ Len(t) = m /\ \A i \in 1..Len(t) : t[i] = s[i + 1]
    BY HeadTailProperties
  <2>3. \A i \in 1..n : s[i] \in S
    BY ElementOfSeq
  <2> QED BY <2>1, <2>2, <2>3
<1>2. PICK flat \in [0..n -> S] : Grows(s, n, flat) /\ FlattenSeq(s) = flat[n]
  BY FlattenGrows
<1>3. PICK rest \in [0..m -> S] : Grows(t, m, rest) /\ FlattenSeq(t) = rest[m] /\ Host!FlattenSeq(t) = rest[m]
  <2>1. /\ Host!FlattenSeq(t) = FlattenSeq(t)
        /\ \E f \in [0..Len(t) -> S] : Grows(t, Len(t), f) /\ FlattenSeq(t) = f[Len(t)]
    <3> HIDE DEF t, m
    <3> QED BY <1>1, FlattenGrows
  <2> QED BY <1>1, <2>1
<1> HIDE DEF t, S, n, m
<1>7. /\ flat[0] = <<>> /\ \A k \in 1..n : flat[k] = flat[k - 1] \o s[k]
      /\ rest[0] = <<>> /\ \A k \in 1..m : rest[k] = rest[k - 1] \o t[k]
  BY <1>2, <1>3 DEF Grows
<1>8. n = m + 1
  BY <1>1 DEF m
<1> DEFINE P == {k \in 0..m : s[1] \o rest[k] = flat[k + 1]}
<1>4. 0 \in P
  <2>1. rest[0] = <<>> /\ flat[0] = <<>> /\ flat[1] = flat[1 - 1] \o s[1]
    <3>1. 1 \in 1..n /\ 1 - 1 = 0
      BY <1>1
    <3> QED BY <1>7, <3>1
  <2>2. s[1] \o <<>> = s[1] /\ <<>> \o s[1] = s[1]
    BY <1>1, ConcatEmptySeq DEF S
  <2> QED BY <1>1, <2>1, <2>2
<1>5. ASSUME NEW k \in 1..m, k - 1 \in P PROVE k \in P
  <2>1. k - 1 \in 0..m /\ k + 1 \in 1..n /\ (k + 1) - 1 = k /\ (k - 1) + 1 = k /\ k \in 0..m
    BY <1>1, <1>8
  <2>2. s[1] \o rest[k - 1] = flat[k]
    BY <1>5, <2>1
  <2>3. rest[k] = rest[k - 1] \o s[k + 1] /\ flat[k + 1] = flat[k] \o s[k + 1]
    <3>1. rest[k] = rest[k - 1] \o t[k] /\ t[k] = s[k + 1]
      BY <1>1, <1>7
    <3>2. flat[k + 1] = flat[(k + 1) - 1] \o s[k + 1]
      BY <1>7, <2>1
    <3> QED BY <2>1, <3>1, <3>2
  <2>4. s[1] \in S /\ rest[k - 1] \in S /\ s[k + 1] \in S
    BY <1>1, <1>3, <2>1
  <2>5. \A x, y, z \in S : (x \o y) \o z = x \o (y \o z)
    <3>1. Associates(Seq(V))
      BY JoinedInAnyOrder, Zenon
    <3> QED BY <3>1 DEF S, Associates
  <2>6. (s[1] \o rest[k - 1]) \o s[k + 1] = s[1] \o (rest[k - 1] \o s[k + 1])
    BY <2>4, <2>5
  <2>7. s[1] \o rest[k] = flat[k + 1]
    BY <2>2, <2>3, <2>6
  <2> QED BY <2>1, <2>7
<1>6. m \in P
  <2>1. \A k \in 0..m : k \in P
    <3> HIDE DEF P
    <3> QED BY <1>1, <1>4, <1>5, UpToBound
  <2> QED BY <1>1, <2>1
<1>9. s[1] \o rest[m] = FlattenSeq(s) /\ FlattenSeq(s) \in S
  <2>1. n \in 0..n
    BY <1>1
  <2> QED BY <1>2, <1>6, <1>8, <2>1
<1> QED BY <1>3, <1>9 DEF t, S

-----------------------------------------------------------------------------
(* Whatever was asked before: the decision at hand answers a question of Cases.*)
Gave(rule, answer(_)) ==
    decision.rule = rule => decision.in \in Cases[rule] /\ decision.out = answer(decision.in)

TerminalAnswers ==
    /\ Gave("request", OnRequest) /\ Gave("posted", OnPosted)
    /\ Gave("login", OnLogin) /\ Gave("grant", OnGrant)
    /\ Gave("index", OnIndex) /\ Gave("windows", OnWindows)
    /\ Gave("pump", OnPump)
WorkerAnswers ==
    /\ Gave("cron", OnCron)
    /\ Gave("spawn", OnSpawn) /\ Gave("branch", OnBranch)
    /\ Gave("keys", OnKeys) /\ Gave("guard", OnGuard)
    /\ Gave("reap", OnReap) /\ Gave("cleanup", OnCleanup)
    /\ Gave("review", OnReview)
ForgeAnswers ==
    /\ Gave("ci", OnCI) /\ Gave("approval", OnApproval)
    /\ Gave("comment", OnComment) /\ Gave("lists", OnLists)
    /\ Gave("get", OnGet) /\ Gave("tasks", OnTasks)
    /\ Gave("issues", OnIssues) /\ Gave("closing", OnClosing)
    /\ Gave("merge", OnMerge) /\ Gave("adapter", OnAdapter)
TrackingAnswers ==
    /\ Gave("reconcile", OnReconcile) /\ Gave("register", OnRegister)
    /\ Gave("find", OnFind) /\ Gave("scan", OnScan)
    /\ Gave("track", OnTrack) /\ Gave("publish", OnPublish)
MemoryAnswers ==
    /\ Gave("recall", OnRecall) /\ Gave("boot", OnBoot)
    /\ Gave("rollup", OnRollup) /\ Gave("schema", OnSchema)
    /\ Gave("cursors", OnCursors) /\ Gave("chunks", OnChunks)
    /\ Gave("statement", OnStatement) /\ Gave("edges", OnEdges)
    /\ Gave("status", OnStatus) /\ Gave("garden", OnGarden)
    /\ Gave("token", OnToken) /\ Gave("ontology", OnOntology)
    /\ Gave("groups", OnGroups)
HelperAnswers ==
    /\ Gave("serve", OnServe) /\ Gave("sync", OnSync)
    /\ Gave("mirror", OnMirror) /\ Gave("daemon", OnDaemon)
    /\ Gave("unschedule", OnSchedule) /\ Gave("node", OnNode)
    /\ Gave("env", OnEnv)
Answer ==
    /\ TerminalAnswers /\ WorkerAnswers /\ ForgeAnswers
    /\ TrackingAnswers /\ MemoryAnswers /\ HelperAnswers

LEMMA AnswerInv == DecisionSpec => []Answer
<1>1. DecisionInit => Answer
  BY DEF DecisionInit, NoDecision, Answer, Gave,
        TerminalAnswers, WorkerAnswers, ForgeAnswers, TrackingAnswers, MemoryAnswers, HelperAnswers
<1>2. Answer /\ [DecisionNext]_decision => Answer'
  <2> SUFFICES ASSUME Answer, [DecisionNext]_decision PROVE Answer'
    OBVIOUS
  <2>1. CASE decision' = decision
    BY <2>1 DEF Answer, Gave,
        TerminalAnswers, WorkerAnswers, ForgeAnswers, TrackingAnswers, MemoryAnswers, HelperAnswers
  <2>2. CASE Settle
    BY <2>2 DEF Answer, Gave,
        TerminalAnswers, WorkerAnswers, ForgeAnswers, TrackingAnswers, MemoryAnswers, HelperAnswers, Settle, NoDecision
  <2>3. CASE Schedule
    BY <2>3 DEF Answer, Gave,
        TerminalAnswers, WorkerAnswers, ForgeAnswers, TrackingAnswers, MemoryAnswers, HelperAnswers, Schedule, Ask
  <2>4. CASE Terminal
    BY <2>4 DEF Answer, Gave,
        TerminalAnswers, WorkerAnswers, ForgeAnswers, TrackingAnswers, MemoryAnswers, HelperAnswers, Terminal, Ask
  <2>5. CASE Workers
    BY <2>5 DEF Answer, Gave,
        TerminalAnswers, WorkerAnswers, ForgeAnswers, TrackingAnswers, MemoryAnswers, HelperAnswers, Workers, Ask
  <2>6. CASE Forges
    BY <2>6 DEF Answer, Gave,
        TerminalAnswers, WorkerAnswers, ForgeAnswers, TrackingAnswers, MemoryAnswers, HelperAnswers, Forges, Ask
  <2>7. CASE Tracking
    BY <2>7 DEF Answer, Gave,
        TerminalAnswers, WorkerAnswers, ForgeAnswers, TrackingAnswers, MemoryAnswers, HelperAnswers, Tracking, Ask
  <2>8. CASE Memories
    BY <2>8 DEF Answer, Gave,
        TerminalAnswers, WorkerAnswers, ForgeAnswers, TrackingAnswers, MemoryAnswers, HelperAnswers, Memories, Ask
  <2>9. CASE Supervision
    BY <2>9 DEF Answer, Gave,
        TerminalAnswers, WorkerAnswers, ForgeAnswers, TrackingAnswers, MemoryAnswers, HelperAnswers, Supervision, Ask
  <2> QED BY <2>1, <2>2, <2>3, <2>4, <2>5, <2>6, <2>7, <2>8, <2>9 DEF DecisionNext
<1> QED BY <1>1, <1>2, PTL DEF DecisionSpec

-----------------------------------------------------------------------------
(* The questions about what the daemon runs.                                   *)

LEMMA ServedSafely ==
    ASSUME NEW q, q.first \in Help!Holders, q.second \in Help!Holders, q.checksum \in Nat
    PROVE  LET a == OnServe(q) IN
        /\ a.server.proc # "foreign" /\ a.stopped \subseteq {"child", "ours", "silent"}
        /\ a.killed \subseteq {"foreign"} /\ a.port \in 0 .. (Ports - 1)
        /\ a.server.proc = "silent" => "silent" \in {q.first, q.second}
<1> DEFINE Good(r, holders) ==
        /\ r.server.proc \in {"none", "child", "ours", "silent"}
        /\ r.killed \subseteq {"foreign"}
        /\ r.server.proc = "silent" => "silent" \in holders
           one == Help!Start(q.first, q.launched)
           two == Help!Supervise(one.server, q.gone, q.reused, q.second, q.launched)
<1>1. ASSUME NEW h \in Help!Holders, NEW l PROVE Good(Help!Start(h, l), {h})
  <2>1. CASE h \in {"ours", "silent"}
    BY <2>1 DEF Help!Start, Help!Adopt
  <2>2. CASE h \in {"free", "foreign"}
    <3>1. Help!Start(h, l) = [server |-> IF l THEN [proc |-> "child", adopted |-> FALSE] ELSE Help!Idle,
                              killed |-> {h} \ {"free"}]
      BY <2>2 DEF Help!Start
    <3>2. Help!Start(h, l).server.proc \in {"none", "child"} /\ Help!Start(h, l).killed = {h} \ {"free"}
      BY <3>1 DEF Help!Idle
    <3> QED BY <2>2, <3>2
  <2> QED BY <2>1, <2>2 DEF Help!Holders
<1>2. Good(one, {q.first})
  BY <1>1
<1>3. Good(two, {q.first, q.second})
  <2> HIDE DEF one
  <2>1. CASE two = Help!Start(q.second, q.launched)
    BY <1>1, <2>1
  <2>2. CASE two = [server |-> one.server, killed |-> {}]
    BY <1>2, <2>2
  <2> QED BY <2>1, <2>2 DEF Help!Supervise
<1>4. Help!PortForVignoble(q.checksum) \in 0 .. (Ports - 1)
  BY HelpAssumption DEF Help!PortForVignoble
<1> HIDE DEF one, two
<1> DEFINE p == Help!PortForVignoble(q.checksum)
           k == one.killed \cup two.killed
           s == Help!Stop(two.server)
           a == OnServe(q)
<1>5. a = [port |-> p, server |-> two.server, killed |-> k, stopped |-> s]
  BY DEF OnServe, one, two
<1> HIDE DEF p, k, s, a
<1>6. a.port = p /\ a.server = two.server /\ a.killed = k /\ a.stopped = s
  BY <1>5
<1>7. s \subseteq {"child", "ours", "silent"}
  BY <1>3 DEF s, Help!Stop
<1>8. k \subseteq {"foreign"}
  BY <1>2, <1>3 DEF k
<1>9. p \in 0 .. (Ports - 1)
  BY <1>4 DEF p
<1>10. a.server.proc # "foreign" /\ (a.server.proc = "silent" => "silent" \in {q.first, q.second})
  BY <1>3, <1>6
<1> QED BY <1>6, <1>7, <1>8, <1>9, <1>10 DEF a

LEMMA SyncsAll ==
    ASSUME NEW q, \A f \in q.fails : f \in {"enroll", "sync"} \X {f[2]}
    PROVE  LET a == OnSync(q) IN
        /\ a.said /\ q.exit # 0 => "other" \notin q.lines
        /\ q.configured => "base" \in a.run.tried
        /\ a.run.result = "ok" =>
            /\ q.store.exists /\ q.store.table => \A m \in q.store.mutations :
                    m.acked \/ m.project \in {""} \cup a.run.tried
            /\ {f[2] : f \in q.fails} \cap a.run.tried = {}
<1> DEFINE a == OnSync(q)
           said == Help!Exec(q.exit, q.lines)
           run == Help!SyncSetup(q.configured, "base", q.store, q.fails)
           data == Help!ListProjectsWithData(q.store)
           all == {"base"} \cup (data \ {""})
           bad == \E p \in all : <<"enroll", p>> \in q.fails \/ <<"sync", p>> \in q.fails
<1>1. a = [said |-> said, run |-> run]
  BY DEF OnSync
<1>2. said /\ q.exit # 0 => "other" \notin q.lines
  BY DEF Help!Exec
<1>3. /\ q.configured => run.tried = all
      /\ run.result = "ok" => run.tried = all /\ ~bad
  <2>1. CASE q.configured
    <3> DEFINE drain == Help!EnrollAndSyncAll("base", data, q.fails)
               waiting == IF drain.error THEN 0 ELSE Help!QueryStatus(q.store).unacked
               degraded == ~drain.error /\ Help!QueryStatus(q.store).degraded
    <3>1. drain.tried = all /\ drain.error = bad
      BY DEF Help!EnrollAndSyncAll
    <3>2. run = [tried |-> drain.tried, fresh |-> ~drain.error, result |-> IF drain.error THEN "error" ELSE "ok",
                 pending |-> waiting, degraded |-> degraded]
      BY <2>1 DEF Help!SyncSetup, Help!SyncRun
    <3> HIDE DEF drain, waiting, degraded, run
    <3>3. run.tried = drain.tried /\ run.result = IF drain.error THEN "error" ELSE "ok"
      BY <3>2
    <3> HIDE DEF all, bad
    <3> QED BY <3>1, <3>3
  <2>2. CASE ~q.configured
    <3>1. run.result = "error"
      BY <2>2 DEF Help!SyncSetup
    <3> QED BY <2>2, <3>1
  <2> QED BY <2>1, <2>2
<1> HIDE DEF said, run, a
<1>4. a.said = said /\ a.run = run
  BY <1>1
<1>5. ASSUME run.result = "ok", q.store.exists, q.store.table, NEW m \in q.store.mutations, ~m.acked
      PROVE  m.project \in {""} \cup run.tried
  BY <1>3, <1>5 DEF Help!ListProjectsWithData
<1>6. ASSUME run.result = "ok", NEW f \in q.fails PROVE f[2] \notin run.tried
  <2>1. f = <<"enroll", f[2]>> \/ f = <<"sync", f[2]>>
    OBVIOUS
  <2> HIDE DEF all
  <2> QED BY <1>3, <1>6, <2>1
<1> HIDE DEF all, bad
<1>7. q.configured => "base" \in a.run.tried
  BY <1>3, <1>4 DEF all
<1> QED BY <1>2, <1>4, <1>5, <1>6, <1>7 DEF a

LEMMA MirrorsOurs ==
    ASSUME NEW q, q.host \in [DOMAIN q.host -> {"nothing", "worker"}],
           \A i \in {1, 2} : \A r \in q.records[i] : r.name \in DOMAIN q.host /\ r.state \in Help!States
    PROVE  LET a == OnMirror(q) IN
        \A i \in {1, 2} :
            /\ a[i].mirrored = {n \in DOMAIN q.host : a[i].host[n] = "mirror"}
            /\ \A n \in DOMAIN q.host : q.host[n] = "worker" <=> a[i].host[n] = "worker"
            /\ q.listed => \A n \in a[2].mirrored : \E r \in q.records[2] :
                    r.name = n /\ r.vignoble = "ours" /\ r.state = "working"
<1> DEFINE D == DOMAIN q.host
           Good(m) == /\ m.host \in [D -> {"nothing", "mirror", "worker"}]
                      /\ m.mirrored = {n \in D : m.host[n] = "mirror"}
                      /\ \A n \in D : q.host[n] = "worker" <=> m.host[n] = "worker"
           none == [mirrored |-> {}, host |-> q.host]
           one == Help!RunMirror(none, q.records[1], "ours", TRUE, {})
           two == Help!RunMirror(one, q.records[2], "ours", q.listed, q.failed)
<1>1. Good(none)
  OBVIOUS
<1>2. ASSUME NEW m, Good(m), NEW i \in {1, 2}, NEW listed, NEW failed
      PROVE  LET new == Help!RunMirror(m, q.records[i], "ours", listed, failed) IN
             /\ Good(new)
             /\ listed => \A n \in new.mirrored : \E r \in q.records[i] :
                    r.name = n /\ r.vignoble = "ours" /\ r.state = "working"
  <2> DEFINE want == Help!Wanted(q.records[i], "ours", m.host)
             gone == m.mirrored \ want
             host == [n \in DOMAIN m.host |-> IF n \in gone THEN "nothing" ELSE m.host[n]]
             new == want \ failed
             host2 == [n \in DOMAIN host |-> IF n \in new THEN "mirror" ELSE host[n]]
             res == Help!RunMirror(m, q.records[i], "ours", listed, failed)
  <2>1. CASE ~listed
    BY <1>2, <2>1 DEF Help!RunMirror
  <2>2. CASE listed
    <3>1. \A n \in want : /\ n \in D /\ m.host[n] = "nothing"
                          /\ \E r \in q.records[i] : r.name = n /\ r.vignoble = "ours" /\ r.state = "working"
      BY DEF Help!Wanted, Help!States
    <3>2. res = [mirrored |-> new, host |-> host2]
      BY <2>2 DEF Help!RunMirror
    <3> HIDE DEF want, res
    <3>3. host2 \in [D -> {"nothing", "mirror", "worker"}]
      BY <1>2
    <3>4. \A n \in D : host2[n] = IF n \in new THEN "mirror" ELSE IF n \in gone THEN "nothing" ELSE m.host[n]
      BY <1>2
    <3> HIDE DEF host2
    <3>5. new = {n \in D : host2[n] = "mirror"}
      BY <1>2, <3>1, <3>4
    <3>6. \A n \in D : q.host[n] = "worker" <=> host2[n] = "worker"
      BY <1>2, <3>1, <3>4
    <3>7. res.mirrored = new /\ res.host = host2
      BY <3>2
    <3> QED BY <3>1, <3>3, <3>5, <3>6, <3>7 DEF res
  <2> QED BY <2>1, <2>2
<1> HIDE DEF none, Good
<1>3. Good(one)
  <2>1. 1 \in {1, 2}
    OBVIOUS
  <2> QED BY <1>1, <1>2, <2>1
<1> HIDE DEF one
<1>4. /\ Good(two)
      /\ q.listed => \A n \in two.mirrored : \E r \in q.records[2] :
                    r.name = n /\ r.vignoble = "ours" /\ r.state = "working"
  <2>1. 2 \in {1, 2}
    OBVIOUS
  <2> QED BY <1>2, <1>3, <2>1
<1> HIDE DEF two
<1> DEFINE a == OnMirror(q)
<1>5. a = <<one, two>>
  BY DEF OnMirror, one, two, none
<1> HIDE DEF a
<1>6. a[1] = one /\ a[2] = two
  BY <1>5
<1> QED BY <1>3, <1>4, <1>6 DEF a, Good

(* What the pid file and the processes are of each other.                      *)
OneDaemon ==
    {s \in [file : Nat, alive : SUBSET Nat, n : Nat] : s.n > 0 /\ s.alive \subseteq {s.file} \ {0}}

LEMMA DaemonSteps ==
    ASSUME NEW s \in OneDaemon, NEW obeys
    PROVE  /\ [s EXCEPT !.alive = {}] \in OneDaemon
           /\ \A r \in {Help!DaemonStart(s.file, s.alive, s.n), Help!DaemonStop(s.file, s.alive, obeys),
                         Help!DaemonRestart(s.file, s.alive, obeys, s.n)} :
                [file |-> r.file, alive |-> r.alive, n |-> s.n + 1] \in OneDaemon
<1> DEFINE Fits(r) == r.file \in Nat /\ r.alive \in SUBSET Nat /\ r.alive \subseteq {r.file} \ {0}
<1>1. s.file \in Nat /\ s.alive \in SUBSET Nat /\ s.n \in Nat /\ s.n > 0 /\ s.alive \subseteq {s.file} \ {0}
  BY DEF OneDaemon
<1>2. [s EXCEPT !.alive = {}] \in OneDaemon
  BY DEF OneDaemon
<1>3. ASSUME NEW pid \in Nat, NEW alive \in SUBSET Nat, alive \subseteq {pid} \ {0}
      PROVE  /\ Fits(Help!DaemonStart(pid, alive, s.n)) /\ Fits(Help!DaemonStop(pid, alive, obeys))
  <2>1. Fits(Help!DaemonStart(pid, alive, s.n))
    <3>1. CASE pid > 0 /\ pid \in alive
      <4>1. Help!DaemonStart(pid, alive, s.n) = [file |-> pid, alive |-> alive]
        BY <3>1 DEF Help!DaemonStart, Help!ProcessAlive
      <4> QED BY <1>3, <4>1
    <3>2. CASE ~(pid > 0 /\ pid \in alive)
      <4>1. alive = {}
        BY <1>3, <3>2
      <4>2. Help!DaemonStart(pid, alive, s.n) = [file |-> s.n, alive |-> alive \cup {s.n}]
        BY <3>2 DEF Help!DaemonStart, Help!ProcessAlive
      <4> QED BY <1>1, <4>1, <4>2
    <3> QED BY <3>1, <3>2
  <2>2. Fits(Help!DaemonStop(pid, alive, obeys))
    BY <1>3 DEF Help!DaemonStop, Help!ProcessAlive
  <2> QED BY <2>1, <2>2
<1>4. Fits(Help!DaemonRestart(s.file, s.alive, obeys, s.n))
  <2> DEFINE r == Help!DaemonStop(s.file, s.alive, obeys)
  <2>1. Fits(r)
    BY <1>1, <1>3
  <2> HIDE DEF r
  <2>2. Fits(Help!DaemonStart(r.file, r.alive, s.n))
    BY <1>3, <2>1
  <2>3. CASE r.ok
    BY <2>2, <2>3 DEF Help!DaemonRestart, r
  <2>4. CASE ~r.ok
    <3>1. Help!DaemonRestart(s.file, s.alive, obeys, s.n) = [file |-> r.file, alive |-> r.alive]
      BY <2>4 DEF Help!DaemonRestart, r
    <3> QED BY <2>1, <3>1
  <2> QED BY <2>3, <2>4
<1>5. ASSUME NEW r, Fits(r) PROVE [file |-> r.file, alive |-> r.alive, n |-> s.n + 1] \in OneDaemon
  BY <1>1, <1>5 DEF OneDaemon
<1> QED BY <1>1, <1>2, <1>3, <1>4, <1>5

Commands == {"start", "stop", "restart", "die"}

DaemonStep(s, cmd, obeys) ==
    LET next(r) == [file |-> r.file, alive |-> r.alive, n |-> s.n + 1]
    IN  CASE cmd = "start" -> next(Help!DaemonStart(s.file, s.alive, s.n))
          [] cmd = "stop" -> next(Help!DaemonStop(s.file, s.alive, obeys))
          [] cmd = "restart" -> next(Help!DaemonRestart(s.file, s.alive, obeys, s.n))
          [] cmd = "die" -> [s EXCEPT !.alive = {}]

LEMMA OneDaemonAtATime ==
    ASSUME NEW q, q.day \in Seq(Commands)
    PROVE  OnDaemon(q) \in OneDaemon
<1> DEFINE n == Len(q.day)
           b == [file |-> 0, alive |-> {}, n |-> 1]
           G == [p \in OneDaemon \X (1..n) |-> DaemonStep(p[1], q.day[p[2]], q.obeys)]
           Is(it) == it = [u \in SUBSET (1..n) |->
                        IF u = {} THEN b ELSE DaemonStep(it[u \ {Max(u)}], q.day[Max(u)], q.obeys)]
<1>1. n \in Nat /\ DOMAIN q.day = 1..n /\ \A i \in 1..n : q.day[i] \in Commands
  BY LenProperties, ElementOfSeq
<1>2. b \in OneDaemon
  BY DEF OneDaemon
<1>3. ASSUME NEW s \in OneDaemon, NEW i \in 1..n PROVE DaemonStep(s, q.day[i], q.obeys) \in OneDaemon
  <2>1. q.day[i] \in Commands
    BY <1>1
  <2> HIDE DEF n
  <2> QED BY <2>1, DaemonSteps DEF Commands, DaemonStep
<1>4. G \in [OneDaemon \X (1..n) -> OneDaemon]
  BY <1>3
<1>5. PICK it : IsFold(it, OneDaemon, n, G, b)
  <2> HIDE DEF G, n, b
  <2> QED BY <1>1, <1>2, <1>4, FoldExists
<1>6. Is(it)
  <2>1. ASSUME NEW u \in (SUBSET (1..n)) \ {{}}
        PROVE  it[u] = DaemonStep(it[u \ {Max(u)}], q.day[Max(u)], q.obeys)
    <3>1. Max(u) \in 1..n
      BY <1>1, GreatestIndex
    <3>2. it[u \ {Max(u)}] \in OneDaemon
      BY <1>5 DEF IsFold
    <3>3. it[u] = G[<<it[u \ {Max(u)}], Max(u)>>]
      BY <1>5 DEF IsFold
    <3> QED BY <3>1, <3>2, <3>3
  <2> HIDE DEF G, n, b
  <2> QED BY <1>5, <2>1 DEF IsFold
<1> DEFINE it2 == CHOOSE h : Is(h)
<1>7. Is(it2)
  <2> HIDE DEF Is
  <2> QED BY <1>6
<1>8. OnDaemon(q) = it2[1..n]
  BY <1>1 DEF OnDaemon, FoldLeft, MapThenFoldSet, DaemonStep
<1>9. it2[{}] = b /\ \A k \in 1..n : it2[1..k] = DaemonStep(it2[1..(k - 1)], q.day[k], q.obeys)
  <2>1. {} \in SUBSET (1..n)
    OBVIOUS
  <2>2. \A k \in 1..n : /\ 1..k \in SUBSET (1..n) /\ 1..k # {}
           /\ Max(1..k) = k /\ (1..k) \ {Max(1..k)} = 1..(k - 1)
    BY <1>1, FoldPasses
  <2> HIDE DEF it2, b
  <2> QED BY <1>7, <2>1, <2>2
<1>10. \A k \in 0..n : it2[1..k] \in OneDaemon
  <2> DEFINE P == {k \in 0..n : it2[1..k] \in OneDaemon}
  <2>1. 0 \in P
    <3>1. 1..0 = {} /\ 0 \in 0..n
      BY <1>1
    <3> HIDE DEF it2, b
    <3> QED BY <1>2, <1>9, <3>1
  <2>2. ASSUME NEW k \in 1..n, k - 1 \in P PROVE k \in P
    <3> HIDE DEF it2, b
    <3> QED BY <1>1, <1>3, <1>9, <2>2
  <2>3. \A k \in 0..n : k \in P
    <3>1. n \in Nat
      BY <1>1
    <3> HIDE DEF P, n
    <3> QED BY <3>1, <2>1, <2>2, UpToBound
  <2> HIDE DEF it2, n
  <2> QED BY <2>3
<1>11. n \in 0..n
  BY <1>1
<1> HIDE DEF it2, n
<1> QED BY <1>8, <1>10, <1>11

LEMMA SameMax == \A s : Spawn!Max(s) = Max(s)
BY DEF Spawn!Max, Max

LEMMA AppendedSet ==
    ASSUME NEW V, NEW s \in Seq(V), NEW e \in V
    PROVE  Append(s, e) \in Seq(V) /\ ToSet(Append(s, e)) = ToSet(s) \cup {e}
<1> DEFINE r == Append(s, e)
<1>1. /\ r \in Seq(V) /\ Len(r) = Len(s) + 1 /\ Len(s) \in Nat /\ DOMAIN r = 1..(Len(s) + 1) /\ DOMAIN s = 1..Len(s)
      /\ \A i \in 1..Len(s) : r[i] = s[i]
      /\ r[Len(s) + 1] = e
  BY AppendProperties, LenProperties
<1> HIDE DEF r
<1>2. \A i \in DOMAIN r : i \in DOMAIN s \/ i = Len(s) + 1
  BY <1>1
<1>3. Len(s) + 1 \in DOMAIN r /\ \A i \in DOMAIN s : i \in DOMAIN r
  BY <1>1
<1>4. ToSet(r) = ToSet(s) \cup {e}
  BY <1>1, <1>2, <1>3 DEF ToSet
<1> QED BY <1>1, <1>4 DEF r

LEMMA TakenOff ==
    ASSUME NEW q, q.file \in Seq(ToSet(q.file))
    PROVE  LET a == OnSchedule(q) IN q.name \notin ToSet(a) /\ ToSet(q.file) \ {q.name} = ToSet(a)
<1> DEFINE lines == Append(q.file, q.name)
           V == ToSet(q.file) \cup {q.name}
           S == Seq(V)
           n == Len(lines)
           b == <<>>
           Drop(left, line) == IF line = q.name THEN left ELSE Append(left, line)
           G == [p \in S \X (1..n) |-> Drop(p[1], lines[p[2]])]
           Is(it) == it = [u \in SUBSET (1..n) |->
                        IF u = {} THEN b ELSE Drop(it[u \ {Max(u)}], lines[Max(u)])]
           T == [k \in 0..n |-> {s \in S : ToSet(s) = {lines[i] : i \in 1..k} \ {q.name}}]
<1>1. lines \in Seq(V) /\ n \in Nat /\ DOMAIN lines = 1..n /\ \A i \in 1..n : lines[i] \in V
  <2>1. q.file \in Seq(V) /\ q.name \in V
    <3>1. ToSet(q.file) \subseteq V /\ q.name \in V
      OBVIOUS
    <3> HIDE DEF V
    <3>2. Seq(ToSet(q.file)) \subseteq Seq(V)
      BY <3>1, SeqMonotonic
    <3> QED BY <3>1, <3>2
  <2> HIDE DEF V
  <2>2. lines \in Seq(V)
    BY <2>1, AppendProperties
  <2> HIDE DEF lines
  <2> QED BY <2>2, LenProperties, ElementOfSeq
<1>2. b \in S /\ ToSet(b) = {}
  BY EmptySeq DEF ToSet
<1>3. ASSUME NEW s \in S, NEW line \in V
      PROVE  Drop(s, line) \in S /\ (q.name \notin ToSet(s) => ToSet(Drop(s, line)) = ToSet(s) \cup ({line} \ {q.name}))
  <2> HIDE DEF V
  <2> QED BY AppendedSet
<1> HIDE DEF Drop, S, V, b
<1>4. G \in [S \X (1..n) -> S]
  BY <1>1, <1>3
<1>5. PICK it : IsFold(it, S, n, G, b)
  <2> HIDE DEF G, n
  <2> QED BY <1>1, <1>2, <1>4, FoldExists
<1>6. Is(it)
  <2>1. ASSUME NEW u \in (SUBSET (1..n)) \ {{}}
        PROVE  it[u] = Drop(it[u \ {Max(u)}], lines[Max(u)])
    <3>1. Max(u) \in 1..n
      BY <1>1, GreatestIndex
    <3>2. it[u \ {Max(u)}] \in S
      BY <1>5 DEF IsFold
    <3>3. it[u] = G[<<it[u \ {Max(u)}], Max(u)>>]
      BY <1>5 DEF IsFold
    <3> QED BY <3>1, <3>2, <3>3
  <2> HIDE DEF G, n, lines
  <2> QED BY <1>5, <2>1 DEF IsFold
<1> DEFINE it2 == CHOOSE h : Is(h)
<1>7. Is(it2)
  <2> HIDE DEF Is
  <2> QED BY <1>6
<1>8. OnSchedule(q) = it2[1..n]
  <2>1. Spawn!Schedule(q.file, q.name) = lines
    BY DEF Spawn!Schedule
  <2>2. Spawn!Unschedule(lines, q.name) = it2[1..n]
    <3> HIDE DEF lines
    <3> QED BY <1>1, SameMax DEF Spawn!Unschedule, Spawn!FoldLeft, Spawn!MapThenFoldSet, Drop, b
  <2> QED BY <2>1, <2>2 DEF OnSchedule
<1>9. it2[{}] = b /\ \A k \in 1..n : it2[1..k] = Drop(it2[1..(k - 1)], lines[k])
  <2>1. {} \in SUBSET (1..n)
    OBVIOUS
  <2>2. \A k \in 1..n : /\ 1..k \in SUBSET (1..n) /\ 1..k # {}
           /\ Max(1..k) = k /\ (1..k) \ {Max(1..k)} = 1..(k - 1)
    BY <1>1, FoldPasses
  <2> HIDE DEF it2, lines
  <2> QED BY <1>7, <2>1, <2>2
<1> HIDE DEF it2
<1>10. it2[{}] \in T[0]
  <2>1. {lines[i] : i \in 1..0} = {} /\ 0 \in 0..n
    BY <1>1
  <2> HIDE DEF n, lines
  <2> QED BY <1>2, <1>9, <2>1
<1>11. ASSUME NEW k \in 1..n, it2[1..(k - 1)] \in T[k - 1] PROVE it2[1..k] \in T[k]
  <2> DEFINE had == {lines[i] : i \in 1..(k - 1)}
             has == {lines[i] : i \in 1..k}
  <2>1. k \in 0..n /\ k - 1 \in 0..n /\ lines[k] \in V
    BY <1>1
  <2>2. has = had \cup {lines[k]}
    <3>1. \A i \in 1..k : i \in 1..(k - 1) \/ i = k
      OBVIOUS
    <3>2. k \in 1..k /\ \A i \in 1..(k - 1) : i \in 1..k
      OBVIOUS
    <3> HIDE DEF lines
    <3> QED BY <3>1, <3>2
  <2>3. it2[1..(k - 1)] \in S /\ ToSet(it2[1..(k - 1)]) = had \ {q.name}
    <3> HIDE DEF n, lines
    <3> QED BY <1>11, <2>1
  <2>4. it2[1..k] \in S /\ ToSet(it2[1..k]) = (had \ {q.name}) \cup ({lines[k]} \ {q.name})
    <3> HIDE DEF n, lines
    <3> QED BY <1>3, <1>9, <2>1, <2>3
  <2>5. ToSet(it2[1..k]) = has \ {q.name}
    <3> HIDE DEF has, had
    <3> QED BY <2>2, <2>4
  <2> HIDE DEF n, lines
  <2> QED BY <2>1, <2>4, <2>5
<1>12. it2[1..n] \in T[n]
  <2> HIDE DEF T, n
  <2> QED BY <1>1, <1>10, <1>11, FoldStays
<1>13. ToSet(it2[1..n]) = ToSet(lines) \ {q.name}
  <2>1. n \in 0..n /\ ToSet(lines) = {lines[i] : i \in 1..n}
    BY <1>1 DEF ToSet
  <2> HIDE DEF n, lines
  <2> QED BY <1>12, <2>1
<1>14. ToSet(lines) = ToSet(q.file) \cup {q.name}
  <2>1. q.file \in Seq(V) /\ q.name \in V
    <3>1. ToSet(q.file) \subseteq V /\ q.name \in V
      BY DEF V
    <3>2. Seq(ToSet(q.file)) \subseteq Seq(V)
      BY <3>1, SeqMonotonic
    <3> QED BY <3>1, <3>2
  <2> QED BY <2>1, AppendedSet
<1> HIDE DEF it2, n, lines
<1> QED BY <1>8, <1>13, <1>14

LEMMA NodeWillDo ==
    ASSUME NEW q, \A i \in DOMAIN q.versions : i \in Nat /\ q.versions[i].version \in [1..3 -> 0..99]
    PROVE  LET a == OnNode(q)
               fits(v) == v[1] > OldestNode[1] \/ (v[1] = OldestNode[1] /\ v[2] * 100 + v[3] >= OldestNode[2] * 100 + OldestNode[3])
               able == {i \in DOMAIN q.versions : q.versions[i].pi}
           IN  a > 0 /\ (\E i \in able : fits(q.versions[i].version)) => fits(q.versions[a].version)
<1> DEFINE a == OnNode(q)
           fits(v) == v[1] > OldestNode[1] \/ (v[1] = OldestNode[1] /\ v[2] * 100 + v[3] >= OldestNode[2] * 100 + OldestNode[3])
           able == {i \in DOMAIN q.versions : q.versions[i].pi}
           good == {i \in able : Help!NodeVersionOK(q.versions[i].version)}
           first(s) == CHOOSE i \in s : \A o \in s : i <= o
<1>1. ASSUME NEW v \in [1..3 -> 0..99] PROVE fits(v) <=> Help!NodeVersionOK(v)
  <2>1. /\ v[1] \in 0..99 /\ v[2] \in 0..99 /\ v[3] \in 0..99
        /\ OldestNode[1] \in 0..99 /\ OldestNode[2] \in 0..99 /\ OldestNode[3] \in 0..99
    BY HelpAssumption
  <2>2. v # <<>>
    OBVIOUS
  <2> DEFINE a1 == v[1]
             a2 == v[2]
             a3 == v[3]
             o1 == OldestNode[1]
             o2 == OldestNode[2]
             o3 == OldestNode[3]
  <2>3. Help!NodeVersionOK(v) <=> a1 > o1 \/ (a1 = o1 /\ a2 > o2) \/ (a1 = o1 /\ a2 = o2 /\ a3 >= o3)
    BY <2>2 DEF Help!NodeVersionOK
  <2>4. /\ a1 \in 0..99 /\ a2 \in 0..99 /\ a3 \in 0..99
        /\ o1 \in 0..99 /\ o2 \in 0..99 /\ o3 \in 0..99
    BY <2>1
  <2>5. fits(v) <=> a1 > o1 \/ (a1 = o1 /\ a2 * 100 + a3 >= o2 * 100 + o3)
    OBVIOUS
  <2> HIDE DEF a1, a2, a3, o1, o2, o3, fits
  <2>6. (a2 * 100 + a3 >= o2 * 100 + o3) <=> (a2 > o2 \/ (a2 = o2 /\ a3 >= o3))
    BY <2>4
  <2> QED BY <2>3, <2>5, <2>6
<1>2. good \subseteq able /\ able \in SUBSET Nat
  OBVIOUS
<1>3. ASSUME NEW i \in able, fits(q.versions[i].version) PROVE i \in good
  BY <1>1, <1>3
<1> HIDE DEF fits
<1>4. ASSUME good # {} PROVE first(good) \in good
  BY <1>2, <1>4, LeastMember
<1>5. /\ q.given = "file" => a = -1
      /\ q.given = "missing" => a = 0
      /\ q.given = "" /\ good # {} => a = first(good)
      /\ q.given \notin {"file", "missing", ""} => a = 0
  <2>1. CASE q.given = "file"
    BY <2>1, Zenon DEF OnNode, Help!BuildDaemonPATH
  <2>2. CASE q.given = "missing"
    BY <2>2, Zenon DEF OnNode, Help!BuildDaemonPATH
  <2>3. CASE q.given = ""
    BY <2>3, Zenon DEF OnNode, Help!BuildDaemonPATH
  <2>4. CASE q.given \notin {"file", "missing", ""}
    BY <2>4, Zenon DEF OnNode, Help!BuildDaemonPATH
  <2> QED BY <2>1, <2>2, <2>3, <2>4
<1> DEFINE blank == ""
<1>6. /\ q.given = "file" => a = -1
      /\ q.given = "missing" => a = 0
      /\ q.given = blank /\ good # {} => a = first(good)
      /\ q.given \notin {"file", "missing", blank} => a = 0
  BY <1>5
<1> HIDE DEF a, good, first, blank
<1>7. ASSUME a > 0, good # {} PROVE a \in good
  BY <1>4, <1>6, <1>7
<1> HIDE DEF able
<1>8. ASSUME a > 0, NEW i \in able, fits(q.versions[i].version) PROVE fits(q.versions[a].version)
  <2>1. a \in good
    BY <1>3, <1>7, <1>8
  <2>2. a \in able /\ Help!NodeVersionOK(q.versions[a].version)
    BY <2>1 DEF good
  <2>3. q.versions[a].version \in [1..3 -> 0..99]
    BY <2>2 DEF able
  <2> QED BY <1>1, <2>2, <2>3
<1> QED BY <1>8 DEF a, fits, able

LEMMA EnvOurs ==
    ASSUME NEW q
    PROVE  LET a == OnEnv(q) IN
        a["vignoble"] = "ours" /\ \A k \in DOMAIN q.secrets \ {"vignoble"} : a[k] = q.secrets[k]
<1> DEFINE set == [vignoble |-> "ours"]
           D == DOMAIN q.env \cup DOMAIN q.secrets \cup DOMAIN set
           V(k) == IF k \in DOMAIN set THEN set[k] ELSE IF k \in DOMAIN q.secrets THEN q.secrets[k] ELSE q.env[k]
<1>1. OnEnv(q) = [k \in D |-> V(k)]
  BY DEF OnEnv, Help!DaemonChildEnv
<1>2. DOMAIN set = {"vignoble"} /\ set["vignoble"] = "ours"
  OBVIOUS
<1>3. "vignoble" \in D /\ \A k \in DOMAIN q.secrets \ {"vignoble"} : k \in D
  BY <1>2
<1>4. V("vignoble") = "ours" /\ \A k \in DOMAIN q.secrets \ {"vignoble"} : V(k) = q.secrets[k]
  BY <1>2
<1> HIDE DEF D, V
<1> QED BY <1>1, <1>3, <1>4

(* For any holder of the port, store, records, day of commands, schedule file, *)
(* versions and environment (engram_serve.go, engram.go, remote_mirror.go,     *)
(* cmd_daemon_ctl.go, cmd_schedule.go): the store of another vignoble is not   *)
(* served, a drain that says ok left nothing behind, a worker has no mirror,   *)
(* the pid file names the one daemon there is, a schedule that is taken off is *)
(* off and no other, and the daemon runs on a node that will do.               *)
THEOREM SupervisionIsSound == DecisionSpec => []SupervisionSound
<1>1. Answer => SupervisionSound
  <2> SUFFICES ASSUME Answer PROVE SupervisionSound
    OBVIOUS
  <2> DEFINE q == decision.in
             a == decision.out
  <2>1. CASE decision.rule = "serve"
    <3>1. q.first \in Help!Holders /\ q.second \in Help!Holders /\ q.checksum \in Nat /\ a = OnServe(q)
      BY SMTT(40), <2>1, CasesAssumption DEF Answer, HelperAnswers, Gave, CasesTypes, HelperCases
    <3> QED BY <2>1, <3>1, ServedSafely DEF SupervisionSound, Of
  <2>2. CASE decision.rule = "sync"
    <3>1. (\A f \in q.fails : f \in {"enroll", "sync"} \X {f[2]}) /\ a = OnSync(q)
      BY <2>2, CasesAssumption DEF Answer, HelperAnswers, Gave, CasesTypes, HelperCases
    <3> QED BY <2>2, <3>1, SyncsAll DEF SupervisionSound, Of
  <2>3. CASE decision.rule = "mirror"
    <3>1. /\ q.host \in [DOMAIN q.host -> {"nothing", "worker"}]
          /\ \A i \in {1, 2} : \A r \in q.records[i] : r.name \in DOMAIN q.host /\ r.state \in Help!States
          /\ a = OnMirror(q)
      BY <2>3, CasesAssumption DEF Answer, HelperAnswers, Gave, CasesTypes, HelperCases
    <3> QED BY <2>3, <3>1, MirrorsOurs DEF SupervisionSound, Of
  <2>4. CASE decision.rule = "daemon"
    <3>1. q.day \in Seq(Commands) /\ a = OnDaemon(q)
      BY <2>4, CasesAssumption DEF Answer, HelperAnswers, Gave, CasesTypes, HelperCases, Commands
    <3>2. a.alive \subseteq {a.file}
      BY <3>1, OneDaemonAtATime DEF OneDaemon
    <3>3. Cardinality(a.alive) <= 1
      BY <3>2, OneOrNone
    <3> QED BY <2>4, <3>2, <3>3 DEF SupervisionSound, Of
  <2>5. CASE decision.rule = "unschedule"
    <3>1. q.file \in Seq(ToSet(q.file)) /\ a = OnSchedule(q)
      BY SMTT(40), <2>5, CasesAssumption DEF Answer, HelperAnswers, Gave, CasesTypes, HelperCases
    <3> QED BY <2>5, <3>1, TakenOff DEF SupervisionSound, Of
  <2>6. CASE decision.rule = "node"
    <3>1. /\ \A i \in DOMAIN q.versions : i \in Nat /\ q.versions[i].version \in [1..3 -> 0..99]
          /\ a = OnNode(q)
      BY <2>6, CasesAssumption DEF Answer, HelperAnswers, Gave, CasesTypes, HelperCases
    <3> QED BY SMTT(40), <2>6, <3>1, NodeWillDo DEF SupervisionSound, Of
  <2>7. CASE decision.rule = "env"
    <3>1. a = OnEnv(q)
      BY SMTT(40), <2>7 DEF Answer, HelperAnswers, Gave
    <3> QED BY <2>7, <3>1, EnvOurs DEF SupervisionSound, Of
  <2>8. CASE decision.rule \notin {"serve", "sync", "mirror", "daemon", "unschedule", "node", "env"}
    BY <2>8 DEF SupervisionSound, Of
  <2> QED BY <2>1, <2>2, <2>3, <2>4, <2>5, <2>6, <2>7, <2>8
<1> QED BY <1>1, AnswerInv, PTL

-----------------------------------------------------------------------------
(* The questions about merge requests and their workers.                        *)

(* Among keeps what is in the set, and nothing else.                           *)
LEMMA AmongIs ==
    ASSUME NEW V, NEW s \in Seq(V), NEW keep
    PROVE  LET a == Track!Among(s, keep) IN
           a \in Seq(V) /\ Track!ToSet(a) = Track!ToSet(s) \cap keep
<1>1. Track!Among(s, keep) = Among(s, keep)
  BY AmongPicks
<1>2. Among(s, keep) \in Seq(V) /\ ToSet(Among(s, keep)) = ToSet(s) \cap keep
  BY AmongSet
<1> QED BY <1>1, <1>2, SameToSet

(* Of a sequence that is not empty: the first entry, and the others.           *)
LEMMA HeadAndTail ==
    ASSUME NEW V, NEW s \in Seq(V), s # <<>>
    PROVE  /\ Head(s) \in V /\ Tail(s) \in Seq(V) /\ Len(s) \in Nat \ {0} /\ Len(Tail(s)) \in Nat
           /\ ToSet(s) = {Head(s)} \cup ToSet(Tail(s))
<1>1. /\ Len(s) \in Nat /\ Len(s) # 0 /\ DOMAIN s = 1..Len(s) /\ Head(s) = s[1] /\ Tail(s) \in Seq(V)
      /\ Len(Tail(s)) = Len(s) - 1 /\ \A i \in 1..Len(Tail(s)) : Tail(s)[i] = s[i + 1]
      /\ DOMAIN Tail(s) = 1..Len(Tail(s))
  BY HeadTailProperties, LenProperties, EmptySeq
<1>2. Head(s) \in V
  BY <1>1, ElementOfSeq
<1> DEFINE t == Tail(s)
<1> HIDE DEF t
<1>3. ASSUME NEW x \in ToSet(s) PROVE x \in {s[1]} \cup ToSet(t)
  <2>1. PICK i \in 1..Len(s) : x = s[i]
    BY <1>1, <1>3 DEF ToSet
  <2>2. CASE i # 1
    <3>1. i - 1 \in 1..Len(t) /\ (i - 1) + 1 = i
      BY <1>1, <2>2 DEF t
    <3>2. t[i - 1] = x /\ i - 1 \in DOMAIN t
      BY <1>1, <2>1, <3>1 DEF t
    <3> QED BY <3>2 DEF ToSet
  <2> QED BY <2>1, <2>2
<1>4. ASSUME NEW x \in {s[1]} \cup ToSet(t) PROVE x \in ToSet(s)
  <2>1. CASE x = s[1]
    BY <1>1, <2>1 DEF ToSet
  <2>2. CASE x \in ToSet(t)
    <3>1. PICK i \in 1..Len(t) : x = t[i]
      BY <1>1, <2>2 DEF ToSet, t
    <3>2. i + 1 \in 1..Len(s) /\ x = s[i + 1]
      BY <1>1, <3>1 DEF t
    <3> QED BY <1>1, <3>2 DEF ToSet
  <2> QED BY <1>4, <2>1, <2>2
<1> QED BY <1>1, <1>2, <1>3, <1>4 DEF t

(* The entry that stays is one of them, and of a worker that lives when there  *)
(* is one.                                                                     *)
LEMMA CanonicalIs ==
    ASSUME NEW V, NEW keys \in Seq(V), keys # <<>>, NEW watched, NEW agents
    PROVE  LET c == Track!PickCanonicalMRKey(watched, agents, keys) IN
           /\ c \in ToSet(keys)
           /\ \A k \in ToSet(keys) : Track!SessionIsAlive(agents, k) => Track!SessionIsAlive(agents, c)
<1> DEFINE t == Tail(keys)
           n == Len(t)
           b == Head(keys)
           alive(k) == Track!SessionIsAlive(agents, k)
           Take(best, x) == IF Track!BetterMRKey(watched, agents, x, best) THEN x ELSE best
           G == [p \in V \X (1..n) |-> Take(p[1], t[p[2]])]
           Is(it) == it = [u \in SUBSET (1..n) |->
                        IF u = {} THEN b ELSE Take(it[u \ {Max(u)}], t[Max(u)])]
           Seen(k) == {b} \cup {t[i] : i \in 1..k}
           T == [k \in 0..n |-> {r \in V : r \in Seen(k) /\ \A j \in Seen(k) : alive(j) => alive(r)}]
<1>0. b \in V /\ t \in Seq(V) /\ ToSet(keys) = {b} \cup ToSet(t)
  BY HeadAndTail
<1>1. n \in Nat /\ DOMAIN t = 1..n /\ \A i \in 1..n : t[i] \in V
  <2> HIDE DEF t
  <2> QED BY <1>0, LenProperties, ElementOfSeq
<1>2. ToSet(t) = {t[i] : i \in 1..n}
  <2> HIDE DEF t, n
  <2> QED BY <1>1 DEF ToSet
<1>3. ASSUME NEW r \in V, NEW x \in V
      PROVE  Take(r, x) \in {r, x} /\ (alive(r) \/ alive(x) => alive(Take(r, x)))
  <2>1. alive(r) \in BOOLEAN /\ alive(x) \in BOOLEAN
    BY DEF Track!SessionIsAlive
  <2>2. alive(x) # alive(r) => (Track!BetterMRKey(watched, agents, x, r) <=> alive(x))
    BY DEF Track!BetterMRKey
  <2> HIDE DEF alive
  <2> QED BY <2>1, <2>2
<1> HIDE DEF Take, b, t, alive
<1>4. G \in [V \X (1..n) -> V]
  BY <1>1, <1>3
<1>5. PICK it : IsFold(it, V, n, G, b)
  <2> HIDE DEF G, n
  <2> QED BY <1>0, <1>1, <1>4, FoldExists
<1>6. Is(it)
  <2>1. ASSUME NEW u \in (SUBSET (1..n)) \ {{}}
        PROVE  it[u] = Take(it[u \ {Max(u)}], t[Max(u)])
    <3>1. Max(u) \in 1..n
      BY <1>1, GreatestIndex
    <3>2. it[u \ {Max(u)}] \in V
      BY <1>5 DEF IsFold
    <3>3. it[u] = G[<<it[u \ {Max(u)}], Max(u)>>]
      BY <1>5 DEF IsFold
    <3> QED BY <3>1, <3>2, <3>3
  <2> HIDE DEF G, n
  <2> QED BY <1>5, <2>1 DEF IsFold
<1> DEFINE it2 == CHOOSE h : Is(h)
<1>7. Is(it2)
  <2> HIDE DEF Is
  <2> QED BY <1>6
<1>8. Track!PickCanonicalMRKey(watched, agents, keys) = it2[1..n]
  BY <1>1, SameMaxTrack DEF Track!PickCanonicalMRKey, Track!FoldLeft, Track!MapThenFoldSet, Take, b, t
<1>9. it2[{}] = b /\ \A k \in 1..n : it2[1..k] = Take(it2[1..(k - 1)], t[k])
  <2>1. {} \in SUBSET (1..n)
    OBVIOUS
  <2>2. \A k \in 1..n : /\ 1..k \in SUBSET (1..n) /\ 1..k # {}
           /\ Max(1..k) = k /\ (1..k) \ {Max(1..k)} = 1..(k - 1)
    BY <1>1, FoldPasses
  <2> HIDE DEF it2
  <2> QED BY <1>7, <2>1, <2>2
<1> HIDE DEF it2
<1>10. it2[{}] \in T[0]
  <2>1. Seen(0) = {b} /\ 0 \in 0..n
    BY <1>1
  <2> HIDE DEF n, Seen
  <2> QED BY <1>0, <1>9, <2>1
<1>11. ASSUME NEW k \in 1..n, it2[1..(k - 1)] \in T[k - 1] PROVE it2[1..k] \in T[k]
  <2>1. k \in 0..n /\ k - 1 \in 0..n /\ t[k] \in V
    BY <1>1
  <2>2. Seen(k) = Seen(k - 1) \cup {t[k]}
    <3>1. \A i \in 1..k : i \in 1..(k - 1) \/ i = k
      OBVIOUS
    <3>2. k \in 1..k /\ \A i \in 1..(k - 1) : i \in 1..k
      OBVIOUS
    <3> QED BY <3>1, <3>2
  <2> HIDE DEF Seen, n
  <2>3. /\ it2[1..(k - 1)] \in V /\ it2[1..(k - 1)] \in Seen(k - 1)
        /\ \A j \in Seen(k - 1) : alive(j) => alive(it2[1..(k - 1)])
    BY <1>11, <2>1
  <2>4. /\ it2[1..k] \in {it2[1..(k - 1)], t[k]}
        /\ alive(it2[1..(k - 1)]) \/ alive(t[k]) => alive(it2[1..k])
    BY <1>3, <1>9, <2>1, <2>3
  <2> QED BY <2>1, <2>2, <2>3, <2>4
<1>12. it2[1..n] \in T[n]
  <2> HIDE DEF T, n
  <2> QED BY <1>1, <1>10, <1>11, FoldStays
<1>13. n \in 0..n /\ ToSet(keys) = Seen(n)
  BY <1>0, <1>1, <1>2
<1> HIDE DEF it2, n, Seen
<1> QED BY <1>8, <1>12, <1>13 DEF alive

(* What an entry put together out of those in group has of each of them.       *)
Covers(watched, e, group) ==
    /\ \A g \in group : /\ e.note >= watched[g].note /\ e.fails >= watched[g].fails
                        /\ watched[g].asked => e.asked
                        /\ watched[g].state = "post_merge" => e.state = "post_merge"
    /\ \E g \in group : e.note = watched[g].note
    /\ e.reviewed \in {watched[g].reviewed : g \in group}

LEMMA MergeFields ==
    ASSUME NEW d \in Track!Entries, NEW s \in Track!Entries
    PROVE  LET m == Track!MergeWatchedMR(d, s) IN
           /\ m \in Track!Entries
           /\ m.note \in {d.note, s.note} /\ m.note >= d.note /\ m.note >= s.note
           /\ m.fails >= d.fails /\ m.fails >= s.fails
           /\ d.asked \/ s.asked => m.asked
           /\ d.state = "post_merge" \/ s.state = "post_merge" => m.state = "post_merge"
           /\ m.reviewed \in {d.reviewed, s.reviewed}
<1> DEFINE m == Track!MergeWatchedMR(d, s)
<1>1. /\ d.note \in Nat /\ s.note \in Nat /\ d.fails \in Nat /\ s.fails \in Nat
      /\ d.pipeline \in Nat /\ s.pipeline \in Nat /\ d.checks \in Nat /\ s.checks \in Nat
      /\ d.checked \in Nat /\ s.checked \in Nat /\ d.reviewed \in Nat /\ s.reviewed \in Nat
      /\ d.asked \in BOOLEAN /\ s.asked \in BOOLEAN /\ d.pending \in BOOLEAN /\ s.pending \in BOOLEAN
      /\ d.labeled \in BOOLEAN /\ s.labeled \in BOOLEAN /\ d.mainDone \in BOOLEAN /\ s.mainDone \in BOOLEAN
      /\ d.parcelle \in STRING /\ s.parcelle \in STRING
      /\ d.state \in {"", "post_merge"} /\ s.state \in {"", "post_merge"}
      /\ d.repo \in Repo \cup {""} /\ d.mr \in Nat
  BY DEF Track!Entries
<1>2. /\ m = [repo |-> d.repo, mr |-> d.mr, parcelle |-> m.parcelle, note |-> m.note, pipeline |-> m.pipeline,
              fails |-> m.fails, pending |-> m.pending, reviewed |-> m.reviewed, asked |-> m.asked,
              labeled |-> m.labeled, state |-> m.state, checks |-> m.checks, mainDone |-> m.mainDone,
              checked |-> m.checked]
      /\ m.parcelle = Track!Filled(d.parcelle, s.parcelle, "")
      /\ m.note = Track!Larger(d.note, s.note) /\ m.pipeline = Track!Larger(d.pipeline, s.pipeline)
      /\ m.fails = Track!Larger(d.fails, s.fails) /\ m.checks = Track!Larger(d.checks, s.checks)
      /\ m.pending = (d.pending \/ s.pending) /\ m.asked = (d.asked \/ s.asked)
      /\ m.labeled = (d.labeled \/ s.labeled) /\ m.mainDone = (d.mainDone \/ s.mainDone)
      /\ m.reviewed = Track!Filled(d.reviewed, s.reviewed, 0)
      /\ m.state = (IF Track!MRStateRank(s.state) > Track!MRStateRank(d.state) THEN s.state ELSE d.state)
      /\ m.checked = Track!Larger(d.checked, s.checked)
  <2> DEFINE v1 == Track!Filled(d.parcelle, s.parcelle, "")
             v2 == Track!Larger(d.note, s.note)
             v3 == Track!Larger(d.pipeline, s.pipeline)
             v4 == Track!Larger(d.fails, s.fails)
             v5 == Track!Larger(d.checks, s.checks)
             v6 == d.pending \/ s.pending
             v7 == d.asked \/ s.asked
             v8 == d.labeled \/ s.labeled
             v9 == d.mainDone \/ s.mainDone
             v10 == Track!Filled(d.reviewed, s.reviewed, 0)
             v11 == IF Track!MRStateRank(s.state) > Track!MRStateRank(d.state) THEN s.state ELSE d.state
             v12 == Track!Larger(d.checked, s.checked)
  <2>1. m = [d EXCEPT !.parcelle = v1, !.note = v2, !.pipeline = v3, !.fails = v4, !.checks = v5,
                      !.pending = v6, !.asked = v7, !.labeled = v8, !.mainDone = v9, !.reviewed = v10,
                      !.state = v11, !.checked = v12]
    BY DEF Track!MergeWatchedMR
  <2>2. d = [repo |-> d.repo, mr |-> d.mr, parcelle |-> d.parcelle, note |-> d.note, pipeline |-> d.pipeline,
              fails |-> d.fails, pending |-> d.pending, reviewed |-> d.reviewed, asked |-> d.asked,
              labeled |-> d.labeled, state |-> d.state, checks |-> d.checks, mainDone |-> d.mainDone,
              checked |-> d.checked]
    BY DEF Track!Entries
  <2> HIDE DEF m, v1, v2, v3, v4, v5, v6, v7, v8, v9, v10, v11, v12
  <2>3. m = [repo |-> d.repo, mr |-> d.mr, parcelle |-> v1, note |-> v2, pipeline |-> v3,
              fails |-> v4, pending |-> v6, reviewed |-> v10, asked |-> v7,
              labeled |-> v8, state |-> v11, checks |-> v5, mainDone |-> v9,
              checked |-> v12]
    BY <2>1, <2>2
  <2>4. /\ m.parcelle = v1 /\ m.note = v2 /\ m.pipeline = v3 /\ m.fails = v4 /\ m.pending = v6 /\ m.reviewed = v10
        /\ m.asked = v7 /\ m.labeled = v8 /\ m.state = v11 /\ m.checks = v5 /\ m.mainDone = v9 /\ m.checked = v12
    BY <2>3
  <2> QED BY <2>3, <2>4 DEF v1, v2, v3, v4, v5, v6, v7, v8, v9, v10, v11, v12
<1> HIDE DEF m
<1>3. /\ m.parcelle \in {d.parcelle, s.parcelle} /\ m.reviewed \in {d.reviewed, s.reviewed}
  BY <1>2 DEF Track!Filled
<1>4. \A x, y \in Nat : Track!Larger(x, y) \in {x, y} /\ Track!Larger(x, y) >= x /\ Track!Larger(x, y) >= y
  BY DEF Track!Larger
<1>5. /\ m.state \in {d.state, s.state}
      /\ d.state = "post_merge" \/ s.state = "post_merge" => m.state = "post_merge"
  <2>1. CASE d.state = "post_merge" /\ s.state = "post_merge"
    BY <1>2, <2>1
  <2>2. CASE d.state = "post_merge" /\ s.state # "post_merge"
    <3>1. Track!MRStateRank(d.state) = 1 /\ Track!MRStateRank(s.state) = 0
      BY <2>2 DEF Track!MRStateRank
    <3>2. ~(Track!MRStateRank(s.state) > Track!MRStateRank(d.state))
      BY <3>1
    <3> QED BY <1>2, <2>2, <3>2
  <2>3. CASE d.state # "post_merge" /\ s.state = "post_merge"
    <3>1. Track!MRStateRank(d.state) = 0 /\ Track!MRStateRank(s.state) = 1
      BY <2>3 DEF Track!MRStateRank
    <3>2. Track!MRStateRank(s.state) > Track!MRStateRank(d.state)
      BY <3>1
    <3> QED BY <1>2, <2>3, <3>2
  <2>4. CASE d.state # "post_merge" /\ s.state # "post_merge"
    BY <1>2, <2>4
  <2> QED BY <2>1, <2>2, <2>3, <2>4
<1>6. m.note \in {d.note, s.note} /\ m.note >= d.note /\ m.note >= s.note
  BY ZenonT(60), <1>1, <1>2, <1>4
<1>7. m.fails \in {d.fails, s.fails} /\ m.fails >= d.fails /\ m.fails >= s.fails
  BY ZenonT(60), <1>1, <1>2, <1>4
<1>8. m.pipeline \in Nat /\ m.checks \in Nat /\ m.checked \in Nat
  BY <1>1, <1>2, <1>4
<1>9. m.pending \in BOOLEAN /\ m.asked \in BOOLEAN /\ m.labeled \in BOOLEAN /\ m.mainDone \in BOOLEAN
  BY <1>1, <1>2
<1>10. m \in Track!Entries
  <2>1. /\ m.note \in Nat /\ m.fails \in Nat /\ m.reviewed \in Nat /\ m.parcelle \in STRING
        /\ m.state \in {"", "post_merge"}
    BY <1>1, <1>3, <1>5, <1>6, <1>7
  <2>2. [repo |-> d.repo, mr |-> d.mr, parcelle |-> m.parcelle, note |-> m.note, pipeline |-> m.pipeline,
              fails |-> m.fails, pending |-> m.pending, reviewed |-> m.reviewed, asked |-> m.asked,
              labeled |-> m.labeled, state |-> m.state, checks |-> m.checks, mainDone |-> m.mainDone,
              checked |-> m.checked] \in Track!Entries
    BY <1>1, <1>8, <1>9, <2>1 DEF Track!Entries
  <2> QED BY <1>2, <2>2
<1> QED BY <1>2, <1>3, <1>5, <1>6, <1>7, <1>10 DEF m

LEMMA MergeCovers ==
    ASSUME NEW watched, NEW group, NEW e \in Track!Entries, NEW j, watched[j] \in Track!Entries,
           \A g \in group : watched[g] \in Track!Entries, Covers(watched, e, group)
    PROVE  LET m == Track!MergeWatchedMR(e, watched[j]) IN m \in Track!Entries /\ Covers(watched, m, group \cup {j})
<1> DEFINE m == Track!MergeWatchedMR(e, watched[j])
           wide == group \cup {j}
<1>1. /\ m \in Track!Entries
      /\ m.note \in {e.note, watched[j].note} /\ m.note >= e.note /\ m.note >= watched[j].note
      /\ m.fails >= e.fails /\ m.fails >= watched[j].fails
      /\ e.asked \/ watched[j].asked => m.asked
      /\ e.state = "post_merge" \/ watched[j].state = "post_merge" => m.state = "post_merge"
      /\ m.reviewed \in {e.reviewed, watched[j].reviewed}
  BY MergeFields
<1> HIDE DEF m
<1>2. /\ m.note \in Nat /\ m.fails \in Nat /\ e.note \in Nat /\ e.fails \in Nat
      /\ \A g \in group : watched[g].note \in Nat /\ watched[g].fails \in Nat
  BY <1>1 DEF Track!Entries
<1>3. ASSUME NEW g \in wide
      PROVE  /\ m.note >= watched[g].note /\ m.fails >= watched[g].fails
             /\ watched[g].asked => m.asked
             /\ watched[g].state = "post_merge" => m.state = "post_merge"
  <2>1. CASE g = j
    BY <1>1, <2>1
  <2>2. CASE g \in group
    <3>1. /\ e.note >= watched[g].note /\ e.fails >= watched[g].fails
          /\ watched[g].asked => e.asked
          /\ watched[g].state = "post_merge" => e.state = "post_merge"
      BY <2>2 DEF Covers
    <3>2. m.note >= watched[g].note /\ m.fails >= watched[g].fails
      BY <1>1, <1>2, <2>2, <3>1
    <3> QED BY <1>1, <3>1, <3>2
  <2> QED BY <1>3, <2>1, <2>2
<1>4. \E g \in wide : m.note = watched[g].note
  BY <1>1 DEF Covers
<1>5. m.reviewed \in {watched[g].reviewed : g \in wide}
  BY <1>1 DEF Covers
<1> HIDE DEF wide
<1>6. Covers(watched, m, wide)
  BY <1>3, <1>4, <1>5 DEF Covers
<1> QED BY <1>1, <1>6 DEF m, wide

(* All of a group put together.                                                *)
LEMMA MergedIs ==
    ASSUME NEW W, NEW watched \in [W -> Track!Entries], NEW k \in W, NEW keys \in Seq(W)
    PROVE  Covers(watched, Track!MergedMR(watched, k, keys), {k} \cup ToSet(keys))
<1> DEFINE n == Len(keys)
           S == Track!Entries
           b == watched[k]
           Take(e, j) == IF j = k THEN e ELSE Track!MergeWatchedMR(e, watched[j])
           G == [p \in S \X (1..n) |-> Take(p[1], keys[p[2]])]
           Is(it) == it = [u \in SUBSET (1..n) |->
                        IF u = {} THEN b ELSE Take(it[u \ {Max(u)}], keys[Max(u)])]
           Seen(i) == {k} \cup {keys[o] : o \in 1..i}
           T == [i \in 0..n |-> {e \in S : Covers(watched, e, Seen(i))}]
<1>1. n \in Nat /\ DOMAIN keys = 1..n /\ \A i \in 1..n : keys[i] \in W
  BY LenProperties, ElementOfSeq
<1>2. b \in S /\ Covers(watched, b, {k})
  <2>1. b \in S
    OBVIOUS
  <2>2. b.note \in Nat /\ b.fails \in Nat
    BY <2>1 DEF Track!Entries
  <2> HIDE DEF S
  <2> QED BY <2>1, <2>2 DEF Covers
<1>3. ASSUME NEW e \in S, NEW j \in W, NEW group \in SUBSET W, k \in group, Covers(watched, e, group)
      PROVE  Take(e, j) \in S /\ Covers(watched, Take(e, j), group \cup {j})
  <2>1. CASE j = k
    <3>1. group \cup {j} = group
      BY <1>3, <2>1
    <3> QED BY <1>3, <2>1, <3>1
  <2>2. CASE j # k
    <3>1. watched[j] \in S /\ \A g \in group : watched[g] \in S
      OBVIOUS
    <3>2. Take(e, j) = Track!MergeWatchedMR(e, watched[j])
      BY <2>2
    <3> HIDE DEF Take
    <3>3. e \in Track!Entries /\ watched[j] \in Track!Entries /\ \A g \in group : watched[g] \in Track!Entries
      BY <3>1
    <3> DEFINE m == Track!MergeWatchedMR(e, watched[j])
    <3>4. m \in Track!Entries /\ Covers(watched, m, group \cup {j})
      BY <1>3, <3>3, MergeCovers
    <3> QED BY <3>2, <3>4
  <2> QED BY <2>1, <2>2
<1>4. \A e \in S : \A j \in W : Take(e, j) \in S
  BY MergeFields
<1> HIDE DEF Take, b, S
<1>5. G \in [S \X (1..n) -> S]
  BY <1>1, <1>4
<1>6. PICK it : IsFold(it, S, n, G, b)
  <2> HIDE DEF G, n
  <2> QED BY <1>1, <1>2, <1>5, FoldExists
<1>7. Is(it)
  <2>1. ASSUME NEW u \in (SUBSET (1..n)) \ {{}}
        PROVE  it[u] = Take(it[u \ {Max(u)}], keys[Max(u)])
    <3>1. Max(u) \in 1..n
      BY <1>1, GreatestIndex
    <3>2. it[u \ {Max(u)}] \in S
      BY <1>6 DEF IsFold
    <3>3. it[u] = G[<<it[u \ {Max(u)}], Max(u)>>]
      BY <1>6 DEF IsFold
    <3> QED BY <3>1, <3>2, <3>3
  <2> HIDE DEF G, n
  <2> QED BY <1>6, <2>1 DEF IsFold
<1> DEFINE it2 == CHOOSE h : Is(h)
<1>8. Is(it2)
  <2> HIDE DEF Is
  <2> QED BY <1>7
<1>9. Track!MergedMR(watched, k, keys) = it2[1..n]
  BY <1>1, SameMaxTrack DEF Track!MergedMR, Track!FoldLeft, Track!MapThenFoldSet, Take, b
<1>10. it2[{}] = b /\ \A i \in 1..n : it2[1..i] = Take(it2[1..(i - 1)], keys[i])
  <2>1. {} \in SUBSET (1..n)
    OBVIOUS
  <2>2. \A i \in 1..n : /\ 1..i \in SUBSET (1..n) /\ 1..i # {}
           /\ Max(1..i) = i /\ (1..i) \ {Max(1..i)} = 1..(i - 1)
    BY <1>1, FoldPasses
  <2> HIDE DEF it2
  <2> QED BY <1>8, <2>1, <2>2
<1> HIDE DEF it2
<1>11. it2[{}] \in T[0]
  <2>1. Seen(0) = {k} /\ 0 \in 0..n
    BY <1>1
  <2> HIDE DEF n, Seen
  <2> QED BY <1>2, <1>10, <2>1
<1>12. ASSUME NEW i \in 1..n, it2[1..(i - 1)] \in T[i - 1] PROVE it2[1..i] \in T[i]
  <2>1. i \in 0..n /\ i - 1 \in 0..n /\ keys[i] \in W
    BY <1>1
  <2>2. Seen(i) = Seen(i - 1) \cup {keys[i]} /\ Seen(i - 1) \in SUBSET W /\ k \in Seen(i - 1)
    <3>1. \A o \in 1..i : o \in 1..(i - 1) \/ o = i
      OBVIOUS
    <3>2. i \in 1..i /\ \A o \in 1..(i - 1) : o \in 1..i /\ o \in 1..n
      BY <1>1
    <3> HIDE DEF n
    <3> QED BY <1>1, <3>1, <3>2
  <2> HIDE DEF Seen, n
  <2>3. it2[1..(i - 1)] \in S /\ Covers(watched, it2[1..(i - 1)], Seen(i - 1))
    BY <1>12, <2>1
  <2>4. it2[1..i] \in S /\ Covers(watched, it2[1..i], Seen(i))
    BY <1>3, <1>10, <2>1, <2>2, <2>3
  <2> QED BY <2>1, <2>4
<1>13. it2[1..n] \in T[n]
  <2> HIDE DEF T, n
  <2> QED BY <1>1, <1>11, <1>12, FoldStays
<1>14. n \in 0..n /\ {k} \cup ToSet(keys) = Seen(n)
  BY <1>1 DEF ToSet
<1> HIDE DEF it2, n, Seen
<1> QED BY <1>9, <1>13, <1>14

(* One entry is all of its group.                                              *)
LEMMA CoversItself ==
    ASSUME NEW watched, NEW k, watched[k] \in Track!Entries
    PROVE  Covers(watched, watched[k], {k})
<1>1. watched[k].note \in Nat /\ watched[k].fails \in Nat
  BY DEF Track!Entries
<1> QED BY <1>1 DEF Covers

LEMMA OneMember ==
    ASSUME NEW V, NEW s \in Seq(V), ~(Len(s) > 1), NEW k \in ToSet(s)
    PROVE  ToSet(s) = {k}
<1>1. Len(s) \in Nat /\ DOMAIN s = 1..Len(s)
  BY LenProperties
<1>2. PICK i \in 1..Len(s) : k = s[i]
  BY <1>1 DEF ToSet
<1>3. \A j \in 1..Len(s) : j = i
  BY <1>1
<1> QED BY <1>1, <1>2, <1>3 DEF ToSet

(* Of the entries for one merge request, what is left.                         *)
LEMMA GroupIsOne ==
    ASSUME NEW q, q.watched \in [DOMAIN q.watched -> Track!Entries],
           q.order \in Seq(DOMAIN q.watched), ToSet(q.order) = DOMAIN q.watched,
           NEW k \in DOMAIN q.watched, q.watched[k].repo # "", q.watched[k].mr # 0
    PROVE  LET a == OnReconcile(q)
               group == Same(q.watched, q.watched[k])
           IN  \E l \in group : /\ group \cap DOMAIN a = {l}
                                /\ Covers(q.watched, a[l], group)
                                /\ \A g \in group : Track!SessionIsAlive(q.agents, g) => Track!SessionIsAlive(q.agents, l)
<1> DEFINE W == DOMAIN q.watched
           a == OnReconcile(q)
           group == Same(q.watched, q.watched[k])
           same(j) == Track!SameMR(q.watched, q.order, j)
           mate(j) == {i \in W : q.watched[i].repo = q.watched[j].repo /\ q.watched[i].mr = q.watched[j].mr}
           grouped(j) == q.watched[j].repo # "" /\ q.watched[j].mr # 0 /\ Len(same(j)) > 1
           canonical(j) == Track!PickCanonicalMRKey(q.watched, q.agents, same(j))
           kept == {j \in W : grouped(j) => canonical(j) = j}
           keys == same(k)
           alive(j) == Track!SessionIsAlive(q.agents, j)
<1>1. a = [j \in kept |-> IF grouped(j) THEN Track!MergedMR(q.watched, j, same(j)) ELSE q.watched[j]]
  BY DEF OnReconcile, Track!ReconcileDuplicateMRs
<1>2. group = mate(k) /\ group \in SUBSET W /\ k \in group
  BY DEF Same
<1>3. keys \in Seq(W) /\ ToSet(keys) = group
  <2>1. Track!ToSet(q.order) \cap mate(k) = mate(k)
    BY SameToSet
  <2> DEFINE V == W
             keep == mate(k)
             s == q.order
  <2> HIDE DEF V, keep, s
  <2>2. s \in Seq(V) => Track!Among(s, keep) \in Seq(V) /\ Track!ToSet(Track!Among(s, keep)) = Track!ToSet(s) \cap keep
    BY AmongIs
  <2>3. keys = Track!Among(s, keep)
    BY DEF Track!SameMR, s, keep
  <2> HIDE DEF keys, group
  <2> QED BY <1>2, <2>1, <2>2, <2>3, SameToSet DEF V, keep, s
<1>4. ASSUME NEW j \in group
      PROVE  /\ q.watched[j].repo = q.watched[k].repo /\ q.watched[j].mr = q.watched[k].mr
             /\ same(j) = keys
  <2>1. q.watched[j].repo = q.watched[k].repo /\ q.watched[j].mr = q.watched[k].mr
    BY <1>2
  <2>2. mate(j) = mate(k)
    BY <2>1
  <2> QED BY <2>1, <2>2 DEF Track!SameMR
<1>5. \A j \in group : grouped(j) <=> Len(keys) > 1
  <2> DEFINE blank == ""
  <2>1. q.watched[k].repo # blank /\ \A j \in group : grouped(j) <=> q.watched[j].repo # blank /\ q.watched[j].mr # 0 /\ Len(same(j)) > 1
    OBVIOUS
  <2> HIDE DEF grouped, group, same, blank, keys
  <2> QED BY <1>4, <2>1
<1>6. \A j \in group : canonical(j) = canonical(k)
  BY <1>4
<1> HIDE DEF same, mate
<1>7. \A j \in kept : a[j] = IF grouped(j) THEN Track!MergedMR(q.watched, j, same(j)) ELSE q.watched[j]
  <2> HIDE DEF kept, grouped, a
  <2> QED BY <1>1
<1>8. DOMAIN a = kept
  <2> HIDE DEF kept, grouped, a
  <2> QED BY <1>1
<1> HIDE DEF a
<1>9. CASE Len(keys) > 1
  <2> DEFINE l == canonical(k)
  <2>1. keys # <<>>
    <3> HIDE DEF keys, group
    <3>1. ASSUME keys = <<>> PROVE FALSE
      <4>1. ToSet(keys) = {}
        BY <3>1, NothingIn
      <4> QED BY <1>2, <1>3, <4>1
    <3> QED BY <3>1
  <2>2. l \in group /\ \A g \in group : alive(g) => alive(l)
    <3> DEFINE V == W
    <3> HIDE DEF V, keys
    <3>1. keys \in Seq(V)
      BY <1>3 DEF V
    <3>2. /\ Track!PickCanonicalMRKey(q.watched, q.agents, keys) \in ToSet(keys)
          /\ \A j \in ToSet(keys) : alive(j) => alive(Track!PickCanonicalMRKey(q.watched, q.agents, keys))
      BY <2>1, <3>1, CanonicalIs
    <3> QED BY <1>3, <3>2 DEF keys
  <2>3. \A j \in group : j \in kept <=> l = j
    <3> HIDE DEF grouped, canonical, group
    <3> QED BY <1>2, <1>5, <1>6, <1>9
  <2>4. group \cap DOMAIN a = {l}
    BY <1>8, <2>2, <2>3
  <2>5. a[l] = Track!MergedMR(q.watched, l, keys)
    <3>1. l \in kept /\ grouped(l) /\ same(l) = keys
      <4> HIDE DEF grouped, kept, group, canonical, keys
      <4> QED BY <1>4, <1>5, <1>9, <2>2, <2>3
    <3> HIDE DEF grouped, kept, keys
    <3> QED BY <1>7, <3>1
  <2>6. Covers(q.watched, a[l], group)
    <3> HIDE DEF l, keys, group
    <3>1. {l} \cup ToSet(keys) = group
      BY <1>3, <2>2
    <3>2. l \in W
      BY <1>2, <2>2
    <3>3. Covers(q.watched, Track!MergedMR(q.watched, l, keys), {l} \cup ToSet(keys))
      BY <1>3, <3>2, MergedIs
    <3> QED BY <2>5, <3>1, <3>3
  <2> HIDE DEF l, group, a
  <2> QED BY <2>2, <2>4, <2>6 DEF a, group
<1>10. CASE ~(Len(keys) > 1)
  <2>1. group = {k}
    <3> HIDE DEF keys, group
    <3> QED BY <1>2, <1>3, <1>10, OneMember
  <2>2. k \in kept /\ a[k] = q.watched[k]
    <3>1. ~grouped(k)
      <4> HIDE DEF grouped
      <4> QED BY <1>2, <1>5, <1>10
    <3> HIDE DEF grouped
    <3> QED BY <1>7, <3>1
  <2>3. Covers(q.watched, a[k], group)
    <3>1. q.watched[k] \in Track!Entries
      OBVIOUS
    <3> QED BY <2>1, <2>2, <3>1, CoversItself
  <2>4. group \cap DOMAIN a = {k}
    BY <1>8, <2>1, <2>2
  <2>5. \A g \in group : alive(g) => alive(k)
    BY <2>1
  <2> HIDE DEF group, a
  <2> QED BY <1>2, <2>3, <2>4, <2>5 DEF a, group
<1> QED BY <1>9, <1>10

(* What one entry comes to when duplicates are put together.                   *)
PutTogether(q, a, k) ==
    LET group == Same(q.watched, q.watched[k])
        left == group \cap DOMAIN a
    IN  IF q.watched[k].mr = 0 \/ q.watched[k].repo = "" THEN a[k] = q.watched[k]
        ELSE /\ Cardinality(left) = 1
             /\ \A l \in left :
                    /\ \A g \in group :
                         /\ a[l].note >= q.watched[g].note /\ a[l].fails >= q.watched[g].fails
                         /\ q.watched[g].asked => a[l].asked
                         /\ q.watched[g].state = "post_merge" => a[l].state = "post_merge"
                         /\ Live(q.agents, g) => Live(q.agents, l)
                    /\ \E g \in group : a[l].note = q.watched[g].note
                    /\ a[l].reviewed \in {q.watched[g].reviewed : g \in group}

LEMMA Reconciled ==
    ASSUME NEW q, q.watched \in [DOMAIN q.watched -> Track!Entries],
           q.order \in Seq(DOMAIN q.watched), ToSet(q.order) = DOMAIN q.watched,
           \A k \in DOMAIN q.agents : q.agents[k].state \in {"working", "stopped", "done", ""},
           NEW k \in DOMAIN q.watched
    PROVE  PutTogether(q, OnReconcile(q), k)
<1> DEFINE a == OnReconcile(q)
           group == Same(q.watched, q.watched[k])
           left == group \cap DOMAIN a
           blank == ""
<1>1. CASE q.watched[k].mr = 0 \/ q.watched[k].repo = blank
  <2> DEFINE same(j) == Track!SameMR(q.watched, q.order, j)
             grouped(j) == q.watched[j].repo # "" /\ q.watched[j].mr # 0 /\ Len(same(j)) > 1
             canonical(j) == Track!PickCanonicalMRKey(q.watched, q.agents, same(j))
             kept == {j \in DOMAIN q.watched : grouped(j) => canonical(j) = j}
  <2>1. a = [j \in kept |-> IF grouped(j) THEN Track!MergedMR(q.watched, j, same(j)) ELSE q.watched[j]]
    BY DEF OnReconcile, Track!ReconcileDuplicateMRs
  <2>2. ~grouped(k)
    BY <1>1, Zenon
  <2> HIDE DEF a, grouped, canonical
  <2>3. k \in kept
    BY <2>2
  <2>4. a[k] = q.watched[k]
    <3> HIDE DEF kept
    <3> QED BY <2>1, <2>2, <2>3
  <2> HIDE DEF group, left, blank
  <2> QED BY <1>1, <2>4 DEF a, blank, PutTogether
<1>2. CASE q.watched[k].mr # 0 /\ q.watched[k].repo # blank
  <2>1. PICK l \in group : /\ left = {l} /\ Covers(q.watched, a[l], group)
                           /\ \A g \in group : Track!SessionIsAlive(q.agents, g) => Track!SessionIsAlive(q.agents, l)
    <3>1. q.watched[k].mr # 0 /\ q.watched[k].repo # ""
      BY <1>2
    <3> HIDE DEF group, a
    <3> QED BY <3>1, GroupIsOne DEF group, a
  <2>2. \A j : Track!SessionIsAlive(q.agents, j) <=> Live(q.agents, j)
    BY DEF Track!SessionIsAlive, Live
  <2> HIDE DEF group, left, a, blank
  <2>3. Cardinality(left) = 1
    BY <2>1, FS_Singleton
  <2>4. /\ \A g \in group :
                /\ a[l].note >= q.watched[g].note /\ a[l].fails >= q.watched[g].fails
                /\ q.watched[g].asked => a[l].asked
                /\ q.watched[g].state = "post_merge" => a[l].state = "post_merge"
        /\ \E g \in group : a[l].note = q.watched[g].note
        /\ a[l].reviewed \in {q.watched[g].reviewed : g \in group}
    BY <2>1 DEF Covers
  <2>5. ~(q.watched[k].mr = 0 \/ q.watched[k].repo = blank)
    BY <1>2
  <2> QED BY <2>1, <2>2, <2>3, <2>4, <2>5 DEF a, group, left, blank, PutTogether
<1> HIDE DEF a
<1>3. CASE ~(q.watched[k].mr = 0 \/ q.watched[k].repo = blank)
  BY <1>2, <1>3
<1> QED BY <1>1, <1>3 DEF a

LEMMA Registered ==
    ASSUME NEW q, q.watched \in [DOMAIN q.watched -> Track!Entries], IsFiniteSet(DOMAIN q.watched),
           q.key \in DOMAIN q.watched => q.watched[q.key].repo = q.repo,
           NEW w \in OnRegister(q)
    PROVE  LET new == [repo |-> q.repo, mr |-> q.mr]
               before == Same(q.watched, new)
           IN  /\ Same(w, new) # {}
               /\ Cardinality(Same(w, new)) <= (IF before = {} THEN 1 ELSE Cardinality(before))
               /\ \A k \in before : w[k].note = q.watched[k].note /\ w[k].asked = q.watched[k].asked
               /\ DOMAIN q.watched \subseteq DOMAIN w
<1> DEFINE W == DOMAIN q.watched
           new == [repo |-> q.repo, mr |-> q.mr]
           before == Same(q.watched, new)
           val(e) == IF q.parcelle = "" THEN e.parcelle ELSE q.parcelle
           fresh(e) == [e EXCEPT !.repo = q.repo, !.checked = 9,
                              !.parcelle = IF q.parcelle = "" THEN @ ELSE q.parcelle]
           others == {k \in W \ {q.key} : q.watched[k].repo = q.repo /\ q.watched[k].mr = q.mr}
           added == [Track!NewEntry(q.repo, q.mr, 9) EXCEPT !.parcelle = q.parcelle]
           here == q.key \in W /\ q.watched[q.key].mr = q.mr
<1>1. before = {k \in W : q.watched[k].repo = q.repo /\ q.watched[k].mr = q.mr}
  BY DEF Same
<1>2. Cardinality(before) \in Nat /\ \A x : Cardinality({x}) = 1
  <2>1. IsFiniteSet(before)
    <3>1. before \subseteq W
      BY <1>1
    <3> HIDE DEF before
    <3> QED BY <3>1, FS_Subset
  <2> HIDE DEF before
  <2> QED BY <2>1, FS_CardinalityType, FS_Singleton
<1>3. \A u : Same(u, new) = {k \in DOMAIN u : u[k].repo = q.repo /\ u[k].mr = q.mr}
  BY DEF Same
<1>4. \A e \in Track!Entries : /\ fresh(e).repo = q.repo /\ fresh(e).mr = e.mr /\ fresh(e).note = e.note
                               /\ fresh(e).asked = e.asked
  <2> SUFFICES ASSUME NEW e \in Track!Entries
               PROVE  /\ fresh(e).repo = q.repo /\ fresh(e).mr = e.mr /\ fresh(e).note = e.note
                      /\ fresh(e).asked = e.asked
    OBVIOUS
  <2> DEFINE p == val(e)
  <2>1. fresh(e) = [e EXCEPT !.repo = q.repo, !.checked = 9, !.parcelle = p]
    OBVIOUS
  <2> HIDE DEF p, fresh
  <2>2. {"repo", "mr", "note", "asked", "checked", "parcelle"} \subseteq DOMAIN e
    BY DEF Track!Entries
  <2> QED BY <2>1, <2>2
<1>5. /\ here => w = [q.watched EXCEPT ![q.key] = fresh(@)]
      /\ ~here /\ others # {} => \E k \in others : w = [q.watched EXCEPT ![k] = fresh(@)]
      /\ ~here /\ others = {} => w = [k \in W \cup {q.key} |-> IF k = q.key THEN added ELSE q.watched[k]]
  <2> HIDE DEF fresh, added
  <2>1. w \in (IF here THEN {[q.watched EXCEPT ![q.key] = fresh(@)]}
               ELSE IF others # {} THEN {[q.watched EXCEPT ![k] = fresh(@)] : k \in others}
               ELSE {[k \in W \cup {q.key} |-> IF k = q.key THEN added ELSE q.watched[k]]})
    BY DEF OnRegister, Track!RegisterWatchedMR, fresh, added
  <2> HIDE DEF others, here
  <2> QED BY SMTT(30), <2>1
<1>6. added.repo = q.repo /\ added.mr = q.mr
  BY DEF Track!NewEntry
<1>7. \A k \in W : q.watched[k] \in Track!Entries
  OBVIOUS
<1> HIDE DEF fresh, added
(* Whichever entry is refreshed was one for this merge request already.        *)
<1>8. ASSUME NEW k \in before, w = [q.watched EXCEPT ![k] = fresh(@)]
      PROVE  /\ Same(w, new) # {}
             /\ Cardinality(Same(w, new)) <= (IF before = {} THEN 1 ELSE Cardinality(before))
             /\ \A j \in before : w[j].note = q.watched[j].note /\ w[j].asked = q.watched[j].asked
             /\ W \subseteq DOMAIN w
  <2>1. k \in W /\ q.watched[k].repo = q.repo /\ q.watched[k].mr = q.mr
    BY <1>1
  <2>2. DOMAIN w = W /\ w[k] = fresh(q.watched[k]) /\ \A j \in W \ {k} : w[j] = q.watched[j]
    BY <1>8, <2>1
  <2>3. w[k].repo = q.repo /\ w[k].mr = q.mr /\ w[k].note = q.watched[k].note /\ w[k].asked = q.watched[k].asked
    BY <1>4, <1>7, <2>1, <2>2
  <2>4. \A j \in W : /\ w[j].note = q.watched[j].note /\ w[j].asked = q.watched[j].asked
                     /\ w[j].repo = q.repo /\ w[j].mr = q.mr <=> q.watched[j].repo = q.repo /\ q.watched[j].mr = q.mr
    BY <2>1, <2>2, <2>3
  <2>5. Same(w, new) = before
    BY <1>1, <1>3, <2>2, <2>4
  <2>6. \A j \in before : j \in W
    BY <1>1
  <2> HIDE DEF before, new, W
  <2> QED BY <1>2, <2>2, <2>4, <2>5, <2>6
<1>9. CASE here
  <2>1. q.key \in before
    BY <1>1, <1>9
  <2> HIDE DEF before, new
  <2> QED BY <1>5, <1>8, <1>9, <2>1 DEF before, new
<1>10. CASE ~here /\ others # {}
  <2>1. PICK k \in others : w = [q.watched EXCEPT ![k] = fresh(@)]
    BY <1>5, <1>10
  <2>2. k \in before
    BY <1>1
  <2> HIDE DEF before, new
  <2> QED BY <1>8, <2>1, <2>2 DEF before, new
<1>11. CASE ~here /\ others = {}
  <2>1. w = [k \in W \cup {q.key} |-> IF k = q.key THEN added ELSE q.watched[k]]
    BY <1>5, <1>11
  <2>2. before = {}
    BY <1>1, <1>11
  <2>3. DOMAIN w = W \cup {q.key} /\ w[q.key] = added /\ \A k \in W \ {q.key} : w[k] = q.watched[k]
    BY <2>1
  <2>4. \A k \in W \ {q.key} : ~(w[k].repo = q.repo /\ w[k].mr = q.mr)
    BY <1>11, <2>3
  <2>5. Same(w, new) = {q.key}
    <3> HIDE DEF others, here, before
    <3> QED BY <1>3, <1>6, <2>3, <2>4
  <2> HIDE DEF before, new, others, here
  <2>6. /\ Same(w, new) # {} /\ Cardinality(Same(w, new)) <= 1 /\ W \subseteq DOMAIN w
    <3> HIDE DEF W, added
    <3>1. Cardinality({q.key}) = 1
      BY FS_Singleton
    <3>2. W \subseteq DOMAIN w
      BY <2>3
    <3>3. Same(w, new) # {} /\ Cardinality(Same(w, new)) = 1
      BY <2>5, <3>1
    <3> QED BY <3>2, <3>3
  <2> QED BY <2>2, <2>6 DEF before, new
<1> QED BY <1>9, <1>10, <1>11

LEMMA FirstOfThem ==
    ASSUME NEW V, NEW s \in Seq(V), NEW keep
    PROVE  LET a == Track!Among(s, keep) IN a # <<>> => Head(a) \in V /\ Head(a) \in keep
<1> DEFINE a == Track!Among(s, keep)
<1>1. a \in Seq(V) /\ ToSet(a) = ToSet(s) \cap keep
  BY AmongIs, SameToSet
<1> HIDE DEF a
<1>2. ASSUME a # <<>> PROVE Head(a) \in V /\ Head(a) \in keep
  <2>1. Head(a) \in V /\ Head(a) \in ToSet(a)
    BY <1>1, <1>2, HeadAndTail
  <2> QED BY <1>1, <2>1
<1> QED BY <1>2 DEF a

LEMMA SameCardinality == \A s : Track!Cardinality(s) = Cardinality(s)
BY DEF Track!Cardinality, Cardinality

(* The records a search looks through.                                         *)
Searched(q) ==
    /\ q.agents \in [DOMAIN q.agents -> Track!Records] /\ IsFiniteSet(DOMAIN q.agents)
    /\ Track!NoKey \notin DOMAIN q.agents /\ "" \notin DOMAIN q.agents
    /\ q.order \in Seq(DOMAIN q.agents) /\ q.order # <<>>

LEMMA OursIs ==
    ASSUME NEW r \in Track!Records PROVE Track!Ours(r, "ours") <=> r.vignoble # "theirs"
BY DEF Track!Ours, Track!Records

ByNumber(q, a) ==
    LET r == q.agents[a.byNumber] IN
    /\ r.mr = q.mr /\ r.process # "" /\ r.vignoble # "theirs"
    /\ \A k \in DOMAIN q.agents \ {a.byNumber} :
            q.agents[k].mr = q.mr /\ q.agents[k].process # "" /\ q.agents[k].vignoble # "theirs" =>
                r.repo = q.repo /\ q.agents[k].repo # q.repo
ByProject(q, a) ==
    LET r == q.agents[a.byProject] IN
    r.process # "" /\ r.project = q.project /\ r.vignoble # "theirs" /\ r.mr \in {q.mr} \cup (IF q.mr = 0 THEN {r.mr} ELSE {})

LEMMA FoundByNumber ==
    ASSUME NEW q, Searched(q), q.mr \in Nat, OnFind(q).byNumber \in DOMAIN q.agents
    PROVE  ByNumber(q, OnFind(q))
<1> DEFINE D == DOMAIN q.agents
           none == ""
           zero == 0
           hits == {k \in D : /\ Track!Ours(q.agents[k], "ours") /\ q.agents[k].process # ""
                              /\ q.agents[k].mr = q.mr /\ q.mr # 0}
           here == {k \in hits : q.agents[k].repo = q.repo}
           found == OnFind(q).byNumber
           one == Cardinality(hits) = 1
           two == Cardinality(hits) > 1 /\ q.repo # "" /\ Cardinality(here) = 1
<1>1. hits = {k \in D : /\ q.agents[k].vignoble # "theirs" /\ q.agents[k].process # none
                        /\ q.agents[k].mr = q.mr /\ q.mr # zero}
  BY OursIs DEF Searched
<1>2. /\ one => found = CHOOSE k \in hits : TRUE
      /\ ~one /\ two => found = CHOOSE k \in here : TRUE
      /\ ~one /\ ~two => found = Track!NoKey
  <2>1. found = CASE one -> CHOOSE k \in hits : TRUE
                  [] two -> CHOOSE k \in here : TRUE
                  [] OTHER -> Track!NoKey
    BY SameCardinality, Zenon DEF OnFind, Track!FindAgentForMRByIDAndRepo
  <2>2. ASSUME two PROVE ~one
    <3> HIDE DEF hits, here
    <3>1. Cardinality(hits) > 1
      BY <2>2, Zenon
    <3>2. Cardinality(hits) # 1
      BY <3>1
    <3> QED BY <3>2
  <2> HIDE DEF found, one, two, hits, here
  <2> QED BY <2>1, <2>2
<1>3. IsFiniteSet(hits) /\ IsFiniteSet(here) /\ found \in D /\ Track!NoKey \notin D
  <2>1. hits \subseteq D /\ here \subseteq D
    OBVIOUS
  <2> HIDE DEF hits, here
  <2> QED BY <2>1, FS_Subset DEF Searched
<1>4. CASE one
  <2>1. PICK x : hits = {x}
    <3> HIDE DEF hits
    <3> QED BY <1>3, <1>4, FS_Singleton
  <2>2. found = x /\ hits = {found}
    <3> HIDE DEF hits, here, one, two, found
    <3> QED BY <1>2, <1>4, <2>1
  <2> HIDE DEF found, hits, one, two, here, zero, none
  <2>3. found \in hits
    BY <2>2
  <2>4. /\ q.agents[found].mr = q.mr /\ q.agents[found].process # none /\ q.agents[found].vignoble # "theirs"
        /\ q.mr # zero
    BY <1>1, <2>3
  <2>5. \A o \in D \ {found} : ~(q.agents[o].mr = q.mr /\ q.agents[o].process # none /\ q.agents[o].vignoble # "theirs")
    BY <1>1, <2>2, <2>4
  <2> QED BY <2>4, <2>5 DEF found, none, ByNumber
<1>5. CASE ~one /\ two
  <2>1. PICK x : here = {x}
    <3> HIDE DEF here
    <3> QED BY <1>3, <1>5, FS_Singleton
  <2>2. found = x /\ here = {found}
    <3> HIDE DEF hits, here, one, two, found
    <3> QED BY <1>2, <1>5, <2>1
  <2>3. found \in hits /\ q.agents[found].repo = q.repo /\ \A o \in hits \ {found} : q.agents[o].repo # q.repo
    <3>1. \A o \in hits : q.agents[o].repo = q.repo <=> o \in here
      OBVIOUS
    <3>2. found \in hits
      <4> HIDE DEF found, hits
      <4> QED BY <2>2
    <3> HIDE DEF found, hits, here
    <3> QED BY <2>2, <3>1, <3>2
  <2> HIDE DEF found, hits, one, two, here, zero, none
  <2>4. /\ q.agents[found].mr = q.mr /\ q.agents[found].process # none /\ q.agents[found].vignoble # "theirs"
        /\ q.mr # zero
    BY <1>1, <2>3
  <2>5. \A o \in D \ {found} : (q.agents[o].mr = q.mr /\ q.agents[o].process # none /\ q.agents[o].vignoble # "theirs")
            => q.agents[o].repo # q.repo
    BY <1>1, <2>3, <2>4
  <2> QED BY <2>3, <2>4, <2>5 DEF found, none, ByNumber
<1>6. CASE ~one /\ ~two
  <2>1. found = Track!NoKey
    <3> HIDE DEF hits, here, one, two, found
    <3> QED BY <1>2, <1>6
  <2> HIDE DEF found
  <2> QED BY <1>3, <2>1
<1> HIDE DEF one, two, found
<1> QED BY <1>4, <1>5, <1>6 DEF found

LEMMA FoundByProject ==
    ASSUME NEW q, Searched(q), q.mr \in Nat, OnFind(q).byProject \in DOMAIN q.agents
    PROVE  ByProject(q, OnFind(q))
<1> DEFINE D == DOMAIN q.agents
           none == ""
           hit(k) == /\ Track!Ours(q.agents[k], "ours") /\ q.agents[k].project = q.project
                     /\ q.agents[k].process # "" /\ (q.mr > 0 => q.agents[k].mr = q.mr)
           keep == {k \in D : hit(k)}
           hits == Track!Among(q.order, keep)
           found == OnFind(q).byProject
<1>1. found = IF hits = <<>> THEN Track!NoKey ELSE Head(hits)
  BY DEF OnFind, Track!FindAgentForMR
<1>2. found \in D /\ Track!NoKey \notin D
  BY DEF Searched
<1>3. found = Head(hits) /\ hits # <<>>
  <2> HIDE DEF hits, found
  <2> QED BY <1>1, <1>2
<1>4. found \in keep
  <2> HIDE DEF keep, found, D
  <2>1. q.order \in Seq(D)
    BY DEF Searched, D
  <2> QED BY <1>3, <2>1, FirstOfThem
<1>5. hit(found)
  <2> HIDE DEF hit, found
  <2> QED BY <1>4
<1>6. q.agents[found] \in Track!Records
  <2> HIDE DEF found
  <2> QED BY <1>2 DEF Searched
<1> HIDE DEF found
<1>7. /\ q.agents[found].vignoble # "theirs" /\ q.agents[found].project = q.project
      /\ q.agents[found].process # none
  BY <1>5, <1>6, OursIs
<1>8. q.mr > 0 => q.agents[found].mr = q.mr
  BY <1>5
<1> HIDE DEF hit, none
<1>9. q.agents[found].mr \in {q.mr} \cup (IF q.mr = 0 THEN {q.agents[found].mr} ELSE {})
  BY <1>8
<1> QED BY <1>7, <1>9 DEF found, none, ByProject

LEMMA ParcelleIsTold ==
    ASSUME NEW q, Searched(q) PROVE OnFind(q).parcelle # ""
<1>1. q.order[1] # ""
  <2>1. Head(q.order) \in DOMAIN q.agents /\ Head(q.order) = q.order[1]
    <3> DEFINE V == DOMAIN q.agents
    <3>1. q.order \in Seq(V) /\ q.order # <<>>
      BY DEF Searched
    <3> HIDE DEF V
    <3>2. Head(q.order) \in V
      BY <3>1, HeadAndTail
    <3>3. Head(q.order) = q.order[1]
      BY <3>1, HeadTailProperties
    <3> QED BY <3>2, <3>3 DEF V
  <2> QED BY <2>1 DEF Searched
<1> DEFINE p == Track!GetWorkerParcelle(<<>>, q.agents, q.order, q.order[1])
<1>2. OnFind(q).parcelle = Track!Filled(p, q.order[1], "")
  BY DEF OnFind, Track!ResolveWorkerParcelle
<1> HIDE DEF p
<1> QED BY <1>1, <1>2 DEF Track!Filled

(* What a scan takes of the records it is given.                               *)
Known(agents, order) ==
    /\ agents \in [DOMAIN agents -> Track!Records]
    /\ Track!NoKey \notin DOMAIN agents /\ order \in Seq(DOMAIN agents)

(* Who a branch names.                                                         *)
LEMMA BranchNames ==
    ASSUME NEW agents, NEW order, Known(agents, order), NEW session, NEW project,
           Track!AgentFromBranch(agents, order, session, project) # Track!NoKey
    PROVE  LET o == Track!AgentFromBranch(agents, order, session, project) IN
           o \in DOMAIN agents /\ agents[o].process # "" /\ session \in {o, agents[o].name}
<1> DEFINE D == DOMAIN agents
           r == Track!ResolveAgentByToken(agents, order, session)
           o == Track!AgentFromBranch(agents, order, session, project)
           keep == {k \in D : agents[k].name = session}
           named == Track!Among(order, keep)
<1>1. o = r /\ agents[o].process # ""
  BY DEF Track!AgentFromBranch
<1>2. r = IF session \in D THEN session ELSE IF named = <<>> THEN Track!NoKey ELSE Head(named)
  BY DEF Track!ResolveAgentByToken
<1>3. o # Track!NoKey
  OBVIOUS
<1>4. named # <<>> => Head(named) \in D /\ Head(named) \in keep
  <2> HIDE DEF D, keep
  <2>1. order \in Seq(D)
    BY DEF Known, D
  <2> QED BY <2>1, FirstOfThem
<1> HIDE DEF o, r, named
<1>5. o \in D /\ session \in {o, agents[o].name}
  <2>1. CASE session \in D
    BY <1>1, <1>2, <2>1
  <2>2. CASE session \notin D
    <3>1. o = Head(named) /\ named # <<>>
      BY <1>1, <1>2, <1>3, <2>2
    <3> QED BY <1>4, <3>1
  <2> QED BY <2>1, <2>2
<1> QED BY <1>1, <1>5 DEF o

(* One scan: no entry of a merge request is touched, and only the worker that  *)
(* the branch names is stamped.                                                *)
Scanned(watched, agents, order, m, a) ==
    /\ (\E k \in DOMAIN watched : watched[k].mr = m.iid) => a.watched = watched
    /\ \A k \in DOMAIN watched : watched[k].mr # 0 => k \in DOMAIN a.watched /\ a.watched[k] = watched[k]
    /\ DOMAIN a.agents = DOMAIN agents /\ Known(a.agents, order)
    /\ \A k \in DOMAIN agents :
        /\ a.agents[k].name = agents[k].name /\ a.agents[k].process = agents[k].process
        /\ a.agents[k].mr # agents[k].mr => m.session \in {k, agents[k].name} /\ agents[k].process # ""

LEMMA ScanOnce ==
    ASSUME NEW watched, NEW agents, NEW order, NEW m, Known(agents, order), m.iid \in Nat
    PROVE  Scanned(watched, agents, order, m, Track!ScanAssignedMR(watched, agents, order, m))
<1> DEFINE D == DOMAIN agents
           W == DOMAIN watched
           a == Track!ScanAssignedMR(watched, agents, order, m)
           owner == Track!AgentFromBranch(agents, order, m.session, m.project)
           key == IF owner = Track!NoKey THEN m.placeholder ELSE owner
           used == key \in W /\ watched[key].mr # 0
           tracked == \E k \in W : watched[k].mr = m.iid
           new == Track!NewEntry(m.repo, m.iid, 0)
           wider == [k \in W \cup {key} |-> IF k = key THEN new ELSE watched[k]]
           stamped == [agents EXCEPT ![owner].mr = m.iid]
<1>1. a = IF tracked THEN [watched |-> watched, agents |-> agents]
          ELSE [watched |-> IF used THEN watched ELSE wider,
                agents |-> IF owner = Track!NoKey THEN agents ELSE stamped]
  BY DEF Track!ScanAssignedMR
<1>2. /\ tracked => a.watched = watched /\ a.agents = agents
      /\ ~tracked => /\ a.watched = IF used THEN watched ELSE wider
                     /\ a.agents = IF owner = Track!NoKey THEN agents ELSE stamped
  <2> HIDE DEF a, tracked, used, wider, owner, stamped
  <2> QED BY <1>1
<1> HIDE DEF a
<1>3. ASSUME NEW k \in W, watched[k].mr # 0 PROVE k \in DOMAIN a.watched /\ a.watched[k] = watched[k]
  <2>1. CASE a.watched = watched
    BY <2>1
  <2>2. CASE a.watched # watched
    <3>1. ~used /\ a.watched = wider
      <4> HIDE DEF tracked, used, wider
      <4> QED BY <1>2, <2>2
    <3>2. k # key
      BY <1>3, <3>1
    <3>3. k \in DOMAIN wider /\ wider[k] = watched[k]
      <4> HIDE DEF key, new
      <4> QED BY <3>2
    <3> HIDE DEF wider
    <3> QED BY <3>1, <3>3
  <2> QED BY <2>1, <2>2
<1>4. /\ DOMAIN a.agents = D /\ Known(a.agents, order)
      /\ \A k \in D :
            /\ a.agents[k].name = agents[k].name /\ a.agents[k].process = agents[k].process
            /\ a.agents[k].mr # agents[k].mr => m.session \in {k, agents[k].name} /\ agents[k].process # ""
  <2>1. CASE a.agents = agents
    BY <2>1
  <2>2. CASE a.agents # agents
    <3>1. owner # Track!NoKey /\ a.agents = stamped
      <4> HIDE DEF tracked, used, wider, owner, stamped
      <4> QED BY <1>2, <2>2
    <3>2. owner \in D /\ agents[owner].process # "" /\ m.session \in {owner, agents[owner].name}
      BY <3>1, BranchNames
    <3> HIDE DEF owner
    <3>3. agents \in [D -> Track!Records]
      BY DEF Known
    <3>4. /\ DOMAIN stamped = D /\ \A k \in D \ {owner} : stamped[k] = agents[k]
          /\ stamped[owner] = [agents[owner] EXCEPT !.mr = m.iid]
      BY <3>2, <3>3
    <3>5. agents[owner] \in Track!Records
      BY <3>2, <3>3
    <3>6. /\ stamped[owner] \in Track!Records /\ stamped[owner].name = agents[owner].name
          /\ stamped[owner].process = agents[owner].process
      <4> DEFINE r == agents[owner]
      <4> HIDE DEF r, stamped
      <4> QED BY <3>4, <3>5 DEF Track!Records, r
    <3>7. stamped \in [D -> Track!Records]
      <4>1. \A k \in D : stamped[k] \in Track!Records
        <5> HIDE DEF stamped
        <5> QED BY <3>3, <3>4, <3>6
      <4>2. stamped = [k \in D |-> stamped[k]]
        BY <3>3
      <4> HIDE DEF stamped
      <4> QED BY <4>1, <4>2
    <3> HIDE DEF stamped
    <3>8. Known(stamped, order)
      BY <3>4, <3>7 DEF Known
    <3> QED BY <3>1, <3>2, <3>4, <3>6, <3>8
  <2> QED BY <2>1, <2>2
<1>5. tracked => a.watched = watched
  BY <1>2
<1> QED BY <1>3, <1>4, <1>5 DEF a, Scanned

LEMMA ScanTwice ==
    ASSUME NEW q, Searched(q), q.m.iid \in Nat
    PROVE  LET a == OnScan(q) IN
           /\ a[1].watched = a[2].watched \/ \A k \in DOMAIN a[1].watched : a[1].watched[k].mr # q.m.iid
           /\ \A k \in DOMAIN q.watched : q.watched[k].mr # 0 => a[2].watched[k] = q.watched[k]
           /\ \A k \in DOMAIN q.agents : a[2].agents[k].mr # q.agents[k].mr =>
                q.m.session \in {k, q.agents[k].name} /\ q.agents[k].process # ""
<1> DEFINE a == OnScan(q)
           one == Track!ScanAssignedMR(q.watched, q.agents, q.order, q.m)
           two == Track!ScanAssignedMR(one.watched, one.agents, q.order, q.m)
<1>1. a[1] = one /\ a[2] = two
  BY DEF OnScan
<1>2. Known(q.agents, q.order)
  BY DEF Searched, Known
<1> DEFINE w == one.watched
           r == one.agents
<1>3. /\ \A k \in DOMAIN q.watched : q.watched[k].mr # 0 => k \in DOMAIN w /\ w[k] = q.watched[k]
      /\ DOMAIN r = DOMAIN q.agents /\ Known(r, q.order)
      /\ \A k \in DOMAIN q.agents :
                /\ r[k].name = q.agents[k].name /\ r[k].process = q.agents[k].process
                /\ r[k].mr # q.agents[k].mr => q.m.session \in {k, q.agents[k].name} /\ q.agents[k].process # ""
  <2>1. Scanned(q.watched, q.agents, q.order, q.m, one)
    BY <1>2, ScanOnce
  <2> HIDE DEF one
  <2> QED BY <2>1 DEF Scanned
<1> HIDE DEF w, r
<1>4. /\ (\E k \in DOMAIN w : w[k].mr = q.m.iid) => two.watched = w
      /\ \A k \in DOMAIN w : w[k].mr # 0 => k \in DOMAIN two.watched /\ two.watched[k] = w[k]
      /\ \A k \in DOMAIN r :
                /\ two.agents[k].mr # r[k].mr => q.m.session \in {k, r[k].name} /\ r[k].process # ""
  <2>1. Scanned(w, r, q.order, q.m, two)
    BY <1>3, ScanOnce DEF w, r
  <2> HIDE DEF two
  <2> QED BY <2>1 DEF Scanned
<1> HIDE DEF two, a, one
<1>5. a[1].watched = w
  BY <1>1 DEF w
<1>6. \A k \in DOMAIN q.watched : q.watched[k].mr # 0 => a[2].watched[k] = q.watched[k]
  BY <1>1, <1>3, <1>4
<1>7. \A k \in DOMAIN q.agents : a[2].agents[k].mr # q.agents[k].mr =>
                q.m.session \in {k, q.agents[k].name} /\ q.agents[k].process # ""
  BY <1>1, <1>3, <1>4
<1>8. a[1].watched = a[2].watched \/ \A k \in DOMAIN a[1].watched : a[1].watched[k].mr # q.m.iid
  BY <1>1, <1>4, <1>5
<1> QED BY <1>6, <1>7, <1>8 DEF a

LEMMA SamePrefix == \A s, t : Track!IsPrefix(s, t) <=> IsPrefix(s, t)
BY DEF Track!IsPrefix, IsPrefix

LEMMA LongestVigne ==
    ASSUME NEW rest \in Seq(STRING), NEW vignes \in SUBSET Seq(STRING), NEW v \in vignes, IsPrefix(v, rest)
    PROVE  LET p == Track!DeriveProject(rest, vignes) IN Len(p) >= Len(v) /\ IsPrefix(p, rest)
<1> DEFINE begins == {u \in vignes : IsPrefix(u, rest)}
           S == {Len(rest) - Len(u) : u \in begins}
           longest(p) == p \in begins /\ \A w \in begins : Len(w) <= Len(p)
           p == Track!DeriveProject(rest, vignes)
<1>1. \A u \in begins : Len(u) \in Nat /\ Len(rest) \in Nat /\ Len(u) <= Len(rest)
  BY LenProperties DEF IsPrefix
<1>2. v \in begins
  OBVIOUS
<1>3. S \in SUBSET Nat /\ S # {}
  BY <1>1, <1>2
<1>4. PICK e \in S : \A f \in S : e <= f
  <2> HIDE DEF S
  <2> QED BY <1>3, LeastMember
<1>5. PICK u \in begins : e = Len(rest) - Len(u)
  OBVIOUS
<1>6. longest(u)
  <2>1. ASSUME NEW w \in begins PROVE Len(w) <= Len(u)
    <3>1. e <= Len(rest) - Len(w)
      BY <1>4
    <3> QED BY <1>1, <1>5, <3>1
  <2> QED BY <2>1
<1>7. p = CHOOSE c \in begins : \A w \in begins : Len(w) <= Len(c)
  <2>1. begins = {c \in vignes : Track!IsPrefix(c, rest)}
    BY SamePrefix
  <2> HIDE DEF begins
  <2> QED BY <1>2, <2>1 DEF Track!DeriveProject
<1>8. longest(p)
  <2> HIDE DEF begins, p
  <2> QED BY <1>6, <1>7
<1> HIDE DEF p
<1> QED BY <1>1, <1>2, <1>8 DEF p

LEMMA LinkedOnce ==
    ASSUME NEW q, q.notes.err \in BOOLEAN
    PROVE  LET a == OnTrack(q) IN
           a.done.linked => q.hasRecord /\ a.done.stamped /\ (q.notes.err \/ "link" \notin q.notes.seen)
<1> DEFINE p == Track!DeriveProject(q.rest, q.vignes)
           done == Track!TrackMR(p, q.hasRecord, q.isNew, "repo", q.linksOn, q.notes)
<1>1. OnTrack(q).done = done
  BY DEF OnTrack
<1> HIDE DEF p
<1>2. /\ done.stamped = (p # <<>> /\ q.hasRecord)
      /\ done.linked = (/\ p # <<>> /\ q.hasRecord /\ q.isNew /\ "repo" # "" /\ q.linksOn
                        /\ ~(q.notes.err = FALSE /\ "link" \in q.notes.seen))
  BY DEF Track!TrackMR
<1> HIDE DEF done
<1> QED BY <1>1, <1>2

(* For any entries and records, in any order of the map (mrs.go's              *)
(* reconcileDuplicateMRs, cmd_track_mr.go's registerWatchedMR): a merge request*)
(* keeps one entry, with the latest cursor, every mark and the live worker of  *)
(* all that were put together, and registering it again takes nothing back.    *)
LEMMA OneEntryIsKept == DecisionSpec => []OneEntryEach
<1>1. Answer => OneEntryEach
  <2> SUFFICES ASSUME Answer PROVE OneEntryEach
    OBVIOUS
  <2> DEFINE q == decision.in
             a == decision.out
  <2>1. CASE decision.rule = "reconcile"
    <3>1. /\ q.watched \in [DOMAIN q.watched -> Track!Entries]
          /\ q.order \in Seq(DOMAIN q.watched) /\ ToSet(q.order) = DOMAIN q.watched
          /\ \A k \in DOMAIN q.agents : q.agents[k].state \in {"working", "stopped", "done", ""}
          /\ a = OnReconcile(q)
      BY <2>1, CasesAssumption DEF Answer, TrackingAnswers, Gave, CasesTypes, TrackingCases
    <3> HIDE DEF q, a
    <3>2. \A k \in DOMAIN q.watched : PutTogether(q, a, k)
      BY <3>1, Reconciled
    <3> QED BY <2>1, <3>2, Zenon DEF OneEntryEach, Of, PutTogether, q, a
  <2>2. CASE decision.rule = "register"
    <3>1. /\ q.watched \in [DOMAIN q.watched -> Track!Entries] /\ IsFiniteSet(DOMAIN q.watched)
          /\ a = OnRegister(q)
      BY <2>2, CasesAssumption DEF Answer, TrackingAnswers, Gave, CasesTypes, TrackingCases
    <3> HIDE DEF q, a
    <3> QED BY <2>2, <3>1, Registered DEF OneEntryEach, Of, q, a
  <2>3. CASE decision.rule \notin {"reconcile", "register"}
    BY <2>3 DEF OneEntryEach, Of
  <2> QED BY <2>1, <2>2, <2>3
<1> QED BY <1>1, AnswerInv, PTL

(* For any records, entries, branch and vignes (mrs.go, cmd_track_mr.go): a    *)
(* number finds a worker only when no other has it, a scan, made twice, stamps *)
(* only whom the branch names and takes no entry of another merge request, and *)
(* the project is the longest vigne that begins the name.                      *)
LEMMA RightWorkerIsFound == DecisionSpec => []RightWorker
<1>1. Answer => RightWorker
  <2> SUFFICES ASSUME Answer PROVE RightWorker
    OBVIOUS
  <2> DEFINE q == decision.in
             a == decision.out
  <2>1. CASE decision.rule = "find"
    <3>1. Searched(q) /\ q.mr \in Nat /\ a = OnFind(q)
      BY <2>1, CasesAssumption DEF Answer, TrackingAnswers, Gave, CasesTypes, TrackingCases, Searched
    <3> HIDE DEF q, a
    <3>2. /\ a.byNumber \in DOMAIN q.agents => ByNumber(q, a)
          /\ a.byProject \in DOMAIN q.agents => ByProject(q, a)
          /\ a.parcelle # ""
      BY <3>1, FoundByNumber, FoundByProject, ParcelleIsTold
    <3> QED BY <2>1, <3>2, Zenon DEF RightWorker, Of, ByNumber, ByProject, q, a
  <2>2. CASE decision.rule = "scan"
    <3>1. Searched(q) /\ q.m.iid \in Nat /\ a = OnScan(q)
      BY <2>2, CasesAssumption DEF Answer, TrackingAnswers, Gave, CasesTypes, TrackingCases, Searched
    <3> HIDE DEF q, a
    <3> QED BY <2>2, <3>1, ScanTwice DEF RightWorker, Of, q, a
  <2>3. CASE decision.rule = "track"
    <3>1. /\ q.rest \in Seq(STRING) /\ q.vignes \in SUBSET Seq(STRING) /\ q.notes.err \in BOOLEAN
          /\ a = OnTrack(q)
      BY <2>3, CasesAssumption DEF Answer, TrackingAnswers, Gave, CasesTypes, TrackingCases
    <3> HIDE DEF q, a
    <3>2. a.project = Track!DeriveProject(q.rest, q.vignes)
      BY <3>1 DEF OnTrack
    <3>3. \A v \in q.vignes : IsPrefix(v, q.rest) => Len(a.project) >= Len(v) /\ IsPrefix(a.project, q.rest)
      BY <3>1, <3>2, LongestVigne
    <3> QED BY <2>3, <3>1, <3>3, LinkedOnce DEF RightWorker, Of, q, a
  <2>4. CASE decision.rule \notin {"find", "scan", "track"}
    BY <2>4 DEF RightWorker, Of
  <2> QED BY <2>1, <2>2, <2>3, <2>4
<1> QED BY <1>1, AnswerInv, PTL

Prose(n) == Among(n.lines, {"prose", "@memory"})
Spoken == [n \in Track!Notes |-> Prose(n)]

LEMMA ProseIs ==
    ASSUME NEW n \in Track!Notes
    PROVE  /\ n.system \in BOOLEAN /\ n.lines \in Seq(Track!Lines)
           /\ Prose(n) \in Seq(Track!Lines)
           /\ Track!SanitizeReviewNote(n.lines) = Prose(n)
<1> DEFINE lines == n.lines
           keep == ToSet(lines) \ {"marker", "noise"}
           kept == {"prose", "@memory"}
<1>1. n.system \in BOOLEAN /\ lines \in Seq(Track!Lines)
  BY DEF Track!Notes
<1>2. Track!SanitizeReviewNote(lines) = Track!Among(lines, keep)
  BY SameToSet DEF Track!SanitizeReviewNote
<1>3. \A i \in 1..Len(lines) : lines[i] \in keep <=> lines[i] \in kept
  <2> SUFFICES ASSUME NEW i \in 1..Len(lines) PROVE lines[i] \in keep <=> lines[i] \in kept
    OBVIOUS
  <2> DEFINE x == lines[i]
  <2>1. x \in Track!Lines /\ x \in ToSet(lines)
    <3> HIDE DEF lines
    <3> QED BY <1>1, ElementOfSeq, LenProperties DEF ToSet
  <2> HIDE DEF x, lines
  <2> QED BY <2>1 DEF Track!Lines, x
<1> HIDE DEF keep, lines, kept
<1>4. Track!Among(lines, keep) = Among(lines, keep) /\ Among(lines, keep) = Among(lines, kept)
      /\ Among(lines, kept) \in Seq(Track!Lines)
  BY <1>1, <1>3, AmongPicks, AmongSame
<1> QED BY <1>1, <1>2, <1>4 DEF Prose, lines, kept

LEMMA MarkersAreOfPeople ==
    ASSUME NEW notes \in Seq(Track!Notes)
    PROVE  LET people == Among(notes, {n \in ToSet(notes) : ~n.system})
           IN  Len(Track!ExtractMemoryMarkers(notes))
                <= Cardinality({i \in DOMAIN people : "@memory" \in ToSet(people[i].lines)})
<1> DEFINE K == {n \in ToSet(notes) : ~n.system}
           people == Among(notes, K)
           M == {n \in ToSet(notes) : ~n.system /\ n.lines # <<>> /\ Head(n.lines) = "@memory"}
           marked == {i \in DOMAIN notes : notes[i] \in M}
           J == {i \in DOMAIN people : "@memory" \in ToSet(people[i].lines)}
<1>1. Track!ExtractMemoryMarkers(notes) = Track!Among(notes, M)
  BY SameToSet DEF Track!ExtractMemoryMarkers
<1>2. ASSUME NEW n \in M PROVE n \in K /\ "@memory" \in ToSet(n.lines)
  <2> DEFINE lines == n.lines
             mem == "@memory"
  <2>1. n \in Track!Notes
    BY ElementOfSeq, LenProperties DEF ToSet
  <2>2. lines \in Seq(Track!Lines) /\ lines # <<>> /\ Head(lines) = mem
    BY <2>1, ProseIs
  <2> HIDE DEF lines, mem
  <2>3. 1 \in DOMAIN lines /\ lines[1] = mem
    BY <2>2, EmptySeq, LenProperties
  <2>4. mem \in ToSet(lines)
    BY <2>3 DEF ToSet
  <2> QED BY <2>4 DEF lines, mem
<1>3. DOMAIN notes = 1..Len(notes) /\ Len(notes) \in Nat
  BY LenProperties
<1> HIDE DEF K, M
<1>4. people \in Seq(Track!Notes) /\ \E f : Picks(notes, Len(notes), K, people, f)
  BY AmongPicks
<1>5. PICK f : Picks(notes, Len(notes), K, people, f)
  BY <1>4
<1>6. Track!Among(notes, M) = Among(notes, M) /\ Len(Among(notes, M)) = Cardinality(marked)
  BY AmongPicks, AmongCounts
<1> HIDE DEF people
<1>7. DOMAIN people = 1..Len(people) /\ Len(people) \in Nat
  BY <1>4, LenProperties
<1>8. IsFiniteSet(J)
  <2>1. J \subseteq 1..Len(people) /\ IsFiniteSet(1..Len(people))
    BY <1>7, FS_Interval
  <2> HIDE DEF J
  <2> QED BY <2>1, FS_Subset
<1> DEFINE I == {f[j] : j \in J}
<1>9. marked \subseteq I
  <2> SUFFICES ASSUME NEW i \in 1..Len(notes), notes[i] \in M PROVE \E j \in J : f[j] = i
    BY <1>3
  <2>1. notes[i] \in K /\ "@memory" \in ToSet(notes[i].lines)
    BY <1>2
  <2>2. PICK j \in 1..Len(people) : f[j] = i
    BY <1>5, <2>1 DEF Picks
  <2>3. people[j] = notes[i]
    BY <1>5, <2>2 DEF Picks
  <2> QED BY <1>7, <2>1, <2>2, <2>3
<1> HIDE DEF J, marked
<1>10. IsFiniteSet(I) /\ Cardinality(I) <= Cardinality(J)
  <2> DEFINE g == [j \in J |-> f[j]]
  <2>1. g \in Surjection(J, I)
    BY DEF Surjection
  <2> HIDE DEF g, I
  <2> QED BY <1>8, <2>1, FS_Surjection
<1> HIDE DEF I
<1>11. IsFiniteSet(marked) /\ Cardinality(marked) <= Cardinality(I)
  BY <1>9, <1>10, FS_Subset
<1>12. Cardinality(marked) <= Cardinality(J)
  BY <1>8, <1>10, <1>11, FS_CardinalityType
<1> QED BY <1>1, <1>6, <1>12 DEF J, people, K

(* What people wrote, and nothing else.                                        *)
PublishAnswer(q, a) ==
    LET prose(n) == Among(n.lines, {"prose", "@memory"})
        people == Among(q.mr.notes, {n \in ToSet(q.mr.notes) : ~n.system})
        told == FlattenSeq([i \in DOMAIN people |-> prose(people[i])])
    IN  /\ "memory:skip" \in q.mr.labels => a.event = <<>> /\ a.lessons = 0
        /\ \A e \in ToSet(a.event) : q.fates.notes = "ok" => FlattenSeq(e.review) = told
        /\ a.event = <<>> => a.lessons = 0
        /\ a.lessons <= Cardinality({i \in DOMAIN people : "@memory" \in ToSet(people[i].lines)})

LEMMA ReviewIsTold ==
    ASSUME NEW mr, NEW notes \in Seq(Track!Notes), mr.notes = notes, NEW fates, fates.notes = "ok"
    PROVE  LET people == Among(notes, {n \in ToSet(notes) : ~n.system})
           IN  FlattenSeq(Track!BuildMRMemoryPayload(mr, fates).review)
                = FlattenSeq([i \in DOMAIN people |-> Prose(people[i])])
<1> DEFINE V == Track!Notes
           K == {n \in ToSet(notes) : ~n.system}
           H == {n \in ToSet(notes) : ~n.system /\ Track!SanitizeReviewNote(n.lines) # <<>>}
           people == Among(notes, K)
           heard == Among(notes, H)
           review == Track!BuildMRMemoryPayload(mr, fates).review
<1>1. review = [i \in DOMAIN Track!Among(notes, H) |-> Track!SanitizeReviewNote(Track!Among(notes, H)[i].lines)]
  BY SameToSet DEF Track!BuildMRMemoryPayload
<1>2. Spoken \in [V -> Seq(Track!Lines)] /\ \A n \in V : Spoken[n] = Prose(n) /\ Track!SanitizeReviewNote(n.lines) = Prose(n)
  BY ProseIs DEF Spoken
<1>3. \A i \in 1..Len(notes) : notes[i] \in H <=> notes[i] \in K /\ Spoken[notes[i]] # <<>>
  <2> SUFFICES ASSUME NEW i \in 1..Len(notes)
               PROVE  notes[i] \in H <=> notes[i] \in K /\ Spoken[notes[i]] # <<>>
    OBVIOUS
  <2>1. notes[i] \in V /\ notes[i] \in ToSet(notes)
    BY ElementOfSeq, LenProperties DEF ToSet
  <2> QED BY <1>2, <2>1
<1> HIDE DEF K, H, review
<1>4. Track!Among(notes, H) = heard /\ heard \in Seq(V) /\ people \in Seq(V)
  BY AmongPicks
<1>5. Together(heard, Spoken) = Together(people, Spoken)
  BY <1>2, <1>3, SilentAreLeftOut
<1> HIDE DEF heard, people
<1>6. (\A i \in DOMAIN heard : heard[i] \in V) /\ \A i \in DOMAIN people : people[i] \in V
  BY <1>4, ElementOfSeq, LenProperties
<1>7. review = [i \in DOMAIN heard |-> Spoken[heard[i]]]
  <2>1. review = [i \in DOMAIN heard |-> Track!SanitizeReviewNote(heard[i].lines)]
    BY <1>1, <1>4
  <2> QED BY <1>2, <1>6, <2>1
<1>8. [i \in DOMAIN people |-> Prose(people[i])] = [i \in DOMAIN people |-> Spoken[people[i]]]
  BY <1>2, <1>6
<1> QED BY <1>5, <1>7, <1>8 DEF Together, review, people, K

LEMMA Published ==
    ASSUME NEW q, q.mr.notes \in Seq(Track!Notes)
    PROVE  PublishAnswer(q, OnPublish(q))
<1> DEFINE mr == q.mr
           fates == q.fates
           a == OnPublish(q)
           notes == q.mr.notes
           people == Among(notes, {n \in ToSet(notes) : ~n.system})
           told == FlattenSeq([i \in DOMAIN people |-> Prose(people[i])])
           most == Cardinality({i \in DOMAIN people : "@memory" \in ToSet(people[i].lines)})
           none == ~Track!ShouldPublishMRMemory(mr) \/ fates.publish # "ok"
           payload == Track!BuildMRMemoryPayload(mr, fates)
           count == IF fates.notes = "ok" THEN Len(Track!ExtractMemoryMarkers(notes)) ELSE 0
<1>1. a = IF none THEN [event |-> <<>>, lessons |-> 0] ELSE [event |-> <<payload>>, lessons |-> count]
  BY DEF OnPublish, Track!PublishMRMemoryEvent
<1>2. "memory:skip" \in mr.labels => none
  BY DEF Track!ShouldPublishMRMemory
<1>3. fates.notes = "ok" => FlattenSeq(payload.review) = told
  <2> HIDE DEF fates
  <2>1. ASSUME NEW m, NEW n \in Seq(Track!Notes), m.notes = n, fates.notes = "ok"
        PROVE  LET p == Among(n, {x \in ToSet(n) : ~x.system})
               IN  FlattenSeq(Track!BuildMRMemoryPayload(m, fates).review) = FlattenSeq([i \in DOMAIN p |-> Prose(p[i])])
    BY <2>1, ReviewIsTold
  <2> QED BY <2>1
<1>4. /\ count <= most /\ 0 <= most
  <2>1. Len(Track!ExtractMemoryMarkers(notes)) <= most
    <3> DEFINE s == notes
    <3>1. s \in Seq(Track!Notes)
      OBVIOUS
    <3> HIDE DEF s
    <3>2. Len(Track!ExtractMemoryMarkers(s))
            <= Cardinality({i \in DOMAIN Among(s, {n \in ToSet(s) : ~n.system}) :
                                "@memory" \in ToSet(Among(s, {n \in ToSet(s) : ~n.system})[i].lines)})
      BY <3>1, MarkersAreOfPeople
    <3> QED BY <3>2, Zenon DEF s
  <2>2. most \in Nat
    <3> DEFINE I == {i \in DOMAIN people : "@memory" \in ToSet(people[i].lines)}
    <3>1. people \in Seq(Track!Notes)
      BY AmongPicks
    <3> HIDE DEF people
    <3>2. I \subseteq 1..Len(people) /\ IsFiniteSet(1..Len(people))
      <4>1. DOMAIN people = 1..Len(people) /\ Len(people) \in Nat
        BY <3>1, LenProperties
      <4> QED BY <4>1, FS_Interval
    <3> HIDE DEF I
    <3>3. Cardinality(I) \in Nat
      BY <3>2, FS_Subset, FS_CardinalityType
    <3> QED BY <3>3 DEF I
  <2> HIDE DEF most
  <2> QED BY <2>1, <2>2
<1> HIDE DEF none, payload, count, a, most, told
<1>5. CASE none
  <2>1. a.event = <<>> /\ a.lessons = 0
    BY <1>1, <1>5
  <2>2. ToSet(<<>>) = {}
    BY NothingIn
  <2> QED BY <1>4, <2>1, <2>2, Zenon DEF PublishAnswer, Prose, a, most
<1>6. CASE ~none
  <2>1. a.event = <<payload>> /\ a.lessons = count
    BY <1>1, <1>6
  <2>2. <<payload>> # <<>>
    OBVIOUS
  <2>3. \A e \in ToSet(<<payload>>) : e = payload
    BY DEF ToSet
  <2>4. \A e \in ToSet(a.event) : fates.notes = "ok" => FlattenSeq(e.review) = told
    BY <1>3, <2>1, <2>3
  <2>5. /\ "memory:skip" \in mr.labels => a.event = <<>> /\ a.lessons = 0
        /\ a.event = <<>> => a.lessons = 0
        /\ a.lessons <= most
    BY <1>2, <1>4, <1>6, <2>1, <2>2
  <2> QED BY <2>4, <2>5, Zenon DEF PublishAnswer, Prose, a, most, told
<1> QED BY <1>5, <1>6

(* Whose merge request it is, for any watch list, records and notes (mrs.go,   *)
(* cmd_track_mr.go): one entry stands for it, the right worker is woken, and   *)
(* the memory is told what people wrote of it and nothing else.                *)
THEOREM TrackingIsSound == DecisionSpec => []TrackingSound
<1>1. Answer => MemoryTold
  <2> SUFFICES ASSUME Answer PROVE MemoryTold
    OBVIOUS
  <2> DEFINE q == decision.in
             a == decision.out
  <2>1. CASE decision.rule = "publish"
    <3>1. q.mr.notes \in Seq(Track!Notes) /\ a = OnPublish(q)
      BY <2>1, CasesAssumption DEF Answer, TrackingAnswers, Gave, CasesTypes, TrackingCases
    <3> HIDE DEF q, a
    <3>2. PublishAnswer(q, a)
      BY <3>1, Published
    <3> QED BY <2>1, <3>2, Zenon DEF MemoryTold, Of, PublishAnswer, q, a
  <2>2. CASE decision.rule # "publish"
    BY <2>2 DEF MemoryTold, Of
  <2> QED BY <2>1, <2>2
<1> QED BY <1>1, OneEntryIsKept, RightWorkerIsFound, AnswerInv, PTL DEF TrackingSound

-----------------------------------------------------------------------------
(* Clusterings, and lists of sets, which the rules of the memory build.       *)

LEMMA ConcatSet ==
    ASSUME NEW V, NEW s \in Seq(V), NEW t \in Seq(V)
    PROVE  /\ s \o t \in Seq(V) /\ Len(s \o t) = Len(s) + Len(t)
           /\ ToSet(s \o t) = ToSet(s) \cup ToSet(t)
<1> DEFINE n == Len(s)
           m == Len(t)
           r == s \o t
<1>1. /\ n \in Nat /\ m \in Nat /\ r \in Seq(V) /\ Len(r) = n + m
      /\ DOMAIN s = 1..n /\ DOMAIN t = 1..m
      /\ \A i \in 1..(n + m) : r[i] = IF i <= n THEN s[i] ELSE t[i - n]
  BY ConcatProperties, LenProperties
<1>2. DOMAIN r = 1..(n + m)
  <2> HIDE DEF r
  <2> QED BY <1>1, LenProperties
<1> HIDE DEF n, m, r
<1>3. ASSUME NEW x \in ToSet(r) PROVE x \in ToSet(s) \cup ToSet(t)
  <2>1. PICK i \in 1..(n + m) : x = r[i]
    BY <1>2, <1>3 DEF ToSet
  <2>2. CASE i <= n
    <3>1. i \in DOMAIN s /\ x = s[i]
      BY <1>1, <2>1, <2>2
    <3> QED BY <3>1 DEF ToSet
  <2>3. CASE ~(i <= n)
    <3>1. i - n \in DOMAIN t /\ x = t[i - n]
      BY <1>1, <2>1, <2>3
    <3> QED BY <3>1 DEF ToSet
  <2> QED BY <2>2, <2>3
<1>4. ASSUME NEW x \in ToSet(s) PROVE x \in ToSet(r)
  <2>1. PICK i \in 1..n : x = s[i]
    BY <1>1, <1>4 DEF ToSet
  <2>2. i \in DOMAIN r /\ r[i] = x
    BY <1>1, <1>2, <2>1
  <2> QED BY <2>2 DEF ToSet
<1>5. ASSUME NEW x \in ToSet(t) PROVE x \in ToSet(r)
  <2>1. PICK i \in 1..m : x = t[i]
    BY <1>1, <1>5 DEF ToSet
  <2>2. n + i \in 1..(n + m) /\ ~(n + i <= n) /\ (n + i) - n = i
    BY <1>1
  <2>3. n + i \in DOMAIN r /\ r[n + i] = x
    BY <1>1, <1>2, <2>1, <2>2
  <2> QED BY <2>3 DEF ToSet
<1> QED BY <1>1, <1>3, <1>4, <1>5 DEF n, m, r

LEMMA OneIn == \A x : ToSet(<<x>>) = {x}
<1> SUFFICES ASSUME NEW x PROVE ToSet(<<x>>) = {x}
  OBVIOUS
<1>1. DOMAIN <<x>> = {1} /\ <<x>>[1] = x
  OBVIOUS
<1> DEFINE s == <<x>>
<1>2. DOMAIN s = {1} /\ s[1] = x
  BY <1>1
<1> HIDE DEF s
<1>3. {s[i] : i \in DOMAIN s} = {x}
  BY <1>2
<1>4. ToSet(s) = {x}
  BY <1>3, Zenon DEF ToSet
<1> QED BY <1>4 DEF s

-----------------------------------------------------------------------------
(* Clusters: lists of lists that grow by one entry at a time.                  *)

InSome(s) == UNION {ToSet(s[i]) : i \in DOMAIN s}

LEMMA FlattenedIn ==
    ASSUME NEW V, NEW s \in Seq(Seq(V))
    PROVE  FlattenSeq(s) \in Seq(V) /\ ToSet(FlattenSeq(s)) = InSome(s)
<1> DEFINE n == Len(s)
<1>1. n \in Nat /\ DOMAIN s = 1..n /\ \A i \in 1..n : s[i] \in Seq(V)
  BY LenProperties, ElementOfSeq
<1>2. PICK flat \in [0..n -> Seq(V)] : Grows(s, n, flat) /\ FlattenSeq(s) = flat[n]
  BY FlattenGrows
<1> HIDE DEF n
<1> DEFINE P == {k \in 0..n : ToSet(flat[k]) = UNION {ToSet(s[i]) : i \in 1..k}}
<1>3. 0 \in P
  <2>1. flat[0] = <<>> /\ 1..0 = {} /\ 0 \in 0..n
    BY <1>1, <1>2 DEF Grows
  <2> QED BY <2>1, NothingIn
<1>4. \A k \in 1..n : k - 1 \in P => k \in P
  <2> SUFFICES ASSUME NEW k \in 1..n, k - 1 \in P PROVE k \in P
    OBVIOUS
  <2>1. flat[k] = flat[k - 1] \o s[k] /\ k - 1 \in 0..n /\ k \in 0..n /\ flat[k - 1] \in Seq(V) /\ s[k] \in Seq(V)
    BY <1>1, <1>2 DEF Grows
  <2>2. ToSet(flat[k]) = ToSet(flat[k - 1]) \cup ToSet(s[k])
    BY <2>1, ConcatSet
  <2>3. 1..k = (1..(k - 1)) \cup {k}
    BY <1>1
  <2>4. ToSet(flat[k]) = UNION {ToSet(s[i]) : i \in 1..k}
    BY <2>2, <2>3
  <2> QED BY <2>1, <2>4
<1>5. \A k \in 0..n : k \in P
  <2> HIDE DEF P
  <2> QED BY <1>1, <1>3, <1>4, UpToBound
<1>6. n \in 0..n
  BY <1>1
<1>7. ToSet(flat[n]) = UNION {ToSet(s[i]) : i \in 1..n} /\ flat[n] \in Seq(V)
  BY <1>5, <1>6
<1> HIDE DEF P
<1>8. InSome(s) = UNION {ToSet(s[i]) : i \in 1..n}
  BY <1>1 DEF InSome
<1> QED BY <1>2, <1>7, <1>8

(* One entry more in one of the lists is one more in all.                      *)
PutIn(s, i, e) == [s EXCEPT ![i] = Append(s[i], e)]

LEMMA FlattenPut ==
    ASSUME NEW V, NEW s \in Seq(Seq(V)), NEW i \in 1..Len(s), NEW e \in V
    PROVE  LET t == PutIn(s, i, e) IN
           /\ t \in Seq(Seq(V)) /\ Len(t) = Len(s)
           /\ Len(FlattenSeq(t)) = Len(FlattenSeq(s)) + 1
           /\ ToSet(FlattenSeq(t)) = ToSet(FlattenSeq(s)) \cup {e}
<1> DEFINE n == Len(s)
           S == Seq(V)
           x == Append(s[i], e)
           t == PutIn(s, i, e)
<1>1. n \in Nat /\ DOMAIN s = 1..n /\ \A j \in 1..n : s[j] \in S
  BY LenProperties, ElementOfSeq
<1>2. x \in S /\ Len(x) = Len(s[i]) + 1 /\ ToSet(x) = ToSet(s[i]) \cup {e}
  <2>1. s[i] \in Seq(V)
    BY <1>1
  <2> QED BY <2>1, AppendProperties, AppendedSet
<1>15. t = [s EXCEPT ![i] = x]
  BY DEF PutIn
<1> HIDE DEF x, S, t
<1>3. t \in Seq(S) /\ Len(t) = n /\ \A j \in 1..n : t[j] = IF j = i THEN x ELSE s[j]
  <2>1. s \in Seq(S)
    BY DEF S
  <2> DEFINE z == [s EXCEPT ![i] = x]
  <2>2. z \in Seq(S) /\ Len(z) = Len(s) /\ \A j \in 1..Len(s) : z[j] = IF j = i THEN x ELSE s[j]
    BY <1>2, <2>1, ExceptSeq
  <2> HIDE DEF z
  <2> QED BY <1>15, <2>2 DEF z
<1>4. DOMAIN t = 1..n
  BY <1>3, LenProperties
<1>5. PICK one \in [0..n -> S] : Grows(s, n, one) /\ FlattenSeq(s) = one[n]
  BY FlattenGrows DEF S
<1>6. PICK two \in [0..n -> S] : Grows(t, n, two) /\ FlattenSeq(t) = two[n]
  BY <1>3, FlattenGrows DEF S
<1>7. i \in 1..n
  OBVIOUS
<1> HIDE DEF n
<1> DEFINE P == {k \in 0..n : Len(two[k]) = Len(one[k]) + (IF k < i THEN 0 ELSE 1)}
<1>8. 0 \in P
  <2>1. two[0] = <<>> /\ one[0] = <<>> /\ 0 \in 0..n /\ 0 < i
    BY <1>1, <1>5, <1>6, <1>7 DEF Grows
  <2>2. Len(<<>>) = 0
    BY EmptySeq
  <2> QED BY <2>1, <2>2
<1>9. \A k \in 1..n : k - 1 \in P => k \in P
  <2> SUFFICES ASSUME NEW k \in 1..n, k - 1 \in P PROVE k \in P
    OBVIOUS
  <2>0. k - 1 \in 0..n /\ k \in 0..n
    BY <1>1
  <2>1. one[k] = one[k - 1] \o s[k] /\ two[k] = two[k - 1] \o t[k]
    BY <1>5, <1>6, Zenon DEF Grows
  <2>2. one[k - 1] \in S /\ two[k - 1] \in S /\ s[k] \in S /\ t[k] \in S
    BY <1>1, <1>2, <1>3, <2>0
  <2>3. Len(one[k]) = Len(one[k - 1]) + Len(s[k]) /\ Len(two[k]) = Len(two[k - 1]) + Len(t[k])
    BY <2>1, <2>2, ConcatProperties DEF S
  <2>4. Len(t[k]) = Len(s[k]) + (IF k = i THEN 1 ELSE 0)
    <3>1. Len(s[k]) \in Nat
      BY <2>2, LenProperties DEF S
    <3>2. t[k] = IF k = i THEN x ELSE s[k]
      BY <1>3
    <3>3. k = i => Len(s[k]) = Len(s[i])
      OBVIOUS
    <3> DEFINE a == Len(s[k])
               b == Len(x)
               c == Len(t[k])
    <3>4. (k = i => c = b) /\ (k # i => c = a) /\ (k = i => b = a + 1)
      BY <1>2, <3>2, <3>3
    <3>5. a \in Nat
      BY <3>1
    <3> HIDE DEF a, b, c
    <3>6. c = a + (IF k = i THEN 1 ELSE 0)
      BY <3>4, <3>5
    <3> QED BY <3>6 DEF a, c
  <2>5. Len(one[k - 1]) \in Nat /\ Len(s[k]) \in Nat
    BY <2>2, LenProperties DEF S
  <2>6. Len(two[k - 1]) = Len(one[k - 1]) + (IF k - 1 < i THEN 0 ELSE 1)
    OBVIOUS
  <2> DEFINE a == Len(one[k - 1])
             b == Len(s[k])
             c == Len(two[k])
             d == Len(one[k])
  <2>7. c = d + (IF k < i THEN 0 ELSE 1)
    <3>1. c = (a + (IF k - 1 < i THEN 0 ELSE 1)) + (b + (IF k = i THEN 1 ELSE 0)) /\ d = a + b
      BY <2>3, <2>4, <2>6
    <3>2. a \in Nat /\ b \in Nat /\ k \in Int /\ i \in Int
      BY <1>7, <2>5
    <3> HIDE DEF a, b, c, d
    <3> QED BY <3>1, <3>2
  <2> QED BY <2>0, <2>7
<1>10. \A k \in 0..n : k \in P
  <2> HIDE DEF P
  <2> QED BY <1>1, <1>8, <1>9, UpToBound
<1>11. Len(two[n]) = Len(one[n]) + 1
  <2>1. n \in 0..n /\ ~(n < i)
    BY <1>1, <1>7
  <2> QED BY <1>10, <2>1
<1>12. ToSet(FlattenSeq(s)) = InSome(s) /\ ToSet(FlattenSeq(t)) = InSome(t)
  <2>1. s \in Seq(Seq(V)) /\ t \in Seq(Seq(V))
    BY <1>3 DEF S
  <2> QED BY <2>1, FlattenedIn
<1>13. InSome(t) = InSome(s) \cup {e}
  <2>1. t[i] = x /\ \A j \in 1..n : j # i => t[j] = s[j]
    BY <1>3, <1>7
  <2>2. ToSet(t[i]) = ToSet(s[i]) \cup {e} /\ \A j \in 1..n : j # i => ToSet(t[j]) = ToSet(s[j])
    BY <1>2, <2>1
  <2>3. InSome(s) = UNION {ToSet(s[j]) : j \in 1..n} /\ InSome(t) = UNION {ToSet(t[j]) : j \in 1..n}
    BY <1>1, <1>4 DEF InSome
  <2>4. \A z : z \in InSome(t) <=> z \in InSome(s) \/ z = e
    BY <1>7, <2>2, <2>3
  <2> QED BY <2>4
<1>14. /\ t \in Seq(S) /\ Len(t) = n
       /\ Len(FlattenSeq(t)) = Len(FlattenSeq(s)) + 1
       /\ ToSet(FlattenSeq(t)) = ToSet(FlattenSeq(s)) \cup {e}
  BY <1>3, <1>5, <1>6, <1>11, <1>12, <1>13
<1> QED BY <1>14 DEF S, n, t

(* What a list of clusters may be after one entry more.                        *)
Clusterings(P) == Seq(Seq(P) \ {<<>>})
Joins(cs, e, next) ==
    \/ next = Append(cs, <<e>>)
    \/ \E i \in 1..Len(cs) : next = PutIn(cs, i, e)

LEMMA JoinedIs ==
    ASSUME NEW P, NEW cs \in Clusterings(P), NEW e \in P, NEW next, Joins(cs, e, next)
    PROVE  /\ next \in Clusterings(P) /\ Len(next) <= Len(cs) + 1
           /\ Len(FlattenSeq(next)) = Len(FlattenSeq(cs)) + 1
           /\ ToSet(FlattenSeq(next)) = ToSet(FlattenSeq(cs)) \cup {e}
           /\ Len(FlattenSeq(cs)) \in Nat /\ Len(cs) \in Nat
<1> DEFINE N == Seq(P) \ {<<>>}
<1>1. cs \in Seq(N) /\ N \subseteq Seq(P)
  BY DEF Clusterings
<1>2. cs \in Seq(Seq(P)) /\ Len(cs) \in Nat /\ DOMAIN cs = 1..Len(cs) /\ \A i \in 1..Len(cs) : cs[i] \in N
  <2> HIDE DEF N
  <2> QED BY <1>1, SeqMonotonic, LenProperties, ElementOfSeq
<1>3. FlattenSeq(cs) \in Seq(P) /\ Len(FlattenSeq(cs)) \in Nat
  <2> HIDE DEF N
  <2>1. FlattenSeq(cs) \in Seq(P)
    BY <1>2, FlattenedIn
  <2> QED BY <2>1, LenProperties
<1>4. CASE next = Append(cs, <<e>>)
  <2> DEFINE x == <<e>>
  <2>1. x \in N /\ Len(x) = 1 /\ ToSet(x) = {e} /\ x \in Seq(P)
    <3>1. x \in Seq(P) /\ Len(x) = 1 /\ x # <<>>
      OBVIOUS
    <3> QED BY <3>1, OneIn
  <2> HIDE DEF x, N
  <2>2. next \in Seq(N) /\ Len(next) = Len(cs) + 1
    BY <1>1, <1>4, <2>1, AppendProperties DEF x
  <2>3. FlattenSeq(next) = FlattenSeq(cs) \o x
    <3>1. \A y \in Seq(P) : FlattenSeq(Append(cs, y)) = FlattenSeq(cs) \o y
      BY <1>2, FlattenAppend
    <3>2. next = Append(cs, x)
      BY <1>4 DEF x
    <3> QED BY <2>1, <3>1, <3>2
  <2>4. /\ Len(FlattenSeq(cs) \o x) = Len(FlattenSeq(cs)) + Len(x)
        /\ ToSet(FlattenSeq(cs) \o x) = ToSet(FlattenSeq(cs)) \cup ToSet(x)
    <3> DEFINE f == FlattenSeq(cs)
    <3> HIDE DEF f
    <3>1. \A y, z \in Seq(P) : Len(y \o z) = Len(y) + Len(z) /\ ToSet(y \o z) = ToSet(y) \cup ToSet(z)
      BY ConcatSet
    <3>2. f \in Seq(P) /\ x \in Seq(P)
      BY <1>3, <2>1 DEF f
    <3>3. Len(f \o x) = Len(f) + Len(x) /\ ToSet(f \o x) = ToSet(f) \cup ToSet(x)
      BY <3>1, <3>2
    <3> QED BY <3>3 DEF f
  <2>5. Len(next) <= Len(cs) + 1
    BY <1>2, <2>2
  <2>6. next \in Clusterings(P)
    <3>1. Clusterings(P) = Seq(N)
      BY Zenon DEF Clusterings, N
    <3> QED BY <2>2, <3>1
  <2> QED BY <1>2, <1>3, <2>1, <2>3, <2>4, <2>5, <2>6
<1>5. CASE \E i \in 1..Len(cs) : next = PutIn(cs, i, e)
  <2>1. PICK i \in 1..Len(cs) : next = PutIn(cs, i, e)
    BY <1>5
  <2>2. Append(cs[i], e) \in N
    <3>1. cs[i] \in Seq(P)
      BY <1>2
    <3>2. Append(cs[i], e) \in Seq(P) /\ Append(cs[i], e) # <<>>
      BY <3>1, AppendProperties
    <3> QED BY <3>2
  <2> HIDE DEF N
  <2>3. next \in Seq(N) /\ Len(next) = Len(cs)
    BY <1>1, <2>1, <2>2, ExceptSeq DEF PutIn
  <2>4. /\ Len(FlattenSeq(next)) = Len(FlattenSeq(cs)) + 1
        /\ ToSet(FlattenSeq(next)) = ToSet(FlattenSeq(cs)) \cup {e}
    BY <1>2, <2>1, FlattenPut
  <2>5. next \in Clusterings(P)
    BY <2>3 DEF Clusterings, N
  <2>6. Len(next) <= Len(cs) + 1
    BY <1>2, <2>3
  <2> QED BY <1>2, <1>3, <2>4, <2>5, <2>6
<1> QED BY <1>4, <1>5 DEF Joins

(* All of them, one after the other.                                           *)
LEMMA JoinedAll ==
    ASSUME NEW P, NEW s \in Seq(P), NEW got \in [0..Len(s) -> Clusterings(P)], got[0] = <<>>,
           \A k \in 1..Len(s) : Joins(got[k - 1], s[k], got[k])
    PROVE  LET cs == got[Len(s)] IN
           /\ cs \in Clusterings(P) /\ Len(cs) <= Len(s)
           /\ Len(FlattenSeq(cs)) = Len(s) /\ ToSet(FlattenSeq(cs)) = ToSet(s)
<1> DEFINE n == Len(s)
           flat(k) == FlattenSeq(got[k])
           K == {k \in 0..n : /\ Len(got[k]) <= k /\ Len(flat(k)) = k
                              /\ ToSet(flat(k)) = {s[i] : i \in 1..k}}
<1>1. n \in Nat /\ DOMAIN s = 1..n /\ \A i \in 1..n : s[i] \in P
  BY LenProperties, ElementOfSeq
<1>2. 0 \in K
  <2>1. got[0] = <<>> /\ <<>> \in Seq(Seq(P)) /\ Len(<<>>) = 0 /\ DOMAIN <<>> = {}
    BY EmptySeq
  <2>2. ToSet(FlattenSeq(<<>>)) = {} /\ FlattenSeq(<<>>) \in Seq(P)
    <3> DEFINE none == <<>>
    <3> HIDE DEF none
    <3>1. none \in Seq(Seq(P)) /\ DOMAIN none = {}
      BY <2>1 DEF none
    <3>2. FlattenSeq(none) \in Seq(P) /\ ToSet(FlattenSeq(none)) = InSome(none)
      BY <3>1, FlattenedIn
    <3>3. InSome(none) = {}
      BY <3>1 DEF InSome
    <3> QED BY <3>2, <3>3 DEF none
  <2>3. Len(FlattenSeq(<<>>)) = 0
    <3> DEFINE f == FlattenSeq(<<>>)
    <3>1. DOMAIN f = 1..Len(f) /\ Len(f) \in Nat
      BY <2>2, LenProperties
    <3>2. \A i \in DOMAIN f : f[i] \in ToSet(f)
      BY DEF ToSet
    <3>3. ToSet(f) = {}
      BY <2>2
    <3> HIDE DEF f
    <3>4. 1 \notin 1..Len(f)
      BY <3>1, <3>2, <3>3
    <3>5. Len(f) = 0
      BY <3>1, <3>4
    <3> QED BY <3>5 DEF f
  <2>4. 0 \in 0..n /\ 1..0 = {}
    BY <1>1
  <2> HIDE DEF n
  <2> QED BY <2>1, <2>2, <2>3, <2>4
<1>3. \A k \in 1..n : k - 1 \in K => k \in K
  <2> SUFFICES ASSUME NEW k \in 1..n, k - 1 \in K PROVE k \in K
    OBVIOUS
  <2>1. k - 1 \in 0..n /\ k \in 0..n /\ got[k - 1] \in Clusterings(P) /\ s[k] \in P /\ Joins(got[k - 1], s[k], got[k])
    BY <1>1
  <2>2. /\ Len(got[k]) <= Len(got[k - 1]) + 1
        /\ Len(flat(k)) = Len(flat(k - 1)) + 1
        /\ ToSet(flat(k)) = ToSet(flat(k - 1)) \cup {s[k]}
        /\ Len(got[k - 1]) \in Nat
        /\ got[k] \in Clusterings(P)
    BY <2>1, JoinedIs
  <2>3. Len(got[k - 1]) <= k - 1 /\ Len(flat(k - 1)) = k - 1 /\ ToSet(flat(k - 1)) = {s[i] : i \in 1..(k - 1)}
    OBVIOUS
  <2>4. {s[i] : i \in 1..k} = {s[i] : i \in 1..(k - 1)} \cup {s[k]}
    BY <1>1
  <2>5. Len(got[k]) \in Nat
    BY <2>2, LenProperties DEF Clusterings
  <2> HIDE DEF flat, n
  <2>6. Len(got[k]) <= k /\ Len(flat(k)) = k
    BY <1>1, <2>1, <2>2, <2>3, <2>5
  <2>7. ToSet(flat(k)) = {s[i] : i \in 1..k}
    BY <2>2, <2>3, <2>4
  <2> QED BY <2>1, <2>6, <2>7
<1>4. \A k \in 0..n : k \in K
  <2> HIDE DEF K, n
  <2> QED BY <1>1, <1>2, <1>3, UpToBound
<1>5. n \in 0..n
  BY <1>1
<1>6. ToSet(s) = {s[i] : i \in 1..n}
  BY <1>1 DEF ToSet
<1> QED BY <1>4, <1>5, <1>6

-----------------------------------------------------------------------------
(* Clusters of pages.                                                          *)

(* Pages that carry a label of the roll-up, which the provers do not know to be*)
(* strings.                                                                    *)
Labels == STRING \cup {"v1", "v2"}
Placed == [at : Int, label : Labels, id : STRING]

LEMMA PagesPlaced == \A s : s \in Seq(Memory!Pages) => s \in Seq(Placed)
<1>1. Memory!Pages \subseteq Placed
  BY DEF Memory!Pages, Placed, Labels
<1> QED BY <1>1, SeqMonotonic

(* The step of clusterEntities.                                                *)
PlacedPage(cs, e) ==
    LET best == {i \in DOMAIN cs : \A j \in DOMAIN cs : Memory!Closest(cs[i], e) <= Memory!Closest(cs[j], e)}
        i == CHOOSE b \in best : \A o \in best : b <= o
    IN  IF cs # <<>> /\ Memory!Closest(cs[i], e) <= Apart THEN [cs EXCEPT ![i] = Append(@, e)]
        ELSE Append(cs, <<e>>)

LEMMA ClosestIs ==
    ASSUME NEW c \in Seq(Placed) \ {<<>>}, NEW e \in Placed
    PROVE  /\ Memory!Closest(c, e) \in Nat
           /\ \E j \in 1..Len(c) : Memory!Closest(c, e) = Memory!Distance(c[j].at, e.at)
<1>1. Len(c) \in Nat /\ DOMAIN c = 1..Len(c) /\ Len(c) # 0 /\ \A j \in 1..Len(c) : c[j] \in Placed
  BY LenProperties, ElementOfSeq, EmptySeq
<1> DEFINE ds == {Memory!Distance(m.at, e.at) : m \in ToSet(c)}
<1>2. ds = {Memory!Distance(c[j].at, e.at) : j \in 1..Len(c)}
  BY <1>1 DEF ToSet
<1>3. \A j \in 1..Len(c) : Memory!Distance(c[j].at, e.at) \in Nat
  <2> SUFFICES ASSUME NEW j \in 1..Len(c) PROVE Memory!Distance(c[j].at, e.at) \in Nat
    OBVIOUS
  <2>1. c[j].at \in Int /\ e.at \in Int
    BY <1>1 DEF Placed
  <2> QED BY <2>1 DEF Memory!Distance
<1>4. ds \in SUBSET Nat /\ ds # {}
  <2>1. 1 \in 1..Len(c)
    BY <1>1
  <2> QED BY <1>2, <1>3, <2>1
<1>5. Memory!Closest(c, e) = CHOOSE d \in ds : \A o \in ds : d <= o
  BY SameToSetMemory DEF Memory!Closest
<1> HIDE DEF ds
<1>6. \E d \in ds : \A o \in ds : d <= o
  BY <1>4, LeastMember
<1>7. Memory!Closest(c, e) \in ds
  BY <1>5, <1>6
<1> QED BY <1>2, <1>4, <1>7

LEMMA PlacedPageIs ==
    ASSUME NEW cs \in Clusterings(Placed), NEW e \in Placed
    PROVE  LET next == PlacedPage(cs, e) IN
           \/ next = Append(cs, <<e>>)
           \/ \E i \in 1..Len(cs) :
                /\ next = PutIn(cs, i, e)
                /\ \E j \in 1..Len(cs[i]) : Memory!Distance(cs[i][j].at, e.at) <= Apart
<1> DEFINE N == Seq(Placed) \ {<<>>}
           near(i) == Memory!Closest(cs[i], e)
           best == {i \in DOMAIN cs : \A j \in DOMAIN cs : near(i) <= near(j)}
           spot == CHOOSE b \in best : \A o \in best : b <= o
<1>1. Len(cs) \in Nat /\ DOMAIN cs = 1..Len(cs) /\ \A i \in 1..Len(cs) : cs[i] \in N
  <2>1. cs \in Seq(N)
    BY DEF Clusterings
  <2> HIDE DEF N
  <2> QED BY <2>1, LenProperties, ElementOfSeq
<1>2. PlacedPage(cs, e) = IF cs # <<>> /\ near(spot) <= Apart THEN [cs EXCEPT ![spot] = Append(@, e)]
                          ELSE Append(cs, <<e>>)
  BY DEF PlacedPage
<1>3. CASE cs # <<>> /\ near(spot) <= Apart
  <2>1. Len(cs) # 0
    BY <1>1, <1>3, EmptySeq, cs \in Seq(N) DEF Clusterings
  <2>2. \A i \in 1..Len(cs) : near(i) \in Nat
    BY <1>1, ClosestIs
  <2> HIDE DEF near
  <2>3. best # {}
    <3> DEFINE ds == {near(i) : i \in 1..Len(cs)}
    <3>1. ds \in SUBSET Nat /\ ds # {}
      <4>1. 1 \in 1..Len(cs)
        BY <1>1, <2>1
      <4> QED BY <2>2, <4>1
    <3>2. \E d \in ds : \A o \in ds : d <= o
      <4> HIDE DEF ds
      <4> QED BY <3>1, LeastMember
    <3>3. PICK i \in 1..Len(cs) : \A j \in 1..Len(cs) : near(i) <= near(j)
      BY <3>2
    <3> QED BY <1>1, <3>3
  <2>4. best \in SUBSET Nat
    BY <1>1
  <2>5. spot \in best
    <3> HIDE DEF best
    <3>1. \E b \in best : \A o \in best : b <= o
      BY <2>3, <2>4, LeastMember
    <3> QED BY <3>1
  <2>6. spot \in 1..Len(cs)
    BY <1>1, <2>5
  <2> HIDE DEF spot
  <2>7. PlacedPage(cs, e) = PutIn(cs, spot, e)
    BY <1>2, <1>3, <2>6 DEF PutIn
  <2>8. \E j \in 1..Len(cs[spot]) : near(spot) = Memory!Distance(cs[spot][j].at, e.at)
    BY <1>1, <2>6, ClosestIs DEF near
  <2> QED BY <1>3, <2>6, <2>7, <2>8
<1>4. CASE ~(cs # <<>> /\ near(spot) <= Apart)
  BY <1>2, <1>4
<1> QED BY <1>3, <1>4

(* Each page of a cluster, but the first, is near an earlier one.              *)
Chained(c) == \A i \in 2..Len(c) : \E j \in 1..(i - 1) : c[i].at - c[j].at \in -Apart..Apart

LEMMA ChainedOne == \A e : Chained(<<e>>)
BY DEF Chained

LEMMA ChainedAppend ==
    ASSUME NEW c \in Seq(Placed), NEW e \in Placed, Chained(c),
           \E j \in 1..Len(c) : Memory!Distance(c[j].at, e.at) <= Apart
    PROVE  Chained(Append(c, e))
<1> DEFINE t == Append(c, e)
           n == Len(c)
<1>1. n \in Nat /\ Len(t) = n + 1 /\ t[n + 1] = e /\ \A i \in 1..n : t[i] = c[i] /\ c[i] \in Placed
  BY AppendProperties, LenProperties, ElementOfSeq
<1> HIDE DEF t
<1>2. PICK k \in 1..n : Memory!Distance(c[k].at, e.at) <= Apart
  OBVIOUS
<1> HIDE DEF n
<1>3. ASSUME NEW i \in 2..Len(t) PROVE \E j \in 1..(i - 1) : t[i].at - t[j].at \in -Apart..Apart
  <2>1. CASE i = n + 1
    <3>1. t[i] = e /\ t[k] = c[k] /\ k \in 1..(i - 1)
      BY <1>1, <1>2, <2>1
    <3>2. e.at \in Int /\ c[k].at \in Int /\ Apart \in Nat
      BY <1>1, <1>2, MemoryAssumption DEF Placed
    <3>3. e.at - c[k].at \in -Apart..Apart
      <4> DEFINE x == e.at
                 y == c[k].at
      <4>1. x \in Int /\ y \in Int /\ Memory!Distance(y, x) <= Apart
        BY <1>2, <3>2
      <4> HIDE DEF x, y
      <4>2. x - y \in -Apart..Apart
        BY <3>2, <4>1 DEF Memory!Distance
      <4> QED BY <4>2 DEF x, y
    <3> QED BY <3>1, <3>3
  <2>2. CASE i # n + 1
    <3>1. i \in 2..n /\ i \in 1..n
      BY <1>1, <2>2
    <3>2. PICK j \in 1..(i - 1) : c[i].at - c[j].at \in -Apart..Apart
      BY <3>1 DEF Chained, n
    <3>3. j \in 1..n
      BY <1>1, <3>1, <3>2
    <3> QED BY <1>1, <3>1, <3>2, <3>3
  <2> QED BY <2>1, <2>2
<1> QED BY <1>3 DEF Chained, t

LEMMA PageFold ==
    ASSUME NEW s \in Seq(Placed)
    PROVE  \E got \in [0..Len(s) -> Clusterings(Placed)] :
             /\ got[0] = <<>> /\ \A k \in 1..Len(s) : got[k] = PlacedPage(got[k - 1], s[k])
             /\ Memory!FoldLeft(PlacedPage, <<>>, s) = got[Len(s)]
<1> DEFINE S == Clusterings(Placed)
           n == Len(s)
           b == <<>>
           G == [p \in S \X (1..n) |-> PlacedPage(p[1], s[p[2]])]
           Is(it) == it = [u \in SUBSET (1..n) |->
                        IF u = {} THEN b ELSE PlacedPage(it[u \ {Max(u)}], s[Max(u)])]
<1>1. n \in Nat /\ DOMAIN s = 1..n /\ \A i \in 1..n : s[i] \in Placed
  BY LenProperties, ElementOfSeq
<1>2. b \in S
  BY EmptySeq DEF Clusterings
<1>3. ASSUME NEW r \in S, NEW x \in Placed
      PROVE  PlacedPage(r, x) \in S
  <2>1. Joins(r, x, PlacedPage(r, x))
    BY PlacedPageIs DEF Joins
  <2> QED BY <2>1, JoinedIs
<1> HIDE DEF S, b
<1>4. G \in [S \X (1..n) -> S]
  BY <1>1, <1>3
<1>5. PICK it : IsFold(it, S, n, G, b)
  <2> HIDE DEF G, n
  <2> QED BY <1>1, <1>2, <1>4, FoldExists
<1>6. Is(it)
  <2>1. ASSUME NEW u \in (SUBSET (1..n)) \ {{}}
        PROVE  it[u] = PlacedPage(it[u \ {Max(u)}], s[Max(u)])
    <3>1. Max(u) \in 1..n
      BY <1>1, GreatestIndex
    <3>2. it[u \ {Max(u)}] \in S
      BY <1>5 DEF IsFold
    <3>3. it[u] = G[<<it[u \ {Max(u)}], Max(u)>>]
      BY <1>5 DEF IsFold
    <3> QED BY <3>1, <3>2, <3>3
  <2> HIDE DEF G, n
  <2> QED BY <1>5, <2>1 DEF IsFold
<1> DEFINE it2 == CHOOSE h : Is(h)
<1>7. Is(it2)
  <2> HIDE DEF Is
  <2> QED BY <1>6
<1>8. Memory!FoldLeft(PlacedPage, <<>>, s) = it2[1..n]
  BY <1>1, SameMaxMemory DEF Memory!FoldLeft, Memory!MapThenFoldSet, b
<1>9. it2[{}] = b /\ \A k \in 1..n : it2[1..k] = PlacedPage(it2[1..(k - 1)], s[k])
  <2>1. {} \in SUBSET (1..n)
    OBVIOUS
  <2>2. \A k \in 1..n : /\ 1..k \in SUBSET (1..n) /\ 1..k # {}
           /\ Max(1..k) = k /\ (1..k) \ {Max(1..k)} = 1..(k - 1)
    BY <1>1, FoldPasses
  <2> HIDE DEF it2
  <2> QED BY <1>7, <2>1, <2>2
<1> HIDE DEF it2
<1> DEFINE got == [k \in 0..n |-> it2[1..k]]
<1>10. got[0] = b /\ \A k \in 1..n : got[k] = PlacedPage(got[k - 1], s[k])
  <2>1. 1..0 = {} /\ 0 \in 0..n /\ \A k \in 1..n : k \in 0..n /\ k - 1 \in 0..n
    BY <1>1
  <2> HIDE DEF n
  <2> QED BY <1>9, <2>1
<1>11. got = [k \in 0..n |-> got[k]]
  OBVIOUS
<1>12. got[n] = it2[1..n]
  <2>1. n \in 0..n
    BY <1>1
  <2> QED BY <2>1
<1> HIDE DEF got
<1>13. \A k \in 0..n : got[k] \in S
  <2> DEFINE P == {k \in 0..n : got[k] \in S}
  <2>1. 0 \in P
    BY <1>1, <1>2, <1>10
  <2>2. \A k \in 1..n : k - 1 \in P => k \in P
    <3> SUFFICES ASSUME NEW k \in 1..n, k - 1 \in P PROVE k \in P
      OBVIOUS
    <3>1. got[k - 1] \in S /\ s[k] \in Placed /\ k \in 0..n
      BY <1>1
    <3> QED BY <1>3, <1>10, <3>1
  <2>3. \A k \in 0..n : k \in P
    <3> HIDE DEF P, n
    <3> QED BY <1>1, <2>1, <2>2, UpToBound
  <2> QED BY <2>3
<1>14. got \in [0..n -> S]
  BY <1>11, <1>13
<1> QED BY <1>8, <1>10, <1>12, <1>14 DEF S, b

(* What clusterEntities makes of pages.                                        *)
LEMMA ClustersAre ==
    ASSUME NEW pages \in Seq(Placed)
    PROVE  LET cs == Memory!ClusterEntities(pages)
               placed == Among(pages, {p \in ToSet(pages) : p.at >= 0}) IN
           /\ cs \in Clusterings(Placed)
           /\ Len(FlattenSeq(cs)) = Len(placed) /\ ToSet(FlattenSeq(cs)) = ToSet(placed)
           /\ \A i \in 1..Len(cs) : Chained(cs[i])
<1> DEFINE P == Placed
           some == {p \in ToSet(pages) : p.at >= 0}
           s == Among(pages, some)
           n == Len(s)
<1>1. s \in Seq(P) /\ Memory!Among(pages, some) = s
  BY AmongPicks
<1>2. Memory!ClusterEntities(pages) = Memory!FoldLeft(PlacedPage, <<>>, s)
  BY <1>1, SameToSetMemory, Zenon DEF Memory!ClusterEntities, PlacedPage
<1> HIDE DEF s
<1>3. PICK got \in [0..n -> Clusterings(P)] :
        /\ got[0] = <<>> /\ \A k \in 1..n : got[k] = PlacedPage(got[k - 1], s[k])
        /\ Memory!FoldLeft(PlacedPage, <<>>, s) = got[n]
  BY <1>1, PageFold
<1>4. n \in Nat /\ \A k \in 1..n : s[k] \in P
  BY <1>1, LenProperties, ElementOfSeq
<1>5. \A k \in 1..n : Joins(got[k - 1], s[k], got[k])
  <2> SUFFICES ASSUME NEW k \in 1..n PROVE Joins(got[k - 1], s[k], got[k])
    OBVIOUS
  <2>1. k - 1 \in 0..n
    BY <1>4
  <2> QED BY <1>3, <1>4, <2>1, PlacedPageIs DEF Joins
<1>6. /\ got[n] \in Clusterings(P)
      /\ Len(FlattenSeq(got[n])) = n /\ ToSet(FlattenSeq(got[n])) = ToSet(s)
  BY <1>1, <1>3, <1>5, JoinedAll
<1> DEFINE K == {k \in 0..n : \A i \in 1..Len(got[k]) : Chained(got[k][i])}
<1>7. 0 \in K
  <2>1. Len(<<>>) = 0
    BY EmptySeq
  <2> HIDE DEF n
  <2> QED BY <1>3, <1>4, <2>1
<1>8. \A k \in 1..n : k - 1 \in K => k \in K
  <2> SUFFICES ASSUME NEW k \in 1..n, k - 1 \in K PROVE k \in K
    OBVIOUS
  <2> DEFINE cs == got[k - 1]
             e == s[k]
             next == got[k]
  <2>1. cs \in Clusterings(P) /\ e \in P /\ next = PlacedPage(cs, e) /\ k \in 0..n
    BY <1>3, <1>4
  <2>2. \A i \in 1..Len(cs) : Chained(cs[i])
    OBVIOUS
  <2> HIDE DEF cs, e, next
  <2> DEFINE N == Seq(P) \ {<<>>}
  <2>3. cs \in Seq(N)
    BY <2>1 DEF Clusterings
  <2>4. Len(cs) \in Nat /\ \A i \in 1..Len(cs) : cs[i] \in N
    <3> HIDE DEF N
    <3> QED BY <2>3, LenProperties, ElementOfSeq
  <2>5. CASE next = Append(cs, <<e>>)
    <3> DEFINE x == <<e>>
    <3>1. Chained(x)
      BY ChainedOne
    <3>2. x \in N
      BY <2>1
    <3> HIDE DEF x, N
    <3>3. Len(next) = Len(cs) + 1 /\ next[Len(cs) + 1] = x /\ \A i \in 1..Len(cs) : next[i] = cs[i]
      BY <2>3, <2>5, <3>2, AppendProperties DEF x
    <3>4. \A i \in 1..Len(next) : Chained(next[i])
      <4> SUFFICES ASSUME NEW i \in 1..Len(next) PROVE Chained(next[i])
        OBVIOUS
      <4>1. i \in 1..Len(cs) \/ i = Len(cs) + 1
        BY <2>4, <3>3
      <4> QED BY <2>2, <3>1, <3>3, <4>1
    <3> QED BY <2>1, <3>4 DEF next
  <2>6. CASE \E i \in 1..Len(cs) :
                /\ next = PutIn(cs, i, e)
                /\ \E j \in 1..Len(cs[i]) : Memory!Distance(cs[i][j].at, e.at) <= Apart
    <3>1. PICK i \in 1..Len(cs) : /\ next = PutIn(cs, i, e)
                                  /\ \E j \in 1..Len(cs[i]) : Memory!Distance(cs[i][j].at, e.at) <= Apart
      BY <2>6
    <3> DEFINE x == Append(cs[i], e)
    <3>2. Chained(x) /\ x \in N
      <4>1. cs[i] \in Seq(P) /\ Chained(cs[i])
        BY <2>2, <2>4
      <4>2. Chained(x)
        BY <2>1, <3>1, <4>1, ChainedAppend
      <4>3. x \in Seq(P) /\ x # <<>>
        BY SMTT(30), <2>1, <4>1, AppendProperties
      <4> QED BY <4>2, <4>3
    <3>3. next = [cs EXCEPT ![i] = x]
      BY <3>1 DEF PutIn
    <3> HIDE DEF x, N
    <3> DEFINE z == [cs EXCEPT ![i] = x]
    <3>4. Len(z) = Len(cs) /\ \A j \in 1..Len(cs) : z[j] = IF j = i THEN x ELSE cs[j]
      BY <2>3, <3>2, ExceptSeq
    <3>5. z = next
      BY <3>3
    <3> HIDE DEF z
    <3>6. \A j \in 1..Len(next) : Chained(next[j])
      BY <2>2, <3>2, <3>4, <3>5
    <3> QED BY <2>1, <3>6 DEF next
  <2> QED BY <2>1, <2>5, <2>6, PlacedPageIs
<1>9. n \in K
  <2>1. \A k \in 0..n : k \in K
    <3> HIDE DEF K, n
    <3> QED BY <1>4, <1>7, <1>8, UpToBound
  <2>2. n \in 0..n
    BY <1>4
  <2> QED BY <2>1, <2>2
<1> QED BY <1>2, <1>3, <1>6, <1>9 DEF s

-----------------------------------------------------------------------------
(* Staged rows, and their clusters.                                            *)

(* The list of a set: its members, each once.                                  *)
LEMMA ListOfSet ==
    ASSUME NEW S, IsFiniteSet(S)
    PROVE  /\ SetToSeq(S) \in Seq(S) /\ ToSet(SetToSeq(S)) = S /\ Len(SetToSeq(S)) = Cardinality(S)
           /\ \A k, l \in DOMAIN SetToSeq(S) : SetToSeq(S)[k] = SetToSeq(S)[l] => k = l
<1> DEFINE n == Cardinality(S)
           f == SetToSeq(S)
<1>1. n \in Nat /\ ExistsBijection(1..n, S)
  BY FS_CardinalityType
<1>2. f = CHOOSE g \in [1..n -> S] : IsInjective(g)
  BY DEF SetToSeq
<1>3. \E g \in [1..n -> S] : IsInjective(g)
  BY <1>1 DEF ExistsBijection, Bijection, Injection
<1> HIDE DEF f, n
<1>4. f \in [1..n -> S] /\ IsInjective(f)
  BY <1>2, <1>3
<1>5. f \in Injection(1..n, S)
  BY <1>4 DEF Injection
<1>6. IsFiniteSet(1..n) /\ Cardinality(1..n) = n
  <2>1. n \in Int /\ 1 \in Int /\ n >= 0
    BY <1>1
  <2>2. IsFiniteSet(1..n) /\ Cardinality(1..n) = IF 1 > n THEN 0 ELSE n - 1 + 1
    BY <2>1, FS_Interval
  <2> QED BY <2>1, <2>2
<1>7. f \in Surjection(1..n, S)
  <2>1. Cardinality(1..n) = Cardinality(S)
    BY <1>6 DEF n
  <2> QED BY <1>5, <2>1, FS_Injection
<1>8. f \in Seq(S) /\ Len(f) = n /\ DOMAIN f = 1..n
  <2>1. \A m \in Nat : \A g : g \in [1..m -> S] => g \in Seq(S)
    OBVIOUS
  <2>2. f \in Seq(S) /\ DOMAIN f = 1..n
    BY <1>1, <1>4, <2>1
  <2>3. Len(f) = n
    <3>1. Len(f) \in Nat /\ 1..Len(f) = 1..n
      BY <2>2, LenProperties
    <3> QED BY <1>1, <3>1
  <2> QED BY <2>2, <2>3
<1>9. ToSet(f) = S
  BY <1>4, <1>7, <1>8 DEF ToSet, Surjection
<1>10. \A k, l \in DOMAIN f : f[k] = f[l] => k = l
  BY <1>4 DEF IsInjective
<1> QED BY <1>8, <1>9, <1>10 DEF f, n

LEMMA NoLonger ==
    ASSUME NEW V, NEW s \in Seq(V), NEW keep
    PROVE  Len(Among(s, keep)) <= Len(s)
<1> DEFINE n == Len(s)
           some == {i \in DOMAIN s : s[i] \in keep}
<1>1. n \in Nat /\ DOMAIN s = 1..n
  BY LenProperties
<1>2. IsFiniteSet(1..n) /\ Cardinality(1..n) = n
  <2> HIDE DEF n
  <2>1. n \in Int /\ 1 \in Int /\ n >= 0
    BY <1>1
  <2>2. IsFiniteSet(1..n) /\ Cardinality(1..n) = IF 1 > n THEN 0 ELSE n - 1 + 1
    BY <2>1, FS_Interval
  <2> QED BY <2>1, <2>2
<1>3. some \in SUBSET (1..n)
  BY <1>1
<1>4. Len(Among(s, keep)) = Cardinality(some)
  BY AmongCounts
<1> HIDE DEF some, n
<1>5. Cardinality(some) <= n
  BY <1>2, <1>3, FS_Subset
<1> QED BY <1>4, <1>5 DEF n

(* The step of clusterStagingRows.                                             *)
PlacedRow(cs, e) ==
    LET fits == {i \in DOMAIN cs : \E m \in Memory!ToSet(cs[i]) : Memory!Alike(m, e)}
    IN  IF fits = {} THEN Append(cs, <<e>>)
        ELSE [cs EXCEPT ![CHOOSE i \in fits : \A o \in fits : i <= o] = Append(@, e)]

LEMMA PlacedRowIs ==
    ASSUME NEW V, NEW cs \in Clusterings(V), NEW e \in V
    PROVE  Joins(cs, e, PlacedRow(cs, e))
<1> DEFINE fits == {i \in DOMAIN cs : \E m \in Memory!ToSet(cs[i]) : Memory!Alike(m, e)}
           spot == CHOOSE i \in fits : \A o \in fits : i <= o
           N == Seq(V) \ {<<>>}
<1>1. DOMAIN cs = 1..Len(cs) /\ Len(cs) \in Nat
  <2>1. cs \in Seq(N)
    BY DEF Clusterings
  <2> HIDE DEF N
  <2> QED BY <2>1, LenProperties
<1>2. PlacedRow(cs, e) = IF fits = {} THEN Append(cs, <<e>>) ELSE [cs EXCEPT ![spot] = Append(@, e)]
  BY DEF PlacedRow
<1>3. fits \in SUBSET Nat /\ fits \subseteq 1..Len(cs)
  BY <1>1
<1> HIDE DEF fits
<1>4. CASE fits = {}
  BY <1>2, <1>4 DEF Joins
<1>5. CASE fits # {}
  <2>1. spot \in fits
    <3>1. \E i \in fits : \A o \in fits : i <= o
      BY <1>3, <1>5, LeastMember
    <3> QED BY <3>1
  <2> HIDE DEF spot
  <2>2. spot \in 1..Len(cs) /\ PlacedRow(cs, e) = PutIn(cs, spot, e)
    BY <1>2, <1>3, <1>5, <2>1 DEF PutIn
  <2> QED BY <2>2 DEF Joins
<1> QED BY <1>4, <1>5

LEMMA RowFold ==
    ASSUME NEW V, NEW s \in Seq(V)
    PROVE  \E got \in [0..Len(s) -> Clusterings(V)] :
             /\ got[0] = <<>> /\ \A k \in 1..Len(s) : got[k] = PlacedRow(got[k - 1], s[k])
             /\ Memory!FoldLeft(PlacedRow, <<>>, s) = got[Len(s)]
<1> DEFINE S == Clusterings(V)
           n == Len(s)
           b == <<>>
           G == [p \in S \X (1..n) |-> PlacedRow(p[1], s[p[2]])]
           Is(it) == it = [u \in SUBSET (1..n) |->
                        IF u = {} THEN b ELSE PlacedRow(it[u \ {Max(u)}], s[Max(u)])]
<1>1. n \in Nat /\ DOMAIN s = 1..n /\ \A i \in 1..n : s[i] \in V
  BY LenProperties, ElementOfSeq
<1>2. b \in S
  BY EmptySeq DEF Clusterings
<1>3. ASSUME NEW r \in S, NEW x \in V
      PROVE  PlacedRow(r, x) \in S
  <2>1. Joins(r, x, PlacedRow(r, x))
    BY PlacedRowIs DEF Joins
  <2> QED BY <2>1, JoinedIs
<1> HIDE DEF S, b
<1>4. G \in [S \X (1..n) -> S]
  BY <1>1, <1>3
<1>5. PICK it : IsFold(it, S, n, G, b)
  <2> HIDE DEF G, n
  <2> QED BY <1>1, <1>2, <1>4, FoldExists
<1>6. Is(it)
  <2>1. ASSUME NEW u \in (SUBSET (1..n)) \ {{}}
        PROVE  it[u] = PlacedRow(it[u \ {Max(u)}], s[Max(u)])
    <3>1. Max(u) \in 1..n
      BY <1>1, GreatestIndex
    <3>2. it[u \ {Max(u)}] \in S
      BY <1>5 DEF IsFold
    <3>3. it[u] = G[<<it[u \ {Max(u)}], Max(u)>>]
      BY <1>5 DEF IsFold
    <3> QED BY <3>1, <3>2, <3>3
  <2> HIDE DEF G, n
  <2> QED BY <1>5, <2>1 DEF IsFold
<1> DEFINE it2 == CHOOSE h : Is(h)
<1>7. Is(it2)
  <2> HIDE DEF Is
  <2> QED BY <1>6
<1>8. Memory!FoldLeft(PlacedRow, <<>>, s) = it2[1..n]
  BY <1>1, SameMaxMemory DEF Memory!FoldLeft, Memory!MapThenFoldSet, b
<1>9. it2[{}] = b /\ \A k \in 1..n : it2[1..k] = PlacedRow(it2[1..(k - 1)], s[k])
  <2>1. {} \in SUBSET (1..n)
    OBVIOUS
  <2>2. \A k \in 1..n : /\ 1..k \in SUBSET (1..n) /\ 1..k # {}
           /\ Max(1..k) = k /\ (1..k) \ {Max(1..k)} = 1..(k - 1)
    BY <1>1, FoldPasses
  <2> HIDE DEF it2
  <2> QED BY <1>7, <2>1, <2>2
<1> HIDE DEF it2
<1> DEFINE got == [k \in 0..n |-> it2[1..k]]
<1>10. got[0] = b /\ \A k \in 1..n : got[k] = PlacedRow(got[k - 1], s[k])
  <2>1. 1..0 = {} /\ 0 \in 0..n /\ \A k \in 1..n : k \in 0..n /\ k - 1 \in 0..n
    BY <1>1
  <2> HIDE DEF n
  <2> QED BY <1>9, <2>1
<1>11. got = [k \in 0..n |-> got[k]]
  OBVIOUS
<1>12. got[n] = it2[1..n]
  <2>1. n \in 0..n
    BY <1>1
  <2> QED BY <2>1
<1> HIDE DEF got
<1>13. \A k \in 0..n : got[k] \in S
  <2> DEFINE P == {k \in 0..n : got[k] \in S}
  <2>1. 0 \in P
    BY <1>1, <1>2, <1>10
  <2>2. \A k \in 1..n : k - 1 \in P => k \in P
    <3> SUFFICES ASSUME NEW k \in 1..n, k - 1 \in P PROVE k \in P
      OBVIOUS
    <3>1. got[k - 1] \in S /\ s[k] \in V /\ k \in 0..n
      BY <1>1
    <3> QED BY <1>3, <1>10, <3>1
  <2>3. \A k \in 0..n : k \in P
    <3> HIDE DEF P, n
    <3> QED BY <1>1, <2>1, <2>2, UpToBound
  <2> QED BY <2>3
<1>14. got \in [0..n -> S]
  BY <1>11, <1>13
<1> QED BY <1>8, <1>10, <1>12, <1>14 DEF S, b

(* What clusterStagingRows makes of rows.                                      *)
LEMMA RowClustersAre ==
    ASSUME NEW V, NEW s \in Seq(V)
    PROVE  LET cs == Memory!ClusterStagingRows(s) IN
           /\ cs \in Clusterings(V) /\ Len(cs) <= Len(s)
           /\ Len(FlattenSeq(cs)) = Len(s) /\ ToSet(FlattenSeq(cs)) = ToSet(s)
<1> DEFINE n == Len(s)
<1>1. Memory!ClusterStagingRows(s) = Memory!FoldLeft(PlacedRow, <<>>, s)
  BY Zenon DEF Memory!ClusterStagingRows, PlacedRow
<1>2. PICK got \in [0..n -> Clusterings(V)] :
        /\ got[0] = <<>> /\ \A k \in 1..n : got[k] = PlacedRow(got[k - 1], s[k])
        /\ Memory!FoldLeft(PlacedRow, <<>>, s) = got[n]
  BY RowFold
<1>3. n \in Nat /\ \A k \in 1..n : s[k] \in V
  BY LenProperties, ElementOfSeq
<1>4. \A k \in 1..n : Joins(got[k - 1], s[k], got[k])
  <2> SUFFICES ASSUME NEW k \in 1..n PROVE Joins(got[k - 1], s[k], got[k])
    OBVIOUS
  <2>1. k - 1 \in 0..n
    BY <1>3
  <2> QED BY <1>2, <1>3, <2>1, PlacedRowIs
<1> QED BY <1>1, <1>2, <1>4, JoinedAll

(* The rows of names that were seen: one of each name, which counts them.      *)
Staged == [name : STRING, role : STRING, at : Int, count : Nat]
Sightings == [name : STRING, role : STRING, at : Int]
Occurrences(seen, k, name) == {i \in 1..k : seen[i].name = name}
Upserted(rows, seen, k) ==
    /\ rows \in SUBSET Staged /\ IsFiniteSet(rows)
    /\ \A r, t \in rows : r.name = t.name => r = t
    /\ {r.name : r \in rows} = {seen[i].name : i \in 1..k}
    /\ \A r \in rows : r.count = Cardinality(Occurrences(seen, k, r.name))

LEMMA TimesNext ==
    ASSUME NEW seen, NEW n \in Nat, NEW k \in 1..n, NEW name
    PROVE  /\ Cardinality(Occurrences(seen, k, name)) = Cardinality(Occurrences(seen, k - 1, name)) + (IF seen[k].name = name THEN 1 ELSE 0)
           /\ Cardinality(Occurrences(seen, k - 1, name)) \in Nat
<1> DEFINE old == Occurrences(seen, k - 1, name)
<1>1. IsFiniteSet(old)
  <2>1. IsFiniteSet(1..(k - 1))
    BY FS_Interval
  <2>2. old \in SUBSET (1..(k - 1))
    BY DEF Occurrences
  <2> QED BY <2>1, <2>2, FS_Subset
<1>2. k \notin old
  BY DEF Occurrences
<1>3. Occurrences(seen, k, name) = IF seen[k].name = name THEN old \cup {k} ELSE old
  <2>1. 1..k = (1..(k - 1)) \cup {k}
    OBVIOUS
  <2> QED BY <2>1 DEF Occurrences
<1>4. Cardinality(old) \in Nat
  BY <1>1, FS_CardinalityType
<1>5. Cardinality(old \cup {k}) = Cardinality(old) + 1
  BY <1>1, <1>2, FS_AddElement
<1> HIDE DEF old
<1> QED BY <1>3, <1>4, <1>5 DEF old

LEMMA UpsertIs ==
    ASSUME NEW seen \in Seq(Sightings), NEW k \in 1..Len(seen), NEW rows, Upserted(rows, seen, k - 1)
    PROVE  Upserted(Memory!UpsertEntityStaging(rows, seen[k].name, seen[k].role, seen[k].at), seen, k)
<1> DEFINE o == seen[k]
           n == Len(seen)
           before == IF \E r \in rows : r.name = o.name THEN (CHOOSE r \in rows : r.name = o.name).count ELSE 0
           kept == {r \in rows : r.name # o.name}
           new == [name |-> o.name, role |-> o.role, at |-> o.at, count |-> 1 + before]
           next == Memory!UpsertEntityStaging(rows, o.name, o.role, o.at)
<1>1. n \in Nat /\ \A i \in 1..n : seen[i] \in Sightings
  BY LenProperties, ElementOfSeq
<1>2. next = kept \cup {new}
  BY DEF Memory!UpsertEntityStaging
<1>3. o \in Sightings /\ o.name \in STRING /\ o.role \in STRING /\ o.at \in Int
  BY <1>1 DEF Sightings
<1>4. /\ rows \in SUBSET Staged /\ IsFiniteSet(rows)
      /\ \A r, t \in rows : r.name = t.name => r = t
      /\ {r.name : r \in rows} = {seen[i].name : i \in 1..(k - 1)}
      /\ \A r \in rows : r.count = Cardinality(Occurrences(seen, k - 1, r.name))
  BY DEF Upserted
<1> HIDE DEF n, next
<1>5. \A name : /\ Cardinality(Occurrences(seen, k, name)) = Cardinality(Occurrences(seen, k - 1, name)) + (IF o.name = name THEN 1 ELSE 0)
                /\ Cardinality(Occurrences(seen, k - 1, name)) \in Nat
  BY <1>1, TimesNext DEF n
<1> HIDE DEF o
<1>6. before = Cardinality(Occurrences(seen, k - 1, o.name))
  <2>1. CASE \E r \in rows : r.name = o.name
    <3> DEFINE r == CHOOSE r \in rows : r.name = o.name
    <3>1. r \in rows /\ r.name = o.name
      BY <2>1
    <3> HIDE DEF r
    <3>2. r.count = Cardinality(Occurrences(seen, k - 1, o.name))
      BY <1>4, <3>1
    <3> QED BY <2>1, <3>2 DEF r
  <2>2. CASE ~\E r \in rows : r.name = o.name
    <3>1. Occurrences(seen, k - 1, o.name) = {}
      BY <1>4, <2>2 DEF Occurrences
    <3>2. Cardinality({}) = 0
      BY FS_EmptySet
    <3> QED BY <2>2, <3>1, <3>2
  <2> QED BY <2>1, <2>2
<1> HIDE DEF before
<1>7. before \in Nat
  BY <1>5, <1>6
<1>8. new \in Staged /\ new.name = o.name /\ new.count = 1 + before
  BY <1>3, <1>7 DEF Staged
<1> HIDE DEF new
<1>9. next \in SUBSET Staged
  BY <1>2, <1>4, <1>8
<1>10. IsFiniteSet(next)
  <2>1. IsFiniteSet(kept)
    <3>1. kept \in SUBSET rows
      OBVIOUS
    <3> HIDE DEF kept
    <3> QED BY <1>4, <3>1, FS_Subset
  <2> HIDE DEF kept
  <2> QED BY <1>2, <2>1, FS_AddElement
<1>11. \A r, t \in next : r.name = t.name => r = t
  BY <1>2, <1>4, <1>8
<1>12. {r.name : r \in next} = {seen[i].name : i \in 1..k}
  <2>1. 1..k = (1..(k - 1)) \cup {k}
    BY <1>1 DEF n
  <2>2. {seen[i].name : i \in 1..k} = {seen[i].name : i \in 1..(k - 1)} \cup {o.name}
    BY <2>1 DEF o
  <2>3. {r.name : r \in next} = {r.name : r \in rows} \cup {o.name}
    BY <1>2, <1>8
  <2> QED BY <1>4, <2>2, <2>3
<1>13. ASSUME NEW r \in next PROVE r.count = Cardinality(Occurrences(seen, k, r.name))
  <2> DEFINE c == Cardinality(Occurrences(seen, k, r.name))
             d == Cardinality(Occurrences(seen, k - 1, r.name))
  <2>1. c = d + (IF o.name = r.name THEN 1 ELSE 0) /\ d \in Nat
    BY <1>5
  <2>2. CASE r \in kept
    <3>1. r \in rows /\ r.name # o.name /\ r.count = d
      BY <1>4, <2>2
    <3> HIDE DEF c, d
    <3>2. r.count = c
      BY <2>1, <3>1
    <3> QED BY <3>2 DEF c
  <2>3. CASE r = new
    <3>1. r.name = o.name /\ r.count = 1 + d
      BY <1>6, <1>8, <2>3
    <3> HIDE DEF c, d
    <3>2. r.count = c
      BY <2>1, <3>1
    <3> QED BY <3>2 DEF c
  <2> QED BY <1>2, <2>2, <2>3
<1>14. Upserted(next, seen, k)
  BY <1>4, <1>9, <1>10, <1>11, <1>12, <1>13 DEF Upserted
<1> QED BY <1>14 DEF next, o

(* What is staged after all that was seen.                                     *)
StageOne(rows, o) == Memory!UpsertEntityStaging(rows, o.name, o.role, o.at)

LEMMA UpsertTyped ==
    ASSUME NEW rows \in SUBSET Staged, NEW o \in Sightings
    PROVE  StageOne(rows, o) \in SUBSET Staged
<1> DEFINE found == CHOOSE r \in rows : r.name = o.name
           before == IF \E r \in rows : r.name = o.name THEN found.count ELSE 0
           new == [name |-> o.name, role |-> o.role, at |-> o.at, count |-> 1 + before]
<1>1. StageOne(rows, o) = {r \in rows : r.name # o.name} \cup {new}
  BY DEF StageOne, Memory!UpsertEntityStaging
<1>2. before \in Nat
  <2>1. (\E r \in rows : r.name = o.name) => found \in rows
    OBVIOUS
  <2> HIDE DEF found
  <2> QED BY <2>1 DEF Staged
<1> HIDE DEF before
<1>3. new \in Staged
  BY <1>2 DEF Staged, Sightings
<1> HIDE DEF new
<1> QED BY <1>1, <1>3

LEMMA StagedAre ==
    ASSUME NEW s \in Seq(Sightings)
    PROVE  Upserted(FoldLeft(StageOne, {}, s), s, Len(s))
<1> DEFINE S == SUBSET Staged
           n == Len(s)
           b == {}
           G == [p \in S \X (1..n) |-> StageOne(p[1], s[p[2]])]
           Is(it) == it = [u \in SUBSET (1..n) |->
                        IF u = {} THEN b ELSE StageOne(it[u \ {Max(u)}], s[Max(u)])]
<1>1. n \in Nat /\ DOMAIN s = 1..n /\ \A i \in 1..n : s[i] \in Sightings
  BY LenProperties, ElementOfSeq
<1>2. b \in S
  OBVIOUS
<1>3. ASSUME NEW r \in S, NEW x \in Sightings
      PROVE  StageOne(r, x) \in S
  BY UpsertTyped
<1> HIDE DEF S, b
<1>4. G \in [S \X (1..n) -> S]
  BY <1>1, <1>3
<1>5. PICK it : IsFold(it, S, n, G, b)
  <2> HIDE DEF G, n
  <2> QED BY <1>1, <1>2, <1>4, FoldExists
<1>6. Is(it)
  <2>1. ASSUME NEW u \in (SUBSET (1..n)) \ {{}}
        PROVE  it[u] = StageOne(it[u \ {Max(u)}], s[Max(u)])
    <3>1. Max(u) \in 1..n
      BY <1>1, GreatestIndex
    <3>2. it[u \ {Max(u)}] \in S
      BY <1>5 DEF IsFold
    <3>3. it[u] = G[<<it[u \ {Max(u)}], Max(u)>>]
      BY <1>5 DEF IsFold
    <3> QED BY <3>1, <3>2, <3>3
  <2> HIDE DEF G, n
  <2> QED BY <1>5, <2>1 DEF IsFold
<1> DEFINE it2 == CHOOSE h : Is(h)
<1>7. Is(it2)
  <2> HIDE DEF Is
  <2> QED BY <1>6
<1>8. FoldLeft(StageOne, {}, s) = it2[1..n]
  BY <1>1 DEF FoldLeft, MapThenFoldSet, b
<1>9. it2[{}] = b /\ \A k \in 1..n : it2[1..k] = StageOne(it2[1..(k - 1)], s[k])
  <2>1. {} \in SUBSET (1..n)
    OBVIOUS
  <2>2. \A k \in 1..n : /\ 1..k \in SUBSET (1..n) /\ 1..k # {}
           /\ Max(1..k) = k /\ (1..k) \ {Max(1..k)} = 1..(k - 1)
    BY <1>1, FoldPasses
  <2> HIDE DEF it2
  <2> QED BY <1>7, <2>1, <2>2
<1> HIDE DEF it2
<1> DEFINE P == {k \in 0..n : Upserted(it2[1..k], s, k)}
<1>10. 0 \in P
  <2>1. 1..0 = {} /\ 0 \in 0..n
    BY <1>1
  <2>2. Upserted({}, s, 0)
    BY <2>1, FS_EmptySet DEF Upserted
  <2> HIDE DEF n
  <2> QED BY <1>9, <2>1, <2>2 DEF b
<1>11. \A k \in 1..n : k - 1 \in P => k \in P
  <2> SUFFICES ASSUME NEW k \in 1..n, k - 1 \in P PROVE k \in P
    OBVIOUS
  <2>1. Upserted(it2[1..(k - 1)], s, k - 1) /\ k \in 0..n
    BY <1>1
  <2>2. Upserted(StageOne(it2[1..(k - 1)], s[k]), s, k)
    BY <2>1, UpsertIs DEF StageOne
  <2> QED BY <1>9, <2>1, <2>2
<1>12. \A k \in 0..n : k \in P
  <2> HIDE DEF P, n
  <2> QED BY <1>1, <1>10, <1>11, UpToBound
<1>13. n \in 0..n
  BY <1>1
<1> QED BY <1>8, <1>12, <1>13
==============================================================================
