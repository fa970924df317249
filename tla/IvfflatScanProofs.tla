------------------------- MODULE IvfflatScanProofs -------------------------
(***************************************************************************)
(* Where the rows of an IVFFlat index are, and what a scan finds, for      *)
(* every number of backends, rows, lists and pages: a committed row is on  *)
(* one page of its list, VACUUM misses no page, GetScanLists finds the     *)
(* nearest lists, and a scan that is read to its end returns every row of  *)
(* those, once.  One lemma per group of actions for each part of the       *)
(* invariant.                                                              *)
(***************************************************************************)
EXTENDS IvfflatIndexProofs

-----------------------------------------------------------------------------
(* Which lists a scan probes.                                              *)

\* A list at the greatest distance
LEMMA FarthestIn ==
  ASSUME NEW d \in [Lists -> Nat], NEW S \in SUBSET Lists, S # {}
  PROVE  Farthest(d, S) \in S /\ \A k \in S : d[k] <= d[Farthest(d, S)]
<1>1. NLists \in Nat /\ \A l \in Lists : l \in 1..NLists BY Basics DEF Lists
<1> DEFINE T == {n \in 0..NLists : \E m \in Nat : \A l \in 1..n : d[l] <= m}
<1>2. 0 \in T
  <2>1. \A l \in 1..0 : FALSE OBVIOUS
  <2>2. \A l \in 1..0 : d[l] <= 0 BY <2>1
  <2> QED BY <1>1, <2>2
<1>3. ASSUME NEW n \in 0..(NLists - 1), n \in T PROVE n + 1 \in T
  <2>1. PICK m \in Nat : \A l \in 1..n : d[l] <= m BY <1>3
  <2>2. n + 1 \in Lists /\ n + 1 \in 0..NLists /\ \A l \in 1..(n + 1) : l = n + 1 \/ l \in 1..n
    BY <1>1 DEF Lists
  <2>3. d[n + 1] \in Nat /\ \A l \in 1..n : d[l] \in Nat BY <1>1, <2>2 DEF Lists
  <2>4. m + d[n + 1] \in Nat /\ \A l \in 1..(n + 1) : d[l] <= m + d[n + 1] BY <2>1, <2>2, <2>3
  <2> QED BY <2>2, <2>4
<1> HIDE DEF T
<1>4. NLists \in T
  <2>1. 0..NLists \subseteq T BY ONLY <1>1, <1>2, <1>3, UpTo
  <2> QED BY <1>1, <2>1
<1>5. PICK m \in Nat : \A l \in 1..NLists : d[l] <= m BY <1>4 DEF T
<1> DEFINE D == {d[l] : l \in S}
<1>6. D # {} /\ D \subseteq 0..m BY <1>1, <1>5
<1>7. PICK x \in D : \A y \in D : y <= x BY ONLY <1>6, m \in Nat, Greatest
<1>8. \E l \in S : \A k \in S : d[k] <= d[l] BY <1>7
<1> QED BY <1>8 DEF Farthest

\* What GetScanLists keeps after n lists
Kept(d, h, n) ==
  LET S == h.set \cup {n}
  IN CASE Cardinality(h.set) < MaxProbes -> [set |-> S, max |-> d[Farthest(d, S)]]
       [] Cardinality(h.set) = MaxProbes /\ d[n] < h.max -> Replace(d, h, n)
       [] OTHER -> h
Heaps == [set : SUBSET Lists, max : Nat]

Heap(d, n, h) ==
  /\ h \in Heaps /\ h.set \subseteq 1..n
  /\ Cardinality(h.set) = IF n < MaxProbes THEN n ELSE MaxProbes
  /\ n # 0 => h.max = d[Farthest(d, h.set)]
  /\ n <= MaxProbes => h.set = 1..n
  /\ \A k \in h.set, l \in 1..n : l \notin h.set => d[k] <= d[l]

\* ivfflat.probes and ivfflat.max_probes leave one list at least
LEMMA ProbesBounds == MaxProbes \in 1..NLists
BY ConstantsAssumption DEF MaxProbes, Capped

\* Sets of lists are finite
LEMMA ListsFinite ==
  ASSUME NEW S \in SUBSET Lists
  PROVE  IsFiniteSet(S) /\ Cardinality(S) \in Nat /\ (Cardinality(S) = 0 => S = {})
<1>1. IsFiniteSet(Lists) BY Basics, FS_Interval DEF Lists
<1>2. IsFiniteSet(S) BY <1>1, FS_Subset
<1> QED BY <1>2, FS_CardinalityType, FS_EmptySet

\* The heap holds the nearest of the lists seen so far
LEMMA KeptHeap ==
  ASSUME NEW d \in [Lists -> Nat], NEW n \in 1..NLists, NEW h, Heap(d, n - 1, h)
  PROVE  Heap(d, n, Kept(d, h, n))
<1> DEFINE m == n - 1
<1>1. /\ NLists \in Nat /\ n \in Lists /\ m \in Nat /\ MaxProbes \in Nat /\ MaxProbes # 0
      /\ n \in Nat /\ n # 0 /\ n \notin 1..m /\ 1..n = (1..m) \cup {n} /\ 1..n \subseteq Lists
  BY Basics, ProbesBounds DEF Lists
<1>2. /\ h \in Heaps /\ h.set \subseteq 1..m /\ h.set \in SUBSET Lists
      /\ Cardinality(h.set) = IF m < MaxProbes THEN m ELSE MaxProbes
      /\ m # 0 => h.max = d[Farthest(d, h.set)]
      /\ m <= MaxProbes => h.set = 1..m
      /\ \A k \in h.set, l \in 1..m : l \notin h.set => d[k] <= d[l]
  BY DEF Heap, Heaps
<1>3. IsFiniteSet(h.set) /\ n \notin h.set /\ (h.set = {} => Cardinality(h.set) = 0)
  BY <1>1, <1>2, ListsFinite, FS_EmptySet
<1> HIDE DEF m
<1>4. CASE Cardinality(h.set) < MaxProbes
  <2> DEFINE S == h.set \cup {n}
             r == [set |-> S, max |-> d[Farthest(d, S)]]
  <2>1. Kept(d, h, n) = r BY <1>1, <1>2, <1>4 DEF Kept
  <2>2. S \in SUBSET Lists /\ S # {} BY <1>1, <1>2
  <2>3. Farthest(d, S) \in S BY <2>2, FarthestIn
  <2>4. r \in Heaps BY <2>2, <2>3 DEF Heaps
  <2>5. m < MaxProbes /\ Cardinality(h.set) = m /\ h.set = 1..m BY <1>1, <1>2, <1>4
  <2>6. Cardinality(S) = n
    <3>1. Cardinality(S) = m + 1 BY <1>3, <2>5, FS_AddElement
    <3> QED BY <1>1, <3>1 DEF m
  <2>7. S = 1..n BY <1>1, <2>5
  <2>8. (n < MaxProbes \/ n = MaxProbes) BY <1>1, <2>5 DEF m
  <2> HIDE DEF S
  <2>9. /\ r.set \subseteq 1..n /\ r.max = d[Farthest(d, r.set)] /\ r.set = 1..n
        /\ Cardinality(r.set) = IF n < MaxProbes THEN n ELSE MaxProbes
    BY <2>6, <2>7, <2>8
  <2> QED BY <2>1, <2>4, <2>9 DEF Heap
<1>5. CASE ~(Cardinality(h.set) < MaxProbes)
  <2>1. Cardinality(h.set) = MaxProbes /\ ~(m < MaxProbes) /\ m # 0 /\ h.set # {}
    BY <1>1, <1>2, <1>3, <1>5
  <2>2. ~(n < MaxProbes) /\ ~(n <= MaxProbes) BY <1>1, <2>1 DEF m
  <2> DEFINE f == Farthest(d, h.set)
  <2>3. /\ f \in h.set /\ \A k \in h.set : d[k] <= d[f]
    BY <1>2, <2>1, FarthestIn
  <2>4. h.max = d[f] /\ f \in Lists BY <1>2, <2>1, <2>3
  <2>5. \A k \in Lists : d[k] \in Nat OBVIOUS
  <2> HIDE DEF f
  <2>6. CASE d[n] < h.max
    <3> DEFINE S == (h.set \ {f}) \cup {n}
               r == [set |-> S, max |-> d[Farthest(d, S)]]
    <3>1. Kept(d, h, n) = r BY <1>5, <2>1, <2>6 DEF Kept, Replace, f
    <3>2. S \in SUBSET Lists /\ S # {} BY <1>1, <1>2
    <3>3. Farthest(d, S) \in S BY <3>2, FarthestIn
    <3>4. r \in Heaps BY <3>2, <3>3 DEF Heaps
    <3>5. S \subseteq 1..n BY <1>1, <1>2
    <3>6. Cardinality(S) = MaxProbes
      <4>1. IsFiniteSet(h.set \ {f}) /\ Cardinality(h.set \ {f}) = MaxProbes - 1
        BY <1>3, <2>1, <2>3, FS_RemoveElement
      <4>2. Cardinality(S) = MaxProbes - 1 + 1
        BY <1>3, <4>1, FS_AddElement
      <4> QED BY <1>1, <4>2
    <3>7. ASSUME NEW k \in S, NEW l \in 1..n, l \notin S PROVE d[k] <= d[l]
      <4>1. d[k] <= d[f] BY <1>1, <1>2, <2>3, <2>4, <2>5, <2>6
      <4>2. l = f \/ (l \in 1..m /\ l \notin h.set) BY <1>1, <3>7
      <4>3. d[f] <= d[l] BY <1>2, <2>3, <2>4, <2>5, <4>2
      <4>4. k \in Lists /\ l \in Lists BY <1>1, <3>2
      <4> QED BY <2>4, <2>5, <4>1, <4>3, <4>4
    <3> HIDE DEF S
    <3>8. r.set = S /\ r.max = d[Farthest(d, r.set)] OBVIOUS
    <3> QED BY <2>2, <3>1, <3>4, <3>5, <3>6, <3>7, <3>8 DEF Heap
  <2>7. CASE ~(d[n] < h.max)
    <3>1. Kept(d, h, n) = h BY <1>5, <2>1, <2>7 DEF Kept
    <3>2. ASSUME NEW k \in h.set, NEW l \in 1..n, l \notin h.set PROVE d[k] <= d[l]
      <4>1. CASE l = n BY <1>1, <1>2, <2>3, <2>4, <2>5, <2>7, <4>1
      <4>2. CASE l # n BY <1>1, <1>2, <3>2, <4>2
      <4> QED BY <4>1, <4>2
    <3>3. h.set \subseteq 1..n BY <1>1, <1>2
    <3> QED BY <1>2, <2>1, <2>2, <3>1, <3>2, <3>3 DEF Heap
  <2> QED BY <2>6, <2>7
<1> QED BY <1>4, <1>5

\* GetScanLists keeps MaxProbes lists, and no other is nearer
LEMMA ScanListsKept ==
  ASSUME NEW d \in [Lists -> Nat]
  PROVE  /\ ScanListSet(d) \in SUBSET Lists /\ Cardinality(ScanListSet(d)) = MaxProbes
         /\ \A k \in ScanListSet(d), l \in Lists : l \notin ScanListSet(d) => d[k] <= d[l]
<1> DEFINE e == [set |-> {}, max |-> 0]
           G(H) == [n \in 0..NLists |-> IF n = 0 THEN e ELSE Kept(d, H[n - 1], n)]
<1>1. NLists \in Nat /\ MaxProbes \in 1..NLists BY Basics, ProbesBounds
<1>2. Heap(d, 0, e)
  <2>1. Cardinality({}) = 0 BY FS_EmptySet
  <2>2. e \in Heaps BY DEF Heaps
  <2>3. 0 < MaxProbes BY <1>1
  <2> QED BY <2>1, <2>2, <2>3 DEF Heap
<1> HIDE DEF e
<1>3. \E H : H = G(H)
  <2> DEFINE F == [i \in 1..NLists |-> [h \in Heaps |->
                     IF Heap(d, i - 1, h) THEN Kept(d, h, i) ELSE h]]
  <2>1. e \in Heaps BY <1>2 DEF Heap
  <2>2. ASSUME NEW i \in 1..NLists, NEW h \in Heaps PROVE F[i][h] \in Heaps
    BY KeptHeap DEF Heap
  <2>3. F \in Steps(NLists, Heaps) BY <2>2 DEF Steps
  <2> HIDE DEF F
  <2>4. PICK g : Iterates(g, NLists, Heaps, e, F) BY <1>1, <2>1, <2>3, Iteration
  <2>5. g \in [0..NLists -> Heaps] /\ g[0] = e /\ \A i \in 1..NLists : g[i] = F[i][g[i - 1]]
    BY <2>4 DEF Iterates
  <2> DEFINE U == {i \in 0..NLists : Heap(d, i, g[i])}
  <2>6. 0..NLists \subseteq U
    <3>1. 0 \in U BY <1>1, <1>2, <2>5
    <3>2. ASSUME NEW i \in 0..(NLists - 1), i \in U PROVE i + 1 \in U
      <4>1. i + 1 \in 1..NLists /\ i + 1 \in 0..NLists /\ (i + 1) - 1 = i /\ g[i] \in Heaps BY <1>1, <2>5
      <4>2. g[i + 1] = F[i + 1][g[i]] BY <2>5, <4>1
      <4>3. g[i + 1] = Kept(d, g[i], i + 1) BY <3>2, <4>1, <4>2 DEF F
      <4>4. Heap(d, i + 1, Kept(d, g[i], i + 1)) BY <3>2, <4>1, KeptHeap
      <4> QED BY <4>1, <4>3, <4>4
    <3> HIDE DEF U
    <3> QED BY ONLY <1>1, <3>1, <3>2, UpTo
  <2>7. ASSUME NEW i \in 1..NLists PROVE g[i] = Kept(d, g[i - 1], i)
    <3>1. i - 1 \in 0..NLists /\ g[i - 1] \in Heaps BY <1>1, <2>5
    <3>2. Heap(d, i - 1, g[i - 1]) BY <2>6, <3>1
    <3> QED BY <2>5, <3>1, <3>2 DEF F
  <2>8. \A i \in 0..NLists : i = 0 \/ i \in 1..NLists OBVIOUS
  <2>9. g = G(g) BY <2>5, <2>7, <2>8
  <2> QED BY <2>9
<1>4. PICK H : H = G(H) /\ ScanListSet(d) = H[NLists].set
  <2> HIDE <1>1, <1>2
  <2> QED BY <1>3, Zenon DEF ScanListSet, Kept, e
<1> DEFINE T == {n \in 0..NLists : Heap(d, n, H[n])}
<1>5. 0..NLists \subseteq T
  <2>1. 0 \in T BY <1>1, <1>2, <1>4
  <2>2. ASSUME NEW n \in 0..(NLists - 1), n \in T PROVE n + 1 \in T
    <3>1. n + 1 \in 1..NLists /\ n + 1 \in 0..NLists /\ n + 1 # 0 /\ (n + 1) - 1 = n BY <1>1
    <3>2. H[n + 1] = Kept(d, H[n], n + 1) BY <1>4, <3>1
    <3>3. Heap(d, n, H[n]) BY <2>2
    <3>4. Heap(d, n + 1, Kept(d, H[n], n + 1)) BY <3>1, <3>3, KeptHeap
    <3> QED BY <3>1, <3>2, <3>4
  <2> HIDE DEF T
  <2> QED BY ONLY <1>1, <2>1, <2>2, UpTo
<1>6. Heap(d, NLists, H[NLists]) BY <1>1, <1>5
<1>7. (IF NLists < MaxProbes THEN NLists ELSE MaxProbes) = MaxProbes BY <1>1
<1> QED BY <1>4, <1>6, <1>7 DEF Heap, Heaps, Lists

\* A set of lists can be taken from a heap farthest first
Ranked(d, f, n) == \A i, j \in 1..n : i < j => f[i] # f[j] /\ d[f[i]] <= d[f[j]]
LEMMA RankingExists ==
  ASSUME NEW d \in [Lists -> Nat], NEW S \in SUBSET Lists
  PROVE  \E f \in [1..Cardinality(S) -> S] : Ranked(d, f, Cardinality(S))
<1> DEFINE T == {n \in Nat : \A R \in SUBSET S : Cardinality(R) = n =>
                   \E f \in [1..n -> R] : Ranked(d, f, n)}
<1>1. 0 \in T
  <2> SUFFICES ASSUME NEW R \in SUBSET S PROVE \E f \in [1..0 -> R] : Ranked(d, f, 0)
    OBVIOUS
  <2> DEFINE f == [x \in 1..0 |-> 0]
  <2>1. \A x \in 1..0 : FALSE OBVIOUS
  <2>2. f \in [1..0 -> R] BY <2>1
  <2>3. Ranked(d, f, 0) BY <2>1 DEF Ranked
  <2> QED BY <2>2, <2>3
<1>2. ASSUME NEW n \in Nat, n \in T PROVE n + 1 \in T
  <2> SUFFICES ASSUME NEW R \in SUBSET S, Cardinality(R) = n + 1
               PROVE  \E f \in [1..(n + 1) -> R] : Ranked(d, f, n + 1)
    OBVIOUS
  <2> DEFINE x == Farthest(d, R)
             Q == R \ {x}
  <2>1. R \in SUBSET Lists /\ IsFiniteSet(R) BY ListsFinite
  <2>2. R # {} BY FS_EmptySet
  <2>3. x \in R /\ \A k \in R : d[k] <= d[x] BY <2>1, <2>2, FarthestIn
  <2> HIDE DEF x
  <2>4. Cardinality(Q) = n
    <3>1. Cardinality(Q) = Cardinality(R) - 1 BY <2>1, <2>3, FS_RemoveElement
    <3> QED BY <3>1
  <2>5. PICK f \in [1..n -> Q] : Ranked(d, f, n) BY <1>2, <2>4
  <2> DEFINE g == [i \in 1..(n + 1) |-> IF i = n + 1 THEN x ELSE f[i]]
  <2>6. \A i \in 1..(n + 1) : i = n + 1 \/ i \in 1..n OBVIOUS
  <2>7. g \in [1..(n + 1) -> R] BY <2>3, <2>6
  <2>8. ASSUME NEW i \in 1..(n + 1), NEW j \in 1..(n + 1), i < j
        PROVE  g[i] # g[j] /\ d[g[i]] <= d[g[j]]
    <3>1. i \in 1..n /\ i # n + 1 BY <2>8
    <3>2. g[i] = f[i] /\ f[i] \in Q BY <3>1
    <3>3. CASE j = n + 1
      <4>1. g[j] = x BY <3>3
      <4> QED BY <2>3, <3>2, <4>1
    <3>4. CASE j # n + 1
      <4>1. j \in 1..n BY <2>6, <3>4
      <4>2. g[j] = f[j] BY <3>4
      <4> QED BY <2>5, <2>8, <3>1, <3>2, <4>1, <4>2 DEF Ranked
    <3> QED BY <3>3, <3>4
  <2> HIDE DEF g
  <2>9. Ranked(d, g, n + 1) BY <2>8 DEF Ranked
  <2> QED BY <2>7, <2>9
<1> HIDE DEF T
<1>3. Cardinality(S) \in Nat BY ListsFinite
<1>4. 0..Cardinality(S) \subseteq T
  <2>1. \A i \in 0..(Cardinality(S) - 1) : i \in T => i + 1 \in T BY <1>2, <1>3
  <2> QED BY ONLY <1>1, <1>3, <2>1, UpTo
<1>5. Cardinality(S) \in T BY <1>3, <1>4
<1> QED BY <1>5 DEF T

\* GetScanLists returns MaxProbes lists, nearest first, and none of the others
\* is nearer
LEMMA NearestLists ==
  ASSUME NEW d \in [Lists -> Nat]
  PROVE  /\ GetScanLists(d) \in [1..MaxProbes -> Lists] /\ Ranked(d, GetScanLists(d), MaxProbes)
         /\ \A l \in Lists : (\A i \in 1..MaxProbes : GetScanLists(d)[i] # l) =>
              \A i \in 1..MaxProbes : d[GetScanLists(d)[i]] <= d[l]
<1> DEFINE S == ScanListSet(d)
           f == GetScanLists(d)
<1>1. /\ S \in SUBSET Lists /\ Cardinality(S) = MaxProbes
      /\ \A k \in S, l \in Lists : l \notin S => d[k] <= d[l]
  BY ScanListsKept
<1> HIDE DEF S
<1>2. \E g \in [1..MaxProbes -> S] : Ranked(d, g, MaxProbes) BY <1>1, RankingExists
<1>3. f \in [1..MaxProbes -> S] /\ Ranked(d, f, MaxProbes)
  BY <1>2 DEF GetScanLists, Ranked, S
<1> HIDE DEF f
<1>4. ASSUME NEW l \in Lists, \A i \in 1..MaxProbes : f[i] # l PROVE l \notin S
  <2> SUFFICES ASSUME l \in S PROVE FALSE OBVIOUS
  <2>1. f \in [1..MaxProbes -> S \ {l}] BY <1>3, <1>4
  <2>2. MaxProbes \in Nat BY ProbesBounds, Basics
  <2>3. IsFiniteSet(1..MaxProbes) /\ Cardinality(1..MaxProbes) = MaxProbes
    BY <2>2, ProbesBounds, FS_Interval
  <2>4. IsFiniteSet(S) BY <1>1, ListsFinite
  <2>5. IsFiniteSet(S \ {l}) /\ Cardinality(S \ {l}) = MaxProbes - 1
    BY <1>1, <2>4, FS_RemoveElement
  <2>6. Cardinality(S \ {l}) < Cardinality(1..MaxProbes) BY <2>2, <2>3, <2>5
  <2>7. PICK i, j \in 1..MaxProbes : i # j /\ f[i] = f[j]
    BY ONLY <2>1, <2>3, <2>5, <2>6, FS_PigeonHole
  <2>8. i < j \/ j < i BY <2>2, <2>7
  <2> QED BY <1>3, <2>7, <2>8 DEF Ranked
<1>5. \A i \in 1..MaxProbes : f[i] \in S BY <1>3
<1> QED BY <1>1, <1>3, <1>4, <1>5 DEF f

-----------------------------------------------------------------------------
(* The invariant.                                                          *)

\* A page links to the next one of its list: pages of a list are linked in
\* the order of their numbers, from the first one on
Ordered(o) ==
  /\ \A b \in Blocks : page[b].next # Nil => b < page[b].next
  /\ \A b, c \in Blocks : b < c /\ c <= nblocks /\ o[c] = o[b] =>
       page[b].next # Nil /\ page[b].next <= c
  /\ \A b \in Blocks : b <= nblocks => list[o[b]].start <= b

\* A tuple is on one page at most: committed rows have one, rows that the heap
\* does not know have none, and an insert has put its tuple or not
On(t, b) == t \in page[b].tids
Searching(p) == pc[p] \in {"walk", "fill"}
TupleOnce(t) ==
  /\ \A b, c \in Blocks : On(t, b) /\ On(t, c) => b = c
  /\ heap[t] = "live" => \E b \in Blocks : On(t, b)
  /\ heap[t] \in {"free", "gone"} => \A b \in Blocks : ~On(t, b)
TupleOf(p) ==
  pc[p] # "idle" =>
    /\ heap[ins[p].tid] = "inserting"
    /\ Searching(p) => \A b \in Blocks : ~On(ins[p].tid, b)
    /\ pc[p] = "setList" => \E b \in Blocks : On(ins[p].tid, b)
OwnTuples ==
  \A p, q \in Inserters : p # q /\ pc[p] # "idle" /\ pc[q] # "idle" => ins[p].tid # ins[q].tid
Placed ==
  /\ \A b \in Blocks : page[b].tids \subseteq Indexed
  /\ \A t \in Indexed : TupleOnce(t)
  /\ \A p \in Inserters : TupleOf(p)
  /\ OwnTuples

\* VACUUM has removed its dead rows from the pages behind it
Behind(o, b) ==
  \/ o[b] < vac.op.list
  \/ o[b] = vac.op.list /\ (vac.op.cur = Nil \/ b < vac.op.cur)
Swept(o) ==
  pc[Vacuum] = "page" =>
    /\ \A t \in vac.op.dead : heap[t] = "dead"
    /\ \A b \in Blocks : b <= nblocks /\ Behind(o, b) => \A t \in vac.op.dead : ~On(t, b)

\* A scan has read the pages of the lists it is through with, and those of the
\* present list before its page.  What it has got from them will not be put on
\* another page, and it has got every row that was there from the start.
Through(p, l) ==
  \E i \in 1..MaxProbes :
    scan[p].lists[i] = l /\ (i < scan[p].index \/ (i = scan[p].index /\ pc[p] # "page"))
Passed(o, p, b) ==
  \/ Through(p, o[b])
  \/ pc[p] = "page" /\ o[b] = scan[p].lists[scan[p].index] /\ b < scan[p].cur
ScanType == [dist : QueryDists, lists : [1..MaxProbes -> Lists], index : 0..MaxProbes, batch : Nat,
             cur : Blocks \cup {Nil}, buf : SUBSET Indexed, ret : SUBSET Indexed, live : SUBSET Indexed]
Got(p) == scan[p].buf \cup scan[p].ret
Out(t) == heap[t] \in {"live", "dead", "gone"}
Settled(t) == heap[t] # "free" /\ \A q \in Inserters : Searching(q) => ins[q].tid # t
ScanReady(o, p) ==
  /\ pc[p] \in {"idle", "list", "page", "emit", "end"}
  /\ pc[p] # "idle" =>
       /\ scan[p] \in ScanType /\ scan[p].lists = GetScanLists(scan[p].dist)
       /\ \A t \in scan[p].live : Out(t)
       /\ \A t \in Got(p) : Settled(t) /\ \A b \in Blocks : On(t, b) => Passed(o, p, b)
       /\ \A t \in scan[p].live, b \in Blocks :
            heap[t] = "live" /\ On(t, b) /\ Passed(o, p, b) => t \in Got(p)
  /\ pc[p] = "page" => /\ scan[p].index \in 1..MaxProbes /\ scan[p].cur \in 1..nblocks
                       /\ o[scan[p].cur] = scan[p].lists[scan[p].index]
  /\ pc[p] = "end" => scan[p].index = MaxProbes /\ scan[p].buf = {}

Located(o) == /\ Owned(o) /\ Ordered(o) /\ Swept(o)
              /\ scan = [p \in Scanners |-> scan[p]]
              /\ \A p \in Scanners : ScanReady(o, p)
Inv == Sound /\ Placed /\ \E o \in [Blocks -> Lists] : Located(o)

-----------------------------------------------------------------------------
(* Where the pages and the rows are.                                       *)

\* The pages of a list are the ones of its chain
LEMMA ChainWhole ==
  ASSUME Sound, NEW o \in [Blocks -> Lists], Owned(o), Ordered(o), NEW l \in Lists
  PROVE  /\ Chain(l) \in SUBSET Blocks
         /\ \A b \in Blocks : b <= nblocks /\ o[b] = l => b \in Chain(l)
<1>0. NBlocks \in Nat /\ Nil = 0 /\ \A b \in Blocks : b \in 0..NBlocks /\ b # 0
  BY Basics DEF Blocks, Nil
<1>1. /\ NBlocks \in Nat /\ Nil = 0 /\ nblocks \in Blocks
      /\ list[l].start \in Blocks /\ o[list[l].start] = l
      /\ \A b \in Blocks : page[b].next \in Blocks \cup {Nil} /\ b \in 0..NBlocks /\ b # 0
  BY <1>0 DEF Sound, TypeOK, PageType, Owned, Apart, Owns
<1> DEFINE More(C) == C \cup ({page[b].next : b \in C} \ {Nil})
           G(H) == [n \in 0..NBlocks |-> IF n = 0 THEN {list[l].start} ELSE More(H[n - 1])]
<1>2. \A C \in SUBSET Blocks : More(C) \in SUBSET Blocks BY <1>1
<1>3. \E H : H = G(H)
  <2> DEFINE F == [i \in 1..NBlocks |-> [C \in SUBSET Blocks |-> More(C)]]
             s == {list[l].start}
  <2>1. s \in SUBSET Blocks BY <1>1
  <2>2. F \in Steps(NBlocks, SUBSET Blocks) BY <1>2 DEF Steps
  <2> HIDE DEF F, s
  <2>3. PICK g : Iterates(g, NBlocks, SUBSET Blocks, s, F) BY <1>1, <2>1, <2>2, Iteration
  <2>4. g \in [0..NBlocks -> SUBSET Blocks] /\ g[0] = s /\ \A i \in 1..NBlocks : g[i] = F[i][g[i - 1]]
    BY <2>3 DEF Iterates
  <2>5. ASSUME NEW i \in 1..NBlocks PROVE g[i] = More(g[i - 1])
    <3>1. i - 1 \in 0..NBlocks /\ g[i - 1] \in SUBSET Blocks BY <1>1, <2>4
    <3> QED BY <2>4, <3>1 DEF F
  <2>6. \A i \in 0..NBlocks : i = 0 \/ i \in 1..NBlocks OBVIOUS
  <2>7. g = G(g) BY <2>4, <2>5, <2>6 DEF s
  <2> QED BY <2>7
<1>4. PICK H : H = G(H) /\ Chain(l) = H[NBlocks]
  <2> HIDE <1>1, <1>2
  <2> QED BY <1>3, Zenon DEF Chain
<1>5. /\ H[0] = {list[l].start}
      /\ \A i \in 0..(NBlocks - 1) : H[i + 1] = More(H[i])
  <2>1. 0 \in 0..NBlocks BY <1>1
  <2>2. \A i \in 0..(NBlocks - 1) : i + 1 \in 0..NBlocks /\ i + 1 # 0 /\ (i + 1) - 1 = i BY <1>1
  <2> QED BY <1>4, <2>1, <2>2
<1> HIDE DEF G
<1> DEFINE T == {k \in 0..NBlocks : H[k] \in SUBSET Blocks /\ \A i \in 0..k : H[i] \subseteq H[k]}
<1>6. 0..NBlocks \subseteq T
  <2>1. 0 \in T BY <1>1, <1>5
  <2>2. ASSUME NEW k \in 0..(NBlocks - 1), k \in T PROVE k + 1 \in T
    <3>1. k + 1 \in 0..NBlocks /\ \A i \in 0..(k + 1) : i = k + 1 \/ i \in 0..k BY <1>1
    <3>2. H[k + 1] \in SUBSET Blocks /\ H[k] \subseteq H[k + 1] BY <1>2, <1>5, <2>2
    <3> QED BY <2>2, <3>1, <3>2
  <2> HIDE DEF T
  <2> QED BY ONLY <1>0, <2>1, <2>2, UpTo
<1>7. Chain(l) \in SUBSET Blocks /\ \A i \in 0..NBlocks : H[i] \subseteq Chain(l)
  BY <1>1, <1>4, <1>6
<1> DEFINE R == {b \in 0..NBlocks : b \in Blocks /\ b <= nblocks /\ o[b] = l =>
                   \E i \in 0..(b - 1) : b \in H[i]}
<1>8. ASSUME NEW b \in 0..NBlocks, \A c \in 0..NBlocks : c < b => c \in R PROVE b \in R
  <2> SUFFICES ASSUME b \in Blocks, b <= nblocks, o[b] = l PROVE \E i \in 0..(b - 1) : b \in H[i]
    OBVIOUS
  <2>0. b \in Nat /\ 0 < b BY DEF Blocks
  <2>1. CASE b = list[l].start
    <3>1. 0 \in 0..(b - 1) BY <2>0
    <3> QED BY <1>5, <2>1, <3>1
  <2>2. CASE b # list[l].start
    <3> DEFINE P == {c \in Blocks : c < b /\ o[c] = l}
    <3>1. list[l].start \in P
      <4>1. list[l].start <= b BY DEF Ordered
      <4> QED BY <1>1, <2>0, <2>2, <4>1 DEF Blocks
    <3>2. P \subseteq 0..NBlocks /\ P # {} BY <1>1, <3>1
    <3>3. PICK c \in P : \A y \in P : y <= c BY ONLY <1>0, <3>2, Greatest
    <3>4. c \in Blocks /\ c < b /\ o[c] = o[b] BY <3>3
    <3>5. page[c].next # Nil /\ page[c].next <= b /\ c < page[c].next BY <3>4 DEF Ordered
    <3>6. page[c].next \in Blocks /\ o[page[c].next] = l
      BY <1>1, <3>3, <3>5 DEF Owned, Apart, Owns
    <3>7. page[c].next = b
      <4>1. ~(page[c].next < b) BY <3>3, <3>4, <3>5, <3>6 DEF Blocks
      <4> QED BY <2>0, <3>5, <3>6, <4>1 DEF Blocks
    <3>8. c \in R BY <1>1, <1>8, <3>4
    <3>9. c <= nblocks BY <1>1, <3>4, <2>0 DEF Blocks
    <3>10. PICK i \in 0..(c - 1) : c \in H[i] BY <3>3, <3>8, <3>9
    <3>11. i \in 0..(NBlocks - 1) /\ i + 1 \in 0..(b - 1) BY <1>1, <2>0, <3>4, <3>10 DEF Blocks
    <3>12. b \in H[i + 1] BY <1>5, <3>5, <3>7, <3>10, <3>11
    <3> QED BY <3>11, <3>12
  <2> QED BY <2>1, <2>2
<1>9. 0..NBlocks \subseteq R
  <2> HIDE DEF R
  <2> QED BY ONLY <1>0, <1>8, StrongUpTo
<1>10. ASSUME NEW b \in Blocks, b <= nblocks, o[b] = l PROVE b \in Chain(l)
  <2>1. PICK i \in 0..(b - 1) : b \in H[i] BY <1>1, <1>9, <1>10
  <2>2. i \in 0..NBlocks BY <1>1 DEF Blocks
  <2> QED BY <1>7, <2>1, <2>2
<1> QED BY <1>7, <1>10

\* The heap's rows are where TidPlaced says
LEMMA PlacedOnce ==
  ASSUME Sound, Placed, NEW o \in [Blocks -> Lists], Owned(o), Ordered(o) PROVE TidPlaced
<1> SUFFICES ASSUME NEW t \in Indexed, heap[t] = "live" PROVE Cardinality(Holders(t)) = 1
  BY DEF TidPlaced, Placed, TupleOnce, On
<1>1. PICK b \in Blocks : t \in page[b].tids BY DEF Placed, TupleOnce, On
<1>2. \A c \in Blocks : t \in page[c].tids => c = b BY <1>1 DEF Placed, TupleOnce, On
<1>3. ListOf(t) \in Lists /\ ListOf(t) = o[b] BY <1>1, Basics, ListOfType DEF Owned, Apart
<1>4. b <= nblocks
  <2>1. ~(b > nblocks) BY <1>1 DEF Sound, Bounded
  <2> QED BY <2>1 DEF Sound, TypeOK, Blocks
<1>5. b \in Chain(ListOf(t)) /\ Chain(ListOf(t)) \in SUBSET Blocks BY <1>3, <1>4, ChainWhole
<1>6. Holders(t) = {b} BY <1>1, <1>2, <1>5 DEF Holders
<1> QED BY <1>6, FS_Singleton

-----------------------------------------------------------------------------
(* What each step does to rows, pages and inserts.                         *)

USE DEF Goto

\* What an insert under way has at hand
LEMMA InsertAtHand ==
  ASSUME Sound, NEW p \in Inserters, pc[p] # "idle"
  PROVE  /\ p \in Procs /\ ins[p].tid \in Indexed /\ ins[p].tid \in Tids
         /\ ins[p].list \in Lists /\ ins[p].list = ListOf(ins[p].tid)
         /\ ins[p].cur \in Blocks /\ ins[p].cur <= nblocks
BY Basics, ListOfType DEF Sound, TypeOK, Bounded, Ready, InsertReady, InsType

\* An insert puts its tuple on its page
LEMMA E_Put ==
  ASSUME Sound, NEW p \in Inserters, PutTuple(p) \/ FillPage(p)
  PROVE  /\ Searching(p) /\ UNCHANGED <<nblocks, list, scan, vac>>
         /\ \A b \in Blocks : /\ page'[b].next = page[b].next
              /\ \A t : t \in page'[b].tids <=>
                   t \in page[b].tids \/ (b = ins[p].cur /\ t = ins[p].tid)
         /\ \A q \in Procs : q # p => pc'[q] = pc[q]
         /\ \A q \in Inserters : q # p => ins'[q] = ins[q]
         /\ \A t \in Tids : t # ins[p].tid => heap'[t] = heap[t]
         /\ \/ pc'[p] = "setList" /\ heap' = heap /\ ins' = ins
            \/ pc'[p] = "idle" /\ heap'[ins[p].tid] = "live"
<1> USE Basics
<1>1. Searching(p) /\ pc[p] # "idle" BY DEF PutTuple, FillPage, Searching
<1>2. p \in Procs /\ ins[p].tid \in Tids /\ ins[p].cur \in Blocks BY <1>1, InsertAtHand
<1>3. /\ page' = [page EXCEPT ![ins[p].cur].tids = @ \cup {ins[p].tid}]
      /\ UNCHANGED <<nblocks, list, scan, vac>>
      /\ \/ pc' = [pc EXCEPT ![p] = "setList"] /\ UNCHANGED <<heap, ins>>
         \/ /\ pc' = [pc EXCEPT ![p] = "idle"] /\ ins' = [ins EXCEPT ![p] = NoInsert]
            /\ heap' = [heap EXCEPT ![ins[p].tid] = "live"]
  BY DEF PutTuple, FillPage, EndInsert
<1>4. \A b \in Blocks : /\ page'[b].next = page[b].next
        /\ page'[b].tids = IF b = ins[p].cur THEN page[b].tids \cup {ins[p].tid} ELSE page[b].tids
  <2>1. page' = [page EXCEPT ![ins[p].cur].tids = @ \cup {ins[p].tid}] BY <1>3
  <2> QED BY <1>2, <2>1 DEF Sound, TypeOK, PageType
<1>5. /\ \A q \in Procs : q # p => pc'[q] = pc[q]
      /\ \A q \in Inserters : q # p => ins'[q] = ins[q]
      /\ \A t \in Tids : t # ins[p].tid => heap'[t] = heap[t]
      /\ \/ pc'[p] = "setList" /\ heap' = heap /\ ins' = ins
         \/ pc'[p] = "idle" /\ heap'[ins[p].tid] = "live"
  BY <1>2, <1>3 DEF Sound, TypeOK
<1> QED BY <1>1, <1>3, <1>4, <1>5

\* An insert appends a page to the one it is at
LEMMA E_AppendPage ==
  ASSUME Sound, NEW p \in Inserters, AppendPage(p)
  PROVE  /\ pc[p] = "walk" /\ pc'[p] = "fill" /\ UNCHANGED <<list, heap, scan, vac>>
         /\ nblocks' = nblocks + 1 /\ nblocks + 1 \in Blocks /\ page[ins[p].cur].next = Nil
         /\ \A b \in Blocks : /\ page'[b].next = IF b = ins[p].cur THEN nblocks + 1 ELSE page[b].next
                              /\ page'[b].tids = page[b].tids
         /\ \A q \in Procs : q # p => pc'[q] = pc[q]
         /\ \A q \in Inserters : ins'[q].tid = ins[q].tid
         /\ ins'[p].cur = nblocks + 1 /\ ins'[p].list = ins[p].list
<1> USE Basics
<1>1. pc[p] = "walk" /\ p \in Procs /\ ins[p].cur \in Blocks BY InsertAtHand DEF AppendPage
<1>2. nblocks' = nblocks + 1 /\ nblocks + 1 \in Blocks BY DEF AppendPage, Sound, TypeOK, Blocks
<1>3. \A b \in Blocks : /\ page'[b].next = IF b = ins[p].cur THEN nblocks + 1 ELSE page[b].next
                        /\ page'[b].tids = page[b].tids
  BY <1>1 DEF AppendPage, Sound, TypeOK, PageType
<1>4. \A q \in Inserters : ins'[q].tid = ins[q].tid BY DEF AppendPage, Sound, TypeOK, InsType
<1>5. ins'[p].cur = nblocks + 1 /\ ins'[p].list = ins[p].list
  BY DEF AppendPage, Sound, TypeOK, InsType
<1> QED BY <1>1, <1>2, <1>3, <1>4, <1>5 DEF AppendPage, AtEnd, Sound, TypeOK

\* An insert begins
LEMMA E_BeginInsert ==
  ASSUME Sound, NEW p \in Inserters, NEW t \in Tids, BeginInsert(p, t), t \in Indexed
  PROVE  /\ pc[p] = "idle" /\ pc'[p] = "walk" /\ heap[t] = "free" /\ heap'[t] = "inserting"
         /\ UNCHANGED <<page, nblocks, list, scan, vac>> /\ ins'[p].tid = t
         /\ \A q \in Procs : q # p => pc'[q] = pc[q]
         /\ \A q \in Inserters : q # p => ins'[q] = ins[q]
         /\ \A x \in Tids : x # t => heap'[x] = heap[x]
BY Basics DEF BeginInsert, Sound, TypeOK

\* An insert ends: it has updated its list, or it was cancelled
LEMMA E_Leave ==
  ASSUME Sound, NEW p \in Inserters, UpdateList(p) \/ Cancel(p)
  PROVE  /\ pc[p] # "idle" /\ pc'[p] = "idle" /\ UNCHANGED <<page, nblocks, scan, vac>>
         /\ \A q \in Procs : q # p => pc'[q] = pc[q]
         /\ \A q \in Inserters : q # p => ins'[q] = ins[q]
         /\ \A t \in Tids : t # ins[p].tid => heap'[t] = heap[t]
         /\ \/ pc[p] = "setList" /\ heap'[ins[p].tid] = "live"
            \/ heap'[ins[p].tid] = "dead"
<1> USE Basics
<1>1. pc[p] # "idle" /\ p # Vacuum BY DEF UpdateList, Cancel
<1>2. p \in Procs /\ ins[p].tid \in Tids BY <1>1, InsertAtHand
<1>3. /\ pc' = [pc EXCEPT ![p] = "idle"] /\ ins' = [ins EXCEPT ![p] = NoInsert]
      /\ UNCHANGED <<page, nblocks, scan, vac>>
      /\ \/ pc[p] = "setList" /\ heap' = [heap EXCEPT ![ins[p].tid] = "live"]
         \/ heap' = [heap EXCEPT ![ins[p].tid] = "dead"]
  BY <1>1 DEF UpdateList, EndInsert, Cancel
<1> QED BY <1>1, <1>2, <1>3 DEF Sound, TypeOK

\* VACUUM removes its dead rows from a page
LEMMA E_VacuumPage ==
  ASSUME Sound, VacuumPage
  PROVE  /\ pc[Vacuum] = "page" /\ vac.op.cur \in Blocks /\ vac.op.cur <= nblocks
         /\ UNCHANGED <<nblocks, list, heap, pc, ins, scan>>
         /\ vac'.op.cur = page[vac.op.cur].next /\ vac'.op.list = vac.op.list
         /\ vac'.op.dead = vac.op.dead
         /\ \A b \in Blocks : /\ page'[b].next = page[b].next
              /\ \A t : t \in page'[b].tids <=>
                   t \in page[b].tids /\ ~(b = vac.op.cur /\ t \in vac.op.dead)
<1>1. vac.op.cur \in Blocks /\ vac.op.cur <= nblocks /\ pc[Vacuum] = "page"
  BY DEF VacuumPage, Sound, TypeOK, VacType, Bounded
<1> DEFINE b == vac.op.cur
           gone == page[b].tids \cap vac.op.dead
<1>2. page' = [page EXCEPT ![b].tids = @ \ gone] BY DEF VacuumPage
<1>3. /\ vac'.op.cur = page[vac.op.cur].next /\ vac'.op.list = vac.op.list
      /\ vac'.op.dead = vac.op.dead
  BY DEF VacuumPage, Sound, TypeOK, VacType
<1>4. \A c \in Blocks : /\ page'[c].next = page[c].next
        /\ page'[c].tids = IF c = b THEN page[c].tids \ gone ELSE page[c].tids
  BY <1>1, <1>2 DEF Sound, TypeOK, PageType
<1>5. UNCHANGED <<nblocks, list, heap, pc, ins, scan>> BY DEF VacuumPage
<1> QED BY <1>1, <1>3, <1>4, <1>5

\* VACUUM goes to the next list, or ends and lets the heap have the dead rows
LEMMA E_VacuumList ==
  ASSUME Sound, VacuumList
  PROVE  /\ pc[Vacuum] = "page" /\ vac.op.cur = Nil /\ vac.op.list \in Lists
         /\ UNCHANGED <<page, nblocks, ins, scan>>
         /\ \A l \in Lists : list'[l].start = list[l].start
         /\ \/ /\ vac.op.list < NLists /\ vac'.op.list = vac.op.list + 1 /\ vac.op.list + 1 \in Lists
               /\ vac'.op.cur = list[vac.op.list + 1].start /\ vac'.op.dead = vac.op.dead
               /\ UNCHANGED <<heap, pc>>
            \/ /\ vac.op.list = NLists /\ pc'[Vacuum] = "idle" 
               /\ \A q \in Inserters \cup Scanners : pc'[q] = pc[q]
               /\ \A t \in Tids : heap'[t] = IF t \in vac.op.dead THEN "gone" ELSE heap[t]
<1> USE Basics
<1>1. /\ vac.op.list \in Lists /\ vac.op.insert \in Blocks \cup {Nil}
      /\ vac.op.insert <= nblocks /\ pc[Vacuum] = "page" /\ vac.op.cur = Nil
      /\ UNCHANGED <<page, nblocks, ins, scan>>
  BY DEF VacuumList, Sound, TypeOK, VacType, Bounded, Ready
<1>2. \A l \in Lists : list'[l].start = list[l].start
  BY <1>1, UpdatedListType DEF VacuumList
<1>3. CASE vac.op.list < NLists
  <2>1. vac'.op = VacuumOf(vac.op.list + 1, vac.op.dead) /\ UNCHANGED <<heap, pc>>
    BY <1>3 DEF VacuumList, Sound, TypeOK
  <2>2. vac.op.list + 1 \in Lists BY <1>1, <1>3 DEF Lists
  <2> QED BY <1>1, <1>2, <1>3, <2>1, <2>2 DEF VacuumOf
<1>4. CASE ~(vac.op.list < NLists)
  <2>1. vac.op.list = NLists BY <1>1, <1>4 DEF Lists
  <2>2. /\ pc' = [pc EXCEPT ![Vacuum] = "idle"]
        /\ heap' = [t \in Tids |-> IF t \in vac.op.dead THEN "gone" ELSE heap[t]]
    BY <1>4 DEF VacuumList
  <2> QED BY <1>1, <1>2, <2>1, <2>2 DEF Sound, TypeOK
<1> QED BY <1>3, <1>4

\* A scan writes nothing that others read
LEMMA E_Scan ==
  ASSUME Sound, NEW p \in Scanners, ScanStep(p) \/ BeginScan(p)
  PROVE  /\ UNCHANGED <<page, nblocks, list, heap, ins, vac>>
         /\ \A q \in Procs : q # p => pc'[q] = pc[q]
         /\ \A q \in Inserters \cup {Vacuum} : pc'[q] = pc[q]
<1>1. /\ UNCHANGED <<page, nblocks, list, heap, ins, vac>>
      /\ UNCHANGED pc \/ \E x : pc' = [pc EXCEPT ![p] = x]
  BY DEF ScanStep, BeginScan, ScanList, ScanPage, ReturnTuple, NextBatch, EndScan
<1>2. \A q \in Procs : q # p => pc'[q] = pc[q] BY <1>1 DEF Sound, TypeOK
<1> QED BY <1>1, <1>2, Basics

\* Steps that leave pages, inserts and the rows that matter to them as they are
LEMMA E_Aside ==
  ASSUME Sound,
         \/ UNCHANGED vars
         \/ \E p \in Inserters : NextPage(p)
         \/ \E p \in Inserters, t \in Tids : BeginInsert(p, t) /\ t \notin Indexed
         \/ BeginVacuum \/ Cancel(Vacuum)
         \/ \E t \in Tids : RowDies(t)
  PROVE  /\ UNCHANGED <<page, nblocks, list, scan>>
         /\ \A q \in Inserters \cup Scanners : pc'[q] = pc[q]
         /\ \A q \in Inserters : ins'[q].tid = ins[q].tid
         /\ \A t \in Tids : \/ heap'[t] = heap[t]
                            \/ heap[t] = "live" /\ heap'[t] = "dead"
                            \/ heap[t] = "free" /\ heap'[t] = "live" /\ t \notin Indexed
<1> USE Basics
<1>1. CASE UNCHANGED vars BY <1>1 DEF vars
<1>2. ASSUME NEW p \in Inserters, NextPage(p)
      PROVE  /\ UNCHANGED <<page, nblocks, list, scan, heap, pc>>
             /\ \A q \in Inserters : ins'[q].tid = ins[q].tid
  BY <1>2 DEF NextPage, Sound, TypeOK, InsType
<1>3. ASSUME NEW p \in Inserters, NEW t \in Tids, BeginInsert(p, t), t \notin Indexed
      PROVE  /\ UNCHANGED <<page, nblocks, list, scan, pc, ins>> /\ heap[t] = "free"
             /\ heap' = [heap EXCEPT ![t] = "live"]
  BY <1>3 DEF BeginInsert
<1>4. CASE BeginVacuum \/ Cancel(Vacuum)
  <2>1. /\ UNCHANGED <<page, nblocks, list, scan, heap, ins>>
        /\ \E x : pc' = [pc EXCEPT ![Vacuum] = x]
    BY <1>4 DEF BeginVacuum, Cancel
  <2>2. \A q \in Inserters \cup Scanners : pc'[q] = pc[q] BY <2>1 DEF Sound, TypeOK
  <2> QED BY <2>1, <2>2
<1>5. ASSUME NEW t \in Tids, RowDies(t)
      PROVE  /\ UNCHANGED <<page, nblocks, list, scan, pc, ins>> /\ heap[t] = "live"
             /\ heap' = [heap EXCEPT ![t] = "dead"]
  BY <1>5 DEF RowDies
<1>6. ASSUME NEW p \in Inserters, NEW t \in Tids, BeginInsert(p, t), t \notin Indexed
      PROVE  \A x \in Tids : heap'[x] = heap[x] \/ (x = t /\ heap'[x] = "live")
  BY <1>3, <1>6 DEF Sound, TypeOK
<1>7. ASSUME NEW t \in Tids, RowDies(t)
      PROVE  \A x \in Tids : heap'[x] = heap[x] \/ (x = t /\ heap'[x] = "dead")
  BY <1>5, <1>7 DEF Sound, TypeOK
<1> QED BY <1>1, <1>2, <1>3, <1>4, <1>5, <1>6, <1>7

\* Every step is one of these
LEMMA StepKinds ==
  ASSUME [Next]_vars
  PROVE  \/ \E p \in Inserters : PutTuple(p) \/ FillPage(p)
         \/ \E p \in Inserters : AppendPage(p)
         \/ \E p \in Inserters : UpdateList(p) \/ Cancel(p)
         \/ \E p \in Inserters, t \in Tids : BeginInsert(p, t) /\ t \in Indexed
         \/ VacuumPage
         \/ VacuumList
         \/ \E p \in Scanners : ScanStep(p) \/ BeginScan(p)
         \/ \/ UNCHANGED vars
            \/ \E p \in Inserters : NextPage(p)
            \/ \E p \in Inserters, t \in Tids : BeginInsert(p, t) /\ t \notin Indexed
            \/ BeginVacuum \/ Cancel(Vacuum)
            \/ \E t \in Tids : RowDies(t)
<1>1. ASSUME NEW p \in Procs, Cancel(p) PROVE p \in Inserters \/ p = Vacuum
  BY <1>1 DEF Cancel, Procs
<1> QED BY <1>1, Zenon DEF Next, InsertStep

-----------------------------------------------------------------------------
(* Rows.                                                                   *)

\* What a step does not do to a row: one the heap knows is not inserted
\* again, and no tuple is put anywhere but by the insert that looks for room
Settles(t) ==
  /\ Out(t) => Out(t)' /\ (heap'[t] = "live" => heap[t] = "live")
  /\ heap[t] = "dead" => heap'[t] = "dead" \/ VacuumList
  /\ Settled(t) => /\ Settled(t)'
                   /\ \A b \in Blocks : t \in page'[b].tids => t \in page[b].tids
LEMMA RowsSettle ==
  ASSUME Sound, Placed, [Next]_vars, NEW t \in Tids PROVE Settles(t)
<1> USE Basics
<1>0. \A q \in Inserters : Searching(q) => pc[q] # "idle" BY DEF Searching
<1>1. ASSUME NEW p \in Inserters, PutTuple(p) \/ FillPage(p) PROVE Settles(t)
  <2>1. heap[ins[p].tid] = "inserting" /\ Searching(p) BY <1>0, <1>1, E_Put DEF Placed, TupleOf
  <2>2. \A q \in Inserters : Searching(q)' => Searching(q) /\ ins'[q].tid = ins[q].tid
    BY <1>1, E_Put DEF Searching
  <2>3. ins[p].tid \in Tids BY <1>0, <2>1, InsertAtHand
  <2>4. /\ \A x \in Tids : x # ins[p].tid => heap'[x] = heap[x]
        /\ heap'[ins[p].tid] \in {"live", "inserting"}
    BY <1>1, <2>1, <2>3, E_Put
  <2>5. Out(t) => t # ins[p].tid BY <2>1 DEF Out
  <2>6. Settled(t) => t # ins[p].tid BY <2>1 DEF Settled
  <2>7. \A b \in Blocks : t \in page'[b].tids => t \in page[b].tids \/ t = ins[p].tid
    BY <1>1, E_Put
  <2> QED BY <2>2, <2>4, <2>5, <2>6, <2>7 DEF Settles, Out, Settled
<1>2. ASSUME NEW p \in Inserters, AppendPage(p) PROVE Settles(t)
  <2>1. \A q \in Inserters : Searching(q)' => Searching(q) /\ ins'[q].tid = ins[q].tid
    BY <1>2, E_AppendPage DEF Searching
  <2>2. heap' = heap /\ \A b \in Blocks : page'[b].tids = page[b].tids BY <1>2, E_AppendPage
  <2> QED BY <2>1, <2>2 DEF Settles, Out, Settled
<1>3. ASSUME NEW p \in Inserters, UpdateList(p) \/ Cancel(p) PROVE Settles(t)
  <2>1. \A q \in Inserters : Searching(q)' => Searching(q) /\ ins'[q].tid = ins[q].tid
    BY <1>3, E_Leave DEF Searching
  <2>2. heap[ins[p].tid] = "inserting" BY <1>3, E_Leave DEF Placed, TupleOf
  <2>3. /\ page' = page /\ \A x \in Tids : x # ins[p].tid => heap'[x] = heap[x]
        /\ heap'[ins[p].tid] \in {"live", "dead"}
    BY <1>3, E_Leave
  <2> QED BY <2>1, <2>2, <2>3 DEF Settles, Out, Settled
<1>4. ASSUME NEW p \in Inserters, NEW x \in Tids, BeginInsert(p, x), x \in Indexed PROVE Settles(t)
  <2>1. \A q \in Inserters : Searching(q)' => (Searching(q) /\ ins'[q].tid = ins[q].tid) \/ ins'[q].tid = x
    BY <1>4, E_BeginInsert DEF Searching
  <2>2. /\ page' = page /\ heap[x] = "free" /\ heap'[x] = "inserting"
        /\ \A y \in Tids : y # x => heap'[y] = heap[y]
    BY <1>4, E_BeginInsert
  <2> QED BY <2>1, <2>2 DEF Settles, Out, Settled
<1>5. CASE VacuumPage
  <2>1. UNCHANGED <<heap, pc, ins>> /\ \A b \in Blocks : t \in page'[b].tids => t \in page[b].tids
    BY <1>5, E_VacuumPage
  <2> QED BY <2>1 DEF Settles, Out, Settled, Searching
<1>6. CASE VacuumList
  <2>1. /\ UNCHANGED <<page, ins>> /\ \A q \in Inserters : pc'[q] = pc[q]
        /\ heap'[t] \in {heap[t], "gone"}
    BY <1>6, E_VacuumList
  <2> QED BY <1>6, <2>1 DEF Settles, Out, Settled, Searching
<1>7. ASSUME NEW p \in Scanners, ScanStep(p) \/ BeginScan(p) PROVE Settles(t)
  <2>1. UNCHANGED <<page, heap, ins>> /\ \A q \in Inserters : pc'[q] = pc[q] BY <1>7, E_Scan
  <2> QED BY <2>1 DEF Settles, Out, Settled, Searching
<1>8. CASE \/ UNCHANGED vars
           \/ \E p \in Inserters : NextPage(p)
           \/ \E p \in Inserters, x \in Tids : BeginInsert(p, x) /\ x \notin Indexed
           \/ BeginVacuum \/ Cancel(Vacuum)
           \/ \E x \in Tids : RowDies(x)
  <2>1. /\ page' = page /\ \A q \in Inserters : pc'[q] = pc[q] /\ ins'[q].tid = ins[q].tid
        /\ \/ heap'[t] = heap[t]
           \/ heap[t] = "live" /\ heap'[t] = "dead"
           \/ heap[t] = "free" /\ heap'[t] = "live"
    BY <1>8, E_Aside
  <2> QED BY <2>1 DEF Settles, Out, Settled, Searching
<1> QED BY <1>1, <1>2, <1>3, <1>4, <1>5, <1>6, <1>7, <1>8, StepKinds

\* The tuple of an insert goes to one page
LEMMA P_Put ==
  ASSUME Sound, Placed, NEW p \in Inserters, PutTuple(p) \/ FillPage(p) PROVE Placed'
<1> USE Basics
<1> DEFINE x == ins[p].tid
           c == ins[p].cur
<1>1. pc[p] # "idle" /\ Searching(p) BY E_Put DEF Searching
<1>2. heap[x] = "inserting" /\ \A b \in Blocks : x \notin page[b].tids
  BY <1>1 DEF TupleOf, On, Placed
<1>3. x \in Indexed /\ x \in Tids /\ c \in Blocks BY <1>1, InsertAtHand
<1>4. /\ \A b \in Blocks : \A t : t \in page'[b].tids <=> t \in page[b].tids \/ (b = c /\ t = x)
      /\ \A q \in Procs : q # p => pc'[q] = pc[q]
      /\ \A q \in Inserters : q # p => ins'[q] = ins[q]
      /\ \A t \in Tids : t # x => heap'[t] = heap[t]
      /\ \/ pc'[p] = "setList" /\ heap' = heap /\ ins' = ins
         \/ pc'[p] = "idle" /\ heap'[x] = "live"
  BY E_Put
<1> HIDE DEF x, c
<1>5. ASSUME NEW t \in Indexed PROVE TupleOnce(t)'
  <2>1. TupleOnce(t) BY DEF Placed
  <2>2. CASE t = x
    <3>1. heap'[t] \in {"live", "inserting"} BY <1>2, <1>4, <2>2
    <3>2. \A b \in Blocks : t \in page'[b].tids <=> b = c BY <1>2, <1>4, <2>2
    <3> QED BY <1>3, <3>1, <3>2 DEF TupleOnce, On
  <2>3. CASE t # x
    <3>1. heap'[t] = heap[t] /\ \A b \in Blocks : t \in page'[b].tids <=> t \in page[b].tids
      BY <1>4, <2>3
    <3> QED BY <2>1, <3>1 DEF TupleOnce, On
  <2> QED BY <2>2, <2>3
<1>6. ASSUME NEW q \in Inserters PROVE TupleOf(q)'
  <2>1. TupleOf(q) BY DEF Placed
  <2>2. CASE q = p
    <3>1. CASE pc'[p] = "setList" /\ heap' = heap /\ ins' = ins
      <4>1. x \in page'[c].tids BY <1>3, <1>4
      <4> QED BY <1>2, <1>3, <2>2, <3>1, <4>1 DEF TupleOf, On, Searching, x
    <3> QED BY <1>4, <2>2, <3>1 DEF TupleOf
  <2>3. CASE q # p
    <3>1. pc'[q] = pc[q] /\ ins'[q] = ins[q] BY <1>4, <2>3
    <3> SUFFICES ASSUME pc[q] # "idle" PROVE TupleOf(q)' BY <3>1 DEF TupleOf
    <3>2. ins[q].tid # x /\ ins[q].tid \in Tids
      BY <1>1, <2>3, InsertAtHand DEF OwnTuples, x, Placed
    <3>3. heap'[ins[q].tid] = heap[ins[q].tid] BY <1>4, <3>2
    <3>4. \A b \in Blocks : ins[q].tid \in page'[b].tids <=> ins[q].tid \in page[b].tids
      BY <1>4, <3>2
    <3> QED BY <2>1, <3>1, <3>3, <3>4 DEF TupleOf, On, Searching
  <2> QED BY <2>2, <2>3
<1>7. OwnTuples'
  <2>1. \A q \in Inserters : pc'[q] # "idle" => pc[q] # "idle" /\ ins'[q].tid = ins[q].tid
    BY <1>1, <1>4
  <2> QED BY <2>1 DEF OwnTuples, Placed
<1>8. \A b \in Blocks : page'[b].tids \subseteq Indexed BY <1>3, <1>4 DEF Placed
<1> QED BY <1>5, <1>6, <1>7, <1>8 DEF Placed

\* Steps that put no tuple and that hand no row to an insert
LEMMA P_Aside ==
  ASSUME Sound, Placed,
         \A b \in Blocks : \A t : t \in page'[b].tids => t \in page[b].tids,
         \A t \in Tids : heap'[t] = "live" /\ t \in Indexed =>
            /\ heap[t] = "live"
            /\ \A b \in Blocks : t \in page[b].tids => t \in page'[b].tids,
         \A t \in Tids : heap'[t] \in {"free", "gone"} =>
            heap[t] \in {"free", "gone"} \/ \A b \in Blocks : t \notin page'[b].tids,
         \A t \in Tids : heap[t] = "inserting" =>
            /\ heap'[t] = "inserting" 
            /\ \A b \in Blocks : t \in page[b].tids => t \in page'[b].tids,
         \A q \in Inserters : pc'[q] = pc[q] /\ ins'[q].tid = ins[q].tid
  PROVE  Placed'
<1> USE Basics
<1>1. ASSUME NEW t \in Indexed PROVE TupleOnce(t)'
  <2>1. TupleOnce(t) BY DEF Placed
  <2> QED BY <2>1 DEF TupleOnce, On
<1>2. ASSUME NEW q \in Inserters PROVE TupleOf(q)'
  <2> SUFFICES ASSUME pc[q] # "idle" PROVE TupleOf(q)' BY DEF TupleOf
  <2>1. TupleOf(q) /\ ins[q].tid \in Tids BY InsertAtHand DEF Placed
  <2>2. heap'[ins'[q].tid] = "inserting" BY <2>1 DEF TupleOf
  <2> QED BY <2>1, <2>2 DEF TupleOf, On, Searching
<1>3. OwnTuples' BY DEF Placed, OwnTuples
<1>4. \A b \in Blocks : page'[b].tids \subseteq Indexed BY DEF Placed
<1> QED BY <1>1, <1>2, <1>3, <1>4 DEF Placed

\* A row that an insert begins with is on no page, and no other insert has it
LEMMA P_BeginInsert ==
  ASSUME Sound, Placed, NEW p \in Inserters, NEW x \in Tids, BeginInsert(p, x), x \in Indexed
  PROVE  Placed'
<1> USE Basics
<1>1. /\ pc[p] = "idle" /\ pc'[p] = "walk" /\ heap[x] = "free" /\ heap'[x] = "inserting"
      /\ page' = page /\ ins'[p].tid = x
      /\ \A q \in Inserters : q # p => pc'[q] = pc[q] /\ ins'[q] = ins[q]
      /\ \A t \in Tids : t # x => heap'[t] = heap[t]
  BY E_BeginInsert
<1>2. \A b \in Blocks : x \notin page[b].tids BY <1>1 DEF Placed, TupleOnce, On
<1>3. ASSUME NEW t \in Indexed PROVE TupleOnce(t)'
  <2>1. TupleOnce(t) BY DEF Placed
  <2>2. t # x => heap'[t] = heap[t] BY <1>1
  <2> QED BY <1>1, <1>2, <2>1, <2>2 DEF TupleOnce, On
<1>4. ASSUME NEW q \in Inserters, q # p, pc[q] # "idle" PROVE ins[q].tid # x /\ ins[q].tid \in Tids
  BY <1>1, <1>4, InsertAtHand DEF Placed, TupleOf
<1>5. ASSUME NEW q \in Inserters PROVE TupleOf(q)'
  <2>1. CASE q = p BY <1>1, <1>2, <2>1 DEF TupleOf, On
  <2>2. CASE q # p
    <3> SUFFICES ASSUME pc[q] # "idle" PROVE TupleOf(q)' BY <1>1, <2>2 DEF TupleOf
    <3>1. TupleOf(q) /\ pc'[q] = pc[q] /\ ins'[q] = ins[q] /\ heap'[ins[q].tid] = heap[ins[q].tid]
      BY <1>1, <1>4, <2>2 DEF Placed
    <3> QED BY <1>1, <3>1 DEF TupleOf, On, Searching
  <2> QED BY <2>1, <2>2
<1>6. OwnTuples'
  <2>1. ASSUME NEW q \in Inserters, NEW r \in Inserters, q # r, pc'[q] # "idle", pc'[r] # "idle"
        PROVE  ins'[q].tid # ins'[r].tid
    BY <1>1, <1>4, <2>1 DEF Placed, OwnTuples
  <2> QED BY <2>1 DEF OwnTuples
<1> QED BY <1>1, <1>3, <1>5, <1>6 DEF Placed

\* An insert ends with its tuple on a page, or its row is dead
LEMMA P_Leave ==
  ASSUME Sound, Placed, NEW p \in Inserters, UpdateList(p) \/ Cancel(p) PROVE Placed'
<1> USE Basics
<1> DEFINE x == ins[p].tid
<1>1. /\ pc[p] # "idle" /\ pc'[p] = "idle" /\ page' = page
      /\ \A q \in Inserters : q # p => pc'[q] = pc[q] /\ ins'[q] = ins[q]
      /\ \A t \in Tids : t # x => heap'[t] = heap[t]
      /\ (pc[p] = "setList" /\ heap'[x] = "live") \/ heap'[x] = "dead"
  BY E_Leave
<1>2. heap'[x] = "live" => \E b \in Blocks : x \in page[b].tids BY <1>1 DEF Placed, TupleOf, On
<1>3. ASSUME NEW q \in Inserters, q # p, pc[q] # "idle" PROVE ins[q].tid # x /\ ins[q].tid \in Tids
  BY <1>1, <1>3, InsertAtHand DEF Placed, OwnTuples
<1> HIDE DEF x
<1>4. ASSUME NEW t \in Indexed PROVE TupleOnce(t)'
  <2>1. TupleOnce(t) BY DEF Placed
  <2>2. t # x => heap'[t] = heap[t] BY <1>1
  <2> QED BY <1>1, <1>2, <2>1, <2>2 DEF TupleOnce, On
<1>5. ASSUME NEW q \in Inserters PROVE TupleOf(q)'
  <2>1. CASE q = p BY <1>1, <2>1 DEF TupleOf
  <2>2. CASE q # p
    <3> SUFFICES ASSUME pc[q] # "idle" PROVE TupleOf(q)' BY <1>1, <2>2 DEF TupleOf
    <3>1. TupleOf(q) /\ pc'[q] = pc[q] /\ ins'[q] = ins[q] /\ heap'[ins[q].tid] = heap[ins[q].tid]
      BY <1>1, <1>3, <2>2 DEF Placed
    <3> QED BY <1>1, <3>1 DEF TupleOf, On, Searching
  <2> QED BY <2>1, <2>2
<1>6. OwnTuples'
  <2>1. ASSUME NEW q \in Inserters, NEW r \in Inserters, q # r, pc'[q] # "idle", pc'[r] # "idle"
        PROVE  ins'[q].tid # ins'[r].tid
    BY <1>1, <2>1 DEF Placed, OwnTuples
  <2> QED BY <2>1 DEF OwnTuples
<1> QED BY <1>1, <1>4, <1>5, <1>6 DEF Placed

\* VACUUM has been to every page when it lets the heap have the dead rows
LEMMA SweptAll ==
  ASSUME Sound, NEW o \in [Blocks -> Lists], Swept(o), VacuumList, vac.op.list = NLists,
         NEW t \in vac.op.dead
  PROVE  heap[t] = "dead" /\ \A b \in Blocks : t \notin page[b].tids
<1>1. pc[Vacuum] = "page" /\ vac.op.cur = Nil BY E_VacuumList
<1>2. heap[t] = "dead" BY <1>1 DEF Swept
<1> SUFFICES ASSUME NEW b \in Blocks PROVE t \notin page[b].tids BY <1>2
<1>3. CASE b <= nblocks
  <2>1. o[b] < vac.op.list \/ o[b] = vac.op.list BY Basics DEF Lists
  <2> QED BY <1>1, <1>2, <1>3, <2>1 DEF Swept, Behind, On
<1>4. CASE ~(b <= nblocks)
  <2>1. b > nblocks BY <1>4 DEF Sound, TypeOK, Blocks
  <2> QED BY <1>2, <2>1 DEF Sound, Bounded
<1> QED BY <1>3, <1>4

\* Every step keeps the rows in place
LEMMA P_Next ==
  ASSUME Sound, Placed, NEW o \in [Blocks -> Lists], Swept(o), [Next]_vars PROVE Placed'
<1> USE Basics
<1>1. ASSUME NEW p \in Inserters, AppendPage(p) PROVE Placed'
  <2>1. /\ heap' = heap /\ \A b \in Blocks : page'[b].tids = page[b].tids
        /\ pc[p] = "walk" /\ pc'[p] = "fill"
        /\ \A q \in Inserters : q # p => pc'[q] = pc[q]
        /\ \A q \in Inserters : ins'[q].tid = ins[q].tid
    BY <1>1, E_AppendPage
  <2>2. \A t \in Indexed : TupleOnce(t)' BY <2>1 DEF Placed, TupleOnce, On
  <2>3. ASSUME NEW q \in Inserters PROVE TupleOf(q)'
    <3>1. TupleOf(q) /\ (Searching(q)' <=> Searching(q)) BY <2>1 DEF Placed, Searching
    <3>2. pc'[q] = "setList" <=> pc[q] = "setList" BY <2>1
    <3>3. pc'[q] = "idle" <=> pc[q] = "idle" BY <2>1
    <3> QED BY <2>1, <3>1, <3>2, <3>3 DEF TupleOf, On
  <2>4. OwnTuples'
    <3>1. \A q \in Inserters : pc'[q] = "idle" <=> pc[q] = "idle" BY <2>1
    <3> QED BY <2>1, <3>1 DEF Placed, OwnTuples
  <2> QED BY <2>1, <2>2, <2>3, <2>4 DEF Placed
<1>2. CASE VacuumPage
  <2>1. /\ UNCHANGED <<heap, pc, ins>> /\ pc[Vacuum] = "page"
        /\ \A b \in Blocks : \A t : t \in page'[b].tids <=>
             t \in page[b].tids /\ ~(b = vac.op.cur /\ t \in vac.op.dead)
    BY <1>2, E_VacuumPage
  <2>2. \A t \in vac.op.dead : heap[t] = "dead" BY <2>1 DEF Swept
  <2> QED BY <2>1, <2>2, P_Aside
<1>3. CASE VacuumList
  <2>1. CASE vac.op.list = NLists
    <3>1. \A t \in vac.op.dead : heap[t] = "dead" /\ \A b \in Blocks : t \notin page[b].tids
      BY <1>3, <2>1, SweptAll
    <3>2. /\ page' = page /\ ins' = ins /\ \A q \in Inserters : pc'[q] = pc[q]
          /\ \A t \in Tids : heap'[t] = IF t \in vac.op.dead THEN "gone" ELSE heap[t]
      <4>1. ~(vac.op.list < NLists) BY <2>1
      <4> QED BY <1>3, <2>1, <4>1, E_VacuumList
    <3> QED BY <3>1, <3>2, P_Aside
  <2>2. CASE vac.op.list # NLists
    <3>1. UNCHANGED <<page, heap, pc, ins>> BY <1>3, <2>2, E_VacuumList
    <3> QED BY <3>1, P_Aside
  <2> QED BY <2>1, <2>2
<1>4. ASSUME NEW p \in Scanners, ScanStep(p) \/ BeginScan(p) PROVE Placed'
  <2>1. UNCHANGED <<page, heap, ins>> /\ \A q \in Inserters : pc'[q] = pc[q] BY <1>4, E_Scan
  <2> QED BY <2>1, P_Aside
<1>5. CASE \/ UNCHANGED vars
           \/ \E p \in Inserters : NextPage(p)
           \/ \E p \in Inserters, x \in Tids : BeginInsert(p, x) /\ x \notin Indexed
           \/ BeginVacuum \/ Cancel(Vacuum)
           \/ \E x \in Tids : RowDies(x)
  <2>1. /\ page' = page /\ \A q \in Inserters : pc'[q] = pc[q] /\ ins'[q].tid = ins[q].tid
        /\ \A t \in Tids : \/ heap'[t] = heap[t]
                           \/ heap[t] = "live" /\ heap'[t] = "dead"
                           \/ heap[t] = "free" /\ heap'[t] = "live" /\ t \notin Indexed
    BY <1>5, E_Aside
  <2> QED BY <2>1, P_Aside
<1> QED BY <1>1, <1>2, <1>3, <1>4, <1>5, StepKinds, P_Put, P_BeginInsert, P_Leave

\* A row on a page is settled, and so is one that the heap knows
LEMMA TuplesSettled ==
  ASSUME Sound, Placed, NEW t \in Tids
  PROVE  /\ Out(t) => Settled(t)
         /\ \A b \in Blocks : t \in page[b].tids => Settled(t)
<1>1. \A q \in Inserters : Searching(q) => pc[q] # "idle" BY DEF Searching
<1>2. Out(t) => Settled(t) BY <1>1 DEF Out, Settled, Placed, TupleOf
<1>3. ASSUME NEW b \in Blocks, t \in page[b].tids PROVE Settled(t)
  <2>1. t \in Indexed /\ heap[t] # "free" BY <1>3 DEF Placed, TupleOnce, On
  <2> QED BY <1>1, <1>3, <2>1 DEF Settled, Placed, TupleOf, On
<1> QED BY <1>2, <1>3

-----------------------------------------------------------------------------
(* Pages.                                                                  *)

\* Steps that append no page keep the links and the first pages
LEMMA LinksKept ==
  ASSUME Sound, [Next]_vars, ~\E p \in Inserters : AppendPage(p)
  PROVE  /\ nblocks' = nblocks /\ \A b \in Blocks : page'[b].next = page[b].next
         /\ \A l \in Lists : list'[l].start = list[l].start
<1>1. ASSUME NEW p \in Inserters, UpdateList(p) \/ Cancel(p)
      PROVE  \A l \in Lists : list'[l].start = list[l].start
  <2>1. CASE UpdateList(p)
    <3>1. pc[p] # "idle" BY <2>1 DEF UpdateList
    <3>2. ins[p].list \in Lists /\ ins[p].cur \in Blocks /\ ins[p].cur <= nblocks
      BY <3>1, InsertAtHand
    <3>3. list' = UpdatedList(ins[p].list, ins[p].cur, ins[p].orig)
      BY <2>1 DEF UpdateList, ListInfo
    <3> QED BY <3>2, <3>3, UpdatedListType
  <2>2. CASE Cancel(p) BY <2>2 DEF Cancel
  <2> QED BY <1>1, <2>1, <2>2
<1> QED
  BY <1>1, StepKinds, E_Put, E_Leave, E_BeginInsert, E_VacuumPage, E_VacuumList, E_Scan, E_Aside

\* Chains stay in the order of the page numbers
LEMMA R_Next ==
  ASSUME Sound, NEW o \in [Blocks -> Lists], Owned(o), Ordered(o), [Next]_vars,
         NEW u \in [Blocks -> Lists], Succeeds(u, o), Owned(u)', Sound'
  PROVE  Ordered(u)'
<1>0. /\ nblocks \in Blocks /\ \A b \in Blocks : b \in Nat /\ b # 0
      /\ \A b, c \in Blocks : b < c /\ c <= nblocks => b <= nblocks
      /\ \A b \in Blocks : b <= nblocks + 1 => b <= nblocks \/ b = nblocks + 1
  <2>1. nblocks \in Blocks BY DEF Sound, TypeOK
  <2> QED BY <2>1, Basics DEF Blocks
<1>1. ASSUME NEW p \in Inserters, AppendPage(p) PROVE Ordered(u)'
  <2> DEFINE n == nblocks + 1
             c == ins[p].cur
  <2>1. /\ nblocks' = n /\ n \in Blocks /\ list' = list /\ page[c].next = Nil /\ pc[p] = "walk"
        /\ \A b \in Blocks : page'[b].next = IF b = c THEN n ELSE page[b].next
    BY <1>1, E_AppendPage
  <2>2. c \in Blocks /\ c <= nblocks BY <2>1, InsertAtHand
  <2>3. u[n] = o[c] /\ n # Nil
    <3>1. Owns(u, page'[c].next, u[c]) BY <2>2 DEF Owned, Apart, Owns
    <3>2. n # Nil BY <1>0, <2>1 DEF Nil
    <3> QED BY <2>1, <2>2, <3>1, <3>2 DEF Owns, Succeeds
  <2>4. ASSUME NEW b \in Blocks, page'[b].next # Nil PROVE b < page'[b].next
    BY <1>0, <2>1, <2>2, <2>4 DEF Ordered
  <2>5. ASSUME NEW b \in Blocks, NEW x \in Blocks, b < x, x <= n, u[x] = u[b]
        PROVE  page'[b].next # Nil /\ page'[b].next <= x
    <3>0. b <= nblocks /\ u[b] = o[b] BY <1>0, <2>5 DEF Succeeds
    <3>1. CASE x <= nblocks
      <4>1. o[x] = o[b] BY <2>5, <3>0, <3>1 DEF Succeeds
      <4>2. page[b].next # Nil /\ page[b].next <= x BY <2>5, <3>1, <4>1 DEF Ordered
      <4> QED BY <2>1, <4>2
    <3>2. CASE x = n
      <4>1. o[b] = o[c] BY <2>3, <2>5, <3>0, <3>2
      <4>2. CASE b = c BY <1>0, <2>1, <2>3, <3>2, <4>2
      <4>3. CASE b < c
        <5>1. page[b].next # Nil /\ page[b].next <= c /\ b # c BY <1>0, <2>2, <4>1, <4>3 DEF Ordered
        <5>2. page[b].next \in Nat BY <1>0, <5>1 DEF Sound, TypeOK, PageType
        <5>3. page'[b].next = page[b].next BY <2>1, <5>1
        <5>4. page[b].next <= x BY <1>0, <2>2, <3>2, <5>1, <5>2
        <5> QED BY <5>1, <5>3, <5>4
      <4>4. CASE c < b BY <2>1, <2>2, <3>0, <4>1, <4>4 DEF Ordered
      <4> QED BY <1>0, <2>2, <4>2, <4>3, <4>4
    <3> QED BY <1>0, <2>5, <3>1, <3>2
  <2>6. ASSUME NEW b \in Blocks, b <= n PROVE list'[u[b]].start <= b
    <3>1. CASE b <= nblocks BY <2>1, <3>1 DEF Ordered, Succeeds
    <3>2. CASE b = n
      <4>1. u[b] \in Lists OBVIOUS
      <4>2. list[u[b]].start \in Blocks /\ list[u[b]].start <= nblocks
        BY <4>1 DEF Sound, TypeOK, Bounded
      <4>3. list'[u[b]] = list[u[b]] BY <2>1
      <4>4. list[u[b]].start \in Nat /\ nblocks \in Nat /\ b = nblocks + 1 BY <1>0, <3>2, <4>2
      <4> HIDE DEF n, c
      <4> QED BY <4>2, <4>3, <4>4
    <3> QED BY <1>0, <2>6, <3>1, <3>2
  <2> HIDE DEF n, c
  <2> QED BY <2>1, <2>4, <2>5, <2>6 DEF Ordered
<1>2. CASE ~\E p \in Inserters : AppendPage(p)
  <2>1. /\ nblocks' = nblocks /\ \A b \in Blocks : page'[b].next = page[b].next
        /\ \A l \in Lists : list'[l].start = list[l].start
    BY <1>2, LinksKept
  <2>2. \A b \in Blocks : b <= nblocks => u[b] = o[b] BY DEF Succeeds
  <2> QED BY <1>0, <2>1, <2>2 DEF Ordered
<1> QED BY <1>1, <1>2

\* VACUUM misses no page: it follows the chain, and nothing is put behind it
LEMMA W_Next ==
  ASSUME Sound, Placed, NEW o \in [Blocks -> Lists], Owned(o), Ordered(o), Swept(o),
         [Next]_vars, NEW u \in [Blocks -> Lists], Succeeds(u, o), Sound'
  PROVE  Swept(u)'
<1> USE Basics
<1>0. /\ nblocks \in Blocks /\ \A b \in Blocks : b \in Nat /\ b # Nil
      /\ \A b \in Blocks : ~(b <= nblocks) => b > nblocks
  <2>1. nblocks \in Blocks BY DEF Sound, TypeOK
  <2> QED BY <2>1 DEF Blocks, Nil
<1>1. \A b \in Blocks : b <= nblocks => u[b] = o[b] BY DEF Succeeds
<1>2. CASE BeginVacuum
  <2>1. /\ UNCHANGED <<page, nblocks, list, heap>> /\ vac'.op.list = 1 /\ vac'.op.cur = list[1].start
        /\ vac'.op.dead = {t \in Tids : heap[t] = "dead"}
    BY <1>2 DEF BeginVacuum, VacuumOf
  <2>2. ASSUME NEW b \in Blocks, b <= nblocks, Behind(u, b)' PROVE FALSE
    <3>1. u[b] \in Lists /\ ~(u[b] < 1) BY DEF Lists
    <3>2. list[u[b]].start \in Blocks /\ list[u[b]].start <= b
      BY <1>1, <2>2 DEF Ordered, Sound, TypeOK
    <3> QED BY <1>0, <2>1, <2>2, <3>1, <3>2 DEF Behind
  <2> QED BY <2>1, <2>2 DEF Swept
<1>3. CASE VacuumPage
  <2> DEFINE c == vac.op.cur
  <2>1. /\ pc[Vacuum] = "page" /\ c \in Blocks /\ c <= nblocks
        /\ UNCHANGED <<nblocks, heap, pc>>
        /\ vac'.op.cur = page[c].next /\ vac'.op.list = vac.op.list /\ vac'.op.dead = vac.op.dead
        /\ \A b \in Blocks : \A t : t \in page'[b].tids <=>
             t \in page[b].tids /\ ~(b = c /\ t \in vac.op.dead)
    BY <1>3, E_VacuumPage
  <2>2. o[c] = vac.op.list BY <1>0, <2>1 DEF Owned, Owns
  <2>3. ASSUME NEW b \in Blocks, b <= nblocks, Behind(u, b)', b # c PROVE Behind(o, b)
    <3>1. u[b] = o[b] BY <1>1, <2>3
    <3>2. CASE c < b
      <4>1. o[b] = o[c] => page[c].next # Nil /\ page[c].next <= b
        BY <2>1, <2>3, <3>2 DEF Ordered
      <4>2. page[c].next # Nil => page[c].next \in Nat
        BY <1>0, <2>1 DEF Sound, TypeOK, PageType
      <4>3. o[b] = o[c] => ~(b < page[c].next) BY <1>0, <4>1, <4>2
      <4> QED BY <2>1, <2>2, <2>3, <3>1, <4>1, <4>3 DEF Behind
    <3>3. CASE b < c BY <2>1, <2>3, <3>1, <3>3 DEF Behind
    <3> QED BY <1>0, <2>1, <2>3, <3>2, <3>3
  <2> QED BY <2>1, <2>3 DEF Swept, On
<1>4. CASE VacuumList
  <2>1. /\ pc[Vacuum] = "page" /\ vac.op.cur = Nil /\ vac.op.list \in Lists /\ UNCHANGED <<page, nblocks>>
    BY <1>4, E_VacuumList
  <2> DEFINE l == vac.op.list + 1
  <2>2. CASE /\ vac.op.list < NLists /\ vac'.op.list = l /\ l \in Lists
             /\ vac'.op.cur = list[l].start /\ vac'.op.dead = vac.op.dead
             /\ UNCHANGED <<heap, pc>>
    <3>1. ASSUME NEW b \in Blocks, b <= nblocks, Behind(u, b)' PROVE Behind(o, b)
      <4>1. u[b] = o[b] /\ o[b] \in Lists BY <1>1, <3>1
      <4>2. \A k \in Lists : k < l => k < vac.op.list \/ k = vac.op.list BY <2>1 DEF Lists
      <4>3. list[o[b]].start \in Blocks /\ list[o[b]].start <= b BY <3>1 DEF Ordered, Sound, TypeOK
      <4>4. ~(b < list[o[b]].start) /\ list[o[b]].start # Nil BY <1>0, <4>3
      <4> QED BY <2>1, <2>2, <3>1, <4>1, <4>2, <4>4 DEF Behind
    <3> QED BY <2>1, <2>2, <3>1 DEF Swept, On
  <2>3. CASE pc'[Vacuum] = "idle" BY <2>3 DEF Swept
  <2> QED BY <1>4, <2>2, <2>3, E_VacuumList
<1>5. CASE Cancel(Vacuum)
  <2>1. pc'[Vacuum] = "idle" BY <1>5 DEF Cancel, Sound, TypeOK
  <2> QED BY <2>1 DEF Swept
<1>6. ASSUME ~VacuumList, UNCHANGED vac, pc'[Vacuum] = pc[Vacuum] PROVE Swept(u)'
  <2> SUFFICES ASSUME pc[Vacuum] = "page", NEW t \in vac.op.dead
               PROVE  /\ heap'[t] = "dead"
                      /\ \A b \in Blocks : b <= nblocks' /\ Behind(u, b)' => t \notin page'[b].tids
    BY <1>6 DEF Swept, On
  <2>1. t \in Tids /\ heap[t] = "dead" BY DEF Swept, Sound, TypeOK, VacType
  <2>2. Settled(t) BY <2>1, TuplesSettled DEF Out
  <2>3. Settles(t) BY <2>1, RowsSettle
  <2>4. heap'[t] = "dead" BY <1>6, <2>1, <2>3 DEF Settles
  <2>5. ASSUME NEW b \in Blocks, Behind(u, b)' PROVE t \notin page[b].tids
    <3>1. CASE b <= nblocks BY <1>1, <1>6, <2>5, <3>1 DEF Swept, Behind, On
    <3>2. CASE ~(b <= nblocks) BY <1>0, <3>2 DEF Sound, Bounded
    <3> QED BY <3>1, <3>2
  <2> QED BY <2>2, <2>3, <2>4, <2>5 DEF Settles
<1>7. ASSUME NEW p \in Inserters, \/ PutTuple(p) \/ FillPage(p) \/ AppendPage(p)
                                  \/ UpdateList(p) \/ Cancel(p) \/ NextPage(p)
                                  \/ \E t \in Tids : BeginInsert(p, t)
      PROVE  UNCHANGED vac /\ pc'[Vacuum] = pc[Vacuum]
  <2>1. UNCHANGED vac /\ (pc' = pc \/ \E x : pc' = [pc EXCEPT ![p] = x])
    BY <1>7 DEF PutTuple, FillPage, AppendPage, UpdateList, Cancel, NextPage, BeginInsert, EndInsert
  <2> QED BY <2>1 DEF Sound, TypeOK
<1>8. ASSUME NEW p \in Scanners, ScanStep(p) \/ BeginScan(p)
      PROVE  UNCHANGED vac /\ pc'[Vacuum] = pc[Vacuum]
  BY <1>8, E_Scan
<1>9. CASE UNCHANGED vars \/ \E t \in Tids : RowDies(t)
  <2>1. UNCHANGED vac /\ pc'[Vacuum] = pc[Vacuum] BY <1>9 DEF vars, RowDies
  <2> QED BY <1>4, <1>6, <2>1
<1> QED BY <1>2, <1>3, <1>4, <1>5, <1>6, <1>7, <1>8, <1>9, StepKinds

-----------------------------------------------------------------------------
(* Scans.                                                                  *)

\* What a scan can rely on when others take steps
LEMMA N_Other ==
  ASSUME Sound, Placed, NEW o \in [Blocks -> Lists], [Next]_vars,
         NEW u \in [Blocks -> Lists], Succeeds(u, o), Sound',
         NEW p \in Scanners, ScanReady(o, p), scan'[p] = scan[p], pc'[p] = pc[p]
  PROVE  ScanReady(u, p)'
<1> USE Basics
<1>0. nblocks \in Nat /\ nblocks' \in Nat /\ nblocks <= nblocks' /\ 1..nblocks \subseteq Blocks
  <2>0. nblocks \in Blocks /\ nblocks' \in Blocks BY DEF Sound, TypeOK
  <2>1. nblocks \in Nat /\ nblocks' \in Nat /\ 1..nblocks \subseteq Blocks BY <2>0 DEF Blocks
  <2>2. nblocks' = nblocks \/ nblocks' = nblocks + 1 BY LinksKept, E_AppendPage
  <2> QED BY <2>1, <2>2
<1>1. CASE pc[p] = "idle" BY <1>1 DEF ScanReady
<1>2. CASE pc[p] # "idle"
  <2> DEFINE s == scan[p]
  <2>1. /\ s \in ScanType /\ s.lists = GetScanLists(s.dist)
        /\ \A t \in s.live : Out(t)
        /\ \A t \in Got(p) : Settled(t) /\ \A b \in Blocks : On(t, b) => Passed(o, p, b)
        /\ \A t \in s.live, b \in Blocks :
             heap[t] = "live" /\ On(t, b) /\ Passed(o, p, b) => t \in Got(p)
    BY <1>2 DEF ScanReady
  <2>2. ASSUME NEW b \in Blocks, b <= nblocks PROVE Passed(u, p, b)' <=> Passed(o, p, b)
    BY <2>2 DEF Succeeds, Passed, Through
  <2>3. ASSUME NEW b \in Blocks, NEW t, t \in page[b].tids PROVE b <= nblocks
    <3>1. ~(b > nblocks) BY <2>3 DEF Sound, Bounded
    <3> QED BY <1>0, <3>1 DEF Blocks
  <2>4. Got(p)' = Got(p) /\ Got(p) \subseteq Tids /\ s.live \subseteq Tids
    BY <2>1 DEF Got, ScanType
  <2>5. ASSUME NEW t \in Got(p)
        PROVE  Settled(t)' /\ \A b \in Blocks : t \in page'[b].tids => Passed(u, p, b)'
    <3>1. Settles(t) BY <2>4, RowsSettle
    <3> QED BY <2>1, <2>2, <2>3, <3>1 DEF Settles, On
  <2>6. ASSUME NEW t \in s.live
        PROVE  /\ Out(t)'
               /\ \A b \in Blocks : heap'[t] = "live" /\ t \in page'[b].tids /\ Passed(u, p, b)' =>
                    t \in Got(p)
    <3>1. Settles(t) /\ Settled(t) /\ Out(t) BY <2>1, <2>4, RowsSettle, TuplesSettled
    <3> QED BY <2>1, <2>2, <2>3, <3>1 DEF Settles, On
  <2>7. pc[p] = "page" => s.cur \in 1..nblocks' /\ u[s.cur] = s.lists[s.index]
    <3> SUFFICES ASSUME pc[p] = "page" PROVE s.cur \in 1..nblocks' /\ u[s.cur] = s.lists[s.index]
      OBVIOUS
    <3>1. s.cur \in 1..nblocks /\ o[s.cur] = s.lists[s.index] BY DEF ScanReady
    <3> HIDE DEF s
    <3>2. s.cur \in Blocks /\ s.cur <= nblocks /\ s.cur \in 1..nblocks' BY <1>0, <3>1
    <3> QED BY <3>1, <3>2 DEF Succeeds
  <2> HIDE DEF s
  <2>8. scan'[p] = s BY DEF s
  <2> QED BY <2>1, <2>4, <2>5, <2>6, <2>7, <2>8 DEF ScanReady, On, s
<1> QED BY <1>1, <1>2

\* A scan's own steps change nothing else
LEMMA N_Own ==
  ASSUME Sound, Placed, NEW p \in Scanners, ScanStep(p) \/ BeginScan(p),
         NEW o \in [Blocks -> Lists], Owned(o), Ordered(o), ScanReady(o, p),
         scan = [q \in Scanners |-> scan[q]]
  PROVE  ScanReady(o, p)'
<1> USE Basics
<1>0. /\ UNCHANGED <<page, nblocks, list, heap, ins>>
      /\ \A q \in Inserters : pc'[q] = pc[q] /\ p \in Procs
  BY E_Scan
<1>1. \A t : (Settled(t)' <=> Settled(t)) /\ (Out(t)' <=> Out(t)) /\ \A b : On(t, b)' <=> On(t, b)
  BY <1>0 DEF Settled, Searching, Out, On
<1>2. /\ MaxProbes \in Nat /\ 1 <= MaxProbes
      /\ \A b \in Blocks : b <= nblocks => b \in 1..nblocks
      /\ 1..nblocks \subseteq Blocks
  <2>1. nblocks \in Blocks BY DEF Sound, TypeOK
  <2> QED BY <2>1, ProbesBounds DEF Blocks
<1>3. ASSUME NEW b \in Blocks, NEW t, On(t, b) PROVE b <= nblocks
  <2>1. ~(b > nblocks) BY <1>3 DEF Sound, Bounded, On
  <2> QED BY <2>1 DEF Sound, TypeOK, Blocks
<1>4. CASE BeginScan(p)
  <2>1. PICK d \in QueryDists : scan' = [scan EXCEPT ![p] =
         [NoScan EXCEPT !.dist = d, !.lists = GetScanLists(d),
            !.live = {t \in Indexed : heap[t] = "live"}]]
    BY <1>4 DEF BeginScan
  <2>2. pc'[p] = "list" BY <1>0, <1>4 DEF BeginScan, Sound, TypeOK
  <2> DEFINE s == [NoScan EXCEPT !.dist = d, !.lists = GetScanLists(d),
                     !.live = {t \in Indexed : heap[t] = "live"}]
  <2>3. scan'[p] = s BY <2>1
  <2>4. /\ s.dist = d /\ s.lists = GetScanLists(d) /\ s.index = 0 /\ s.buf = {} /\ s.ret = {}
        /\ s.live = {t \in Indexed : heap[t] = "live"} /\ s.cur = Nil
    BY DEF NoScan
  <2>5. d \in [Lists -> Nat] BY ConstantsAssumption
  <2>6. GetScanLists(d) \in [1..MaxProbes -> Lists] BY <2>5, NearestLists
  <2>7. s \in ScanType
    <3> DEFINE L == {t \in Indexed : heap[t] = "live"}
               f == GetScanLists(d)
    <3>1. L \in SUBSET Indexed /\ f \in [1..MaxProbes -> Lists] /\ 0 \in 0..MaxProbes
      BY <1>2, <2>6
    <3> HIDE DEF L, f
    <3>2. [NoScan EXCEPT !.dist = d, !.lists = f, !.live = L] \in ScanType
      BY <3>1 DEF ScanType, NoScan
    <3> QED BY <3>2 DEF L, f
  <2> HIDE DEF s
  <2>8. Got(p)' = {} BY <2>3, <2>4 DEF Got
  <2>9. \A b : ~Passed(o, p, b)'
    <3>1. \A i \in 1..MaxProbes : ~(i < 0) /\ i # 0 BY <1>2
    <3> QED BY <2>2, <2>3, <2>4, <3>1 DEF Passed, Through
  <2>10. \A t \in s.live : Out(t)' BY <1>1, <2>4 DEF Out
  <2> QED BY <2>2, <2>3, <2>4, <2>7, <2>8, <2>9, <2>10 DEF ScanReady
<1>5. CASE EndScan(p)
  <2>1. pc'[p] = "idle" BY <1>0, <1>5 DEF EndScan, Sound, TypeOK
  <2> QED BY <2>1 DEF ScanReady
<1>6. CASE ScanList(p) \/ ScanPage(p) \/ ReturnTuple(p) \/ NextBatch(p)
  <2> DEFINE s == scan[p]
  <2>1. /\ s \in ScanType /\ s.lists = GetScanLists(s.dist) /\ pc[p] # "idle"
        /\ \A t \in s.live : Out(t)
        /\ \A t \in Got(p) : Settled(t) /\ \A b \in Blocks : On(t, b) => Passed(o, p, b)
        /\ \A t \in s.live, b \in Blocks :
             heap[t] = "live" /\ On(t, b) /\ Passed(o, p, b) => t \in Got(p)
    BY <1>6 DEF ScanReady, ScanList, ScanPage, ReturnTuple, NextBatch
  <2>2. scan \in [Scanners -> {scan[q] : q \in Scanners}] OBVIOUS
  <2>3. CASE ScanList(p) /\ s.index < MaxProbes /\ s.batch < BatchProbes
    <3> DEFINE l == s.lists[s.index + 1]
               r == [s EXCEPT !.index = s.index + 1, !.batch = @ + 1, !.cur = list[l].start]
    <3>1. s.index \in 0..MaxProbes /\ s.index + 1 \in 1..MaxProbes /\ s.lists \in [1..MaxProbes -> Lists]
      BY <1>2, <2>1, <2>3 DEF ScanType
    <3>2. l \in Lists /\ list[l].start \in Blocks /\ list[l].start <= nblocks /\ o[list[l].start] = l
      <4>1. l \in Lists BY <3>1
      <4> HIDE DEF l
      <4>2. list[l].start \in Blocks /\ list[l].start <= nblocks BY <4>1 DEF Sound, TypeOK, Bounded
      <4>3. list[l].start # Nil BY <4>2 DEF Blocks, Nil
      <4> QED BY <4>1, <4>2, <4>3 DEF Owned, Apart, Owns
    <3>3. scan'[p] = r BY <2>2, <2>3 DEF ScanList, NextIndex
    <3>4. pc[p] = "list" /\ pc'[p] = "page" BY <1>0, <2>3 DEF ScanList, Sound, TypeOK
    <3>5. /\ r \in ScanType /\ r.index = s.index + 1 /\ r.lists = s.lists /\ r.live = s.live
          /\ r.dist = s.dist /\ r.buf = s.buf /\ r.ret = s.ret /\ r.cur = list[l].start
      <4> HIDE DEF s, l
      <4>1. s \in ScanType /\ s.index + 1 \in 0..MaxProbes BY <1>2, <2>1, <3>1
      <4>2. s.batch + 1 \in Nat BY <4>1 DEF ScanType
      <4> QED BY <3>2, <4>1, <4>2 DEF ScanType
    <3> HIDE DEF r
    <3>6. ASSUME NEW b \in Blocks, b <= nblocks PROVE Passed(o, p, b)' <=> Passed(o, p, b)
      <4>1. Through(p, o[b])' <=> Through(p, o[b])
        <5>1. \A i \in 1..MaxProbes : i < s.index + 1 <=> (i < s.index \/ i = s.index)
          BY <1>2, <3>1
        <5>2. Through(p, o[b])' <=> \E i \in 1..MaxProbes : s.lists[i] = o[b] /\ i < s.index + 1
          BY <3>3, <3>4, <3>5 DEF Through
        <5>3. Through(p, o[b]) <=> \E i \in 1..MaxProbes : s.lists[i] = o[b] /\ (i < s.index \/ i = s.index)
          BY <3>4 DEF Through
        <5> QED BY <5>1, <5>2, <5>3
      <4>2. o[b] = l => ~(b < list[l].start)
        <5>1. list[o[b]].start <= b BY <3>6 DEF Ordered
        <5> QED BY <3>2, <5>1 DEF Blocks
      <4> QED BY <3>3, <3>4, <3>5, <4>1, <4>2 DEF Passed
    <3>7. Got(p)' = Got(p) BY <3>3, <3>5 DEF Got
    <3>8. list[l].start \in 1..nblocks BY <1>2, <3>2
    <3>9. /\ \A t \in Got(p) : Settled(t)' /\ \A b \in Blocks : On(t, b)' => Passed(o, p, b)'
          /\ \A t \in s.live : Out(t)' /\ \A b \in Blocks :
               heap[t] = "live" /\ On(t, b)' /\ Passed(o, p, b)' => t \in Got(p)
      BY <1>1, <1>3, <2>1, <3>6
    <3> HIDE DEF s, l
    <3> QED BY <1>0, <2>1, <3>1, <3>2, <3>3, <3>4, <3>5, <3>7, <3>8, <3>9 DEF ScanReady, l
  <2>4. CASE \/ ScanList(p) /\ ~(s.index < MaxProbes /\ s.batch < BatchProbes)
             \/ ReturnTuple(p) \/ NextBatch(p)
    <3>1. /\ pc[p] \in {"list", "emit"} /\ pc'[p] \in {"list", "emit", "end"}
          /\ pc'[p] = "end" => s.index = MaxProbes /\ s.buf = {} /\ scan'[p].buf = {}
      BY <1>0, <2>4 DEF ScanList, ReturnTuple, NextBatch, Exhausted, Sound, TypeOK
    <3>2. /\ scan'[p] \in ScanType /\ scan'[p].index = s.index /\ scan'[p].lists = s.lists
          /\ scan'[p].live = s.live /\ scan'[p].dist = s.dist
          /\ scan'[p].buf \cup scan'[p].ret = s.buf \cup s.ret
      <4>1. CASE scan' = scan BY <2>1, <4>1
      <4>2. CASE ReturnTuple(p)
        <5>1. PICK t \in s.buf : scan' = [scan EXCEPT ![p].buf = @ \ {t}, ![p].ret = @ \cup {t}]
          BY <4>2 DEF ReturnTuple
        <5>2. scan'[p] = [s EXCEPT !.buf = @ \ {t}, !.ret = @ \cup {t}] BY <2>2, <5>1
        <5> HIDE DEF s
        <5>3. s \in ScanType BY <2>1
        <5>4. t \in Indexed BY <5>3 DEF ScanType
        <5>5. s.buf \ {t} \in SUBSET Indexed /\ s.ret \cup {t} \in SUBSET Indexed
          BY ONLY <5>3, <5>4 DEF ScanType
        <5>6. PICK u, v : u = s.buf \ {t} /\ v = s.ret \cup {t} OBVIOUS
        <5>7. scan'[p] = [s EXCEPT !.buf = u, !.ret = v] BY ONLY <5>2, <5>6
        <5>8. u \in SUBSET Indexed /\ v \in SUBSET Indexed BY ONLY <5>5, <5>6
        <5>9. /\ scan'[p] \in ScanType /\ scan'[p].buf = u /\ scan'[p].ret = v
              /\ scan'[p].index = s.index /\ scan'[p].lists = s.lists
              /\ scan'[p].live = s.live /\ scan'[p].dist = s.dist
          BY ONLY <5>3, <5>7, <5>8 DEF ScanType
        <5>10. /\ scan'[p] \in ScanType /\ scan'[p].buf = s.buf \ {t} /\ scan'[p].ret = s.ret \cup {t}
              /\ scan'[p].index = s.index /\ scan'[p].lists = s.lists
              /\ scan'[p].live = s.live /\ scan'[p].dist = s.dist
          BY ONLY <5>6, <5>9
        <5> QED BY <5>4, <5>10
      <4>3. CASE scan' = [scan EXCEPT ![p].batch = 0]
        <5>1. scan'[p] = [s EXCEPT !.batch = 0] BY <2>2, <4>3
        <5> HIDE DEF s
        <5>2. s \in ScanType BY <2>1
        <5>3. /\ scan'[p] \in ScanType /\ scan'[p].buf = s.buf /\ scan'[p].ret = s.ret
              /\ scan'[p].index = s.index /\ scan'[p].lists = s.lists
              /\ scan'[p].live = s.live /\ scan'[p].dist = s.dist
          BY ONLY <5>1, <5>2 DEF ScanType
        <5> QED BY <5>3
      <4> QED BY <2>4, <4>1, <4>2, <4>3 DEF ScanList, NextBatch
    <3>3. \A b : Passed(o, p, b)' <=> Passed(o, p, b) BY <3>1, <3>2 DEF Passed, Through
    <3>4. Got(p)' = Got(p) BY <3>2 DEF Got
    <3> HIDE DEF s
    <3>5. /\ \A t \in Got(p) : Settled(t)' /\ \A b \in Blocks : On(t, b)' => Passed(o, p, b)'
          /\ \A t \in s.live : Out(t)' /\ \A b \in Blocks :
               heap[t] = "live" /\ On(t, b)' /\ Passed(o, p, b)' => t \in Got(p)
      BY <1>1, <2>1, <3>3
    <3> QED BY <1>0, <2>1, <3>1, <3>2, <3>4, <3>5 DEF ScanReady
  <2>5. CASE ScanPage(p)
    <3> DEFINE c == s.cur
               n == page[c].next
               r == [s EXCEPT !.buf = @ \cup page[c].tids, !.cur = n]
    <3>1. /\ pc[p] = "page" /\ s.index \in 1..MaxProbes /\ c \in 1..nblocks /\ o[c] = s.lists[s.index]
      BY <2>5 DEF ScanPage, ScanReady
    <3>2. c \in Blocks /\ n \in Blocks \cup {Nil} /\ n <= nblocks /\ page[c].tids \subseteq Indexed
      <4>1. c \in Blocks BY <1>2, <3>1
      <4> HIDE DEF c
      <4> QED BY <4>1 DEF Sound, TypeOK, Bounded, PageType, Placed
    <3>3. scan'[p] = r BY <2>2, <2>5 DEF ScanPage
    <3>4. pc'[p] = IF n = Nil THEN "list" ELSE "page" BY <1>0, <2>5 DEF ScanPage, Sound, TypeOK
    <3>5. /\ r \in ScanType /\ r.index = s.index /\ r.lists = s.lists /\ r.live = s.live
          /\ r.dist = s.dist /\ r.buf = s.buf \cup page[c].tids /\ r.ret = s.ret /\ r.cur = n
      <4> HIDE DEF s, n
      <4> QED BY <2>1, <3>2 DEF ScanType
    <3> HIDE DEF r
    <3>6. ASSUME NEW b \in Blocks, b <= nblocks PROVE Passed(o, p, b)' <=> Passed(o, p, b) \/ b = c
      <4>1. \A i \in 1..MaxProbes : i < s.index => i # s.index BY <1>2, <3>1
      <4>2. c < b /\ o[b] = o[c] => n # Nil /\ n <= b BY <3>2, <3>6 DEF Ordered
      <4>3. n # Nil => c < n BY <3>2 DEF Ordered
      <4>4. b \in Nat /\ c \in Nat /\ (n # Nil => n \in Nat) BY <3>2 DEF Blocks
      <4>5. CASE n = Nil
        <5>1. Passed(o, p, b)' <=> \E i \in 1..MaxProbes : s.lists[i] = o[b] /\ (i < s.index \/ i = s.index)
          BY <3>3, <3>4, <3>5, <4>5 DEF Passed, Through
        <5>2. Passed(o, p, b) <=>
                \/ \E i \in 1..MaxProbes : s.lists[i] = o[b] /\ i < s.index
                \/ o[b] = s.lists[s.index] /\ b < c
          BY <3>1 DEF Passed, Through
        <5>3. o[b] = o[c] => b < c \/ b = c BY <4>2, <4>4, <4>5
        <5> HIDE DEF s, n, c
        <5> QED BY <3>1, <5>1, <5>2, <5>3
      <4>6. CASE n # Nil
        <5>1. Passed(o, p, b)' <=>
                \/ \E i \in 1..MaxProbes : s.lists[i] = o[b] /\ i < s.index
                \/ o[b] = s.lists[s.index] /\ b < n
          BY <3>3, <3>4, <3>5, <4>6 DEF Passed, Through
        <5>2. Passed(o, p, b) <=>
                \/ \E i \in 1..MaxProbes : s.lists[i] = o[b] /\ i < s.index
                \/ o[b] = s.lists[s.index] /\ b < c
          BY <3>1 DEF Passed, Through
        <5>3. o[b] = o[c] => (b < n <=> (b < c \/ b = c)) BY <4>2, <4>3, <4>4, <4>6
        <5> HIDE DEF s, n, c
        <5> QED BY <3>1, <5>1, <5>2, <5>3
      <4> QED BY <4>5, <4>6
    <3>7. Got(p)' = Got(p) \cup page[c].tids BY <3>3, <3>5 DEF Got
    <3>8. ASSUME NEW t \in Got(p)' 
          PROVE  Settled(t)' /\ \A b \in Blocks : On(t, b)' => Passed(o, p, b)'
      <4>1. CASE t \in Got(p) BY <1>1, <1>3, <2>1, <3>6, <4>1
      <4>2. CASE t \in page[c].tids
        <5>1. t \in Indexed BY <3>2, <4>2
        <5>2. Settled(t) BY <3>2, <4>2, <5>1, TuplesSettled
        <5>3. \A b \in Blocks : On(t, b) => b = c BY <3>2, <4>2, <5>1 DEF Placed, TupleOnce, On
        <5> QED BY <1>1, <1>3, <3>2, <3>6, <5>2, <5>3
      <4> QED BY <3>7, <4>1, <4>2
    <3>9. \A t \in s.live : Out(t)' /\ \A b \in Blocks :
            heap[t] = "live" /\ On(t, b)' /\ Passed(o, p, b)' => t \in Got(p)'
      BY <1>1, <1>3, <2>1, <3>6, <3>7 DEF On
    <3>10. n # Nil => n \in 1..nblocks /\ o[n] = s.lists[s.index]
      <4>1. n # Nil => o[n] = o[c] BY <3>2 DEF Owned, Apart, Owns
      <4> HIDE DEF n, c
      <4> QED BY <1>2, <3>1, <3>2, <4>1
    <3> HIDE DEF s, n, c
    <3> QED BY <1>0, <2>1, <3>1, <3>3, <3>4, <3>5, <3>8, <3>9, <3>10 DEF ScanReady
  <2> QED BY <1>6, <2>3, <2>4, <2>5
<1> QED BY <1>4, <1>5, <1>6 DEF ScanStep

-----------------------------------------------------------------------------
(* The invariant holds.                                                    *)

\* CREATE INDEX leaves every row on one page and the chains in order
LEMMA I_Init ==
  ASSUME Init PROVE Inv
<1> USE Basics
<1>0. /\ NBuilt \in Nat /\ 1..NBuilt \subseteq Blocks /\ NBuilt \in Blocks
      /\ \A b \in Blocks : b \in Nat /\ (b <= NBuilt <=> b \in 1..NBuilt)
  <2>1. NBuilt \in Blocks BY ConstantsAssumption
  <2> QED BY <2>1 DEF Blocks
<1>1. PICK o \in [Blocks -> Lists] : Owned(o) /\ \A b \in 1..NBuilt : o[b] = BuiltOwner[b]
  BY O_Init
<1>2. /\ nblocks = NBuilt /\ \A p \in Procs : pc[p] = "idle"
      /\ \A b \in Blocks : /\ page[b].next = IF b \in 1..NBuilt THEN BuiltNext(b) ELSE Nil
                           /\ page[b].tids = IF b \in 1..NBuilt THEN BuiltTids[b] ELSE {}
      /\ \A l \in Lists : list[l].start = BuiltStart(l)
      /\ \A t \in Tids : heap[t] = IF \E b \in 1..NBuilt : t \in BuiltTids[b] THEN "live" ELSE "free"
  BY <1>0 DEF Init
<1>3. Ordered(o)
  <2>1. ASSUME NEW b \in Blocks, page[b].next # Nil PROVE b < page[b].next
    BY <1>0, <1>2, <2>1 DEF BuiltNext
  <2>2. ASSUME NEW b \in Blocks, NEW c \in Blocks, b < c, c <= nblocks, o[c] = o[b]
        PROVE  page[b].next # Nil /\ page[b].next <= c
    <3>0. b \in Nat /\ c \in Nat /\ b \in 1..NBuilt /\ c \in 1..NBuilt
      <4>1. b \in Nat /\ c \in Nat BY <1>0
      <4>2. c <= NBuilt /\ b <= NBuilt BY <1>0, <1>2, <2>2, <4>1
      <4> QED BY <1>0, <4>1, <4>2
    <3>1. /\ b \in 1..NBuilt /\ c \in 1..NBuilt /\ b + 1 \in 1..NBuilt /\ b < NBuilt /\ b < b + 1
          /\ b + 1 <= c /\ (b + 1 = c \/ b + 1 < c) /\ b + 1 # Nil
      BY ONLY <1>0, <2>2, <3>0 DEF Nil
    <3>2. /\ BuiltOwner[b] <= BuiltOwner[b + 1] /\ BuiltOwner[b + 1] <= BuiltOwner[c]
          /\ BuiltOwner[b] \in Nat /\ BuiltOwner[b + 1] \in Nat
      <4>1. \A x, y \in 1..NBuilt : x < y => BuiltOwner[x] <= BuiltOwner[y]
        BY ConstantsAssumption
      <4>2. \A x \in 1..NBuilt : BuiltOwner[x] \in Nat BY ConstantsAssumption DEF Lists
      <4>3. b + 1 = c => BuiltOwner[b + 1] <= BuiltOwner[c] BY <3>1, <4>2
      <4> QED BY <3>1, <4>1, <4>2, <4>3
    <3>3. BuiltOwner[b] = BuiltOwner[c] BY <1>1, <2>2, <3>1
    <3>4. BuiltOwner[b + 1] = BuiltOwner[b] BY <3>2, <3>3
    <3>5. BuiltNext(b) = b + 1 BY <3>1, <3>4 DEF BuiltNext
    <3> QED BY <1>2, <3>1, <3>5
  <2>3. ASSUME NEW b \in Blocks, b <= nblocks PROVE list[o[b]].start <= b
    <3>1. b \in 1..NBuilt /\ BuiltOwner[b] = o[b] BY <1>0, <1>1, <1>2, <2>3
    <3> QED BY <1>2, <3>1, BuiltPages
  <2> QED BY <2>1, <2>2, <2>3 DEF Ordered
<1>4. Placed
  <2>1. BuiltTids \in [1..NBuilt -> SUBSET Indexed] BY ConstantsAssumption
  <2>2. ASSUME NEW t \in Indexed PROVE TupleOnce(t)
    <3>1. ASSUME NEW b \in Blocks, NEW c \in Blocks, On(t, b), On(t, c) PROVE b = c
      <4>1. b \in 1..NBuilt /\ c \in 1..NBuilt /\ t \in BuiltTids[b] \cap BuiltTids[c]
        BY <1>2, <3>1 DEF On
      <4>2. ~(b < c) /\ ~(c < b) BY <4>1, ConstantsAssumption
      <4> QED BY <1>0, <4>2
    <3>2. heap[t] = "live" => \E b \in Blocks : On(t, b) BY <1>0, <1>2 DEF On
    <3>3. heap[t] \in {"free", "gone"} => \A b \in Blocks : ~On(t, b) BY <1>2 DEF On
    <3> QED BY <3>1, <3>2, <3>3 DEF TupleOnce
  <2> QED BY <1>2, <2>1, <2>2 DEF Placed, TupleOf, OwnTuples
<1>5. Swept(o) BY <1>2 DEF Swept
<1>6. \A p \in Scanners : ScanReady(o, p) BY <1>2 DEF ScanReady
<1>7. scan = [p \in Scanners |-> scan[p]] BY DEF Init
<1> QED BY <1>1, <1>3, <1>4, <1>5, <1>6, <1>7, S_Init DEF Inv, Located

\* Every step keeps the invariant
LEMMA I_Next ==
  ASSUME Inv, [Next]_vars PROVE Inv'
<1> USE Basics
<1>1. Sound /\ Placed BY DEF Inv
<1>2. PICK o \in [Blocks -> Lists] : Located(o) BY DEF Inv
<1>3. /\ Owned(o) /\ Ordered(o) /\ Swept(o) /\ scan = [p \in Scanners |-> scan[p]]
      /\ \A p \in Scanners : ScanReady(o, p)
  BY <1>2 DEF Located
<1>4. Sound' BY <1>1, S_Next
<1>5. Placed' BY <1>1, <1>3, P_Next
<1>6. ASSUME NEW p \in Scanners, ScanStep(p) \/ BeginScan(p) PROVE Located(o)'
  <2>1. /\ UNCHANGED <<page, list, ins, vac>> /\ \A q \in Procs : q # p => pc'[q] = pc[q]
        /\ \A q \in Inserters \cup {Vacuum} : pc'[q] = pc[q]
    BY <1>1, <1>6, E_Scan
  <2>2. Owned(o)' BY <1>1, <1>3, <2>1, O_Same
  <2>3. Succeeds(o, o) BY DEF Succeeds
  <2>4. Ordered(o)' /\ Swept(o)' BY <1>1, <1>3, <1>4, <2>2, <2>3, R_Next, W_Next
  <2>5. scan' = scan \/ \E x : scan' = [scan EXCEPT ![p] = x]
    BY <1>6 DEF ScanStep, BeginScan, ScanList, ScanPage, ReturnTuple, NextBatch, EndScan
  <2>6. /\ scan' = [q \in Scanners |-> scan'[q]]
        /\ \A q \in Scanners : q # p => scan'[q] = scan[q]
    BY <1>3, <2>5
  <2>7. ASSUME NEW q \in Scanners PROVE ScanReady(o, q)'
    <3>1. CASE q = p BY <1>1, <1>3, <1>6, <3>1, N_Own
    <3>2. CASE q # p
      <4>1. scan'[q] = scan[q] /\ pc'[q] = pc[q] BY <2>1, <2>6, <3>2
      <4> QED BY <1>1, <1>3, <1>4, <2>3, <4>1, N_Other
    <3> QED BY <3>1, <3>2
  <2> QED BY <2>2, <2>4, <2>6, <2>7 DEF Located
<1>7. CASE ~\E p \in Scanners : ScanStep(p) \/ BeginScan(p)
  <2>1. PICK u \in [Blocks -> Lists] : Succeeds(u, o) /\ Owned(u)' BY <1>1, <1>3, O_Next
  <2>2. Ordered(u)' /\ Swept(u)' BY <1>1, <1>3, <1>4, <2>1, R_Next, W_Next
  <2>3. scan' = scan /\ \A p \in Scanners : pc'[p] = pc[p]
    BY <1>1, <1>7, StepKinds, E_Put, E_AppendPage, E_Leave, E_BeginInsert, E_VacuumPage,
       E_VacuumList, E_Aside
  <2>4. \A p \in Scanners : ScanReady(u, p)' BY <1>1, <1>3, <1>4, <2>1, <2>3, N_Other
  <2>5. Located(u)' BY <1>3, <2>1, <2>2, <2>3, <2>4 DEF Located
  <2> QED BY <1>4, <1>5, <2>5 DEF Inv
<1> QED BY <1>4, <1>5, <1>6, <1>7 DEF Inv

\* A scan reads no row twice, and at its end it has them all
LEMMA ScansRight ==
  ASSUME Inv PROVE ScanComplete /\ ProbesNearest
<1> USE Basics
<1>1. Sound /\ Placed BY DEF Inv
<1>2. PICK o \in [Blocks -> Lists] : Located(o) BY DEF Inv
<1>3. Owned(o) /\ \A p \in Scanners : ScanReady(o, p) BY <1>2 DEF Located
<1>4. MaxProbes \in Nat /\ MaxProbes \in 1..MaxProbes BY ProbesBounds
<1>5. ASSUME NEW p \in Scanners, pc[p] # "idle"
      PROVE  /\ scan[p] \in ScanType /\ scan[p].dist \in [Lists -> Nat]
             /\ scan[p].lists = GetScanLists(scan[p].dist)
             /\ Ranked(scan[p].dist, scan[p].lists, MaxProbes)
  <2>1. scan[p] \in ScanType /\ scan[p].lists = GetScanLists(scan[p].dist)
    BY <1>3, <1>5 DEF ScanReady
  <2>2. scan[p].dist \in [Lists -> Nat] BY <2>1, ConstantsAssumption DEF ScanType
  <2> QED BY <2>1, <2>2, NearestLists
<1>6. ASSUME NEW p \in Scanners, pc[p] = "page"
      PROVE  page[scan[p].cur].tids \cap (scan[p].buf \cup scan[p].ret) = {}
  <2> SUFFICES ASSUME NEW t \in Got(p), t \in page[scan[p].cur].tids PROVE FALSE BY DEF Got
  <2> DEFINE c == scan[p].cur
             i == scan[p].index
             f == scan[p].lists
  <2>1. i \in 1..MaxProbes /\ c \in 1..nblocks /\ o[c] = f[i] BY <1>3, <1>6 DEF ScanReady
  <2>2. c \in Blocks
    <3>1. nblocks \in Blocks BY <1>1 DEF Sound, TypeOK
    <3> HIDE DEF c
    <3> QED BY <2>1, <3>1 DEF Blocks
  <2>3. Passed(o, p, c) BY <1>3, <1>6, <2>2 DEF ScanReady, On
  <2>4. ~(c < c) /\ i \in Nat BY <1>4, <2>1
  <2>5. PICK j \in 1..MaxProbes : f[j] = f[i] /\ j < i BY <1>6, <2>1, <2>3, <2>4 DEF Passed, Through
  <2> QED BY <1>5, <1>6, <2>1, <2>5 DEF Ranked
<1>7. ASSUME NEW p \in Scanners, pc[p] = "end", NEW t \in scan[p].live, heap[t] = "live",
             NEW i \in 1..MaxProbes, scan[p].lists[i] = ListOf(t)
      PROVE  t \in scan[p].ret
  <2>1. t \in Indexed BY <1>5, <1>7 DEF ScanType
  <2>2. PICK b \in Blocks : On(t, b) BY <1>1, <1>7, <2>1 DEF Placed, TupleOnce
  <2>3. o[b] = scan[p].lists[i] BY <1>3, <1>7, <2>2 DEF On, Owned, Apart
  <2>4. scan[p].index = MaxProbes /\ scan[p].buf = {} BY <1>3, <1>7 DEF ScanReady
  <2>5. i < MaxProbes \/ i = MaxProbes BY <1>4
  <2>6. Passed(o, p, b) BY <1>7, <2>3, <2>4, <2>5 DEF Passed, Through
  <2>7. t \in Got(p) BY <1>3, <1>7, <2>2, <2>6 DEF ScanReady
  <2> QED BY <2>4, <2>7 DEF Got
<1>8. ScanComplete BY <1>6, <1>7 DEF ScanComplete
<1>9. ASSUME NEW p \in Scanners, pc[p] # "idle"
      PROVE  LET f == scan[p].lists
                 d == scan[p].dist
             IN /\ \A i, j \in 1..MaxProbes : i < j => d[f[i]] <= d[f[j]]
                /\ \A l \in Lists : (\A i \in 1..MaxProbes : f[i] # l) => d[f[MaxProbes]] <= d[l]
  BY <1>4, <1>5, <1>9, NearestLists DEF Ranked
<1>10. ProbesNearest BY <1>9 DEF ProbesNearest
<1> QED BY <1>8, <1>10

\* The invariant is one of the specification
LEMMA InvHolds == Spec => []Inv
<1>1. Init => Inv BY I_Init
<1>2. Inv /\ [Next]_vars => Inv' BY I_Next
<1> QED BY <1>1, <1>2, PTL DEF Spec

\* InsertTuple, VACUUM: a committed row is on exactly one page of its list's
\* chain, whatever pages concurrent inserts append to it and wherever VACUUM
\* moves the insert page, and a TID the heap may reuse is on no page
THEOREM RowsPlaced == Spec => []TidPlaced
<1>1. Inv => TidPlaced BY PlacedOnce DEF Inv, Located
<1> QED BY <1>1, InvHolds, PTL

\* GetScanItems: a scan that is read to its end has returned every row of the
\* lists it probed that was there throughout, and it reads no row twice,
\* although inserts put tuples on the pages it has read and will read
THEOREM ScansComplete == Spec => []ScanComplete
<1>1. Inv => ScanComplete BY ScansRight
<1> QED BY <1>1, InvHolds, PTL

\* GetScanLists: the lists a scan probes are the nearest ones, nearest first
THEOREM NearestProbed == Spec => []ProbesNearest
<1>1. Inv => ProbesNearest BY ScansRight
<1> QED BY <1>1, InvHolds, PTL
=============================================================================
