--------------------------- MODULE TqGraphProofs ---------------------------
(***************************************************************************)
(* Inv of TqGraphInvariant is kept by inserts and VACUUM and holds of the  *)
(* index that CREATE INDEX leaves, so it holds always, and with it the     *)
(* invariants of TqGraph.                                                  *)
(***************************************************************************)
EXTENDS TqGraphInvariant

-----------------------------------------------------------------------------
(* Inserts                                                                 *)

LEMMA InsertIs ==
  ASSUME Typed, Turns, NEW cs, NEW ads, Good(cs, ads), NEW b \in Backends, Inserting(b)
  PROVE  /\ op[b] \in InsertOp /\ op[b].tid \in Tids /\ op[b].meta \in MetaType
         /\ op[b].meta.count = meta.count /\ op[b].meta.entry = meta.entry
         /\ op[b].meta.maxLevel = meta.maxLevel
         /\ meta.count \in NodeIds /\ meta.count \in Nat /\ NodeLevel[meta.count] \in Nat
         /\ op[b].sel \in [0..NodeLevel[meta.count] -> SUBSET Nat]
         /\ DOMAIN op[b].sel = 0..NodeLevel[meta.count]
         /\ op[b].loc \in Seq(Nat \X Nat) /\ op[b].todo \subseteq Nat \X Nat
         /\ \A a \in Backends : a # b => ~Inserting(a)
         /\ meta.count < rows
<1>1. op[b] \in InsertOp BY KindsOf
<1>2. op[b].tid \in Tids /\ op[b].meta \in MetaType /\ op[b].loc \in Seq(Nat \X Nat) /\ op[b].todo \subseteq Nat \X Nat
      /\ op[b].sel \in [0..NodeLevel[meta.count] -> SUBSET Nat]
  BY <1>1 DEF InsertOp
<1>3. op[b].meta.count = meta.count /\ op[b].meta.entry = meta.entry /\ op[b].meta.maxLevel = meta.maxLevel
  <2>1. PICK g, m : g = meta.gen /\ m = op[b].meta OBVIOUS
  <2>2. meta = [m EXCEPT !.gen = g] BY <2>1 DEF Good, InsertOk
  <2> QED BY <1>2, <2>1, <2>2 DEF MetaType
<1>4. meta.count \in Nat /\ rows \in Nat /\ bounds.new \in Nat BY DEF Typed, MetaType, Counters
<1>5. meta.count < rows /\ rows <= NBuilt + bounds.new /\ bounds.new <= MaxNew BY DEF Turns
<1>6. meta.count \in NodeIds
  <2>1. NBuilt \in Nat /\ MaxNew \in Nat /\ MaxRows = NBuilt + MaxNew /\ NodeIds = 0..(MaxRows - 1) BY Basics
  <2>2. meta.count \in 0..(MaxRows - 1) BY <1>4, <1>5, <2>1
  <2> QED BY <2>1, <2>2
<1>7. NodeLevel[meta.count] \in Nat BY <1>6, Basics
<1>8. \A a \in Backends : a # b => ~Inserting(a) BY DEF Turns
<1> QED BY <1>1, <1>2, <1>3, <1>4, <1>5, <1>6, <1>7, <1>8

LEMMA NearestIs ==
  ASSUME NEW S, IsFiniteSet(S), NEW n \in Nat, NEW T \in Nearest(S, n)
  PROVE  T \subseteq S /\ IsFiniteSet(T) /\ Cardinality(T) \in Nat /\ Cardinality(T) <= n
<1>1. T \subseteq S /\ Cardinality(T) = IF Cardinality(S) < n THEN Cardinality(S) ELSE n BY DEF Nearest
<1>2. IsFiniteSet(T) /\ Cardinality(T) \in Nat BY <1>1, FS_Subset, FS_CardinalityType
<1>3. Cardinality(S) \in Nat BY FS_CardinalityType
<1> QED BY <1>1, <1>2, <1>3

LEMMA SelectKeeps ==
  ASSUME Inv, NEW b \in Backends, Select(b)
  PROVE  Inv'
<1>1. PICK cs, ads : Good(cs, ads) BY DEF Inv
<1>2. Typed /\ Turns BY DEF Inv
<1>c. PICK c, i, N : c = cache[b] /\ i = op[b] /\ N = meta.count OBVIOUS
<1>3. /\ pc[b] = "select"
      /\ page' = page /\ meta' = meta /\ heap' = heap /\ rows' = rows /\ cache' = cache /\ vac' = vac
      /\ bounds' = bounds
  BY DEF Select
<1>4. PICK sel \in [DOMAIN i.sel -> SUBSET Traverse(c)] :
        /\ \A l \in DOMAIN sel : sel[l] \in Nearest(Eligible(c, l), LevelM(l))
        /\ LET todo == {x \in (DOMAIN sel) \X NodeIds : x[2] \in sel[x[1]]}
           IN /\ op' = [op EXCEPT ![b].sel = sel, ![b].todo = todo]
              /\ Goto(b, IF todo = {} THEN "code" ELSE "link")
  BY <1>c DEF Select
<1>t. PICK todo : todo = {x \in (DOMAIN sel) \X NodeIds : x[2] \in sel[x[1]]} OBVIOUS
<1>l. PICK label : label = IF todo = {} THEN "code" ELSE "link" OBVIOUS
<1>x. PICK x : x = [i EXCEPT !.sel = sel, !.todo = todo] OBVIOUS
<1>5. op' = [op EXCEPT ![b] = x] /\ pc' = [pc EXCEPT ![b] = label]
  <2>1. op' = [op EXCEPT ![b].sel = sel, ![b].todo = todo] /\ pc' = [pc EXCEPT ![b] = label]
    BY <1>4, <1>t, <1>l DEF Goto
  <2>2. op = [a \in Backends |-> op[a]] BY <1>2 DEF Typed
  <2> QED BY <2>1, <2>2, <1>c, <1>x
<1>6. /\ Inserting(b) /\ c # NoCache /\ CacheOk(cs, ads, b) /\ N # 0 /\ c \in CacheType(c.key) /\ c.key = i.meta
  BY <1>1, <1>2, <1>3, <1>c, HasCache
<1>7. /\ i \in InsertOp /\ i.tid \in Tids /\ i.meta.count = N /\ N \in NodeIds /\ N \in Nat /\ NodeLevel[N] \in Nat
      /\ DOMAIN i.sel = 0..NodeLevel[N]
  BY <1>1, <1>2, <1>6, <1>c, InsertIs
<1>8. DOMAIN c.nodes = 0..(N - 1) BY <1>6, <1>7 DEF CacheType
<1>9. Traverse(c) \subseteq 0..(N - 1) /\ \A l : Eligible(c, l) \subseteq Traverse(c) BY <1>8 DEF Traverse, Eligible
<1>10. \A l : IsFiniteSet(Eligible(c, l))
  <2>1. IsFiniteSet(0..(N - 1)) BY <1>7, FS_Interval
  <2> QED BY <1>9, <2>1, FS_Subset
<1>11. /\ DOMAIN sel = 0..NodeLevel[N]
       /\ \A l \in 0..NodeLevel[N] : sel[l] \subseteq Traverse(c) /\ Cardinality(sel[l]) <= LevelM(l)
       /\ \A l \in 0..NodeLevel[N] : \A n \in sel[l] : n \in 0..(N - 1) /\ n < N /\ NodeLevel[n] >= l
  <2>1. DOMAIN sel = 0..NodeLevel[N] BY <1>4, <1>7
  <2>2. ASSUME NEW l \in 0..NodeLevel[N]
        PROVE  /\ sel[l] \subseteq Traverse(c) /\ Cardinality(sel[l]) <= LevelM(l)
               /\ \A n \in sel[l] : n \in 0..(N - 1) /\ n < N /\ NodeLevel[n] >= l
    <3>1. sel[l] \in Nearest(Eligible(c, l), LevelM(l)) BY <1>4, <2>1
    <3>2. sel[l] \subseteq Eligible(c, l) /\ Cardinality(sel[l]) <= LevelM(l) BY <1>10, <3>1, LevelMIs, NearestIs
    <3> QED BY <1>7, <1>9, <3>2 DEF Eligible
  <2> QED BY <2>1, <2>2
<1>12. todo \subseteq Nat \X Nat /\ \A y \in todo : y[1] \in 0..NodeLevel[N] /\ y[2] \in sel[y[1]]
  <2>1. NodeIds \subseteq Nat BY Basics
  <2> QED BY <1>7, <1>11, <1>t, <2>1
<1>13. x \in InsertOp
  <2>1. sel \in [0..NodeLevel[N] -> SUBSET Nat]
    <3>1. \A l \in 0..NodeLevel[N] : sel[l] \in SUBSET Nat BY <1>9, <1>11
    <3> QED BY <1>4, <1>11, <3>1
  <2> QED BY <1>7, <1>12, <1>c, <1>x, <2>1 DEF InsertOp
<1>14. /\ x.kind = i.kind /\ x.tid = i.tid /\ x.meta = i.meta /\ x.codeStart = i.codeStart /\ x.adjStart = i.adjStart
       /\ x.loc = i.loc /\ x.sel = sel /\ x.todo = todo
  BY <1>7, <1>x DEF InsertOp
<1>15. Rests
  <2>1. bounds \in Counters BY <1>2 DEF Typed
  <2> QED BY <1>3, <2>1 DEF Rests
<1>16. Sets(b, c, x, label)
  <2>1. cache' = [cache EXCEPT ![b] = cache[b]] BY <1>2, <1>3, SelfMoves
  <2> QED BY <1>5, <1>c, <2>1 DEF Sets
<1>17. Own(b) /\ Light(b) /\ cache'[b] = c /\ op'[b] = x /\ pc'[b] = label BY <1>2, <1>15, <1>16, OwnMoves
<1>18. OpTyped(b)'
  <2>1. InsertOp' = InsertOp BY <1>3 DEF InsertOp
  <2>2. label \in InsertPcs BY <1>l DEF InsertPcs
  <2>3. x \in InsertOp' BY <1>13, <2>1
  <2> QED BY <1>17, <2>2, <2>3 DEF OpTyped
<1>19. CacheTyped(b)'
  <2>1. CacheTyped(b) BY <1>2 DEF Typed
  <2> QED BY <1>17, <1>c, <2>1 DEF CacheTyped
<1>20. /\ ~Writing(b) /\ ~Writing(b)' /\ Inserting(b)' /\ (UsesCache(b)' <=> UsesCache(b)) /\ ~Scanning(b)'
       /\ label \in {"code", "link"}
  BY <1>3, <1>6, <1>14, <1>17, <1>c, <1>l DEF Writing, Inserting, UsesCache, Scanning
<1>21. InsertOk(cs, ads, b)'
  <2>1. /\ heap[i.tid].state = "inserting" /\ heap[i.tid].indexed
        /\ meta = [i.meta EXCEPT !.gen = meta.gen]
        /\ i.codeStart = Start(cs) /\ i.adjStart = Start(ads)
        /\ i.loc = <<>>
        /\ UsesCache(b) => c # NoCache /\ c.key = i.meta
    BY <1>1, <1>6, <1>20, <1>c DEF Good, InsertOk
  <2>2. Len(<<>>) = 0 /\ 0 <= NodeLevel[N] + 1 /\ \A l \in 1..0 : FALSE BY <1>7
  <2>3. label = "link" => todo # {} BY <1>l
  <2>4. label # "adj" /\ label # "meta" BY <1>20
  <2> QED BY <1>3, <1>6, <1>11, <1>12, <1>14, <1>17, <1>20, <1>c, <2>1, <2>2, <2>3, <2>4 DEF InsertOk
<1>22. ScanOk(b)' BY <1>14, <1>17, <1>6, <1>c DEF ScanOk, Inserting
<1>23. CacheOk(cs, ads, b)'
  <2>1. Ready(cs, c, "select") BY <1>3, <1>6, <1>c DEF CacheOk
  <2>2. Ready(cs, c, label) BY <1>20, <2>1, ReadyAlike
  <2> QED BY <1>1, <1>2, <1>17, <1>20, <1>c, <2>2, SameCache
<1> QED BY <1>1, <1>2, <1>6, <1>17, <1>18, <1>19, <1>20, <1>21, <1>22, <1>23, BackendStep

\* The roots, when no insert is between its pages and the metapage
LEMMA StartsAre ==
  ASSUME Typed, NEW cs, NEW ads, Good(cs, ads), \A b \in Backends : ~Writing(b)
  PROVE  meta.codeStart = Start(cs) /\ meta.adjStart = Start(ads)
<1>1. Chained(page, cs, ads) /\ Placed(cs, ads) /\ page \in Seq(PageType) /\ meta.count \in Nat
  BY DEF Good, Typed, MetaType
<1>2. SUFFICES ASSUME meta.count = 0 PROVE cs = <<>> /\ ads = <<>>
  BY <1>1 DEF Placed, Start
<1>3. cs = <<>>
  <2> SUFFICES ASSUME cs # <<>> PROVE FALSE OBVIOUS
  <2>1. Total(page, cs) = 0 BY <1>1, <1>2 DEF Placed
  <2>2. cs \in Seq(1..Len(page)) BY <1>1 DEF Chained, IsChain
  <2>3. Len(cs) \in 1..Len(cs) BY <2>2
  <2>4. cs[Len(cs)] \in 1..Len(page) BY <2>2, <2>3, ElementOfSeq
  <2>5. page[cs[Len(cs)]].kind = "code" BY <1>1, <2>3, <2>4 DEF Chained, IsChain
  <2>6. Len(page[cs[Len(cs)]].tup) \in Nat /\ Len(page[cs[Len(cs)]].tup) # 0
    BY <1>1, <2>4, <2>5, Basics DEF Chained, Sized, Cap
  <2>7. (Len(cs) - 1) * CodeCap \in Nat
    <3>1. Len(cs) - 1 \in Nat /\ CodeCap \in Nat BY <2>3, Basics
    <3> QED BY <3>1
  <2> QED BY <2>1, <2>6, <2>7 DEF Total
<1>4. ads = <<>>
  <2> SUFFICES ASSUME ads # <<>> PROVE FALSE OBVIOUS
  <2>2. ads \in Seq(1..Len(page)) BY <1>1 DEF Chained, IsChain
  <2>3. 1 \in 1..Len(ads) BY <2>2
  <2>b. PICK b : b = ads[1] OBVIOUS
  <2>4. b \in 1..Len(page) BY <2>2, <2>3, <2>b, ElementOfSeq
  <2>5. page[b].kind = "adj" BY <1>1, <2>3, <2>4, <2>b DEF Chained, IsChain
  <2>6. 1 \in 1..Len(page[b].tup) BY <1>1, <2>4, <2>5, Basics DEF Chained, Sized, Cap
  <2>7. <<b, 1>> \in AdjSpots BY <2>4, <2>5, <2>6 DEF AdjSpots, Spots
  <2>p. PICK n, l : n = At(page, <<b, 1>>).node /\ l = At(page, <<b, 1>>).level OBVIOUS
  <2>8. n \in Nat /\ l \in Nat BY <2>7, <2>p, AdjSpotIs
  <2>9. AdjOf(n, l) \/ AdjNew(n, l) BY <1>1, <2>7, <2>8, <2>p DEF Placed
  <2> QED BY <1>2, <2>8, <2>9 DEF AdjOf, AdjNew
<1> QED BY <1>3, <1>4

LEMMA BeginInsertKeeps ==
  ASSUME Inv, FewVacuums, NEW b \in Backends, NEW t \in Tids, BeginInsert(b, t)
  PROVE  Inv'
<1>1. PICK cs, ads : Good(cs, ads) BY DEF Inv
<1>2. Typed /\ Turns BY DEF Inv
<1>i. PICK i : i = [kind |-> "insert", tid |-> t, meta |-> meta, todo |-> {},
                    sel |-> [l \in 0..NodeLevel[meta.count] |-> {}], loc |-> <<>>,
                    codeStart |-> meta.codeStart, adjStart |-> meta.adjStart] OBVIOUS
<1>r. PICK r : r = Row(rows + 1, "inserting", TRUE) OBVIOUS
<1>3. /\ pc[b] = "idle" /\ UpdateLockFree /\ heap[t].state = "free" /\ bounds.new < MaxNew
      /\ rows' = rows + 1 /\ heap' = [heap EXCEPT ![t] = r]
      /\ bounds' = [bounds EXCEPT !.new = bounds.new + 1]
      /\ op' = [op EXCEPT ![b] = i]
      /\ page' = page /\ meta' = meta /\ vac' = vac
  BY <1>i, <1>r DEF BeginInsert, NewRow
<1>4. \E y, z : Sets(b, y, i, z)
  <2>1. \E y : cache' = [cache EXCEPT ![b] = y]
    <3>1. cache = [cache EXCEPT ![b] = cache[b]] BY <1>2, SelfMoves
    <3> QED BY <3>1 DEF BeginInsert, InitStorage
  <2>2. \E z : pc' = [pc EXCEPT ![b] = z] BY DEF BeginInsert, InitStorage, Goto
  <2> QED BY <1>3, <2>1, <2>2 DEF Sets
<1>5. Touches(b) /\ Alone(b) /\ op'[b] = i
  <2>1. PICK y, z : Sets(b, y, i, z) BY <1>4
  <2>2. cache' = [cache EXCEPT ![b] = y] /\ op' = [op EXCEPT ![b] = i] /\ pc' = [pc EXCEPT ![b] = z]
    BY <2>1 DEF Sets
  <2> QED BY <1>2, <2>2, OneMoves
<1>6. /\ meta \in MetaType /\ meta.count \in Nat /\ rows \in Nat /\ heap \in [Tids -> HeapType] /\ bounds \in Counters
      /\ page \in Seq(PageType)
  BY <1>2 DEF Typed, MetaType
<1>7. /\ i.kind = "insert" /\ i.tid = t /\ i.meta = meta /\ i.todo = {} /\ i.loc = <<>>
      /\ i.codeStart = meta.codeStart /\ i.adjStart = meta.adjStart
      /\ \A l \in 0..NodeLevel[meta.count] : i.sel[l] = {}
  BY <1>i
<1>8. r.row = rows + 1 /\ r.state = "inserting" /\ r.indexed = TRUE /\ r \in HeapType
  BY <1>6, <1>r DEF Row, HeapType
<1>9. heap' \in [Tids -> HeapType] /\ heap'[t] = r /\ \A u \in Tids : u # t => heap'[u] = heap[u]
  BY <1>3, <1>6, <1>8
<1>10. /\ bounds' \in Counters /\ bounds'.new = bounds.new + 1 /\ bounds'.vacuums = bounds.vacuums
       /\ bounds.new \in Nat
  BY ONLY <1>3, <1>6 DEF Counters
<1>11. \A a \in Backends : ~Inserting(a) BY <1>3 DEF UpdateLockFree
<1>12. \A a \in Backends : ~Writing(a) BY <1>2, <1>11, KindsOf DEF Writing
<1>13. Light(b)
  <2>1. \A u \in Tids : heap[u].state = "dead" => heap'[u] = heap[u] BY <1>3, <1>9
  <2>2. \A u \in Tids : heap[u].state = "live" => heap'[u].row = heap[u].row /\ heap'[u].state \in {"live", "dead"}
    BY <1>3, <1>9
  <2>3. pc'[Vacuum] = pc[Vacuum] BY <1>5 DEF Touches
  <2> QED BY <1>3, <1>5, <1>10, <1>11, <2>1, <2>2, <2>3 DEF Light
<1>14. /\ CacheOk(cs, ads, b)' /\ CacheTyped(b)'
       /\ meta.count # 0 => cache'[b] # NoCache /\ cache'[b].key = meta /\ pc'[b] \in {"loadCode", "select"}
       /\ meta.count = 0 => pc'[b] = "code"
       /\ cache' = [cache EXCEPT ![b] = cache'[b]] /\ pc' = [pc EXCEPT ![b] = pc'[b]]
  <2>1. CASE meta.count = 0
    <3>1. pc' = [pc EXCEPT ![b] = "code"] /\ cache' = cache BY <2>1 DEF BeginInsert, Goto
    <3>2. pc'[b] = "code" BY <1>2, <3>1 DEF Typed
    <3>3. CacheOk(cs, ads, b) BY <1>1 DEF Good
    <3>4. cache[b] # NoCache => Ready(cs, cache[b], "idle") BY <1>3, <3>3 DEF CacheOk
    <3>5. cache[b] # NoCache => Ready(cs, cache[b], "code") BY <3>4, ReadyAlike
    <3>6. ~UsesCache(b)' BY <1>5, <1>7, <2>1 DEF UsesCache
    <3>7. CacheOk(cs, ads, b)' BY <1>1, <1>2, <1>13, <3>1, <3>2, <3>5, <3>6, SameCache
    <3>8. CacheTyped(b)'
      <4>1. CacheTyped(b) BY <1>2 DEF Typed
      <4> QED BY <3>1, <4>1 DEF CacheTyped
    <3>9. cache' = [cache EXCEPT ![b] = cache'[b]] BY <1>2, <3>1, SelfMoves
    <3> QED BY <2>1, <3>1, <3>2, <3>7, <3>8, <3>9
  <2>2. CASE meta.count # 0
    <3>1. InitStorage(b, meta, "select") BY <2>2 DEF BeginInsert
    <3>2. "select" \in {"select", "collect"} OBVIOUS
    <3> QED BY <1>1, <1>2, <1>13, <2>2, <3>1, <3>2, StorageReady
  <2> QED BY <2>1, <2>2
<1>15. ~Writing(b)' /\ Inserting(b)' /\ pc'[b] # "link" BY <1>5, <1>7, <1>14 DEF Writing, Inserting
<1>16. Typed'
  <2>1. i \in InsertOp
    <3>1. meta.codeStart \in Nat /\ meta.adjStart \in Nat BY <1>6 DEF MetaType
    <3>2. [l \in 0..NodeLevel[meta.count] |-> {}] \in [0..NodeLevel[meta.count] -> SUBSET Nat] OBVIOUS
    <3>3. <<>> \in Seq(Nat \X Nat) OBVIOUS
    <3> QED BY <1>6, <1>i, <3>1, <3>2, <3>3 DEF InsertOp
  <2>2. i \in InsertOp'
    <3>1. InsertOp' = InsertOp BY <1>3 DEF InsertOp
    <3> QED BY <2>1, <3>1
  <2>3. pc'[b] \in InsertPcs BY <1>14 DEF InsertPcs
  <2>4. OpTyped(b)' BY <1>5, <2>2, <2>3 DEF OpTyped
  <2>5. /\ page' \in Seq(PageType) /\ meta' \in MetaType /\ rows' \in Nat /\ meta'.count = meta.count BY <1>3, <1>6
  <2>6. (\E x : cache' = [cache EXCEPT ![b] = x]) /\ (\E x : op' = [op EXCEPT ![b] = x])
        /\ \E x : pc' = [pc EXCEPT ![b] = x] BY <1>3, <1>14
  <2> QED BY <1>2, <1>3, <1>5, <1>9, <1>10, <1>14, <2>4, <2>5, <2>6, TypedStep
<1>17. Turns'
  <2>1. \A a \in Backends : Inserting(a)' => a = b BY <1>5, <1>11 DEF Alone, Unmoved, Inserting
  <2>2. Marking' = Marking /\ pc'[Vacuum] = pc[Vacuum] BY <1>5 DEF Touches, Marking
  <2>3. \A a \in Backends : Scanning(a)' => Scanning(a)
    <3> SUFFICES ASSUME NEW a \in Backends, Scanning(a)' PROVE Scanning(a) OBVIOUS
    <3>1. a # b BY <1>5, <1>7 DEF Scanning
    <3> QED BY <1>5, <3>1 DEF Alone, Unmoved, Scanning
  <2>4. meta.count <= rows /\ rows <= NBuilt + bounds.new BY <1>2 DEF Turns
  <2>5. NBuilt \in Nat /\ MaxNew \in Nat BY Basics
  <2>6. meta'.count <= rows' /\ rows' <= NBuilt + bounds'.new /\ bounds'.new <= MaxNew /\ meta'.count < rows'
    BY <1>3, <1>6, <1>10, <2>4, <2>5
  <2> QED BY <1>2, <1>10, <2>1, <2>2, <2>3, <2>6 DEF Turns
<1>18. WritesAlike
  <2> SUFFICES ASSUME NEW a \in Backends PROVE (Writing(a)' <=> Writing(a)) /\ (Writing(a) => op'[a].loc = op[a].loc)
    BY DEF WritesAlike
  <2>1. CASE a = b BY <1>12, <1>15, <2>1
  <2>2. CASE a # b BY <1>5, <2>2 DEF Alone, Unmoved, Writing
  <2> QED BY <2>1, <2>2
<1>19. HeapOk'
  <2>1. HeapOk BY <1>1 DEF Good
  <2>2. \A u \in Tids : heap'[u].row <= rows'
    <3>1. \A u \in Tids : heap[u].row <= rows /\ heap[u].row \in Nat BY <1>6, <2>1 DEF HeapOk, HeapType
    <3> QED BY <1>3, <1>6, <1>8, <1>9, <3>1
  <2>3. ASSUME NEW p \in CodeSpots, ~At(page, p).dead
        PROVE  heap'[At(page, p).tid].row = At(page, p).row /\ heap'[At(page, p).tid].state # "free"
    <3>1. heap[At(page, p).tid].row = At(page, p).row /\ heap[At(page, p).tid].state # "free"
      BY <2>1, <2>3 DEF HeapOk
    <3>2. At(page, p).tid \in Tids
      <4>1. "code" \in Kinds BY DEF Kinds
      <4>2. At(page, p) \in CodeType BY <1>6, <4>1, SpotTyped DEF CodeSpots, TupleType
      <4> QED BY <4>2 DEF CodeType
    <3> QED BY <1>3, <1>9, <3>1, <3>2
  <2>4. ASSUME NEW u \in Tids, heap'[u].state = "live", heap'[u].indexed PROVE HasNode(u, heap'[u].row, meta.count)
    <3>1. u # t BY <1>8, <1>9, <2>4
    <3> QED BY <1>9, <2>1, <2>4, <3>1 DEF HeapOk
  <2> QED BY <1>3, <2>2, <2>3, <2>4 DEF HeapOk, HasNode, CodeSpots
<1>20. InsertOk(cs, ads, b)'
  <2>1. i.codeStart = Start(cs) /\ i.adjStart = Start(ads) BY <1>1, <1>2, <1>7, <1>12, StartsAre
  <2>2. meta = [meta EXCEPT !.gen = meta.gen] BY <1>6 DEF MetaType
  <2>3. \A l \in 0..NodeLevel[meta.count] :
          /\ Cardinality(i.sel[l]) <= LevelM(l)
          /\ \A n \in i.sel[l] : n < meta.count /\ NodeLevel[n] >= l
    <3>1. Cardinality({}) = 0 BY FS_EmptySet
    <3>2. \A l : 0 <= LevelM(l) BY LevelMIs
    <3> QED BY <1>7, <3>1, <3>2
  <2>4. meta.count \in NodeIds /\ NodeLevel[meta.count] \in Nat
    <3>1. meta.count <= rows /\ rows <= NBuilt + bounds.new BY <1>2 DEF Turns
    <3>2. NBuilt \in Nat /\ MaxNew \in Nat /\ MaxRows = NBuilt + MaxNew /\ NodeIds = 0..(MaxRows - 1) BY Basics
    <3>3. meta.count \in 0..(MaxRows - 1) BY <1>3, <1>6, <1>10, <3>1, <3>2
    <3> QED BY <3>2, <3>3, Basics
  <2>5. Len(<<>>) = 0 /\ 0 <= NodeLevel[meta.count] + 1 /\ \A l \in 1..0 : FALSE BY <2>4
  <2>6. UsesCache(b)' => cache'[b] # NoCache /\ cache'[b].key = i.meta BY <1>5, <1>7, <1>14 DEF UsesCache
  <2>7. heap'[t].state = "inserting" /\ heap'[t].indexed BY <1>8, <1>9
  <2>8. pc'[b] # "adj" /\ pc'[b] # "meta" BY <1>15 DEF Writing
  <2>9. meta.count = 0 => pc'[b] \in {"code", "adj", "meta"} BY <1>14
  <2> QED BY <1>3, <1>5, <1>7, <1>15, <2>1, <2>2, <2>3, <2>5, <2>6, <2>7, <2>8, <2>9 DEF InsertOk
<1>21. ScanOk(b)' BY <1>5, <1>7 DEF ScanOk
<1>22. Good(cs, ads)' BY <1>1, <1>2, <1>13, <1>14, <1>18, <1>19, <1>20, <1>21, LightStep
<1> QED BY <1>16, <1>17, <1>22 DEF Inv

\* A list on a page is replaced
Relinked(P, p, S) == [P EXCEPT ![p[1]].tup[p[2]].nbrs = S]
LEMMA LinkedPage ==
  ASSUME NEW P \in Seq(PageType), NEW p \in Spots(P, "adj"), NEW S \in SUBSET Nat, NEW Q, Q = Relinked(P, p, S)
  PROVE  /\ Edits(P, Q) /\ At(Q, p) = [node |-> At(P, p).node, level |-> At(P, p).level, nbrs |-> S]
         /\ \A k : \A q \in Spots(P, k) : q # p => At(Q, q) = At(P, q)
<1>b. PICK b, i : b = p[1] /\ i = p[2] OBVIOUS
<1>g. PICK g : g = P[b] OBVIOUS
<1>1. b \in 1..Len(P) /\ g.kind = "adj" /\ i \in 1..Len(g.tup) /\ p = <<b, i>> /\ i \in Nat /\ b \in Nat
  BY <1>b, <1>g DEF Spots
<1>2. g \in PageType BY <1>1, <1>g, ElementOfSeq
<1>t. PICK tup : tup = g.tup OBVIOUS
<1>3. tup \in Seq(AdjType) /\ g.next \in Nat BY <1>1, <1>2, <1>t, PageIs DEF TupleType
<1>4. tup[i] \in AdjType BY <1>1, <1>3, <1>t, ElementOfSeq
<1>x. PICK x : x = [node |-> tup[i].node, level |-> tup[i].level, nbrs |-> S] OBVIOUS
<1>5. x \in AdjType /\ x = [tup[i] EXCEPT !.nbrs = S] BY <1>4, <1>x DEF AdjType
<1>6. /\ [tup EXCEPT ![i] = x] \in Seq(AdjType) /\ Len([tup EXCEPT ![i] = x]) = Len(tup)
      /\ \A j \in 1..Len(tup) : [tup EXCEPT ![i] = x][j] = IF j = i THEN x ELSE tup[j]
  BY ONLY <1>1, <1>3, <1>5, <1>t, ExceptSeq
<1>u. PICK new : new = [tup EXCEPT ![i] = x] OBVIOUS
<1>h. PICK h : h = [kind |-> "adj", next |-> g.next, tup |-> new] OBVIOUS
<1>7. h \in PageType /\ h.kind = "adj" /\ h.next = g.next /\ h.tup = new
  <2>1. "adj" \in Kinds /\ new \in Seq(TupleType("adj")) BY <1>6, <1>u DEF Kinds, TupleType
  <2> QED BY <1>3, <1>h, <2>1, PageMade
<1>8. Q = [P EXCEPT ![b] = h]
  <2>1. g = [kind |-> g.kind, next |-> g.next, tup |-> g.tup] BY <1>2 DEF PageType
  <2>2. h = [g EXCEPT !.tup = new] BY <1>1, <1>h, <2>1
  <2>3. Q = [P EXCEPT ![b].tup[i].nbrs = S] BY <1>b DEF Relinked
  <2>4. [P EXCEPT ![b].tup[i].nbrs = S] = [P EXCEPT ![b] = [g EXCEPT !.tup = [tup EXCEPT ![i] = [tup[i] EXCEPT !.nbrs = S]]]]
    BY <1>g, <1>t
  <2> QED BY <1>5, <1>u, <2>2, <2>3, <2>4
<1>9. /\ Q \in Seq(PageType) /\ Len(Q) = Len(P) /\ \A j \in 1..Len(P) : Q[j] = IF j = b THEN h ELSE P[j]
  <2>1. /\ [P EXCEPT ![b] = h] \in Seq(PageType) /\ Len([P EXCEPT ![b] = h]) = Len(P)
        /\ \A j \in 1..Len(P) : [P EXCEPT ![b] = h][j] = IF j = b THEN h ELSE P[j]
    BY ONLY P \in Seq(PageType), <1>1, <1>7, ExceptSeq
  <2> QED BY ONLY <1>8, <2>1
<1>10. \A j \in 1..Len(P) : Q[j].kind = P[j].kind /\ Q[j].next = P[j].next /\ Len(Q[j].tup) = Len(P[j].tup)
  BY <1>1, <1>6, <1>7, <1>9, <1>g, <1>t, <1>u
<1>11. At(Q, p) = x
  <2>1. Q[b] = h BY <1>1, <1>9
  <2>2. h.tup = new /\ new[i] = x BY <1>1, <1>6, <1>7, <1>t, <1>u
  <2> QED BY <1>b, <2>1, <2>2 DEF At
<1>12. ASSUME NEW k, NEW q \in Spots(P, k), q # p PROVE At(Q, q) = At(P, q)
  <2>1. q = <<q[1], q[2]>> /\ q[1] \in 1..Len(P) /\ q[2] \in 1..Len(P[q[1]].tup) BY DEF Spots
  <2>2. CASE q[1] = b
    <3>1. q[2] # i BY <1>1, <1>12, <2>1, <2>2
    <3> QED BY <1>6, <1>7, <1>9, <1>g, <1>t, <1>u, <2>1, <2>2, <3>1 DEF At
  <2>3. CASE q[1] # b BY <1>9, <2>1, <2>3 DEF At
  <2> QED BY <2>2, <2>3
<1>13. At(P, p) = tup[i] BY <1>b, <1>g, <1>t DEF At
<1>14. p \notin Spots(P, "code") BY <1>1, <1>b, <1>g DEF Spots
<1>15. \A q \in Spots(P, "code") : SameCode(At(P, q), At(Q, q)) BY <1>12, <1>14 DEF SameCode
<1>16. \A q \in Spots(P, "adj") : SameAdj(At(P, q), At(Q, q)) BY <1>11, <1>12, <1>13, <1>x DEF SameAdj
<1>17. Edits(P, Q) BY <1>9, <1>10, <1>15, <1>16 DEF Edits, SameShape
<1> QED BY <1>11, <1>12, <1>13, <1>17, <1>x

\* The pages move on and the metapage stays
LEMMA StillMoves ==
  ASSUME Typed, Turns, NEW cs, NEW ads, NEW cs2, NEW ads2, Kept(page, page', meta.count), Extends(cs, cs2),
         meta.count # 0 => Start(cs2) = Start(cs) /\ Start(ads2) = Start(ads),
         meta' = meta, vac' = vac, bounds'.vacuums = bounds.vacuums, pc'[Vacuum] = pc[Vacuum], FlagsKept
  PROVE  Moved(cs, ads, cs2, ads2, 0) /\ SameMeta
<1>2. meta \in MetaType /\ bounds \in Counters BY DEF Typed
<1>5. SameMeta BY <1>2 DEF SameMeta, MetaType
<1>6. Vacs' = Vacs /\ (Stale' <=> Stale) BY DEF Vacs, Stale, Marking
<1>7. Vacs \in Nat /\ Vacs + 0 <= Vacs
  <2>1. bounds.vacuums \in Nat BY <1>2 DEF Counters
  <2>2. pc[Vacuum] # "idle" => bounds.vacuums # 0 BY DEF Turns
  <2> QED BY <2>1, <2>2 DEF Vacs
<1>9. meta.count \in Nat /\ meta.gen \in 0..(Wide - 1) BY <1>2 DEF MetaType
<1>10. meta.gen = (meta.gen + 0 + (meta.count - meta.count)) % Wide
  <2>1. PICK g : g = meta.gen OBVIOUS
  <2>2. g \in 0..(Wide - 1) BY <1>9, <2>1
  <2>3. g \in Nat /\ g = g % Wide BY ONLY <2>2, InWide
  <2>4. g + 0 + (meta.count - meta.count) = g BY <1>9, <2>3
  <2> QED BY ONLY <2>1, <2>3, <2>4
<1> QED BY <1>5, <1>6, <1>7, <1>9, <1>10 DEF Moved

\* The list that TqGraphUpdateReciprocalNeighbor writes
LEMMA LinkedListOk ==
  ASSUME NEW c, NEW n, NEW src \in Nat, NEW l, meta.count = n, n \in NodeIds, src < n, NodeLevel[n] >= l,
         ListOk(src, l, c.adj[src][l].nbrs), NEW S \in LinkedLists(c, n, src, l)
  PROVE  ListOk(src, l, S) /\ S \in SUBSET Nat
<1>U. PICK U : U = c.adj[src][l].nbrs \cup {n} OBVIOUS
<1>0. NodeIds = 0..(MaxRows - 1) /\ MaxRows \in Nat BY Basics
<1>1. /\ c.adj[src][l].nbrs \subseteq NodeIds
      /\ \A x \in c.adj[src][l].nbrs : x # src /\ x <= meta.count /\ NodeLevel[x] >= l
  BY DEF ListOk
<1>2. U \subseteq NodeIds /\ \A x \in U : x # src /\ x <= n /\ NodeLevel[x] >= l BY <1>0, <1>1, <1>U
<1>3. IsFiniteSet(U)
  <2>1. IsFiniteSet(0..(MaxRows - 1))
    <3>1. 0 \in Int /\ MaxRows - 1 \in Int BY ONLY <1>0
    <3> QED BY ONLY <3>1, FS_Interval
  <2> QED BY <1>0, <1>2, <2>1, FS_Subset
<1>4. S \subseteq U /\ Cardinality(S) <= LevelM(l)
  <2>1. CASE Cardinality(U) <= LevelM(l) BY <1>U, <2>1 DEF LinkedLists
  <2>2. CASE ~(Cardinality(U) <= LevelM(l))
    <3>R. PICK R : R = {x \in U : x = n \/ Readable(c, x)} OBVIOUS
    <3>1. S \in Nearest(R, LevelM(l)) BY <1>U, <2>2, <3>R DEF LinkedLists
    <3>2. R \subseteq U /\ IsFiniteSet(R) BY <1>3, <3>R, FS_Subset
    <3> QED BY <3>1, <3>2, LevelMIs, NearestIs
  <2> QED BY <2>1, <2>2
<1> QED BY <1>0, <1>2, <1>4 DEF ListOk

\* Where the cache has the list of a node that is linked
LEMMA CellIs ==
  ASSUME Typed, Turns, NEW cs, NEW ads, Good(cs, ads), NEW b \in Backends, pc[b] = "link",
         NEW l, NEW src, <<l, src>> \in op[b].todo
  PROVE  LET c == cache[b]
             a == c.adj[src][l]
         IN /\ l \in 0..NodeLevel[meta.count] /\ l \in 0..TopLevel /\ src \in Nat /\ src < meta.count
            /\ src \in 0..(c.key.count - 1) /\ c.key.count = meta.count
            /\ a.blk # Nil /\ <<a.blk, a.off>> \in AdjSpots /\ At(page, <<a.blk, a.off>>).node = src
            /\ At(page, <<a.blk, a.off>>).level = l /\ ListOk(src, l, a.nbrs)
            /\ AdjPlace(c, src, l) = <<a.blk, a.off>>
<1>c. PICK c, i, n : c = cache[b] /\ i = op[b] /\ n = meta.count OBVIOUS
<1>1. /\ Inserting(b) /\ c # NoCache /\ CacheOk(cs, ads, b) /\ c.key = i.meta BY <1>c, HasCache
<1>2. /\ i.meta.count = n /\ n \in NodeIds /\ n \in Nat /\ NodeLevel[n] \in Nat
      /\ i.sel \in [0..NodeLevel[n] -> SUBSET Nat]
  BY <1>1, <1>c, InsertIs
<1>3. /\ l \in 0..NodeLevel[n] /\ src \in i.sel[l]
      /\ \A x \in i.sel[l] : x < n /\ NodeLevel[x] >= l
  <2>1. InsertOk(cs, ads, b) BY DEF Good
  <2>2. /\ \A k \in 0..NodeLevel[n] : \A x \in i.sel[k] : x < n /\ NodeLevel[x] >= k
        /\ \A x \in i.todo : x[1] \in 0..NodeLevel[n] /\ x[2] \in i.sel[x[1]]
    BY <1>1, <1>c, <2>1 DEF InsertOk
  <2>3. <<l, src>>[1] = l /\ <<l, src>>[2] = src OBVIOUS
  <2> QED BY <1>c, <2>2, <2>3
<1>4. src \in Nat /\ src < n /\ l \in Nat /\ src \in NodeIds /\ NodeLevel[src] >= l /\ NodeLevel[src] \in Nat
  <2>1. src \in Nat BY <1>2, <1>3
  <2>2. l \in Nat BY <1>2, <1>3
  <2>3. src < n /\ NodeLevel[src] >= l BY <1>3
  <2>4. NodeIds = 0..(MaxRows - 1) /\ MaxRows \in Nat BY Basics
  <2>5. src \in NodeIds BY <1>2, <2>1, <2>3, <2>4
  <2>6. NodeLevel[src] \in Nat BY <2>5, Basics
  <2> QED BY <2>1, <2>2, <2>3, <2>5, <2>6
<1>5. l \in 0..TopLevel
  <2>1. TopLevel \in Nat /\ NodeLevel[src] <= TopLevel BY <1>4, TopIs
  <2> QED BY <1>4, <2>1
<1>6. src \in 0..(c.key.count - 1) /\ c.key.count = n BY <1>1, <1>2, <1>4
<1>7. NodesOk(c) /\ CellsOk(c) /\ Ready(cs, c, "link") BY <1>1, <1>c DEF CacheOk
<1>8. Reached(c, Blocks) BY <1>7 DEF Ready
<1>9. PICK q \in AdjSpots : At(page, q).node = src /\ At(page, q).level = l
  <2>1. AdjOf(src, l) BY <1>4, <1>c DEF AdjOf
  <2>2. Placed(cs, ads) BY DEF Good
  <2> QED BY <1>4, <2>1, <2>2 DEF Placed
<1>10. q[1] \in Blocks BY DEF AdjSpots, Spots, Blocks
<1>11. c.adj[src][l].blk # Nil BY <1>4, <1>6, <1>8, <1>9, <1>10 DEF Reached
<1>a. PICK a : a = c.adj[src][l] OBVIOUS
<1>12. /\ ListOk(src, l, a.nbrs)
       /\ a.blk # Nil => /\ <<a.blk, a.off>> \in AdjSpots /\ At(page, <<a.blk, a.off>>).node = src
                         /\ At(page, <<a.blk, a.off>>).level = l
  BY <1>5, <1>6, <1>7, <1>a DEF CellsOk
<1>13. AdjPlace(c, src, l) = <<a.blk, a.off>> BY <1>11, <1>a DEF AdjPlace
<1> QED BY <1>3, <1>4, <1>5, <1>6, <1>11, <1>12, <1>13, <1>a, <1>c

LEMMA LinkKeeps ==
  ASSUME Inv, NEW b \in Backends, NEW l, NEW src, Link(b, l, src)
  PROVE  Inv'
<1>1. PICK cs, ads : Good(cs, ads) BY DEF Inv
<1>2. Typed /\ Turns BY DEF Inv
<1>c. PICK c, i, N, a : c = cache[b] /\ i = op[b] /\ N = meta.count /\ a = c.adj[src][l] OBVIOUS
<1>p. PICK p : p = <<a.blk, a.off>> OBVIOUS
<1>t. PICK todo : todo = i.todo \ {<<l, src>>} OBVIOUS
<1>l. PICK label : label = IF todo = {} THEN "code" ELSE "link" OBVIOUS
<1>3. /\ pc[b] = "link" /\ <<l, src>> \in i.todo
      /\ meta' = meta /\ heap' = heap /\ rows' = rows /\ vac' = vac /\ bounds' = bounds
  BY <1>c DEF Link
<1>4. /\ l \in 0..NodeLevel[N] /\ l \in 0..TopLevel /\ src \in Nat /\ src < N
      /\ src \in 0..(c.key.count - 1) /\ c.key.count = N
      /\ p \in AdjSpots /\ At(page, p).node = src /\ At(page, p).level = l /\ ListOk(src, l, a.nbrs)
      /\ AdjPlace(c, src, l) = p /\ a.blk # Nil
  BY <1>1, <1>2, <1>3, <1>c, <1>p, CellIs
<1>5. /\ Inserting(b) /\ c # NoCache /\ CacheOk(cs, ads, b) /\ N # 0 /\ c \in CacheType(c.key) /\ c.key = i.meta
      /\ UsesCache(b)
  BY <1>1, <1>2, <1>3, <1>c, HasCache
<1>6. /\ i \in InsertOp /\ i.meta.count = N /\ N \in NodeIds /\ N \in Nat /\ NodeLevel[N] \in Nat
      /\ i.todo \subseteq Nat \X Nat /\ \A e \in Backends : e # b => ~Inserting(e)
  BY SMTT(30), <1>1, <1>2, <1>5, <1>c, InsertIs
<1>7. PICK S \in LinkedLists(c, N, src, l) :
        /\ page' = Relinked(page, p, S)
        /\ cache' = [cache EXCEPT ![b].adj[src][l] = [nbrs |-> S, blk |-> p[1], off |-> p[2]]]
        /\ op' = [op EXCEPT ![b].todo = todo] /\ pc' = [pc EXCEPT ![b] = label]
  BY <1>4, <1>6, <1>c, <1>t, <1>l DEF Link, Goto, Relinked
<1>8. ListOk(src, l, S) /\ S \in SUBSET Nat
  <2>1. NodeLevel[N] >= l BY <1>4, <1>6
  <2> QED BY <1>4, <1>6, <1>c, <2>1, LinkedListOk
<1>9. page \in Seq(PageType) /\ bounds \in Counters /\ meta \in MetaType BY <1>2 DEF Typed
<1>10. /\ Edits(page, page') /\ At(page', p) = [node |-> src, level |-> l, nbrs |-> S]
       /\ \A k : \A q \in Spots(page, k) : q # p => At(page', q) = At(page, q)
  BY <1>4, <1>7, <1>8, <1>9, LinkedPage DEF AdjSpots
<1>n. PICK cell : cell = [nbrs |-> S, blk |-> p[1], off |-> p[2]] OBVIOUS
<1>11. cell \in AdjCell /\ cell.nbrs = S /\ <<cell.blk, cell.off>> = p /\ cell.blk # Nil
  <2>1. p = <<p[1], p[2]>> /\ p[1] \in Nat /\ p[2] \in Nat /\ p[1] # Nil BY <1>4, <1>p DEF AdjSpots, Spots
  <2> QED BY <1>8, <1>n, <2>1 DEF AdjCell
<1>y. PICK y : y = [c EXCEPT !.adj = [c.adj EXCEPT ![src] = [c.adj[src] EXCEPT ![l] = cell]]] OBVIOUS
<1>x. PICK x : x = [i EXCEPT !.todo = todo] OBVIOUS
<1>12. Sets(b, y, x, label)
  <2>1. cache = [e \in Backends |-> cache[e]] /\ op = [e \in Backends |-> op[e]] BY <1>2 DEF Typed
  <2>2. cache' = [cache EXCEPT ![b] = y] BY <1>7, <1>c, <1>n, <1>y, <2>1
  <2>3. op' = [op EXCEPT ![b] = x] BY <1>7, <1>c, <1>x, <2>1
  <2> QED BY <1>7, <2>2, <2>3 DEF Sets
<1>13. Touches(b) /\ Alone(b) /\ cache'[b] = y /\ op'[b] = x /\ pc'[b] = label
  BY <1>2, <1>12, OneMoves DEF Sets
<1>14. /\ y \in CacheType(c.key) /\ y.key = c.key /\ y.cached = c.cached /\ y.nodes = c.nodes
       /\ \A n \in 0..(N - 1), m \in 0..TopLevel : y.adj[n][m] = IF n = src /\ m = l THEN cell ELSE c.adj[n][m]
  <2>1. c.adj \in [0..(N - 1) -> [0..TopLevel -> AdjCell]] BY <1>4, <1>5 DEF CacheType
  <2>2. c.adj[src] \in [0..TopLevel -> AdjCell] BY <1>4, <2>1
  <2>r. PICK r : r = [c.adj[src] EXCEPT ![l] = cell] OBVIOUS
  <2>3. /\ r \in [0..TopLevel -> AdjCell]
        /\ \A m \in 0..TopLevel : r[m] = IF m = l THEN cell ELSE c.adj[src][m]
    BY <1>11, <2>2, <2>r
  <2>s. PICK s : s = [c.adj EXCEPT ![src] = r] OBVIOUS
  <2>4. s \in [0..(N - 1) -> [0..TopLevel -> AdjCell]] /\ \A n \in 0..(N - 1) : s[n] = IF n = src THEN r ELSE c.adj[n]
    BY <2>1, <2>3, <2>s
  <2>5. y = [c EXCEPT !.adj = s] BY <1>y, <2>r, <2>s
  <2>6. y \in CacheType(c.key) /\ y.key = c.key /\ y.cached = c.cached /\ y.nodes = c.nodes /\ y.adj = s
    BY <1>4, <1>5, <2>4, <2>5 DEF CacheType
  <2> QED BY <2>3, <2>4, <2>6
<1>15. x \in InsertOp
  <2>1. todo \in SUBSET (Nat \X Nat) BY <1>6, <1>t, <1>c
  <2> QED BY <1>6, <1>x, <2>1 DEF InsertOp
<1>16. /\ x.kind = i.kind /\ x.tid = i.tid /\ x.meta = i.meta /\ x.codeStart = i.codeStart /\ x.adjStart = i.adjStart
       /\ x.loc = i.loc /\ x.sel = i.sel /\ x.todo = todo
  BY <1>6, <1>x DEF InsertOp
<1>17. /\ label \in {"code", "link"} /\ ~Writing(b) /\ ~Writing(b)' /\ Inserting(b)' /\ (UsesCache(b)' <=> UsesCache(b))
       /\ ~Scanning(b)'
  BY <1>3, <1>5, <1>13, <1>16, <1>c, <1>l DEF Writing, Inserting, UsesCache, Scanning
<1>18. Typed'
  <2>1. page' \in Seq(PageType) BY <1>10 DEF Edits
  <2>2. OpTyped(b)'
    <3>1. InsertOp' = InsertOp BY <1>3 DEF InsertOp
    <3>2. label \in InsertPcs BY <1>17 DEF InsertPcs
    <3>3. x \in InsertOp' BY <1>15, <3>1
    <3> QED BY <1>13, <3>2, <3>3 DEF OpTyped
  <2>3. CacheTyped(b)' BY <1>13, <1>14 DEF CacheTyped
  <2>4. /\ meta' \in MetaType /\ heap' \in [Tids -> HeapType] /\ rows' \in Nat /\ bounds' \in Counters
        /\ meta'.count = meta.count
    BY <1>2, <1>3 DEF Typed
  <2>5. (\E z : cache' = [cache EXCEPT ![b] = z]) /\ (\E z : op' = [op EXCEPT ![b] = z])
        /\ \E z : pc' = [pc EXCEPT ![b] = z] BY <1>12 DEF Sets
  <2> QED BY <1>2, <1>3, <1>13, <2>1, <2>2, <2>3, <2>4, <2>5, TypedStep
<1>19. Turns' BY <1>2, <1>3, <1>5, <1>13, <1>17, TurnsStep
<1>20. Chained(page, cs, ads) BY <1>1 DEF Good
<1>21. \A k : Spots(page', k) = Spots(page, k) BY <1>10, EditsSpots
<1>22. \A q \in CodeSpots : q # p /\ At(page', q) = At(page, q)
  <2>1. \A q \in CodeSpots : q # p BY <1>4 DEF CodeSpots, AdjSpots, Spots
  <2> QED BY <1>10, <2>1 DEF CodeSpots
<1>23. \A q \in AdjSpots : /\ At(page', q).node = At(page, q).node /\ At(page', q).level = At(page, q).level
  BY <1>10 DEF Edits, SameAdj, AdjSpots
<1>24. Moved(cs, ads, cs, ads, 0) /\ SameMeta
  <2>1. Kept(page, page', meta.count) BY <1>9, <1>10, EditsKept
  <2>2. Extends(cs, cs)
    <3>1. Len(cs) \in Nat BY <1>20 DEF Chained, IsChain
    <3> QED BY <3>1 DEF Extends
  <2>3. FlagsKept BY <1>22 DEF FlagsKept
  <2>4. pc'[Vacuum] = pc[Vacuum] BY <1>13 DEF Touches
  <2> QED BY <1>2, <1>3, <2>1, <2>2, <2>3, <2>4, StillMoves
<1>25. WritesAlike
  <2> SUFFICES ASSUME NEW e \in Backends PROVE (Writing(e)' <=> Writing(e)) /\ (Writing(e) => op'[e].loc = op[e].loc)
    BY DEF WritesAlike
  <2>1. CASE e = b BY <1>17, <2>1
  <2>2. CASE e # b BY <1>13, <2>2 DEF Alone, Unmoved, Writing
  <2> QED BY <2>1, <2>2
<1>26. ASSUME NEW e \in Backends, e # b PROVE Spared(e)
  <2>1. op[e].kind = "scan" => NotMarked(e) BY <1>22 DEF NotMarked
  <2>2. op'[e] = op[e] BY <1>13, <1>26 DEF Alone, Unmoved
  <2>3. op[e].kind = "scan" => SnapOk(e) BY <1>1 DEF Good, ScanOk
  <2>4. pc'[Vacuum] = pc[Vacuum] BY <1>13 DEF Touches
  <2>5. op[e].kind = "scan" => SnapOk(e)' BY <1>3, <2>2, <2>3, <2>4 DEF SnapOk
  <2> QED BY <1>3, <2>1, <2>5 DEF Spared
<1>27. \A n, m, T : ListOk(n, m, T)' <=> ListOk(n, m, T) BY <1>3 DEF ListOk
<1>28. InsertOk(cs, ads, b)'
  <2>1. /\ heap[i.tid].state = "inserting" /\ heap[i.tid].indexed
        /\ meta = [i.meta EXCEPT !.gen = meta.gen]
        /\ i.codeStart = Start(cs) /\ i.adjStart = Start(ads)
        /\ \A m \in 0..NodeLevel[N] :
             /\ Cardinality(i.sel[m]) <= LevelM(m)
             /\ \A n \in i.sel[m] : n < N /\ NodeLevel[n] >= m
        /\ \A z \in i.todo : z[1] \in 0..NodeLevel[N] /\ z[2] \in i.sel[z[1]]
        /\ i.loc = <<>>
    BY <1>1, <1>5, <1>17, <1>c DEF Good, InsertOk
  <2>2. Len(<<>>) = 0 /\ 0 <= NodeLevel[N] + 1 /\ \A m \in 1..0 : FALSE BY <1>6
  <2>3. label = "link" => todo # {} BY <1>l
  <2>4. label # "adj" /\ label # "meta" BY <1>17
  <2>5. \A z \in todo : z[1] \in 0..NodeLevel[N] /\ z[2] \in i.sel[z[1]] BY <2>1, <1>t
  <2>6. y # NoCache /\ y.key = i.meta
    <3>1. y.cached BY <1>5, <1>3, <1>14, <1>c DEF CacheOk, Ready
    <3> QED BY <1>5, <1>14, <3>1 DEF NoCache
  <2> QED BY <1>3, <1>5, <1>13, <1>16, <1>17, <1>c, <2>1, <2>2, <2>3, <2>4, <2>5, <2>6 DEF InsertOk
<1>29. CacheOk(cs, ads, b)'
  <2>1. KeyOk(cs, ads, c.key) /\ NodesOk(c) /\ CellsOk(c) /\ Ready(cs, c, "link") /\ \E k \in Nat : Aged(b, k)
    BY <1>3, <1>5, <1>c DEF CacheOk
  <2>2. KeyOk(cs, ads, y.key)' BY <1>3, <1>14, <2>1 DEF KeyOk
  <2>3. NodesOk(y)' BY <1>14, <1>21, <1>22, <2>1 DEF NodesOk, CodeSpots
  <2>4. CellsOk(y)'
    <3>1. ASSUME NEW n \in 0..(N - 1), NEW m \in 0..TopLevel
          PROVE  /\ ListOk(n, m, y.adj[n][m].nbrs)
                 /\ y.adj[n][m].blk # Nil => /\ <<y.adj[n][m].blk, y.adj[n][m].off>> \in AdjSpots
                                             /\ At(page', <<y.adj[n][m].blk, y.adj[n][m].off>>).node = n
                                             /\ At(page', <<y.adj[n][m].blk, y.adj[n][m].off>>).level = m
      <4>1. CASE n = src /\ m = l
        <5>1. y.adj[n][m] = cell BY <1>14, <4>1
        <5> QED BY <1>4, <1>8, <1>11, <1>23, <4>1, <5>1
      <4>2. CASE ~(n = src /\ m = l)
        <5>1. y.adj[n][m] = c.adj[n][m] BY <1>14, <4>2
        <5>2. /\ ListOk(n, m, c.adj[n][m].nbrs)
              /\ c.adj[n][m].blk # Nil => /\ <<c.adj[n][m].blk, c.adj[n][m].off>> \in AdjSpots
                                          /\ At(page, <<c.adj[n][m].blk, c.adj[n][m].off>>).node = n
                                          /\ At(page, <<c.adj[n][m].blk, c.adj[n][m].off>>).level = m
          BY <1>4, <2>1 DEF CellsOk
        <5> QED BY <1>23, <5>1, <5>2
      <4> QED BY <4>1, <4>2
    <3>2. AdjSpots' = AdjSpots BY <1>21 DEF AdjSpots
    <3>3. \A n \in 0..(y.key.count - 1), m \in 0..TopLevel :
            /\ ListOk(n, m, y.adj[n][m].nbrs)'
            /\ y.adj[n][m].blk # Nil => /\ <<y.adj[n][m].blk, y.adj[n][m].off>> \in AdjSpots'
                                        /\ At(page', <<y.adj[n][m].blk, y.adj[n][m].off>>).node = n
                                        /\ At(page', <<y.adj[n][m].blk, y.adj[n][m].off>>).level = m
      BY <1>4, <1>14, <1>27, <3>1, <3>2
    <3> QED BY <3>3 DEF CellsOk
  <2>5. Ready(cs, y, label)'
    <3>1. c.cached /\ (\A n \in 0..(N - 1) : c.nodes[n] # NotLoaded) /\ Reached(c, Blocks)
      BY <1>4, <2>1 DEF Ready
    <3>2. Reached(y, Blocks)'
      <4> SUFFICES ASSUME NEW q \in AdjSpots, At(page, q).node < N
                   PROVE  y.adj[At(page, q).node][At(page, q).level].blk # Nil
        <5>1. AdjSpots' = AdjSpots BY <1>21 DEF AdjSpots
        <5> QED BY <1>4, <1>14, <1>23, <5>1 DEF Reached
      <4>1. q[1] \in Blocks BY DEF AdjSpots, Spots, Blocks
      <4>n. PICK n, m : n = At(page, q).node /\ m = At(page, q).level OBVIOUS
      <4>2. c.adj[n][m].blk # Nil BY <1>4, <3>1, <4>1, <4>n DEF Reached
      <4>3. n \in Nat /\ n < N /\ m \in 0..TopLevel BY <1>1, <1>2, <1>c, <4>n, AdjSpotIs
      <4>4. n \in 0..(N - 1) BY <1>6, <4>3
      <4> QED BY <1>11, <1>14, <4>2, <4>3, <4>4, <4>n
    <3> QED BY <1>4, <1>14, <1>17, <3>1, <3>2 DEF Ready
  <2>6. \E k \in Nat : Aged(b, k)'
    <3>1. PICK k \in Nat : Aged(b, k) BY <2>1
    <3>2. Vacs' = Vacs /\ (Stale' <=> Stale)
      <4>1. pc'[Vacuum] = pc[Vacuum] BY <1>13 DEF Touches
      <4> QED BY <1>3, <4>1 DEF Vacs, Stale, Marking
    <3>3. FlagsRight(c) => FlagsRight(y)' BY <1>14, <1>21, <1>22 DEF FlagsRight, CodeSpots
    <3>4. Aged(b, k)' BY <1>3, <1>13, <1>14, <1>17, <1>c, <3>1, <3>2, <3>3 DEF Aged
    <3> QED BY <3>4
  <2>7. y # NoCache
    <3>1. y.cached BY <1>14, <2>1 DEF Ready
    <3> QED BY <3>1 DEF NoCache
  <2> QED BY <1>13, <2>2, <2>3, <2>4, <2>5, <2>6 DEF CacheOk
<1>30. ScanOk(b)' BY <1>5, <1>13, <1>16, <1>c DEF ScanOk, Inserting
<1>31. /\ Chained(page', cs, ads) /\ Placed(cs, ads)' /\ Levels(meta')
       /\ \A e \in Backends : InsertOk(cs, ads, e)' /\ CacheOk(cs, ads, e)' /\ ScanOk(e)'
  <2>1. \A q \in CodeSpots : At(page, q).node = meta.count => At(page', q).dead = At(page, q).dead BY <1>22
  <2>2. \A e \in Backends : e # b => Spared(e) /\ (Scanning(e) => 0 = 0) BY <1>26
  <2> QED BY <1>1, <1>2, <1>10, <1>13, <1>24, <1>25, <1>28, <1>29, <1>30, <2>1, <2>2, Quiet
<1>32. Lists'
  <2> SUFFICES ASSUME NEW q \in AdjSpots
               PROVE  ListOk(At(page', q).node, At(page', q).level, At(page', q).nbrs)
    BY <1>21, <1>27 DEF Lists, AdjSpots
  <2>1. CASE q = p BY <1>8, <1>10, <2>1
  <2>2. CASE q # p
    <3>1. At(page', q) = At(page, q) BY <1>10, <2>2 DEF AdjSpots
    <3> QED BY <1>1, <3>1 DEF Good, Lists
  <2> QED BY <2>1, <2>2
<1>33. HeapOk' BY <1>1, <1>3, <1>21, <1>22 DEF Good, HeapOk, HasNode, CodeSpots
<1>34. VacOk(cs, ads)'
  <2>1. pc'[Vacuum] = pc[Vacuum] BY <1>13 DEF Touches
  <2>2. \A q \in Spots(page', "code") : q \in CodeSpots BY <1>21 DEF CodeSpots
  <2>3. page' \in Seq(PageType) BY <1>10 DEF Edits
  <2>4. VacOk(cs, ads) BY <1>1 DEF Good
  <2> QED BY <1>2, <1>3, <1>20, <1>24, <2>1, <2>2, <2>3, <2>4, VacKept
<1>35. Good(cs, ads)' BY <1>31, <1>32, <1>33, <1>34 DEF Good
<1> QED BY <1>18, <1>19, <1>35 DEF Inv

\* A step of an insert that appends a tuple: what it leaves as it was
Grows(b, cs, ads, cs2, ads2, kind, tup, q) ==
  /\ Inserting(b) /\ Touches(b) /\ kind \in Kinds
  /\ AppendedAt(page, cs, ads, page', cs2, ads2, kind, tup, q) /\ tup.node = meta.count
  /\ meta' = meta /\ heap' = heap /\ vac' = vac /\ bounds' = bounds /\ cache' = cache
  /\ cache[b] # NoCache => Ready(cs, cache[b], pc'[b])
  /\ UsesCache(b)' => UsesCache(b)
  /\ kind = "code" => tup.tid = op[b].tid
LEMMA GrowStep ==
  ASSUME Typed, Turns, NEW cs, NEW ads, Good(cs, ads), NEW b \in Backends,
         NEW cs2, NEW ads2, NEW kind, NEW tup, NEW q, Grows(b, cs, ads, cs2, ads2, kind, tup, q)
  PROVE  /\ page' \in Seq(PageType) /\ Chained(page', cs2, ads2) /\ Levels(meta')
         /\ VacOk(cs2, ads2)'
         /\ \A a \in Backends : CacheOk(cs2, ads2, a)' /\ (a # b => InsertOk(cs2, ads2, a)' /\ ScanOk(a)')
         /\ meta.count # 0 => Start(cs2) = Start(cs) /\ Start(ads2) = Start(ads)
<1>0. /\ Inserting(b) /\ Touches(b) /\ kind \in Kinds
      /\ AppendedAt(page, cs, ads, page', cs2, ads2, kind, tup, q) /\ tup.node = meta.count
      /\ meta' = meta /\ heap' = heap /\ vac' = vac /\ bounds' = bounds /\ cache' = cache
      /\ cache[b] # NoCache => Ready(cs, cache[b], pc'[b])
      /\ UsesCache(b)' => UsesCache(b)
      /\ kind = "code" => tup.tid = op[b].tid
  BY DEF Grows
<1> USE <1>0
<1>1. /\ page' \in Seq(PageType) /\ Chained(page', cs2, ads2) /\ Grew(page, page', kind, tup, q)
      /\ Extends(cs, cs2) /\ Extends(ads, ads2)
  BY DEF AppendedAt
<1>2. /\ Chained(page, cs, ads) /\ Placed(cs, ads) /\ Levels(meta) /\ VacOk(cs, ads)
      /\ \A a \in Backends : InsertOk(cs, ads, a) /\ CacheOk(cs, ads, a) /\ ScanOk(a)
  BY DEF Good
<1>3. page \in Seq(PageType) /\ meta.count \in Nat BY DEF Typed, MetaType
<1>4. meta.count # 0 => Start(cs2) = Start(cs) /\ Start(ads2) = Start(ads)
  <2> SUFFICES ASSUME meta.count # 0 PROVE Start(cs2) = Start(cs) /\ Start(ads2) = Start(ads) OBVIOUS
  <2>1. cs # <<>> /\ ads # <<>> BY StartsThere
  <2>2. /\ cs \in Seq(1..Len(page)) /\ ads \in Seq(1..Len(page))
    BY <1>2 DEF Chained, IsChain
  <2>3. 1 \in 1..Len(cs) /\ 1 \in 1..Len(ads) BY <2>1, <2>2
  <2>4. /\ cs2 \in Seq(1..Len(page')) /\ ads2 \in Seq(1..Len(page'))
    BY <1>1 DEF Chained, IsChain
  <2>5. cs2[1] = cs[1] /\ ads2[1] = ads[1] /\ Len(cs2) >= Len(cs) /\ Len(ads2) >= Len(ads)
    BY <1>1, <2>2, <2>3, <2>4 DEF Extends
  <2>6. cs2 # <<>> /\ ads2 # <<>> BY <2>2, <2>3, <2>4, <2>5
  <2> QED BY <2>1, <2>5, <2>6 DEF Start
<1>5. FlagsKept BY <1>1 DEF FlagsKept, Grew, CodeSpots
<1>6. pc'[Vacuum] = pc[Vacuum] /\ Alone(b) BY DEF Touches, Alone
<1>7. Kept(page, page', meta.count)
  <2>1. tup.node >= meta.count BY <1>3
  <2> QED BY <1>1, <2>1, GrewKept
<1>8. Moved(cs, ads, cs2, ads2, 0) /\ SameMeta BY <1>1, <1>4, <1>5, <1>6, <1>7, StillMoves
<1>9. meta.count <= Total(page, cs) BY <1>2, <1>3 DEF Placed
<1>10. ASSUME NEW a \in Backends PROVE CacheOk(cs2, ads2, a)'
  <2>1. cache[a] # NoCache => Ready(cs, cache[a], pc'[a])
    <3>1. CASE a = b BY <3>1
    <3>2. CASE a # b BY <1>2, <1>6, <3>2 DEF Alone, Unmoved, CacheOk
    <3> QED BY <3>1, <3>2
  <2>2. UsesCache(a)' => UsesCache(a)
    <3>1. CASE a = b BY <3>1
    <3>2. CASE a # b BY <1>6, <3>2 DEF Alone, Unmoved, UsesCache, Inserting
    <3> QED BY <3>1, <3>2
  <2> QED BY <1>1, <1>2, <1>8, <1>9, <2>1, <2>2, CacheKept
<1>11. ASSUME NEW a \in Backends, a # b PROVE InsertOk(cs2, ads2, a)' /\ ScanOk(a)'
  <2>1. Unmoved(a) /\ ~Inserting(a) BY <1>6, <1>11 DEF Alone, Turns
  <2>2. InsertOk(cs2, ads2, a)' BY <2>1 DEF InsertOk, Unmoved, Inserting
  <2>3. op[a].kind = "scan" => SnapOk(a)' /\ NotMarked(a)
    <3>1. NotMarked(a) BY <1>5 DEF FlagsKept, NotMarked
    <3>2. op[a].kind = "scan" => SnapOk(a) BY <1>2 DEF ScanOk
    <3>3. op'[a] = op[a] BY <2>1 DEF Unmoved
    <3>4. op[a].kind = "scan" => SnapOk(a)' BY <1>6, <3>2, <3>3 DEF SnapOk
    <3> QED BY <3>1, <3>4
  <2>4. ScanOk(a) /\ CacheOk(cs, ads, a) BY <1>2
  <2>5. ScanOk(a)' BY <1>1, <1>8, <2>1, <2>3, <2>4, ScanKept
  <2> QED BY <2>2, <2>5
<1>12. VacOk(cs2, ads2)'
  <2>1. pc[Vacuum] # "idle" => \A p \in Spots(page', "code") : p \notin CodeSpots => At(page', p).tid \notin vac.dead
    <3> SUFFICES ASSUME pc[Vacuum] # "idle", NEW p \in Spots(page', "code"), p \notin CodeSpots
                 PROVE  At(page', p).tid \notin vac.dead
      OBVIOUS
    <3>1. kind = "code" /\ p = q /\ At(page', p) = tup
      <4>1. kind # "code" => Spots(page', "code") = Spots(page, "code") BY <1>1 DEF Grew
      <4>2. kind = "code" => Spots(page', "code") = Spots(page, "code") \cup {q} /\ At(page', q) = tup
        BY <1>1 DEF Grew
      <4> QED BY <4>1, <4>2 DEF CodeSpots
    <3>2. heap[op[b].tid].state = "inserting" BY <1>2 DEF InsertOk
    <3>3. \A t \in vac.dead : heap[t].state = "dead" BY <1>2 DEF VacOk
    <3> QED BY <3>1, <3>2, <3>3
  <2> QED BY <1>1, <1>2, <1>6, <1>8, <2>1, VacKept
<1> QED BY <1>1, <1>2, <1>4, <1>10, <1>11, <1>12

LEMMA AppendCodeKeeps ==
  ASSUME Inv, NEW b \in Backends, AppendCode(b)
  PROVE  Inv'
<1>1. PICK cs, ads : Good(cs, ads) BY DEF Inv
<1>2. Typed /\ Turns BY DEF Inv
<1>i. PICK i, N : i = op[b] /\ N = meta.count OBVIOUS
<1>t. PICK tup : tup = CodeTuple(N, i.tid, heap[i.tid].row) OBVIOUS
<1>3. /\ pc[b] = "code" /\ Inserting(b)
      /\ meta' = meta /\ heap' = heap /\ rows' = rows /\ vac' = vac /\ bounds' = bounds /\ cache' = cache
  BY <1>2, KindsOf DEF AppendCode
<1>4. /\ i \in InsertOp /\ i.meta.count = N /\ N \in NodeIds /\ N \in Nat /\ NodeLevel[N] \in Nat
      /\ i.tid \in Tids /\ \A e \in Backends : e # b => ~Inserting(e)
  BY <1>1, <1>2, <1>3, <1>i, InsertIs
<1>5. /\ heap[i.tid].state = "inserting" /\ heap[i.tid].indexed
      /\ meta = [i.meta EXCEPT !.gen = meta.gen]
      /\ i.codeStart = Start(cs) /\ i.adjStart = Start(ads)
      /\ \A l \in 0..NodeLevel[N] :
           /\ Cardinality(i.sel[l]) <= LevelM(l)
           /\ \A n \in i.sel[l] : n < N /\ NodeLevel[n] >= l
      /\ \A x \in i.todo : x[1] \in 0..NodeLevel[N] /\ x[2] \in i.sel[x[1]]
      /\ i.loc = <<>>
      /\ UsesCache(b) => cache[b] # NoCache /\ cache[b].key = i.meta
  <2>1. InsertOk(cs, ads, b) BY <1>1 DEF Good
  <2>2. ~Writing(b) BY <1>3 DEF Writing
  <2> QED BY <1>3, <1>i, <2>1, <2>2 DEF InsertOk
<1>a. PICK a : a = AppendTuple(page, Start(cs), "code", tup, Cap("code")) OBVIOUS
<1>6. page' = a.pages /\ op' = [op EXCEPT ![b].codeStart = a.start] /\ pc' = [pc EXCEPT ![b] = "adj"]
  BY <1>4, <1>5, <1>a, <1>i, <1>t DEF AppendCode, Goto, Cap
<1>7. \A e \in Backends : ~Writing(e)
  <2> SUFFICES ASSUME NEW e \in Backends PROVE ~Writing(e) OBVIOUS
  <2>1. CASE e = b BY <1>3, <2>1 DEF Writing
  <2>2. CASE e # b BY <1>2, <1>4, <2>2, KindsOf DEF Writing
  <2> QED BY <2>1, <2>2
<1>8. page \in Seq(PageType) /\ heap \in [Tids -> HeapType] /\ meta \in MetaType BY <1>2 DEF Typed
<1>9. tup \in CodeType /\ tup.node = N /\ tup.tid = i.tid /\ tup.row = heap[i.tid].row /\ tup.dead = FALSE
  <2>1. heap[i.tid].row \in Nat BY <1>4, <1>8 DEF HeapType
  <2> QED BY <1>4, <1>t, <2>1 DEF CodeTuple, CodeType
<1>10. Chained(page, cs, ads) /\ Placed(cs, ads) /\ Total(page, cs) = N
  BY <1>1, <1>7, <1>i DEF Good, Placed
<1>q. PICK q : q = <<a.blk, a.off>> OBVIOUS
<1>11. PICK cs2, ads2 : /\ AppendedAt(page, cs, ads, page', cs2, ads2, "code", tup, q)
                        /\ a.start = Start(cs2)
  <2>1. "code" \in Kinds /\ tup \in TupleType("code") BY <1>9 DEF Kinds, TupleType
  <2>2. tup.node = Total(page, cs) BY <1>9, <1>10
  <2>s. PICK s : s = cs OBVIOUS
  <2>3. s = (IF "code" = "code" THEN cs ELSE ads) /\ a = AppendTuple(page, Start(s), "code", tup, Cap("code"))
    BY <1>a, <2>s
  <2>4. \E cs2, ads2 : /\ AppendedAt(page, cs, ads, a.pages, cs2, ads2, "code", tup, <<a.blk, a.off>>)
                       /\ a.start = Start(IF "code" = "code" THEN cs2 ELSE ads2)
    BY <1>8, <1>10, <2>1, <2>2, <2>3, Appended
  <2> QED BY <1>6, <1>q, <2>4
<1>12. /\ Chained(page', cs2, ads2) /\ Grew(page, page', "code", tup, q) /\ Extends(cs, cs2)
       /\ Total(page', cs2) = N + 1 /\ ads2 = ads /\ page' \in Seq(PageType)
  BY <1>10, <1>11 DEF AppendedAt
<1>13. /\ Spots(page', "code") = CodeSpots \cup {q} /\ Spots(page', "adj") = AdjSpots /\ At(page', q) = tup
       /\ \A p \in CodeSpots : At(page', p) = At(page, p)
       /\ \A p \in AdjSpots : At(page', p) = At(page, p)
  BY <1>12 DEF Grew, CodeSpots, AdjSpots
<1>x. PICK x : x = [i EXCEPT !.codeStart = a.start] OBVIOUS
<1>14. Sets(b, cache[b], x, "adj")
  <2>1. cache' = [cache EXCEPT ![b] = cache[b]] BY <1>2, <1>3, SelfMoves
  <2>2. op = [e \in Backends |-> op[e]] BY <1>2 DEF Typed
  <2>3. op' = [op EXCEPT ![b] = x] BY <1>6, <1>i, <1>x, <2>2
  <2> QED BY <1>6, <2>1, <2>3 DEF Sets
<1>15. Touches(b) /\ Alone(b) /\ op'[b] = x /\ pc'[b] = "adj" /\ cache'[b] = cache[b]
  BY <1>2, <1>14, OneMoves DEF Sets
<1>16. Start(cs2) \in Nat
  <2>1. cs2 \in Seq(1..Len(page')) BY <1>12 DEF Chained, IsChain
  <2>2. cs2 # <<>> => cs2[1] \in 1..Len(page') BY <2>1
  <2> QED BY <2>2, Basics DEF Start
<1>17. /\ x \in InsertOp /\ x.kind = i.kind /\ x.tid = i.tid /\ x.meta = i.meta /\ x.codeStart = Start(cs2)
       /\ x.adjStart = i.adjStart /\ x.loc = i.loc /\ x.sel = i.sel /\ x.todo = i.todo
  BY <1>4, <1>11, <1>16, <1>x DEF InsertOp
<1>18. Writing(b)' /\ Inserting(b)' /\ (UsesCache(b)' <=> UsesCache(b)) /\ ~Scanning(b)'
  BY <1>3, <1>15, <1>17, <1>i DEF Writing, Inserting, UsesCache, Scanning
<1>19. Typed'
  <2>1. OpTyped(b)'
    <3>1. InsertOp' = InsertOp BY <1>3 DEF InsertOp
    <3>2. x \in InsertOp' BY <1>17, <3>1
    <3> QED BY <1>15, <3>2 DEF OpTyped, InsertPcs
  <2>2. CacheTyped(b)'
    <3>1. CacheTyped(b) BY <1>2 DEF Typed
    <3> QED BY <1>15, <3>1 DEF CacheTyped
  <2>3. meta' \in MetaType /\ heap' \in [Tids -> HeapType] /\ rows' \in Nat /\ bounds' \in Counters /\ meta'.count = meta.count
    BY <1>2, <1>3 DEF Typed
  <2>4. (\E z : cache' = [cache EXCEPT ![b] = z]) /\ (\E z : op' = [op EXCEPT ![b] = z])
        /\ \E z : pc' = [pc EXCEPT ![b] = z] BY <1>14 DEF Sets
  <2> QED BY <1>2, <1>3, <1>12, <1>15, <2>1, <2>2, <2>3, <2>4, TypedStep
<1>20. Turns' BY <1>2, <1>3, <1>15, <1>18, TurnsStep
<1>21. /\ Levels(meta') /\ VacOk(cs2, ads2)'
       /\ \A e \in Backends : CacheOk(cs2, ads2, e)' /\ (e # b => InsertOk(cs2, ads2, e)' /\ ScanOk(e)')
       /\ N # 0 => Start(cs2) = Start(cs) /\ Start(ads2) = Start(ads)
  <2>1. cache[b] # NoCache => Ready(cs, cache[b], pc'[b])
    <3>1. cache[b] # NoCache => Ready(cs, cache[b], "code") BY <1>1, <1>3 DEF Good, CacheOk
    <3> QED BY <1>15, <3>1, ReadyAlike
  <2>2. "code" \in Kinds BY DEF Kinds
  <2>3. tup.tid = op[b].tid /\ tup.node = meta.count /\ AppendedAt(page, cs, ads, page', cs2, ads2, "code", tup, q)
    BY <1>9, <1>11, <1>i
  <2>4. /\ Inserting(b) /\ Touches(b) /\ (UsesCache(b)' => UsesCache(b))
        /\ meta' = meta /\ heap' = heap /\ vac' = vac /\ bounds' = bounds /\ cache' = cache
    BY <1>3, <1>15, <1>18
  <2>5. Grows(b, cs, ads, cs2, ads2, "code", tup, q) BY <2>1, <2>2, <2>3, <2>4 DEF Grows
  <2>6. /\ page' \in Seq(PageType) /\ Chained(page', cs2, ads2) /\ Levels(meta')
        /\ VacOk(cs2, ads2)'
        /\ \A e \in Backends : CacheOk(cs2, ads2, e)' /\ (e # b => InsertOk(cs2, ads2, e)' /\ ScanOk(e)')
        /\ meta.count # 0 => Start(cs2) = Start(cs) /\ Start(ads2) = Start(ads)
    BY <1>1, <1>2, <2>5, GrowStep
  <2> QED BY ONLY <1>i, <2>6
<1>22. Placed(cs2, ads2)'
  <2>1. Placed(cs, ads) BY <1>10
  <2>2. \E e \in Backends : Writing(e)' BY <1>18
  <2>3. ASSUME NEW n \in Nat, NEW l \in Nat
        PROVE  (AdjOf(n, l)' \/ AdjNew(n, l)') <=> (AdjOf(n, l) \/ AdjNew(n, l))
    <3>1. ~AdjNew(n, l) BY <1>7 DEF AdjNew
    <3>2. ~AdjNew(n, l)'
      <4> SUFFICES ASSUME NEW e \in Backends, Writing(e)', l < Len(op'[e].loc) PROVE FALSE BY DEF AdjNew
      <4>1. CASE e = b BY <1>5, <1>15, <1>17, <4>1
      <4>2. CASE e # b BY <1>7, <1>15, <4>2 DEF Alone, Unmoved, Writing
      <4> QED BY <4>1, <4>2
    <3>3. AdjOf(n, l)' <=> AdjOf(n, l) BY <1>3 DEF AdjOf
    <3> QED BY <3>1, <3>2, <3>3
  <2>4. AdjSpots' = AdjSpots BY <1>13 DEF AdjSpots
  <2>5. \A p, r \in AdjSpots' :
          /\ At(page', p).node = At(page', r).node /\ At(page', p).level = At(page', r).level => p = r
    BY <1>13, <2>1, <2>4 DEF Placed
  <2>6. \A n, l \in Nat : AdjOf(n, l)' \/ AdjNew(n, l)' <=>
          \E p \in AdjSpots' : At(page', p).node = n /\ At(page', p).level = l
    <3> TAKE n, l \in Nat
    <3>1. AdjOf(n, l) \/ AdjNew(n, l) <=> \E p \in AdjSpots : At(page, p).node = n /\ At(page, p).level = l
      BY <2>1 DEF Placed
    <3>2. (\E p \in AdjSpots' : At(page', p).node = n /\ At(page', p).level = l)
          <=> \E p \in AdjSpots : At(page, p).node = n /\ At(page, p).level = l
      BY ONLY <1>13, <2>4
    <3> QED BY ONLY <2>3, <3>1, <3>2, n \in Nat, l \in Nat
  <2>7. /\ meta.codeStart = IF meta.count = 0 THEN Nil ELSE Start(cs2)
        /\ meta.adjStart = IF meta.count = 0 THEN Nil ELSE Start(ads2)
    BY <1>21, <1>i, <2>1 DEF Placed
  <2> QED BY <1>3, <1>12, <1>i, <2>2, <2>5, <2>6, <2>7 DEF Placed
<1>23. Lists'
  <2>1. \A n, l, T : ListOk(n, l, T)' <=> ListOk(n, l, T) BY <1>3 DEF ListOk
  <2>2. Lists BY <1>1 DEF Good
  <2> QED BY <1>13, <2>1, <2>2 DEF Lists, AdjSpots
<1>24. HeapOk'
  <2>1. HeapOk BY <1>1 DEF Good
  <2>2. \A p \in CodeSpots' : ~At(page', p).dead => heap[At(page', p).tid].row = At(page', p).row
                                                   /\ heap[At(page', p).tid].state # "free"
    <3>1. CodeSpots' = CodeSpots \cup {q} BY <1>13 DEF CodeSpots
    <3>2. heap[tup.tid].row = tup.row /\ heap[tup.tid].state # "free" BY <1>5, <1>9
    <3> QED BY <1>13, <2>1, <3>1, <3>2 DEF HeapOk
  <2>3. \A u, r, n : HasNode(u, r, n) => HasNode(u, r, n)' BY <1>13 DEF HasNode, CodeSpots
  <2> QED BY <1>3, <2>1, <2>2, <2>3 DEF HeapOk
<1>25. InsertOk(cs2, ads2, b)'
  <2>1. \A p \in Spots(page', "code") : At(page', p).node = N =>
          At(page', p).tid = i.tid /\ At(page', p).row = heap[i.tid].row /\ ~At(page', p).dead
    <3> SUFFICES ASSUME NEW p \in Spots(page', "code"), At(page', p).node = N PROVE p = q BY <1>9, <1>13
    <3>1. q \in Spots(page', "code") /\ At(page', q).node = N BY <1>9, <1>13
    <3> QED BY <1>12, <3>1, NodesDiffer
  <2>2. Len(<<>>) = 0 /\ 0 <= NodeLevel[N] + 1 /\ 0 <= NodeLevel[N] /\ \A m \in 1..0 : FALSE BY <1>4
  <2>3. i.adjStart = Start(ads2) BY <1>5, <1>12
  <2> QED BY <1>3, <1>5, <1>15, <1>17, <1>18, <1>i, <2>1, <2>2, <2>3 DEF InsertOk, CodeSpots
<1>26. ScanOk(b)' BY <1>3, <1>15, <1>17, <1>i DEF ScanOk, Inserting
<1>27. \A e \in Backends : InsertOk(cs2, ads2, e)' /\ CacheOk(cs2, ads2, e)' /\ ScanOk(e)' BY <1>21, <1>25, <1>26
<1>28. Good(cs2, ads2)' BY <1>12, <1>21, <1>22, <1>23, <1>24, <1>27 DEF Good
<1> QED BY <1>19, <1>20, <1>28 DEF Inv

LEMMA AppendAdjKeeps ==
  ASSUME Inv, NEW b \in Backends, AppendAdj(b)
  PROVE  Inv'
<1>1. PICK cs, ads : Good(cs, ads) BY DEF Inv
<1>2. Typed /\ Turns BY DEF Inv
<1>i. PICK i, N, l : i = op[b] /\ N = meta.count /\ l = Len(i.loc) OBVIOUS
<1>t. PICK tup : tup = AdjTuple(N, l, i.sel[l]) OBVIOUS
<1>l. PICK label : label = IF l + 1 \in DOMAIN i.sel THEN "adj" ELSE "meta" OBVIOUS
<1>3. /\ pc[b] = "adj" /\ Inserting(b) /\ Writing(b)
      /\ meta' = meta /\ heap' = heap /\ rows' = rows /\ vac' = vac /\ bounds' = bounds /\ cache' = cache
  BY <1>2, KindsOf DEF AppendAdj, Writing
<1>4. /\ i \in InsertOp /\ i.meta.count = N /\ N \in NodeIds /\ N \in Nat /\ NodeLevel[N] \in Nat
      /\ i.sel \in [0..NodeLevel[N] -> SUBSET Nat] /\ i.loc \in Seq(Nat \X Nat)
      /\ i.tid \in Tids /\ \A e \in Backends : e # b => ~Inserting(e)
  BY <1>1, <1>2, <1>3, <1>i, InsertIs
<1>5. /\ heap[i.tid].state = "inserting" /\ heap[i.tid].indexed
      /\ meta = [i.meta EXCEPT !.gen = meta.gen]
      /\ i.codeStart = Start(cs) /\ i.adjStart = Start(ads)
      /\ \A m \in 0..NodeLevel[N] :
           /\ Cardinality(i.sel[m]) <= LevelM(m)
           /\ \A n \in i.sel[m] : n < N /\ NodeLevel[n] >= m
      /\ \A x \in i.todo : x[1] \in 0..NodeLevel[N] /\ x[2] \in i.sel[x[1]]
      /\ l <= NodeLevel[N]
      /\ \A m \in 1..l : /\ i.loc[m] \in AdjSpots /\ At(page, i.loc[m]).node = N
                         /\ At(page, i.loc[m]).level = m - 1
      /\ \A p \in CodeSpots : At(page, p).node = N =>
           At(page, p).tid = i.tid /\ At(page, p).row = heap[i.tid].row /\ ~At(page, p).dead
      /\ UsesCache(b) => cache[b] # NoCache /\ cache[b].key = i.meta
  <2>1. InsertOk(cs, ads, b) BY <1>1 DEF Good
  <2> QED BY <1>3, <1>i, <2>1 DEF InsertOk
<1>6. l \in Nat /\ l \in 0..NodeLevel[N] /\ l \in DOMAIN i.sel
  <2>1. l \in Nat BY <1>4, <1>i
  <2> QED BY <1>4, <1>5, <2>1
<1>7. label = (IF l < NodeLevel[N] THEN "adj" ELSE "meta") BY <1>4, <1>6, <1>l
<1>a. PICK a : a = AppendTuple(page, Start(ads), "adj", tup, Cap("adj")) OBVIOUS
<1>q. PICK q : q = <<a.blk, a.off>> OBVIOUS
<1>8. /\ page' = a.pages /\ pc' = [pc EXCEPT ![b] = label]
      /\ op' = [op EXCEPT ![b].adjStart = a.start, ![b].loc = Append(op[b].loc, q)]
  <2>1. Cap("adj") = AdjCap BY DEF Cap
  <2>2. a = AppendTuple(page, i.adjStart, "adj", AdjTuple(i.meta.count, l, i.sel[l]), AdjCap)
    BY <1>4, <1>5, <1>a, <1>t, <2>1
  <2> QED BY <1>i, <1>l, <1>q, <2>2 DEF AppendAdj, Goto
<1>9. page \in Seq(PageType) /\ meta \in MetaType BY <1>2 DEF Typed
<1>10. tup \in AdjType /\ tup.node = N /\ tup.level = l /\ tup.nbrs = i.sel[l]
  <2>1. i.sel[l] \in SUBSET Nat BY <1>4, <1>6
  <2> QED BY <1>4, <1>6, <1>t, <2>1 DEF AdjTuple, AdjType
<1>11. Chained(page, cs, ads) /\ Placed(cs, ads) /\ Total(page, cs) = N + 1
  BY <1>1, <1>3, <1>i DEF Good, Placed
<1>12. PICK cs2, ads2 : /\ AppendedAt(page, cs, ads, page', cs2, ads2, "adj", tup, q)
                        /\ a.start = Start(ads2)
  <2>1. "adj" \in Kinds /\ tup \in TupleType("adj") BY <1>10 DEF Kinds, TupleType
  <2>k. PICK kind : kind = "adj" OBVIOUS
  <2>s. PICK s : s = ads OBVIOUS
  <2>2. /\ kind # "code" /\ s = (IF kind = "code" THEN cs ELSE ads) /\ kind \in Kinds /\ tup \in TupleType(kind)
        /\ a = AppendTuple(page, Start(s), kind, tup, Cap(kind))
    BY <1>a, <2>1, <2>s, <2>k
  <2>3. \E cs2, ads2 : /\ AppendedAt(page, cs, ads, a.pages, cs2, ads2, kind, tup, <<a.blk, a.off>>)
                       /\ a.start = Start(IF kind = "code" THEN cs2 ELSE ads2)
    BY <1>9, <1>11, <2>2, Appended
  <2> QED BY <1>8, <1>q, <2>2, <2>3, <2>k
<1>13. /\ Chained(page', cs2, ads2) /\ Grew(page, page', "adj", tup, q) /\ Extends(cs, cs2)
       /\ Total(page', cs2) = N + 1 /\ cs2 = cs /\ page' \in Seq(PageType)
  BY <1>11, <1>12 DEF AppendedAt
<1>14. /\ Spots(page', "adj") = AdjSpots \cup {q} /\ Spots(page', "code") = CodeSpots /\ At(page', q) = tup
       /\ \A p \in CodeSpots : At(page', p) = At(page, p)
       /\ \A p \in AdjSpots : At(page', p) = At(page, p)
       /\ q \in Nat \X Nat /\ q \notin AdjSpots
  BY <1>13 DEF Grew, CodeSpots, AdjSpots
<1>x. PICK x : x = [i EXCEPT !.adjStart = a.start, !.loc = Append(i.loc, q)] OBVIOUS
<1>15. Sets(b, cache[b], x, label)
  <2>1. cache' = [cache EXCEPT ![b] = cache[b]] BY <1>2, <1>3, SelfMoves
  <2>2. op = [e \in Backends |-> op[e]] BY <1>2 DEF Typed
  <2>3. op' = [op EXCEPT ![b] = x] BY <1>8, <1>i, <1>x, <2>2
  <2> QED BY <1>8, <2>1, <2>3 DEF Sets
<1>16. Touches(b) /\ Alone(b) /\ op'[b] = x /\ pc'[b] = label /\ cache'[b] = cache[b]
  BY <1>2, <1>15, OneMoves DEF Sets
<1>17. Start(ads2) \in Nat
  <2>1. ads2 \in Seq(1..Len(page')) BY <1>13 DEF Chained, IsChain
  <2>2. ads2 # <<>> => ads2[1] \in 1..Len(page') BY <2>1
  <2> QED BY <2>2, Basics DEF Start
<1>o. PICK loc : loc = Append(i.loc, q) OBVIOUS
<1>18. /\ loc \in Seq(Nat \X Nat) /\ Len(loc) = l + 1 /\ loc[l + 1] = q
       /\ \A m \in 1..l : loc[m] = i.loc[m]
  <2>1. /\ Append(i.loc, q) \in Seq(Nat \X Nat) /\ Len(Append(i.loc, q)) = Len(i.loc) + 1
        /\ \A m \in 1..Len(i.loc) : Append(i.loc, q)[m] = i.loc[m]
        /\ Append(i.loc, q)[Len(i.loc) + 1] = q
    BY <1>4, <1>14, AppendProperties
  <2> QED BY <1>i, <1>o, <2>1
<1>19. /\ x \in InsertOp /\ x.kind = i.kind /\ x.tid = i.tid /\ x.meta = i.meta /\ x.codeStart = i.codeStart
       /\ x.adjStart = Start(ads2) /\ x.loc = loc /\ x.sel = i.sel /\ x.todo = i.todo
  <2>1. x = [i EXCEPT !.adjStart = Start(ads2), !.loc = loc] BY <1>12, <1>o, <1>x
  <2> QED BY <1>4, <1>17, <1>18, <2>1 DEF InsertOp
<1>20. Writing(b)' /\ Inserting(b)' /\ (UsesCache(b)' <=> UsesCache(b)) /\ ~Scanning(b)' /\ label \in {"adj", "meta"}
  BY <1>3, <1>16, <1>19, <1>7, <1>i DEF Writing, Inserting, UsesCache, Scanning
<1>21. Typed'
  <2>1. OpTyped(b)'
    <3>1. InsertOp' = InsertOp BY <1>3 DEF InsertOp
    <3>2. x \in InsertOp' BY <1>19, <3>1
    <3> QED BY <1>16, <1>20, <3>2 DEF OpTyped, InsertPcs
  <2>2. CacheTyped(b)'
    <3>1. CacheTyped(b) BY <1>2 DEF Typed
    <3> QED BY <1>16, <3>1 DEF CacheTyped
  <2>3. meta' \in MetaType /\ heap' \in [Tids -> HeapType] /\ rows' \in Nat /\ bounds' \in Counters /\ meta'.count = meta.count
    BY <1>2, <1>3 DEF Typed
  <2>4. (\E z : cache' = [cache EXCEPT ![b] = z]) /\ (\E z : op' = [op EXCEPT ![b] = z])
        /\ \E z : pc' = [pc EXCEPT ![b] = z] BY <1>15 DEF Sets
  <2> QED BY <1>2, <1>3, <1>13, <1>16, <2>1, <2>2, <2>3, <2>4, TypedStep
<1>22. Turns' BY <1>2, <1>3, <1>16, <1>20, TurnsStep
<1>23. /\ Levels(meta') /\ VacOk(cs2, ads2)'
       /\ \A e \in Backends : CacheOk(cs2, ads2, e)' /\ (e # b => InsertOk(cs2, ads2, e)' /\ ScanOk(e)')
       /\ N # 0 => Start(cs2) = Start(cs) /\ Start(ads2) = Start(ads)
  <2>1. cache[b] # NoCache => Ready(cs, cache[b], pc'[b])
    <3>1. cache[b] # NoCache => Ready(cs, cache[b], "adj") BY <1>1, <1>3 DEF Good, CacheOk
    <3> QED BY <1>16, <1>20, <3>1, ReadyAlike
  <2>2. "adj" \in Kinds /\ "adj" # "code" BY DEF Kinds
  <2>3. tup.node = meta.count /\ AppendedAt(page, cs, ads, page', cs2, ads2, "adj", tup, q)
    BY <1>10, <1>12, <1>i
  <2>4. /\ Inserting(b) /\ Touches(b) /\ (UsesCache(b)' => UsesCache(b))
        /\ meta' = meta /\ heap' = heap /\ vac' = vac /\ bounds' = bounds /\ cache' = cache
    BY <1>3, <1>16, <1>20
  <2>5. Grows(b, cs, ads, cs2, ads2, "adj", tup, q) BY <2>1, <2>2, <2>3, <2>4 DEF Grows
  <2>6. /\ page' \in Seq(PageType) /\ Chained(page', cs2, ads2) /\ Levels(meta')
        /\ VacOk(cs2, ads2)'
        /\ \A e \in Backends : CacheOk(cs2, ads2, e)' /\ (e # b => InsertOk(cs2, ads2, e)' /\ ScanOk(e)')
        /\ meta.count # 0 => Start(cs2) = Start(cs) /\ Start(ads2) = Start(ads)
    BY <1>1, <1>2, <2>5, GrowStep
  <2> QED BY ONLY <1>i, <2>6
<1>24. \A e \in Backends : e # b => ~Writing(e) /\ ~Writing(e)'
  <2> SUFFICES ASSUME NEW e \in Backends, e # b PROVE ~Writing(e) /\ ~Writing(e)' OBVIOUS
  <2>1. ~Writing(e) BY <1>2, <1>4, KindsOf DEF Writing
  <2> QED BY <1>16, <2>1 DEF Alone, Unmoved, Writing
<1>25. \A p \in AdjSpots : At(page, p).node \in Nat /\ At(page, p).level \in Nat BY <1>1, <1>2, AdjSpotIs
<1>26. ASSUME NEW p \in AdjSpots PROVE ~(At(page, p).node = N /\ At(page, p).level = l)
  <2> SUFFICES ASSUME At(page, p).node = N, At(page, p).level = l PROVE FALSE OBVIOUS
  <2>1. AdjOf(N, l) \/ AdjNew(N, l) BY <1>4, <1>6, <1>11 DEF Placed
  <2>2. ~AdjOf(N, l) BY <1>4, <1>i DEF AdjOf
  <2>3. ~AdjNew(N, l) BY <1>6, <1>24, <1>i DEF AdjNew
  <2> QED BY <2>1, <2>2, <2>3
<1>27. Placed(cs2, ads2)'
  <2>1. Placed(cs, ads) BY <1>11
  <2>2. \E e \in Backends : Writing(e)' BY <1>20
  <2>3. ASSUME NEW n \in Nat, NEW m \in Nat
        PROVE  (AdjOf(n, m)' \/ AdjNew(n, m)') <=> (AdjOf(n, m) \/ AdjNew(n, m) \/ (n = N /\ m = l))
    <3>1. AdjNew(n, m) <=> n = N /\ m < l BY <1>3, <1>24, <1>i DEF AdjNew
    <3>2. AdjNew(n, m)' <=> n = N /\ m < l + 1 BY <1>3, <1>16, <1>18, <1>19, <1>20, <1>24, <1>i DEF AdjNew
    <3>3. AdjOf(n, m)' <=> AdjOf(n, m) BY <1>3 DEF AdjOf
    <3>4. m < l + 1 <=> m < l \/ m = l BY <1>6
    <3> QED BY <3>1, <3>2, <3>3, <3>4
  <2>4. AdjSpots' = AdjSpots \cup {q} BY <1>14 DEF AdjSpots
  <2>5. \A p, r \in AdjSpots' :
          /\ At(page', p).node = At(page', r).node /\ At(page', p).level = At(page', r).level => p = r
    <3> SUFFICES ASSUME NEW p \in AdjSpots \cup {q}, NEW r \in AdjSpots \cup {q},
                        At(page', p).node = At(page', r).node, At(page', p).level = At(page', r).level
                 PROVE  p = r
      BY <2>4
    <3>1. CASE p \in AdjSpots /\ r \in AdjSpots BY <1>14, <2>1, <3>1 DEF Placed
    <3>2. CASE p = q /\ r \in AdjSpots BY <1>10, <1>14, <1>26, <3>2
    <3>3. CASE p \in AdjSpots /\ r = q BY <1>10, <1>14, <1>26, <3>3
    <3> QED BY <3>1, <3>2, <3>3
  <2>6. \A n, m \in Nat : AdjOf(n, m)' \/ AdjNew(n, m)' <=>
          \E p \in AdjSpots' : At(page', p).node = n /\ At(page', p).level = m
    <3> TAKE n, m \in Nat
    <3>1. AdjOf(n, m) \/ AdjNew(n, m) <=> \E p \in AdjSpots : At(page, p).node = n /\ At(page, p).level = m
      BY <2>1 DEF Placed
    <3>2. (\E p \in AdjSpots' : At(page', p).node = n /\ At(page', p).level = m)
          <=> (\E p \in AdjSpots : At(page, p).node = n /\ At(page, p).level = m) \/ (n = N /\ m = l)
      BY ONLY <1>10, <1>14, <2>4
    <3>3. (AdjOf(n, m)' \/ AdjNew(n, m)') <=> (AdjOf(n, m) \/ AdjNew(n, m) \/ (n = N /\ m = l)) BY <2>3
    <3> QED BY ONLY <3>1, <3>2, <3>3
  <2>7. /\ meta.codeStart = IF meta.count = 0 THEN Nil ELSE Start(cs2)
        /\ meta.adjStart = IF meta.count = 0 THEN Nil ELSE Start(ads2)
    BY <1>23, <1>i, <2>1 DEF Placed
  <2> QED BY <1>3, <1>13, <1>i, <2>2, <2>5, <2>6, <2>7 DEF Placed
<1>28. Lists'
  <2>1. \A n, m, T : ListOk(n, m, T)' <=> ListOk(n, m, T) BY <1>3 DEF ListOk
  <2>2. Lists BY <1>1 DEF Good
  <2>3. ListOk(N, l, i.sel[l])
    <3>1. NodeIds = 0..(MaxRows - 1) /\ MaxRows \in Nat BY Basics
    <3>2. i.sel[l] \in SUBSET Nat BY <1>4, <1>6
    <3>3. /\ Cardinality(i.sel[l]) <= LevelM(l)
          /\ \A n \in i.sel[l] : n < N /\ NodeLevel[n] >= l
      BY <1>5, <1>6
    <3>4. \A n \in i.sel[l] : n \in NodeIds /\ n # N /\ n <= N BY <1>4, <3>1, <3>2, <3>3
    <3> QED BY <1>i, <3>3, <3>4 DEF ListOk
  <2>4. \A p \in Spots(page', "adj") : ListOk(At(page', p).node, At(page', p).level, At(page', p).nbrs)
    BY <1>10, <1>14, <2>2, <2>3 DEF Lists
  <2> QED BY <2>1, <2>4 DEF Lists, AdjSpots
<1>29. HeapOk'
  <2>1. HeapOk BY <1>1 DEF Good
  <2> QED BY <1>3, <1>14, <2>1 DEF HeapOk, HasNode, CodeSpots
<1>30. InsertOk(cs2, ads2, b)'
  <2>1. \A p \in Spots(page', "code") : At(page', p).node = N =>
          At(page', p).tid = i.tid /\ At(page', p).row = heap[i.tid].row /\ ~At(page', p).dead
    BY <1>5, <1>14
  <2>2. \A m \in 1..(l + 1) : /\ loc[m] \in Spots(page', "adj") /\ At(page', loc[m]).node = N
                              /\ At(page', loc[m]).level = m - 1
    <3> TAKE m \in 1..(l + 1)
    <3>1. CASE m \in 1..l
      <4>1. PICK r : r = i.loc[m] OBVIOUS
      <4>2. r \in AdjSpots /\ At(page, r).node = N /\ At(page, r).level = m - 1 /\ loc[m] = r
        BY <1>5, <1>18, <3>1, <4>1
      <4> QED BY <1>14, <4>2
    <3>2. CASE m = l + 1
      <4>1. m - 1 = l BY <1>6, <3>2
      <4> QED BY <1>10, <1>14, <1>18, <3>2, <4>1
    <3> QED BY <1>6, <3>1, <3>2
  <2>3. /\ Len(loc) <= NodeLevel[N] + 1 /\ (label = "adj" => Len(loc) <= NodeLevel[N])
        /\ (label = "meta" => Len(loc) = NodeLevel[N] + 1) /\ label # "link"
    BY <1>4, <1>5, <1>6, <1>7, <1>18
  <2>4. i.codeStart = Start(cs2) BY <1>5, <1>13
  <2>5. \A m \in 1..Len(loc) : /\ loc[m] \in Spots(page', "adj") /\ At(page', loc[m]).node = N
                               /\ At(page', loc[m]).level = m - 1
    BY <1>18, <2>2
  <2> QED BY <1>3, <1>5, <1>16, <1>19, <1>20, <1>i, <2>1, <2>3, <2>4, <2>5 DEF InsertOk, CodeSpots, AdjSpots
<1>31. ScanOk(b)' BY <1>3, <1>16, <1>19, <1>i DEF ScanOk, Inserting
<1>32. \A e \in Backends : InsertOk(cs2, ads2, e)' /\ CacheOk(cs2, ads2, e)' /\ ScanOk(e)' BY <1>23, <1>30, <1>31
<1>33. Good(cs2, ads2)' BY <1>13, <1>23, <1>27, <1>28, <1>29, <1>32 DEF Good
<1> QED BY <1>21, <1>22, <1>33 DEF Inv

LEMMA BumpOne ==
  ASSUME NEW g \in 0..(Wide - 1)
  PROVE  g \in Nat /\ Bump(g) \in 0..(Wide - 1) /\ Bump(g) = (g + 1) % Wide
<1>1. g \in Nat /\ g = g % Wide BY InWide
<1>2. Bump(g) \in 0..(Wide - 1) /\ Bump(g) = (g + 1) % Wide BY <1>1, NextGeneration
<1> QED BY <1>1, <1>2

\* The metapage of TqGraphUpdateMetaPage
LEMMA NewMeta ==
  ASSUME Typed, Turns, NEW cs, NEW ads, Good(cs, ads), NEW b \in Backends, UpdateMeta(b)
  PROVE  /\ Inserting(b) /\ Writing(b) /\ meta' \in MetaType /\ meta'.count = meta.count + 1
         /\ meta'.gen = Bump(meta.gen)
         /\ meta'.codeStart = Start(cs) /\ meta'.adjStart = Start(ads) /\ Levels(meta')
<1>i. PICK i, N : i = op[b] /\ N = meta.count OBVIOUS
<1>1. pc[b] = "meta" /\ Inserting(b) /\ Writing(b) BY KindsOf DEF UpdateMeta, Writing
<1>2. /\ i.meta.count = N /\ i.meta.entry = meta.entry /\ i.meta.maxLevel = meta.maxLevel
      /\ N \in NodeIds /\ N \in Nat /\ NodeLevel[N] \in Nat
      /\ i.codeStart \in Nat /\ i.adjStart \in Nat
  <2>1. op[b] \in InsertOp BY <1>1, KindsOf
  <2> QED BY <1>1, <1>i, <2>1, InsertIs DEF InsertOp
<1>3. i.codeStart = Start(cs) /\ i.adjStart = Start(ads) BY <1>1, <1>i DEF Good, InsertOk
<1>e. PICK entry, top :
        /\ entry = IF N = 0 \/ NodeLevel[N] > meta.maxLevel THEN N ELSE meta.entry
        /\ top = IF NodeLevel[N] > meta.maxLevel THEN NodeLevel[N] ELSE meta.maxLevel OBVIOUS
<1>4. meta' = [gen |-> Bump(meta.gen), count |-> N + 1, entry |-> entry, maxLevel |-> top,
               codeStart |-> i.codeStart, adjStart |-> i.adjStart]
  BY <1>2, <1>i, <1>e DEF UpdateMeta
<1>5. /\ meta'.count = N + 1 /\ meta'.gen = Bump(meta.gen) /\ meta'.entry = entry /\ meta'.maxLevel = top
      /\ meta'.codeStart = i.codeStart /\ meta'.adjStart = i.adjStart
  BY <1>4
<1>6. meta \in MetaType BY DEF Typed
<1>7. meta.gen \in 0..(Wide - 1) /\ meta.maxLevel \in Nat /\ meta.entry \in Nat BY <1>6 DEF MetaType
<1>8. /\ meta.maxLevel <= TopLevel /\ \A n \in NodeIds : n < N => NodeLevel[n] <= meta.maxLevel
      /\ meta.entry = NoNode \/ meta.entry < N
      /\ N # 0 => meta.entry # NoNode
  BY <1>i DEF Good, Levels
<1>9. /\ NodeIds = 0..(MaxRows - 1) /\ NoNode = MaxRows /\ MaxRows \in Nat /\ TopLevel \in Nat
      /\ NodeLevel[N] <= TopLevel /\ \A n \in NodeIds : NodeLevel[n] \in Nat
  BY <1>2, Basics, TopIs
<1>10. entry \in Nat /\ top \in Nat /\ top <= TopLevel /\ entry # NoNode /\ entry < N + 1
       /\ \A n \in NodeIds : n < N + 1 => NodeLevel[n] <= top
  <2>1. entry \in Nat /\ top \in Nat /\ top <= TopLevel BY <1>2, <1>7, <1>8, <1>9, <1>e
  <2>2. N # NoNode BY <1>2, <1>9
  <2>3. entry # NoNode /\ entry < N + 1 BY <1>2, <1>7, <1>8, <1>e, <2>2
  <2>4. ASSUME NEW n \in NodeIds, n < N + 1 PROVE NodeLevel[n] <= top
    <3>1. n < N \/ n = N BY <1>2, <1>9, <2>4
    <3>2. NodeLevel[n] \in Nat BY <1>9
    <3>3. CASE n = N BY <1>2, <1>7, <1>e, <3>3
    <3>4. CASE n < N
      <4>1. NodeLevel[n] <= meta.maxLevel BY <1>8, <3>4
      <4> QED BY <1>2, <1>7, <1>e, <3>2, <4>1
    <3> QED BY <3>1, <3>3, <3>4
  <2> QED BY <2>1, <2>3, <2>4
<1>11. meta' \in MetaType
  <2>1. Bump(meta.gen) \in 0..(Wide - 1) BY <1>7, BumpOne
  <2> QED BY <1>2, <1>4, <1>10, <2>1 DEF MetaType
<1>12. Levels(meta') BY <1>5, <1>10 DEF Levels
<1> QED BY <1>1, <1>3, <1>5, <1>11, <1>12, <1>i

\* What UpdateMeta does
LEMMA UpdateIs ==
  ASSUME Typed, NEW cs, NEW ads, Good(cs, ads), Turns, NEW b \in Backends, UpdateMeta(b)
  PROVE  /\ page' = page /\ rows' = rows /\ vac' = vac /\ bounds' = bounds
         /\ heap' = [heap EXCEPT ![op[b].tid].state = "live"]
         /\ op' = [op EXCEPT ![b] = NoOp] /\ pc' = [pc EXCEPT ![b] = "idle"]
         /\ meta.count = 0 => cache' = cache
         /\ meta.count # 0 => cache' = [cache EXCEPT ![b] = CacheWithNode(cache[b], op[b], meta')]
<1>1. Inserting(b) BY NewMeta
<1>2. op[b].meta.count = meta.count BY <1>1, InsertIs
<1> QED BY <1>2 DEF UpdateMeta, Goto

\* The cache of TqGraphAppendInsertCacheNode
LEMMA GrownCache ==
  ASSUME Typed, Turns, NEW cs, NEW ads, Good(cs, ads), NEW b \in Backends, UpdateMeta(b), meta.count # 0,
         NEW y, y = CacheWithNode(cache[b], op[b], meta')
  PROVE  /\ cache[b] # NoCache /\ CacheOk(cs, ads, b) /\ UsesCache(b) /\ cache[b].key.count = meta.count
         /\ cache[b].key \in MetaType
         /\ y \in CacheType(y.key) /\ y.key = [meta' EXCEPT !.gen = cache[b].key.gen] /\ y.cached /\ y # NoCache
         /\ NodesOk(y)' /\ CellsOk(y)' /\ Ready(cs, y, "idle")'
<1>c. PICK c, i, N, m : c = cache[b] /\ i = op[b] /\ N = meta.count /\ m = meta' OBVIOUS
<1>1. /\ Inserting(b) /\ Writing(b) /\ m \in MetaType /\ m.count = N + 1 /\ page' = page /\ pc[b] = "meta"
  <2>1. pc[b] = "meta" BY DEF UpdateMeta
  <2> QED BY <1>c, <2>1, NewMeta, UpdateIs
<1>2. /\ i \in InsertOp /\ i.meta.count = N /\ N \in NodeIds /\ N \in Nat /\ NodeLevel[N] \in Nat
      /\ i.sel \in [0..NodeLevel[N] -> SUBSET Nat] /\ DOMAIN i.sel = 0..NodeLevel[N]
      /\ i.tid \in Tids /\ \A e \in Backends : e # b => ~Inserting(e)
  BY <1>1, <1>c, InsertIs
<1>3. UsesCache(b) BY <1>1, <1>2, <1>c DEF UsesCache
<1>4. /\ \A l \in 0..NodeLevel[N] :
           /\ Cardinality(i.sel[l]) <= LevelM(l)
           /\ \A n \in i.sel[l] : n < N /\ NodeLevel[n] >= l
      /\ Len(i.loc) = NodeLevel[N] + 1
      /\ \A l \in 1..Len(i.loc) : /\ i.loc[l] \in AdjSpots /\ At(page, i.loc[l]).node = N
                                  /\ At(page, i.loc[l]).level = l - 1
      /\ \A p \in CodeSpots : At(page, p).node = N =>
           At(page, p).tid = i.tid /\ At(page, p).row = heap[i.tid].row /\ ~At(page, p).dead
      /\ c # NoCache /\ c.key = i.meta
  <2>1. InsertOk(cs, ads, b) BY DEF Good
  <2> QED BY <1>1, <1>3, <1>c, <2>1 DEF InsertOk
<1>5. CacheOk(cs, ads, b) /\ Placed(cs, ads) BY DEF Good
<1>6. /\ c \in CacheType(c.key) /\ c.key \in MetaType /\ c.key.count = N
      /\ DOMAIN c.nodes = 0..(N - 1) /\ DOMAIN c.adj = 0..(N - 1) /\ c.nodes \in [0..(N - 1) -> Loaded]
  BY <1>2, <1>4, <1>5, <1>c, TypedCache
<1>7. /\ NodesOk(c) /\ CellsOk(c) /\ c.cached /\ (\A n \in 0..(N - 1) : c.nodes[n] # NotLoaded)
      /\ Reached(c, Blocks)
  <2>1. NodesOk(c) /\ CellsOk(c) /\ Ready(cs, c, "meta") BY <1>1, <1>4, <1>5, <1>c DEF CacheOk
  <2> QED BY <1>6, <2>1 DEF Ready
<1>t. PICK tup : tup = CodeTuple(N, i.tid, heap[i.tid].row) OBVIOUS
<1>s. PICK nodes : nodes = [n \in 0..N |-> IF n \in DOMAIN c.nodes THEN c.nodes[n]
                              ELSE CodeTuple(n, i.tid, heap[i.tid].row)] OBVIOUS
<1> DEFINE Cell(l) == [nbrs |-> i.sel[l], blk |-> i.loc[l + 1][1], off |-> i.loc[l + 1][2]]
<1>z. PICK last : last = [l \in 0..TopLevel |-> IF l \in DOMAIN i.sel THEN Cell(l) ELSE NoAdj] OBVIOUS
<1>a. PICK adj : adj = [n \in 0..N |-> IF n \in DOMAIN c.adj THEN c.adj[n] ELSE last] OBVIOUS
<1>k. PICK key : key = [m EXCEPT !.gen = c.key.gen] OBVIOUS
<1>8. y = [c EXCEPT !.key = key, !.nodes = nodes, !.adj = adj]
  <2>1. y = CacheWithNode(c, i, m) BY <1>c
  <2> QED BY <1>2, <1>a, <1>k, <1>s, <1>z, <2>1 DEF CacheWithNode
<1>f. \A l : Cell(l).nbrs = i.sel[l] /\ Cell(l).blk = i.loc[l + 1][1] /\ Cell(l).off = i.loc[l + 1][2] OBVIOUS
<1>g. \A l : i.sel[l] \in SUBSET Nat /\ i.loc[l + 1][1] \in Nat /\ i.loc[l + 1][2] \in Nat => Cell(l) \in AdjCell
  BY DEF AdjCell
<1>h. NoAdj.nbrs = {} /\ NoAdj.blk = Nil /\ NoAdj \in AdjCell BY Basics DEF NoAdj, AdjCell
<1> HIDE DEF Cell
<1>9. /\ \A n \in 0..(N - 1) : nodes[n] = c.nodes[n] /\ adj[n] = c.adj[n]
      /\ nodes[N] = tup /\ DOMAIN nodes = 0..N /\ DOMAIN adj = 0..N /\ adj[N] = last
      /\ \A l \in 0..TopLevel : adj[N][l] = IF l \in 0..NodeLevel[N] THEN Cell(l) ELSE NoAdj
  <2>1. N \notin 0..(N - 1) /\ N \in 0..N /\ \A n \in 0..(N - 1) : n \in 0..N BY <1>2
  <2>2. /\ \A n \in 0..(N - 1) : nodes[n] = c.nodes[n] /\ adj[n] = c.adj[n]
        /\ nodes[N] = tup /\ DOMAIN nodes = 0..N /\ DOMAIN adj = 0..N /\ adj[N] = last
    BY <1>6, <1>a, <1>s, <1>t, <2>1
  <2> QED BY <1>2, <1>z, <2>2
<1>10. 0..N = (0..(N - 1)) \cup {N} /\ N + 1 - 1 = N BY <1>2
<1>11. /\ key \in MetaType /\ key.count = N + 1
  BY <1>1, <1>6, <1>k DEF MetaType
<1>12. tup \in Loaded /\ tup # NotLoaded /\ tup.node = N /\ tup.tid = i.tid /\ tup.row = heap[i.tid].row /\ tup.dead = FALSE
  <2>1. heap[i.tid].row \in Nat BY <1>2 DEF Typed, HeapType
  <2>2. N # NoNode
    <3>1. NodeIds = 0..(MaxRows - 1) /\ NoNode = MaxRows /\ MaxRows \in Nat BY Basics
    <3> QED BY <1>2, <3>1
  <2>3. tup = [node |-> N, tid |-> i.tid, row |-> heap[i.tid].row, dead |-> FALSE] BY <1>t DEF CodeTuple
  <2>4. NotLoaded.node = NoNode BY DEF NotLoaded, CodeTuple
  <2>5. tup \in Loaded BY <1>2, <2>1, <2>3 DEF Loaded
  <2> QED BY <2>2, <2>3, <2>4, <2>5
<1>13. nodes \in [0..N -> Loaded]
  <2>1. \A n \in 0..N : nodes[n] \in Loaded BY <1>6, <1>9, <1>10, <1>12
  <2>2. nodes = [n \in 0..N |-> nodes[n]] BY <1>s
  <2> QED BY <2>1, <2>2
<1>14. \A l \in 0..NodeLevel[N] :
         /\ l + 1 \in 1..Len(i.loc) /\ i.loc[l + 1] \in AdjSpots /\ At(page, i.loc[l + 1]).node = N
         /\ At(page, i.loc[l + 1]).level = l /\ i.loc[l + 1] = <<i.loc[l + 1][1], i.loc[l + 1][2]>>
         /\ i.loc[l + 1][1] \in Nat \ {0} /\ i.loc[l + 1][2] \in Nat
  <2> TAKE l \in 0..NodeLevel[N]
  <2>1. l + 1 \in 1..Len(i.loc) /\ l + 1 - 1 = l BY <1>2, <1>4
  <2>r. PICK r : r = i.loc[l + 1] OBVIOUS
  <2>2. r \in AdjSpots /\ At(page, r).node = N /\ At(page, r).level = l BY <1>4, <2>1, <2>r
  <2>3. r = <<r[1], r[2]>> /\ r[1] \in Nat \ {0} /\ r[2] \in Nat BY <2>2 DEF AdjSpots, Spots
  <2> QED BY <2>1, <2>2, <2>3, <2>r
<1>15. \A l \in 0..TopLevel : adj[N][l] \in AdjCell
  <2> TAKE l \in 0..TopLevel
  <2>1. CASE l \in 0..NodeLevel[N]
    <3>1. i.sel[l] \in SUBSET Nat BY <1>2, <2>1
    <3> QED BY <1>9, <1>14, <1>g, <2>1, <3>1
  <2>2. CASE l \notin 0..NodeLevel[N] BY <1>9, <1>h, <2>2
  <2> QED BY <2>1, <2>2
<1>16. adj \in [0..N -> [0..TopLevel -> AdjCell]]
  <2>1. c.adj \in [0..(N - 1) -> [0..TopLevel -> AdjCell]] BY <1>6 DEF CacheType
  <2>2. \A n \in 0..(N - 1) : adj[n] \in [0..TopLevel -> AdjCell] BY <1>9, <2>1
  <2>3. adj[N] \in [0..TopLevel -> AdjCell]
    <3>1. last = [l \in 0..TopLevel |-> last[l]] BY <1>z
    <3> QED BY <1>9, <1>15, <3>1
  <2>4. adj = [n \in 0..N |-> adj[n]] BY <1>a
  <2> QED BY <1>10, <2>2, <2>3, <2>4
<1>17. /\ y \in CacheType(key) /\ y.key = key /\ y.nodes = nodes /\ y.adj = adj /\ y.cached = c.cached
  <2>1. c = [key |-> c.key, cached |-> c.cached, pageNo |-> c.pageNo, mapped |-> c.mapped, adjBlk |-> c.adjBlk,
             nodes |-> c.nodes, adj |-> c.adj]
        /\ c.cached \in BOOLEAN /\ c.pageNo \in Nat /\ c.mapped \in BOOLEAN /\ c.adjBlk \in Nat
    BY <1>6 DEF CacheType
  <2>2. y = [key |-> key, cached |-> c.cached, pageNo |-> c.pageNo, mapped |-> c.mapped, adjBlk |-> c.adjBlk,
             nodes |-> nodes, adj |-> adj]
    BY ONLY <1>8, <2>1
  <2>3. key.count - 1 = N BY <1>10, <1>11
  <2>4. y \in CacheType(key) BY <1>11, <1>13, <1>16, <2>1, <2>2, <2>3 DEF CacheType
  <2> QED BY ONLY <2>2, <2>4
<1>18. NodesOk(y)'
  <2>1. ASSUME NEW p \in CodeSpots, At(page, p).node < N + 1
        PROVE  LET t == At(page, p) IN
               /\ nodes[t.node].node = t.node /\ nodes[t.node].tid = t.tid
               /\ nodes[t.node].row = t.row /\ (nodes[t.node].dead => t.dead)
    <3>n. PICK n : n = At(page, p).node OBVIOUS
    <3>1. n \in Nat
      <4>1. "code" \in Kinds /\ page \in Seq(PageType) BY DEF Kinds, Typed
      <4> QED BY <3>n, <4>1, SpotTyped DEF CodeSpots
    <3>2. CASE n < N
      <4>1. n \in 0..(N - 1) BY <1>2, <3>1, <3>2
      <4> QED BY <1>6, <1>7, <1>9, <3>n, <3>2, <4>1 DEF NodesOk
    <3>3. CASE ~(n < N)
      <4>1. n = N BY <1>2, <2>1, <3>1, <3>3, <3>n
      <4>2. nodes[n] = tup BY <1>9, <4>1
      <4> QED BY <1>4, <1>12, <3>n, <4>1, <4>2
    <3> QED BY <3>2, <3>3
  <2> QED BY <1>1, <1>11, <1>17, <2>1 DEF NodesOk, CodeSpots
<1>19. \A n, l, S : ListOk(n, l, S) => ListOk(n, l, S)'
  <2> SUFFICES ASSUME NEW n, NEW l, NEW S, ListOk(n, l, S) PROVE ListOk(n, l, S)' OBVIOUS
  <2>1. /\ S \subseteq NodeIds /\ Cardinality(S) <= LevelM(l)
        /\ \A x \in S : x # n /\ x <= N /\ NodeLevel[x] >= l
    BY <1>c DEF ListOk
  <2>2. NodeIds \subseteq Nat BY Basics
  <2>3. \A x \in S : x <= N + 1 BY <1>2, <2>1, <2>2
  <2>4. meta'.count = N + 1 BY <1>1, <1>c
  <2> QED BY <2>1, <2>3, <2>4 DEF ListOk
<1>20. \A n \in 0..N, l \in 0..TopLevel :
         /\ ListOk(n, l, adj[n][l].nbrs)'
         /\ adj[n][l].blk # Nil => /\ <<adj[n][l].blk, adj[n][l].off>> \in AdjSpots
                                   /\ At(page, <<adj[n][l].blk, adj[n][l].off>>).node = n
                                   /\ At(page, <<adj[n][l].blk, adj[n][l].off>>).level = l
  <2> TAKE n \in 0..N, l \in 0..TopLevel
  <2>1. CASE n \in 0..(N - 1)
    <3>1. /\ ListOk(n, l, c.adj[n][l].nbrs)
          /\ c.adj[n][l].blk # Nil => /\ <<c.adj[n][l].blk, c.adj[n][l].off>> \in AdjSpots
                                      /\ At(page, <<c.adj[n][l].blk, c.adj[n][l].off>>).node = n
                                      /\ At(page, <<c.adj[n][l].blk, c.adj[n][l].off>>).level = l
      BY <1>6, <1>7, <2>1 DEF CellsOk
    <3> QED BY <1>9, <1>19, <2>1, <3>1
  <2>2. CASE n = N /\ l \in 0..NodeLevel[N]
    <3>1. adj[n][l].nbrs = i.sel[l] /\ adj[n][l].blk = i.loc[l + 1][1] /\ adj[n][l].off = i.loc[l + 1][2]
      BY <1>9, <1>f, <2>2
    <3>2. ListOk(N, l, i.sel[l])
      <4>1. NodeIds = 0..(MaxRows - 1) /\ MaxRows \in Nat BY Basics
      <4>2. i.sel[l] \in SUBSET Nat BY <1>2, <2>2
      <4>3. /\ Cardinality(i.sel[l]) <= LevelM(l)
            /\ \A x \in i.sel[l] : x < N /\ NodeLevel[x] >= l
        BY <1>4, <2>2
      <4>4. \A x \in i.sel[l] : x \in NodeIds /\ x # N /\ x <= N BY <1>2, <4>1, <4>2, <4>3
      <4> QED BY <1>c, <4>3, <4>4 DEF ListOk
    <3>r. PICK r : r = i.loc[l + 1] OBVIOUS
    <3>3. r \in AdjSpots /\ At(page, r).node = N /\ At(page, r).level = l /\ r = <<r[1], r[2]>> BY <1>14, <2>2, <3>r
    <3> QED BY <1>19, <2>2, <3>1, <3>2, <3>3, <3>r
  <2>3. CASE n = N /\ l \notin 0..NodeLevel[N]
    <3>1. adj[n][l].nbrs = {} /\ adj[n][l].blk = Nil BY <1>9, <1>h, <2>3
    <3>2. ListOk(n, l, {})
      <4>1. Cardinality({}) = 0 /\ 0 <= LevelM(l) BY FS_EmptySet, LevelMIs
      <4> QED BY <4>1 DEF ListOk
    <3> QED BY <1>19, <3>1, <3>2
  <2> QED BY <1>10, <2>1, <2>2, <2>3
<1>21. CellsOk(y)'
  <2>1. y.key.count - 1 = N BY <1>10, <1>11, <1>17
  <2>2. AdjSpots' = AdjSpots /\ page' = page BY <1>1 DEF AdjSpots
  <2>3. \A n \in 0..(y.key.count - 1), l \in 0..TopLevel :
          /\ ListOk(n, l, y.adj[n][l].nbrs)'
          /\ y.adj[n][l].blk # Nil => /\ <<y.adj[n][l].blk, y.adj[n][l].off>> \in AdjSpots'
                                      /\ At(page', <<y.adj[n][l].blk, y.adj[n][l].off>>).node = n
                                      /\ At(page', <<y.adj[n][l].blk, y.adj[n][l].off>>).level = l
    BY <1>17, <1>20, <2>1, <2>2
  <2> QED BY <2>3 DEF CellsOk
<1>22. Reached(y, Blocks)'
  <2> SUFFICES ASSUME NEW q \in AdjSpots, At(page, q).node < N + 1
               PROVE  adj[At(page, q).node][At(page, q).level].blk # Nil
    BY <1>1, <1>11, <1>17 DEF Reached, AdjSpots
  <2>n. PICK n, l : n = At(page, q).node /\ l = At(page, q).level OBVIOUS
  <2>1. n \in Nat /\ l \in Nat BY <2>n, AdjSpotIs
  <2>2. CASE n < N
    <3>1. q[1] \in Blocks BY DEF AdjSpots, Spots, Blocks
    <3>2. c.adj[n][l].blk # Nil BY <1>6, <1>7, <2>2, <2>n, <3>1 DEF Reached
    <3>3. n \in 0..(N - 1) BY <1>2, <2>1, <2>2
    <3> QED BY <1>9, <2>n, <3>2, <3>3
  <2>3. CASE ~(n < N)
    <3>1. n = N BY <1>2, <2>1, <2>3, <2>n
    <3>2. AdjOf(n, l) \/ AdjNew(n, l) BY <1>5, <2>1, <2>n DEF Placed
    <3>3. ~AdjOf(n, l) BY <1>2, <1>c, <3>1 DEF AdjOf
    <3>4. l < Len(i.loc)
      <4>1. PICK e \in Backends : Writing(e) /\ l < Len(op[e].loc) BY <3>2, <3>3 DEF AdjNew
      <4>2. e = b BY <1>2, <4>1, KindsOf DEF Writing
      <4> QED BY <1>c, <4>1, <4>2
    <3>5. l \in 0..NodeLevel[N] BY <1>2, <1>4, <2>1, <3>4
    <3>6. l \in 0..TopLevel
      <4>1. TopLevel \in Nat /\ NodeLevel[N] <= TopLevel BY <1>2, TopIs
      <4> QED BY <1>2, <3>5, <4>1
    <3>7. adj[N][l].blk = i.loc[l + 1][1] BY <1>9, <1>f, <3>5, <3>6
    <3> QED BY <1>14, <2>n, <3>1, <3>5, <3>7, Basics
  <2> QED BY <2>2, <2>3
<1>23. Ready(cs, y, "idle")'
  <2>1. \A n \in 0..N : nodes[n] # NotLoaded
    <3> TAKE n \in 0..N
    <3>1. CASE n \in 0..(N - 1) BY <1>7, <1>9, <3>1
    <3>2. CASE n = N BY <1>9, <1>12, <3>2
    <3> QED BY <1>10, <3>1, <3>2
  <2>2. y.key.count - 1 = N BY <1>10, <1>11, <1>17
  <2>3. \A n \in 0..(y.key.count - 1) : y.nodes[n] # NotLoaded BY <1>17, <2>1, <2>2
  <2> QED BY <1>7, <1>17, <1>22, <2>3 DEF Ready
<1>24. y # NoCache
  <2>1. NoCache.cached = FALSE BY DEF NoCache
  <2> QED BY <1>7, <1>17, <2>1
<1> QED BY <1>3, <1>4, <1>5, <1>6, <1>7, <1>17, <1>18, <1>21, <1>23, <1>24, <1>c, <1>k

\* UpdateMeta moves the metapage only
LEMMA UpdateMoves ==
  ASSUME Typed, Turns, NEW cs, NEW ads, Good(cs, ads), NEW b \in Backends, UpdateMeta(b)
  PROVE  /\ Moved(cs, ads, cs, ads, 0) /\ page' \in Seq(PageType) /\ pc'[Vacuum] = pc[Vacuum] /\ Alone(b)
         /\ heap'[op[b].tid].row = heap[op[b].tid].row /\ heap'[op[b].tid].state = "live"
         /\ heap'[op[b].tid].indexed = heap[op[b].tid].indexed
         /\ op'[b] = NoOp /\ pc'[b] = "idle" /\ \A t \in Tids : t # op[b].tid => heap'[t] = heap[t]
<1>1. /\ Inserting(b) /\ meta'.count = meta.count + 1 /\ meta'.gen = Bump(meta.gen) BY NewMeta
<1>2. /\ page' = page /\ vac' = vac /\ bounds' = bounds
      /\ heap' = [heap EXCEPT ![op[b].tid].state = "live"]
      /\ op' = [op EXCEPT ![b] = NoOp] /\ pc' = [pc EXCEPT ![b] = "idle"]
      /\ meta.count = 0 => cache' = cache
      /\ meta.count # 0 => cache' = [cache EXCEPT ![b] = CacheWithNode(cache[b], op[b], meta')]
  BY UpdateIs
<1>3. /\ page \in Seq(PageType) /\ meta \in MetaType /\ bounds \in Counters /\ heap \in [Tids -> HeapType]
      /\ cache = [a \in Backends |-> cache[a]] /\ op = [a \in Backends |-> op[a]]
      /\ pc = [p \in Backends \cup {Vacuum} |-> pc[p]] /\ b # Vacuum
  BY Basics DEF Typed
<1>4. op'[b] = NoOp /\ \A a \in Backends : a # b => op'[a] = op[a] BY <1>2, <1>3
<1>5. pc'[b] = "idle" /\ pc'[Vacuum] = pc[Vacuum] /\ \A a \in Backends : a # b => pc'[a] = pc[a] BY <1>2, <1>3
<1>6. \A a \in Backends : a # b => cache'[a] = cache[a] BY <1>2, <1>3
<1>7. Alone(b) BY <1>4, <1>5, <1>6 DEF Alone, Unmoved
<1>8. /\ heap'[op[b].tid].row = heap[op[b].tid].row /\ heap'[op[b].tid].state = "live"
      /\ heap'[op[b].tid].indexed = heap[op[b].tid].indexed
      /\ \A t \in Tids : t # op[b].tid => heap'[t] = heap[t]
  <2>1. op[b].tid \in Tids BY <1>1, InsertIs
  <2>t. PICK t, h : t = op[b].tid /\ h = heap[t] OBVIOUS
  <2>2. h \in HeapType /\ t \in Tids BY <1>3, <2>1, <2>t
  <2>3. heap'[t] = [h EXCEPT !.state = "live"] /\ \A u \in Tids : u # t => heap'[u] = heap[u] BY <1>2, <1>3, <2>2, <2>t
  <2>4. heap'[t].row = h.row /\ heap'[t].state = "live" /\ heap'[t].indexed = h.indexed BY <2>2, <2>3 DEF HeapType
  <2> QED BY <2>3, <2>4, <2>t
<1>9. Moved(cs, ads, cs, ads, 0)
  <2>1. Edits(page, page') BY <1>2, <1>3, NoEdit
  <2>2. Kept(page, page', meta.count) BY <1>3, <2>1, EditsKept
  <2>3. Vacs' = Vacs /\ (Stale' = Stale) BY <1>2, <1>5 DEF Vacs, Stale, Marking
  <2>4. Vacs \in Nat /\ Vacs + 0 <= Vacs BY VacsIs
  <2>5. Extends(cs, cs)
    <3>1. Len(cs) \in Nat BY DEF Good, Chained, IsChain
    <3> QED BY <3>1 DEF Extends
  <2>6. meta.count \in Nat /\ meta.gen \in 0..(Wide - 1) BY <1>3 DEF MetaType
  <2>7. meta'.gen = (meta.gen + 0 + (meta'.count - meta.count)) % Wide
    <3>1. meta.gen \in Nat /\ Bump(meta.gen) = (meta.gen + 1) % Wide BY <2>6, BumpOne
    <3>2. meta.gen + 0 + (meta'.count - meta.count) = meta.gen + 1 BY <1>1, <2>6, <3>1
    <3> QED BY <1>1, <3>1, <3>2
  <2>8. FlagsKept BY <1>2 DEF FlagsKept
  <2> QED BY <1>1, <2>2, <2>3, <2>4, <2>5, <2>6, <2>7, <2>8 DEF Moved
<1> QED BY <1>2, <1>3, <1>4, <1>5, <1>7, <1>8, <1>9

LEMMA UpdatedCache ==
  ASSUME Typed, Turns, NEW cs, NEW ads, Good(cs, ads), NEW b \in Backends, UpdateMeta(b)
  PROVE  CacheOk(cs, ads, b)' /\ CacheTyped(b)'
<1>1. pc'[b] = "idle" /\ op'[b] = NoOp BY UpdateMoves
<1>2. /\ Inserting(b) /\ meta' \in MetaType /\ meta'.count = meta.count + 1 /\ meta'.gen = Bump(meta.gen)
      /\ meta'.codeStart = Start(cs) /\ meta'.adjStart = Start(ads) /\ Levels(meta')
  BY NewMeta
<1>3. meta \in MetaType /\ meta.count \in Nat /\ meta.gen \in 0..(Wide - 1) BY DEF Typed, MetaType
<1>4. CASE meta.count = 0
  <2>1. cache[b] = NoCache
    <3>1. SUFFICES ASSUME cache[b] # NoCache PROVE FALSE OBVIOUS
    <3>2. CacheOk(cs, ads, b) BY DEF Good
    <3>3. cache[b].key.count \in Nat \ {0} /\ cache[b].key.count <= meta.count BY <3>1, <3>2, TypedCache
    <3> QED BY <1>4, <3>3
  <2>2. cache' = cache BY <1>4, UpdateIs
  <2> QED BY <2>1, <2>2 DEF CacheOk, CacheTyped
<1>5. CASE meta.count # 0
  <2>y. PICK y, c, m : y = CacheWithNode(cache[b], op[b], meta') /\ c = cache[b] /\ m = meta' OBVIOUS
  <2>1. /\ c # NoCache /\ CacheOk(cs, ads, b) /\ UsesCache(b) /\ c.key.count = meta.count /\ c.key \in MetaType
        /\ y \in CacheType(y.key) /\ y.key = [m EXCEPT !.gen = c.key.gen] /\ y.cached /\ y # NoCache
        /\ NodesOk(y)' /\ CellsOk(y)' /\ Ready(cs, y, "idle")'
    BY <1>5, <2>y, GrownCache
  <2>2. cache'[b] = y
    <3>1. cache' = [cache EXCEPT ![b] = CacheWithNode(cache[b], op[b], meta')] BY <1>5, UpdateIs
    <3>2. cache = [a \in Backends |-> cache[a]] BY DEF Typed
    <3> QED BY <2>y, <3>1, <3>2
  <2>3. m \in MetaType /\ m.count = meta.count + 1 /\ m.codeStart = Start(cs) /\ m.adjStart = Start(ads) /\ Levels(m)
    BY <1>2, <2>y
  <2>4. /\ y.key.count = m.count /\ y.key.codeStart = m.codeStart /\ y.key.adjStart = m.adjStart
        /\ y.key.maxLevel = m.maxLevel /\ y.key.entry = m.entry /\ y.key.gen = c.key.gen
    BY <2>1, <2>3 DEF MetaType
  <2>5. Levels(y.key) BY <2>3, <2>4 DEF Levels
  <2>6. KeyOk(cs, ads, y.key)'
    <3>1. y.key.count # 0 /\ y.key.count <= meta'.count BY <1>2, <1>3, <2>3, <2>4, <2>y
    <3> QED BY <2>3, <2>4, <2>5, <3>1 DEF KeyOk
  <2>7. PICK k \in Nat : Aged(b, k) BY <2>1, <2>y DEF CacheOk
  <2>8. k <= Vacs /\ meta.gen = (c.key.gen + k + (meta.count - c.key.count)) % Wide BY <2>1, <2>7, <2>y DEF Aged
  <2>9. meta'.gen = (y.key.gen + (k + 1) + (meta'.count - y.key.count)) % Wide
    <3>0. c.key.gen \in 0..(Wide - 1) BY <2>1 DEF MetaType
    <3>2. c.key.gen \in Nat BY ONLY <3>0, InWide
    <3>x. PICK x : x = c.key.gen + k OBVIOUS
    <3>3. x \in Nat /\ c.key.gen + k + (meta.count - c.key.count) = x BY <1>3, <2>1, <3>2, <3>x
    <3>4. meta.gen = x % Wide BY <2>8, <3>3
    <3>5. Bump(meta.gen) = (x + 1) % Wide BY <1>3, <3>3, <3>4, NextGeneration
    <3>6. y.key.gen + (k + 1) + (meta'.count - y.key.count) = x + 1 BY <1>2, <1>3, <2>3, <2>4, <2>y, <3>2, <3>x
    <3> QED BY <1>2, <3>5, <3>6
  <2>10. Aged(b, k + 1)'
    <3>1. Vacs' = Vacs
      <4>1. vac' = vac /\ bounds' = bounds BY UpdateIs
      <4>2. pc'[Vacuum] = pc[Vacuum] BY UpdateMoves
      <4> QED BY <4>1, <4>2 DEF Vacs
    <3>2. ~UsesCache(b)'
      <4>1. NoOp.kind # "insert" BY DEF NoOp
      <4> QED BY <1>1, <4>1 DEF UsesCache, Inserting
    <3>3. Vacs \in Nat BY VacsIs
    <3>4. k + 1 <= Vacs' + 1 /\ k + 1 # 0 BY <2>7, <2>8, <3>1, <3>3
    <3> QED BY <2>2, <2>9, <3>2, <3>4 DEF Aged
  <2>11. k + 1 \in Nat BY <2>7
  <2>12. CacheOk(cs, ads, b)' BY <1>1, <2>1, <2>2, <2>6, <2>10, <2>11 DEF CacheOk
  <2> QED BY <2>1, <2>2, <2>12 DEF CacheTyped
<1> QED BY <1>4, <1>5

LEMMA UpdateMetaKeeps ==
  ASSUME Inv, NEW b \in Backends, UpdateMeta(b)
  PROVE  Inv'
<1>1. PICK cs, ads : Good(cs, ads) BY DEF Inv
<1>2. Typed /\ Turns BY DEF Inv
<1>3. /\ Inserting(b) /\ Writing(b) /\ meta' \in MetaType /\ meta'.count = meta.count + 1
      /\ meta'.codeStart = Start(cs) /\ meta'.adjStart = Start(ads) /\ Levels(meta')
  BY <1>1, <1>2, NewMeta
<1>i. PICK i, N : i = op[b] /\ N = meta.count OBVIOUS
<1>4. /\ page' = page /\ rows' = rows /\ vac' = vac /\ bounds' = bounds
      /\ heap' = [heap EXCEPT ![i.tid].state = "live"]
      /\ op' = [op EXCEPT ![b] = NoOp] /\ pc' = [pc EXCEPT ![b] = "idle"]
      /\ N = 0 => cache' = cache
      /\ N # 0 => cache' = [cache EXCEPT ![b] = CacheWithNode(cache[b], i, meta')]
  BY <1>1, <1>2, <1>i, UpdateIs
<1>5. /\ Moved(cs, ads, cs, ads, 0) /\ page' \in Seq(PageType) /\ pc'[Vacuum] = pc[Vacuum]
      /\ \A e \in Backends : e # b => op'[e] = op[e] /\ pc'[e] = pc[e] /\ cache'[e] = cache[e]
      /\ heap'[i.tid].row = heap[i.tid].row /\ heap'[i.tid].state = "live"
      /\ heap'[i.tid].indexed = heap[i.tid].indexed
      /\ op'[b] = NoOp /\ pc'[b] = "idle" /\ \A t \in Tids : t # i.tid => heap'[t] = heap[t]
  BY <1>1, <1>2, <1>i, UpdateMoves DEF Alone, Unmoved
<1>6. /\ N \in NodeIds /\ N \in Nat /\ NodeLevel[N] \in Nat /\ i.tid \in Tids /\ N < rows
      /\ \A e \in Backends : e # b => ~Inserting(e)
  BY <1>1, <1>2, <1>3, <1>i, InsertIs
<1>7. CacheOk(cs, ads, b)' /\ CacheTyped(b)' BY <1>1, <1>2, UpdatedCache
<1>8. NoOp.kind = "none" BY DEF NoOp
<1>9. \A e \in Backends : ~Inserting(e)' /\ ~Writing(e)' /\ (Scanning(e)' => Scanning(e)) /\ (e # b => ~Writing(e))
  <2> SUFFICES ASSUME NEW e \in Backends
               PROVE ~Inserting(e)' /\ ~Writing(e)' /\ (Scanning(e)' => Scanning(e)) /\ (e # b => ~Writing(e))
    OBVIOUS
  <2>1. CASE e = b BY <1>5, <1>8, <2>1 DEF Inserting, Writing, Scanning
  <2>2. CASE e # b
    <3>1. ~Inserting(e) /\ op'[e] = op[e] /\ pc'[e] = pc[e] BY <1>5, <1>6, <2>2
    <3>2. ~Writing(e) BY <1>2, <3>1, KindsOf DEF Writing
    <3> QED BY <3>1, <3>2 DEF Inserting, Writing, Scanning
  <2> QED BY <2>1, <2>2
<1>10. Typed'
  <2>1. /\ heap \in [Tids -> HeapType] /\ rows \in Nat /\ bounds \in Counters /\ VacTyped
        /\ cache = [a \in Backends |-> cache[a]] /\ op = [a \in Backends |-> op[a]]
        /\ pc = [p \in Backends \cup {Vacuum} |-> pc[p]]
        /\ \A a \in Backends : OpTyped(a) /\ CacheTyped(a)
    BY <1>2 DEF Typed
  <2>2. cache' = [a \in Backends |-> cache'[a]] BY <1>4, <2>1
  <2>3. op' = [a \in Backends |-> op'[a]] BY <1>4, <2>1
  <2>4. pc' = [p \in Backends \cup {Vacuum} |-> pc'[p]] BY <1>4, <2>1
  <2>5. VacTyped' BY <1>4, <1>5, <2>1 DEF VacTyped
  <2>6. heap' \in [Tids -> HeapType]
    <3>1. \A h \in HeapType : [h EXCEPT !.state = "live"] \in HeapType BY DEF HeapType
    <3> QED BY <1>4, <1>6, <2>1, <3>1
  <2>7. ASSUME NEW e \in Backends PROVE OpTyped(e)' /\ CacheTyped(e)'
    <3>1. CASE e = b BY <1>5, <1>7, <3>1 DEF OpTyped
    <3>2. CASE e # b
      <4>1. op'[e] = op[e] /\ pc'[e] = pc[e] /\ cache'[e] = cache[e] /\ ~Inserting(e) BY <1>5, <1>6, <3>2
      <4>2. op[e] \notin InsertOp BY <1>2, <4>1, KindsOf DEF Inserting
      <4>3. OpTyped(e) /\ CacheTyped(e) BY <2>1
      <4>4. OpTyped(e)' BY <4>1, <4>2, <4>3 DEF OpTyped
      <4>5. CacheTyped(e)' BY <4>1, <4>3 DEF CacheTyped
      <4> QED BY <4>4, <4>5
    <3> QED BY <3>1, <3>2
  <2> QED BY <1>3, <1>4, <1>5, <2>1, <2>2, <2>3, <2>4, <2>5, <2>6, <2>7 DEF Typed
<1>11. Turns'
  <2>1. Marking' <=> Marking BY <1>5 DEF Marking
  <2>2. rows \in Nat BY <1>2 DEF Typed
  <2>3. meta'.count <= rows' BY <1>3, <1>4, <1>6, <1>i, <2>2
  <2> QED BY <1>2, <1>4, <1>5, <1>9, <2>1, <2>3 DEF Turns
<1>12. /\ Chained(page, cs, ads) /\ Placed(cs, ads) /\ Lists /\ HeapOk /\ VacOk(cs, ads)
       /\ \A a \in Backends : InsertOk(cs, ads, a) /\ CacheOk(cs, ads, a) /\ ScanOk(a)
  BY <1>1 DEF Good
<1>13. /\ pc[b] = "meta" /\ heap[i.tid].state = "inserting" /\ Len(i.loc) = NodeLevel[N] + 1
       /\ \A p \in CodeSpots : At(page, p).node = N =>
            At(page, p).tid = i.tid /\ At(page, p).row = heap[i.tid].row /\ ~At(page, p).dead
  <2>1. pc[b] = "meta" BY DEF UpdateMeta
  <2> QED BY <1>3, <1>12, <1>i, <2>1 DEF InsertOk
<1>14. \A p \in CodeSpots : At(page, p) \in CodeType /\ At(page, p).node \in Nat /\ At(page, p).tid \in Tids
  <2> TAKE p \in CodeSpots
  <2>1. "code" \in Kinds /\ page \in Seq(PageType) BY <1>2 DEF Kinds, Typed
  <2>2. At(page, p) \in TupleType("code") /\ At(page, p).node \in Nat BY <2>1, SpotTyped DEF CodeSpots
  <2>3. At(page, p) \in CodeType BY <2>2 DEF TupleType
  <2> QED BY <2>2, <2>3 DEF CodeType
<1>15. CodeSpots' = CodeSpots /\ AdjSpots' = AdjSpots BY <1>4 DEF CodeSpots, AdjSpots
<1>16. Total(page, cs) = N + 1 BY <1>3, <1>12, <1>i DEF Placed
<1>17. Placed(cs, ads)'
  <2>1. \A p, q \in AdjSpots : At(page, p).node = At(page, q).node /\ At(page, p).level = At(page, q).level => p = q
    BY <1>12 DEF Placed
  <2>2. ASSUME NEW n \in Nat, NEW l \in Nat
        PROVE  (AdjOf(n, l)' \/ AdjNew(n, l)') <=> (AdjOf(n, l) \/ AdjNew(n, l))
    <3>1. AdjOf(n, l)' <=> n < N + 1 /\ n \in NodeIds /\ l <= NodeLevel[n] BY <1>3, <1>i DEF AdjOf
    <3>2. AdjOf(n, l) <=> n < N /\ n \in NodeIds /\ l <= NodeLevel[n] BY <1>i DEF AdjOf
    <3>3. AdjNew(n, l) <=> n = N /\ l < NodeLevel[N] + 1 BY <1>3, <1>9, <1>13, <1>i DEF AdjNew
    <3>4. ~AdjNew(n, l)' BY <1>9 DEF AdjNew
    <3>5. n = N => (l < NodeLevel[N] + 1 <=> l <= NodeLevel[n]) BY <1>6
    <3>6. n < N + 1 <=> n < N \/ n = N BY <1>6
    <3> QED BY <1>6, <3>1, <3>2, <3>3, <3>4, <3>5, <3>6
  <2>3. \A n, l \in Nat : AdjOf(n, l)' \/ AdjNew(n, l)' <=>
          \E p \in AdjSpots : At(page, p).node = n /\ At(page, p).level = l
    <3> TAKE n, l \in Nat
    <3>1. AdjOf(n, l) \/ AdjNew(n, l) <=> \E p \in AdjSpots : At(page, p).node = n /\ At(page, p).level = l
      BY <1>12 DEF Placed
    <3> QED BY <2>2, <3>1
  <2>4. /\ meta'.codeStart = IF meta'.count = 0 THEN Nil ELSE Start(cs)
        /\ meta'.adjStart = IF meta'.count = 0 THEN Nil ELSE Start(ads)
    BY <1>3, <1>6, <1>i
  <2>5. Total(page, cs) = IF \E e \in Backends : Writing(e)' THEN meta'.count + 1 ELSE meta'.count
    BY <1>3, <1>9, <1>16, <1>i
  <2> QED BY <1>4, <1>15, <2>1, <2>3, <2>4, <2>5 DEF Placed
<1>18. Lists'
  <2>1. ASSUME NEW n, NEW l, NEW S, ListOk(n, l, S) PROVE ListOk(n, l, S)'
    <3>1. /\ S \subseteq NodeIds /\ Cardinality(S) <= LevelM(l)
          /\ \A x \in S : x # n /\ x <= N /\ NodeLevel[x] >= l
      BY <1>i, <2>1 DEF ListOk
    <3>2. NodeIds \subseteq Nat BY Basics
    <3>3. \A x \in S : x <= N + 1 BY <1>6, <3>1, <3>2
    <3> QED BY <1>3, <1>i, <3>1, <3>3 DEF ListOk
  <2>2. \A p \in AdjSpots : ListOk(At(page, p).node, At(page, p).level, At(page, p).nbrs) BY <1>12 DEF Lists
  <2>3. ASSUME NEW p \in AdjSpots' PROVE LET t == At(page, p) IN ListOk(t.node, t.level, t.nbrs)'
    <3>t. PICK n, l, S : n = At(page, p).node /\ l = At(page, p).level /\ S = At(page, p).nbrs OBVIOUS
    <3>1. p \in AdjSpots BY <1>15
    <3>2. ListOk(n, l, S) BY <2>2, <3>1, <3>t
    <3>3. ListOk(n, l, S)' BY <2>1, <3>2
    <3> QED BY <1>4, <3>3, <3>t
  <2> QED BY <1>4, <2>3 DEF Lists
<1>19. HeapOk'
  <2>1. /\ \A t \in Tids : heap[t].row <= rows
        /\ \A p \in CodeSpots : LET c == At(page, p) IN
             ~c.dead => heap[c.tid].row = c.row /\ heap[c.tid].state # "free"
        /\ \A t \in Tids : heap[t].state = "live" /\ heap[t].indexed => HasNode(t, heap[t].row, N)
    BY <1>12, <1>i DEF HeapOk
  <2>2. \A t \in Tids : heap'[t].row <= rows' BY <1>4, <1>5, <1>6, <2>1
  <2>3. \A p \in CodeSpots' : LET c == At(page', p) IN
             ~c.dead => heap'[c.tid].row = c.row /\ heap'[c.tid].state # "free"
    <3> SUFFICES ASSUME NEW p \in CodeSpots, ~At(page, p).dead
                 PROVE  heap'[At(page, p).tid].row = At(page, p).row /\ heap'[At(page, p).tid].state # "free"
      BY <1>4, <1>15
    <3>1. At(page, p).tid \in Tids BY <1>14
    <3> QED BY <1>5, <2>1, <3>1
  <2>4. ASSUME NEW t \in Tids, heap'[t].state = "live", heap'[t].indexed
        PROVE  \E p \in CodeSpots : LET c == At(page, p) IN
                 c.tid = t /\ c.row = heap'[t].row /\ ~c.dead /\ c.node < N + 1
    <3>1. CASE t = i.tid
      <4>1. N < Total(page, cs) BY <1>6, <1>16
      <4>2. PICK p \in Spots(page, "code") : At(page, p).node = N BY <1>6, <1>12, <4>1, NodeIsThere
      <4>3. p \in CodeSpots /\ N < N + 1 BY <1>6 DEF CodeSpots
      <4> QED BY <1>5, <1>13, <3>1, <4>2, <4>3
    <3>2. CASE t # i.tid
      <4>1. HasNode(t, heap[t].row, N) /\ heap'[t] = heap[t] BY <1>5, <2>1, <2>4, <3>2
      <4>2. PICK p \in CodeSpots : LET c == At(page, p) IN c.tid = t /\ c.row = heap[t].row /\ ~c.dead /\ c.node < N
        BY <4>1 DEF HasNode
      <4>3. At(page, p).node < N + 1 BY <1>6, <1>14, <4>2
      <4> QED BY <4>1, <4>2, <4>3
    <3> QED BY <3>1, <3>2
  <2>5. \A t \in Tids : heap'[t].state = "live" /\ heap'[t].indexed => HasNode(t, heap[t].row, meta.count)'
    BY <1>3, <1>4, <1>15, <1>i, <2>4 DEF HasNode
  <2> QED BY <2>2, <2>3, <2>5 DEF HeapOk
<1>20. VacOk(cs, ads)'
  <2>1. pc[Vacuum] # "idle" => \A t \in vac.dead : t \in Tids /\ heap[t].state = "dead"
    <3>1. pc[Vacuum] # "idle" => vac \in VacOp BY <1>2 DEF Typed, VacTyped
    <3>2. pc[Vacuum] # "idle" => vac.dead \subseteq Tids BY <3>1 DEF VacOp
    <3> QED BY <1>12, <3>2 DEF VacOk
  <2>2. pc[Vacuum] # "idle" => \A t \in vac.dead : heap'[t].state = heap[t].state BY <1>5, <1>13, <2>1
  <2>3. \A p \in Spots(page', "code") : p \in CodeSpots BY <1>4 DEF CodeSpots
  <2> QED BY <1>2, <1>4, <1>5, <1>12, <2>2, <2>3, VacKept
<1>21. ASSUME NEW e \in Backends PROVE InsertOk(cs, ads, e)' /\ CacheOk(cs, ads, e)' /\ ScanOk(e)'
  <2>1. InsertOk(cs, ads, e)' BY <1>9 DEF InsertOk
  <2>2. CASE e = b
    <3>1. ScanOk(e)' BY <1>5, <1>8, <2>2 DEF ScanOk
    <3> QED BY <1>7, <2>1, <2>2, <3>1
  <2>3. CASE e # b
    <3>1. Unmoved(e) BY <1>5, <2>3 DEF Unmoved
    <3>2. CacheOk(cs, ads, e) /\ ScanOk(e) BY <1>12
    <3>3. CacheOk(cs, ads, e)'
      <4>1. meta.count <= Total(page, cs) BY <1>6, <1>16, <1>i
      <4>2. cache[e] # NoCache => Ready(cs, cache[e], pc'[e]) BY <3>1, <3>2 DEF Unmoved, CacheOk
      <4>3. UsesCache(e)' => UsesCache(e) BY <1>9 DEF UsesCache
      <4>4. cache'[e] = cache[e] BY <3>1 DEF Unmoved
      <4> QED BY <1>2, <1>5, <1>12, <3>2, <4>1, <4>2, <4>3, <4>4, CacheKept
    <3>4. op[e].kind = "scan" => SnapOk(e)' /\ NotMarked(e)
      <4>1. SUFFICES ASSUME op[e].kind = "scan" PROVE SnapOk(e)' /\ NotMarked(e) OBVIOUS
      <4>S. PICK S : S = op[e].snap OBVIOUS
      <4>2. \A y \in S : /\ heap[y[1]].row = y[2] /\ heap[y[1]].state \in {"live", "dead"}
                         /\ pc[Vacuum] # "idle" => y[1] \notin vac.dead
        BY <3>2, <4>1, <4>S DEF ScanOk, SnapOk
      <4>3. \A y \in S : y[1] \in Tids
        <5>1. op[e] \in ScanOp BY <1>2, <4>1, KindsOf
        <5>2. S \subseteq Tids \X Nat BY <4>S, <5>1 DEF ScanOp, Version
        <5> QED BY <5>2
      <4>4. \A y \in S : y[1] # i.tid BY <1>13, <4>2
      <4>5. \A y \in S : heap'[y[1]] = heap[y[1]] BY <1>5, <4>3, <4>4
      <4>6. op'[e].snap = S BY <3>1, <4>S DEF Unmoved
      <4>7. SnapOk(e)' BY <1>4, <1>5, <4>2, <4>5, <4>6 DEF SnapOk
      <4>8. NotMarked(e) BY <1>4 DEF NotMarked
      <4> QED BY <4>7, <4>8
    <3>5. ScanOk(e)' BY <1>2, <1>5, <3>1, <3>2, <3>4, ScanKept
    <3> QED BY <2>1, <3>3, <3>5
  <2> QED BY <2>2, <2>3
<1>22. Chained(page', cs, ads) BY <1>4, <1>12
<1>23. Good(cs, ads)' BY <1>3, <1>17, <1>18, <1>19, <1>20, <1>21, <1>22 DEF Good
<1> QED BY <1>10, <1>11, <1>23 DEF Inv

-----------------------------------------------------------------------------
(* Rows of the heap, and statements that are cancelled                     *)

\* A step of the heap alone
RowsMove ==
  /\ page' = page /\ meta' = meta /\ cache' = cache /\ op' = op /\ pc' = pc /\ vac' = vac
  /\ heap' \in [Tids -> HeapType] /\ rows' \in Nat /\ rows <= rows' /\ bounds' \in Counters
  /\ rows' <= NBuilt + bounds'.new /\ bounds'.new <= MaxNew /\ bounds'.vacuums = bounds.vacuums
  /\ \A t \in Tids : heap[t].state \in {"dead", "inserting"} => heap'[t] = heap[t]
  /\ \A t \in Tids : heap[t].state = "live" => heap'[t].row = heap[t].row /\ heap'[t].state \in {"live", "dead"}
LEMMA RowsStep ==
  ASSUME Inv, RowsMove, \A cs, ads : Good(cs, ads) => HeapOk'
  PROVE  Inv'
<1>1. PICK cs, ads : Good(cs, ads) BY DEF Inv
<1>2. Typed /\ Turns BY DEF Inv
<1>3. /\ page' = page /\ meta' = meta /\ cache' = cache /\ op' = op /\ pc' = pc /\ vac' = vac
      /\ heap' \in [Tids -> HeapType] /\ rows' \in Nat /\ rows <= rows' /\ bounds' \in Counters
      /\ rows' <= NBuilt + bounds'.new /\ bounds'.new <= MaxNew /\ bounds'.vacuums = bounds.vacuums
      /\ \A t \in Tids : heap[t].state \in {"dead", "inserting"} => heap'[t] = heap[t]
      /\ \A t \in Tids : heap[t].state = "live" => heap'[t].row = heap[t].row /\ heap'[t].state \in {"live", "dead"}
  BY DEF RowsMove
<1>4. Typed'
  <2>1. VacTyped' BY <1>2, <1>3 DEF Typed, VacTyped
  <2>2. \A a \in Backends : OpTyped(a)' /\ CacheTyped(a)'
    <3> TAKE a \in Backends
    <3>1. InsertOp' = InsertOp BY <1>3 DEF InsertOp
    <3>2. OpTyped(a) /\ CacheTyped(a) BY <1>2 DEF Typed
    <3>3. OpTyped(a)' BY <1>3, <3>1, <3>2 DEF OpTyped
    <3>4. CacheTyped(a)' BY <1>3, <3>2 DEF CacheTyped
    <3> QED BY <3>3, <3>4
  <2> QED BY <1>2, <1>3, <2>1, <2>2 DEF Typed
<1>5. Turns'
  <2>1. meta.count \in Nat /\ rows \in Nat BY <1>2 DEF Typed, MetaType
  <2>2. \A a \in Backends : (Inserting(a)' <=> Inserting(a)) /\ (Scanning(a)' <=> Scanning(a))
    BY <1>3 DEF Inserting, Scanning
  <2>3. Marking' <=> Marking BY <1>3 DEF Marking
  <2>4. meta.count <= rows' /\ (meta.count < rows => meta.count < rows')
    <3>1. meta.count <= rows BY <1>2 DEF Turns
    <3> QED BY <1>3, <2>1, <3>1
  <2> QED BY <1>2, <1>3, <2>2, <2>3, <2>4 DEF Turns
<1>6. Light(Vacuum)
  <2>1. Alone(Vacuum) BY <1>3 DEF Alone, Unmoved
  <2>2. \A a \in Backends : a # Vacuum /\ Inserting(a) => heap'[op[a].tid] = heap[op[a].tid]
    <3> SUFFICES ASSUME NEW a \in Backends, Inserting(a) PROVE heap'[op[a].tid] = heap[op[a].tid] OBVIOUS
    <3>1. op[a].tid \in Tids BY <1>1, <1>2, InsertIs
    <3>2. heap[op[a].tid].state = "inserting" BY <1>1 DEF Good, InsertOk
    <3> QED BY <1>3, <3>1, <3>2
  <2> QED BY <1>3, <2>1, <2>2 DEF Light
<1>7. WritesAlike BY <1>3 DEF WritesAlike, Writing
<1>8. Vacuum \notin Backends BY Basics
<1>9. HeapOk' BY <1>1
<1>10. Good(cs, ads)' BY <1>1, <1>2, <1>6, <1>7, <1>8, <1>9, LightStep
<1> QED BY <1>4, <1>5, <1>10 DEF Inv

\* Code tuples are of TIDs of the heap
LEMMA CodeTids ==
  ASSUME Typed
  PROVE  \A p \in CodeSpots : At(page, p) \in CodeType /\ At(page, p).node \in Nat /\ At(page, p).tid \in Tids
<1> TAKE p \in CodeSpots
<1>1. "code" \in Kinds /\ page \in Seq(PageType) BY DEF Kinds, Typed
<1>2. At(page, p) \in TupleType("code") /\ At(page, p).node \in Nat BY <1>1, SpotTyped DEF CodeSpots
<1>3. At(page, p) \in CodeType BY <1>2 DEF TupleType
<1> QED BY <1>2, <1>3 DEF CodeType

LEMMA InsertNullKeeps ==
  ASSUME Inv, NEW t \in Tids, InsertNull(t)
  PROVE  Inv'
<1>1. /\ heap[t].state = "free" /\ bounds.new < MaxNew /\ rows' = rows + 1
      /\ heap' = [heap EXCEPT ![t] = Row(rows + 1, "live", FALSE)]
      /\ bounds' = [bounds EXCEPT !.new = bounds.new + 1]
      /\ page' = page /\ meta' = meta /\ cache' = cache /\ op' = op /\ pc' = pc /\ vac' = vac
  BY DEF InsertNull, NewRow
<1>2. Typed /\ Turns BY DEF Inv
<1>3. heap \in [Tids -> HeapType] /\ rows \in Nat /\ bounds \in Counters BY <1>2 DEF Typed
<1>r. PICK r : r = Row(rows + 1, "live", FALSE) OBVIOUS
<1>4. r.row = rows + 1 /\ r.state = "live" /\ r.indexed = FALSE /\ r \in HeapType
  <2>1. r = [row |-> rows + 1, state |-> "live", indexed |-> FALSE] BY <1>r DEF Row
  <2> QED BY <1>3, <2>1 DEF HeapType
<1>5. heap'[t] = r /\ \A u \in Tids : u # t => heap'[u] = heap[u] BY <1>1, <1>3, <1>r
<1>6. /\ bounds.new \in Nat /\ bounds' \in Counters /\ bounds'.new = bounds.new + 1 /\ bounds'.vacuums = bounds.vacuums
  BY <1>1, <1>3 DEF Counters
<1>7. RowsMove
  <2>1. heap' \in [Tids -> HeapType] BY <1>1, <1>3, <1>4, <1>r
  <2>2. rows' \in Nat /\ rows <= rows' BY <1>1, <1>3
  <2>3. rows' <= NBuilt + bounds'.new /\ bounds'.new <= MaxNew
    <3>1. rows <= NBuilt + bounds.new /\ NBuilt \in Nat /\ MaxNew \in Nat BY <1>2, Basics DEF Turns
    <3> QED BY <1>1, <1>3, <1>6, <3>1
  <2>4. \A u \in Tids : heap[u].state \in {"dead", "inserting", "live"} => heap'[u] = heap[u] BY <1>1, <1>5
  <2> QED BY <1>1, <1>6, <2>1, <2>2, <2>3, <2>4 DEF RowsMove
<1>8. ASSUME NEW cs, NEW ads, Good(cs, ads) PROVE HeapOk'
  <2>1. /\ \A u \in Tids : heap[u].row <= rows
        /\ \A p \in CodeSpots : LET c == At(page, p) IN
             ~c.dead => heap[c.tid].row = c.row /\ heap[c.tid].state # "free"
        /\ \A u \in Tids : heap[u].state = "live" /\ heap[u].indexed => HasNode(u, heap[u].row, meta.count)
    BY <1>8 DEF Good, HeapOk
  <2>2. CodeSpots' = CodeSpots BY <1>1 DEF CodeSpots
  <2>3. \A u \in Tids : heap'[u].row <= rows'
    <3> TAKE u \in Tids
    <3>1. CASE u = t
      <4>1. heap'[u].row = rows + 1 BY <1>4, <1>5, <3>1
      <4>2. rows + 1 <= rows + 1 BY <1>3
      <4> QED BY <1>1, <4>1, <4>2
    <3>2. CASE u # t
      <4>x. PICK x : x = heap[u].row OBVIOUS
      <4>1. x \in Nat BY <1>3, <4>x DEF HeapType
      <4>2. x <= rows /\ heap'[u].row = x BY <1>5, <2>1, <3>2, <4>x
      <4>3. x <= rows + 1 BY ONLY <1>3, <4>1, <4>2
      <4> QED BY <1>1, <4>2, <4>3
    <3> QED BY <3>1, <3>2
  <2>4. \A p \in CodeSpots : LET c == At(page, p) IN
             ~c.dead => heap'[c.tid].row = c.row /\ heap'[c.tid].state # "free"
    <3> SUFFICES ASSUME NEW p \in CodeSpots, ~At(page, p).dead
                 PROVE  heap'[At(page, p).tid].row = At(page, p).row /\ heap'[At(page, p).tid].state # "free"
      OBVIOUS
    <3>1. At(page, p).tid \in Tids /\ At(page, p).tid # t BY <1>1, <1>2, <2>1, CodeTids
    <3> QED BY <1>5, <2>1, <3>1
  <2>5. \A u \in Tids : heap'[u].state = "live" /\ heap'[u].indexed => HasNode(u, heap'[u].row, meta.count)
    BY <1>4, <1>5, <2>1
  <2>6. \A u \in Tids : heap'[u].state = "live" /\ heap'[u].indexed => HasNode(u, heap[u].row, meta.count)'
    BY <1>1, <2>2, <2>5 DEF HasNode
  <2> QED BY <1>1, <2>2, <2>3, <2>4, <2>6 DEF HeapOk
<1> QED BY <1>7, <1>8, RowsStep

LEMMA RowDiesKeeps ==
  ASSUME Inv, NEW t \in Tids, RowDies(t)
  PROVE  Inv'
<1>1. /\ heap[t].state = "live" /\ rows' = rows
      /\ heap' = [heap EXCEPT ![t].state = "dead"]
      /\ bounds' = [bounds EXCEPT !.deletes = bounds.deletes + 1]
      /\ page' = page /\ meta' = meta /\ cache' = cache /\ op' = op /\ pc' = pc /\ vac' = vac
  BY DEF RowDies
<1>2. Typed /\ Turns BY DEF Inv
<1>3. heap \in [Tids -> HeapType] /\ rows \in Nat /\ bounds \in Counters BY <1>2 DEF Typed
<1>r. PICK h, r : h = heap[t] /\ r = [h EXCEPT !.state = "dead"] OBVIOUS
<1>4. h \in HeapType /\ r.row = h.row /\ r.state = "dead" /\ r \in HeapType
  <2>1. h \in HeapType BY <1>3, <1>r
  <2> QED BY <1>r, <2>1 DEF HeapType
<1>5. heap'[t] = r /\ \A u \in Tids : u # t => heap'[u] = heap[u] BY <1>1, <1>3, <1>r
<1>6. bounds' \in Counters /\ bounds'.new = bounds.new /\ bounds'.vacuums = bounds.vacuums
  BY <1>1, <1>3 DEF Counters
<1>7. RowsMove
  <2>1. heap' \in [Tids -> HeapType] BY <1>1, <1>3, <1>4, <1>r
  <2>2. rows' \in Nat /\ rows <= rows' BY <1>1, <1>3
  <2>3. rows' <= NBuilt + bounds'.new /\ bounds'.new <= MaxNew BY <1>1, <1>2, <1>6 DEF Turns
  <2>4. \A u \in Tids : heap[u].state \in {"dead", "inserting"} => heap'[u] = heap[u] BY <1>1, <1>5
  <2>5. \A u \in Tids : heap[u].state = "live" => heap'[u].row = heap[u].row /\ heap'[u].state \in {"live", "dead"}
    BY <1>4, <1>5, <1>r
  <2> QED BY <1>1, <1>6, <2>1, <2>2, <2>3, <2>4, <2>5 DEF RowsMove
<1>8. ASSUME NEW cs, NEW ads, Good(cs, ads) PROVE HeapOk'
  <2>1. /\ \A u \in Tids : heap[u].row <= rows
        /\ \A p \in CodeSpots : LET c == At(page, p) IN
             ~c.dead => heap[c.tid].row = c.row /\ heap[c.tid].state # "free"
        /\ \A u \in Tids : heap[u].state = "live" /\ heap[u].indexed => HasNode(u, heap[u].row, meta.count)
    BY <1>8 DEF Good, HeapOk
  <2>2. CodeSpots' = CodeSpots BY <1>1 DEF CodeSpots
  <2>3. \A u \in Tids : heap'[u].row = heap[u].row BY <1>4, <1>5, <1>r
  <2>4. \A p \in CodeSpots : LET c == At(page, p) IN
             ~c.dead => heap'[c.tid].row = c.row /\ heap'[c.tid].state # "free"
    <3> SUFFICES ASSUME NEW p \in CodeSpots, ~At(page, p).dead
                 PROVE  heap'[At(page, p).tid].row = At(page, p).row /\ heap'[At(page, p).tid].state # "free"
      OBVIOUS
    <3>1. At(page, p).tid \in Tids BY <1>2, CodeTids
    <3> QED BY <1>4, <1>5, <2>1, <2>3, <3>1
  <2>5. \A u \in Tids : heap'[u].state = "live" /\ heap'[u].indexed => HasNode(u, heap'[u].row, meta.count)
    BY <1>4, <1>5, <2>1
  <2>6. \A u \in Tids : heap'[u].state = "live" /\ heap'[u].indexed => HasNode(u, heap[u].row, meta.count)'
    BY <1>1, <2>2, <2>5 DEF HasNode
  <2> QED BY <1>1, <2>1, <2>2, <2>3, <2>4, <2>6 DEF HeapOk
<1> QED BY <1>7, <1>8, RowsStep

LEMMA CancelKeeps ==
  ASSUME Inv, Whole, NEW b \in Backends, Cancel(b)
  PROVE  Inv'
<1>1. PICK cs, ads : Good(cs, ads) BY DEF Inv
<1>2. Typed /\ Turns BY DEF Inv
<1>i. PICK i, c : i = op[b] /\ c = cache[b] OBVIOUS
<1>x. PICK x : x = IF c.cached THEN c ELSE NoCache OBVIOUS
<1>3. /\ pc[b] \in CancelAt /\ bounds' = [bounds EXCEPT !.cancels = bounds.cancels + 1]
      /\ pc' = [pc EXCEPT ![b] = "idle"] /\ op' = [op EXCEPT ![b] = NoOp]
      /\ cache' = IF c.cached THEN cache ELSE [cache EXCEPT ![b] = NoCache]
      /\ heap' = IF Inserting(b) THEN [heap EXCEPT ![i.tid].state = "dead"] ELSE heap
      /\ vac' = vac /\ page' = page /\ meta' = meta /\ rows' = rows
  <2>1. b # Vacuum BY Basics
  <2> QED BY <1>i, <2>1 DEF Cancel, Goto
<1>4. cache' = [cache EXCEPT ![b] = x]
  <2>1. cache = [cache EXCEPT ![b] = c] BY <1>2, <1>i, SelfMoves
  <2> QED BY <1>3, <1>x, <2>1
<1>5. Touches(b) /\ Alone(b) /\ cache'[b] = x /\ op'[b] = NoOp /\ pc'[b] = "idle" BY <1>2, <1>3, <1>4, OneMoves
<1>6. NoOp.kind = "none" BY DEF NoOp
<1>7. ~Writing(b) /\ ~Writing(b)' /\ ~Inserting(b)' /\ ~Scanning(b)'
  <2>1. ~Writing(b) BY Basics DEF Whole
  <2> QED BY <1>5, <1>6, <2>1 DEF Writing, Inserting, Scanning
<1>8. heap \in [Tids -> HeapType] /\ rows \in Nat /\ bounds \in Counters /\ meta \in MetaType /\ page \in Seq(PageType)
  BY <1>2 DEF Typed
<1>9. /\ heap' \in [Tids -> HeapType]
      /\ \A t \in Tids : /\ heap'[t].row = heap[t].row
                         /\ heap'[t] = heap[t] \/ (heap[t].state = "inserting" /\ heap'[t].state = "dead")
      /\ \A a \in Backends : a # b /\ Inserting(a) => heap'[op[a].tid] = heap[op[a].tid]
  <2>1. CASE ~Inserting(b) BY <1>3, <1>8, <2>1
  <2>2. CASE Inserting(b)
    <3>1. i.tid \in Tids /\ \A a \in Backends : a # b => ~Inserting(a) BY <1>1, <1>2, <1>i, <2>2, InsertIs
    <3>2. heap[i.tid].state = "inserting" BY <1>1, <1>i, <2>2 DEF Good, InsertOk
    <3>h. PICK h, r : h = heap[i.tid] /\ r = [h EXCEPT !.state = "dead"] OBVIOUS
    <3>3. h \in HeapType BY <1>8, <3>1, <3>h
    <3>4. r.row = h.row /\ r.state = "dead" /\ r \in HeapType BY <3>3, <3>h DEF HeapType
    <3>5. heap' = [heap EXCEPT ![i.tid] = r] BY <1>3, <2>2, <3>h
    <3>6. heap'[i.tid] = r /\ \A u \in Tids : u # i.tid => heap'[u] = heap[u] BY <1>8, <3>1, <3>5
    <3>7. heap' \in [Tids -> HeapType] BY <1>8, <3>4, <3>5
    <3>8. \A t \in Tids : /\ heap'[t].row = heap[t].row
                          /\ heap'[t] = heap[t] \/ (heap[t].state = "inserting" /\ heap'[t].state = "dead")
      BY <3>2, <3>4, <3>6, <3>h
    <3> QED BY <3>1, <3>7, <3>8
  <2> QED BY <2>1, <2>2
<1>10. bounds' \in Counters /\ bounds'.new = bounds.new /\ bounds'.vacuums = bounds.vacuums
  BY <1>3, <1>8 DEF Counters
<1>11. Light(b)
  <2>1. pc'[Vacuum] = pc[Vacuum] BY <1>5 DEF Touches
  <2>2. \A t \in Tids : heap[t].state = "dead" => heap'[t] = heap[t] BY <1>9
  <2>3. \A t \in Tids : heap[t].state = "live" => heap'[t].row = heap[t].row /\ heap'[t].state \in {"live", "dead"} BY <1>9
  <2> QED BY <1>3, <1>5, <1>9, <1>10, <2>1, <2>2, <2>3 DEF Light
<1>12. /\ HeapOk /\ CacheOk(cs, ads, b) /\ CacheTyped(b) BY <1>1, <1>2 DEF Good, Typed
<1>13. CacheTyped(b)' BY <1>5, <1>12, <1>i, <1>x DEF CacheTyped
<1>14. Typed'
  <2>1. OpTyped(b)' BY <1>5 DEF OpTyped
  <2>2. /\ \E z : cache' = [cache EXCEPT ![b] = z]
        /\ \E z : op' = [op EXCEPT ![b] = z]
        /\ \E z : pc' = [pc EXCEPT ![b] = z]
    BY <1>3, <1>4
  <2>3. page' \in Seq(PageType) /\ meta' \in MetaType /\ rows' \in Nat /\ meta'.count = meta.count BY <1>3, <1>8
  <2> QED BY <1>2, <1>3, <1>5, <1>9, <1>10, <1>13, <2>1, <2>2, <2>3, TypedStep
<1>15. Turns' BY <1>2, <1>3, <1>5, <1>7, <1>10, TurnsStep
<1>16. WritesAlike
  <2> SUFFICES ASSUME NEW a \in Backends PROVE (Writing(a)' <=> Writing(a)) /\ (Writing(a) => op'[a].loc = op[a].loc)
    BY DEF WritesAlike
  <2>1. CASE a = b BY <1>7, <2>1
  <2>2. CASE a # b BY <1>5, <2>2 DEF Alone, Unmoved, Writing
  <2> QED BY <2>1, <2>2
<1>17. HeapOk'
  <2>1. /\ \A t \in Tids : heap[t].row <= rows
        /\ \A p \in CodeSpots : LET d == At(page, p) IN
             ~d.dead => heap[d.tid].row = d.row /\ heap[d.tid].state # "free"
        /\ \A t \in Tids : heap[t].state = "live" /\ heap[t].indexed => HasNode(t, heap[t].row, meta.count)
    BY <1>12 DEF HeapOk
  <2>2. CodeSpots' = CodeSpots BY <1>3 DEF CodeSpots
  <2>3. \A p \in CodeSpots : LET d == At(page, p) IN
             ~d.dead => heap'[d.tid].row = d.row /\ heap'[d.tid].state # "free"
    <3> SUFFICES ASSUME NEW p \in CodeSpots, ~At(page, p).dead
                 PROVE  heap'[At(page, p).tid].row = At(page, p).row /\ heap'[At(page, p).tid].state # "free"
      OBVIOUS
    <3>1. At(page, p).tid \in Tids BY <1>2, CodeTids
    <3> QED BY <1>9, <2>1, <3>1
  <2>4. \A t \in Tids : heap'[t].state = "live" /\ heap'[t].indexed => HasNode(t, heap'[t].row, meta.count)
    BY <1>9, <2>1
  <2>5. \A t \in Tids : heap'[t].state = "live" /\ heap'[t].indexed => HasNode(t, heap[t].row, meta.count)'
    BY <1>3, <2>2, <2>4 DEF HasNode
  <2> QED BY <1>3, <1>9, <2>1, <2>2, <2>3, <2>5 DEF HeapOk
<1>18. CacheOk(cs, ads, b)'
  <2>1. CASE x = NoCache BY <1>5, <2>1 DEF CacheOk
  <2>2. CASE x # NoCache
    <3>1. c.cached /\ x = c /\ c # NoCache BY <1>x, <2>2
    <3>2. cache'[b] = cache[b] BY <1>5, <1>i, <3>1
    <3>3. Ready(cs, c, pc[b]) BY <1>12, <1>i, <3>1 DEF CacheOk
    <3>4. pc[b] \notin {"loadCode", "loadAdj"} BY <3>1, <3>3 DEF Ready
    <3>5. Ready(cs, c, "idle") BY <3>3, <3>4, ReadyAlike
    <3>6. cache[b] # NoCache => Ready(cs, cache[b], pc'[b]) BY <1>5, <1>i, <3>5
    <3>7. UsesCache(b)' => UsesCache(b) BY <1>7 DEF UsesCache
    <3> QED BY <1>1, <1>2, <1>11, <3>2, <3>6, <3>7, SameCache
  <2> QED BY <2>1, <2>2
<1>19. InsertOk(cs, ads, b)' /\ ScanOk(b)' BY <1>5, <1>6, <1>7 DEF InsertOk, ScanOk
<1>20. Good(cs, ads)' BY <1>1, <1>2, <1>11, <1>16, <1>17, <1>18, <1>19, LightStep
<1> QED BY <1>14, <1>15, <1>20 DEF Inv

-----------------------------------------------------------------------------
(* VACUUM                                                                  *)

\* A step of VACUUM: no scan has seen the rows it frees and the nodes it marks
VacMoves(d) ==
  /\ rows' = rows /\ cache' = cache /\ op' = op /\ (\A a \in Backends : pc'[a] = pc[a])
  /\ pc' = [p \in Backends \cup {Vacuum} |-> pc'[p]]
  /\ heap' \in [Tids -> HeapType] /\ bounds' \in Counters /\ VacTyped' /\ bounds'.new = bounds.new
  /\ bounds'.vacuums <= MaxVacuums /\ (pc'[Vacuum] # "idle" => bounds'.vacuums # 0)
  /\ (Marking' => \A a \in Backends : ~Scanning(a))
  /\ Edits(page, page') /\ meta' \in MetaType /\ SameMeta
  /\ d \in Nat /\ meta'.gen = (meta.gen + d) % Wide /\ Vacs + d <= Vacs'
  /\ (d = 0 /\ ~Stale' => ~Stale /\ FlagsKept)
  /\ (\A a \in Backends : Scanning(a) => d = 0)
  /\ (\A t \in Tids : heap'[t] = heap[t] \/ heap[t].state = "dead")
  /\ \A a \in Backends : op[a].kind = "scan" =>
       \A y \in op[a].snap : /\ heap'[y[1]] = heap[y[1]] /\ (pc'[Vacuum] # "idle" => y[1] \notin vac'.dead)
                             /\ \A p \in CodeSpots : ~At(page, p).dead /\ At(page', p).dead => y[1] # At(page, p).tid
  /\ \A p \in CodeSpots : At(page, p).node = meta.count => At(page', p).dead = At(page, p).dead

LEMMA VacStep ==
  ASSUME Typed, Turns, NEW cs, NEW ads, Good(cs, ads), NEW d, VacMoves(d), VacOk(cs, ads)', HeapOk', Lists'
  PROVE  Inv'
<1>1. /\ rows' = rows /\ cache' = cache /\ op' = op /\ (\A a \in Backends : pc'[a] = pc[a])
      /\ pc' = [p \in Backends \cup {Vacuum} |-> pc'[p]]
      /\ heap' \in [Tids -> HeapType] /\ bounds' \in Counters /\ VacTyped' /\ bounds'.new = bounds.new
      /\ bounds'.vacuums <= MaxVacuums /\ (pc'[Vacuum] # "idle" => bounds'.vacuums # 0)
      /\ (Marking' => \A a \in Backends : ~Scanning(a))
      /\ Edits(page, page') /\ meta' \in MetaType /\ SameMeta
      /\ d \in Nat /\ meta'.gen = (meta.gen + d) % Wide /\ Vacs + d <= Vacs'
      /\ (d = 0 /\ ~Stale' => ~Stale /\ FlagsKept)
      /\ (\A a \in Backends : Scanning(a) => d = 0)
      /\ (\A t \in Tids : heap'[t] = heap[t] \/ heap[t].state = "dead")
  BY DEF VacMoves
<1>2. \A a \in Backends : op[a].kind = "scan" =>
        \A y \in op[a].snap : /\ heap'[y[1]] = heap[y[1]] /\ (pc'[Vacuum] # "idle" => y[1] \notin vac'.dead)
                              /\ \A p \in CodeSpots : ~At(page, p).dead /\ At(page', p).dead => y[1] # At(page, p).tid
  BY DEF VacMoves
<1>3. \A p \in CodeSpots : At(page, p).node = meta.count => At(page', p).dead = At(page, p).dead BY DEF VacMoves
<1>4. /\ page \in Seq(PageType) /\ meta \in MetaType /\ heap \in [Tids -> HeapType] /\ rows \in Nat
      /\ page' \in Seq(PageType)
  BY <1>1 DEF Typed, Edits
<1>5. meta'.count = meta.count BY <1>1, <1>4, SameMetaIs
<1>6. Typed'
  <2>1. \A a \in Backends : OpTyped(a)' /\ CacheTyped(a)'
    <3> TAKE a \in Backends
    <3>1. InsertOp' = InsertOp BY <1>5 DEF InsertOp
    <3>2. OpTyped(a) /\ CacheTyped(a) BY DEF Typed
    <3>3. op'[a] = op[a] /\ pc'[a] = pc[a] /\ cache'[a] = cache[a] BY <1>1
    <3>4. OpTyped(a)' BY <3>1, <3>2, <3>3 DEF OpTyped
    <3>5. CacheTyped(a)' BY <3>2, <3>3 DEF CacheTyped
    <3> QED BY <3>4, <3>5
  <2>2. cache = [a \in Backends |-> cache[a]] /\ op = [a \in Backends |-> op[a]] BY DEF Typed
  <2> QED BY <1>1, <1>4, <2>1, <2>2 DEF Typed
<1>7. Turns'
  <2>1. \A a \in Backends : (Inserting(a)' <=> Inserting(a)) /\ (Scanning(a)' <=> Scanning(a))
    BY <1>1 DEF Inserting, Scanning
  <2> QED BY <1>1, <1>5, <2>1 DEF Turns
<1>8. Moved(cs, ads, cs, ads, d)
  <2>1. Kept(page, page', meta.count) BY <1>1, <1>4, EditsKept
  <2>2. Extends(cs, cs)
    <3>1. Len(cs) \in Nat BY DEF Good, Chained, IsChain
    <3> QED BY <3>1 DEF Extends
  <2>3. meta.count \in Nat /\ meta.gen \in 0..(Wide - 1) BY <1>4 DEF MetaType
  <2>4. meta'.gen = (meta.gen + d + (meta'.count - meta.count)) % Wide
    <3>1. meta.gen \in Nat BY <2>3, BumpOne
    <3>2. meta.gen + d + (meta'.count - meta.count) = meta.gen + d BY <1>1, <1>5, <2>3, <3>1
    <3> QED BY <1>1, <3>2
  <2>5. Vacs \in Nat BY VacsIs
  <2>6. Vacs' \in Nat
    <3>1. bounds'.vacuums \in Nat BY <1>1 DEF Counters
    <3> QED BY <1>1, <3>1 DEF Vacs
  <2> QED BY <1>1, <1>5, <2>1, <2>2, <2>3, <2>4, <2>5, <2>6 DEF Moved
<1>9. Alone(Vacuum) BY <1>1 DEF Alone, Unmoved
<1>10. WritesAlike BY <1>1 DEF WritesAlike, Writing
<1>11. ASSUME NEW a \in Backends PROVE Spared(a)
  <2>1. Inserting(a) => heap'[op[a].tid] = heap[op[a].tid]
    <3> SUFFICES ASSUME Inserting(a) PROVE heap'[op[a].tid] = heap[op[a].tid] OBVIOUS
    <3>1. op[a].tid \in Tids BY InsertIs
    <3>2. heap[op[a].tid].state = "inserting" BY DEF Good, InsertOk
    <3> QED BY <1>1, <3>1, <3>2
  <2>2. op[a].kind = "scan" => SnapOk(a)' /\ NotMarked(a)
    <3>1. SUFFICES ASSUME op[a].kind = "scan" PROVE SnapOk(a)' /\ NotMarked(a) OBVIOUS
    <3>S. PICK S : S = op[a].snap OBVIOUS
    <3>2. \A y \in S : /\ heap'[y[1]] = heap[y[1]] /\ (pc'[Vacuum] # "idle" => y[1] \notin vac'.dead)
                       /\ \A p \in CodeSpots : ~At(page, p).dead /\ At(page', p).dead => y[1] # At(page, p).tid
      BY <1>2, <3>1, <3>S
    <3>3. \A y \in S : heap[y[1]].row = y[2] /\ heap[y[1]].state \in {"live", "dead"}
      BY <3>1, <3>S DEF Good, ScanOk, SnapOk
    <3>4. op'[a].snap = S BY <1>1, <3>S
    <3>5. SnapOk(a)' BY <3>2, <3>3, <3>4 DEF SnapOk
    <3>6. NotMarked(a) BY <3>2, <3>S DEF NotMarked
    <3> QED BY <3>5, <3>6
  <2> QED BY <2>1, <2>2 DEF Spared
<1>12. /\ Chained(page', cs, ads) /\ Placed(cs, ads)' /\ Levels(meta')
       /\ \A a \in Backends : InsertOk(cs, ads, a)' /\ CacheOk(cs, ads, a)' /\ ScanOk(a)'
  <2>1. Vacuum \notin Backends BY Basics
  <2>2. \A a \in Backends : a # Vacuum => Spared(a) /\ (Scanning(a) => d = 0) BY <1>1, <1>11
  <2> QED BY <1>1, <1>3, <1>8, <1>9, <1>10, <2>1, <2>2, Quiet
<1>13. Good(cs, ads)' BY <1>12 DEF Good
<1> QED BY <1>6, <1>7, <1>13 DEF Inv

\* The generation of a metapage that stays as it is
LEMMA SameGen ==
  ASSUME NEW g \in 0..(Wide - 1) PROVE g = (g + 0) % Wide
<1>1. g \in Nat /\ g = g % Wide BY InWide
<1>2. g + 0 = g BY ONLY <1>1
<1> QED BY ONLY <1>1, <1>2
\* No page, metapage or flag changes
LEMMA VacRests ==
  ASSUME Typed, page' = page, meta' = meta
  PROVE  /\ Edits(page, page') /\ meta' \in MetaType /\ SameMeta /\ meta'.gen = (meta.gen + 0) % Wide /\ FlagsKept
         /\ \A p \in CodeSpots : At(page', p) = At(page, p)
<1>1. page \in Seq(PageType) /\ meta \in MetaType BY DEF Typed
<1>2. Edits(page, page') BY <1>1, NoEdit
<1>3. SameMeta BY <1>1 DEF SameMeta, MetaType
<1>4. meta.gen = (meta.gen + 0) % Wide
  <2>1. meta.gen \in 0..(Wide - 1) BY <1>1 DEF MetaType
  <2> QED BY <2>1, SameGen
<1> QED BY <1>1, <1>2, <1>3, <1>4 DEF FlagsKept

\* VACUUM frees TIDs of dead rows that no node has
LEMMA Reaped ==
  ASSUME Typed, HeapOk, NEW S, Reap(S), \A t \in S : heap[t].state = "dead", page' = page, rows' = rows,
         meta'.count = meta.count, \A p \in CodeSpots : At(page, p).dead \/ At(page, p).tid \notin S
  PROVE  /\ HeapOk' /\ heap' \in [Tids -> HeapType] /\ \A t \in Tids : t \notin S => heap'[t] = heap[t]
         /\ \A t \in Tids : heap'[t] = heap[t] \/ heap[t].state = "dead"
<1>1. heap' = [t \in Tids |-> IF t \in S THEN NoRow ELSE heap[t]] BY DEF Reap
<1>2. heap \in [Tids -> HeapType] /\ rows \in Nat BY DEF Typed
<1>3. NoRow.row = 0 /\ NoRow.state = "free" /\ NoRow \in HeapType
  <2>1. NoRow = [row |-> 0, state |-> "free", indexed |-> FALSE] BY DEF NoRow, Row, Nil
  <2> QED BY <2>1 DEF HeapType
<1>4. \A t \in Tids : t \notin S => heap'[t] = heap[t] BY <1>1
<1>5. \A t \in Tids : t \in S => heap'[t] = NoRow BY <1>1
<1>6. heap' \in [Tids -> HeapType] BY <1>1, <1>2, <1>3
<1>7. /\ \A t \in Tids : heap[t].row <= rows
      /\ \A p \in CodeSpots : LET c == At(page, p) IN
           ~c.dead => heap[c.tid].row = c.row /\ heap[c.tid].state # "free"
      /\ \A t \in Tids : heap[t].state = "live" /\ heap[t].indexed => HasNode(t, heap[t].row, meta.count)
  BY DEF HeapOk
<1>8. \A t \in Tids : heap'[t].row <= rows
  <2> TAKE t \in Tids
  <2>1. CASE t \in S BY <1>2, <1>3, <1>5, <2>1
  <2>2. CASE t \notin S BY <1>4, <1>7, <2>2
  <2> QED BY <2>1, <2>2
<1>9. \A p \in CodeSpots : LET c == At(page, p) IN
           ~c.dead => heap'[c.tid].row = c.row /\ heap'[c.tid].state # "free"
  <2> SUFFICES ASSUME NEW p \in CodeSpots, ~At(page, p).dead
               PROVE  heap'[At(page, p).tid].row = At(page, p).row /\ heap'[At(page, p).tid].state # "free"
    OBVIOUS
  <2>1. At(page, p).tid \in Tids /\ At(page, p).tid \notin S BY CodeTids
  <2> QED BY <1>4, <1>7, <2>1
<1>10. \A t \in Tids : heap'[t].state = "live" /\ heap'[t].indexed => HasNode(t, heap'[t].row, meta.count)
  BY <1>3, <1>4, <1>5, <1>7
<1>11. CodeSpots' = CodeSpots BY DEF CodeSpots
<1>12. \A t \in Tids : heap'[t].state = "live" /\ heap'[t].indexed => HasNode(t, heap[t].row, meta.count)'
  BY <1>10, <1>11 DEF HasNode
<1>13. HeapOk' BY <1>8, <1>9, <1>11, <1>12 DEF HeapOk
<1> QED BY <1>4, <1>6, <1>13

\* The code tuple that an insert has written is of its row
LEMMA NewNode ==
  ASSUME Typed, Turns, NEW cs, NEW ads, Good(cs, ads), NEW p \in CodeSpots, NEW n \in Nat, n >= meta.count,
         At(page, p).node >= n
  PROVE  heap[At(page, p).tid].state = "inserting"
<1>1. Chained(page, cs, ads) /\ Placed(cs, ads) /\ \A b \in Backends : InsertOk(cs, ads, b) BY DEF Good
<1>2. p \in Spots(page, "code") BY DEF CodeSpots
<1>3. PICK j : CodeAt(page, cs, p, j) BY <1>1, <1>2, CodeSpotIs
<1>4. At(page, p).node < Total(page, cs) /\ At(page, p).node \in Nat BY <1>3 DEF CodeAt
<1>5. meta.count \in Nat BY DEF Typed, MetaType
<1>6. Total(page, cs) = IF \E b \in Backends : Writing(b) THEN meta.count + 1 ELSE meta.count BY <1>1 DEF Placed
<1>7. At(page, p).node = meta.count /\ \E b \in Backends : Writing(b) BY <1>4, <1>5, <1>6
<1>8. PICK b \in Backends : Writing(b) BY <1>7
<1>9. Inserting(b) BY <1>8, KindsOf DEF Writing
<1>10. At(page, p).tid = op[b].tid /\ heap[op[b].tid].state = "inserting" BY <1>1, <1>7, <1>8, <1>9 DEF InsertOk
<1> QED BY <1>10

LEMMA BeginVacuumKeeps ==
  ASSUME Inv, BeginVacuum
  PROVE  Inv'
<1>1. PICK cs, ads : Good(cs, ads) BY DEF Inv
<1>2. Typed /\ Turns BY DEF Inv
<1>3. /\ pc[Vacuum] = "idle" /\ bounds.vacuums < MaxVacuums
      /\ bounds' = [bounds EXCEPT !.vacuums = bounds.vacuums + 1]
      /\ page' = page /\ meta' = meta /\ rows' = rows /\ cache' = cache /\ op' = op
  BY DEF BeginVacuum
<1>R. PICK R : R = Removable OBVIOUS
<1>4. /\ R \subseteq Tids /\ \A t \in R : heap[t].state = "dead"
      /\ \A t \in R, a \in Backends : op[a].kind = "scan" => <<t, heap[t].row>> \notin op[a].snap
  BY <1>R DEF Removable
<1>5. /\ meta \in MetaType /\ meta.count \in Nat /\ bounds \in Counters /\ heap \in [Tids -> HeapType] /\ page \in Seq(PageType)
      /\ pc = [p \in Backends \cup {Vacuum} |-> pc[p]] /\ VacTyped
  BY <1>2 DEF Typed, MetaType
<1>6. /\ bounds' \in Counters /\ bounds'.new = bounds.new /\ bounds'.vacuums = bounds.vacuums + 1
      /\ bounds.vacuums \in Nat /\ bounds'.vacuums # 0 /\ bounds'.vacuums <= MaxVacuums /\ MaxVacuums \in Nat
  <2>1. bounds.vacuums \in Nat /\ bounds' \in Counters /\ bounds'.new = bounds.new
        /\ bounds'.vacuums = bounds.vacuums + 1
    BY <1>3, <1>5 DEF Counters
  <2>2. MaxVacuums \in Nat BY ConstantsAssumption
  <2> QED BY <1>3, <2>1, <2>2
<1>7. /\ Edits(page, page') /\ meta' \in MetaType /\ SameMeta /\ meta'.gen = (meta.gen + 0) % Wide /\ FlagsKept
      /\ \A p \in CodeSpots : At(page', p) = At(page, p)
  BY <1>2, <1>3, VacRests
<1>8. /\ Lists /\ HeapOk /\ Placed(cs, ads) /\ \A a \in Backends : ScanOk(a) BY <1>1 DEF Good
<1>9. Lists' BY <1>3, <1>8 DEF Lists, ListOk, AdjSpots
<1>10. ASSUME NEW a \in Backends, op[a].kind = "scan", NEW y \in op[a].snap PROVE y[1] \in Tids /\ y[1] \notin R
  <2>1. op[a] \in ScanOp BY <1>2, <1>10, KindsOf
  <2>2. op[a].snap \subseteq Tids \X Nat BY <2>1 DEF ScanOp, Version
  <2>3. y = <<y[1], y[2]>> /\ y[1] \in Tids BY <1>10, <2>2
  <2>4. y[2] = heap[y[1]].row BY <1>8, <1>10 DEF ScanOk, SnapOk
  <2> QED BY <1>4, <1>10, <2>3, <2>4
<1>11. ASSUME NEW p \in CodeSpots, At(page, p).node >= meta.count PROVE At(page, p).tid \notin R
  <2>1. heap[At(page, p).tid].state = "inserting" BY <1>1, <1>2, <1>5, <1>11, NewNode
  <2> QED BY <1>4, <2>1
<1>12. CASE meta.count = 0 \/ meta.codeStart = Nil
  <2>1. Reap(R) /\ vac' = vac /\ pc' = pc BY <1>12, <1>R DEF BeginVacuum
  <2>2. meta.count = 0
    <3>1. meta.count # 0 => meta.codeStart # Nil BY <1>1, <1>2, StartsThere
    <3> QED BY <1>12, <3>1
  <2>3. \A p \in CodeSpots : At(page, p).tid \notin R
    <3> TAKE p \in CodeSpots
    <3>1. At(page, p).node \in Nat BY <1>2, CodeTids
    <3> QED BY <1>11, <2>2, <3>1
  <2>4. /\ HeapOk' /\ heap' \in [Tids -> HeapType] /\ \A t \in Tids : t \notin R => heap'[t] = heap[t]
        /\ \A t \in Tids : heap'[t] = heap[t] \/ heap[t].state = "dead"
    BY <1>2, <1>3, <1>4, <1>8, <2>1, <2>3, Reaped
  <2>5. VacTyped' BY <1>5, <2>1 DEF VacTyped
  <2>6. ~Marking' /\ ~Marking BY <1>3, <2>1 DEF Marking
  <2>7. ~Stale' /\ ~Stale BY <2>6 DEF Stale
  <2>8. Vacs + 0 <= Vacs' BY <1>3, <1>6, <2>1 DEF Vacs
  <2>9. pc'[Vacuum] = "idle" /\ pc' = [p \in Backends \cup {Vacuum} |-> pc'[p]] BY <1>3, <1>5, <2>1
  <2>10. \A a \in Backends : op[a].kind = "scan" =>
       \A y \in op[a].snap : /\ heap'[y[1]] = heap[y[1]] /\ (pc'[Vacuum] # "idle" => y[1] \notin vac'.dead)
                             /\ \A p \in CodeSpots : ~At(page, p).dead /\ At(page', p).dead => y[1] # At(page, p).tid
    BY <1>7, <1>10, <2>4, <2>9
  <2>11. VacMoves(0) BY <1>3, <1>6, <1>7, <2>1, <2>4, <2>5, <2>6, <2>7, <2>8, <2>9, <2>10 DEF VacMoves
  <2>12. VacOk(cs, ads)' BY <2>9 DEF VacOk
  <2> QED BY <1>1, <1>2, <1>9, <2>4, <2>11, <2>12, VacStep
<1>13. CASE ~(meta.count = 0 \/ meta.codeStart = Nil)
  <2>v. PICK v : v = [dead |-> R, meta |-> meta, nodes |-> {}, changed |-> FALSE,
                       blk |-> meta.codeStart, pageNo |-> 0, nblocks |-> Len(page)] OBVIOUS
  <2>1. vac' = v /\ pc' = [pc EXCEPT ![Vacuum] = "vacLock"] /\ heap' = heap
    BY <1>13, <1>R, <2>v DEF BeginVacuum, Goto
  <2>2. /\ v.dead = R /\ v.meta = meta /\ v.changed = FALSE /\ v.blk = meta.codeStart /\ v.pageNo = 0
        /\ v \in VacOp
    <3>1. meta.codeStart \in Nat /\ Len(page) \in Nat BY <1>5 DEF MetaType
    <3> QED BY <1>4, <1>5, <2>v, <3>1 DEF VacOp
  <2>3. /\ pc'[Vacuum] = "vacLock" /\ (\A a \in Backends : pc'[a] = pc[a])
        /\ pc' = [p \in Backends \cup {Vacuum} |-> pc'[p]]
    BY <1>5, <2>1, Basics
  <2>4. VacTyped' BY <2>1, <2>2, <2>3 DEF VacTyped
  <2>5. ~Marking' /\ ~Marking BY <1>3, <2>3 DEF Marking
  <2>6. ~Stale' /\ ~Stale BY <2>5 DEF Stale
  <2>7. Vacs + 0 <= Vacs' BY <1>3, <1>6, <2>3 DEF Vacs
  <2>8. \A a \in Backends : op[a].kind = "scan" =>
       \A y \in op[a].snap : /\ heap'[y[1]] = heap[y[1]] /\ (pc'[Vacuum] # "idle" => y[1] \notin vac'.dead)
                             /\ \A p \in CodeSpots : ~At(page, p).dead /\ At(page', p).dead => y[1] # At(page, p).tid
    BY <1>7, <1>10, <2>1, <2>2
  <2>9. VacMoves(0) BY <1>3, <1>5, <1>6, <1>7, <2>1, <2>3, <2>4, <2>5, <2>6, <2>7, <2>8 DEF VacMoves
  <2>10. meta.codeStart = Start(cs) /\ meta.adjStart = Start(ads) BY <1>1, <1>2, <1>13, StartsThere
  <2>11. CodeSpots' = CodeSpots BY <1>3 DEF CodeSpots
  <2>12. VacOk(cs, ads)'
    <3>1. meta.count # 0 /\ meta.count <= meta.count BY <1>5, <1>13
    <3> QED BY <1>3, <1>4, <1>11, <2>1, <2>2, <2>3, <2>10, <2>11, <3>1 DEF VacOk
  <2>13. HeapOk' BY <1>3, <1>8, <2>1, <2>11 DEF HeapOk, HasNode
  <2> QED BY <1>1, <1>2, <1>9, <2>9, <2>12, <2>13, VacStep
<1> QED BY <1>12, <1>13

LEMMA LockVacuumKeeps ==
  ASSUME Inv, LockVacuum
  PROVE  Inv'
<1>1. PICK cs, ads : Good(cs, ads) BY DEF Inv
<1>2. Typed /\ Turns BY DEF Inv
<1>v. PICK v, w : v = vac /\ w = [v EXCEPT !.nblocks = Len(page)] OBVIOUS
<1>3. /\ pc[Vacuum] = "vacLock" /\ (\A a \in Backends : ~Scanning(a))
      /\ vac' = w /\ pc' = [pc EXCEPT ![Vacuum] = "vacCode"]
      /\ page' = page /\ meta' = meta /\ heap' = heap /\ rows' = rows /\ cache' = cache /\ op' = op /\ bounds' = bounds
  BY <1>v DEF LockVacuum, Goto
<1>4. v \in VacOp BY <1>2, <1>3, <1>v DEF Typed, VacTyped
<1>5. /\ w \in VacOp /\ w.dead = v.dead /\ w.meta = v.meta /\ w.changed = v.changed /\ w.blk = v.blk
      /\ w.pageNo = v.pageNo /\ w.nblocks = Len(page) /\ w.meta.count \in Nat
  <2>1. Len(page) \in Nat BY <1>2 DEF Typed
  <2> QED BY <1>4, <1>v, <2>1 DEF VacOp, MetaType
<1>6. /\ meta \in MetaType /\ bounds \in Counters /\ heap \in [Tids -> HeapType]
      /\ pc = [p \in Backends \cup {Vacuum} |-> pc[p]]
  BY <1>2 DEF Typed
<1>7. /\ pc'[Vacuum] = "vacCode" /\ (\A a \in Backends : pc'[a] = pc[a])
      /\ pc' = [p \in Backends \cup {Vacuum} |-> pc'[p]]
  BY <1>3, <1>6, Basics
<1>8. /\ Edits(page, page') /\ meta' \in MetaType /\ SameMeta /\ meta'.gen = (meta.gen + 0) % Wide /\ FlagsKept
      /\ \A p \in CodeSpots : At(page', p) = At(page, p)
  BY <1>2, <1>3, VacRests
<1>9. /\ Lists /\ HeapOk /\ VacOk(cs, ads) /\ Chained(page, cs, ads) /\ \A a \in Backends : ScanOk(a)
  BY <1>1 DEF Good
<1>10. /\ v.meta.count # 0 /\ v.meta.count <= meta.count
       /\ v.meta.codeStart = Start(cs) /\ v.meta.adjStart = Start(ads)
       /\ \A t \in v.dead : heap[t].state = "dead"
       /\ \A p \in CodeSpots : LET c == At(page, p) IN c.node >= v.meta.count => c.dead \/ c.tid \notin v.dead
       /\ ~v.changed /\ v.pageNo = 0 /\ v.blk = Start(cs)
  BY <1>3, <1>9, <1>v DEF VacOk
<1>11. VacTyped' BY <1>3, <1>5, <1>7 DEF VacTyped
<1>12. ~Stale' /\ ~Stale BY <1>3, <1>5, <1>10, <1>v DEF Stale
<1>13. Vacs + 0 <= Vacs'
  <2>1. Vacs' = Vacs BY <1>3, <1>7 DEF Vacs
  <2>2. Vacs \in Nat BY <1>2, VacsIs
  <2> QED BY <2>1, <2>2
<1>14. bounds'.vacuums <= MaxVacuums /\ bounds'.vacuums # 0 BY <1>2, <1>3 DEF Turns
<1>15. \A a \in Backends : op[a].kind = "scan" =>
       \A y \in op[a].snap : /\ heap'[y[1]] = heap[y[1]] /\ (pc'[Vacuum] # "idle" => y[1] \notin vac'.dead)
                             /\ \A p \in CodeSpots : ~At(page, p).dead /\ At(page', p).dead => y[1] # At(page, p).tid
  BY <1>3, <1>5, <1>8, <1>9, <1>v DEF ScanOk, SnapOk
<1>16. VacMoves(0) BY <1>3, <1>6, <1>7, <1>8, <1>11, <1>12, <1>13, <1>14, <1>15 DEF VacMoves
<1>17. CodeSpots' = CodeSpots /\ AdjSpots' = AdjSpots BY <1>3 DEF CodeSpots, AdjSpots
<1>18. VacOk(cs, ads)'
  <2>1. ASSUME NEW p \in CodeSpots
        PROVE  /\ At(page, p).node >= w.meta.count => At(page, p).dead \/ At(page, p).tid \notin w.dead
               /\ p[1] <= w.nblocks /\ ~(At(page, p).node < w.pageNo * CodeCap)
    <3>1. At(page, p).node \in Nat BY <1>2, CodeTids
    <3>2. w.pageNo * CodeCap = 0 BY <1>5, <1>10, Basics
    <3>3. p[1] \in 1..Len(page) BY DEF CodeSpots, Spots
    <3> QED BY <1>5, <1>10, <3>1, <3>2, <3>3
  <2>2. w.pageNo < Len(cs) /\ w.blk = cs[w.pageNo + 1] /\ w.pageNo * CodeCap < w.meta.count
    <3>1. meta.count # 0
      <4>1. meta.count \in Nat BY <1>6 DEF MetaType
      <4> QED BY <1>5, <1>10, <4>1
    <3>2. cs # <<>> BY <1>1, <1>2, <3>1, StartsThere
    <3>3. Len(cs) \in Nat /\ Len(cs) # 0 BY <1>9, <3>2 DEF Chained, IsChain
    <3>4. Start(cs) = cs[1] BY <3>2 DEF Start
    <3>5. w.pageNo * CodeCap = 0 BY <1>5, <1>10, Basics
    <3> QED BY <1>5, <1>10, <3>3, <3>4, <3>5
  <2> QED BY <1>3, <1>5, <1>7, <1>10, <1>17, <2>1, <2>2 DEF VacOk
<1>19. HeapOk' BY <1>3, <1>9, <1>17 DEF HeapOk, HasNode
<1>20. Lists' BY <1>3, <1>9, <1>17 DEF Lists, ListOk
<1> QED BY <1>1, <1>2, <1>16, <1>18, <1>19, <1>20, VacStep

LEMMA FinishVacuumKeeps ==
  ASSUME Inv, FinishVacuum
  PROVE  Inv'
<1>1. PICK cs, ads : Good(cs, ads) BY DEF Inv
<1>2. Typed /\ Turns BY DEF Inv
<1>v. PICK v : v = vac OBVIOUS
<1>3. /\ pc[Vacuum] = "vacEnd" /\ meta' = [meta EXCEPT !.gen = GenAfterVacuum] /\ Reap(v.dead)
      /\ vac' = NoVacuum /\ pc' = [pc EXCEPT ![Vacuum] = "idle"]
      /\ page' = page /\ rows' = rows /\ cache' = cache /\ op' = op /\ bounds' = bounds
  BY <1>v DEF FinishVacuum, Goto
<1>4. v \in VacOp BY <1>2, <1>3, <1>v DEF Typed, VacTyped
<1>5. v.changed \in BOOLEAN BY <1>4 DEF VacOp
<1>6. /\ meta \in MetaType /\ bounds \in Counters /\ heap \in [Tids -> HeapType] /\ page \in Seq(PageType)
      /\ pc = [p \in Backends \cup {Vacuum} |-> pc[p]]
  BY <1>2 DEF Typed
<1>7. /\ pc'[Vacuum] = "idle" /\ (\A a \in Backends : pc'[a] = pc[a])
      /\ pc' = [p \in Backends \cup {Vacuum} |-> pc'[p]]
  BY <1>3, <1>6, Basics
<1>d. PICK d \in Nat : d = IF v.changed THEN 1 ELSE 0 OBVIOUS
<1>8. GenAfterVacuum \in 0..(Wide - 1) /\ GenAfterVacuum = (meta.gen + d) % Wide
  <2>g. PICK g : g = meta.gen OBVIOUS
  <2>1. g \in 0..(Wide - 1) BY <1>6, <2>g DEF MetaType
  <2>2. CASE v.changed
    <3>1. GenAfterVacuum = Bump(g) BY <1>v, <2>2, <2>g DEF GenAfterVacuum
    <3> QED BY <1>d, <2>1, <2>2, <2>g, <3>1, BumpOne
  <2>3. CASE ~v.changed
    <3>1. GenAfterVacuum = g BY <1>v, <2>3, <2>g DEF GenAfterVacuum
    <3> QED BY <1>d, <2>1, <2>3, <2>g, <3>1, SameGen
  <2> QED BY <2>2, <2>3
<1>9. meta' \in MetaType /\ meta'.gen = GenAfterVacuum /\ meta'.count = meta.count /\ SameMeta
  <2>g. PICK g : g = GenAfterVacuum OBVIOUS
  <2>1. meta' = [meta EXCEPT !.gen = g] BY <1>3, <2>g
  <2>2. meta' \in MetaType /\ meta'.gen = g /\ meta'.count = meta.count BY <1>6, <1>8, <2>1, <2>g DEF MetaType
  <2> QED BY <2>1, <2>2, <2>g DEF SameMeta
<1>10. Edits(page, page') /\ FlagsKept BY <1>3, <1>6, NoEdit DEF FlagsKept
<1>11. /\ Lists /\ HeapOk /\ VacOk(cs, ads) /\ \A a \in Backends : ScanOk(a) BY <1>1 DEF Good
<1>12. /\ \A t \in v.dead : heap[t].state = "dead"
       /\ \A p \in CodeSpots : At(page, p).dead \/ At(page, p).tid \notin v.dead
  BY <1>3, <1>11, <1>v DEF VacOk
<1>13. /\ HeapOk' /\ heap' \in [Tids -> HeapType] /\ \A t \in Tids : t \notin v.dead => heap'[t] = heap[t]
       /\ \A t \in Tids : heap'[t] = heap[t] \/ heap[t].state = "dead"
  BY <1>2, <1>3, <1>9, <1>11, <1>12, Reaped
<1>14. Marking /\ ~Marking' BY <1>3, <1>7 DEF Marking
<1>15. \A a \in Backends : ~Scanning(a) BY <1>2, <1>14 DEF Turns
<1>16. VacTyped' BY <1>3, <1>7 DEF VacTyped
<1>17. d = 0 /\ ~Stale' => ~Stale /\ FlagsKept BY <1>10, <1>d, <1>v DEF Stale
<1>18. Vacs + d <= Vacs'
  <2>1. bounds.vacuums \in Nat /\ bounds.vacuums # 0 BY <1>2, <1>3, <1>6 DEF Counters, Turns
  <2>2. Vacs = bounds.vacuums - 1 /\ Vacs' = bounds.vacuums BY <1>3, <1>7 DEF Vacs
  <2> QED BY <1>d, <2>1, <2>2
<1>19. bounds'.vacuums <= MaxVacuums BY <1>2, <1>3 DEF Turns
<1>20. \A a \in Backends : op[a].kind = "scan" =>
       \A y \in op[a].snap : /\ heap'[y[1]] = heap[y[1]] /\ (pc'[Vacuum] # "idle" => y[1] \notin vac'.dead)
                             /\ \A p \in CodeSpots : ~At(page, p).dead /\ At(page', p).dead => y[1] # At(page, p).tid
  <2> SUFFICES ASSUME NEW a \in Backends, op[a].kind = "scan", NEW y \in op[a].snap PROVE heap'[y[1]] = heap[y[1]]
    BY <1>3, <1>7
  <2>1. op[a] \in ScanOp BY <1>2, KindsOf
  <2>2. op[a].snap \subseteq Tids \X Nat BY <2>1 DEF ScanOp, Version
  <2>3. y[1] \in Tids BY <2>2
  <2>4. y[1] \notin v.dead BY <1>3, <1>11, <1>v DEF ScanOk, SnapOk
  <2> QED BY <1>13, <2>3, <2>4
<1>21. VacMoves(d)
  BY <1>3, <1>6, <1>7, <1>8, <1>9, <1>10, <1>13, <1>14, <1>15, <1>16, <1>17, <1>18, <1>19, <1>20 DEF VacMoves
<1>22. VacOk(cs, ads)' BY <1>7 DEF VacOk
<1>23. Lists'
  <2>1. AdjSpots' = AdjSpots BY <1>3 DEF AdjSpots
  <2> QED BY <1>3, <1>9, <1>11, <2>1 DEF Lists, ListOk
<1> QED BY <1>1, <1>2, <1>13, <1>21, <1>22, <1>23, VacStep

LEMMA CancelVacuumKeeps ==
  ASSUME Inv, Whole, Cancel(Vacuum)
  PROVE  Inv'
<1>1. PICK cs, ads : Good(cs, ads) BY DEF Inv
<1>2. Typed /\ Turns BY DEF Inv
<1>3. /\ pc[Vacuum] \in CancelAt /\ bounds' = [bounds EXCEPT !.cancels = bounds.cancels + 1]
      /\ vac' = NoVacuum /\ pc' = [pc EXCEPT ![Vacuum] = "idle"]
      /\ page' = page /\ meta' = meta /\ heap' = heap /\ rows' = rows /\ cache' = cache /\ op' = op
  BY DEF Cancel, Goto
<1>4. ~Stale BY DEF Whole
<1>5. /\ meta \in MetaType /\ bounds \in Counters /\ heap \in [Tids -> HeapType]
      /\ pc = [p \in Backends \cup {Vacuum} |-> pc[p]]
  BY <1>2 DEF Typed
<1>6. /\ pc'[Vacuum] = "idle" /\ (\A a \in Backends : pc'[a] = pc[a])
      /\ pc' = [p \in Backends \cup {Vacuum} |-> pc'[p]]
  BY <1>3, <1>5, Basics
<1>7. /\ Edits(page, page') /\ meta' \in MetaType /\ SameMeta /\ meta'.gen = (meta.gen + 0) % Wide /\ FlagsKept
      /\ \A p \in CodeSpots : At(page', p) = At(page, p)
  BY <1>2, <1>3, VacRests
<1>8. /\ Lists /\ HeapOk /\ \A a \in Backends : ScanOk(a) BY <1>1 DEF Good
<1>9. ~Marking' /\ ~Stale /\ ~Stale' BY <1>4, <1>6 DEF Marking, Stale
<1>10. /\ bounds' \in Counters /\ bounds'.new = bounds.new /\ bounds'.vacuums = bounds.vacuums
       /\ bounds.vacuums \in Nat
  BY <1>3, <1>5 DEF Counters
<1>11. Vacs + 0 <= Vacs'
  <2>1. Vacs \in {bounds.vacuums, bounds.vacuums - 1} /\ Vacs' = bounds.vacuums BY <1>6, <1>10 DEF Vacs
  <2> QED BY <1>10, <2>1
<1>12. bounds'.vacuums <= MaxVacuums BY <1>2, <1>10 DEF Turns
<1>13. VacTyped' BY <1>3, <1>6 DEF VacTyped
<1>14. \A a \in Backends : op[a].kind = "scan" =>
       \A y \in op[a].snap : /\ heap'[y[1]] = heap[y[1]] /\ (pc'[Vacuum] # "idle" => y[1] \notin vac'.dead)
                             /\ \A p \in CodeSpots : ~At(page, p).dead /\ At(page', p).dead => y[1] # At(page, p).tid
  BY <1>3, <1>6, <1>7
<1>15. VacMoves(0) BY <1>3, <1>5, <1>6, <1>7, <1>9, <1>10, <1>11, <1>12, <1>13, <1>14 DEF VacMoves
<1>16. CodeSpots' = CodeSpots /\ AdjSpots' = AdjSpots BY <1>3 DEF CodeSpots, AdjSpots
<1>17. VacOk(cs, ads)' BY <1>6 DEF VacOk
<1>18. HeapOk' BY <1>3, <1>8, <1>16 DEF HeapOk, HasNode
<1>19. Lists' BY <1>3, <1>8, <1>16 DEF Lists, ListOk
<1> QED BY <1>1, <1>2, <1>15, <1>17, <1>18, <1>19, VacStep

\* The tuples of a page are replaced
Replaced(P, b, new) == [P EXCEPT ![b].tup = new]
SameTuples(k, s, t) ==
  \A i \in 1..Len(s) : IF k = "code" THEN SameCode(s[i], t[i]) ELSE SameAdj(s[i], t[i])
EditOf(P, Q, b, k, tup, new) ==
  /\ Edits(P, Q)
  /\ \A kind : \A q \in Spots(P, kind) : /\ q[1] # b => At(Q, q) = At(P, q)
                                         /\ q[1] = b => /\ kind = k /\ At(Q, q) = new[q[2]]
                                                        /\ At(P, q) = tup[q[2]] /\ q[2] \in 1..Len(tup)
LEMMA EditedPage ==
  ASSUME NEW P \in Seq(PageType), NEW b \in 1..Len(P), NEW k \in Kinds, P[b].kind = k,
         NEW new \in Seq(TupleType(k)), NEW tup, tup = P[b].tup, Len(new) = Len(tup),
         SameTuples(k, tup, new), NEW Q, Q = Replaced(P, b, new)
  PROVE  EditOf(P, Q, b, k, tup, new)
<1>0. /\ \A i \in 1..Len(tup) : IF k = "code" THEN SameCode(tup[i], new[i]) ELSE SameAdj(tup[i], new[i])
      /\ Q = [P EXCEPT ![b].tup = new] BY DEF SameTuples, Replaced
<1>g. PICK g : g = P[b] OBVIOUS
<1>1. g \in PageType BY <1>g, ElementOfSeq
<1>2. g.next \in Nat /\ g.kind = k BY <1>1, <1>g, PageIs
<1>h. PICK h : h = [kind |-> k, next |-> g.next, tup |-> new] OBVIOUS
<1>3. h \in PageType /\ h.kind = k /\ h.next = g.next /\ h.tup = new BY <1>2, <1>h, PageMade
<1>4. Q = [P EXCEPT ![b] = h]
  <2>1. g = [kind |-> g.kind, next |-> g.next, tup |-> g.tup] BY <1>1 DEF PageType
  <2>2. h = [g EXCEPT !.tup = new] BY <1>2, <1>h, <2>1
  <2> QED BY <1>0, <1>g, <2>2
<1>5. /\ Q \in Seq(PageType) /\ Len(Q) = Len(P) /\ \A j \in 1..Len(P) : Q[j] = IF j = b THEN h ELSE P[j]
  <2>1. /\ [P EXCEPT ![b] = h] \in Seq(PageType) /\ Len([P EXCEPT ![b] = h]) = Len(P)
        /\ \A j \in 1..Len(P) : [P EXCEPT ![b] = h][j] = IF j = b THEN h ELSE P[j]
    BY ONLY P \in Seq(PageType), b \in 1..Len(P), <1>3, ExceptSeq
  <2> QED BY ONLY <1>4, <2>1
<1>6. \A j \in 1..Len(P) : Q[j].kind = P[j].kind /\ Q[j].next = P[j].next /\ Len(Q[j].tup) = Len(P[j].tup)
  BY <1>2, <1>3, <1>5, <1>g
<1>7. ASSUME NEW kind, NEW q \in Spots(P, kind)
      PROVE  /\ q[1] # b => At(Q, q) = At(P, q)
             /\ q[1] = b => /\ kind = k /\ At(Q, q) = new[q[2]]
                            /\ At(P, q) = tup[q[2]] /\ q[2] \in 1..Len(tup)
  <2>1. q[1] \in 1..Len(P) /\ q[2] \in 1..Len(P[q[1]].tup) /\ P[q[1]].kind = kind BY DEF Spots
  <2>2. CASE q[1] = b BY <1>3, <1>5, <2>1, <2>2 DEF At
  <2>3. CASE q[1] # b BY <1>5, <2>1, <2>3 DEF At
  <2> QED BY <2>2, <2>3
<1>8. \A q \in Spots(P, "code") : SameCode(At(P, q), At(Q, q))
  <2> TAKE q \in Spots(P, "code")
  <2>1. CASE q[1] = b
    <3>1. /\ "code" = k /\ At(Q, q) = new[q[2]] /\ At(P, q) = tup[q[2]] /\ q[2] \in 1..Len(tup)
      BY <1>7, <2>1
    <3> QED BY ONLY <1>0, <3>1
  <2>2. CASE q[1] # b BY <1>7, <2>2 DEF SameCode
  <2> QED BY <2>1, <2>2
<1>9. \A q \in Spots(P, "adj") : SameAdj(At(P, q), At(Q, q))
  <2> TAKE q \in Spots(P, "adj")
  <2>1. CASE q[1] = b
    <3>1. k = "adj" /\ At(Q, q) = new[q[2]] /\ At(P, q) = tup[q[2]] /\ q[2] \in 1..Len(tup) BY <1>7, <2>1
    <3>2. SameAdj(tup[q[2]], new[q[2]]) BY <1>0, <3>1
    <3> QED BY <3>1, <3>2
  <2>2. CASE q[1] # b BY <1>7, <2>2 DEF SameAdj
  <2> QED BY <2>1, <2>2
<1>10. Edits(P, Q) BY <1>5, <1>6, <1>8, <1>9 DEF Edits, SameShape
<1> QED BY <1>7, <1>10 DEF EditOf

\* The nodes that a step of VACUUM marks: those of rows to be removed
Marks(p) == p[1] = vac.blk /\ At(page, p).node < vac.meta.count /\ At(page, p).tid \in vac.dead
CodeVac(more, w, l) ==
  /\ vac' = w /\ w \in VacOp /\ w.dead = vac.dead /\ w.meta = vac.meta /\ w.pageNo = vac.pageNo + 1
  /\ pc' = [pc EXCEPT ![Vacuum] = l]
  /\ more \in BOOLEAN
  /\ more <=> /\ vac.pageNo + 1 < PageCount(vac.meta.count)
              /\ page[vac.blk].next # Nil /\ page[vac.blk].next <= vac.nblocks
  /\ more => l = "vacCode" /\ w.blk = page[vac.blk].next /\ w.nblocks = vac.nblocks
  /\ ~more => l \in {"vacAdj", "vacEnd"} /\ w.blk = vac.meta.adjStart /\ (l = "vacAdj" => w.blk # Nil)
  /\ ~w.changed => ~vac.changed /\ FlagsKept
LEMMA VacuumCodeIs ==
  ASSUME Typed, Turns, NEW cs, NEW ads, Good(cs, ads), VacuumCode
  PROVE  /\ Edits(page, page') /\ vac.blk \in Blocks /\ vac \in VacOp /\ vac.pageNo + 1 \in 1..Len(cs)
         /\ vac.blk = cs[vac.pageNo + 1]
         /\ \A p \in CodeSpots : At(page', p).dead <=> At(page, p).dead \/ Marks(p)
         /\ \A p \in AdjSpots : At(page', p) = At(page, p)
         /\ \E more, w, l : CodeVac(more, w, l)
<1> DEFINE T0 == page[vac.blk].tup
           N0 == page[vac.blk].next
           mine == {i \in 1..Len(T0) : T0[i].node < vac.meta.count}
           kill == {i \in mine : ~T0[i].dead /\ T0[i].tid \in vac.dead}
           dead == vac.nodes \cup {T0[i].node : i \in kill \cup {i \in mine : T0[i].dead}}
           ch   == vac.changed \/ kill # {}
           more == /\ vac.pageNo + 1 < PageCount(vac.meta.count)
                   /\ N0 # Nil /\ N0 <= vac.nblocks
           blk  == IF more THEN N0 ELSE vac.meta.adjStart
           nb   == IF more THEN vac.nblocks ELSE Len(page)
           l    == IF more THEN "vacCode" ELSE IF dead # {} /\ vac.meta.adjStart # Nil THEN "vacAdj" ELSE "vacEnd"
           new  == [i \in 1..Len(T0) |-> [T0[i] EXCEPT !.dead = T0[i].dead \/ i \in kill]]
<1>p. page' = [page EXCEPT ![vac.blk].tup = new] BY Zenon DEF VacuumCode
<1>q. vac' = [vac EXCEPT !.nodes = dead, !.changed = ch, !.pageNo = vac.pageNo + 1, !.blk = blk, !.nblocks = nb]
  BY Zenon DEF VacuumCode
<1>r. pc' = [pc EXCEPT ![Vacuum] = l] BY Zenon DEF VacuumCode, Goto
<1>v. PICK v, B, g : v = vac /\ B = vac.blk /\ g = page[B] OBVIOUS
<1>t. PICK tup, n : tup = g.tup /\ n = Len(tup) OBVIOUS
<1>e. /\ mine = {i \in 1..n : tup[i].node < v.meta.count}
      /\ kill = {i \in mine : ~tup[i].dead /\ tup[i].tid \in v.dead}
      /\ dead = v.nodes \cup {tup[i].node : i \in kill \cup {i \in mine : tup[i].dead}}
  BY Zenon, <1>v, <1>t
<1>f. more \in BOOLEAN /\ ch \in BOOLEAN OBVIOUS
<1>m. more <=> v.pageNo + 1 < PageCount(v.meta.count) /\ g.next # Nil /\ g.next <= v.nblocks
  BY Zenon, <1>v
<1>c. ch <=> v.changed \/ kill # {} BY <1>v
<1>l. /\ more => l = "vacCode" /\ blk = g.next /\ nb = v.nblocks
      /\ ~more => l \in {"vacAdj", "vacEnd"} /\ blk = v.meta.adjStart /\ nb = Len(page)
      /\ l = "vacAdj" => v.meta.adjStart # Nil
  BY <1>v
<1>n. new = [i \in 1..n |-> [tup[i] EXCEPT !.dead = tup[i].dead \/ i \in kill]] BY ZenonT(60), <1>v, <1>t
<1> HIDE DEF T0, N0, mine, kill, dead, ch, more, blk, nb, l, new
<1>0. pc[Vacuum] = "vacCode" BY DEF VacuumCode
<1>1. v \in VacOp BY <1>0, <1>v DEF Typed, VacTyped
<1>2. /\ v.pageNo \in Nat /\ v.meta.count \in Nat /\ v.meta.adjStart \in Nat /\ v.nblocks \in Nat
      /\ v.dead \subseteq Tids /\ v.nodes \subseteq Nat /\ v.changed \in BOOLEAN /\ v.meta \in MetaType
  BY <1>1 DEF VacOp, MetaType
<1>3. v.pageNo < Len(cs) /\ B = cs[v.pageNo + 1] /\ v.pageNo * CodeCap < v.meta.count
  BY <1>0, <1>v DEF Good, VacOk
<1>4. cs \in Seq(1..Len(page)) /\ page \in Seq(PageType) /\ \A j \in 1..Len(cs) : page[cs[j]].kind = "code"
  <2>1. IsChain(page, cs, "code") /\ page \in Seq(PageType) BY DEF Good, Chained, Typed
  <2>2. cs \in Seq(1..Len(page)) BY <2>1 DEF IsChain
  <2>3. \A j \in 1..Len(cs) : cs[j] \in 1..Len(page) BY <2>2
  <2> QED BY <2>1, <2>2, <2>3 DEF IsChain
<1>5. v.pageNo + 1 \in 1..Len(cs) /\ B \in 1..Len(page) /\ g.kind = "code"
  <2>1. Len(cs) \in Nat BY <1>4
  <2>2. v.pageNo + 1 \in 1..Len(cs) BY <1>2, <1>3, <2>1
  <2> QED BY <1>3, <1>4, <1>v, <2>2
<1>6. g \in PageType BY <1>4, <1>5, <1>v, ElementOfSeq
<1>7. tup \in Seq(CodeType) /\ g.next \in Nat /\ n \in Nat BY <1>5, <1>6, <1>t, PageIs DEF TupleType
<1>8. \A i \in 1..n : tup[i] \in CodeType /\ tup[i].node \in Nat
  <2> TAKE i \in 1..n
  <2>1. tup[i] \in CodeType BY <1>7, <1>t, ElementOfSeq
  <2> QED BY <2>1 DEF CodeType
<1>9. kill \subseteq 1..n /\ dead \subseteq Nat
  <2>1. kill \subseteq 1..n /\ mine \subseteq 1..n BY <1>e
  <2> QED BY <1>2, <1>8, <1>e, <2>1
<1> DEFINE D(i) == tup[i].dead \/ i \in kill
           F(i) == [tup[i] EXCEPT !.dead = D(i)]
<1>o. new = [i \in 1..n |-> F(i)] BY Zenon, <1>n
<1>10. \A i \in 1..n : D(i) \in BOOLEAN OBVIOUS
<1>11. \A i \in 1..n : (D(i) <=> tup[i].dead \/ i \in kill) OBVIOUS
<1> HIDE DEF D
<1>12. ASSUME NEW i \in 1..n PROVE F(i) \in CodeType /\ F(i).dead = D(i) /\ SameCode(tup[i], F(i))
  <2>1. tup[i] \in CodeType /\ D(i) \in BOOLEAN BY <1>8, <1>10
  <2>2. F(i).dead = D(i) /\ F(i) \in CodeType BY <2>1 DEF CodeType
  <2>3. F(i).node = tup[i].node /\ F(i).tid = tup[i].tid /\ F(i).row = tup[i].row BY <2>1 DEF CodeType
  <2>4. tup[i].dead => F(i).dead BY <1>11, <2>2
  <2> QED BY <2>2, <2>3, <2>4 DEF SameCode
<1> HIDE DEF F
<1>13. new \in Seq(CodeType) /\ Len(new) = n /\ \A i \in 1..n : new[i] = F(i)
  <2>1. \A i \in 1..n : F(i) \in CodeType BY <1>12
  <2> QED BY ONLY <1>7, <1>o, <2>1
<1>14. page' = [page EXCEPT ![B].tup = new] BY <1>p, <1>v
<1>w. PICK w : w = [v EXCEPT !.nodes = dead, !.changed = ch, !.pageNo = v.pageNo + 1, !.blk = blk, !.nblocks = nb] OBVIOUS
<1>15. vac' = w BY Zenon, <1>q, <1>v, <1>w
<1>16. pc' = [pc EXCEPT ![Vacuum] = l] BY <1>r
<1>17. /\ Edits(page, page')
       /\ \A kind : \A q \in Spots(page, kind) : /\ q[1] # B => At(page', q) = At(page, q)
                                                 /\ q[1] = B => /\ kind = "code" /\ At(page', q) = new[q[2]]
                                                                /\ At(page, q) = tup[q[2]] /\ q[2] \in 1..n
  <2>1. "code" \in Kinds /\ new \in Seq(TupleType("code")) BY <1>13 DEF Kinds, TupleType
  <2>2. \A i \in 1..Len(tup) : SameCode(tup[i], new[i]) BY <1>12, <1>13, <1>t
  <2>3. tup = page[B].tup /\ page[B].kind = "code" /\ Len(new) = Len(tup) BY <1>5, <1>13, <1>t, <1>v
  <2>4. \A i \in 1..Len(tup) : IF "code" = "code" THEN SameCode(tup[i], new[i]) ELSE SameAdj(tup[i], new[i]) BY <2>2
  <2>5. PICK k, Q, P : k = "code" /\ Q = page' /\ P = page OBVIOUS
  <2>6. P \in Seq(PageType) /\ B \in 1..Len(P) /\ k \in Kinds /\ P[B].kind = k BY <1>4, <1>5, <1>v, <2>1, <2>5
  <2>7. new \in Seq(TupleType(k)) /\ tup = P[B].tup /\ Len(new) = Len(tup) BY <2>1, <2>3, <2>5
  <2>8. SameTuples(k, tup, new) BY <2>4, <2>5 DEF SameTuples
  <2>9. Q = Replaced(P, B, new) BY <1>14, <2>5 DEF Replaced
  <2>10. EditOf(P, Q, B, k, tup, new) BY ONLY <2>6, <2>7, <2>8, <2>9, EditedPage
  <2> QED BY <1>t, <2>5, <2>10 DEF EditOf
<1>18. \A p \in CodeSpots : At(page', p).dead <=> At(page, p).dead \/ Marks(p)
  <2> TAKE p \in CodeSpots
  <2>1. CASE p[1] # B BY <1>17, <1>v, <2>1 DEF CodeSpots, Marks
  <2>2. CASE p[1] = B
    <3>i. PICK i : i = p[2] OBVIOUS
    <3>1. At(page', p) = new[i] /\ At(page, p) = tup[i] /\ i \in 1..n BY <1>17, <2>2, <3>i DEF CodeSpots
    <3>2. At(page', p).dead = D(i) BY <1>12, <1>13, <3>1
    <3>3. i \in kill <=> ~tup[i].dead /\ Marks(p) BY <1>e, <1>v, <2>2, <3>1 DEF Marks
    <3> QED BY <1>11, <3>1, <3>2, <3>3
  <2> QED BY <2>1, <2>2
<1>19. \A p \in AdjSpots : At(page', p) = At(page, p)
  <2> TAKE p \in AdjSpots
  <2>1. p \in Spots(page, "adj") /\ "adj" # "code" BY DEF AdjSpots
  <2> QED BY <1>17, <2>1
<1>20. kill = {} => FlagsKept
  <2> SUFFICES ASSUME kill = {}, NEW p \in CodeSpots PROVE At(page', p).dead = At(page, p).dead BY DEF FlagsKept
  <2>1. CASE p[1] # B BY <1>17, <2>1 DEF CodeSpots
  <2>2. CASE p[1] = B
    <3>i. PICK i : i = p[2] OBVIOUS
    <3>1. At(page', p) = new[i] /\ At(page, p) = tup[i] /\ i \in 1..n BY <1>17, <2>2, <3>i DEF CodeSpots
    <3>2. At(page', p).dead = D(i) BY <1>12, <1>13, <3>1
    <3>3. tup[i].dead \in BOOLEAN BY <1>8, <3>1 DEF CodeType
    <3>4. D(i) \in BOOLEAN /\ (D(i) <=> tup[i].dead) BY <1>10, <1>11, <3>1
    <3> QED BY <3>1, <3>2, <3>3, <3>4
  <2> QED BY <2>1, <2>2
<1>21. CodeVac(more, w, l)
  <2>1. ch \in BOOLEAN /\ (~ch => ~v.changed /\ kill = {}) BY <1>f, <1>c
  <2>2. blk \in Nat /\ nb \in Nat
    <3>1. Len(page) \in Nat BY <1>4
    <3> QED BY <1>2, <1>7, <1>f, <1>l, <3>1
  <2>3. /\ w \in VacOp /\ w.dead = v.dead /\ w.meta = v.meta /\ w.pageNo = v.pageNo + 1 /\ w.blk = blk
        /\ w.nblocks = nb /\ w.changed = ch
    <3>1. v = [dead |-> v.dead, meta |-> v.meta, nodes |-> v.nodes, changed |-> v.changed, blk |-> v.blk,
               pageNo |-> v.pageNo, nblocks |-> v.nblocks] BY <1>1 DEF VacOp
    <3>2. w = [dead |-> v.dead, meta |-> v.meta, nodes |-> dead, changed |-> ch, blk |-> blk,
               pageNo |-> v.pageNo + 1, nblocks |-> nb] BY ONLY <1>w, <3>1
    <3>3. v.pageNo + 1 \in Nat BY <1>2
    <3>4. w \in VacOp BY <1>2, <1>9, <2>1, <2>2, <3>2, <3>3 DEF VacOp
    <3> QED BY ONLY <3>2, <3>4
  <2>4. more => l = "vacCode" /\ blk = g.next /\ nb = v.nblocks BY <1>l
  <2>5. ~more => l \in {"vacAdj", "vacEnd"} /\ blk = v.meta.adjStart /\ (l = "vacAdj" => blk # Nil) BY <1>l
  <2>6. ~w.changed => ~v.changed /\ FlagsKept BY <1>20, <2>1, <2>3
  <2> QED BY <1>15, <1>16, <1>f, <1>m, <1>v, <2>3, <2>4, <2>5, <2>6 DEF CodeVac
<1> QED BY <1>1, <1>3, <1>5, <1>17, <1>18, <1>19, <1>21, <1>v DEF Blocks

\* What VACUUM has yet to mark after a page
LEMMA CodeVacOk ==
  ASSUME Typed, Turns, NEW cs, NEW ads, Good(cs, ads), VacuumCode, NEW more, NEW w, NEW l, CodeVac(more, w, l),
         NEW p \in CodeSpots, At(page, p).tid \in vac.dead
  PROVE  /\ At(page, p).node < w.pageNo * CodeCap => At(page', p).dead
         /\ ~more => At(page', p).dead
<1>1. /\ vac.blk \in Blocks /\ vac \in VacOp /\ vac.pageNo + 1 \in 1..Len(cs) /\ vac.blk = cs[vac.pageNo + 1]
      /\ \A q \in CodeSpots : At(page', q).dead <=> At(page, q).dead \/ Marks(q)
  BY VacuumCodeIs
<1>c. PICK c, n, a, k : c = At(page, p) /\ n = c.node /\ a = vac.pageNo /\ k = vac.meta.count BY Zenon
<1>2. pc[Vacuum] = "vacCode" BY DEF VacuumCode
<1>3. Chained(page, cs, ads) /\ Placed(cs, ads) /\ VacOk(cs, ads) BY DEF Good
<1>4. /\ n >= k => c.dead
      /\ n < k => p[1] <= vac.nblocks
      /\ n < a * CodeCap => c.dead
      /\ k <= meta.count /\ a < Len(cs)
  BY <1>2, <1>3, <1>c DEF VacOk
<1>5. p \in Spots(page, "code") BY DEF CodeSpots
<1>6. PICK j : CodeAt(page, cs, p, j) BY <1>3, <1>5, CodeSpotIs
<1>7. /\ j \in 1..Len(cs) /\ p[1] = cs[j] /\ (j - 1) * CodeCap <= n /\ n < j * CodeCap /\ n \in Nat
  BY <1>6, <1>c DEF CodeAt
<1>8. /\ a \in Nat /\ k \in Nat /\ w.pageNo = a + 1 /\ CodeCap \in Nat \ {0} /\ Len(cs) \in Nat /\ vac.nblocks \in Nat
  <2>1. vac.pageNo \in Nat /\ vac.meta \in MetaType /\ vac.nblocks \in Nat BY <1>1 DEF VacOp
  <2>2. vac.meta.count \in Nat BY <2>1 DEF MetaType
  <2>3. Len(cs) \in Nat BY <1>3 DEF Chained, IsChain
  <2>4. w.pageNo = vac.pageNo + 1 BY Zenon DEF CodeVac
  <2> QED BY <1>c, <2>1, <2>2, <2>3, <2>4, Basics
<1>9. IsChain(page, cs, "code") /\ cs \in Seq(1..Len(page)) /\ page \in Seq(PageType)
  BY <1>3 DEF Chained, IsChain, Typed
<1>10. /\ \A i, m \in 1..Len(cs) : i < m => cs[i] < cs[m]
       /\ \A m \in 1..Len(cs) : page[cs[m]].next = IF m = Len(cs) THEN Nil ELSE cs[m + 1]
  BY <1>9 DEF IsChain
<1>11. j <= a + 1 => At(page', p).dead
  <2>1. SUFFICES ASSUME j <= a + 1 PROVE At(page', p).dead OBVIOUS
  <2>2. CASE j < a + 1
    <3>1. j * CodeCap <= a * CodeCap /\ j * CodeCap \in Nat /\ a * CodeCap \in Nat
      <4>1. CASE j = a BY <1>7, <1>8, <4>1
      <4>2. CASE j < a
        <5>1. /\ j * CodeCap \in Nat /\ a * CodeCap \in Nat /\ (j + 1) * CodeCap = j * CodeCap + CodeCap
              /\ (j + 1) * CodeCap <= a * CodeCap BY <1>7, <1>8, <4>2, Products
        <5> QED BY <1>8, <5>1
      <4> QED BY <1>7, <1>8, <2>2, <4>1, <4>2
    <3>2. n < a * CodeCap BY <1>7, <3>1
    <3> QED BY <1>1, <1>4, <1>c, <3>2
  <2>3. CASE j = a + 1
    <3>1. p[1] = vac.blk BY <1>1, <1>7, <1>c, <2>3
    <3>2. CASE n < k
      <4>1. Marks(p) BY <1>c, <3>1, <3>2 DEF Marks
      <4> QED BY <1>1, <4>1
    <3>3. CASE n >= k BY <1>1, <1>4, <1>c, <3>3
    <3> QED BY <1>7, <1>8, <3>2, <3>3
  <2> QED BY <1>7, <1>8, <2>1, <2>2, <2>3
<1>12. j > a + 1 => (a + 1) * CodeCap <= n
  <2> SUFFICES ASSUME j > a + 1 PROVE (a + 1) * CodeCap <= n OBVIOUS
  <2>j. PICK i : i = j - 1 /\ i \in Nat BY <1>7
  <2>1. (a + 1) * CodeCap <= i * CodeCap
    <3>1. CASE a + 1 = i BY <1>8, <2>j, <3>1
    <3>2. CASE a + 1 < i
      <4>b. PICK b : b = a + 1 OBVIOUS
      <4>1. b \in Nat /\ b < i BY <1>8, <3>2, <4>b
      <4>2. /\ b * CodeCap \in Nat /\ i * CodeCap \in Nat /\ (b + 1) * CodeCap = b * CodeCap + CodeCap
            /\ (b + 1) * CodeCap <= i * CodeCap BY <2>j, <4>1, Products
      <4>3. b * CodeCap <= i * CodeCap BY <1>8, <4>2
      <4> QED BY <4>3, <4>b
    <3> QED BY <1>7, <1>8, <2>j, <3>1, <3>2
  <2>2. i * CodeCap <= n /\ i * CodeCap \in Nat /\ (a + 1) * CodeCap \in Nat BY <1>7, <1>8, <2>j
  <2> QED BY <1>7, <2>1, <2>2
<1>13. n < w.pageNo * CodeCap => At(page', p).dead
  <2>1. SUFFICES ASSUME n < (a + 1) * CodeCap PROVE At(page', p).dead BY <1>8
  <2>2. (a + 1) * CodeCap \in Nat BY <1>8
  <2>3. ~(j > a + 1) BY <1>7, <1>12, <2>1, <2>2
  <2> QED BY <1>7, <1>8, <1>11, <2>3
<1>14. ~more => At(page', p).dead
  <2>1. SUFFICES ASSUME ~more, j > a + 1, n < k PROVE At(page', p).dead
    <3>1. n >= k => At(page', p).dead BY <1>1, <1>4, <1>c
    <3> QED BY <1>7, <1>8, <1>11, <3>1
  <2>2. a + 1 < Len(cs) /\ a + 1 \in 1..Len(cs) /\ a + 2 \in 1..Len(cs)
    <3>1. PICK x : x = Len(cs) OBVIOUS
    <3>2. a \in Nat /\ x \in Nat /\ j \in 1..x BY <1>7, <1>8, <3>1
    <3>3. a + 1 < x /\ a + 1 \in 1..x /\ a + 2 \in 1..x BY ONLY <2>1, <3>2
    <3> QED BY ONLY <3>1, <3>3
  <2>3. page[vac.blk].next = cs[a + 2]
    <3>1. (a + 1) + 1 = a + 2 /\ a + 1 # Len(cs) BY <1>8, <2>2
    <3> QED BY <1>1, <1>10, <1>c, <2>2, <3>1
  <2>4. cs[a + 2] <= cs[j] /\ cs[a + 2] \in 1..Len(page) /\ cs[j] \in 1..Len(page)
    <3>1. cs[a + 2] \in 1..Len(page) /\ cs[j] \in 1..Len(page) BY <1>7, <1>9, <2>2
    <3>2. CASE j = a + 2 BY <3>1, <3>2
    <3>3. CASE j > a + 2 BY <1>7, <1>10, <2>2, <3>1, <3>3
    <3> QED BY <1>7, <1>8, <2>1, <3>1, <3>2, <3>3
  <2>5. page[vac.blk].next # Nil /\ page[vac.blk].next <= vac.nblocks
    <3>1. cs[j] <= vac.nblocks BY <1>4, <1>7, <2>1
    <3>2. Len(page) \in Nat BY <1>9
    <3> QED BY <1>8, <2>3, <2>4, <3>1, <3>2 DEF Nil
  <2>6. a + 1 < PageCount(k)
    <3>1. (a + 1) * CodeCap <= n /\ (a + 1) * CodeCap \in Nat BY <1>8, <1>12, <2>1
    <3>2. (a + 1) * CodeCap < k BY <1>7, <1>8, <2>1, <3>1
    <3>3. a + 1 \in Nat BY <1>8
    <3> QED BY <1>8, <3>2, <3>3, PagesFor
  <2>7. more BY <1>c, <2>5, <2>6 DEF CodeVac
  <2> QED BY <2>1, <2>7
<1> QED BY <1>13, <1>14, <1>c

LEMMA VacuumCodeKeeps ==
  ASSUME Inv, VacuumCode
  PROVE  Inv'
<1>1. PICK cs, ads : Good(cs, ads) BY DEF Inv
<1>2. Typed /\ Turns BY DEF Inv
<1>3. /\ pc[Vacuum] = "vacCode" /\ meta' = meta /\ heap' = heap /\ rows' = rows /\ cache' = cache
      /\ op' = op /\ bounds' = bounds
  BY DEF VacuumCode
<1>4. /\ Edits(page, page') /\ vac.blk \in Blocks /\ vac \in VacOp /\ vac.pageNo + 1 \in 1..Len(cs)
      /\ vac.blk = cs[vac.pageNo + 1]
      /\ \A p \in CodeSpots : At(page', p).dead <=> At(page, p).dead \/ Marks(p)
      /\ \A p \in AdjSpots : At(page', p) = At(page, p)
  BY <1>1, <1>2, VacuumCodeIs
<1>5. PICK more, w, l : CodeVac(more, w, l) BY <1>1, <1>2, VacuumCodeIs
<1>6. /\ vac' = w /\ w \in VacOp /\ w.dead = vac.dead /\ w.meta = vac.meta /\ w.pageNo = vac.pageNo + 1
      /\ pc' = [pc EXCEPT ![Vacuum] = l] /\ more \in BOOLEAN
      /\ ~w.changed => ~vac.changed /\ FlagsKept
      /\ l \in {"vacCode", "vacAdj", "vacEnd"} /\ (l = "vacCode" => more) /\ (~more => l # "vacCode")
  BY <1>5 DEF CodeVac
<1>7. /\ more => /\ l = "vacCode" /\ w.blk = page[vac.blk].next /\ w.nblocks = vac.nblocks
                 /\ vac.pageNo + 1 < PageCount(vac.meta.count) /\ page[vac.blk].next # Nil
      /\ l = "vacAdj" => w.blk = vac.meta.adjStart /\ w.blk # Nil
  BY <1>5 DEF CodeVac
<1>D. PICK D : D = vac.dead OBVIOUS
<1>8. /\ meta \in MetaType /\ bounds \in Counters /\ heap \in [Tids -> HeapType] /\ page \in Seq(PageType)
      /\ pc = [p \in Backends \cup {Vacuum} |-> pc[p]]
  BY <1>2 DEF Typed
<1>9. /\ pc'[Vacuum] = l /\ (\A a \in Backends : pc'[a] = pc[a])
      /\ pc' = [p \in Backends \cup {Vacuum} |-> pc'[p]]
  BY <1>6, <1>8, Basics
<1>10. /\ Lists /\ HeapOk /\ VacOk(cs, ads) /\ Chained(page, cs, ads) /\ Placed(cs, ads)
       /\ \A a \in Backends : ScanOk(a)
  BY <1>1 DEF Good
<1>11. /\ vac.meta.count # 0 /\ vac.meta.count <= meta.count
       /\ vac.meta.codeStart = Start(cs) /\ vac.meta.adjStart = Start(ads)
       /\ \A t \in D : heap[t].state = "dead"
       /\ \A p \in CodeSpots : LET c == At(page, p) IN
            /\ c.node >= vac.meta.count => c.dead \/ c.tid \notin D
            /\ c.node < vac.meta.count => p[1] <= vac.nblocks
  BY <1>3, <1>10, <1>D DEF VacOk
<1>12. vac.meta.count \in Nat /\ meta.count \in Nat /\ vac.pageNo \in Nat /\ meta.count # 0
  <2>1. vac.meta \in MetaType /\ vac.pageNo \in Nat BY <1>4 DEF VacOp
  <2>2. vac.meta.count \in Nat /\ meta.count \in Nat BY <1>8, <2>1 DEF MetaType
  <2> QED BY <1>11, <2>1, <2>2
<1>13. VacTyped' BY <1>6, <1>9 DEF VacTyped
<1>14. Marking /\ Marking' BY <1>3, <1>6, <1>9 DEF Marking
<1>15. ~Stale' => ~Stale /\ FlagsKept BY <1>6, <1>14 DEF Stale
<1>16. Vacs + 0 <= Vacs'
  <2>1. Vacs' = Vacs BY <1>3, <1>6, <1>9 DEF Vacs
  <2>2. Vacs \in Nat BY <1>2, VacsIs
  <2> QED BY <2>1, <2>2
<1>17. bounds'.vacuums <= MaxVacuums /\ bounds'.vacuums # 0 BY <1>2, <1>3 DEF Turns
<1>18. \A a \in Backends : ~Scanning(a) BY <1>2, <1>14 DEF Turns
<1>19. SameMeta /\ meta' \in MetaType /\ meta'.gen = (meta.gen + 0) % Wide
  <2>1. SameMeta BY <1>3, <1>8 DEF SameMeta, MetaType
  <2>2. meta.gen \in 0..(Wide - 1) BY <1>8 DEF MetaType
  <2> QED BY <1>3, <1>8, <2>1, <2>2, SameGen
<1>20. \A p \in CodeSpots : ~At(page, p).dead /\ At(page', p).dead => At(page, p).tid \in D /\ At(page, p).node < meta.count
  <2> SUFFICES ASSUME NEW p \in CodeSpots, ~At(page, p).dead, At(page', p).dead
               PROVE  At(page, p).tid \in D /\ At(page, p).node < meta.count
    OBVIOUS
  <2>1. Marks(p) BY <1>4
  <2>2. At(page, p).node < vac.meta.count /\ At(page, p).tid \in D BY <1>D, <2>1 DEF Marks
  <2>3. At(page, p).node \in Nat BY <1>2, CodeTids
  <2> QED BY <1>11, <1>12, <2>2, <2>3
<1>21. \A a \in Backends : op[a].kind = "scan" =>
       \A y \in op[a].snap : /\ heap'[y[1]] = heap[y[1]] /\ (pc'[Vacuum] # "idle" => y[1] \notin vac'.dead)
                             /\ \A p \in CodeSpots : ~At(page, p).dead /\ At(page', p).dead => y[1] # At(page, p).tid
  <2> SUFFICES ASSUME NEW a \in Backends, op[a].kind = "scan", NEW y \in op[a].snap
               PROVE  /\ heap'[y[1]] = heap[y[1]] /\ (pc'[Vacuum] # "idle" => y[1] \notin vac'.dead)
                      /\ \A p \in CodeSpots : ~At(page, p).dead /\ At(page', p).dead => y[1] # At(page, p).tid
    OBVIOUS
  <2>1. y[1] \notin D BY <1>3, <1>10, <1>D DEF ScanOk, SnapOk
  <2>2. vac'.dead = D BY <1>6, <1>D
  <2> QED BY <1>3, <1>20, <2>1, <2>2
<1>22. \A p \in CodeSpots : At(page, p).node = meta.count => At(page', p).dead = At(page, p).dead
  <2> SUFFICES ASSUME NEW p \in CodeSpots, At(page, p).node = meta.count PROVE At(page', p).dead = At(page, p).dead
    OBVIOUS
  <2>1. At(page, p).dead \in BOOLEAN BY <1>2, CodeTids DEF CodeType
  <2>2. At(page', p).dead \in BOOLEAN
    <3>1. page' \in Seq(PageType) /\ Spots(page', "code") = CodeSpots BY <1>4, EditsSpots DEF Edits, CodeSpots
    <3>2. "code" \in Kinds BY DEF Kinds
    <3>P. PICK P : P = page' OBVIOUS
    <3>3. P \in Seq(PageType) /\ p \in Spots(P, "code") BY <3>1, <3>P
    <3>4. At(P, p) \in TupleType("code") BY ONLY <3>2, <3>3, SpotTyped
    <3> QED BY <3>4, <3>P DEF TupleType, CodeType
  <2>3. ~(~At(page, p).dead /\ At(page', p).dead) BY <1>12, <1>20
  <2>4. At(page, p).dead => At(page', p).dead BY <1>4
  <2> QED BY <2>1, <2>2, <2>3, <2>4
<1>23. VacMoves(0)
  BY <1>3, <1>4, <1>8, <1>9, <1>13, <1>14, <1>15, <1>16, <1>17, <1>18, <1>19, <1>21, <1>22 DEF VacMoves
<1>24. CodeSpots' = CodeSpots /\ AdjSpots' = AdjSpots
  <2>1. \A k : Spots(page', k) = Spots(page, k) BY <1>4, EditsSpots
  <2> QED BY <2>1 DEF CodeSpots, AdjSpots
<1>25. \A p \in CodeSpots : SameCode(At(page, p), At(page', p)) BY <1>4 DEF Edits, CodeSpots
<1>26. HeapOk'
  <2>1. \A t \in Tids : heap[t].row <= rows BY <1>10 DEF HeapOk
  <2>2. \A p \in CodeSpots : LET c == At(page', p) IN
          ~c.dead => heap[c.tid].row = c.row /\ heap[c.tid].state # "free"
    <3> SUFFICES ASSUME NEW p \in CodeSpots, ~At(page', p).dead
                 PROVE  heap[At(page', p).tid].row = At(page', p).row /\ heap[At(page', p).tid].state # "free"
      OBVIOUS
    <3>1. ~At(page, p).dead /\ At(page', p).tid = At(page, p).tid /\ At(page', p).row = At(page, p).row
      BY <1>25 DEF SameCode
    <3> QED BY <1>10, <3>1 DEF HeapOk
  <2>3. ASSUME NEW t \in Tids, heap[t].state = "live", heap[t].indexed
        PROVE  \E p \in CodeSpots : LET c == At(page', p) IN
                 c.tid = t /\ c.row = heap[t].row /\ ~c.dead /\ c.node < meta.count
    <3>1. HasNode(t, heap[t].row, meta.count) BY <1>10, <2>3 DEF HeapOk
    <3>2. PICK p \in CodeSpots : /\ At(page, p).tid = t /\ At(page, p).row = heap[t].row
                                 /\ ~At(page, p).dead /\ At(page, p).node < meta.count
      BY <3>1 DEF HasNode
    <3>3. t \notin D BY <1>11, <2>3
    <3>4. ~At(page', p).dead BY <1>20, <3>2, <3>3
    <3> QED BY <1>25, <3>2, <3>4 DEF SameCode
  <2>4. \A t \in Tids : heap[t].state = "live" /\ heap[t].indexed => HasNode(t, heap[t].row, meta.count)'
    BY <1>3, <1>24, <2>3 DEF HasNode
  <2> QED BY <1>3, <1>24, <2>1, <2>2, <2>4 DEF HeapOk
<1>27. Lists'
  <2>1. \A p \in AdjSpots : LET t == At(page', p) IN ListOk(t.node, t.level, t.nbrs) BY <1>4, <1>10 DEF Lists
  <2> QED BY <1>3, <1>24, <2>1 DEF Lists, ListOk
<1>28. VacOk(cs, ads)'
  <2>1. ASSUME NEW p \in CodeSpots
        PROVE  /\ At(page', p).node >= w.meta.count => At(page', p).dead \/ At(page', p).tid \notin w.dead
               /\ l = "vacCode" /\ At(page', p).node < w.meta.count => p[1] <= w.nblocks
               /\ At(page', p).node < w.pageNo * CodeCap => At(page', p).dead \/ At(page', p).tid \notin w.dead
               /\ l # "vacCode" => At(page', p).dead \/ At(page', p).tid \notin w.dead
    <3>1. At(page', p).node = At(page, p).node /\ At(page', p).tid = At(page, p).tid
          /\ (At(page, p).dead => At(page', p).dead)
      BY <1>25 DEF SameCode
    <3>2. w.dead = D /\ w.meta.count = vac.meta.count BY <1>6, <1>D
    <3>3. l = "vacCode" => w.nblocks = vac.nblocks BY <1>6, <1>7
    <3>4. At(page, p).tid \in D => /\ At(page, p).node < w.pageNo * CodeCap => At(page', p).dead
                                   /\ l # "vacCode" => At(page', p).dead
      <4>1. SUFFICES ASSUME At(page, p).tid \in vac.dead
                     PROVE  /\ At(page, p).node < w.pageNo * CodeCap => At(page', p).dead
                            /\ l # "vacCode" => At(page', p).dead
        BY <1>D
      <4>2. /\ At(page, p).node < w.pageNo * CodeCap => At(page', p).dead
            /\ ~more => At(page', p).dead BY <1>1, <1>2, <1>5, <4>1, CodeVacOk
      <4> QED BY <1>7, <4>2
    <3> QED BY <1>11, <3>1, <3>2, <3>3, <3>4
  <2>2. l = "vacCode" => /\ w.pageNo < Len(cs) /\ w.blk = cs[w.pageNo + 1] /\ w.pageNo * CodeCap < w.meta.count
    <3>1. SUFFICES ASSUME l = "vacCode"
                   PROVE  w.pageNo < Len(cs) /\ w.blk = cs[w.pageNo + 1] /\ w.pageNo * CodeCap < w.meta.count
      OBVIOUS
    <3>a. PICK a : a = vac.pageNo + 1 OBVIOUS
    <3>2. a \in Nat /\ a \in 1..Len(cs) /\ vac.blk = cs[a] /\ Len(cs) \in Nat
      BY <1>4, <1>10, <1>12, <3>a DEF Chained, IsChain
    <3>3. a < PageCount(vac.meta.count) /\ w.blk = page[vac.blk].next /\ page[vac.blk].next # Nil
      BY <1>6, <1>7, <3>1, <3>a
    <3>4. a * CodeCap < vac.meta.count BY <1>12, <3>2, <3>3, PagesFor
    <3>5. page[cs[a]].next = IF a = Len(cs) THEN Nil ELSE cs[a + 1] BY <1>10, <3>2 DEF Chained, IsChain
    <3>6. a # Len(cs) /\ w.blk = cs[a + 1] BY <3>2, <3>3, <3>5
    <3>7. w.pageNo = a /\ w.meta = vac.meta BY <1>6, <3>a
    <3>8. a < Len(cs) BY <3>2, <3>6
    <3> QED BY <3>4, <3>6, <3>7, <3>8
  <2>3. l = "vacAdj" => w.blk \in 1..Len(page') /\ page'[w.blk].kind = "adj"
    <3>1. SUFFICES ASSUME l = "vacAdj" PROVE w.blk \in 1..Len(page') /\ page'[w.blk].kind = "adj" OBVIOUS
    <3>2. w.blk = Start(ads) BY <1>7, <1>11, <3>1
    <3>3. Start(ads) \in Blocks /\ page[Start(ads)].kind = "adj" BY <1>1, <1>2, <1>12, StartsThere
    <3> QED BY <1>4, <3>2, <3>3 DEF Edits, SameShape, Blocks
  <2>4. w.meta.count # 0 /\ w.meta.count <= meta'.count /\ w.meta.codeStart = Start(cs) /\ w.meta.adjStart = Start(ads)
        /\ \A t \in w.dead : heap'[t].state = "dead"
    BY <1>3, <1>6, <1>11, <1>D
  <2>5. Blocks' = 1..Len(page') BY DEF Blocks
  <2> QED BY <1>6, <1>9, <1>24, <2>1, <2>2, <2>3, <2>4, <2>5 DEF VacOk
<1> QED BY SMTT(30), <1>1, <1>2, <1>23, <1>26, <1>27, <1>28, VacStep

\* A repaired list is part of the list
LEMMA RepairedIs ==
  ASSUME vac \in VacOp, NEW s \in AdjType
  PROVE  /\ Repaired(s) \in AdjType /\ SameAdj(s, Repaired(s)) /\ Repaired(s).nbrs \subseteq s.nbrs
<1>1. s = [node |-> s.node, level |-> s.level, nbrs |-> s.nbrs] /\ s.node \in Nat /\ s.level \in Nat /\ s.nbrs \subseteq Nat
  BY DEF AdjType
<1>2. CASE s.node >= vac.meta.count
  <2>1. Repaired(s) = s BY <1>2 DEF Repaired
  <2> QED BY <2>1 DEF SameAdj
<1>3. CASE ~(s.node >= vac.meta.count)
  <2> DEFINE alive == {n \in s.nbrs : n < vac.meta.count /\ n \notin vac.nodes}
             S == IF s.node \in vac.nodes THEN {} ELSE alive
  <2>1. Repaired(s) = [s EXCEPT !.nbrs = S] BY <1>3 DEF Repaired
  <2>2. S \subseteq s.nbrs OBVIOUS
  <2> HIDE DEF S
  <2>3. Repaired(s) = [node |-> s.node, level |-> s.level, nbrs |-> S] BY <1>1, <2>1
  <2>4. S \in SUBSET Nat BY <1>1, <2>2
  <2> QED BY <1>1, <2>2, <2>3, <2>4 DEF AdjType, SameAdj
<1> QED BY <1>2, <1>3
LEMMA FewerOk ==
  ASSUME NEW n, NEW l, NEW S, ListOk(n, l, S), NEW T, T \subseteq S PROVE ListOk(n, l, T)
<1>1. S \subseteq NodeIds /\ Cardinality(S) <= LevelM(l) /\ \A x \in S : x # n /\ x <= meta.count /\ NodeLevel[x] >= l
  BY DEF ListOk
<1>2. IsFiniteSet(NodeIds)
  <2>1. MaxRows - 1 \in Int /\ 0 \in Int /\ NodeIds = 0..(MaxRows - 1) BY Basics
  <2> QED BY <2>1, FS_Interval
<1>3. IsFiniteSet(S) BY <1>1, <1>2, FS_Subset
<1>4. Cardinality(T) \in Nat /\ Cardinality(S) \in Nat /\ Cardinality(T) <= Cardinality(S)
  BY <1>3, FS_Subset, FS_CardinalityType
<1>5. LevelM(l) \in Nat BY LevelMIs
<1> QED BY <1>1, <1>4, <1>5 DEF ListOk

AdjVac(w, l) ==
  /\ vac' = w /\ w \in VacOp /\ w.dead = vac.dead /\ w.meta = vac.meta
  /\ pc' = [pc EXCEPT ![Vacuum] = l] /\ l \in {"vacAdj", "vacEnd"}
  /\ w.blk = page[vac.blk].next /\ (l = "vacAdj" => w.blk # Nil)
  /\ ~w.changed => ~vac.changed
LEMMA RepairAdjIs ==
  ASSUME Typed, Turns, NEW cs, NEW ads, Good(cs, ads), RepairAdj
  PROVE  /\ Edits(page, page') /\ vac.blk \in Blocks /\ vac \in VacOp /\ page[vac.blk].kind = "adj"
         /\ \A p \in CodeSpots : At(page', p) = At(page, p)
         /\ \A p \in AdjSpots : SameAdj(At(page, p), At(page', p)) /\ At(page', p).nbrs \subseteq At(page, p).nbrs
         /\ \E w, l : AdjVac(w, l)
<1> DEFINE T0   == page[vac.blk].tup
           new  == [i \in 1..Len(T0) |-> Repaired(T0[i])]
           N0   == page[vac.blk].next
           more == N0 # Nil /\ N0 <= vac.nblocks
           ch   == vac.changed \/ new # T0
           l    == IF more THEN "vacAdj" ELSE "vacEnd"
<1>p. page' = [page EXCEPT ![vac.blk].tup = new] BY Zenon DEF RepairAdj
<1>q. vac' = [vac EXCEPT !.changed = ch, !.blk = N0] BY Zenon DEF RepairAdj
<1>r. pc' = [pc EXCEPT ![Vacuum] = l] BY Zenon DEF RepairAdj, Goto
<1>v. PICK v, B, g : v = vac /\ B = vac.blk /\ g = page[B] OBVIOUS
<1>t. PICK tup, n : tup = g.tup /\ n = Len(tup) OBVIOUS
<1>n. new = [i \in 1..n |-> Repaired(tup[i])] BY Zenon, <1>v, <1>t
<1>f. ch \in BOOLEAN /\ (~ch => ~v.changed) BY <1>v
<1>l. l \in {"vacAdj", "vacEnd"} /\ (l = "vacAdj" => g.next # Nil) BY <1>v
<1>m. N0 = g.next BY <1>v
<1> HIDE DEF T0, N0, new, more, ch, l
<1>0. pc[Vacuum] = "vacAdj" BY DEF RepairAdj
<1>1. v \in VacOp BY <1>0, <1>v DEF Typed, VacTyped
<1>2. B \in 1..Len(page) /\ g.kind = "adj" BY <1>0, <1>v DEF Good, VacOk, Blocks
<1>3. page \in Seq(PageType) BY DEF Typed
<1>4. g \in PageType BY <1>2, <1>3, <1>v, ElementOfSeq
<1>5. tup \in Seq(AdjType) /\ g.next \in Nat /\ n \in Nat BY <1>2, <1>4, <1>t, PageIs DEF TupleType
<1>6. \A i \in 1..n : /\ tup[i] \in AdjType /\ Repaired(tup[i]) \in AdjType
                      /\ SameAdj(tup[i], Repaired(tup[i])) /\ Repaired(tup[i]).nbrs \subseteq tup[i].nbrs
  <2> TAKE i \in 1..n
  <2>s. PICK s : s = tup[i] OBVIOUS
  <2>1. s \in AdjType BY <1>5, <1>t, <2>s, ElementOfSeq
  <2>2. vac \in VacOp BY <1>1, <1>v
  <2>3. /\ Repaired(s) \in AdjType /\ SameAdj(s, Repaired(s)) /\ Repaired(s).nbrs \subseteq s.nbrs
    BY <2>1, <2>2, RepairedIs
  <2> QED BY <2>1, <2>3, <2>s
<1>7. new \in Seq(AdjType) /\ Len(new) = n /\ \A i \in 1..n : new[i] = Repaired(tup[i])
  <2>1. \A i \in 1..n : Repaired(tup[i]) \in AdjType BY <1>6
  <2> QED BY ONLY <1>5, <1>n, <2>1
<1>8. EditOf(page, page', B, "adj", tup, new)
  <2>5. PICK k, Q, P : k = "adj" /\ Q = page' /\ P = page OBVIOUS
  <2>6. P \in Seq(PageType) /\ B \in 1..Len(P) /\ k \in Kinds /\ P[B].kind = k BY <1>2, <1>3, <1>v, <2>5 DEF Kinds
  <2>7. new \in Seq(TupleType(k)) /\ tup = P[B].tup /\ Len(new) = Len(tup) BY <1>7, <1>t, <1>v, <2>5 DEF TupleType
  <2>8. SameTuples(k, tup, new) BY <1>6, <1>7, <1>t, <2>5 DEF SameTuples
  <2>9. Q = Replaced(P, B, new) BY <1>p, <1>v, <2>5 DEF Replaced
  <2>10. EditOf(P, Q, B, k, tup, new) BY ONLY <2>6, <2>7, <2>8, <2>9, EditedPage
  <2> QED BY <2>5, <2>10
<1>9. /\ Edits(page, page')
      /\ \A kind : \A q \in Spots(page, kind) : /\ q[1] # B => At(page', q) = At(page, q)
                                                /\ q[1] = B => /\ kind = "adj" /\ At(page', q) = new[q[2]]
                                                               /\ At(page, q) = tup[q[2]] /\ q[2] \in 1..Len(tup)
  BY <1>8 DEF EditOf
<1>10. \A p \in CodeSpots : At(page', p) = At(page, p)
  <2> TAKE p \in CodeSpots
  <2>1. p \in Spots(page, "code") /\ "adj" # "code" BY DEF CodeSpots
  <2> QED BY <1>9, <2>1
<1>11. \A p \in AdjSpots : SameAdj(At(page, p), At(page', p)) /\ At(page', p).nbrs \subseteq At(page, p).nbrs
  <2> TAKE p \in AdjSpots
  <2>1. p \in Spots(page, "adj") BY DEF AdjSpots
  <2>2. CASE p[1] = B
    <3>1. At(page', p) = new[p[2]] /\ At(page, p) = tup[p[2]] /\ p[2] \in 1..n BY <1>9, <1>t, <2>1, <2>2
    <3> QED BY <1>6, <1>7, <3>1
  <2>3. CASE p[1] # B
    <3>1. At(page', p) = At(page, p) BY <1>9, <2>1, <2>3
    <3> QED BY <3>1 DEF SameAdj
  <2> QED BY <2>2, <2>3
<1>w. PICK w : w = [v EXCEPT !.changed = ch, !.blk = g.next] OBVIOUS
<1>12. vac' = w BY <1>q, <1>m, <1>v, <1>w
<1>13. w \in VacOp /\ w.dead = v.dead /\ w.meta = v.meta /\ w.blk = g.next /\ w.changed = ch
  BY <1>1, <1>5, <1>f, <1>w DEF VacOp
<1>14. AdjVac(w, l) BY <1>12, <1>13, <1>f, <1>l, <1>r, <1>v DEF AdjVac
<1> QED BY <1>1, <1>2, <1>9, <1>10, <1>11, <1>14, <1>v DEF Blocks

LEMMA RepairAdjKeeps ==
  ASSUME Inv, RepairAdj
  PROVE  Inv'
<1>1. PICK cs, ads : Good(cs, ads) BY DEF Inv
<1>2. Typed /\ Turns BY DEF Inv
<1>3. /\ pc[Vacuum] = "vacAdj" /\ meta' = meta /\ heap' = heap /\ rows' = rows /\ cache' = cache
      /\ op' = op /\ bounds' = bounds
  BY DEF RepairAdj
<1>4. /\ Edits(page, page') /\ vac.blk \in Blocks /\ vac \in VacOp /\ page[vac.blk].kind = "adj"
      /\ \A p \in CodeSpots : At(page', p) = At(page, p)
      /\ \A p \in AdjSpots : SameAdj(At(page, p), At(page', p)) /\ At(page', p).nbrs \subseteq At(page, p).nbrs
  BY <1>1, <1>2, RepairAdjIs
<1>5. PICK w, l : AdjVac(w, l) BY <1>1, <1>2, RepairAdjIs
<1>6. /\ vac' = w /\ w \in VacOp /\ w.dead = vac.dead /\ w.meta = vac.meta
      /\ pc' = [pc EXCEPT ![Vacuum] = l] /\ l \in {"vacAdj", "vacEnd"}
      /\ w.blk = page[vac.blk].next /\ (l = "vacAdj" => w.blk # Nil)
      /\ ~w.changed => ~vac.changed
  BY <1>5 DEF AdjVac
<1>D. PICK D : D = vac.dead OBVIOUS
<1>8. /\ meta \in MetaType /\ bounds \in Counters /\ heap \in [Tids -> HeapType] /\ page \in Seq(PageType)
      /\ pc = [p \in Backends \cup {Vacuum} |-> pc[p]]
  BY <1>2 DEF Typed
<1>9. /\ pc'[Vacuum] = l /\ (\A a \in Backends : pc'[a] = pc[a])
      /\ pc' = [p \in Backends \cup {Vacuum} |-> pc'[p]]
  BY <1>6, <1>8, Basics
<1>10. /\ Lists /\ HeapOk /\ VacOk(cs, ads) /\ Chained(page, cs, ads) /\ Placed(cs, ads)
       /\ \A a \in Backends : ScanOk(a)
  BY <1>1 DEF Good
<1>11. /\ vac.meta.count # 0 /\ vac.meta.count <= meta.count
       /\ vac.meta.codeStart = Start(cs) /\ vac.meta.adjStart = Start(ads)
       /\ \A t \in D : heap[t].state = "dead"
       /\ \A p \in CodeSpots : LET c == At(page, p) IN c.dead \/ c.tid \notin D
  BY <1>3, <1>10, <1>D DEF VacOk
<1>13. VacTyped' BY <1>6, <1>9 DEF VacTyped
<1>14. Marking /\ Marking' BY <1>3, <1>6, <1>9 DEF Marking
<1>15. FlagsKept /\ (~Stale' => ~Stale) BY <1>4, <1>6, <1>14 DEF Stale, FlagsKept
<1>16. Vacs + 0 <= Vacs'
  <2>1. Vacs' = Vacs BY <1>3, <1>6, <1>9 DEF Vacs
  <2>2. Vacs \in Nat BY <1>2, VacsIs
  <2> QED BY <2>1, <2>2
<1>17. bounds'.vacuums <= MaxVacuums /\ bounds'.vacuums # 0 BY <1>2, <1>3 DEF Turns
<1>18. \A a \in Backends : ~Scanning(a) BY <1>2, <1>14 DEF Turns
<1>19. SameMeta /\ meta' \in MetaType /\ meta'.gen = (meta.gen + 0) % Wide
  <2>1. SameMeta BY <1>3, <1>8 DEF SameMeta, MetaType
  <2>2. meta.gen \in 0..(Wide - 1) BY <1>8 DEF MetaType
  <2> QED BY <1>3, <1>8, <2>1, <2>2, SameGen
<1>21. \A a \in Backends : op[a].kind = "scan" =>
       \A y \in op[a].snap : /\ heap'[y[1]] = heap[y[1]] /\ (pc'[Vacuum] # "idle" => y[1] \notin vac'.dead)
                             /\ \A p \in CodeSpots : ~At(page, p).dead /\ At(page', p).dead => y[1] # At(page, p).tid
  <2> SUFFICES ASSUME NEW a \in Backends, op[a].kind = "scan", NEW y \in op[a].snap
               PROVE  heap'[y[1]] = heap[y[1]] /\ y[1] \notin vac'.dead
    BY <1>4
  <2>1. y[1] \notin D BY <1>3, <1>10, <1>D DEF ScanOk, SnapOk
  <2>2. vac'.dead = D BY <1>6, <1>D
  <2> QED BY <1>3, <2>1, <2>2
<1>22. \A p \in CodeSpots : At(page, p).node = meta.count => At(page', p).dead = At(page, p).dead BY <1>4
<1>23. VacMoves(0)
  BY <1>3, <1>4, <1>8, <1>9, <1>13, <1>14, <1>15, <1>16, <1>17, <1>18, <1>19, <1>21, <1>22 DEF VacMoves
<1>24. CodeSpots' = CodeSpots /\ AdjSpots' = AdjSpots
  <2>1. \A k : Spots(page', k) = Spots(page, k) BY <1>4, EditsSpots
  <2> QED BY <2>1 DEF CodeSpots, AdjSpots
<1>26. HeapOk' BY <1>3, <1>4, <1>10, <1>24 DEF HeapOk, HasNode
<1>27. Lists'
  <2>1. \A p \in AdjSpots : LET t == At(page', p) IN ListOk(t.node, t.level, t.nbrs)
    <3> TAKE p \in AdjSpots
    <3>1. ListOk(At(page, p).node, At(page, p).level, At(page, p).nbrs) BY <1>10 DEF Lists
    <3>2. At(page', p).node = At(page, p).node /\ At(page', p).level = At(page, p).level BY <1>4 DEF SameAdj
    <3>3. ListOk(At(page, p).node, At(page, p).level, At(page', p).nbrs) BY <1>4, <3>1, FewerOk
    <3> QED BY <3>2, <3>3
  <2> QED BY <1>3, <1>24, <2>1 DEF Lists, ListOk
<1>28. VacOk(cs, ads)'
  <2>1. \A p \in CodeSpots : At(page', p).dead \/ At(page', p).tid \notin w.dead BY <1>4, <1>6, <1>11, <1>D
  <2>3. l = "vacAdj" => w.blk \in 1..Len(page') /\ page'[w.blk].kind = "adj"
    <3>1. SUFFICES ASSUME l = "vacAdj" PROVE w.blk \in 1..Len(page') /\ page'[w.blk].kind = "adj" OBVIOUS
    <3>2. IsChain(page, ads, "adj") BY <1>10 DEF Chained
    <3>3. PICK j \in 1..Len(ads) : ads[j] = vac.blk BY <1>4, <3>2 DEF IsChain, Blocks
    <3>4. w.blk = IF j = Len(ads) THEN Nil ELSE ads[j + 1] BY <1>6, <3>2, <3>3 DEF IsChain
    <3>5. ads \in Seq(1..Len(page)) /\ Len(ads) \in Nat BY <3>2 DEF IsChain
    <3>6. w.blk = ads[j + 1] /\ j + 1 \in 1..Len(ads) BY <1>6, <3>1, <3>4, <3>5
    <3>7. w.blk \in 1..Len(page) BY <3>5, <3>6
    <3>8. page[w.blk].kind = "adj" BY <3>2, <3>6, <3>7 DEF IsChain
    <3> QED BY <1>4, <3>7, <3>8 DEF Edits, SameShape
  <2>4. w.meta.count # 0 /\ w.meta.count <= meta'.count /\ w.meta.codeStart = Start(cs) /\ w.meta.adjStart = Start(ads)
        /\ \A t \in w.dead : heap'[t].state = "dead"
    BY <1>3, <1>6, <1>11, <1>D
  <2>5. Blocks' = 1..Len(page') BY DEF Blocks
  <2> QED BY <1>6, <1>9, <1>24, <2>1, <2>3, <2>4, <2>5 DEF VacOk
<1> QED BY <1>1, <1>2, <1>23, <1>26, <1>27, <1>28, VacStep

-----------------------------------------------------------------------------
(* The index that CREATE INDEX leaves                                      *)

\* A recursive function whose values stay in given sets
StaysIn(n, S, a, f, G) ==
  /\ G \in [0..n -> SUBSET S] /\ a \in G[0]
  /\ \A i \in 1..n : \A c \in G[i - 1] : f[i][c] \in G[i]
LEMMA IterationIn ==
  ASSUME NEW n \in Nat, NEW S, NEW a \in S, NEW f \in Steps(n, S), NEW G, StaysIn(n, S, a, f, G)
  PROVE  \E g : Iterates(g, n, S, a, f) /\ \A i \in 0..n : g[i] \in G[i]
<1>1. PICK g : Iterates(g, n, S, a, f) BY Iteration
<1>2. g[0] = a /\ \A i \in 1..n : g[i] = f[i][g[i - 1]] BY <1>1 DEF Iterates
<1> DEFINE T == {i \in 0..n : g[i] \in G[i]}
<1>3. 0 \in T BY <1>2 DEF StaysIn
<1>4. ASSUME NEW i \in 0..(n - 1), i \in T PROVE i + 1 \in T
  <2>j. PICK j : j = i + 1 OBVIOUS
  <2>1. j \in 1..n /\ j \in 0..n /\ j - 1 = i BY <2>j
  <2>2. g[j - 1] \in G[j - 1] BY <1>4, <2>1
  <2>3. f[j][g[j - 1]] \in G[j] BY <2>1, <2>2 DEF StaysIn
  <2>4. g[j] \in G[j] BY <1>2, <2>1, <2>3
  <2> QED BY <2>1, <2>4, <2>j
<1> HIDE DEF T
<1>5. 0..n \subseteq T BY ONLY n \in Nat, <1>3, <1>4, UpTo
<1>6. \A i \in 0..n : g[i] \in G[i] BY <1>5 DEF T
<1> QED BY <1>1, <1>6

\* The tuples of m nodes, and the lists in H: those of n nodes that all are
\* neighbors
Written == [pages : Seq(PageType), start : Nat, blk : Nat, off : Nat]
BuiltCode(c) == CodeTuple(c.node, BuiltTids[c.node + 1], c.node + 1)
BuiltNbrs(n, k, l) == {i \in 0..(n - 1) : i # k /\ NodeLevel[i] >= l}
Built(P, cs, ads, n, m, H) ==
  /\ P \in Seq(PageType) /\ Chained(P, cs, ads) /\ Total(P, cs) = m
  /\ \A p \in Spots(P, "code") : At(P, p).node < m /\ At(P, p) = BuiltCode(At(P, p))
  /\ \A p \in Spots(P, "adj") : /\ <<At(P, p).node, At(P, p).level>> \in H
                                /\ At(P, p).nbrs = BuiltNbrs(n, At(P, p).node, At(P, p).level)
  /\ \A p, q \in Spots(P, "adj") :
       At(P, p).node = At(P, q).node /\ At(P, p).level = At(P, q).level => p = q
  /\ \A h \in H : \E p \in Spots(P, "adj") : At(P, p).node = h[1] /\ At(P, p).level = h[2]

LEMMA StartIn ==
  ASSUME NEW P, Len(P) \in Nat, NEW s, NEW kind, IsChain(P, s, kind) PROVE Start(s) \in Nat
<1>1. s \in Seq(1..Len(P)) BY DEF IsChain
<1>2. CASE s = <<>> BY <1>2 DEF Start, Nil
<1>3. CASE s # <<>>
  <2>1. 1 \in 1..Len(s) BY <1>1, <1>3
  <2>2. s[1] \in 1..Len(P) BY <1>1, <2>1
  <2> QED BY <1>3, <2>2 DEF Start
<1> QED BY <1>2, <1>3

LEMMA AppendedRecord ==
  ASSUME NEW P, NEW start, NEW kind, NEW tup, NEW cap, NEW a, a = AppendTuple(P, start, kind, tup, cap)
  PROVE  a = [pages |-> a.pages, start |-> a.start, blk |-> a.blk, off |-> a.off]
<1>1. PICK w, x, y, z : a = [pages |-> w, start |-> x, blk |-> y, off |-> z] BY DEF AppendTuple
<1> QED BY <1>1

LEMMA CodeBuilt ==
  ASSUME NEW P, NEW cs, NEW ads, NEW n, NEW m \in Nat, m < NBuilt, NEW H, Built(P, cs, ads, n, m, H),
         NEW a, a = AppendTuple(P, Start(cs), "code", CodeTuple(m, BuiltTids[m + 1], m + 1), CodeCap)
  PROVE  a \in Written /\ \E cs2 : Built(a.pages, cs2, ads, n, m + 1, H) /\ a.start = Start(cs2)
<1>k. PICK kind, tup, s, t : /\ kind = "code" /\ tup = CodeTuple(m, BuiltTids[m + 1], m + 1) /\ s = cs
                             /\ t = BuiltTids[m + 1] OBVIOUS
<1>1. P \in Seq(PageType) /\ Chained(P, cs, ads) /\ Total(P, cs) = m BY DEF Built
<1>2. t \in Tids
  <2>1. BuiltTids \in Seq(Tids) BY ConstantsAssumption
  <2>2. m + 1 \in 1..Len(BuiltTids) BY <2>1 DEF NBuilt
  <2> QED BY <1>k, <2>1, <2>2
<1>3. tup = [node |-> m, tid |-> t, row |-> m + 1, dead |-> FALSE] /\ tup \in CodeType /\ tup.node = m
      /\ tup = BuiltCode(tup)
  <2>1. tup = [node |-> m, tid |-> t, row |-> m + 1, dead |-> FALSE] BY <1>k DEF CodeTuple
  <2>2. m + 1 \in Nat OBVIOUS
  <2>3. tup.node = m BY <2>1
  <2>4. tup \in CodeType BY <1>2, <2>1, <2>2 DEF CodeType
  <2>5. tup = BuiltCode(tup) BY <1>k, <2>3 DEF BuiltCode
  <2> QED BY <2>1, <2>3, <2>4, <2>5
<1>4. /\ kind \in Kinds /\ tup \in TupleType(kind) /\ (kind = "code" => tup.node = Total(P, cs))
      /\ s = (IF kind = "code" THEN cs ELSE ads) /\ a = AppendTuple(P, Start(s), kind, tup, Cap(kind))
  BY <1>1, <1>3, <1>k DEF Kinds, TupleType, Cap
<1>5. \E cs2, ads2 : /\ AppendedAt(P, cs, ads, a.pages, cs2, ads2, kind, tup, <<a.blk, a.off>>)
                     /\ a.start = Start(IF kind = "code" THEN cs2 ELSE ads2)
  BY ONLY <1>1, <1>4, Appended
<1>6. PICK cs2, ads2 : /\ AppendedAt(P, cs, ads, a.pages, cs2, ads2, kind, tup, <<a.blk, a.off>>)
                       /\ a.start = Start(IF kind = "code" THEN cs2 ELSE ads2)
  BY <1>5
<1>Q. PICK Q, q : Q = a.pages /\ q = <<a.blk, a.off>> OBVIOUS
<1>7. /\ Q \in Seq(PageType) /\ Chained(Q, cs2, ads) /\ Grew(P, Q, "code", tup, q) /\ a.start = Start(cs2)
      /\ Total(Q, cs2) = m + 1
  BY <1>1, <1>6, <1>Q, <1>k DEF AppendedAt
<1>8. /\ Spots(Q, "code") = Spots(P, "code") \cup {q} /\ Spots(Q, "adj") = Spots(P, "adj")
      /\ (\A k : \A p \in Spots(P, k) : At(Q, p) = At(P, p)) /\ At(Q, q) = tup /\ q \in Nat \X Nat
  <2>1. "adj" # "code" OBVIOUS
  <2> QED BY <1>7, <2>1 DEF Grew
<1>9. \A p \in Spots(Q, "code") : At(Q, p).node < m + 1 /\ At(Q, p) = BuiltCode(At(Q, p))
  <2> TAKE p \in Spots(Q, "code")
  <2>1. CASE p = q
    <3>1. At(Q, p) = tup BY <1>8, <2>1
    <3>2. tup.node < m + 1 BY <1>3
    <3> QED BY <1>3, <3>1, <3>2
  <2>2. CASE p # q
    <3>1. p \in Spots(P, "code") /\ At(Q, p) = At(P, p) BY <1>8, <2>2
    <3>2. At(P, p).node < m /\ At(P, p) = BuiltCode(At(P, p)) BY <3>1 DEF Built
    <3>3. At(P, p).node \in Nat
      <4>1. "code" \in Kinds BY DEF Kinds
      <4> QED BY <1>1, <3>1, <4>1, SpotTyped
    <3>c. PICK c : c = At(P, p) OBVIOUS
    <3>4. c.node < m + 1 /\ c = BuiltCode(c) BY <3>2, <3>3, <3>c
    <3> QED BY <3>1, <3>4, <3>c
  <2> QED BY <2>1, <2>2
<1>10. \A p \in Spots(P, "adj") : At(Q, p) = At(P, p) BY <1>8
<1>11. Built(Q, cs2, ads, n, m + 1, H)
  <2>1. \A p \in Spots(Q, "adj") : /\ <<At(Q, p).node, At(Q, p).level>> \in H
                                   /\ At(Q, p).nbrs = BuiltNbrs(n, At(Q, p).node, At(Q, p).level)
    BY <1>8, <1>10 DEF Built
  <2>2. \A p, r \in Spots(Q, "adj") :
          At(Q, p).node = At(Q, r).node /\ At(Q, p).level = At(Q, r).level => p = r
    BY <1>8, <1>10 DEF Built
  <2>3. \A h \in H : \E p \in Spots(Q, "adj") : At(Q, p).node = h[1] /\ At(Q, p).level = h[2]
    BY <1>8, <1>10 DEF Built
  <2> HIDE DEF BuiltCode
  <2> QED BY <1>7, <1>9, <2>1, <2>2, <2>3 DEF Built
<1>12. a \in Written
  <2>1. a = [pages |-> a.pages, start |-> a.start, blk |-> a.blk, off |-> a.off] BY AppendedRecord
  <2>2. a.blk \in Nat /\ a.off \in Nat BY <1>8, <1>Q
  <2>3. a.start \in Nat
    <3>1. Len(Q) \in Nat /\ IsChain(Q, cs2, "code") BY <1>7 DEF Chained
    <3> QED BY <1>7, <3>1, StartIn
  <2> QED BY <1>7, <1>Q, <2>1, <2>2, <2>3 DEF Written
<1> QED BY <1>7, <1>11, <1>12, <1>Q
AdjWritten(a, cs, n, H) ==
  a \in Written /\ \E ads : Built(a.pages, cs, ads, n, n, H) /\ a.start = Start(ads)
LEMMA AdjBuilt ==
  ASSUME NEW P, NEW cs, NEW ads, NEW n \in Nat, NEW H, Built(P, cs, ads, n, n, H),
         NEW k \in Nat, NEW l \in Nat, <<k, l>> \notin H, NEW N, N = BuiltNbrs(n, k, l),
         NEW a, a = AppendTuple(P, Start(ads), "adj", AdjTuple(k, l, N), AdjCap)
  PROVE  AdjWritten(a, cs, n, H \cup {<<k, l>>})
<1>m. PICK m : m = n OBVIOUS
<1>k. PICK kind, tup, s : kind = "adj" /\ tup = AdjTuple(k, l, N) /\ s = ads OBVIOUS
<1>1. P \in Seq(PageType) /\ Chained(P, cs, ads) /\ Total(P, cs) = m BY <1>m DEF Built
<1>3. tup = [node |-> k, level |-> l, nbrs |-> N] /\ tup \in AdjType /\ tup.node = k /\ tup.level = l /\ tup.nbrs = N
  <2>1. tup = [node |-> k, level |-> l, nbrs |-> N] BY <1>k DEF AdjTuple
  <2>2. N \subseteq Nat BY DEF BuiltNbrs
  <2> QED BY <2>1, <2>2 DEF AdjType
<1>4. /\ kind \in Kinds /\ tup \in TupleType(kind) /\ (kind = "code" => tup.node = Total(P, cs))
      /\ s = (IF kind = "code" THEN cs ELSE ads) /\ a = AppendTuple(P, Start(s), kind, tup, Cap(kind))
  BY <1>1, <1>3, <1>k DEF Kinds, TupleType, Cap
<1>5. \E cs2, ads2 : /\ AppendedAt(P, cs, ads, a.pages, cs2, ads2, kind, tup, <<a.blk, a.off>>)
                     /\ a.start = Start(IF kind = "code" THEN cs2 ELSE ads2)
  BY ONLY <1>1, <1>4, Appended
<1>6. PICK cs2, ads2 : /\ AppendedAt(P, cs, ads, a.pages, cs2, ads2, kind, tup, <<a.blk, a.off>>)
                       /\ a.start = Start(IF kind = "code" THEN cs2 ELSE ads2)
  BY <1>5
<1>Q. PICK Q, q : Q = a.pages /\ q = <<a.blk, a.off>> OBVIOUS
<1>7. /\ Q \in Seq(PageType) /\ Chained(Q, cs, ads2) /\ Grew(P, Q, "adj", tup, q) /\ a.start = Start(ads2)
      /\ Total(Q, cs) = m
  BY <1>1, <1>6, <1>Q, <1>k DEF AppendedAt
<1>8. /\ Spots(Q, "adj") = Spots(P, "adj") \cup {q} /\ Spots(Q, "code") = Spots(P, "code")
      /\ (\A x : \A p \in Spots(P, x) : At(Q, p) = At(P, p)) /\ At(Q, q) = tup /\ q \in Nat \X Nat
  <2>1. "adj" # "code" OBVIOUS
  <2> QED BY <1>7, <2>1 DEF Grew
<1>9. \A p \in Spots(Q, "adj") : p = q \/ (p \in Spots(P, "adj") /\ At(Q, p) = At(P, p)) BY <1>8
<1>10. At(Q, q).node = k /\ At(Q, q).level = l /\ At(Q, q).nbrs = N BY <1>3, <1>8
<1>11. \A p \in Spots(P, "adj") : <<At(P, p).node, At(P, p).level>> \in H BY DEF Built
<1>12. \A p \in Spots(Q, "adj") : /\ <<At(Q, p).node, At(Q, p).level>> \in H \cup {<<k, l>>}
                                  /\ At(Q, p).nbrs = BuiltNbrs(n, At(Q, p).node, At(Q, p).level)
  <2> TAKE p \in Spots(Q, "adj")
  <2>1. CASE p = q BY <1>10, <2>1
  <2>2. CASE p # q BY <1>9, <1>11, <2>2 DEF Built
  <2> QED BY <2>1, <2>2
<1>13. \A p, r \in Spots(Q, "adj") :
         At(Q, p).node = At(Q, r).node /\ At(Q, p).level = At(Q, r).level => p = r
  <2> SUFFICES ASSUME NEW p \in Spots(Q, "adj"), NEW r \in Spots(Q, "adj"),
                      At(Q, p).node = At(Q, r).node, At(Q, p).level = At(Q, r).level, p # r
               PROVE  FALSE
    OBVIOUS
  <2>1. ASSUME NEW u \in Spots(P, "adj"), At(P, u).node = k, At(P, u).level = l PROVE FALSE BY <1>11, <2>1
  <2>2. p = q => FALSE
    <3>1. SUFFICES ASSUME p = q PROVE FALSE OBVIOUS
    <3>2. r \in Spots(P, "adj") /\ At(Q, r) = At(P, r) BY <1>9, <3>1
    <3> QED BY <1>10, <2>1, <3>1, <3>2
  <2>3. r = q => FALSE
    <3>1. SUFFICES ASSUME r = q PROVE FALSE OBVIOUS
    <3>2. p \in Spots(P, "adj") /\ At(Q, p) = At(P, p) BY <1>9, <3>1
    <3> QED BY <1>10, <2>1, <3>1, <3>2
  <2>4. p \in Spots(P, "adj") /\ At(Q, p) = At(P, p) /\ r \in Spots(P, "adj") /\ At(Q, r) = At(P, r)
    BY <1>9, <2>2, <2>3
  <2>5. \A u, v \in Spots(P, "adj") :
          At(P, u).node = At(P, v).node /\ At(P, u).level = At(P, v).level => u = v BY DEF Built
  <2> QED BY <2>4, <2>5
<1>14. \A h \in H \cup {<<k, l>>} : \E p \in Spots(Q, "adj") : At(Q, p).node = h[1] /\ At(Q, p).level = h[2]
  <2> TAKE h \in H \cup {<<k, l>>}
  <2>1. CASE h \in H
    <3>1. PICK p \in Spots(P, "adj") : At(P, p).node = h[1] /\ At(P, p).level = h[2] BY <2>1 DEF Built
    <3> QED BY <1>8, <3>1
  <2>2. CASE h = <<k, l>> BY <1>8, <1>10, <2>2
  <2> QED BY <2>1, <2>2
<1>15. \A p \in Spots(Q, "code") : At(Q, p).node < m /\ At(Q, p) = BuiltCode(At(Q, p))
  <2> TAKE p \in Spots(Q, "code")
  <2>1. p \in Spots(P, "code") /\ At(Q, p) = At(P, p) BY <1>8
  <2>2. At(P, p).node < m /\ At(P, p) = BuiltCode(At(P, p)) BY <1>m, <2>1 DEF Built
  <2> HIDE DEF BuiltCode
  <2> QED BY <2>1, <2>2
<1>16. Built(Q, cs, ads2, n, m, H \cup {<<k, l>>})
  <2> HIDE DEF BuiltCode
  <2> QED BY <1>7, <1>12, <1>13, <1>14, <1>15 DEF Built
<1>17. a \in Written
  <2>1. a = [pages |-> a.pages, start |-> a.start, blk |-> a.blk, off |-> a.off] BY AppendedRecord
  <2>2. a.blk \in Nat /\ a.off \in Nat BY <1>8, <1>Q
  <2>3. a.start \in Nat
    <3>1. Len(Q) \in Nat /\ IsChain(Q, ads2, "adj") BY <1>7 DEF Chained
    <3> QED BY <1>7, <3>1, StartIn
  <2> QED BY <1>7, <1>Q, <2>1, <2>2, <2>3 DEF Written
<1> QED BY <1>7, <1>16, <1>17, <1>Q, <1>m DEF AdjWritten

\* No pages
LEMMA NothingBuilt ==
  ASSUME NEW n PROVE NoPages(<<>>) \in Written /\ Built(<<>>, <<>>, <<>>, n, 0, {})
<1>1. <<>> \in Seq(PageType) /\ Len(<<>>) = 0 OBVIOUS
<1>2. NoPages(<<>>) \in Written
  <2>e. PICK e : e = <<>> OBVIOUS
  <2>1. NoPages(e) = [pages |-> e, start |-> 0, blk |-> 0, off |-> 0] /\ e \in Seq(PageType) BY <2>e DEF NoPages, Nil
  <2>2. NoPages(e) \in Written BY <2>1 DEF Written
  <2> QED BY <2>2, <2>e
<1>p. PICK P : P = <<>> OBVIOUS
<1>3. P \in Seq(PageType) /\ P \in Seq(1..Len(P)) /\ Len(P) = 0 /\ \A i \in 1..Len(P) : FALSE BY <1>p
<1>4. Chained(P, P, P)
  <2>1. \A kind : IsChain(P, P, kind) BY <1>3 DEF IsChain
  <2>2. Sized(P) BY <1>3 DEF Sized
  <2>3. Numbered(P, P) BY <1>3 DEF Numbered
  <2> QED BY <2>1, <2>2, <2>3 DEF Chained
<1>5. Total(P, P) = 0 BY <1>p DEF Total
<1>6. \A kind : \A p \in Spots(P, kind) : FALSE BY <1>3 DEF Spots
<1>7. Built(P, P, P, n, 0, {})
  <2> HIDE DEF BuiltCode
  <2> QED BY <1>3, <1>4, <1>5, <1>6 DEF Built
<1> QED BY <1>2, <1>7, <1>p

\* Two functions with the same first value and steps
LEMMA SameIterates ==
  ASSUME NEW n \in Nat, NEW g, NEW h, g[0] = h[0], \A i \in 1..n : g[i - 1] = h[i - 1] => g[i] = h[i]
  PROVE  g[n] = h[n]
<1> DEFINE T == {i \in 0..n : g[i] = h[i]}
<1>1. 0 \in T OBVIOUS
<1>2. ASSUME NEW i \in 0..(n - 1), i \in T PROVE i + 1 \in T
  <2>1. i + 1 \in 1..n /\ (i + 1) - 1 = i /\ i + 1 \in 0..n OBVIOUS
  <2>2. g[i] = h[i] BY <1>2
  <2> QED BY <2>1, <2>2
<1> HIDE DEF T
<1>3. 0..n \subseteq T BY ONLY n \in Nat, <1>1, <1>2, UpTo
<1>4. n \in T BY <1>3
<1> QED BY <1>4 DEF T

\* The code pages
CodeWritten(a, n, i) ==
  a \in Written /\ \E cs : Built(a.pages, cs, <<>>, n, i, {}) /\ a.start = Start(cs)
CodeStep(c, i) == AppendTuple(c.pages, c.start, "code", CodeTuple(i - 1, BuiltTids[i], i), CodeCap)
LEMMA WrittenCodeIs ==
  ASSUME NEW n \in 0..NBuilt
  PROVE  CodeWritten(WrittenCode(n), n, n)
<1>n. n \in Nat /\ NBuilt \in Nat /\ n <= NBuilt BY Basics
<1>a. PICK a : a = NoPages(<<>>) OBVIOUS
<1>0. a \in Written /\ CodeWritten(a, n, 0)
  <2>1. a \in Written /\ Built(<<>>, <<>>, <<>>, n, 0, {}) BY <1>a, NothingBuilt
  <2>2. a.pages = <<>> /\ a.start = Start(<<>>) BY <1>a DEF NoPages, Start
  <2> QED BY <2>1, <2>2 DEF CodeWritten
<1> DEFINE G(H) == [i \in 0..n |->
                      IF i = 0 THEN NoPages(<<>>)
                      ELSE AppendTuple(H[i - 1].pages, H[i - 1].start, "code",
                                       CodeTuple(i - 1, BuiltTids[i], i), CodeCap)]
           Y == [i \in 0..n |-> {c \in Written : CodeWritten(c, n, i)}]
           F == [i \in 1..n |-> [c \in Written |->
                   IF CodeStep(c, i) \in Written THEN CodeStep(c, i) ELSE c]]
<1>1. ASSUME NEW i \in 1..n, NEW c, CodeWritten(c, n, i - 1)
      PROVE  CodeStep(c, i) \in Written /\ CodeWritten(CodeStep(c, i), n, i)
  <2>1. PICK cs : Built(c.pages, cs, <<>>, n, i - 1, {}) /\ c.start = Start(cs) BY <1>1 DEF CodeWritten
  <2>m. PICK m, P, x : m = i - 1 /\ P = c.pages /\ x = CodeStep(c, i) OBVIOUS
  <2>2. m \in Nat /\ m < NBuilt /\ m + 1 = i BY <1>n, <2>m
  <2>3. x = AppendTuple(P, Start(cs), "code", CodeTuple(m, BuiltTids[m + 1], m + 1), CodeCap)
    BY <2>1, <2>2, <2>m DEF CodeStep
  <2>4. Built(P, cs, <<>>, n, m, {}) BY <2>1, <2>m
  <2>5. x \in Written /\ \E cs2 : Built(x.pages, cs2, <<>>, n, m + 1, {}) /\ x.start = Start(cs2)
    BY ONLY <2>2, <2>3, <2>4, CodeBuilt
  <2> QED BY <2>2, <2>5, <2>m DEF CodeWritten
<1>2. \E H : /\ H = G(H) /\ CodeWritten(H[n], n, n)
             /\ H[0] = a /\ \A i \in 1..n : H[i] = CodeStep(H[i - 1], i)
  <2>1. F \in Steps(n, Written) BY DEF Steps
  <2>2. StaysIn(n, Written, a, F, Y)
    <3>1. Y \in [0..n -> SUBSET Written] /\ a \in Y[0] BY <1>0, <1>n
    <3>2. ASSUME NEW i \in 1..n, NEW c \in Y[i - 1] PROVE F[i][c] \in Y[i]
      <4>1. i - 1 \in 0..n /\ i \in 0..n BY <1>n
      <4>2. c \in Written /\ CodeWritten(c, n, i - 1) BY <3>2, <4>1
      <4>3. CodeStep(c, i) \in Written /\ CodeWritten(CodeStep(c, i), n, i) BY <1>1, <4>2
      <4>4. F[i][c] = CodeStep(c, i) BY <4>2, <4>3
      <4> QED BY <4>1, <4>3, <4>4
    <3> HIDE DEF Y, F
    <3> QED BY <3>1, <3>2 DEF StaysIn
  <2> HIDE DEF F
  <2>3. PICK g : Iterates(g, n, Written, a, F) /\ \A i \in 0..n : g[i] \in Y[i]
    <3> HIDE DEF Y
    <3> QED BY <1>0, <1>n, <2>1, <2>2, IterationIn
  <2>4. g \in [0..n -> Written] /\ g[0] = a /\ \A i \in 1..n : g[i] = F[i][g[i - 1]] BY <2>3 DEF Iterates
  <2>5. \A i \in 0..n : g[i] \in Written /\ CodeWritten(g[i], n, i) BY <2>3
  <2>6. ASSUME NEW i \in 1..n PROVE g[i] = CodeStep(g[i - 1], i)
    <3>1. i - 1 \in 0..n BY <1>n
    <3>2. g[i - 1] \in Written /\ CodeWritten(g[i - 1], n, i - 1) BY <2>5, <3>1
    <3>3. CodeStep(g[i - 1], i) \in Written BY <1>1, <3>2
    <3> QED BY <2>4, <3>2, <3>3 DEF F
  <2>7. \A i \in 0..n : i = 0 \/ i \in 1..n BY <1>n
  <2>8. g = [i \in 0..n |-> IF i = 0 THEN a ELSE CodeStep(g[i - 1], i)] BY <1>n, <2>4, <2>6, <2>7
  <2>9. g = G(g) BY <1>a, <2>8 DEF CodeStep
  <2>10. n \in 0..n BY <1>n
  <2> QED BY <2>4, <2>5, <2>6, <2>9, <2>10
<1>3. PICK H : H = G(H) /\ WrittenCode(n) = H[n]
  <2>1. \E H : H = G(H) BY <1>2
  <2> HIDE <1>0, <1>n
  <2> QED BY <2>1, Zenon DEF WrittenCode
<1>4. PICK g : CodeWritten(g[n], n, n) /\ g[0] = a /\ \A i \in 1..n : g[i] = CodeStep(g[i - 1], i) BY <1>2
<1>5. H = [i \in 0..n |-> IF i = 0 THEN a ELSE CodeStep(H[i - 1], i)] BY <1>a, <1>3 DEF CodeStep
<1>6. H[0] = a /\ \A i \in 1..n : H[i] = CodeStep(H[i - 1], i)
  <2>1. 0 \in 0..n /\ \A i \in 1..n : i \in 0..n /\ i # 0 BY <1>n
  <2> HIDE DEF G
  <2> QED BY <1>5, <2>1
<1>7. g[0] = H[0] /\ \A i \in 1..n : g[i - 1] = H[i - 1] => g[i] = H[i] BY <1>4, <1>6
<1>8. g[n] = H[n] BY ONLY <1>n, <1>7, SameIterates
<1> QED BY <1>3, <1>4, <1>8

\* The lists of the nodes before k, and those of k below a level
Listed(k, l) == {x \in Nat \X Nat : (x[1] < k /\ x[2] <= NodeLevel[x[1]]) \/ (x[1] = k /\ x[2] < l)}
LEMMA ListedNext ==
  ASSUME NEW k \in Nat, NEW l \in Nat
  PROVE  /\ Listed(k, l) \cup {<<k, l>>} = Listed(k, l + 1) /\ <<k, l>> \notin Listed(k, l)
<1>1. <<k, l>> \notin Listed(k, l) BY DEF Listed
<1>2. \A x \in Nat \X Nat : x \in Listed(k, l) \cup {<<k, l>>} <=> x \in Listed(k, l + 1)
  <2> TAKE x \in Nat \X Nat
  <2>1. PICK u \in Nat, v \in Nat : x = <<u, v>> OBVIOUS
  <2>2. x[1] = u /\ x[2] = v /\ (x = <<k, l>> <=> u = k /\ v = l) BY <2>1
  <2>3. v < l + 1 <=> v < l \/ v = l OBVIOUS
  <2> QED BY <2>2, <2>3 DEF Listed
<1>3. Listed(k, l) \cup {<<k, l>>} \subseteq Nat \X Nat /\ Listed(k, l + 1) \subseteq Nat \X Nat BY DEF Listed
<1> QED BY <1>1, <1>2, <1>3
LEMMA ListedNode ==
  ASSUME NEW k \in Nat, NodeLevel[k] \in Nat
  PROVE  Listed(k, NodeLevel[k] + 1) = Listed(k + 1, 0)
<1>1. \A x \in Nat \X Nat : x \in Listed(k, NodeLevel[k] + 1) <=> x \in Listed(k + 1, 0)
  <2> TAKE x \in Nat \X Nat
  <2>1. PICK u \in Nat, v \in Nat : x = <<u, v>> OBVIOUS
  <2>2. x[1] = u /\ x[2] = v BY <2>1
  <2>3. u < k + 1 <=> u < k \/ u = k OBVIOUS
  <2>4. v < NodeLevel[k] + 1 <=> v <= NodeLevel[k] OBVIOUS
  <2>5. ~(v < 0) OBVIOUS
  <2> QED BY <2>2, <2>3, <2>4, <2>5 DEF Listed
<1>2. Listed(k, NodeLevel[k] + 1) \subseteq Nat \X Nat /\ Listed(k + 1, 0) \subseteq Nat \X Nat BY DEF Listed
<1> QED BY <1>1, <1>2

\* The lists of a node
AdjStep(c, n, k, l) == AppendTuple(c.pages, c.start, "adj", AdjTuple(k, l, BuiltNbrs(n, k, l)), AdjCap)
LEMMA WithAdjIs ==
  ASSUME NEW n \in Nat, NEW k \in Nat, NodeLevel[k] \in Nat, NEW cs, NEW w, AdjWritten(w, cs, n, Listed(k, 0))
  PROVE  AdjWritten(WithAdj(w, n, k), cs, n, Listed(k + 1, 0))
<1>L. PICK L : L = NodeLevel[k] + 1 OBVIOUS
<1>n. L \in Nat BY <1>L
<1>0. w \in Written BY DEF AdjWritten
<1> DEFINE G(H) == [l \in 0..(NodeLevel[k] + 1) |->
                      IF l = 0 THEN w
                      ELSE AppendTuple(H[l - 1].pages, H[l - 1].start, "adj",
                                       AdjTuple(k, l - 1, {i \in 0..(n - 1) : i # k /\ NodeLevel[i] >= l - 1}), AdjCap)]
           Y == [i \in 0..L |-> {c \in Written : AdjWritten(c, cs, n, Listed(k, i))}]
           F == [i \in 1..L |-> [c \in Written |->
                   IF AdjStep(c, n, k, i - 1) \in Written THEN AdjStep(c, n, k, i - 1) ELSE c]]
<1>1. ASSUME NEW i \in 1..L, NEW c, AdjWritten(c, cs, n, Listed(k, i - 1))
      PROVE  AdjStep(c, n, k, i - 1) \in Written /\ AdjWritten(AdjStep(c, n, k, i - 1), cs, n, Listed(k, i))
  <2>m. PICK l, P, x, H, N : /\ l = i - 1 /\ P = c.pages /\ x = AdjStep(c, n, k, l)
                             /\ H = Listed(k, l) /\ N = BuiltNbrs(n, k, l) OBVIOUS
  <2>1. PICK ads : Built(c.pages, cs, ads, n, n, H) /\ c.start = Start(ads) BY <1>1, <2>m DEF AdjWritten
  <2>2. l \in Nat /\ l + 1 = i BY <1>n, <2>m
  <2>3. x = AppendTuple(P, Start(ads), "adj", AdjTuple(k, l, N), AdjCap) BY <2>1, <2>m DEF AdjStep
  <2>4. Built(P, cs, ads, n, n, H) BY <2>1, <2>m
  <2>5. H \cup {<<k, l>>} = Listed(k, i) /\ <<k, l>> \notin H BY <2>2, <2>m, ListedNext
  <2>6. AdjWritten(x, cs, n, H \cup {<<k, l>>})
    <3>1. n \in Nat /\ k \in Nat /\ l \in Nat /\ N = BuiltNbrs(n, k, l) /\ <<k, l>> \notin H BY <2>2, <2>5, <2>m
    <3> QED BY ONLY <2>3, <2>4, <3>1, AdjBuilt
  <2>7. x \in Written /\ AdjWritten(x, cs, n, Listed(k, i)) BY <2>5, <2>6 DEF AdjWritten
  <2> QED BY <2>7, <2>m
<1>2. \E H : /\ H = G(H) /\ AdjWritten(H[L], cs, n, Listed(k, L))
             /\ H[0] = w /\ \A i \in 1..L : H[i] = AdjStep(H[i - 1], n, k, i - 1)
  <2>1. F \in Steps(L, Written) BY DEF Steps
  <2>2. StaysIn(L, Written, w, F, Y)
    <3>1. Y \in [0..L -> SUBSET Written] /\ w \in Y[0] BY <1>0, <1>n
    <3>2. ASSUME NEW i \in 1..L, NEW c \in Y[i - 1] PROVE F[i][c] \in Y[i]
      <4>1. i - 1 \in 0..L /\ i \in 0..L BY <1>n
      <4>2. c \in Written /\ AdjWritten(c, cs, n, Listed(k, i - 1)) BY <3>2, <4>1
      <4>3. AdjStep(c, n, k, i - 1) \in Written /\ AdjWritten(AdjStep(c, n, k, i - 1), cs, n, Listed(k, i)) BY <1>1, <4>2
      <4>4. F[i][c] = AdjStep(c, n, k, i - 1) BY <4>2, <4>3
      <4> QED BY <4>1, <4>3, <4>4
    <3> HIDE DEF Y, F
    <3> QED BY <3>1, <3>2 DEF StaysIn
  <2> HIDE DEF F
  <2>3. PICK g : Iterates(g, L, Written, w, F) /\ \A i \in 0..L : g[i] \in Y[i]
    <3> HIDE DEF Y
    <3> QED BY <1>0, <1>n, <2>1, <2>2, IterationIn
  <2>4. g \in [0..L -> Written] /\ g[0] = w /\ \A i \in 1..L : g[i] = F[i][g[i - 1]] BY <2>3 DEF Iterates
  <2>5. \A i \in 0..L : g[i] \in Written /\ AdjWritten(g[i], cs, n, Listed(k, i)) BY <2>3
  <2>6. ASSUME NEW i \in 1..L PROVE g[i] = AdjStep(g[i - 1], n, k, i - 1)
    <3>1. i - 1 \in 0..L BY <1>n
    <3>2. g[i - 1] \in Written /\ AdjWritten(g[i - 1], cs, n, Listed(k, i - 1)) BY <2>5, <3>1
    <3>3. AdjStep(g[i - 1], n, k, i - 1) \in Written BY <1>1, <3>2
    <3> QED BY <2>4, <3>2, <3>3 DEF F
  <2>7. \A i \in 0..L : i = 0 \/ i \in 1..L BY <1>n
  <2>8. g = [i \in 0..L |-> IF i = 0 THEN w ELSE AdjStep(g[i - 1], n, k, i - 1)] BY <1>n, <2>4, <2>6, <2>7
  <2>9. g = G(g) BY <1>L, <2>8 DEF AdjStep, BuiltNbrs
  <2>10. L \in 0..L BY <1>n
  <2> QED BY <2>4, <2>5, <2>6, <2>9, <2>10
<1>3. PICK H : H = G(H) /\ WithAdj(w, n, k) = H[NodeLevel[k] + 1]
  <2>1. \E H : H = G(H) BY <1>2
  <2> HIDE <1>0, <1>n
  <2> QED BY <2>1, Zenon DEF WithAdj
<1>4. PICK g : /\ AdjWritten(g[L], cs, n, Listed(k, L))
               /\ g[0] = w /\ \A i \in 1..L : g[i] = AdjStep(g[i - 1], n, k, i - 1) BY <1>2
<1>5. H = [i \in 0..L |-> IF i = 0 THEN w ELSE AdjStep(H[i - 1], n, k, i - 1)]
  BY <1>L, <1>3 DEF AdjStep, BuiltNbrs
<1>6. H[0] = w /\ \A i \in 1..L : H[i] = AdjStep(H[i - 1], n, k, i - 1)
  <2>1. 0 \in 0..L /\ \A i \in 1..L : i \in 0..L /\ i # 0 BY <1>n
  <2> HIDE DEF G
  <2> QED BY <1>5, <2>1
<1>7. g[0] = H[0] /\ \A i \in 1..L : g[i - 1] = H[i - 1] => g[i] = H[i] BY <1>4, <1>6
<1>8. g[L] = H[L] BY ONLY <1>n, <1>7, SameIterates
<1>9. Listed(k, L) = Listed(k + 1, 0) BY <1>L, ListedNode
<1> QED BY <1>3, <1>4, <1>8, <1>9, <1>L

\* All lists
LEMMA WrittenAdjIs ==
  ASSUME NEW n \in 0..NBuilt, NEW cs, Built(WrittenCode(n).pages, cs, <<>>, n, n, {})
  PROVE  AdjWritten(WrittenAdj(n), cs, n, Listed(n, 0)) /\ (n = 0 => WrittenAdj(n).start = Nil)
<1>n. n \in Nat /\ NBuilt \in Nat /\ n <= NBuilt BY Basics
<1>L. \A k \in 0..(n - 1) : k \in NodeIds /\ k \in Nat /\ NodeLevel[k] \in Nat
  <2>1. NodeIds = 0..(MaxRows - 1) /\ MaxRows = NBuilt + MaxNew /\ MaxNew \in Nat /\ NodeLevel \in [NodeIds -> Nat] BY Basics
  <2>2. \A k \in 0..(n - 1) : k \in NodeIds /\ k \in Nat BY <1>n, <2>1
  <2> QED BY <2>1, <2>2
<1>P. PICK P : P = WrittenCode(n).pages OBVIOUS
<1>a. PICK a : a = NoPages(P) OBVIOUS
<1>0. a \in Written /\ AdjWritten(a, cs, n, Listed(0, 0)) /\ a.start = Nil
  <2>1. a = [pages |-> P, start |-> 0, blk |-> 0, off |-> 0] BY <1>a DEF NoPages, Nil
  <2>2. P \in Seq(PageType) BY <1>P DEF Built
  <2>3. a \in Written BY <2>1, <2>2 DEF Written
  <2>4. a.pages = P /\ a.start = Start(<<>>) /\ a.start = Nil BY <2>1 DEF Start, Nil
  <2>5. Listed(0, 0) = {} BY DEF Listed
  <2> QED BY <1>P, <2>3, <2>4, <2>5 DEF AdjWritten
<1> DEFINE G(H) == [i \in 0..n |->
                      IF i = 0 THEN NoPages(WrittenCode(n).pages)
                      ELSE WithAdj(H[i - 1], n, i - 1)]
           Y == [i \in 0..n |-> {c \in Written : AdjWritten(c, cs, n, Listed(i, 0))}]
           F == [i \in 1..n |-> [c \in Written |->
                   IF WithAdj(c, n, i - 1) \in Written THEN WithAdj(c, n, i - 1) ELSE c]]
<1>1. ASSUME NEW i \in 1..n, NEW c, AdjWritten(c, cs, n, Listed(i - 1, 0))
      PROVE  WithAdj(c, n, i - 1) \in Written /\ AdjWritten(WithAdj(c, n, i - 1), cs, n, Listed(i, 0))
  <2>m. PICK k : k = i - 1 OBVIOUS
  <2>1. k \in 0..(n - 1) /\ k + 1 = i BY <1>n, <2>m
  <2>2. k \in Nat /\ NodeLevel[k] \in Nat BY <1>L, <2>1
  <2>3. AdjWritten(c, cs, n, Listed(k, 0)) BY <1>1, <2>m
  <2>4. AdjWritten(WithAdj(c, n, k), cs, n, Listed(k + 1, 0)) BY ONLY <1>n, <2>2, <2>3, WithAdjIs
  <2>5. WithAdj(c, n, k) \in Written BY <2>4 DEF AdjWritten
  <2> QED BY <2>1, <2>4, <2>5, <2>m
<1>2. \E H : /\ H = G(H) /\ AdjWritten(H[n], cs, n, Listed(n, 0))
             /\ H[0] = a /\ \A i \in 1..n : H[i] = WithAdj(H[i - 1], n, i - 1)
  <2>1. F \in Steps(n, Written) BY DEF Steps
  <2>2. StaysIn(n, Written, a, F, Y)
    <3>1. Y \in [0..n -> SUBSET Written] /\ a \in Y[0] BY <1>0, <1>n
    <3>2. ASSUME NEW i \in 1..n, NEW c \in Y[i - 1] PROVE F[i][c] \in Y[i]
      <4>1. i - 1 \in 0..n /\ i \in 0..n BY <1>n
      <4>2. c \in Written /\ AdjWritten(c, cs, n, Listed(i - 1, 0)) BY <3>2, <4>1
      <4>3. WithAdj(c, n, i - 1) \in Written /\ AdjWritten(WithAdj(c, n, i - 1), cs, n, Listed(i, 0)) BY <1>1, <4>2
      <4>4. F[i][c] = WithAdj(c, n, i - 1) BY <4>2, <4>3
      <4> QED BY <4>1, <4>3, <4>4
    <3> HIDE DEF Y, F
    <3> QED BY <3>1, <3>2 DEF StaysIn
  <2> HIDE DEF F
  <2>3. PICK g : Iterates(g, n, Written, a, F) /\ \A i \in 0..n : g[i] \in Y[i]
    <3> HIDE DEF Y
    <3> QED BY <1>0, <1>n, <2>1, <2>2, IterationIn
  <2>4. g \in [0..n -> Written] /\ g[0] = a /\ \A i \in 1..n : g[i] = F[i][g[i - 1]] BY <2>3 DEF Iterates
  <2>5. \A i \in 0..n : g[i] \in Written /\ AdjWritten(g[i], cs, n, Listed(i, 0)) BY <2>3
  <2>6. ASSUME NEW i \in 1..n PROVE g[i] = WithAdj(g[i - 1], n, i - 1)
    <3>1. i - 1 \in 0..n BY <1>n
    <3>2. g[i - 1] \in Written /\ AdjWritten(g[i - 1], cs, n, Listed(i - 1, 0)) BY <2>5, <3>1
    <3>3. WithAdj(g[i - 1], n, i - 1) \in Written BY <1>1, <3>2
    <3> QED BY <2>4, <3>2, <3>3 DEF F
  <2>7. \A i \in 0..n : i = 0 \/ i \in 1..n BY <1>n
  <2>8. g = [i \in 0..n |-> IF i = 0 THEN a ELSE WithAdj(g[i - 1], n, i - 1)] BY <1>n, <2>4, <2>6, <2>7
  <2>9. g = G(g) BY <1>a, <1>P, <2>8
  <2>10. n \in 0..n BY <1>n
  <2> QED BY <2>4, <2>5, <2>6, <2>9, <2>10
<1>3. PICK H : H = G(H) /\ WrittenAdj(n) = H[n]
  <2>1. \E H : H = G(H) BY <1>2
  <2> HIDE <1>0, <1>n
  <2> QED BY <2>1, Zenon DEF WrittenAdj
<1>4. PICK g : /\ AdjWritten(g[n], cs, n, Listed(n, 0))
               /\ g[0] = a /\ \A i \in 1..n : g[i] = WithAdj(g[i - 1], n, i - 1) BY <1>2
<1>5. H = [i \in 0..n |-> IF i = 0 THEN a ELSE WithAdj(H[i - 1], n, i - 1)] BY <1>a, <1>P, <1>3
<1>6. H[0] = a /\ \A i \in 1..n : H[i] = WithAdj(H[i - 1], n, i - 1)
  <2>1. 0 \in 0..n /\ \A i \in 1..n : i \in 0..n /\ i # 0 BY <1>n
  <2> HIDE DEF G
  <2> QED BY <1>5, <2>1
<1>7. g[0] = H[0] /\ \A i \in 1..n : g[i - 1] = H[i - 1] => g[i] = H[i] BY <1>4, <1>6
<1>8. g[n] = H[n] BY ONLY <1>n, <1>7, SameIterates
<1>9. n = 0 => WrittenAdj(n).start = Nil BY <1>0, <1>3, <1>6
<1> QED BY <1>3, <1>4, <1>8, <1>9

\* The entry of CREATE INDEX is a highest node
LEMMA HighestIs ==
  ASSUME NEW n \in 0..NBuilt, n # 0
  PROVE  /\ Highest(0..(n - 1)) \in 0..(n - 1)
         /\ \A k \in 0..(n - 1) : k \in NodeIds /\ NodeLevel[k] \in Nat /\ NodeLevel[k] <= NodeLevel[Highest(0..(n - 1))]
<1>n. n \in Nat /\ NBuilt \in Nat /\ n <= NBuilt BY Basics
<1>1. \A k \in 0..(n - 1) : k \in NodeIds /\ NodeLevel[k] \in 0..TopLevel
  <2>1. NodeIds = 0..(MaxRows - 1) /\ MaxRows = NBuilt + MaxNew /\ MaxNew \in Nat /\ NodeLevel \in [NodeIds -> Nat] BY Basics
  <2>2. \A k \in 0..(n - 1) : k \in NodeIds BY <1>n, <2>1
  <2>3. TopLevel \in Nat BY TopIs
  <2> QED BY <2>1, <2>2, <2>3, TopIs
<1> DEFINE D == {NodeLevel[k] : k \in 0..(n - 1)}
<1>2. D # {} /\ D \subseteq 0..TopLevel
  <2>1. 0 \in 0..(n - 1) BY <1>n
  <2> QED BY <1>1, <2>1
<1>3. PICK x \in D : \A y \in D : y <= x
  <2>1. TopLevel \in Nat BY TopIs
  <2> QED BY ONLY <1>2, <2>1, Greatest
<1>4. PICK e \in 0..(n - 1) : x = NodeLevel[e] BY <1>3
<1>5. \A k \in 0..(n - 1) : NodeLevel[k] <= NodeLevel[e] BY <1>3, <1>4
<1>6. /\ Highest(0..(n - 1)) \in 0..(n - 1)
      /\ \A k \in 0..(n - 1) : NodeLevel[k] <= NodeLevel[Highest(0..(n - 1))]
  BY <1>5 DEF Highest
<1> QED BY <1>1, <1>6

\* A list of all other nodes is short enough
LEMMA BuiltListOk ==
  ASSUME NEW n \in 0..NBuilt, meta.count = n, NEW k \in 0..(n - 1), NEW l
  PROVE  ListOk(k, l, BuiltNbrs(n, k, l))
<1>n. n \in Nat /\ NBuilt \in Nat /\ n <= NBuilt /\ M \in Nat \ {0} BY Basics
<1>1. NodeIds = 0..(MaxRows - 1) /\ MaxRows = NBuilt + MaxNew /\ MaxNew \in Nat BY Basics
<1> DEFINE N == 0..(n - 1)
<1>2. BuiltNbrs(n, k, l) \subseteq N \ {k} BY DEF BuiltNbrs
<1>3. N \subseteq NodeIds BY <1>n, <1>1
<1>4. IsFiniteSet(N) /\ Cardinality(N) = n
  <2>1. 0 \in Int /\ n - 1 \in Int BY <1>n
  <2> QED BY <1>n, <2>1, FS_Interval
<1>5. IsFiniteSet(N \ {k}) /\ Cardinality(N \ {k}) = n - 1 BY <1>4, FS_RemoveElement
<1>6. Cardinality(BuiltNbrs(n, k, l)) \in Nat /\ Cardinality(BuiltNbrs(n, k, l)) <= n - 1
  BY <1>2, <1>5, FS_Subset, FS_CardinalityType
<1>7. n - 1 <= LevelM(l) /\ LevelM(l) \in Nat
  <2>1. NBuilt <= M + 1 BY ConstantsAssumption
  <2>2. LevelM(l) \in {M, 2 * M} BY DEF LevelM
  <2> QED BY <1>n, <2>1, <2>2
<1>8. \A x \in BuiltNbrs(n, k, l) : x \in NodeIds /\ x # k /\ x <= meta.count /\ NodeLevel[x] >= l
  BY <1>n, <1>2, <1>3 DEF BuiltNbrs
<1> QED BY <1>n, <1>6, <1>7, <1>8 DEF ListOk

LEMMA InitKeeps == ASSUME Init PROVE Inv
<1>1. PICK n \in BuiltSizes : InitBuilt(n) BY DEF Init
<1>2. n \in 0..NBuilt /\ n \in Nat /\ NBuilt \in Nat /\ n <= NBuilt
  <2>1. n \in 0..NBuilt BY ConstantsAssumption
  <2> QED BY <2>1, Basics
<1>3. /\ cache = [b \in Backends |-> NoCache] /\ op = [b \in Backends |-> NoOp]
      /\ pc = [p \in Backends \cup {Vacuum} |-> "idle"] /\ vac = NoVacuum
      /\ bounds = [new |-> 0, scans |-> 0, deletes |-> 0, vacuums |-> 0, cancels |-> 0]
  BY DEF Init
<1>4. PICK entry : /\ entry = IF n = 0 THEN NoNode ELSE Highest(0..(n - 1))
                   /\ meta = [gen |-> 1, count |-> n, entry |-> entry,
                              maxLevel |-> IF n = 0 THEN 0 ELSE NodeLevel[entry],
                              codeStart |-> WrittenCode(n).start, adjStart |-> WrittenAdj(n).start]
  BY <1>1 DEF InitBuilt
<1>5. /\ page = WrittenAdj(n).pages /\ rows = n
      /\ heap = [t \in Tids |-> IF \E i \in 1..n : BuiltTids[i] = t
                                  THEN Row(CHOOSE i \in 1..n : BuiltTids[i] = t, "live", TRUE) ELSE NoRow]
  BY <1>1 DEF InitBuilt
<1>6. CodeWritten(WrittenCode(n), n, n) BY <1>2, WrittenCodeIs
<1>7. PICK cs : Built(WrittenCode(n).pages, cs, <<>>, n, n, {}) /\ WrittenCode(n).start = Start(cs)
  BY <1>6 DEF CodeWritten
<1>8. AdjWritten(WrittenAdj(n), cs, n, Listed(n, 0)) /\ (n = 0 => WrittenAdj(n).start = Nil)
  BY <1>2, <1>7, WrittenAdjIs
<1>9. PICK ads : Built(WrittenAdj(n).pages, cs, ads, n, n, Listed(n, 0)) /\ WrittenAdj(n).start = Start(ads)
  BY <1>8 DEF AdjWritten
<1>10. Built(page, cs, ads, n, n, Listed(n, 0)) BY <1>5, <1>9
<1>11. WrittenCode(n).start \in Nat /\ WrittenAdj(n).start \in Nat /\ (n = 0 => WrittenCode(n).start = Nil)
  <2>1. WrittenCode(n).start \in Nat /\ WrittenAdj(n).start \in Nat BY <1>6, <1>8 DEF CodeWritten, AdjWritten, Written
  <2>2. ASSUME n = 0 PROVE cs = <<>>
    <3>1. Chained(page, cs, ads) /\ Total(page, cs) = 0 BY <1>10, <2>2 DEF Built
    <3>2. Len(cs) \in Nat /\ cs \in Seq(1..Len(page)) BY <3>1 DEF Chained, IsChain
    <3>3. ASSUME cs # <<>> PROVE FALSE
      <4>1. Len(cs) \in Nat \ {0} /\ 1 \in 1..Len(cs) BY <3>2, <3>3
      <4>b. PICK b : b = cs[1] OBVIOUS
      <4>2. b \in 1..Len(page) BY <3>2, <4>1, <4>b
      <4>3. page[b].kind = "code" BY <3>1, <4>1, <4>2, <4>b DEF Chained, IsChain
      <4>4. Len(page[b].tup) \in 1..Cap("code") BY <3>1, <4>2, <4>3 DEF Chained, Sized
      <4>5. Cap("code") \in Nat BY Basics
      <4>q. PICK q : q = <<b, 1>> OBVIOUS
      <4>6. q \in Spots(page, "code") BY <4>2, <4>3, <4>4, <4>5, <4>q DEF Spots
      <4>7. At(page, q).node < 0 BY <1>10, <2>2, <4>6 DEF Built
      <4>8. At(page, q).node \in Nat
        <5>1. page \in Seq(PageType) /\ "code" \in Kinds BY <1>10 DEF Built, Kinds
        <5> QED BY <4>6, <5>1, SpotTyped
      <4> QED BY <4>7, <4>8
    <3> QED BY <3>3
  <2>3. n = 0 => WrittenCode(n).start = Nil BY <1>7, <2>2 DEF Start
  <2> QED BY <2>1, <2>3
<1>12. n # 0 => /\ entry \in 0..(n - 1)
                /\ \A k \in 0..(n - 1) : k \in NodeIds /\ NodeLevel[k] \in Nat /\ NodeLevel[k] <= NodeLevel[entry]
  BY <1>2, <1>4, HighestIs
<1>13. /\ meta.gen = 1 /\ meta.count = n /\ meta.entry = entry /\ meta.maxLevel = (IF n = 0 THEN 0 ELSE NodeLevel[entry])
       /\ meta.codeStart = WrittenCode(n).start /\ meta.adjStart = WrittenAdj(n).start
  BY <1>4
<1>14. meta \in MetaType
  <2>1. 1 \in 0..(Wide - 1) BY WideIs
  <2>2. entry \in Nat
    <3>1. NoNode \in Nat BY Basics
    <3> QED BY <1>2, <1>4, <1>12, <3>1
  <2>3. (IF n = 0 THEN 0 ELSE NodeLevel[entry]) \in Nat BY <1>12
  <2> QED BY <1>2, <1>4, <1>11, <2>1, <2>2, <2>3 DEF MetaType
<1>15. Levels(meta)
  <2>1. CASE n = 0
    <3>1. meta.maxLevel = 0 /\ meta.entry = NoNode /\ meta.count = 0 BY <1>4, <1>13, <2>1
    <3>2. TopLevel \in Nat BY TopIs
    <3>3. \A k \in NodeIds : ~(k < 0) BY Basics
    <3> QED BY <3>1, <3>2, <3>3 DEF Levels
  <2>2. CASE n # 0
    <3>1. entry \in 0..(n - 1) /\ entry \in NodeIds /\ meta.maxLevel = NodeLevel[entry] BY <1>12, <1>13, <2>2
    <3>2. NodeLevel[entry] <= TopLevel BY <3>1, TopIs
    <3>3. \A k \in NodeIds : k < n => k \in 0..(n - 1) BY <1>2, Basics
    <3>4. entry < n /\ entry # NoNode BY <1>2, <3>1, Basics
    <3> QED BY <1>12, <1>13, <2>2, <3>1, <3>2, <3>3, <3>4 DEF Levels
  <2> QED BY <2>1, <2>2
<1>16. /\ page \in Seq(PageType) /\ Chained(page, cs, ads) /\ Total(page, cs) = n
       /\ \A p \in CodeSpots : At(page, p).node < n /\ At(page, p) = BuiltCode(At(page, p)) /\ At(page, p).node \in Nat
  <2>1. page \in Seq(PageType) /\ Chained(page, cs, ads) /\ Total(page, cs) = n BY <1>10 DEF Built
  <2>2. \A p \in CodeSpots : At(page, p).node < n /\ At(page, p) = BuiltCode(At(page, p)) BY <1>10 DEF Built, CodeSpots
  <2>3. \A p \in CodeSpots : At(page, p).node \in Nat
    <3>1. "code" \in Kinds BY DEF Kinds
    <3> QED BY <2>1, <3>1, SpotTyped DEF CodeSpots
  <2> HIDE DEF BuiltCode
  <2> QED BY <2>1, <2>2, <2>3
<1>17. /\ \A p \in AdjSpots : /\ <<At(page, p).node, At(page, p).level>> \in Listed(n, 0)
                              /\ At(page, p).nbrs = BuiltNbrs(n, At(page, p).node, At(page, p).level)
       /\ \A p, q \in AdjSpots :
            At(page, p).node = At(page, q).node /\ At(page, p).level = At(page, q).level => p = q
       /\ \A h \in Listed(n, 0) : \E p \in AdjSpots : At(page, p).node = h[1] /\ At(page, p).level = h[2]
  <2> HIDE DEF BuiltCode
  <2> QED BY <1>10 DEF Built, AdjSpots
<1>18. /\ \A b \in Backends : /\ pc[b] = "idle" /\ op[b] = NoOp /\ cache[b] = NoCache /\ ~Writing(b) /\ ~Inserting(b)
                              /\ op[b].kind = "none" /\ ~Scanning(b)
       /\ pc[Vacuum] = "idle"
  BY <1>3 DEF Writing, Inserting, Scanning, NoOp
<1>19. \A k, l \in Nat : <<k, l>> \in Listed(n, 0) <=> AdjOf(k, l) \/ AdjNew(k, l)
  <2> TAKE k, l \in Nat
  <2>1. ~AdjNew(k, l) BY <1>18 DEF AdjNew
  <2>2. k < n => k \in NodeIds BY <1>2, Basics
  <2>3. <<k, l>> \in Listed(n, 0) <=> k < n /\ l <= NodeLevel[k] BY <1>2 DEF Listed
  <2> QED BY <1>13, <2>1, <2>2, <2>3 DEF AdjOf
<1>20. Placed(cs, ads)
  <2>1. Total(page, cs) = IF \E b \in Backends : Writing(b) THEN meta.count + 1 ELSE meta.count BY <1>13, <1>16, <1>18
  <2>2. \A k, l \in Nat : AdjOf(k, l) \/ AdjNew(k, l) <=> \E p \in AdjSpots : At(page, p).node = k /\ At(page, p).level = l
    <3> TAKE k, l \in Nat
    <3>1. <<k, l>> \in Listed(n, 0) <=> \E p \in AdjSpots : At(page, p).node = k /\ At(page, p).level = l
      <4>1. \A p \in AdjSpots : At(page, p).node = k /\ At(page, p).level = l => <<k, l>> \in Listed(n, 0) BY <1>17
      <4>2. <<k, l>> \in Listed(n, 0) => \E p \in AdjSpots : At(page, p).node = <<k, l>>[1] /\ At(page, p).level = <<k, l>>[2]
        BY <1>17
      <4> QED BY <4>1, <4>2
    <3> QED BY <1>19, <3>1
  <2>3. /\ meta.codeStart = IF meta.count = 0 THEN Nil ELSE Start(cs)
        /\ meta.adjStart = IF meta.count = 0 THEN Nil ELSE Start(ads)
    BY <1>7, <1>8, <1>9, <1>11, <1>13
  <2> QED BY <1>17, <2>1, <2>2, <2>3 DEF Placed
<1>21. Lists
  <2> SUFFICES ASSUME NEW p \in AdjSpots PROVE ListOk(At(page, p).node, At(page, p).level, At(page, p).nbrs) BY DEF Lists
  <2>1. PICK k, l : k = At(page, p).node /\ l = At(page, p).level OBVIOUS
  <2>2. <<k, l>> \in Listed(n, 0) /\ At(page, p).nbrs = BuiltNbrs(n, k, l) BY <1>17, <2>1
  <2>3. k \in 0..(n - 1)
    <3>1. <<k, l>> \in Nat \X Nat /\ (k < n \/ (k = n /\ l < 0)) BY <2>2 DEF Listed
    <3>2. k \in Nat /\ l \in Nat BY <3>1
    <3> QED BY <1>2, <3>1, <3>2
  <2>4. ListOk(k, l, BuiltNbrs(n, k, l)) BY <1>2, <1>13, <2>3, BuiltListOk
  <2> QED BY <2>1, <2>2, <2>4
<1>22. /\ \A i \in 1..n : BuiltTids[i] \in Tids
       /\ \A i, j \in 1..n : i # j => BuiltTids[i] # BuiltTids[j]
  <2>1. BuiltTids \in Seq(Tids) /\ NBuilt = Len(BuiltTids) BY ConstantsAssumption DEF NBuilt
  <2>2. \A i \in 1..n : i \in 1..NBuilt BY <1>2
  <2> QED BY <2>1, <2>2, ConstantsAssumption
<1>23. /\ \A i \in 1..n : heap[BuiltTids[i]] = [row |-> i, state |-> "live", indexed |-> TRUE]
       /\ \A t \in Tids : (\E i \in 1..n : BuiltTids[i] = t) \/ heap[t] = [row |-> 0, state |-> "free", indexed |-> FALSE]
  <2>1. ASSUME NEW i \in 1..n PROVE heap[BuiltTids[i]] = [row |-> i, state |-> "live", indexed |-> TRUE]
    <3>1. (CHOOSE j \in 1..n : BuiltTids[j] = BuiltTids[i]) = i BY <1>22
    <3>2. heap[BuiltTids[i]] = Row(CHOOSE j \in 1..n : BuiltTids[j] = BuiltTids[i], "live", TRUE) BY <1>5, <1>22
    <3> QED BY <3>1, <3>2 DEF Row
  <2>2. \A t \in Tids : (\E i \in 1..n : BuiltTids[i] = t) \/ heap[t] = NoRow BY <1>5
  <2> QED BY <2>1, <2>2 DEF NoRow, Row, Nil
<1>24. /\ \A t \in Tids : heap[t] \in HeapType /\ heap[t].row <= n
       /\ \A t \in Tids : heap[t].state = "live" => \E i \in 1..n : BuiltTids[i] = t
  <2>1. ASSUME NEW t \in Tids
        PROVE  heap[t] \in HeapType /\ heap[t].row <= n /\ (heap[t].state = "live" => \E i \in 1..n : BuiltTids[i] = t)
    <3>1. CASE \E i \in 1..n : BuiltTids[i] = t
      <4>1. PICK i \in 1..n : BuiltTids[i] = t BY <3>1
      <4>2. heap[t] = [row |-> i, state |-> "live", indexed |-> TRUE] BY <1>23, <4>1
      <4>3. i \in Nat /\ i <= n BY <1>2
      <4> QED BY <3>1, <4>2, <4>3 DEF HeapType
    <3>2. CASE ~\E i \in 1..n : BuiltTids[i] = t
      <4>1. heap[t] = [row |-> 0, state |-> "free", indexed |-> FALSE] BY <1>23, <3>2
      <4> QED BY <1>2, <4>1 DEF HeapType
    <3> QED BY <3>1, <3>2
  <2> QED BY <2>1
<1>25. \A p \in CodeSpots : \E i \in 1..n : At(page, p) = [node |-> i - 1, tid |-> BuiltTids[i], row |-> i, dead |-> FALSE]
  <2> TAKE p \in CodeSpots
  <2>c. PICK c : c = At(page, p) OBVIOUS
  <2>1. c.node \in Nat /\ c.node < n /\ c = CodeTuple(c.node, BuiltTids[c.node + 1], c.node + 1) BY <1>16, <2>c DEF BuiltCode
  <2>2. PICK k, i : k = c.node /\ i = c.node + 1 OBVIOUS
  <2>3. i \in 1..n /\ k = i - 1 BY <1>2, <2>1, <2>2
  <2>4. c = [node |-> k, tid |-> BuiltTids[i], row |-> i, dead |-> FALSE] BY <2>1, <2>2 DEF CodeTuple
  <2> QED BY <2>c, <2>3, <2>4
<1>26. HeapOk
  <2>1. \A p \in CodeSpots : LET c == At(page, p) IN ~c.dead => heap[c.tid].row = c.row /\ heap[c.tid].state # "free"
    <3> TAKE p \in CodeSpots
    <3>1. PICK i \in 1..n : At(page, p) = [node |-> i - 1, tid |-> BuiltTids[i], row |-> i, dead |-> FALSE] BY <1>25
    <3>2. heap[BuiltTids[i]] = [row |-> i, state |-> "live", indexed |-> TRUE] BY <1>23
    <3> QED BY <3>1, <3>2
  <2>2. ASSUME NEW t \in Tids, heap[t].state = "live" PROVE HasNode(t, heap[t].row, n)
    <3>1. PICK i \in 1..n : BuiltTids[i] = t BY <1>24, <2>2
    <3>0. heap[t] = [row |-> i, state |-> "live", indexed |-> TRUE] BY <1>23, <3>1
    <3>2. heap[t].row = i BY <3>0
    <3>3. i - 1 \in Nat /\ i - 1 < n BY <1>2
    <3>4. PICK p \in Spots(page, "code") : At(page, p).node = i - 1 BY <1>16, <3>3, NodeIsThere
    <3>5. p \in CodeSpots BY <3>4 DEF CodeSpots
    <3>6. PICK j \in 1..n : At(page, p) = [node |-> j - 1, tid |-> BuiltTids[j], row |-> j, dead |-> FALSE] BY <1>25, <3>5
    <3>7. j = i BY <1>2, <3>4, <3>6
    <3>8. At(page, p).tid = t /\ At(page, p).row = i /\ ~At(page, p).dead /\ At(page, p).node < n
      BY <3>1, <3>3, <3>4, <3>6, <3>7
    <3> QED BY <3>2, <3>5, <3>8 DEF HasNode
  <2> QED BY <1>5, <1>13, <1>24, <2>1, <2>2 DEF HeapOk
<1>27. Typed
  <2>1. heap \in [Tids -> HeapType] BY <1>5, <1>24
  <2>2. /\ cache = [b \in Backends |-> cache[b]] /\ op = [b \in Backends |-> op[b]]
        /\ pc = [p \in Backends \cup {Vacuum} |-> pc[p]] BY <1>3
  <2>3. bounds \in Counters BY <1>3 DEF Counters
  <2>4. VacTyped BY <1>3, <1>18 DEF VacTyped
  <2>5. \A b \in Backends : OpTyped(b) /\ CacheTyped(b) BY <1>18 DEF OpTyped, CacheTyped
  <2> QED BY <1>2, <1>5, <1>14, <1>16, <2>1, <2>2, <2>3, <2>4, <2>5 DEF Typed
<1>28. Turns
  <2>1. bounds.new = 0 /\ bounds.vacuums = 0 BY <1>3
  <2>2. MaxNew \in Nat /\ MaxVacuums \in Nat BY ConstantsAssumption
  <2>3. ~Marking BY <1>18 DEF Marking
  <2> QED BY <1>2, <1>5, <1>13, <1>18, <2>1, <2>2, <2>3 DEF Turns
<1>29. VacOk(cs, ads) BY <1>18 DEF VacOk
<1>30. \A b \in Backends : InsertOk(cs, ads, b) /\ CacheOk(cs, ads, b) /\ ScanOk(b)
  BY <1>18 DEF InsertOk, CacheOk, ScanOk
<1>31. Good(cs, ads) BY <1>15, <1>16, <1>20, <1>21, <1>26, <1>29, <1>30 DEF Good
<1> QED BY <1>27, <1>28, <1>31 DEF Inv

-----------------------------------------------------------------------------
(* The invariant holds                                                     *)

LEMMA StutterKeeps == ASSUME Inv, UNCHANGED vars PROVE Inv'
<1>1. /\ page' = page /\ meta' = meta /\ heap' = heap /\ rows' = rows /\ cache' = cache /\ op' = op
      /\ pc' = pc /\ vac' = vac /\ bounds' = bounds
  BY DEF vars
<1>2. /\ heap \in [Tids -> HeapType] /\ rows \in Nat /\ bounds \in Counters /\ rows <= NBuilt + bounds.new
      /\ bounds.new <= MaxNew
  BY DEF Inv, Typed, Turns
<1>3. \A t \in Tids : heap[t].state = "live" => heap'[t].row = heap[t].row /\ heap'[t].state \in {"live", "dead"} BY <1>1
<1>4. RowsMove BY <1>1, <1>2, <1>3 DEF RowsMove
<1>5. \A cs, ads : Good(cs, ads) => HeapOk'
  <2> SUFFICES ASSUME NEW cs, NEW ads, Good(cs, ads) PROVE HeapOk' OBVIOUS
  <2>1. HeapOk BY DEF Good
  <2>2. CodeSpots' = CodeSpots BY <1>1 DEF CodeSpots
  <2> QED BY <1>1, <2>1, <2>2 DEF HeapOk, HasNode
<1> QED BY <1>4, <1>5, RowsStep

LEMMA NextKeeps == ASSUME Inv, FewVacuums, [Next]_vars, [Whole]_vars PROVE Inv'
<1>1. ASSUME NEW b \in Backends, NEW t \in Tids, BeginInsert(b, t) PROVE Inv' BY <1>1, BeginInsertKeeps
<1>2. ASSUME NEW b \in Backends, LoadCodePage(b) PROVE Inv' BY <1>2, LoadCodePageKeeps
<1>3. ASSUME NEW b \in Backends, LoadAdjPage(b) PROVE Inv' BY <1>3, LoadAdjPageKeeps
<1>4. ASSUME NEW b \in Backends, Select(b) PROVE Inv' BY <1>4, SelectKeeps
<1>5. ASSUME NEW b \in Backends, NEW l \in 0..TopLevel, NEW src \in NodeIds, Link(b, l, src) PROVE Inv' BY <1>5, LinkKeeps
<1>6. ASSUME NEW b \in Backends, AppendCode(b) PROVE Inv' BY <1>6, AppendCodeKeeps
<1>7. ASSUME NEW b \in Backends, AppendAdj(b) PROVE Inv' BY <1>7, AppendAdjKeeps
<1>8. ASSUME NEW b \in Backends, UpdateMeta(b) PROVE Inv' BY <1>8, UpdateMetaKeeps
<1>9. ASSUME NEW b \in Backends, BeginScan(b) PROVE Inv' BY <1>9, BeginScanKeeps
<1>10. ASSUME NEW b \in Backends, StartScan(b) PROVE Inv' BY <1>10, StartScanKeeps
<1>11. ASSUME NEW b \in Backends, Collect(b) PROVE Inv' BY <1>11, CollectKeeps
<1>12. ASSUME NEW b \in Backends, EndScan(b) PROVE Inv' BY <1>12, EndScanKeeps
<1>13. CASE BeginVacuum BY <1>13, BeginVacuumKeeps
<1>14. CASE LockVacuum BY <1>14, LockVacuumKeeps
<1>15. CASE VacuumCode BY <1>15, VacuumCodeKeeps
<1>16. CASE RepairAdj BY <1>16, RepairAdjKeeps
<1>17. CASE FinishVacuum BY <1>17, FinishVacuumKeeps
<1>18. ASSUME NEW t \in Tids, InsertNull(t) PROVE Inv' BY <1>18, InsertNullKeeps
<1>19. ASSUME NEW t \in Tids, RowDies(t) PROVE Inv' BY <1>19, RowDiesKeeps
<1>20. ASSUME NEW p \in Backends \cup {Vacuum}, Cancel(p) PROVE Inv'
  <2>1. CASE UNCHANGED vars BY <2>1, StutterKeeps
  <2>2. CASE Whole /\ p \in Backends BY <1>20, <2>2, CancelKeeps
  <2>3. CASE Whole /\ p = Vacuum BY <1>20, <2>3, CancelVacuumKeeps
  <2> QED BY <2>1, <2>2, <2>3
<1>21. CASE UNCHANGED vars BY <1>21, StutterKeeps
<1>22. CASE Next
  BY <1>1, <1>2, <1>3, <1>4, <1>5, <1>6, <1>7, <1>8, <1>9, <1>10, <1>11, <1>12, <1>13, <1>14, <1>15, <1>16,
     <1>17, <1>18, <1>19, <1>20, <1>22 DEF Next
<1> QED BY <1>21, <1>22

LEMMA Invariance == Spec /\ Orderly => []Inv
<1>1. Init => Inv BY InitKeeps
<1>2. Inv /\ FewVacuums /\ [Next]_vars /\ [Whole]_vars => Inv' BY NextKeeps
<1>3. FewVacuums => FewVacuums' BY DEF FewVacuums
<1> QED BY <1>1, <1>2, <1>3, PTL DEF Spec, Orderly

\* Following a chain finds the places of its tuples
LEMMA PlacesAre ==
  ASSUME NEW s, NEW kind, IsChain(page, s, kind), page \in Seq(PageType)
  PROVE  Places(Start(s)) = Spots(page, kind)
<1>1. ChainOf(page, Start(s)) = s
  <2>1. Len(page) \in Nat OBVIOUS
  <2> QED BY <2>1, ChainFollowed
<1>2. /\ s \in Seq(1..Len(page))
      /\ \A b \in 1..Len(page) : page[b].kind = kind <=> \E j \in 1..Len(s) : s[j] = b
  BY DEF IsChain
<1>3. \A j \in 1..Len(s) : s[j] \in 1..Len(page) /\ page[s[j]].kind = kind BY <1>2
<1>4. Places(Start(s)) = UNION {{<<s[j], i>> : i \in 1..Len(page[s[j]].tup)} : j \in 1..Len(s)}
  BY <1>1 DEF Places
<1>5. ASSUME NEW p \in Places(Start(s)) PROVE p \in Spots(page, kind)
  <2>0. PICK j \in 1..Len(s) : \E i \in 1..Len(page[s[j]].tup) : p = <<s[j], i>> BY <1>4, <1>5
  <2>1. PICK i \in 1..Len(page[s[j]].tup) : p = <<s[j], i>> BY <2>0
  <2>b. PICK b : b = s[j] OBVIOUS
  <2>2. b \in 1..Len(page) /\ page[b].kind = kind BY <1>3, <2>b
  <2>3. page[b] \in PageType BY <2>2, ElementOfSeq
  <2>4. Len(page[b].tup) \in Nat BY <2>3, PageIs
  <2>5. i \in 1..Len(page[b].tup) /\ i \in Nat /\ b \in Nat /\ p = <<b, i>> BY <2>1, <2>2, <2>4, <2>b
  <2> QED BY <2>2, <2>5 DEF Spots
<1>6. ASSUME NEW p \in Spots(page, kind) PROVE p \in Places(Start(s))
  <2>1. /\ p \in Nat \X Nat /\ p[1] \in 1..Len(page) /\ page[p[1]].kind = kind /\ p[2] \in 1..Len(page[p[1]].tup)
    BY DEF Spots
  <2>2. PICK j \in 1..Len(s) : s[j] = p[1] BY <1>2, <2>1
  <2>3. p = <<s[j], p[2]>> BY <2>1, <2>2
  <2> QED BY <1>4, <2>1, <2>2, <2>3
<1> QED BY <1>5, <1>6

LEMMA StartOf ==
  ASSUME NEW s, NEW kind, IsChain(page, s, kind), page \in Seq(PageType) PROVE Start(s) \in 0..Len(page)
<1>1. s \in Seq(1..Len(page)) /\ Len(page) \in Nat BY DEF IsChain
<1>2. CASE s = <<>> BY <1>1, <1>2 DEF Start, Nil
<1>3. CASE s # <<>>
  <2>1. 1 \in 1..Len(s) BY <1>1, <1>3
  <2>2. s[1] \in 1..Len(page) BY <1>1, <2>1
  <2> QED BY <1>1, <1>3, <2>2 DEF Start
<1> QED BY <1>2, <1>3

LEMMA TypesFit == ASSUME Inv PROVE TypeOK
<1>1. PICK cs, ads : Good(cs, ads) BY DEF Inv
<1>2. Typed /\ Turns BY DEF Inv
<1>3. /\ page \in Seq(PageType) /\ meta \in MetaType /\ heap \in [Tids -> HeapType] /\ rows \in Nat /\ bounds \in Counters
      /\ \A b \in Backends : OpTyped(b) /\ CacheTyped(b)
  BY <1>2 DEF Typed
<1>4. /\ IsChain(page, cs, "code") /\ IsChain(page, ads, "adj") /\ Sized(page) /\ Placed(cs, ads) /\ Levels(meta) /\ HeapOk
  BY <1>1 DEF Good, Chained
<1>5. /\ MaxRows \in Nat \ {0} /\ MaxRows = NBuilt + MaxNew /\ NodeIds = 0..(MaxRows - 1) /\ NoNode = MaxRows
      /\ NBuilt \in Nat /\ MaxNew \in Nat /\ Nil = 0
  BY Basics
<1>6. ASSUME NEW k \in 1..Len(page)
      PROVE  /\ page[k].next \in 0..Len(page)
             /\ page[k].kind = "code" => Len(page[k].tup) \in 1..CodeCap
             /\ page[k].kind = "adj" => Len(page[k].tup) \in 1..AdjCap
  <2>1. page[k] \in PageType BY <1>3, ElementOfSeq
  <2>2. page[k].kind \in {"code", "adj"} BY <2>1, PageIs DEF Kinds
  <2>3. \E s : IsChain(page, s, page[k].kind) BY <1>4, <2>2
  <2>4. PICK s : IsChain(page, s, page[k].kind) BY <2>3
  <2>5. /\ s \in Seq(1..Len(page)) /\ Len(s) \in Nat /\ Len(page) \in Nat
        /\ \A j \in 1..Len(s) : page[s[j]].next = IF j = Len(s) THEN Nil ELSE s[j + 1]
    BY <2>4 DEF IsChain
  <2>6. PICK j \in 1..Len(s) : s[j] = k BY <2>4 DEF IsChain
  <2>7. page[k].next \in 0..Len(page)
    <3>1. CASE j = Len(s) BY <1>5, <2>5, <2>6, <3>1
    <3>2. CASE j # Len(s)
      <4>1. j + 1 \in 1..Len(s) BY <2>5, <3>2
      <4>2. s[j + 1] \in 1..Len(page) BY <2>5, <4>1
      <4> QED BY <2>5, <2>6, <3>2, <4>2
    <3> QED BY <3>1, <3>2
  <2>8. Len(page[k].tup) \in 1..Cap(page[k].kind) BY <1>4 DEF Sized
  <2> QED BY <2>7, <2>8 DEF Cap
<1>7. meta.gen \in 0..(2^16 - 1)
  <2>1. meta.gen \in 0..(Wide - 1) BY <1>3 DEF MetaType
  <2> QED BY <2>1 DEF Wide
<1>8. meta.count \in 0..rows /\ rows \in 0..MaxRows
  <2>1. meta.count \in Nat /\ bounds.new \in Nat BY <1>3 DEF MetaType, Counters
  <2>2. meta.count <= rows /\ rows <= NBuilt + bounds.new /\ bounds.new <= MaxNew BY <1>2 DEF Turns
  <2> QED BY <1>3, <1>5, <2>1, <2>2
<1>9. meta.entry \in NodeIds \cup {NoNode} /\ meta.maxLevel \in 0..TopLevel
  <2>1. meta.entry \in Nat /\ meta.maxLevel \in Nat BY <1>3 DEF MetaType
  <2>2. (meta.entry = NoNode \/ meta.entry < meta.count) /\ meta.maxLevel <= TopLevel BY <1>4 DEF Levels
  <2>3. TopLevel \in Nat BY TopIs
  <2>4. meta.entry < meta.count => meta.entry \in 0..(MaxRows - 1) BY <1>3, <1>5, <1>8, <2>1
  <2> QED BY <1>5, <2>1, <2>2, <2>3, <2>4
<1>10. {meta.codeStart, meta.adjStart} \subseteq 0..Len(page)
  <2>1. Start(cs) \in 0..Len(page) /\ Start(ads) \in 0..Len(page) BY <1>3, <1>4, StartOf
  <2>2. Nil \in 0..Len(page)
    <3>1. Len(page) \in Nat BY <1>3
    <3> QED BY <1>5, <3>1
  <2>3. /\ meta.codeStart = IF meta.count = 0 THEN Nil ELSE Start(cs)
        /\ meta.adjStart = IF meta.count = 0 THEN Nil ELSE Start(ads)
    BY <1>4 DEF Placed
  <2> QED BY <2>1, <2>2, <2>3
<1>11. heap \in [Tids -> [row : Rows \cup {Nil}, indexed : BOOLEAN,
                          state : {"free", "inserting", "live", "dead"}]]
  <2>1. ASSUME NEW t \in Tids
        PROVE  heap[t] \in [row : Rows \cup {Nil}, indexed : BOOLEAN, state : {"free", "inserting", "live", "dead"}]
    <3>1. heap[t] \in HeapType /\ heap[t].row <= rows BY <1>3, <1>4 DEF HeapOk
    <3>2. heap[t] = [row |-> heap[t].row, state |-> heap[t].state, indexed |-> heap[t].indexed]
          /\ heap[t].row \in Nat /\ heap[t].state \in {"free", "inserting", "live", "dead"} /\ heap[t].indexed \in BOOLEAN
      BY <3>1 DEF HeapType
    <3>3. heap[t].row \in Rows \cup {Nil}
      <4>r. PICK r : r = heap[t].row OBVIOUS
      <4>1. r \in Nat /\ r <= rows /\ rows <= MaxRows /\ rows \in Nat BY <1>8, <3>1, <3>2, <4>r
      <4>2. r \in 1..MaxRows \/ r = 0 BY <1>5, <4>1
      <4> QED BY <1>5, <4>2, <4>r DEF Rows
    <3> QED BY <3>2, <3>3
  <2> QED BY <1>3, <2>1
<1>12. ASSUME NEW b \in Backends
       PROVE  cache[b] = NoCache \/ /\ DOMAIN cache[b].nodes = 0..(cache[b].key.count - 1)
                                    /\ DOMAIN cache[b].adj = 0..(cache[b].key.count - 1)
  <2>1. cache[b] = NoCache \/ cache[b] \in CacheType(cache[b].key) BY <1>3 DEF CacheTyped
  <2> QED BY <2>1 DEF CacheType
<1>13. ASSUME NEW b \in Backends PROVE op[b].kind \in {"none", "insert", "scan"}
  <2>1. op[b] = NoOp \/ op[b] \in InsertOp \/ op[b] \in ScanOp BY <1>3 DEF OpTyped
  <2> QED BY <2>1 DEF NoOp, InsertOp, ScanOp
<1> QED BY <1>6, <1>7, <1>8, <1>9, <1>10, <1>11, <1>12, <1>13 DEF TypeOK

\* Every variable has its type: pages hold tuples of their kind, the metapage
\* roots are blocks of the index, and caches cover the nodes of the metapage
\* they were built for.
THEOREM TypesHold == Spec /\ Orderly => []TypeOK
BY Invariance, TypesFit, PTL

LEMMA CachesFit == ASSUME Inv, FewVacuums PROVE CacheCurrent
<1>1. PICK cs, ads : Good(cs, ads) BY DEF Inv
<1>2. Typed /\ Turns BY DEF Inv
<1> SUFFICES ASSUME pc[Vacuum] \notin {"vacCode", "vacAdj", "vacEnd"}, NEW b \in Backends, CacheMatches(b, meta)
             PROVE  {cache[b].nodes[n] : n \in DOMAIN cache[b].nodes} =
                      {t \in {TupleAt(p) : p \in Places(meta.codeStart)} : t.node < meta.count}
  BY DEF CacheCurrent
<1>3. cache[b] # NoCache /\ Aged(b, 0) BY <1>1, <1>2, MatchIsYoung
<1>4. cache[b].cached /\ cache[b].key = meta BY DEF CacheMatches
<1>5. ~Stale BY DEF Stale, Marking
<1>6. FlagsRight(cache[b]) BY <1>3, <1>5 DEF Aged
<1>7. /\ KeyOk(cs, ads, meta) /\ NodesOk(cache[b]) /\ Ready(cs, cache[b], pc[b]) /\ CacheOk(cs, ads, b)
  BY <1>1, <1>3, <1>4 DEF Good, CacheOk
<1>c. PICK c : c = cache[b] OBVIOUS
<1>8. c \in CacheType(meta) /\ DOMAIN c.nodes = 0..(meta.count - 1) /\ meta.count \in Nat
      /\ c.nodes \in [0..(meta.count - 1) -> Loaded]
  BY <1>2, <1>3, <1>4, <1>7, <1>c, TypedCache
<1>9. \A n \in 0..(meta.count - 1) : c.nodes[n] # NotLoaded BY <1>4, <1>7, <1>c DEF Ready
<1>10. /\ page \in Seq(PageType) /\ Chained(page, cs, ads) /\ meta.count <= Total(page, cs) /\ meta.count # 0
       /\ meta.codeStart = Start(cs)
  <2>1. page \in Seq(PageType) /\ Chained(page, cs, ads) /\ Placed(cs, ads) BY <1>1, <1>2 DEF Good, Typed
  <2>2. meta.count <= Total(page, cs) BY <1>8, <2>1 DEF Placed
  <2> QED BY <1>7, <2>1, <2>2 DEF KeyOk
<1>11. Places(meta.codeStart) = CodeSpots
  <2>1. IsChain(page, cs, "code") BY <1>10 DEF Chained
  <2> QED BY <1>10, <2>1, PlacesAre DEF CodeSpots
<1>12. ASSUME NEW p \in CodeSpots, At(page, p).node < meta.count
       PROVE  At(page, p).node \in 0..(meta.count - 1) /\ c.nodes[At(page, p).node] = At(page, p)
  <2>t. PICK t, n : t = At(page, p) /\ n = t.node OBVIOUS
  <2>1. t \in CodeType /\ n \in Nat BY <1>2, <2>t, CodeTids
  <2>2. n \in 0..(meta.count - 1) BY <1>8, <1>12, <2>1, <2>t
  <2>3. c.nodes[n] # NotLoaded /\ c.nodes[n] \in Loaded BY <1>8, <1>9, <2>2
  <2>4. c.nodes[n].node = n /\ c.nodes[n].tid = t.tid /\ c.nodes[n].row = t.row BY <1>4, <1>7, <1>12, <1>c, <2>3, <2>t DEF NodesOk
  <2>5. c.nodes[n].dead = t.dead BY <1>4, <1>6, <1>12, <1>c, <2>3, <2>t DEF FlagsRight
  <2>u. PICK u : u = c.nodes[n] OBVIOUS
  <2>6. u = [node |-> u.node, tid |-> u.tid, row |-> u.row, dead |-> u.dead] BY <2>3, <2>u DEF Loaded
  <2>7. t = [node |-> t.node, tid |-> t.tid, row |-> t.row, dead |-> t.dead] BY <2>1 DEF CodeType
  <2>8. u = t BY <2>4, <2>5, <2>6, <2>7, <2>t, <2>u
  <2> QED BY <2>2, <2>8, <2>t, <2>u
<1>13. ASSUME NEW n \in 0..(meta.count - 1) PROVE \E p \in CodeSpots : At(page, p).node = n
  <2>1. n \in Nat /\ n < Total(page, cs)
    <3>1. Total(page, cs) \in Nat BY <1>10, PagesOfNodes
    <3> QED BY <1>8, <1>10, <3>1
  <2> QED BY <1>10, <2>1, NodeIsThere DEF CodeSpots
<1>14. {c.nodes[n] : n \in DOMAIN c.nodes} = {t \in {At(page, p) : p \in CodeSpots} : t.node < meta.count}
  <2>1. ASSUME NEW n \in 0..(meta.count - 1)
        PROVE  \E p \in CodeSpots : At(page, p).node < meta.count /\ c.nodes[n] = At(page, p)
    <3>1. PICK p \in CodeSpots : At(page, p).node = n BY <1>13
    <3>2. n < meta.count BY <1>8
    <3> QED BY <1>12, <3>1, <3>2
  <2> QED BY <1>8, <1>12, <2>1
<1> QED BY <1>11, <1>14, <1>c DEF TupleAt, At

\* A cache that would be used has the heap TIDs and the dead flags that the
\* code pages have, unless VACUUM is marking (TqGraphCacheMatches), in every
\* behaviour in which the generation is raised for what VACUUM changes: none
\* stops before (tqgraphbulkdelete), and the 16 bits do not come round.
THEOREM CachesHold == Spec /\ Orderly => []CacheCurrent
<1>1. Inv /\ FewVacuums => CacheCurrent BY CachesFit
<1>2. FewVacuums => FewVacuums' BY DEF FewVacuums
<1> QED BY <1>1, <1>2, Invariance, PTL DEF Orderly

LEMMA ScansFit == ASSUME Inv PROVE RightRow /\ ScanComplete
<1>1. PICK cs, ads : Good(cs, ads) BY DEF Inv
<1>2. ASSUME NEW b \in Backends, pc[b] = "done"
      PROVE  /\ op[b].due \subseteq op[b].ret
             /\ \A x \in op[b].ret, y \in op[b].snap : x[1] = y[1] => x = y
  <2>1. Typed /\ ScanOk(b) BY <1>1 DEF Inv, Good
  <2>2. op[b].kind = "scan" BY <1>2, <2>1, KindsOf
  <2> QED BY <1>2, <2>1, <2>2 DEF ScanOk
<1> QED BY <1>2 DEF RightRow, ScanComplete

\* A row that a scan returns at the TID of a row of its snapshot is that row,
\* also when VACUUM has freed the TID of another row and the heap has used it
\* again (TqGraphCollectResults), in every behaviour in which no statement
\* stops between its pages and the metapage.  For VACUUM the hypothesis
\* cannot be dropped: run tq_cancelled_vacuum.
THEOREM RowsRight == Spec /\ Orderly => []RightRow
BY Invariance, ScansFit, PTL

\* A scan returns every row of its snapshot: no code page is missed behind
\* other pages, no node is hidden by the cache (TqGraphLoadCodePage).  Under
\* the same hypothesis: a code tuple that an insert leaves behind uncounted
\* moves later ones to a page that is not read.
THEOREM ScansComplete == Spec /\ Orderly => []ScanComplete
BY Invariance, ScansFit, PTL

LEMMA LinksFit == ASSUME Inv PROVE LinksOk
<1>1. PICK cs, ads : Good(cs, ads) BY DEF Inv
<1>2. Lists /\ page \in Seq(PageType) BY <1>1 DEF Inv, Good, Typed
<1> SUFFICES ASSUME NEW k \in 1..Len(page), page[k].kind = "adj", NEW i \in 1..Len(page[k].tup)
             PROVE  LET t == page[k].tup[i] IN
                      /\ Cardinality(t.nbrs) <= LevelM(t.level)
                      /\ \A n \in t.nbrs : n # t.node /\ n <= meta.count /\ NodeLevel[n] >= t.level
  BY DEF LinksOk
<1>3. page[k] \in PageType BY <1>2, ElementOfSeq
<1>4. Len(page[k].tup) \in Nat BY <1>3, PageIs
<1>p. PICK p : p = <<k, i>> OBVIOUS
<1>5. p \in AdjSpots /\ At(page, p) = page[k].tup[i] BY <1>4, <1>p DEF AdjSpots, Spots, At
<1>6. ListOk(At(page, p).node, At(page, p).level, At(page, p).nbrs) BY <1>2, <1>5 DEF Lists
<1> QED BY <1>5, <1>6 DEF ListOk

\* A list has at most LevelM neighbors, all of its level and none the node
\* itself, also when VACUUM repairs it between the steps of an insert
\* (TqGraphUpdateReciprocalNeighbor, TqGraphRepairAdjacencyForDeadNodes).
THEOREM LinksHold == Spec /\ Orderly => []LinksOk
BY Invariance, LinksFit, PTL
=============================================================================
