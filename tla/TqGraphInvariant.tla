------------------------- MODULE TqGraphInvariant -------------------------
(***************************************************************************)
(* What is true of TqGraph in every state, for any number of backends,     *)
(* TIDs, rows and statements (Inv): where tuples are, what the caches of   *)
(* the backends have of them and how old they are, and what this means for *)
(* scans.  Orderly is what it needs of a behaviour: no statement fails     *)
(* while its pages and the metapage disagree, and the generation does not  *)
(* come round.  The lemmas say what a step changes of Inv, and that the    *)
(* steps of scans and of loading a cache keep it; TqGraphProofs has the    *)
(* other steps.                                                            *)
(***************************************************************************)
EXTENDS TqGraph, NatOrder, FiniteSetTheorems, SequenceTheorems

Wide == 2^16

-----------------------------------------------------------------------------
(* The inductive invariant                                                 *)

InsertPcs == {"loadCode", "loadAdj", "select", "link", "code", "adj", "meta"}
ScanPcs   == {"scan", "loadCode", "loadAdj", "collect", "done"}
Marking   == pc[Vacuum] \in {"vacCode", "vacAdj", "vacEnd"}
Version   == Tids \X Nat

CodeType == [node : Nat, tid : Tids, row : Nat, dead : BOOLEAN]
AdjType  == [node : Nat, level : Nat, nbrs : SUBSET Nat]
PageType == [kind : {"code"}, next : Nat, tup : Seq(CodeType)]
              \cup [kind : {"adj"}, next : Nat, tup : Seq(AdjType)]
MetaType == [gen : 0..(Wide - 1), count : Nat, entry : Nat, maxLevel : Nat,
             codeStart : Nat, adjStart : Nat]
HeapType == [row : Nat, state : {"free", "inserting", "live", "dead"}, indexed : BOOLEAN]
Counters == [new : Nat, scans : Nat, deletes : Nat, vacuums : Nat, cancels : Nat]
ScanOp   == [kind : {"scan"}, snap : SUBSET Version, ret : SUBSET Version, due : SUBSET Version]
InsertOp == [kind : {"insert"}, tid : Tids, meta : MetaType, todo : SUBSET (Nat \X Nat),
             sel : [0..NodeLevel[meta.count] -> SUBSET Nat], loc : Seq(Nat \X Nat),
             codeStart : Nat, adjStart : Nat]
VacOp    == [dead : SUBSET Tids, meta : MetaType, nodes : SUBSET Nat, changed : BOOLEAN,
             blk : Nat, pageNo : Nat, nblocks : Nat]
Loaded   == [node : Nat, tid : Tids \cup {Nil}, row : Nat, dead : BOOLEAN]
AdjCell  == [nbrs : SUBSET Nat, blk : Nat, off : Nat]
CacheType(m) ==
  [key : MetaType, cached : BOOLEAN, pageNo : Nat, mapped : BOOLEAN, adjBlk : Nat,
   nodes : [0..(m.count - 1) -> Loaded], adj : [0..(m.count - 1) -> [0..TopLevel -> AdjCell]]]

OpTyped(b) ==
  \/ pc[b] = "idle" /\ op[b] = NoOp
  \/ pc[b] \in InsertPcs /\ op[b] \in InsertOp
  \/ pc[b] \in ScanPcs /\ op[b] \in ScanOp
VacTyped ==
  \/ pc[Vacuum] = "idle" /\ vac = NoVacuum
  \/ pc[Vacuum] \in {"vacLock", "vacCode", "vacAdj", "vacEnd"} /\ vac \in VacOp
CacheTyped(b) == cache[b] = NoCache \/ cache[b] \in CacheType(cache[b].key)
Typed ==
  /\ page \in Seq(PageType) /\ meta \in MetaType /\ heap \in [Tids -> HeapType] /\ rows \in Nat
  /\ cache = [b \in Backends |-> cache[b]] /\ op = [b \in Backends |-> op[b]]
  /\ pc = [p \in Backends \cup {Vacuum} |-> pc[p]] /\ bounds \in Counters
  /\ VacTyped /\ \A b \in Backends : OpTyped(b) /\ CacheTyped(b)

\* One insert at a time; scans and VACUUM keep apart; there are node ids left
Turns ==
  /\ \A a, b \in Backends : Inserting(a) /\ Inserting(b) => a = b
  /\ Marking => \A b \in Backends : ~Scanning(b)
  /\ meta.count <= rows /\ rows <= NBuilt + bounds.new /\ bounds.new <= MaxNew
  /\ bounds.vacuums <= MaxVacuums /\ (pc[Vacuum] # "idle" => bounds.vacuums # 0)
  /\ \A b \in Backends : Inserting(b) => meta.count < rows

\* The pages of a kind are one chain, in the order of their numbers
Blocks == 1..Len(page)
Start(s) == IF s = <<>> THEN Nil ELSE s[1]
IsChain(P, s, kind) ==
  /\ s \in Seq(1..Len(P))
  /\ \A i, j \in 1..Len(s) : i < j => s[i] < s[j]
  /\ \A b \in 1..Len(P) : P[b].kind = kind <=> \E j \in 1..Len(s) : s[j] = b
  /\ \A j \in 1..Len(s) : P[s[j]].next = IF j = Len(s) THEN Nil ELSE s[j + 1]
Cap(kind) == IF kind = "code" THEN CodeCap ELSE AdjCap
Sized(P) == \A b \in 1..Len(P) : Len(P[b].tup) \in 1..Cap(P[b].kind)

\* Code tuples are in the order of their nodes, and pages before the last full
Numbered(P, cs) ==
  \A j \in 1..Len(cs) :
    /\ j < Len(cs) => Len(P[cs[j]].tup) = CodeCap
    /\ \A i \in 1..Len(P[cs[j]].tup) : P[cs[j]].tup[i].node = (j - 1) * CodeCap + i - 1
Total(P, cs) == IF cs = <<>> THEN 0 ELSE (Len(cs) - 1) * CodeCap + Len(P[cs[Len(cs)]].tup)
Chained(P, cs, ads) == IsChain(P, cs, "code") /\ IsChain(P, ads, "adj") /\ Sized(P) /\ Numbered(P, cs)

Spots(P, kind) == {p \in Nat \X Nat : /\ p[1] \in 1..Len(P) /\ P[p[1]].kind = kind
                                      /\ p[2] \in 1..Len(P[p[1]].tup)}
At(P, p) == P[p[1]].tup[p[2]]
CodeSpots == Spots(page, "code")
AdjSpots  == Spots(page, "adj")

\* Every node has its adjacency tuples; the insert that writes has some of them
Writing(b) == pc[b] \in {"adj", "meta"}
AdjOf(n, l) == n < meta.count /\ n \in NodeIds /\ l <= NodeLevel[n]
AdjNew(n, l) == \E b \in Backends : Writing(b) /\ n = meta.count /\ l < Len(op[b].loc)
Placed(cs, ads) ==
  /\ Total(page, cs) = IF \E b \in Backends : Writing(b) THEN meta.count + 1 ELSE meta.count
  /\ \A p, q \in AdjSpots :
       /\ At(page, p).node = At(page, q).node /\ At(page, p).level = At(page, q).level
       => p = q
  /\ \A n, l \in Nat : AdjOf(n, l) \/ AdjNew(n, l) <=>
       \E p \in AdjSpots : At(page, p).node = n /\ At(page, p).level = l
  /\ meta.codeStart = IF meta.count = 0 THEN Nil ELSE Start(cs)
  /\ meta.adjStart = IF meta.count = 0 THEN Nil ELSE Start(ads)

\* The levels and the entry of the metapage
Levels(m) ==
  /\ m.maxLevel <= TopLevel /\ \A n \in NodeIds : n < m.count => NodeLevel[n] <= m.maxLevel
  /\ m.entry = NoNode \/ m.entry < m.count
  /\ m.count # 0 => m.entry # NoNode

\* Links lead to other nodes of their level; the next node may have some
ListOk(n, l, S) ==
  /\ S \subseteq NodeIds /\ Cardinality(S) <= LevelM(l)
  /\ \A x \in S : x # n /\ x <= meta.count /\ NodeLevel[x] >= l
Lists == \A p \in AdjSpots : LET t == At(page, p) IN ListOk(t.node, t.level, t.nbrs)

\* A node that is not dead is of the row at its TID, and a row that is live
\* has one
HasNode(t, r, n) == \E p \in CodeSpots : LET c == At(page, p) IN
                      c.tid = t /\ c.row = r /\ ~c.dead /\ c.node < n
HeapOk ==
  /\ \A t \in Tids : heap[t].row <= rows
  /\ \A p \in CodeSpots : LET c == At(page, p) IN
       ~c.dead => heap[c.tid].row = c.row /\ heap[c.tid].state # "free"
  /\ \A t \in Tids : heap[t].state = "live" /\ heap[t].indexed => HasNode(t, heap[t].row, meta.count)

\* VACUUM has marked the nodes of the pages behind it
VacOk(cs, ads) ==
  pc[Vacuum] # "idle" =>
    /\ vac.meta.count # 0 /\ vac.meta.count <= meta.count
    /\ vac.meta.codeStart = Start(cs) /\ vac.meta.adjStart = Start(ads)
    /\ \A t \in vac.dead : heap[t].state = "dead"
    /\ \A p \in CodeSpots : LET c == At(page, p) IN
         /\ c.node >= vac.meta.count => c.dead \/ c.tid \notin vac.dead
         /\ pc[Vacuum] = "vacCode" /\ c.node < vac.meta.count => p[1] <= vac.nblocks
         /\ pc[Vacuum] = "vacCode" /\ c.node < vac.pageNo * CodeCap => c.dead \/ c.tid \notin vac.dead
         /\ pc[Vacuum] \in {"vacAdj", "vacEnd"} => c.dead \/ c.tid \notin vac.dead
    /\ pc[Vacuum] = "vacLock" => ~vac.changed /\ vac.pageNo = 0 /\ vac.blk = Start(cs)
    /\ pc[Vacuum] = "vacCode" => /\ vac.pageNo < Len(cs) /\ vac.blk = cs[vac.pageNo + 1]
                                 /\ vac.pageNo * CodeCap < vac.meta.count
    /\ pc[Vacuum] = "vacAdj" => vac.blk \in Blocks /\ page[vac.blk].kind = "adj"

\* The insert of backend b: what it has read is still so, but for the
\* generation; the neighbors it has selected, and what it has written
UsesCache(b) == Inserting(b) /\ op[b].meta.count # 0
InsertOk(cs, ads, b) ==
  LET i == op[b] IN
  Inserting(b) =>
    /\ heap[i.tid].state = "inserting" /\ heap[i.tid].indexed
    /\ meta = [i.meta EXCEPT !.gen = meta.gen]
    /\ i.codeStart = Start(cs) /\ i.adjStart = Start(ads)
    /\ \A l \in 0..NodeLevel[meta.count] :
         /\ Cardinality(i.sel[l]) <= LevelM(l)
         /\ \A n \in i.sel[l] : n < meta.count /\ NodeLevel[n] >= l
    /\ \A x \in i.todo : x[1] \in 0..NodeLevel[meta.count] /\ x[2] \in i.sel[x[1]]
    /\ pc[b] = "link" => i.todo # {}
    /\ Len(i.loc) <= NodeLevel[meta.count] + 1
    /\ ~Writing(b) => i.loc = <<>>
    /\ pc[b] = "adj" => Len(i.loc) <= NodeLevel[meta.count]
    /\ pc[b] = "meta" => Len(i.loc) = NodeLevel[meta.count] + 1
    /\ \A l \in 1..Len(i.loc) : /\ i.loc[l] \in AdjSpots /\ At(page, i.loc[l]).node = meta.count
                                /\ At(page, i.loc[l]).level = l - 1
    /\ Writing(b) => \A p \in CodeSpots : LET c == At(page, p) IN
         c.node = meta.count => c.tid = i.tid /\ c.row = heap[i.tid].row /\ ~c.dead
    /\ meta.count = 0 => pc[b] \in {"code", "adj", "meta"}
    /\ UsesCache(b) => cache[b] # NoCache /\ cache[b].key = i.meta

\* The cache of backend b.  Its age is how often VACUUM has raised the
\* generation since its key was read, with one more if an insert has written
\* its node into it; a cache of age 0 has the dead flags of the pages, except
\* for those VACUUM is setting.
Vacs == IF pc[Vacuum] = "idle" THEN bounds.vacuums ELSE bounds.vacuums - 1
Stale == Marking /\ vac.changed
\* No insert fails between its code tuple and the metapage that counts it, and
\* no VACUUM between the first page it changes and the new generation; with
\* 16 bits, fewer than 65535 VACUUM runs leave every generation a new one
Whole ==
  \A p \in Backends \cup {Vacuum} : Cancel(p) => IF p = Vacuum THEN ~Stale ELSE ~Writing(p)
FewVacuums == MaxVacuums < Wide - 1
Orderly == FewVacuums /\ [][Whole]_vars
FlagsRight(c) ==
  \A p \in CodeSpots : LET n == At(page, p).node IN
    n < c.key.count /\ c.nodes[n] # NotLoaded => c.nodes[n].dead = At(page, p).dead
Aged(b, k) ==
  LET c == cache[b] IN
  /\ k <= IF UsesCache(b) THEN Vacs ELSE Vacs + 1
  /\ meta.gen = (c.key.gen + k + (meta.count - c.key.count)) % Wide
  /\ k = 0 /\ ~Stale => FlagsRight(c)
NodesOk(c) ==
  \A p \in CodeSpots : LET t == At(page, p) IN
    t.node < c.key.count =>
      \/ c.nodes[t.node] = NotLoaded
      \/ /\ c.nodes[t.node].node = t.node /\ c.nodes[t.node].tid = t.tid
         /\ c.nodes[t.node].row = t.row /\ (c.nodes[t.node].dead => t.dead)
CellsOk(c) ==
  \A n \in 0..(c.key.count - 1), l \in 0..TopLevel :
    LET a == c.adj[n][l] IN
    /\ ListOk(n, l, a.nbrs)
    /\ a.blk # Nil => /\ <<a.blk, a.off>> \in AdjSpots /\ At(page, <<a.blk, a.off>>).node = n
                      /\ At(page, <<a.blk, a.off>>).level = l
Reached(c, B) ==
  \A p \in AdjSpots : LET t == At(page, p) IN
    p[1] \in B /\ t.node < c.key.count => c.adj[t.node][t.level].blk # Nil
Ready(cs, c, label) ==
  /\ c.cached <=> label \notin {"loadCode", "loadAdj"}
  /\ label = "loadCode" =>
       /\ c.pageNo * CodeCap < c.key.count /\ c.adjBlk = c.key.adjStart
       /\ \A n \in 0..(c.key.count - 1) : n < c.pageNo * CodeCap => c.nodes[n] # NotLoaded
       /\ ~c.mapped => \A j \in 1..c.pageNo : cs[j] = c.key.codeStart + j - 1
  /\ label # "loadCode" => \A n \in 0..(c.key.count - 1) : c.nodes[n] # NotLoaded
  /\ label = "loadAdj" => /\ c.adjBlk \in Blocks /\ page[c.adjBlk].kind = "adj"
                          /\ Reached(c, 1..(c.adjBlk - 1))
  /\ c.cached => Reached(c, Blocks)
KeyOk(cs, ads, m) ==
  /\ m.count # 0 /\ m.count <= meta.count /\ Levels(m)
  /\ m.codeStart = Start(cs) /\ m.adjStart = Start(ads)
CacheOk(cs, ads, b) ==
  cache[b] # NoCache =>
    /\ KeyOk(cs, ads, cache[b].key)
    /\ NodesOk(cache[b]) /\ CellsOk(cache[b]) /\ Ready(cs, cache[b], pc[b])
    /\ \E k \in Nat : Aged(b, k)

\* The scan of backend b
SnapOk(b) ==
  \A y \in op[b].snap : /\ heap[y[1]].row = y[2] /\ heap[y[1]].state \in {"live", "dead"}
                        /\ pc[Vacuum] # "idle" => y[1] \notin vac.dead
DueOk(b, n) == \A y \in op[b].due : HasNode(y[1], y[2], n)
ScanOk(b) ==
  op[b].kind = "scan" =>
    /\ SnapOk(b) /\ op[b].due \subseteq op[b].snap /\ (pc[b] # "done" => op[b].ret = {})
    /\ pc[b] = "scan" => DueOk(b, meta.count)
    /\ Scanning(b) => cache[b] # NoCache /\ DueOk(b, cache[b].key.count) /\ Aged(b, 0)
    /\ pc[b] = "done" => /\ op[b].due \subseteq op[b].ret
                         /\ \A x \in op[b].ret, y \in op[b].snap : x[1] = y[1] => x = y

Good(cs, ads) ==
  /\ Chained(page, cs, ads) /\ Placed(cs, ads) /\ Levels(meta) /\ Lists /\ HeapOk /\ VacOk(cs, ads)
  /\ \A b \in Backends : InsertOk(cs, ads, b) /\ CacheOk(cs, ads, b) /\ ScanOk(b)
Inv == Typed /\ Turns /\ \E cs, ads : Good(cs, ads)

-----------------------------------------------------------------------------
(* Constants and numbers                                                   *)

LEMMA WideIs == Wide \in Nat /\ Wide - 1 \in Int /\ 1 \in 0..(Wide - 1)
BY SMT DEF Wide

\* A generation is a number of 16 bits
LEMMA InWide ==
  ASSUME NEW g \in 0..(Wide - 1) PROVE g \in Nat /\ g < Wide /\ g = g % Wide
BY SMT DEF Wide

LEMMA Basics ==
  /\ NBuilt \in Nat /\ MaxRows \in Nat \ {0} /\ MaxNew \in Nat /\ MaxRows = NBuilt + MaxNew
  /\ NodeIds = 0..(MaxRows - 1) /\ NoNode = MaxRows /\ Nil = 0
  /\ CodeCap \in Nat \ {0} /\ AdjCap \in Nat \ {0} /\ M \in Nat \ {0}
  /\ Vacuum \notin Backends /\ Nil \notin Tids /\ NodeLevel \in [NodeIds -> Nat]
  /\ \A kind : Cap(kind) \in Nat \ {0}
<1>1. BuiltTids \in Seq(Tids) BY ConstantsAssumption
<1>2. NBuilt \in Nat BY <1>1 DEF NBuilt
<1>3. MaxRows \in Nat \ {0} BY <1>2, ConstantsAssumption DEF MaxRows
<1> QED BY <1>2, <1>3, ConstantsAssumption DEF MaxRows, Nil, NodeIds, NoNode, Cap

LEMMA TopIs == TopLevel \in Nat /\ \A n \in NodeIds : NodeLevel[n] <= TopLevel
<1>1. /\ MaxRows \in Nat /\ MaxRows # 0 /\ NodeIds = 0..(MaxRows - 1)
      /\ \A n \in NodeIds : NodeLevel[n] \in Nat
  BY Basics
<1> DEFINE T == {n \in 0..MaxRows : \E m \in Nat : \A k \in NodeIds : k < n => NodeLevel[k] <= m}
<1>2. 0 \in T
  <2>1. \A k \in NodeIds : k < 0 => NodeLevel[k] <= 0 BY <1>1
  <2> QED BY <1>1, <2>1
<1>3. ASSUME NEW n \in 0..(MaxRows - 1), n \in T PROVE n + 1 \in T
  <2>1. PICK m \in Nat : \A k \in NodeIds : k < n => NodeLevel[k] <= m BY <1>3
  <2>2. n \in NodeIds /\ NodeLevel[n] \in Nat /\ n + 1 \in 0..MaxRows BY <1>1
  <2>3. \A k \in NodeIds : k < n + 1 => k = n \/ k < n BY <1>1
  <2>4. m + NodeLevel[n] \in Nat /\ \A k \in NodeIds : k < n + 1 => NodeLevel[k] <= m + NodeLevel[n]
    BY <1>1, <2>1, <2>2, <2>3
  <2> QED BY <2>2, <2>4
<1> HIDE DEF T
<1>4. MaxRows \in T
  <2>1. 0..MaxRows \subseteq T BY ONLY <1>1, <1>2, <1>3, UpTo
  <2> QED BY <1>1, <2>1
<1>5. PICK m \in Nat : \A k \in NodeIds : k < MaxRows => NodeLevel[k] <= m BY <1>4 DEF T
<1> DEFINE D == {NodeLevel[n] : n \in NodeIds}
<1>6. D # {} /\ D \subseteq 0..m /\ D \subseteq Nat BY <1>1, <1>5
<1>7. PICK x \in D : \A y \in D : y <= x BY ONLY <1>6, m \in Nat, Greatest
<1>8. \E y \in D : \A z \in D : y >= z BY <1>6, <1>7
<1>9. TopLevel \in D /\ \A z \in D : TopLevel >= z BY <1>8 DEF TopLevel, Max
<1> QED BY <1>6, <1>9

\* Full pages
LEMMA Products ==
  ASSUME NEW a \in Nat, NEW b \in Nat, a < b
  PROVE  a * CodeCap \in Nat /\ b * CodeCap \in Nat /\ (a + 1) * CodeCap = a * CodeCap + CodeCap
         /\ (a + 1) * CodeCap <= b * CodeCap
<1>1. CodeCap \in Nat BY Basics
<1>2. PICK d \in Nat : b = a + 1 + d
  <2>1. b - a - 1 \in Nat /\ b = a + 1 + (b - a - 1) OBVIOUS
  <2> QED BY <2>1
<1>3. d * CodeCap \in Nat /\ b * CodeCap = (a + 1) * CodeCap + d * CodeCap BY <1>1, <1>2
<1> QED BY <1>1, <1>3

\* TqGraphPageCount rounds up
LEMMA PagesFor ==
  ASSUME NEW n \in Nat
  PROVE  PageCount(n) \in Nat /\ \A j \in Nat : j < PageCount(n) <=> j * CodeCap < n
<1>1. CodeCap \in Nat \ {0} BY Basics
<1>2. n + CodeCap - 1 \in Nat BY <1>1
<1>3. PICK q \in Nat : q = PageCount(n) /\ q * CodeCap <= n + CodeCap - 1
                       /\ n + CodeCap - 1 < q * CodeCap + CodeCap
  <2>1. \A x \in Nat : x \div CodeCap \in Nat BY <1>1, SMT
  <2>2. \A x \in Nat : CodeCap * (x \div CodeCap) <= x /\ x < CodeCap * (x \div CodeCap) + CodeCap
    BY <1>1, SMT
  <2>3. PageCount(n) = (n + CodeCap - 1) \div CodeCap BY DEF PageCount
  <2>4. PICK q \in Nat : q = (n + CodeCap - 1) \div CodeCap BY <1>2, <2>1
  <2>5. CodeCap * q <= n + CodeCap - 1 /\ n + CodeCap - 1 < CodeCap * q + CodeCap BY <1>2, <2>2, <2>4
  <2>6. CodeCap * q = q * CodeCap BY <1>1, SMT
  <2> QED BY <2>3, <2>4, <2>5, <2>6
<1>4. ASSUME NEW j \in Nat PROVE j < q <=> j * CodeCap < n
  <2>1. CASE j < q
    <3>1. j * CodeCap \in Nat /\ q * CodeCap \in Nat /\ j * CodeCap + CodeCap <= q * CodeCap BY <2>1, Products
    <3> QED BY <1>1, <1>3, <2>1, <3>1
  <2>2. CASE ~(j < q)
    <3>1. j * CodeCap \in Nat /\ q * CodeCap \in Nat /\ q * CodeCap <= j * CodeCap
      <4>1. CASE q = j BY <1>1, <4>1
      <4>2. CASE q < j
        <5>1. q * CodeCap + CodeCap <= j * CodeCap /\ q * CodeCap \in Nat /\ j * CodeCap \in Nat BY <4>2, Products
        <5> QED BY <1>1, <5>1
      <4> QED BY <2>2, <4>1, <4>2
    <3> QED BY <1>1, <1>3, <2>2, <3>1
  <2> QED BY <2>1, <2>2
<1> QED BY <1>3, <1>4

\* The generation has come round only after Wide steps
LEMMA GenerationsDiffer ==
  ASSUME NEW g \in 0..(Wide - 1), NEW k \in Nat, k < Wide, g = (g + k) % Wide PROVE k = 0
BY SMT DEF Wide

\* Steps add up, whether or not they were reduced in between
LEMMA StepsAdd ==
  ASSUME NEW x \in Nat, NEW j \in Nat, NEW v, v = x % Wide PROVE (v + j) % Wide = (x + j) % Wide
BY SMT DEF Wide

\* Bump is a step of one, from 0 as well
LEMMA NextGeneration ==
  ASSUME NEW g \in 0..(Wide - 1), NEW x \in Nat, g = x % Wide
  PROVE  Bump(g) \in 0..(Wide - 1) /\ Bump(g) = (x + 1) % Wide
BY SMT DEF Wide, Bump

-----------------------------------------------------------------------------
(* Chains of pages                                                         *)

\* A chain has no more pages than there are
LEMMA ChainLength ==
  ASSUME NEW n \in Nat, NEW s \in Seq(1..n), \A i, j \in 1..Len(s) : i < j => s[i] < s[j]
  PROVE  Len(s) <= n /\ \A j \in 1..Len(s) : j <= s[j]
<1>0. Len(s) \in Nat /\ \A j \in 1..Len(s) : s[j] \in 1..n OBVIOUS
<1> DEFINE T == {j \in 0..Len(s) : j # 0 => j <= s[j]}
<1>1. 0 \in T BY <1>0
<1>2. ASSUME NEW j \in 0..(Len(s) - 1), j \in T PROVE j + 1 \in T
  <2>1. j + 1 \in 1..Len(s) /\ s[j + 1] \in 1..n BY <1>0
  <2>2. CASE j = 0 BY <1>0, <2>1, <2>2
  <2>3. CASE j # 0
    <3>1. j \in 1..Len(s) /\ s[j] \in 1..n /\ j <= s[j] /\ s[j] < s[j + 1] BY <1>0, <1>2, <2>1, <2>3
    <3> QED BY <1>0, <2>1, <3>1
  <2> QED BY <2>2, <2>3
<1> HIDE DEF T
<1>3. 0..Len(s) \subseteq T BY ONLY <1>0, <1>1, <1>2, UpTo
<1>4. \A j \in 1..Len(s) : j <= s[j] BY <1>0, <1>3 DEF T
<1>5. Len(s) <= n
  <2>1. CASE Len(s) = 0 BY <1>0, <2>1
  <2>2. CASE Len(s) # 0
    <3>1. Len(s) \in 1..Len(s) BY <1>0, <2>2
    <3> QED BY <1>0, <1>4, <3>1
  <2> QED BY <2>1, <2>2
<1> QED BY <1>4, <1>5

\* Following nextblkno from the first page of a chain finds the chain
Follow(P, c) == IF c = <<>> \/ P[c[Len(c)]].next = Nil THEN c ELSE Append(c, P[c[Len(c)]].next)
Followed(P, start, n, H) ==
  /\ H[0] = IF start = Nil THEN <<>> ELSE <<start>>
  /\ \A i \in 0..(n - 1) : H[i + 1] = Follow(P, H[i])
  /\ H[n] = ChainOf(P, start)
LEMMA FollowedChain ==
  ASSUME NEW P, NEW start, Len(P) \in Nat, NEW S, \A c \in S : Follow(P, c) \in S,
         (IF start = Nil THEN <<>> ELSE <<start>>) \in S
  PROVE  \E H : Followed(P, start, Len(P), H)
<1>n. PICK n : n = Len(P) OBVIOUS
<1>a. PICK a : a = IF start = Nil THEN <<>> ELSE <<start>> OBVIOUS
<1> DEFINE G(H) == [i \in 0..Len(P) |->
                      IF i = 0 THEN IF start = Nil THEN <<>> ELSE <<start>>
                      ELSE LET c == H[i - 1]
                           IN IF c = <<>> \/ P[c[Len(c)]].next = Nil THEN c
                              ELSE Append(c, P[c[Len(c)]].next)]
<1>0. n \in Nat /\ a \in S BY <1>n, <1>a
<1>1. \E H : H = G(H)
  <2> DEFINE F == [i \in 1..n |-> [c \in S |-> Follow(P, c)]]
  <2>1. F \in Steps(n, S) BY DEF Steps
  <2> HIDE DEF F
  <2>2. PICK g : Iterates(g, n, S, a, F) BY <1>0, <2>1, Iteration
  <2>3. g \in [0..n -> S] /\ g[0] = a /\ \A i \in 1..n : g[i] = F[i][g[i - 1]] BY <2>2 DEF Iterates
  <2>4. ASSUME NEW i \in 1..n PROVE g[i] = Follow(P, g[i - 1])
    <3>1. i - 1 \in 0..n /\ g[i - 1] \in S BY <1>0, <2>3
    <3> QED BY <2>3, <3>1 DEF F
  <2>5. \A i \in 0..n : i = 0 \/ i \in 1..n BY <1>0
  <2>6. g = [i \in 0..n |-> IF i = 0 THEN a ELSE Follow(P, g[i - 1])]
    <3> HIDE DEF Follow
    <3> QED BY <1>0, <2>3, <2>4, <2>5
  <2>7. g = G(g) BY <1>n, <1>a, <2>6 DEF Follow
  <2> QED BY <2>7
<1>2. PICK H : H = G(H) /\ ChainOf(P, start) = H[Len(P)]
  <2> HIDE <1>0
  <2> QED BY <1>1, ZenonT(60) DEF ChainOf
<1>3. H = [i \in 0..n |-> IF i = 0 THEN a ELSE Follow(P, H[i - 1])] BY <1>n, <1>a, <1>2 DEF Follow
<1>4. \A i \in 0..(n - 1) : i + 1 \in 0..n /\ i + 1 # 0 /\ (i + 1) - 1 = i BY <1>0
<1>5. \A i \in 0..(n - 1) : H[i + 1] = Follow(P, H[i])
  <2> HIDE DEF Follow, G
  <2> QED BY <1>3, <1>4
<1>6. H[0] = a
  <2> HIDE DEF Follow, G
  <2> QED BY <1>0, <1>3
<1> QED BY <1>n, <1>a, <1>2, <1>5, <1>6 DEF Followed
LEMMA ChainFollowed ==
  ASSUME NEW P, Len(P) \in Nat, NEW s, NEW kind, IsChain(P, s, kind)
  PROVE  ChainOf(P, Start(s)) = s
<1>n. PICK n : n = Len(P) OBVIOUS
<1>m. PICK m : m = Len(s) OBVIOUS
<1>0. /\ s \in Seq(1..n) /\ n \in Nat /\ m \in Nat /\ m <= n /\ Nil = 0
      /\ \A j \in 1..m : s[j] \in 1..n
      /\ \A j \in 1..m : P[s[j]].next = IF j = m THEN Nil ELSE s[j + 1]
  <2>1. s \in Seq(1..n) /\ n \in Nat BY <1>n DEF IsChain
  <2>2. m \in Nat /\ \A j \in 1..m : s[j] \in 1..n BY <1>m, <2>1
  <2>3. \A i, j \in 1..Len(s) : i < j => s[i] < s[j] BY DEF IsChain
  <2>4. m <= n BY ONLY <2>1, <2>3, <1>m, ChainLength
  <2> QED BY <1>m, <2>1, <2>2, <2>4, Basics DEF IsChain
<1> DEFINE Part(k) == [j \in 1..k |-> s[j]]
           S == {Part(k) : k \in 0..m}
<1>1. \A k \in 0..m : Part(k) \in Seq(1..n) /\ Len(Part(k)) = k /\ \A j \in 1..k : Part(k)[j] = s[j]
  BY <1>0
<1>2. Part(0) = <<>> /\ Part(m) = s
  <2>1. Part(0) = <<>> BY <1>1
  <2>2. s = [j \in 1..m |-> s[j]] BY <1>0, <1>m
  <2> QED BY <2>1, <2>2
<1> HIDE DEF Part
<1>3. ASSUME NEW k \in 0..m PROVE Follow(P, Part(k)) = IF k = 0 \/ k = m THEN Part(k) ELSE Part(k + 1)
  <2>1. CASE k = 0 BY <1>2, <2>1 DEF Follow
  <2>2. CASE k # 0
    <3>1. Part(k) # <<>> /\ Part(k)[Len(Part(k))] = s[k] /\ k \in 1..m BY <1>0, <1>1, <2>2
    <3>2. CASE k = m BY <1>0, <3>1, <3>2 DEF Follow
    <3>3. CASE k # m
      <4>1. k + 1 \in 1..m /\ s[k + 1] # Nil BY <1>0, <3>1, <3>3
      <4>2. Follow(P, Part(k)) = Append(Part(k), s[k + 1]) BY <1>0, <3>1, <3>3, <4>1 DEF Follow
      <4>3. Append(Part(k), s[k + 1]) = Part(k + 1)
        <5>1. Part(k) = [j \in 1..k |-> s[j]] /\ Part(k + 1) = [j \in 1..(k + 1) |-> s[j]] BY DEF Part
        <5>2. /\ Part(k) \in Seq(1..n) /\ Part(k + 1) \in Seq(1..n) /\ s[k + 1] \in 1..n
              /\ Len(Part(k)) = k /\ Len(Part(k + 1)) = k + 1
          BY <1>0, <1>1, <4>1
        <5>3. /\ Append(Part(k), s[k + 1]) \in Seq(1..n) /\ Len(Append(Part(k), s[k + 1])) = k + 1
              /\ Append(Part(k), s[k + 1])[k + 1] = s[k + 1]
              /\ \A j \in 1..k : Append(Part(k), s[k + 1])[j] = Part(k)[j]
          BY <5>2, AppendProperties
        <5>4. \A j \in 1..(k + 1) : Append(Part(k), s[k + 1])[j] = Part(k + 1)[j]
          BY <5>1, <5>3
        <5> QED BY <5>2, <5>3, <5>4, SeqEqual
      <4> QED BY <2>2, <3>3, <4>2, <4>3
    <3> QED BY <3>2, <3>3
  <2> QED BY <2>1, <2>2
<1>4. \A c \in S : Follow(P, c) \in S
  <2> TAKE c \in S
  <2>1. PICK k \in 0..m : c = Part(k) OBVIOUS
  <2>2. k # 0 /\ k # m => k + 1 \in 0..m BY <1>0
  <2> QED BY <1>3, <2>1, <2>2
<1>5. (IF Start(s) = Nil THEN <<>> ELSE <<Start(s)>>) = Part(IF m = 0 THEN 0 ELSE 1)
  <2>1. CASE m = 0 BY <1>0, <1>2, <1>m, <2>1 DEF Start
  <2>2. CASE m # 0
    <3>1. s # <<>> /\ Start(s) = s[1] /\ s[1] # Nil BY <1>0, <1>m, <2>2 DEF Start
    <3>2. Part(1) = <<s[1]>> BY <1>0, <1>1, <2>2 DEF Part
    <3> QED BY <2>2, <3>1, <3>2
  <2> QED BY <2>1, <2>2
<1>6. PICK H : Followed(P, Start(s), n, H)
  <2>1. (IF Start(s) = Nil THEN <<>> ELSE <<Start(s)>>) \in S BY <1>0, <1>5
  <2>2. Len(P) \in Nat OBVIOUS
  <2> HIDE DEF S
  <2>3. \E H : Followed(P, Start(s), Len(P), H) BY ONLY <1>4, <2>1, <2>2, FollowedChain
  <2> QED BY <1>n, <2>3
<1>7. /\ H[0] = Part(IF m = 0 THEN 0 ELSE 1) /\ H[n] = ChainOf(P, Start(s))
      /\ \A i \in 0..(n - 1) : H[i + 1] = Follow(P, H[i])
  BY <1>5, <1>6 DEF Followed
<1> DEFINE T == {i \in 0..n : H[i] = Part(IF i + 1 <= m THEN i + 1 ELSE m)}
<1>8. 0 \in T
  <2>1. (IF m = 0 THEN 0 ELSE 1) = (IF 0 + 1 <= m THEN 0 + 1 ELSE m) BY <1>0
  <2> QED BY <1>0, <1>7, <2>1
<1>9. ASSUME NEW i \in 0..(n - 1), i \in T PROVE i + 1 \in T
  <2>1. i + 1 \in 0..n /\ H[i + 1] = Follow(P, H[i]) BY <1>0, <1>7
  <2>2. CASE i + 1 <= m
    <3>1. i + 1 \in 0..m /\ i + 1 # 0 /\ H[i] = Part(i + 1) BY <1>0, <1>9, <2>2
    <3>2. CASE i + 1 = m BY <1>0, <1>3, <2>1, <3>1, <3>2
    <3>3. CASE i + 1 # m BY <1>0, <1>3, <2>1, <2>2, <3>1, <3>3
    <3> QED BY <3>2, <3>3
  <2>3. CASE ~(i + 1 <= m)
    <3>1. H[i] = Part(m) /\ m \in 0..m /\ ~(i + 1 + 1 <= m) BY <1>0, <1>9, <2>3
    <3> QED BY <1>3, <2>1, <3>1
  <2> QED BY <2>2, <2>3
<1> HIDE DEF T, S
<1>10. 0..n \subseteq T BY ONLY <1>0, <1>8, <1>9, UpTo
<1>11. H[n] = Part(m)
  <2>1. n \in T BY <1>0, <1>10
  <2>2. H[n] = Part(IF n + 1 <= m THEN n + 1 ELSE m) BY <2>1 DEF T
  <2>3. ~(n + 1 <= m) BY <1>0
  <2> QED BY <2>2, <2>3
<1> QED BY <1>2, <1>7, <1>11

LEMMA LastOfChain ==
  ASSUME NEW P, Len(P) \in Nat, NEW s, NEW kind, IsChain(P, s, kind), s # <<>>
  PROVE  /\ Start(s) # Nil /\ LastBlock(P, Start(s)) = s[Len(s)] /\ s[Len(s)] \in 1..Len(P)
         /\ P[s[Len(s)]].kind = kind /\ Len(s) \in 1..Len(s)
<1>1. s \in Seq(1..Len(P)) BY DEF IsChain
<1>2. Len(s) \in 1..Len(s) /\ 1 \in 1..Len(s)
  <2>1. Len(s) \in Nat /\ Len(s) # 0 BY <1>1
  <2> QED BY <2>1
<1>3. s[Len(s)] \in 1..Len(P) /\ s[1] \in 1..Len(P) BY <1>1, <1>2
<1>4. ChainOf(P, Start(s)) = s BY ChainFollowed
<1>5. P[s[Len(s)]].kind = kind BY <1>2, <1>3 DEF IsChain
<1> QED BY <1>2, <1>3, <1>4, <1>5, Basics DEF LastBlock, Start

-----------------------------------------------------------------------------
(* TqGraphAppendTuple                                                      *)

TupleType(kind) == IF kind = "code" THEN CodeType ELSE AdjType
Kinds == {"code", "adj"}
LEMMA PageIs ==
  ASSUME NEW p \in PageType
  PROVE  p.kind \in Kinds /\ p.next \in Nat /\ p.tup \in Seq(TupleType(p.kind)) /\ Len(p.tup) \in Nat
<1>1. CASE p \in [kind : {"code"}, next : Nat, tup : Seq(CodeType)] BY <1>1 DEF TupleType, Kinds
<1>2. CASE p \in [kind : {"adj"}, next : Nat, tup : Seq(AdjType)] BY <1>2 DEF TupleType, Kinds
<1> QED BY <1>1, <1>2 DEF PageType
LEMMA PageMade ==
  ASSUME NEW kind \in Kinds, NEW next \in Nat, NEW tup \in Seq(TupleType(kind))
  PROVE  [kind |-> kind, next |-> next, tup |-> tup] \in PageType
BY DEF Kinds, PageType, TupleType

\* A tuple more on page l, or a page more behind page l
PutOn(P, Q, l, tup) ==
  /\ Q \in Seq(PageType) /\ Len(Q) = Len(P)
  /\ \A b \in 1..Len(P) : Q[b].kind = P[b].kind /\ Q[b].next = P[b].next
  /\ \A b \in 1..Len(P) : Q[b].tup = IF b = l THEN Append(P[b].tup, tup) ELSE P[b].tup
NewOn(P, Q, l, kind, tup) ==
  /\ Q \in Seq(PageType) /\ Len(Q) = Len(P) + 1
  /\ Q[Len(P) + 1] = [kind |-> kind, next |-> Nil, tup |-> <<tup>>]
  /\ \A b \in 1..Len(P) : Q[b].kind = P[b].kind /\ Q[b].tup = P[b].tup
  /\ \A b \in 1..Len(P) : Q[b].next = IF b = l THEN Len(P) + 1 ELSE P[b].next

LongerPage(P, l, tup) == [P EXCEPT ![l].tup = Append(@, tup)]
LEMMA PutOnPage ==
  ASSUME NEW P \in Seq(PageType), NEW l \in 1..Len(P), NEW tup \in TupleType(P[l].kind),
         NEW Q, Q = LongerPage(P, l, tup)
  PROVE  PutOn(P, Q, l, tup)
<1> DEFINE pg == [kind |-> P[l].kind, next |-> P[l].next, tup |-> Append(P[l].tup, tup)]
<1>1. P[l] \in PageType BY ElementOfSeq
<1>2. P[l].kind \in Kinds /\ P[l].next \in Nat /\ P[l].tup \in Seq(TupleType(P[l].kind)) BY <1>1, PageIs
<1>3. Append(P[l].tup, tup) \in Seq(TupleType(P[l].kind)) BY <1>2
<1>4. pg \in PageType BY <1>2, <1>3, PageMade
<1>5. Q = [P EXCEPT ![l] = pg]
  <2>1. P[l] = [kind |-> P[l].kind, next |-> P[l].next, tup |-> P[l].tup] BY <1>1 DEF PageType
  <2>2. pg = [P[l] EXCEPT !.tup = Append(P[l].tup, tup)]
    <3>1. PICK r, a, s : r = P[l] /\ a = Append(r.tup, tup) /\ s = r.tup OBVIOUS
    <3>2. r = [kind |-> r.kind, next |-> r.next, tup |-> s] BY ONLY <2>1, <3>1
    <3>3. [r EXCEPT !.tup = a] = [kind |-> r.kind, next |-> r.next, tup |-> a] BY ONLY <3>2
    <3> QED BY ONLY <3>1, <3>3
  <2> HIDE DEF pg
  <2> QED BY <2>2 DEF LongerPage
<1>6. pg.kind = P[l].kind /\ pg.next = P[l].next /\ pg.tup = Append(P[l].tup, tup) OBVIOUS
<1> HIDE DEF pg
<1>7. /\ [P EXCEPT ![l] = pg] \in Seq(PageType) /\ Len([P EXCEPT ![l] = pg]) = Len(P)
      /\ \A j \in 1..Len(P) : [P EXCEPT ![l] = pg][j] = IF j = l THEN pg ELSE P[j]
  BY <1>4, ExceptSeq
<1> QED BY <1>5, <1>6, <1>7 DEF PutOn

LinkedTo(P, l) == IF l = Nil THEN P ELSE [P EXCEPT ![l].next = Len(P) + 1]
LEMMA PutOnNewPage ==
  ASSUME NEW P \in Seq(PageType), NEW l, l # Nil => l \in 1..Len(P), NEW kind \in Kinds,
         NEW tup \in TupleType(kind), NEW Q, Q = Append(LinkedTo(P, l), NewPage(kind, tup))
  PROVE  NewOn(P, Q, l, kind, tup)
<1> DEFINE n == Len(P) + 1
           F == LinkedTo(P, l)
           new == [kind |-> kind, next |-> Nil, tup |-> <<tup>>]
<1>0. n \in Nat /\ Nil = 0 /\ Len(P) \in Nat BY DEF Nil
<1>1. new \in PageType
  <2>1. <<tup>> \in Seq(TupleType(kind)) OBVIOUS
  <2> QED BY <1>0, <2>1, PageMade
<1>2. /\ F \in Seq(PageType) /\ Len(F) = Len(P)
      /\ \A b \in 1..Len(P) : F[b].kind = P[b].kind /\ F[b].tup = P[b].tup
      /\ \A b \in 1..Len(P) : F[b].next = IF b = l THEN n ELSE P[b].next
  <2>1. CASE l = Nil BY <1>0, <2>1 DEF LinkedTo
  <2>2. CASE l # Nil
    <3> DEFINE pg == [kind |-> P[l].kind, next |-> n, tup |-> P[l].tup]
    <3>1. P[l] \in PageType /\ l \in 1..Len(P) BY <2>2, ElementOfSeq
    <3>2. P[l].kind \in Kinds /\ P[l].tup \in Seq(TupleType(P[l].kind)) BY <3>1, PageIs
    <3>3. pg \in PageType /\ pg.kind = P[l].kind /\ pg.next = n /\ pg.tup = P[l].tup BY <1>0, <3>2, PageMade
    <3>4. P[l] = [kind |-> P[l].kind, next |-> P[l].next, tup |-> P[l].tup] BY <3>1 DEF PageType
    <3>5. pg = [P[l] EXCEPT !.next = n] BY <3>4
    <3> HIDE DEF pg
    <3>6. F = [P EXCEPT ![l] = pg] BY <2>2, <3>5 DEF LinkedTo
    <3>7. /\ [P EXCEPT ![l] = pg] \in Seq(PageType) /\ Len([P EXCEPT ![l] = pg]) = Len(P)
          /\ \A j \in 1..Len(P) : [P EXCEPT ![l] = pg][j] = IF j = l THEN pg ELSE P[j]
      BY <3>1, <3>3, ExceptSeq
    <3> HIDE DEF F, n
    <3> QED BY <3>3, <3>6, <3>7
  <2> QED BY <2>1, <2>2
<1>3. NewPage(kind, tup) = new BY DEF NewPage
<1> HIDE DEF F, new
<1>4. /\ Append(F, new) \in Seq(PageType) /\ Len(Append(F, new)) = Len(F) + 1
      /\ \A i \in 1..Len(F) : Append(F, new)[i] = F[i]
      /\ Append(F, new)[Len(F) + 1] = new
  BY <1>1, <1>2, AppendProperties
<1>5. Q = Append(F, new) BY <1>3 DEF F
<1> HIDE DEF n
<1> QED BY <1>2, <1>4, <1>5 DEF n, new, NewOn

\* Tuples stay where they are, and there is one more
Grew(P, Q, kind, tup, q) ==
  /\ Len(P) <= Len(Q) /\ \A b \in 1..Len(P) : Q[b].kind = P[b].kind
  /\ q \notin Spots(P, kind) /\ Spots(Q, kind) = Spots(P, kind) \cup {q}
  /\ \A k : k # kind => Spots(Q, k) = Spots(P, k)
  /\ \A k : \A p \in Spots(P, k) : At(Q, p) = At(P, p)
  /\ At(Q, q) = tup /\ q \in Nat \X Nat
LEMMA SpotsPut ==
  ASSUME NEW P \in Seq(PageType), NEW Q, NEW l \in 1..Len(P), NEW tup, PutOn(P, Q, l, tup),
         NEW q, q = <<l, Len(P[l].tup) + 1>>
  PROVE  Grew(P, Q, P[l].kind, tup, q)
<1>t. PICK t : t = P[l].tup OBVIOUS
<1>k. PICK kind : kind = P[l].kind OBVIOUS
<1>n. PICK n : n = Len(t) OBVIOUS
<1>0. Len(P) \in Nat /\ l \in Nat OBVIOUS
<1>1. n \in Nat /\ t \in Seq(TupleType(kind))
  <2>1. P[l] \in PageType BY ElementOfSeq
  <2> QED BY <2>1, <1>t, <1>k, <1>n, PageIs
<1>2. /\ Len(Append(t, tup)) = n + 1 /\ Append(t, tup)[n + 1] = tup
      /\ \A i \in 1..n : Append(t, tup)[i] = t[i]
  <2> DEFINE S == TupleType(kind) \cup {tup}
  <2>1. t \in Seq(S) BY <1>1
  <2> HIDE DEF S
  <2>2. tup \in S BY DEF S
  <2> QED BY <1>n, <2>1, <2>2, AppendProperties
<1>3. /\ Len(Q) = Len(P) /\ \A b \in 1..Len(P) : Q[b].kind = P[b].kind
      /\ \A b \in 1..Len(P) : b # l => Q[b].tup = P[b].tup
      /\ Q[l].tup = Append(t, tup)
  BY <1>t DEF PutOn
<1>4. q \in Nat \X Nat /\ q[1] = l /\ q[2] = n + 1 /\ q = <<l, n + 1>> BY <1>0, <1>1, <1>t, <1>n
<1>5. \A p \in Nat \X Nat : p = <<p[1], p[2]>> /\ p[1] \in Nat /\ p[2] \in Nat OBVIOUS
<1>6. ASSUME NEW k, NEW p \in Nat \X Nat
      PROVE  p \in Spots(Q, k) <=> p \in Spots(P, k) \/ (k = kind /\ p = q)
  <2>1. CASE p[1] = l
    <3>1. p \in Spots(Q, k) <=> k = kind /\ p[2] \in 1..(n + 1) BY <1>2, <1>3, <1>k, <2>1 DEF Spots
    <3>2. p \in Spots(P, k) <=> k = kind /\ p[2] \in 1..n BY <1>k, <1>t, <1>n, <2>1 DEF Spots
    <3>3. p = q <=> p[2] = n + 1 BY <1>4, <1>5, <2>1
    <3>4. p[2] \in 1..(n + 1) <=> p[2] \in 1..n \/ p[2] = n + 1 BY <1>1, <1>5
    <3> QED BY <3>1, <3>2, <3>3, <3>4
  <2>2. CASE p[1] # l BY <1>3, <1>4, <2>2 DEF Spots
  <2> QED BY <2>1, <2>2
<1>7. \A k : Spots(Q, k) \subseteq Nat \X Nat /\ Spots(P, k) \subseteq Nat \X Nat BY DEF Spots
<1>8. Spots(Q, kind) = Spots(P, kind) \cup {q} BY <1>4, <1>6, <1>7
<1>9. ASSUME NEW k, k # kind PROVE Spots(Q, k) = Spots(P, k)
  <2>1. \A p \in Nat \X Nat : p \in Spots(Q, k) <=> p \in Spots(P, k) BY <1>6, <1>9
  <2>2. Spots(Q, k) \subseteq Nat \X Nat /\ Spots(P, k) \subseteq Nat \X Nat BY <1>7
  <2> QED BY ONLY <2>1, <2>2
<1>10. q \notin Spots(P, kind) BY <1>1, <1>4, <1>t, <1>n DEF Spots
<1>11. ASSUME NEW k, NEW p \in Spots(P, k) PROVE At(Q, p) = At(P, p)
  <2>1. p[1] \in 1..Len(P) /\ p[2] \in 1..Len(P[p[1]].tup) BY DEF Spots
  <2>2. CASE p[1] = l BY <1>2, <1>3, <1>t, <1>n, <2>1, <2>2 DEF At
  <2>3. CASE p[1] # l BY <1>3, <2>1, <2>3 DEF At
  <2> QED BY <2>2, <2>3
<1>12. At(Q, q) = tup BY <1>2, <1>3, <1>4 DEF At
<1> QED BY <1>0, <1>3, <1>4, <1>8, <1>9, <1>10, <1>11, <1>12, <1>k DEF Grew
LEMMA SpotsNew ==
  ASSUME NEW P \in Seq(PageType), NEW Q, NEW l, NEW kind, NEW tup, NewOn(P, Q, l, kind, tup),
         NEW q, q = <<Len(P) + 1, 1>>
  PROVE  Grew(P, Q, kind, tup, q)
<1>n. PICK n : n = Len(P) OBVIOUS
<1>0. n \in Nat /\ n + 1 \notin 1..n /\ 1..(n + 1) = (1..n) \cup {n + 1} BY <1>n
<1>1. /\ Len(Q) = n + 1 /\ \A b \in 1..n : Q[b].kind = P[b].kind /\ Q[b].tup = P[b].tup
      /\ Q[n + 1].kind = kind /\ Q[n + 1].tup = <<tup>>
  BY <1>n DEF NewOn
<1>2. Len(<<tup>>) = 1 /\ <<tup>>[1] = tup OBVIOUS
<1>4. q \in Nat \X Nat /\ q[1] = n + 1 /\ q[2] = 1 /\ q = <<n + 1, 1>> BY <1>0, <1>n
<1>5. \A p \in Nat \X Nat : p = <<p[1], p[2]>> /\ p[1] \in Nat /\ p[2] \in Nat OBVIOUS
<1>6. ASSUME NEW k, NEW p \in Nat \X Nat
      PROVE  p \in Spots(Q, k) <=> p \in Spots(P, k) \/ (k = kind /\ p = q)
  <2>1. CASE p[1] = n + 1
    <3>1. p \in Spots(Q, k) <=> k = kind /\ p[2] \in 1..1 BY <1>0, <1>1, <1>2, <2>1 DEF Spots
    <3>2. p \notin Spots(P, k) BY <1>0, <1>n, <2>1 DEF Spots
    <3>3. p = q <=> p[2] = 1 BY <1>4, <1>5, <2>1
    <3>4. p[2] \in 1..1 <=> p[2] = 1 BY <1>5
    <3> QED BY <3>1, <3>2, <3>3, <3>4
  <2>2. CASE p[1] # n + 1 BY <1>0, <1>1, <1>4, <1>n, <2>2 DEF Spots
  <2> QED BY <2>1, <2>2
<1>7. \A k : Spots(Q, k) \subseteq Nat \X Nat /\ Spots(P, k) \subseteq Nat \X Nat BY DEF Spots
<1>8. Spots(Q, kind) = Spots(P, kind) \cup {q} BY <1>4, <1>6, <1>7
<1>9. ASSUME NEW k, k # kind PROVE Spots(Q, k) = Spots(P, k)
  <2>1. \A p \in Nat \X Nat : p \in Spots(Q, k) <=> p \in Spots(P, k) BY <1>6, <1>9
  <2>2. Spots(Q, k) \subseteq Nat \X Nat /\ Spots(P, k) \subseteq Nat \X Nat BY <1>7
  <2> QED BY ONLY <2>1, <2>2
<1>10. q \notin Spots(P, kind) BY <1>0, <1>4, <1>n DEF Spots
<1>11. \A k : \A p \in Spots(P, k) : At(Q, p) = At(P, p) BY <1>1, <1>n DEF Spots, At
<1>12. At(Q, q) = tup BY <1>1, <1>2, <1>4 DEF At
<1> QED BY <1>0, <1>1, <1>4, <1>8, <1>9, <1>10, <1>11, <1>12, <1>n DEF Grew

\* Chains when pages keep their links, and when there is a new page
SameShape(P, Q) ==
  Len(Q) = Len(P) /\ \A b \in 1..Len(P) : Q[b].kind = P[b].kind /\ Q[b].next = P[b].next
LEMMA ShapeChain ==
  ASSUME NEW P, NEW Q, SameShape(P, Q), NEW s, NEW kind, IsChain(P, s, kind)
  PROVE  IsChain(Q, s, kind)
<1>1. s \in Seq(1..Len(P)) /\ \A j \in 1..Len(s) : s[j] \in 1..Len(P) BY DEF IsChain
<1> QED BY <1>1 DEF SameShape, IsChain
Extends(s, t) == Len(s) <= Len(t) /\ \A j \in 1..Len(s) : t[j] = s[j]
LEMMA WithPage ==
  ASSUME NEW n \in Nat, NEW s \in Seq(1..n), NEW t, t = Append(s, n + 1)
  PROVE  /\ t \in Seq(1..(n + 1)) /\ Len(t) = Len(s) + 1 /\ t[Len(t)] = n + 1 /\ Extends(s, t)
         /\ s \in Seq(1..(n + 1)) /\ Len(s) \in Nat /\ \A j \in 1..Len(s) : s[j] \in 1..n
<1>1. s \in Seq(1..(n + 1)) /\ n + 1 \in 1..(n + 1) /\ Len(s) \in Nat OBVIOUS
<1>2. /\ t \in Seq(1..(n + 1)) /\ Len(t) = Len(s) + 1 /\ t[Len(s) + 1] = n + 1
      /\ \A j \in 1..Len(s) : t[j] = s[j]
  BY <1>1, AppendProperties
<1> QED BY <1>1, <1>2 DEF Extends
Last(s) == IF s = <<>> THEN Nil ELSE s[Len(s)]
Behind(P, Q, s, kind, tup, n, t) ==
  n = Len(P) /\ t = Append(s, n + 1) /\ NewOn(P, Q, Last(s), kind, tup)
LEMMA NewChains ==
  ASSUME NEW P \in Seq(PageType), NEW Q, NEW s, NEW kind, NEW tup, NEW n, NEW t,
         IsChain(P, s, kind), Behind(P, Q, s, kind, tup, n, t)
  PROVE  /\ IsChain(Q, t, kind) /\ Extends(s, t)
         /\ \A o, k : k # kind /\ IsChain(P, o, k) => IsChain(Q, o, k)
<1>a. n = Len(P) /\ t = Append(s, n + 1) /\ NewOn(P, Q, Last(s), kind, tup) BY DEF Behind
<1>0. n \in Nat /\ Nil = 0 /\ \A b \in 1..(n + 1) : b \in 1..n \/ b = n + 1 BY <1>a, Basics
<1>1. /\ Len(Q) = n + 1 /\ Q[n + 1].kind = kind /\ Q[n + 1].next = Nil
      /\ \A b \in 1..n : Q[b].kind = P[b].kind
      /\ \A b \in 1..n : Q[b].next = IF b = Last(s) THEN n + 1 ELSE P[b].next
  BY <1>a DEF NewOn
<1>2. /\ s \in Seq(1..n) /\ \A i, j \in 1..Len(s) : i < j => s[i] < s[j]
      /\ \A b \in 1..n : P[b].kind = kind <=> \E j \in 1..Len(s) : s[j] = b
      /\ \A j \in 1..Len(s) : P[s[j]].next = IF j = Len(s) THEN Nil ELSE s[j + 1]
  BY <1>a DEF IsChain
<1>3. /\ t \in Seq(1..(n + 1)) /\ Len(t) = Len(s) + 1 /\ t[Len(t)] = n + 1 /\ Extends(s, t)
      /\ Len(s) \in Nat /\ \A j \in 1..Len(s) : s[j] \in 1..n
  BY ZenonT(60), <1>a, <1>0, <1>2, WithPage
<1>4. \A j \in 1..Len(s) : t[j] = s[j] BY <1>3 DEF Extends
<1>5. \A j \in 1..Len(t) : j \in 1..Len(s) \/ j = Len(t) BY <1>3
<1>6. \A j \in 1..Len(s) : s[j] = Last(s) <=> j = Len(s)
  <2> TAKE j \in 1..Len(s)
  <2>1. s # <<>> /\ Len(s) \in 1..Len(s) BY <1>3
  <2>2. j = Len(s) \/ j < Len(s) BY <1>3
  <2>3. j < Len(s) => s[j] < s[Len(s)] BY <1>2, <2>1
  <2> QED BY <1>3, <2>1, <2>2, <2>3 DEF Last
<1>7. IsChain(Q, t, kind)
  <2>1. ASSUME NEW i \in 1..Len(t), NEW j \in 1..Len(t), i < j PROVE t[i] < t[j]
    <3>1. i \in 1..Len(s) /\ s[i] \in 1..n /\ t[i] = s[i] BY <1>3, <1>4, <2>1
    <3>2. CASE j \in 1..Len(s)
      <4>1. s[i] < s[j] /\ t[j] = s[j] BY <1>2, <1>4, <2>1, <3>1, <3>2
      <4> QED BY <3>1, <4>1
    <3>3. CASE j = Len(t) BY <1>0, <1>3, <3>1, <3>3
    <3> QED BY <1>5, <3>2, <3>3
  <2>2. ASSUME NEW b \in 1..(n + 1) PROVE Q[b].kind = kind <=> \E j \in 1..Len(t) : t[j] = b
    <3>1. CASE b = n + 1
      <4>1. Len(t) \in 1..Len(t) BY <1>3
      <4> QED BY <1>1, <1>3, <3>1, <4>1
    <3>2. CASE b \in 1..n
      <4>1. (\E j \in 1..Len(t) : t[j] = b) <=> \E j \in 1..Len(s) : s[j] = b
        <5>1. t[Len(t)] # b BY <1>0, <1>3, <3>2
        <5>2. \A j \in 1..Len(s) : j \in 1..Len(t) BY <1>3
        <5> QED BY ONLY <1>4, <1>5, <5>1, <5>2
      <4> QED BY <1>1, <1>2, <3>2, <4>1
    <3> QED BY <1>0, <3>1, <3>2
  <2>3. ASSUME NEW j \in 1..Len(t) PROVE Q[t[j]].next = IF j = Len(t) THEN Nil ELSE t[j + 1]
    <3>1. CASE j = Len(t) BY <1>1, <1>3, <3>1
    <3>2. CASE j # Len(t)
      <4>1. j \in 1..Len(s) /\ t[j] = s[j] /\ s[j] \in 1..n BY <1>3, <1>4, <1>5, <3>2
      <4>2. Q[s[j]].next = IF j = Len(s) THEN n + 1 ELSE P[s[j]].next BY <1>1, <1>6, <4>1
      <4>3. CASE j = Len(s) BY <1>3, <3>2, <4>1, <4>2, <4>3
      <4>4. CASE j # Len(s)
        <5>1. j + 1 \in 1..Len(s) BY <1>3, <4>1, <4>4
        <5> QED BY <1>2, <1>4, <3>2, <4>1, <4>2, <4>4, <5>1
      <4> QED BY <4>3, <4>4
    <3> QED BY <3>1, <3>2
  <2> QED BY <1>1, <1>3, <2>1, <2>2, <2>3 DEF IsChain
<1>8. ASSUME NEW o, NEW k, k # kind, IsChain(P, o, k) PROVE IsChain(Q, o, k)
  <2>1. /\ o \in Seq(1..n) /\ \A i, j \in 1..Len(o) : i < j => o[i] < o[j]
        /\ \A b \in 1..n : P[b].kind = k <=> \E j \in 1..Len(o) : o[j] = b
        /\ \A j \in 1..Len(o) : P[o[j]].next = IF j = Len(o) THEN Nil ELSE o[j + 1]
    <3>1. IsChain(P, o, k) BY <1>8
    <3> QED BY ONLY <1>a, <3>1 DEF IsChain
  <2>2. o \in Seq(1..(n + 1)) /\ \A j \in 1..Len(o) : o[j] \in 1..n /\ o[j] # n + 1 BY <1>0, <2>1
  <2>3. \A j \in 1..Len(o) : o[j] # Last(s)
    <3> SUFFICES ASSUME NEW j \in 1..Len(o), o[j] = Last(s) PROVE FALSE OBVIOUS
    <3>1. P[o[j]].kind = k BY <2>1, <2>2
    <3>2. s # <<>> BY <1>0, <2>2 DEF Last
    <3>3. Len(s) \in 1..Len(s) BY <1>2, <1>3, <3>2
    <3>4. P[Last(s)].kind = kind BY <1>2, <1>3, <3>2, <3>3 DEF Last
    <3> QED BY <1>8, <3>1, <3>4
  <2>4. \A b \in 1..(n + 1) : Q[b].kind = k <=> \E j \in 1..Len(o) : o[j] = b
    BY <1>0, <1>1, <1>8, <2>1, <2>2
  <2>5. \A j \in 1..Len(o) : Q[o[j]].next = IF j = Len(o) THEN Nil ELSE o[j + 1]
    BY <1>1, <2>1, <2>2, <2>3
  <2> QED BY <1>1, <2>1, <2>2, <2>4, <2>5 DEF IsChain
<1> QED BY <1>3, <1>7, <1>8

\* What TqGraphAppendTuple does
OnLast(P, s, a, kind, tup) ==
  /\ s # <<>> /\ Len(P[Last(s)].tup) < Cap(kind) /\ Last(s) \in 1..Len(P)
  /\ P[Last(s)].kind = kind /\ PutOn(P, a.pages, Last(s), tup)
  /\ a.start = Start(s) /\ a.blk = Last(s) /\ a.off = Len(P[Last(s)].tup) + 1
OnNew(P, s, a, kind, tup) ==
  /\ s # <<>> => Len(P[Last(s)].tup) = Cap(kind)
  /\ NewOn(P, a.pages, Last(s), kind, tup)
  /\ a.start = Start(Append(s, Len(P) + 1)) /\ a.blk = Len(P) + 1 /\ a.off = 1
LEMMA AppendIs ==
  ASSUME NEW P \in Seq(PageType), NEW s, NEW kind \in Kinds, IsChain(P, s, kind), Sized(P),
         NEW tup \in TupleType(kind), NEW a, a = AppendTuple(P, Start(s), kind, tup, Cap(kind))
  PROVE  OnLast(P, s, a, kind, tup) \/ OnNew(P, s, a, kind, tup)
<1>n. PICK n : n = Len(P) OBVIOUS
<1>0. n \in Nat /\ Nil = 0 /\ Cap(kind) \in Nat BY <1>n, Basics
<1>1. s \in Seq(1..n) BY <1>n DEF IsChain
<1>2. CASE s = <<>>
  <2>1. Start(s) = Nil /\ Last(s) = Nil /\ LinkedTo(P, Nil) = P BY <1>2 DEF Start, Last, LinkedTo
  <2>2. /\ a.pages = Append(P, NewPage(kind, tup)) /\ a.start = n + 1 /\ a.blk = n + 1 /\ a.off = 1
    BY <1>n, <2>1 DEF AppendTuple
  <2>3. a.pages = Append(LinkedTo(P, Nil), NewPage(kind, tup)) BY <2>1, <2>2
  <2>4. NewOn(P, a.pages, Nil, kind, tup) BY ONLY <2>3, PutOnNewPage, P \in Seq(PageType), kind \in Kinds, tup \in TupleType(kind)
  <2>5. Append(s, n + 1) = <<n + 1>> /\ Start(<<n + 1>>) = n + 1 BY <1>2 DEF Start
  <2> QED BY <1>n, <1>2, <2>1, <2>2, <2>4, <2>5 DEF OnNew
<1>3. CASE s # <<>>
  <2>l. PICK l : l = Last(s) OBVIOUS
  <2>1. /\ Start(s) # Nil /\ LastBlock(P, Start(s)) = l /\ l \in 1..n /\ P[l].kind = kind
        /\ Start(s) = s[1] /\ l # Nil
    BY <1>n, <1>0, <1>3, <2>l, LastOfChain DEF Last, Start
  <2>2. Len(P[l].tup) \in Nat /\ Len(P[l].tup) <= Cap(kind) BY <1>n, <1>0, <2>1 DEF Sized
  <2>3. CASE Len(P[l].tup) < Cap(kind)
    <3>1. /\ a.pages = LongerPage(P, l, tup) /\ a.start = Start(s) /\ a.blk = l
          /\ a.off = Len(P[l].tup) + 1
      BY <2>1, <2>3 DEF AppendTuple, LongerPage
    <3>2. l \in 1..Len(P) /\ tup \in TupleType(P[l].kind) BY <1>n, <2>1
    <3>3. PutOn(P, a.pages, l, tup) BY ONLY <3>1, <3>2, PutOnPage, P \in Seq(PageType)
    <3> QED BY <1>n, <1>3, <2>1, <2>3, <2>l, <3>1, <3>3 DEF OnLast
  <2>4. CASE ~(Len(P[l].tup) < Cap(kind))
    <3>1. /\ a.pages = Append([P EXCEPT ![l].next = n + 1], NewPage(kind, tup))
          /\ a.start = Start(s) /\ a.blk = n + 1 /\ a.off = 1
      BY <1>n, <2>1, <2>4 DEF AppendTuple
    <3>2. a.pages = Append(LinkedTo(P, l), NewPage(kind, tup)) BY <1>n, <2>1, <3>1 DEF LinkedTo
    <3>3. l # Nil => l \in 1..Len(P) BY <1>n, <2>1
    <3>4. NewOn(P, a.pages, l, kind, tup)
      BY ONLY <3>2, <3>3, PutOnNewPage, P \in Seq(PageType), kind \in Kinds, tup \in TupleType(kind)
    <3>5. Start(Append(s, n + 1)) = Start(s)
      <4>1. Append(s, n + 1) \in Seq(Nat) /\ Len(Append(s, n + 1)) = Len(s) + 1
            /\ Extends(s, Append(s, n + 1)) /\ Len(s) \in Nat
        <5>1. 1..(n + 1) \subseteq Nat BY <1>0
        <5>2. Append(s, n + 1) \in Seq(1..(n + 1)) /\ Len(Append(s, n + 1)) = Len(s) + 1
              /\ Extends(s, Append(s, n + 1)) /\ Len(s) \in Nat
          BY <1>0, <1>1, WithPage
        <5> QED BY <5>1, <5>2
      <4>2. 1 \in 1..Len(s) BY <1>1, <1>3
      <4>3. Append(s, n + 1)[1] = s[1] /\ Append(s, n + 1) # <<>> BY <4>1, <4>2 DEF Extends
      <4> QED BY <2>1, <4>3 DEF Start
    <3>6. Len(P[l].tup) = Cap(kind) BY <1>0, <2>2, <2>4
    <3> QED BY <1>n, <1>3, <2>l, <3>1, <3>4, <3>5, <3>6 DEF OnNew
  <2> QED BY <2>3, <2>4
<1> QED BY <1>2, <1>3

\* How many pages before, and which
LEMMA NumberedPut ==
  ASSUME NEW P, NEW Q, NEW s, NEW n \in Nat, s \in Seq(1..n), n = Len(P), NEW tup, Sized(P),
         \A i, j \in 1..Len(s) : i < j => s[i] < s[j],
         \A j \in 1..Len(s) : P[s[j]].tup \in Seq(CodeType) /\ P[s[j]].kind = "code",
         Numbered(P, s), s # <<>>, Len(P[Last(s)].tup) < CodeCap, PutOn(P, Q, Last(s), tup),
         tup.node = Total(P, s), tup \in CodeType
  PROVE  Numbered(Q, s) /\ Total(Q, s) = Total(P, s) + 1
<1>m. PICK m : m = Len(s) OBVIOUS
<1>0. m \in Nat \ {0} /\ m \in 1..m /\ Last(s) = s[m] /\ CodeCap \in Nat
      /\ \A j \in 1..m : s[j] \in 1..n
  BY <1>m, Basics DEF Last
<1>t. PICK t : t = P[s[m]].tup OBVIOUS
<1>1. t \in Seq(CodeType) /\ Len(t) \in Nat BY <1>0, <1>m, <1>t
<1>2. /\ Len(Append(t, tup)) = Len(t) + 1 /\ Append(t, tup)[Len(t) + 1] = tup
      /\ \A i \in 1..Len(t) : Append(t, tup)[i] = t[i]
  BY <1>1, AppendProperties
<1>3. \A j \in 1..m : Q[s[j]].tup = IF j = m THEN Append(t, tup) ELSE P[s[j]].tup
  <2> TAKE j \in 1..m
  <2>1. j < m => s[j] < s[m] BY <1>0, <1>m
  <2>2. j = m \/ j < m BY <1>0
  <2>3. s[j] = s[m] <=> j = m BY <1>0, <2>1, <2>2
  <2> QED BY <1>0, <1>t, <2>3 DEF PutOn
<1>4. Total(P, s) = (m - 1) * CodeCap + Len(t) BY <1>0, <1>m, <1>t DEF Total
<1>5. Total(Q, s) = Total(P, s) + 1
  <2>1. Total(Q, s) = (m - 1) * CodeCap + Len(Append(t, tup)) BY <1>0, <1>m, <1>3 DEF Total
  <2>2. (m - 1) * CodeCap \in Int BY <1>0
  <2> QED BY <1>1, <1>2, <1>4, <2>1, <2>2
<1>6. ASSUME NEW j \in 1..m
      PROVE  /\ j < m => Len(Q[s[j]].tup) = CodeCap
             /\ \A i \in 1..Len(Q[s[j]].tup) : Q[s[j]].tup[i].node = (j - 1) * CodeCap + i - 1
  <2>1. CASE j # m
    <3>1. Q[s[j]].tup = P[s[j]].tup BY <1>3, <2>1
    <3>2. /\ j < m => Len(P[s[j]].tup) = CodeCap
          /\ \A i \in 1..Len(P[s[j]].tup) : P[s[j]].tup[i].node = (j - 1) * CodeCap + i - 1
      BY <1>m DEF Numbered
    <3> QED BY ONLY <3>1, <3>2
  <2>2. CASE j = m
    <3>1. \A i \in 1..Len(t) : t[i].node = (m - 1) * CodeCap + i - 1 BY <1>0, <1>m, <1>t DEF Numbered
    <3>2. Q[s[j]].tup = Append(t, tup) /\ ~(j < m)
      <4>1. Q[s[j]].tup = Append(t, tup) BY <1>3, <2>2
      <4>2. m \in Nat BY <1>0
      <4> QED BY ONLY <2>2, <4>1, <4>2
    <3>3. (m - 1) * CodeCap \in Int BY <1>0
    <3>4. tup.node = (m - 1) * CodeCap + (Len(t) + 1) - 1 BY <1>1, <1>4, <3>3
    <3>5. \A i \in 1..(Len(t) + 1) : i \in 1..Len(t) \/ i = Len(t) + 1 BY <1>1
    <3> QED BY <1>2, <2>2, <3>1, <3>2, <3>4, <3>5
  <2> QED BY <2>1, <2>2
<1> QED BY <1>5, <1>6, <1>m DEF Numbered
LEMMA NumberedNew ==
  ASSUME NEW P, NEW Q, NEW s, NEW n \in Nat, s \in Seq(1..n), NEW tup, NEW t,
         Numbered(P, s), s # <<>> => Len(P[Last(s)].tup) = CodeCap,
         tup.node = Total(P, s), Behind(P, Q, s, "code", tup, n, t)
  PROVE  Numbered(Q, t) /\ Total(Q, t) = Total(P, s) + 1
<1>a. n = Len(P) /\ t = Append(s, n + 1) /\ NewOn(P, Q, Last(s), "code", tup) BY DEF Behind
<1>m. PICK m : m = Len(s) OBVIOUS
<1>0. m \in Nat /\ CodeCap \in Nat /\ \A j \in 1..m : s[j] \in 1..n BY <1>m, Basics
<1>1. /\ Len(t) = m + 1 /\ t[m + 1] = n + 1 /\ \A j \in 1..m : t[j] = s[j]
  BY <1>a, <1>m, WithPage DEF Extends
<1>2. /\ Q[n + 1].tup = <<tup>> /\ \A b \in 1..n : Q[b].tup = P[b].tup BY <1>a DEF NewOn
<1>3. Len(<<tup>>) = 1 /\ <<tup>>[1] = tup OBVIOUS
<1>4. Total(P, s) = m * CodeCap
  <2>1. CASE s = <<>> BY <1>m, <1>0, <2>1 DEF Total
  <2>2. CASE s # <<>>
    <3>1. Total(P, s) = (m - 1) * CodeCap + CodeCap BY <1>m, <2>2 DEF Total, Last
    <3> QED BY <1>0, <3>1
  <2> QED BY <2>1, <2>2
<1>5. m * CodeCap \in Nat /\ ((m + 1) - 1) * CodeCap = m * CodeCap BY <1>0
<1>6. t # <<>> BY <1>0, <1>1
<1>7. Total(Q, t) = m * CodeCap + 1 BY <1>1, <1>2, <1>3, <1>5, <1>6 DEF Total
<1>8. ASSUME NEW j \in 1..(m + 1)
      PROVE  /\ j < m + 1 => Len(Q[t[j]].tup) = CodeCap
             /\ \A i \in 1..Len(Q[t[j]].tup) : Q[t[j]].tup[i].node = (j - 1) * CodeCap + i - 1
  <2>1. CASE j \in 1..m
    <3>1. Q[t[j]].tup = P[s[j]].tup BY <1>0, <1>1, <1>2, <2>1
    <3>2. j < m => Len(P[s[j]].tup) = CodeCap BY <1>m, <2>1 DEF Numbered
    <3>3. j = m => Len(P[s[j]].tup) = CodeCap
      <4>1. j = m => s # <<>> BY <1>m, <2>1
      <4> QED BY <1>m, <4>1 DEF Last
    <3>4. \A i \in 1..Len(P[s[j]].tup) : P[s[j]].tup[i].node = (j - 1) * CodeCap + i - 1
      BY <1>m, <2>1 DEF Numbered
    <3>5. j < m \/ j = m BY <1>0, <2>1
    <3>6. j < m + 1 => Len(Q[t[j]].tup) = CodeCap BY ONLY <3>1, <3>2, <3>3, <3>5
    <3>7. \A i \in 1..Len(Q[t[j]].tup) : Q[t[j]].tup[i].node = (j - 1) * CodeCap + i - 1
      BY ONLY <3>1, <3>4
    <3> QED BY <3>6, <3>7
  <2>2. CASE j = m + 1
    <3>1. Q[t[j]].tup = <<tup>> BY <1>1, <1>2, <2>2
    <3>2. ~(j < m + 1) BY <1>0, <2>2
    <3>3. tup.node = (j - 1) * CodeCap + 1 - 1 BY <1>4, <1>5, <2>2
    <3>4. \A i \in 1..Len(<<tup>>) : i = 1 BY <1>3
    <3>5. \A i \in 1..Len(<<tup>>) : <<tup>>[i].node = (j - 1) * CodeCap + i - 1 BY ONLY <1>3, <3>3, <3>4
    <3>6. j < m + 1 => Len(Q[t[j]].tup) = CodeCap BY <3>2
    <3>7. \A i \in 1..Len(Q[t[j]].tup) : Q[t[j]].tup[i].node = (j - 1) * CodeCap + i - 1
      BY ONLY <3>1, <3>5
    <3> QED BY <3>6, <3>7
  <2>3. j \in 1..m \/ j = m + 1 BY <1>0
  <2> QED BY ONLY <2>1, <2>2, <2>3
<1> QED BY <1>1, <1>4, <1>5, <1>7, <1>8 DEF Numbered

\* Where the code tuple of a node is
CodeAt(P, cs, p, j) ==
  /\ j \in 1..Len(cs) /\ p[1] = cs[j] /\ p[2] \in 1..Len(P[cs[j]].tup)
  /\ At(P, p).node = (j - 1) * CodeCap + p[2] - 1
  /\ (j - 1) * CodeCap <= At(P, p).node /\ At(P, p).node < j * CodeCap
  /\ At(P, p).node < Total(P, cs) /\ At(P, p).node \in Nat
LEMMA CodeSpotIs ==
  ASSUME NEW P, NEW cs, NEW ads, Chained(P, cs, ads), NEW p \in Spots(P, "code")
  PROVE  \E j : CodeAt(P, cs, p, j)
<1>1. p[1] \in 1..Len(P) /\ P[p[1]].kind = "code" /\ p[2] \in 1..Len(P[p[1]].tup) /\ p[2] \in Nat BY DEF Spots
<1>2. PICK j \in 1..Len(cs) : cs[j] = p[1] BY <1>1 DEF Chained, IsChain
<1>m. PICK m : m = Len(cs) OBVIOUS
<1>x. PICK x : x = Len(P[cs[j]].tup) OBVIOUS
<1>3. m \in Nat /\ j \in 1..m /\ cs \in Seq(1..Len(P)) BY <1>2, <1>m DEF Chained, IsChain
<1>4. /\ At(P, p).node = (j - 1) * CodeCap + p[2] - 1
      /\ j < m => x = CodeCap
  BY <1>1, <1>2, <1>m, <1>x DEF Chained, Numbered, At
<1>5. CodeCap \in Nat \ {0} /\ x \in 1..CodeCap /\ p[2] \in 1..x
  BY <1>1, <1>2, <1>x, Basics DEF Chained, Sized, Cap
<1>6. j - 1 \in Nat /\ j \in Nat /\ j - 1 < j BY <1>3
<1>7. (j - 1) * CodeCap \in Nat /\ j * CodeCap \in Nat /\ j * CodeCap = (j - 1) * CodeCap + CodeCap
  <2>1. (j - 1) * CodeCap \in Nat /\ j * CodeCap \in Nat /\ (j - 1 + 1) * CodeCap = (j - 1) * CodeCap + CodeCap
    BY ONLY <1>6, Products
  <2> QED BY <1>6, <2>1
<1>8. At(P, p).node < Total(P, cs)
  <2>0. cs # <<>> BY <1>3, <1>m
  <2>1. CASE j = m
    <3>1. Total(P, cs) = (j - 1) * CodeCap + x BY <1>m, <1>x, <2>0, <2>1 DEF Total
    <3> QED BY <1>4, <1>5, <1>7, <3>1
  <2>2. CASE j < m
    <3>y. PICK y : y = Len(P[cs[m]].tup) OBVIOUS
    <3>1. Total(P, cs) = (m - 1) * CodeCap + y BY <1>m, <2>0, <3>y DEF Total
    <3>2. m \in 1..m /\ cs[m] \in 1..Len(P) BY <1>3, <1>m
    <3>3. y \in Nat BY <3>2, <3>y, Basics DEF Chained, Sized, Cap
    <3>4. m - 1 \in Nat /\ (j = m - 1 \/ j < m - 1) BY <1>3, <2>2
    <3>5. (m - 1) * CodeCap \in Nat /\ j * CodeCap <= (m - 1) * CodeCap
      <4>1. CASE j = m - 1 BY <1>7, <4>1
      <4>2. CASE j < m - 1
        <5>1. /\ j * CodeCap \in Nat /\ (m - 1) * CodeCap \in Nat /\ (j + 1) * CodeCap = j * CodeCap + CodeCap
              /\ (j + 1) * CodeCap <= (m - 1) * CodeCap
          BY ONLY <1>6, <3>4, <4>2, Products
        <5> QED BY <1>5, <5>1
      <4> QED BY <3>4, <4>1, <4>2
    <3> QED BY <1>4, <1>5, <1>7, <3>1, <3>3, <3>5
  <2> QED BY <1>3, <2>1, <2>2
<1>v. PICK v : v = At(P, p).node OBVIOUS
<1>9. v \in Nat /\ (j - 1) * CodeCap <= v /\ v < j * CodeCap
  <2>1. v = (j - 1) * CodeCap + p[2] - 1 BY <1>4, <1>v
  <2>2. PICK y : y = (j - 1) * CodeCap OBVIOUS
  <2>3. PICK i : i = p[2] OBVIOUS
  <2>4. y \in Nat /\ v = y + i - 1 /\ i \in Nat /\ 1 <= i /\ i <= CodeCap /\ CodeCap \in Nat
    BY <1>1, <1>5, <1>7, <2>1, <2>2, <2>3
  <2>5. v \in Nat /\ y <= v /\ v < y + CodeCap BY ONLY <2>4
  <2> QED BY <1>7, <2>2, <2>5
<1>10. p[1] = cs[j] /\ p[2] \in 1..Len(P[cs[j]].tup) BY <1>1, <1>2
<1>11. At(P, p).node = (j - 1) * CodeCap + p[2] - 1 BY <1>4
<1> QED BY ONLY j \in 1..Len(cs), <1>8, <1>9, <1>10, <1>11, <1>v DEF CodeAt
LEMMA NodesDiffer ==
  ASSUME NEW P, NEW cs, NEW ads, Chained(P, cs, ads), NEW p \in Spots(P, "code"), NEW q \in Spots(P, "code"),
         At(P, p).node = At(P, q).node
  PROVE  p = q
<1>1. PICK i : CodeAt(P, cs, p, i) BY CodeSpotIs
<1>2. PICK j : CodeAt(P, cs, q, j) BY CodeSpotIs
<1>n. PICK n : n = At(P, p).node OBVIOUS
<1>0. CodeCap \in Nat BY Basics
<1>3. i \in Nat /\ j \in Nat /\ i - 1 \in Nat /\ j - 1 \in Nat
  <2>1. Len(cs) \in Nat BY DEF Chained, IsChain
  <2> QED BY <1>1, <1>2, <2>1 DEF CodeAt
<1>4. /\ n = (i - 1) * CodeCap + p[2] - 1 /\ n = (j - 1) * CodeCap + q[2] - 1 /\ n \in Nat
      /\ (i - 1) * CodeCap <= n /\ n < i * CodeCap /\ (j - 1) * CodeCap <= n /\ n < j * CodeCap
  BY <1>1, <1>2, <1>n DEF CodeAt
<1>5. ASSUME NEW x \in Nat, NEW y \in Nat, y - 1 \in Nat, x < y PROVE x * CodeCap <= (y - 1) * CodeCap
  <2>1. CASE x = y - 1
    <3>1. x * CodeCap \in Nat BY <1>0
    <3> QED BY <2>1, <3>1
  <2>2. CASE x < y - 1
    <3>1. /\ x * CodeCap \in Nat /\ (y - 1) * CodeCap \in Nat /\ (x + 1) * CodeCap = x * CodeCap + CodeCap
          /\ (x + 1) * CodeCap <= (y - 1) * CodeCap
      BY ONLY <1>5, <2>2, Products
    <3> QED BY <1>0, <3>1
  <2> QED BY <1>5, <2>1, <2>2
<1>6. ~(i < j) /\ ~(j < i)
  <2>1. i * CodeCap \in Nat /\ j * CodeCap \in Nat /\ (i - 1) * CodeCap \in Nat /\ (j - 1) * CodeCap \in Nat
    BY <1>0, <1>3
  <2>2. i < j => i * CodeCap <= (j - 1) * CodeCap BY <1>3, <1>5
  <2>3. j < i => j * CodeCap <= (i - 1) * CodeCap BY <1>3, <1>5
  <2> QED BY <1>4, <2>1, <2>2, <2>3
<1>7. i = j BY <1>3, <1>6
<1>8. p[1] = q[1] BY <1>1, <1>2, <1>7 DEF CodeAt
<1>9. p[2] = q[2]
  <2>1. p[2] \in Nat /\ q[2] \in Nat BY DEF Spots
  <2>2. (i - 1) * CodeCap \in Nat BY <1>0, <1>3
  <2> QED BY <1>4, <1>7, <2>1, <2>2
<1> QED BY <1>8, <1>9 DEF Spots
LEMMA PagesOfNodes ==
  ASSUME NEW P, NEW cs, NEW ads, Chained(P, cs, ads)
  PROVE  Total(P, cs) \in Nat /\ \A j \in Nat : j * CodeCap < Total(P, cs) => j < Len(cs)
<1>m. PICK m : m = Len(cs) OBVIOUS
<1>0. m \in Nat /\ CodeCap \in Nat \ {0} /\ cs \in Seq(1..Len(P)) BY <1>m, Basics DEF Chained, IsChain
<1>1. CASE cs = <<>>
  <2>1. \A j \in Nat : j * CodeCap \in Nat BY <1>0
  <2> QED BY <1>1, <2>1 DEF Total
<1>2. CASE cs # <<>>
  <2>y. PICK y : y = Len(P[cs[m]].tup) OBVIOUS
  <2>1. m \in 1..m /\ m - 1 \in Nat /\ cs[m] \in 1..Len(P) /\ P[cs[m]].kind = "code"
    <3>1. m \in 1..m BY <1>0, <1>2, <1>m
    <3>2. cs[m] \in 1..Len(P) BY <1>0, <1>m, <3>1
    <3> QED BY <1>m, <1>0, <3>1, <3>2 DEF Chained, IsChain
  <2>2. y \in 1..CodeCap BY <2>1, <2>y DEF Chained, Sized, Cap
  <2>3. Total(P, cs) = (m - 1) * CodeCap + y BY <1>2, <1>m, <2>y DEF Total
  <2>4. (m - 1) * CodeCap \in Nat /\ m * CodeCap \in Nat /\ m * CodeCap = (m - 1) * CodeCap + CodeCap
    <3>1. m - 1 < m /\ m - 1 + 1 = m BY <2>1
    <3>2. (m - 1) * CodeCap \in Nat /\ m * CodeCap \in Nat /\ (m - 1 + 1) * CodeCap = (m - 1) * CodeCap + CodeCap
      BY ONLY <1>0, <2>1, <3>1, Products
    <3> QED BY <3>1, <3>2
  <2>5. ASSUME NEW j \in Nat, m <= j PROVE m * CodeCap <= j * CodeCap /\ j * CodeCap \in Nat
    <3>1. CASE m = j BY <2>4, <3>1
    <3>2. CASE m < j
      <4>1. /\ j * CodeCap \in Nat /\ m * CodeCap \in Nat /\ (m + 1) * CodeCap = m * CodeCap + CodeCap
            /\ (m + 1) * CodeCap <= j * CodeCap
        BY ONLY <1>0, <2>5, <3>2, Products
      <4> QED BY <1>0, <4>1
    <3> QED BY <1>0, <2>5, <3>1, <3>2
  <2>6. ASSUME NEW j \in Nat, j * CodeCap < Total(P, cs) PROVE j < m
    <3>1. CASE m <= j
      <4>1. m * CodeCap <= j * CodeCap /\ j * CodeCap \in Nat BY <2>5, <3>1
      <4> QED BY <1>0, <2>2, <2>3, <2>4, <2>6, <4>1
    <3> QED BY <1>0, <3>1
  <2> QED BY <1>m, <2>2, <2>3, <2>4, <2>6
<1> QED BY <1>1, <1>2
LEMMA NodeIsThere ==
  ASSUME NEW P, NEW cs, NEW ads, Chained(P, cs, ads), NEW n \in Nat, n < Total(P, cs)
  PROVE  \E p \in Spots(P, "code") : At(P, p).node = n
<1>m. PICK m : m = Len(cs) OBVIOUS
<1>0. m \in Nat /\ CodeCap \in Nat \ {0} /\ cs \in Seq(1..Len(P)) BY <1>m, Basics DEF Chained, IsChain
<1>1. PICK j \in Nat : j * CodeCap <= n /\ n < j * CodeCap + CodeCap
  <2>1. \A x \in Nat : x \div CodeCap \in Nat BY <1>0, SMT
  <2>2. \A x \in Nat : CodeCap * (x \div CodeCap) <= x /\ x < CodeCap * (x \div CodeCap) + CodeCap
    BY <1>0, SMT
  <2>3. PICK q \in Nat : q = n \div CodeCap BY <2>1
  <2>4. CodeCap * q <= n /\ n < CodeCap * q + CodeCap BY <2>2, <2>3
  <2>5. CodeCap * q = q * CodeCap BY <1>0, SMT
  <2> QED BY <2>4, <2>5
<1>2. j < m /\ j * CodeCap \in Nat /\ Total(P, cs) \in Nat
  <2>1. Total(P, cs) \in Nat /\ (j * CodeCap < Total(P, cs) => j < m) BY <1>m, PagesOfNodes
  <2>2. j * CodeCap \in Nat BY <1>0
  <2> QED BY <1>1, <2>1, <2>2
<1>b. PICK b : b = cs[j + 1] OBVIOUS
<1>3. j + 1 \in 1..m /\ b \in 1..Len(P) /\ P[b].kind = "code" /\ b \in Nat
  <2>1. j + 1 \in 1..m BY <1>0, <1>2
  <2>2. b \in 1..Len(P) BY <1>0, <1>m, <1>b, <2>1
  <2> QED BY <1>m, <1>b, <2>1, <2>2 DEF Chained, IsChain
<1>i. PICK i : i = n - j * CodeCap + 1 OBVIOUS
<1>4. i \in Nat /\ 1 <= i /\ i <= CodeCap /\ n = j * CodeCap + i - 1 BY <1>0, <1>1, <1>2, <1>i
<1>x. PICK x : x = Len(P[b].tup) OBVIOUS
<1>5. x \in Nat BY <1>3, <1>x, Basics DEF Chained, Sized, Cap
<1>6. i \in 1..x
  <2>1. CASE j + 1 = m
    <3>1. Total(P, cs) = j * CodeCap + x
      <4>1. cs # <<>> BY <1>m, <1>3
      <4>2. Total(P, cs) = (m - 1) * CodeCap + Len(P[cs[m]].tup) BY <1>m, <4>1 DEF Total
      <4>3. m - 1 = j BY <2>1
      <4> QED BY <1>b, <1>x, <2>1, <4>2, <4>3
    <3> QED BY <1>2, <1>4, <1>5, <3>1
  <2>2. CASE j + 1 < m
    <3>1. x = CodeCap BY <1>m, <1>b, <1>x, <1>3, <2>2 DEF Chained, Numbered
    <3> QED BY <1>4, <3>1
  <2> QED BY <1>0, <1>2, <2>1, <2>2
<1>7. P[b].tup[i].node = (j + 1 - 1) * CodeCap + i - 1
  BY <1>m, <1>b, <1>x, <1>3, <1>6 DEF Chained, Numbered
<1>8. j + 1 - 1 = j OBVIOUS
<1>9. P[b].tup[i].node = n BY <1>4, <1>7, <1>8
<1>10. <<b, i>> \in Spots(P, "code")
  <2> DEFINE p == <<b, i>>
  <2>1. p \in Nat \X Nat /\ p[1] = b /\ p[2] = i BY <1>3, <1>4
  <2> HIDE DEF p
  <2>2. p \in Spots(P, "code") BY <1>3, <1>6, <1>x, <2>1 DEF Spots
  <2> QED BY <2>2 DEF p
<1>11. At(P, <<b, i>>).node = n BY <1>9 DEF At
<1> QED BY <1>10, <1>11

LEMMA NumberedStill ==
  ASSUME NEW P, NEW Q, NEW cs, NEW n, cs \in Seq(1..n), Numbered(P, cs),
         \A j \in 1..Len(cs) : Q[cs[j]].tup = P[cs[j]].tup
  PROVE  Numbered(Q, cs) /\ Total(Q, cs) = Total(P, cs)
<1>1. Numbered(Q, cs)
  <2> SUFFICES ASSUME NEW j \in 1..Len(cs)
               PROVE  /\ j < Len(cs) => Len(Q[cs[j]].tup) = CodeCap
                      /\ \A i \in 1..Len(Q[cs[j]].tup) : Q[cs[j]].tup[i].node = (j - 1) * CodeCap + i - 1
    BY DEF Numbered
  <2>1. /\ j < Len(cs) => Len(P[cs[j]].tup) = CodeCap
        /\ \A i \in 1..Len(P[cs[j]].tup) : P[cs[j]].tup[i].node = (j - 1) * CodeCap + i - 1
    BY DEF Numbered
  <2>2. Q[cs[j]].tup = P[cs[j]].tup OBVIOUS
  <2> QED BY ONLY <2>1, <2>2
<1>2. cs # <<>> => Len(cs) \in 1..Len(cs) OBVIOUS
<1>3. Total(Q, cs) = Total(P, cs) BY <1>2 DEF Total
<1> QED BY <1>1, <1>3

\* A tuple is appended
AppendedAt(P, cs, ads, Q, cs2, ads2, kind, tup, q) ==
  /\ Q \in Seq(PageType) /\ Chained(Q, cs2, ads2) /\ Grew(P, Q, kind, tup, q)
  /\ Extends(cs, cs2) /\ Extends(ads, ads2)
  /\ Total(Q, cs2) = IF kind = "code" THEN Total(P, cs) + 1 ELSE Total(P, cs)
  /\ kind = "code" => ads2 = ads
  /\ kind = "adj" => cs2 = cs
LEMMA Appended ==
  ASSUME NEW P \in Seq(PageType), NEW cs, NEW ads, Chained(P, cs, ads), NEW kind \in Kinds,
         NEW tup \in TupleType(kind), kind = "code" => tup.node = Total(P, cs),
         NEW s, s = (IF kind = "code" THEN cs ELSE ads),
         NEW a, a = AppendTuple(P, Start(s), kind, tup, Cap(kind))
  PROVE  \E cs2, ads2 : /\ AppendedAt(P, cs, ads, a.pages, cs2, ads2, kind, tup, <<a.blk, a.off>>)
                       /\ a.start = Start(IF kind = "code" THEN cs2 ELSE ads2)
<1>n. PICK n : n = Len(P) OBVIOUS
<1>Q. PICK Q : Q = a.pages OBVIOUS
<1>q. PICK q : q = <<a.blk, a.off>> OBVIOUS
<1>0. n \in Nat BY <1>n
<1>1. IsChain(P, cs, "code") /\ IsChain(P, ads, "adj") /\ Sized(P) /\ Numbered(P, cs) BY DEF Chained
<1>2. IsChain(P, s, kind) BY <1>1 DEF Kinds
<1>3. OnLast(P, s, a, kind, tup) \/ OnNew(P, s, a, kind, tup) BY <1>1, <1>2, AppendIs
<1>4. kind = "code" \/ kind = "adj" BY DEF Kinds
<1>5. \A k : Cap(k) \in Nat \ {0} BY Basics
<1>6. cs \in Seq(1..n) /\ ads \in Seq(1..n) /\ Extends(cs, cs) /\ Extends(ads, ads)
  <2>1. cs \in Seq(1..n) /\ ads \in Seq(1..n) BY <1>1, <1>n DEF IsChain
  <2>2. Len(cs) \in Nat /\ Len(ads) \in Nat BY ONLY <1>0, <2>1
  <2>3. Extends(cs, cs) BY ONLY <2>2 DEF Extends
  <2>4. Extends(ads, ads) BY ONLY <2>2 DEF Extends
  <2> QED BY <2>1, <2>3, <2>4
<1>7. \A b \in 1..n : P[b] \in PageType BY <1>n, ElementOfSeq
<1>8. \A j \in 1..Len(cs) : cs[j] \in 1..n /\ P[cs[j]].kind = "code" /\ P[cs[j]].tup \in Seq(CodeType)
  <2> TAKE j \in 1..Len(cs)
  <2>1. cs[j] \in 1..n BY ONLY <1>0, <1>6, j \in 1..Len(cs)
  <2>2. P[cs[j]].kind = "code" BY <1>1, <1>n, <2>1 DEF IsChain
  <2> QED BY <1>7, <2>1, <2>2, PageIs DEF TupleType
<1>9. CASE OnLast(P, s, a, kind, tup)
  <2>l. PICK l : l = Last(s) OBVIOUS
  <2>1. /\ s # <<>> /\ Len(P[l].tup) < Cap(kind) /\ l \in 1..n /\ P[l].kind = kind
        /\ PutOn(P, Q, l, tup) /\ a.start = Start(s) /\ q = <<l, Len(P[l].tup) + 1>>
    BY <1>9, <1>n, <1>Q, <1>q, <2>l DEF OnLast
  <2>2. Q \in Seq(PageType) /\ SameShape(P, Q) BY <2>1 DEF PutOn, SameShape
  <2>3. IsChain(Q, cs, "code") /\ IsChain(Q, ads, "adj") BY <1>1, <2>2, ShapeChain
  <2>4. Grew(P, Q, kind, tup, q) BY <1>n, <2>1, SpotsPut
  <2>5. Sized(Q)
    <3> SUFFICES ASSUME NEW b \in 1..n PROVE Len(Q[b].tup) \in 1..Cap(Q[b].kind)
      BY <1>n, <2>2 DEF Sized, SameShape
    <3>1. Len(P[b].tup) \in 1..Cap(P[b].kind) /\ Q[b].kind = P[b].kind BY <1>1, <1>n, <2>2 DEF Sized, SameShape
    <3>2. CASE b = l
      <4>1. Q[b].tup = Append(P[l].tup, tup) BY <1>n, <2>1, <3>2 DEF PutOn
      <4>2. P[l].tup \in Seq(TupleType(kind)) BY <1>7, <2>1, PageIs
      <4>3. Len(Append(P[l].tup, tup)) = Len(P[l].tup) + 1 BY <4>2, AppendProperties
      <4>4. Len(P[l].tup) \in Nat /\ Cap(kind) \in Nat BY <1>5, <4>2
      <4> QED BY <2>1, <3>1, <3>2, <4>1, <4>3, <4>4
    <3>3. CASE b # l BY <1>n, <2>1, <3>1, <3>3 DEF PutOn
    <3> QED BY <3>2, <3>3
  <2>6. /\ Numbered(Q, cs)
        /\ Total(Q, cs) = IF kind = "code" THEN Total(P, cs) + 1 ELSE Total(P, cs)
    <3>1. CASE kind = "code"
      <4>1. \A i, j \in 1..Len(cs) : i < j => cs[i] < cs[j] BY <1>1 DEF IsChain
      <4>2. s = cs /\ Cap(kind) = CodeCap /\ tup \in CodeType BY <3>1 DEF Cap, TupleType
      <4>3. Numbered(Q, cs) /\ Total(Q, cs) = Total(P, cs) + 1
        BY <1>0, <1>n, <1>1, <1>6, <1>8, <2>l, <2>1, <3>1, <4>1, <4>2, NumberedPut
      <4> QED BY <3>1, <4>3
    <3>2. CASE kind # "code"
      <4>1. \A j \in 1..Len(cs) : Q[cs[j]].tup = P[cs[j]].tup BY <1>n, <1>8, <2>1, <3>2 DEF PutOn
      <4>2. Numbered(Q, cs) /\ Total(Q, cs) = Total(P, cs)
        BY ONLY <1>1, <4>1, <1>6, NumberedStill
      <4> QED BY <3>2, <4>2
    <3> QED BY <3>1, <3>2
  <2>7. AppendedAt(P, cs, ads, Q, cs, ads, kind, tup, q)
    BY <1>1, <1>6, <2>2, <2>3, <2>4, <2>5, <2>6 DEF AppendedAt, Chained
  <2>8. a.start = Start(IF kind = "code" THEN cs ELSE ads) BY <2>1
  <2> QED BY <1>Q, <1>q, <2>7, <2>8
<1>10. CASE OnNew(P, s, a, kind, tup)
  <2>t. PICK t : t = Append(s, n + 1) OBVIOUS
  <2>1. /\ s # <<>> => Len(P[Last(s)].tup) = Cap(kind)
        /\ NewOn(P, Q, Last(s), kind, tup) /\ a.start = Start(t) /\ q = <<n + 1, 1>>
    BY <1>10, <1>n, <1>Q, <1>q, <2>t DEF OnNew
  <2>2. Q \in Seq(PageType) BY <2>1 DEF NewOn
  <2>3. IsChain(Q, t, kind) /\ Extends(s, t) /\ \A o, k : k # kind /\ IsChain(P, o, k) => IsChain(Q, o, k)
    <3>1. Behind(P, Q, s, kind, tup, n, t) BY <1>n, <2>t, <2>1 DEF Behind
    <3> QED BY ONLY P \in Seq(PageType), <1>2, <3>1, NewChains
  <2>4. Grew(P, Q, kind, tup, q) BY <1>n, <2>1, SpotsNew
  <2>5. Sized(Q)
    <3> SUFFICES ASSUME NEW b \in 1..(n + 1) PROVE Len(Q[b].tup) \in 1..Cap(Q[b].kind)
      BY <1>n, <2>1 DEF Sized, NewOn
    <3>1. CASE b \in 1..n BY <1>1, <1>n, <2>1, <3>1 DEF Sized, NewOn
    <3>2. CASE b = n + 1
      <4>1. Q[b].tup = <<tup>> /\ Q[b].kind = kind BY <1>n, <2>1, <3>2 DEF NewOn
      <4> QED BY <1>5, <4>1
    <3> QED BY <1>0, <3>1, <3>2
  <2>6. CASE kind = "code"
    <3>1. s = cs /\ Cap(kind) = CodeCap BY <2>6 DEF Cap
    <3>2. Numbered(Q, t) /\ Total(Q, t) = Total(P, cs) + 1
      <4>1. cs # <<>> => Len(P[Last(cs)].tup) = CodeCap BY <2>1, <3>1
      <4>2. Behind(P, Q, cs, "code", tup, n, t) /\ tup.node = Total(P, cs)
        BY <1>n, <2>1, <2>t, <2>6, <3>1 DEF Behind
      <4>3. cs \in Seq(1..n) /\ Numbered(P, cs) BY <1>1, <1>6
      <4> QED BY ONLY <1>0, <4>1, <4>2, <4>3, NumberedNew
    <3>3. IsChain(Q, ads, "adj") BY <1>1, <2>3, <2>6
    <3>4. AppendedAt(P, cs, ads, Q, t, ads, kind, tup, q)
      BY <1>6, <2>2, <2>3, <2>4, <2>5, <2>6, <3>1, <3>2, <3>3 DEF AppendedAt, Chained
    <3> QED BY <1>Q, <1>q, <2>1, <2>6, <3>4
  <2>7. CASE kind = "adj"
    <3>1. s = ads /\ kind # "code" BY <2>7
    <3>2. \A j \in 1..Len(cs) : Q[cs[j]].tup = P[cs[j]].tup BY <1>n, <1>8, <2>1 DEF NewOn
    <3>3. Numbered(Q, cs) /\ Total(Q, cs) = Total(P, cs)
      BY ONLY <1>1, <3>2, <1>6, NumberedStill
    <3>5. Total(Q, cs) = Total(P, cs) BY <3>3
    <3>6. IsChain(Q, cs, "code") BY <1>1, <2>3, <3>1
    <3>7. AppendedAt(P, cs, ads, Q, cs, t, kind, tup, q)
      BY <1>6, <2>2, <2>3, <2>4, <2>5, <2>7, <3>1, <3>3, <3>5, <3>6 DEF AppendedAt, Chained
    <3> QED BY <1>Q, <1>q, <2>1, <3>1, <3>7
  <2> QED BY <1>4, <2>6, <2>7
<1> QED BY <1>3, <1>9, <1>10

-----------------------------------------------------------------------------
(* What a step leaves as it was                                            *)

\* Tuples stay where they are with their nodes and rows; new ones are of
\* nodes from n on
SameCode(s, t) == t.node = s.node /\ t.tid = s.tid /\ t.row = s.row /\ (s.dead => t.dead)
SameAdj(s, t)  == t.node = s.node /\ t.level = s.level
Kept(P, Q, n) ==
  /\ Len(P) <= Len(Q) /\ \A b \in 1..Len(P) : Q[b].kind = P[b].kind
  /\ \A p \in Spots(P, "code") : p \in Spots(Q, "code") /\ SameCode(At(P, p), At(Q, p))
  /\ \A p \in Spots(P, "adj") : p \in Spots(Q, "adj") /\ SameAdj(At(P, p), At(Q, p))
  /\ \A kind \in Kinds : \A p \in Spots(Q, kind) : p \in Spots(P, kind) \/ At(Q, p).node >= n
\* Only tuples change, and of code tuples only their dead flags
Edits(P, Q) ==
  /\ Q \in Seq(PageType) /\ SameShape(P, Q)
  /\ \A b \in 1..Len(P) : Len(Q[b].tup) = Len(P[b].tup)
  /\ \A p \in Spots(P, "code") : SameCode(At(P, p), At(Q, p))
  /\ \A p \in Spots(P, "adj") : SameAdj(At(P, p), At(Q, p))
LEMMA EditsSpots ==
  ASSUME NEW P, NEW Q, Edits(P, Q) PROVE \A k : Spots(Q, k) = Spots(P, k)
<1>1. SUFFICES ASSUME NEW k, NEW p \in Nat \X Nat PROVE p \in Spots(Q, k) <=> p \in Spots(P, k)
  BY DEF Spots
<1>2. Len(Q) = Len(P) /\ \A b \in 1..Len(P) : Q[b].kind = P[b].kind /\ Len(Q[b].tup) = Len(P[b].tup)
  BY DEF Edits, SameShape
<1> QED BY <1>2 DEF Spots
LEMMA EditsKept ==
  ASSUME NEW P \in Seq(PageType), NEW Q, Edits(P, Q), NEW n PROVE Kept(P, Q, n)
<1>1. \A k : Spots(Q, k) = Spots(P, k) BY EditsSpots
<1>2. Len(P) \in Nat /\ Len(P) <= Len(Q) BY DEF Edits, SameShape
<1>3. \A b \in 1..Len(P) : Q[b].kind = P[b].kind BY DEF Edits, SameShape
<1> QED BY <1>1, <1>2, <1>3 DEF Edits, Kept
LEMMA EditsChained ==
  ASSUME NEW P \in Seq(PageType), NEW Q, Edits(P, Q), NEW cs, NEW ads, Chained(P, cs, ads)
  PROVE  Chained(Q, cs, ads) /\ Total(Q, cs) = Total(P, cs)
<1>n. PICK n : n = Len(P) OBVIOUS
<1>0. n \in Nat BY <1>n
<1>1. IsChain(P, cs, "code") /\ IsChain(P, ads, "adj") /\ Sized(P) /\ Numbered(P, cs) BY DEF Chained
<1>2. SameShape(P, Q) /\ Len(Q) = n /\ \A b \in 1..n : Q[b].kind = P[b].kind /\ Len(Q[b].tup) = Len(P[b].tup)
  BY <1>n DEF Edits, SameShape
<1>3. IsChain(Q, cs, "code") /\ IsChain(Q, ads, "adj") BY <1>1, <1>2, ShapeChain
<1>4. Sized(Q) BY <1>1, <1>2, <1>n DEF Sized
<1>5. cs \in Seq(1..n) BY <1>1, <1>n DEF IsChain
<1>6. \A j \in 1..Len(cs) : cs[j] \in 1..n /\ P[cs[j]].kind = "code"
  <2> TAKE j \in 1..Len(cs)
  <2>1. cs[j] \in 1..n BY ONLY <1>0, <1>5, j \in 1..Len(cs)
  <2> QED BY <1>1, <1>n, <2>1 DEF IsChain
<1>7. ASSUME NEW j \in 1..Len(cs), NEW i \in 1..Len(P[cs[j]].tup)
      PROVE  Q[cs[j]].tup[i].node = P[cs[j]].tup[i].node
  <2> DEFINE p == <<cs[j], i>>
  <2>b. PICK b : b = cs[j] OBVIOUS
  <2>1. b \in 1..n /\ P[b].kind = "code" /\ i \in 1..Len(P[b].tup) BY <1>6, <2>b
  <2>2. Len(P[b].tup) \in Nat
    <3>1. P[b] \in PageType BY <1>n, <2>1, ElementOfSeq
    <3> QED BY <3>1, PageIs
  <2>3. p \in Nat \X Nat /\ p[1] = b /\ p[2] = i BY <1>0, <2>b, <2>1, <2>2
  <2> HIDE DEF p
  <2>4. p \in Spots(P, "code") BY <1>n, <2>1, <2>3 DEF Spots
  <2>5. At(Q, p).node = At(P, p).node BY <2>4 DEF Edits, SameCode
  <2> QED BY <2>b, <2>3, <2>5 DEF At
<1>8. Numbered(Q, cs)
  <2> SUFFICES ASSUME NEW j \in 1..Len(cs)
               PROVE  /\ j < Len(cs) => Len(Q[cs[j]].tup) = CodeCap
                      /\ \A i \in 1..Len(Q[cs[j]].tup) : Q[cs[j]].tup[i].node = (j - 1) * CodeCap + i - 1
    BY DEF Numbered
  <2>1. /\ j < Len(cs) => Len(P[cs[j]].tup) = CodeCap
        /\ \A i \in 1..Len(P[cs[j]].tup) : P[cs[j]].tup[i].node = (j - 1) * CodeCap + i - 1
    BY <1>1 DEF Numbered
  <2>2. Len(Q[cs[j]].tup) = Len(P[cs[j]].tup) BY <1>2, <1>6
  <2>3. \A i \in 1..Len(P[cs[j]].tup) : Q[cs[j]].tup[i].node = P[cs[j]].tup[i].node BY <1>7
  <2> QED BY ONLY <2>1, <2>2, <2>3
<1>9. cs # <<>> => Len(cs) \in 1..Len(cs) BY <1>0, <1>5
<1>10. Total(Q, cs) = Total(P, cs)
  <2>1. cs # <<>> => Len(Q[cs[Len(cs)]].tup) = Len(P[cs[Len(cs)]].tup) BY <1>2, <1>6, <1>9
  <2> QED BY <2>1 DEF Total
<1> QED BY <1>1, <1>3, <1>4, <1>8, <1>10 DEF Chained
LEMMA NoEdit ==
  ASSUME NEW P \in Seq(PageType) PROVE Edits(P, P)
BY DEF Edits, SameShape, SameCode, SameAdj
LEMMA GrewKept ==
  ASSUME NEW P, NEW Q, NEW kind \in Kinds, NEW tup, NEW q, Grew(P, Q, kind, tup, q),
         NEW n, tup.node >= n
  PROVE  Kept(P, Q, n)
<1>1. /\ Len(P) <= Len(Q) /\ \A b \in 1..Len(P) : Q[b].kind = P[b].kind
      /\ Spots(Q, kind) = Spots(P, kind) \cup {q} /\ At(Q, q) = tup
      /\ \A k : k # kind => Spots(Q, k) = Spots(P, k)
      /\ \A k : \A p \in Spots(P, k) : At(Q, p) = At(P, p)
  BY DEF Grew
<1>2. \A k : Spots(P, k) \subseteq Spots(Q, k) BY <1>1
<1>3. \A p \in Spots(P, "code") : p \in Spots(Q, "code") /\ SameCode(At(P, p), At(Q, p)) BY <1>1, <1>2 DEF SameCode
<1>4. \A p \in Spots(P, "adj") : p \in Spots(Q, "adj") /\ SameAdj(At(P, p), At(Q, p)) BY <1>1, <1>2 DEF SameAdj
<1>5. ASSUME NEW k \in Kinds, NEW p \in Spots(Q, k) PROVE p \in Spots(P, k) \/ At(Q, p).node >= n
  <2>1. CASE k = kind BY <1>1, <2>1
  <2>2. CASE k # kind BY <1>1, <2>2
  <2> QED BY <2>1, <2>2
<1> QED BY <1>1, <1>3, <1>4, <1>5 DEF Kept

\* The pages and the metapage move on, and the generation with them; d is how
\* often VACUUM has raised it
FlagsKept == \A p \in CodeSpots : At(page', p).dead = At(page, p).dead
Moved(cs, ads, cs2, ads2, d) ==
  /\ Kept(page, page', meta.count) /\ Extends(cs, cs2)
  /\ meta.count # 0 => Start(cs2) = Start(cs) /\ Start(ads2) = Start(ads)
  /\ meta.count \in Nat /\ meta'.count \in Nat /\ meta.count <= meta'.count
  /\ d \in Nat /\ meta'.gen = (meta.gen + d + (meta'.count - meta.count)) % Wide
  /\ Vacs \in Nat /\ Vacs' \in Nat /\ Vacs + d <= Vacs'
  /\ d = 0 /\ ~Stale' => ~Stale /\ FlagsKept
OldSpot(n, kind) == \A p \in Spots(page', kind) : At(page', p).node < n => p \in Spots(page, kind)

LEMMA OldSpots ==
  ASSUME Typed, NEW cs, NEW ads, NEW cs2, NEW ads2, NEW d, Moved(cs, ads, cs2, ads2, d),
         page' \in Seq(PageType), NEW n \in Nat, n <= meta.count
  PROVE  OldSpot(n, "code") /\ OldSpot(n, "adj")
<1>1. Kept(page, page', meta.count) /\ meta.count \in Nat BY DEF Moved
<1>2. ASSUME NEW k \in Kinds, NEW p \in Spots(page', k) PROVE At(page', p).node \in Nat
  <2>1. p[1] \in 1..Len(page') /\ p[2] \in 1..Len(page'[p[1]].tup) BY DEF Spots
  <2>2. page'[p[1]] \in PageType BY <2>1, ElementOfSeq
  <2>3. PICK g : g = page'[p[1]] OBVIOUS
  <2>4. g.tup \in Seq(TupleType(g.kind)) /\ g.kind \in Kinds /\ p[2] \in 1..Len(g.tup) BY <2>1, <2>2, <2>3, PageIs
  <2>5. g.tup[p[2]] \in TupleType(g.kind) BY ONLY <2>4, ElementOfSeq
  <2>6. g.tup[p[2]].node \in Nat
    <3>1. \A x \in CodeType : x.node \in Nat BY DEF CodeType
    <3>2. \A x \in AdjType : x.node \in Nat BY DEF AdjType
    <3> QED BY <2>4, <2>5, <3>1, <3>2 DEF TupleType
  <2> QED BY <2>3, <2>6 DEF At
<1>3. ASSUME NEW k \in Kinds, NEW p \in Spots(page', k), At(page', p).node < n PROVE p \in Spots(page, k)
  <2>1. At(page', p).node \in Nat BY <1>2
  <2>2. p \in Spots(page, k) \/ At(page', p).node >= meta.count BY <1>1 DEF Kept
  <2> QED BY <1>1, <1>3, <2>1, <2>2
<1>4. "code" \in Kinds /\ "adj" \in Kinds BY DEF Kinds
<1> QED BY <1>3, <1>4 DEF OldSpot

\* A cache that is left alone
LEMMA AgedKept ==
  ASSUME Typed, NEW cs, NEW ads, NEW cs2, NEW ads2, NEW d, Moved(cs, ads, cs2, ads2, d),
         page' \in Seq(PageType), NEW b \in Backends, cache[b] # NoCache, cache'[b] = cache[b],
         cache[b].key.count <= meta.count,
         UsesCache(b)' => UsesCache(b), NEW k \in Nat, Aged(b, k)
  PROVE  Aged(b, k + d)'
<1>c. PICK c : c = cache[b] OBVIOUS
<1>1. c.key.gen \in 0..(Wide - 1) /\ c.key.count \in Nat
  <2>1. cache[b] \in CacheType(cache[b].key) BY DEF Typed, CacheTyped
  <2>2. c.key \in MetaType BY <1>c, <2>1 DEF CacheType
  <2> QED BY <2>2 DEF MetaType
<1>2. /\ d \in Nat /\ meta.count \in Nat /\ meta'.count \in Nat /\ meta.count <= meta'.count
      /\ meta'.gen = (meta.gen + d + (meta'.count - meta.count)) % Wide
      /\ Vacs \in Nat /\ Vacs' \in Nat /\ Vacs + d <= Vacs'
      /\ d = 0 /\ ~Stale' => ~Stale /\ FlagsKept
  BY DEF Moved
<1>3. /\ k <= IF UsesCache(b) THEN Vacs ELSE Vacs + 1
      /\ meta.gen = (c.key.gen + k + (meta.count - c.key.count)) % Wide
      /\ k = 0 /\ ~Stale => FlagsRight(c)
  BY <1>c DEF Aged
<1>4. k + d <= IF UsesCache(b)' THEN Vacs' ELSE Vacs' + 1
  <2>u. PICK u : u = UsesCache(b)' OBVIOUS
  <2>v. PICK v, w : v = Vacs /\ w = Vacs' OBVIOUS
  <2>1. (u => k <= v) /\ k <= v + 1 /\ v \in Nat /\ w \in Nat /\ v + d <= w /\ d \in Nat
    <3>1. u => UsesCache(b) BY <2>u
    <3>2. v \in Nat /\ w \in Nat /\ v + d <= w /\ d \in Nat BY <1>2, <2>v
    <3>3. k <= IF UsesCache(b) THEN v ELSE v + 1 BY <1>3, <2>v
    <3> QED BY ONLY <3>1, <3>2, <3>3, k \in Nat
  <2>2. k + d <= IF u THEN w ELSE w + 1 BY ONLY <2>1, k \in Nat
  <2> QED BY <2>2, <2>u, <2>v
<1>5. meta'.gen = (c.key.gen + (k + d) + (meta'.count - c.key.count)) % Wide
  <2>v. PICK v, w, g, x, y, z : v = meta.gen /\ w = meta'.gen /\ g = c.key.gen /\ x = c.key.count
                                 /\ y = meta.count /\ z = meta'.count OBVIOUS
  <2>1. /\ g \in Nat /\ x \in Nat /\ y \in Nat /\ z \in Nat /\ x <= y /\ y <= z /\ d \in Nat /\ k \in Nat
        /\ v = (g + k + (y - x)) % Wide /\ w = (v + d + (z - y)) % Wide
    <3>2. g \in Nat
      <4>1. g \in 0..(Wide - 1) BY <1>1, <2>v
      <4> QED BY ONLY <4>1, InWide
    <3>3. v = (g + k + (y - x)) % Wide /\ w = (v + d + (z - y)) % Wide BY <1>2, <1>3, <2>v
    <3>4. x <= y /\ y <= z BY <1>c, <1>2, <2>v
    <3>5. x \in Nat /\ y \in Nat /\ z \in Nat /\ d \in Nat BY <1>1, <1>2, <2>v
    <3> QED BY ONLY <3>2, <3>3, <3>4, <3>5, k \in Nat
  <2>2. PICK i \in Nat, j \in Nat : i = g + k + (y - x) /\ j = d + (z - y) BY ONLY <2>1
  <2>3. v = i % Wide /\ w = (v + j) % Wide
    <3>1. v + j = v + d + (z - y)
      <4>1. v \in 0..(Wide - 1) BY <2>v DEF Typed, MetaType
      <4>2. v \in Nat BY ONLY <4>1, InWide
      <4> QED BY ONLY <2>1, <2>2, <4>2
    <3> QED BY ONLY <2>1, <2>2, <3>1
  <2>4. w = (i + j) % Wide BY ONLY <2>2, <2>3, StepsAdd
  <2>5. i + j = g + (k + d) + (z - x) BY ONLY <2>1, <2>2
  <2>6. w = (g + (k + d) + (z - x)) % Wide BY ONLY <2>4, <2>5
  <2> QED BY ONLY <2>v, <2>6
<1>6. k + d = 0 /\ ~Stale' => FlagsRight(c)'
  <2> SUFFICES ASSUME k + d = 0, ~Stale' PROVE FlagsRight(c)' OBVIOUS
  <2>1. k = 0 /\ d = 0 BY <1>2
  <2>2. FlagsRight(c) /\ FlagsKept BY <1>2, <1>3, <2>1
  <2>3. OldSpot(c.key.count, "code") BY <1>1, <1>c, OldSpots
  <2>4. \A p \in Spots(page, "code") : SameCode(At(page, p), At(page', p)) BY DEF Moved, Kept
  <2>5. ASSUME NEW p \in Spots(page', "code"), At(page', p).node < c.key.count,
               c.nodes[At(page', p).node] # NotLoaded
        PROVE  c.nodes[At(page', p).node].dead = At(page', p).dead
    <3>1. p \in Spots(page, "code") BY <2>3, <2>5 DEF OldSpot
    <3>2. At(page', p).node = At(page, p).node BY <2>4, <3>1 DEF SameCode
    <3>3. At(page', p).dead = At(page, p).dead BY <2>2, <3>1 DEF FlagsKept, CodeSpots
    <3> QED BY <2>2, <2>5, <3>1, <3>2, <3>3 DEF FlagsRight, CodeSpots
  <2> QED BY <2>5 DEF FlagsRight, CodeSpots
<1>7. cache'[b] = c BY <1>c
<1> QED BY <1>4, <1>5, <1>6, <1>7 DEF Aged
LEMMA CacheKept ==
  ASSUME Typed, NEW cs, NEW ads, NEW cs2, NEW ads2, NEW d, Moved(cs, ads, cs2, ads2, d),
         Chained(page, cs, ads), meta.count <= Total(page, cs),
         page' \in Seq(PageType), NEW b \in Backends, CacheOk(cs, ads, b), cache'[b] = cache[b],
         cache[b] # NoCache => Ready(cs, cache[b], pc'[b]),
         UsesCache(b)' => UsesCache(b)
  PROVE  CacheOk(cs2, ads2, b)'
<1>1. SUFFICES ASSUME cache[b] # NoCache PROVE CacheOk(cs2, ads2, b)' BY DEF CacheOk
<1>c. PICK c : c = cache[b] OBVIOUS
<1>l. PICK label : label = pc'[b] OBVIOUS
<1>2. c \in CacheType(c.key) BY <1>c, <1>1 DEF Typed, CacheTyped
<1>3. c.key.count \in Nat /\ c.pageNo \in Nat BY <1>2 DEF CacheType, MetaType
<1>4. /\ KeyOk(cs, ads, c.key) /\ NodesOk(c) /\ CellsOk(c) /\ Ready(cs, c, label)
      /\ \E k \in Nat : Aged(b, k)
  BY <1>c, <1>l, <1>1 DEF CacheOk
<1>5. /\ c.key.count # 0 /\ c.key.count <= meta.count /\ Levels(c.key)
      /\ c.key.codeStart = Start(cs) /\ c.key.adjStart = Start(ads)
  BY <1>4 DEF KeyOk
<1>6. /\ Kept(page, page', meta.count) /\ Extends(cs, cs2)
      /\ meta.count # 0 => Start(cs2) = Start(cs) /\ Start(ads2) = Start(ads)
      /\ meta.count \in Nat /\ meta'.count \in Nat /\ meta.count <= meta'.count
  BY DEF Moved
<1>7. OldSpot(c.key.count, "code") /\ OldSpot(c.key.count, "adj") BY <1>3, <1>5, OldSpots
<1>8. KeyOk(cs2, ads2, c.key)'
  <2>1. c.key.count <= meta'.count /\ meta.count # 0 BY <1>3, <1>5, <1>6
  <2> QED BY <1>5, <1>6, <2>1 DEF KeyOk
<1>9. NodesOk(c)'
  <2>1. ASSUME NEW p \in Spots(page', "code"), At(page', p).node < c.key.count
        PROVE  LET t == At(page', p) IN
          \/ c.nodes[t.node] = NotLoaded
          \/ /\ c.nodes[t.node].node = t.node /\ c.nodes[t.node].tid = t.tid
             /\ c.nodes[t.node].row = t.row /\ (c.nodes[t.node].dead => t.dead)
    <3>t. PICK s, t : s = At(page, p) /\ t = At(page', p) OBVIOUS
    <3>1. p \in Spots(page, "code") BY <1>7, <2>1 DEF OldSpot
    <3>2. SameCode(s, t) BY <1>6, <3>1, <3>t DEF Kept
    <3>3. s.node < c.key.count BY <2>1, <3>2, <3>t DEF SameCode
    <3>4. \/ c.nodes[s.node] = NotLoaded
          \/ /\ c.nodes[s.node].node = s.node /\ c.nodes[s.node].tid = s.tid
             /\ c.nodes[s.node].row = s.row /\ (c.nodes[s.node].dead => s.dead)
      BY <1>4, <3>1, <3>3, <3>t DEF NodesOk, CodeSpots
    <3> QED BY <3>2, <3>4, <3>t DEF SameCode
  <2> QED BY <2>1 DEF NodesOk, CodeSpots
<1>10. CellsOk(c)'
  <2>1. ASSUME NEW n \in 0..(c.key.count - 1), NEW l \in 0..TopLevel
        PROVE  LET a == c.adj[n][l] IN
          /\ (ListOk(n, l, a.nbrs))'
          /\ a.blk # Nil => /\ <<a.blk, a.off>> \in Spots(page', "adj") /\ At(page', <<a.blk, a.off>>).node = n
                            /\ At(page', <<a.blk, a.off>>).level = l
    <3>a. PICK a : a = c.adj[n][l] OBVIOUS
    <3>p. PICK p : p = <<a.blk, a.off>> OBVIOUS
    <3>1. /\ ListOk(n, l, a.nbrs)
          /\ a.blk # Nil => p \in Spots(page, "adj") /\ At(page, p).node = n /\ At(page, p).level = l
      BY <1>4, <3>a, <3>p DEF CellsOk, AdjSpots
    <3>2. ListOk(n, l, a.nbrs)'
      <4>1. \A x \in a.nbrs : x \in NodeIds /\ x \in Nat BY <3>1, Basics DEF ListOk
      <4>2. \A x \in a.nbrs : x <= meta'.count BY <1>6, <3>1, <4>1 DEF ListOk
      <4> QED BY <3>1, <4>2 DEF ListOk
    <3>3. a.blk # Nil => p \in Spots(page', "adj") /\ At(page', p).node = n /\ At(page', p).level = l
      BY <1>6, <3>1 DEF Kept, SameAdj
    <3> QED BY <3>2, <3>3, <3>a, <3>p
  <2> QED BY <2>1 DEF CellsOk, AdjSpots
<1>11. ASSUME NEW B, NEW C, Reached(c, B), \A p \in Spots(page, "adj") : p[1] \in C => p[1] \in B
       PROVE  Reached(c, C)'
  <2>1. ASSUME NEW p \in Spots(page', "adj"), p[1] \in C, At(page', p).node < c.key.count
        PROVE  c.adj[At(page', p).node][At(page', p).level].blk # Nil
    <3>1. p \in Spots(page, "adj") BY <1>7, <2>1 DEF OldSpot
    <3>2. At(page', p).node = At(page, p).node /\ At(page', p).level = At(page, p).level
      BY <1>6, <3>1 DEF Kept, SameAdj
    <3> QED BY <1>11, <2>1, <3>1, <3>2 DEF Reached, AdjSpots
  <2> QED BY <2>1 DEF Reached, AdjSpots
<1>12. Ready(cs2, c, label)'
  <2>1. label = "loadCode" => c.pageNo < Len(cs)
    <3>1. label = "loadCode" => c.pageNo * CodeCap < c.key.count BY <1>4 DEF Ready
    <3>2. Total(page, cs) \in Nat /\ (c.pageNo * CodeCap < Total(page, cs) => c.pageNo < Len(cs))
      BY <1>3, PagesOfNodes
    <3>3. c.pageNo * CodeCap \in Nat
      <4>1. CodeCap \in Nat BY Basics
      <4> QED BY <1>3, <4>1
    <3> QED BY <1>3, <1>5, <1>6, <3>1, <3>2, <3>3
  <2>2. label = "loadCode" =>
       /\ c.pageNo * CodeCap < c.key.count /\ c.adjBlk = c.key.adjStart
       /\ \A n \in 0..(c.key.count - 1) : n < c.pageNo * CodeCap => c.nodes[n] # NotLoaded
       /\ ~c.mapped => \A j \in 1..c.pageNo : cs2[j] = c.key.codeStart + j - 1
    <3>1. Len(cs) \in Nat BY DEF Chained, IsChain
    <3>2. label = "loadCode" => \A j \in 1..c.pageNo : cs2[j] = cs[j]
      BY <1>3, <1>6, <2>1, <3>1 DEF Extends
    <3> QED BY <1>4, <3>2 DEF Ready
  <2>3. label = "loadAdj" => /\ c.adjBlk \in 1..Len(page') /\ page'[c.adjBlk].kind = "adj"
                             /\ Reached(c, 1..(c.adjBlk - 1))'
    <3>1. SUFFICES ASSUME label = "loadAdj"
                   PROVE  /\ c.adjBlk \in 1..Len(page') /\ page'[c.adjBlk].kind = "adj"
                          /\ Reached(c, 1..(c.adjBlk - 1))'
      OBVIOUS
    <3>2. c.adjBlk \in 1..Len(page) /\ page[c.adjBlk].kind = "adj" /\ Reached(c, 1..(c.adjBlk - 1))
      BY <1>4, <3>1 DEF Ready, Blocks
    <3>3. Len(page) \in Nat /\ Len(page') \in Nat /\ Len(page) <= Len(page') BY <1>6 DEF Kept, Typed
    <3>4. c.adjBlk \in 1..Len(page') BY <3>2, <3>3
    <3>5. page'[c.adjBlk].kind = "adj" BY <1>6, <3>2 DEF Kept
    <3>6. Reached(c, 1..(c.adjBlk - 1))' BY <1>11, <3>2
    <3> QED BY <3>4, <3>5, <3>6
  <2>4. c.cached => Reached(c, Blocks)'
    <3>1. SUFFICES ASSUME c.cached PROVE Reached(c, Blocks)' OBVIOUS
    <3>b. PICK B, C : B = Blocks /\ C = Blocks' OBVIOUS
    <3>2. Reached(c, B) BY <1>4, <3>1, <3>b DEF Ready
    <3>3. \A p \in Spots(page, "adj") : p[1] \in C => p[1] \in B BY <3>b DEF Spots, Blocks
    <3>4. Reached(c, C)' BY <1>11, <3>2, <3>3
    <3> QED BY <3>4, <3>b
  <2>5. /\ c.cached <=> label \notin {"loadCode", "loadAdj"}
        /\ label # "loadCode" => \A n \in 0..(c.key.count - 1) : c.nodes[n] # NotLoaded
    BY <1>4 DEF Ready
  <2> QED BY <2>2, <2>3, <2>4, <2>5 DEF Ready, Blocks
<1>13. \E k \in Nat : Aged(b, k)'
  <2>1. PICK k \in Nat : Aged(b, k) BY <1>4
  <2>2. cache[b].key.count <= meta.count BY <1>5, <1>c
  <2>3. Aged(b, k + d)' BY <1>1, <2>1, <2>2, AgedKept
  <2>4. k + d \in Nat BY DEF Moved
  <2> QED BY <2>3, <2>4
<1>14. cache'[b] = c BY <1>c
<1> QED BY <1>8, <1>9, <1>10, <1>12, <1>13, <1>14, <1>l DEF CacheOk

LEMMA SpotTyped ==
  ASSUME NEW P \in Seq(PageType), NEW kind \in Kinds, NEW p \in Spots(P, kind)
  PROVE  At(P, p) \in TupleType(kind) /\ At(P, p).node \in Nat
<1>1. p[1] \in 1..Len(P) /\ p[2] \in 1..Len(P[p[1]].tup) /\ P[p[1]].kind = kind BY DEF Spots
<1>2. PICK g : g = P[p[1]] OBVIOUS
<1>3. g \in PageType BY <1>1, <1>2, ElementOfSeq
<1>4. g.tup \in Seq(TupleType(kind)) /\ p[2] \in 1..Len(g.tup) BY <1>1, <1>2, <1>3, PageIs
<1>5. g.tup[p[2]] \in TupleType(kind) BY ONLY <1>4, ElementOfSeq
<1>6. g.tup[p[2]].node \in Nat
  <2>1. \A x \in CodeType : x.node \in Nat BY DEF CodeType
  <2>2. \A x \in AdjType : x.node \in Nat BY DEF AdjType
  <2> QED BY <1>5, <2>1, <2>2 DEF TupleType, Kinds
<1> QED BY <1>2, <1>5, <1>6 DEF At

\* A scan that is left alone: no node of its snapshot is marked
NotMarked(b) ==
  \A p \in CodeSpots, y \in op[b].snap :
    ~At(page, p).dead /\ At(page', p).dead => y[1] # At(page, p).tid
Unmoved(b) == op'[b] = op[b] /\ pc'[b] = pc[b] /\ cache'[b] = cache[b]
LEMMA ScanKept ==
  ASSUME Typed, NEW cs, NEW ads, NEW cs2, NEW ads2, NEW d, Moved(cs, ads, cs2, ads2, d),
         page' \in Seq(PageType), NEW b \in Backends, ScanOk(b), CacheOk(cs, ads, b), Unmoved(b),
         op[b].kind = "scan" => SnapOk(b)' /\ NotMarked(b),
         Scanning(b) => d = 0
  PROVE  ScanOk(b)'
<1>1. SUFFICES ASSUME op[b].kind = "scan" PROVE ScanOk(b)' BY DEF ScanOk, Unmoved
<1>c. PICK c : c = cache[b] OBVIOUS
<1>o. PICK o : o = op[b] OBVIOUS
<1>2. op'[b] = o /\ cache'[b] = c /\ pc'[b] = pc[b] BY <1>c, <1>o DEF Unmoved
<1>3. SnapOk(b)' /\ NotMarked(b) BY <1>1
<1>4. /\ o.due \subseteq o.snap /\ (pc[b] # "done" => o.ret = {})
      /\ pc[b] = "scan" => DueOk(b, meta.count)
      /\ Scanning(b) => c # NoCache /\ DueOk(b, c.key.count) /\ Aged(b, 0)
      /\ pc[b] = "done" => /\ o.due \subseteq o.ret
                           /\ \A x \in o.ret, y \in o.snap : x[1] = y[1] => x = y
  BY <1>1, <1>c, <1>o DEF ScanOk
<1>5. /\ Kept(page, page', meta.count) /\ meta.count \in Nat /\ meta'.count \in Nat
      /\ meta.count <= meta'.count
  BY DEF Moved
<1>6. ASSUME NEW n \in Nat, NEW m \in Nat, n <= m, DueOk(b, n) PROVE DueOk(b, m)'
  <2>1. ASSUME NEW y \in o.due
        PROVE  \E p \in Spots(page', "code") : LET t == At(page', p) IN
                 t.tid = y[1] /\ t.row = y[2] /\ ~t.dead /\ t.node < m
    <3>1. PICK p \in CodeSpots : LET t == At(page, p) IN
                 t.tid = y[1] /\ t.row = y[2] /\ ~t.dead /\ t.node < n
      BY <1>6, <1>o DEF DueOk, HasNode
    <3>s. PICK s, t : s = At(page, p) /\ t = At(page', p) OBVIOUS
    <3>2. s.tid = y[1] /\ s.row = y[2] /\ ~s.dead /\ s.node < n BY <3>1, <3>s
    <3>3. p \in Spots(page', "code") /\ SameCode(s, t) BY <1>5, <3>s DEF Kept, CodeSpots
    <3>4. y \in op[b].snap BY <1>4, <1>o
    <3>5. ~t.dead BY <1>3, <3>2, <3>4, <3>s DEF NotMarked
    <3>6. s.node \in Nat
      <4>1. "code" \in Kinds /\ page \in Seq(PageType) BY DEF Kinds, Typed
      <4> QED BY <3>s, <4>1, SpotTyped DEF CodeSpots
    <3>7. t.node < m BY <1>6, <3>2, <3>3, <3>6 DEF SameCode
    <3> QED BY <3>2, <3>3, <3>5, <3>7, <3>s DEF SameCode
  <2> QED BY <1>2, <2>1 DEF DueOk, HasNode, CodeSpots
<1>7. pc[b] = "scan" => DueOk(b, meta.count)'
  <2>m. PICK m : m = meta'.count OBVIOUS
  <2>1. pc[b] = "scan" => DueOk(b, m)' BY <1>4, <1>5, <1>6, <2>m
  <2> QED BY <2>1, <2>m
<1>8. Scanning(b) => DueOk(b, c.key.count)' /\ Aged(b, 0)'
  <2>1. SUFFICES ASSUME Scanning(b) PROVE DueOk(b, c.key.count)' /\ Aged(b, 0)' OBVIOUS
  <2>2. c # NoCache /\ DueOk(b, c.key.count) /\ Aged(b, 0) /\ d = 0 BY <1>4, <2>1
  <2>3. c.key.count \in Nat /\ c.key.count <= meta.count
    <3>1. cache[b] \in CacheType(cache[b].key) BY <1>c, <2>2 DEF Typed, CacheTyped
    <3>2. c.key \in MetaType BY <1>c, <3>1 DEF CacheType
    <3>3. KeyOk(cs, ads, c.key) BY <1>c, <2>2 DEF CacheOk
    <3> QED BY <3>2, <3>3 DEF MetaType, KeyOk
  <2>4. DueOk(b, c.key.count)' BY <1>6, <2>2, <2>3
  <2>5. UsesCache(b)' => UsesCache(b)
    <3>1. o.kind # "insert" BY <1>1, <1>o
    <3> QED BY <1>2, <3>1 DEF UsesCache, Inserting
  <2>6. Aged(b, 0 + d)'
    <3>1. cache[b] # NoCache /\ cache'[b] = cache[b] /\ cache[b].key.count <= meta.count /\ 0 \in Nat
      BY <1>2, <1>c, <2>2, <2>3
    <3>2. Aged(b, 0) BY <2>2
    <3> QED BY <2>5, <3>1, <3>2, AgedKept
  <2> QED BY <2>2, <2>4, <2>6
<1>9. Scanning(b)' <=> Scanning(b) BY <1>1, <1>2, <1>o DEF Scanning
<1> QED BY <1>2, <1>3, <1>4, <1>7, <1>8, <1>9 DEF ScanOk

\* The metapage keeps all but its generation
SameMeta == meta' = [meta EXCEPT !.gen = meta'.gen]
LEMMA InsertKept ==
  ASSUME NEW cs, NEW ads, NEW b \in Backends, InsertOk(cs, ads, b), Unmoved(b), meta \in MetaType,
         page \in Seq(PageType), Edits(page, page'), SameMeta,
         Inserting(b) => heap'[op[b].tid] = heap[op[b].tid],
         \A p \in CodeSpots : At(page, p).node = meta.count => At(page', p).dead = At(page, p).dead
  PROVE  InsertOk(cs, ads, b)'
<1>i. PICK i : i = op[b] OBVIOUS
<1>1. op'[b] = i /\ cache'[b] = cache[b] /\ pc'[b] = pc[b] BY <1>i DEF Unmoved
<1>2. SUFFICES ASSUME Inserting(b) PROVE InsertOk(cs, ads, b)' BY <1>1, <1>i DEF InsertOk, Inserting
<1>3. meta'.count = meta.count
  <2>1. meta'.count = [meta EXCEPT !.gen = meta'.gen].count BY DEF SameMeta
  <2> QED BY <2>1 DEF MetaType
<1>4. heap'[i.tid] = heap[i.tid] BY <1>2, <1>i
<1>5. \A k : Spots(page', k) = Spots(page, k) BY EditsSpots
<1>6. /\ heap[i.tid].state = "inserting" /\ heap[i.tid].indexed
      /\ meta = [i.meta EXCEPT !.gen = meta.gen]
      /\ i.codeStart = Start(cs) /\ i.adjStart = Start(ads)
      /\ \A l \in 0..NodeLevel[meta.count] :
           /\ Cardinality(i.sel[l]) <= LevelM(l)
           /\ \A n \in i.sel[l] : n < meta.count /\ NodeLevel[n] >= l
      /\ \A x \in i.todo : x[1] \in 0..NodeLevel[meta.count] /\ x[2] \in i.sel[x[1]]
      /\ pc[b] = "link" => i.todo # {}
      /\ Len(i.loc) <= NodeLevel[meta.count] + 1
      /\ ~Writing(b) => i.loc = <<>>
      /\ pc[b] = "adj" => Len(i.loc) <= NodeLevel[meta.count]
      /\ pc[b] = "meta" => Len(i.loc) = NodeLevel[meta.count] + 1
      /\ \A l \in 1..Len(i.loc) : /\ i.loc[l] \in AdjSpots /\ At(page, i.loc[l]).node = meta.count
                                  /\ At(page, i.loc[l]).level = l - 1
      /\ Writing(b) => \A p \in CodeSpots : LET c == At(page, p) IN
           c.node = meta.count => c.tid = i.tid /\ c.row = heap[i.tid].row /\ ~c.dead
      /\ meta.count = 0 => pc[b] \in {"code", "adj", "meta"}
      /\ UsesCache(b) => cache[b] # NoCache /\ cache[b].key = i.meta
  BY <1>2, <1>i DEF InsertOk
<1>7. meta' = [i.meta EXCEPT !.gen = meta'.gen]
  <2>g. PICK g, m : g = meta'.gen /\ m = meta OBVIOUS
  <2>1. meta' = [m EXCEPT !.gen = g] BY <2>g DEF SameMeta
  <2>2. m = [i.meta EXCEPT !.gen = m.gen] BY <1>6, <2>g
  <2>3. [m EXCEPT !.gen = g] = [i.meta EXCEPT !.gen = g] BY ONLY <2>2
  <2> QED BY <2>1, <2>3, <2>g
<1>8. \A l \in 1..Len(i.loc) : /\ i.loc[l] \in Spots(page', "adj") /\ At(page', i.loc[l]).node = meta.count
                               /\ At(page', i.loc[l]).level = l - 1
  <2> TAKE l \in 1..Len(i.loc)
  <2>1. i.loc[l] \in Spots(page, "adj") /\ At(page, i.loc[l]).node = meta.count /\ At(page, i.loc[l]).level = l - 1
    BY <1>6 DEF AdjSpots
  <2>2. SameAdj(At(page, i.loc[l]), At(page', i.loc[l])) BY <2>1 DEF Edits
  <2> QED BY <1>5, <2>1, <2>2 DEF SameAdj
<1>9. Writing(b) => \A p \in Spots(page', "code") : LET c == At(page', p) IN
        c.node = meta.count => c.tid = i.tid /\ c.row = heap[i.tid].row /\ ~c.dead
  <2>1. SUFFICES ASSUME Writing(b), NEW p \in Spots(page', "code"), At(page', p).node = meta.count
                 PROVE  At(page', p).tid = i.tid /\ At(page', p).row = heap[i.tid].row /\ ~At(page', p).dead
    OBVIOUS
  <2>2. p \in Spots(page, "code") BY <1>5
  <2>3. SameCode(At(page, p), At(page', p)) BY <2>2 DEF Edits
  <2>4. At(page, p).node = meta.count BY <2>1, <2>3 DEF SameCode
  <2>5. At(page', p).dead = At(page, p).dead BY <2>2, <2>4 DEF CodeSpots
  <2>6. At(page, p).tid = i.tid /\ At(page, p).row = heap[i.tid].row /\ ~At(page, p).dead
    BY <1>6, <2>1, <2>2, <2>4 DEF CodeSpots
  <2> QED BY <2>3, <2>5, <2>6 DEF SameCode
<1>10. (Writing(b)' <=> Writing(b)) /\ (UsesCache(b)' <=> UsesCache(b)) /\ Inserting(b)'
  BY <1>1, <1>2, <1>i DEF Writing, UsesCache, Inserting
<1>11. UsesCache(b)' => cache'[b] # NoCache /\ cache'[b].key = i.meta BY <1>1, <1>6, <1>10
<1> QED BY <1>1, <1>3, <1>4, <1>6, <1>7, <1>8, <1>9, <1>10, <1>11 DEF InsertOk, AdjSpots, CodeSpots

\* Where tuples of adjacency lists are
WritesAlike == \A b \in Backends : /\ Writing(b)' <=> Writing(b)
                                   /\ Writing(b) => op'[b].loc = op[b].loc
LEMMA SameMetaIs ==
  ASSUME meta \in MetaType, SameMeta
  PROVE  /\ meta'.count = meta.count /\ meta'.codeStart = meta.codeStart /\ meta'.adjStart = meta.adjStart
         /\ meta'.entry = meta.entry /\ meta'.maxLevel = meta.maxLevel
<1>g. PICK g : g = meta'.gen OBVIOUS
<1>1. meta' = [meta EXCEPT !.gen = g] BY <1>g DEF SameMeta
<1> QED BY <1>1 DEF MetaType
LEMMA PlacedKept ==
  ASSUME NEW cs, NEW ads, page \in Seq(PageType), meta \in MetaType, Placed(cs, ads), Chained(page, cs, ads),
         Edits(page, page'), SameMeta, WritesAlike
  PROVE  Placed(cs, ads)'
<1>0. /\ meta'.count = meta.count /\ meta'.codeStart = meta.codeStart /\ meta'.adjStart = meta.adjStart
  BY SameMetaIs
<1>1. Total(page', cs) = Total(page, cs) BY EditsChained
<1>2. \A k : Spots(page', k) = Spots(page, k) BY EditsSpots
<1>3. \A p \in Spots(page, "adj") : At(page', p).node = At(page, p).node /\ At(page', p).level = At(page, p).level
  BY DEF Edits, SameAdj
<1>4. (\E b \in Backends : Writing(b)') <=> \E b \in Backends : Writing(b) BY DEF WritesAlike
<1>5. \A n, l \in Nat : (AdjNew(n, l)' <=> AdjNew(n, l)) /\ (AdjOf(n, l)' <=> AdjOf(n, l))
  <2> TAKE n, l \in Nat
  <2>1. AdjNew(n, l)' <=> AdjNew(n, l)
    <3>1. AdjNew(n, l)' <=> \E b \in Backends : Writing(b)' /\ n = meta.count /\ l < Len(op'[b].loc)
      BY <1>0 DEF AdjNew
    <3>2. \A b \in Backends : (Writing(b)' /\ n = meta.count /\ l < Len(op'[b].loc))
                               <=> (Writing(b) /\ n = meta.count /\ l < Len(op[b].loc))
      BY DEF WritesAlike
    <3>3. AdjNew(n, l) <=> \E b \in Backends : Writing(b) /\ n = meta.count /\ l < Len(op[b].loc)
      BY DEF AdjNew
    <3> QED BY ONLY <3>1, <3>2, <3>3
  <2>2. AdjOf(n, l)' <=> AdjOf(n, l) BY <1>0 DEF AdjOf
  <2> QED BY <2>1, <2>2
<1>6. /\ Total(page, cs) = IF \E b \in Backends : Writing(b) THEN meta.count + 1 ELSE meta.count
      /\ \A p, q \in Spots(page, "adj") :
           /\ At(page, p).node = At(page, q).node /\ At(page, p).level = At(page, q).level
           => p = q
      /\ \A n, l \in Nat : AdjOf(n, l) \/ AdjNew(n, l) <=>
           \E p \in Spots(page, "adj") : At(page, p).node = n /\ At(page, p).level = l
      /\ meta.codeStart = IF meta.count = 0 THEN Nil ELSE Start(cs)
      /\ meta.adjStart = IF meta.count = 0 THEN Nil ELSE Start(ads)
  BY DEF Placed, AdjSpots
<1>7. \A p, q \in Spots(page', "adj") :
        /\ At(page', p).node = At(page', q).node /\ At(page', p).level = At(page', q).level
        => p = q
  BY <1>2, <1>3, <1>6
<1>8. \A n, l \in Nat : AdjOf(n, l)' \/ AdjNew(n, l)' <=>
        \E p \in Spots(page', "adj") : At(page', p).node = n /\ At(page', p).level = l
  <2> TAKE n, l \in Nat
  <2>1. (\E p \in Spots(page', "adj") : At(page', p).node = n /\ At(page', p).level = l)
        <=> \E p \in Spots(page, "adj") : At(page, p).node = n /\ At(page, p).level = l
    BY ONLY <1>2, <1>3
  <2>2. (AdjNew(n, l)' <=> AdjNew(n, l)) /\ (AdjOf(n, l)' <=> AdjOf(n, l)) BY <1>5
  <2>3. AdjOf(n, l) \/ AdjNew(n, l) <=>
           \E p \in Spots(page, "adj") : At(page, p).node = n /\ At(page, p).level = l BY <1>6
  <2> QED BY ONLY <2>1, <2>2, <2>3
<1>9. /\ Total(page', cs) = IF \E b \in Backends : Writing(b)' THEN meta'.count + 1 ELSE meta'.count
      /\ meta'.codeStart = IF meta'.count = 0 THEN Nil ELSE Start(cs)
      /\ meta'.adjStart = IF meta'.count = 0 THEN Nil ELSE Start(ads)
  BY <1>0, <1>1, <1>4, <1>6
<1> QED BY <1>7, <1>8, <1>9 DEF Placed, AdjSpots

\* A VACUUM that is left alone; new tuples are not of dead rows
LEMMA VacKept ==
  ASSUME Typed, NEW cs, NEW ads, NEW cs2, NEW ads2, NEW d, Moved(cs, ads, cs2, ads2, d),
         Chained(page, cs, ads), page' \in Seq(PageType), VacOk(cs, ads), vac' = vac, pc'[Vacuum] = pc[Vacuum],
         pc[Vacuum] # "idle" =>
           /\ \A t \in vac.dead : heap'[t].state = heap[t].state
           /\ \A p \in Spots(page', "code") : p \notin CodeSpots => At(page', p).tid \notin vac.dead
  PROVE  VacOk(cs2, ads2)'
<1>1. SUFFICES ASSUME pc[Vacuum] # "idle" PROVE VacOk(cs2, ads2)' BY DEF VacOk
<1>v. PICK v : v = vac OBVIOUS
<1>2. v \in VacOp BY <1>v, <1>1 DEF Typed, VacTyped
<1>3. v.pageNo \in Nat /\ v.meta.count \in Nat BY <1>2 DEF VacOp, MetaType
<1>4. /\ v.meta.count # 0 /\ v.meta.count <= meta.count
      /\ v.meta.codeStart = Start(cs) /\ v.meta.adjStart = Start(ads)
      /\ \A t \in v.dead : heap[t].state = "dead"
      /\ \A p \in CodeSpots : LET c == At(page, p) IN
           /\ c.node >= v.meta.count => c.dead \/ c.tid \notin v.dead
           /\ pc[Vacuum] = "vacCode" /\ c.node < v.meta.count => p[1] <= v.nblocks
           /\ pc[Vacuum] = "vacCode" /\ c.node < v.pageNo * CodeCap => c.dead \/ c.tid \notin v.dead
           /\ pc[Vacuum] \in {"vacAdj", "vacEnd"} => c.dead \/ c.tid \notin v.dead
      /\ pc[Vacuum] = "vacLock" => ~v.changed /\ v.pageNo = 0 /\ v.blk = Start(cs)
      /\ pc[Vacuum] = "vacCode" => /\ v.pageNo < Len(cs) /\ v.blk = cs[v.pageNo + 1]
                                   /\ v.pageNo * CodeCap < v.meta.count
      /\ pc[Vacuum] = "vacAdj" => v.blk \in Blocks /\ page[v.blk].kind = "adj"
  BY <1>1, <1>v DEF VacOk
<1>5. /\ Kept(page, page', meta.count) /\ Extends(cs, cs2)
      /\ meta.count # 0 => Start(cs2) = Start(cs) /\ Start(ads2) = Start(ads)
      /\ meta.count \in Nat /\ meta'.count \in Nat /\ meta.count <= meta'.count
  BY DEF Moved
<1>6. meta.count # 0 /\ v.meta.count <= meta'.count BY <1>3, <1>4, <1>5
<1>7. ASSUME NEW p \in Spots(page', "code")
      PROVE  LET c == At(page', p) IN
           /\ c.node >= v.meta.count => c.dead \/ c.tid \notin v.dead
           /\ pc[Vacuum] = "vacCode" /\ c.node < v.meta.count => p[1] <= v.nblocks
           /\ pc[Vacuum] = "vacCode" /\ c.node < v.pageNo * CodeCap => c.dead \/ c.tid \notin v.dead
           /\ pc[Vacuum] \in {"vacAdj", "vacEnd"} => c.dead \/ c.tid \notin v.dead
  <2>s. PICK s, t : s = At(page, p) /\ t = At(page', p) OBVIOUS
  <2>1. CASE p \in CodeSpots
    <3>1. SameCode(s, t) BY <1>5, <2>1, <2>s DEF Kept, CodeSpots
    <3>2. /\ s.node >= v.meta.count => s.dead \/ s.tid \notin v.dead
          /\ pc[Vacuum] = "vacCode" /\ s.node < v.meta.count => p[1] <= v.nblocks
          /\ pc[Vacuum] = "vacCode" /\ s.node < v.pageNo * CodeCap => s.dead \/ s.tid \notin v.dead
          /\ pc[Vacuum] \in {"vacAdj", "vacEnd"} => s.dead \/ s.tid \notin v.dead
      BY <1>4, <2>1, <2>s
    <3> QED BY <3>1, <3>2, <2>s DEF SameCode
  <2>2. CASE p \notin CodeSpots
    <3>1. t.tid \notin v.dead BY <1>1, <1>v, <2>2, <2>s
    <3>2. ~(t.node < v.meta.count)
      <4>1. OldSpot(v.meta.count, "code") BY <1>3, <1>4, OldSpots
      <4> QED BY <2>2, <2>s, <4>1 DEF OldSpot, CodeSpots
    <3> QED BY <3>1, <3>2, <2>s
  <2> QED BY <2>1, <2>2
<1>8. pc[Vacuum] = "vacCode" => v.blk = cs2[v.pageNo + 1] /\ v.pageNo < Len(cs2)
  <2>1. Len(cs) \in Nat /\ Len(cs2) >= Len(cs) BY <1>5 DEF Chained, IsChain, Extends
  <2>2. SUFFICES ASSUME pc[Vacuum] = "vacCode" PROVE v.blk = cs2[v.pageNo + 1] /\ v.pageNo < Len(cs2) OBVIOUS
  <2>3. v.pageNo < Len(cs) /\ v.blk = cs[v.pageNo + 1] BY <1>4, <2>2
  <2>4. v.pageNo + 1 \in 1..Len(cs) BY <1>3, <2>1, <2>3
  <2>5. Len(cs2) \in Int /\ Len(cs) <= Len(cs2) /\ cs2[v.pageNo + 1] = cs[v.pageNo + 1]
    <3>1. Len(cs) <= Len(cs2) /\ cs2[v.pageNo + 1] = cs[v.pageNo + 1] BY <1>5, <2>4 DEF Extends
    <3> QED BY <2>1, <3>1
  <2> QED BY <1>3, <2>1, <2>3, <2>5
<1>9. pc[Vacuum] = "vacAdj" => v.blk \in Blocks' /\ page'[v.blk].kind = "adj"
  <2>1. Len(page) \in Nat /\ Len(page') \in Nat BY DEF Typed
  <2> QED BY <1>4, <1>5, <2>1 DEF Kept, Blocks
<1>10. vac' = v /\ \A t \in v.dead : heap'[t].state = "dead" BY <1>1, <1>4, <1>v
<1> QED BY <1>4, <1>5, <1>6, <1>7, <1>8, <1>9, <1>10 DEF VacOk, CodeSpots

\* A step of b, or of no backend, that does not append: what it leaves alone
Touches(b) == pc'[Vacuum] = pc[Vacuum] /\ \A a \in Backends : a # b => Unmoved(a)
Alone(b) == \A a \in Backends : a # b => Unmoved(a)
Spared(a) ==
  /\ op[a].kind = "scan" => SnapOk(a)' /\ NotMarked(a)
  /\ Inserting(a) => heap'[op[a].tid] = heap[op[a].tid]
LEMMA Quiet ==
  ASSUME Typed, NEW cs, NEW ads, NEW d, Good(cs, ads), Edits(page, page'), SameMeta,
         Moved(cs, ads, cs, ads, d), NEW b, Alone(b), WritesAlike,
         \A a \in Backends : a # b => Spared(a) /\ (Scanning(a) => d = 0),
         \A p \in CodeSpots : At(page, p).node = meta.count => At(page', p).dead = At(page, p).dead,
         b \in Backends => InsertOk(cs, ads, b)' /\ CacheOk(cs, ads, b)' /\ ScanOk(b)'
  PROVE  /\ Chained(page', cs, ads) /\ Placed(cs, ads)' /\ Levels(meta')
         /\ \A a \in Backends : InsertOk(cs, ads, a)' /\ CacheOk(cs, ads, a)' /\ ScanOk(a)'
<1>1. page \in Seq(PageType) /\ meta \in MetaType /\ page' \in Seq(PageType) BY DEF Typed, Edits
<1>2. /\ Chained(page, cs, ads) /\ Placed(cs, ads) /\ Levels(meta)
      /\ \A a \in Backends : InsertOk(cs, ads, a) /\ CacheOk(cs, ads, a) /\ ScanOk(a)
  BY DEF Good
<1>3. Chained(page', cs, ads) BY <1>1, <1>2, EditsChained
<1>4. Placed(cs, ads)' BY <1>1, <1>2, PlacedKept
<1>5. Levels(meta')
  <2>1. /\ meta'.count = meta.count /\ meta'.entry = meta.entry /\ meta'.maxLevel = meta.maxLevel
    BY <1>1, SameMetaIs
  <2> QED BY <1>2, <2>1 DEF Levels
<1>6. ASSUME NEW a \in Backends, a # b PROVE InsertOk(cs, ads, a)' /\ CacheOk(cs, ads, a)' /\ ScanOk(a)'
  <2>1. Unmoved(a) /\ Spared(a) BY <1>6 DEF Alone
  <2>2. InsertOk(cs, ads, a) /\ CacheOk(cs, ads, a) /\ ScanOk(a) BY <1>2
  <2>3. InsertOk(cs, ads, a)'
    <3>1. Inserting(a) => heap'[op[a].tid] = heap[op[a].tid] BY <2>1 DEF Spared
    <3> QED BY <1>1, <2>1, <2>2, <3>1, InsertKept
  <2>4. CacheOk(cs, ads, a)'
    <3>1. meta.count <= Total(page, cs)
      <4>1. meta.count \in Nat BY <1>1 DEF MetaType
      <4> QED BY <1>2, <4>1 DEF Placed
    <3>2. cache[a] # NoCache => Ready(cs, cache[a], pc'[a]) BY <2>1, <2>2 DEF Unmoved, CacheOk
    <3>3. UsesCache(a)' => UsesCache(a) BY <2>1 DEF Unmoved, UsesCache, Inserting
    <3>4. cache'[a] = cache[a] BY <2>1 DEF Unmoved
    <3> QED BY <1>1, <1>2, <2>2, <3>1, <3>2, <3>3, <3>4, CacheKept
  <2>5. ScanOk(a)'
    <3>1. op[a].kind = "scan" => SnapOk(a)' /\ NotMarked(a) BY <2>1 DEF Spared
    <3>2. Scanning(a) => d = 0 BY <1>6
    <3> QED BY <1>1, <2>1, <2>2, <3>1, <3>2, ScanKept
  <2> QED BY <2>3, <2>4, <2>5
<1>7. \A a \in Backends : InsertOk(cs, ads, a)' /\ CacheOk(cs, ads, a)' /\ ScanOk(a)' BY <1>6
<1> QED BY <1>3, <1>4, <1>5, <1>7

\* A step that changes neither pages nor metapage, and of the heap only rows
\* that no one else has
Light(b) ==
  /\ page' = page /\ meta' = meta /\ vac' = vac /\ bounds'.vacuums = bounds.vacuums
  /\ pc'[Vacuum] = pc[Vacuum] /\ Alone(b)
  /\ \A t \in Tids : heap[t].state = "dead" => heap'[t] = heap[t]
  /\ \A t \in Tids : heap[t].state = "live" => heap'[t].row = heap[t].row /\ heap'[t].state \in {"live", "dead"}
  /\ \A a \in Backends : a # b /\ Inserting(a) => heap'[op[a].tid] = heap[op[a].tid]
LEMMA LightMoves ==
  ASSUME Typed, Turns, NEW cs, NEW ads, Chained(page, cs, ads), NEW b, Light(b)
  PROVE  Moved(cs, ads, cs, ads, 0) /\ Edits(page, page') /\ SameMeta /\ Vacs' = Vacs /\ Stale' = Stale
<1>1. page' = page /\ meta' = meta /\ vac' = vac /\ bounds'.vacuums = bounds.vacuums /\ pc'[Vacuum] = pc[Vacuum]
  BY DEF Light
<1>2. page \in Seq(PageType) /\ meta \in MetaType /\ bounds \in Counters BY DEF Typed
<1>3. Edits(page, page') BY <1>1, <1>2, NoEdit
<1>4. Kept(page, page', meta.count) BY <1>2, <1>3, EditsKept
<1>5. SameMeta BY <1>1, <1>2 DEF SameMeta, MetaType
<1>6. Vacs' = Vacs /\ (Stale' <=> Stale) /\ (Stale' = Stale) BY <1>1 DEF Vacs, Stale, Marking
<1>7. Vacs \in Nat /\ Vacs + 0 <= Vacs
  <2>1. bounds.vacuums \in Nat BY <1>2 DEF Counters
  <2>2. pc[Vacuum] # "idle" => bounds.vacuums # 0 BY DEF Turns
  <2> QED BY <2>1, <2>2 DEF Vacs
<1>8. Extends(cs, cs)
  <2>1. Len(cs) \in Nat BY DEF Chained, IsChain
  <2> QED BY <2>1 DEF Extends
<1>9. meta.count \in Nat /\ meta.gen \in 0..(Wide - 1) BY <1>2 DEF MetaType
<1>10. meta.gen = (meta.gen + 0 + (meta.count - meta.count)) % Wide
  <2>1. PICK g : g = meta.gen OBVIOUS
  <2>2. g \in 0..(Wide - 1) BY <1>9, <2>1
  <2>3. g \in Nat /\ g = g % Wide BY ONLY <2>2, InWide
  <2>4. g + 0 + (meta.count - meta.count) = g BY <1>9, <2>3
  <2> QED BY ONLY <2>1, <2>3, <2>4
<1>11. FlagsKept BY <1>1 DEF FlagsKept
<1> QED BY <1>1, <1>3, <1>4, <1>5, <1>6, <1>7, <1>8, <1>9, <1>10, <1>11 DEF Moved
LEMMA LightStep ==
  ASSUME Typed, Turns, NEW cs, NEW ads, Good(cs, ads), NEW b, Light(b), WritesAlike,
         b \in Backends => InsertOk(cs, ads, b)' /\ CacheOk(cs, ads, b)' /\ ScanOk(b)',
         HeapOk'
  PROVE  Good(cs, ads)'
<1>1. /\ page' = page /\ meta' = meta /\ vac' = vac /\ bounds'.vacuums = bounds.vacuums
      /\ pc'[Vacuum] = pc[Vacuum] /\ Alone(b)
      /\ \A t \in Tids : heap[t].state = "dead" => heap'[t] = heap[t]
      /\ \A t \in Tids : heap[t].state = "live" => heap'[t].row = heap[t].row /\ heap'[t].state \in {"live", "dead"}
      /\ \A a \in Backends : a # b /\ Inserting(a) => heap'[op[a].tid] = heap[op[a].tid]
  BY DEF Light
<1>2. /\ Chained(page, cs, ads) /\ Placed(cs, ads) /\ Levels(meta) /\ Lists /\ VacOk(cs, ads)
      /\ \A a \in Backends : InsertOk(cs, ads, a) /\ CacheOk(cs, ads, a) /\ ScanOk(a)
  BY DEF Good
<1>3. Moved(cs, ads, cs, ads, 0) /\ Edits(page, page') /\ SameMeta BY <1>2, LightMoves
<1>4. ASSUME NEW a \in Backends, a # b PROVE Spared(a)
  <2>1. op[a].kind = "scan" => NotMarked(a) BY <1>1 DEF NotMarked
  <2>2. Inserting(a) => heap'[op[a].tid] = heap[op[a].tid] BY <1>1, <1>4
  <2>3. op[a].kind = "scan" => SnapOk(a)'
    <3>1. SUFFICES ASSUME op[a].kind = "scan" PROVE SnapOk(a)' OBVIOUS
    <3>o. PICK S : S = op[a].snap OBVIOUS
    <3>2. op'[a] = op[a] BY <1>1, <1>4 DEF Alone, Unmoved
    <3>3. \A y \in S : /\ heap[y[1]].row = y[2] /\ heap[y[1]].state \in {"live", "dead"}
                       /\ pc[Vacuum] # "idle" => y[1] \notin vac.dead
      BY <1>2, <3>1, <3>o DEF ScanOk, SnapOk
    <3>4. \A y \in S : y[1] \in Tids
      <4>1. op[a] \in ScanOp
        <5>1. OpTyped(a) BY DEF Typed
        <5>2. op[a] # NoOp /\ op[a] \notin InsertOp BY <3>1 DEF NoOp, InsertOp
        <5> QED BY <5>1, <5>2 DEF OpTyped
      <4>2. S \subseteq Tids \X Nat BY <3>o, <4>1 DEF ScanOp, Version
      <4> QED BY <4>2
    <3>5. \A y \in S : heap'[y[1]].row = y[2] /\ heap'[y[1]].state \in {"live", "dead"}
      BY <1>1, <3>3, <3>4
    <3> QED BY <1>1, <3>2, <3>3, <3>5, <3>o DEF SnapOk
  <2> QED BY <2>1, <2>2, <2>3 DEF Spared
<1>5. \A p \in CodeSpots : At(page, p).node = meta.count => At(page', p).dead = At(page, p).dead BY <1>1
<1>6. /\ Chained(page', cs, ads) /\ Placed(cs, ads)' /\ Levels(meta')
      /\ \A a \in Backends : InsertOk(cs, ads, a)' /\ CacheOk(cs, ads, a)' /\ ScanOk(a)'
  BY <1>1, <1>3, <1>4, <1>5, Quiet
<1>7. Lists' BY <1>1, <1>2 DEF Lists, AdjSpots, ListOk
<1>8. VacOk(cs, ads)'
  <2>1. pc[Vacuum] # "idle" => vac.dead \subseteq Tids
    <3>1. pc[Vacuum] # "idle" => vac \in VacOp BY DEF Typed, VacTyped
    <3> QED BY <3>1 DEF VacOp
  <2>2. pc[Vacuum] # "idle" => \A t \in vac.dead : heap[t].state = "dead" BY <1>2 DEF VacOk
  <2>3. pc[Vacuum] # "idle" => \A t \in vac.dead : heap'[t].state = heap[t].state BY <1>1, <2>1, <2>2
  <2>4. \A p \in Spots(page', "code") : p \in CodeSpots BY <1>1 DEF CodeSpots
  <2>5. page' \in Seq(PageType) BY <1>1 DEF Typed
  <2> QED BY <1>1, <1>2, <1>3, <2>3, <2>4, <2>5, VacKept
<1> QED BY <1>6, <1>7, <1>8 DEF Good

\* What is left to show of the types and the turns after a step of b
LEMMA TypedStep ==
  ASSUME Typed, NEW b \in Backends, Touches(b),
         page' \in Seq(PageType), meta' \in MetaType, heap' \in [Tids -> HeapType], rows' \in Nat,
         bounds' \in Counters, vac' = vac, OpTyped(b)', CacheTyped(b)', meta'.count = meta.count,
         \E x : cache' = [cache EXCEPT ![b] = x], \E x : op' = [op EXCEPT ![b] = x],
         \E x : pc' = [pc EXCEPT ![b] = x]
  PROVE  Typed'
<1>1. /\ cache = [a \in Backends |-> cache[a]] /\ op = [a \in Backends |-> op[a]]
      /\ pc = [p \in Backends \cup {Vacuum} |-> pc[p]]
      /\ VacTyped /\ \A a \in Backends : OpTyped(a) /\ CacheTyped(a)
  BY DEF Typed
<1>2. cache' = [a \in Backends |-> cache'[a]]
  <2>1. PICK x : cache' = [cache EXCEPT ![b] = x] OBVIOUS
  <2> QED BY <1>1, <2>1
<1>3. op' = [a \in Backends |-> op'[a]]
  <2>1. PICK x : op' = [op EXCEPT ![b] = x] OBVIOUS
  <2> QED BY <1>1, <2>1
<1>4. pc' = [p \in Backends \cup {Vacuum} |-> pc'[p]]
  <2>1. PICK x : pc' = [pc EXCEPT ![b] = x] OBVIOUS
  <2> QED BY <1>1, <2>1
<1>5. VacTyped' BY <1>1 DEF VacTyped, Touches
<1>6. ASSUME NEW a \in Backends PROVE OpTyped(a)' /\ CacheTyped(a)'
  <2>1. CASE a = b BY <2>1
  <2>2. CASE a # b
    <3>1. op'[a] = op[a] /\ pc'[a] = pc[a] /\ cache'[a] = cache[a] BY <2>2 DEF Touches, Unmoved
    <3>2. InsertOp' = InsertOp BY DEF InsertOp
    <3>3. OpTyped(a) /\ CacheTyped(a) BY <1>1
    <3>4. OpTyped(a)' BY <3>1, <3>2, <3>3 DEF OpTyped
    <3>5. CacheTyped(a)' BY <3>1, <3>3 DEF CacheTyped
    <3> QED BY <3>4, <3>5
  <2> QED BY <2>1, <2>2
<1> QED BY <1>2, <1>3, <1>4, <1>5, <1>6 DEF Typed
LEMMA TurnsStep ==
  ASSUME Turns, NEW b \in Backends, Touches(b), meta'.count = meta.count, rows' = rows,
         bounds'.new = bounds.new, bounds'.vacuums = bounds.vacuums,
         Inserting(b)' => Inserting(b), Scanning(b)' => Scanning(b) \/ ~Marking
  PROVE  Turns'
<1>1. \A a \in Backends : a # b => (Inserting(a)' <=> Inserting(a)) /\ (Scanning(a)' <=> Scanning(a))
  BY DEF Touches, Unmoved, Inserting, Scanning
<1>2. \A a \in Backends : Inserting(a)' => Inserting(a) BY <1>1
<1>3. Marking' <=> Marking BY DEF Touches, Marking
<1>4. \A a \in Backends : Scanning(a)' => Scanning(a) \/ ~Marking BY <1>1
<1> QED BY <1>2, <1>3, <1>4 DEF Turns, Touches
\* The backend of a step has a value of its own; the others keep theirs
LEMMA OneMoves ==
  ASSUME Typed, NEW b \in Backends, NEW x, NEW y, NEW z,
         cache' = [cache EXCEPT ![b] = x], op' = [op EXCEPT ![b] = y], pc' = [pc EXCEPT ![b] = z]
  PROVE  Touches(b) /\ Alone(b) /\ cache'[b] = x /\ op'[b] = y /\ pc'[b] = z
<1>1. /\ cache = [a \in Backends |-> cache[a]] /\ op = [a \in Backends |-> op[a]]
      /\ pc = [p \in Backends \cup {Vacuum} |-> pc[p]] /\ b # Vacuum
  BY Basics DEF Typed
<1>2. cache'[b] = x /\ \A a \in Backends : a # b => cache'[a] = cache[a] BY <1>1
<1>3. op'[b] = y /\ \A a \in Backends : a # b => op'[a] = op[a] BY <1>1
<1>4. pc'[b] = z /\ pc'[Vacuum] = pc[Vacuum] /\ \A a \in Backends : a # b => pc'[a] = pc[a] BY <1>1
<1> QED BY <1>2, <1>3, <1>4 DEF Touches, Alone, Unmoved
LEMMA SelfMoves ==
  ASSUME Typed, NEW b \in Backends
  PROVE  op = [op EXCEPT ![b] = op[b]] /\ cache = [cache EXCEPT ![b] = cache[b]] /\ pc = [pc EXCEPT ![b] = pc[b]]
<1>1. cache = [a \in Backends |-> cache[a]] BY DEF Typed
<1>2. op = [a \in Backends |-> op[a]] BY DEF Typed
<1>3. pc = [p \in Backends \cup {Vacuum} |-> pc[p]] BY DEF Typed
<1>4. cache = [cache EXCEPT ![b] = cache[b]] BY <1>1
<1>5. op = [op EXCEPT ![b] = op[b]] BY <1>2
<1>6. pc = [pc EXCEPT ![b] = pc[b]] BY <1>3
<1> QED BY <1>4, <1>5, <1>6
LEMMA KindsOf ==
  ASSUME Typed, NEW b \in Backends
  PROVE  /\ Inserting(b) => op[b] \in InsertOp /\ pc[b] \in InsertPcs
         /\ op[b].kind = "scan" => op[b] \in ScanOp /\ pc[b] \in ScanPcs
         /\ pc[b] \in {"link", "select", "code", "adj", "meta"} => Inserting(b)
         /\ pc[b] \in {"scan", "collect", "done"} => op[b].kind = "scan"
         /\ pc[b] \in {"loadCode", "loadAdj"} => Inserting(b) \/ op[b].kind = "scan"
         /\ pc[b] = "idle" => op[b] = NoOp /\ op[b].kind = "none"
         /\ op[b] \in InsertOp => op[b].kind = "insert"
         /\ op[b] \in ScanOp => op[b].kind = "scan"
<1>1. op[b] \in InsertOp => op[b].kind = "insert" BY DEF InsertOp
<1>2. op[b] \in ScanOp => op[b].kind = "scan" BY DEF ScanOp
<1>3. NoOp.kind = "none" BY DEF NoOp
<1>4. OpTyped(b) BY DEF Typed
<1> QED BY <1>1, <1>2, <1>3, <1>4 DEF OpTyped, Inserting, InsertPcs, ScanPcs

\* A step of b that changes neither the pages, the metapage, the heap nor VACUUM
Own(b) ==
  /\ page' = page /\ meta' = meta /\ heap' = heap /\ rows' = rows /\ vac' = vac
  /\ bounds' \in Counters /\ bounds'.new = bounds.new /\ bounds'.vacuums = bounds.vacuums
  /\ Touches(b)
  /\ (\E x : cache' = [cache EXCEPT ![b] = x]) /\ (\E x : op' = [op EXCEPT ![b] = x])
  /\ \E x : pc' = [pc EXCEPT ![b] = x]
LEMMA BackendStep ==
  ASSUME Typed, Turns, NEW cs, NEW ads, Good(cs, ads), NEW b \in Backends, Own(b),
         OpTyped(b)', CacheTyped(b)', Inserting(b)' => Inserting(b), Scanning(b)' => Scanning(b) \/ ~Marking,
         ~Writing(b), ~Writing(b)',
         InsertOk(cs, ads, b)', CacheOk(cs, ads, b)', ScanOk(b)'
  PROVE  Inv'
<1>1. /\ page' = page /\ meta' = meta /\ heap' = heap /\ rows' = rows /\ vac' = vac
      /\ bounds' \in Counters /\ bounds'.new = bounds.new /\ bounds'.vacuums = bounds.vacuums
      /\ Touches(b)
      /\ (\E x : cache' = [cache EXCEPT ![b] = x]) /\ (\E x : op' = [op EXCEPT ![b] = x])
      /\ \E x : pc' = [pc EXCEPT ![b] = x]
  BY DEF Own
<1>2. Typed'
  <2>1. page' \in Seq(PageType) /\ meta' \in MetaType /\ heap' \in [Tids -> HeapType] /\ rows' \in Nat
    BY <1>1 DEF Typed
  <2> QED BY <1>1, <2>1, TypedStep
<1>3. Turns' BY <1>1, TurnsStep
<1>4. Alone(b) /\ pc'[Vacuum] = pc[Vacuum] BY <1>1 DEF Touches, Alone
<1>5. Light(b)
  <2>1. \A t \in Tids : heap[t].state = "live" => heap'[t].row = heap[t].row /\ heap'[t].state \in {"live", "dead"}
    BY <1>1
  <2>2. \A t \in Tids : heap[t].state = "dead" => heap'[t] = heap[t] BY <1>1
  <2>3. \A a \in Backends : a # b /\ Inserting(a) => heap'[op[a].tid] = heap[op[a].tid] BY <1>1
  <2> QED BY <1>1, <1>4, <2>1, <2>2, <2>3 DEF Light
<1>6. WritesAlike
  <2> SUFFICES ASSUME NEW a \in Backends PROVE (Writing(a)' <=> Writing(a)) /\ (Writing(a) => op'[a].loc = op[a].loc)
    BY DEF WritesAlike
  <2>1. CASE a = b BY <2>1
  <2>2. CASE a # b BY <1>4, <2>2 DEF Alone, Unmoved, Writing
  <2> QED BY <2>1, <2>2
<1>7. HeapOk' BY <1>1 DEF Good, HeapOk, CodeSpots, HasNode
<1>8. Good(cs, ads)' BY <1>5, <1>6, <1>7, LightStep
<1> QED BY <1>2, <1>3, <1>8 DEF Inv

LEMMA TypedCache ==
  ASSUME Typed, NEW cs, NEW ads, NEW b \in Backends, CacheOk(cs, ads, b), cache[b] # NoCache
  PROVE  /\ cache[b] \in CacheType(cache[b].key) /\ cache[b].key \in MetaType
         /\ cache[b].key.count \in Nat \ {0} /\ cache[b].key.count <= meta.count
         /\ cache[b].pageNo \in Nat /\ cache[b].cached \in BOOLEAN
         /\ DOMAIN cache[b].nodes = 0..(cache[b].key.count - 1)
         /\ DOMAIN cache[b].adj = 0..(cache[b].key.count - 1)
         /\ cache[b].nodes \in [0..(cache[b].key.count - 1) -> Loaded]
<1>1. cache[b] \in CacheType(cache[b].key) BY DEF Typed, CacheTyped
<1>2. cache[b].key \in MetaType BY <1>1 DEF CacheType
<1>3. cache[b].key.count # 0 /\ cache[b].key.count <= meta.count BY DEF CacheOk, KeyOk
<1>4. cache[b].pageNo \in Nat /\ cache[b].cached \in BOOLEAN BY <1>1 DEF CacheType
<1>5. /\ cache[b].nodes \in [0..(cache[b].key.count - 1) -> Loaded]
      /\ cache[b].adj \in [0..(cache[b].key.count - 1) -> [0..TopLevel -> AdjCell]]
  BY <1>1 DEF CacheType
<1> QED BY <1>1, <1>2, <1>3, <1>4, <1>5 DEF MetaType
\* A backend that keeps its cache
LEMMA SameCache ==
  ASSUME Typed, Turns, NEW cs, NEW ads, Good(cs, ads), NEW b, Light(b), b \in Backends, cache'[b] = cache[b],
         cache[b] # NoCache => Ready(cs, cache[b], pc'[b]), UsesCache(b)' => UsesCache(b)
  PROVE  CacheOk(cs, ads, b)' /\ \A k \in Nat : cache[b] # NoCache /\ Aged(b, k) => Aged(b, k)'
<1>1. Chained(page, cs, ads) /\ Placed(cs, ads) /\ CacheOk(cs, ads, b) BY DEF Good
<1>2. Moved(cs, ads, cs, ads, 0) BY <1>1, LightMoves
<1>3. page' \in Seq(PageType) BY DEF Light, Typed
<1>4. meta.count <= Total(page, cs)
  <2>1. meta.count \in Nat BY DEF Typed, MetaType
  <2> QED BY <1>1, <2>1 DEF Placed
<1>5. CacheOk(cs, ads, b)' BY <1>1, <1>2, <1>3, <1>4, CacheKept
<1>6. ASSUME NEW k \in Nat, cache[b] # NoCache, Aged(b, k) PROVE Aged(b, k)'
  <2>1. cache[b].key.count <= meta.count BY <1>1, <1>6, TypedCache
  <2>2. Aged(b, k + 0)' BY <1>2, <1>3, <1>6, <2>1, AgedKept
  <2>3. k + 0 = k OBVIOUS
  <2> QED BY <2>2, <2>3
<1> QED BY <1>5, <1>6
\* Whether a cache is ready depends on the step only while it is loaded
LEMMA ReadyAlike ==
  ASSUME NEW cs, NEW c, NEW x, NEW y, Ready(cs, c, x),
         x \notin {"loadCode", "loadAdj"}, y \notin {"loadCode", "loadAdj"}
  PROVE  Ready(cs, c, y)
<1>1. /\ c.cached <=> x \notin {"loadCode", "loadAdj"}
      /\ x # "loadCode" => \A n \in 0..(c.key.count - 1) : c.nodes[n] # NotLoaded
      /\ c.cached => Reached(c, Blocks)
  BY DEF Ready
<1>2. x # "loadCode" /\ y # "loadCode" /\ y # "loadAdj" OBVIOUS
<1> QED BY <1>1, <1>2 DEF Ready
LEMMA OwnLight ==
  ASSUME NEW b \in Backends, Own(b)
  PROVE  Light(b)
<1>1. /\ page' = page /\ meta' = meta /\ heap' = heap /\ vac' = vac
      /\ bounds'.vacuums = bounds.vacuums /\ pc'[Vacuum] = pc[Vacuum] /\ Alone(b)
  BY DEF Own, Touches, Alone
<1> QED BY <1>1 DEF Light

-----------------------------------------------------------------------------
(* Scans                                                                   *)

\* What a step of b that only moves its own state has to show
Sets(b, x, y, z) ==
  cache' = [cache EXCEPT ![b] = x] /\ op' = [op EXCEPT ![b] = y] /\ pc' = [pc EXCEPT ![b] = z]
Rests ==
  /\ page' = page /\ meta' = meta /\ heap' = heap /\ rows' = rows /\ vac' = vac
  /\ bounds' \in Counters /\ bounds'.new = bounds.new /\ bounds'.vacuums = bounds.vacuums
LEMMA OwnMoves ==
  ASSUME Typed, NEW b \in Backends, NEW x, NEW y, NEW z, Sets(b, x, y, z), Rests
  PROVE  Own(b) /\ Light(b) /\ cache'[b] = x /\ op'[b] = y /\ pc'[b] = z
<1>0. cache' = [cache EXCEPT ![b] = x] /\ op' = [op EXCEPT ![b] = y] /\ pc' = [pc EXCEPT ![b] = z]
  BY DEF Sets
<1>1. Touches(b) /\ cache'[b] = x /\ op'[b] = y /\ pc'[b] = z BY <1>0, OneMoves
<1>2. Own(b) BY <1>0, <1>1 DEF Own, Rests
<1> QED BY <1>1, <1>2, OwnLight

LEMMA BeginScanKeeps ==
  ASSUME Inv, NEW b \in Backends, BeginScan(b)
  PROVE  Inv'
<1>1. PICK cs, ads : Good(cs, ads) BY DEF Inv
<1>2. Typed /\ Turns BY DEF Inv
<1>x. PICK x : x = [kind |-> "scan", snap |-> Versions(Snapshot), ret |-> {},
                    due |-> Versions({t \in Snapshot : heap[t].indexed})] OBVIOUS
<1>3. /\ pc[b] = "idle" /\ op' = [op EXCEPT ![b] = x] /\ pc' = [pc EXCEPT ![b] = "scan"] /\ cache' = cache
      /\ page' = page /\ meta' = meta /\ heap' = heap /\ rows' = rows /\ vac' = vac
      /\ bounds' = [bounds EXCEPT !.scans = bounds.scans + 1]
  BY <1>x DEF BeginScan, Goto
<1>4. Rests
  <2>1. bounds \in Counters BY <1>2 DEF Typed
  <2>2. bounds' \in Counters /\ bounds'.new = bounds.new /\ bounds'.vacuums = bounds.vacuums
    BY ONLY <1>3, <2>1 DEF Counters
  <2> QED BY <1>3, <2>2 DEF Rests
<1>5. Sets(b, cache[b], x, "scan")
  <2>1. cache' = [cache EXCEPT ![b] = cache[b]] BY <1>2, <1>3, SelfMoves
  <2> QED BY <1>3, <2>1 DEF Sets
<1>6. Own(b) /\ Light(b) /\ cache'[b] = cache[b] /\ op'[b] = x /\ pc'[b] = "scan"
  BY <1>2, <1>4, <1>5, OwnMoves
<1>7. x.kind = "scan" /\ x.snap = Versions(Snapshot) /\ x.ret = {}
      /\ x.due = Versions({t \in Snapshot : heap[t].indexed}) BY <1>x
<1>8. x \in ScanOp
  <2>1. \A t \in Tids : heap[t].row \in Nat BY <1>2 DEF Typed, HeapType
  <2>2. \A S \in SUBSET Tids : Versions(S) \subseteq Version BY <2>1 DEF Versions, Version
  <2>3. Snapshot \in SUBSET Tids /\ {t \in Snapshot : heap[t].indexed} \in SUBSET Tids BY DEF Snapshot
  <2>4. Versions(Snapshot) \in SUBSET Version /\ Versions({t \in Snapshot : heap[t].indexed}) \in SUBSET Version
    BY <2>2, <2>3
  <2> QED BY <1>x, <2>4 DEF ScanOp
<1>9. OpTyped(b)' BY <1>6, <1>8 DEF OpTyped, ScanPcs
<1>10. CacheTyped(b)'
  <2>1. CacheTyped(b) BY <1>2 DEF Typed
  <2> QED BY <1>6, <2>1 DEF CacheTyped
<1>11. ~Inserting(b)' /\ ~Scanning(b)' /\ ~Writing(b) /\ ~Writing(b)'
  BY <1>3, <1>6, <1>7 DEF Inserting, Scanning, Writing
<1>12. InsertOk(cs, ads, b)' BY <1>11 DEF InsertOk
<1>13. CacheOk(cs, ads, b)'
  <2>1. CacheOk(cs, ads, b) BY <1>1 DEF Good
  <2>2. cache[b] # NoCache => Ready(cs, cache[b], "idle") BY <1>3, <2>1 DEF CacheOk
  <2>3. cache[b] # NoCache => Ready(cs, cache[b], "scan") BY <2>2, ReadyAlike
  <2>4. UsesCache(b)' => UsesCache(b) BY <1>11 DEF UsesCache
  <2> QED BY <1>1, <1>2, <1>6, <2>3, <2>4, SameCache
<1>14. ScanOk(b)'
  <2>1. SnapOk(b)'
    <3>1. SUFFICES ASSUME NEW y \in x.snap
                   PROVE  /\ heap[y[1]].row = y[2] /\ heap[y[1]].state \in {"live", "dead"}
                          /\ pc[Vacuum] # "idle" => y[1] \notin vac.dead
      BY <1>6, <1>3 DEF SnapOk, Light
    <3>2. PICK t \in Snapshot : y = <<t, heap[t].row>> BY <1>7 DEF Versions
    <3>3. heap[t].state = "live" BY <3>2 DEF Snapshot
    <3>4. pc[Vacuum] # "idle" => t \notin vac.dead BY <1>1, <3>3 DEF Good, VacOk
    <3> QED BY <3>2, <3>3, <3>4
  <2>2. x.due \subseteq x.snap BY <1>7 DEF Versions
  <2>3. DueOk(b, meta.count)'
    <3>1. SUFFICES ASSUME NEW y \in x.due PROVE HasNode(y[1], y[2], meta.count)
      BY <1>3, <1>6 DEF DueOk, HasNode, CodeSpots
    <3>2. PICK t \in Snapshot : heap[t].indexed /\ y = <<t, heap[t].row>> BY <1>7 DEF Versions
    <3>3. t \in Tids /\ heap[t].state = "live" BY <3>2 DEF Snapshot
    <3>4. HasNode(t, heap[t].row, meta.count) BY <1>1, <3>2, <3>3 DEF Good, HeapOk
    <3> QED BY <3>2, <3>4
  <2> QED BY <1>6, <1>7, <1>11, <2>1, <2>2, <2>3 DEF ScanOk
<1> QED BY <1>1, <1>2, <1>6, <1>9, <1>10, <1>11, <1>12, <1>13, <1>14, BackendStep

\* An index with nodes has pages of both kinds
LEMMA StartsThere ==
  ASSUME Typed, Turns, NEW cs, NEW ads, Good(cs, ads), meta.count # 0
  PROVE  /\ cs # <<>> /\ ads # <<>> /\ meta.codeStart = Start(cs) /\ meta.adjStart = Start(ads)
         /\ Start(cs) \in Blocks /\ Start(ads) \in Blocks /\ page[Start(ads)].kind = "adj"
         /\ Start(cs) # Nil /\ Start(ads) # Nil
<1>1. meta.count \in Nat /\ page \in Seq(PageType) BY DEF Typed, MetaType
<1>2. Chained(page, cs, ads) /\ Placed(cs, ads) BY DEF Good
<1>3. meta.codeStart = Start(cs) /\ meta.adjStart = Start(ads) BY <1>2 DEF Placed
<1>4. cs # <<>>
  <2>1. Total(page, cs) # 0 BY <1>1, <1>2 DEF Placed
  <2> QED BY <2>1 DEF Total
<1>5. ads # <<>>
  <2>1. 0 \in NodeIds /\ NodeLevel[0] \in Nat BY Basics
  <2>2. AdjOf(0, 0) BY <1>1, <2>1 DEF AdjOf
  <2>3. PICK p \in AdjSpots : TRUE BY <1>2, <2>2 DEF Placed
  <2>4. p[1] \in 1..Len(page) /\ page[p[1]].kind = "adj" BY <2>3 DEF AdjSpots, Spots
  <2>5. PICK j \in 1..Len(ads) : ads[j] = p[1] BY <1>2, <2>4 DEF Chained, IsChain
  <2> QED BY <2>5
<1>6. Start(cs) \in 1..Len(page)
  <2>1. cs \in Seq(1..Len(page)) BY <1>2 DEF Chained, IsChain
  <2> QED BY <1>4, <2>1 DEF Start
<1>7. Start(ads) \in 1..Len(page) /\ page[Start(ads)].kind = "adj"
  <2>1. ads \in Seq(1..Len(page)) BY <1>2 DEF Chained, IsChain
  <2>2. 1 \in 1..Len(ads) /\ Start(ads) = ads[1] BY <1>5, <2>1 DEF Start
  <2>3. ads[1] \in 1..Len(page) BY <2>1, <2>2, ElementOfSeq
  <2>4. page[ads[1]].kind = "adj" BY <1>2, <2>2, <2>3 DEF Chained, IsChain
  <2> QED BY <2>2, <2>3, <2>4
<1> QED BY <1>3, <1>4, <1>5, <1>6, <1>7, <1>1, Basics DEF Blocks

LEMMA VacsIs == ASSUME Typed, Turns PROVE Vacs \in Nat /\ Vacs <= MaxVacuums /\ MaxVacuums \in Nat
<1>1. bounds.vacuums \in Nat BY DEF Typed, Counters
<1>2. MaxVacuums \in Nat BY ConstantsAssumption
<1> QED BY <1>1, <1>2 DEF Vacs, Turns

\* A cache with the key of the metapage has age 0
LEMMA MatchIsYoung ==
  ASSUME Typed, Turns, FewVacuums, NEW cs, NEW ads, Good(cs, ads), NEW b \in Backends, CacheMatches(b, meta)
  PROVE  cache[b] # NoCache /\ Aged(b, 0)
<1>1. cache[b].cached /\ cache[b].key = meta BY DEF CacheMatches
<1>2. cache[b] # NoCache BY <1>1 DEF NoCache
<1>3. PICK k \in Nat : Aged(b, k) BY <1>2 DEF Good, CacheOk
<1>4. k <= Vacs + 1 /\ Vacs \in Nat
  <2>1. Vacs \in Nat BY VacsIs
  <2>2. k <= IF UsesCache(b) THEN Vacs ELSE Vacs + 1 BY <1>3 DEF Aged
  <2> QED BY <2>1, <2>2
<1>5. k < Wide
  <2>1. Vacs <= MaxVacuums /\ MaxVacuums \in Nat BY VacsIs
  <2>2. MaxVacuums < Wide - 1 BY DEF FewVacuums
  <2>3. PICK v, w : v = Vacs /\ w = Wide OBVIOUS
  <2>4. w \in Nat BY ONLY <2>3, WideIs
  <2>5. v \in Nat /\ k <= v + 1 /\ v <= MaxVacuums /\ MaxVacuums < w - 1 BY <1>4, <2>1, <2>2, <2>3
  <2>6. k < w BY ONLY <2>1, <2>4, <2>5, k \in Nat
  <2> QED BY <2>3, <2>6
<1>6. meta.gen \in 0..(Wide - 1) /\ meta.count \in Nat BY DEF Typed, MetaType
<1>7. meta.gen = (meta.gen + k) % Wide
  <2>1. meta.gen = (meta.gen + k + (meta.count - meta.count)) % Wide BY <1>1, <1>3 DEF Aged
  <2>2. meta.gen \in Nat BY ONLY <1>6, InWide
  <2>3. meta.gen + k + (meta.count - meta.count) = meta.gen + k BY <1>6, <2>2
  <2> QED BY <2>1, <2>3
<1>8. k = 0 BY ONLY <1>5, <1>6, <1>7, k \in Nat, GenerationsDiffer
<1> QED BY <1>2, <1>3, <1>8

\* A cache that has been set up
LEMMA LevelMIs == ASSUME NEW l PROVE LevelM(l) \in Nat /\ LevelM(l) # 0
BY Basics DEF LevelM
LEMMA EmptyCacheOk ==
  ASSUME Typed, Turns, NEW cs, NEW ads, Good(cs, ads), NEW b \in Backends, Light(b), meta.count # 0,
         cache'[b] = EmptyCache(meta), pc'[b] = "loadCode"
  PROVE  CacheOk(cs, ads, b)' /\ CacheTyped(b)' /\ Aged(b, 0)' /\ cache'[b].key = meta /\ cache'[b] # NoCache
<1>m. PICK m, c : m = meta /\ c = EmptyCache(meta) OBVIOUS
<1>1. m \in MetaType /\ m.count \in Nat \ {0} /\ m.codeStart \in Nat /\ m.adjStart \in Nat /\ m.gen \in 0..(Wide - 1)
  BY <1>m DEF Typed, MetaType
<1>2. c = [key |-> m, cached |-> FALSE, pageNo |-> 0, mapped |-> FALSE, adjBlk |-> m.adjStart,
           nodes |-> [n \in 0..(m.count - 1) |-> NotLoaded],
           adj |-> [n \in 0..(m.count - 1) |-> [l \in 0..TopLevel |-> NoAdj]]]
  BY <1>m DEF EmptyCache
<1>3. /\ c.key = m /\ c.cached = FALSE /\ c.pageNo = 0 /\ c.mapped = FALSE
      /\ \A n \in 0..(m.count - 1) : c.nodes[n] = NotLoaded
      /\ \A n \in 0..(m.count - 1), l \in 0..TopLevel : c.adj[n][l] = NoAdj
  BY <1>2
<1>4. c \in CacheType(m)
  <2>1. NotLoaded \in Loaded BY Basics DEF NotLoaded, CodeTuple, Loaded
  <2>2. NoAdj \in AdjCell BY Basics DEF NoAdj, AdjCell
  <2>3. [n \in 0..(m.count - 1) |-> NotLoaded] \in [0..(m.count - 1) -> Loaded] BY <2>1
  <2>4. [n \in 0..(m.count - 1) |-> [l \in 0..TopLevel |-> NoAdj]]
          \in [0..(m.count - 1) -> [0..TopLevel -> AdjCell]] BY <2>2
  <2> QED BY <1>1, <1>2, <2>3, <2>4 DEF CacheType
<1>5. c # NoCache /\ c.key = m
  <2>1. "pageNo" \in DOMAIN c BY <1>2
  <2>2. "pageNo" \notin DOMAIN NoCache BY DEF NoCache
  <2> QED BY <1>3, <2>1, <2>2
<1>6. cache'[b] = c /\ page' = page /\ meta' = m BY <1>m DEF Light
<1>7. CacheTyped(b)' BY <1>3, <1>4, <1>6 DEF CacheTyped
<1>8. KeyOk(cs, ads, m)'
  <2>1. Levels(m) /\ m.codeStart = Start(cs) /\ m.adjStart = Start(ads)
    BY <1>1, <1>m DEF Good, Placed
  <2> QED BY <1>1, <1>6, <2>1 DEF KeyOk
<1>9. NodesOk(c)'
  <2>1. \A p \in Spots(page', "code") : At(page', p).node < m.count => c.nodes[At(page', p).node] = NotLoaded
    <3>1. SUFFICES ASSUME NEW p \in Spots(page, "code"), At(page, p).node < m.count
                   PROVE  c.nodes[At(page, p).node] = NotLoaded
      BY <1>6
    <3>2. At(page, p).node \in Nat
      <4>1. "code" \in Kinds /\ page \in Seq(PageType) BY DEF Kinds, Typed
      <4> QED BY <4>1, SpotTyped
    <3> QED BY <1>1, <1>3, <3>1, <3>2
  <2> QED BY <1>3, <2>1 DEF NodesOk, CodeSpots
<1>10. CellsOk(c)'
  <2>1. \A n, l : ListOk(n, l, {})'
    <3>1. Cardinality({}) = 0 BY FS_EmptySet
    <3> QED BY <3>1, LevelMIs DEF ListOk
  <2>2. \A n \in 0..(c.key.count - 1), l \in 0..TopLevel : c.adj[n][l].nbrs = {} /\ c.adj[n][l].blk = Nil
    BY <1>3 DEF NoAdj
  <2> QED BY <2>1, <2>2 DEF CellsOk
<1>11. Ready(cs, c, "loadCode")'
  <2>1. 0 * CodeCap = 0 BY Basics
  <2>2. c.adjBlk = c.key.adjStart BY <1>2
  <2> QED BY <1>1, <1>3, <2>1, <2>2 DEF Ready
<1>12. Aged(b, 0)'
  <2>1. 0 <= IF UsesCache(b)' THEN Vacs' ELSE Vacs' + 1
    <3>1. Vacs' = Vacs
      <4>1. Chained(page, cs, ads) BY DEF Good
      <4> QED BY <4>1, LightMoves
    <3>2. Vacs \in Nat BY VacsIs
    <3> QED BY <3>1, <3>2
  <2>2. m.gen = (m.gen + 0 + (m.count - m.count)) % Wide
    <3>1. PICK g : g = m.gen OBVIOUS
    <3>2. g \in 0..(Wide - 1) BY <1>1, <3>1
    <3>3. g \in Nat /\ g = g % Wide BY ONLY <3>2, InWide
    <3>4. g + 0 + (m.count - m.count) = g BY <1>1, <3>3
    <3> QED BY ONLY <3>1, <3>3, <3>4
  <2>3. FlagsRight(c)'
    <3>1. SUFFICES ASSUME NEW p \in Spots(page, "code"), At(page, p).node < m.count
                   PROVE  c.nodes[At(page, p).node] = NotLoaded
      BY <1>3, <1>6 DEF FlagsRight, CodeSpots
    <3>2. At(page, p).node \in Nat
      <4>1. "code" \in Kinds /\ page \in Seq(PageType) BY DEF Kinds, Typed
      <4> QED BY <4>1, SpotTyped
    <3> QED BY <1>1, <1>3, <3>1, <3>2
  <2> QED BY <1>3, <1>6, <2>1, <2>2, <2>3 DEF Aged
<1>13. CacheOk(cs, ads, b)'
  <2>1. 0 \in Nat OBVIOUS
  <2> QED BY <1>3, <1>6, <1>8, <1>9, <1>10, <1>11, <1>12, <2>1 DEF CacheOk
<1> QED BY <1>5, <1>6, <1>7, <1>12, <1>13, <1>m

\* TqGraphInitScanStorage leaves a cache of age 0, loaded or to be loaded
LEMMA StorageReady ==
  ASSUME Typed, Turns, FewVacuums, NEW cs, NEW ads, Good(cs, ads), NEW b \in Backends, Light(b), meta.count # 0,
         NEW ready \in {"select", "collect"}, InitStorage(b, meta, ready)
  PROVE  /\ CacheOk(cs, ads, b)' /\ CacheTyped(b)' /\ Aged(b, 0)' /\ cache'[b].key = meta /\ cache'[b] # NoCache
         /\ pc' = [pc EXCEPT ![b] = pc'[b]] /\ pc'[b] \in {"loadCode", ready}
         /\ cache' = [cache EXCEPT ![b] = cache'[b]]
<1>0. /\ cache = [a \in Backends |-> cache[a]]
      /\ pc = [p \in Backends \cup {Vacuum} |-> pc[p]]
  BY DEF Typed
<1>l. page' = page /\ meta' = meta /\ vac' = vac /\ bounds'.vacuums = bounds.vacuums /\ pc'[Vacuum] = pc[Vacuum]
  BY DEF Light
<1>1. CASE CacheMatches(b, meta)
  <2>1. pc' = [pc EXCEPT ![b] = ready] /\ cache' = cache BY <1>1 DEF InitStorage, Goto
  <2>2. pc'[b] = ready /\ cache'[b] = cache[b] BY <1>0, <2>1
  <2>3. cache' = [cache EXCEPT ![b] = cache'[b]] BY <2>1, <2>2, SelfMoves
  <2>c. PICK c : c = cache[b] OBVIOUS
  <2>4. c.cached /\ c.key = meta BY <1>1, <2>c DEF CacheMatches
  <2>5. c # NoCache /\ Aged(b, 0) BY <1>1, <2>c, MatchIsYoung
  <2>6. KeyOk(cs, ads, c.key) /\ NodesOk(c) /\ CellsOk(c) /\ Ready(cs, c, pc[b])
    BY <2>5, <2>c DEF Good, CacheOk
  <2>7. Ready(cs, c, ready)
    <3>1. pc[b] \notin {"loadCode", "loadAdj"} BY <2>4, <2>6 DEF Ready
    <3> QED BY <2>6, <3>1, ReadyAlike
  <2>8. Aged(b, 0)'
    <3>1. /\ 0 <= IF UsesCache(b) THEN Vacs ELSE Vacs + 1
          /\ meta.gen = (c.key.gen + 0 + (meta.count - c.key.count)) % Wide
          /\ 0 = 0 /\ ~Stale => FlagsRight(c)
      BY <2>5, <2>c DEF Aged
    <3>2. Vacs' = Vacs /\ (Stale' = Stale)
      <4>1. Chained(page, cs, ads) BY DEF Good
      <4> QED BY <4>1, LightMoves
    <3>3. 0 <= IF UsesCache(b)' THEN Vacs' ELSE Vacs' + 1
      <4>1. Vacs \in Nat BY VacsIs
      <4> QED BY <3>2, <4>1
    <3>4. 0 = 0 /\ ~Stale' => FlagsRight(c)' BY <1>l, <3>1, <3>2 DEF FlagsRight, CodeSpots
    <3> QED BY <1>l, <2>2, <2>c, <3>1, <3>3, <3>4 DEF Aged
  <2>9. CacheOk(cs, ads, b)'
    <3>1. KeyOk(cs, ads, c.key)' BY <1>l, <2>6 DEF KeyOk
    <3>2. NodesOk(c)' BY <1>l, <2>6 DEF NodesOk, CodeSpots
    <3>3. CellsOk(c)' BY <1>l, <2>6 DEF CellsOk, AdjSpots, ListOk
    <3>4. Ready(cs, c, ready)' BY <1>l, <2>7 DEF Ready, Blocks, Reached, AdjSpots
    <3>5. 0 \in Nat OBVIOUS
    <3> QED BY <2>2, <2>8, <2>c, <3>1, <3>2, <3>3, <3>4, <3>5 DEF CacheOk
  <2>10. CacheTyped(b)'
    <3>1. CacheTyped(b) BY DEF Typed
    <3> QED BY <2>2, <3>1 DEF CacheTyped
  <2> QED BY <2>1, <2>2, <2>3, <2>4, <2>5, <2>8, <2>9, <2>10, <2>c
<1>2. CASE ~CacheMatches(b, meta)
  <2>1. pc' = [pc EXCEPT ![b] = "loadCode"] /\ cache' = [cache EXCEPT ![b] = EmptyCache(meta)]
    BY <1>2 DEF InitStorage, Goto
  <2>2. pc'[b] = "loadCode" /\ cache'[b] = EmptyCache(meta) BY <1>0, <2>1
  <2>3. CacheOk(cs, ads, b)' /\ CacheTyped(b)' /\ Aged(b, 0)' /\ cache'[b].key = meta /\ cache'[b] # NoCache
    BY <2>2, EmptyCacheOk
  <2> QED BY <2>1, <2>2, <2>3
<1> QED BY <1>1, <1>2

LEMMA StartScanKeeps ==
  ASSUME Inv, FewVacuums, NEW b \in Backends, StartScan(b)
  PROVE  Inv'
<1>1. PICK cs, ads : Good(cs, ads) BY DEF Inv
<1>2. Typed /\ Turns BY DEF Inv
<1>3. /\ pc[b] = "scan" /\ ~Marking
      /\ page' = page /\ meta' = meta /\ heap' = heap /\ rows' = rows /\ op' = op /\ vac' = vac
      /\ bounds' = bounds
  BY DEF StartScan, Marking
<1>o. PICK x : x = op[b] OBVIOUS
<1>4. Rests
  <2>1. bounds \in Counters BY <1>2 DEF Typed
  <2> QED BY <1>3, <2>1 DEF Rests
<1>5. op' = [op EXCEPT ![b] = x] BY <1>2, <1>3, <1>o, SelfMoves
<1>6. x.kind = "scan" /\ x \in ScanOp BY <1>2, <1>3, <1>o, KindsOf
<1>7. /\ SnapOk(b) /\ x.due \subseteq x.snap /\ x.ret = {} /\ DueOk(b, meta.count)
  BY <1>1, <1>3, <1>6, <1>o DEF Good, ScanOk
<1>8. op'[b] = x BY <1>3, <1>o
<1>9. ~Inserting(b)' /\ ~Writing(b) /\ UsesCache(b)' = FALSE
  BY <1>3, <1>6, <1>8 DEF Inserting, Writing, UsesCache
<1>10. (pc'[Vacuum] = pc[Vacuum] => SnapOk(b)') /\ (\A n : DueOk(b, n) => DueOk(b, n)')
  BY <1>3, <1>7 DEF SnapOk, DueOk, HasNode, CodeSpots
<1>11. InsertOk(cs, ads, b)' BY <1>9 DEF InsertOk
<1>a. CASE meta.count = 0 \/ meta.codeStart = Nil \/ meta.adjStart = Nil
  <2>1. pc' = [pc EXCEPT ![b] = "done"] /\ cache' = cache BY <1>a DEF StartScan, Goto
  <2>2. Sets(b, cache[b], x, "done")
    <3>1. cache' = [cache EXCEPT ![b] = cache[b]] BY <1>2, <2>1, SelfMoves
    <3> QED BY <1>5, <2>1, <3>1 DEF Sets
  <2>3. Own(b) /\ Light(b) /\ cache'[b] = cache[b] /\ pc'[b] = "done" BY <1>2, <1>4, <2>2, OwnMoves
  <2>4. meta.count = 0 BY <1>a, <1>1, <1>2, StartsThere
  <2>5. x.due = {}
    <3>1. SUFFICES ASSUME NEW y \in x.due PROVE FALSE OBVIOUS
    <3>2. PICK p \in CodeSpots : At(page, p).node < 0 BY <1>7, <1>o, <2>4 DEF DueOk, HasNode
    <3>3. "code" \in Kinds /\ page \in Seq(PageType) BY <1>2 DEF Kinds, Typed
    <3>4. At(page, p).node \in Nat BY <3>3, SpotTyped DEF CodeSpots
    <3> QED BY <3>2, <3>4
  <2>6. ~Scanning(b)' /\ ~Writing(b)' BY <2>3 DEF Scanning, Writing
  <2>7. ScanOk(b)'
    <3>1. SnapOk(b)' BY <1>10, <2>3 DEF Light
    <3> QED BY <1>6, <1>7, <1>8, <2>3, <2>5, <2>6, <3>1 DEF ScanOk
  <2>8. CacheOk(cs, ads, b)'
    <3>1. CacheOk(cs, ads, b) BY <1>1 DEF Good
    <3>2. cache[b] # NoCache => Ready(cs, cache[b], "scan") BY <1>3, <3>1 DEF CacheOk
    <3>3. cache[b] # NoCache => Ready(cs, cache[b], "done") BY <3>2, ReadyAlike
    <3> QED BY <1>1, <1>2, <1>9, <2>3, <3>3, SameCache
  <2>9. OpTyped(b)' BY <1>6, <1>8, <2>3 DEF OpTyped, ScanPcs
  <2>10. CacheTyped(b)'
    <3>1. CacheTyped(b) BY <1>2 DEF Typed
    <3> QED BY <2>3, <3>1 DEF CacheTyped
  <2> QED BY <1>1, <1>2, <1>9, <1>11, <2>3, <2>6, <2>7, <2>8, <2>9, <2>10, BackendStep
<1>b. CASE ~(meta.count = 0 \/ meta.codeStart = Nil \/ meta.adjStart = Nil)
  <2>1. InitStorage(b, meta, "collect") /\ meta.count # 0 BY <1>b DEF StartScan
  <2>2. \E y, z : Sets(b, y, x, z)
    <3>1. \E y : cache' = [cache EXCEPT ![b] = y]
      <4>1. cache = [cache EXCEPT ![b] = cache[b]] BY <1>2, SelfMoves
      <4> QED BY <2>1, <4>1 DEF InitStorage
    <3>2. \E z : pc' = [pc EXCEPT ![b] = z] BY <2>1 DEF InitStorage, Goto
    <3> QED BY <1>5, <3>1, <3>2 DEF Sets
  <2>3. Own(b) /\ Light(b) BY <1>2, <1>4, <2>2, OwnMoves
  <2>4. /\ CacheOk(cs, ads, b)' /\ CacheTyped(b)' /\ Aged(b, 0)' /\ cache'[b].key = meta /\ cache'[b] # NoCache
        /\ pc'[b] \in {"loadCode", "collect"}
    <3>1. "collect" \in {"select", "collect"} OBVIOUS
    <3> QED BY <1>1, <1>2, <2>1, <2>3, <3>1, StorageReady
  <2>5. Scanning(b)' /\ ~Writing(b)' BY <1>6, <1>8, <2>4 DEF Scanning, Writing
  <2>6. ScanOk(b)'
    <3>1. DueOk(b, meta.count)' /\ DueOk(b, cache[b].key.count)'
      <4>n. PICK n : n = meta.count OBVIOUS
      <4>1. DueOk(b, n)' BY <1>7, <1>10, <4>n
      <4>2. meta'.count = n /\ cache'[b].key.count = n BY <1>3, <2>4, <4>n
      <4> QED BY <4>1, <4>2
    <3>2. pc'[b] # "done" /\ pc'[b] # "scan" BY <2>4
    <3>3. SnapOk(b)' BY <1>10, <2>3 DEF Light
    <3> QED BY <1>6, <1>7, <1>8, <2>4, <3>1, <3>2, <3>3 DEF ScanOk
  <2>7. OpTyped(b)' BY <1>6, <1>8, <2>4 DEF OpTyped, ScanPcs
  <2> QED BY <1>1, <1>2, <1>3, <1>9, <1>11, <2>3, <2>4, <2>5, <2>6, <2>7, BackendStep
<1> QED BY <1>a, <1>b

\* Every node of a cache has its code tuple, and a node that is loaded is it
LEMMA CachedNode ==
  ASSUME Typed, Turns, NEW cs, NEW ads, Good(cs, ads), NEW b \in Backends, cache[b] # NoCache,
         NEW n \in 0..(cache[b].key.count - 1)
  PROVE  \E p \in CodeSpots : /\ At(page, p).node = n /\ At(page, p) \in CodeType
                              /\ cache[b].nodes[n] # NotLoaded =>
                                   /\ cache[b].nodes[n].node = n /\ cache[b].nodes[n].tid = At(page, p).tid
                                   /\ cache[b].nodes[n].row = At(page, p).row
                                   /\ cache[b].nodes[n].dead => At(page, p).dead
<1>1. CacheOk(cs, ads, b) /\ Chained(page, cs, ads) /\ Placed(cs, ads) BY DEF Good
<1>2. cache[b].key.count \in Nat /\ cache[b].key.count <= meta.count BY <1>1, TypedCache
<1>3. meta.count \in Nat BY DEF Typed, MetaType
<1>4. meta.count <= Total(page, cs) /\ Total(page, cs) \in Nat BY <1>1, <1>3, PagesOfNodes DEF Placed
<1>5. n \in Nat /\ n < Total(page, cs) BY <1>2, <1>3, <1>4
<1>6. PICK p \in Spots(page, "code") : At(page, p).node = n BY <1>1, <1>5, NodeIsThere
<1>7. At(page, p) \in CodeType
  <2>1. "code" \in Kinds /\ page \in Seq(PageType) BY DEF Kinds, Typed
  <2> QED BY <1>6, <2>1, SpotTyped DEF TupleType
<1>8. NodesOk(cache[b]) /\ n < cache[b].key.count BY <1>1, <1>2 DEF CacheOk
<1> QED BY <1>6, <1>7, <1>8 DEF NodesOk, CodeSpots

LEMMA CollectKeeps ==
  ASSUME Inv, NEW b \in Backends, Collect(b)
  PROVE  Inv'
<1>1. PICK cs, ads : Good(cs, ads) BY DEF Inv
<1>2. Typed /\ Turns BY DEF Inv
<1>c. PICK c : c = cache[b] OBVIOUS
<1>o. PICK o : o = op[b] OBVIOUS
<1>r. PICK R : R = {<<c.nodes[n].tid, c.nodes[n].row>> : n \in Traverse(c)} OBVIOUS
<1>x. PICK x : x = [o EXCEPT !.ret = R] OBVIOUS
<1>3. /\ pc[b] = "collect" /\ pc' = [pc EXCEPT ![b] = "done"]
      /\ page' = page /\ meta' = meta /\ heap' = heap /\ rows' = rows /\ cache' = cache /\ vac' = vac
      /\ bounds' = bounds
  BY DEF Collect, Goto
<1>4. op' = [op EXCEPT ![b] = x]
  <2>1. op' = [op EXCEPT ![b].ret = R] BY <1>c, <1>r DEF Collect
  <2> QED BY <2>1, <1>o, <1>x
<1>5. o \in ScanOp /\ o.kind = "scan" BY <1>2, <1>3, <1>o, KindsOf
<1>6. x.kind = "scan" /\ x.ret = R /\ x.snap = o.snap /\ x.due = o.due BY <1>5, <1>x DEF ScanOp
<1>7. Scanning(b) BY <1>3, <1>5, <1>o DEF Scanning
<1>8. /\ SnapOk(b) /\ o.due \subseteq o.snap /\ c # NoCache /\ DueOk(b, c.key.count) /\ Aged(b, 0)
  BY <1>1, <1>5, <1>7, <1>c, <1>o DEF Good, ScanOk
<1>9. FlagsRight(c)
  <2>1. ~Marking BY <1>2, <1>7 DEF Turns
  <2> QED BY <1>8, <1>c, <2>1 DEF Aged, Stale
<1>10. /\ CacheOk(cs, ads, b) /\ c.key.count \in Nat \ {0} /\ DOMAIN c.nodes = 0..(c.key.count - 1)
  <2>1. CacheOk(cs, ads, b) BY <1>1 DEF Good
  <2> QED BY <1>2, <1>8, <1>c, <2>1, TypedCache
<1>11. \A n \in 0..(c.key.count - 1) : c.nodes[n] # NotLoaded
  BY <1>3, <1>8, <1>10, <1>c DEF CacheOk, Ready
<1>12. Traverse(c) = {n \in 0..(c.key.count - 1) : ~c.nodes[n].dead}
  <2>1. c.key \in MetaType BY <1>2, <1>8, <1>10, <1>c, TypedCache
  <2>2. EntryNode(c.key) \in 0..(c.key.count - 1) BY <1>10, <2>1 DEF EntryNode, MetaType
  <2> QED BY <1>10, <1>11, <2>2 DEF Traverse, Live
<1>13. ASSUME NEW n \in 0..(c.key.count - 1)
       PROVE  \E p \in CodeSpots : /\ At(page, p).node = n /\ At(page, p) \in CodeType
                                   /\ c.nodes[n].tid = At(page, p).tid /\ c.nodes[n].row = At(page, p).row
                                   /\ c.nodes[n].dead = At(page, p).dead
  <2>1. c.nodes[n] # NotLoaded BY <1>11
  <2>2. PICK p \in CodeSpots : /\ At(page, p).node = n /\ At(page, p) \in CodeType
                               /\ c.nodes[n].tid = At(page, p).tid /\ c.nodes[n].row = At(page, p).row
    BY <1>1, <1>2, <1>8, <1>c, <2>1, CachedNode
  <2>3. c.nodes[n].dead = At(page, p).dead
    <3>1. n < c.key.count BY <1>10
    <3> QED BY <1>9, <2>1, <2>2, <3>1 DEF FlagsRight
  <2> QED BY <2>2, <2>3
<1>14. R \subseteq Version
  <2> SUFFICES ASSUME NEW y \in R PROVE y \in Version OBVIOUS
  <2>1. PICK n \in 0..(c.key.count - 1) : y = <<c.nodes[n].tid, c.nodes[n].row>> BY <1>12, <1>r
  <2>2. PICK p \in CodeSpots : /\ At(page, p) \in CodeType /\ c.nodes[n].tid = At(page, p).tid
                               /\ c.nodes[n].row = At(page, p).row
    BY <1>13
  <2> QED BY <2>1, <2>2 DEF CodeType, Version
<1>15. o.due \subseteq R
  <2> SUFFICES ASSUME NEW y \in o.due PROVE y \in R OBVIOUS
  <2>1. y \in Tids \X Nat BY <1>5 DEF ScanOp, Version
  <2>2. PICK q \in CodeSpots : /\ At(page, q).tid = y[1] /\ At(page, q).row = y[2] /\ ~At(page, q).dead
                               /\ At(page, q).node < c.key.count
    BY <1>8, <1>o DEF DueOk, HasNode
  <2>n. PICK n : n = At(page, q).node OBVIOUS
  <2>3. n \in 0..(c.key.count - 1)
    <3>1. "code" \in Kinds /\ page \in Seq(PageType) BY <1>2 DEF Kinds, Typed
    <3>2. n \in Nat BY <2>n, <3>1, SpotTyped DEF CodeSpots
    <3> QED BY <1>10, <2>2, <2>n, <3>2
  <2>4. PICK p \in CodeSpots : /\ At(page, p).node = n /\ c.nodes[n].tid = At(page, p).tid
                               /\ c.nodes[n].row = At(page, p).row /\ c.nodes[n].dead = At(page, p).dead
    BY <1>13, <2>3
  <2>5. p = q
    <3>1. Chained(page, cs, ads) BY <1>1 DEF Good
    <3> QED BY <2>4, <2>n, <3>1, NodesDiffer DEF CodeSpots
  <2>6. n \in Traverse(c) /\ <<c.nodes[n].tid, c.nodes[n].row>> = <<y[1], y[2]>> BY <1>12, <2>2, <2>3, <2>4, <2>5
  <2> QED BY <1>r, <2>1, <2>6
<1>16. \A z \in R, y \in o.snap : z[1] = y[1] => z = y
  <2> SUFFICES ASSUME NEW z \in R, NEW y \in o.snap, z[1] = y[1] PROVE z = y OBVIOUS
  <2>1. y \in Tids \X Nat BY <1>5 DEF ScanOp, Version
  <2>2. PICK n \in Traverse(c) : z = <<c.nodes[n].tid, c.nodes[n].row>> BY <1>r
  <2>3. n \in 0..(c.key.count - 1) /\ ~c.nodes[n].dead BY <1>12, <2>2
  <2>4. PICK p \in CodeSpots : /\ c.nodes[n].tid = At(page, p).tid /\ c.nodes[n].row = At(page, p).row
                               /\ c.nodes[n].dead = At(page, p).dead
    BY <1>13, <2>3
  <2>5. heap[At(page, p).tid].row = At(page, p).row BY <1>1, <2>3, <2>4 DEF Good, HeapOk
  <2>6. heap[y[1]].row = y[2] BY <1>8, <1>o DEF SnapOk
  <2> QED BY <2>1, <2>2, <2>4, <2>5, <2>6
<1>17. Rests
  <2>1. bounds \in Counters BY <1>2 DEF Typed
  <2> QED BY <1>3, <2>1 DEF Rests
<1>18. Sets(b, c, x, "done")
  <2>1. cache' = [cache EXCEPT ![b] = cache[b]] BY <1>2, <1>3, SelfMoves
  <2> QED BY <1>3, <1>4, <2>1, <1>c DEF Sets
<1>19. Own(b) /\ Light(b) /\ cache'[b] = c /\ op'[b] = x /\ pc'[b] = "done" BY <1>2, <1>17, <1>18, OwnMoves
<1>20. ~Inserting(b)' /\ ~Scanning(b)' /\ ~Writing(b) /\ ~Writing(b)'
  BY <1>3, <1>6, <1>19 DEF Inserting, Scanning, Writing
<1>21. OpTyped(b)'
  <2>1. x \in ScanOp BY <1>5, <1>14, <1>x DEF ScanOp
  <2> QED BY <1>19, <2>1 DEF OpTyped, ScanPcs
<1>22. CacheTyped(b)'
  <2>1. CacheTyped(b) BY <1>2 DEF Typed
  <2> QED BY <1>19, <1>c, <2>1 DEF CacheTyped
<1>23. InsertOk(cs, ads, b)' BY <1>20 DEF InsertOk
<1>24. CacheOk(cs, ads, b)'
  <2>1. Ready(cs, c, "collect") BY <1>3, <1>8, <1>10, <1>c DEF CacheOk
  <2>2. Ready(cs, c, "done") BY <2>1, ReadyAlike
  <2>3. UsesCache(b)' => UsesCache(b) BY <1>20 DEF UsesCache
  <2> QED BY <1>1, <1>2, <1>19, <1>c, <2>2, <2>3, SameCache
<1>25. ScanOk(b)'
  <2>1. SnapOk(b)' BY <1>3, <1>6, <1>8, <1>19, <1>o DEF SnapOk, Light
  <2> QED BY <1>6, <1>8, <1>15, <1>16, <1>19, <1>20, <2>1 DEF ScanOk
<1> QED BY <1>1, <1>2, <1>19, <1>20, <1>21, <1>22, <1>23, <1>24, <1>25, BackendStep

LEMMA EndScanKeeps ==
  ASSUME Inv, NEW b \in Backends, EndScan(b)
  PROVE  Inv'
<1>1. PICK cs, ads : Good(cs, ads) BY DEF Inv
<1>2. Typed /\ Turns BY DEF Inv
<1>3. /\ pc[b] = "done" /\ pc' = [pc EXCEPT ![b] = "idle"] /\ op' = [op EXCEPT ![b] = NoOp]
      /\ page' = page /\ meta' = meta /\ heap' = heap /\ rows' = rows /\ cache' = cache /\ vac' = vac
      /\ bounds' = bounds
  BY DEF EndScan, Goto
<1>4. Rests
  <2>1. bounds \in Counters BY <1>2 DEF Typed
  <2> QED BY <1>3, <2>1 DEF Rests
<1>5. Sets(b, cache[b], NoOp, "idle")
  <2>1. cache' = [cache EXCEPT ![b] = cache[b]] BY <1>2, <1>3, SelfMoves
  <2> QED BY <1>3, <2>1 DEF Sets
<1>6. Own(b) /\ Light(b) /\ cache'[b] = cache[b] /\ op'[b] = NoOp /\ pc'[b] = "idle" BY <1>2, <1>4, <1>5, OwnMoves
<1>7. ~Inserting(b)' /\ ~Scanning(b)' /\ ~Writing(b) /\ ~Writing(b)' /\ op'[b].kind = "none"
  BY <1>3, <1>6 DEF Inserting, Scanning, Writing, NoOp
<1>8. OpTyped(b)' BY <1>6 DEF OpTyped
<1>9. CacheTyped(b)'
  <2>1. CacheTyped(b) BY <1>2 DEF Typed
  <2> QED BY <1>6, <2>1 DEF CacheTyped
<1>10. InsertOk(cs, ads, b)' /\ ScanOk(b)' BY <1>7 DEF InsertOk, ScanOk
<1>11. CacheOk(cs, ads, b)'
  <2>1. CacheOk(cs, ads, b) BY <1>1 DEF Good
  <2>2. cache[b] # NoCache => Ready(cs, cache[b], "done") BY <1>3, <2>1 DEF CacheOk
  <2>3. cache[b] # NoCache => Ready(cs, cache[b], "idle") BY <2>2, ReadyAlike
  <2>4. UsesCache(b)' => UsesCache(b) BY <1>7 DEF UsesCache
  <2> QED BY <1>1, <1>2, <1>6, <2>3, <2>4, SameCache
<1> QED BY <1>1, <1>2, <1>6, <1>7, <1>8, <1>9, <1>10, <1>11, BackendStep

-----------------------------------------------------------------------------
(* Caches are loaded                                                       *)

\* An insert that neither writes nor moves on
LEMMA InsertSame ==
  ASSUME NEW cs, NEW ads, NEW b \in Backends, InsertOk(cs, ads, b), page' = page, meta' = meta, heap' = heap,
         op'[b] = op[b], ~Writing(b), ~Writing(b)', pc'[b] # "link", meta.count # 0,
         cache'[b] # NoCache, cache'[b].key = cache[b].key
  PROVE  InsertOk(cs, ads, b)'
<1>i. PICK i : i = op[b] OBVIOUS
<1>0. op'[b] = i BY <1>i
<1>1. SUFFICES ASSUME Inserting(b) PROVE InsertOk(cs, ads, b)' BY <1>0, <1>i DEF InsertOk, Inserting
<1>2. /\ heap[i.tid].state = "inserting" /\ heap[i.tid].indexed
      /\ meta = [i.meta EXCEPT !.gen = meta.gen]
      /\ i.codeStart = Start(cs) /\ i.adjStart = Start(ads)
      /\ \A l \in 0..NodeLevel[meta.count] :
           /\ Cardinality(i.sel[l]) <= LevelM(l)
           /\ \A n \in i.sel[l] : n < meta.count /\ NodeLevel[n] >= l
      /\ \A x \in i.todo : x[1] \in 0..NodeLevel[meta.count] /\ x[2] \in i.sel[x[1]]
      /\ Len(i.loc) <= NodeLevel[meta.count] + 1
      /\ i.loc = <<>>
      /\ \A l \in 1..Len(i.loc) : /\ i.loc[l] \in AdjSpots /\ At(page, i.loc[l]).node = meta.count
                                  /\ At(page, i.loc[l]).level = l - 1
      /\ UsesCache(b) => cache[b] # NoCache /\ cache[b].key = i.meta
  BY <1>1, <1>i DEF InsertOk
<1>3. UsesCache(b)' => UsesCache(b) BY <1>0, <1>i DEF UsesCache, Inserting
<1>4. pc'[b] # "adj" /\ pc'[b] # "meta" BY DEF Writing
<1> QED BY <1>0, <1>2, <1>3, <1>4 DEF InsertOk, AdjSpots

LEMMA HasCache ==
  ASSUME Typed, NEW cs, NEW ads, Good(cs, ads), NEW b \in Backends,
         pc[b] \in {"loadCode", "loadAdj", "select", "link", "collect"}
  PROVE  /\ cache[b] # NoCache /\ meta.count # 0 /\ CacheOk(cs, ads, b)
         /\ cache[b] \in CacheType(cache[b].key) /\ cache[b].key \in MetaType
         /\ cache[b].key.count \in Nat \ {0} /\ cache[b].key.count <= meta.count
         /\ pc[b] \in {"select", "link"} => Inserting(b)
         /\ Inserting(b) => UsesCache(b) /\ cache[b].key = op[b].meta
<1>1. InsertOk(cs, ads, b) /\ CacheOk(cs, ads, b) /\ ScanOk(b) BY DEF Good
<1>2. CASE Inserting(b)
  <2>1. meta.count # 0 BY <1>1, <1>2 DEF InsertOk
  <2>2. op[b].meta \in MetaType
    <3>1. op[b] \in InsertOp BY <1>2, KindsOf
    <3> QED BY <3>1 DEF InsertOp
  <2>3. op[b].meta.count = meta.count
    <3>1. PICK g, m : g = meta.gen /\ m = op[b].meta OBVIOUS
    <3>2. meta = [m EXCEPT !.gen = g] BY <1>1, <1>2, <3>1 DEF InsertOk
    <3> QED BY <2>2, <3>1, <3>2 DEF MetaType
  <2>4. UsesCache(b) BY <1>2, <2>1, <2>3 DEF UsesCache
  <2>5. cache[b] # NoCache /\ cache[b].key = op[b].meta BY <1>1, <1>2, <2>4 DEF InsertOk
  <2> QED BY <1>1, <2>1, <2>4, <2>5, TypedCache, <1>2
<1>3. CASE ~Inserting(b)
  <2>1. Scanning(b) BY <1>3, KindsOf DEF Scanning
  <2>2. cache[b] # NoCache BY <1>1, <2>1 DEF ScanOk, Scanning
  <2>3. cache[b].key.count \in Nat \ {0} /\ cache[b].key.count <= meta.count BY <1>1, <2>2, TypedCache
  <2>4. meta.count # 0
    <3>1. meta.count \in Nat BY DEF Typed, MetaType
    <3> QED BY <2>3, <3>1
  <2>5. pc[b] \notin {"select", "link"} BY <1>3, KindsOf
  <2> QED BY <1>1, <1>3, <2>2, <2>3, <2>4, <2>5, TypedCache
<1> QED BY <1>2, <1>3

\* What a step that loads a page has to show
LEMMA LoadStep ==
  ASSUME Typed, Turns, NEW cs, NEW ads, Good(cs, ads), NEW b \in Backends, Own(b),
         pc[b] \in {"loadCode", "loadAdj"},
         pc'[b] \in {"loadCode", "loadAdj", IF Inserting(b) THEN "select" ELSE "collect"},
         op'[b] = op[b], NEW c, cache'[b] = c, c # NoCache, c.key = cache[b].key, c \in CacheType(c.key),
         NodesOk(c), CellsOk(c), Ready(cs, c, pc'[b]), FlagsRight(cache[b]) => FlagsRight(c)
  PROVE  Inv'
<1>0. /\ cache[b] # NoCache /\ meta.count # 0 /\ CacheOk(cs, ads, b)
      /\ InsertOk(cs, ads, b) /\ ScanOk(b)
  BY HasCache DEF Good
<1>1. page' = page /\ meta' = meta /\ heap' = heap /\ vac' = vac /\ bounds'.vacuums = bounds.vacuums
      /\ pc'[Vacuum] = pc[Vacuum]
  BY DEF Own, Touches
<1>2. (Inserting(b)' <=> Inserting(b)) /\ (UsesCache(b)' = UsesCache(b)) BY DEF Inserting, UsesCache
<1>3. ~Writing(b) /\ ~Writing(b)' BY DEF Writing
<1>4. Scanning(b)' => Scanning(b) BY DEF Scanning
<1>5. OpTyped(b)'
  <2>1. CASE Inserting(b)
    <3>1. op[b] \in InsertOp BY <2>1, KindsOf
    <3>2. InsertOp' = InsertOp BY <1>1 DEF InsertOp
    <3>3. pc'[b] \in InsertPcs BY <2>1 DEF InsertPcs
    <3>4. op'[b] \in InsertOp' BY <3>1, <3>2
    <3> QED BY <3>3, <3>4 DEF OpTyped
  <2>2. CASE ~Inserting(b)
    <3>1. op[b] \in ScanOp BY <2>2, KindsOf
    <3>2. pc'[b] \in ScanPcs BY <2>2 DEF ScanPcs
    <3> QED BY <3>1, <3>2 DEF OpTyped
  <2> QED BY <2>1, <2>2
<1>6. CacheTyped(b)' BY DEF CacheTyped
<1>7. InsertOk(cs, ads, b)' BY <1>0, <1>1, <1>3, InsertSame
<1>8. ASSUME NEW k \in Nat, Aged(b, k) PROVE Aged(b, k)'
  <2>c. PICK d : d = cache[b] OBVIOUS
  <2>1. /\ k <= IF UsesCache(b) THEN Vacs ELSE Vacs + 1
        /\ meta.gen = (d.key.gen + k + (meta.count - d.key.count)) % Wide
        /\ k = 0 /\ ~Stale => FlagsRight(d)
    BY <1>8, <2>c DEF Aged
  <2>2. Vacs' = Vacs /\ Stale' = Stale BY <1>1 DEF Vacs, Stale, Marking
  <2>3. k <= IF UsesCache(b)' THEN Vacs' ELSE Vacs' + 1 BY <1>2, <2>1, <2>2
  <2>4. k = 0 /\ ~Stale' => FlagsRight(c)'
    <3>1. k = 0 /\ ~Stale' => FlagsRight(c) BY <2>1, <2>2, <2>c
    <3>2. FlagsRight(c) => FlagsRight(c)' BY <1>1 DEF FlagsRight, CodeSpots
    <3> QED BY <3>1, <3>2
  <2>5. c.key = d.key BY <2>c
  <2> QED BY <1>1, <2>1, <2>3, <2>4, <2>5 DEF Aged
<1>9. CacheOk(cs, ads, b)'
  <2>1. KeyOk(cs, ads, c.key)' BY <1>0, <1>1 DEF CacheOk, KeyOk
  <2>2. NodesOk(c)' BY <1>1 DEF NodesOk, CodeSpots
  <2>3. CellsOk(c)' BY <1>1 DEF CellsOk, AdjSpots, ListOk
  <2>4. Ready(cs, c, pc[b])' BY <1>1 DEF Ready, Blocks, Reached, AdjSpots
  <2>5. \E k \in Nat : Aged(b, k)' BY <1>0, <1>8 DEF CacheOk
  <2> QED BY <2>1, <2>2, <2>3, <2>4, <2>5 DEF CacheOk
<1>10. ScanOk(b)'
  <2>o. PICK o : o = op[b] OBVIOUS
  <2>1. SUFFICES ASSUME o.kind = "scan" PROVE ScanOk(b)' BY <2>o DEF ScanOk
  <2>2. Scanning(b) /\ pc'[b] # "done" /\ pc'[b] # "scan" /\ ~Inserting(b) BY <2>1, <2>o DEF Scanning, Inserting
  <2>3. SnapOk(b) /\ o.due \subseteq o.snap /\ o.ret = {} /\ DueOk(b, cache[b].key.count) /\ Aged(b, 0)
    BY <1>0, <2>1, <2>2, <2>o DEF ScanOk
  <2>4. SnapOk(b)' BY <1>1, <2>3 DEF SnapOk
  <2>5. DueOk(b, cache[b].key.count)' BY <1>1, <2>3 DEF DueOk, HasNode, CodeSpots
  <2>6. Aged(b, 0)'
    <3>1. 0 \in Nat OBVIOUS
    <3> QED BY <1>8, <2>3, <3>1
  <2> QED BY <2>2, <2>3, <2>4, <2>5, <2>6, <2>o DEF ScanOk
<1> QED BY <1>3, <1>2, <1>4, <1>5, <1>6, <1>7, <1>9, <1>10, BackendStep

\* The block of the chain, whether it is guessed or looked up
LEMMA CodeBlockIs ==
  ASSUME Typed, NEW cs, NEW ads, Good(cs, ads), NEW b \in Backends, pc[b] = "loadCode",
         NEW c, c = cache[b], NEW j, j = c.pageNo + 1
  PROVE  /\ j \in 1..Len(cs) /\ CodeBlock(c).blk = cs[j] /\ CodeBlock(c).mapped \in BOOLEAN
         /\ ~CodeBlock(c).mapped => \A i \in 1..j : cs[i] = c.key.codeStart + i - 1
<1>1. Chained(page, cs, ads) /\ Placed(cs, ads) BY DEF Good
<1>2. /\ cache[b] # NoCache /\ CacheOk(cs, ads, b) /\ c \in CacheType(c.key)
      /\ c.key.count \in Nat \ {0} /\ c.key.count <= meta.count
  BY HasCache
<1>3. KeyOk(cs, ads, c.key) /\ Ready(cs, c, "loadCode") BY <1>2 DEF CacheOk
<1>4. c.pageNo \in Nat /\ c.mapped \in BOOLEAN BY <1>2 DEF CacheType
<1>s. PICK s : s = c.key.codeStart OBVIOUS
<1>5. /\ s = Start(cs) /\ c.pageNo * CodeCap < c.key.count
      /\ ~c.mapped => \A i \in 1..c.pageNo : cs[i] = s + i - 1
  BY <1>3, <1>s DEF KeyOk, Ready
<1>m. PICK m, n : m = Len(cs) /\ n = Len(page) OBVIOUS
<1>6. /\ m \in Nat /\ n \in Nat /\ cs \in Seq(1..n) /\ IsChain(page, cs, "code")
  BY <1>1, <1>m DEF Chained, IsChain, Typed
<1>7. \A i \in 1..m : cs[i] \in 1..n BY <1>6, <1>m, ElementOfSeq
<1>8. \A i, k \in 1..m : i < k => cs[i] < cs[k] BY <1>6, <1>m DEF IsChain
<1>9. j \in 1..m
  <2>1. meta.count \in Nat BY DEF Typed, MetaType
  <2>2. meta.count <= Total(page, cs) /\ Total(page, cs) \in Nat BY <1>1, <2>1, PagesOfNodes DEF Placed
  <2>3. c.pageNo * CodeCap \in Nat
    <3>1. CodeCap \in Nat BY Basics
    <3> QED BY <1>4, <3>1
  <2>4. c.pageNo * CodeCap < Total(page, cs) BY <1>2, <1>5, <2>1, <2>2, <2>3
  <2>5. c.pageNo < Len(cs) BY <1>1, <1>4, <2>4, PagesOfNodes
  <2> QED BY <1>4, <1>6, <1>m, <2>5
<1>10. ChainOf(page, s) = cs
  <2>1. Len(page) \in Nat BY <1>6, <1>m
  <2> QED BY <1>5, <1>6, <2>1, ChainFollowed
<1>11. s = cs[1] /\ s \in 1..n
  <2>1. 1 \in 1..m /\ cs # <<>> BY <1>6, <1>9, <1>m
  <2> QED BY <1>5, <1>7, <2>1 DEF Start
<1>g. PICK guess : guess = s + c.pageNo OBVIOUS
<1>k. PICK k : k = page[guess].kind OBVIOUS
<1>12. CodeBlock(c) = [blk |-> IF c.mapped \/ k # "code" THEN cs[j] ELSE guess, mapped |-> c.mapped \/ k # "code"]
  <2>1. c.pageNo < Len(cs) BY <1>4, <1>9, <1>m
  <2> QED BY <1>10, <1>g, <1>k, <1>s, <2>1 DEF CodeBlock
<1>13. ~c.mapped /\ k = "code" => guess = cs[j]
  <2>1. SUFFICES ASSUME ~c.mapped, k = "code" PROVE guess = cs[j] OBVIOUS
  <2>2. \A i \in 1..c.pageNo : cs[i] = s + i - 1 BY <1>5, <2>1
  <2>3. guess \in Nat /\ guess <= cs[j]
    <3>1. CASE c.pageNo = 0 BY <1>11, <1>g, <3>1
    <3>2. CASE c.pageNo # 0
      <4>1. c.pageNo \in 1..c.pageNo /\ c.pageNo \in 1..m /\ c.pageNo < j BY <1>4, <1>6, <1>9, <3>2
      <4>2. cs[c.pageNo] = s + c.pageNo - 1 /\ cs[c.pageNo] < cs[j] BY <1>8, <1>9, <2>2, <4>1
      <4> QED BY <1>4, <1>7, <1>9, <1>11, <1>g, <4>2
    <3> QED BY <3>1, <3>2
  <2>4. guess \in 1..n
    <3>1. cs[j] \in 1..n BY <1>7, <1>9
    <3>2. n \in Nat /\ s \in 1..n /\ guess = s + c.pageNo /\ c.pageNo \in Nat BY <1>4, <1>6, <1>11, <1>g
    <3> QED BY ONLY <2>3, <3>1, <3>2
  <2>5. PICK i \in 1..m : cs[i] = guess BY <1>6, <1>k, <1>m, <2>1, <2>4 DEF IsChain
  <2>6. ~(i < j)
    <3>1. i < j => i \in 1..c.pageNo BY <1>4
    <3>2. i < j => cs[i] = s + i - 1 BY <2>2, <3>1
    <3> QED BY <1>4, <1>11, <1>g, <2>5, <3>2
  <2>7. ~(j < i)
    <3>1. j < i => cs[j] < cs[i] BY <1>8, <1>9
    <3> QED BY <1>7, <1>9, <2>3, <2>5, <3>1
  <2>8. i = j BY <1>9, <2>6, <2>7
  <2> QED BY <2>5, <2>8
<1>14. CodeBlock(c).blk = cs[j] /\ CodeBlock(c).mapped = (c.mapped \/ k # "code") BY <1>12, <1>13, <1>4
<1>15. ~CodeBlock(c).mapped => \A i \in 1..j : cs[i] = s + i - 1
  <2>1. SUFFICES ASSUME ~c.mapped, k = "code", NEW i \in 1..j PROVE cs[i] = s + i - 1 BY <1>14
  <2>2. CASE i = j BY <1>4, <1>11, <1>13, <1>g, <2>1, <2>2
  <2>3. CASE i # j
    <3>1. i \in 1..c.pageNo BY <1>4, <2>3
    <3> QED BY <1>5, <2>1, <3>1
  <2> QED BY <2>2, <2>3
<1> QED BY <1>4, <1>9, <1>14, <1>15, <1>m, <1>s

\* A code page in the cache
LEMMA LoadCodePageKeeps ==
  ASSUME Inv, NEW b \in Backends, LoadCodePage(b)
  PROVE  Inv'
<1>1. PICK cs, ads : Good(cs, ads) BY DEF Inv
<1>2. Typed /\ Turns BY DEF Inv
<1>c. PICK c : c = cache[b] OBVIOUS
<1>g. PICK g : g = CodeBlock(c) OBVIOUS
<1>j. PICK j : j = c.pageNo + 1 OBVIOUS
<1>n. PICK N, B, T : N = c.key.count /\ B = cs[j] /\ T = page[B].tup OBVIOUS
<1>3. /\ pc[b] = "loadCode"
      /\ page' = page /\ meta' = meta /\ heap' = heap /\ rows' = rows /\ op' = op /\ vac' = vac
      /\ bounds' = bounds
      /\ pc' = [pc EXCEPT ![b] = IF c.pageNo + 1 < PageCount(c.key.count) THEN "loadCode" ELSE "loadAdj"]
  BY <1>c DEF LoadCodePage, Goto
<1>4. /\ c # NoCache /\ CacheOk(cs, ads, b) /\ c \in CacheType(c.key) /\ N \in Nat \ {0} /\ N <= meta.count
  BY <1>1, <1>2, <1>3, <1>c, <1>n, HasCache
<1>5. /\ j \in 1..Len(cs) /\ g.blk = B /\ g.mapped \in BOOLEAN
      /\ ~g.mapped => \A i \in 1..j : cs[i] = c.key.codeStart + i - 1
  BY <1>1, <1>2, <1>3, <1>c, <1>g, <1>j, <1>n, CodeBlockIs
<1>6. /\ NodesOk(c) /\ CellsOk(c) /\ Ready(cs, c, "loadCode") /\ KeyOk(cs, ads, c.key)
  BY <1>3, <1>4, <1>c DEF CacheOk
<1>7. /\ c.pageNo \in Nat /\ c.nodes \in [0..(N - 1) -> Loaded] /\ DOMAIN c.nodes = 0..(N - 1)
  BY <1>4, <1>n DEF CacheType
<1>8. Chained(page, cs, ads) /\ page \in Seq(PageType) /\ Placed(cs, ads) BY <1>1, <1>2 DEF Good, Typed
<1>9. cs \in Seq(1..Len(page)) /\ B \in 1..Len(page) /\ page[B].kind = "code" /\ B # Nil
  <2>1. cs \in Seq(1..Len(page)) BY <1>8 DEF Chained, IsChain
  <2>2. B \in 1..Len(page) BY <1>5, <1>n, <2>1, ElementOfSeq
  <2>3. page[B].kind = "code" BY <1>5, <1>8, <1>n, <2>2 DEF Chained, IsChain
  <2> QED BY <2>1, <2>2, <2>3, Basics
<1>10. ASSUME NEW i \in 1..Len(T)
       PROVE  /\ <<B, i>> \in CodeSpots /\ At(page, <<B, i>>) = T[i] /\ T[i] \in CodeType /\ T[i] # NotLoaded
              /\ T[i].node = (j - 1) * CodeCap + i - 1
  <2>1. Len(T) \in Nat
    <3>1. page[B] \in PageType BY <1>8, <1>9, ElementOfSeq
    <3> QED BY <1>n, <3>1, PageIs
  <2>2. <<B, i>> \in CodeSpots /\ At(page, <<B, i>>) = T[i] BY <1>9, <1>n, <2>1 DEF CodeSpots, Spots, At
  <2>3. T[i] \in CodeType
    <3>1. "code" \in Kinds BY DEF Kinds
    <3> QED BY <1>8, <2>2, <3>1, SpotTyped DEF TupleType, CodeSpots
  <2>4. T[i].tid # NotLoaded.tid BY <2>3, Basics DEF CodeType, NotLoaded, CodeTuple
  <2>5. T[i].node = (j - 1) * CodeCap + i - 1 BY <1>5, <1>8, <1>n DEF Chained, Numbered
  <2> QED BY <2>2, <2>3, <2>4, <2>5
<1> DEFINE nodes2 == LoadedNodes(c, B)
           Hit(n, i) == i \in 1..Len(T) /\ T[i].node = n
<1>11. ASSUME NEW n \in 0..(N - 1)
       PROVE  \/ (\A i : ~Hit(n, i)) /\ nodes2[n] = c.nodes[n]
              \/ \E i : Hit(n, i) /\ nodes2[n] = T[i]
  <2> DEFINE at == {i \in 1..Len(T) : T[i].node = n}
  <2>1. nodes2[n] = IF at = {} THEN c.nodes[n] ELSE T[Max(at)] BY <1>7, <1>n DEF LoadedNodes
  <2>2. CASE at = {} BY <2>1, <2>2
  <2>3. CASE at # {}
    <3>1. PICK i \in 1..Len(T) : T[i].node = n BY <2>3
    <3>2. \A k \in at : k = i
      <4> SUFFICES ASSUME NEW k \in at PROVE k = i OBVIOUS
      <4>1. <<B, k>> \in Spots(page, "code") /\ <<B, i>> \in Spots(page, "code")
            /\ At(page, <<B, k>>).node = At(page, <<B, i>>).node
        BY <1>10, <3>1 DEF CodeSpots
      <4>2. <<B, k>> = <<B, i>> BY ONLY <1>8, <4>1, NodesDiffer
      <4> QED BY <4>2
    <3>3. at = {i} BY <3>1, <3>2
    <3>4. Max(at) = i
      <4>1. i \in Nat BY <3>1
      <4> QED BY <3>3, <4>1 DEF Max
    <3> QED BY <2>1, <2>3, <3>1, <3>4
  <2> QED BY <2>2, <2>3
<1>12. DOMAIN nodes2 = 0..(N - 1) /\ nodes2 = [n \in 0..(N - 1) |-> nodes2[n]] BY <1>7 DEF LoadedNodes
<1> HIDE DEF nodes2
<1>x. PICK x : x = [c EXCEPT !.pageNo = c.pageNo + 1, !.mapped = g.mapped, !.nodes = nodes2] OBVIOUS
<1>13. cache' = [cache EXCEPT ![b] = x]
  <2>1. cache' = [cache EXCEPT ![b].pageNo = c.pageNo + 1, ![b].mapped = g.mapped,
                               ![b].nodes = IF g.blk = Nil THEN c.nodes ELSE LoadedNodes(c, g.blk)]
    BY <1>2, <1>c, <1>g DEF LoadCodePage, Typed
  <2>2. (IF g.blk = Nil THEN c.nodes ELSE LoadedNodes(c, g.blk)) = nodes2 BY <1>5, <1>9 DEF nodes2
  <2>3. cache = [a \in Backends |-> cache[a]] BY <1>2 DEF Typed
  <2>4. cache' = [cache EXCEPT ![b].pageNo = c.pageNo + 1, ![b].mapped = g.mapped, ![b].nodes = nodes2]
    BY <2>1, <2>2
  <2> QED BY <1>c, <1>x, <2>3, <2>4
<1>14. /\ x.key = c.key /\ x.cached = c.cached /\ x.pageNo = j /\ x.mapped = g.mapped /\ x.adjBlk = c.adjBlk
       /\ x.nodes = nodes2 /\ x.adj = c.adj
  BY <1>4, <1>x, <1>j DEF CacheType
<1>15. x \in CacheType(x.key) /\ x # NoCache
  <2>1. \A n \in 0..(N - 1) : nodes2[n] \in Loaded
    <3> SUFFICES ASSUME NEW n \in 0..(N - 1) PROVE nodes2[n] \in Loaded OBVIOUS
    <3>1. \A t \in CodeType : t \in Loaded BY DEF CodeType, Loaded
    <3> QED BY <1>7, <1>10, <1>11, <3>1
  <2>2. nodes2 \in [0..(N - 1) -> Loaded] BY <1>12, <2>1
  <2>3. c.pageNo + 1 \in Nat BY <1>7
  <2>4. x \in CacheType(c.key) BY <1>4, <1>5, <1>n, <1>x, <2>2, <2>3 DEF CacheType
  <2>5. "pageNo" \in DOMAIN x /\ "pageNo" \notin DOMAIN NoCache BY <1>4, <1>x DEF CacheType, NoCache
  <2> QED BY <1>14, <2>4, <2>5
<1>l. PICK label : label = IF c.pageNo + 1 < PageCount(c.key.count) THEN "loadCode" ELSE "loadAdj" OBVIOUS
<1>16. NodesOk(x)
  <2> SUFFICES ASSUME NEW p \in CodeSpots, At(page, p).node < N
               PROVE  LET t == At(page, p) IN
                      \/ nodes2[t.node] = NotLoaded
                      \/ /\ nodes2[t.node].node = t.node /\ nodes2[t.node].tid = t.tid
                         /\ nodes2[t.node].row = t.row /\ (nodes2[t.node].dead => t.dead)
    BY <1>14, <1>n DEF NodesOk
  <2>t. PICK t : t = At(page, p) OBVIOUS
  <2>1. t.node \in 0..(N - 1)
    <3>1. "code" \in Kinds BY DEF Kinds
    <3>2. t.node \in Nat BY <1>8, <2>t, <3>1, SpotTyped DEF CodeSpots
    <3> QED BY <1>4, <2>t, <3>2
  <2>2. CASE \E i : Hit(t.node, i) /\ nodes2[t.node] = T[i]
    <3>1. PICK i \in 1..Len(T) : T[i].node = t.node /\ nodes2[t.node] = T[i] BY <2>2
    <3>2. <<B, i>> = p BY <1>8, <1>10, <2>t, <3>1, NodesDiffer DEF CodeSpots
    <3> QED BY <1>10, <2>t, <3>1, <3>2
  <2>3. CASE nodes2[t.node] = c.nodes[t.node]
    BY <1>6, <1>n, <2>3, <2>t DEF NodesOk
  <2> QED BY <1>11, <2>1, <2>2, <2>3
<1>17. FlagsRight(c) => FlagsRight(x)
  <2> SUFFICES ASSUME FlagsRight(c), NEW p \in CodeSpots, At(page, p).node < N, nodes2[At(page, p).node] # NotLoaded
               PROVE  nodes2[At(page, p).node].dead = At(page, p).dead
    BY <1>14, <1>n DEF FlagsRight
  <2>t. PICK t : t = At(page, p) OBVIOUS
  <2>1. t.node \in 0..(N - 1)
    <3>1. "code" \in Kinds BY DEF Kinds
    <3>2. t.node \in Nat BY <1>8, <2>t, <3>1, SpotTyped DEF CodeSpots
    <3> QED BY <1>4, <2>t, <3>2
  <2>2. CASE \E i : Hit(t.node, i) /\ nodes2[t.node] = T[i]
    <3>1. PICK i \in 1..Len(T) : T[i].node = t.node /\ nodes2[t.node] = T[i] BY <2>2
    <3>2. <<B, i>> = p BY <1>8, <1>10, <2>t, <3>1, NodesDiffer DEF CodeSpots
    <3> QED BY <1>10, <2>t, <3>1, <3>2
  <2>3. CASE nodes2[t.node] = c.nodes[t.node]
    BY <1>n, <2>3, <2>t DEF FlagsRight
  <2> QED BY <1>11, <2>1, <2>2, <2>3
<1>18. CellsOk(x) BY <1>6, <1>14 DEF CellsOk
<1>19. \A n \in 0..(N - 1) : n < j * CodeCap => nodes2[n] # NotLoaded
  <2> SUFFICES ASSUME NEW n \in 0..(N - 1), n < j * CodeCap PROVE nodes2[n] # NotLoaded OBVIOUS
  <2>1. CASE \E i : Hit(n, i)
    <3>1. \E i : Hit(n, i) /\ nodes2[n] = T[i] BY <1>11, <2>1
    <3> QED BY <1>10, <3>1
  <2>2. CASE \A i : ~Hit(n, i)
    <3>1. ~(n >= (j - 1) * CodeCap)
      <4> SUFFICES ASSUME n >= (j - 1) * CodeCap PROVE FALSE OBVIOUS
      <4>1. meta.count \in Nat BY <1>2 DEF Typed, MetaType
      <4>2. meta.count <= Total(page, cs) /\ Total(page, cs) \in Nat BY <1>8, <4>1, PagesOfNodes DEF Placed
      <4>3. n \in Nat /\ n < Total(page, cs) BY <1>4, <4>1, <4>2
      <4>4. PICK p \in Spots(page, "code") : At(page, p).node = n BY <1>8, <4>3, NodeIsThere
      <4>5. PICK k : CodeAt(page, cs, p, k) BY <1>8, CodeSpotIs
      <4>6. k \in 1..Len(cs) /\ p[1] = cs[k] /\ p[2] \in 1..Len(page[cs[k]].tup)
            /\ (k - 1) * CodeCap <= n /\ n < k * CodeCap
        BY <4>4, <4>5 DEF CodeAt
      <4>7. k = j
        <5>0. k \in Nat /\ j \in Nat /\ j - 1 \in Nat /\ k - 1 \in Nat /\ CodeCap \in Nat BY <1>5, <4>6, Basics
        <5>1. ~(k < j)
          <6>1. k < j => k <= j - 1 BY <5>0
          <6>2. k < j - 1 => k * CodeCap + CodeCap <= (j - 1) * CodeCap /\ k * CodeCap \in Nat
                  /\ (j - 1) * CodeCap \in Nat BY <5>0, Products
          <6>3. k < j - 1 => FALSE BY <4>3, <4>6, <5>0, <6>2
          <6>4. k = j - 1 => FALSE BY <4>3, <4>6, <5>0
          <6> QED BY <5>0, <6>1, <6>3, <6>4
        <5>2. ~(j < k)
          <6>1. j < k - 1 => j * CodeCap + CodeCap <= (k - 1) * CodeCap /\ j * CodeCap \in Nat
                  /\ (k - 1) * CodeCap \in Nat BY <5>0, Products
          <6>2. j < k - 1 => FALSE BY <4>3, <4>6, <5>0, <6>1
          <6>3. j = k - 1 => FALSE BY <4>3, <4>6, <5>0
          <6> QED BY <5>0, <6>2, <6>3
        <5> QED BY <5>0, <5>1, <5>2
      <4>8. p[2] \in 1..Len(T) /\ T[p[2]].node = n BY <1>n, <4>4, <4>6, <4>7 DEF At
      <4> QED BY <2>2, <4>8
    <3>2. nodes2[n] = c.nodes[n] BY <1>11, <2>2
    <3>3. c.pageNo = j - 1 BY <1>7, <1>j
    <3>4. n < (j - 1) * CodeCap
      <4>1. (j - 1) * CodeCap \in Nat
        <5>1. j - 1 \in Nat /\ CodeCap \in Nat BY <1>5, Basics
        <5> QED BY <5>1
      <4> QED BY <1>4, <3>1, <4>1
    <3> QED BY <1>6, <1>n, <3>2, <3>3, <3>4 DEF Ready
  <2> QED BY <2>1, <2>2
<1>20. Ready(cs, x, label)
  <2>0. c.adjBlk = c.key.adjStart /\ c.cached = FALSE
    <3>1. c.cached \in BOOLEAN BY <1>4 DEF CacheType
    <3> QED BY <1>6, <3>1 DEF Ready
  <2>p. PageCount(N) \in Nat /\ (j < PageCount(N) <=> j * CodeCap < N)
    <3>1. j \in Nat BY <1>5
    <3> QED BY <1>4, <3>1, PagesFor
  <2>1. CASE label = "loadCode"
    <3>1. j * CodeCap < N BY <1>j, <1>l, <1>n, <2>1, <2>p
    <3> QED BY <1>5, <1>14, <1>19, <1>n, <2>0, <2>1, <3>1 DEF Ready
  <2>2. CASE label = "loadAdj"
    <3>1. ~(j * CodeCap < N) BY <1>j, <1>l, <1>n, <2>2, <2>p
    <3>2. \A n \in 0..(N - 1) : nodes2[n] # NotLoaded
      <4>1. j * CodeCap \in Nat
        <5>1. j \in Nat /\ CodeCap \in Nat BY <1>5, Basics
        <5> QED BY <5>1
      <4>2. \A n \in 0..(N - 1) : n < j * CodeCap BY <1>4, <3>1, <4>1
      <4> QED BY <1>19, <4>2
    <3>3. meta.count # 0 BY <1>1, <1>2, <1>3, HasCache
    <3>4. c.adjBlk = Start(ads) /\ Start(ads) \in Blocks /\ page[Start(ads)].kind = "adj" /\ ads # <<>>
      BY <1>1, <1>2, <1>6, <2>0, <3>3, StartsThere DEF KeyOk
    <3>5. \A p \in AdjSpots : p[1] \notin 1..(c.adjBlk - 1)
      <4> SUFFICES ASSUME NEW p \in AdjSpots PROVE ~(p[1] < Start(ads))
        <5>1. \A p \in AdjSpots : p[1] \in Nat BY DEF AdjSpots, Spots
        <5> QED BY <3>4, <5>1 DEF Blocks
      <4>1. p[1] \in 1..Len(page) /\ page[p[1]].kind = "adj" BY DEF AdjSpots, Spots
      <4>2. ads \in Seq(1..Len(page)) /\ \A i, k \in 1..Len(ads) : i < k => ads[i] < ads[k]
        BY <1>8 DEF Chained, IsChain
      <4>3. PICK i \in 1..Len(ads) : ads[i] = p[1] BY <1>8, <4>1 DEF Chained, IsChain
      <4>4. 1 \in 1..Len(ads) /\ Start(ads) = ads[1] /\ ads[1] \in 1..Len(page)
        BY <3>4, <4>2, <4>3 DEF Start
      <4>5. i = 1 \/ ads[1] < ads[i] BY <4>2, <4>3, <4>4
      <4> QED BY <4>1, <4>3, <4>4, <4>5
    <3>6. Reached(x, 1..(c.adjBlk - 1)) BY <3>5 DEF Reached
    <3> QED BY <1>14, <1>n, <2>0, <2>2, <3>2, <3>4, <3>6 DEF Ready
  <2> QED BY <1>l, <2>1, <2>2
<1>21. Rests
  <2>1. bounds \in Counters BY <1>2 DEF Typed
  <2> QED BY <1>3, <2>1 DEF Rests
<1>22. Sets(b, x, op[b], label)
  <2>1. op' = [op EXCEPT ![b] = op[b]] BY <1>2, <1>3, SelfMoves
  <2> QED BY <1>3, <1>13, <1>l, <2>1 DEF Sets
<1>23. Own(b) /\ cache'[b] = x /\ op'[b] = op[b] /\ pc'[b] = label BY <1>2, <1>21, <1>22, OwnMoves
<1>24. label \in {"loadCode", "loadAdj", IF Inserting(b) THEN "select" ELSE "collect"} BY <1>l
<1> QED BY <1>1, <1>2, <1>3, <1>14, <1>15, <1>16, <1>17, <1>18, <1>20, <1>23, <1>24, <1>c, LoadStep

\* The adjacency tuple at a place
LEMMA AdjSpotIs ==
  ASSUME Typed, NEW cs, NEW ads, Good(cs, ads), NEW p \in AdjSpots
  PROVE  /\ At(page, p) \in AdjType /\ ListOk(At(page, p).node, At(page, p).level, At(page, p).nbrs)
         /\ At(page, p).node \in Nat /\ At(page, p).level \in Nat
         /\ \A q \in AdjSpots : At(page, q).node = At(page, p).node /\ At(page, q).level = At(page, p).level => q = p
         /\ At(page, p).node < meta.count =>
              At(page, p).node \in NodeIds /\ At(page, p).level <= NodeLevel[At(page, p).node]
              /\ At(page, p).level \in 0..TopLevel
<1>t. PICK n, l, t : t = At(page, p) /\ n = t.node /\ l = t.level OBVIOUS
<1>1. t \in AdjType
  <2>1. "adj" \in Kinds /\ page \in Seq(PageType) BY DEF Kinds, Typed
  <2> QED BY <1>t, <2>1, SpotTyped DEF AdjSpots, TupleType
<1>2. n \in Nat /\ l \in Nat BY <1>1, <1>t DEF AdjType
<1>3. ListOk(n, l, t.nbrs) BY <1>t DEF Good, Lists
<1>4. Placed(cs, ads) BY DEF Good
<1>5. \A q \in AdjSpots : At(page, q).node = n /\ At(page, q).level = l => q = p BY <1>4, <1>t DEF Placed
<1>6. n < meta.count => n \in NodeIds /\ l <= NodeLevel[n]
  <2>1. AdjOf(n, l) \/ AdjNew(n, l) BY <1>2, <1>4, <1>t DEF Placed
  <2>2. AdjNew(n, l) => n = meta.count BY DEF AdjNew
  <2>3. meta.count \in Nat BY DEF Typed, MetaType
  <2> QED BY <1>2, <2>1, <2>2, <2>3 DEF AdjOf
<1>7. n < meta.count => l \in 0..TopLevel
  <2>1. TopLevel \in Nat /\ \A k \in NodeIds : NodeLevel[k] <= TopLevel BY TopIs
  <2>2. \A k \in NodeIds : NodeLevel[k] \in Nat BY Basics
  <2> QED BY <1>2, <1>6, <2>1, <2>2
<1> QED BY <1>1, <1>2, <1>3, <1>5, <1>6, <1>7, <1>t

\* An adjacency page in the cache
LEMMA LoadAdjPageKeeps ==
  ASSUME Inv, NEW b \in Backends, LoadAdjPage(b)
  PROVE  Inv'
<1>1. PICK cs, ads : Good(cs, ads) BY DEF Inv
<1>2. Typed /\ Turns BY DEF Inv
<1>c. PICK c : c = cache[b] OBVIOUS
<1>n. PICK N, B, T, next : N = c.key.count /\ B = c.adjBlk /\ T = page[B].tup /\ next = page[B].next OBVIOUS
<1>l. PICK label : label = IF next # Nil THEN "loadAdj" ELSE IF Inserting(b) THEN "select" ELSE "collect" OBVIOUS
<1>3. /\ pc[b] = "loadAdj"
      /\ page' = page /\ meta' = meta /\ heap' = heap /\ rows' = rows /\ op' = op /\ vac' = vac
      /\ bounds' = bounds
      /\ pc' = [pc EXCEPT ![b] = label]
  BY <1>c, <1>n, <1>l DEF LoadAdjPage, Goto, Inserting
<1>4. /\ c # NoCache /\ CacheOk(cs, ads, b) /\ c \in CacheType(c.key) /\ N \in Nat \ {0} /\ N <= meta.count
  BY <1>1, <1>2, <1>3, <1>c, <1>n, HasCache
<1>5. /\ NodesOk(c) /\ CellsOk(c) /\ Ready(cs, c, "loadAdj") /\ KeyOk(cs, ads, c.key)
  BY <1>3, <1>4, <1>c DEF CacheOk
<1>6. B \in 1..Len(page) /\ page[B].kind = "adj" /\ Reached(c, 1..(B - 1)) BY <1>5, <1>n DEF Ready, Blocks
<1>7. Chained(page, cs, ads) /\ page \in Seq(PageType) /\ meta.count \in Nat /\ Len(page) \in Nat
  BY <1>1, <1>2 DEF Good, Typed, MetaType
<1>8. DOMAIN c.adj = 0..(N - 1) /\ c.adj \in [0..(N - 1) -> [0..TopLevel -> AdjCell]] BY <1>4, <1>n DEF CacheType
<1>9. Len(T) \in Nat /\ next \in Nat
  <2>1. page[B] \in PageType BY <1>6, <1>7, ElementOfSeq
  <2> QED BY <1>n, <2>1, PageIs
<1> DEFINE adj2 == LoadedAdj(c, B)
           Hit(n, l, i) == i \in 1..Len(T) /\ T[i].node = n /\ T[i].level = l
           Cell(i) == [nbrs |-> T[i].nbrs, blk |-> B, off |-> i]
<1>10. ASSUME NEW i \in 1..Len(T) PROVE <<B, i>> \in AdjSpots /\ At(page, <<B, i>>) = T[i]
  BY SMTT(30), <1>6, <1>9, <1>n DEF AdjSpots, Spots, At
<1>11. ASSUME NEW n \in 0..(N - 1), NEW l \in 0..TopLevel
       PROVE  \/ (\A i : ~Hit(n, l, i)) /\ adj2[n][l] = c.adj[n][l]
              \/ \E i : Hit(n, l, i) /\ adj2[n][l] = Cell(i)
  <2> DEFINE at == {i \in 1..Len(T) : /\ T[i].node = n /\ T[i].level = l /\ l <= c.key.maxLevel
                                      /\ Cardinality(T[i].nbrs) <= LevelM(l)}
  <2>1. adj2[n][l] = IF at = {} THEN c.adj[n][l] ELSE [nbrs |-> T[Max(at)].nbrs, blk |-> B, off |-> Max(at)]
    BY <1>8, <1>n DEF LoadedAdj
  <2>2. CASE \A i : ~Hit(n, l, i)
    <3>1. at = {} BY <2>2
    <3> QED BY <2>1, <2>2, <3>1
  <2>3. CASE \E i : Hit(n, l, i)
    <3>1. PICK i \in 1..Len(T) : T[i].node = n /\ T[i].level = l BY <2>3
    <3>p. PICK p : p = <<B, i>> OBVIOUS
    <3>2. p \in AdjSpots /\ At(page, p) = T[i] BY <1>10, <3>p
    <3>3. /\ ListOk(n, l, T[i].nbrs) /\ n \in NodeIds /\ l <= NodeLevel[n]
          /\ \A q \in AdjSpots : At(page, q).node = n /\ At(page, q).level = l => q = p
      <4>1. n < meta.count BY <1>4, <1>7
      <4> QED BY <1>1, <1>2, <3>1, <3>2, <4>1, AdjSpotIs
    <3>4. l <= c.key.maxLevel
      <4>1. Levels(c.key) BY <1>5 DEF KeyOk
      <4>2. NodeLevel[n] <= c.key.maxLevel BY <1>4, <1>n, <3>3, <4>1 DEF Levels
      <4>3. NodeLevel[n] \in Nat /\ c.key.maxLevel \in Nat
        <5>1. c.key \in MetaType BY <1>4 DEF CacheType
        <5> QED BY <3>3, <5>1, Basics DEF MetaType
      <4> QED BY <3>3, <4>2, <4>3
    <3>5. i \in at BY <3>1, <3>3, <3>4 DEF ListOk
    <3>6. \A k \in at : k = i
      <4> SUFFICES ASSUME NEW k \in at PROVE k = i OBVIOUS
      <4>1. <<B, k>> \in AdjSpots /\ At(page, <<B, k>>) = T[k] BY <1>10
      <4>2. <<B, k>> = p BY <3>3, <4>1
      <4> QED BY <3>p, <4>2
    <3>7. at = {i} BY <3>5, <3>6
    <3>8. Max(at) = i
      <4>1. i \in Nat BY SMTT(30), <3>1
      <4> QED BY <3>7, <4>1 DEF Max
    <3> QED BY <2>1, <3>1, <3>7, <3>8
  <2> QED BY <2>2, <2>3
<1>12. adj2 = [n \in 0..(N - 1) |-> [l \in 0..TopLevel |-> adj2[n][l]]] BY <1>8 DEF LoadedAdj
<1>b. \A i : Cell(i).nbrs = T[i].nbrs /\ Cell(i).blk = B /\ Cell(i).off = i OBVIOUS
<1> HIDE DEF adj2
<1>x. PICK x : x = [c EXCEPT !.adj = adj2, !.adjBlk = next, !.cached = (next = Nil)] OBVIOUS
<1>13. cache' = [cache EXCEPT ![b] = x]
  <2>1. cache' = [cache EXCEPT ![b].adj = LoadedAdj(c, c.adjBlk), ![b].adjBlk = next, ![b].cached = (next = Nil)]
    BY <1>c, <1>n DEF LoadAdjPage
  <2>2. LoadedAdj(c, c.adjBlk) = adj2 BY <1>n DEF adj2
  <2>3. cache = [a \in Backends |-> cache[a]] BY <1>2 DEF Typed
  <2>4. cache' = [cache EXCEPT ![b].adj = adj2, ![b].adjBlk = next, ![b].cached = (next = Nil)]
    BY <2>1, <2>2
  <2> QED BY <1>c, <1>x, <2>3, <2>4
<1>14. /\ x.key = c.key /\ x.cached = (next = Nil) /\ x.pageNo = c.pageNo /\ x.mapped = c.mapped /\ x.adjBlk = next
       /\ x.nodes = c.nodes /\ x.adj = adj2
  BY <1>4, <1>x DEF CacheType
<1>15. x \in CacheType(x.key) /\ x # NoCache
  <2>1. ASSUME NEW i \in 1..Len(T) PROVE Cell(i) \in AdjCell
    <3>1. T[i] \in AdjType BY <1>1, <1>2, <1>10, AdjSpotIs
    <3> QED BY <1>6, <1>7, <1>9, <3>1 DEF AdjType, AdjCell
  <2> HIDE DEF Cell
  <2>2. \A n \in 0..(N - 1), l \in 0..TopLevel : adj2[n][l] \in AdjCell
    <3> SUFFICES ASSUME NEW n \in 0..(N - 1), NEW l \in 0..TopLevel PROVE adj2[n][l] \in AdjCell OBVIOUS
    <3>1. c.adj[n][l] \in AdjCell BY <1>8
    <3> QED BY <1>11, <2>1, <3>1
  <2>3. adj2 \in [0..(N - 1) -> [0..TopLevel -> AdjCell]] BY <1>12, <2>2
  <2>4. x \in CacheType(c.key) BY <1>4, <1>9, <1>n, <1>x, <2>3 DEF CacheType
  <2>5. "pageNo" \in DOMAIN x /\ "pageNo" \notin DOMAIN NoCache BY <1>4, <1>x DEF CacheType, NoCache
  <2> QED BY <1>14, <2>4, <2>5
<1>16. NodesOk(x) /\ (FlagsRight(c) => FlagsRight(x)) BY <1>5, <1>14 DEF NodesOk, FlagsRight
<1>17. CellsOk(x)
  <2> HIDE DEF Cell
  <2>0. ASSUME NEW n \in 0..(N - 1), NEW l \in 0..TopLevel
        PROVE  /\ ListOk(n, l, adj2[n][l].nbrs)
               /\ adj2[n][l].blk # Nil => /\ <<adj2[n][l].blk, adj2[n][l].off>> \in AdjSpots
                                          /\ At(page, <<adj2[n][l].blk, adj2[n][l].off>>).node = n
                                          /\ At(page, <<adj2[n][l].blk, adj2[n][l].off>>).level = l
    <3>1. CASE adj2[n][l] = c.adj[n][l] BY <1>5, <1>n, <3>1 DEF CellsOk
    <3>2. CASE \E i : Hit(n, l, i) /\ adj2[n][l] = Cell(i)
      <4>1. PICK i \in 1..Len(T) : T[i].node = n /\ T[i].level = l /\ adj2[n][l] = Cell(i) BY <3>2
      <4>2. <<B, i>> \in AdjSpots /\ At(page, <<B, i>>) = T[i] BY <1>10
      <4>3. ListOk(n, l, T[i].nbrs) BY <1>1, <1>2, <4>1, <4>2, AdjSpotIs
      <4>4. adj2[n][l].nbrs = T[i].nbrs /\ adj2[n][l].blk = B /\ adj2[n][l].off = i BY <1>b, <4>1
      <4> QED BY <4>1, <4>2, <4>3, <4>4
    <3> QED BY <1>11, <3>1, <3>2
  <2>1. 0..(x.key.count - 1) = 0..(N - 1) /\ x.adj = adj2 BY <1>14, <1>n
  <2> QED BY <2>0, <2>1 DEF CellsOk
<1>18. ASSUME NEW p \in AdjSpots, At(page, p).node < N, p[1] <= B
       PROVE  adj2[At(page, p).node][At(page, p).level].blk # Nil
  <2>t. PICK n, l, t : t = At(page, p) /\ n = t.node /\ l = t.level OBVIOUS
  <2>1. n \in Nat /\ n < meta.count BY <1>1, <1>2, <1>4, <1>7, <1>18, <2>t, AdjSpotIs
  <2>2. n \in 0..(N - 1) /\ l \in 0..TopLevel
    <3>1. l \in 0..TopLevel BY <1>1, <1>2, <2>1, <2>t, AdjSpotIs
    <3> QED BY <1>4, <1>18, <2>1, <2>t, <3>1
  <2> HIDE DEF Cell
  <2>3. B # Nil BY <1>6, Basics
  <2>4. p[1] \in Nat /\ p[1] >= 1 /\ page[p[1]].kind = "adj" /\ p[2] \in 1..Len(page[p[1]].tup) /\ p \in Nat \X Nat
    BY DEF AdjSpots, Spots
  <2>5. CASE p[1] = B
    <3>1. Hit(n, l, p[2])
      <4>1. At(page, p) = T[p[2]] /\ p[2] \in 1..Len(T) BY <1>n, <2>4, <2>5 DEF At
      <4> QED BY <2>t, <4>1
    <3>2. PICK i : adj2[n][l] = Cell(i) BY <1>11, <2>2, <3>1
    <3> QED BY <1>b, <2>3, <2>t, <3>2
  <2>6. CASE p[1] # B
    <3>1. p[1] \in 1..(B - 1) BY <1>6, <1>7, <1>18, <2>4, <2>6
    <3>2. c.adj[n][l].blk # Nil BY <1>6, <1>18, <1>n, <2>t, <3>1 DEF Reached
    <3>3. adj2[n][l] = c.adj[n][l] \/ \E i : adj2[n][l] = Cell(i) BY <1>11, <2>2
    <3> QED BY <1>b, <2>3, <2>t, <3>2, <3>3
  <2> QED BY <2>5, <2>6
<1>m. PICK m : m = Len(ads) OBVIOUS
<1>19. /\ m \in Nat /\ \A i \in 1..m : ads[i] \in 1..Len(page)
       /\ \A i, k \in 1..m : i < k => ads[i] < ads[k]
       /\ \A p \in AdjSpots : \E i \in 1..m : ads[i] = p[1]
       /\ \A i \in 1..m : page[ads[i]].kind = "adj" /\ page[ads[i]].next = IF i = m THEN Nil ELSE ads[i + 1]
  <2>1. IsChain(page, ads, "adj") BY <1>7 DEF Chained
  <2>2. ads \in Seq(1..Len(page)) BY <2>1 DEF IsChain
  <2>3. \A i \in 1..m : ads[i] \in 1..Len(page) BY <1>m, <2>2, ElementOfSeq
  <2>4. \A p \in AdjSpots : p[1] \in 1..Len(page) /\ page[p[1]].kind = "adj" BY DEF AdjSpots, Spots
  <2>5. /\ m \in Nat /\ m = Len(ads)
        /\ \A i, k \in 1..Len(ads) : i < k => ads[i] < ads[k]
        /\ \A z \in 1..Len(page) : page[z].kind = "adj" <=> \E i \in 1..Len(ads) : ads[i] = z
        /\ \A i \in 1..Len(ads) : page[ads[i]].next = IF i = Len(ads) THEN Nil ELSE ads[i + 1]
    BY <1>m, <2>1, <2>2 DEF IsChain
  <2>6. \A p \in AdjSpots : \E i \in 1..m : ads[i] = p[1] BY <2>4, <2>5
  <2>7. \A i \in 1..m : page[ads[i]].kind = "adj" BY <2>3, <2>5
  <2>8. \A i \in 1..m : page[ads[i]].next = IF i = m THEN Nil ELSE ads[i + 1] BY <2>5
  <2> QED BY <2>3, <2>5, <2>6, <2>7, <2>8
<1>20. PICK j \in 1..m : ads[j] = B BY <1>6, <1>7, <1>m DEF Chained, IsChain
<1>21. next = IF j = m THEN Nil ELSE ads[j + 1] BY <1>19, <1>20, <1>n
<1>22. ASSUME NEW p \in AdjSpots, next # Nil => p[1] < next PROVE p[1] <= B
  <2>1. PICK i \in 1..m : ads[i] = p[1] BY <1>19
  <2>2. i <= j
    <3>1. CASE j = m BY <1>19, <3>1
    <3>2. CASE j # m
      <4>1. j + 1 \in 1..m /\ next = ads[j + 1] BY <1>19, <1>21, <3>2
      <4>2. ads[j + 1] \in 1..Len(page) /\ ads[i] \in 1..Len(page) BY <1>19, <4>1
      <4>3. p[1] < next BY <1>22, <4>1, <4>2, Basics
      <4>4. i # j + 1 BY <2>1, <4>1, <4>2, <4>3
      <4>5. ~(j + 1 < i) BY <1>19, <2>1, <4>1, <4>2, <4>3
      <4> QED BY <1>19, <4>1, <4>4, <4>5
    <3> QED BY <3>1, <3>2
  <2>3. i = j \/ ads[i] < ads[j] BY <1>19, <2>2
  <2>4. ads[i] \in Nat /\ ads[j] \in Nat BY <1>19
  <2> QED BY <1>20, <2>1, <2>3, <2>4
<1>23. Ready(cs, x, label)
  <2>0. \A n \in 0..(N - 1) : c.nodes[n] # NotLoaded BY <1>5, <1>n DEF Ready
  <2>1. CASE next # Nil
    <3>1. label = "loadAdj" /\ x.cached = FALSE BY <1>14, <1>l, <2>1
    <3>2. next \in Blocks /\ page[next].kind = "adj"
      <4>1. j # m /\ next = ads[j + 1] BY <1>21, <2>1
      <4>2. j + 1 \in 1..m BY <1>19, <4>1
      <4> QED BY <1>19, <4>1, <4>2 DEF Blocks
    <3>3. Reached(x, 1..(next - 1))
      <4> SUFFICES ASSUME NEW p \in AdjSpots, p[1] \in 1..(next - 1), At(page, p).node < N
                   PROVE  adj2[At(page, p).node][At(page, p).level].blk # Nil
        BY <1>14, <1>n DEF Reached
      <4>1. p[1] < next BY <1>9
      <4> QED BY <1>18, <1>22, <4>1
    <3> QED BY <1>14, <1>n, <2>0, <3>1, <3>2, <3>3 DEF Ready
  <2>2. CASE next = Nil
    <3>1. label \in {"select", "collect"} /\ x.cached = TRUE BY <1>14, <1>l, <2>2
    <3>2. Reached(x, Blocks)
      <4> SUFFICES ASSUME NEW p \in AdjSpots, At(page, p).node < N
                   PROVE  adj2[At(page, p).node][At(page, p).level].blk # Nil
        BY <1>14, <1>n DEF Reached
      <4> QED BY <1>18, <1>22, <2>2
    <3> QED BY <1>14, <1>n, <2>0, <3>1, <3>2 DEF Ready
  <2> QED BY <2>1, <2>2
<1>24. Rests
  <2>1. bounds \in Counters BY <1>2 DEF Typed
  <2> QED BY <1>3, <2>1 DEF Rests
<1>25. Sets(b, x, op[b], label)
  <2>1. op' = [op EXCEPT ![b] = op[b]] BY <1>2, <1>3, SelfMoves
  <2> QED BY <1>3, <1>13, <2>1 DEF Sets
<1>26. Own(b) /\ cache'[b] = x /\ op'[b] = op[b] /\ pc'[b] = label BY <1>2, <1>24, <1>25, OwnMoves
<1>27. label \in {"loadCode", "loadAdj", IF Inserting(b) THEN "select" ELSE "collect"} BY <1>l
<1> QED BY <1>1, <1>2, <1>3, <1>14, <1>15, <1>16, <1>17, <1>23, <1>26, <1>27, <1>c, LoadStep
=============================================================================
