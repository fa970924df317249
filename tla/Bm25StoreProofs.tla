------------------------- MODULE Bm25StoreProofs -------------------------
(***************************************************************************)
(* Proofs about Bm25Store, for any number of backends, TIDs, terms, rows   *)
(* and statements: types, the pages of the delta chains, what the base     *)
(* postings and the delta records of every metadata there has been hold,   *)
(* and what this means for queries and for TextIndex.  They are about      *)
(* inserts that keep apart from compactions, and a VACUUM that does not    *)
(* fail between marking nodes and raising the generation (Orderly); the    *)
(* README says what goes wrong otherwise.                                  *)
(***************************************************************************)
EXTENDS Bm25Store, NatOrder, FiniteSetTheorems, SequenceTheorems

Orderly == ~Overlap /\ "reap" \notin CancelAt

-----------------------------------------------------------------------------
(* The inductive invariant                                                 *)

InsertPcs == {"graph", "tail", "append", "meta"}
QueryPcs  == {"readMeta", "open", "liveness", "score", "done"}
VacuumPcs == {"idle", "mark", "reap", "cleanup", "nodes", "collect", "replace"}

NodeType == [tid : Tids, row : Nat, dead : BOOLEAN]
RecType  == [node : Nat, tid : Tids, text : Texts]
PageType == [next : Nat, tup : Seq(RecType)]
BaseType == [docs : Nat, len : [NodeIds -> Nat], post : [Terms -> [NodeIds -> Nat]]]
MetaType == [docs : Nat, base : Nat, deltaStart : Nat, deltaGen : Nat, deltaDocs : Nat, lastGen : Nat]
HeapType == [row : Nat, state : {"free", "inserting", "live", "dead"}]
Version  == Tids \X Nat
InsertOp == [kind : {"insert"}, tid : Tids, text : Texts, node : Nat, start : Nat, tail : Nat]
QueryOp  == [kind : {"query"}, term : Terms, meta : MetaType, snap : SUBSET Version,
             due : SUBSET Version, ret : SUBSET [tid : Tids, row : Nat, times : Nat]]
VacMark  == [dead : SUBSET Tids, changed : BOOLEAN]
VacMerge == [meta : MetaType, live : SUBSET Nat, recs : SUBSET (Nat \X Nat)]

\* What each backend does is what its statement has come to
OpTyped(b) ==
  \/ pc[b] = "idle" /\ op[b] = NoOp
  \/ pc[b] \in InsertPcs /\ op[b] \in InsertOp
  \/ pc[b] \in QueryPcs /\ op[b] \in QueryOp
VacTyped ==
  \/ pc[Vacuum] = "idle" /\ vac = NoVacuum
  \/ pc[Vacuum] \in {"mark", "reap", "cleanup"} /\ vac \in VacMark
  \/ pc[Vacuum] \in {"nodes", "collect", "replace"} /\ vac \in VacMerge
Typed ==
  /\ graph \in [gen : Nat, node : Seq(NodeType)]
  /\ base \in Seq(BaseType) /\ dpage \in Seq(PageType) /\ meta \in MetaType
  /\ heap \in [Tids -> HeapType] /\ rows \in Seq(Texts)
  /\ cursor \in [Backends -> [start : Nat, tail : Nat, gen : Nat]]
  /\ cache = [b \in Backends |-> cache[b]] /\ op = [b \in Backends |-> op[b]]
  /\ pc = [p \in Backends \cup {Vacuum} |-> pc[p]]
  /\ bounds \in [new : Nat, queries : Nat, deletes : Nat, vacuums : Nat, cancels : Nat]
  /\ VacTyped /\ \A b \in Backends : OpTyped(b)

\* One insert at a time, and no compaction beside it; there are node ids left
Turns ==
  /\ \A a, b \in Backends : Inserting(a) /\ Inserting(b) => a = b
  /\ Compacting => UpdateLockFree
  /\ Count <= Len(rows) /\ Len(rows) = NBuilt + bounds.new /\ bounds.new <= MaxNew
  /\ \A b \in Backends : pc[b] = "graph" => Count < Len(rows)

\* Every delta page belongs to the chain of one first page, its owner
Blocks == 1..Len(dpage)
Linked(o, b) ==
  /\ o[b] \in 1..b /\ o[o[b]] = o[b]
  /\ dpage[b].next = Nil => \A c \in Blocks : b < c => o[c] # o[b]
  /\ dpage[b].next # Nil => /\ dpage[b].next \in Blocks /\ b < dpage[b].next
                            /\ o[dpage[b].next] = o[b]
                            /\ \A c \in Blocks : b < c /\ c < dpage[b].next => o[c] # o[b]
Pages(o) == /\ o \in [Blocks -> Blocks]
            /\ \A b \in Blocks : Linked(o, b) /\ Len(dpage[b].tup) \in 1..DeltaCap

Tid(n)  == NodeState(n).tid
Row(n)  == NodeState(n).row
Dead(n) == NodeState(n).dead
Nodes   == 0..(Count - 1)
TextOf(n) == rows[Row(n)]

\* A document has one delta record at most, with the text of its row; base
\* postings are those of the texts
Spots == {p \in Nat \X Nat : p[1] \in Blocks /\ p[2] \in 1..Len(dpage[p[1]].tup)}
RecOk(p) == Rec(p).node \in Nodes /\ Rec(p).text = TextOf(Rec(p).node) /\ Rec(p).text # NoText
BaseOk(B) ==
  \A n \in NodeIds :
    /\ B.len[n] # 0 => /\ n \in Nodes /\ TextOf(n) # NoText
                       /\ \A w \in Terms : B.post[w][n] = IF w \in TextOf(n) THEN 1 ELSE 0
    /\ B.len[n] = 0 => \A w \in Terms : B.post[w][n] = 0
Docs ==
  /\ \A n \in Nodes : Row(n) \in 1..Len(rows)
  /\ \A p \in Spots : RecOk(p)
  /\ \A p, q \in Spots : Rec(p).node = Rec(q).node => p = q
  /\ \A k \in 1..Len(base) : BaseOk(base[k])

\* H[g] is the metadata whose deltaGen was g, and the records its chain had
\* when it was written.  The chain may grow, by documents its base has not.
Of(o, s) == {p \in Spots : o[p[1]] = s}
Apart(B, S) == \A p \in S : B.len[Rec(p).node] = 0
MetaOk(o, m) ==
  /\ m \in MetaType /\ m.base \in 1..Len(base)
  /\ m.deltaStart # Nil => m.deltaStart \in Blocks /\ o[m.deltaStart] = m.deltaStart
  /\ m.deltaDocs = 0 => m.deltaStart = Nil
  /\ Apart(base[m.base], Of(o, m.deltaStart))
History(o, H) ==
  /\ H = [g \in 0..meta.deltaGen |-> H[g]]
  /\ H[meta.deltaGen].meta = meta
  /\ \A g \in 0..meta.deltaGen :
       /\ MetaOk(o, H[g].meta) /\ H[g].meta.deltaGen = g
       /\ H[g].recs \subseteq Of(o, H[g].meta.deltaStart)
Found(H, n, g) == \/ base[H[g].meta.base].len[n] # 0
                  \/ \E p \in H[g].recs : Rec(p).node = n

\* Nodes that are not dead are of the rows at their TIDs; the document of a
\* live row is found
Holds(n) == heap[Tid(n)].row = Row(n) /\ heap[Tid(n)].state # "free"
NodeOf(n, t, r) == n \in Nodes /\ Tid(n) = t /\ Row(n) = r /\ ~Dead(n)
HeapOk(H) ==
  /\ \A t \in Tids : heap[t].row \in 0..Len(rows) /\ (heap[t].state # "free" => heap[t].row # 0)
  /\ \A n \in Nodes : ~Dead(n) => Holds(n)
  /\ \A t \in Tids : heap[t].state = "live" /\ rows[heap[t].row] \notin {NoText, {}} =>
       \E n \in Nodes : NodeOf(n, t, heap[t].row) /\ Found(H, n, meta.deltaGen)

VacOk(o) ==
  /\ pc[Vacuum] \in {"mark", "reap"} => \A t \in vac.dead : heap[t].state = "dead"
  /\ pc[Vacuum] = "reap" => \A n \in Nodes : Tid(n) \in vac.dead => Dead(n)
  /\ Compacting => vac.meta = meta
  /\ pc[Vacuum] \in {"collect", "replace"} => vac.live = {n \in Nodes : ~Dead(n)}
  /\ pc[Vacuum] = "replace" =>
       vac.recs = {p \in Of(o, meta.deltaStart) : Rec(p).node \in vac.live}

\* The insert of backend b: the node it has made, its record, and where
InsertOk(o, b) ==
  LET i == op[b] IN
  Inserting(b) =>
    /\ heap[i.tid].state = "inserting" /\ i.text = rows[heap[i.tid].row]
    /\ pc[b] # "graph" => NodeOf(i.node, i.tid, heap[i.tid].row) /\ i.text # NoText
    /\ pc[b] \in {"tail", "append"} => /\ \A p \in Spots : Rec(p).node # i.node
                                       /\ \A k \in 1..Len(base) : base[k].len[i.node] = 0
    /\ pc[b] = "append" => /\ i.start = meta.deltaStart /\ (i.start = Nil <=> i.tail = Nil)
                           /\ i.tail # Nil => i.tail \in Blocks /\ o[i.tail] = i.start
    /\ pc[b] = "meta" => /\ i.tail \in Blocks /\ o[i.tail] = i.start
                         /\ meta.deltaStart \in {Nil, i.start}
                         /\ \E p \in Of(o, i.start) : Rec(p).node = i.node
                         /\ \A p \in Of(o, i.start) :
                              meta.deltaStart = Nil => Rec(p).node = i.node
                         /\ Apart(base[meta.base], Of(o, i.start))
CursorOk(o, b) ==
  LET c == cursor[b] IN
  /\ c.start = Nil <=> c.tail = Nil
  /\ c.tail # Nil => c.tail \in Blocks /\ o[c.tail] = c.start

\* A cache is of one metadata.  While the generation of its key is current, no
\* TID of a node it takes for live has been freed.
Kept(n) == /\ Holds(n)
           /\ Dead(n) => pc[Vacuum] = "reap" /\ vac.changed /\ Tid(n) \in vac.dead
LiveOk(c) ==
  /\ c.live = <<c.live[1]>> /\ c.live[1] \subseteq 0..(c.count - 1)
  /\ \A n \in 0..(c.count - 1) : ~Dead(n) => n \in c.live[1]
  /\ c.key[1].gen = graph.gen => \A n \in c.live[1] : Kept(n)
DeltaOk(o, h, c) ==
  /\ c.live # <<>> /\ c.delta = <<c.delta[1]>>
  /\ c.delta[1] \subseteq {p \in Of(o, h.meta.deltaStart) : Rec(p).node \in c.live[1]}
  /\ \A p \in h.recs : Rec(p).node \in c.live[1] => p \in c.delta[1]
CacheOk(o, H, c) ==
  \/ c = NoCache
  \/ /\ c = [key |-> <<c.key[1]>>, base |-> c.base, count |-> c.count,
             live |-> c.live, delta |-> c.delta]
     /\ c.key[1].deltaGen \in 0..meta.deltaGen /\ c.base = H[c.key[1].deltaGen].meta.base
     /\ c.key[1].gen \in Nat /\ c.key[1].gen <= graph.gen
     /\ c.count \in Nat /\ c.count <= Count /\ c.key[1].count = c.count
     /\ c.live # <<>> => LiveOk(c)
     /\ c.delta # <<>> => DeltaOk(o, H[c.key[1].deltaGen], c)

\* The query of backend b: its rows stay at their TIDs; the documents that are
\* due are found with the metadata it has read, and its cache has their nodes
SnapOk(b) ==
  \A y \in op[b].snap : /\ heap[y[1]].row = y[2] /\ heap[y[1]].state \in {"live", "dead"}
                        /\ pc[Vacuum] \in {"mark", "reap"} => y[1] \notin vac.dead
DueOk(H, b, g, K) ==
  \A y \in op[b].due :
    /\ y \in op[b].snap /\ HasTerm(rows[y[2]], op[b].term)
    /\ \E n \in K : NodeOf(n, y[1], y[2]) /\ Found(H, n, g)
ReadOk(H, b, K) ==
  LET m == op[b].meta IN
  m.deltaGen \in 0..meta.deltaGen /\ m = H[m.deltaGen].meta /\ DueOk(H, b, m.deltaGen, K)
OpenOk(H, b) ==
  LET c == cache[b] IN
  /\ c # NoCache /\ c.key[1].deltaGen = op[b].meta.deltaGen
  /\ ReadOk(H, b, 0..(c.count - 1))
  /\ \A y \in op[b].snap : c.live # <<>> =>
       \A n \in c.live[1] : Tid(n) = y[1] => Row(n) = y[2]
DoneOk(b) ==
  /\ op[b].due \subseteq Returned(b)
  /\ \A x \in Returned(b), y \in op[b].snap : x[1] = y[1] => x[2] = y[2]
  /\ \A r \in op[b].ret : r.times = 1
QueryOk(H, b) ==
  pc[b] \in QueryPcs =>
    /\ SnapOk(b) /\ (pc[b] # "done" => op[b].ret = {})
    /\ pc[b] = "readMeta" => DueOk(H, b, meta.deltaGen, Nodes)
    /\ pc[b] = "open" => ReadOk(H, b, Nodes)
    /\ pc[b] \in {"liveness", "score"} => OpenOk(H, b)
    /\ pc[b] = "score" => cache[b].live # <<>>
    /\ pc[b] = "done" => DoneOk(b)

Shape(o, H) ==
  /\ Pages(o) /\ Docs /\ History(o, H) /\ HeapOk(H) /\ VacOk(o)
  /\ \A b \in Backends : /\ InsertOk(o, b) /\ CursorOk(o, b)
                         /\ CacheOk(o, H, cache[b]) /\ QueryOk(H, b)
Inv == Typed /\ Turns /\ \E o, H : Shape(o, H)

-----------------------------------------------------------------------------
(* Constants, and the chains of delta pages                                *)

LEMMA Basics ==
  /\ NBuilt \in Nat /\ MaxRows \in Nat /\ Nil = 0 /\ DeltaCap \in Nat /\ DeltaCap # 0
  /\ MaxNew \in Nat /\ NodeIds = 0..(MaxRows - 1) /\ Vacuum \notin Backends
  /\ MaxRows = NBuilt + MaxNew
<1>1. BuiltTids \in Seq(Tids) BY ConstantsAssumption
<1>2. NBuilt \in Nat BY <1>1 DEF NBuilt
<1> QED BY <1>2, ConstantsAssumption DEF MaxRows, Nil, NodeIds

\* From any of its pages on, a chain leads to its last page; from its first
\* page it leads to all of them
LEMMA ChainOfOwner ==
  ASSUME dpage \in Seq(PageType), NEW o, Pages(o), NEW x \in Blocks
  PROVE  /\ Chain(x) \in Seq(Blocks) /\ Len(Chain(x)) # 0
         /\ LastPage(x) \in Blocks /\ dpage[LastPage(x)].next = Nil /\ o[LastPage(x)] = o[x]
         /\ \A b \in ToSet(Chain(x)) : b \in Blocks /\ o[b] = o[x]
         /\ o[x] = x => \A b \in Blocks : o[b] = x => b \in ToSet(Chain(x))
<1> DEFINE N == Len(dpage)
<1>0. N \in Nat /\ Nil = 0 /\ Blocks = 1..N BY DEF Nil, Blocks
<1>1. \A b \in Blocks : Linked(o, b) BY DEF Pages
<1>2. \A b \in Blocks : dpage[b].next # Nil => dpage[b].next \in Blocks BY <1>1 DEF Linked
<1> DEFINE More(c) == IF c = <<>> \/ dpage[c[Len(c)]].next = Nil THEN c
                      ELSE Append(c, dpage[c[Len(c)]].next)
           G(H) == [n \in 0..Len(dpage) |-> IF n = 0 THEN IF x = Nil THEN <<>> ELSE <<x>>
                                            ELSE More(H[n - 1])]
<1>3. ASSUME NEW c \in Seq(Blocks), c # <<>> PROVE Len(c) \in 1..Len(c) /\ c[Len(c)] \in Blocks
  <2>1. Len(c) \in Nat /\ Len(c) # 0 BY <1>3
  <2> QED BY <2>1
<1>4. \A c \in Seq(Blocks) : More(c) \in Seq(Blocks) BY <1>2, <1>3
<1>5. x # Nil /\ <<x>> \in Seq(Blocks) BY <1>0
<1> HIDE DEF N
<1>6. \E H : H = G(H)
  <2> DEFINE F == [i \in 1..N |-> [c \in Seq(Blocks) |-> More(c)]]
  <2>2. F \in Steps(N, Seq(Blocks)) BY <1>4 DEF Steps
  <2> HIDE DEF F
  <2>3. PICK g : Iterates(g, N, Seq(Blocks), <<x>>, F) BY <1>0, <1>5, <2>2, Iteration
  <2>4. g \in [0..N -> Seq(Blocks)] /\ g[0] = <<x>> /\ \A i \in 1..N : g[i] = F[i][g[i - 1]]
    BY <2>3 DEF Iterates
  <2>5. ASSUME NEW i \in 1..N PROVE g[i] = More(g[i - 1])
    <3>1. i - 1 \in 0..N /\ g[i - 1] \in Seq(Blocks) BY <1>0, <2>4
    <3> QED BY <2>4, <3>1 DEF F
  <2>6. \A i \in 0..N : i = 0 \/ i \in 1..N OBVIOUS
  <2> HIDE DEF More
  <2>7. g = G(g) BY <1>5, <2>4, <2>5, <2>6 DEF N
  <2> QED BY <2>7
<1>7. PICK H : H = G(H) /\ Chain(x) = H[Len(dpage)]
  <2> HIDE <1>0, <1>1, <1>2, <1>3, <1>4, <1>5
  <2> QED BY <1>6, Zenon DEF Chain
<1> HIDE DEF More
<1>8. /\ H[0] = <<x>> /\ Chain(x) = H[N]
      /\ \A i \in 0..(N - 1) : H[i + 1] = More(H[i])
  <2>1. 0 \in 0..N BY <1>0
  <2>2. \A i \in 0..(N - 1) : i + 1 \in 0..N /\ i + 1 # 0 /\ (i + 1) - 1 = i BY <1>0
  <2> QED BY <1>5, <1>7, <2>1, <2>2 DEF N
<1> HIDE DEF G
<1> DEFINE Mine(c) == \A k \in 1..Len(c) : o[c[k]] = o[x]
           All(c) == \A b \in Blocks : o[b] = o[x] /\ x <= b /\ b <= c[Len(c)] => \E k \in 1..Len(c) : c[k] = b
           T == {i \in 0..N : /\ H[i] \in Seq(Blocks) /\ H[i] # <<>>
                              /\ Mine(H[i]) /\ All(H[i])
                              /\ dpage[H[i][Len(H[i])]].next # Nil => i + 1 <= H[i][Len(H[i])]}
<1>9. 0 \in T
  <2>1. Len(<<x>>) = 1 /\ <<x>>[1] = x /\ <<x>> # <<>> /\ 0 \in 0..N BY <1>0
  <2>2. Mine(<<x>>) BY <2>1
  <2>3. All(<<x>>) BY <1>0, <2>1
  <2>4. 0 + 1 <= x BY <1>0
  <2> HIDE DEF Mine, All
  <2> QED BY <1>5, <1>8, <2>1, <2>2, <2>3, <2>4
<1>10. ASSUME NEW i \in 0..(N - 1), i \in T PROVE i + 1 \in T
  <2> DEFINE c == H[i]
             l == c[Len(c)]
             d == H[i + 1]
  <2>0. i + 1 \in 0..N /\ i \in Nat BY <1>0
  <2>1. c \in Seq(Blocks) /\ c # <<>> /\ Mine(c) /\ All(c) /\ (dpage[l].next # Nil => i + 1 <= l) BY <1>10
  <2>2. l \in Blocks /\ Len(c) \in Nat /\ Len(c) \in 1..Len(c) BY <1>3, <2>1
  <2>3. d = More(c) BY <1>8
  <2>4. CASE dpage[l].next = Nil
    <3>1. d = c BY <2>3, <2>4 DEF More
    <3> HIDE DEF Mine, All, c
    <3> QED BY <2>0, <2>1, <2>4, <3>1 DEF c
  <2>5. CASE dpage[l].next # Nil
    <3> DEFINE nx == dpage[l].next
    <3>1. d = Append(c, nx) BY <2>1, <2>3, <2>5 DEF More
    <3>2. nx \in Blocks /\ l < nx /\ o[nx] = o[l]
          /\ \A b \in Blocks : l < b /\ b < nx => o[b] # o[l]
      BY <1>1, <2>2, <2>5 DEF Linked
    <3>3. o[l] = o[x] BY <2>1, <2>2
    <3> HIDE DEF c, l, nx
    <3>4. /\ d \in Seq(Blocks) /\ Len(d) = Len(c) + 1 /\ d[Len(d)] = nx /\ d # <<>>
          /\ \A k \in 1..Len(c) : d[k] = c[k]
      BY <2>1, <2>2, <3>1, <3>2
    <3> HIDE DEF d
    <3>5. Mine(d)
      <4> SUFFICES ASSUME NEW k \in 1..Len(d) PROVE o[d[k]] = o[x] OBVIOUS
      <4>1. k \in 1..Len(c) \/ k = Len(d) BY <2>2, <3>4
      <4> QED BY <2>1, <3>2, <3>3, <3>4, <4>1
    <3>6. All(d)
      <4> SUFFICES ASSUME NEW b \in Blocks, o[b] = o[x], x <= b, b <= nx PROVE \E k \in 1..Len(d) : d[k] = b
        BY <3>4
      <4>1. CASE b <= l
        <5>1. PICK k \in 1..Len(c) : c[k] = b BY <2>1, <4>1 DEF l
        <5>2. k \in 1..Len(d) BY <2>2, <3>4
        <5> QED BY <3>4, <5>1, <5>2
      <4>2. CASE ~(b <= l)
        <5>1. b = nx BY <1>0, <2>2, <3>2, <3>3, <4>2
        <5>2. Len(d) \in 1..Len(d) BY <2>2, <3>4
        <5> QED BY <3>4, <5>1, <5>2
      <4> QED BY <4>1, <4>2
    <3>7. i + 1 + 1 <= nx BY <1>0, <2>0, <2>1, <2>2, <2>5, <3>2
    <3> HIDE DEF Mine, All
    <3> QED BY <2>0, <3>4, <3>5, <3>6, <3>7 DEF d
  <2> QED BY <2>4, <2>5
<1> HIDE DEF T
<1>11. 0..N \subseteq T BY ONLY <1>0, <1>9, <1>10, UpTo
<1>12. N \in T BY <1>0, <1>11
<1> DEFINE C == Chain(x)
           L == C[Len(C)]
<1>13. /\ C \in Seq(Blocks) /\ C # <<>> /\ Mine(C) /\ All(C)
       /\ dpage[L].next # Nil => N + 1 <= L
  BY <1>8, <1>12 DEF T
<1>14. L \in Blocks /\ Len(C) \in 1..Len(C) /\ Len(C) # 0 BY <1>3, <1>13
<1>15. dpage[L].next = Nil BY <1>0, <1>13, <1>14
<1>16. LastPage(x) = L BY <1>13 DEF LastPage
<1>17. DOMAIN C = 1..Len(C) BY <1>13
<1>18. o[L] = o[x] BY <1>13, <1>14
<1>19. \A b \in ToSet(C) : b \in Blocks /\ o[b] = o[x] BY <1>13, <1>17 DEF ToSet
<1>20. ASSUME o[x] = x, NEW b \in Blocks, o[b] = x PROVE b \in ToSet(C)
  <2>1. o[b] \in 1..b /\ (L < b => o[b] # o[L]) BY <1>1, <1>14, <1>15 DEF Linked
  <2>2. x <= b /\ b <= L BY <1>0, <1>14, <1>18, <1>20, <2>1
  <2> QED BY <1>13, <1>17, <1>20, <2>2 DEF ToSet
<1> HIDE DEF C
<1> QED BY <1>13, <1>14, <1>15, <1>16, <1>18, <1>19, <1>20 DEF C

LEMMA ChainOfNil ==
  ASSUME dpage \in Seq(PageType) PROVE Chain(Nil) = <<>>
<1> DEFINE N == Len(dpage)
           More(c) == IF c = <<>> \/ dpage[c[Len(c)]].next = Nil THEN c
                      ELSE Append(c, dpage[c[Len(c)]].next)
           G(H) == [n \in 0..Len(dpage) |-> IF n = 0 THEN IF Nil = Nil THEN <<>> ELSE <<Nil>>
                                            ELSE More(H[n - 1])]
<1>0. N \in Nat OBVIOUS
<1>1. More(<<>>) = <<>> OBVIOUS
<1>2. \E H : H = G(H)
  <2> DEFINE g == [n \in 0..Len(dpage) |-> <<>>]
  <2>1. \A n \in 0..Len(dpage) : n # 0 => n - 1 \in 0..Len(dpage) OBVIOUS
  <2>2. g = G(g)
    <3> HIDE DEF More
    <3> QED BY <1>1, <2>1
  <2> QED BY <2>2
<1>3. PICK H : H = G(H) /\ Chain(Nil) = H[Len(dpage)]
  <2> HIDE <1>0, <1>1
  <2> QED BY <1>2, Zenon DEF Chain
<1> DEFINE T == {i \in 0..N : H[i] = <<>>}
<1>4. 0 \in T BY <1>3
<1>5. ASSUME NEW i \in 0..(N - 1), i \in T PROVE i + 1 \in T
  <2>1. i + 1 \in 0..N /\ i + 1 # 0 /\ (i + 1) - 1 = i BY <1>0
  <2>2. H[i + 1] = More(H[i])
    <3> HIDE DEF More, T
    <3> QED BY <1>3, <2>1
  <2> QED BY <1>1, <1>5, <2>1, <2>2
<1> HIDE DEF T, G, N
<1>6. 0..N \subseteq T BY ONLY <1>0, <1>4, <1>5, UpTo
<1>7. N \in T BY <1>0, <1>6
<1> QED BY <1>3, <1>7 DEF T, N

LEMMA RecordsOf ==
  ASSUME dpage \in Seq(PageType), NEW o, Pages(o), NEW s \in Nat,
         s # Nil => s \in Blocks /\ o[s] = s
  PROVE  RecordsAt(s) = Of(o, s)
<1>1. \A b \in Blocks : b \in Nat /\ o[b] \in Blocks /\ Len(dpage[b].tup) \in Nat /\ o[b] # Nil
  BY DEF Pages, Blocks, Nil, PageType
<1>2. CASE s = Nil
  <2>1. RecordsAt(s) = {} BY <1>2, ChainOfNil DEF RecordsAt, ToSet
  <2>2. Of(o, s) = {} BY <1>1, <1>2 DEF Of, Spots
  <2> QED BY <2>1, <2>2
<1>3. CASE s # Nil
  <2>1. \A b : b \in ToSet(Chain(s)) <=> b \in Blocks /\ o[b] = s BY <1>3, ChainOfOwner
  <2>2. ASSUME NEW p \in RecordsAt(s) PROVE p \in Of(o, s)
    <3>1. PICK b \in ToSet(Chain(s)) : p \in {<<b, i>> : i \in 1..Len(dpage[b].tup)}
      BY DEF RecordsAt
    <3>2. PICK i \in 1..Len(dpage[b].tup) : p = <<b, i>> BY <3>1
    <3>3. b \in Blocks /\ o[b] = s /\ b \in Nat /\ i \in Nat BY <1>1, <2>1, <3>1
    <3> QED BY <3>2, <3>3 DEF Of, Spots
  <2>3. ASSUME NEW p \in Of(o, s) PROVE p \in RecordsAt(s)
    <3>1. /\ p = <<p[1], p[2]>> /\ p[1] \in Blocks /\ p[2] \in 1..Len(dpage[p[1]].tup) /\ o[p[1]] = s
      BY DEF Of, Spots
    <3>2. p[1] \in ToSet(Chain(s)) BY <2>1, <3>1
    <3>3. p \in {<<p[1], i>> : i \in 1..Len(dpage[p[1]].tup)} BY <3>1
    <3> QED BY <3>2, <3>3 DEF RecordsAt
  <2> QED BY <2>2, <2>3
<1> QED BY <1>2, <1>3

\* AppendAt puts the tuple at a new place q, on a page of the chain it is given
\* a page of, or of a new chain
Put(o, u, q, tup) ==
  /\ dpage' \in Seq(PageType) /\ Pages(u)' /\ Blocks \subseteq Blocks'
  /\ \A b \in Blocks : u[b] = o[b]
  /\ q \notin Spots /\ Spots' = Spots \cup {q}
  /\ \A p \in Spots : Rec(p)' = Rec(p)
  /\ Rec(q)' = tup /\ q[1] \in Blocks'
\* The two changes of a sequence of pages
LongerPage(D, l, tup) == [D EXCEPT ![l].tup = Append(@, tup)]
LEMMA AddTuple ==
  ASSUME NEW D \in Seq(PageType), NEW l \in 1..Len(D), NEW tup \in RecType, NEW E,
         E = LongerPage(D, l, tup)
  PROVE  /\ E \in Seq(PageType) /\ Len(E) = Len(D)
         /\ \A b \in 1..Len(D) : b # l => E[b] = D[b]
         /\ E[l].next = D[l].next /\ E[l].tup = Append(D[l].tup, tup)
<1> DEFINE pg == [D[l] EXCEPT !.tup = Append(D[l].tup, tup)]
<1>1. D[l] \in PageType BY ElementOfSeq
<1>2. D[l].tup \in Seq(RecType) BY <1>1 DEF PageType
<1>3. Append(D[l].tup, tup) \in Seq(RecType) BY <1>2
<1>4. pg \in PageType /\ pg.next = D[l].next /\ pg.tup = Append(D[l].tup, tup) BY <1>1, <1>3 DEF PageType
<1>5. E = [D EXCEPT ![l] = pg] BY DEF LongerPage
<1> HIDE DEF pg
<1>6. /\ [D EXCEPT ![l] = pg] \in Seq(PageType) /\ Len([D EXCEPT ![l] = pg]) = Len(D)
      /\ \A j \in 1..Len(D) : [D EXCEPT ![l] = pg][j] = IF j = l THEN pg ELSE D[j]
  BY <1>4, ExceptSeq
<1> QED BY <1>4, <1>5, <1>6
MorePages(D, l, tup) ==
  Append(IF l = Nil THEN D ELSE [D EXCEPT ![l].next = Len(D) + 1], [next |-> Nil, tup |-> <<tup>>])
Extended(D, l, tup, E) ==
  /\ E \in Seq(PageType) /\ Len(E) = Len(D) + 1
  /\ E[Len(D) + 1].next = Nil /\ E[Len(D) + 1].tup = <<tup>>
  /\ \A b \in 1..Len(D) : E[b].tup = D[b].tup
  /\ \A b \in 1..Len(D) : E[b].next = IF b = l THEN Len(D) + 1 ELSE D[b].next
LEMMA AddPage ==
  ASSUME NEW D \in Seq(PageType), NEW l, l # Nil => l \in 1..Len(D), NEW tup \in RecType, NEW E,
         E = MorePages(D, l, tup)
  PROVE  Extended(D, l, tup, E)
<1> DEFINE n == Len(D) + 1
           pg == [D[l] EXCEPT !.next = n]
           new == [next |-> Nil, tup |-> <<tup>>]
           F == IF l = Nil THEN D ELSE [D EXCEPT ![l].next = n]
<1>0. n \in Nat /\ Nil = 0 /\ Len(D) \in Nat BY DEF Nil
<1>1. new \in PageType /\ new.next = Nil /\ new.tup = <<tup>> BY <1>0 DEF PageType
<1>2. /\ F \in Seq(PageType) /\ Len(F) = Len(D)
      /\ \A b \in 1..Len(D) : F[b].tup = D[b].tup
      /\ \A b \in 1..Len(D) : F[b].next = IF b = l THEN n ELSE D[b].next
  <2>1. CASE l = Nil BY <1>0, <2>1
  <2>2. CASE l # Nil
    <3>1. D[l] \in PageType BY <2>2, ElementOfSeq
    <3>2. pg \in PageType /\ pg.next = n /\ pg.tup = D[l].tup BY <1>0, <3>1 DEF PageType
    <3>3. F = [D EXCEPT ![l] = pg] BY <2>2
    <3>4. l \in 1..Len(D) BY <2>2
    <3> HIDE DEF pg
    <3>5. /\ [D EXCEPT ![l] = pg] \in Seq(PageType) /\ Len([D EXCEPT ![l] = pg]) = Len(D)
          /\ \A j \in 1..Len(D) : [D EXCEPT ![l] = pg][j] = IF j = l THEN pg ELSE D[j]
      BY <3>2, <3>4, ExceptSeq
    <3> HIDE DEF F, n
    <3> QED BY <3>2, <3>3, <3>4, <3>5
  <2> QED BY <2>1, <2>2
<1> HIDE DEF F, new
<1>3. /\ Append(F, new) \in Seq(PageType) /\ Len(Append(F, new)) = Len(F) + 1
      /\ \A i \in 1..Len(F) : Append(F, new)[i] = F[i]
      /\ Append(F, new)[Len(F) + 1] = new
  BY <1>1, <1>2, AppendProperties
<1>4. E = Append(F, new)
  BY DEF F, new, MorePages
<1> HIDE DEF n
<1> QED BY <1>1, <1>2, <1>3, <1>4 DEF n, Extended

LEMMA PutOnPage ==
  ASSUME dpage \in Seq(PageType), NEW o, Pages(o), NEW l \in Blocks, NEW tup \in RecType,
         Len(dpage[l].tup) < DeltaCap,
         dpage' \in Seq(PageType), Len(dpage') = Len(dpage),
         \A b \in 1..Len(dpage) : b # l => dpage'[b] = dpage[b],
         dpage'[l].next = dpage[l].next, dpage'[l].tup = Append(dpage[l].tup, tup)
  PROVE  \E q : q[1] = l /\ Put(o, o, q, tup)
<1> DEFINE N == Len(dpage)
<1>t. PICK t : t = dpage[l].tup OBVIOUS
<1>q. PICK q : q = <<l, Len(t) + 1>> OBVIOUS
<1>0. N \in Nat /\ Nil = 0 /\ Blocks = 1..N BY DEF Nil, Blocks
<1>1. t \in Seq(RecType) /\ Len(t) \in Nat /\ dpage[l] \in PageType
  <2>1. dpage[l] \in PageType BY ONLY dpage \in Seq(PageType), l \in Blocks, <1>0, ElementOfSeq
  <2>2. dpage[l].tup \in Seq(RecType) BY ONLY <2>1 DEF PageType
  <2> QED BY ONLY <1>t, <2>1, <2>2
<1>2. Append(t, tup) \in Seq(RecType) /\ Len(Append(t, tup)) = Len(t) + 1
      /\ Append(t, tup)[Len(t) + 1] = tup /\ \A i \in 1..Len(t) : Append(t, tup)[i] = t[i]
  BY <1>1
<1>3. \A b \in Blocks : dpage[b] \in PageType BY <1>0
<1>4. /\ dpage' \in Seq(PageType) /\ Len(dpage') = N
      /\ \A b \in Blocks : b # l => dpage'[b] = dpage[b]
      /\ dpage'[l].next = dpage[l].next /\ dpage'[l].tup = Append(t, tup)
  <2>1. dpage' \in Seq(PageType) /\ Len(dpage') = N BY <1>0
  <2>2. \A b \in Blocks : b # l => dpage'[b] = dpage[b] BY <1>0
  <2>3. dpage'[l].next = dpage[l].next /\ dpage'[l].tup = Append(t, tup) BY <1>0, <1>t
  <2> QED BY ONLY <2>1, <2>2, <2>3
<1>5. Blocks' = Blocks BY <1>0, <1>4 DEF Blocks
<1>6. Pages(o)'
  <2>1. \A b \in Blocks : dpage'[b].next = dpage[b].next BY <1>4
  <2>2. \A b \in Blocks : Linked(o, b)' BY <1>5, <2>1 DEF Pages, Linked
  <2>3. ASSUME NEW b \in Blocks PROVE Len(dpage'[b].tup) \in 1..DeltaCap
    <3>1. Len(dpage[b].tup) \in 1..DeltaCap BY DEF Pages
    <3>2. CASE b = l
      <4>1. Len(t) < DeltaCap /\ DeltaCap \in Nat BY <1>t, Basics
      <4>2. Len(dpage'[b].tup) = Len(t) + 1 BY <1>2, <1>4, <3>2
      <4> QED BY ONLY <1>1, <4>1, <4>2
    <3>3. CASE b # l BY <1>4, <3>1, <3>3
    <3> QED BY <3>2, <3>3
  <2> QED BY <1>5, <2>2, <2>3 DEF Pages
<1>7. q \in Nat \X Nat /\ q[1] = l /\ q[2] = Len(t) + 1 BY <1>0, <1>1, <1>q
<1>8. q \notin Spots BY <1>1, <1>7, <1>t DEF Spots
<1>9. Spots' = Spots \cup {q}
  <2>1. ASSUME NEW p \in Nat \X Nat PROVE p \in Spots' <=> p \in Spots \/ p = q
    <3>1. p = <<p[1], p[2]>> /\ p[1] \in Nat /\ p[2] \in Nat OBVIOUS
    <3>2. CASE p[1] = l
      <4>1. p \in Spots' <=> p[2] \in 1..(Len(t) + 1) BY <1>2, <1>4, <1>5, <3>2 DEF Spots
      <4>2. p \in Spots <=> p[2] \in 1..Len(t) BY <3>2, <1>t DEF Spots
      <4>3. p = q <=> p[2] = Len(t) + 1 BY <3>1, <3>2, <1>q
      <4> QED BY <1>1, <3>1, <4>1, <4>2, <4>3
    <3>3. CASE p[1] # l BY <1>4, <1>5, <1>7, <3>3 DEF Spots
    <3> QED BY <3>2, <3>3
  <2>2. Spots \subseteq Nat \X Nat /\ Spots' \subseteq Nat \X Nat BY DEF Spots
  <2> QED BY <1>7, <2>1, <2>2
<1>10. \A p \in Spots : Rec(p)' = Rec(p)
  <2> TAKE p \in Spots
  <2>1. p[1] \in Blocks /\ p[2] \in 1..Len(dpage[p[1]].tup) BY DEF Spots
  <2>2. CASE p[1] = l BY <1>2, <1>4, <2>1, <2>2, <1>t DEF Rec
  <2>3. CASE p[1] # l BY <1>4, <2>1, <2>3 DEF Rec
  <2> QED BY <2>2, <2>3
<1>11. Rec(q)' = tup BY <1>2, <1>4, <1>7 DEF Rec
<1> QED BY <1>4, <1>5, <1>6, <1>7, <1>8, <1>9, <1>10, <1>11 DEF Put

\* A page more, of owner r; l is the page before it if there is one
OwnerAfter(o, l, r) == \/ l = Nil /\ r = Len(dpage) + 1
                       \/ l \in Blocks /\ dpage[l].next = Nil /\ r = o[l]
LEMMA PutOnNewPage ==
  ASSUME dpage \in Seq(PageType), NEW o, Pages(o), NEW tup \in RecType, NEW l, NEW r,
         Extended(dpage, l, tup, dpage'), OwnerAfter(o, l, r)
  PROVE  \E u, q : Put(o, u, q, tup) /\ q[1] = Len(dpage) + 1 /\ u[q[1]] = r
<1>N. PICK N : N = Len(dpage) OBVIOUS
<1>u. PICK u : u = [b \in 1..(N + 1) |-> IF b = N + 1 THEN r ELSE o[b]] OBVIOUS
<1>q. PICK q : q = <<N + 1, 1>> OBVIOUS
<1>0. N \in Nat /\ Nil = 0 /\ Blocks = 1..N BY <1>N DEF Nil, Blocks
<1>1. ASSUME NEW b \in Blocks PROVE Len(dpage[b].tup) \in Nat
  <2>1. dpage[b] \in PageType BY ONLY dpage \in Seq(PageType), b \in Blocks, <1>0, <1>N, ElementOfSeq
  <2>2. dpage[b].tup \in Seq(RecType) BY ONLY <2>1 DEF PageType
  <2> QED BY ONLY <2>2
<1>2. \A b \in Blocks : dpage'[b].tup = dpage[b].tup BY <1>0, <1>N DEF Extended
<1>3. Len(<<tup>>) = 1 /\ <<tup>>[1] = tup OBVIOUS
<1>4. \A b \in Blocks : dpage'[b].next = IF b = l THEN N + 1 ELSE dpage[b].next BY <1>0, <1>N DEF Extended
<1>5. /\ Len(dpage') = N + 1 /\ dpage'[N + 1].next = Nil /\ dpage'[N + 1].tup = <<tup>>
      /\ dpage' \in Seq(PageType)
  BY <1>N DEF Extended
<1>6. Blocks' = 1..(N + 1) /\ N + 1 \notin Blocks /\ N + 1 \in Blocks' /\ Blocks \subseteq Blocks'
      /\ \A b \in Blocks' : b = N + 1 \/ b \in Blocks
  BY <1>0, <1>5 DEF Blocks
<1>7. u \in [Blocks' -> Blocks'] /\ u[N + 1] = r /\ \A b \in Blocks : u[b] = o[b]
  <2>1. o \in [Blocks -> Blocks] BY DEF Pages
  <2>2. r \in Blocks'
    <3>1. CASE l = Nil /\ r = N + 1 BY <1>6, <3>1
    <3>2. CASE l \in Blocks /\ r = o[l] BY <1>6, <2>1, <3>2
    <3> QED BY <1>0, <1>N, <3>1, <3>2 DEF OwnerAfter
  <2>3. \A b \in 1..(N + 1) : b # N + 1 => o[b] \in Blocks' BY <1>6, <2>1
  <2> QED BY <1>0, <1>6, <1>u, <2>2, <2>3
<1>8. \A b \in Blocks : Linked(o, b) /\ Len(dpage[b].tup) \in 1..DeltaCap BY DEF Pages
<1>9. \A b \in Blocks : b < N + 1 /\ b \in Nat BY <1>0
<1>10. (l = Nil /\ r = N + 1) \/ (l \in Blocks /\ dpage[l].next = Nil /\ r = o[l]) BY <1>N DEF OwnerAfter
<1>11. Linked(u, N + 1)'
  <2>1. \A c \in Blocks' : ~(N + 1 < c) BY <1>0, <1>6
  <2>2. CASE r = N + 1
    <3> QED BY <1>0, <1>3, <1>5, <1>6, <1>7, <2>1, <2>2 DEF Linked
  <2>3. CASE l \in Blocks /\ r = o[l]
    <3>1. o[l] \in 1..l /\ o[o[l]] = o[l] /\ o[l] \in Blocks BY <1>0, <1>8, <2>3 DEF Linked
    <3>2. r \in 1..(N + 1) /\ u[r] = r BY <1>0, <1>7, <2>3, <3>1
    <3> QED BY <1>3, <1>5, <1>7, <2>1, <3>2 DEF Linked
  <2> QED BY <1>10, <2>2, <2>3
<1>12. ASSUME NEW b \in Blocks PROVE Linked(u, b)'
  <2>1. Linked(o, b) BY <1>8
  <2>2. u[b] = o[b] /\ o[b] \in Blocks /\ u[o[b]] = o[o[b]] BY <1>7 DEF Pages
  <2>3. u[b] \in 1..b /\ u[u[b]] = u[b] BY <2>1, <2>2 DEF Linked
  <2>4. CASE b = l
    <3>1. dpage'[b].next = N + 1 /\ dpage[b].next = Nil /\ r = o[b] BY <1>0, <1>4, <1>5, <1>6, <1>10, <2>4
    <3>2. \A c \in Blocks' : b < c /\ c < N + 1 => u[c] # u[b] BY <1>6, <1>7, <2>1, <3>1 DEF Linked
    <3> QED BY <1>0, <1>6, <1>7, <1>9, <2>2, <2>3, <3>1, <3>2 DEF Linked
  <2>5. CASE b # l
    <3>1. dpage'[b].next = dpage[b].next BY <1>4, <2>5
    <3>2. CASE dpage[b].next = Nil
      <4>1. r # o[b]
        <5>1. CASE r = N + 1 BY <1>6, <2>2, <5>1
        <5>2. CASE l \in Blocks /\ dpage[l].next = Nil /\ r = o[l]
          <6>1. Linked(o, l) BY <1>8, <5>2
          <6>2. (b < l => o[l] # o[b]) /\ (l < b => o[b] # o[l]) BY <2>1, <3>2, <5>2, <6>1 DEF Linked
          <6> QED BY <1>9, <2>5, <5>2, <6>2
        <5> QED BY <1>10, <5>1, <5>2
      <4>2. \A c \in Blocks' : b < c => u[c] # u[b] BY <1>6, <1>7, <2>1, <2>2, <3>2, <4>1 DEF Linked
      <4> QED BY <2>3, <3>1, <3>2, <4>2 DEF Linked
    <3>3. CASE dpage[b].next # Nil
      <4> DEFINE x == dpage[b].next
      <4>1. /\ x \in Blocks /\ b < x /\ o[x] = o[b]
            /\ \A c \in Blocks : b < c /\ c < x => o[c] # o[b]
        BY <2>1, <3>3 DEF Linked
      <4> HIDE DEF x
      <4>2. \A c \in Blocks' : b < c /\ c < x => c \in Blocks BY <1>6, <1>9, <4>1
      <4>3. \A c \in Blocks' : b < c /\ c < x => u[c] # u[b] BY <1>7, <4>1, <4>2
      <4>4. dpage'[b].next = x BY <3>1 DEF x
      <4>5. x # Nil /\ x \in Blocks' /\ u[x] = u[b] BY <1>0, <1>6, <1>7, <4>1
      <4> QED BY <2>3, <4>1, <4>3, <4>4, <4>5 DEF Linked
    <3> QED BY <3>2, <3>3
  <2> QED BY <2>4, <2>5
<1>13. Pages(u)'
  <2>1. ASSUME NEW b \in Blocks' PROVE Linked(u, b)' /\ Len(dpage'[b].tup) \in 1..DeltaCap
    <3>1. CASE b = N + 1
      <4>1. Linked(u, b)' BY <1>11, <3>1
      <4>2. Len(dpage'[b].tup) = 1 BY <1>3, <1>5, <3>1
      <4> QED BY <4>1, <4>2, Basics
    <3>2. CASE b \in Blocks BY <1>2, <1>8, <1>12, <3>2
    <3> QED BY <1>6, <3>1, <3>2
  <2> QED BY <1>7, <2>1 DEF Pages
<1>14. q \in Nat \X Nat /\ q[1] = N + 1 /\ q[2] = 1 /\ q \notin Spots BY <1>0, <1>6, <1>q DEF Spots
<1>15. Spots' = Spots \cup {q}
  <2>1. ASSUME NEW p \in Nat \X Nat PROVE p \in Spots' <=> p \in Spots \/ p = q
    <3>1. p = <<p[1], p[2]>> /\ p[1] \in Nat /\ p[2] \in Nat OBVIOUS
    <3>2. CASE p[1] = N + 1
      <4>1. p \in Spots' <=> p[2] \in 1..1 BY <1>3, <1>5, <1>6, <3>2 DEF Spots
      <4>2. p \notin Spots BY <1>6, <3>2 DEF Spots
      <4>3. p = q <=> p[2] = 1 BY <3>1, <3>2, <1>q
      <4> QED BY <3>1, <4>1, <4>2, <4>3
    <3>3. CASE p[1] # N + 1 BY <1>2, <1>5, <1>6, <1>14, <3>3 DEF Spots
    <3> QED BY <3>2, <3>3
  <2>2. Spots \subseteq Nat \X Nat /\ Spots' \subseteq Nat \X Nat BY DEF Spots
  <2> QED BY <1>14, <2>1, <2>2
<1>16. \A p \in Spots : Rec(p)' = Rec(p) BY <1>2, <1>5 DEF Rec, Spots
<1>17. Rec(q)' = tup BY <1>3, <1>5, <1>14 DEF Rec
<1>18. Put(o, u, q, tup)
  BY <1>5, <1>6, <1>7, <1>13, <1>14, <1>15, <1>16, <1>17 DEF Put
<1> QED BY <1>7, <1>14, <1>18, <1>N

LEMMA PutRecord ==
  ASSUME dpage \in Seq(PageType), NEW o, Pages(o), NEW tup \in RecType, NEW from,
         from # Nil => from \in Blocks,
         dpage' = AppendAt(from, tup).pages
  PROVE  \E u, q : /\ Put(o, u, q, tup) /\ AppendAt(from, tup).blk = q[1]
                   /\ from # Nil => AppendAt(from, tup).start = from /\ u[q[1]] = o[from]
                   /\ from = Nil => /\ AppendAt(from, tup).start = q[1] /\ u[q[1]] = q[1]
                                    /\ q[1] \notin Blocks
<1> DEFINE a == AppendAt(from, tup)
           N == Len(dpage)
<1>0. N \in Nat /\ Nil = 0 /\ Blocks = 1..N /\ N + 1 \notin Blocks BY DEF Nil, Blocks
<1>a. dpage' = a.pages OBVIOUS
<1>1. CASE from = Nil
  <2>x. PICK l, r : l = Nil /\ r = N + 1 OBVIOUS
  <2>1. a.pages = Append(dpage, [next |-> Nil, tup |-> <<tup>>]) /\ a.start = N + 1 /\ a.blk = N + 1
    BY <1>1 DEF AppendAt
  <2> HIDE DEF a
  <2>2. dpage' = MorePages(dpage, l, tup) BY <1>a, <2>1, <2>x DEF MorePages
  <2>3. Extended(dpage, l, tup, dpage')
    BY ONLY dpage \in Seq(PageType), tup \in RecType, <2>2, <2>x, AddPage
  <2>y. OwnerAfter(o, l, r) BY <2>x DEF OwnerAfter
  <2>4. PICK u, q : Put(o, u, q, tup) /\ q[1] = Len(dpage) + 1 /\ u[q[1]] = r
    BY ONLY dpage \in Seq(PageType), tup \in RecType, Pages(o), <2>3, <2>y, PutOnNewPage
  <2> HIDE DEF N
  <2> QED BY <1>0, <1>1, <2>1, <2>4, <2>x DEF a, N
<1>2. CASE from # Nil
  <2>x. PICK l, r : l = LastPage(from) /\ r = o[l] OBVIOUS
  <2>1. l \in Blocks /\ dpage[l].next = Nil /\ o[l] = o[from] BY <1>2, <2>x, ChainOfOwner
  <2>2. CASE HasRoom(l)
    <3>1. a.pages = [dpage EXCEPT ![l].tup = Append(@, tup)] /\ a.start = from /\ a.blk = l
      BY <1>2, <2>2, <2>x DEF AppendAt
    <3> HIDE DEF a
    <3>2. l \in 1..Len(dpage) /\ Len(dpage[l].tup) < DeltaCap BY <1>0, <2>1, <2>2 DEF HasRoom
    <3>e. dpage' = LongerPage(dpage, l, tup) BY <1>a, <3>1 DEF LongerPage
    <3>3. /\ dpage' \in Seq(PageType) /\ Len(dpage') = Len(dpage)
          /\ \A b \in 1..Len(dpage) : b # l => dpage'[b] = dpage[b]
          /\ dpage'[l].next = dpage[l].next /\ dpage'[l].tup = Append(dpage[l].tup, tup)
      BY ONLY dpage \in Seq(PageType), tup \in RecType, <3>e, <3>2, AddTuple
    <3> HIDE <1>a, <3>e
    <3>4. PICK q : q[1] = l /\ Put(o, o, q, tup)
      BY ONLY dpage \in Seq(PageType), tup \in RecType, Pages(o), <2>1, <3>2, <3>3, PutOnPage
    <3> QED BY <1>2, <2>1, <3>1, <3>4 DEF a
  <2>3. CASE ~HasRoom(l)
    <3>1. /\ a.pages = Append([dpage EXCEPT ![l].next = N + 1], [next |-> Nil, tup |-> <<tup>>])
          /\ a.start = from /\ a.blk = N + 1
      BY <1>2, <2>3, <2>x DEF AppendAt
    <3> HIDE DEF a
    <3>2. dpage' = MorePages(dpage, l, tup) BY <1>0, <1>a, <2>1, <3>1 DEF MorePages
    <3>3. l \in 1..Len(dpage) BY <1>0, <2>1
    <3>4. Extended(dpage, l, tup, dpage')
      BY ONLY dpage \in Seq(PageType), tup \in RecType, <3>2, <3>3, AddPage
    <3> HIDE <1>a, <3>2
    <3>y. OwnerAfter(o, l, r) BY <2>1, <2>x DEF OwnerAfter
    <3>5. PICK u, q : Put(o, u, q, tup) /\ q[1] = Len(dpage) + 1 /\ u[q[1]] = r
      BY ONLY dpage \in Seq(PageType), tup \in RecType, Pages(o), <3>y, <3>4, PutOnNewPage
    <3> QED BY <1>2, <2>1, <2>x, <3>1, <3>5 DEF a
  <2> QED BY <2>2, <2>3
<1> QED BY <1>1, <1>2

-----------------------------------------------------------------------------
(* What steps keep: nodes, rows, postings, records and metadata stay       *)

Grow(o, H, u, J) ==
  /\ Nodes \subseteq Nodes' /\ Count <= Count'
  /\ \A n \in Nodes : Tid(n)' = Tid(n) /\ Row(n)' = Row(n) /\ (Dead(n) => Dead(n)')
  /\ Len(rows) <= Len(rows') /\ \A i \in 1..Len(rows) : rows'[i] = rows[i]
  /\ Len(base) <= Len(base') /\ \A k \in 1..Len(base) : base'[k] = base[k]
  /\ Blocks \subseteq Blocks' /\ \A b \in Blocks : u[b] = o[b]
  /\ Spots \subseteq Spots' /\ \A p \in Spots : Rec(p)' = Rec(p)
  /\ meta.deltaGen <= meta'.deltaGen /\ \A g \in 0..meta.deltaGen : J[g] = H[g]
  /\ graph.gen <= graph'.gen /\ graph'.gen \in Nat /\ Count' \in Nat /\ meta'.deltaGen \in Nat

LEMMA Numbers ==
  ASSUME Typed
  PROVE  /\ Count \in Nat /\ Len(rows) \in Nat /\ Len(base) \in Nat /\ Len(dpage) \in Nat
         /\ graph.gen \in Nat /\ meta.deltaGen \in Nat
         /\ graph.node \in Seq(NodeType)
         /\ \A n \in Nodes : Tid(n) \in Tids /\ Row(n) \in Nat /\ Dead(n) \in BOOLEAN
<1>1. graph.node \in Seq(NodeType) /\ graph.gen \in Nat BY DEF Typed
<1>2. Count \in Nat BY <1>1 DEF Count
<1>3. \A n \in Nodes : n + 1 \in 1..Count BY <1>2 DEF Nodes
<1>4. \A n \in Nodes : NodeState(n) \in NodeType BY <1>1, <1>3, ElementOfSeq DEF NodeState, Count
<1>5. \A n \in Nodes : Tid(n) \in Tids /\ Row(n) \in Nat /\ Dead(n) \in BOOLEAN
  BY <1>4 DEF NodeType, Tid, Row, Dead
<1>6. Len(rows) \in Nat /\ Len(base) \in Nat /\ Len(dpage) \in Nat BY DEF Typed
<1>7. meta.deltaGen \in Nat BY DEF Typed, MetaType
<1> QED BY <1>1, <1>2, <1>5, <1>6, <1>7

\* Steps that write no page of the index and add no row
FilesSame == UNCHANGED <<graph, base, dpage, meta, rows>>
LEMMA SameFiles ==
  ASSUME Typed, FilesSame, NEW o, NEW H, Pages(o), Docs, History(o, H)
  PROVE  Pages(o)' /\ Docs' /\ History(o, H)' /\ Grow(o, H, o, H)
<1>1. Nodes' = Nodes /\ Count' = Count /\ Blocks' = Blocks /\ Spots' = Spots
  BY DEF FilesSame, Nodes, Count, Blocks, Spots
<1>2. \A n : Tid(n)' = Tid(n) /\ Row(n)' = Row(n) /\ Dead(n)' = Dead(n) /\ TextOf(n)' = TextOf(n)
  BY DEF FilesSame, Tid, Row, Dead, NodeState, TextOf
<1>3. \A p : Rec(p)' = Rec(p) BY DEF FilesSame, Rec
<1>4. rows' = rows /\ base' = base /\ meta' = meta /\ graph' = graph /\ dpage' = dpage BY DEF FilesSame
<1>5. Pages(o)' BY DEF FilesSame, Pages, Linked, Blocks
<1>6. Docs'
  <2>1. \A p : RecOk(p)' <=> RecOk(p) BY <1>1, <1>2, <1>3 DEF RecOk
  <2>2. \A k \in 1..Len(base) : BaseOk(base[k])'
    <3>1. \A B : BaseOk(B) => \A n \in NodeIds :
            /\ B.len[n] # 0 => /\ n \in Nodes' /\ TextOf(n)' # NoText
                               /\ \A w \in Terms : B.post[w][n] = IF w \in TextOf(n)' THEN 1 ELSE 0
            /\ B.len[n] = 0 => \A w \in Terms : B.post[w][n] = 0
      BY <1>1, <1>2 DEF BaseOk
    <3> QED BY <1>4, <3>1 DEF BaseOk, Docs
  <2> QED BY <1>1, <1>2, <1>3, <1>4, <2>1, <2>2 DEF Docs
<1>7. History(o, H)'
  <2>1. \A s : Of(o, s)' = Of(o, s) BY <1>1 DEF Of
  <2>2. \A m : MetaOk(o, m)' <=> MetaOk(o, m) BY <1>1, <1>3, <1>4, <2>1 DEF MetaOk, Apart
  <2>3. ASSUME NEW g \in 0..meta.deltaGen PROVE MetaOk(o, H[g].meta)' BY <2>2 DEF History
  <2> HIDE DEF MetaOk, Of
  <2>4. /\ H = [g \in 0..meta.deltaGen |-> H[g]] /\ H[meta.deltaGen].meta = meta
        /\ \A g \in 0..meta.deltaGen : H[g].meta.deltaGen = g /\ H[g].recs \subseteq Of(o, H[g].meta.deltaStart)'
    BY <2>1 DEF History
  <2> QED BY <1>4, <2>3, <2>4, Zenon DEF History
<1>8. Grow(o, H, o, H)
  <2>1. /\ Count \in Nat /\ Len(rows) \in Nat /\ Len(base) \in Nat
        /\ graph.gen \in Nat /\ meta.deltaGen \in Nat BY Numbers
  <2> QED BY <1>1, <1>2, <1>3, <1>4, <2>1 DEF Grow
<1> QED BY <1>5, <1>6, <1>7, <1>8

LEMMA OfGrows ==
  ASSUME NEW o, NEW H, NEW u, NEW J, Grow(o, H, u, J), NEW s
  PROVE  Of(o, s) \subseteq Of(u, s)'
<1>1. ASSUME NEW p \in Of(o, s) PROVE p \in Of(u, s)'
  <2>1. p \in Spots /\ o[p[1]] = s /\ p[1] \in Blocks BY DEF Of, Spots
  <2>2. p \in Spots' /\ u[p[1]] = o[p[1]] BY <2>1 DEF Grow
  <2> QED BY <2>1, <2>2 DEF Of
<1> QED BY <1>1

LEMMA FoundGrows ==
  ASSUME NEW o, NEW H, NEW u, NEW J, Grow(o, H, u, J), History(o, H),
         NEW g \in 0..meta.deltaGen, NEW n, Found(H, n, g)
  PROVE  Found(J, n, g)'
<1>1. J[g] = H[g] /\ H[g].meta.base \in 1..Len(base) /\ H[g].recs \subseteq Of(o, H[g].meta.deltaStart)
  BY DEF Grow, History, MetaOk
<1>2. base'[H[g].meta.base] = base[H[g].meta.base] BY <1>1 DEF Grow
<1>3. \A p \in H[g].recs : Rec(p)' = Rec(p) BY <1>1 DEF Grow, Of
<1>4. CASE base[H[g].meta.base].len[n] # 0 BY <1>1, <1>2, <1>4 DEF Found
<1>5. CASE \E p \in H[g].recs : Rec(p).node = n BY <1>1, <1>3, <1>5 DEF Found
<1> QED BY <1>4, <1>5 DEF Found

\* A cache nobody touches stays right while no TID of its nodes is freed, or
\* once the generation is another one
LEMMA CacheGrows ==
  ASSUME Typed, NEW o, NEW H, NEW u, NEW J, Grow(o, H, u, J), History(o, H), NEW c, CacheOk(o, H, c),
         graph'.gen = graph.gen => \A n \in Nodes : Kept(n) => Kept(n)'
  PROVE  CacheOk(u, J, c)'
<1>1. CASE c = NoCache BY <1>1 DEF CacheOk
<1>2. CASE c # NoCache
  <2> DEFINE g == c.key[1].deltaGen
             L == c.live[1]
             S == {p \in Of(o, H[g].meta.deltaStart) : Rec(p).node \in L}
             T == {p \in Of(u, H[g].meta.deltaStart)' : Rec(p).node' \in L}
  <2>1. /\ c = [key |-> <<c.key[1]>>, base |-> c.base, count |-> c.count, live |-> c.live, delta |-> c.delta]
        /\ g \in 0..meta.deltaGen /\ c.base = H[g].meta.base
        /\ c.key[1].gen \in Nat /\ c.key[1].gen <= graph.gen
        /\ c.count \in Nat /\ c.count <= Count /\ c.key[1].count = c.count
        /\ c.live # <<>> => LiveOk(c)
        /\ c.delta # <<>> => DeltaOk(o, H[g], c)
    BY <1>2 DEF CacheOk
  <2>2. /\ Count \in Nat /\ graph.gen \in Nat /\ meta.deltaGen \in Nat BY Numbers
  <2>3. /\ Count <= Count' /\ meta.deltaGen <= meta'.deltaGen /\ graph.gen <= graph'.gen /\ J[g] = H[g]
        /\ \A n \in Nodes : Dead(n) => Dead(n)'
        /\ graph'.gen \in Nat /\ Count' \in Nat /\ meta'.deltaGen \in Nat
    BY <2>1 DEF Grow
  <2>4. c.count \in Nat /\ 0..(c.count - 1) \subseteq Nodes BY <2>1, <2>2 DEF Nodes
  <2>5. ASSUME c.live # <<>> PROVE LiveOk(c)'
    <3>1. /\ c.live = <<L>> /\ L \subseteq 0..(c.count - 1)
          /\ \A n \in 0..(c.count - 1) : ~Dead(n) => n \in L
          /\ c.key[1].gen = graph.gen => \A n \in L : Kept(n)
      BY <2>1, <2>5 DEF LiveOk
    <3>2. \A n \in 0..(c.count - 1) : ~Dead(n)' => n \in L BY <2>3, <2>4, <3>1
    <3>3. ASSUME c.key[1].gen = graph'.gen PROVE \A n \in L : Kept(n)'
      <4>1. graph'.gen = graph.gen
        <5> HIDE DEF g
        <5>1. graph'.gen \in Nat BY <2>1, <3>3
        <5> QED BY <2>1, <2>2, <2>3, <3>3, <5>1
      <4> QED BY <2>4, <3>1, <3>3, <4>1
    <3> QED BY <3>1, <3>2, <3>3 DEF LiveOk
  <2>6. ASSUME c.delta # <<>> PROVE DeltaOk(u, J[g], c)'
    <3>1. /\ c.live # <<>> /\ c.delta = <<c.delta[1]>>
          /\ c.delta[1] \subseteq S
          /\ \A p \in H[g].recs : Rec(p).node \in L => p \in c.delta[1]
      BY <2>1, <2>6 DEF DeltaOk
    <3>2. Of(o, H[g].meta.deltaStart) \subseteq Of(u, H[g].meta.deltaStart)' BY OfGrows
    <3>3. H[g].recs \subseteq Of(o, H[g].meta.deltaStart) BY <2>1 DEF History
    <3>4. \A p \in Of(o, H[g].meta.deltaStart) : Rec(p)' = Rec(p) BY DEF Grow, Of
    <3>5. c.delta[1] \subseteq T BY <3>1, <3>2, <3>4
    <3>6. \A p \in H[g].recs : Rec(p)'.node \in L => p \in c.delta[1] BY <3>1, <3>3, <3>4
    <3> QED BY <2>3, <3>1, <3>5, <3>6 DEF DeltaOk
  <2>7. g \in 0..meta'.deltaGen /\ c.base = J[g].meta.base /\ c.key[1].gen <= graph'.gen /\ c.count <= Count'
    <3> DEFINE k == c.key[1].gen
               n == c.count
    <3>1. k \in Nat /\ k <= graph.gen /\ n \in Nat /\ n <= Count /\ g \in 0..meta.deltaGen /\ c.base = H[g].meta.base
      BY <2>1
    <3> HIDE DEF k, n, g
    <3>x. k <= graph'.gen /\ n <= Count' /\ g \in 0..meta'.deltaGen BY <2>2, <2>3, <3>1
    <3> QED BY <2>3, <3>1, <3>x DEF k, n
  <2> HIDE DEF S, T, L, g
  <2> QED BY <2>1, <2>5, <2>6, <2>7 DEF CacheOk, g
<1> QED BY <1>1, <1>2

\* A query another process does not touch stays right while the nodes of its
\* rows are not marked and what is found now is found after
Stays(b) == \A y \in op[b].snap, n \in Nodes : NodeOf(n, y[1], y[2]) => ~Dead(n)'
FindsOn(H, J) ==
  \A n \in Nodes : ~Dead(n)' /\ TextOf(n) # {} /\ Found(H, n, meta.deltaGen) => Found(J, n, meta.deltaGen)'
LEMMA DueGrows ==
  ASSUME Typed, NEW o, NEW H, NEW u, NEW J, Grow(o, H, u, J), HeapOk(H), NEW b \in Backends,
         op'[b] = op[b], op[b] \in QueryOp, SnapOk(b), Stays(b), NEW g, NEW h, NEW K,
         DueOk(H, b, g, K), K \subseteq Nodes,
         \A n \in K : ~Dead(n)' /\ TextOf(n) # {} /\ Found(H, n, g) => Found(J, n, h)'
  PROVE  DueOk(J, b, h, K)'
<1> SUFFICES ASSUME NEW y \in op[b].due
             PROVE  /\ y \in op[b].snap /\ HasTerm(rows'[y[2]], op[b].term)
                    /\ \E n \in K : NodeOf(n, y[1], y[2])' /\ Found(J, n, h)'
  BY DEF DueOk
<1>1. y \in op[b].snap /\ HasTerm(rows[y[2]], op[b].term) BY DEF DueOk
<1>2. PICK n \in K : NodeOf(n, y[1], y[2]) /\ Found(H, n, g) BY DEF DueOk
<1>3. y \in Tids \X Nat BY <1>1 DEF QueryOp, Version
<1>4. heap[y[1]].row = y[2] /\ heap[y[1]].state \in {"live", "dead"} BY <1>1 DEF SnapOk
<1>5. y[2] \in 1..Len(rows) BY <1>3, <1>4, Numbers DEF HeapOk
<1>6. HasTerm(rows'[y[2]], op[b].term) BY <1>1, <1>5 DEF Grow
<1>7. n \in Nodes /\ ~Dead(n)' BY <1>1, <1>2 DEF Stays
<1>8. NodeOf(n, y[1], y[2])' BY <1>2, <1>7 DEF NodeOf, Grow
<1>9. TextOf(n) # {} BY <1>1, <1>2 DEF NodeOf, TextOf, HasTerm
<1> QED BY <1>1, <1>2, <1>6, <1>7, <1>8, <1>9

LEMMA QueryGrows ==
  ASSUME Typed, NEW o, NEW H, NEW u, NEW J, Grow(o, H, u, J), History(o, H), HeapOk(H), FindsOn(H, J),
         NEW b \in Backends, op'[b] = op[b], pc'[b] = pc[b], cache'[b] = cache[b],
         QueryOk(H, b), CacheOk(o, H, cache[b]),
         pc[b] \in QueryPcs => SnapOk(b)' /\ Stays(b)
  PROVE  QueryOk(J, b)'
<1> SUFFICES ASSUME pc[b] \in QueryPcs PROVE QueryOk(J, b)' BY DEF QueryOk
<1>0. op[b] \in QueryOp
  <2>1. OpTyped(b) BY DEF Typed
  <2> QED BY <2>1 DEF OpTyped, QueryPcs, InsertPcs
<1>1. SnapOk(b) BY DEF QueryOk
<1>2. ASSUME pc[b] = "readMeta" PROVE DueOk(J, b, meta.deltaGen, Nodes)'
  <2>1. PICK K : K = Nodes OBVIOUS
  <2>2. PICK h : h = meta'.deltaGen OBVIOUS
  <2>3. DueOk(H, b, meta.deltaGen, K) BY <1>2, <2>1 DEF QueryOk
  <2>3a. PICK g : g = meta.deltaGen OBVIOUS
  <2>4. DueOk(J, b, h, K)'
    <3>1. DueOk(H, b, g, K) BY <2>3, <2>3a
    <3>2. \A n \in K : ~Dead(n)' /\ TextOf(n) # {} /\ Found(H, n, g) => Found(J, n, h)'
      BY <2>1, <2>2, <2>3a DEF FindsOn, Found
    <3>3. K \subseteq Nodes BY <2>1
    <3> QED BY <1>0, <1>1, <3>1, <3>2, <3>3, DueGrows
  <2>5. K \subseteq Nodes' BY <2>1 DEF Grow
  <2>6. ASSUME NEW y \in op[b].due
        PROVE  /\ y \in op[b].snap /\ HasTerm(rows'[y[2]], op[b].term)
               /\ \E n \in Nodes' : NodeOf(n, y[1], y[2])' /\ Found(J, n, h)'
    BY <2>4, <2>5 DEF DueOk
  <2> QED BY <2>2, <2>6 DEF DueOk, Found
<1>3. ASSUME NEW K, K \subseteq Nodes, ReadOk(H, b, K) PROVE ReadOk(J, b, K)'
  <2>1. PICK g : g = op[b].meta.deltaGen OBVIOUS
  <2>2. g \in 0..meta.deltaGen /\ op[b].meta = H[g].meta /\ DueOk(H, b, g, K) BY <1>3, <2>1 DEF ReadOk
  <2>3. \A n : Found(H, n, g) => Found(J, n, g)' BY <2>2, FoundGrows
  <2>4. DueOk(J, b, g, K)'
    <3>1. \A n \in K : ~Dead(n)' /\ TextOf(n) # {} /\ Found(H, n, g) => Found(J, n, g)' BY <2>3
    <3> QED BY <1>0, <1>1, <1>3, <2>2, <3>1, DueGrows
  <2>5. g \in 0..meta'.deltaGen /\ J[g] = H[g] BY <2>2, Numbers DEF Grow
  <2> QED BY <2>1, <2>2, <2>4, <2>5 DEF ReadOk
<1>4. ASSUME pc[b] = "open" PROVE ReadOk(J, b, Nodes)'
  <2>1. PICK K : K = Nodes OBVIOUS
  <2>2. ReadOk(H, b, K) BY <1>4, <2>1 DEF QueryOk
  <2>3. ReadOk(J, b, K)' BY <1>3, <2>1, <2>2
  <2>4. K \subseteq Nodes' BY <2>1 DEF Grow
  <2> QED BY <2>3, <2>4 DEF ReadOk, DueOk
<1>5. ASSUME pc[b] \in {"liveness", "score"} PROVE OpenOk(J, b)'
  <2> DEFINE c == cache[b]
  <2>1. OpenOk(H, b) BY <1>5 DEF QueryOk
  <2>2. /\ c # NoCache /\ c.key[1].deltaGen = op[b].meta.deltaGen /\ ReadOk(H, b, 0..(c.count - 1))
        /\ \A y \in op[b].snap : c.live # <<>> => \A n \in c.live[1] : Tid(n) = y[1] => Row(n) = y[2]
    BY <2>1 DEF OpenOk
  <2>3. c.count \in Nat /\ c.count <= Count /\ (c.live # <<>> => c.live[1] \subseteq 0..(c.count - 1))
    BY <2>2 DEF CacheOk, LiveOk
  <2>4. 0..(c.count - 1) \subseteq Nodes BY <2>3, Numbers DEF Nodes
  <2>5. PICK K : K = 0..(c.count - 1) OBVIOUS
  <2>6. ReadOk(J, b, K)' BY <1>3, <2>2, <2>4, <2>5
  <2>7. cache'[b] = c OBVIOUS
  <2> HIDE DEF c
  <2>8. \A y \in op[b].snap : c.live # <<>> => \A n \in c.live[1] : Tid(n)' = y[1] => Row(n)' = y[2]
    BY <2>2, <2>3, <2>4 DEF Grow
  <2> QED BY <2>2, <2>5, <2>6, <2>7, <2>8 DEF OpenOk, ReadOk, DueOk
<1>6. ASSUME pc[b] = "score" PROVE cache'[b].live # <<>> BY <1>6 DEF QueryOk
<1>7. ASSUME pc[b] = "done" PROVE DoneOk(b)' BY <1>7 DEF QueryOk, DoneOk, Returned
<1> QED BY <1>2, <1>4, <1>5, <1>6, <1>7 DEF QueryOk

\* While the files are the same, so is what is said of them
LEMMA FilesEq ==
  ASSUME FilesSame
  PROVE  /\ rows' = rows /\ base' = base /\ meta' = meta /\ graph' = graph /\ dpage' = dpage
         /\ Nodes' = Nodes /\ Count' = Count /\ Blocks' = Blocks /\ Spots' = Spots
         /\ \A n : Tid(n)' = Tid(n) /\ Row(n)' = Row(n) /\ (Dead(n)' <=> Dead(n))
         /\ \A p : Rec(p)' = Rec(p)
         /\ \A o, s : Of(o, s)' = Of(o, s)
         /\ \A H, n, g : Found(H, n, g)' <=> Found(H, n, g)
         /\ \A n, t, r : NodeOf(n, t, r)' <=> NodeOf(n, t, r)
<1>1. rows' = rows /\ base' = base /\ meta' = meta /\ graph' = graph /\ dpage' = dpage BY DEF FilesSame
<1>2. Nodes' = Nodes /\ Count' = Count /\ Blocks' = Blocks /\ Spots' = Spots
  BY <1>1 DEF Nodes, Count, Blocks, Spots
<1>3. \A n : Tid(n)' = Tid(n) /\ Row(n)' = Row(n) /\ (Dead(n)' <=> Dead(n))
  BY <1>1 DEF Tid, Row, Dead, NodeState
<1>4. \A p : Rec(p)' = Rec(p) BY <1>1 DEF Rec
<1>5. \A o, s : Of(o, s)' = Of(o, s) BY <1>2 DEF Of
<1>6. \A H, n, g : Found(H, n, g)' <=> Found(H, n, g) BY <1>1, <1>4 DEF Found
<1>7. \A n, t, r : NodeOf(n, t, r)' <=> NodeOf(n, t, r) BY <1>2, <1>3 DEF NodeOf
<1> QED BY <1>1, <1>2, <1>3, <1>4, <1>5, <1>6, <1>7

LEMMA SameHeap ==
  ASSUME FilesSame, heap' = heap, NEW H, HeapOk(H)
  PROVE  HeapOk(H)' /\ \A n : Holds(n)' <=> Holds(n)
<1>1. \A n : Holds(n)' <=> Holds(n) BY FilesEq DEF Holds
<1>2. \A t \in Tids : heap'[t].row \in 0..Len(rows') /\ (heap'[t].state # "free" => heap'[t].row # 0)
  BY FilesEq DEF HeapOk
<1>3. \A n \in Nodes' : ~Dead(n)' => Holds(n)' BY <1>1, FilesEq DEF HeapOk
<1>4. ASSUME NEW t \in Tids, heap'[t].state = "live", rows'[heap'[t].row] \notin {NoText, {}}
      PROVE  \E n \in Nodes' : NodeOf(n, t, heap[t].row)' /\ Found(H, n, meta.deltaGen)'
  <2>1. PICK n \in Nodes : NodeOf(n, t, heap[t].row) /\ Found(H, n, meta.deltaGen)
    BY <1>4, FilesEq DEF HeapOk
  <2>2. NodeOf(n, t, heap[t].row)' BY <2>1 DEF FilesSame, NodeOf, Nodes, Count, Tid, Row, Dead, NodeState
  <2>3. Found(H, n, meta.deltaGen)' BY <2>1 DEF FilesSame, Found, Rec
  <2> QED BY <2>1, <2>2, <2>3, FilesEq
<1> QED BY <1>1, <1>2, <1>3, <1>4 DEF HeapOk

LEMMA SameVac ==
  ASSUME FilesSame, heap' = heap, vac' = vac, pc'[Vacuum] = pc[Vacuum], NEW o, VacOk(o)
  PROVE  VacOk(o)' /\ (Compacting' <=> Compacting)
<1>1. Compacting' <=> Compacting BY DEF Compacting
<1>2. vac'.recs = vac.recs /\ vac'.live = vac.live /\ vac'.dead = vac.dead /\ vac'.meta = vac.meta OBVIOUS
<1>3. {n \in Nodes' : ~Dead(n)'} = {n \in Nodes : ~Dead(n)} BY FilesEq
<1>4. pc[Vacuum] = "reap" => \A n \in Nodes' : Tid(n)' \in vac.dead => Dead(n)' BY FilesEq DEF VacOk
<1>5. {p \in Of(o, meta.deltaStart)' : Rec(p)'.node \in vac'.live}
      = {p \in Of(o, meta.deltaStart) : Rec(p).node \in vac.live}
  <2>1. Of(o, meta.deltaStart)' = Of(o, meta.deltaStart)
    BY DEF FilesSame, Of, Spots, Blocks
  <2> QED BY <2>1, FilesEq
<1> QED BY <1>1, <1>2, <1>3, <1>4, <1>5, FilesEq DEF VacOk

LEMMA SameInsert ==
  ASSUME FilesSame, NEW b \in Backends, op'[b] = op[b], pc'[b] = pc[b], NEW o, InsertOk(o, b),
         Inserting(b) => heap'[op[b].tid] = heap[op[b].tid]
  PROVE  InsertOk(o, b)'
<1>1. Inserting(b)' <=> Inserting(b) BY DEF Inserting
<1> SUFFICES ASSUME Inserting(b) PROVE InsertOk(o, b)' BY <1>1 DEF InsertOk
<1> DEFINE i == op[b]
           s == i.start
           r == heap[i.tid].row
<1>2. heap'[i.tid] = heap[i.tid] BY DEF Inserting
<1>3. NodeOf(i.node, i.tid, r) => NodeOf(op[b].node, op[b].tid, heap[op[b].tid].row)'
  BY <1>2 DEF FilesSame, NodeOf, Nodes, Count, Tid, Row, Dead, NodeState
<1>4. Of(o, op[b].start)' = Of(o, s) BY DEF FilesSame, Of, Spots, Blocks
<1>5. Apart(base[meta.base], Of(o, s)) => Apart(base[meta.base], Of(o, op[b].start))'
  BY <1>4, FilesEq DEF Apart
<1> HIDE DEF s, r
<1> QED BY <1>1, <1>2, <1>3, <1>4, <1>5, FilesEq DEF InsertOk, s, r

LEMMA SameCursor ==
  ASSUME FilesSame, NEW b \in Backends, cursor'[b] = cursor[b], NEW o, CursorOk(o, b)
  PROVE  CursorOk(o, b)'
BY FilesEq DEF CursorOk

\* A step of a query changes what belongs to its backend
QueryStep(b) ==
  /\ FilesSame /\ UNCHANGED <<heap, cursor, vac>> /\ bounds'.new = bounds.new
  /\ \A a \in Backends \ {b} : op'[a] = op[a] /\ pc'[a] = pc[a] /\ cache'[a] = cache[a]
  /\ pc'[Vacuum] = pc[Vacuum]
  /\ ~Inserting(b) /\ op'[b].kind # "insert" /\ pc'[b] # "graph"
LEMMA QueryFrame ==
  ASSUME Typed, Turns, NEW o, NEW H, Shape(o, H), NEW b \in Backends, QueryStep(b),
         CacheOk(o, H, cache[b])', QueryOk(H, b)'
  PROVE  Turns' /\ Shape(o, H)'
<1>0. /\ FilesSame /\ heap' = heap /\ cursor' = cursor /\ vac' = vac /\ pc'[Vacuum] = pc[Vacuum]
      /\ \A a \in Backends \ {b} : op'[a] = op[a] /\ pc'[a] = pc[a] /\ cache'[a] = cache[a]
  BY DEF QueryStep
<1>1. Pages(o) /\ Docs /\ History(o, H) /\ HeapOk(H) /\ VacOk(o) BY DEF Shape
<1>2. Pages(o)' /\ Docs' /\ History(o, H)' /\ Grow(o, H, o, H) BY <1>0, <1>1, SameFiles
<1>3. HeapOk(H)' /\ \A n : Holds(n)' <=> Holds(n) BY <1>0, <1>1, SameHeap
<1>4. VacOk(o)' /\ (Compacting' <=> Compacting) BY <1>0, <1>1, SameVac
<1>5. \A a \in Backends : Inserting(a)' => Inserting(a) BY <1>0 DEF Inserting, QueryStep
<1>6. \A n : Kept(n) => Kept(n)' BY <1>0, <1>3, FilesEq DEF Kept
<1>7. FindsOn(H, H)
  <2>1. \A n : Found(H, n, meta.deltaGen) => Found(H, n, meta.deltaGen)' BY <1>0 DEF FilesSame, Found, Rec
  <2> QED BY <2>1 DEF FindsOn
<1>8. ASSUME NEW a \in Backends
      PROVE  InsertOk(o, a)' /\ CursorOk(o, a)' /\ CacheOk(o, H, cache[a])' /\ QueryOk(H, a)'
  <2>1. InsertOk(o, a) /\ CursorOk(o, a) /\ CacheOk(o, H, cache[a]) /\ QueryOk(H, a) BY DEF Shape
  <2>2. CursorOk(o, a)' BY <1>0, <2>1, SameCursor
  <2>3. CASE a = b
    <3>1. ~Inserting(a)' BY <2>3 DEF Inserting, QueryStep
    <3> QED BY <2>2, <2>3, <3>1 DEF InsertOk
  <2>4. CASE a # b
    <3>1. op'[a] = op[a] /\ pc'[a] = pc[a] /\ cache'[a] = cache[a] BY <1>0, <2>4
    <3>2. InsertOk(o, a)' BY <1>0, <2>1, <3>1, SameInsert
    <3>3. PICK c : c = cache[a] OBVIOUS
    <3>4. CacheOk(o, H, c)' BY <1>1, <1>2, <1>6, <2>1, <3>3, CacheGrows
    <3>5. CacheOk(o, H, cache[a])' BY <3>1, <3>3, <3>4
    <3>6. pc[a] \in QueryPcs => SnapOk(a)' /\ Stays(a)
      <4>1. pc[a] \in QueryPcs => SnapOk(a)' BY <1>0, <2>1, <3>1 DEF QueryOk, SnapOk
      <4>2. Stays(a) BY <1>0, FilesEq DEF Stays, NodeOf
      <4> QED BY <4>1, <4>2
    <3>7. QueryOk(H, a)' BY <1>1, <1>2, <1>7, <2>1, <3>1, <3>6, QueryGrows
    <3> QED BY <2>2, <3>2, <3>5, <3>7
  <2> QED BY <2>3, <2>4
<1>9. Turns'
  <2>1. UpdateLockFree => UpdateLockFree' BY <1>5 DEF UpdateLockFree
  <2>2. Count' = Count /\ rows' = rows /\ bounds'.new = bounds.new BY <1>0, FilesEq DEF QueryStep
  <2>3. \A a \in Backends : pc'[a] = "graph" => pc[a] = "graph" BY <1>0 DEF QueryStep
  <2>4. \A x, y \in Backends : Inserting(x)' /\ Inserting(y)' => x = y BY <1>5 DEF Turns
  <2> QED BY <1>4, <2>1, <2>2, <2>3, <2>4 DEF Turns
<1> QED BY <1>2, <1>3, <1>4, <1>8, <1>9 DEF Shape

-----------------------------------------------------------------------------
(* Queries                                                                 *)

\* A document is scored once if it is live and in the base and has the term,
\* or if it has a record with the term
Once(x, n, w, k, live, recs) ==
  /\ x \in {0, 1}
  /\ x = 1 <=> \/ n \in live /\ base[k].len[n] # 0 /\ w \in TextOf(n)
               \/ \E p \in recs : Rec(p).node = n /\ w \in Rec(p).text
LEMMA ScoredOnce ==
  ASSUME Docs, NEW k \in 1..Len(base), NEW live, NEW recs, recs \subseteq Spots,
         Apart(base[k], recs), NEW n \in NodeIds, NEW w \in Terms
  PROVE  Once(Scored(n, w, base[k], live, recs), n, w, k, live, recs)
<1> DEFINE B == base[k]
           a == IF n \in live /\ B.len[n] # 0 THEN B.post[w][n] ELSE 0
           X == {p \in recs : Rec(p).node = n /\ w \in Rec(p).text}
<1>0. Scored(n, w, B, live, recs) = a + Cardinality(X) BY DEF Scored
<1>1. BaseOk(B) BY DEF Docs
<1>2. a = (IF n \in live /\ B.len[n] # 0 /\ w \in TextOf(n) THEN 1 ELSE 0) BY <1>1 DEF BaseOk
<1>3. CASE X = {}
  <2>1. Cardinality(X) = 0 BY <1>3, FS_EmptySet
  <2>2. ~\E p \in recs : Rec(p).node = n /\ w \in Rec(p).text BY <1>3
  <2> HIDE DEF a, X, B
  <2> QED BY <1>0, <1>2, <2>1, <2>2 DEF B, Once
<1>4. CASE X # {}
  <2>1. PICK p \in recs : Rec(p).node = n /\ w \in Rec(p).text BY <1>4
  <2>2. X = {p} BY <2>1 DEF Docs
  <2>3. Cardinality(X) = 1 BY <2>2, FS_Singleton
  <2>4. B.len[n] = 0 BY <2>1 DEF Apart
  <2> HIDE DEF a, X, B
  <2> QED BY <1>0, <1>2, <2>1, <2>3, <2>4 DEF B, Once
<1> QED BY <1>3, <1>4

LEMMA QueryTyped ==
  ASSUME Typed, NEW b \in Backends, QueryStep(b), OpTyped(b)',
         op' = [a \in Backends |-> op'[a]], cache' = [a \in Backends |-> cache'[a]],
         pc' = [p \in Backends \cup {Vacuum} |-> pc'[p]],
         bounds' \in [new : Nat, queries : Nat, deletes : Nat, vacuums : Nat, cancels : Nat]
  PROVE  Typed'
<1>1. \A a \in Backends : OpTyped(a)' BY DEF Typed, QueryStep, OpTyped
<1>2. VacTyped' BY DEF Typed, VacTyped, QueryStep
<1> QED BY <1>1, <1>2 DEF Typed, QueryStep, FilesSame

Good(o, H) == Typed /\ Turns /\ Shape(o, H)

LEMMA GoodQuery ==
  ASSUME NEW o, NEW H, Good(o, H), NEW b \in Backends, QueryStep(b), OpTyped(b)',
         op' = [a \in Backends |-> op'[a]], cache' = [a \in Backends |-> cache'[a]],
         pc' = [p \in Backends \cup {Vacuum} |-> pc'[p]],
         bounds' \in [new : Nat, queries : Nat, deletes : Nat, vacuums : Nat, cancels : Nat],
         CacheOk(o, H, cache[b])', QueryOk(H, b)'
  PROVE  Good(o, H)'
<1>1. Typed' BY QueryTyped DEF Good
<1>2. Turns' /\ Shape(o, H)' BY QueryFrame DEF Good
<1> QED BY <1>1, <1>2 DEF Good

\* A backend that goes on with its query
LEMMA OwnQuery ==
  ASSUME Typed, NEW b \in Backends, pc[b] \in QueryPcs
  PROVE  op[b] \in QueryOp /\ ~Inserting(b)
<1>1. OpTyped(b) BY DEF Typed
<1>2. op[b] \in QueryOp BY <1>1 DEF OpTyped, QueryPcs, InsertPcs
<1> QED BY <1>2 DEF QueryOp, Inserting

LEMMA CacheSame ==
  ASSUME NEW o, NEW H, Good(o, H), FilesSame, heap' = heap, vac' = vac, pc'[Vacuum] = pc[Vacuum],
         NEW c, CacheOk(o, H, c)
  PROVE  CacheOk(o, H, c)'
<1>1. Typed /\ Pages(o) /\ Docs /\ History(o, H) /\ HeapOk(H) BY DEF Good, Shape
<1>2. Grow(o, H, o, H) BY <1>1, SameFiles
<1>3. \A n : Holds(n)' <=> Holds(n) BY <1>1, SameHeap
<1>4. \A n : Kept(n) => Kept(n)' BY <1>3, FilesEq DEF Kept
<1> QED BY <1>1, <1>2, <1>4, CacheGrows

LEMMA A_EndQuery ==
  ASSUME NEW o, NEW H, Good(o, H), NEW b \in Backends, EndQuery(b) PROVE Good(o, H)'
<1>0. Typed /\ CacheOk(o, H, cache[b]) BY DEF Good, Shape
<1>1. pc[b] \in QueryPcs BY DEF EndQuery, QueryPcs
<1>2. ~Inserting(b) /\ op[b] \in QueryOp BY <1>0, <1>1, OwnQuery
<1>3. /\ op' = [op EXCEPT ![b] = NoOp] /\ pc' = [pc EXCEPT ![b] = "idle"]
      /\ UNCHANGED <<graph, base, dpage, meta, heap, rows, cache, cursor, vac, bounds>>
  BY DEF EndQuery, Goto
<1>4. /\ op = [a \in Backends |-> op[a]] /\ cache = [a \in Backends |-> cache[a]]
      /\ pc = [p \in Backends \cup {Vacuum} |-> pc[p]] /\ Vacuum # b
  BY <1>0, Basics DEF Typed
<1>5. QueryStep(b) BY <1>2, <1>3, <1>4 DEF QueryStep, FilesSame, NoOp
<1>6. op'[b] = NoOp /\ pc'[b] = "idle" BY <1>3, <1>4
<1>7. OpTyped(b)' BY <1>6 DEF OpTyped
<1>8. QueryOk(H, b)' BY <1>6 DEF QueryOk, QueryPcs
<1>9. PICK c : c = cache[b] OBVIOUS
<1>10. CacheOk(o, H, c)' BY <1>0, <1>3, <1>5, <1>9, CacheSame DEF QueryStep
<1>11. CacheOk(o, H, cache[b])' BY <1>3, <1>9, <1>10
<1>12. bounds' \in [new : Nat, queries : Nat, deletes : Nat, vacuums : Nat, cancels : Nat]
  BY <1>0, <1>3 DEF Typed
<1> QED BY <1>3, <1>4, <1>5, <1>7, <1>8, <1>11, <1>12, GoodQuery

\* What a step of a query leaves alone
LEMMA QuerySame ==
  ASSUME NEW o, NEW H, Good(o, H), NEW b \in Backends, QueryStep(b), cache' = cache
  PROVE  CacheOk(o, H, cache[b])' /\ cache' = [a \in Backends |-> cache'[a]]
<1>1. PICK c : c = cache[b] OBVIOUS
<1>2. CacheOk(o, H, c) BY <1>1 DEF Good, Shape
<1>3. FilesSame /\ heap' = heap /\ vac' = vac /\ pc'[Vacuum] = pc[Vacuum] BY DEF QueryStep
<1>4. CacheOk(o, H, c)' BY <1>2, <1>3, CacheSame
<1>5. CacheOk(o, H, cache[b])' BY <1>1, <1>4
<1> QED BY <1>5 DEF Good, Typed

LEMMA A_BeginQuery ==
  ASSUME NEW o, NEW H, Good(o, H), NEW b \in Backends, NEW w \in Terms, BeginQuery(b, w)
  PROVE  Good(o, H)'
<1> DEFINE q == [kind |-> "query", term |-> w, meta |-> meta, ret |-> {},
                 snap |-> Versions(Snapshot),
                 due |-> Versions({t \in Snapshot : HasTerm(rows[heap[t].row], w)})]
<1>0. Typed /\ HeapOk(H) /\ VacOk(o) BY DEF Good, Shape
<1>1. /\ pc[b] = "idle" /\ op' = [op EXCEPT ![b] = q] /\ pc' = [pc EXCEPT ![b] = "readMeta"]
      /\ bounds' = [bounds EXCEPT !.queries = @ + 1]
      /\ graph' = graph /\ base' = base /\ dpage' = dpage /\ meta' = meta /\ heap' = heap /\ rows' = rows
      /\ cache' = cache /\ cursor' = cursor /\ vac' = vac
  BY DEF BeginQuery, Goto
<1>2. OpTyped(b) BY <1>0 DEF Typed
<1>3. ~Inserting(b) BY <1>1, <1>2 DEF OpTyped, Inserting, NoOp, InsertPcs, QueryPcs
<1>4. /\ op = [a \in Backends |-> op[a]] /\ pc = [p \in Backends \cup {Vacuum} |-> pc[p]] /\ Vacuum # b
      /\ bounds \in [new : Nat, queries : Nat, deletes : Nat, vacuums : Nat, cancels : Nat]
  BY <1>0, Basics DEF Typed
<1>5. bounds' \in [new : Nat, queries : Nat, deletes : Nat, vacuums : Nat, cancels : Nat]
      /\ bounds'.new = bounds.new
  BY <1>1, <1>4
<1>6. op'[b] = q /\ pc'[b] = "readMeta" BY <1>1, <1>4
<1>7. QueryStep(b)
  <2>1. op'[b].kind # "insert" BY <1>6
  <2> HIDE DEF q
  <2> QED BY <1>1, <1>3, <1>4, <1>5, <1>6, <2>1 DEF QueryStep, FilesSame
<1>8. ASSUME NEW t \in Snapshot PROVE t \in Tids /\ heap[t].row \in Nat /\ heap[t].row # 0 /\ heap[t].state = "live"
  BY <1>0, Numbers DEF Snapshot, HeapOk
<1>9. q.snap \subseteq Version /\ q.due \subseteq q.snap /\ q.meta = meta BY <1>8 DEF Versions, Version
<1>10. q \in QueryOp BY <1>0, <1>9 DEF QueryOp, Typed
<1>11. OpTyped(b)' BY <1>6, <1>10 DEF OpTyped, QueryPcs
<1>12. ASSUME NEW y \in q.snap
       PROVE  /\ heap[y[1]].row = y[2] /\ heap[y[1]].state \in {"live", "dead"}
              /\ pc[Vacuum] \in {"mark", "reap"} => y[1] \notin vac.dead
  <2>1. PICK t \in Snapshot : y = <<t, heap[t].row>> BY DEF Versions
  <2> QED BY <1>0, <1>8, <2>1 DEF VacOk
<1>13. ASSUME NEW y \in q.due
       PROVE  /\ y \in q.snap /\ HasTerm(rows[y[2]], w)
              /\ \E n \in Nodes : NodeOf(n, y[1], y[2]) /\ Found(H, n, meta.deltaGen)
  <2>1. PICK t \in Snapshot : y = <<t, heap[t].row>> /\ HasTerm(rows[heap[t].row], w) BY DEF Versions
  <2>2. rows[heap[t].row] \notin {NoText, {}} BY <2>1 DEF HasTerm
  <2>3. PICK n \in Nodes : NodeOf(n, t, heap[t].row) /\ Found(H, n, meta.deltaGen)
    BY <1>0, <1>8, <2>2 DEF HeapOk
  <2> QED BY <1>9, <2>1, <2>3
<1>14. q.term = w /\ q.ret = {} OBVIOUS
<1> HIDE DEF q
<1>15. SnapOk(b)' BY <1>1, <1>4, <1>6, <1>12 DEF SnapOk
<1>16. DueOk(H, b, meta.deltaGen, Nodes)'
  <2>1. ASSUME NEW y \in q.due
        PROVE  /\ y \in q.snap /\ HasTerm(rows'[y[2]], q.term)
               /\ \E n \in Nodes' : NodeOf(n, y[1], y[2])' /\ Found(H, n, meta.deltaGen)'
    <3>1. PICK n \in Nodes : NodeOf(n, y[1], y[2]) /\ Found(H, n, meta.deltaGen) BY <1>13
    <3>2. NodeOf(n, y[1], y[2])' /\ n \in Nodes' BY <1>7, <3>1, FilesEq DEF QueryStep
    <3>3. Found(H, n, meta.deltaGen)' BY <1>1, <3>1 DEF Found, Rec
    <3> QED BY <1>1, <1>13, <1>14, <3>2, <3>3
  <2> QED BY <1>6, <2>1 DEF DueOk
<1>17. QueryOk(H, b)' BY <1>6, <1>14, <1>15, <1>16 DEF QueryOk
<1>18. CacheOk(o, H, cache[b])' /\ cache' = [a \in Backends |-> cache'[a]] BY <1>1, <1>7, QuerySame
<1>19. op' = [a \in Backends |-> op'[a]] /\ pc' = [p \in Backends \cup {Vacuum} |-> pc'[p]] BY <1>1, <1>4
<1> QED BY <1>5, <1>7, <1>11, <1>17, <1>18, <1>19, GoodQuery

LEMMA A_ReadMeta ==
  ASSUME NEW o, NEW H, Good(o, H), NEW b \in Backends, ReadMeta(b)
  PROVE  Good(o, H)'
<1>0. Typed /\ History(o, H) /\ QueryOk(H, b) BY DEF Good, Shape
<1>1. /\ pc[b] = "readMeta" /\ op' = [op EXCEPT ![b].meta = meta] /\ pc' = [pc EXCEPT ![b] = "open"]
      /\ graph' = graph /\ base' = base /\ dpage' = dpage /\ meta' = meta /\ heap' = heap /\ rows' = rows
      /\ cache' = cache /\ cursor' = cursor /\ vac' = vac /\ bounds' = bounds
  BY DEF ReadMeta, Goto
<1>2. op[b] \in QueryOp /\ ~Inserting(b) BY <1>0, <1>1, OwnQuery DEF QueryPcs
<1>4. /\ op = [a \in Backends |-> op[a]] /\ pc = [p \in Backends \cup {Vacuum} |-> pc[p]] /\ Vacuum # b
      /\ bounds \in [new : Nat, queries : Nat, deletes : Nat, vacuums : Nat, cancels : Nat]
      /\ meta \in MetaType
  BY <1>0, Basics DEF Typed
<1>5. op'[b] = [op[b] EXCEPT !.meta = meta] /\ pc'[b] = "open" BY <1>1, <1>4
<1>6. /\ op'[b] \in QueryOp /\ op'[b].meta = meta /\ op'[b].snap = op[b].snap /\ op'[b].due = op[b].due
      /\ op'[b].term = op[b].term /\ op'[b].ret = op[b].ret
  BY <1>2, <1>4, <1>5 DEF QueryOp
<1>7. QueryStep(b)
  <2>1. op'[b].kind # "insert" BY <1>6 DEF QueryOp
  <2> QED BY <1>1, <1>2, <1>4, <1>5, <2>1 DEF QueryStep, FilesSame
<1>11. OpTyped(b)' BY <1>5, <1>6 DEF OpTyped, QueryPcs
<1>12. SnapOk(b) /\ op[b].ret = {} /\ DueOk(H, b, meta.deltaGen, Nodes) BY <1>0, <1>1 DEF QueryOk, QueryPcs
<1>15. SnapOk(b)' BY <1>1, <1>4, <1>6, <1>12 DEF SnapOk
<1>16. PICK g : g = meta.deltaGen OBVIOUS
<1>17. DueOk(H, b, g, Nodes)'
  <2>1. ASSUME NEW y \in op[b].due
        PROVE  /\ y \in op[b].snap /\ HasTerm(rows'[y[2]], op[b].term)
               /\ \E n \in Nodes' : NodeOf(n, y[1], y[2])' /\ Found(H, n, g)'
    <3>1. PICK n \in Nodes : NodeOf(n, y[1], y[2]) /\ Found(H, n, g) BY <1>12, <1>16 DEF DueOk
    <3>2. NodeOf(n, y[1], y[2])' /\ n \in Nodes' /\ Found(H, n, g)' BY <1>7, <3>1, FilesEq DEF QueryStep
    <3> QED BY <1>1, <1>12, <3>2 DEF DueOk
  <2> QED BY <1>6, <2>1 DEF DueOk
<1>18. ReadOk(H, b, Nodes)'
  <2>1. g \in 0..meta'.deltaGen /\ meta = H[g].meta BY <1>0, <1>1, <1>16, Numbers DEF History
  <2> QED BY <1>1, <1>6, <1>16, <1>17, <2>1 DEF ReadOk, DueOk
<1>19. QueryOk(H, b)' BY <1>5, <1>6, <1>12, <1>15, <1>18 DEF QueryOk
<1>20. CacheOk(o, H, cache[b])' /\ cache' = [a \in Backends |-> cache'[a]] BY <1>1, <1>7, QuerySame
<1>21. op' = [a \in Backends |-> op'[a]] /\ pc' = [p \in Backends \cup {Vacuum} |-> pc'[p]] BY <1>1, <1>4
<1>22. bounds' \in [new : Nat, queries : Nat, deletes : Nat, vacuums : Nat, cancels : Nat] BY <1>1, <1>4
<1> QED BY <1>7, <1>11, <1>19, <1>20, <1>21, <1>22, GoodQuery

LEMMA A_CancelQuery ==
  ASSUME NEW o, NEW H, Good(o, H), NEW b \in Backends, Cancel(b), ~Inserting(b)
  PROVE  Good(o, H)'
<1>0. Typed BY DEF Good
<1>3. /\ op' = [op EXCEPT ![b] = NoOp] /\ pc' = [pc EXCEPT ![b] = "idle"]
      /\ bounds' = [bounds EXCEPT !.cancels = @ + 1]
      /\ UNCHANGED <<graph, base, dpage, meta, heap, rows, cache, cursor, vac>>
  BY Basics DEF Cancel, Goto
<1>4. /\ op = [a \in Backends |-> op[a]] /\ cache = [a \in Backends |-> cache[a]]
      /\ pc = [p \in Backends \cup {Vacuum} |-> pc[p]] /\ Vacuum # b
      /\ bounds \in [new : Nat, queries : Nat, deletes : Nat, vacuums : Nat, cancels : Nat]
  BY <1>0, Basics DEF Typed
<1>5. bounds' \in [new : Nat, queries : Nat, deletes : Nat, vacuums : Nat, cancels : Nat]
      /\ bounds'.new = bounds.new
  BY <1>3, <1>4
<1>6. op'[b] = NoOp /\ pc'[b] = "idle" BY <1>3, <1>4
<1>7. QueryStep(b) BY <1>3, <1>4, <1>5, <1>6 DEF QueryStep, FilesSame, NoOp
<1>8. OpTyped(b)' BY <1>6 DEF OpTyped
<1>9. QueryOk(H, b)' BY <1>6 DEF QueryOk, QueryPcs
<1>10. CacheOk(o, H, cache[b])' /\ cache' = [a \in Backends |-> cache'[a]] BY <1>3, <1>7, QuerySame
<1>11. op' = [a \in Backends |-> op'[a]] /\ pc' = [p \in Backends \cup {Vacuum} |-> pc'[p]] BY <1>3, <1>4
<1> QED BY <1>5, <1>7, <1>8, <1>9, <1>10, <1>11, GoodQuery

\* The chain of no page has no records
LEMMA NoRecords ==
  ASSUME NEW o, Pages(o) PROVE Of(o, Nil) = {}
<1>1. \A p \in Spots : p[1] \in Blocks BY DEF Spots
<1>2. \A b \in Blocks : o[b] # Nil BY DEF Pages, Blocks, Nil
<1> QED BY <1>1, <1>2 DEF Of

LEMMA NodesAreIds ==
  ASSUME Typed, Turns PROVE Nodes \subseteq NodeIds
<1>1. Count \in Nat /\ Len(rows) \in Nat /\ Count <= Len(rows) /\ Len(rows) = NBuilt + bounds.new
      /\ bounds.new <= MaxNew /\ bounds.new \in Nat
  BY Numbers DEF Turns, Typed
<1> QED BY <1>1, Basics DEF Nodes

\* A document found with a metadata has its term there
LEMMA FoundTerm ==
  ASSUME Typed, Turns, NEW o, NEW H, Pages(o), Docs, History(o, H), NEW g \in 0..meta.deltaGen,
         NEW n \in Nodes, Found(H, n, g), NEW w \in Terms, w \in TextOf(n)
  PROVE  base[H[g].meta.base].post[w][n] # 0 \/ H[g].meta.deltaDocs # 0
<1>1. MetaOk(o, H[g].meta) /\ H[g].recs \subseteq Of(o, H[g].meta.deltaStart) BY DEF History
<1>2. n \in NodeIds BY NodesAreIds
<1>3. CASE base[H[g].meta.base].len[n] # 0
  <2>1. BaseOk(base[H[g].meta.base]) BY <1>1 DEF MetaOk, Docs
  <2> QED BY <1>2, <1>3, <2>1 DEF BaseOk
<1>4. CASE \E p \in H[g].recs : Rec(p).node = n
  <2>1. Of(o, H[g].meta.deltaStart) # {} BY <1>1, <1>4
  <2> QED BY <1>1, <2>1, NoRecords DEF MetaOk
<1> QED BY <1>3, <1>4 DEF Found

LEMMA A_OpenCache ==
  ASSUME NEW o, NEW H, Good(o, H), NEW b \in Backends, OpenCache(b)
  PROVE  Good(o, H)'
<1>m. PICK m : m = op[b].meta OBVIOUS
<1>k. PICK k : k = CacheKey(m) OBVIOUS
<1>w. PICK w : w = op[b].term OBVIOUS
<1>d. PICK new : new = [key |-> <<k>>, base |-> m.base, count |-> Count, live |-> <<>>, delta |-> <<>>] OBVIOUS
<1> DEFINE unknown == (\A n \in NodeIds : base[m.base].post[w][n] = 0) /\ m.deltaDocs = 0
           old == Count = 0 \/ cache[b].key = <<k>>
           end == Count = 0 \/ unknown
<1>0. Typed /\ Turns /\ Pages(o) /\ Docs /\ History(o, H) /\ HeapOk(H) /\ QueryOk(H, b)
      /\ CacheOk(o, H, cache[b])
  BY DEF Good, Shape
<1>1. /\ pc[b] = "open" /\ cache' = (IF old THEN cache ELSE [cache EXCEPT ![b] = new])
      /\ pc' = [pc EXCEPT ![b] = IF end THEN "done" ELSE "liveness"]
      /\ graph' = graph /\ base' = base /\ dpage' = dpage /\ meta' = meta /\ heap' = heap /\ rows' = rows
      /\ op' = op /\ cursor' = cursor /\ vac' = vac /\ bounds' = bounds
  BY <1>m, <1>k, <1>w, <1>d DEF OpenCache, Goto, BaseOf
<1>2. op[b] \in QueryOp /\ ~Inserting(b) BY <1>0, <1>1, OwnQuery DEF QueryPcs
<1>3. /\ op = [a \in Backends |-> op[a]] /\ pc = [p \in Backends \cup {Vacuum} |-> pc[p]] /\ Vacuum # b
      /\ bounds \in [new : Nat, queries : Nat, deletes : Nat, vacuums : Nat, cancels : Nat]
      /\ cache = [a \in Backends |-> cache[a]]
  BY <1>0, Basics DEF Typed
<1>4. pc'[b] = IF end THEN "done" ELSE "liveness" BY <1>1, <1>3
<1>5. cache'[b] = IF old THEN cache[b] ELSE new BY <1>1, <1>3
<1>6. QueryStep(b)
  <2>1. op'[b].kind # "insert" BY <1>1, <1>2 DEF QueryOp
  <2>2. \A a \in Backends \ {b} : op'[a] = op[a] /\ pc'[a] = pc[a] /\ cache'[a] = cache[a] BY <1>1, <1>3
  <2>3. pc'[Vacuum] = pc[Vacuum] BY <1>1, <1>3
  <2>4. pc'[b] # "graph" BY <1>4
  <2> QED BY <1>1, <1>2, <2>1, <2>2, <2>3, <2>4 DEF QueryStep, FilesSame
<1>7. OpTyped(b)' BY <1>1, <1>2, <1>4 DEF OpTyped, QueryPcs
<1>g. PICK g : g = m.deltaGen OBVIOUS
<1>8. SnapOk(b) /\ op[b].ret = {} /\ g \in 0..meta.deltaGen /\ m = H[g].meta /\ DueOk(H, b, g, Nodes)
  BY <1>0, <1>1, <1>m, <1>g DEF QueryOk, QueryPcs, ReadOk
<1>9. k.deltaGen = g /\ k.count = Count /\ k.gen = graph.gen BY <1>k, <1>g DEF CacheKey
<1>10. SnapOk(b)' BY <1>1, <1>3, <1>8 DEF SnapOk
<1>11. CacheOk(o, H, cache[b])'
  <2>1. CASE old
    <3>1. cache' = cache BY <1>1, <2>1
    <3> QED BY <1>6, <3>1, QuerySame
  <2>2. CASE ~old
    <3>1. cache'[b] = new BY <1>5, <2>2
    <3>2. new.key = <<k>> /\ new.key[1] = k /\ new.base = m.base /\ new.count = Count
          /\ new.live = <<>> /\ new.delta = <<>>
      BY <1>d
    <3>3. Count \in Nat /\ graph.gen \in Nat /\ Count' = Count BY <1>0, <1>1, Numbers DEF Count
    <3>4. new = [key |-> <<new.key[1]>>, base |-> new.base, count |-> new.count, live |-> new.live,
                 delta |-> new.delta]
      BY <1>d, <3>2
    <3>5. CacheOk(o, H, new)' BY <1>1, <1>8, <1>9, <3>2, <3>3, <3>4 DEF CacheOk
    <3> QED BY <3>1, <3>5
  <2> QED BY <2>1, <2>2
<1>12. ASSUME end PROVE DoneOk(b)'
  <2>1. op[b].due = {}
    <3> SUFFICES ASSUME NEW y \in op[b].due PROVE FALSE OBVIOUS
    <3>1. PICK n \in Nodes : NodeOf(n, y[1], y[2]) /\ Found(H, n, g) BY <1>8 DEF DueOk
    <3>2. w \in TextOf(n) BY <1>8, <1>w, <3>1 DEF DueOk, HasTerm, NodeOf, TextOf
    <3>3. Count # 0 BY <1>0, <3>1, Numbers DEF Nodes
    <3>4. w \in Terms BY <1>2, <1>w DEF QueryOp
    <3>5. base[m.base].post[w][n] # 0 \/ m.deltaDocs # 0 BY <1>0, <1>8, <3>1, <3>2, <3>4, FoundTerm
    <3>6. n \in NodeIds BY <1>0, NodesAreIds
    <3> QED BY <1>12, <3>3, <3>5, <3>6
  <2>2. op'[b].ret = {} /\ op'[b].due = {} BY <1>1, <1>8, <2>1
  <2> QED BY <2>2 DEF DoneOk, Returned
<1>13. ASSUME ~end PROVE OpenOk(H, b)'
  <2>1. ASSUME old
        PROVE  /\ cache[b].key = <<k>> /\ cache[b] # NoCache /\ cache[b].count = Count
               /\ cache[b].live # <<>> => \A n \in cache[b].live[1] : Holds(n)
    <3>1. cache[b].key = <<k>> BY <1>13, <2>1
    <3>2. cache[b] # NoCache BY <3>1 DEF NoCache
    <3>3. cache[b].key[1] = k BY <3>1
    <3>4. cache[b].count = Count BY <1>0, <1>9, <3>2, <3>3 DEF CacheOk
    <3>5. cache[b].live # <<>> => LiveOk(cache[b]) BY <1>0, <3>2 DEF CacheOk
    <3> QED BY <1>9, <3>1, <3>2, <3>3, <3>4, <3>5 DEF LiveOk, Kept
  <2>2. cache'[b].key = <<k>> /\ cache'[b].key[1] = k BY <1>5, <1>d, <2>1
  <2>3. cache'[b] # NoCache BY <2>2 DEF NoCache
  <2>4. cache'[b].count = Count BY <1>5, <1>d, <2>1
  <2>5. ASSUME cache'[b].live # <<>>, NEW n \in cache'[b].live[1] PROVE Holds(n)
    BY <1>5, <1>d, <2>1, <2>5
  <2>6. \A y \in op[b].snap : cache'[b].live # <<>> =>
          \A n \in cache'[b].live[1] : Tid(n) = y[1] => Row(n) = y[2]
    BY <1>8, <2>5 DEF SnapOk, Holds
  <2>7. \A y \in op'[b].snap : cache'[b].live # <<>> =>
          \A n \in cache'[b].live[1] : Tid(n)' = y[1] => Row(n)' = y[2]
    <3>1. \A n : Tid(n)' = Tid(n) /\ Row(n)' = Row(n) BY <1>6, FilesEq DEF QueryStep
    <3> QED BY <1>1, <2>6, <3>1
  <2>8. PICK K : K = Nodes OBVIOUS
  <2>9. ReadOk(H, b, K)'
    <3>1. ASSUME NEW y \in op[b].due
          PROVE  /\ y \in op[b].snap /\ HasTerm(rows'[y[2]], op[b].term)
                 /\ \E n \in K : NodeOf(n, y[1], y[2])' /\ Found(H, n, g)'
      <4>1. PICK n \in K : NodeOf(n, y[1], y[2]) /\ Found(H, n, g) BY <1>8, <2>8 DEF DueOk
      <4>2. NodeOf(n, y[1], y[2])' /\ Found(H, n, g)' BY <1>6, <4>1, FilesEq DEF QueryStep
      <4> QED BY <1>1, <1>8, <4>2 DEF DueOk
    <3>2. DueOk(H, b, g, K)' BY <1>1, <3>1 DEF DueOk
    <3> QED BY <1>1, <1>8, <1>m, <1>g, <3>2 DEF ReadOk
  <2>10. ReadOk(H, b, 0..(cache[b].count - 1))' BY <2>4, <2>8, <2>9 DEF ReadOk, DueOk, Nodes
  <2> QED BY <1>1, <1>9, <1>g, <1>m, <2>2, <2>3, <2>7, <2>10 DEF OpenOk
<1> HIDE DEF end, old
<1>14. QueryOk(H, b)' BY <1>1, <1>4, <1>8, <1>10, <1>12, <1>13 DEF QueryOk
<1>15. cache' = [a \in Backends |-> cache'[a]] BY <1>1, <1>3
<1>16. op' = [a \in Backends |-> op'[a]] /\ pc' = [p \in Backends \cup {Vacuum} |-> pc'[p]] BY <1>1, <1>3
<1>17. bounds' \in [new : Nat, queries : Nat, deletes : Nat, vacuums : Nat, cancels : Nat] BY <1>1, <1>3
<1> QED BY <1>6, <1>7, <1>11, <1>14, <1>15, <1>16, <1>17, GoodQuery

LEMMA A_EnsureLiveness ==
  ASSUME NEW o, NEW H, Good(o, H), NEW b \in Backends, EnsureLiveness(b)
  PROVE  Good(o, H)'
<1>c. PICK c : c = cache[b] OBVIOUS
<1>l. PICK live : live = LiveBelow(c.count) OBVIOUS
<1>d. PICK d : d = [c EXCEPT !.live = <<live>>] OBVIOUS
<1>0. Typed /\ Turns /\ HeapOk(H) /\ QueryOk(H, b) /\ CacheOk(o, H, c)
  BY <1>c DEF Good, Shape
<1>1. /\ pc[b] = "liveness" /\ cache' = (IF c.live # <<>> THEN cache ELSE [cache EXCEPT ![b] = d])
      /\ pc' = [pc EXCEPT ![b] = "score"]
      /\ graph' = graph /\ base' = base /\ dpage' = dpage /\ meta' = meta /\ heap' = heap /\ rows' = rows
      /\ op' = op /\ cursor' = cursor /\ vac' = vac /\ bounds' = bounds
  BY <1>c, <1>l, <1>d DEF EnsureLiveness, Goto
<1>2. op[b] \in QueryOp /\ ~Inserting(b) BY <1>0, <1>1, OwnQuery DEF QueryPcs
<1>3. /\ op = [a \in Backends |-> op[a]] /\ pc = [p \in Backends \cup {Vacuum} |-> pc[p]] /\ Vacuum # b
      /\ bounds \in [new : Nat, queries : Nat, deletes : Nat, vacuums : Nat, cancels : Nat]
      /\ cache = [a \in Backends |-> cache[a]]
  BY <1>0, Basics DEF Typed
<1>4. pc'[b] = "score" BY <1>1, <1>3
<1>5. cache'[b] = IF c.live # <<>> THEN c ELSE d BY <1>1, <1>3, <1>c
<1>6. QueryStep(b)
  <2>1. op'[b].kind # "insert" BY <1>1, <1>2 DEF QueryOp
  <2>2. \A a \in Backends \ {b} : op'[a] = op[a] /\ pc'[a] = pc[a] /\ cache'[a] = cache[a] BY <1>1, <1>3
  <2>3. pc'[Vacuum] = pc[Vacuum] BY <1>1, <1>3
  <2> QED BY <1>1, <1>2, <1>4, <2>1, <2>2, <2>3 DEF QueryStep, FilesSame
<1>7. OpTyped(b)' BY <1>1, <1>2, <1>4 DEF OpTyped, QueryPcs
<1>8. SnapOk(b) /\ op[b].ret = {} /\ OpenOk(H, b) BY <1>0, <1>1 DEF QueryOk, QueryPcs
<1>9. SnapOk(b)' BY <1>1, <1>3, <1>8 DEF SnapOk
<1>10. /\ c # NoCache /\ c.key[1].deltaGen = op[b].meta.deltaGen /\ ReadOk(H, b, 0..(c.count - 1))
       /\ \A y \in op[b].snap : c.live # <<>> => \A n \in c.live[1] : Tid(n) = y[1] => Row(n) = y[2]
  BY <1>8, <1>c DEF OpenOk
<1>11. /\ c = [key |-> <<c.key[1]>>, base |-> c.base, count |-> c.count, live |-> c.live, delta |-> c.delta]
       /\ c.key[1].deltaGen \in 0..meta.deltaGen /\ c.base = H[c.key[1].deltaGen].meta.base
       /\ c.key[1].gen \in Nat /\ c.key[1].gen <= graph.gen
       /\ c.count \in Nat /\ c.count <= Count /\ c.key[1].count = c.count
       /\ c.delta # <<>> => DeltaOk(o, H[c.key[1].deltaGen], c)
  BY <1>0, <1>10 DEF CacheOk
<1>12. \A n \in live : n \in 0..(c.count - 1) /\ n \in Nodes /\ ~Dead(n) /\ Holds(n)
  <2>1. \A n \in live : n \in 0..(c.count - 1) /\ ~Dead(n) BY <1>l DEF LiveBelow, Dead
  <2>2. 0..(c.count - 1) \subseteq Nodes BY <1>0, <1>11, Numbers DEF Nodes
  <2> QED BY <1>0, <2>1, <2>2 DEF HeapOk
<1>13. d = [key |-> <<c.key[1]>>, base |-> c.base, count |-> c.count, live |-> <<live>>, delta |-> c.delta]
  BY <1>11, <1>d
<1>14. /\ d.key = <<c.key[1]>> /\ d.key[1] = c.key[1] /\ d.base = c.base /\ d.count = c.count
       /\ d.live = <<live>> /\ d.live[1] = live /\ d.delta = c.delta
  BY <1>13
<1>15. CacheOk(o, H, cache[b])'
  <2>1. CASE c.live # <<>>
    <3>1. cache' = cache BY <1>1, <2>1
    <3> QED BY <1>6, <3>1, QuerySame
  <2>2. CASE c.live = <<>>
    <3>1. c.delta = <<>> BY <1>11, <2>2 DEF DeltaOk
    <3>2. \A n : n \in 0..(c.count - 1) /\ ~Dead(n) => n \in live BY <1>l DEF LiveBelow, Dead
    <3>3. LiveOk(d) BY <1>12, <1>14, <3>2 DEF LiveOk, Kept
    <3>4. d = [key |-> <<d.key[1]>>, base |-> d.base, count |-> d.count, live |-> d.live, delta |-> d.delta]
      BY <1>13, <1>14
    <3>5. d.delta = <<>> BY <1>14, <3>1
    <3>6. CacheOk(o, H, d) BY <1>11, <1>14, <3>3, <3>4, <3>5 DEF CacheOk
    <3>7. FilesSame /\ heap' = heap /\ vac' = vac /\ pc'[Vacuum] = pc[Vacuum] BY <1>6 DEF QueryStep
    <3>8. CacheOk(o, H, d)' BY <3>6, <3>7, CacheSame
    <3>9. cache'[b] = d BY <1>5, <2>2
    <3> QED BY <3>8, <3>9
  <2> QED BY <2>1, <2>2
<1>16. OpenOk(H, b)'
  <2>1. cache'[b].key[1] = c.key[1] /\ cache'[b].count = c.count /\ cache'[b].key = <<c.key[1]>>
    BY <1>5, <1>11, <1>14
  <2>2. cache'[b] # NoCache BY <2>1 DEF NoCache
  <2>3. ASSUME NEW y \in op'[b].snap, cache'[b].live # <<>>, NEW n \in cache'[b].live[1], Tid(n)' = y[1]
        PROVE  Row(n)' = y[2]
    <3>1. Tid(n)' = Tid(n) /\ Row(n)' = Row(n) BY <1>6, FilesEq DEF QueryStep
    <3>2. CASE c.live # <<>> BY <1>1, <1>5, <1>10, <2>3, <3>1, <3>2
    <3>3. CASE c.live = <<>>
      <4>1. n \in live BY <1>5, <1>14, <2>3, <3>3
      <4>2. heap[y[1]].row = y[2] BY <1>1, <1>8, <2>3 DEF SnapOk
      <4> QED BY <1>12, <2>3, <3>1, <4>1, <4>2 DEF Holds
    <3> QED BY <3>2, <3>3
  <2>4. PICK K : K = 0..(c.count - 1) OBVIOUS
  <2>5. ReadOk(H, b, K)'
    <3>1. PICK g : g = op[b].meta.deltaGen OBVIOUS
    <3>2. g \in 0..meta.deltaGen /\ op[b].meta = H[g].meta /\ DueOk(H, b, g, K)
      BY <1>10, <2>4, <3>1 DEF ReadOk
    <3>3. ASSUME NEW y \in op[b].due
          PROVE  /\ y \in op[b].snap /\ HasTerm(rows'[y[2]], op[b].term)
                 /\ \E n \in K : NodeOf(n, y[1], y[2])' /\ Found(H, n, g)'
      <4>1. PICK n \in K : NodeOf(n, y[1], y[2]) /\ Found(H, n, g) BY <3>2 DEF DueOk
      <4>2. NodeOf(n, y[1], y[2])' /\ Found(H, n, g)' BY <1>6, <4>1, FilesEq DEF QueryStep
      <4> QED BY <1>1, <3>2, <4>2 DEF DueOk
    <3>4. DueOk(H, b, g, K)' BY <1>1, <3>3 DEF DueOk
    <3> QED BY <1>1, <3>1, <3>2, <3>4 DEF ReadOk
  <2>6. ReadOk(H, b, 0..(cache[b].count - 1))' BY <2>1, <2>4, <2>5 DEF ReadOk, DueOk
  <2> QED BY <1>1, <1>10, <2>1, <2>2, <2>3, <2>6 DEF OpenOk
<1>17. cache'[b].live # <<>>
  <2>1. <<live>> # <<>> OBVIOUS
  <2>2. d.live = <<live>> BY <1>14
  <2>3. (cache'[b] = c /\ c.live # <<>>) \/ cache'[b] = d BY <1>5
  <2> QED BY ONLY <2>1, <2>2, <2>3
<1>18. QueryOk(H, b)' BY <1>1, <1>4, <1>8, <1>9, <1>16, <1>17 DEF QueryOk
<1>19. cache' = [a \in Backends |-> cache'[a]] BY <1>1, <1>3
<1>20. op' = [a \in Backends |-> op'[a]] /\ pc' = [p \in Backends \cup {Vacuum} |-> pc'[p]] BY <1>1, <1>3
<1>21. bounds' \in [new : Nat, queries : Nat, deletes : Nat, vacuums : Nat, cancels : Nat] BY <1>1, <1>3
<1> QED BY <1>6, <1>7, <1>15, <1>18, <1>19, <1>20, <1>21, GoodQuery

\* The records a query scores: those of its chain whose nodes it takes for
\* live, and all of them that its metadata had
QueryRecs(b) ==
  LET c == cache[b]
  IN IF c.delta # <<>> THEN c.delta[1] ELSE LiveRecords(op[b].meta.deltaStart, c.live[1])
LEMMA QueryRecords ==
  ASSUME NEW o, NEW H, Good(o, H), NEW b \in Backends, pc[b] = "score", NEW recs, recs = QueryRecs(b)
  PROVE  /\ recs \subseteq {p \in Of(o, op[b].meta.deltaStart) : Rec(p).node \in cache[b].live[1]}
         /\ \A p \in H[op[b].meta.deltaGen].recs : Rec(p).node \in cache[b].live[1] => p \in recs
         /\ recs \subseteq Spots /\ cache[b].base \in 1..Len(base)
         /\ cache[b].base = H[op[b].meta.deltaGen].meta.base /\ Apart(base[cache[b].base], recs)
<1> DEFINE c == cache[b]
           m == op[b].meta
           g == m.deltaGen
           L == c.live[1]
<1>0. Typed /\ Pages(o) /\ History(o, H) /\ QueryOk(H, b) /\ CacheOk(o, H, c) BY DEF Good, Shape
<1>1. OpenOk(H, b) BY <1>0 DEF QueryOk, QueryPcs
<1>2. /\ c # NoCache /\ c.key[1].deltaGen = g /\ g \in 0..meta.deltaGen /\ m = H[g].meta
  BY <1>1 DEF OpenOk, ReadOk
<1>3. c.base = H[g].meta.base /\ (c.delta # <<>> => DeltaOk(o, H[g], c)) BY <1>0, <1>2 DEF CacheOk
<1>4. MetaOk(o, m) /\ H[g].recs \subseteq Of(o, m.deltaStart) BY <1>0, <1>2 DEF History
<1>5. RecordsAt(m.deltaStart) = Of(o, m.deltaStart)
  <2>1. dpage \in Seq(PageType) BY <1>0 DEF Typed
  <2>2. m.deltaStart \in Nat /\ (m.deltaStart # Nil => m.deltaStart \in Blocks /\ o[m.deltaStart] = m.deltaStart)
    BY <1>4 DEF MetaOk, MetaType
  <2> HIDE DEF m
  <2> QED BY <1>0, <2>1, <2>2, RecordsOf
<1>6. /\ recs \subseteq {p \in Of(o, m.deltaStart) : Rec(p).node \in L}
      /\ \A p \in H[g].recs : Rec(p).node \in L => p \in recs
  <2>1. CASE c.delta # <<>>
    <3>1. recs = c.delta[1] BY <2>1 DEF QueryRecs
    <3> QED BY <1>2, <1>3, <2>1, <3>1 DEF DeltaOk
  <2>2. CASE c.delta = <<>>
    <3>1. recs = LiveRecords(m.deltaStart, L) BY <2>2 DEF QueryRecs
    <3>2. recs = {p \in Of(o, m.deltaStart) : Rec(p).node \in L} BY <1>5, <3>1 DEF LiveRecords
    <3> QED BY <1>4, <3>2
  <2> QED BY <2>1, <2>2
<1>7. Of(o, m.deltaStart) \subseteq Spots BY DEF Of
<1>8. m.base \in 1..Len(base) /\ Apart(base[m.base], Of(o, m.deltaStart)) BY <1>4 DEF MetaOk
<1>9. Apart(base[m.base], recs) BY <1>6, <1>8 DEF Apart
<1> QED BY <1>2, <1>3, <1>6, <1>7, <1>8, <1>9

\* What the scoring loops return
Results(b, recs) ==
  LET c == cache[b]
      S(n) == Scored(n, op[b].term, base[c.base], c.live[1], recs)
  IN {[tid |-> NodeState(n).tid, row |-> NodeState(n).row, times |-> S(n)] :
      n \in {n \in 0..(c.count - 1) : S(n) > 0}}
Answers(b, R) ==
  /\ R \subseteq [tid : Tids, row : Nat, times : Nat]
  /\ \A y \in op[b].due : \E r \in R : y = <<r.tid, r.row>>
  /\ \A r \in R : /\ r.times = 1
                  /\ \A y \in op[b].snap : r.tid = y[1] => r.row = y[2]
LEMMA ResultsRight ==
  ASSUME NEW o, NEW H, Good(o, H), NEW b \in Backends, pc[b] = "score", NEW recs, recs = QueryRecs(b)
  PROVE  Answers(b, Results(b, recs))
<1> DEFINE c == cache[b]
           w == op[b].term
           g == op[b].meta.deltaGen
           L == c.live[1]
           S(n) == Scored(n, w, base[c.base], L, recs)
<1>0. Typed /\ Turns /\ Docs /\ QueryOk(H, b) /\ CacheOk(o, H, c) BY DEF Good, Shape
<1>1. OpenOk(H, b) /\ c.live # <<>> BY <1>0 DEF QueryOk, QueryPcs
<1>2. /\ c # NoCache /\ DueOk(H, b, g, 0..(c.count - 1))
      /\ \A y \in op[b].snap : \A n \in L : Tid(n) = y[1] => Row(n) = y[2]
  BY <1>1 DEF OpenOk, ReadOk
<1>3. c.count \in Nat /\ c.count <= Count /\ LiveOk(c) BY <1>0, <1>1, <1>2 DEF CacheOk
<1>4. op[b] \in QueryOp BY <1>0, OwnQuery DEF QueryPcs
<1>5. w \in Terms /\ op[b].due \subseteq Version BY <1>4 DEF QueryOp
<1>6. 0..(c.count - 1) \subseteq Nodes /\ Nodes \subseteq NodeIds
  <2>1. 0..(c.count - 1) \subseteq Nodes BY <1>0, <1>3, Numbers DEF Nodes
  <2> QED BY <1>0, <2>1, NodesAreIds
<1>7. /\ recs \subseteq Spots /\ c.base \in 1..Len(base) /\ Apart(base[c.base], recs)
      /\ c.base = H[g].meta.base
      /\ \A p \in recs : Rec(p).node \in L
      /\ \A p \in H[g].recs : Rec(p).node \in L => p \in recs
  BY QueryRecords
<1>8. ASSUME NEW n \in 0..(c.count - 1)
      PROVE  /\ S(n) \in {0, 1}
             /\ S(n) = 1 <=> \/ n \in L /\ base[c.base].len[n] # 0 /\ w \in TextOf(n)
                             \/ \E p \in recs : Rec(p).node = n /\ w \in Rec(p).text
  <2>1. n \in NodeIds BY <1>6
  <2>2. PICK k : k = c.base OBVIOUS
  <2>3. k \in 1..Len(base) /\ Apart(base[k], recs) /\ recs \subseteq Spots /\ Docs BY <1>0, <1>7, <2>2
  <2>4. w \in Terms BY <1>5
  <2>5. S(n) = Scored(n, w, base[k], L, recs) BY <2>2
  <2> HIDE DEF c, w, L, S
  <2>6. Once(Scored(n, w, base[k], L, recs), n, w, k, L, recs)
    BY ONLY <2>1, <2>3, <2>4, ScoredOnce, Zenon
  <2> QED BY <2>2, <2>5, <2>6 DEF Once
<1>9. PICK k : k = c.count - 1 OBVIOUS
<1>10. Results(b, recs) = {[tid |-> Tid(n), row |-> Row(n), times |-> S(n)] : n \in {n \in 0..k : S(n) > 0}}
  BY <1>9 DEF Results, Tid, Row
<1>11. ASSUME NEW r \in Results(b, recs)
       PROVE  /\ r \in [tid : Tids, row : Nat, times : Nat] /\ r.times = 1
              /\ \A y \in op[b].snap : r.tid = y[1] => r.row = y[2]
  <2>1. PICK n \in 0..k : r = [tid |-> Tid(n), row |-> Row(n), times |-> S(n)] /\ S(n) > 0
    BY <1>10
  <2>2. S(n) = 1 BY <1>8, <1>9, <2>1
  <2>3. n \in L
    <3>1. \/ n \in L
          \/ \E p \in recs : Rec(p).node = n
      <4> HIDE DEF S
      <4> QED BY <1>8, <1>9, <2>1, <2>2
    <3> QED BY <1>7, <3>1
  <2>4. Tid(n) \in Tids /\ Row(n) \in Nat BY <1>0, <1>6, <1>9, Numbers
  <2> HIDE DEF S
  <2> QED BY <1>2, <2>1, <2>2, <2>3, <2>4
<1>12. ASSUME NEW y \in op[b].due PROVE \E r \in Results(b, recs) : y = <<r.tid, r.row>>
  <2>1. y \in Tids \X Nat /\ HasTerm(rows[y[2]], w) BY <1>2, <1>5 DEF DueOk, Version
  <2>2. PICK n \in 0..(c.count - 1) : NodeOf(n, y[1], y[2]) /\ Found(H, n, g) BY <1>2 DEF DueOk
  <2>3. n \in Nodes /\ Tid(n) = y[1] /\ Row(n) = y[2] /\ ~Dead(n) BY <2>2 DEF NodeOf
  <2>4. n \in L BY <1>3, <2>3 DEF LiveOk
  <2>5. w \in TextOf(n) BY <2>1, <2>3 DEF HasTerm, TextOf
  <2>6. S(n) = 1
    <3>1. CASE base[H[g].meta.base].len[n] # 0 BY <1>7, <1>8, <2>4, <2>5, <3>1
    <3>2. CASE \E p \in H[g].recs : Rec(p).node = n
      <4>1. PICK p \in H[g].recs : Rec(p).node = n BY <3>2
      <4>2. p \in recs BY <1>7, <2>4, <4>1
      <4>3. w \in Rec(p).text BY <1>0, <1>7, <2>5, <4>1, <4>2 DEF Docs, RecOk
      <4> QED BY <1>8, <4>1, <4>2, <4>3
    <3> QED BY <2>2, <3>1, <3>2 DEF Found
  <2> DEFINE r == [tid |-> Tid(n), row |-> Row(n), times |-> S(n)]
  <2>7. r \in Results(b, recs)
    <3> HIDE DEF S
    <3>1. n \in {j \in 0..k : S(j) > 0} BY <1>9, <2>6
    <3> QED BY <1>10, <3>1
  <2>8. r.tid = y[1] /\ r.row = y[2] BY <2>3
  <2>9. y = <<y[1], y[2]>> BY <2>1
  <2> HIDE DEF r
  <2> QED BY <2>7, <2>8, <2>9
<1> QED BY <1>11, <1>12 DEF Answers

LEMMA A_Score ==
  ASSUME NEW o, NEW H, Good(o, H), NEW b \in Backends, NEW cached \in BOOLEAN, Score(b, cached)
  PROVE  Good(o, H)'
<1>c. PICK c : c = cache[b] OBVIOUS
<1>r. PICK recs : recs = QueryRecs(b) OBVIOUS
<1>R. PICK R : R = Results(b, recs) OBVIOUS
<1>d. PICK d : d = [c EXCEPT !.delta = <<recs>>] OBVIOUS
<1>0. Typed /\ QueryOk(H, b) /\ CacheOk(o, H, c) BY <1>c DEF Good, Shape
<1>1. /\ pc[b] = "score" /\ pc' = [pc EXCEPT ![b] = "done"]
      /\ cache' = (IF c.delta = <<>> /\ cached THEN [cache EXCEPT ![b] = d] ELSE cache)
      /\ op' = [op EXCEPT ![b] = [op[b] EXCEPT !.ret = R]]
      /\ graph' = graph /\ base' = base /\ dpage' = dpage /\ meta' = meta /\ heap' = heap /\ rows' = rows
      /\ cursor' = cursor /\ vac' = vac /\ bounds' = bounds
  BY <1>c, <1>r, <1>R, <1>d DEF Score, Goto, QueryRecs, Results
<1>2. op[b] \in QueryOp /\ ~Inserting(b) BY <1>0, <1>1, OwnQuery DEF QueryPcs
<1>3. /\ op = [a \in Backends |-> op[a]] /\ pc = [p \in Backends \cup {Vacuum} |-> pc[p]] /\ Vacuum # b
      /\ bounds \in [new : Nat, queries : Nat, deletes : Nat, vacuums : Nat, cancels : Nat]
      /\ cache = [a \in Backends |-> cache[a]]
  BY <1>0, Basics DEF Typed
<1>4. pc'[b] = "done" /\ op'[b] = [op[b] EXCEPT !.ret = R] BY <1>1, <1>3
<1>5. cache'[b] = IF c.delta = <<>> /\ cached THEN d ELSE c BY <1>1, <1>3, <1>c
<1>6. Answers(b, R) BY <1>1, <1>r, <1>R, ResultsRight
<1>7. /\ op'[b] \in QueryOp /\ op'[b].ret = R /\ op'[b].snap = op[b].snap /\ op'[b].due = op[b].due
  BY <1>2, <1>4, <1>6 DEF QueryOp, Answers
<1>8. QueryStep(b)
  <2>1. op'[b].kind # "insert" BY <1>7 DEF QueryOp
  <2>2. \A a \in Backends \ {b} : op'[a] = op[a] /\ pc'[a] = pc[a] /\ cache'[a] = cache[a] BY <1>1, <1>3
  <2>3. pc'[Vacuum] = pc[Vacuum] BY <1>1, <1>3
  <2> QED BY <1>1, <1>2, <1>4, <2>1, <2>2, <2>3 DEF QueryStep, FilesSame
<1>9. OpTyped(b)' BY <1>4, <1>7 DEF OpTyped, QueryPcs
<1>10. SnapOk(b) BY <1>0, <1>1 DEF QueryOk, QueryPcs
<1>11. SnapOk(b)' BY <1>1, <1>3, <1>7, <1>10 DEF SnapOk
<1>12. DoneOk(b)'
  <2>1. \A x : x \in Returned(b)' <=> \E r \in R : x = <<r.tid, r.row>> BY <1>7 DEF Returned
  <2>2. op[b].due \subseteq Returned(b)' BY <1>6, <2>1 DEF Answers
  <2>3. ASSUME NEW x \in Returned(b)', NEW y \in op[b].snap, x[1] = y[1] PROVE x[2] = y[2]
    <3>1. PICK r \in R : x = <<r.tid, r.row>> BY <2>1
    <3> QED BY <1>6, <2>3, <3>1 DEF Answers
  <2>4. \A r \in R : r.times = 1 BY <1>6 DEF Answers
  <2> QED BY <1>7, <2>2, <2>3, <2>4 DEF DoneOk
<1>13. QueryOk(H, b)' BY <1>4, <1>11, <1>12 DEF QueryOk
<1>14. CacheOk(o, H, cache[b])'
  <2>1. CASE ~(c.delta = <<>> /\ cached)
    <3>1. cache' = cache BY <1>1, <2>1
    <3> QED BY <1>8, <3>1, QuerySame
  <2>2. CASE c.delta = <<>> /\ cached
    <3>g. PICK g : g = c.key[1].deltaGen OBVIOUS
    <3>1. /\ c # NoCache /\ c.key[1].deltaGen = op[b].meta.deltaGen /\ op[b].meta = H[op[b].meta.deltaGen].meta
          /\ c.live # <<>>
      BY <1>0, <1>1, <1>c DEF QueryOk, QueryPcs, OpenOk, ReadOk
    <3>2. /\ c = [key |-> <<c.key[1]>>, base |-> c.base, count |-> c.count, live |-> c.live, delta |-> c.delta]
          /\ c.key[1].deltaGen \in 0..meta.deltaGen /\ c.base = H[c.key[1].deltaGen].meta.base
          /\ c.key[1].gen \in Nat /\ c.key[1].gen <= graph.gen
          /\ c.count \in Nat /\ c.count <= Count /\ c.key[1].count = c.count /\ LiveOk(c)
      BY <1>0, <3>1 DEF CacheOk
    <3>3. d = [key |-> <<c.key[1]>>, base |-> c.base, count |-> c.count, live |-> c.live, delta |-> <<recs>>]
      BY <1>d, <3>2
    <3>4. /\ d.key = <<c.key[1]>> /\ d.key[1] = c.key[1] /\ d.base = c.base /\ d.count = c.count
          /\ d.live = c.live /\ d.delta = <<recs>> /\ d.delta[1] = recs
      BY <3>3
    <3>5. d = [key |-> <<d.key[1]>>, base |-> d.base, count |-> d.count, live |-> d.live, delta |-> d.delta]
      BY <3>3, <3>4
    <3>6. LiveOk(d) BY <3>2, <3>4 DEF LiveOk
    <3>7. /\ recs \subseteq {p \in Of(o, H[g].meta.deltaStart) : Rec(p).node \in c.live[1]}
          /\ \A p \in H[g].recs : Rec(p).node \in c.live[1] => p \in recs
      BY <1>1, <1>c, <1>r, <3>1, <3>g, QueryRecords
    <3>8. DeltaOk(o, H[g], d) BY <3>1, <3>4, <3>7 DEF DeltaOk
    <3>9. CacheOk(o, H, d) BY <3>2, <3>4, <3>5, <3>6, <3>8, <3>g DEF CacheOk
    <3>10. FilesSame /\ heap' = heap /\ vac' = vac /\ pc'[Vacuum] = pc[Vacuum] BY <1>8 DEF QueryStep
    <3>11. CacheOk(o, H, d)' BY <3>9, <3>10, CacheSame
    <3>12. cache'[b] = d BY <1>5, <2>2
    <3> QED BY <3>11, <3>12
  <2> QED BY <2>1, <2>2
<1>15. cache' = [a \in Backends |-> cache'[a]] BY <1>1, <1>3
<1>16. op' = [a \in Backends |-> op'[a]] /\ pc' = [p \in Backends \cup {Vacuum} |-> pc'[p]] BY <1>1, <1>3
<1>17. bounds' \in [new : Nat, queries : Nat, deletes : Nat, vacuums : Nat, cancels : Nat] BY <1>1, <1>3
<1> QED BY <1>8, <1>9, <1>13, <1>14, <1>15, <1>16, <1>17, GoodQuery

-----------------------------------------------------------------------------
(* Inserts, deletes and VACUUM                                             *)

\* What the queries and the caches need of a step that is not theirs
KeptOn == graph'.gen = graph.gen => \A n \in Nodes : Kept(n) => Kept(n)'
Apart2(u, b) ==
  /\ InsertOk(u, b)' /\ CursorOk(u, b)' /\ cache'[b] \in {cache[b], NoCache}
  /\ pc'[b] \in QueryPcs => /\ op'[b] = op[b] /\ pc'[b] = pc[b] /\ cache'[b] = cache[b]
                            /\ SnapOk(b)' /\ Stays(b)
LEMMA RestFrame ==
  ASSUME NEW o, NEW H, NEW u, NEW J, Good(o, H), Typed', Turns', Grow(o, H, u, J),
         Pages(u)', Docs', History(u, J)', HeapOk(J)', VacOk(u)', FindsOn(H, J), KeptOn,
         \A b \in Backends : Apart2(u, b)
  PROVE  Good(u, J)'
<1>0. Typed /\ History(o, H) /\ HeapOk(H) BY DEF Good, Shape
<1>1. ASSUME NEW b \in Backends
      PROVE  InsertOk(u, b)' /\ CursorOk(u, b)' /\ CacheOk(u, J, cache[b])' /\ QueryOk(J, b)'
  <2>1. CacheOk(o, H, cache[b]) /\ QueryOk(H, b) BY DEF Good, Shape
  <2>2. PICK c : c = cache[b] OBVIOUS
  <2>3. CacheOk(u, J, c)' BY <1>0, <2>1, <2>2, CacheGrows DEF KeptOn
  <2>4. CacheOk(u, J, NoCache)' BY DEF CacheOk
  <2>5. CacheOk(u, J, cache[b])' BY <2>2, <2>3, <2>4 DEF Apart2
  <2>6. QueryOk(J, b)'
    <3>1. CASE pc'[b] \in QueryPcs BY <1>0, <2>1, <3>1, QueryGrows DEF Apart2
    <3>2. CASE pc'[b] \notin QueryPcs BY <3>2 DEF QueryOk
    <3> QED BY <3>1, <3>2
  <2> QED BY <2>5, <2>6 DEF Apart2
<1> QED BY <1>1 DEF Good, Shape

LEMMA FindsSame ==
  ASSUME FilesSame, NEW H PROVE FindsOn(H, H)
<1>1. \A n : Found(H, n, meta.deltaGen) => Found(H, n, meta.deltaGen)' BY DEF FilesSame, Found, Rec
<1> QED BY <1>1 DEF FindsOn

\* VACUUM reads, or ends, and marks no node
Counters == [new : Nat, queries : Nat, deletes : Nat, vacuums : Nat, cancels : Nat]
VacStep ==
  /\ FilesSame /\ UNCHANGED <<heap, cache, cursor, op>> /\ pc[Vacuum] # "reap"
  /\ pc' = [pc EXCEPT ![Vacuum] = pc'[Vacuum]]
  /\ bounds' \in Counters /\ bounds'.new = bounds.new
LEMMA VacFrame ==
  ASSUME NEW o, NEW H, Good(o, H), VacStep, VacTyped', VacOk(o)', Compacting' => UpdateLockFree,
         \A b \in Backends : pc[b] \in QueryPcs => SnapOk(b)'
  PROVE  Good(o, H)'
<1>0. Typed /\ Turns /\ Pages(o) /\ Docs /\ History(o, H) /\ HeapOk(H) BY DEF Good, Shape
<1>1. /\ FilesSame /\ heap' = heap /\ cache' = cache /\ cursor' = cursor /\ op' = op
      /\ pc[Vacuum] # "reap" /\ pc' = [pc EXCEPT ![Vacuum] = pc'[Vacuum]]
      /\ bounds' \in Counters /\ bounds'.new = bounds.new
  BY DEF VacStep
<1>2. pc = [p \in Backends \cup {Vacuum} |-> pc[p]] /\ Vacuum \notin Backends BY <1>0, Basics DEF Typed
<1>3. \A b \in Backends : pc'[b] = pc[b] BY <1>1, <1>2
<1>4. pc' = [p \in Backends \cup {Vacuum} |-> pc'[p]] BY <1>1, <1>2
<1>5. Typed'
  <2>1. \A b \in Backends : OpTyped(b)' BY <1>0, <1>1, <1>3 DEF Typed, OpTyped
  <2>2. /\ graph' = graph /\ base' = base /\ dpage' = dpage /\ meta' = meta /\ rows' = rows BY <1>1 DEF FilesSame
  <2> QED BY <1>0, <1>1, <1>4, <2>1, <2>2 DEF Typed, Counters
<1>6. Turns'
  <2>1. \A b \in Backends : Inserting(b)' <=> Inserting(b) BY <1>1 DEF Inserting
  <2>2. Count' = Count /\ rows' = rows BY <1>1, FilesEq
  <2>3. Compacting' => UpdateLockFree' BY <2>1 DEF UpdateLockFree
  <2> QED BY <1>0, <1>1, <1>3, <2>1, <2>2, <2>3 DEF Turns
<1>7. Pages(o)' /\ Docs' /\ History(o, H)' /\ Grow(o, H, o, H) BY <1>0, <1>1, SameFiles
<1>8. HeapOk(H)' /\ \A n : Holds(n)' <=> Holds(n) BY <1>0, <1>1, SameHeap
<1>9. KeptOn BY <1>1, <1>8, FilesEq DEF KeptOn, Kept
<1>10. FindsOn(H, H) BY <1>1, FindsSame
<1>11. ASSUME NEW b \in Backends PROVE Apart2(o, b)
  <2>1. InsertOk(o, b) /\ CursorOk(o, b) /\ QueryOk(H, b) BY DEF Good, Shape
  <2>2. InsertOk(o, b)' BY <1>1, <1>3, <2>1, SameInsert
  <2>3. CursorOk(o, b)' BY <1>1, <2>1, SameCursor
  <2>4. Stays(b) BY <1>1, FilesEq DEF Stays, NodeOf
  <2> QED BY <1>1, <1>3, <2>2, <2>3, <2>4 DEF Apart2
<1> QED BY <1>5, <1>6, <1>7, <1>8, <1>9, <1>10, <1>11, RestFrame

LEMMA A_BeginVacuum ==
  ASSUME NEW o, NEW H, Good(o, H), BeginVacuum PROVE Good(o, H)'
<1>0. Typed BY DEF Good
<1>1. /\ pc[Vacuum] = "idle" /\ bounds' = [bounds EXCEPT !.vacuums = @ + 1]
      /\ vac' = [dead |-> Removable, changed |-> FALSE]
      /\ pc' = [pc EXCEPT ![Vacuum] = IF Removable = {} THEN "cleanup" ELSE "mark"]
      /\ UNCHANGED <<graph, base, dpage, meta, heap, rows, cache, cursor, op>>
  BY DEF BeginVacuum, Goto
<1>2. pc = [p \in Backends \cup {Vacuum} |-> pc[p]] /\ Vacuum \notin Backends /\ bounds \in Counters
  BY <1>0, Basics DEF Typed, Counters
<1>3. pc'[Vacuum] \in {"cleanup", "mark"} /\ pc' = [pc EXCEPT ![Vacuum] = pc'[Vacuum]] BY <1>1, <1>2
<1>4. bounds' \in Counters /\ bounds'.new = bounds.new BY <1>1, <1>2 DEF Counters
<1>5. VacStep BY <1>1, <1>3, <1>4 DEF VacStep, FilesSame
<1>6. vac' \in VacMark /\ vac'.dead = Removable BY <1>1 DEF VacMark, Removable
<1>7. VacTyped' BY <1>3, <1>6 DEF VacTyped
<1>8. ~Compacting' BY <1>3 DEF Compacting
<1>9. VacOk(o)' BY <1>1, <1>3, <1>6, <1>8 DEF VacOk, Removable
<1>10. ASSUME NEW b \in Backends, pc[b] \in QueryPcs PROVE SnapOk(b)'
  <2>1. SnapOk(b) BY <1>10 DEF Good, Shape, QueryOk
  <2>2. op[b] \in QueryOp BY <1>0, <1>10, OwnQuery
  <2>3. ASSUME NEW y \in op[b].snap PROVE y[1] \notin Removable
    <3>1. y = <<y[1], y[2]>> BY <2>2 DEF QueryOp, Version
    <3>2. heap[y[1]].row = y[2] BY <2>1 DEF SnapOk
    <3>3. op[b].kind = "query" BY <2>2 DEF QueryOp
    <3> QED BY <3>1, <3>2, <3>3 DEF Removable
  <2> QED BY <1>1, <1>6, <2>1, <2>3 DEF SnapOk
<1> QED BY <1>5, <1>7, <1>8, <1>9, <1>10, VacFrame

\* Snapshots when VACUUM takes no TIDs away
LEMMA SnapSame ==
  ASSUME NEW o, NEW H, Good(o, H), heap' = heap, op' = op, pc'[Vacuum] \notin {"mark", "reap"},
         NEW b \in Backends, pc[b] \in QueryPcs
  PROVE  SnapOk(b)'
<1>1. SnapOk(b) BY DEF Good, Shape, QueryOk
<1> QED BY <1>1 DEF SnapOk

LEMMA A_BeginCompact ==
  ASSUME NEW o, NEW H, Good(o, H), Orderly, BeginCompact PROVE Good(o, H)'
<1>0. Typed BY DEF Good
<1>1. /\ pc[Vacuum] = "cleanup" /\ UpdateLockFree
      /\ \/ vac' = [meta |-> meta, live |-> {}, recs |-> {}] /\ pc' = [pc EXCEPT ![Vacuum] = "nodes"]
         \/ vac' = NoVacuum /\ pc' = [pc EXCEPT ![Vacuum] = "idle"]
      /\ UNCHANGED <<graph, base, dpage, meta, heap, rows, cache, cursor, op, bounds>>
  BY DEF BeginCompact, Goto, Orderly
<1>2. /\ pc = [p \in Backends \cup {Vacuum} |-> pc[p]] /\ Vacuum \notin Backends /\ bounds \in Counters
      /\ meta \in MetaType
  BY <1>0, Basics DEF Typed, Counters
<1>3. /\ pc' = [pc EXCEPT ![Vacuum] = pc'[Vacuum]]
      /\ \/ pc'[Vacuum] = "nodes" /\ vac' = [meta |-> meta, live |-> {}, recs |-> {}]
         \/ pc'[Vacuum] = "idle" /\ vac' = NoVacuum
  BY <1>1, <1>2
<1>5. VacStep BY <1>1, <1>2, <1>3 DEF VacStep, FilesSame
<1>6. VacTyped' BY <1>2, <1>3 DEF VacTyped, VacMerge
<1>7. VacOk(o)' BY <1>1, <1>3 DEF VacOk, Compacting
<1>8. pc'[Vacuum] \notin {"mark", "reap"} BY <1>3
<1>9. \A b \in Backends : pc[b] \in QueryPcs => SnapOk(b)' BY <1>1, <1>8, SnapSame
<1> QED BY <1>1, <1>5, <1>6, <1>7, <1>9, VacFrame

LEMMA A_ReadNodeStates ==
  ASSUME NEW o, NEW H, Good(o, H), ReadNodeStates PROVE Good(o, H)'
<1>0. Typed /\ Turns /\ VacOk(o) BY DEF Good, Shape
<1>1. /\ pc[Vacuum] = "nodes" /\ vac' = [vac EXCEPT !.live = LiveBelow(Count)]
      /\ pc' = [pc EXCEPT ![Vacuum] = "collect"]
      /\ UNCHANGED <<graph, base, dpage, meta, heap, rows, cache, cursor, op, bounds>>
  BY DEF ReadNodeStates, Goto
<1>2. /\ pc = [p \in Backends \cup {Vacuum} |-> pc[p]] /\ Vacuum \notin Backends /\ bounds \in Counters
  BY <1>0, Basics DEF Typed, Counters
<1>3. pc' = [pc EXCEPT ![Vacuum] = pc'[Vacuum]] /\ pc'[Vacuum] = "collect" BY <1>1, <1>2
<1>4. VacStep BY <1>1, <1>2, <1>3 DEF VacStep, FilesSame
<1>5. Compacting /\ UpdateLockFree /\ vac.meta = meta BY <1>0, <1>1 DEF Compacting, Turns, VacOk
<1>6. vac \in VacMerge BY <1>0, <1>1 DEF Typed, VacTyped
<1>7. LiveBelow(Count) = {n \in Nodes : ~Dead(n)} BY DEF LiveBelow, Nodes, Dead
<1>8. LiveBelow(Count) \subseteq Nat BY <1>7 DEF Nodes
<1>9. vac' \in VacMerge /\ vac'.live = {n \in Nodes : ~Dead(n)} /\ vac'.meta = meta
  BY <1>1, <1>5, <1>6, <1>7, <1>8 DEF VacMerge
<1>10. VacTyped' BY <1>3, <1>9 DEF VacTyped
<1>11. {n \in Nodes : ~Dead(n)}' = {n \in Nodes : ~Dead(n)} BY <1>4, FilesEq DEF VacStep
<1>12. VacOk(o)' BY <1>1, <1>3, <1>9, <1>11 DEF VacOk, Compacting
<1>13. pc'[Vacuum] \notin {"mark", "reap"} BY <1>3
<1>14. \A b \in Backends : pc[b] \in QueryPcs => SnapOk(b)' BY <1>1, <1>13, SnapSame
<1> QED BY <1>4, <1>5, <1>10, <1>12, <1>14, VacFrame

LEMMA MetaNow ==
  ASSUME Typed, NEW o, NEW H, History(o, H)
  PROVE  /\ MetaOk(o, meta) /\ H[meta.deltaGen].meta = meta /\ meta \in MetaType
         /\ H[meta.deltaGen].recs \subseteq Of(o, meta.deltaStart)
<1>1. meta.deltaGen \in 0..meta.deltaGen BY Numbers
<1>2. \A g \in 0..meta.deltaGen : MetaOk(o, H[g].meta) /\ H[g].recs \subseteq Of(o, H[g].meta.deltaStart)
  BY DEF History
<1>3. H[meta.deltaGen].meta = meta BY DEF History
<1>4. MetaOk(o, H[meta.deltaGen].meta) /\ H[meta.deltaGen].recs \subseteq Of(o, H[meta.deltaGen].meta.deltaStart)
  BY ONLY <1>1, <1>2, Zenon
<1>5. meta \in MetaType BY DEF Typed
<1> QED BY <1>3, <1>4, <1>5

LEMMA A_CollectDelta ==
  ASSUME NEW o, NEW H, Good(o, H), CollectDelta PROVE Good(o, H)'
<1>0. Typed /\ Turns /\ VacOk(o) /\ Pages(o) /\ History(o, H) BY DEF Good, Shape
<1>r. PICK recs : recs = LiveRecords(vac.meta.deltaStart, vac.live) OBVIOUS
<1>1. /\ pc[Vacuum] = "collect" /\ vac' = [vac EXCEPT !.recs = recs]
      /\ pc' = [pc EXCEPT ![Vacuum] = "replace"]
      /\ UNCHANGED <<graph, base, dpage, meta, heap, rows, cache, cursor, op, bounds>>
  BY <1>r DEF CollectDelta, Goto
<1>2. /\ pc = [p \in Backends \cup {Vacuum} |-> pc[p]] /\ Vacuum \notin Backends /\ bounds \in Counters
      /\ dpage \in Seq(PageType) /\ meta.deltaGen \in Nat
  BY <1>0, Basics DEF Typed, Counters, MetaType
<1>3. pc' = [pc EXCEPT ![Vacuum] = pc'[Vacuum]] /\ pc'[Vacuum] = "replace" BY <1>1, <1>2
<1>4. VacStep BY <1>1, <1>2, <1>3 DEF VacStep, FilesSame
<1>5. /\ Compacting /\ UpdateLockFree /\ vac.meta = meta /\ vac.live = {n \in Nodes : ~Dead(n)}
  BY <1>0, <1>1 DEF Compacting, Turns, VacOk
<1>6. vac \in VacMerge BY <1>0, <1>1 DEF Typed, VacTyped
<1>7. recs = {p \in Of(o, meta.deltaStart) : Rec(p).node \in vac.live}
  <2>1. MetaOk(o, meta) BY <1>0, MetaNow
  <2>2. meta.deltaStart \in Nat /\ (meta.deltaStart # Nil => meta.deltaStart \in Blocks /\ o[meta.deltaStart] = meta.deltaStart)
    BY <2>1 DEF MetaOk, MetaType
  <2>3. RecordsAt(meta.deltaStart) = Of(o, meta.deltaStart) BY <1>0, <1>2, <2>2, RecordsOf
  <2> QED BY <1>5, <1>r, <2>3 DEF LiveRecords
<1>8. recs \subseteq Nat \X Nat BY <1>7 DEF Of, Spots
<1>9. vac' \in VacMerge /\ vac'.live = vac.live /\ vac'.meta = meta /\ vac'.recs = recs
  BY <1>1, <1>5, <1>6, <1>8 DEF VacMerge
<1>10. VacTyped' BY <1>3, <1>9 DEF VacTyped
<1>11. {n \in Nodes : ~Dead(n)}' = {n \in Nodes : ~Dead(n)} BY <1>4, FilesEq DEF VacStep
<1>12. {p \in Of(o, meta.deltaStart) : Rec(p).node \in vac.live}' = recs
  <2>1. Of(o, meta.deltaStart)' = Of(o, meta.deltaStart) BY <1>1 DEF Of, Spots, Blocks
  <2>2. \A p : Rec(p)' = Rec(p) BY <1>1 DEF Rec
  <2> QED BY <1>7, <1>9, <2>1, <2>2
<1>13. VacOk(o)' BY <1>1, <1>3, <1>5, <1>9, <1>11, <1>12 DEF VacOk, Compacting
<1>14. pc'[Vacuum] \notin {"mark", "reap"} BY <1>3
<1>15. \A b \in Backends : pc[b] \in QueryPcs => SnapOk(b)' BY <1>1, <1>14, SnapSame
<1> QED BY <1>4, <1>5, <1>10, <1>13, <1>15, VacFrame

LEMMA A_CancelVacuum ==
  ASSUME NEW o, NEW H, Good(o, H), Orderly, Cancel(Vacuum) PROVE Good(o, H)'
<1>0. Typed BY DEF Good
<1>1. /\ pc[Vacuum] # "reap" /\ bounds' = [bounds EXCEPT !.cancels = @ + 1]
      /\ vac' = NoVacuum /\ pc' = [pc EXCEPT ![Vacuum] = "idle"]
      /\ UNCHANGED <<graph, base, dpage, meta, heap, rows, cache, cursor, op>>
  BY DEF Cancel, Goto, Orderly
<1>2. pc = [p \in Backends \cup {Vacuum} |-> pc[p]] /\ Vacuum \notin Backends /\ bounds \in Counters
  BY <1>0, Basics DEF Typed, Counters
<1>3. pc'[Vacuum] = "idle" /\ pc' = [pc EXCEPT ![Vacuum] = pc'[Vacuum]] BY <1>1, <1>2
<1>4. bounds' \in Counters /\ bounds'.new = bounds.new BY <1>1, <1>2 DEF Counters
<1>5. VacStep BY <1>1, <1>3, <1>4 DEF VacStep, FilesSame
<1>6. VacTyped' /\ ~Compacting' /\ VacOk(o)' BY <1>1, <1>3 DEF VacTyped, Compacting, VacOk
<1>7. pc'[Vacuum] \notin {"mark", "reap"} BY <1>3
<1>8. \A b \in Backends : pc[b] \in QueryPcs => SnapOk(b)' BY <1>1, <1>7, SnapSame
<1> QED BY <1>5, <1>6, <1>8, VacFrame

\* What was right of documents and metadata is right after they have grown
LEMMA DocsGrow ==
  ASSUME Typed, NEW o, NEW H, NEW u, NEW J, Grow(o, H, u, J), Docs
  PROVE  /\ \A n \in Nodes : Row(n)' \in 1..Len(rows') /\ TextOf(n)' = TextOf(n)
         /\ \A p \in Spots : RecOk(p)'
         /\ \A B : BaseOk(B) => BaseOk(B)'
<1>0. Len(rows) \in Nat BY Numbers
<1>1. ASSUME NEW n \in Nodes PROVE Row(n)' \in 1..Len(rows') /\ TextOf(n)' = TextOf(n) /\ n \in Nodes'
  <2>1. Row(n) \in 1..Len(rows) BY DEF Docs
  <2>2. Row(n)' = Row(n) /\ Len(rows) <= Len(rows') /\ rows'[Row(n)] = rows[Row(n)] /\ n \in Nodes'
    BY <2>1 DEF Grow
  <2>3. Row(n)' \in 1..Len(rows')
    <3>1. PICK i : i = Row(n) OBVIOUS
    <3>2. i \in 1..Len(rows) /\ Len(rows) <= Len(rows') BY <2>1, <2>2, <3>1
    <3>3. i \in 1..Len(rows') BY <1>0, <3>2
    <3> QED BY <2>2, <3>1, <3>3
  <2> QED BY <2>2, <2>3 DEF TextOf
<1>2. ASSUME NEW p \in Spots PROVE RecOk(p)'
  <2>1. RecOk(p) /\ Rec(p)' = Rec(p) BY DEF Docs, Grow
  <2> QED BY <1>1, <2>1 DEF RecOk
<1>3. ASSUME NEW B, BaseOk(B) PROVE BaseOk(B)' BY <1>1, <1>3 DEF BaseOk
<1> QED BY <1>1, <1>2, <1>3

NewApart == \A p \in Spots' \ Spots, k \in 1..Len(base) : base[k].len[Rec(p)'.node] = 0
LEMMA HistoryGrows ==
  ASSUME Typed, NEW o, NEW H, NEW u, NEW J, Grow(o, H, u, J), History(o, H), NewApart,
         NEW g \in 0..meta.deltaGen
  PROVE  /\ MetaOk(u, J[g].meta)' /\ J[g].meta.deltaGen = g
         /\ J[g].recs \subseteq Of(u, J[g].meta.deltaStart)'
<1>m. PICK m : m = H[g].meta OBVIOUS
<1>1. J[g] = H[g] BY DEF Grow
<1>2. MetaOk(o, m) /\ m.deltaGen = g /\ H[g].recs \subseteq Of(o, m.deltaStart) BY <1>m DEF History
<1>3. Of(o, m.deltaStart) \subseteq Of(u, m.deltaStart)' BY OfGrows
<1>4. m.base \in 1..Len(base) /\ Len(base) \in Nat /\ Len(base) <= Len(base') /\ base'[m.base] = base[m.base]
  BY <1>2, Numbers DEF MetaOk, Grow
<1>5. m.base \in 1..Len(base')
  <2>1. PICK k : k = m.base OBVIOUS
  <2>2. k \in 1..Len(base') BY <1>4, <2>1
  <2> QED BY <2>1, <2>2
<1>6. m.deltaStart # Nil => m.deltaStart \in Blocks' /\ u[m.deltaStart] = m.deltaStart
  BY <1>2 DEF MetaOk, Grow
<1>7. ASSUME NEW p \in Of(u, m.deltaStart)' PROVE base[m.base].len[Rec(p)'.node] = 0
  <2>1. p \in Spots' /\ u[p[1]] = m.deltaStart BY DEF Of
  <2>2. CASE p \in Spots
    <3>1. p[1] \in Blocks BY <2>2 DEF Spots
    <3>2. p \in Of(o, m.deltaStart) BY <2>1, <2>2, <3>1 DEF Of, Grow
    <3> QED BY <1>2, <2>2, <3>2 DEF MetaOk, Apart, Grow
  <2>3. CASE p \notin Spots BY <1>4, <2>1, <2>3 DEF NewApart
  <2> QED BY <2>2, <2>3
<1>8. MetaOk(u, m)' BY <1>2, <1>4, <1>5, <1>6, <1>7 DEF MetaOk, Apart
<1> QED BY <1>1, <1>2, <1>3, <1>8, <1>m

LEMMA HistorySame ==
  ASSUME Typed, NEW o, NEW H, NEW u, Grow(o, H, u, H), History(o, H), NewApart, meta' = meta
  PROVE  History(u, H)'
<1>1. ASSUME NEW g \in 0..meta'.deltaGen
      PROVE  /\ MetaOk(u, H[g].meta)' /\ H[g].meta.deltaGen = g
             /\ H[g].recs \subseteq Of(u, H[g].meta.deltaStart)'
  <2>1. g \in 0..meta.deltaGen OBVIOUS
  <2> QED BY <2>1, HistoryGrows
<1>2. H = [g \in 0..meta'.deltaGen |-> H[g]] /\ H[meta'.deltaGen].meta = meta' BY DEF History
<1> HIDE DEF MetaOk, Of
<1> QED BY <1>1, <1>2, Zenon DEF History

\* Another metadata is written
Longer(H, h) == [g \in 0..meta'.deltaGen |-> IF g = meta'.deltaGen THEN h ELSE H[g]]
LEMMA HistoryMore ==
  ASSUME Typed, NEW o, NEW H, NEW u, NEW h, NEW J, J = Longer(H, h), Grow(o, H, u, J), History(o, H), NewApart,
         meta'.deltaGen = meta.deltaGen + 1, h.meta = meta', MetaOk(u, h.meta)',
         h.recs \subseteq Of(u, h.meta.deltaStart)'
  PROVE  History(u, J)'
<1>G. PICK G : G = meta'.deltaGen OBVIOUS
<1>0. meta.deltaGen \in Nat /\ G = meta.deltaGen + 1 BY <1>G, Numbers
<1>1. J = [g \in 0..G |-> IF g = G THEN h ELSE H[g]] BY <1>G DEF Longer
<1>2. G \in 0..G /\ J[G] = h BY <1>0, <1>1
<1>3. ASSUME NEW g \in 0..G
      PROVE  MetaOk(u, J[g].meta)' /\ J[g].meta.deltaGen = g /\ J[g].recs \subseteq Of(u, J[g].meta.deltaStart)'
  <2>1. CASE g = G BY <1>2, <1>G, <2>1
  <2>2. CASE g # G
    <3>1. g \in 0..meta.deltaGen BY <1>0, <2>2
    <3> QED BY <3>1, HistoryGrows
  <2> QED BY <2>1, <2>2
<1>4. J = [g \in 0..G |-> J[g]] BY <1>1
<1>5. J[G].meta = meta' BY <1>2
<1> HIDE DEF MetaOk, Of
<1> QED BY <1>3, <1>4, <1>5, <1>G, Zenon DEF History

\* The document of a live row nobody touches is still found
LEMMA LiveGrows ==
  ASSUME Typed, NEW o, NEW H, NEW u, NEW J, Grow(o, H, u, J), HeapOk(H), FindsOn(H, J), NEW t \in Tids,
         heap[t].state = "live", heap'[t].row = heap[t].row, rows'[heap'[t].row] \notin {NoText, {}},
         \A n \in Nodes : Tid(n) = t /\ ~Dead(n) => ~Dead(n)'
  PROVE  \E n \in Nodes' : NodeOf(n, t, heap[t].row)' /\ Found(J, n, meta.deltaGen)'
<1>r. PICK r : r = heap[t].row OBVIOUS
<1>1. r \in 1..Len(rows)
  <2>1. r \in 0..Len(rows) /\ r # 0 BY <1>r DEF HeapOk
  <2> QED BY <2>1, Numbers
<1>2. rows'[r] = rows[r] BY <1>1 DEF Grow
<1>3. PICK n \in Nodes : NodeOf(n, t, r) /\ Found(H, n, meta.deltaGen) BY <1>2, <1>r DEF HeapOk
<1>4. ~Dead(n)' BY <1>3 DEF NodeOf
<1>5. Found(J, n, meta.deltaGen)' BY <1>2, <1>3, <1>4, <1>r DEF FindsOn, NodeOf, TextOf
<1>6. NodeOf(n, t, r)' BY <1>3, <1>4 DEF NodeOf, Grow
<1>7. NodeOf(n, t, heap[t].row)' BY <1>6, <1>r
<1> QED BY <1>3, <1>5, <1>7 DEF Grow

LEMMA CursorGrows ==
  ASSUME NEW o, NEW H, NEW u, NEW J, Grow(o, H, u, J), NEW b \in Backends, CursorOk(o, b), cursor'[b] = cursor[b]
  PROVE  CursorOk(u, b)'
BY DEF CursorOk, Grow

LEMMA A_RowDies ==
  ASSUME NEW o, NEW H, Good(o, H), NEW t \in Tids, RowDies(t) PROVE Good(o, H)'
<1>0. Typed /\ Turns /\ Pages(o) /\ Docs /\ History(o, H) /\ HeapOk(H) /\ VacOk(o) BY DEF Good, Shape
<1>1. /\ heap[t].state = "live" /\ heap' = [heap EXCEPT ![t].state = "dead"]
      /\ bounds' = [bounds EXCEPT !.deletes = @ + 1]
      /\ graph' = graph /\ base' = base /\ dpage' = dpage /\ meta' = meta /\ rows' = rows
      /\ cache' = cache /\ cursor' = cursor /\ op' = op /\ pc' = pc /\ vac' = vac
  BY DEF RowDies
<1>2. FilesSame BY <1>1 DEF FilesSame
<1>3. heap \in [Tids -> HeapType] /\ bounds \in Counters BY <1>0 DEF Typed, Counters
<1>4. /\ heap' \in [Tids -> HeapType] /\ heap'[t].state = "dead" /\ heap'[t].row = heap[t].row
      /\ \A x \in Tids : x # t => heap'[x] = heap[x]
  BY <1>1, <1>3 DEF HeapType
<1>5. bounds' \in Counters /\ bounds'.new = bounds.new BY <1>1, <1>3 DEF Counters
<1>6. Typed'
  <2>1. VacTyped' /\ \A b \in Backends : OpTyped(b)' BY <1>0, <1>1 DEF Typed, VacTyped, OpTyped
  <2> QED BY <1>0, <1>1, <1>4, <1>5, <2>1 DEF Typed, Counters
<1>7. Turns' BY <1>0, <1>1, <1>5 DEF Turns, Inserting, Compacting, UpdateLockFree, Count
<1>8. Pages(o)' /\ Docs' /\ History(o, H)' /\ Grow(o, H, o, H) BY <1>0, <1>2, SameFiles
<1>9. FindsOn(H, H) BY <1>2, FindsSame
<1>10. \A n \in Nodes : Holds(n) => Holds(n)'
  <2> SUFFICES ASSUME NEW n \in Nodes, Holds(n) PROVE Holds(n)' OBVIOUS
  <2>1. Tid(n)' = Tid(n) /\ Row(n)' = Row(n) BY <1>2, FilesEq
  <2>2. Tid(n) \in Tids BY <1>0, Numbers
  <2>3. CASE Tid(n) = t BY <1>4, <2>1, <2>3 DEF Holds
  <2>4. CASE Tid(n) # t BY <1>4, <2>1, <2>2, <2>4 DEF Holds
  <2> QED BY <2>3, <2>4
<1>11. KeptOn BY <1>1, <1>2, <1>10, FilesEq DEF KeptOn, Kept
<1>12. HeapOk(H)'
  <2>1. \A x \in Tids : heap'[x].row \in 0..Len(rows') /\ (heap'[x].state # "free" => heap'[x].row # 0)
    <3> TAKE x \in Tids
    <3>1. heap[x].row \in 0..Len(rows) /\ (heap[x].state # "free" => heap[x].row # 0) BY <1>0 DEF HeapOk
    <3>2. CASE x = t BY <1>1, <1>4, <3>1, <3>2
    <3>3. CASE x # t BY <1>1, <1>4, <3>1, <3>3
    <3> QED BY <3>2, <3>3
  <2>2. \A n \in Nodes' : ~Dead(n)' => Holds(n)' BY <1>0, <1>2, <1>10, FilesEq DEF HeapOk
  <2>3. ASSUME NEW x \in Tids, heap'[x].state = "live", rows'[heap'[x].row] \notin {NoText, {}}
        PROVE  \E n \in Nodes' : NodeOf(n, x, heap[x].row)' /\ Found(H, n, meta.deltaGen)'
    <3>1. x # t /\ heap'[x] = heap[x] BY <1>4, <2>3
    <3>2. \A n \in Nodes : Tid(n) = x /\ ~Dead(n) => ~Dead(n)' BY <1>2, FilesEq
    <3> QED BY <1>0, <1>8, <1>9, <2>3, <3>1, <3>2, LiveGrows
  <2> QED BY <2>1, <2>2, <2>3 DEF HeapOk
<1>13. VacOk(o)'
  <2>1. ASSUME pc[Vacuum] \in {"mark", "reap"}, NEW x \in vac.dead PROVE heap'[x].state = "dead"
    <3>1. vac \in VacMark BY <1>0, <2>1 DEF Typed, VacTyped
    <3>2. x \in Tids /\ heap[x].state = "dead" BY <1>0, <2>1, <3>1 DEF VacOk, VacMark
    <3> QED BY <1>1, <1>4, <3>2
  <2>2. \A n : Tid(n)' = Tid(n) /\ (Dead(n)' <=> Dead(n)) BY <1>2, FilesEq
  <2>3. Nodes' = Nodes /\ {n \in Nodes : ~Dead(n)}' = {n \in Nodes : ~Dead(n)} BY <1>2, FilesEq
  <2>4. {p \in Of(o, meta.deltaStart) : Rec(p).node \in vac.live}'
        = {p \in Of(o, meta.deltaStart) : Rec(p).node \in vac.live}
    BY <1>1 DEF Of, Spots, Blocks, Rec
  <2> QED BY <1>0, <1>1, <2>1, <2>2, <2>3, <2>4 DEF VacOk, Compacting
<1>14. ASSUME NEW b \in Backends PROVE Apart2(o, b)
  <2>1. InsertOk(o, b) /\ CursorOk(o, b) /\ QueryOk(H, b) BY DEF Good, Shape
  <2>2. Inserting(b) => heap'[op[b].tid] = heap[op[b].tid]
    <3> SUFFICES ASSUME Inserting(b) PROVE heap'[op[b].tid] = heap[op[b].tid] OBVIOUS
    <3>1. heap[op[b].tid].state = "inserting" BY <2>1 DEF InsertOk
    <3>2. op[b].tid \in Tids
      <4>1. OpTyped(b) BY <1>0 DEF Typed
      <4> QED BY <4>1 DEF OpTyped, Inserting, NoOp, InsertOp, QueryOp
    <3> QED BY <1>1, <1>4, <3>1, <3>2
  <2>3. InsertOk(o, b)' BY <1>1, <1>2, <2>1, <2>2, SameInsert
  <2>4. CursorOk(o, b)' BY <1>1, <1>2, <2>1, SameCursor
  <2>5. Stays(b) BY <1>2, FilesEq DEF Stays, NodeOf
  <2>6. ASSUME pc[b] \in QueryPcs PROVE SnapOk(b)'
    <3>1. op[b] \in QueryOp /\ SnapOk(b) BY <1>0, <2>1, <2>6, OwnQuery DEF QueryOk
    <3>2. ASSUME NEW y \in op[b].snap PROVE heap'[y[1]].row = y[2] /\ heap'[y[1]].state \in {"live", "dead"}
      <4>1. y[1] \in Tids /\ heap[y[1]].row = y[2] /\ heap[y[1]].state \in {"live", "dead"}
        BY <3>1 DEF QueryOp, Version, SnapOk
      <4> QED BY <1>4, <4>1
    <3> QED BY <1>1, <3>1, <3>2 DEF SnapOk
  <2> QED BY <1>1, <2>3, <2>4, <2>5, <2>6 DEF Apart2
<1> QED BY <1>6, <1>7, <1>8, <1>9, <1>11, <1>12, <1>13, <1>14, RestFrame

\* A step of an insert: it has the lock, no compaction runs, and rows other
\* than its own are left alone
HeapStep ==
  \A t \in Tids :
    /\ heap[t].state # "free" => heap'[t].row = heap[t].row /\ heap'[t].state # "free"
    /\ heap[t].state \in {"live", "dead"} => heap'[t] = heap[t]
    /\ heap'[t].row \in 0..Len(rows') /\ (heap'[t].state # "free" => heap'[t].row # 0)
NodeStep ==
  /\ \A n \in Nodes : Dead(n)' = Dead(n)
  /\ \A n \in Nodes' \ Nodes : Holds(n)' /\ Tid(n)' \in Tids /\ heap[Tid(n)'].state = "inserting"
NewLive(J) ==
  \A t \in Tids : heap'[t].state = "live" /\ heap[t].state # "live" /\ rows'[heap'[t].row] \notin {NoText, {}} =>
    \E n \in Nodes' : NodeOf(n, t, heap[t].row)' /\ Found(J, n, meta.deltaGen)'
Sizes(b) ==
  /\ Count' <= Len(rows') /\ Len(rows') = NBuilt + bounds'.new /\ bounds'.new <= MaxNew
  /\ pc'[b] = "graph" => Count' < Len(rows')
InsertStep(b) ==
  /\ \A a \in Backends \ {b} : /\ op'[a] = op[a] /\ pc'[a] = pc[a] /\ cache'[a] = cache[a]
                               /\ cursor'[a] = cursor[a] /\ ~Inserting(a)
  /\ vac' = vac /\ pc'[Vacuum] = pc[Vacuum] /\ ~Compacting
  /\ pc'[b] \notin QueryPcs /\ cache'[b] \in {cache[b], NoCache}
  /\ HeapStep /\ NodeStep /\ Sizes(b)
LEMMA InsertFrame ==
  ASSUME NEW o, NEW H, NEW u, NEW J, Good(o, H), NEW b \in Backends, InsertStep(b), Typed',
         Grow(o, H, u, J), Pages(u)', Docs', History(u, J)', FindsOn(H, J), NewLive(J),
         InsertOk(u, b)', CursorOk(u, b)'
  PROVE  Good(u, J)'
<1>0. Typed /\ Turns /\ HeapOk(H) /\ VacOk(o) BY DEF Good, Shape
<1>1. /\ \A a \in Backends \ {b} : /\ op'[a] = op[a] /\ pc'[a] = pc[a] /\ cache'[a] = cache[a]
                                   /\ cursor'[a] = cursor[a] /\ ~Inserting(a)
      /\ vac' = vac /\ pc'[Vacuum] = pc[Vacuum] /\ ~Compacting
      /\ pc'[b] \notin QueryPcs /\ cache'[b] \in {cache[b], NoCache}
      /\ HeapStep /\ NodeStep /\ Sizes(b)
  BY DEF InsertStep
<1>2. \A n \in Nodes : /\ n \in Nodes' /\ Tid(n)' = Tid(n) /\ Row(n)' = Row(n) /\ Dead(n)' = Dead(n)
                       /\ Tid(n) \in Tids
  BY <1>0, <1>1, Numbers DEF Grow, NodeStep
<1>3. \A n \in Nodes : Holds(n) => Holds(n)' BY <1>1, <1>2 DEF Holds, HeapStep
<1>4. KeptOn BY <1>1, <1>2, <1>3 DEF KeptOn, Kept
<1>5. ~Compacting' BY <1>1 DEF Compacting
<1>6. Turns'
  <2>1. \A a \in Backends : Inserting(a)' => a = b BY <1>1 DEF Inserting
  <2>2. ASSUME NEW a \in Backends, a # b PROVE pc'[a] # "graph"
    <3>1. OpTyped(a) /\ pc'[a] = pc[a] /\ ~Inserting(a) BY <1>0, <1>1, <2>2 DEF Typed
    <3> QED BY <3>1 DEF OpTyped, Inserting, InsertOp, QueryPcs
  <2> QED BY <1>1, <1>5, <2>1, <2>2 DEF Turns, Sizes
<1>7. VacOk(u)'
  <2>1. ASSUME pc[Vacuum] \in {"mark", "reap"}
        PROVE  vac.dead \subseteq Tids /\ \A t \in vac.dead : heap[t].state = "dead" /\ heap'[t].state = "dead"
    <3>1. vac \in VacMark BY <1>0, <2>1 DEF Typed, VacTyped
    <3>2. \A t \in vac.dead : t \in Tids /\ heap[t].state = "dead" BY <1>0, <2>1, <3>1 DEF VacOk, VacMark
    <3> QED BY <1>1, <3>2 DEF HeapStep
  <2>2. ASSUME pc[Vacuum] = "reap", NEW n \in Nodes', Tid(n)' \in vac.dead PROVE Dead(n)'
    <3>1. n \in Nodes BY <1>1, <2>1, <2>2 DEF NodeStep
    <3> QED BY <1>0, <1>2, <2>2, <3>1 DEF VacOk
  <2> QED BY <1>1, <1>5, <2>1, <2>2 DEF VacOk, Compacting
<1>8. HeapOk(J)'
  <2>1. \A t \in Tids : heap'[t].row \in 0..Len(rows') /\ (heap'[t].state # "free" => heap'[t].row # 0)
    BY <1>1 DEF HeapStep
  <2>2. ASSUME NEW n \in Nodes', ~Dead(n)' PROVE Holds(n)'
    <3>1. CASE n \in Nodes BY <1>0, <1>2, <1>3, <2>2, <3>1 DEF HeapOk
    <3>2. CASE n \notin Nodes BY <1>1, <3>2 DEF NodeStep
    <3> QED BY <3>1, <3>2
  <2>3. ASSUME NEW t \in Tids, heap'[t].state = "live", rows'[heap'[t].row] \notin {NoText, {}}
        PROVE  \E n \in Nodes' : NodeOf(n, t, heap[t].row)' /\ Found(J, n, meta.deltaGen)'
    <3>1. CASE heap[t].state = "live"
      <4>1. heap'[t].row = heap[t].row BY <1>1, <3>1 DEF HeapStep
      <4>2. \A n \in Nodes : Tid(n) = t /\ ~Dead(n) => ~Dead(n)' BY <1>2
      <4> QED BY <1>0, <2>3, <3>1, <4>1, <4>2, LiveGrows
    <3>2. CASE heap[t].state # "live" BY <2>3, <3>2 DEF NewLive
    <3> QED BY <3>1, <3>2
  <2> QED BY <2>1, <2>2, <2>3 DEF HeapOk
<1>9. ASSUME NEW a \in Backends PROVE Apart2(u, a)
  <2>1. CASE a = b BY <1>1, <2>1 DEF Apart2
  <2>2. CASE a # b
    <3>1. op'[a] = op[a] /\ pc'[a] = pc[a] /\ cache'[a] = cache[a] /\ cursor'[a] = cursor[a] /\ ~Inserting(a)
      BY <1>1, <2>2
    <3>2. CursorOk(o, a) /\ QueryOk(H, a) BY DEF Good, Shape
    <3>3. InsertOk(u, a)' BY <3>1 DEF InsertOk, Inserting
    <3>4. CursorOk(u, a)' BY <3>1, <3>2, CursorGrows
    <3>5. Stays(a) BY <1>2 DEF Stays, NodeOf
    <3>6. ASSUME pc[a] \in QueryPcs PROVE SnapOk(a)'
      <4>1. op[a] \in QueryOp /\ SnapOk(a) BY <1>0, <3>2, <3>6, OwnQuery DEF QueryOk
      <4>2. ASSUME NEW y \in op[a].snap PROVE heap'[y[1]].row = y[2] /\ heap'[y[1]].state \in {"live", "dead"}
        <5>1. y[1] \in Tids /\ heap[y[1]].row = y[2] /\ heap[y[1]].state \in {"live", "dead"}
          BY <4>1 DEF QueryOp, Version, SnapOk
        <5> QED BY <1>1, <5>1 DEF HeapStep
      <4> QED BY <1>1, <3>1, <4>1, <4>2 DEF SnapOk
    <3> QED BY <3>1, <3>3, <3>4, <3>5, <3>6 DEF Apart2
  <2> QED BY <2>1, <2>2
<1> QED BY <1>4, <1>6, <1>7, <1>8, <1>9, RestFrame

\* An insert that holds the lock is the only one, and nothing is compacted
LEMMA OwnInsert ==
  ASSUME Typed, Turns, NEW b \in Backends, pc[b] \in InsertPcs
  PROVE  /\ op[b] \in InsertOp /\ Inserting(b) /\ ~Compacting
         /\ \A a \in Backends \ {b} : ~Inserting(a)
<1>1. OpTyped(b) BY DEF Typed
<1>2. op[b] \in InsertOp BY <1>1 DEF OpTyped, QueryPcs, InsertPcs
<1>3. Inserting(b) BY <1>2 DEF InsertOp, Inserting
<1> QED BY <1>2, <1>3 DEF Turns, UpdateLockFree

LEMMA OpsTyped ==
  ASSUME Typed, NEW b \in Backends, OpTyped(b)', VacTyped => VacTyped',
         \A a \in Backends \ {b} : op'[a] = op[a] /\ pc'[a] = pc[a]
  PROVE  VacTyped' /\ \A a \in Backends : OpTyped(a)'
BY DEF Typed, OpTyped

LEMMA A_ReadTail ==
  ASSUME NEW o, NEW H, Good(o, H), NEW b \in Backends, ReadTail(b) PROVE Good(o, H)'
<1>0. Typed /\ Turns /\ Pages(o) /\ Docs /\ History(o, H) /\ HeapOk(H) /\ InsertOk(o, b) /\ CursorOk(o, b)
  BY DEF Good, Shape
<1>t. PICK tail : tail = IF CursorHits(b) THEN cursor[b].tail ELSE LastPage(meta.deltaStart) OBVIOUS
<1>i. PICK i : i = [op[b] EXCEPT !.start = meta.deltaStart, !.tail = tail] OBVIOUS
<1>1. /\ pc[b] = "tail" /\ op' = [op EXCEPT ![b] = i] /\ pc' = [pc EXCEPT ![b] = "append"]
      /\ graph' = graph /\ base' = base /\ dpage' = dpage /\ meta' = meta /\ heap' = heap /\ rows' = rows
      /\ cache' = cache /\ cursor' = cursor /\ vac' = vac /\ bounds' = bounds
  BY <1>t, <1>i DEF ReadTail, Goto
<1>2. /\ op[b] \in InsertOp /\ Inserting(b) /\ ~Compacting /\ \A a \in Backends \ {b} : ~Inserting(a)
  BY <1>0, <1>1, OwnInsert DEF InsertPcs
<1>3. /\ op = [a \in Backends |-> op[a]] /\ pc = [p \in Backends \cup {Vacuum} |-> pc[p]] /\ Vacuum \notin Backends
      /\ dpage \in Seq(PageType) /\ meta \in MetaType
      /\ cursor \in [Backends -> [start : Nat, tail : Nat, gen : Nat]]
  BY <1>0, Basics DEF Typed
<1>4. /\ op'[b] = i /\ pc'[b] = "append" /\ pc'[Vacuum] = pc[Vacuum]
      /\ \A a \in Backends \ {b} : op'[a] = op[a] /\ pc'[a] = pc[a]
  BY <1>1, <1>3
<1>5. MetaOk(o, meta) BY <1>0, MetaNow
<1>6. /\ tail \in Nat /\ (meta.deltaStart = Nil <=> tail = Nil)
      /\ tail # Nil => tail \in Blocks /\ o[tail] = meta.deltaStart
  <2>1. CASE CursorHits(b)
    <3>1. tail = cursor[b].tail /\ cursor[b].start = meta.deltaStart BY <1>t, <2>1 DEF CursorHits
    <3> QED BY <1>0, <1>3, <3>1 DEF CursorOk
  <2>2. CASE ~CursorHits(b)
    <3>1. tail = LastPage(meta.deltaStart) BY <1>t, <2>2
    <3>2. CASE meta.deltaStart = Nil
      <4>1. tail = Nil BY <1>3, <3>1, <3>2, ChainOfNil DEF LastPage
      <4> QED BY <3>2, <4>1 DEF Nil
    <3>3. CASE meta.deltaStart # Nil
      <4>1. meta.deltaStart \in Blocks /\ o[meta.deltaStart] = meta.deltaStart BY <1>5, <3>3 DEF MetaOk
      <4>2. tail \in Blocks /\ o[tail] = meta.deltaStart BY <1>0, <1>3, <3>1, <4>1, ChainOfOwner
      <4>3. tail \in Nat /\ tail # Nil BY <4>2 DEF Blocks, Nil
      <4> QED BY <3>3, <4>2, <4>3
    <3> QED BY <3>2, <3>3
  <2> QED BY <2>1, <2>2
<1>7. /\ i \in InsertOp /\ i.kind = "insert" /\ i.start = meta.deltaStart /\ i.tail = tail
      /\ i.tid = op[b].tid /\ i.node = op[b].node /\ i.text = op[b].text
  BY <1>2, <1>3, <1>6, <1>i DEF InsertOp, MetaType
<1>8. OpTyped(b)' BY <1>4, <1>7 DEF OpTyped, InsertPcs
<1>9. Typed'
  <2>1. VacTyped' /\ \A a \in Backends : OpTyped(a)' BY <1>0, <1>1, <1>4, <1>8, OpsTyped DEF VacTyped
  <2>2. op' = [a \in Backends |-> op'[a]] /\ pc' = [p \in Backends \cup {Vacuum} |-> pc'[p]] BY <1>1, <1>3
  <2> QED BY <1>0, <1>1, <2>1, <2>2 DEF Typed
<1>10. FilesSame BY <1>1 DEF FilesSame
<1>11. Pages(o)' /\ Docs' /\ History(o, H)' /\ Grow(o, H, o, H) BY <1>0, <1>10, SameFiles
<1>12. FindsOn(H, H) BY <1>10, FindsSame
<1>13. InsertStep(b)
  <2>1. HeapStep BY <1>0, <1>1 DEF HeapStep, HeapOk
  <2>2. NodeStep BY <1>1 DEF NodeStep, Dead, NodeState, Nodes, Count
  <2>3. Sizes(b) BY <1>0, <1>1, <1>4 DEF Sizes, Turns, Count
  <2> QED BY <1>1, <1>2, <1>4, <2>1, <2>2, <2>3 DEF InsertStep, QueryPcs
<1>14. NewLive(H) BY <1>1 DEF NewLive
<1>15. InsertOk(o, b)'
  <2>1. /\ heap[i.tid].state = "inserting" /\ i.text = rows[heap[i.tid].row]
        /\ NodeOf(i.node, i.tid, heap[i.tid].row) /\ i.text # NoText
        /\ \A p \in Spots : Rec(p).node # i.node
        /\ \A k \in 1..Len(base) : base[k].len[i.node] = 0
    BY <1>0, <1>1, <1>2, <1>7 DEF InsertOk
  <2>2. PICK r : r = heap[i.tid].row OBVIOUS
  <2>3. NodeOf(i.node, i.tid, r)' BY <1>10, <2>1, <2>2, FilesEq
  <2>4. NodeOf(op[b].node, op[b].tid, heap[op[b].tid].row)' BY <1>1, <1>4, <2>2, <2>3
  <2>5. \A p \in Spots' : Rec(p)'.node # i.node BY <1>10, <2>1, FilesEq
  <2>6. Blocks' = Blocks BY <1>10, FilesEq
  <2> QED BY <1>1, <1>4, <1>6, <1>7, <2>1, <2>4, <2>5, <2>6 DEF InsertOk
<1>16. CursorOk(o, b)' BY <1>0, <1>1, <1>10, SameCursor
<1> QED BY <1>9, <1>11, <1>12, <1>13, <1>14, <1>15, <1>16, InsertFrame

\* The documents that are found with the metadata there is now, those that are
\* gone, and what a step does to them
Listed(o, n)  == \E p \in Of(o, meta.deltaStart) : Rec(p).node = n
Indexed(o, n) == /\ n \in Nodes /\ ~Dead(n) /\ TextOf(n) \notin {NoText, {}}
                 /\ base[meta.base].len[n] # 0 \/ Listed(o, n)
Gone == {n \in Nodes : Dead(n)}
Same(o, u) == Gone' = Gone /\ \A n \in NodeIds : Indexed(u, n)' <=> Indexed(o, n)
Added(o, u, k) ==
  /\ k \notin Gone /\ ~Indexed(o, k) /\ Gone' = Gone
  /\ \A n \in NodeIds : Indexed(u, n)' <=> Indexed(o, n) \/ n = k
Removed(o, u, S) ==
  /\ S # {} /\ S \cap Gone = {} /\ Gone' = Gone \cup S
  /\ \A n \in NodeIds : Indexed(u, n)' <=> Indexed(o, n) /\ n \notin S
Implements(o, u) ==
  \/ Same(o, u)
  \/ \E k \in NodeIds : Added(o, u, k)
  \/ \E S \in SUBSET NodeIds : Removed(o, u, S)

LEMMA A_BeginInsert ==
  ASSUME NEW o, NEW H, Good(o, H), Orderly, NEW b \in Backends, NEW t \in Tids, NEW text \in Texts,
         BeginInsert(b, t, text)
  PROVE  Good(o, H)' /\ Same(o, o)
<1>0. Typed /\ Turns /\ Pages(o) /\ Docs /\ History(o, H) /\ HeapOk(H) /\ CursorOk(o, b)
  BY DEF Good, Shape
<1>i. PICK i : i = [kind |-> "insert", tid |-> t, text |-> text, node |-> Nil, start |-> Nil, tail |-> Nil] OBVIOUS
<1>h. PICK h : h = [row |-> Len(rows) + 1, state |-> "inserting"] OBVIOUS
<1>1. /\ pc[b] = "idle" /\ UpdateLockFree /\ ~Compacting
      /\ heap[t].state = "free" /\ bounds.new < MaxNew /\ rows' = Append(rows, text)
      /\ heap' = [heap EXCEPT ![t] = h] /\ op' = [op EXCEPT ![b] = i] /\ pc' = [pc EXCEPT ![b] = "graph"]
      /\ bounds' = [bounds EXCEPT !.new = @ + 1]
      /\ graph' = graph /\ base' = base /\ dpage' = dpage /\ meta' = meta /\ cache' = cache
      /\ cursor' = cursor /\ vac' = vac
  BY <1>i, <1>h DEF BeginInsert, Goto, Orderly
<1>2. /\ op = [a \in Backends |-> op[a]] /\ pc = [p \in Backends \cup {Vacuum} |-> pc[p]] /\ Vacuum \notin Backends
      /\ rows \in Seq(Texts) /\ heap \in [Tids -> HeapType] /\ bounds \in Counters
  BY <1>0, Basics DEF Typed, Counters
<1>3. /\ op'[b] = i /\ pc'[b] = "graph" /\ pc'[Vacuum] = pc[Vacuum]
      /\ \A a \in Backends \ {b} : op'[a] = op[a] /\ pc'[a] = pc[a]
  BY <1>1, <1>2
<1>4. /\ Len(rows) \in Nat /\ rows' \in Seq(Texts) /\ Len(rows') = Len(rows) + 1 /\ rows'[Len(rows) + 1] = text
      /\ \A k \in 1..Len(rows) : rows'[k] = rows[k]
  BY <1>1, <1>2
<1>5. /\ i \in InsertOp /\ i.kind = "insert" /\ i.tid = t /\ i.text = text BY <1>i DEF InsertOp, Nil
<1>6. h \in HeapType /\ h.row = Len(rows) + 1 /\ h.state = "inserting" BY <1>4, <1>h DEF HeapType
<1>7. /\ heap' \in [Tids -> HeapType] /\ heap'[t] = h /\ \A x \in Tids : x # t => heap'[x] = heap[x]
  BY <1>1, <1>2, <1>6
<1>8. bounds' \in Counters /\ bounds'.new = bounds.new + 1 /\ bounds.new \in Nat /\ bounds.new < MaxNew
  <2>1. bounds \in Counters /\ bounds' = [bounds EXCEPT !.new = @ + 1] /\ bounds.new < MaxNew BY <1>1, <1>2
  <2> QED BY ONLY <2>1 DEF Counters
<1>9. OpTyped(b)' BY <1>3, <1>5 DEF OpTyped, InsertPcs
<1>10. Typed'
  <2>1. VacTyped' /\ \A a \in Backends : OpTyped(a)' BY <1>0, <1>1, <1>3, <1>9, OpsTyped DEF VacTyped
  <2>2. op' = [a \in Backends |-> op'[a]] /\ pc' = [p \in Backends \cup {Vacuum} |-> pc'[p]] BY <1>1, <1>2
  <2> QED BY <1>0, <1>1, <1>4, <1>7, <1>8, <2>1, <2>2 DEF Typed, Counters
<1>11. /\ Nodes' = Nodes /\ Count' = Count /\ Blocks' = Blocks /\ Spots' = Spots
       /\ \A n : Tid(n)' = Tid(n) /\ Row(n)' = Row(n) /\ Dead(n)' = Dead(n)
       /\ \A p : Rec(p)' = Rec(p)
  BY <1>1 DEF Nodes, Count, Blocks, Spots, Tid, Row, Dead, NodeState, Rec
<1>12. Grow(o, H, o, H)
  <2>1. Count \in Nat /\ Len(base) \in Nat /\ graph.gen \in Nat /\ meta.deltaGen \in Nat BY <1>0, Numbers
  <2> QED BY <1>1, <1>4, <1>11, <2>1 DEF Grow
<1>13. Pages(o)' BY <1>0, <1>1 DEF Pages, Linked, Blocks
<1>14. Docs'
  <2>1. /\ \A n \in Nodes : Row(n)' \in 1..Len(rows')
        /\ \A p \in Spots : RecOk(p)'
        /\ \A B : BaseOk(B) => BaseOk(B)'
    BY <1>0, <1>12, DocsGrow
  <2>2. \A k \in 1..Len(base) : BaseOk(base[k])'
    <3> TAKE k \in 1..Len(base)
    <3>1. PICK B : B = base[k] OBVIOUS
    <3>2. BaseOk(B) BY <1>0, <3>1 DEF Docs
    <3>3. BaseOk(B)' BY <2>1, <3>2
    <3> QED BY <1>1, <3>1, <3>3
  <2> QED BY <1>0, <1>1, <1>11, <2>1, <2>2 DEF Docs
<1>15. History(o, H)'
  <2>1. NewApart BY <1>11 DEF NewApart
  <2> QED BY <1>0, <1>1, <1>12, <2>1, HistorySame
<1>16. FindsOn(H, H)
  <2>1. \A n : Found(H, n, meta.deltaGen) => Found(H, n, meta.deltaGen)' BY <1>1 DEF Found, Rec
  <2> QED BY <2>1 DEF FindsOn
<1>17. InsertStep(b)
  <2>1. HeapStep
    <3> SUFFICES ASSUME NEW x \in Tids
                 PROVE  /\ heap[x].state # "free" => heap'[x].row = heap[x].row /\ heap'[x].state # "free"
                        /\ heap[x].state \in {"live", "dead"} => heap'[x] = heap[x]
                        /\ heap'[x].row \in 0..Len(rows') /\ (heap'[x].state # "free" => heap'[x].row # 0)
      BY DEF HeapStep
    <3>1. CASE x = t
      <4>1. h.row \in 0..Len(rows') /\ h.row # 0 BY <1>4, <1>6
      <4> QED BY <1>1, <1>7, <3>1, <4>1
    <3>2. CASE x # t
      <4>1. heap[x].row \in 0..Len(rows) /\ (heap[x].state # "free" => heap[x].row # 0) BY <1>0 DEF HeapOk
      <4>2. heap[x].row \in 0..Len(rows') BY <1>4, <4>1
      <4> QED BY <1>7, <3>2, <4>1, <4>2
    <3> QED BY <3>1, <3>2
  <2>2. NodeStep BY <1>11 DEF NodeStep
  <2>3. Sizes(b)
    <3>1. Count <= Len(rows) /\ Len(rows) = NBuilt + bounds.new /\ Count \in Nat BY <1>0, Numbers DEF Turns
    <3>2. Len(rows') = Len(rows) + 1 /\ bounds'.new = bounds.new + 1 /\ bounds.new < MaxNew /\ Count' = Count
          /\ Len(rows) \in Nat /\ bounds.new \in Nat
      BY <1>4, <1>8, <1>11
    <3>3. NBuilt \in Nat /\ MaxNew \in Nat BY Basics
    <3> QED BY ONLY <3>1, <3>2, <3>3 DEF Sizes
  <2> QED BY <1>1, <1>3, <2>1, <2>2, <2>3 DEF InsertStep, QueryPcs, UpdateLockFree
<1>18. NewLive(H) BY <1>6, <1>7 DEF NewLive
<1>19. InsertOk(o, b)' BY <1>3, <1>4, <1>5, <1>6, <1>7 DEF InsertOk
<1>20. CursorOk(o, b)' BY <1>0, <1>1, <1>12, CursorGrows
<1>21. Same(o, o)
  <2>1. \A n \in Nodes : TextOf(n)' = TextOf(n) BY <1>0, <1>1, <1>4 DEF Docs, TextOf, Row, NodeState
  <2>2. Nodes' = Nodes /\ \A n : Dead(n)' = Dead(n) /\ (Listed(o, n)' <=> Listed(o, n))
    BY <1>1 DEF Nodes, Count, Dead, NodeState, Listed, Of, Spots, Blocks, Rec
  <2> QED BY <1>1, <2>1, <2>2 DEF Same, Indexed, Gone
<1> QED BY <1>21, <1>10, <1>12, <1>13, <1>14, <1>15, <1>16, <1>17, <1>18, <1>19, <1>20, InsertFrame

LEMMA A_CancelInsert ==
  ASSUME NEW o, NEW H, Good(o, H), NEW b \in Backends, Cancel(b), Inserting(b)
  PROVE  Good(o, H)'
<1>0. Typed /\ Turns /\ Pages(o) /\ Docs /\ History(o, H) /\ HeapOk(H) /\ CursorOk(o, b) /\ InsertOk(o, b)
  BY DEF Good, Shape
<1>t. PICK t : t = op[b].tid OBVIOUS
<1>1. /\ op' = [op EXCEPT ![b] = NoOp] /\ pc' = [pc EXCEPT ![b] = "idle"]
      /\ bounds' = [bounds EXCEPT !.cancels = @ + 1]
      /\ heap' = [heap EXCEPT ![t].state = "dead"]
      /\ graph' = graph /\ base' = base /\ dpage' = dpage /\ meta' = meta /\ rows' = rows
      /\ cache' = cache /\ cursor' = cursor /\ vac' = vac
  BY <1>t, Basics DEF Cancel, Goto
<1>2. /\ op = [a \in Backends |-> op[a]] /\ pc = [p \in Backends \cup {Vacuum} |-> pc[p]] /\ Vacuum \notin Backends
      /\ heap \in [Tids -> HeapType] /\ bounds \in Counters
  BY <1>0, Basics DEF Typed, Counters
<1>3. /\ op'[b] = NoOp /\ pc'[b] = "idle" /\ pc'[Vacuum] = pc[Vacuum]
      /\ \A a \in Backends \ {b} : op'[a] = op[a] /\ pc'[a] = pc[a]
  BY <1>1, <1>2
<1>4. pc[b] \in InsertPcs
  <2>1. OpTyped(b) BY <1>0 DEF Typed
  <2> QED BY <2>1 DEF OpTyped, Inserting, NoOp, QueryOp
<1>5. /\ op[b] \in InsertOp /\ ~Compacting /\ \A a \in Backends \ {b} : ~Inserting(a)
  BY <1>0, <1>4, OwnInsert
<1>6. t \in Tids /\ heap[t].state = "inserting" BY <1>0, <1>5, <1>t DEF InsertOp, InsertOk
<1>7. /\ heap' \in [Tids -> HeapType] /\ heap'[t].state = "dead" /\ heap'[t].row = heap[t].row
      /\ \A x \in Tids : x # t => heap'[x] = heap[x]
  BY <1>1, <1>2, <1>6 DEF HeapType
<1>8. bounds' \in Counters /\ bounds'.new = bounds.new BY <1>1, <1>2 DEF Counters
<1>9. OpTyped(b)' BY <1>3 DEF OpTyped
<1>10. Typed'
  <2>1. VacTyped' /\ \A a \in Backends : OpTyped(a)' BY <1>0, <1>1, <1>3, <1>9, OpsTyped DEF VacTyped
  <2>2. op' = [a \in Backends |-> op'[a]] /\ pc' = [p \in Backends \cup {Vacuum} |-> pc'[p]] BY <1>1, <1>2
  <2> QED BY <1>0, <1>1, <1>7, <1>8, <2>1, <2>2 DEF Typed, Counters
<1>11. FilesSame BY <1>1 DEF FilesSame
<1>12. Pages(o)' /\ Docs' /\ History(o, H)' /\ Grow(o, H, o, H) BY <1>0, <1>11, SameFiles
<1>13. FindsOn(H, H) BY <1>11, FindsSame
<1>14. InsertStep(b)
  <2>1. HeapStep
    <3> SUFFICES ASSUME NEW x \in Tids
                 PROVE  /\ heap[x].state # "free" => heap'[x].row = heap[x].row /\ heap'[x].state # "free"
                        /\ heap[x].state \in {"live", "dead"} => heap'[x] = heap[x]
                        /\ heap'[x].row \in 0..Len(rows') /\ (heap'[x].state # "free" => heap'[x].row # 0)
      BY DEF HeapStep
    <3>1. heap[x].row \in 0..Len(rows) /\ (heap[x].state # "free" => heap[x].row # 0) BY <1>0 DEF HeapOk
    <3>2. CASE x = t BY <1>1, <1>6, <1>7, <3>1, <3>2
    <3>3. CASE x # t BY <1>1, <1>7, <3>1, <3>3
    <3> QED BY <3>2, <3>3
  <2>2. NodeStep BY <1>1 DEF NodeStep, Dead, NodeState, Nodes, Count
  <2>3. Sizes(b) BY <1>0, <1>1, <1>3, <1>8 DEF Sizes, Turns, Count
  <2> QED BY <1>1, <1>3, <1>5, <2>1, <2>2, <2>3 DEF InsertStep, QueryPcs
<1>15. NewLive(H) BY <1>7 DEF NewLive
<1>16. InsertOk(o, b)' BY <1>3 DEF InsertOk, Inserting, NoOp
<1>17. CursorOk(o, b)' BY <1>0, <1>1, <1>12, CursorGrows
<1> QED BY <1>10, <1>12, <1>13, <1>14, <1>15, <1>16, <1>17, InsertFrame

\* A node more
LEMMA AddNode ==
  ASSUME Typed, NEW d \in NodeType, NEW N, N = Count,
         graph' = [gen |-> graph.gen + 1, node |-> Append(graph.node, d)]
  PROVE  /\ graph' \in [gen : Nat, node : Seq(NodeType)] /\ graph'.gen = graph.gen + 1
         /\ N \in Nat /\ Count' = N + 1 /\ Nodes' = Nodes \cup {N} /\ N \notin Nodes
         /\ \A n \in Nodes : Tid(n)' = Tid(n) /\ Row(n)' = Row(n) /\ Dead(n)' = Dead(n)
         /\ Tid(N)' = d.tid /\ Row(N)' = d.row /\ Dead(N)' = d.dead
<1>N. N = Count OBVIOUS
<1>1. graph.node \in Seq(NodeType) /\ graph.gen \in Nat /\ Count \in Nat BY Numbers
<1>2. graph'.node = Append(graph.node, d) /\ graph'.gen = graph.gen + 1 OBVIOUS
<1>3. /\ Append(graph.node, d) \in Seq(NodeType) /\ Len(Append(graph.node, d)) = Len(graph.node) + 1
      /\ Append(graph.node, d)[Len(graph.node) + 1] = d
      /\ \A k \in 1..Len(graph.node) : Append(graph.node, d)[k] = graph.node[k]
  BY ONLY <1>1, d \in NodeType
<1>4. graph' \in [gen : Nat, node : Seq(NodeType)] BY <1>1, <1>3
<1>5. N \in Nat /\ Count' = N + 1 /\ Nodes = 0..(N - 1) /\ Nodes' = 0..N BY <1>1, <1>2, <1>3, <1>N DEF Count, Nodes
<1>6. Nodes' = Nodes \cup {N} /\ N \notin Nodes BY <1>5
<1>7. ASSUME NEW n \in Nodes PROVE graph'.node[n + 1] = graph.node[n + 1]
  <2>1. n + 1 \in 1..Len(graph.node) BY <1>5, <1>N DEF Count
  <2> QED BY ONLY <1>2, <1>3, <2>1
<1>8. graph'.node[N + 1] = d BY <1>2, <1>3, <1>N DEF Count
<1>9. /\ Tid(N)' = d.tid /\ Row(N)' = d.row /\ Dead(N)' = d.dead BY <1>8 DEF Tid, Row, Dead, NodeState
<1>10. \A n \in Nodes : Tid(n)' = Tid(n) /\ Row(n)' = Row(n) /\ Dead(n)' = Dead(n)
  BY <1>7 DEF Tid, Row, Dead, NodeState
<1> QED BY <1>1, <1>2, <1>4, <1>5, <1>6, <1>9, <1>10

LEMMA A_InsertNode ==
  ASSUME NEW o, NEW H, Good(o, H), NEW b \in Backends, InsertNode(b) PROVE Good(o, H)' /\ Same(o, o)
<1>0. Typed /\ Turns /\ Pages(o) /\ Docs /\ History(o, H) /\ HeapOk(H) /\ InsertOk(o, b) /\ CursorOk(o, b)
  BY DEF Good, Shape
<1>t. PICK t : t = op[b].tid OBVIOUS
<1>r. PICK r : r = heap[t].row OBVIOUS
<1>N. PICK N : N = Count OBVIOUS
<1>d. PICK d : d = [tid |-> t, row |-> r, dead |-> FALSE] OBVIOUS
<1>i. PICK i : i = IF op[b].text = NoText THEN NoOp ELSE [op[b] EXCEPT !.node = N] OBVIOUS
<1>1. /\ pc[b] = "graph" /\ graph' = [gen |-> graph.gen + 1, node |-> Append(graph.node, d)]
      /\ op' = [op EXCEPT ![b] = i]
      /\ \/ op[b].text = NoText /\ pc' = [pc EXCEPT ![b] = "idle"] /\ heap' = [heap EXCEPT ![t].state = "live"]
         \/ op[b].text # NoText /\ pc' = [pc EXCEPT ![b] = "tail"] /\ heap' = heap
      /\ base' = base /\ dpage' = dpage /\ meta' = meta /\ rows' = rows
      /\ cache' = cache /\ cursor' = cursor /\ vac' = vac /\ bounds' = bounds
  BY <1>t, <1>r, <1>N, <1>d, <1>i DEF InsertNode, Goto, Done
<1>2. /\ op[b] \in InsertOp /\ Inserting(b) /\ ~Compacting /\ \A a \in Backends \ {b} : ~Inserting(a)
  BY <1>0, <1>1, OwnInsert DEF InsertPcs
<1>3. /\ op = [a \in Backends |-> op[a]] /\ pc = [p \in Backends \cup {Vacuum} |-> pc[p]] /\ Vacuum \notin Backends
      /\ heap \in [Tids -> HeapType]
  BY <1>0, Basics DEF Typed
<1>4. /\ op'[b] = i /\ pc'[Vacuum] = pc[Vacuum]
      /\ \A a \in Backends \ {b} : op'[a] = op[a] /\ pc'[a] = pc[a]
      /\ \/ op[b].text = NoText /\ pc'[b] = "idle" /\ i = NoOp
         \/ op[b].text # NoText /\ pc'[b] = "tail" /\ i = [op[b] EXCEPT !.node = N]
  BY <1>1, <1>3, <1>i
<1>5. t \in Tids /\ heap[t].state = "inserting" /\ op[b].text = rows[r] BY <1>0, <1>2, <1>r, <1>t DEF InsertOp, InsertOk
<1>6. /\ heap' \in [Tids -> HeapType] /\ heap'[t].row = r
      /\ heap'[t].state = IF op[b].text = NoText THEN "live" ELSE "inserting"
      /\ \A x \in Tids : x # t => heap'[x] = heap[x]
  <2>1. heap[t] \in HeapType BY <1>3, <1>5
  <2>2. CASE heap' = heap /\ op[b].text # NoText BY <1>3, <1>5, <1>r, <2>2
  <2>3. CASE heap' = [heap EXCEPT ![t].state = "live"] /\ op[b].text = NoText
    BY <1>3, <1>5, <1>r, <2>1, <2>3 DEF HeapType
  <2> QED BY <1>1, <2>2, <2>3
<1>7. r \in 1..Len(rows) /\ r \in Nat
  <2>1. r \in 0..Len(rows) /\ r # 0 BY <1>0, <1>5, <1>r DEF HeapOk
  <2> QED BY <1>0, <2>1, Numbers
<1>8. d \in NodeType /\ d.tid = t /\ d.row = r /\ ~d.dead BY <1>5, <1>7, <1>d DEF NodeType
<1>9. /\ graph' \in [gen : Nat, node : Seq(NodeType)] /\ graph'.gen = graph.gen + 1
      /\ N \in Nat /\ Count' = N + 1 /\ Nodes' = Nodes \cup {N} /\ N \notin Nodes
      /\ \A n \in Nodes : Tid(n)' = Tid(n) /\ Row(n)' = Row(n) /\ Dead(n)' = Dead(n)
      /\ Tid(N)' = t /\ Row(N)' = r /\ ~Dead(N)'
  <2>1. graph' = [gen |-> graph.gen + 1, node |-> Append(graph.node, d)] BY <1>1
  <2> HIDE <1>1
  <2> QED BY <1>0, <1>8, <1>N, <2>1, AddNode
<1>10. N < Len(rows) /\ N \in NodeIds
  <2>1. N < Len(rows) /\ Len(rows) = NBuilt + bounds.new /\ bounds.new <= MaxNew /\ bounds.new \in Nat /\ Len(rows) \in Nat
    BY <1>0, <1>1, <1>N, Numbers DEF Turns, Typed
  <2> QED BY <1>9, <2>1, Basics
<1>11. ASSUME op[b].text # NoText
       PROVE  /\ i \in InsertOp /\ i.kind = "insert" /\ i.node = N /\ i.tid = t /\ i.text = op[b].text
  BY <1>2, <1>4, <1>9, <1>11, <1>t DEF InsertOp
<1>12. OpTyped(b)' BY <1>4, <1>11 DEF OpTyped, InsertPcs
<1>13. Typed'
  <2>1. VacTyped' /\ \A a \in Backends : OpTyped(a)' BY <1>0, <1>1, <1>4, <1>12, OpsTyped DEF VacTyped
  <2>2. op' = [a \in Backends |-> op'[a]] /\ pc' = [p \in Backends \cup {Vacuum} |-> pc'[p]] BY <1>1, <1>3
  <2> QED BY <1>0, <1>1, <1>6, <1>9, <2>1, <2>2 DEF Typed
<1>14. Blocks' = Blocks /\ Spots' = Spots /\ \A p : Rec(p)' = Rec(p) BY <1>1 DEF Blocks, Spots, Rec
<1>15. Grow(o, H, o, H)
  <2>1. Count \in Nat /\ Len(base) \in Nat /\ Len(rows) \in Nat /\ graph.gen \in Nat /\ meta.deltaGen \in Nat
    BY <1>0, Numbers
  <2>2. Count <= Count' /\ Count' \in Nat /\ graph.gen <= graph'.gen /\ graph'.gen \in Nat BY <1>9, <1>N, <2>1
  <2>3. Nodes \subseteq Nodes' BY <1>9
  <2> QED BY <1>1, <1>9, <1>14, <2>1, <2>2, <2>3 DEF Grow
<1>16. Pages(o)' BY <1>0, <1>1 DEF Pages, Linked, Blocks
<1>17. Docs'
  <2>1. /\ \A n \in Nodes : Row(n)' \in 1..Len(rows')
        /\ \A p \in Spots : RecOk(p)'
        /\ \A B : BaseOk(B) => BaseOk(B)'
    BY <1>0, <1>15, DocsGrow
  <2>2. \A k \in 1..Len(base) : BaseOk(base[k])'
    <3> TAKE k \in 1..Len(base)
    <3>1. PICK B : B = base[k] OBVIOUS
    <3>2. BaseOk(B) BY <1>0, <3>1 DEF Docs
    <3>3. BaseOk(B)' BY <2>1, <3>2
    <3> QED BY <1>1, <3>1, <3>3
  <2>3. \A n \in Nodes' : Row(n)' \in 1..Len(rows') BY <1>1, <1>7, <1>9, <2>1
  <2> QED BY <1>0, <1>1, <1>14, <2>1, <2>2, <2>3 DEF Docs
<1>18. History(o, H)'
  <2>1. NewApart BY <1>14 DEF NewApart
  <2> QED BY <1>0, <1>1, <1>15, <2>1, HistorySame
<1>19. FindsOn(H, H)
  <2>1. \A n : Found(H, n, meta.deltaGen) => Found(H, n, meta.deltaGen)' BY <1>1 DEF Found, Rec
  <2> QED BY <2>1 DEF FindsOn
<1>20. InsertStep(b)
  <2>1. HeapStep
    <3> SUFFICES ASSUME NEW x \in Tids
                 PROVE  /\ heap[x].state # "free" => heap'[x].row = heap[x].row /\ heap'[x].state # "free"
                        /\ heap[x].state \in {"live", "dead"} => heap'[x] = heap[x]
                        /\ heap'[x].row \in 0..Len(rows') /\ (heap'[x].state # "free" => heap'[x].row # 0)
      BY DEF HeapStep
    <3>1. heap[x].row \in 0..Len(rows) /\ (heap[x].state # "free" => heap[x].row # 0) BY <1>0 DEF HeapOk
    <3>2. CASE x = t
      <4>1. heap'[x].state \in {"live", "inserting"} BY <1>6, <3>2
      <4>2. heap'[x].row = heap[x].row BY <1>6, <1>r, <3>2
      <4> QED BY <1>1, <1>5, <3>1, <3>2, <4>1, <4>2
    <3>3. CASE x # t BY <1>1, <1>6, <3>1, <3>3
    <3> QED BY <3>2, <3>3
  <2>2. NodeStep
    <3>1. heap'[t].state # "free" BY <1>6
    <3>2. \A n \in Nodes' \ Nodes : n = N BY <1>9
    <3> QED BY <1>5, <1>6, <1>9, <3>1, <3>2 DEF NodeStep, Holds
  <2>3. Sizes(b)
    <3>1. pc'[b] # "graph" BY <1>4
    <3>2. Count' <= Len(rows') BY <1>0, <1>1, <1>9, <1>10, Numbers
    <3> QED BY <1>0, <1>1, <3>1, <3>2 DEF Sizes, Turns
  <2>4. pc'[b] \notin QueryPcs BY <1>4 DEF QueryPcs
  <2> QED BY <1>1, <1>2, <1>4, <2>1, <2>2, <2>3, <2>4 DEF InsertStep
<1>21. NewLive(H)
  <2> SUFFICES ASSUME NEW x \in Tids, heap'[x].state = "live", heap[x].state # "live",
                      rows'[heap'[x].row] \notin {NoText, {}}
               PROVE FALSE
    BY DEF NewLive
  <2>1. x = t BY <1>6
  <2>2. op[b].text = NoText BY <1>6, <2>1
  <2> QED BY <1>1, <1>5, <1>6, <2>1, <2>2
<1>22. InsertOk(o, b)'
  <2>1. CASE op[b].text = NoText BY <1>4, <2>1 DEF InsertOk, Inserting, NoOp
  <2>2. CASE op[b].text # NoText
    <3>1. pc'[b] = "tail" /\ i.node = N /\ i.tid = t /\ i.text = op[b].text BY <1>4, <1>11, <2>2
    <3>2. NodeOf(N, t, r)' BY <1>9 DEF NodeOf
    <3>3. \A p \in Spots' : Rec(p)'.node # N BY <1>0, <1>9, <1>14 DEF Docs, RecOk
    <3>4. ASSUME NEW k \in 1..Len(base) PROVE base[k].len[N] = 0
      <4>1. BaseOk(base[k]) BY <1>0 DEF Docs
      <4> QED BY <1>9, <1>10, <4>1 DEF BaseOk
    <3>5. heap'[t].state = "inserting" /\ heap'[t].row = r BY <1>6, <2>2
    <3> QED BY <1>1, <1>4, <1>5, <2>2, <3>1, <3>2, <3>3, <3>4, <3>5 DEF InsertOk
  <2> QED BY <2>1, <2>2
<1>23. CursorOk(o, b)' BY <1>0, <1>1, <1>15, CursorGrows
<1>24. Same(o, o)
  <2>1. \A n \in Nodes : TextOf(n)' = TextOf(n) BY <1>1, <1>9 DEF TextOf
  <2>2. \A n : Listed(o, n)' <=> Listed(o, n) BY <1>1, <1>14 DEF Listed, Of
  <2>3. ~Listed(o, N) BY <1>0, <1>9 DEF Listed, Of, Docs, RecOk
  <2>4. base[meta.base].len[N] = 0
    <3>1. BaseOk(base[meta.base]) BY <1>0, MetaNow DEF Docs, MetaOk
    <3> QED BY <1>9, <1>10, <3>1 DEF BaseOk
  <2>5. ~Indexed(o, N) /\ ~Indexed(o, N)' BY <1>1, <1>9, <2>2, <2>3, <2>4 DEF Indexed
  <2>6. \A n \in Nodes : Indexed(o, n)' <=> Indexed(o, n) BY <1>1, <1>9, <2>1, <2>2 DEF Indexed
  <2>7. \A n : n \notin Nodes /\ n # N => ~Indexed(o, n)' /\ ~Indexed(o, n) BY <1>9 DEF Indexed
  <2>8. Gone' = Gone BY <1>9 DEF Gone
  <2> QED BY <2>5, <2>6, <2>7, <2>8 DEF Same
<1> QED BY <1>24, <1>13, <1>15, <1>16, <1>17, <1>18, <1>19, <1>20, <1>21, <1>22, <1>23, InsertFrame

LEMMA A_AppendRecord ==
  ASSUME NEW o, NEW H, Good(o, H), NEW b \in Backends, AppendRecord(b) 
  PROVE  \E u : Good(u, H)' /\ Implements(o, u)
<1>0. Typed /\ Turns /\ Pages(o) /\ Docs /\ History(o, H) /\ HeapOk(H) /\ InsertOk(o, b) /\ CursorOk(o, b)
  BY DEF Good, Shape
<1>j. PICK j : j = op[b] OBVIOUS
<1>f. PICK from : from = IF j.tail # Nil THEN j.tail ELSE j.start OBVIOUS
<1>t. PICK tup : tup = [node |-> j.node, tid |-> j.tid, text |-> j.text] OBVIOUS
<1>a. PICK a : a = AppendAt(from, tup) OBVIOUS
<1>i. PICK i : i = [j EXCEPT !.start = IF j.start = Nil THEN a.start ELSE j.start, !.tail = a.blk] OBVIOUS
<1>1. /\ pc[b] = "append" /\ dpage' = AppendAt(from, tup).pages
      /\ op' = [op EXCEPT ![b] = i] /\ pc' = [pc EXCEPT ![b] = "meta"]
      /\ graph' = graph /\ base' = base /\ meta' = meta /\ heap' = heap /\ rows' = rows
      /\ cache' = cache /\ cursor' = cursor /\ vac' = vac /\ bounds' = bounds
  BY <1>j, <1>f, <1>t, <1>a, <1>i DEF AppendRecord, Goto
<1>2. /\ j \in InsertOp /\ Inserting(b) /\ ~Compacting /\ \A x \in Backends \ {b} : ~Inserting(x)
  BY <1>0, <1>1, <1>j, OwnInsert DEF InsertPcs
<1>3. /\ op = [x \in Backends |-> op[x]] /\ pc = [p \in Backends \cup {Vacuum} |-> pc[p]] /\ Vacuum \notin Backends
      /\ dpage \in Seq(PageType)
  BY <1>0, Basics DEF Typed
<1>4. /\ op'[b] = i /\ pc'[b] = "meta" /\ pc'[Vacuum] = pc[Vacuum]
      /\ \A x \in Backends \ {b} : op'[x] = op[x] /\ pc'[x] = pc[x]
  BY <1>1, <1>3
<1>5. /\ heap[j.tid].state = "inserting" /\ j.text = rows[heap[j.tid].row]
      /\ NodeOf(j.node, j.tid, heap[j.tid].row) /\ j.text # NoText
      /\ \A p \in Spots : Rec(p).node # j.node
      /\ \A k \in 1..Len(base) : base[k].len[j.node] = 0
      /\ j.start = meta.deltaStart /\ (j.start = Nil <=> j.tail = Nil)
      /\ j.tail # Nil => j.tail \in Blocks /\ o[j.tail] = j.start
  BY <1>0, <1>1, <1>2, <1>j DEF InsertOk
<1>6. tup \in RecType /\ tup.node = j.node /\ tup.text = j.text BY <1>2, <1>t DEF RecType, InsertOp
<1>7. (from = Nil <=> j.start = Nil) /\ (from # Nil => from \in Blocks /\ o[from] = j.start) BY <1>5, <1>f
<1>8. PICK u, q : /\ Put(o, u, q, tup) /\ a.blk = q[1]
                  /\ from # Nil => a.start = from /\ u[q[1]] = o[from]
                  /\ from = Nil => a.start = q[1] /\ u[q[1]] = q[1] /\ q[1] \notin Blocks
  BY <1>0, <1>1, <1>3, <1>6, <1>7, <1>a, PutRecord
<1>9. /\ dpage' \in Seq(PageType) /\ Pages(u)' /\ Blocks \subseteq Blocks'
      /\ \A x \in Blocks : u[x] = o[x]
      /\ q \notin Spots /\ Spots' = Spots \cup {q}
      /\ \A p \in Spots : Rec(p)' = Rec(p)
      /\ Rec(q)' = tup /\ q[1] \in Blocks' /\ q[1] \in Nat
  <2>1. \A x \in Blocks' : x \in Nat BY DEF Blocks
  <2> QED BY <1>8, <2>1 DEF Put
<1>10. /\ i \in InsertOp /\ i.tail = q[1] /\ i.node = j.node /\ i.tid = j.tid /\ i.text = j.text /\ i.kind = "insert"
       /\ i.start = IF j.start = Nil THEN q[1] ELSE j.start
  BY <1>2, <1>7, <1>8, <1>9, <1>i DEF InsertOp
<1>11. u[q[1]] = i.start /\ (j.start = Nil => q[1] \notin Blocks) BY <1>7, <1>8, <1>10
<1>12. OpTyped(b)' BY <1>4, <1>10 DEF OpTyped, InsertPcs
<1>13. Typed'
  <2>1. VacTyped' /\ \A x \in Backends : OpTyped(x)' BY <1>0, <1>1, <1>4, <1>12, OpsTyped DEF VacTyped
  <2>2. op' = [x \in Backends |-> op'[x]] /\ pc' = [p \in Backends \cup {Vacuum} |-> pc'[p]] BY <1>1, <1>3
  <2>3. /\ graph' = graph /\ base' = base /\ meta' = meta /\ heap' = heap /\ rows' = rows
        /\ cache' = cache /\ cursor' = cursor /\ bounds' = bounds BY <1>1
  <2> HIDE <1>1
  <2> QED BY <1>0, <1>9, <2>1, <2>2, <2>3 DEF Typed
<1>14. /\ Nodes' = Nodes /\ Count' = Count /\ \A n : Tid(n)' = Tid(n) /\ Row(n)' = Row(n) /\ Dead(n)' = Dead(n)
  BY <1>1 DEF Nodes, Count, Tid, Row, Dead, NodeState
<1>15. Grow(o, H, u, H)
  <2>1. Count \in Nat /\ Len(base) \in Nat /\ Len(rows) \in Nat /\ graph.gen \in Nat /\ meta.deltaGen \in Nat
    BY <1>0, Numbers
  <2> QED BY <1>1, <1>9, <1>14, <2>1 DEF Grow
<1>16. Docs'
  <2>1. /\ \A n \in Nodes : Row(n)' \in 1..Len(rows') /\ TextOf(n)' = TextOf(n)
        /\ \A p \in Spots : RecOk(p)'
        /\ \A B : BaseOk(B) => BaseOk(B)'
    BY <1>0, <1>15, DocsGrow
  <2>2. \A k \in 1..Len(base) : BaseOk(base[k])'
    <3> TAKE k \in 1..Len(base)
    <3>1. PICK B : B = base[k] OBVIOUS
    <3>2. BaseOk(B) BY <1>0, <3>1 DEF Docs
    <3>3. BaseOk(B)' BY <2>1, <3>2
    <3> QED BY <1>1, <3>1, <3>3
  <2>3. RecOk(q)'
    <3>1. j.node \in Nodes /\ TextOf(j.node) = j.text BY <1>5 DEF NodeOf, TextOf
    <3>2. TextOf(j.node)' = j.text BY <2>1, <3>1
    <3> QED BY <1>5, <1>6, <1>9, <1>14, <3>1, <3>2 DEF RecOk
  <2>4. \A p, x \in Spots' : Rec(p)'.node = Rec(x)'.node => p = x
    <3>1. \A p, x \in Spots : Rec(p).node = Rec(x).node => p = x BY <1>0 DEF Docs
    <3> QED BY <1>5, <1>6, <1>9, <3>1
  <2>5. \A p \in Spots' : RecOk(p)' BY <1>9, <2>1, <2>3
  <2> QED BY <1>1, <1>14, <2>1, <2>2, <2>4, <2>5 DEF Docs
<1>17. NewApart BY <1>5, <1>6, <1>9 DEF NewApart
<1>18. History(u, H)' BY <1>0, <1>1, <1>15, <1>17, HistorySame
<1>19. FindsOn(H, H)
  <2>1. ASSUME NEW n, Found(H, n, meta.deltaGen) PROVE Found(H, n, meta.deltaGen)'
    <3>1. PICK g : g = meta.deltaGen OBVIOUS
    <3>2. g \in 0..meta.deltaGen /\ Found(H, n, g) BY <1>0, <2>1, <3>1, Numbers
    <3>3. Found(H, n, g)' BY <1>0, <1>15, <3>2, FoundGrows
    <3> QED BY <1>1, <3>1, <3>3
  <2> QED BY <2>1 DEF FindsOn
<1>20. InsertStep(b)
  <2>1. HeapStep BY <1>0, <1>1 DEF HeapStep, HeapOk
  <2>2. NodeStep BY <1>14 DEF NodeStep
  <2>3. Sizes(b) BY <1>0, <1>1, <1>4 DEF Sizes, Turns, Count
  <2> QED BY <1>1, <1>2, <1>4, <2>1, <2>2, <2>3 DEF InsertStep, QueryPcs
<1>21. NewLive(H) BY <1>1 DEF NewLive
<1>22. CursorOk(u, b)' BY <1>0, <1>1, <1>15, CursorGrows
<1>23. InsertOk(u, b)'
  <2>s. PICK s : s = i.start OBVIOUS
  <2>r. PICK r : r = heap[j.tid].row OBVIOUS
  <2>1. NodeOf(i.node, i.tid, r)' BY <1>5, <1>10, <1>14, <2>r DEF NodeOf
  <2>2. q \in Of(u, s)' BY <1>9, <1>11, <2>s DEF Of
  <2>3. ASSUME NEW p \in Of(u, s)', p # q PROVE j.start # Nil /\ p \in Of(o, meta.deltaStart)
    <3>1. p \in Spots /\ p[1] \in Blocks /\ u[p[1]] = s BY <1>9, <2>3 DEF Of, Spots
    <3>2. o[p[1]] = s /\ o[p[1]] \in Blocks BY <1>0, <1>9, <3>1 DEF Pages
    <3> QED BY <1>5, <1>10, <1>11, <2>s, <3>1, <3>2 DEF Of
  <2>4. \A p \in Of(u, s)' : meta.deltaStart = Nil => Rec(p)'.node = i.node BY <1>5, <1>6, <1>9, <1>10, <2>3
  <2>5. Apart(base[meta.base], Of(o, meta.deltaStart)) /\ meta.base \in 1..Len(base) BY <1>0, MetaNow DEF MetaOk
  <2>6. ASSUME NEW p \in Of(u, s)' PROVE base'[meta'.base].len[Rec(p)'.node] = 0
    <3>1. CASE p = q BY <1>1, <1>5, <1>6, <1>9, <2>5, <3>1
    <3>2. CASE p # q
      <4>1. p \in Of(o, meta.deltaStart) BY <2>3, <3>2
      <4>2. p \in Spots BY <4>1 DEF Of
      <4> QED BY <1>1, <1>9, <2>5, <4>1, <4>2 DEF Apart
    <3> QED BY <3>1, <3>2
  <2>7. Of(u, op[b].start)' = Of(u, s)' BY <1>4, <2>s
  <2>8. Apart(base[meta.base], Of(u, op[b].start))' BY <2>6, <2>7 DEF Apart
  <2>9. \E p \in Of(u, op[b].start)' : Rec(p)'.node = i.node BY <1>6, <1>9, <1>10, <2>2, <2>7
  <2>10. NodeOf(op[b].node, op[b].tid, heap[op[b].tid].row)' BY <1>1, <1>4, <1>10, <2>1, <2>r
  <2>11. meta'.deltaStart \in {Nil, i.start} BY <1>1, <1>5, <1>10
  <2> QED BY <1>1, <1>4, <1>5, <1>9, <1>10, <1>11, <2>4, <2>7, <2>8, <2>9, <2>10, <2>11 DEF InsertOk
<1>24. Pages(u)' BY <1>9
<1>25. Good(u, H)' BY <1>13, <1>15, <1>16, <1>18, <1>19, <1>20, <1>21, <1>22, <1>23, <1>24, InsertFrame
<1>26. PICK k : k = j.node OBVIOUS
<1>27. \A n : Listed(u, n)' <=> Listed(o, n) \/ (meta.deltaStart # Nil /\ n = k)
  <2>1. CASE meta.deltaStart = Nil
    <3>1. Of(u, Nil)' = {} BY <1>9 DEF Of, Pages, Spots, Blocks, Nil
    <3>2. Of(o, Nil) = {} BY <1>0, NoRecords
    <3> QED BY <1>1, <2>1, <3>1, <3>2 DEF Listed
  <2>2. CASE meta.deltaStart # Nil
    <3>s. PICK s : s = meta.deltaStart OBVIOUS
    <3>1. u[q[1]] = s /\ \A p \in Spots : p[1] \in Blocks BY <1>5, <1>10, <1>11, <2>2, <3>s DEF Spots
    <3>2. Of(u, s)' = Of(o, s) \cup {q} BY <1>9, <3>1 DEF Of
    <3>3. \A p \in Of(o, s) : Rec(p)' = Rec(p) BY <1>9 DEF Of
    <3> HIDE DEF Of
    <3> QED BY <1>1, <1>6, <1>9, <1>26, <2>2, <3>s, <3>2, <3>3 DEF Listed
  <2> QED BY <2>1, <2>2
<1>28. /\ k \in Nodes /\ k \in NodeIds /\ ~Dead(k) /\ TextOf(k) = j.text /\ j.text # NoText /\ k \notin Gone
  BY <1>0, <1>5, <1>26, NodesAreIds DEF NodeOf, TextOf, Gone
<1>29. ~Indexed(o, k)
  <2>1. ~Listed(o, k) BY <1>5, <1>26 DEF Listed, Of
  <2>2. base[meta.base].len[k] = 0 BY <1>0, <1>5, <1>26, MetaNow DEF MetaOk
  <2> QED BY <2>1, <2>2 DEF Indexed
<1>30. Gone' = Gone /\ \A n : TextOf(n)' = TextOf(n) BY <1>1, <1>14 DEF Gone, TextOf
<1>31. ASSUME NEW n, n # k \/ meta.deltaStart = Nil \/ j.text = {} PROVE Indexed(u, n)' <=> Indexed(o, n)
  BY <1>1, <1>14, <1>27, <1>28, <1>30, <1>31 DEF Indexed
<1>32. Implements(o, u)
  <2>1. CASE meta.deltaStart = Nil \/ j.text = {} BY <1>30, <1>31, <2>1 DEF Implements, Same
  <2>2. CASE meta.deltaStart # Nil /\ j.text # {}
    <3>1. Indexed(u, k)' BY <1>1, <1>14, <1>27, <1>28, <1>30, <2>2 DEF Indexed
    <3>2. Added(o, u, k) BY <1>28, <1>29, <1>30, <1>31, <3>1 DEF Added
    <3> QED BY <1>28, <3>2 DEF Implements
  <2> QED BY <2>1, <2>2
<1> QED BY <1>25, <1>32

LEMMA A_UpdateMeta ==
  ASSUME NEW o, NEW H, Good(o, H), NEW b \in Backends, UpdateMeta(b)
  PROVE  \E J : Good(o, J)' /\ Implements(o, o)
<1>0. Typed /\ Turns /\ Pages(o) /\ Docs /\ History(o, H) /\ HeapOk(H) /\ InsertOk(o, b) /\ CursorOk(o, b)
  BY DEF Good, Shape
<1>j. PICK j : j = op[b] OBVIOUS
<1>t. PICK t : t = j.tid OBVIOUS
<1>r. PICK r : r = heap[t].row OBVIOUS
<1>c. PICK c : c = [start |-> j.start, tail |-> j.tail, gen |-> meta'.deltaGen] OBVIOUS
<1>1. /\ pc[b] = "meta" /\ meta' = WithRecord(j.start) /\ cursor' = [cursor EXCEPT ![b] = c]
      /\ cache' = [cache EXCEPT ![b] = NoCache]
      /\ op' = [op EXCEPT ![b] = NoOp] /\ pc' = [pc EXCEPT ![b] = "idle"]
      /\ heap' = [heap EXCEPT ![t].state = "live"]
      /\ graph' = graph /\ base' = base /\ dpage' = dpage /\ rows' = rows /\ vac' = vac /\ bounds' = bounds
  BY <1>j, <1>c, <1>t DEF UpdateMeta, Goto, Done
<1>2. /\ j \in InsertOp /\ Inserting(b) /\ ~Compacting /\ \A a \in Backends \ {b} : ~Inserting(a)
  BY <1>0, <1>1, <1>j, OwnInsert DEF InsertPcs
<1>3. /\ op = [a \in Backends |-> op[a]] /\ pc = [p \in Backends \cup {Vacuum} |-> pc[p]] /\ Vacuum \notin Backends
      /\ cache = [a \in Backends |-> cache[a]] /\ meta \in MetaType /\ heap \in [Tids -> HeapType]
      /\ cursor \in [Backends -> [start : Nat, tail : Nat, gen : Nat]]
  BY <1>0, Basics DEF Typed
<1>4. /\ op'[b] = NoOp /\ pc'[b] = "idle" /\ pc'[Vacuum] = pc[Vacuum] /\ cache'[b] = NoCache /\ cursor'[b] = c
      /\ \A a \in Backends \ {b} : op'[a] = op[a] /\ pc'[a] = pc[a] /\ cache'[a] = cache[a] /\ cursor'[a] = cursor[a]
  BY <1>1, <1>3
<1>5. /\ heap[t].state = "inserting" /\ j.text = rows[r] /\ t \in Tids
      /\ NodeOf(j.node, t, r) /\ j.tail \in Blocks /\ o[j.tail] = j.start
      /\ meta.deltaStart \in {Nil, j.start}
      /\ \E p \in Of(o, j.start) : Rec(p).node = j.node
      /\ Apart(base[meta.base], Of(o, j.start))
  BY <1>0, <1>1, <1>2, <1>j, <1>t, <1>r DEF InsertOk, InsertOp
<1>6. j.start \in Nat /\ j.tail \in Nat /\ j.start \in Blocks /\ o[j.start] = j.start /\ j.start # Nil /\ j.tail # Nil
  <2>1. Linked(o, j.tail) /\ o[j.tail] \in Blocks BY <1>0, <1>5 DEF Pages
  <2> QED BY <1>5, <2>1 DEF Linked, Blocks, Nil
<1>7. /\ meta' \in MetaType /\ meta'.deltaStart = j.start /\ meta'.deltaGen = meta.deltaGen + 1
      /\ meta'.deltaDocs = meta.deltaDocs + 1 /\ meta'.base = meta.base
      /\ meta.deltaGen \in Nat /\ meta.deltaDocs \in Nat
  <2>1. meta \in MetaType /\ j.start \in Nat BY <1>3, <1>6
  <2>2. meta' = [meta EXCEPT !.deltaStart = j.start, !.deltaGen = meta.deltaGen + 1, !.deltaDocs = meta.deltaDocs + 1]
    BY <1>1 DEF WithRecord
  <2>3. meta.deltaGen \in Nat /\ meta.deltaDocs \in Nat BY <2>1 DEF MetaType
  <2>4. meta.deltaGen + 1 \in Nat /\ meta.deltaDocs + 1 \in Nat BY <2>3
  <2> QED BY ONLY <2>1, <2>2, <2>3, <2>4 DEF MetaType
<1>8. c \in [start : Nat, tail : Nat, gen : Nat] /\ c.start = j.start /\ c.tail = j.tail BY <1>6, <1>7, <1>c
<1>9. /\ heap' \in [Tids -> HeapType] /\ heap'[t].row = r /\ heap'[t].state = "live"
      /\ \A x \in Tids : x # t => heap'[x] = heap[x]
  <2>1. heap[t] \in HeapType BY <1>3, <1>5
  <2> QED BY <1>1, <1>3, <1>5, <1>r, <2>1 DEF HeapType
<1>10. Typed'
  <2>0. OpTyped(b)' BY <1>4 DEF OpTyped
  <2>1. VacTyped' /\ \A a \in Backends : OpTyped(a)' BY <1>0, <1>1, <1>4, <2>0, OpsTyped DEF VacTyped
  <2>2. /\ op' = [a \in Backends |-> op'[a]] /\ pc' = [p \in Backends \cup {Vacuum} |-> pc'[p]]
        /\ cache' = [a \in Backends |-> cache'[a]]
    BY <1>1, <1>3
  <2>3. cursor' \in [Backends -> [start : Nat, tail : Nat, gen : Nat]] BY <1>1, <1>3, <1>8
  <2> QED BY <1>0, <1>1, <1>7, <1>9, <2>1, <2>2, <2>3 DEF Typed
<1>11. /\ Nodes' = Nodes /\ Count' = Count /\ Blocks' = Blocks /\ Spots' = Spots
       /\ \A n : Tid(n)' = Tid(n) /\ Row(n)' = Row(n) /\ Dead(n)' = Dead(n)
       /\ \A p : Rec(p)' = Rec(p)
  BY <1>1 DEF Nodes, Count, Blocks, Spots, Tid, Row, Dead, NodeState, Rec
<1>12. \A s : Of(o, s)' = Of(o, s) BY <1>11 DEF Of
<1>h. PICK h : h = [meta |-> meta', recs |-> Of(o, j.start)] OBVIOUS
<1>J. PICK J : J = Longer(H, h) OBVIOUS
<1>G. PICK G : G = meta'.deltaGen OBVIOUS
<1>13. /\ G = meta.deltaGen + 1 /\ J = [g \in 0..G |-> IF g = G THEN h ELSE H[g]] BY <1>7, <1>J, <1>G DEF Longer
<1>14. J[G] = h /\ \A g \in 0..meta.deltaGen : J[g] = H[g]
  <2>1. G \in 0..G /\ \A g \in 0..meta.deltaGen : g \in 0..G /\ g # G BY <1>7, <1>13
  <2> QED BY <1>13, <2>1
<1>15. Grow(o, H, o, J)
  <2>1. Count \in Nat /\ Len(base) \in Nat /\ Len(rows) \in Nat /\ graph.gen \in Nat BY <1>0, Numbers
  <2>2. meta.deltaGen <= meta'.deltaGen /\ meta'.deltaGen \in Nat BY <1>7
  <2> QED BY <1>1, <1>11, <1>14, <2>1, <2>2 DEF Grow
<1>16. Pages(o)' BY <1>0, <1>1 DEF Pages, Linked, Blocks
<1>17. Docs'
  <2>1. /\ \A n \in Nodes : Row(n)' \in 1..Len(rows')
        /\ \A p \in Spots : RecOk(p)'
        /\ \A B : BaseOk(B) => BaseOk(B)'
    BY <1>0, <1>15, DocsGrow
  <2>2. \A k \in 1..Len(base) : BaseOk(base[k])'
    <3> TAKE k \in 1..Len(base)
    <3>1. PICK B : B = base[k] OBVIOUS
    <3>2. BaseOk(B) BY <1>0, <3>1 DEF Docs
    <3>3. BaseOk(B)' BY <2>1, <3>2
    <3> QED BY <1>1, <3>1, <3>3
  <2> QED BY <1>0, <1>1, <1>11, <2>1, <2>2 DEF Docs
<1>18. NewApart BY <1>11 DEF NewApart
<1>19. h.meta = meta' /\ h.recs = Of(o, j.start) BY <1>h
<1>20. MetaOk(o, h.meta)'
  <2>m. PICK m : m = meta' OBVIOUS
  <2>1. /\ m \in MetaType /\ m.base = meta.base /\ m.deltaStart = j.start /\ m.deltaDocs = meta.deltaDocs + 1
    BY <1>7, <2>m
  <2>2. meta.base \in 1..Len(base) BY <1>0, MetaNow DEF MetaOk
  <2>3. m.deltaDocs # 0 BY <1>7, <2>1
  <2>4. \A p \in Of(o, j.start)' : base'[m.base].len[Rec(p)'.node] = 0 BY <1>1, <1>5, <1>11, <1>12, <2>1 DEF Apart
  <2>5. MetaOk(o, m)' BY <1>1, <1>6, <1>11, <2>1, <2>2, <2>3, <2>4 DEF MetaOk, Apart
  <2> QED BY <1>19, <2>5, <2>m
<1>21. h.recs \subseteq Of(o, h.meta.deltaStart)'
  <2>1. h.meta.deltaStart = j.start BY <1>7, <1>19
  <2> QED BY <1>12, <1>19, <2>1
<1>22. History(o, J)' BY <1>0, <1>7, <1>15, <1>18, <1>19, <1>20, <1>21, <1>J, HistoryMore
<1>23. ASSUME NEW n, \/ base[meta.base].len[n] # 0
                     \/ \E p \in Of(o, j.start) : Rec(p).node = n
       PROVE  Found(J, n, meta.deltaGen)'
  <2>1. Found(J, n, G)' BY <1>1, <1>7, <1>11, <1>14, <1>19, <1>23 DEF Found
  <2> QED BY <1>G, <2>1
<1>24. FindsOn(H, J)
  <2>1. ASSUME NEW n, Found(H, n, meta.deltaGen) PROVE Found(J, n, meta.deltaGen)'
    <3>1. H[meta.deltaGen].meta = meta /\ H[meta.deltaGen].recs \subseteq Of(o, meta.deltaStart)
      BY <1>0, MetaNow
    <3>2. Of(o, meta.deltaStart) \subseteq Of(o, j.start)
      <4>1. CASE meta.deltaStart = Nil BY <1>0, <4>1, NoRecords
      <4>2. CASE meta.deltaStart = j.start BY <4>2
      <4> QED BY <1>5, <4>1, <4>2
    <3> QED BY <1>23, <2>1, <3>1, <3>2 DEF Found
  <2> QED BY <2>1 DEF FindsOn
<1>25. InsertStep(b)
  <2>1. HeapStep
    <3> SUFFICES ASSUME NEW x \in Tids
                 PROVE  /\ heap[x].state # "free" => heap'[x].row = heap[x].row /\ heap'[x].state # "free"
                        /\ heap[x].state \in {"live", "dead"} => heap'[x] = heap[x]
                        /\ heap'[x].row \in 0..Len(rows') /\ (heap'[x].state # "free" => heap'[x].row # 0)
      BY DEF HeapStep
    <3>1. heap[x].row \in 0..Len(rows) /\ (heap[x].state # "free" => heap[x].row # 0) BY <1>0 DEF HeapOk
    <3>2. CASE x = t BY <1>1, <1>5, <1>9, <1>r, <3>1, <3>2
    <3>3. CASE x # t BY <1>1, <1>9, <3>1, <3>3
    <3> QED BY <3>2, <3>3
  <2>2. NodeStep BY <1>11 DEF NodeStep
  <2>3. Sizes(b) BY <1>0, <1>1, <1>4 DEF Sizes, Turns, Count
  <2> QED BY <1>1, <1>2, <1>4, <2>1, <2>2, <2>3 DEF InsertStep, QueryPcs
<1>26. NewLive(J)
  <2> SUFFICES ASSUME NEW x \in Tids, heap'[x].state = "live", heap[x].state # "live"
               PROVE  \E n \in Nodes' : NodeOf(n, x, heap[x].row)' /\ Found(J, n, meta.deltaGen)'
    BY DEF NewLive
  <2>1. x = t BY <1>9
  <2>2. NodeOf(j.node, t, r)' BY <1>5, <1>11 DEF NodeOf
  <2>3. NodeOf(j.node, x, heap[x].row)' BY <1>9, <2>1, <2>2
  <2>4. Found(J, j.node, meta.deltaGen)' BY <1>5, <1>23
  <2> QED BY <1>5, <1>11, <2>3, <2>4 DEF NodeOf
<1>27. CursorOk(o, b)' BY <1>4, <1>5, <1>6, <1>8, <1>11 DEF CursorOk
<1>28. InsertOk(o, b)' BY <1>4 DEF InsertOk, Inserting, NoOp
<1>29. Good(o, J)' BY <1>10, <1>15, <1>16, <1>17, <1>22, <1>24, <1>25, <1>26, <1>27, <1>28, InsertFrame
<1>30. PICK k : k = j.node OBVIOUS
<1>31. /\ k \in Nodes /\ k \in NodeIds /\ ~Dead(k) /\ TextOf(k) = j.text /\ k \notin Gone /\ j.text # NoText
  <2>1. j.text # NoText BY <1>0, <1>1, <1>2, <1>j DEF InsertOk
  <2> QED BY <1>0, <1>5, <1>30, <2>1, NodesAreIds DEF NodeOf, TextOf, Gone
<1>32. Gone' = Gone /\ \A n : TextOf(n)' = TextOf(n) BY <1>1, <1>11 DEF Gone, TextOf
<1>33. \A n : Listed(o, n)' <=> \E p \in Of(o, j.start) : Rec(p).node = n BY <1>7, <1>11, <1>12 DEF Listed
<1>34. Implements(o, o)
  <2>1. CASE meta.deltaStart = j.start
    <3>1. \A n : Listed(o, n)' <=> Listed(o, n) BY <1>33, <2>1 DEF Listed
    <3>2. \A n : Indexed(o, n)' <=> Indexed(o, n) BY <1>1, <1>7, <1>11, <1>32, <3>1 DEF Indexed
    <3> QED BY <1>32, <3>2 DEF Implements, Same
  <2>2. CASE meta.deltaStart = Nil
    <3>1. \A p \in Of(o, j.start) : Rec(p).node = k BY <1>0, <1>1, <1>2, <1>30, <1>j, <2>2 DEF InsertOk
    <3>2. \A n : Listed(o, n)' <=> n = k BY <1>5, <1>30, <1>33, <3>1
    <3>3. \A n : ~Listed(o, n) BY <1>0, <2>2, NoRecords DEF Listed
    <3>4. base[meta.base].len[k] = 0 BY <1>5, <3>1 DEF Apart
    <3>5. ~Indexed(o, k) BY <3>3, <3>4 DEF Indexed
    <3>6. \A n : n # k => (Indexed(o, n)' <=> Indexed(o, n)) BY <1>1, <1>7, <1>11, <1>32, <3>2, <3>3 DEF Indexed
    <3>7. CASE j.text = {}
      <4>1. ~Indexed(o, k)' BY <1>31, <1>32, <3>7 DEF Indexed
      <4> QED BY <1>32, <3>5, <3>6, <4>1 DEF Implements, Same
    <3>8. CASE j.text # {}
      <4>1. Indexed(o, k)' BY <1>11, <1>31, <1>32, <3>2, <3>8 DEF Indexed
      <4>2. Added(o, o, k) BY <1>31, <1>32, <3>5, <3>6, <4>1 DEF Added
      <4> QED BY <1>31, <4>2 DEF Implements
    <3> QED BY <3>7, <3>8
  <2> QED BY <1>5, <2>1, <2>2
<1> QED BY <1>29, <1>34

\* VACUUM marks nodes of TIDs it takes away, or frees these TIDs
ReapStep ==
  /\ UNCHANGED <<base, dpage, meta, rows, cache, cursor, op, bounds>>
  /\ pc' = [pc EXCEPT ![Vacuum] = pc'[Vacuum]]
  /\ pc[Vacuum] \in {"mark", "reap"} /\ pc'[Vacuum] \in {"reap", "cleanup"}
  /\ vac' \in VacMark /\ vac'.dead = vac.dead
  /\ graph' \in [gen : Nat, node : Seq(NodeType)] /\ graph.gen <= graph'.gen
  /\ Count' = Count
  /\ \A n \in Nodes : /\ Tid(n)' = Tid(n) /\ Row(n)' = Row(n) /\ (Dead(n) => Dead(n)')
                      /\ Dead(n)' => Dead(n) \/ Tid(n) \in vac.dead
                      /\ ~Dead(n)' => heap'[Tid(n)] = heap[Tid(n)]
  /\ heap' \in [Tids -> HeapType]
  /\ \A t \in Tids : heap'[t] = heap[t] \/ (t \in vac.dead /\ heap'[t] = NoRow)
LEMMA ReapFrame ==
  ASSUME NEW o, NEW H, Good(o, H), ReapStep, KeptOn, pc'[Vacuum] = "reap" => heap' = heap /\ VacOk(o)'
  PROVE  Good(o, H)'
<1>0. Typed /\ Turns /\ Pages(o) /\ Docs /\ History(o, H) /\ HeapOk(H) /\ VacOk(o) BY DEF Good, Shape
<1>1. /\ base' = base /\ dpage' = dpage /\ meta' = meta /\ rows' = rows /\ cache' = cache /\ cursor' = cursor
      /\ op' = op /\ bounds' = bounds /\ pc' = [pc EXCEPT ![Vacuum] = pc'[Vacuum]]
      /\ pc[Vacuum] \in {"mark", "reap"} /\ pc'[Vacuum] \in {"reap", "cleanup"}
      /\ vac' \in VacMark /\ vac'.dead = vac.dead
      /\ graph' \in [gen : Nat, node : Seq(NodeType)] /\ graph.gen <= graph'.gen /\ Count' = Count
      /\ heap' \in [Tids -> HeapType]
      /\ \A t \in Tids : heap'[t] = heap[t] \/ (t \in vac.dead /\ heap'[t] = NoRow)
  BY DEF ReapStep
<1>2. pc = [p \in Backends \cup {Vacuum} |-> pc[p]] /\ Vacuum \notin Backends BY <1>0, Basics DEF Typed
<1>3. /\ pc' = [p \in Backends \cup {Vacuum} |-> pc'[p]]
      /\ \A b \in Backends : pc'[b] = pc[b]
  BY <1>1, <1>2
<1>4. vac.dead \subseteq Tids /\ \A t \in vac.dead : heap[t].state = "dead"
  <2>1. vac \in VacMark BY <1>0, <1>1 DEF Typed, VacTyped
  <2> QED BY <1>0, <1>1, <2>1 DEF VacOk, VacMark
<1>5. Typed'
  <2>1. VacTyped' BY <1>1 DEF VacTyped
  <2>2. \A b \in Backends : OpTyped(b)' BY <1>0, <1>1, <1>3 DEF Typed, OpTyped
  <2> QED BY <1>0, <1>1, <1>3, <2>1, <2>2 DEF Typed
<1>6. ~Compacting' /\ ~Compacting BY <1>1 DEF Compacting
<1>7. Turns' BY <1>0, <1>1, <1>3, <1>6 DEF Turns, Inserting
<1>8. /\ Nodes' = Nodes /\ Blocks' = Blocks /\ Spots' = Spots /\ \A p : Rec(p)' = Rec(p)
  BY <1>1 DEF Nodes, Blocks, Spots, Rec
<1>9. \A n \in Nodes : /\ Tid(n)' = Tid(n) /\ Row(n)' = Row(n) /\ (Dead(n) => Dead(n)')
                       /\ Dead(n)' => Dead(n) \/ Tid(n) \in vac.dead
                       /\ ~Dead(n)' => heap'[Tid(n)] = heap[Tid(n)]
                       /\ Tid(n) \in Tids
  BY <1>0, Numbers DEF ReapStep
<1>10. Grow(o, H, o, H)
  <2>1. Count \in Nat /\ Len(base) \in Nat /\ Len(rows) \in Nat /\ meta.deltaGen \in Nat BY <1>0, Numbers
  <2>2. graph'.gen \in Nat BY <1>1
  <2> QED BY <1>1, <1>8, <1>9, <2>1, <2>2 DEF Grow
<1>11. Pages(o)' BY <1>0, <1>1 DEF Pages, Linked, Blocks
<1>12. Docs'
  <2>1. /\ \A n \in Nodes : Row(n)' \in 1..Len(rows')
        /\ \A p \in Spots : RecOk(p)'
        /\ \A B : BaseOk(B) => BaseOk(B)'
    BY <1>0, <1>10, DocsGrow
  <2>2. \A k \in 1..Len(base) : BaseOk(base[k])'
    <3> TAKE k \in 1..Len(base)
    <3>1. PICK B : B = base[k] OBVIOUS
    <3>2. BaseOk(B) BY <1>0, <3>1 DEF Docs
    <3>3. BaseOk(B)' BY <2>1, <3>2
    <3> QED BY <1>1, <3>1, <3>3
  <2> QED BY <1>0, <1>1, <1>8, <2>1, <2>2 DEF Docs
<1>13. History(o, H)'
  <2>1. NewApart BY <1>8 DEF NewApart
  <2> QED BY <1>0, <1>1, <1>10, <2>1, HistorySame
<1>14. FindsOn(H, H)
  <2>1. \A n : Found(H, n, meta.deltaGen) => Found(H, n, meta.deltaGen)' BY <1>1 DEF Found, Rec
  <2> QED BY <2>1 DEF FindsOn
<1>15. HeapOk(H)'
  <2>1. \A t \in Tids : heap'[t].row \in 0..Len(rows') /\ (heap'[t].state # "free" => heap'[t].row # 0)
    <3>1. NoRow.row = 0 /\ NoRow.state = "free" BY DEF NoRow, Nil
    <3>2. 0 \in 0..Len(rows) BY <1>0, Numbers
    <3> QED BY <1>0, <1>1, <3>1, <3>2 DEF HeapOk
  <2>2. ASSUME NEW n \in Nodes', ~Dead(n)' PROVE Holds(n)'
    <3>1. n \in Nodes BY <1>8
    <3>2. Holds(n) BY <1>0, <1>9, <2>2, <3>1 DEF HeapOk
    <3> QED BY <1>9, <2>2, <3>1, <3>2 DEF Holds
  <2>3. ASSUME NEW t \in Tids, heap'[t].state = "live", rows'[heap'[t].row] \notin {NoText, {}}
        PROVE  \E n \in Nodes' : NodeOf(n, t, heap[t].row)' /\ Found(H, n, meta.deltaGen)'
    <3>1. heap'[t] = heap[t] BY <1>1, <2>3 DEF NoRow
    <3>2. t \notin vac.dead BY <1>4, <2>3, <3>1
    <3>3. \A n \in Nodes : Tid(n) = t /\ ~Dead(n) => ~Dead(n)' BY <1>9, <3>2
    <3> QED BY <1>0, <1>10, <1>14, <2>3, <3>1, <3>3, LiveGrows
  <2> QED BY <2>1, <2>2, <2>3 DEF HeapOk
<1>16. VacOk(o)'
  <2>1. CASE pc'[Vacuum] = "reap" BY <2>1
  <2>2. CASE pc'[Vacuum] = "cleanup" BY <2>2, <1>6 DEF VacOk
  <2> QED BY <1>1, <2>1, <2>2
<1>17. ASSUME NEW b \in Backends PROVE Apart2(o, b)
  <2>1. InsertOk(o, b) /\ CursorOk(o, b) /\ QueryOk(H, b) BY DEF Good, Shape
  <2>2. InsertOk(o, b)'
    <3> SUFFICES ASSUME Inserting(b) PROVE InsertOk(o, b)' BY <1>1 DEF InsertOk, Inserting
    <3>i. PICK i : i = op[b] OBVIOUS
    <3>r. PICK r : r = heap[i.tid].row OBVIOUS
    <3>1. i.tid \in Tids
      <4>1. OpTyped(b) BY <1>0 DEF Typed
      <4> QED BY <4>1, <3>i DEF OpTyped, Inserting, NoOp, InsertOp, QueryOp
    <3>2. heap[i.tid].state = "inserting" /\ i.tid \notin vac.dead BY <1>4, <2>1, <3>i DEF InsertOk
    <3>3. heap'[i.tid] = heap[i.tid] BY <1>1, <3>1, <3>2
    <3>4. NodeOf(i.node, i.tid, r) => NodeOf(i.node, i.tid, r)' BY <1>8, <1>9, <3>2 DEF NodeOf
    <3>5. NodeOf(i.node, i.tid, r)' => NodeOf(op[b].node, op[b].tid, heap[op[b].tid].row)' BY <1>1, <3>3, <3>i, <3>r
    <3>6. Of(o, op[b].start)' = Of(o, op[b].start) BY <1>1 DEF Of, Spots, Blocks
    <3>7. Apart(base[meta.base], Of(o, op[b].start)) => Apart(base[meta.base], Of(o, op[b].start))'
      BY <1>1, <1>8, <3>6 DEF Apart
    <3>8. pc'[b] = pc[b] BY <1>3
    <3> HIDE DEF Of
    <3> QED BY <1>1, <1>8, <2>1, <3>2, <3>3, <3>4, <3>5, <3>6, <3>7, <3>8, <3>i, <3>r DEF InsertOk
  <2>3. CursorOk(o, b)' BY <1>1, <1>10, <2>1, CursorGrows
  <2>4. ASSUME pc[b] \in QueryPcs PROVE SnapOk(b)' /\ Stays(b)
    <3>1. op[b] \in QueryOp /\ SnapOk(b) BY <1>0, <2>1, <2>4, OwnQuery DEF QueryOk
    <3>2. \A y \in op[b].snap : /\ y[1] \in Tids /\ heap[y[1]].row = y[2] /\ heap[y[1]].state \in {"live", "dead"}
                                /\ y[1] \notin vac.dead
      BY <1>1, <3>1 DEF QueryOp, Version, SnapOk
    <3>3. \A y \in op[b].snap : heap'[y[1]] = heap[y[1]] BY <1>1, <3>2
    <3>4. SnapOk(b)' BY <1>1, <3>2, <3>3 DEF SnapOk
    <3>5. Stays(b) BY <1>9, <3>2 DEF Stays, NodeOf
    <3> QED BY <3>4, <3>5
  <2> QED BY <1>1, <1>3, <2>2, <2>3, <2>4 DEF Apart2
<1> QED BY <1>5, <1>7, <1>10, <1>11, <1>12, <1>13, <1>14, <1>15, <1>16, <1>17, RestFrame

\* Dead flags are set
Marked(s, kill) == [i \in 1..Len(s) |-> [s[i] EXCEPT !.dead = s[i].dead \/ i \in kill]]
MarkedOk(s, kill, e) ==
  /\ e \in Seq(NodeType) /\ Len(e) = Len(s)
  /\ \A i \in 1..Len(s) : /\ e[i].tid = s[i].tid /\ e[i].row = s[i].row
                          /\ e[i].dead <=> s[i].dead \/ i \in kill
LEMMA SetDead ==
  ASSUME NEW s, s \in Seq(NodeType), NEW kill, NEW e, e = Marked(s, kill)
  PROVE  MarkedOk(s, kill, e)
<1>0. e = [i \in 1..Len(s) |-> [s[i] EXCEPT !.dead = s[i].dead \/ i \in kill]] BY DEF Marked
<1>1. Len(s) \in Nat /\ DOMAIN s = 1..Len(s) OBVIOUS
<1>2. ASSUME NEW i \in 1..Len(s)
      PROVE  /\ e[i] \in NodeType /\ e[i].tid = s[i].tid /\ e[i].row = s[i].row
             /\ e[i].dead <=> s[i].dead \/ i \in kill
  <2>1. s[i] \in NodeType BY ElementOfSeq
  <2>2. e[i] = [s[i] EXCEPT !.dead = s[i].dead \/ i \in kill] BY <1>0, <1>1
  <2>3. s[i] = [tid |-> s[i].tid, row |-> s[i].row, dead |-> s[i].dead] /\ s[i].tid \in Tids /\ s[i].row \in Nat
    BY ONLY <2>1 DEF NodeType
  <2>4. PICK d \in BOOLEAN : d <=> s[i].dead \/ i \in kill
    <3>1. CASE s[i].dead \/ i \in kill BY <3>1
    <3>2. CASE ~(s[i].dead \/ i \in kill) BY <3>2
    <3> QED BY <3>1, <3>2
  <2>5. (s[i].dead \/ i \in kill) = d BY <2>4
  <2>6. e[i] = [tid |-> s[i].tid, row |-> s[i].row, dead |-> d] BY ONLY <2>2, <2>3, <2>5
  <2> QED BY ONLY <2>3, <2>4, <2>6 DEF NodeType
<1>3. DOMAIN e = 1..Len(s) BY <1>0, <1>1
<1>4. e = [i \in 1..Len(s) |-> e[i]] BY <1>0, <1>1
<1>5. e \in [1..Len(s) -> NodeType] BY ONLY <1>2, <1>4
<1>6. e \in Seq(NodeType) BY ONLY <1>1, <1>5, SeqDef
<1>7. Len(e) = Len(s) BY ONLY <1>1, <1>3, <1>6, LenProperties
<1> QED BY <1>2, <1>6, <1>7 DEF MarkedOk

LEMMA A_MarkDead ==
  ASSUME NEW o, NEW H, Good(o, H), MarkDead PROVE Good(o, H)' /\ Implements(o, o)
<1>0. Typed /\ Turns /\ HeapOk(H) /\ VacOk(o) BY DEF Good, Shape
<1>k. PICK kill : kill = {i \in 1..Len(graph.node) : ~graph.node[i].dead /\ graph.node[i].tid \in vac.dead} OBVIOUS
<1>s. PICK s : s = graph.node OBVIOUS
<1>f. PICK e : e = Marked(s, kill) OBVIOUS
<1>a. pc[Vacuum] = "mark" /\ graph' = [graph EXCEPT !.node = e] /\ vac' = [vac EXCEPT !.changed = kill # {}]
  <2>1. graph' = [graph EXCEPT !.node = [i \in 1..Len(graph.node) |->
                    [graph.node[i] EXCEPT !.dead = graph.node[i].dead \/ i \in kill]]]
    BY <1>k DEF MarkDead
  <2>2. graph' = [graph EXCEPT !.node = e] BY ONLY <2>1, <1>s, <1>f DEF Marked
  <2> QED BY <1>k, <2>2 DEF MarkDead
<1>1. /\ pc[Vacuum] = "mark" /\ graph' = [graph EXCEPT !.node = e]
      /\ vac' = [vac EXCEPT !.changed = (kill # {})] /\ pc' = [pc EXCEPT ![Vacuum] = "reap"]
      /\ base' = base /\ dpage' = dpage /\ meta' = meta /\ rows' = rows /\ heap' = heap
      /\ cache' = cache /\ cursor' = cursor /\ op' = op /\ bounds' = bounds
  BY <1>a DEF MarkDead, Goto
<1>2. /\ pc = [p \in Backends \cup {Vacuum} |-> pc[p]] /\ graph \in [gen : Nat, node : Seq(NodeType)]
      /\ heap \in [Tids -> HeapType]
  BY <1>0 DEF Typed
<1>3. graph.node \in Seq(NodeType) /\ graph.gen \in Nat BY <1>2
<1>4. /\ e \in Seq(NodeType) /\ Len(e) = Len(graph.node)
      /\ \A i \in 1..Len(graph.node) : /\ e[i].tid = graph.node[i].tid /\ e[i].row = graph.node[i].row
                                       /\ e[i].dead <=> graph.node[i].dead \/ i \in kill
  <2>1. s \in Seq(NodeType) BY <1>3, <1>s
  <2>2. /\ e \in Seq(NodeType) /\ Len(e) = Len(s)
        /\ \A i \in 1..Len(s) : /\ e[i].tid = s[i].tid /\ e[i].row = s[i].row
                                /\ e[i].dead <=> s[i].dead \/ i \in kill
    BY ONLY <1>f, <2>1, SetDead DEF MarkedOk
  <2> QED BY <1>s, <2>2
<1>5. graph'.node = e /\ graph'.gen = graph.gen /\ graph' \in [gen : Nat, node : Seq(NodeType)]
  BY <1>1, <1>2, <1>3, <1>4
<1>6. Count' = Count /\ Count \in Nat BY <1>3, <1>4, <1>5 DEF Count
<1>7. ASSUME NEW n \in Nodes
      PROVE  /\ n + 1 \in 1..Len(graph.node) /\ Tid(n)' = Tid(n) /\ Row(n)' = Row(n)
             /\ Dead(n)' <=> Dead(n) \/ Tid(n) \in vac.dead
             /\ n + 1 \in kill <=> ~Dead(n) /\ Tid(n) \in vac.dead
  <2>1. n + 1 \in 1..Len(graph.node) BY <1>6 DEF Nodes, Count
  <2>2. n + 1 \in kill <=> ~Dead(n) /\ Tid(n) \in vac.dead BY <1>k, <2>1 DEF Dead, Tid, NodeState
  <2>3. /\ e[n + 1].tid = graph.node[n + 1].tid /\ e[n + 1].row = graph.node[n + 1].row
        /\ e[n + 1].dead <=> graph.node[n + 1].dead \/ n + 1 \in kill
    BY <1>4, <2>1
  <2>4. Tid(n)' = Tid(n) /\ Row(n)' = Row(n) /\ (Dead(n)' <=> Dead(n) \/ n + 1 \in kill)
    BY <1>5, <2>3 DEF Tid, Row, Dead, NodeState
  <2> QED BY <2>1, <2>2, <2>4
<1>8. vac \in VacMark BY <1>0, <1>1 DEF Typed, VacTyped
<1>9. vac' \in VacMark /\ vac'.dead = vac.dead /\ (vac'.changed <=> kill # {})
  <2>1. PICK d \in BOOLEAN : d <=> kill # {}
    <3>1. CASE kill = {} BY <3>1
    <3>2. CASE kill # {} BY <3>2
    <3> QED BY <3>1, <3>2
  <2>2. (kill # {}) = d BY <2>1
  <2>3. vac' = [vac EXCEPT !.changed = d] BY <1>1, <2>2
  <2> QED BY ONLY <1>8, <2>1, <2>3 DEF VacMark
<1>10. pc'[Vacuum] = "reap" /\ pc' = [pc EXCEPT ![Vacuum] = pc'[Vacuum]] BY <1>1, <1>2
<1>11. graph.gen <= graph'.gen BY <1>3, <1>5
<1>12. ReapStep
  <2>1. \A n \in Nodes : /\ Tid(n)' = Tid(n) /\ Row(n)' = Row(n) /\ (Dead(n) => Dead(n)')
                         /\ Dead(n)' => Dead(n) \/ Tid(n) \in vac.dead
                         /\ ~Dead(n)' => heap'[Tid(n)] = heap[Tid(n)]
    BY <1>1, <1>7
  <2>2. heap' \in [Tids -> HeapType] /\ \A t \in Tids : heap'[t] = heap[t] \/ (t \in vac.dead /\ heap'[t] = NoRow)
    BY <1>1, <1>2
  <2>3. UNCHANGED <<base, dpage, meta, rows, cache, cursor, op, bounds>> BY <1>1
  <2>4. pc[Vacuum] \in {"mark", "reap"} /\ pc'[Vacuum] \in {"reap", "cleanup"} BY <1>1, <1>10
  <2> QED BY ONLY <1>5, <1>6, <1>9, <1>10, <1>11, <2>1, <2>2, <2>3, <2>4, Zenon DEF ReapStep
<1>13. KeptOn
  <2> SUFFICES ASSUME NEW n \in Nodes, Kept(n) PROVE Kept(n)' BY DEF KeptOn
  <2>1. Holds(n) /\ ~Dead(n) BY <1>1 DEF Kept
  <2>2. Holds(n)' BY <1>1, <1>7, <2>1 DEF Holds
  <2>3. Dead(n)' => vac'.changed /\ Tid(n)' \in vac'.dead BY <1>7, <1>9, <2>1
  <2> QED BY <1>10, <2>2, <2>3 DEF Kept
<1>14. VacOk(o)'
  <2>1. \A t \in vac.dead : heap'[t].state = "dead" BY <1>0, <1>1 DEF VacOk
  <2>2. Nodes' = Nodes BY <1>6 DEF Nodes
  <2>3. \A n \in Nodes' : Tid(n)' \in vac'.dead => Dead(n)' BY <1>7, <1>9, <2>2
  <2> QED BY <1>9, <1>10, <2>1, <2>3 DEF VacOk, Compacting
<1>15. PICK S : S = {n \in Nodes : ~Dead(n) /\ Tid(n) \in vac.dead} OBVIOUS
<1>16. S \subseteq NodeIds BY <1>0, <1>15, NodesAreIds
<1>17. Nodes' = Nodes /\ \A n \in Nodes : Dead(n)' <=> Dead(n) \/ n \in S BY <1>6, <1>7, <1>15 DEF Nodes
<1>18. S \cap Gone = {} /\ Gone' = Gone \cup S BY <1>15, <1>17 DEF Gone
<1>19. \A n \in Nodes : TextOf(n)' = TextOf(n) BY <1>1, <1>7 DEF TextOf
<1>20. \A n : Listed(o, n)' <=> Listed(o, n) BY <1>1 DEF Listed, Of, Spots, Blocks, Rec
<1>21. \A n : Indexed(o, n)' <=> Indexed(o, n) /\ n \notin S BY <1>1, <1>17, <1>19, <1>20 DEF Indexed
<1>22. Implements(o, o)
  <2>1. CASE S = {} BY <1>18, <1>21, <2>1 DEF Implements, Same
  <2>2. CASE S # {}
    <3>1. Removed(o, o, S) BY <1>18, <1>21, <2>2 DEF Removed
    <3> QED BY <1>16, <3>1 DEF Implements
  <2> QED BY <2>1, <2>2
<1> QED BY <1>22, <1>1, <1>12, <1>13, <1>14, ReapFrame

LEMMA A_Reap ==
  ASSUME NEW o, NEW H, Good(o, H), Reap PROVE Good(o, H)' /\ Same(o, o)
<1>0. Typed /\ Turns /\ HeapOk(H) /\ VacOk(o) BY DEF Good, Shape
<1>1. /\ pc[Vacuum] = "reap" /\ graph' = [graph EXCEPT !.gen = IF vac.changed THEN @ + 1 ELSE @]
      /\ heap' = [t \in Tids |-> IF t \in vac.dead THEN NoRow ELSE heap[t]]
      /\ pc' = [pc EXCEPT ![Vacuum] = "cleanup"] /\ vac' = vac
      /\ UNCHANGED <<base, dpage, meta, rows, cache, cursor, op, bounds>>
  BY DEF Reap, Goto
<1>2. /\ pc = [p \in Backends \cup {Vacuum} |-> pc[p]] /\ graph \in [gen : Nat, node : Seq(NodeType)]
      /\ heap \in [Tids -> HeapType] /\ vac \in VacMark
  BY <1>0, <1>1 DEF Typed, VacTyped
<1>3. /\ graph'.node = graph.node /\ graph'.gen = (IF vac.changed THEN graph.gen + 1 ELSE graph.gen)
      /\ graph' \in [gen : Nat, node : Seq(NodeType)] /\ graph.gen \in Nat
  BY <1>1, <1>2
<1>4. /\ Count' = Count /\ \A n : Tid(n)' = Tid(n) /\ Row(n)' = Row(n) /\ Dead(n)' = Dead(n)
  BY <1>3 DEF Count, Tid, Row, Dead, NodeState
<1>5. NoRow \in HeapType BY DEF NoRow, HeapType, Nil
<1>6. heap' \in [Tids -> HeapType] BY <1>1, <1>2, <1>5
<1>7. ASSUME NEW n \in Nodes, ~Dead(n) PROVE Tid(n) \in Tids /\ Tid(n) \notin vac.dead /\ heap'[Tid(n)] = heap[Tid(n)]
  <2>1. Tid(n) \in Tids /\ Tid(n) \notin vac.dead BY <1>0, <1>1, <1>7, Numbers DEF VacOk
  <2> QED BY <1>1, <2>1
<1>8. pc'[Vacuum] = "cleanup" /\ pc' = [pc EXCEPT ![Vacuum] = pc'[Vacuum]] BY <1>1, <1>2
<1>9. ReapStep
  <2>1. graph.gen <= graph'.gen BY <1>3
  <2>2. \A n \in Nodes : /\ Tid(n)' = Tid(n) /\ Row(n)' = Row(n) /\ (Dead(n) => Dead(n)')
                         /\ Dead(n)' => Dead(n) \/ Tid(n) \in vac.dead
                         /\ ~Dead(n)' => heap'[Tid(n)] = heap[Tid(n)]
    BY <1>4, <1>7
  <2>3. \A t \in Tids : heap'[t] = heap[t] \/ (t \in vac.dead /\ heap'[t] = NoRow) BY <1>1
  <2>4. UNCHANGED <<base, dpage, meta, rows, cache, cursor, op, bounds>> BY <1>1
  <2>5. pc[Vacuum] \in {"mark", "reap"} /\ pc'[Vacuum] \in {"reap", "cleanup"} BY <1>1, <1>8
  <2>6. vac' \in VacMark /\ vac'.dead = vac.dead /\ Count' = Count BY <1>1, <1>2, <1>4
  <2> QED BY ONLY <1>3, <1>6, <1>8, <2>1, <2>2, <2>3, <2>4, <2>5, <2>6, Zenon DEF ReapStep
<1>10. KeptOn
  <2> SUFFICES ASSUME graph'.gen = graph.gen, NEW n \in Nodes, Kept(n) PROVE Kept(n)' BY DEF KeptOn
  <2>1. ~vac.changed BY <1>3
  <2>2. Holds(n) /\ ~Dead(n) BY <2>1 DEF Kept
  <2>3. Holds(n)' /\ ~Dead(n)' BY <1>4, <1>7, <2>2 DEF Holds
  <2> QED BY <2>3 DEF Kept
<1>11. Same(o, o)
  <2>1. Nodes' = Nodes /\ \A n : TextOf(n)' = TextOf(n) BY <1>1, <1>4 DEF Nodes, TextOf
  <2>2. \A n : Listed(o, n)' <=> Listed(o, n) BY <1>1 DEF Listed, Of, Spots, Blocks, Rec
  <2> QED BY <1>1, <1>4, <2>1, <2>2 DEF Same, Indexed, Gone
<1> QED BY <1>11, <1>8, <1>9, <1>10, ReapFrame

\* What a compaction writes: documents of live nodes, with the postings of
\* their texts.  Of the documents it has read only empty ones are left out.
Merged(k, B) ==
  /\ B \in BaseType /\ BaseOk(B)
  /\ \A n \in vac.live : /\ TextOf(n) # {}
                         /\ base[k].len[n] # 0 \/ \E p \in vac.recs : Rec(p).node = n
                         => B.len[n] # 0
  /\ \A n \in NodeIds : B.len[n] # 0 => base[k].len[n] # 0 \/ \E p \in vac.recs : Rec(p).node = n
LEMMA CollectedOk ==
  ASSUME Typed, Turns, Docs, vac.live \subseteq Nodes, vac.recs \subseteq Spots,
         \A p \in vac.recs : Rec(p).node \in vac.live,
         NEW k \in 1..Len(base), Apart(base[k], vac.recs), NEW B, B = Collected(base[k])
  PROVE  Merged(k, B)
<1>A. PICK A : A = base[k] OBVIOUS
<1>L. PICK L : L = vac.live OBVIOUS
<1>R. PICK R : R = vac.recs OBVIOUS
<1>D. PICK D : D = BaseDocs(A) \cup DeltaDocs OBVIOUS
<1>1. A \in BaseType /\ BaseOk(A) BY <1>A DEF Typed, Docs
<1>2. /\ B = [docs |-> B.docs, len |-> B.len, post |-> B.post] /\ B.docs = Cardinality(D)
      /\ B.len = [n \in NodeIds |-> B.len[n]]
      /\ B.post = [w \in Terms |-> B.post[w]] /\ \A w \in Terms : B.post[w] = [n \in NodeIds |-> B.post[w][n]]
  BY <1>A, <1>D DEF Collected, BasePages
<1>3. ASSUME NEW n \in NodeIds
      PROVE  B.len[n] = IF n \in D THEN IF n \in BaseDocs(A) THEN A.len[n]
                                        ELSE DocLen(Rec(CHOOSE p \in R : Rec(p).node = n).text)
                        ELSE 0
  BY <1>A, <1>D, <1>R DEF Collected, BasePages
<1>4. ASSUME NEW n \in NodeIds, NEW w \in Terms PROVE B.post[w][n] = Scored(n, w, A, L, R)
  BY <1>A, <1>L, <1>R DEF Collected, BasePages
<1>5. ASSUME NEW n \in NodeIds, NEW w \in Terms
      PROVE  /\ B.post[w][n] \in {0, 1}
             /\ B.post[w][n] = 1 <=> \/ n \in L /\ A.len[n] # 0 /\ w \in TextOf(n)
                                     \/ \E p \in R : Rec(p).node = n /\ w \in Rec(p).text
  <2>1. Once(Scored(n, w, base[k], L, R), n, w, k, L, R) BY <1>L, <1>R, ScoredOnce
  <2>2. Once(B.post[w][n], n, w, k, L, R) BY <1>4, <1>A, <2>1
  <2> QED BY <1>A, <2>2 DEF Once
<1>6. Nodes \subseteq NodeIds BY NodesAreIds
<1>7. /\ BaseDocs(A) = {n \in L : A.len[n] > 0} /\ DeltaDocs = {Rec(p).node : p \in R}
      /\ \A n \in NodeIds : A.len[n] \in Nat /\ (A.len[n] > 0 <=> A.len[n] # 0)
  BY <1>1, <1>L, <1>R DEF BaseDocs, DeltaDocs, BaseType
<1>8. ASSUME NEW n \in DeltaDocs
      PROVE  /\ n \in Nodes /\ n \in L /\ TextOf(n) # NoText /\ A.len[n] = 0
             /\ \A p \in R : Rec(p).node = n => Rec(p).text = TextOf(n)
             /\ \E p \in R : Rec(p).node = n
             /\ DocLen(Rec(CHOOSE p \in R : Rec(p).node = n).text) \in Nat
             /\ DocLen(Rec(CHOOSE p \in R : Rec(p).node = n).text) = 0 <=> TextOf(n) = {}
  <2>1. PICK q \in R : Rec(q).node = n BY <1>7
  <2>2. \A p \in R : RecOk(p) /\ Rec(p).node \in L BY <1>L, <1>R DEF Docs
  <2>3. \A p \in R : Rec(p).node = n => Rec(p).text = TextOf(n) /\ n \in Nodes /\ TextOf(n) # NoText /\ n \in L
    BY <2>2 DEF RecOk
  <2>4. PICK p : p = CHOOSE x \in R : Rec(x).node = n OBVIOUS
  <2>5. p \in R /\ Rec(p).node = n BY <2>1, <2>4
  <2>6. PICK text : text = TextOf(n) OBVIOUS
  <2>7. text \in Texts /\ text # NoText
    <3>1. n \in Nodes /\ TextOf(n) # NoText BY <2>3, <2>5
    <3>2. Row(n) \in 1..Len(rows) /\ rows \in Seq(Texts) BY <3>1 DEF Docs, Typed
    <3> QED BY <2>6, <3>1, <3>2, ElementOfSeq DEF TextOf
  <2>8. IsFiniteSet(text) BY <2>7, ConstantsAssumption
  <2>9. Cardinality(text) \in Nat /\ (Cardinality(text) = 0 <=> text = {})
    BY <2>8, FS_CardinalityType, FS_EmptySet
  <2>10. DocLen(Rec(p).text) = Cardinality(text) BY <2>3, <2>5, <2>6, <2>7 DEF DocLen
  <2>11. A.len[n] = 0 BY <1>A, <1>R, <2>5 DEF Apart
  <2> QED BY <2>1, <2>3, <2>4, <2>6, <2>9, <2>10, <2>11
<1>9. \A n \in BaseDocs(A) : n \in Nodes /\ n \in L /\ A.len[n] # 0 /\ TextOf(n) # NoText
  BY <1>1, <1>6, <1>7, <1>L DEF BaseOk
<1>10. D \subseteq NodeIds BY <1>6, <1>8, <1>9, <1>D
<1>11. IsFiniteSet(NodeIds)
  <2>1. 0 \in Int /\ MaxRows - 1 \in Int BY Basics
  <2> QED BY <2>1, Basics, FS_Interval
<1>12. B.docs \in Nat BY <1>2, <1>10, <1>11, FS_Subset, FS_CardinalityType
<1>13. ASSUME NEW n \in NodeIds
       PROVE  /\ B.len[n] \in Nat
              /\ B.len[n] # 0 <=> \/ n \in BaseDocs(A)
                                  \/ n \in DeltaDocs /\ TextOf(n) # {}
  <2>1. CASE n \in BaseDocs(A) BY <1>3, <1>7, <1>9, <1>D, <2>1
  <2>2. CASE n \in DeltaDocs /\ n \notin BaseDocs(A)
    <3>1. B.len[n] = DocLen(Rec(CHOOSE p \in R : Rec(p).node = n).text) BY <1>3, <1>D, <2>2
    <3> QED BY <1>8, <2>2, <3>1
  <2>3. CASE n \notin D BY <1>3, <1>D, <2>3
  <2> QED BY <1>D, <2>1, <2>2, <2>3
<1>14. B \in BaseType
  <2>1. B.len \in [NodeIds -> Nat] BY <1>2, <1>13
  <2>2. \A w \in Terms : B.post[w] \in [NodeIds -> Nat]
    <3> TAKE w \in Terms
    <3>1. \A n \in NodeIds : B.post[w][n] \in Nat BY <1>5
    <3> QED BY <1>2, <3>1
  <2>3. B.post \in [Terms -> [NodeIds -> Nat]] BY <1>2, <2>2
  <2> QED BY <1>2, <1>12, <2>1, <2>3 DEF BaseType
<1>15. ASSUME NEW n \in NodeIds, B.len[n] # 0
       PROVE  /\ n \in Nodes /\ TextOf(n) # NoText
              /\ \A w \in Terms : B.post[w][n] = IF w \in TextOf(n) THEN 1 ELSE 0
  <2>1. CASE n \in BaseDocs(A)
    <3>1. n \in Nodes /\ n \in L /\ A.len[n] # 0 /\ TextOf(n) # NoText BY <1>9, <2>1
    <3>2. \A p \in R : Rec(p).node # n BY <1>7, <1>8, <3>1
    <3>3. \A w \in Terms : B.post[w][n] = IF w \in TextOf(n) THEN 1 ELSE 0 BY <1>5, <3>1, <3>2
    <3> QED BY <3>1, <3>3
  <2>2. CASE n \in DeltaDocs
    <3>1. /\ n \in Nodes /\ TextOf(n) # NoText /\ A.len[n] = 0
          /\ \A p \in R : Rec(p).node = n => Rec(p).text = TextOf(n)
          /\ \E p \in R : Rec(p).node = n
      BY <1>8, <2>2
    <3>2. \A w \in Terms : B.post[w][n] = IF w \in TextOf(n) THEN 1 ELSE 0 BY <1>5, <3>1
    <3> QED BY <3>1, <3>2
  <2> QED BY <1>13, <1>15, <2>1, <2>2
<1>16. ASSUME NEW n \in NodeIds, B.len[n] = 0, NEW w \in Terms PROVE B.post[w][n] = 0
  <2>1. n \notin BaseDocs(A) /\ (n \in DeltaDocs => TextOf(n) = {}) BY <1>13, <1>16
  <2>2. ~(n \in L /\ A.len[n] # 0) BY <1>7, <2>1
  <2>3. ~\E p \in R : Rec(p).node = n /\ w \in Rec(p).text
    <3> SUFFICES ASSUME NEW p \in R, Rec(p).node = n, w \in Rec(p).text PROVE FALSE OBVIOUS
    <3>1. n \in DeltaDocs BY <1>7
    <3> QED BY <1>8, <2>1, <3>1
  <2> QED BY <1>5, <2>2, <2>3
<1>17. BaseOk(B) BY <1>15, <1>16 DEF BaseOk
<1>18. ASSUME NEW n \in L, TextOf(n) # {}, A.len[n] # 0 \/ \E p \in R : Rec(p).node = n
       PROVE  B.len[n] # 0
  <2>1. n \in NodeIds BY <1>6, <1>L
  <2>2. n \in BaseDocs(A) \/ n \in DeltaDocs BY <1>7, <1>18, <2>1
  <2> QED BY <1>13, <1>18, <2>1, <2>2
<1>19. ASSUME NEW n \in NodeIds, B.len[n] # 0 PROVE A.len[n] # 0 \/ \E p \in R : Rec(p).node = n
  BY <1>7, <1>13, <1>19
<1> QED BY <1>19, <1>14, <1>17, <1>18, <1>A, <1>L, <1>R DEF Merged

LEMMA A_ReplaceBase ==
  ASSUME NEW o, NEW H, Good(o, H), ReplaceBase
  PROVE  \E J : Good(o, J)' /\ Same(o, o)
<1>0. Typed /\ Turns /\ Pages(o) /\ Docs /\ History(o, H) /\ HeapOk(H) /\ VacOk(o) BY DEF Good, Shape
<1>B. PICK B : B = Collected(base[vac.meta.base]) OBVIOUS
<1>1. /\ pc[Vacuum] = "replace" /\ base' = Append(base, B) /\ meta' = Compacted(B.docs)
      /\ vac' = NoVacuum /\ pc' = [pc EXCEPT ![Vacuum] = "idle"]
      /\ graph' = graph /\ dpage' = dpage /\ heap' = heap /\ rows' = rows /\ cache' = cache
      /\ cursor' = cursor /\ op' = op /\ bounds' = bounds
  BY <1>B DEF ReplaceBase, Goto
<1>2. /\ Compacting /\ UpdateLockFree /\ vac.meta = meta /\ vac.live = {n \in Nodes : ~Dead(n)}
      /\ vac.recs = {p \in Of(o, meta.deltaStart) : Rec(p).node \in vac.live}
  BY <1>0, <1>1 DEF Compacting, Turns, VacOk
<1>k. PICK k : k = meta.base OBVIOUS
<1>3. /\ k \in 1..Len(base) /\ Apart(base[k], Of(o, meta.deltaStart)) /\ meta \in MetaType
      /\ H[meta.deltaGen].meta = meta /\ H[meta.deltaGen].recs \subseteq Of(o, meta.deltaStart)
  BY <1>0, <1>k, MetaNow DEF MetaOk
<1>4. Merged(k, B)
  <2>1. vac.recs \subseteq Of(o, meta.deltaStart) /\ vac.live \subseteq Nodes
        /\ \A p \in vac.recs : Rec(p).node \in vac.live
    BY <1>2
  <2>2. vac.recs \subseteq Spots BY <2>1 DEF Of
  <2>3. Apart(base[k], vac.recs) BY <1>3, <2>1 DEF Apart
  <2>4. B = Collected(base[k]) BY <1>2, <1>B, <1>k
  <2> QED BY <1>0, <1>3, <2>1, <2>2, <2>3, <2>4, CollectedOk
<1>5. B \in BaseType /\ BaseOk(B) BY <1>4 DEF Merged
<1>N. PICK N : N = Len(base) + 1 OBVIOUS
<1>6. /\ base' \in Seq(BaseType) /\ Len(base') = N /\ base'[N] = B
      /\ \A i \in 1..Len(base) : base'[i] = base[i]
      /\ Len(base) \in Nat /\ N \in Nat
  <2>1. base \in Seq(BaseType) BY <1>0 DEF Typed
  <2> QED BY <1>1, <1>5, <1>N, <2>1, AppendProperties
<1>G. PICK G : G = meta.deltaGen + 1 OBVIOUS
<1>7. /\ meta' = [docs |-> B.docs, base |-> N, deltaStart |-> Nil, deltaGen |-> G, deltaDocs |-> 0, lastGen |-> G]
      /\ meta.deltaGen \in Nat /\ G \in Nat
  <2>1. meta.deltaGen \in Nat BY <1>0, Numbers
  <2> QED BY <1>1, <1>2, <1>G, <1>N, <2>1 DEF Compacted
<1>8. /\ meta' \in MetaType /\ meta'.deltaGen = G /\ meta'.deltaStart = Nil /\ meta'.base = N /\ meta'.deltaDocs = 0
  BY ONLY <1>5, <1>6, <1>7 DEF MetaType, BaseType, Nil
<1>9. /\ pc = [p \in Backends \cup {Vacuum} |-> pc[p]] /\ Vacuum \notin Backends BY <1>0, Basics DEF Typed
<1>10. /\ pc'[Vacuum] = "idle" /\ pc' = [p \in Backends \cup {Vacuum} |-> pc'[p]]
       /\ \A b \in Backends : pc'[b] = pc[b]
  BY <1>1, <1>9
<1>11. Typed'
  <2>1. VacTyped' BY <1>1, <1>10 DEF VacTyped
  <2>2. \A b \in Backends : OpTyped(b)' BY <1>0, <1>1, <1>10 DEF Typed, OpTyped
  <2> QED BY <1>0, <1>1, <1>6, <1>8, <1>10, <2>1, <2>2 DEF Typed
<1>12. ~Compacting' BY <1>10 DEF Compacting
<1>13. Turns' BY <1>0, <1>1, <1>10, <1>12 DEF Turns, Inserting, Count
<1>14. /\ Nodes' = Nodes /\ Count' = Count /\ Blocks' = Blocks /\ Spots' = Spots
       /\ \A n : Tid(n)' = Tid(n) /\ Row(n)' = Row(n) /\ Dead(n)' = Dead(n)
       /\ \A p : Rec(p)' = Rec(p)
  BY <1>1 DEF Nodes, Count, Blocks, Spots, Tid, Row, Dead, NodeState, Rec
<1>h. PICK h : h = [meta |-> meta', recs |-> {}] OBVIOUS
<1>J. PICK J : J = Longer(H, h) OBVIOUS
<1>15. J = [g \in 0..G |-> IF g = G THEN h ELSE H[g]] BY <1>8, <1>J DEF Longer
<1>16. J[G] = h /\ \A g \in 0..meta.deltaGen : J[g] = H[g]
  <2>1. G \in 0..G /\ \A g \in 0..meta.deltaGen : g \in 0..G /\ g # G BY <1>7, <1>G
  <2> QED BY <1>15, <2>1
<1>17. Grow(o, H, o, J)
  <2>1. Count \in Nat /\ Len(rows) \in Nat /\ graph.gen \in Nat BY <1>0, Numbers
  <2>2. meta.deltaGen <= meta'.deltaGen /\ meta'.deltaGen \in Nat BY <1>7, <1>8, <1>G
  <2>3. Len(base) <= Len(base') BY <1>6, <1>N
  <2> QED BY <1>1, <1>6, <1>14, <1>16, <2>1, <2>2, <2>3 DEF Grow
<1>18. Pages(o)' BY <1>0, <1>1 DEF Pages, Linked, Blocks
<1>19. Docs'
  <2>1. /\ \A n \in Nodes : Row(n)' \in 1..Len(rows')
        /\ \A p \in Spots : RecOk(p)'
        /\ \A A : BaseOk(A) => BaseOk(A)'
    BY <1>0, <1>17, DocsGrow
  <2>2. \A i \in 1..Len(base') : BaseOk(base[i])'
    <3> TAKE i \in 1..Len(base')
    <3>1. CASE i = N
      <4>1. BaseOk(B)' BY <1>5, <2>1
      <4> QED BY <1>6, <3>1, <4>1
    <3>2. CASE i # N
      <4>0. i \in 1..Len(base) BY <1>6, <1>N, <3>2
      <4>1. PICK A : A = base[i] OBVIOUS
      <4>2. BaseOk(A) BY <1>0, <4>0, <4>1 DEF Docs
      <4>3. BaseOk(A)' BY <2>1, <4>2
      <4> QED BY <1>6, <4>0, <4>1, <4>3
    <3> QED BY <3>1, <3>2
  <2>3. Len(base)' = Len(base') OBVIOUS
  <2> QED BY <1>0, <1>1, <1>14, <2>1, <2>2 DEF Docs
<1>20. NewApart BY <1>14 DEF NewApart
<1>21. h.meta = meta' /\ h.recs = {} BY <1>h
<1>22. MetaOk(o, h.meta)'
  <2>m. PICK m : m = meta' OBVIOUS
  <2>1. m \in MetaType /\ m.base = N /\ m.deltaStart = Nil BY <1>8, <2>m
  <2>2. N \in 1..Len(base') BY <1>6, <1>N
  <2>3. Of(o, Nil)' = {}
    <3>1. Of(o, Nil)' = Of(o, Nil) BY <1>14 DEF Of
    <3> QED BY <1>0, <3>1, NoRecords
  <2>4. Apart(base[m.base], Of(o, m.deltaStart))' BY <2>1, <2>3 DEF Apart
  <2>5. MetaOk(o, m)' BY <2>1, <2>2, <2>4 DEF MetaOk
  <2> QED BY <1>21, <2>5, <2>m
<1>23. h.recs \subseteq Of(o, h.meta.deltaStart)' BY <1>21
<1>24. History(o, J)'
  <2>1. meta'.deltaGen = meta.deltaGen + 1 BY <1>8, <1>G
  <2> QED BY <1>0, <1>17, <1>20, <1>21, <1>22, <1>23, <1>J, <2>1, HistoryMore
<1>25. FindsOn(H, J)
  <2> SUFFICES ASSUME NEW n \in Nodes, ~Dead(n)', TextOf(n) # {}, Found(H, n, meta.deltaGen)
               PROVE  Found(J, n, meta.deltaGen)'
    BY DEF FindsOn
  <2>1. n \in vac.live BY <1>2, <1>14
  <2>2. base[k].len[n] # 0 \/ \E p \in vac.recs : Rec(p).node = n BY <1>2, <1>3, <1>k, <2>1 DEF Found
  <2>3. B.len[n] # 0 BY <1>4, <2>1, <2>2 DEF Merged
  <2>4. base'[J[G].meta.base].len[n] # 0 BY <1>6, <1>8, <1>16, <1>21, <2>3
  <2>5. Found(J, n, G)' BY <2>4 DEF Found
  <2> QED BY <1>8, <2>5
<1>26. HeapOk(J)'
  <2>1. \A t \in Tids : heap'[t].row \in 0..Len(rows') /\ (heap'[t].state # "free" => heap'[t].row # 0)
    BY <1>0, <1>1 DEF HeapOk
  <2>2. \A n \in Nodes' : ~Dead(n)' => Holds(n)' BY <1>0, <1>1, <1>14 DEF HeapOk, Holds
  <2>3. ASSUME NEW t \in Tids, heap'[t].state = "live", rows'[heap'[t].row] \notin {NoText, {}}
        PROVE  \E n \in Nodes' : NodeOf(n, t, heap[t].row)' /\ Found(J, n, meta.deltaGen)'
    <3>1. heap'[t] = heap[t] BY <1>1
    <3> QED BY <1>0, <1>14, <1>17, <1>25, <2>3, <3>1, LiveGrows
  <2> QED BY <2>1, <2>2, <2>3 DEF HeapOk
<1>27. VacOk(o)' BY <1>10, <1>12 DEF VacOk
<1>28. KeptOn BY <1>1, <1>14 DEF KeptOn, Kept, Holds
<1>29. ASSUME NEW b \in Backends PROVE Apart2(o, b)
  <2>1. InsertOk(o, b) /\ CursorOk(o, b) /\ QueryOk(H, b) BY DEF Good, Shape
  <2>2. InsertOk(o, b)' BY <1>1, <1>2 DEF InsertOk, Inserting, UpdateLockFree
  <2>3. CursorOk(o, b)' BY <1>1, <1>17, <2>1, CursorGrows
  <2>4. ASSUME pc[b] \in QueryPcs PROVE SnapOk(b)' /\ Stays(b)
    <3>1. SnapOk(b) BY <2>1, <2>4 DEF QueryOk
    <3>2. SnapOk(b)' BY <1>1, <1>10, <3>1 DEF SnapOk
    <3>3. Stays(b) BY <1>14 DEF Stays, NodeOf
    <3> QED BY <3>2, <3>3
  <2> QED BY <1>1, <1>10, <2>2, <2>3, <2>4 DEF Apart2
<1>30. Good(o, J)' BY <1>11, <1>13, <1>17, <1>18, <1>19, <1>24, <1>25, <1>26, <1>27, <1>28, <1>29, RestFrame
<1>31. Same(o, o)
  <2>1. \A n : ~Listed(o, n)'
    <3>1. Of(o, Nil)' = Of(o, Nil) BY <1>14 DEF Of
    <3> QED BY <1>0, <1>8, <3>1, NoRecords DEF Listed
  <2>2. base'[meta'.base] = B BY <1>6, <1>8
  <2>3. Gone' = Gone /\ \A n : TextOf(n)' = TextOf(n) BY <1>1, <1>14 DEF Gone, TextOf
  <2>4. ASSUME NEW n \in Nodes, n \in NodeIds, ~Dead(n), TextOf(n) # {}
        PROVE  B.len[n] # 0 <=> base[meta.base].len[n] # 0 \/ Listed(o, n)
    <3>1. n \in vac.live BY <1>2, <2>4
    <3>2. Listed(o, n) <=> \E p \in vac.recs : Rec(p).node = n BY <1>2, <3>1 DEF Listed
    <3> QED BY <1>4, <1>k, <2>4, <3>1, <3>2 DEF Merged
  <2>5. \A n \in NodeIds : Indexed(o, n)' <=> Indexed(o, n) BY <1>14, <2>1, <2>2, <2>3, <2>4 DEF Indexed
  <2> QED BY <2>3, <2>5 DEF Same
<1> QED BY <1>30, <1>31

-----------------------------------------------------------------------------
(* Initial states, and every step                                          *)

LEMMA I_Init == Init => Inv
<1> SUFFICES ASSUME Init PROVE Inv OBVIOUS
<1>N. PICK N : N = NBuilt OBVIOUS
<1>D. PICK D : D = {n \in 0..(N - 1) : BuiltTexts[n + 1] # NoText} OBVIOUS
<1>B. PICK B : B = Built OBVIOUS
<1>1. /\ graph = [gen |-> 1, node |-> [i \in 1..N |-> [tid |-> BuiltTids[i], row |-> i, dead |-> FALSE]]]
      /\ base = <<B>> /\ dpage = <<>>
      /\ meta = [docs |-> B.docs, base |-> 1, deltaStart |-> Nil, deltaGen |-> 0, deltaDocs |-> 0, lastGen |-> 0]
      /\ heap = [t \in Tids |->
           IF \E i \in 1..N : BuiltTids[i] = t
             THEN [row |-> CHOOSE i \in 1..N : BuiltTids[i] = t, state |-> "live"] ELSE NoRow]
      /\ rows = BuiltTexts /\ cache = [b \in Backends |-> NoCache] /\ cursor = [b \in Backends |-> NoCursor]
      /\ op = [b \in Backends |-> NoOp] /\ pc = [p \in Backends \cup {Vacuum} |-> "idle"]
      /\ vac = NoVacuum
      /\ bounds = [new |-> 0, queries |-> 0, deletes |-> 0, vacuums |-> 0, cancels |-> 0]
  BY <1>N, <1>B DEF Init
<1>2. /\ N \in Nat /\ MaxRows \in Nat /\ NodeIds = 0..(MaxRows - 1) /\ MaxRows = N + MaxNew /\ MaxNew \in Nat
      /\ Nil = 0 /\ Vacuum \notin Backends
  BY <1>N, Basics
<1>3. /\ BuiltTids \in Seq(Tids) /\ BuiltTexts \in Seq(Texts) /\ Len(BuiltTids) = N /\ Len(BuiltTexts) = N
      /\ \A i, j \in 1..N : i # j => BuiltTids[i] # BuiltTids[j]
      /\ \A i \in 1..N : BuiltTids[i] \in Tids /\ BuiltTexts[i] \in Texts
  BY <1>N, ConstantsAssumption DEF NBuilt
<1>4. /\ graph.node = [i \in 1..N |-> [tid |-> BuiltTids[i], row |-> i, dead |-> FALSE]]
      /\ graph.node \in Seq(NodeType) /\ Len(graph.node) = N /\ graph = [gen |-> 1, node |-> graph.node]
  <2>1. graph.node = [i \in 1..N |-> [tid |-> BuiltTids[i], row |-> i, dead |-> FALSE]] BY <1>1
  <2>2. \A i \in 1..N : [tid |-> BuiltTids[i], row |-> i, dead |-> FALSE] \in NodeType BY <1>2, <1>3 DEF NodeType
  <2>3. graph.node \in [1..N -> NodeType] BY <2>1, <2>2
  <2>4. graph.node \in Seq(NodeType) BY <1>2, <2>3, SeqDef
  <2>5. Len(graph.node) = N BY <1>2, <2>1, <2>4, LenProperties
  <2> QED BY <1>1, <2>1, <2>4, <2>5
<1>5. /\ Count = N /\ Nodes = 0..(N - 1)
      /\ \A n \in Nodes : /\ n + 1 \in 1..N /\ Tid(n) = BuiltTids[n + 1] /\ Row(n) = n + 1 /\ Dead(n) = FALSE
                          /\ TextOf(n) = BuiltTexts[n + 1]
  BY <1>1, <1>2, <1>4 DEF Count, Nodes, Tid, Row, Dead, NodeState, TextOf
<1>6. /\ B = [docs |-> Cardinality(D), len |-> B.len, post |-> B.post]
      /\ B.len = [n \in NodeIds |-> IF n \in D THEN DocLen(BuiltTexts[n + 1]) ELSE 0]
      /\ B.post = [w \in Terms |-> [n \in NodeIds |-> IF n \in D /\ w \in BuiltTexts[n + 1] THEN 1 ELSE 0]]
  BY <1>B, <1>D, <1>N DEF Built, BasePages
<1>7. \A n \in D : /\ n \in Nodes /\ TextOf(n) = BuiltTexts[n + 1] /\ BuiltTexts[n + 1] \in Texts /\ TextOf(n) # NoText
                   /\ DocLen(BuiltTexts[n + 1]) \in Nat /\ (DocLen(BuiltTexts[n + 1]) = 0 <=> TextOf(n) = {})
  <2> TAKE n \in D
  <2>1. n \in Nodes /\ TextOf(n) = BuiltTexts[n + 1] /\ BuiltTexts[n + 1] \in Texts /\ BuiltTexts[n + 1] # NoText
    BY <1>3, <1>5, <1>D
  <2>2. IsFiniteSet(BuiltTexts[n + 1]) BY <2>1, ConstantsAssumption
  <2>3. DocLen(BuiltTexts[n + 1]) = Cardinality(BuiltTexts[n + 1]) BY <2>1 DEF DocLen
  <2> QED BY <2>1, <2>2, <2>3, FS_CardinalityType, FS_EmptySet
<1>8. B \in BaseType
  <2>1. D \subseteq 0..(N - 1) /\ IsFiniteSet(0..(N - 1)) BY <1>2, <1>D, FS_Interval
  <2>2. B.docs \in Nat
    <3>1. IsFiniteSet(D) BY <2>1, FS_Subset
    <3>2. Cardinality(D) \in Nat BY ONLY <3>1, FS_CardinalityType
    <3>3. B.docs = Cardinality(D) BY <1>6
    <3> QED BY <3>2, <3>3
  <2>3. B.len \in [NodeIds -> Nat] BY <1>6, <1>7
  <2>4. B.post \in [Terms -> [NodeIds -> Nat]] BY <1>6
  <2> QED BY <1>6, <2>2, <2>3, <2>4 DEF BaseType
<1>9. BaseOk(B)
  <2> SUFFICES ASSUME NEW n \in NodeIds
               PROVE  /\ B.len[n] # 0 => /\ n \in Nodes /\ TextOf(n) # NoText
                                         /\ \A w \in Terms : B.post[w][n] = IF w \in TextOf(n) THEN 1 ELSE 0
                      /\ B.len[n] = 0 => \A w \in Terms : B.post[w][n] = 0
    BY DEF BaseOk
  <2>1. CASE n \in D BY <1>6, <1>7, <2>1
  <2>2. CASE n \notin D BY <1>6, <2>2
  <2> QED BY <2>1, <2>2
<1>10. base \in Seq(BaseType) /\ Len(base) = 1 /\ base[1] = B BY <1>1, <1>8
<1>11. dpage \in Seq(PageType) /\ Len(dpage) = 0 BY <1>1
<1>12. meta \in MetaType BY <1>1, <1>2, <1>8 DEF MetaType, BaseType
<1>13. ASSUME NEW t \in Tids
       PROVE  /\ heap[t] \in HeapType /\ heap[t].row \in 0..N
              /\ heap[t] # NoRow => heap[t].row \in 1..N /\ BuiltTids[heap[t].row] = t /\ heap[t].state = "live"
              /\ heap[t].state # "free" => heap[t] # NoRow
              /\ \A i \in 1..N : BuiltTids[i] = t => heap[t].row = i /\ heap[t].state = "live"
  <2>1. CASE \E i \in 1..N : BuiltTids[i] = t
    <3>1. PICK c : c = CHOOSE i \in 1..N : BuiltTids[i] = t OBVIOUS
    <3>2. c \in 1..N /\ BuiltTids[c] = t BY <2>1, <3>1
    <3>3. heap[t] = [row |-> c, state |-> "live"] BY <1>1, <2>1, <3>1
    <3>4. \A i \in 1..N : BuiltTids[i] = t => i = c BY <1>3, <3>2
    <3>5. heap[t] \in HeapType BY <1>2, <3>2, <3>3 DEF HeapType
    <3>6. heap[t].row = c /\ heap[t].state = "live" BY <3>3
    <3>7. c \in 0..N BY <1>2, <3>2
    <3> QED BY <3>2, <3>4, <3>5, <3>6, <3>7 DEF NoRow
  <2>2. CASE ~\E i \in 1..N : BuiltTids[i] = t
    <3>1. heap[t] = NoRow BY <1>1, <2>2
    <3> QED BY <1>2, <2>2, <3>1 DEF HeapType, NoRow
  <2> QED BY <2>1, <2>2
<1>14. heap \in [Tids -> HeapType] BY <1>1, <1>13
<1>15. rows \in Seq(Texts) /\ Len(rows) = N BY <1>1, <1>3
<1>16. /\ \A b \in Backends : cursor[b] = NoCursor /\ cache[b] = NoCache /\ op[b] = NoOp /\ pc[b] = "idle"
       /\ pc[Vacuum] = "idle"
  BY <1>1
<1>17. Typed
  <2>1. cursor \in [Backends -> [start : Nat, tail : Nat, gen : Nat]] BY <1>1, <1>2 DEF NoCursor
  <2>2. VacTyped /\ \A b \in Backends : OpTyped(b) BY <1>1, <1>16 DEF VacTyped, OpTyped
  <2>3. graph \in [gen : Nat, node : Seq(NodeType)]
    <3>1. PICK q : q = graph.node OBVIOUS
    <3>2. graph = [gen |-> 1, node |-> q] /\ q \in Seq(NodeType) BY <1>4, <3>1
    <3> QED BY ONLY <3>2
  <2>4. bounds \in [new : Nat, queries : Nat, deletes : Nat, vacuums : Nat, cancels : Nat] BY <1>1
  <2>5. /\ cache = [b \in Backends |-> cache[b]] /\ op = [b \in Backends |-> op[b]]
        /\ pc = [p \in Backends \cup {Vacuum} |-> pc[p]]
    BY <1>1
  <2> QED BY <1>10, <1>11, <1>12, <1>14, <1>15, <2>1, <2>2, <2>3, <2>4, <2>5 DEF Typed
<1>18. \A b \in Backends : ~Inserting(b) BY <1>16 DEF Inserting, NoOp
<1>19. ~Compacting BY <1>16 DEF Compacting
<1>20. Turns
  <2>1. bounds.new = 0 BY <1>1
  <2>2. \A b \in Backends : pc[b] # "graph" BY <1>16
  <2> QED BY <1>2, <1>5, <1>15, <1>18, <1>19, <1>N, <2>1, <2>2 DEF Turns
<1>o. PICK o : o = [b \in Blocks |-> b] OBVIOUS
<1>H. PICK H : H = [g \in 0..0 |-> [meta |-> meta, recs |-> {}]] OBVIOUS
<1>21. Blocks = {} /\ Spots = {} BY <1>11 DEF Blocks, Spots
<1>22. Pages(o) BY <1>21, <1>o DEF Pages
<1>23. Docs
  <2>1. \A n \in Nodes : Row(n) \in 1..Len(rows) BY <1>5, <1>15
  <2>2. \A k \in 1..Len(base) : BaseOk(base[k]) BY <1>9, <1>10
  <2> QED BY <1>21, <2>1, <2>2 DEF Docs
<1>24. meta.deltaGen = 0 /\ meta.base = 1 /\ meta.deltaStart = Nil BY <1>1
<1>25. H[0] = [meta |-> meta, recs |-> {}] /\ H = [g \in 0..0 |-> H[g]] /\ \A g \in 0..0 : g = 0 BY <1>H
<1>26. MetaOk(o, meta)
  <2>1. Of(o, meta.deltaStart) = {} BY <1>21 DEF Of
  <2> QED BY <1>10, <1>12, <1>24, <2>1 DEF MetaOk, Apart
<1>27. History(o, H) BY <1>24, <1>25, <1>26 DEF History
<1>28. HeapOk(H)
  <2>1. \A t \in Tids : heap[t].row \in 0..Len(rows) /\ (heap[t].state # "free" => heap[t].row # 0)
    BY <1>13, <1>15
  <2>2. \A n \in Nodes : ~Dead(n) => Holds(n) BY <1>3, <1>5, <1>13 DEF Holds
  <2>3. ASSUME NEW t \in Tids, heap[t].state = "live", rows[heap[t].row] \notin {NoText, {}}
        PROVE  \E n \in Nodes : NodeOf(n, t, heap[t].row) /\ Found(H, n, meta.deltaGen)
    <3>1. heap[t].row \in 1..N /\ BuiltTids[heap[t].row] = t BY <1>13, <2>3
    <3>2. PICK n : n = heap[t].row - 1 OBVIOUS
    <3>3. n \in 0..(N - 1) /\ n + 1 = heap[t].row BY <1>2, <3>1, <3>2
    <3>4. n \in Nodes /\ NodeOf(n, t, heap[t].row) BY <1>5, <3>1, <3>3 DEF NodeOf
    <3>5. TextOf(n) \notin {NoText, {}} BY <1>1, <1>5, <2>3, <3>3, <3>4
    <3>6. n \in D /\ n \in NodeIds BY <1>2, <1>5, <1>D, <3>3, <3>4, <3>5
    <3>7. B.len[n] # 0 BY <1>6, <1>7, <3>5, <3>6
    <3>8. Found(H, n, meta.deltaGen) BY <1>10, <1>24, <1>25, <3>7 DEF Found
    <3> QED BY <3>4, <3>8
  <2> QED BY <2>1, <2>2, <2>3 DEF HeapOk
<1>29. VacOk(o) BY <1>16, <1>19 DEF VacOk
<1>30. ASSUME NEW b \in Backends
       PROVE  InsertOk(o, b) /\ CursorOk(o, b) /\ CacheOk(o, H, cache[b]) /\ QueryOk(H, b)
  <2>1. CursorOk(o, b) BY <1>16 DEF CursorOk, NoCursor
  <2>2. InsertOk(o, b) BY <1>18 DEF InsertOk
  <2>3. CacheOk(o, H, cache[b]) BY <1>16 DEF CacheOk
  <2>4. QueryOk(H, b) BY <1>16 DEF QueryOk, QueryPcs
  <2> QED BY <2>1, <2>2, <2>3, <2>4
<1>31. Shape(o, H) BY <1>22, <1>23, <1>27, <1>28, <1>29, <1>30 DEF Shape
<1> QED BY <1>17, <1>20, <1>31 DEF Inv

\* A step goes on with owners and metadata that are good, and does to the
\* documents what TextIndex allows
Outcome(o) == \E u, J : Good(u, J)' /\ Implements(o, u)

\* Most steps write no file
LEMMA NothingNew ==
  ASSUME NEW o, NEW H, Good(o, H)', FilesSame PROVE Outcome(o)
<1>1. /\ Nodes' = Nodes /\ base' = base /\ meta' = meta /\ rows' = rows
      /\ \A n : Row(n)' = Row(n) /\ (Dead(n)' <=> Dead(n)) /\ TextOf(n)' = TextOf(n)
  BY FilesEq DEF TextOf
<1>2. \A n : Listed(o, n)' <=> Listed(o, n) BY FilesEq DEF Listed
<1>3. Same(o, o) BY <1>1, <1>2 DEF Same, Gone, Indexed
<1> QED BY <1>3 DEF Outcome, Implements

LEMMA SameNow ==
  ASSUME NEW o, NEW J, Good(o, J)', Same(o, o) PROVE Outcome(o)
BY DEF Outcome, Implements

LEMMA StepGood ==
  ASSUME NEW o, NEW H, Good(o, H), Orderly, Next PROVE Outcome(o)
<1>1. ASSUME NEW b \in Backends, NEW t \in Tids, NEW text \in Texts, BeginInsert(b, t, text) PROVE Outcome(o)
  BY <1>1, A_BeginInsert, SameNow
<1>2. ASSUME NEW b \in Backends, InsertNode(b) PROVE Outcome(o) BY <1>2, A_InsertNode, SameNow
<1>3. ASSUME NEW b \in Backends, ReadTail(b) PROVE Outcome(o)
  <2>1. FilesSame BY <1>3 DEF ReadTail, FilesSame
  <2> QED BY <1>3, <2>1, A_ReadTail, NothingNew
<1>4. ASSUME NEW b \in Backends, AppendRecord(b) PROVE Outcome(o)
  BY <1>4, A_AppendRecord, Zenon DEF Outcome
<1>5. ASSUME NEW b \in Backends, UpdateMeta(b) PROVE Outcome(o)
  BY <1>5, A_UpdateMeta, Zenon DEF Outcome
<1>6. ASSUME NEW b \in Backends, NEW w \in Terms, BeginQuery(b, w) PROVE Outcome(o)
  <2>1. FilesSame BY <1>6 DEF BeginQuery, FilesSame
  <2> QED BY <1>6, <2>1, A_BeginQuery, NothingNew
<1>7. ASSUME NEW b \in Backends, ReadMeta(b) PROVE Outcome(o)
  <2>1. FilesSame BY <1>7 DEF ReadMeta, FilesSame
  <2> QED BY <1>7, <2>1, A_ReadMeta, NothingNew
<1>8. ASSUME NEW b \in Backends, OpenCache(b) PROVE Outcome(o)
  <2>1. FilesSame BY <1>8 DEF OpenCache, FilesSame
  <2> QED BY <1>8, <2>1, A_OpenCache, NothingNew
<1>9. ASSUME NEW b \in Backends, EnsureLiveness(b) PROVE Outcome(o)
  <2>1. FilesSame BY <1>9 DEF EnsureLiveness, FilesSame
  <2> QED BY <1>9, <2>1, A_EnsureLiveness, NothingNew
<1>10. ASSUME NEW b \in Backends, EndQuery(b) PROVE Outcome(o)
  <2>1. FilesSame BY <1>10 DEF EndQuery, FilesSame
  <2> QED BY <1>10, <2>1, A_EndQuery, NothingNew
<1>11. ASSUME NEW b \in Backends, NEW cached \in BOOLEAN, Score(b, cached) PROVE Outcome(o)
  <2>1. FilesSame BY <1>11 DEF Score, FilesSame
  <2> QED BY <1>11, <2>1, A_Score, NothingNew
<1>12. ASSUME BeginVacuum PROVE Outcome(o)
  <2>1. FilesSame BY <1>12 DEF BeginVacuum, FilesSame
  <2> QED BY <1>12, <2>1, A_BeginVacuum, NothingNew
<1>13. ASSUME MarkDead PROVE Outcome(o) BY <1>13, A_MarkDead, Zenon DEF Outcome
<1>14. ASSUME Reap PROVE Outcome(o) BY <1>14, A_Reap, SameNow
<1>15. ASSUME BeginCompact PROVE Outcome(o)
  <2>1. FilesSame BY <1>15 DEF BeginCompact, FilesSame
  <2> QED BY <1>15, <2>1, A_BeginCompact, NothingNew
<1>16. ASSUME ReadNodeStates PROVE Outcome(o)
  <2>1. FilesSame BY <1>16 DEF ReadNodeStates, FilesSame
  <2> QED BY <1>16, <2>1, A_ReadNodeStates, NothingNew
<1>17. ASSUME CollectDelta PROVE Outcome(o)
  <2>1. FilesSame BY <1>17 DEF CollectDelta, FilesSame
  <2> QED BY <1>17, <2>1, A_CollectDelta, NothingNew
<1>18. ASSUME ReplaceBase PROVE Outcome(o)
  <2>1. PICK J : Good(o, J)' /\ Same(o, o) BY <1>18, A_ReplaceBase
  <2> QED BY <2>1, SameNow
<1>19. ASSUME NEW t \in Tids, RowDies(t) PROVE Outcome(o)
  <2>1. FilesSame BY <1>19 DEF RowDies, FilesSame
  <2> QED BY <1>19, <2>1, A_RowDies, NothingNew
<1>20. ASSUME NEW p \in Backends \cup {Vacuum}, Cancel(p) PROVE Outcome(o)
  <2>0. FilesSame BY <1>20 DEF Cancel, FilesSame
  <2>1. CASE p = Vacuum BY <1>20, <2>0, <2>1, A_CancelVacuum, NothingNew
  <2>2. CASE p \in Backends /\ Inserting(p) BY <1>20, <2>0, <2>2, A_CancelInsert, NothingNew
  <2>3. CASE p \in Backends /\ ~Inserting(p) BY <1>20, <2>0, <2>3, A_CancelQuery, NothingNew
  <2> QED BY <2>1, <2>2, <2>3
<1>21. ASSUME NEW b \in Backends,
              \/ \E t \in Tids, text \in Texts : BeginInsert(b, t, text)
              \/ InsertNode(b) \/ ReadTail(b) \/ AppendRecord(b) \/ UpdateMeta(b)
              \/ \E w \in Terms : BeginQuery(b, w)
              \/ ReadMeta(b) \/ OpenCache(b) \/ EnsureLiveness(b) \/ EndQuery(b)
              \/ \E cached \in BOOLEAN : Score(b, cached)
       PROVE  Outcome(o)
  BY <1>1, <1>2, <1>3, <1>4, <1>5, <1>6, <1>7, <1>8, <1>9, <1>10, <1>11, <1>21, Zenon
<1> QED
  BY <1>12, <1>13, <1>14, <1>15, <1>16, <1>17, <1>18, <1>19, <1>20, <1>21, Zenon DEF Next

LEMMA StutterGood ==
  ASSUME NEW o, NEW H, Good(o, H), UNCHANGED vars PROVE Outcome(o)
<1>1. Typed /\ Turns /\ Shape(o, H) BY DEF Good
<1>2. /\ graph' = graph /\ base' = base /\ dpage' = dpage /\ meta' = meta /\ heap' = heap /\ rows' = rows
      /\ cache' = cache /\ cursor' = cursor /\ op' = op /\ pc' = pc /\ vac' = vac /\ bounds' = bounds
  BY DEF vars
<1>3. FilesSame BY <1>2 DEF FilesSame
<1>4. Typed'
  <2>1. VacTyped' BY <1>1, <1>2 DEF Typed, VacTyped
  <2>2. \A b \in Backends : OpTyped(b)' BY <1>1, <1>2 DEF Typed, OpTyped
  <2> QED BY <1>1, <1>2, <2>1, <2>2 DEF Typed
<1>5. Turns' BY <1>1, <1>2 DEF Turns, Inserting, Compacting, UpdateLockFree, Count
<1>6. Good(o, H) BY <1>1 DEF Good
<1>7. Pages(o) /\ Docs /\ History(o, H) /\ HeapOk(H) /\ VacOk(o) BY <1>1 DEF Shape
<1>8. Pages(o)' /\ Docs' /\ History(o, H)' /\ Grow(o, H, o, H) BY <1>1, <1>3, <1>7, SameFiles
<1>9. HeapOk(H)' /\ \A n : Holds(n)' <=> Holds(n) BY <1>1, <1>2, <1>3, <1>7, SameHeap
<1>10. VacOk(o)' BY <1>2, <1>3, <1>7, SameVac
<1>11. KeptOn BY <1>2, <1>9 DEF KeptOn, Kept, Dead, Tid, NodeState
<1>12. FindsOn(H, H) BY <1>3, FindsSame
<1>13. ASSUME NEW b \in Backends PROVE Apart2(o, b)
  <2>1. InsertOk(o, b) /\ CursorOk(o, b) /\ QueryOk(H, b) BY <1>1 DEF Shape
  <2>2. InsertOk(o, b)' BY <1>2, <1>3, <2>1, SameInsert
  <2>3. CursorOk(o, b)' BY <1>2, <1>3, <2>1, SameCursor
  <2>4. Stays(b) BY <1>3, FilesEq DEF Stays, NodeOf
  <2>5. ASSUME pc[b] \in QueryPcs PROVE SnapOk(b)'
    <3>1. SnapOk(b) BY <2>1, <2>5 DEF QueryOk
    <3> QED BY <1>2, <3>1 DEF SnapOk
  <2> QED BY <1>2, <2>2, <2>3, <2>4, <2>5 DEF Apart2
<1>14. Good(o, H)' BY <1>4, <1>5, <1>6, <1>8, <1>9, <1>10, <1>11, <1>12, <1>13, RestFrame
<1> QED BY <1>3, <1>14, NothingNew

LEMMA InvHolds == Spec /\ Orderly => []Inv
<1>1. Init => Inv BY I_Init
<1>2. Inv /\ Orderly /\ [Next]_vars => (Inv /\ Orderly)'
  <2> SUFFICES ASSUME Inv, Orderly, [Next]_vars PROVE Inv' BY DEF Orderly
  <2>1. PICK o, H : Good(o, H) BY DEF Inv, Good
  <2>2. Outcome(o) BY <2>1, StepGood, StutterGood
  <2> QED BY <2>2 DEF Outcome, Good, Inv
<1> QED BY <1>1, <1>2, PTL DEF Spec

-----------------------------------------------------------------------------
(* What it means for types and for queries                                 *)

\* Block numbers, node ids and rows are always of pages, nodes and rows that
\* exist, whichever insert, query or compaction stored them
THEOREM TypeCorrect == Spec /\ Orderly => []TypeOK
<1>1. ASSUME Inv PROVE TypeOK
  <2>1. PICK o, H : Typed /\ Turns /\ Shape(o, H) BY <1>1 DEF Inv
  <2>2. Pages(o) /\ Docs /\ History(o, H) /\ HeapOk(H) BY <2>1 DEF Shape
  <2>3. /\ Count \in Nat /\ Len(dpage) \in Nat /\ Len(base) \in Nat /\ graph.gen \in Nat
        /\ \A n \in Nodes : Tid(n) \in Tids /\ Dead(n) \in BOOLEAN /\ Row(n) \in 1..Len(rows)
    BY <2>1, <2>2, Numbers DEF Docs
  <2>4. \A i \in 1..Count : /\ graph.node[i].tid \in Tids /\ graph.node[i].row \in 1..Len(rows)
                            /\ graph.node[i].dead \in BOOLEAN
    <3> TAKE i \in 1..Count
    <3>1. i - 1 \in Nodes /\ (i - 1) + 1 = i BY <2>3 DEF Nodes
    <3> QED BY <2>3, <3>1 DEF Tid, Row, Dead, NodeState
  <2>5. /\ meta.base \in 1..Len(base) /\ meta.deltaStart \in 0..Len(dpage)
        /\ {meta.docs, meta.deltaGen, meta.deltaDocs, meta.lastGen} \subseteq Nat
    <3>1. MetaOk(o, meta) BY <2>1, <2>2, MetaNow
    <3> QED BY <2>3, <3>1 DEF MetaOk, MetaType, Blocks, Nil
  <2>6. \A b \in 1..Len(dpage) : dpage[b].next \in 0..Len(dpage) /\ Len(dpage[b].tup) \in 1..DeltaCap
    BY <2>2, <2>3 DEF Pages, Linked, Blocks, Nil
  <2>7. \A t \in Tids : heap[t].row \in 0..Len(rows) /\ heap[t].state \in {"free", "inserting", "live", "dead"}
    <3>1. \A t \in Tids : heap[t] \in HeapType BY <2>1 DEF Typed
    <3> QED BY <2>2, <3>1 DEF HeapOk, HeapType
  <2>8. \A b \in Backends : cursor[b].tail \in 0..Len(dpage)
    <3>1. \A b \in Backends : CursorOk(o, b) BY <2>1 DEF Shape
    <3> QED BY <2>3, <3>1 DEF CursorOk, Blocks, Nil
  <2> QED BY <2>3, <2>4, <2>5, <2>6, <2>7, <2>8 DEF TypeOK
<1> QED BY <1>1, InvHolds, PTL

LEMMA QueriesRight ==
  ASSUME Inv, NEW b \in Backends, pc[b] = "done" PROVE DoneOk(b)
<1>1. PICK o, H : QueryOk(H, b) BY DEF Inv, Shape
<1> QED BY <1>1 DEF QueryOk, QueryPcs

\* TqHybridBm25TopK: a query returns every row of its snapshot that has its
\* term, although records are appended, bases are replaced and caches are
\* kept while it runs
THEOREM NothingMissed == Spec /\ Orderly => []QueryComplete
<1>1. Inv => QueryComplete BY QueriesRight DEF QueryComplete, DoneOk
<1> QED BY <1>1, InvHolds, PTL

\* TqHybridBm25EnsureLiveness: a liveness array that is older than a VACUUM
\* never brings in the row that has taken over a freed TID
THEOREM RightRows == Spec /\ Orderly => []RightRow
<1>1. Inv => RightRow BY QueriesRight DEF RightRow, DoneOk
<1> QED BY <1>1, InvHolds, PTL

\* TqHybridBm25ScoreDelta: what a document is scored from is either the base
\* or one delta record, in the middle of a compaction too
THEOREM NothingTwice == Spec /\ Orderly => []CountedOnce
<1>1. Inv => CountedOnce BY QueriesRight DEF CountedOnce, DoneOk
<1> QED BY <1>1, InvHolds, PTL

-----------------------------------------------------------------------------
(* TextIndex                                                               *)

\* How often a document would be found is whether it is indexed
Shown(o) == \A n \in NodeIds : Copies(n) = IF Indexed(o, n) THEN 1 ELSE 0
CopiesRight == \A o, H : Good(o, H) => Shown(o)
LEMMA ShownNow == CopiesRight
<1> SUFFICES ASSUME NEW o, NEW H, Good(o, H), NEW n \in NodeIds
             PROVE  Copies(n) = IF Indexed(o, n) THEN 1 ELSE 0
  BY DEF CopiesRight, Shown
<1>0. Typed /\ Turns /\ Pages(o) /\ Docs /\ History(o, H) BY DEF Good, Shape
<1>R. PICK R : R = RecordsAt(meta.deltaStart) OBVIOUS
<1>k. PICK k : k = meta.base OBVIOUS
<1>t. PICK text : text = TextOf(n) OBVIOUS
<1>1. k \in 1..Len(base) /\ R = Of(o, meta.deltaStart) /\ R \subseteq Spots /\ Apart(base[k], R)
  <2>1. MetaOk(o, meta) /\ dpage \in Seq(PageType) BY <1>0, MetaNow DEF Typed
  <2>2. meta.deltaStart \in Nat /\ (meta.deltaStart # Nil => meta.deltaStart \in Blocks /\ o[meta.deltaStart] = meta.deltaStart)
    BY <2>1 DEF MetaOk, MetaType
  <2>3. R = Of(o, meta.deltaStart) BY <1>0, <1>R, <2>1, <2>2, RecordsOf
  <2> QED BY <1>k, <2>1, <2>3 DEF MetaOk, Of
<1>2. n \in Nodes <=> ~(n >= Count)
  <2>1. Count \in Nat /\ n \in Nat BY <1>0, Numbers, Basics
  <2> QED BY <2>1 DEF Nodes
<1>3. Copies(n) = IF n \notin Nodes \/ Dead(n) \/ text \in {NoText, {}} THEN 0
                  ELSE Max({Scored(n, w, base[k], {n}, R) : w \in text})
  BY <1>2, <1>R, <1>k, <1>t DEF Copies, Dead, TextOf, Row
<1>4. CASE n \notin Nodes \/ Dead(n) \/ text \in {NoText, {}} BY <1>3, <1>4, <1>t DEF Indexed
<1>5. CASE n \in Nodes /\ ~Dead(n) /\ text \notin {NoText, {}}
  <2>1. text \subseteq Terms /\ text # {}
    <3>1. text \in Texts
      <4>1. Row(n) \in 1..Len(rows) /\ rows \in Seq(Texts) BY <1>0, <1>5 DEF Docs, Typed
      <4> QED BY <1>t, <4>1, ElementOfSeq DEF TextOf
    <3> QED BY <1>5, <3>1, ConstantsAssumption
  <2>x. PICK x : x = IF Indexed(o, n) THEN 1 ELSE 0 OBVIOUS
  <2>2. ASSUME NEW w \in text PROVE Scored(n, w, base[k], {n}, R) = x
    <3>s. PICK c : c = Scored(n, w, base[k], {n}, R) OBVIOUS
    <3>1. Once(Scored(n, w, base[k], {n}, R), n, w, k, {n}, R) BY <1>0, <1>1, <2>1, ScoredOnce
    <3>2. /\ c \in {0, 1}
          /\ c = 1 <=> base[k].len[n] # 0 \/ \E p \in R : Rec(p).node = n /\ w \in Rec(p).text
      BY <1>t, <3>1, <3>s DEF Once
    <3>3. \A p \in R : Rec(p).node = n => w \in Rec(p).text BY <1>0, <1>1, <1>t DEF Docs, RecOk
    <3>4. c = 1 <=> base[k].len[n] # 0 \/ Listed(o, n) BY <1>1, <3>2, <3>3 DEF Listed
    <3>5. c = 1 <=> Indexed(o, n) BY <1>5, <1>k, <1>t, <3>4 DEF Indexed
    <3> QED BY <2>x, <3>2, <3>5, <3>s
  <2>3. PICK T : T = {Scored(n, w, base[k], {n}, R) : w \in text} OBVIOUS
  <2>4. T = {x} BY <2>1, <2>2, <2>3
  <2>5. x \in {0, 1} BY <2>x
  <2>6. Max(T) = x BY ONLY <2>4, <2>5 DEF Max
  <2> QED BY <1>3, <1>5, <2>3, <2>6, <2>x
<1> QED BY <1>4, <1>5, <1>t

LEMMA ShownNext == CopiesRight'
BY ShownNow, PTL

LEMMA TextInit == Init => Text!Init
<1> SUFFICES ASSUME Init PROVE Text!Init OBVIOUS
<1>1. Inv BY I_Init
<1>2. PICK o, H : Good(o, H) BY <1>1 DEF Inv, Good
<1>3. \A n \in NodeIds : Copies(n) \in {0, 1} BY <1>2, ShownNow DEF CopiesRight, Shown
<1>4. \A n \in 0..(Count - 1) : ~NodeState(n).dead
  <2>1. PICK N : N = NBuilt OBVIOUS
  <2>2. N \in Nat BY <2>1, Basics
  <2>3. graph.node = [i \in 1..N |-> [tid |-> BuiltTids[i], row |-> i, dead |-> FALSE]] BY <2>1 DEF Init
  <2>4. graph.node \in Seq(NodeType) BY <1>2 DEF Good, Typed
  <2>5. Len(graph.node) = N BY <2>2, <2>3, <2>4, LenProperties
  <2>6. \A n \in 0..(N - 1) : n + 1 \in 1..N BY <2>2
  <2>7. \A i \in 1..N : graph.node[i].dead = FALSE BY <2>3
  <2>8. \A n \in 0..(N - 1) : graph.node[n + 1].dead = FALSE BY ONLY <2>6, <2>7
  <2> QED BY <2>5, <2>8 DEF Count, NodeState
<1> QED BY <1>3, <1>4 DEF Text!Init

\* Every step is a step of TextIndex, or none
TextStep == [Text!Next]_<<[n \in NodeIds |-> Copies(n)], {n \in 0..(Count - 1) : NodeState(n).dead}>>
LEMMA TextNext ==
  ASSUME NEW o, NEW H, Good(o, H), Outcome(o) PROVE TextStep
<1>1. PICK u, J : Good(u, J)' /\ Implements(o, u) BY DEF Outcome
<1>C. PICK C : C = [n \in NodeIds |-> Copies(n)] OBVIOUS
<1>D. PICK D : D = [n \in NodeIds |-> Copies(n)'] OBVIOUS
<1>2. C = [n \in NodeIds |-> IF Indexed(o, n) THEN 1 ELSE 0] BY <1>C, ShownNow DEF CopiesRight, Shown
<1>3. D = [n \in NodeIds |-> IF Indexed(u, n)' THEN 1 ELSE 0] BY <1>1, <1>D, ShownNext DEF CopiesRight, Shown
<1>g. PICK g : g = Gone OBVIOUS
<1>h. PICK h : h = Gone' OBVIOUS
<1>4. g = {n \in 0..(Count - 1) : NodeState(n).dead} BY <1>g DEF Gone, Nodes, Dead
<1>5. h = {n \in 0..(Count - 1) : NodeState(n).dead}' BY <1>h DEF Gone, Nodes, Dead
<1>6. CASE Same(o, u)
  <2>1. C = D /\ g = h BY <1>2, <1>3, <1>6, <1>g, <1>h DEF Same
  <2> QED BY <1>4, <1>5, <1>C, <1>D, <2>1 DEF TextStep
<1>7. ASSUME NEW k \in NodeIds, Added(o, u, k) PROVE TextStep
  <2>1. k \notin g /\ C[k] = 0 /\ h = g BY <1>2, <1>7, <1>g, <1>h DEF Added
  <2>2. D = [C EXCEPT ![k] = 1] BY <1>2, <1>3, <1>7 DEF Added
  <2>3. Text!Add(k) BY <1>4, <1>5, <1>C, <1>D, <2>1, <2>2 DEF Text!Add
  <2> QED BY <2>3 DEF TextStep, Text!Next
<1>8. ASSUME NEW S \in SUBSET NodeIds, Removed(o, u, S) PROVE TextStep
  <2>1. S # {} /\ S \cap g = {} /\ h = g \cup S BY <1>8, <1>g, <1>h DEF Removed
  <2>2. D = [n \in NodeIds |-> IF n \in S THEN 0 ELSE C[n]] BY <1>2, <1>3, <1>8 DEF Removed
  <2>3. Text!Remove(S) BY <1>4, <1>5, <1>C, <1>D, <2>1, <2>2 DEF Text!Remove
  <2> QED BY <2>3 DEF TextStep, Text!Next
<1> QED BY <1>1, <1>6, <1>7, <1>8 DEF Implements

\* The pages, records and base postings implement TextIndex: a document is
\* added by the one step that makes its record reachable, a compaction changes
\* nothing, and only VACUUM's mark takes documents away
THEOREM TextImplemented == Spec /\ Orderly => ImplementsTextIndex
<1>1. Init => Text!Init BY TextInit
<1>2. Inv /\ Orderly /\ [Next]_vars => TextStep
  <2> SUFFICES ASSUME Inv, Orderly, [Next]_vars PROVE TextStep OBVIOUS
  <2>1. PICK o, H : Good(o, H) BY DEF Inv, Good
  <2>2. Outcome(o) BY <2>1, StepGood, StutterGood
  <2> QED BY <2>1, <2>2, TextNext
<1>3. Orderly => Orderly' BY DEF Orderly
<1> QED BY <1>1, <1>2, <1>3, InvHolds, PTL DEF Spec, ImplementsTextIndex, Text!Spec, TextStep
=============================================================================
