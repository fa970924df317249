------------------------------ MODULE TqGraph ------------------------------
(***************************************************************************)
(* The native TurboQuant graph (tqgraph.c, tqgraph_insert.c,               *)
(* tqgraph_scan_cache.c, tqgraph_storage.c): in-place inserts under        *)
(* HNSW_UPDATE_LOCK, VACUUM under HNSW_SCAN_LOCK, scans that read nothing  *)
(* but a cache of their backend, and the metapage generation that tells    *)
(* when such a cache is stale.  A step is what a backend does under one    *)
(* buffer lock, or with its own cache.                                     *)
(*                                                                         *)
(* Abstracted: which of two nodes is nearer is a choice; graphs have at    *)
(* most TQ_GRAPH_MAX_ENTRY_POINTS nodes, so that every loaded node is an   *)
(* entry of TqGraphTraverse; no exact vectors, payloads or corrections,    *)
(* whose pages follow the nodes'.                                          *)
(***************************************************************************)
EXTENDS Integers, Sequences, FiniteSets, FiniteSetsExt

CONSTANTS
  Backends,   \* backends that insert and scan
  Vacuum,     \* the backend that vacuums
  Tids,       \* heap TIDs
  BuiltTids,  \* the rows CREATE INDEX may find, in their order
  BuiltSizes, \* how many of them it finds
  NodeLevel,  \* TqGraphPickLevel, by node id
  M,          \* the m option
  CodeCap,    \* code tuples in a page
  AdjCap,     \* adjacency tuples in a page
  MaxNew,     \* bound: rows inserted in a behaviour
  MaxScans,   \* bound: scans in a behaviour
  MaxDeletes, \* bound: rows deleted in a behaviour
  MaxVacuums, \* bound: VACUUM runs in a behaviour
  MaxCancels, \* bound: statements cancelled in a behaviour
  CancelAt    \* the steps before which a statement may be cancelled

Nil     == 0
NBuilt  == Len(BuiltTids)
MaxRows == NBuilt + MaxNew
NodeIds == 0..(MaxRows - 1)
Rows    == 1..MaxRows
NoNode  == MaxRows
TopLevel == Max({NodeLevel[n] : n \in NodeIds})

\* TqGraphLevelM, TqGraphPageCount, and the width of graphFlags
LevelM(l) == IF l = 0 THEN 2 * M ELSE M
PageCountRoundsDown(n) == n \div CodeCap
PageCount(n) == (n + CodeCap - 1) \div CodeCap
Bump(gen) == IF gen = 0 THEN 1 ELSE (gen + 1) % 2^16

ASSUME ConstantsAssumption ==
  /\ Vacuum \notin Backends /\ Nil \notin Tids
  /\ BuiltTids \in Seq(Tids) /\ NBuilt <= M + 1
  /\ \A i, j \in 1..NBuilt : i # j => BuiltTids[i] # BuiltTids[j]
  /\ BuiltSizes \subseteq 0..NBuilt
  /\ MaxRows # 0 /\ NodeLevel \in [NodeIds -> Nat]
  /\ M \in Nat \ {0} /\ CodeCap \in Nat \ {0} /\ AdjCap \in Nat \ {0}
  /\ {MaxNew, MaxScans, MaxDeletes, MaxVacuums, MaxCancels} \subseteq Nat

VARIABLES
  page,    \* the blocks after the metapage: kind, nextblkno, tuples
  meta,    \* metapage: generation (graphFlags), counts, entry, page roots
  heap,    \* the row at each heap TID and its state
  rows,    \* rows there have been
  cache,   \* the TqGraphNativeCache of each backend
  op,      \* the insert or scan of each backend
  pc,      \* what each backend does next
  vac,     \* the local variables of tqgraphbulkdelete
  bounds   \* new rows, scans, deletes, VACUUM runs and cancelled statements so far

vars == <<page, meta, heap, rows, cache, op, pc, vac, bounds>>

Goto(p, label) == pc' = [pc EXCEPT ![p] = label]

-----------------------------------------------------------------------------
(* Pages                                                                   *)

CodeTuple(n, t, r) == [node |-> n, tid |-> t, row |-> r, dead |-> FALSE]
AdjTuple(n, l, S)  == [node |-> n, level |-> l, nbrs |-> S]
NewPage(kind, tup) == [kind |-> kind, next |-> Nil, tup |-> <<tup>>]

\* The blocks of a chain
ChainOf(P, start) ==
  LET C[n \in 0..Len(P)] ==
        IF n = 0 THEN IF start = Nil THEN <<>> ELSE <<start>>
        ELSE LET c == C[n - 1]
             IN IF c = <<>> \/ P[c[Len(c)]].next = Nil THEN c
                ELSE Append(c, P[c[Len(c)]].next)
  IN C[Len(P)]
LastBlock(P, start) == LET c == ChainOf(P, start) IN c[Len(c)]

Places(start) ==
  LET chain == ChainOf(page, start)
  IN UNION {{<<chain[k], i>> : i \in 1..Len(page[chain[k]].tup)} : k \in 1..Len(chain)}
TupleAt(p) == page[p[1]].tup[p[2]]

\* TqGraphAppendTuple: the pages and where the tuple is
AppendTuple(P, start, kind, tup, cap) ==
  LET new == Len(P) + 1 IN
  IF start = Nil
    THEN [pages |-> Append(P, NewPage(kind, tup)), start |-> new, blk |-> new, off |-> 1]
  ELSE LET b == LastBlock(P, start) IN
    IF Len(P[b].tup) < cap
      THEN [pages |-> [P EXCEPT ![b].tup = Append(@, tup)], start |-> start,
            blk |-> b, off |-> Len(P[b].tup) + 1]
      ELSE [pages |-> Append([P EXCEPT ![b].next = new], NewPage(kind, tup)),
            start |-> start, blk |-> new, off |-> 1]

-----------------------------------------------------------------------------
(* TqGraphWriteGraphDataPages: the code pages, then the adjacency pages    *)

\* The pages of the code tuples of n nodes, then those of their adjacency
\* tuples; so few nodes are all neighbors
NoPages(P) == [pages |-> P, start |-> Nil, blk |-> Nil, off |-> 0]
WrittenCode(n) ==
  LET W[i \in 0..n] ==
        IF i = 0 THEN NoPages(<<>>)
        ELSE AppendTuple(W[i - 1].pages, W[i - 1].start, "code",
                         CodeTuple(i - 1, BuiltTids[i], i), CodeCap)
  IN W[n]
\* The lists of node k, a level at a time, behind the pages of w
WithAdj(w, n, k) ==
  LET Nbrs(l) == {i \in 0..(n - 1) : i # k /\ NodeLevel[i] >= l}
      V[l \in 0..(NodeLevel[k] + 1)] ==
        IF l = 0 THEN w
        ELSE AppendTuple(V[l - 1].pages, V[l - 1].start, "adj",
                         AdjTuple(k, l - 1, Nbrs(l - 1)), AdjCap)
  IN V[NodeLevel[k] + 1]
WrittenAdj(n) ==
  LET W[i \in 0..n] == IF i = 0 THEN NoPages(WrittenCode(n).pages)
                        ELSE WithAdj(W[i - 1], n, i - 1)
  IN W[n]

Highest(S) == CHOOSE n \in S : \A k \in S : NodeLevel[k] <= NodeLevel[n]
Row(r, state, indexed) == [row |-> r, state |-> state, indexed |-> indexed]
NoRow    == Row(Nil, "free", FALSE)
NoCache  == [key |-> Nil, cached |-> FALSE]
NoOp     == [kind |-> "none"]
NoVacuum == [dead |-> {}]

\* CREATE INDEX on the first n rows
InitBuilt(n) ==
  LET entry == IF n = 0 THEN NoNode ELSE Highest(0..(n - 1)) IN
  /\ page = WrittenAdj(n).pages
  /\ meta = [gen |-> 1, count |-> n, entry |-> entry,
             maxLevel |-> IF n = 0 THEN 0 ELSE NodeLevel[entry],
             codeStart |-> WrittenCode(n).start, adjStart |-> WrittenAdj(n).start]
  /\ heap = [t \in Tids |->
       IF \E i \in 1..n : BuiltTids[i] = t
         THEN Row(CHOOSE i \in 1..n : BuiltTids[i] = t, "live", TRUE) ELSE NoRow]
  /\ rows = n
Init ==
  /\ \E n \in BuiltSizes : InitBuilt(n)
  /\ cache = [b \in Backends |-> NoCache]
  /\ op = [b \in Backends |-> NoOp]
  /\ pc = [p \in Backends \cup {Vacuum} |-> "idle"]
  /\ vac = NoVacuum
  /\ bounds = [new |-> 0, scans |-> 0, deletes |-> 0, vacuums |-> 0, cancels |-> 0]

-----------------------------------------------------------------------------
(* tqgraph_scan_cache.c                                                    *)

\* TqGraphCacheMatches
CacheMatchesCounts(b, m) == cache[b].cached /\ [cache[b].key EXCEPT !.gen = m.gen] = m
CacheMatches(b, m) == cache[b].cached /\ cache[b].key = m

\* TqGraphInitScanStorageUncached
NotLoaded == CodeTuple(NoNode, Nil, Nil)
NoAdj == [nbrs |-> {}, blk |-> Nil, off |-> 0]
EmptyCache(m) ==
  [key |-> m, cached |-> FALSE, pageNo |-> 0, mapped |-> FALSE, adjBlk |-> m.adjStart,
   nodes |-> [n \in 0..(m.count - 1) |-> NotLoaded],
   adj |-> [n \in 0..(m.count - 1) |-> [l \in 0..TopLevel |-> NoAdj]]]

\* TqGraphInitScanStorage: the cache of the backend if it matches, or a new
\* one; stale ones are dropped
InitStorage(b, m, ready) ==
  IF CacheMatches(b, m)
    THEN Goto(b, ready) /\ UNCHANGED cache
    ELSE Goto(b, "loadCode") /\ cache' = [cache EXCEPT ![b] = EmptyCache(m)]

\* TqGraphLoadCodePage: the block as if pages were contiguous, and if its
\* kind is another one the block of the chain
CodeBlock(c) ==
  LET guess == c.key.codeStart + c.pageNo
      chain == ChainOf(page, c.key.codeStart)
      real  == IF c.pageNo < Len(chain) THEN chain[c.pageNo + 1] ELSE Nil
  IN [blk |-> IF c.mapped \/ page[guess].kind # "code" THEN real ELSE guess,
      mapped |-> c.mapped \/ page[guess].kind # "code"]
LoadedNodes(c, blk) ==
  [n \in DOMAIN c.nodes |->
     LET at == {i \in 1..Len(page[blk].tup) : page[blk].tup[i].node = n}
     IN IF at = {} THEN c.nodes[n] ELSE page[blk].tup[Max(at)]]
LoadCodePage(b) ==
  /\ pc[b] = "loadCode"
  /\ LET c == cache[b]
         g == CodeBlock(c)
     IN /\ cache' = [cache EXCEPT ![b].pageNo = @ + 1, ![b].mapped = g.mapped,
                       ![b].nodes = IF g.blk = Nil THEN @ ELSE LoadedNodes(c, g.blk)]
        /\ Goto(b, IF c.pageNo + 1 < PageCount(c.key.count) THEN "loadCode" ELSE "loadAdj")
  /\ UNCHANGED <<page, meta, heap, rows, op, vac, bounds>>

\* TqGraphLoadAllAdjPages, a page at a time
LoadedAdj(c, blk) ==
  [n \in DOMAIN c.adj |-> [l \in 0..TopLevel |->
     LET at == {i \in 1..Len(page[blk].tup) :
                  /\ page[blk].tup[i].node = n /\ page[blk].tup[i].level = l
                  /\ l <= c.key.maxLevel
                  /\ Cardinality(page[blk].tup[i].nbrs) <= LevelM(l)}
     IN IF at = {} THEN c.adj[n][l]
        ELSE [nbrs |-> page[blk].tup[Max(at)].nbrs, blk |-> blk, off |-> Max(at)]]]
LoadAdjPage(b) ==
  /\ pc[b] = "loadAdj"
  /\ LET c    == cache[b]
         next == page[c.adjBlk].next
     IN /\ cache' = [cache EXCEPT ![b].adj = LoadedAdj(c, c.adjBlk),
                       ![b].adjBlk = next, ![b].cached = next = Nil]
        /\ Goto(b, IF next # Nil THEN "loadAdj"
                   ELSE IF op[b].kind = "insert" THEN "select" ELSE "collect")
  /\ UNCHANGED <<page, meta, heap, rows, op, vac, bounds>>

\* TqGraphTraverse, when every node is an entry
Live(c, n) == c.nodes[n] # NotLoaded /\ ~c.nodes[n].dead
EntryNode(m) == IF m.entry < m.count THEN m.entry ELSE 0
Traverse(c) ==
  IF c.nodes[EntryNode(c.key)] = NotLoaded THEN {} ELSE {n \in DOMAIN c.nodes : Live(c, n)}

-----------------------------------------------------------------------------
(* tqgraphinsert, under HNSW_UPDATE_LOCK                                   *)

Inserting(b) == op[b].kind = "insert"
UpdateLockFree == \A b \in Backends : ~Inserting(b)

\* The heap gives a free TID to a row
NewRow(t, state, indexed) ==
  /\ heap[t].state = "free" /\ bounds.new < MaxNew
  /\ rows' = rows + 1
  /\ heap' = [heap EXCEPT ![t] = Row(rows + 1, state, indexed)]
  /\ bounds' = [bounds EXCEPT !.new = @ + 1]

\* tqgraphinsert of a row whose vector is null, or that cannot be normalized
InsertNull(t) ==
  /\ NewRow(t, "live", FALSE)
  /\ UNCHANGED <<page, meta, cache, op, pc, vac>>

\* Takes the lock and reads the metapage; t has been given to a new row
BeginInsert(b, t) ==
  /\ pc[b] = "idle" /\ UpdateLockFree
  /\ NewRow(t, "inserting", TRUE)
  /\ op' = [op EXCEPT ![b] =
       [kind |-> "insert", tid |-> t, meta |-> meta, todo |-> {},
        sel |-> [l \in 0..NodeLevel[meta.count] |-> {}], loc |-> <<>>,
        codeStart |-> meta.codeStart, adjStart |-> meta.adjStart]]
  /\ IF meta.count = 0 THEN Goto(b, "code") /\ UNCHANGED cache
                       ELSE InitStorage(b, meta, "select")
  /\ UNCHANGED <<page, meta, vac>>

\* TqGraphTraverse and TqGraphSelectInsertNeighbors
Nearest(S, n) == {T \in SUBSET S : Cardinality(T) = IF Cardinality(S) < n
                                                    THEN Cardinality(S) ELSE n}
Eligible(c, l) == {n \in Traverse(c) : NodeLevel[n] >= l}
Select(b) ==
  /\ pc[b] = "select"
  /\ \E sel \in [DOMAIN op[b].sel -> SUBSET Traverse(cache[b])] :
       /\ \A l \in DOMAIN sel : sel[l] \in Nearest(Eligible(cache[b], l), LevelM(l))
       /\ LET todo == {x \in (DOMAIN sel) \X NodeIds : x[2] \in sel[x[1]]}
          IN /\ op' = [op EXCEPT ![b].sel = sel, ![b].todo = todo]
             /\ Goto(b, IF todo = {} THEN "code" ELSE "link")
  /\ UNCHANGED <<page, meta, heap, rows, cache, vac, bounds>>

\* TqGraphUpdateReciprocalNeighbor: the list of the cache with the new node,
\* cut to the nearest ones whose distance can be computed
Readable(c, n) == n \in DOMAIN c.nodes /\ Live(c, n)
ListsUnpruned(c, new, src, l) == {c.adj[src][l].nbrs \cup {new}}
LinkedLists(c, new, src, l) ==
  LET S == c.adj[src][l].nbrs \cup {new} IN
  IF Cardinality(S) <= LevelM(l) THEN {S}
  ELSE Nearest({n \in S : n = new \/ Readable(c, n)}, LevelM(l))
\* Where TqGraphUpdateAdjTuple finds the tuple
AdjPlaces(start, n, l) ==
  {p \in Places(start) : TupleAt(p).node = n /\ TupleAt(p).level = l}
FirstPlace(S) == CHOOSE p \in S : \A q \in S : p[1] < q[1] \/ (p[1] = q[1] /\ p[2] <= q[2])
AdjPlace(c, n, l) ==
  IF c.adj[n][l].blk # Nil THEN <<c.adj[n][l].blk, c.adj[n][l].off>>
  ELSE FirstPlace(AdjPlaces(c.key.adjStart, n, l))
Link(b, l, src) ==
  /\ pc[b] = "link"
  /\ <<l, src>> \in op[b].todo /\ \A x \in op[b].todo : l <= x[1]
  /\ LET c == cache[b]
         p == AdjPlace(c, src, l)
         todo == op[b].todo \ {<<l, src>>}
     IN \E S \in LinkedLists(c, op[b].meta.count, src, l) :
          /\ page' = [page EXCEPT ![p[1]].tup[p[2]].nbrs = S]
          /\ cache' = [cache EXCEPT ![b].adj[src][l] =
                         [nbrs |-> S, blk |-> p[1], off |-> p[2]]]
          /\ op' = [op EXCEPT ![b].todo = todo]
          /\ Goto(b, IF todo = {} THEN "code" ELSE "link")
  /\ UNCHANGED <<meta, heap, rows, vac, bounds>>

\* TqGraphAppendInsertedCode
AppendCode(b) ==
  /\ pc[b] = "code"
  /\ LET o == op[b]
         a == AppendTuple(page, o.codeStart, "code",
                          CodeTuple(o.meta.count, o.tid, heap[o.tid].row), CodeCap)
     IN page' = a.pages /\ op' = [op EXCEPT ![b].codeStart = a.start]
  /\ Goto(b, "adj")
  /\ UNCHANGED <<meta, heap, rows, cache, vac, bounds>>

\* TqGraphAppendInsertedAdj, a level at a time
AppendAdj(b) ==
  /\ pc[b] = "adj"
  /\ LET o == op[b]
         l == Len(o.loc)
         a == AppendTuple(page, o.adjStart, "adj",
                          AdjTuple(o.meta.count, l, o.sel[l]), AdjCap)
     IN /\ page' = a.pages
        /\ op' = [op EXCEPT ![b].adjStart = a.start,
                            ![b].loc = Append(@, <<a.blk, a.off>>)]
        /\ Goto(b, IF l + 1 \in DOMAIN o.sel THEN "adj" ELSE "meta")
  /\ UNCHANGED <<meta, heap, rows, cache, vac, bounds>>

\* TqGraphAppendInsertCacheNode: the key follows the metapage, but for its
\* generation
CacheKeepsArrays(c, o, key) == [c EXCEPT !.key = [key EXCEPT !.gen = c.key.gen]]
CacheWithNode(c, o, key) ==
  [c EXCEPT !.key = [key EXCEPT !.gen = c.key.gen],
     !.nodes = [n \in 0..o.meta.count |-> IF n \in DOMAIN c.nodes THEN c.nodes[n]
                  ELSE CodeTuple(n, o.tid, heap[o.tid].row)],
     !.adj = [n \in 0..o.meta.count |-> IF n \in DOMAIN c.adj THEN c.adj[n]
                ELSE [l \in 0..TopLevel |->
                        IF l \in DOMAIN o.sel
                          THEN [nbrs |-> o.sel[l], blk |-> o.loc[l + 1][1],
                                off |-> o.loc[l + 1][2]]
                          ELSE NoAdj]]]
\* TqGraphUpdateMetaPage; the lock is released and the statement commits
UpdateMeta(b) ==
  /\ pc[b] = "meta"
  /\ LET o == op[b]
         new == o.meta.count
         entry == IF new = 0 \/ NodeLevel[new] > o.meta.maxLevel THEN new ELSE o.meta.entry
         top == IF NodeLevel[new] > o.meta.maxLevel THEN NodeLevel[new] ELSE o.meta.maxLevel
     IN /\ meta' = [gen |-> Bump(meta.gen), count |-> new + 1, entry |-> entry,
                    maxLevel |-> top, codeStart |-> o.codeStart, adjStart |-> o.adjStart]
        /\ cache' = IF new = 0 THEN cache
                    ELSE [cache EXCEPT ![b] = CacheWithNode(cache[b], o, meta')]
        /\ heap' = [heap EXCEPT ![o.tid].state = "live"]
  /\ op' = [op EXCEPT ![b] = NoOp] /\ Goto(b, "idle")
  /\ UNCHANGED <<page, rows, vac, bounds>>

-----------------------------------------------------------------------------
(* Scans: tqgraphgettuple, under HNSW_SCAN_LOCK                            *)

Scanning(b) == op[b].kind = "scan" /\ pc[b] \in {"loadCode", "loadAdj", "collect"}
Snapshot == {t \in Tids : heap[t].state = "live"}
Versions(S) == {<<t, heap[t].row>> : t \in S}

BeginScan(b) ==
  /\ pc[b] = "idle" /\ bounds.scans < MaxScans
  /\ op' = [op EXCEPT ![b] =
       [kind |-> "scan", snap |-> Versions(Snapshot), ret |-> {},
        due |-> Versions({t \in Snapshot : heap[t].indexed})]]
  /\ Goto(b, "scan")
  /\ bounds' = [bounds EXCEPT !.scans = @ + 1]
  /\ UNCHANGED <<page, meta, heap, rows, cache, vac>>

\* The lock, TqGraphReadMeta and TqGraphInitScanStorage
StartScan(b) ==
  /\ pc[b] = "scan" /\ pc[Vacuum] \notin {"vacCode", "vacAdj", "vacEnd"}
  /\ IF meta.count = 0 \/ meta.codeStart = Nil \/ meta.adjStart = Nil
       THEN Goto(b, "done") /\ UNCHANGED cache
       ELSE InitStorage(b, meta, "collect")
  /\ UNCHANGED <<page, meta, heap, rows, op, vac, bounds>>

\* TqGraphCollectResults, and the lock is released
Collect(b) ==
  /\ pc[b] = "collect"
  /\ LET c == cache[b]
     IN op' = [op EXCEPT ![b].ret = {<<c.nodes[n].tid, c.nodes[n].row>> : n \in Traverse(c)}]
  /\ Goto(b, "done")
  /\ UNCHANGED <<page, meta, heap, rows, cache, vac, bounds>>

\* tqgraphendscan
EndScan(b) ==
  /\ pc[b] = "done"
  /\ op' = [op EXCEPT ![b] = NoOp] /\ Goto(b, "idle")
  /\ UNCHANGED <<page, meta, heap, rows, cache, vac, bounds>>

-----------------------------------------------------------------------------
(* tqgraphbulkdelete                                                       *)

\* Rows that no snapshot sees are to be removed; the metapage is read before
\* the lock is taken
Removable == {t \in Tids : /\ heap[t].state = "dead"
                           /\ \A b \in Backends : op[b].kind = "scan" =>
                                <<t, heap[t].row>> \notin op[b].snap}
Reap(S) == heap' = [t \in Tids |-> IF t \in S THEN NoRow ELSE heap[t]]
BeginVacuum ==
  /\ pc[Vacuum] = "idle" /\ bounds.vacuums < MaxVacuums /\ Removable # {}
  /\ bounds' = [bounds EXCEPT !.vacuums = @ + 1]
  /\ IF meta.count = 0 \/ meta.codeStart = Nil
       THEN Reap(Removable) /\ UNCHANGED <<vac, pc>>
       ELSE /\ vac' = [dead |-> Removable, meta |-> meta, nodes |-> {}, changed |-> FALSE,
                       blk |-> meta.codeStart, pageNo |-> 0, nblocks |-> Len(page)]
            /\ Goto(Vacuum, "vacLock") /\ UNCHANGED heap
  /\ UNCHANGED <<page, meta, rows, cache, op>>

LockVacuum ==
  /\ pc[Vacuum] = "vacLock" /\ \A b \in Backends : ~Scanning(b)
  /\ vac' = [vac EXCEPT !.nblocks = Len(page)]
  /\ Goto(Vacuum, "vacCode")
  /\ UNCHANGED <<page, meta, heap, rows, cache, op, bounds>>

\* A code page: the tuples of dead rows are marked
VacuumCode ==
  /\ pc[Vacuum] = "vacCode"
  /\ LET tup  == page[vac.blk].tup
         mine == {i \in 1..Len(tup) : tup[i].node < vac.meta.count}
         kill == {i \in mine : ~tup[i].dead /\ tup[i].tid \in vac.dead}
         dead == vac.nodes \cup {tup[i].node : i \in kill \cup {i \in mine : tup[i].dead}}
         next == page[vac.blk].next
         more == /\ vac.pageNo + 1 < PageCount(vac.meta.count)
                 /\ next # Nil /\ next <= vac.nblocks
         new  == [i \in 1..Len(tup) |-> [tup[i] EXCEPT !.dead = tup[i].dead \/ i \in kill]]
     IN /\ page' = [page EXCEPT ![vac.blk].tup = new]
        /\ vac' = [vac EXCEPT !.nodes = dead, !.changed = @ \/ kill # {},
                     !.pageNo = @ + 1, !.blk = IF more THEN next ELSE vac.meta.adjStart,
                     !.nblocks = IF more THEN @ ELSE Len(page)]
        /\ Goto(Vacuum, IF more THEN "vacCode"
                        ELSE IF dead # {} /\ vac.meta.adjStart # Nil THEN "vacAdj" ELSE "vacEnd")
  /\ UNCHANGED <<meta, heap, rows, cache, op, bounds>>

\* TqGraphRepairAdjacencyForDeadNodes, a page at a time
Repaired(tup) ==
  IF tup.node >= vac.meta.count THEN tup
  ELSE LET alive == {n \in tup.nbrs : n < vac.meta.count /\ n \notin vac.nodes}
       IN [tup EXCEPT !.nbrs = IF tup.node \in vac.nodes THEN {} ELSE alive]
RepairAdj ==
  /\ pc[Vacuum] = "vacAdj"
  /\ LET tup  == page[vac.blk].tup
         new  == [i \in 1..Len(tup) |-> Repaired(tup[i])]
         next == page[vac.blk].next
         more == next # Nil /\ next <= vac.nblocks
     IN /\ page' = [page EXCEPT ![vac.blk].tup = new]
        /\ vac' = [vac EXCEPT !.changed = @ \/ new # tup, !.blk = next]
        /\ Goto(Vacuum, IF more THEN "vacAdj" ELSE "vacEnd")
  /\ UNCHANGED <<meta, heap, rows, cache, op, bounds>>

\* TqGraphBumpMetaGeneration; then VACUUM frees the TIDs
GenKept == meta.gen
GenAfterVacuum == IF vac.changed THEN Bump(meta.gen) ELSE meta.gen
FinishVacuum ==
  /\ pc[Vacuum] = "vacEnd"
  /\ meta' = [meta EXCEPT !.gen = GenAfterVacuum]
  /\ Reap(vac.dead)
  /\ vac' = NoVacuum /\ Goto(Vacuum, "idle")
  /\ UNCHANGED <<page, rows, cache, op, bounds>>

-----------------------------------------------------------------------------
(* Deletes, and statements that fail or are cancelled                      *)

RowDies(t) ==
  /\ heap[t].state = "live" /\ bounds.deletes < MaxDeletes
  /\ heap' = [heap EXCEPT ![t].state = "dead"]
  /\ bounds' = [bounds EXCEPT !.deletes = @ + 1]
  /\ UNCHANGED <<page, meta, rows, cache, op, pc, vac>>

\* The PG_CATCH blocks release the locks; pages stay as they are, a cache
\* that is being built is lost and so is the row of an insert
Cancel(p) ==
  /\ pc[p] \in CancelAt /\ bounds.cancels < MaxCancels
  /\ bounds' = [bounds EXCEPT !.cancels = @ + 1]
  /\ Goto(p, "idle")
  /\ IF p = Vacuum
       THEN vac' = NoVacuum /\ UNCHANGED <<op, cache, heap>>
       ELSE /\ op' = [op EXCEPT ![p] = NoOp]
            /\ cache' = IF cache[p].cached THEN cache ELSE [cache EXCEPT ![p] = NoCache]
            /\ heap' = IF Inserting(p) THEN [heap EXCEPT ![op[p].tid].state = "dead"] ELSE heap
            /\ UNCHANGED vac
  /\ UNCHANGED <<page, meta, rows>>

Next ==
  \/ \E b \in Backends :
       \/ \E t \in Tids : BeginInsert(b, t)
       \/ LoadCodePage(b) \/ LoadAdjPage(b) \/ Select(b)
       \/ \E l \in 0..TopLevel, src \in NodeIds : Link(b, l, src)
       \/ AppendCode(b) \/ AppendAdj(b) \/ UpdateMeta(b)
       \/ BeginScan(b) \/ StartScan(b) \/ Collect(b) \/ EndScan(b)
  \/ BeginVacuum \/ LockVacuum \/ VacuumCode \/ RepairAdj \/ FinishVacuum
  \/ \E t \in Tids : InsertNull(t) \/ RowDies(t)
  \/ \E p \in Backends \cup {Vacuum} : Cancel(p)

Spec == Init /\ [][Next]_vars

-----------------------------------------------------------------------------
(* Properties                                                              *)

\* Every variable has its type: pages hold tuples of their kind, the metapage
\* roots and the cached places are blocks of the index, and caches cover the
\* nodes of the metapage they were built for (HnswMetaPageData,
\* TqGraphNativeCache).
TypeOK ==
  /\ \A k \in 1..Len(page) :
       /\ page[k].next \in 0..Len(page)
       /\ page[k].kind = "code" => Len(page[k].tup) \in 1..CodeCap
       /\ page[k].kind = "adj" => Len(page[k].tup) \in 1..AdjCap
  /\ meta.gen \in 0..(2^16 - 1) /\ meta.count \in 0..rows /\ rows \in 0..MaxRows
  /\ meta.entry \in NodeIds \cup {NoNode} /\ meta.maxLevel \in 0..TopLevel
  /\ {meta.codeStart, meta.adjStart} \subseteq 0..Len(page)
  /\ heap \in [Tids -> [row : Rows \cup {Nil}, indexed : BOOLEAN,
                       state : {"free", "inserting", "live", "dead"}]]
  /\ \A b \in Backends : cache[b] = NoCache
       \/ /\ DOMAIN cache[b].nodes = 0..(cache[b].key.count - 1)
          /\ DOMAIN cache[b].adj = 0..(cache[b].key.count - 1)
  /\ \A b \in Backends : op[b].kind \in {"none", "insert", "scan"}

\* A cache that would be used has the heap TID and the dead flag that the code
\* pages have, however inserts, VACUUM and cancelled statements interleaved
\* with its loading: the generation is a sound key (TqGraphCacheMatches).
\* While VACUUM marks, only an insert can use one.
CacheCurrent ==
  pc[Vacuum] \notin {"vacCode", "vacAdj", "vacEnd"} =>
    \A b \in Backends : CacheMatches(b, meta) =>
      LET code == {TupleAt(p) : p \in Places(meta.codeStart)} IN
      {cache[b].nodes[n] : n \in DOMAIN cache[b].nodes} = {t \in code : t.node < meta.count}

\* A row that a scan returns is the one its node was written for, also when
\* VACUUM has freed the TID of another row and the heap has used it again
\* (TqGraphCollectResults, xs_recheckorderby = false).
RightRow ==
  \A b \in Backends : pc[b] = "done" =>
    \A x \in op[b].ret, y \in op[b].snap : x[1] = y[1] => x = y

\* A scan of a graph no larger than TQ_GRAPH_MAX_ENTRY_POINTS returns every row
\* of its snapshot: no code page is missed behind other pages, no node is
\* hidden by the cache (TqGraphLoadCodePage, TqGraphCollectResults).
ScanComplete ==
  \A b \in Backends : pc[b] = "done" => op[b].due \subseteq op[b].ret

\* A list has at most LevelM neighbors, all of its level and none the node
\* itself, whatever a concurrent VACUUM or a failed insert left in it
\* (TqGraphUpdateReciprocalNeighbor, TqGraphRepairAdjacencyForDeadNodes).
LinksOk ==
  \A k \in 1..Len(page) : page[k].kind = "adj" =>
    \A i \in 1..Len(page[k].tup) : LET t == page[k].tup[i] IN
      /\ Cardinality(t.nbrs) <= LevelM(t.level)
      /\ \A n \in t.nbrs : n # t.node /\ n <= meta.count /\ NodeLevel[n] >= t.level
=============================================================================
