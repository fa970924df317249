----------------------------- MODULE HnswBuild ------------------------------
(***************************************************************************)
(* CREATE INDEX ... USING hnsw (hnswbuild.c): the leader and its parallel  *)
(* workers share the rows of the heap and insert them into a graph in      *)
(* shared memory; whoever finds it full flushes it to pages, and the rest  *)
(* of the rows is inserted on disk.  A step is what a participant does     *)
(* under one lock, or up to the next one.                                  *)
(*                                                                         *)
(* Distances are left out: a search may find any elements that links lead  *)
(* to, and a full list may lose any of its members.  What an insert on     *)
(* disk does to the pages is in HnswIndex.                                 *)
(***************************************************************************)
EXTENDS HnswPages, FiniteSets, Bags

CONSTANTS
  Workers,      \* the participants of the parallel scan
  Leader,       \* the one that ends the build
  Rows,         \* number of heap rows, scanned in their order
  Val,          \* the value of each row, or Null
  Null,
  M,            \* hnsw.m
  MaxLevel,     \* bound: the highest level drawn
  HeapTidsMax,  \* HNSW_HEAPTIDS
  ElemBytes,    \* memory of an element at each level
  MemoryTotal,  \* graph->memoryTotal
  Margin        \* memoryMargin, what the largest element needs

Nil == 0
Elems == 1..Rows       \* an element has the name of its first row
Levels == 0..MaxLevel

ASSUME ConstantsAssumption ==
  /\ IsFiniteSet(Workers) /\ Leader \in Workers /\ Rows \in Nat /\ MaxLevel \in Nat
  /\ {M, HeapTidsMax, MemoryTotal} \subseteq Nat \ {0} /\ Margin \in Nat
  /\ DOMAIN Val = Elems /\ ElemBytes \in [Levels -> Nat]
  /\ \A l \in Levels : Cardinality(Workers) > 1 => ElemBytes[l] <= Margin

VARIABLES
  next,    \* the next row of the parallel scan
  elem,    \* the elements in memory: level, heap TIDs, neighbors of each layer (bags)
  graph,   \* HnswGraph: head (as the list), entryPoint, memoryUsed, flushed, indtuples
  lock,    \* the holders of flushLock, entryLock and entryWaitLock
  op,      \* the local variables of each participant
  pc,      \* what each participant does next
  done,    \* nparticipantsdone
  disk     \* what is on pages: tuples, metapage, rows inserted on disk

vars == <<next, elem, graph, lock, op, pc, done, disk>>

LayerM(lc) == IF lc = 0 THEN 2 * M ELSE M
Level(e) == elem[e].level
Goto(w, label) == pc' = [pc EXCEPT ![w] = label]

NoOp == [row |-> Nil, entry |-> Nil, lc |-> Nil, todo |-> EmptyBag]
NoDisk == [flushed |-> <<>>, entry |-> Nil, rows |-> {}]
NoElem == [level |-> 0, tids |-> {}, nbrs |-> [l \in Levels |-> EmptyBag]]

\* InitGraph, HnswBeginParallel
Init ==
  /\ next = 1 /\ done = 0 /\ disk = NoDisk
  /\ elem = [e \in Elems |-> NoElem]
  /\ graph = [list |-> <<>>, entry |-> Nil, used |-> 0, flushed |-> FALSE, indtuples |-> 0]
  /\ lock = [flushS |-> {}, entryS |-> {}, entryX |-> {}, wait |-> {}]
  /\ op = [w \in Workers |-> NoOp]
  /\ pc = [w \in Workers |-> "scan"]

-----------------------------------------------------------------------------
(* BuildCallback and InsertTuple                                           *)

\* The next row of the scan; rows with a null vector are skipped
NextRow(w) ==
  /\ pc[w] = "scan" /\ next <= Rows
  /\ next' = next + 1
  /\ IF Val[next] = Null THEN UNCHANGED <<op, pc>>
     ELSE op' = [op EXCEPT ![w].row = next] /\ Goto(w, "begin")
  /\ UNCHANGED <<elem, graph, lock, done, disk>>

\* flushLock shared
BeginInsert(w) ==
  /\ pc[w] = "begin"
  /\ IF graph.flushed THEN Goto(w, "disk") /\ UNCHANGED lock
     ELSE lock' = [lock EXCEPT !.flushS = @ \cup {w}] /\ Goto(w, "alloc")
  /\ UNCHANGED <<next, elem, graph, op, done, disk>>

\* The allocator lock: is there room, and HnswInitElement, which draws a level
NoMargin == graph.used >= MemoryTotal
GraphFull == graph.used + (IF Cardinality(Workers) > 1 THEN Margin ELSE 0) >= MemoryTotal
Allocate(w, l) ==
  /\ pc[w] = "alloc" /\ ~GraphFull
  /\ graph' = [graph EXCEPT !.used = @ + ElemBytes[l]]
  /\ elem' = [elem EXCEPT ![op[w].row].level = l, ![op[w].row].tids = {op[w].row}]
  /\ Goto(w, "wait")
  /\ UNCHANGED <<next, lock, op, done, disk>>

OutOfMemory(w) ==
  /\ pc[w] = "alloc" /\ GraphFull
  /\ lock' = [lock EXCEPT !.flushS = @ \ {w}]
  /\ Goto(w, "flush")
  /\ UNCHANGED <<next, elem, graph, op, done, disk>>

\* FlushPages: CreateMetaPage, CreateGraphPages, WriteNeighborTuples.  The
\* list has the newest element first.  The graph in memory no longer changes,
\* so the elements of the list and the entry point say what is written.
Flushed == [flushed |-> graph.list, entry |-> graph.entry, rows |-> disk.rows]
FlushPages ==
  /\ disk' = Flushed
  /\ graph' = [graph EXCEPT !.flushed = TRUE]

\* flushLock exclusive: nobody is in memory, nobody else flushes
FlushAnyTime(w) == TRUE
MayFlush(w) == lock.flushS = {}
Flush(w) ==
  /\ pc[w] = "flush" /\ MayFlush(w)
  /\ IF graph.flushed THEN UNCHANGED <<graph, disk>> ELSE FlushPages
  /\ Goto(w, "disk")
  /\ UNCHANGED <<next, elem, lock, op, done>>

\* HnswInsertTupleOnDisk, which HnswIndex models
InsertOnDisk(w) ==
  /\ pc[w] = "disk"
  /\ disk' = [disk EXCEPT !.rows = @ \cup {op[w].row}]
  /\ Goto(w, "count")
  /\ UNCHANGED <<next, elem, graph, lock, op, done>>

CountTuple(w) ==
  /\ pc[w] = "count"
  /\ graph' = [graph EXCEPT !.indtuples = @ + 1]
  /\ op' = [op EXCEPT ![w] = NoOp] /\ Goto(w, "scan")
  /\ UNCHANGED <<next, elem, lock, done, disk>>

-----------------------------------------------------------------------------
(* InsertTupleInMemory                                                     *)

\* entryWaitLock, taken and released: others may be about to become the entry
WaitForEntry(w) ==
  /\ pc[w] = "wait" /\ lock.wait = {}
  /\ Goto(w, "entry")
  /\ UNCHANGED <<next, elem, graph, lock, op, done, disk>>

\* Whether the element will be the entry point
Rises(w, entry) == entry = Nil \/ Level(op[w].row) > Level(entry)

\* entryLock shared
GetEntryKeepsShared(w) ==
  /\ pc[w] = "entry" /\ lock.entryX = {}
  /\ lock' = [lock EXCEPT !.entryS = @ \cup {w}]
  /\ op' = [op EXCEPT ![w].entry = graph.entry]
  /\ Goto(w, IF Rises(w, graph.entry) THEN "waitX" ELSE "find")
  /\ UNCHANGED <<next, elem, graph, done, disk>>
GetEntry(w) ==
  /\ pc[w] = "entry" /\ lock.entryX = {}
  /\ IF Rises(w, graph.entry) THEN Goto(w, "waitX") /\ UNCHANGED <<lock, op>>
     ELSE /\ lock' = [lock EXCEPT !.entryS = @ \cup {w}]
          /\ op' = [op EXCEPT ![w].entry = graph.entry]
          /\ Goto(w, "find")
  /\ UNCHANGED <<next, elem, graph, done, disk>>

\* entryWaitLock exclusive, kept
LockWait(w) ==
  /\ pc[w] = "waitX" /\ lock.wait = {}
  /\ lock' = [lock EXCEPT !.wait = {w}]
  /\ Goto(w, "entryX")
  /\ UNCHANGED <<next, elem, graph, op, done, disk>>

\* entryLock exclusive, and the entry point of now
EntryOfOld(w) == op[w].entry
LatestEntry(w) == graph.entry
LockEntry(w) ==
  /\ pc[w] = "entryX" /\ lock.entryX = {} /\ lock.entryS = {}
  /\ lock' = [lock EXCEPT !.entryX = {w}, !.wait = {}]
  /\ op' = [op EXCEPT ![w].entry = LatestEntry(w)]
  /\ Goto(w, "find")
  /\ UNCHANGED <<next, elem, graph, done, disk>>

\* The elements that links of layer lc and above lead to
More(S, lc) == S \cup UNION {BagToSet(elem[e].nbrs[l]) : e \in S, l \in lc..MaxLevel}
Reached(from, lc) ==
  LET R[i \in 0..Rows] == IF i = 0 THEN {from} ELSE More(R[i - 1], lc)
  IN {e \in R[Rows] : Level(e) >= lc}

\* HnswFindElementNeighbors: at each layer it shares with the entry point an
\* element gets a neighbor at least
Shared(w, lc) == op[w].entry # Nil /\ lc <= Level(op[w].row) /\ lc <= Level(op[w].entry)
NeighborSets(w, lc) ==
  IF ~Shared(w, lc) THEN {{}}
  ELSE {S \in SUBSET Reached(op[w].entry, lc) : Cardinality(S) \in 1..LayerM(lc)}
FindNeighbors(w) ==
  /\ pc[w] = "find"
  /\ \E f \in [Levels -> SUBSET Elems] :
       /\ \A lc \in Levels : f[lc] \in NeighborSets(w, lc)
       /\ elem' = [elem EXCEPT ![op[w].row].nbrs = [lc \in Levels |-> SetToBag(f[lc])]]
  /\ Goto(w, "dup")
  /\ UNCHANGED <<next, graph, lock, op, done, disk>>

\* Release entryLock, then flushLock
Leave(w) ==
  /\ lock' = [lock EXCEPT !.entryS = @ \ {w}, !.entryX = @ \ {w}, !.flushS = @ \ {w}]
  /\ Goto(w, "count")

\* FindDuplicateInMemory: the neighbors of layer 0 from the first on, as long
\* as they have the value; AddDuplicateInMemory takes the lock of each
Same(w, n) == Val[n] = Val[op[w].row]
Neighbors0(w) == BagToSet(elem[op[w].row].nbrs[0])
HasSpace(n) == Cardinality(elem[n].tids) < HeapTidsMax
AddDuplicate(w, n) ==
  /\ pc[w] = "dup" /\ n \in Neighbors0(w) /\ Same(w, n) /\ HasSpace(n)
  /\ elem' = [elem EXCEPT ![n].tids = @ \cup {op[w].row}, ![op[w].row] = NoElem]
  /\ Leave(w)
  /\ UNCHANGED <<next, graph, op, done, disk>>
NoDuplicate(w) ==
  /\ pc[w] = "dup"
  /\ \/ \E n \in Neighbors0(w) : ~Same(w, n)
     \/ \A n \in Neighbors0(w) : ~HasSpace(n)
  /\ Goto(w, "add")
  /\ UNCHANGED <<next, elem, graph, lock, op, done, disk>>

\* AddElementInMemory, under the spinlock
AddElementInMemory(w) ==
  /\ pc[w] = "add"
  /\ graph' = [graph EXCEPT !.list = <<op[w].row>> \o @]
  /\ op' = [op EXCEPT ![w].lc = Level(op[w].row) + 1]
  /\ Goto(w, "copy")
  /\ UNCHANGED <<next, elem, lock, done, disk>>

\* UpdateNeighborsInMemory: the neighbors of the next layer, copied under the
\* element's lock
CopyNeighbors(w) ==
  /\ pc[w] = "copy"
  /\ IF op[w].lc = 0 THEN Goto(w, "store") /\ UNCHANGED op
     ELSE /\ op' = [op EXCEPT ![w].lc = @ - 1, ![w].todo = elem[op[w].row].nbrs[op[w].lc - 1]]
          /\ Goto(w, "link")
  /\ UNCHANGED <<next, elem, graph, lock, done, disk>>

\* HnswUpdateConnection under the neighbor's lock: a full list loses one.
\* Nothing looks whether the element is there already.
Connected(list, e, lc) ==
  LET all == list (+) SetToBag({e})
  IN IF BagCardinality(list) < LayerM(lc) THEN {all} ELSE {all (-) SetToBag({p}) : p \in BagToSet(all)}
UpdateNeighbor(w) ==
  /\ pc[w] = "link"
  /\ IF op[w].todo = EmptyBag THEN Goto(w, "copy") /\ UNCHANGED <<elem, op>>
     ELSE \E n \in BagToSet(op[w].todo) :
            /\ \E list \in Connected(elem[n].nbrs[op[w].lc], op[w].row, op[w].lc) :
                 elem' = [elem EXCEPT ![n].nbrs[op[w].lc] = list]
            /\ op' = [op EXCEPT ![w].todo = @ (-) SetToBag({n})]
            /\ UNCHANGED pc
  /\ UNCHANGED <<next, graph, lock, done, disk>>

\* The entry point, as decided when the element got its neighbors
StoreEntry(w) ==
  /\ pc[w] = "store"
  /\ graph' = [graph EXCEPT !.entry = IF Rises(w, op[w].entry) THEN op[w].row ELSE @]
  /\ Leave(w)
  /\ UNCHANGED <<next, elem, op, done, disk>>

-----------------------------------------------------------------------------
(* The end of the scan                                                     *)

\* HnswParallelScanAndInsert
Finish(w) ==
  /\ pc[w] = "scan" /\ next > Rows
  /\ done' = done + 1
  /\ Goto(w, IF w = Leader THEN "await" ELSE "finished")
  /\ UNCHANGED <<next, elem, graph, lock, op, disk>>

\* ParallelHeapScan and the end of BuildGraph
LeaderDone == done > 0
AllDone == done = Cardinality(Workers)
EndBuild ==
  /\ pc[Leader] = "await" /\ AllDone
  /\ IF graph.flushed THEN UNCHANGED <<graph, disk>> ELSE FlushPages
  /\ Goto(Leader, "finished")
  /\ UNCHANGED <<next, elem, lock, op, done>>

Step(w) ==
  \/ NextRow(w) \/ BeginInsert(w) \/ OutOfMemory(w) \/ Flush(w) \/ InsertOnDisk(w) \/ CountTuple(w)
  \/ \E l \in Levels : Allocate(w, l)
  \/ WaitForEntry(w) \/ GetEntry(w) \/ LockWait(w) \/ LockEntry(w) \/ FindNeighbors(w)
  \/ \E n \in Elems : AddDuplicate(w, n)
  \/ NoDuplicate(w) \/ AddElementInMemory(w) \/ CopyNeighbors(w) \/ UpdateNeighbor(w) \/ StoreEntry(w)
  \/ Finish(w)
Next == EndBuild \/ \E w \in Workers : Step(w)

\* Participants run until they are done; locks are not withheld.
Spec == Init /\ [][Next]_vars /\ WF_vars(EndBuild) /\ \A w \in Workers : WF_vars(Step(w))

-----------------------------------------------------------------------------
(* Properties                                                              *)

\* The variables have their types; neighbor lists stay within their arrays,
\* and the shared memory is never too small for an element (the margin of
\* InsertTuple: HnswSharedMemoryAlloc would raise an error).
TypeOK ==
  /\ next \in 1..(Rows + 1) /\ done \in 0..Cardinality(Workers)
  /\ graph.entry \in Elems \cup {Nil} /\ graph.used \in 0..MemoryTotal
  /\ \A e \in Elems : Level(e) \in Levels /\ elem[e].tids \subseteq Elems
                      /\ Cardinality(elem[e].tids) <= HeapTidsMax
                      /\ \A l \in Levels : BagToSet(elem[e].nbrs[l]) \subseteq Elems
                                           /\ BagCardinality(elem[e].nbrs[l]) <= LayerM(l)

\* While nobody holds the exclusive lock, the entry point is on the highest
\* layer of the list, whichever inserts run beside each other:
\* InsertTupleInMemory looks again after it has waited.
EntryHighest ==
  lock.entryX = {} =>
    \A e \in ToSet(graph.list) : graph.entry # Nil /\ Level(e) <= Level(graph.entry)

\* The pages: both tuples of each element, and the TIDs in its neighbor tuple
Tuple(e) == [id |-> e, esize |-> 1, nsize |-> Level(e) + 2]
Layout == CreateGraphPages([i \in 1..Len(disk.flushed) |-> Tuple(disk.flushed[i])])
NeighborTids(pos, e, l) == {p.elem : p \in {p \in pos : p.id \in BagToSet(elem[e].nbrs[l])}}
TupleAt(pages, p, kind, id) ==
  p[1] \in 1..Len(pages) /\ p[2] \in 1..Len(pages[p[1]])
  /\ pages[p[1]][p[2]].kind = kind /\ pages[p[1]][p[2]].id = id

\* While lists of layer 0 have room every element whose insert is over is
\* reached from the entry point.
EveryReached ==
  \A e \in ToSet(graph.list) \ {op[w].row : w \in Workers} : e \in Reached(graph.entry, 0)

\* What the flush writes is the graph: both tuples of an element are where
\* its TIDs say, every neighbor has a tuple, which is an element of the layer,
\* and the entry point of the metapage leads to all of them.
FlushFaithful ==
  graph.flushed =>
    LET made == Layout
        pos == ToSet(made.pos)
    IN /\ made.ok
       /\ \A x \in pos :
            /\ TupleAt(made.pages, x.elem, "element", x.id)
            /\ TupleAt(made.pages, x.nbr, "neighbors", x.id)
            /\ \A l \in Levels :
                 /\ Cardinality(NeighborTids(pos, x.id, l)) = Cardinality(BagToSet(elem[x.id].nbrs[l]))
                 /\ \A y \in pos : y.elem \in NeighborTids(pos, x.id, l) => Level(y.id) >= l
       /\ pos # {} => Reached(disk.entry, 0) = {x.id : x \in pos}

\* The graph can be searched, in memory whichever inserts run beside each
\* other, and on pages after the flush.
GraphSound == EveryReached /\ FlushFaithful

\* When the build is over every row with a vector is in the index once, in an
\* element of its value or inserted on disk, and counted once in indtuples.
Places(r) == Cardinality({i \in 1..Len(disk.flushed) : r \in elem[disk.flushed[i]].tids})
             + (IF r \in disk.rows THEN 1 ELSE 0)
RowsOnce ==
  pc[Leader] = "finished" =>
    LET rows == {r \in Elems : Val[r] # Null}
    IN /\ \A r \in Elems : Places(r) = IF r \in rows THEN 1 ELSE 0
       /\ \A e \in ToSet(disk.flushed) : \A r \in elem[e].tids : Val[r] = Val[e]
       /\ graph.indtuples = Cardinality(rows)

\* The build ends: no two participants wait for each other's flush or entry
\* locks, and the leader does not wait for a worker that is done.
BuildEnds == <>(pc[Leader] = "finished" /\ graph.flushed)
=============================================================================
