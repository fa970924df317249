---------------------------- MODULE IvfflatIndex ----------------------------
(***************************************************************************)
(* The on-disk IVFFlat index: inserts (ivfinsert.c), VACUUM (ivfvacuum.c)  *)
(* and batched scans (ivfscan.c) that share list tuples and chains of      *)
(* entry pages without any lock but that of one buffer.  A step is what a  *)
(* backend does under one buffer lock.                                     *)
(*                                                                         *)
(* Abstracted: vectors are their distances to the centers; a tuple is its  *)
(* heap TID and PageCap of them fill a page; the tuples of a batch leave   *)
(* the sort in any order.                                                  *)
(***************************************************************************)
EXTENDS Integers, FiniteSets

CONSTANTS
  Inserters,   \* backends that insert rows
  Scanners,    \* backends that scan the index
  Vacuum,      \* the backend that vacuums it
  Tids,        \* heap TIDs
  Indexed,     \* the ones with a value to index: not NULL, norm not zero
  NLists,      \* number of lists
  TidDist,     \* distances of a row's value to the centers
  QueryDists,  \* distances of the queries' values to the centers
  NBlocks,     \* bound: entry pages the index may grow to
  PageCap,     \* index tuples that fit in a page
  BuiltOwner,  \* the list InsertTuples filled each page for
  BuiltTids,   \* the tuples it put there
  NBuilt,      \* the pages it filled
  Probes,      \* ivfflat.probes
  MaxProbesOption, \* ivfflat.max_probes
  Iterative,   \* ivfflat.iterative_scan is not off
  MaxVacuums,  \* bound: VACUUM runs in a behaviour
  MaxCancels   \* bound: statements cancelled in a behaviour

Nil    == 0
Lists  == 1..NLists
Blocks == 1..NBlocks
Procs  == Inserters \cup Scanners \cup {Vacuum}
Capped(n) == IF n > NLists THEN NLists ELSE n

\* ivfflatbeginscan
BatchProbes == Capped(Probes)
MaxProbes ==
  Capped(IF Iterative /\ MaxProbesOption > Probes THEN MaxProbesOption ELSE Probes)

\* The list that minimizes the distance: the first one, in AddTupleToSort
\* and FindInsertPage alike
ListOf(t) ==
  CHOOSE l \in Lists : \A k \in Lists :
    /\ TidDist[t][l] <= TidDist[t][k]
    /\ k < l => TidDist[t][l] < TidDist[t][k]

ASSUME ConstantsAssumption ==
  /\ Inserters \cap Scanners = {} /\ Vacuum \notin Inserters \cup Scanners
  /\ Nil \notin Tids /\ Indexed \subseteq Tids /\ IsFiniteSet(Tids)
  /\ NLists \in Nat \ {0} /\ NBlocks \in Nat \ {0} /\ PageCap \in Nat \ {0}
  /\ Probes \in Nat \ {0} /\ MaxProbesOption \in Nat \ {0} /\ Iterative \in BOOLEAN
  /\ MaxVacuums \in Nat /\ MaxCancels \in Nat
  /\ TidDist \in [Tids -> [Lists -> Nat]]
  /\ QueryDists \subseteq [Lists -> Nat]
  /\ NBuilt \in Blocks
  /\ BuiltOwner \in [1..NBuilt -> Lists] /\ BuiltTids \in [1..NBuilt -> SUBSET Indexed]
  /\ \A l \in Lists : \E b \in 1..NBuilt : BuiltOwner[b] = l
  /\ \A b, c \in 1..NBuilt : b < c => /\ BuiltOwner[b] <= BuiltOwner[c]
                                      /\ BuiltTids[b] \cap BuiltTids[c] = {}
  /\ \A b \in 1..NBuilt : /\ Cardinality(BuiltTids[b]) <= PageCap
                          /\ \A t \in BuiltTids[b] : ListOf(t) = BuiltOwner[b]

VARIABLES
  page,    \* entry pages: tuples, nextblkno
  nblocks, \* length of the relation, in entry pages
  list,    \* list tuples: startPage, insertPage
  heap,    \* state of each heap TID
  pc,      \* what each backend does next
  ins,     \* the insert of each inserter
  scan,    \* the IvfflatScanOpaque of each scanner
  vac,     \* the local variables of ivfflatbulkdelete
  cancels  \* statements cancelled so far

vars == <<page, nblocks, list, heap, pc, ins, scan, vac, cancels>>

-----------------------------------------------------------------------------
(* InsertTuples (ivfbuild.c) fills the pages of one list after another.    *)

BuiltNext(b) ==
  IF b < NBuilt /\ BuiltOwner[b + 1] = BuiltOwner[b] THEN b + 1 ELSE Nil
BuiltStart(l) ==
  CHOOSE b \in 1..NBuilt : /\ BuiltOwner[b] = l
                           /\ \A c \in 1..NBuilt : BuiltOwner[c] = l => b <= c
BuiltInsert(l) ==
  CHOOSE b \in 1..NBuilt : /\ BuiltOwner[b] = l
                           /\ \A c \in 1..NBuilt : BuiltOwner[c] = l => c <= b

NoInsert == [tid |-> Nil, list |-> Nil, cur |-> Nil, orig |-> Nil]
NoScan   == [dist |-> Nil, lists |-> Nil, index |-> 0, batch |-> 0, cur |-> Nil,
             buf |-> {}, ret |-> {}, live |-> {}]
NoVacuum == [dead |-> {}, list |-> Nil, cur |-> Nil, insert |-> Nil]

Init ==
  /\ page = [b \in Blocks |-> IF b <= NBuilt
                                THEN [tids |-> BuiltTids[b], next |-> BuiltNext(b)]
                                ELSE [tids |-> {}, next |-> Nil]]
  /\ nblocks = NBuilt
  /\ list = [l \in Lists |-> [start |-> BuiltStart(l), insert |-> BuiltInsert(l)]]
  /\ heap = [t \in Tids |-> IF \E b \in 1..NBuilt : t \in BuiltTids[b]
                              THEN "live" ELSE "free"]
  /\ pc = [p \in Procs |-> "idle"]
  /\ ins = [p \in Inserters |-> NoInsert]
  /\ scan = [p \in Scanners |-> NoScan]
  /\ vac = [runs |-> 0, op |-> NoVacuum]
  /\ cancels = 0

-----------------------------------------------------------------------------
Goto(p, label) == pc' = [pc EXCEPT ![p] = label]

\* A page just appended stays locked until its first tuple is on it
Unlocked(b) == \A p \in Inserters : pc[p] = "fill" => ins[p].cur # b

\* IvfflatUpdateList
UpdatedList(l, insert, orig) ==
  IF insert # list[l].insert /\ (orig = Nil \/ insert >= orig)
    THEN [list EXCEPT ![l].insert = insert] ELSE list

-----------------------------------------------------------------------------
(* InsertTuple                                                             *)

EndInsert(p) ==
  /\ Goto(p, "idle")
  /\ heap' = [heap EXCEPT ![ins[p].tid] = "live"]
  /\ ins' = [ins EXCEPT ![p] = NoInsert]

\* Nothing to index, or FindInsertPage
BeginInsert(p, t) ==
  /\ pc[p] = "idle" /\ heap[t] = "free"
  /\ \/ /\ t \notin Indexed
        /\ heap' = [heap EXCEPT ![t] = "live"]
        /\ UNCHANGED <<pc, ins>>
     \/ /\ t \in Indexed
        /\ heap' = [heap EXCEPT ![t] = "inserting"]
        /\ ins' = [ins EXCEPT ![p] = [tid |-> t, list |-> ListOf(t),
                     cur |-> list[ListOf(t)].insert, orig |-> list[ListOf(t)].insert]]
        /\ Goto(p, "walk")
  /\ UNCHANGED <<page, nblocks, list, scan, vac, cancels>>

\* PageGetFreeSpace(page) >= itemsz
RoomOffByOne(b) == Cardinality(page[b].tids) <= PageCap
Room(b) == Cardinality(page[b].tids) < PageCap
AlwaysAtEnd(b) == TRUE
AtEnd(b) == page[b].next = Nil

PutTuple(p) ==
  /\ pc[p] = "walk" /\ Unlocked(ins[p].cur) /\ Room(ins[p].cur)
  /\ page' = [page EXCEPT ![ins[p].cur].tids = @ \cup {ins[p].tid}]
  /\ IF ins[p].cur # ins[p].orig
       THEN Goto(p, "setList") /\ UNCHANGED <<heap, ins>>
       ELSE EndInsert(p)
  /\ UNCHANGED <<nblocks, list, scan, vac, cancels>>

NextPage(p) ==
  /\ pc[p] = "walk" /\ Unlocked(ins[p].cur)
  /\ ~Room(ins[p].cur) /\ page[ins[p].cur].next # Nil
  /\ ins' = [ins EXCEPT ![p].cur = page[ins[p].cur].next]
  /\ UNCHANGED <<page, nblocks, list, heap, pc, scan, vac, cancels>>

\* The new page is linked and logged before the tuple is added to it
AppendPage(p) ==
  /\ pc[p] = "walk" /\ Unlocked(ins[p].cur)
  /\ ~Room(ins[p].cur) /\ AtEnd(ins[p].cur)
  /\ nblocks < NBlocks
  /\ nblocks' = nblocks + 1
  /\ page' = [page EXCEPT ![ins[p].cur].next = nblocks + 1]
  /\ ins' = [ins EXCEPT ![p].cur = nblocks + 1]
  /\ Goto(p, "fill")
  /\ UNCHANGED <<list, heap, scan, vac, cancels>>

FillPage(p) ==
  /\ pc[p] = "fill"
  /\ page' = [page EXCEPT ![ins[p].cur].tids = @ \cup {ins[p].tid}]
  /\ Goto(p, "setList")
  /\ UNCHANGED <<nblocks, list, heap, ins, scan, vac, cancels>>

ListInfoFirst(p) == 1
ListInfo(p) == ins[p].list
UpdateList(p) ==
  /\ pc[p] = "setList"
  /\ list' = UpdatedList(ListInfo(p), ins[p].cur, ins[p].orig)
  /\ EndInsert(p)
  /\ UNCHANGED <<page, nblocks, scan, vac, cancels>>

-----------------------------------------------------------------------------
(* ivfflatbulkdelete                                                       *)

VacuumOf(l, dead) == [dead |-> dead, list |-> l, cur |-> list[l].start, insert |-> Nil]

BeginVacuum ==
  /\ pc[Vacuum] = "idle" /\ vac.runs < MaxVacuums
  /\ \E t \in Tids : heap[t] = "dead"
  /\ vac' = [runs |-> vac.runs + 1,
             op |-> VacuumOf(1, {t \in Tids : heap[t] = "dead"})]
  /\ Goto(Vacuum, "page")
  /\ UNCHANGED <<page, nblocks, list, heap, ins, scan, cancels>>

\* Under a cleanup lock; scans hold no pin between pages
VacuumPage ==
  /\ pc[Vacuum] = "page" /\ vac.op.cur # Nil /\ Unlocked(vac.op.cur)
  /\ LET b    == vac.op.cur
         gone == page[b].tids \cap vac.op.dead
     IN /\ page' = [page EXCEPT ![b].tids = @ \ gone]
        /\ vac' = [vac EXCEPT !.op.cur = page[b].next,
             !.op.insert = IF @ = Nil /\ gone # {} THEN b ELSE @]
  /\ UNCHANGED <<nblocks, list, heap, pc, ins, scan, cancels>>

\* Update after all tuples deleted
VacuumList ==
  /\ pc[Vacuum] = "page" /\ vac.op.cur = Nil
  /\ list' = IF vac.op.insert = Nil THEN list
             ELSE UpdatedList(vac.op.list, vac.op.insert, Nil)
  /\ IF vac.op.list < NLists
       THEN /\ vac' = [vac EXCEPT !.op = VacuumOf(vac.op.list + 1, vac.op.dead)]
            /\ UNCHANGED <<heap, pc>>
       ELSE /\ vac' = [vac EXCEPT !.op = NoVacuum]
            /\ heap' = [t \in Tids |-> IF t \in vac.op.dead THEN "gone" ELSE heap[t]]
            /\ Goto(Vacuum, "idle")
  /\ UNCHANGED <<page, nblocks, ins, scan, cancels>>

-----------------------------------------------------------------------------
(* ivfflatgettuple                                                         *)

\* GetScanLists: a heap of at most MaxProbes lists, the farthest on top
Farthest(d, S) == CHOOSE l \in S : \A k \in S : d[k] <= d[l]
ReplaceKeepsMax(d, h, l) ==
  [set |-> (h.set \ {Farthest(d, h.set)}) \cup {l}, max |-> h.max]
Replace(d, h, l) ==
  LET S == (h.set \ {Farthest(d, h.set)}) \cup {l}
  IN [set |-> S, max |-> d[Farthest(d, S)]]
ScanListSet(d) ==
  LET H[n \in 0..NLists] ==
        IF n = 0 THEN [set |-> {}, max |-> 0]
        ELSE LET h == H[n - 1]
                 S == h.set \cup {n}
             IN CASE Cardinality(h.set) < MaxProbes ->
                       [set |-> S, max |-> d[Farthest(d, S)]]
                  [] Cardinality(h.set) = MaxProbes /\ d[n] < h.max -> Replace(d, h, n)
                  [] OTHER -> h
  IN H[NLists].set
\* ... taken from the heap farthest first
GetScanLists(d) ==
  CHOOSE f \in [1..MaxProbes -> ScanListSet(d)] :
    \A i, j \in 1..MaxProbes : i < j => f[i] # f[j] /\ d[f[i]] <= d[f[j]]

BeginScan(p) ==
  /\ pc[p] = "idle"
  /\ \E d \in QueryDists :
       scan' = [scan EXCEPT ![p] =
         [NoScan EXCEPT !.dist = d, !.lists = GetScanLists(d),
            !.live = {t \in Indexed : heap[t] = "live"}]]
  /\ Goto(p, "list")
  /\ UNCHANGED <<page, nblocks, list, heap, ins, vac, cancels>>

\* GetScanItems: the next list of the batch, or the sort
NextIndex(p) == scan[p].index + 1
ScanList(p) ==
  /\ pc[p] = "list"
  /\ IF scan[p].index < MaxProbes /\ scan[p].batch < BatchProbes
       THEN /\ scan' = [scan EXCEPT ![p].index = NextIndex(p), ![p].batch = @ + 1,
                          ![p].cur = list[scan[p].lists[scan[p].index + 1]].start]
            /\ Goto(p, "page")
       ELSE Goto(p, "emit") /\ UNCHANGED scan
  /\ UNCHANGED <<page, nblocks, list, heap, ins, vac, cancels>>

ScanPage(p) ==
  /\ pc[p] = "page" /\ p \in Scanners /\ Unlocked(scan[p].cur)
  /\ scan' = [scan EXCEPT ![p].buf = @ \cup page[scan[p].cur].tids,
                          ![p].cur = page[scan[p].cur].next]
  /\ Goto(p, IF page[scan[p].cur].next = Nil THEN "list" ELSE "page")
  /\ UNCHANGED <<page, nblocks, list, heap, ins, vac, cancels>>

ReturnTuple(p) ==
  /\ pc[p] = "emit"
  /\ \E t \in scan[p].buf :
       scan' = [scan EXCEPT ![p].buf = @ \ {t}, ![p].ret = @ \cup {t}]
  /\ UNCHANGED <<page, nblocks, list, heap, pc, ins, vac, cancels>>

\* The batch is used up: another one, or the end
StopsAtEmptyBatch(p) == TRUE
Exhausted(p) == scan[p].index = MaxProbes
NextBatch(p) ==
  /\ pc[p] = "emit" /\ scan[p].buf = {}
  /\ IF Exhausted(p) THEN Goto(p, "end") /\ UNCHANGED scan
     ELSE Goto(p, "list") /\ scan' = [scan EXCEPT ![p].batch = 0]
  /\ UNCHANGED <<page, nblocks, list, heap, ins, vac, cancels>>

\* The executor has enough rows, or was told there are no more
EndScan(p) ==
  /\ pc[p] \in {"emit", "end"}
  /\ Goto(p, "idle")
  /\ scan' = [scan EXCEPT ![p] = NoScan]
  /\ UNCHANGED <<page, nblocks, list, heap, ins, vac, cancels>>

-----------------------------------------------------------------------------
RowDies(t) ==
  /\ heap[t] = "live"
  /\ heap' = [heap EXCEPT ![t] = "dead"]
  /\ UNCHANGED <<page, nblocks, list, pc, ins, scan, vac, cancels>>

\* A statement ends in an error between two of its steps, or after it linked
\* a page ("failed to add index item")
Cancel(p) ==
  /\ pc[p] # "idle" /\ p \notin Scanners /\ cancels < MaxCancels
  /\ cancels' = cancels + 1
  /\ Goto(p, "idle")
  /\ IF p = Vacuum
       THEN vac' = [vac EXCEPT !.op = NoVacuum] /\ UNCHANGED <<heap, ins>>
       ELSE /\ heap' = [heap EXCEPT ![ins[p].tid] = "dead"]
            /\ ins' = [ins EXCEPT ![p] = NoInsert]
            /\ UNCHANGED vac
  /\ UNCHANGED <<page, nblocks, list, scan>>

InsertStep(p) ==
  PutTuple(p) \/ NextPage(p) \/ AppendPage(p) \/ FillPage(p) \/ UpdateList(p)
ScanStep(p) == ScanList(p) \/ ScanPage(p) \/ ReturnTuple(p) \/ NextBatch(p) \/ EndScan(p)

Next ==
  \/ \E p \in Inserters : InsertStep(p) \/ \E t \in Tids : BeginInsert(p, t)
  \/ BeginVacuum \/ VacuumPage \/ VacuumList
  \/ \E p \in Scanners : ScanStep(p) \/ BeginScan(p)
  \/ \E t \in Tids : RowDies(t)
  \/ \E p \in Procs : Cancel(p)

Spec == Init /\ [][Next]_vars

-----------------------------------------------------------------------------
(* Properties.                                                             *)

PageType == [tids : SUBSET Tids, next : Blocks \cup {Nil}]
InsType  == [tid : Tids \cup {Nil}, list : Lists \cup {Nil},
             cur : Blocks \cup {Nil}, orig : Blocks \cup {Nil}]
VacType  == [dead : SUBSET Tids, list : Lists \cup {Nil},
             cur : Blocks \cup {Nil}, insert : Blocks \cup {Nil}]

\* The variables keep their types, and no page gets more tuples than fit
TypeOK ==
  /\ page \in [Blocks -> PageType]
  /\ \A b \in Blocks : Cardinality(page[b].tids) <= PageCap
  /\ nblocks \in Blocks
  /\ list \in [Lists -> [start : Blocks, insert : Blocks]]
  /\ heap \in [Tids -> {"free", "inserting", "live", "dead", "gone"}]
  /\ pc \in [Procs -> {"idle", "walk", "fill", "setList", "page", "list", "emit", "end"}]
  /\ ins \in [Inserters -> InsType]
  /\ vac \in [runs : 0..MaxVacuums, op : VacType]
  /\ cancels \in 0..MaxCancels

\* The lists share no page, whoever appends to them and whoever moves their
\* insert pages (UpdateList, VacuumList): pages can be told apart by the list
\* whose start, links, insert page and tuples they serve
Owns(o, b, l) == b # Nil => o[b] = l
Apart(o) ==
  /\ \A l \in Lists : Owns(o, list[l].start, l) /\ Owns(o, list[l].insert, l)
  /\ \A b \in Blocks : /\ Owns(o, page[b].next, o[b])
                       /\ \A t \in page[b].tids : ListOf(t) = o[b]
Separated == \E o \in [Blocks -> Lists] : Apart(o)

\* The pages of a list, in the order of the chain
Chain(l) ==
  LET C[n \in 0..NBlocks] ==
        IF n = 0 THEN {list[l].start}
        ELSE C[n - 1] \cup ({page[b].next : b \in C[n - 1]} \ {Nil})
  IN C[NBlocks]
Holders(t) == {b \in Chain(ListOf(t)) : t \in page[b].tids}

\* A committed row is on exactly one page of the list a scan would look for it
\* in, and a TID the heap may hand out again is on none, whatever pages
\* concurrent inserts append and wherever VACUUM moves the insert page
TidPlaced ==
  \A t \in Indexed :
    /\ heap[t] = "live" => Cardinality(Holders(t)) = 1
    /\ heap[t] \in {"free", "gone"} => \A b \in Blocks : t \notin page[b].tids

\* A scan that is read to its end has returned every row of the lists it
\* probed that was there when it began and still is, and it returns no row
\* twice, although it reads pages one by one while inserts fill them
ScanComplete ==
  \A p \in Scanners :
    /\ pc[p] = "page" => page[scan[p].cur].tids \cap (scan[p].buf \cup scan[p].ret) = {}
    /\ pc[p] = "end" =>
         \A t \in scan[p].live :
           heap[t] = "live" /\ (\E i \in 1..MaxProbes : scan[p].lists[i] = ListOf(t))
             => t \in scan[p].ret

\* GetScanLists finds the nearest lists, the nearest first
ProbesNearest ==
  \A p \in Scanners : pc[p] # "idle" =>
    LET f == scan[p].lists
        d == scan[p].dist
    IN /\ \A i, j \in 1..MaxProbes : i < j => d[f[i]] <= d[f[j]]
       /\ \A l \in Lists : (\A i \in 1..MaxProbes : f[i] # l) => d[f[MaxProbes]] <= d[l]
=============================================================================
