----------------------------- MODULE HnswIndex -----------------------------
(***************************************************************************)
(* The on-disk HNSW index shared by concurrent inserts (hnswinsert.c),     *)
(* one VACUUM at a time (hnswvacuum.c) and ordered scans (hnswscan.c),     *)
(* with the search and the metapage code of hnswutils.c.                   *)
(*                                                                         *)
(* A step is what a backend does under one buffer lock (or one page lock   *)
(* call), so every interleaving the buffer manager allows is a behaviour.  *)
(* An index page holds one element and its neighbor tuple: slot i is the   *)
(* i-th page of the nextblkno chain (the program does that for vectors     *)
(* that fill a page; several elements on a page only make steps larger).   *)
(* A page keeps room for the highest level it was appended for.            *)
(*                                                                         *)
(* Abstracted: distances.  The order in which a search meets candidates,   *)
(* the choice SelectNeighbors makes when there are more candidates than    *)
(* room, and the greedy descent are nondeterministic; efConstruction and   *)
(* ef_search are at least the number of slots, so the search of the        *)
(* layers an element lives in is exhaustive.                               *)
(***************************************************************************)
EXTENDS Integers, Sequences, FiniteSets

CONSTANTS
  Inserters,    \* backends that insert rows
  Scanners,     \* backends that scan the index
  Vacuum,       \* the backend that vacuums it
  Tids,         \* heap TIDs
  TidVal,       \* [Tids -> value of the indexed column]
  BuiltTids,    \* sequence of the TIDs indexed by CREATE INDEX
  BuiltLevel,   \* the level drawn for each of them
  NSlots,       \* bound: pages the index may grow to
  M,            \* hnsw.m: room for M neighbors per layer, 2 * M on layer 0
  MaxLevel,     \* HnswGetMaxLevel(m)
  HeapTidsMax,  \* HNSW_HEAPTIDS: heap TIDs per element
  MaxVacuums,   \* bound: VACUUM runs in a behaviour
  MaxCancels    \* bound: statements cancelled in a behaviour

Nil   == 0
Slots == 1..NSlots
Procs == Inserters \cup Scanners \cup {Vacuum}
Levels == 0..MaxLevel
Values == {TidVal[t] : t \in Tids}
VersionMax == 15

ASSUME ConstantsAssumption ==
  /\ Inserters \cap Scanners = {}
  /\ Vacuum \notin Inserters \cup Scanners
  /\ NSlots \in Nat \ {0} /\ M \in Nat \ {0} /\ MaxLevel \in Nat
  /\ HeapTidsMax \in Nat \ {0} /\ MaxVacuums \in Nat /\ MaxCancels \in Nat
  /\ Tids # {} /\ Nil \notin Tids
  /\ IsFiniteSet(Tids) /\ Cardinality(Tids) <= NSlots
  /\ BuiltTids \in Seq(Tids) /\ Len(BuiltTids) <= NSlots
  /\ \A i, j \in 1..Len(BuiltTids) : BuiltTids[i] = BuiltTids[j] => i = j
  /\ Len(BuiltTids) <= M + 1
  /\ BuiltLevel \in [1..Len(BuiltTids) -> Levels]

VARIABLES
  elem,     \* element tuples
  ntup,     \* neighbor tuples
  npages,   \* length of the page chain
  meta,     \* metapage: entry point, its level, insert page
  heap,     \* state of each heap TID
  updLock,  \* holders of HNSW_UPDATE_LOCK, by mode
  scanLock, \* holders of HNSW_SCAN_LOCK, by mode
  pc,       \* what each backend does next
  me,       \* the element a backend inserts or repairs
  ep,       \* the entry point it read
  srch,     \* its layer search
  nb,       \* neighbors found, per layer
  upd,      \* neighbors whose tuples are still to be updated
  walk,     \* its walk of the page chain for a place to insert
  vac,      \* HnswVacuumState
  failed,   \* backends whose last operation ended in an error
  cancels   \* statements cancelled so far

vars == <<elem, ntup, npages, meta, heap, updLock, scanLock, pc, me, ep,
          srch, nb, upd, walk, vac, failed, cancels>>
disk  == <<elem, ntup, npages, meta>>
locks == <<updLock, scanLock>>

-----------------------------------------------------------------------------
(* Tuples and the in-memory copies backends make of them.                  *)

LayerM(lc) == IF lc = 0 THEN 2 * M ELSE M
Widest     == 1..(2 * M)
NoNeighbors == [lc \in Levels |-> [i \in Widest |-> Nil]]

NullElem == [level |-> 0, val |-> CHOOSE v \in Values : TRUE, tids |-> {},
             deleted |-> FALSE, version |-> 0]
NullNtup == [level |-> 0, room |-> 0, version |-> 0, nbrs |-> NoNeighbors]

\* HnswLoadElementFromTuple: what a backend remembers of an element
Load(s) == [slot |-> s, level |-> elem[s].level, version |-> elem[s].version,
            val |-> elem[s].val, live |-> elem[s].tids # {}]
NoElement == [slot |-> Nil, level |-> 0, version |-> 0,
              val |-> NullElem.val, live |-> FALSE]
Copies == [slot : Slots \cup {Nil}, level : Levels, version : 0..VersionMax,
           val : Values, live : BOOLEAN]

\* The indextids before the first invalid one
ValidPrefix(list, lm) ==
  {i \in 1..lm : \A j \in 1..i : list[j] # Nil}

\* The list HnswSetNeighborTuple writes for a set of chosen neighbors (the
\* order distances give it is abstracted to page order)
ListOf(S) ==
  LET rank(s) == Cardinality({x \in S : x <= s})
  IN [i \in Widest |-> IF \E s \in S : rank(s) = i
                         THEN CHOOSE s \in S : rank(s) = i ELSE Nil]

Referenced(s) ==
  {ntup[s].nbrs[lc][i] : lc \in 0..ntup[s].level, i \in Widest} \ {Nil}

-----------------------------------------------------------------------------
(* LockPage on HNSW_UPDATE_LOCK and HNSW_SCAN_LOCK.                        *)

NoSearch == [lc |-> 0, w |-> {}, todo |-> {}, vis |-> {}, pend |-> {}]
NoUpdate == [todo |-> {}, cur |-> [lc |-> 0, elt |-> NoElement],
             list |-> NoNeighbors[0], pos |-> 0, idx |-> 0]
NoWalk   == [from |-> Nil, cur |-> Nil, new |-> Nil]

Free(lock)      == lock.sh = {} /\ lock.ex = {}
CanShare(lock)  == lock.ex = {}
ShareForgotten(lock, p) == lock
Share(lock, p) == [lock EXCEPT !.sh = @ \cup {p}]
Exclude(lock, p) == [lock EXCEPT !.ex = @ \cup {p}]
Drop(lock, p)   == [sh |-> lock.sh \ {p}, ex |-> lock.ex \ {p}]

-----------------------------------------------------------------------------
(* CREATE INDEX leaves the built rows fully connected (they fit in the     *)
(* neighbor lists) with the first row of the highest level as entry point. *)

NBuilt == Len(BuiltTids)
BuiltEntry ==
  CHOOSE s \in 1..NBuilt :
    /\ \A t \in 1..NBuilt : BuiltLevel[t] <= BuiltLevel[s]
    /\ \A t \in 1..(s - 1) : BuiltLevel[t] < BuiltLevel[s]
BuiltNbrs(s) ==
  [lc \in Levels |->
     IF lc <= BuiltLevel[s]
       THEN ListOf({t \in 1..NBuilt \ {s} : BuiltLevel[t] >= lc})
       ELSE NoNeighbors[lc]]

Init ==
  /\ elem = [s \in Slots |->
       IF s <= NBuilt
         THEN [level |-> BuiltLevel[s], val |-> TidVal[BuiltTids[s]],
               tids |-> {BuiltTids[s]}, deleted |-> FALSE, version |-> 1]
         ELSE NullElem]
  /\ ntup = [s \in Slots |->
       IF s <= NBuilt
         THEN [level |-> BuiltLevel[s], room |-> BuiltLevel[s], version |-> 1,
               nbrs |-> BuiltNbrs(s)]
         ELSE NullNtup]
  /\ npages = NBuilt
  /\ meta = IF NBuilt = 0
              THEN [entry |-> Nil, level |-> -1, insertPage |-> 1]
              ELSE [entry |-> BuiltEntry, level |-> BuiltLevel[BuiltEntry],
                    insertPage |-> NBuilt]
  /\ heap = [t \in Tids |->
       IF \E i \in 1..NBuilt : BuiltTids[i] = t THEN "live" ELSE "free"]
  /\ updLock = [sh |-> {}, ex |-> {}]
  /\ scanLock = [sh |-> {}, ex |-> {}]
  /\ pc = [p \in Procs |-> "idle"]
  /\ me = [p \in Procs |-> [elt |-> NoElement, tid |-> Nil]]
  /\ ep = [p \in Procs |-> NoElement]
  /\ srch = [p \in Procs |-> NoSearch]
  /\ nb = [p \in Procs |-> [lc \in Levels |-> {}]]
  /\ upd = [p \in Procs |-> NoUpdate]
  /\ walk = [p \in Procs |-> NoWalk]
  /\ vac = [dead |-> {}, deleted |-> {}, pos |-> 0, highest |-> NoElement,
            first |-> Nil, insertPage |-> Nil, ret |-> "loop", runs |-> 0]
  /\ failed = {}
  /\ cancels = 0

-----------------------------------------------------------------------------
(* Ends of operations.                                                     *)

Goto(p, label) == pc' = [pc EXCEPT ![p] = label]

Reset(p) ==
  /\ me' = [me EXCEPT ![p] = [elt |-> NoElement, tid |-> Nil]]
  /\ ep' = [ep EXCEPT ![p] = NoElement]
  /\ srch' = [srch EXCEPT ![p] = NoSearch]
  /\ nb' = [nb EXCEPT ![p] = [lc \in Levels |-> {}]]
  /\ upd' = [upd EXCEPT ![p] = NoUpdate]
  /\ walk' = [walk EXCEPT ![p] = NoWalk]

\* The transaction aborts: its locks are released, its row is dead
Abort(p) ==
  /\ Goto(p, "idle")
  /\ Reset(p)
  /\ updLock' = Drop(updLock, p)
  /\ scanLock' = Drop(scanLock, p)
  /\ heap' = IF p \in Inserters
               THEN [heap EXCEPT ![me[p].tid] = "dead"] ELSE heap

\* The distance to an element whose vector MarkDeleted zeroed is an ERROR
\* (the dimensions differ)
Fail(p) ==
  /\ Abort(p)
  /\ failed' = failed \cup {p}
  /\ UNCHANGED <<disk, vac, cancels>>

EndInsert(p) ==
  /\ Goto(p, "idle")
  /\ Reset(p)
  /\ updLock' = Drop(updLock, p)
  /\ heap' = [heap EXCEPT ![me[p].tid] = "live"]
  /\ failed' = failed \ {p}
  /\ UNCHANGED <<scanLock, vac, cancels>>

\* HnswGetEntryPoint
EntryPoint ==
  IF meta.entry = Nil THEN NoElement
  ELSE [NoElement EXCEPT !.slot = meta.entry, !.level = meta.level]
Promotes(level) == meta.entry = Nil \/ level > meta.level

\* HnswUpdateMetaPageInfo with HNSW_UPDATE_ENTRY_GREATER
EntryGreater(e) ==
  IF e.level > meta.level
    THEN [meta EXCEPT !.entry = e.slot, !.level = e.level] ELSE meta
\* HnswUpdateMetaPageInfo with HNSW_UPDATE_ENTRY_ALWAYS
EntryAlwaysKeepsLevel(e) == [meta EXCEPT !.entry = e.slot]
EntryAlways(e) ==
  [meta EXCEPT !.entry = e.slot, !.level = IF e.slot = Nil THEN -1 ELSE e.level]

-----------------------------------------------------------------------------
(* HnswSearchLayer and HnswFindElementNeighbors, for inserts, repairs and  *)
(* scans alike.                                                            *)

\* HnswEntryCandidate
EntryCandidate(p) ==
  /\ pc[p] = "entry"
  /\ IF elem[ep[p].slot].deleted
       THEN Fail(p)
       ELSE LET e == Load(ep[p].slot) IN
         /\ ep' = [ep EXCEPT ![p] = e]
         /\ srch' = [srch EXCEPT ![p] =
              [lc |-> e.level, w |-> {e}, todo |-> {e}, vis |-> {e.slot}, pend |-> {}]]
         /\ Goto(p, "search")
         /\ UNCHANGED <<disk, locks, heap, me, nb, upd, walk, vac, failed, cancels>>

\* HnswLoadUnvisitedFromDisk: copy the neighbor TIDs of the next candidate,
\* if its tuple still is the one the candidate was loaded with
\* (HnswLoadNeighborTids)
NeighborTids(c, lc) ==
  LET t == ntup[c.slot]
  IN IF t.version = c.version /\ t.level = c.level
       THEN {t.nbrs[lc][i] : i \in ValidPrefix(t.nbrs[lc], LayerM(lc))}
       ELSE {}
ExpandCandidate(p) ==
  /\ pc[p] = "search" /\ srch[p].pend = {}
  /\ \E c \in srch[p].todo :
       LET new == NeighborTids(c, srch[p].lc) \ srch[p].vis IN
       srch' = [srch EXCEPT ![p].todo = @ \ {c}, ![p].vis = @ \cup new,
                            ![p].pend = new]
  /\ UNCHANGED <<disk, locks, heap, pc, me, ep, nb, upd, walk, vac, failed, cancels>>

\* HnswLoadElementImpl
LoadUnvisited(p) ==
  /\ pc[p] = "search"
  /\ \E s \in srch[p].pend :
       IF elem[s].deleted
         THEN Fail(p)
         ELSE LET add == IF elem[s].level < srch[p].lc THEN {} ELSE {Load(s)} IN
           /\ srch' = [srch EXCEPT ![p].pend = @ \ {s}, ![p].w = @ \cup add,
                                   ![p].todo = @ \cup add]
           /\ UNCHANGED <<disk, locks, heap, pc, me, ep, nb, upd, walk, vac, failed, cancels>>

\* The greedy search (ef = 1) of a layer above the element's level keeps one
\* candidate; elements being deleted do not count when VACUUM searches
DescendLayer(p) ==
  /\ pc[p] = "search" /\ srch[p].pend = {}
  /\ srch[p].lc > me[p].elt.level
  /\ \E best \in SUBSET srch[p].w :
       /\ Cardinality({e \in best : p = Vacuum => e.live}) <= 1
       /\ best # {}
       /\ srch' = [srch EXCEPT ![p] =
            [lc |-> srch[p].lc - 1, w |-> best, todo |-> best,
             vis |-> {e.slot : e \in best}, pend |-> {}]]
  /\ UNCHANGED <<disk, locks, heap, pc, me, ep, nb, upd, walk, vac, failed, cancels>>

\* RemoveElements and SelectNeighbors: elements being deleted helped the
\* search but are not selected; all candidates are kept when they fit
EligibleKeepsDead(p) == {e \in srch[p].w : e.slot # me[p].elt.slot}
Eligible(p) == {e \in srch[p].w : e.live /\ e.slot # me[p].elt.slot}
SelectNeighbors(p) ==
  LET lm == LayerM(srch[p].lc) IN
  {S \in SUBSET Eligible(p) :
     Cardinality(S) = IF Cardinality(Eligible(p)) <= lm
                        THEN Cardinality(Eligible(p)) ELSE lm}
FinishLayer(p) ==
  /\ pc[p] = "search" /\ p \notin Scanners
  /\ srch[p].pend = {} /\ srch[p].todo = {}
  /\ srch[p].lc <= me[p].elt.level
  /\ \E S \in SelectNeighbors(p) : nb' = [nb EXCEPT ![p][srch[p].lc] = S]
  /\ IF srch[p].lc > 0
       THEN /\ srch' = [srch EXCEPT ![p].lc = @ - 1, ![p].todo = srch[p].w,
                                    ![p].vis = {e.slot : e \in srch[p].w}]
            /\ UNCHANGED pc
       ELSE /\ srch' = [srch EXCEPT ![p] = NoSearch]
            /\ Goto(p, IF p = Vacuum THEN "overwrite" ELSE "dup")
  /\ UNCHANGED <<disk, locks, heap, me, ep, upd, walk, vac, failed, cancels>>

-----------------------------------------------------------------------------
(* Inserts (HnswInsertTupleOnDisk).                                        *)

\* Take the shared lock, read the metapage, draw a level; let the lock go
\* again if the element is likely to become the entry point
BeginInsertKeepsShared(p, t, l) ==
  /\ pc[p] = "idle" /\ heap[t] = "free" /\ CanShare(updLock)
  /\ heap' = [heap EXCEPT ![t] = "inserting"]
  /\ me' = [me EXCEPT ![p] = [elt |-> [slot |-> Nil, level |-> l, version |-> 1,
                                       val |-> TidVal[t], live |-> TRUE],
                              tid |-> t]]
  /\ updLock' = Share(updLock, p)
  /\ IF Promotes(l)
       THEN Goto(p, "wantEx") /\ UNCHANGED ep
       ELSE Goto(p, "entry") /\ ep' = [ep EXCEPT ![p] = EntryPoint]
  /\ UNCHANGED <<disk, scanLock, srch, nb, upd, walk, vac, failed, cancels>>
BeginInsert(p, t, l) ==
  /\ pc[p] = "idle" /\ heap[t] = "free" /\ CanShare(updLock)
  /\ heap' = [heap EXCEPT ![t] = "inserting"]
  /\ me' = [me EXCEPT ![p] = [elt |-> [slot |-> Nil, level |-> l, version |-> 1,
                                       val |-> TidVal[t], live |-> TRUE],
                              tid |-> t]]
  /\ IF Promotes(l)
       THEN Goto(p, "wantEx") /\ UNCHANGED <<updLock, ep>>
       ELSE /\ Goto(p, "entry")
            /\ updLock' = Share(updLock, p)
            /\ ep' = [ep EXCEPT ![p] = EntryPoint]
  /\ UNCHANGED <<disk, scanLock, srch, nb, upd, walk, vac, failed, cancels>>

LockForInsert(p) ==
  /\ pc[p] = "wantEx" /\ Free(updLock)
  /\ updLock' = Exclude(updLock, p)
  /\ ep' = [ep EXCEPT ![p] = EntryPoint]
  /\ Goto(p, IF meta.entry = Nil THEN "dup" ELSE "entry")
  /\ UNCHANGED <<disk, scanLock, heap, me, srch, nb, upd, walk, vac, failed, cancels>>

\* FindDuplicateOnDisk gives up at the first neighbor with another value,
\* wherever the distances put it, or when every neighbor was tried
Same(p) == {e \in nb[p][0] : e.val = me[p].elt.val}
GiveUpDuplicates(p) ==
  /\ pc[p] = "dup"
  /\ Same(p) # nb[p][0] \/ Same(p) \subseteq srch[p].w
  /\ srch' = [srch EXCEPT ![p] = NoSearch]
  /\ walk' = [walk EXCEPT ![p] = [from |-> meta.insertPage, cur |-> meta.insertPage,
                                  new |-> Nil]]
  /\ Goto(p, "walk")
  /\ UNCHANGED <<disk, locks, heap, me, ep, nb, upd, vac, failed, cancels>>

\* Either being deleted or we lost our chance to another backend
DuplicateFull(s) == elem[s].tids = {} \/ Cardinality(elem[s].tids) = HeapTidsMax
AddDuplicate(p) ==
  /\ pc[p] = "dup"
  /\ \E d \in Same(p) \ srch[p].w :
       IF DuplicateFull(d.slot)
         THEN /\ srch' = [srch EXCEPT ![p].w = @ \cup {d}]
              /\ UNCHANGED <<disk, locks, heap, pc, me, ep, nb, upd, walk, vac, failed, cancels>>
         ELSE /\ elem' = [elem EXCEPT ![d.slot].tids = @ \cup {me[p].tid}]
              /\ EndInsert(p)
              /\ UNCHANGED <<ntup, npages, meta>>

\* AddElementOnDisk: one page of the chain under its lock.  A deleted
\* element is replaced if the new tuples fit in its place, and a page is
\* appended after the last one.
Chosen(p) == UNION {{[lc |-> lc, elt |-> x] : x \in nb[p][lc]} : lc \in Levels}
PutElement(p, s, version, room) ==
  LET e == me[p].elt IN
  /\ elem' = [elem EXCEPT ![s] = [level |-> e.level, val |-> e.val,
                tids |-> {me[p].tid}, deleted |-> FALSE, version |-> version]]
  /\ ntup' = [ntup EXCEPT ![s] = [level |-> e.level, room |-> room, version |-> version,
                nbrs |-> [lc \in Levels |-> ListOf({x.slot : x \in nb[p][lc]})]]]
  /\ me' = [me EXCEPT ![p].elt.slot = s]
  /\ upd' = [upd EXCEPT ![p].todo = Chosen(p)]

ReplaceableTooEarly(p, s) ==
  s <= npages /\ elem[s].tids = {} /\ me[p].elt.level <= ntup[s].room
Replaceable(p, s) ==
  s <= npages /\ elem[s].deleted /\ me[p].elt.level <= ntup[s].room
InsertPageOffByOne(p, s) == IF walk[p].new = Nil THEN s + 1 ELSE walk[p].new
InsertPageAfter(p, s) == IF walk[p].new = Nil THEN s ELSE walk[p].new

ReplaceDeleted(p) ==
  /\ pc[p] = "walk" /\ Replaceable(p, walk[p].cur)
  /\ PutElement(p, walk[p].cur, elem[walk[p].cur].version, ntup[walk[p].cur].room)
  /\ walk' = [walk EXCEPT ![p].new = InsertPageAfter(p, walk[p].cur)]
  /\ Goto(p, "setPage")
  /\ UNCHANGED <<npages, meta, locks, heap, ep, srch, nb, vac, failed, cancels>>

NextPage(p) ==
  /\ pc[p] = "walk" /\ ~Replaceable(p, walk[p].cur) /\ walk[p].cur < npages
  /\ walk' = [walk EXCEPT ![p].cur = @ + 1,
        ![p].new = IF elem[walk[p].cur].deleted
                     THEN InsertPageAfter(p, walk[p].cur) ELSE @]
  /\ UNCHANGED <<disk, locks, heap, pc, me, ep, srch, nb, upd, vac, failed, cancels>>

AppendPage(p) ==
  /\ pc[p] = "walk" /\ ~Replaceable(p, walk[p].cur) /\ walk[p].cur >= npages
  /\ npages < NSlots
  /\ npages' = npages + 1
  /\ PutElement(p, npages + 1, 1, me[p].elt.level)
  /\ walk' = [walk EXCEPT ![p].new =
        InsertPageAfter(p, IF walk[p].cur <= npages /\ elem[walk[p].cur].deleted
                             THEN walk[p].cur ELSE npages + 1)]
  /\ Goto(p, "setPage")
  /\ UNCHANGED <<meta, locks, heap, ep, srch, nb, vac, failed, cancels>>

UpdateInsertPage(p) ==
  /\ pc[p] = "setPage"
  /\ meta' = [meta EXCEPT !.insertPage =
                IF walk[p].new = walk[p].from THEN @ ELSE walk[p].new]
  /\ walk' = [walk EXCEPT ![p] = NoWalk]
  /\ nb' = [nb EXCEPT ![p] = [lc \in Levels |-> {}]]
  /\ Goto(p, "update")
  /\ UNCHANGED <<elem, ntup, npages, locks, heap, me, ep, srch, upd, vac, failed, cancels>>

\* Last step of UpdateGraphOnDisk, and the unlock
FinishInsert(p) ==
  /\ pc[p] = "update" /\ p \in Inserters /\ upd[p].todo = {}
  /\ meta' = IF ep[p].slot = Nil \/ me[p].elt.level > ep[p].level
               THEN EntryGreater(me[p].elt) ELSE meta
  /\ EndInsert(p)
  /\ UNCHANGED <<elem, ntup, npages>>


-----------------------------------------------------------------------------
(* HnswUpdateNeighborsOnDisk: add the element to its neighbors' lists.     *)

\* GetUpdateIndex, part 1: read the neighbor's own list, highest layer first
AnyFree == -2
ReadNeighborList(p) ==
  /\ pc[p] = "update"
  /\ \E x \in upd[p].todo :
       LET t    == ntup[x.elt.slot]
           same == t.version = x.elt.version /\ t.level = x.elt.level
           lm   == LayerM(x.lc)
           full == same /\ Cardinality(ValidPrefix(t.nbrs[x.lc], lm)) = lm
       IN /\ \A y \in upd[p].todo : y.lc <= x.lc
          /\ upd' = [upd EXCEPT ![p] =
               [todo |-> @.todo \ {x}, cur |-> x,
                list |-> IF full THEN t.nbrs[x.lc] ELSE NoNeighbors[0],
                pos |-> IF full THEN 1 ELSE 0, idx |-> IF full THEN 0 ELSE AnyFree]]
          /\ Goto(p, IF full THEN "loadNbrs" ELSE "write")
  /\ UNCHANGED <<disk, locks, heap, me, ep, srch, nb, walk, vac, failed, cancels>>

\* GetUpdateIndex, part 2: LoadElementsForInsert; an element being deleted is
\* replaced, else SelectNeighbors decides whether and whom to replace
LoadElementForInsert(p) ==
  /\ pc[p] = "loadNbrs"
  /\ LET s  == upd[p].list[upd[p].pos]
         lm == LayerM(upd[p].cur.lc)
     IN \/ elem[s].deleted /\ Fail(p)
        \/ /\ ~elem[s].deleted
           /\ \/ /\ elem[s].tids = {}
                 /\ upd' = [upd EXCEPT ![p].idx = upd[p].pos]
                 /\ Goto(p, "write")
              \/ /\ elem[s].tids # {} /\ upd[p].pos < lm
                 /\ upd' = [upd EXCEPT ![p].pos = @ + 1]
                 /\ UNCHANGED pc
              \/ /\ elem[s].tids # {} /\ upd[p].pos >= lm
                 /\ \E i \in 1..lm : upd' = [upd EXCEPT ![p].idx = i]
                 /\ Goto(p, "write")
              \/ /\ elem[s].tids # {} /\ upd[p].pos >= lm
                 /\ Goto(p, "update")
                 /\ UNCHANGED upd
           /\ UNCHANGED <<disk, locks, heap, me, ep, srch, nb, walk, vac, failed, cancels>>

\* UpdateNeighborOnDisk; only VACUUM checks for an existing connection
Connected(list, lm, s) == \E i \in ValidPrefix(list, lm) : list[i] = s
UpdateIndex(p) ==
  LET x    == upd[p].cur
      list == ntup[x.elt.slot].nbrs[x.lc]
      free == {i \in 1..LayerM(x.lc) : list[i] = Nil}
  IN CASE p = Vacuum /\ Connected(list, LayerM(x.lc), me[p].elt.slot) -> Nil
       [] upd[p].idx # AnyFree -> upd[p].idx
       [] free = {} -> Nil
       [] OTHER -> CHOOSE i \in free : \A j \in free : i <= j
UpdateNeighbor(p) ==
  /\ pc[p] = "write"
  /\ LET x == upd[p].cur
         i == UpdateIndex(p)
     IN ntup' = IF i = Nil THEN ntup
                ELSE [ntup EXCEPT ![x.elt.slot].nbrs[x.lc][i] = me[p].elt.slot]
  /\ upd' = [upd EXCEPT ![p] = [NoUpdate EXCEPT !.todo = upd[p].todo]]
  /\ Goto(p, "update")
  /\ UNCHANGED <<elem, npages, meta, locks, heap, me, ep, srch, nb, walk, vac, failed, cancels>>

-----------------------------------------------------------------------------
(* VACUUM.  The dead TIDs were collected before ambulkdelete is called.    *)

BeginVacuum ==
  /\ pc[Vacuum] = "idle" /\ vac.runs < MaxVacuums
  /\ \E t \in Tids : heap[t] = "dead"
  /\ vac' = [vac EXCEPT !.dead = {t \in Tids : heap[t] = "dead"}, !.deleted = {},
                        !.pos = 1, !.highest = NoElement, !.first = meta.entry,
                        !.insertPage = Nil, !.runs = @ + 1]
  /\ Goto(Vacuum, "remove")
  /\ UNCHANGED <<disk, locks, heap, me, ep, srch, nb, upd, walk, failed, cancels>>

NextPosSkipsLast == IF vac.pos + 1 < npages THEN vac.pos + 1 ELSE Nil
NextPos == IF vac.pos < npages THEN vac.pos + 1 ELSE Nil

\* Pass 1, RemoveHeapTids
RemoveHeapTids ==
  /\ pc[Vacuum] = "remove" /\ vac.pos # Nil
  /\ LET s    == vac.pos
         left == elem[s].tids \ vac.dead
     IN IF s > npages THEN UNCHANGED elem /\ vac' = [vac EXCEPT !.pos = Nil]
        ELSE
        /\ elem' = [elem EXCEPT ![s].tids = left]
        /\ vac' = [vac EXCEPT !.pos = NextPos,
             !.deleted = IF left = {} THEN @ \cup {s} ELSE @,
             !.highest = IF left # {} /\ s # vac.first
                            /\ (@.slot = Nil \/ elem[s].level > @.level)
                           THEN [Load(s) EXCEPT !.live = TRUE] ELSE @]
  /\ UNCHANGED <<ntup, npages, meta, locks, heap, pc, me, ep, srch, nb, upd, walk, failed, cancels>>

\* Pass 2, RepairGraph: wait for inserts to complete
NoWaitForInserts ==
  /\ pc[Vacuum] = "remove" /\ vac.pos = Nil
  /\ Goto(Vacuum, IF vac.highest.slot # Nil THEN "hpLock" ELSE "epLock")
  /\ UNCHANGED <<disk, locks, heap, me, ep, srch, nb, upd, walk, vac, failed, cancels>>
WaitForInserts ==
  /\ pc[Vacuum] = "remove" /\ vac.pos = Nil
  /\ Free(updLock)
  /\ Goto(Vacuum, IF vac.highest.slot # Nil THEN "hpLock" ELSE "epLock")
  /\ UNCHANGED <<disk, locks, heap, me, ep, srch, nb, upd, walk, vac, failed, cancels>>

NeedsUpdatedIfDeleted(e) == Referenced(e.slot) \cap vac.deleted # {}
NeedsUpdated(e) ==
  \/ Referenced(e.slot) \cap vac.deleted # {}
  \/ ntup[e.slot].nbrs[0][LayerM(0)] = Nil

\* RepairGraphElement: skip the entry point itself
StartRepair(e, entry) ==
  /\ me' = [me EXCEPT ![Vacuum].elt = [e EXCEPT !.live = FALSE]]
  /\ ep' = [ep EXCEPT ![Vacuum] = entry]
  /\ nb' = [nb EXCEPT ![Vacuum] = [lc \in Levels |-> {}]]
  /\ Goto(Vacuum, CASE entry.slot = e.slot -> "repaired"
                    [] entry.slot = Nil -> "overwrite"
                    [] OTHER -> "entry")

\* RepairGraphEntryPoint, first half: the highest non-entry point
LockHighest ==
  /\ pc[Vacuum] = "hpLock" /\ CanShare(updLock)
  /\ updLock' = Share(updLock, Vacuum)
  /\ vac' = [vac EXCEPT !.highest = Load(vac.highest.slot), !.ret = "hp"]
  /\ Goto(Vacuum, "hpCheck")
  /\ UNCHANGED <<disk, scanLock, heap, me, ep, srch, nb, upd, walk, failed, cancels>>

CheckHighest ==
  /\ pc[Vacuum] = "hpCheck"
  /\ IF NeedsUpdated(vac.highest)
       THEN StartRepair(vac.highest, EntryPoint)
       ELSE Goto(Vacuum, "repaired") /\ UNCHANGED <<me, ep, nb>>
  /\ UNCHANGED <<disk, locks, heap, srch, upd, walk, vac, failed, cancels>>

\* RepairGraphEntryPoint, second half: replace or repair the entry point
EntryBeingDeleted == meta.entry \in vac.deleted
LockEntryPoint ==
  /\ pc[Vacuum] = "epLock" /\ Free(updLock)
  /\ updLock' = Exclude(updLock, Vacuum)
  /\ vac' = [vac EXCEPT !.ret = "ep"]
  /\ IF meta.entry = Nil \/ EntryBeingDeleted
       THEN /\ meta' = IF meta.entry = Nil THEN meta ELSE EntryAlways(vac.highest)
            /\ Goto(Vacuum, "repaired")
            /\ UNCHANGED <<me, ep, nb>>
       ELSE /\ UNCHANGED meta
            /\ IF NeedsUpdated(Load(meta.entry))
                 THEN StartRepair(Load(meta.entry), vac.highest)
                 ELSE Goto(Vacuum, "repaired") /\ UNCHANGED <<me, ep, nb>>
  /\ UNCHANGED <<elem, ntup, npages, scanLock, heap, srch, upd, walk, failed, cancels>>

\* RepairGraph: load the live elements of a page
LoadForRepair ==
  /\ pc[Vacuum] = "loop" /\ vac.pos # Nil
  /\ vac' = [vac EXCEPT !.pos = NextPos]
  /\ IF vac.pos <= npages /\ elem[vac.pos].tids # {}
       THEN /\ me' = [me EXCEPT ![Vacuum].elt = Load(vac.pos)]
            /\ Goto(Vacuum, "check")
       ELSE UNCHANGED <<me, pc>>
  /\ UNCHANGED <<disk, locks, heap, ep, srch, nb, upd, walk, failed, cancels>>

CheckElement ==
  /\ pc[Vacuum] = "check"
  /\ Goto(Vacuum, IF NeedsUpdated(me[Vacuum].elt) THEN "lock" ELSE "loop")
  /\ UNCHANGED <<disk, locks, heap, me, ep, srch, nb, upd, walk, vac, failed, cancels>>

LockForRepairKeepsShared ==
  /\ pc[Vacuum] = "lock" /\ CanShare(updLock)
  /\ updLock' = Share(updLock, Vacuum)
  /\ IF Promotes(me[Vacuum].elt.level)
       THEN Goto(Vacuum, "wantEx") /\ UNCHANGED <<me, ep, nb>>
       ELSE StartRepair(me[Vacuum].elt, EntryPoint)
  /\ UNCHANGED <<disk, scanLock, heap, srch, upd, walk, vac, failed, cancels>>
LockForRepair ==
  /\ pc[Vacuum] = "lock" /\ CanShare(updLock)
  /\ IF Promotes(me[Vacuum].elt.level)
       THEN Goto(Vacuum, "wantEx") /\ UNCHANGED <<updLock, me, ep, nb>>
       ELSE /\ updLock' = Share(updLock, Vacuum)
            /\ StartRepair(me[Vacuum].elt, EntryPoint)
  /\ UNCHANGED <<disk, scanLock, heap, srch, upd, walk, vac, failed, cancels>>

LockExclusiveForRepair ==
  /\ pc[Vacuum] = "wantEx" /\ Free(updLock)
  /\ updLock' = Exclude(updLock, Vacuum)
  /\ StartRepair(me[Vacuum].elt, EntryPoint)
  /\ UNCHANGED <<disk, scanLock, heap, srch, upd, walk, vac, failed, cancels>>

\* RepairGraphElement: overwrite the neighbor tuple
OverwriteNeighbors ==
  /\ pc[Vacuum] = "overwrite"
  /\ LET e == me[Vacuum].elt IN
       ntup' = [ntup EXCEPT ![e.slot] =
         [level |-> e.level, room |-> @.room, version |-> e.version,
          nbrs |-> [lc \in Levels |-> ListOf({x.slot : x \in nb[Vacuum][lc]})]]]
  /\ upd' = [upd EXCEPT ![Vacuum].todo = Chosen(Vacuum)]
  /\ nb' = [nb EXCEPT ![Vacuum] = [lc \in Levels |-> {}]]
  /\ Goto(Vacuum, "update")
  /\ UNCHANGED <<elem, npages, meta, locks, heap, me, ep, srch, walk, vac, failed, cancels>>

NeighborsRepaired ==
  /\ pc[Vacuum] = "update" /\ upd[Vacuum].todo = {}
  /\ Goto(Vacuum, "repaired")
  /\ UNCHANGED <<disk, locks, heap, me, ep, srch, nb, upd, walk, vac, failed, cancels>>

\* Entry point update of the repair loop, and the unlock
FinishRepair ==
  /\ pc[Vacuum] = "repaired"
  /\ meta' = IF vac.ret = "loop" /\ (ep[Vacuum].slot = Nil
                                      \/ me[Vacuum].elt.level > ep[Vacuum].level)
               THEN EntryGreater(me[Vacuum].elt) ELSE meta
  /\ updLock' = Drop(updLock, Vacuum)
  /\ vac' = [vac EXCEPT !.ret = "loop", !.pos = IF vac.ret = "ep" THEN 1 ELSE @]
  /\ Goto(Vacuum, IF vac.ret = "hp" THEN "epLock" ELSE "loop")
  /\ Reset(Vacuum)
  /\ UNCHANGED <<elem, ntup, npages, scanLock, heap, failed, cancels>>

\* Pass 3, MarkDeleted: wait for index scans to complete
NoWaitForScans ==
  /\ pc[Vacuum] = "loop" /\ vac.pos = Nil
  /\ vac' = [vac EXCEPT !.pos = 1]
  /\ Goto(Vacuum, "mark")
  /\ UNCHANGED <<disk, locks, heap, me, ep, srch, nb, upd, walk, failed, cancels>>
WaitForScans ==
  /\ pc[Vacuum] = "loop" /\ vac.pos = Nil
  /\ Free(scanLock)
  /\ vac' = [vac EXCEPT !.pos = 1]
  /\ Goto(Vacuum, "mark")
  /\ UNCHANGED <<disk, locks, heap, me, ep, srch, nb, upd, walk, failed, cancels>>

NextVersion(v) == IF v + 1 > VersionMax THEN 1 ELSE v + 1
MarkDeleted ==
  /\ pc[Vacuum] = "mark" /\ vac.pos # Nil
  /\ LET s     == vac.pos
         empty == s <= npages /\ elem[s].tids = {}
         v     == NextVersion(elem[s].version)
     IN /\ elem' = IF empty /\ ~elem[s].deleted
                     THEN [elem EXCEPT ![s].deleted = TRUE, ![s].version = v] ELSE elem
        /\ ntup' = IF empty /\ ~elem[s].deleted
                     THEN [ntup EXCEPT ![s].nbrs = NoNeighbors, ![s].version = v] ELSE ntup
        /\ vac' = [vac EXCEPT !.pos = NextPos,
             !.insertPage = IF empty /\ @ = Nil THEN s ELSE @]
  /\ UNCHANGED <<npages, meta, locks, heap, pc, me, ep, srch, nb, upd, walk, failed, cancels>>

\* Update insert page last; the heap may now reuse the dead TIDs
EndVacuum ==
  /\ pc[Vacuum] = "mark" /\ vac.pos = Nil
  /\ meta' = [meta EXCEPT !.insertPage = IF vac.insertPage = Nil THEN @ ELSE vac.insertPage]
  /\ heap' = [t \in Tids |-> IF t \in vac.dead THEN "gone" ELSE heap[t]]
  /\ vac' = [vac EXCEPT !.dead = {}, !.deleted = {}, !.highest = NoElement,
                        !.first = Nil, !.insertPage = Nil]
  /\ failed' = failed \ {Vacuum}
  /\ Goto(Vacuum, "idle")
  /\ UNCHANGED <<elem, ntup, npages, locks, me, ep, srch, nb, upd, walk, cancels>>

-----------------------------------------------------------------------------
(* Scans (the first batch of hnswgettuple) and the heap.                   *)

BeginScan(p) ==
  /\ pc[p] = "idle" /\ CanShare(scanLock) /\ meta.entry # Nil
  /\ scanLock' = Share(scanLock, p)
  /\ ep' = [ep EXCEPT ![p] = EntryPoint]
  /\ Goto(p, "entry")
  /\ UNCHANGED <<disk, updLock, heap, me, srch, nb, upd, walk, vac, failed, cancels>>

EndScan(p) ==
  /\ pc[p] = "search" /\ p \in Scanners
  /\ srch[p].lc = 0 /\ srch[p].pend = {} /\ srch[p].todo = {}
  /\ scanLock' = Drop(scanLock, p)
  /\ failed' = failed \ {p}
  /\ Goto(p, "idle")
  /\ Reset(p)
  /\ UNCHANGED <<disk, updLock, heap, vac, cancels>>

\* A row is deleted, or the transaction that inserted it aborted
RowDies(t) ==
  /\ heap[t] = "live"
  /\ heap' = [heap EXCEPT ![t] = "dead"]
  /\ UNCHANGED <<disk, locks, pc, me, ep, srch, nb, upd, walk, vac, failed, cancels>>

\* A statement is cancelled, or its backend hits an I/O error, between two of
\* its steps
Cancel(p) ==
  /\ pc[p] # "idle" /\ cancels < MaxCancels
  /\ Abort(p)
  /\ cancels' = cancels + 1
  /\ UNCHANGED <<disk, vac, failed>>

-----------------------------------------------------------------------------
SearchStep(p) ==
  \/ EntryCandidate(p) \/ ExpandCandidate(p) \/ LoadUnvisited(p)
  \/ DescendLayer(p) \/ FinishLayer(p)
UpdateStep(p) ==
  ReadNeighborList(p) \/ LoadElementForInsert(p) \/ UpdateNeighbor(p)
InsertStep(p) ==
  \/ LockForInsert(p) \/ SearchStep(p) \/ GiveUpDuplicates(p) \/ AddDuplicate(p)
  \/ ReplaceDeleted(p) \/ NextPage(p) \/ AppendPage(p) \/ UpdateInsertPage(p)
  \/ UpdateStep(p) \/ FinishInsert(p)
VacuumStep ==
  \/ RemoveHeapTids \/ WaitForInserts \/ LockHighest \/ CheckHighest
  \/ LockEntryPoint \/ LoadForRepair \/ CheckElement \/ LockForRepair
  \/ LockExclusiveForRepair \/ SearchStep(Vacuum) \/ OverwriteNeighbors
  \/ UpdateStep(Vacuum) \/ NeighborsRepaired \/ FinishRepair
  \/ WaitForScans \/ MarkDeleted \/ EndVacuum
ScanStep(p) == SearchStep(p) \/ EndScan(p)

Next ==
  \/ \E p \in Inserters : InsertStep(p) \/ \E t \in Tids, l \in Levels : BeginInsert(p, t, l)
  \/ VacuumStep \/ BeginVacuum
  \/ \E p \in Scanners : ScanStep(p) \/ BeginScan(p)
  \/ \E t \in Tids : RowDies(t)
  \/ \E p \in Procs : Cancel(p)

Spec == Init /\ [][Next]_vars

-----------------------------------------------------------------------------
(* Every backend that has begun goes on; the lock manager queues requests, *)
(* so a lock that is free again and again is granted.                      *)
Fairness ==
  /\ \A p \in Inserters : SF_vars(InsertStep(p))
  /\ SF_vars(VacuumStep)
  /\ \A p \in Scanners : WF_vars(ScanStep(p))
LiveSpec == Spec /\ Fairness

-----------------------------------------------------------------------------
(* Properties.                                                             *)

Labels == {"idle", "entry", "search", "wantEx", "dup", "walk", "setPage", "update",
           "loadNbrs", "write", "remove", "hpLock", "hpCheck", "epLock", "loop",
           "check", "lock", "overwrite", "repaired", "mark"}
Lists      == [Widest -> Slots \cup {Nil}]
Wanted     == [lc : Levels, elt : Copies]
LockType   == [sh : SUBSET Procs, ex : SUBSET Procs]
ElemType   == [level : Levels, val : Values, tids : SUBSET Tids,
               deleted : BOOLEAN, version : 0..VersionMax]
NtupType   == [level : Levels, room : Levels, version : 0..VersionMax,
               nbrs : [Levels -> Lists]]
MetaType   == [entry : Slots \cup {Nil}, level : Levels \cup {-1}, insertPage : Slots]
MeType     == [elt : Copies, tid : Tids \cup {Nil}]
SearchType == [lc : Levels, w : SUBSET Copies, todo : SUBSET Copies,
               vis : SUBSET Slots, pend : SUBSET Slots]
UpdateType == [todo : SUBSET Wanted, cur : Wanted, list : Lists,
               pos : {Nil} \cup Widest, idx : {AnyFree, Nil} \cup Widest]
WalkType   == [from : Slots \cup {Nil}, cur : Slots \cup {Nil}, new : Slots \cup {Nil}]
VacType    == [dead : SUBSET Tids, deleted : SUBSET Slots, pos : Slots \cup {Nil},
               highest : Copies, first : Slots \cup {Nil},
               insertPage : Slots \cup {Nil}, ret : {"loop", "hp", "ep"},
               runs : 0..MaxVacuums]

\* The variables keep their types: versions stay below 16, every stored TID is
\* that of a page of the index
TypeOK ==
  /\ elem \in [Slots -> ElemType]
  /\ ntup \in [Slots -> NtupType]
  /\ npages \in 0..NSlots
  /\ meta \in MetaType
  /\ heap \in [Tids -> {"free", "inserting", "live", "dead", "gone"}]
  /\ updLock \in LockType
  /\ scanLock \in LockType
  /\ pc \in [Procs -> Labels]
  /\ me \in [Procs -> MeType]
  /\ ep \in [Procs -> Copies]
  /\ srch \in [Procs -> SearchType]
  /\ nb \in [Procs -> [Levels -> SUBSET Copies]]
  /\ upd \in [Procs -> UpdateType]
  /\ walk \in [Procs -> WalkType]
  /\ vac \in VacType
  /\ failed \subseteq Procs
  /\ cancels \in 0..MaxCancels

HoldersOf(t) == {s \in 1..npages : t \in elem[s].tids}

\* The index and the heap stay in step through AddElementOnDisk,
\* AddDuplicateOnDisk and RemoveHeapTids: a committed row is in exactly one
\* element, and a TID the heap may hand out again is in none
TidPlaced ==
  \A t \in Tids :
    /\ Cardinality(HoldersOf(t)) <= 1
    /\ heap[t] = "live" => HoldersOf(t) # {}
    /\ heap[t] \in {"free", "gone"} => HoldersOf(t) = {}

\* The heap TIDs of an element all have its value, although AddDuplicateOnDisk
\* trusts a comparison made before it locked the page, and VACUUM may give the
\* page to another row
TidRightValue ==
  \A s \in Slots : \A t \in elem[s].tids : TidVal[t] = elem[s].val

\* The metapage's entry point is an element that is not deleted, and the level
\* stored with it is that element's, whoever replaces it (UpdateGraphOnDisk,
\* RepairGraphEntryPoint, RepairGraph)
EntryOk ==
  meta.entry # Nil => /\ meta.entry <= npages
                      /\ ~elem[meta.entry].deleted
                      /\ meta.level = elem[meta.entry].level

\* When MarkDeleted has taken an element, no live element has it as a neighbor
\* ("the graph has been repaired")
DeletedUnreferenced ==
  \A s \in Slots : elem[s].tids # {} =>
    \A r \in Referenced(s) : ~elem[r].deleted

\* "Scans after this point will not [contain tuples about to be deleted]", so
\* no scan computes a distance to a vector MarkDeleted has zeroed
ScansNeverReadDeleted == failed \cap Scanners = {}

\* UpdateNeighborOnDisk writes without looking at the tuple's version: the
\* neighbor tuple still is that of the element the neighbor was selected as
WriteTarget ==
  \A p \in Procs : pc[p] = "write" =>
    LET x == upd[p].cur.elt IN
      ntup[x.slot].version = x.version /\ ntup[x.slot].level = x.level

\* The slots a search of layer 0 can meet from the entry point
Neighborhood(S) ==
  S \cup UNION {{ntup[s].nbrs[0][i] : i \in ValidPrefix(ntup[s].nbrs[0], LayerM(0))}
                : s \in S}
Reached[n \in 0..NSlots] ==
  IF n = 0 THEN {meta.entry} \ {Nil} ELSE Neighborhood(Reached[n - 1])

\* When no insert and no VACUUM is under way, every committed row can be found
\* from the entry point, whatever updates of neighbor lists were lost to
\* RepairGraphElement: emptying the entry point was "OK [...] since always
\* considered for searches and inserts" (lists that are full lose more)
AllReachable ==
  (\A p \in Inserters \cup {Vacuum} : pc[p] = "idle") =>
    \A t \in Tids : heap[t] = "live" => HoldersOf(t) \subseteq Reached[NSlots]

\* An insert that has begun ends, and lets go of HNSW_UPDATE_LOCK, although it
\* drops the shared lock to wait for the exclusive one
InsertsEnd == \A p \in Inserters : pc[p] # "idle" ~> pc[p] = "idle"

\* VACUUM gets through its three passes and both waits
VacuumEnds == pc[Vacuum] # "idle" ~> pc[Vacuum] = "idle"

-----------------------------------------------------------------------------
(* The inductive invariant behind TypeOK, TidRightValue and WriteTarget.   *)

\* What a step is about to follow is a slot or a TID, not Nil
Ready(p) ==
  /\ pc[p] = "entry" => ep[p].slot # Nil
  /\ \A c \in srch[p].w : c.slot # Nil
  /\ \A c \in srch[p].todo : c.slot # Nil
  /\ \A lc \in Levels : \A c \in nb[p][lc] : c.slot # Nil
  /\ \A x \in upd[p].todo : x.elt.slot # Nil
  /\ pc[p] = "walk" => walk[p].cur # Nil
  /\ pc[p] = "setPage" => walk[p].new # Nil
  /\ p \in Inserters /\ pc[p] # "idle" => me[p].tid # Nil
Defined ==
  /\ meta.entry # Nil => meta.level # -1
  /\ \A p \in Procs : Ready(p)
  /\ pc[Vacuum] = "hpLock" => vac.highest.slot # Nil


\* Pages are only followed once they are in the chain
InChain(s) == s <= npages
BoundedAt(p) ==
  /\ InChain(ep[p].slot) /\ InChain(me[p].elt.slot)
  /\ \A s \in srch[p].pend : InChain(s)
  /\ \A x \in srch[p].w : InChain(x.slot)
  /\ \A x \in srch[p].todo : InChain(x.slot)
  /\ \A lc \in Levels : \A x \in nb[p][lc] : InChain(x.slot)
  /\ \A y \in upd[p].todo : InChain(y.elt.slot)
  /\ InChain(upd[p].cur.elt.slot)
Bounded ==
  /\ InChain(meta.entry) /\ InChain(vac.highest.slot)
  /\ \A s \in Slots, lc \in Levels, i \in Widest : InChain(ntup[s].nbrs[lc][i])
  /\ \A p \in Procs : BoundedAt(p)

\* An element and its neighbor tuple change their version together, and only
\* an element without heap TIDs is deleted
Paired ==
  \A s \in Slots :
    /\ ntup[s].version = elem[s].version /\ ntup[s].level = elem[s].level
    /\ elem[s].deleted => elem[s].tids = {}

\* An insert past its first steps holds HNSW_UPDATE_LOCK; nobody shares it
\* with a backend that holds it exclusively
Locked ==
  /\ \A p \in Inserters : pc[p] \notin {"idle", "wantEx"} => p \in updLock.sh \cup updLock.ex
  /\ \A p \in updLock.ex : updLock.sh = {} /\ updLock.ex = {p}

\* A live element as a backend remembers it is what its page still holds;
\* VACUUM may have emptied it, but has not got past its wait for inserts
Current(x) ==
  /\ x.slot # Nil
  /\ ~elem[x.slot].deleted /\ elem[x.slot].val = x.val
  /\ elem[x.slot].version = x.version /\ elem[x.slot].level = x.level
  /\ elem[x.slot].tids = {} => pc[Vacuum] \in {"idle", "remove"}

Using == {"search", "dup", "walk", "setPage", "update", "loadNbrs", "write",
          "overwrite", "repaired"}
Holds(p) ==
  /\ \A x \in srch[p].w : x.live => Current(x)
  /\ \A lc \in Levels : \A x \in nb[p][lc] : x.live /\ Current(x)
  /\ \A y \in upd[p].todo : y.elt.live /\ Current(y.elt)
  /\ upd[p].cur.elt.live => Current(upd[p].cur.elt)
  /\ pc[p] \in {"loadNbrs", "write"} => upd[p].cur.elt.live
  /\ pc[p] \notin Using => /\ srch[p].w = {}
                           /\ \A lc \in Levels : nb[p][lc] = {}
                           /\ upd[p].todo = {} /\ ~upd[p].cur.elt.live

\* The element VACUUM repairs is the one it read: it is not deleted, or no
\* insert is under way
RepairTarget(e) ==
  /\ e.slot # Nil
  /\ elem[e.slot].version = e.version /\ elem[e.slot].level = e.level
  /\ ~elem[e.slot].deleted \/ Vacuum \in updLock.ex
Repairing ==
  /\ pc[Vacuum] \in {"check", "lock", "wantEx", "entry", "search", "overwrite"}
       => RepairTarget(me[Vacuum].elt)
  /\ pc[Vacuum] \in {"check", "lock", "wantEx"} => ~elem[me[Vacuum].elt.slot].deleted
  /\ pc[Vacuum] = "hpCheck" => RepairTarget(vac.highest)
  /\ pc[Vacuum] = "hpLock" => ~elem[vac.highest.slot].deleted
  /\ pc[Vacuum] = "remove" /\ vac.highest.slot # Nil =>
       /\ elem[vac.highest.slot].tids # {}
       /\ vac.pos = Nil \/ vac.highest.slot < vac.pos

Fresh ==
  /\ Bounded /\ Paired /\ Locked /\ Repairing
  /\ \A p \in Inserters \cup {Vacuum} : Holds(p)
  /\ \A p \in Inserters : pc[p] # "idle" => TidVal[me[p].tid] = me[p].elt.val
  /\ \A p \in Scanners : pc[p] \in {"idle", "entry", "search"}
  /\ TidRightValue

\* Concurrent inserts and VACUUM never act on what a page no longer holds:
\* the strengthening that makes TypeOK, TidRightValue and WriteTarget inductive
Coherent == TypeOK /\ Defined /\ Fresh
=============================================================================
