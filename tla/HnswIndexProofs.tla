-------------------------- MODULE HnswIndexProofs --------------------------
(***************************************************************************)
(* Proofs about HnswIndex, for every number of backends, rows, pages and   *)
(* levels.  The first part shows the type invariant; the second part shows *)
(* that what a backend remembers of a live element is what its page holds, *)
(* which is why writes that do not look at a tuple's version are safe; the *)
(* third part shows that index and heap agree on the TIDs, and that the    *)
(* metapage always names an element that exists; the fourth part shows     *)
(* that VACUUM repairs all it must and that scans never meet what it has   *)
(* deleted.  One lemma per action: T_<action>, F_<action>, S_<action> and  *)
(* C_<action> for the four parts.                                          *)
(***************************************************************************)
EXTENDS HnswIndex, NatOrder, FiniteSetTheorems, TLAPS

\* Types are inductive together with what steps are about to follow
TInv == TypeOK /\ Defined

\* The values a fresh backend starts from have their types
LEMMA Basics ==
  /\ Values # {} /\ NullElem.val \in Values /\ 0 \in Levels /\ 1 \in Slots
  /\ NoElement \in Copies
  /\ NoSearch \in SearchType /\ NoWalk \in WalkType
  /\ Vacuum \in Procs
  /\ \A t \in Tids : TidVal[t] \in Values
<1>1. Values # {} /\ \A t \in Tids : TidVal[t] \in Values
  BY ConstantsAssumption DEF Values
<1>2. NullElem.val \in Values BY <1>1 DEF NullElem
<1>3. 0 \in Levels /\ 1 \in Slots BY ConstantsAssumption DEF Levels, Slots
<1>4. NoElement \in Copies
  BY <1>2, <1>3 DEF NoElement, Copies, Nil, VersionMax
<1>5. NoSearch \in SearchType /\ NoWalk \in WalkType
  BY <1>3 DEF NoSearch, SearchType, NoWalk, WalkType, Nil
<1> QED BY <1>1, <1>2, <1>3, <1>4, <1>5 DEF Procs

\* An empty neighbor tuple and an empty update have their types
LEMMA NoNeighborsType ==
  /\ NoNeighbors \in [Levels -> Lists]
  /\ NoUpdate \in UpdateType
<1>1. NoNeighbors \in [Levels -> Lists] BY DEF NoNeighbors, Lists, Nil
<1>2. [lc |-> 0, elt |-> NoElement] \in Wanted BY Basics DEF Wanted
<1> QED BY <1>1, <1>2, Basics DEF NoUpdate, UpdateType, Nil

\* HnswLoadElement gives a well-formed copy of the slot it was asked for
LEMMA LoadType ==
  ASSUME TypeOK, NEW s \in Slots
  PROVE  Load(s) \in Copies /\ Load(s).slot = s
BY DEF Load, Copies, TypeOK, ElemType, Nil

\* A list made of slots is a neighbor list
LEMMA ListOfType ==
  ASSUME NEW S \in SUBSET (Slots \cup {Nil})
  PROVE  ListOf(S) \in Lists
BY DEF ListOf, Lists

\* HnswGetEntryPoint gives an element whenever the metapage names one
LEMMA EntryPointType ==
  ASSUME TypeOK, Defined
  PROVE  /\ EntryPoint \in Copies
         /\ meta.entry # Nil => EntryPoint.slot # Nil
BY Basics DEF EntryPoint, Copies, TypeOK, MetaType, Defined, Levels

\* HnswUpdateMetaPageInfo keeps the type of the metapage in both modes
LEMMA EntryUpdateType ==
  ASSUME TypeOK, NEW e \in Copies
  PROVE  /\ EntryGreater(e) \in MetaType
         /\ EntryAlways(e) \in MetaType
BY DEF EntryGreater, EntryAlways, TypeOK, MetaType, Copies, Levels

\* A backend that ends an operation keeps the types of its local state
LEMMA ResetType ==
  ASSUME TypeOK, NEW p \in Procs, Reset(p)
  PROVE  /\ me' \in [Procs -> MeType]
         /\ ep' \in [Procs -> Copies]
         /\ srch' \in [Procs -> SearchType]
         /\ nb' \in [Procs -> [Levels -> SUBSET Copies]]
         /\ upd' \in [Procs -> UpdateType]
         /\ walk' \in [Procs -> WalkType]
BY Basics, NoNeighborsType DEF TypeOK, Reset, MeType

USE DEF disk, locks, Goto

\* UnlockPage keeps the type of the lock table
LEMMA DropType ==
  ASSUME TypeOK, NEW p
  PROVE  Drop(updLock, p) \in LockType /\ Drop(scanLock, p) \in LockType
BY DEF TypeOK, Drop, LockType

\* A statement that aborts releases its locks and forgets its local state
LEMMA T_Abort ==
  ASSUME TInv, NEW p \in Procs, Abort(p), UNCHANGED <<disk, vac>>,
         failed' \subseteq Procs, cancels' \in 0..MaxCancels
  PROVE  TInv'
<1>1. Reset(p) /\ pc' = [pc EXCEPT ![p] = "idle"] /\ "idle" \in Labels
  BY DEF Abort, Labels
<1>2. heap' \in [Tids -> {"free", "inserting", "live", "dead", "gone"}]
  BY DEF TInv, TypeOK, Abort
<1>3. TypeOK'
  BY <1>1, <1>2, ResetType, DropType DEF Abort, TInv, TypeOK
<1>4. Defined'
  BY <1>1 DEF TInv, TypeOK, Defined, Ready, Reset, NoSearch, NoUpdate, Procs
<1> QED BY <1>3, <1>4 DEF TInv

\* So does one that meets a vector MarkDeleted has zeroed
LEMMA T_Fail ==
  ASSUME TInv, NEW p \in Procs, Fail(p) PROVE TInv'
BY T_Abort DEF Fail, TInv, TypeOK

\* So does one that is cancelled
LEMMA T_Cancel ==
  ASSUME TInv, NEW p \in Procs, Cancel(p) PROVE TInv'
BY T_Abort, ConstantsAssumption DEF Cancel, TInv, TypeOK

\* The end of an insert, whichever of its two ends it is
LEMMA T_EndInsert ==
  ASSUME TInv, NEW p \in Inserters, EndInsert(p), UNCHANGED <<ntup, npages>>,
         elem' \in [Slots -> ElemType], meta' \in MetaType,
         meta'.entry # Nil => meta'.level # -1
  PROVE  TInv'
<1>1. Reset(p) /\ pc' = [pc EXCEPT ![p] = "idle"] /\ "idle" \in Labels /\ p \in Procs
  BY DEF EndInsert, Labels, Procs
<1>2. heap' \in [Tids -> {"free", "inserting", "live", "dead", "gone"}]
  BY DEF TInv, TypeOK, EndInsert
<1>3. TypeOK'
  BY <1>1, <1>2, ResetType, DropType DEF EndInsert, TInv, TypeOK
<1>4. Defined'
  BY <1>1 DEF TInv, TypeOK, Defined, Ready, Reset, NoSearch, NoUpdate, Procs, EndInsert
<1> QED BY <1>3, <1>4 DEF TInv

\* HnswEntryCandidate: the search begins with the entry point alone
LEMMA T_EntryCandidate ==
  ASSUME TInv, NEW p \in Procs, EntryCandidate(p) PROVE TInv'
<1>1. ep[p].slot \in Slots BY DEF EntryCandidate, TInv, TypeOK, Defined, Ready, Copies
<1>2. CASE elem[ep[p].slot].deleted BY <1>2, T_Fail DEF EntryCandidate
<1>3. CASE ~elem[ep[p].slot].deleted
  <2> DEFINE e == Load(ep[p].slot)
             r == [lc |-> e.level, w |-> {e}, todo |-> {e}, vis |-> {e.slot}, pend |-> {}]
  <2>1. e \in Copies /\ e.slot \in Slots /\ e.slot # Nil
    BY <1>1, LoadType DEF TInv, Slots, Nil
  <2>2. r \in SearchType BY <2>1 DEF SearchType, Copies
  <2> HIDE DEF e
  <2>3. /\ ep' = [ep EXCEPT ![p] = e] /\ srch' = [srch EXCEPT ![p] = r]
        /\ pc' = [pc EXCEPT ![p] = "search"] /\ "search" \in Labels
    BY <1>3 DEF EntryCandidate, Labels, e
  <2>4. UNCHANGED <<disk, locks, heap, me, nb, upd, walk, vac, failed, cancels>>
    BY <1>3 DEF EntryCandidate
  <2>5. TypeOK' BY <2>1, <2>2, <2>3, <2>4 DEF TInv, TypeOK
  <2>6. Defined' BY <2>1, <2>3, <2>4 DEF TInv, TypeOK, Defined, Ready, EntryCandidate
  <2> QED BY <2>5, <2>6 DEF TInv
<1> QED BY <1>2, <1>3

\* HnswLoadNeighborTids gives valid TIDs only: it stops at the first invalid one
LEMMA NeighborTidsType ==
  ASSUME TypeOK, NEW c \in Copies, c.slot # Nil, NEW lc \in Levels
  PROVE  NeighborTids(c, lc) \subseteq Slots
<1>1. ntup[c.slot] \in NtupType BY DEF TypeOK, Copies
<1>2. 1..LayerM(lc) \subseteq Widest BY ConstantsAssumption DEF LayerM, Widest
<1> QED BY <1>1, <1>2 DEF NeighborTids, ValidPrefix, NtupType, Lists

\* A candidate is expanded into the slots of its neighbors
LEMMA T_ExpandCandidate ==
  ASSUME TInv, NEW p \in Procs, ExpandCandidate(p) PROVE TInv'
<1>0. srch[p] \in SearchType BY DEF TInv, TypeOK
<1>1. PICK c \in srch[p].todo :
        LET new == NeighborTids(c, srch[p].lc) \ srch[p].vis IN
        srch' = [srch EXCEPT ![p].todo = @ \ {c}, ![p].vis = @ \cup new, ![p].pend = new]
  BY DEF ExpandCandidate
<1> DEFINE new == NeighborTids(c, srch[p].lc) \ srch[p].vis
<1>2. new \subseteq Slots
  BY <1>0, NeighborTidsType DEF TInv, Defined, Ready, SearchType
<1> HIDE DEF new
<1>3. srch' \in [Procs -> SearchType]
  BY <1>0, <1>1, <1>2 DEF new, SearchType, TInv, TypeOK
<1>4. /\ srch'[p].w = srch[p].w /\ srch'[p].todo \subseteq srch[p].todo
      /\ \A q \in Procs \ {p} : srch'[q] = srch[q]
  BY <1>0, <1>1 DEF TInv, TypeOK, SearchType
<1>5. UNCHANGED <<disk, locks, heap, pc, me, ep, nb, upd, walk, vac, failed, cancels>>
  BY DEF ExpandCandidate
<1>6. TypeOK' BY <1>3, <1>5 DEF TInv, TypeOK
<1>7. Defined' BY <1>4, <1>5 DEF TInv, Defined, Ready
<1> QED BY <1>6, <1>7 DEF TInv

\* HnswLoadElementImpl: a neighbor of the right level joins the search
LEMMA T_LoadUnvisited ==
  ASSUME TInv, NEW p \in Procs, LoadUnvisited(p) PROVE TInv'
<1>0. srch[p] \in SearchType BY DEF TInv, TypeOK
<1>1. PICK s \in srch[p].pend :
       IF elem[s].deleted
         THEN Fail(p)
         ELSE LET add == IF elem[s].level < srch[p].lc THEN {} ELSE {Load(s)} IN
           /\ srch' = [srch EXCEPT ![p].pend = @ \ {s}, ![p].w = @ \cup add,
                                   ![p].todo = @ \cup add]
           /\ UNCHANGED <<disk, locks, heap, pc, me, ep, nb, upd, walk, vac, failed, cancels>>
  BY DEF LoadUnvisited
<1>2. CASE elem[s].deleted BY <1>1, <1>2, T_Fail
<1>3. CASE ~elem[s].deleted
  <2> DEFINE add == IF elem[s].level < srch[p].lc THEN {} ELSE {Load(s)}
  <2>1. add \subseteq Copies /\ \A c \in add : c.slot # Nil
    BY <1>0, LoadType DEF TInv, SearchType, Slots, Nil
  <2> HIDE DEF add
  <2>2. /\ srch' = [srch EXCEPT ![p].pend = @ \ {s}, ![p].w = @ \cup add,
                                 ![p].todo = @ \cup add]
        /\ UNCHANGED <<disk, locks, heap, pc, me, ep, nb, upd, walk, vac, failed, cancels>>
    BY <1>1, <1>3 DEF add
  <2>3. srch' \in [Procs -> SearchType]
    BY <1>0, <2>1, <2>2 DEF SearchType, TInv, TypeOK
  <2>4. /\ srch'[p].w = srch[p].w \cup add /\ srch'[p].todo = srch[p].todo \cup add
        /\ \A q \in Procs \ {p} : srch'[q] = srch[q]
    BY <1>0, <2>2 DEF TInv, TypeOK, SearchType
  <2>5. TypeOK' BY <2>2, <2>3 DEF TInv, TypeOK
  <2>6. ASSUME NEW q \in Procs PROVE Ready(q)'
    <3>1. Ready(q) BY DEF TInv, Defined
    <3>2. CASE q = p BY <2>1, <2>2, <2>4, <3>1, <3>2 DEF Ready
    <3>3. CASE q # p BY <2>2, <2>4, <3>1, <3>3 DEF Ready
    <3> QED BY <3>2, <3>3
  <2>7. Defined' BY <2>2, <2>6 DEF TInv, Defined
  <2> QED BY <2>5, <2>7 DEF TInv
<1> QED BY <1>2, <1>3

\* The search goes down a layer with its best candidates
LEMMA T_DescendLayer ==
  ASSUME TInv, NEW p \in Procs, DescendLayer(p) PROVE TInv'
<1>0. srch[p] \in SearchType /\ me[p].elt.level \in Levels
  BY DEF TInv, TypeOK, MeType, Copies
<1>1. PICK best \in SUBSET srch[p].w :
        srch' = [srch EXCEPT ![p] =
            [lc |-> srch[p].lc - 1, w |-> best, todo |-> best,
             vis |-> {e.slot : e \in best}, pend |-> {}]]
  BY DEF DescendLayer
<1>2. \A e \in best : e \in Copies /\ e.slot # Nil /\ e.slot \in Slots
  BY <1>0 DEF SearchType, Copies, TInv, Defined, Ready
<1>3. srch[p].lc - 1 \in Levels
  BY <1>0, ConstantsAssumption DEF DescendLayer, Levels, SearchType
<1>4. srch'[p] \in SearchType
  <2>1. /\ best \subseteq Copies /\ {} \subseteq Slots
        /\ {e.slot : e \in best} \subseteq Slots
    BY <1>2
  <2>2. srch'[p] = [lc |-> srch[p].lc - 1, w |-> best, todo |-> best,
                    vis |-> {e.slot : e \in best}, pend |-> {}]
    BY <1>1 DEF TInv, TypeOK
  <2> QED BY ONLY <1>3, <2>1, <2>2 DEF SearchType
<1>5. UNCHANGED <<disk, locks, heap, pc, me, ep, nb, upd, walk, vac, failed, cancels>>
  BY DEF DescendLayer
<1>6. TypeOK' BY <1>1, <1>4, <1>5 DEF TInv, TypeOK
<1>7. Defined' BY <1>1, <1>2, <1>5 DEF TInv, TypeOK, Defined, Ready
<1> QED BY <1>6, <1>7 DEF TInv

\* SelectNeighbors chooses among the elements found
LEMMA T_FinishLayer ==
  ASSUME TInv, NEW p \in Procs, FinishLayer(p) PROVE TInv'
<1>0. srch[p] \in SearchType /\ srch[p].lc \in Levels BY DEF TInv, TypeOK, SearchType
<1>1. PICK S \in SelectNeighbors(p) : nb' = [nb EXCEPT ![p][srch[p].lc] = S]
  BY DEF FinishLayer
<1>2. S \subseteq srch[p].w BY DEF SelectNeighbors, Eligible
<1>3. S \subseteq Copies /\ \A c \in S : c.slot # Nil
  BY <1>0, <1>2 DEF SearchType, TInv, Defined, Ready
<1>4. nb' \in [Procs -> [Levels -> SUBSET Copies]] BY <1>0, <1>1, <1>3 DEF TInv, TypeOK
<1>5. UNCHANGED <<disk, locks, heap, me, ep, upd, walk, vac, failed, cancels>>
  BY DEF FinishLayer
<1>6. CASE srch[p].lc > 0
  <2>1. /\ srch' = [srch EXCEPT ![p].lc = @ - 1, ![p].todo = srch[p].w,
                                    ![p].vis = {e.slot : e \in srch[p].w}]
        /\ UNCHANGED pc
    BY <1>6 DEF FinishLayer
  <2>2. srch[p].lc - 1 \in Levels BY <1>0, <1>6, ConstantsAssumption DEF Levels
  <2>3. {e.slot : e \in srch[p].w} \subseteq Slots
    BY <1>0 DEF SearchType, Copies, TInv, Defined, Ready
  <2>4. srch' \in [Procs -> SearchType]
    BY <1>0, <2>1, <2>2, <2>3 DEF SearchType, TInv, TypeOK
  <2>5. /\ srch'[p].w = srch[p].w /\ srch'[p].todo = srch[p].w
        /\ \A q \in Procs \ {p} : srch'[q] = srch[q]
    BY <1>0, <2>1 DEF TInv, TypeOK, SearchType
  <2>6. TypeOK' BY <1>4, <1>5, <2>1, <2>4 DEF TInv, TypeOK
  <2>7. Defined' BY <1>0, <1>1, <1>3, <1>5, <2>1, <2>5 DEF TInv, TypeOK, Defined, Ready
  <2> QED BY <2>6, <2>7 DEF TInv
<1>7. CASE ~(srch[p].lc > 0)
  <2>1. /\ srch' = [srch EXCEPT ![p] = NoSearch]
        /\ pc' = [pc EXCEPT ![p] = IF p = Vacuum THEN "overwrite" ELSE "dup"]
    BY <1>7 DEF FinishLayer
  <2>2. TypeOK' BY <1>4, <1>5, <2>1, Basics DEF TInv, TypeOK, Labels
  <2>3. Defined' BY <1>0, <1>1, <1>3, <1>5, <2>1 DEF TInv, TypeOK, Defined, Ready, NoSearch, FinishLayer
  <2> QED BY <2>2, <2>3 DEF TInv
<1> QED BY <1>6, <1>7

\* An insert draws a level and reads the entry point
LEMMA T_BeginInsert ==
  ASSUME TInv, NEW p \in Inserters, NEW t \in Tids, NEW l \in Levels, BeginInsert(p, t, l)
  PROVE  TInv'
<1> DEFINE m == [elt |-> [slot |-> Nil, level |-> l, version |-> 1,
                          val |-> TidVal[t], live |-> TRUE], tid |-> t]
<1>0. p \in Procs BY DEF Procs
<1>1. m \in MeType /\ m.tid # Nil
  BY Basics, ConstantsAssumption DEF MeType, Copies, VersionMax
<1> HIDE DEF m
<1>2. /\ me' = [me EXCEPT ![p] = m]
      /\ UNCHANGED <<disk, scanLock, srch, nb, upd, walk, vac, failed, cancels>>
  BY DEF BeginInsert, m
<1>3. heap' \in [Tids -> {"free", "inserting", "live", "dead", "gone"}]
  BY DEF BeginInsert, TInv, TypeOK
<1>4. updLock' \in LockType
  BY <1>0 DEF BeginInsert, Share, LockType, TInv, TypeOK
<1>5. /\ ep' \in [Procs -> Copies] /\ pc' \in [Procs -> Labels]
      /\ \A q \in Procs : q # p => pc'[q] = pc[q] /\ ep'[q] = ep[q]
      /\ pc'[p] \in {"wantEx", "entry"}
      /\ pc'[p] = "entry" => ep'[p].slot # Nil
  <2>1. CASE Promotes(l)
    <3>1. pc' = [pc EXCEPT ![p] = "wantEx"] /\ ep' = ep BY <2>1 DEF BeginInsert
    <3> QED BY <1>0, <3>1 DEF Labels, TInv, TypeOK
  <2>2. CASE ~Promotes(l)
    <3>1. /\ pc' = [pc EXCEPT ![p] = "entry"] /\ ep' = [ep EXCEPT ![p] = EntryPoint]
          /\ EntryPoint \in Copies /\ meta.entry # Nil
      BY <2>2, EntryPointType DEF BeginInsert, Promotes, TInv
    <3> QED BY <1>0, <3>1, EntryPointType DEF Labels, TInv, TypeOK
  <2> QED BY <2>1, <2>2
<1>6. TypeOK' BY <1>1, <1>2, <1>3, <1>4, <1>5 DEF TInv, TypeOK
<1>7. p # Vacuum BY ConstantsAssumption
<1>8. me'[p] = m /\ \A q \in Procs \ {p} : me'[q] = me[q] BY <1>0, <1>2 DEF TInv, TypeOK
<1>9. Defined'
  <2>1. ASSUME NEW q \in Procs PROVE Ready(q)'
    <3>1. Ready(q) BY DEF TInv, Defined
    <3>2. CASE q = p BY <1>1, <1>2, <1>5, <1>8, <3>1, <3>2 DEF Ready
    <3>3. CASE q # p BY <1>2, <1>5, <1>8, <3>1, <3>3 DEF Ready
    <3> QED BY <3>2, <3>3
  <2>2. pc'[Vacuum] = pc[Vacuum] BY <1>5, <1>7, Basics
  <2> QED BY <1>2, <2>1, <2>2 DEF TInv, Defined
<1> QED BY <1>6, <1>9 DEF TInv

\* An insert that may become the entry point reads it again
LEMMA T_LockForInsert ==
  ASSUME TInv, NEW p \in Inserters, LockForInsert(p) PROVE TInv'
<1>0. p \in Procs /\ p # Vacuum BY ConstantsAssumption DEF Procs
<1>1. updLock' \in LockType
  BY <1>0 DEF LockForInsert, Exclude, LockType, TInv, TypeOK
<1>2. TypeOK' BY <1>0, <1>1, EntryPointType DEF TInv, TypeOK, LockForInsert, Labels
<1>3. Defined'
  BY <1>0, EntryPointType, Basics DEF TInv, TypeOK, Defined, Ready, LockForInsert
<1> QED BY <1>2, <1>3 DEF TInv

\* FindDuplicateOnDisk gives up and GetInsertPage starts the walk
LEMMA T_GiveUpDuplicates ==
  ASSUME TInv, NEW p \in Inserters, GiveUpDuplicates(p) PROVE TInv'
<1>0. p \in Procs /\ p # Vacuum BY ConstantsAssumption DEF Procs
<1> DEFINE w == [from |-> meta.insertPage, cur |-> meta.insertPage, new |-> Nil]
<1>1. w \in WalkType /\ w.cur # Nil BY DEF WalkType, TInv, TypeOK, MetaType, Slots, Nil
<1>2. /\ srch' = [srch EXCEPT ![p] = NoSearch] /\ walk' = [walk EXCEPT ![p] = w]
      /\ pc' = [pc EXCEPT ![p] = "walk"] /\ pc[p] = "dup"
      /\ UNCHANGED <<disk, locks, heap, me, ep, nb, upd, vac, failed, cancels>>
  BY DEF GiveUpDuplicates
<1> HIDE DEF w
<1>3. TypeOK' BY <1>0, <1>1, <1>2, Basics DEF TInv, TypeOK, Labels
<1>4. Defined' BY <1>0, <1>1, <1>2 DEF TInv, TypeOK, Defined, Ready, NoSearch
<1> QED BY <1>3, <1>4 DEF TInv

\* AddDuplicateOnDisk adds a heap TID of the table
LEMMA T_AddDuplicate ==
  ASSUME TInv, NEW p \in Inserters, AddDuplicate(p) PROVE TInv'
<1>0. p \in Procs /\ p # Vacuum BY ConstantsAssumption DEF Procs
<1>1. PICK d \in Same(p) \ srch[p].w :
       IF DuplicateFull(d.slot)
         THEN /\ srch' = [srch EXCEPT ![p].w = @ \cup {d}]
              /\ UNCHANGED <<disk, locks, heap, pc, me, ep, nb, upd, walk, vac, failed, cancels>>
         ELSE /\ elem' = [elem EXCEPT ![d.slot].tids = @ \cup {me[p].tid}]
              /\ EndInsert(p)
              /\ UNCHANGED <<ntup, npages, meta>>
  BY DEF AddDuplicate
<1>2. d \in Copies /\ d.slot # Nil
  BY <1>0, Basics DEF Same, TInv, TypeOK, Defined, Ready
<1>3. CASE DuplicateFull(d.slot)
  <2>0. srch' = [srch EXCEPT ![p].w = @ \cup {d}] BY <1>1, <1>3
  <2>1. srch[p] \in SearchType BY <1>0 DEF TInv, TypeOK
  <2>2. /\ srch' \in [Procs -> SearchType]
        /\ srch'[p].w = srch[p].w \cup {d} /\ srch'[p].todo = srch[p].todo
        /\ \A q \in Procs \ {p} : srch'[q] = srch[q]
    BY <1>0, <1>2, <2>0, <2>1 DEF SearchType, TInv, TypeOK
  <2>3. TypeOK' BY <1>1, <1>3, <2>2 DEF TInv, TypeOK
  <2>4. Defined' BY <1>1, <1>2, <1>3, <2>2 DEF TInv, Defined, Ready
  <2> QED BY <2>3, <2>4 DEF TInv
<1>4. CASE ~DuplicateFull(d.slot)
  <2>1. me[p].tid \in Tids
    BY <1>0 DEF AddDuplicate, TInv, TypeOK, MeType, Defined, Ready
  <2>2. d.slot \in Slots /\ elem[d.slot] \in ElemType
    BY <1>2 DEF TInv, TypeOK, Copies
  <2>3. [elem[d.slot] EXCEPT !.tids = @ \cup {me[p].tid}] \in ElemType
    BY <2>1, <2>2 DEF ElemType
  <2>4. elem' \in [Slots -> ElemType]
    BY <1>1, <1>4, <2>2, <2>3 DEF TInv, TypeOK
  <2> QED BY <1>1, <1>4, <2>4, T_EndInsert DEF TInv, TypeOK, Defined
<1> QED BY <1>3, <1>4

\* The neighbors an element was given become updates of their tuples
LEMMA ChosenType ==
  ASSUME TInv, NEW p \in Procs
  PROVE  /\ Chosen(p) \subseteq Wanted
         /\ \A x \in Chosen(p) : x.elt.slot # Nil
BY DEF Chosen, Wanted, TInv, TypeOK, Defined, Ready

\* The lists an insert or a repair writes are neighbor lists
LEMMA ChosenListType ==
  ASSUME TInv, NEW p \in Procs
  PROVE  [lc \in Levels |-> ListOf({x.slot : x \in nb[p][lc]})] \in [Levels -> Lists]
<1>1. ASSUME NEW lc \in Levels PROVE {x.slot : x \in nb[p][lc]} \in SUBSET (Slots \cup {Nil})
  BY DEF TInv, TypeOK, Copies
<1> QED BY <1>1, ListOfType

\* AddElementOnDisk writes well-formed tuples
LEMMA T_PutElement ==
  ASSUME TInv, NEW p \in Inserters, pc[p] # "idle", NEW s \in Slots,
         NEW v \in 0..VersionMax, NEW r \in Levels, PutElement(p, s, v, r),
         npages' \in 0..NSlots, walk' \in [Procs -> WalkType],
         walk'[p].new # Nil, \A q \in Procs \ {p} : walk'[q] = walk[q],
         pc' = [pc EXCEPT ![p] = "setPage"],
         UNCHANGED <<meta, locks, heap, ep, srch, nb, vac, failed, cancels>>
  PROVE  TInv'
<1>0. p \in Procs /\ p # Vacuum BY ConstantsAssumption DEF Procs
<1>1. me[p] \in MeType /\ me[p].tid \in Tids
  BY <1>0 DEF TInv, TypeOK, MeType, Defined, Ready
<1>2. elem' \in [Slots -> ElemType]
  BY <1>1 DEF PutElement, ElemType, MeType, Copies, TInv, TypeOK
<1>3. ntup' \in [Slots -> NtupType]
  <2> DEFINE L == [lc \in Levels |-> ListOf({x.slot : x \in nb[p][lc]})]
  <2>1. L \in [Levels -> Lists] BY <1>0, ChosenListType
  <2>2. ntup' = [ntup EXCEPT ![s] = [level |-> me[p].elt.level, room |-> r, version |-> v,
                                     nbrs |-> L]]
    BY DEF PutElement
  <2> HIDE DEF L
  <2> QED BY <1>1, <2>1, <2>2 DEF NtupType, MeType, Copies, TInv, TypeOK
<1>4. /\ me' \in [Procs -> MeType] /\ me'[p].tid = me[p].tid
      /\ \A q \in Procs \ {p} : me'[q] = me[q]
  BY <1>0, <1>1 DEF PutElement, MeType, Copies, TInv, TypeOK
<1>5. /\ upd' \in [Procs -> UpdateType] /\ upd'[p].todo = Chosen(p)
      /\ \A q \in Procs \ {p} : upd'[q] = upd[q]
  <2>1. upd[p] \in UpdateType BY <1>0 DEF TInv, TypeOK
  <2>2. upd' = [upd EXCEPT ![p].todo = Chosen(p)] BY DEF PutElement
  <2> QED BY <1>0, <2>1, <2>2, ChosenType DEF UpdateType, TInv, TypeOK
<1>6. TypeOK' BY <1>2, <1>3, <1>4, <1>5 DEF TInv, TypeOK, Labels
<1>7. Defined'
  BY <1>0, <1>4, <1>5, ChosenType DEF TInv, TypeOK, Defined, Ready
<1> QED BY <1>6, <1>7 DEF TInv

\* The new insert page is a page of the chain
LEMMA InsertPageAfterType ==
  ASSUME TypeOK, NEW p \in Procs, NEW s \in Slots
  PROVE  InsertPageAfter(p, s) \in Slots
BY DEF InsertPageAfter, TypeOK, WalkType

\* AddElementOnDisk in the place of a deleted element
LEMMA T_ReplaceDeleted ==
  ASSUME TInv, NEW p \in Inserters, ReplaceDeleted(p) PROVE TInv'
<1>0. p \in Procs BY DEF Procs
<1>1. walk[p] \in WalkType /\ walk[p].cur \in Slots
  BY <1>0 DEF ReplaceDeleted, TInv, TypeOK, WalkType, Defined, Ready
<1>2. /\ elem[walk[p].cur].version \in 0..VersionMax
      /\ ntup[walk[p].cur].room \in Levels
      /\ InsertPageAfter(p, walk[p].cur) \in Slots
  BY <1>0, <1>1, InsertPageAfterType DEF TInv, TypeOK, ElemType, NtupType
<1>3. /\ walk' \in [Procs -> WalkType] /\ walk'[p].new # Nil
      /\ \A q \in Procs \ {p} : walk'[q] = walk[q]
  <2> DEFINE n == InsertPageAfter(p, walk[p].cur)
  <2>1. walk' = [walk EXCEPT ![p].new = n] /\ n \in Slots /\ n # Nil
    BY <1>2 DEF ReplaceDeleted, Slots, Nil
  <2> HIDE DEF n
  <2> QED BY <1>0, <1>1, <2>1 DEF WalkType, TInv, TypeOK
<1> QED BY <1>1, <1>2, <1>3, T_PutElement DEF ReplaceDeleted, TInv, TypeOK

\* The walk goes on to a page of the chain
LEMMA T_NextPage ==
  ASSUME TInv, NEW p \in Inserters, NextPage(p) PROVE TInv'
<1>0. p \in Procs BY DEF Procs
<1>1. walk[p] \in WalkType /\ walk[p].cur \in Slots
  BY <1>0 DEF NextPage, TInv, TypeOK, WalkType, Defined, Ready
<1> DEFINE n == IF elem[walk[p].cur].deleted
                  THEN InsertPageAfter(p, walk[p].cur) ELSE walk[p].new
           c == walk[p].cur + 1
<1>2. n \in Slots \cup {Nil} BY <1>0, <1>1, InsertPageAfterType DEF WalkType, TInv
<1>3. c \in Slots /\ c # Nil BY <1>1, ConstantsAssumption DEF NextPage, Slots, Nil, TInv, TypeOK
<1>4. walk' = [walk EXCEPT ![p].cur = c, ![p].new = n] /\ pc[p] = "walk"
  BY DEF NextPage
<1> HIDE DEF n, c
<1>5. /\ walk' \in [Procs -> WalkType] /\ walk'[p].cur # Nil
      /\ \A q \in Procs \ {p} : walk'[q] = walk[q]
  BY <1>0, <1>1, <1>2, <1>3, <1>4 DEF WalkType, TInv, TypeOK
<1>6. UNCHANGED <<disk, locks, heap, pc, me, ep, srch, nb, upd, vac, failed, cancels>>
  BY DEF NextPage
<1>7. TypeOK' BY <1>5, <1>6 DEF TInv, TypeOK
<1>8. Defined' BY <1>4, <1>5, <1>6 DEF TInv, Defined, Ready
<1> QED BY <1>7, <1>8 DEF TInv

\* HnswInsertAppendPage stays within the pages of the index
LEMMA T_AppendPage ==
  ASSUME TInv, NEW p \in Inserters, AppendPage(p) PROVE TInv'
<1>0. p \in Procs BY DEF Procs
<1>1. walk[p] \in WalkType /\ walk[p].cur \in Slots
  BY <1>0 DEF AppendPage, TInv, TypeOK, WalkType, Defined, Ready
<1>2. npages + 1 \in Slots /\ npages' \in 0..NSlots /\ 1 \in 0..VersionMax
  BY ConstantsAssumption DEF AppendPage, Slots, TInv, TypeOK, VersionMax
<1>3. me[p].elt.level \in Levels BY <1>0 DEF TInv, TypeOK, MeType, Copies
<1> DEFINE n == InsertPageAfter(p, IF walk[p].cur <= npages /\ elem[walk[p].cur].deleted
                                     THEN walk[p].cur ELSE npages + 1)
<1>4. n \in Slots /\ n # Nil
  BY <1>0, <1>1, <1>2, InsertPageAfterType DEF TInv, Slots, Nil
<1>5. walk' = [walk EXCEPT ![p].new = n] BY DEF AppendPage
<1> HIDE DEF n
<1>6. /\ walk' \in [Procs -> WalkType] /\ walk'[p].new # Nil
      /\ \A q \in Procs \ {p} : walk'[q] = walk[q]
  BY <1>0, <1>1, <1>4, <1>5 DEF WalkType, TInv, TypeOK
<1> QED BY <1>2, <1>3, <1>6, T_PutElement DEF AppendPage

\* The insert page in the metapage is a page
LEMMA T_UpdateInsertPage ==
  ASSUME TInv, NEW p \in Inserters, UpdateInsertPage(p) PROVE TInv'
<1>0. p \in Procs /\ p # Vacuum BY ConstantsAssumption DEF Procs
<1>1. walk[p] \in WalkType /\ walk[p].new \in Slots
  BY <1>0 DEF UpdateInsertPage, TInv, TypeOK, WalkType, Defined, Ready
<1>2. meta' \in MetaType /\ meta'.entry = meta.entry /\ meta'.level = meta.level
  BY <1>1 DEF UpdateInsertPage, MetaType, TInv, TypeOK
<1>3. TypeOK' BY <1>0, <1>2, Basics DEF UpdateInsertPage, TInv, TypeOK, Labels
<1>4. Defined' BY <1>0, <1>2 DEF UpdateInsertPage, TInv, TypeOK, Defined, Ready
<1> QED BY <1>3, <1>4 DEF TInv

\* UpdateGraphOnDisk ends with a valid entry point
LEMMA T_FinishInsert ==
  ASSUME TInv, NEW p \in Inserters, FinishInsert(p) PROVE TInv'
<1>0. me[p].elt \in Copies BY DEF Procs, TInv, TypeOK, MeType
<1>1. \A m \in {meta, EntryGreater(me[p].elt)} :
        m \in MetaType /\ (m.entry # Nil => m.level # -1)
  <2>1. me[p].elt.level # -1 /\ meta \in MetaType
    BY <1>0, ConstantsAssumption DEF Copies, Levels, TInv, TypeOK
  <2>2. EntryGreater(me[p].elt) \in MetaType BY <1>0, EntryUpdateType DEF TInv
  <2>3. EntryGreater(me[p].elt).level \in {me[p].elt.level, meta.level}
    BY <2>1 DEF EntryGreater, MetaType
  <2>4. EntryGreater(me[p].elt).level = meta.level
           => EntryGreater(me[p].elt).entry = meta.entry \/ meta.level = me[p].elt.level
    BY <2>1 DEF EntryGreater, MetaType
  <2> QED BY <2>1, <2>2, <2>3, <2>4 DEF TInv, Defined
<1>2. meta' \in {meta, EntryGreater(me[p].elt)} BY DEF FinishInsert
<1> QED BY <1>1, <1>2, T_EndInsert DEF FinishInsert, TInv, TypeOK

\* GetUpdateIndex reads the list of a chosen neighbor
LEMMA T_ReadNeighborList ==
  ASSUME TInv, NEW p \in Procs, ReadNeighborList(p) PROVE TInv'
<1> DEFINE same(x) == ntup[x.elt.slot].version = x.elt.version
                      /\ ntup[x.elt.slot].level = x.elt.level
           full(x) == same(x) /\ Cardinality(ValidPrefix(ntup[x.elt.slot].nbrs[x.lc],
                                                LayerM(x.lc))) = LayerM(x.lc)
<1> HIDE DEF full
<1>1. PICK x \in upd[p].todo :
          /\ upd' = [upd EXCEPT ![p] =
               [todo |-> upd[p].todo \ {x}, cur |-> x,
                list |-> IF full(x) THEN ntup[x.elt.slot].nbrs[x.lc] ELSE NoNeighbors[0],
                pos |-> IF full(x) THEN 1 ELSE 0, idx |-> IF full(x) THEN 0 ELSE AnyFree]]
          /\ pc' = [pc EXCEPT ![p] = IF full(x) THEN "loadNbrs" ELSE "write"]
  BY DEF ReadNeighborList, full, TInv, TypeOK
<1>2. upd[p] \in UpdateType /\ x \in Wanted /\ x.elt.slot \in Slots
  BY DEF TInv, TypeOK, UpdateType, Wanted, Copies, Defined, Ready
<1>3. ntup[x.elt.slot].nbrs[x.lc] \in Lists /\ NoNeighbors[0] \in Lists /\ 1 \in Widest
  BY <1>2, Basics, NoNeighborsType, ConstantsAssumption
     DEF TInv, TypeOK, NtupType, Wanted, Widest
<1>4. upd'[p] \in UpdateType /\ upd'[p].todo = upd[p].todo \ {x}
  BY <1>1, <1>2, <1>3 DEF UpdateType, Nil, TInv, TypeOK
<1>5. UNCHANGED <<disk, locks, heap, me, ep, srch, nb, walk, vac, failed, cancels>>
  BY DEF ReadNeighborList
<1>6. TypeOK' BY <1>1, <1>4, <1>5 DEF TInv, TypeOK, Labels
<1>7. /\ pc'[p] \in {"loadNbrs", "write"}
      /\ \A q \in Procs \ {p} : pc'[q] = pc[q] /\ upd'[q] = upd[q]
  BY <1>1 DEF TInv, TypeOK
<1>8. Defined'
  <2>1. ASSUME NEW q \in Procs PROVE Ready(q)'
    <3>1. Ready(q) BY DEF TInv, Defined
    <3>2. p \in Inserters /\ q = p => me[p].tid # Nil BY <3>1 DEF Ready, ReadNeighborList
    <3>3. CASE q = p BY <1>4, <1>5, <1>7, <3>1, <3>2, <3>3 DEF Ready
    <3>4. CASE q # p BY <1>5, <1>7, <3>1, <3>4 DEF Ready
    <3> QED BY <3>3, <3>4
  <2>2. pc'[Vacuum] = "hpLock" => pc[Vacuum] = "hpLock" BY <1>7, Basics
  <2> QED BY <1>5, <2>1, <2>2 DEF TInv, Defined
<1> QED BY <1>6, <1>8 DEF TInv

\* LoadElementsForInsert and the choice of the index to replace
LEMMA T_LoadElementForInsert ==
  ASSUME TInv, NEW p \in Procs, LoadElementForInsert(p) PROVE TInv'
<1>0. upd[p] \in UpdateType /\ upd[p].cur.lc \in Levels
  BY DEF TInv, TypeOK, UpdateType, Wanted
<1> DEFINE lm == LayerM(upd[p].cur.lc)
<1>1. lm \in Nat /\ 1..lm \subseteq Widest
  BY ConstantsAssumption DEF LayerM, Widest
<1>2. CASE Fail(p) BY <1>2, T_Fail
<1>3. CASE ~Fail(p)
  <2>1. /\ pc[p] = "loadNbrs"
        /\ UNCHANGED <<disk, locks, heap, me, ep, srch, nb, walk, vac, failed, cancels>>
    BY <1>3 DEF LoadElementForInsert
  <2>2. \/ upd' = [upd EXCEPT ![p].idx = upd[p].pos] /\ pc' = [pc EXCEPT ![p] = "write"]
        \/ upd[p].pos < lm /\ upd' = [upd EXCEPT ![p].pos = @ + 1] /\ pc' = pc
        \/ /\ \E i \in 1..lm : upd' = [upd EXCEPT ![p].idx = i]
           /\ pc' = [pc EXCEPT ![p] = "write"]
        \/ upd' = upd /\ pc' = [pc EXCEPT ![p] = "update"]
    BY <1>3 DEF LoadElementForInsert
  <2> HIDE DEF lm
  <2>3. /\ upd' \in [Procs -> UpdateType]
        /\ upd'[p].todo = upd[p].todo /\ \A q \in Procs \ {p} : upd'[q] = upd[q]
    <3>1. upd \in [Procs -> UpdateType] BY DEF TInv, TypeOK
    <3>2. CASE upd' = [upd EXCEPT ![p].idx = upd[p].pos]
      BY <1>0, <3>1, <3>2 DEF UpdateType
    <3>3. CASE upd[p].pos < lm /\ upd' = [upd EXCEPT ![p].pos = @ + 1]
      <4>1. upd[p].pos + 1 \in Widest
        BY <1>0, <1>1, <3>3 DEF UpdateType, Nil, Widest
      <4> QED BY <1>0, <3>1, <3>3, <4>1 DEF UpdateType
    <3>4. CASE \E i \in 1..lm : upd' = [upd EXCEPT ![p].idx = i]
      BY <1>0, <1>1, <3>1, <3>4 DEF UpdateType
    <3> QED BY <2>2, <3>1, <3>2, <3>3, <3>4
  <2>4. /\ pc' \in [Procs -> Labels] /\ pc'[p] \in {"loadNbrs", "write", "update"}
        /\ \A q \in Procs \ {p} : pc'[q] = pc[q]
    BY <2>1, <2>2 DEF TInv, TypeOK, Labels
  <2>5. TypeOK' BY <2>1, <2>3, <2>4 DEF TInv, TypeOK
  <2>6. Defined' BY <2>1, <2>3, <2>4, Basics DEF TInv, Defined, Ready
  <2> QED BY <2>5, <2>6 DEF TInv
<1> QED BY <1>2, <1>3

\* UpdateNeighborOnDisk stores a valid TID
LEMMA T_UpdateNeighbor ==
  ASSUME TInv, NEW p \in Procs, UpdateNeighbor(p) PROVE TInv'
<1>0. upd[p] \in UpdateType /\ me[p].elt.slot \in Slots \cup {Nil}
  BY DEF TInv, TypeOK, MeType, Copies
<1>1. ntup' \in [Slots -> NtupType]
  <2> DEFINE x == upd[p].cur
             i == UpdateIndex(p)
  <2>1. \/ ntup' = ntup
        \/ ntup' = [ntup EXCEPT ![x.elt.slot].nbrs[x.lc][i] = me[p].elt.slot]
    BY DEF UpdateNeighbor
  <2> HIDE DEF x, i
  <2>2. CASE ntup' = [ntup EXCEPT ![x.elt.slot].nbrs[x.lc][i] = me[p].elt.slot]
    <3>1. ntup \in [Slots -> NtupType] BY DEF TInv, TypeOK
    <3>2. ASSUME NEW L \in [Levels -> Lists]
          PROVE  [L EXCEPT ![x.lc][i] = me[p].elt.slot] \in [Levels -> Lists]
      BY <1>0 DEF Lists
    <3>3. ASSUME NEW t \in NtupType
          PROVE  [t EXCEPT !.nbrs[x.lc][i] = me[p].elt.slot] \in NtupType
      <4>1. t.nbrs \in [Levels -> Lists] BY DEF NtupType
      <4> DEFINE L == [t.nbrs EXCEPT ![x.lc][i] = me[p].elt.slot]
      <4>2. L \in [Levels -> Lists] BY <3>2, <4>1
      <4> HIDE DEF L
      <4>3. [t EXCEPT !.nbrs = L] \in NtupType BY <4>2 DEF NtupType
      <4> QED BY <4>3 DEF L
    <3> QED BY <2>2, <3>1, <3>3
  <2> QED BY <2>1, <2>2 DEF TInv, TypeOK
<1>2. [NoUpdate EXCEPT !.todo = upd[p].todo] \in UpdateType
      /\ [NoUpdate EXCEPT !.todo = upd[p].todo].todo = upd[p].todo
  BY <1>0, NoNeighborsType DEF UpdateType
<1>3. TypeOK' BY <1>1, <1>2 DEF TInv, TypeOK, UpdateNeighbor, Labels
<1>4. /\ pc'[p] = "update" /\ \A q \in Procs \ {p} : pc'[q] = pc[q] /\ upd'[q] = upd[q]
      /\ upd'[p].todo = upd[p].todo
  BY <1>2 DEF TInv, TypeOK, UpdateNeighbor
<1>5. UNCHANGED <<meta, me, ep, srch, nb, walk, vac>> BY DEF UpdateNeighbor
<1>6. Defined'
  <2>1. ASSUME NEW q \in Procs PROVE Ready(q)'
    <3>1. Ready(q) BY DEF TInv, Defined
    <3>2. p \in Inserters /\ q = p => me[p].tid # Nil BY <3>1 DEF Ready, UpdateNeighbor
    <3>3. CASE q = p BY <1>4, <1>5, <3>1, <3>2, <3>3 DEF Ready
    <3>4. CASE q # p BY <1>4, <1>5, <3>1, <3>4 DEF Ready
    <3> QED BY <3>3, <3>4
  <2>2. pc'[Vacuum] = "hpLock" => pc[Vacuum] = "hpLock" BY <1>4, Basics
  <2> QED BY <1>5, <2>1, <2>2 DEF TInv, Defined
<1> QED BY <1>3, <1>6 DEF TInv

\* The next page of a pass of VACUUM is a page or none
LEMMA NextPosType ==
  ASSUME TypeOK PROVE NextPos \in Slots \cup {Nil}
BY ConstantsAssumption DEF NextPos, TypeOK, VacType, Slots, Nil

\* VACUUM begins with the dead TIDs and the first page
LEMMA T_BeginVacuum ==
  ASSUME TInv, BeginVacuum PROVE TInv'
<1>1. vac' \in VacType
  <2>1. /\ vac \in VacType /\ meta.entry \in Slots \cup {Nil}
        /\ {t \in Tids : heap[t] = "dead"} \in SUBSET Tids
    BY DEF TInv, TypeOK, MetaType
  <2>2. vac.runs + 1 \in 0..MaxVacuums
    BY <2>1, ConstantsAssumption DEF BeginVacuum, VacType
  <2> DEFINE d == {t \in Tids : heap[t] = "dead"}
  <2>3. vac' = [vac EXCEPT !.dead = d, !.deleted = {}, !.pos = 1, !.highest = NoElement,
                  !.first = meta.entry, !.insertPage = Nil, !.runs = @ + 1]
    BY DEF BeginVacuum
  <2> HIDE DEF d
  <2> QED BY <2>1, <2>2, <2>3, Basics DEF VacType, d
<1>2. TypeOK' BY <1>1 DEF BeginVacuum, TInv, TypeOK, Labels
<1>3. Defined'
  BY Basics, ConstantsAssumption DEF BeginVacuum, TInv, TypeOK, Defined, Ready
<1> QED BY <1>2, <1>3 DEF TInv

\* Pass 1 empties elements and remembers the highest one left
LEMMA T_RemoveHeapTids ==
  ASSUME TInv, RemoveHeapTids PROVE TInv'
<1>0. vac \in VacType /\ vac.pos \in Slots
  BY DEF RemoveHeapTids, TInv, TypeOK, VacType
<1> DEFINE left == elem[vac.pos].tids \ vac.dead
           h == [Load(vac.pos) EXCEPT !.live = TRUE]
<1>1. elem[vac.pos] \in ElemType /\ left \subseteq Tids /\ h \in Copies
  <2>1. elem[vac.pos] \in ElemType BY <1>0 DEF TInv, TypeOK
  <2>2. Load(vac.pos) \in Copies BY <1>0, LoadType DEF TInv
  <2>3. h \in Copies BY <2>2 DEF Copies
  <2> QED BY <2>1, <2>3 DEF ElemType
<1>2. elem' \in [Slots -> ElemType]
  <2>1. elem' = elem \/ elem' = [elem EXCEPT ![vac.pos].tids = left] BY DEF RemoveHeapTids
  <2>2. [elem[vac.pos] EXCEPT !.tids = left] \in ElemType BY <1>1 DEF ElemType
  <2> QED BY <1>0, <2>1, <2>2 DEF TInv, TypeOK
<1>3. vac' \in VacType
  <2>1. CASE vac.pos > npages
    BY <1>0, <2>1 DEF RemoveHeapTids, VacType
  <2>2. CASE ~(vac.pos > npages)
    <3>1. /\ vac'.pos = NextPos /\ vac'.deleted \in {vac.deleted, vac.deleted \cup {vac.pos}}
          /\ vac'.highest \in {vac.highest, h}
          /\ vac' = [vac EXCEPT !.pos = vac'.pos, !.deleted = vac'.deleted, !.highest = vac'.highest]
      BY <1>0, <2>2 DEF RemoveHeapTids, VacType
    <3> HIDE DEF h
    <3> QED BY <1>0, <1>1, <3>1, NextPosType DEF VacType, TInv
  <2> QED BY <2>1, <2>2
<1>4. UNCHANGED <<ntup, npages, meta, locks, heap, pc, me, ep, srch, nb, upd, walk, failed, cancels>>
      /\ pc[Vacuum] = "remove"
  BY DEF RemoveHeapTids
<1>5. TypeOK' BY <1>2, <1>3, <1>4 DEF TInv, TypeOK
<1>6. Defined' BY <1>4 DEF TInv, Defined, Ready
<1> QED BY <1>5, <1>6 DEF TInv

\* The waits and checks of VACUUM that only move it on
LEMMA T_Wait ==
  ASSUME TInv, NEW l \in Labels \ {"entry", "walk", "setPage"},
         pc' = [pc EXCEPT ![Vacuum] = l], l = "hpLock" => vac'.highest.slot # Nil,
         vac' \in VacType, meta' \in MetaType, meta'.entry # Nil => meta'.level # -1,
         updLock' \in LockType,
         UNCHANGED <<elem, ntup, npages, scanLock, heap, ep, srch, nb, upd, walk, failed, cancels>>,
         me' \in [Procs -> MeType], \A q \in Inserters : me'[q] = me[q]
  PROVE  TInv'
<1>1. TypeOK' BY DEF TInv, TypeOK
<1>2. Vacuum \in Procs /\ Vacuum \notin Inserters BY Basics, ConstantsAssumption
<1>3. Defined' BY <1>2 DEF TInv, TypeOK, Defined, Ready
<1> QED BY <1>1, <1>3 DEF TInv

\* Pass 2 begins with the highest element, if there is one
LEMMA T_WaitForInserts ==
  ASSUME TInv, WaitForInserts PROVE TInv'
<1>1. CASE vac.highest.slot # Nil
  BY <1>1, T_Wait DEF WaitForInserts, TInv, TypeOK, Defined, Labels
<1>2. CASE vac.highest.slot = Nil
  BY <1>2, T_Wait DEF WaitForInserts, TInv, TypeOK, Defined, Labels
<1> QED BY <1>1, <1>2

\* RepairGraphEntryPoint loads the highest element
LEMMA T_LockHighest ==
  ASSUME TInv, LockHighest PROVE TInv'
<1>1. vac.highest.slot \in Slots
  BY DEF LockHighest, TInv, TypeOK, Defined, VacType, Copies
<1>2. vac' \in VacType BY <1>1, LoadType DEF LockHighest, TInv, TypeOK, VacType
<1>3. updLock' \in LockType BY Basics DEF LockHighest, Share, LockType, TInv, TypeOK
<1> QED BY <1>2, <1>3, T_Wait DEF LockHighest, TInv, TypeOK, Defined, Labels

\* RepairGraphElement starts with an element and an entry point to search from
LEMMA T_StartRepair ==
  ASSUME TInv, NEW e \in Copies, NEW en \in Copies, StartRepair(e, en),
         updLock' \in LockType, vac' \in VacType,
         UNCHANGED <<disk, scanLock, heap, srch, upd, walk, failed, cancels>>
  PROVE  TInv'
<1>1. Vacuum \in Procs /\ Vacuum \notin Inserters BY Basics, ConstantsAssumption
<1>2. [e EXCEPT !.live = FALSE] \in Copies BY DEF Copies
<1>3. me' \in [Procs -> MeType] /\ \A q \in Inserters : me'[q] = me[q]
  BY <1>1, <1>2 DEF StartRepair, TInv, TypeOK, MeType, Procs
<1>4. /\ pc' \in [Procs -> Labels] /\ \A q \in Procs \ {Vacuum} : pc'[q] = pc[q]
      /\ pc'[Vacuum] \in {"repaired", "overwrite", "entry"}
      /\ pc'[Vacuum] = "entry" => en.slot # Nil
  BY <1>1 DEF StartRepair, TInv, TypeOK, Labels
<1>5. /\ ep' = [ep EXCEPT ![Vacuum] = en]
      /\ nb' = [nb EXCEPT ![Vacuum] = [lc \in Levels |-> {}]]
  BY DEF StartRepair
<1>6. TypeOK' BY <1>1, <1>3, <1>4, <1>5 DEF TInv, TypeOK
<1>7. Defined' BY <1>1, <1>3, <1>4, <1>5 DEF TInv, TypeOK, Defined, Ready
<1> QED BY <1>6, <1>7 DEF TInv

\* ... and repairs it if it needs an update
LEMMA T_CheckHighest ==
  ASSUME TInv, CheckHighest PROVE TInv'
<1>1. vac.highest \in Copies BY DEF TInv, TypeOK, VacType
<1>2. CASE NeedsUpdated(vac.highest)
  BY <1>1, <1>2, T_StartRepair, EntryPointType DEF CheckHighest, TInv, TypeOK
<1>3. CASE ~NeedsUpdated(vac.highest)
  BY <1>3, T_Wait DEF CheckHighest, TInv, TypeOK, Defined, Labels
<1> QED BY <1>2, <1>3

\* The entry point is replaced by the highest element or repaired
LEMMA T_LockEntryPoint ==
  ASSUME TInv, LockEntryPoint PROVE TInv'
<1>1. vac' \in VacType /\ vac.highest \in Copies BY DEF LockEntryPoint, TInv, TypeOK, VacType
<1>2. updLock' \in LockType BY Basics DEF LockEntryPoint, Exclude, LockType, TInv, TypeOK
<1>3. CASE meta.entry = Nil \/ EntryBeingDeleted
  <2>1. meta' \in MetaType /\ (meta'.entry # Nil => meta'.level # -1)
    <3>1. CASE meta.entry = Nil BY <1>3, <3>1 DEF LockEntryPoint, TInv, TypeOK, Defined
    <3>2. CASE meta.entry # Nil
      <4>1. meta' = EntryAlways(vac.highest) BY <1>3, <3>2 DEF LockEntryPoint
      <4>2. meta \in MetaType /\ vac.highest.level # -1
        BY <1>1, ConstantsAssumption DEF TInv, TypeOK, Copies, Levels
      <4> QED BY <1>1, <4>1, <4>2, EntryUpdateType DEF EntryAlways, MetaType, TInv
    <3> QED BY <3>1, <3>2
  <2> QED BY <1>1, <1>2, <1>3, <2>1, T_Wait DEF LockEntryPoint, TInv, TypeOK, Labels
<1>4. CASE ~(meta.entry = Nil \/ EntryBeingDeleted)
  <2>1. Load(meta.entry) \in Copies BY <1>4, LoadType DEF TInv, TypeOK, MetaType
  <2>2. CASE NeedsUpdated(Load(meta.entry))
    BY <1>1, <1>2, <1>4, <2>1, <2>2, T_StartRepair DEF LockEntryPoint
  <2>3. CASE ~NeedsUpdated(Load(meta.entry))
    BY <1>1, <1>2, <1>4, <2>3, T_Wait DEF LockEntryPoint, TInv, TypeOK, Defined, Labels
  <2> QED BY <2>2, <2>3
<1> QED BY <1>3, <1>4

\* RepairGraph loads the elements of a page
LEMMA T_LoadForRepair ==
  ASSUME TInv, LoadForRepair PROVE TInv'
<1>1. vac \in VacType /\ vac.pos \in Slots BY DEF LoadForRepair, TInv, TypeOK, VacType
<1>2. vac' \in VacType BY <1>1, NextPosType DEF LoadForRepair, TInv, VacType
<1>3. me' \in [Procs -> MeType] /\ \A q \in Inserters : me'[q] = me[q]
  <2>1. Load(vac.pos) \in Copies BY <1>1, LoadType DEF TInv
  <2>2. me[Vacuum] \in MeType /\ Vacuum \in Procs /\ Vacuum \notin Inserters
    BY Basics, ConstantsAssumption DEF TInv, TypeOK
  <2>3. me' = me \/ me' = [me EXCEPT ![Vacuum].elt = Load(vac.pos)] BY DEF LoadForRepair
  <2> QED BY <2>1, <2>2, <2>3 DEF MeType, TInv, TypeOK, Procs
<1>4. CASE vac.pos <= npages /\ elem[vac.pos].tids # {}
  BY <1>2, <1>3, <1>4, T_Wait DEF LoadForRepair, TInv, TypeOK, Defined, Labels
<1>5. CASE ~(vac.pos <= npages /\ elem[vac.pos].tids # {})
  <2>1. UNCHANGED <<disk, locks, heap, me, pc, ep, srch, nb, upd, walk, failed, cancels>>
        /\ pc[Vacuum] = "loop"
    BY <1>5 DEF LoadForRepair
  <2>2. TypeOK' BY <1>2, <2>1 DEF TInv, TypeOK
  <2>3. Defined' BY <2>1 DEF TInv, Defined, Ready
  <2> QED BY <2>2, <2>3 DEF TInv
<1> QED BY <1>4, <1>5

\* ... and checks whether one needs an update
LEMMA T_CheckElement ==
  ASSUME TInv, CheckElement PROVE TInv'
<1>1. CASE NeedsUpdated(me[Vacuum].elt)
  BY <1>1, T_Wait DEF CheckElement, TInv, TypeOK, Defined, Labels
<1>2. CASE ~NeedsUpdated(me[Vacuum].elt)
  BY <1>2, T_Wait DEF CheckElement, TInv, TypeOK, Defined, Labels
<1> QED BY <1>1, <1>2

\* RepairGraph takes the shared lock and reads the entry point
LEMMA T_LockForRepair ==
  ASSUME TInv, LockForRepair PROVE TInv'
<1>1. Share(updLock, Vacuum) \in LockType BY Basics DEF Share, LockType, TInv, TypeOK
<1>2. me[Vacuum].elt \in Copies BY Basics DEF TInv, TypeOK, MeType
<1>3. CASE Promotes(me[Vacuum].elt.level)
  BY <1>3, T_Wait DEF LockForRepair, TInv, TypeOK, Defined, Labels
<1>4. CASE ~Promotes(me[Vacuum].elt.level)
  BY <1>1, <1>2, <1>4, T_StartRepair, EntryPointType DEF LockForRepair, TInv, TypeOK
<1> QED BY <1>3, <1>4

\* RepairGraph takes the exclusive lock and reads the entry point again
LEMMA T_LockExclusiveForRepair ==
  ASSUME TInv, LockExclusiveForRepair PROVE TInv'
<1>1. Exclude(updLock, Vacuum) \in LockType BY Basics DEF Exclude, LockType, TInv, TypeOK
<1>2. me[Vacuum].elt \in Copies BY Basics DEF TInv, TypeOK, MeType
<1> QED
  BY <1>1, <1>2, T_StartRepair, EntryPointType DEF LockExclusiveForRepair, TInv, TypeOK

\* RepairGraphElement writes well-formed lists
LEMMA T_OverwriteNeighbors ==
  ASSUME TInv, OverwriteNeighbors PROVE TInv'
<1>0. Vacuum \in Procs /\ Vacuum \notin Inserters BY Basics, ConstantsAssumption
<1>1. me[Vacuum].elt \in Copies BY <1>0 DEF TInv, TypeOK, MeType
<1>2. ntup' \in [Slots -> NtupType]
  <2> DEFINE e == me[Vacuum].elt
             L == [lc \in Levels |-> ListOf({x.slot : x \in nb[Vacuum][lc]})]
             t == [level |-> e.level, room |-> ntup[e.slot].room, version |-> e.version, nbrs |-> L]
  <2>1. L \in [Levels -> Lists] BY <1>0, ChosenListType
  <2>2. ntup' = [ntup EXCEPT ![e.slot] = t] BY DEF OverwriteNeighbors
  <2>3. CASE e.slot \in Slots
    <3> HIDE DEF L
    <3>1. ntup[e.slot] \in NtupType BY <2>3 DEF TInv, TypeOK
    <3>2. t \in NtupType BY <1>1, <2>1, <3>1 DEF NtupType, Copies
    <3> QED BY <2>2, <3>2 DEF TInv, TypeOK
  <2>4. CASE e.slot \notin Slots BY <2>2, <2>4 DEF TInv, TypeOK
  <2> QED BY <2>3, <2>4
<1>3. /\ upd' \in [Procs -> UpdateType] /\ upd'[Vacuum].todo = Chosen(Vacuum)
      /\ \A q \in Procs \ {Vacuum} : upd'[q] = upd[q]
  <2>1. upd[Vacuum] \in UpdateType BY <1>0 DEF TInv, TypeOK
  <2>2. upd' = [upd EXCEPT ![Vacuum].todo = Chosen(Vacuum)] BY DEF OverwriteNeighbors
  <2> QED BY <1>0, <2>1, <2>2, ChosenType DEF UpdateType, TInv, TypeOK
<1>4. TypeOK' BY <1>2, <1>3 DEF OverwriteNeighbors, TInv, TypeOK, Labels
<1>5. Defined'
  BY <1>0, <1>3, ChosenType DEF OverwriteNeighbors, TInv, TypeOK, Defined, Ready
<1> QED BY <1>4, <1>5 DEF TInv

\* The neighbors of a repaired element have been updated
LEMMA T_NeighborsRepaired ==
  ASSUME TInv, NeighborsRepaired PROVE TInv'
BY T_Wait DEF NeighborsRepaired, TInv, TypeOK, Defined, Labels

\* HNSW_UPDATE_ENTRY_GREATER never stores an entry point without a level
LEMMA EntryGreaterDefined ==
  ASSUME TInv, NEW e \in Copies
  PROVE  \A m \in {meta, EntryGreater(e)} :
           m \in MetaType /\ (m.entry # Nil => m.level # -1)
<1>1. e.level # -1 /\ meta \in MetaType
  BY ConstantsAssumption DEF Copies, Levels, TInv, TypeOK
<1>2. EntryGreater(e) \in MetaType BY EntryUpdateType DEF TInv
<1>3. EntryGreater(e).level = e.level \/ EntryGreater(e) = meta
  BY <1>1 DEF EntryGreater, MetaType
<1> QED BY <1>1, <1>2, <1>3 DEF TInv, Defined

\* The end of a repair
LEMMA T_FinishRepair ==
  ASSUME TInv, FinishRepair PROVE TInv'
<1>0. Vacuum \in Procs /\ Vacuum \notin Inserters BY Basics, ConstantsAssumption
<1>1. me[Vacuum].elt \in Copies BY <1>0 DEF TInv, TypeOK, MeType
<1>2. meta' \in MetaType /\ (meta'.entry # Nil => meta'.level # -1)
  <2>1. meta' \in {meta, EntryGreater(me[Vacuum].elt)} BY DEF FinishRepair
  <2> QED BY <1>1, <2>1, EntryGreaterDefined
<1>3. vac' \in VacType BY Basics DEF FinishRepair, TInv, TypeOK, VacType
<1>4. Reset(Vacuum) BY DEF FinishRepair
<1>5. TypeOK'
  BY <1>0, <1>2, <1>3, <1>4, ResetType, DropType DEF FinishRepair, TInv, TypeOK, Labels
<1>6. Defined'
  BY <1>0, <1>2, <1>4 DEF FinishRepair, TInv, TypeOK, Defined, Ready, Reset, NoSearch, NoUpdate
<1> QED BY <1>5, <1>6 DEF TInv

\* Pass 3 begins at the first page
LEMMA T_WaitForScans ==
  ASSUME TInv, WaitForScans PROVE TInv'
<1>1. vac' \in VacType BY Basics DEF WaitForScans, TInv, TypeOK, VacType
<1> QED BY <1>1, T_Wait DEF WaitForScans, TInv, TypeOK, Defined, Labels

\* Pass 3 keeps versions below 16
LEMMA T_MarkDeleted ==
  ASSUME TInv, MarkDeleted PROVE TInv'
<1>0. vac \in VacType /\ vac.pos \in Slots BY DEF MarkDeleted, TInv, TypeOK, VacType
<1> DEFINE s == vac.pos
           v == NextVersion(elem[s].version)
<1>1. elem[s] \in ElemType /\ ntup[s] \in NtupType /\ v \in 0..VersionMax
  BY <1>0 DEF TInv, TypeOK, ElemType, NextVersion, VersionMax
<1>2. elem' = elem \/ elem' = [elem EXCEPT ![s].deleted = TRUE, ![s].version = v]
  BY DEF MarkDeleted
<1>3. ntup' = ntup \/ ntup' = [ntup EXCEPT ![s].nbrs = NoNeighbors, ![s].version = v]
  BY DEF MarkDeleted
<1>4. vac' \in VacType BY <1>0, NextPosType DEF MarkDeleted, VacType, TInv
<1> HIDE DEF s, v
<1>5. elem' \in [Slots -> ElemType]
  <2>1. [[elem[s] EXCEPT !.deleted = TRUE] EXCEPT !.version = v] \in ElemType
    BY <1>1 DEF ElemType
  <2> QED BY <1>2, <2>1 DEF TInv, TypeOK
<1>6. ntup' \in [Slots -> NtupType]
  <2>1. [[ntup[s] EXCEPT !.nbrs = NoNeighbors] EXCEPT !.version = v] \in NtupType
    BY <1>1, NoNeighborsType DEF NtupType
  <2> QED BY <1>3, <2>1 DEF TInv, TypeOK
<1>7. UNCHANGED <<npages, meta, locks, heap, pc, me, ep, srch, nb, upd, walk, failed, cancels>>
      /\ pc[Vacuum] = "mark"
  BY DEF MarkDeleted
<1>8. TypeOK' BY <1>4, <1>5, <1>6, <1>7 DEF TInv, TypeOK
<1>9. Defined' BY <1>7 DEF TInv, Defined, Ready
<1> QED BY <1>8, <1>9 DEF TInv

\* VACUUM ends with a valid insert page
LEMMA T_EndVacuum ==
  ASSUME TInv, EndVacuum PROVE TInv'
<1>0. vac \in VacType /\ meta \in MetaType BY DEF TInv, TypeOK
<1>1. meta' \in MetaType /\ meta'.entry = meta.entry /\ meta'.level = meta.level
  BY <1>0 DEF EndVacuum, MetaType, VacType
<1>2. vac' \in VacType BY <1>0, Basics DEF EndVacuum, VacType
<1>3. heap' \in [Tids -> {"free", "inserting", "live", "dead", "gone"}]
  BY DEF EndVacuum, TInv, TypeOK
<1>4. TypeOK' BY <1>1, <1>2, <1>3 DEF EndVacuum, TInv, TypeOK, Labels
<1>5. Defined'
  BY <1>1, Basics, ConstantsAssumption DEF EndVacuum, TInv, TypeOK, Defined, Ready
<1> QED BY <1>4, <1>5 DEF TInv

\* A scan begins with the entry point
LEMMA T_BeginScan ==
  ASSUME TInv, NEW p \in Scanners, BeginScan(p) PROVE TInv'
<1>0. p \in Procs /\ p \notin Inserters /\ p # Vacuum BY ConstantsAssumption DEF Procs
<1>1. scanLock' \in LockType BY <1>0 DEF BeginScan, Share, LockType, TInv, TypeOK
<1>2. TypeOK' BY <1>0, <1>1, EntryPointType DEF BeginScan, TInv, TypeOK, Labels
<1>3. Defined'
  BY <1>0, EntryPointType, Basics DEF BeginScan, TInv, TypeOK, Defined, Ready
<1> QED BY <1>2, <1>3 DEF TInv

\* A scan ends and forgets its local state
LEMMA T_EndScan ==
  ASSUME TInv, NEW p \in Scanners, EndScan(p) PROVE TInv'
<1>0. p \in Procs /\ p \notin Inserters /\ p # Vacuum BY ConstantsAssumption DEF Procs
<1>1. Reset(p) BY DEF EndScan
<1>2. TypeOK' BY <1>0, <1>1, ResetType, DropType DEF EndScan, TInv, TypeOK, Labels
<1>3. Defined'
  BY <1>0, <1>1, Basics DEF EndScan, TInv, TypeOK, Defined, Ready, Reset, NoSearch, NoUpdate
<1> QED BY <1>2, <1>3 DEF TInv

\* A row dies in the heap only
LEMMA T_RowDies ==
  ASSUME TInv, NEW t \in Tids, RowDies(t) PROVE TInv'
<1>1. heap' \in [Tids -> {"free", "inserting", "live", "dead", "gone"}]
  BY DEF RowDies, TInv, TypeOK
<1>2. TypeOK' BY <1>1 DEF RowDies, TInv, TypeOK
<1>3. Defined' BY DEF RowDies, TInv, Defined, Ready
<1> QED BY <1>2, <1>3 DEF TInv

\* Every step of a search keeps the types
LEMMA T_SearchStep ==
  ASSUME TInv, NEW p \in Procs, SearchStep(p) PROVE TInv'
BY T_EntryCandidate, T_ExpandCandidate, T_LoadUnvisited, T_DescendLayer, T_FinishLayer
   DEF SearchStep

\* Every step of a neighbor update keeps the types
LEMMA T_UpdateStep ==
  ASSUME TInv, NEW p \in Procs, UpdateStep(p) PROVE TInv'
BY T_ReadNeighborList, T_LoadElementForInsert, T_UpdateNeighbor DEF UpdateStep

\* Every step keeps the types
LEMMA T_Next ==
  ASSUME TInv, [Next]_vars PROVE TInv'
<1>1. CASE UNCHANGED vars BY <1>1 DEF TInv, TypeOK, Defined, Ready, vars
<1>2. ASSUME NEW p \in Inserters, InsertStep(p) PROVE TInv'
  <2>1. p \in Procs BY DEF Procs
  <2> QED
    BY <1>2, <2>1, T_LockForInsert, T_SearchStep, T_GiveUpDuplicates, T_AddDuplicate,
       T_ReplaceDeleted, T_NextPage, T_AppendPage, T_UpdateInsertPage, T_UpdateStep,
       T_FinishInsert DEF InsertStep
<1>3. ASSUME NEW p \in Inserters, NEW t \in Tids, NEW l \in Levels, BeginInsert(p, t, l)
      PROVE  TInv'
  BY <1>3, T_BeginInsert
<1>4. CASE VacuumStep
  BY <1>4, Basics, T_RemoveHeapTids, T_WaitForInserts, T_LockHighest, T_CheckHighest,
     T_LockEntryPoint, T_LoadForRepair, T_CheckElement, T_LockForRepair,
     T_LockExclusiveForRepair, T_SearchStep, T_OverwriteNeighbors, T_UpdateStep,
     T_NeighborsRepaired, T_FinishRepair, T_WaitForScans, T_MarkDeleted, T_EndVacuum
     DEF VacuumStep
<1>5. CASE BeginVacuum BY <1>5, T_BeginVacuum
<1>6. ASSUME NEW p \in Scanners, ScanStep(p) \/ BeginScan(p) PROVE TInv'
  BY <1>6, T_SearchStep, T_EndScan, T_BeginScan DEF ScanStep, Procs
<1>7. ASSUME NEW t \in Tids, RowDies(t) PROVE TInv' BY <1>7, T_RowDies
<1>8. ASSUME NEW p \in Procs, Cancel(p) PROVE TInv' BY <1>8, T_Cancel
<1> QED BY <1>1, <1>2, <1>3, <1>4, <1>5, <1>6, <1>7, <1>8 DEF Next

-----------------------------------------------------------------------------
(* CREATE INDEX starts in such a state.                                    *)

\* Some built row is the first of the highest level
LEMMA BuiltEntryType ==
  ASSUME NBuilt # 0
  PROVE  BuiltEntry \in 1..NBuilt
<1>1. /\ NBuilt \in Nat /\ MaxLevel \in Nat
      /\ \A s \in 1..NBuilt : BuiltLevel[s] \in 0..MaxLevel
  BY ConstantsAssumption DEF NBuilt, Levels
<1> DEFINE D == {MaxLevel - BuiltLevel[s] : s \in 1..NBuilt}
<1>2. D \subseteq Nat /\ D # {} BY <1>1
<1>3. PICK d \in D : \A y \in D : d <= y BY ONLY <1>2, Least
<1>4. PICK a \in 1..NBuilt : d = MaxLevel - BuiltLevel[a] OBVIOUS
<1>5. ASSUME NEW t \in 1..NBuilt PROVE BuiltLevel[t] <= BuiltLevel[a]
  <2>1. d <= MaxLevel - BuiltLevel[t] BY <1>3
  <2> QED BY <1>1, <1>4, <2>1
<1> DEFINE F == {s \in 1..NBuilt : BuiltLevel[s] = BuiltLevel[a]}
<1>6. F \subseteq Nat /\ F # {} OBVIOUS
<1>7. PICK s \in F : \A y \in F : s <= y BY ONLY <1>6, Least
<1>8. /\ s \in 1..NBuilt
      /\ \A t \in 1..NBuilt : BuiltLevel[t] <= BuiltLevel[s]
  BY <1>5, <1>7
<1>9. \A t \in 1..(s - 1) : BuiltLevel[t] < BuiltLevel[s]
  <2> SUFFICES ASSUME NEW t \in 1..(s - 1) PROVE BuiltLevel[t] < BuiltLevel[s] OBVIOUS
  <2>1. t \in 1..NBuilt /\ t < s BY <1>1, <1>8
  <2>2. BuiltLevel[t] # BuiltLevel[s] BY <1>1, <1>7, <2>1
  <2> QED BY <1>1, <1>8, <2>1, <2>2
<1> QED BY <1>8, <1>9 DEF BuiltEntry

\* The index as CREATE INDEX leaves it has the right types
LEMMA T_Init == Init => TInv
<1> SUFFICES ASSUME Init PROVE TInv OBVIOUS
<1>0. /\ NBuilt \in Nat /\ NBuilt <= NSlots /\ NSlots \in Nat
      /\ \A s \in 1..NBuilt : BuiltTids[s] \in Tids /\ BuiltLevel[s] \in Levels
  BY ConstantsAssumption DEF NBuilt
<1>1. NullElem \in ElemType BY Basics DEF NullElem, ElemType, VersionMax
<1>2. NullNtup \in NtupType BY Basics, NoNeighborsType DEF NullNtup, NtupType, VersionMax
<1>3. elem \in [Slots -> ElemType]
  <2>1. ASSUME NEW s \in Slots, s <= NBuilt
        PROVE  [level |-> BuiltLevel[s], val |-> TidVal[BuiltTids[s]],
                tids |-> {BuiltTids[s]}, deleted |-> FALSE, version |-> 1] \in ElemType
    <3>1. BuiltTids[s] \in Tids /\ BuiltLevel[s] \in Levels BY <1>0, <2>1 DEF Slots
    <3> QED BY <3>1, Basics DEF ElemType, VersionMax
  <2> QED BY <1>1, <2>1 DEF Init
<1>4. ntup \in [Slots -> NtupType]
  <2>1. ASSUME NEW s \in Slots, s <= NBuilt
        PROVE  [level |-> BuiltLevel[s], room |-> BuiltLevel[s], version |-> 1,
                nbrs |-> BuiltNbrs(s)] \in NtupType
    <3>1. BuiltLevel[s] \in Levels BY <1>0, <2>1 DEF Slots
    <3>2. ASSUME NEW lc \in Levels
          PROVE  ListOf({t \in 1..NBuilt \ {s} : BuiltLevel[t] >= lc}) \in Lists
      BY <1>0, ListOfType DEF Slots
    <3>3. BuiltNbrs(s) \in [Levels -> Lists] BY <3>2, NoNeighborsType DEF BuiltNbrs
    <3> QED BY <3>1, <3>3 DEF NtupType, VersionMax
  <2> QED BY <1>2, <2>1 DEF Init
<1>5. meta \in MetaType /\ (meta.entry # Nil => meta.level # -1)
  <2>1. CASE NBuilt = 0 BY <2>1, Basics DEF Init, MetaType, Nil
  <2>2. CASE NBuilt # 0
    <3>1. BuiltEntry \in 1..NBuilt BY <2>2, BuiltEntryType
    <3>2. BuiltEntry \in Slots /\ NBuilt \in Slots /\ BuiltLevel[BuiltEntry] \in Levels
      BY <1>0, <2>2, <3>1 DEF Slots
    <3>3. BuiltLevel[BuiltEntry] # -1 BY <3>2, ConstantsAssumption DEF Levels
    <3> QED BY <2>2, <3>2, <3>3 DEF Init, MetaType
  <2> QED BY <2>1, <2>2
<1>6. updLock \in LockType /\ scanLock \in LockType BY DEF Init, LockType
<1>7. vac \in VacType
  <2>1. 0 \in 0..MaxVacuums BY ConstantsAssumption
  <2> QED BY <2>1, Basics DEF Init, VacType, Nil
<1>8. [elt |-> NoElement, tid |-> Nil] \in MeType BY Basics DEF MeType
<1>9. TypeOK
  <2>1. npages \in 0..NSlots /\ cancels \in 0..MaxCancels /\ failed \subseteq Procs
    BY <1>0, ConstantsAssumption DEF Init
  <2>2. /\ heap \in [Tids -> {"free", "inserting", "live", "dead", "gone"}]
        /\ pc \in [Procs -> Labels] /\ nb \in [Procs -> [Levels -> SUBSET Copies]]
    BY DEF Init, Labels
  <2>3. /\ me \in [Procs -> MeType] /\ ep \in [Procs -> Copies]
        /\ srch \in [Procs -> SearchType] /\ upd \in [Procs -> UpdateType]
        /\ walk \in [Procs -> WalkType]
    BY <1>8, Basics, NoNeighborsType DEF Init
  <2> QED BY <1>3, <1>4, <1>5, <1>6, <1>7, <2>1, <2>2, <2>3 DEF TypeOK
<1>10. Defined
  BY <1>5, Basics DEF Init, Defined, Ready, NoSearch, NoUpdate
<1> QED BY <1>9, <1>10 DEF TInv

\* Every variable keeps its type in every behaviour: no step of an insert, a
\* scan or VACUUM follows an invalid TID or stores one
THEOREM TypeCorrect == Spec => []TypeOK
<1>1. TInv => TypeOK BY DEF TInv
<1>2. Spec => []TInv BY T_Init, T_Next, PTL DEF Spec
<1> QED BY <1>1, <1>2, PTL

-----------------------------------------------------------------------------
(* Backends act on what the pages hold.                                    *)

Others(p) ==
  \A q \in Procs \ {p} :
    /\ pc'[q] = pc[q] /\ me'[q] = me[q] /\ ep'[q] = ep[q]
    /\ srch'[q] = srch[q] /\ nb'[q] = nb[q] /\ upd'[q] = upd[q]

\* What a backend remembers survives the step
Kept == \A x \in Copies : InChain(x.slot) /\ Current(x) => Current(x)'

\* A step of backend p keeps what it does not touch
LEMMA F_Step ==
  ASSUME TInv, Fresh, NEW p \in Procs, Others(p), Kept,
         npages' \in Nat, npages' >= npages,
         InChain(meta.entry)', InChain(vac.highest.slot)',
         \A s \in Slots, lc \in Levels, i \in Widest : InChain(ntup[s].nbrs[lc][i])',
         Paired', Locked', Repairing', TidRightValue',
         BoundedAt(p)',
         p \in Inserters \cup {Vacuum} => Holds(p)',
         p \in Inserters => (pc'[p] # "idle" => TidVal[me'[p].tid] = me'[p].elt.val),
         p \in Scanners => pc'[p] \in {"idle", "entry", "search"}
  PROVE  Fresh'
<1>1. npages \in Nat BY ConstantsAssumption DEF TInv, TypeOK
<1>2. ASSUME NEW q \in Procs \ {p} PROVE BoundedAt(q)'
  <2>1. BoundedAt(q) BY DEF Fresh, Bounded
  <2>2. /\ ep[q] \in Copies /\ me[q] \in MeType /\ srch[q] \in SearchType
        /\ nb[q] \in [Levels -> SUBSET Copies] /\ upd[q] \in UpdateType
    BY DEF TInv, TypeOK
  <2>3. \A x \in Copies : InChain(x.slot) => InChain(x.slot)'
    BY <1>1 DEF InChain, Copies, Slots, Nil
  <2>4. \A s \in Slots : InChain(s) => InChain(s)'
    BY <1>1 DEF InChain, Slots
  <2>5. /\ \A x \in srch[q].w : x \in Copies
        /\ \A x \in srch[q].todo : x \in Copies
        /\ \A s \in srch[q].pend : s \in Slots
        /\ \A y \in upd[q].todo : y.elt \in Copies
        /\ upd[q].cur.elt \in Copies /\ me[q].elt \in Copies
    BY <2>2 DEF SearchType, UpdateType, Wanted, MeType
  <2> QED BY <2>1, <2>2, <2>3, <2>4, <2>5 DEF Others, BoundedAt
<1>3. ASSUME NEW q \in (Inserters \cup {Vacuum}) \ {p} PROVE Holds(q)'
  <2>0. q \in Procs BY DEF Procs
  <2>1. Holds(q) /\ BoundedAt(q) BY <2>0 DEF Fresh, Bounded
  <2>2. /\ srch[q] \in SearchType
        /\ nb[q] \in [Levels -> SUBSET Copies] /\ upd[q] \in UpdateType
    BY <2>0 DEF TInv, TypeOK
  <2>3. /\ \A x \in srch[q].w : x \in Copies
        /\ \A y \in upd[q].todo : y.elt \in Copies
        /\ upd[q].cur.elt \in Copies
    BY <2>2 DEF SearchType, UpdateType, Wanted
  <2>4. /\ pc'[q] = pc[q] /\ srch'[q] = srch[q] /\ nb'[q] = nb[q] /\ upd'[q] = upd[q]
    BY <2>0 DEF Others
  <2>5. \A x \in srch[q].w : x.live => Current(x)'
    BY <2>1, <2>3 DEF Holds, BoundedAt, Kept
  <2>6. \A lc \in Levels : \A x \in nb[q][lc] : x.live /\ Current(x)'
    BY <2>1, <2>2 DEF Holds, BoundedAt, Kept
  <2>7. \A y \in upd[q].todo : y.elt.live /\ Current(y.elt)'
    BY <2>1, <2>3 DEF Holds, BoundedAt, Kept
  <2>8. \A x \in Copies : x = upd[q].cur.elt /\ x.live => Current(x)'
    BY <2>1, <2>3 DEF Holds, BoundedAt, Kept
  <2>9. (\A x \in srch[q].w : x.live => Current(x))'
    BY <2>4, <2>5 DEF Current
  <2>10. (\A lc \in Levels : \A x \in nb[q][lc] : x.live /\ Current(x))'
    BY <2>4, <2>6 DEF Current
  <2>11. (\A y \in upd[q].todo : y.elt.live /\ Current(y.elt))'
    BY <2>4, <2>7 DEF Current
  <2>12. (upd[q].cur.elt.live => Current(upd[q].cur.elt))'
    BY <2>3, <2>4, <2>8 DEF Current
  <2> QED BY <2>1, <2>4, <2>9, <2>10, <2>11, <2>12 DEF Holds
<1>4. Bounded' BY <1>2 DEF Bounded
<1>5. \A q \in Inserters : pc'[q] # "idle" => TidVal[me'[q].tid] = me'[q].elt.val
  BY DEF Fresh, Others, Procs
<1>6. \A q \in Scanners : pc'[q] \in {"idle", "entry", "search"}
  BY DEF Fresh, Others, Procs
<1> QED BY <1>3, <1>4, <1>5, <1>6 DEF Fresh

\* The lock table, for each way a step may use HNSW_UPDATE_LOCK
Outside(p) == pc[p] \in {"idle", "wantEx"}
\* A step that leaves the lock alone
LEMMA L_Same ==
  ASSUME Locked, updLock' = updLock,
         \A q \in Inserters : Outside(q) => Outside(q)'
  PROVE  Locked'
BY DEF Locked, Outside

\* A step that releases it
LEMMA L_Drop ==
  ASSUME Locked, NEW p, updLock' = Drop(updLock, p),
         \A q \in Inserters : q # p => pc'[q] = pc[q],
         p \in Inserters => Outside(p)'
  PROVE  Locked'
BY DEF Locked, Outside, Drop

\* A step that takes it, shared or exclusive
LEMMA L_Take ==
  ASSUME Locked, TypeOK, NEW p,
         \/ updLock' = Share(updLock, p) /\ CanShare(updLock)
         \/ updLock' = Exclude(updLock, p) /\ Free(updLock),
         \A q \in Inserters : q # p => pc'[q] = pc[q]
  PROVE  Locked'
<1>1. updLock \in LockType BY DEF TypeOK
<1>2. CASE updLock' = Share(updLock, p) /\ CanShare(updLock)
  <2>1. updLock'.ex = {} /\ updLock'.sh = updLock.sh \cup {p} /\ updLock.ex = {}
    BY <1>1, <1>2 DEF Share, CanShare, LockType
  <2> QED BY <2>1 DEF Locked
<1>3. CASE updLock' = Exclude(updLock, p) /\ Free(updLock)
  <2>1. updLock'.ex = {p} /\ updLock'.sh = {} /\ updLock.ex = {} /\ updLock.sh = {}
    BY <1>1, <1>3 DEF Exclude, Free, LockType
  <2> QED BY <2>1 DEF Locked
<1> QED BY <1>2, <1>3

\* A step that writes no element and no neighbor tuple
LEMMA F_Memory ==
  ASSUME TInv, Fresh, NEW p \in Procs, Others(p), UNCHANGED <<elem, ntup, npages>>,
         pc[Vacuum] \in {"idle", "remove"} => pc'[Vacuum] \in {"idle", "remove"},
         InChain(meta.entry)', InChain(vac.highest.slot)',
         Locked', Repairing', BoundedAt(p)',
         p \in Inserters \cup {Vacuum} => Holds(p)',
         p \in Inserters => (pc'[p] # "idle" => TidVal[me'[p].tid] = me'[p].elt.val),
         p \in Scanners => pc'[p] \in {"idle", "entry", "search"}
  PROVE  Fresh'
<1>1. Kept BY DEF Kept, Current, InChain
<1>2. npages' \in Nat /\ npages' >= npages BY ConstantsAssumption DEF TInv, TypeOK
<1>3. \A s \in Slots, lc \in Levels, i \in Widest : InChain(ntup[s].nbrs[lc][i])'
  BY DEF Fresh, Bounded, InChain
<1>4. Paired' /\ TidRightValue' BY DEF Fresh, Paired, TidRightValue
<1> QED BY <1>1, <1>2, <1>3, <1>4, F_Step

\* ... taken by an insert or a scan
LEMMA F_Local ==
  ASSUME TInv, Fresh, NEW p \in Procs, p # Vacuum, Others(p),
         UNCHANGED <<elem, ntup, npages, vac>>, InChain(meta.entry)',
         Vacuum \in updLock.ex => Vacuum \in updLock'.ex,
         Locked', BoundedAt(p)',
         p \in Inserters => Holds(p)',
         p \in Inserters => (pc'[p] # "idle" => TidVal[me'[p].tid] = me'[p].elt.val),
         p \in Scanners => pc'[p] \in {"idle", "entry", "search"}
  PROVE  Fresh'
<1>1. pc'[Vacuum] = pc[Vacuum] /\ me'[Vacuum] = me[Vacuum] BY Basics DEF Others
<1>2. Repairing' BY <1>1 DEF Fresh, Repairing, RepairTarget
<1>3. InChain(vac.highest.slot)' BY DEF Fresh, Bounded, InChain
<1> QED BY <1>1, <1>2, <1>3, F_Memory

\* A backend that has reset its local state remembers nothing
LEMMA ResetFresh ==
  ASSUME TInv, Fresh, NEW p \in Procs, Reset(p), npages' = npages
  PROVE  /\ BoundedAt(p)'
         /\ pc'[p] \in {"idle", "loop", "epLock"} => Holds(p)'
<1>1. /\ me'[p] = [elt |-> NoElement, tid |-> Nil] /\ ep'[p] = NoElement
      /\ srch'[p] = NoSearch /\ nb'[p] = [lc \in Levels |-> {}]
      /\ upd'[p] = NoUpdate
  BY DEF Reset, TInv, TypeOK
<1>2. npages' \in Nat BY ConstantsAssumption DEF TInv, TypeOK
<1>3. BoundedAt(p)' BY <1>1, <1>2 DEF BoundedAt, InChain, NoElement, NoSearch, NoUpdate, Nil
<1>4. ASSUME pc'[p] \in {"idle", "loop", "epLock"} PROVE Holds(p)'
  BY <1>1, <1>4 DEF Holds, NoElement, NoSearch, NoUpdate, Using
<1> QED BY <1>3, <1>4

\* Ending an operation touches only the own local state
LEMMA OthersReset ==
  ASSUME TInv, NEW p \in Procs, Reset(p), \A q \in Procs \ {p} : pc'[q] = pc[q]
  PROVE  Others(p)
BY DEF Others, Reset, TInv, TypeOK

\* A statement that aborts leaves the others what they remember
LEMMA F_Abort ==
  ASSUME TInv, Fresh, NEW p \in Procs, Abort(p), UNCHANGED <<disk, vac>>
  PROVE  Fresh'
<1>1. /\ Reset(p) /\ pc'[p] = "idle" /\ \A q \in Procs \ {p} : pc'[q] = pc[q]
      /\ updLock' = Drop(updLock, p)
  BY DEF Abort, TInv, TypeOK
<1>2. Others(p) BY <1>1, OthersReset
<1>3. BoundedAt(p)' /\ Holds(p)' BY <1>1, ResetFresh
<1>4. Locked'
  BY <1>1, L_Drop DEF Fresh, Outside, Procs
<1>5. InChain(meta.entry)' /\ InChain(vac.highest.slot)' BY DEF Fresh, Bounded, InChain
<1>6. CASE p = Vacuum
  <2>1. Repairing' BY <1>1, <1>6 DEF Repairing
  <2> QED BY <1>1, <1>2, <1>3, <1>4, <1>5, <1>6, <2>1, F_Memory, ConstantsAssumption
<1>7. CASE p # Vacuum
  BY <1>1, <1>2, <1>3, <1>4, <1>5, <1>7, F_Local DEF Drop
<1> QED BY <1>6, <1>7

\* So does an insert that ends
LEMMA F_EndInsert ==
  ASSUME TInv, Fresh, NEW p \in Inserters, EndInsert(p), UNCHANGED <<ntup, npages>>, Kept,
         InChain(meta.entry)', Paired', Repairing', TidRightValue'
  PROVE  Fresh'
<1>0. p \in Procs /\ p # Vacuum /\ p \notin Scanners BY ConstantsAssumption DEF Procs
<1>1. /\ Reset(p) /\ pc'[p] = "idle" /\ \A q \in Procs \ {p} : pc'[q] = pc[q]
      /\ updLock' = Drop(updLock, p) /\ vac' = vac
  BY <1>0 DEF EndInsert, TInv, TypeOK
<1>2. Others(p) BY <1>0, <1>1, OthersReset
<1>3. BoundedAt(p)' /\ Holds(p)' BY <1>0, <1>1, ResetFresh
<1>4. Locked' BY <1>1, L_Drop DEF Fresh, Outside, Procs
<1>5. InChain(vac.highest.slot)' BY <1>1 DEF Fresh, Bounded, InChain
<1>6. npages' \in Nat /\ npages' >= npages BY ConstantsAssumption DEF TInv, TypeOK
<1>7. \A s \in Slots, lc \in Levels, i \in Widest : InChain(ntup[s].nbrs[lc][i])'
  BY DEF Fresh, Bounded, InChain
<1> QED BY <1>0, <1>1, <1>2, <1>3, <1>4, <1>5, <1>6, <1>7, F_Step

\* A step of a search or of a neighbor update that writes no page
LEMMA F_Read ==
  ASSUME TInv, Fresh, NEW p \in Procs, Others(p), UNCHANGED <<disk, locks, me, vac>>,
         \/ pc[p] \in {"entry", "search"} /\ pc'[p] \in {"search", "overwrite"}
         \/ pc[p] \in {"entry", "search"} /\ pc'[p] = "dup" /\ p # Vacuum
         \/ pc[p] \in {"update", "loadNbrs"} /\ pc'[p] \in {"update", "loadNbrs", "write"},
         p \in Scanners => pc'[p] = "search",
         BoundedAt(p)', p \in Inserters \cup {Vacuum} => Holds(p)'
  PROVE  Fresh'
<1>1. InChain(meta.entry)' /\ InChain(vac.highest.slot)' BY DEF Fresh, Bounded, InChain
<1>2. \A q \in Procs : Outside(q) => Outside(q)' BY DEF Outside, Others
<1>3. Locked' BY <1>2, L_Same DEF Fresh, Procs
<1>4. Repairing'
  <2>1. CASE p = Vacuum BY <2>1 DEF Fresh, Repairing, RepairTarget
  <2>2. CASE p # Vacuum
    <3>1. pc'[Vacuum] = pc[Vacuum] BY <2>2, Basics DEF Others
    <3> QED BY <3>1 DEF Fresh, Repairing, RepairTarget
  <2> QED BY <2>1, <2>2
<1>5. pc[Vacuum] \in {"idle", "remove"} => pc'[Vacuum] \in {"idle", "remove"}
  BY Basics DEF Others
<1>6. p \in Inserters => (pc'[p] # "idle" => TidVal[me'[p].tid] = me'[p].elt.val)
  BY DEF Fresh
<1> QED BY <1>1, <1>3, <1>4, <1>5, <1>6, F_Memory

\* A loaded element is current
LEMMA LoadCurrent ==
  ASSUME TInv, Fresh, NEW s \in Slots, ~elem[s].deleted
  PROVE  Load(s).live => Current(Load(s))
<1>1. /\ Load(s).slot = s /\ Load(s).level = elem[s].level
      /\ Load(s).version = elem[s].version /\ Load(s).val = elem[s].val
  BY DEF Load
<1>2. Load(s).live => elem[s].tids # {} BY Zenon DEF Load
<1>3. s # Nil BY DEF Slots, Nil
<1> QED BY <1>1, <1>2, <1>3 DEF Current

\* A search begins with the entry point as its page holds it
LEMMA F_EntryCandidate ==
  ASSUME TInv, Fresh, NEW p \in Procs, EntryCandidate(p) PROVE Fresh'
<1>1. ep[p].slot \in Slots /\ InChain(ep[p].slot)
  BY DEF EntryCandidate, TInv, TypeOK, Defined, Ready, Copies, Fresh, Bounded, BoundedAt
<1>2. CASE elem[ep[p].slot].deleted BY <1>2, F_Abort DEF EntryCandidate, Fail
<1>3. CASE ~elem[ep[p].slot].deleted
  <2> DEFINE e == Load(ep[p].slot)
             r == [lc |-> e.level, w |-> {e}, todo |-> {e}, vis |-> {e.slot}, pend |-> {}]
  <2>1. e \in Copies /\ e.slot = ep[p].slot /\ (e.live => Current(e))
    BY <1>1, <1>3, LoadType, LoadCurrent DEF TInv
  <2> HIDE DEF e
  <2>2. /\ ep'[p] = e /\ srch'[p] = r /\ pc'[p] = "search" /\ pc[p] = "entry"
        /\ UNCHANGED <<disk, locks, heap, me, nb, upd, walk, vac, failed, cancels>>
        /\ Others(p)
    BY <1>3 DEF EntryCandidate, e, TInv, TypeOK, Others
  <2>3. BoundedAt(p)'
    BY <1>1, <2>1, <2>2 DEF Fresh, Bounded, BoundedAt, InChain
  <2>4. ASSUME p \in Inserters \cup {Vacuum} PROVE Holds(p)'
    <3>1. Holds(p) BY <2>4 DEF Fresh
    <3>2. \A x \in Copies : Current(x) => Current(x)'
      BY <2>2, Basics DEF Current, Others
    <3> QED BY <2>1, <2>2, <3>1, <3>2 DEF Holds, Using
  <2> QED BY <2>2, <2>3, <2>4, F_Read DEF Fresh
<1> QED BY <1>2, <1>3

\* The neighbors of a candidate are pages of the chain
LEMMA F_ExpandCandidate ==
  ASSUME TInv, Fresh, NEW p \in Procs, ExpandCandidate(p) PROVE Fresh'
<1>0. srch[p] \in SearchType BY DEF TInv, TypeOK
<1>1. PICK c \in srch[p].todo :
        LET new == NeighborTids(c, srch[p].lc) \ srch[p].vis IN
        srch' = [srch EXCEPT ![p].todo = @ \ {c}, ![p].vis = @ \cup new, ![p].pend = new]
  BY DEF ExpandCandidate
<1>2. /\ srch'[p].w = srch[p].w /\ srch'[p].todo \subseteq srch[p].todo
      /\ srch'[p].pend \subseteq NeighborTids(c, srch[p].lc)
      /\ UNCHANGED <<disk, locks, heap, pc, me, ep, nb, upd, walk, vac, failed, cancels>>
      /\ pc[p] = "search" /\ Others(p)
  BY <1>0, <1>1 DEF ExpandCandidate, TInv, TypeOK, SearchType, Others
<1>3. \A s \in NeighborTids(c, srch[p].lc) : InChain(s)
  <2>1. c \in Copies /\ c.slot \in Slots /\ srch[p].lc \in Levels
    BY <1>0 DEF SearchType, Copies, TInv, Defined, Ready
  <2>2. 1..LayerM(srch[p].lc) \subseteq Widest BY ConstantsAssumption DEF LayerM, Widest
  <2> QED BY <2>1, <2>2 DEF NeighborTids, ValidPrefix, Fresh, Bounded
<1>4. BoundedAt(p)' BY <1>2, <1>3 DEF Fresh, Bounded, BoundedAt, InChain
<1>5. ASSUME p \in Inserters \cup {Vacuum} PROVE Holds(p)'
  <2>1. Holds(p) BY <1>5 DEF Fresh
  <2>2. \A x \in Copies : Current(x) => Current(x)' BY <1>2 DEF Current
  <2>3. srch'[p].w = srch[p].w /\ UNCHANGED <<pc, nb, upd>> BY <1>2
  <2>4. /\ srch[p].w \subseteq Copies /\ upd[p].cur.elt \in Copies
        /\ \A lc \in Levels : nb[p][lc] \subseteq Copies
        /\ \A y \in upd[p].todo : y.elt \in Copies
    BY <1>0 DEF TInv, TypeOK, SearchType, UpdateType, Wanted
  <2> QED BY ONLY <2>1, <2>2, <2>3, <2>4 DEF Holds, Using
<1> QED BY <1>2, <1>4, <1>5, F_Read

\* A live element joins the search as its page holds it
LEMMA F_LoadUnvisited ==
  ASSUME TInv, Fresh, NEW p \in Procs, LoadUnvisited(p) PROVE Fresh'
<1>0. srch[p] \in SearchType BY DEF TInv, TypeOK
<1>1. PICK s \in srch[p].pend :
       IF elem[s].deleted
         THEN Fail(p)
         ELSE LET add == IF elem[s].level < srch[p].lc THEN {} ELSE {Load(s)} IN
           /\ srch' = [srch EXCEPT ![p].pend = @ \ {s}, ![p].w = @ \cup add,
                                   ![p].todo = @ \cup add]
           /\ UNCHANGED <<disk, locks, heap, pc, me, ep, nb, upd, walk, vac, failed, cancels>>
  BY DEF LoadUnvisited
<1>2. CASE elem[s].deleted BY <1>1, <1>2, F_Abort DEF Fail
<1>3. CASE ~elem[s].deleted
  <2> DEFINE add == IF elem[s].level < srch[p].lc THEN {} ELSE {Load(s)}
  <2>1. s \in Slots /\ InChain(s) BY <1>0 DEF SearchType, Fresh, Bounded, BoundedAt
  <2>2. \A x \in add : InChain(x.slot) /\ (x.live => Current(x))
    BY <1>3, <2>1, LoadType, LoadCurrent DEF TInv
  <2> HIDE DEF add
  <2>3. /\ srch' = [srch EXCEPT ![p].pend = @ \ {s}, ![p].w = @ \cup add,
                                 ![p].todo = @ \cup add]
        /\ UNCHANGED <<disk, locks, heap, pc, me, ep, nb, upd, walk, vac, failed, cancels>>
    BY <1>1, <1>3 DEF add
  <2>4. /\ srch'[p].w = srch[p].w \cup add /\ srch'[p].todo = srch[p].todo \cup add
        /\ srch'[p].pend \subseteq srch[p].pend /\ Others(p) /\ pc[p] = "search"
    BY <1>0, <2>3 DEF TInv, TypeOK, SearchType, Others, LoadUnvisited
  <2>5. BoundedAt(p)' BY <2>2, <2>3, <2>4 DEF Fresh, Bounded, BoundedAt, InChain
  <2>6. ASSUME p \in Inserters \cup {Vacuum} PROVE Holds(p)'
    <3>1. \A x : Current(x) => Current(x)' BY <2>3 DEF Current
    <3> QED BY <2>2, <2>3, <2>4, <2>6, <3>1 DEF Fresh, Holds, Using
  <2> QED BY <2>3, <2>4, <2>5, <2>6, F_Read
<1> QED BY <1>2, <1>3

\* Going down a layer keeps elements the search already had
LEMMA F_DescendLayer ==
  ASSUME TInv, Fresh, NEW p \in Procs, DescendLayer(p) PROVE Fresh'
<1>1. PICK best \in SUBSET srch[p].w :
        srch' = [srch EXCEPT ![p] =
            [lc |-> srch[p].lc - 1, w |-> best, todo |-> best,
             vis |-> {e.slot : e \in best}, pend |-> {}]]
  BY DEF DescendLayer
<1>2. /\ srch'[p].w = best /\ srch'[p].todo = best /\ srch'[p].pend = {}
      /\ UNCHANGED <<disk, locks, heap, pc, me, ep, nb, upd, walk, vac, failed, cancels>>
      /\ pc[p] = "search" /\ Others(p)
  BY <1>1 DEF DescendLayer, TInv, TypeOK, Others
<1>3. BoundedAt(p)' BY <1>2 DEF Fresh, Bounded, BoundedAt, InChain
<1>4. ASSUME p \in Inserters \cup {Vacuum} PROVE Holds(p)'
  <2>1. Holds(p) BY <1>4 DEF Fresh
  <2>2. \A x \in Copies : Current(x) => Current(x)' BY <1>2 DEF Current
  <2>3. srch'[p].w \subseteq srch[p].w /\ UNCHANGED <<pc, nb, upd>> BY <1>2
  <2>4. /\ srch[p].w \subseteq Copies /\ upd[p].cur.elt \in Copies
        /\ \A lc \in Levels : nb[p][lc] \subseteq Copies
        /\ \A y \in upd[p].todo : y.elt \in Copies
    BY DEF TInv, TypeOK, SearchType, UpdateType, Wanted
  <2> QED BY ONLY <2>1, <2>2, <2>3, <2>4 DEF Holds, Using
<1> QED BY <1>2, <1>3, <1>4, F_Read

\* SelectNeighbors chooses live elements only (RemoveElements)
LEMMA F_FinishLayer ==
  ASSUME TInv, Fresh, NEW p \in Procs, FinishLayer(p) PROVE Fresh'
<1>0. srch[p] \in SearchType /\ srch[p].lc \in Levels BY DEF TInv, TypeOK, SearchType
<1>1. PICK S \in SelectNeighbors(p) : nb' = [nb EXCEPT ![p][srch[p].lc] = S]
  BY DEF FinishLayer
<1>2. S \subseteq srch[p].w /\ \A x \in S : x.live BY DEF SelectNeighbors, Eligible
<1>3. /\ UNCHANGED <<disk, locks, heap, me, ep, upd, walk, vac, failed, cancels>>
      /\ p \notin Scanners /\ p \in Inserters \cup {Vacuum} /\ pc[p] = "search"
  BY DEF FinishLayer, Procs
<1>4. \A lc \in Levels : \A x \in nb'[p][lc] : x \in nb[p][lc] \/ x \in S
  BY <1>1 DEF TInv, TypeOK
<1>5. /\ srch'[p].w \in {srch[p].w, {}} /\ srch'[p].todo \in {srch[p].w, {}}
      /\ srch'[p].pend \subseteq srch[p].pend
      /\ pc'[p] \in {"search", IF p = Vacuum THEN "overwrite" ELSE "dup"}
      /\ Others(p)
  BY <1>0, <1>1, <1>3 DEF FinishLayer, TInv, TypeOK, SearchType, NoSearch, Others
<1>6. BoundedAt(p)'
  BY <1>2, <1>3, <1>4, <1>5 DEF Fresh, Bounded, BoundedAt, InChain
<1>7. Holds(p)'
  <2>1. pc'[Vacuum] = pc[Vacuum] \/ (pc[Vacuum] \notin {"idle", "remove"}
                                       /\ pc'[Vacuum] \notin {"idle", "remove"})
    BY <1>3, <1>5, Basics DEF Others
  <2>2. \A x : Current(x) => Current(x)' BY <1>3, <2>1 DEF Current
  <2>3. Holds(p) BY <1>3 DEF Fresh
  <2>4. \A lc \in Levels : \A x \in nb'[p][lc] : x.live /\ Current(x)
    BY <1>2, <1>4, <2>3 DEF Holds
  <2> QED BY <1>3, <1>5, <2>2, <2>3, <2>4 DEF Holds, Using
<1> QED BY <1>3, <1>5, <1>6, <1>7, F_Read

\* An insert begins with nothing remembered
LEMMA F_BeginInsert ==
  ASSUME TInv, Fresh, NEW p \in Inserters, NEW t \in Tids, NEW l \in Levels,
         BeginInsert(p, t, l)
  PROVE  Fresh'
<1>0. p \in Procs /\ p # Vacuum /\ p \notin Scanners BY ConstantsAssumption DEF Procs
<1>1. npages \in Nat BY ConstantsAssumption DEF TInv, TypeOK
<1>2. /\ me'[p].elt.slot = Nil /\ me'[p].elt.val = TidVal[t] /\ me'[p].tid = t
      /\ ep'[p] \in {ep[p], EntryPoint} /\ pc[p] = "idle" /\ pc'[p] \in {"wantEx", "entry"}
      /\ UNCHANGED <<disk, scanLock, srch, nb, upd, walk, vac, failed, cancels>>
      /\ Others(p)
  BY <1>0 DEF BeginInsert, TInv, TypeOK, Others
<1>3. Locked'
  <2>0. \A q \in Inserters : q # p => pc'[q] = pc[q] BY <1>2 DEF Others, Procs
  <2>1. CASE Promotes(l)
    <3>1. updLock' = updLock /\ pc'[p] = "wantEx"
      BY <1>0, <2>1 DEF BeginInsert, TInv, TypeOK
    <3> QED BY <2>0, <3>1, L_Same DEF Fresh, Outside
  <2>2. CASE ~Promotes(l)
    BY <2>0, <2>2, L_Take DEF BeginInsert, Fresh, TInv
  <2> QED BY <2>1, <2>2
<1>4. InChain(EntryPoint.slot)
  BY <1>1 DEF EntryPoint, InChain, Fresh, Bounded, NoElement, Nil
<1>5. BoundedAt(p)'
  BY <1>0, <1>1, <1>2, <1>4 DEF Fresh, Bounded, BoundedAt, InChain, Nil
<1>6. Holds(p)'
  <2>1. \A x : Current(x) => Current(x)' BY <1>0, <1>2, Basics DEF Current, Others
  <2> QED BY <1>2, <2>1 DEF Fresh, Holds, Using
<1>7. InChain(meta.entry)' BY <1>2 DEF Fresh, Bounded, InChain
<1>8. Vacuum \in updLock.ex => Vacuum \in updLock'.ex
  BY DEF BeginInsert, Share, TInv, TypeOK, LockType
<1> QED BY <1>0, <1>2, <1>3, <1>5, <1>6, <1>7, <1>8, F_Local

\* An insert that waited for the exclusive lock still remembers nothing
LEMMA F_LockForInsert ==
  ASSUME TInv, Fresh, NEW p \in Inserters, LockForInsert(p) PROVE Fresh'
<1>0. p \in Procs /\ p # Vacuum /\ p \notin Scanners BY ConstantsAssumption DEF Procs
<1>1. npages \in Nat BY ConstantsAssumption DEF TInv, TypeOK
<1>2. /\ ep'[p] = EntryPoint /\ pc[p] = "wantEx" /\ pc'[p] \in {"dup", "entry"}
      /\ UNCHANGED <<disk, scanLock, heap, me, srch, nb, upd, walk, vac, failed, cancels>>
      /\ Others(p)
  BY <1>0 DEF LockForInsert, TInv, TypeOK, Others
<1>3. Locked' BY <1>0, <1>2, L_Take DEF LockForInsert, Fresh, TInv, Others, Procs
<1>4. InChain(EntryPoint.slot)
  BY <1>1 DEF EntryPoint, InChain, Fresh, Bounded, NoElement, Nil
<1>5. BoundedAt(p)'
  BY <1>0, <1>2, <1>4 DEF Fresh, Bounded, BoundedAt, InChain
<1>6. Holds(p)'
  <2>1. \A x : Current(x) => Current(x)' BY <1>0, <1>2, Basics DEF Current, Others
  <2> QED BY <1>2, <2>1 DEF Fresh, Holds, Using
<1>7. InChain(meta.entry)' BY <1>2 DEF Fresh, Bounded, InChain
<1>8. Vacuum \in updLock.ex => Vacuum \in updLock'.ex
  BY DEF LockForInsert, Exclude, TInv, TypeOK, LockType
<1>9. pc'[p] # "idle" => TidVal[me'[p].tid] = me'[p].elt.val BY <1>2 DEF Fresh
<1> QED BY <1>0, <1>2, <1>3, <1>5, <1>6, <1>7, <1>8, <1>9, F_Local

\* A step of an insert that touches neither a page nor the locks
LEMMA F_InsertLocal ==
  ASSUME TInv, Fresh, NEW p \in Inserters, Others(p), UNCHANGED <<elem, ntup, npages, locks, me, vac>>,
         ~Outside(p), InChain(meta.entry)', BoundedAt(p)', Holds(p)'
  PROVE  Fresh'
<1>0. p \in Procs /\ p # Vacuum /\ p \notin Scanners BY ConstantsAssumption DEF Procs
<1>1. Locked' BY <1>0, L_Same DEF Fresh, Others, Outside, Procs
<1>2. pc'[p] # "idle" => TidVal[me'[p].tid] = me'[p].elt.val BY DEF Fresh, Outside
<1> QED BY <1>0, <1>1, <1>2, F_Local

\* Giving up the search for a duplicate keeps the chosen neighbors
LEMMA F_GiveUpDuplicates ==
  ASSUME TInv, Fresh, NEW p \in Inserters, GiveUpDuplicates(p) PROVE Fresh'
<1>0. p \in Procs /\ p # Vacuum BY ConstantsAssumption DEF Procs
<1>1. /\ srch'[p] = NoSearch /\ pc[p] = "dup" /\ pc'[p] = "walk"
      /\ UNCHANGED <<disk, locks, heap, me, ep, nb, upd, vac, failed, cancels>>
      /\ Others(p)
  BY <1>0 DEF GiveUpDuplicates, TInv, TypeOK, Others
<1>2. BoundedAt(p)' BY <1>0, <1>1 DEF Fresh, Bounded, BoundedAt, InChain, NoSearch
<1>3. Holds(p)'
  <2>1. \A x : Current(x) => Current(x)' BY <1>0, <1>1, Basics DEF Current, Others
  <2> QED BY <1>1, <2>1 DEF Fresh, Holds, Using, NoSearch
<1>4. InChain(meta.entry)' BY <1>1 DEF Fresh, Bounded, InChain
<1> QED BY <1>1, <1>2, <1>3, <1>4, F_InsertLocal DEF Outside

\* Walking on keeps the chosen neighbors
LEMMA F_NextPage ==
  ASSUME TInv, Fresh, NEW p \in Inserters, NextPage(p) PROVE Fresh'
<1>0. p \in Procs /\ p # Vacuum BY ConstantsAssumption DEF Procs
<1>1. /\ pc[p] = "walk" /\ Others(p)
      /\ UNCHANGED <<disk, locks, heap, pc, me, ep, srch, nb, upd, vac, failed, cancels>>
  BY DEF NextPage, Others
<1>2. BoundedAt(p)' BY <1>0, <1>1 DEF Fresh, Bounded, BoundedAt, InChain
<1>3. Holds(p)'
  <2>1. \A x : Current(x) => Current(x)' BY <1>1 DEF Current
  <2> QED BY <1>1, <2>1 DEF Fresh, Holds, Using
<1>4. InChain(meta.entry)' BY <1>1 DEF Fresh, Bounded, InChain
<1> QED BY <1>1, <1>2, <1>3, <1>4, F_InsertLocal DEF Outside

\* Updating the insert page leaves the neighbors still to be updated
LEMMA F_UpdateInsertPage ==
  ASSUME TInv, Fresh, NEW p \in Inserters, UpdateInsertPage(p) PROVE Fresh'
<1>0. p \in Procs /\ p # Vacuum BY ConstantsAssumption DEF Procs
<1>1. /\ nb'[p] = [lc \in Levels |-> {}] /\ pc[p] = "setPage" /\ pc'[p] = "update"
      /\ UNCHANGED <<elem, ntup, npages, locks, heap, me, ep, srch, upd, vac, failed, cancels>>
      /\ Others(p)
  BY <1>0 DEF UpdateInsertPage, TInv, TypeOK, Others
<1>2. BoundedAt(p)' BY <1>0, <1>1 DEF Fresh, Bounded, BoundedAt, InChain
<1>3. Holds(p)'
  <2>1. \A x : Current(x) => Current(x)' BY <1>0, <1>1, Basics DEF Current, Others
  <2> QED BY <1>1, <2>1 DEF Fresh, Holds, Using
<1>4. InChain(meta.entry)'
  BY <1>1 DEF Fresh, Bounded, InChain, UpdateInsertPage, TInv, TypeOK, MetaType
<1> QED BY <1>1, <1>2, <1>3, <1>4, F_InsertLocal DEF Outside

\* The new entry point is the element just inserted
LEMMA F_FinishInsert ==
  ASSUME TInv, Fresh, NEW p \in Inserters, FinishInsert(p) PROVE Fresh'
<1>0. p \in Procs /\ p # Vacuum BY ConstantsAssumption DEF Procs
<1>1. /\ UNCHANGED <<elem, ntup, npages>> /\ EndInsert(p)
      /\ meta' \in {meta, EntryGreater(me[p].elt)}
  BY DEF FinishInsert
<1>2. /\ pc'[Vacuum] = pc[Vacuum] /\ me'[Vacuum] = me[Vacuum] /\ vac' = vac
      /\ (Vacuum \in updLock.ex => Vacuum \in updLock'.ex)
  BY <1>0, <1>1, Basics DEF EndInsert, Reset, Drop, TInv, TypeOK
<1>3. Kept BY <1>1, <1>2 DEF Kept, Current
<1>4. InChain(meta.entry)'
  <2>1. meta'.entry \in {meta.entry, me[p].elt.slot}
    BY <1>1 DEF EntryGreater, TInv, TypeOK, MetaType
  <2> QED BY <1>0, <1>1, <2>1 DEF Fresh, Bounded, BoundedAt, InChain
<1>5. Paired' /\ TidRightValue' BY <1>1 DEF Fresh, Paired, TidRightValue
<1>6. Repairing' BY <1>1, <1>2 DEF Fresh, Repairing, RepairTarget
<1> QED BY <1>1, <1>3, <1>4, <1>5, <1>6, F_EndInsert

\* An insert past its first steps excludes a VACUUM that holds the lock
\* exclusively
LEMMA NoExclusiveVacuum ==
  ASSUME Fresh, NEW p \in Inserters, ~Outside(p) PROVE Vacuum \notin updLock.ex
BY ConstantsAssumption DEF Fresh, Locked, Outside

\* AddDuplicateOnDisk finds the value it compared: the element is not deleted,
\* since it has heap TIDs, so it is the element the insert loaded
LEMMA F_AddDuplicate ==
  ASSUME TInv, Fresh, NEW p \in Inserters, AddDuplicate(p) PROVE Fresh'
<1>0. p \in Procs /\ p # Vacuum /\ pc[p] = "dup" BY ConstantsAssumption DEF Procs, AddDuplicate
<1>1. PICK d \in Same(p) \ srch[p].w :
       IF DuplicateFull(d.slot)
         THEN /\ srch' = [srch EXCEPT ![p].w = @ \cup {d}]
              /\ UNCHANGED <<disk, locks, heap, pc, me, ep, nb, upd, walk, vac, failed, cancels>>
         ELSE /\ elem' = [elem EXCEPT ![d.slot].tids = @ \cup {me[p].tid}]
              /\ EndInsert(p)
              /\ UNCHANGED <<ntup, npages, meta>>
  BY DEF AddDuplicate
<1>2. /\ d \in Copies /\ d.slot \in Slots /\ InChain(d.slot) /\ Current(d) /\ d.live
      /\ d.val = me[p].elt.val
  BY <1>0, Basics
     DEF Same, TInv, TypeOK, Copies, Defined, Ready, Fresh, Bounded, BoundedAt, Holds
<1>3. CASE DuplicateFull(d.slot)
  <2>0. srch' = [srch EXCEPT ![p].w = @ \cup {d}]
        /\ UNCHANGED <<disk, locks, heap, pc, me, ep, nb, upd, walk, vac, failed, cancels>>
    BY <1>1, <1>3
  <2>1. srch[p] \in SearchType BY <1>0 DEF TInv, TypeOK
  <2>2. /\ srch'[p].w = srch[p].w \cup {d} /\ srch'[p].todo = srch[p].todo
        /\ srch'[p].pend = srch[p].pend /\ Others(p)
    BY <1>0, <2>0, <2>1 DEF SearchType, TInv, TypeOK, Others
  <2>3. BoundedAt(p)' BY <1>0, <1>2, <2>0, <2>2 DEF Fresh, Bounded, BoundedAt, InChain
  <2>4. Holds(p)'
    <3>1. \A x : Current(x) => Current(x)' BY <2>0 DEF Current
    <3> QED BY <1>0, <1>2, <2>0, <2>2, <3>1 DEF Fresh, Holds, Using
  <2>5. InChain(meta.entry)' BY <2>0 DEF Fresh, Bounded, InChain
  <2> QED BY <1>0, <2>0, <2>2, <2>3, <2>4, <2>5, F_InsertLocal DEF Outside
<1>4. CASE ~DuplicateFull(d.slot)
  <2>1. /\ elem' = [elem EXCEPT ![d.slot].tids = @ \cup {me[p].tid}]
        /\ EndInsert(p) /\ UNCHANGED <<ntup, npages, meta>>
    BY <1>1, <1>4
  <2>2. /\ pc'[Vacuum] = pc[Vacuum] /\ me'[Vacuum] = me[Vacuum] /\ vac' = vac
        /\ Vacuum \notin updLock.ex
    BY <1>0, <2>1, Basics, NoExclusiveVacuum DEF EndInsert, Reset, TInv, TypeOK, Outside
  <2>3. /\ elem \in [Slots -> ElemType] /\ elem[d.slot] \in ElemType
        /\ elem[d.slot].tids # {} /\ ~elem[d.slot].deleted
    BY <1>2, <1>4 DEF TInv, TypeOK, DuplicateFull, Current
  <2>4. \A s \in Slots : /\ elem'[s].val = elem[s].val /\ elem'[s].level = elem[s].level
                         /\ elem'[s].version = elem[s].version
                         /\ elem'[s].deleted = elem[s].deleted
                         /\ elem[s].tids \subseteq elem'[s].tids
                         /\ s # d.slot => elem'[s].tids = elem[s].tids
    BY <2>1, <2>3 DEF ElemType
  <2>5. elem'[d.slot].tids = elem[d.slot].tids \cup {me[p].tid}
    BY <1>2, <2>1, <2>3 DEF ElemType
  <2>6. Kept BY <2>2, <2>4 DEF Kept, Current, Copies
  <2>7. Paired' BY <2>1, <2>3, <2>4 DEF Fresh, Paired
  <2>8. TidRightValue'
    <3>1. TidVal[me[p].tid] = elem[d.slot].val BY <1>0, <1>2 DEF Fresh, Current
    <3> QED BY <2>4, <2>5, <3>1 DEF Fresh, TidRightValue
  <2>9. Repairing'
    <3>1. me[Vacuum].elt \in Copies /\ vac.highest \in Copies
      BY Basics DEF TInv, TypeOK, MeType, VacType
    <3>2. vac.highest.slot = Nil \/ vac.highest.slot \in Slots BY <3>1 DEF Copies
    <3>3. me[Vacuum].elt.slot = Nil \/ me[Vacuum].elt.slot \in Slots BY <3>1 DEF Copies
    <3>4. /\ pc[Vacuum] = "hpLock" => vac.highest.slot # Nil
      BY DEF TInv, Defined
    <3> QED BY <2>2, <2>4, <3>2, <3>3, <3>4 DEF Fresh, Repairing, RepairTarget
  <2>10. InChain(meta.entry)' BY <2>1 DEF Fresh, Bounded, InChain
  <2> QED BY <2>1, <2>6, <2>7, <2>8, <2>9, <2>10, F_EndInsert
<1> QED BY <1>3, <1>4

\* A list holds the members of the set it was made of
LEMMA ListOfRange ==
  ASSUME NEW S, NEW i \in Widest PROVE ListOf(S)[i] \in S \cup {Nil}
BY DEF ListOf

\* Lists made of neighbors in the chain stay in it
LEMMA ChosenListBounded ==
  ASSUME TInv, Fresh, NEW p \in Procs, NEW lc \in Levels, NEW i \in Widest
  PROVE  ListOf({x.slot : x \in nb[p][lc]})[i] <= npages
<1>1. \A x \in nb[p][lc] : x.slot <= npages
  BY DEF Fresh, Bounded, BoundedAt, InChain
<1>2. Nil <= npages BY ConstantsAssumption DEF TInv, TypeOK, Nil
<1>3. ListOf({x.slot : x \in nb[p][lc]})[i] \in {x.slot : x \in nb[p][lc]} \cup {Nil}
  BY ListOfRange
<1> QED BY <1>1, <1>2, <1>3

\* AddElementOnDisk takes a page nobody else remembers: one whose element is
\* deleted, or a new one
LEMMA F_PutElement ==
  ASSUME TInv, TInv', Fresh, NEW p \in Inserters, pc[p] = "walk",
         NEW s \in Slots, NEW v \in 0..VersionMax, NEW r, PutElement(p, s, v, r),
         \/ elem[s].deleted /\ npages' = npages /\ s <= npages
         \/ s = npages + 1 /\ npages' = npages + 1,
         pc' = [pc EXCEPT ![p] = "setPage"],
         UNCHANGED <<meta, locks, heap, ep, srch, nb, vac, failed, cancels>>
  PROVE  Fresh'
<1>0. p \in Procs /\ p # Vacuum /\ p \notin Scanners BY ConstantsAssumption DEF Procs
<1>1. npages \in Nat /\ npages' \in Nat /\ npages' >= npages /\ s <= npages'
  BY ConstantsAssumption DEF TInv, TypeOK, Slots
<1>2. \A q \in Slots : q # s => elem'[q] = elem[q] /\ ntup'[q] = ntup[q]
  BY DEF PutElement, TInv, TypeOK
<1>3. /\ elem'[s] = [level |-> me[p].elt.level, val |-> me[p].elt.val,
                    tids |-> {me[p].tid}, deleted |-> FALSE, version |-> v]
      /\ ntup'[s] = [level |-> me[p].elt.level, room |-> r, version |-> v,
                    nbrs |-> [lc \in Levels |-> ListOf({x.slot : x \in nb[p][lc]})]]
  BY DEF PutElement, TInv, TypeOK
<1>4. me[p] \in MeType /\ upd[p] \in UpdateType BY <1>0 DEF TInv, TypeOK
<1>5. /\ me'[p].elt.slot = s /\ me'[p].tid = me[p].tid /\ me'[p].elt.val = me[p].elt.val
  BY <1>0, <1>4 DEF PutElement, TInv, TypeOK, MeType, Copies
<1>6. upd'[p].todo = Chosen(p) /\ upd'[p].cur = upd[p].cur
  BY <1>0, <1>4 DEF PutElement, TInv, TypeOK, UpdateType
<1>7. Others(p) BY <1>0 DEF PutElement, Others, TInv, TypeOK
<1>8. pc'[Vacuum] = pc[Vacuum] /\ me'[Vacuum] = me[Vacuum] /\ pc'[p] = "setPage"
  BY <1>0, <1>7, Basics DEF Others, TInv, TypeOK
<1>9. \A q \in Slots : q <= npages /\ ~elem[q].deleted => elem'[q] = elem[q]
  BY <1>1, <1>2
<1>10. Kept
  <2>1. ASSUME NEW x \in Copies, InChain(x.slot), Current(x) PROVE elem'[x.slot] = elem[x.slot]
    BY <1>9, <2>1 DEF InChain, Current, Copies
  <2> QED BY <1>8, <2>1 DEF Kept, Current
<1>11. Paired' BY <1>2, <1>3 DEF Fresh, Paired
<1>12. TidRightValue'
  <2>1. TidVal[me[p].tid] = me[p].elt.val BY DEF Fresh
  <2> QED BY <1>2, <1>3, <2>1 DEF Fresh, TidRightValue
<1>13. Locked'
  BY <1>0, <1>7, L_Same DEF Fresh, Outside, Others, Procs
<1>14. Repairing'
  <2>1. Vacuum \notin updLock.ex BY NoExclusiveVacuum DEF Outside
  <2>2. /\ me[Vacuum].elt.slot = Nil \/ me[Vacuum].elt.slot \in Slots
        /\ vac.highest.slot = Nil \/ vac.highest.slot \in Slots
    BY Basics DEF TInv, TypeOK, MeType, VacType, Copies
  <2>3. me[Vacuum].elt.slot <= npages /\ vac.highest.slot <= npages
    BY Basics DEF Fresh, Bounded, BoundedAt, InChain
  <2>4. pc[Vacuum] = "hpLock" => vac.highest.slot # Nil BY DEF TInv, Defined
  <2>5. \A q \in Slots : elem[q].tids # {} => ~elem[q].deleted BY DEF Fresh, Paired
  <2>6. /\ pc[Vacuum] \in {"check", "lock", "wantEx", "entry", "search", "overwrite"}
            => elem'[me[Vacuum].elt.slot] = elem[me[Vacuum].elt.slot]
        /\ pc[Vacuum] \in {"hpCheck", "hpLock"}
            => elem'[vac.highest.slot] = elem[vac.highest.slot]
        /\ pc[Vacuum] = "remove" /\ vac.highest.slot # Nil
            => elem'[vac.highest.slot] = elem[vac.highest.slot]
    BY <1>9, <2>1, <2>2, <2>3, <2>4, <2>5 DEF Fresh, Repairing, RepairTarget
  <2> QED BY <1>8, <2>6 DEF Fresh, Repairing, RepairTarget
<1>15. /\ InChain(meta.entry)' /\ InChain(vac.highest.slot)'
  <2>1. meta.entry \in Nat /\ vac.highest.slot \in Nat
    BY DEF TInv, TypeOK, MetaType, VacType, Copies, Slots, Nil
  <2> QED BY <1>1, <2>1 DEF Fresh, Bounded, InChain
<1>16. \A q \in Slots, lc \in Levels, i \in Widest : InChain(ntup[q].nbrs[lc][i])'
  <2> SUFFICES ASSUME NEW q \in Slots, NEW lc \in Levels, NEW i \in Widest
               PROVE  ntup'[q].nbrs[lc][i] <= npages'
    BY DEF InChain
  <2>0. ntup'[q].nbrs[lc][i] \in Nat
    <3>1. ntup'[q] \in NtupType BY DEF TInv, TypeOK
    <3>2. ntup'[q].nbrs[lc][i] \in Slots \cup {Nil} BY <3>1 DEF NtupType, Lists
    <3> QED BY <3>2 DEF Slots, Nil
  <2>1. CASE q = s
    <3>0. ntup'[q].nbrs[lc] = ListOf({x.slot : x \in nb[p][lc]})
      BY <1>3, <2>1
    <3>1. ntup'[q].nbrs[lc][i] <= npages
      BY <1>0, <3>0, ChosenListBounded
    <3> QED BY <1>1, <2>0, <3>1
  <2>2. CASE q # s
    <3>1. ntup'[q].nbrs[lc][i] <= npages BY <1>2, <2>2 DEF Fresh, Bounded, InChain
    <3> QED BY <1>1, <2>0, <3>1
  <2> QED BY <2>1, <2>2
<1>17. BoundedAt(p)'
  <2>1. \A x \in Copies : x.slot <= npages => x.slot <= npages'
    BY <1>1 DEF Copies, Slots, Nil
  <2>2. \A q \in Slots : q <= npages => q <= npages' BY <1>1 DEF Slots
  <2>3. /\ ep[p] \in Copies /\ srch[p] \in SearchType
        /\ nb[p] \in [Levels -> SUBSET Copies] /\ upd[p].cur.elt \in Copies
    BY <1>0 DEF TInv, TypeOK, UpdateType, Wanted
  <2>4. BoundedAt(p) BY <1>0 DEF Fresh, Bounded
  <2>5. \A y \in Chosen(p) : y.elt \in Copies /\ y.elt.slot <= npages
    BY <2>3, <2>4 DEF Chosen, BoundedAt, InChain
  <2> QED BY <1>1, <1>5, <1>6, <2>1, <2>2, <2>3, <2>4, <2>5
          DEF BoundedAt, InChain, SearchType
<1>18. Holds(p)'
  <2>1. Holds(p) /\ BoundedAt(p) BY <1>0 DEF Fresh, Bounded
  <2>2. /\ srch[p] \in SearchType /\ nb[p] \in [Levels -> SUBSET Copies]
        /\ upd[p].cur.elt \in Copies
    BY <1>0 DEF TInv, TypeOK, UpdateType, Wanted
  <2>3. \A x \in srch[p].w : x.live => Current(x)'
    BY <1>10, <2>1, <2>2 DEF Holds, BoundedAt, Kept, SearchType
  <2>4. \A lc \in Levels : \A x \in nb[p][lc] : x.live /\ Current(x)'
    BY <1>10, <2>1, <2>2 DEF Holds, BoundedAt, Kept
  <2>5. \A x \in Copies : x = upd[p].cur.elt /\ x.live => Current(x)'
    BY <1>10, <2>1 DEF Holds, BoundedAt, Kept
  <2>6. \A y \in Chosen(p) : y.elt.live /\ Current(y.elt)'
    BY <2>4 DEF Chosen
  <2>7. (upd[p].cur.elt.live => Current(upd[p].cur.elt))'
    BY <1>6, <2>2, <2>5 DEF Current
  <2> QED BY <1>6, <1>8, <2>3, <2>4, <2>6, <2>7 DEF Holds, Using
<1>19. pc'[p] # "idle" => TidVal[me'[p].tid] = me'[p].elt.val BY <1>5 DEF Fresh
<1> QED BY <1>0, <1>1, <1>7, <1>10, <1>11, <1>12, <1>13, <1>14, <1>15, <1>16, <1>17,
           <1>18, <1>19, F_Step

\* A deleted element is remembered by nobody and may be replaced
LEMMA F_ReplaceDeleted ==
  ASSUME TInv, TInv', Fresh, NEW p \in Inserters, ReplaceDeleted(p) PROVE Fresh'
<1>1. walk[p].cur \in Slots
  BY DEF ReplaceDeleted, TInv, TypeOK, WalkType, Defined, Ready, Procs
<1>2. elem[walk[p].cur].version \in 0..VersionMax BY <1>1 DEF TInv, TypeOK, ElemType
<1> QED BY <1>1, <1>2, F_PutElement DEF ReplaceDeleted, Replaceable

\* Nobody remembers an element of a page not yet in the chain
LEMMA F_AppendPage ==
  ASSUME TInv, TInv', Fresh, NEW p \in Inserters, AppendPage(p) PROVE Fresh'
<1>1. npages + 1 \in Slots /\ 1 \in 0..VersionMax
  BY ConstantsAssumption DEF AppendPage, Slots, TInv, TypeOK, VersionMax
<1> QED BY <1>1, F_PutElement DEF AppendPage

\* Scans neither insert nor update neighbors
LEMMA NotScanner ==
  ASSUME Fresh, NEW p \in Procs, pc[p] \notin {"idle", "entry", "search"}
  PROVE  p \notin Scanners /\ p \in Inserters \cup {Vacuum}
BY DEF Fresh, Procs

\* Reading a list takes the neighbor from those still to be updated
LEMMA F_ReadNeighborList ==
  ASSUME TInv, Fresh, NEW p \in Procs, ReadNeighborList(p) PROVE Fresh'
<1>0. pc[p] = "update" /\ p \notin Scanners /\ p \in Inserters \cup {Vacuum}
  BY NotScanner DEF ReadNeighborList
<1>1. PICK x \in upd[p].todo : upd'[p].todo = upd[p].todo \ {x} /\ upd'[p].cur = x
  BY DEF ReadNeighborList, TInv, TypeOK
<1>2. /\ UNCHANGED <<disk, locks, heap, me, ep, srch, nb, walk, vac, failed, cancels>>
      /\ pc'[p] \in {"loadNbrs", "write"} /\ Others(p)
  BY DEF ReadNeighborList, TInv, TypeOK, Others
<1>3. BoundedAt(p)' BY <1>1, <1>2 DEF Fresh, Bounded, BoundedAt, InChain
<1>4. Holds(p)'
  <2>1. pc'[Vacuum] \in {"idle", "remove"} <=> pc[Vacuum] \in {"idle", "remove"}
    BY <1>0, <1>2, Basics DEF Others
  <2>2. \A e : Current(e) => Current(e)' BY <1>2, <2>1 DEF Current
  <2> QED BY <1>0, <1>1, <1>2, <2>2 DEF Fresh, Holds, Using
<1> QED BY <1>0, <1>2, <1>3, <1>4, F_Read

\* Choosing the index to replace keeps the neighbor
LEMMA F_LoadElementForInsert ==
  ASSUME TInv, Fresh, NEW p \in Procs, LoadElementForInsert(p) PROVE Fresh'
<1>0. pc[p] = "loadNbrs" /\ p \notin Scanners /\ p \in Inserters \cup {Vacuum}
  BY NotScanner DEF LoadElementForInsert
<1>1. CASE Fail(p) BY <1>1, F_Abort DEF Fail
<1>2. CASE ~Fail(p)
  <2>0. upd[p] \in UpdateType BY DEF TInv, TypeOK
  <2>1. /\ UNCHANGED <<disk, locks, heap, me, ep, srch, nb, walk, vac, failed, cancels>>
        /\ pc' \in {pc, [pc EXCEPT ![p] = "write"], [pc EXCEPT ![p] = "update"]}
    BY <1>2 DEF LoadElementForInsert
  <2>2. \/ \E i : upd' = [upd EXCEPT ![p].idx = i]
        \/ \E i : upd' = [upd EXCEPT ![p].pos = i]
        \/ upd' = upd
    BY <1>2 DEF LoadElementForInsert
  <2>3. upd'[p].todo = upd[p].todo /\ upd'[p].cur = upd[p].cur
        /\ \A q \in Procs \ {p} : upd'[q] = upd[q]
    BY <2>0, <2>2 DEF UpdateType, TInv, TypeOK
  <2>4. pc'[p] \in {"loadNbrs", "write", "update"} /\ \A q \in Procs \ {p} : pc'[q] = pc[q]
    BY <1>0, <2>1 DEF TInv, TypeOK
  <2>5. Others(p) BY <2>1, <2>3, <2>4 DEF Others
  <2>6. BoundedAt(p)' BY <2>1, <2>3 DEF Fresh, Bounded, BoundedAt, InChain
  <2>7. Holds(p)'
    <3>1. pc'[Vacuum] \in {"idle", "remove"} <=> pc[Vacuum] \in {"idle", "remove"}
      BY <1>0, <2>4, Basics
    <3>2. \A e : Current(e) => Current(e)' BY <2>1, <3>1 DEF Current
    <3> QED BY <1>0, <2>1, <2>3, <2>4, <3>2 DEF Fresh, Holds, Using
  <2> QED BY <1>0, <2>1, <2>4, <2>5, <2>6, <2>7, F_Read
<1> QED BY <1>1, <1>2

\* UpdateNeighborOnDisk changes no version and no level
LEMMA F_UpdateNeighbor ==
  ASSUME TInv, TInv', Fresh, NEW p \in Procs, UpdateNeighbor(p) PROVE Fresh'
<1>0. pc[p] = "write" /\ p \notin Scanners /\ p \in Inserters \cup {Vacuum}
  BY NotScanner DEF UpdateNeighbor
<1>1. npages \in Nat BY ConstantsAssumption DEF TInv, TypeOK
<1>2. /\ UNCHANGED <<elem, npages, meta, locks, heap, me, ep, srch, nb, walk, vac, failed, cancels>>
      /\ pc'[p] = "update" /\ upd'[p] = [NoUpdate EXCEPT !.todo = upd[p].todo]
      /\ Others(p)
  BY DEF UpdateNeighbor, TInv, TypeOK, Others
<1>3. upd'[p].todo = upd[p].todo /\ upd'[p].cur.elt = NoElement
  BY <1>2 DEF NoUpdate
<1>4. \A s \in Slots :
        /\ ntup'[s].version = ntup[s].version /\ ntup'[s].level = ntup[s].level
        /\ \A lc \in Levels, i \in Widest :
             ntup'[s].nbrs[lc][i] \in {ntup[s].nbrs[lc][i], me[p].elt.slot}
  <2> DEFINE x == upd[p].cur
             j == UpdateIndex(p)
  <2>1. \/ ntup' = ntup
        \/ ntup' = [ntup EXCEPT ![x.elt.slot].nbrs[x.lc][j] = me[p].elt.slot]
    BY DEF UpdateNeighbor
  <2> HIDE DEF x, j
  <2> SUFFICES ASSUME NEW s \in Slots
               PROVE  /\ ntup'[s].version = ntup[s].version /\ ntup'[s].level = ntup[s].level
                      /\ \A lc \in Levels, i \in Widest :
                           ntup'[s].nbrs[lc][i] \in {ntup[s].nbrs[lc][i], me[p].elt.slot}
    OBVIOUS
  <2>2. ntup \in [Slots -> NtupType] /\ ntup[s] \in NtupType BY DEF TInv, TypeOK
  <2>3. ntup[s].nbrs \in [Levels -> [Widest -> Slots \cup {Nil}]] BY <2>2 DEF NtupType, Lists
  <2> DEFINE L == [ntup[s].nbrs EXCEPT ![x.lc][j] = me[p].elt.slot]
  <2>4. \A lc \in Levels, i \in Widest : L[lc][i] \in {ntup[s].nbrs[lc][i], me[p].elt.slot}
    BY <2>3
  <2>5. ntup'[s] = ntup[s] \/ ntup'[s] = [ntup[s] EXCEPT !.nbrs = L] BY <2>1, <2>2
  <2> HIDE DEF L
  <2> QED BY <2>2, <2>4, <2>5 DEF NtupType
<1>5. Kept
  <2>1. pc'[Vacuum] \in {"idle", "remove"} <=> pc[Vacuum] \in {"idle", "remove"}
    BY <1>0, <1>2, Basics DEF Others
  <2> QED BY <1>2, <2>1 DEF Kept, Current
<1>6. Paired' /\ TidRightValue' BY <1>2, <1>4 DEF Fresh, Paired, TidRightValue
<1>7. Locked' BY <1>0, <1>2, L_Same DEF Fresh, Outside, Others, Procs
<1>8. Repairing'
  <2>1. CASE p = Vacuum BY <1>2, <2>1 DEF Repairing
  <2>2. CASE p # Vacuum
    <3>1. pc'[Vacuum] = pc[Vacuum] BY <1>2, <2>2, Basics DEF Others
    <3> QED BY <1>2, <3>1 DEF Fresh, Repairing, RepairTarget
  <2> QED BY <2>1, <2>2
<1>9. InChain(meta.entry)' /\ InChain(vac.highest.slot)' BY <1>2 DEF Fresh, Bounded, InChain
<1>10. \A s \in Slots, lc \in Levels, i \in Widest : InChain(ntup[s].nbrs[lc][i])'
  BY <1>2, <1>4 DEF Fresh, Bounded, BoundedAt, InChain
<1>11. BoundedAt(p)'
  BY <1>1, <1>2, <1>3 DEF Fresh, Bounded, BoundedAt, InChain, NoElement, Nil
<1>12. Holds(p)'
  <2>1. pc'[Vacuum] \in {"idle", "remove"} <=> pc[Vacuum] \in {"idle", "remove"}
    BY <1>0, <1>2, Basics DEF Others
  <2>2. \A e : Current(e) => Current(e)' BY <1>2, <2>1 DEF Current
  <2> QED BY <1>0, <1>2, <1>3, <2>2 DEF Fresh, Holds, Using, NoElement
<1>13. p \in Inserters => (pc'[p] # "idle" => TidVal[me'[p].tid] = me'[p].elt.val)
  BY <1>0, <1>2 DEF Fresh
<1> QED BY <1>0, <1>1, <1>2, <1>5, <1>6, <1>7, <1>8, <1>9, <1>10, <1>11, <1>12, <1>13, F_Step

\* A step in which VACUUM only moves on or takes another element
LEMMA F_VacuumMoves ==
  ASSUME TInv, Fresh,
         UNCHANGED <<elem, ntup, npages, ep, srch, nb, upd>>,
         \A q \in Procs \ {Vacuum} : pc'[q] = pc[q] /\ me'[q] = me[q],
         pc[Vacuum] \in {"idle", "remove"} => pc'[Vacuum] \in {"idle", "remove"},
         pc[Vacuum] \notin Using, pc'[Vacuum] \notin {"loadNbrs", "write"},
         InChain(me[Vacuum].elt.slot)', InChain(meta.entry)', InChain(vac.highest.slot)',
         Locked', Repairing'
  PROVE  Fresh'
<1>0. Vacuum \in Procs /\ Vacuum \notin Inserters /\ Vacuum \notin Scanners
  BY Basics, ConstantsAssumption
<1>1. Others(Vacuum) BY DEF Others
<1>2. BoundedAt(Vacuum)' BY <1>0 DEF Fresh, Bounded, BoundedAt, InChain
<1>3. Holds(Vacuum)'
  <2>1. Holds(Vacuum) BY DEF Fresh
  <2> QED BY <2>1 DEF Holds
<1> QED BY <1>0, <1>1, <1>2, <1>3, F_Memory

\* VACUUM begins with no highest element
LEMMA F_BeginVacuum ==
  ASSUME TInv, Fresh, BeginVacuum PROVE Fresh'
<1>0. Vacuum \in Procs /\ Vacuum \notin Inserters BY Basics, ConstantsAssumption
<1>1. /\ UNCHANGED <<disk, locks, heap, me, ep, srch, nb, upd, walk, failed, cancels>>
      /\ pc[Vacuum] = "idle" /\ pc'[Vacuum] = "remove"
      /\ \A q \in Procs \ {Vacuum} : pc'[q] = pc[q]
      /\ vac'.highest = NoElement
  BY <1>0 DEF BeginVacuum, TInv, TypeOK, VacType
<1>2. InChain(meta.entry)' /\ InChain(me[Vacuum].elt.slot)'
  BY <1>0, <1>1 DEF Fresh, Bounded, BoundedAt, InChain
<1>3. InChain(vac.highest.slot)' /\ vac'.highest.slot = Nil
  BY <1>1, ConstantsAssumption DEF InChain, NoElement, TInv, TypeOK, Nil
<1>4. Locked' BY <1>0, <1>1, L_Same DEF Fresh, Outside, Procs
<1>5. Repairing' BY <1>1, <1>3 DEF Repairing
<1> QED BY <1>1, <1>2, <1>3, <1>4, <1>5, F_VacuumMoves DEF Using

\* Pass 1 only takes heap TIDs away, and the highest element keeps some
LEMMA F_RemoveHeapTids ==
  ASSUME TInv, Fresh, RemoveHeapTids PROVE Fresh'
<1>0. Vacuum \in Procs /\ Vacuum \notin Inserters /\ Vacuum \notin Scanners
  BY Basics, ConstantsAssumption
<1>1. /\ UNCHANGED <<ntup, npages, meta, locks, heap, pc, me, ep, srch, nb, upd, walk, failed, cancels>>
      /\ pc[Vacuum] = "remove" /\ vac.pos \in Slots /\ vac \in VacType
      /\ npages \in Nat
  BY ConstantsAssumption DEF RemoveHeapTids, TInv, TypeOK, VacType
<1> DEFINE s == vac.pos
           left == elem[s].tids \ vac.dead
<1>2. elem' = elem \/ elem' = [elem EXCEPT ![s].tids = left] BY DEF RemoveHeapTids
<1>3. elem \in [Slots -> ElemType] /\ elem[s] \in ElemType BY <1>1 DEF TInv, TypeOK
<1>4. \A q \in Slots : /\ elem'[q].val = elem[q].val /\ elem'[q].level = elem[q].level
                       /\ elem'[q].version = elem[q].version
                       /\ elem'[q].deleted = elem[q].deleted
                       /\ elem'[q].tids \subseteq elem[q].tids
                       /\ q # s => elem'[q] = elem[q]
  BY <1>2, <1>3 DEF ElemType
<1>5. Kept BY <1>1, <1>4 DEF Kept, Current, Copies
<1>6. Paired' BY <1>1, <1>4 DEF Fresh, Paired
<1>7. TidRightValue' BY <1>4 DEF Fresh, TidRightValue
<1>8. Locked' BY <1>1, L_Same DEF Fresh, Outside
<1>9. \/ vac'.highest = vac.highest
      \/ vac'.highest.slot = s /\ s <= npages /\ elem'[s].tids # {}
  <2>1. CASE s > npages BY <1>1, <2>1 DEF RemoveHeapTids, VacType
  <2>2. CASE ~(s > npages)
    <3>1. /\ elem' = [elem EXCEPT ![s].tids = left]
          /\ vac' = [vac EXCEPT !.pos = NextPos,
               !.deleted = IF left = {} THEN @ \cup {s} ELSE @,
               !.highest = IF left # {} /\ s # vac.first
                              /\ (@.slot = Nil \/ elem[s].level > @.level)
                             THEN [Load(s) EXCEPT !.live = TRUE] ELSE @]
      BY <2>2 DEF RemoveHeapTids
    <3>2. elem'[s].tids = left BY <1>1, <1>3, <3>1 DEF ElemType
    <3> DEFINE h == [Load(s) EXCEPT !.live = TRUE]
    <3>3. h.slot = s BY DEF Load
    <3>4. vac'.highest = vac.highest \/ (left # {} /\ vac'.highest = h)
      BY <1>1, <3>1 DEF VacType
    <3>5. s <= npages BY <1>1, <2>2 DEF Slots
    <3> HIDE DEF h
    <3> QED BY <3>2, <3>3, <3>4, <3>5
  <2> QED BY <2>1, <2>2
<1>10. vac'.pos = Nil \/ vac'.pos = s + 1
  BY <1>1 DEF RemoveHeapTids, NextPos, VacType
<1>11. InChain(vac.highest.slot)'
  BY <1>1, <1>9 DEF Fresh, Bounded, InChain
<1>12. Repairing'
  <2>1. ASSUME vac'.highest.slot # Nil
        PROVE  /\ elem'[vac'.highest.slot].tids # {}
               /\ vac'.pos = Nil \/ vac'.highest.slot < vac'.pos
    <3>1. CASE vac'.highest = vac.highest
      <4>1. /\ elem[vac.highest.slot].tids # {} /\ vac.highest.slot < s
            /\ vac.highest.slot \in Slots
        BY <1>1, <2>1, <3>1 DEF Fresh, Repairing, VacType, Copies, Slots, Nil
      <4>2. elem'[vac.highest.slot] = elem[vac.highest.slot] BY <1>1, <1>4, <4>1 DEF Slots
      <4> QED BY <1>1, <1>10, <3>1, <4>1, <4>2 DEF Slots
    <3>2. CASE vac'.highest.slot = s /\ s <= npages /\ elem'[s].tids # {}
      BY <1>1, <1>10, <3>2 DEF Slots
    <3> QED BY <1>9, <3>1, <3>2
  <2> QED BY <1>1, <2>1 DEF Repairing
<1>13. InChain(meta.entry)' /\ npages' \in Nat /\ npages' >= npages
  BY <1>1 DEF Fresh, Bounded, InChain
<1>14. \A q \in Slots, lc \in Levels, i \in Widest : InChain(ntup[q].nbrs[lc][i])'
  BY <1>1 DEF Fresh, Bounded, InChain
<1>15. BoundedAt(Vacuum)' BY <1>0, <1>1 DEF Fresh, Bounded, BoundedAt, InChain
<1>16. Holds(Vacuum)' BY <1>1 DEF Fresh, Holds, Using
<1>17. Others(Vacuum) BY <1>1 DEF Others
<1> QED BY <1>0, <1>5, <1>6, <1>7, <1>8, <1>11, <1>12, <1>13, <1>14, <1>15, <1>16, <1>17, F_Step

\* The barrier: when VACUUM has had HNSW_UPDATE_LOCK to itself, no insert
\* remembers an element
LEMMA F_WaitForInserts ==
  ASSUME TInv, Fresh, WaitForInserts PROVE Fresh'
<1>0. Vacuum \in Procs /\ Vacuum \notin Inserters /\ Vacuum \notin Scanners
  BY Basics, ConstantsAssumption
<1>1. /\ UNCHANGED <<disk, locks, heap, me, ep, srch, nb, upd, walk, vac, failed, cancels>>
      /\ pc[Vacuum] = "remove" /\ pc'[Vacuum] \in {"hpLock", "epLock"}
      /\ \A q \in Procs \ {Vacuum} : pc'[q] = pc[q]
      /\ pc'[Vacuum] = "hpLock" => vac.highest.slot # Nil
  BY <1>0 DEF WaitForInserts, TInv, TypeOK
<1>2. ASSUME NEW q \in Inserters PROVE pc[q] \in {"idle", "wantEx"} /\ pc'[q] = pc[q]
  BY <1>0, <1>1 DEF WaitForInserts, Free, Fresh, Locked, Procs
<1>3. ASSUME NEW q \in Inserters \cup {Vacuum} PROVE Holds(q)'
  <2>1. pc[q] \notin Using /\ pc'[q] \notin Using BY <1>1, <1>2 DEF Using
  <2>2. Holds(q) BY DEF Fresh
  <2>3. /\ srch'[q].w = {} /\ \A lc \in Levels : nb'[q][lc] = {}
        /\ upd'[q].todo = {} /\ ~upd'[q].cur.elt.live
    BY <1>1, <2>1, <2>2 DEF Holds
  <2> QED BY <2>1, <2>3 DEF Holds, Using
<1>4. Bounded' BY <1>1 DEF Fresh, Bounded, BoundedAt, InChain
<1>5. Paired' /\ TidRightValue' BY <1>1 DEF Fresh, Paired, TidRightValue
<1>6. Locked' BY <1>1, <1>2, L_Same DEF Fresh, Outside
<1>7. Repairing'
  <2>1. vac.highest.slot # Nil => ~elem[vac.highest.slot].deleted
    BY <1>1 DEF Fresh, Repairing, Paired, TInv, TypeOK, VacType, Copies
  <2> QED BY <1>1, <2>1 DEF Repairing
<1>8. \A q \in Inserters : pc'[q] # "idle" => TidVal[me'[q].tid] = me'[q].elt.val
  BY <1>1, <1>2 DEF Fresh
<1>9. \A q \in Scanners : pc'[q] \in {"idle", "entry", "search"}
  BY <1>0, <1>1 DEF Fresh, Procs
<1> QED BY <1>3, <1>4, <1>5, <1>6, <1>7, <1>8, <1>9 DEF Fresh

\* VACUUM is neither an insert nor a scan
LEMMA VacuumProc == Vacuum \in Procs /\ Vacuum \notin Inserters /\ Vacuum \notin Scanners
BY Basics, ConstantsAssumption

\* The highest element has not been deleted since pass 1
LEMMA F_LockHighest ==
  ASSUME TInv, Fresh, LockHighest PROVE Fresh'
<1>1. /\ UNCHANGED <<disk, scanLock, heap, me, ep, srch, nb, upd, walk, failed, cancels>>
      /\ pc[Vacuum] = "hpLock" /\ pc'[Vacuum] = "hpCheck"
      /\ \A q \in Procs \ {Vacuum} : pc'[q] = pc[q]
      /\ vac'.highest = Load(vac.highest.slot)
  BY VacuumProc DEF LockHighest, TInv, TypeOK, VacType
<1>2. vac.highest.slot \in Slots /\ InChain(vac.highest.slot) /\ ~elem[vac.highest.slot].deleted
  BY <1>1 DEF TInv, TypeOK, Defined, VacType, Copies, Fresh, Bounded, Repairing
<1>3. /\ vac'.highest.slot = vac.highest.slot /\ vac'.highest.slot # Nil
      /\ vac'.highest.version = elem[vac.highest.slot].version
      /\ vac'.highest.level = elem[vac.highest.slot].level
  BY <1>1, <1>2 DEF Load, Slots, Nil
<1>4. Locked' BY <1>1, VacuumProc, L_Take DEF LockHighest, Fresh, TInv, Procs
<1>5. Repairing' BY <1>1, <1>2, <1>3 DEF Repairing, RepairTarget
<1>6. InChain(meta.entry)' /\ InChain(me[Vacuum].elt.slot)' /\ InChain(vac.highest.slot)'
  BY <1>1, <1>2, <1>3, VacuumProc DEF Fresh, Bounded, BoundedAt, InChain
<1> QED BY <1>1, <1>4, <1>5, <1>6, F_VacuumMoves DEF Using

\* RepairGraphElement begins with the element as its page holds it
LEMMA F_StartRepair ==
  ASSUME TInv, Fresh, NEW e \in Copies, NEW en \in Copies, StartRepair(e, en),
         InChain(e.slot), InChain(en.slot), pc[Vacuum] \notin Using,
         pc[Vacuum] \notin {"idle", "remove"},
         e.slot # Nil, elem[e.slot].version = e.version, elem[e.slot].level = e.level,
         ~elem[e.slot].deleted \/ Vacuum \in updLock'.ex,
         Locked', vac'.highest = vac.highest,
         UNCHANGED <<disk, scanLock, heap, srch, upd, walk, failed, cancels>>
  PROVE  Fresh'
<1>1. /\ me'[Vacuum].elt.slot = e.slot /\ me'[Vacuum].elt.version = e.version
      /\ me'[Vacuum].elt.level = e.level
      /\ ep'[Vacuum] = en /\ nb'[Vacuum] = [lc \in Levels |-> {}]
      /\ pc'[Vacuum] \in {"repaired", "overwrite", "entry"}
  BY VacuumProc DEF StartRepair, TInv, TypeOK, MeType, Copies
<1>2. Others(Vacuum) BY VacuumProc DEF StartRepair, TInv, TypeOK, Others
<1>3. Repairing' BY <1>1 DEF Repairing, RepairTarget
<1>4. BoundedAt(Vacuum)' BY <1>1, VacuumProc DEF Fresh, Bounded, BoundedAt, InChain
<1>5. Holds(Vacuum)' BY <1>1 DEF Fresh, Holds, Using
<1>6. InChain(meta.entry)' /\ InChain(vac.highest.slot)' BY DEF Fresh, Bounded, InChain
<1> QED BY <1>1, <1>2, <1>3, <1>4, <1>5, <1>6, VacuumProc, F_Memory

\* The entry point is a page of the chain
LEMMA EntryPointBounded ==
  ASSUME TInv, Fresh PROVE EntryPoint \in Copies /\ InChain(EntryPoint.slot)
<1>1. npages \in Nat BY ConstantsAssumption DEF TInv, TypeOK
<1>2. InChain(EntryPoint.slot) BY <1>1 DEF EntryPoint, InChain, Fresh, Bounded, NoElement, Nil
<1> QED BY <1>2, EntryPointType DEF TInv

\* The highest element is repaired as it was loaded
LEMMA F_CheckHighest ==
  ASSUME TInv, Fresh, CheckHighest PROVE Fresh'
<1>1. /\ UNCHANGED <<disk, locks, heap, srch, upd, walk, vac, failed, cancels>>
      /\ pc[Vacuum] = "hpCheck"
  BY DEF CheckHighest
<1>2. vac.highest \in Copies /\ InChain(vac.highest.slot) /\ RepairTarget(vac.highest)
  BY <1>1 DEF TInv, TypeOK, VacType, Fresh, Bounded, Repairing
<1>3. \A q \in Inserters : pc'[q] = pc[q]
  BY VacuumProc DEF CheckHighest, StartRepair, TInv, TypeOK, Procs
<1>4. Locked' BY <1>1, <1>3, L_Same DEF Fresh, Outside
<1>5. CASE NeedsUpdated(vac.highest)
  BY <1>1, <1>2, <1>4, <1>5, F_StartRepair, EntryPointBounded DEF CheckHighest, RepairTarget, Using
<1>6. CASE ~NeedsUpdated(vac.highest)
  <2>1. /\ pc'[Vacuum] = "repaired" /\ \A q \in Procs \ {Vacuum} : pc'[q] = pc[q]
        /\ UNCHANGED <<me, ep, nb>>
    BY <1>6, VacuumProc DEF CheckHighest, TInv, TypeOK
  <2>2. Repairing' BY <2>1 DEF Repairing
  <2>3. InChain(meta.entry)' /\ InChain(me[Vacuum].elt.slot)' /\ InChain(vac.highest.slot)'
    BY <1>1, <2>1, VacuumProc DEF Fresh, Bounded, BoundedAt, InChain
  <2> QED BY <1>1, <1>4, <2>1, <2>2, <2>3, F_VacuumMoves DEF Using
<1> QED BY <1>5, <1>6

\* The entry point is repaired with all inserts excluded
LEMMA F_LockEntryPoint ==
  ASSUME TInv, Fresh, LockEntryPoint PROVE Fresh'
<1>1. /\ UNCHANGED <<elem, ntup, npages, scanLock, heap, srch, upd, walk, failed, cancels>>
      /\ pc[Vacuum] = "epLock" /\ vac'.highest = vac.highest
      /\ updLock' = Exclude(updLock, Vacuum)
  BY DEF LockEntryPoint, TInv, TypeOK, VacType
<1>2. \A q \in Procs \ {Vacuum} : pc'[q] = pc[q]
  BY VacuumProc DEF LockEntryPoint, StartRepair, TInv, TypeOK
<1>3. Locked' BY <1>1, <1>2, VacuumProc, L_Take DEF LockEntryPoint, Fresh, TInv, Procs
<1>4. Vacuum \in updLock'.ex BY <1>1 DEF Exclude, TInv, TypeOK, LockType
<1>5. vac.highest \in Copies /\ InChain(vac.highest.slot) /\ InChain(meta.entry)
  BY DEF TInv, TypeOK, VacType, Fresh, Bounded
<1>6. CASE ~(meta.entry = Nil \/ EntryBeingDeleted) /\ NeedsUpdated(Load(meta.entry))
  <2>1. /\ meta.entry \in Slots /\ Load(meta.entry) \in Copies /\ meta.entry # Nil
        /\ Load(meta.entry).slot = meta.entry
        /\ Load(meta.entry).version = elem[meta.entry].version
        /\ Load(meta.entry).level = elem[meta.entry].level
    BY <1>6, LoadType DEF TInv, TypeOK, MetaType, Load
  <2>2. StartRepair(Load(meta.entry), vac.highest) /\ meta' = meta
    BY <1>6 DEF LockEntryPoint
  <2> QED BY <1>1, <1>3, <1>4, <1>5, <2>1, <2>2, F_StartRepair DEF Using
<1>7. CASE meta.entry = Nil \/ EntryBeingDeleted \/ ~NeedsUpdated(Load(meta.entry))
  <2>1. /\ pc'[Vacuum] = "repaired" /\ UNCHANGED <<me, ep, nb>>
        /\ meta' \in {meta, EntryAlways(vac.highest)}
    BY <1>7, VacuumProc DEF LockEntryPoint, TInv, TypeOK
  <2>2. meta'.entry \in {meta.entry, vac.highest.slot}
    BY <2>1 DEF EntryAlways, TInv, TypeOK, MetaType
  <2>3. Repairing' BY <2>1 DEF Repairing
  <2>4. InChain(meta.entry)' /\ InChain(me[Vacuum].elt.slot)' /\ InChain(vac.highest.slot)'
    BY <1>1, <1>5, <2>1, <2>2, VacuumProc DEF Fresh, Bounded, BoundedAt, InChain
  <2> QED BY <1>1, <1>2, <1>3, <2>1, <2>3, <2>4, F_VacuumMoves DEF Using
<1> QED BY <1>6, <1>7

\* The repair loop takes an element that has heap TIDs
LEMMA F_LoadForRepair ==
  ASSUME TInv, Fresh, LoadForRepair PROVE Fresh'
<1>1. /\ UNCHANGED <<disk, locks, heap, ep, srch, nb, upd, walk, failed, cancels>>
      /\ pc[Vacuum] = "loop" /\ vac'.highest = vac.highest /\ vac.pos \in Slots
      /\ \A q \in Procs \ {Vacuum} : pc'[q] = pc[q] /\ me'[q] = me[q]
  BY VacuumProc DEF LoadForRepair, TInv, TypeOK, VacType
<1>2. Locked' BY <1>1, VacuumProc, L_Same DEF Fresh, Outside, Procs
<1>3. InChain(meta.entry)' /\ InChain(vac.highest.slot)'
  BY <1>1 DEF Fresh, Bounded, InChain
<1>4. CASE vac.pos <= npages /\ elem[vac.pos].tids # {}
  <2>1. me'[Vacuum].elt = Load(vac.pos) /\ pc'[Vacuum] = "check"
    BY <1>4, VacuumProc DEF LoadForRepair, TInv, TypeOK, MeType
  <2>2. /\ Load(vac.pos).slot = vac.pos /\ vac.pos # Nil
        /\ Load(vac.pos).version = elem[vac.pos].version
        /\ Load(vac.pos).level = elem[vac.pos].level
    BY <1>1 DEF Load, Slots, Nil
  <2>3. ~elem[vac.pos].deleted BY <1>1, <1>4 DEF Fresh, Paired
  <2>4. Repairing' BY <1>1, <2>1, <2>2, <2>3 DEF Repairing, RepairTarget
  <2>5. InChain(me[Vacuum].elt.slot)' BY <1>1, <1>4, <2>1, <2>2 DEF InChain
  <2> QED BY <1>1, <1>2, <1>3, <2>1, <2>4, <2>5, F_VacuumMoves DEF Using
<1>5. CASE ~(vac.pos <= npages /\ elem[vac.pos].tids # {})
  <2>1. UNCHANGED <<me, pc>> BY <1>5 DEF LoadForRepair
  <2>2. Repairing' BY <1>1, <2>1 DEF Repairing
  <2>3. InChain(me[Vacuum].elt.slot)'
    BY <1>1, <2>1, VacuumProc DEF Fresh, Bounded, BoundedAt, InChain
  <2> QED BY <1>1, <1>2, <1>3, <2>1, <2>2, <2>3, F_VacuumMoves DEF Using
<1> QED BY <1>4, <1>5

\* NeedsUpdated reads only
LEMMA F_CheckElement ==
  ASSUME TInv, Fresh, CheckElement PROVE Fresh'
<1>1. /\ UNCHANGED <<disk, locks, heap, me, ep, srch, nb, upd, walk, vac, failed, cancels>>
      /\ pc[Vacuum] = "check" /\ pc'[Vacuum] \in {"lock", "loop"}
      /\ \A q \in Procs \ {Vacuum} : pc'[q] = pc[q]
  BY VacuumProc DEF CheckElement, TInv, TypeOK
<1>2. Locked' BY <1>1, VacuumProc, L_Same DEF Fresh, Outside, Procs
<1>3. Repairing' BY <1>1 DEF Fresh, Repairing, RepairTarget
<1>4. InChain(meta.entry)' /\ InChain(me[Vacuum].elt.slot)' /\ InChain(vac.highest.slot)'
  BY <1>1, VacuumProc DEF Fresh, Bounded, BoundedAt, InChain
<1> QED BY <1>1, <1>2, <1>3, <1>4, F_VacuumMoves DEF Using

\* What the repair loop repairs is not deleted
LEMMA LoopTarget ==
  ASSUME TInv, Fresh, pc[Vacuum] \in {"lock", "wantEx"}
  PROVE  LET e == me[Vacuum].elt IN
           /\ e \in Copies /\ InChain(e.slot) /\ e.slot # Nil /\ ~elem[e.slot].deleted
           /\ elem[e.slot].version = e.version /\ elem[e.slot].level = e.level
BY VacuumProc DEF TInv, TypeOK, MeType, Fresh, Bounded, BoundedAt, Repairing, RepairTarget

\* The element did not change while VACUUM waited for the shared lock
LEMMA F_LockForRepair ==
  ASSUME TInv, Fresh, LockForRepair PROVE Fresh'
<1>1. /\ UNCHANGED <<disk, scanLock, heap, srch, upd, walk, vac, failed, cancels>>
      /\ pc[Vacuum] = "lock"
  BY DEF LockForRepair
<1>2. \A q \in Procs \ {Vacuum} : pc'[q] = pc[q]
  BY VacuumProc DEF LockForRepair, StartRepair, TInv, TypeOK
<1>3. Locked'
  <2>1. CASE updLock' = updLock BY <1>2, <2>1, VacuumProc, L_Same DEF Fresh, Outside, Procs
  <2>2. CASE updLock' # updLock
    BY <1>2, <2>2, VacuumProc, L_Take DEF LockForRepair, Fresh, TInv, Procs
  <2> QED BY <2>1, <2>2
<1>4. CASE Promotes(me[Vacuum].elt.level)
  <2>1. pc'[Vacuum] = "wantEx" /\ UNCHANGED <<updLock, me, ep, nb>>
    BY <1>4, VacuumProc DEF LockForRepair, TInv, TypeOK
  <2>2. Repairing' BY <1>1, <2>1 DEF Fresh, Repairing, RepairTarget
  <2>3. InChain(meta.entry)' /\ InChain(me[Vacuum].elt.slot)' /\ InChain(vac.highest.slot)'
    BY <1>1, <2>1, VacuumProc DEF Fresh, Bounded, BoundedAt, InChain
  <2> QED BY <1>1, <1>2, <1>3, <2>1, <2>2, <2>3, F_VacuumMoves DEF Using
<1>5. CASE ~Promotes(me[Vacuum].elt.level)
  <2>1. StartRepair(me[Vacuum].elt, EntryPoint) BY <1>5 DEF LockForRepair
  <2> QED BY <1>1, <1>3, <2>1, LoopTarget, EntryPointBounded, F_StartRepair DEF Using
<1> QED BY <1>4, <1>5

\* ... nor while it waited for the exclusive one
LEMMA F_LockExclusiveForRepair ==
  ASSUME TInv, Fresh, LockExclusiveForRepair PROVE Fresh'
<1>1. /\ UNCHANGED <<disk, scanLock, heap, srch, upd, walk, vac, failed, cancels>>
      /\ pc[Vacuum] = "wantEx" /\ StartRepair(me[Vacuum].elt, EntryPoint)
      /\ \A q \in Procs \ {Vacuum} : pc'[q] = pc[q]
  BY VacuumProc DEF LockExclusiveForRepair, StartRepair, TInv, TypeOK
<1>2. Locked' BY <1>1, VacuumProc, L_Take DEF LockExclusiveForRepair, Fresh, TInv, Procs
<1> QED BY <1>1, <1>2, LoopTarget, EntryPointBounded, F_StartRepair DEF Using

\* The tuple overwritten is that of the element repaired: its version and its
\* level are those its page holds
LEMMA F_OverwriteNeighbors ==
  ASSUME TInv, TInv', Fresh, OverwriteNeighbors PROVE Fresh'
<1> DEFINE e == me[Vacuum].elt
           s == e.slot
           v == Vacuum
<1>1. /\ UNCHANGED <<elem, npages, meta, locks, heap, me, ep, srch, walk, vac, failed, cancels>>
      /\ pc[v] = "overwrite" /\ pc'[v] = "update" /\ nb'[v] = [lc \in Levels |-> {}]
      /\ Others(v)
  BY VacuumProc DEF OverwriteNeighbors, TInv, TypeOK, Others
<1>2. upd[v] \in UpdateType /\ upd'[v].todo = Chosen(v) /\ upd'[v].cur = upd[v].cur
  BY VacuumProc DEF OverwriteNeighbors, TInv, TypeOK, UpdateType
<1>3. npages \in Nat BY ConstantsAssumption DEF TInv, TypeOK
<1>4. s \in Slots /\ elem[s].version = e.version /\ elem[s].level = e.level
  BY <1>1, VacuumProc DEF Fresh, Repairing, RepairTarget, TInv, TypeOK, MeType, Copies
<1>5. ntup'[s] = [level |-> e.level, room |-> ntup[s].room, version |-> e.version,
                  nbrs |-> [lc \in Levels |-> ListOf({x.slot : x \in nb[v][lc]})]]
  BY <1>4 DEF OverwriteNeighbors, TInv, TypeOK
<1>6. \A q \in Slots : q # s => ntup'[q] = ntup[q]
  BY DEF OverwriteNeighbors, TInv, TypeOK
<1> HIDE DEF e, s, v
<1>7. Kept BY <1>1 DEF Kept, Current, v
<1>8. Paired' /\ TidRightValue'
  BY <1>1, <1>4, <1>5, <1>6 DEF Fresh, Paired, TidRightValue
<1>9. Locked' BY <1>1, VacuumProc, L_Same DEF Fresh, Outside, Others, Procs, v
<1>10. Repairing' BY <1>1 DEF Repairing, v
<1>11. InChain(meta.entry)' /\ InChain(vac.highest.slot)' BY <1>1 DEF Fresh, Bounded, InChain
<1>12. \A q \in Slots, lc \in Levels, i \in Widest : InChain(ntup[q].nbrs[lc][i])'
  <2> SUFFICES ASSUME NEW q \in Slots, NEW lc \in Levels, NEW i \in Widest
               PROVE  ntup'[q].nbrs[lc][i] <= npages
    BY <1>1 DEF InChain
  <2>1. CASE q = s
    <3>1. ntup'[q].nbrs[lc] = ListOf({x.slot : x \in nb[v][lc]}) BY <1>5, <2>1
    <3> QED BY <3>1, VacuumProc, ChosenListBounded DEF v
  <2>2. CASE q # s BY <1>6, <2>2 DEF Fresh, Bounded, InChain
  <2> QED BY <2>1, <2>2
<1>13. BoundedAt(v)'
  <2>1. BoundedAt(v) BY VacuumProc DEF Fresh, Bounded, v
  <2>2. \A y \in Chosen(v) : InChain(y.elt.slot) BY <2>1 DEF Chosen, BoundedAt
  <2> QED BY <1>1, <1>2, <2>1, <2>2 DEF BoundedAt, InChain
<1>14. Holds(v)'
  <2>1. Holds(v) BY DEF Fresh, v
  <2>2. \A x : Current(x) => Current(x)' BY <1>1 DEF Current, v
  <2>3. \A y \in Chosen(v) : y.elt.live /\ Current(y.elt) BY <2>1 DEF Chosen, Holds
  <2> QED BY <1>1, <1>2, <2>1, <2>2, <2>3 DEF Holds, Using
<1> QED
  <2>1. v \in Procs /\ v \notin Inserters /\ v \notin Scanners BY VacuumProc DEF v
  <2> QED BY <1>1, <1>3, <1>7, <1>8, <1>9, <1>10, <1>11, <1>12, <1>13, <1>14, <2>1, F_Step

\* Nothing is remembered of the neighbors once they are updated
LEMMA F_NeighborsRepaired ==
  ASSUME TInv, Fresh, NeighborsRepaired PROVE Fresh'
<1>1. /\ UNCHANGED <<disk, locks, heap, me, ep, srch, nb, upd, walk, vac, failed, cancels>>
      /\ pc[Vacuum] = "update" /\ pc'[Vacuum] = "repaired" /\ Others(Vacuum)
  BY VacuumProc DEF NeighborsRepaired, TInv, TypeOK, Others
<1>2. Locked' BY <1>1, VacuumProc, L_Same DEF Fresh, Outside, Others, Procs
<1>3. Repairing' BY <1>1 DEF Repairing
<1>4. InChain(meta.entry)' /\ InChain(vac.highest.slot)' /\ BoundedAt(Vacuum)'
  BY <1>1, VacuumProc DEF Fresh, Bounded, BoundedAt, InChain
<1>5. Holds(Vacuum)'
  <2>1. \A x : Current(x) => Current(x)' BY <1>1 DEF Current
  <2> QED BY <1>1, <2>1 DEF Fresh, Holds, Using
<1> QED BY <1>1, <1>2, <1>3, <1>4, <1>5, VacuumProc, F_Memory

\* The end of a repair forgets the element
LEMMA F_FinishRepair ==
  ASSUME TInv, Fresh, FinishRepair PROVE Fresh'
<1>1. /\ UNCHANGED <<elem, ntup, npages, scanLock, heap, failed, cancels>>
      /\ pc[Vacuum] = "repaired" /\ pc'[Vacuum] \in {"epLock", "loop"}
      /\ \A q \in Procs \ {Vacuum} : pc'[q] = pc[q]
      /\ updLock' = Drop(updLock, Vacuum) /\ Reset(Vacuum)
      /\ vac'.highest = vac.highest
      /\ meta' \in {meta, EntryGreater(me[Vacuum].elt)}
  BY VacuumProc DEF FinishRepair, TInv, TypeOK, VacType
<1>2. Others(Vacuum) BY <1>1, VacuumProc, OthersReset
<1>3. BoundedAt(Vacuum)' /\ Holds(Vacuum)' BY <1>1, VacuumProc, ResetFresh
<1>4. Locked' BY <1>1, VacuumProc, L_Drop DEF Fresh, Procs
<1>5. Repairing' BY <1>1 DEF Repairing
<1>6. InChain(meta.entry)' /\ InChain(vac.highest.slot)'
  <2>1. meta'.entry \in {meta.entry, me[Vacuum].elt.slot}
    BY <1>1 DEF EntryGreater, TInv, TypeOK, MetaType
  <2> QED BY <1>1, <2>1, VacuumProc DEF Fresh, Bounded, BoundedAt, InChain
<1> QED BY <1>1, <1>2, <1>3, <1>4, <1>5, <1>6, VacuumProc, F_Memory

\* The second barrier leaves the pages alone
LEMMA F_WaitForScans ==
  ASSUME TInv, Fresh, WaitForScans PROVE Fresh'
<1>1. /\ UNCHANGED <<disk, locks, heap, me, ep, srch, nb, upd, walk, failed, cancels>>
      /\ pc[Vacuum] = "loop" /\ pc'[Vacuum] = "mark" /\ vac'.highest = vac.highest
      /\ \A q \in Procs \ {Vacuum} : pc'[q] = pc[q]
  BY VacuumProc DEF WaitForScans, TInv, TypeOK, VacType
<1>2. Locked' BY <1>1, VacuumProc, L_Same DEF Fresh, Outside, Procs
<1>3. Repairing' BY <1>1 DEF Repairing
<1>4. InChain(meta.entry)' /\ InChain(me[Vacuum].elt.slot)' /\ InChain(vac.highest.slot)'
  BY <1>1, VacuumProc DEF Fresh, Bounded, BoundedAt, InChain
<1> QED BY <1>1, <1>2, <1>3, <1>4, F_VacuumMoves DEF Using

\* MarkDeleted only takes elements nobody remembers
LEMMA F_MarkDeleted ==
  ASSUME TInv, TInv', Fresh, MarkDeleted PROVE Fresh'
<1> DEFINE s == vac.pos
           v == NextVersion(elem[s].version)
<1>1. /\ UNCHANGED <<npages, meta, locks, heap, pc, me, ep, srch, nb, upd, walk, failed, cancels>>
      /\ pc[Vacuum] = "mark" /\ s \in Slots /\ npages \in Nat /\ vac'.highest = vac.highest
  <2>1. vac \in VacType /\ npages \in 0..NSlots BY DEF TInv, TypeOK
  <2>2. vac.pos \in Slots BY <2>1 DEF MarkDeleted, VacType
  <2>3. vac'.highest = vac.highest BY <2>1 DEF MarkDeleted, VacType
  <2> QED BY <2>1, <2>2, <2>3, ConstantsAssumption DEF MarkDeleted
<1>2. \/ elem' = elem /\ ntup' = ntup
      \/ /\ elem[s].tids = {}
         /\ elem' = [elem EXCEPT ![s].deleted = TRUE, ![s].version = v]
         /\ ntup' = [ntup EXCEPT ![s].nbrs = NoNeighbors, ![s].version = v]
  BY DEF MarkDeleted
<1>3. /\ elem \in [Slots -> ElemType] /\ ntup \in [Slots -> NtupType]
      /\ elem[s] \in ElemType /\ ntup[s] \in NtupType
  BY <1>1 DEF TInv, TypeOK
<1> HIDE DEF s, v
<1>4. \/ elem' = elem /\ ntup' = ntup
      \/ /\ elem[s].tids = {}
         /\ \A q \in Slots : q # s => elem'[q] = elem[q] /\ ntup'[q] = ntup[q]
         /\ elem'[s].tids = {} /\ elem'[s].level = elem[s].level
         /\ elem'[s].version = v /\ ntup'[s].version = v
         /\ ntup'[s].level = ntup[s].level /\ ntup'[s].nbrs = NoNeighbors
  <2>1. CASE elem' = elem /\ ntup' = ntup BY <2>1
  <2>2. CASE ~(elem' = elem /\ ntup' = ntup)
    <3>1. /\ elem'[s] = [[elem[s] EXCEPT !.deleted = TRUE] EXCEPT !.version = v]
          /\ ntup'[s] = [[ntup[s] EXCEPT !.nbrs = NoNeighbors] EXCEPT !.version = v]
          /\ elem[s].tids = {}
          /\ \A q \in Slots : q # s => elem'[q] = elem[q] /\ ntup'[q] = ntup[q]
      BY <1>1, <1>2, <1>3, <2>2
    <3> QED BY <1>3, <3>1 DEF ElemType, NtupType
  <2> QED BY <2>1, <2>2
<1>5. Kept
  <2>1. ASSUME NEW x \in Copies, InChain(x.slot), Current(x) PROVE elem'[x.slot] = elem[x.slot]
    BY <1>1, <1>4, <2>1 DEF Current, Copies
  <2> QED BY <1>1, <2>1 DEF Kept, Current
<1>6. Paired' BY <1>1, <1>4 DEF Fresh, Paired
<1>7. TidRightValue'
  <2>1. \A q \in Slots : elem'[q] = elem[q] \/ elem'[q].tids = {} BY <1>4
  <2> QED BY <2>1 DEF Fresh, TidRightValue
<1>8. Locked' BY <1>1, L_Same DEF Fresh, Outside
<1>9. Repairing' BY <1>1 DEF Repairing
<1>10. InChain(meta.entry)' /\ InChain(vac.highest.slot)' BY <1>1 DEF Fresh, Bounded, InChain
<1>11. \A q \in Slots, lc \in Levels, i \in Widest : InChain(ntup[q].nbrs[lc][i])'
  BY <1>1, <1>4 DEF Fresh, Bounded, InChain, NoNeighbors, Nil
<1>12. BoundedAt(Vacuum)' BY <1>1, VacuumProc DEF Fresh, Bounded, BoundedAt, InChain
<1>13. Holds(Vacuum)' BY <1>1 DEF Fresh, Holds, Using
<1>14. Others(Vacuum) BY <1>1 DEF Others
<1> QED BY <1>1, <1>5, <1>6, <1>7, <1>8, <1>9, <1>10, <1>11, <1>12, <1>13, <1>14, VacuumProc, F_Step

\* The end of VACUUM forgets the highest element
LEMMA F_EndVacuum ==
  ASSUME TInv, Fresh, EndVacuum PROVE Fresh'
<1>1. /\ UNCHANGED <<elem, ntup, npages, locks, me, ep, srch, nb, upd, walk, cancels>>
      /\ pc[Vacuum] = "mark" /\ pc'[Vacuum] = "idle" /\ vac'.highest = NoElement
      /\ \A q \in Procs \ {Vacuum} : pc'[q] = pc[q]
      /\ meta'.entry = meta.entry
  BY VacuumProc DEF EndVacuum, TInv, TypeOK, VacType, MetaType
<1>2. Locked' BY <1>1, VacuumProc, L_Same DEF Fresh, Outside, Procs
<1>3. Repairing' BY <1>1 DEF Repairing
<1>4. InChain(meta.entry)' /\ InChain(me[Vacuum].elt.slot)'
  BY <1>1, VacuumProc DEF Fresh, Bounded, BoundedAt, InChain
<1>5. InChain(vac.highest.slot)'
  BY <1>1, ConstantsAssumption DEF InChain, NoElement, TInv, TypeOK, Nil
<1> QED BY <1>1, <1>2, <1>3, <1>4, <1>5, F_VacuumMoves DEF Using

\* A scan takes no part in updates
LEMMA F_BeginScan ==
  ASSUME TInv, Fresh, NEW p \in Scanners, BeginScan(p) PROVE Fresh'
<1>0. p \in Procs /\ p \notin Inserters /\ p # Vacuum BY ConstantsAssumption DEF Procs
<1>1. /\ UNCHANGED <<disk, updLock, heap, me, srch, nb, upd, walk, vac, failed, cancels>>
      /\ pc'[p] = "entry" /\ ep'[p] = EntryPoint /\ Others(p)
  BY <1>0 DEF BeginScan, TInv, TypeOK, Others
<1>2. Locked' BY <1>0, <1>1, L_Same DEF Fresh, Outside, Others, Procs
<1>3. InChain(meta.entry)' /\ BoundedAt(p)'
  BY <1>0, <1>1, EntryPointBounded DEF Fresh, Bounded, BoundedAt, InChain
<1> QED BY <1>0, <1>1, <1>2, <1>3, F_Local

\* ... nor does its end
LEMMA F_EndScan ==
  ASSUME TInv, Fresh, NEW p \in Scanners, EndScan(p) PROVE Fresh'
<1>0. p \in Procs /\ p \notin Inserters /\ p # Vacuum BY ConstantsAssumption DEF Procs
<1>1. /\ UNCHANGED <<disk, updLock, heap, vac, cancels>> /\ Reset(p)
      /\ pc'[p] = "idle" /\ \A q \in Procs \ {p} : pc'[q] = pc[q]
  BY <1>0 DEF EndScan, TInv, TypeOK
<1>2. Others(p) BY <1>0, <1>1, OthersReset
<1>3. Locked' BY <1>0, <1>1, L_Same DEF Fresh, Outside, Procs
<1>4. InChain(meta.entry)' /\ BoundedAt(p)'
  BY <1>0, <1>1, ResetFresh DEF Fresh, Bounded, InChain
<1> QED BY <1>0, <1>1, <1>2, <1>3, <1>4, F_Local

\* The heap may declare a row dead at any time
LEMMA F_RowDies ==
  ASSUME TInv, Fresh, NEW t \in Tids, RowDies(t) PROVE Fresh'
<1>1. /\ UNCHANGED <<disk, locks, pc, me, ep, srch, nb, upd, walk, vac, failed, cancels>>
      /\ Others(Vacuum)
  BY DEF RowDies, Others
<1>2. Locked' BY <1>1, L_Same DEF Fresh, Outside
<1>3. Repairing' BY <1>1 DEF Fresh, Repairing, RepairTarget
<1>4. InChain(meta.entry)' /\ InChain(vac.highest.slot)' /\ BoundedAt(Vacuum)'
  BY <1>1, VacuumProc DEF Fresh, Bounded, BoundedAt, InChain
<1>5. Holds(Vacuum)'
  <2>1. \A x : Current(x) => Current(x)' BY <1>1 DEF Current
  <2> QED BY <1>1, <2>1 DEF Fresh, Holds
<1> QED BY <1>1, <1>2, <1>3, <1>4, <1>5, VacuumProc, F_Memory

\* Every step of a search keeps what backends remember true
LEMMA F_SearchStep ==
  ASSUME TInv, Fresh, NEW p \in Procs, SearchStep(p) PROVE Fresh'
BY F_EntryCandidate, F_ExpandCandidate, F_LoadUnvisited, F_DescendLayer, F_FinishLayer
   DEF SearchStep

\* So does every step of a neighbor update
LEMMA F_UpdateStep ==
  ASSUME TInv, TInv', Fresh, NEW p \in Procs, UpdateStep(p) PROVE Fresh'
BY F_ReadNeighborList, F_LoadElementForInsert, F_UpdateNeighbor DEF UpdateStep

\* So does every step
LEMMA F_Next ==
  ASSUME TInv, TInv', Fresh, [Next]_vars PROVE Fresh'
<1>1. CASE UNCHANGED vars
  <2>1. \A x : Current(x) => Current(x)' BY <1>1 DEF Current, vars
  <2>2. \A p \in Inserters \cup {Vacuum} : Holds(p) => Holds(p)'
    BY <1>1, <2>1 DEF Holds, vars
  <2>3. Bounded' BY <1>1 DEF Fresh, Bounded, BoundedAt, InChain, vars
  <2>4. Repairing' BY <1>1 DEF Fresh, Repairing, RepairTarget, vars
  <2>5. Paired' /\ Locked' /\ TidRightValue'
    BY <1>1 DEF Fresh, Paired, Locked, TidRightValue, vars
  <2> QED BY <1>1, <2>2, <2>3, <2>4, <2>5 DEF Fresh, vars
<1>2. ASSUME NEW p \in Inserters, InsertStep(p) PROVE Fresh'
  <2>1. p \in Procs BY DEF Procs
  <2> QED
    BY <1>2, <2>1, F_LockForInsert, F_SearchStep, F_GiveUpDuplicates, F_AddDuplicate,
       F_ReplaceDeleted, F_NextPage, F_AppendPage, F_UpdateInsertPage, F_UpdateStep,
       F_FinishInsert DEF InsertStep
<1>3. ASSUME NEW p \in Inserters, NEW t \in Tids, NEW l \in Levels, BeginInsert(p, t, l)
      PROVE  Fresh'
  BY <1>3, F_BeginInsert
<1>4. CASE VacuumStep
  BY <1>4, VacuumProc, F_RemoveHeapTids, F_WaitForInserts, F_LockHighest, F_CheckHighest,
     F_LockEntryPoint, F_LoadForRepair, F_CheckElement, F_LockForRepair,
     F_LockExclusiveForRepair, F_SearchStep, F_OverwriteNeighbors, F_UpdateStep,
     F_NeighborsRepaired, F_FinishRepair, F_WaitForScans, F_MarkDeleted, F_EndVacuum
     DEF VacuumStep
<1>5. CASE BeginVacuum BY <1>5, F_BeginVacuum
<1>6. ASSUME NEW p \in Scanners, ScanStep(p) \/ BeginScan(p) PROVE Fresh'
  <2>1. p \in Procs BY DEF Procs
  <2> QED BY <1>6, <2>1, F_SearchStep, F_EndScan, F_BeginScan DEF ScanStep
<1>7. ASSUME NEW t \in Tids, RowDies(t) PROVE Fresh' BY <1>7, F_RowDies
<1>8. ASSUME NEW p \in Procs, Cancel(p) PROVE Fresh'
  BY <1>8, F_Abort DEF Cancel
<1> QED BY <1>1, <1>2, <1>3, <1>4, <1>5, <1>6, <1>7, <1>8 DEF Next

\* The pages CREATE INDEX writes, and backends that have not begun
LEMMA F_Init ==
  ASSUME Init PROVE Fresh
<1>0. TInv BY T_Init
<1>1. npages = NBuilt /\ NBuilt \in Nat /\ NBuilt <= NSlots
  BY ConstantsAssumption DEF Init, NBuilt
<1>2. ASSUME NEW p \in Procs
      PROVE  /\ pc[p] = "idle" /\ me[p] = [elt |-> NoElement, tid |-> Nil]
             /\ ep[p] = NoElement /\ srch[p] = NoSearch
             /\ nb[p] = [lc \in Levels |-> {}] /\ upd[p] = NoUpdate
  BY DEF Init
<1>3. ASSUME NEW p \in Procs PROVE BoundedAt(p) /\ Holds(p)
  <2>1. BoundedAt(p)
    BY <1>1, <1>2 DEF BoundedAt, InChain, NoElement, NoSearch, NoUpdate, Nil
  <2>2. Holds(p) BY <1>2 DEF Holds, NoElement, NoSearch, NoUpdate, Using
  <2> QED BY <2>1, <2>2
<1>4. \A s \in Slots, lc \in Levels, i \in Widest : InChain(ntup[s].nbrs[lc][i])
  <2> SUFFICES ASSUME NEW s \in Slots, NEW lc \in Levels, NEW i \in Widest
               PROVE  ntup[s].nbrs[lc][i] <= NBuilt
    BY <1>1 DEF InChain
  <2>1. NoNeighbors[lc][i] = Nil BY DEF NoNeighbors
  <2>2. CASE s <= NBuilt
    <3> DEFINE S == {t \in 1..NBuilt \ {s} : BuiltLevel[t] >= lc}
    <3>1. ntup[s].nbrs = BuiltNbrs(s) BY <2>2 DEF Init
    <3>2. BuiltNbrs(s)[lc] = IF lc <= BuiltLevel[s] THEN ListOf(S) ELSE NoNeighbors[lc]
      BY DEF BuiltNbrs
    <3>3. \A t \in S : t \in 1..NBuilt OBVIOUS
    <3> HIDE DEF S
    <3>4. ListOf(S)[i] \in S \cup {Nil} BY ListOfRange
    <3>5. ntup[s].nbrs[lc][i] \in S \cup {Nil} BY <2>1, <3>1, <3>2, <3>4
    <3> QED BY <1>1, <3>3, <3>5 DEF Nil
  <2>3. CASE ~(s <= NBuilt)
    <3>1. ntup[s].nbrs = NoNeighbors BY <2>3 DEF Init, NullNtup
    <3> QED BY <1>1, <2>1, <3>1 DEF Nil
  <2> QED BY <2>2, <2>3
<1>5. InChain(meta.entry) /\ InChain(vac.highest.slot)
  <2>1. vac.highest.slot = Nil BY DEF Init, NoElement
  <2>2. meta.entry = Nil \/ meta.entry \in 1..NBuilt
    BY <1>1, BuiltEntryType DEF Init
  <2> QED BY <1>1, <2>1, <2>2 DEF InChain, Nil
<1>6. Paired
  <2> SUFFICES ASSUME NEW s \in Slots
               PROVE  /\ ntup[s].version = elem[s].version /\ ntup[s].level = elem[s].level
                      /\ elem[s].deleted => elem[s].tids = {}
    BY DEF Paired
  <2> QED BY DEF Init, NullElem, NullNtup
<1>7. TidRightValue
  <2> SUFFICES ASSUME NEW s \in Slots, NEW t \in elem[s].tids PROVE TidVal[t] = elem[s].val
    BY DEF TidRightValue
  <2> QED BY DEF Init, NullElem
<1>8. Locked BY <1>2 DEF Init, Locked, Procs
<1>9. Repairing BY <1>2, Basics DEF Repairing
<1>10. Bounded BY <1>3, <1>4, <1>5 DEF Bounded
<1> QED BY <1>2, <1>3, <1>6, <1>7, <1>8, <1>9, <1>10 DEF Fresh, Procs

\* Inserts and VACUUM never act on what a page no longer holds
THEOREM AlwaysCoherent == Spec => []Coherent
<1>1. Init => TInv /\ Fresh BY T_Init, F_Init
<1>2. TInv /\ Fresh /\ [Next]_vars => (TInv /\ Fresh)' BY T_Next, F_Next
<1>3. TInv /\ Fresh => Coherent BY DEF Coherent, TInv
<1> QED BY <1>1, <1>2, <1>3, PTL DEF Spec

\* AddDuplicateOnDisk, which trusts a comparison made before it locked the
\* page, never adds a heap TID to an element with another value
THEOREM ValuesCorrect == Spec => []TidRightValue
<1>1. Coherent => TidRightValue BY DEF Coherent, Fresh
<1> QED BY <1>1, AlwaysCoherent, PTL

\* UpdateNeighborOnDisk, which does not look at the tuple's version, never
\* writes into the neighbor tuple of an element other than the one selected
THEOREM WritesCorrect == Spec => []WriteTarget
<1>1. ASSUME Coherent PROVE WriteTarget
  <2> SUFFICES ASSUME NEW p \in Procs, pc[p] = "write"
               PROVE  LET x == upd[p].cur.elt IN
                        ntup[x.slot].version = x.version /\ ntup[x.slot].level = x.level
    BY DEF WriteTarget
  <2>1. TInv /\ Fresh BY <1>1 DEF Coherent, TInv
  <2>2. p \in Inserters \cup {Vacuum} BY <2>1 DEF Fresh, Procs
  <2>3. upd[p].cur.elt \in Copies BY <2>1 DEF TInv, TypeOK, UpdateType, Wanted
  <2>4. Current(upd[p].cur.elt) BY <2>1, <2>2 DEF Fresh, Holds
  <2> QED BY <2>1, <2>3, <2>4 DEF Fresh, Paired, Current, Copies
<1> QED BY <1>1, AlwaysCoherent, PTL

-----------------------------------------------------------------------------
(* The heap TIDs of elements, and the entry point                          *)

\* The steps of an insert after it has placed its TID
Placing == {"setPage", "update", "loadNbrs", "write"}
\* The steps of a repair, whichever of the three it is for
RepairSteps == {"entry", "search", "overwrite", "update", "loadNbrs", "write", "repaired"}
InIndex(t) == \E s \in Slots : t \in elem[s].tids

\* A row is in one element at most, on a page of the chain; it is in one if it
\* is committed and in none if the heap may hand out its TID
Matched ==
  /\ \A t \in Tids : \A r, s \in Slots : t \in elem[r].tids /\ t \in elem[s].tids => r = s
  /\ \A s \in Slots : elem[s].tids # {} => InChain(s)
  /\ \A t \in Tids : /\ heap[t] = "live" => InIndex(t)
                     /\ heap[t] \in {"free", "gone"} => ~InIndex(t)

\* An insert has a TID of its own, in the element it has placed or in none
Inserting(p) ==
  pc[p] # "idle" =>
    /\ heap[me[p].tid] = "inserting"
    /\ \A q \in Inserters : pc[q] # "idle" /\ me[q].tid = me[p].tid => q = p
    /\ IF pc[p] \in Placing THEN /\ me[p].tid \in elem[me[p].elt.slot].tids
                                 /\ me[p].elt.slot # Nil /\ elem[me[p].elt.slot].level = me[p].elt.level
       ELSE ~InIndex(me[p].tid)

\* VACUUM's TIDs stay dead; pages behind it have none of them, and those that
\* have no TID are on its list
Behind(s) == pc[Vacuum] = "remove" => vac.pos = Nil \/ s < vac.pos
Removing ==
  pc[Vacuum] # "idle" =>
    /\ \A t \in vac.dead : heap[t] = "dead"
    /\ \A s \in Slots : Behind(s) => elem[s].tids \cap vac.dead = {}
    /\ \A s \in Slots : Behind(s) /\ InChain(s) /\ elem[s].tids = {} => s \in vac.deleted

\* An element a metapage may get as its entry point: it has heap TIDs
Alive(x) == x.slot # Nil /\ elem[x.slot].tids # {} /\ elem[x.slot].level = x.level
\* The repair loop has begun
Replaced == pc[Vacuum] \in {"loop", "check", "lock", "wantEx", "mark"}
            \/ (pc[Vacuum] \in RepairSteps /\ vac.ret # "hp")
Entered ==
  /\ EntryOk
  /\ pc[Vacuum] = "hpCheck" => vac.ret = "hp"
  /\ Replaced /\ meta.entry # Nil => elem[meta.entry].tids # {}
  /\ pc[Vacuum] # "idle" /\ vac.highest.slot # Nil => Alive(vac.highest)
  /\ pc[Vacuum] \in {"check", "lock", "wantEx"} \/ (pc[Vacuum] \in RepairSteps /\ vac.ret = "loop")
       => Alive(me[Vacuum].elt)

Steady == Matched /\ (\A p \in Inserters : Inserting(p)) /\ Removing /\ Entered

\* Types that the proofs below need
LEMMA TidTypes ==
  ASSUME TInv
  PROVE  /\ Vacuum \in Procs /\ Vacuum \notin Inserters /\ Inserters \subseteq Procs
         /\ \A p \in Procs : me[p] \in MeType /\ me[p].elt \in Copies /\ pc[p] \in Labels
         /\ \A p \in Procs : me[p].elt.slot # Nil => me[p].elt.slot \in Slots
         /\ elem \in [Slots -> ElemType] /\ npages \in Nat /\ npages <= NSlots /\ vac \in VacType
         /\ vac.highest \in Copies /\ (vac.highest.slot # Nil => vac.highest.slot \in Slots)
         /\ (vac.pos # Nil => vac.pos \in Slots) /\ vac.dead \subseteq Tids /\ vac.deleted \subseteq Slots
         /\ (meta.entry # Nil => meta.entry \in Slots) /\ meta \in MetaType
         /\ \A p \in Inserters : pc[p] # "idle" => me[p].tid \in Tids
         /\ heap \in [Tids -> {"free", "inserting", "live", "dead", "gone"}]
<1>1. /\ me \in [Procs -> MeType] /\ elem \in [Slots -> ElemType] /\ npages \in 0..NSlots /\ vac \in VacType
      /\ meta \in MetaType /\ pc \in [Procs -> Labels]
      /\ heap \in [Tids -> {"free", "inserting", "live", "dead", "gone"}] /\ NSlots \in Nat
  BY ConstantsAssumption DEF TInv, TypeOK
<1>2. \A p \in Procs : me[p] \in MeType /\ me[p].elt \in Copies /\ pc[p] \in Labels BY <1>1 DEF MeType
<1>3. \A x \in Copies : x.slot # Nil => x.slot \in Slots BY DEF Copies
<1>4. /\ vac.highest \in Copies /\ (vac.pos # Nil => vac.pos \in Slots) /\ vac.dead \subseteq Tids
      /\ vac.deleted \subseteq Slots
  BY <1>1 DEF VacType
<1>5. meta.entry # Nil => meta.entry \in Slots BY <1>1 DEF MetaType
<1>6. \A p \in Inserters : pc[p] # "idle" => me[p].tid \in Tids
  <2>1. \A p \in Inserters : pc[p] # "idle" => me[p].tid # Nil BY DEF TInv, Defined, Ready, Procs
  <2>2. \A p \in Procs : me[p].tid \in Tids \cup {Nil} BY <1>2 DEF MeType
  <2> QED BY <2>1, <2>2 DEF Procs
<1>7. npages \in Nat /\ npages <= NSlots BY <1>1
<1> QED BY <1>1, <1>2, <1>3, <1>4, <1>5, <1>6, <1>7, VacuumProc DEF Procs

\* A step that neither moves a heap TID nor ends or places an insert
LEMMA M_Keep ==
  ASSUME TInv, Matched, \A p \in Inserters : Inserting(p), heap' = heap,
         \A s \in Slots : InChain(s) => InChain(s)',
         \A s \in Slots : elem'[s].tids = elem[s].tids,
         \A s \in Slots : elem[s].tids # {} => elem'[s].level = elem[s].level,
         \A q \in Inserters : /\ me'[q] = me[q] /\ (pc'[q] = "idle" <=> pc[q] = "idle")
                              /\ pc'[q] \in Placing <=> pc[q] \in Placing
  PROVE  Matched' /\ \A p \in Inserters : Inserting(p)'
<1>1. \A t : InIndex(t)' <=> InIndex(t) BY DEF InIndex
<1>2. Matched' BY <1>1 DEF Matched
<1>3. ASSUME NEW p \in Inserters PROVE Inserting(p)'
  <2>1. Inserting(p) /\ (me[p].elt.slot # Nil => me[p].elt.slot \in Slots) BY TidTypes
  <2>2. \A q \in Inserters : pc'[q] # "idle" /\ me'[q].tid = me'[p].tid /\ pc'[p] # "idle" => q = p
    BY <2>1 DEF Inserting
  <2>3. pc'[p] # "idle" => heap'[me'[p].tid] = "inserting" BY <2>1 DEF Inserting
  <2>4. CASE pc[p] \in Placing BY <1>1, <2>1, <2>2, <2>3, <2>4 DEF Inserting
  <2>5. CASE pc[p] \notin Placing BY <1>1, <2>1, <2>2, <2>3, <2>5 DEF Inserting
  <2> QED BY <2>4, <2>5
<1> QED BY <1>2, <1>3

\* VACUUM's list is as good as before when VACUUM does nothing
LEMMA R_Keep ==
  ASSUME Removing, pc'[Vacuum] = pc[Vacuum], vac' = vac,
         \A t \in vac.dead : heap[t] = "dead" => heap'[t] = "dead",
         \A s \in Slots : pc[Vacuum] # "idle" /\ Behind(s) => elem'[s].tids \cap vac.dead \subseteq elem[s].tids,
         \A s \in Slots : InChain(s)' /\ elem'[s].tids = {} => InChain(s) /\ elem[s].tids = {}
  PROVE  Removing'
<1>1. \A s : Behind(s)' <=> Behind(s) BY DEF Behind
<1> QED BY <1>1 DEF Removing

\* Elements with heap TIDs are what they were
LiveKept == \A s \in Slots : elem[s].tids # {} => elem'[s].tids # {} /\ elem'[s].level = elem[s].level
\* Then the entry point and what may become it are as good as before
LEMMA E_Keep ==
  ASSUME TInv, Entered, EntryOk', LiveKept, pc'[Vacuum] = pc[Vacuum], me'[Vacuum] = me[Vacuum], vac' = vac,
         meta'.entry # meta.entry => meta'.entry = Nil \/ elem'[meta'.entry].tids # {}
  PROVE  Entered'
<1>1. Replaced' <=> Replaced BY DEF Replaced
<1>2. \A x \in Copies : Alive(x) => Alive(x)' BY DEF Alive, LiveKept, Copies
<1>3. vac.highest \in Copies /\ me[Vacuum].elt \in Copies /\ (meta.entry # Nil => meta.entry \in Slots) BY TidTypes
<1>4. Replaced' /\ meta'.entry # Nil => elem'[meta'.entry].tids # {}
  BY <1>1, <1>3 DEF Entered, LiveKept
<1>5. Alive(vac.highest) => Alive(vac.highest)' BY <1>2, <1>3 DEF Alive
<1>6. Alive(me[Vacuum].elt) => Alive(me[Vacuum].elt)' BY <1>2, <1>3 DEF Alive
<1> QED BY <1>4, <1>5, <1>6 DEF Entered

\* A step of an insert or a scan that writes no element
LEMMA S_Quiet ==
  ASSUME TInv, Steady, NEW p \in Procs, p # Vacuum, UNCHANGED <<elem, npages, heap, vac>>,
         meta'.entry = meta.entry, meta'.level = meta.level,
         \A q \in Procs \ {p} : pc'[q] = pc[q] /\ me'[q] = me[q],
         p \in Inserters => /\ me'[p] = me[p] /\ (pc'[p] = "idle" <=> pc[p] = "idle")
                            /\ pc'[p] \in Placing <=> pc[p] \in Placing
  PROVE  Steady'
<1>1. pc'[Vacuum] = pc[Vacuum] /\ me'[Vacuum] = me[Vacuum] /\ Inserters \subseteq Procs BY TidTypes
<1>2. \A q \in Inserters : /\ me'[q] = me[q] /\ (pc'[q] = "idle" <=> pc[q] = "idle")
                           /\ pc'[q] \in Placing <=> pc[q] \in Placing
  BY <1>1
<1>3. \A s \in Slots : InChain(s)' <=> InChain(s) BY DEF InChain
<1>4. Matched' /\ \A q \in Inserters : Inserting(q)' BY <1>2, <1>3, M_Keep DEF Steady
<1>5. Removing' BY <1>1, <1>3, R_Keep DEF Steady
<1>6. EntryOk' BY DEF Steady, Entered, EntryOk
<1>7. Entered' BY <1>1, <1>6, E_Keep DEF Steady, LiveKept
<1> QED BY <1>4, <1>5, <1>7 DEF Steady

\* A step of a repair that writes no element
LEMMA S_Repair ==
  ASSUME TInv, Steady, UNCHANGED <<elem, npages, heap, vac, meta>>, me' = me,
         pc[Vacuum] \in RepairSteps, \E l \in RepairSteps : pc' = [pc EXCEPT ![Vacuum] = l]
  PROVE  Steady'
<1>1. /\ pc'[Vacuum] \in RepairSteps /\ \A q \in Inserters : pc'[q] = pc[q]
  BY TidTypes DEF TInv, TypeOK
<1>2. \A l \in RepairSteps : l \notin {"idle", "loop", "check", "lock", "wantEx", "mark", "hpCheck", "remove", "hpLock", "epLock"}
  BY DEF RepairSteps
<1>3. \A s \in Slots : InChain(s)' <=> InChain(s) BY DEF InChain
<1>4. Matched' /\ \A q \in Inserters : Inserting(q)' BY <1>1, <1>3, M_Keep DEF Steady
<1>5. Removing' BY <1>1, <1>2, <1>3 DEF Steady, Removing, Behind
<1>6. EntryOk' BY DEF Steady, Entered, EntryOk
<1>7. Entered'
  <2>1. Replaced' <=> Replaced BY <1>1, <1>2 DEF Replaced
  <2>2. \A x : Alive(x)' <=> Alive(x) BY DEF Alive
  <2>3. Alive(vac.highest)' <=> Alive(vac.highest) BY DEF Alive
  <2>4. Alive(me[Vacuum].elt)' <=> Alive(me[Vacuum].elt) BY DEF Alive
  <2> QED BY <1>1, <1>2, <1>6, <2>1, <2>3, <2>4 DEF Steady, Entered
<1> QED BY <1>4, <1>5, <1>7 DEF Steady

\* A statement that aborts: the TID of an insert is dead, wherever it is
LEMMA S_Abort ==
  ASSUME TInv, Steady, NEW p \in Procs, pc[p] # "idle", Abort(p), UNCHANGED <<disk, vac>>
  PROVE  Steady'
<1>1. /\ \A q \in Procs : pc'[q] = IF q = p THEN "idle" ELSE pc[q]
      /\ \A q \in Procs \ {p} : me'[q] = me[q]
      /\ elem' = elem /\ npages' = npages /\ meta' = meta /\ vac' = vac
  BY DEF Abort, Reset, TInv, TypeOK
<1>2. \A s \in Slots : InChain(s)' <=> InChain(s) BY <1>1 DEF InChain
<1>3. EntryOk' BY <1>1 DEF Steady, Entered, EntryOk
<1>4. CASE p = Vacuum
  <2>1. heap' = heap /\ pc'[Vacuum] = "idle" /\ \A q \in Inserters : pc'[q] = pc[q] /\ me'[q] = me[q]
    BY <1>1, <1>4, TidTypes DEF Abort
  <2>2. Matched' /\ \A q \in Inserters : Inserting(q)' BY <1>1, <1>2, <2>1, M_Keep DEF Steady
  <2>3. Removing' BY <2>1 DEF Removing
  <2>4. Entered' BY <1>3, <2>1 DEF Entered, Replaced, RepairSteps
  <2> QED BY <2>2, <2>3, <2>4 DEF Steady
<1>5. CASE p # Vacuum /\ p \notin Inserters
  <2>1. heap' = heap BY <1>5 DEF Abort
  <2> QED BY <1>1, <1>5, <2>1, S_Quiet
<1>6. CASE p \in Inserters
  <2>t. PICK t : t = me[p].tid OBVIOUS
  <2>1. t \in Tids /\ heap[t] = "inserting" /\ p # Vacuum BY <1>6, <2>t, TidTypes DEF Steady, Inserting
  <2>2. heap' = [heap EXCEPT ![t] = "dead"] BY <1>6, <2>t DEF Abort
  <2>3. \A r \in Tids : heap'[r] = IF r = t THEN "dead" ELSE heap[r] BY <2>2, TidTypes
  <2>4. \A r : InIndex(r)' <=> InIndex(r) BY <1>1 DEF InIndex
  <2>5. Matched' BY <1>1, <1>2, <2>3, <2>4 DEF Steady, Matched
  <2>6. ASSUME NEW q \in Inserters PROVE Inserting(q)'
    <3>1. q \in Procs BY TidTypes
    <3>2. CASE q = p BY <1>1, <3>1, <3>2 DEF Inserting
    <3>3. CASE q # p
      <4>1. pc'[q] = pc[q] /\ me'[q] = me[q] /\ Inserting(q) BY <1>1, <3>1, <3>3 DEF Steady
      <4>2. pc[q] # "idle" => me[q].tid # t /\ me[q].tid \in Tids
        BY <1>6, <2>t, <3>3, TidTypes DEF Steady, Inserting
      <4>3. \A v \in Inserters : pc'[v] # "idle" /\ me'[v].tid = me'[q].tid /\ pc'[q] # "idle" => v = q
        <5>1. \A v \in Inserters : pc'[v] # "idle" => pc[v] # "idle" /\ me'[v] = me[v] BY <1>1, TidTypes
        <5> QED BY <4>1, <5>1 DEF Inserting
      <4>4. pc'[q] # "idle" => heap'[me'[q].tid] = "inserting" BY <2>3, <4>1, <4>2 DEF Inserting
      <4> QED BY <1>1, <2>4, <4>1, <4>3, <4>4 DEF Inserting
    <3> QED BY <3>2, <3>3
  <2>7. Removing'
    <3>1. \A r \in vac.dead : heap[r] = "dead" => heap'[r] = "dead" BY <2>3, TidTypes
    <3>2. pc'[Vacuum] = pc[Vacuum] BY <1>1, <2>1, TidTypes
    <3> QED BY <1>1, <1>2, <3>1, <3>2, R_Keep DEF Steady
  <2>8. Entered'
    <3>1. pc'[Vacuum] = pc[Vacuum] /\ me'[Vacuum] = me[Vacuum] BY <1>1, <2>1, TidTypes
    <3> QED BY <1>1, <1>3, <3>1, E_Keep DEF Steady, LiveKept
  <2> QED BY <2>5, <2>6, <2>7, <2>8 DEF Steady
<1> QED BY <1>4, <1>5, <1>6

\* So does one that loads a vector MarkDeleted has zeroed
LEMMA S_Fail == ASSUME TInv, Steady, NEW p \in Procs, pc[p] # "idle", Fail(p) PROVE Steady'
BY S_Abort DEF Fail

\* So does one that is cancelled
LEMMA S_Cancel == ASSUME TInv, Steady, NEW p \in Procs, Cancel(p) PROVE Steady'
BY S_Abort DEF Cancel

\* A step of a search, of a repair or of the updates of neighbor tuples
LEMMA S_Moves ==
  ASSUME TInv, Steady, NEW p \in Procs, UNCHANGED <<elem, npages, heap, vac, meta>>, me' = me,
         NEW l, pc' = [pc EXCEPT ![p] = l],
         p = Vacuum => pc[p] \in RepairSteps /\ l \in RepairSteps,
         p # Vacuum => l # "idle" /\ pc[p] # "idle" /\ (l \in Placing <=> pc[p] \in Placing)
  PROVE  Steady'
<1>1. CASE p = Vacuum BY <1>1, S_Repair
<1>2. CASE p # Vacuum
  <2>1. pc'[p] = l /\ \A q \in Procs \ {p} : pc'[q] = pc[q] BY DEF TInv, TypeOK
  <2> QED BY <1>2, <2>1, S_Quiet
<1> QED BY <1>1, <1>2

\* A step that does not even move on
LEMMA S_Stays ==
  ASSUME TInv, Steady, NEW p \in Procs, UNCHANGED <<elem, npages, heap, vac, meta, pc>>, me' = me,
         p = Vacuum => pc[p] \in RepairSteps, pc[p] # "idle"
  PROVE  Steady'
<1>1. pc' = [pc EXCEPT ![p] = pc[p]] BY DEF TInv, TypeOK
<1> QED BY <1>1, S_Moves

\* HnswEntryCandidate writes nothing, or ends the statement
LEMMA S_EntryCandidate ==
  ASSUME TInv, Steady, NEW p \in Procs, EntryCandidate(p) PROVE Steady'
<1>1. CASE elem[ep[p].slot].deleted BY <1>1, S_Fail DEF EntryCandidate
<1>2. CASE ~elem[ep[p].slot].deleted
  <2>1. /\ pc' = [pc EXCEPT ![p] = "search"] /\ pc[p] = "entry"
        /\ UNCHANGED <<elem, npages, heap, vac, meta>> /\ me' = me
    BY <1>2 DEF EntryCandidate
  <2> QED BY <2>1, S_Moves DEF RepairSteps, Placing
<1> QED BY <1>1, <1>2

\* HnswLoadNeighborTids writes nothing
LEMMA S_ExpandCandidate ==
  ASSUME TInv, Steady, NEW p \in Procs, ExpandCandidate(p) PROVE Steady'
BY S_Stays DEF ExpandCandidate, RepairSteps

\* HnswLoadElementImpl writes nothing, or ends the statement
LEMMA S_LoadUnvisited ==
  ASSUME TInv, Steady, NEW p \in Procs, LoadUnvisited(p) PROVE Steady'
<1>1. \/ Fail(p)
      \/ UNCHANGED <<disk, locks, heap, pc, me, ep, nb, upd, walk, vac, failed, cancels>>
  BY DEF LoadUnvisited
<1>2. pc[p] = "search" BY DEF LoadUnvisited
<1> QED BY <1>1, <1>2, S_Fail, S_Stays DEF RepairSteps

\* Going down a layer writes nothing
LEMMA S_DescendLayer ==
  ASSUME TInv, Steady, NEW p \in Procs, DescendLayer(p) PROVE Steady'
BY S_Stays DEF DescendLayer, RepairSteps

\* SelectNeighbors writes nothing
LEMMA S_FinishLayer ==
  ASSUME TInv, Steady, NEW p \in Procs, FinishLayer(p) PROVE Steady'
<1>1. pc[p] = "search" /\ UNCHANGED <<elem, npages, heap, vac, meta>> /\ me' = me
  BY DEF FinishLayer
<1>2. CASE UNCHANGED pc BY <1>1, <1>2, S_Stays DEF RepairSteps
<1>3. CASE pc' = [pc EXCEPT ![p] = IF p = Vacuum THEN "overwrite" ELSE "dup"]
  BY <1>1, <1>3, S_Moves DEF RepairSteps, Placing
<1> QED BY <1>2, <1>3 DEF FinishLayer

\* GetUpdateIndex reads a neighbor's list
LEMMA S_ReadNeighborList ==
  ASSUME TInv, Steady, NEW p \in Procs, ReadNeighborList(p) PROVE Steady'
<1>1. /\ pc[p] = "update" /\ UNCHANGED <<elem, npages, heap, vac, meta>> /\ me' = me
      /\ \E l \in {"loadNbrs", "write"} : pc' = [pc EXCEPT ![p] = l]
  BY DEF ReadNeighborList
<1> QED BY <1>1, S_Moves DEF RepairSteps, Placing

\* GetUpdateIndex reads the elements of the list, or ends the statement
LEMMA S_LoadElementForInsert ==
  ASSUME TInv, Steady, NEW p \in Procs, LoadElementForInsert(p) PROVE Steady'
<1>1. /\ pc[p] = "loadNbrs"
      /\ \/ Fail(p)
         \/ /\ UNCHANGED <<elem, npages, heap, vac, meta>> /\ me' = me
            /\ \/ UNCHANGED pc
               \/ \E l \in {"write", "update"} : pc' = [pc EXCEPT ![p] = l]
  BY DEF LoadElementForInsert
<1> QED BY <1>1, S_Fail, S_Stays, S_Moves DEF RepairSteps, Placing

\* UpdateNeighborOnDisk writes a neighbor tuple, never an element
LEMMA S_UpdateNeighbor ==
  ASSUME TInv, Steady, NEW p \in Procs, UpdateNeighbor(p) PROVE Steady'
BY S_Moves DEF UpdateNeighbor, RepairSteps, Placing

\* So does RepairGraphElement
LEMMA S_OverwriteNeighbors == ASSUME TInv, Steady, OverwriteNeighbors PROVE Steady'
BY S_Moves, VacuumProc DEF OverwriteNeighbors, RepairSteps

\* The last neighbor of a repaired element is updated
LEMMA S_NeighborsRepaired == ASSUME TInv, Steady, NeighborsRepaired PROVE Steady'
BY S_Moves, VacuumProc DEF NeighborsRepaired, RepairSteps

\* An insert gets the exclusive lock
LEMMA S_LockForInsert ==
  ASSUME TInv, Steady, NEW p \in Inserters, LockForInsert(p) PROVE Steady'
<1>1. p \in Procs /\ p # Vacuum BY TidTypes
<1> QED BY <1>1, S_Moves DEF LockForInsert, Placing

\* An insert gives up its search for a duplicate
LEMMA S_GiveUpDuplicates ==
  ASSUME TInv, Steady, NEW p \in Inserters, GiveUpDuplicates(p) PROVE Steady'
<1>1. p \in Procs /\ p # Vacuum BY TidTypes
<1> QED BY <1>1, S_Moves DEF GiveUpDuplicates, Placing

\* An insert goes to the next page
LEMMA S_NextPage ==
  ASSUME TInv, Steady, NEW p \in Inserters, NextPage(p) PROVE Steady'
<1>1. p \in Procs /\ p # Vacuum BY TidTypes
<1> QED BY <1>1, S_Stays DEF NextPage

\* An insert moves the insert page, and leaves the entry point alone
LEMMA S_UpdateInsertPage ==
  ASSUME TInv, Steady, NEW p \in Inserters, UpdateInsertPage(p) PROVE Steady'
<1>1. p \in Procs /\ p # Vacuum BY TidTypes
<1>2. /\ meta'.entry = meta.entry /\ meta'.level = meta.level
      /\ pc[p] = "setPage" /\ pc'[p] = "update" /\ \A q \in Procs \ {p} : pc'[q] = pc[q]
      /\ UNCHANGED <<elem, npages, heap, vac>> /\ me' = me
  BY <1>1 DEF UpdateInsertPage, TInv, TypeOK, MetaType
<1> QED BY <1>1, <1>2, S_Quiet DEF Placing

\* A scan takes its lock
LEMMA S_BeginScan ==
  ASSUME TInv, Steady, NEW p \in Scanners, BeginScan(p) PROVE Steady'
<1>1. p \in Procs /\ p # Vacuum /\ p \notin Inserters BY ConstantsAssumption DEF Procs
<1>2. /\ \A q \in Procs \ {p} : pc'[q] = pc[q]
      /\ UNCHANGED <<elem, npages, heap, vac, meta, me>>
  BY <1>1 DEF BeginScan, TInv, TypeOK
<1> QED BY <1>1, <1>2, S_Quiet

\* A scan lets it go
LEMMA S_EndScan ==
  ASSUME TInv, Steady, NEW p \in Scanners, EndScan(p) PROVE Steady'
<1>1. p \in Procs /\ p # Vacuum /\ p \notin Inserters BY ConstantsAssumption DEF Procs
<1>2. /\ \A q \in Procs \ {p} : pc'[q] = pc[q] /\ me'[q] = me[q]
      /\ UNCHANGED <<elem, npages, heap, vac, meta>>
  BY <1>1 DEF EndScan, Reset, TInv, TypeOK
<1> QED BY <1>1, <1>2, S_Quiet

\* An insert takes a TID that no element has
LEMMA S_BeginInsert ==
  ASSUME TInv, Steady, NEW p \in Inserters, NEW t \in Tids, NEW l \in Levels, BeginInsert(p, t, l)
  PROVE  Steady'
<1>0. p \in Procs /\ p # Vacuum /\ heap[t] = "free" /\ ~InIndex(t) /\ pc[p] = "idle"
  BY TidTypes DEF BeginInsert, Steady, Matched
<1>1. /\ me'[p].tid = t /\ pc'[p] \in {"wantEx", "entry"}
      /\ \A q \in Procs \ {p} : pc'[q] = pc[q] /\ me'[q] = me[q]
      /\ \A r \in Tids : heap'[r] = IF r = t THEN "inserting" ELSE heap[r]
      /\ elem' = elem /\ npages' = npages /\ meta' = meta /\ vac' = vac
  BY <1>0 DEF BeginInsert, TInv, TypeOK
<1>2. \A r : InIndex(r)' <=> InIndex(r) BY <1>1 DEF InIndex
<1>3. \A s \in Slots : InChain(s)' <=> InChain(s) BY <1>1 DEF InChain
<1>4. Matched' BY <1>1, <1>2, <1>3 DEF Steady, Matched
<1>5. \A q \in Inserters : pc[q] # "idle" => me[q].tid # t /\ me[q].tid \in Tids
  BY <1>0, TidTypes DEF Steady, Inserting
<1>6. \A q \in Inserters \ {p} : pc'[q] = pc[q] /\ me'[q] = me[q] BY <1>1, TidTypes
<1>7. ASSUME NEW q \in Inserters PROVE Inserting(q)'
  <2>1. CASE q = p
    <3>1. heap'[t] = "inserting" /\ ~InIndex(t)' /\ pc'[p] \notin Placing
      BY <1>0, <1>1, <1>2 DEF Placing
    <3>2. \A v \in Inserters : pc'[v] # "idle" /\ me'[v].tid = t => v = p BY <1>5, <1>6
    <3> QED BY <1>1, <2>1, <3>1, <3>2 DEF Inserting
  <2>2. CASE q # p
    <3>1. pc'[q] = pc[q] /\ me'[q] = me[q] /\ Inserting(q) BY <1>6, <2>2 DEF Steady
    <3>2. pc[q] # "idle" => heap'[me[q].tid] = "inserting" BY <1>1, <1>5, <3>1 DEF Inserting
    <3>3. \A v \in Inserters : pc'[v] # "idle" /\ me'[v].tid = me[q].tid /\ pc[q] # "idle" => v = q
      BY <1>1, <1>5, <1>6, <3>1 DEF Inserting
    <3> QED BY <1>1, <1>2, <3>1, <3>2, <3>3 DEF Inserting
  <2> QED BY <2>1, <2>2
<1>8. pc'[Vacuum] = pc[Vacuum] /\ me'[Vacuum] = me[Vacuum] BY <1>0, <1>1, TidTypes
<1>9. Removing'
  <2>1. \A r \in vac.dead : heap[r] = "dead" => heap'[r] = "dead" BY <1>0, <1>1, TidTypes
  <2> QED BY <1>1, <1>3, <1>8, <2>1, R_Keep DEF Steady
<1>10. EntryOk' BY <1>1 DEF Steady, Entered, EntryOk
<1>11. Entered' BY <1>1, <1>8, <1>10, E_Keep DEF Steady, LiveKept
<1> QED BY <1>4, <1>7, <1>9, <1>11 DEF Steady

\* An insert ends with its TID in one element
Committed(t) ==
  /\ \A r \in Slots : /\ elem'[r].level = elem[r].level /\ elem[r].tids \subseteq elem'[r].tids
                      /\ elem'[r].tids \subseteq elem[r].tids \cup {t}
                      /\ elem[r].tids = {} => elem'[r].tids = {}
  /\ \E r \in Slots : t \in elem'[r].tids
  /\ \A r, s \in Slots : t \in elem'[r].tids /\ t \in elem'[s].tids => r = s
\* Then the row may become live
LEMMA S_EndInsert ==
  ASSUME TInv, Steady, NEW p \in Inserters, pc[p] # "idle", EndInsert(p), npages' = npages,
         Committed(me[p].tid), EntryOk',
         meta'.entry # meta.entry => meta'.entry = Nil \/ elem'[meta'.entry].tids # {}
  PROVE  Steady'
<1>t. PICK t : t = me[p].tid OBVIOUS
<1>0. p \in Procs /\ p # Vacuum /\ t \in Tids /\ heap[t] = "inserting"
  BY <1>t, TidTypes DEF Steady, Inserting
<1>1. /\ \A q \in Procs : pc'[q] = IF q = p THEN "idle" ELSE pc[q]
      /\ \A q \in Procs \ {p} : me'[q] = me[q]
      /\ \A r \in Tids : heap'[r] = IF r = t THEN "live" ELSE heap[r]
      /\ vac' = vac
  BY <1>t, <1>0 DEF EndInsert, Reset, TInv, TypeOK
<1>2. Committed(t) BY <1>t
<1>3. \A r \in Tids : r # t => (InIndex(r)' <=> InIndex(r)) BY <1>2 DEF InIndex, Committed
<1>4. InIndex(t)' BY <1>2 DEF InIndex, Committed
<1>5. \A s \in Slots : InChain(s)' <=> InChain(s) BY DEF InChain
<1>6. Matched'
  <2>1. ASSUME NEW u \in Tids, NEW r \in Slots, NEW s \in Slots, u \in elem'[r].tids, u \in elem'[s].tids
        PROVE  r = s
    <3>1. CASE u = t BY <1>2, <2>1, <3>1 DEF Committed
    <3>2. CASE u # t
      <4>1. u \in elem[r].tids /\ u \in elem[s].tids BY <1>2, <2>1, <3>2 DEF Committed
      <4> QED BY <4>1 DEF Steady, Matched
    <3> QED BY <3>1, <3>2
  <2>2. \A s \in Slots : elem'[s].tids # {} => InChain(s)'
    BY <1>2, <1>5 DEF Committed, Steady, Matched
  <2>3. \A u \in Tids : /\ heap'[u] = "live" => InIndex(u)'
                        /\ heap'[u] \in {"free", "gone"} => ~InIndex(u)'
    BY <1>1, <1>3, <1>4 DEF Steady, Matched
  <2> QED BY <2>1, <2>2, <2>3 DEF Matched
<1>7. ASSUME NEW q \in Inserters PROVE Inserting(q)'
  <2>0. q \in Procs BY TidTypes
  <2>1. CASE q = p
    <3>1. pc'[q] = "idle" BY <1>1, <2>0, <2>1
    <3> QED BY <3>1 DEF Inserting
  <2>2. CASE q # p
    <3>1. pc'[q] = pc[q] /\ me'[q] = me[q] /\ Inserting(q) BY <1>1, <2>0, <2>2 DEF Steady
    <3>2. pc[q] # "idle" => me[q].tid # t /\ me[q].tid \in Tids
      BY <1>t, <2>2, TidTypes DEF Steady, Inserting
    <3>3. \A v \in Inserters : pc'[v] # "idle" /\ me'[v].tid = me'[q].tid /\ pc'[q] # "idle" => v = q
      <4>1. \A v \in Inserters : pc'[v] # "idle" => pc[v] # "idle" /\ me'[v] = me[v] BY <1>1, TidTypes
      <4> QED BY <3>1, <4>1 DEF Inserting
    <3>4. pc'[q] # "idle" => heap'[me'[q].tid] = "inserting" BY <1>1, <3>1, <3>2 DEF Inserting
    <3>5. CASE pc[q] \in Placing
      <4>1. pc[q] # "idle" BY <3>5 DEF Placing
      <4>2. /\ me[q].tid \in elem[me[q].elt.slot].tids
            /\ me[q].elt.slot # Nil /\ elem[me[q].elt.slot].level = me[q].elt.level
        BY <3>1, <3>5, <4>1 DEF Inserting
      <4>3. me[q].elt.slot \in Slots BY <2>0, <4>2, TidTypes
      <4>4. me[q].tid \in elem'[me[q].elt.slot].tids /\ elem'[me[q].elt.slot].level = me[q].elt.level
        BY <1>2, <4>2, <4>3 DEF Committed
      <4>5. /\ me'[q].tid \in elem'[me'[q].elt.slot].tids /\ pc'[q] \in Placing
            /\ me'[q].elt.slot # Nil /\ elem'[me'[q].elt.slot].level = me'[q].elt.level
        BY <3>1, <3>5, <4>2, <4>4
      <4> QED BY <3>3, <3>4, <4>5 DEF Inserting
    <3>6. CASE pc[q] \notin Placing
      <4>1. pc[q] # "idle" => ~InIndex(me[q].tid)' BY <1>3, <3>1, <3>2, <3>6 DEF Inserting
      <4> QED BY <3>1, <3>3, <3>4, <3>6, <4>1 DEF Inserting
    <3> QED BY <3>5, <3>6
  <2> QED BY <2>1, <2>2
<1>8. pc'[Vacuum] = pc[Vacuum] /\ me'[Vacuum] = me[Vacuum] BY <1>0, <1>1, TidTypes
<1>9. Removing'
  <2>1. \A r \in vac.dead : heap[r] = "dead" => heap'[r] = "dead" BY <1>0, <1>1, TidTypes
  <2>2. pc[Vacuum] # "idle" => t \notin vac.dead BY <1>0 DEF Steady, Removing
  <2>3. \A s \in Slots : pc[Vacuum] # "idle" /\ Behind(s) => elem'[s].tids \cap vac.dead \subseteq elem[s].tids
    BY <1>2, <2>2 DEF Committed
  <2>4. \A s \in Slots : InChain(s)' /\ elem'[s].tids = {} => InChain(s) /\ elem[s].tids = {}
    BY <1>2, <1>5 DEF Committed
  <2> QED BY <1>1, <1>8, <2>1, <2>3, <2>4, R_Keep DEF Steady
<1>10. LiveKept BY <1>2 DEF LiveKept, Committed
<1>11. Entered' BY <1>1, <1>8, <1>10, E_Keep DEF Steady
<1> QED BY <1>6, <1>7, <1>9, <1>11 DEF Steady

\* The TID joins an element that has some
LEMMA S_AddDuplicate ==
  ASSUME TInv, Fresh, Steady, NEW p \in Inserters, AddDuplicate(p) PROVE Steady'
<1>0. p \in Procs /\ p # Vacuum BY TidTypes
<1>1. PICK d \in Same(p) \ srch[p].w :
       IF DuplicateFull(d.slot)
         THEN /\ srch' = [srch EXCEPT ![p].w = @ \cup {d}]
              /\ UNCHANGED <<disk, locks, heap, pc, me, ep, nb, upd, walk, vac, failed, cancels>>
         ELSE /\ elem' = [elem EXCEPT ![d.slot].tids = @ \cup {me[p].tid}]
              /\ EndInsert(p)
              /\ UNCHANGED <<ntup, npages, meta>>
  BY DEF AddDuplicate
<1>2. pc[p] = "dup" BY DEF AddDuplicate
<1>3. CASE DuplicateFull(d.slot) BY <1>0, <1>1, <1>2, <1>3, S_Stays
<1>4. CASE ~DuplicateFull(d.slot)
  <2>t. PICK t : t = me[p].tid OBVIOUS
  <2>s. PICK s : s = d.slot OBVIOUS
  <2>1. d \in Copies /\ s # Nil
    BY <1>0, <2>s, Basics DEF Same, TInv, TypeOK, Defined, Ready
  <2>2. s \in Slots /\ elem[s] \in ElemType BY <2>s, <2>1 DEF TInv, TypeOK, Copies
  <2>3. elem' = [elem EXCEPT ![s].tids = @ \cup {t}] BY <1>1, <1>4, <2>s, <2>t
  <2>4. \A r \in Slots : /\ elem'[r].tids = IF r = s THEN elem[r].tids \cup {t} ELSE elem[r].tids
                         /\ elem'[r].level = elem[r].level /\ elem'[r].deleted = elem[r].deleted
    BY <2>2, <2>3 DEF TInv, TypeOK, ElemType
  <2>5. elem[s].tids # {} BY <1>4, <2>s DEF DuplicateFull
  <2>6. \A r \in Slots : t \notin elem[r].tids BY <1>2, <2>t DEF Steady, Inserting, Placing, InIndex
  <2>7. Committed(t) BY <2>2, <2>4, <2>5, <2>6 DEF Committed
  <2>8. EntryOk'
    <3>1. meta' = meta /\ npages' = npages BY <1>1, <1>4
    <3>2. meta.entry # Nil => meta.entry \in Slots BY TidTypes
    <3> QED BY <2>4, <3>1, <3>2 DEF EntryOk, Steady, Entered
  <2>9. EndInsert(p) /\ npages' = npages /\ meta' = meta BY <1>1, <1>4
  <2>10. Committed(me[p].tid) BY <2>t, <2>7
  <2> QED BY <1>2, <2>8, <2>9, <2>10, S_EndInsert
<1> QED BY <1>3, <1>4

\* The last step of an insert: its element may become the entry point
LEMMA S_FinishInsert ==
  ASSUME TInv, Fresh, Steady, NEW p \in Inserters, FinishInsert(p) PROVE Steady'
<1>0. p \in Procs /\ p # Vacuum /\ pc[p] = "update" BY TidTypes DEF FinishInsert
<1>e. PICK e : e = me[p].elt OBVIOUS
<1>t. PICK t : t = me[p].tid OBVIOUS
<1>1. /\ t \in elem[e.slot].tids /\ e.slot \in Slots /\ elem[e.slot].level = e.level /\ t \in Tids
  BY <1>0, <1>e, <1>t, TidTypes DEF Steady, Inserting, Placing
<1>2. elem' = elem /\ npages' = npages /\ EndInsert(p) /\ (meta' = EntryGreater(e) \/ meta' = meta)
  BY <1>e DEF FinishInsert
<1>3. Committed(t) BY <1>1, <1>2 DEF Committed, Steady, Matched
<1>4. meta'.entry # meta.entry => meta'.entry = e.slot
  BY <1>2 DEF EntryGreater, TInv, TypeOK, MetaType
<1>5. EntryOk'
  <2>1. CASE meta' = meta BY <1>2, <2>1 DEF EntryOk, Steady, Entered
  <2>2. CASE meta'.entry = e.slot /\ meta'.level = e.level
    <3>1. e.slot <= npages BY <1>1 DEF Steady, Matched, InChain
    <3>2. ~elem[e.slot].deleted BY <1>1 DEF Fresh, Paired
    <3> QED BY <1>1, <1>2, <2>2, <3>1, <3>2 DEF EntryOk
  <2>3. meta' = meta \/ (meta'.entry = e.slot /\ meta'.level = e.level)
    BY <1>2 DEF EntryGreater, TInv, TypeOK, MetaType
  <2> QED BY <2>1, <2>2, <2>3
<1>6. Committed(me[p].tid) BY <1>3, <1>t
<1>7. meta'.entry # meta.entry => elem'[meta'.entry].tids # {} BY <1>1, <1>2, <1>4
<1> QED BY <1>0, <1>2, <1>5, <1>6, <1>7, S_EndInsert

\* AddElementOnDisk writes over an element without heap TIDs that is not the
\* entry point, or past the end of the chain
LEMMA S_PutElement ==
  ASSUME TInv, Fresh, Steady, NEW p \in Inserters, pc[p] = "walk",
         NEW s \in Slots, NEW v, NEW r, PutElement(p, s, v, r),
         \/ elem[s].deleted /\ npages' = npages /\ s <= npages
         \/ s = npages + 1 /\ npages' = npages + 1,
         pc' = [pc EXCEPT ![p] = "setPage"], UNCHANGED <<meta, heap, vac>>
  PROVE  Steady'
<1>t. PICK t : t = me[p].tid OBVIOUS
<1>e. PICK e : e = me[p].elt OBVIOUS
<1>0. /\ p \in Procs /\ p # Vacuum /\ t \in Tids /\ heap[t] = "inserting" /\ ~InIndex(t)
      /\ npages \in Nat /\ me[p] \in MeType /\ e \in Copies
  BY <1>t, <1>e, TidTypes DEF Steady, Inserting, Placing
<1>1. /\ \A u \in Slots : u # s => elem'[u] = elem[u]
      /\ elem'[s].level = e.level /\ elem'[s].tids = {t} /\ elem'[s].deleted = FALSE
  BY <1>t, <1>e DEF PutElement, TInv, TypeOK
<1>2. /\ me'[p].elt.slot = s /\ me'[p].tid = t /\ me'[p].elt.level = e.level
      /\ \A q \in Procs \ {p} : me'[q] = me[q]
      /\ \A q \in Procs : pc'[q] = IF q = p THEN "setPage" ELSE pc[q]
  BY <1>t, <1>e, <1>0 DEF PutElement, TInv, TypeOK, MeType, Copies
<1>3. elem[s].tids = {}
  <2>1. CASE elem[s].deleted BY <2>1 DEF Fresh, Paired
  <2>2. CASE s = npages + 1
    <3>1. ~InChain(s) BY <1>0, <2>2 DEF InChain
    <3> QED BY <3>1 DEF Steady, Matched
  <2> QED BY <2>1, <2>2
<1>4. /\ \A u \in Slots : InChain(u) => InChain(u)'
      /\ InChain(s)'
      /\ \A u \in Slots : InChain(u)' => u = s \/ InChain(u)
  BY <1>0 DEF InChain, Slots
<1>5. \A u \in Slots : InChain(u) => InChain(u)' BY <1>4
<1>6. \A u \in Tids : u # t => (InIndex(u)' <=> InIndex(u)) BY <1>1, <1>3 DEF InIndex
<1>7. InIndex(t)' BY <1>1 DEF InIndex
<1>8. \A u \in Slots : t \notin elem[u].tids BY <1>0 DEF InIndex
<1>9. Matched'
  <2>1. ASSUME NEW u \in Tids, NEW a \in Slots, NEW b \in Slots, u \in elem'[a].tids, u \in elem'[b].tids
        PROVE  a = b
    <3>1. CASE u = t BY <1>1, <1>8, <2>1, <3>1
    <3>2. CASE u # t
      <4>1. u \in elem[a].tids /\ u \in elem[b].tids BY <1>1, <2>1, <3>2
      <4> QED BY <4>1 DEF Steady, Matched
    <3> QED BY <3>1, <3>2
  <2>2. \A u \in Slots : elem'[u].tids # {} => InChain(u)'
    BY <1>1, <1>4, <1>5 DEF Steady, Matched
  <2>3. \A u \in Tids : /\ heap'[u] = "live" => InIndex(u)'
                        /\ heap'[u] \in {"free", "gone"} => ~InIndex(u)'
    BY <1>0, <1>6, <1>7 DEF Steady, Matched
  <2> QED BY <2>1, <2>2, <2>3 DEF Matched
<1>10. \A q \in Inserters \ {p} : pc'[q] = pc[q] /\ me'[q] = me[q] BY <1>2, TidTypes
<1>11. \A q \in Inserters \ {p} : pc[q] # "idle" => me[q].tid # t /\ me[q].tid \in Tids
  BY <1>0, <1>t, TidTypes DEF Steady, Inserting
<1>12. ASSUME NEW q \in Inserters PROVE Inserting(q)'
  <2>1. CASE q = p
    <3>1. \A x \in Inserters : pc'[x] # "idle" /\ me'[x].tid = me'[p].tid => x = p
      BY <1>2, <1>10, <1>11
    <3>2. heap'[me'[p].tid] = "inserting" BY <1>0, <1>2
    <3>3. me'[p].tid \in elem'[me'[p].elt.slot].tids BY <1>1, <1>2
    <3>4. me'[p].elt.slot # Nil /\ elem'[me'[p].elt.slot].level = me'[p].elt.level
      BY <1>1, <1>2 DEF Slots, Nil
    <3>5. pc'[p] \in Placing BY <1>0, <1>2 DEF Placing
    <3> QED BY <2>1, <3>1, <3>2, <3>3, <3>4, <3>5 DEF Inserting
  <2>2. CASE q # p
    <3>0. q \in Procs BY TidTypes
    <3>1. pc'[q] = pc[q] /\ me'[q] = me[q] /\ Inserting(q) BY <1>10, <2>2 DEF Steady
    <3>2. \A x \in Inserters : pc'[x] # "idle" /\ me'[x].tid = me'[q].tid /\ pc'[q] # "idle" => x = q
      BY <1>2, <1>10, <1>11, <3>1 DEF Inserting
    <3>3. pc'[q] # "idle" => heap'[me'[q].tid] = "inserting" BY <3>1 DEF Inserting
    <3>4. CASE pc[q] \in Placing
      <4>1. pc[q] # "idle" BY <3>4 DEF Placing
      <4>2. /\ me[q].tid \in elem[me[q].elt.slot].tids
            /\ me[q].elt.slot # Nil /\ elem[me[q].elt.slot].level = me[q].elt.level
        BY <3>1, <3>4, <4>1 DEF Inserting
      <4>3. me[q].elt.slot \in Slots /\ me[q].elt.slot # s BY <1>3, <3>0, <4>2, TidTypes
      <4>4. elem'[me[q].elt.slot] = elem[me[q].elt.slot] BY <1>1, <4>3
      <4>5. /\ me'[q].tid \in elem'[me'[q].elt.slot].tids /\ pc'[q] \in Placing
            /\ me'[q].elt.slot # Nil /\ elem'[me'[q].elt.slot].level = me'[q].elt.level
        BY <3>1, <3>4, <4>2, <4>4
      <4> QED BY <3>2, <3>3, <4>5 DEF Inserting
    <3>5. CASE pc[q] \notin Placing
      <4>1. pc[q] # "idle" => ~InIndex(me[q].tid)'
        BY <1>6, <1>11, <2>2, <3>1, <3>5 DEF Inserting
      <4> QED BY <3>1, <3>2, <3>3, <3>5, <4>1 DEF Inserting
    <3> QED BY <3>4, <3>5
  <2> QED BY <2>1, <2>2
<1>13. pc'[Vacuum] = pc[Vacuum] /\ me'[Vacuum] = me[Vacuum] BY <1>0, <1>2, TidTypes
<1>14. Removing'
  <2>1. pc[Vacuum] # "idle" => t \notin vac.dead BY <1>0 DEF Steady, Removing
  <2>2. \A u \in Slots : pc[Vacuum] # "idle" /\ Behind(u) => elem'[u].tids \cap vac.dead \subseteq elem[u].tids
    BY <1>1, <2>1
  <2>3. \A u \in Slots : InChain(u)' /\ elem'[u].tids = {} => InChain(u) /\ elem[u].tids = {}
    BY <1>1, <1>4
  <2> QED BY <1>13, <2>2, <2>3, R_Keep DEF Steady
<1>15. LiveKept BY <1>1, <1>3 DEF LiveKept
<1>16. EntryOk'
  <2>1. CASE meta.entry = Nil BY <2>1 DEF EntryOk
  <2>2. CASE meta.entry # Nil
    <3>1. meta.entry \in Slots /\ meta.entry <= npages /\ ~elem[meta.entry].deleted
          /\ meta.level = elem[meta.entry].level
      BY <2>2, TidTypes DEF EntryOk, Steady, Entered
    <3>2. meta.entry # s BY <1>0, <3>1
    <3>3. InChain(meta.entry)' BY <1>5, <3>1 DEF InChain
    <3> QED BY <1>1, <3>1, <3>2, <3>3 DEF EntryOk, InChain
  <2> QED BY <2>1, <2>2
<1>17. Entered' BY <1>13, <1>15, <1>16, E_Keep DEF Steady
<1> QED BY <1>9, <1>12, <1>14, <1>17 DEF Steady

\* A deleted element is replaced: it is not the entry point
LEMMA S_ReplaceDeleted ==
  ASSUME TInv, Fresh, Steady, NEW p \in Inserters, ReplaceDeleted(p) PROVE Steady'
<1>1. walk[p].cur \in Slots
  BY DEF ReplaceDeleted, TInv, TypeOK, WalkType, Defined, Ready, Procs
<1> QED BY <1>1, S_PutElement DEF ReplaceDeleted, Replaceable

\* A page is appended: it is not the entry point
LEMMA S_AppendPage ==
  ASSUME TInv, Fresh, Steady, NEW p \in Inserters, AppendPage(p) PROVE Steady'
<1>1. npages + 1 \in Slots
  BY ConstantsAssumption DEF AppendPage, Slots, TInv, TypeOK
<1> QED BY <1>1, S_PutElement DEF AppendPage

\* A step of VACUUM after its first pass moves no heap TID
LEMMA S_Vacuum ==
  ASSUME TInv, Steady, npages' = npages, heap' = heap,
         \A s \in Slots : elem'[s].tids = elem[s].tids /\ elem'[s].level = elem[s].level,
         \A q \in Procs \ {Vacuum} : pc'[q] = pc[q] /\ me'[q] = me[q],
         pc[Vacuum] # "idle", pc[Vacuum] = "remove" => vac.pos = Nil,
         pc'[Vacuum] \notin {"idle", "remove"}, vac'.dead = vac.dead, vac'.deleted = vac.deleted,
         Entered'
  PROVE  Steady'
<1>1. \A q \in Inserters : pc'[q] = pc[q] /\ me'[q] = me[q] BY TidTypes
<1>2. \A s \in Slots : InChain(s)' <=> InChain(s) BY DEF InChain
<1>3. Matched' /\ \A q \in Inserters : Inserting(q)' BY <1>1, <1>2, M_Keep DEF Steady
<1>4. Removing' BY <1>2 DEF Steady, Removing, Behind
<1> QED BY <1>3, <1>4 DEF Steady

\* An element with heap TIDs can be the entry point
LEMMA AliveEntry ==
  ASSUME TInv, Fresh, Steady, NEW x \in Copies, Alive(x)
  PROVE  x.slot \in Slots /\ x.slot <= npages /\ ~elem[x.slot].deleted
<1>1. x.slot \in Slots BY DEF Alive, Copies
<1> QED BY <1>1 DEF Alive, Fresh, Paired, Steady, Matched, InChain

\* No insert is under way when pass 2 begins
LEMMA S_WaitForInserts == ASSUME TInv, Steady, WaitForInserts PROVE Steady'
<1>1. /\ pc[Vacuum] = "remove" /\ vac.pos = Nil /\ pc'[Vacuum] \in {"hpLock", "epLock"}
      /\ \A q \in Procs \ {Vacuum} : pc'[q] = pc[q]
      /\ UNCHANGED <<elem, npages, meta, heap, me, vac>>
  BY VacuumProc DEF WaitForInserts, TInv, TypeOK
<1>2. Entered'
  <2>1. EntryOk' BY <1>1 DEF Steady, Entered, EntryOk
  <2>2. \A x : Alive(x)' <=> Alive(x) BY <1>1 DEF Alive
  <2>3. Alive(vac.highest)' <=> Alive(vac.highest) BY <1>1 DEF Alive
  <2>4. ~Replaced' BY <1>1 DEF Replaced, RepairSteps
  <2>5. pc'[Vacuum] \notin RepairSteps BY <1>1 DEF RepairSteps
  <2> QED BY <1>1, <2>1, <2>3, <2>4, <2>5 DEF Steady, Entered
<1> QED BY <1>1, <1>2, S_Vacuum

\* The highest element VACUUM kept is read again
LEMMA S_LockHighest == ASSUME TInv, Steady, LockHighest PROVE Steady'
<1>0. vac \in VacType BY TidTypes
<1>1. /\ pc[Vacuum] = "hpLock" /\ pc'[Vacuum] = "hpCheck"
      /\ \A q \in Procs \ {Vacuum} : pc'[q] = pc[q]
      /\ UNCHANGED <<elem, npages, meta, heap, me>>
      /\ vac'.dead = vac.dead /\ vac'.deleted = vac.deleted /\ vac'.ret = "hp"
      /\ vac'.highest.slot = vac.highest.slot
      /\ vac'.highest.level = elem[vac.highest.slot].level
  BY <1>0, VacuumProc DEF LockHighest, TInv, TypeOK, VacType, Load
<1>2. Entered'
  <2>1. EntryOk' BY <1>1 DEF Steady, Entered, EntryOk
  <2>2. Alive(vac.highest) BY <1>1 DEF Steady, Entered, TInv, Defined
  <2>3. Alive(vac.highest)' BY <1>1, <2>2 DEF Alive
  <2>4. ~Replaced' BY <1>1 DEF Replaced, RepairSteps
  <2>5. pc'[Vacuum] \notin RepairSteps BY <1>1 DEF RepairSteps
  <2> QED BY <1>1, <2>1, <2>3, <2>4, <2>5 DEF Entered
<1> QED BY <1>1, <1>2, S_Vacuum

\* RepairGraphElement starts on an element
LEMMA RepairStarts ==
  ASSUME TInv, NEW x \in Copies, NEW y, StartRepair(x, y)
  PROVE  /\ pc'[Vacuum] \in {"repaired", "overwrite", "entry"} /\ pc'[Vacuum] \in RepairSteps
         /\ \A q \in Procs \ {Vacuum} : pc'[q] = pc[q] /\ me'[q] = me[q]
         /\ me'[Vacuum].elt.slot = x.slot /\ me'[Vacuum].elt.level = x.level
<1>1. me[Vacuum] \in MeType BY TidTypes
<1> QED BY <1>1, VacuumProc DEF StartRepair, TInv, TypeOK, MeType, Copies, RepairSteps

\* The highest element is repaired if it needs it, before the loop begins
LEMMA S_CheckHighest == ASSUME TInv, Steady, CheckHighest PROVE Steady'
<1>1. /\ pc[Vacuum] = "hpCheck" /\ pc'[Vacuum] \in {"repaired", "overwrite", "entry"}
      /\ \A q \in Procs \ {Vacuum} : pc'[q] = pc[q] /\ me'[q] = me[q]
      /\ UNCHANGED <<elem, npages, meta, heap, vac>>
  <2>1. CASE NeedsUpdated(vac.highest)
    <3>1. StartRepair(vac.highest, EntryPoint) BY <2>1 DEF CheckHighest
    <3>2. vac.highest \in Copies BY TidTypes
    <3> QED BY <3>1, <3>2, RepairStarts DEF CheckHighest
  <2>2. CASE ~NeedsUpdated(vac.highest)
    BY <2>2, VacuumProc DEF CheckHighest, TInv, TypeOK
  <2> QED BY <2>1, <2>2
<1>2. Entered'
  <2>1. EntryOk' BY <1>1 DEF Steady, Entered, EntryOk
  <2>2. Alive(vac.highest)' <=> Alive(vac.highest) BY <1>1 DEF Alive
  <2>3. vac'.ret = "hp" BY <1>1 DEF Steady, Entered
  <2>4. ~Replaced' BY <1>1, <2>3 DEF Replaced, RepairSteps
  <2> QED BY <1>1, <2>1, <2>2, <2>3, <2>4 DEF Steady, Entered
<1> QED BY <1>1, <1>2, S_Vacuum

\* An entry point that is being deleted is replaced by the highest element kept
LEMMA S_LockEntryPoint == ASSUME TInv, Fresh, Steady, LockEntryPoint PROVE Steady'
<1>0. vac \in VacType /\ meta \in MetaType /\ vac.highest \in Copies BY TidTypes
<1>1. /\ pc[Vacuum] = "epLock" /\ UNCHANGED <<elem, npages, heap>>
      /\ vac'.dead = vac.dead /\ vac'.deleted = vac.deleted /\ vac'.ret = "ep"
      /\ vac'.highest = vac.highest
  BY <1>0 DEF LockEntryPoint, VacType
<1>2. /\ pc'[Vacuum] \in {"repaired", "overwrite", "entry"}
      /\ \A q \in Procs \ {Vacuum} : pc'[q] = pc[q] /\ me'[q] = me[q]
  <2>1. CASE meta.entry = Nil \/ EntryBeingDeleted
    BY <2>1, VacuumProc DEF LockEntryPoint, TInv, TypeOK
  <2>2. CASE ~(meta.entry = Nil \/ EntryBeingDeleted)
    <3>1. CASE NeedsUpdated(Load(meta.entry))
      <4>1. StartRepair(Load(meta.entry), vac.highest) BY <2>2, <3>1 DEF LockEntryPoint
      <4>2. Load(meta.entry) \in Copies BY <2>2, TidTypes, LoadType DEF TInv
      <4> QED BY <4>1, <4>2, RepairStarts
    <3>2. CASE ~NeedsUpdated(Load(meta.entry))
      BY <2>2, <3>2, VacuumProc DEF LockEntryPoint, TInv, TypeOK
    <3> QED BY <3>1, <3>2
  <2> QED BY <2>1, <2>2
<1>3. vac.highest.slot # Nil => Alive(vac.highest) BY <1>1 DEF Steady, Entered
<1>4. EntryOk' /\ (meta'.entry # Nil => elem'[meta'.entry].tids # {})
  <2>1. CASE meta.entry = Nil
    <3>1. meta' = meta BY <2>1 DEF LockEntryPoint
    <3> QED BY <2>1, <3>1 DEF EntryOk
  <2>2. CASE meta.entry # Nil /\ EntryBeingDeleted
    <3>1. /\ meta'.entry = vac.highest.slot
          /\ vac.highest.slot # Nil => meta'.level = vac.highest.level
      BY <1>0, <2>2 DEF LockEntryPoint, EntryAlways, MetaType
    <3>2. CASE vac.highest.slot = Nil BY <3>1, <3>2 DEF EntryOk
    <3>3. CASE vac.highest.slot # Nil
      <4>1. Alive(vac.highest) BY <1>3, <3>3
      <4>2. vac.highest.slot <= npages /\ ~elem[vac.highest.slot].deleted BY <1>0, <4>1, AliveEntry
      <4> QED BY <1>1, <3>1, <3>3, <4>1, <4>2 DEF EntryOk, Alive
    <3> QED BY <3>2, <3>3
  <2>3. CASE meta.entry # Nil /\ ~EntryBeingDeleted
    <3>1. meta' = meta BY <2>3 DEF LockEntryPoint
    <3>2. EntryOk' BY <1>1, <3>1 DEF Steady, Entered, EntryOk
    <3>3. meta.entry \in Slots /\ InChain(meta.entry)
      BY <2>3, TidTypes DEF Steady, Entered, EntryOk, InChain
    <3>4. elem[meta.entry].tids # {}
      BY <1>1, <2>3, <3>3 DEF Steady, Removing, Behind, EntryBeingDeleted
    <3> QED BY <1>1, <3>1, <3>2, <3>4
  <2> QED BY <2>1, <2>2, <2>3
<1>5. Entered'
  <2>1. Alive(vac.highest)' <=> Alive(vac.highest) BY <1>1 DEF Alive
  <2> QED BY <1>1, <1>2, <1>3, <1>4, <2>1 DEF Entered
<1> QED BY <1>1, <1>2, <1>5, S_Vacuum

\* The loop repairs the elements with heap TIDs
LEMMA S_LoadForRepair == ASSUME TInv, Fresh, Steady, LoadForRepair PROVE Steady'
<1>0. vac \in VacType /\ me[Vacuum] \in MeType /\ vac.highest \in Copies BY TidTypes
<1>s. PICK s : s = vac.pos OBVIOUS
<1>1. /\ pc[Vacuum] = "loop" /\ UNCHANGED <<elem, npages, heap, meta>> /\ s \in Slots
      /\ vac'.dead = vac.dead /\ vac'.deleted = vac.deleted /\ vac'.highest = vac.highest
      /\ \A q \in Procs \ {Vacuum} : pc'[q] = pc[q] /\ me'[q] = me[q]
  BY <1>0, <1>s, VacuumProc DEF LoadForRepair, VacType, TInv, TypeOK
<1>2. \/ pc'[Vacuum] = "loop"
      \/ /\ pc'[Vacuum] = "check" /\ elem[s].tids # {} /\ me'[Vacuum].elt.slot = s
         /\ me'[Vacuum].elt.level = elem[s].level
  BY <1>0, <1>s, VacuumProc DEF LoadForRepair, TInv, TypeOK, Load, MeType
<1>3. Entered'
  <2>1. EntryOk' BY <1>1 DEF Steady, Entered, EntryOk
  <2>2. Alive(vac.highest)' <=> Alive(vac.highest) BY <1>1 DEF Alive
  <2>3. pc'[Vacuum] = "check" => Alive(me[Vacuum].elt)' BY <1>1, <1>2 DEF Alive, Slots, Nil
  <2>4. Replaced BY <1>1 DEF Replaced
  <2>5. pc'[Vacuum] \in {"loop", "check"} /\ pc'[Vacuum] \notin RepairSteps BY <1>2 DEF RepairSteps
  <2> QED BY <1>1, <2>1, <2>2, <2>3, <2>4, <2>5 DEF Steady, Entered
<1>4. pc'[Vacuum] \notin {"idle", "remove"} BY <1>2
<1> QED BY <1>1, <1>3, <1>4, S_Vacuum

\* The loop skips an element that needs no repair
LEMMA S_CheckElement == ASSUME TInv, Steady, CheckElement PROVE Steady'
<1>1. /\ pc[Vacuum] = "check" /\ UNCHANGED <<elem, npages, heap, meta, vac, me>>
      /\ pc'[Vacuum] \in {"lock", "loop"} /\ \A q \in Procs \ {Vacuum} : pc'[q] = pc[q]
  BY VacuumProc DEF CheckElement, TInv, TypeOK
<1>2. Entered'
  <2>1. EntryOk' BY <1>1 DEF Steady, Entered, EntryOk
  <2>2. Alive(vac.highest)' <=> Alive(vac.highest) BY <1>1 DEF Alive
  <2>3. Alive(me[Vacuum].elt)' <=> Alive(me[Vacuum].elt) BY <1>1 DEF Alive
  <2>4. Replaced BY <1>1 DEF Replaced
  <2> QED BY <1>1, <2>1, <2>2, <2>3, <2>4 DEF Steady, Entered
<1> QED BY <1>1, <1>2, S_Vacuum

\* The repair of an element with heap TIDs starts
LEMMA S_LoopStarts ==
  ASSUME TInv, Steady, pc[Vacuum] \in {"lock", "wantEx"}, StartRepair(me[Vacuum].elt, EntryPoint),
         UNCHANGED <<elem, npages, heap, meta, vac>>
  PROVE  Steady'
<1>1. /\ pc'[Vacuum] \in {"repaired", "overwrite", "entry"} /\ pc'[Vacuum] \in RepairSteps
      /\ \A q \in Procs \ {Vacuum} : pc'[q] = pc[q] /\ me'[q] = me[q]
      /\ me'[Vacuum].elt.slot = me[Vacuum].elt.slot /\ me'[Vacuum].elt.level = me[Vacuum].elt.level
  BY RepairStarts, TidTypes
<1>2. Entered'
  <2>1. EntryOk' BY DEF Steady, Entered, EntryOk
  <2>2. Alive(vac.highest)' <=> Alive(vac.highest) BY DEF Alive
  <2>3. Alive(me[Vacuum].elt)' <=> Alive(me[Vacuum].elt) BY <1>1 DEF Alive
  <2>4. Replaced BY DEF Replaced
  <2> QED BY <1>1, <2>1, <2>2, <2>3, <2>4 DEF Steady, Entered
<1> QED BY <1>1, <1>2, S_Vacuum

\* The loop asks for the lock that the element's level needs
LEMMA S_LockForRepair == ASSUME TInv, Steady, LockForRepair PROVE Steady'
<1>1. CASE Promotes(me[Vacuum].elt.level)
  <2>1. /\ pc[Vacuum] = "lock" /\ UNCHANGED <<elem, npages, heap, meta, vac, me>>
        /\ pc'[Vacuum] = "wantEx" /\ \A q \in Procs \ {Vacuum} : pc'[q] = pc[q]
    BY <1>1, VacuumProc DEF LockForRepair, TInv, TypeOK
  <2>2. Entered'
    <3>1. EntryOk' BY <2>1 DEF Steady, Entered, EntryOk
    <3>2. Alive(vac.highest)' <=> Alive(vac.highest) BY <2>1 DEF Alive
    <3>3. Alive(me[Vacuum].elt)' <=> Alive(me[Vacuum].elt) BY <2>1 DEF Alive
    <3>4. Replaced BY <2>1 DEF Replaced
    <3> QED BY <2>1, <3>1, <3>2, <3>3, <3>4 DEF Steady, Entered
  <2> QED BY <2>1, <2>2, S_Vacuum
<1>2. CASE ~Promotes(me[Vacuum].elt.level) BY <1>2, S_LoopStarts DEF LockForRepair
<1> QED BY <1>1, <1>2

\* The loop gets the exclusive lock
LEMMA S_LockExclusiveForRepair == ASSUME TInv, Steady, LockExclusiveForRepair PROVE Steady'
BY S_LoopStarts DEF LockExclusiveForRepair

\* The element repaired may become the entry point: it has heap TIDs
LEMMA S_FinishRepair == ASSUME TInv, Fresh, Steady, FinishRepair PROVE Steady'
<1>0. vac \in VacType /\ meta \in MetaType BY TidTypes
<1>e. PICK e : e = me[Vacuum].elt OBVIOUS
<1>1. /\ pc[Vacuum] = "repaired" /\ UNCHANGED <<elem, npages, heap>>
      /\ vac'.dead = vac.dead /\ vac'.deleted = vac.deleted /\ vac'.highest = vac.highest
      /\ \A q \in Procs \ {Vacuum} : pc'[q] = pc[q] /\ me'[q] = me[q]
      /\ pc'[Vacuum] = IF vac.ret = "hp" THEN "epLock" ELSE "loop"
      /\ \/ meta' = meta
         \/ vac.ret = "loop" /\ meta'.entry = e.slot /\ meta'.level = e.level
  BY <1>0, <1>e, VacuumProc DEF FinishRepair, VacType, Reset, TInv, TypeOK, EntryGreater, MetaType
<1>2. e \in Copies /\ (vac.ret = "loop" => Alive(e))
  BY <1>1, <1>e, TidTypes DEF Steady, Entered, RepairSteps
<1>3. EntryOk'
  <2>1. CASE meta' = meta BY <1>1, <2>1 DEF Steady, Entered, EntryOk
  <2>2. CASE vac.ret = "loop" /\ meta'.entry = e.slot /\ meta'.level = e.level
    <3>1. e.slot <= npages /\ ~elem[e.slot].deleted BY <1>2, <2>2, AliveEntry
    <3> QED BY <1>1, <1>2, <2>2, <3>1 DEF EntryOk, Alive
  <2> QED BY <1>1, <2>1, <2>2
<1>4. vac.ret # "hp" /\ meta'.entry # Nil => elem'[meta'.entry].tids # {}
  <2>1. CASE meta' = meta BY <1>1, <2>1 DEF Steady, Entered, Replaced, RepairSteps
  <2>2. CASE vac.ret = "loop" /\ meta'.entry = e.slot BY <1>1, <1>2, <2>2 DEF Alive
  <2> QED BY <1>1, <2>1, <2>2
<1>5. Entered'
  <2>1. Alive(vac.highest)' <=> Alive(vac.highest) BY <1>1 DEF Alive
  <2>2. Replaced' => vac.ret # "hp" BY <1>1 DEF Replaced, RepairSteps
  <2>3. pc'[Vacuum] \in {"epLock", "loop"} /\ pc'[Vacuum] \notin RepairSteps BY <1>1 DEF RepairSteps
  <2> QED BY <1>1, <1>3, <1>4, <2>1, <2>2, <2>3 DEF Steady, Entered
<1>6. pc'[Vacuum] \notin {"idle", "remove"} BY <1>1
<1> QED BY <1>1, <1>5, <1>6, S_Vacuum

\* Pass 3 begins after the repair loop
LEMMA S_WaitForScans == ASSUME TInv, Steady, WaitForScans PROVE Steady'
<1>0. vac \in VacType BY TidTypes
<1>1. /\ pc[Vacuum] = "loop" /\ pc'[Vacuum] = "mark"
      /\ \A q \in Procs \ {Vacuum} : pc'[q] = pc[q]
      /\ UNCHANGED <<elem, npages, meta, heap, me>>
      /\ vac'.dead = vac.dead /\ vac'.deleted = vac.deleted /\ vac'.highest = vac.highest
  BY <1>0, VacuumProc DEF WaitForScans, TInv, TypeOK, VacType
<1>2. Entered'
  <2>1. EntryOk' BY <1>1 DEF Steady, Entered, EntryOk
  <2>2. Alive(vac.highest)' <=> Alive(vac.highest) BY <1>1 DEF Alive
  <2>3. Replaced BY <1>1 DEF Replaced
  <2>4. pc'[Vacuum] \notin RepairSteps BY <1>1 DEF RepairSteps
  <2> QED BY <1>1, <2>1, <2>2, <2>3, <2>4 DEF Steady, Entered
<1> QED BY <1>1, <1>2, S_Vacuum

\* What MarkDeleted deletes has no heap TIDs, so it is not the entry point
LEMMA S_MarkDeleted == ASSUME TInv, Fresh, Steady, MarkDeleted PROVE Steady'
<1>0. vac \in VacType BY TidTypes
<1>s. PICK s : s = vac.pos OBVIOUS
<1>1. /\ pc[Vacuum] = "mark" /\ UNCHANGED <<npages, heap, meta, pc, me>> /\ s \in Slots
      /\ vac'.dead = vac.dead /\ vac'.deleted = vac.deleted /\ vac'.highest = vac.highest
  BY <1>0, <1>s DEF MarkDeleted, VacType
<1>2. \A r \in Slots : /\ elem'[r].tids = elem[r].tids /\ elem'[r].level = elem[r].level
                       /\ elem[r].tids # {} => elem'[r].deleted = elem[r].deleted
  <2>1. \/ elem' = elem
        \/ \E v : elem[s].tids = {} /\ elem' = [elem EXCEPT ![s].deleted = TRUE, ![s].version = v]
    BY <1>s DEF MarkDeleted
  <2>2. elem \in [Slots -> ElemType] BY TidTypes
  <2>3. CASE elem' = elem BY <2>3
  <2>4. ASSUME NEW v, elem[s].tids = {}, elem' = [elem EXCEPT ![s].deleted = TRUE, ![s].version = v]
        PROVE  \A r \in Slots : /\ elem'[r].tids = elem[r].tids /\ elem'[r].level = elem[r].level
                                /\ elem[r].tids # {} => elem'[r].deleted = elem[r].deleted
    BY <2>2, <2>4 DEF ElemType
  <2> QED BY <2>1, <2>3, <2>4
<1>3. Entered'
  <2>0. Replaced BY <1>1 DEF Replaced
  <2>1. meta.entry # Nil => elem[meta.entry].tids # {} /\ meta.entry \in Slots
    BY <2>0, TidTypes DEF Steady, Entered
  <2>2. EntryOk' BY <1>1, <1>2, <2>1 DEF Steady, Entered, EntryOk
  <2>3. Alive(vac.highest) => Alive(vac.highest)' BY <1>1, <1>2, TidTypes DEF Alive
  <2>4. pc'[Vacuum] = "mark" /\ pc'[Vacuum] \notin RepairSteps BY <1>1 DEF RepairSteps
  <2> QED BY <1>1, <1>2, <2>1, <2>2, <2>3, <2>4 DEF Steady, Entered
<1> QED BY <1>1, <1>2, <1>3, S_Vacuum

\* A VACUUM begins: no page is behind it yet
LEMMA S_BeginVacuum == ASSUME TInv, Steady, BeginVacuum PROVE Steady'
<1>0. vac \in VacType BY TidTypes
<1>1. /\ pc[Vacuum] = "idle" /\ pc'[Vacuum] = "remove"
      /\ \A q \in Procs \ {Vacuum} : pc'[q] = pc[q]
      /\ UNCHANGED <<elem, npages, meta, heap, me>>
      /\ vac'.dead = {t \in Tids : heap[t] = "dead"} /\ vac'.deleted = {} /\ vac'.pos = 1
      /\ vac'.highest.slot = Nil
  BY <1>0, VacuumProc DEF BeginVacuum, TInv, TypeOK, VacType, NoElement
<1>2. \A q \in Inserters : pc'[q] = pc[q] /\ me'[q] = me[q] BY <1>1, TidTypes
<1>3. \A s \in Slots : InChain(s)' <=> InChain(s) BY <1>1 DEF InChain
<1>4. Matched' /\ \A q \in Inserters : Inserting(q)' BY <1>1, <1>2, <1>3, M_Keep DEF Steady
<1>5. Removing'
  <2>1. \A s \in Slots : ~Behind(s)' BY <1>1 DEF Behind, Slots, Nil
  <2> QED BY <1>1, <2>1 DEF Removing
<1>6. Entered'
  <2>1. EntryOk' BY <1>1 DEF Steady, Entered, EntryOk
  <2>2. ~Replaced' /\ pc'[Vacuum] \notin RepairSteps BY <1>1 DEF Replaced, RepairSteps
  <2> QED BY <1>1, <2>1, <2>2 DEF Entered
<1> QED BY <1>4, <1>5, <1>6 DEF Steady

\* Pass 1 takes the dead TIDs from one page, and keeps those of inserts
LEMMA S_RemoveHeapTids == ASSUME TInv, Fresh, Steady, RemoveHeapTids PROVE Steady'
<1>0. vac \in VacType /\ npages \in Nat /\ vac.highest \in Copies /\ elem \in [Slots -> ElemType] BY TidTypes
<1>s. PICK s : s = vac.pos OBVIOUS
<1>d. PICK dead : dead = vac.dead OBVIOUS
<1>1. /\ pc[Vacuum] = "remove" /\ UNCHANGED <<npages, heap, meta, pc, me>> /\ s \in Slots /\ vac.pos = s
      /\ vac.dead = dead /\ vac'.dead = dead
  BY <1>0, <1>s, <1>d DEF RemoveHeapTids, VacType
<1>2. \/ s > npages /\ elem' = elem /\ vac'.pos = Nil /\ vac'.deleted = vac.deleted
         /\ vac'.highest = vac.highest
      \/ /\ s <= npages /\ elem' = [elem EXCEPT ![s].tids = elem[s].tids \ dead]
         /\ vac'.pos = IF s < npages THEN s + 1 ELSE Nil
         /\ vac'.deleted = IF elem[s].tids \ dead = {} THEN vac.deleted \cup {s} ELSE vac.deleted
         /\ \/ vac'.highest = vac.highest
            \/ /\ vac'.highest.slot = s /\ vac'.highest.level = elem[s].level
               /\ elem[s].tids \ dead # {}
  <2>1. CASE s > npages BY <1>0, <1>s, <2>1 DEF RemoveHeapTids, VacType
  <2>2. CASE ~(s > npages)
    <3>1. /\ elem' = [elem EXCEPT ![s].tids = elem[s].tids \ dead]
          /\ vac' = [vac EXCEPT !.pos = NextPos,
               !.deleted = IF elem[s].tids \ dead = {} THEN @ \cup {s} ELSE @,
               !.highest = IF elem[s].tids \ dead # {} /\ s # vac.first
                              /\ (@.slot = Nil \/ elem[s].level > @.level)
                             THEN [Load(s) EXCEPT !.live = TRUE] ELSE @]
      BY <1>s, <1>d, <2>2 DEF RemoveHeapTids
    <3> DEFINE h == [Load(s) EXCEPT !.live = TRUE]
    <3>2. h.slot = s /\ h.level = elem[s].level BY DEF Load
    <3>3. vac'.highest = vac.highest \/ (elem[s].tids \ dead # {} /\ vac'.highest = h)
      BY <1>0, <3>1 DEF VacType
    <3> HIDE DEF h
    <3>4. vac'.pos = IF s < npages THEN s + 1 ELSE Nil
      BY <1>0, <1>s, <3>1 DEF VacType, NextPos
    <3>5. vac'.deleted = IF elem[s].tids \ dead = {} THEN vac.deleted \cup {s} ELSE vac.deleted
      BY <1>0, <3>1 DEF VacType
    <3>6. s <= npages BY <1>0, <1>1, <2>2 DEF Slots
    <3> QED BY <3>1, <3>2, <3>3, <3>4, <3>5, <3>6
  <2> QED BY <2>1, <2>2
<1>3. \A r \in Slots : /\ elem'[r].level = elem[r].level /\ elem'[r].deleted = elem[r].deleted
                       /\ elem'[r].tids \subseteq elem[r].tids
                       /\ r # s => elem'[r].tids = elem[r].tids
                       /\ \A t : t \in elem[r].tids /\ t \notin dead => t \in elem'[r].tids
  <2>1. CASE elem' = elem BY <2>1
  <2>2. CASE elem' = [elem EXCEPT ![s].tids = elem[s].tids \ dead] BY <1>0, <2>2 DEF ElemType
  <2> QED BY <1>2, <2>1, <2>2
<1>4. \A t \in dead : t \in Tids /\ heap[t] = "dead" BY <1>1, TidTypes DEF Steady, Removing
<1>5. \A r \in Slots : InChain(r)' <=> InChain(r) BY <1>1 DEF InChain
<1>6. \A t : /\ InIndex(t)' => InIndex(t)
             /\ t \notin dead /\ InIndex(t) => InIndex(t)'
  BY <1>3 DEF InIndex
<1>7. Matched'
  <2>1. ASSUME NEW u \in Tids, NEW a \in Slots, NEW b \in Slots, u \in elem'[a].tids, u \in elem'[b].tids
        PROVE  a = b
    <3>1. u \in elem[a].tids /\ u \in elem[b].tids BY <1>3, <2>1
    <3> QED BY <3>1 DEF Steady, Matched
  <2>2. \A r \in Slots : elem'[r].tids # {} => InChain(r)' BY <1>3, <1>5 DEF Steady, Matched
  <2>3. \A u \in Tids : /\ heap'[u] = "live" => InIndex(u)'
                        /\ heap'[u] \in {"free", "gone"} => ~InIndex(u)'
    <3>1. \A u \in Tids : heap[u] = "live" => u \notin dead BY <1>4
    <3> QED BY <1>1, <1>6, <3>1 DEF Steady, Matched
  <2> QED BY <2>1, <2>2, <2>3 DEF Matched
<1>8. ASSUME NEW q \in Inserters PROVE Inserting(q)'
  <2>0. q \in Procs BY TidTypes
  <2>1. Inserting(q) BY DEF Steady
  <2>2. \A x \in Inserters : pc'[x] # "idle" /\ me'[x].tid = me'[q].tid /\ pc'[q] # "idle" => x = q
    BY <1>1, <2>1 DEF Inserting
  <2>3. pc'[q] # "idle" => heap'[me'[q].tid] = "inserting" BY <1>1, <2>1 DEF Inserting
  <2>4. pc[q] # "idle" => me[q].tid \notin dead BY <1>4, <2>1 DEF Inserting
  <2>5. CASE pc[q] \in Placing
    <3>1. pc[q] # "idle" BY <2>5 DEF Placing
    <3>2. /\ me[q].tid \in elem[me[q].elt.slot].tids
          /\ me[q].elt.slot # Nil /\ elem[me[q].elt.slot].level = me[q].elt.level
      BY <2>1, <2>5, <3>1 DEF Inserting
    <3>3. me[q].elt.slot \in Slots BY <2>0, <3>2, TidTypes
    <3>4. /\ me[q].tid \in elem'[me[q].elt.slot].tids
          /\ elem'[me[q].elt.slot].level = me[q].elt.level
      BY <1>3, <2>4, <3>1, <3>2, <3>3
    <3>5. /\ me'[q].tid \in elem'[me'[q].elt.slot].tids /\ pc'[q] \in Placing
          /\ me'[q].elt.slot # Nil /\ elem'[me'[q].elt.slot].level = me'[q].elt.level
      BY <1>1, <2>5, <3>2, <3>4
    <3> QED BY <2>2, <2>3, <3>5 DEF Inserting
  <2>6. CASE pc[q] \notin Placing
    <3>1. pc[q] # "idle" => ~InIndex(me[q].tid)' BY <1>1, <1>6, <2>1, <2>6 DEF Inserting
    <3> QED BY <1>1, <2>2, <2>3, <2>6, <3>1 DEF Inserting
  <2> QED BY <2>5, <2>6
<1>9. Removing'
  <2>1. \A t \in vac'.dead : heap'[t] = "dead" BY <1>1, <1>4
  <2>2. \A r \in Slots : r < s => /\ elem[r].tids \cap dead = {}
                                  /\ InChain(r) /\ elem[r].tids = {} => r \in vac.deleted
    BY <1>1 DEF Steady, Removing, Behind
  <2>3. \A r \in Slots : ~InChain(r) => elem'[r].tids = {} BY <1>3 DEF Steady, Matched
  <2>4. ASSUME NEW r \in Slots, Behind(r)'
        PROVE  /\ elem'[r].tids \cap dead = {}
               /\ InChain(r)' /\ elem'[r].tids = {} => r \in vac'.deleted
    <3>0. s \in Nat /\ r \in Nat BY <1>1 DEF Slots
    <3>1. CASE s > npages
      <4>1. r < s \/ ~InChain(r) BY <1>0, <3>0, <3>1 DEF InChain
      <4>2. elem'[r].tids = elem[r].tids /\ vac'.deleted = vac.deleted BY <1>0, <1>2, <3>0, <3>1
      <4> QED BY <1>5, <2>2, <2>3, <4>1, <4>2
    <3>2. CASE s <= npages
      <4>1. /\ elem' = [elem EXCEPT ![s].tids = elem[s].tids \ dead]
            /\ vac'.pos = IF s < npages THEN s + 1 ELSE Nil
            /\ vac'.deleted = IF elem[s].tids \ dead = {} THEN vac.deleted \cup {s} ELSE vac.deleted
        BY <1>0, <1>2, <3>0, <3>2
      <4>2. CASE r = s
        <5>1. elem'[r].tids = elem[s].tids \ dead BY <1>0, <1>1, <4>1, <4>2 DEF ElemType
        <5> QED BY <4>1, <4>2, <5>1
      <4>3. CASE r < s
        <5>1. elem'[r].tids = elem[r].tids BY <1>3, <3>0, <4>3
        <5> QED BY <1>5, <2>2, <4>1, <4>3, <5>1
      <4>4. CASE r > s
        <5>1. pc'[Vacuum] = "remove" BY <1>1
        <5>2. vac'.pos = Nil \/ r < vac'.pos BY <2>4, <5>1 DEF Behind
        <5>3. s = npages BY <1>0, <3>0, <3>2, <4>1, <4>4, <5>2 DEF Nil
        <5>4. ~InChain(r) BY <1>0, <3>0, <4>4, <5>3 DEF InChain
        <5> QED BY <1>5, <2>3, <5>4
      <4> QED BY <3>0, <4>2, <4>3, <4>4
    <3> QED BY <1>0, <3>0, <3>1, <3>2
  <2> QED BY <1>1, <2>1, <2>4 DEF Removing
<1>10. Entered'
  <2>1. EntryOk'
    <3>1. meta.entry # Nil => meta.entry \in Slots BY TidTypes
    <3> QED BY <1>1, <1>3, <3>1 DEF Steady, Entered, EntryOk
  <2>2. ~Replaced' /\ pc'[Vacuum] \notin RepairSteps BY <1>1 DEF Replaced, RepairSteps
  <2>3. vac'.highest.slot # Nil => Alive(vac.highest)'
    <3>1. CASE vac'.highest = vac.highest
      <4>1. vac.highest.slot # Nil => vac.highest.slot \in Slots /\ vac.highest.slot < s
        BY <1>0, <1>1 DEF Fresh, Repairing, Copies, Slots, Nil
      <4>2. vac.highest.slot # Nil => vac.highest.slot # s BY <1>1, <4>1 DEF Slots
      <4>3. vac.highest.slot # Nil => Alive(vac.highest) BY <1>1 DEF Steady, Entered
      <4> QED BY <1>3, <3>1, <4>1, <4>2, <4>3 DEF Alive
    <3>2. CASE /\ vac'.highest.slot = s /\ vac'.highest.level = elem[s].level
               /\ elem[s].tids \ dead # {}
      BY <1>1, <1>3, <3>2 DEF Alive
    <3> QED BY <1>2, <3>1, <3>2
  <2> QED BY <1>1, <2>1, <2>2, <2>3 DEF Entered
<1> QED BY <1>7, <1>8, <1>9, <1>10 DEF Steady

\* The heap gets the dead TIDs back: no element has them
LEMMA S_EndVacuum == ASSUME TInv, Steady, EndVacuum PROVE Steady'
<1>0. /\ vac.dead \subseteq Tids /\ meta \in MetaType BY TidTypes
<1>1. /\ pc[Vacuum] = "mark" /\ pc'[Vacuum] = "idle"
      /\ \A q \in Procs \ {Vacuum} : pc'[q] = pc[q]
      /\ UNCHANGED <<elem, npages, me>>
      /\ meta'.entry = meta.entry /\ meta'.level = meta.level
      /\ \A t \in Tids : heap'[t] = IF t \in vac.dead THEN "gone" ELSE heap[t]
  BY <1>0, VacuumProc DEF EndVacuum, TInv, TypeOK, MetaType
<1>2. \A q \in Inserters : pc'[q] = pc[q] /\ me'[q] = me[q] BY <1>1, TidTypes
<1>3. \A s \in Slots : InChain(s)' <=> InChain(s) BY <1>1 DEF InChain
<1>4. \A t : InIndex(t)' <=> InIndex(t) BY <1>1 DEF InIndex
<1>5. \A t \in vac.dead : ~InIndex(t) /\ heap[t] = "dead"
  BY <1>1 DEF Steady, Removing, Behind, InIndex
<1>6. Matched' BY <1>1, <1>3, <1>4, <1>5 DEF Steady, Matched
<1>7. ASSUME NEW q \in Inserters PROVE Inserting(q)'
  <2>1. pc'[q] = pc[q] /\ me'[q] = me[q] /\ Inserting(q) BY <1>2 DEF Steady
  <2>2. \A x \in Inserters : pc'[x] # "idle" /\ me'[x].tid = me'[q].tid /\ pc'[q] # "idle" => x = q
    BY <1>2, <2>1 DEF Inserting
  <2>3. pc[q] # "idle" => me[q].tid \in Tids /\ me[q].tid \notin vac.dead
    BY <1>5, <2>1, TidTypes DEF Inserting
  <2>4. pc'[q] # "idle" => heap'[me'[q].tid] = "inserting" BY <1>1, <2>1, <2>3 DEF Inserting
  <2>5. CASE pc[q] \in Placing
    <3>1. pc[q] # "idle" BY <2>5 DEF Placing
    <3>2. /\ me'[q].tid \in elem'[me'[q].elt.slot].tids /\ pc'[q] \in Placing
          /\ me'[q].elt.slot # Nil /\ elem'[me'[q].elt.slot].level = me'[q].elt.level
      BY <1>1, <2>1, <2>5, <3>1 DEF Inserting
    <3> QED BY <2>2, <2>4, <3>2 DEF Inserting
  <2>6. CASE pc[q] \notin Placing
    <3>1. pc[q] # "idle" => ~InIndex(me[q].tid)' BY <1>4, <2>1, <2>6 DEF Inserting
    <3> QED BY <2>1, <2>2, <2>4, <2>6, <3>1 DEF Inserting
  <2> QED BY <2>5, <2>6
<1>8. Removing' BY <1>1 DEF Removing
<1>9. Entered'
  <2>1. EntryOk' BY <1>1 DEF Steady, Entered, EntryOk
  <2>2. ~Replaced' /\ pc'[Vacuum] \notin RepairSteps BY <1>1 DEF Replaced, RepairSteps
  <2> QED BY <1>1, <2>1, <2>2 DEF Entered
<1> QED BY <1>6, <1>7, <1>8, <1>9 DEF Steady

\* A row dies: its TID stays where it is until VACUUM comes
LEMMA S_RowDies == ASSUME TInv, Steady, NEW t \in Tids, RowDies(t) PROVE Steady'
<1>1. /\ UNCHANGED <<elem, npages, meta, pc, me, vac>> /\ heap[t] = "live"
      /\ \A u \in Tids : heap'[u] = IF u = t THEN "dead" ELSE heap[u]
  BY DEF RowDies, TInv, TypeOK
<1>2. \A u : InIndex(u)' <=> InIndex(u) BY <1>1 DEF InIndex
<1>3. \A s \in Slots : InChain(s)' <=> InChain(s) BY <1>1 DEF InChain
<1>4. Matched' BY <1>1, <1>2, <1>3 DEF Steady, Matched
<1>5. ASSUME NEW q \in Inserters PROVE Inserting(q)'
  <2>1. Inserting(q) BY DEF Steady
  <2>2. pc[q] # "idle" => heap'[me[q].tid] = "inserting" BY <1>1, <2>1, TidTypes DEF Inserting
  <2> QED BY <1>1, <1>2, <2>1, <2>2 DEF Inserting
<1>6. Removing'
  <2>1. \A u \in vac.dead : heap[u] = "dead" => heap'[u] = "dead" BY <1>1, TidTypes
  <2> QED BY <1>1, <1>3, <2>1, R_Keep DEF Steady
<1>7. EntryOk' BY <1>1 DEF Steady, Entered, EntryOk
<1>8. Entered' BY <1>1, <1>7, E_Keep DEF Steady, LiveKept
<1> QED BY <1>4, <1>5, <1>6, <1>8 DEF Steady

\* A step that changes nothing
LEMMA S_Stutter == ASSUME TInv, Steady, UNCHANGED vars PROVE Steady'
<1>1. UNCHANGED <<elem, npages, meta, heap, pc, me, vac>> BY DEF vars
<1>2. \A s \in Slots : InChain(s)' <=> InChain(s) BY <1>1 DEF InChain
<1>3. Matched' /\ \A q \in Inserters : Inserting(q)' BY <1>1, <1>2, M_Keep DEF Steady
<1>4. Removing' BY <1>1, <1>2, R_Keep DEF Steady
<1>5. EntryOk' BY <1>1 DEF Steady, Entered, EntryOk
<1>6. Entered' BY <1>1, <1>5, E_Keep DEF Steady, LiveKept
<1> QED BY <1>3, <1>4, <1>6 DEF Steady

\* Every step of a search keeps the TIDs and the entry point in order
LEMMA S_SearchStep ==
  ASSUME TInv, Steady, NEW p \in Procs, SearchStep(p) PROVE Steady'
BY S_EntryCandidate, S_ExpandCandidate, S_LoadUnvisited, S_DescendLayer, S_FinishLayer
   DEF SearchStep

\* So does every step of a neighbor update
LEMMA S_UpdateStep ==
  ASSUME TInv, Steady, NEW p \in Procs, UpdateStep(p) PROVE Steady'
BY S_ReadNeighborList, S_LoadElementForInsert, S_UpdateNeighbor DEF UpdateStep

\* Every step keeps the TIDs and the entry point in order
LEMMA S_Next ==
  ASSUME TInv, Fresh, Steady, [Next]_vars PROVE Steady'
<1>1. CASE UNCHANGED vars BY <1>1, S_Stutter
<1>2. ASSUME NEW p \in Inserters, InsertStep(p) PROVE Steady'
  <2>1. p \in Procs BY DEF Procs
  <2> QED
    BY <1>2, <2>1, S_LockForInsert, S_SearchStep, S_GiveUpDuplicates, S_AddDuplicate,
       S_ReplaceDeleted, S_NextPage, S_AppendPage, S_UpdateInsertPage, S_UpdateStep,
       S_FinishInsert DEF InsertStep
<1>3. ASSUME NEW p \in Inserters, NEW t \in Tids, NEW l \in Levels, BeginInsert(p, t, l)
      PROVE  Steady'
  BY <1>3, S_BeginInsert
<1>4. CASE VacuumStep
  BY <1>4, VacuumProc, S_RemoveHeapTids, S_WaitForInserts, S_LockHighest, S_CheckHighest,
     S_LockEntryPoint, S_LoadForRepair, S_CheckElement, S_LockForRepair,
     S_LockExclusiveForRepair, S_SearchStep, S_OverwriteNeighbors, S_UpdateStep,
     S_NeighborsRepaired, S_FinishRepair, S_WaitForScans, S_MarkDeleted, S_EndVacuum
     DEF VacuumStep
<1>5. CASE BeginVacuum BY <1>5, S_BeginVacuum
<1>6. ASSUME NEW p \in Scanners, ScanStep(p) \/ BeginScan(p) PROVE Steady'
  <2>1. p \in Procs BY DEF Procs
  <2> QED BY <1>6, <2>1, S_SearchStep, S_EndScan, S_BeginScan DEF ScanStep
<1>7. ASSUME NEW t \in Tids, RowDies(t) PROVE Steady' BY <1>7, S_RowDies
<1>8. ASSUME NEW p \in Procs, Cancel(p) PROVE Steady' BY <1>8, S_Cancel
<1> QED BY <1>1, <1>2, <1>3, <1>4, <1>5, <1>6, <1>7, <1>8 DEF Next

\* CREATE INDEX puts every row it reads into an element of its own
LEMMA S_Init == Init => Steady
<1> SUFFICES ASSUME Init PROVE Steady OBVIOUS
<1>1. /\ NBuilt \in Nat /\ NBuilt <= NSlots /\ npages = NBuilt
      /\ \A i, j \in 1..NBuilt : BuiltTids[i] = BuiltTids[j] => i = j
  BY ConstantsAssumption DEF NBuilt, Init
<1>2. \A s \in Slots : elem[s].tids = IF s <= NBuilt THEN {BuiltTids[s]} ELSE {}
  BY DEF Init, NullElem
<1>3. \A p \in Procs : pc[p] = "idle" BY DEF Init
<1>4. Matched
  <2>1. ASSUME NEW t \in Tids, NEW r \in Slots, NEW s \in Slots, t \in elem[r].tids, t \in elem[s].tids
        PROVE  r = s
    <3>1. r <= NBuilt /\ s <= NBuilt /\ BuiltTids[r] = t /\ BuiltTids[s] = t BY <1>2, <2>1
    <3>2. r \in 1..NBuilt /\ s \in 1..NBuilt BY <1>1, <3>1 DEF Slots
    <3> QED BY <1>1, <3>1, <3>2
  <2>2. \A s \in Slots : elem[s].tids # {} => InChain(s) BY <1>1, <1>2 DEF InChain
  <2>3. \A t \in Tids : InIndex(t) <=> \E i \in 1..NBuilt : BuiltTids[i] = t
    <3> SUFFICES ASSUME NEW t \in Tids PROVE InIndex(t) <=> \E i \in 1..NBuilt : BuiltTids[i] = t
      OBVIOUS
    <3>1. \A i : i \in 1..NBuilt <=> i \in Slots /\ i <= NBuilt BY <1>1, ConstantsAssumption DEF Slots
    <3> QED BY <1>2, <3>1 DEF InIndex
  <2>4. \A t \in Tids : heap[t] = IF \E i \in 1..NBuilt : BuiltTids[i] = t THEN "live" ELSE "free"
    BY DEF Init
  <2> QED BY <2>1, <2>2, <2>3, <2>4 DEF Matched
<1>5. \A p \in Inserters : Inserting(p) BY <1>3 DEF Inserting, Procs
<1>6. Removing BY <1>3, VacuumProc DEF Removing
<1>7. EntryOk
  <2>1. CASE NBuilt = 0 BY <2>1 DEF Init, EntryOk
  <2>2. CASE NBuilt # 0
    <3>b. PICK b : b = BuiltEntry OBVIOUS
    <3>1. b \in 1..NBuilt BY <2>2, <3>b, BuiltEntryType
    <3>2. b \in Slots /\ b <= NBuilt BY <1>1, <3>1, ConstantsAssumption DEF Slots
    <3>3. meta.entry = b /\ meta.level = BuiltLevel[b] BY <2>2, <3>b DEF Init
    <3>4. ~elem[b].deleted /\ elem[b].level = BuiltLevel[b] BY <3>2 DEF Init
    <3> QED BY <1>1, <3>2, <3>3, <3>4 DEF EntryOk
  <2> QED BY <2>1, <2>2
<1>8. Entered
  <2>1. ~Replaced /\ pc[Vacuum] \notin RepairSteps BY <1>3, VacuumProc DEF Replaced, RepairSteps
  <2> QED BY <1>3, <1>7, <2>1, VacuumProc DEF Entered
<1> QED BY <1>4, <1>5, <1>6, <1>8 DEF Steady

\* Steady is an invariant
LEMMA AlwaysSteady == Spec => []Steady
<1>1. Coherent /\ Steady /\ [Next]_vars => Steady' BY S_Next DEF Coherent, TInv
<1> QED BY <1>1, S_Init, AlwaysCoherent, PTL DEF Spec

\* A committed row is in exactly one element, and a TID the heap may hand out
\* again is in none, whatever inserts (AddElementOnDisk, AddDuplicateOnDisk),
\* VACUUM (RemoveHeapTids, MarkDeleted) and cancelled statements do
THEOREM TidsPlaced == Spec => []TidPlaced
<1>1. Coherent /\ Steady => TidPlaced
  <2> SUFFICES ASSUME Coherent, Steady, NEW t \in Tids
               PROVE  /\ Cardinality(HoldersOf(t)) <= 1
                      /\ heap[t] = "live" => HoldersOf(t) # {}
                      /\ heap[t] \in {"free", "gone"} => HoldersOf(t) = {}
    BY DEF TidPlaced
  <2>1. npages \in Nat /\ npages <= NSlots BY TidTypes DEF Coherent, TInv
  <2>2. HoldersOf(t) \subseteq Slots BY <2>1, ConstantsAssumption DEF HoldersOf, Slots
  <2>3. \A s \in Slots : t \in elem[s].tids => s \in HoldersOf(t)
    BY <2>1 DEF Steady, Matched, InChain, HoldersOf, Slots
  <2>4. InIndex(t) <=> HoldersOf(t) # {} BY <2>2, <2>3 DEF InIndex, HoldersOf
  <2>5. \A r, s \in HoldersOf(t) : r = s BY <2>2 DEF Steady, Matched, HoldersOf
  <2>6. Cardinality(HoldersOf(t)) <= 1
    <3>1. CASE HoldersOf(t) = {} BY <3>1, FS_EmptySet
    <3>2. CASE HoldersOf(t) # {}
      <4>1. PICK s : s \in HoldersOf(t) BY <3>2
      <4>2. HoldersOf(t) = {s} BY <2>5, <4>1
      <4>3. Cardinality(HoldersOf(t)) = 1 BY <4>2, FS_Singleton
      <4> QED BY <4>3
    <3> QED BY <3>1, <3>2
  <2> QED BY <2>4, <2>6 DEF Steady, Matched
<1> QED BY <1>1, AlwaysCoherent, AlwaysSteady, PTL

\* The metapage's entry point is an element that is not deleted, of the level
\* the metapage has, whoever replaced it last (UpdateGraphOnDisk,
\* RepairGraphEntryPoint, RepairGraph), and whatever was cancelled
THEOREM EntryKept == Spec => []EntryOk
<1>1. Steady => EntryOk BY DEF Steady, Entered
<1> QED BY <1>1, AlwaysSteady, PTL

-----------------------------------------------------------------------------
(* What VACUUM has repaired, and what scans can reach                      *)

\* The hypothesis of this part: while VACUUM removes heap TIDs (pass 1), no
\* insert is promoted over an entry point (run hnsw_promoted_entry shows what
\* happens otherwise).  The first row of an empty index may become one.
Stays == pc[Vacuum] = "remove" /\ meta.entry # Nil => meta'.entry = meta.entry
EntryStays == [][Stays]_vars

\* The elements of which no neighbor has lost all its heap TIDs
Clean == {s \in Slots : \A r \in Referenced(s) : elem[r].tids # {}}
\* The element keeps a heap TID whatever pass 1 still removes
Survives(s) == ~(elem[s].tids \subseteq vac.dead)

PastWait == pc[Vacuum] \notin {"idle", "remove"}
Searching == {"entry", "search", "overwrite"}
Linking   == {"update", "loadNbrs", "write"}
Repairs(ret) == pc[Vacuum] \in RepairSteps /\ vac.ret = ret
InLoop == pc[Vacuum] \in {"loop", "check", "lock", "wantEx"} \/ Repairs("loop")

\* A repair holds HNSW_UPDATE_LOCK, that of the entry point exclusively
Held ==
  /\ pc[Vacuum] \in RepairSteps \cup {"hpCheck"} => Vacuum \in updLock.sh \cup updLock.ex
  /\ Repairs("ep") => Vacuum \in updLock.ex
  /\ pc[Vacuum] \in {"loop", "check", "lock", "wantEx"} => vac.ret = "loop"

\* The first row of an empty index is inserted under the exclusive lock and has
\* no neighbors
Alone(p) ==
  pc[p] \notin {"idle", "wantEx"} /\ meta.entry = Nil =>
    /\ p \in updLock.ex /\ pc[p] \in {"dup", "walk", "setPage", "update"}
    /\ \A lc \in Levels : nb[p][lc] = {}
    /\ pc[p] \in Placing => Referenced(me[p].elt.slot) = {} /\ upd[p].todo = {}

\* Pass 1 leaves the entry point out of highestPoint; an entry point that came
\* meanwhile has no neighbor that pass 1 empties
Pass1 ==
  pc[Vacuum] = "remove" =>
    /\ meta.entry # vac.first => vac.first = Nil /\ \A r \in Referenced(meta.entry) : Survives(r)
    /\ vac.highest.slot # Nil => vac.highest.slot # vac.first

\* Once VACUUM has waited for inserts, the elements that later ones place are clean
PlacedClean == PastWait => \A p \in Inserters : pc[p] \in Placing => me[p].elt.slot \in Clean

\* The highest element is clean when the entry point is compared with it, also
\* if it is the entry point and its own repair is skipped
HighestDone ==
  /\ (pc[Vacuum] \in {"hpLock", "hpCheck"} \/ Repairs("hp")) /\ meta.entry # Nil
       /\ vac.highest.slot = meta.entry => meta.entry \in Clean
  /\ Repairs("hp") /\ pc[Vacuum] # "repaired" => me[Vacuum].elt.slot = vac.highest.slot
  /\ (Repairs("hp") /\ pc[Vacuum] \notin Searching) \/ pc[Vacuum] = "epLock" =>
       (vac.highest.slot # Nil => vac.highest.slot \in Clean)

\* The entry point is clean once RepairGraphEntryPoint is through, and stays it
EntryDone ==
  /\ Repairs("ep") /\ pc[Vacuum] # "repaired" => me[Vacuum].elt.slot = meta.entry
  /\ (Repairs("ep") /\ pc[Vacuum] \notin Searching) \/ InLoop =>
       (meta.entry # Nil => meta.entry \in Clean)

\* Live elements behind the repair loop are clean, at its end all of them
LoopDone ==
  /\ InLoop => \A s \in Slots : elem[s].tids # {} =>
       \/ s \in Clean
       \/ vac.pos # Nil /\ s >= vac.pos
       \/ s = me[Vacuum].elt.slot /\ pc[Vacuum] \in {"check", "lock", "wantEx"} \cup Searching
  /\ Repairs("loop") /\ pc[Vacuum] \notin Searching => me[Vacuum].elt.slot \in Clean
  /\ pc[Vacuum] = "mark" => \A s \in Slots : elem[s].tids # {} => s \in Clean

Repaired == HighestDone /\ EntryDone /\ LoopDone

\* A part of the graph that scans do not leave: it has every live element and
\* no deleted one
Closed(G) ==
  /\ \A s \in Slots : elem[s].tids # {} => s \in G
  /\ \A s \in G : ~elem[s].deleted /\ Referenced(s) \subseteq G
  /\ meta.entry # Nil => meta.entry \in G
  /\ pc[Vacuum] = "mark" => \A s \in G : elem[s].tids # {}

\* What a backend remembers of its search is in it
Within(G, p) ==
  /\ p \in Scanners =>
       /\ pc[p] = "idle" => srch[p] = NoSearch
       /\ pc[p] # "idle" => p \in scanLock.sh
       /\ pc[p] = "entry" => ep[p].slot \in G
       /\ srch[p].pend \subseteq G
       /\ \A c \in srch[p].w \cup srch[p].todo : c.slot \in G /\ c.level >= srch[p].lc
  /\ p \notin Scanners =>
       /\ \A c \in srch[p].w : c.live => c.slot \in G
       /\ \A lc \in Levels : \A c \in nb[p][lc] : c.slot \in G

Guarded(G) == Closed(G) /\ \A p \in Procs : Within(G, p)

Sound ==
  /\ Held /\ (\A p \in Inserters : Alone(p)) /\ Pass1 /\ PlacedClean /\ Repaired
  /\ \E G \in SUBSET Slots : Guarded(G)
  /\ ScansNeverReadDeleted

\* Types of what the proofs below follow
LEMMA GraphTypes ==
  ASSUME TInv
  PROVE  /\ \A s \in Slots : Referenced(s) \subseteq Slots
         /\ meta.entry # Nil => meta.entry \in Slots
         /\ vac.highest.slot # Nil => vac.highest.slot \in Slots
         /\ \A p \in Procs : me[p].elt.slot # Nil => me[p].elt.slot \in Slots
         /\ Nil \notin Slots /\ Scanners \subseteq Procs /\ Inserters \subseteq Procs
<1>1. ASSUME NEW s \in Slots PROVE Referenced(s) \subseteq Slots
  <2>1. ntup[s] \in NtupType BY DEF TInv, TypeOK
  <2>2. ntup[s].level \in Levels /\ ntup[s].nbrs \in [Levels -> [Widest -> Slots \cup {Nil}]]
    BY <2>1 DEF NtupType, Lists
  <2>3. 0..ntup[s].level \subseteq Levels BY <2>2, ConstantsAssumption DEF Levels
  <2> QED BY <2>2, <2>3 DEF Referenced
<1> QED BY <1>1, TidTypes DEF Slots, Nil, Procs

\* Neighbors are pages of the chain
LEMMA ReferencedInChain ==
  ASSUME TInv, Fresh, NEW s \in Slots, NEW r \in Referenced(s) PROVE InChain(r)
<1>1. ntup[s] \in NtupType BY DEF TInv, TypeOK
<1>2. 0..ntup[s].level \subseteq Levels BY <1>1, ConstantsAssumption DEF NtupType, Levels
<1> QED BY <1>2 DEF Referenced, Fresh, Bounded

\* An element that survives pass 1 has heap TIDs, and one that has some is not deleted
LEMMA LiveSlots ==
  ASSUME TInv, Fresh
  PROVE  \A s \in Slots : /\ Survives(s) => elem[s].tids # {}
                          /\ elem[s].tids # {} => ~elem[s].deleted
BY DEF Survives, Fresh, Paired

\* Tuples that stay what they are stay clean
LEMMA CleanSame ==
  ASSUME elem' = elem, ntup' = ntup
  PROVE  /\ \A s : Referenced(s)' = Referenced(s)
         /\ Clean' = Clean
BY DEF Clean, Referenced

\* What an insert, a scan or a repair under way needs of the lock table
LocksKept(p) ==
  /\ \A q \in Procs \ {p} : /\ q \in updLock.sh => q \in updLock'.sh
                            /\ q \in updLock.ex => q \in updLock'.ex
  /\ \A q \in Scanners \ {p} : q \in scanLock.sh => q \in scanLock'.sh

\* Each way to use the locks leaves those of other backends alone
LEMMA LocksKeptBy ==
  ASSUME TInv, NEW p \in Procs,
         updLock' \in {updLock, Share(updLock, p), Exclude(updLock, p), Drop(updLock, p)},
         scanLock' \in {scanLock, Share(scanLock, p), Drop(scanLock, p)}
  PROVE  LocksKept(p)
<1>1. updLock \in LockType /\ scanLock \in LockType BY DEF TInv, TypeOK
<1>2. /\ updLock.sh \ {p} \subseteq updLock'.sh /\ updLock.ex \ {p} \subseteq updLock'.ex
  BY <1>1 DEF Share, Exclude, Drop, LockType
<1>3. scanLock.sh \ {p} \subseteq scanLock'.sh
  BY <1>1 DEF Share, Drop, LockType
<1> QED BY <1>2, <1>3 DEF LocksKept

\* A backend that keeps its state keeps what it remembers in the graph
LEMMA WithinKept ==
  ASSUME TInv, NEW G, NEW H, G \subseteq H, NEW p \in Procs, Others(p), LocksKept(p),
         NEW q \in Procs \ {p}, Within(G, q)
  PROVE  Within(H, q)'
<1>1. /\ pc'[q] = pc[q] /\ ep'[q] = ep[q] /\ srch'[q] = srch[q] /\ nb'[q] = nb[q]
  BY DEF Others
<1>2. CASE q \in Scanners BY <1>1, <1>2 DEF Within, LocksKept
<1>3. CASE q \notin Scanners BY <1>1, <1>3 DEF Within
<1> QED BY <1>2, <1>3

\* The graph grows by live elements
LEMMA G_Step ==
  ASSUME TInv, NEW G \in SUBSET Slots, Guarded(G), NEW H \in SUBSET Slots, G \subseteq H,
         NEW p \in Procs, Others(p), LocksKept(p), Closed(H)', Within(H, p)'
  PROVE  (\E K \in SUBSET Slots : Guarded(K))'
<1>1. \A q \in Procs \ {p} : Within(H, q)' BY WithinKept DEF Guarded
<1>2. Guarded(H)' BY <1>1 DEF Guarded
<1> QED BY <1>2

\* A step that writes no page leaves it as it is
LEMMA ClosedSame ==
  ASSUME NEW G \in SUBSET Slots, Closed(G), elem' = elem, ntup' = ntup,
         meta'.entry = meta.entry, pc'[Vacuum] = "mark" => pc[Vacuum] = "mark"
  PROVE  Closed(G)'
<1>1. \A s : Referenced(s)' = Referenced(s) BY CleanSame
<1>2. meta'.entry # Nil => meta'.entry \in G BY DEF Closed
<1> QED BY <1>1, <1>2 DEF Closed

\* ... also if the entry point becomes another live element
LEMMA ClosedEntry ==
  ASSUME NEW G \in SUBSET Slots, Closed(G), elem' = elem, ntup' = ntup,
         meta'.entry # Nil => meta'.entry \in G, pc'[Vacuum] = "mark" => pc[Vacuum] = "mark"
  PROVE  Closed(G)'
<1>1. \A s : Referenced(s)' = Referenced(s) BY CleanSame
<1> QED BY <1>1 DEF Closed

\* An insert into an empty index stays alone
LEMMA AloneKept ==
  ASSUME NEW q, Alone(q), pc'[q] = pc[q], me'[q] = me[q], nb'[q] = nb[q], upd'[q] = upd[q],
         q \in updLock.ex => q \in updLock'.ex,
         pc[q] \notin {"idle", "wantEx"} /\ meta'.entry = Nil =>
           /\ meta.entry = Nil
           /\ q \in updLock.ex /\ pc[q] \in Placing
                => Referenced(me[q].elt.slot)' \subseteq Referenced(me[q].elt.slot)
  PROVE  Alone(q)'
<1>1. CASE ~(pc[q] \notin {"idle", "wantEx"} /\ meta'.entry = Nil) BY <1>1 DEF Alone
<1>2. CASE pc[q] \notin {"idle", "wantEx"} /\ meta'.entry = Nil
  <2>1. /\ q \in updLock'.ex /\ pc[q] \in {"dup", "walk", "setPage", "update"}
        /\ \A lc \in Levels : nb[q][lc] = {}
        /\ pc[q] \in Placing => Referenced(me[q].elt.slot) = {} /\ upd[q].todo = {}
    BY <1>2 DEF Alone
  <2>2. meta.entry = Nil /\ q \in updLock.ex BY <1>2 DEF Alone
  <2>3. pc[q] \in Placing => Referenced(me[q].elt.slot)' \subseteq Referenced(me[q].elt.slot)
    BY <1>2, <2>2
  <2>5. pc[q] \in Placing => Referenced(me[q].elt.slot)' = {} BY <2>1, <2>3
  <2>4. pc[q] \in Placing => upd'[q].todo = {} BY <2>1
  <2> QED BY <2>1, <2>4, <2>5 DEF Alone
<1> QED BY <1>1, <1>2

\* What an insert or a scan may do to what VACUUM has repaired
LEMMA R_Other ==
  ASSUME Repaired, vac' = vac, pc'[Vacuum] = pc[Vacuum], me'[Vacuum] = me[Vacuum],
         PastWait => /\ Clean \subseteq Clean'
                     /\ \A s \in Slots : elem'[s].tids # {} => elem[s].tids # {} \/ s \in Clean',
         \/ meta'.entry = meta.entry
         \/ ~Repairs("ep") /\ meta'.entry # Nil /\ (PastWait => meta'.entry \in Clean')
  PROVE  Repaired'
<1>0. /\ Repairs("ep") \/ Repairs("hp") \/ Repairs("loop") \/ InLoop => PastWait
      /\ pc[Vacuum] \in {"mark", "hpLock", "hpCheck", "epLock"} => PastWait
      /\ \A ret : Repairs(ret)' <=> Repairs(ret)
      /\ InLoop' <=> InLoop
  BY DEF PastWait, InLoop, Repairs, RepairSteps
<1>1. HighestDone' BY <1>0 DEF Repaired, HighestDone
<1>2. EntryDone' BY <1>0 DEF Repaired, EntryDone
<1>3. LoopDone'
  <2>1. ASSUME InLoop, NEW s \in Slots, elem'[s].tids # {}
        PROVE  \/ s \in Clean'
               \/ vac.pos # Nil /\ s >= vac.pos
               \/ s = me[Vacuum].elt.slot /\ pc[Vacuum] \in {"check", "lock", "wantEx"} \cup Searching
    BY <1>0, <2>1 DEF Repaired, LoopDone
  <2>2. ASSUME pc[Vacuum] = "mark", NEW s \in Slots, elem'[s].tids # {} PROVE s \in Clean'
    BY <1>0, <2>2 DEF Repaired, LoopDone
  <2>3. Repairs("loop") /\ pc[Vacuum] \notin Searching => (me[Vacuum].elt.slot \in Clean)'
    BY <1>0 DEF Repaired, LoopDone
  <2>4. (InLoop => \A s \in Slots : elem[s].tids # {} =>
           \/ s \in Clean
           \/ vac.pos # Nil /\ s >= vac.pos
           \/ s = me[Vacuum].elt.slot /\ pc[Vacuum] \in {"check", "lock", "wantEx"} \cup Searching)'
    BY <1>0, <2>1
  <2>5. (pc[Vacuum] = "mark" => \A s \in Slots : elem[s].tids # {} => s \in Clean)' BY <2>2
  <2>6. (Repairs("loop") /\ pc[Vacuum] \notin Searching => me[Vacuum].elt.slot \in Clean)'
    BY <1>0, <2>3
  <2> QED BY <2>4, <2>5, <2>6 DEF LoopDone
<1> QED BY <1>1, <1>2, <1>3 DEF Repaired

\* A step of an insert or a scan
LEMMA C_Other ==
  ASSUME TInv, Sound, NEW p \in Procs, p # Vacuum, Others(p), LocksKept(p), vac' = vac,
         \A q \in Inserters : Alone(q)',
         Pass1', PlacedClean', ScansNeverReadDeleted',
         PastWait => /\ Clean \subseteq Clean'
                     /\ \A s \in Slots : elem'[s].tids # {} => elem[s].tids # {} \/ s \in Clean',
         \/ meta'.entry = meta.entry
         \/ ~Repairs("ep") /\ meta'.entry # Nil /\ (PastWait => meta'.entry \in Clean'),
         (\E G \in SUBSET Slots : Guarded(G))'
  PROVE  Sound'
<1>1. pc'[Vacuum] = pc[Vacuum] /\ me'[Vacuum] = me[Vacuum] /\ Vacuum \in Procs \ {p}
  BY VacuumProc DEF Others
<1>2. Repaired' BY <1>1, R_Other DEF Sound
<1>3. Repairs("ep")' <=> Repairs("ep") BY <1>1 DEF Repairs
<1>4. Held' BY <1>1, <1>3 DEF Sound, Held, LocksKept
<1> QED BY <1>2, <1>4 DEF Sound

\* ... that writes no page and leaves the entry point
LEMMA C_Quiet ==
  ASSUME TInv, Sound, NEW p \in Procs, p # Vacuum, Others(p), LocksKept(p),
         UNCHANGED <<elem, ntup, vac>>, meta'.entry = meta.entry,
         p \in Inserters => /\ Alone(p)'
                            /\ pc'[p] \in Placing => pc[p] \in Placing /\ me'[p] = me[p],
         \A G \in SUBSET Slots : Guarded(G) => Within(G, p)',
         failed' \cap Scanners = {}
  PROVE  Sound'
<1>1. pc'[Vacuum] = pc[Vacuum] /\ Vacuum \in Procs BY VacuumProc DEF Others
<1>2. (\A s : Referenced(s)' = Referenced(s)) /\ Clean' = Clean BY CleanSame
<1>3. ASSUME NEW q \in Inserters PROVE Alone(q)'
  <2>1. CASE q = p BY <2>1
  <2>2. CASE q # p
    <3>1. q \in Procs \ {p} /\ Alone(q) BY <2>2 DEF Procs, Sound
    <3> QED BY <1>2, <3>1, AloneKept DEF Others, LocksKept
  <2> QED BY <2>1, <2>2
<1>4. Pass1' BY <1>1, <1>2 DEF Sound, Pass1, Survives, Referenced
<1>5. PlacedClean'
  <2>1. \A q \in Inserters : pc'[q] \in Placing => pc[q] \in Placing /\ me'[q] = me[q]
    BY DEF Others, Procs
  <2> QED BY <1>1, <1>2, <2>1 DEF Sound, PlacedClean, PastWait
<1>6. (\E G \in SUBSET Slots : Guarded(G))'
  <2>1. PICK G \in SUBSET Slots : Guarded(G) BY DEF Sound
  <2>2. Closed(G) BY <2>1 DEF Guarded
  <2>3. elem' = elem /\ ntup' = ntup OBVIOUS
  <2>4. Closed(G)' BY <1>1, <2>2, <2>3, ClosedSame
  <2> QED BY <2>1, <2>4, G_Step
<1>7. ScansNeverReadDeleted' BY DEF ScansNeverReadDeleted
<1> QED BY <1>2, <1>3, <1>4, <1>5, <1>6, <1>7, C_Other

\* A step of a repair that writes no page
LEMMA C_Repair ==
  ASSUME TInv, Sound, Others(Vacuum), UNCHANGED <<elem, ntup, meta, locks, me, vac, failed>>,
         pc[Vacuum] \in RepairSteps \ {"repaired"}, pc'[Vacuum] \in RepairSteps,
         pc[Vacuum] \in Searching <=> pc'[Vacuum] \in Searching,
         \A G \in SUBSET Slots : Guarded(G) => Within(G, Vacuum)'
  PROVE  Sound'
<1>0. Vacuum \in Procs /\ Vacuum \notin Inserters /\ \A q \in Inserters : q \in Procs \ {Vacuum}
  BY VacuumProc DEF Procs
<1>1. (\A s : Referenced(s)' = Referenced(s)) /\ Clean' = Clean BY CleanSame
<1>2. /\ \A ret : Repairs(ret)' <=> Repairs(ret)
      /\ pc[Vacuum] \notin {"idle", "remove", "hpLock", "hpCheck", "epLock", "loop", "check", "lock", "wantEx", "mark"}
      /\ pc'[Vacuum] \notin {"idle", "remove", "hpLock", "hpCheck", "epLock", "loop", "check", "lock", "wantEx", "mark"}
  BY DEF Repairs, RepairSteps
<1>3. InLoop' <=> InLoop BY <1>2 DEF InLoop
<1>4. \A q \in Inserters : Alone(q)'
  BY <1>0, <1>1, AloneKept DEF Others, Sound
<1>5. Held' BY <1>2 DEF Sound, Held
<1>6. Pass1' BY <1>2 DEF Pass1
<1>7. PlacedClean' BY <1>0, <1>1, <1>2 DEF Sound, PlacedClean, PastWait, Others
<1>8. HighestDone' BY <1>1, <1>2 DEF Sound, Repaired, HighestDone
<1>9. EntryDone' BY <1>1, <1>2, <1>3 DEF Sound, Repaired, EntryDone
<1>10. LoopDone' BY <1>1, <1>2, <1>3 DEF Sound, Repaired, LoopDone
<1>11. (\E G \in SUBSET Slots : Guarded(G))'
  <2>1. PICK G \in SUBSET Slots : Guarded(G) BY DEF Sound
  <2>2. Closed(G) /\ elem' = elem /\ ntup' = ntup /\ meta' = meta BY <2>1 DEF Guarded
  <2>4. Closed(G)' BY <1>2, <2>2, ClosedSame
  <2>3. LocksKept(Vacuum) BY DEF LocksKept
  <2> QED BY <1>0, <2>1, <2>3, <2>4, G_Step
<1>12. ScansNeverReadDeleted' BY DEF Sound, ScansNeverReadDeleted
<1> QED BY <1>4, <1>5, <1>6, <1>7, <1>8, <1>9, <1>10, <1>11, <1>12 DEF Sound, Repaired

\* A search under way keeps what it remembers in the graph, and never meets a
\* deleted element if it is a scan's
LEMMA C_Read ==
  ASSUME TInv, Fresh, Sound, NEW p \in Procs, Others(p), UNCHANGED <<disk, locks, me, vac, failed>>,
         pc[p] \in {"entry", "search"}, pc'[p] \in {"search", "overwrite", "dup"},
         pc'[p] = "overwrite" => p = Vacuum, p = Vacuum => pc'[p] # "dup",
         \A G \in SUBSET Slots : Guarded(G) => Within(G, p)'
  PROVE  Sound'
<1>1. CASE p = Vacuum
  BY <1>1, C_Repair DEF RepairSteps, Searching
<1>2. CASE p # Vacuum
  <2>1. LocksKept(p) BY DEF LocksKept
  <2>2. ASSUME p \in Inserters PROVE Alone(p)'
    <3>1. Alone(p) BY <2>2 DEF Sound
    <3>2. meta'.entry # Nil BY <3>1 DEF Alone
    <3> QED BY <3>2 DEF Alone
  <2>3. pc'[p] \notin Placing BY <1>2 DEF Placing
  <2>4. failed' \cap Scanners = {} BY DEF Sound, ScansNeverReadDeleted
  <2> QED BY <1>2, <2>1, <2>2, <2>3, <2>4, C_Quiet
<1> QED BY <1>1, <1>2

\* What a backend that has reset its state remembers
LEMMA ResetWithin ==
  ASSUME TInv, NEW p \in Procs, Reset(p), p \in Scanners => pc'[p] = "idle", NEW G
  PROVE  Within(G, p)'
<1>1. srch'[p] = NoSearch /\ \A lc \in Levels : nb'[p][lc] = {}
  BY DEF Reset, TInv, TypeOK
<1> QED BY <1>1 DEF Within, NoSearch

\* A statement that aborts leaves the graph as it is; only VACUUM's error is
\* not a scan's
LEMMA C_Abort ==
  ASSUME TInv, Sound, NEW p \in Procs, Abort(p), UNCHANGED <<disk, vac>>, failed' \cap Scanners = {}
  PROVE  Sound'
<1>1. /\ Reset(p) /\ pc'[p] = "idle" /\ \A q \in Procs \ {p} : pc'[q] = pc[q]
      /\ updLock' = Drop(updLock, p) /\ scanLock' = Drop(scanLock, p)
      /\ elem' = elem /\ ntup' = ntup /\ meta' = meta /\ vac' = vac
  BY DEF Abort, TInv, TypeOK
<1>2. Others(p) BY <1>1, OthersReset
<1>3. LocksKept(p) BY <1>1, LocksKeptBy
<1>4. \A G \in SUBSET Slots : Within(G, p)' BY <1>1, ResetWithin
<1>5. CASE p = Vacuum
  <2>1. Held' /\ Pass1' /\ PlacedClean'
    BY <1>1, <1>5 DEF Held, Repairs, RepairSteps, Pass1, PlacedClean, PastWait
  <2>2. Repaired'
    BY <1>1, <1>5 DEF Repaired, HighestDone, EntryDone, LoopDone, Repairs, RepairSteps, InLoop
  <2>3. ASSUME NEW q \in Inserters PROVE Alone(q)'
    <3>1. q \in Procs \ {p} BY <1>5, VacuumProc DEF Procs
    <3>2. \A s : Referenced(s)' = Referenced(s) BY <1>1, CleanSame
    <3>3. Alone(q) BY DEF Sound
    <3> QED BY <1>1, <1>2, <1>3, <3>1, <3>2, <3>3, AloneKept DEF Others, LocksKept
  <2>4. (\E G \in SUBSET Slots : Guarded(G))'
    <3>1. PICK G \in SUBSET Slots : Guarded(G) BY DEF Sound
    <3>2. Closed(G)' BY <1>1, <1>5, <3>1, ClosedSame DEF Guarded
    <3> QED BY <1>2, <1>3, <1>4, <3>1, <3>2, G_Step
  <2>5. ScansNeverReadDeleted' BY DEF ScansNeverReadDeleted
  <2> QED BY <2>1, <2>2, <2>3, <2>4, <2>5 DEF Sound
<1>6. CASE p # Vacuum
  <2>1. p \in Inserters => Alone(p)' BY <1>1 DEF Alone
  <2>2. pc'[p] \notin Placing BY <1>1 DEF Placing
  <2> QED BY <1>1, <1>2, <1>3, <1>4, <1>6, <2>1, <2>2, C_Quiet
<1> QED BY <1>5, <1>6

\* A scan never fails: what it is about to load is not deleted
LEMMA C_Fail ==
  ASSUME TInv, Sound, NEW p \in Procs, Fail(p),
         p \in Scanners => \/ pc[p] = "entry" /\ elem[ep[p].slot].deleted
                           \/ \E s \in srch[p].pend : elem[s].deleted
  PROVE  Sound'
<1>1. Abort(p) /\ UNCHANGED <<disk, vac>> /\ failed' = failed \cup {p} BY DEF Fail
<1>2. p \notin Scanners
  <2>1. PICK G \in SUBSET Slots : Guarded(G) BY DEF Sound
  <2> QED BY <2>1 DEF Guarded, Closed, Within
<1>3. failed' \cap Scanners = {} BY <1>1, <1>2 DEF Sound, ScansNeverReadDeleted
<1> QED BY <1>1, <1>3, C_Abort

\* So does one that is cancelled
LEMMA C_Cancel == ASSUME TInv, Sound, NEW p \in Procs, Cancel(p) PROVE Sound'
<1>1. Abort(p) /\ UNCHANGED <<disk, vac, failed>> BY DEF Cancel
<1>2. failed' \cap Scanners = {} BY <1>1 DEF Sound, ScansNeverReadDeleted
<1> QED BY <1>1, <1>2, C_Abort

\* A search begins in the graph
LEMMA C_EntryCandidate ==
  ASSUME TInv, Fresh, Sound, NEW p \in Procs, EntryCandidate(p) PROVE Sound'
<1>1. ep[p].slot \in Slots
  BY DEF EntryCandidate, TInv, TypeOK, Defined, Ready, Copies
<1>2. CASE elem[ep[p].slot].deleted BY <1>2, C_Fail DEF EntryCandidate
<1>3. CASE ~elem[ep[p].slot].deleted
  <2> DEFINE e == Load(ep[p].slot)
  <2>1. e \in Copies /\ e.slot = ep[p].slot /\ (e.live => elem[e.slot].tids # {})
    BY <1>1, <1>3, LoadType DEF TInv, Load
  <2> HIDE DEF e
  <2>2. /\ ep'[p] = e
        /\ srch'[p] = [lc |-> e.level, w |-> {e}, todo |-> {e}, vis |-> {e.slot}, pend |-> {}]
        /\ pc'[p] = "search" /\ pc[p] = "entry"
        /\ UNCHANGED <<disk, locks, me, nb, vac, failed>> /\ Others(p)
    BY <1>3 DEF EntryCandidate, e, TInv, TypeOK, Others
  <2>3. e.level \in Int BY <2>1, ConstantsAssumption DEF Copies, Levels
  <2>4. ASSUME NEW G \in SUBSET Slots, Guarded(G) PROVE Within(G, p)'
    <3>1. Within(G, p) /\ (e.live => e.slot \in G) BY <1>1, <2>1, <2>4 DEF Guarded, Closed
    <3>2. /\ srch'[p].w = {e} /\ srch'[p].todo = {e} /\ srch'[p].pend = {} /\ srch'[p].lc = e.level
      BY <2>2
    <3>3. CASE p \in Scanners
      <4>1. \A c \in srch'[p].w \cup srch'[p].todo : c.slot \in G /\ c.level >= srch'[p].lc
        BY <2>1, <2>2, <2>3, <3>1, <3>2, <3>3 DEF Within
      <4> QED BY <2>2, <3>1, <3>2, <3>3, <4>1 DEF Within
    <3>4. CASE p \notin Scanners BY <2>2, <3>1, <3>2, <3>4 DEF Within
    <3> QED BY <3>3, <3>4
  <2> QED BY <2>2, <2>4, C_Read
<1> QED BY <1>2, <1>3

\* The neighbors of a candidate are in the graph with it
LEMMA C_ExpandCandidate ==
  ASSUME TInv, Fresh, Sound, NEW p \in Procs, ExpandCandidate(p) PROVE Sound'
<1>0. srch[p] \in SearchType BY DEF TInv, TypeOK
<1>1. PICK c \in srch[p].todo :
        LET new == NeighborTids(c, srch[p].lc) \ srch[p].vis IN
        srch' = [srch EXCEPT ![p].todo = @ \ {c}, ![p].vis = @ \cup new, ![p].pend = new]
  BY DEF ExpandCandidate
<1>2. /\ srch'[p].w = srch[p].w /\ srch'[p].todo \subseteq srch[p].todo
      /\ srch'[p].pend \subseteq NeighborTids(c, srch[p].lc) /\ srch'[p].lc = srch[p].lc
      /\ UNCHANGED <<disk, locks, pc, me, ep, nb, vac, failed>>
      /\ pc[p] = "search" /\ Others(p)
  BY <1>0, <1>1 DEF ExpandCandidate, TInv, TypeOK, SearchType, Others
<1>3. c \in Copies /\ c.slot \in Slots /\ srch[p].lc \in Levels
  BY <1>0 DEF SearchType, Copies, TInv, Defined, Ready
<1>4. ASSUME c.level >= srch[p].lc PROVE NeighborTids(c, srch[p].lc) \subseteq Referenced(c.slot)
  <2>1. CASE ntup[c.slot].version = c.version /\ ntup[c.slot].level = c.level
    <3>1. 1..LayerM(srch[p].lc) \subseteq Widest BY ConstantsAssumption DEF LayerM, Widest
    <3>2. srch[p].lc \in 0..ntup[c.slot].level
      BY <1>3, <1>4, <2>1, ConstantsAssumption DEF Levels, Copies
    <3>3. ASSUME NEW i \in ValidPrefix(ntup[c.slot].nbrs[srch[p].lc], LayerM(srch[p].lc))
          PROVE  i \in Widest /\ ntup[c.slot].nbrs[srch[p].lc][i] # Nil
      BY <1>3, <3>1, ConstantsAssumption DEF ValidPrefix, LayerM, Levels
    <3> QED BY <2>1, <3>2, <3>3 DEF NeighborTids, Referenced
  <2>2. CASE ~(ntup[c.slot].version = c.version /\ ntup[c.slot].level = c.level)
    BY <2>2 DEF NeighborTids
  <2> QED BY <2>1, <2>2
<1>5. ASSUME NEW G \in SUBSET Slots, Guarded(G) PROVE Within(G, p)'
  <2>1. Within(G, p) BY <1>5 DEF Guarded
  <2>2. CASE p \in Scanners
    <3>1. c.slot \in G /\ c.level >= srch[p].lc BY <1>1, <2>1, <2>2 DEF Within
    <3>2. srch'[p].pend \subseteq G BY <1>2, <1>4, <1>5, <3>1 DEF Guarded, Closed
    <3>3. \A x \in srch'[p].w \cup srch'[p].todo : x.slot \in G /\ x.level >= srch'[p].lc
      BY <1>2, <2>1, <2>2 DEF Within
    <3> QED BY <1>2, <2>1, <2>2, <3>2, <3>3 DEF Within
  <2>3. CASE p \notin Scanners BY <1>2, <2>1, <2>3 DEF Within
  <2> QED BY <2>2, <2>3
<1> QED BY <1>2, <1>5, C_Read

\* A neighbor that is loaded is not deleted if the search is a scan's
LEMMA C_LoadUnvisited ==
  ASSUME TInv, Fresh, Sound, NEW p \in Procs, LoadUnvisited(p) PROVE Sound'
<1>0. srch[p] \in SearchType BY DEF TInv, TypeOK
<1>1. PICK s \in srch[p].pend :
       IF elem[s].deleted
         THEN Fail(p)
         ELSE LET add == IF elem[s].level < srch[p].lc THEN {} ELSE {Load(s)} IN
           /\ srch' = [srch EXCEPT ![p].pend = @ \ {s}, ![p].w = @ \cup add,
                                   ![p].todo = @ \cup add]
           /\ UNCHANGED <<disk, locks, heap, pc, me, ep, nb, upd, walk, vac, failed, cancels>>
  BY DEF LoadUnvisited
<1>2. CASE elem[s].deleted BY <1>1, <1>2, C_Fail
<1>3. CASE ~elem[s].deleted
  <2> DEFINE add == IF elem[s].level < srch[p].lc THEN {} ELSE {Load(s)}
  <2>1. s \in Slots /\ srch[p].lc \in Int /\ elem[s].level \in Int
    BY <1>0, ConstantsAssumption DEF SearchType, Levels, TInv, TypeOK, ElemType
  <2>2. \A x \in add : /\ x.slot = s /\ (x.live => elem[s].tids # {})
                       /\ x.level >= srch[p].lc
    <3>1. Load(s).slot = s /\ Load(s).level = elem[s].level BY DEF Load
    <3>2. Load(s).live => elem[s].tids # {} BY Zenon DEF Load
    <3> QED BY <2>1, <3>1, <3>2
  <2> HIDE DEF add
  <2>3. /\ srch' = [srch EXCEPT ![p].pend = @ \ {s}, ![p].w = @ \cup add,
                                 ![p].todo = @ \cup add]
        /\ UNCHANGED <<disk, locks, pc, me, ep, nb, upd, vac, failed>>
    BY <1>1, <1>3 DEF add
  <2>4. /\ srch'[p].w = srch[p].w \cup add /\ srch'[p].todo = srch[p].todo \cup add
        /\ srch'[p].pend \subseteq srch[p].pend /\ srch'[p].lc = srch[p].lc
    BY <1>0, <2>3 DEF TInv, TypeOK, SearchType
  <2>6. pc[p] = "search" BY DEF LoadUnvisited
  <2>7. Others(p) BY <2>3 DEF TInv, TypeOK, Others
  <2>5. ASSUME NEW G \in SUBSET Slots, Guarded(G) PROVE Within(G, p)'
    <3>1. Within(G, p) /\ (elem[s].tids # {} => s \in G) BY <2>1, <2>5 DEF Guarded, Closed
    <3>2. CASE p \in Scanners
      <4>1. s \in G BY <3>1, <3>2 DEF Within
      <4>2. \A x \in srch'[p].w \cup srch'[p].todo : x.slot \in G /\ x.level >= srch'[p].lc
        BY <2>2, <2>4, <3>1, <3>2, <4>1 DEF Within
      <4> QED BY <2>3, <2>4, <2>6, <3>1, <3>2, <4>2 DEF Within
    <3>3. CASE p \notin Scanners
      <4>1. \A x \in srch'[p].w : x.live => x.slot \in G BY <2>2, <2>4, <3>1, <3>3 DEF Within
      <4>2. nb' = nb BY <2>3
      <4> QED BY <3>1, <3>3, <4>1, <4>2 DEF Within
    <3> QED BY <3>2, <3>3
  <2> QED BY <2>3, <2>5, <2>6, <2>7, C_Read
<1> QED BY <1>2, <1>3

\* Going down a layer keeps elements the search already had
LEMMA C_DescendLayer ==
  ASSUME TInv, Fresh, Sound, NEW p \in Procs, DescendLayer(p) PROVE Sound'
<1>1. PICK best \in SUBSET srch[p].w :
        srch' = [srch EXCEPT ![p] =
            [lc |-> srch[p].lc - 1, w |-> best, todo |-> best,
             vis |-> {e.slot : e \in best}, pend |-> {}]]
  BY DEF DescendLayer
<1>2. /\ srch'[p].w = best /\ srch'[p].todo = best /\ srch'[p].pend = {}
      /\ srch'[p].lc = srch[p].lc - 1
      /\ UNCHANGED <<disk, locks, pc, me, ep, nb, vac, failed>>
      /\ pc[p] = "search" /\ Others(p)
  BY <1>1 DEF DescendLayer, TInv, TypeOK, Others
<1>3. srch[p].lc \in Int /\ \A c \in srch[p].w : c.level \in Int
  BY ConstantsAssumption DEF TInv, TypeOK, SearchType, Levels, Copies
<1>4. ASSUME NEW G \in SUBSET Slots, Guarded(G) PROVE Within(G, p)'
  <2>1. Within(G, p) BY <1>4 DEF Guarded
  <2>2. CASE p \in Scanners
    <3>1. \A x \in best : x.slot \in G /\ x.level >= srch[p].lc - 1
      BY <1>3, <2>1, <2>2 DEF Within
    <3> QED BY <1>2, <2>1, <2>2, <3>1 DEF Within
  <2>3. CASE p \notin Scanners BY <1>2, <2>1, <2>3 DEF Within
  <2> QED BY <2>2, <2>3
<1> QED BY <1>2, <1>4, C_Read

\* The neighbors an element gets are in the graph
LEMMA C_FinishLayer ==
  ASSUME TInv, Fresh, Sound, NEW p \in Procs, FinishLayer(p) PROVE Sound'
<1>0. srch[p] \in SearchType /\ srch[p].lc \in Levels BY DEF TInv, TypeOK, SearchType
<1>1. PICK S \in SelectNeighbors(p) : nb' = [nb EXCEPT ![p][srch[p].lc] = S]
  BY DEF FinishLayer
<1>2. S \subseteq srch[p].w /\ \A x \in S : x.live BY DEF SelectNeighbors, Eligible
<1>3. /\ UNCHANGED <<disk, locks, me, ep, vac, failed>> /\ p \notin Scanners /\ pc[p] = "search"
  BY DEF FinishLayer, Procs
<1>4. \A lc \in Levels : \A x \in nb'[p][lc] : x \in nb[p][lc] \/ x \in S
  BY <1>1 DEF TInv, TypeOK
<1>5. /\ srch'[p].w \in {srch[p].w, {}}
      /\ pc'[p] \in {"search", IF p = Vacuum THEN "overwrite" ELSE "dup"}
      /\ Others(p)
  BY <1>0, <1>1, <1>3 DEF FinishLayer, TInv, TypeOK, SearchType, NoSearch, Others
<1>6. ASSUME NEW G \in SUBSET Slots, Guarded(G) PROVE Within(G, p)'
  <2>1. Within(G, p) BY <1>6 DEF Guarded
  <2>2. \A lc \in Levels : \A x \in nb'[p][lc] : x.slot \in G
    BY <1>2, <1>3, <1>4, <2>1 DEF Within
  <2> QED BY <1>3, <1>5, <2>1, <2>2 DEF Within
<1> QED BY <1>3, <1>5, <1>6, C_Read

\* A row that dies, and a step of no backend, change nothing of this
LEMMA C_Still ==
  ASSUME Sound, UNCHANGED <<disk, locks, pc, me, ep, srch, nb, upd, vac, failed>>
  PROVE  Sound'
<1>1. (\A s : Referenced(s)' = Referenced(s)) /\ Clean' = Clean BY CleanSame
<1>2. (\A ret : Repairs(ret)' <=> Repairs(ret)) /\ (InLoop' <=> InLoop) BY DEF Repairs, InLoop
<1>3. Held' BY <1>2 DEF Sound, Held
<1>4. \A p \in Inserters : Alone(p)' BY <1>1 DEF Sound, Alone
<1>5. Pass1' BY <1>1 DEF Sound, Pass1, Survives
<1>6. PlacedClean' BY <1>1 DEF Sound, PlacedClean, PastWait
<1>7. HighestDone' BY <1>1, <1>2 DEF Sound, Repaired, HighestDone
<1>8. EntryDone' BY <1>1, <1>2 DEF Sound, Repaired, EntryDone
<1>9. LoopDone' BY <1>1, <1>2 DEF Sound, Repaired, LoopDone
<1>10. (\E G \in SUBSET Slots : Guarded(G))'
  <2>1. PICK G \in SUBSET Slots : Guarded(G) BY DEF Sound
  <2>2. Closed(G)' BY <2>1, ClosedSame DEF Guarded
  <2>3. \A p \in Procs : Within(G, p)' BY <2>1 DEF Guarded, Within
  <2> QED BY <2>2, <2>3 DEF Guarded
<1>11. ScansNeverReadDeleted' BY DEF Sound, ScansNeverReadDeleted
<1> QED BY <1>3, <1>4, <1>5, <1>6, <1>7, <1>8, <1>9, <1>10, <1>11 DEF Sound, Repaired

\* A scan begins at the entry point
LEMMA C_BeginScan ==
  ASSUME TInv, Sound, NEW p \in Scanners, BeginScan(p) PROVE Sound'
<1>0. p \in Procs /\ p # Vacuum /\ p \notin Inserters BY ConstantsAssumption DEF Procs
<1>1. /\ pc[p] = "idle" /\ pc'[p] = "entry" /\ ep'[p].slot = meta.entry
      /\ scanLock' = Share(scanLock, p) /\ p \in scanLock'.sh /\ updLock' = updLock
      /\ UNCHANGED <<disk, me, srch, nb, upd, vac, failed>> /\ meta.entry # Nil
      /\ Others(p)
  <2>1. scanLock \in LockType BY DEF TInv, TypeOK
  <2> QED BY <1>0, <2>1 DEF BeginScan, EntryPoint, Share, LockType, TInv, TypeOK, Others
<1>2. LocksKept(p) BY <1>0, <1>1, LocksKeptBy
<1>3. ASSUME NEW G \in SUBSET Slots, Guarded(G) PROVE Within(G, p)'
  <2>1. srch[p] = NoSearch /\ meta.entry \in G BY <1>0, <1>1, <1>3 DEF Guarded, Closed, Within
  <2>2. srch'[p].w = {} /\ srch'[p].todo = {} /\ srch'[p].pend = {} BY <1>1, <2>1 DEF NoSearch
  <2> QED BY <1>1, <2>1, <2>2 DEF Within
<1>4. failed' \cap Scanners = {} BY <1>1 DEF Sound, ScansNeverReadDeleted
<1> QED BY <1>0, <1>1, <1>2, <1>3, <1>4, C_Quiet

\* ... and forgets all it knew
LEMMA C_EndScan ==
  ASSUME TInv, Sound, NEW p \in Procs, EndScan(p) PROVE Sound'
<1>0. p \in Scanners /\ p # Vacuum /\ p \notin Inserters BY ConstantsAssumption DEF EndScan
<1>1. /\ pc'[p] = "idle" /\ \A q \in Procs \ {p} : pc'[q] = pc[q]
      /\ Reset(p) /\ scanLock' = Drop(scanLock, p) /\ failed' = failed \ {p}
      /\ UNCHANGED <<disk, updLock, vac>>
  BY DEF EndScan, TInv, TypeOK
<1>2. Others(p) BY <1>1, OthersReset
<1>3. LocksKept(p) BY <1>1, LocksKeptBy
<1>4. \A G \in SUBSET Slots : Within(G, p)' BY <1>1, ResetWithin
<1>5. failed' \cap Scanners = {} BY <1>1 DEF Sound, ScansNeverReadDeleted
<1> QED BY <1>0, <1>1, <1>2, <1>3, <1>4, <1>5, C_Quiet

\* A step of an insert that touches neither a page nor the locks
LEMMA C_Memory ==
  ASSUME TInv, Sound, NEW p \in Procs, p \notin Scanners, p # Vacuum, Others(p),
         UNCHANGED <<elem, ntup, locks, me, vac, failed>>, meta'.entry = meta.entry,
         p \in Inserters => Alone(p)', pc'[p] \in Placing => pc[p] \in Placing,
         \A x \in srch'[p].w : x \in srch[p].w \/ \E lc \in Levels : x \in nb[p][lc],
         \A lc \in Levels : nb'[p][lc] \subseteq nb[p][lc]
  PROVE  Sound'
<1>1. LocksKept(p) BY DEF LocksKept
<1>2. ASSUME NEW G \in SUBSET Slots, Guarded(G) PROVE Within(G, p)'
  <2>1. Within(G, p) BY <1>2 DEF Guarded
  <2>2. \A x \in srch'[p].w : x.live => x.slot \in G BY <2>1 DEF Within
  <2>3. \A lc \in Levels : \A x \in nb'[p][lc] : x.slot \in G BY <2>1 DEF Within
  <2> QED BY <2>2, <2>3 DEF Within
<1>3. failed' \cap Scanners = {} BY DEF Sound, ScansNeverReadDeleted
<1>4. me'[p] = me[p] OBVIOUS
<1> QED BY <1>1, <1>2, <1>3, <1>4, C_Quiet

\* An insert begins with nothing remembered
LEMMA C_BeginInsert ==
  ASSUME TInv, Sound, NEW p \in Inserters, NEW t \in Tids, NEW l \in Levels, BeginInsert(p, t, l)
  PROVE  Sound'
<1>0. p \in Procs /\ p # Vacuum /\ p \notin Scanners BY ConstantsAssumption DEF Procs
<1>1. /\ pc'[p] \in {"wantEx", "entry"} /\ (pc'[p] = "entry" => meta.entry # Nil)
      /\ updLock' \in {updLock, Share(updLock, p)} /\ scanLock' = scanLock
      /\ UNCHANGED <<disk, srch, nb, vac, failed>>
      /\ Others(p)
  BY <1>0 DEF BeginInsert, Promotes, TInv, TypeOK, Others
<1>2. LocksKept(p) BY <1>0, <1>1, LocksKeptBy
<1>3. Alone(p)' BY <1>1 DEF Alone
<1>4. pc'[p] \notin Placing BY <1>1 DEF Placing
<1>5. \A G \in SUBSET Slots : Guarded(G) => Within(G, p)' BY <1>0, <1>1 DEF Guarded, Within
<1>6. failed' \cap Scanners = {} BY <1>1 DEF Sound, ScansNeverReadDeleted
<1> QED BY <1>0, <1>1, <1>2, <1>3, <1>4, <1>5, <1>6, C_Quiet

\* The first row of an empty index needs no search
LEMMA C_LockForInsert ==
  ASSUME TInv, Fresh, Sound, NEW p \in Inserters, LockForInsert(p) PROVE Sound'
<1>0. p \in Procs /\ p # Vacuum /\ p \notin Scanners BY ConstantsAssumption DEF Procs
<1>1. /\ pc[p] = "wantEx" /\ pc'[p] = (IF meta.entry = Nil THEN "dup" ELSE "entry")
      /\ updLock' = Exclude(updLock, p) /\ scanLock' = scanLock
      /\ UNCHANGED <<disk, me, srch, nb, vac, failed>>
      /\ Others(p)
  BY <1>0 DEF LockForInsert, TInv, TypeOK, Others
<1>2. LocksKept(p) BY <1>0, <1>1, LocksKeptBy
<1>3. p \in updLock'.ex BY <1>1 DEF Exclude, TInv, TypeOK, LockType
<1>4. \A lc \in Levels : nb'[p][lc] = {} BY <1>1 DEF Fresh, Holds, Using
<1>5. pc'[p] \notin Placing BY <1>1 DEF Placing
<1>6. Alone(p)' BY <1>1, <1>3, <1>4, <1>5 DEF Alone
<1>7. \A G \in SUBSET Slots : Guarded(G) => Within(G, p)' BY <1>0, <1>1 DEF Guarded, Within
<1>8. failed' \cap Scanners = {} BY <1>1 DEF Sound, ScansNeverReadDeleted
<1> QED BY <1>0, <1>1, <1>2, <1>5, <1>6, <1>7, <1>8, C_Quiet

\* Giving up the search for a duplicate keeps the chosen neighbors
LEMMA C_GiveUpDuplicates ==
  ASSUME TInv, Sound, NEW p \in Inserters, GiveUpDuplicates(p) PROVE Sound'
<1>0. p \in Procs /\ p # Vacuum /\ p \notin Scanners BY ConstantsAssumption DEF Procs
<1>1. /\ srch'[p].w = {} /\ pc[p] = "dup" /\ pc'[p] = "walk"
      /\ UNCHANGED <<disk, locks, me, nb, upd, vac, failed>>
      /\ Others(p)
  BY <1>0 DEF GiveUpDuplicates, NoSearch, TInv, TypeOK, Others
<1>2. pc'[p] \notin Placing BY <1>1 DEF Placing
<1>3. Alone(p)' BY <1>1, <1>2 DEF Sound, Alone
<1> QED BY <1>0, <1>1, <1>2, <1>3, C_Memory

\* Walking on keeps the chosen neighbors
LEMMA C_NextPage ==
  ASSUME TInv, Sound, NEW p \in Inserters, NextPage(p) PROVE Sound'
<1>0. p \in Procs /\ p # Vacuum /\ p \notin Scanners BY ConstantsAssumption DEF Procs
<1>1. pc[p] = "walk" /\ UNCHANGED <<disk, locks, pc, me, ep, srch, nb, upd, vac, failed>>
  BY DEF NextPage
<1>2. Others(p) BY <1>1 DEF Others
<1>3. pc'[p] \notin Placing BY <1>1 DEF Placing
<1>4. Alone(p)' BY <1>1, <1>3 DEF Sound, Alone
<1> QED BY <1>0, <1>1, <1>2, <1>3, <1>4, C_Memory

\* Updating the insert page leaves the entry point
LEMMA C_UpdateInsertPage ==
  ASSUME TInv, Sound, NEW p \in Inserters, UpdateInsertPage(p) PROVE Sound'
<1>0. p \in Procs /\ p # Vacuum /\ p \notin Scanners BY ConstantsAssumption DEF Procs
<1>1. /\ \A lc \in Levels : nb'[p][lc] = {}
      /\ pc[p] = "setPage" /\ pc'[p] = "update" /\ meta'.entry = meta.entry
      /\ UNCHANGED <<elem, ntup, locks, me, srch, upd, vac, failed>>
      /\ Others(p)
  BY <1>0 DEF UpdateInsertPage, TInv, TypeOK, MetaType, Others
<1>2. pc[p] \in Placing /\ pc'[p] \in Placing BY <1>1 DEF Placing
<1>3. \A s : Referenced(s)' = Referenced(s) BY <1>1, CleanSame
<1>4. Alone(p)' BY <1>1, <1>2, <1>3 DEF Sound, Alone
<1> QED BY <1>0, <1>1, <1>2, <1>4, C_Memory

\* Reading a neighbor's list changes no tuple; an insert into an empty index
\* has no neighbor to read
LEMMA C_ReadNeighborList ==
  ASSUME TInv, Fresh, Sound, NEW p \in Procs, ReadNeighborList(p) PROVE Sound'
<1>0. p \notin Scanners /\ p \in Inserters \cup {Vacuum} BY NotScanner DEF ReadNeighborList
<1>1. /\ upd[p].todo # {} /\ pc[p] = "update" /\ pc'[p] \in {"loadNbrs", "write"}
      /\ UNCHANGED <<disk, locks, me, ep, srch, nb, vac, failed>> /\ Others(p)
  BY DEF ReadNeighborList, TInv, TypeOK, Others
<1>2. CASE p = Vacuum
  <2>1. \A G \in SUBSET Slots : Guarded(G) => Within(G, p)'
    BY <1>0, <1>1 DEF Guarded, Within
  <2> QED BY <1>1, <1>2, <2>1, C_Repair DEF RepairSteps, Searching
<1>3. CASE p # Vacuum
  <2>1. pc[p] \in Placing BY <1>1 DEF Placing
  <2>2. Alone(p) BY <1>0, <1>3 DEF Sound
  <2>3. Alone(p)' BY <1>1, <2>1, <2>2 DEF Alone
  <2> QED BY <1>0, <1>1, <1>3, <2>1, <2>3, C_Memory
<1> QED BY <1>2, <1>3

\* So does choosing the index to replace
LEMMA C_LoadElementForInsert ==
  ASSUME TInv, Fresh, Sound, NEW p \in Procs, LoadElementForInsert(p) PROVE Sound'
<1>0. pc[p] = "loadNbrs" /\ p \notin Scanners /\ p \in Inserters \cup {Vacuum}
  BY NotScanner DEF LoadElementForInsert
<1>1. CASE Fail(p) BY <1>0, <1>1, C_Fail
<1>2. CASE ~Fail(p)
  <2>0. upd[p] \in UpdateType BY DEF TInv, TypeOK
  <2>1. /\ UNCHANGED <<disk, locks, me, ep, srch, nb, vac, failed>>
        /\ pc' \in {pc, [pc EXCEPT ![p] = "write"], [pc EXCEPT ![p] = "update"]}
    BY <1>2 DEF LoadElementForInsert
  <2>2. \/ \E i : upd' = [upd EXCEPT ![p].idx = i]
        \/ \E i : upd' = [upd EXCEPT ![p].pos = i]
        \/ upd' = upd
    BY <1>2 DEF LoadElementForInsert
  <2>3. \A q \in Procs \ {p} : upd'[q] = upd[q]
    BY <2>0, <2>2 DEF UpdateType, TInv, TypeOK
  <2>4. pc'[p] \in {"loadNbrs", "write", "update"} /\ \A q \in Procs \ {p} : pc'[q] = pc[q]
    BY <1>0, <2>1 DEF TInv, TypeOK
  <2>5. Others(p) BY <2>1, <2>3, <2>4 DEF Others
  <2>6. CASE p = Vacuum
    <3>1. \A G \in SUBSET Slots : Guarded(G) => Within(G, p)'
      BY <1>0, <2>1 DEF Guarded, Within
    <3> QED BY <1>0, <2>1, <2>4, <2>5, <2>6, <3>1, C_Repair DEF RepairSteps, Searching
  <2>7. CASE p # Vacuum
    <3>1. pc[p] \in Placing BY <1>0 DEF Placing
    <3>2. Alone(p) BY <1>0, <2>7 DEF Sound
    <3>3. Alone(p)' BY <1>0, <2>1, <3>2 DEF Alone
    <3> QED BY <1>0, <2>1, <2>5, <2>7, <3>1, <3>3, C_Memory
  <2> QED BY <2>6, <2>7
<1> QED BY <1>1, <1>2

\* While an insert holds the lock, the others are not inserting the first row
LEMMA OthersWait ==
  ASSUME Fresh, Sound, NEW p \in Inserters, ~Outside(p), Others(p),
         meta'.entry = Nil => meta.entry = Nil, NEW q \in Inserters, q # p
  PROVE  Alone(q)'
<1>1. pc'[q] = pc[q] BY DEF Others, Procs
<1>2. p \in updLock.sh \cup updLock.ex BY DEF Fresh, Locked, Outside
<1>3. q \notin updLock.ex BY <1>2 DEF Fresh, Locked
<1>4. meta.entry = Nil => pc[q] \in {"idle", "wantEx"} BY <1>3 DEF Sound, Alone
<1> QED BY <1>1, <1>4 DEF Alone

\* An element that is given another heap TID was live, so it has been repaired
LEMMA C_AddDuplicate ==
  ASSUME TInv, Fresh, Sound, NEW p \in Inserters, AddDuplicate(p) PROVE Sound'
<1>0. p \in Procs /\ p # Vacuum /\ p \notin Scanners /\ pc[p] = "dup"
  BY ConstantsAssumption DEF Procs, AddDuplicate
<1>1. PICK d \in Same(p) \ srch[p].w :
       IF DuplicateFull(d.slot)
         THEN /\ srch' = [srch EXCEPT ![p].w = @ \cup {d}]
              /\ UNCHANGED <<disk, locks, heap, pc, me, ep, nb, upd, walk, vac, failed, cancels>>
         ELSE /\ elem' = [elem EXCEPT ![d.slot].tids = @ \cup {me[p].tid}]
              /\ EndInsert(p)
              /\ UNCHANGED <<ntup, npages, meta>>
  BY DEF AddDuplicate
<1>2. d \in nb[p][0] /\ 0 \in Levels BY <1>1, Basics DEF Same
<1>3. d.slot \in Slots BY <1>0, <1>2 DEF TInv, TypeOK, Copies, Defined, Ready
<1>4. CASE DuplicateFull(d.slot)
  <2>1. srch' = [srch EXCEPT ![p].w = @ \cup {d}]
        /\ UNCHANGED <<disk, locks, pc, me, ep, nb, upd, vac, failed>>
    BY <1>1, <1>4
  <2>2. srch[p] \in SearchType BY <1>0 DEF TInv, TypeOK
  <2>3. srch'[p].w = srch[p].w \cup {d} /\ Others(p)
    BY <1>0, <2>1, <2>2 DEF SearchType, TInv, TypeOK, Others
  <2>4. pc'[p] \notin Placing BY <1>0, <2>1 DEF Placing
  <2>5. Alone(p)' BY <2>1, <2>4 DEF Sound, Alone
  <2> QED BY <1>0, <1>2, <2>1, <2>3, <2>4, <2>5, C_Memory
<1>5. CASE ~DuplicateFull(d.slot)
  <2>1. /\ elem' = [elem EXCEPT ![d.slot].tids = @ \cup {me[p].tid}]
        /\ EndInsert(p) /\ UNCHANGED <<ntup, npages, meta>>
    BY <1>1, <1>5
  <2>2. /\ Reset(p) /\ pc'[p] = "idle" /\ \A q \in Procs \ {p} : pc'[q] = pc[q]
        /\ updLock' = Drop(updLock, p) /\ scanLock' = scanLock /\ vac' = vac /\ failed' = failed \ {p}
    BY <1>0, <2>1 DEF EndInsert, TInv, TypeOK
  <2>3. Others(p) BY <1>0, <2>2, OthersReset
  <2>4. LocksKept(p) BY <1>0, <2>2, LocksKeptBy
  <2>5. \A G \in SUBSET Slots : Within(G, p)' BY <1>0, <2>2, ResetWithin
  <2>6. elem \in [Slots -> ElemType] /\ elem[d.slot] \in ElemType /\ elem[d.slot].tids # {}
    BY <1>3, <1>5 DEF TInv, TypeOK, DuplicateFull
  <2>7. \A s \in Slots : /\ elem'[s].deleted = elem[s].deleted
                         /\ elem[s].tids \subseteq elem'[s].tids
                         /\ elem'[s].tids # {} <=> elem[s].tids # {}
    BY <1>3, <2>1, <2>6 DEF ElemType
  <2>8. \A s : Referenced(s)' = Referenced(s) BY <2>1 DEF Referenced
  <2>9. \A s \in Slots : Referenced(s) \subseteq Slots BY GraphTypes
  <2>10. Clean \subseteq Clean' BY <2>7, <2>8, <2>9 DEF Clean
  <2>11. \A q \in Inserters : Alone(q)'
    <3>1. Alone(p)' BY <2>2 DEF Alone
    <3> QED BY <1>0, <2>1, <2>3, <3>1, OthersWait DEF Outside
  <2>12. Pass1'
    <3>1. pc'[Vacuum] = pc[Vacuum] BY <1>0, <2>2, VacuumProc
    <3>2. ASSUME pc[Vacuum] = "remove", meta.entry # vac.first, NEW r \in Referenced(meta.entry)
          PROVE  Survives(r)'
      <4>1. vac.first = Nil /\ Survives(r) BY <3>2 DEF Sound, Pass1
      <4>2. r \in Slots BY <2>9, <3>2, <4>1, GraphTypes
      <4> QED BY <2>2, <2>7, <4>1, <4>2 DEF Survives
    <3> QED BY <2>1, <2>2, <2>8, <3>1, <3>2 DEF Sound, Pass1
  <2>13. PlacedClean'
    <3>1. PastWait' => PastWait BY <1>0, <2>2, VacuumProc DEF PastWait
    <3>2. \A q \in Inserters : pc'[q] \in Placing => pc[q] \in Placing /\ me'[q] = me[q]
      BY <2>2, <2>3 DEF Others, Procs, Placing
    <3> QED BY <2>10, <3>1, <3>2 DEF Sound, PlacedClean
  <2>14. ScansNeverReadDeleted' BY <2>2 DEF Sound, ScansNeverReadDeleted
  <2>15. (\E G \in SUBSET Slots : Guarded(G))'
    <3>1. PICK G \in SUBSET Slots : Guarded(G) BY DEF Sound
    <3>2. Closed(G) /\ pc'[Vacuum] = pc[Vacuum] /\ meta' = meta
      BY <1>0, <2>1, <2>2, <3>1, VacuumProc DEF Guarded
    <3>3. Closed(G)' BY <2>7, <2>8, <3>2 DEF Closed
    <3> QED BY <1>0, <2>3, <2>4, <2>5, <3>1, <3>3, G_Step
  <2> QED BY <1>0, <2>1, <2>2, <2>3, <2>4, <2>7, <2>10, <2>11, <2>12, <2>13, <2>14, <2>15, C_Other
<1> QED BY <1>4, <1>5

\* Promoting the element just inserted: it is clean if VACUUM has waited
LEMMA C_FinishInsert ==
  ASSUME TInv, Fresh, Steady, Sound, Stays, NEW p \in Inserters, FinishInsert(p) PROVE Sound'
<1>0. /\ p \in Procs /\ p # Vacuum /\ p \notin Scanners /\ pc[p] = "update" /\ EndInsert(p)
      /\ UNCHANGED <<elem, ntup>>
  BY ConstantsAssumption DEF Procs, FinishInsert
<1>1. /\ Reset(p) /\ pc'[p] = "idle" /\ \A q \in Procs \ {p} : pc'[q] = pc[q]
      /\ updLock' = Drop(updLock, p) /\ scanLock' = scanLock /\ vac' = vac /\ failed' = failed \ {p}
  BY <1>0 DEF EndInsert, TInv, TypeOK
<1>2. Others(p) BY <1>0, <1>1, OthersReset
<1>3. LocksKept(p) BY <1>0, <1>1, LocksKeptBy
<1>4. \A G \in SUBSET Slots : Within(G, p)' BY <1>0, <1>1, ResetWithin
<1>5. Alone(p)' /\ pc'[p] \notin Placing BY <1>1 DEF Alone, Placing
<1>6. ScansNeverReadDeleted' BY <1>1 DEF Sound, ScansNeverReadDeleted
<1>7. CASE meta'.entry = meta.entry
  BY <1>0, <1>1, <1>2, <1>3, <1>4, <1>5, <1>6, <1>7, C_Quiet DEF ScansNeverReadDeleted
<1>8. CASE meta'.entry # meta.entry
  <2> DEFINE s == me[p].elt.slot
  <2>1. meta'.entry = s
    <3>1. meta' \in {meta, EntryGreater(me[p].elt)} BY DEF FinishInsert
    <3> QED BY <1>8, <3>1 DEF EntryGreater, TInv, TypeOK, MetaType
  <2>2. s \in Slots /\ elem[s].tids # {} /\ meta'.entry # Nil
    <3>1. me[p].tid \in elem[s].tids /\ s # Nil BY <1>0 DEF Steady, Inserting, Placing
    <3> QED BY <1>0, <2>1, <3>1, TidTypes
  <2>3. pc[p] \in Placing /\ pc'[Vacuum] = pc[Vacuum] BY <1>0, <1>1, VacuumProc DEF Placing
  <2>4. (\A r : Referenced(r)' = Referenced(r)) /\ Clean' = Clean BY <1>0, CleanSame
  <2> HIDE DEF s
  <2>5. \A q \in Inserters : Alone(q)' BY <2>2 DEF Alone
  <2>6. Pass1'
    <3>1. ASSUME pc[Vacuum] = "remove"
          PROVE  vac.first = Nil /\ Referenced(s) = {}
      <4>1. meta.entry = Nil BY <1>8, <3>1 DEF Stays
      <4>2. vac.first = Nil BY <3>1, <4>1 DEF Sound, Pass1
      <4>3. Referenced(s) = {} BY <1>0, <2>3, <4>1 DEF Sound, Alone, s
      <4> QED BY <4>2, <4>3
    <3> QED BY <1>1, <2>1, <2>3, <2>4, <3>1 DEF Sound, Pass1
  <2>7. PastWait => s \in Clean BY <2>3 DEF Sound, PlacedClean, s
  <2>8. PlacedClean'
    <3>1. PastWait' => PastWait BY <2>3 DEF PastWait
    <3>2. \A q \in Inserters : pc'[q] \in Placing => pc[q] \in Placing /\ me'[q] = me[q]
      BY <1>1, <1>2 DEF Others, Procs, Placing
    <3> QED BY <2>4, <3>1, <3>2 DEF Sound, PlacedClean
  <2>9. ~Repairs("ep")
    <3>1. Vacuum \notin updLock.ex BY <1>0, NoExclusiveVacuum DEF Outside
    <3> QED BY <3>1 DEF Sound, Held
  <2>10. (\E G \in SUBSET Slots : Guarded(G))'
    <3>1. PICK G \in SUBSET Slots : Guarded(G) BY DEF Sound
    <3>2. Closed(G) /\ meta'.entry \in G BY <2>1, <2>2, <3>1 DEF Guarded, Closed
    <3>3. Closed(G)' BY <1>0, <2>3, <3>2, ClosedEntry
    <3> QED BY <1>0, <1>2, <1>3, <1>4, <3>1, <3>3, G_Step
  <2> QED BY <1>0, <1>1, <1>2, <1>3, <1>6, <2>1, <2>2, <2>4, <2>5, <2>6, <2>7, <2>8, <2>9, <2>10,
             C_Other
<1> QED BY <1>7, <1>8

\* A list made of chosen neighbors holds their slots
LEMMA ChosenRange ==
  ASSUME NEW S, NEW i \in Widest, ListOf({x.slot : x \in S})[i] # Nil
  PROVE  \E x \in S : ListOf({y.slot : y \in S})[i] = x.slot
<1>1. ListOf({x.slot : x \in S})[i] \in {x.slot : x \in S} \cup {Nil} BY ListOfRange
<1> QED BY <1>1

\* AddElementOnDisk: the new element has the neighbors its search chose, which
\* are live once VACUUM has waited for inserts
LEMMA C_PutElement ==
  ASSUME TInv, Fresh, Steady, Sound, NEW p \in Inserters, pc[p] = "walk",
         NEW s \in Slots, NEW v, NEW r, PutElement(p, s, v, r),
         \/ elem[s].deleted /\ npages' = npages /\ s <= npages
         \/ s = npages + 1 /\ npages' = npages + 1,
         pc' = [pc EXCEPT ![p] = "setPage"],
         UNCHANGED <<meta, locks, heap, ep, srch, nb, vac, failed, cancels>>
  PROVE  Sound'
<1>0. p \in Procs /\ p # Vacuum /\ p \notin Scanners BY ConstantsAssumption DEF Procs
<1>1. \A q \in Slots : q # s => elem'[q] = elem[q] /\ ntup'[q] = ntup[q]
  BY DEF PutElement, TInv, TypeOK
<1>2. /\ elem'[s].tids = {me[p].tid} /\ ~elem'[s].deleted
      /\ ntup'[s].level = me[p].elt.level
      /\ ntup'[s].nbrs = [lc \in Levels |-> ListOf({x.slot : x \in nb[p][lc]})]
  BY DEF PutElement, TInv, TypeOK
<1>3. me'[p].elt.slot = s /\ upd'[p].todo = Chosen(p)
  <2>1. me[p] \in MeType /\ upd[p] \in UpdateType BY <1>0 DEF TInv, TypeOK
  <2> QED BY <1>0, <2>1 DEF PutElement, TInv, TypeOK, MeType, Copies, UpdateType
<1>4. Others(p) BY <1>0 DEF PutElement, Others, TInv, TypeOK
<1>5. pc'[Vacuum] = pc[Vacuum] /\ pc'[p] = "setPage" BY <1>0, VacuumProc DEF TInv, TypeOK
<1>6. elem[s].tids = {}
  <2>1. npages \in Nat BY TidTypes
  <2> QED BY <2>1 DEF Fresh, Paired, Steady, Matched, InChain
<1>7. \A q \in Slots : q # s => Referenced(q)' = Referenced(q) BY <1>1 DEF Referenced
<1>8. \A q \in Referenced(s)' : \E lc \in Levels : \E x \in nb[p][lc] : q = x.slot
  <2>1. 0..me[p].elt.level \subseteq Levels
    BY <1>0, TidTypes, ConstantsAssumption DEF Copies, Levels
  <2>2. ASSUME NEW lc \in Levels, NEW i \in Widest, ntup'[s].nbrs[lc][i] # Nil
        PROVE  \E x \in nb[p][lc] : ntup'[s].nbrs[lc][i] = x.slot
    <3>1. ntup'[s].nbrs[lc] = ListOf({x.slot : x \in nb[p][lc]}) BY <1>2
    <3> QED BY <2>2, <3>1, ChosenRange
  <2>3. ntup'[s].level = me[p].elt.level BY <1>2
  <2> QED BY <2>1, <2>2, <2>3 DEF Referenced
<1>9. ASSUME NEW lc \in Levels, NEW x \in nb[p][lc]
      PROVE  x.slot \in Slots /\ (PastWait => elem[x.slot].tids # {})
  <2>1. Current(x) /\ x \in Copies BY <1>0 DEF Fresh, Holds, TInv, TypeOK
  <2> QED BY <2>1 DEF Current, Copies, PastWait
<1>10. \A q \in Slots : elem[q].tids # {} => elem'[q].tids # {} BY <1>1, <1>2
<1>11. PastWait => Clean \subseteq Clean' /\ s \in Clean'
  <2>1. ASSUME NEW q \in Clean, q # s PROVE q \in Clean'
    <3>1. q \in Slots /\ Referenced(q) \subseteq Slots BY <2>1, GraphTypes DEF Clean
    <3> QED BY <1>7, <1>10, <2>1, <3>1 DEF Clean
  <2>2. PastWait => s \in Clean' BY <1>8, <1>9, <1>10 DEF Clean
  <2> QED BY <2>1, <2>2
<1>12. \A q \in Slots : elem'[q].tids # {} => elem[q].tids # {} \/ q = s BY <1>1
<1>13. \A q \in Inserters : Alone(q)'
  <2>1. Alone(p)'
    <3>1. ASSUME meta.entry = Nil
          PROVE  /\ p \in updLock.ex /\ \A lc \in Levels : nb[p][lc] = {}
                 /\ Referenced(s)' = {} /\ Chosen(p) = {}
      <4>1. p \in updLock.ex /\ \A lc \in Levels : nb[p][lc] = {} BY <3>1 DEF Sound, Alone
      <4>2. Referenced(s)' = {} BY <1>8, <4>1
      <4>3. Chosen(p) = {} BY <4>1 DEF Chosen
      <4> QED BY <4>1, <4>2, <4>3
    <3>2. meta.entry = Nil => Referenced(me[p].elt.slot)' = {} BY <1>3, <3>1 DEF Referenced
    <3> QED BY <1>3, <1>5, <3>1, <3>2 DEF Alone
  <2> QED BY <1>4, <2>1, OthersWait DEF Outside
<1>14. Pass1'
  <2>1. ASSUME pc[Vacuum] = "remove", meta.entry # vac.first, NEW t \in Referenced(meta.entry)'
        PROVE  Survives(t)'
    <3>1. vac.first = Nil /\ meta.entry \in Slots BY <2>1, GraphTypes DEF Sound, Pass1
    <3>2. meta.entry # s
      <4>1. meta.entry <= npages /\ ~elem[meta.entry].deleted /\ npages \in Nat
        BY <2>1, <3>1, TidTypes DEF Steady, Entered, EntryOk
      <4> QED BY <4>1
    <3>3. t \in Referenced(meta.entry) BY <1>7, <2>1, <3>1, <3>2
    <3>4. Survives(t) /\ t \in Slots BY <2>1, <3>1, <3>3, GraphTypes DEF Sound, Pass1
    <3>5. t # s BY <1>6, <3>4 DEF Survives
    <3> QED BY <1>1, <3>4, <3>5 DEF Survives
  <2> QED BY <1>5, <2>1 DEF Sound, Pass1
<1>15. PlacedClean'
  <2> SUFFICES ASSUME PastWait', NEW q \in Inserters, pc'[q] \in Placing
               PROVE  (me[q].elt.slot \in Clean)'
    BY DEF PlacedClean
  <2>1. PastWait BY <1>5 DEF PastWait
  <2>2. CASE q = p BY <1>3, <1>11, <2>1, <2>2
  <2>3. CASE q # p
    <3>1. pc'[q] = pc[q] /\ me'[q] = me[q] BY <1>4, <2>3 DEF Others, Procs
    <3> QED BY <1>11, <2>1, <3>1 DEF Sound, PlacedClean
  <2> QED BY <2>2, <2>3
<1>16. ScansNeverReadDeleted' BY DEF Sound, ScansNeverReadDeleted
<1>17. LocksKept(p) BY DEF LocksKept
<1>18. (\E G \in SUBSET Slots : Guarded(G))'
  <2>1. PICK G \in SUBSET Slots : Guarded(G) BY DEF Sound
  <2> DEFINE H == G \cup {s}
  <2>2. Closed(G) /\ Within(G, p) BY <1>0, <2>1 DEF Guarded
  <2>3. Referenced(s)' \subseteq H BY <1>0, <1>8, <2>2 DEF Within
  <2>4. \A q \in H : ~elem'[q].deleted /\ Referenced(q)' \subseteq H
    BY <1>1, <1>2, <1>7, <2>2, <2>3 DEF Closed
  <2>5. \A q \in Slots : elem'[q].tids # {} => q \in H BY <1>1, <2>2 DEF Closed
  <2>6. pc'[Vacuum] = "mark" => \A q \in H : elem'[q].tids # {}
    BY <1>2, <1>5, <1>10, <2>2 DEF Closed
  <2>7. meta'.entry # Nil => meta'.entry \in H BY <2>2 DEF Closed
  <2>8. H \in SUBSET Slots /\ G \subseteq H OBVIOUS
  <2> HIDE DEF H
  <2>9. Closed(H)' BY <2>4, <2>5, <2>6, <2>7 DEF Closed
  <2>10. Within(H, p)' BY <1>0, <2>2, <2>8 DEF Within
  <2> QED BY <1>0, <1>4, <1>17, <2>1, <2>8, <2>9, <2>10, G_Step
<1> QED BY <1>0, <1>4, <1>11, <1>12, <1>13, <1>14, <1>15, <1>16, <1>17, <1>18, C_Other

\* A deleted element is replaced in its place
LEMMA C_ReplaceDeleted ==
  ASSUME TInv, Fresh, Steady, Sound, NEW p \in Inserters, ReplaceDeleted(p) PROVE Sound'
<1>1. walk[p].cur \in Slots
  BY DEF ReplaceDeleted, TInv, TypeOK, WalkType, Defined, Ready, Procs
<1> QED BY <1>1, C_PutElement DEF ReplaceDeleted, Replaceable

\* ... or a page is appended
LEMMA C_AppendPage ==
  ASSUME TInv, Fresh, Steady, Sound, NEW p \in Inserters, AppendPage(p) PROVE Sound'
<1>1. npages + 1 \in Slots
  BY ConstantsAssumption DEF AppendPage, Slots, TInv, TypeOK
<1> QED BY <1>1, C_PutElement DEF AppendPage

\* UpdateNeighborOnDisk adds the element it is called for to one list
LEMMA UpdateAdds ==
  ASSUME TInv, NEW p \in Procs, UpdateNeighbor(p), NEW s \in Slots
  PROVE  Referenced(s)' \subseteq Referenced(s) \cup {me[p].elt.slot}
<1> DEFINE x == upd[p].cur
           j == UpdateIndex(p)
<1>1. \/ ntup' = ntup
      \/ ntup' = [ntup EXCEPT ![x.elt.slot].nbrs[x.lc][j] = me[p].elt.slot]
  BY DEF UpdateNeighbor
<1> HIDE DEF x, j
<1>2. ntup \in [Slots -> NtupType] /\ ntup[s] \in NtupType BY DEF TInv, TypeOK
<1>3. ntup[s].nbrs \in [Levels -> [Widest -> Slots \cup {Nil}]] BY <1>2 DEF NtupType, Lists
<1> DEFINE L == [ntup[s].nbrs EXCEPT ![x.lc][j] = me[p].elt.slot]
<1>4. \A lc \in Levels, i \in Widest : L[lc][i] \in {ntup[s].nbrs[lc][i], me[p].elt.slot}
  BY <1>3
<1>5. ntup'[s] = ntup[s] \/ ntup'[s] = [ntup[s] EXCEPT !.nbrs = L] BY <1>1, <1>2
<1> HIDE DEF L
<1>6. /\ ntup'[s].level = ntup[s].level
      /\ \A lc \in Levels, i \in Widest :
           ntup'[s].nbrs[lc][i] \in {ntup[s].nbrs[lc][i], me[p].elt.slot}
  BY <1>2, <1>4, <1>5 DEF NtupType
<1>7. 0..ntup[s].level \subseteq Levels
  BY <1>2, ConstantsAssumption DEF NtupType, Levels
<1> QED BY <1>6, <1>7 DEF Referenced

\* An insert links its own element, which is live
LEMMA C_LinkInserted ==
  ASSUME TInv, Fresh, Steady, Sound, NEW p \in Inserters, UpdateNeighbor(p) PROVE Sound'
<1>0. p \in Procs /\ p # Vacuum /\ p \notin Scanners /\ pc[p] = "write"
  BY ConstantsAssumption DEF Procs, UpdateNeighbor
<1>1. /\ UNCHANGED <<elem, meta, locks, me, srch, nb, vac, failed>> /\ pc'[p] = "update" /\ Others(p)
  BY <1>0 DEF UpdateNeighbor, TInv, TypeOK, Others
<1> DEFINE e == me[p].elt.slot
<1>2. e \in Slots /\ elem[e].tids # {} /\ ~(elem[e].tids \subseteq vac.dead /\ pc[Vacuum] = "remove")
  <2>1. me[p].tid \in elem[e].tids /\ e # Nil /\ heap[me[p].tid] = "inserting"
    BY <1>0 DEF Steady, Inserting, Placing
  <2>2. pc[Vacuum] = "remove" => me[p].tid \notin vac.dead BY <2>1 DEF Steady, Removing
  <2> QED BY <1>0, <2>1, <2>2, TidTypes
<1>3. \A s \in Slots : Referenced(s)' \subseteq Referenced(s) \cup {e} BY <1>0, UpdateAdds
<1> HIDE DEF e
<1>4. Clean \subseteq Clean' BY <1>1, <1>2, <1>3 DEF Clean
<1>5. \A q \in Inserters : Alone(q)'
  <2>1. meta'.entry # Nil BY <1>0, <1>1 DEF Sound, Alone
  <2> QED BY <2>1 DEF Alone
<1>6. pc'[Vacuum] = pc[Vacuum] BY <1>0, <1>1, VacuumProc DEF Others
<1>7. Pass1'
  <2>1. ASSUME pc[Vacuum] = "remove", meta.entry # vac.first, NEW r \in Referenced(meta.entry)'
        PROVE  Survives(r)'
    <3>1. vac.first = Nil /\ meta.entry \in Slots BY <2>1, GraphTypes DEF Sound, Pass1
    <3>2. r \in Referenced(meta.entry) \/ r = e BY <1>1, <1>3, <2>1, <3>1
    <3>3. Survives(r) BY <1>2, <2>1, <3>2 DEF Sound, Pass1, Survives
    <3> QED BY <1>1, <3>3 DEF Survives
  <2> QED BY <1>1, <1>6, <2>1 DEF Sound, Pass1
<1>8. PlacedClean'
  <2>1. PastWait' => PastWait BY <1>6 DEF PastWait
  <2>2. \A q \in Inserters : pc'[q] \in Placing => pc[q] \in Placing /\ me'[q] = me[q]
    BY <1>0, <1>1 DEF Others, Procs, Placing
  <2> QED BY <1>4, <2>1, <2>2 DEF Sound, PlacedClean
<1>9. ScansNeverReadDeleted' BY <1>1 DEF Sound, ScansNeverReadDeleted
<1>10. LocksKept(p) BY <1>1 DEF LocksKept
<1>11. (\E G \in SUBSET Slots : Guarded(G))'
  <2>1. PICK G \in SUBSET Slots : Guarded(G) BY DEF Sound
  <2>2. Closed(G) /\ e \in G /\ Within(G, p) BY <1>0, <1>2, <2>1 DEF Guarded, Closed
  <2>3. Closed(G)' BY <1>1, <1>3, <1>6, <2>2 DEF Closed
  <2>4. Within(G, p)' BY <1>0, <1>1, <2>2 DEF Within
  <2> QED BY <1>0, <1>1, <1>10, <2>1, <2>3, <2>4, G_Step
<1> QED BY <1>0, <1>1, <1>4, <1>5, <1>7, <1>8, <1>9, <1>10, <1>11, C_Other

\* A step of VACUUM that writes no page leaves the first insert alone
LEMMA V_Alone ==
  ASSUME Sound, Others(Vacuum), LocksKept(Vacuum), UNCHANGED <<elem, ntup>>,
         meta'.entry = meta.entry, NEW q \in Inserters
  PROVE  Alone(q)'
<1>1. \A s : Referenced(s)' = Referenced(s) BY CleanSame
<1>2. Alone(q) /\ q \in Procs \ {Vacuum} BY VacuumProc DEF Sound, Procs
<1> QED BY <1>1, <1>2, AloneKept DEF Others, LocksKept

\* ... and while VACUUM repairs, nobody inserts the first row
LEMMA V_Holding ==
  ASSUME Fresh, Sound, Others(Vacuum), pc[Vacuum] \in RepairSteps,
         meta'.entry = Nil => meta.entry = Nil, NEW q \in Inserters
  PROVE  Alone(q)'
<1>1. pc'[q] = pc[q] /\ q # Vacuum BY VacuumProc DEF Others, Procs
<1>2. Vacuum \in updLock.sh \cup updLock.ex BY DEF Sound, Held
<1>3. q \notin updLock.ex BY <1>1, <1>2 DEF Fresh, Locked
<1>4. meta.entry = Nil => pc[q] \in {"idle", "wantEx"} BY <1>3 DEF Sound, Alone
<1> QED BY <1>1, <1>4 DEF Alone

\* What inserts have placed stays clean
LEMMA V_Placed ==
  ASSUME Sound, Others(Vacuum), Clean \subseteq Clean', PastWait' => PastWait
  PROVE  PlacedClean'
<1>1. \A q \in Inserters : pc'[q] = pc[q] /\ me'[q] = me[q] BY VacuumProc DEF Others, Procs
<1> QED BY <1>1 DEF Sound, PlacedClean

\* A step of VACUUM that writes no page
LEMMA C_Vacuum ==
  ASSUME TInv, Sound, Others(Vacuum), LocksKept(Vacuum), UNCHANGED <<elem, ntup, srch>>,
         meta'.entry = meta.entry, failed' \subseteq failed,
         nb'[Vacuum] = nb[Vacuum] \/ nb'[Vacuum] = [lc \in Levels |-> {}],
         PastWait' => PastWait, pc'[Vacuum] = "mark" => pc[Vacuum] = "mark",
         Held', Pass1', Repaired'
  PROVE  Sound'
<1>1. \A q \in Inserters : Alone(q)' BY V_Alone
<1>2. PlacedClean' BY V_Placed, CleanSame
<1>3. (\E G \in SUBSET Slots : Guarded(G))'
  <2>1. PICK G \in SUBSET Slots : Guarded(G) BY DEF Sound
  <2>2. Closed(G) /\ Within(G, Vacuum) BY <2>1, VacuumProc DEF Guarded
  <2>3. elem' = elem /\ ntup' = ntup OBVIOUS
  <2>4. Closed(G)' BY <2>2, <2>3, ClosedSame
  <2>5. Within(G, Vacuum)' BY <2>2, VacuumProc DEF Within
  <2> QED BY <2>1, <2>4, <2>5, G_Step, VacuumProc
<1>4. ScansNeverReadDeleted' BY DEF Sound, ScansNeverReadDeleted
<1> QED BY <1>1, <1>2, <1>3, <1>4 DEF Sound

\* An element none of whose neighbors is on VACUUM's list is clean
LEMMA CleanUnlessListed ==
  ASSUME TInv, Fresh, Steady, PastWait, NEW s \in Slots, Referenced(s) \cap vac.deleted = {}
  PROVE  s \in Clean
<1>1. ASSUME NEW r \in Referenced(s) PROVE elem[r].tids # {}
  <2>1. r \in Slots /\ InChain(r) /\ r \notin vac.deleted BY GraphTypes, ReferencedInChain
  <2> QED BY <2>1 DEF Steady, Removing, Behind, PastWait
<1> QED BY <1>1 DEF Clean

\* Pass 1 begins with the entry point it leaves out
LEMMA C_BeginVacuum == ASSUME TInv, Sound, BeginVacuum PROVE Sound'
<1>1. /\ UNCHANGED <<elem, ntup, meta, locks, srch, nb, failed>>
      /\ pc'[Vacuum] = "remove" /\ Others(Vacuum)
      /\ vac'.highest = NoElement /\ vac'.first = meta.entry
  BY VacuumProc DEF BeginVacuum, TInv, TypeOK, VacType, Others
<1>2. LocksKept(Vacuum) BY <1>1 DEF LocksKept
<1>3. Held' /\ Repaired'
  BY <1>1 DEF Held, Repaired, HighestDone, EntryDone, LoopDone, Repairs, RepairSteps, InLoop
<1>4. Pass1' BY <1>1 DEF Pass1, NoElement
<1> QED BY <1>1, <1>2, <1>3, <1>4, C_Vacuum DEF PastWait

\* Pass 1 takes no TID from an element that survives it
LEMMA C_RemoveHeapTids == ASSUME TInv, Sound, RemoveHeapTids PROVE Sound'
<1>1. /\ UNCHANGED <<ntup, meta, locks, pc, me, ep, srch, nb, upd, failed>>
      /\ pc[Vacuum] = "remove" /\ vac.pos \in Slots /\ vac \in VacType
  BY DEF RemoveHeapTids, TInv, TypeOK, VacType
<1> DEFINE s == vac.pos
           left == elem[s].tids \ vac.dead
<1>2. elem' = elem \/ elem' = [elem EXCEPT ![s].tids = left] BY DEF RemoveHeapTids
<1>3. elem \in [Slots -> ElemType] /\ elem[s] \in ElemType BY <1>1 DEF TInv, TypeOK
<1>4. \A q \in Slots : /\ elem'[q].deleted = elem[q].deleted
                       /\ elem'[q].tids = elem[q].tids \/ elem'[q].tids = elem[q].tids \ vac.dead
  BY <1>2, <1>3 DEF ElemType
<1>5. /\ vac'.first = vac.first /\ vac'.dead = vac.dead
      /\ vac'.highest = vac.highest \/ (vac'.highest.slot = s /\ s # vac.first)
  <2>1. CASE s > npages BY <1>1, <2>1 DEF RemoveHeapTids, VacType
  <2>2. CASE ~(s > npages)
    <3> DEFINE h == [Load(s) EXCEPT !.live = TRUE]
    <3>1. vac' = [vac EXCEPT !.pos = NextPos,
             !.deleted = IF left = {} THEN @ \cup {s} ELSE @,
             !.highest = IF left # {} /\ s # vac.first
                            /\ (@.slot = Nil \/ elem[s].level > @.level)
                           THEN h ELSE @]
      BY <2>2 DEF RemoveHeapTids
    <3>2. h.slot = s BY DEF Load
    <3> HIDE DEF h
    <3>3. /\ vac'.first = vac.first /\ vac'.dead = vac.dead
          /\ vac'.highest = vac.highest \/ (vac'.highest = h /\ s # vac.first)
      BY <1>1, <3>1 DEF VacType
    <3> QED BY <3>2, <3>3
  <2> QED BY <2>1, <2>2
<1> HIDE DEF s, left
<1>6. \A q : Referenced(q)' = Referenced(q) BY <1>1 DEF Referenced
<1>7. Pass1'
  <2>1. ASSUME meta.entry # vac.first, NEW r \in Referenced(meta.entry)'
        PROVE  vac.first = Nil /\ Survives(r)'
    <3>1. vac.first = Nil /\ r \in Referenced(meta.entry) /\ Survives(r)
      BY <1>1, <1>6, <2>1 DEF Sound, Pass1
    <3>2. r \in Slots BY <2>1, <3>1, GraphTypes
    <3> QED BY <1>4, <1>5, <3>1, <3>2 DEF Survives
  <2>2. meta.entry # vac.first => vac.first = Nil BY <1>1 DEF Sound, Pass1
  <2> QED BY <1>1, <1>5, <2>1, <2>2 DEF Sound, Pass1
<1>8. Held' /\ PlacedClean' /\ Repaired'
  BY <1>1 DEF Held, PlacedClean, PastWait, Repaired, HighestDone, EntryDone, LoopDone, Repairs,
              RepairSteps, InLoop
<1>9. Others(Vacuum) /\ LocksKept(Vacuum) BY <1>1 DEF Others, LocksKept
<1>10. ASSUME NEW q \in Inserters PROVE Alone(q)'
  BY <1>1, <1>6 DEF Sound, Alone
<1>11. (\E G \in SUBSET Slots : Guarded(G))'
  <2>1. PICK G \in SUBSET Slots : Guarded(G) BY DEF Sound
  <2>2. Closed(G) /\ Within(G, Vacuum) BY <2>1, VacuumProc DEF Guarded
  <2>3. Closed(G)' BY <1>1, <1>4, <1>6, <2>2 DEF Closed
  <2>4. Within(G, Vacuum)' BY <1>1, <2>2, VacuumProc DEF Within
  <2> QED BY <1>9, <2>1, <2>3, <2>4, G_Step, VacuumProc
<1>12. ScansNeverReadDeleted' BY <1>1 DEF Sound, ScansNeverReadDeleted
<1> QED BY <1>7, <1>8, <1>10, <1>11, <1>12 DEF Sound

\* The barrier: nobody has placed an element, and a highest element that is the
\* entry point has only neighbors that pass 1 has left heap TIDs
LEMMA C_WaitForInserts == ASSUME TInv, Fresh, Sound, WaitForInserts PROVE Sound'
<1>1. /\ UNCHANGED <<elem, ntup, meta, locks, me, ep, srch, nb, upd, vac, failed>>
      /\ pc[Vacuum] = "remove" /\ Others(Vacuum)
      /\ pc'[Vacuum] = (IF vac.highest.slot # Nil THEN "hpLock" ELSE "epLock")
  BY VacuumProc DEF WaitForInserts, TInv, TypeOK, Others
<1>2. \A q \in Inserters : pc'[q] \notin Placing
  <2>1. ASSUME NEW q \in Inserters PROVE pc[q] \in {"idle", "wantEx"} /\ pc'[q] = pc[q]
    BY <1>1, VacuumProc DEF WaitForInserts, Free, Fresh, Locked, Procs, Others
  <2> QED BY <2>1 DEF Placing
<1>3. LocksKept(Vacuum) BY <1>1 DEF LocksKept
<1>4. Held' /\ Pass1' BY <1>1 DEF Held, Repairs, RepairSteps, Pass1
<1>5. PlacedClean' BY <1>2 DEF PlacedClean
<1>6. (\A s : Referenced(s)' = Referenced(s)) /\ Clean' = Clean BY <1>1, CleanSame
<1>7. Repaired'
  <2>1. ASSUME meta.entry # Nil, vac.highest.slot = meta.entry PROVE meta.entry \in Clean
    <3>1. /\ meta.entry \in Slots /\ \A r \in Referenced(meta.entry) : Survives(r)
      BY <1>1, <2>1, GraphTypes DEF Sound, Pass1
    <3>2. Referenced(meta.entry) \subseteq Slots BY <3>1, GraphTypes
    <3> QED BY <3>1, <3>2, LiveSlots DEF Clean
  <2>2. HighestDone' BY <1>1, <1>6, <2>1 DEF HighestDone, Repairs, RepairSteps
  <2>3. EntryDone' /\ LoopDone'
    BY <1>1 DEF EntryDone, LoopDone, Repairs, RepairSteps, InLoop
  <2> QED BY <2>2, <2>3 DEF Repaired
<1>8. \A q \in Inserters : Alone(q)' BY <1>1, <1>3, V_Alone
<1>9. (\E G \in SUBSET Slots : Guarded(G))'
  <2>1. PICK G \in SUBSET Slots : Guarded(G) BY DEF Sound
  <2>2. Closed(G) /\ Within(G, Vacuum) BY <2>1, VacuumProc DEF Guarded
  <2>3. Closed(G)' BY <1>1, <2>2, ClosedSame
  <2>4. Within(G, Vacuum)' BY <1>1, <2>2, VacuumProc DEF Within
  <2> QED BY <1>1, <1>3, <2>1, <2>3, <2>4, G_Step, VacuumProc
<1>10. ScansNeverReadDeleted' BY <1>1 DEF Sound, ScansNeverReadDeleted
<1> QED BY <1>4, <1>5, <1>7, <1>8, <1>9, <1>10 DEF Sound

\* The highest element is loaded again under the lock
LEMMA C_LockHighest == ASSUME TInv, Sound, LockHighest PROVE Sound'
<1>1. /\ UNCHANGED <<elem, ntup, meta, scanLock, me, srch, nb, failed>>
      /\ pc[Vacuum] = "hpLock" /\ pc'[Vacuum] = "hpCheck" /\ Others(Vacuum)
      /\ updLock' = Share(updLock, Vacuum)
  BY VacuumProc DEF LockHighest, TInv, TypeOK, Others
<1>2. vac'.highest.slot = vac.highest.slot /\ vac'.ret = "hp"
  <2>1. Load(vac.highest.slot).slot = vac.highest.slot BY DEF Load
  <2>2. vac' = [vac EXCEPT !.highest = Load(vac.highest.slot), !.ret = "hp"] BY DEF LockHighest
  <2>3. vac \in VacType BY DEF TInv, TypeOK
  <2> HIDE DEF Load
  <2> QED BY <2>1, <2>2, <2>3 DEF VacType
<1>3. Vacuum \in updLock'.sh BY <1>1 DEF Share, TInv, TypeOK, LockType
<1>4. LocksKept(Vacuum) BY <1>1, VacuumProc, LocksKeptBy
<1>5. Held' /\ Pass1' BY <1>1, <1>3 DEF Held, Repairs, RepairSteps, Pass1
<1>6. Clean' = Clean BY <1>1, CleanSame
<1>7. HighestDone' BY <1>1, <1>2, <1>6 DEF Sound, Repaired, HighestDone, Repairs, RepairSteps
<1>8. EntryDone' /\ LoopDone'
  BY <1>1 DEF EntryDone, LoopDone, Repairs, RepairSteps, InLoop
<1> QED BY <1>1, <1>4, <1>5, <1>7, <1>8, C_Vacuum DEF PastWait, Repaired

\* What a repair begins with
LEMMA C_Starts ==
  ASSUME TInv, NEW e \in Copies, e.slot # Nil, NEW en, StartRepair(e, en)
  PROVE  /\ me'[Vacuum].elt.slot = e.slot /\ nb'[Vacuum] = [lc \in Levels |-> {}]
         /\ \A q \in Procs \ {Vacuum} : /\ pc'[q] = pc[q] /\ me'[q] = me[q] /\ ep'[q] = ep[q]
                                        /\ nb'[q] = nb[q]
         /\ pc'[Vacuum] \in {"repaired", "overwrite", "entry"}
         /\ pc'[Vacuum] = "repaired" <=> en.slot = e.slot
<1>1. me[Vacuum] \in MeType BY TidTypes
<1>2. pc'[Vacuum] = CASE en.slot = e.slot -> "repaired"
                      [] en.slot = Nil -> "overwrite"
                      [] OTHER -> "entry"
  BY VacuumProc DEF StartRepair, TInv, TypeOK
<1>3. me'[Vacuum].elt.slot = e.slot
  BY <1>1, VacuumProc DEF StartRepair, TInv, TypeOK, MeType, Copies
<1>4. pc'[Vacuum] \in {"repaired", "overwrite", "entry"} /\ (pc'[Vacuum] = "repaired" <=> en.slot = e.slot)
  <2>1. CASE en.slot = e.slot
    <3>1. pc'[Vacuum] = "repaired" BY <1>2, <2>1
    <3> QED BY <2>1, <3>1
  <2>2. CASE en.slot # e.slot /\ en.slot = Nil
    <3>1. pc'[Vacuum] = "overwrite" BY <1>2, <2>2
    <3> QED BY <2>2, <3>1
  <2>3. CASE en.slot # e.slot /\ en.slot # Nil
    <3>1. pc'[Vacuum] = "entry" BY <1>2, <2>3
    <3> QED BY <2>3, <3>1
  <2> QED BY <2>1, <2>2, <2>3
<1>5. \A q \in Procs \ {Vacuum} : pc'[q] = pc[q] /\ me'[q] = me[q] /\ ep'[q] = ep[q] /\ nb'[q] = nb[q]
  BY VacuumProc DEF StartRepair, TInv, TypeOK
<1>6. nb'[Vacuum] = [lc \in Levels |-> {}] BY VacuumProc DEF StartRepair, TInv, TypeOK
<1> QED BY <1>3, <1>4, <1>5, <1>6

\* The highest element is clean unless its repair begins; that of the entry
\* point is not begun here
LEMMA C_CheckHighest == ASSUME TInv, Fresh, Steady, Sound, CheckHighest PROVE Sound'
<1> DEFINE h == vac.highest.slot
<1>1. UNCHANGED <<elem, ntup, meta, locks, srch, upd, vac, failed>> /\ pc[Vacuum] = "hpCheck"
  BY DEF CheckHighest
<1>2. vac.highest \in Copies /\ h \in Slots
  BY <1>1, TidTypes DEF Fresh, Repairing, RepairTarget
<1>3. /\ Others(Vacuum) /\ pc'[Vacuum] \in {"repaired", "overwrite", "entry"}
      /\ nb'[Vacuum] = nb[Vacuum] \/ nb'[Vacuum] = [lc \in Levels |-> {}]
      /\ pc'[Vacuum] # "repaired" => me'[Vacuum].elt.slot = h
      /\ pc'[Vacuum] = "repaired" => h \in Clean
  <2>1. CASE NeedsUpdated(vac.highest)
    <3>1. StartRepair(vac.highest, EntryPoint) BY <2>1 DEF CheckHighest
    <3>2. EntryPoint.slot = h => meta.entry # Nil /\ meta.entry = h
      BY <1>2 DEF EntryPoint, NoElement, Slots, Nil
    <3>3. EntryPoint.slot = h => h \in Clean
      BY <1>1, <3>2 DEF Sound, Repaired, HighestDone
    <3>4. h # Nil BY <1>2 DEF Slots, Nil
    <3> QED BY <1>1, <1>2, <3>1, <3>3, <3>4, C_Starts DEF Others
  <2>2. CASE ~NeedsUpdated(vac.highest)
    <3>1. /\ pc'[Vacuum] = "repaired" /\ \A q \in Procs \ {Vacuum} : pc'[q] = pc[q]
          /\ UNCHANGED <<me, ep, nb>>
      BY <2>2, VacuumProc DEF CheckHighest, TInv, TypeOK
    <3>2. h \in Clean BY <1>1, <1>2, <2>2, CleanUnlessListed DEF NeedsUpdated, PastWait
    <3> QED BY <1>1, <3>1, <3>2 DEF Others
  <2> QED BY <2>1, <2>2
<1> HIDE DEF h
<1>4. LocksKept(Vacuum) BY <1>1 DEF LocksKept
<1>5. vac'.ret = "hp" BY <1>1 DEF Steady, Entered
<1>6. Held' /\ Pass1' BY <1>1, <1>3, <1>5 DEF Sound, Held, Repairs, Pass1
<1>7. Clean' = Clean BY <1>1, CleanSame
<1>8. HighestDone'
  <2>1. (meta.entry # Nil /\ vac.highest.slot = meta.entry => meta.entry \in Clean)'
    BY <1>1, <1>7 DEF Sound, Repaired, HighestDone
  <2>2. (pc[Vacuum] # "repaired" => me[Vacuum].elt.slot = vac.highest.slot)' BY <1>1, <1>3 DEF h
  <2>3. (pc[Vacuum] \notin Searching => vac.highest.slot \in Clean)'
    BY <1>1, <1>3, <1>7 DEF Searching, h
  <2>4. pc'[Vacuum] # "epLock" BY <1>3
  <2> QED BY <2>1, <2>2, <2>3, <2>4 DEF HighestDone
<1>9. EntryDone' /\ LoopDone'
  BY <1>3, <1>5 DEF EntryDone, LoopDone, Repairs, InLoop
<1> QED BY <1>1, <1>3, <1>4, <1>6, <1>8, <1>9, C_Vacuum DEF PastWait, Repaired

\* The entry point is replaced by a highest element that is clean, is clean
\* itself, or its repair begins
LEMMA C_LockEntryPoint == ASSUME TInv, Fresh, Steady, Sound, LockEntryPoint PROVE Sound'
<1> DEFINE h == vac.highest.slot
           m == meta'.entry
<1>1. /\ UNCHANGED <<elem, ntup, scanLock, srch, upd, failed>> /\ pc[Vacuum] = "epLock"
      /\ vac'.highest = vac.highest /\ vac'.ret = "ep" /\ updLock' = Exclude(updLock, Vacuum)
      /\ Free(updLock)
  BY DEF LockEntryPoint, TInv, TypeOK, VacType
<1>2. h # Nil => h \in Slots /\ h \in Clean /\ elem[h].tids # {}
  BY <1>1, GraphTypes DEF Sound, Repaired, HighestDone, Steady, Entered, Alive
<1> HIDE DEF h
<1>3. /\ Others(Vacuum) /\ pc'[Vacuum] \in {"repaired", "overwrite", "entry"}
      /\ nb'[Vacuum] = nb[Vacuum] \/ nb'[Vacuum] = [lc \in Levels |-> {}]
      /\ m \in {meta.entry, h}
      /\ pc'[Vacuum] # "repaired" => me'[Vacuum].elt.slot = m
      /\ pc'[Vacuum] = "repaired" /\ m # Nil => m \in Clean
  <2>1. CASE meta.entry = Nil \/ EntryBeingDeleted
    <3>1. /\ pc'[Vacuum] = "repaired" /\ \A q \in Procs \ {Vacuum} : pc'[q] = pc[q]
          /\ UNCHANGED <<me, ep, nb>>
          /\ meta' = IF meta.entry = Nil THEN meta ELSE EntryAlways(vac.highest)
      BY <2>1, VacuumProc DEF LockEntryPoint, TInv, TypeOK
    <3>2. m = IF meta.entry = Nil THEN Nil ELSE h
      BY <3>1 DEF EntryAlways, TInv, TypeOK, MetaType, h
    <3>3. Others(Vacuum) BY <1>1, <3>1 DEF Others
    <3> QED BY <1>2, <3>1, <3>2, <3>3
  <2>2. CASE ~(meta.entry = Nil \/ EntryBeingDeleted)
    <3>0. meta' = meta /\ meta.entry \in Slots BY <2>2, GraphTypes DEF LockEntryPoint
    <3>1. CASE NeedsUpdated(Load(meta.entry))
      <4>1. StartRepair(Load(meta.entry), vac.highest) BY <2>2, <3>1 DEF LockEntryPoint
      <4>2. Load(meta.entry) \in Copies /\ Load(meta.entry).slot = meta.entry
        BY <3>0, LoadType DEF TInv
      <4>3. h = meta.entry => m \in Clean BY <1>2, <2>2, <3>0
      <4>4. Load(meta.entry).slot # Nil BY <2>2, <4>2
      <4> QED BY <1>1, <3>0, <4>1, <4>2, <4>3, <4>4, C_Starts DEF Others, h
    <3>2. CASE ~NeedsUpdated(Load(meta.entry))
      <4>1. /\ pc'[Vacuum] = "repaired" /\ \A q \in Procs \ {Vacuum} : pc'[q] = pc[q]
            /\ UNCHANGED <<me, ep, nb>>
        BY <2>2, <3>2, VacuumProc DEF LockEntryPoint, TInv, TypeOK
      <4>2. Load(meta.entry).slot = meta.entry BY DEF Load
      <4>3. meta.entry \in Clean
        BY <1>1, <3>0, <3>2, <4>2, CleanUnlessListed DEF NeedsUpdated, PastWait
      <4> QED BY <1>1, <3>0, <4>1, <4>3 DEF Others
    <3> QED BY <3>1, <3>2
  <2> QED BY <2>1, <2>2
<1> HIDE DEF m
<1>4. Vacuum \in updLock'.ex BY <1>1 DEF Exclude, TInv, TypeOK, LockType
<1>5. LocksKept(Vacuum) BY <1>1, VacuumProc, LocksKeptBy
<1>6. Held' /\ Pass1' BY <1>3, <1>4 DEF Held, Pass1
<1>7. Clean' = Clean BY <1>1, CleanSame
<1>8. HighestDone' BY <1>1, <1>3 DEF HighestDone, Repairs
<1>9. EntryDone'
  <2>1. ~InLoop' BY <1>1, <1>3 DEF InLoop, Repairs
  <2>2. m = meta'.entry BY DEF m
  <2>3. (pc[Vacuum] # "repaired" => me[Vacuum].elt.slot = meta.entry)' BY <1>3, <2>2
  <2>4. (pc[Vacuum] \notin Searching => (meta.entry # Nil => meta.entry \in Clean))'
    BY <1>3, <1>7, <2>2 DEF Searching
  <2> QED BY <2>1, <2>3, <2>4 DEF EntryDone
<1>10. LoopDone' BY <1>1, <1>3 DEF LoopDone, InLoop, Repairs
<1>11. PlacedClean' BY <1>1, <1>3, <1>7, V_Placed DEF PastWait
<1>12. \A q \in Inserters : Alone(q)'
  <2>1. ASSUME NEW q \in Inserters PROVE pc'[q] \in {"idle", "wantEx"}
    BY <1>1, <1>3, VacuumProc DEF Free, Fresh, Locked, Procs, Others
  <2> QED BY <2>1 DEF Alone
<1>13. (\E G \in SUBSET Slots : Guarded(G))'
  <2>1. PICK G \in SUBSET Slots : Guarded(G) BY DEF Sound
  <2>2. Closed(G) /\ Within(G, Vacuum) BY <2>1, VacuumProc DEF Guarded
  <2>3. meta'.entry # Nil => meta'.entry \in G BY <1>2, <1>3, <2>2 DEF Closed, m
  <2>4. elem' = elem /\ ntup' = ntup /\ pc'[Vacuum] # "mark" BY <1>1, <1>3
  <2>5. Closed(G)' BY <2>2, <2>3, <2>4, ClosedEntry
  <2>6. Within(G, Vacuum)' BY <1>1, <1>3, <2>2, VacuumProc DEF Within
  <2> QED BY <1>3, <1>5, <2>1, <2>5, <2>6, G_Step, VacuumProc
<1>14. ScansNeverReadDeleted' BY <1>1 DEF Sound, ScansNeverReadDeleted
<1> QED BY <1>6, <1>8, <1>9, <1>10, <1>11, <1>12, <1>13, <1>14 DEF Sound, Repaired

\* The repair loop takes the live element it stands at, if there is one
LEMMA C_LoadForRepair == ASSUME TInv, Fresh, Steady, Sound, LoadForRepair PROVE Sound'
<1> DEFINE b == vac.pos <= npages /\ elem[vac.pos].tids # {}
<1>1. /\ UNCHANGED <<elem, ntup, meta, locks, srch, nb, failed>>
      /\ pc[Vacuum] = "loop" /\ vac.pos \in Slots /\ vac'.ret = vac.ret /\ vac'.pos = NextPos
      /\ Others(Vacuum)
  BY VacuumProc DEF LoadForRepair, TInv, TypeOK, VacType, Others
<1>2. /\ pc'[Vacuum] = IF b THEN "check" ELSE "loop"
      /\ b => me'[Vacuum].elt.slot = vac.pos
  <2>1. CASE b
    <3>1. me'[Vacuum].elt = Load(vac.pos) /\ pc'[Vacuum] = "check"
      BY <2>1, VacuumProc DEF LoadForRepair, TInv, TypeOK, MeType
    <3> QED BY <2>1, <3>1 DEF Load
  <2>2. CASE ~b BY <1>1, <2>2 DEF LoadForRepair
  <2> QED BY <2>1, <2>2
<1>3. LocksKept(Vacuum) BY <1>1 DEF LocksKept
<1>4. Held' /\ Pass1' BY <1>1, <1>2 DEF Sound, Held, Repairs, RepairSteps, Pass1
<1>5. Clean' = Clean BY <1>1, CleanSame
<1>6. HighestDone' BY <1>1, <1>2 DEF HighestDone, Repairs, RepairSteps
<1>7. InLoop BY <1>1 DEF InLoop
<1>8. EntryDone'
  <2>1. meta.entry # Nil => meta.entry \in Clean BY <1>7 DEF Sound, Repaired, EntryDone
  <2> QED BY <1>1, <1>2, <1>5, <2>1 DEF EntryDone, Repairs, RepairSteps
<1>9. LoopDone'
  <2>1. ASSUME NEW s \in Slots, elem[s].tids # {}, s \notin Clean
        PROVE  \/ vac'.pos # Nil /\ s >= vac'.pos
               \/ s = me'[Vacuum].elt.slot /\ pc'[Vacuum] = "check"
    <3>1. s >= vac.pos /\ s <= npages
      BY <1>1, <1>7, <2>1 DEF Sound, Repaired, LoopDone, Searching, Steady, Matched, InChain
    <3>2. npages \in Nat BY TidTypes
    <3>3. CASE s = vac.pos BY <1>2, <2>1, <3>1, <3>3
    <3>4. CASE s # vac.pos
      <4>1. s > vac.pos /\ vac.pos < npages /\ vac'.pos = vac.pos + 1
        BY <1>1, <3>1, <3>2, <3>4 DEF NextPos, Slots
      <4> QED BY <1>1, <4>1 DEF Slots, Nil
    <3> QED BY <3>3, <3>4
  <2>2. (\A s \in Slots : elem[s].tids # {} =>
           \/ s \in Clean
           \/ vac.pos # Nil /\ s >= vac.pos
           \/ s = me[Vacuum].elt.slot /\ pc[Vacuum] \in {"check", "lock", "wantEx"} \cup Searching)'
    BY <1>1, <1>5, <2>1
  <2>3. ~(Repairs("loop") /\ pc[Vacuum] \notin Searching)' /\ pc'[Vacuum] # "mark"
    BY <1>2 DEF Repairs, RepairSteps
  <2> QED BY <2>2, <2>3 DEF LoopDone
<1> QED BY <1>1, <1>2, <1>3, <1>4, <1>6, <1>8, <1>9, C_Vacuum DEF PastWait, Repaired

\* An element that need not be repaired is clean
LEMMA C_CheckElement == ASSUME TInv, Fresh, Steady, Sound, CheckElement PROVE Sound'
<1> DEFINE e == me[Vacuum].elt.slot
<1>1. /\ UNCHANGED <<elem, ntup, meta, locks, me, ep, srch, nb, upd, vac, failed>>
      /\ pc[Vacuum] = "check" /\ Others(Vacuum)
      /\ pc'[Vacuum] = IF NeedsUpdated(me[Vacuum].elt) THEN "lock" ELSE "loop"
  BY VacuumProc DEF CheckElement, TInv, TypeOK, Others
<1>2. e \in Slots BY <1>1, TidTypes DEF Steady, Entered, Alive
<1>3. pc'[Vacuum] = "loop" => e \in Clean
  BY <1>1, <1>2, CleanUnlessListed DEF NeedsUpdated, PastWait
<1>4. LocksKept(Vacuum) BY <1>1 DEF LocksKept
<1>5. pc'[Vacuum] \in {"lock", "loop"} BY <1>1
<1>6. Held' /\ Pass1' BY <1>1, <1>5 DEF Sound, Held, Repairs, RepairSteps, Pass1
<1>7. Clean' = Clean BY <1>1, CleanSame
<1>8. HighestDone' BY <1>5 DEF HighestDone, Repairs, RepairSteps
<1>9. InLoop BY <1>1 DEF InLoop
<1>10. EntryDone'
  <2>1. meta.entry # Nil => meta.entry \in Clean BY <1>9 DEF Sound, Repaired, EntryDone
  <2> QED BY <1>1, <1>5, <1>7, <2>1 DEF EntryDone, Repairs, RepairSteps
<1>11. LoopDone'
  <2>1. \A s \in Slots : elem[s].tids # {} =>
           s \in Clean \/ (vac.pos # Nil /\ s >= vac.pos) \/ s = e
    BY <1>9 DEF Sound, Repaired, LoopDone
  <2>2. (\A s \in Slots : elem[s].tids # {} =>
           \/ s \in Clean
           \/ vac.pos # Nil /\ s >= vac.pos
           \/ s = me[Vacuum].elt.slot /\ pc[Vacuum] \in {"check", "lock", "wantEx"} \cup Searching)'
    BY <1>1, <1>3, <1>5, <1>7, <2>1
  <2>3. ~(Repairs("loop") /\ pc[Vacuum] \notin Searching)' /\ pc'[Vacuum] # "mark"
    BY <1>5 DEF Repairs, RepairSteps
  <2> QED BY <2>2, <2>3 DEF LoopDone
<1> QED BY <1>1, <1>4, <1>5, <1>6, <1>8, <1>10, <1>11, C_Vacuum DEF PastWait, Repaired

\* The repair of an element the loop has taken begins, unless it is the entry
\* point, which is clean
LEMMA C_LoopStarts ==
  ASSUME TInv, Fresh, Steady, Sound, pc[Vacuum] \in {"lock", "wantEx"},
         StartRepair(me[Vacuum].elt, EntryPoint),
         UNCHANGED <<elem, ntup, meta, scanLock, srch, upd, vac, failed>>,
         updLock' \in {Share(updLock, Vacuum), Exclude(updLock, Vacuum)}
  PROVE  Sound'
<1> DEFINE e == me[Vacuum].elt.slot
<1>1. e \in Slots /\ e # Nil /\ me[Vacuum].elt \in Copies
  BY TidTypes DEF Steady, Entered, Alive
<1>2. /\ me'[Vacuum].elt.slot = e /\ nb'[Vacuum] = [lc \in Levels |-> {}]
      /\ pc'[Vacuum] \in {"repaired", "overwrite", "entry"}
      /\ pc'[Vacuum] = "repaired" <=> EntryPoint.slot = e
      /\ Others(Vacuum)
  BY <1>1, C_Starts DEF Others
<1>3. InLoop BY DEF InLoop
<1>4. meta.entry # Nil => meta.entry \in Clean BY <1>3 DEF Sound, Repaired, EntryDone
<1>5. pc'[Vacuum] = "repaired" => e \in Clean
  BY <1>1, <1>2, <1>4 DEF EntryPoint, NoElement
<1>6. Vacuum \in updLock'.sh \cup updLock'.ex BY DEF Share, Exclude, TInv, TypeOK, LockType
<1>7. LocksKept(Vacuum) BY VacuumProc, LocksKeptBy
<1>8. vac'.ret = "loop" BY DEF Sound, Held
<1>9. Held' /\ Pass1' BY <1>2, <1>6, <1>8 DEF Held, Repairs, Pass1
<1>10. Clean' = Clean BY CleanSame
<1>11. HighestDone' BY <1>2, <1>8 DEF HighestDone, Repairs
<1>12. EntryDone' BY <1>4, <1>8, <1>10 DEF EntryDone, Repairs
<1>13. LoopDone'
  <2>1. \A s \in Slots : elem[s].tids # {} =>
           s \in Clean \/ (vac.pos # Nil /\ s >= vac.pos) \/ s = e
    BY <1>3 DEF Sound, Repaired, LoopDone
  <2> HIDE DEF e
  <2>2. (\A s \in Slots : elem[s].tids # {} =>
           \/ s \in Clean
           \/ vac.pos # Nil /\ s >= vac.pos
           \/ s = me[Vacuum].elt.slot /\ pc[Vacuum] \in {"check", "lock", "wantEx"} \cup Searching)'
    BY <1>2, <1>5, <1>10, <2>1 DEF Searching
  <2>3. (Repairs("loop") /\ pc[Vacuum] \notin Searching => me[Vacuum].elt.slot \in Clean)'
    BY <1>2, <1>5, <1>10 DEF Searching
  <2> QED BY <1>2, <2>2, <2>3 DEF LoopDone
<1> QED BY <1>2, <1>7, <1>9, <1>11, <1>12, <1>13, C_Vacuum DEF PastWait, Repaired

\* The loop asks for the lock that the element's level needs
LEMMA C_LockForRepair == ASSUME TInv, Fresh, Steady, Sound, LockForRepair PROVE Sound'
<1>1. CASE Promotes(me[Vacuum].elt.level)
  <2>1. /\ UNCHANGED <<elem, ntup, meta, locks, me, ep, srch, nb, upd, vac, failed>>
        /\ pc[Vacuum] = "lock" /\ pc'[Vacuum] = "wantEx" /\ Others(Vacuum)
    BY <1>1, VacuumProc DEF LockForRepair, TInv, TypeOK, Others
  <2>2. LocksKept(Vacuum) BY <2>1 DEF LocksKept
  <2>3. Held' /\ Pass1' BY <2>1 DEF Sound, Held, Repairs, RepairSteps, Pass1
  <2>4. Clean' = Clean BY <2>1, CleanSame
  <2>5. HighestDone' BY <2>1 DEF HighestDone, Repairs, RepairSteps
  <2>6. InLoop BY <2>1 DEF InLoop
  <2>7. EntryDone'
    <3>1. meta.entry # Nil => meta.entry \in Clean BY <2>6 DEF Sound, Repaired, EntryDone
    <3> QED BY <2>1, <2>4, <3>1 DEF EntryDone, Repairs, RepairSteps
  <2>8. LoopDone'
    <3>1. (\A s \in Slots : elem[s].tids # {} =>
             \/ s \in Clean
             \/ vac.pos # Nil /\ s >= vac.pos
             \/ s = me[Vacuum].elt.slot /\ pc[Vacuum] \in {"check", "lock", "wantEx"} \cup Searching)'
      BY <2>1, <2>4, <2>6 DEF Sound, Repaired, LoopDone
    <3>2. ~(Repairs("loop") /\ pc[Vacuum] \notin Searching)' /\ pc'[Vacuum] # "mark"
      BY <2>1 DEF Repairs, RepairSteps
    <3> QED BY <3>1, <3>2 DEF LoopDone
  <2> QED BY <2>1, <2>2, <2>3, <2>5, <2>7, <2>8, C_Vacuum DEF PastWait, Repaired
<1>2. CASE ~Promotes(me[Vacuum].elt.level) BY <1>2, C_LoopStarts DEF LockForRepair
<1> QED BY <1>1, <1>2

\* The loop gets the exclusive lock
LEMMA C_LockExclusiveForRepair ==
  ASSUME TInv, Fresh, Steady, Sound, LockExclusiveForRepair PROVE Sound'
BY C_LoopStarts DEF LockExclusiveForRepair

\* A repair that writes neighbor tuples leaves clean what was clean, and the
\* element it repairs
LEMMA C_RepairWrite ==
  ASSUME TInv, Fresh, Sound, Others(Vacuum), UNCHANGED <<elem, meta, locks, me, vac, failed>>,
         pc[Vacuum] \in RepairSteps \ {"repaired"}, pc'[Vacuum] = "update",
         Clean \subseteq Clean', pc[Vacuum] \in Searching => me[Vacuum].elt.slot \in Clean',
         (\E G \in SUBSET Slots : Guarded(G))'
  PROVE  Sound'
<1>1. /\ \A ret : Repairs(ret)' <=> Repairs(ret)
      /\ pc[Vacuum] \notin {"idle", "remove", "hpLock", "hpCheck", "epLock", "loop", "check", "lock",
                            "wantEx", "mark", "repaired"}
      /\ pc'[Vacuum] \notin Searching
  BY DEF Repairs, RepairSteps, Searching
<1>2. InLoop' <=> InLoop BY <1>1 DEF InLoop
<1>3. \A q \in Inserters : Alone(q)' BY V_Holding
<1>4. Held' BY <1>1 DEF Sound, Held, RepairSteps
<1>5. Pass1'
  BY DEF Pass1
<1>6. PlacedClean' BY <1>1, V_Placed DEF PastWait
<1>7. HighestDone'
  <2>1. HighestDone BY DEF Sound, Repaired
  <2>2. Repairs("hp") => (vac.highest.slot # Nil => vac.highest.slot \in Clean')
    BY <1>1, <2>1 DEF HighestDone
  <2> QED BY <1>1, <2>1, <2>2 DEF HighestDone
<1>8. EntryDone'
  <2>1. EntryDone BY DEF Sound, Repaired
  <2>2. Repairs("ep") \/ InLoop => (meta.entry # Nil => meta.entry \in Clean')
    BY <1>1, <2>1 DEF EntryDone
  <2> QED BY <1>1, <1>2, <2>1, <2>2 DEF EntryDone
<1>9. LoopDone'
  <2>1. LoopDone BY DEF Sound, Repaired
  <2>2. ASSUME InLoop, NEW s \in Slots, elem[s].tids # {}
        PROVE  s \in Clean' \/ (vac.pos # Nil /\ s >= vac.pos)
    BY <1>1, <2>1, <2>2 DEF LoopDone
  <2>3. Repairs("loop") => me[Vacuum].elt.slot \in Clean' BY <2>1 DEF LoopDone
  <2> QED BY <1>1, <1>2, <2>2, <2>3 DEF LoopDone
<1>10. ScansNeverReadDeleted' BY DEF Sound, ScansNeverReadDeleted
<1> QED BY <1>3, <1>4, <1>5, <1>6, <1>7, <1>8, <1>9, <1>10 DEF Sound, Repaired

\* The neighbors an element gets in a repair are live
LEMMA C_OverwriteNeighbors == ASSUME TInv, Fresh, Sound, OverwriteNeighbors PROVE Sound'
<1>e. PICK e : e = me[Vacuum].elt.slot OBVIOUS
<1>1. /\ UNCHANGED <<elem, npages, meta, locks, me, ep, srch, vac, failed>>
      /\ pc[Vacuum] = "overwrite" /\ pc'[Vacuum] = "update"
      /\ nb'[Vacuum] = [lc \in Levels |-> {}] /\ Others(Vacuum)
  BY VacuumProc DEF OverwriteNeighbors, TInv, TypeOK, Others
<1>2. e \in Slots /\ me[Vacuum].elt.level \in Levels
  BY <1>e, <1>1, VacuumProc DEF Fresh, Repairing, RepairTarget, TInv, TypeOK, MeType, Copies
<1>3. /\ ntup'[e].level = me[Vacuum].elt.level
      /\ ntup'[e].nbrs = [lc \in Levels |-> ListOf({x.slot : x \in nb[Vacuum][lc]})]
  BY <1>e, <1>2 DEF OverwriteNeighbors, TInv, TypeOK
<1>4. \A s \in Slots : s # e => Referenced(s)' = Referenced(s)
  <2>1. \A s \in Slots : s # e => ntup'[s] = ntup[s] BY <1>e DEF OverwriteNeighbors, TInv, TypeOK
  <2> QED BY <2>1 DEF Referenced
<1>5. \A r \in Referenced(e)' : \E lc \in Levels : \E x \in nb[Vacuum][lc] : r = x.slot
  <2>1. 0..me[Vacuum].elt.level \subseteq Levels BY <1>2, ConstantsAssumption DEF Levels
  <2>2. ASSUME NEW lc \in Levels, NEW i \in Widest, ntup'[e].nbrs[lc][i] # Nil
        PROVE  \E x \in nb[Vacuum][lc] : ntup'[e].nbrs[lc][i] = x.slot
    <3>1. ntup'[e].nbrs[lc] = ListOf({x.slot : x \in nb[Vacuum][lc]}) BY <1>3
    <3> QED BY <2>2, <3>1, ChosenRange
  <2>3. ntup'[e].level = me[Vacuum].elt.level BY <1>3
  <2> QED BY <2>1, <2>2, <2>3 DEF Referenced
<1>6. \A lc \in Levels : \A x \in nb[Vacuum][lc] : elem[x.slot].tids # {}
  BY <1>1 DEF Fresh, Holds, Current
<1>7. e \in Clean' BY <1>1, <1>2, <1>5, <1>6 DEF Clean
<1>8. Clean \subseteq Clean'
  <2>1. ASSUME NEW s \in Clean, s # e PROVE s \in Clean' BY <1>1, <1>4, <2>1 DEF Clean
  <2> QED BY <1>7, <2>1
<1>9. (\E G \in SUBSET Slots : Guarded(G))'
  <2>1. PICK G \in SUBSET Slots : Guarded(G) BY DEF Sound
  <2>2. Closed(G) /\ Within(G, Vacuum) BY <2>1, VacuumProc DEF Guarded
  <2>3. Referenced(e)' \subseteq G BY <1>5, <2>2, VacuumProc DEF Within
  <2>4. \A s \in G : Referenced(s)' \subseteq G BY <1>4, <2>2, <2>3 DEF Closed
  <2>5. Closed(G)' BY <1>1, <2>2, <2>4 DEF Closed
  <2>6. Within(G, Vacuum)' BY <1>1, <2>2, VacuumProc DEF Within
  <2>7. LocksKept(Vacuum) BY <1>1 DEF LocksKept
  <2> QED BY <1>1, <2>1, <2>5, <2>6, <2>7, G_Step, VacuumProc
<1> QED BY <1>e, <1>1, <1>7, <1>8, <1>9, C_RepairWrite DEF RepairSteps

\* The element a repair is about is live, once its own neighbors are written
LEMMA RepairedAlive ==
  ASSUME TInv, Steady, Sound, pc[Vacuum] \in {"update", "loadNbrs", "write"}
  PROVE  me[Vacuum].elt.slot = Nil \/ elem[me[Vacuum].elt.slot].tids # {}
<1> DEFINE e == me[Vacuum].elt.slot
<1>1. pc[Vacuum] \in RepairSteps /\ pc[Vacuum] # "repaired" BY DEF RepairSteps
<1>2. vac.ret \in {"hp", "ep", "loop"} BY TidTypes DEF VacType
<1>3. CASE vac.ret = "hp"
  <2>1. e = vac.highest.slot BY <1>1, <1>3 DEF Sound, Repaired, HighestDone, Repairs
  <2> QED BY <1>1, <2>1 DEF Steady, Entered, Alive, RepairSteps
<1>4. CASE vac.ret = "ep"
  <2>1. e = meta.entry BY <1>1, <1>4 DEF Sound, Repaired, EntryDone, Repairs
  <2> QED BY <1>1, <1>4, <2>1 DEF Steady, Entered, Replaced
<1>5. CASE vac.ret = "loop" BY <1>1, <1>5 DEF Steady, Entered, Alive
<1> QED BY <1>2, <1>3, <1>4, <1>5

\* A repair links the element it repairs, which is live
LEMMA C_LinkRepaired == ASSUME TInv, Fresh, Steady, Sound, UpdateNeighbor(Vacuum) PROVE Sound'
<1> DEFINE e == me[Vacuum].elt.slot
<1>0. Vacuum \in Procs BY VacuumProc
<1>1. /\ UNCHANGED <<elem, meta, locks, me, srch, nb, vac, failed>>
      /\ pc[Vacuum] = "write" /\ pc'[Vacuum] = "update" /\ Others(Vacuum)
  BY <1>0 DEF UpdateNeighbor, TInv, TypeOK, Others
<1>2. e = Nil \/ (e \in Slots /\ elem[e].tids # {}) BY <1>0, <1>1, RepairedAlive, TidTypes
<1>3. \A s \in Slots : Referenced(s)' \subseteq Referenced(s) \cup ({e} \ {Nil})
  <2>1. \A s \in Slots : Referenced(s)' \subseteq Referenced(s) \cup {e} BY <1>0, UpdateAdds
  <2>2. \A s : Nil \notin Referenced(s)' BY DEF Referenced
  <2> QED BY <2>1, <2>2
<1> HIDE DEF e
<1>4. Clean \subseteq Clean' BY <1>1, <1>2, <1>3 DEF Clean
<1>5. (\E G \in SUBSET Slots : Guarded(G))'
  <2>1. PICK G \in SUBSET Slots : Guarded(G) BY DEF Sound
  <2>2. Closed(G) /\ (e # Nil => e \in G) /\ Within(G, Vacuum)
    BY <1>0, <1>2, <2>1 DEF Guarded, Closed
  <2>3. \A s \in G : Referenced(s)' \subseteq G BY <1>3, <2>2 DEF Closed
  <2>4. Closed(G)' BY <1>1, <2>2, <2>3 DEF Closed
  <2>5. Within(G, Vacuum)' BY <1>1, <2>2, VacuumProc DEF Within
  <2>6. LocksKept(Vacuum) BY <1>1 DEF LocksKept
  <2> QED BY <1>0, <1>1, <2>1, <2>4, <2>5, <2>6, G_Step
<1> QED BY <1>1, <1>4, <1>5, C_RepairWrite DEF RepairSteps, Searching

\* The end of the neighbor updates
LEMMA C_NeighborsRepaired == ASSUME TInv, Sound, NeighborsRepaired PROVE Sound'
<1>1. /\ UNCHANGED <<elem, ntup, meta, locks, me, ep, srch, nb, upd, vac, failed>>
      /\ pc[Vacuum] = "update" /\ pc'[Vacuum] = "repaired" /\ Others(Vacuum)
  BY VacuumProc DEF NeighborsRepaired, TInv, TypeOK, Others
<1>2. \A G \in SUBSET Slots : Guarded(G) => Within(G, Vacuum)'
  BY <1>1, VacuumProc DEF Guarded, Within
<1> QED BY <1>1, <1>2, C_Repair DEF RepairSteps, Searching

\* The element the loop has repaired may become the entry point: it is live and
\* clean
LEMMA C_FinishRepair == ASSUME TInv, Fresh, Steady, Sound, FinishRepair PROVE Sound'
<1>e. PICK e : e = me[Vacuum].elt.slot OBVIOUS
<1>0. vac \in VacType /\ meta \in MetaType BY TidTypes
<1>1. /\ UNCHANGED <<elem, ntup, scanLock, failed>> /\ pc[Vacuum] = "repaired"
      /\ \A q \in Procs \ {Vacuum} : pc'[q] = pc[q]
      /\ pc'[Vacuum] = IF vac.ret = "hp" THEN "epLock" ELSE "loop"
      /\ updLock' = Drop(updLock, Vacuum) /\ Reset(Vacuum)
  BY VacuumProc DEF FinishRepair, TInv, TypeOK
<1>2. /\ vac'.highest = vac.highest /\ vac'.ret = "loop"
      /\ vac'.pos = IF vac.ret = "ep" THEN 1 ELSE vac.pos
  BY <1>0 DEF FinishRepair, VacType
<1>3. meta'.entry = meta.entry \/ (vac.ret = "loop" /\ meta'.entry = e)
  BY <1>0, <1>e DEF FinishRepair, EntryGreater, MetaType
<1>4. Repairs(vac.ret) /\ pc[Vacuum] \notin Searching /\ vac.ret \in {"hp", "ep", "loop"}
  BY <1>0, <1>1 DEF Repairs, RepairSteps, Searching, VacType
<1>5. vac.ret = "loop" => e \in Clean /\ e \in Slots /\ e # Nil /\ elem[e].tids # {}
  <2>1. vac.ret = "loop" => e \in Clean BY <1>e, <1>4 DEF Sound, Repaired, LoopDone
  <2>2. vac.ret = "loop" => Alive(me[Vacuum].elt) BY <1>4 DEF Steady, Entered, Repairs
  <2> QED BY <1>e, <2>1, <2>2, TidTypes DEF Alive
<1>6. Others(Vacuum) BY <1>1, VacuumProc, OthersReset
<1>7. LocksKept(Vacuum) BY <1>1, VacuumProc, LocksKeptBy
<1>8. Clean' = Clean BY <1>1, CleanSame
<1>9. pc'[Vacuum] \in {"epLock", "loop"} /\ (pc'[Vacuum] = "loop" <=> vac.ret # "hp") BY <1>1
<1>10. Held' /\ Pass1' BY <1>2, <1>9 DEF Held, Repairs, RepairSteps, Pass1
<1>11. PlacedClean' BY <1>1, <1>6, <1>8, V_Placed DEF PastWait
<1>12. HighestDone'
  <2>1. vac.ret = "hp" => (vac.highest.slot # Nil => vac.highest.slot \in Clean)
    BY <1>4 DEF Sound, Repaired, HighestDone
  <2>2. ~Repairs("hp")' /\ pc'[Vacuum] \notin {"hpLock", "hpCheck"}
    BY <1>9 DEF Repairs, RepairSteps
  <2> QED BY <1>2, <1>8, <1>9, <2>1, <2>2 DEF HighestDone
<1>13. EntryDone'
  <2>1. vac.ret # "hp" => (meta.entry # Nil => meta.entry \in Clean)
    BY <1>4 DEF Sound, Repaired, EntryDone, InLoop
  <2>2. vac.ret # "hp" => (meta'.entry # Nil => meta'.entry \in Clean)
    BY <1>3, <1>5, <2>1
  <2>3. ~Repairs("ep")' /\ (InLoop' => vac.ret # "hp")
    BY <1>9 DEF Repairs, RepairSteps, InLoop
  <2> QED BY <1>8, <2>2, <2>3 DEF EntryDone
<1>14. LoopDone'
  <2>1. ASSUME vac.ret # "hp", NEW s \in Slots, elem[s].tids # {}
        PROVE  s \in Clean \/ (vac'.pos # Nil /\ s >= vac'.pos)
    <3>1. CASE vac.ret = "ep"
      <4>1. vac'.pos = 1 /\ s >= 1 /\ s \in Nat BY <1>2, <3>1, ConstantsAssumption DEF Slots
      <4> QED BY <4>1 DEF Nil
    <3>2. CASE vac.ret = "loop"
      <4>1. vac'.pos = vac.pos BY <1>2, <3>2
      <4>2. s \in Clean \/ (vac.pos # Nil /\ s >= vac.pos) \/ s = e
        BY <1>e, <1>4, <2>1, <3>2 DEF Sound, Repaired, LoopDone, InLoop
      <4> QED BY <1>5, <3>2, <4>1, <4>2
    <3> QED BY <1>4, <2>1, <3>1, <3>2
  <2>2. ~Repairs("loop")' /\ (InLoop' => vac.ret # "hp") /\ pc'[Vacuum] # "mark"
    BY <1>9 DEF Repairs, RepairSteps, InLoop
  <2>3. (InLoop => \A s \in Slots : elem[s].tids # {} =>
           \/ s \in Clean
           \/ vac.pos # Nil /\ s >= vac.pos
           \/ s = me[Vacuum].elt.slot /\ pc[Vacuum] \in {"check", "lock", "wantEx"} \cup Searching)'
    BY <1>1, <1>8, <2>1, <2>2
  <2> QED BY <2>2, <2>3 DEF LoopDone
<1>15. \A q \in Inserters : Alone(q)'
  <2>1. meta'.entry = Nil => meta.entry = Nil BY <1>3, <1>5
  <2> QED BY <1>1, <1>6, <2>1, V_Holding DEF RepairSteps
<1>16. (\E G \in SUBSET Slots : Guarded(G))'
  <2>1. PICK G \in SUBSET Slots : Guarded(G) BY DEF Sound
  <2>2. Closed(G) BY <2>1 DEF Guarded
  <2>3. meta'.entry # Nil => meta'.entry \in G BY <1>3, <1>5, <2>2 DEF Closed
  <2>4. elem' = elem /\ ntup' = ntup /\ pc'[Vacuum] # "mark" BY <1>1, <1>9
  <2>5. Closed(G)' BY <2>2, <2>3, <2>4, ClosedEntry
  <2>6. Within(G, Vacuum)' BY <1>1, VacuumProc, ResetWithin
  <2> QED BY <1>6, <1>7, <2>1, <2>5, <2>6, G_Step, VacuumProc
<1>17. ScansNeverReadDeleted' BY <1>1 DEF Sound, ScansNeverReadDeleted
<1> QED BY <1>10, <1>11, <1>12, <1>13, <1>14, <1>15, <1>16, <1>17 DEF Sound, Repaired

\* At the end of the loop the live elements are a part of the graph of their
\* own, and no scan remembers another
LEMMA C_WaitForScans == ASSUME TInv, Fresh, Steady, Sound, WaitForScans PROVE Sound'
<1>1. /\ UNCHANGED <<elem, ntup, meta, locks, me, ep, srch, nb, upd, failed>>
      /\ pc[Vacuum] = "loop" /\ pc'[Vacuum] = "mark" /\ vac.pos = Nil /\ Others(Vacuum)
      /\ scanLock.sh = {}
  BY VacuumProc DEF WaitForScans, TInv, TypeOK, Others, Free
<1>2. LocksKept(Vacuum) BY <1>1 DEF LocksKept
<1>3. (\A s : Referenced(s)' = Referenced(s)) /\ Clean' = Clean BY <1>1, CleanSame
<1>4. \A q \in Inserters : Alone(q)' BY <1>1, <1>2, V_Alone
<1>5. Held' /\ Pass1' BY <1>1 DEF Held, Repairs, RepairSteps, Pass1
<1>6. PlacedClean' BY <1>1, <1>3, V_Placed DEF PastWait
<1>7. HighestDone' /\ EntryDone'
  BY <1>1 DEF HighestDone, EntryDone, Repairs, RepairSteps, InLoop
<1>8. ASSUME NEW s \in Slots, elem[s].tids # {} PROVE s \in Clean
  BY <1>1, <1>8 DEF Sound, Repaired, LoopDone, InLoop, Searching
<1>9. LoopDone' BY <1>1, <1>3, <1>8 DEF LoopDone, Repairs, RepairSteps, InLoop
<1>10. (\E G \in SUBSET Slots : Guarded(G))'
  <2> DEFINE H == {s \in Slots : elem[s].tids # {}}
  <2>h. PICK G \in SUBSET Slots : G = H OBVIOUS
  <2>1. \A s : s \in G <=> s \in Slots /\ elem[s].tids # {} BY <2>h
  <2> HIDE DEF H
  <2>2. \A s \in G : Referenced(s) \subseteq G
    <3>1. ASSUME NEW s \in G, NEW r \in Referenced(s) PROVE r \in G
      <4>1. s \in Slots /\ s \in Clean BY <1>8, <2>1, <3>1
      <4>2. r \in Slots /\ elem[r].tids # {} BY <3>1, <4>1, GraphTypes DEF Clean
      <4> QED BY <2>1, <4>2
    <3> QED BY <3>1
  <2>3. meta.entry # Nil => meta.entry \in G
    BY <1>1, <2>1, GraphTypes DEF Steady, Entered, Replaced
  <2>4. \A s \in G : ~elem[s].deleted BY <2>1, LiveSlots
  <2>5. Closed(G)' BY <1>1, <1>3, <2>1, <2>2, <2>3, <2>4 DEF Closed
  <2>6. ASSUME NEW p \in Scanners PROVE Within(G, p)'
    <3>1. p \in Procs /\ p # Vacuum BY VacuumProc DEF Procs
    <3>2. PICK K \in SUBSET Slots : Guarded(K) BY DEF Sound
    <3>3. pc[p] = "idle" /\ srch[p] = NoSearch BY <1>1, <3>1, <3>2 DEF Guarded, Within
    <3>4. pc'[p] = "idle" /\ srch'[p] = NoSearch BY <1>1, <3>1, <3>3 DEF Others
    <3> QED BY <3>4, ConstantsAssumption DEF Within, NoSearch
  <2>7. ASSUME NEW p \in Inserters \cup {Vacuum} PROVE Within(G, p)'
    <3>1. p \in Procs /\ p \notin Scanners BY VacuumProc, ConstantsAssumption DEF Procs
    <3>2. \A x \in Copies : Current(x) => x.slot \in G
      BY <1>1, <2>1 DEF Current, Copies
    <3>3. /\ srch[p].w \subseteq Copies /\ \A lc \in Levels : nb[p][lc] \subseteq Copies
      BY <3>1 DEF TInv, TypeOK, SearchType
    <3>4. \A x \in srch[p].w : x.live => x.slot \in G BY <3>2, <3>3 DEF Fresh, Holds
    <3>5. \A lc \in Levels : \A x \in nb[p][lc] : x.slot \in G BY <3>2, <3>3 DEF Fresh, Holds
    <3> QED BY <1>1, <3>1, <3>4, <3>5 DEF Within
  <2>8. \A p \in Procs : Within(G, p)' BY <2>6, <2>7 DEF Procs
  <2>9. Guarded(G)' BY <2>5, <2>8 DEF Guarded
  <2> QED BY <2>9
<1>11. ScansNeverReadDeleted' BY <1>1 DEF Sound, ScansNeverReadDeleted
<1> QED BY <1>4, <1>5, <1>6, <1>7, <1>9, <1>10, <1>11 DEF Sound, Repaired

\* What MarkDeleted deletes is not in that part
LEMMA C_MarkDeleted == ASSUME TInv, Fresh, Steady, Sound, MarkDeleted PROVE Sound'
<1>s. PICK s : s = vac.pos OBVIOUS
<1>1. /\ UNCHANGED <<meta, locks, pc, me, ep, srch, nb, upd, failed>> /\ pc[Vacuum] = "mark"
      /\ s \in Slots /\ Others(Vacuum)
  BY <1>s, TidTypes DEF MarkDeleted, Others
<1>2. PICK v : \/ elem' = elem /\ ntup' = ntup
               \/ /\ elem[s].tids = {}
                  /\ elem' = [elem EXCEPT ![s].deleted = TRUE, ![s].version = v]
                  /\ ntup' = [ntup EXCEPT ![s].nbrs = NoNeighbors, ![s].version = v]
  BY <1>s DEF MarkDeleted
<1>3. /\ elem \in [Slots -> ElemType] /\ ntup \in [Slots -> NtupType]
      /\ elem[s] \in ElemType /\ ntup[s] \in NtupType
  BY <1>1 DEF TInv, TypeOK
<1>4. /\ \A q \in Slots : elem'[q].tids = elem[q].tids
      /\ \A q \in Slots : elem[q].tids # {} => elem'[q].deleted = elem[q].deleted
      /\ \A q \in Slots : \/ ntup'[q] = ntup[q]
                          \/ ntup'[q].nbrs = NoNeighbors /\ ntup'[q].level = ntup[q].level
  <2>1. CASE elem' = elem /\ ntup' = ntup BY <2>1
  <2>2. CASE ~(elem' = elem /\ ntup' = ntup)
    <3>1. /\ elem'[s] = [[elem[s] EXCEPT !.deleted = TRUE] EXCEPT !.version = v]
          /\ ntup'[s] = [[ntup[s] EXCEPT !.nbrs = NoNeighbors] EXCEPT !.version = v]
          /\ elem[s].tids = {}
          /\ \A q \in Slots : q # s => elem'[q] = elem[q] /\ ntup'[q] = ntup[q]
      BY <1>1, <1>2, <1>3, <2>2
    <3>2. elem'[s].tids = elem[s].tids BY <1>3, <3>1 DEF ElemType
    <3>3. ntup'[s].nbrs = NoNeighbors /\ ntup'[s].level = ntup[s].level
      BY <1>3, <3>1 DEF NtupType
    <3> QED BY <3>1, <3>2, <3>3
  <2> QED BY <2>1, <2>2
<1>5. ASSUME NEW q \in Slots PROVE Referenced(q)' \subseteq Referenced(q)
  <2>1. CASE ntup'[q] = ntup[q] BY <2>1 DEF Referenced
  <2>2. CASE ntup'[q].nbrs = NoNeighbors /\ ntup'[q].level = ntup[q].level
    <3>1. ntup[q].level \in Levels BY DEF TInv, TypeOK, NtupType
    <3>2. 0..ntup[q].level \subseteq Levels BY <3>1, ConstantsAssumption DEF Levels
    <3>3. \A lc \in 0..ntup[q].level, i \in Widest : ntup'[q].nbrs[lc][i] = Nil
      BY <2>2, <3>2 DEF NoNeighbors
    <3> QED BY <2>2, <3>3 DEF Referenced
  <2> QED BY <1>4, <2>1, <2>2
<1>6. Clean \subseteq Clean'
  <2>1. ASSUME NEW q \in Clean PROVE q \in Clean'
    <3>1. q \in Slots /\ Referenced(q)' \subseteq Slots BY <1>5, <2>1, GraphTypes DEF Clean
    <3> QED BY <1>4, <1>5, <2>1, <3>1 DEF Clean
  <2> QED BY <2>1
<1>7. \A q \in Inserters : Alone(q)'
  <2>1. ASSUME NEW q \in Inserters, pc[q] \in Placing, meta.entry = Nil
        PROVE  Referenced(me[q].elt.slot)' \subseteq Referenced(me[q].elt.slot)
    <3>1. me[q].elt.slot \in Slots
      BY <2>1, TidTypes DEF Steady, Inserting, Placing
    <3> QED BY <1>1, <1>5, <3>1 DEF Referenced
  <2> QED BY <1>1, <2>1, AloneKept DEF Sound
<1>8. Held' /\ Pass1' BY <1>1 DEF Held, Repairs, RepairSteps, Pass1
<1>9. PlacedClean' BY <1>1, <1>6, V_Placed DEF PastWait
<1>10. HighestDone' /\ EntryDone'
  BY <1>1 DEF HighestDone, EntryDone, Repairs, RepairSteps, InLoop
<1>11. LoopDone'
  <2>1. \A q \in Slots : elem'[q].tids # {} => q \in Clean'
    BY <1>1, <1>4, <1>6 DEF Sound, Repaired, LoopDone
  <2> QED BY <1>1, <2>1 DEF LoopDone, Repairs, RepairSteps, InLoop
<1>12. (\E G \in SUBSET Slots : Guarded(G))'
  <2>1. PICK G \in SUBSET Slots : Guarded(G) BY DEF Sound
  <2>2. Closed(G) /\ Within(G, Vacuum) BY <2>1, VacuumProc DEF Guarded
  <2>3. Closed(G)' BY <1>1, <1>4, <1>5, <2>2 DEF Closed
  <2>4. Within(G, Vacuum)' BY <1>1, <2>2, VacuumProc DEF Within
  <2>5. LocksKept(Vacuum) BY <1>1 DEF LocksKept
  <2> QED BY <1>1, <2>1, <2>3, <2>4, <2>5, G_Step, VacuumProc
<1>13. ScansNeverReadDeleted' BY <1>1 DEF Sound, ScansNeverReadDeleted
<1> QED BY <1>7, <1>8, <1>9, <1>10, <1>11, <1>12, <1>13 DEF Sound, Repaired

\* The end of VACUUM: pages that were deleted stay so
LEMMA C_EndVacuum == ASSUME TInv, Sound, EndVacuum PROVE Sound'
<1>1. /\ UNCHANGED <<elem, ntup, locks, me, ep, srch, nb, upd>> /\ failed' \subseteq failed
      /\ pc'[Vacuum] = "idle" /\ meta'.entry = meta.entry /\ Others(Vacuum)
  BY VacuumProc DEF EndVacuum, TInv, TypeOK, MetaType, Others
<1>2. LocksKept(Vacuum) BY <1>1 DEF LocksKept
<1>3. Held' /\ Pass1' BY <1>1 DEF Held, Repairs, RepairSteps, Pass1
<1>4. Repaired'
  BY <1>1 DEF Repaired, HighestDone, EntryDone, LoopDone, Repairs, RepairSteps, InLoop
<1> QED BY <1>1, <1>2, <1>3, <1>4, C_Vacuum DEF PastWait

\* Every step of a search keeps scans in the graph
LEMMA C_SearchStep ==
  ASSUME TInv, Fresh, Sound, NEW p \in Procs, SearchStep(p) PROVE Sound'
BY C_EntryCandidate, C_ExpandCandidate, C_LoadUnvisited, C_DescendLayer, C_FinishLayer
   DEF SearchStep

\* So does every step of a neighbor update
LEMMA C_UpdateStep ==
  ASSUME TInv, Fresh, Steady, Sound, NEW p \in Procs, UpdateStep(p) PROVE Sound'
<1>1. CASE ReadNeighborList(p) \/ LoadElementForInsert(p)
  BY <1>1, C_ReadNeighborList, C_LoadElementForInsert
<1>2. CASE UpdateNeighbor(p)
  <2>1. pc[p] = "write" BY <1>2 DEF UpdateNeighbor
  <2>2. p \in Inserters \cup {Vacuum} BY <2>1, NotScanner
  <2> QED BY <1>2, <2>2, C_LinkInserted, C_LinkRepaired
<1> QED BY <1>1, <1>2 DEF UpdateStep

\* Every step that leaves the entry point while VACUUM removes heap TIDs
LEMMA C_Next ==
  ASSUME TInv, Fresh, Steady, Sound, [Next]_vars, [Stays]_vars PROVE Sound'
<1>1. CASE UNCHANGED vars BY <1>1, C_Still DEF vars
<1>2. CASE Next /\ Stays
  <2>1. ASSUME NEW p \in Inserters, InsertStep(p) PROVE Sound'
    <3>1. p \in Procs BY DEF Procs
    <3> QED
      BY <1>2, <2>1, <3>1, C_LockForInsert, C_SearchStep, C_GiveUpDuplicates, C_AddDuplicate,
         C_ReplaceDeleted, C_NextPage, C_AppendPage, C_UpdateInsertPage, C_UpdateStep,
         C_FinishInsert DEF InsertStep
  <2>2. ASSUME NEW p \in Inserters, NEW t \in Tids, NEW l \in Levels, BeginInsert(p, t, l)
        PROVE  Sound'
    BY <2>2, C_BeginInsert
  <2>3. CASE VacuumStep
    BY <2>3, VacuumProc, C_RemoveHeapTids, C_WaitForInserts, C_LockHighest, C_CheckHighest,
       C_LockEntryPoint, C_LoadForRepair, C_CheckElement, C_LockForRepair,
       C_LockExclusiveForRepair, C_SearchStep, C_OverwriteNeighbors, C_UpdateStep,
       C_NeighborsRepaired, C_FinishRepair, C_WaitForScans, C_MarkDeleted, C_EndVacuum
       DEF VacuumStep
  <2>4. CASE BeginVacuum BY <2>4, C_BeginVacuum
  <2>5. ASSUME NEW p \in Scanners, ScanStep(p) \/ BeginScan(p) PROVE Sound'
    <3>1. p \in Procs BY DEF Procs
    <3> QED BY <2>5, <3>1, C_SearchStep, C_EndScan, C_BeginScan DEF ScanStep
  <2>6. ASSUME NEW t \in Tids, RowDies(t) PROVE Sound' BY <2>6, C_Still DEF RowDies
  <2>7. ASSUME NEW p \in Procs, Cancel(p) PROVE Sound' BY <2>7, C_Cancel
  <2> QED BY <1>2, <2>1, <2>2, <2>3, <2>4, <2>5, <2>6, <2>7 DEF Next
<1> QED BY <1>1, <1>2

\* The pages CREATE INDEX writes are the graph to begin with
LEMMA C_Init == Init => Sound
<1> SUFFICES ASSUME Init PROVE Sound OBVIOUS
<1>0. TInv /\ Fresh BY T_Init, F_Init
<1>1. \A p \in Procs : pc[p] = "idle" /\ srch[p] = NoSearch /\ nb[p] = [lc \in Levels |-> {}]
  BY DEF Init
<1>2. pc[Vacuum] = "idle" BY <1>1, VacuumProc
<1>3. Held /\ Pass1 /\ PlacedClean
  BY <1>2 DEF Held, Repairs, RepairSteps, Pass1, PlacedClean, PastWait
<1>4. Repaired
  BY <1>2 DEF Repaired, HighestDone, EntryDone, LoopDone, Repairs, RepairSteps, InLoop
<1>5. \A p \in Inserters : Alone(p) BY <1>1 DEF Alone, Procs
<1>6. ScansNeverReadDeleted BY DEF Init, ScansNeverReadDeleted
<1>7. \E G \in SUBSET Slots : Guarded(G)
  <2> DEFINE H == {s \in Slots : InChain(s)}
  <2>h. PICK G \in SUBSET Slots : G = H OBVIOUS
  <2>1. \A s : s \in G <=> s \in Slots /\ InChain(s) BY <2>h
  <2> HIDE DEF H
  <2>2. \A s \in Slots : elem[s].tids # {} => s \in G
    BY <2>1 DEF Init, NullElem, InChain
  <2>3. \A s \in Slots : ~elem[s].deleted BY DEF Init, NullElem
  <2>4. \A s \in G : Referenced(s) \subseteq G BY <1>0, <2>1, GraphTypes, ReferencedInChain
  <2>5. meta.entry # Nil => meta.entry \in G
    BY <1>0, <2>1, GraphTypes DEF Fresh, Bounded
  <2>6. Closed(G) BY <1>2, <2>2, <2>3, <2>4, <2>5 DEF Closed
  <2>7. \A p \in Procs : Within(G, p) BY <1>1 DEF Within, NoSearch
  <2> QED BY <2>6, <2>7 DEF Guarded
<1> QED BY <1>3, <1>4, <1>5, <1>6, <1>7 DEF Sound

\* Sound is an invariant of the behaviours in which no insert is promoted over
\* an entry point while VACUUM removes heap TIDs
LEMMA AlwaysSound == Spec /\ EntryStays => []Sound
<1>1. Coherent /\ Steady /\ Sound /\ [Next]_vars /\ [Stays]_vars => Sound'
  BY C_Next DEF Coherent, TInv
<1> QED BY <1>1, C_Init, AlwaysCoherent, AlwaysSteady, PTL DEF Spec, EntryStays

\* When MarkDeleted has taken an element, no live element has it as a neighbor:
\* "the graph has been repaired", whichever inserts went on meanwhile
THEOREM RepairComplete == Spec /\ EntryStays => []DeletedUnreferenced
<1>1. ASSUME TInv, Sound PROVE DeletedUnreferenced
  <2>1. PICK G \in SUBSET Slots : Guarded(G) BY <1>1 DEF Sound
  <2> QED BY <2>1 DEF Guarded, Closed, DeletedUnreferenced
<1>2. Coherent /\ Sound => DeletedUnreferenced BY <1>1 DEF Coherent, TInv
<1> QED BY <1>2, AlwaysSound, AlwaysCoherent, PTL

\* "Scans after this point will not [contain tuples about to be deleted]": no
\* scan computes a distance to a vector MarkDeleted has zeroed
THEOREM ScansSafe == Spec /\ EntryStays => []ScansNeverReadDeleted
<1>1. Sound => ScansNeverReadDeleted BY DEF Sound
<1> QED BY <1>1, AlwaysSound, PTL
=============================================================================
