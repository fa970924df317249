------------------------- MODULE IvfflatIndexProofs -------------------------
(***************************************************************************)
(* Proofs about IvfflatIndex, for every number of backends, rows, lists    *)
(* and pages: no page gets more tuples than fit, and no page ever serves   *)
(* two lists.  One lemma per action, S_<action> for the types and what     *)
(* steps under way rely on, O_<action> for the owners of the pages.        *)
(***************************************************************************)
EXTENDS IvfflatIndex, NatOrder, TLAPS, FiniteSetTheorems

\* Only pages of the relation are linked, listed or remembered, and pages it
\* has not got yet are empty
Bounded ==
  /\ \A b \in Blocks : /\ page[b].next <= nblocks
                       /\ b > nblocks => page[b].tids = {} /\ page[b].next = Nil
  /\ \A l \in Lists : list[l].start <= nblocks /\ list[l].insert <= nblocks
  /\ \A p \in Inserters : ins[p].cur <= nblocks /\ ins[p].orig <= nblocks
  /\ vac.op.cur <= nblocks /\ vac.op.insert <= nblocks

\* What an insert under way and VACUUM follow is there; a page that was just
\* appended is empty and belongs to one insert
InsertReady(p) ==
  /\ pc[p] \in {"idle", "walk", "fill", "setList"}
  /\ pc[p] # "idle" => /\ ins[p].tid \in Indexed /\ ins[p].list = ListOf(ins[p].tid)
                       /\ ins[p].cur # Nil
  /\ pc[p] = "fill" => page[ins[p].cur].tids = {}
Ready ==
  /\ \A p \in Inserters : InsertReady(p)
  /\ \A p, q \in Inserters :
       p # q /\ pc[p] = "fill" /\ pc[q] = "fill" => ins[p].cur # ins[q].cur
  /\ pc[Vacuum] \in {"idle", "page"}
  /\ pc[Vacuum] = "page" => vac.op.list # Nil

Sound == TypeOK /\ Bounded /\ Ready

\* The owners of the pages own what steps under way remember, too
Owned(o) ==
  /\ Apart(o)
  /\ \A p \in Inserters : pc[p] # "idle" => Owns(o, ins[p].cur, ins[p].list)
  /\ pc[Vacuum] = "page" => /\ Owns(o, vac.op.cur, vac.op.list)
                            /\ Owns(o, vac.op.insert, vac.op.list)
OwnersExist == \E o \in [Blocks -> Lists] : Owned(o)

-----------------------------------------------------------------------------
(* Choices have an outcome.                                                *)

\* FindInsertPage and AddTupleToSort find a list for every row
LEMMA ListOfType ==
  ASSUME NEW t \in Tids PROVE ListOf(t) \in Lists
<1>1. /\ TidDist[t] \in [Lists -> Nat] /\ NLists \in Nat /\ 1 \in Lists
      /\ \A l \in Lists : l \in Nat
  BY ConstantsAssumption DEF Lists
<1> DEFINE d == TidDist[t]
           D == {d[l] : l \in Lists}
<1>2. D \subseteq Nat /\ D # {} BY <1>1
<1>3. PICK m \in D : \A y \in D : m <= y BY ONLY <1>2, Least
<1> DEFINE F == {l \in Lists : d[l] = m}
<1>4. F \subseteq Nat /\ F # {} BY <1>1, <1>3
<1>5. PICK l \in F : \A y \in F : l <= y BY ONLY <1>4, Least
<1>6. ASSUME NEW k \in Lists PROVE d[l] <= d[k] /\ (k < l => d[l] < d[k])
  <2>1. m <= d[k] /\ d[l] = m /\ d[k] \in Nat /\ m \in Nat /\ l \in Nat /\ k \in Nat
    BY <1>1, <1>2, <1>3, <1>5
  <2>2. k < l => d[k] # m BY <1>5, <2>1
  <2> HIDE DEF d
  <2> QED BY <2>1, <2>2
<1>7. \E x \in Lists : \A k \in Lists :
        /\ TidDist[t][x] <= TidDist[t][k]
        /\ k < x => TidDist[t][x] < TidDist[t][k]
  BY <1>5, <1>6
<1> QED BY <1>7 DEF ListOf

\* InsertTuples gives every list a first and a last page
LEMMA BuiltPages ==
  ASSUME NEW l \in Lists
  PROVE  /\ BuiltStart(l) \in 1..NBuilt /\ BuiltOwner[BuiltStart(l)] = l
         /\ \A c \in 1..NBuilt : BuiltOwner[c] = l => BuiltStart(l) <= c
         /\ BuiltInsert(l) \in 1..NBuilt /\ BuiltOwner[BuiltInsert(l)] = l
<1> DEFINE P == {b \in 1..NBuilt : BuiltOwner[b] = l}
<1>1. NBuilt \in Nat /\ P # {} BY ConstantsAssumption DEF Blocks
<1>2. P \subseteq Nat /\ P \subseteq 0..NBuilt BY <1>1
<1>3. PICK s \in P : \A y \in P : s <= y BY ONLY <1>1, <1>2, Least
<1>4. PICK i \in P : \A y \in P : y <= i BY ONLY <1>1, <1>2, Greatest
<1>5. \E b \in 1..NBuilt : /\ BuiltOwner[b] = l
                           /\ \A c \in 1..NBuilt : BuiltOwner[c] = l => b <= c
  BY <1>3
<1>6. \E b \in 1..NBuilt : /\ BuiltOwner[b] = l
                           /\ \A c \in 1..NBuilt : BuiltOwner[c] = l => c <= b
  BY <1>4
<1> QED BY <1>5, <1>6 DEF BuiltStart, BuiltInsert

-----------------------------------------------------------------------------
(* Types, and what steps under way rely on.                                *)

USE DEF Goto

\* The constants of the type invariant
LEMMA Basics ==
  /\ NBlocks \in Nat /\ NLists \in Nat /\ 1 \in Lists /\ PageCap \in Nat /\ 1 <= PageCap
  /\ Indexed \subseteq Tids /\ IsFiniteSet(Tids)
  /\ NoInsert \in InsType /\ NoVacuum \in VacType
  /\ Inserters \subseteq Procs /\ Scanners \subseteq Procs /\ Vacuum \in Procs
  /\ Vacuum \notin Inserters /\ Inserters \cap Scanners = {} /\ Vacuum \notin Scanners
BY ConstantsAssumption DEF Lists, NoInsert, InsType, NoVacuum, VacType, Procs

\* A page has room for one more tuple if Room says so, and for the tuples
\* VACUUM leaves
LEMMA Fits ==
  ASSUME NEW S \in SUBSET Tids, NEW t \in Tids, Cardinality(S) <= PageCap
  PROVE  /\ Cardinality(S) < PageCap => Cardinality(S \cup {t}) <= PageCap
         /\ Cardinality({t}) <= PageCap
         /\ \A R \in SUBSET S : Cardinality(R) <= PageCap
<1>1. IsFiniteSet(S) BY Basics, FS_Subset
<1>2. Cardinality(S) \in Nat BY <1>1, FS_CardinalityType
<1>3. Cardinality(S \cup {t}) <= Cardinality(S) + 1 BY <1>1, <1>2, FS_AddElement
<1>4. ASSUME NEW R \in SUBSET S PROVE Cardinality(R) <= PageCap
  <2>1. IsFiniteSet(R) /\ Cardinality(R) <= Cardinality(S) BY <1>1, FS_Subset
  <2>2. Cardinality(R) \in Nat BY <2>1, FS_CardinalityType
  <2> QED BY <1>2, <2>1, <2>2, Basics
<1>5. Cardinality({t}) <= PageCap
  <2>1. Cardinality({t}) = 1 BY FS_Singleton
  <2> QED BY <2>1, Basics
<1>6. Cardinality(S \cup {t}) \in Nat BY <1>1, FS_AddElement, FS_CardinalityType
<1> QED BY <1>2, <1>3, <1>4, <1>5, <1>6, Basics

\* Steps that write no page, list or heap state of their own
LEMMA S_Local ==
  ASSUME Sound, UNCHANGED <<page, nblocks, list, heap, ins, vac, cancels>>,
         NEW p \in Scanners,
         NEW x \in {"idle", "list", "page", "emit", "end"}, pc' = [pc EXCEPT ![p] = x]
  PROVE  Sound'
<1>1. p \in Procs /\ p # Vacuum /\ p \notin Inserters BY Basics
<1>2. TypeOK' BY <1>1 DEF Sound, TypeOK
<1>3. Bounded' BY DEF Sound, Bounded
<1>4. \A q \in Inserters : pc'[q] = pc[q] BY <1>1, Basics DEF Sound, TypeOK
<1>5. pc'[Vacuum] = pc[Vacuum] BY <1>1, Basics DEF Sound, TypeOK
<1>6. Ready' BY <1>4, <1>5 DEF Sound, Ready, InsertReady
<1> QED BY <1>2, <1>3, <1>6 DEF Sound

\* Nothing to index, or FindInsertPage
LEMMA S_BeginInsert ==
  ASSUME Sound, NEW p \in Inserters, NEW t \in Tids, BeginInsert(p, t) PROVE Sound'
<1> USE Basics
<1>1. CASE t \notin Indexed
  <2>1. heap' = [heap EXCEPT ![t] = "live"] /\ UNCHANGED <<page, nblocks, list, pc, ins, vac, cancels>>
    BY <1>1 DEF BeginInsert
  <2>2. TypeOK' BY <2>1 DEF Sound, TypeOK
  <2> QED BY <2>1, <2>2 DEF Sound, Bounded, Ready, InsertReady
<1>2. CASE t \in Indexed
  <2> DEFINE r == [tid |-> t, list |-> ListOf(t),
                   cur |-> list[ListOf(t)].insert, orig |-> list[ListOf(t)].insert]
  <2>1. /\ ListOf(t) \in Lists /\ list[ListOf(t)].insert \in Blocks
        /\ list[ListOf(t)].insert <= nblocks
    BY ListOfType DEF Sound, TypeOK, Bounded
  <2>2. r \in InsType BY <2>1 DEF InsType
  <2>3. /\ r.tid = t /\ r.list = ListOf(t) /\ r.cur # Nil /\ r.cur <= nblocks
        /\ r.orig <= nblocks
    BY <2>1 DEF Blocks, Nil
  <2>4. /\ heap' = [heap EXCEPT ![t] = "inserting"] /\ ins' = [ins EXCEPT ![p] = r]
        /\ pc' = [pc EXCEPT ![p] = "walk"]
        /\ UNCHANGED <<page, nblocks, list, vac, cancels>>
    BY <1>2 DEF BeginInsert
  <2> HIDE DEF r
  <2>5. TypeOK' BY <2>2, <2>4 DEF Sound, TypeOK
  <2>6. /\ ins'[p] = r /\ pc'[p] = "walk" /\ pc'[Vacuum] = pc[Vacuum]
        /\ \A q \in Inserters \ {p} : ins'[q] = ins[q] /\ pc'[q] = pc[q]
    BY <2>4 DEF Sound, TypeOK
  <2>7. Bounded' BY <2>3, <2>4, <2>6 DEF Sound, Bounded
  <2>8. ASSUME NEW q \in Inserters PROVE InsertReady(q)'
    <3>1. InsertReady(q) BY DEF Sound, Ready
    <3>2. CASE q = p BY <1>2, <2>3, <2>6, <3>2 DEF InsertReady
    <3>3. CASE q # p BY <2>4, <2>6, <3>1, <3>3 DEF InsertReady
    <3> QED BY <3>2, <3>3
  <2>9. Ready' BY <2>4, <2>6, <2>8 DEF Sound, Ready
  <2> QED BY <2>5, <2>7, <2>9 DEF Sound
<1> QED BY <1>1, <1>2

\* The end of an insert, with or without an update of the list
LEMMA S_EndInsert ==
  ASSUME Sound, NEW p \in Inserters, EndInsert(p),
         page' \in [Blocks -> PageType],
         \A b \in Blocks : Cardinality(page'[b].tids) <= PageCap,
         \A b \in Blocks : /\ page'[b].next <= nblocks
                           /\ b > nblocks => page'[b].tids = {} /\ page'[b].next = Nil,
         \A q \in Inserters : q # p /\ pc[q] = "fill" =>
            page'[ins[q].cur].tids = page[ins[q].cur].tids,
         list' \in [Lists -> [start : Blocks, insert : Blocks]],
         \A l \in Lists : list'[l].start <= nblocks /\ list'[l].insert <= nblocks,
         UNCHANGED <<nblocks, vac, cancels>>
  PROVE  Sound'
<1> USE Basics
<1>1. /\ pc' = [pc EXCEPT ![p] = "idle"] /\ ins' = [ins EXCEPT ![p] = NoInsert]
      /\ heap' = [heap EXCEPT ![ins[p].tid] = "live"]
  BY DEF EndInsert
<1>2. TypeOK' BY <1>1 DEF Sound, TypeOK
<1>3. NoInsert.cur <= nblocks /\ NoInsert.orig <= nblocks
  BY DEF NoInsert, Nil, Sound, TypeOK, Blocks
<1>4. /\ ins'[p] = NoInsert /\ pc'[p] = "idle" /\ pc'[Vacuum] = pc[Vacuum]
      /\ \A q \in Inserters \ {p} : ins'[q] = ins[q] /\ pc'[q] = pc[q]
  BY <1>1 DEF Sound, TypeOK
<1>5. Bounded'
  <2>1. \A q \in Inserters : ins'[q].cur <= nblocks /\ ins'[q].orig <= nblocks
    BY <1>3, <1>4 DEF Sound, Bounded
  <2> QED BY <2>1 DEF Sound, Bounded
<1>6. ASSUME NEW q \in Inserters PROVE InsertReady(q)'
  <2>1. InsertReady(q) BY DEF Sound, Ready
  <2>2. CASE q = p BY <1>4, <2>2 DEF InsertReady
  <2>3. CASE q # p BY <1>4, <2>1, <2>3 DEF InsertReady
  <2> QED BY <2>2, <2>3
<1>7. Ready' BY <1>4, <1>6 DEF Sound, Ready
<1> QED BY <1>2, <1>5, <1>7 DEF Sound

\* A tuple goes to a page with room for it
LEMMA S_PutTuple ==
  ASSUME Sound, NEW p \in Inserters, PutTuple(p) PROVE Sound'
<1> USE Basics
<1> DEFINE b == ins[p].cur
           t == ins[p].tid
<1>1. /\ b \in Blocks /\ t \in Tids /\ t \in Indexed /\ pc[p] = "walk" /\ b <= nblocks
      /\ page[b] \in PageType
  BY DEF PutTuple, Sound, TypeOK, Ready, InsertReady, InsType, Bounded
<1>2. page' = [page EXCEPT ![b].tids = @ \cup {t}] /\ UNCHANGED <<nblocks, list, vac, cancels>>
  BY DEF PutTuple
<1>3. page' \in [Blocks -> PageType] BY <1>1, <1>2 DEF Sound, TypeOK, PageType
<1>4. \A c \in Blocks : /\ page'[c].next = page[c].next
                        /\ page'[c].tids = IF c = b THEN page[b].tids \cup {t} ELSE page[c].tids
  BY <1>1, <1>2 DEF Sound, TypeOK, PageType
<1>5. Cardinality(page[b].tids) < PageCap BY DEF PutTuple, Room
<1>6. \A c \in Blocks : Cardinality(page'[c].tids) <= PageCap
  <2>1. Cardinality(page[b].tids) <= PageCap /\ page[b].tids \in SUBSET Tids
    BY <1>1 DEF Sound, TypeOK, PageType
  <2>2. Cardinality(page[b].tids \cup {t}) <= PageCap BY <1>1, <1>5, <2>1, Fits
  <2> QED BY <1>4, <2>2 DEF Sound, TypeOK
<1>7. \A c \in Blocks : /\ page'[c].next <= nblocks
                        /\ c > nblocks => page'[c].tids = {} /\ page'[c].next = Nil
  <2>1. \A c \in Blocks : c > nblocks => c # b BY <1>1 DEF Sound, TypeOK, Blocks
  <2> QED BY <1>4, <2>1 DEF Sound, Bounded
<1>8. \A q \in Inserters : pc[q] = "fill" =>
        ins[q].cur \in Blocks /\ page'[ins[q].cur].tids = page[ins[q].cur].tids
  BY <1>4 DEF PutTuple, Unlocked, Sound, TypeOK, Ready, InsertReady, InsType
<1>9. CASE ins[p].cur # ins[p].orig
  <2>1. pc' = [pc EXCEPT ![p] = "setList"] /\ UNCHANGED <<heap, ins>> BY <1>9 DEF PutTuple
  <2>2. TypeOK' BY <1>2, <1>3, <1>6, <2>1 DEF Sound, TypeOK
  <2>3. Bounded' BY <1>2, <1>7, <2>1 DEF Sound, Bounded
  <2>4. /\ pc'[p] = "setList" /\ pc'[Vacuum] = pc[Vacuum]
        /\ \A q \in Inserters \ {p} : pc'[q] = pc[q]
    BY <2>1 DEF Sound, TypeOK
  <2>5. ASSUME NEW q \in Inserters PROVE InsertReady(q)'
    <3>1. InsertReady(q) BY DEF Sound, Ready
    <3>2. CASE q = p BY <1>1, <2>1, <2>4, <3>1, <3>2 DEF InsertReady
    <3>3. CASE q # p BY <1>8, <2>1, <2>4, <3>1, <3>3 DEF InsertReady
    <3> QED BY <3>2, <3>3
  <2>6. Ready' BY <1>2, <2>1, <2>4, <2>5 DEF Sound, Ready
  <2> QED BY <2>2, <2>3, <2>6 DEF Sound
<1>10. CASE ~(ins[p].cur # ins[p].orig)
  <2>1. EndInsert(p) BY <1>10 DEF PutTuple
  <2> HIDE DEF b, t
  <2>2. list' \in [Lists -> [start : Blocks, insert : Blocks]]
        /\ \A l \in Lists : list'[l].start <= nblocks /\ list'[l].insert <= nblocks
    BY <1>2 DEF Sound, TypeOK, Bounded
  <2> QED BY <1>2, <1>3, <1>6, <1>7, <1>8, <2>1, <2>2, S_EndInsert
<1> QED BY <1>9, <1>10

\* The walk follows nextblkno
LEMMA S_NextPage ==
  ASSUME Sound, NEW p \in Inserters, NextPage(p) PROVE Sound'
<1> USE Basics
<1> DEFINE n == page[ins[p].cur].next
<1>1. ins[p].cur \in Blocks /\ pc[p] = "walk" /\ n \in Blocks /\ n # Nil /\ n <= nblocks
  BY DEF NextPage, Sound, TypeOK, Ready, InsertReady, InsType, Bounded, PageType
<1>2. ins' = [ins EXCEPT ![p].cur = n] /\ UNCHANGED <<page, nblocks, list, heap, pc, vac, cancels>>
  BY DEF NextPage
<1> HIDE DEF n
<1>3. /\ ins' \in [Inserters -> InsType]
      /\ ins'[p].tid = ins[p].tid /\ ins'[p].list = ins[p].list /\ ins'[p].cur = n
      /\ ins'[p].orig = ins[p].orig
      /\ \A q \in Inserters : q # p => ins'[q] = ins[q]
  BY <1>1, <1>2 DEF Sound, TypeOK, InsType
<1>4. TypeOK' BY <1>2, <1>3 DEF Sound, TypeOK
<1>5. Bounded' BY <1>1, <1>2, <1>3 DEF Sound, Bounded
<1>6. Ready' BY <1>1, <1>2, <1>3 DEF Sound, Ready, InsertReady
<1> QED BY <1>4, <1>5, <1>6 DEF Sound

\* A page is appended to the relation and to the end of the chain
LEMMA S_AppendPage ==
  ASSUME Sound, NEW p \in Inserters, AppendPage(p) PROVE Sound'
<1> USE Basics
<1> DEFINE b == ins[p].cur
           n == nblocks + 1
<1>1. /\ b \in Blocks /\ pc[p] = "walk" /\ b <= nblocks /\ page[b] \in PageType
      /\ nblocks \in Nat /\ n \in Blocks /\ n # Nil /\ b # n
  BY DEF AppendPage, Sound, TypeOK, Ready, InsertReady, InsType, Bounded, Blocks, Nil
<1>2. /\ page' = [page EXCEPT ![b].next = n] /\ nblocks' = n
      /\ ins' = [ins EXCEPT ![p].cur = n] /\ pc' = [pc EXCEPT ![p] = "fill"]
      /\ UNCHANGED <<list, heap, vac, cancels>>
  BY DEF AppendPage
<1>3. /\ page' \in [Blocks -> PageType]
      /\ \A c \in Blocks : /\ page'[c].tids = page[c].tids
                           /\ page'[c].next = IF c = b THEN n ELSE page[c].next
  BY <1>1, <1>2 DEF Sound, TypeOK, PageType
<1>4. /\ ins' \in [Inserters -> InsType]
      /\ ins'[p].tid = ins[p].tid /\ ins'[p].list = ins[p].list /\ ins'[p].cur = n
      /\ ins'[p].orig = ins[p].orig
      /\ \A q \in Inserters : q # p => ins'[q] = ins[q]
  BY <1>1, <1>2 DEF Sound, TypeOK, InsType
<1>5. page[n].tids = {} BY <1>1 DEF Sound, Bounded
<1>6. /\ \A c \in Blocks : page[c].next \in Blocks \cup {Nil}
      /\ \A l \in Lists : list[l].start \in Blocks /\ list[l].insert \in Blocks
      /\ \A q \in Inserters : ins[q].cur \in Blocks \cup {Nil} /\ ins[q].orig \in Blocks \cup {Nil}
      /\ vac.op.cur \in Blocks \cup {Nil} /\ vac.op.insert \in Blocks \cup {Nil}
  BY DEF Sound, TypeOK, PageType, InsType, VacType
<1>7. \A x \in Blocks \cup {Nil} : x <= nblocks => x <= n /\ x # n
  BY <1>1 DEF Blocks, Nil
<1>8. \A c \in Blocks : c > n => c > nblocks /\ c # b BY <1>1 DEF Blocks
<1> HIDE DEF n, b
<1>9. TypeOK' BY <1>1, <1>2, <1>3, <1>4 DEF Sound, TypeOK
<1>10. n <= n BY <1>1 DEF n
<1>11. Bounded'
  <2>1. \A c \in Blocks : /\ page'[c].next <= n
                          /\ c > n => page'[c].tids = {} /\ page'[c].next = Nil
    BY <1>3, <1>6, <1>7, <1>8, <1>10 DEF Sound, Bounded
  <2>2. \A l \in Lists : list'[l].start <= n /\ list'[l].insert <= n
    BY <1>2, <1>6, <1>7 DEF Sound, Bounded
  <2>3. \A q \in Inserters : ins'[q].cur <= n /\ ins'[q].orig <= n
    BY <1>4, <1>6, <1>7, <1>10 DEF Sound, Bounded
  <2>4. vac'.op.cur <= n /\ vac'.op.insert <= n BY <1>2, <1>6, <1>7 DEF Sound, Bounded
  <2> QED BY <1>2, <2>1, <2>2, <2>3, <2>4 DEF Bounded
<1>12. Ready'
  <2>1. \A q \in Inserters : q # p => ins'[q].cur # n /\ pc'[q] = pc[q]
    BY <1>2, <1>4, <1>6, <1>7 DEF Sound, Bounded, TypeOK
  <2>2. pc'[p] = "fill" /\ pc'[Vacuum] = pc[Vacuum] BY <1>2 DEF Sound, TypeOK
  <2>3. \A q \in Inserters : pc[q] = "fill" => ins[q].cur \in Blocks
    BY <1>6 DEF Sound, Ready, InsertReady
  <2>4. ASSUME NEW q \in Inserters PROVE InsertReady(q)'
    <3>1. CASE q = p BY <1>1, <1>3, <1>4, <1>5, <2>2, <3>1 DEF Sound, Ready, InsertReady
    <3>2. CASE q # p
      <4>1. InsertReady(q) /\ ins'[q] = ins[q] /\ pc'[q] = pc[q]
        BY <1>4, <2>1, <3>2 DEF Sound, Ready
      <4>2. pc[q] = "fill" => page'[ins[q].cur].tids = page[ins[q].cur].tids
        BY <1>3, <2>3
      <4> QED BY <4>1, <4>2 DEF InsertReady
    <3> QED BY <3>1, <3>2
  <2>5. \A q, r \in Inserters :
          q # r /\ pc'[q] = "fill" /\ pc'[r] = "fill" => ins'[q].cur # ins'[r].cur
    BY <1>4, <2>1 DEF Sound, Ready
  <2> QED BY <1>2, <2>2, <2>4, <2>5 DEF Sound, Ready
<1> QED BY <1>9, <1>11, <1>12 DEF Sound

\* The first tuple of an appended page
LEMMA S_FillPage ==
  ASSUME Sound, NEW p \in Inserters, FillPage(p) PROVE Sound'
<1> USE Basics
<1> DEFINE b == ins[p].cur
           t == ins[p].tid
<1>1. /\ b \in Blocks /\ t \in Tids /\ pc[p] = "fill" /\ b <= nblocks
      /\ page[b] \in PageType /\ page[b].tids = {} /\ nblocks \in Blocks
  BY DEF FillPage, Sound, TypeOK, Ready, InsertReady, InsType, Bounded
<1>2. /\ page' = [page EXCEPT ![b].tids = @ \cup {t}] /\ pc' = [pc EXCEPT ![p] = "setList"]
      /\ UNCHANGED <<nblocks, list, heap, ins, vac, cancels>>
  BY DEF FillPage
<1>3. page' \in [Blocks -> PageType] BY <1>1, <1>2 DEF Sound, TypeOK, PageType
<1>4. \A c \in Blocks : /\ page'[c].next = page[c].next
                        /\ page'[c].tids = IF c = b THEN {t} ELSE page[c].tids
  BY <1>1, <1>2 DEF Sound, TypeOK, PageType
<1>5. Cardinality({t}) <= PageCap
  <2>1. {} \in SUBSET Tids /\ Cardinality({}) <= PageCap BY FS_EmptySet
  <2> QED BY <1>1, <2>1, Fits
<1>6. \A c \in Blocks : c > nblocks => c # b BY <1>1 DEF Blocks
<1>7. TypeOK' BY <1>2, <1>3, <1>4, <1>5 DEF Sound, TypeOK
<1>8. Bounded' BY <1>2, <1>4, <1>6 DEF Sound, Bounded
<1>9. \A q \in Inserters : /\ q # p => pc'[q] = pc[q]
                           /\ pc[q] = "fill" => ins[q].cur \in Blocks
                           /\ pc[q] = "fill" /\ q # p => ins[q].cur # b
  BY <1>1, <1>2 DEF Sound, TypeOK, Ready, InsertReady, InsType
<1>10. pc'[p] = "setList" /\ pc'[Vacuum] = pc[Vacuum] BY <1>2 DEF Sound, TypeOK
<1>11. Ready' BY <1>1, <1>2, <1>4, <1>9, <1>10 DEF Sound, Ready, InsertReady
<1> QED BY <1>7, <1>8, <1>11 DEF Sound

\* IvfflatUpdateList only ever stores the insert page it is given
LEMMA UpdatedListType ==
  ASSUME Sound, NEW l \in Lists, NEW b \in Blocks, b <= nblocks, NEW orig,
         list' = UpdatedList(l, b, orig)
  PROVE  /\ list' \in [Lists -> [start : Blocks, insert : Blocks]]
         /\ \A k \in Lists : /\ list'[k].start = list[k].start
                             /\ list'[k].insert = list[k].insert \/ (k = l /\ list'[k].insert = b)
         /\ \A k \in Lists : list'[k].start <= nblocks /\ list'[k].insert <= nblocks
<1>1. /\ list' \in [Lists -> [start : Blocks, insert : Blocks]]
      /\ \A k \in Lists : /\ list'[k].start = list[k].start
                          /\ list'[k].insert = list[k].insert \/ (k = l /\ list'[k].insert = b)
  BY DEF UpdatedList, Sound, TypeOK
<1> QED BY <1>1 DEF Sound, Bounded

\* The list learns where the insert ended
LEMMA S_UpdateList ==
  ASSUME Sound, NEW p \in Inserters, UpdateList(p) PROVE Sound'
<1> USE Basics
<1>1. ins[p].list \in Lists /\ ins[p].cur \in Blocks /\ ins[p].cur <= nblocks
  <2>1. pc[p] = "setList" BY DEF UpdateList
  <2>2. ins[p].tid \in Indexed /\ ins[p].list = ListOf(ins[p].tid) /\ ins[p].cur # Nil
    BY <2>1 DEF Sound, Ready, InsertReady
  <2>3. ins[p].list \in Lists BY <2>2, ListOfType
  <2>4. ins[p].cur \in Blocks BY <2>2 DEF Sound, TypeOK, InsType
  <2>5. ins[p].cur <= nblocks BY DEF Sound, Bounded
  <2> QED BY <2>1, <2>3, <2>4, <2>5
<1>2. /\ list' = UpdatedList(ins[p].list, ins[p].cur, ins[p].orig) /\ EndInsert(p)
      /\ UNCHANGED <<page, nblocks, vac, cancels>>
  BY DEF UpdateList, ListInfo
<1>3. /\ list' \in [Lists -> [start : Blocks, insert : Blocks]]
      /\ \A k \in Lists : list'[k].start <= nblocks /\ list'[k].insert <= nblocks
  BY <1>1, <1>2, UpdatedListType
<1>4. /\ page' \in [Blocks -> PageType]
      /\ \A b \in Blocks : Cardinality(page'[b].tids) <= PageCap
      /\ \A b \in Blocks : /\ page'[b].next <= nblocks
                           /\ b > nblocks => page'[b].tids = {} /\ page'[b].next = Nil
  BY <1>2 DEF Sound, TypeOK, Bounded
<1> QED BY <1>2, <1>3, <1>4, S_EndInsert

\* VACUUM starts with the dead rows and the first list
LEMMA S_BeginVacuum ==
  ASSUME Sound, BeginVacuum PROVE Sound'
<1> USE Basics
<1> DEFINE r == [dead |-> {t \in Tids : heap[t] = "dead"}, list |-> 1,
                 cur |-> list[1].start, insert |-> Nil]
<1>1. list[1].start \in Blocks /\ list[1].start <= nblocks /\ nblocks \in Blocks
  BY DEF Sound, TypeOK, Bounded
<1>2. r \in VacType BY <1>1 DEF VacType, Nil
<1>3. r.cur <= nblocks /\ r.insert <= nblocks /\ r.list # Nil BY <1>1 DEF Nil, Blocks
<1>4. /\ vac' = [runs |-> vac.runs + 1, op |-> r] /\ vac.runs < MaxVacuums
      /\ pc' = [pc EXCEPT ![Vacuum] = "page"]
      /\ UNCHANGED <<page, nblocks, list, heap, ins, cancels>>
  BY DEF BeginVacuum, VacuumOf
<1> HIDE DEF r
<1>5. vac' \in [runs : 0..MaxVacuums, op : VacType] /\ vac'.op = r
  BY <1>2, <1>4, ConstantsAssumption DEF Sound, TypeOK
<1>6. TypeOK' BY <1>4, <1>5 DEF Sound, TypeOK
<1>7. Bounded' BY <1>3, <1>4, <1>5 DEF Sound, Bounded
<1>8. pc'[Vacuum] = "page" /\ \A q \in Inserters : pc'[q] = pc[q] BY <1>4 DEF Sound, TypeOK
<1>9. \A q \in Inserters : InsertReady(q)' BY <1>4, <1>8 DEF Sound, Ready, InsertReady
<1>10. Ready' BY <1>3, <1>4, <1>5, <1>8, <1>9 DEF Sound, Ready
<1> QED BY <1>6, <1>7, <1>10 DEF Sound

\* VACUUM takes tuples off a page
LEMMA S_VacuumPage ==
  ASSUME Sound, VacuumPage PROVE Sound'
<1> USE Basics
<1> DEFINE b == vac.op.cur
           gone == page[b].tids \cap vac.op.dead
           i == IF vac.op.insert = Nil /\ gone # {} THEN b ELSE vac.op.insert
<1>1. /\ b \in Blocks /\ b <= nblocks /\ page[b] \in PageType /\ pc[Vacuum] = "page"
      /\ i \in Blocks \cup {Nil} /\ i <= nblocks
      /\ page[b].next \in Blocks \cup {Nil} /\ page[b].next <= nblocks
  BY DEF VacuumPage, Sound, TypeOK, VacType, Bounded, PageType
<1>2. /\ page' = [page EXCEPT ![b].tids = @ \ gone]
      /\ vac' = [vac EXCEPT !.op.cur = page[b].next, !.op.insert = i]
      /\ UNCHANGED <<nblocks, list, heap, pc, ins, cancels>>
  BY DEF VacuumPage
<1>3. /\ page' \in [Blocks -> PageType]
      /\ \A c \in Blocks : /\ page'[c].next = page[c].next
                           /\ page'[c].tids = IF c = b THEN page[b].tids \ gone ELSE page[c].tids
  BY <1>1, <1>2 DEF Sound, TypeOK, PageType
<1> HIDE DEF gone, i
<1>4. /\ vac' \in [runs : 0..MaxVacuums, op : VacType]
      /\ vac'.op.cur = page[b].next /\ vac'.op.insert = i /\ vac'.op.list = vac.op.list
  BY <1>1, <1>2 DEF Sound, TypeOK, VacType
<1>5. \A c \in Blocks : Cardinality(page'[c].tids) <= PageCap
  <2>1. /\ page[b].tids \in SUBSET Tids /\ Cardinality(page[b].tids) <= PageCap
        /\ page[b].tids \ gone \in SUBSET page[b].tids
    BY <1>1 DEF Sound, TypeOK, PageType
  <2>2. Cardinality(page[b].tids \ gone) <= PageCap
    <3>1. CASE Tids = {}
      <4>1. page[b].tids \ gone = page[b].tids BY <2>1, <3>1
      <4> QED BY <2>1, <4>1
    <3>2. CASE Tids # {}
      <4>1. PICK t \in Tids : TRUE BY <3>2
      <4> QED BY <2>1, Fits
    <3> QED BY <3>1, <3>2
  <2> QED BY <1>3, <2>2 DEF Sound, TypeOK
<1>6. TypeOK' BY <1>2, <1>3, <1>4, <1>5 DEF Sound, TypeOK
<1>7. \A c \in Blocks : page[c].tids = {} => page'[c].tids = {} BY <1>3
<1>8. Bounded' BY <1>1, <1>2, <1>3, <1>4, <1>7 DEF Sound, Bounded
<1>9. \A q \in Inserters : pc[q] = "fill" => page'[ins[q].cur].tids = {}
  BY <1>7 DEF Sound, TypeOK, Ready, InsertReady, InsType
<1>10. Ready' BY <1>2, <1>4, <1>9 DEF Sound, Ready, InsertReady
<1> QED BY <1>6, <1>8, <1>10 DEF Sound

\* VACUUM moves the insert page back, and goes to the next list or ends
LEMMA S_VacuumList ==
  ASSUME Sound, VacuumList PROVE Sound'
<1> USE Basics
<1>1. /\ vac.op \in VacType /\ vac.op.list \in Lists /\ vac.op.insert \in Blocks \cup {Nil}
      /\ vac.op.insert <= nblocks /\ pc[Vacuum] = "page" /\ nblocks \in Blocks
  BY DEF VacuumList, Sound, TypeOK, VacType, Bounded, Ready
<1>2. /\ list' \in [Lists -> [start : Blocks, insert : Blocks]]
      /\ \A k \in Lists : list'[k].start <= nblocks /\ list'[k].insert <= nblocks
  <2>1. CASE vac.op.insert = Nil BY <2>1 DEF VacuumList, Sound, TypeOK, Bounded
  <2>2. CASE vac.op.insert # Nil
    <3>1. list' = UpdatedList(vac.op.list, vac.op.insert, Nil) /\ vac.op.insert \in Blocks
      BY <1>1, <2>2 DEF VacuumList
    <3> QED BY <1>1, <3>1, UpdatedListType
  <2> QED BY <2>1, <2>2
<1>3. UNCHANGED <<page, nblocks, ins, cancels>> BY DEF VacuumList
<1>4. CASE vac.op.list < NLists
  <2> DEFINE l == vac.op.list + 1
             r == VacuumOf(l, vac.op.dead)
  <2>1. l \in Lists /\ l # Nil BY <1>1, <1>4 DEF Lists, Nil
  <2>2. list[l].start \in Blocks /\ list[l].start <= nblocks BY <2>1 DEF Sound, TypeOK, Bounded
  <2>3. /\ r \in VacType /\ r.cur <= nblocks /\ r.insert <= nblocks /\ r.list # Nil
    <3>1. r = [dead |-> vac.op.dead, list |-> l, cur |-> list[l].start, insert |-> Nil]
      BY DEF VacuumOf
    <3>2. r \in VacType BY <1>1, <2>1, <2>2, <3>1 DEF VacType, Nil
    <3>3. 0 <= nblocks BY <1>1 DEF Blocks
    <3> QED BY <2>1, <2>2, <3>1, <3>2, <3>3 DEF Nil
  <2>4. vac' = [vac EXCEPT !.op = r] /\ UNCHANGED <<heap, pc>> BY <1>4 DEF VacuumList
  <2> HIDE DEF r
  <2>5. vac' \in [runs : 0..MaxVacuums, op : VacType] /\ vac'.op = r
    BY <2>3, <2>4 DEF Sound, TypeOK
  <2>6. TypeOK' BY <1>2, <1>3, <2>4, <2>5 DEF Sound, TypeOK
  <2>7. Bounded' BY <1>2, <1>3, <2>3, <2>4, <2>5 DEF Sound, Bounded
  <2>8. Ready' BY <1>3, <2>3, <2>4, <2>5 DEF Sound, Ready, InsertReady
  <2> QED BY <2>6, <2>7, <2>8 DEF Sound
<1>5. CASE ~(vac.op.list < NLists)
  <2>1. /\ vac' = [vac EXCEPT !.op = NoVacuum] /\ pc' = [pc EXCEPT ![Vacuum] = "idle"]
        /\ heap' = [t \in Tids |-> IF t \in vac.op.dead THEN "gone" ELSE heap[t]]
    BY <1>5 DEF VacuumList
  <2>2. /\ vac' \in [runs : 0..MaxVacuums, op : VacType]
        /\ vac'.op.cur <= nblocks /\ vac'.op.insert <= nblocks
    <3>1. vac' \in [runs : 0..MaxVacuums, op : VacType] /\ vac'.op = NoVacuum
      BY <2>1 DEF Sound, TypeOK
    <3>2. 0 <= nblocks BY <1>1 DEF Blocks
    <3> QED BY <3>1, <3>2 DEF NoVacuum, Nil
  <2>3. TypeOK' BY <1>2, <1>3, <2>1, <2>2 DEF Sound, TypeOK
  <2>4. Bounded' BY <1>2, <1>3, <2>1, <2>2 DEF Sound, Bounded
  <2>5. Ready' BY <1>3, <2>1 DEF Sound, Ready, InsertReady, TypeOK
  <2> QED BY <2>3, <2>4, <2>5 DEF Sound
<1> QED BY <1>4, <1>5

\* A row dies
LEMMA S_RowDies ==
  ASSUME Sound, NEW t \in Tids, RowDies(t) PROVE Sound'
<1>1. /\ heap' = [heap EXCEPT ![t] = "dead"]
      /\ UNCHANGED <<page, nblocks, list, pc, ins, vac, cancels>>
  BY DEF RowDies
<1>2. TypeOK' BY <1>1 DEF Sound, TypeOK
<1> QED BY <1>1, <1>2 DEF Sound, Bounded, Ready, InsertReady

\* A statement is cancelled and forgets what it did
LEMMA S_Cancel ==
  ASSUME Sound, NEW p \in Procs, Cancel(p) PROVE Sound'
<1> USE Basics
<1>1. /\ cancels' \in 0..MaxCancels /\ pc' = [pc EXCEPT ![p] = "idle"]
      /\ UNCHANGED <<page, nblocks, list>>
  BY ConstantsAssumption DEF Cancel, Sound, TypeOK
<1>2. nblocks \in Nat BY DEF Sound, TypeOK, Blocks
<1>3. CASE p = Vacuum
  <2>1. vac' = [vac EXCEPT !.op = NoVacuum] /\ UNCHANGED <<heap, ins>>
    BY <1>3 DEF Cancel
  <2>2. /\ vac' \in [runs : 0..MaxVacuums, op : VacType]
        /\ vac'.op.cur <= nblocks /\ vac'.op.insert <= nblocks
    <3>1. vac' \in [runs : 0..MaxVacuums, op : VacType] /\ vac'.op = NoVacuum
      BY <2>1 DEF Sound, TypeOK
    <3> QED BY <1>2, <3>1 DEF NoVacuum, Nil
  <2>3. TypeOK' BY <1>1, <2>1, <2>2 DEF Sound, TypeOK
  <2>4. Bounded' BY <1>1, <2>1, <2>2 DEF Sound, Bounded
  <2>5. Ready' BY <1>1, <1>3, <2>1 DEF Sound, Ready, InsertReady, TypeOK
  <2> QED BY <2>3, <2>4, <2>5 DEF Sound
<1>4. CASE p # Vacuum
  <2>1. p \in Inserters /\ pc[p] # "idle" BY <1>4 DEF Cancel, Procs
  <2>2. /\ heap' = [heap EXCEPT ![ins[p].tid] = "dead"] /\ ins' = [ins EXCEPT ![p] = NoInsert]
        /\ UNCHANGED vac
    BY <1>4 DEF Cancel
  <2>3. NoInsert.cur <= nblocks /\ NoInsert.orig <= nblocks BY <1>2 DEF NoInsert, Nil
  <2>4. TypeOK' BY <1>1, <2>1, <2>2 DEF Sound, TypeOK
  <2>5. Bounded' BY <1>1, <2>1, <2>2, <2>3 DEF Sound, Bounded, TypeOK
  <2>6. /\ ins'[p] = NoInsert /\ pc'[p] = "idle" /\ pc'[Vacuum] = pc[Vacuum]
        /\ \A q \in Inserters \ {p} : ins'[q] = ins[q] /\ pc'[q] = pc[q]
    BY <1>1, <1>4, <2>1, <2>2 DEF Sound, TypeOK
  <2>7. ASSUME NEW q \in Inserters PROVE InsertReady(q)'
    <3>1. InsertReady(q) BY DEF Sound, Ready
    <3>2. CASE q = p BY <2>6, <3>2 DEF InsertReady
    <3>3. CASE q # p BY <1>1, <2>6, <3>1, <3>3 DEF InsertReady
    <3> QED BY <3>2, <3>3
  <2>8. Ready' BY <2>2, <2>6, <2>7 DEF Sound, Ready
  <2> QED BY <2>4, <2>5, <2>8 DEF Sound
<1> QED BY <1>3, <1>4

\* Every step keeps types and bounds
LEMMA S_Next ==
  ASSUME Sound, [Next]_vars PROVE Sound'
<1>1. CASE UNCHANGED vars
  <2>1. UNCHANGED <<page, nblocks, list, heap, pc, ins, vac, cancels>> BY <1>1 DEF vars
  <2>2. TypeOK' BY <2>1 DEF Sound, TypeOK
  <2> QED BY <2>1, <2>2 DEF Sound, Bounded, Ready, InsertReady
<1>2. ASSUME NEW p \in Inserters, InsertStep(p) PROVE Sound'
  BY <1>2, S_PutTuple, S_NextPage, S_AppendPage, S_FillPage, S_UpdateList DEF InsertStep
<1>3. ASSUME NEW p \in Inserters, NEW t \in Tids, BeginInsert(p, t) PROVE Sound'
  BY <1>3, S_BeginInsert
<1>4. CASE BeginVacuum \/ VacuumPage \/ VacuumList
  BY <1>4, S_BeginVacuum, S_VacuumPage, S_VacuumList
<1>5. ASSUME NEW p \in Scanners, ScanStep(p) \/ BeginScan(p) PROVE Sound'
  <2>1. /\ UNCHANGED <<page, nblocks, list, heap, ins, vac, cancels>>
        /\ \/ UNCHANGED pc
           \/ \E x \in {"idle", "list", "page", "emit", "end"} : pc' = [pc EXCEPT ![p] = x]
    BY <1>5 DEF ScanStep, BeginScan, ScanList, ScanPage, ReturnTuple, NextBatch, EndScan
  <2>2. CASE UNCHANGED pc
    <3>1. TypeOK' BY <2>1, <2>2 DEF Sound, TypeOK
    <3> QED BY <2>1, <2>2, <3>1 DEF Sound, Bounded, Ready, InsertReady
  <2> QED BY <2>1, <2>2, S_Local
<1>6. ASSUME NEW t \in Tids, RowDies(t) PROVE Sound' BY <1>6, S_RowDies
<1>7. ASSUME NEW p \in Procs, Cancel(p) PROVE Sound' BY <1>7, S_Cancel
<1> QED BY <1>1, <1>2, <1>3, <1>4, <1>5, <1>6, <1>7 DEF Next

\* CREATE INDEX leaves full chains, and nobody has begun
LEMMA S_Init ==
  ASSUME Init PROVE Sound
<1> USE Basics
<1>1. /\ NBuilt \in Blocks /\ NBuilt \in Nat /\ NBuilt <= NBlocks
      /\ MaxVacuums \in Nat /\ MaxCancels \in Nat
      /\ BuiltTids \in [1..NBuilt -> SUBSET Indexed]
      /\ \A b \in 1..NBuilt : Cardinality(BuiltTids[b]) <= PageCap
  BY ConstantsAssumption DEF Blocks
<1>2. \A b \in Blocks : b <= NBuilt => b \in 1..NBuilt BY <1>1 DEF Blocks
<1>3. \A b \in 1..NBuilt : BuiltNext(b) \in Blocks \cup {Nil} /\ BuiltNext(b) <= NBuilt
  BY <1>1 DEF BuiltNext, Blocks, Nil
<1>4. /\ page \in [Blocks -> PageType]
      /\ \A b \in Blocks : page[b].next <= NBuilt
      /\ \A b \in Blocks : b > NBuilt => page[b].tids = {} /\ page[b].next = Nil
      /\ \A b \in Blocks : Cardinality(page[b].tids) <= PageCap
  <2>1. ASSUME NEW b \in Blocks, b <= NBuilt
        PROVE  /\ page[b] \in PageType /\ page[b].next <= NBuilt
               /\ Cardinality(page[b].tids) <= PageCap
    <3>1. page[b] = [tids |-> BuiltTids[b], next |-> BuiltNext(b)] BY <2>1 DEF Init
    <3>2. b \in 1..NBuilt BY <1>2, <2>1
    <3> QED BY <1>1, <1>3, <3>1, <3>2 DEF PageType
  <2>2. ASSUME NEW b \in Blocks, ~(b <= NBuilt)
        PROVE  /\ page[b] \in PageType /\ page[b].next <= NBuilt
               /\ Cardinality(page[b].tids) <= PageCap
               /\ page[b].tids = {} /\ page[b].next = Nil
    <3>1. page[b] = [tids |-> {}, next |-> Nil] BY <2>2 DEF Init
    <3>2. Cardinality({}) <= PageCap BY FS_EmptySet
    <3>3. Nil <= NBuilt BY <1>1 DEF Nil
    <3> QED BY <3>1, <3>2, <3>3 DEF PageType
  <2>3. \A b \in Blocks : b > NBuilt => ~(b <= NBuilt) BY <1>1 DEF Blocks
  <2>4. page = [b \in Blocks |-> page[b]] BY DEF Init
  <2>5. page \in [Blocks -> PageType] BY <2>1, <2>2, <2>4
  <2> QED BY <2>1, <2>2, <2>3, <2>5
<1>5. ASSUME NEW l \in Lists
      PROVE  /\ list[l].start \in Blocks /\ list[l].insert \in Blocks
             /\ list[l].start <= NBuilt /\ list[l].insert <= NBuilt
  BY <1>1, BuiltPages DEF Init, Blocks
<1>6. list \in [Lists -> [start : Blocks, insert : Blocks]]
  <2>1. list = [l \in Lists |-> [start |-> BuiltStart(l), insert |-> BuiltInsert(l)]]
    BY DEF Init
  <2>2. \A l \in Lists : BuiltStart(l) \in Blocks /\ BuiltInsert(l) \in Blocks
    BY <1>1, BuiltPages DEF Blocks
  <2> QED BY <2>1, <2>2
<1>7. /\ nblocks = NBuilt /\ pc = [p \in Procs |-> "idle"]
      /\ ins = [p \in Inserters |-> NoInsert] /\ vac = [runs |-> 0, op |-> NoVacuum]
      /\ cancels = 0 /\ heap \in [Tids -> {"free", "inserting", "live", "dead", "gone"}]
  BY DEF Init
<1>8. TypeOK BY <1>1, <1>4, <1>6, <1>7 DEF TypeOK
<1>9. /\ NoInsert.cur <= NBuilt /\ NoInsert.orig <= NBuilt
      /\ NoVacuum.cur <= NBuilt /\ NoVacuum.insert <= NBuilt
  BY <1>1 DEF NoInsert, NoVacuum, Nil
<1>10. Bounded BY <1>4, <1>5, <1>7, <1>9 DEF Bounded
<1>11. Ready BY <1>7 DEF Ready, InsertReady
<1> QED BY <1>8, <1>10, <1>11 DEF Sound

\* No step of inserts, scans or VACUUM follows an invalid block number, and no
\* page gets more tuples than fit
THEOREM TypeCorrect == Spec => []TypeOK
<1>1. Init => Sound BY S_Init
<1>2. Sound /\ [Next]_vars => Sound' BY S_Next
<1>3. Sound => TypeOK BY DEF Sound
<1> QED BY <1>1, <1>2, <1>3, PTL DEF Spec

-----------------------------------------------------------------------------
(* Lists share no page.                                                    *)

\* Pages that are not linked anew keep their owners
LEMMA O_Same ==
  ASSUME Sound, NEW o \in [Blocks -> Lists], Owned(o),
         \A l \in Lists : list'[l] = list[l],
         \A b \in Blocks : page'[b].next = page[b].next /\ page'[b].tids \subseteq page[b].tids,
         \A p \in Inserters : pc'[p] # "idle" => \/ pc[p] # "idle" /\ ins'[p] = ins[p]
                                                 \/ \E l \in Lists : /\ ins'[p].list = l
                                                                     /\ ins'[p].cur = list[l].insert,
         pc'[Vacuum] = "page" => pc[Vacuum] = "page" /\ vac' = vac
  PROVE  Owned(o)'
<1>1. Owned(o) OBVIOUS
<1>2. Apart(o)' BY <1>1 DEF Owned, Apart, Owns
<1>3. \A p \in Inserters : pc'[p] # "idle" => Owns(o, ins'[p].cur, ins'[p].list)
  BY <1>1 DEF Owned, Apart, Owns
<1>4. pc'[Vacuum] = "page" => /\ Owns(o, vac'.op.cur, vac'.op.list)
                              /\ Owns(o, vac'.op.insert, vac'.op.list)
  BY <1>1 DEF Owned
<1>5. Owned(o)' BY <1>2, <1>3, <1>4 DEF Owned, Owns
<1> QED BY <1>5

\* FindInsertPage remembers a page of the row's list
LEMMA O_BeginInsert ==
  ASSUME Sound, NEW o \in [Blocks -> Lists], Owned(o), NEW p \in Inserters, NEW t \in Tids, BeginInsert(p, t)
  PROVE  Owned(o)'
<1> USE Basics
<1>1. CASE t \notin Indexed BY <1>1, O_Same DEF BeginInsert
<1>2. CASE t \in Indexed
  <2>1. ListOf(t) \in Lists BY ListOfType
  <2>2. /\ UNCHANGED <<page, list, vac>> /\ pc' = [pc EXCEPT ![p] = "walk"]
        /\ ins' = [ins EXCEPT ![p] = [tid |-> t, list |-> ListOf(t),
                     cur |-> list[ListOf(t)].insert, orig |-> list[ListOf(t)].insert]]
    BY <1>2 DEF BeginInsert
  <2>3. \A q \in Inserters : pc'[q] # "idle" =>
          \/ pc[q] # "idle" /\ ins'[q] = ins[q]
          \/ \E l \in Lists : ins'[q].list = l /\ ins'[q].cur = list[l].insert
    BY <2>1, <2>2 DEF Sound, TypeOK
  <2>4. pc'[Vacuum] = pc[Vacuum] BY <2>2 DEF Sound, TypeOK
  <2> QED BY <2>2, <2>3, <2>4, O_Same
<1> QED BY <1>1, <1>2

\* A tuple goes to a page of its own list
LEMMA O_AddTuple ==
  ASSUME Sound, NEW o \in [Blocks -> Lists], Owned(o), NEW p \in Inserters, pc[p] # "idle",
         page' = [page EXCEPT ![ins[p].cur].tids = @ \cup {ins[p].tid}],
         UNCHANGED <<list, vac>>, pc'[Vacuum] = pc[Vacuum],
         \A q \in Inserters : pc'[q] # "idle" => pc[q] # "idle" /\ ins'[q] = ins[q]
  PROVE  Owned(o)'
<1>1. Owned(o) OBVIOUS
<1> DEFINE b == ins[p].cur
           t == ins[p].tid
<1>2. b \in Blocks /\ b # Nil /\ ListOf(t) = o[b]
  BY <1>1 DEF Sound, TypeOK, Ready, InsertReady, InsType, Owned, Owns
<1>3. \A c \in Blocks : /\ page'[c].next = page[c].next
                        /\ page'[c].tids = IF c = b THEN page[b].tids \cup {t} ELSE page[c].tids
  BY <1>2 DEF Sound, TypeOK, PageType
<1>4. \A c \in Blocks : \A x \in page'[c].tids : ListOf(x) = o[c]
  BY <1>1, <1>2, <1>3 DEF Owned, Apart
<1>5. Apart(o)' BY <1>1, <1>3, <1>4 DEF Owned, Apart, Owns
<1>6. Owned(o)' BY <1>1, <1>5 DEF Owned, Owns
<1> QED BY <1>6

\* So it does on a page with room and on an appended one
LEMMA O_PutTuple ==
  ASSUME Sound, NEW o \in [Blocks -> Lists], Owned(o), NEW p \in Inserters, PutTuple(p) \/ FillPage(p)
  PROVE  Owned(o)'
<1> USE Basics
<1>1. /\ pc[p] # "idle" /\ page' = [page EXCEPT ![ins[p].cur].tids = @ \cup {ins[p].tid}]
      /\ UNCHANGED <<list, vac>>
  BY DEF PutTuple, FillPage
<1>2. \/ pc' = [pc EXCEPT ![p] = "setList"] /\ ins' = ins
      \/ pc' = [pc EXCEPT ![p] = "idle"] /\ ins' = [ins EXCEPT ![p] = NoInsert]
  BY DEF PutTuple, FillPage, EndInsert
<1>3. pc'[Vacuum] = pc[Vacuum] BY <1>2 DEF Sound, TypeOK
<1>4. \A q \in Inserters : pc'[q] # "idle" => pc[q] # "idle" /\ ins'[q] = ins[q]
  BY <1>1, <1>2 DEF Sound, TypeOK
<1> QED BY <1>1, <1>3, <1>4, O_AddTuple

\* The walk stays within the list
LEMMA O_NextPage ==
  ASSUME Sound, NEW o \in [Blocks -> Lists], Owned(o), NEW p \in Inserters, NextPage(p) PROVE Owned(o)'
<1>1. Owned(o) OBVIOUS
<1>2. /\ ins[p].cur \in Blocks /\ ins[p].cur # Nil /\ pc[p] = "walk"
  BY DEF NextPage, Sound, TypeOK, Ready, InsertReady, InsType
<1>3. /\ ins' = [ins EXCEPT ![p].cur = page[ins[p].cur].next]
      /\ UNCHANGED <<page, list, pc, vac>>
  BY DEF NextPage
<1>4. Owns(o, page[ins[p].cur].next, ins[p].list)
  BY <1>1, <1>2 DEF Owned, Apart, Owns
<1>5. /\ ins'[p].cur = page[ins[p].cur].next /\ ins'[p].list = ins[p].list
      /\ \A q \in Inserters : q # p => ins'[q] = ins[q]
  BY <1>3 DEF Sound, TypeOK, InsType
<1>6. \A q \in Inserters : pc'[q] # "idle" => Owns(o, ins'[q].cur, ins'[q].list)
  BY <1>1, <1>3, <1>4, <1>5 DEF Owned
<1>7. Owned(o)' BY <1>1, <1>3, <1>6 DEF Owned, Apart, Owns
<1> QED BY <1>7

\* An appended page is nobody's yet and becomes the list's
LEMMA O_AppendPage ==
  ASSUME Sound, NEW o \in [Blocks -> Lists], Owned(o), NEW p \in Inserters, AppendPage(p)
  PROVE  \E u \in [Blocks -> Lists] :
           (\A c \in Blocks : c <= nblocks => u[c] = o[c]) /\ Owned(u)'
<1> USE Basics
<1>1. Owned(o) OBVIOUS
<1> DEFINE b == ins[p].cur
           n == nblocks + 1
           l == ins[p].list
<1>2. /\ b \in Blocks /\ b # Nil /\ pc[p] = "walk" /\ b <= nblocks /\ l \in Lists
      /\ nblocks \in Nat /\ n \in Blocks /\ n # Nil /\ b # n /\ nblocks < n
  <2>1. /\ b \in Blocks /\ b # Nil /\ pc[p] = "walk" /\ b <= nblocks
        /\ nblocks \in Blocks /\ nblocks < NBlocks
    BY DEF AppendPage, Sound, TypeOK, Ready, InsertReady, InsType, Bounded
  <2>2. l \in Lists
    BY <2>1, ListOfType DEF Sound, Ready, InsertReady
  <2> QED BY <2>1, <2>2 DEF Blocks, Nil
<1>3. /\ page' = [page EXCEPT ![b].next = n] /\ ins' = [ins EXCEPT ![p].cur = n]
      /\ pc' = [pc EXCEPT ![p] = "fill"] /\ UNCHANGED <<list, vac>>
  BY DEF AppendPage
<1>4. \A c \in Blocks : /\ page'[c].tids = page[c].tids
                        /\ page'[c].next = IF c = b THEN n ELSE page[c].next
  BY <1>2, <1>3 DEF Sound, TypeOK, PageType
<1>5. /\ ins'[p].cur = n /\ ins'[p].list = l
      /\ \A q \in Inserters : q # p => ins'[q] = ins[q] /\ pc'[q] = pc[q]
  BY <1>3 DEF Sound, TypeOK, InsType
<1>6. pc'[Vacuum] = pc[Vacuum] BY <1>3 DEF Sound, TypeOK
<1>7. PICK u \in [Blocks -> Lists] : u[n] = l /\ \A c \in Blocks : c # n => u[c] = o[c]
  <2>1. [o EXCEPT ![n] = l] \in [Blocks -> Lists] BY <1>2
  <2>2. /\ [o EXCEPT ![n] = l][n] = l
        /\ \A c \in Blocks : c # n => [o EXCEPT ![n] = l][c] = o[c]
    BY <1>2
  <2> QED BY <2>1, <2>2
<1>8. /\ \A c \in Blocks : page[c].next \in Blocks \cup {Nil}
      /\ \A k \in Lists : list[k].start \in Blocks /\ list[k].insert \in Blocks
      /\ \A q \in Inserters : ins[q].cur \in Blocks \cup {Nil}
      /\ vac.op.cur \in Blocks \cup {Nil} /\ vac.op.insert \in Blocks \cup {Nil}
  BY DEF Sound, TypeOK, PageType, InsType, VacType
<1>9. \A x \in Blocks \cup {Nil} : x <= nblocks => x # n BY <1>2 DEF Blocks, Nil
<1>10. page[n].tids = {} /\ page[n].next = Nil BY <1>2 DEF Sound, Bounded
<1>11. o[b] = l BY <1>1, <1>2 DEF Owned, Owns
<1> HIDE DEF n, b, l
<1>12. \A x \in Blocks \cup {Nil}, k \in Lists : x # n /\ Owns(o, x, k) => Owns(u, x, k)
  BY <1>7 DEF Owns
<1>13. Apart(u)'
  <2>1. \A k \in Lists : Owns(u, list[k].start, k) /\ Owns(u, list[k].insert, k)
    BY <1>1, <1>8, <1>9, <1>12 DEF Owned, Apart, Sound, Bounded
  <2>2. ASSUME NEW c \in Blocks
        PROVE  Owns(u, page'[c].next, u[c]) /\ \A t \in page'[c].tids : ListOf(t) = u[c]
    <3>1. CASE c = n
      <4>1. page'[c].next = Nil /\ page'[c].tids = {} BY <1>2, <1>4, <1>10, <3>1
      <4> QED BY <4>1 DEF Owns
    <3>2. CASE c = b
      <4>1. page'[c].next = n /\ page'[c].tids = page[c].tids /\ u[c] = l
        BY <1>2, <1>4, <1>7, <1>11, <3>2
      <4>2. \A t \in page[c].tids : ListOf(t) = o[c] BY <1>1 DEF Owned, Apart
      <4> QED BY <1>7, <1>11, <3>2, <4>1, <4>2 DEF Owns
    <3>3. CASE c # n /\ c # b
      <4>1. page'[c].next = page[c].next /\ page'[c].tids = page[c].tids /\ u[c] = o[c]
        BY <1>4, <1>7, <3>3
      <4>2. Owns(o, page[c].next, o[c]) /\ \A t \in page[c].tids : ListOf(t) = o[c]
        BY <1>1 DEF Owned, Apart
      <4>3. page[c].next # n /\ page[c].next \in Blocks \cup {Nil} /\ o[c] \in Lists
        BY <1>8, <1>9 DEF Sound, Bounded
      <4> QED BY <1>12, <4>1, <4>2, <4>3
    <3> QED BY <3>1, <3>2, <3>3
  <2> QED BY <1>3, <2>1, <2>2 DEF Apart, Owns
<1>14. ASSUME NEW q \in Inserters, pc'[q] # "idle" PROVE Owns(u, ins'[q].cur, ins'[q].list)
  <2>1. CASE q = p BY <1>5, <1>7, <2>1 DEF Owns
  <2>2. CASE q # p
    <3>1. /\ Owns(o, ins[q].cur, ins[q].list) /\ ins[q].cur # n /\ ins'[q] = ins[q]
          /\ ins[q].list \in Lists
      BY <1>1, <1>5, <1>8, <1>9, <1>14, <2>2, ListOfType
      DEF Owned, Sound, Bounded, Ready, InsertReady
    <3> QED BY <1>8, <1>12, <3>1
  <2> QED BY <2>1, <2>2
<1>15. pc'[Vacuum] = "page" => Owns(u, vac.op.cur, vac.op.list) /\ Owns(u, vac.op.insert, vac.op.list)
  <2>1. pc[Vacuum] = "page" => vac.op.list \in Lists
    BY DEF Sound, TypeOK, Ready, VacType
  <2> QED BY <1>1, <1>6, <1>8, <1>9, <1>12, <2>1 DEF Owned, Sound, Bounded
<1>16. Owned(u)' BY <1>3, <1>13, <1>14, <1>15 DEF Owned, Owns
<1>17. \A c \in Blocks : c <= nblocks => u[c] = o[c] BY <1>7, <1>9
<1> QED BY <1>16, <1>17

\* IvfflatUpdateList is given a page of the list it updates
LEMMA O_List ==
  ASSUME Sound, NEW o \in [Blocks -> Lists], Apart(o), NEW l \in Lists, NEW b \in Blocks,
         b <= nblocks, NEW orig, Owns(o, b, l), list' = UpdatedList(l, b, orig), page' = page
  PROVE  Apart(o)'
<1>1. \A k \in Lists : /\ list'[k].start = list[k].start
                       /\ list'[k].insert = list[k].insert \/ (k = l /\ list'[k].insert = b)
  BY UpdatedListType
<1>2. \A k \in Lists : Owns(o, list'[k].start, k) /\ Owns(o, list'[k].insert, k)
  BY <1>1 DEF Apart
<1> QED BY <1>2 DEF Apart, Owns

\* An insert gives the page it ended on to the list it walked
LEMMA O_UpdateList ==
  ASSUME Sound, NEW o \in [Blocks -> Lists], Owned(o), NEW p \in Inserters, UpdateList(p) PROVE Owned(o)'
<1> USE Basics
<1>1. Owned(o) OBVIOUS
<1>2. /\ pc[p] = "setList" /\ ins[p].list \in Lists /\ ins[p].cur \in Blocks
      /\ ins[p].cur <= nblocks
  <2>1. pc[p] = "setList" BY DEF UpdateList
  <2>2. ins[p].tid \in Indexed /\ ins[p].list = ListOf(ins[p].tid) /\ ins[p].cur # Nil
    BY <2>1 DEF Sound, Ready, InsertReady
  <2>3. ins[p].list \in Lists BY <2>2, ListOfType
  <2>4. ins[p].cur \in Blocks BY <2>2 DEF Sound, TypeOK, InsType
  <2>5. ins[p].cur <= nblocks BY DEF Sound, Bounded
  <2> QED BY <2>1, <2>3, <2>4, <2>5
<1>3. /\ list' = UpdatedList(ins[p].list, ins[p].cur, ins[p].orig) /\ page' = page /\ vac' = vac
      /\ pc' = [pc EXCEPT ![p] = "idle"] /\ ins' = [ins EXCEPT ![p] = NoInsert]
  <2>1. /\ list' = UpdatedList(ins[p].list, ins[p].cur, ins[p].orig) /\ page' = page /\ vac' = vac
        /\ EndInsert(p)
    BY DEF UpdateList, ListInfo
  <2> QED BY ONLY <2>1 DEF EndInsert
<1>4. Owns(o, ins[p].cur, ins[p].list) BY <1>1, <1>2 DEF Owned
<1>5. Apart(o) BY <1>1 DEF Owned
<1>6. Apart(o)' BY <1>2, <1>3, <1>4, <1>5, O_List
<1>7. \A q \in Inserters : pc'[q] # "idle" => pc[q] # "idle" /\ ins'[q] = ins[q]
  BY <1>3 DEF Sound, TypeOK
<1>8. pc'[Vacuum] = pc[Vacuum] BY <1>3 DEF Sound, TypeOK
<1>9. Owned(o)' BY <1>1, <1>3, <1>6, <1>7, <1>8 DEF Owned, Owns
<1> QED BY <1>9

\* VACUUM starts at the first page of a list
LEMMA O_BeginVacuum ==
  ASSUME Sound, NEW o \in [Blocks -> Lists], Owned(o), BeginVacuum PROVE Owned(o)'
<1> USE Basics
<1>1. Owned(o) OBVIOUS
<1>2. /\ vac'.op.list = 1 /\ vac'.op.cur = list[1].start /\ vac'.op.insert = Nil
      /\ pc' = [pc EXCEPT ![Vacuum] = "page"] /\ UNCHANGED <<page, list, ins>>
  BY DEF BeginVacuum, VacuumOf
<1>3. Owns(o, vac'.op.cur, vac'.op.list) /\ Owns(o, vac'.op.insert, vac'.op.list)
  BY <1>1, <1>2 DEF Owned, Apart, Owns
<1>4. \A q \in Inserters : pc'[q] = pc[q] BY <1>2 DEF Sound, TypeOK
<1>5. Owned(o)' BY <1>1, <1>2, <1>3, <1>4 DEF Owned, Apart, Owns
<1> QED BY <1>5

\* VACUUM follows the chain of its list, and remembers a page of it
LEMMA O_VacuumPage ==
  ASSUME Sound, NEW o \in [Blocks -> Lists], Owned(o), VacuumPage PROVE Owned(o)'
<1> USE Basics
<1>1. Owned(o) OBVIOUS
<1> DEFINE b == vac.op.cur
           gone == page[b].tids \cap vac.op.dead
           i == IF vac.op.insert = Nil /\ gone # {} THEN b ELSE vac.op.insert
<1>2. /\ b \in Blocks /\ b # Nil /\ page[b] \in PageType /\ pc[Vacuum] = "page"
  BY DEF VacuumPage, Sound, TypeOK, VacType, Nil
<1>3. /\ page' = [page EXCEPT ![b].tids = @ \ gone]
      /\ vac' = [vac EXCEPT !.op.cur = page[b].next, !.op.insert = i]
      /\ UNCHANGED <<list, pc, ins>>
  BY DEF VacuumPage
<1>4. \A c \in Blocks : page'[c].next = page[c].next /\ page'[c].tids \subseteq page[c].tids
  BY <1>2, <1>3 DEF Sound, TypeOK, PageType
<1>5. o[b] = vac.op.list BY <1>1, <1>2 DEF Owned, Owns
<1>6. Owns(o, page[b].next, vac.op.list) /\ Owns(o, i, vac.op.list)
  BY <1>1, <1>2, <1>5 DEF Owned, Apart, Owns
<1> HIDE DEF gone, i
<1>7. vac'.op.cur = page[b].next /\ vac'.op.insert = i /\ vac'.op.list = vac.op.list
  BY <1>3 DEF Sound, TypeOK, VacType
<1>8. Apart(o)' BY <1>1, <1>3, <1>4 DEF Owned, Apart, Owns
<1>9. Owned(o)' BY <1>1, <1>3, <1>6, <1>7, <1>8 DEF Owned, Owns
<1> QED BY <1>9

\* VACUUM moves the insert page of a list to a page of that list
LEMMA O_VacuumList ==
  ASSUME Sound, NEW o \in [Blocks -> Lists], Owned(o), VacuumList PROVE Owned(o)'
<1> USE Basics
<1>1. Owned(o) OBVIOUS
<1>2. /\ vac.op \in VacType /\ vac.op.list \in Lists /\ vac.op.insert \in Blocks \cup {Nil}
      /\ vac.op.insert <= nblocks /\ pc[Vacuum] = "page" /\ UNCHANGED <<page, ins>>
  BY DEF VacuumList, Sound, TypeOK, VacType, Bounded, Ready
<1>3. Apart(o) /\ Owns(o, vac.op.insert, vac.op.list) BY <1>1, <1>2 DEF Owned
<1>4. Apart(o)'
  <2>1. CASE vac.op.insert = Nil
    <3>1. list' = list BY <2>1 DEF VacuumList
    <3> QED BY <1>2, <1>3, <3>1 DEF Apart, Owns
  <2>2. CASE vac.op.insert # Nil
    <3>1. list' = UpdatedList(vac.op.list, vac.op.insert, Nil) /\ vac.op.insert \in Blocks
      BY <1>2, <2>2 DEF VacuumList
    <3> QED BY <1>2, <1>3, <3>1, O_List
  <2> QED BY <2>1, <2>2
<1>5. CASE vac.op.list < NLists
  <2> DEFINE l == vac.op.list + 1
  <2>1. l \in Lists BY <1>2, <1>5 DEF Lists
  <2>2. vac' = [vac EXCEPT !.op = VacuumOf(l, vac.op.dead)] /\ pc' = pc
    BY <1>5 DEF VacuumList
  <2>3. vac'.op = VacuumOf(l, vac.op.dead) BY <2>2 DEF Sound, TypeOK
  <2> HIDE DEF l
  <2>4. vac'.op.list = l /\ vac'.op.cur = list[l].start /\ vac'.op.insert = Nil
    BY <2>3 DEF VacuumOf
  <2>5. Owns(o, vac'.op.cur, vac'.op.list) /\ Owns(o, vac'.op.insert, vac'.op.list)
    BY <1>3, <2>1, <2>4 DEF Apart, Owns
  <2>6. Owned(o)' BY <1>1, <1>2, <1>4, <2>2, <2>5 DEF Owned, Owns
  <2> QED BY <2>6
<1>6. CASE ~(vac.op.list < NLists)
  <2>1. pc' = [pc EXCEPT ![Vacuum] = "idle"] BY <1>6 DEF VacuumList
  <2>2. pc'[Vacuum] = "idle" /\ \A q \in Inserters : pc'[q] = pc[q]
    BY <2>1 DEF Sound, TypeOK
  <2>3. Owned(o)' BY <1>1, <1>2, <1>4, <2>2 DEF Owned, Owns
  <2> QED BY <2>3
<1> QED BY <1>5, <1>6

\* A cancelled statement leaves pages and lists as they are
LEMMA O_Cancel ==
  ASSUME Sound, NEW o \in [Blocks -> Lists], Owned(o), NEW p \in Procs, Cancel(p) PROVE Owned(o)'
<1> USE Basics
<1>1. /\ pc' = [pc EXCEPT ![p] = "idle"] /\ UNCHANGED <<page, list>>
      /\ p \notin Scanners
  BY DEF Cancel
<1>2. CASE p = Vacuum
  <2>1. ins' = ins BY <1>2 DEF Cancel
  <2>2. pc'[Vacuum] = "idle" /\ \A q \in Inserters : pc'[q] = pc[q]
    BY <1>1, <1>2 DEF Sound, TypeOK
  <2> QED BY <1>1, <2>1, <2>2, O_Same
<1>3. CASE p # Vacuum
  <2>1. ins' = [ins EXCEPT ![p] = NoInsert] /\ vac' = vac /\ p \in Inserters
    BY <1>1, <1>3 DEF Cancel, Procs
  <2>2. /\ pc'[Vacuum] = pc[Vacuum] /\ pc'[p] = "idle"
        /\ \A q \in Inserters : q # p => pc'[q] = pc[q] /\ ins'[q] = ins[q]
    BY <1>1, <2>1 DEF Sound, TypeOK
  <2> QED BY <1>1, <2>1, <2>2, O_Same
<1> QED BY <1>2, <1>3

\* Every step leaves the pages with owners, and those there were with theirs
Succeeds(u, o) == \A c \in Blocks : c <= nblocks => u[c] = o[c]
LEMMA O_Next ==
  ASSUME Sound, NEW o \in [Blocks -> Lists], Owned(o), [Next]_vars
  PROVE  \E u \in [Blocks -> Lists] : Succeeds(u, o) /\ Owned(u)'
<1> SUFFICES ASSUME ~\E p \in Inserters : AppendPage(p) PROVE Owned(o)'
  BY O_AppendPage DEF Succeeds
<1>1. CASE UNCHANGED vars BY <1>1, O_Same DEF vars
<1>2. ASSUME NEW p \in Inserters, InsertStep(p) PROVE Owned(o)'
  BY <1>2, O_PutTuple, O_NextPage, O_UpdateList DEF InsertStep
<1>3. ASSUME NEW p \in Inserters, NEW t \in Tids, BeginInsert(p, t) PROVE Owned(o)'
  BY <1>3, O_BeginInsert
<1>4. CASE BeginVacuum \/ VacuumPage \/ VacuumList
  BY <1>4, O_BeginVacuum, O_VacuumPage, O_VacuumList
<1>5. ASSUME NEW p \in Scanners, ScanStep(p) \/ BeginScan(p) PROVE Owned(o)'
  <2>1. /\ UNCHANGED <<page, list, ins, vac>>
        /\ UNCHANGED pc \/ \E x : pc' = [pc EXCEPT ![p] = x]
    BY <1>5 DEF ScanStep, BeginScan, ScanList, ScanPage, ReturnTuple, NextBatch, EndScan
  <2>2. pc'[Vacuum] = pc[Vacuum] /\ \A q \in Inserters : pc'[q] = pc[q]
    BY <2>1, Basics DEF Sound, TypeOK
  <2> QED BY <2>1, <2>2, O_Same
<1>6. ASSUME NEW t \in Tids, RowDies(t) PROVE Owned(o)' BY <1>6, O_Same DEF RowDies
<1>7. ASSUME NEW p \in Procs, Cancel(p) PROVE Owned(o)' BY <1>7, O_Cancel
<1> QED BY <1>1, <1>2, <1>3, <1>4, <1>5, <1>6, <1>7 DEF Next

\* CREATE INDEX fills pages for one list at a time
LEMMA O_Init ==
  ASSUME Init
  PROVE  \E o \in [Blocks -> Lists] : Owned(o) /\ \A b \in 1..NBuilt : o[b] = BuiltOwner[b]
<1> USE Basics
<1> DEFINE o == [b \in Blocks |-> IF b <= NBuilt THEN BuiltOwner[b] ELSE 1]
<1>1. /\ NBuilt \in Blocks /\ NBuilt \in Nat /\ NBuilt <= NBlocks
      /\ BuiltOwner \in [1..NBuilt -> Lists]
      /\ \A b \in 1..NBuilt : \A t \in BuiltTids[b] : ListOf(t) = BuiltOwner[b]
  BY ConstantsAssumption DEF Blocks
<1>2. \A b \in Blocks : b <= NBuilt <=> b \in 1..NBuilt BY <1>1 DEF Blocks
<1>3. o \in [Blocks -> Lists] BY <1>1, <1>2
<1>4. \A b \in 1..NBuilt : b \in Blocks /\ b # Nil /\ o[b] = BuiltOwner[b]
  BY <1>1, <1>2 DEF Blocks, Nil
<1> HIDE DEF o
<1>5. \A l \in Lists : Owns(o, list[l].start, l) /\ Owns(o, list[l].insert, l)
  BY <1>4, BuiltPages DEF Init, Owns
<1>6. ASSUME NEW b \in Blocks
      PROVE  Owns(o, page[b].next, o[b]) /\ \A t \in page[b].tids : ListOf(t) = o[b]
  <2>1. CASE b <= NBuilt
    <3>1. page[b].tids = BuiltTids[b] /\ page[b].next = BuiltNext(b) BY <2>1 DEF Init
    <3>2. b \in 1..NBuilt BY <1>2, <2>1
    <3>3. BuiltNext(b) = Nil \/ (BuiltNext(b) \in 1..NBuilt
                                  /\ BuiltOwner[BuiltNext(b)] = BuiltOwner[b])
      BY <1>1, <3>2 DEF BuiltNext
    <3> QED BY <1>1, <1>4, <3>1, <3>2, <3>3 DEF Owns
  <2>2. CASE ~(b <= NBuilt)
    <3>1. page[b].tids = {} /\ page[b].next = Nil BY <2>2 DEF Init
    <3> QED BY <3>1 DEF Owns
  <2> QED BY <2>1, <2>2
<1>7. \A p \in Procs : pc[p] = "idle" BY DEF Init
<1>8. Owned(o) BY <1>5, <1>6, <1>7 DEF Owned, Apart
<1> QED BY <1>3, <1>4, <1>8

\* Lists never share a page, whoever appends to them and whichever of an
\* insert and VACUUM has the last word on an insert page: a tuple is always on
\* a page of the list it belongs to
THEOREM ListsSeparated == Spec => []Separated
<1>1. Init => Sound /\ OwnersExist BY S_Init, O_Init DEF OwnersExist
<1>2. Sound /\ OwnersExist /\ [Next]_vars => (Sound /\ OwnersExist)' BY S_Next, O_Next DEF OwnersExist
<1>3. OwnersExist => Separated BY DEF OwnersExist, Owned, Separated
<1> QED BY <1>1, <1>2, <1>3, PTL DEF Spec
=============================================================================
