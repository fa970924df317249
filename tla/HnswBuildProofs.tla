-------------------------- MODULE HnswBuildProofs --------------------------
(***************************************************************************)
(* Proofs about HnswBuild, for any number of participants and rows, any    *)
(* levels, values and amounts of memory: where the TIDs of a row are while *)
(* it is inserted in memory, flushed or inserted on disk; that the entry   *)
(* point is on the highest layer; and that the shared memory suffices.     *)
(***************************************************************************)
EXTENDS HnswBuild, NatOrder, FiniteSetTheorems, SequenceTheorems

-----------------------------------------------------------------------------
(* The inductive invariant                                                 *)

\* What participants do: with an element of their own that is not in the list
\* yet, with one that is, under flushLock, with a row that is nowhere yet, and
\* with a row at all
Fresh    == {"wait", "entry", "waitX", "entryX", "find", "dup", "add"}
Linking  == {"copy", "link", "store"}
InMemory == {"alloc"} \cup Fresh \cup Linking
Waits    == {"begin", "alloc", "flush", "disk"} \cup Fresh
Busy     == Waits \cup Linking \cup {"count"}
Ended    == {"await", "finished"}

BagsOf   == UNION {[S -> Nat] : S \in SUBSET Elems}
ElemType == [level : Levels, tids : SUBSET Elems, nbrs : [Levels -> BagsOf]]
OpType   == [row : Elems \cup {Nil}, entry : Elems \cup {Nil}, lc : 0..(MaxLevel + 1), todo : BagsOf]
GraphType == [list : Seq(Elems), entry : Elems \cup {Nil}, used : Nat, flushed : BOOLEAN, indtuples : Nat]
LockType == [flushS : SUBSET Workers, entryS : SUBSET Workers, entryX : SUBSET Workers, wait : SUBSET Workers]
DiskType == [flushed : Seq(Elems), entry : Elems \cup {Nil}, rows : SUBSET Elems]
Typed ==
  /\ next \in 1..(Rows + 1) /\ elem \in [Elems -> ElemType] /\ graph \in GraphType /\ lock \in LockType
  /\ op \in [Workers -> OpType] /\ pc \in [Workers -> Busy \cup Ended \cup {"scan"}]
  /\ done \in Nat /\ disk \in DiskType

\* Each participant has a row of its own; those in memory hold flushLock, so
\* that nobody is once the graph is flushed; the build ends after all have
Turns ==
  /\ \A w \in Workers : IF pc[w] \in Busy THEN op[w].row \in 1..(next - 1) /\ Val[op[w].row] # Null
                        ELSE op[w].row = Nil
  /\ \A v, w \in Workers : op[v].row = op[w].row /\ op[v].row # Nil => v = w
  /\ \A w \in Workers : pc[w] \in InMemory => w \in lock.flushS /\ ~graph.flushed
  /\ graph.flushed => disk.flushed = graph.list
  /\ \A w \in Workers : pc[w] \in Ended => next = Rows + 1
  /\ done = Cardinality({w \in Workers : pc[w] \in Ended})
  /\ pc[Leader] = "finished" => graph.flushed /\ \A w \in Workers : pc[w] \in Ended

\* A row that is nowhere, and one that is in one place
Added == ToSet(graph.list)
Waiting(r) == r >= next \/ Val[r] = Null \/ \E w \in Workers : op[w].row = r /\ pc[w] \in Waits
InList(r) == \E e \in Added : r \in elem[e].tids
Once(r) ==
  IF r \in disk.rows THEN ~InList(r)
  ELSE InList(r) /\ \A e, f \in Added : r \in elem[e].tids /\ r \in elem[f].tids => e = f
Elements ==
  /\ \A i, j \in 1..Len(graph.list) : graph.list[i] = graph.list[j] => i = j
  /\ \A w \in Workers : pc[w] \in Fresh => elem[op[w].row].tids = {op[w].row}
  /\ \A w \in Workers : pc[w] \in Linking => op[w].row \in Added
  /\ \A r \in Elems : IF Waiting(r) THEN r \notin disk.rows /\ r \notin Added /\ ~InList(r) ELSE Once(r)
  /\ \A e \in Added : \A r \in elem[e].tids : Val[r] = Val[e]

\* Links lead to elements of the list, so that a duplicate is added to one
Linked ==
  /\ \A e \in Elems, l \in Levels : DOMAIN elem[e].nbrs[l] \subseteq Added
  /\ graph.entry \in Added \cup {Nil} /\ \A w \in Workers : op[w].entry \in Added \cup {Nil}

Counted == {r \in 1..(next - 1) : Val[r] # Null /\ \A w \in Workers : op[w].row # r}
Inv == Typed /\ Turns /\ Elements /\ Linked /\ graph.indtuples = Cardinality(Counted)

-----------------------------------------------------------------------------
(* What steps keep                                                         *)

LEMMA Basics ==
  /\ Rows \in Nat /\ MaxLevel \in Nat /\ Leader \in Workers /\ IsFiniteSet(Workers)
  /\ ElemBytes \in [Levels -> Nat] /\ Nil = 0 /\ Elems = 1..Rows /\ Levels = 0..MaxLevel
BY ConstantsAssumption DEF Elems, Nil, Levels

LEMMA AddedIs ==
  ASSUME graph \in GraphType
  PROVE  Added = {graph.list[i] : i \in 1..Len(graph.list)} /\ Added \subseteq Elems
<1>1. graph.list \in Seq(Elems) BY DEF GraphType
<1>2. DOMAIN graph.list = 1..Len(graph.list) BY <1>1
<1>3. Added = {graph.list[i] : i \in 1..Len(graph.list)} BY <1>2 DEF Added, ToSet
<1> QED BY <1>1, <1>3

\* The elements of a bag
LEMMA BagsAre ==
  ASSUME NEW B \in BagsOf
  PROVE  /\ DOMAIN B \subseteq Elems /\ B \in [DOMAIN B -> Nat] /\ BagToSet(B) = DOMAIN B
         /\ \A p : BagToSet(B (-) SetToBag({p})) \subseteq BagToSet(B) /\ B (-) SetToBag({p}) \in BagsOf
         /\ \A e \in Elems : BagToSet(B (+) SetToBag({e})) = BagToSet(B) \cup {e} /\ B (+) SetToBag({e}) \in BagsOf
<1>1. DOMAIN B \subseteq Elems /\ B \in [DOMAIN B -> Nat] /\ BagToSet(B) = DOMAIN B BY DEF BagsOf, BagToSet
<1>2. ASSUME NEW p
      PROVE  BagToSet(B (-) SetToBag({p})) \subseteq BagToSet(B) /\ B (-) SetToBag({p}) \in BagsOf
  <2> DEFINE C == [e \in DOMAIN B |-> IF e \in DOMAIN SetToBag({p}) THEN B[e] - SetToBag({p})[e] ELSE B[e]]
             T == {d \in DOMAIN C : C[d] > 0}
  <2>1. B (-) SetToBag({p}) = [e \in T |-> C[e]] BY DEF (-)
  <2>2. \A e \in DOMAIN B : C[e] \in Int
    <3>1. \A e \in DOMAIN SetToBag({p}) : SetToBag({p})[e] = 1 BY DEF SetToBag
    <3> QED BY <1>1, <3>1
  <2>3. T \subseteq DOMAIN B /\ \A e \in T : C[e] \in Nat
    <3>1. DOMAIN C = DOMAIN B OBVIOUS
    <3> HIDE DEF C
    <3> QED BY <2>2, <3>1
  <2> HIDE DEF C, T
  <2>4. [e \in T |-> C[e]] \in [T -> Nat] BY <2>3
  <2>5. T \in SUBSET Elems BY <1>1, <2>3
  <2> QED BY <1>1, <2>1, <2>3, <2>4, <2>5 DEF BagsOf, BagToSet
<1>3. ASSUME NEW e \in Elems
      PROVE  BagToSet(B (+) SetToBag({e})) = BagToSet(B) \cup {e} /\ B (+) SetToBag({e}) \in BagsOf
  <2> DEFINE S == SetToBag({e})
  <2>1. DOMAIN S = {e} /\ S[e] = 1 BY DEF SetToBag
  <2> HIDE DEF S
  <2> DEFINE C == B (+) S
  <2>2. C = [x \in (DOMAIN B) \cup (DOMAIN S) |->
               (IF x \in DOMAIN B THEN B[x] ELSE 0) + (IF x \in DOMAIN S THEN S[x] ELSE 0)] BY DEF (+)
  <2> HIDE DEF C
  <2>3. C \in [DOMAIN B \cup {e} -> Nat] BY <1>1, <2>1, <2>2
  <2>4. DOMAIN C = DOMAIN B \cup {e} /\ DOMAIN B \cup {e} \in SUBSET Elems BY <1>1, <2>3
  <2>5. C \in BagsOf BY <2>3, <2>4 DEF BagsOf
  <2> QED BY <1>1, <2>4, <2>5 DEF BagToSet, S, C
<1> QED BY <1>1, <1>2, <1>3

LEMMA SetsAreBags ==
  ASSUME NEW S, S \subseteq Elems PROVE SetToBag(S) \in BagsOf /\ DOMAIN SetToBag(S) = S
<1>1. SetToBag(S) \in [S -> Nat] BY DEF SetToBag
<1> QED BY <1>1 DEF BagsOf

\* Links lead from elements of the list to elements of the list
LEMMA ReachedAdded ==
  ASSUME Typed, Linked, NEW from \in Added, NEW lc \in Levels PROVE Reached(from, lc) \subseteq Added
<1> DEFINE G(H) == [i \in 0..Rows |-> IF i = 0 THEN {from} ELSE More(H[i - 1], lc)]
<1>0. Rows \in Nat /\ 0 \in 0..Rows /\ Rows \in 0..Rows BY Basics
<1>1. ASSUME NEW S \in SUBSET Added PROVE More(S, lc) \in SUBSET Added
  <2>1. ASSUME NEW e \in S, NEW l \in lc..MaxLevel PROVE BagToSet(elem[e].nbrs[l]) \subseteq Added
    <3>1. e \in Elems /\ l \in Levels BY <2>1, AddedIs, Basics DEF Typed
    <3> QED BY <3>1 DEF Linked, BagToSet
  <2> QED BY <2>1 DEF More
<1>2. \E H : H = G(H)
  <2> DEFINE F == [i \in 1..Rows |-> [S \in SUBSET Added |-> More(S, lc)]]
  <2>1. F \in Steps(Rows, SUBSET Added) BY <1>1 DEF Steps
  <2>2. {from} \in SUBSET Added OBVIOUS
  <2> HIDE DEF F
  <2>3. PICK g : Iterates(g, Rows, SUBSET Added, {from}, F) BY <1>0, <2>1, <2>2, Iteration
  <2>4. g \in [0..Rows -> SUBSET Added] /\ g[0] = {from} /\ \A i \in 1..Rows : g[i] = F[i][g[i - 1]]
    BY <2>3 DEF Iterates
  <2>5. ASSUME NEW i \in 1..Rows PROVE g[i] = More(g[i - 1], lc)
    <3>1. i - 1 \in 0..Rows /\ g[i - 1] \in SUBSET Added BY <1>0, <2>4
    <3> QED BY <2>4, <3>1 DEF F
  <2>6. \A i \in 0..Rows : i = 0 \/ i \in 1..Rows BY <1>0
  <2>7. g = [i \in 0..Rows |-> IF i = 0 THEN {from} ELSE More(g[i - 1], lc)]
    BY <1>0, <2>4, <2>5, <2>6
  <2> QED BY <2>7
<1>3. PICK H : H = G(H) /\ Reached(from, lc) = {e \in H[Rows] : Level(e) >= lc}
  <2> HIDE <1>0
  <2> QED BY <1>2, Zenon DEF Reached
<1>4. H[0] = {from} /\ \A i \in 0..(Rows - 1) : H[i + 1] = More(H[i], lc)
  <2>1. H = [i \in 0..Rows |-> IF i = 0 THEN {from} ELSE More(H[i - 1], lc)] BY <1>3
  <2>2. \A i \in 0..(Rows - 1) : i + 1 \in 0..Rows /\ i + 1 # 0 /\ (i + 1) - 1 = i BY <1>0
  <2> HIDE DEF G
  <2> QED BY <1>0, <2>1, <2>2
<1> DEFINE T == {i \in 0..Rows : H[i] \in SUBSET Added}
<1>5. 0 \in T BY <1>0, <1>4
<1>6. ASSUME NEW i \in 0..(Rows - 1), i \in T PROVE i + 1 \in T
  <2>1. i + 1 \in 0..Rows BY <1>0
  <2> QED BY <1>1, <1>4, <1>6, <2>1
<1> HIDE DEF T
<1>7. 0..Rows \subseteq T BY ONLY <1>0, <1>5, <1>6, UpTo
<1>8. H[Rows] \subseteq Added BY <1>0, <1>7 DEF T
<1> QED BY <1>3, <1>8

\* The places of rows are as they were if the list, the TIDs and the rows on
\* disk are, and the rows that wait
LEMMA ElementsKept ==
  ASSUME Elements, graph'.list = graph.list, disk'.rows = disk.rows,
         \A e \in Added : elem'[e].tids = elem[e].tids,
         \A r \in Elems : Waiting(r)' <=> Waiting(r),
         \A w \in Workers : pc'[w] \in Fresh => elem'[op'[w].row].tids = {op'[w].row},
         \A w \in Workers : pc'[w] \in Linking => op'[w].row \in Added
  PROVE  Elements'
<1>1. Added' = Added BY DEF Added
<1>2. \A r : InList(r)' <=> InList(r) BY <1>1 DEF InList
<1>3. \A r : Once(r)' <=> Once(r) BY <1>1, <1>2 DEF Once
<1>4. /\ \A i, j \in 1..Len(graph.list) : graph.list[i] = graph.list[j] => i = j
      /\ \A r \in Elems : IF Waiting(r) THEN r \notin disk.rows /\ r \notin Added /\ ~InList(r) ELSE Once(r)
      /\ \A e \in Added : \A r \in elem[e].tids : Val[r] = Val[e]
  BY DEF Elements
<1>5. \A i, j \in 1..Len(graph'.list) : graph'.list[i] = graph'.list[j] => i = j BY <1>4
<1>7. \A w \in Workers : pc'[w] \in Linking => op'[w].row \in Added' BY <1>1
<1>8. ASSUME NEW r \in Elems
      PROVE  IF Waiting(r)' THEN r \notin disk'.rows /\ r \notin Added' /\ ~InList(r)' ELSE Once(r)'
  BY <1>1, <1>2, <1>3, <1>4
<1>9. \A e \in Added' : \A r \in elem'[e].tids : Val[r] = Val[e] BY <1>1, <1>4
<1> QED BY <1>5, <1>7, <1>8, <1>9 DEF Elements

LEMMA TurnsKept ==
  ASSUME Turns, next' = next, done' = done, \A v \in Workers : op'[v].row = op[v].row,
         \A v \in Workers : pc'[v] \in Busy <=> pc[v] \in Busy,
         \A v \in Workers : pc'[v] \in Ended <=> pc[v] \in Ended,
         \A v \in Workers : pc'[v] = "finished" <=> pc[v] = "finished",
         \A v \in Workers : pc'[v] \in InMemory => v \in lock'.flushS /\ ~graph'.flushed,
         graph'.flushed => disk'.flushed = graph'.list, graph.flushed => graph'.flushed
  PROVE  Turns'
<1>1. {v \in Workers : pc'[v] \in Ended} = {v \in Workers : pc[v] \in Ended} OBVIOUS
<1>2. \A v \in Workers : IF pc'[v] \in Busy THEN op'[v].row \in 1..(next' - 1) /\ Val[op'[v].row] # Null
                         ELSE op'[v].row = Nil
  BY DEF Turns
<1>3. \A u, v \in Workers : op'[u].row = op'[v].row /\ op'[u].row # Nil => u = v BY DEF Turns
<1>4. \A v \in Workers : pc'[v] \in Ended => next' = Rows + 1 BY DEF Turns
<1>5. done' = Cardinality({v \in Workers : pc'[v] \in Ended}) BY <1>1 DEF Turns
<1>6. pc'[Leader] = "finished" => graph'.flushed /\ \A v \in Workers : pc'[v] \in Ended BY Basics DEF Turns
<1> QED BY <1>2, <1>3, <1>4, <1>5, <1>6 DEF Turns

\* A step of w with its row, which stays where it is
Rests ==
  /\ next' = next /\ done' = done /\ disk' = disk
  /\ graph'.list = graph.list /\ graph'.flushed = graph.flushed /\ graph'.indtuples = graph.indtuples
  /\ \A v \in Workers : op'[v].row = op[v].row
  /\ \A e \in Elems : elem'[e].tids = elem[e].tids
Goes(w, label) ==
  /\ pc' = [pc EXCEPT ![w] = label] /\ pc[w] \in Busy /\ label \in Busy
  /\ label \in Waits <=> pc[w] \in Waits
  /\ label \in Fresh => pc[w] \in Fresh
  /\ label \in Linking => pc[w] \in Linking
  /\ label \in InMemory => w \in lock'.flushS /\ ~graph.flushed
  /\ \A v \in Workers : v # w /\ v \in lock.flushS => v \in lock'.flushS
LEMMA LabelsDiffer ==
  \A l \in Busy : l \notin Ended /\ l # "scan" /\ l # "await" /\ l # "finished"
BY DEF Busy, Ended, Waits, Fresh, Linking
LEMMA RowsKept ==
  ASSUME Inv, NEW w \in Workers, NEW label, Rests, Goes(w, label), Typed', Linked' PROVE Inv'
<1>1. Typed /\ Turns /\ Elements /\ graph.indtuples = Cardinality(Counted) BY DEF Inv
<1>2. /\ \A v \in Workers : pc'[v] = IF v = w THEN label ELSE pc[v]
      /\ pc \in [Workers -> Busy \cup Ended \cup {"scan"}] /\ graph \in GraphType
      /\ pc[w] \in Busy /\ label \in Busy /\ label \notin Ended /\ pc[w] \notin Ended /\ label # "finished"
      /\ pc[w] # "finished"
  BY <1>1, LabelsDiffer DEF Typed, Goes
<1>3. \A v \in Workers : op'[v].row \in Elems \cup {Nil} /\ op'[v].row = op[v].row BY <1>1 DEF Typed, OpType, Rests
<1>4. Counted' = Counted BY <1>3 DEF Counted, Rests
<1>5. \A r \in Elems : Waiting(r)' <=> Waiting(r)
  <2>1. \A v \in Workers : pc'[v] \in Waits <=> pc[v] \in Waits BY <1>2 DEF Goes
  <2> QED BY <1>3, <2>1 DEF Waiting, Rests
<1>6. Elements'
  <2>1. \A v \in Workers : pc'[v] \in Fresh => pc[v] \in Fresh BY <1>2 DEF Goes
  <2>2. \A v \in Workers : pc'[v] \in Linking => pc[v] \in Linking BY <1>2 DEF Goes
  <2>3. \A v \in Workers : pc[v] \in Fresh => op[v].row \in Elems
    <3>1. \A v \in Workers : pc[v] \in Fresh => pc[v] \in Busy BY DEF Busy, Waits
    <3>2. next \in 1..(Rows + 1) BY <1>1 DEF Typed
    <3> QED BY <1>1, <3>1, <3>2, Basics DEF Turns
  <2>4. \A e \in Added : elem'[e].tids = elem[e].tids BY <1>2, AddedIs DEF Rests
  <2>5. graph'.list = graph.list /\ disk'.rows = disk.rows BY DEF Rests
  <2>6. \A v \in Workers : pc'[v] \in Fresh => elem'[op'[v].row].tids = {op'[v].row}
    BY <1>1, <1>3, <2>1, <2>3 DEF Rests, Elements
  <2>7. \A v \in Workers : pc'[v] \in Linking => op'[v].row \in Added BY <1>1, <1>3, <2>2 DEF Elements
  <2> QED BY <1>1, <1>5, <2>4, <2>5, <2>6, <2>7, ElementsKept
<1>7. Turns'
  <2>1. \A v \in Workers : pc'[v] \in Busy <=> pc[v] \in Busy BY <1>2
  <2>2. \A v \in Workers : pc'[v] \in Ended <=> pc[v] \in Ended BY <1>2
  <2>3. \A v \in Workers : pc'[v] = "finished" <=> pc[v] = "finished" BY <1>2
  <2>4. \A v \in Workers : pc'[v] \in InMemory => v \in lock'.flushS /\ ~graph'.flushed
    BY <1>1, <1>2 DEF Turns, Goes, Rests
  <2>5. graph'.flushed => disk'.flushed = graph'.list BY <1>1 DEF Turns, Rests
  <2>6. next' = next /\ done' = done /\ (graph.flushed => graph'.flushed) BY DEF Rests
  <2> QED BY <1>1, <1>3, <2>1, <2>2, <2>3, <2>4, <2>5, <2>6, TurnsKept
<1> QED BY <1>1, <1>4, <1>6, <1>7 DEF Inv, Rests

-----------------------------------------------------------------------------
(* Steps with a row that stays where it is                                 *)

LEMMA Labels ==
  ASSUME Typed, NEW w \in Workers, NEW label
  PROVE  /\ label \in Busy \cup Ended \cup {"scan"} =>
              [pc EXCEPT ![w] = label] \in [Workers -> Busy \cup Ended \cup {"scan"}]
         /\ op[w] \in OpType /\ op[w].row \in Elems \cup {Nil} /\ op[w].entry \in Elems \cup {Nil}
         /\ lock.flushS \in SUBSET Workers /\ lock.entryS \in SUBSET Workers
         /\ lock.entryX \in SUBSET Workers /\ lock.wait \in SUBSET Workers
         /\ graph.flushed \in BOOLEAN
BY DEF Typed, OpType, LockType, GraphType

\* The row of a participant that has one
LEMMA RowIs ==
  ASSUME Typed, Turns, NEW w \in Workers, pc[w] \in Busy
  PROVE  op[w].row \in Elems /\ op[w].row # Nil /\ op[w].row < next /\ op[w].row \in 1..(next - 1)
         /\ Val[op[w].row] # Null
<1>1. next \in 1..(Rows + 1) /\ Rows \in Nat /\ Nil = 0 /\ Elems = 1..Rows BY Basics DEF Typed
<1>2. op[w].row \in 1..(next - 1) /\ Val[op[w].row] # Null BY DEF Turns
<1>r. PICK r : r = op[w].row OBVIOUS
<1>3. r \in 1..(next - 1) BY <1>2, <1>r
<1>4. r \in 1..Rows /\ r # 0 /\ r < next BY <1>1, <1>3
<1> QED BY <1>1, <1>2, <1>4, <1>r

\* A step that changes no more than locks and labels
LEMMA LocksKept ==
  ASSUME Inv, NEW w \in Workers, NEW label, Goes(w, label), lock' \in LockType,
         next' = next /\ elem' = elem /\ graph' = graph /\ op' = op /\ done' = done /\ disk' = disk
  PROVE  Inv'
<1>1. Typed /\ Linked BY DEF Inv
<1>2. Typed'
  <2>1. pc' \in [Workers -> Busy \cup Ended \cup {"scan"}] BY <1>1, Labels DEF Goes
  <2> QED BY <1>1, <2>1 DEF Typed
<1>3. Linked' BY <1>1 DEF Linked, Added
<1>4. Rests BY DEF Rests
<1> QED BY <1>2, <1>3, <1>4, RowsKept

LEMMA BeginInsertKeeps == ASSUME Inv, NEW w \in Workers, BeginInsert(w) PROVE Inv'
<1>1. Typed /\ Turns BY DEF Inv
<1>2. /\ pc[w] = "begin" /\ next' = next /\ elem' = elem /\ graph' = graph /\ op' = op /\ done' = done /\ disk' = disk
      /\ pc' = [pc EXCEPT ![w] = IF graph.flushed THEN "disk" ELSE "alloc"]
      /\ lock' = IF graph.flushed THEN lock ELSE [lock EXCEPT !.flushS = lock.flushS \cup {w}]
  BY DEF BeginInsert, Goto
<1>3. lock' \in LockType /\ \A v \in Workers : v \in lock'.flushS <=> (v \in lock.flushS \/ (v = w /\ ~graph.flushed))
  BY <1>1, <1>2 DEF Typed, LockType
<1> DEFINE label == IF graph.flushed THEN "disk" ELSE "alloc"
<1>4. /\ label \in Busy /\ label \in Waits /\ label \notin Fresh /\ label \notin Linking /\ pc[w] \in Busy /\ pc[w] \in Waits
      /\ label \in InMemory => ~graph.flushed
  BY <1>2 DEF Busy, Waits, Fresh, Linking, InMemory
<1>5. pc' = [pc EXCEPT ![w] = label] BY <1>2
<1> HIDE DEF label
<1>6. Goes(w, label) BY <1>3, <1>4, <1>5 DEF Goes
<1> QED BY <1>2, <1>3, <1>6, LocksKept

LEMMA OutOfMemoryKeeps == ASSUME Inv, NEW w \in Workers, OutOfMemory(w) PROVE Inv'
<1>1. Typed /\ Turns BY DEF Inv
<1>2. /\ pc[w] = "alloc" /\ next' = next /\ elem' = elem /\ graph' = graph /\ op' = op /\ done' = done /\ disk' = disk
      /\ pc' = [pc EXCEPT ![w] = "flush"] /\ lock' = [lock EXCEPT !.flushS = lock.flushS \ {w}]
  BY DEF OutOfMemory, Goto
<1>3. lock' \in LockType /\ \A v \in Workers : v # w /\ v \in lock.flushS => v \in lock'.flushS
  BY <1>1, <1>2 DEF Typed, LockType
<1>4. /\ "flush" \in Busy /\ "flush" \in Waits /\ "flush" \notin Fresh /\ "flush" \notin Linking /\ "flush" \notin InMemory
      /\ pc[w] \in Busy /\ pc[w] \in Waits
  BY <1>2 DEF Busy, Waits, Fresh, Linking, InMemory
<1>6. Goes(w, "flush") BY <1>2, <1>3, <1>4 DEF Goes
<1> QED BY <1>2, <1>3, <1>6, LocksKept

\* Between two labels before the element is in the list, or after
LEMMA GoesOn ==
  ASSUME Inv, NEW w \in Workers, NEW label, pc' = [pc EXCEPT ![w] = label], lock'.flushS = lock.flushS,
         \/ pc[w] \in Fresh /\ label \in Fresh
         \/ pc[w] \in Linking /\ label \in Linking
  PROVE  Goes(w, label)
<1>1. pc[w] \in InMemory BY DEF InMemory
<1>2. w \in lock.flushS /\ ~graph.flushed BY <1>1 DEF Inv, Turns
<1>3. /\ \A l \in Fresh : l \in Waits /\ l \in Busy /\ l \notin Linking
      /\ \A l \in Linking : l \notin Waits /\ l \in Busy /\ l \notin Fresh
  BY DEF Waits, Busy, Fresh, Linking
<1> QED BY <1>2, <1>3 DEF Goes

LEMMA WaitForEntryKeeps == ASSUME Inv, NEW w \in Workers, WaitForEntry(w) PROVE Inv'
<1>1. Typed BY DEF Inv
<1>2. /\ pc[w] = "wait" /\ next' = next /\ elem' = elem /\ graph' = graph /\ op' = op /\ done' = done /\ disk' = disk
      /\ pc' = [pc EXCEPT ![w] = "entry"] /\ lock' = lock
  BY DEF WaitForEntry, Goto
<1>3. Goes(w, "entry") BY <1>2, GoesOn DEF Fresh
<1> QED BY <1>1, <1>2, <1>3, LocksKept DEF Typed

LEMMA LockWaitKeeps == ASSUME Inv, NEW w \in Workers, LockWait(w) PROVE Inv'
<1>1. Typed BY DEF Inv
<1>2. /\ pc[w] = "waitX" /\ next' = next /\ elem' = elem /\ graph' = graph /\ op' = op /\ done' = done /\ disk' = disk
      /\ pc' = [pc EXCEPT ![w] = "entryX"] /\ lock' = [lock EXCEPT !.wait = {w}]
  BY DEF LockWait, Goto
<1>3. lock' \in LockType /\ lock'.flushS = lock.flushS BY <1>1, <1>2 DEF Typed, LockType
<1>4. Goes(w, "entryX") BY <1>2, <1>3, GoesOn DEF Fresh
<1> QED BY <1>2, <1>3, <1>4, LocksKept

LEMMA NoDuplicateKeeps == ASSUME Inv, NEW w \in Workers, NoDuplicate(w) PROVE Inv'
<1>1. Typed BY DEF Inv
<1>2. /\ pc[w] = "dup" /\ next' = next /\ elem' = elem /\ graph' = graph /\ op' = op /\ done' = done /\ disk' = disk
      /\ pc' = [pc EXCEPT ![w] = "add"] /\ lock' = lock
  BY DEF NoDuplicate, Goto
<1>3. Goes(w, "add") BY <1>2, GoesOn DEF Fresh
<1> QED BY <1>1, <1>2, <1>3, LocksKept DEF Typed

\* A participant learns the entry point
LEMMA EntryTaken ==
  ASSUME Inv, NEW w \in Workers, NEW label \in Fresh, pc[w] \in Fresh, pc' = [pc EXCEPT ![w] = label],
         lock' \in LockType, lock'.flushS = lock.flushS, op' = [op EXCEPT ![w].entry = graph.entry],
         next' = next /\ elem' = elem /\ graph' = graph /\ done' = done /\ disk' = disk
  PROVE  Inv'
<1>1. Typed /\ Linked BY DEF Inv
<1>2. Goes(w, label) BY GoesOn
<1>3. graph.entry \in Elems \cup {Nil} BY <1>1 DEF Typed, GraphType
<1>4. /\ op' \in [Workers -> OpType] /\ \A v \in Workers : op'[v].row = op[v].row
      /\ \A v \in Workers : op'[v].entry = IF v = w THEN graph.entry ELSE op[v].entry
  BY <1>1, <1>3 DEF Typed, OpType
<1>5. Typed'
  <2>1. pc' \in [Workers -> Busy \cup Ended \cup {"scan"}] BY <1>1, <1>2, Labels DEF Goes
  <2> QED BY <1>1, <1>4, <2>1 DEF Typed
<1>6. Linked' BY <1>1, <1>4 DEF Linked, Added
<1>7. Rests BY <1>4 DEF Rests
<1> QED BY <1>2, <1>5, <1>6, <1>7, RowsKept

LEMMA GetEntryKeeps == ASSUME Inv, NEW w \in Workers, GetEntry(w) PROVE Inv'
<1>1. Typed BY DEF Inv
<1>2. /\ pc[w] = "entry" /\ next' = next /\ elem' = elem /\ graph' = graph /\ done' = done /\ disk' = disk
  BY DEF GetEntry
<1>3. CASE Rises(w, graph.entry)
  <2>1. pc' = [pc EXCEPT ![w] = "waitX"] /\ lock' = lock /\ op' = op BY <1>3 DEF GetEntry, Goto
  <2>2. Goes(w, "waitX") BY <1>2, <2>1, GoesOn DEF Fresh
  <2> QED BY <1>1, <1>2, <2>1, <2>2, LocksKept DEF Typed
<1>4. CASE ~Rises(w, graph.entry)
  <2>1. pc' = [pc EXCEPT ![w] = "find"] /\ lock' = [lock EXCEPT !.entryS = lock.entryS \cup {w}]
        /\ op' = [op EXCEPT ![w].entry = graph.entry]
    BY <1>4 DEF GetEntry, Goto
  <2>2. lock' \in LockType /\ lock'.flushS = lock.flushS BY <1>1, <2>1 DEF Typed, LockType
  <2>3. "find" \in Fresh /\ pc[w] \in Fresh BY <1>2 DEF Fresh
  <2> QED BY <1>2, <2>1, <2>2, <2>3, EntryTaken
<1> QED BY <1>3, <1>4

LEMMA LockEntryKeeps == ASSUME Inv, NEW w \in Workers, LockEntry(w) PROVE Inv'
<1>1. Typed BY DEF Inv
<1>2. /\ pc[w] = "entryX" /\ next' = next /\ elem' = elem /\ graph' = graph /\ done' = done /\ disk' = disk
      /\ pc' = [pc EXCEPT ![w] = "find"] /\ lock' = [lock EXCEPT !.entryX = {w}, !.wait = {}]
      /\ op' = [op EXCEPT ![w].entry = graph.entry]
  BY DEF LockEntry, Goto, LatestEntry
<1>3. lock' \in LockType /\ lock'.flushS = lock.flushS BY <1>1, <1>2 DEF Typed, LockType
<1>4. "find" \in Fresh /\ pc[w] \in Fresh BY <1>2 DEF Fresh
<1> QED BY <1>2, <1>3, <1>4, EntryTaken

LEMMA FindNeighborsKeeps == ASSUME Inv, NEW w \in Workers, FindNeighbors(w) PROVE Inv'
<1>1. Typed /\ Turns /\ Linked BY DEF Inv
<1>e. PICK e : e = op[w].row OBVIOUS
<1>2. /\ pc[w] = "find" /\ next' = next /\ graph' = graph /\ lock' = lock /\ op' = op /\ done' = done /\ disk' = disk
      /\ pc' = [pc EXCEPT ![w] = "dup"]
  BY DEF FindNeighbors, Goto
<1>3. PICK f \in [Levels -> SUBSET Elems] :
        /\ \A lc \in Levels : f[lc] \in NeighborSets(w, lc)
        /\ elem' = [elem EXCEPT ![e].nbrs = [lc \in Levels |-> SetToBag(f[lc])]]
  BY <1>e DEF FindNeighbors
<1>4. e \in Elems
  <2>1. pc[w] \in Busy BY <1>2 DEF Busy, Waits, Fresh
  <2> QED BY <1>1, <1>e, <2>1, RowIs
<1>5. ASSUME NEW lc \in Levels PROVE SetToBag(f[lc]) \in BagsOf /\ DOMAIN SetToBag(f[lc]) \subseteq Added
  <2>1. f[lc] \subseteq Added
    <3>1. CASE ~Shared(w, lc)
      <4>1. f[lc] = {} BY <1>3, <3>1 DEF NeighborSets
      <4> QED BY <4>1
    <3>2. CASE Shared(w, lc)
      <4>1. op[w].entry \in Added BY <1>1, <3>2 DEF Shared, Linked
      <4>2. f[lc] \in SUBSET Reached(op[w].entry, lc) BY <1>3, <3>2 DEF NeighborSets
      <4>3. Reached(op[w].entry, lc) \subseteq Added BY <1>1, <4>1, ReachedAdded
      <4> QED BY <4>2, <4>3
    <3> QED BY <3>1, <3>2
  <2> QED BY <1>3, <2>1, SetsAreBags
<1>n. PICK nb : nb = [lc \in Levels |-> SetToBag(f[lc])] OBVIOUS
<1>6. nb \in [Levels -> BagsOf] BY <1>5, <1>n
<1>7. /\ elem' \in [Elems -> ElemType]
      /\ \A x \in Elems : elem'[x].tids = elem[x].tids /\ elem'[x].nbrs = IF x = e THEN nb ELSE elem[x].nbrs
  <2>1. elem' = [elem EXCEPT ![e].nbrs = nb] BY <1>3, <1>n
  <2> QED BY <1>1, <1>4, <1>6, <2>1 DEF Typed, ElemType
<1>8. Typed'
  <2>1. pc' \in [Workers -> Busy \cup Ended \cup {"scan"}] BY <1>1, <1>2, Labels DEF Busy, Waits, Fresh
  <2> QED BY <1>1, <1>2, <1>7, <2>1 DEF Typed
<1>9. Linked'
  <2>1. \A x \in Elems, l \in Levels : DOMAIN elem'[x].nbrs[l] \subseteq Added BY <1>1, <1>5, <1>7, <1>n DEF Linked
  <2>2. Added' = Added BY <1>2 DEF Added
  <2> QED BY <1>1, <1>2, <2>1, <2>2 DEF Linked
<1>10. Goes(w, "dup") BY <1>2, GoesOn DEF Fresh
<1>11. Rests BY <1>2, <1>7 DEF Rests
<1> QED BY <1>8, <1>9, <1>10, <1>11, RowsKept

LEMMA CopyNeighborsKeeps == ASSUME Inv, NEW w \in Workers, CopyNeighbors(w) PROVE Inv'
<1>1. Typed /\ Turns /\ Linked BY DEF Inv
<1>2. /\ pc[w] = "copy" /\ next' = next /\ elem' = elem /\ graph' = graph /\ lock' = lock /\ done' = done /\ disk' = disk
  BY DEF CopyNeighbors
<1>3. CASE op[w].lc = 0
  <2>1. pc' = [pc EXCEPT ![w] = "store"] /\ op' = op BY <1>3 DEF CopyNeighbors, Goto
  <2>2. Goes(w, "store") BY <1>2, <2>1, GoesOn DEF Linking
  <2> QED BY <1>1, <1>2, <2>1, <2>2, LocksKept DEF Typed
<1>4. CASE op[w].lc # 0
  <2>1. /\ pc' = [pc EXCEPT ![w] = "link"]
        /\ op' = [op EXCEPT ![w].lc = op[w].lc - 1, ![w].todo = elem[op[w].row].nbrs[op[w].lc - 1]]
    BY <1>4 DEF CopyNeighbors, Goto
  <2>k. PICK k, bag : k = op[w].lc - 1 /\ bag = elem[op[w].row].nbrs[op[w].lc - 1] OBVIOUS
  <2>2. k \in Levels /\ k \in 0..(MaxLevel + 1)
    <3>1. op[w].lc \in 0..(MaxLevel + 1) BY <1>1, Labels DEF OpType
    <3> QED BY <1>4, <2>k, <3>1, Basics
  <2>3. bag \in BagsOf
    <3>1. pc[w] \in Busy BY <1>2 DEF Busy, Linking
    <3>2. op[w].row \in Elems BY <1>1, <3>1, RowIs
    <3>3. elem[op[w].row] \in ElemType BY <1>1, <3>2 DEF Typed
    <3> QED BY <2>2, <2>k, <3>3 DEF ElemType
  <2>4. op' = [op EXCEPT ![w].lc = k, ![w].todo = bag] BY <2>1, <2>k
  <2>5. /\ op' \in [Workers -> OpType] /\ \A v \in Workers : op'[v].row = op[v].row /\ op'[v].entry = op[v].entry
    <3>1. op \in [Workers -> OpType] BY <1>1 DEF Typed
    <3>2. PICK o : o = op[w] OBVIOUS
    <3>3. o \in OpType BY <3>1, <3>2
    <3>4. op' = [op EXCEPT ![w] = [o EXCEPT !.lc = k, !.todo = bag]] BY <2>4, <3>1, <3>2
    <3>5. [o EXCEPT !.lc = k, !.todo = bag] \in OpType BY ONLY <2>2, <2>3, <3>3 DEF OpType
    <3>6. /\ [o EXCEPT !.lc = k, !.todo = bag].row = o.row
          /\ [o EXCEPT !.lc = k, !.todo = bag].entry = o.entry
      BY ONLY <3>3 DEF OpType
    <3>7. PICK u : u = [o EXCEPT !.lc = k, !.todo = bag] OBVIOUS
    <3> QED BY ONLY <3>1, <3>2, <3>4, <3>5, <3>6, <3>7
  <2>6. Goes(w, "link") BY <1>2, <2>1, GoesOn DEF Linking
  <2>7. Typed'
    <3>1. pc' \in [Workers -> Busy \cup Ended \cup {"scan"}] BY <1>1, <2>1, Labels DEF Busy, Linking
    <3> QED BY <1>1, <1>2, <2>5, <3>1 DEF Typed
  <2>8. Linked' BY <1>1, <1>2, <2>5 DEF Linked, Added
  <2>9. Rests BY <1>2, <2>5 DEF Rests
  <2> QED BY <2>6, <2>7, <2>8, <2>9, RowsKept
<1> QED BY <1>3, <1>4

LEMMA UpdateNeighborKeeps == ASSUME Inv, NEW w \in Workers, UpdateNeighbor(w) PROVE Inv'
<1>1. Typed /\ Turns /\ Linked /\ Elements BY DEF Inv
<1>2. /\ pc[w] = "link" /\ next' = next /\ graph' = graph /\ lock' = lock /\ done' = done /\ disk' = disk
  BY DEF UpdateNeighbor
<1>e. PICK e, k : e = op[w].row /\ k = op[w].lc OBVIOUS
<1>3. pc[w] \in Busy /\ pc[w] \in Linking BY <1>2 DEF Busy, Linking
<1>4. e \in Elems /\ e \in Added BY <1>1, <1>3, <1>e, RowIs DEF Elements
<1>5. CASE op[w].todo = EmptyBag
  <2>1. pc' = [pc EXCEPT ![w] = "copy"] /\ elem' = elem /\ op' = op BY <1>5 DEF UpdateNeighbor, Goto
  <2>2. Goes(w, "copy") BY <1>2, <2>1, GoesOn DEF Linking
  <2> QED BY <1>1, <1>2, <2>1, <2>2, LocksKept DEF Typed
<1>6. CASE op[w].todo # EmptyBag
  <2>0. PICK n \in BagToSet(op[w].todo) :
          /\ \E list \in Connected(elem[n].nbrs[k], e, k) : elem' = [elem EXCEPT ![n].nbrs[k] = list]
          /\ op' = [op EXCEPT ![w].todo = op[w].todo (-) SetToBag({n})] /\ pc' = pc
    BY <1>6, <1>e DEF UpdateNeighbor
  <2>l. PICK list \in Connected(elem[n].nbrs[k], e, k) : elem' = [elem EXCEPT ![n].nbrs[k] = list] BY <2>0
  <2>1. /\ list \in Connected(elem[n].nbrs[k], e, k) /\ elem' = [elem EXCEPT ![n].nbrs[k] = list]
        /\ op' = [op EXCEPT ![w].todo = op[w].todo (-) SetToBag({n})] /\ pc' = pc /\ n \in BagToSet(op[w].todo)
    BY <2>0, <2>l
  <2>2. op[w].todo \in BagsOf BY <1>1, Labels DEF OpType
  <2>3. n \in Elems /\ op[w].todo (-) SetToBag({n}) \in BagsOf BY <2>1, <2>2, BagsAre
  <2>4. /\ op' \in [Workers -> OpType] /\ \A v \in Workers : op'[v].row = op[v].row /\ op'[v].entry = op[v].entry
    BY <1>1, <2>1, <2>3 DEF Typed, OpType
  <2>5. elem[n] \in ElemType /\ elem[n].nbrs \in [Levels -> BagsOf] BY <1>1, <2>3 DEF Typed, ElemType
  <2>6. k \in Levels => list \in BagsOf /\ DOMAIN list \subseteq Added
    <3>b. PICK B : B = elem[n].nbrs[k] OBVIOUS
    <3>1. SUFFICES ASSUME k \in Levels PROVE list \in BagsOf /\ DOMAIN list \subseteq Added OBVIOUS
    <3>2. B \in BagsOf /\ DOMAIN B \subseteq Added BY <1>1, <2>3, <2>5, <3>1, <3>b DEF Linked
    <3>a. PICK all : all = B (+) SetToBag({e}) OBVIOUS
    <3>3. all \in BagsOf /\ DOMAIN all \subseteq Added
      <4>1. all \in BagsOf /\ BagToSet(all) = BagToSet(B) \cup {e} BY <1>4, <3>2, <3>a, BagsAre
      <4> QED BY <1>4, <3>2, <4>1 DEF BagToSet
    <3>4. list = all \/ \E p : list = all (-) SetToBag({p}) BY <2>1, <3>a, <3>b DEF Connected
    <3>5. \A p : all (-) SetToBag({p}) \in BagsOf /\ DOMAIN (all (-) SetToBag({p})) \subseteq Added
      <4>1. \A p : all (-) SetToBag({p}) \in BagsOf /\ BagToSet(all (-) SetToBag({p})) \subseteq BagToSet(all)
        BY <3>3, BagsAre
      <4> QED BY <3>3, <4>1 DEF BagToSet
    <3> QED BY <3>3, <3>4, <3>5
  <2>n. PICK nb : nb = [elem[n].nbrs EXCEPT ![k] = list] OBVIOUS
  <2>7. nb \in [Levels -> BagsOf] /\ \A l \in Levels : nb[l] = IF l = k THEN list ELSE elem[n].nbrs[l]
    BY <2>5, <2>6, <2>n
  <2>8. /\ elem' \in [Elems -> ElemType]
        /\ \A x \in Elems : elem'[x].tids = elem[x].tids /\ elem'[x].nbrs = IF x = n THEN nb ELSE elem[x].nbrs
    <3>1. elem' = [elem EXCEPT ![n].nbrs = nb] BY <2>1, <2>n
    <3> QED BY <1>1, <2>3, <2>7, <3>1 DEF Typed, ElemType
  <2>9. Typed' BY <1>1, <1>2, <2>1, <2>4, <2>8 DEF Typed
  <2>10. Linked'
    <3>1. \A x \in Elems, l \in Levels : DOMAIN elem'[x].nbrs[l] \subseteq Added BY <1>1, <2>6, <2>7, <2>8 DEF Linked
    <3>2. Added' = Added BY <1>2 DEF Added
    <3> QED BY <1>1, <1>2, <2>4, <3>1, <3>2 DEF Linked
  <2>11. Goes(w, "link")
    <3>1. pc' = [pc EXCEPT ![w] = "link"] BY <1>1, <1>2, <2>1 DEF Typed
    <3> QED BY <1>2, <3>1, GoesOn DEF Linking
  <2>12. Rests BY <1>2, <2>4, <2>8 DEF Rests
  <2> QED BY <2>9, <2>10, <2>11, <2>12, RowsKept
<1> QED BY <1>5, <1>6

LEMMA StoreEntryKeeps == ASSUME Inv, NEW w \in Workers, StoreEntry(w) PROVE Inv'
<1>1. Typed /\ Turns /\ Linked /\ Elements BY DEF Inv
<1>e. PICK e, t : e = op[w].row /\ t = IF Rises(w, op[w].entry) THEN op[w].row ELSE graph.entry OBVIOUS
<1>2. /\ pc[w] = "store" /\ next' = next /\ elem' = elem /\ op' = op /\ done' = done /\ disk' = disk
      /\ pc' = [pc EXCEPT ![w] = "count"] /\ graph' = [graph EXCEPT !.entry = t]
      /\ lock' = [lock EXCEPT !.entryS = lock.entryS \ {w}, !.entryX = lock.entryX \ {w}, !.flushS = lock.flushS \ {w}]
  BY <1>e DEF StoreEntry, Leave, Goto
<1>3. pc[w] \in Busy /\ pc[w] \in Linking BY <1>2 DEF Busy, Linking
<1>4. t \in Added \cup {Nil} /\ t \in Elems \cup {Nil}
  <2>1. e \in Added BY <1>1, <1>3, <1>e DEF Elements
  <2>2. graph.entry \in Added \cup {Nil} BY <1>1 DEF Linked
  <2>3. Added \subseteq Elems BY <1>1, AddedIs DEF Typed
  <2> QED BY <1>e, <2>1, <2>2, <2>3
<1>5. /\ graph' \in GraphType /\ graph'.entry = t /\ graph'.list = graph.list /\ graph'.flushed = graph.flushed
      /\ graph'.indtuples = graph.indtuples
  BY <1>1, <1>2, <1>4 DEF Typed, GraphType
<1>6. lock' \in LockType /\ \A v \in Workers : v # w /\ v \in lock.flushS => v \in lock'.flushS
  BY <1>1, <1>2 DEF Typed, LockType
<1>7. Typed'
  <2>1. pc' \in [Workers -> Busy \cup Ended \cup {"scan"}] BY <1>1, <1>2, Labels DEF Busy
  <2> QED BY <1>1, <1>2, <1>5, <1>6, <2>1 DEF Typed
<1>8. Linked' BY <1>1, <1>2, <1>4, <1>5 DEF Linked, Added
<1>9. Goes(w, "count")
  <2>1. "count" \in Busy /\ "count" \notin Waits /\ "count" \notin Linking /\ "count" \notin Fresh /\ "count" \notin InMemory
        /\ pc[w] \notin Waits
    BY <1>2 DEF Busy, Waits, Linking, Fresh, InMemory
  <2> QED BY <1>2, <1>3, <1>6, <2>1 DEF Goes
<1>10. Rests BY <1>2, <1>5 DEF Rests
<1> QED BY <1>7, <1>8, <1>9, <1>10, RowsKept

-----------------------------------------------------------------------------
(* Steps that place a row                                                  *)

LEMMA LabelStep ==
  ASSUME Typed, NEW w \in Workers, NEW label \in Busy, pc[w] \in Busy, pc' = [pc EXCEPT ![w] = label]
  PROVE  /\ pc' \in [Workers -> Busy \cup Ended \cup {"scan"}]
         /\ \A v \in Workers : pc'[v] = IF v = w THEN label ELSE pc[v]
         /\ \A v \in Workers : pc'[v] \in Busy <=> pc[v] \in Busy
         /\ \A v \in Workers : pc'[v] \in Ended <=> pc[v] \in Ended
         /\ \A v \in Workers : pc'[v] = "finished" <=> pc[v] = "finished"
<1>1. pc \in [Workers -> Busy \cup Ended \cup {"scan"}] BY DEF Typed
<1>2. pc' \in [Workers -> Busy \cup Ended \cup {"scan"}] /\ \A v \in Workers : pc'[v] = IF v = w THEN label ELSE pc[v]
  BY <1>1
<1>3. label \notin Ended /\ pc[w] \notin Ended /\ label # "finished" /\ pc[w] # "finished" BY LabelsDiffer
<1> QED BY <1>2, <1>3

\* The row of a participant that has not placed it yet
LEMMA WaitsFor ==
  ASSUME Inv, NEW w \in Workers, pc[w] \in Waits
  PROVE  LET e == op[w].row IN
           /\ e \in Elems /\ e # Nil /\ e < next /\ Val[e] # Null /\ e \notin disk.rows /\ e \notin Added /\ ~InList(e)
           /\ \A v \in Workers : v # w => op[v].row # e
<1>1. Typed /\ Turns /\ Elements BY DEF Inv
<1>2. pc[w] \in Busy BY DEF Busy
<1>e. PICK e : e = op[w].row OBVIOUS
<1>3. e \in Elems /\ e # Nil /\ e < next /\ Val[e] # Null BY <1>1, <1>2, <1>e, RowIs
<1>4. Waiting(e) BY <1>e DEF Waiting
<1>5. e \notin disk.rows /\ e \notin Added /\ ~InList(e) BY <1>1, <1>3, <1>4 DEF Elements
<1>6. \A v \in Workers : v # w => op[v].row # e BY <1>1, <1>3, <1>e DEF Turns
<1> QED BY <1>3, <1>5, <1>6, <1>e

\* Only the row of w stops to wait
LEMMA WaitsNoMore ==
  ASSUME Inv, NEW w \in Workers, NEW label, label \notin Waits, pc[w] \in Waits, next' = next,
         \A v \in Workers : op'[v].row = op[v].row, \A v \in Workers : pc'[v] = IF v = w THEN label ELSE pc[v]
  PROVE  \A r \in Elems : Waiting(r)' <=> Waiting(r) /\ r # op[w].row
<1>1. LET e == op[w].row IN e < next /\ Val[e] # Null /\ \A v \in Workers : v # w => op[v].row # e BY WaitsFor
<1>e. PICK e : e = op[w].row OBVIOUS
<1>2. next \in Nat /\ e \in Nat
  <2>1. next \in 1..(Rows + 1) /\ op[w].row \in Elems BY WaitsFor DEF Inv, Typed
  <2> QED BY <1>e, <2>1, Basics
<1>3. e < next /\ Val[e] # Null /\ ~(e >= next) BY <1>1, <1>2, <1>e
<1>4. \A v \in Workers : v # w => op[v].row # e BY <1>1, <1>e
<1>5. ASSUME NEW r \in Elems PROVE Waiting(r)' <=> Waiting(r) /\ r # e
  <2>1. CASE r = e
    <3>1. \A v \in Workers : op'[v].row = e => v = w BY <1>4
    <3>2. ~Waiting(r)' BY <1>3, <2>1, <3>1 DEF Waiting
    <3> QED BY <2>1, <3>2
  <2>2. CASE r # e
    <3>1. \A v \in Workers : op[v].row = r => v # w BY <1>e, <2>2
    <3> QED BY <2>2, <3>1 DEF Waiting
  <2> QED BY <2>1, <2>2
<1> QED BY <1>5, <1>e

LEMMA AllocateKeeps == ASSUME Inv, NEW w \in Workers, NEW l \in Levels, Allocate(w, l) PROVE Inv'
<1>1. Typed /\ Turns /\ Linked /\ Elements /\ graph.indtuples = Cardinality(Counted) BY DEF Inv
<1>e. PICK e, u : e = op[w].row /\ u = graph.used + ElemBytes[l] OBVIOUS
<1>2. /\ pc[w] = "alloc" /\ next' = next /\ lock' = lock /\ op' = op /\ done' = done /\ disk' = disk
      /\ pc' = [pc EXCEPT ![w] = "wait"] /\ graph' = [graph EXCEPT !.used = u]
      /\ elem' = [elem EXCEPT ![e].level = l, ![e].tids = {e}]
  BY <1>e DEF Allocate, Goto
<1>3. pc[w] \in Waits /\ pc[w] \in Busy /\ "wait" \in Busy /\ "wait" \in Waits /\ "wait" \notin Linking /\ pc[w] \in InMemory
  BY <1>2 DEF Waits, Busy, Fresh, Linking, InMemory
<1>4. e \in Elems /\ e # Nil /\ e \notin Added /\ \A v \in Workers : v # w => op[v].row # e BY <1>3, <1>e, WaitsFor
<1>5. /\ pc' \in [Workers -> Busy \cup Ended \cup {"scan"}]
      /\ \A v \in Workers : pc'[v] = IF v = w THEN "wait" ELSE pc[v]
      /\ \A v \in Workers : pc'[v] \in Busy <=> pc[v] \in Busy
      /\ \A v \in Workers : pc'[v] \in Ended <=> pc[v] \in Ended
      /\ \A v \in Workers : pc'[v] = "finished" <=> pc[v] = "finished"
  BY <1>1, <1>2, <1>3, LabelStep
<1>6. /\ graph' \in GraphType /\ graph'.list = graph.list /\ graph'.flushed = graph.flushed /\ graph'.entry = graph.entry
      /\ graph'.indtuples = graph.indtuples
  <2>1. u \in Nat BY <1>1, <1>e, Basics DEF Typed, GraphType
  <2> QED BY <1>1, <1>2, <2>1 DEF Typed, GraphType
<1>7. /\ elem' \in [Elems -> ElemType]
      /\ \A x \in Elems : elem'[x].nbrs = elem[x].nbrs /\ elem'[x].tids = IF x = e THEN {e} ELSE elem[x].tids
  <2>t. PICK old, new : old = elem[e] /\ new = [old EXCEPT !.level = l, !.tids = {e}] OBVIOUS
  <2>1. elem \in [Elems -> ElemType] /\ old \in ElemType BY <1>1, <1>4, <2>t DEF Typed
  <2>2. new \in ElemType /\ new.tids = {e} /\ new.nbrs = old.nbrs BY <1>4, <2>1, <2>t DEF ElemType
  <2>3. elem' = [elem EXCEPT ![e] = new] BY <1>2, <2>t, <2>1, <1>4
  <2> QED BY <1>4, <2>1, <2>2, <2>3, <2>t
<1>8. Typed' BY <1>1, <1>2, <1>5, <1>6, <1>7 DEF Typed
<1>9. Added' = Added /\ Added \subseteq Elems BY <1>1, <1>6, AddedIs DEF Added, Typed
<1>10. Linked' BY <1>1, <1>2, <1>6, <1>7, <1>9 DEF Linked
<1>11. Turns'
  <2>1. \A v \in Workers : pc'[v] \in InMemory => v \in lock'.flushS /\ ~graph'.flushed
    BY <1>1, <1>2, <1>3, <1>5, <1>6 DEF Turns
  <2>2. graph'.flushed => disk'.flushed = graph'.list BY <1>1, <1>2, <1>6 DEF Turns
  <2> QED BY <1>1, <1>2, <1>5, <1>6, <2>1, <2>2, TurnsKept
<1>12. Elements'
  <2>1. \A r \in Elems : Waiting(r)' <=> Waiting(r)
    <3>1. \A v \in Workers : pc'[v] \in Waits <=> pc[v] \in Waits BY <1>3, <1>5
    <3> QED BY <1>2, <3>1 DEF Waiting
  <2>2. \A x \in Added : elem'[x].tids = elem[x].tids BY <1>4, <1>7, <1>9
  <2>3. ASSUME NEW v \in Workers, pc'[v] \in Fresh PROVE elem'[op'[v].row].tids = {op'[v].row}
    <3>1. CASE v = w BY <1>2, <1>4, <1>7, <1>e, <3>1
    <3>2. CASE v # w
      <4>1. pc[v] \in Fresh /\ pc[v] \in Busy BY <1>5, <2>3, <3>2 DEF Busy, Waits
      <4>2. op[v].row \in Elems /\ op[v].row # e BY <1>1, <1>4, <3>2, <4>1, RowIs
      <4> QED BY <1>1, <1>2, <1>7, <4>1, <4>2 DEF Elements
    <3> QED BY <3>1, <3>2
  <2>4. \A v \in Workers : pc'[v] \in Linking => op'[v].row \in Added BY <1>1, <1>2, <1>3, <1>5 DEF Elements
  <2> QED BY <1>1, <1>2, <1>6, <2>1, <2>2, <2>3, <2>4, ElementsKept
<1>13. Counted' = Counted BY <1>2 DEF Counted
<1> QED BY <1>1, <1>6, <1>8, <1>10, <1>11, <1>12, <1>13 DEF Inv

LEMMA FlushKeeps == ASSUME Inv, NEW w \in Workers, Flush(w) PROVE Inv'
<1>1. Typed /\ Turns /\ Linked /\ Elements /\ graph.indtuples = Cardinality(Counted) BY DEF Inv
<1>2. /\ pc[w] = "flush" /\ next' = next /\ elem' = elem /\ lock' = lock /\ op' = op /\ done' = done
      /\ pc' = [pc EXCEPT ![w] = "disk"] /\ lock.flushS = {}
  BY DEF Flush, Goto, MayFlush
<1>3. pc[w] \in Waits /\ pc[w] \in Busy /\ "disk" \in Busy /\ "disk" \in Waits /\ "disk" \notin Linking /\ "disk" \notin Fresh
  BY <1>2 DEF Waits, Busy, Fresh, Linking
<1>4. \A v \in Workers : pc[v] \notin InMemory /\ pc[v] \notin Fresh /\ pc[v] \notin Linking
  BY <1>1, <1>2 DEF Turns, InMemory
<1>5. /\ pc' \in [Workers -> Busy \cup Ended \cup {"scan"}]
      /\ \A v \in Workers : pc'[v] = IF v = w THEN "disk" ELSE pc[v]
      /\ \A v \in Workers : pc'[v] \in Busy <=> pc[v] \in Busy
      /\ \A v \in Workers : pc'[v] \in Ended <=> pc[v] \in Ended
      /\ \A v \in Workers : pc'[v] = "finished" <=> pc[v] = "finished"
  BY <1>1, <1>2, <1>3, LabelStep
<1>6. /\ graph' \in GraphType /\ graph'.list = graph.list /\ graph'.entry = graph.entry /\ graph'.flushed
      /\ graph'.indtuples = graph.indtuples /\ disk' \in DiskType /\ disk'.rows = disk.rows /\ disk'.flushed = graph.list
  <2>1. CASE graph.flushed
    <3>1. graph' = graph /\ disk' = disk BY <2>1 DEF Flush
    <3> QED BY <1>1, <2>1, <3>1 DEF Typed, Turns
  <2>2. CASE ~graph.flushed
    <3>1. /\ graph' = [graph EXCEPT !.flushed = TRUE]
          /\ disk' = [flushed |-> graph.list, entry |-> graph.entry, rows |-> disk.rows]
      BY <2>2 DEF Flush, FlushPages, Flushed
    <3> QED BY <1>1, <3>1 DEF Typed, GraphType, DiskType
  <2> QED BY <2>1, <2>2
<1>7. Typed' BY <1>1, <1>2, <1>5, <1>6 DEF Typed
<1>8. Linked' BY <1>1, <1>2, <1>6 DEF Linked, Added
<1>9. \A v \in Workers : pc'[v] \notin InMemory /\ pc'[v] \notin Fresh /\ pc'[v] \notin Linking
  <2>1. "disk" \notin InMemory BY DEF InMemory, Fresh, Linking
  <2> QED BY <1>3, <1>4, <1>5, <2>1
<1>10. Turns' BY <1>1, <1>2, <1>5, <1>6, <1>9, TurnsKept
<1>11. Elements'
  <2>1. \A r \in Elems : Waiting(r)' <=> Waiting(r)
    <3>1. \A v \in Workers : pc'[v] \in Waits <=> pc[v] \in Waits BY <1>3, <1>5
    <3> QED BY <1>2, <3>1 DEF Waiting
  <2> QED BY <1>1, <1>2, <1>6, <1>9, <2>1, ElementsKept
<1>12. Counted' = Counted BY <1>2 DEF Counted
<1> QED BY <1>1, <1>6, <1>7, <1>8, <1>10, <1>11, <1>12 DEF Inv

LEMMA InsertOnDiskKeeps == ASSUME Inv, NEW w \in Workers, InsertOnDisk(w) PROVE Inv'
<1>1. Typed /\ Turns /\ Linked /\ Elements /\ graph.indtuples = Cardinality(Counted) BY DEF Inv
<1>e. PICK e : e = op[w].row OBVIOUS
<1>2. /\ pc[w] = "disk" /\ next' = next /\ elem' = elem /\ graph' = graph /\ lock' = lock /\ op' = op /\ done' = done
      /\ pc' = [pc EXCEPT ![w] = "count"] /\ disk' = [disk EXCEPT !.rows = disk.rows \cup {e}]
  BY <1>e DEF InsertOnDisk, Goto
<1>3. /\ pc[w] \in Waits /\ pc[w] \in Busy /\ "count" \in Busy /\ "count" \notin Waits /\ "count" \notin Linking
      /\ "count" \notin Fresh /\ "count" \notin InMemory
  BY <1>2 DEF Waits, Busy, Fresh, Linking, InMemory
<1>4. e \in Elems /\ e \notin disk.rows /\ ~InList(e) BY <1>3, <1>e, WaitsFor
<1>5. /\ pc' \in [Workers -> Busy \cup Ended \cup {"scan"}]
      /\ \A v \in Workers : pc'[v] = IF v = w THEN "count" ELSE pc[v]
      /\ \A v \in Workers : pc'[v] \in Busy <=> pc[v] \in Busy
      /\ \A v \in Workers : pc'[v] \in Ended <=> pc[v] \in Ended
      /\ \A v \in Workers : pc'[v] = "finished" <=> pc[v] = "finished"
  BY <1>1, <1>2, <1>3, LabelStep
<1>6. disk' \in DiskType /\ disk'.rows = disk.rows \cup {e} /\ disk'.flushed = disk.flushed
  BY <1>1, <1>2, <1>4 DEF Typed, DiskType
<1>7. Typed' BY <1>1, <1>2, <1>5, <1>6 DEF Typed
<1>8. Linked' BY <1>1, <1>2 DEF Linked, Added
<1>9. Turns'
  <2>1. \A v \in Workers : pc'[v] \in InMemory => v \in lock'.flushS /\ ~graph'.flushed
    BY <1>1, <1>2, <1>3, <1>5 DEF Turns
  <2>2. graph'.flushed => disk'.flushed = graph'.list BY <1>1, <1>2, <1>6 DEF Turns
  <2> QED BY <1>1, <1>2, <1>5, <2>1, <2>2, TurnsKept
<1>10. Elements'
  <2>1. Added' = Added BY <1>2 DEF Added
  <2>2. \A r \in Elems : InList(r)' <=> InList(r) BY <1>2, <2>1 DEF InList
  <2>3. \A r \in Elems : Waiting(r)' <=> Waiting(r) /\ r # e BY <1>2, <1>3, <1>5, <1>e, WaitsNoMore
  <2>4. ASSUME NEW r \in Elems
        PROVE  IF Waiting(r)' THEN r \notin disk'.rows /\ r \notin Added' /\ ~InList(r)' ELSE Once(r)'
    <3>1. CASE r = e
      <4>1. r \in disk'.rows /\ ~InList(r)' /\ ~Waiting(r)' BY <1>4, <1>6, <2>2, <2>3, <3>1
      <4> QED BY <4>1 DEF Once
    <3>2. CASE r # e
      <4>1. r \in disk'.rows <=> r \in disk.rows BY <1>6, <3>2
      <4>2. Once(r)' <=> Once(r) BY <1>2, <2>1, <2>2, <4>1 DEF Once
      <4> QED BY <1>1, <2>1, <2>2, <2>3, <3>2, <4>1, <4>2 DEF Elements
    <3> QED BY <3>1, <3>2
  <2>5. \A v \in Workers : pc'[v] \in Fresh => elem'[op'[v].row].tids = {op'[v].row}
    BY <1>1, <1>2, <1>3, <1>5 DEF Elements
  <2>6. \A v \in Workers : pc'[v] \in Linking => op'[v].row \in Added' BY <1>1, <1>2, <1>3, <1>5, <2>1 DEF Elements
  <2> QED BY <1>1, <1>2, <2>1, <2>4, <2>5, <2>6 DEF Elements
<1>11. Counted' = Counted BY <1>2 DEF Counted
<1> QED BY <1>1, <1>2, <1>7, <1>8, <1>9, <1>10, <1>11 DEF Inv

LEMMA AddDuplicateKeeps == ASSUME Inv, NEW w \in Workers, NEW n \in Elems, AddDuplicate(w, n) PROVE Inv'
<1>1. Typed /\ Turns /\ Linked /\ Elements /\ graph.indtuples = Cardinality(Counted) BY DEF Inv
<1>e. PICK e : e = op[w].row OBVIOUS
<1>2. /\ pc[w] = "dup" /\ next' = next /\ graph' = graph /\ op' = op /\ done' = done /\ disk' = disk
      /\ n \in Neighbors0(w) /\ Val[n] = Val[e]
      /\ pc' = [pc EXCEPT ![w] = "count"]
      /\ lock' = [lock EXCEPT !.entryS = lock.entryS \ {w}, !.entryX = lock.entryX \ {w}, !.flushS = lock.flushS \ {w}]
      /\ elem' = [elem EXCEPT ![n].tids = elem[n].tids \cup {e}, ![e] = NoElem]
  BY <1>e DEF AddDuplicate, Leave, Goto, Same
<1>3. /\ pc[w] \in Waits /\ pc[w] \in Busy /\ "count" \in Busy /\ "count" \notin Waits /\ "count" \notin Linking
      /\ "count" \notin Fresh /\ "count" \notin InMemory
  BY <1>2 DEF Waits, Busy, Fresh, Linking, InMemory
<1>4. e \in Elems /\ e \notin disk.rows /\ e \notin Added /\ ~InList(e) /\ \A v \in Workers : v # w => op[v].row # e
  BY <1>3, <1>e, WaitsFor
<1>5. /\ pc' \in [Workers -> Busy \cup Ended \cup {"scan"}]
      /\ \A v \in Workers : pc'[v] = IF v = w THEN "count" ELSE pc[v]
      /\ \A v \in Workers : pc'[v] \in Busy <=> pc[v] \in Busy
      /\ \A v \in Workers : pc'[v] \in Ended <=> pc[v] \in Ended
      /\ \A v \in Workers : pc'[v] = "finished" <=> pc[v] = "finished"
  BY <1>1, <1>2, <1>3, LabelStep
<1>6. n \in Added /\ n # e
  <2>1. 0 \in Levels BY Basics
  <2>2. n \in DOMAIN elem[e].nbrs[0] BY <1>2, <1>e DEF Neighbors0, BagToSet
  <2>3. n \in Added BY <1>1, <1>4, <2>1, <2>2 DEF Linked
  <2> QED BY <1>4, <2>3
<1>7. /\ elem' \in [Elems -> ElemType]
      /\ elem'[e] = NoElem /\ elem'[n].tids = elem[n].tids \cup {e} /\ elem'[n].nbrs = elem[n].nbrs
      /\ \A x \in Elems : x # e /\ x # n => elem'[x] = elem[x]
  <2>t. PICK old, new : old = elem[n] /\ new = [old EXCEPT !.tids = old.tids \cup {e}] OBVIOUS
  <2>1. elem \in [Elems -> ElemType] /\ old \in ElemType BY <1>1, <2>t DEF Typed
  <2>2. new \in ElemType /\ new.tids = old.tids \cup {e} /\ new.nbrs = old.nbrs BY <1>4, <2>1, <2>t DEF ElemType
  <2>3. NoElem \in ElemType
    <3>1. EmptyBag \in BagsOf BY SetsAreBags DEF EmptyBag
    <3>2. 0 \in Levels BY Basics
    <3> QED BY <3>1, <3>2 DEF NoElem, ElemType
  <2>4. elem' = [[elem EXCEPT ![n] = new] EXCEPT ![e] = NoElem] BY <1>2, <2>t, <2>1, <1>4
  <2>5. [elem EXCEPT ![n] = new] \in [Elems -> ElemType] BY <2>1, <2>2
  <2> QED BY <1>4, <1>6, <2>1, <2>2, <2>3, <2>4, <2>5, <2>t
<1>8. lock' \in LockType /\ \A v \in Workers : v # w /\ v \in lock.flushS => v \in lock'.flushS
  BY <1>1, <1>2 DEF Typed, LockType
<1>9. Typed' BY <1>1, <1>2, <1>5, <1>7, <1>8 DEF Typed
<1>10. Added' = Added /\ Added \subseteq Elems BY <1>1, <1>2, AddedIs DEF Added, Typed
<1>11. Linked'
  <2>1. ASSUME NEW x \in Elems, NEW l \in Levels PROVE DOMAIN elem'[x].nbrs[l] \subseteq Added
    <3>1. CASE x = e
      <4>1. elem'[x].nbrs[l] = EmptyBag BY <1>7, <3>1 DEF NoElem
      <4>2. DOMAIN EmptyBag = {} BY SetsAreBags DEF EmptyBag
      <4> QED BY <4>1, <4>2
    <3>2. CASE x # e
      <4>1. elem'[x].nbrs = elem[x].nbrs BY <1>7, <3>2
      <4> QED BY <1>1, <4>1 DEF Linked
    <3> QED BY <3>1, <3>2
  <2> QED BY <1>1, <1>2, <1>10, <2>1 DEF Linked
<1>12. Turns'
  <2>1. \A v \in Workers : pc'[v] \in InMemory => v \in lock'.flushS /\ ~graph'.flushed
    BY <1>1, <1>2, <1>3, <1>5, <1>8 DEF Turns
  <2>2. graph'.flushed => disk'.flushed = graph'.list BY <1>1, <1>2 DEF Turns
  <2> QED BY <1>1, <1>2, <1>5, <2>1, <2>2, TurnsKept
<1>13. Elements'
  <2>1. \A x \in Added : elem'[x].tids = IF x = n THEN elem[x].tids \cup {e} ELSE elem[x].tids BY <1>4, <1>7, <1>10
  <2>2. \A r \in Elems : Waiting(r)' <=> Waiting(r) /\ r # e BY <1>2, <1>3, <1>5, <1>e, WaitsNoMore
  <2>3. \A x \in Added : e \notin elem[x].tids BY <1>4 DEF InList
  <2>4. ASSUME NEW r \in Elems
        PROVE  IF Waiting(r)' THEN r \notin disk'.rows /\ r \notin Added' /\ ~InList(r)' ELSE Once(r)'
    <3>1. CASE r = e
      <4>1. InList(r)' BY <1>6, <1>10, <2>1, <3>1 DEF InList
      <4>2. \A x, y \in Added' : r \in elem'[x].tids /\ r \in elem'[y].tids => x = y BY <1>10, <2>1, <2>3, <3>1
      <4>3. r \notin disk'.rows BY <1>2, <1>4, <3>1
      <4> QED BY <2>2, <3>1, <4>1, <4>2, <4>3 DEF Once
    <3>2. CASE r # e
      <4>1. \A x \in Added : r \in elem'[x].tids <=> r \in elem[x].tids BY <2>1, <3>2
      <4>2. InList(r)' <=> InList(r) BY <1>10, <4>1 DEF InList
      <4>3. Once(r)' <=> Once(r) BY <1>2, <1>10, <4>1, <4>2 DEF Once
      <4> QED BY <1>1, <1>2, <1>10, <2>2, <3>2, <4>2, <4>3 DEF Elements
    <3> QED BY <3>1, <3>2
  <2>5. ASSUME NEW v \in Workers, pc'[v] \in Fresh PROVE elem'[op'[v].row].tids = {op'[v].row}
    <3>1. v # w /\ pc[v] \in Fresh BY <1>3, <1>5, <2>5
    <3>2. pc[v] \in Waits BY <3>1 DEF Waits
    <3>3. op[v].row \in Elems /\ op[v].row \notin Added BY <3>2, WaitsFor
    <3>4. op[v].row # e /\ op[v].row # n BY <1>4, <1>6, <3>1, <3>3
    <3> QED BY <1>1, <1>2, <1>7, <3>1, <3>3, <3>4 DEF Elements
  <2>6. \A v \in Workers : pc'[v] \in Linking => op'[v].row \in Added' BY <1>1, <1>2, <1>3, <1>5, <1>10 DEF Elements
  <2>7. ASSUME NEW x \in Added', NEW r \in elem'[x].tids PROVE Val[r] = Val[x]
    <3>1. \A y \in Added : \A q \in elem[y].tids : Val[q] = Val[y] BY <1>1 DEF Elements
    <3>2. x \in Added /\ (r \in elem[x].tids \/ (x = n /\ r = e)) BY <1>10, <2>1, <2>7
    <3> QED BY <1>2, <3>1, <3>2
  <2>8. \A i, j \in 1..Len(graph'.list) : graph'.list[i] = graph'.list[j] => i = j BY <1>1, <1>2 DEF Elements
  <2> QED BY <2>4, <2>5, <2>6, <2>7, <2>8 DEF Elements
<1>14. Counted' = Counted BY <1>2 DEF Counted
<1> QED BY <1>1, <1>2, <1>9, <1>11, <1>12, <1>13, <1>14 DEF Inv

\* A list with an element in front
LEMMA InFront ==
  ASSUME NEW S, NEW s \in Seq(S), NEW e \in S
  PROVE  LET t == <<e>> \o s IN
           /\ t \in Seq(S) /\ Len(t) = Len(s) + 1 /\ Len(s) \in Nat /\ t[1] = e
           /\ \A i \in 2..Len(t) : i - 1 \in 1..Len(s) /\ t[i] = s[i - 1]
           /\ ToSet(t) = ToSet(s) \cup {e}
<1> DEFINE t == <<e>> \o s
<1>1. t \in Seq(S) /\ Len(t) = Len(s) + 1 /\ Len(s) \in Nat /\ t[1] = e OBVIOUS
<1>2. \A i \in 2..Len(t) : i - 1 \in 1..Len(s) /\ t[i] = s[i - 1] BY <1>1
<1>3. DOMAIN t = 1..Len(t) /\ DOMAIN s = 1..Len(s) BY <1>1
<1> HIDE DEF t
<1>4. ASSUME NEW x \in ToSet(t) PROVE x \in ToSet(s) \cup {e}
  <2>1. PICK i \in 1..Len(t) : x = t[i] BY <1>3, <1>4 DEF ToSet
  <2>2. i = 1 \/ i \in 2..Len(t) BY <1>1
  <2> QED BY <1>1, <1>2, <1>3, <2>1, <2>2 DEF ToSet
<1>5. ASSUME NEW x \in ToSet(s) PROVE x \in ToSet(t)
  <2>1. PICK i \in 1..Len(s) : x = s[i] BY <1>3, <1>5 DEF ToSet
  <2>2. i + 1 \in 2..Len(t) /\ i + 1 \in 1..Len(t) /\ (i + 1) - 1 = i BY <1>1
  <2>3. t[i + 1] = x BY <1>2, <2>1, <2>2
  <2> QED BY <1>3, <2>2, <2>3 DEF ToSet
<1>6. e \in ToSet(t)
  <2>1. 1 \in 1..Len(t) BY <1>1
  <2> QED BY <1>1, <1>3, <2>1 DEF ToSet
<1> QED BY <1>1, <1>2, <1>4, <1>5, <1>6 DEF t

LEMMA AddElementKeeps == ASSUME Inv, NEW w \in Workers, AddElementInMemory(w) PROVE Inv'
<1>1. Typed /\ Turns /\ Linked /\ Elements /\ graph.indtuples = Cardinality(Counted) BY DEF Inv
<1>e. PICK e, k, list : e = op[w].row /\ k = Level(op[w].row) + 1 /\ list = <<op[w].row>> \o graph.list OBVIOUS
<1>2. /\ pc[w] = "add" /\ next' = next /\ elem' = elem /\ lock' = lock /\ done' = done /\ disk' = disk
      /\ pc' = [pc EXCEPT ![w] = "copy"] /\ graph' = [graph EXCEPT !.list = list] /\ op' = [op EXCEPT ![w].lc = k]
  BY <1>e DEF AddElementInMemory, Goto
<1>3. /\ pc[w] \in Waits /\ pc[w] \in Busy /\ "copy" \in Busy /\ "copy" \notin Waits /\ "copy" \notin Fresh
      /\ pc[w] \in Fresh /\ pc[w] \in InMemory
  BY <1>2 DEF Waits, Busy, Fresh, Linking, InMemory
<1>4. e \in Elems /\ e \notin disk.rows /\ e \notin Added /\ ~InList(e) /\ \A v \in Workers : v # w => op[v].row # e
  BY <1>3, <1>e, WaitsFor
<1>5. /\ pc' \in [Workers -> Busy \cup Ended \cup {"scan"}]
      /\ \A v \in Workers : pc'[v] = IF v = w THEN "copy" ELSE pc[v]
      /\ \A v \in Workers : pc'[v] \in Busy <=> pc[v] \in Busy
      /\ \A v \in Workers : pc'[v] \in Ended <=> pc[v] \in Ended
      /\ \A v \in Workers : pc'[v] = "finished" <=> pc[v] = "finished"
  BY <1>1, <1>2, <1>3, LabelStep
<1>6. /\ graph.list \in Seq(Elems) /\ list \in Seq(Elems) /\ Len(list) = Len(graph.list) + 1 /\ Len(graph.list) \in Nat
      /\ list[1] = e /\ \A i \in 2..Len(list) : i - 1 \in 1..Len(graph.list) /\ list[i] = graph.list[i - 1]
      /\ ToSet(list) = Added \cup {e}
  <2>1. graph.list \in Seq(Elems) BY <1>1 DEF Typed, GraphType
  <2> QED BY <1>4, <1>e, <2>1, InFront DEF Added
<1>7. /\ graph' \in GraphType /\ graph'.list = list /\ graph'.flushed = graph.flushed /\ graph'.entry = graph.entry
      /\ graph'.indtuples = graph.indtuples
  BY <1>1, <1>2, <1>6 DEF Typed, GraphType
<1>8. /\ op' \in [Workers -> OpType] /\ \A v \in Workers : op'[v].row = op[v].row /\ op'[v].entry = op[v].entry
  <2>1. k \in 0..(MaxLevel + 1)
    <3>1. elem[e] \in ElemType BY <1>1, <1>4 DEF Typed
    <3>2. Level(e) \in 0..MaxLevel /\ MaxLevel \in Nat BY <3>1, Basics DEF ElemType, Level
    <3> QED BY <1>e, <3>2
  <2> QED BY <1>1, <1>2, <2>1 DEF Typed, OpType
<1>9. Typed' BY <1>1, <1>2, <1>5, <1>7, <1>8 DEF Typed
<1>10. Added' = Added \cup {e} /\ Added \subseteq Elems BY <1>1, <1>6, <1>7, AddedIs DEF Added, Typed
<1>11. Linked'
  <2>1. \A x \in Elems, l \in Levels : DOMAIN elem'[x].nbrs[l] \subseteq Added' BY <1>1, <1>2, <1>10 DEF Linked
  <2> QED BY <1>1, <1>7, <1>8, <1>10, <2>1 DEF Linked
<1>12. Turns'
  <2>1. \A v \in Workers : pc'[v] \in InMemory => v \in lock'.flushS /\ ~graph'.flushed
    BY <1>1, <1>2, <1>3, <1>5, <1>7 DEF Turns
  <2>2. graph'.flushed => disk'.flushed = graph'.list
    <3>1. ~graph.flushed BY <1>1, <1>3 DEF Turns
    <3> QED BY <1>7, <3>1
  <2> QED BY <1>1, <1>2, <1>5, <1>7, <1>8, <2>1, <2>2, TurnsKept
<1>13. Elements'
  <2>1. elem[e].tids = {e} BY <1>1, <1>3, <1>e DEF Elements
  <2>2. \A r \in Elems : Waiting(r)' <=> Waiting(r) /\ r # e
    <3>1. "copy" \notin Waits BY <1>3
    <3>2. \A v \in Workers : pc'[v] = IF v = w THEN "copy" ELSE pc[v] BY <1>5
    <3>3. \A v \in Workers : op'[v].row = op[v].row BY <1>8
    <3> HIDE <1>3
    <3> QED BY <1>2, <1>3, <1>e, <3>1, <3>2, <3>3, WaitsNoMore
  <2>3. \A x \in Added : e \notin elem[x].tids BY <1>4 DEF InList
  <2>4. ASSUME NEW r \in Elems
        PROVE  IF Waiting(r)' THEN r \notin disk'.rows /\ r \notin Added' /\ ~InList(r)' ELSE Once(r)'
    <3>1. CASE r = e
      <4>1. InList(r)' BY <1>2, <1>10, <2>1, <3>1 DEF InList
      <4>2. \A x, y \in Added' : r \in elem'[x].tids /\ r \in elem'[y].tids => x = y BY <1>2, <1>10, <2>3, <3>1
      <4>3. r \notin disk'.rows BY <1>2, <1>4, <3>1
      <4> QED BY <2>2, <3>1, <4>1, <4>2, <4>3 DEF Once
    <3>2. CASE r # e
      <4>1. \A x \in Added' : r \in elem'[x].tids <=> x \in Added /\ r \in elem[x].tids BY <1>2, <1>10, <2>1, <3>2
      <4>2. InList(r)' <=> InList(r) BY <1>10, <4>1 DEF InList
      <4>3. Once(r)' <=> Once(r) BY <1>2, <1>10, <4>1, <4>2 DEF Once
      <4> QED BY <1>1, <1>2, <1>10, <2>2, <3>2, <4>2, <4>3 DEF Elements
    <3> QED BY <3>1, <3>2
  <2>5. \A v \in Workers : pc'[v] \in Fresh => elem'[op'[v].row].tids = {op'[v].row}
    BY <1>1, <1>2, <1>3, <1>5, <1>8 DEF Elements
  <2>6. ASSUME NEW v \in Workers, pc'[v] \in Linking PROVE op'[v].row \in Added'
    <3>1. v = w \/ pc[v] \in Linking BY <1>5, <2>6
    <3> QED BY <1>1, <1>8, <1>10, <1>e, <3>1 DEF Elements
  <2>7. \A x \in Added' : \A r \in elem'[x].tids : Val[r] = Val[x] BY <1>1, <1>2, <1>10, <2>1 DEF Elements
  <2>8. ASSUME NEW i \in 1..Len(list), NEW j \in 1..Len(list), list[i] = list[j] PROVE i = j
    <3>1. (i = 1 \/ i \in 2..Len(list)) /\ (j = 1 \/ j \in 2..Len(list)) BY <1>6
    <3>2. \A m \in 2..Len(list) : list[m] \in Added BY <1>1, <1>6, AddedIs DEF Typed
    <3>3. CASE i \in 2..Len(list) /\ j \in 2..Len(list)
      <4>1. graph.list[i - 1] = graph.list[j - 1] /\ i - 1 \in 1..Len(graph.list) /\ j - 1 \in 1..Len(graph.list)
        BY <1>6, <2>8, <3>3
      <4>2. i - 1 = j - 1 BY <1>1, <4>1 DEF Elements
      <4> QED BY <4>2
    <3> QED BY <1>4, <1>6, <2>8, <3>1, <3>2, <3>3
  <2> QED BY <1>7, <2>4, <2>5, <2>6, <2>7, <2>8 DEF Elements
<1>14. Counted' = Counted BY <1>2, <1>8 DEF Counted
<1> QED BY <1>1, <1>7, <1>9, <1>11, <1>12, <1>13, <1>14 DEF Inv

-----------------------------------------------------------------------------
(* The rows of the scan, and the end of the build                          *)

LEMMA CountedIs == ASSUME Typed PROVE IsFiniteSet(Counted) /\ Cardinality(Counted) \in Nat /\ Counted \subseteq Elems
<1>1. next \in 1..(Rows + 1) /\ Rows \in Nat /\ Elems = 1..Rows BY Basics DEF Typed
<1>2. Counted \subseteq 1..(next - 1) /\ 1..(next - 1) \subseteq Elems BY <1>1 DEF Counted
<1>3. IsFiniteSet(1..(next - 1)) BY <1>1, FS_Interval
<1>4. IsFiniteSet(Counted) BY <1>2, <1>3, FS_Subset
<1> QED BY <1>2, <1>4, FS_CardinalityType

LEMMA CountTupleKeeps == ASSUME Inv, NEW w \in Workers, CountTuple(w) PROVE Inv'
<1>1. Typed /\ Turns /\ Linked /\ Elements /\ graph.indtuples = Cardinality(Counted) BY DEF Inv
<1>e. PICK e : e = op[w].row OBVIOUS
<1>2. /\ pc[w] = "count" /\ next' = next /\ elem' = elem /\ lock' = lock /\ done' = done /\ disk' = disk
      /\ pc' = [pc EXCEPT ![w] = "scan"] /\ graph' = [graph EXCEPT !.indtuples = graph.indtuples + 1]
      /\ op' = [op EXCEPT ![w] = NoOp]
  BY DEF CountTuple, Goto
<1>3. /\ pc[w] \in Busy /\ pc[w] \notin Waits /\ "scan" \notin Busy /\ "scan" \notin Ended /\ "scan" \notin Fresh
      /\ "scan" \notin Linking /\ "scan" \notin InMemory /\ pc[w] \notin Ended /\ "scan" \notin Waits
  BY <1>2 DEF Waits, Busy, Fresh, Linking, InMemory, Ended
<1>4. e \in Elems /\ e # Nil /\ e < next /\ e \in 1..(next - 1) /\ Val[e] # Null BY <1>1, <1>3, <1>e, RowIs
<1>5. \A v \in Workers : v # w => op[v].row # e BY <1>1, <1>4, <1>e DEF Turns
<1>6. /\ pc' \in [Workers -> Busy \cup Ended \cup {"scan"}] /\ \A v \in Workers : pc'[v] = IF v = w THEN "scan" ELSE pc[v]
  BY <1>1, <1>2 DEF Typed
<1>7. NoOp \in OpType /\ NoOp.row = Nil /\ NoOp.entry = Nil
  <2>1. EmptyBag \in BagsOf BY SetsAreBags DEF EmptyBag
  <2>2. Nil = 0 /\ Nil \in 0..(MaxLevel + 1) BY Basics
  <2> QED BY <2>1, <2>2 DEF NoOp, OpType
<1>8. /\ op' \in [Workers -> OpType] /\ \A v \in Workers : op'[v] = IF v = w THEN NoOp ELSE op[v]
  BY <1>1, <1>2, <1>7 DEF Typed
<1>9. /\ graph' \in GraphType /\ graph'.list = graph.list /\ graph'.flushed = graph.flushed /\ graph'.entry = graph.entry
      /\ graph'.indtuples = graph.indtuples + 1
  BY <1>1, <1>2 DEF Typed, GraphType
<1>10. Typed' BY <1>1, <1>2, <1>6, <1>8, <1>9 DEF Typed
<1>11. Linked' BY <1>1, <1>2, <1>7, <1>8, <1>9 DEF Linked, Added
<1>12. Turns'
  <2>1. \A v \in Workers : pc'[v] \in Ended <=> pc[v] \in Ended BY <1>3, <1>6
  <2>2. {v \in Workers : pc'[v] \in Ended} = {v \in Workers : pc[v] \in Ended} BY <2>1
  <2>3. \A v \in Workers : IF pc'[v] \in Busy THEN op'[v].row \in 1..(next' - 1) /\ Val[op'[v].row] # Null
                           ELSE op'[v].row = Nil
    BY <1>1, <1>2, <1>3, <1>6, <1>7, <1>8 DEF Turns
  <2>4. \A u, v \in Workers : op'[u].row = op'[v].row /\ op'[u].row # Nil => u = v BY <1>1, <1>7, <1>8 DEF Turns
  <2>5. \A v \in Workers : pc'[v] \in InMemory => v \in lock'.flushS /\ ~graph'.flushed
    BY <1>1, <1>2, <1>3, <1>6, <1>9 DEF Turns
  <2>6. graph'.flushed => disk'.flushed = graph'.list BY <1>1, <1>2, <1>9 DEF Turns
  <2>7. \A v \in Workers : pc'[v] \in Ended => next' = Rows + 1 BY <1>1, <1>2, <2>1 DEF Turns
  <2>8. done' = Cardinality({v \in Workers : pc'[v] \in Ended}) BY <1>1, <1>2, <2>2 DEF Turns
  <2>9. pc'[Leader] = "finished" => graph'.flushed /\ \A v \in Workers : pc'[v] \in Ended
    <3>1. pc'[Leader] = "finished" => pc[Leader] = "finished" BY <1>6, Basics
    <3> QED BY <1>1, <1>9, <2>1, <3>1 DEF Turns
  <2> QED BY <2>3, <2>4, <2>5, <2>6, <2>7, <2>8, <2>9 DEF Turns
<1>13. Elements'
  <2>1. ASSUME NEW r \in Elems PROVE Waiting(r)' <=> Waiting(r)
    <3>1. r # Nil BY Basics
    <3>2. \A v \in Workers : op'[v].row = r /\ pc'[v] \in Waits <=> op[v].row = r /\ pc[v] \in Waits
      BY <1>3, <1>6, <1>7, <1>8, <3>1
    <3> QED BY <1>2, <3>2 DEF Waiting
  <2>2. \A v \in Workers : pc'[v] \in Fresh => elem'[op'[v].row].tids = {op'[v].row}
    BY <1>1, <1>2, <1>3, <1>6, <1>8 DEF Elements
  <2>3. \A v \in Workers : pc'[v] \in Linking => op'[v].row \in Added BY <1>1, <1>3, <1>6, <1>8 DEF Elements
  <2> QED BY <1>1, <1>2, <1>9, <2>1, <2>2, <2>3, ElementsKept
<1>14. graph'.indtuples = Cardinality(Counted')
  <2>1. Counted' = Counted \cup {e}
    <3>1. ASSUME NEW r \in 1..(next - 1)
          PROVE  (\A v \in Workers : op'[v].row # r) <=> (\A v \in Workers : op[v].row # r) \/ r = e
      <4>1. r # Nil BY Basics
      <4>2. \A v \in Workers : op'[v].row # r <=> v = w \/ op[v].row # r BY <1>7, <1>8, <4>1
      <4> QED BY <1>5, <1>e, <4>2
    <3> QED BY <1>2, <1>4, <3>1 DEF Counted
  <2>2. e \notin Counted BY <1>e DEF Counted
  <2>3. IsFiniteSet(Counted) BY <1>1, CountedIs
  <2>4. Cardinality(Counted \cup {e}) = Cardinality(Counted) + 1 BY <2>2, <2>3, FS_AddElement
  <2> QED BY <1>1, <1>9, <2>1, <2>4
<1> QED BY <1>10, <1>11, <1>12, <1>13, <1>14 DEF Inv

LEMMA NextRowKeeps == ASSUME Inv, NEW w \in Workers, NextRow(w) PROVE Inv'
<1>1. Typed /\ Turns /\ Linked /\ Elements /\ graph.indtuples = Cardinality(Counted) BY DEF Inv
<1>2. /\ pc[w] = "scan" /\ next <= Rows /\ next' = next + 1 /\ elem' = elem /\ graph' = graph /\ lock' = lock
      /\ done' = done /\ disk' = disk
      /\ IF Val[next] = Null THEN op' = op /\ pc' = pc
         ELSE op' = [op EXCEPT ![w].row = next] /\ pc' = [pc EXCEPT ![w] = "begin"]
  BY DEF NextRow, Goto
<1>3. /\ "begin" \in Busy /\ "begin" \in Waits /\ "begin" \notin Ended /\ "begin" \notin Fresh /\ "begin" \notin InMemory
      /\ "begin" \notin Linking /\ "scan" \notin Busy /\ "scan" \notin Ended /\ "begin" # "finished"
  BY DEF Waits, Busy, Fresh, Linking, InMemory, Ended
<1>n. PICK n : n = next OBVIOUS
<1>4. n \in 1..Rows /\ n \in Elems /\ Rows \in Nat /\ n # Nil /\ next' \in 1..(Rows + 1)
  <2>1. next \in 1..(Rows + 1) BY <1>1 DEF Typed
  <2> QED BY <1>2, <1>n, <2>1, Basics
<1>5. \A v \in Workers : op[v].row # n /\ (op[v].row \in Nat /\ op[v].row # n)
  <2>1. ASSUME NEW v \in Workers PROVE op[v].row \in 0..(n - 1)
    <3>1. pc[v] \in Busy => op[v].row \in 1..(n - 1) BY <1>1, <1>n DEF Turns
    <3>2. pc[v] \notin Busy => op[v].row = 0 BY <1>1, Basics DEF Turns
    <3> QED BY <1>4, <3>1, <3>2
  <2> QED BY <1>4, <2>1
<1>6. /\ op[w].row = Nil /\ op \in [Workers -> OpType] /\ pc \in [Workers -> Busy \cup Ended \cup {"scan"}]
  BY <1>1, <1>2, <1>3 DEF Turns, Typed
<1> DEFINE taken == Val[n] # Null
<1>7. /\ op' \in [Workers -> OpType] /\ pc' \in [Workers -> Busy \cup Ended \cup {"scan"}]
      /\ \A v \in Workers : op'[v].entry = op[v].entry /\ op'[v].row = IF taken /\ v = w THEN n ELSE op[v].row
      /\ \A v \in Workers : pc'[v] = IF taken /\ v = w THEN "begin" ELSE pc[v]
  <2>1. CASE taken
    <3>1. op' = [op EXCEPT ![w].row = n] /\ pc' = [pc EXCEPT ![w] = "begin"] BY <1>2, <1>n, <2>1
    <3> QED BY <1>3, <1>4, <1>6, <2>1, <3>1 DEF OpType
  <2>2. CASE ~taken BY <1>2, <1>6, <1>n, <2>2
  <2> QED BY <2>1, <2>2
<1>8. taken <=> Val[n] # Null OBVIOUS
<1> HIDE DEF taken
<1>9. Typed' BY <1>1, <1>2, <1>4, <1>7 DEF Typed
<1>10. Linked' BY <1>1, <1>2, <1>7 DEF Linked, Added
<1>11. Turns'
  <2>1. \A v \in Workers : pc'[v] \in Ended <=> pc[v] \in Ended BY <1>2, <1>3, <1>7
  <2>2. {v \in Workers : pc'[v] \in Ended} = {v \in Workers : pc[v] \in Ended} BY <2>1
  <2>3. ASSUME NEW v \in Workers
        PROVE  IF pc'[v] \in Busy THEN op'[v].row \in 1..(next' - 1) /\ Val[op'[v].row] # Null ELSE op'[v].row = Nil
    <3>1. CASE taken /\ v = w
      <4>1. n \in 1..(next' - 1) BY <1>2, <1>4, <1>n
      <4> QED BY <1>3, <1>7, <1>8, <3>1, <4>1
    <3>2. CASE ~(taken /\ v = w)
      <4>1. op'[v].row = op[v].row /\ pc'[v] = pc[v] BY <1>7, <3>2
      <4>2. 1..(next - 1) \subseteq 1..(next' - 1) BY <1>2, <1>4, <1>n
      <4> QED BY <1>1, <4>1, <4>2 DEF Turns
    <3> QED BY <3>1, <3>2
  <2>4. \A u, v \in Workers : op'[u].row = op'[v].row /\ op'[u].row # Nil => u = v BY <1>1, <1>5, <1>7 DEF Turns
  <2>5. \A v \in Workers : pc'[v] \in InMemory => v \in lock'.flushS /\ ~graph'.flushed
    BY <1>1, <1>2, <1>3, <1>7 DEF Turns
  <2>6. graph'.flushed => disk'.flushed = graph'.list BY <1>1, <1>2 DEF Turns
  <2>7. \A v \in Workers : pc'[v] \notin Ended
    <3>1. ASSUME NEW v \in Workers PROVE pc[v] \notin Ended
      <4>1. next # Rows + 1 BY <1>4, <1>n
      <4> QED BY <1>1, <4>1 DEF Turns
    <3> QED BY <2>1, <3>1
  <2>8. done' = Cardinality({v \in Workers : pc'[v] \in Ended}) BY <1>1, <1>2, <2>2 DEF Turns
  <2>9. pc'[Leader] # "finished" BY <2>7, Basics DEF Ended
  <2> QED BY <2>3, <2>4, <2>5, <2>6, <2>7, <2>8, <2>9 DEF Turns
<1>12. Elements'
  <2>1. ASSUME NEW r \in Elems PROVE Waiting(r)' <=> Waiting(r)
    <3>1. r \in Nat /\ next \in Nat BY <1>4, <1>n, Basics
    <3>2. CASE r = n
      <4>1. Waiting(r) BY <1>n, <3>1, <3>2 DEF Waiting
      <4>2. Waiting(r)'
        <5>1. CASE taken
          <6>1. op'[w].row = r /\ pc'[w] \in Waits BY <1>3, <1>7, <3>2, <5>1
          <6> QED BY <6>1 DEF Waiting
        <5>2. CASE ~taken BY <1>8, <3>2, <5>2 DEF Waiting
        <5> QED BY <5>1, <5>2
      <4> QED BY <4>1, <4>2
    <3>3. CASE r # n
      <4>1. r >= next' <=> r >= next BY <1>2, <1>n, <3>1, <3>3
      <4>2. \A v \in Workers : op'[v].row = r /\ pc'[v] \in Waits <=> op[v].row = r /\ pc[v] \in Waits
        <5>1. r # Nil BY Basics
        <5> QED BY <1>6, <1>7, <3>3, <5>1
      <4> QED BY <4>1, <4>2 DEF Waiting
    <3> QED BY <3>2, <3>3
  <2>2. \A v \in Workers : pc'[v] \in Fresh => elem'[op'[v].row].tids = {op'[v].row}
    BY <1>1, <1>2, <1>3, <1>7 DEF Elements
  <2>3. \A v \in Workers : pc'[v] \in Linking => op'[v].row \in Added BY <1>1, <1>3, <1>7 DEF Elements
  <2> QED BY <1>1, <1>2, <2>1, <2>2, <2>3, ElementsKept
<1>13. Counted' = Counted
  <2>1. ASSUME NEW r \in 1..n
        PROVE  Val[r] # Null /\ (\A v \in Workers : op'[v].row # r) <=>
                 r \in 1..(n - 1) /\ Val[r] # Null /\ (\A v \in Workers : op[v].row # r)
    <3>1. CASE r = n
      <4>1. r \notin 1..(n - 1) BY <1>4, <3>1
      <4>2. taken => op'[w].row = r BY <1>7, <3>1
      <4> QED BY <1>8, <3>1, <4>1, <4>2
    <3>2. CASE r # n
      <4>1. r \in 1..(n - 1) /\ r # Nil BY <1>4, <3>2, Basics
      <4>2. \A v \in Workers : op'[v].row = r <=> op[v].row = r BY <1>6, <1>7, <3>2, <4>1
      <4> QED BY <4>1, <4>2
    <3> QED BY <3>1, <3>2
  <2>2. next' - 1 = n /\ 1..(n - 1) \subseteq 1..n BY <1>2, <1>4, <1>n
  <2>3. Counted' = {r \in 1..n : Val[r] # Null /\ \A v \in Workers : op'[v].row # r} BY <2>2 DEF Counted
  <2>4. Counted = {r \in 1..(n - 1) : Val[r] # Null /\ \A v \in Workers : op[v].row # r} BY <1>n DEF Counted
  <2> QED BY <2>1, <2>2, <2>3, <2>4
<1> QED BY <1>1, <1>2, <1>9, <1>10, <1>11, <1>12, <1>13 DEF Inv

\* The end of a participant, and the end of the build
LEMMA FinishKeeps == ASSUME Inv, NEW w \in Workers, Finish(w) PROVE Inv'
<1>1. Typed /\ Turns /\ Linked /\ Elements /\ graph.indtuples = Cardinality(Counted) BY DEF Inv
<1>l. PICK label : label = IF w = Leader THEN "await" ELSE "finished" OBVIOUS
<1>2. /\ pc[w] = "scan" /\ next > Rows /\ next' = next /\ elem' = elem /\ graph' = graph /\ lock' = lock
      /\ op' = op /\ disk' = disk /\ done' = done + 1 /\ pc' = [pc EXCEPT ![w] = label]
  BY <1>l DEF Finish, Goto
<1>3. /\ label \in Ended /\ label \notin Busy /\ label \notin Waits /\ label \notin Fresh /\ label \notin Linking
      /\ label \notin InMemory /\ "scan" \notin Busy /\ "scan" \notin Ended /\ "scan" \notin Waits
  BY <1>l DEF Ended, Busy, Waits, Fresh, Linking, InMemory
<1>4. next = Rows + 1
  <2>1. next \in 1..(Rows + 1) BY <1>1 DEF Typed
  <2> QED BY <1>2, <2>1, Basics
<1>5. /\ pc' \in [Workers -> Busy \cup Ended \cup {"scan"}] /\ \A v \in Workers : pc'[v] = IF v = w THEN label ELSE pc[v]
  BY <1>1, <1>2, <1>3 DEF Typed
<1>6. Typed'
  <2>1. done' \in Nat BY <1>1, <1>2 DEF Typed
  <2> QED BY <1>1, <1>2, <1>5, <2>1 DEF Typed
<1>7. Linked' BY <1>1, <1>2 DEF Linked, Added
<1>8. Turns'
  <2> DEFINE S == {v \in Workers : pc[v] \in Ended}
  <2>1. {v \in Workers : pc'[v] \in Ended} = S \cup {w} /\ w \notin S BY <1>2, <1>3, <1>5
  <2>2. IsFiniteSet(S) BY Basics, FS_Subset
  <2>3. done = Cardinality(S) BY <1>1 DEF Turns
  <2> HIDE DEF S
  <2>4. Cardinality(S \cup {w}) = Cardinality(S) + 1 BY <2>1, <2>2, FS_AddElement
  <2>5. done' = Cardinality({v \in Workers : pc'[v] \in Ended}) BY <1>2, <2>1, <2>3, <2>4
  <2>6. \A v \in Workers : IF pc'[v] \in Busy THEN op'[v].row \in 1..(next' - 1) /\ Val[op'[v].row] # Null
                           ELSE op'[v].row = Nil
    BY <1>1, <1>2, <1>3, <1>5 DEF Turns
  <2>7. \A u, v \in Workers : op'[u].row = op'[v].row /\ op'[u].row # Nil => u = v BY <1>1, <1>2 DEF Turns
  <2>8. \A v \in Workers : pc'[v] \in InMemory => v \in lock'.flushS /\ ~graph'.flushed
    BY <1>1, <1>2, <1>3, <1>5 DEF Turns
  <2>9. graph'.flushed => disk'.flushed = graph'.list BY <1>1, <1>2 DEF Turns
  <2>10. \A v \in Workers : pc'[v] \in Ended => next' = Rows + 1 BY <1>2, <1>4
  <2>11. pc'[Leader] # "finished"
    <3>1. CASE w = Leader BY <1>5, <1>l, <3>1
    <3>2. CASE w # Leader
      <4>1. pc[w] \notin Ended BY <1>2, <1>3
      <4>2. pc[Leader] # "finished" BY <1>1, <4>1 DEF Turns
      <4> QED BY <1>5, <3>2, <4>2, Basics
    <3> QED BY <3>1, <3>2
  <2> QED BY <2>5, <2>6, <2>7, <2>8, <2>9, <2>10, <2>11 DEF Turns
<1>9. Elements'
  <2>1. ASSUME NEW r \in Elems PROVE Waiting(r)' <=> Waiting(r)
    <3>1. \A v \in Workers : pc'[v] \in Waits <=> pc[v] \in Waits BY <1>2, <1>3, <1>5
    <3> QED BY <1>2, <3>1 DEF Waiting
  <2>2. \A v \in Workers : pc'[v] \in Fresh => elem'[op'[v].row].tids = {op'[v].row}
    BY <1>1, <1>2, <1>3, <1>5 DEF Elements
  <2>3. \A v \in Workers : pc'[v] \in Linking => op'[v].row \in Added BY <1>1, <1>2, <1>3, <1>5 DEF Elements
  <2> QED BY <1>1, <1>2, <2>1, <2>2, <2>3, ElementsKept
<1>10. Counted' = Counted BY <1>2 DEF Counted
<1> QED BY <1>1, <1>2, <1>6, <1>7, <1>8, <1>9, <1>10 DEF Inv

LEMMA AllEnded ==
  ASSUME Typed, Turns, AllDone
  PROVE  \A w \in Workers : pc[w] \in Ended /\ pc[w] \notin Busy /\ pc[w] \notin Waits /\ pc[w] \notin InMemory
                            /\ pc[w] \notin Fresh /\ pc[w] \notin Linking
<1> DEFINE S == {w \in Workers : pc[w] \in Ended}
<1>1. S \subseteq Workers /\ Cardinality(S) = Cardinality(Workers) BY DEF Turns, AllDone
<1>2. \A w \in S : pc[w] \in Ended OBVIOUS
<1> HIDE DEF S
<1>3. S = Workers BY <1>1, Basics, FS_Subset
<1> QED BY <1>2, <1>3 DEF Ended, Busy, Waits, InMemory, Fresh, Linking

LEMMA EndBuildKeeps == ASSUME Inv, EndBuild PROVE Inv'
<1>1. Typed /\ Turns /\ Linked /\ Elements /\ graph.indtuples = Cardinality(Counted) BY DEF Inv
<1>2. /\ pc[Leader] = "await" /\ next' = next /\ elem' = elem /\ lock' = lock /\ op' = op /\ done' = done
      /\ pc' = [pc EXCEPT ![Leader] = "finished"] /\ AllDone
  BY DEF EndBuild, Goto
<1>3. \A v \in Workers : pc[v] \in Ended /\ pc[v] \notin Busy /\ pc[v] \notin Waits /\ pc[v] \notin InMemory
                         /\ pc[v] \notin Fresh /\ pc[v] \notin Linking
  BY <1>1, <1>2, AllEnded
<1>4. /\ pc' \in [Workers -> Busy \cup Ended \cup {"scan"}]
      /\ \A v \in Workers : pc'[v] = IF v = Leader THEN "finished" ELSE pc[v]
  <2>1. "finished" \in Ended BY DEF Ended
  <2> QED BY <1>1, <1>2, <2>1 DEF Typed
<1>5. \A v \in Workers : pc'[v] \in Ended /\ pc'[v] \notin Busy /\ pc'[v] \notin Waits /\ pc'[v] \notin InMemory
                         /\ pc'[v] \notin Fresh /\ pc'[v] \notin Linking
  <2>1. /\ "finished" \in Ended /\ "finished" \notin Busy /\ "finished" \notin Waits /\ "finished" \notin InMemory
        /\ "finished" \notin Fresh /\ "finished" \notin Linking
    BY DEF Ended, Busy, Waits, InMemory, Fresh, Linking
  <2> QED BY <1>3, <1>4, <2>1
<1>6. /\ graph' \in GraphType /\ graph'.list = graph.list /\ graph'.entry = graph.entry /\ graph'.flushed
      /\ graph'.indtuples = graph.indtuples /\ disk' \in DiskType /\ disk'.rows = disk.rows /\ disk'.flushed = graph.list
  <2>1. CASE graph.flushed
    <3>1. graph' = graph /\ disk' = disk BY <2>1 DEF EndBuild
    <3> QED BY <1>1, <2>1, <3>1 DEF Typed, Turns
  <2>2. CASE ~graph.flushed
    <3>1. /\ graph' = [graph EXCEPT !.flushed = TRUE]
          /\ disk' = [flushed |-> graph.list, entry |-> graph.entry, rows |-> disk.rows]
      BY <2>2 DEF EndBuild, FlushPages, Flushed
    <3> QED BY <1>1, <3>1 DEF Typed, GraphType, DiskType
  <2> QED BY <2>1, <2>2
<1>7. Typed' BY <1>1, <1>2, <1>4, <1>6 DEF Typed
<1>8. Linked' BY <1>1, <1>2, <1>6 DEF Linked, Added
<1>9. Turns'
  <2>1. {v \in Workers : pc'[v] \in Ended} = {v \in Workers : pc[v] \in Ended} BY <1>3, <1>5
  <2>2. \A v \in Workers : op'[v].row = Nil BY <1>1, <1>2, <1>3 DEF Turns
  <2>3. next' = Rows + 1 BY <1>1, <1>2, <1>3, Basics DEF Turns
  <2>4. done' = Cardinality({v \in Workers : pc'[v] \in Ended}) BY <1>1, <1>2, <2>1 DEF Turns
  <2> QED BY <1>5, <1>6, <2>2, <2>3, <2>4 DEF Turns
<1>10. Elements'
  <2>1. \A r \in Elems : Waiting(r)' <=> Waiting(r) BY <1>2, <1>3, <1>5 DEF Waiting
  <2> QED BY <1>1, <1>2, <1>5, <1>6, <2>1, ElementsKept
<1>11. Counted' = Counted BY <1>2 DEF Counted
<1> QED BY <1>1, <1>6, <1>7, <1>8, <1>9, <1>10, <1>11 DEF Inv

-----------------------------------------------------------------------------
(* The theorem                                                             *)

LEMMA InitInv == Init => Inv
<1> SUFFICES ASSUME Init PROVE Inv
  OBVIOUS
<1>1. /\ next = 1 /\ done = 0 /\ disk = NoDisk /\ elem = [e \in Elems |-> NoElem]
      /\ graph = [list |-> <<>>, entry |-> Nil, used |-> 0, flushed |-> FALSE, indtuples |-> 0]
      /\ lock = [flushS |-> {}, entryS |-> {}, entryX |-> {}, wait |-> {}]
      /\ op = [w \in Workers |-> NoOp] /\ pc = [w \in Workers |-> "scan"]
  BY DEF Init
<1>2. EmptyBag \in BagsOf /\ DOMAIN EmptyBag = {} BY SetsAreBags DEF EmptyBag
<1>3. NoElem \in ElemType /\ NoElem.tids = {} /\ NoElem.nbrs = [l \in Levels |-> EmptyBag]
  BY <1>2, Basics DEF NoElem, ElemType
<1>4. NoOp \in OpType /\ NoOp.row = Nil /\ NoOp.entry = Nil BY <1>2, Basics DEF NoOp, OpType
<1>5. /\ graph \in GraphType /\ graph.list = <<>> /\ graph.entry = Nil /\ ~graph.flushed /\ graph.indtuples = 0
  BY <1>1 DEF GraphType
<1>6. disk \in DiskType /\ disk.rows = {} BY <1>1 DEF NoDisk, DiskType
<1>7. lock \in LockType BY <1>1 DEF LockType
<1>8. Typed
  <2>1. next \in 1..(Rows + 1) /\ done \in Nat BY <1>1, Basics
  <2> QED BY <1>1, <1>3, <1>4, <1>5, <1>6, <1>7, <2>1 DEF Typed
<1>9. Added = {} BY <1>5, <1>8, AddedIs DEF Typed
<1>10. Linked BY <1>1, <1>2, <1>3, <1>4, <1>5, <1>9 DEF Linked
<1>11. \A w \in Workers : pc[w] = "scan" /\ pc[w] \notin Busy /\ pc[w] \notin Ended /\ pc[w] \notin InMemory
                          /\ pc[w] \notin Fresh /\ pc[w] \notin Linking
  BY <1>1 DEF Busy, Waits, Ended, InMemory, Fresh, Linking
<1>12. Turns
  <2>1. {w \in Workers : pc[w] \in Ended} = {} BY <1>11
  <2>2. done = Cardinality({w \in Workers : pc[w] \in Ended}) BY <1>1, <2>1, FS_EmptySet
  <2>3. \A w \in Workers : op[w].row = Nil BY <1>1, <1>4
  <2> QED BY <1>5, <1>11, <2>2, <2>3, Basics DEF Turns
<1>13. Elements
  <2>1. \A r \in Elems : Waiting(r) /\ ~InList(r) BY <1>1, <1>9, Basics DEF Waiting, InList
  <2> QED BY <1>5, <1>6, <1>9, <1>11, <2>1 DEF Elements
<1>14. Counted = {}
  <2>1. 1..(next - 1) = {} BY <1>1
  <2> QED BY <2>1 DEF Counted
<1> QED BY <1>5, <1>8, <1>10, <1>12, <1>13, <1>14, FS_EmptySet DEF Inv

LEMMA StutterKeeps == Inv /\ UNCHANGED vars => Inv'
BY DEF vars, Inv, Typed, Turns, Elements, Linked, Added, Waiting, InList, Once, Counted

LEMMA NextKeeps == ASSUME Inv, [Next]_vars PROVE Inv'
<1>1. CASE UNCHANGED vars BY <1>1, StutterKeeps
<1>2. CASE EndBuild BY <1>2, EndBuildKeeps
<1>3. ASSUME NEW w \in Workers, Step(w) PROVE Inv'
  <2>1. CASE NextRow(w) BY <2>1, NextRowKeeps
  <2>2. CASE BeginInsert(w) BY <2>2, BeginInsertKeeps
  <2>3. CASE OutOfMemory(w) BY <2>3, OutOfMemoryKeeps
  <2>4. CASE Flush(w) BY <2>4, FlushKeeps
  <2>5. CASE InsertOnDisk(w) BY <2>5, InsertOnDiskKeeps
  <2>6. CASE CountTuple(w) BY <2>6, CountTupleKeeps
  <2>7. CASE \E l \in Levels : Allocate(w, l) BY <2>7, AllocateKeeps
  <2>8. CASE WaitForEntry(w) BY <2>8, WaitForEntryKeeps
  <2>9. CASE GetEntry(w) BY <2>9, GetEntryKeeps
  <2>10. CASE LockWait(w) BY <2>10, LockWaitKeeps
  <2>11. CASE LockEntry(w) BY <2>11, LockEntryKeeps
  <2>12. CASE FindNeighbors(w) BY <2>12, FindNeighborsKeeps
  <2>13. CASE \E n \in Elems : AddDuplicate(w, n) BY <2>13, AddDuplicateKeeps
  <2>14. CASE NoDuplicate(w) BY <2>14, NoDuplicateKeeps
  <2>15. CASE AddElementInMemory(w) BY <2>15, AddElementKeeps
  <2>16. CASE CopyNeighbors(w) BY <2>16, CopyNeighborsKeeps
  <2>17. CASE UpdateNeighbor(w) BY <2>17, UpdateNeighborKeeps
  <2>18. CASE StoreEntry(w) BY <2>18, StoreEntryKeeps
  <2>19. CASE Finish(w) BY <2>19, FinishKeeps
  <2> QED BY <1>3, <2>1, <2>2, <2>3, <2>4, <2>5, <2>6, <2>7, <2>8, <2>9, <2>10, <2>11, <2>12, <2>13, <2>14, <2>15,
            <2>16, <2>17, <2>18, <2>19 DEF Step
<1> QED BY <1>1, <1>2, <1>3 DEF Next

LEMMA Invariance == Spec => []Inv
<1>1. Inv /\ [Next]_vars => Inv' BY NextKeeps
<1> QED BY <1>1, InitInv, PTL DEF Spec

\* Once the build is over no row waits, and each is in one place
LEMMA PlacesAre ==
  ASSUME Inv, pc[Leader] = "finished", NEW r \in Elems
  PROVE  Places(r) = IF Val[r] # Null THEN 1 ELSE 0
<1>1. Typed /\ Turns /\ Elements BY DEF Inv
<1>2. graph.list \in Seq(Elems) /\ Added = {graph.list[i] : i \in 1..Len(graph.list)}
  BY <1>1, AddedIs DEF Typed, GraphType
<1>3. disk.flushed = graph.list /\ \A w \in Workers : pc[w] \in Ended BY <1>1 DEF Turns
<1>4. next = Rows + 1 BY <1>1, <1>3, Basics DEF Turns
<1> DEFINE S == {i \in 1..Len(graph.list) : r \in elem[graph.list[i]].tids}
<1>5. Places(r) = Cardinality(S) + (IF r \in disk.rows THEN 1 ELSE 0) BY <1>3 DEF Places
<1>6. InList(r) <=> S # {} BY <1>2 DEF InList
<1>7. \A w \in Workers : pc[w] \notin Waits BY <1>3 DEF Ended, Waits, Fresh
<1>8. Waiting(r) <=> Val[r] = Null
  <2>1. ~(r >= next) BY <1>4, Basics
  <2> QED BY <1>7, <2>1 DEF Waiting
<1>9. CASE Val[r] = Null \/ r \in disk.rows
  <2>1. ~InList(r) /\ (r \in disk.rows <=> Val[r] # Null) BY <1>1, <1>8, <1>9 DEF Elements, Once
  <2>2. S = {} BY <1>6, <2>1
  <2>3. Cardinality(S) = 0 BY <2>2, FS_EmptySet
  <2> HIDE DEF S
  <2> QED BY <1>5, <2>1, <2>3
<1>10. CASE Val[r] # Null /\ r \notin disk.rows
  <2>1. InList(r) /\ \A e, f \in Added : r \in elem[e].tids /\ r \in elem[f].tids => e = f
    BY <1>1, <1>8, <1>10 DEF Elements, Once
  <2>2. PICK i : i \in S BY <1>6, <2>1
  <2>3. \A j \in S : j = i
    <3>1. \A j \in S : graph.list[j] \in Added /\ r \in elem[graph.list[j]].tids BY <1>2
    <3>2. \A j \in S : graph.list[j] = graph.list[i] BY <2>1, <2>2, <3>1
    <3> QED BY <1>1, <2>2, <3>2 DEF Elements
  <2>4. S = {i} BY <2>2, <2>3
  <2>5. Cardinality(S) = 1 BY <2>4, FS_Singleton
  <2> HIDE DEF S
  <2> QED BY <1>5, <1>10, <2>5
<1> QED BY <1>9, <1>10

LEMMA RowsFit == Inv => RowsOnce
<1> SUFFICES ASSUME Inv, pc[Leader] = "finished"
             PROVE  LET rows == {r \in Elems : Val[r] # Null}
                    IN /\ \A r \in Elems : Places(r) = IF r \in rows THEN 1 ELSE 0
                       /\ \A e \in ToSet(disk.flushed) : \A r \in elem[e].tids : Val[r] = Val[e]
                       /\ graph.indtuples = Cardinality(rows)
  BY DEF RowsOnce
<1> DEFINE rows == {r \in Elems : Val[r] # Null}
<1>1. Typed /\ Turns /\ Elements /\ graph.indtuples = Cardinality(Counted) BY DEF Inv
<1>2. disk.flushed = graph.list /\ \A w \in Workers : pc[w] \in Ended BY <1>1 DEF Turns
<1>3. \A r \in Elems : Places(r) = IF r \in rows THEN 1 ELSE 0 BY PlacesAre
<1>4. \A e \in ToSet(disk.flushed) : \A r \in elem[e].tids : Val[r] = Val[e] BY <1>1, <1>2 DEF Elements, Added
<1>5. Counted = rows
  <2>1. next = Rows + 1 BY <1>1, <1>2, Basics DEF Turns
  <2>2. \A w \in Workers : op[w].row = Nil
    <3>1. \A w \in Workers : pc[w] \notin Busy BY <1>2 DEF Ended, Busy, Waits, Fresh, Linking
    <3> QED BY <1>1, <3>1 DEF Turns
  <2>3. 1..(next - 1) = Elems /\ \A r \in Elems : r # Nil BY <2>1, Basics
  <2> QED BY <2>2, <2>3 DEF Counted
<1> QED BY <1>1, <1>3, <1>4, <1>5

\* When the build is over every row with a vector is in the index once, in an
\* element of its value or inserted on disk, and is counted once in indtuples,
\* however the inserts of the participants run beside each other and whenever
\* one of them finds the memory full and flushes the graph.
THEOREM AllRowsOnce == Spec => []RowsOnce
BY Invariance, RowsFit, PTL

-----------------------------------------------------------------------------
(* The entry point is on the highest layer                                 *)

\* From the entry point it has taken to the one it stores, a participant holds
\* entryLock, exclusively if its element may be higher, so that the entry
\* point it knows is the one of the graph.
Holding == {"find", "dup"} \cup {"add"} \cup Linking
Held ==
  /\ \A w \in Workers : w \in lock.entryS \cup lock.entryX <=> pc[w] \in Holding
  /\ \A v, w \in Workers : v \in lock.entryX /\ w \in lock.entryS \cup lock.entryX => v = w
  /\ lock.entryS \cap lock.entryX = {}
  /\ \A w \in Workers : pc[w] \in Holding => op[w].entry = graph.entry
  /\ \A w \in lock.entryS : ~Rises(w, graph.entry)

\* No element of the list is above the entry point but one on its way there
Below(e) == graph.entry # Nil /\ Level(e) <= Level(graph.entry)
Highest == \A e \in Added : Below(e) \/ \E w \in lock.entryX : op[w].row = e
HInv == Inv /\ Held /\ Highest

\* The participants under the lock, their rows and the elements of the list
LEMMA HeldRows ==
  ASSUME HInv
  PROVE  /\ \A w \in Workers : pc[w] \in Holding => op[w].row \in Elems
         /\ Added \subseteq Elems /\ graph.entry \in Added \cup {Nil}
         /\ \A e \in Elems : elem[e].level \in Levels
         /\ lock.entryS \subseteq Workers /\ lock.entryX \subseteq Workers
<1>1. Typed /\ Turns /\ Linked BY DEF HInv, Inv
<1>2. \A w \in Workers : pc[w] \in Holding => pc[w] \in Busy
  BY DEF Holding, Busy, Waits, Fresh
<1>3. \A w \in Workers : pc[w] \in Holding => op[w].row \in Elems BY <1>1, <1>2, RowIs
<1>4. Added \subseteq Elems BY <1>1, AddedIs DEF Typed
<1>5. \A e \in Elems : elem[e].level \in Levels BY <1>1 DEF Typed, ElemType
<1>6. lock.entryS \subseteq Workers /\ lock.entryX \subseteq Workers BY <1>1 DEF Typed, LockType
<1> QED BY <1>1, <1>3, <1>4, <1>5, <1>6 DEF Linked

\* A step that takes or gives back no entry lock keeps this, if it leaves
\* levels, the list and the entry point alone
LEMMA HeldKept ==
  ASSUME HInv, Inv', graph'.entry = graph.entry, graph'.list = graph.list,
         lock'.entryS = lock.entryS, lock'.entryX = lock.entryX,
         \A v \in Workers : pc'[v] \in Holding <=> pc[v] \in Holding,
         \A v \in Workers : pc[v] \in Holding => op'[v].row = op[v].row /\ op'[v].entry = op[v].entry,
         \A v \in Workers : pc[v] \in Holding => elem'[op[v].row].level = elem[op[v].row].level,
         \A e \in Added : elem'[e].level = elem[e].level
  PROVE  HInv'
<1>1. Held /\ Highest BY DEF HInv
<1>2. Added' = Added /\ graph.entry \in Added \cup {Nil} /\ lock.entryS \subseteq Workers /\ lock.entryX \subseteq Workers
  BY HeldRows DEF Added
<1>3. \A w \in lock.entryS \cup lock.entryX : pc[w] \in Holding BY <1>1, <1>2 DEF Held
<1>4. ASSUME NEW w \in lock.entryS PROVE ~Rises(w, graph.entry)'
  <2>1. ~Rises(w, graph.entry) BY <1>1 DEF Held
  <2>2. graph.entry # Nil /\ ~(elem[op[w].row].level > elem[graph.entry].level)
    BY <2>1 DEF Rises, Level
  <2>3. op'[w].row = op[w].row /\ elem'[op[w].row].level = elem[op[w].row].level BY <1>2, <1>3
  <2>4. elem'[graph.entry].level = elem[graph.entry].level BY <1>2, <2>2
  <2> QED BY <2>2, <2>3, <2>4 DEF Rises, Level
<1>5. Held'
  <2>1. \A w \in Workers : w \in lock'.entryS \cup lock'.entryX <=> pc'[w] \in Holding BY <1>1 DEF Held
  <2>2. \A v, w \in Workers : v \in lock'.entryX /\ w \in lock'.entryS \cup lock'.entryX => v = w
    BY <1>1 DEF Held
  <2>3. lock'.entryS \cap lock'.entryX = {} BY <1>1 DEF Held
  <2>4. \A w \in Workers : pc'[w] \in Holding => op'[w].entry = graph'.entry BY <1>1 DEF Held
  <2> QED BY <1>4, <2>1, <2>2, <2>3, <2>4 DEF Held
<1>6. ASSUME NEW e \in Added PROVE Below(e)' \/ \E w \in lock'.entryX : op'[w].row = e
  <2>1. CASE Below(e)
    <3>1. elem'[e].level = elem[e].level OBVIOUS
    <3>2. graph.entry # Nil /\ elem'[graph.entry].level = elem[graph.entry].level BY <1>2, <2>1 DEF Below
    <3> QED BY <2>1, <3>1, <3>2 DEF Below, Level
  <2>2. CASE \E w \in lock.entryX : op[w].row = e BY <1>2, <1>3, <2>2
  <2> QED BY <1>1, <2>1, <2>2 DEF Highest
<1>7. Highest' BY <1>2, <1>6 DEF Highest
<1> QED BY <1>5, <1>7 DEF HInv

\* ... such as one between two labels under the lock, or two without it
LEMMA HeldMoves ==
  ASSUME HInv, Inv', NEW w \in Workers, NEW label,
         pc' = [pc EXCEPT ![w] = label] \/ (pc' = pc /\ label = pc[w]),
         label \in Holding <=> pc[w] \in Holding,
         graph'.entry = graph.entry, graph'.list = graph.list,
         lock'.entryS = lock.entryS, lock'.entryX = lock.entryX,
         \A v \in Workers : pc[v] \in Holding => op'[v].row = op[v].row /\ op'[v].entry = op[v].entry,
         \A e \in Elems : elem'[e].level = elem[e].level
  PROVE  HInv'
<1>1. Typed BY DEF HInv, Inv
<1>2. \A v \in Workers : pc'[v] = IF v = w THEN label ELSE pc[v] BY <1>1 DEF Typed
<1>3. \A v \in Workers : pc'[v] \in Holding <=> pc[v] \in Holding BY <1>2
<1>4. /\ \A v \in Workers : pc[v] \in Holding => elem'[op[v].row].level = elem[op[v].row].level
      /\ \A e \in Added : elem'[e].level = elem[e].level
  BY HeldRows
<1> QED BY <1>3, <1>4, HeldKept

LEMMA HoldingIs ==
  /\ \A l \in {"scan", "begin", "alloc", "flush", "disk", "count", "wait", "entry", "waitX", "entryX", "await", "finished"} :
        l \notin Holding
  /\ \A l \in {"find", "dup", "add", "copy", "link", "store"} : l \in Holding
  /\ \A l \in Holding : l \in Busy /\ l \in InMemory
BY DEF Holding, Linking, Fresh, Busy, Waits, InMemory

\* Steps without the lock
LEMMA NextRowHigh == ASSUME HInv, NEW w \in Workers, NextRow(w) PROVE HInv'
<1>1. Inv /\ Inv' BY NextRowKeeps DEF HInv
<1>2. pc[w] = "scan" /\ elem' = elem /\ graph' = graph /\ lock' = lock BY DEF NextRow
<1>3. pc[w] \notin Holding BY <1>2, HoldingIs
<1>4. CASE Val[next] = Null
  <2>1. op' = op /\ pc' = pc BY <1>4 DEF NextRow
  <2> QED BY <1>1, <1>2, <2>1, HeldMoves
<1>5. CASE Val[next] # Null
  <2>1. op' = [op EXCEPT ![w].row = next] /\ pc' = [pc EXCEPT ![w] = "begin"] BY <1>5 DEF NextRow, Goto
  <2>2. \A v \in Workers : pc[v] \in Holding => op'[v].row = op[v].row /\ op'[v].entry = op[v].entry
    BY <1>1, <1>3, <2>1 DEF Inv, Typed
  <2>3. "begin" \notin Holding BY HoldingIs
  <2> QED BY <1>1, <1>2, <1>3, <2>1, <2>2, <2>3, HeldMoves
<1> QED BY <1>4, <1>5

LEMMA BeginInsertHigh == ASSUME HInv, NEW w \in Workers, BeginInsert(w) PROVE HInv'
<1>1. Inv /\ Inv' BY BeginInsertKeeps DEF HInv
<1>2. /\ pc[w] = "begin" /\ elem' = elem /\ graph' = graph /\ op' = op
      /\ pc' = [pc EXCEPT ![w] = "disk"] \/ pc' = [pc EXCEPT ![w] = "alloc"]
      /\ lock' = lock \/ lock' = [lock EXCEPT !.flushS = lock.flushS \cup {w}]
  BY DEF BeginInsert, Goto
<1>3. lock'.entryS = lock.entryS /\ lock'.entryX = lock.entryX BY <1>1, <1>2 DEF Inv, Typed, LockType
<1>4. pc[w] \notin Holding /\ "disk" \notin Holding /\ "alloc" \notin Holding BY <1>2, HoldingIs
<1> QED BY <1>1, <1>2, <1>3, <1>4, HeldMoves

LEMMA AllocateHigh == ASSUME HInv, NEW w \in Workers, NEW l \in Levels, Allocate(w, l) PROVE HInv'
<1>1. Inv /\ Inv' BY AllocateKeeps DEF HInv
<1>2. Typed /\ Turns /\ Elements BY <1>1 DEF Inv
<1>r. PICK r : r = op[w].row OBVIOUS
<1>3. /\ pc[w] = "alloc" /\ op' = op /\ lock' = lock /\ pc' = [pc EXCEPT ![w] = "wait"]
      /\ graph' = [graph EXCEPT !.used = graph.used + ElemBytes[l]]
      /\ elem' = [elem EXCEPT ![r] = [[elem[r] EXCEPT !.level = l] EXCEPT !.tids = {r}]]
  BY <1>r DEF Allocate, Goto
<1>4. pc[w] \notin Holding /\ "wait" \notin Holding /\ pc[w] \in Busy BY <1>3, HoldingIs DEF Busy, Waits
<1>5. r \in Elems /\ r # Nil BY <1>2, <1>4, <1>r, RowIs
<1>6. \A e \in Elems \ {r} : elem'[e] = elem[e] BY <1>2, <1>3 DEF Typed
<1>7. r \notin Added
  <2>1. pc[w] \in Waits BY <1>3 DEF Waits
  <2>2. Waiting(r) BY <1>r, <2>1 DEF Waiting
  <2> QED BY <1>2, <1>5, <2>2 DEF Elements
<1>8. \A v \in Workers : pc[v] \in Holding => op[v].row \in Elems \ {r}
  <2>1. \A v \in Workers : pc[v] \in Holding => op[v].row \in Elems BY HeldRows
  <2>2. \A v \in Workers : op[v].row = r => v = w BY <1>2, <1>5, <1>r DEF Turns
  <2> QED BY <1>4, <2>1, <2>2
<1>9. graph'.entry = graph.entry /\ graph'.list = graph.list BY <1>2, <1>3 DEF Typed, GraphType
<1>10. \A v \in Workers : pc'[v] \in Holding <=> pc[v] \in Holding BY <1>2, <1>3, <1>4 DEF Typed
<1>11. \A e \in Added : elem'[e].level = elem[e].level BY <1>6, <1>7, HeldRows
<1>12. \A v \in Workers : pc[v] \in Holding => elem'[op[v].row].level = elem[op[v].row].level BY <1>6, <1>8
<1> QED BY <1>1, <1>3, <1>9, <1>10, <1>11, <1>12, HeldKept

LEMMA OutOfMemoryHigh == ASSUME HInv, NEW w \in Workers, OutOfMemory(w) PROVE HInv'
<1>1. Inv /\ Inv' BY OutOfMemoryKeeps DEF HInv
<1>2. /\ pc[w] = "alloc" /\ elem' = elem /\ graph' = graph /\ op' = op
      /\ pc' = [pc EXCEPT ![w] = "flush"] /\ lock' = [lock EXCEPT !.flushS = lock.flushS \ {w}]
  BY DEF OutOfMemory, Goto
<1>3. lock'.entryS = lock.entryS /\ lock'.entryX = lock.entryX BY <1>1, <1>2 DEF Inv, Typed, LockType
<1>4. pc[w] \notin Holding /\ "flush" \notin Holding BY <1>2, HoldingIs
<1> QED BY <1>1, <1>2, <1>3, <1>4, HeldMoves

LEMMA FlushHigh == ASSUME HInv, NEW w \in Workers, Flush(w) PROVE HInv'
<1>1. Inv /\ Inv' BY FlushKeeps DEF HInv
<1>2. /\ pc[w] = "flush" /\ elem' = elem /\ lock' = lock /\ op' = op /\ pc' = [pc EXCEPT ![w] = "disk"]
      /\ graph' = graph \/ graph' = [graph EXCEPT !.flushed = TRUE]
  BY DEF Flush, FlushPages, Goto
<1>3. graph'.entry = graph.entry /\ graph'.list = graph.list BY <1>1, <1>2 DEF Inv, Typed, GraphType
<1>4. pc[w] \notin Holding /\ "disk" \notin Holding BY <1>2, HoldingIs
<1> QED BY <1>1, <1>2, <1>3, <1>4, HeldMoves

LEMMA InsertOnDiskHigh == ASSUME HInv, NEW w \in Workers, InsertOnDisk(w) PROVE HInv'
<1>1. Inv /\ Inv' BY InsertOnDiskKeeps DEF HInv
<1>2. /\ pc[w] = "disk" /\ elem' = elem /\ graph' = graph /\ lock' = lock /\ op' = op
      /\ pc' = [pc EXCEPT ![w] = "count"]
  BY DEF InsertOnDisk, Goto
<1>3. pc[w] \notin Holding /\ "count" \notin Holding BY <1>2, HoldingIs
<1> QED BY <1>1, <1>2, <1>3, HeldMoves

LEMMA CountTupleHigh == ASSUME HInv, NEW w \in Workers, CountTuple(w) PROVE HInv'
<1>1. Inv /\ Inv' BY CountTupleKeeps DEF HInv
<1>2. /\ pc[w] = "count" /\ elem' = elem /\ lock' = lock /\ pc' = [pc EXCEPT ![w] = "scan"]
      /\ graph' = [graph EXCEPT !.indtuples = graph.indtuples + 1] /\ op' = [op EXCEPT ![w] = NoOp]
  BY DEF CountTuple, Goto
<1>3. pc[w] \notin Holding /\ "scan" \notin Holding BY <1>2, HoldingIs
<1>4. graph'.entry = graph.entry /\ graph'.list = graph.list BY <1>1, <1>2 DEF Inv, Typed, GraphType
<1>5. \A v \in Workers : pc[v] \in Holding => op'[v].row = op[v].row /\ op'[v].entry = op[v].entry
  BY <1>1, <1>2, <1>3 DEF Inv, Typed
<1> QED BY <1>1, <1>2, <1>3, <1>4, <1>5, HeldMoves

LEMMA WaitForEntryHigh == ASSUME HInv, NEW w \in Workers, WaitForEntry(w) PROVE HInv'
<1>1. Inv /\ Inv' BY WaitForEntryKeeps DEF HInv
<1>2. /\ pc[w] = "wait" /\ elem' = elem /\ graph' = graph /\ lock' = lock /\ op' = op
      /\ pc' = [pc EXCEPT ![w] = "entry"]
  BY DEF WaitForEntry, Goto
<1>3. pc[w] \notin Holding /\ "entry" \notin Holding BY <1>2, HoldingIs
<1> QED BY <1>1, <1>2, <1>3, HeldMoves

LEMMA LockWaitHigh == ASSUME HInv, NEW w \in Workers, LockWait(w) PROVE HInv'
<1>1. Inv /\ Inv' BY LockWaitKeeps DEF HInv
<1>2. /\ pc[w] = "waitX" /\ elem' = elem /\ graph' = graph /\ op' = op
      /\ pc' = [pc EXCEPT ![w] = "entryX"] /\ lock' = [lock EXCEPT !.wait = {w}]
  BY DEF LockWait, Goto
<1>3. lock'.entryS = lock.entryS /\ lock'.entryX = lock.entryX BY <1>1, <1>2 DEF Inv, Typed, LockType
<1>4. pc[w] \notin Holding /\ "entryX" \notin Holding BY <1>2, HoldingIs
<1> QED BY <1>1, <1>2, <1>3, <1>4, HeldMoves

LEMMA FinishHigh == ASSUME HInv, NEW w \in Workers, Finish(w) PROVE HInv'
<1>1. Inv /\ Inv' BY FinishKeeps DEF HInv
<1>2. /\ pc[w] = "scan" /\ elem' = elem /\ graph' = graph /\ lock' = lock /\ op' = op
      /\ pc' = [pc EXCEPT ![w] = "await"] \/ pc' = [pc EXCEPT ![w] = "finished"]
  BY DEF Finish, Goto
<1>3. pc[w] \notin Holding /\ "await" \notin Holding /\ "finished" \notin Holding BY <1>2, HoldingIs
<1> QED BY <1>1, <1>2, <1>3, HeldMoves

LEMMA EndBuildHigh == ASSUME HInv, EndBuild PROVE HInv'
<1>1. Inv /\ Inv' /\ Leader \in Workers BY EndBuildKeeps, Basics DEF HInv
<1>2. /\ pc[Leader] = "await" /\ elem' = elem /\ lock' = lock /\ op' = op
      /\ pc' = [pc EXCEPT ![Leader] = "finished"]
      /\ graph' = graph \/ graph' = [graph EXCEPT !.flushed = TRUE]
  BY DEF EndBuild, FlushPages, Goto
<1>3. graph'.entry = graph.entry /\ graph'.list = graph.list BY <1>1, <1>2 DEF Inv, Typed, GraphType
<1>4. pc[Leader] \notin Holding /\ "finished" \notin Holding BY <1>2, HoldingIs
<1> QED BY <1>1, <1>2, <1>3, <1>4, HeldMoves

\* Steps under the lock
LEMMA FindNeighborsHigh == ASSUME HInv, NEW w \in Workers, FindNeighbors(w) PROVE HInv'
<1>1. Inv /\ Inv' BY FindNeighborsKeeps DEF HInv
<1>2. /\ pc[w] = "find" /\ graph' = graph /\ lock' = lock /\ op' = op /\ pc' = [pc EXCEPT ![w] = "dup"]
      /\ \E nbrs : elem' = [elem EXCEPT ![op[w].row].nbrs = nbrs]
  BY DEF FindNeighbors, Goto
<1>3. pc[w] \in Holding /\ "dup" \in Holding BY <1>2, HoldingIs
<1>4. \A e \in Elems : elem'[e].level = elem[e].level BY <1>1, <1>2 DEF Inv, Typed, ElemType
<1> QED BY <1>1, <1>2, <1>3, <1>4, HeldMoves

LEMMA NoDuplicateHigh == ASSUME HInv, NEW w \in Workers, NoDuplicate(w) PROVE HInv'
<1>1. Inv /\ Inv' BY NoDuplicateKeeps DEF HInv
<1>2. /\ pc[w] = "dup" /\ elem' = elem /\ graph' = graph /\ lock' = lock /\ op' = op
      /\ pc' = [pc EXCEPT ![w] = "add"]
  BY DEF NoDuplicate, Goto
<1>3. pc[w] \in Holding /\ "add" \in Holding BY <1>2, HoldingIs
<1> QED BY <1>1, <1>2, <1>3, HeldMoves

LEMMA CopyNeighborsHigh == ASSUME HInv, NEW w \in Workers, CopyNeighbors(w) PROVE HInv'
<1>1. Inv /\ Inv' BY CopyNeighborsKeeps DEF HInv
<1>2. pc[w] = "copy" /\ elem' = elem /\ graph' = graph /\ lock' = lock BY DEF CopyNeighbors
<1>3. pc[w] \in Holding /\ "store" \in Holding /\ "link" \in Holding BY <1>2, HoldingIs
<1>4. CASE op[w].lc = 0
  <2>1. pc' = [pc EXCEPT ![w] = "store"] /\ op' = op BY <1>4 DEF CopyNeighbors, Goto
  <2> QED BY <1>1, <1>2, <1>3, <2>1, HeldMoves
<1>5. CASE op[w].lc # 0
  <2>1. /\ pc' = [pc EXCEPT ![w] = "link"]
        /\ \E todo : op' = [op EXCEPT ![w] = [[op[w] EXCEPT !.lc = op[w].lc - 1] EXCEPT !.todo = todo]]
    BY <1>5 DEF CopyNeighbors, Goto
  <2>2. \A v \in Workers : op'[v].row = op[v].row /\ op'[v].entry = op[v].entry
    BY <1>1, <2>1 DEF Inv, Typed, OpType
  <2> QED BY <1>1, <1>2, <1>3, <2>1, <2>2, HeldMoves
<1> QED BY <1>4, <1>5

LEMMA UpdateNeighborHigh == ASSUME HInv, NEW w \in Workers, UpdateNeighbor(w) PROVE HInv'
<1>1. Inv /\ Inv' BY UpdateNeighborKeeps DEF HInv
<1>2. pc[w] = "link" /\ graph' = graph /\ lock' = lock BY DEF UpdateNeighbor
<1>3. pc[w] \in Holding /\ "copy" \in Holding BY <1>2, HoldingIs
<1>4. CASE op[w].todo = EmptyBag
  <2>1. pc' = [pc EXCEPT ![w] = "copy"] /\ elem' = elem /\ op' = op BY <1>4 DEF UpdateNeighbor, Goto
  <2> QED BY <1>1, <1>2, <1>3, <2>1, HeldMoves
<1>5. CASE op[w].todo # EmptyBag
  <2>1. PICK n, list, todo :
          /\ elem' = [elem EXCEPT ![n].nbrs[op[w].lc] = list] /\ op' = [op EXCEPT ![w].todo = todo] /\ pc' = pc
    BY <1>5 DEF UpdateNeighbor
  <2>2. \A v \in Workers : op'[v].row = op[v].row /\ op'[v].entry = op[v].entry
    BY <1>1, <2>1 DEF Inv, Typed, OpType
  <2>3. \A e \in Elems : elem'[e].level = elem[e].level BY <1>1, <2>1 DEF Inv, Typed, ElemType
  <2> QED BY <1>1, <1>2, <1>3, <2>1, <2>2, <2>3, HeldMoves
<1> QED BY <1>4, <1>5

\* Taking the lock: shared, if the element is not above the entry point
LEMMA GetEntryHigh == ASSUME HInv, NEW w \in Workers, GetEntry(w) PROVE HInv'
<1>1. Inv /\ Inv' /\ Held /\ Highest /\ Typed BY GetEntryKeeps DEF HInv, Inv
<1>2. pc[w] = "entry" /\ lock.entryX = {} /\ elem' = elem /\ graph' = graph BY DEF GetEntry
<1>3. CASE Rises(w, graph.entry)
  <2>1. pc' = [pc EXCEPT ![w] = "waitX"] /\ lock' = lock /\ op' = op BY <1>3 DEF GetEntry, Goto
  <2>2. pc[w] \notin Holding /\ "waitX" \notin Holding BY <1>2, HoldingIs
  <2> QED BY <1>1, <1>2, <2>1, <2>2, HeldMoves
<1>4. CASE ~Rises(w, graph.entry)
  <2>1. /\ pc' = [pc EXCEPT ![w] = "find"] /\ lock' = [lock EXCEPT !.entryS = lock.entryS \cup {w}]
        /\ op' = [op EXCEPT ![w].entry = graph.entry]
    BY <1>4 DEF GetEntry, Goto
  <2>2. pc[w] \notin Holding /\ "find" \in Holding BY <1>2, HoldingIs
  <2>3. lock'.entryS = lock.entryS \cup {w} /\ lock'.entryX = {} BY <1>1, <1>2, <2>1 DEF Typed, LockType
  <2>4. /\ \A v \in Workers : pc'[v] = IF v = w THEN "find" ELSE pc[v]
        /\ \A v \in Workers : op'[v].row = op[v].row /\ op'[v].entry = IF v = w THEN graph.entry ELSE op[v].entry
    BY <1>1, <2>1 DEF Typed, OpType
  <2>5. lock.entryS \subseteq Workers BY HeldRows
  <2>6. \A v \in lock'.entryS : ~Rises(v, graph.entry)'
    <3>1. \A v \in lock.entryS : ~Rises(v, graph.entry) BY <1>1 DEF Held
    <3> QED BY <1>2, <1>4, <2>3, <2>4, <2>5, <3>1 DEF Rises, Level
  <2>7. Held'
    <3>1. \A v \in Workers : v \in lock'.entryS \cup lock'.entryX <=> pc'[v] \in Holding
      BY <1>1, <1>2, <2>2, <2>3, <2>4 DEF Held
    <3>2. \A v \in Workers : pc'[v] \in Holding => op'[v].entry = graph'.entry
      BY <1>1, <1>2, <2>4 DEF Held
    <3> QED BY <2>3, <2>6, <3>1, <3>2 DEF Held
  <2>8. Highest'
    <3>1. Added' = Added BY <1>2 DEF Added
    <3>2. \A e \in Added : Below(e) BY <1>1, <1>2 DEF Highest
    <3>3. \A e \in Added : Below(e)' BY <1>2, <3>2 DEF Below, Level
    <3> QED BY <3>1, <3>3 DEF Highest
  <2> QED BY <1>1, <2>7, <2>8 DEF HInv
<1> QED BY <1>3, <1>4

\* ... and exclusively, with the entry point of now
LEMMA LockEntryHigh == ASSUME HInv, NEW w \in Workers, LockEntry(w) PROVE HInv'
<1>1. Inv /\ Inv' /\ Held /\ Highest /\ Typed BY LockEntryKeeps DEF HInv, Inv
<1>2. /\ pc[w] = "entryX" /\ lock.entryX = {} /\ lock.entryS = {} /\ elem' = elem /\ graph' = graph
      /\ lock' = [[lock EXCEPT !.entryX = {w}] EXCEPT !.wait = {}]
      /\ op' = [op EXCEPT ![w].entry = graph.entry] /\ pc' = [pc EXCEPT ![w] = "find"]
  BY DEF LockEntry, LatestEntry, Goto
<1>3. lock'.entryS = {} /\ lock'.entryX = {w} BY <1>1, <1>2 DEF Typed, LockType
<1>4. /\ \A v \in Workers : pc'[v] = IF v = w THEN "find" ELSE pc[v]
      /\ \A v \in Workers : op'[v].row = op[v].row /\ op'[v].entry = IF v = w THEN graph.entry ELSE op[v].entry
  BY <1>1, <1>2 DEF Typed, OpType
<1>5. "find" \in Holding BY HoldingIs
<1>6. \A v \in Workers : pc[v] \notin Holding BY <1>1, <1>2 DEF Held
<1>7. Held' BY <1>2, <1>3, <1>4, <1>5, <1>6 DEF Held
<1>8. Highest'
  <2>1. Added' = Added BY <1>2 DEF Added
  <2>2. \A e \in Added : Below(e) BY <1>1, <1>2 DEF Highest
  <2>3. \A e \in Added : Below(e)' BY <1>2, <2>2 DEF Below, Level
  <2> QED BY <2>1, <2>3 DEF Highest
<1> QED BY <1>1, <1>7, <1>8 DEF HInv

\* Giving it back, after which no element depends on w any more
LEMMA HeldLeft ==
  ASSUME HInv, Inv', NEW w \in Workers, pc[w] \in Holding, Leave(w), graph'.list = graph.list, op' = op,
         \A e \in Elems \ {op[w].row} : elem'[e].level = elem[e].level,
         op[w].row \in Added => elem'[op[w].row].level = elem[op[w].row].level,
         graph'.entry = graph.entry \/ w \in lock.entryX,
         \A e \in Added : Below(e)' \/ \E v \in lock.entryX \ {w} : op[v].row = e
  PROVE  HInv'
<1>1. Held /\ Typed /\ Turns /\ Linked BY DEF HInv, Inv
<1>2. /\ pc' = [pc EXCEPT ![w] = "count"]
      /\ lock' = [[[lock EXCEPT !.entryS = lock.entryS \ {w}] EXCEPT !.entryX = lock.entryX \ {w}]
                        EXCEPT !.flushS = lock.flushS \ {w}]
  BY DEF Leave, Goto
<1>3. lock'.entryS = lock.entryS \ {w} /\ lock'.entryX = lock.entryX \ {w} BY <1>1, <1>2 DEF Typed, LockType
<1>4. \A v \in Workers : pc'[v] = IF v = w THEN "count" ELSE pc[v] BY <1>1, <1>2 DEF Typed
<1>5. "count" \notin Holding BY HoldingIs
<1>6. lock.entryS \subseteq Workers /\ lock.entryX \subseteq Workers BY HeldRows
<1>7. \A v \in Workers : pc'[v] \in Holding => graph'.entry = graph.entry
  <2>1. ASSUME NEW v \in Workers, pc'[v] \in Holding PROVE w \notin lock.entryX
    <3>1. v # w /\ pc[v] \in Holding BY <1>4, <1>5, <2>1
    <3>2. v \in lock.entryS \cup lock.entryX BY <1>1, <3>1 DEF Held
    <3> QED BY <1>1, <3>1, <3>2 DEF Held
  <2> QED BY <2>1
<1>8. ASSUME NEW v \in lock'.entryS PROVE ~Rises(v, graph.entry)'
  <2>1. v \in Workers /\ v # w /\ v \in lock.entryS /\ pc[v] \in Holding BY <1>1, <1>3, <1>6 DEF Held
  <2>2. ~Rises(v, graph.entry) /\ graph'.entry = graph.entry BY <1>1, <1>4, <1>7, <2>1 DEF Held
  <2>3. graph.entry # Nil /\ graph.entry \in Added BY <2>2, HeldRows DEF Rises
  <2>4. elem'[graph.entry].level = elem[graph.entry].level
    <3>1. graph.entry \in Elems BY <2>3, HeldRows
    <3> QED BY <2>3, <3>1
  <2>5. op[v].row \in Elems BY <2>1, HeldRows
  <2>6. op[v].row # op[w].row
    <3>1. op[v].row # Nil BY <2>5, Basics
    <3> QED BY <1>1, <2>1, <3>1 DEF Turns
  <2>7. elem'[op[v].row].level = elem[op[v].row].level BY <2>5, <2>6
  <2> QED BY <2>2, <2>4, <2>7 DEF Rises, Level
<1>9. Held'
  <2>1. \A v \in Workers : v \in lock'.entryS \cup lock'.entryX <=> pc'[v] \in Holding
    BY <1>1, <1>3, <1>4, <1>5 DEF Held
  <2>2. \A u, v \in Workers : u \in lock'.entryX /\ v \in lock'.entryS \cup lock'.entryX => u = v
    BY <1>1, <1>3 DEF Held
  <2>3. lock'.entryS \cap lock'.entryX = {} BY <1>1, <1>3 DEF Held
  <2>4. \A v \in Workers : pc'[v] \in Holding => op'[v].entry = graph'.entry
    BY <1>1, <1>4, <1>5, <1>7 DEF Held
  <2> QED BY <1>8, <2>1, <2>2, <2>3, <2>4 DEF Held
<1>10. Highest'
  <2>1. Added' = Added BY DEF Added
  <2> QED BY <1>3, <2>1 DEF Highest
<1> QED BY <1>9, <1>10 DEF HInv

LEMMA AddDuplicateHigh == ASSUME HInv, NEW w \in Workers, NEW n \in Elems, AddDuplicate(w, n) PROVE HInv'
<1>1. Inv /\ Inv' /\ Held /\ Highest /\ Typed /\ Elements BY AddDuplicateKeeps DEF HInv, Inv
<1>r. PICK r : r = op[w].row OBVIOUS
<1>2. /\ pc[w] = "dup" /\ graph' = graph /\ op' = op /\ Leave(w)
      /\ \E tids : elem' = [[elem EXCEPT ![n].tids = tids] EXCEPT ![r] = NoElem]
  BY <1>r DEF AddDuplicate
<1>3. pc[w] \in Holding /\ pc[w] \in Waits BY <1>2, HoldingIs DEF Waits, Fresh
<1>4. \A e \in Elems \ {r} : elem'[e].level = elem[e].level BY <1>1, <1>2 DEF Typed, ElemType
<1>5. r \notin Added
  <2>1. r \in Elems BY <1>3, <1>r, HeldRows
  <2>2. Waiting(r) BY <1>3, <1>r DEF Waiting
  <2> QED BY <1>1, <2>1, <2>2 DEF Elements
<1>6. ASSUME NEW e \in Added PROVE Below(e)' \/ \E v \in lock.entryX \ {w} : op[v].row = e
  <2>1. CASE Below(e)
    <3>1. graph.entry # Nil /\ graph.entry \in Added BY <2>1, HeldRows DEF Below
    <3>2. e \in Elems \ {r} /\ graph.entry \in Elems \ {r} BY <1>5, <3>1, HeldRows
    <3>3. elem'[e].level = elem[e].level /\ elem'[graph.entry].level = elem[graph.entry].level BY <1>4, <3>2
    <3> QED BY <1>2, <2>1, <3>3 DEF Below, Level
  <2>2. CASE \E v \in lock.entryX : op[v].row = e BY <1>5, <1>r, <2>2
  <2> QED BY <1>1, <2>1, <2>2 DEF Highest
<1>7. graph'.list = graph.list /\ graph'.entry = graph.entry BY <1>2
<1> QED BY <1>1, <1>2, <1>3, <1>4, <1>5, <1>6, <1>7, <1>r, HeldLeft

\* The new element is not above the entry point, or its participant is alone
LEMMA AddElementHigh == ASSUME HInv, NEW w \in Workers, AddElementInMemory(w) PROVE HInv'
<1>1. Inv /\ Inv' /\ Held /\ Highest /\ Typed BY AddElementKeeps DEF HInv, Inv
<1>r. PICK r : r = op[w].row OBVIOUS
<1>2. /\ pc[w] = "add" /\ elem' = elem /\ lock' = lock /\ pc' = [pc EXCEPT ![w] = "copy"]
      /\ graph' = [graph EXCEPT !.list = <<r>> \o graph.list]
      /\ \E lc : op' = [op EXCEPT ![w].lc = lc]
  BY <1>r DEF AddElementInMemory, Goto
<1>3. pc[w] \in Holding /\ "copy" \in Holding BY <1>2, HoldingIs
<1>4. graph'.entry = graph.entry /\ graph'.list = <<r>> \o graph.list BY <1>1, <1>2 DEF Typed, GraphType
<1>5. r \in Elems BY <1>3, <1>r, HeldRows
<1>6. Added' = Added \cup {r}
  <2>1. graph.list \in Seq(Elems) BY <1>1 DEF Typed, GraphType
  <2>2. ToSet(<<r>> \o graph.list) = ToSet(graph.list) \cup {r} BY <1>5, <2>1, InFront
  <2> QED BY <1>4, <2>2 DEF Added
<1>7. \A v \in Workers : op'[v].row = op[v].row /\ op'[v].entry = op[v].entry
  BY <1>1, <1>2 DEF Typed, OpType
<1>8. \A v \in Workers : pc'[v] \in Holding <=> pc[v] \in Holding BY <1>1, <1>2, <1>3 DEF Typed
<1>9. lock.entryS \subseteq Workers /\ lock.entryX \subseteq Workers BY HeldRows
<1>10. Held'
  <2>1. \A v \in lock'.entryS : ~Rises(v, graph.entry)'
    <3>1. \A v \in lock.entryS : ~Rises(v, graph.entry) BY <1>1 DEF Held
    <3> QED BY <1>2, <1>4, <1>7, <1>9, <3>1 DEF Rises, Level
  <2>2. \A v \in Workers : v \in lock'.entryS \cup lock'.entryX <=> pc'[v] \in Holding BY <1>1, <1>2, <1>8 DEF Held
  <2>3. \A v \in Workers : pc'[v] \in Holding => op'[v].entry = graph'.entry BY <1>1, <1>4, <1>7, <1>8 DEF Held
  <2> QED BY <1>1, <1>2, <2>1, <2>2, <2>3 DEF Held
<1>11. \A e \in Added : Below(e)' \/ \E v \in lock'.entryX : op'[v].row = e
  BY <1>1, <1>2, <1>4, <1>7, <1>9 DEF Highest, Below, Level
<1>12. Below(r)' \/ \E v \in lock'.entryX : op'[v].row = r
  <2>1. CASE w \in lock.entryX BY <1>2, <1>7, <1>r, <2>1
  <2>2. CASE w \in lock.entryS
    <3>1. ~Rises(w, graph.entry) BY <1>1, <2>2 DEF Held
    <3>2. graph.entry # Nil /\ ~(elem[r].level > elem[graph.entry].level) BY <1>r, <3>1 DEF Rises, Level
    <3>3. graph.entry \in Elems BY <3>2, HeldRows
    <3>4. elem[r].level \in Levels /\ elem[graph.entry].level \in Levels BY <1>5, <3>3, HeldRows
    <3>5. elem[r].level <= elem[graph.entry].level BY <3>2, <3>4, Basics
    <3> QED BY <1>2, <1>4, <3>2, <3>5 DEF Below, Level
  <2> QED BY <1>1, <1>3, <2>1, <2>2 DEF Held
<1>13. Highest' BY <1>6, <1>11, <1>12 DEF Highest
<1> QED BY <1>1, <1>10, <1>13 DEF HInv

\* The element becomes the entry point if it is higher, which it is not if
\* another participant may be in the list beside it
LEMMA StoreEntryHigh == ASSUME HInv, NEW w \in Workers, StoreEntry(w) PROVE HInv'
<1>1. Inv /\ Inv' /\ Held /\ Highest /\ Typed BY StoreEntryKeeps DEF HInv, Inv
<1>r. PICK r : r = op[w].row OBVIOUS
<1>2. /\ pc[w] = "store" /\ elem' = elem /\ op' = op /\ Leave(w)
      /\ graph' = [graph EXCEPT !.entry = IF Rises(w, op[w].entry) THEN r ELSE graph.entry]
  BY <1>r DEF StoreEntry
<1>3. pc[w] \in Holding /\ "store" \in Linking BY <1>2, HoldingIs DEF Linking
<1>4. op[w].entry = graph.entry BY <1>1, <1>3 DEF Held
<1>5. graph'.list = graph.list /\ graph'.entry = IF Rises(w, graph.entry) THEN r ELSE graph.entry
  BY <1>1, <1>2, <1>4 DEF Typed, GraphType
<1>6. graph'.entry = graph.entry \/ w \in lock.entryX
  <2>1. CASE w \in lock.entryX BY <2>1
  <2>2. CASE w \in lock.entryS BY <1>1, <1>5, <2>2 DEF Held
  <2> QED BY <1>1, <1>3, <2>1, <2>2 DEF Held
<1>7. r \in Elems /\ elem[r].level \in Nat /\ r # Nil
  <2>1. r \in Elems BY <1>3, <1>r, HeldRows
  <2>2. elem[r].level \in Levels BY <2>1, HeldRows
  <2> QED BY <2>1, <2>2, Basics
<1>8. ASSUME NEW e \in Added PROVE Below(e)' \/ \E v \in lock.entryX \ {w} : op[v].row = e
  <2>1. /\ e \in Elems /\ elem[e].level \in Nat
        /\ graph.entry # Nil => graph.entry \in Elems /\ elem[graph.entry].level \in Nat
    <3>1. e \in Elems /\ (graph.entry # Nil => graph.entry \in Elems) BY HeldRows
    <3>2. \A x \in Elems : elem[x].level \in Nat BY HeldRows, Basics
    <3> QED BY <3>1, <3>2
  <2>2. CASE e = r
    <3>1. CASE Rises(w, graph.entry) BY <1>2, <1>5, <1>7, <2>2, <3>1 DEF Below, Level
    <3>2. CASE ~Rises(w, graph.entry)
      <4>1. graph.entry # Nil /\ ~(elem[r].level > elem[graph.entry].level) BY <1>r, <3>2 DEF Rises, Level
      <4>2. elem[r].level <= elem[graph.entry].level BY <1>7, <2>1, <4>1
      <4> QED BY <1>2, <1>5, <2>2, <3>2, <4>1, <4>2 DEF Below, Level
    <3> QED BY <3>1, <3>2
  <2>3. CASE e # r /\ Below(e)
    <3>1. graph.entry # Nil /\ elem[e].level <= elem[graph.entry].level BY <2>3 DEF Below, Level
    <3>2. CASE Rises(w, graph.entry)
      <4>1. elem[r].level > elem[graph.entry].level BY <1>r, <3>1, <3>2 DEF Rises, Level
      <4>2. elem[e].level <= elem[r].level BY <1>7, <2>1, <3>1, <4>1
      <4> QED BY <1>2, <1>5, <1>7, <3>2, <4>2 DEF Below, Level
    <3>3. CASE ~Rises(w, graph.entry) BY <1>2, <1>5, <3>1, <3>3 DEF Below, Level
    <3> QED BY <3>2, <3>3
  <2>4. CASE e # r /\ \E v \in lock.entryX : op[v].row = e BY <1>r, <2>4
  <2> QED BY <1>1, <2>2, <2>3, <2>4 DEF Highest
<1>9. /\ \A e \in Elems \ {op[w].row} : elem'[e].level = elem[e].level
      /\ elem'[op[w].row].level = elem[op[w].row].level
  BY <1>2
<1> QED BY <1>1, <1>2, <1>3, <1>5, <1>6, <1>8, <1>9, HeldLeft

LEMMA InitHigh == Init => HInv
<1> SUFFICES ASSUME Init PROVE HInv OBVIOUS
<1>1. Inv BY InitInv
<1>2. /\ lock.entryS = {} /\ lock.entryX = {} /\ graph.list = <<>>
      /\ \A w \in Workers : pc[w] = "scan"
  BY DEF Init
<1>3. \A w \in Workers : pc[w] \notin Holding BY <1>2, HoldingIs
<1>4. Added = {} BY <1>2 DEF Added, ToSet
<1> QED BY <1>1, <1>2, <1>3, <1>4 DEF HInv, Held, Highest

LEMMA StutterHigh == HInv /\ UNCHANGED vars => HInv'
<1> SUFFICES ASSUME HInv, UNCHANGED vars PROVE HInv' OBVIOUS
<1>1. Inv /\ Held /\ Highest /\ Inv' BY StutterKeeps DEF HInv
<1>2. elem' = elem /\ graph' = graph /\ lock' = lock /\ op' = op /\ pc' = pc BY DEF vars
<1> QED BY <1>1, <1>2, HeldKept

LEMMA NextHigh == ASSUME HInv, [Next]_vars PROVE HInv'
<1>1. CASE UNCHANGED vars BY <1>1, StutterHigh
<1>2. CASE EndBuild BY <1>2, EndBuildHigh
<1>3. ASSUME NEW w \in Workers, Step(w) PROVE HInv'
  <2>1. CASE NextRow(w) BY <2>1, NextRowHigh
  <2>2. CASE BeginInsert(w) BY <2>2, BeginInsertHigh
  <2>3. CASE OutOfMemory(w) BY <2>3, OutOfMemoryHigh
  <2>4. CASE Flush(w) BY <2>4, FlushHigh
  <2>5. CASE InsertOnDisk(w) BY <2>5, InsertOnDiskHigh
  <2>6. CASE CountTuple(w) BY <2>6, CountTupleHigh
  <2>7. CASE \E l \in Levels : Allocate(w, l) BY <2>7, AllocateHigh
  <2>8. CASE WaitForEntry(w) BY <2>8, WaitForEntryHigh
  <2>9. CASE GetEntry(w) BY <2>9, GetEntryHigh
  <2>10. CASE LockWait(w) BY <2>10, LockWaitHigh
  <2>11. CASE LockEntry(w) BY <2>11, LockEntryHigh
  <2>12. CASE FindNeighbors(w) BY <2>12, FindNeighborsHigh
  <2>13. CASE \E n \in Elems : AddDuplicate(w, n) BY <2>13, AddDuplicateHigh
  <2>14. CASE NoDuplicate(w) BY <2>14, NoDuplicateHigh
  <2>15. CASE AddElementInMemory(w) BY <2>15, AddElementHigh
  <2>16. CASE CopyNeighbors(w) BY <2>16, CopyNeighborsHigh
  <2>17. CASE UpdateNeighbor(w) BY <2>17, UpdateNeighborHigh
  <2>18. CASE StoreEntry(w) BY <2>18, StoreEntryHigh
  <2>19. CASE Finish(w) BY <2>19, FinishHigh
  <2> QED BY <1>3, <2>1, <2>2, <2>3, <2>4, <2>5, <2>6, <2>7, <2>8, <2>9, <2>10, <2>11, <2>12, <2>13,
             <2>14, <2>15, <2>16, <2>17, <2>18, <2>19 DEF Step
<1> QED BY <1>1, <1>2, <1>3 DEF Next

LEMMA HighestFits == HInv => EntryHighest
<1> SUFFICES ASSUME HInv, lock.entryX = {}, NEW e \in Added PROVE Below(e)
  BY DEF EntryHighest, Added, Below
<1> QED BY DEF HInv, Highest

\* For any number of participants, rows and levels: while nobody holds the
\* exclusive lock the entry point is on the highest layer of the list, so that
\* a search starts at the top.  Of two participants that both found the graph
\* empty, or its entry point below their element, the one that waited for the
\* exclusive lock sees what the other has stored.
THEOREM EntryAlwaysHighest == Spec => []EntryHighest
<1>1. Spec => []HInv BY InitHigh, NextHigh, PTL DEF Spec
<1> QED BY <1>1, HighestFits, PTL

-----------------------------------------------------------------------------
(* The memory of a parallel build                                          *)

\* Only an element takes memory, and one is allocated while a margin is left
LEMMA UsedKept ==
  ASSUME Cardinality(Workers) > 1, Inv, graph.used <= MemoryTotal, [Next]_vars
  PROVE  graph'.used <= MemoryTotal
<1>1. graph \in GraphType /\ graph.used \in Nat BY DEF Inv, Typed, GraphType
<1>2. MemoryTotal \in Nat /\ Margin \in Nat BY ConstantsAssumption
<1>3. CASE UNCHANGED vars BY <1>3 DEF vars
<1>4. CASE EndBuild BY <1>1, <1>4 DEF EndBuild, FlushPages, GraphType
<1>5. ASSUME NEW w \in Workers, Step(w) PROVE graph'.used <= MemoryTotal
  <2>1. ASSUME NEW l \in Levels, Allocate(w, l) PROVE graph'.used <= MemoryTotal
    <3>1. ~(graph.used + Margin >= MemoryTotal) BY <2>1 DEF Allocate, GraphFull
    <3>2. ElemBytes[l] <= Margin /\ ElemBytes[l] \in Nat BY ConstantsAssumption, Basics
    <3>3. graph' = [graph EXCEPT !.used = graph.used + ElemBytes[l]] BY <2>1 DEF Allocate
    <3>4. graph'.used = graph.used + ElemBytes[l] BY <1>1, <3>3 DEF GraphType
    <3> QED BY <1>1, <1>2, <3>1, <3>2, <3>4
  <2>2. CASE NextRow(w) \/ BeginInsert(w) \/ OutOfMemory(w) \/ InsertOnDisk(w) \/ WaitForEntry(w)
    BY <2>2 DEF NextRow, BeginInsert, OutOfMemory, InsertOnDisk, WaitForEntry
  <2>3. CASE Flush(w) BY <1>1, <2>3 DEF Flush, FlushPages, GraphType
  <2>4. CASE CountTuple(w) BY <1>1, <2>4 DEF CountTuple, GraphType
  <2>5. CASE GetEntry(w) \/ LockWait(w) \/ LockEntry(w) \/ FindNeighbors(w) \/ NoDuplicate(w)
    BY <2>5 DEF GetEntry, LockWait, LockEntry, FindNeighbors, NoDuplicate
  <2>6. CASE \E n \in Elems : AddDuplicate(w, n) BY <2>6 DEF AddDuplicate
  <2>7. CASE AddElementInMemory(w) BY <1>1, <2>7 DEF AddElementInMemory, GraphType
  <2>8. CASE CopyNeighbors(w) \/ UpdateNeighbor(w) \/ Finish(w)
    BY <2>8 DEF CopyNeighbors, UpdateNeighbor, Finish
  <2>9. CASE StoreEntry(w) BY <1>1, <2>9 DEF StoreEntry, GraphType
  <2> QED BY <1>5, <2>1, <2>2, <2>3, <2>4, <2>5, <2>6, <2>7, <2>8, <2>9 DEF Step
<1> QED BY <1>3, <1>4, <1>5 DEF Next

\* A parallel build never needs more than the shared memory it has, for any
\* number of participants: each asks whether a margin is left and allocates
\* under the allocator lock, and the margin is for the largest element.  (The
\* conjunct of TypeOK about graph.used, with two or more participants; a build
\* in one process asks for no margin and may go beyond.)
THEOREM MemorySuffices ==
  ASSUME Cardinality(Workers) > 1 PROVE Spec => [](graph.used <= MemoryTotal)
<1>1. Init => graph.used <= MemoryTotal BY ConstantsAssumption DEF Init
<1>2. Inv /\ graph.used <= MemoryTotal /\ [Next]_vars => (graph.used <= MemoryTotal)' BY UsedKept
<1> QED BY <1>1, <1>2, Invariance, PTL DEF Spec
=============================================================================
