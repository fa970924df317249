---------------------------- MODULE HybridFusion ----------------------------
(***************************************************************************)
(* How a turbohybrid scan joins the candidates of its two arms             *)
(* (tqhybrid.c): budgets from the LIMIT of the plan, candidates merged by  *)
(* sorting or by a hash table, fused scores, and the best of them in order.*)
(*                                                                         *)
(* A candidate of an arm is a record of node, tid and score; its rank is   *)
(* its position.  Scores are integers: Unit stands for 1 and is divisible  *)
(* by all the denominators that occur.                                     *)
(***************************************************************************)
EXTENDS Integers, Sequences, SequencesExt

CONSTANTS
  Unit,      \* what 1.0 is
  HashMul,   \* the multiplier of TqHybridHashNodeId
  IntMax     \* INT_MAX

-----------------------------------------------------------------------------
(* Budgets                                                                 *)

\* TqHybridApplyAutoBudget for an arm whose k was defaulted.  The product is
\* that of C's int, which wraps.
Wrapped(n) == ((n + IntMax + 1) % (2 * IntMax + 2)) - IntMax - 1
Target(limit, mult) == IF limit > IntMax \div mult THEN IntMax ELSE Wrapped(limit * mult)
AutoBudget(requested, limit, o) ==
  LET wide == IF Target(limit, o.mult) > o.min THEN Target(limit, o.mult) ELSE o.min
      capped == IF o.cap > 0 /\ o.cap < wide THEN o.cap ELSE wide
  IN IF requested <= 0 \/ limit <= 0 \/ requested < capped THEN requested ELSE capped

-----------------------------------------------------------------------------
(* Merging                                                                 *)

None == [has |-> FALSE, score |-> 0, rank |-> 0]
Arm(cs, i) == [has |-> TRUE, score |-> cs[i].score, rank |-> i]
DenseItem(cs, i) == [node |-> cs[i].node, tid |-> cs[i].tid, dense |-> Arm(cs, i), bm25 |-> None]
Bm25Item(cs, i)  == [node |-> cs[i].node, tid |-> cs[i].tid, dense |-> None, bm25 |-> Arm(cs, i)]

\* A further candidate for the node of an item: the dense arm names the TID
TakesLast(item, c) ==
  [item EXCEPT !.dense = IF c.dense.has THEN c.dense ELSE @,
               !.bm25 = IF c.bm25.has THEN c.bm25 ELSE @,
               !.tid = c.tid]
Joined(item, c) ==
  [item EXCEPT !.dense = IF c.dense.has THEN c.dense ELSE @,
               !.bm25 = IF c.bm25.has THEN c.bm25 ELSE @,
               !.tid = IF c.dense.has \/ ~item.dense.has THEN c.tid ELSE @]

\* The sort path: items of a node follow each other; swap is the order qsort
\* leaves between them
SortMerge(dense, bm25, swap) ==
  LET d == [i \in 1..Len(dense) |-> DenseItem(dense, i)]
      b == [i \in 1..Len(bm25) |-> Bm25Item(bm25, i)]
      sorted == SortSeq(IF swap THEN b \o d ELSE d \o b, LAMBDA x, y : x.node < y.node)
      Take(out, c) == IF out # <<>> /\ Last(out).node = c.node
                        THEN Append(Front(out), Joined(Last(out), c)) ELSE Append(out, c)
  IN FoldLeft(Take, <<>>, sorted)

\* The hash path: TqHybridFindMergeSlot probes from the hash of the node on
PowerOfTwo(n) == LET P[i \in Nat] == IF i >= n THEN i ELSE P[2 * i] IN P[1]
FindMergeSlot(slots, size, node) ==
  LET Probe[s \in 0..(size - 1)] ==
        IF slots[s] = <<>> \/ slots[s][1].node = node THEN s ELSE Probe[(s + 1) % size]
  IN Probe[(node * HashMul) % size]
HashMerge(dense, bm25, least) ==
  LET need == 2 * (Len(dense) + Len(bm25))
      size == PowerOfTwo(IF need > least THEN need ELSE least)
      Put(slots, c) ==
        LET s == FindMergeSlot(slots, size, c.node)
        IN [slots EXCEPT ![s] = <<IF @ = <<>> THEN c ELSE Joined(@[1], c)>>]
      all == FoldLeft(Put, [s \in 0..(size - 1) |-> <<>>],
                      [i \in 1..Len(dense) |-> DenseItem(dense, i)]
                      \o [i \in 1..Len(bm25) |-> Bm25Item(bm25, i)])
  IN FlattenSeq([s \in 1..size |-> all[s - 1]])

-----------------------------------------------------------------------------
(* Fused scores and the order of results                                   *)

Normalized(v, lo, hi) == IF hi <= lo THEN (IF v > 0 THEN Unit ELSE 0) ELSE ((v - lo) * Unit) \div (hi - lo)
Lowest(vs)  == FoldLeft(LAMBDA a, v : IF v < a THEN v ELSE a, vs[1], vs)
Highest(vs) == FoldLeft(LAMBDA a, v : IF v > a THEN v ELSE a, vs[1], vs)

\* TqHybridScoreResults; alpha is in halves
Weighted(items, alpha) ==
  LET d == SelectSeq(items, LAMBDA x : x.dense.has)
      b == SelectSeq(items, LAMBDA x : x.bm25.has)
      ds == [i \in 1..Len(d) |-> d[i].dense.score]
      bs == [i \in 1..Len(b) |-> b[i].bm25.score]
      Score(x) == alpha * (IF x.dense.has THEN Normalized(x.dense.score, Lowest(ds), Highest(ds)) ELSE 0)
                  + (2 - alpha) * (IF x.bm25.has THEN Normalized(x.bm25.score, Lowest(bs), Highest(bs)) ELSE 0)
  IN [i \in 1..Len(items) |-> Score(items[i])]
Reciprocal(items, q) ==
  LET Score(x) == q.denseWeight * (IF x.dense.has THEN Unit \div (q.rrfK + x.dense.rank) ELSE 0)
                  + q.bm25Weight * (IF x.bm25.has THEN Unit \div (q.rrfK + x.bm25.rank) ELSE 0)
  IN [i \in 1..Len(items) |-> Score(items[i])]
Scored(items, q) ==
  LET s == IF q.fusion = "weighted" THEN Weighted(items, q.alpha) ELSE Reciprocal(items, q)
  IN [i \in 1..Len(items) |-> [item |-> items[i], fused |-> s[i]]]

\* TqHybridScoreCompare
RankOf(arm) == IF arm.has THEN arm.rank ELSE IntMax
Both(x) == x.item.dense.has /\ x.item.bm25.has
Precedes(x, y) ==
  \/ x.fused > y.fused
  \/ /\ x.fused = y.fused
     /\ \/ Both(x) /\ ~Both(y)
        \/ /\ Both(x) = Both(y)
           /\ LET a == <<RankOf(x.item.dense), RankOf(x.item.bm25), x.item.node>>
                  b == <<RankOf(y.item.dense), RankOf(y.item.bm25), y.item.node>>
              IN \E i \in 1..3 : a[i] < b[i] /\ \A j \in 1..(i - 1) : a[j] = b[j]

\* TqHybridSelectTopN: a heap with the worst at its root
WorstFirst == INSTANCE BinaryHeap WITH Less <- LAMBDA x, y : Precedes(y, x)
TopN(xs, target) ==
  LET Offer(heap, x) == IF Len(heap) < target THEN WorstFirst!Push(heap, x)
                        ELSE IF Precedes(x, heap[1]) THEN WorstFirst!ReplaceTop(heap, x) ELSE heap
  IN SortSeq(FoldLeft(Offer, <<>>, xs), Precedes)

\* TqHybridFinalTarget
FinalTarget(q, count) ==
  LET a == IF q.maxUnion > 0 /\ q.maxUnion < count THEN q.maxUnion ELSE count
  IN IF q.finalK > 0 /\ q.finalK < a THEN q.finalK ELSE a

\* TqHybridCollectScanResults from the candidates of both arms on
Fuse(dense, bm25, q, hash, swap) ==
  LET all == IF hash THEN HashMerge(dense, bm25, 4) ELSE SortMerge(dense, bm25, swap)
      merged == SelectSeq(all, LAMBDA x : q.require => x.bm25.has)
      scored == Scored(merged, q)
      target == FinalTarget(q, Len(merged))
      order == IF hash /\ target < Len(merged) THEN TopN(scored, target)
               ELSE SubSeq(SortSeq(scored, Precedes), 1, target)
  IN [i \in 1..Len(order) |-> [node |-> order[i].item.node, tid |-> order[i].item.tid,
                               fused |-> order[i].fused]]
=============================================================================
