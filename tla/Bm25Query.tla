----------------------------- MODULE Bm25Query ------------------------------
(***************************************************************************)
(* TqHybridBm25TopK and what it calls (tqhybrid_bm25_query.c): the terms   *)
(* of a query, the accumulator with its heap, document-at-a-time scoring,  *)
(* WAND over chunked postings, heads of best postings, delta documents and *)
(* the final selection.                                                    *)
(*                                                                         *)
(* An index is a record: lex, the entries that Bm25Build writes; stored,   *)
(* whether heads are on their pages; nodes, the graph's node ids; live,    *)
(* the nodes whose dead flag is not set; delta, the documents of the delta *)
(* chain; minDf and headK.  A posting scores its tf; idf is 1.             *)
(***************************************************************************)
EXTENDS Bm25Build, FiniteSets

CONSTANTS DenseGens   \* values of the dense accumulator's generation

-----------------------------------------------------------------------------
(* Queries: trees of "val", "and" and "or"                                 *)

RECURSIVE ExtractTerms(_)
ExtractTerms(q) ==
  IF q.op = "val" THEN <<q.term>>
  ELSE LET l == ExtractTerms(q.left) IN l \o SelectSeq(ExtractTerms(q.right), LAMBDA t : ~Contains(l, t))

RECURSIVE MatchedQuery(_, _)
MatchedQuery(q, matched) ==
  CASE q.op = "val" -> q.term \in matched
    [] q.op = "and" -> MatchedQuery(q.left, matched) /\ MatchedQuery(q.right, matched)
    [] q.op = "or"  -> MatchedQuery(q.left, matched) \/ MatchedQuery(q.right, matched)

RECURSIVE HasOperator(_, _)
HasOperator(q, oper) ==
  q.op # "val" /\ (q.op = oper \/ HasOperator(q.left, oper) \/ HasOperator(q.right, oper))

\* TqHybridBm25FindLexiconEntry
HasLexicon(index, w) == \E i \in 1..Len(index.lex) : index.lex[i].term = w
LexiconEntry(index, w) == index.lex[CHOOSE i \in 1..Len(index.lex) : index.lex[i].term = w]

-----------------------------------------------------------------------------
(* The accumulator: scores and matched terms of the touched nodes, and a   *)
(* heap of the k best                                                      *)

NewAccumulator(index) ==
  [touched |-> <<>>, score |-> [n \in index.nodes |-> 0], matched |-> [n \in index.nodes |-> {}],
   top |-> <<>>, seed |-> 0]

\* TqHybridBm25ScoreCompare and TqHybridBm25AccumulatorHeapLess
Better(score, a, b) == score[a] > score[b] \/ (score[a] = score[b] /\ a < b)
Worse(score, a, b) == Better(score, b, a)
TopHeap(score) == INSTANCE BinaryHeap WITH Less <- LAMBDA a, b : Worse(score, a, b)

UpdateTopK(acc, n, k) ==
  LET at == SelectInSeq(acc.top, LAMBDA m : m = n)
  IN IF at # 0 THEN [acc EXCEPT !.top = TopHeap(acc.score)!SiftDown(@, at)]
     ELSE IF Len(acc.top) < k THEN [acc EXCEPT !.top = TopHeap(acc.score)!Push(@, n)]
     ELSE IF acc.score[n] > acc.score[acc.top[1]]
       THEN [acc EXCEPT !.top = TopHeap(acc.score)!ReplaceTop(@, n)]
     ELSE acc
AddTermScore(acc, n, s, bits, k) ==
  UpdateTopK([acc EXCEPT !.touched = IF Contains(@, n) THEN @ ELSE Append(@, n),
                         !.score[n] = @ + s, !.matched[n] = @ \cup bits], n, k)

\* TqHybridBm25KthScore
KthScore(acc, k) ==
  IF Len(acc.top) < k \/ acc.score[acc.top[1]] < acc.seed THEN acc.seed ELSE acc.score[acc.top[1]]

\* The dense accumulator keeps its arrays from query to query and tells old
\* entries by their generation, which wraps (TqHybridBm25AccumulatorInit).
DenseInit(d, count) ==
  LET gen == (d.gen + 1) % DenseGens
      size == IF count > Len(d.gens) THEN count ELSE Len(d.gens)
  IN [gen |-> IF gen = 0 THEN 1 ELSE gen,
      gens |-> [i \in 1..size |-> IF i <= Len(d.gens) /\ gen # 0 THEN d.gens[i] ELSE 0]]
\* TqHybridBm25AccumulatorLookup in dense mode
DenseFound(d, n) == d.gens[n + 1] = d.gen
DenseTouch(d, n) == [d EXCEPT !.gens[n + 1] = d.gen]

-----------------------------------------------------------------------------
(* Document at a time                                                      *)

\* Nodes of postings that count: known, with a document length, not dead
Usable(index, n) == n \in index.live

ScoreDaat(index, ts, k) ==
  LET Postings(w) == IF HasLexicon(index, w)
                       THEN FlattenSeq([i \in 1..Len(LexiconEntry(index, w).chunks) |->
                                          Decode(LexiconEntry(index, w).chunks[i])]) ELSE <<>>
      Term(acc, w) == FoldLeft(LAMBDA a, p : IF Usable(index, p.node)
                                               THEN AddTermScore(a, p.node, p.tf, {w}, k) ELSE a,
                               acc, Postings(w))
  IN FoldLeft(Term, NewAccumulator(index), ts)

-----------------------------------------------------------------------------
(* Posting iterators: the chunks of a term, the decoded chunk, a position  *)

LoadChunk(it) ==
  IF it.chunkNo = Len(it.chunks) THEN [it EXCEPT !.valid = FALSE, !.postings = <<>>, !.pos = 1]
  ELSE LET c == it.chunks[it.chunkNo + 1]
       IN [it EXCEPT !.chunkNo = @ + 1, !.postings = Decode(c), !.pos = 1, !.valid = TRUE,
                     !.last = c.last,
                     !.bound = IF c.maxNorm > 0 THEN c.maxNorm ELSE MaxTf(Decode(c))]

RECURSIVE AdvanceValid(_, _)
AdvanceValid(index, it) ==
  LET from == {i \in it.pos..Len(it.postings) : Usable(index, it.postings[i].node)}
  IN IF it.valid /\ from # {} THEN [it EXCEPT !.pos = CHOOSE i \in from : \A j \in from : i <= j]
     ELSE LET next == LoadChunk(it) IN IF next.valid THEN AdvanceValid(index, next) ELSE next

IteratorInit(index, w) ==
  AdvanceValid(index, LoadChunk([term |-> w, chunks |-> LexiconEntry(index, w).chunks, chunkNo |-> 0,
                                 postings |-> <<>>, pos |-> 1, valid |-> FALSE, last |-> 0, bound |-> 0]))

NodeId(it) == IF it.valid THEN it.postings[it.pos].node ELSE U32Max

RECURSIVE SeekTo(_, _, _)
SeekTo(index, it, target) ==
  IF ~it.valid THEN it
  ELSE IF it.last < target THEN SeekTo(index, LoadChunk(it), target)
  ELSE LET from == {i \in it.pos..Len(it.postings) : it.postings[i].node >= target}
       IN AdvanceValid(index, [it EXCEPT !.pos = CHOOSE i \in from : \A j \in from : i <= j])

-----------------------------------------------------------------------------
(* TqHybridBm25ScoreBaseWand                                               *)

\* TqHybridBm25OrderActiveIterators: a heap by node id, emptied in order
ActiveHeap(its) == INSTANCE BinaryHeap WITH Less <- LAMBDA a, b : NodeId(its[a]) < NodeId(its[b])
OrderActive(its) ==
  LET valid == SelectSeq([i \in 1..Len(its) |-> i], LAMBDA i : its[i].valid)
  IN ActiveHeap(its)!Drain(ActiveHeap(its)!Heapify(valid))

\* The first iterator with which the bounds exceed the k-th score, 0 if none
BoundTo(its, active, i) == FoldLeft(LAMBDA a, j : a + its[j].bound, 0, SubSeq(active, 1, i))
Exceeds(bound, threshold) == bound > threshold
Pivot(its, active, acc, k) ==
  SelectInSeq([i \in 1..Len(active) |-> i],
    LAMBDA i : Len(acc.touched) < k \/ Exceeds(BoundTo(its, active, i), KthScore(acc, k)))

\* The iterators at the pivot: its score and the terms it matches
ScorePivot(its, node) ==
  LET at == {i \in 1..Len(its) : NodeId(its[i]) = node}
  IN [score |-> FoldLeft(LAMBDA a, i : a + (IF i \in at THEN its[i].postings[its[i].pos].tf ELSE 0),
                         0, [i \in 1..Len(its) |-> i]),
      matched |-> {its[i].term : i \in at}]

\* The pivot is kept if it matches and beats the k-th score.
Hit(s, hit, node, q, k) ==
  LET match == MatchedQuery(q, hit.matched)
      keep == match /\ (Len(s.acc.touched) < k \/ hit.score > KthScore(s.acc, k))
  IN [used |-> s.used \/ match,
      acc |-> IF keep THEN AddTermScore(s.acc, node, hit.score, hit.matched, k) ELSE s.acc]
Past(index, its, node) ==
  [i \in 1..Len(its) |-> IF NodeId(its[i]) = node THEN SeekTo(index, its[i], node + 1) ELSE its[i]]
Sought(index, its, which, node) ==
  [i \in 1..Len(its) |-> IF i \in which THEN SeekTo(index, its[i], node) ELSE its[i]]

\* A step with the iterators in order and the pivot's position among them: if
\* the first one is at the pivot's node that is scored, otherwise those before
\* the pivot move up to it.
RECURSIVE Wand(_, _, _, _, _)
RECURSIVE WandFrom(_, _, _, _, _, _)
RECURSIVE WandAt(_, _, _, _, _, _, _)
RECURSIVE WandScore(_, _, _, _, _, _)
Wand(index, q, k, its, s) == WandFrom(index, q, k, its, s, OrderActive(its))
WandFrom(index, q, k, its, s, active) ==
  IF active = <<>> THEN s ELSE WandAt(index, q, k, its, s, active, Pivot(its, active, s.acc, k))
WandAt(index, q, k, its, s, active, pivot) ==
  LET node == NodeId(its[active[pivot]])
  IN IF pivot = 0 THEN s
     ELSE IF NodeId(its[active[1]]) = node
       THEN WandScore(index, q, k, Sought(index, its, DOMAIN its, node), s, node)
     ELSE Wand(index, q, k, Sought(index, its, {active[i] : i \in 1..(pivot - 1)}, node), s)
WandScore(index, q, k, its, s, node) ==
  Wand(index, q, k, Past(index, its, node), Hit(s, ScorePivot(its, node), node, q, k))

ScoreBaseWand(index, q, k, acc) ==
  LET ts == SelectSeq(ExtractTerms(q), LAMBDA w : HasLexicon(index, w))
      its == SelectSeq([i \in 1..Len(ts) |-> IteratorInit(index, ts[i])], LAMBDA it : it.valid)
  IN Wand(index, q, k, its, [used |-> FALSE, acc |-> acc])

-----------------------------------------------------------------------------
(* Heads of best postings                                                  *)

\* TqHybridBm25EnsureImpactHead: the head on the pages, or one from all the
\* postings of live nodes
HeadOf(index, w) ==
  LET e == LexiconEntry(index, w)
      all == FlattenSeq([i \in 1..Len(e.chunks) |-> Decode(e.chunks[i])])
  IN IF e.df < index.minDf THEN <<>>
     ELSE IF index.stored /\ e.head # <<>> THEN e.head
     ELSE ImpactHead(SelectSeq(all, LAMBDA p : Usable(index, p.node)), e.df, index.minDf, index.headK)

\* TqHybridBm25ScoreImpactSingle
Unseeded(index) == [used |-> FALSE, acc |-> NewAccumulator(index)]
FromHead(index, w, k, head) ==
  IF Len(head) < k THEN Unseeded(index)
  ELSE [used |-> TRUE,
        acc |-> FoldLeft(LAMBDA a, p : AddTermScore(a, p.node, p.tf, {w}, k),
                         NewAccumulator(index), SubSeq(head, 1, k))]
ImpactSingle(index, ts, k) ==
  IF Len(ts) # 1 \/ ~HasLexicon(index, ts[1]) THEN Unseeded(index)
  ELSE FromHead(index, ts[1], k, HeadOf(index, ts[1]))

\* TqHybridBm25SeedImpactHeads: the k-th best sum of what the heads say
FirstOf(head, k) == SubSeq(head, 1, IF Len(head) < k THEN Len(head) ELSE k)
HeadSums(seeds) ==
  [n \in {p.node : p \in ToSet(seeds)} |->
     FoldLeft(LAMBDA a, p : a + (IF p.node = n THEN p.tf ELSE 0), 0, seeds)]
KthSum(sum, k) ==
  IF Cardinality(DOMAIN sum) < k THEN 0
  ELSE sum[SetToSortSeq(DOMAIN sum, LAMBDA a, b : Better(sum, a, b))[k]]
SeedThreshold(index, ts, k) ==
  LET seeds == FlattenSeq([i \in 1..Len(ts) |-> IF HasLexicon(index, ts[i])
                                                  THEN FirstOf(HeadOf(index, ts[i]), k) ELSE <<>>])
  IN IF Len(ts) <= 1 THEN 0 ELSE KthSum(HeadSums(seeds), k)

-----------------------------------------------------------------------------
(* Delta documents and the result                                          *)

\* TqHybridBm25BuildDeltaCacheEntries and TqHybridBm25ScoreDelta
ScoreDelta(index, ts, k, acc) ==
  LET docs(w) == SelectSeq(index.delta, LAMBDA d : d.node \in index.live /\ w \in DOMAIN d.text)
      Term(a, w) == FoldLeft(LAMBDA x, d : AddTermScore(x, d.node, d.text[w], {w}, k), a, docs(w))
  IN FoldLeft(Term, acc, ts)

\* TqHybridBm25SelectFinalTopK
KeepsFirst(score, heap, n) == Worse(score, n, heap[1])
Displaces(score, heap, n) == Better(score, n, heap[1])
SelectFinalTopK(acc, q, k) ==
  LET Offer(heap, n) ==
        IF ~MatchedQuery(q, acc.matched[n]) THEN heap
        ELSE IF Len(heap) < k THEN TopHeap(acc.score)!Push(heap, n)
        ELSE IF Displaces(acc.score, heap, n) THEN TopHeap(acc.score)!ReplaceTop(heap, n)
        ELSE heap
  IN SortSeq(FoldLeft(Offer, <<>>, acc.touched), LAMBDA a, b : Better(acc.score, a, b))

\* Base documents: heads of best postings, WAND, document at a time
Seeds(q, strategy) == strategy \in {"auto", "impact"} /\ HasOperator(q, "or") /\ ~HasOperator(q, "and")
WandOrDaat(index, ts, k, wand) == IF wand.used THEN wand.acc ELSE ScoreDaat(index, ts, k)
ScoreBase(index, q, ts, k, strategy, single) ==
  IF single.used THEN single.acc
  ELSE IF strategy = "daat" THEN ScoreDaat(index, ts, k)
  ELSE WandOrDaat(index, ts, k,
         ScoreBaseWand(index, q, k,
           [single.acc EXCEPT !.seed = IF Seeds(q, strategy) THEN SeedThreshold(index, ts, k) ELSE 0]))

\* TqHybridBm25TopK of the terms; strategy is tqhybrid.bm25_strategy
Ranked(acc, nodes) == [i \in 1..Len(nodes) |-> [node |-> nodes[i], score |-> acc.score[nodes[i]]]]
Final(acc, q, k) == Ranked(acc, SelectFinalTopK(acc, q, k))
TopKOf(index, q, ts, k, strategy) ==
  Final(ScoreDelta(index, ts, k,
          ScoreBase(index, q, ts, k, strategy,
            IF strategy \in {"auto", "impact"} THEN ImpactSingle(index, ts, k) ELSE Unseeded(index))),
        q, k)
TopK(index, q, k, strategy) == TopKOf(index, q, ExtractTerms(q), k, strategy)
=============================================================================
