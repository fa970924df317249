----------------------------- MODULE Bm25Build ------------------------------
(***************************************************************************)
(* How CREATE INDEX and compaction write the text side of a turbohybrid    *)
(* index (tqhybrid_bm25_build.c): term tuples are collected within a       *)
(* budget, sorted runs are spilled and merged with a heap, and each term   *)
(* gets a lexicon entry, chunks of encoded postings, a block maximum and a *)
(* head of its best postings.                                              *)
(*                                                                         *)
(* A term is a number in the order of (hash, length, bytes).  The stored   *)
(* score of a posting (tfNormQ16) is its tf: BM25's formula is data.       *)
(***************************************************************************)
EXTENDS Integers, Sequences, SequencesExt

CONSTANTS
  U16Max,      \* PG_UINT16_MAX
  U32Max,      \* PG_UINT32_MAX
  VarBase,     \* 2^7: what a byte of a varint holds
  VarBytes,    \* bytes a varint may have
  MaxPerChunk  \* TqHybridBm25MaxPostingsPerChunk

-----------------------------------------------------------------------------
(* Postings chunks                                                         *)

\* TqHybridBm25PutVarint: the low digits first, all but the last marked
PutVarint(value) ==
  LET D[i \in Nat, v \in Nat] ==
        IF v < VarBase THEN <<v>> ELSE <<VarBase + (v % VarBase)>> \o D[i + 1, v \div VarBase]
  IN D[0, value]

\* TqHybridBm25GetVarint, from position p of the payload: the value and what
\* follows it, or position 0 when it does not end
GetVarint(s, p) ==
  LET G[i \in Nat, v \in Nat, unit \in Nat] ==
        IF p + i > Len(s) \/ i = VarBytes THEN [value |-> 0, next |-> 0]
        ELSE IF s[p + i] < VarBase THEN [value |-> v + s[p + i] * unit, next |-> p + i + 1]
        ELSE G[i + 1, v + (s[p + i] - VarBase) * unit, unit * VarBase]
  IN G[0, 0, 1]

Gap(ps, i) == ps[i].node - (IF i = 1 THEN ps[1].node ELSE ps[i - 1].node)
CanUseOffset16(ps) == \A i \in 1..Len(ps) : ps[i].node - ps[1].node \in 0..U16Max
CanUseDelta16(ps)  == \A i \in 1..Len(ps) : Gap(ps, i) \in 0..U16Max

\* TqHybridWritePostingsChunkData and TqHybridWritePostingsChunk, which has no
\* maximum of the scores (0).  A varint payload is a sequence of bytes, the
\* others are sequences of 16-bit words.
Encoding(ps) ==
  IF CanUseOffset16(ps) THEN "offset16" ELSE IF CanUseDelta16(ps) THEN "delta16" ELSE "varint"
Payload(ps) ==
  LET enc == Encoding(ps)
      Item(i) == CASE enc = "offset16" -> <<(ps[i].node - ps[1].node) % (U16Max + 1), ps[i].tf>>
                   [] enc = "delta16"  -> <<Gap(ps, i) % (U16Max + 1), ps[i].tf>>
                   [] enc = "varint"   -> PutVarint(Gap(ps, i)) \o PutVarint(ps[i].tf)
  IN FlattenSeq([i \in 1..Len(ps) |-> Item(i)])
MaxTf(ps) == FoldLeft(LAMBDA a, p : IF p.tf > a THEN p.tf ELSE a, 0, ps)
Chunk(ps, norm, spilled) ==
  [enc |-> Encoding(ps), first |-> ps[1].node, last |-> ps[Len(ps)].node, count |-> Len(ps),
   payload |-> Payload(ps), norms |-> IF norm THEN [i \in 1..Len(ps) |-> ps[i].tf] ELSE <<>>,
   maxTf |-> MaxTf(ps), maxNorm |-> IF norm /\ spilled THEN MaxTf(ps) ELSE 0]

\* TqHybridBm25DecodePostingsTuple: the postings, or <<>> for an invalid tuple
Bad == [ok |-> FALSE, out |-> <<>>, prev |-> 0, p |-> 1]
DecodeWord(c, a, i) ==
  LET first == c.payload[2 * i - 1]
      node == IF c.enc = "offset16" THEN c.first + first ELSE a.prev + first
  IN IF ~a.ok \/ (i = 1 /\ first # 0) \/ node < a.prev \/ node > U32Max THEN Bad
     ELSE [ok |-> TRUE, out |-> Append(a.out, [node |-> node, tf |-> c.payload[2 * i]]),
           prev |-> node, p |-> a.p + 2]
DecodeVarint(c, a, i) ==
  LET delta == GetVarint(c.payload, a.p)
      tf == GetVarint(c.payload, delta.next)
      node == a.prev + delta.value
  IN IF \/ ~a.ok \/ delta.next = 0 \/ tf.next = 0 \/ tf.value > U16Max
        \/ (i = 1 /\ delta.value # 0) \/ node > U32Max THEN Bad
     ELSE [ok |-> TRUE, out |-> Append(a.out, [node |-> node, tf |-> tf.value]),
           prev |-> node, p |-> tf.next]
Decode(c) ==
  LET Step(a, i) == IF c.enc = "varint" THEN DecodeVarint(c, a, i) ELSE DecodeWord(c, a, i)
      all == FoldLeft(Step, [ok |-> TRUE, out |-> <<>>, prev |-> c.first, p |-> 1],
                      [i \in 1..c.count |-> i])
  IN IF (c.enc # "varint" /\ Len(c.payload) # 2 * c.count) \/ ~all.ok \/ all.p # Len(c.payload) + 1
       THEN <<>> ELSE all.out

-----------------------------------------------------------------------------
(* Collecting term tuples                                                  *)

TermLess(x, y) == x.term < y.term \/ (x.term = y.term /\ x.node < y.node)
SortTermRun(terms) == SortSeq(terms, TermLess)

\* TqHybridSpillTermRun
SpillTermRun(c) ==
  IF c.terms = <<>> THEN c
  ELSE [c EXCEPT !.runs = Append(@, SortTermRun(c.terms)), !.terms = <<>>]

\* TqHybridCollectVectorTerms, with TqHybridCheckBudget: a run is spilled when
\* the tuples exceed the budget
AppendTerm(c, tuple, budget) ==
  LET d == [c EXCEPT !.terms = Append(@, tuple)]
  IN IF Len(d.terms) > budget THEN SpillTermRun(d) ELSE d

\* TqHybridBm25BuildCallback for each row.  A document is a function from its
\* terms to their numbers of positions, which may be 0.
VectorTerms(node, text) ==
  LET in == SetToSortSeq(DOMAIN text, <)
  IN [i \in 1..Len(in) |-> [term |-> in[i], node |-> node,
                            tf |-> IF text[in[i]] > 0 THEN text[in[i]] ELSE 1]]
\* TqHybridBm25BuildCollect: nodes are scanned in the order of the heap
LeavesRest(c) == IF c.runs = <<>> THEN [c EXCEPT !.terms = SortTermRun(@)] ELSE c
SpillsRest(c) == IF c.runs = <<>> THEN [c EXCEPT !.terms = SortTermRun(@)] ELSE SpillTermRun(c)
Collect(docs, budget) ==
  LET tuples == FlattenSeq([i \in 1..Len(docs) |-> VectorTerms(docs[i].node, docs[i].text)])
      all == FoldLeft(LAMBDA c, t : AppendTerm(c, t, budget), [terms |-> <<>>, runs |-> <<>>], tuples)
  IN SpillsRest(all)

-----------------------------------------------------------------------------
(* Merging the runs                                                        *)

\* A cursor is the number of its run and its position there.
At(runs, c) == runs[c.run][c.pos]
CursorLess(runs, a, b) == TermLess(At(runs, a), At(runs, b))
SpillHeap(runs) == INSTANCE BinaryHeap WITH Less <- LAMBDA a, b : CursorLess(runs, a, b)
SpillHeapPush(runs, heap, c) == SpillHeap(runs)!Push(heap, c)
SpillHeapPop(runs, heap) == SpillHeap(runs)!Pop(heap)

\* TqHybridWriteLexiconAndPostingsFromRuns: the tuples in the order in which
\* they leave the heap
Merge(runs) ==
  LET total == FlattenSeq(runs)
      start == FoldLeft(LAMBDA h, i : SpillHeapPush(runs, h, [run |-> i, pos |-> 1]), <<>>,
                        [i \in 1..Len(runs) |-> i])
      Step(a, x) ==
        LET c == a.heap[1]
            rest == SpillHeapPop(runs, a.heap)
        IN [out |-> Append(a.out, At(runs, c)),
            heap |-> IF c.pos = Len(runs[c.run]) THEN rest
                     ELSE SpillHeapPush(runs, rest, [c EXCEPT !.pos = @ + 1])]
  IN FoldLeft(Step, [out |-> <<>>, heap |-> start], total).out

-----------------------------------------------------------------------------
(* The lexicon                                                             *)

\* TqHybridWritePostings
Chunks(ps, norm, spilled) ==
  [j \in 1..((Len(ps) + MaxPerChunk - 1) \div MaxPerChunk) |->
     Chunk(SubSeq(ps, (j - 1) * MaxPerChunk + 1,
                  IF j * MaxPerChunk < Len(ps) THEN j * MaxPerChunk ELSE Len(ps)), norm, spilled)]

\* TqHybridWriteImpactHead: the best postings
ImpactLess(x, y) == x.tf > y.tf \/ (x.tf = y.tf /\ x.node < y.node)
ImpactHead(ps, df, minDf, headK) ==
  LET sorted == SortSeq(ps, ImpactLess)
  IN IF df < minDf THEN <<>> ELSE SubSeq(sorted, 1, IF headK < Len(ps) THEN headK ELSE Len(ps))

\* df counts the changes of the node id
Df(ps) == FoldLeft(LAMBDA a, p : [n |-> IF p.node = a.prev THEN a.n ELSE a.n + 1, prev |-> p.node],
                   [n |-> 0, prev |-> U32Max], ps).n

\* Equal terms that follow each other
Groups(sorted) ==
  LET Same(gs, t) == gs # <<>> /\ Last(gs)[1].term = t.term
  IN FoldLeft(LAMBDA gs, t : IF Same(gs, t) THEN Append(Front(gs), Append(Last(gs), t))
                             ELSE Append(gs, <<t>>), <<>>, sorted)

\* TqHybridWriteLexiconAndPostings: an entry for each group of tuples
Entry(ps, norm, spilled, minDf, headK) ==
  LET bare == [i \in 1..Len(ps) |-> [node |-> ps[i].node, tf |-> ps[i].tf]]
  IN [term |-> ps[1].term, df |-> Df(ps), cf |-> FoldLeft(LAMBDA a, p : a + p.tf, 0, ps),
      first |-> ps[1].node, last |-> ps[Len(ps)].node, maxTf |-> MaxTf(ps),
      chunks |-> Chunks(bare, norm, spilled), head |-> ImpactHead(bare, Df(ps), minDf, headK)]
Lexicon(c, norm, minDf, headK) ==
  LET spilled == c.runs # <<>>
      groups == Groups(IF spilled THEN Merge(c.runs) ELSE c.terms)
  IN [i \in 1..Len(groups) |-> Entry(groups[i], norm, spilled, minDf, headK)]
=============================================================================
