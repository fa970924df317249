--------------------------- MODULE MC_Algorithms ----------------------------
(***************************************************************************)
(* The algorithms of the project on bounded inputs: a behaviour chooses a  *)
(* task, computes it and stops.  Each invariant compares a result with a   *)
(* definition of what it should be.                                        *)
(***************************************************************************)
EXTENDS Bm25Query, TLC

CONSTANTS
  Strategies,  \* values of tqhybrid.bm25_strategy that are tried
  QueryDocs    \* documents of the base

VARIABLES task, out

F == INSTANCE HybridFusion WITH Unit <- 12, HashMul <- 3, IntMax <- 31

Lesser(a, b) == IF a < b THEN a ELSE b
NoResult == [done |-> FALSE]
Result(r) == out' = [done |-> TRUE, val |-> r] /\ UNCHANGED task

-----------------------------------------------------------------------------
(* Queries                                                                 *)

Val(w) == [op |-> "val", term |-> w]
Queries == {Val(1), [op |-> "or", left |-> Val(1), right |-> Val(2)],
            [op |-> "and", left |-> Val(1), right |-> Val(2)]}
None == [w \in {} |-> 0]
DocTexts == {None, 1 :> 1, 1 :> 2, 2 :> 1, (1 :> 1 @@ 2 :> 2)}
Deltas == {<<>>, <<[node |-> QueryDocs, text |-> 1 :> 2]>>,
           <<[node |-> QueryDocs, text |-> (1 :> 1 @@ 2 :> 1)]>>}

\* Heads of best postings are kept for terms of two documents or more, on
\* pages or only in the cache.  Postings are also cut into chunks of two where
\* WAND has no part in it (bm25_wand shows what it does with several chunks).
WandTask(t) == t.strategy # "daat" /\ (t.q.op # "val" \/ t.dead # {} \/ t.strategy = "wand")
QueryTasks ==
  {t \in [kind : {"query"}, texts : [1..QueryDocs -> DocTexts], delta : Deltas,
          dead : {{}} \cup {{n} : n \in 0..QueryDocs}, q : Queries, k : 1..2,
          strategy : Strategies, stored : BOOLEAN, chunk : {2, MaxPerChunk}] :
     /\ t.stored => t.strategy \in {"auto", "impact"}
     /\ t.chunk # MaxPerChunk => ~WandTask(t)}
Cut == INSTANCE Bm25Build WITH MaxPerChunk <- 2

NodesOf(t) == 0..(QueryDocs - 1 + Len(t.delta))
IndexOf(t) ==
  LET docs == [i \in 1..QueryDocs |-> [node |-> i - 1, text |-> t.texts[i]]]
  IN [lex |-> IF t.chunk = 2 THEN Cut!Lexicon(Collect(docs, 100), TRUE, 2, 2)
              ELSE Lexicon(Collect(docs, 100), TRUE, 2, 2), stored |-> t.stored, nodes |-> NodesOf(t),
      live |-> NodesOf(t) \ t.dead, delta |-> t.delta, minDf |-> 2, headK |-> 2]

RunQuery == task.kind = "query" /\ ~out.done
            /\ Result(TopK(IndexOf(task), task.q, task.k, task.strategy))

\* Every live document that matches, best first
LiveTexts(t) ==
  [n \in NodesOf(t) \ t.dead |-> IF n < QueryDocs THEN t.texts[n + 1] ELSE t.delta[1].text]
ScoresOf(q, text) ==
  LET tf(n, w) == IF w \in DOMAIN text[n] THEN text[n][w] ELSE 0
  IN [n \in {n \in DOMAIN text : MatchedQuery(q, DOMAIN text[n])} |->
        IF q.op = "val" THEN tf(n, 1) ELSE tf(n, 1) + tf(n, 2)]
Best(k, score) ==
  LET all == SetToSortSeq(DOMAIN score, LAMBDA a, b : Better(score, a, b))
  IN [i \in 1..Lesser(k, Cardinality(DOMAIN score)) |-> [node |-> all[i], score |-> score[all[i]]]]
Expected(t) == Best(t.k, ScoresOf(t.q, LiveTexts(t)))

\* A threshold from heads (the default strategy, for OR); a head on the pages
\* that was written before a document of it died
SeededTask(t) == t.q.op = "or" /\ t.strategy \in {"auto", "impact"}
OldHead(t) == t.stored /\ t.dead \cap (0..(QueryDocs - 1)) # {}

\* Live documents that match, with their scores, the best first, and k of them
\* if there are k
FullRows(t, rows) ==
  LET score == ScoresOf(t.q, LiveTexts(t))
  IN /\ Len(rows) = Lesser(t.k, Cardinality(DOMAIN score))
     /\ \A i \in 1..Len(rows) : rows[i].node \in DOMAIN score /\ rows[i].score = score[rows[i].node]
     /\ \A i \in 2..Len(rows) : Better(score, rows[i - 1].node, rows[i].node)
\* What is better than the k-th best score is among them
KeepsBetter(t, rows) ==
  \A i \in 1..Len(Expected(t)) :
    Expected(t)[i].score > Last(Expected(t)).score \/ Len(Expected(t)) < t.k
      => Expected(t)[i] \in ToSet(rows)
LiveRows(t, rows) == SelectSeq(rows, LAMBDA r : r.node \notin t.dead)
QueryRight(t, rows) ==
  IF SeededTask(t) THEN FullRows(t, rows) /\ (~OldHead(t) => KeepsBetter(t, rows))
  ELSE IF OldHead(t) /\ t.q.op = "val" THEN IsPrefix(LiveRows(t, rows), Expected(t))
  ELSE rows = Expected(t)

-----------------------------------------------------------------------------
(* Builds                                                                  *)

BuildTexts == {None, 1 :> 0, 2 :> 2, (1 :> 1 @@ 2 :> 1), (1 :> 2 @@ 2 :> 0 @@ 3 :> 1)}
BuildTasks == [kind : {"build"}, texts : [1..4 -> BuildTexts], budget : 0..5, minDf : 1..2]

BuildDocs(t) == [i \in 1..4 |-> [node |-> i - 1, text |-> t.texts[i]]]
RunBuild == task.kind = "build" /\ ~out.done
            /\ Result(Lexicon(Collect(BuildDocs(task), task.budget), TRUE, task.minDf, 2))

Tf(t, w, n) == IF t.texts[n + 1][w] > 0 THEN t.texts[n + 1][w] ELSE 1
Having(t, w) == {n \in 0..3 : w \in DOMAIN t.texts[n + 1]}

BuildRight ==
    LET terms == SetToSortSeq(UNION {DOMAIN task.texts[i] : i \in 1..4}, <)
        Right(e, w) ==
          LET nodes == SetToSortSeq(Having(task, w), <)
              ps == [i \in 1..Len(nodes) |-> [node |-> nodes[i], tf |-> Tf(task, w, nodes[i])]]
              best == SetToSortSeq(ToSet(ps), ImpactLess)
          IN /\ e.term = w /\ e.df = Len(ps) /\ e.maxTf = MaxTf(ps)
             /\ FlattenSeq([j \in 1..Len(e.chunks) |-> Decode(e.chunks[j])]) = ps
             /\ \A j \in 1..Len(e.chunks) : e.chunks[j].count <= MaxPerChunk
             /\ e.head = IF Len(ps) < task.minDf THEN <<>>
                         ELSE SubSeq(best, 1, IF Len(ps) < 2 THEN Len(ps) ELSE 2)
    IN Len(out.val) = Len(terms) /\ \A i \in 1..Len(terms) : Right(out.val[i], terms[i])

-----------------------------------------------------------------------------
(* Postings chunks                                                         *)

\* Nodes around the widths: gaps of 16 bits and a bit more, and all of 32
Gaps == {1, 2, U16Max, U16Max + 1, U32Max \div 2}
ChunkTasks == [kind : {"chunk"}, first : {0, 1, U16Max}, gaps : UNION {[1..n -> Gaps] : n \in 0..2},
               tf : {1, U16Max}]
ChunkPostings(t) ==
  [i \in 1..(Len(t.gaps) + 1) |->
     [node |-> FoldLeft(LAMBDA a, g : a + g, t.first, SubSeq(t.gaps, 1, i - 1)), tf |-> t.tf]]
RunChunk == task.kind = "chunk" /\ ~out.done /\ ChunkPostings(task)[Len(task.gaps) + 1].node <= U32Max
            /\ Result(Decode(Chunk(ChunkPostings(task), TRUE, TRUE)))

\* Postings survive being written and read.  However often the collector
\* spilled, each term has one lexicon entry, in order, with a posting for each
\* of its documents in the order of node ids, decoded from its chunks, the
\* right counts, and a head of the best ones (TqHybridBm25BuildLexicon).  What
\* is decoded from a chunk is what was encoded, in whichever encoding the
\* distances of the node ids allow: no 16-bit word and no varint is truncated.
PostingsExact ==
  out.done => CASE task.kind = "build" -> BuildRight
                [] task.kind = "chunk" -> out.val = ChunkPostings(task)
                [] OTHER -> TRUE

-----------------------------------------------------------------------------
(* The dense accumulator from query to query                               *)

DenseTasks == [kind : {"dense"}, counts : [1..5 -> 1..2], touched : [1..5 -> BOOLEAN]]
DenseQuery(a, i) ==
  LET d == DenseInit(a.d, task.counts[i])
  IN [d |-> IF task.touched[i] THEN DenseTouch(d, task.counts[i] - 1) ELSE d,
      stale |-> a.stale \cup {<<i, n>> : n \in {n \in 0..(Len(d.gens) - 1) : DenseFound(d, n)}}]
RunDense == task.kind = "dense" /\ ~out.done
            /\ Result(FoldLeft(DenseQuery, [d |-> [gen |-> 0, gens |-> <<>>], stale |-> {}],
                               <<1, 2, 3, 4, 5>>).stale)

\* A query whose postings are scored document at a time, by WAND with the
\* postings of a term in one chunk, or taken from the head of one term that
\* has no dead nodes, returns the k best live documents of base and delta in
\* the order of TqHybridBm25ScoreCompare: pruning loses nothing, ties included.
\* With a threshold seeded from heads (OR, TqHybridBm25SeedImpactHeads) it
\* returns k live documents with their scores, and among them all that are
\* better than the k-th best score; those that only reach that score it may
\* give up for worse ones.  A head that is on the pages keeps nodes that have
\* died since: it returns them, and of the live documents the best; as a seed
\* it may cost better documents.  No query finds scores of an earlier one in
\* the dense accumulator, also when its generation has wrapped or the arrays
\* have grown.
TopKExact ==
  out.done => CASE task.kind = "query" -> QueryRight(task, out.val)
                [] task.kind = "dense" -> out.val = {}
                [] OTHER -> TRUE

-----------------------------------------------------------------------------
(* The two arms of a hybrid scan                                           *)

\* Candidates of an arm: distinct nodes, the best score first.  Nodes 1 and 5
\* meet in the hash table.
ArmNodes == {s \in UNION {[1..n -> {1, 2, 5}] : n \in 0..3} : \A i, j \in 1..Len(s) : i # j => s[i] # s[j]}
ArmScores == {<<3, 2, 2>>, <<4, 3, 1>>, <<1, 1, 0>>}
Candidates(nodes, scores, arm) ==
  [i \in 1..Len(nodes) |-> [node |-> nodes[i], tid |-> <<arm, nodes[i]>>, score |-> scores[i]]]
FusionQueries ==
  [fusion : {"rrf"}, alpha : {1}, rrfK : {0}, denseWeight : {1, 2}, bm25Weight : {1},
   require : BOOLEAN, maxUnion : {0, 2}, finalK : {0, 1, 2}]
  \cup [fusion : {"weighted"}, alpha : {0, 1}, rrfK : {0}, denseWeight : {1}, bm25Weight : {1},
        require : {FALSE}, maxUnion : {0}, finalK : {0, 2}]
FusionTasks == [kind : {"fuse"}, dense : ArmNodes, bm25 : ArmNodes, scores : ArmScores,
                q : FusionQueries, path : {"hash", "sort", "swap"}, limit : {0, 2}]
\* The candidates an arm is asked for when the plan has a LIMIT
Budget(t) == F!AutoBudget(31, t.limit, [mult |-> 31, min |-> 1, cap |-> 0])
Asked(t, arm) == SubSeq(arm, 1, IF Budget(t) < Len(arm) THEN Budget(t) ELSE Len(arm))

RunFuse == task.kind = "fuse" /\ ~out.done
  /\ Result(F!Fuse(Candidates(Asked(task, task.dense), task.scores, "dense"),
                   Candidates(Asked(task, task.bm25), task.scores, "bm25"),
                   task.q, task.path = "hash", task.path = "swap"))

\* The fused score of a node from the definition of the fusion
FusedScore(t, nodes, n) ==
  LET rank(s) == SelectInSeq(s, LAMBDA m : m = n)
      share(s) == IF rank(s) = 0 THEN 0 ELSE 12 \div (t.q.rrfK + rank(s))
      range(s) == {t.scores[i] : i \in {i \in 1..Len(s) : s[i] \in nodes}}
      norm(s) == IF rank(s) = 0 THEN 0
                 ELSE F!Normalized(t.scores[rank(s)], CHOOSE v \in range(s) : \A w \in range(s) : v <= w,
                                   CHOOSE v \in range(s) : \A w \in range(s) : v >= w)
  IN IF t.q.fusion = "rrf" THEN t.q.denseWeight * share(t.dense) + t.q.bm25Weight * share(t.bm25)
     ELSE t.q.alpha * norm(t.dense) + (2 - t.q.alpha) * norm(t.bm25)

\* Sorting and hashing fuse alike: every candidate of either arm comes once,
\* with the TID of the dense arm if that has it, in descending order of the
\* fused score, what a bound cuts off is nowhere better than what stays, and
\* a budget derived from the LIMIT leaves that many rows, if there are so many.
FusionExact ==
  task.kind = "fuse" /\ out.done =>
    LET t == [task EXCEPT !.dense = Asked(task, @), !.bm25 = Asked(task, @)]
        all == IF t.q.require THEN ToSet(t.bm25) ELSE ToSet(t.dense) \cup ToSet(t.bm25)
        score(n) == FusedScore(t, all, n)
        got == {out.val[i].node : i \in 1..Len(out.val)}
    IN /\ got \subseteq all /\ Cardinality(got) = Len(out.val)
       /\ Len(out.val) = F!FinalTarget(task.q, Cardinality(all))
       /\ \A i \in 1..Len(out.val) :
            /\ out.val[i].fused = score(out.val[i].node)
            /\ out.val[i].tid[1] = IF Contains(t.dense, out.val[i].node) THEN "dense" ELSE "bm25"
            /\ \A j \in 1..(i - 1) : out.val[j].fused >= out.val[i].fused
       /\ \A n \in got, m \in all \ got : score(n) >= score(m)
       /\ ~task.q.require /\ task.q.finalK = 0 /\ task.q.maxUnion = 0 =>
            Len(out.val) >= Lesser(task.limit, Cardinality(ToSet(task.dense) \cup ToSet(task.bm25)))

-----------------------------------------------------------------------------
(* Neighbor lists of HNSW elements                                         *)

\* An owner at the origin, elements around it that come one after the other
Points == {<<0, 1>>, <<1, 1>>, <<2, 1>>, <<-1, 1>>, <<0, 2>>, <<2, 0>>, <<0, 0>>}
Squared(a, b) == (a[1] - b[1]) * (a[1] - b[1]) + (a[2] - b[2]) * (a[2] - b[2])
S == INSTANCE HnswSelect WITH Dist <- Squared

ConnectTasks == [kind : {"connect"}, pts : [1..5 -> Points], lm : {2, 3}, junk : BOOLEAN]
Candidate(t, i) == [el |-> i, pt |-> t.pts[i], d |-> Squared(t.pts[i], <<0, 0>>), closer |-> FALSE]
RunConnect == task.kind = "connect" /\ ~out.done
  /\ Result(FoldLeft(LAMBDA list, i : S!UpdateConnection(list, Candidate(task, i), task.lm, task.junk),
                     [items |-> <<>>, closerSet |-> FALSE], <<1, 2, 3, 4, 5>>))

\* The list after element i by definition: of the candidates of a full list
\* those are diverse that are nearer to the owner than to any nearer diverse
\* one; the last of the others goes, or the last diverse one.
RECURSIVE Chosen(_, _)
Chosen(t, i) ==
  LET C == Chosen(t, i - 1) \cup {i}
      before(a, b) == S!Nearer(Candidate(t, a), Candidate(t, b))
      D == CHOOSE D \in SUBSET C : \A e \in C :
             e \in D <=> \A k \in D : before(k, e) => Squared(t.pts[e], t.pts[k]) > Candidate(t, e).d
      from == IF C = D THEN D ELSE C \ D
      last == CHOOSE e \in from : \A k \in from : k = e \/ before(k, e)
  IN IF i = 0 THEN {} ELSE IF Cardinality(C) <= t.lm THEN C ELSE C \ {last}

\* Reusing the closer flags of earlier calls (SelectNeighbors with closerSet)
\* keeps the list that computing all of them anew would keep, after any
\* sequence of inserts and whatever the flag of a new candidate is.
SelectionCached ==
  task.kind = "connect" /\ out.done =>
    {out.val.items[i].el : i \in 1..Len(out.val.items)} = Chosen(task, 5)

-----------------------------------------------------------------------------
(* k-means                                                                 *)

K == INSTANCE IvfKmeans
KmeansTasks == [kind : {"kmeans"}, samples : [1..4 -> {0, 24, 72, 168}], initial : [1..3 -> 1..4],
                empty : {12, 132}]
RunKmeans == task.kind = "kmeans" /\ ~out.done
  /\ Result(K!ElkanKmeans(task.samples, [k \in 1..3 |-> task.samples[task.initial[k]]], task.empty, 4).rounds)

\* In every round every sample is assigned to a center that is nearest to it,
\* although ElkanKmeans computes few of the distances.
KmeansNearest ==
  task.kind = "kmeans" /\ out.done =>
    \A i \in 1..Len(out.val), j \in 1..4, k \in 1..3 :
      LET r == out.val[i]
          d(c) == K!Distance(task.samples[j], r.centers[c])
      IN d(r.closest[j]) <= d(k)

-----------------------------------------------------------------------------
(* TurboQuant graphs                                                       *)

T == INSTANCE TqSearch WITH Dist <- Squared, MaxEntryPoints <- 2, EntrySampleCount <- 3,
                            PayloadExactMax <- 1

\* Five nodes are few enough that with m = 2 no list is pruned, with m = 1
\* lists are.  Node 4 may be dead, node 3 has another payload value.
TqPoints == {<<0, 0>>, <<0, 1>>, <<3, 0>>}
TqPayload == [n \in 0..4 |-> IF n = 3 THEN 1 ELSE 0]
TqQueries == {q \in [pt : {<<0, 0>>}, value : {T!NoFilter, 0, 1}, target : {2}, ef : {1, 5},
                     wide : {0, 5}, selective : BOOLEAN] : q.selective => q.wide = 0}
TqTasks == [kind : {"tq"}, pts : [1..5 -> TqPoints],
            level : {<<0, 1, 0, 0, 1>>, <<1, 0, 2, 1, 0>>}, m : {1, 2},
            order : {<<0, 1, 2, 3, 4>>, <<3, 0, 4, 2, 1>>}, reorder : BOOLEAN, dead : {{}, {4}}]
TqBuilt(t) == LET g == T!BuildEdges(t.pts, t.level, t.m, 2, t.order)
              IN IF t.reorder THEN T!Reorder(g) ELSE g
RunTq == task.kind = "tq" /\ ~out.done
         /\ \E g \in {TqBuilt(task)} :
              Result([g |-> g, scans |-> [q \in TqQueries |-> T!CollectResults(g, q, task.dead, TqPayload)]])

\* Links of a built graph are distinct, go to nodes of their level and are no
\* more than m allows; the entry is on the highest level and no search runs
\* out of room.  A scan returns live nodes of its payload value once, nearest
\* first, and as many as it wants, if the planner expects a filter; if no
\* list was pruned and the search has room for the nodes that will drop out,
\* they are the nearest ones.
GraphFound ==
  task.kind = "tq" /\ out.done =>
    LET g == out.val.g
        Linked(n, l) ==
          LET list == g.lists[n][l]
          IN /\ Len(list) <= T!LevelM(g.m, l) /\ Cardinality(ToSet(list)) = Len(list)
             /\ \A k \in ToSet(list) : k # n /\ T!HasLevel(g, k, l)
        Found(q, rows) ==
          LET got == {rows[i].node : i \in 1..Len(rows)}
              want == {n \in 0..4 : T!Returned(n, q, task.dead, TqPayload)}
              wide == task.m = 2 /\ (q.ef = 5 \/ (q.value = T!NoFilter /\ task.dead = {}))
          IN /\ got \subseteq want /\ Cardinality(got) = Len(rows)
             /\ \A i \in 2..Len(rows) : T!Below(rows[i - 1], rows[i])
             /\ wide \/ q.selective => Len(rows) >= Lesser(q.target, Cardinality(want))
             /\ wide => \A n \in got, k \in want \ got : T!Below(T!Item(g, q.pt, n), T!Item(g, q.pt, k))
    IN /\ \A n \in 0..4 : \A l \in DOMAIN g.lists[n] : Linked(n, l)
       /\ g.maxLevel = g.level[g.entry] /\ \A n \in 0..4 : g.level[n] <= g.maxLevel
       /\ ~g.failed
       /\ \A q \in TqQueries : ~out.val.scans[q].failed /\ Found(q, out.val.scans[q].rows)

-----------------------------------------------------------------------------
(* Iterative scans of HNSW indexes                                         *)

H == INSTANCE HnswIterate

\* Four elements with up to two neighbors in layer 0; 1 and 2 are in layer 1
\* too, 2 has two heap TIDs, 3 has none left.
NeighborLists == {s \in UNION {[1..n -> 1..4] : n \in 0..2} : Cardinality(ToSet(s)) = Len(s)}
ScanTasks == {t \in [kind : {"scan"}, lists : [1..4 -> NeighborLists],
                     d : {<<1, 2, 3, 4>>, <<4, 3, 1, 2>>, <<2, 2, 1, 2>>}] :
                \A e \in 1..4 : e \notin ToSet(t.lists[e])}
ScanGraph(t) ==
  [level |-> <<1, 1, 0, 0>>, tids |-> <<<<11>>, <<21, 22>>, <<>>, <<41>>>>, d |-> t.d, entry |-> 1,
   lists |-> [e \in 1..4 |-> [lc \in 0..1 |-> IF lc = 0 THEN t.lists[e] ELSE IF e < 3 THEN <<3 - e>> ELSE <<>>]]]
ScanQueries == [ef : {1, 2}, mode : {"off", "relaxed", "strict"}, max : {3, 100}]
RunScan == task.kind = "scan" /\ ~out.done
           /\ Result([q \in ScanQueries |-> H!Scan(ScanGraph(task), q)])

\* Elements that links of layer 0 lead to
Reachable(t, from) ==
  FoldLeft(LAMBDA R, i : R \cup UNION {ToSet(t.lists[e]) : e \in R}, {from}, <<1, 2, 3>>)

\* An iterative scan loses nothing between its batches: it returns every TID
\* once of all elements that links lead to, up to hnsw.max_scan_tuples of all
\* that it has met; a strict one returns rows in the order of their distances
\* and leaves out only what is nearer than a row before it.
ScanIterates ==
  task.kind = "scan" /\ out.done =>
    \A q \in ScanQueries :
      LET rows == out.val[q].rows
          el(i) == rows[i] \div 10
          met == out.val[q].visited
          due == {tid \in {11, 21, 22, 41} : tid \div 10 \in met}
      IN /\ Cardinality(ToSet(rows)) = Len(rows) /\ ToSet(rows) \subseteq due
         /\ q.mode # "off" /\ q.max = 100 => met = Reachable(task, H!EntryAt0(ScanGraph(task)))
         /\ q.mode = "relaxed" => ToSet(rows) = due
         /\ q.mode = "strict" =>
              /\ \A i \in 2..Len(rows) : task.d[el(i - 1)] <= task.d[el(i)]
              /\ \A tid \in due \ ToSet(rows) :
                   \E i \in 1..Len(rows) : task.d[tid \div 10] < task.d[el(i)]

-----------------------------------------------------------------------------
(* Vectors and sparse vectors                                              *)

V == INSTANCE VectorTypes WITH IntMax <- 7, MaxDim <- 4, SparseDim <- 6, MaxNnz <- 4

\* Indices and dimensions of texts that would be small ones in an int of 4
\* bits; rows that three workers of an aggregate share
SomeVectors == UNION {[1..n -> {-1, 0, 2}] : n \in 1..4}
TextElems == [i : {-15, 0, 1, 2, 17}, x : {0, 1, -2}]
TextLists == UNION {[1..n -> TextElems] : n \in 0..2} \cup [1..5 -> {[i |-> 1, x |-> 0]}]
PairTasks == [kind : {"pair"}, v : SomeVectors, w : SomeVectors]
TextTasks == [kind : {"text"}, elems : TextLists, dim : {-16, 0, 1, 2, 6, 7, 18}, typmod : {V!AnyDim, 2}]
\* Arrays with no more nonzero elements than a sparse vector may have: the cast
\* itself does not look (array_to_sparsevec)
ArrayTasks == {t \in [kind : {"array"}, array : UNION {[1..n -> {-3, -1, 0, 2}] : n \in 1..5}] :
                 Cardinality({k \in DOMAIN t.array : V!Float(t.array[k]) # 0}) <= 4}
SubTasks == [kind : {"sub"}, len : 1..4, start : -8..7, count : -8..7]
AvgTasks == [kind : {"avg"}, rows : UNION {[1..n -> {<<12>>, <<24>>, <<12, 0>>}] : n \in 0..4},
             worker : [1..4 -> 1..3]]

\* Distances are of vectors with the same dimensions (CheckDims).
RunPair == task.kind = "pair" /\ ~out.done
  /\ LET a == V!vector_to_sparsevec(task.v, V!AnyDim)
         b == V!vector_to_sparsevec(task.w, V!AnyDim)
     IN Result([a |-> a, back |-> V!sparsevec_to_vector(a, V!AnyDim),
                read |-> {V!sparsevec_in(V!sparsevec_out(a), V!AnyDim),
                          V!sparsevec_recv(V!sparsevec_send(a), Len(task.v))},
                cmp |-> V!sparsevec_cmp_internal(a, b), cat |-> V!vector_concat(task.v, task.w),
                dist |-> IF a.dim # b.dim THEN <<>>
                         ELSE <<V!SparsevecL2SquaredDistance(a, b), V!SparsevecInnerProduct(a, b),
                                V!sparsevec_l1_distance(a, b)>>])
RunText == task.kind = "text" /\ ~out.done
  /\ Result(V!sparsevec_in([elems |-> task.elems, dim |-> task.dim], task.typmod))
RunArray == task.kind = "array" /\ ~out.done
  /\ LET sparse == V!array_to_sparsevec(task.array, V!AnyDim)
     IN Result([vec |-> V!array_to_vector(task.array, V!AnyDim), sparse |-> sparse,
                read |-> V!sparsevec_in(V!sparsevec_out(sparse), V!AnyDim)])
RunSub == task.kind = "sub" /\ ~out.done
  /\ Result(V!subvector([k \in 1..task.len |-> k], task.start, task.count))
RowsOf(w) == SelectSeq([i \in 1..Len(task.rows) |-> <<task.worker[i], task.rows[i]>>], LAMBDA r : r[1] = w)
Partial(w) == FoldLeft(LAMBDA s, r : V!vector_accum(s, r[2]), V!NoRows, RowsOf(w))
RunAvg == task.kind = "avg" /\ ~out.done
  /\ LET s == V!vector_combine(V!vector_combine(Partial(1), Partial(2)), Partial(3))
     IN Result(IF s = V!NoState THEN [failed |-> TRUE, avg |-> V!NoVector]
               ELSE [failed |-> FALSE, avg |-> V!vector_avg(s)])

PairRight ==
  LET v == task.v
      w == task.w
  IN /\ out.val.back = v /\ out.val.read = {out.val.a}
     /\ out.val.cmp = V!vector_cmp_internal(v, w)
     /\ out.val.cat = IF Len(v) + Len(w) <= 4 THEN v \o w ELSE V!NoVector
     /\ Len(v) = Len(w) => out.val.dist = <<V!VectorL2SquaredDistance(v, w), V!VectorInnerProduct(v, w),
                                            V!VectorL1Distance(v, w)>>
TextRight ==
  LET stored == {k \in 1..Len(task.elems) : task.elems[k].x # 0}
      valid == /\ task.dim \in 1..6 /\ task.typmod \in {V!AnyDim, task.dim} /\ Len(task.elems) <= 4
               /\ \A k \in stored : task.elems[k].i \in 1..task.dim
               /\ \A k, l \in stored : k # l => task.elems[k].i # task.elems[l].i
      elems == {[i |-> task.elems[k].i - 1, x |-> task.elems[k].x] : k \in stored}
  IN out.val = IF valid THEN [dim |-> task.dim, elems |-> SetToSortSeq(elems, LAMBDA d, e : d.i < e.i)]
               ELSE V!NoSparsevec
ArrayRight ==
  LET nonzero == {k \in DOMAIN task.array : V!Float(task.array[k]) # 0}
      elems == {[i |-> k - 1, x |-> V!Float(task.array[k])] : k \in nonzero}
  IN /\ out.val.sparse = [dim |-> Len(task.array),
                          elems |-> SetToSortSeq(elems, LAMBDA d, e : d.i < e.i)]
     /\ out.val.read = out.val.sparse
     /\ IF Len(task.array) <= 4 THEN out.val.sparse = V!vector_to_sparsevec(out.val.vec, V!AnyDim)
        ELSE out.val.vec = V!NoVector
SubRight ==
  LET ks == {k \in 1..task.len : task.start <= k /\ k < task.start + task.count}
  IN out.val = SetToSortSeq(ks, <)
AvgRight ==
  LET n == Len(task.rows)
      dims == {Len(task.rows[i]) : i \in 1..n}
      sum(k) == FoldLeft(LAMBDA a, r : a + r[k], 0, task.rows)
  IN /\ out.val.failed <=> Cardinality(dims) > 1
     /\ Cardinality(dims) = 1 => out.val.avg = [k \in 1..Len(task.rows[1]) |-> sum(k) \div n]
     /\ n = 0 => out.val.avg = V!NoVector

\* A sparse vector is as good as the vector it stands for: it comes back from
\* its text, its binary form and a cast, its distances and its order are those
\* of the dense one, although the merges visit nonzero elements only.  A text
\* is accepted just when its nonzero elements have distinct indices within
\* the dimensions, also where numbers leave the range of int; casts from
\* an array to either type agree and come back from their text, if the array has
\* at most SPARSEVEC_MAX_NNZ nonzero elements; subvector stays within bounds for all ints; and the average
\* is the same however the rows are shared among workers.
TypesExact ==
  out.done => CASE task.kind = "pair"  -> PairRight
                [] task.kind = "text"  -> TextRight
                [] task.kind = "array" -> ArrayRight
                [] task.kind = "sub"   -> SubRight
                [] task.kind = "avg"   -> AvgRight
                [] OTHER -> TRUE

-----------------------------------------------------------------------------

Init ==
  /\ \/ task \in ScanTasks \/ task \in KmeansTasks \/ task \in DenseTasks \/ task \in ChunkTasks
     \/ task \in PairTasks \/ task \in TextTasks \/ task \in ArrayTasks \/ task \in SubTasks
     \/ task \in AvgTasks \/ task \in ConnectTasks \/ task \in BuildTasks \/ task \in QueryTasks
     \/ task \in FusionTasks \/ task \in TqTasks
  /\ out = NoResult
Next == RunQuery \/ RunBuild \/ RunChunk \/ RunDense \/ RunFuse
        \/ RunConnect \/ RunKmeans \/ RunTq \/ RunScan
        \/ RunPair \/ RunText \/ RunArray \/ RunSub \/ RunAvg
Spec == Init /\ [][Next]_<<task, out>>
=============================================================================
