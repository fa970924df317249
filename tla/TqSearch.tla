------------------------------- MODULE TqSearch -----------------------------
(***************************************************************************)
(* A scan of a TurboQuant graph that is loaded in the cache of the backend *)
(* (tqgraph.c, tqgraph_scan_cache.c): traversal from several entry points, *)
(* filter on a payload column, filling of a band that stayed too small.    *)
(* Distances of codes are taken as exact, as if every node had its vector  *)
(* in the cache.                                                           *)
(***************************************************************************)
EXTENDS TqBuild, FiniteSets

CONSTANTS MaxEntryPoints,    \* TQ_GRAPH_MAX_ENTRY_POINTS
          EntrySampleCount,  \* TQ_GRAPH_ENTRY_SAMPLE_COUNT
          PayloadExactMax    \* TQ_GRAPH_PAYLOAD_EXACT_MAX

Least(a, b) == IF a < b THEN a ELSE b
Greatest(a, b) == IF a < b THEN b ELSE a

\* A query has a point, the payload value of its filter (NoFilter: none) and
\* the number of results wanted.  dead and payload belong to the nodes.
NoFilter == -1
Matches(node, q, payload) == q.value = NoFilter \/ payload[node] = q.value
Returned(node, q, dead, payload) == node \notin dead /\ Matches(node, q, payload)

\* Results are a heap of target items with the worst one on top.
OfferCandidate(results, target, item) ==
  IF Len(results) < target THEN WorstFirst!Push(results, item)
  ELSE IF target > 0 /\ Below(item, results[1]) THEN WorstFirst!ReplaceTop(results, item) ELSE results

-----------------------------------------------------------------------------
(* Entry points                                                            *)

\* Entries with levels: the lowest level, of those the highest id, is worst.
OfferLevelEntry(g, entries, n) ==
  LET Worse(a, b) == g.level[a] < g.level[b] \/ (g.level[a] = g.level[b] /\ a > b)
      worst == CHOOSE i \in 1..Len(entries) :
                 \A j \in 1..Len(entries) : j = i \/ Worse(entries[i], entries[j])
  IN IF Contains(entries, n) THEN entries
     ELSE IF Len(entries) < MaxEntryPoints THEN Append(entries, n)
     ELSE IF Worse(entries[worst], n) THEN [entries EXCEPT ![worst] = n] ELSE entries

OfferDistanceEntry(entries, item) ==
  LET known == {i \in 1..Len(entries) : entries[i].node = item.node}
      worst == CHOOSE i \in 1..Len(entries) :
                 \A j \in 1..Len(entries) : entries[j].d < entries[i].d \/ (entries[j].d = entries[i].d /\ i <= j)
  IN IF known # {} THEN [i \in 1..Len(entries) |->
                           IF i \in known THEN [entries[i] EXCEPT !.d = Least(@, item.d)] ELSE entries[i]]
     ELSE IF Len(entries) < MaxEntryPoints THEN Append(entries, item)
     ELSE IF item.d < entries[worst].d THEN [entries EXCEPT ![worst] = item] ELSE entries

\* Nodes at equal distances through the ids
Sampled(g, ef) ==
  LET count == Least(g.n, Least(EntrySampleCount, Greatest(ef, MaxEntryPoints)))
      at(i) == IF count = 1 THEN 0 ELSE (i * (g.n - 1)) \div (count - 1)
  IN IF g.n > 1 THEN {at(i) : i \in 0..(count - 1)} ELSE {}

All(g) == 0..(g.n - 1)
InOrder(g, S) == SelectSeq([i \in 1..g.n |-> i - 1], LAMBDA n : n \in S)

ScanGreedySearch(g, pt, item, level) == GreedySearch(g, pt, item, level, All(g))
SearchBaseLayer(g, pt, entries, ef) == SearchLayer(g, pt, entries, 0, ef, All(g))

\* The nearest node of a greedy descent, live nodes of higher levels, and
\* sampled nodes that are nearer than those
Descended(g, pt) ==
  FoldLeft(LAMBDA e, l : IF HasLevel(g, e.node, l) THEN ScanGreedySearch(g, pt, e, l) ELSE e,
           Item(g, pt, g.entry), Downwards(g.maxLevel, 1))
HighEntries(g, dead, first) ==
  FoldLeft(LAMBDA es, n : OfferLevelEntry(g, es, n), <<first.node>>,
           InOrder(g, {n \in All(g) \ dead : g.level[n] > 0 /\ n # first.node}))
WithSamples(g, pt, ef, high) ==
  LET sampled == InOrder(g, Sampled(g, ef) \ ToSet(high))
  IN FoldLeft(OfferDistanceEntry, [i \in 1..Len(high) |-> Item(g, pt, high[i])],
              Sorted([i \in 1..Len(sampled) |-> Item(g, pt, sampled[i])]))
EntryPoints(g, pt, ef, dead) == WithSamples(g, pt, ef, HighEntries(g, dead, Descended(g, pt)))

-----------------------------------------------------------------------------
(* The two ways to results                                                 *)

\* Dead nodes and those that miss the filter count as nearest ones and drop
\* out at the end.
Kept(s, q, target, dead, payload) ==
  [results |-> FoldLeft(LAMBDA r, it : OfferCandidate(r, target, it), <<>>,
                        SelectSeq(s.nearest, LAMBDA it : Returned(it.node, q, dead, payload))),
   failed |-> s.failed]
Traverse(g, q, target, ef, dead, payload) ==
  Kept(SearchBaseLayer(g, q.pt, EntryPoints(g, q.pt, ef, dead), ef), q, target, dead, payload)

\* Live nodes by payload value and id
PayloadRefs(g, dead, payload) ==
  SortSeq(InOrder(g, All(g) \ dead),
          LAMBDA a, b : payload[a] < payload[b] \/ (payload[a] = payload[b] /\ a < b))
\* Binary search of the first position from lo before hi that is in S
RECURSIVE Bisect(_, _, _)
Bisect(lo, hi, S) ==
  LET mid == lo + (hi - lo) \div 2
  IN IF lo >= hi THEN lo ELSE IF mid \in S THEN Bisect(lo, mid, S) ELSE Bisect(mid + 1, hi, S)
PayloadRefRange(refs, value, payload) ==
  LET first == Bisect(1, Len(refs) + 1, {i \in 1..Len(refs) : payload[refs[i]] >= value})
      end == Bisect(first, Len(refs) + 1, {i \in 1..Len(refs) : payload[refs[i]] > value})
  IN SubSeq(refs, first, end - 1)

Offered(g, q, results, target, nodes) ==
  FoldLeft(LAMBDA r, n : OfferCandidate(r, target, Item(g, q.pt, n)), results, nodes)

\* Every node that is not a result yet, or every one with the payload value
FillCandidateBand(g, q, results, target, dead, payload) ==
  LET refs == PayloadRefs(g, dead, payload)
      nodes == IF q.value = NoFilter \/ refs = <<>> THEN InOrder(g, All(g))
               ELSE PayloadRefRange(refs, q.value, payload)
      fresh == SelectSeq(nodes, LAMBDA n : /\ \A i \in 1..Len(results) : results[i].node # n
                                           /\ Returned(n, q, dead, payload))
  IN IF Len(results) >= target THEN results ELSE Offered(g, q, results, target, fresh)

\* What is traversed, filled up if the planner expects a filter or always
Filled(t, g, q, target, fill, dead, payload) ==
  [rows |-> Sorted(IF fill THEN FillCandidateBand(g, q, t.results, target, dead, payload) ELSE t.results),
   failed |-> t.failed]
Band(g, q, target, fill, dead, payload) ==
  Filled(Traverse(g, q, target, Least(Greatest(q.ef, target), g.n), dead, payload),
         g, q, target, fill, dead, payload)

\* Rows of the scan: those with the payload value if they are few, otherwise
\* a band; if that is too small and its first row is nearer than 1 (an L2
\* scan with automatic rescoring), a wider one.
Widened(band, g, q, target, wide, dead, payload) ==
  IF Len(band.rows) \in 1..(target - 1) /\ band.rows[1].d < 1 /\ wide > target
    THEN Band(g, q, wide, TRUE, dead, payload) ELSE band
CollectResults(g, q, dead, payload) ==
  LET target == Least(Greatest(q.target, 1), g.n)
      wide == Least(g.n, Greatest(target, q.wide))
      refs == IF q.value = NoFilter THEN <<>>
              ELSE PayloadRefRange(PayloadRefs(g, dead, payload), q.value, payload)
  IN IF refs # <<>> /\ Len(refs) <= PayloadExactMax
       THEN [rows |-> Sorted(Offered(g, q, <<>>, target, refs)), failed |-> FALSE]
     ELSE Widened(Band(g, q, target, q.selective, dead, payload), g, q, target, wide, dead, payload)
=============================================================================
