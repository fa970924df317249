----------------------------- MODULE HnswIterate ----------------------------
(***************************************************************************)
(* A scan of an HNSW index, batch by batch (hnswscan.c, HnswSearchLayer of *)
(* hnswutils.c), on a graph that does not change meanwhile: HnswIndex has  *)
(* the concurrency.                                                        *)
(*                                                                         *)
(* A graph is a record of the level of each element, its lists (element -> *)
(* layer -> neighbors), its heap TIDs, its distance d from the query and   *)
(* the entry point.  Pairing heaps are sets of elements; among equal       *)
(* distances the smaller element comes first.                              *)
(***************************************************************************)
EXTENDS Integers, Sequences, FiniteSets, SequencesExt

Nearest(S, d) == CHOOSE e \in S : \A k \in S : d[e] < d[k] \/ (d[e] = d[k] /\ e <= k)
Furthest(S, d) == CHOOSE e \in S : \A k \in S : d[k] < d[e] \/ (d[k] = d[e] /\ k <= e)

\* An unvisited neighbor is a candidate if it is nearer than the furthest
\* result or if results are missing; whatever leaves the results is kept for
\* later batches.
Wanted(s, g, e, ef) == g.d[e] < g.d[Furthest(s.W, g.d)] \/ s.wlen < ef
EvictedForGood(s, out) == [s EXCEPT !.W = @ \ {out}]
Evicted(s, out) == [s EXCEPT !.W = @ \ {out}, !.discarded = @ \cup {out}]
\* "No need to decrement wlen"
Added(s, g, e, ef) ==
  LET t == [s EXCEPT !.C = @ \cup {e}, !.W = @ \cup {e}, !.wlen = @ + 1]
  IN IF t.wlen > ef THEN Evicted(t, Furthest(t.W, g.d)) ELSE t
Visit(s, g, e, ef, lc) ==
  LET t == [s EXCEPT !.visited = @ \cup {e}, !.tuples = @ + 1]
  IN IF e \in s.visited THEN s
     ELSE IF ~Wanted(s, g, e, ef) THEN [t EXCEPT !.discarded = @ \cup {e}]
     ELSE IF g.level[e] < lc THEN t
     ELSE Added(t, g, e, ef)

RECURSIVE SearchFrom(_, _, _, _)
SearchFrom(s, g, ef, lc) ==
  LET c == Nearest(s.C, g.d)
  IN IF s.C = {} THEN s
     ELSE IF g.d[c] > g.d[Furthest(s.W, g.d)] THEN s
     ELSE SearchFrom(FoldLeft(LAMBDA t, e : Visit(t, g, e, ef, lc), [s EXCEPT !.C = @ \ {c}],
                              g.lists[c][lc]), g, ef, lc)

\* Entry points were visited before, unless the search is the first of a layer.
SearchLayer(so, g, ep, ef, lc) ==
  SearchFrom([visited |-> so.visited \cup ep, discarded |-> so.discarded,
              tuples |-> so.tuples + Cardinality(ep \ so.visited),
              C |-> ep, W |-> ep, wlen |-> Cardinality(ep)], g, ef, lc)

\* Results from the furthest to the nearest one
Results(s, g) == SetToSortSeq(s.W, LAMBDA a, b : g.d[a] > g.d[b] \/ (g.d[a] = g.d[b] /\ a > b))
Batch(so, s, g) == [so EXCEPT !.w = Results(s, g), !.visited = s.visited,
                              !.discarded = s.discarded, !.tuples = s.tuples]

Start == [w |-> <<>>, visited |-> {}, discarded |-> {}, tuples |-> 0, prev |-> -1, rows |-> <<>>]

\* Descent through the upper layers with one result each
EntryAt0(g) ==
  FoldLeft(LAMBDA e, j : CHOOSE k \in SearchLayer(Start, g, {e}, 1, g.level[g.entry] - j + 1).W : TRUE,
           g.entry, [j \in 1..g.level[g.entry] |-> j])

GetScanItems(g, q) == Batch(Start, SearchLayer(Start, g, {EntryAt0(g)}, q.ef, 0), g)

\* The nearest discarded elements, as many as a batch has, are entry points.
ResumeScanItems(so, g, q) ==
  LET in == SetToSortSeq(so.discarded, LAMBDA a, b : g.d[a] < g.d[b] \/ (g.d[a] = g.d[b] /\ a < b))
      ep == {in[i] : i \in 1..(IF Len(in) < q.ef THEN Len(in) ELSE q.ef)}
  IN IF ep = {} THEN so ELSE Batch(so, SearchLayer([so EXCEPT !.discarded = @ \ ep], g, ep, q.ef, 0), g)

\* Beyond the maximum no more is searched, but what was met is returned.
OneMore(so, g) ==
  LET e == Nearest(so.discarded, g.d)
  IN IF so.discarded = {} THEN so ELSE [so EXCEPT !.w = <<e>>, !.discarded = @ \ {e}]

\* hnswgettuple, called until it returns false.  The TIDs of an element are
\* taken from the last on; a strict scan leaves out those that come too late.
Emitted(so, g, e, mode) ==
  FoldLeft(LAMBDA s, t : IF mode = "strict" /\ g.d[e] < s.prev THEN s
                         ELSE [s EXCEPT !.rows = Append(@, t), !.prev = g.d[e]],
           [so EXCEPT !.w = Front(@)], Reverse(g.tids[e]))

RECURSIVE Fetch(_, _, _)
Fetch(so, g, q) ==
  LET more == IF so.tuples >= q.max THEN OneMore(so, g) ELSE ResumeScanItems(so, g, q)
  IN IF so.w # <<>> THEN Fetch(Emitted(so, g, Last(so.w), q.mode), g, q)
     ELSE IF q.mode = "off" \/ more.w = <<>> THEN so
     ELSE Fetch(more, g, q)

Scan(g, q) == Fetch(GetScanItems(g, q), g, q)
=============================================================================
