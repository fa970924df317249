------------------------------- MODULE TqBuild ------------------------------
(***************************************************************************)
(* CREATE INDEX of a TurboQuant graph (tqgraph.c): the nodes are linked    *)
(* one after the other in an order given by a hash, then renumbered so     *)
(* that neighbors are close on disk.                                       *)
(*                                                                         *)
(* A graph is a record of the number n of nodes 0..n-1, m, their points,   *)
(* levels and lists (node -> level -> neighbors), the entry node and the   *)
(* highest level.  The hash is the argument order.  Visit generations are  *)
(* sets.  A heap that may not grow sets failed, where the code raises      *)
(* "turboquant graph frontier capacity exceeded".                          *)
(***************************************************************************)
EXTENDS Integers, Sequences, SequencesExt, TLC

CONSTANT Dist(_, _)  \* distance of the codes of two points

Below(a, b) == a.d < b.d \/ (a.d = b.d /\ a.node < b.node)
Above(a, b) == Below(b, a)
NearestFirst == INSTANCE BinaryHeap WITH Less <- Below
WorstFirst == INSTANCE BinaryHeap WITH Less <- Above
Sorted(items) == SortSeq(items, Below)

LevelM(m, level) == IF level = 0 THEN 2 * m ELSE m
HasLevel(g, n, level) == n < g.n /\ level <= g.level[n]
Item(g, pt, n) == [node |-> n, d |-> Dist(pt, g.pts[n])]

\* nearest holds the ef best items with the worst of them on top.
OfferNearest(nearest, ef, item) ==
  IF Len(nearest) < ef THEN [heap |-> WorstFirst!Push(nearest, item), accepted |-> TRUE]
  ELSE IF ef > 0 /\ Below(item, nearest[1])
    THEN [heap |-> WorstFirst!ReplaceTop(nearest, item), accepted |-> TRUE]
    ELSE [heap |-> nearest, accepted |-> FALSE]

\* The frontier grows to as many items as there are nodes.
PushGrowing(s, item, max) ==
  IF Len(s.frontier) >= max THEN [s EXCEPT !.failed = TRUE]
  ELSE [s EXCEPT !.frontier = NearestFirst!Push(@, item)]

\* Node nbr is met for the first time: it is offered, and if it is good
\* enough its own neighbors will be looked at.
Meet(s, g, pt, nbr, ef) ==
  LET item == Item(g, pt, nbr)
      offer == OfferNearest(s.nearest, ef, item)
      t == [s EXCEPT !.visited = @ \cup {nbr}, !.nearest = offer.heap]
  IN IF nbr \in s.visited THEN s ELSE IF offer.accepted THEN PushGrowing(t, item, g.n) ELSE t

\* A search that would end as soon as it has ef items
FinishedEarly(s, ef) == \/ s.frontier = <<>>
                        \/ Len(s.nearest) >= ef

\* The search ends with the first item that is worse than ef others.
Finished(s, ef) == \/ s.frontier = <<>>
                   \/ Len(s.nearest) >= ef /\ Above(s.frontier[1], s.nearest[1])

RECURSIVE SearchFrom(_, _, _, _, _, _)
SearchFrom(s, g, pt, level, ef, within) ==
  IF Finished(s, ef) THEN s
  ELSE LET n == s.frontier[1].node
           nbrs == IF HasLevel(g, n, level)
                     THEN SelectSeq(g.lists[n][level], LAMBDA k : k \in within /\ HasLevel(g, k, level))
                     ELSE <<>>
       IN SearchFrom(FoldLeft(LAMBDA t, k : Meet(t, g, pt, k, ef),
                              [s EXCEPT !.frontier = NearestFirst!Pop(@)], nbrs),
                     g, pt, level, ef, within)

\* Search of a layer from several entries; an entry that comes twice counts once.
Entered(s, g, ef, item) ==
  IF item.node \in s.visited THEN s
  ELSE PushGrowing([s EXCEPT !.visited = @ \cup {item.node},
                             !.nearest = OfferNearest(@, ef, item).heap], item, g.n)
SearchLayer(g, pt, entries, level, ef, within) ==
  SearchFrom(FoldLeft(LAMBDA s, item : Entered(s, g, ef, item),
                      [frontier |-> <<>>, nearest |-> <<>>, visited |-> {}, failed |-> FALSE], entries),
             g, pt, level, ef, within)

\* The nearest of an item and its neighbors, until the item is that itself
RECURSIVE GreedySearch(_, _, _, _, _)
GreedySearch(g, pt, item, level, within) ==
  LET nbrs == IF HasLevel(g, item.node, level)
                THEN SelectSeq(g.lists[item.node][level], LAMBDA k : k \in within /\ HasLevel(g, k, level))
                ELSE <<>>
      best == FoldLeft(LAMBDA a, k : IF Item(g, pt, k).d < a.d THEN Item(g, pt, k) ELSE a, item, nbrs)
  IN IF best = item THEN item ELSE GreedySearch(g, pt, best, level, within)

-----------------------------------------------------------------------------

\* First those that no selected one is nearer to than the owner, then others
SelectNeighbors(g, src, candidates, level) ==
  LET items == SelectSeq(Sorted(candidates), LAMBDA c : c.node # src)
      Good(sel, c) == \A j \in 1..Len(sel) : Dist(g.pts[c.node], g.pts[sel[j]]) >= c.d
      Room(sel) == Len(sel) < LevelM(g.m, level)
      diverse == FoldLeft(LAMBDA sel, c : IF Room(sel) /\ Good(sel, c) THEN Append(sel, c.node) ELSE sel,
                          <<>>, items)
  IN FoldLeft(LAMBDA sel, c : IF Room(sel) /\ ~Contains(sel, c.node) THEN Append(sel, c.node) ELSE sel,
              diverse, items)

\* A list that is one too long is selected anew.
PruneNeighbors(g, src, list, level) ==
  IF Len(list) <= LevelM(g.m, level) THEN list
  ELSE SelectNeighbors(g, src, [i \in 1..Len(list) |-> Item(g, g.pts[src], list[i])], level)

AddNeighbor(g, src, dst, level) ==
  IF \/ src = dst \/ ~HasLevel(g, src, level) \/ ~HasLevel(g, dst, level)
     \/ Contains(g.lists[src][level], dst)
  THEN g
  ELSE [g EXCEPT !.lists[src][level] = PruneNeighbors(g, src, Append(@, dst), level)]

\* Node i searches a level, takes neighbors and is added to their lists.
LinkLevel(a, i, level, ef, inserted) ==
  IF ~HasLevel(a.g, a.entry.node, level) THEN a
  ELSE LET s == SearchLayer(a.g, a.g.pts[i], <<a.entry>>, level, ef, inserted)
           selected == SelectNeighbors(a.g, i, s.nearest, level)
           linked == FoldLeft(LAMBDA g, k : AddNeighbor(g, k, i, level),
                              [a.g EXCEPT !.lists[i][level] = selected], selected)
       IN [g |-> [linked EXCEPT !.failed = @ \/ s.failed], entry |-> Sorted(s.nearest)[1]]

Downwards(from, to) == [j \in 1..(IF from < to THEN 0 ELSE from - to + 1) |-> from - j + 1]

InsertNode(g, i, ef, inserted) ==
  LET top == g.maxLevel
      own == g.level[i]
      above == FoldLeft(LAMBDA e, l : IF HasLevel(g, e.node, l) THEN GreedySearch(g, g.pts[i], e, l, inserted)
                                      ELSE e,
                        Item(g, g.pts[i], g.entry), Downwards(top, own + 1))
      linked == FoldLeft(LAMBDA a, l : LinkLevel(a, i, l, ef, inserted), [g |-> g, entry |-> above],
                         Downwards(IF own < top THEN own ELSE top, 0)).g
  IN IF own > top THEN [linked EXCEPT !.entry = i, !.maxLevel = own] ELSE linked

\* Nodes that came from the heap, none of them linked
Nodes(pts, level, m, entry) ==
  [n |-> Len(pts), m |-> m, pts |-> [n \in 0..(Len(pts) - 1) |-> pts[n + 1]],
   level |-> [n \in 0..(Len(pts) - 1) |-> level[n + 1]],
   lists |-> [n \in 0..(Len(pts) - 1) |-> [l \in 0..level[n + 1] |-> <<>>]],
   entry |-> entry, maxLevel |-> level[entry + 1], failed |-> FALSE]

BuildEdges(pts, level, m, efConstruction, order) ==
  LET ef == IF efConstruction > LevelM(m, 0) THEN efConstruction ELSE LevelM(m, 0)
  IN FoldLeft(LAMBDA g, j : InsertNode(g, order[j], ef, {order[k] : k \in 1..(j - 1)}),
              Nodes(pts, level, m, order[1]), [j \in 1..(Len(pts) - 1) |-> j + 1])

-----------------------------------------------------------------------------

\* New numbers: breadth first through the base lists from the entry, then
\* the nodes that were not reached.
Enqueued(queue, nbrs) ==
  FoldLeft(LAMBDA q, k : IF Contains(q, k) THEN q ELSE Append(q, k), queue, nbrs)
NewToOld(g) ==
  LET reached == FoldLeft(LAMBDA q, j : IF j <= Len(q) THEN Enqueued(q, g.lists[q[j]][0]) ELSE q,
                          <<g.entry>>, [j \in 1..g.n |-> j])
  IN Enqueued(reached, [j \in 1..g.n |-> j - 1])

Reorder(g) ==
  LET old == NewToOld(g)
      New(k) == (CHOOSE j \in 1..g.n : old[j] = k) - 1
      At(f) == [k \in 0..(g.n - 1) |-> f[old[k + 1]]]
  IN [g EXCEPT !.pts = At(@), !.level = At(@), !.entry = New(@),
               !.lists = [k \in 0..(g.n - 1) |->
                            [l \in DOMAIN At(@)[k] |->
                               [j \in 1..Len(At(@)[k][l]) |-> New(At(@)[k][l][j])]]]]
=============================================================================
