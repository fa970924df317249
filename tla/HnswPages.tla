----------------------------- MODULE HnswPages ------------------------------
(***************************************************************************)
(* CreateGraphPages (hnswbuild.c): where the flush of a graph that was     *)
(* built in memory puts element and neighbor tuples.  Sizes are those of   *)
(* the tuples on the page, line pointers come on top.                      *)
(***************************************************************************)
EXTENDS Integers, Sequences, SequencesExt

CONSTANTS
  PageMax,   \* HNSW_MAX_SIZE: the largest tuple of an empty page
  ItemId     \* sizeof(ItemIdData)

\* PageGetFreeSpace of the last page
FreeSpace(page) ==
  LET used == FoldLeft(LAMBDA a, t : a + t.size + ItemId, 0, page)
  IN IF used > PageMax THEN 0 ELSE PageMax - used

\* HnswBuildAppendPage, if the condition holds
AppendPageIf(cond, pages) == IF cond THEN Append(pages, <<>>) ELSE pages

\* The size of both tuples, with the line pointer of the second
Combined(el) == el.esize + el.nsize + ItemId

\* One element: its position and that of its neighbor tuple are decided before
\* either is added.  PageAddItem refuses a tuple that does not fit.
AddElement(st, el) ==
  LET together == Combined(el) <= PageMax
      free == FreeSpace(Last(st.pages))
      ps == AppendPageIf(free < el.esize \/ (together /\ free < Combined(el)), st.pages)
      blk == Len(ps)
      off == Len(Last(ps)) + 1
      nbr == IF together THEN <<blk, off + 1>> ELSE <<blk + 1, 1>>
      withElem == [ps EXCEPT ![blk] = Append(@, [kind |-> "element", id |-> el.id, size |-> el.esize])]
      qs == AppendPageIf(FreeSpace(Last(withElem)) < el.nsize, withElem)
      fits == el.esize <= FreeSpace(Last(ps)) /\ el.nsize <= FreeSpace(Last(qs))
      added == [qs EXCEPT ![Len(qs)] = Append(@, [kind |-> "neighbors", id |-> el.id, size |-> el.nsize])]
  IN [ok    |-> st.ok /\ fits /\ Len(Last(qs)) + 1 = nbr[2],
      pages |-> added,
      pos   |-> Append(st.pos, [id |-> el.id, elem |-> <<blk, off>>, nbr |-> nbr])]

CreateGraphPages(els) ==
  FoldLeft(AddElement, [ok |-> TRUE, pages |-> << <<>> >>, pos |-> <<>>], els)
=============================================================================
