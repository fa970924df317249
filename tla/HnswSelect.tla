----------------------------- MODULE HnswSelect -----------------------------
(***************************************************************************)
(* SelectNeighbors and HnswUpdateConnection (hnswutils.c).  A candidate is *)
(* a record: el, the element's address; pt, its vector; d, its distance    *)
(* from the owner of the list; closer, the flag that later calls use again.*)
(***************************************************************************)
EXTENDS Integers, Sequences, SequencesExt

CONSTANT Dist(_, _)   \* the distance of two vectors

\* CompareCandidateDistances, from the nearest on
Nearer(a, b) == a.d < b.d \/ (a.d = b.d /\ a.el < b.el)

\* CheckElementCloser
Closer(e, r) == \A i \in 1..Len(r) : Dist(e.pt, r[i].pt) > e.d

\* Whether flags of earlier calls that say "not closer" are in doubt
NeverInDoubt(removedAny) == FALSE
InDoubt(removedAny) == removedAny

\* The flag of the next candidate, from all that was kept or from the cache
CloserNow(st, e, must, new) ==
  IF must THEN Closer(e, st.r)
  ELSE IF st.added # <<>>
    THEN IF e.closer THEN Closer(e, st.added) ELSE InDoubt(st.removedAny) /\ Closer(e, st.r)
  ELSE IF e.el = new THEN Closer(e, st.r)
  ELSE e.closer
Adds(st, e, must, new) ==
  ~must /\ IF st.added # <<>> THEN ~e.closer ELSE e.el = new

\* One round of the loop; rest is what the loop leaves when the list is full
Examine(st, e, lm, must, new) ==
  LET c == [e EXCEPT !.closer = CloserNow(st, e, must, new)]
  IN IF Len(st.r) = lm THEN [st EXCEPT !.rest = Append(@, e)]
     ELSE [r     |-> IF c.closer THEN Append(st.r, c) ELSE st.r,
           wd    |-> IF c.closer THEN st.wd ELSE Append(st.wd, c),
           rest  |-> <<>>,
           added |-> IF c.closer /\ Adds(st, e, must, new) THEN Append(st.added, c) ELSE st.added,
           removedAny |-> st.removedAny \/ (~must /\ st.added # <<>> /\ e.closer /\ ~c.closer)]

\* Of more than lm candidates: those kept, and the first of the others
SelectNeighbors(cs, lm, closerSet, new) ==
  LET all == FoldLeft(LAMBDA st, e : Examine(st, e, lm, ~closerSet, new),
                      [r |-> <<>>, wd |-> <<>>, rest |-> <<>>, added |-> <<>>, removedAny |-> FALSE],
                      SortSeq(cs, Nearer))
      fill == IF Len(all.r) + Len(all.wd) < lm THEN Len(all.wd) ELSE lm - Len(all.r)
  IN [kept   |-> all.r \o SubSeq(all.wd, 1, fill),
      pruned |-> IF fill < Len(all.wd) THEN all.wd[fill + 1] ELSE Last(all.rest)]

\* HnswUpdateConnection: a list is its items, in their places, and closerSet.
\* The flag of a candidate that was only appended is not set: junk.
UpdateConnection(list, e, lm, junk) ==
  LET new == [e EXCEPT !.closer = junk]
      s == SelectNeighbors(Append(list.items, new), lm, list.closerSet, e.el)
      flagged(el) == s.kept[CHOOSE i \in 1..Len(s.kept) : s.kept[i].el = el]
  IN IF Len(list.items) < lm THEN [list EXCEPT !.items = Append(@, new)]
     ELSE [closerSet |-> TRUE,
           items |-> [i \in 1..Len(list.items) |->
                        IF list.items[i].el = s.pruned.el THEN flagged(e.el)
                        ELSE flagged(list.items[i].el)]]
=============================================================================
