----------------------------- MODULE BinaryHeap -----------------------------
(***************************************************************************)
(* Array heaps as the C code writes them by hand: the smallest element by  *)
(* Less is at position 1, the children of position i are 2i and 2i + 1.    *)
(***************************************************************************)
EXTENDS Integers, Sequences, SequencesExt

CONSTANT Less(_, _)

LOCAL Swapped(h, i, j) == [h EXCEPT ![i] = h[j], ![j] = h[i]]

\* The element at pos rises until its parent is not above it in the order.
SiftUp(h, pos) ==
  LET Rise(a, x) ==
        IF a.pos > 1 /\ Less(a.heap[a.pos], a.heap[a.pos \div 2])
          THEN [heap |-> Swapped(a.heap, a.pos, a.pos \div 2), pos |-> a.pos \div 2] ELSE a
  IN FoldLeft(Rise, [heap |-> h, pos |-> pos], h).heap

\* The element at pos sinks to the side of its smaller child.
SiftDown(h, pos) ==
  LET Smaller(a, i, j) == IF j <= Len(a) /\ Less(a[j], a[i]) THEN j ELSE i
      Smallest(a, i) == Smaller(a, Smaller(a, i, 2 * i), 2 * i + 1)
      Sink(a, x) ==
        LET s == Smallest(a.heap, a.pos)
        IN IF s # a.pos THEN [heap |-> Swapped(a.heap, a.pos, s), pos |-> s] ELSE a
  IN FoldLeft(Sink, [heap |-> h, pos |-> pos], h).heap

Push(h, e) == SiftUp(Append(h, e), Len(h) + 1)

\* The root leaves, the last element takes its place and sinks.
Pop(h) ==
  IF Len(h) <= 1 THEN <<>> ELSE SiftDown(Front([h EXCEPT ![1] = h[Len(h)]]), 1)

ReplaceTop(h, e) == SiftDown([h EXCEPT ![1] = e], 1)

Heapify(h) ==
  FoldLeft(LAMBDA a, i : SiftDown(a, Len(h) \div 2 + 1 - i), h,
           [i \in 1..(Len(h) \div 2) |-> i])

\* All elements, in the order in which they are popped
Drain(h) ==
  FoldLeft(LAMBDA a, x : [heap |-> Pop(a.heap), out |-> Append(a.out, a.heap[1])],
           [heap |-> h, out |-> <<>>], h).out
=============================================================================
