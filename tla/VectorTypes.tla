---------------------------- MODULE VectorTypes -----------------------------
(***************************************************************************)
(* The types vector and sparsevec (vector.c, sparsevec.c): input, output,  *)
(* casts, the merges that compute distances of sparse vectors, orders, and *)
(* the aggregate avg with its partial states.                              *)
(*                                                                         *)
(* A vector is a sequence.  A sparse vector has dim and elems, a sequence  *)
(* of [i, x] with 0-based indices i.  An element is an integer, so NaN and *)
(* infinity do not occur.  An array has doubles, of which a float keeps    *)
(* half the digits.  Text is what a scanner makes of it: [elems, dim] with *)
(* 1-based indices of any size.  What raises an error gives a NoVector, a  *)
(* NoSparsevec or a NoState.                                               *)
(***************************************************************************)
EXTENDS Integers, Sequences, FiniteSets, SequencesExt

CONSTANTS
  IntMax,     \* INT_MAX
  MaxDim,     \* VECTOR_MAX_DIM
  SparseDim,  \* SPARSEVEC_MAX_DIM
  MaxNnz      \* SPARSEVEC_MAX_NNZ

NoVector == <<>>
NoSparsevec == [dim |-> 0, elems |-> <<>>]
NoState == [n |-> -1, sum |-> <<>>]
AnyDim == -1   \* no type modifier

\* A long that becomes an int
ToInt(n) == ((n + IntMax + 1) % (2 * IntMax + 2)) - IntMax - 1
Lesser(a, b) == IF a < b THEN a ELSE b
Total(s) == FoldLeft(LAMBDA a, x : a + x, 0, s)
Abs(x) == IF x < 0 THEN -x ELSE x

CheckExpectedDim(typmod, dim) == typmod = AnyDim \/ typmod = dim
CheckDim(dim, max) == dim >= 1 /\ dim <= max
CheckNnz(nnz, dim) == nnz >= 0 /\ nnz <= MaxNnz /\ nnz <= dim
CheckIndex(elems, k, dim) ==
  /\ elems[k].i >= 0 /\ elems[k].i < dim
  /\ k > 1 => elems[k].i > elems[k - 1].i

-----------------------------------------------------------------------------
(* Sparse vectors in and out                                               *)

\* Numbers beyond int end at its ends, and what is checked later fails.
Clamped(n, least) == IF n > IntMax THEN IntMax ELSE IF n < least THEN least ELSE n

CompareIndices(x, y) == x.i < y.i

\* Zeros are not stored, and their indices are not looked at.
Scanned(elems) ==
  SelectSeq([k \in 1..Len(elems) |-> [i |-> ToInt(Clamped(elems[k].i, -IntMax) - 1), x |-> elems[k].x]],
            LAMBDA e : e.x # 0)
ParsedDim(n) == ToInt(Clamped(n, -IntMax - 1))
Stored(elems, dim, typmod) ==
  LET sorted == SortSeq(elems, CompareIndices)
  IN IF /\ CheckDim(dim, SparseDim) /\ CheckExpectedDim(typmod, dim)
        /\ \A k \in 1..Len(sorted) : CheckIndex(sorted, k, dim)
       THEN [dim |-> dim, elems |-> sorted] ELSE NoSparsevec
sparsevec_in(text, typmod) ==
  IF Len(text.elems) > MaxNnz THEN NoSparsevec
  ELSE Stored(Scanned(text.elems), ParsedDim(text.dim), typmod)

sparsevec_out(s) ==
  [elems |-> [k \in 1..Len(s.elems) |-> [i |-> s.elems[k].i + 1, x |-> s.elems[k].x]], dim |-> s.dim]

\* The binary form: all indices, then all values
sparsevec_send(s) ==
  <<s.dim, Len(s.elems), 0>> \o [k \in 1..Len(s.elems) |-> s.elems[k].i]
                             \o [k \in 1..Len(s.elems) |-> s.elems[k].x]
sparsevec_recv(m, typmod) ==
  LET elems == [k \in 1..m[2] |-> [i |-> m[3 + k], x |-> m[3 + m[2] + k]]]
  IN IF /\ CheckDim(m[1], SparseDim) /\ CheckNnz(m[2], m[1]) /\ CheckExpectedDim(typmod, m[1])
        /\ m[3] = 0
        /\ \A k \in 1..m[2] : CheckIndex(elems, k, m[1]) /\ elems[k].x # 0
       THEN [dim |-> m[1], elems |-> elems] ELSE NoSparsevec

-----------------------------------------------------------------------------
(* Casts                                                                   *)

NonZeros(v) == SelectSeq([k \in 1..Len(v) |-> [i |-> k - 1, x |-> v[k]]], LAMBDA e : e.x # 0)
vector_to_sparsevec(v, typmod) ==
  IF CheckDim(Len(v), SparseDim) /\ CheckExpectedDim(typmod, Len(v))
    THEN [dim |-> Len(v), elems |-> NonZeros(v)] ELSE NoSparsevec
sparsevec_to_vector(s, typmod) ==
  IF CheckDim(s.dim, MaxDim) /\ CheckExpectedDim(typmod, s.dim)
    THEN FoldLeft(LAMBDA v, e : [v EXCEPT ![e.i + 1] = e.x], [k \in 1..s.dim |-> 0], s.elems)
    ELSE NoVector

\* A double too small for a float is 0.  Arrays have one dimension and no
\* nulls; nnz is counted by the same test as elements are stored by.
Float(x) == IF x < 0 THEN -((-x) \div 2) ELSE x \div 2
Floats(array) == [k \in 1..Len(array) |-> Float(array[k])]
array_to_vector(array, typmod) ==
  IF CheckDim(Len(array), MaxDim) /\ CheckExpectedDim(typmod, Len(array)) THEN Floats(array)
  ELSE NoVector
\* Nothing checks nnz (CheckNnz), unlike in sparsevec_in and sparsevec_recv.
array_to_sparsevec(array, typmod) ==
  IF CheckDim(Len(array), SparseDim) /\ CheckExpectedDim(typmod, Len(array))
    THEN [dim |-> Len(array), elems |-> NonZeros(Floats(array))] ELSE NoSparsevec

\* Indexing starts at 1; start and count are ints.
subvector(v, start, count) ==
  LET end == IF start > Len(v) - count THEN Len(v) + 1 ELSE ToInt(start + count)
      from == IF start < 1 THEN 1 ELSE start
  IN IF count < 1 \/ start > Len(v) \/ ~CheckDim(ToInt(end - from), MaxDim) THEN NoVector
     ELSE SubSeq(v, from, end - 1)
vector_concat(v, w) == IF CheckDim(Len(v) + Len(w), MaxDim) THEN v \o w ELSE NoVector

-----------------------------------------------------------------------------
(* Distances                                                               *)

\* What two elements of one index add to a distance, and what one adds whose
\* index the other vector does not have
Both(metric, x, y) ==
  CASE metric = "l2" -> (x - y) * (x - y) [] metric = "ip" -> x * y [] metric = "l1" -> Abs(x - y)
Alone(metric, x) == IF metric = "ip" THEN 0 ELSE Both(metric, x, 0)

\* Whether the next element of a starts behind this one of b.  If it were to
\* start at an equal one, that one would count twice.
PassedAgain(ai, bi) == ai > bi
Passed(ai, bi) == ai >= bi

\* An element e of a meets those of b from bpos on, up to the first whose
\* index is not below its own.
Meet(st, e, b, metric) ==
  LET Try(s, j) ==
        LET bi == b[j].i
            part == IF e.i = bi THEN Both(metric, e.x, b[j].x)
                    ELSE IF e.i > bi THEN Alone(metric, b[j].x) ELSE 0
        IN IF s.bi >= e.i THEN s
           ELSE [sum |-> s.sum + part, bi |-> bi, bpos |-> IF Passed(e.i, bi) THEN j + 1 ELSE s.bpos]
      met == FoldLeft(Try, [st EXCEPT !.bi = -1], [k \in 1..(Len(b) + 1 - st.bpos) |-> st.bpos + k - 1])
  IN [met EXCEPT !.sum = @ + IF e.i # met.bi THEN Alone(metric, e.x) ELSE 0]
Merged(a, b, metric) ==
  LET st == FoldLeft(LAMBDA s, e : Meet(s, e, b, metric), [sum |-> 0, bi |-> -1, bpos |-> 1], a)
  IN st.sum + Total([k \in 1..(Len(b) + 1 - st.bpos) |-> Alone(metric, b[st.bpos + k - 1].x)])

SparsevecL2SquaredDistance(a, b) == Merged(a.elems, b.elems, "l2")
SparsevecInnerProduct(a, b) == Merged(a.elems, b.elems, "ip")
sparsevec_l1_distance(a, b) == Merged(a.elems, b.elems, "l1")

VectorL2SquaredDistance(v, w) == Total([k \in 1..Len(v) |-> (v[k] - w[k]) * (v[k] - w[k])])
VectorInnerProduct(v, w) == Total([k \in 1..Len(v) |-> v[k] * w[k]])
VectorL1Distance(v, w) == Total([k \in 1..Len(v) |-> Abs(v[k] - w[k])])

-----------------------------------------------------------------------------
(* Orders: -1, 0 or 1                                                      *)

Sign(x, y) == IF x < y THEN -1 ELSE IF x > y THEN 1 ELSE 0
\* The first comparison that decides, or else the rest
Decided(cs, rest) ==
  LET at == SelectInSeq(cs, LAMBDA c : c # 0)
  IN IF at # 0 THEN cs[at] ELSE rest

vector_cmp_internal(v, w) ==
  Decided([k \in 1..Lesser(Len(v), Len(w)) |-> Sign(v[k], w[k])], Sign(Len(v), Len(w)))

\* The sign of an element whose index the other vector does not have
sparsevec_cmp_internal(a, b) ==
  LET x == a.elems
      y == b.elems
      n == Lesser(Len(x), Len(y))
      Says(k) == IF x[k].i < y[k].i THEN Sign(x[k].x, 0)
                 ELSE IF x[k].i > y[k].i THEN Sign(0, y[k].x) ELSE Sign(x[k].x, y[k].x)
      rest == IF n < Len(y) /\ y[n + 1].i < a.dim THEN Sign(0, y[n + 1].x)
              ELSE IF n < Len(x) /\ x[n + 1].i < b.dim THEN Sign(x[n + 1].x, 0)
              ELSE Sign(a.dim, b.dim)
  IN Decided([k \in 1..n |-> Says(k)], rest)

-----------------------------------------------------------------------------
(* avg(vector): a state has the number n of rows and their sums            *)

NoRows == [n |-> 0, sum |-> <<>>]
Plus(v, w) == [k \in 1..Len(v) |-> v[k] + w[k]]

vector_accum(state, v) ==
  IF state = NoState \/ (state.sum # <<>> /\ ~CheckExpectedDim(Len(state.sum), Len(v))) THEN NoState
  ELSE [n |-> state.n + 1, sum |-> IF state.sum = <<>> THEN v ELSE Plus(state.sum, v)]
vector_combine(s, t) ==
  CASE s = NoState \/ t = NoState -> NoState
    [] s.n = 0 -> t
    [] t.n = 0 -> s
    [] OTHER -> IF CheckExpectedDim(Len(s.sum), Len(t.sum))
                  THEN [n |-> s.n + t.n, sum |-> Plus(s.sum, t.sum)] ELSE NoState
\* NULL for no rows
vector_avg(state) ==
  IF state.n = 0 \/ ~CheckDim(Len(state.sum), MaxDim) THEN NoVector
  ELSE [k \in 1..Len(state.sum) |-> state.sum[k] \div state.n]
=============================================================================
