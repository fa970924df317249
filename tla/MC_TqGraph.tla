---------------------------- MODULE MC_TqGraph ----------------------------
(* Instances of TqGraph for TLC.                                           *)
EXTENDS TqGraph, TLC

CONSTANTS t1, t2, t3
ASSUME DistinctTids == Cardinality({t1, t2, t3}) = 3

BuiltOne == <<t1>>
BuiltTwo == <<t1, t2>>

\* The upper layer of two built nodes is full, the third node becomes entry
Tall == [n \in NodeIds |-> CASE n < 2 -> 1 [] n = 2 -> 2 [] n > 2 -> 0]
Flat == [n \in NodeIds |-> 0]

BackendSymmetry == Permutations(Backends)
=============================================================================
