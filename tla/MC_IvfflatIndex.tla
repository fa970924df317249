-------------------------- MODULE MC_IvfflatIndex --------------------------
(* Instances of IvfflatIndex for TLC.                                      *)
EXTENDS IvfflatIndex, TLC

\* Odd rows are nearest to the first center, even ones to the second
Nearby == [t \in Tids |-> [l \in Lists |-> IF l > 2 THEN l ELSE (t + l) % 2]]

\* CREATE INDEX: two pages for the first list, one for the second
Owner3 == <<1, 1, 2>>
Tuples3 == <<{1}, {3}, {2}>>
\* ... and two empty lists
Owner5 == <<1, 1, 2, 3, 4>>
Tuples5 == <<{1}, {3}, {2}, {}, {}>>

FarApart == {[l \in Lists |-> l]}
\* Orders of four centers: the heap keeps its first lists, replaces one or
\* both, meets ties
Orders == {<<1, 2, 3, 4>>, <<4, 3, 2, 1>>, <<2, 4, 1, 3>>, <<2, 2, 3, 1>>}

InserterSymmetry == Permutations(Inserters)
=============================================================================
