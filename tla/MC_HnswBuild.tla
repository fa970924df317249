---------------------------- MODULE MC_HnswBuild ----------------------------
(* Instances of HnswBuild for TLC.                                         *)
EXTENDS HnswBuild

\* A null vector among rows of two values
RowValues == [r \in 1..Rows |-> IF r = 2 THEN Null ELSE IF r = 1 THEN 1 ELSE r % 2]
Bytes == [l \in 0..MaxLevel |-> 3]
=============================================================================
