---------------------------- MODULE MC_HnswIndex ----------------------------
(* Instances of HnswIndex for TLC.                                         *)
EXTENDS HnswIndex, TLC

OneValue  == [t \in Tids |-> 1]
TwoValues == [t \in Tids |-> t % 2]

\* CREATE INDEX on the first rows of the table
Built1 == <<1>>
Built2 == <<1, 2>>
Built3 == <<1, 2, 3>>
Flat1 == <<0>>
Flat2 == <<0, 0>>
Flat3 == <<0, 0, 0>>

InserterSymmetry == Permutations(Inserters)
=============================================================================
