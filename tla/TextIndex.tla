----------------------------- MODULE TextIndex -----------------------------
(***************************************************************************)
(* What the text side of a turbohybrid index promises, whatever it keeps   *)
(* in base postings, delta records and caches: a document enters once, is  *)
(* there once, leaves when VACUUM marks its node and never comes back.     *)
(* Merging delta records into base postings is not a step of it.           *)
(***************************************************************************)
EXTENDS Naturals

CONSTANT Nodes    \* graph node ids, the names of documents

VARIABLES
  copies,   \* how often each document would be found by a query for its terms
  gone      \* documents that were removed

Init ==
  /\ copies \in [Nodes -> {0, 1}]
  /\ gone = {}

Add(n) ==
  /\ n \notin gone /\ copies[n] = 0
  /\ copies' = [copies EXCEPT ![n] = 1]
  /\ UNCHANGED gone

Remove(S) ==
  /\ S # {} /\ S \cap gone = {}
  /\ copies' = [n \in Nodes |-> IF n \in S THEN 0 ELSE copies[n]]
  /\ gone' = gone \cup S

Next == \/ \E n \in Nodes : Add(n)
        \/ \E S \in SUBSET Nodes : Remove(S)

Spec == Init /\ [][Next]_<<copies, gone>>
=============================================================================
