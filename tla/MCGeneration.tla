---------------------------- MODULE MCGeneration ----------------------------
(* Instances of Generation for TLC.  Documents and partitions are numbers:  *)
(* a document has a partition of its own in the main topic and shares the   *)
(* one partition of every other topic.                                      *)
EXTENDS Generation, TLC

HomePartition == [t \in Topics |-> [d \in Docs |-> IF t = Main THEN d ELSE 1]]

\* Requests are alike, and so are workers.
Symmetric == Permutations(Requests) \cup Permutations(Workers)
=============================================================================
