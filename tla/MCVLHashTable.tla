--------------------------- MODULE MCVLHashTable ---------------------------
(* Model-checking instance of VLHashTable. *)
EXTENDS VLHashTable, TLC

(* All keys in one bucket. *)
OneBucket == [k \in Keys |-> CHOOSE b \in Buckets : TRUE]

Symmetric == Permutations(Threads) \union Permutations(Nodes)
=============================================================================
