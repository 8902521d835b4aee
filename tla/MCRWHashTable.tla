--------------------------- MODULE MCRWHashTable ---------------------------
(* Model-checking instance of RWHashTable. *)
EXTENDS RWHashTable

(* All keys in one bucket. *)
OneBucket == [k \in Keys |-> CHOOSE b \in Buckets : TRUE]
=============================================================================
