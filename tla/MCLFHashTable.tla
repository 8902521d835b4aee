--------------------------- MODULE MCLFHashTable ---------------------------
(* Model-checking instance of LFHashTable. *)
EXTENDS LFHashTable, TLC

CONSTANTS t1, t2, t3

(* All keys in one bucket. *)
OneBucket == [k \in Keys |-> CHOOSE b \in Buckets : TRUE]

(* Two writers, and two threads that read, one of them a writer. *)
ReadersAndWriters ==
    t1 :> {"insert"} @@ t2 :> {"insert", "snapshot"} @@ t3 :> {"snapshot", "linearizable"}

(* A reader that is not given the other lookup. *)
LinearizableOnly == t1 :> {"insert"} @@ t2 :> {"insert", "linearizable"}
=============================================================================
