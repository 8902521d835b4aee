--------------------------- MODULE MCTestProgram ---------------------------
(* Model-checking instance of TestProgram; no symmetry, which would not be  *)
(* sound for its liveness and for numbered threads.                         *)
EXTENDS TestProgram

(* The keys of the list bench and of the hash table bench. *)
AllKeys ==
    LET starts == {KEY_STRIDE * s : s \in (0 .. n_threads) \union {10 * t : t \in Threads}}
        adds == 0 .. HT_NODE_ADD - 1
    IN  {InitKey(j) : j \in 0 .. LIST_INIT_SIZE - 1}
            \union {s + j : s \in starts, j \in adds}
            \union {HT!Key(j, s) : s \in starts, j \in adds}

AllNodes == 1 .. LIST_INIT_SIZE + ListWrites
OneBucket == [k \in Keys |-> CHOOSE b \in Buckets : TRUE]
=============================================================================
