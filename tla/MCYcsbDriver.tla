---------------------------- MODULE MCYcsbDriver ----------------------------
(* Model-checking instance of YcsbDriver. *)
EXTENDS YcsbDriver

CONSTANTS k0, k1, k2, k3, k4, k5, k6

(* Distinct keys. *)
LoadFile == [i \in 0 .. LOAD_SIZE - 1 |-> <<k0, k1, k2, k3, k4, k5, k6>>[i + 1]]

(* Reads and inserts of two loaded keys, and of one that need not be. *)
TxnKey == [i \in 0 .. RUN_SIZE - 1 |-> <<k0, k6, k0, k1>>[i + 1]]

MixedTxns ==
    {[i \in 0 .. RUN_SIZE - 1 |-> [kind |-> kinds[i], key |-> TxnKey[i]]] :
        kinds \in [0 .. RUN_SIZE - 1 -> {"insert", "lookup"}]}
=============================================================================
