----------------------------- MODULE MCKeyHash -----------------------------
(***************************************************************************)
(* Model-checking instance of KeyHash: all keys of eight bits.  The shifts *)
(* are those of the code, scaled down from 64 bits; every step permutes    *)
(* the keys whatever its shift, so every hash is some key's.               *)
(***************************************************************************)
EXTENDS KeyHash

ScaledShifts == [s \in 1 .. 8 |-> <<4, 3, 2, 1, 1, 2, 3, 4>>[s]]
=============================================================================
