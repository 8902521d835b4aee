---------------------- MODULE MCVersionLockRefinement ----------------------
(***************************************************************************)
(* Model-checking instance of VersionLockRefinement: the lock looked at and *)
(* another one.                                                            *)
(***************************************************************************)
EXTENDS VersionLockRefinement, TLC

Symmetric == Permutations(Threads)
=============================================================================
