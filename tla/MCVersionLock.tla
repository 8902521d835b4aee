--------------------------- MODULE MCVersionLock ---------------------------
(***************************************************************************)
(* Model-checking instance of VersionLock for what the comments say of the *)
(* reset; the properties of the lock are checked with                      *)
(* MCVersionLockRefinement.  A counter of three bits is enough: its lock   *)
(* is reset at its third write_unlock.                                     *)
(***************************************************************************)
EXTENDS VersionLock
=============================================================================
