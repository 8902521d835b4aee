----------------------- MODULE VersionLockRefinement -----------------------
(***************************************************************************)
(* Each version lock implements OptimisticLock.  The abstract holder is    *)
(* the thread between its successful swap and its fetch-and-add; whether a *)
(* read is still good is whether the counter still has the value the       *)
(* reader remembers.                                                       *)
(***************************************************************************)
EXTENDS VersionLock

CONSTANTS
    TheLock,      \* the lock of the array that is looked at
    NoThread

ASSUME TheLockAssumption == TheLock \in Locks /\ NoThread \notin Threads

holderBar ==
    IF Intact(TheLock) /\ Held(TheLock)
    THEN CHOOSE t \in Threads : Holds(t, TheLock)
    ELSE NoThread

(* What thread t's read of TheLock has come to. *)
ReadStatus(t) ==
    CASE pc[t] \in {"validated", "refused"} -> pc[t]
      [] pc[t] = "reading" /\ seen[t] # version[TheLock] -> "stale"
      [] pc[t] = "reading" /\ seen[t] = version[TheLock] ->
             IF Odd(seen[t]) THEN "under" ELSE "clean"
      [] OTHER -> "out"

readerBar ==
    [t \in Threads |->
        IF Intact(TheLock) /\ at[t] = TheLock THEN ReadStatus(t) ELSE "out"]

brokenBar == ~Intact(TheLock)

Optimistic == INSTANCE OptimisticLock
    WITH holder <- holderBar, reader <- readerBar, broken <- brokenBar

(* A reader is told "validated" only if the lock has not changed hands      *)
(* since the reader began, and writers exclude each other: every step of    *)
(* write_lock, try_write_lock, write_unlock, the three read_lock variants   *)
(* and read_unlock is a step of OptimisticLock or leaves it unchanged       *)
(* (version_lock.hpp:50-176).                                               *)
ImplementsOptimisticLock == Optimistic!Spec
=============================================================================
