--------------------------- MODULE OptimisticLock ---------------------------
(***************************************************************************)
(* What a version lock promises its callers, without its counter: writers  *)
(* exclude each other, and a reader is told "validated" only when no       *)
(* writer has acquired or released the lock since its read began.  This is *)
(* an abstract specification, which VersionLock implements (module         *)
(* VersionLockRefinement); it translates no code of its own.               *)
(*                                                                         *)
(* A read that begins while a writer holds the lock is "under" that writer *)
(* and may be validated too, if it also ends under the same writer:        *)
(* read_lock_no_wait and read_unlock do not look at the lock bit.          *)
(*                                                                         *)
(* Nothing is promised after a counter has been reset: the lock is broken. *)
(***************************************************************************)
CONSTANTS Threads, NoThread    \* NoThread is no member of Threads

VARIABLES
    holder,   \* the writer inside its critical section, or NoThread
    reader,   \* what each thread's read has come to
    broken    \* the lock's counter has been reset

vars == <<holder, reader, broken>>

InProgress == {"clean", "under", "stale"}
Finished == {"validated", "refused"}

TypeOK ==
    /\ holder \in Threads \union {NoThread}
    /\ reader \in [Threads -> {"out"} \union InProgress \union Finished]
    /\ broken \in BOOLEAN

Init ==
    /\ holder = NoThread
    /\ reader = [t \in Threads |-> "out"]
    /\ broken = FALSE

(* The lock changes hands: whatever is being read now will be refused. *)
SpoilReads ==
    reader' = [t \in Threads |->
                  IF reader[t] \in InProgress THEN "stale" ELSE reader[t]]

Acquire(t) ==
    /\ ~broken /\ holder = NoThread
    /\ holder' = t
    /\ SpoilReads
    /\ UNCHANGED broken

Release(t) ==
    /\ ~broken /\ holder = t
    /\ holder' = NoThread
    /\ SpoilReads
    /\ UNCHANGED broken

BeginRead(t) ==
    /\ ~broken /\ reader[t] \notin InProgress
    /\ reader' = [reader EXCEPT ![t] = IF holder = NoThread THEN "clean" ELSE "under"]
    /\ UNCHANGED <<holder, broken>>

EndRead(t) ==
    /\ ~broken /\ reader[t] \in InProgress
    /\ reader' = [reader EXCEPT ![t] = IF @ = "stale" THEN "refused" ELSE "validated"]
    /\ UNCHANGED <<holder, broken>>

(* The thread goes on to something else. *)
Leave(t) ==
    /\ ~broken /\ reader[t] \in Finished
    /\ reader' = [reader EXCEPT ![t] = "out"]
    /\ UNCHANGED <<holder, broken>>

(* The holder resets the counter. *)
Break(t) ==
    /\ ~broken /\ holder = t
    /\ holder' = NoThread
    /\ reader' = [u \in Threads |-> "out"]
    /\ broken' = TRUE

Next ==
    \E t \in Threads : \/ Acquire(t) \/ Release(t)
                       \/ BeginRead(t) \/ EndRead(t) \/ Leave(t)
                       \/ Break(t)

Spec == Init /\ [][Next]_vars
=============================================================================
