---------------------------- MODULE VersionLock ----------------------------
(***************************************************************************)
(* The version lock of version_lock.hpp: one 64-bit counter per lock, even *)
(* when the lock is free and odd while a writer holds it.  Writers take    *)
(* the lock by a compare-and-swap from even to odd and release it by a     *)
(* fetch-and-add.  Readers write nothing: they remember the counter when   *)
(* they begin and compare it when they end.                                *)
(*                                                                         *)
(* Every access to the shared counter is a step of its own, so all         *)
(* interleavings of the threads at the counter are explored.  The code is  *)
(* built for x86: the compare-and-swap, the fetch-and-add (locked          *)
(* instructions, full fences) and the volatile loads are sequentially      *)
(* consistent here.                                                        *)
(*                                                                         *)
(* The module models an array of locks (one per hash bucket in vlht.hpp,   *)
(* one global lock in test.cc).  A thread is inside at most one call at a  *)
(* time and nests no locks, as all the callers in the repository.          *)
(***************************************************************************)
EXTENDS Integers

CONSTANTS
    Threads,      \* the threads that call the API
    Locks,        \* the version_lock objects
    UINT64_MAX    \* the largest counter value, 2^w - 1 for width w

(* The width is a parameter: 2^w - 1 is odd, and 3 is the smallest width's  *)
(* maximum for which the reset threshold UINT64_MAX - 2 is a counter value. *)
ASSUME WidthAssumption ==
    UINT64_MAX \in Nat /\ UINT64_MAX >= 3 /\ UINT64_MAX % 2 = 1

VARIABLES
    version,      \* version_number of every lock
    pc,           \* where each thread is
    at,           \* the lock each thread's current or last call is about
    seen,         \* the thread's local copy of the counter; the value a call
                  \* handed to its caller
    aborted,      \* an assert has failed and abort() has ended the process
    destroyed,    \* locks whose destructor has run
    wrapped       \* history: locks whose counter has been reset to 0

lockVars == <<version, pc, at, seen, aborted, destroyed, wrapped>>

(* idle, and what the last call returned: "busy" is a failed try_*, and     *)
(* "validated" / "refused" are read_unlock's true / false.                  *)
ReadyPCs == {"idle", "busy", "validated", "refused"}
WriterPCs == {"writing", "reset", "faa"}
CallPCs == {"write_lock", "write_cas", "try_cas", "read_lock", "reading"}
PCs == ReadyPCs \union WriterPCs \union CallPCs

Counter == 0 .. UINT64_MAX

TypeOK ==
    /\ version \in [Locks -> Counter]
    /\ pc \in [Threads -> PCs]
    /\ at \in [Threads -> Locks]
    /\ seen \in [Threads -> Counter]
    /\ aborted \in BOOLEAN
    /\ destroyed \in SUBSET Locks
    /\ wrapped \in SUBSET Locks

-----------------------------------------------------------------------------
(* Helpers.                                                                *)

(* lock_status = version % 2: odd means held. *)
Odd(v) == v % 2 = 1

(* Mutants of Succ: a SWITCH_LOCK_STATUS that is not odd, and an increment  *)
(* that does not wrap.                                                      *)
SuccByTwo(v) == (v + 2) % (UINT64_MAX + 1)
SuccUnbounded(v) == v + 1

(* uint64_t arithmetic: version + SWITCH_LOCK_STATUS, modulo 2^w. *)
Succ(v) == IF v = UINT64_MAX THEN 0 ELSE v + 1

(* Mutant of AtReset: no overflow test at all. *)
AtResetNever(v) == FALSE

(* write_unlock's overflow test, version + 1 == UINT64_MAX - 1. *)
AtReset(v) == Succ(v) = UINT64_MAX - 1

(* Mutant of CasSucceeds: a plain store instead of a compare-and-swap. *)
CasAlwaysSucceeds(t) == TRUE

(* smp_cas compares the counter with the caller's local copy. *)
CasSucceeds(t) == version[at[t]] = seen[t]

Ready(t) == pc[t] \in ReadyPCs

Move(t, p, v) ==
    /\ pc' = [pc EXCEPT ![t] = p]
    /\ seen' = [seen EXCEPT ![t] = v]

(* Mutant of RetryWrite: the retry label after the load, so that a failed   *)
(* swap is tried again with the same stale copy.                            *)
RetryCas(t) == Move(t, "write_cas", seen[t])

(* goto retry_lock_acquire *)
RetryWrite(t) == Move(t, "write_lock", 0)

(* Mutant of Validates: looks at the lock bit only. *)
ValidatesIfEven(s, v) == ~Odd(v)

(* read_unlock's result for a read that began at s and ends at v. *)
Validates(s, v) == s = v

(* A thread calls on a lock that exists. *)
Call(t, l) ==
    /\ Ready(t)
    /\ l \notin destroyed
    /\ at' = [at EXCEPT ![t] = l]

-----------------------------------------------------------------------------
(* The version_lock() constructor sets every counter to 0. *)
Init ==
    /\ version = [l \in Locks |-> 0]
    /\ pc = [t \in Threads |-> "idle"]
    /\ at \in [Threads -> Locks]
    /\ seen = [t \in Threads |-> 0]
    /\ aborted = FALSE
    /\ destroyed = {}
    /\ wrapped = {}

(***************************************************************************)
(* write_lock(): load the counter; if it is odd, load again; otherwise try *)
(* to swap it to the next (odd) value, and start over if that fails.       *)
(***************************************************************************)
WriteLock(t, l) ==
    /\ Call(t, l)
    /\ Move(t, "write_lock", 0)
    /\ UNCHANGED <<version, aborted, destroyed, wrapped>>

WriteLoad(t) ==
    /\ pc[t] = "write_lock"
    /\ ~Odd(version[at[t]])
    /\ Move(t, "write_cas", version[at[t]])
    /\ UNCHANGED <<version, at, aborted, destroyed, wrapped>>

WriteCas(t) ==
    /\ pc[t] = "write_cas"
    /\ IF CasSucceeds(t)
       THEN /\ version' = [version EXCEPT ![at[t]] = Succ(seen[t])]
            /\ Move(t, "writing", 0)
       ELSE RetryWrite(t) /\ UNCHANGED version
    /\ UNCHANGED <<at, aborted, destroyed, wrapped>>

(***************************************************************************)
(* try_write_lock(): the same, but an odd counter or a failed swap returns *)
(* false.                                                                  *)
(***************************************************************************)
TryWriteLock(t, l) ==
    /\ Call(t, l)
    /\ IF Odd(version[l])
       THEN Move(t, "busy", 0)
       ELSE Move(t, "try_cas", version[l])
    /\ UNCHANGED <<version, aborted, destroyed, wrapped>>

TryCas(t) ==
    /\ pc[t] = "try_cas"
    /\ IF CasSucceeds(t)
       THEN /\ version' = [version EXCEPT ![at[t]] = Succ(seen[t])]
            /\ Move(t, "writing", 0)
       ELSE /\ Move(t, "busy", 0)
            /\ UNCHANGED version
    /\ UNCHANGED <<at, aborted, destroyed, wrapped>>

(***************************************************************************)
(* write_unlock(): load the counter; if it is about to overflow, swap it   *)
(* to 0; assert that the loaded value was odd; add 1.  The code falls      *)
(* through from the reset to the addition.                                 *)
(***************************************************************************)
AfterAssert(t, v) ==
    IF Odd(v)
    THEN Move(t, "faa", 0) /\ UNCHANGED aborted
    ELSE aborted' = TRUE /\ UNCHANGED <<pc, seen>>

WriteUnlock(t) ==
    LET v == version[at[t]] IN
    /\ pc[t] = "writing"
    /\ IF AtReset(v)
       THEN Move(t, "reset", v) /\ UNCHANGED aborted
       ELSE AfterAssert(t, v)
    /\ UNCHANGED <<version, at, destroyed, wrapped>>

UnlockReset(t) ==
    /\ pc[t] = "reset"
    /\ IF CasSucceeds(t)
       THEN /\ version' = [version EXCEPT ![at[t]] = 0]
            /\ wrapped' = wrapped \union {at[t]}
       ELSE UNCHANGED <<version, wrapped>>
    /\ AfterAssert(t, seen[t])
    /\ UNCHANGED <<at, destroyed>>

UnlockFaa(t) ==
    /\ pc[t] = "faa"
    /\ version' = [version EXCEPT ![at[t]] = Succ(@)]
    /\ Move(t, "idle", 0)
    /\ UNCHANGED <<at, aborted, destroyed, wrapped>>

(***************************************************************************)
(* The three ways to begin a read.  read_lock() waits for an even counter, *)
(* try_read_lock() returns UINT64_MAX when it is odd, and                  *)
(* read_lock_no_wait() takes whatever it finds.                            *)
(***************************************************************************)
ReadLock(t, l) ==
    /\ Call(t, l)
    /\ Move(t, "read_lock", 0)
    /\ UNCHANGED <<version, aborted, destroyed, wrapped>>

ReadLoad(t) ==
    /\ pc[t] = "read_lock"
    /\ ~Odd(version[at[t]])
    /\ Move(t, "reading", version[at[t]])
    /\ UNCHANGED <<version, at, aborted, destroyed, wrapped>>

TryReadLock(t, l) ==
    /\ Call(t, l)
    /\ IF Odd(version[l])
       THEN Move(t, "busy", UINT64_MAX)
       ELSE Move(t, "reading", version[l])
    /\ UNCHANGED <<version, aborted, destroyed, wrapped>>

ReadLockNoWait(t, l) ==
    /\ Call(t, l)
    /\ Move(t, "reading", version[l])
    /\ UNCHANGED <<version, aborted, destroyed, wrapped>>

(***************************************************************************)
(* read_unlock(initial): assert that the counter has not gone backwards,   *)
(* and return whether it is the same.                                      *)
(***************************************************************************)
ReadUnlock(t) ==
    LET v == version[at[t]] IN
    /\ pc[t] = "reading"
    /\ IF seen[t] <= v
       THEN /\ Move(t, IF Validates(seen[t], v) THEN "validated" ELSE "refused", 0)
            /\ UNCHANGED aborted
       ELSE aborted' = TRUE /\ UNCHANGED <<pc, seen>>
    /\ UNCHANGED <<version, at, destroyed, wrapped>>

(***************************************************************************)
(* ~version_lock() leaves UINT64_MAX, an odd value, behind.  A lock is     *)
(* destroyed once and when no call on it is in progress: C++ object        *)
(* lifetime, which the callers respect by joining their threads first.     *)
(***************************************************************************)
Destroy(l) ==
    /\ l \notin destroyed
    /\ \A t \in Threads : at[t] = l => Ready(t)
    /\ version' = [version EXCEPT ![l] = UINT64_MAX]
    /\ destroyed' = destroyed \union {l}
    /\ UNCHANGED <<pc, at, seen, aborted, wrapped>>

-----------------------------------------------------------------------------
(* The steps a thread takes inside a call, once it has made it. *)
LockStep(t) ==
    \/ WriteLoad(t) \/ WriteCas(t) \/ TryCas(t)
    \/ UnlockReset(t) \/ UnlockFaa(t) \/ ReadLoad(t)

(* The calls a client makes. *)
ClientStep(t) ==
    \/ \E l \in Locks : \/ WriteLock(t, l) \/ TryWriteLock(t, l)
                        \/ ReadLock(t, l) \/ TryReadLock(t, l)
                        \/ ReadLockNoWait(t, l)
    \/ WriteUnlock(t)
    \/ ReadUnlock(t)

Next ==
    /\ ~aborted
    /\ \/ \E t \in Threads : LockStep(t) \/ ClientStep(t)
       \/ \E l \in Locks : Destroy(l)

Spec == Init /\ [][Next]_lockVars

-----------------------------------------------------------------------------
(* Properties.                                                             *)

Holds(t, l) == at[t] = l /\ pc[t] \in WriterPCs
Held(l) == \E t \in Threads : Holds(t, l)
Intact(l) == l \notin wrapped

(* write_lock / try_write_lock give a lock to one writer at a time, until   *)
(* its counter is reset (version_lock.hpp:64-69, 84-89, 106).               *)
MutualExclusion ==
    \A l \in Locks : Intact(l) =>
        \A t, u \in Threads : Holds(t, l) /\ Holds(u, l) => t = u

(* The counter is odd exactly while some writer is between its successful   *)
(* swap and its fetch-and-add: no lock is stuck odd with nobody to release  *)
(* it, and none looks free while it is held (version_lock.hpp:56-58).       *)
OddIffHeld ==
    \A l \in Locks : Intact(l) /\ l \notin destroyed =>
        (Odd(version[l]) <=> Held(l))

(* The two asserts (version_lock.hpp:105, 166) hold for every interleaving  *)
(* of API calls in which no counter has been reset.                         *)
AbortsOnlyAfterReset == aborted => wrapped # {}

(* A thread is inside write_lock. *)
WriterWaits(l) ==
    \E t \in Threads : at[t] = l /\ pc[t] \in {"write_lock", "write_cas"}

(* Lock freedom of write_lock's retry loop: when writers wait for a free    *)
(* lock one of them gets it, however often their swaps fail.                *)
FreeLockIsTaken ==
    \A l \in Locks :
        (WriterWaits(l) /\ ~Held(l)) ~> (Held(l) \/ ~Intact(l) \/ aborted)

(***************************************************************************)
(* The inductive invariant behind the properties above.  It says nothing   *)
(* of a lock whose counter has been reset.                                 *)
(***************************************************************************)

(* The counter of a live lock: odd exactly while it is held, and always     *)
(* below the values write_unlock's overflow test is there to avoid.         *)
CounterInv(l) ==
    /\ Odd(version[l]) <=> Held(l)
    /\ version[l] <= UINT64_MAX - 2

(* What each thread's local copy says about the counter it was read from. *)
LocalInv(t) ==
    /\ pc[t] \in {"write_cas", "try_cas"} =>
           ~Odd(seen[t]) /\ seen[t] <= UINT64_MAX - 2
    /\ pc[t] = "reset" => seen[t] = UINT64_MAX - 2 /\ version[at[t]] = seen[t]
    /\ pc[t] = "faa" => version[at[t]] # UINT64_MAX - 2
    /\ pc[t] = "reading" => seen[t] <= version[at[t]]

(* Only a lock that no thread is using is destroyed. *)
DestroyedInv ==
    \A t \in Threads : at[t] \in destroyed => Ready(t)

(* The inductive invariant (version_lock.hpp:50-176). *)
LockInv ==
    /\ TypeOK
    /\ MutualExclusion
    /\ \A l \in Locks : Intact(l) /\ l \notin destroyed => CounterInv(l)
    /\ \A t \in Threads : Intact(at[t]) => LocalInv(t)
    /\ DestroyedInv
    /\ AbortsOnlyAfterReset

-----------------------------------------------------------------------------
(* What the comments and assertions of version_lock.hpp say, and the code   *)
(* does not do.                                                             *)

(* "odd-- lock is held" (version_lock.hpp:58), also after the reset of      *)
(* line 103.                                                                *)
OddMeansHeld ==
    \A l \in Locks \ destroyed : Odd(version[l]) => Held(l)
=============================================================================
