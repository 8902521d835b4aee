-------------------------- MODULE VersionLockTest --------------------------
(***************************************************************************)
(* The stress test of the version lock, test_version_lock_apis of test.cc: *)
(* writers that increment an unprotected global counter inside the lock,   *)
(* then readers alone, then both together; the main thread joins all       *)
(* threads between the phases and checks the counter after the first.      *)
(*                                                                         *)
(* The locks' own steps are those of module VersionLock.  A thread the     *)
(* code has not spawned yet is one that has not taken its first step.      *)
(***************************************************************************)
EXTENDS VersionLock, FiniteSets

CONSTANTS
    Firsts,         \* thread numbers 0 .. n_threads - 1; Threads is 0 .. 2 * n_threads - 1
    N_ITRS_WRITE,
    N_ITRS_READ

vlock == CHOOSE l \in Locks : TRUE

Writes == N_ITRS_WRITE * Cardinality(Firsts)

(* Two phases of writers, two steps of the counter per write: far from the  *)
(* reset, as 4 * 10^6 * n_threads is for a 64-bit counter.                  *)
ASSUME TestAssumption ==
    /\ Firsts \subseteq Threads /\ IsFiniteSet(Threads)
    /\ Cardinality(Threads) = 2 * Cardinality(Firsts)
    /\ N_ITRS_WRITE \in Nat \ {0} /\ N_ITRS_READ \in Nat \ {0}
    /\ 4 * Writes < UINT64_MAX - 2
    /\ \E l \in Locks : Locks = {l}

VARIABLES
    phase,        \* which group of threads is running
    left,         \* iterations each thread of the group still has to do
    g_counter,    \* __g_counter
    local,        \* the register of ++__g_counter, in each thread
    step,         \* where each thread is inside its critical section
    retried,      \* read_retry is not 0
    failed        \* the test's own assert has failed

testVars == <<phase, left, g_counter, local, step, retried, failed>>
vars == <<lockVars, testVars>>

Phases == {"writers", "readers", "both", "done"}

Writers(p) == IF p \in {"writers", "both"} THEN Firsts ELSE {}
Readers(p) == CASE p = "readers" -> Firsts
                [] p = "both" -> Threads \ Firsts
                [] OTHER -> {}

NextPhase(p) == CASE p = "writers" -> "readers" [] p = "readers" -> "both" [] OTHER -> "done"

Iterations(p) ==
    [t \in Threads |-> IF t \in Writers(p) THEN N_ITRS_WRITE
                       ELSE IF t \in Readers(p) THEN N_ITRS_READ ELSE 0]

TestTypeOK ==
    /\ phase \in Phases
    /\ left \in [Threads -> Nat]
    /\ g_counter \in 0 .. 2 * Writes
    /\ local \in [Threads -> 0 .. 2 * Writes]
    /\ step \in [Threads -> {"out", "loaded", "stored"}]
    /\ retried \in BOOLEAN
    /\ failed \in BOOLEAN

TestInit ==
    /\ Init
    /\ phase = "writers"
    /\ left = Iterations("writers")
    /\ g_counter = 0
    /\ local = [t \in Threads |-> 0]
    /\ step = [t \in Threads |-> "out"]
    /\ retried = FALSE
    /\ failed = FALSE

-----------------------------------------------------------------------------
(* Mutant of MayIncrement: the counter incremented while waiting for the    *)
(* lock.                                                                    *)
MayIncrementEarly(t) == pc[t] \in {"write_lock", "writing"}

(* ++__g_counter is between write_lock and write_unlock. *)
MayIncrement(t) == pc[t] = "writing"

(* read_unlock has returned true; a read it refuses is done again. *)
ReadDone(t) == pc'[t] = "validated"

(* Mutant of Iterated: a loop that does not count. *)
IteratedForever(t) == UNCHANGED left

(* One iteration less for thread t. *)
Iterated(t) == left' = [left EXCEPT ![t] = @ - 1]

(***************************************************************************)
(* test_version_lock_write.                                                *)
(***************************************************************************)
BeginWrite(t) ==
    /\ t \in Writers(phase) /\ left[t] > 0
    /\ WriteLock(t, vlock)
    /\ UNCHANGED testVars

LoadCounter(t) ==
    /\ MayIncrement(t) /\ t \in Writers(phase) /\ step[t] = "out"
    /\ local' = [local EXCEPT ![t] = g_counter]
    /\ step' = [step EXCEPT ![t] = "loaded"]
    /\ UNCHANGED <<lockVars, phase, left, g_counter, retried, failed>>

StoreCounter(t) ==
    /\ step[t] = "loaded"
    /\ g_counter' = local[t] + 1
    /\ step' = [step EXCEPT ![t] = "stored"]
    /\ UNCHANGED <<lockVars, phase, left, local, retried, failed>>

EndWrite(t) ==
    /\ step[t] = "stored"
    /\ WriteUnlock(t)
    /\ step' = IF aborted' THEN step ELSE [step EXCEPT ![t] = "out"]
    /\ UNCHANGED <<phase, left, g_counter, local, retried, failed>>

(* A step inside a call; the one that ends write_unlock ends the iteration. *)
InsideCall(t) ==
    /\ LockStep(t)
    /\ IF pc[t] = "faa" THEN Iterated(t) ELSE UNCHANGED left
    /\ UNCHANGED <<phase, g_counter, local, step, retried, failed>>

(***************************************************************************)
(* test_version_lock_read, with TEST_READ_LOCK_NO_WAIT as test.cc is built. *)
(***************************************************************************)
BeginRead(t) ==
    /\ t \in Readers(phase) /\ left[t] > 0
    /\ ReadLockNoWait(t, vlock)
    /\ UNCHANGED testVars

EndRead(t) ==
    /\ ReadUnlock(t)
    /\ IF ReadDone(t)
       THEN Iterated(t) /\ UNCHANGED retried
       ELSE retried' = (retried \/ pc'[t] = "refused") /\ UNCHANGED left
    /\ UNCHANGED <<phase, g_counter, local, step, failed>>

(***************************************************************************)
(* The main thread joins the group, checks the counter after the first     *)
(* phase, and starts the next group.                                       *)
(***************************************************************************)
Joined == \A t \in Threads : left[t] = 0

JoinAndSpawn ==
    /\ phase # "done" /\ Joined
    /\ IF phase = "writers" /\ g_counter # Writes
       THEN failed' = TRUE /\ UNCHANGED <<phase, left>>
       ELSE /\ phase' = NextPhase(phase)
            /\ left' = Iterations(phase')
            /\ UNCHANGED failed
    /\ UNCHANGED <<lockVars, g_counter, local, step, retried>>

(* abort() ends the process. *)
Running == ~aborted /\ ~failed

ThreadStep(t) ==
    \/ BeginWrite(t) \/ LoadCounter(t) \/ StoreCounter(t) \/ EndWrite(t)
    \/ InsideCall(t) \/ BeginRead(t) \/ EndRead(t)

TestNext == Running /\ ((\E t \in Threads : ThreadStep(t)) \/ JoinAndSpawn)

TestSpec == TestInit /\ [][TestNext]_vars

-----------------------------------------------------------------------------
(* Properties.                                                             *)

(* No increment is lost and the assert of test.cc:95 holds: with all        *)
(* threads joined the counter is the number of increments done so far.      *)
NoLostUpdate ==
    Joined => g_counter = CASE phase \in {"writers", "readers"} -> Writes
                            [] OTHER -> 2 * Writes

(* ++__g_counter is not atomic, but while a thread has loaded the counter   *)
(* and not yet stored it nobody else changes it (test.cc:39-41): the only   *)
(* thing that makes it so is the lock around it.                            *)
LoadedIsCurrent ==
    Intact(vlock) =>
        \A t \in Threads : step[t] = "loaded" => local[t] = g_counter

(* The test never aborts: neither the lock's assertions nor its own fail,   *)
(* and readers without writers are never refused (test.cc:99-108).          *)
TestPasses ==
    /\ Running
    /\ phase \in {"writers", "readers"} => ~retried
=============================================================================
