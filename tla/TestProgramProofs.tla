------------------------- MODULE TestProgramProofs -------------------------
(***************************************************************************)
(* Proofs about the stress test, for any number of threads and iterations  *)
(* and any counter width.  The API bench uses the lock only through its    *)
(* API, so what is proved of the lock holds in it.  The hash table bench   *)
(* rests on keys that are never removed, the list bench on the order of    *)
(* the list's nodes and on a count that keeps the lock from its reset.     *)
(***************************************************************************)
EXTENDS TestProgram, VersionLockProofs, ChainedListsProofs, FunctionTheorems

(* There is one lock. *)
LEMMA TheOnlyLock == vlock \in Locks /\ \A l \in Locks : l = vlock
  BY TestAssumption DEF vlock

(* Every step of the test is a step of the lock or leaves it unchanged. *)
LEMMA TestStepIsLockStep == [TestNext]_vars => [Next]_lockVars
  <1> SUFFICES ASSUME [TestNext]_vars PROVE [Next]_lockVars
    OBVIOUS
  <1>1. ASSUME NEW t \in Threads, ~aborted, ThreadStep(t) PROVE [Next]_lockVars
    <2>1. CASE LoadCounter(t) \/ StoreCounter(t)
      BY <2>1 DEF LoadCounter, StoreCounter, lockVars
    <2>2. CASE InsideCall(t)
      BY <1>1, <2>2 DEF InsideCall, Next
    <2>3. CASE BeginWrite(t) \/ EndWrite(t) \/ BeginRead(t) \/ EndRead(t)
      <3>1. ClientStep(t)
        BY <2>3, TheOnlyLock DEF BeginWrite, EndWrite, BeginRead, EndRead, ClientStep
      <3>2. QED
        BY <1>1, <3>1 DEF Next
    <2>4. QED
      BY <1>1, <2>1, <2>2, <2>3 DEF ThreadStep
  <1>2. CASE JoinAndSpawn \/ UNCHANGED vars
    BY <1>2 DEF JoinAndSpawn, vars, lockVars
  <1>3. QED
    BY <1>1, <1>2 DEF TestNext, Running

(* The lock's specification holds in the test, and with it its invariant. *)
THEOREM TestUsesLock == TestSpec => Spec
  <1>1. TestInit => Init
    BY DEF TestInit
  <1>2. QED
    BY <1>1, TestStepIsLockStep, PTL DEF TestSpec, Spec

(* A thread in the middle of ++__g_counter is inside its critical section,  *)
(* and what it has loaded is current.                                       *)
TestInv ==
    /\ step \in [Threads -> {"out", "loaded", "stored"}]
    /\ DOMAIN local = Threads
    /\ \A t \in Threads : step[t] # "out" => pc[t] = "writing"
    /\ LoadedIsCurrent

(* Every step of the test keeps it. *)
LEMMA TestInvStep == LockInv /\ TestInv /\ [TestNext]_vars => TestInv'
  <1> SUFFICES ASSUME LockInv, TestInv, [TestNext]_vars PROVE TestInv'
    OBVIOUS
  <1>1. TypeOK /\ MutualExclusion
    BY DEF LockInv
  <1>2. Intact(vlock)' => Intact(vlock)
    BY <1>1, TestStepIsLockStep, WrappedGrows DEF Intact, vlock
  <1>3. ASSUME NEW t \in Threads, ThreadStep(t), ~aborted PROVE TestInv'
    <2>1. CASE LoadCounter(t)
      BY <1>2, <2>1 DEF LoadCounter, MayIncrement, TestInv, LoadedIsCurrent, lockVars
    <2>2. CASE StoreCounter(t)
      <3>1. ASSUME NEW u \in Threads, step[u] = "loaded", Intact(vlock) PROVE u = t
        <4>1. pc[t] = "writing" /\ pc[u] = "writing"
          BY <2>2, <3>1 DEF StoreCounter, TestInv
        <4>2. Holds(t, vlock) /\ Holds(u, vlock)
          BY <1>1, <4>1, TheOnlyLock DEF TypeOK, Holds, WriterPCs
        <4>3. QED
          BY <1>1, <3>1, <4>2, TheOnlyLock DEF MutualExclusion
      <3>2. UNCHANGED <<lockVars, local>> /\ step' = [step EXCEPT ![t] = "stored"]
        BY <2>2 DEF StoreCounter
      <3>3. step[t] = "loaded"
        BY <2>2 DEF StoreCounter
      <3>4. LoadedIsCurrent'
        BY <1>2, <3>1, <3>2 DEF TestInv, LoadedIsCurrent
      <3>5. QED
        BY <3>2, <3>3, <3>4 DEF TestInv, lockVars
    <2>3. CASE EndWrite(t)
      <3>1. /\ \/ step' = [step EXCEPT ![t] = "out"]
               \/ step' = step /\ pc'[t] = pc[t]
            /\ UNCHANGED <<g_counter, local>>
            /\ \A u \in Threads \ {t} : pc'[u] = pc[u]
        BY <1>1, <1>3, <2>3 DEF EndWrite, WriteUnlock, AfterAssert, Move, TypeOK
      <3>2. QED
        BY <1>2, <3>1 DEF TestInv, LoadedIsCurrent
    <2>4. CASE InsideCall(t) \/ BeginWrite(t) \/ BeginRead(t) \/ EndRead(t)
      <3>1. UNCHANGED <<g_counter, local, step>>
        BY <2>4 DEF InsideCall, BeginWrite, BeginRead, EndRead, testVars
      <3>2. pc[t] # "writing"
        BY <2>4 DEF InsideCall, LockStep, WriteLoad, WriteCas, TryCas, UnlockReset,
                    UnlockFaa, ReadLoad, BeginWrite, WriteLock, BeginRead, ReadLockNoWait,
                    Call, Ready, ReadyPCs, EndRead, ReadUnlock
      <3>3. \A u \in Threads \ {t} : pc'[u] = pc[u]
        <4>1. CASE InsideCall(t)
          BY <1>1, <4>1 DEF InsideCall, LockStep, WriteLoad, WriteCas, TryCas, UnlockReset,
                            UnlockFaa, ReadLoad, Move, RetryWrite, AfterAssert, TypeOK
        <4>2. CASE BeginWrite(t) \/ BeginRead(t) \/ EndRead(t)
          BY <1>1, <4>2 DEF BeginWrite, WriteLock, BeginRead, ReadLockNoWait,
                            EndRead, ReadUnlock, Move, TypeOK
        <4>3. QED
          BY <2>4, <4>1, <4>2
      <3>4. QED
        BY <1>2, <3>1, <3>2, <3>3 DEF TestInv, LoadedIsCurrent
    <2>5. QED
      BY <1>3, <2>1, <2>2, <2>3, <2>4 DEF ThreadStep
  <1>4. CASE JoinAndSpawn \/ UNCHANGED vars
    BY <1>2, <1>4 DEF JoinAndSpawn, vars, testVars, lockVars, TestInv, LoadedIsCurrent
  <1>5. QED
    BY <1>3, <1>4 DEF TestNext, Running

(* No increment is computed from a stale copy of the counter, for any       *)
(* number of threads and iterations.                                        *)
THEOREM IncrementsAreIsolated == TestSpec => []LoadedIsCurrent
  <1>1. TestInit => TestInv
    BY DEF TestInit, TestInv, LoadedIsCurrent
  <1>2. TestInv => LoadedIsCurrent
    BY DEF TestInv
  <1>3. QED
    BY <1>1, <1>2, TestUsesLock, LockInvariant, TestInvStep, PTL DEF TestSpec

-----------------------------------------------------------------------------
(***************************************************************************)
(* Counting.  A writer's iterations are pairs of its number and what is    *)
(* left when they begin; the counter is the number of iterations that have *)
(* stored it, and half the lock's version the number of those that have    *)
(* released the lock.  So the version stays far below the reset.           *)
(***************************************************************************)
AllWrites == Firsts \X (1 .. N_ITRS_WRITE)

Finished == {p \in AllWrites : p[2] > left[p[1]]}

HasStored(t) == step[t] = "stored" \/ pc[t] = "faa"

Incremented == Finished \union {p \in AllWrites : p[2] = left[p[1]] /\ HasStored(p[1])}

(* What the earlier groups have done, and how much of S is this group's. *)
Before == CASE phase = "writers" -> 0 [] phase = "done" -> 2 * Writes [] OTHER -> Writes
InGroup(S) == IF phase \in {"writers", "both"} THEN Cardinality(S) ELSE 0

RoleInv ==
    /\ phase \in Phases
    /\ left \in [Threads -> Nat]
    /\ \A t \in Threads :
           /\ pc[t] \in {"idle", "validated", "refused", "write_lock", "write_cas",
                         "writing", "faa", "reading"}
           /\ pc[t] \in {"write_lock", "write_cas", "writing", "faa"} =>
                  t \in Writers(phase) /\ left[t] > 0
           /\ pc[t] = "reading" => t \in Readers(phase) /\ left[t] > 0
           /\ t \in Writers(phase) => left[t] <= N_ITRS_WRITE

CountInv ==
    /\ g_counter = Before + InGroup(Incremented)
    /\ version[vlock] \in {2 * (Before + InGroup(Finished)),
                           2 * (Before + InGroup(Finished)) + 1}

(* Nobody disturbs the readers of the second group. *)
ReadInv ==
    /\ phase = "readers" =>
           \A t \in Threads : pc[t] = "reading" => seen[t] = version[vlock]
    /\ phase \in {"writers", "readers"} => ~retried

ApiInv == RoleInv /\ CountInv /\ ReadInv /\ wrapped = {} /\ failed = FALSE

(* The iterations are finitely many. *)
LEMMA WritesAreFinite ==
    /\ IsFiniteSet(AllWrites) /\ Cardinality(AllWrites) = Writes
    /\ Writes \in Nat
    /\ \A S \in SUBSET AllWrites :
           /\ IsFiniteSet(S) /\ Cardinality(S) \in 0 .. Writes
           /\ \A p \in AllWrites \ S :
                  /\ Cardinality(S \union {p}) = Cardinality(S) + 1
                  /\ Cardinality(S) < Writes
  <1>1. IsFiniteSet(Firsts)
    BY TestAssumption, FS_Subset
  <1>2. /\ IsFiniteSet(1 .. N_ITRS_WRITE) /\ Cardinality(1 .. N_ITRS_WRITE) = N_ITRS_WRITE
        /\ Cardinality(Firsts) \in Nat
    <2>1. N_ITRS_WRITE \in Int /\ 1 \in Int /\ N_ITRS_WRITE >= 1
      BY TestAssumption
    <2>2. /\ IsFiniteSet(1 .. N_ITRS_WRITE)
          /\ Cardinality(1 .. N_ITRS_WRITE) =
                 IF 1 > N_ITRS_WRITE THEN 0 ELSE N_ITRS_WRITE - 1 + 1
      BY <2>1, FS_Interval
    <2>3. QED
      BY <1>1, <2>1, <2>2, FS_CardinalityType
  <1>3. /\ IsFiniteSet(AllWrites)
        /\ Cardinality(AllWrites) = Cardinality(Firsts) * Cardinality(1 .. N_ITRS_WRITE)
    BY <1>1, <1>2, FS_Product DEF AllWrites
  <1>4. Cardinality(AllWrites) = Writes /\ Writes \in Nat
    BY <1>2, <1>3, TestAssumption DEF Writes
  <1>5. ASSUME NEW S \in SUBSET AllWrites
        PROVE  IsFiniteSet(S) /\ Cardinality(S) \in 0 .. Writes
    <2>1. IsFiniteSet(S) /\ Cardinality(S) <= Cardinality(AllWrites)
      BY <1>3, FS_Subset
    <2>2. QED
      BY <1>4, <2>1, FS_CardinalityType
  <1>6. ASSUME NEW S \in SUBSET AllWrites, NEW p \in AllWrites \ S
        PROVE  Cardinality(S \union {p}) = Cardinality(S) + 1 /\ Cardinality(S) < Writes
    <2>1. Cardinality(S \union {p}) = Cardinality(S) + 1
      BY <1>5, FS_AddElement
    <2>2. Cardinality(S \union {p}) \in 0 .. Writes
      BY <1>5
    <2>3. QED
      BY <1>4, <1>5, <2>1, <2>2
  <1>7. QED
    BY <1>3, <1>4, <1>5, <1>6


(* A thread about to leave its critical section has an iteration that is    *)
(* not finished, so the version is not near the reset.                      *)
LEMMA Headroom ==
    ASSUME ApiInv, NEW t \in Threads, pc[t] \in {"writing", "faa"}
    PROVE  /\ phase \in {"writers", "both"}
           /\ <<t, left[t]>> \in AllWrites \ Finished
           /\ Before \in {0, Writes}
           /\ Finished \in SUBSET AllWrites
           /\ version[vlock] \in Nat /\ version[vlock] < 4 * Writes
           /\ version[vlock] + 1 < UINT64_MAX - 1
  <1>1. t \in Writers(phase) /\ left[t] \in 1 .. N_ITRS_WRITE
    BY TestAssumption DEF ApiInv, RoleInv
  <1>2. t \in Firsts /\ phase \in {"writers", "both"}
    BY <1>1 DEF Writers
  <1>3. <<t, left[t]>> \in AllWrites \ Finished
    BY <1>1, <1>2 DEF AllWrites, Finished, ApiInv, RoleInv
  <1>4. Before \in {0, Writes}
    BY <1>2 DEF Before
  <1>5. Finished \in SUBSET AllWrites
    BY DEF Finished
  <1>6. Cardinality(Finished) \in 0 .. Writes /\ Cardinality(Finished) < Writes /\ Writes \in Nat
    BY <1>3, <1>5, WritesAreFinite
  <1>7. version[vlock] \in {2 * (Before + Cardinality(Finished)),
                            2 * (Before + Cardinality(Finished)) + 1}
    BY <1>2 DEF ApiInv, CountInv, InGroup
  <1>8. version[vlock] \in Nat /\ version[vlock] < 4 * Writes
    BY <1>4, <1>6, <1>7
  <1>9. version[vlock] + 1 < UINT64_MAX - 1
    BY <1>6, <1>8, TestAssumption, WidthAssumption
  <1>10. QED
    BY <1>2, <1>3, <1>4, <1>5, <1>8, <1>9

(* What the counts depend on. *)
LEMMA SameCounts ==
    ASSUME phase' = phase, left' = left, \A t \in Threads : HasStored(t)' <=> HasStored(t)
    PROVE  Finished' = Finished /\ Incremented' = Incremented /\ Before' = Before
  <1>1. Finished' = Finished
    BY DEF Finished, AllWrites
  <1>2. \A p \in AllWrites : p[1] \in Threads
    BY TestAssumption DEF AllWrites
  <1>3. Incremented' = Incremented
    BY <1>1, <1>2 DEF Incremented, AllWrites
  <1>4. QED
    BY <1>1, <1>3 DEF Before

(* What no step of a thread in the test changes without doing so openly. *)
LEMMA ApiFrame ==
    ASSUME LockInv, TestInv, ApiInv, NEW t \in Threads, ThreadStep(t)
    PROVE  /\ UNCHANGED <<phase, failed>>
           /\ \A u \in Threads \ {t} :
                  UNCHANGED <<pc[u], seen[u], step[u], left[u]>>
  <1>1. TypeOK
    BY DEF LockInv
  <1>2. UNCHANGED <<phase, failed>>
    BY DEF ThreadStep, BeginWrite, LoadCounter, StoreCounter, EndWrite, InsideCall,
           BeginRead, EndRead, testVars
  <1>3. \A u \in Threads \ {t} : UNCHANGED <<step[u], left[u]>>
    <2>1. CASE BeginWrite(t) \/ BeginRead(t)
      BY <2>1 DEF BeginWrite, BeginRead, testVars
    <2>2. CASE LoadCounter(t) \/ StoreCounter(t) \/ EndWrite(t)
      BY <2>2 DEF LoadCounter, StoreCounter, EndWrite, TestInv
    <2>3. CASE InsideCall(t) \/ EndRead(t)
      BY <2>3 DEF InsideCall, EndRead, Iterated, ApiInv, RoleInv
    <2>4. QED
      BY <2>1, <2>2, <2>3 DEF ThreadStep
  <1>4. \A u \in Threads \ {t} : UNCHANGED <<pc[u], seen[u]>>
    <2>1. CASE LoadCounter(t) \/ StoreCounter(t)
      BY <2>1 DEF LoadCounter, StoreCounter, lockVars
    <2>2. CASE BeginWrite(t) \/ BeginRead(t)
      BY <1>1, <2>2 DEF BeginWrite, BeginRead, WriteLock, ReadLockNoWait, Move, TypeOK
    <2>3. CASE EndWrite(t)
      BY <1>1, <2>3 DEF EndWrite, WriteUnlock, AfterAssert, Move, TypeOK
    <2>4. CASE EndRead(t)
      BY <1>1, <2>4 DEF EndRead, ReadUnlock, Move, TypeOK
    <2>5. CASE InsideCall(t)
      BY <1>1, <2>5 DEF InsideCall, LockStep, WriteLoad, WriteCas, TryCas, UnlockReset,
                        UnlockFaa, ReadLoad, RetryWrite, AfterAssert, Move, TypeOK
    <2>6. QED
      BY <2>1, <2>2, <2>3, <2>4, <2>5 DEF ThreadStep
  <1>5. QED
    BY <1>2, <1>3, <1>4

(* A step of thread t that stays in its role and counts nothing. *)
LEMMA ApiQuiet ==
    ASSUME LockInv, TestInv, ApiInv, NEW t \in Threads, ThreadStep(t),
           UNCHANGED <<left, g_counter, retried, wrapped>>,
           HasStored(t)' <=> HasStored(t),
           \/ version'[vlock] = version[vlock]
           \/ /\ ~Odd(version[vlock]) /\ version'[vlock] = version[vlock] + 1
              /\ phase # "readers",
           \/ pc'[t] \in {"idle", "validated", "refused"}
           \/ /\ pc'[t] \in {"write_lock", "write_cas", "writing", "faa"}
              /\ t \in Writers(phase) /\ left[t] > 0
           \/ /\ pc'[t] = "reading" /\ t \in Readers(phase) /\ left[t] > 0
              /\ seen'[t] = version[vlock]
    PROVE  ApiInv'
  <1>1. /\ UNCHANGED <<phase, failed>>
        /\ \A u \in Threads \ {t} : UNCHANGED <<pc[u], seen[u], step[u], left[u]>>
    BY ApiFrame
  <1>2. Finished' = Finished /\ Incremented' = Incremented /\ Before' = Before
    <2>1. \A u \in Threads : HasStored(u)' <=> HasStored(u)
      BY <1>1 DEF HasStored
    <2>2. QED
      BY <1>1, <2>1, SameCounts
  <1>3. RoleInv'
    BY <1>1 DEF ApiInv, RoleInv, Writers, Readers
  <1>4. CountInv'
    <2>1. Before + InGroup(Finished) \in Nat
      <3>1. Finished \in SUBSET AllWrites /\ phase \in Phases
        BY DEF Finished, ApiInv, RoleInv
      <3>2. Cardinality(Finished) \in Nat /\ Writes \in Nat
        BY <3>1, WritesAreFinite
      <3>3. QED
        BY <3>1, <3>2 DEF Before, InGroup
    <2>2. InGroup(Finished)' = InGroup(Finished) /\ InGroup(Incremented)' = InGroup(Incremented)
      BY <1>1, <1>2 DEF InGroup
    <2>3. g_counter' = (Before + InGroup(Incremented))'
      BY <1>2, <2>2 DEF ApiInv, CountInv
    <2>4. \/ version'[vlock] = version[vlock]
          \/ ~Odd(version[vlock]) /\ version'[vlock] = version[vlock] + 1
      OBVIOUS
    <2>5. version'[vlock] \in {2 * (Before + InGroup(Finished)),
                               2 * (Before + InGroup(Finished)) + 1}
      BY <2>1, <2>4 DEF ApiInv, CountInv, Odd
    <2>6. QED
      BY <1>2, <2>2, <2>3, <2>5, TheOnlyLock DEF CountInv, vlock
  <1>5. ReadInv'
    BY <1>1 DEF ApiInv, ReadInv, vlock
  <1>6. QED
    BY <1>1, <1>3, <1>4, <1>5 DEF ApiInv

(* Entering a call, and the first half of ++__g_counter (test.cc:38-39, 55). *)
LEMMA ApiBegin ==
    ASSUME LockInv, TestInv, ApiInv, NEW t \in Threads,
           BeginWrite(t) \/ LoadCounter(t) \/ BeginRead(t)
    PROVE  ApiInv'
  <1>1. TypeOK /\ vlock \in Locks
    BY TheOnlyLock DEF LockInv
  <1>2. ThreadStep(t)
    BY DEF ThreadStep
  <1>3. CASE BeginWrite(t)
    <2>1. /\ UNCHANGED <<left, g_counter, retried, step, wrapped, version>>
          /\ pc[t] \in ReadyPCs /\ pc'[t] = "write_lock"
          /\ t \in Writers(phase) /\ left[t] > 0
      BY <1>1, <1>3 DEF BeginWrite, WriteLock, Call, Ready, Move, TypeOK, testVars
    <2>2. HasStored(t)' <=> HasStored(t)
      BY <2>1 DEF HasStored, ReadyPCs
    <2>3. QED
      BY <1>2, <2>1, <2>2, ApiQuiet
  <1>4. CASE LoadCounter(t)
    <2>1. /\ UNCHANGED <<left, g_counter, retried, wrapped, version, pc>>
          /\ pc[t] = "writing" /\ step[t] = "out" /\ step'[t] = "loaded"
      BY <1>4 DEF LoadCounter, MayIncrement, lockVars, TestInv
    <2>2. t \in Writers(phase) /\ left[t] > 0
      BY <2>1 DEF ApiInv, RoleInv
    <2>3. HasStored(t)' <=> HasStored(t)
      BY <2>1 DEF HasStored
    <2>4. QED
      BY <1>2, <2>1, <2>2, <2>3, ApiQuiet
  <1>5. CASE BeginRead(t)
    <2>1. /\ UNCHANGED <<left, g_counter, retried, step, wrapped, version>>
          /\ pc[t] \in ReadyPCs /\ pc'[t] = "reading" /\ seen'[t] = version[vlock]
          /\ t \in Readers(phase) /\ left[t] > 0
      BY <1>1, <1>5 DEF BeginRead, ReadLockNoWait, Call, Ready, Move, TypeOK, testVars
    <2>2. HasStored(t)' <=> HasStored(t)
      BY <2>1 DEF HasStored, ReadyPCs
    <2>3. QED
      BY <1>2, <2>1, <2>2, ApiQuiet
  <1>6. QED
    BY <1>3, <1>4, <1>5

(* write_unlock up to its addition: the version is nowhere near the reset   *)
(* and odd, so the call neither resets nor aborts (version_lock.hpp:99-105). *)
LEMMA ApiEndWrite ==
    ASSUME LockInv, LockInv', TestInv, ApiInv, NEW t \in Threads, EndWrite(t)
    PROVE  ApiInv' /\ ~aborted'
  <1>1. TypeOK /\ vlock \in Locks /\ at[t] = vlock
    BY TheOnlyLock DEF LockInv, TypeOK
  <1>2. /\ pc[t] = "writing" /\ step[t] = "stored"
        /\ UNCHANGED <<left, g_counter, retried, wrapped, version>>
    BY DEF EndWrite, WriteUnlock
  <1>3. ~aborted'
    BY <1>2 DEF LockInv, AbortsOnlyAfterReset, ApiInv
  <1>4. ~AtReset(version[vlock])
    <2>1. version[vlock] + 1 < UINT64_MAX - 1 /\ version[vlock] \in Nat
      BY <1>2, Headroom
    <2>2. QED
      BY <2>1, WidthAssumption DEF AtReset, Succ
  <1>5. pc'[t] = "faa" /\ step'[t] = "out"
    BY <1>1, <1>3, <1>4 DEF EndWrite, WriteUnlock, AfterAssert, Move, TypeOK, TestInv
  <1>6. t \in Writers(phase) /\ left[t] > 0
    BY <1>2 DEF ApiInv, RoleInv
  <1>7. HasStored(t)' <=> HasStored(t)
    BY <1>2, <1>5 DEF HasStored
  <1>8. ThreadStep(t)
    BY DEF ThreadStep
  <1>9. ApiInv'
    BY <1>2, <1>5, <1>6, <1>7, <1>8, ApiQuiet
  <1>10. QED
    BY <1>3, <1>9

(* The loops of write_lock (version_lock.hpp:59-69). *)
LEMMA ApiWriteLock ==
    ASSUME LockInv, TestInv, ApiInv, NEW t \in Threads, InsideCall(t),
           WriteLoad(t) \/ WriteCas(t)
    PROVE  ApiInv'
  <1>1. TypeOK /\ vlock \in Locks /\ at[t] = vlock /\ wrapped = {}
    BY TheOnlyLock DEF LockInv, TypeOK, ApiInv
  <1>2. /\ pc[t] \in {"write_lock", "write_cas"} /\ wrapped' = wrapped
        /\ pc'[t] \in {"write_lock", "write_cas", "writing"}
    BY <1>1 DEF WriteLoad, WriteCas, RetryWrite, Move, TypeOK
  <1>3. UNCHANGED <<left, g_counter, retried, step>>
    BY <1>2 DEF InsideCall
  <1>4. t \in Writers(phase) /\ left[t] > 0
    BY <1>2 DEF ApiInv, RoleInv
  <1>5. HasStored(t)' <=> HasStored(t)
    BY <1>2, <1>3 DEF HasStored
  <1>6. \/ version'[vlock] = version[vlock]
        \/ ~Odd(version[vlock]) /\ version'[vlock] = version[vlock] + 1
    <2>1. CASE pc[t] = "write_cas" /\ CasSucceeds(t)
      <3>1. version[vlock] = seen[t] /\ version'[vlock] = Succ(seen[t])
        BY <1>1, <2>1 DEF WriteLoad, WriteCas, CasSucceeds, TypeOK
      <3>2. ~Odd(seen[t])
        BY <1>1, <2>1 DEF LockInv, Intact, LocalInv
      <3>3. seen[t] # UINT64_MAX
        BY <3>2, ResetPoint
      <3>4. QED
        BY <3>1, <3>2, <3>3 DEF Succ
    <2>2. CASE ~(pc[t] = "write_cas" /\ CasSucceeds(t))
      BY <1>2, <2>2 DEF WriteLoad, WriteCas
    <2>3. QED
      BY <2>1, <2>2
  <1>7. phase # "readers" /\ ThreadStep(t)
    BY <1>4 DEF Writers, ThreadStep
  <1>8. QED
    BY <1>1, <1>2, <1>3, <1>4, <1>5, <1>6, <1>7, ApiQuiet

(* The second half of ++__g_counter (test.cc:39): one more iteration has    *)
(* stored the counter, and the value it stores is one more than it was.     *)
LEMMA ApiStore ==
    ASSUME LockInv, TestInv, ApiInv, NEW t \in Threads, StoreCounter(t)
    PROVE  ApiInv'
  <1> DEFINE p == <<t, left[t]>>
  <1>1. /\ step[t] = "loaded" /\ step'[t] = "stored" /\ pc[t] = "writing"
        /\ UNCHANGED <<lockVars, left, retried>>
        /\ g_counter' = local[t] + 1
    BY DEF StoreCounter, TestInv
  <1>2. g_counter' = g_counter + 1
    BY <1>1, TheOnlyLock DEF TestInv, LoadedIsCurrent, Intact, ApiInv
  <1>3. /\ UNCHANGED <<phase, failed>>
        /\ \A u \in Threads \ {t} : UNCHANGED <<pc[u], seen[u], step[u], left[u]>>
    BY ApiFrame DEF ThreadStep
  <1>4. p \in AllWrites \ Finished /\ phase \in {"writers", "both"}
    BY <1>1, Headroom
  <1>5. Finished' = Finished /\ Before' = Before
    BY <1>1, <1>3 DEF Finished, AllWrites, Before
  <1>6. Incremented' = Incremented \union {p} /\ p \in AllWrites \ Incremented
    <2>1. ~HasStored(t) /\ HasStored(t)'
      BY <1>1 DEF HasStored
    <2>2. \A u \in Threads \ {t} : HasStored(u)' <=> HasStored(u)
      BY <1>3 DEF HasStored
    <2>3. \A q \in AllWrites : q[1] \in Threads /\ q = <<q[1], q[2]>>
      BY TestAssumption DEF AllWrites
    <2>4. left' = left /\ AllWrites' = AllWrites
      BY <1>1 DEF AllWrites
    <2>5. \A q \in AllWrites :
              q \in Incremented' <=> q \in Incremented \/ q = p
      BY <1>4, <1>5, <2>1, <2>2, <2>3, <2>4 DEF Incremented
    <2>6. p \notin Incremented
      BY <1>4, <2>1 DEF Incremented
    <2>7. Incremented \in SUBSET AllWrites /\ Incremented' \in SUBSET AllWrites
      BY <2>4 DEF Incremented, Finished
    <2>8. QED
      BY <1>4, <2>5, <2>6, <2>7
  <1>7. Cardinality(Incremented') = Cardinality(Incremented) + 1
    <2>1. Incremented \in SUBSET AllWrites
      BY DEF Incremented, Finished
    <2>2. QED
      BY <1>6, <2>1, WritesAreFinite
  <1>8. CountInv'
    <2>1. g_counter' = Before + Cardinality(Incremented) + 1
      BY <1>2, <1>4 DEF ApiInv, CountInv, InGroup
    <2>2. Before \in Nat /\ Cardinality(Incremented) \in Nat
      <3>1. Incremented \in SUBSET AllWrites
        BY DEF Incremented, Finished
      <3>2. Cardinality(Incremented) \in Nat /\ Writes \in Nat
        BY <3>1, WritesAreFinite
      <3>3. Before \in {0, Writes}
        BY <1>1, Headroom
      <3>4. QED
        BY <3>2, <3>3
    <2>3. g_counter' = Before' + InGroup(Incremented)'
      BY <1>3, <1>4, <1>5, <1>7, <2>1, <2>2 DEF InGroup
    <2>4. version'[vlock'] \in {2 * (Before' + InGroup(Finished)'),
                                2 * (Before' + InGroup(Finished)') + 1}
      BY <1>1, <1>3, <1>5 DEF ApiInv, CountInv, InGroup, lockVars, vlock
    <2>5. QED
      BY <2>3, <2>4 DEF CountInv
  <1>9. RoleInv' /\ ReadInv'
    BY <1>1, <1>3 DEF ApiInv, RoleInv, ReadInv, Writers, Readers, lockVars, vlock
  <1>10. QED
    BY <1>1, <1>3, <1>8, <1>9 DEF ApiInv, lockVars

(* The addition of write_unlock (version_lock.hpp:108): the iteration is    *)
(* finished, and the version is twice the number of those that are.         *)
LEMMA ApiRelease ==
    ASSUME LockInv, TestInv, ApiInv, NEW t \in Threads, InsideCall(t), UnlockFaa(t)
    PROVE  ApiInv'
  <1> DEFINE p == <<t, left[t]>>
  <1>1. TypeOK /\ vlock \in Locks /\ at[t] = vlock
    BY TheOnlyLock DEF LockInv, TypeOK
  <1>2. /\ pc[t] = "faa" /\ pc'[t] = "idle" /\ step[t] = "out" /\ step' = step
        /\ left' = [left EXCEPT ![t] = @ - 1]
        /\ UNCHANGED <<g_counter, retried, wrapped>>
        /\ version'[vlock] = Succ(version[vlock])
    BY <1>1 DEF UnlockFaa, InsideCall, Iterated, Move, TypeOK, TestInv
  <1>3. /\ UNCHANGED <<phase, failed>>
        /\ \A u \in Threads \ {t} : UNCHANGED <<pc[u], seen[u], step[u], left[u]>>
    BY ApiFrame DEF ThreadStep
  <1>4. /\ p \in AllWrites \ Finished /\ phase \in {"writers", "both"}
        /\ version[vlock] \in Nat /\ version[vlock] + 1 < UINT64_MAX - 1
        /\ Before \in {0, Writes} /\ Finished \in SUBSET AllWrites
    BY <1>2, Headroom
  <1>5. left[t] \in Nat \ {0} /\ left' \in [Threads -> Nat] /\ left'[t] = left[t] - 1
    BY <1>2 DEF ApiInv, RoleInv
  <1>6. Finished' = Finished \union {p}
    <2>1. \A q \in AllWrites : q[1] \in Threads /\ q = <<q[1], q[2]>> /\ q[2] \in Nat
      BY TestAssumption DEF AllWrites
    <2>2. \A q \in AllWrites : q \in Finished' <=> q \in Finished \/ q = p
      BY <1>3, <1>5, <2>1 DEF Finished, AllWrites, ApiInv, RoleInv
    <2>3. Finished' \in SUBSET AllWrites
      BY DEF Finished, AllWrites
    <2>4. QED
      BY <1>4, <2>2, <2>3
  <1>7. Incremented' = Incremented
    <2>1. HasStored(t) /\ ~HasStored(t)'
      BY <1>2 DEF HasStored
    <2>2. \A u \in Threads \ {t} : HasStored(u)' <=> HasStored(u)
      BY <1>3 DEF HasStored
    <2>3. \A q \in AllWrites : q[1] \in Threads /\ q = <<q[1], q[2]>>
      BY TestAssumption DEF AllWrites
    <2>4. AllWrites' = AllWrites
      BY DEF AllWrites
    <2>5. \A q \in AllWrites : q \in Incremented' <=> q \in Incremented
      BY <1>3, <1>4, <1>6, <2>1, <2>2, <2>3, <2>4 DEF Incremented
    <2>6. Incremented \in SUBSET AllWrites /\ Incremented' \in SUBSET AllWrites
      BY <2>4 DEF Incremented, Finished
    <2>7. QED
      BY <2>5, <2>6
  <1>8. /\ Cardinality(Finished') = Cardinality(Finished) + 1
        /\ Cardinality(Finished) \in Nat /\ Writes \in Nat
    BY <1>4, <1>6, WritesAreFinite
  <1>9. version'[vlock] = version[vlock] + 1 /\ Odd(version[vlock])
    <2>1. Held(vlock) /\ Intact(vlock) /\ vlock \notin destroyed
      BY <1>1, <1>2 DEF Held, Holds, WriterPCs, Intact, ApiInv, LockInv, DestroyedInv,
                        Ready, ReadyPCs
    <2>2. Odd(version[vlock])
      BY <1>1, <2>1 DEF LockInv, CounterInv
    <2>3. QED
      BY <1>2, <1>4, <2>2 DEF Succ
  <1>10. CountInv'
    <2>1. version[vlock] = 2 * (Before + Cardinality(Finished)) + 1
      BY <1>4, <1>8, <1>9 DEF ApiInv, CountInv, InGroup, Odd
    <2>2. version'[vlock] = 2 * (Before + (Cardinality(Finished) + 1))
      BY <1>4, <1>8, <1>9, <2>1
    <2>3. Before' = Before /\ InGroup(Finished)' = Cardinality(Finished) + 1
      BY <1>3, <1>4, <1>8 DEF Before, InGroup
    <2>4. g_counter' = Before' + InGroup(Incremented)'
      BY <1>2, <1>3, <1>7, <2>3 DEF ApiInv, CountInv, InGroup
    <2>5. version'[vlock'] \in {2 * (Before' + InGroup(Finished)'),
                                2 * (Before' + InGroup(Finished)') + 1}
      BY <2>2, <2>3 DEF vlock
    <2>6. QED
      BY <2>4, <2>5 DEF CountInv
  <1>11. RoleInv'
    <2>1. t \in Writers(phase)
      BY <1>2 DEF ApiInv, RoleInv
    <2>2. left[t] <= N_ITRS_WRITE
      BY <2>1 DEF ApiInv, RoleInv
    <2>3. left'[t] <= N_ITRS_WRITE
      BY <1>5, <2>2, TestAssumption
    <2>4. QED
      BY <1>2, <1>3, <1>5, <2>3 DEF ApiInv, RoleInv, Writers, Readers
  <1>12. ReadInv'
    BY <1>2, <1>3, <1>4 DEF ApiInv, ReadInv, vlock
  <1>13. QED
    BY <1>2, <1>3, <1>10, <1>11, <1>12 DEF ApiInv

(* The calls a thread of the test is in: write_lock's loop and write_unlock's *)
(* addition.                                                                *)
LEMMA ApiInsideCall ==
    ASSUME LockInv, TestInv, ApiInv, NEW t \in Threads, InsideCall(t)
    PROVE  ApiInv' /\ UNCHANGED aborted
  <1>1. pc[t] \notin {"try_cas", "reset", "read_lock"}
    BY DEF ApiInv, RoleInv
  <1>2. WriteLoad(t) \/ WriteCas(t) \/ UnlockFaa(t)
    BY <1>1 DEF InsideCall, LockStep, TryCas, UnlockReset, ReadLoad
  <1>3. UNCHANGED aborted
    BY <1>2 DEF WriteLoad, WriteCas, UnlockFaa
  <1>4. QED
    BY <1>2, <1>3, ApiWriteLock, ApiRelease

(* read_unlock: the version has not gone backwards, and with no writers     *)
(* about it has not changed (version_lock.hpp:163-174, test.cc:51-62).      *)
LEMMA ApiEndRead ==
    ASSUME LockInv, LockInv', TestInv, ApiInv, NEW t \in Threads, EndRead(t)
    PROVE  ApiInv' /\ ~aborted'
  <1>1. TypeOK /\ vlock \in Locks /\ at[t] = vlock
    BY TheOnlyLock DEF LockInv, TypeOK
  <1>2. pc[t] = "reading" /\ UNCHANGED <<g_counter, step, wrapped, version>>
    BY DEF EndRead, ReadUnlock
  <1>3. ~aborted'
    BY <1>2 DEF LockInv, AbortsOnlyAfterReset, ApiInv
  <1>4. /\ t \in Readers(phase) /\ left[t] \in Nat \ {0} /\ left \in [Threads -> Nat]
        /\ phase \in {"readers", "both"}
    BY <1>2 DEF ApiInv, RoleInv, Readers
  <1>5. /\ UNCHANGED <<phase, failed>>
        /\ \A u \in Threads \ {t} : UNCHANGED <<pc[u], seen[u], step[u], left[u]>>
    BY ApiFrame DEF ThreadStep
  <1>6. /\ pc'[t] = (IF seen[t] = version[vlock] THEN "validated" ELSE "refused")
        /\ \/ left' = [left EXCEPT ![t] = @ - 1] /\ retried' = retried
           \/ /\ left' = left /\ retried' = (retried \/ pc'[t] = "refused")
              /\ pc'[t] # "validated"
    BY <1>1, <1>3 DEF EndRead, ReadUnlock, Validates, ReadDone, Iterated, Move, TypeOK
  <1>7. left' \in [Threads -> Nat] /\ left'[t] <= left[t]
    BY <1>4, <1>6
  <1>8. RoleInv'
    <2>1. t \in Writers(phase) => left'[t] <= N_ITRS_WRITE
      BY <1>4, <1>7, TestAssumption DEF ApiInv, RoleInv
    <2>2. QED
      BY <1>5, <1>6, <1>7, <2>1 DEF ApiInv, RoleInv, Writers, Readers
  <1>9. ReadInv'
    <2>1. phase = "readers" => seen[t] = version[vlock]
      BY <1>2 DEF ApiInv, ReadInv
    <2>2. phase = "readers" => ~retried'
      BY <1>6, <2>1 DEF ApiInv, ReadInv
    <2>3. QED
      BY <1>2, <1>4, <1>5, <1>6, <2>2 DEF ApiInv, ReadInv, vlock
  <1>10. InGroup(Finished)' = InGroup(Finished) /\ InGroup(Incremented)' = InGroup(Incremented)
    <2>1. CASE phase = "readers"
      BY <1>5, <2>1 DEF InGroup
    <2>2. CASE phase = "both"
      <3>1. t \notin Firsts
        BY <1>4, <2>2 DEF Readers
      <3>2. \A q \in AllWrites : q[1] \in Threads \ {t}
        BY <3>1, TestAssumption DEF AllWrites
      <3>3. \A u \in Threads \ {t} : HasStored(u)' <=> HasStored(u)
        BY <1>5 DEF HasStored
      <3>4. AllWrites' = AllWrites
        BY DEF AllWrites
      <3>5. Finished' = Finished
        BY <1>5, <3>2, <3>4 DEF Finished
      <3>6. Incremented' = Incremented
        BY <1>5, <3>2, <3>3, <3>4, <3>5 DEF Incremented
      <3>7. QED
        BY <1>5, <3>5, <3>6 DEF InGroup
    <2>3. QED
      BY <1>4, <2>1, <2>2
  <1>11. CountInv'
    <2>1. Before' = Before /\ vlock' = vlock
      BY <1>5 DEF Before, vlock
    <2>2. QED
      BY <1>2, <1>10, <2>1 DEF ApiInv, CountInv
  <1>12. QED
    BY <1>2, <1>3, <1>5, <1>8, <1>9, <1>11 DEF ApiInv

(* The main thread joins a group: all its iterations are finished, so the   *)
(* assert of test.cc:95 holds, and the next group has finished none.        *)
LEMMA ApiJoin ==
    ASSUME LockInv, TestInv, ApiInv, JoinAndSpawn
    PROVE  ApiInv' /\ UNCHANGED aborted
  <1>1. /\ phase \in {"writers", "readers", "both"} /\ \A t \in Threads : left[t] = 0
        /\ UNCHANGED <<version, pc, seen, aborted, wrapped, g_counter, step, retried>>
    BY DEF JoinAndSpawn, Joined, lockVars, ApiInv, RoleInv, Phases
  <1>2. \A t \in Threads : ~HasStored(t) /\ pc[t] \in {"idle", "validated", "refused"}
    BY <1>1 DEF HasStored, ApiInv, RoleInv, TestInv
  <1>3. Finished = AllWrites /\ Incremented = AllWrites
    <2>1. \A q \in AllWrites : q[1] \in Threads /\ q[2] > 0
      BY TestAssumption DEF AllWrites
    <2>2. QED
      BY <1>1, <2>1 DEF Finished, Incremented
  <1>4. Cardinality(AllWrites) = Writes /\ Writes \in Nat
    BY WritesAreFinite
  <1>5. g_counter = (IF phase = "both" THEN 2 * Writes ELSE Writes)
    BY <1>1, <1>3, <1>4 DEF ApiInv, CountInv, Before, InGroup
  <1>6. version[vlock] \in {2 * g_counter, 2 * g_counter + 1}
    BY <1>1, <1>3, <1>4, <1>5 DEF ApiInv, CountInv, Before, InGroup
  <1>7. phase' = NextPhase(phase) /\ left' = Iterations(phase') /\ failed' = failed
    BY <1>1, <1>5 DEF JoinAndSpawn
  <1>8. phase' \in {"readers", "both", "done"} /\ phase' # phase
        /\ (phase' = "done" <=> phase = "both")
    BY <1>1, <1>7 DEF NextPhase
  <1>9. /\ left' \in [Threads -> Nat]
        /\ \A t \in Writers(phase') : left'[t] = N_ITRS_WRITE
    <2>1. Writers(phase') \in SUBSET Threads
      BY TestAssumption DEF Writers
    <2>2. QED
      BY <1>7, <2>1, TestAssumption DEF Iterations
  <1>10. RoleInv'
    BY <1>1, <1>2, <1>8, <1>9, TestAssumption DEF RoleInv, Phases, Writers, Readers
  <1>11. InGroup(Finished)' = 0 /\ InGroup(Incremented)' = 0
    <2>1. CASE phase' = "both"
      <3>1. \A q \in AllWrites : q[1] \in Firsts /\ q[1] \in Threads /\ q[2] <= N_ITRS_WRITE
        BY TestAssumption DEF AllWrites
      <3>2. \A q \in AllWrites : left'[q[1]] = N_ITRS_WRITE
        BY <1>9, <2>1, <3>1 DEF Writers
      <3>3. Finished' = {}
        <4>1. \A q \in AllWrites : ~(q[2] > left'[q[1]])
          BY <3>1, <3>2, TestAssumption DEF AllWrites
        <4>2. QED
          BY <4>1 DEF Finished, AllWrites
      <3>4. \A t \in Threads : ~HasStored(t)'
        BY <1>1, <1>2 DEF HasStored
      <3>5. Incremented' = {}
        BY <3>1, <3>3, <3>4 DEF Incremented, AllWrites
      <3>6. QED
        BY <3>3, <3>5, FS_EmptySet DEF InGroup
    <2>2. CASE phase' # "both"
      BY <1>8, <2>2 DEF InGroup
    <2>3. QED
      BY <2>1, <2>2
  <1>12. Before' = g_counter
    BY <1>1, <1>5, <1>8 DEF Before
  <1>13. CountInv'
    <2>1. g_counter' = g_counter /\ vlock' = vlock /\ version' = version /\ g_counter \in Nat
      BY <1>1, <1>4, <1>5 DEF vlock
    <2>2. Before' + InGroup(Finished)' = g_counter /\ Before' + InGroup(Incremented)' = g_counter
      BY <1>11, <1>12, <2>1
    <2>3. QED
      BY <1>6, <2>1, <2>2 DEF CountInv
  <1>14. ReadInv'
    <2>1. \A t \in Threads : pc'[t] # "reading"
      BY <1>1, <1>2
    <2>2. phase' = "readers" => phase = "writers"
      BY <1>1, <1>7 DEF NextPhase
    <2>3. QED
      BY <1>1, <1>8, <2>1, <2>2 DEF ApiInv, ReadInv
  <1>15. QED
    BY <1>1, <1>7, <1>10, <1>13, <1>14 DEF ApiInv

(* The inductive invariant of the test, which says that it does not abort.  *)
FullInv == LockInv /\ TestInv /\ ApiInv /\ ~aborted

(* It holds when the test starts. *)
LEMMA FullInit == TestInit => FullInv
  <1> SUFFICES ASSUME TestInit PROVE FullInv
    OBVIOUS
  <1>1. Init /\ LockInv /\ TestInv
    BY LockInit DEF TestInit, TestInv, LoadedIsCurrent
  <1>2. /\ \A t \in Threads : pc[t] = "idle" /\ step[t] = "out"
        /\ version[vlock] = 0 /\ wrapped = {} /\ ~aborted
    BY <1>1, TheOnlyLock DEF Init, TestInit
  <1>3. /\ phase = "writers" /\ left \in [Threads -> Nat]
        /\ \A t \in Firsts : left[t] = N_ITRS_WRITE
    BY TestAssumption DEF TestInit, Iterations, Writers
  <1>4. RoleInv
    BY <1>2, <1>3, TestAssumption DEF RoleInv, Phases, Writers
  <1>5. InGroup(Finished) = 0 /\ InGroup(Incremented) = 0
    <2>1. \A q \in AllWrites : q[1] \in Threads /\ ~HasStored(q[1]) /\ ~(q[2] > left[q[1]])
      BY <1>2, <1>3, TestAssumption DEF AllWrites, HasStored
    <2>2. Finished = {} /\ Incremented = {}
      BY <2>1 DEF Finished, Incremented
    <2>3. QED
      BY <1>3, <2>2, FS_EmptySet DEF InGroup
  <1>6. CountInv
    BY <1>2, <1>3, <1>5 DEF CountInv, Before, TestInit
  <1>7. ReadInv
    BY <1>2 DEF ReadInv, TestInit
  <1>8. QED
    BY <1>1, <1>2, <1>4, <1>6, <1>7 DEF FullInv, ApiInv, TestInit

(* And every step keeps it. *)
LEMMA FullStep == FullInv /\ [TestNext]_vars => FullInv'
  <1> SUFFICES ASSUME FullInv, [TestNext]_vars PROVE FullInv'
    OBVIOUS
  <1>1. LockInv /\ TestInv /\ ApiInv /\ ~aborted
    BY DEF FullInv
  <1>2. LockInv' /\ TestInv'
    BY <1>1, TestStepIsLockStep, LockStepInv, TestInvStep
  <1>3. ASSUME NEW t \in Threads, ThreadStep(t) PROVE ApiInv' /\ ~aborted'
    <2>1. CASE BeginWrite(t) \/ LoadCounter(t) \/ BeginRead(t)
      <3>1. ~aborted'
        BY <1>1, <2>1 DEF BeginWrite, WriteLock, LoadCounter, BeginRead, ReadLockNoWait, lockVars
      <3>2. QED
        BY <1>1, <2>1, <3>1, ApiBegin
    <2>2. CASE StoreCounter(t)
      <3>1. ~aborted'
        BY <1>1, <2>2 DEF StoreCounter, lockVars
      <3>2. QED
        BY <1>1, <2>2, <3>1, ApiStore
    <2>3. CASE EndWrite(t)
      BY <1>1, <1>2, <2>3, ApiEndWrite
    <2>4. CASE InsideCall(t)
      BY <1>1, <2>4, ApiInsideCall
    <2>5. CASE EndRead(t)
      BY <1>1, <1>2, <2>5, ApiEndRead
    <2>6. QED
      BY <1>3, <2>1, <2>2, <2>3, <2>4, <2>5 DEF ThreadStep
  <1>4. ASSUME JoinAndSpawn PROVE ApiInv' /\ ~aborted'
    BY <1>1, <1>4, ApiJoin
  <1>5. ASSUME UNCHANGED vars PROVE ApiInv' /\ ~aborted'
    <2>1. UNCHANGED <<version, pc, seen, aborted, wrapped>> /\ UNCHANGED testVars
      BY <1>5 DEF vars, lockVars
    <2>2. \A t \in Threads : HasStored(t)' <=> HasStored(t)
      BY <2>1 DEF HasStored, testVars
    <2>3. Finished' = Finished /\ Incremented' = Incremented /\ Before' = Before
      BY <2>1, <2>2, SameCounts DEF testVars
    <2>4. CountInv'
      BY <1>1, <2>1, <2>3 DEF ApiInv, CountInv, InGroup, testVars, vlock
    <2>5. RoleInv' /\ ReadInv'
      BY <1>1, <2>1 DEF ApiInv, RoleInv, ReadInv, Writers, Readers, testVars, vlock
    <2>6. QED
      BY <1>1, <2>1, <2>4, <2>5 DEF ApiInv, testVars
  <1>6. ApiInv' /\ ~aborted'
    BY <1>3, <1>4, <1>5 DEF TestNext
  <1>7. QED
    BY <1>2, <1>6 DEF FullInv

(* For any number of threads and iterations the test passes: no assert of   *)
(* the lock or of test.cc:95 fails, and readers alone are never refused     *)
(* (test.cc:75-130).                                                        *)
THEOREM TestAlwaysPasses == TestSpec => []TestPasses
  <1>1. FullInv => TestPasses
    BY DEF FullInv, ApiInv, ReadInv, TestPasses, Running
  <1>2. QED
    BY <1>1, FullInit, FullStep, PTL DEF TestSpec

(* No increment is lost: when a group of threads has been joined the        *)
(* counter is the number of iterations of all the groups so far             *)
(* (test.cc:95).                                                            *)
THEOREM NoUpdateIsLost == TestSpec => []NoLostUpdate
  <1>1. FullInv => NoLostUpdate
    <2> SUFFICES ASSUME FullInv, Joined PROVE NoLostUpdate
      BY DEF NoLostUpdate
    <2>1. phase \in Phases /\ \A t \in Threads : left[t] = 0
      BY DEF FullInv, ApiInv, RoleInv, Joined
    <2>2. Incremented = AllWrites
      <3>1. \A q \in AllWrites : q[1] \in Threads /\ q[2] > 0
        BY TestAssumption DEF AllWrites
      <3>2. QED
        BY <2>1, <3>1 DEF Finished, Incremented
    <2>3. Cardinality(AllWrites) = Writes /\ Writes \in Nat
      BY WritesAreFinite
    <2>4. g_counter = (IF phase \in {"writers", "readers"} THEN Writes ELSE 2 * Writes)
      BY <2>1, <2>2, <2>3 DEF FullInv, ApiInv, CountInv, Before, InGroup, Phases
    <2>5. QED
      BY <2>4 DEF NoLostUpdate
  <1>2. QED
    BY <1>1, FullInit, FullStep, PTL DEF TestSpec

(* The counter stays within the iterations of two groups, in every register *)
(* that holds it as well (test.cc:33-62).                                   *)
THEOREM TestTypeCorrect == TestSpec => []TestTypeOK
  <1>1. FullInv => phase \in Phases /\ left \in [Threads -> Nat] /\ failed \in BOOLEAN
                   /\ step \in [Threads -> {"out", "loaded", "stored"}]
    BY DEF FullInv, ApiInv, RoleInv, TestInv
  <1>2. FullInv => g_counter \in 0 .. 2 * Writes
    <2> SUFFICES ASSUME FullInv PROVE g_counter \in 0 .. 2 * Writes
      OBVIOUS
    <2>1. Incremented \in SUBSET AllWrites
      BY DEF Incremented, Finished
    <2>2. Cardinality(Incremented) \in 0 .. Writes /\ Writes \in Nat
      BY <2>1, WritesAreFinite
    <2>3. g_counter = Before + InGroup(Incremented) /\ phase \in Phases
      BY DEF FullInv, ApiInv, RoleInv, CountInv
    <2>4. \/ phase # "done" /\ Before \in {0, Writes} /\ InGroup(Incremented) \in 0 .. Writes
          \/ Before = 2 * Writes /\ InGroup(Incremented) = 0
      BY <2>2, <2>3 DEF Before, InGroup, Phases
    <2>5. QED
      BY <2>2, <2>3, <2>4
  <1>3. TestInit => TestTypeOK
    <2> SUFFICES ASSUME TestInit PROVE TestTypeOK
      OBVIOUS
    <2>1. FullInv /\ Writes \in Nat
      BY FullInit, WritesAreFinite
    <2>2. 0 \in 0 .. 2 * Writes
      BY <2>1
    <2>3. local \in [Threads -> 0 .. 2 * Writes] /\ retried \in BOOLEAN
      BY <2>2 DEF TestInit
    <2>4. QED
      BY <1>1, <1>2, <2>1, <2>3 DEF TestTypeOK
  <1>4. TestTypeOK /\ FullInv /\ FullInv' /\ [TestNext]_vars => TestTypeOK'
    <2> SUFFICES ASSUME TestTypeOK, FullInv, FullInv', [TestNext]_vars PROVE TestTypeOK'
      OBVIOUS
    <2>1. phase \in Phases /\ left \in [Threads -> Nat] /\ failed \in BOOLEAN
      BY <1>1
    <2>2. /\ (phase \in Phases)' /\ (left \in [Threads -> Nat])' /\ (failed \in BOOLEAN)'
          /\ (step \in [Threads -> {"out", "loaded", "stored"}])'
          /\ (g_counter \in 0 .. 2 * Writes)'
      BY <1>1, <1>2, PTL
    <2>3. local' \in [Threads -> 0 .. 2 * Writes] /\ retried' \in BOOLEAN
      <3>1. ASSUME NEW t \in Threads, ThreadStep(t)
            PROVE  local' \in [Threads -> 0 .. 2 * Writes] /\ retried' \in BOOLEAN
        <4>1. \/ local' = local
              \/ local' = [local EXCEPT ![t] = g_counter]
          BY <3>1 DEF ThreadStep, BeginWrite, LoadCounter, StoreCounter, EndWrite,
                      InsideCall, BeginRead, EndRead, testVars
        <4>2. retried' = retried \/ retried' = (retried \/ pc'[t] = "refused")
          BY <3>1 DEF ThreadStep, BeginWrite, LoadCounter, StoreCounter, EndWrite,
                      InsideCall, BeginRead, EndRead, testVars
        <4>3. local' \in [Threads -> 0 .. 2 * Writes]
          BY <4>1 DEF TestTypeOK
        <4>4. QED
          BY <4>2, <4>3 DEF TestTypeOK
      <3>2. CASE JoinAndSpawn \/ UNCHANGED vars
        BY <3>2 DEF JoinAndSpawn, vars, testVars, TestTypeOK
      <3>3. QED
        BY <3>1, <3>2 DEF TestNext
    <2>4. QED
      BY <2>2, <2>3 DEF TestTypeOK, Writes, Phases
  <1>5. QED
    BY <1>3, <1>4, FullInit, FullStep, PTL DEF TestSpec

-----------------------------------------------------------------------------
(* The program as main runs it.                                            *)

(* The argument never changes. *)
MainInv == bench = TEST_VL_API => FullInv

(* With the API bench chosen, every step of the program is one of the test. *)
LEMMA MainStepIsTestStep ==
    [MainNext]_allVars => bench' = bench /\ (bench = TEST_VL_API => [TestNext]_vars)
  <1> SUFFICES ASSUME [MainNext]_allVars
               PROVE  bench' = bench /\ (bench = TEST_VL_API => [TestNext]_vars)
    OBVIOUS
  <1>1. ASSUME NEW t \in Threads, BenchThreadStep(t)
        PROVE  bench' = bench /\ (bench = TEST_VL_API => [TestNext]_vars)
    BY <1>1 DEF BenchThreadStep, TestNext, TEST_VL_API, TEST_VL_LIST, TEST_VL_HT
  <1>2. CASE MainStep
    BY <1>2 DEF MainStep, TestNext, TEST_VL_API, TEST_VL_LIST, TEST_VL_HT
  <1>3. CASE UNCHANGED allVars
    BY <1>3 DEF allVars
  <1>4. QED
    BY <1>1, <1>2, <1>3 DEF MainNext

(* The test's invariant holds throughout. *)
LEMMA MainInvariant == MainSpec => []MainInv
  <1>1. MainInit => MainInv
    BY FullInit DEF MainInit, MainInv
  <1>2. MainInv /\ [MainNext]_allVars => MainInv'
    BY MainStepIsTestStep, FullStep DEF MainInv, TEST_VL_API
  <1>3. QED
    BY <1>1, <1>2, PTL DEF MainSpec

(* The program given 0 as its second argument never aborts, and refuses no  *)
(* reader while there are no writers (test.cc:75-130, 367-386).             *)
THEOREM MainPassesApiTest == MainSpec => [](bench = TEST_VL_API => TestPasses)
  <1>1. MainInv => (bench = TEST_VL_API => TestPasses)
    BY DEF MainInv, FullInv, ApiInv, ReadInv, TestPasses, Running
  <1>2. QED
    BY <1>1, MainInvariant, PTL


-----------------------------------------------------------------------------
(***************************************************************************)
(* The hash table bench.  The table only gains values, and every value is  *)
(* its key; so a key that a thread has saved is found ever after.          *)
(***************************************************************************)
(* lookup(key) *)
HTQuery(k) == [kind |-> "lookup", key |-> k]

(* The calls and what they are about. *)
LEMMA HTKinds ==
    /\ HT!Table!NoOp.kind = "none"
    /\ \A k : /\ HTQuery(k).kind = "lookup" /\ HTQuery(k).key = k
              /\ HT!Insertion(k).kind = "insert"
              /\ HT!Insertion(k).key = k /\ HT!Insertion(k).val = k
  BY DEF HT!Table!NoOp, HTQuery, HT!Insertion

(* What a thread in a call is there for, and what it will be answered.      *)
HTCallInv(t) ==
    \/ op[t] = HT!Table!NoOp /\ answer[t] = Pending
    \/ \E k \in Keys :
          /\ HT!Writer(t) /\ htI[t] < HT_NODE_ADD /\ op[t] = HT!Insertion(k)
          /\ \/ answer[t] = Pending
             \/ answer[t] = TRUE /\ table[k] # <<>>
    \/ \E k \in Keys :
          /\ HT!Reader(t) /\ op[t] = HTQuery(k)
          /\ table[k] # <<>> /\ answer[t] \in {Pending, k}

HTTableInv ==
    /\ table \in [Keys -> Seq(Keys)]
    /\ \A k \in Keys : \A j \in DOMAIN table[k] : table[k][j] = k

HTKeysInv ==
    /\ DOMAIN htKeys = 0 .. n_threads
    /\ \A j \in 0 .. n_threads : htKeys[j] \in Seq(Keys)
    /\ \A j \in 0 .. n_threads : \A m \in DOMAIN htKeys[j] : table[htKeys[j][m]] # <<>>

HTInv ==
    /\ DOMAIN op = Threads /\ DOMAIN answer = Threads
    /\ htI \in [Threads -> Nat] /\ htGroup \in Phases
    /\ HTTableInv /\ HTKeysInv
    /\ \A t \in Threads : HTCallInv(t)

(* The sizes of main's loops. *)
LEMMA BenchSizes ==
    /\ n_threads \in Nat /\ n_threads >= 1 /\ HT_NODE_ADD \in Nat
    /\ LIST_INIT_SIZE \in Nat /\ N_NODE_ADD \in Nat /\ N_NODE_ADD_MIXED \in Nat
    /\ IsFiniteSet(1 .. LIST_INIT_SIZE)
    /\ Cardinality(1 .. LIST_INIT_SIZE) = LIST_INIT_SIZE
  <1>1. /\ n_threads \in Nat /\ n_threads >= 1 /\ HT_NODE_ADD \in Nat
        /\ LIST_INIT_SIZE \in Nat /\ N_NODE_ADD \in Nat /\ N_NODE_ADD_MIXED \in Nat
    BY ListBenchAssumption, TestProgramAssumption
  <1>2. 1 \in Int /\ LIST_INIT_SIZE \in Int
    BY <1>1
  <1>3. /\ IsFiniteSet(1 .. LIST_INIT_SIZE)
        /\ Cardinality(1 .. LIST_INIT_SIZE) =
               IF 1 > LIST_INIT_SIZE THEN 0 ELSE LIST_INIT_SIZE - 1 + 1
    BY <1>2, FS_Interval
  <1>4. QED
    BY <1>1, <1>3

(* The bench counts as everybody does. *)
LEMMA HTCardinality == \A S : HT!Cardinality(S) = Cardinality(S)
  BY DEF HT!Cardinality, Cardinality, HT!IsFiniteSet, IsFiniteSet

(* Nobody reads and writes in the same group. *)
LEMMA HTRoles ==
    ASSUME NEW t \in Threads
    PROVE  /\ ~(HT!Reader(t) /\ HT!Writer(t))
           /\ t \in Nat
           /\ HT!Writer(t) /\ htGroup = "writers" => t \in 0 .. n_threads - 1
  BY ListBenchAssumption DEF HT!Reader, HT!Writer

(* The vectors and the table when the bench begins. *)
LEMMA HTInvInit == MainInit => HTInv /\ htFailed = {}
  <1> SUFFICES ASSUME HT!HTBenchInit PROVE HTInv /\ htFailed = {}
    BY DEF MainInit
  <1>1. /\ HT!InitKeys \in Seq(Keys)
        /\ DOMAIN HT!InitKeys = 1 .. LIST_INIT_SIZE
    <2>1. DOMAIN HT!InitKeys = 1 .. LIST_INIT_SIZE /\ LIST_INIT_SIZE \in Nat
      BY ListBenchAssumption DEF HT!InitKeys
    <2>2. HT!InitKeys = [j \in 1 .. LIST_INIT_SIZE |-> HT!InitKeys[j]]
      BY DEF HT!InitKeys
    <2>3. QED
      BY <2>1, <2>2, HTBenchAssumption, IsASeq
  <1>2. ASSUME NEW k \in Keys
        PROVE  /\ HT!Copies(k) \in Nat
               /\ \A j \in DOMAIN HT!InitKeys : HT!InitKeys[j] = k => HT!Copies(k) # 0
    <2> DEFINE S == {j \in DOMAIN HT!InitKeys : HT!InitKeys[j] = k}
    <2>1. IsFiniteSet(1 .. LIST_INIT_SIZE)
      BY BenchSizes
    <2>2. IsFiniteSet(S)
      BY <1>1, <2>1, FS_Subset
    <2>3. Cardinality(S) \in Nat /\ (Cardinality(S) = 0 <=> S = {})
      BY <2>2, FS_CardinalityType, FS_EmptySet
    <2>4. HT!Copies(k) = Cardinality(S)
      BY HTCardinality DEF HT!Copies
    <2>5. QED
      BY <2>3, <2>4
  <1>3. table = [k \in Keys |-> [j \in 1 .. HT!Copies(k) |-> k]]
    BY DEF HT!HTBenchInit
  <1>4. ASSUME NEW k \in Keys
        PROVE  /\ table[k] \in Seq(Keys) /\ DOMAIN table[k] = 1 .. HT!Copies(k)
               /\ \A j \in DOMAIN table[k] : table[k][j] = k
    <2>1. table[k] = [j \in 1 .. HT!Copies(k) |-> k]
      BY <1>3
    <2>2. QED
      BY <1>2, <2>1, IsASeq
  <1>5. HTTableInv
    BY <1>3, <1>4 DEF HTTableInv
  <1>6. HTKeysInv
    <2>1. htKeys = [j \in 0 .. n_threads |-> IF j = n_threads THEN HT!InitKeys ELSE <<>>]
      BY DEF HT!HTBenchInit
    <2>2. n_threads \in Nat
      BY ListBenchAssumption
    <2>3. \A j \in 0 .. n_threads : htKeys[j] \in Seq(Keys)
      BY <1>1, <2>1, EmptySeq
    <2>4. ASSUME NEW m \in DOMAIN HT!InitKeys PROVE table[HT!InitKeys[m]] # <<>>
      <3>1. HT!InitKeys[m] \in Keys
        BY HTBenchAssumption
      <3>2. HT!Copies(HT!InitKeys[m]) \in Nat \ {0}
        BY <1>2, <3>1
      <3>3. 1 \in DOMAIN table[HT!InitKeys[m]]
        BY <1>4, <3>1, <3>2
      <3>4. QED
        BY <3>3
    <2>5. QED
      BY <2>1, <2>2, <2>3, <2>4 DEF HTKeysInv
  <1>7. QED
    BY <1>5, <1>6 DEF HT!HTBenchInit, HTInv, HTCallInv, Phases

(* A thread's own step leaves the calls and loops of the others alone. *)
LEMMA HTFrame ==
    ASSUME HTInv, NEW t \in Threads, HT!ThreadStep(t)
    PROVE  /\ UNCHANGED htGroup
           /\ DOMAIN op' = Threads /\ DOMAIN answer' = Threads /\ htI' \in [Threads -> Nat]
           /\ \A u \in Threads \ {t} : UNCHANGED <<op[u], answer[u], htI[u]>>
  <1> USE DEF HTInv
  <1>1. CASE HT!CallInsert(t) \/ HT!CallLookup(t)
    BY <1>1 DEF HT!CallInsert, HT!CallLookup, HT!Table!Invoke
  <1>2. CASE HT!ReadNoVector(t)
    BY <1>2 DEF HT!ReadNoVector, HT!tableVars
  <1>3. CASE HT!InsideCall(t)
    BY <1>3 DEF HT!InsideCall, HT!Table!Insert, HT!Table!Lookup
  <1>4. CASE HT!EndCall(t)
    BY <1>4 DEF HT!EndCall, HT!Table!Return
  <1>5. QED
    BY <1>1, <1>2, <1>3, <1>4 DEF HT!ThreadStep

(* A step that takes no value from the table keeps the calls of the others. *)
LEMMA HTOthers ==
    ASSUME HTInv, NEW t \in Threads, HT!ThreadStep(t), HTCallInv(t)',
           \A k \in Keys : table[k] # <<>> => table'[k] # <<>>
    PROVE  \A u \in Threads : HTCallInv(u)'
  <1> SUFFICES ASSUME NEW u \in Threads \ {t} PROVE HTCallInv(u)'
    OBVIOUS
  <1>1. UNCHANGED <<htGroup, op[u], answer[u], htI[u]>>
    BY HTFrame
  <1>2. HTCallInv(u)
    BY DEF HTInv
  <1>3. HT!Writer(u)' = HT!Writer(u) /\ HT!Reader(u)' = HT!Reader(u)
    BY <1>1 DEF HT!Writer, HT!Reader
  <1>4. QED
    BY <1>1, <1>2, <1>3 DEF HTCallInv

(* Calls. *)
LEMMA HTCall ==
    ASSUME HTInv, NEW t \in Threads, HT!CallInsert(t) \/ HT!CallLookup(t)
    PROVE  HTInv' /\ htFailed' = htFailed
  <1>1. /\ UNCHANGED <<table, answer, htGroup, htKeys, htI, htFailed>>
        /\ op[t] = HT!Table!NoOp
        /\ \E o \in HT!Table!Ops : op' = [op EXCEPT ![t] = o]
    BY DEF HT!CallInsert, HT!CallLookup, HT!Table!Invoke, HT!Iterates
  <1>2. PICK o \in HT!Table!Ops : op' = [op EXCEPT ![t] = o]
    BY <1>1
  <1>3. op'[t] = o /\ answer'[t] = Pending
    BY <1>1, <1>2, HTKinds DEF HTInv, HTCallInv
  <1>4. HTCallInv(t)'
    <2>1. HT!Writer(t)' = HT!Writer(t) /\ HT!Reader(t)' = HT!Reader(t)
      BY <1>1 DEF HT!Writer, HT!Reader
    <2>2. CASE HT!CallInsert(t)
      <3>1. HT!Writer(t) /\ htI[t] < HT_NODE_ADD
        BY <2>2, HTRoles DEF HT!CallInsert, HT!Iterates, HT!Count
      <3>2. PICK k : o = HT!Insertion(k)
        BY <1>2, <1>3, <2>2 DEF HT!CallInsert
      <3>3. k \in Keys
        BY <3>2 DEF HT!Table!Ops, HT!Insertion
      <3>4. QED
        BY <1>1, <1>3, <2>1, <3>1, <3>2, <3>3 DEF HTCallInv
    <2>3. CASE HT!CallLookup(t)
      <3>1. HT!Reader(t) /\ t \in 0 .. n_threads /\ htI[t] < Len(htKeys[t])
        BY <2>3, HTRoles DEF HT!CallLookup, HT!Iterates, HT!Count, HT!HasVector, HTInv, HTKeysInv
      <3>2. htKeys[t] \in Seq(Keys) /\ htI[t] \in Nat
        BY <3>1 DEF HTInv, HTKeysInv
      <3>3. htI[t] + 1 \in DOMAIN htKeys[t]
        BY <3>1, <3>2
      <3>4. PICK k : k = htKeys[t][htI[t] + 1]
        OBVIOUS
      <3>5. k \in Keys /\ table[k] # <<>>
        BY <3>1, <3>2, <3>3, <3>4, ElementOfSeq DEF HTInv, HTKeysInv
      <3>6. o = HTQuery(k)
        BY <1>2, <1>3, <2>3, <3>4 DEF HT!CallLookup, HTQuery
      <3>7. QED
        BY <1>1, <1>3, <2>1, <3>1, <3>5, <3>6 DEF HTCallInv
    <2>4. QED
      BY <2>2, <2>3
  <1>5. HTTableInv' /\ HTKeysInv'
    BY <1>1 DEF HTInv, HTTableInv, HTKeysInv
  <1>6. HT!ThreadStep(t)
    BY DEF HT!ThreadStep
  <1>7. QED
    BY <1>1, <1>4, <1>5, <1>6, HTFrame, HTOthers DEF HTInv

(* The table at work on a call: a value in front of the others, or the      *)
(* newest of them for an answer.                                           *)
LEMMA HTInside ==
    ASSUME HTInv, NEW t \in Threads, HT!InsideCall(t)
    PROVE  /\ HTInv' /\ htFailed' = htFailed
           /\ \/ table' = table /\ op[t].kind = "lookup"
              \/ \E k \in Keys :
                    /\ op[t] = HT!Insertion(k) /\ HT!Writer(t)
                    /\ answer[t] = Pending /\ answer'[t] = TRUE
                    /\ table' = [table EXCEPT ![k] = <<k>> \o @]
  <1>1. HTCallInv(t) /\ HTTableInv /\ HTKeysInv /\ answer[t] = Pending
    BY DEF HTInv, HT!InsideCall
  <1>2. UNCHANGED <<op, htGroup, htKeys, htI, htFailed>>
    BY DEF HT!InsideCall, HT!Table!Insert, HT!Table!Lookup
  <1>3. HT!Writer(t)' = HT!Writer(t) /\ HT!Reader(t)' = HT!Reader(t)
    BY <1>2 DEF HT!Writer, HT!Reader
  <1>4. HT!ThreadStep(t)
    BY DEF HT!ThreadStep
  <1>5. CASE HT!Table!Insert(t)
    <2>1. PICK k \in Keys : HT!Writer(t) /\ htI[t] < HT_NODE_ADD /\ op[t] = HT!Insertion(k)
      BY <1>1, <1>5, HTKinds DEF HTCallInv, HT!Table!Insert
    <2>2. table' = [table EXCEPT ![k] = <<k>> \o @] /\ answer' = [answer EXCEPT ![t] = TRUE]
      <3>1. op[t].key = k /\ op[t].val = k
        BY <2>1, HTKinds
      <3>2. /\ table' = [table EXCEPT ![op[t].key] = <<op[t].val>> \o @]
            /\ answer' = [answer EXCEPT ![t] = TRUE]
        BY <1>5 DEF HT!Table!Insert
      <3>3. QED
        BY <3>1, <3>2
    <2>3. table[k] \in Seq(Keys)
      BY <1>1 DEF HTTableInv
    <2> DEFINE s == <<k>> \o table[k]
    <2>4. /\ s \in Seq(Keys) /\ Len(s) = Len(table[k]) + 1 /\ Len(table[k]) \in Nat
          /\ \A j \in 1 .. Len(s) : s[j] = IF j = 1 THEN k ELSE table[k][j - 1]
      <3>1. <<k>> \in Seq(Keys) /\ Len(<<k>>) = 1 /\ <<k>>[1] = k
        OBVIOUS
      <3> HIDE DEF s
      <3>2. /\ s \in Seq(Keys) /\ Len(s) = Len(<<k>>) + Len(table[k])
            /\ \A j \in 1 .. Len(<<k>>) + Len(table[k]) :
                  s[j] = IF j <= Len(<<k>>) THEN <<k>>[j] ELSE table[k][j - Len(<<k>>)]
        BY <2>3, <3>1, ConcatProperties DEF s
      <3>3. Len(table[k]) \in Nat
        BY <2>3, LenProperties
      <3>4. QED
        BY <3>1, <3>2, <3>3
    <2>5. s # <<>> /\ \A j \in DOMAIN s : s[j] = k
      <3>1. \A j \in 1 .. Len(table[k]) : table[k][j] = k
        BY <1>1, <2>3, LenProperties DEF HTTableInv
      <3> HIDE DEF s
      <3>2. DOMAIN s = 1 .. Len(s) /\ Len(s) # 0
        BY <2>4, LenProperties
      <3>3. ASSUME NEW j \in 1 .. Len(s) PROVE s[j] = k
        <4>1. j = 1 \/ j - 1 \in 1 .. Len(table[k])
          BY <2>4
        <4>2. s[j] = IF j = 1 THEN k ELSE table[k][j - 1]
          BY <2>4
        <4>3. QED
          BY <3>1, <4>1, <4>2
      <3>4. s # <<>>
        BY <3>2
      <3>5. QED
        BY <3>2, <3>3, <3>4
    <2> HIDE DEF s
    <2>6. table' = [table EXCEPT ![k] = s]
      BY <2>2 DEF s
    <2>7. HTTableInv'
      BY <1>1, <2>4, <2>5, <2>6 DEF HTTableInv
    <2>8. \A j \in Keys : table[j] # <<>> => table'[j] # <<>>
      BY <1>1, <2>5, <2>6 DEF HTTableInv
    <2>9. HTKeysInv'
      <3>1. \A j \in 0 .. n_threads : \A m \in DOMAIN htKeys[j] : htKeys[j][m] \in Keys
        BY <1>1, ElementOfSeq, LenProperties DEF HTKeysInv
      <3>2. QED
        BY <1>1, <1>2, <2>8, <3>1 DEF HTKeysInv
    <2>10. answer'[t] = TRUE /\ DOMAIN answer' = Threads /\ table'[k] # <<>>
      BY <1>1, <2>2, <2>5, <2>6 DEF HTInv, HTTableInv
    <2>11. HTCallInv(t)'
      BY <1>2, <1>3, <2>1, <2>10 DEF HTCallInv
    <2>12. QED
      BY <1>1, <1>2, <1>4, <2>1, <2>2, <2>7, <2>8, <2>9, <2>10, <2>11, HTFrame, HTOthers DEF HTInv
  <1>6. CASE HT!Table!Lookup(t)
    <2>1. PICK k \in Keys : /\ HT!Reader(t) /\ op[t] = HTQuery(k)
                            /\ table[k] # <<>>
      BY <1>1, <1>6, HTKinds DEF HTCallInv, HT!Table!Lookup
    <2>2. table' = table /\ answer' = [answer EXCEPT ![t] = Head(table[k])]
      <3>1. op[t].key = k
        BY <2>1, HTKinds
      <3>2. HT!Table!Newest(k) = Head(table[k])
        BY <2>1 DEF HT!Table!Newest
      <3>3. table' = table /\ answer' = [answer EXCEPT ![t] = HT!Table!Newest(k)]
        BY <1>6, <3>1 DEF HT!Table!Lookup
      <3>4. QED
        BY <3>2, <3>3
    <2>3. Head(table[k]) = k
      BY <1>1, <2>1 DEF HTTableInv
    <2>4. HTCallInv(t)'
      BY <1>2, <1>3, <2>1, <2>2, <2>3 DEF HTCallInv, HTInv
    <2>5. HTTableInv' /\ HTKeysInv'
      BY <1>1, <1>2, <2>2 DEF HTTableInv, HTKeysInv
    <2>6. QED
      BY <1>1, <1>2, <1>4, <2>1, <2>2, <2>4, <2>5, HTFrame, HTOthers, HTKinds DEF HTInv
  <1>7. QED
    BY <1>5, <1>6 DEF HT!InsideCall

(* A call returns: what is saved is in the table, what was looked up found. *)
LEMMA HTEndCall ==
    ASSUME HTInv, NEW t \in Threads, HT!EndCall(t)
    PROVE  HTInv' /\ htFailed' = {} /\ table' = table
  <1>1. /\ UNCHANGED <<table, htGroup>> /\ op[t] # HT!Table!NoOp /\ answer[t] # Pending
        /\ op' = [op EXCEPT ![t] = HT!Table!NoOp] /\ answer' = [answer EXCEPT ![t] = Pending]
        /\ htFailed' = IF op[t].kind = "lookup" /\ answer[t] # op[t].key THEN {t} ELSE {}
    BY DEF HT!EndCall, HT!Table!Return
  <1>2. HTCallInv(t) /\ HTTableInv /\ HTKeysInv
    BY DEF HTInv
  <1>3. \/ \E k \in Keys : HT!Writer(t) /\ op[t] = HT!Insertion(k) /\ table[k] # <<>>
        \/ \E k \in Keys : op[t] = HTQuery(k) /\ answer[t] = k
    <2>1. op[t] # HT!Table!NoOp /\ answer[t] # Pending
      BY <1>1
    <2>2. QED
      BY <1>2, <2>1 DEF HTCallInv
  <1>4. htFailed' = {}
    <2>1. op[t].kind = "lookup" => answer[t] = op[t].key
      BY <1>3, HTKinds
    <2>2. QED
      BY <1>1, <2>1
  <1>5. HTKeysInv'
    <2>1. CASE op[t].kind = "insert" /\ htGroup = "writers"
      <3>1. PICK k \in Keys : HT!Writer(t) /\ op[t] = HT!Insertion(k) /\ table[k] # <<>>
        BY <1>3, <2>1, HTKinds
      <3>2. t \in 0 .. n_threads
        BY <2>1, <3>1, HTRoles, ListBenchAssumption
      <3>3. htKeys' = [htKeys EXCEPT ![t] = Append(htKeys[t], k)]
        BY <1>2, <2>1, <3>1, <3>2, HTKinds DEF HT!EndCall, HTKeysInv
      <3>4. htKeys[t] \in Seq(Keys)
        BY <1>2, <3>2 DEF HTKeysInv
      <3> DEFINE s == Append(htKeys[t], k)
      <3>5. s \in Seq(Keys) /\ \A m \in DOMAIN s : table[s[m]] # <<>>
        <4>1. /\ s \in Seq(Keys) /\ Len(s) = Len(htKeys[t]) + 1 /\ s[Len(htKeys[t]) + 1] = k
              /\ \A m \in 1 .. Len(htKeys[t]) : s[m] = htKeys[t][m]
          BY <3>4, AppendProperties
        <4>2. \A m \in 1 .. Len(htKeys[t]) : table[htKeys[t][m]] # <<>>
          BY <1>2, <3>2, <3>4, LenProperties DEF HTKeysInv
        <4>3. Len(htKeys[t]) \in Nat
          BY <3>4, LenProperties
        <4> HIDE DEF s
        <4>4. \A m \in 1 .. Len(s) : m \in 1 .. Len(htKeys[t]) \/ m = Len(htKeys[t]) + 1
          BY <4>1, <4>3
        <4>5. \A m \in 1 .. Len(s) : table[s[m]] # <<>>
          BY <3>1, <4>1, <4>2, <4>4
        <4>6. DOMAIN s = 1 .. Len(s)
          BY <4>1, LenProperties
        <4>7. QED
          BY <4>1, <4>5, <4>6
      <3> HIDE DEF s
      <3>6. htKeys' = [htKeys EXCEPT ![t] = s]
        BY <3>3 DEF s
      <3>7. QED
        BY <1>1, <1>2, <3>5, <3>6 DEF HTKeysInv
    <2>2. CASE ~(op[t].kind = "insert" /\ htGroup = "writers")
      BY <1>1, <1>2, <2>2 DEF HT!EndCall, HTKeysInv
    <2>3. QED
      BY <2>1, <2>2
  <1>6. HTCallInv(t)'
    BY <1>1 DEF HTCallInv, HTInv
  <1>7. HTTableInv'
    BY <1>1, <1>2 DEF HTTableInv
  <1>8. HT!ThreadStep(t)
    BY DEF HT!ThreadStep
  <1>9. QED
    BY <1>1, <1>4, <1>5, <1>6, <1>7, <1>8, HTFrame, HTOthers DEF HTInv

(* Whatever a reader without a vector finds, the table is not concerned.    *)
LEMMA HTNoVector ==
    ASSUME HTInv, NEW t \in Threads, HT!ReadNoVector(t)
    PROVE  /\ HTInv' /\ table' = table
           /\ htFailed' \subseteq {t} /\ ~HT!HasVector(t)'
  <1>1. /\ UNCHANGED <<table, op, answer, htGroup, htKeys>>
        /\ ~HT!HasVector(t) /\ op[t] = HT!Table!NoOp /\ htFailed' \subseteq {t}
    BY DEF HT!ReadNoVector, HT!tableVars, HT!Iterates
  <1>2. HT!ThreadStep(t)
    BY DEF HT!ThreadStep
  <1>3. HTCallInv(t)' /\ HTTableInv' /\ HTKeysInv'
    BY <1>1, HTKinds DEF HTInv, HTCallInv, HTTableInv, HTKeysInv
  <1>4. QED
    BY <1>1, <1>2, <1>3, HTFrame, HTOthers DEF HTInv, HT!HasVector

(* The next group.  All calls have returned.                               *)
LEMMA HTJoin ==
    ASSUME HTInv, HT!JoinAndSpawn
    PROVE  HTInv' /\ UNCHANGED <<table, op, answer, htKeys, htFailed>>
  <1>1. /\ UNCHANGED <<table, op, answer, htKeys, htFailed>>
        /\ htGroup' \in Phases /\ htI' = [t \in Threads |-> 0]
        /\ \A t \in Threads : op[t] = HT!Table!NoOp
    BY DEF HT!JoinAndSpawn, HT!tableVars, HT!Joined, Phases, HTInv
  <1>2. \A t \in Threads : HTCallInv(t)'
    BY <1>1, HTKinds DEF HTInv, HTCallInv
  <1>3. QED
    BY <1>1, <1>2 DEF HTInv, HTTableInv, HTKeysInv

(* With another bench chosen, and when the assert has failed, nothing moves. *)
LEMMA HTMainStep ==
    ASSUME [MainNext]_allVars
    PROVE  \/ UNCHANGED htVars
           \/ htFailed = {} /\ ((\E t \in Threads : HT!ThreadStep(t)) \/ HT!JoinAndSpawn)
  <1>1. CASE MainNext
    BY <1>1 DEF MainNext, BenchThreadStep, MainStep
  <1>2. QED
    BY <1>1 DEF allVars

LEMMA HTUntouched ==
    ASSUME HTInv, UNCHANGED htVars
    PROVE  HTInv'
  BY DEF HTInv, htVars, HTTableInv, HTKeysInv, HTCallInv, HT!Writer, HT!Reader

LEMMA HTStep ==
    ASSUME HTInv, HTSavedKeysAreFound, [MainNext]_allVars
    PROVE  HTInv' /\ HTSavedKeysAreFound'
  <1> USE DEF HTSavedKeysAreFound, HT!SavedKeysAreFound
  <1>1. CASE UNCHANGED htVars
    BY <1>1, HTUntouched DEF htVars, HT!HasVector
  <1>2. CASE htFailed = {} /\ HT!JoinAndSpawn
    BY <1>2, HTJoin
  <1>3. ASSUME htFailed = {}, NEW t \in Threads, HT!ThreadStep(t)
        PROVE  HTInv' /\ HTSavedKeysAreFound'
    <2>1. CASE HT!CallInsert(t) \/ HT!CallLookup(t)
      BY <1>3, <2>1, HTCall
    <2>2. CASE HT!ReadNoVector(t)
      BY <2>2, HTNoVector
    <2>3. CASE HT!InsideCall(t)
      BY <1>3, <2>3, HTInside
    <2>4. CASE HT!EndCall(t)
      BY <2>4, HTEndCall
    <2>5. QED
      BY <1>3, <2>1, <2>2, <2>3, <2>4 DEF HT!ThreadStep
  <1>4. QED
    BY <1>1, <1>2, <1>3, HTMainStep

(* A key that was saved is found, with its value, in every lookup of every  *)
(* group, whatever is inserted at the same time; the assert fails only in a *)
(* reader that main gave no vector (test.cc:199-202, 272-282).              *)
THEOREM SavedKeysStayFound == MainSpec => []HTSavedKeysAreFound
  <1>1. MainInit => HTInv /\ HTSavedKeysAreFound
    BY HTInvInit DEF HTSavedKeysAreFound, HT!SavedKeysAreFound
  <1>2. QED
    BY <1>1, HTStep, PTL DEF MainSpec


-----------------------------------------------------------------------------
(***************************************************************************)
(* No insert into the table is lost.  An insert is a pair of a writer and  *)
(* the number of its iteration; the table has a node for each of those     *)
(* that are done, and for what was there at first.                         *)
(***************************************************************************)
(* The pairs of a group's writers W and the iterations of their loops.      *)
LEMMA PairsAreFinite ==
    ASSUME NEW W, IsFiniteSet(W), NEW N \in Nat
    PROVE  /\ IsFiniteSet(W \X (0 .. N - 1))
           /\ Cardinality(W \X (0 .. N - 1)) = Cardinality(W) * N
           /\ Cardinality(W) \in Nat
  <1>1. 0 \in Int /\ N - 1 \in Int
    OBVIOUS
  <1>2. /\ IsFiniteSet(0 .. N - 1)
        /\ Cardinality(0 .. N - 1) = IF 0 > N - 1 THEN 0 ELSE N - 1 - 0 + 1
    BY <1>1, FS_Interval
  <1>3. IsFiniteSet(0 .. N - 1) /\ Cardinality(0 .. N - 1) = N
    BY <1>2
  <1>4. QED
    BY <1>3, FS_Product, FS_CardinalityType

HTWriters == {t \in Threads : HT!Writer(t)}

HTInserts == HTWriters \X (0 .. HT_NODE_ADD - 1)

HTIsDone(t, j) == j < htI[t] \/ (j = htI[t] /\ op[t].kind = "insert" /\ answer[t] = TRUE)

HTDone == {p \in HTInserts : HTIsDone(p[1], p[2])}

(* What the earlier groups have inserted. *)
HTBefore ==
    CASE htGroup = "writers" -> 0
      [] htGroup = "done" -> 2 * (n_threads * HT_NODE_ADD)
      [] OTHER -> n_threads * HT_NODE_ADD

HTCountInv ==
    /\ IsFiniteSet(HT!HTNodes)
    /\ Cardinality(HT!HTNodes) = LIST_INIT_SIZE + HTBefore + Cardinality(HTDone)

(* Either group of writers has n_threads of them; the even numbers are as   *)
(* many as their halves.                                                    *)
LEMMA HTWritersCounted ==
    /\ IsFiniteSet(HTWriters)
    /\ htGroup \in {"writers", "both"} => Cardinality(HTWriters) = n_threads
    /\ htGroup \in {"readers", "done"} => HTWriters = {}
  <1>1. n_threads \in Nat /\ n_threads >= 1 /\ Threads = 0 .. 2 * n_threads - 1
    BY ListBenchAssumption
  <1>2. /\ IsFiniteSet(0 .. n_threads - 1) /\ Cardinality(0 .. n_threads - 1) = n_threads
    <2>1. 0 \in Int /\ n_threads - 1 \in Int
      BY <1>1
    <2>2. /\ IsFiniteSet(0 .. n_threads - 1)
          /\ Cardinality(0 .. n_threads - 1) =
                 IF 0 > n_threads - 1 THEN 0 ELSE n_threads - 1 - 0 + 1
      BY <2>1, FS_Interval
    <2>3. QED
      BY <1>1, <2>2
  <1>3. IsFiniteSet(HTWriters)
    BY TestAssumption, FS_Subset DEF HTWriters
  <1>4. CASE htGroup = "writers"
    <2>1. HTWriters = 0 .. n_threads - 1
      BY <1>1, <1>4 DEF HTWriters, HT!Writer
    <2>2. QED
      BY <1>2, <1>3, <1>4, <2>1
  <1>5. CASE htGroup = "both"
    <2> DEFINE f == [j \in 0 .. n_threads - 1 |-> 2 * j]
    <2>1. HTWriters = {t \in 0 .. 2 * n_threads - 1 : t % 2 = 0}
      BY <1>1, <1>5 DEF HTWriters, HT!Writer
    <2>2. ASSUME NEW t \in HTWriters PROVE \E j \in 0 .. n_threads - 1 : f[j] = t
      <3>1. t \in Nat /\ t <= 2 * n_threads - 1 /\ t % 2 = 0
        BY <1>1, <2>1
      <3>2. PICK j \in Nat : t = 2 * j
        BY <3>1
      <3>3. j \in 0 .. n_threads - 1
        BY <1>1, <3>1, <3>2
      <3>4. QED
        BY <3>2, <3>3
    <2>3. f \in [0 .. n_threads - 1 -> HTWriters]
      BY <1>1, <2>1
    <2>4. f \in Bijection(0 .. n_threads - 1, HTWriters)
      <3>1. \A i, j \in 0 .. n_threads - 1 : f[i] = f[j] => i = j
        OBVIOUS
      <3>2. QED
        BY <2>2, <2>3, <3>1, Fun_IsBij
    <2>5. Cardinality(HTWriters) = n_threads
      BY <1>2, <2>4, FS_Bijection DEF ExistsBijection
    <2>6. QED
      BY <1>3, <1>5, <2>5
  <1>6. CASE htGroup \notin {"writers", "both"}
    BY <1>3, <1>6 DEF HTWriters, HT!Writer
  <1>7. QED
    BY <1>4, <1>5, <1>6

(* A node is one of a key, with its depth. *)
LEMMA HTNodesAre ==
    \A p : p \in HT!HTNodes <=> \E k \in Keys : \E j \in DOMAIN table[k] : p = <<k, j>>
  <1> SUFFICES ASSUME NEW p
               PROVE  p \in HT!HTNodes <=>
                          \E k \in Keys : \E j \in DOMAIN table[k] : p = <<k, j>>
    OBVIOUS
  <1>1. p \in HT!HTNodes <=> \E k \in Keys : p \in {k} \X DOMAIN table[k]
    BY DEF HT!HTNodes
  <1>2. QED
    BY <1>1

(* The nodes main has inserted itself. *)
LEMMA HTCountInit == MainInit => HTCountInv
  <1> SUFFICES ASSUME MainInit PROVE HTCountInv
    OBVIOUS
  <1> DEFINE K == HT!InitKeys
             I == 1 .. LIST_INIT_SIZE
             S(k) == {j \in I : K[j] = k}
  <1>1. IsFiniteSet(I) /\ Cardinality(I) = LIST_INIT_SIZE
    BY BenchSizes
  <1>2. DOMAIN K = I /\ \A j \in I : K[j] \in Keys
    <2>1. DOMAIN K = I
      BY DEF HT!InitKeys
    <2>2. QED
      BY <2>1, HTBenchAssumption
  <1>3. ASSUME NEW k \in Keys
        PROVE  DOMAIN table[k] = 1 .. HT!Copies(k) /\ Bijection(1 .. HT!Copies(k), S(k)) # {}
    <2>1. IsFiniteSet(S(k))
      BY <1>1, FS_Subset
    <2>2. ExistsBijection(1 .. Cardinality(S(k)), S(k))
      BY <2>1, FS_CardinalityType
    <2>3. HT!Copies(k) = Cardinality(S(k))
      BY <1>2, HTCardinality DEF HT!Copies
    <2>4. table[k] = [j \in 1 .. HT!Copies(k) |-> k]
      BY DEF MainInit, HT!HTBenchInit
    <2>5. QED
      BY <2>2, <2>3, <2>4 DEF ExistsBijection
  <1> DEFINE b == [k \in Keys |-> CHOOSE f : f \in Bijection(1 .. HT!Copies(k), S(k))]
             F == [p \in HT!HTNodes |-> b[p[1]][p[2]]]
  <1>4. ASSUME NEW k \in Keys
        PROVE  /\ \A i \in 1 .. HT!Copies(k) : b[k][i] \in I /\ K[b[k][i]] = k
               /\ \A i, j \in 1 .. HT!Copies(k) : b[k][i] = b[k][j] => i = j
               /\ \A m \in I : K[m] = k => \E j \in 1 .. HT!Copies(k) : b[k][j] = m
    <2>1. b[k] \in Bijection(1 .. HT!Copies(k), S(k))
      BY <1>3
    <2>2. PICK D, T, f : D = 1 .. HT!Copies(k) /\ T = S(k) /\ f = b[k]
      OBVIOUS
    <2>3. f \in Bijection(D, T)
      BY <2>1, <2>2
    <2>4. /\ f \in [D -> T] /\ \A i, j \in D : f[i] = f[j] => i = j
          /\ \A m \in T : \E j \in D : f[j] = m
      BY ONLY <2>3, Fun_BijectionProperties
    <2>5. \A m : m \in T <=> m \in I /\ K[m] = k
      BY <2>2
    <2> HIDE DEF b, S, I, K
    <2>6. QED
      BY <2>2, <2>4, <2>5
  <1>5. \A p : p \in HT!HTNodes <=>
            \E k \in Keys : \E j \in 1 .. HT!Copies(k) : p = <<k, j>>
    <2>1. \A k \in Keys : DOMAIN table[k] = 1 .. HT!Copies(k)
      BY <1>3
    <2> HIDE DEF S
    <2>2. QED
      BY <2>1, HTNodesAre
  <1> HIDE DEF b, K
  <1>6. F \in Bijection(HT!HTNodes, I)
    <2>1. ASSUME NEW p \in HT!HTNodes PROVE F[p] \in I
      <3>1. PICK k \in Keys : \E i \in 1 .. HT!Copies(k) : p = <<k, i>>
        BY <1>5
      <3>2. PICK i \in 1 .. HT!Copies(k) : p = <<k, i>>
        BY <3>1
      <3>3. b[k][i] \in I
        BY <1>4
      <3>4. QED
        BY <3>2, <3>3
    <2>2. ASSUME NEW p \in HT!HTNodes, NEW q \in HT!HTNodes, F[p] = F[q] PROVE p = q
      <3>1. PICK k \in Keys : \E i \in 1 .. HT!Copies(k) : p = <<k, i>>
        BY <1>5
      <3>2. PICK i \in 1 .. HT!Copies(k) : p = <<k, i>>
        BY <3>1
      <3>3. PICK l \in Keys : \E j \in 1 .. HT!Copies(l) : q = <<l, j>>
        BY <1>5
      <3>4. PICK j \in 1 .. HT!Copies(l) : q = <<l, j>>
        BY <3>3
      <3>5. F[p] = b[k][i] /\ F[q] = b[l][j]
        BY <3>2, <3>4
      <3>6. K[b[k][i]] = k /\ K[b[l][j]] = l
        BY <1>4
      <3>7. k = l
        BY <2>2, <3>5, <3>6
      <3>8. QED
        BY <1>4, <2>2, <3>2, <3>4, <3>5, <3>7
    <2>3. ASSUME NEW m \in I PROVE \E p \in HT!HTNodes : F[p] = m
      <3>1. K[m] \in Keys
        BY <1>2
      <3>2. PICK j \in 1 .. HT!Copies(K[m]) : b[K[m]][j] = m
        BY <1>4, <3>1
      <3>3. <<K[m], j>> \in HT!HTNodes
        BY <1>5, <3>1
      <3>4. F[<<K[m], j>>] = m
        BY <3>2, <3>3
      <3>5. QED
        BY <3>3, <3>4
    <2>4. F \in [HT!HTNodes -> I]
      BY <2>1
    <2> HIDE DEF F
    <2>5. QED
      BY <2>2, <2>3, <2>4, Fun_IsBij
  <1>7. IsFiniteSet(HT!HTNodes) /\ Cardinality(HT!HTNodes) = LIST_INIT_SIZE
    <2>1. ExistsBijection(HT!HTNodes, I)
      BY <1>6 DEF ExistsBijection
    <2>2. ExistsBijection(I, HT!HTNodes)
      BY <2>1, Fun_ExistsBijSymmetric
    <2>3. QED
      BY <1>1, <2>2, FS_Bijection
  <1>8. HTBefore = 0 /\ HTDone = {}
    <2>1. /\ htGroup = "writers" /\ \A t \in Threads : op[t] = HT!Table!NoOp /\ htI[t] = 0
      BY DEF MainInit, HT!HTBenchInit
    <2>2. ASSUME NEW p \in HTInserts PROVE ~HTIsDone(p[1], p[2])
      <3>1. p[1] \in Threads /\ p[2] \in Nat
        BY <2>2, BenchSizes DEF HTInserts, HTWriters
      <3>2. QED
        BY <2>1, <3>1, HTKinds DEF HTIsDone
    <2>3. QED
      BY <2>1, <2>2 DEF HTBefore, HTDone
  <1>9. Cardinality(HTDone) = 0
    BY <1>8, FS_EmptySet
  <1>10. QED
    BY <1>7, <1>8, <1>9, BenchSizes DEF HTCountInv

(* The first insert into key k's values. *)
LEMMA HTNodeAdded ==
    ASSUME HTInv, HTCountInv, NEW k \in Keys, table' = [table EXCEPT ![k] = <<k>> \o @]
    PROVE  /\ IsFiniteSet(HT!HTNodes)'
           /\ Cardinality(HT!HTNodes)' = Cardinality(HT!HTNodes) + 1
           /\ Cardinality(HT!HTNodes) \in Nat
  <1>1. table \in [Keys -> Seq(Keys)]
    BY DEF HTInv, HTTableInv
  <1> DEFINE n == Len(table[k])
             s == <<k>> \o table[k]
             new == <<k, n + 1>>
  <1>2. table[k] \in Seq(Keys) /\ n \in Nat /\ DOMAIN table[k] = 1 .. n
    BY <1>1, LenProperties
  <1>3. DOMAIN s = 1 .. n + 1
    <2>1. <<k>> \in Seq(Keys) /\ Len(<<k>>) = 1
      OBVIOUS
    <2>2. s \in Seq(Keys) /\ Len(s) = 1 + n
      BY <1>2, <2>1, ConcatProperties
    <2> HIDE DEF s, n
    <2>3. DOMAIN s = 1 .. Len(s)
      BY <2>2, LenProperties
    <2>4. QED
      BY <1>2, <2>2, <2>3
  <1>4. table' = [table EXCEPT ![k] = s]
    OBVIOUS
  <1> HIDE DEF s, n
  <1>5. \A p : p \in HT!HTNodes' <=> \E l \in Keys : \E j \in DOMAIN table'[l] : p = <<l, j>>
    <2> SUFFICES ASSUME NEW p
                 PROVE  p \in HT!HTNodes' <=>
                            \E l \in Keys : \E j \in DOMAIN table'[l] : p = <<l, j>>
      OBVIOUS
    <2>1. p \in HT!HTNodes' <=> \E l \in Keys : p \in {l} \X DOMAIN table'[l]
      BY DEF HT!HTNodes
    <2>2. QED
      BY <2>1
  <1>6. /\ \A l \in Keys \ {k} : DOMAIN table'[l] = DOMAIN table[l]
        /\ DOMAIN table'[k] = 1 .. n + 1
    BY <1>1, <1>3, <1>4
  <1>7. new \notin HT!HTNodes
    <2>1. n + 1 \notin DOMAIN table[k]
      BY <1>2
    <2>2. QED
      BY <2>1, HTNodesAre
  <1>8. HT!HTNodes' = HT!HTNodes \union {new}
    <2>1. ASSUME NEW p \in HT!HTNodes PROVE p \in HT!HTNodes'
      <3>1. PICK l \in Keys : \E j \in DOMAIN table[l] : p = <<l, j>>
        BY HTNodesAre
      <3>2. PICK j \in DOMAIN table[l] : p = <<l, j>>
        BY <3>1
      <3>3. j \in DOMAIN table'[l]
        BY <1>2, <1>6
      <3>4. QED
        BY <1>5, <3>2, <3>3
    <2>2. new \in HT!HTNodes'
      <3>1. n + 1 \in DOMAIN table'[k]
        BY <1>2, <1>6
      <3>2. QED
        BY <1>5, <3>1
    <2>3. ASSUME NEW p \in HT!HTNodes', p # new PROVE p \in HT!HTNodes
      <3>1. PICK l \in Keys : \E j \in DOMAIN table'[l] : p = <<l, j>>
        BY <1>5
      <3>2. PICK j \in DOMAIN table'[l] : p = <<l, j>>
        BY <3>1
      <3>3. j \in DOMAIN table[l]
        <4>1. CASE l = k
          <5>1. j \in 1 .. n + 1 /\ j # n + 1
            BY <1>6, <2>3, <3>2, <4>1
          <5>2. QED
            BY <1>2, <4>1, <5>1
        <4>2. CASE l # k
          BY <1>6, <4>2
        <4>3. QED
          BY <4>1, <4>2
      <3>4. QED
        BY <3>2, <3>3, HTNodesAre
    <2>4. QED
      BY <2>1, <2>2, <2>3
  <1> HIDE DEF new
  <1>9. IsFiniteSet(HT!HTNodes)
    BY DEF HTCountInv
  <1>10. /\ IsFiniteSet(HT!HTNodes \union {new})
         /\ Cardinality(HT!HTNodes \union {new}) = Cardinality(HT!HTNodes) + 1
    BY <1>7, <1>9, FS_AddElement
  <1>11. QED
    BY <1>8, <1>9, <1>10, FS_CardinalityType

(* A step that inserts nothing, in a group that goes on. *)
LEMMA HTNoInsert ==
    ASSUME HTCountInv, UNCHANGED <<table, htGroup>>,
           \A u \in HTWriters : \A j \in Nat : HTIsDone(u, j)' <=> HTIsDone(u, j)
    PROVE  HTCountInv'
  <1>1. HT!HTNodes' = HT!HTNodes /\ HTBefore' = HTBefore
    BY DEF HT!HTNodes, HTBefore
  <1>2. HTWriters' = HTWriters
    BY DEF HTWriters, HT!Writer
  <1>3. \A p \in HTInserts : p[1] \in HTWriters /\ p[2] \in Nat
    BY BenchSizes DEF HTInserts
  <1>4. HTDone' = HTDone
    BY <1>2, <1>3 DEF HTDone, HTInserts
  <1>5. QED
    BY <1>1, <1>4 DEF HTCountInv

(* All of a group's inserts. *)
LEMMA HTInsertsAreFinite ==
    /\ IsFiniteSet(HTInserts) /\ IsFiniteSet(HTDone)
    /\ Cardinality(HTDone) \in Nat
    /\ Cardinality(HTInserts) =
           IF htGroup \in {"writers", "both"} THEN n_threads * HT_NODE_ADD
           ELSE Cardinality(HTWriters) * HT_NODE_ADD
  <1>1. /\ IsFiniteSet(HTInserts)
        /\ Cardinality(HTInserts) = Cardinality(HTWriters) * HT_NODE_ADD
    BY HTWritersCounted, PairsAreFinite, BenchSizes DEF HTInserts
  <1>2. IsFiniteSet(HTDone) /\ Cardinality(HTDone) \in Nat
    BY <1>1, FS_Subset, FS_CardinalityType DEF HTDone
  <1>3. QED
    BY <1>1, <1>2, HTWritersCounted

(* With all threads joined, all inserts are done. *)
LEMMA HTJoinedCounts ==
    ASSUME HTInv, HT!Joined
    PROVE  HTBefore + Cardinality(HTDone) =
               HT_NODE_ADD * (IF htGroup \in {"both", "done"} THEN 2 * n_threads ELSE n_threads)
  <1>1. HTDone = HTInserts
    <2>1. ASSUME NEW p \in HTInserts PROVE HTIsDone(p[1], p[2])
      <3>1. /\ p[1] \in Threads /\ HT!Writer(p[1])
            /\ p[2] \in Nat /\ p[2] < HT_NODE_ADD
        BY BenchSizes DEF HTInserts, HTWriters
      <3>2. htI[p[1]] = HT_NODE_ADD
        BY <3>1, HTRoles DEF HT!Joined, HT!Count
      <3>3. QED
        BY <3>1, <3>2 DEF HTIsDone
    <2>2. QED
      BY <2>1 DEF HTDone
  <1>2. htGroup \in Phases /\ n_threads \in Nat /\ HT_NODE_ADD \in Nat
    BY BenchSizes DEF HTInv
  <1>3. PICK m \in Nat : m = n_threads * HT_NODE_ADD
    BY <1>2
  <1>4. HT_NODE_ADD * n_threads = m /\ HT_NODE_ADD * (2 * n_threads) = 2 * m
    BY <1>2, <1>3
  <1>5. CASE htGroup \in {"writers", "both"}
    BY <1>1, <1>3, <1>4, <1>5, HTInsertsAreFinite DEF HTBefore
  <1>6. CASE htGroup \in {"readers", "done"}
    <2>1. HTInserts = {}
      BY <1>6, HTWritersCounted DEF HTInserts
    <2>2. Cardinality(HTDone) = 0
      BY <1>1, <2>1, FS_EmptySet
    <2>3. QED
      BY <1>3, <1>4, <1>6, <2>2 DEF HTBefore
  <1>7. QED
    BY <1>2, <1>5, <1>6 DEF Phases

(* The insert that a thread is at becomes one of those that are done.       *)
LEMMA HTInsertCounts ==
    ASSUME HTInv, HTCountInv, NEW t \in Threads, NEW k \in Keys,
           UNCHANGED <<op, htGroup, htI>>,
           op[t] = HT!Insertion(k), HT!Writer(t), htI[t] < HT_NODE_ADD,
           answer[t] = Pending, answer'[t] = TRUE,
           \A u \in Threads \ {t} : answer'[u] = answer[u],
           table' = [table EXCEPT ![k] = <<k>> \o @]
    PROVE  HTCountInv'
  <1>1. htI[t] \in Nat /\ answer[t] # TRUE
    BY TestProgramAssumption DEF HTInv
  <1>2. PICK m \in Nat : m = htI[t]
    BY <1>1
  <1>3. PICK q : q = <<t, m>>
    OBVIOUS
  <1>4. q \in HTInserts /\ q[1] = t /\ q[2] = m
    BY <1>2, <1>3, BenchSizes DEF HTInserts, HTWriters
  <1>5. HTWriters' = HTWriters /\ HTInserts' = HTInserts /\ HTBefore' = HTBefore
    BY DEF HTWriters, HTInserts, HT!Writer, HTBefore
  <1>6. q \notin HTDone
    <2>1. ~(m < htI[t])
      BY <1>2
    <2>2. ~HTIsDone(t, m)
      BY <1>1, <2>1, Zenon DEF HTIsDone
    <2>3. QED
      BY <1>4, <2>2 DEF HTDone
  <1>7. HTIsDone(t, m)'
    BY <1>2, HTKinds DEF HTIsDone
  <1>8. \A u \in Threads : \A j : <<u, j>> # q => (HTIsDone(u, j)' <=> HTIsDone(u, j))
    BY <1>2, <1>3 DEF HTIsDone
  <1>9. HTDone' = HTDone \union {q}
    <2>1. ASSUME NEW p \in HTInserts, p # q PROVE HTIsDone(p[1], p[2])' <=> HTIsDone(p[1], p[2])
      <3>1. PICK u \in Threads, j \in Nat : p = <<u, j>>
        BY BenchSizes DEF HTInserts, HTWriters
      <3>2. QED
        BY <1>8, <2>1, <3>1
    <2>2. HTDone' = {p \in HTInserts : HTIsDone(p[1], p[2])'}
      BY <1>5 DEF HTDone
    <2>3. HTIsDone(q[1], q[2])'
      BY <1>4, <1>7
    <2>4. QED
      BY <1>4, <2>1, <2>2, <2>3 DEF HTDone
  <1>10. Cardinality(HTDone \union {q}) = Cardinality(HTDone) + 1
    BY <1>6, HTInsertsAreFinite, FS_AddElement
  <1>11. HTBefore \in Nat
    <2>1. PICK n \in Nat : n = n_threads * HT_NODE_ADD
      BY BenchSizes
    <2>2. QED
      BY <2>1 DEF HTBefore
  <1>12. /\ IsFiniteSet(HT!HTNodes)'
         /\ Cardinality(HT!HTNodes)' = Cardinality(HT!HTNodes) + 1
    BY HTNodeAdded
  <1>13. Cardinality(HTDone)' = Cardinality(HTDone) + 1
    BY <1>9, <1>10
  <1>14. QED
    BY <1>5, <1>11, <1>12, <1>13, HTInsertsAreFinite, BenchSizes DEF HTCountInv

LEMMA HTCountStep ==
    ASSUME HTInv, HTCountInv, [MainNext]_allVars
    PROVE  HTCountInv'
  <1>1. CASE UNCHANGED htVars
    BY <1>1, HTNoInsert DEF htVars, HTIsDone
  <1>2. CASE HT!JoinAndSpawn
    <2>1. /\ UNCHANGED <<table, op, answer>> /\ HT!Joined /\ htGroup # "done"
          /\ htGroup' = CASE htGroup = "writers" -> "readers" [] htGroup = "readers" -> "both"
                          [] OTHER -> "done"
          /\ htI' = [t \in Threads |-> 0]
      BY <1>2 DEF HT!JoinAndSpawn, HT!tableVars
    <2>2. HTBefore + Cardinality(HTDone) =
              HT_NODE_ADD * (IF htGroup \in {"both", "done"} THEN 2 * n_threads ELSE n_threads)
      BY <2>1, HTJoinedCounts
    <2>3. PICK m \in Nat : m = n_threads * HT_NODE_ADD
      BY BenchSizes
    <2>4. HTBefore' = HTBefore + Cardinality(HTDone)
      <3>1. HT_NODE_ADD * n_threads = m /\ HT_NODE_ADD * (2 * n_threads) = 2 * m
        BY <2>3, BenchSizes
      <3>2. htGroup \in {"writers", "readers", "both"}
        BY <2>1 DEF HTInv, Phases
      <3>3. HTBefore' = IF htGroup = "both" THEN 2 * m ELSE m
        BY <2>1, <2>3, <3>2 DEF HTBefore
      <3>4. QED
        BY <2>2, <3>1, <3>2, <3>3
    <2>5. HTDone' = {}
      <3>1. ASSUME NEW p \in HTInserts' PROVE ~HTIsDone(p[1], p[2])'
        <4>1. p[1] \in Threads /\ p[2] \in Nat
          BY BenchSizes DEF HTInserts, HTWriters
        <4>2. op'[p[1]] = HT!Table!NoOp /\ htI'[p[1]] = 0
          BY <2>1, <4>1 DEF HT!Joined
        <4>3. QED
          BY <4>1, <4>2, HTKinds DEF HTIsDone
      <3>2. QED
        BY <3>1 DEF HTDone
    <2>6. Cardinality(HTDone)' = 0
      BY <2>5, FS_EmptySet
    <2>7. HT!HTNodes' = HT!HTNodes
      BY <2>1 DEF HT!HTNodes
    <2>8. HTBefore' \in Nat /\ HTBefore \in Nat
      BY <2>3 DEF HTBefore
    <2>9. QED
      BY <2>4, <2>6, <2>7, <2>8, HTInsertsAreFinite, BenchSizes DEF HTCountInv
  <1>3. ASSUME NEW t \in Threads, HT!ThreadStep(t)
        PROVE  HTCountInv'
    <2>1. /\ htGroup' = htGroup
          /\ \A u \in Threads \ {t} : UNCHANGED <<op[u], answer[u], htI[u]>>
          /\ htI[t] \in Nat /\ HTCallInv(t) /\ DOMAIN op = Threads /\ DOMAIN answer = Threads
      BY <1>3, HTFrame DEF HTInv
    <2>2. table' = table /\ (\A j \in Nat : t \in HTWriters => (HTIsDone(t, j)' <=> HTIsDone(t, j)))
              => HTCountInv'
      <3>1. HTWriters \subseteq Threads
        BY DEF HTWriters
      <3>2. \A u \in HTWriters \ {t} : \A j \in Nat : HTIsDone(u, j)' <=> HTIsDone(u, j)
        BY <2>1, <3>1 DEF HTIsDone
      <3>3. QED
        BY <2>1, <3>2, HTNoInsert
    <2>3. CASE HT!CallInsert(t) \/ HT!CallLookup(t)
      <3>1. /\ table' = table /\ htI' = htI /\ answer' = answer
            /\ op[t] = HT!Table!NoOp /\ answer[t] = Pending
        BY <2>1, <2>3, HTKinds DEF HT!CallInsert, HT!CallLookup, HT!Table!Invoke, HTCallInv
      <3>2. answer[t] # TRUE
        BY <3>1, TestProgramAssumption
      <3>3. QED
        BY <2>2, <3>1, <3>2 DEF HTIsDone
    <2>4. CASE HT!ReadNoVector(t)
      BY <2>2, <2>4, HTNoVector, HTRoles DEF HTWriters, HT!ReadNoVector
    <2>5. CASE HT!InsideCall(t)
      <3>1. UNCHANGED <<op, htGroup, htI>>
        BY <2>5 DEF HT!InsideCall, HT!Table!Insert, HT!Table!Lookup
      <3>2. CASE table' = table /\ op[t].kind = "lookup"
        <4>1. op[t].kind # "insert"
          BY <3>2
        <4>2. QED
          BY <2>2, <3>1, <3>2, <4>1 DEF HTIsDone
      <3>3. CASE \E k \in Keys :
                    /\ op[t] = HT!Insertion(k) /\ HT!Writer(t)
                    /\ answer[t] = Pending /\ answer'[t] = TRUE
                    /\ table' = [table EXCEPT ![k] = <<k>> \o @]
        <4>1. PICK k \in Keys :
                    /\ op[t] = HT!Insertion(k) /\ HT!Writer(t)
                    /\ answer[t] = Pending /\ answer'[t] = TRUE
                    /\ table' = [table EXCEPT ![k] = <<k>> \o @]
          BY <3>3
        <4>2. htI[t] < HT_NODE_ADD
          BY <2>1, <4>1, HTKinds DEF HTCallInv
        <4>3. QED
          BY <2>1, <3>1, <4>1, <4>2, HTInsertCounts
      <3>4. QED
        BY <2>5, <3>2, <3>3, HTInside
    <2>6. CASE HT!EndCall(t)
      <3>1. /\ table' = table /\ htI'[t] = htI[t] + 1
            /\ op'[t] = HT!Table!NoOp /\ op[t] # HT!Table!NoOp /\ answer[t] # Pending
        BY <2>1, <2>6 DEF HT!EndCall, HT!Table!Return, HTInv
      <3>2. HT!Writer(t) => op[t].kind = "insert" /\ answer[t] = TRUE
        BY <2>1, <3>1, HTKinds, HTRoles DEF HTCallInv
      <3>3. op'[t].kind # "insert"
        BY <3>1, HTKinds
      <3>4. ASSUME t \in HTWriters, NEW j \in Nat PROVE HTIsDone(t, j)' <=> HTIsDone(t, j)
        BY <2>1, <3>1, <3>2, <3>3, <3>4 DEF HTIsDone, HTWriters
      <3>5. QED
        BY <2>2, <3>1, <3>4
    <2>7. QED
      BY <1>3, <2>3, <2>4, <2>5, <2>6 DEF HT!ThreadStep
  <1>4. QED
    BY <1>1, <1>2, <1>3, HTMainStep

(* The table has a node for each insert there was, whenever main counts      *)
(* them: none is lost and none is there twice (test.cc:253, 286).           *)
THEOREM NodesAreCounted == MainSpec => []HTNodesCounted
  <1>1. MainInit => HTInv /\ HTCountInv /\ HTSavedKeysAreFound
    BY HTInvInit, HTCountInit DEF HTSavedKeysAreFound, HT!SavedKeysAreFound
  <1>2. HTInv /\ HTCountInv /\ HTSavedKeysAreFound /\ [MainNext]_allVars
            => (HTInv /\ HTCountInv /\ HTSavedKeysAreFound)'
    BY HTStep, HTCountStep
  <1>3. HTInv /\ HTCountInv => HTNodesCounted
    <2> SUFFICES ASSUME HTInv, HTCountInv, HT!Joined
                 PROVE  HT!get_node_count = LIST_INIT_SIZE + HT_NODE_ADD *
                            (IF htGroup \in {"both", "done"} THEN 2 * n_threads ELSE n_threads)
      BY DEF HTNodesCounted, HT!NodesCounted
    <2>1. HT!get_node_count = Cardinality(HT!HTNodes)
      BY HTCardinality DEF HT!get_node_count
    <2>2. HTBefore \in Nat /\ Cardinality(HTDone) \in Nat
      <3>1. PICK m \in Nat : m = n_threads * HT_NODE_ADD
        BY BenchSizes
      <3>2. QED
        BY <3>1, HTInsertsAreFinite DEF HTBefore
    <2>3. QED
      BY <2>1, <2>2, HTJoinedCounts, BenchSizes DEF HTCountInv
  <1>4. QED
    BY <1>1, <1>2, <1>3, PTL DEF MainSpec

-----------------------------------------------------------------------------
(***************************************************************************)
(* The list bench.  A list that only grows is its nodes in the order in    *)
(* which they were inserted, each of them before the one inserted before   *)
(* it, and the vector has their keys in that order.  A lookup of the       *)
(* vector's j-th key comes from a node inserted with it or later.          *)
(***************************************************************************)
Inserting == {"alloc", "publish", "push", "unlock", "release"}
Looking == {"head", "walk", "validate"}

(* Who does what, and how far it may go. *)
ListThreadInv(t) ==
    /\ range[t].i <= range[t].end
    /\ doing[t] # "none" => range[t].i < range[t].end
    /\ doing[t] \in Inserting => ListWriter(group, t)
    /\ doing[t] \in Looking => ListReader(group, t)
    /\ ListWriter(group, t) => range[t].end = Inserts(group)
    /\ first[t] # Unloaded => ListReader(group, t)

ListRoleInv == ListBenchTypeOK /\ \A t \in Threads : ListThreadInv(t)

(* s is the list's nodes, the oldest first. *)
InOrder(s) ==
    /\ s \in Seq(Nodes)
    /\ \A i, j \in 1 .. Len(s) : s[i] = s[j] => i = j
    /\ \A j \in 1 .. Len(s) :
           /\ s[j] \in live /\ cell[s[j]].next = NodeAt(s, j - 1)
           /\ cell[s[j]].val = cell[s[j]].key
    /\ head[_list] = NodeAt(s, Len(s))
    /\ Len(keys) <= Len(s)
    /\ \A j \in 1 .. Len(keys) : cell[s[j]].key = keys[j]

(* Node p of the list s is there since the j-th key or later. *)
NotBefore(s, p, j) == \E m \in 1 .. Len(s) : p = s[m] /\ j <= m

(* What thread t has to do with the list. *)
InPlace(s, t) ==
    /\ doing[t] = "publish" =>
           /\ node[t] \in live /\ node[t] \in Nodes /\ \A j \in 1 .. Len(s) : s[j] # node[t]
           /\ cell[node[t]] = [key |-> WriterKey(t), val |-> WriterKey(t), next |-> head[_list]]
    /\ doing[t] = "push" => Len(s) = Len(keys) + 1 /\ cell[s[Len(s)]].key = WriterKey(t)
    /\ doing[t] = "walk" => NotBefore(s, node[t], range[t].i + 1)
    /\ first[t] # Unloaded => NotBefore(s, first[t], range[t].end)

OrderInv(s) ==
    /\ InOrder(s)
    /\ \A t \in Threads : InPlace(s, t)
    /\ Len(s) = Len(keys) \/ \E t \in Threads : doing[t] = "push"

(* An insert is a pair of a writer and the number of its iteration. *)
ListWriters == {t \in Threads : ListWriter(group, t)}
ListInserts == ListWriters \X (0 .. Inserts(group) - 1)
Pushed(t, j) == j < range[t].i \/ (j = range[t].i /\ doing[t] \in {"unlock", "release"})
ListDone == {p \in ListInserts : Pushed(p[1], p[2])}

(* What the earlier groups have inserted. *)
ListBefore ==
    CASE group = "writers" -> 0
      [] group = "done" -> ListWrites
      [] OTHER -> n_threads * N_NODE_ADD

ListCountInv == Len(keys) = LIST_INIT_SIZE + (ListBefore + Cardinality(ListDone))

ListDataInv ==
    /\ ListRoleInv /\ ListCountInv
    /\ \E s : OrderInv(s)
    /\ ~unequal
    /\ group \in {"writers", "readers"} => ~refused

(* How many keys have been inserted. *)
InsertsDone == Len(keys) - LIST_INIT_SIZE

(* Where thread t is in the lock's code. *)
ListPlace(t) ==
    /\ doing[t] = "none" => pc[t] \in {"idle", "validated", "refused"}
    /\ doing[t] = "alloc" => pc[t] \in {"write_lock", "write_cas", "writing"}
    /\ doing[t] \in {"publish", "push", "unlock"} => pc[t] = "writing"
    /\ doing[t] = "release" => pc[t] = "faa"
    /\ doing[t] \in Looking => pc[t] = "reading"
    /\ doing[t] \in {"unlock", "release"} => version[vlock] <= 2 * InsertsDone - 1
    /\ group = "readers" /\ pc[t] = "reading" => seen[t] = version[vlock]

ListLockInv ==
    /\ LockInv /\ wrapped = {} /\ ~aborted
    /\ version[vlock] <= 2 * InsertsDone + 1
    /\ \A t \in Threads : ListPlace(t)

ListBenchInv ==
    /\ ListDataInv
    /\ bench = TEST_VL_LIST => ListLockInv
    /\ bench \notin {TEST_VL_API, TEST_VL_LIST} => ~aborted

-----------------------------------------------------------------------------
(* Nobody reads and writes in the same group. *)
LEMMA ListRoles ==
    ASSUME NEW g, NEW t \in Threads
    PROVE  /\ ~(ListReader(g, t) /\ ListWriter(g, t))
           /\ ListReader(g, t) => g # "writers" /\ g # "done"
           /\ ListWriter(g, t) => g # "readers" /\ g # "done"
           /\ Inserting \cap Looking = {} /\ "none" \notin Inserting \union Looking
           /\ t \in Nat /\ Inserts(g) \in Nat
  BY ListBenchAssumption DEF ListReader, ListWriter, Inserts, Inserting, Looking

(* The kinds of steps of a thread's iteration. *)
LEMMA ListFrame ==
    ASSUME ListBenchTypeOK, TypeOK, NEW t \in Threads, ListThreadStep(t)
    PROVE  /\ UNCHANGED group
           /\ \A u \in Threads \ {t} :
                  UNCHANGED <<range[u], doing[u], node[u], first[u], pc[u], seen[u]>>
           /\ range'[t].end = range[t].end
  <1> USE DEF ListBenchTypeOK, Goes, NextIteration
  <1>1. UNCHANGED group
    BY DEF ListThreadStep, ListBeginWrite, AllocNode, LinkNode, PushKey, ListEndWrite,
           ListInsideCall, LoadFirst, ListBeginRead, StartWalk, WalkNode, ListEndRead
  <1>2. /\ \A u \in Threads \ {t} : UNCHANGED <<range[u], doing[u], node[u], first[u]>>
        /\ range'[t].end = range[t].end
    <2>1. CASE ListBeginWrite(t) \/ AllocNode(t) \/ LinkNode(t) \/ PushKey(t)
      BY <2>1 DEF ListBeginWrite, AllocNode, LinkNode, PushKey
    <2>2. CASE ListEndWrite(t) \/ ListInsideCall(t)
      BY <2>2 DEF ListEndWrite, ListInsideCall
    <2>3. CASE LoadFirst(t) \/ ListBeginRead(t) \/ StartWalk(t)
      BY <2>3 DEF LoadFirst, ListBeginRead, StartWalk
    <2>4. CASE WalkNode(t)
      BY <2>4 DEF WalkNode
    <2>5. CASE ListEndRead(t)
      BY <2>5 DEF ListEndRead
    <2>6. QED
      BY <2>1, <2>2, <2>3, <2>4, <2>5 DEF ListThreadStep
  <1>3. \A u \in Threads \ {t} : UNCHANGED <<pc[u], seen[u]>>
    <2>1. CASE AllocNode(t) \/ LinkNode(t) \/ PushKey(t) \/ LoadFirst(t) \/ StartWalk(t) \/ WalkNode(t)
      BY <2>1 DEF AllocNode, LinkNode, PushKey, LoadFirst, StartWalk, WalkNode, lockVars
    <2>2. CASE ListBeginWrite(t) \/ ListBeginRead(t)
      BY <2>2 DEF ListBeginWrite, ListBeginRead, WriteLock, ReadLockNoWait, Move, TypeOK
    <2>3. CASE ListEndWrite(t)
      BY <2>3 DEF ListEndWrite, WriteUnlock, AfterAssert, Move, TypeOK
    <2>4. CASE ListEndRead(t)
      BY <2>4 DEF ListEndRead, ReadUnlock, Move, TypeOK
    <2>5. CASE ListInsideCall(t)
      BY <2>5 DEF ListInsideCall, LockStep, WriteLoad, WriteCas, TryCas, UnlockReset,
                  UnlockFaa, ReadLoad, RetryWrite, AfterAssert, Move, TypeOK
    <2>6. QED
      BY <2>1, <2>2, <2>3, <2>4, <2>5 DEF ListThreadStep
  <1>4. QED
    BY <1>1, <1>2, <1>3

(* A step that changes nobody's role, in which the vector does not shrink.  *)
LEMMA ListRoleKept ==
    ASSUME ListRoleInv, TypeOK, NEW t \in Threads, ListThreadStep(t),
           ListTypeOK', keys' \in Seq(Keys), Len(keys) <= Len(keys'),
           range' \in [Threads -> [i : Nat, end : Nat]],
           doing' \in [Threads -> {"none"} \union Inserting \union Looking],
           node' \in [Threads -> Pointers], first' \in [Threads -> Pointers \union {Unloaded}],
           refused' \in BOOLEAN, unequal' \in BOOLEAN,
           range'[t].i <= range[t].end, doing'[t] # "none" => range'[t].i < range[t].end,
           doing'[t] \in Inserting => ListWriter(group, t),
           doing'[t] \in Looking => ListReader(group, t),
           first'[t] # Unloaded => ListReader(group, t)
    PROVE  ListRoleInv'
  <1>1. /\ UNCHANGED group
        /\ \A u \in Threads \ {t} :
               UNCHANGED <<range[u], doing[u], node[u], first[u], pc[u], seen[u]>>
        /\ range'[t].end = range[t].end
    BY ListFrame DEF ListRoleInv
  <1>2. ASSUME NEW u \in Threads, ListReader(group, u)
        PROVE  range'[u].end <= Len(keys')
    <2>1. range[u].end <= Len(keys) /\ range'[u].end = range[u].end
      BY <1>1, <1>2 DEF ListRoleInv, ListBenchTypeOK
    <2>2. range[u].end \in Nat /\ Len(keys) \in Nat /\ Len(keys') \in Nat
      BY LenProperties DEF ListRoleInv, ListBenchTypeOK
    <2>3. QED
      BY <2>1, <2>2
  <1>3. ListBenchTypeOK'
    <2>1. {"none"} \union Inserting \union Looking =
              {"none", "alloc", "publish", "push", "unlock", "release", "head", "walk", "validate"}
      BY DEF Inserting, Looking
    <2>2. QED
      BY <1>1, <1>2, <2>1 DEF ListRoleInv, ListBenchTypeOK
  <1>4. ASSUME NEW u \in Threads PROVE ListThreadInv(u)'
    BY <1>1 DEF ListRoleInv, ListThreadInv
  <1>5. QED
    BY <1>3, <1>4 DEF ListRoleInv

-----------------------------------------------------------------------------
(* A writer's key is one of Keys. *)
LEMMA WriterKeys ==
    ASSUME ListRoleInv, NEW t \in Threads, doing[t] \in Inserting
    PROVE  WriterKey(t) \in Keys
  <1>1. ListWriter(group, t) /\ group \in Phases
    BY DEF ListRoleInv, ListThreadInv, ListBenchTypeOK
  <1>2. range[t].i \in 0 .. Inserts(group) - 1
    <2>1. range[t].i \in Nat /\ range[t].i < range[t].end /\ range[t].end = Inserts(group)
      BY <1>1, ListRoles DEF ListRoleInv, ListThreadInv, ListBenchTypeOK
    <2>2. Inserts(group) \in Nat
      BY ListRoles
    <2>3. QED
      BY <2>1, <2>2
  <1>3. QED
    BY <1>1, <1>2, ListBenchKeys DEF InsertedAreKeys, WriterKey

(* The steps of a writer's iteration keep the types and the roles.          *)
LEMMA ListWriterRole ==
    ASSUME ListRoleInv, TypeOK, NEW t \in Threads, ListThreadStep(t),
           ListBeginWrite(t) \/ AllocNode(t) \/ LinkNode(t) \/ PushKey(t) \/ ListEndWrite(t)
    PROVE  ListRoleInv' /\ Len(keys) <= Len(keys')
  <1>1. ListBenchTypeOK /\ ListThreadInv(t)
    BY DEF ListRoleInv
  <1> DEFINE Doings == {"none"} \union Inserting \union Looking
  <1>2. doing \in [Threads -> Doings]
    BY <1>1 DEF ListBenchTypeOK, Inserting, Looking
  <1>3. /\ UNCHANGED <<range, first, refused, unequal>>
        /\ \/ UNCHANGED doing
           \/ \E d \in Inserting : doing' = [doing EXCEPT ![t] = d]
        /\ ListWriter(group, t)
    <2>1. /\ UNCHANGED <<range, first, refused, unequal>>
          /\ \/ UNCHANGED doing
             \/ \E d \in Inserting : doing' = [doing EXCEPT ![t] = d]
      BY DEF ListBeginWrite, AllocNode, LinkNode, PushKey, ListEndWrite, Goes, Inserting
    <2>2. ListWriter(group, t) \/ doing[t] \in Inserting
      BY DEF ListBeginWrite, AllocNode, LinkNode, PushKey, ListEndWrite, Does, Inserting
    <2>3. QED
      BY <1>1, <2>1, <2>2 DEF ListThreadInv
  <1>4. range[t].i < range[t].end
    <2>1. CASE ListBeginWrite(t)
      BY <2>1 DEF ListBeginWrite, Iterates
    <2>2. CASE ~ListBeginWrite(t)
      <3>1. doing[t] \in Inserting
        BY <2>2 DEF AllocNode, LinkNode, PushKey, ListEndWrite, Does, Inserting
      <3>2. QED
        BY <1>1, <3>1, ListRoles DEF ListThreadInv
    <2>3. QED
      BY <2>1, <2>2
  <1>5. ListTypeOK' /\ node' \in [Threads -> Pointers]
    <2>1. CASE AllocNode(t)
      <3>1. PICK n : /\ NewNode(n, WriterKey(t), WriterKey(t), head[_list])
                     /\ node' = [node EXCEPT ![t] = n]
        BY <2>1 DEF AllocNode
      <3>2. n \in Nodes
        BY <3>1 DEF NewNode
      <3>3. WriterKey(t) \in Keys /\ WriterKey(t) \in Vals
        BY <2>1, WriterKeys, ListBenchAssumption DEF AllocNode, Does, Inserting
      <3>4. head[_list] \in Pointers
        BY <1>1, ListBenchAssumption DEF ListBenchTypeOK, ListTypeOK, _list
      <3>5. PICK k, p : k = WriterKey(t) /\ p = head[_list]
        OBVIOUS
      <3>6. NewNode(n, k, k, p) /\ k \in Keys /\ k \in Vals /\ p \in Pointers
        BY <3>1, <3>3, <3>4, <3>5
      <3>7. ListTypeOK'
        BY <1>1, <3>6, NewNodeType DEF ListBenchTypeOK
      <3>8. QED
        BY <1>1, <3>1, <3>2, <3>7 DEF ListBenchTypeOK, Pointers
    <2>2. CASE LinkNode(t)
      <3>1. node[t] \in Pointers /\ Publish(node[t], _list) /\ UNCHANGED node
        BY <1>1, <2>2 DEF LinkNode, ListBenchTypeOK
      <3>2. PICK n : n = node[t]
        OBVIOUS
      <3>3. ListTypeOK'
        BY <1>1, <3>1, <3>2, PublishType DEF ListBenchTypeOK
      <3>4. QED
        BY <1>1, <3>1, <3>3 DEF ListBenchTypeOK, Pointers
    <2>3. CASE ~AllocNode(t) /\ ~LinkNode(t)
      <3>1. UNCHANGED <<listVars, node>>
        BY <2>3 DEF ListBeginWrite, PushKey, ListEndWrite
      <3>2. QED
        BY <1>1, <3>1 DEF ListBenchTypeOK, ListTypeOK, listVars, Pointers
    <2>4. QED
      BY <2>1, <2>2, <2>3
  <1>6. keys' \in Seq(Keys) /\ Len(keys) <= Len(keys')
    <2>1. keys \in Seq(Keys) /\ Len(keys) \in Nat
      BY <1>1, LenProperties DEF ListBenchTypeOK
    <2>2. CASE PushKey(t)
      <3>1. WriterKey(t) \in Keys
        BY <2>2, WriterKeys DEF PushKey, Does, Inserting
      <3>2. keys' = Append(keys, WriterKey(t))
        BY <2>2 DEF PushKey
      <3>3. keys' \in Seq(Keys) /\ Len(keys') = Len(keys) + 1
        BY <2>1, <3>1, <3>2, AppendProperties
      <3>4. QED
        BY <2>1, <3>3
    <2>3. CASE ~PushKey(t)
      <3>1. UNCHANGED keys
        BY <2>3 DEF ListBeginWrite, AllocNode, LinkNode, ListEndWrite
      <3>2. QED
        BY <2>1, <3>1
    <2>4. QED
      BY <2>2, <2>3
  <1>7. doing' \in [Threads -> Doings] /\ (doing'[t] = doing[t] \/ doing'[t] \in Inserting)
    BY <1>2, <1>3
  <1>8. doing'[t] \in Looking => doing[t] \in Looking
    BY <1>7, ListRoles
  <1>9. /\ range' \in [Threads -> [i : Nat, end : Nat]] /\ refused' \in BOOLEAN /\ unequal' \in BOOLEAN
        /\ first' \in [Threads -> Pointers \union {Unloaded}]
        /\ range'[t].i <= range[t].end
        /\ first'[t] # Unloaded => ListReader(group, t)
        /\ doing'[t] \in Looking => ListReader(group, t)
    BY <1>1, <1>3, <1>8 DEF ListBenchTypeOK, ListThreadInv
  <1>10. QED
    BY <1>3, <1>4, <1>5, <1>6, <1>7, <1>9, ListRoleKept

(* So do those of a reader's, and the steps inside the lock's code.         *)
LEMMA ListReaderRole ==
    ASSUME ListRoleInv, TypeOK, NEW t \in Threads, ListThreadStep(t),
           \/ LoadFirst(t) \/ ListBeginRead(t) \/ StartWalk(t) \/ WalkNode(t) \/ ListEndRead(t)
           \/ ListInsideCall(t) /\ ListPlace(t)
    PROVE  ListRoleInv' /\ UNCHANGED <<listVars, keys>>
  <1>1. ListBenchTypeOK /\ ListThreadInv(t)
    BY DEF ListRoleInv
  <1> DEFINE Doings == {"none"} \union Inserting \union Looking
  <1>2. doing \in [Threads -> Doings]
    BY <1>1 DEF ListBenchTypeOK, Inserting, Looking
  <1>3. UNCHANGED <<listVars, keys>>
    BY DEF LoadFirst, ListBeginRead, StartWalk, WalkNode, ListEndRead, ListInsideCall
  <1>4. /\ \/ UNCHANGED range
           \/ range' = [range EXCEPT ![t].i = @ + 1] /\ doing' = [doing EXCEPT ![t] = "none"]
        /\ \/ UNCHANGED doing
           \/ \E d \in {"none"} \union Looking : doing' = [doing EXCEPT ![t] = d]
        /\ ListReader(group, t) \/ doing'[t] = "none" \/ UNCHANGED <<range, doing>>
        /\ range[t].i < range[t].end \/ UNCHANGED <<range, doing>>
    <2>1. CASE LoadFirst(t)
      BY <2>1 DEF LoadFirst
    <2>2. CASE ListBeginRead(t)
      BY <2>2 DEF ListBeginRead, Iterates, Goes, Looking
    <2>3. CASE StartWalk(t) \/ WalkNode(t) \/ ListEndRead(t)
      <3>1. doing[t] \in Looking
        BY <2>3 DEF StartWalk, WalkNode, ListEndRead, Does, Looking
      <3>2. ListReader(group, t) /\ range[t].i < range[t].end
        BY <1>1, <3>1, ListRoles DEF ListThreadInv
      <3>3. \/ UNCHANGED range
            \/ range' = [range EXCEPT ![t].i = @ + 1] /\ doing' = [doing EXCEPT ![t] = "none"]
        BY <2>3 DEF StartWalk, WalkNode, ListEndRead, NextIteration, Goes
      <3>4. \/ UNCHANGED doing
            \/ \E d \in {"none"} \union Looking : doing' = [doing EXCEPT ![t] = d]
        BY <2>3 DEF StartWalk, WalkNode, ListEndRead, NextIteration, Goes, Looking
      <3>5. QED
        BY <3>2, <3>3, <3>4
    <2>4. CASE ListInsideCall(t) /\ ListPlace(t)
      <3>1. CASE pc[t] = "faa"
        <4>1. doing[t] \notin {"none", "alloc", "publish", "push", "unlock"} \union Looking
          BY <2>4, <3>1 DEF ListPlace
        <4>2. doing[t] \in Doings
          BY <1>2
        <4>3. doing[t] # "none"
          BY <4>1, <4>2
        <4>4. range[t].i < range[t].end
          BY <1>1, <4>3 DEF ListThreadInv
        <4>5. range' = [range EXCEPT ![t].i = @ + 1] /\ doing' = [doing EXCEPT ![t] = "none"]
          BY <2>4, <3>1 DEF ListInsideCall, NextIteration, Goes
        <4>6. doing'[t] = "none"
          BY <1>2, <4>5
        <4>7. QED
          BY <4>4, <4>5, <4>6
      <3>2. CASE pc[t] # "faa"
        BY <2>4, <3>2 DEF ListInsideCall
      <3>3. QED
        BY <3>1, <3>2
    <2>5. QED
      BY <2>1, <2>2, <2>3, <2>4
  <1>5. doing' \in [Threads -> Doings]
    BY <1>2, <1>4
  <1>6. range' \in [Threads -> [i : Nat, end : Nat]] /\ range[t] \in [i : Nat, end : Nat]
    <2>1. range' = range \/ range' = [range EXCEPT ![t].i = @ + 1]
      BY <1>4
    <2>2. range \in [Threads -> [i : Nat, end : Nat]]
      BY <1>1 DEF ListBenchTypeOK
    <2>3. QED
      BY ONLY <2>1, <2>2, t \in Threads
  <1>7. range'[t].i <= range[t].end /\ (doing'[t] # "none" => range'[t].i < range[t].end)
    <2>1. CASE UNCHANGED range
      BY <1>1, <1>4, <2>1 DEF ListThreadInv
    <2>2. CASE range' = [range EXCEPT ![t].i = @ + 1] /\ doing' = [doing EXCEPT ![t] = "none"]
      <3>1. range'[t].i = range[t].i + 1 /\ doing'[t] = "none"
        BY <1>1, <1>2, <2>2 DEF ListBenchTypeOK
      <3>2. range[t].i < range[t].end \/ range'[t].i = range[t].i
        BY <1>4
      <3>3. range[t].i <= range[t].end
        BY <1>1 DEF ListThreadInv
      <3>4. QED
        BY <1>6, <3>1, <3>2, <3>3
    <2>3. QED
      BY <1>4, <2>1, <2>2
  <1>8. /\ doing'[t] \in Inserting => ListWriter(group, t)
        /\ doing'[t] \in Looking => ListReader(group, t)
    <2>1. doing'[t] = doing[t] \/ doing'[t] \in {"none"} \union Looking
      BY <1>2, <1>4
    <2>2. QED
      BY <1>1, <1>4, <2>1, ListRoles DEF ListThreadInv
  <1>9. /\ first' \in [Threads -> Pointers \union {Unloaded}] /\ node' \in [Threads -> Pointers]
        /\ first'[t] # Unloaded => ListReader(group, t)
        /\ refused' \in BOOLEAN /\ unequal' \in BOOLEAN
    <2>1. head[_list] \in Pointers
      BY <1>1, ListBenchAssumption DEF ListBenchTypeOK, ListTypeOK, _list
    <2>2. CASE LoadFirst(t)
      BY <1>1, <2>1, <2>2 DEF LoadFirst, ListBenchTypeOK
    <2>3. CASE ListBeginRead(t) \/ ListInsideCall(t)
      BY <1>1, <2>3 DEF ListBeginRead, ListInsideCall, ListBenchTypeOK, ListThreadInv
    <2>4. CASE StartWalk(t)
      BY <1>1, <2>1, <2>4 DEF StartWalk, ListBenchTypeOK, ListThreadInv
    <2>5. CASE WalkNode(t)
      <3>1. node[t] # Nil => cell[node[t]].next \in Pointers
        BY <1>1 DEF ListBenchTypeOK, ListTypeOK, Pointers
      <3>2. node' \in [Threads -> Pointers] /\ unequal' \in BOOLEAN
        BY <1>1, <2>5, <3>1 DEF WalkNode, ListBenchTypeOK
      <3>3. QED
        BY <1>1, <2>5, <3>2 DEF WalkNode, ListBenchTypeOK, ListThreadInv
    <2>6. CASE ListEndRead(t)
      BY <1>1, <2>6 DEF ListEndRead, ListBenchTypeOK, ListThreadInv
    <2>7. QED
      BY <2>2, <2>3, <2>4, <2>5, <2>6
  <1>10. ListTypeOK' /\ keys' \in Seq(Keys) /\ Len(keys) <= Len(keys')
    <2>1. keys \in Seq(Keys) /\ Len(keys) \in Nat
      BY <1>1, LenProperties DEF ListBenchTypeOK
    <2>2. QED
      BY <1>1, <1>3, <2>1 DEF ListBenchTypeOK, ListTypeOK, listVars, Pointers
  <1>11. QED
    BY <1>3, <1>5, <1>6, <1>7, <1>8, <1>9, <1>10, ListRoleKept

-----------------------------------------------------------------------------
(* What one thread's step does not change in the place of another.          *)
LEMMA PlaceKept ==
    ASSUME NEW s, NEW u, InPlace(s, u), UNCHANGED <<group, range[u], doing[u], node[u], first[u]>>,
           UNCHANGED <<listVars, keys>> \/ doing[u] \notin {"publish", "push"}
    PROVE  InPlace(s, u)'
  BY DEF InPlace, NotBefore, WriterKey, listVars, _list

(* A step that leaves the list and the vector alone.                        *)
LEMMA OrderKept ==
    ASSUME ListRoleInv, TypeOK, NEW t \in Threads, ListThreadStep(t),
           NEW s, OrderInv(s), UNCHANGED <<listVars, keys>>,
           doing[t] # "push", doing'[t] # "push", InPlace(s, t)'
    PROVE  OrderInv(s)'
  <1>1. /\ UNCHANGED group
        /\ \A u \in Threads \ {t} :
               UNCHANGED <<range[u], doing[u], node[u], first[u], pc[u], seen[u]>>
    BY ListFrame DEF ListRoleInv
  <1>2. InOrder(s)'
    BY DEF OrderInv, InOrder, listVars, _list
  <1>3. ASSUME NEW u \in Threads PROVE InPlace(s, u)'
    <2>1. CASE u # t
      BY <1>1, <2>1, PlaceKept DEF OrderInv
    <2>2. QED
      BY <2>1
  <1>4. (Len(s) = Len(keys) \/ \E u \in Threads : doing[u] = "push")'
    BY <1>1 DEF OrderInv
  <1>5. QED
    BY <1>2, <1>3, <1>4 DEF OrderInv

(* The node of the vector's j-th key is there, and so are all before it.    *)
LEMMA KeyNode ==
    ASSUME ListRoleInv, NEW s, OrderInv(s), NEW j \in 1 .. Len(keys)
    PROVE  /\ j \in 1 .. Len(s) /\ s[j] \in Nodes /\ cell[s[j]].key = keys[j]
           /\ Len(s) \in Nat /\ Len(s) >= 1 /\ head[_list] = s[Len(s)]
           /\ NotBefore(s, head[_list], j) /\ NotBefore(s, head[_list], Len(keys))
  <1>1. s \in Seq(Nodes) /\ Len(s) \in Nat /\ Len(keys) <= Len(s) /\ Len(keys) \in Nat
    BY LenProperties DEF OrderInv, InOrder, ListRoleInv, ListBenchTypeOK
  <1>2. j \in 1 .. Len(s) /\ Len(s) \in 1 .. Len(s) /\ j <= Len(s)
    BY <1>1
  <1>3. head[_list] = s[Len(s)]
    BY <1>2 DEF OrderInv, InOrder, NodeAt
  <1>4. s[j] \in Nodes
    BY <1>1, <1>2, ElementOfSeq
  <1>5. QED
    BY <1>1, <1>2, <1>3, <1>4 DEF OrderInv, InOrder, NotBefore

(* A reader: it begins at the head, or at the head as it was when it loaded *)
(* it, and goes on while it has not come to its key (list.hpp:91-93,        *)
(* test.cc:155-166).                                                        *)
LEMMA ReaderOrder ==
    ASSUME ListRoleInv, TypeOK, NEW t \in Threads, ListThreadStep(t),
           NEW s, OrderInv(s), ~unequal,
           \/ LoadFirst(t) \/ ListBeginRead(t) \/ StartWalk(t) \/ WalkNode(t) \/ ListEndRead(t)
    PROVE  OrderInv(s)' /\ ~unequal'
  <1>1. ListBenchTypeOK /\ ListThreadInv(t) /\ InPlace(s, t)
    BY DEF ListRoleInv, OrderInv
  <1>2. UNCHANGED <<listVars, keys, group>>
    BY DEF LoadFirst, ListBeginRead, StartWalk, WalkNode, ListEndRead
  <1>3. /\ range[t].i \in Nat /\ range[t].end \in Nat /\ Len(keys) \in Nat
        /\ keys \in Seq(Keys)
    BY <1>1, LenProperties DEF ListBenchTypeOK
  <1> DEFINE i == range[t].i
             end == range[t].end
  <1>4. ListReader(group, t) /\ i < end /\ end <= Len(keys)
    <2>1. CASE LoadFirst(t) \/ ListBeginRead(t)
      BY <1>1, <2>1 DEF LoadFirst, ListBeginRead, Iterates, ListBenchTypeOK
    <2>2. CASE StartWalk(t) \/ WalkNode(t) \/ ListEndRead(t)
      <3>1. doing[t] \in Looking
        BY <2>2 DEF StartWalk, WalkNode, ListEndRead, Does, Looking
      <3>2. QED
        BY <1>1, <3>1, ListRoles DEF ListThreadInv, ListBenchTypeOK
    <2>3. QED
      BY <2>1, <2>2
  <1>5. i + 1 \in 1 .. Len(keys) /\ end \in 1 .. Len(keys)
    BY <1>3, <1>4
  <1>6. /\ NotBefore(s, head[_list], i + 1) /\ NotBefore(s, head[_list], end)
        /\ cell[s[i + 1]].key = keys[i + 1]
    BY <1>5, KeyNode
  <1>7. doing[t] # "push" /\ doing'[t] # "push" /\ doing'[t] # "publish"
    BY <1>1 DEF LoadFirst, ListBeginRead, Iterates, StartWalk, WalkNode, ListEndRead, Does, Goes,
                NextIteration, ListBenchTypeOK
  <1>8. (head[_list])' = head[_list]
    BY <1>2 DEF listVars, _list
  <1>9. ASSUME NEW p, NEW j PROVE NotBefore(s, p, j)' <=> NotBefore(s, p, j)
    BY DEF NotBefore
  <1>10. CASE LoadFirst(t)
    <2>1. /\ UNCHANGED <<range, doing, node, unequal>> /\ doing[t] = "none"
          /\ first'[t] = head[_list]
      BY <1>1, <1>10 DEF LoadFirst, Iterates, Does, ListBenchTypeOK
    <2>2. InPlace(s, t)'
      BY <1>6, <2>1 DEF InPlace, NotBefore
    <2>3. QED
      BY <1>2, <1>7, <2>1, <2>2, OrderKept
  <1>11. CASE ListBeginRead(t)
    <2>1. UNCHANGED <<range, node, first, unequal>> /\ doing'[t] = "head"
      BY <1>1, <1>11 DEF ListBeginRead, Goes, ListBenchTypeOK
    <2>2. InPlace(s, t)'
      BY <1>1, <2>1 DEF InPlace, NotBefore
    <2>3. QED
      BY <1>2, <1>7, <2>1, <2>2, OrderKept
  <1>12. CASE StartWalk(t)
    <2>1. /\ UNCHANGED <<range, first, unequal>> /\ doing'[t] = "walk"
          /\ node'[t] = IF first[t] = Unloaded THEN head[_list] ELSE first[t]
      BY <1>1, <1>12 DEF StartWalk, Goes, ListBenchTypeOK
    <2>2. NotBefore(s, node'[t], i + 1)
      <3>1. CASE first[t] = Unloaded
        BY <1>6, <2>1, <3>1
      <3>2. CASE first[t] # Unloaded
        <4>1. PICK m \in 1 .. Len(s) : first[t] = s[m] /\ end <= m
          BY <1>1, <3>2 DEF InPlace, NotBefore
        <4>2. Len(s) \in Nat
          BY <1>5, KeyNode
        <4>3. i + 1 <= m
          BY <1>3, <1>4, <4>1, <4>2
        <4>4. QED
          BY <2>1, <3>2, <4>1, <4>3 DEF NotBefore
      <3>3. QED
        BY <3>1, <3>2
    <2>3. InPlace(s, t)'
      BY <1>1, <2>1, <2>2 DEF InPlace, NotBefore
    <2>4. QED
      BY <1>2, <1>7, <2>1, <2>3, OrderKept
  <1>13. CASE WalkNode(t)
    <2>1. PICK m \in 1 .. Len(s) : node[t] = s[m] /\ i + 1 <= m
      BY <1>1, <1>13 DEF WalkNode, Does, InPlace, NotBefore
    <2>2. /\ s[m] \in Nodes /\ s[m] # Nil
          /\ cell[s[m]].next = NodeAt(s, m - 1) /\ cell[s[m]].val = cell[s[m]].key
          /\ Len(s) \in Nat
      BY <2>1, ElementOfSeq, ListAssumption, LenProperties DEF OrderInv, InOrder
    <2>3. ReaderKey(t) = keys[i + 1]
      BY DEF ReaderKey
    <2>4. UNCHANGED <<range, first>>
      BY <1>13 DEF WalkNode
    <2>5. CASE cell[s[m]].key # keys[i + 1]
      <3>1. node'[t] = cell[s[m]].next /\ UNCHANGED <<doing, unequal>>
        BY <1>1, <1>13, <2>1, <2>2, <2>3, <2>5 DEF WalkNode, ListBenchTypeOK
      <3>2. m # i + 1
        BY <1>6, <2>5
      <3>3. m - 1 \in 1 .. Len(s) /\ i + 1 <= m - 1
        BY <1>3, <2>1, <2>2, <3>2
      <3>4. node'[t] = s[m - 1]
        BY <2>2, <3>1, <3>3 DEF NodeAt
      <3>5. InPlace(s, t)'
        BY <1>1, <1>7, <2>4, <3>1, <3>3, <3>4 DEF InPlace, NotBefore
      <3>6. QED
        BY <1>2, <1>7, <3>1, <3>5, OrderKept
    <2>6. CASE cell[s[m]].key = keys[i + 1]
      <3>1. /\ node' = node /\ unequal' = unequal /\ doing' = [doing EXCEPT ![t] = "validate"]
        BY <1>13, <2>1, <2>2, <2>3, <2>6 DEF WalkNode, Goes
      <3>2. doing'[t] = "validate"
        BY <1>1, <3>1 DEF ListBenchTypeOK
      <3>3. InPlace(s, t)'
        BY <1>1, <2>4, <3>2 DEF InPlace, NotBefore
      <3>4. QED
        BY <1>2, <1>7, <3>1, <3>3, OrderKept
    <2>7. QED
      BY <2>5, <2>6
  <1>14. CASE ListEndRead(t)
    <2>1. /\ UNCHANGED unequal /\ (first'[t] = first[t] \/ first'[t] = Unloaded)
          /\ range'[t].end = range[t].end /\ doing'[t] \in {"none", "validate"}
      BY <1>1, <1>14 DEF ListEndRead, NextIteration, Goes, Does, ListBenchTypeOK
    <2>2. InPlace(s, t)'
      BY <1>1, <2>1 DEF InPlace, NotBefore
    <2>3. QED
      BY <1>2, <1>7, <2>1, <2>2, OrderKept
  <1>15. QED
    BY <1>10, <1>11, <1>12, <1>13, <1>14

-----------------------------------------------------------------------------
(* Nobody else is about to publish a node or to save its key. *)
Alone(t) == \A u \in Threads \ {t} : doing[u] \notin {"publish", "push"}

(* A new node (list.hpp:72-77): it is none of the list's. *)
LEMMA AllocOrder ==
    ASSUME ListRoleInv, TypeOK, NEW t \in Threads, ListThreadStep(t), Alone(t),
           NEW s, OrderInv(s), AllocNode(t)
    PROVE  OrderInv(s)'
  <1>1. ListBenchTypeOK /\ ListThreadInv(t) /\ InPlace(s, t)
    BY DEF ListRoleInv, OrderInv
  <1>2. PICK n : /\ NewNode(n, WriterKey(t), WriterKey(t), head[_list])
                 /\ node' = [node EXCEPT ![t] = n]
    BY DEF AllocNode
  <1>3. /\ n \in Nodes \ live /\ live' = live \union {n} /\ head' = head
        /\ cell' = [cell EXCEPT ![n] =
                       [key |-> WriterKey(t), val |-> WriterKey(t), next |-> head[_list]]]
    BY <1>2 DEF NewNode
  <1>4. /\ UNCHANGED <<group, keys, range, first>> /\ doing[t] = "alloc" /\ doing'[t] = "publish"
        /\ \A u \in Threads \ {t} : UNCHANGED <<range[u], doing[u], node[u], first[u]>>
        /\ node'[t] = n
    BY <1>1, <1>2, ListFrame DEF AllocNode, Does, Goes, ListBenchTypeOK
  <1>5. s \in Seq(Nodes) /\ InOrder(s)
    BY DEF OrderInv, InOrder
  <1>6. \A j \in 1 .. Len(s) : s[j] \in live /\ s[j] # n /\ cell'[s[j]] = cell[s[j]]
    BY <1>1, <1>3, <1>5 DEF InOrder, ListBenchTypeOK, ListTypeOK
  <1>7. InOrder(s)'
    <2>1. Len(keys) <= Len(s) /\ Len(keys) \in Nat /\ Len(s) \in Nat
      BY <1>1, <1>5, LenProperties DEF InOrder, ListBenchTypeOK
    <2>2. \A j \in 1 .. Len(keys) : cell'[s[j]].key = keys[j]
      BY <1>5, <1>6, <2>1 DEF InOrder
    <2>3. head'[_list] = NodeAt(s, Len(s))
      BY <1>3, <1>5 DEF InOrder
    <2>4. \A j \in 1 .. Len(s) :
              /\ s[j] \in live' /\ cell'[s[j]].next = NodeAt(s, j - 1)
              /\ cell'[s[j]].val = cell'[s[j]].key
      BY <1>3, <1>5, <1>6 DEF InOrder
    <2>5. QED
      BY <1>4, <1>5, <2>2, <2>3, <2>4 DEF InOrder, _list
  <1>8. ASSUME NEW u \in Threads \ {t} PROVE InPlace(s, u)'
    BY <1>4, PlaceKept DEF OrderInv, Alone
  <1>9. InPlace(s, t)'
    <2>1. cell'[n] = [key |-> WriterKey(t), val |-> WriterKey(t), next |-> head[_list]]
      BY <1>1, <1>3 DEF ListBenchTypeOK, ListTypeOK
    <2>2. WriterKey(t)' = WriterKey(t) /\ (head[_list])' = head[_list]
      BY <1>3, <1>4 DEF WriterKey, _list
    <2>3. first'[t] = Unloaded
      BY <1>1, <1>4, ListRoles DEF ListThreadInv, Inserting
    <2>4. QED
      BY <1>3, <1>4, <1>6, <2>1, <2>2, <2>3 DEF InPlace
  <1>10. Len(s) = Len(keys')
    BY <1>4 DEF OrderInv, Alone
  <1>11. QED
    BY <1>7, <1>8, <1>9, <1>10 DEF OrderInv

(* r is s with one node more. *)
OneMore(s, n, r) ==
    /\ r \in Seq(Nodes) /\ Len(r) = Len(s) + 1 /\ Len(s) \in Nat
    /\ r[Len(s) + 1] = n /\ \A j \in 1 .. Len(s) : r[j] = s[j]
    /\ \A i, j \in 1 .. Len(r) : r[i] = r[j] => i = j
    /\ \A j \in 0 .. Len(s) : NodeAt(r, j) = NodeAt(s, j)
    /\ NodeAt(r, Len(r)) = n
    /\ \A p, j : NotBefore(s, p, j) => NotBefore(r, p, j)

LEMMA OneNodeMore ==
    ASSUME NEW s \in Seq(Nodes), NEW n \in Nodes, \A j \in 1 .. Len(s) : s[j] # n,
           \A i, j \in 1 .. Len(s) : s[i] = s[j] => i = j
    PROVE  OneMore(s, n, Append(s, n))
  <1> DEFINE r == Append(s, n)
  <1>1. /\ r \in Seq(Nodes) /\ Len(r) = Len(s) + 1 /\ Len(s) \in Nat
        /\ r[Len(s) + 1] = n /\ \A j \in 1 .. Len(s) : r[j] = s[j]
    BY AppendProperties, LenProperties
  <1> HIDE DEF r
  <1>2. \A j \in 1 .. Len(r) : j \in 1 .. Len(s) \/ j = Len(s) + 1
    BY <1>1
  <1>3. \A i, j \in 1 .. Len(r) : r[i] = r[j] => i = j
    BY <1>1, <1>2
  <1>4. \A j \in 0 .. Len(s) : NodeAt(r, j) = NodeAt(s, j)
    BY <1>1 DEF NodeAt
  <1>5. NodeAt(r, Len(r)) = n
    BY <1>1 DEF NodeAt
  <1>6. ASSUME NEW p, NEW j, NotBefore(s, p, j) PROVE NotBefore(r, p, j)
    <2>1. PICK m \in 1 .. Len(s) : p = s[m] /\ j <= m
      BY <1>6 DEF NotBefore
    <2>2. m \in 1 .. Len(r)
      BY <1>1
    <2>3. QED
      BY <1>1, <2>1, <2>2 DEF NotBefore
  <1>7. QED
    BY <1>1, <1>3, <1>4, <1>5, <1>6 DEF r, OneMore

(* head->next = new_node (list.hpp:78). *)
LEMMA LinkOrder ==
    ASSUME ListRoleInv, TypeOK, NEW t \in Threads, ListThreadStep(t), Alone(t),
           NEW s, OrderInv(s), LinkNode(t)
    PROVE  \E r : OrderInv(r)'
  <1>1. ListBenchTypeOK /\ ListThreadInv(t) /\ InPlace(s, t) /\ InOrder(s)
    BY DEF ListRoleInv, OrderInv
  <1>2. PICK n, r : n = node[t] /\ r = Append(s, n)
    OBVIOUS
  <1>3. /\ UNCHANGED <<cell, live, group, keys, range, node, first>>
        /\ head' = [head EXCEPT ![_list] = n]
        /\ doing[t] = "publish" /\ doing'[t] = "push"
        /\ \A u \in Threads \ {t} : UNCHANGED <<range[u], doing[u], node[u], first[u]>>
    BY <1>1, <1>2, ListFrame DEF LinkNode, Publish, Does, Goes, ListBenchTypeOK
  <1>4. /\ n \in Nodes /\ n \in live /\ s \in Seq(Nodes) /\ \A j \in 1 .. Len(s) : s[j] # n
        /\ \A i, j \in 1 .. Len(s) : s[i] = s[j] => i = j
        /\ cell[n] = [key |-> WriterKey(t), val |-> WriterKey(t), next |-> head[_list]]
    BY <1>1, <1>2, <1>3 DEF InPlace, InOrder
  <1>5. /\ r \in Seq(Nodes) /\ Len(r) = Len(s) + 1 /\ Len(s) \in Nat
        /\ r[Len(s) + 1] = n /\ \A j \in 1 .. Len(s) : r[j] = s[j]
        /\ \A i, j \in 1 .. Len(r) : r[i] = r[j] => i = j
        /\ \A j \in 0 .. Len(s) : NodeAt(r, j) = NodeAt(s, j)
        /\ NodeAt(r, Len(r)) = n
        /\ \A p, j : NotBefore(s, p, j) => NotBefore(r, p, j)
    <2>1. OneMore(s, n, r)
      BY <1>2, <1>4, OneNodeMore
    <2>2. QED
      BY <2>1 DEF OneMore
  <1>6. head'[_list] = n
    BY <1>1, <1>3, ListBenchAssumption DEF ListBenchTypeOK, ListTypeOK, _list
  <1>7. Len(s) = Len(keys) /\ Len(keys) \in Nat
    <2>1. ~ \E u \in Threads : doing[u] = "push"
      BY <1>3 DEF Alone
    <2>2. QED
      BY <1>5, <2>1 DEF OrderInv
  <1>8. InOrder(r)'
    <2>1. ASSUME NEW j \in 1 .. Len(r)
          PROVE  /\ r[j] \in live /\ cell[r[j]].next = NodeAt(r, j - 1)
                 /\ cell[r[j]].val = cell[r[j]].key
      <3>1. CASE j \in 1 .. Len(s)
        <4>1. NodeAt(r, j - 1) = NodeAt(s, j - 1) /\ r[j] = s[j]
          BY <1>5, <3>1
        <4>2. QED
          BY <1>1, <3>1, <4>1 DEF InOrder
      <3>2. CASE j = Len(s) + 1
        <4>1. NodeAt(r, j - 1) = NodeAt(s, Len(s)) /\ r[j] = n
          BY <1>5, <3>2
        <4>2. QED
          BY <1>1, <1>4, <4>1 DEF InOrder
      <3>3. QED
        BY <1>5, <3>1, <3>2
    <2>2. \A j \in 1 .. Len(keys) : cell[r[j]].key = keys[j]
      BY <1>1, <1>5, <1>7 DEF InOrder
    <2>3. head'[_list] = NodeAt(r, Len(r)) /\ Len(keys) <= Len(r)
      BY <1>5, <1>6, <1>7
    <2>4. QED
      BY <1>3, <1>5, <2>1, <2>2, <2>3 DEF InOrder, _list
  <1>9. ASSUME NEW u \in Threads \ {t} PROVE InPlace(r, u)'
    <2>1. InPlace(s, u)'
      BY <1>3, PlaceKept DEF OrderInv, Alone
    <2>2. doing'[u] \notin {"publish", "push"}
      BY <1>3 DEF Alone
    <2>3. \A p, j : NotBefore(s, p, j)' => NotBefore(r, p, j)'
      BY <1>5 DEF NotBefore
    <2>4. QED
      BY <2>1, <2>2, <2>3 DEF InPlace
  <1>10. InPlace(r, t)'
    <2>1. first'[t] = Unloaded
      BY <1>1, <1>3, ListRoles DEF ListThreadInv, Inserting
    <2>2. WriterKey(t)' = WriterKey(t) /\ Len(r) = Len(keys) + 1 /\ r[Len(r)] = n
      BY <1>3, <1>5, <1>7 DEF WriterKey
    <2>3. cell'[r[Len(r)]].key = WriterKey(t)
      BY <1>3, <1>4, <2>2
    <2>4. QED
      BY <1>3, <2>1, <2>2, <2>3 DEF InPlace
  <1>11. \E u \in Threads : doing'[u] = "push"
    BY <1>3
  <1>12. OrderInv(r)'
    BY <1>8, <1>9, <1>10, <1>11 DEF OrderInv
  <1>13. QED
    BY <1>12

(* keys.push_back(key) (test.cc:141). *)
LEMMA PushOrder ==
    ASSUME ListRoleInv, TypeOK, NEW t \in Threads, ListThreadStep(t), Alone(t),
           NEW s, OrderInv(s), PushKey(t)
    PROVE  OrderInv(s)' /\ Len(keys') = Len(keys) + 1
  <1>1. ListBenchTypeOK /\ ListThreadInv(t) /\ InPlace(s, t) /\ InOrder(s)
    BY DEF ListRoleInv, OrderInv
  <1>2. /\ UNCHANGED <<listVars, group, range, node, first>>
        /\ keys' = Append(keys, WriterKey(t))
        /\ doing[t] = "push" /\ doing'[t] = "unlock"
        /\ \A u \in Threads \ {t} : UNCHANGED <<range[u], doing[u], node[u], first[u]>>
    BY <1>1, ListFrame DEF PushKey, Does, Goes, ListBenchTypeOK
  <1>3. WriterKey(t) \in Keys /\ keys \in Seq(Keys)
    BY <1>1, <1>2, WriterKeys DEF Inserting, ListBenchTypeOK
  <1>4. /\ Len(keys') = Len(keys) + 1 /\ Len(keys) \in Nat
        /\ keys'[Len(keys) + 1] = WriterKey(t)
        /\ \A j \in 1 .. Len(keys) : keys'[j] = keys[j]
    BY <1>2, <1>3, AppendProperties, LenProperties
  <1>5. Len(s) = Len(keys) + 1 /\ cell[s[Len(s)]].key = WriterKey(t)
    BY <1>1, <1>2 DEF InPlace
  <1>6. \A j \in 1 .. Len(keys') : cell[s[j]].key = keys'[j]
    <2>1. \A j \in 1 .. Len(keys') : j \in 1 .. Len(keys) \/ j = Len(keys) + 1
      BY <1>4
    <2>2. QED
      BY <1>1, <1>4, <1>5, <2>1 DEF InOrder
  <1>7. InOrder(s)'
    BY <1>1, <1>2, <1>4, <1>5, <1>6 DEF InOrder, listVars, _list
  <1>8. ASSUME NEW u \in Threads \ {t} PROVE InPlace(s, u)'
    BY <1>2, PlaceKept DEF OrderInv, Alone
  <1>9. InPlace(s, t)'
    <2>1. first'[t] = Unloaded
      BY <1>1, <1>2, ListRoles DEF ListThreadInv, Inserting
    <2>2. QED
      BY <1>2, <2>1 DEF InPlace
  <1>10. Len(s) = Len(keys')
    BY <1>4, <1>5
  <1>11. QED
    BY <1>4, <1>7, <1>8, <1>9, <1>10 DEF OrderInv

(* The steps inside the lock's code. *)
LEMMA LockOrder ==
    ASSUME ListRoleInv, TypeOK, NEW t \in Threads, ListThreadStep(t), NEW s, OrderInv(s),
           ListBeginWrite(t) \/ ListEndWrite(t) \/ (ListInsideCall(t) /\ ListPlace(t))
    PROVE  OrderInv(s)' /\ UNCHANGED unequal
  <1>1. ListBenchTypeOK /\ ListThreadInv(t) /\ InPlace(s, t)
    BY DEF ListRoleInv, OrderInv
  <1>2. UNCHANGED <<listVars, keys, node, first, unequal>>
    BY DEF ListBeginWrite, ListEndWrite, ListInsideCall
  <1>3. doing[t] \notin {"publish", "push", "walk"} /\ doing'[t] \notin {"publish", "push", "walk"}
    <2>1. CASE ListBeginWrite(t)
      BY <1>1, <2>1 DEF ListBeginWrite, Iterates, Does, Goes, ListBenchTypeOK
    <2>2. CASE ListEndWrite(t)
      BY <1>1, <2>2 DEF ListEndWrite, Does, Goes, ListBenchTypeOK
    <2>3. CASE ListInsideCall(t) /\ ListPlace(t)
      <3>1. pc[t] \notin {"writing", "reading"}
        BY <2>3 DEF ListInsideCall, LockStep, WriteLoad, WriteCas, TryCas, UnlockReset, UnlockFaa,
                    ReadLoad
      <3>2. doing[t] \notin {"publish", "push", "walk"}
        BY <2>3, <3>1 DEF ListPlace, Looking
      <3>3. QED
        BY <1>1, <2>3, <3>2 DEF ListInsideCall, NextIteration, Goes, ListBenchTypeOK
    <2>4. QED
      BY <2>1, <2>2, <2>3
  <1>4. range'[t].end = range[t].end
    BY <1>1, ListFrame
  <1>5. InPlace(s, t)'
    BY <1>1, <1>2, <1>3, <1>4 DEF InPlace, NotBefore
  <1>6. QED
    BY <1>2, <1>3, <1>5, OrderKept

-----------------------------------------------------------------------------
(* Two threads that hold the lock are one.                                  *)
LEMMA OneHolder ==
    ASSUME ListLockInv, NEW t \in Threads, NEW u \in Threads,
           pc[t] \in WriterPCs, pc[u] \in WriterPCs
    PROVE  t = u /\ Odd(version[vlock])
  <1>1. LockInv /\ TypeOK /\ wrapped = {}
    BY DEF ListLockInv, LockInv
  <1>2. vlock \in Locks /\ at[t] = vlock /\ at[u] = vlock
    BY <1>1, TheOnlyLock DEF TypeOK
  <1>3. Holds(t, vlock) /\ Holds(u, vlock) /\ Held(vlock)
    BY <1>2 DEF Holds, Held
  <1>4. Intact(vlock) /\ vlock \notin destroyed
    BY <1>1, <1>2 DEF Intact, LockInv, DestroyedInv, Ready, ReadyPCs, WriterPCs
  <1>5. QED
    BY <1>1, <1>2, <1>3, <1>4 DEF LockInv, MutualExclusion, CounterInv

(* A thread that is to publish a node or to save its key is alone.          *)
LEMMA InsertAlone ==
    ASSUME ListLockInv, NEW t \in Threads, pc[t] = "writing"
    PROVE  Alone(t)
  <1>1. ASSUME NEW u \in Threads \ {t}, doing[u] \in {"publish", "push"} PROVE FALSE
    <2>1. pc[u] = "writing"
      BY <1>1 DEF ListLockInv, ListPlace
    <2>2. QED
      BY <1>1, <2>1, OneHolder DEF WriterPCs
  <1>2. QED
    BY <1>1 DEF Alone

(* Every step of the bench is one of the lock or leaves it unchanged. *)
LEMMA ListStepIsLockStep ==
    ASSUME ~aborted, NEW t \in Threads, ListThreadStep(t)
    PROVE  [Next]_lockVars
  <1>1. CASE AllocNode(t) \/ LinkNode(t) \/ PushKey(t) \/ LoadFirst(t) \/ StartWalk(t) \/ WalkNode(t)
    BY <1>1 DEF AllocNode, LinkNode, PushKey, LoadFirst, StartWalk, WalkNode, lockVars
  <1>2. CASE ListBeginWrite(t) \/ ListEndWrite(t) \/ ListBeginRead(t) \/ ListEndRead(t)
    BY <1>2, TheOnlyLock
       DEF ListBeginWrite, ListEndWrite, ListBeginRead, ListEndRead, ClientStep, Next
  <1>3. CASE ListInsideCall(t)
    BY <1>3 DEF ListInsideCall, Next
  <1>4. QED
    BY <1>1, <1>2, <1>3 DEF ListThreadStep

(* What the keys vector's length is good for. *)
LEMMA ListLengths ==
    ASSUME ListBenchTypeOK
    PROVE  Len(keys) \in Nat /\ LIST_INIT_SIZE \in Nat /\ InsertsDone \in Int
  BY LenProperties, BenchSizes DEF ListBenchTypeOK, InsertsDone

(* A step of thread t that leaves the version alone, or moves it while      *)
(* nobody else has an insert to release and nobody reads alone.             *)
LEMMA LockKept ==
    ASSUME ListRoleInv, ListRoleInv', ListLockInv, NEW t \in Threads, ListThreadStep(t),
           wrapped' = wrapped, Len(keys) <= Len(keys'),
           \/ version'[vlock] = version[vlock]
           \/ /\ group # "readers" /\ version'[vlock] <= 2 * InsertsDone + 1
              /\ \A u \in Threads \ {t} : doing[u] \notin {"unlock", "release"},
           ListPlace(t)'
    PROVE  ListLockInv'
  <1>1. LockInv' /\ wrapped' = {} /\ ~aborted'
    <2>1. LockInv'
      BY ListStepIsLockStep, LockStepInv DEF ListLockInv
    <2>2. QED
      BY <2>1 DEF LockInv, AbortsOnlyAfterReset, ListLockInv
  <1>2. /\ UNCHANGED group
        /\ \A u \in Threads \ {t} : UNCHANGED <<doing[u], pc[u], seen[u]>>
    BY ListFrame DEF ListRoleInv, ListLockInv, LockInv
  <1>3. InsertsDone \in Int /\ InsertsDone' \in Int /\ InsertsDone <= InsertsDone'
    <2>1. /\ Len(keys) \in Nat /\ LIST_INIT_SIZE \in Nat /\ InsertsDone \in Int
          /\ Len(keys') \in Nat
      BY ListLengths, LenProperties DEF ListRoleInv, ListBenchTypeOK
    <2>2. QED
      BY <2>1 DEF InsertsDone
  <1>4. version[vlock] \in Nat /\ version'[vlock] \in Nat /\ vlock' = vlock
    BY <1>1, TheOnlyLock DEF ListLockInv, LockInv, TypeOK, Counter, vlock
  <1>5. version'[vlock] <= 2 * InsertsDone' + 1
    BY <1>3, <1>4 DEF ListLockInv
  <1>6. ASSUME NEW u \in Threads \ {t} PROVE ListPlace(u)'
    <2>1. ListPlace(u)
      BY DEF ListLockInv
    <2>2. doing'[u] \in {"unlock", "release"} => version'[vlock] <= 2 * InsertsDone' - 1
      BY <1>2, <1>3, <1>4, <2>1 DEF ListPlace
    <2>3. group' = "readers" /\ pc'[u] = "reading" => seen'[u] = version'[vlock]
      BY <1>2, <2>1 DEF ListPlace
    <2>4. QED
      BY <1>2, <1>4, <2>1, <2>2, <2>3 DEF ListPlace
  <1>7. QED
    BY <1>1, <1>4, <1>5, <1>6 DEF ListLockInv

(* The steps between the calls. *)
LEMMA BetweenCalls ==
    ASSUME ListRoleInv, ListRoleInv', ListLockInv, NEW t \in Threads, ListThreadStep(t),
           \/ AllocNode(t) \/ LinkNode(t)
           \/ PushKey(t) /\ Len(keys') = Len(keys) + 1
           \/ LoadFirst(t) \/ StartWalk(t) \/ WalkNode(t)
    PROVE  ListLockInv'
  <1>1. ListPlace(t) /\ ListBenchTypeOK /\ vlock \in Locks
    BY TheOnlyLock DEF ListLockInv, ListRoleInv
  <1>2. UNCHANGED lockVars /\ UNCHANGED group
    BY DEF AllocNode, LinkNode, PushKey, LoadFirst, StartWalk, WalkNode
  <1>3. UNCHANGED <<version, pc, seen, wrapped>> /\ vlock' = vlock
    BY <1>2 DEF lockVars, vlock
  <1>4. /\ Len(keys) \in Nat /\ LIST_INIT_SIZE \in Nat /\ InsertsDone \in Int
        /\ version[vlock] \in Nat /\ version[vlock] <= 2 * InsertsDone + 1
    BY <1>1, ListLengths DEF ListLockInv, LockInv, TypeOK, Counter
  <1>5. CASE AllocNode(t) \/ LinkNode(t) \/ LoadFirst(t) \/ StartWalk(t) \/ WalkNode(t)
    <2>1. UNCHANGED keys
      BY <1>5 DEF AllocNode, LinkNode, LoadFirst, StartWalk, WalkNode
    <2>2. ListPlace(t)'
      <3>1. CASE AllocNode(t) \/ LinkNode(t)
        <4>1. pc[t] = "writing" /\ doing'[t] \in {"publish", "push"}
          BY <1>1, <3>1 DEF AllocNode, LinkNode, Does, Goes, MayInsert, ListPlace, ListBenchTypeOK
        <4>2. QED
          BY <1>3, <4>1 DEF ListPlace, Looking
      <3>2. CASE LoadFirst(t)
        BY <1>1, <1>2, <1>3, <2>1, <3>2 DEF LoadFirst, ListPlace, InsertsDone
      <3>3. CASE StartWalk(t) \/ WalkNode(t)
        <4>1. pc[t] = "reading" /\ doing'[t] \in Looking
          BY <1>1, <3>3 DEF StartWalk, WalkNode, Does, Goes, ListPlace, ListBenchTypeOK, Looking
        <4>2. QED
          BY <1>1, <1>2, <1>3, <4>1 DEF ListPlace, Looking
      <3>4. QED
        BY <1>5, <3>1, <3>2, <3>3
    <2>3. QED
      BY <1>3, <1>4, <2>1, <2>2, LockKept
  <1>6. CASE PushKey(t) /\ Len(keys') = Len(keys) + 1
    <2>1. pc[t] = "writing" /\ doing'[t] = "unlock"
      BY <1>1, <1>6 DEF PushKey, Does, Goes, ListPlace, ListBenchTypeOK
    <2>2. InsertsDone' = InsertsDone + 1
      BY <1>4, <1>6 DEF InsertsDone
    <2>3. version[vlock] <= 2 * InsertsDone' - 1
      BY <1>4, <2>2
    <2>4. ListPlace(t)'
      BY <1>3, <2>1, <2>3 DEF ListPlace, Looking
    <2>5. QED
      BY <1>3, <1>4, <1>6, <2>4, LockKept
  <1>7. QED
    BY <1>5, <1>6

(* Calls begin. *)
LEMMA CallsBegin ==
    ASSUME ListRoleInv, ListRoleInv', ListLockInv, NEW t \in Threads, ListThreadStep(t),
           ListBeginWrite(t) \/ ListBeginRead(t)
    PROVE  ListLockInv'
  <1>1. ListPlace(t) /\ ListBenchTypeOK /\ vlock \in Locks /\ TypeOK
    BY TheOnlyLock DEF ListLockInv, LockInv, ListRoleInv
  <1>2. UNCHANGED <<version, wrapped, keys, group>> /\ vlock' = vlock
    BY DEF ListBeginWrite, ListBeginRead, WriteLock, ReadLockNoWait, vlock
  <1>3. \/ pc'[t] = "write_lock" /\ doing'[t] = "alloc"
        \/ pc'[t] = "reading" /\ doing'[t] = "head" /\ seen'[t] = version[vlock]
    BY <1>1 DEF ListBeginWrite, ListBeginRead, WriteLock, ReadLockNoWait, Move, Goes,
                TypeOK, ListBenchTypeOK
  <1>4. ListPlace(t)'
    BY <1>2, <1>3 DEF ListPlace, Looking
  <1>5. Len(keys) \in Nat
    BY <1>1, ListLengths
  <1>6. QED
    BY <1>2, <1>4, <1>5, LockKept

(* write_unlock up to its addition: the inserts are too few for the reset   *)
(* (version_lock.hpp:99-105).                                               *)
LEMMA ListUnlock ==
    ASSUME ListRoleInv, ListRoleInv', ListLockInv, NEW t \in Threads, ListThreadStep(t),
           InsertsDone <= ListWrites, ListEndWrite(t)
    PROVE  ListLockInv'
  <1>1. /\ ListPlace(t) /\ ListBenchTypeOK /\ vlock \in Locks /\ TypeOK /\ at[t] = vlock
        /\ LockInv /\ wrapped = {}
    BY TheOnlyLock DEF ListLockInv, LockInv, ListRoleInv, TypeOK
  <1>2. /\ UNCHANGED <<version, wrapped, keys, group>> /\ vlock' = vlock
        /\ pc[t] = "writing" /\ doing[t] = "unlock"
    BY DEF ListEndWrite, WriteUnlock, Does, vlock
  <1>3. /\ version[vlock] \in Nat /\ version[vlock] <= 2 * InsertsDone - 1
        /\ InsertsDone \in Int /\ Len(keys) \in Nat /\ ListWrites \in Int
    <2>1. ListWrites \in Int
      BY BenchSizes DEF ListWrites
    <2>2. QED
      BY <1>1, <1>2, <2>1, ListLengths DEF ListPlace, TypeOK, Counter
  <1>4. ~AtReset(version[vlock])
    <2>1. 2 * ListWrites < UINT64_MAX - 2 /\ UINT64_MAX \in Nat
      BY ListBenchAssumption, WidthAssumption
    <2>2. version[vlock] # UINT64_MAX - 2
      BY <1>3, <2>1
    <2>3. QED
      BY <1>1, <2>2, ResetPoint DEF TypeOK
  <1>5. Odd(version[vlock])
    BY <1>2, OneHolder DEF WriterPCs
  <1>6. pc'[t] = "faa" /\ ~aborted'
    BY <1>1, <1>4, <1>5 DEF ListEndWrite, WriteUnlock, AfterAssert, Move, TypeOK, ListLockInv
  <1>7. doing'[t] = "release"
    BY <1>1, <1>6 DEF ListEndWrite, Goes, ListBenchTypeOK
  <1>8. ListPlace(t)'
    <2>1. InsertsDone' = InsertsDone
      BY <1>2 DEF InsertsDone
    <2>2. QED
      BY <1>2, <1>3, <1>6, <1>7, <2>1 DEF ListPlace, Looking
  <1>9. QED
    BY <1>2, <1>3, <1>8, LockKept

(* write_lock's loop and write_unlock's addition.                           *)
LEMMA ListInside ==
    ASSUME ListRoleInv, ListRoleInv', ListLockInv, NEW t \in Threads, ListThreadStep(t),
           ListInsideCall(t)
    PROVE  ListLockInv'
  <1>1. /\ ListPlace(t) /\ ListBenchTypeOK /\ vlock \in Locks /\ TypeOK /\ at[t] = vlock
        /\ LockInv /\ wrapped = {}
    BY TheOnlyLock DEF ListLockInv, LockInv, ListRoleInv, TypeOK
  <1>2. UNCHANGED <<keys, group>> /\ vlock' = vlock /\ InsertsDone' = InsertsDone
    BY DEF ListInsideCall, vlock, InsertsDone
  <1>3. /\ version[vlock] \in Nat /\ version[vlock] <= 2 * InsertsDone + 1
        /\ InsertsDone \in Int /\ Len(keys) \in Nat
    BY <1>1, ListLengths DEF ListLockInv, TypeOK, Counter
  <1>4. /\ doing[t] \in {"none", "alloc", "publish", "push", "unlock", "release"} \union Looking
        /\ doing[t] \in Inserting => ListWriter(group, t)
    BY <1>1 DEF ListBenchTypeOK, Looking, ListRoleInv, ListThreadInv
  <1>5. CASE pc[t] \in {"write_lock", "write_cas"}
    <2>1. doing[t] = "alloc" /\ group # "readers"
      BY <1>1, <1>4, <1>5, ListRoles DEF ListPlace, Inserting
    <2>2. /\ WriteLoad(t) \/ WriteCas(t)
          /\ UNCHANGED doing
      BY <1>5, <2>1 DEF ListInsideCall, LockStep, TryCas, UnlockReset, UnlockFaa, ReadLoad
    <2>3. wrapped' = wrapped /\ pc'[t] \in {"write_lock", "write_cas", "writing"}
      BY <1>1, <2>2 DEF WriteLoad, WriteCas, RetryWrite, Move, TypeOK
    <2>4. ListPlace(t)'
      BY <1>2, <2>1, <2>2, <2>3 DEF ListPlace, Looking
    <2>5. CASE WriteCas(t) /\ CasSucceeds(t)
      <3>1. version[vlock] = seen[t] /\ version'[vlock] = Succ(seen[t])
        BY <1>1, <2>5 DEF WriteCas, CasSucceeds, TypeOK
      <3>2. ~Odd(version[vlock])
        BY <1>1, <2>5, <3>1 DEF WriteCas, LockInv, Intact, LocalInv
      <3>3. version[vlock] # UINT64_MAX
        BY <3>2, ResetPoint
      <3>4. version'[vlock] <= 2 * InsertsDone + 1
        BY <1>3, <3>1, <3>2, <3>3 DEF Succ, Odd
      <3>5. ASSUME NEW u \in Threads \ {t} PROVE doing[u] \notin {"unlock", "release"}
        <4>1. doing[u] \in {"unlock", "release"} => pc[u] \in WriterPCs
          BY DEF ListLockInv, ListPlace, WriterPCs
        <4>2. QED
          BY <3>2, <4>1, OneHolder
      <3>6. QED
        BY <1>2, <1>3, <2>1, <2>3, <2>4, <3>4, <3>5, LockKept
    <2>6. CASE ~(WriteCas(t) /\ CasSucceeds(t))
      <3>1. version' = version
        BY <2>2, <2>6 DEF WriteLoad, WriteCas
      <3>2. QED
        BY <1>2, <1>3, <2>3, <2>4, <3>1, LockKept
    <2>7. QED
      BY <2>5, <2>6
  <1>6. CASE pc[t] = "faa"
    <2>1. doing[t] = "release" /\ group # "readers"
      BY <1>1, <1>4, <1>6, ListRoles DEF ListPlace, Inserting
    <2>2. UnlockFaa(t)
      BY <1>6 DEF ListInsideCall, LockStep, WriteLoad, WriteCas, TryCas, UnlockReset, ReadLoad
    <2>3. doing'[t] = "none"
      BY <1>1, <1>6 DEF ListInsideCall, NextIteration, Goes, ListBenchTypeOK
    <2>4. wrapped' = wrapped /\ pc'[t] = "idle" /\ version'[vlock] = Succ(version[vlock])
      BY <1>1, <2>2 DEF UnlockFaa, Move, TypeOK
    <2>5. version'[vlock] <= 2 * InsertsDone + 1
      <3>1. version[vlock] <= 2 * InsertsDone - 1
        BY <1>1, <2>1 DEF ListPlace
      <3>2. QED
        BY <1>3, <2>4, <3>1 DEF Succ
    <2>6. ASSUME NEW u \in Threads \ {t} PROVE doing[u] \notin {"unlock", "release"}
      <3>1. doing[u] \in {"unlock", "release"} => pc[u] \in WriterPCs
        BY DEF ListLockInv, ListPlace, WriterPCs
      <3>2. QED
        BY <1>6, <3>1, OneHolder DEF WriterPCs
    <2>7. ListPlace(t)'
      BY <2>3, <2>4 DEF ListPlace, Looking
    <2>8. QED
      BY <1>2, <1>3, <2>1, <2>4, <2>5, <2>6, <2>7, LockKept
  <1>7. CASE pc[t] \notin {"write_lock", "write_cas", "faa"}
    <2>1. pc[t] \in {"idle", "validated", "refused", "writing", "reading"}
      BY <1>1, <1>4, <1>7 DEF ListPlace
    <2>2. QED
      BY <2>1 DEF ListInsideCall, LockStep, WriteLoad, WriteCas, TryCas, UnlockReset, UnlockFaa,
                  ReadLoad
  <1>8. QED
    BY <1>5, <1>6, <1>7

(* read_unlock: in a group of readers only, the version is what it was.     *)
LEMMA ListReadEnds ==
    ASSUME ListRoleInv, ListRoleInv', ListLockInv, NEW t \in Threads, ListThreadStep(t),
           ListEndRead(t)
    PROVE  ListLockInv' /\ (group = "readers" => refused' = refused)
  <1>1. /\ ListPlace(t) /\ ListBenchTypeOK /\ vlock \in Locks /\ TypeOK /\ at[t] = vlock
        /\ LockInv /\ wrapped = {}
    BY TheOnlyLock DEF ListLockInv, LockInv, ListRoleInv, TypeOK
  <1>2. /\ UNCHANGED <<version, wrapped, keys, group>> /\ vlock' = vlock
        /\ pc[t] = "reading" /\ doing[t] = "validate"
    BY DEF ListEndRead, ReadUnlock, Does, vlock
  <1>3. ~aborted'
    <2>1. LockInv'
      BY ListStepIsLockStep, LockStepInv DEF ListLockInv
    <2>2. QED
      BY <1>1, <1>2, <2>1 DEF LockInv, AbortsOnlyAfterReset
  <1>4. pc'[t] = IF seen[t] = version[vlock] THEN "validated" ELSE "refused"
    BY <1>1, <1>3 DEF ListEndRead, ReadUnlock, Validates, Move, TypeOK
  <1>5. /\ doing'[t] = "none"
        /\ pc'[t] = "validated" => refused' = refused
    BY <1>1, <1>4 DEF ListEndRead, NextIteration, Goes, ListBenchTypeOK
  <1>6. ListPlace(t)'
    BY <1>4, <1>5 DEF ListPlace, Looking
  <1>7. Len(keys) \in Nat
    BY <1>1, ListLengths
  <1>8. ListLockInv'
    BY <1>2, <1>6, <1>7, LockKept
  <1>9. group = "readers" => seen[t] = version[vlock]
    BY <1>1, <1>2 DEF ListPlace
  <1>10. QED
    BY <1>4, <1>5, <1>8, <1>9

-----------------------------------------------------------------------------
(* Either group of writers has n_threads of them. *)
LEMMA ListWritersCounted ==
    /\ IsFiniteSet(ListWriters)
    /\ group \in {"writers", "both"} => Cardinality(ListWriters) = n_threads
    /\ group \in {"readers", "done"} => ListWriters = {}
  <1>1. n_threads \in Nat /\ n_threads >= 1 /\ Threads = 0 .. 2 * n_threads - 1
    BY ListBenchAssumption
  <1>2. IsFiniteSet(ListWriters)
    BY TestAssumption, FS_Subset DEF ListWriters
  <1>3. \A a, b \in Int : b - a + 1 = n_threads => Cardinality(a .. b) = n_threads
    <2> SUFFICES ASSUME NEW a \in Int, NEW b \in Int, b - a + 1 = n_threads
                 PROVE  Cardinality(a .. b) = n_threads
      OBVIOUS
    <2>1. Cardinality(a .. b) = IF a > b THEN 0 ELSE b - a + 1
      BY FS_Interval
    <2>2. ~(a > b)
      BY <1>1
    <2>3. QED
      BY <2>1, <2>2
  <1>4. CASE group = "writers"
    <2>1. ListWriters = 0 .. n_threads - 1
      BY <1>1, <1>4 DEF ListWriters, ListWriter
    <2>2. 0 \in Int /\ n_threads - 1 \in Int /\ (n_threads - 1) - 0 + 1 = n_threads
      BY <1>1
    <2>3. QED
      BY <1>2, <1>3, <1>4, <2>1, <2>2
  <1>5. CASE group = "both"
    <2>1. ListWriters = n_threads .. 2 * n_threads - 1
      BY <1>1, <1>5 DEF ListWriters, ListWriter
    <2>2. /\ n_threads \in Int /\ 2 * n_threads - 1 \in Int
          /\ (2 * n_threads - 1) - n_threads + 1 = n_threads
      BY <1>1
    <2>3. QED
      BY <1>2, <1>3, <1>5, <2>1, <2>2
  <1>6. CASE group \notin {"writers", "both"}
    BY <1>2, <1>6 DEF ListWriters, ListWriter
  <1>7. QED
    BY <1>4, <1>5, <1>6

(* The inserts of a group, and those of them that are done. *)
LEMMA ListInsertsAreFinite ==
    /\ IsFiniteSet(ListInserts) /\ IsFiniteSet(ListDone)
    /\ Cardinality(ListDone) \in Nat /\ Cardinality(ListInserts) \in Nat
    /\ Cardinality(ListDone) <= Cardinality(ListInserts)
    /\ group \in {"writers", "both"} => Cardinality(ListInserts) = n_threads * Inserts(group)
    /\ group \in {"readers", "done"} => Cardinality(ListInserts) = 0
  <1>1. Inserts(group) \in Nat
    BY BenchSizes DEF Inserts
  <1>2. /\ IsFiniteSet(ListInserts)
        /\ Cardinality(ListInserts) = Cardinality(ListWriters) * Inserts(group)
    BY <1>1, ListWritersCounted, PairsAreFinite DEF ListInserts
  <1>3. IsFiniteSet(ListDone) /\ Cardinality(ListDone) <= Cardinality(ListInserts)
    BY <1>2, FS_Subset DEF ListDone
  <1>4. Cardinality(ListDone) \in Nat /\ Cardinality(ListInserts) \in Nat
    BY <1>2, <1>3, FS_CardinalityType
  <1>5. group \in {"readers", "done"} => ListInserts = {}
    BY ListWritersCounted DEF ListInserts
  <1>6. QED
    BY <1>2, <1>3, <1>4, <1>5, ListWritersCounted, FS_EmptySet

(* The sums of the groups' inserts. *)
LEMMA ListSums ==
    \E a, m \in Nat :
        /\ a = n_threads * N_NODE_ADD /\ m = n_threads * N_NODE_ADD_MIXED
        /\ ListWrites = a + m
  BY BenchSizes DEF ListWrites

(* There are no more inserts than there are to be. *)
LEMMA InsertsFit ==
    ASSUME ListBenchTypeOK, ListCountInv
    PROVE  InsertsDone <= ListWrites
  <1>1. PICK a \in Nat, m \in Nat : /\ a = n_threads * N_NODE_ADD /\ m = n_threads * N_NODE_ADD_MIXED
                                    /\ ListWrites = a + m
    BY ListSums
  <1>2. group \in Phases /\ LIST_INIT_SIZE \in Nat
    BY BenchSizes DEF ListBenchTypeOK
  <1>3. InsertsDone = ListBefore + Cardinality(ListDone) /\ ListBefore \in Nat
    <2>1. ListBefore \in Nat
      BY <1>1 DEF ListBefore
    <2>2. QED
      BY <1>2, <2>1, ListInsertsAreFinite DEF InsertsDone, ListCountInv
  <1>4. CASE group = "writers"
    BY <1>1, <1>3, <1>4, ListInsertsAreFinite DEF ListBefore, Inserts
  <1>5. CASE group = "both"
    BY <1>1, <1>3, <1>5, ListInsertsAreFinite DEF ListBefore, Inserts
  <1>6. CASE group \in {"readers", "done"}
    BY <1>1, <1>3, <1>6, ListInsertsAreFinite DEF ListBefore
  <1>7. QED
    BY <1>2, <1>4, <1>5, <1>6 DEF Phases

(* A step that saves no key, in a group that goes on. *)
LEMMA NothingPushed ==
    ASSUME ListCountInv, UNCHANGED <<keys, group>>,
           \A u \in ListWriters : \A j \in Nat : Pushed(u, j)' <=> Pushed(u, j)
    PROVE  ListCountInv'
  <1>1. ListInserts' = ListInserts /\ ListBefore' = ListBefore
    BY DEF ListInserts, ListWriters, ListWriter, Inserts, ListBefore
  <1>2. \A p \in ListInserts : p[1] \in ListWriters /\ p[2] \in Nat
    BY BenchSizes DEF ListInserts, Inserts
  <1>3. ListDone' = ListDone
    BY <1>1, <1>2 DEF ListDone
  <1>4. QED
    BY <1>1, <1>3 DEF ListCountInv

(* A key saved is an insert done (test.cc:140-141). *)
LEMMA KeyPushed ==
    ASSUME ListRoleInv, TypeOK, ListCountInv, NEW t \in Threads, ListThreadStep(t),
           PushKey(t), Len(keys') = Len(keys) + 1
    PROVE  ListCountInv'
  <1>1. ListBenchTypeOK /\ ListThreadInv(t)
    BY DEF ListRoleInv
  <1>2. /\ UNCHANGED <<group, range>> /\ doing[t] = "push" /\ doing'[t] = "unlock"
        /\ \A u \in Threads \ {t} : UNCHANGED <<range[u], doing[u]>>
    BY <1>1, ListFrame DEF PushKey, Does, Goes, ListBenchTypeOK
  <1>3. ListWriter(group, t) /\ range[t].i < Inserts(group)
    BY <1>1, <1>2 DEF ListThreadInv, Inserting
  <1>4. PICK m : m = range[t].i
    OBVIOUS
  <1>5. m \in Nat /\ m \in 0 .. Inserts(group) - 1
    <2>1. m \in Nat /\ Inserts(group) \in Nat
      BY <1>1, <1>4, BenchSizes DEF ListBenchTypeOK, Inserts
    <2>2. QED
      BY <1>3, <1>4, <2>1
  <1>6. PICK q : q = <<t, m>>
    OBVIOUS
  <1>7. q \in ListInserts /\ q[1] = t /\ q[2] = m
    BY <1>3, <1>5, <1>6 DEF ListInserts, ListWriters
  <1>8. ListInserts' = ListInserts /\ ListBefore' = ListBefore
    BY <1>2 DEF ListInserts, ListWriters, ListWriter, Inserts, ListBefore
  <1>9. ~Pushed(t, m) /\ Pushed(t, m)'
    BY <1>2, <1>4, <1>5 DEF Pushed
  <1>10. \A u \in Threads : \A j : <<u, j>> # q => (Pushed(u, j)' <=> Pushed(u, j))
    BY <1>2, <1>4, <1>6 DEF Pushed
  <1>11. ListDone' = ListDone \union {q}
    <2>1. ASSUME NEW p \in ListInserts, p # q PROVE Pushed(p[1], p[2])' <=> Pushed(p[1], p[2])
      <3>1. PICK u \in Threads, j \in 0 .. Inserts(group) - 1 : p = <<u, j>>
        BY DEF ListInserts, ListWriters
      <3>2. QED
        BY <1>10, <2>1, <3>1
    <2>2. ListDone' = {p \in ListInserts : Pushed(p[1], p[2])'}
      BY <1>8 DEF ListDone
    <2>3. Pushed(q[1], q[2])'
      BY <1>7, <1>9
    <2>4. QED
      BY <1>7, <2>1, <2>2, <2>3 DEF ListDone
  <1>12. Cardinality(ListDone') = Cardinality(ListDone) + 1
    <2>1. q \notin ListDone
      BY <1>7, <1>9 DEF ListDone
    <2>2. QED
      BY <1>11, <2>1, ListInsertsAreFinite, FS_AddElement
  <1>13. ListBefore \in Nat /\ Cardinality(ListDone) \in Nat /\ LIST_INIT_SIZE \in Nat
    <2>1. PICK a \in Nat, b \in Nat : /\ a = n_threads * N_NODE_ADD
                                      /\ ListWrites = a + b
      BY ListSums
    <2>2. ListBefore \in Nat
      BY <2>1 DEF ListBefore
    <2>3. QED
      BY <2>2, ListInsertsAreFinite, BenchSizes
  <1>14. QED
    BY <1>8, <1>12, <1>13 DEF ListCountInv

(* The count through the steps of a thread.                                 *)
LEMMA ListCountStep ==
    ASSUME ListRoleInv, TypeOK, ListCountInv, NEW t \in Threads, ListThreadStep(t), ListPlace(t),
           PushKey(t) => Len(keys') = Len(keys) + 1
    PROVE  ListCountInv'
  <1>1. ListBenchTypeOK /\ ListThreadInv(t)
    BY DEF ListRoleInv
  <1>2. /\ UNCHANGED group
        /\ \A u \in Threads \ {t} : UNCHANGED <<range[u], doing[u]>>
    BY <1>1, ListFrame
  <1>3. ASSUME keys' = keys, \A j \in Nat : ListWriter(group, t) => (Pushed(t, j)' <=> Pushed(t, j))
        PROVE  ListCountInv'
    <2>1. \A u \in ListWriters \ {t} : \A j \in Nat : Pushed(u, j)' <=> Pushed(u, j)
      BY <1>2 DEF ListWriters, Pushed
    <2>2. QED
      BY <1>2, <1>3, <2>1, NothingPushed DEF ListWriters
  <1>4. CASE PushKey(t)
    BY <1>4, KeyPushed
  <1>5. CASE ListBeginWrite(t) \/ AllocNode(t) \/ LinkNode(t) \/ ListEndWrite(t)
    <2>1. /\ UNCHANGED <<keys, range>>
          /\ doing'[t] \in {"unlock", "release"} <=> doing[t] \in {"unlock", "release"}
      BY <1>1, <1>5 DEF ListBeginWrite, AllocNode, LinkNode, ListEndWrite, Iterates, Does, Goes,
                        ListBenchTypeOK
    <2>2. QED
      BY <1>3, <2>1 DEF Pushed
  <1>6. CASE ListInsideCall(t)
    <2>1. keys' = keys
      BY <1>6 DEF ListInsideCall
    <2>2. CASE pc[t] = "faa"
      <3>1. doing[t] = "release"
        BY <1>1, <2>2 DEF ListPlace, ListBenchTypeOK, Looking
      <3>2. range'[t].i = range[t].i + 1 /\ doing'[t] = "none" /\ range[t].i \in Nat
        BY <1>1, <1>6, <2>2 DEF ListInsideCall, NextIteration, Goes, ListBenchTypeOK
      <3>3. \A j \in Nat : j < range[t].i + 1 <=> (j < range[t].i \/ j = range[t].i)
        BY <3>2
      <3>4. \A j \in Nat : Pushed(t, j)' <=> Pushed(t, j)
        BY <3>1, <3>2, <3>3 DEF Pushed
      <3>5. QED
        BY <1>3, <2>1, <3>4
    <2>3. CASE pc[t] # "faa"
      BY <1>3, <1>6, <2>1, <2>3 DEF ListInsideCall, Pushed
    <2>4. QED
      BY <2>2, <2>3
  <1>7. CASE LoadFirst(t) \/ ListBeginRead(t) \/ StartWalk(t) \/ WalkNode(t) \/ ListEndRead(t)
    <2>1. keys' = keys
      BY <1>7 DEF LoadFirst, ListBeginRead, StartWalk, WalkNode, ListEndRead
    <2>2. ListReader(group, t)
      BY <1>1, <1>7 DEF LoadFirst, ListBeginRead, StartWalk, WalkNode, ListEndRead, Does,
                        ListThreadInv, Looking
    <2>3. QED
      BY <1>3, <2>1, <2>2, ListRoles
  <1>8. QED
    BY <1>4, <1>5, <1>6, <1>7 DEF ListThreadStep

-----------------------------------------------------------------------------
(* A step of one thread keeps the order, the count and the lock in place.   *)
LEMMA ListThreadKeeps ==
    ASSUME ListDataInv, ListLockInv, NEW t \in Threads, ListThreadStep(t)
    PROVE  ListDataInv' /\ ListLockInv'
  <1>1. /\ ListRoleInv /\ ListCountInv /\ ~unequal /\ TypeOK /\ ListPlace(t)
        /\ ListBenchTypeOK /\ ListThreadInv(t)
        /\ group \in {"writers", "readers"} => ~refused
    BY DEF ListDataInv, ListLockInv, LockInv, ListRoleInv
  <1>2. PICK s : OrderInv(s)
    BY DEF ListDataInv
  <1>3. UNCHANGED group
    BY <1>1, ListFrame
  <1> DEFINE Writing == \/ ListBeginWrite(t) \/ AllocNode(t) \/ LinkNode(t) \/ PushKey(t)
                        \/ ListEndWrite(t)
             Reading == \/ LoadFirst(t) \/ ListBeginRead(t) \/ StartWalk(t) \/ WalkNode(t)
                        \/ ListEndRead(t)
  <1>4. Writing \/ Reading \/ (ListInsideCall(t) /\ ListPlace(t))
    BY <1>1 DEF ListThreadStep
  <1>5. AllocNode(t) \/ LinkNode(t) \/ PushKey(t) => Alone(t)
    <2>1. AllocNode(t) \/ LinkNode(t) \/ PushKey(t) => pc[t] = "writing"
      BY <1>1 DEF AllocNode, MayInsert, LinkNode, PushKey, Does, ListPlace
    <2>2. QED
      BY <2>1, InsertAlone
  <1>6. PushKey(t) => Len(keys') = Len(keys) + 1
    BY <1>1, <1>2, <1>5, PushOrder
  <1>7. ListRoleInv'
    BY <1>1, <1>4, ListWriterRole, ListReaderRole
  <1>8. ListCountInv'
    BY <1>1, <1>6, ListCountStep
  <1>9. \E r : OrderInv(r)'
    <2>1. CASE AllocNode(t)
      BY <1>1, <1>2, <1>5, <2>1, AllocOrder
    <2>2. CASE LinkNode(t)
      BY <1>1, <1>2, <1>5, <2>2, LinkOrder
    <2>3. CASE PushKey(t)
      BY <1>1, <1>2, <1>5, <2>3, PushOrder
    <2>4. CASE ListBeginWrite(t) \/ ListEndWrite(t) \/ (ListInsideCall(t) /\ ListPlace(t))
      BY <1>1, <1>2, <2>4, LockOrder
    <2>5. CASE Reading
      BY <1>1, <1>2, <2>5, ReaderOrder
    <2>6. QED
      BY <1>4, <2>1, <2>2, <2>3, <2>4, <2>5
  <1>10. ~unequal'
    <2>1. CASE Reading
      BY <1>1, <1>2, <2>1, ReaderOrder
    <2>2. CASE ~Reading
      BY <1>1, <1>4, <2>2 DEF ListBeginWrite, AllocNode, LinkNode, PushKey, ListEndWrite, ListInsideCall
    <2>3. QED
      BY <2>1, <2>2
  <1>11. group \in {"writers", "readers"} => ~refused'
    <2>1. CASE ListEndRead(t)
      <3>1. ListReader(group, t)
        BY <1>1, <2>1 DEF ListEndRead, Does, ListThreadInv, Looking
      <3>2. group = "readers" => refused' = refused
        BY <1>1, <1>7, <2>1, ListReadEnds
      <3>3. QED
        BY <1>1, <3>1, <3>2, ListRoles
    <2>2. CASE ~ListEndRead(t)
      <3>1. refused' = refused
        BY <1>4, <2>2 DEF ListBeginWrite, AllocNode, LinkNode, PushKey, ListEndWrite, ListInsideCall,
                          LoadFirst, ListBeginRead, StartWalk, WalkNode
      <3>2. QED
        BY <1>1, <3>1
    <2>3. QED
      BY <2>1, <2>2
  <1>12. ListLockInv'
    <2>1. CASE AllocNode(t) \/ LinkNode(t) \/ PushKey(t) \/ LoadFirst(t) \/ StartWalk(t) \/ WalkNode(t)
      BY <1>1, <1>6, <1>7, <2>1, BetweenCalls
    <2>2. CASE ListBeginWrite(t) \/ ListBeginRead(t)
      BY <1>1, <1>7, <2>2, CallsBegin
    <2>3. CASE ListEndWrite(t)
      BY <1>1, <1>7, <2>3, ListUnlock, InsertsFit
    <2>4. CASE ListInsideCall(t)
      BY <1>1, <1>7, <2>4, ListInside
    <2>5. CASE ListEndRead(t)
      BY <1>1, <1>7, <2>5, ListReadEnds
    <2>6. QED
      BY <2>1, <2>2, <2>3, <2>4, <2>5 DEF ListThreadStep
  <1>13. ListDataInv'
    BY <1>3, <1>7, <1>8, <1>9, <1>10, <1>11 DEF ListDataInv
  <1>14. QED
    BY <1>12, <1>13

-----------------------------------------------------------------------------
(* The readers' shares are inside the vector.                               *)
LEMMA KeyShares ==
    ASSUME NEW ks \in Seq(Keys), NEW t \in Threads
    PROVE  /\ KeyShare(ks) * t \in Nat /\ KeyShare(ks) * (t + 1) \in Nat
           /\ KeyShare(ks) * t <= KeyShare(ks) * (t + 1)
           /\ t < n_threads => KeyShare(ks) * (t + 1) <= Len(ks)
  <1>1. PICK q : q = KeyShare(ks)
    OBVIOUS
  <1>2. t \in Nat /\ n_threads \in Nat \ {0} /\ Len(ks) \in Nat
    BY ListRoles, BenchSizes, LenProperties
  <1>3. \A n \in Nat \ {0} : \A l \in Nat : l \div n \in Nat /\ (l \div n) * n <= l
    OBVIOUS
  <1>4. q \in Nat /\ q * n_threads <= Len(ks)
    BY <1>1, <1>2, <1>3 DEF KeyShare
  <1>5. \A a, b, c \in Nat : a <= b => c * a <= c * b
    OBVIOUS
  <1>6. q * t \in Nat /\ q * (t + 1) \in Nat /\ q * n_threads \in Nat
    BY <1>2, <1>4
  <1>7. q * t <= q * (t + 1)
    BY <1>2, <1>4, <1>5
  <1>8. t < n_threads => q * (t + 1) <= q * n_threads
    BY <1>2, <1>4, <1>5
  <1>9. t < n_threads => q * (t + 1) <= Len(ks)
    BY <1>2, <1>4, <1>6, <1>8
  <1>10. QED
    BY <1>1, <1>6, <1>7, <1>9

(* The loops that main starts.                                              *)
LEMMA NewRanges ==
    ASSUME NEW g \in Phases, NEW ks \in Seq(Keys)
    PROVE  /\ Ranges(g, ks) \in [Threads -> [i : Nat, end : Nat]]
           /\ \A t \in Threads :
                  /\ Ranges(g, ks)[t].i <= Ranges(g, ks)[t].end
                  /\ ListReader(g, t) => Ranges(g, ks)[t].end <= Len(ks)
                  /\ ListWriter(g, t) => Ranges(g, ks)[t] = [i |-> 0, end |-> Inserts(g)]
  <1>1. ASSUME NEW t \in Threads
        PROVE  /\ Ranges(g, ks)[t] \in [i : Nat, end : Nat]
               /\ Ranges(g, ks)[t].i <= Ranges(g, ks)[t].end
               /\ ListReader(g, t) => Ranges(g, ks)[t].end <= Len(ks)
               /\ ListWriter(g, t) => Ranges(g, ks)[t] = [i |-> 0, end |-> Inserts(g)]
    <2>1. CASE ListWriter(g, t)
      <3>1. Ranges(g, ks)[t] = [i |-> 0, end |-> Inserts(g)] /\ ~ListReader(g, t)
        BY <2>1, ListRoles DEF Ranges
      <3>2. QED
        BY <2>1, <3>1, ListRoles
    <2>2. CASE ListReader(g, t)
      <3>1. /\ Ranges(g, ks)[t] = [i |-> KeyShare(ks) * t, end |-> KeyShare(ks) * (t + 1)]
            /\ ~ListWriter(g, t) /\ t < n_threads
        BY <2>2, ListRoles DEF Ranges, ListReader
      <3>2. QED
        BY <3>1, KeyShares
    <2>3. CASE ~ListWriter(g, t) /\ ~ListReader(g, t)
      <3>1. Ranges(g, ks)[t] = [i |-> 0, end |-> 0]
        BY <2>3 DEF Ranges
      <3>2. QED
        BY <2>3, <3>1
    <2>4. QED
      BY <2>1, <2>2, <2>3
  <1>2. Ranges(g, ks) \in [Threads -> [i : Nat, end : Nat]]
    BY <1>1 DEF Ranges
  <1>3. QED
    BY <1>1, <1>2

(* What joined threads have inserted: all there is to insert.               *)
LEMMA ListJoinedCount ==
    ASSUME ListRoleInv, ListJoined
    PROVE  /\ ListDone = ListInserts
           /\ ListBefore + Cardinality(ListDone) =
                  n_threads * (IF group \in {"writers", "readers"} THEN N_NODE_ADD
                               ELSE N_NODE_ADD + N_NODE_ADD_MIXED)
  <1>1. ListDone = ListInserts
    <2>1. ASSUME NEW p \in ListInserts PROVE Pushed(p[1], p[2])
      <3>1. /\ p[1] \in Threads /\ ListWriter(group, p[1])
            /\ p[2] \in Nat /\ p[2] < Inserts(group)
        BY BenchSizes DEF ListInserts, ListWriters, Inserts
      <3>2. range[p[1]].i = Inserts(group)
        BY <3>1 DEF ListRoleInv, ListThreadInv, ListJoined
      <3>3. QED
        BY <3>1, <3>2 DEF Pushed
    <2>2. QED
      BY <2>1 DEF ListDone
  <1>2. PICK a \in Nat, m \in Nat : /\ a = n_threads * N_NODE_ADD /\ m = n_threads * N_NODE_ADD_MIXED
                                    /\ ListWrites = a + m
    BY ListSums
  <1>3. n_threads * (N_NODE_ADD + N_NODE_ADD_MIXED) = a + m
    BY <1>2 DEF ListWrites
  <1>4. group \in Phases
    BY DEF ListRoleInv, ListBenchTypeOK
  <1>5. CASE group = "writers"
    BY <1>1, <1>2, <1>5, ListInsertsAreFinite DEF ListBefore, Inserts
  <1>6. CASE group = "readers"
    BY <1>1, <1>2, <1>6, ListInsertsAreFinite DEF ListBefore
  <1>7. CASE group = "both"
    BY <1>1, <1>2, <1>3, <1>7, ListInsertsAreFinite DEF ListBefore, Inserts
  <1>8. CASE group = "done"
    BY <1>1, <1>2, <1>3, <1>8, ListInsertsAreFinite DEF ListBefore
  <1>9. QED
    BY <1>1, <1>4, <1>5, <1>6, <1>7, <1>8 DEF Phases

(* pthread_join and pthread_create.                                         *)
LEMMA ListJoinKeeps ==
    ASSUME ListDataInv, ListJoinAndSpawn
    PROVE  ListDataInv' /\ (ListLockInv => ListLockInv')
  <1>1. /\ ListRoleInv /\ ListCountInv /\ ~unequal /\ ListBenchTypeOK /\ ListJoined
        /\ group # "done" /\ group \in Phases /\ keys \in Seq(Keys)
        /\ group \in {"writers", "readers"} => ~refused
    BY DEF ListDataInv, ListRoleInv, ListBenchTypeOK, ListJoinAndSpawn
  <1>2. /\ group' = NextPhase(group) /\ group' \in Phases
        /\ range' = Ranges(group', keys)
        /\ first' = [t \in Threads |-> Unloaded]
        /\ UNCHANGED <<lockVars, listVars, doing, keys, node, refused, unequal>>
        /\ \A t \in Threads : doing[t] = "none"
    BY <1>1 DEF ListJoinAndSpawn, NextPhase, Phases, ListJoined, Does
  <1>3. PICK g, r : g = group' /\ r = Ranges(g, keys)
    OBVIOUS
  <1>4. /\ r \in [Threads -> [i : Nat, end : Nat]]
        /\ \A t \in Threads :
               /\ r[t].i <= r[t].end
               /\ ListReader(g, t) => r[t].end <= Len(keys)
               /\ ListWriter(g, t) => r[t] = [i |-> 0, end |-> Inserts(g)]
    BY <1>1, <1>2, <1>3, NewRanges
  <1>5. group' = g /\ range' = r /\ g \in Phases
    BY <1>2, <1>3
  <1>6. ListBenchTypeOK'
    <2>1. ListTypeOK'
      BY <1>1, <1>2 DEF ListBenchTypeOK, ListTypeOK, listVars, Pointers
    <2>2. QED
      BY <1>1, <1>2, <1>4, <1>5, <2>1 DEF ListBenchTypeOK, Pointers
  <1>7. \A t \in Threads : ListThreadInv(t)'
    BY <1>2, <1>4, <1>5 DEF ListThreadInv, Inserting, Looking
  <1>8. ListCountInv'
    <2>1. ListDone' = {}
      <3>1. ASSUME NEW p \in ListInserts' PROVE ~Pushed(p[1], p[2])'
        <4>1. p[1] \in Threads /\ ListWriter(g, p[1]) /\ p[2] \in 0 .. Inserts(g) - 1
          BY <1>5, <3>1 DEF ListInserts, ListWriters, ListWriter, Inserts
        <4>2. range'[p[1]].i = 0 /\ doing'[p[1]] = "none" /\ p[2] \in Nat
          BY <1>2, <1>4, <1>5, <4>1, BenchSizes DEF Inserts
        <4>3. QED
          BY <4>2 DEF Pushed
      <3>2. QED
        BY <3>1 DEF ListDone
    <2>2. PICK a \in Nat, m \in Nat : /\ a = n_threads * N_NODE_ADD /\ m = n_threads * N_NODE_ADD_MIXED
                                      /\ ListWrites = a + m
      BY ListSums
    <2>3. n_threads * (N_NODE_ADD + N_NODE_ADD_MIXED) = a + m
      BY <2>2 DEF ListWrites
    <2>4. ListBefore' = ListBefore + Cardinality(ListDone)
      <3>1. CASE group = "writers"
        BY <1>1, <1>2, <2>2, <3>1, ListJoinedCount DEF ListBefore, NextPhase
      <3>2. CASE group = "readers"
        BY <1>1, <1>2, <2>2, <3>2, ListJoinedCount DEF ListBefore, NextPhase
      <3>3. CASE group = "both"
        BY <1>1, <1>2, <2>2, <2>3, <3>3, ListJoinedCount DEF ListBefore, NextPhase
      <3>4. QED
        BY <1>1, <3>1, <3>2, <3>3 DEF Phases
    <2>5. Cardinality(ListDone') = 0 /\ ListBefore' \in Nat
      BY <2>1, <2>2, FS_EmptySet DEF ListBefore
    <2>6. QED
      BY <1>1, <1>2, <2>4, <2>5 DEF ListCountInv
  <1>9. \E s : OrderInv(s)'
    <2>1. PICK s : OrderInv(s)
      BY DEF ListDataInv
    <2>2. InOrder(s)' /\ Len(s) = Len(keys)
      BY <1>2, <2>1 DEF OrderInv, InOrder, listVars, _list
    <2>3. \A t \in Threads : InPlace(s, t)'
      BY <1>2 DEF InPlace
    <2>4. QED
      BY <1>2, <2>2, <2>3 DEF OrderInv
  <1>10. ~unequal' /\ (group' \in {"writers", "readers"} => ~refused')
    BY <1>1, <1>2 DEF NextPhase, Phases
  <1>11. ListLockInv => ListLockInv'
    <2> SUFFICES ASSUME ListLockInv PROVE ListLockInv'
      OBVIOUS
    <2>1. LockInv'
      <3>1. [Next]_lockVars
        BY <1>2
      <3>2. QED
        BY <3>1, LockStepInv DEF ListLockInv
    <2>2. ASSUME NEW t \in Threads PROVE ListPlace(t)'
      BY <1>2 DEF ListLockInv, ListPlace, Looking, lockVars
    <2>3. QED
      BY <1>2, <2>1, <2>2 DEF ListLockInv, lockVars, InsertsDone, vlock
  <1>12. QED
    BY <1>6, <1>7, <1>8, <1>9, <1>10, <1>11 DEF ListDataInv, ListRoleInv

-----------------------------------------------------------------------------
(* The list as main makes it.                                               *)
LEMMA ListOrderInit ==
    ASSUME MainInit
    PROVE  OrderInv([j \in 1 .. LIST_INIT_SIZE |-> j])
  <1>1. PICK N : N = LIST_INIT_SIZE
    OBVIOUS
  <1>2. PICK s : s = [j \in 1 .. N |-> j]
    OBVIOUS
  <1>3. N \in Nat /\ ListWrites \in Nat
    BY <1>1, BenchSizes, ListSums
  <1>4. \A j \in 1 .. N : j \in Nodes
    BY <1>1, <1>3, ListBenchAssumption
  <1>5. s \in Seq(Nodes) /\ Len(s) = N /\ \A j \in 1 .. N : s[j] = j
    BY <1>2, <1>3, <1>4
  <1>6. /\ head = [b \in Buckets |-> IF N = 0 THEN Nil ELSE N]
        /\ cell = [n \in Nodes |->
                      IF n <= N
                      THEN [key |-> InitKey(n - 1), val |-> InitKey(n - 1),
                            next |-> IF n = 1 THEN Nil ELSE n - 1]
                      ELSE [key |-> Junk, val |-> Junk, next |-> Nil]]
        /\ live = 1 .. N
        /\ keys = [i \in 1 .. N |-> InitKey(i - 1)]
        /\ doing = [t \in Threads |-> "none"] /\ first = [t \in Threads |-> Unloaded]
    BY <1>1 DEF MainInit, ListBenchInit
  <1>7. head[_list] = NodeAt(s, Len(s))
    <2>1. head[_list] = IF N = 0 THEN Nil ELSE N
      BY <1>6, ListBenchAssumption DEF _list
    <2>2. QED
      BY <1>3, <1>5, <2>1 DEF NodeAt
  <1>8. ASSUME NEW j \in 1 .. N
        PROVE  /\ s[j] \in live /\ cell[s[j]].next = NodeAt(s, j - 1)
               /\ cell[s[j]].val = cell[s[j]].key /\ cell[s[j]].key = keys[j]
    <2>1. s[j] = j /\ j \in Nat /\ 1 <= j /\ j <= N /\ j \in Nodes
      BY <1>3, <1>4, <1>5
    <2>2. cell[j] = [key |-> InitKey(j - 1), val |-> InitKey(j - 1),
                     next |-> IF j = 1 THEN Nil ELSE j - 1]
      BY <1>6, <2>1
    <2>3. NodeAt(s, j - 1) = IF j = 1 THEN Nil ELSE j - 1
      BY <1>3, <1>5, <2>1 DEF NodeAt
    <2>4. keys[j] = InitKey(j - 1)
      BY <1>6
    <2>5. QED
      BY <1>6, <2>1, <2>2, <2>3, <2>4
  <1>9. Len(keys) = N
    BY <1>3, <1>6
  <1>10. \A i, j \in 1 .. Len(s) : s[i] = s[j] => i = j
    BY <1>5
  <1>11. InOrder(s)
    <2>1. Len(keys) <= Len(s)
      BY <1>3, <1>5, <1>9
    <2>2. QED
      BY <1>5, <1>7, <1>8, <1>9, <1>10, <2>1 DEF InOrder
  <1>12. \A t \in Threads : InPlace(s, t)
    BY <1>6 DEF InPlace
  <1>13. QED
    BY <1>1, <1>2, <1>5, <1>9, <1>11, <1>12 DEF OrderInv

LEMMA ListRoleInit ==
    ASSUME MainInit
    PROVE  ListRoleInv
  <1>1. PICK N : N = LIST_INIT_SIZE
    OBVIOUS
  <1>2. N \in Nat /\ ListWrites \in Nat
    BY <1>1, BenchSizes, ListSums
  <1>3. /\ head = [b \in Buckets |-> IF N = 0 THEN Nil ELSE N]
        /\ cell = [n \in Nodes |->
                      IF n <= N
                      THEN [key |-> InitKey(n - 1), val |-> InitKey(n - 1),
                            next |-> IF n = 1 THEN Nil ELSE n - 1]
                      ELSE [key |-> Junk, val |-> Junk, next |-> Nil]]
        /\ live = 1 .. N
        /\ keys = [i \in 1 .. N |-> InitKey(i - 1)]
        /\ group = "writers" /\ range = Ranges("writers", keys)
        /\ doing = [t \in Threads |-> "none"] /\ first = [t \in Threads |-> Unloaded]
        /\ node = [t \in Threads |-> Nil] /\ refused = FALSE /\ unequal = FALSE
    BY <1>1 DEF MainInit, ListBenchInit
  <1>4. \A n \in Nodes : n \in Nat /\ n >= 1
    BY <1>1, <1>2, ListBenchAssumption
  <1>5. 1 .. N \subseteq Nodes
    BY <1>1, <1>2, ListBenchAssumption
  <1>6. \A j \in 1 .. N : InitKey(j - 1) \in Keys
    <2>1. \A j \in 0 .. N - 1 : InitKey(j) \in Keys
      BY <1>1, ListBenchKeys DEF InsertedAreKeys
    <2>2. \A j \in 1 .. N : j - 1 \in 0 .. N - 1
      BY <1>2
    <2>3. QED
      BY <2>1, <2>2
  <1>7. keys \in Seq(Keys)
    BY <1>2, <1>3, <1>6
  <1>8. ListTypeOK
    <2>1. head \in [Buckets -> Pointers]
      BY <1>2, <1>3, <1>5 DEF Pointers
    <2>2. ASSUME NEW n \in Nodes
          PROVE  cell[n] \in [key : Keys \union {Junk}, val : Vals \union {Junk}, next : Pointers]
      <3>1. CASE n <= N
        <4>1. n \in 1 .. N /\ (n = 1 \/ n - 1 \in 1 .. N)
          BY <1>2, <1>4, <3>1
        <4>2. (IF n = 1 THEN Nil ELSE n - 1) \in Pointers
          BY <1>5, <4>1 DEF Pointers
        <4>3. InitKey(n - 1) \in Keys /\ InitKey(n - 1) \in Vals
          BY <1>6, <4>1, ListBenchAssumption
        <4>4. QED
          BY <1>3, <3>1, <4>2, <4>3
      <3>2. CASE ~(n <= N)
        BY <1>3, <3>2 DEF Pointers
      <3>3. QED
        BY <3>1, <3>2
    <2>3. live \in SUBSET Nodes
      BY <1>3, <1>5
    <2>4. QED
      BY <1>3, <2>1, <2>2, <2>3 DEF ListTypeOK
  <1>9. PICK r : r = Ranges("writers", keys)
    OBVIOUS
  <1>10. /\ r \in [Threads -> [i : Nat, end : Nat]]
         /\ \A t \in Threads :
                /\ r[t].i <= r[t].end
                /\ ListReader("writers", t) => r[t].end <= Len(keys)
                /\ ListWriter("writers", t) => r[t] = [i |-> 0, end |-> Inserts("writers")]
    BY <1>7, <1>9, NewRanges DEF Phases
  <1>11. range = r
    BY <1>3, <1>9
  <1>12. ListBenchTypeOK
    BY <1>3, <1>7, <1>8, <1>10, <1>11 DEF ListBenchTypeOK, Pointers, Phases
  <1>13. ASSUME NEW t \in Threads PROVE ListThreadInv(t)
    <2>1. group = "writers" /\ doing[t] = "none" /\ first[t] = Unloaded
      BY <1>3
    <2>2. range[t].i <= range[t].end
      BY <1>10, <1>11
    <2>3. ListWriter(group, t) => range[t].end = Inserts(group)
      BY <1>10, <1>11, <2>1
    <2>4. QED
      BY <2>1, <2>2, <2>3 DEF ListThreadInv, Inserting, Looking
  <1>14. QED
    BY <1>12, <1>13 DEF ListRoleInv

LEMMA ListBenchInvInit ==
    ASSUME MainInit
    PROVE  ListBenchInv
  <1>1. ListRoleInv /\ ListBenchTypeOK
    BY ListRoleInit DEF ListRoleInv
  <1>2. /\ keys = [i \in 1 .. LIST_INIT_SIZE |-> InitKey(i - 1)]
        /\ group = "writers" /\ range = Ranges("writers", keys)
        /\ doing = [t \in Threads |-> "none"] /\ refused = FALSE /\ unequal = FALSE
    BY DEF MainInit, ListBenchInit
  <1>3. LIST_INIT_SIZE \in Nat /\ Len(keys) = LIST_INIT_SIZE
    BY <1>2, BenchSizes
  <1>4. ListCountInv
    <2>1. ASSUME NEW p \in ListInserts PROVE ~Pushed(p[1], p[2])
      <3>1. p[1] \in Threads /\ ListWriter("writers", p[1]) /\ p[2] \in Nat
        BY <1>2, <2>1, BenchSizes DEF ListInserts, ListWriters, Inserts
      <3>2. range[p[1]].i = 0 /\ doing[p[1]] = "none"
        <4>1. "writers" \in Phases /\ keys \in Seq(Keys)
          BY <1>1 DEF ListBenchTypeOK, Phases
        <4>2. Ranges("writers", keys)[p[1]] = [i |-> 0, end |-> Inserts("writers")]
          BY <3>1, <4>1, NewRanges
        <4>3. QED
          BY <1>2, <3>1, <4>2
      <3>3. QED
        BY <3>1, <3>2 DEF Pushed
    <2>2. ListDone = {}
      BY <2>1 DEF ListDone
    <2>3. QED
      BY <1>2, <1>3, <2>2, FS_EmptySet DEF ListCountInv, ListBefore
  <1>5. ListDataInv
    BY <1>1, <1>2, <1>4, ListOrderInit DEF ListDataInv
  <1>6. ListLockInv
    <2>1. Init
      BY DEF MainInit, TestInit
    <2>2. LockInv /\ wrapped = {} /\ ~aborted /\ version[vlock] = 0
      BY <2>1, LockInit, TheOnlyLock DEF Init
    <2>3. version[vlock] <= 2 * InsertsDone + 1
      BY <1>3, <2>2 DEF InsertsDone
    <2>4. \A t \in Threads : ListPlace(t)
      BY <1>2, <2>1 DEF Init, ListPlace, Looking
    <2>5. QED
      BY <2>2, <2>3, <2>4 DEF ListLockInv
  <1>7. ~aborted
    BY <1>6 DEF ListLockInv
  <1>8. QED
    BY <1>5, <1>6, <1>7 DEF ListBenchInv

(* When another bench was chosen the list stays as it was made.             *)
LEMMA ListUntouched ==
    ASSUME ListDataInv, UNCHANGED listBenchVars
    PROVE  ListDataInv' /\ (ListLockInv /\ UNCHANGED lockVars => ListLockInv')
  <1>1. UNCHANGED <<head, cell, live, group, range, doing, keys, node, first, refused, unequal>>
    BY DEF listBenchVars, listVars
  <1>2. ListRoleInv'
    BY <1>1 DEF ListDataInv, ListRoleInv, ListBenchTypeOK, ListTypeOK, Pointers, ListThreadInv
  <1>3. ListCountInv'
    BY <1>1 DEF ListDataInv, ListCountInv, ListBefore, ListDone, ListInserts, ListWriters,
                Pushed
  <1>4. \E s : OrderInv(s)'
    <2>1. PICK s : OrderInv(s)
      BY DEF ListDataInv
    <2>2. InOrder(s)'
      BY <1>1, <2>1 DEF OrderInv, InOrder, _list
    <2>3. \A t \in Threads : InPlace(s, t)'
      BY <1>1, <2>1 DEF OrderInv, InPlace, _list, WriterKey
    <2>4. QED
      BY <1>1, <2>1, <2>2, <2>3 DEF OrderInv
  <1>5. ListDataInv'
    BY <1>1, <1>2, <1>3, <1>4 DEF ListDataInv
  <1>6. ASSUME ListLockInv, UNCHANGED lockVars PROVE ListLockInv'
    <2>1. LockInv'
      BY <1>6, LockStepInv DEF ListLockInv
    <2>2. \A t \in Threads : ListPlace(t)'
      BY <1>1, <1>6 DEF ListLockInv, ListPlace, lockVars, InsertsDone, vlock
    <2>3. QED
      BY <1>1, <1>6, <2>1, <2>2 DEF ListLockInv, lockVars, InsertsDone, vlock
  <1>7. QED
    BY <1>5, <1>6

LEMMA ListBenchInvStep ==
    ASSUME ListBenchInv, [MainNext]_allVars
    PROVE  ListBenchInv'
  <1>1. ListDataInv /\ bench' = bench
    BY MainStepIsTestStep DEF ListBenchInv
  <1>2. CASE bench = TEST_VL_LIST
    <2>1. ListLockInv
      BY <1>2 DEF ListBenchInv
    <2>2. \/ UNCHANGED <<listBenchVars, lockVars>>
          \/ (\E t \in Threads : ListThreadStep(t)) \/ ListJoinAndSpawn
      BY <1>2 DEF MainNext, BenchThreadStep, MainStep, allVars, vars,
                  TEST_VL_API, TEST_VL_LIST, TEST_VL_HT
    <2>3. ListDataInv' /\ ListLockInv'
      BY <1>1, <2>1, <2>2, ListThreadKeeps, ListJoinKeeps, ListUntouched
    <2>4. QED
      BY <1>1, <1>2, <2>3 DEF ListBenchInv
  <1>3. CASE bench # TEST_VL_LIST
    <2>1. UNCHANGED listBenchVars
      BY <1>3 DEF MainNext, BenchThreadStep, MainStep, allVars
    <2>2. bench # TEST_VL_API => aborted' = aborted
      BY <1>3 DEF MainNext, BenchThreadStep, MainStep, allVars, vars, lockVars
    <2>3. QED
      BY <1>1, <1>3, <2>1, <2>2, ListUntouched DEF ListBenchInv
  <1>4. QED
    BY <1>2, <1>3

LEMMA ListInvariant == MainSpec => []ListBenchInv
  <1>1. MainInit => ListBenchInv
    BY ListBenchInvInit
  <1>2. ListBenchInv /\ [MainNext]_allVars => ListBenchInv'
    BY ListBenchInvStep
  <1>3. QED
    BY <1>1, <1>2, PTL DEF MainSpec

(* The list bench keeps its types.                                          *)
THEOREM ListTypeCorrect == MainSpec => []ListBenchTypeOK
  <1>1. ListBenchInv => ListBenchTypeOK
    BY DEF ListBenchInv, ListDataInv, ListRoleInv
  <1>2. QED
    BY <1>1, ListInvariant, PTL

(* Every key a reader looks up is found, before read_unlock has said that   *)
(* nothing was written meanwhile, in a list of any size and for any number  *)
(* of threads; no assert fails, and a group of readers alone is never       *)
(* refused (test.cc:149-178).                                               *)
THEOREM KeysAreFoundUnvalidated == MainSpec => []ListBenchPasses
  <1>1. MainInv /\ ListBenchInv => ListBenchPasses
    <2> SUFFICES ASSUME MainInv, ListBenchInv PROVE ListBenchPasses
      OBVIOUS
    <2>1. ~aborted
      BY DEF ListBenchInv, ListLockInv, MainInv, FullInv
    <2>2. QED
      BY <2>1 DEF ListBenchInv, ListDataInv, ListBenchPasses, ListBenchRuns
  <1>2. QED
    BY <1>1, ListInvariant, MainInvariant, PTL

-----------------------------------------------------------------------------
(* From the newest node to the oldest.                                      *)
Backwards(s) == [i \in 1 .. Len(s) |-> s[Len(s) + 1 - i]]

LEMMA BackwardsIsPath ==
    ASSUME NEW next, NEW s \in Seq(Nodes), \A i, j \in 1 .. Len(s) : s[i] = s[j] => i = j,
           \A j \in 1 .. Len(s) : next[s[j]] = NodeAt(s, j - 1)
    PROVE  Path(next, Backwards(s), NodeAt(s, Len(s)))
  <1>1. PICK L, c : L = Len(s) /\ c = Backwards(s)
    OBVIOUS
  <1>2. L \in Nat /\ \A i \in 1 .. L : s[i] \in Nodes
    BY <1>1, LenProperties, ElementOfSeq
  <1>3. \A i \in 1 .. L : L + 1 - i \in 1 .. L
    BY <1>2
  <1>4. c \in Seq(Nodes) /\ Len(c) = L /\ \A i \in 1 .. L : c[i] = s[L + 1 - i]
    BY <1>1, <1>2, <1>3 DEF Backwards
  <1>5. NodeAt(s, L) = NodeAt(c, 1)
    BY <1>1, <1>2, <1>4 DEF NodeAt
  <1>6. ASSUME NEW i \in 1 .. L PROVE next[c[i]] = NodeAt(c, i + 1)
    <2>1. next[c[i]] = NodeAt(s, (L + 1 - i) - 1)
      BY <1>1, <1>3, <1>4
    <2>2. CASE i = L
      BY <1>1, <1>2, <1>4, <2>1, <2>2 DEF NodeAt
    <2>3. CASE i # L
      <3>1. i + 1 \in 1 .. L /\ (L + 1 - i) - 1 \in 1 .. L /\ L + 1 - (i + 1) = (L + 1 - i) - 1
        BY <1>2, <2>3
      <3>2. c[i + 1] = s[L + 1 - (i + 1)]
        BY <1>4, <3>1
      <3>3. NodeAt(c, i + 1) = c[i + 1]
        BY <1>4, <3>1 DEF NodeAt
      <3>4. NodeAt(s, (L + 1 - i) - 1) = s[(L + 1 - i) - 1]
        BY <1>1, <3>1 DEF NodeAt
      <3>5. QED
        BY <2>1, <3>1, <3>2, <3>3, <3>4
    <2>4. QED
      BY <2>2, <2>3
  <1>7. ASSUME NEW i \in 1 .. L, NEW j \in 1 .. L, c[i] = c[j] PROVE i = j
    <2>1. PICK m \in 1 .. L, n \in 1 .. L : m = L + 1 - i /\ n = L + 1 - j
      BY <1>3
    <2>2. s[m] = s[n]
      BY <1>4, <1>7, <2>1
    <2>3. m = n
      BY <1>1, <2>2
    <2>4. QED
      BY <1>2, <2>1, <2>3
  <1>8. QED
    BY <1>1, <1>4, <1>5, <1>6, <1>7 DEF Path

(* How often k is among the first L elements. *)
Times(L, a, k) == Cardinality({i \in 1 .. L : a[i] = k})

(* A sequence has every element as often backwards. *)
LEMMA BackwardsCounts ==
    ASSUME NEW L \in Nat, NEW a, NEW b, NEW k, \A i \in 1 .. L : a[i] = b[L + 1 - i]
    PROVE  Times(L, a, k) = Times(L, b, k)
  <1> DEFINE A == {i \in 1 .. L : a[i] = k}
             B == {i \in 1 .. L : b[i] = k}
             f == [i \in A |-> L + 1 - i]
  <1>1. \A i \in 1 .. L : L + 1 - i \in 1 .. L /\ L + 1 - (L + 1 - i) = i
    OBVIOUS
  <1>2. \A i \in A : L + 1 - i \in B
    BY <1>1
  <1>3. \A i \in B : L + 1 - i \in A
    BY <1>1
  <1>4. f \in [A -> B] /\ \A i \in A : f[i] = L + 1 - i
    BY <1>2
  <1>5. \A i, j \in A : f[i] = f[j] => i = j
    BY <1>1, <1>4
  <1>6. \A j \in B : \E i \in A : f[i] = j
    BY <1>1, <1>3, <1>4
  <1>7. IsFiniteSet(A)
    <2>1. IsFiniteSet(1 .. L)
      BY FS_Interval
    <2>2. QED
      BY <2>1, FS_Subset
  <1>8. ExistsBijection(A, B)
    <2> HIDE DEF A, B, f
    <2> QED
      BY <1>4, <1>5, <1>6 DEF ExistsBijection, Bijection, Injection, Surjection, IsInjective
  <1>9. QED
    BY <1>7, <1>8, FS_Bijection DEF Times

(* All inserts are in the list, and all keys in the vector.                 *)
LEMMA ListComplete ==
    ASSUME ListBenchInv, ListJoined
    PROVE  ListHasAllKeys
  <1>1. ListRoleInv /\ ListBenchTypeOK /\ ListCountInv
    BY DEF ListBenchInv, ListDataInv, ListRoleInv
  <1>2. PICK s : OrderInv(s)
    BY DEF ListBenchInv, ListDataInv
  <1>3. PICK L, c : L = Len(s) /\ c = Backwards(s)
    OBVIOUS
  <1>4. /\ InOrder(s) /\ Len(s) = Len(keys)
        /\ s \in Seq(Nodes) /\ L \in Nat
    BY <1>2, <1>3, LenProperties DEF ListJoined, Does, OrderInv, InOrder
  <1>5. Links \in [Nodes -> Pointers] /\ \A n \in Nodes : Links[n] = cell[n].next
    BY <1>1 DEF ListBenchTypeOK, ListTypeOK, Links
  <1>6. \A j \in 1 .. Len(s) : Links[s[j]] = NodeAt(s, j - 1)
    BY <1>4, <1>5, ElementOfSeq DEF InOrder
  <1>7. Path(Links, c, head[_list])
    BY <1>3, <1>4, <1>6, BackwardsIsPath DEF InOrder
  <1>8. head[_list] \in Pointers
    BY <1>1, ListBenchAssumption DEF ListBenchTypeOK, ListTypeOK, _list
  <1>9. Chain(head[_list]) = c
    BY <1>5, <1>7, <1>8, ReachedIsPath DEF Chain
  <1>10. DOMAIN c = 1 .. L /\ DOMAIN keys = 1 .. L /\ \A i \in 1 .. L : c[i] = s[L + 1 - i]
    BY <1>1, <1>3, <1>4, LenProperties DEF Backwards, ListBenchTypeOK
  <1>11. \A i \in 1 .. L : cell[c[i]].key = keys[L + 1 - i]
    <2>1. \A i \in 1 .. L : L + 1 - i \in 1 .. L
      BY <1>4
    <2>2. QED
      BY <1>3, <1>4, <1>10, <2>1 DEF InOrder
  <1> DEFINE ks == [i \in DOMAIN c |-> cell[c[i]].key]
  <1>12. DOMAIN ks = 1 .. L /\ \A i \in 1 .. L : ks[i] = keys[L + 1 - i]
    BY <1>10, <1>11
  <1>13. ASSUME NEW k \in Keys
         PROVE  Cardinality({i \in DOMAIN ks : ks[i] = k}) =
                    Cardinality({i \in DOMAIN keys : keys[i] = k})
    <2> HIDE DEF ks
    <2>1. Times(L, ks, k) = Times(L, keys, k)
      BY <1>4, <1>12, BackwardsCounts
    <2>2. QED
      BY <1>10, <1>12, <2>1 DEF Times
  <1>14. Len(keys) = LIST_INIT_SIZE + n_threads *
             (CASE group \in {"writers", "readers"} -> N_NODE_ADD
                [] OTHER -> N_NODE_ADD + N_NODE_ADD_MIXED)
    BY <1>1, ListJoinedCount DEF ListCountInv
  <1>15. QED
    BY <1>9, <1>13, <1>14 DEF ListHasAllKeys

(* When all threads are joined the list has one node for every key that was *)
(* pushed to the vector, and those are as many as the groups so far were to *)
(* insert: no concurrent insert loses a node (test.cc:136-141,              *)
(* list.hpp:69-80).                                                         *)
THEOREM NoInsertIsLost == MainSpec => []ListHasAllKeys
  <1>1. ListBenchInv => ListHasAllKeys
    BY ListComplete DEF ListHasAllKeys
  <1>2. QED
    BY <1>1, ListInvariant, PTL
=============================================================================
