------------------------- MODULE VersionLockProofs -------------------------
(***************************************************************************)
(* Proofs about VersionLock for any number of threads and locks and any    *)
(* counter width: LockInv is inductive, and the safety invariants follow.  *)
(***************************************************************************)
EXTENDS VersionLock, TLAPS

-----------------------------------------------------------------------------
(* Arithmetic of the counter.                                              *)

(* Below the overflow the successor is v + 1 and flips the lock bit         *)
(* (version_lock.hpp:67, 87, 108).                                          *)
LEMMA SuccFlips ==
    ASSUME NEW v \in Counter, v < UINT64_MAX
    PROVE  /\ Succ(v) = v + 1
           /\ Succ(v) \in Counter
           /\ Odd(Succ(v)) <=> ~Odd(v)
  BY WidthAssumption DEF Succ, Odd, Counter

(* UINT64_MAX is odd, and so is the value write_unlock resets at            *)
(* (version_lock.hpp:102).                                                  *)
LEMMA ResetPoint ==
    /\ Odd(UINT64_MAX) /\ Odd(UINT64_MAX - 2)
    /\ \A v \in Counter : AtReset(v) <=> v = UINT64_MAX - 2
    /\ \A v \in Counter : ~Odd(v) /\ v <= UINT64_MAX - 2 => v < UINT64_MAX - 2
  BY WidthAssumption DEF Odd, AtReset, Succ, Counter

-----------------------------------------------------------------------------
(* Type correctness.                                                       *)

(* Zero fits a counter of any width. *)
LEMMA ZeroCounter == 0 \in Counter /\ UINT64_MAX \in Counter
  BY WidthAssumption DEF Counter

(* A counter value has a successor among the counter values. *)
LEMMA SuccType == \A v \in Counter : Succ(v) \in Counter
  BY WidthAssumption DEF Succ, Counter

(* Every step keeps the variables in their types. *)
LEMMA TypeStep == TypeOK /\ [Next]_lockVars => TypeOK'
  <1> SUFFICES ASSUME TypeOK, [Next]_lockVars PROVE TypeOK'
    OBVIOUS
  <1> USE DEF TypeOK, PCs, ReadyPCs, WriterPCs, CallPCs, Move, Call, RetryWrite, AfterAssert
  <1>1. CASE UNCHANGED lockVars
    BY <1>1 DEF lockVars
  <1>2. ASSUME NEW t \in Threads, LockStep(t) PROVE TypeOK'
    <2>1. CASE WriteLoad(t)
      BY <2>1, ZeroCounter DEF WriteLoad
    <2>2. CASE WriteCas(t)
      BY <2>2, ZeroCounter, SuccType DEF WriteCas
    <2>3. CASE TryCas(t)
      BY <2>3, ZeroCounter, SuccType DEF TryCas
    <2>4. CASE UnlockReset(t)
      <3>1. version' \in [Locks -> Counter] /\ wrapped' \in SUBSET Locks
        <4>1. CASE CasSucceeds(t)
          BY <2>4, <4>1, ZeroCounter DEF UnlockReset
        <4>2. CASE ~CasSucceeds(t)
          BY <2>4, <4>2 DEF UnlockReset
        <4>3. QED
          BY <4>1, <4>2
      <3>2. AfterAssert(t, seen[t]) /\ UNCHANGED <<at, destroyed>>
        BY <2>4 DEF UnlockReset
      <3>3. pc' \in [Threads -> PCs] /\ seen' \in [Threads -> Counter] /\ aborted' \in BOOLEAN
        BY <3>2, ZeroCounter
      <3>4. QED
        BY <3>1, <3>2, <3>3
    <2>5. CASE UnlockFaa(t)
      BY <2>5, ZeroCounter, SuccType DEF UnlockFaa
    <2>6. CASE ReadLoad(t)
      BY <2>6, ZeroCounter DEF ReadLoad
    <2>7. QED
      BY <1>2, <2>1, <2>2, <2>3, <2>4, <2>5, <2>6 DEF LockStep
  <1>3. ASSUME NEW t \in Threads, ClientStep(t) PROVE TypeOK'
    <2>1. ASSUME NEW l \in Locks, WriteLock(t, l) \/ ReadLock(t, l) PROVE TypeOK'
      BY <2>1, ZeroCounter DEF WriteLock, ReadLock
    <2>2. ASSUME NEW l \in Locks, TryWriteLock(t, l) PROVE TypeOK'
      BY <2>2, ZeroCounter DEF TryWriteLock
    <2>3. ASSUME NEW l \in Locks, TryReadLock(t, l) PROVE TypeOK'
      BY <2>3, ZeroCounter DEF TryReadLock
    <2>4. ASSUME NEW l \in Locks, ReadLockNoWait(t, l) PROVE TypeOK'
      BY <2>4, ZeroCounter DEF ReadLockNoWait
    <2>5. CASE WriteUnlock(t)
      BY <2>5, ZeroCounter DEF WriteUnlock
    <2>6. CASE ReadUnlock(t)
      BY <2>6, ZeroCounter DEF ReadUnlock
    <2>7. QED
      BY <1>3, <2>1, <2>2, <2>3, <2>4, <2>5, <2>6 DEF ClientStep
  <1>4. ASSUME NEW l \in Locks, Destroy(l) PROVE TypeOK'
    BY <1>4, ZeroCounter DEF Destroy
  <1>5. QED
    BY <1>1, <1>2, <1>3, <1>4 DEF Next

-----------------------------------------------------------------------------
(* The inductive invariant.                                                *)

(* The initial states satisfy it. *)
LEMMA LockInit == Init => LockInv
  <1> SUFFICES ASSUME Init PROVE LockInv
    OBVIOUS
  <1>1. TypeOK
    BY ZeroCounter DEF Init, TypeOK, PCs, ReadyPCs
  <1>2. \A l \in Locks : ~Held(l)
    BY DEF Init, Held, Holds, WriterPCs
  <1>3. \A l \in Locks : CounterInv(l)
    BY <1>2, WidthAssumption DEF Init, CounterInv, Odd
  <1>4. QED
    BY <1>1, <1>2, <1>3
       DEF Init, LockInv, MutualExclusion, Held, LocalInv, DestroyedInv,
           Ready, ReadyPCs, AbortsOnlyAfterReset

(* A step of one thread that neither enters nor leaves a critical section   *)
(* and writes nothing shared: every call that begins a write or a read, the *)
(* loads, the swaps that fail, and read_unlock (version_lock.hpp:59,        *)
(* 81-82, 125, 140, 156, 163-174).                                          *)
LEMMA QuietStep ==
    ASSUME LockInv, TypeOK', NEW t \in Threads,
           pc[t] \notin WriterPCs, pc'[t] \notin WriterPCs,
           \A u \in Threads \ {t} : pc'[u] = pc[u] /\ at'[u] = at[u] /\ seen'[u] = seen[u],
           UNCHANGED <<version, aborted, destroyed, wrapped>>,
           Intact(at'[t]) => LocalInv(t)',
           at'[t] \in destroyed => pc'[t] \in ReadyPCs
    PROVE  LockInv'
  <1>1. \A l \in Locks, u \in Threads : Holds(u, l)' <=> Holds(u, l)
    BY DEF Holds
  <1>2. MutualExclusion'
    BY <1>1 DEF LockInv, MutualExclusion, Intact
  <1>3. \A l \in Locks : Held(l)' <=> Held(l)
    BY <1>1 DEF Held
  <1>4. \A l \in Locks : (Intact(l) /\ l \notin destroyed => CounterInv(l))'
    BY <1>3 DEF LockInv, CounterInv, Intact
  <1>5. \A u \in Threads : (Intact(at[u]) => LocalInv(u))'
    <2> SUFFICES ASSUME NEW u \in Threads, u # t PROVE (Intact(at[u]) => LocalInv(u))'
      BY DEF Intact
    <2>1. Intact(at[u]) => LocalInv(u)
      BY DEF LockInv
    <2>2. QED
      BY <2>1 DEF Intact, LocalInv
  <1>6. DestroyedInv'
    BY DEF LockInv, DestroyedInv, Ready
  <1>7. AbortsOnlyAfterReset'
    BY DEF LockInv, AbortsOnlyAfterReset
  <1>8. QED
    BY <1>2, <1>4, <1>5, <1>6, <1>7 DEF LockInv

(* A successful compare-and-swap: thread t takes a free lock               *)
(* (version_lock.hpp:67-68, 87-88).                                         *)
LEMMA AcquireStep ==
    ASSUME LockInv, TypeOK', NEW t \in Threads,
           pc[t] \in {"write_cas", "try_cas"}, CasSucceeds(t),
           version' = [version EXCEPT ![at[t]] = Succ(seen[t])],
           Move(t, "writing", 0),
           UNCHANGED <<at, aborted, destroyed, wrapped>>
    PROVE  LockInv'
  <1> DEFINE l == at[t]
  <1> USE DEF TypeOK, Move, Intact
  <1>1. l \in Locks /\ TypeOK /\ l \notin destroyed
    BY DEF LockInv, DestroyedInv, Ready, ReadyPCs
  <1>2. \A u \in Threads, k \in Locks :
            Holds(u, k)' <=> Holds(u, k) \/ (u = t /\ k = l)
    BY <1>1 DEF Holds, WriterPCs
  <1>3. ASSUME Intact(l)
        PROVE  /\ ~Odd(version[l]) /\ version[l] < UINT64_MAX - 2
               /\ version'[l] = version[l] + 1 /\ Odd(version'[l])
               /\ ~Held(l)
    <2>1. ~Odd(version[l]) /\ version[l] <= UINT64_MAX - 2 /\ seen[t] = version[l]
      BY <1>1, <1>3 DEF LockInv, LocalInv, CasSucceeds
    <2>2. version[l] < UINT64_MAX - 2
      BY <1>1, <2>1, ResetPoint
    <2>3. version[l] < UINT64_MAX
      BY <1>1, <2>2, WidthAssumption DEF Counter
    <2>4. Succ(version[l]) = version[l] + 1 /\ Odd(Succ(version[l]))
      BY <1>1, <2>1, <2>3, SuccFlips
    <2>5. version'[l] = Succ(version[l])
      BY <1>1, <2>1
    <2>6. ~Held(l)
      BY <1>1, <1>3, <2>1 DEF LockInv, CounterInv
    <2>7. QED
      BY <2>1, <2>2, <2>4, <2>5, <2>6
  <1>4. MutualExclusion'
    BY <1>1, <1>2, <1>3 DEF LockInv, MutualExclusion, Held
  <1>5. \A k \in Locks : (Intact(k) /\ k \notin destroyed => CounterInv(k))'
    <2> SUFFICES ASSUME NEW k \in Locks, Intact(k), k \notin destroyed
                 PROVE  CounterInv(k)'
      OBVIOUS
    <2>1. CASE k = l
      <3>1. Held(l)'
        BY <1>1, <1>2 DEF Held
      <3>2. version'[l] <= UINT64_MAX - 2
        BY <1>1, <1>3, <2>1, WidthAssumption DEF Counter
      <3>3. QED
        BY <1>3, <2>1, <3>1, <3>2 DEF CounterInv
    <2>2. CASE k # l
      <3>1. (Held(k)' <=> Held(k)) /\ version'[k] = version[k]
        BY <1>1, <1>2, <2>2 DEF Held
      <3>2. QED
        BY <3>1 DEF LockInv, CounterInv
    <2>3. QED
      BY <2>1, <2>2
  <1>6. \A u \in Threads : (Intact(at[u]) => LocalInv(u))'
    <2> SUFFICES ASSUME NEW u \in Threads, Intact(at[u]) PROVE LocalInv(u)'
      OBVIOUS
    <2>1. CASE u = t
      BY <1>1, <2>1 DEF LocalInv
    <2>2. CASE u # t /\ at[u] = l
      <3>1. pc[u] \notin WriterPCs
        BY <1>1, <1>3, <2>2 DEF Held, Holds
      <3>2. LocalInv(u) /\ pc'[u] = pc[u] /\ at'[u] = l /\ seen'[u] = seen[u]
        BY <1>1, <2>2 DEF LockInv
      <3>3. pc[u] = "reading" => seen'[u] <= version'[at'[u]]
        BY <1>1, <1>3, <2>2, <3>2 DEF LocalInv, Counter
      <3>4. QED
        BY <3>1, <3>2, <3>3 DEF LocalInv, WriterPCs
    <2>3. CASE u # t /\ at[u] # l
      <3>1. LocalInv(u) /\ version'[at[u]] = version[at[u]]
        BY <1>1, <2>3 DEF LockInv
      <3>2. QED
        BY <1>1, <2>3, <3>1 DEF LocalInv
    <2>4. QED
      BY <2>1, <2>2, <2>3
  <1>7. DestroyedInv'
    BY <1>1 DEF LockInv, DestroyedInv, Ready
  <1>8. AbortsOnlyAfterReset'
    BY DEF LockInv, AbortsOnlyAfterReset
  <1>9. QED
    BY <1>4, <1>5, <1>6, <1>7, <1>8 DEF LockInv

(* write_unlock up to its addition: the holder stays the holder, and the    *)
(* assert of version_lock.hpp:105 holds while the counter has not been      *)
(* reset (version_lock.hpp:99-105).                                         *)
LEMMA UnlockStep ==
    ASSUME LockInv, TypeOK', NEW t \in Threads, WriteUnlock(t)
    PROVE  LockInv'
  <1> DEFINE l == at[t]
  <1> USE DEF TypeOK, Move, Intact
  <1>1. l \in Locks /\ TypeOK /\ l \notin destroyed /\ pc[t] = "writing" /\ Held(l)
    BY DEF LockInv, DestroyedInv, Ready, ReadyPCs, WriteUnlock, Held, Holds, WriterPCs
  <1>2. UNCHANGED <<version, at, destroyed, wrapped>>
    BY DEF WriteUnlock
  <1>3. /\ \/ pc' = pc
           \/ pc' = [pc EXCEPT ![t] = "reset"]
           \/ pc' = [pc EXCEPT ![t] = "faa"]
        /\ \A u \in Threads \ {t} : pc'[u] = pc[u] /\ seen'[u] = seen[u]
    BY <1>1 DEF WriteUnlock, AfterAssert
  <1>4. \A u \in Threads, k \in Locks : Holds(u, k)' <=> Holds(u, k)
    BY <1>1, <1>2, <1>3 DEF Holds, WriterPCs
  <1>5. MutualExclusion'
    BY <1>2, <1>4 DEF LockInv, MutualExclusion
  <1>6. \A k \in Locks : (Intact(k) /\ k \notin destroyed => CounterInv(k))'
    <2>1. \A k \in Locks : Held(k)' <=> Held(k)
      BY <1>4 DEF Held
    <2>2. QED
      BY <1>2, <2>1 DEF LockInv, CounterInv
  <1>7. ASSUME Intact(l) PROVE Odd(version[l]) /\ version[l] <= UINT64_MAX - 2
    BY <1>1, <1>7 DEF LockInv, CounterInv
  <1>8. \A u \in Threads : (Intact(at[u]) => LocalInv(u))'
    <2> SUFFICES ASSUME NEW u \in Threads, Intact(at[u]) PROVE LocalInv(u)'
      BY <1>2
    <2>1. CASE u = t
      <3>1. CASE AtReset(version[l])
        BY <1>1, <1>2, <2>1, <3>1, ResetPoint DEF WriteUnlock, LocalInv
      <3>2. CASE ~AtReset(version[l])
        BY <1>1, <1>2, <1>7, <2>1, <3>2, ResetPoint DEF WriteUnlock, AfterAssert, LocalInv
      <3>3. QED
        BY <3>1, <3>2
    <2>2. CASE u # t
      BY <1>2, <1>3, <2>2 DEF LockInv, LocalInv
    <2>3. QED
      BY <2>1, <2>2
  <1>9. DestroyedInv'
    BY <1>1, <1>2, <1>3 DEF LockInv, DestroyedInv, Ready
  <1>10. AbortsOnlyAfterReset'
    BY <1>1, <1>2, <1>7 DEF LockInv, AbortsOnlyAfterReset, WriteUnlock, AfterAssert
  <1>11. QED
    BY <1>5, <1>6, <1>8, <1>9, <1>10 DEF LockInv

(* The reset of write_unlock (version_lock.hpp:103-105): the lock is no     *)
(* longer intact, and the others are not touched.                           *)
LEMMA ResetStep ==
    ASSUME LockInv, TypeOK', NEW t \in Threads, UnlockReset(t)
    PROVE  LockInv'
  <1> DEFINE l == at[t]
  <1> USE DEF TypeOK, Move, Intact
  <1>1. l \in Locks /\ TypeOK /\ l \notin destroyed /\ pc[t] = "reset"
    BY DEF LockInv, DestroyedInv, Ready, ReadyPCs, UnlockReset
  <1>2. l \in wrapped'
    BY <1>1 DEF LockInv, LocalInv, CasSucceeds, UnlockReset
  <1>3. /\ UNCHANGED <<at, destroyed>>
        /\ \A k \in Locks \ {l} : version'[k] = version[k]
        /\ wrapped' = wrapped \union {l}
        /\ \A u \in Threads \ {t} : pc'[u] = pc[u] /\ seen'[u] = seen[u]
    BY <1>1, <1>2 DEF UnlockReset, AfterAssert
  <1>4. \A u \in Threads, k \in Locks \ {l} : Holds(u, k)' <=> Holds(u, k)
    BY <1>3 DEF Holds
  <1>5. MutualExclusion'
    BY <1>3, <1>4 DEF LockInv, MutualExclusion
  <1>6. \A k \in Locks : (Intact(k) /\ k \notin destroyed => CounterInv(k))'
    <2>1. \A k \in Locks \ {l} : Held(k)' <=> Held(k)
      BY <1>4 DEF Held
    <2>2. QED
      BY <1>3, <2>1 DEF LockInv, CounterInv
  <1>7. \A u \in Threads : (Intact(at[u]) => LocalInv(u))'
    BY <1>1, <1>3 DEF LockInv, LocalInv
  <1>8. DestroyedInv'
    BY <1>1, <1>3 DEF LockInv, DestroyedInv, Ready
  <1>9. AbortsOnlyAfterReset'
    BY <1>2 DEF AbortsOnlyAfterReset
  <1>10. QED
    BY <1>5, <1>6, <1>7, <1>8, <1>9 DEF LockInv

(* The addition of write_unlock (version_lock.hpp:108): on an intact lock   *)
(* it makes the counter even and leaves nobody holding it.                  *)
LEMMA ReleaseStep ==
    ASSUME LockInv, TypeOK', NEW t \in Threads, UnlockFaa(t)
    PROVE  LockInv'
  <1> DEFINE l == at[t]
  <1> USE DEF TypeOK, Move, Intact
  <1>1. /\ l \in Locks /\ TypeOK /\ l \notin destroyed
        /\ pc[t] = "faa" /\ Holds(t, l) /\ Held(l)
    BY DEF LockInv, DestroyedInv, Ready, ReadyPCs, UnlockFaa, Held, Holds, WriterPCs
  <1>2. UNCHANGED <<at, aborted, destroyed, wrapped>>
    BY DEF UnlockFaa
  <1>3. \A u \in Threads, k \in Locks :
            Holds(u, k)' <=> Holds(u, k) /\ ~(u = t /\ k = l)
    BY <1>1 DEF UnlockFaa, Holds, WriterPCs
  <1>4. ASSUME Intact(l)
        PROVE  /\ version[l] < UINT64_MAX - 2
               /\ version'[l] = version[l] + 1 /\ ~Odd(version'[l])
               /\ \A u \in Threads : ~Holds(u, at[t])'
    <2>1. Odd(version[l]) /\ version[l] <= UINT64_MAX - 2
      BY <1>1, <1>4 DEF LockInv, CounterInv
    <2>2. version[l] # UINT64_MAX - 2
      BY <1>1, <1>4 DEF LockInv, LocalInv
    <2>3. version[l] < UINT64_MAX - 2 /\ version[l] < UINT64_MAX
      BY <1>1, <2>1, <2>2, WidthAssumption DEF Counter
    <2>4. Succ(version[l]) = version[l] + 1 /\ ~Odd(Succ(version[l]))
      BY <1>1, <2>1, <2>3, SuccFlips
    <2>5. version'[l] = Succ(version[l])
      BY <1>1 DEF UnlockFaa
    <2>6. \A u \in Threads : ~Holds(u, at[t])'
      BY <1>1, <1>2, <1>3, <1>4 DEF LockInv, MutualExclusion
    <2>7. QED
      BY <2>3, <2>4, <2>5, <2>6
  <1>5. \A k \in Locks \ {l} : version'[k] = version[k]
    BY <1>1 DEF UnlockFaa
  <1>6. MutualExclusion'
    BY <1>2, <1>3 DEF LockInv, MutualExclusion
  <1>7. \A k \in Locks : (Intact(k) /\ k \notin destroyed => CounterInv(k))'
    <2> SUFFICES ASSUME NEW k \in Locks, Intact(k), k \notin destroyed
                 PROVE  CounterInv(k)'
      BY <1>2
    <2>1. CASE k = l
      <3>1. version'[l] <= UINT64_MAX - 2
        BY <1>1, <1>4, <2>1, WidthAssumption DEF Counter
      <3>2. ~Held(k)'
        BY <1>2, <1>4, <2>1 DEF Held
      <3>3. QED
        BY <1>2, <1>4, <2>1, <3>1, <3>2 DEF CounterInv
    <2>2. CASE k # l
      <3>1. (Held(k)' <=> Held(k)) /\ version'[k] = version[k]
        BY <1>1, <1>3, <1>5, <2>2 DEF Held
      <3>2. QED
        BY <3>1 DEF LockInv, CounterInv
    <2>3. QED
      BY <2>1, <2>2
  <1>8. \A u \in Threads : (Intact(at[u]) => LocalInv(u))'
    <2> SUFFICES ASSUME NEW u \in Threads, Intact(at[u]) PROVE LocalInv(u)'
      BY <1>2
    <2>1. CASE u = t
      BY <1>1, <2>1 DEF UnlockFaa, LocalInv
    <2>2. CASE u # t /\ at[u] = l
      <3>1. pc'[u] \notin WriterPCs
        BY <1>2, <1>4, <2>2 DEF Holds
      <3>2. LocalInv(u) /\ pc'[u] = pc[u] /\ at'[u] = l /\ seen'[u] = seen[u]
        BY <1>1, <2>2 DEF LockInv, UnlockFaa
      <3>3. pc[u] = "reading" => seen'[u] <= version'[at'[u]]
        BY <1>1, <1>4, <2>2, <3>2 DEF LocalInv, Counter
      <3>4. QED
        BY <3>1, <3>2, <3>3 DEF LocalInv, WriterPCs
    <2>3. CASE u # t /\ at[u] # l
      <3>1. LocalInv(u) /\ version'[at[u]] = version[at[u]]
        BY <1>1, <1>5, <2>3 DEF LockInv
      <3>2. QED
        BY <1>1, <2>3, <3>1 DEF UnlockFaa, LocalInv
    <2>4. QED
      BY <2>1, <2>2, <2>3
  <1>9. DestroyedInv'
    BY <1>1 DEF LockInv, DestroyedInv, Ready, UnlockFaa
  <1>10. AbortsOnlyAfterReset'
    BY <1>2 DEF LockInv, AbortsOnlyAfterReset
  <1>11. QED
    BY <1>6, <1>7, <1>8, <1>9, <1>10 DEF LockInv

(* The destructor (version_lock.hpp:45-47). *)
LEMMA DestroyStep ==
    ASSUME LockInv, TypeOK', NEW l \in Locks, Destroy(l)
    PROVE  LockInv'
  <1> USE DEF TypeOK, Intact
  <1>1. TypeOK /\ \A t \in Threads : at[t] = l => Ready(t)
    BY DEF LockInv, Destroy
  <1>2. /\ UNCHANGED <<pc, at, seen, aborted, wrapped>>
        /\ destroyed' = destroyed \union {l}
        /\ \A k \in Locks \ {l} : version'[k] = version[k]
    BY <1>1 DEF Destroy
  <1>3. \A u \in Threads, k \in Locks : Holds(u, k)' <=> Holds(u, k)
    BY <1>2 DEF Holds
  <1>4. MutualExclusion'
    BY <1>2, <1>3 DEF LockInv, MutualExclusion
  <1>5. \A k \in Locks : (Intact(k) /\ k \notin destroyed => CounterInv(k))'
    <2>1. \A k \in Locks : Held(k)' <=> Held(k)
      BY <1>3 DEF Held
    <2>2. QED
      BY <1>2, <2>1 DEF LockInv, CounterInv
  <1>6. \A u \in Threads : (Intact(at[u]) => LocalInv(u))'
    <2>1. \A u \in Threads : at[u] = l => pc[u] \in ReadyPCs
      BY <1>1 DEF Ready
    <2>2. QED
      BY <1>1, <1>2, <2>1 DEF LockInv, LocalInv, ReadyPCs
  <1>7. DestroyedInv'
    BY <1>1, <1>2 DEF LockInv, DestroyedInv, Ready
  <1>8. QED
    BY <1>2, <1>4, <1>5, <1>6, <1>7 DEF LockInv, AbortsOnlyAfterReset

(* Every step keeps the inductive invariant. *)
LEMMA LockStepInv == LockInv /\ [Next]_lockVars => LockInv'
  <1> SUFFICES ASSUME LockInv, [Next]_lockVars PROVE LockInv'
    OBVIOUS
  <1>1. TypeOK /\ TypeOK'
    BY TypeStep DEF LockInv
  <1>2. CASE UNCHANGED lockVars
    BY <1>2
       DEF lockVars, LockInv, TypeOK, MutualExclusion, Intact, CounterInv, Held, Holds,
           LocalInv, DestroyedInv, Ready, AbortsOnlyAfterReset
  <1>3. ASSUME NEW t \in Threads, LockStep(t) PROVE LockInv'
    <2> USE DEF Move, TypeOK
    <2>0. Intact(at[t]) => LocalInv(t)
      BY DEF LockInv
    <2>1. CASE WriteLoad(t)
      <3>1. at[t] \notin destroyed
        BY <2>1 DEF WriteLoad, LockInv, DestroyedInv, Ready, ReadyPCs
      <3>2. Intact(at[t]) => version[at[t]] <= UINT64_MAX - 2
        BY <1>1, <3>1 DEF LockInv, CounterInv
      <3>3. QED
        BY <1>1, <2>1, <3>1, <3>2, QuietStep DEF WriteLoad, WriterPCs, LocalInv, Intact
    <2>2. CASE WriteCas(t)
      <3>1. CASE CasSucceeds(t)
        BY <1>1, <2>2, <3>1, AcquireStep DEF WriteCas
      <3>2. CASE ~CasSucceeds(t)
        <4>1. at[t] \notin destroyed
          BY <2>2 DEF WriteCas, LockInv, DestroyedInv, Ready, ReadyPCs
        <4>2. QED
          BY <1>1, <2>2, <3>2, <4>1, QuietStep DEF WriteCas, RetryWrite, WriterPCs, LocalInv
      <3>3. QED
        BY <3>1, <3>2
    <2>3. CASE TryCas(t)
      <3>1. CASE CasSucceeds(t)
        BY <1>1, <2>3, <3>1, AcquireStep DEF TryCas
      <3>2. CASE ~CasSucceeds(t)
        BY <1>1, <2>3, <3>2, QuietStep DEF TryCas, WriterPCs, ReadyPCs, LocalInv
      <3>3. QED
        BY <3>1, <3>2
    <2>4. CASE UnlockReset(t)
      BY <1>1, <2>4, ResetStep
    <2>5. CASE UnlockFaa(t)
      BY <1>1, <2>5, ReleaseStep
    <2>6. CASE ReadLoad(t)
      <3>1. at[t] \notin destroyed
        BY <2>6 DEF ReadLoad, LockInv, DestroyedInv, Ready, ReadyPCs
      <3>2. version[at[t]] <= version[at[t]]
        BY <1>1 DEF Counter
      <3>3. QED
        BY <1>1, <2>6, <3>1, <3>2, QuietStep DEF ReadLoad, WriterPCs, LocalInv
    <2>7. QED
      BY <1>3, <2>1, <2>2, <2>3, <2>4, <2>5, <2>6 DEF LockStep
  <1>4. ASSUME NEW t \in Threads, ClientStep(t) PROVE LockInv'
    <2> USE DEF Move, Call, Ready, TypeOK
    <2>1. ASSUME NEW l \in Locks, WriteLock(t, l) \/ ReadLock(t, l) PROVE LockInv'
      BY <1>1, <2>1, QuietStep DEF WriteLock, ReadLock, WriterPCs, ReadyPCs, LocalInv
    <2>2. ASSUME NEW l \in Locks, TryWriteLock(t, l) PROVE LockInv'
      <3>1. Intact(l) => version[l] <= UINT64_MAX - 2
        BY <1>1, <2>2 DEF TryWriteLock, LockInv, CounterInv
      <3>2. QED
        BY <1>1, <2>2, <3>1, QuietStep DEF TryWriteLock, WriterPCs, ReadyPCs, LocalInv, Intact
    <2>3. ASSUME NEW l \in Locks, TryReadLock(t, l) \/ ReadLockNoWait(t, l) PROVE LockInv'
      <3>1. version[l] <= version[l]
        BY <1>1 DEF Counter
      <3>2. QED
        BY <1>1, <2>3, <3>1, QuietStep
           DEF TryReadLock, ReadLockNoWait, WriterPCs, ReadyPCs, LocalInv
    <2>4. CASE WriteUnlock(t)
      BY <1>1, <2>4, UnlockStep
    <2>5. CASE ReadUnlock(t)
      <3>1. CASE seen[t] <= version[at[t]]
        BY <1>1, <2>5, <3>1, QuietStep DEF ReadUnlock, WriterPCs, ReadyPCs, LocalInv
      <3>2. CASE ~(seen[t] <= version[at[t]])
        <4>1. wrapped # {}
          BY <1>1, <2>5, <3>2 DEF LockInv, LocalInv, ReadUnlock, Intact
        <4>2. /\ aborted' = TRUE
              /\ UNCHANGED <<version, pc, at, seen, destroyed, wrapped>>
          BY <2>5, <3>2 DEF ReadUnlock
        <4>3. QED
          BY <1>1, <4>1, <4>2
             DEF LockInv, MutualExclusion, Intact, CounterInv, Held, Holds,
                 LocalInv, DestroyedInv, AbortsOnlyAfterReset
      <3>3. QED
        BY <3>1, <3>2
    <2>6. QED
      BY <1>4, <2>1, <2>2, <2>3, <2>4, <2>5 DEF ClientStep
  <1>5. QED
    BY <1>1, <1>2, <1>3, <1>4, DestroyStep DEF Next

(* A lock whose counter has been reset stays so. *)
LEMMA WrappedGrows == TypeOK /\ [Next]_lockVars => wrapped \subseteq wrapped'
  <1> SUFFICES ASSUME TypeOK, [Next]_lockVars PROVE wrapped \subseteq wrapped'
    OBVIOUS
  <1>1. ASSUME NEW t \in Threads, LockStep(t) PROVE wrapped \subseteq wrapped'
    BY <1>1 DEF LockStep, WriteLoad, WriteCas, TryCas, UnlockReset, UnlockFaa, ReadLoad
  <1>2. ASSUME NEW t \in Threads, ClientStep(t) PROVE wrapped \subseteq wrapped'
    BY <1>2 DEF ClientStep, WriteLock, TryWriteLock, ReadLock, TryReadLock,
                ReadLockNoWait, WriteUnlock, ReadUnlock
  <1>3. QED
    BY <1>1, <1>2 DEF Next, Destroy, lockVars

(* The invariant that all the others follow from. *)
THEOREM LockInvariant == Spec => []LockInv
  <1>1. QED
    BY LockInit, LockStepInv, PTL DEF Spec

(* The counters and local copies stay within their types. *)
THEOREM TypeCorrect == Spec => []TypeOK
  <1>1. LockInv => TypeOK
    BY DEF LockInv
  <1>2. QED
    BY <1>1, LockInvariant, PTL

(* At most one writer holds an intact lock, whatever the interleaving of    *)
(* write_lock, try_write_lock and write_unlock.                             *)
THEOREM WritersExclude == Spec => []MutualExclusion
  <1>1. LockInv => MutualExclusion
    BY DEF LockInv
  <1>2. QED
    BY <1>1, LockInvariant, PTL

(* The lock bit of an intact lock tells the truth: no reader or writer ever *)
(* spins on a lock that nobody will release.                                *)
THEOREM LockBitIsTrue == Spec => []OddIffHeld
  <1>1. LockInv => OddIffHeld
    BY DEF LockInv, OddIffHeld, CounterInv
  <1>2. QED
    BY <1>1, LockInvariant, PTL

(* No assertion of write_unlock or read_unlock fails before some counter    *)
(* has been reset.                                                          *)
THEOREM AssertionsHold == Spec => []AbortsOnlyAfterReset
  <1>1. LockInv => AbortsOnlyAfterReset
    BY DEF LockInv
  <1>2. QED
    BY <1>1, LockInvariant, PTL
=============================================================================
