-------------------- MODULE VersionLockRefinementProofs --------------------
(***************************************************************************)
(* The proof that every version lock implements OptimisticLock, for any    *)
(* number of threads and locks and any counter width.                      *)
(***************************************************************************)
EXTENDS VersionLockRefinement, VersionLockProofs

-----------------------------------------------------------------------------
(* The abstract state.                                                     *)

(* The abstract holder is the thread that holds the lock. *)
LEMMA HolderIs ==
    ASSUME MutualExclusion, Intact(TheLock)
    PROVE  /\ \A t \in Threads : Holds(t, TheLock) => holderBar = t
           /\ ~Held(TheLock) => holderBar = NoThread
           /\ holderBar = NoThread <=> ~Held(TheLock)
           /\ \A t \in Threads : holderBar = t <=> Holds(t, TheLock)
  <1>1. ASSUME NEW t \in Threads, Holds(t, TheLock) PROVE holderBar = t
    <2>1. \A u \in Threads : Holds(u, TheLock) <=> u = t
      BY <1>1, TheLockAssumption DEF MutualExclusion
    <2>2. (CHOOSE u \in Threads : Holds(u, TheLock)) = t
      BY <2>1
    <2>3. QED
      BY <1>1, <2>2 DEF holderBar, Held
  <1>2. ~Held(TheLock) => holderBar = NoThread
    BY DEF holderBar
  <1>3. QED
    BY <1>1, <1>2, TheLockAssumption DEF Held

(* The same after a step. *)
LEMMA HolderIsNext ==
    ASSUME MutualExclusion', Intact(TheLock)'
    PROVE  /\ \A t \in Threads : Holds(t, TheLock)' => holderBar' = t
           /\ ~Held(TheLock)' => holderBar' = NoThread
  <1>1. ASSUME NEW t \in Threads, Holds(t, TheLock)' PROVE holderBar' = t
    <2>1. \A u \in Threads : Holds(u, TheLock)' <=> u = t
      BY <1>1, TheLockAssumption DEF MutualExclusion
    <2>2. (CHOOSE u \in Threads : Holds(u, TheLock)') = t
      BY <2>1
    <2>3. QED
      BY <1>1, <2>2 DEF holderBar, Held
  <1>2. QED
    BY <1>1 DEF holderBar

(* What the abstract reader is, case by case. *)
LEMMA ReaderIs ==
    ASSUME Intact(TheLock), NEW t \in Threads
    PROVE  /\ at[t] # TheLock => readerBar[t] = "out"
           /\ at[t] = TheLock /\ pc[t] \in {"validated", "refused"} => readerBar[t] = pc[t]
           /\ at[t] = TheLock /\ pc[t] = "reading" /\ seen[t] # version[TheLock] =>
                  readerBar[t] = "stale"
           /\ at[t] = TheLock /\ pc[t] = "reading" /\ seen[t] = version[TheLock] =>
                  readerBar[t] = IF Odd(version[TheLock]) THEN "under" ELSE "clean"
           /\ pc[t] \notin {"validated", "refused", "reading"} => readerBar[t] = "out"
  BY DEF readerBar, ReadStatus

(* The same after a step. *)
LEMMA ReaderIsNext ==
    ASSUME Intact(TheLock)', NEW t \in Threads
    PROVE  /\ at'[t] # TheLock => readerBar'[t] = "out"
           /\ at'[t] = TheLock /\ pc'[t] \in {"validated", "refused"} => readerBar'[t] = pc'[t]
           /\ at'[t] = TheLock /\ pc'[t] = "reading" /\ seen'[t] # version'[TheLock] =>
                  readerBar'[t] = "stale"
           /\ at'[t] = TheLock /\ pc'[t] = "reading" /\ seen'[t] = version'[TheLock] =>
                  readerBar'[t] = IF Odd(version'[TheLock]) THEN "under" ELSE "clean"
           /\ pc'[t] \notin {"validated", "refused", "reading"} => readerBar'[t] = "out"
  BY DEF readerBar, ReadStatus

(* Initial states map to the abstract initial state. *)
LEMMA InitRefines == Init => Optimistic!Init
  <1> SUFFICES ASSUME Init PROVE Optimistic!Init
    OBVIOUS
  <1>1. holderBar = NoThread /\ brokenBar = FALSE
    BY DEF Init, holderBar, brokenBar, Intact, Held, Holds, WriterPCs
  <1>2. readerBar = [t \in Threads |-> "out"]
    BY DEF Init, readerBar, ReadStatus, Intact
  <1>3. QED
    BY <1>1, <1>2 DEF Optimistic!Init

-----------------------------------------------------------------------------
(* Steps.                                                                  *)

(* A step of thread t that leaves the counter of TheLock alone and neither  *)
(* takes nor releases it changes nothing abstract but t's own read.         *)
LEMMA FrameStep ==
    ASSUME LockInv, LockInv', NEW t \in Threads,
           Intact(TheLock), Intact(TheLock)',
           version'[TheLock] = version[TheLock],
           \A u \in Threads \ {t} : pc'[u] = pc[u] /\ at'[u] = at[u] /\ seen'[u] = seen[u],
           Holds(t, TheLock)' <=> Holds(t, TheLock)
    PROVE  /\ UNCHANGED <<holderBar, brokenBar>>
           /\ readerBar' = [readerBar EXCEPT ![t] = readerBar'[t]]
  <1>1. \A u \in Threads : Holds(u, TheLock)' <=> Holds(u, TheLock)
    BY DEF Holds
  <1>2. (Held(TheLock)' <=> Held(TheLock)) /\ MutualExclusion /\ MutualExclusion'
    BY <1>1 DEF Held, LockInv
  <1>3. holderBar' = holderBar
    BY <1>1, <1>2, HolderIs, HolderIsNext DEF Held
  <1>4. brokenBar' = brokenBar
    BY DEF brokenBar
  <1>5. \A u \in Threads \ {t} : readerBar'[u] = readerBar[u]
    BY DEF readerBar, ReadStatus
  <1>6. readerBar' = [readerBar EXCEPT ![t] = readerBar'[t]]
    <2>1. readerBar = [u \in Threads |-> readerBar[u]]
      BY DEF readerBar
    <2>2. readerBar' = [u \in Threads |-> readerBar'[u]]
      BY DEF readerBar
    <2>3. QED
      BY <1>5, <2>1, <2>2
  <1>7. QED
    BY <1>3, <1>4, <1>6

(* TheLock changes hands: its counter grows, so every read in progress      *)
(* turns stale and the others keep their outcome.                           *)
LEMMA SpoilStep ==
    ASSUME LockInv, TypeOK', NEW t \in Threads,
           Intact(TheLock), Intact(TheLock)', at[t] = TheLock,
           version'[TheLock] > version[TheLock],
           pc[t] \notin {"reading", "validated", "refused"},
           pc'[t] \notin {"reading", "validated", "refused"}, at' = at,
           \A u \in Threads \ {t} : pc'[u] = pc[u] /\ seen'[u] = seen[u]
    PROVE  Optimistic!SpoilReads
  <1>1. ASSUME NEW u \in Threads
        PROVE  readerBar'[u] = IF readerBar[u] \in Optimistic!InProgress
                               THEN "stale" ELSE readerBar[u]
    <2>0. version[TheLock] \in Nat /\ version'[TheLock] \in Nat /\ seen[u] \in Nat
      BY TheLockAssumption DEF LockInv, TypeOK, Counter
    <2>1. CASE u = t
      BY <2>1, ReaderIs, ReaderIsNext DEF Optimistic!InProgress
    <2>2. CASE u # t /\ at[u] = TheLock /\ pc[u] = "reading"
      <3>1. seen[u] <= version[TheLock]
        BY <2>2 DEF LockInv, LocalInv
      <3>2. readerBar'[u] = "stale"
        BY <2>0, <2>2, <3>1, ReaderIsNext
      <3>3. readerBar[u] \in Optimistic!InProgress
        BY <2>2, ReaderIs DEF Optimistic!InProgress
      <3>4. QED
        BY <3>2, <3>3
    <2>3. CASE u # t /\ ~(at[u] = TheLock /\ pc[u] = "reading")
      <3>1. readerBar'[u] = readerBar[u] /\ readerBar[u] \notin Optimistic!InProgress
        BY <2>3, ReaderIs, ReaderIsNext DEF Optimistic!InProgress
      <3>2. QED
        BY <3>1
    <2>4. QED
      BY <2>1, <2>2, <2>3
  <1>2. QED
    BY <1>1 DEF Optimistic!SpoilReads, readerBar

(* A thread's own read goes through the abstract life cycle.               *)
LEMMA OwnReadStep ==
    ASSUME LockInv, LockInv', NEW t \in Threads,
           Intact(TheLock), Intact(TheLock)',
           version'[TheLock] = version[TheLock],
           \A u \in Threads \ {t} : pc'[u] = pc[u] /\ at'[u] = at[u] /\ seen'[u] = seen[u],
           Holds(t, TheLock)' <=> Holds(t, TheLock),
           \/ readerBar'[t] = readerBar[t]
           \/ readerBar[t] \in Optimistic!Finished /\ readerBar'[t] = "out"
           \/ /\ readerBar[t] \notin Optimistic!InProgress
              /\ readerBar'[t] = IF Held(TheLock) THEN "under" ELSE "clean"
           \/ /\ readerBar[t] \in Optimistic!InProgress
              /\ readerBar'[t] = IF readerBar[t] = "stale" THEN "refused" ELSE "validated"
    PROVE  [Optimistic!Next]_(Optimistic!vars)
  <1>1. /\ UNCHANGED <<holderBar, brokenBar>>
        /\ readerBar' = [readerBar EXCEPT ![t] = readerBar'[t]]
    BY FrameStep
  <1>2. brokenBar = FALSE /\ (holderBar = NoThread <=> ~Held(TheLock))
    BY HolderIs DEF LockInv, brokenBar
  <1>3. CASE readerBar'[t] = readerBar[t]
    <2>1. readerBar' = readerBar
      BY <1>1, <1>3 DEF readerBar
    <2>2. QED
      BY <1>1, <2>1 DEF Optimistic!vars
  <1>4. CASE readerBar[t] \in Optimistic!Finished /\ readerBar'[t] = "out"
    BY <1>1, <1>2, <1>4 DEF Optimistic!Leave, Optimistic!Next
  <1>5. CASE /\ readerBar[t] \notin Optimistic!InProgress
             /\ readerBar'[t] = IF Held(TheLock) THEN "under" ELSE "clean"
    BY <1>1, <1>2, <1>5 DEF Optimistic!BeginRead, Optimistic!Next
  <1>6. CASE /\ readerBar[t] \in Optimistic!InProgress
             /\ readerBar'[t] = IF readerBar[t] = "stale" THEN "refused" ELSE "validated"
    BY <1>1, <1>2, <1>6 DEF Optimistic!EndRead, Optimistic!Next
  <1>7. QED
    BY <1>3, <1>4, <1>5, <1>6

(* A successful swap on TheLock is the abstract Acquire; on another lock it *)
(* is invisible.                                                            *)
LEMMA CasRefines ==
    ASSUME LockInv, LockInv', NEW t \in Threads, Intact(TheLock),
           pc[t] \in {"write_cas", "try_cas"}, CasSucceeds(t),
           version' = [version EXCEPT ![at[t]] = Succ(seen[t])],
           Move(t, "writing", 0),
           UNCHANGED <<at, aborted, destroyed, wrapped>>
    PROVE  [Optimistic!Next]_(Optimistic!vars)
  <1> USE TheLockAssumption DEF Move
  <1>1. TypeOK /\ TypeOK' /\ MutualExclusion /\ MutualExclusion' /\ Intact(TheLock)'
    BY DEF LockInv, Intact
  <1>2. CASE at[t] = TheLock
    <2>1. TheLock \notin destroyed
      BY <1>2 DEF LockInv, DestroyedInv, Ready, ReadyPCs
    <2>2. ~Odd(version[TheLock]) /\ seen[t] = version[TheLock] /\ seen[t] <= UINT64_MAX - 2
      BY <1>1, <1>2 DEF LockInv, LocalInv, CasSucceeds, TypeOK
    <2>3. version[TheLock] \in Counter /\ version[TheLock] < UINT64_MAX
      BY <1>1, <2>2, WidthAssumption DEF TypeOK, Counter
    <2>4. version'[TheLock] > version[TheLock]
      BY <1>1, <1>2, <2>2, <2>3, SuccFlips DEF TypeOK, Counter
    <2>5. Optimistic!SpoilReads
      BY <1>1, <1>2, <2>4, SpoilStep DEF TypeOK
    <2>6. ~Held(TheLock)
      BY <2>1, <2>2 DEF LockInv, CounterInv
    <2>7. Holds(t, TheLock)'
      BY <1>1, <1>2 DEF Holds, WriterPCs, TypeOK
    <2>8. holderBar = NoThread /\ holderBar' = t
      BY <1>1, <2>6, <2>7, HolderIs, HolderIsNext
    <2>9. brokenBar = FALSE /\ brokenBar' = FALSE
      BY <1>1 DEF brokenBar
    <2>10. QED
      BY <2>5, <2>8, <2>9 DEF Optimistic!Acquire, Optimistic!Next
  <1>3. CASE at[t] # TheLock
    <2>1. version'[TheLock] = version[TheLock]
      BY <1>1, <1>3 DEF TypeOK
    <2>2. Holds(t, TheLock)' <=> Holds(t, TheLock)
      BY <1>3 DEF Holds
    <2>3. readerBar'[t] = readerBar[t]
      BY <1>1, <1>3, ReaderIs, ReaderIsNext
    <2>4. QED
      BY <1>1, <2>1, <2>2, <2>3, OwnReadStep DEF TypeOK
  <1>4. QED
    BY <1>2, <1>3

(* The fetch-and-add on TheLock is the abstract Release. *)
LEMMA FaaRefines ==
    ASSUME LockInv, LockInv', NEW t \in Threads, Intact(TheLock), UnlockFaa(t)
    PROVE  [Optimistic!Next]_(Optimistic!vars)
  <1> USE TheLockAssumption DEF Move, UnlockFaa
  <1>1. TypeOK /\ TypeOK' /\ MutualExclusion /\ MutualExclusion' /\ Intact(TheLock)'
    BY DEF LockInv, Intact
  <1>2. CASE at[t] = TheLock
    <2>1. TheLock \notin destroyed /\ TheLock \notin destroyed' /\ Held(TheLock)
      BY <1>2 DEF LockInv, DestroyedInv, Ready, ReadyPCs, Held, Holds, WriterPCs
    <2>2. Odd(version[TheLock]) /\ version[TheLock] <= UINT64_MAX - 2
      BY <2>1 DEF LockInv, CounterInv
    <2>3. version[TheLock] \in Counter /\ version[TheLock] < UINT64_MAX
      BY <1>1, <2>2, WidthAssumption DEF TypeOK, Counter
    <2>4. version'[TheLock] > version[TheLock] /\ ~Odd(version'[TheLock])
      BY <1>1, <1>2, <2>2, <2>3, SuccFlips DEF TypeOK, Counter
    <2>5. Optimistic!SpoilReads
      BY <1>1, <1>2, <2>4, SpoilStep DEF TypeOK
    <2>6. ~Held(TheLock)'
      BY <1>1, <2>1, <2>4 DEF LockInv, CounterInv
    <2>7. Holds(t, TheLock)
      BY <1>1, <1>2 DEF Holds, WriterPCs, TypeOK
    <2>8. holderBar = t /\ holderBar' = NoThread
      BY <1>1, <2>6, <2>7, HolderIs, HolderIsNext
    <2>9. brokenBar = FALSE /\ brokenBar' = FALSE
      BY <1>1 DEF brokenBar
    <2>10. QED
      BY <2>5, <2>8, <2>9 DEF Optimistic!Release, Optimistic!Next
  <1>3. CASE at[t] # TheLock
    <2>1. version'[TheLock] = version[TheLock]
      BY <1>1, <1>3 DEF TypeOK
    <2>2. Holds(t, TheLock)' <=> Holds(t, TheLock)
      BY <1>3 DEF Holds
    <2>3. readerBar'[t] = readerBar[t]
      BY <1>1, <1>3, ReaderIs, ReaderIsNext
    <2>4. QED
      BY <1>1, <2>1, <2>2, <2>3, OwnReadStep DEF TypeOK
  <1>4. QED
    BY <1>2, <1>3

(* The reset on TheLock is the abstract Break. *)
LEMMA ResetRefines ==
    ASSUME LockInv, LockInv', NEW t \in Threads, Intact(TheLock), UnlockReset(t)
    PROVE  [Optimistic!Next]_(Optimistic!vars)
  <1> USE TheLockAssumption DEF UnlockReset
  <1>1. TypeOK /\ TypeOK' /\ MutualExclusion /\ MutualExclusion'
    BY DEF LockInv
  <1>2. CASE at[t] = TheLock
    <2>1. TheLock \in wrapped'
      BY <1>2 DEF LockInv, LocalInv, CasSucceeds
    <2>2. holderBar = t
      BY <1>1, <1>2, HolderIs DEF Holds, WriterPCs
    <2>3. holderBar' = NoThread /\ brokenBar' = TRUE /\ brokenBar = FALSE
      BY <2>1 DEF holderBar, brokenBar, Intact
    <2>4. readerBar' = [u \in Threads |-> "out"]
      BY <2>1 DEF readerBar, Intact
    <2>5. QED
      BY <2>2, <2>3, <2>4 DEF Optimistic!Break, Optimistic!Next
  <1>3. CASE at[t] # TheLock
    <2>1. version'[TheLock] = version[TheLock] /\ Intact(TheLock)'
      BY <1>1, <1>3 DEF TypeOK, Intact
    <2>2. Holds(t, TheLock)' <=> Holds(t, TheLock)
      BY <1>3 DEF Holds
    <2>3. readerBar'[t] = readerBar[t]
      BY <1>3, <2>1, ReaderIs, ReaderIsNext
    <2>4. QED
      BY <1>1, <2>1, <2>2, <2>3, OwnReadStep DEF TypeOK, AfterAssert, Move
  <1>4. QED
    BY <1>2, <1>3

(* The steps inside a call. *)
LEMMA LockStepRefines ==
    ASSUME LockInv, LockInv', NEW t \in Threads, Intact(TheLock), LockStep(t)
    PROVE  [Optimistic!Next]_(Optimistic!vars)
  <1> USE TheLockAssumption DEF Move
  <1>1. TypeOK /\ TypeOK'
    BY DEF LockInv
  <1>2. CASE WriteLoad(t)
    <2>1. Intact(TheLock)' /\ (Holds(t, TheLock)' <=> Holds(t, TheLock))
      BY <1>1, <1>2 DEF WriteLoad, Intact, Holds, WriterPCs, TypeOK
    <2>2. readerBar'[t] = readerBar[t]
      BY <1>1, <1>2, <2>1, ReaderIs, ReaderIsNext DEF WriteLoad, TypeOK
    <2>3. QED
      BY <1>1, <1>2, <2>1, <2>2, OwnReadStep DEF WriteLoad, TypeOK
  <1>3. CASE WriteCas(t) \/ TryCas(t)
    <2>1. CASE CasSucceeds(t)
      BY <1>3, <2>1, CasRefines DEF WriteCas, TryCas
    <2>2. CASE ~CasSucceeds(t)
      <3>1. Intact(TheLock)' /\ (Holds(t, TheLock)' <=> Holds(t, TheLock))
        BY <1>1, <1>3, <2>2 DEF WriteCas, TryCas, RetryWrite, Intact, Holds, WriterPCs, TypeOK
      <3>2. readerBar'[t] = readerBar[t]
        BY <1>1, <1>3, <2>2, <3>1, ReaderIs, ReaderIsNext
           DEF WriteCas, TryCas, RetryWrite, TypeOK
      <3>3. QED
        BY <1>1, <1>3, <2>2, <3>1, <3>2, OwnReadStep DEF WriteCas, TryCas, RetryWrite, TypeOK
    <2>3. QED
      BY <2>1, <2>2
  <1>4. CASE ReadLoad(t)
    <2>1. Intact(TheLock)' /\ (Holds(t, TheLock)' <=> Holds(t, TheLock))
      BY <1>1, <1>4 DEF ReadLoad, Intact, Holds, WriterPCs, TypeOK
    <2>2. readerBar[t] = "out"
      BY <1>4, ReaderIs DEF ReadLoad
    <2>3. CASE at[t] = TheLock
      <3>1. ~Held(TheLock)
        BY <1>4, <2>3 DEF ReadLoad, LockInv, CounterInv, DestroyedInv, Ready, ReadyPCs
      <3>2. readerBar'[t] = "clean"
        BY <1>1, <1>4, <2>1, <2>3, ReaderIsNext DEF ReadLoad, TypeOK
      <3>3. "out" \notin Optimistic!InProgress
        BY DEF Optimistic!InProgress
      <3>4. QED
        BY <1>1, <1>4, <2>1, <2>2, <3>1, <3>2, <3>3, OwnReadStep DEF ReadLoad, TypeOK
    <2>4. CASE at[t] # TheLock
      <3>1. readerBar'[t] = "out"
        BY <1>4, <2>1, <2>4, ReaderIsNext DEF ReadLoad
      <3>2. QED
        BY <1>1, <1>4, <2>1, <2>2, <3>1, OwnReadStep DEF ReadLoad, TypeOK
    <2>5. QED
      BY <2>3, <2>4
  <1>5. QED
    BY <1>2, <1>3, <1>4, FaaRefines, ResetRefines DEF LockStep

(* A call by a thread that is not inside another one: its last read is over *)
(* and the new call may begin another.                                      *)
LEMMA CallRefines ==
    ASSUME LockInv, LockInv', NEW t \in Threads, NEW l \in Locks, Intact(TheLock),
           Call(t, l),
           \/ WriteLock(t, l) \/ TryWriteLock(t, l) \/ ReadLock(t, l)
           \/ TryReadLock(t, l) \/ ReadLockNoWait(t, l)
    PROVE  [Optimistic!Next]_(Optimistic!vars)
  <1> USE TheLockAssumption
      DEF Move, Call, WriteLock, TryWriteLock, ReadLock, TryReadLock, ReadLockNoWait
  <1>1. TypeOK /\ TypeOK' /\ Intact(TheLock)' /\ version' = version
    BY DEF LockInv, Intact
  <1>2. /\ pc[t] \in ReadyPCs /\ at'[t] = l
        /\ \A u \in Threads \ {t} : pc'[u] = pc[u] /\ at'[u] = at[u] /\ seen'[u] = seen[u]
    BY <1>1 DEF Ready, TypeOK
  <1>3. pc'[t] \in {"write_lock", "busy", "try_cas", "read_lock", "reading"}
    BY <1>1 DEF TypeOK
  <1>4. Holds(t, TheLock)' <=> Holds(t, TheLock)
    BY <1>2, <1>3 DEF Holds, WriterPCs, ReadyPCs
  <1>5. readerBar[t] = "out" \/ readerBar[t] \in Optimistic!Finished
    BY <1>2, ReaderIs DEF ReadyPCs, Optimistic!Finished
  <1>6. readerBar[t] \notin Optimistic!InProgress
    BY <1>5 DEF Optimistic!Finished, Optimistic!InProgress
  <1>7. CASE pc'[t] = "reading" /\ l = TheLock
    <2>1. seen'[t] = version[TheLock]
      BY <1>1, <1>7 DEF TypeOK
    <2>2. Odd(version[TheLock]) <=> Held(TheLock)
      BY <1>7 DEF LockInv, CounterInv
    <2>3. readerBar'[t] = IF Held(TheLock) THEN "under" ELSE "clean"
      BY <1>1, <1>2, <1>7, <2>1, <2>2, ReaderIsNext
    <2>4. QED
      BY <1>1, <1>2, <1>4, <1>6, <2>3, OwnReadStep
  <1>8. CASE ~(pc'[t] = "reading" /\ l = TheLock)
    <2>1. readerBar'[t] = "out"
      BY <1>1, <1>2, <1>3, <1>8, ReaderIsNext
    <2>2. QED
      BY <1>1, <1>2, <1>4, <1>5, <2>1, OwnReadStep
  <1>9. QED
    BY <1>7, <1>8

(* read_unlock ends the abstract read; write_unlock up to its addition is   *)
(* invisible.                                                               *)
LEMMA UnlockRefines ==
    ASSUME LockInv, LockInv', NEW t \in Threads, Intact(TheLock),
           WriteUnlock(t) \/ ReadUnlock(t)
    PROVE  [Optimistic!Next]_(Optimistic!vars)
  <1> USE TheLockAssumption DEF Move
  <1>1. TypeOK /\ TypeOK' /\ Intact(TheLock)' /\ version' = version /\ at' = at
    BY DEF LockInv, Intact, WriteUnlock, ReadUnlock
  <1>2. \A u \in Threads \ {t} : pc'[u] = pc[u] /\ seen'[u] = seen[u]
    BY <1>1 DEF TypeOK, WriteUnlock, ReadUnlock, AfterAssert
  <1>3. CASE WriteUnlock(t)
    <2>1. pc[t] = "writing" /\ pc'[t] \in WriterPCs
      BY <1>1, <1>3 DEF WriteUnlock, AfterAssert, WriterPCs, TypeOK
    <2>2. Holds(t, TheLock)' <=> Holds(t, TheLock)
      BY <1>1, <2>1 DEF Holds, WriterPCs
    <2>3. readerBar'[t] = readerBar[t]
      BY <1>1, <2>1, ReaderIs, ReaderIsNext DEF WriterPCs
    <2>4. QED
      BY <1>1, <1>2, <2>2, <2>3, OwnReadStep
  <1>4. CASE ReadUnlock(t) /\ seen[t] <= version[at[t]]
    <2>1. /\ pc[t] = "reading"
          /\ pc'[t] = IF seen[t] = version[at[t]] THEN "validated" ELSE "refused"
      BY <1>1, <1>4 DEF ReadUnlock, Validates, TypeOK
    <2>2. Holds(t, TheLock)' <=> Holds(t, TheLock)
      BY <2>1 DEF Holds, WriterPCs
    <2>3. CASE at[t] = TheLock
      <3>1. readerBar[t] \in Optimistic!InProgress
        BY <2>1, <2>3, ReaderIs DEF Optimistic!InProgress
      <3>2. readerBar[t] = "stale" <=> seen[t] # version[TheLock]
        BY <2>1, <2>3, ReaderIs
      <3>3. readerBar'[t] = pc'[t]
        BY <1>1, <2>1, <2>3, ReaderIsNext
      <3>4. QED
        BY <1>1, <1>2, <2>1, <2>2, <2>3, <3>1, <3>2, <3>3, OwnReadStep
    <2>4. CASE at[t] # TheLock
      <3>1. readerBar'[t] = readerBar[t]
        BY <1>1, <2>4, ReaderIs, ReaderIsNext
      <3>2. QED
        BY <1>1, <1>2, <2>2, <3>1, OwnReadStep
    <2>5. QED
      BY <2>3, <2>4
  <1>5. CASE ReadUnlock(t) /\ ~(seen[t] <= version[at[t]])
    <2>1. UNCHANGED <<version, pc, at, seen, wrapped>>
      BY <1>5 DEF ReadUnlock
    <2>2. UNCHANGED <<holderBar, readerBar, brokenBar>>
      BY <2>1 DEF holderBar, readerBar, brokenBar, Intact, Held, Holds, ReadStatus
    <2>3. QED
      BY <2>2 DEF Optimistic!vars
  <1>6. QED
    BY <1>3, <1>4, <1>5

(* Destroying a lock is invisible: nobody is using it. *)
LEMMA DestroyRefines ==
    ASSUME LockInv, LockInv', NEW l \in Locks, Intact(TheLock), Destroy(l)
    PROVE  [Optimistic!Next]_(Optimistic!vars)
  <1> USE TheLockAssumption DEF Destroy
  <1>1. TypeOK /\ Intact(TheLock)' /\ UNCHANGED <<pc, at, seen, wrapped>>
    BY DEF LockInv, Intact
  <1>2. holderBar' = holderBar /\ brokenBar' = brokenBar
    BY <1>1 DEF holderBar, brokenBar, Intact, Held, Holds
  <1>3. ASSUME NEW t \in Threads PROVE readerBar'[t] = readerBar[t]
    <2>1. CASE version'[TheLock] = version[TheLock]
      BY <1>1, <2>1 DEF readerBar, ReadStatus, Intact
    <2>2. CASE version'[TheLock] # version[TheLock]
      <3>1. at[t] = TheLock => pc[t] # "reading"
        BY <1>1, <2>2 DEF Ready, ReadyPCs, TypeOK
      <3>2. QED
        BY <1>1, <3>1, ReaderIs, ReaderIsNext
    <2>3. QED
      BY <2>1, <2>2
  <1>4. readerBar' = readerBar
    BY <1>3 DEF readerBar
  <1>5. QED
    BY <1>2, <1>4 DEF Optimistic!vars

(* Every step of the lock is an abstract step or invisible. *)
LEMMA StepRefines ==
    LockInv /\ LockInv' /\ [Next]_lockVars => [Optimistic!Next]_(Optimistic!vars)
  <1> SUFFICES ASSUME LockInv, LockInv', [Next]_lockVars
               PROVE  [Optimistic!Next]_(Optimistic!vars)
    OBVIOUS
  <1>1. CASE ~Intact(TheLock)
    <2>1. ~Intact(TheLock)'
      BY <1>1, WrappedGrows DEF LockInv, Intact
    <2>2. UNCHANGED <<holderBar, readerBar, brokenBar>>
      BY <1>1, <2>1 DEF holderBar, readerBar, brokenBar
    <2>3. QED
      BY <2>2 DEF Optimistic!vars
  <1>2. CASE UNCHANGED lockVars
    <2>1. UNCHANGED <<holderBar, readerBar, brokenBar>>
      BY <1>2 DEF lockVars, holderBar, readerBar, brokenBar, Intact, Held, Holds, ReadStatus
    <2>2. QED
      BY <2>1 DEF Optimistic!vars
  <1>3. ASSUME NEW t \in Threads, ClientStep(t), Intact(TheLock)
        PROVE  [Optimistic!Next]_(Optimistic!vars)
    <2>1. CASE WriteUnlock(t) \/ ReadUnlock(t)
      BY <1>3, <2>1, UnlockRefines
    <2>2. ASSUME NEW l \in Locks,
                 \/ WriteLock(t, l) \/ TryWriteLock(t, l) \/ ReadLock(t, l)
                 \/ TryReadLock(t, l) \/ ReadLockNoWait(t, l)
          PROVE  [Optimistic!Next]_(Optimistic!vars)
      <3>1. Call(t, l)
        BY <2>2 DEF WriteLock, TryWriteLock, ReadLock, TryReadLock, ReadLockNoWait
      <3>2. QED
        BY <1>3, <2>2, <3>1, CallRefines
    <2>3. QED
      BY <1>3, <2>1, <2>2 DEF ClientStep
  <1>4. QED
    BY <1>1, <1>2, <1>3, LockStepRefines, DestroyRefines DEF Next

(* Every version lock implements the optimistic lock: a read is validated   *)
(* only if no writer acquired or released the lock since it began.          *)
THEOREM LockRefinesOptimisticLock == Spec => ImplementsOptimisticLock
  <1>1. QED
    BY InitRefines, StepRefines, LockInvariant, PTL
       DEF Spec, ImplementsOptimisticLock, Optimistic!Spec
=============================================================================
