------------------------- MODULE VLHashTableProofs -------------------------
(***************************************************************************)
(* The hash table uses its locks only through their API, for any number of *)
(* threads, buckets, keys, values and nodes: so their proved properties    *)
(* hold in it, and whoever works on a list does so alone.                  *)
(***************************************************************************)
EXTENDS VLHashTableRefinement, VersionLockProofs, ChainedListsProofs

(* The bucket of an operation is one of the locks. *)
LEMMA BucketIsLock ==
    /\ \A o \in Ops : HashOf[o.key] \in Locks
    /\ \A t \in Threads : op[t] \in Ops => Bucket(t) \in Locks
  BY ListAssumption, VLHashTableAssumption DEF Ops, Bucket

(* Every step of the table is a step of a lock or leaves the locks          *)
(* unchanged.                                                               *)
LEMMA TableStepIsLockStep ==
    ASSUME TableInv, [TableNext]_vars PROVE [Next]_lockVars
  <1> USE DEF At, Running
  <1>1. ASSUME NEW t \in Threads, Continue(t) PROVE [Next]_lockVars
    <2>1. CASE \/ Allocate(t) \/ PublishNode(t) \/ UnlinkNode(t) \/ FreeNode(t)
               \/ LoadHead(t) \/ StartTraversal(t) \/ CompareKey(t)
               \/ TakeVal(t) \/ Advance(t)
      BY <2>1 DEF Allocate, PublishNode, UnlinkNode, FreeNode, LoadHead, StartTraversal,
                  CompareKey, TakeVal, Advance
    <2>2. CASE InsideLock(t)
      BY <2>2 DEF InsideLock, Next
    <2>3. CASE Unlock(t) \/ Validate(t)
      BY <2>3 DEF Unlock, Validate, ClientStep, Next
    <2>4. CASE LoadVersion(t)
      <3>1. Bucket(t) \in Locks /\ ReadLockNoWait(t, Bucket(t)) /\ ~aborted
        BY <2>4, BucketIsLock DEF LoadVersion, TableInv, StageInv
      <3>2. QED
        BY <3>1 DEF ClientStep, Next
    <2>5. QED
      BY <1>1, <2>1, <2>2, <2>3, <2>4 DEF Continue
  <1>2. ASSUME NEW t \in Threads, BeginWrite(t) PROVE [Next]_lockVars
    <2>1. PICK o \in Ops : WriteLock(t, HashOf[o.key]) /\ ~aborted
      BY <1>2 DEF BeginWrite, Invoke
    <2>2. HashOf[o.key] \in Locks
      BY BucketIsLock
    <2>3. QED
      BY <2>1, <2>2 DEF ClientStep, Next
  <1>3. ASSUME NEW t \in Threads, BeginLookup(t) PROVE [Next]_lockVars
    BY <1>3 DEF BeginLookup
  <1>4. CASE UNCHANGED vars
    BY <1>4 DEF vars
  <1>5. QED
    BY <1>1, <1>2, <1>3, <1>4 DEF TableNext

-----------------------------------------------------------------------------
(* A step of one thread disturbs nobody else's stage. *)
LEMMA OthersKeepStage ==
    ASSUME TableInv, NEW t \in Threads,
           op' \in [Threads -> Ops \union {NoOp}], stage' \in [Threads -> Stages],
           \A u \in Threads \ {t} : /\ pc'[u] = pc[u] /\ at'[u] = at[u]
                                    /\ op'[u] = op[u] /\ stage'[u] = stage[u],
           StageInv(t)'
    PROVE  TableInv'
  <1>1. ASSUME NEW u \in Threads \ {t} PROVE StageInv(u)'
    BY DEF TableInv, StageInv, Ready, Bucket
  <1>2. QED
    BY <1>1 DEF TableInv

(* A step on the lists or on the thread's own variables. *)
LEMMA ListStage ==
    ASSUME TypeOK, TableInv, NEW t \in Threads,
           \/ Allocate(t) \/ PublishNode(t) \/ UnlinkNode(t) \/ FreeNode(t)
           \/ LoadHead(t) \/ StartTraversal(t) \/ CompareKey(t)
           \/ TakeVal(t) \/ Advance(t)
    PROVE  TableInv'
  <1> USE DEF At, GoTo, TableInv, Stages, WriteStages, LookupStages
  <1>1. UNCHANGED lockVars /\ op' = op
    BY DEF Allocate, PublishNode, UnlinkNode, FreeNode, LoadHead, StartTraversal,
           CompareKey, TakeVal, Advance
  <1>2. \/ stage' = stage
        \/ \E s \in Stages : stage' = [stage EXCEPT ![t] = s]
    BY DEF Allocate, PublishNode, UnlinkNode, FreeNode, LoadHead, StartTraversal,
           CompareKey, TakeVal, Advance, Visit
  <1>3. StageInv(t)
    OBVIOUS
  <1>4. CASE Allocate(t) \/ PublishNode(t) \/ UnlinkNode(t) \/ FreeNode(t)
    <2>1. StageInv(t)'
      BY <1>1, <1>3, <1>4
         DEF lockVars, Allocate, PublishNode, UnlinkNode, FreeNode, Inside, StageInv,
             Ready, Bucket
    <2>2. QED
      BY <1>1, <1>2, <2>1, OthersKeepStage DEF lockVars
  <1>5. CASE \/ LoadHead(t) \/ StartTraversal(t) \/ CompareKey(t)
             \/ TakeVal(t) \/ Advance(t)
    <2>1. StageInv(t)'
      BY <1>1, <1>3, <1>5
         DEF lockVars, LoadHead, StartTraversal, CompareKey, TakeVal, Advance, Visit,
             StageInv, Ready, Bucket
    <2>2. QED
      BY <1>1, <1>2, <2>1, OthersKeepStage DEF lockVars
  <1>6. QED
    BY <1>4, <1>5

(* The steps that are also steps of the lock. *)
LEMMA LockStage ==
    ASSUME TypeOK, TableInv, NEW t \in Threads,
           \/ BeginWrite(t) \/ BeginLookup(t) \/ Unlock(t) \/ InsideLock(t)
           \/ LoadVersion(t) \/ Validate(t)
    PROVE  TableInv'
  <1> USE DEF At, GoTo, TableInv, Stages, WriteStages, LookupStages, Move, TypeOK
  <1>0. StageInv(t)
    OBVIOUS
  <1>1. CASE BeginWrite(t)
    <2>1. PICK o \in Ops :
              /\ o.kind \in {"insert", "remove"}
              /\ op' = [op EXCEPT ![t] = o]
              /\ WriteLock(t, HashOf[o.key])
              /\ stage' = [stage EXCEPT ![t] = IF o.kind = "insert" THEN "allocate" ELSE "search"]
      BY <1>1 DEF BeginWrite, Invoke
    <2>2. StageInv(t)'
      BY <2>1, BucketIsLock DEF StageInv, WriteLock, Call, Bucket
    <2>3. \A u \in Threads \ {t} : pc'[u] = pc[u] /\ at'[u] = at[u]
      BY <2>1 DEF WriteLock, Call
    <2>4. QED
      BY <2>1, <2>2, <2>3, OthersKeepStage
  <1>2. CASE BeginLookup(t)
    <2>1. PICK o \in Ops : stage[t] = "none" /\ op' = [op EXCEPT ![t] = o]
      BY <1>2 DEF BeginLookup, Invoke
    <2>2. UNCHANGED lockVars /\ stage' = [stage EXCEPT ![t] = "load_head"]
      BY <1>2 DEF BeginLookup
    <2>3. StageInv(t)'
      BY <1>0, <2>1, <2>2 DEF StageInv, Ready, lockVars
    <2>4. QED
      BY <2>1, <2>2, <2>3, OthersKeepStage DEF lockVars
  <1>3. CASE Unlock(t)
    <2>1. stage[t] = "unlock" /\ op' = op /\ at' = at
      BY <1>3 DEF Unlock, WriteUnlock
    <2>2. \A u \in Threads \ {t} : pc'[u] = pc[u]
      BY <1>3 DEF Unlock, WriteUnlock, AfterAssert
    <2>3. CASE aborted'
      <3>1. stage' = stage /\ pc' = pc
        BY <1>3, <2>3 DEF Unlock, WriteUnlock, AfterAssert, Running
      <3>2. StageInv(t)'
        BY <1>0, <2>1, <3>1 DEF StageInv, Ready, Bucket
      <3>3. QED
        BY <2>1, <2>2, <3>1, <3>2, OthersKeepStage
    <2>4. CASE ~aborted'
      <3>1. pc'[t] \in {"reset", "faa"} /\ stage' = [stage EXCEPT ![t] = "release"]
        BY <1>3, <2>4 DEF Unlock, WriteUnlock, AfterAssert
      <3>2. StageInv(t)'
        BY <1>0, <2>1, <3>1 DEF StageInv
      <3>3. QED
        BY <2>1, <2>2, <3>1, <3>2, OthersKeepStage
    <2>5. QED
      BY <2>3, <2>4
  <1>4. CASE InsideLock(t)
    <2>0. at' = at /\ \A u \in Threads \ {t} : pc'[u] = pc[u]
      BY <1>4 DEF InsideLock, LockStep, WriteLoad, WriteCas, TryCas, UnlockReset, UnlockFaa,
                  ReadLoad, RetryWrite, AfterAssert
    <2>1. CASE pc[t] = "faa"
      <3>1. pc'[t] = "idle"
        BY <1>4, <2>1 DEF InsideLock, LockStep, WriteLoad, WriteCas, TryCas, UnlockReset,
                          UnlockFaa, ReadLoad
      <3>2. op' = [op EXCEPT ![t] = NoOp] /\ stage' = [stage EXCEPT ![t] = "none"]
        BY <1>4, <2>1 DEF InsideLock, Return
      <3>3. StageInv(t)'
        BY <3>1, <3>2 DEF StageInv, Ready, ReadyPCs
      <3>4. QED
        BY <2>0, <3>2, <3>3, OthersKeepStage
    <2>2. CASE pc[t] # "faa"
      <3>1. op' = op /\ stage' = stage
        BY <1>4, <2>2 DEF InsideLock
      <3>2. \/ pc[t] = "write_lock" /\ pc'[t] = "write_cas"
            \/ pc[t] = "write_cas" /\ pc'[t] \in {"writing", "write_lock"}
            \/ pc[t] = "reset" /\ pc'[t] \in {"reset", "faa"}
            \/ pc[t] \in {"try_cas", "read_lock"}
        BY <1>4, <2>2 DEF InsideLock, LockStep, WriteLoad, WriteCas, TryCas, UnlockReset,
                          UnlockFaa, ReadLoad, RetryWrite, AfterAssert
      <3>3. StageInv(t)'
        BY <1>0, <2>0, <3>1, <3>2 DEF StageInv, Ready, ReadyPCs, Bucket
      <3>4. QED
        BY <2>0, <3>1, <3>3, OthersKeepStage
    <2>3. QED
      BY <2>1, <2>2
  <1>5. CASE LoadVersion(t)
    <2>1. /\ pc' = [pc EXCEPT ![t] = "reading"] /\ op' = op
          /\ stage' = [stage EXCEPT ![t] = "traverse"]
          /\ \A u \in Threads \ {t} : at'[u] = at[u]
      BY <1>5 DEF LoadVersion, ReadLockNoWait, Call
    <2>2. stage[t] = "version"
      BY <1>5 DEF LoadVersion
    <2>3. StageInv(t)'
      BY <1>0, <2>1, <2>2 DEF StageInv, Bucket
    <2>4. QED
      BY <2>1, <2>3, OthersKeepStage
  <1>6. CASE Validate(t)
    <2>1. at' = at /\ stage[t] = "validate" /\ \A u \in Threads \ {t} : pc'[u] = pc[u]
      BY <1>6 DEF Validate, ReadUnlock
    <2>2. CASE pc'[t] = "validated"
      <3>1. op' = [op EXCEPT ![t] = NoOp] /\ stage' = [stage EXCEPT ![t] = "none"]
        BY <1>6, <2>2 DEF Validate, Return
      <3>2. StageInv(t)'
        BY <2>2, <3>1 DEF StageInv, Ready, ReadyPCs
      <3>3. QED
        BY <2>1, <3>1, <3>2, OthersKeepStage
    <2>3. CASE pc'[t] = "refused"
      <3>1. op' = op /\ stage' = [stage EXCEPT ![t] = "version"]
        BY <1>6, <2>3 DEF Validate
      <3>2. StageInv(t)'
        BY <1>0, <2>1, <2>3, <3>1 DEF StageInv, Ready, ReadyPCs, Bucket
      <3>3. QED
        BY <2>1, <3>1, <3>2, OthersKeepStage
    <2>4. CASE pc'[t] \notin {"validated", "refused"}
      <3>1. op' = op /\ stage' = stage
        BY <1>6, <2>4 DEF Validate
      <3>2. pc' = pc
        BY <1>6, <2>4 DEF Validate, ReadUnlock
      <3>3. StageInv(t)'
        BY <1>0, <2>1, <3>1, <3>2 DEF StageInv, Ready, Bucket
      <3>4. QED
        BY <2>1, <3>1, <3>3, OthersKeepStage
    <2>5. QED
      BY <2>2, <2>3, <2>4
  <1>7. QED
    BY <1>1, <1>2, <1>3, <1>4, <1>5, <1>6

(* The stages agree with the lock in every state of the table. *)
LEMMA TableInvStep == TypeOK /\ TableInv /\ [TableNext]_vars => TableInv'
  <1> SUFFICES ASSUME TypeOK, TableInv, [TableNext]_vars PROVE TableInv'
    OBVIOUS
  <1>1. CASE UNCHANGED vars
    BY <1>1 DEF vars, callVars, lockVars, TableInv, StageInv, Ready, Bucket
  <1>2. CASE TableNext
    BY <1>2, ListStage, LockStage DEF TableNext, Continue
  <1>3. QED
    BY <1>1, <1>2

LEMMA TableInvInit == TableInit => TableInv
  BY DEF TableInit, Init, TableInv, StageInv, Ready, ReadyPCs, Stages

-----------------------------------------------------------------------------
(* LockInv and TableInv together: the lock's invariant is kept because the  *)
(* table calls the lock legally (TableInv), and TableInv because the lock   *)
(* behaves.                                                                 *)
THEOREM StagesAgree == TableSpec => [](LockInv /\ TableInv)
  <1>1. TableInit => LockInv /\ TableInv
    BY TableInvInit, LockInit DEF TableInit
  <1>2. LockInv /\ TableInv /\ [TableNext]_vars => (LockInv /\ TableInv)'
    <2> SUFFICES ASSUME LockInv, TableInv, [TableNext]_vars PROVE (LockInv /\ TableInv)'
      OBVIOUS
    <2>1. TableInv'
      BY TableInvStep DEF LockInv
    <2>2. LockInv'
      BY TableStepIsLockStep, LockStepInv
    <2>3. QED
      BY <2>1, <2>2
  <1>3. QED
    BY <1>1, <1>2, PTL DEF TableSpec

(* The lock's specification holds in the table (vlht.hpp:49-95). *)
THEOREM TableUsesLock == TableSpec => Spec
  <1>1. TableInit => Init
    BY DEF TableInit
  <1>2. QED
    BY <1>1, TableStepIsLockStep, StagesAgree, PTL DEF TableSpec, Spec

(* Two threads do not change the same list at a time. *)
THEOREM ListsHaveOneWriter == TableSpec => []OneWriterPerList
  <1>1. LockInv /\ TableInv => OneWriterPerList
    <2> SUFFICES ASSUME LockInv, TableInv, NEW t \in Threads, NEW u \in Threads,
                        stage[t] \in {"publish", "free", "unlock"},
                        stage[u] \in {"publish", "free", "unlock"},
                        Bucket(t) = Bucket(u), Intact(Bucket(t))
                 PROVE  t = u
      BY DEF OneWriterPerList
    <2>1. Bucket(t) \in Locks
      BY BucketIsLock DEF TableInv, StageInv
    <2>2. Holds(t, Bucket(t)) /\ Holds(u, Bucket(t))
      BY DEF TableInv, StageInv, Holds, WriterPCs
    <2>3. QED
      BY <2>1, <2>2 DEF LockInv, MutualExclusion
  <1>2. QED
    BY <1>1, StagesAgree, PTL

-----------------------------------------------------------------------------
(* Type correctness of the table.                                          *)

DataOK ==
    /\ ListTypeOK
    /\ node \in [Threads -> Pointers]
    /\ first \in [Threads -> Pointers \union {InLoop}]
    /\ curr \in [Threads -> Pointers]
    /\ result \in [Threads -> Vals \union {Junk, NotFound, TRUE, Pending}]
    /\ failed \in BOOLEAN

(* A traversal is at a node, and only an insert allocates one. *)
DataInv ==
    /\ DataOK
    /\ \A t \in Threads :
           /\ stage[t] \in {"key", "val", "next"} => curr[t] # Nil
           /\ stage[t] = "allocate" => op[t].kind = "insert"

(* The other threads keep it. *)
LEMMA OthersKeepData ==
    ASSUME DataInv, DataOK', NEW t \in Threads,
           \A u \in Threads \ {t} : UNCHANGED <<stage[u], op[u], curr[u]>>,
           stage'[t] \in {"key", "val", "next"} => curr'[t] # Nil,
           stage'[t] = "allocate" => op'[t].kind = "insert"
    PROVE  DataInv'
  BY DEF DataInv

(* insert and remove (vlht.hpp:49-63, 82-95). *)
LEMMA WriteData ==
    ASSUME TypeOK, TableInv, DataInv, NEW t \in Threads,
           \/ Allocate(t) \/ PublishNode(t) \/ UnlinkNode(t) \/ FreeNode(t) \/ Unlock(t)
    PROVE  DataInv'
  <1> USE DEF At, GoTo
  <1>1. /\ UNCHANGED <<op, curr>>
        /\ \A u \in Threads \ {t} : stage'[u] = stage[u]
        /\ stage'[t] \notin {"key", "val", "next", "allocate"}
    <2>1. /\ UNCHANGED <<op, curr>>
          /\ \/ stage' = stage
             \/ \E s \in {"publish", "unlock", "free", "release"} : stage' = [stage EXCEPT ![t] = s]
      BY DEF Allocate, PublishNode, UnlinkNode, FreeNode, Unlock
    <2>2. stage[t] \in {"allocate", "publish", "search", "free", "unlock"}
          /\ (stage[t] = "allocate" => stage'[t] = "publish")
      BY DEF Allocate, PublishNode, UnlinkNode, FreeNode, Unlock, TableInv
    <2>3. QED
      BY <2>1, <2>2 DEF TableInv
  <1>2. DataOK'
    <2>1. ListTypeOK /\ head[Bucket(t)] \in Pointers
      <3>1. stage[t] # "none"
        BY DEF Allocate, PublishNode, UnlinkNode, FreeNode, Unlock
      <3>2. Bucket(t) \in Buckets
        BY <3>1, BucketIsLock, VLHashTableAssumption DEF TableInv, StageInv
      <3>3. QED
        BY <3>2 DEF DataInv, DataOK, ListTypeOK
    <2>2. CASE Allocate(t)
      <3>1. PICK n \in Nodes : /\ NewNode(n, op[t].key, op[t].val, head[Bucket(t)])
                               /\ node' = [node EXCEPT ![t] = n]
        BY <2>2 DEF Allocate
      <3>2. op[t].key \in Keys /\ op[t].val \in Vals
        <4>1. stage[t] = "allocate"
          BY <2>2 DEF Allocate
        <4>2. op[t] \in Ops /\ op[t].kind = "insert"
          BY <4>1 DEF TableInv, StageInv, DataInv
        <4>3. QED
          BY <4>2 DEF Ops
      <3>3. ListTypeOK'
        BY <2>1, <3>1, <3>2, NewNodeType
      <3>4. UNCHANGED <<first, curr, result, failed>> /\ node' \in [Threads -> Pointers]
        BY <2>2, <3>1 DEF Allocate, DataInv, DataOK, Pointers
      <3>5. QED
        BY <3>3, <3>4 DEF DataInv, DataOK
    <2>3. CASE PublishNode(t)
      <3>1. ListTypeOK'
        BY <2>1, <2>3, PublishType DEF PublishNode, DataInv, DataOK
      <3>2. QED
        BY <2>3, <3>1 DEF PublishNode, DataInv, DataOK
    <2>4. CASE UnlinkNode(t)
      <3>1. CASE UNCHANGED listVars
        BY <2>4, <3>1 DEF UnlinkNode, DataInv, DataOK, listVars, ListTypeOK, Pointers
      <3>2. CASE ~UNCHANGED listVars
        <4>1. PICK n \in Nodes : Unlink(n, Bucket(t)) /\ node' = [node EXCEPT ![t] = n]
          BY <2>4, <3>2 DEF UnlinkNode
        <4>2. ListTypeOK'
          BY <2>1, <4>1, UnlinkType
        <4>3. /\ UNCHANGED <<first, curr, failed>> /\ node' \in [Threads -> Pointers]
              /\ result' = [result EXCEPT ![t] = TRUE]
          BY <2>4, <3>2, <4>1 DEF UnlinkNode, DataInv, DataOK, Pointers
        <4>4. QED
          BY <4>2, <4>3 DEF DataInv, DataOK
      <3>3. QED
        BY <3>1, <3>2
    <2>5. CASE FreeNode(t)
      <3>1. ListTypeOK'
        BY <2>1, <2>5, FreeType DEF FreeNode
      <3>2. QED
        BY <2>5, <3>1 DEF FreeNode, DataInv, DataOK
    <2>6. CASE Unlock(t)
      BY <2>6 DEF Unlock, DataInv, DataOK, listVars, ListTypeOK, Pointers
    <2>7. QED
      BY <2>2, <2>3, <2>4, <2>5, <2>6
  <1>3. QED
    BY <1>1, <1>2, OthersKeepData

(* lookup (vlht.hpp:65-80). *)
LEMMA LookupData ==
    ASSUME TypeOK, TableInv, DataInv, NEW t \in Threads,
           \/ LoadHead(t) \/ LoadVersion(t) \/ StartTraversal(t) \/ CompareKey(t)
           \/ TakeVal(t) \/ Advance(t)
    PROVE  DataInv'
  <1> USE DEF At, GoTo
  <1>1. UNCHANGED listVars /\ UNCHANGED <<op, node, failed>>
    BY DEF LoadHead, LoadVersion, StartTraversal, CompareKey, TakeVal, Advance
  <1>2. head[Bucket(t)] \in Pointers
    <2>1. stage[t] # "none"
      BY DEF LoadHead, LoadVersion, StartTraversal, CompareKey, TakeVal, Advance
    <2>2. Bucket(t) \in Buckets
      BY <2>1, BucketIsLock, VLHashTableAssumption DEF TableInv, StageInv
    <2>3. QED
      BY <2>2 DEF DataInv, DataOK, ListTypeOK
  <1>3. ListTypeOK'
    BY <1>1 DEF DataInv, DataOK, listVars, ListTypeOK, Pointers
  <1>4. CASE LoadHead(t) \/ LoadVersion(t)
    <2>1. first' \in [Threads -> Pointers \union {InLoop}] /\ UNCHANGED <<curr, result>>
      BY <1>2, <1>4 DEF LoadHead, LoadVersion, DataInv, DataOK
    <2>2. DataOK'
      BY <1>1, <1>3, <2>1 DEF DataInv, DataOK
    <2>3. \E s \in {"version", "traverse"} : stage' = [stage EXCEPT ![t] = s]
      BY <1>4 DEF LoadHead, LoadVersion
    <2>4. QED
      BY <1>1, <2>1, <2>2, <2>3, OthersKeepData DEF TableInv
  <1>5. CASE CompareKey(t) \/ TakeVal(t)
    <2>1. curr[t] \in Nodes /\ UNCHANGED <<first, curr>>
      BY <1>5 DEF CompareKey, TakeVal, DataInv, DataOK, Pointers
    <2>2. result' \in [Threads -> Vals \union {Junk, NotFound, TRUE, Pending}]
      <3>1. cell[curr[t]].val \in Vals \union {Junk}
        BY <2>1 DEF DataInv, DataOK, ListTypeOK
      <3>2. QED
        BY <1>5, <3>1 DEF CompareKey, TakeVal, DataInv, DataOK
    <2>3. DataOK'
      BY <1>1, <1>3, <2>1, <2>2 DEF DataInv, DataOK
    <2>4. \E s \in {"val", "next", "validate"} : stage' = [stage EXCEPT ![t] = s]
      BY <1>5 DEF CompareKey, TakeVal
    <2>5. curr'[t] # Nil
      BY <2>1, ListAssumption
    <2>6. QED
      BY <1>1, <2>1, <2>3, <2>4, <2>5, OthersKeepData DEF TableInv
  <1>6. CASE StartTraversal(t) \/ Advance(t)
    <2>1. PICK p \in Pointers : Visit(t, p) /\ first' = first
      <3>1. CASE StartTraversal(t)
        <4>1. (IF first[t] = InLoop THEN head[Bucket(t)] ELSE first[t]) \in Pointers
          BY <1>2 DEF DataInv, DataOK
        <4>2. QED
          BY <3>1, <4>1 DEF StartTraversal
      <3>2. CASE Advance(t)
        <4>1. curr[t] \in Nodes
          BY <3>2 DEF Advance, DataInv, DataOK, Pointers
        <4>2. cell[curr[t]].next \in Pointers
          BY <4>1 DEF DataInv, DataOK, ListTypeOK
        <4>3. QED
          BY <3>2, <4>2 DEF Advance
      <3>3. QED
        BY <1>6, <3>1, <3>2
    <2>2. /\ curr' = [curr EXCEPT ![t] = p]
          /\ result' = result \/ result' = [result EXCEPT ![t] = NotFound]
          /\ stage' = [stage EXCEPT ![t] = IF p = Nil THEN "validate" ELSE "key"]
      BY <2>1 DEF Visit
    <2>3. curr' \in [Threads -> Pointers] /\ curr'[t] = p
      BY <2>2 DEF DataInv, DataOK
    <2>4. result' \in [Threads -> Vals \union {Junk, NotFound, TRUE, Pending}]
      BY <2>2 DEF DataInv, DataOK
    <2>5. DataOK'
      BY <1>1, <1>3, <2>1, <2>3, <2>4 DEF DataInv, DataOK
    <2>6. \A u \in Threads \ {t} : UNCHANGED <<stage[u], op[u], curr[u]>>
      BY <1>1, <2>2 DEF TableInv, DataInv, DataOK
    <2>7. stage'[t] = (IF p = Nil THEN "validate" ELSE "key")
      BY <2>2 DEF TableInv
    <2>8. QED
      BY <2>3, <2>5, <2>6, <2>7, OthersKeepData
  <1>7. QED
    BY <1>4, <1>5, <1>6

(* The beginning and the end of a call (vlht.hpp:49-95). *)
LEMMA CallData ==
    ASSUME TypeOK, TableInv, DataInv, NEW t \in Threads,
           BeginWrite(t) \/ BeginLookup(t) \/ InsideLock(t) \/ Validate(t)
    PROVE  DataInv'
  <1> USE DEF At, GoTo
  <1>1. UNCHANGED listVars /\ failed' = failed
    BY DEF BeginWrite, BeginLookup, InsideLock, Validate
  <1>2. ListTypeOK'
    BY <1>1 DEF DataInv, DataOK, listVars, ListTypeOK, Pointers
  <1>3. CASE Return(t)
    <2>1. DataOK'
      BY <1>1, <1>2, <1>3 DEF Return, DataInv, DataOK, Pointers
    <2>2. /\ \A u \in Threads \ {t} : UNCHANGED <<stage[u], op[u], curr[u]>>
          /\ stage'[t] = "none"
      BY <1>3 DEF Return, TableInv, DataInv, DataOK
    <2>3. QED
      BY <2>1, <2>2, OthersKeepData
  <1>4. CASE ~Return(t)
    <2>1. UNCHANGED <<node, first, curr, result>>
      BY <1>4 DEF BeginWrite, BeginLookup, InsideLock, Validate
    <2>2. DataOK'
      BY <1>1, <1>2, <2>1 DEF DataInv, DataOK
    <2>3. CASE BeginWrite(t) \/ BeginLookup(t)
      <3>1. PICK o \in Ops, s \in {"allocate", "search", "load_head"} :
                /\ op' = [op EXCEPT ![t] = o] /\ stage' = [stage EXCEPT ![t] = s]
                /\ s = "allocate" => o.kind = "insert"
        BY <2>3 DEF BeginWrite, BeginLookup, Invoke
      <3>2. /\ op'[t] = o /\ stage'[t] = s
            /\ \A u \in Threads \ {t} : UNCHANGED <<stage[u], op[u], curr[u]>>
        BY <2>1, <3>1 DEF TableInv
      <3>3. QED
        BY <2>2, <3>1, <3>2, OthersKeepData
    <2>4. CASE InsideLock(t) \/ Validate(t)
      <3>1. op' = op /\ (stage' = stage \/ stage' = [stage EXCEPT ![t] = "version"])
        BY <1>4, <2>4 DEF InsideLock, Validate
      <3>2. /\ \A u \in Threads \ {t} : UNCHANGED <<stage[u], op[u], curr[u]>>
            /\ stage'[t] = stage[t] \/ stage'[t] = "version"
        BY <2>1, <3>1 DEF TableInv
      <3>3. QED
        BY <2>1, <2>2, <3>1, <3>2, OthersKeepData DEF DataInv
    <2>5. QED
      BY <2>3, <2>4
  <1>5. QED
    BY <1>3, <1>4

(* Every step keeps it. *)
LEMMA DataStep == LockInv /\ TableInv /\ DataInv /\ [TableNext]_vars => DataInv'
  <1> SUFFICES ASSUME LockInv, TableInv, DataInv, [TableNext]_vars PROVE DataInv'
    OBVIOUS
  <1>1. TypeOK
    BY DEF LockInv
  <1>2. CASE UNCHANGED vars
    BY <1>2 DEF vars, listVars, callVars, DataInv, DataOK, ListTypeOK, Pointers
  <1>3. CASE TableNext
    BY <1>1, <1>3, WriteData, LookupData, CallData DEF TableNext, Continue
  <1>4. QED
    BY <1>2, <1>3

(* It holds in every state. *)
LEMMA DataInvariant == TableSpec => []DataInv
  <1>1. TableInit => DataInv
    BY ListInitType DEF TableInit, DataInv, DataOK, Pointers
  <1>2. QED
    BY <1>1, DataStep, StagesAgree, PTL DEF TableSpec

(* Every variable of the table keeps its type; a node pointer is never      *)
(* followed past the end of a list (vlht.hpp:49-95, list.hpp:69-106).       *)
THEOREM TableTypeCorrect == TableSpec => []TableTypeOK
  <1>1. LockInv /\ TableInv /\ DataInv => TableTypeOK
    BY DEF LockInv, TableInv, DataInv, DataOK, TableTypeOK
  <1>2. QED
    BY <1>1, DataInvariant, StagesAgree, PTL

-----------------------------------------------------------------------------
(* The calls.                                                              *)

(* A thread's step changes nobody else's variables, and destroys no lock. *)
LEMMA StepIsLocal ==
    ASSUME TypeOK, TableInv, DataInv, NEW t \in Threads,
           BeginWrite(t) \/ BeginLookup(t) \/ Continue(t)
    PROVE  /\ destroyed' = destroyed
           /\ \A u \in Threads \ {t} :
                  /\ UNCHANGED <<pc[u], at[u], seen[u]>>
                  /\ UNCHANGED <<op[u], stage[u], node[u], first[u], curr[u], result[u]>>
  <1>1. /\ destroyed' = destroyed
        /\ \A u \in Threads \ {t} : UNCHANGED <<pc[u], at[u], seen[u]>>
    <2> USE DEF TypeOK, Move, Call
    <2>1. CASE BeginWrite(t)
      <3>1. PICK l : WriteLock(t, l)
        BY <2>1 DEF BeginWrite
      <3>2. QED
        BY <3>1 DEF WriteLock
    <2>2. CASE Unlock(t)
      BY <2>2 DEF Unlock, WriteUnlock, AfterAssert
    <2>3. CASE InsideLock(t)
      BY <2>3 DEF InsideLock, LockStep, WriteLoad, WriteCas, TryCas, UnlockReset, UnlockFaa,
                  ReadLoad, RetryWrite, AfterAssert
    <2>4. CASE LoadVersion(t)
      BY <2>4 DEF LoadVersion, ReadLockNoWait
    <2>5. CASE Validate(t)
      BY <2>5 DEF Validate, ReadUnlock
    <2>6. CASE UNCHANGED lockVars
      BY <2>6 DEF lockVars
    <2>7. QED
      BY <2>1, <2>2, <2>3, <2>4, <2>5, <2>6
         DEF BeginLookup, Continue, Allocate, PublishNode, UnlinkNode, FreeNode, LoadHead,
             StartTraversal, CompareKey, TakeVal, Advance
  <1>2. \A u \in Threads \ {t} :
            UNCHANGED <<op[u], stage[u], node[u], first[u], curr[u], result[u]>>
    <2> USE DEF TableInv, DataInv, DataOK, GoTo
    <2>1. CASE BeginWrite(t) \/ BeginLookup(t)
      BY <2>1 DEF BeginWrite, BeginLookup, Invoke
    <2>2. CASE Allocate(t) \/ PublishNode(t) \/ UnlinkNode(t) \/ FreeNode(t) \/ Unlock(t)
      BY <2>2 DEF Allocate, PublishNode, UnlinkNode, FreeNode, Unlock
    <2>3. CASE InsideLock(t) \/ Validate(t)
      BY <2>3 DEF InsideLock, Validate, Return
    <2>4. CASE LoadHead(t) \/ LoadVersion(t) \/ CompareKey(t) \/ TakeVal(t)
      BY <2>4 DEF LoadHead, LoadVersion, CompareKey, TakeVal
    <2>5. CASE StartTraversal(t) \/ Advance(t)
      BY <2>5 DEF StartTraversal, Advance, Visit
    <2>6. QED
      BY <2>1, <2>2, <2>3, <2>4, <2>5 DEF Continue
  <1>3. QED
    BY <1>1, <1>2

(* Between read_lock_no_wait and read_unlock. *)
ReadingStages == {"traverse", "key", "val", "next", "validate"}

(* What each call is, the bucket whose lock it is about, and whether its    *)
(* result is there yet.  A lookup that starts over keeps its old result.    *)
PhaseInv(t) ==
    /\ stage[t] = "none" => op[t] = NoOp
    /\ stage[t] \in {"allocate", "publish"} => op[t].kind = "insert"
    /\ stage[t] \in {"search", "free"} => op[t].kind = "remove"
    /\ stage[t] \in {"unlock", "release"} => op[t].kind \in {"insert", "remove"}
    /\ stage[t] \in LookupStages => op[t].kind = "lookup"
    /\ stage[t] \in {"none", "load_head", "allocate", "publish", "search"} => result[t] = Pending
    /\ stage[t] \in {"free", "unlock", "release"} => result[t] = TRUE
    /\ stage[t] = "validate" => result[t] # Pending
    /\ stage[t] \in ReadingStages => at[t] = Bucket(t)

(* The locks are there as long as the table is. *)
CallInv == LockInv /\ TableInv /\ DataInv /\ destroyed = {} /\ \A t \in Threads : PhaseInv(t)

(* insert and remove. *)
LEMMA WritePhase ==
    ASSUME CallInv, NEW t \in Threads,
           \/ BeginWrite(t) \/ Allocate(t) \/ PublishNode(t) \/ UnlinkNode(t) \/ FreeNode(t)
           \/ Unlock(t) \/ InsideLock(t)
    PROVE  PhaseInv(t)'
  <1> USE DEF At, GoTo
  <1>1. /\ PhaseInv(t)
        /\ op \in [Threads -> Ops \union {NoOp}] /\ stage \in [Threads -> Stages]
        /\ result \in [Threads -> Vals \union {Junk, NotFound, TRUE, Pending}]
        /\ at \in [Threads -> Locks]
    BY DEF CallInv, TableInv, DataInv, DataOK, LockInv, TypeOK
  <1>2. CASE BeginWrite(t)
    <2>1. PICK o \in Ops, s \in {"allocate", "search"} :
              /\ o.kind \in {"insert", "remove"}
              /\ op' = [op EXCEPT ![t] = o] /\ stage' = [stage EXCEPT ![t] = s]
              /\ s = IF o.kind = "insert" THEN "allocate" ELSE "search"
      BY <1>2 DEF BeginWrite, Invoke
    <2>2. stage[t] = "none" /\ result' = result
      BY <1>2 DEF BeginWrite, Invoke
    <2>3. op'[t] = o /\ stage'[t] = s /\ result'[t] = Pending
      BY <1>1, <2>1, <2>2 DEF PhaseInv
    <2>4. QED
      BY <2>1, <2>3 DEF PhaseInv, LookupStages, ReadingStages
  <1>3. CASE Allocate(t) \/ PublishNode(t) \/ UnlinkNode(t) \/ FreeNode(t) \/ Unlock(t)
    <2>1. /\ op' = op
          /\ \/ stage'[t] = stage[t] /\ result' = result /\ stage[t] \in {"search", "unlock"}
             \/ stage[t] = "allocate" /\ stage'[t] = "publish" /\ result' = result
             \/ stage[t] = "publish" /\ stage'[t] = "unlock" /\ result'[t] = TRUE
             \/ stage[t] = "search" /\ stage'[t] = "free" /\ result'[t] = TRUE
             \/ stage[t] = "free" /\ stage'[t] = "unlock" /\ result' = result
             \/ stage[t] = "unlock" /\ stage'[t] = "release" /\ result' = result
      BY <1>1, <1>3 DEF Allocate, PublishNode, UnlinkNode, FreeNode, Unlock
    <2>2. QED
      BY <1>1, <2>1 DEF PhaseInv, LookupStages, ReadingStages
  <1>4. CASE InsideLock(t)
    <2>1. CASE pc[t] = "faa"
      <3>1. op'[t] = NoOp /\ stage'[t] = "none" /\ result'[t] = Pending
        BY <1>1, <1>4, <2>1 DEF InsideLock, Return
      <3>2. QED
        BY <3>1 DEF PhaseInv, LookupStages, ReadingStages
    <2>2. CASE pc[t] # "faa"
      <3>1. op' = op /\ stage' = stage /\ result' = result
        BY <1>4, <2>2 DEF InsideLock
      <3>2. at' = at
        BY <1>4 DEF InsideLock, LockStep, WriteLoad, WriteCas, TryCas, UnlockReset, UnlockFaa,
                    ReadLoad
      <3>3. QED
        BY <1>1, <3>1, <3>2 DEF PhaseInv, Bucket
    <2>3. QED
      BY <2>1, <2>2
  <1>5. QED
    BY <1>2, <1>3, <1>4

(* lookup. *)
LEMMA LookupPhase ==
    ASSUME CallInv, NEW t \in Threads,
           \/ BeginLookup(t) \/ LoadHead(t) \/ LoadVersion(t) \/ StartTraversal(t)
           \/ CompareKey(t) \/ TakeVal(t) \/ Advance(t) \/ Validate(t)
    PROVE  PhaseInv(t)'
  <1> USE DEF At, GoTo
  <1>1. /\ PhaseInv(t)
        /\ op \in [Threads -> Ops \union {NoOp}] /\ stage \in [Threads -> Stages]
        /\ result \in [Threads -> Vals \union {Junk, NotFound, TRUE, Pending}]
        /\ at \in [Threads -> Locks]
    BY DEF CallInv, TableInv, DataInv, DataOK, LockInv, TypeOK
  <1>2. CASE BeginLookup(t)
    <2>1. PICK o \in Ops : o.kind = "lookup" /\ op' = [op EXCEPT ![t] = o]
      BY <1>2 DEF BeginLookup, Invoke
    <2>2. stage[t] = "none" /\ result' = result /\ stage' = [stage EXCEPT ![t] = "load_head"]
      BY <1>2 DEF BeginLookup, Invoke
    <2>3. op'[t] = o /\ stage'[t] = "load_head" /\ result'[t] = Pending
      BY <1>1, <2>1, <2>2 DEF PhaseInv
    <2>4. QED
      BY <2>1, <2>3 DEF PhaseInv, ReadingStages
  <1>3. CASE LoadHead(t) \/ LoadVersion(t)
    <2>1. /\ op' = op /\ result' = result /\ stage[t] \in LookupStages
          /\ \/ stage'[t] = "version"
             \/ stage'[t] = "traverse" /\ at'[t] = Bucket(t)
      BY <1>1, <1>3 DEF LoadHead, LoadVersion, ReadLockNoWait, Call, LookupStages
    <2>2. QED
      BY <1>1, <2>1 DEF PhaseInv, LookupStages, ReadingStages, Bucket
  <1>4. CASE StartTraversal(t) \/ CompareKey(t) \/ TakeVal(t) \/ Advance(t)
    <2>1. /\ op' = op /\ at' = at /\ stage[t] \in ReadingStages
          /\ stage'[t] \in {"key", "val", "next", "validate"}
      BY <1>1, <1>4 DEF StartTraversal, CompareKey, TakeVal, Advance, Visit, ReadingStages, lockVars
    <2>2. stage'[t] = "validate" => result'[t] # Pending
      <3>1. CASE TakeVal(t)
        <4>1. curr[t] \in Nodes
          BY <3>1 DEF TakeVal, CallInv, DataInv, DataOK, Pointers
        <4>2. cell[curr[t]].val \in Vals \union {Junk}
          BY <4>1 DEF CallInv, DataInv, DataOK, ListTypeOK
        <4>3. QED
          BY <1>1, <3>1, <4>2, VLHashTableAssumption DEF TakeVal
      <3>2. CASE ~TakeVal(t)
        BY <1>1, <1>4, <3>2, VLHashTableAssumption DEF StartTraversal, CompareKey, Advance, Visit
      <3>3. QED
        BY <3>1, <3>2
    <2>3. QED
      BY <1>1, <2>1, <2>2 DEF PhaseInv, LookupStages, ReadingStages, Bucket
  <1>5. CASE Validate(t)
    <2>1. \/ op'[t] = NoOp /\ stage'[t] = "none" /\ result'[t] = Pending
          \/ op' = op /\ stage'[t] = "version" /\ result' = result
          \/ op' = op /\ stage'[t] = stage[t] /\ result' = result
      BY <1>1, <1>5 DEF Validate, Return
    <2>2. stage[t] = "validate" /\ at' = at
      BY <1>5 DEF Validate, ReadUnlock
    <2>3. QED
      BY <1>1, <2>1, <2>2 DEF PhaseInv, LookupStages, ReadingStages, Bucket
  <1>6. QED
    BY <1>2, <1>3, <1>4, <1>5

(* Every step keeps the invariant. *)
LEMMA CallStep == CallInv /\ [TableNext]_vars => CallInv'
  <1> SUFFICES ASSUME CallInv, [TableNext]_vars PROVE CallInv'
    OBVIOUS
  <1>1. TableInv' /\ LockInv' /\ DataInv'
    BY TableInvStep, TableStepIsLockStep, LockStepInv, DataStep DEF CallInv, LockInv
  <1>2. CASE UNCHANGED vars
    BY <1>1, <1>2 DEF vars, callVars, lockVars, CallInv, PhaseInv, Bucket
  <1>3. ASSUME NEW t \in Threads, BeginWrite(t) \/ BeginLookup(t) \/ Continue(t)
        PROVE  CallInv'
    <2>1. PhaseInv(t)'
      BY <1>3, WritePhase, LookupPhase DEF Continue
    <2>2. /\ destroyed' = destroyed
          /\ \A u \in Threads \ {t} : UNCHANGED <<at[u], op[u], stage[u], result[u]>>
      BY <1>3, StepIsLocal DEF CallInv, LockInv
    <2>3. \A u \in Threads \ {t} : PhaseInv(u)'
      BY <2>2 DEF CallInv, PhaseInv, Bucket
    <2>4. QED
      BY <1>1, <2>1, <2>2, <2>3 DEF CallInv
  <1>4. QED
    BY <1>2, <1>3 DEF TableNext

(* The calls are right in every state. *)
LEMMA CallInvariant == TableSpec => []CallInv
  <1>1. TableInit => CallInv
    <2> SUFFICES ASSUME TableInit PROVE CallInv
      OBVIOUS
    <2>1. LockInv /\ TableInv
      BY TableInvInit, LockInit DEF TableInit
    <2>2. DataInv
      BY ListInitType DEF TableInit, DataInv, DataOK, Pointers
    <2>3. destroyed = {} /\ \A t \in Threads : PhaseInv(t)
      BY DEF TableInit, Init, PhaseInv, LookupStages, ReadingStages
    <2>4. QED
      BY <2>1, <2>2, <2>3 DEF CallInv
  <1>2. QED
    BY <1>1, CallStep, PTL DEF TableSpec

-----------------------------------------------------------------------------
(* The lists, until a lock's counter is reset.                             *)

(* The stages in which a thread's node is the thread's alone. *)
OwnStages == {"publish", "free"}

(* Node n is in the hands of a thread, or in a list. *)
InHand(n) == \E t \in Threads : stage[t] \in OwnStages /\ node[t] = n
InList(n) == \E b \in Buckets : n \in ListNodes(b)

(* The node in hand: an insert's is filled in and in no list yet, a         *)
(* remove's is in no list any more.                                         *)
HandInv(t) ==
    /\ stage[t] \in OwnStages =>
           /\ node[t] \in Nodes /\ node[t] \in live
           /\ \A b \in Buckets : node[t] \notin ListNodes(b)
    /\ stage[t] = "publish" =>
           cell[node[t]] = [key |-> op[t].key, val |-> op[t].val, next |-> head[Bucket(t)]]

Apart ==
    \A t, u \in Threads :
        t # u /\ stage[t] \in OwnStages /\ stage[u] \in OwnStages => node[t] # node[u]

(* No block is lost. *)
Accounted == \A n \in live : InHand(n) \/ InList(n)

HeapInv == ListsInv /\ Apart /\ Accounted /\ \A t \in Threads : HandInv(t)

(* The bucket of a call in progress. *)
LEMMA BucketOfCall ==
    ASSUME CallInv, NEW t \in Threads, stage[t] # "none"
    PROVE  op[t].key \in Keys /\ Bucket(t) \in Buckets
  <1>1. op[t].key \in Keys
    BY DEF CallInv, TableInv, StageInv, Ops
  <1>2. QED
    BY <1>1, ListAssumption DEF Bucket

(* Whoever has a lock, and is about to change its list, is the only one     *)
(* there that is.                                                           *)
LEMMA OthersElsewhere ==
    ASSUME CallInv, wrapped = {}, NEW t \in Threads, stage[t] \in {"publish", "search", "free"},
           pc[t] = "writing", NEW u \in Threads \ {t}, stage[u] \in {"publish", "free", "unlock"}
    PROVE  Bucket(u) # Bucket(t)
  <1>1. Bucket(t) \in Locks
    BY BucketOfCall, VLHashTableAssumption
  <1>2. at[t] = Bucket(t) /\ pc[u] = "writing" /\ at[u] = Bucket(u)
    BY DEF CallInv, TableInv, StageInv
  <1>3. MutualExclusion
    BY DEF CallInv, LockInv
  <1>4. QED
    BY <1>1, <1>2, <1>3 DEF MutualExclusion, Intact, Holds, WriterPCs

(* Thread t makes a step: what the others have in hand stays theirs.        *)
LEMMA OthersHands ==
    ASSUME HeapInv, NEW t \in Threads, ListsInv', Accounted', HandInv(t)',
           \A u \in Threads \ {t} :
               /\ UNCHANGED <<op[u], stage[u], node[u]>>
               /\ stage[u] \in OwnStages =>
                      /\ node[u] \in live' /\ cell'[node[u]] = cell[node[u]]
                      /\ \A b \in Buckets : node[u] \notin ListNodes(b)'
                      /\ stage'[t] \in OwnStages => node'[t] # node[u]
               /\ stage[u] = "publish" => head'[Bucket(u)] = head[Bucket(u)]
    PROVE  HeapInv'
  <1>1. ASSUME NEW u \in Threads \ {t} PROVE HandInv(u)'
    <2>1. HandInv(u) /\ op'[u] = op[u] /\ stage'[u] = stage[u] /\ node'[u] = node[u]
      BY DEF HeapInv
    <2>2. stage[u] \in OwnStages =>
              /\ node[u] \in live' /\ cell'[node[u]] = cell[node[u]]
              /\ \A b \in Buckets : node[u] \notin ListNodes(b)'
      OBVIOUS
    <2>3. stage[u] = "publish" => head'[Bucket(u)] = head[Bucket(u)]
      OBVIOUS
    <2>4. Bucket(u)' = Bucket(u)
      BY <2>1 DEF Bucket
    <2>5. QED
      BY <2>1, <2>2, <2>3, <2>4 DEF HandInv, OwnStages
  <1>2. Apart'
    BY DEF HeapInv, Apart
  <1>3. QED
    BY <1>1, <1>2 DEF HeapInv

(* A step of thread t on no list. *)
LEMMA ListsSame ==
    ASSUME HeapInv, NEW t \in Threads, ListsInv', SameLists, Accounted', HandInv(t)',
           \A u \in Threads \ {t} :
               /\ UNCHANGED <<op[u], stage[u], node[u]>>
               /\ stage[u] \in OwnStages =>
                      /\ node[u] \in live' /\ cell'[node[u]] = cell[node[u]]
                      /\ stage'[t] \in OwnStages => node'[t] # node[u],
           head' = head
    PROVE  HeapInv'
  <1>1. \A u \in Threads : stage[u] \in OwnStages => \A b \in Buckets : node[u] \notin ListNodes(b)
    BY DEF HeapInv, HandInv
  <1>2. \A b \in Buckets : ListNodes(b)' = ListNodes(b)
    BY DEF SameLists, SameList
  <1>3. QED
    BY <1>1, <1>2, OthersHands

(* A step that touches neither the heap nor a node in hand. *)
LEMMA HeapUntouched ==
    ASSUME CallInv, HeapInv, NEW t \in Threads,
           \/ BeginWrite(t) \/ BeginLookup(t) \/ Unlock(t) \/ InsideLock(t) \/ LoadHead(t)
           \/ LoadVersion(t) \/ StartTraversal(t) \/ CompareKey(t) \/ TakeVal(t)
           \/ Advance(t) \/ Validate(t)
    PROVE  HeapInv' /\ SameLists
  <1>1. UNCHANGED listVars /\ ListsInv' /\ SameLists
    <2>1. UNCHANGED listVars
      BY DEF BeginWrite, BeginLookup, Unlock, InsideLock, LoadHead, LoadVersion, StartTraversal,
             CompareKey, TakeVal, Advance, Validate
    <2>2. ListsInv
      BY DEF HeapInv
    <2>3. QED
      BY <2>1, <2>2, ListsUntouched
  <1>2. stage[t] \notin OwnStages /\ stage'[t] \notin OwnStages
    <2> USE DEF At, GoTo, OwnStages
    <2>1. stage \in [Threads -> Stages] /\ StageInv(t)
      BY DEF CallInv, TableInv
    <2>2. CASE InsideLock(t)
      <3>1. pc[t] # "writing"
        BY <2>2 DEF InsideLock, LockStep, WriteLoad, WriteCas, TryCas, UnlockReset, UnlockFaa,
                    ReadLoad
      <3>2. stage[t] \notin {"publish", "free"}
        BY <2>1, <3>1 DEF StageInv
      <3>3. stage' = stage \/ stage' = [stage EXCEPT ![t] = "none"]
        BY <2>2 DEF InsideLock, Return
      <3>4. QED
        BY <2>1, <3>2, <3>3
    <2>3. CASE BeginWrite(t) \/ BeginLookup(t) \/ Unlock(t)
      BY <2>1, <2>3 DEF BeginWrite, BeginLookup, Invoke, Unlock
    <2>4. CASE LoadHead(t) \/ LoadVersion(t) \/ CompareKey(t) \/ TakeVal(t) \/ Validate(t)
      BY <2>1, <2>4 DEF LoadHead, LoadVersion, CompareKey, TakeVal, Validate, Return
    <2>5. CASE StartTraversal(t) \/ Advance(t)
      BY <2>1, <2>5 DEF StartTraversal, Advance, Visit
    <2>6. QED
      BY <2>2, <2>3, <2>4, <2>5
  <1>3. \A u \in Threads \ {t} : UNCHANGED <<op[u], stage[u], node[u]>>
    BY StepIsLocal DEF CallInv, LockInv, Continue
  <1>4. HandInv(t)'
    BY <1>2 DEF HandInv, OwnStages
  <1>5. Accounted'
    <2>1. \A n : InHand(n) => InHand(n)'
      BY <1>2, <1>3 DEF InHand
    <2>2. \A n : InList(n) => InList(n)'
      BY <1>1 DEF InList, SameLists, SameList
    <2>3. QED
      BY <1>1, <2>1, <2>2 DEF HeapInv, Accounted, listVars
  <1>6. \A u \in Threads \ {t} : stage[u] \in OwnStages =>
            node[u] \in live' /\ cell'[node[u]] = cell[node[u]]
    BY <1>1 DEF HeapInv, HandInv, listVars
  <1>7. HeapInv'
    BY <1>1, <1>2, <1>3, <1>4, <1>5, <1>6, ListsSame DEF listVars
  <1>8. QED
    BY <1>1, <1>7

(* insert fills a node in that no list and no other thread has              *)
(* (list.hpp:72-77).                                                        *)
LEMMA AllocateLists ==
    ASSUME CallInv, HeapInv, NEW t \in Threads, Allocate(t)
    PROVE  HeapInv' /\ SameLists
  <1> USE DEF GoTo, At
  <1>1. PICK b \in Buckets, k \in Keys : b = Bucket(t) /\ k = op[t].key
    BY BucketOfCall DEF Allocate
  <1>2. /\ op' = op /\ stage[t] = "allocate" /\ stage'[t] = "publish" /\ op[t].val \in Vals
    <2>1. stage[t] = "allocate" /\ op' = op /\ stage' = [stage EXCEPT ![t] = "publish"]
      BY DEF Allocate
    <2>2. op[t] \in Ops /\ op[t].kind = "insert" /\ stage \in [Threads -> Stages]
      BY <2>1 DEF CallInv, PhaseInv, TableInv, StageInv
    <2>3. QED
      BY <2>1, <2>2 DEF Ops
  <1>3. PICK n \in Nodes \ live, v \in Vals, p \in Pointers :
            v = op[t].val /\ p = head[b] /\ NewNode(n, k, v, p) /\ node' = [node EXCEPT ![t] = n]
    <2>1. head[b] \in Pointers
      BY DEF HeapInv, ListsInv, ListTypeOK
    <2>2. QED
      BY <1>1, <1>2, <2>1 DEF Allocate, NewNode
  <1>4. /\ ListsInv' /\ SameLists
        /\ \A c \in Buckets : n \notin ListNodes(c)
        /\ \A m \in Nodes \ {n} : cell'[m] = cell[m]
        /\ cell'[n] = [key |-> k, val |-> v, next |-> p]
    <2>1. ListsInv /\ NewNode(n, k, v, p)
      BY <1>3 DEF HeapInv
    <2>2. QED
      BY <2>1, ListsAllocate
  <1>5. live' = live \union {n} /\ head' = head /\ node'[t] = n
    BY <1>3 DEF NewNode, CallInv, DataInv, DataOK
  <1>6. \A c \in Buckets : ListNodes(c)' = ListNodes(c)
    BY <1>4 DEF SameLists, SameList
  <1>7. HandInv(t)'
    <2>1. cell'[n] = [key |-> op'[t].key, val |-> op'[t].val, next |-> head'[Bucket(t)']]
          /\ Bucket(t)' = Bucket(t)
      BY <1>1, <1>2, <1>3, <1>4, <1>5 DEF Bucket
    <2>2. QED
      BY <1>2, <1>4, <1>5, <1>6, <2>1 DEF HandInv, OwnStages
  <1>8. \A u \in Threads \ {t} : UNCHANGED <<op[u], stage[u], node[u]>>
    BY StepIsLocal DEF CallInv, LockInv, Continue
  <1>9. \A u \in Threads \ {t} : stage[u] \in OwnStages =>
            /\ node[u] \in live' /\ cell'[node[u]] = cell[node[u]]
            /\ stage'[t] \in OwnStages => node'[t] # node[u]
    <2>1. \A u \in Threads : stage[u] \in OwnStages => node[u] \in Nodes /\ node[u] \in live
      BY DEF HeapInv, HandInv
    <2>2. QED
      BY <1>4, <1>5, <2>1
  <1>10. Accounted'
    <2>1. \A m : InHand(m) => InHand(m)'
      BY <1>2, <1>8 DEF InHand, OwnStages
    <2>2. \A m : InList(m) => InList(m)'
      BY <1>6 DEF InList
    <2>3. InHand(n)'
      BY <1>2, <1>5 DEF InHand, OwnStages
    <2>4. QED
      BY <1>5, <2>1, <2>2, <2>3 DEF HeapInv, Accounted
  <1>11. HeapInv'
    BY <1>4, <1>5, <1>7, <1>8, <1>9, <1>10, ListsSame
  <1>12. QED
    BY <1>4, <1>11

(* What publishing a node does to the lists. *)
Published(t) ==
    /\ \A c \in Buckets \ {Bucket(t)} : SameList(c)
    /\ \A k \in Keys : Stack(k)' = IF k = op[t].key THEN <<op[t].val>> \o Stack(k) ELSE Stack(k)
    /\ \A c \in Buckets : ListNodes(c) \subseteq ListNodes(c)'
    /\ \A p, k : Answer(p, k)' = Answer(p, k)
    /\ cell' = cell

(* The node goes in front of its list, and its value in front of its key's  *)
(* (list.hpp:78).                                                           *)
LEMMA PublishLists ==
    ASSUME CallInv, HeapInv, wrapped = {}, NEW t \in Threads, PublishNode(t)
    PROVE  HeapInv' /\ Published(t)
  <1> USE DEF GoTo, At
  <1>1. PICK b \in Buckets, k \in Keys : b = Bucket(t) /\ k = op[t].key /\ HashOf[k] = b
    BY BucketOfCall DEF PublishNode, Bucket
  <1>2. /\ op' = op /\ node' = node /\ stage'[t] = "unlock" /\ stage[t] = "publish"
        /\ op[t].val \in Vals /\ pc[t] = "writing"
    <2>1. stage[t] = "publish" /\ op' = op /\ node' = node /\ stage' = [stage EXCEPT ![t] = "unlock"]
      BY DEF PublishNode
    <2>2. op[t] \in Ops /\ op[t].kind = "insert" /\ stage \in [Threads -> Stages] /\ pc[t] = "writing"
      BY <2>1 DEF CallInv, PhaseInv, TableInv, StageInv
    <2>3. QED
      BY <2>1, <2>2 DEF Ops
  <1>3. PICK n \in Nodes : n = node[t] /\ n \in live /\ (\A c \in Buckets : n \notin ListNodes(c))
                           /\ cell[n] = [key |-> op[t].key, val |-> op[t].val, next |-> head[b]]
    BY <1>1, <1>2 DEF HeapInv, HandInv, OwnStages
  <1>4. /\ ListsInv' /\ cell' = cell /\ live' = live
        /\ head'[b] = n /\ ListNodes(b)' = {n} \union ListNodes(b)
        /\ \A c \in Buckets \ {b} : SameList(c)
        /\ \A j \in Keys : Stack(j)' = IF j = cell[n].key THEN <<cell[n].val>> \o Stack(j)
                                      ELSE Stack(j)
        /\ \A p, j : Answer(p, j)' = Answer(p, j)
    <2>1. /\ cell[n].key \in Keys /\ cell[n].val \in Vals /\ HashOf[cell[n].key] = b
          /\ cell[n].next = head[b]
      BY <1>1, <1>2, <1>3
    <2>2. ListsInv /\ Publish(n, b)
      BY <1>1, <1>3 DEF HeapInv, PublishNode
    <2>3. QED
      BY <1>3, <2>1, <2>2, ListsPublish
  <1>5. HandInv(t)' /\ stage'[t] \notin OwnStages
    BY <1>2 DEF HandInv, OwnStages
  <1>6. \A u \in Threads \ {t} : UNCHANGED <<op[u], stage[u], node[u]>>
    BY StepIsLocal DEF CallInv, LockInv, Continue
  <1>7. ASSUME NEW u \in Threads \ {t}
        PROVE  /\ stage[u] \in OwnStages =>
                      /\ node[u] \in live' /\ cell'[node[u]] = cell[node[u]]
                      /\ \A c \in Buckets : node[u] \notin ListNodes(c)'
               /\ stage[u] = "publish" => head'[Bucket(u)] = head[Bucket(u)]
    <2>1. ASSUME stage[u] \in OwnStages
          PROVE  /\ node[u] \in live' /\ cell'[node[u]] = cell[node[u]]
                 /\ \A c \in Buckets : node[u] \notin ListNodes(c)'
      <3>1. node[u] # n /\ node[u] \in live /\ \A c \in Buckets : node[u] \notin ListNodes(c)
        BY <1>2, <1>3, <2>1 DEF HeapInv, Apart, HandInv, OwnStages
      <3>2. QED
        BY <1>4, <3>1 DEF SameList
    <2>2. ASSUME stage[u] = "publish" PROVE head'[Bucket(u)] = head[Bucket(u)]
      <3>1. Bucket(u) \in Buckets \ {b}
        BY <1>1, <1>2, <2>2, OthersElsewhere, BucketOfCall
      <3>2. QED
        BY <1>4, <3>1 DEF SameList
    <2>3. QED
      BY <2>1, <2>2
  <1>8. \A c \in Buckets : ListNodes(c) \subseteq ListNodes(c)'
    BY <1>4 DEF SameList
  <1>9. Accounted'
    <2>1. \A m : InHand(m) => InHand(m)' \/ m = n
      BY <1>3, <1>6 DEF InHand
    <2>2. InList(n)' /\ \A m : InList(m) => InList(m)'
      BY <1>4, <1>8 DEF InList
    <2>3. QED
      BY <1>4, <2>1, <2>2 DEF HeapInv, Accounted
  <1>10. HeapInv'
    BY <1>4, <1>5, <1>6, <1>7, <1>9, OthersHands
  <1>11. \A j \in Keys : Stack(j)' = IF j = op[t].key THEN <<op[t].val>> \o Stack(j) ELSE Stack(j)
    <2>1. cell[n].key = op[t].key /\ cell[n].val = op[t].val
      BY <1>3
    <2>2. QED
      BY <1>4, <2>1
  <1>12. QED
    BY <1>1, <1>4, <1>8, <1>10, <1>11 DEF Published

(* What taking a node out does to the lists. *)
Taken(t) ==
    /\ \A c \in Buckets \ {Bucket(t)} : SameList(c)
    /\ Stack(op[t].key) # <<>>
    /\ \A k \in Keys : Stack(k)' = IF k = op[t].key THEN Tail(Stack(k)) ELSE Stack(k)
    /\ result' = [result EXCEPT ![t] = TRUE]

(* remove takes the first node with its key out of the list, or finds none  *)
(* (list.hpp:84-98).                                                        *)
LEMMA UnlinkLists ==
    ASSUME CallInv, HeapInv, wrapped = {}, NEW t \in Threads, UnlinkNode(t)
    PROVE  HeapInv' /\ (Taken(t) \/ (SameLists /\ result' = result))
  <1> USE DEF GoTo, At
  <1>1. PICK b \in Buckets, k \in Keys : b = Bucket(t) /\ k = op[t].key /\ b = HashOf[k]
    BY BucketOfCall DEF UnlinkNode, Bucket
  <1>2. op' = op /\ stage[t] = "search" /\ pc[t] = "writing"
    BY DEF UnlinkNode, Inside
  <1>3. ListsInv /\ \A u \in Threads \ {t} : UNCHANGED <<op[u], stage[u], node[u]>>
    BY StepIsLocal DEF HeapInv, CallInv, LockInv, Continue
  <1>4. CASE Matching(head[b], k) = <<>>
    <2>1. UNCHANGED <<listVars, stage, node, result>>
      BY <1>1, <1>4 DEF UnlinkNode
    <2>2. ListsInv' /\ SameLists /\ cell' = cell /\ live' = live /\ head' = head
      BY <1>3, <2>1, ListsUntouched DEF listVars
    <2>3. HandInv(t)' /\ stage'[t] \notin OwnStages
      BY <1>2, <2>1 DEF HandInv, OwnStages
    <2>4. \A u \in Threads \ {t} : stage[u] \in OwnStages =>
              node[u] \in live' /\ cell'[node[u]] = cell[node[u]]
      BY <2>2 DEF HeapInv, HandInv
    <2>5. Accounted'
      <3>1. \A m : InHand(m) => InHand(m)'
        BY <2>1 DEF InHand
      <3>2. \A m : InList(m) => InList(m)'
        BY <2>2 DEF InList, SameLists, SameList
      <3>3. QED
        BY <2>2, <3>1, <3>2 DEF HeapInv, Accounted
    <2>6. HeapInv'
      BY <1>3, <2>2, <2>3, <2>4, <2>5, ListsSame
    <2>7. QED
      BY <2>1, <2>2, <2>6
  <1>5. CASE Matching(head[b], k) # <<>>
    <2>1. /\ stage' = [stage EXCEPT ![t] = "free"] /\ result' = [result EXCEPT ![t] = TRUE]
          /\ \E n \in Nodes : /\ n = Head(Matching(head[b], k))
                              /\ Unlink(n, b) /\ node' = [node EXCEPT ![t] = n]
      BY <1>1, <1>5 DEF UnlinkNode
    <2>2. PICK n \in Nodes : /\ n = Head(Matching(head[b], k))
                             /\ Unlink(n, b) /\ node' = [node EXCEPT ![t] = n]
      BY <2>1
    <2>3. /\ ListsInv' /\ live' = live
          /\ n \in ListNodes(b) /\ cell[n].key = k
          /\ ListNodes(b)' = ListNodes(b) \ {n}
          /\ \A c \in Buckets \ {b} : SameList(c)
          /\ Stack(k) # <<>> /\ Stack(k)' = Tail(Stack(k))
          /\ \A j \in Keys \ {k} : Stack(j)' = Stack(j)
          /\ \A m \in Nodes : cell'[m].key = cell[m].key /\ cell'[m].val = cell[m].val
          /\ \A m \in Nodes \ ListNodes(b) : cell'[m] = cell[m]
          /\ cell'[n] = cell[n]
      <3>1. b = HashOf[k] /\ n = Head(Matching(head[b], k)) /\ Unlink(n, b)
        BY <1>1, <2>2
      <3>2. ListsInv /\ Matching(head[b], k) # <<>>
        BY <1>3, <1>5
      <3>3. QED
        BY ONLY <3>1, <3>2, ListsUnlink
    <2>4. stage'[t] = "free" /\ node'[t] = n
      BY <2>1, <2>2 DEF CallInv, TableInv, DataInv, DataOK
    <2>5. \A c \in Buckets : n \notin ListNodes(c)' /\ ListNodes(c)' \subseteq ListNodes(c)
      BY <1>3, <2>3, ListsAreDisjoint DEF SameList
    <2>6. n \in live
      BY <1>3, <2>3 DEF ListsInv, ListInv
    <2>7. HandInv(t)'
      BY <2>3, <2>4, <2>5, <2>6 DEF HandInv, OwnStages
    <2>8. ASSUME NEW u \in Threads \ {t}
          PROVE  /\ stage[u] \in OwnStages =>
                        /\ node[u] \in live' /\ cell'[node[u]] = cell[node[u]]
                        /\ \A c \in Buckets : node[u] \notin ListNodes(c)'
                        /\ stage'[t] \in OwnStages => node'[t] # node[u]
                 /\ stage[u] = "publish" => head'[Bucket(u)] = head[Bucket(u)]
      <3>1. stage[u] \in OwnStages =>
                /\ node[u] \in Nodes /\ node[u] \in live
                /\ \A c \in Buckets : node[u] \notin ListNodes(c)
        BY DEF HeapInv, HandInv
      <3>2. ASSUME stage[u] = "publish" PROVE head'[Bucket(u)] = head[Bucket(u)]
        <4>1. Bucket(u) \in Buckets \ {b}
          BY <1>1, <1>2, <3>2, OthersElsewhere, BucketOfCall
        <4>2. QED
          BY <2>3, <4>1 DEF SameList
      <3>3. QED
        BY <2>3, <2>4, <2>5, <3>1, <3>2
    <2>9. Accounted'
      <3>1. InHand(n)' /\ \A m : InHand(m) => InHand(m)'
        BY <1>2, <1>3, <2>4 DEF InHand, OwnStages
      <3>2. \A m : InList(m) => InList(m)' \/ m = n
        BY <2>3 DEF InList, SameList
      <3>3. QED
        BY <2>3, <3>1, <3>2 DEF HeapInv, Accounted
    <2>10. HeapInv'
      BY <1>3, <2>3, <2>7, <2>8, <2>9, OthersHands
    <2>11. Taken(t)
      BY <1>1, <2>1, <2>3 DEF Taken
    <2>12. QED
      BY <2>10, <2>11
  <1>6. QED
    BY <1>4, <1>5

(* remove deletes the node, which no other writer can have (list.hpp:99).   *)
LEMMA FreeLists ==
    ASSUME CallInv, HeapInv, NEW t \in Threads, FreeNode(t)
    PROVE  HeapInv' /\ SameLists
  <1> USE DEF GoTo, At
  <1>1. op' = op /\ node' = node /\ stage[t] = "free" /\ stage'[t] = "unlock"
    BY DEF FreeNode, CallInv, TableInv
  <1>2. PICK n \in Nodes : n = node[t] /\ Free(n) /\ \A c \in Buckets : n \notin ListNodes(c)
    BY <1>1 DEF FreeNode, HeapInv, HandInv, OwnStages
  <1>3. /\ ListsInv' /\ SameLists /\ live' = live \ {n} /\ head' = head
        /\ \A m \in Nodes \ {n} : cell'[m] = cell[m]
    <2>1. ListsInv
      BY DEF HeapInv
    <2>2. QED
      BY <1>2, <2>1, ListsFree DEF Free
  <1>4. HandInv(t)' /\ stage'[t] \notin OwnStages
    BY <1>1 DEF HandInv, OwnStages
  <1>5. \A u \in Threads \ {t} : UNCHANGED <<op[u], stage[u], node[u]>>
    BY StepIsLocal DEF CallInv, LockInv, Continue
  <1>6. \A u \in Threads \ {t} : stage[u] \in OwnStages =>
            node[u] \in live' /\ cell'[node[u]] = cell[node[u]]
    <2>1. \A u \in Threads \ {t} : stage[u] \in OwnStages =>
              node[u] \in Nodes /\ node[u] \in live /\ node[u] # n
      BY <1>1, <1>2 DEF HeapInv, HandInv, Apart, OwnStages
    <2>2. QED
      BY <1>3, <2>1
  <1>7. Accounted'
    <2>1. \A m : InHand(m) => InHand(m)' \/ m = n
      BY <1>2, <1>5 DEF InHand
    <2>2. \A m : InList(m) => InList(m)'
      BY <1>3 DEF InList, SameLists, SameList
    <2>3. QED
      BY <1>3, <2>1, <2>2 DEF HeapInv, Accounted
  <1>8. HeapInv'
    BY <1>3, <1>4, <1>5, <1>6, <1>7, ListsSame
  <1>9. QED
    BY <1>3, <1>8

(* Counters only go from intact to reset. *)
LEMMA IntactBefore ==
    ASSUME CallInv, [TableNext]_vars, wrapped' = {}
    PROVE  wrapped = {}
  <1>1. [Next]_lockVars
    BY TableStepIsLockStep DEF CallInv
  <1>2. wrapped \subseteq wrapped'
    BY <1>1, WrappedGrows DEF CallInv, LockInv
  <1>3. QED
    BY <1>2

(* Every step keeps the lists right. *)
LEMMA HeapStep ==
    ASSUME CallInv, HeapInv, wrapped = {}, [TableNext]_vars
    PROVE  HeapInv'
  <1>1. CASE UNCHANGED vars
    <2>1. ListsInv' /\ SameLists
      BY <1>1, ListsUntouched DEF HeapInv, vars
    <2>2. UNCHANGED <<cell, live, head, op, stage, node>>
      BY <1>1 DEF vars, listVars, callVars
    <2>3. \A b \in Buckets : ListNodes(b)' = ListNodes(b)
      BY <2>1 DEF SameLists, SameList
    <2>4. \A t \in Threads : HandInv(t)'
      BY <2>2, <2>3 DEF HeapInv, HandInv, Bucket
    <2>5. Apart' /\ Accounted'
      BY <2>2, <2>3 DEF HeapInv, Apart, Accounted, InHand, InList
    <2>6. QED
      BY <2>1, <2>4, <2>5 DEF HeapInv
  <1>2. CASE TableNext
    BY <1>2, HeapUntouched, AllocateLists, PublishLists, UnlinkLists, FreeLists
       DEF TableNext, Continue
  <1>3. QED
    BY <1>1, <1>2

(* The lists are right until a counter is reset. *)
LEMMA HeapInvariant == TableSpec => [](CallInv /\ (wrapped = {} => HeapInv))
  <1>1. TableInit => HeapInv
    <2> SUFFICES ASSUME TableInit PROVE HeapInv
      OBVIOUS
    <2>1. ListsInv /\ live = {}
      BY ListsInit DEF TableInit, ListInit
    <2>2. QED
      BY <2>1 DEF TableInit, HeapInv, HandInv, Apart, Accounted, OwnStages
  <1>2. CallInv /\ (wrapped = {} => HeapInv) /\ [TableNext]_vars => (wrapped = {} => HeapInv)'
    BY HeapStep, IntactBefore
  <1>3. QED
    BY <1>1, <1>2, CallInvariant, PTL DEF TableSpec

(* The lists stay intact until a lock's counter is reset (vlht.hpp:55-61,   *)
(* 87-93).                                                                  *)
THEOREM ListsStayIntact == TableSpec => [](wrapped = {} => ListsIntact)
  <1>1. ASSUME CallInv, HeapInv PROVE ListsIntact
    <2> DEFINE inHand == {node[t] : t \in {u \in Threads : stage[u] \in {"publish", "free"}}}
    <2>1. ASSUME NEW b \in Buckets, Chain(head[b]) # <<>>
          PROVE  cell[Chain(head[b])[Len(Chain(head[b]))]].next = Nil
      BY <1>1, <2>1, ChainEnds DEF HeapInv
    <2>2. \A b \in Buckets : \A n \in ListNodes(b) : n \in live /\ HashOf[cell[n].key] = b
      BY <1>1 DEF HeapInv, ListsInv, ListInv
    <2>3. \A n : n \in inHand <=> InHand(n)
      BY DEF InHand, OwnStages
    <2>4. \A n : n \in UNION {ListNodes(b) : b \in Buckets} <=> InList(n)
      BY DEF InList
    <2>5. \A n : InHand(n) => n \in live /\ ~InList(n)
      BY <1>1 DEF InHand, InList, HeapInv, HandInv
    <2> HIDE DEF inHand
    <2>6. live = inHand \union UNION {ListNodes(b) : b \in Buckets}
      BY <1>1, <2>2, <2>3, <2>4, <2>5 DEF HeapInv, Accounted, InList
    <2>7. \A b \in Buckets : inHand \intersect ListNodes(b) = {}
      BY <2>3, <2>5 DEF InList
    <2>8. QED
      BY <2>1, <2>2, <2>6, <2>7 DEF ListsIntact, inHand
  <1>2. QED
    BY <1>1, HeapInvariant, PTL

-----------------------------------------------------------------------------
(* Lookups.                                                                *)

(* Thread t, traversing a list from pointer p on, has the answer ahead of   *)
(* it, or in its result.                                                    *)
Ahead(t, p) ==
    /\ stage[t] \in {"key", "val", "next"} =>
           /\ curr[t] \in ListNodes(Bucket(t))
           /\ Answer(curr[t], op[t].key) = Answer(p, op[t].key)
    /\ stage[t] = "val" => cell[curr[t]].key = op[t].key
    /\ stage[t] = "next" => cell[curr[t]].key # op[t].key
    /\ stage[t] = "validate" => result[t] = Answer(p, op[t].key)

(* An untouched heap gives the same answers. *)
LEMMA AnswersStay ==
    ASSUME UNCHANGED listVars
    PROVE  /\ \A p, k : Answer(p, k)' = Answer(p, k)
           /\ \A b : ListNodes(b)' = ListNodes(b)
  BY HeapOperators, HeapOperatorsNext DEF listVars

(* Goes from one pointer to the next, until the key or the end is found     *)
(* (list.hpp:102-110).                                                      *)
LEMMA TraversalStep ==
    ASSUME CallInv, HeapInv, NEW t \in Threads,
           NEW p, Ahead(t, p),
           \/ /\ StartTraversal(t)
              /\ p = IF first[t] = InLoop THEN head[Bucket(t)] ELSE first[t]
              /\ \A b \in Buckets : b = Bucket(t) => p \in ListNodes(b) \union {Nil}
           \/ CompareKey(t) \/ TakeVal(t) \/ Advance(t)
    PROVE  Ahead(t, p)'
  <1> USE DEF At, GoTo
  <1>1. PICK b \in Buckets, k \in Keys : b = Bucket(t) /\ k = op[t].key
    BY BucketOfCall DEF StartTraversal, CompareKey, TakeVal, Advance
  <1>2. /\ stage \in [Threads -> Stages] /\ curr \in [Threads -> Pointers]
        /\ result \in [Threads -> Vals \union {Junk, NotFound, TRUE, Pending}]
    BY DEF CallInv, TableInv, DataInv, DataOK
  <1>3. /\ op' = op /\ cell' = cell /\ Bucket(t)' = b /\ op'[t].key = k
        /\ \A q, j : Answer(q, j)' = Answer(q, j)
        /\ ListNodes(b)' = ListNodes(b)
    <2>1. op' = op /\ UNCHANGED listVars
      BY DEF StartTraversal, CompareKey, TakeVal, Advance
    <2>2. QED
      BY <1>1, <2>1, AnswersStay DEF listVars, Bucket
  <1>4. ListsInv
    BY DEF HeapInv
  <1>5. ASSUME NEW q \in ListNodes(b) \union {Nil}, Visit(t, q), Answer(q, k) = Answer(p, k)
        PROVE  Ahead(t, p)'
    <2>1. CASE q = Nil
      <3>1. stage'[t] = "validate" /\ result'[t] = NotFound
        BY <1>2, <1>5, <2>1 DEF Visit
      <3>2. Answer(p, k) = NotFound
        BY <1>4, <1>5, <2>1, AnswerAtEnd
      <3>3. QED
        BY <1>3, <3>1, <3>2 DEF Ahead
    <2>2. CASE q # Nil
      <3>1. stage'[t] = "key" /\ curr'[t] = q
        BY <1>2, <1>5, <2>2 DEF Visit
      <3>2. Answer(q, k)' = Answer(p, k)' /\ q \in ListNodes(b)'
        BY <1>3, <1>5, <2>2
      <3>3. Answer(curr[t], op[t].key)' = Answer(p, op[t].key)' /\ curr'[t] \in ListNodes(Bucket(t))'
        BY <1>3, <3>1, <3>2
      <3>4. QED
        BY <3>1, <3>3 DEF Ahead
    <2>3. QED
      BY <2>1, <2>2
  <1>6. CASE StartTraversal(t)
    <2>1. Visit(t, p) /\ p \in ListNodes(b) \union {Nil}
      <3>1. /\ p = IF first[t] = InLoop THEN head[Bucket(t)] ELSE first[t]
            /\ p \in ListNodes(b) \union {Nil}
        BY <1>1, <1>6 DEF StartTraversal, CompareKey, TakeVal, Advance
      <3>2. QED
        BY <1>6, <3>1 DEF StartTraversal
    <2>2. QED
      BY <1>5, <2>1
  <1>7. ASSUME CompareKey(t) \/ TakeVal(t) \/ Advance(t) PROVE Ahead(t, p)'
    <2>1. PICK n \in ListNodes(b) :
              n = curr[t] /\ Answer(n, k) = Answer(p, k)
      BY <1>1, <1>7 DEF CompareKey, TakeVal, Advance, Ahead
    <2>2. /\ Answer(n, k) = IF cell[n].key = k THEN cell[n].val ELSE Answer(cell[n].next, k)
          /\ cell[n].next \in ListNodes(b) \union {Nil}
      BY <1>4, AnswerFromNode, ListNodesType
    <2>3. CASE CompareKey(t)
      <3>1. curr' = curr /\ stage'[t] = IF cell[n].key = k THEN "val" ELSE "next"
        BY <1>1, <1>2, <2>1, <2>3 DEF CompareKey
      <3>2. Answer(n, k)' = Answer(p, k)'
        BY <1>3, <2>1
      <3>3. Answer(curr[t], op[t].key)' = Answer(p, op[t].key)' /\ curr'[t] \in ListNodes(Bucket(t))'
        BY <1>3, <2>1, <3>1, <3>2
      <3>4. QED
        BY <1>3, <2>1, <3>1, <3>3 DEF Ahead
    <2>4. CASE TakeVal(t)
      <3>1. stage'[t] = "validate" /\ result'[t] = cell[n].val /\ cell[n].key = k
        BY <1>1, <1>2, <2>1, <2>4 DEF TakeVal, Ahead
      <3>2. result'[t] = Answer(p, op[t].key)'
        BY <1>3, <2>1, <2>2, <3>1
      <3>3. QED
        BY <3>1, <3>2 DEF Ahead
    <2>5. CASE Advance(t)
      <3>1. Visit(t, cell[n].next) /\ cell[n].key # k
        BY <1>1, <2>1, <2>5 DEF Advance, Ahead
      <3>2. QED
        BY <1>5, <2>1, <2>2, <3>1
    <2>6. QED
      BY <1>7, <2>3, <2>4, <2>5
  <1>8. QED
    BY <1>6, <1>7

(* A traversal goes on as it was when its list stays, or only grows. *)
LEMMA TraversalKept ==
    ASSUME CallInv, NEW u \in Threads, NEW b \in Buckets, stage[u] # "none" => b = Bucket(u),
           NEW p \in ListNodes(b) \union {Nil}, Ahead(u, p),
           UNCHANGED <<op[u], stage[u], curr[u], result[u]>>,
           ListNodes(b) \subseteq ListNodes(b)',
           \A q \in ListNodes(b) \union {Nil} : \A k : Answer(q, k)' = Answer(q, k),
           \A n \in ListNodes(b) : cell'[n].key = cell[n].key
    PROVE  Ahead(u, p)'
  <1>1. PICK k, n : k = op[u].key /\ n = curr[u]
    OBVIOUS
  <1>2. op'[u].key = k /\ curr'[u] = n /\ stage'[u] = stage[u] /\ result'[u] = result[u]
    BY <1>1
  <1>3. Answer(p, k)' = Answer(p, k)
    OBVIOUS
  <1>4. CASE stage[u] \in {"key", "val", "next"}
    <2>1. b = Bucket(u) /\ Bucket(u)' = b
      BY <1>4 DEF Bucket
    <2>2. n \in ListNodes(b) /\ Answer(n, k) = Answer(p, k)
      BY <1>1, <1>4, <2>1 DEF Ahead
    <2>3. Answer(n, k)' = Answer(p, k)' /\ n \in ListNodes(b)' /\ cell'[n].key = cell[n].key
      BY <1>3, <2>2
    <2>4. /\ Answer(curr[u], op[u].key)' = Answer(p, op[u].key)'
          /\ curr'[u] \in ListNodes(Bucket(u))'
      BY <1>2, <2>1, <2>3
    <2>5. QED
      BY <1>1, <1>2, <1>4, <2>3, <2>4 DEF Ahead
  <1>5. CASE stage[u] = "validate"
    <2>1. result[u] = Answer(p, k)
      BY <1>1, <1>5 DEF Ahead
    <2>2. result'[u] = Answer(p, op[u].key)'
      BY <1>2, <1>3, <2>1
    <2>3. QED
      BY <1>2, <1>5, <2>2 DEF Ahead
  <1>6. CASE stage[u] \notin {"key", "val", "next", "validate"}
    BY <1>2, <1>6 DEF Ahead
  <1>7. QED
    BY <1>4, <1>5, <1>6

(* The nodes in the lists keep their keys. *)
LEMMA KeysStay ==
    ASSUME CallInv, HeapInv, NEW t \in Threads, BeginWrite(t) \/ BeginLookup(t) \/ Continue(t),
           NEW b \in Buckets, NEW n \in ListNodes(b)
    PROVE  cell'[n].key = cell[n].key
  <1>1. /\ n \in Nodes /\ n \in live
        /\ cell \in [Nodes -> [key : Keys \union {Junk}, val : Vals \union {Junk}, next : Pointers]]
    BY ListNodesType DEF HeapInv, ListsInv, ListInv, ListTypeOK
  <1>2. CASE Allocate(t)
    BY <1>1, <1>2 DEF Allocate, NewNode
  <1>3. CASE PublishNode(t)
    BY <1>3 DEF PublishNode, Publish
  <1>4. CASE UnlinkNode(t)
    <2>1. \/ cell' = cell
          \/ \E m, q : cell' = [cell EXCEPT ![m].next = q]
      BY <1>4 DEF UnlinkNode, Unlink, listVars
    <2>2. QED
      BY <1>1, <2>1
  <1>5. CASE FreeNode(t)
    <2>1. node[t] # n
      BY <1>5 DEF FreeNode, HeapInv, HandInv, At, OwnStages
    <2>2. QED
      BY <1>1, <1>5, <2>1 DEF FreeNode, Free
  <1>6. CASE UNCHANGED listVars
    BY <1>6 DEF listVars
  <1>7. QED
    BY <1>2, <1>3, <1>4, <1>5, <1>6
       DEF BeginWrite, BeginLookup, Continue, Unlock, InsideLock, LoadHead, LoadVersion,
           StartTraversal, CompareKey, TakeVal, Advance, Validate

-----------------------------------------------------------------------------
(* Lookups that find the counter even.                                     *)

(* The counter that thread t's lookup found was even and is still there,    *)
(* and head->next is loaded after it.                                       *)
Clean(t) ==
    /\ stage[t] \in ReadingStages /\ first[t] = InLoop
    /\ ~Odd(seen[t]) /\ version[at[t]] = seen[t]

(* Such a lookup is about to give the answer the list gives now. *)
CurrentInv ==
    \A t \in Threads : Clean(t) => \A p \in Pointers : p = head[Bucket(t)] => Ahead(t, p)

(* Counters that are not reset do not go back. *)
LEMMA VersionsGrow ==
    ASSUME CallInv, CallInv', [TableNext]_vars, wrapped' = {}, NEW l \in Locks
    PROVE  version[l] \in Nat /\ version'[l] \in Nat /\ version'[l] >= version[l]
  <1>1. [Next]_lockVars /\ wrapped = {}
    BY TableStepIsLockStep, IntactBefore DEF CallInv
  <1>2. /\ version \in [Locks -> Counter] /\ version' \in [Locks -> Counter]
        /\ UINT64_MAX \in Nat
    BY WidthAssumption DEF CallInv, LockInv, TypeOK
  <1>3. ASSUME NEW t \in Threads, LockStep(t) PROVE version'[l] >= version[l]
    <2>1. at[t] \in Locks /\ seen[t] \in Counter /\ LocalInv(t)
      BY <1>1 DEF CallInv, LockInv, TypeOK, Intact
    <2>2. CASE (WriteCas(t) \/ TryCas(t)) /\ CasSucceeds(t)
      <3>1. seen[t] = version[at[t]] /\ seen[t] < UINT64_MAX
        BY <1>2, <2>1, <2>2 DEF WriteCas, TryCas, CasSucceeds, LocalInv, Counter
      <3>2. version' = [version EXCEPT ![at[t]] = seen[t] + 1]
        BY <2>2, <2>1, <3>1, SuccFlips DEF WriteCas, TryCas
      <3>3. QED
        BY <1>2, <2>1, <3>1, <3>2 DEF Counter
    <2>3. CASE UnlockReset(t)
      <3>1. ~CasSucceeds(t)
        BY <1>1, <2>1, <2>3 DEF UnlockReset
      <3>2. QED
        BY <1>2, <2>3, <3>1 DEF UnlockReset, Counter
    <2>4. CASE UnlockFaa(t)
      <3>1. Held(at[t]) /\ CounterInv(at[t])
        BY <1>1, <2>1, <2>4 DEF UnlockFaa, Held, Holds, WriterPCs, CallInv, LockInv, Intact
      <3>2. version[at[t]] < UINT64_MAX
        BY <1>2, <2>1, <3>1 DEF CounterInv, Counter
      <3>3. version' = [version EXCEPT ![at[t]] = @ + 1]
        BY <1>2, <2>1, <2>4, <3>2, SuccFlips DEF UnlockFaa
      <3>4. QED
        BY <1>2, <2>1, <3>3 DEF Counter
    <2>5. CASE version' = version
      BY <1>2, <2>5 DEF Counter
    <2>6. QED
      BY <1>3, <2>2, <2>3, <2>4, <2>5 DEF LockStep, WriteLoad, ReadLoad, WriteCas, TryCas
  <1>4. ASSUME NEW t \in Threads, ClientStep(t) PROVE version' = version
    BY <1>4 DEF ClientStep, WriteLock, TryWriteLock, ReadLock, TryReadLock, ReadLockNoWait,
                WriteUnlock, ReadUnlock
  <1>5. ASSUME NEW k \in Locks, Destroy(k) PROVE FALSE
    BY <1>5 DEF Destroy, CallInv
  <1>6. version' = version => version'[l] >= version[l]
    BY <1>2 DEF Counter
  <1>7. QED
    BY <1>1, <1>2, <1>3, <1>4, <1>5, <1>6 DEF Next, lockVars, Counter

(* While the counter that a lookup found is there, nobody changes its list. *)
LEMMA CleanListStays ==
    ASSUME CallInv, HeapInv, wrapped = {}, NEW t \in Threads,
           BeginWrite(t) \/ BeginLookup(t) \/ Continue(t),
           NEW u \in Threads, Clean(u), NEW b \in Buckets, b = Bucket(u)
    PROVE  SameList(b)
  <1>1. b \in Locks /\ at[u] = b /\ ~Odd(version[b])
    BY VLHashTableAssumption DEF Clean, CallInv, PhaseInv
  <1>2. ~Held(b)
    BY <1>1 DEF CallInv, LockInv, CounterInv, Intact
  <1>3. ASSUME PublishNode(t) \/ UnlinkNode(t) PROVE Bucket(t) # b
    <2>1. pc[t] = "writing" /\ at[t] = Bucket(t)
      <3>1. stage[t] \in {"publish", "search"} /\ (stage[t] = "search" => pc[t] = "writing")
        BY <1>3 DEF PublishNode, UnlinkNode, At, Inside
      <3>2. StageInv(t)
        BY DEF CallInv, TableInv
      <3>3. QED
        BY <3>1, <3>2 DEF StageInv
    <2>2. QED
      BY <1>2, <2>1 DEF Held, Holds, WriterPCs
  <1>4. CASE PublishNode(t)
    BY <1>3, <1>4, PublishLists DEF Published
  <1>5. CASE UnlinkNode(t)
    BY <1>3, <1>5, UnlinkLists DEF Taken, SameLists
  <1>6. CASE Allocate(t) \/ FreeNode(t)
    BY <1>6, AllocateLists, FreeLists DEF SameLists
  <1>7. CASE ~(PublishNode(t) \/ UnlinkNode(t) \/ Allocate(t) \/ FreeNode(t))
    BY <1>7, HeapUntouched DEF SameLists, Continue
  <1>8. QED
    BY <1>4, <1>5, <1>6, <1>7

(* A lookup that is clean after a step of another thread was before. *)
LEMMA CleanBefore ==
    ASSUME CallInv, CallInv', [TableNext]_vars, wrapped' = {}, NEW u \in Threads,
           UNCHANGED <<at[u], seen[u], stage[u], first[u]>>, Clean(u)'
    PROVE  Clean(u)
  <1>1. /\ stage[u] \in ReadingStages /\ first[u] = InLoop /\ ~Odd(seen[u])
        /\ version'[at[u]] = seen[u] /\ at[u] \in Locks
    BY DEF Clean, CallInv, LockInv, TypeOK
  <1>2. wrapped = {}
    BY IntactBefore
  <1>3. seen[u] <= version[at[u]]
    <2>1. pc[u] = "reading"
      BY <1>1 DEF CallInv, TableInv, StageInv, ReadingStages
    <2>2. QED
      BY <1>1, <1>2, <2>1 DEF CallInv, LockInv, Intact, LocalInv
  <1>4. version[at[u]] \in Nat /\ version'[at[u]] \in Nat /\ version'[at[u]] >= version[at[u]]
    BY <1>1, VersionsGrow
  <1>5. version[at[u]] = seen[u]
    BY <1>1, <1>3, <1>4
  <1>6. QED
    BY <1>1, <1>5 DEF Clean

(* Every step keeps what clean lookups know. *)
LEMMA CurrentStep ==
    ASSUME CallInv, HeapInv, CurrentInv, CallInv', [TableNext]_vars, wrapped' = {}
    PROVE  CurrentInv'
  <1>1. wrapped = {}
    BY IntactBefore
  <1>2. CASE UNCHANGED vars
    <2>1. UNCHANGED listVars /\ UNCHANGED lockVars /\ UNCHANGED callVars
      BY <1>2 DEF vars
    <2>2. ASSUME NEW t \in Threads, Clean(t)', NEW p \in Pointers, p = head'[Bucket(t)']
          PROVE  Ahead(t, p)'
      <3>1. Clean(t) /\ p = head[Bucket(t)]
        BY <2>1, <2>2 DEF Clean, Bucket, listVars, lockVars, callVars
      <3>2. Ahead(t, p)
        BY <3>1 DEF CurrentInv
      <3>3. PICK b \in Buckets : b = Bucket(t)
        BY <3>1, BucketOfCall DEF Clean, ReadingStages
      <3>4. p \in ListNodes(b) \union {Nil}
        BY <3>1, <3>3, ListNodesType DEF HeapInv
      <3>5. /\ ListNodes(b)' = ListNodes(b) /\ cell' = cell
            /\ \A q, k : Answer(q, k)' = Answer(q, k)
            /\ UNCHANGED <<op[t], stage[t], curr[t], result[t]>>
        BY <2>1, AnswersStay DEF listVars, callVars
      <3>6. QED
        BY <3>2, <3>3, <3>4, <3>5, TraversalKept
    <2>3. QED
      BY <2>2 DEF CurrentInv
  <1>3. ASSUME NEW t \in Threads, BeginWrite(t) \/ BeginLookup(t) \/ Continue(t),
               NEW u \in Threads, Clean(u)', NEW p \in Pointers, p = head'[Bucket(u)']
        PROVE  Ahead(u, p)'
    <2>1. CASE UNCHANGED <<at[u], seen[u], stage[u], op[u], first[u], curr[u], result[u]>>
      <3>1. Clean(u)
        BY <1>3, <2>1, CleanBefore
      <3>2. PICK b \in Buckets : b = Bucket(u)
        BY <3>1, BucketOfCall DEF Clean, ReadingStages
      <3>3. SameList(b)
        BY <1>1, <1>3, <3>1, <3>2, CleanListStays
      <3>4. p = head[b]
        BY <1>3, <2>1, <3>2, <3>3 DEF Bucket, SameList
      <3>5. p \in ListNodes(b) \union {Nil} /\ Ahead(u, p)
        BY <3>1, <3>2, <3>4, ListNodesType DEF HeapInv, CurrentInv
      <3>6. \A n \in ListNodes(b) : cell'[n].key = cell[n].key
        BY <1>3, KeysStay
      <3>7. /\ ListNodes(b) \subseteq ListNodes(b)'
            /\ \A q \in ListNodes(b) \union {Nil} : \A k : Answer(q, k)' = Answer(q, k)
        BY <3>3 DEF SameList
      <3>8. QED
        BY <2>1, <3>2, <3>5, <3>6, <3>7, TraversalKept
    <2>2. CASE ~UNCHANGED <<at[u], seen[u], stage[u], op[u], first[u], curr[u], result[u]>>
      <3>1. u = t
        BY <1>3, <2>2, StepIsLocal DEF CallInv, LockInv
      <3>2. stage'[t] \in ReadingStages /\ first'[t] = InLoop
        BY <1>3, <3>1 DEF Clean
      <3>3. /\ stage \in [Threads -> Stages] /\ at \in [Threads -> Locks] /\ StageInv(t)
            /\ seen \in [Threads -> Counter]
        BY DEF CallInv, TableInv, LockInv, TypeOK
      <3>4. CASE StartTraversal(t) \/ CompareKey(t) \/ TakeVal(t) \/ Advance(t)
        <4>1. /\ UNCHANGED lockVars /\ UNCHANGED listVars /\ op' = op /\ first' = first
              /\ stage[t] \in ReadingStages
          BY <3>4 DEF StartTraversal, CompareKey, TakeVal, Advance, At, ReadingStages
        <4>2. Clean(t) /\ p = head[Bucket(t)]
          BY <1>3, <3>1, <3>2, <4>1 DEF Clean, Bucket, lockVars, listVars
        <4>3. Ahead(t, p)
          BY <4>2 DEF CurrentInv
        <4>4. \A b \in Buckets : b = Bucket(t) => p \in ListNodes(b) \union {Nil}
          BY <4>2, ListNodesType DEF HeapInv
        <4>5. QED
          BY <3>1, <3>4, <4>2, <4>3, <4>4, TraversalStep DEF Clean
      <3>5. CASE LoadVersion(t)
        <4>1. stage'[t] = "traverse"
          BY <3>3, <3>5 DEF LoadVersion, GoTo
        <4>2. QED
          BY <3>1, <4>1 DEF Ahead
      <3>6. CASE Validate(t)
        <4>1. pc'[t] \notin {"validated", "refused"}
          BY <3>2, <3>3, <3>6 DEF Validate, Return, GoTo, ReadingStages
        <4>2. UNCHANGED <<pc, seen, at>> /\ UNCHANGED <<op, stage, node, first, curr, result>>
          BY <3>3, <3>6, <4>1 DEF Validate, ReadUnlock, Move, CallInv, LockInv, TypeOK
        <4>3. QED
          BY <2>2, <3>1, <4>2
      <3>7. CASE InsideLock(t)
        <4>1. pc[t] # "reading"
          BY <3>7 DEF InsideLock, LockStep, WriteLoad, WriteCas, TryCas, UnlockReset, UnlockFaa,
                      ReadLoad
        <4>2. stage[t] \notin ReadingStages
          BY <3>3, <4>1 DEF StageInv, ReadingStages
        <4>3. stage'[t] \in {stage[t], "none"}
          BY <3>3, <3>7 DEF InsideLock, Return
        <4>4. QED
          BY <3>2, <4>2, <4>3 DEF ReadingStages
      <3>8. CASE \/ BeginWrite(t) \/ BeginLookup(t) \/ Allocate(t) \/ PublishNode(t)
                 \/ UnlinkNode(t) \/ FreeNode(t) \/ Unlock(t) \/ LoadHead(t)
        <4>1. stage'[t] \notin ReadingStages
          BY <3>3, <3>8 DEF BeginWrite, BeginLookup, Allocate, PublishNode, UnlinkNode, FreeNode,
                            Unlock, LoadHead, GoTo, At, Invoke, ReadingStages
        <4>2. QED
          BY <3>2, <4>1
      <3>9. QED
        BY <1>3, <3>4, <3>5, <3>6, <3>7, <3>8 DEF Continue
    <2>3. QED
      BY <2>1, <2>2
  <1>4. QED
    BY <1>2, <1>3 DEF TableNext, CurrentInv

(* Clean lookups are right until a counter is reset. *)
LEMMA CurrentInvariant ==
    TableSpec => [](CallInv /\ (wrapped = {} => HeapInv /\ CurrentInv))
  <1>1. TableInit => CurrentInv
    BY DEF TableInit, CurrentInv, Clean, ReadingStages
  <1>2. /\ CallInv /\ CallInv' /\ (wrapped = {} => HeapInv /\ CurrentInv) /\ [TableNext]_vars
        => (wrapped = {} => CurrentInv)'
    BY CurrentStep, IntactBefore
  <1>3. QED
    BY <1>1, <1>2, HeapInvariant, PTL DEF TableSpec

(* A lookup that found the counter even, and is validated, returns what the *)
(* list answers at that moment, whatever inserts, removes and reuses of     *)
(* freed nodes it ran into (vlht.hpp:72-78), until a counter is reset.      *)
THEOREM LookupsAreCurrent == TableSpec /\ [](wrapped = {}) => CleanLookupsAreCurrent
  <1>1. ASSUME CallInv, HeapInv, CurrentInv, [TableNext]_vars, NEW t \in Threads,
               Returns(t), ~Odd(seen[t]), first[t] = InLoop
        PROVE  result[t] = Answer(head[Bucket(t)], op[t].key)
    <2>1. CASE TableNext
      <3>1. Validate(t)
        <4>1. PICK u \in Threads : BeginWrite(u) \/ BeginLookup(u) \/ Continue(u)
          BY <2>1 DEF TableNext
        <4>2. u = t
          BY <1>1, <4>1, StepIsLocal DEF CallInv, LockInv, Returns
        <4>3. pc[t] = "reading" /\ pc'[t] = "validated" /\ pc \in [Threads -> PCs]
          BY <1>1 DEF Returns, CallInv, LockInv, TypeOK
        <4>4. ~InsideLock(t)
          BY <4>3 DEF InsideLock, LockStep, WriteLoad, WriteCas, TryCas, UnlockReset, UnlockFaa,
                      ReadLoad
        <4>5. StageInv(t)
          BY <1>1 DEF CallInv, TableInv
        <4>6. QED
          BY <4>1, <4>2, <4>3, <4>4, <4>5
             DEF BeginWrite, BeginLookup, Continue, Allocate, PublishNode, UnlinkNode, FreeNode,
                 Unlock, LoadHead, LoadVersion, StartTraversal, CompareKey, TakeVal, Advance,
                 WriteLock, ReadLockNoWait, Call, Ready, ReadyPCs, WriteUnlock, lockVars
      <3>2. stage[t] = "validate" /\ version[at[t]] = seen[t]
        BY <1>1, <3>1 DEF Validate, At, ReadUnlock, Move, Validates, Returns, CallInv, LockInv, TypeOK
      <3>3. Clean(t)
        BY <1>1, <3>2 DEF Clean, ReadingStages
      <3>4. head[Bucket(t)] \in Pointers
        BY <1>1, <3>2, BucketOfCall DEF HeapInv, ListsInv, ListTypeOK
      <3>5. QED
        BY <1>1, <3>2, <3>3, <3>4 DEF CurrentInv, Ahead
    <2>2. CASE UNCHANGED vars
      BY <1>1, <2>2 DEF vars, lockVars, Returns
    <2>3. QED
      BY <1>1, <2>1, <2>2
  <1>2. CallInv /\ HeapInv /\ CurrentInv /\ [TableNext]_vars =>
            [\A t \in Threads :
                Returns(t) /\ ~Odd(seen[t]) /\ first[t] = InLoop =>
                    result[t] = Answer(head[Bucket(t)], op[t].key)]_vars
    BY <1>1
  <1>3. QED
    BY <1>2, CurrentInvariant, PTL DEF TableSpec, CleanLookupsAreCurrent

-----------------------------------------------------------------------------
(* Linearizability, of inserts with lookups or of inserts with removes.    *)

(* What a lookup began with, or loaded at the head: where no node is ever   *)
(* taken out, the answer from there stays what it is.                       *)
SettledInv ==
    \A t \in Threads : stage[t] \in ReadingStages \union {"version"} =>
        \E p \in Pointers :
            /\ p \in ListNodes(Bucket(t)) \union {Nil}
            /\ first[t] # InLoop => p = first[t]
            /\ Ahead(t, p)

(* Without removes no list loses a node, and no answer changes from a node  *)
(* on.                                                                      *)
LEMMA ListsGrow ==
    ASSUME CallInv, HeapInv, wrapped = {}, "remove" \notin Kinds, NEW t \in Threads,
           BeginWrite(t) \/ BeginLookup(t) \/ Continue(t), NEW b \in Buckets
    PROVE  /\ ListNodes(b) \subseteq ListNodes(b)'
           /\ \A q \in ListNodes(b) \union {Nil} : \A k : Answer(q, k)' = Answer(q, k)
  <1>1. ~UnlinkNode(t)
    <2>1. stage[t] = "search" => op[t] \in Ops /\ op[t].kind = "remove"
      BY DEF CallInv, TableInv, StageInv, PhaseInv
    <2>2. stage[t] # "search"
      BY <2>1 DEF Ops
    <2>3. QED
      BY <2>2 DEF UnlinkNode, At
  <1>2. CASE PublishNode(t)
    BY <1>2, PublishLists DEF Published
  <1>3. CASE ~PublishNode(t)
    <2>1. SameLists
      BY <1>1, <1>3, HeapUntouched, AllocateLists, FreeLists DEF Continue
    <2>2. QED
      BY <2>1 DEF SameLists, SameList
  <1>4. QED
    BY <1>2, <1>3

(* Every step keeps what lookups know. *)
LEMMA SettledStep ==
    ASSUME CallInv, HeapInv, CallInv', SettledInv, "remove" \notin Kinds, wrapped = {},
           [TableNext]_vars
    PROVE  SettledInv'
  <1>1. CASE UNCHANGED vars
    <2>1. UNCHANGED listVars /\ UNCHANGED callVars
      BY <1>1 DEF vars
    <2>2. ASSUME NEW t \in Threads, stage[t] \in ReadingStages \union {"version"}, NEW p \in Pointers,
                 p \in ListNodes(Bucket(t)) \union {Nil}, Ahead(t, p)
          PROVE  Ahead(t, p)' /\ p \in ListNodes(Bucket(t))' \union {Nil}
      <3>1. PICK b \in Buckets : b = Bucket(t)
        BY <2>2, BucketOfCall DEF ReadingStages
      <3>2. /\ ListNodes(b)' = ListNodes(b) /\ cell' = cell
            /\ \A q, k : Answer(q, k)' = Answer(q, k)
            /\ UNCHANGED <<op[t], stage[t], curr[t], result[t]>> /\ Bucket(t)' = b
        BY <2>1, <3>1, AnswersStay DEF listVars, callVars, Bucket
      <3>3. QED
        BY <2>2, <3>1, <3>2, TraversalKept
    <2>3. UNCHANGED <<stage, first>>
      BY <2>1 DEF callVars
    <2>4. QED
      BY <2>2, <2>3 DEF SettledInv
  <1>2. ASSUME NEW t \in Threads, BeginWrite(t) \/ BeginLookup(t) \/ Continue(t),
               NEW u \in Threads, stage'[u] \in ReadingStages \union {"version"}
        PROVE  \E p \in Pointers :
                   /\ p \in ListNodes(Bucket(u))' \union {Nil}
                   /\ first'[u] # InLoop => p = first'[u]
                   /\ Ahead(u, p)'
    <2>1. CASE UNCHANGED <<stage[u], op[u], first[u], curr[u], result[u]>>
      <3>1. PICK b \in Buckets : b = Bucket(u) /\ Bucket(u)' = b
        BY <1>2, <2>1, BucketOfCall DEF ReadingStages, Bucket
      <3>2. PICK p \in Pointers : /\ p \in ListNodes(b) \union {Nil}
                                  /\ first[u] # InLoop => p = first[u]
                                  /\ Ahead(u, p)
        BY <1>2, <2>1, <3>1 DEF SettledInv
      <3>3. /\ ListNodes(b) \subseteq ListNodes(b)'
            /\ \A q \in ListNodes(b) \union {Nil} : \A k : Answer(q, k)' = Answer(q, k)
        BY <1>2, ListsGrow
      <3>4. \A n \in ListNodes(b) : cell'[n].key = cell[n].key
        BY <1>2, KeysStay
      <3>5. Ahead(u, p)'
        BY <2>1, <3>1, <3>2, <3>3, <3>4, TraversalKept
      <3>6. QED
        BY <2>1, <3>1, <3>2, <3>3, <3>5
    <2>2. CASE ~UNCHANGED <<stage[u], op[u], first[u], curr[u], result[u]>>
      <3>1. u = t
        BY <1>2, <2>2, StepIsLocal DEF CallInv, LockInv
      <3>2. /\ stage \in [Threads -> Stages] /\ StageInv(t)
            /\ first \in [Threads -> Pointers \union {InLoop}]
        BY DEF CallInv, TableInv, DataInv, DataOK
      <3>3. CASE LoadHead(t)
        <4>1. PICK b \in Buckets : b = Bucket(t)
          BY <3>3, BucketOfCall DEF LoadHead, At
        <4>2. PICK p \in Pointers : /\ p \in ListNodes(b) \union {Nil}
                                    /\ first'[t] # InLoop => p = first'[t]
          <5>1. first'[t] = InLoop \/ first'[t] = head[b]
            BY <3>2, <3>3, <4>1 DEF LoadHead
          <5>2. head[b] \in ListNodes(b) \union {Nil} /\ head[b] \in Pointers /\ Nil \in Pointers
            BY ListNodesType DEF HeapInv, ListsInv, ListTypeOK, Pointers
          <5>3. QED
            BY <5>1, <5>2
        <4>3. stage'[t] = "version" /\ Bucket(t)' = b
          BY <3>2, <3>3, <4>1 DEF LoadHead, GoTo, Bucket
        <4>4. ListNodes(b) \subseteq ListNodes(b)'
          BY <1>2, ListsGrow
        <4>5. Ahead(t, p)'
          BY <4>3 DEF Ahead
        <4>6. QED
          BY <3>1, <4>2, <4>3, <4>4, <4>5
      <3>4. CASE LoadVersion(t) \/ Validate(t)
        <4>1. /\ stage[t] \in {"version", "validate"} /\ UNCHANGED listVars
              /\ UNCHANGED <<op[t], first[t], curr[t], result[t]>>
              /\ stage'[t] \in {"traverse", "version"}
          BY <1>2, <2>2, <3>1, <3>2, <3>4
             DEF LoadVersion, Validate, Return, GoTo, At, ReadingStages
        <4>2. PICK b \in Buckets : b = Bucket(t) /\ Bucket(t)' = b
          BY <4>1, BucketOfCall DEF Bucket
        <4>3. PICK p \in Pointers : /\ p \in ListNodes(b) \union {Nil}
                                    /\ first[t] # InLoop => p = first[t]
          BY <4>1, <4>2 DEF SettledInv, ReadingStages
        <4>4. Ahead(t, p)' /\ ListNodes(b)' = ListNodes(b)
          BY <4>1, AnswersStay DEF Ahead
        <4>5. QED
          BY <3>1, <4>1, <4>2, <4>3, <4>4
      <3>5. CASE StartTraversal(t) \/ CompareKey(t) \/ TakeVal(t) \/ Advance(t)
        <4>1. /\ UNCHANGED listVars /\ op' = op /\ first' = first /\ stage[t] \in ReadingStages
          BY <3>5 DEF StartTraversal, CompareKey, TakeVal, Advance, At, ReadingStages
        <4>2. PICK b \in Buckets : b = Bucket(t) /\ Bucket(t)' = b
          BY <4>1, BucketOfCall DEF ReadingStages, Bucket
        <4>3. PICK p \in Pointers : /\ p \in ListNodes(b) \union {Nil}
                                    /\ first[t] # InLoop => p = first[t]
                                    /\ Ahead(t, p)
                                    /\ StartTraversal(t) /\ first[t] = InLoop => p = head[b]
          <5>1. CASE StartTraversal(t) /\ first[t] = InLoop
            <6>1. Ahead(t, head[b])
              BY <5>1 DEF StartTraversal, At, Ahead
            <6>2. head[b] \in ListNodes(b) \union {Nil} /\ head[b] \in Pointers
              BY ListNodesType DEF HeapInv, ListsInv, ListTypeOK
            <6>3. QED
              BY <5>1, <6>1, <6>2
          <5>2. CASE ~(StartTraversal(t) /\ first[t] = InLoop)
            BY <4>1, <4>2, <5>2 DEF SettledInv
          <5>3. QED
            BY <5>1, <5>2
        <4>4. Ahead(t, p)'
          BY <3>5, <4>2, <4>3, TraversalStep
        <4>5. ListNodes(b)' = ListNodes(b)
          BY <4>1, AnswersStay
        <4>6. QED
          BY <3>1, <4>1, <4>2, <4>3, <4>4, <4>5
      <3>6. CASE \/ BeginWrite(t) \/ BeginLookup(t) \/ Allocate(t) \/ PublishNode(t)
                 \/ UnlinkNode(t) \/ FreeNode(t) \/ Unlock(t)
        <4>1. stage'[t] \notin ReadingStages \union {"version"}
          BY <3>2, <3>6 DEF BeginWrite, BeginLookup, Allocate, PublishNode, UnlinkNode, FreeNode,
                            Unlock, GoTo, At, Invoke, ReadingStages
        <4>2. QED
          BY <1>2, <3>1, <4>1
      <3>7. CASE InsideLock(t)
        <4>1. stage'[t] = "none"
          <5>1. ~UNCHANGED <<op, stage, first, curr, result>>
            BY <2>2, <3>1
          <5>2. Return(t)
            BY <3>7, <5>1 DEF InsideLock
          <5>3. QED
            BY <3>2, <5>2 DEF Return
        <4>2. QED
          BY <1>2, <3>1, <4>1 DEF ReadingStages
      <3>8. QED
        BY <1>2, <3>3, <3>4, <3>5, <3>6, <3>7 DEF Continue
    <2>3. QED
      BY <2>1, <2>2
  <1>3. QED
    BY <1>1, <1>2 DEF TableNext, SettledInv

(* Lookups are right where nothing is removed, until a counter is reset. *)
LEMMA SettledInvariant ==
    ASSUME "remove" \notin Kinds
    PROVE  TableSpec => [](CallInv /\ (wrapped = {} => HeapInv /\ SettledInv))
  <1>1. TableInit => SettledInv
    BY DEF TableInit, SettledInv, ReadingStages
  <1>2. /\ CallInv /\ CallInv' /\ (wrapped = {} => HeapInv /\ SettledInv) /\ [TableNext]_vars
        => (wrapped = {} => SettledInv)'
    BY SettledStep, IntactBefore
  <1>3. QED
    BY <1>1, <1>2, HeapInvariant, PTL DEF TableSpec


(* Where thread t is in a lookup that has p's answer ahead of it. *)
Looking(t, p) ==
    /\ stage[t] \in ReadingStages \union {"version"}
    /\ first[t] # InLoop => p = first[t]
    /\ Ahead(t, p)

(* What it would be told now, if nobody interfered. *)
AnswerNow(t, p) ==
    IF stage[t] \in {"version", "traverse"} /\ first[t] = InLoop
    THEN result[t]
    ELSE Answer(p, op[t].key)

LEMMA AnswerOfLookup ==
    ASSUME NEW t \in Threads, NEW p, Looking(t, p)
    PROVE  answerBar[t] = AnswerNow(t, p)
  BY DEF Looking, AnswerNow, answerBar, LookupAnswer, Ahead, ReadingStages, LookupStages

LEMMA AnswerOfLookupNext ==
    ASSUME NEW t \in Threads, NEW p, Looking(t, p)'
    PROVE  answerBar'[t] = AnswerNow(t, p)'
  BY DEF Looking, AnswerNow, answerBar, LookupAnswer, Ahead, ReadingStages, LookupStages

LEMMA AnswerOfCall ==
    ASSUME NEW t \in Threads
    PROVE  /\ stage[t] \notin ReadingStages \union {"version"} => answerBar[t] = result[t]
           /\ stage'[t] \notin ReadingStages \union {"version"} => answerBar'[t] = result'[t]
  BY DEF answerBar, LookupAnswer, ReadingStages, LookupStages

(* Lookups know their answers, or there are none. *)
KnownInv == ("remove" \notin Kinds /\ SettledInv) \/ "lookup" \notin Kinds

LEMMA NoLookups ==
    ASSUME CallInv, "lookup" \notin Kinds, NEW t \in Threads
    PROVE  stage[t] \notin LookupStages
  <1>1. stage[t] \in LookupStages => op[t] \in Ops /\ op[t].kind = "lookup"
    BY DEF CallInv, TableInv, StageInv, PhaseInv, LookupStages
  <1>2. QED
    BY <1>1 DEF Ops

(* What a thread is to answer stays, while others make their steps. *)
LEMMA AnswerKept ==
    ASSUME CallInv, HeapInv, KnownInv, wrapped = {},
           NEW t \in Threads, BeginWrite(t) \/ BeginLookup(t) \/ Continue(t),
           NEW u \in Threads, UNCHANGED <<stage[u], op[u], first[u], curr[u], result[u]>>
    PROVE  answerBar'[u] = answerBar[u]
  <1>1. CASE stage[u] \notin ReadingStages \union {"version"}
    BY <1>1, AnswerOfCall
  <1>2. CASE stage[u] \in ReadingStages \union {"version"}
    <2>1. "remove" \notin Kinds /\ SettledInv
      BY <1>2, NoLookups DEF KnownInv, ReadingStages, LookupStages
    <2>2. PICK b \in Buckets : b = Bucket(u)
      BY <1>2, BucketOfCall DEF ReadingStages
    <2>3. PICK p \in Pointers : p \in ListNodes(b) \union {Nil} /\ Looking(u, p)
      BY <1>2, <2>1, <2>2 DEF SettledInv, Looking
    <2>4. /\ ListNodes(b) \subseteq ListNodes(b)'
          /\ \A q \in ListNodes(b) \union {Nil} : \A k : Answer(q, k)' = Answer(q, k)
      BY <2>1, ListsGrow
    <2>5. \A n \in ListNodes(b) : cell'[n].key = cell[n].key
      BY KeysStay
    <2>6. Looking(u, p)'
      <3>1. Ahead(u, p)'
        BY <2>2, <2>3, <2>4, <2>5, TraversalKept DEF Looking
      <3>2. QED
        BY <2>3, <3>1 DEF Looking
    <2>7. AnswerNow(u, p)' = AnswerNow(u, p)
      <3>1. PICK k : k = op[u].key
        OBVIOUS
      <3>2. op'[u].key = k /\ Answer(p, k)' = Answer(p, k)
        BY <2>3, <2>4, <3>1
      <3>3. QED
        BY <3>1, <3>2 DEF AnswerNow
    <2>8. QED
      BY <2>3, <2>6, <2>7, AnswerOfLookup, AnswerOfLookupNext
  <1>3. QED
    BY <1>1, <1>2

(* A lookup's own step: it looks at the head of its list, or knows what it  *)
(* knew (vlht.hpp:65-80).                                                   *)
LEMMA LookupAnswers ==
    ASSUME CallInv, HeapInv, SettledInv, "remove" \notin Kinds, wrapped = {}, NEW t \in Threads,
           NEW b \in Buckets, b = Bucket(t), NEW k \in Keys, k = op[t].key,
           \/ LoadHead(t) \/ LoadVersion(t) \/ StartTraversal(t) \/ CompareKey(t) \/ TakeVal(t)
           \/ Advance(t) \/ (Validate(t) /\ stage'[t] # "none")
    PROVE  answerBar'[t] = answerBar[t] \/ answerBar'[t] = Answer(head[b], k)
  <1> USE DEF At, GoTo
  <1>1. /\ UNCHANGED listVars /\ op' = op /\ Bucket(t)' = b /\ op'[t].key = k
        /\ \A q : Answer(q, k)' = Answer(q, k)
        /\ stage \in [Threads -> Stages] /\ first \in [Threads -> Pointers \union {InLoop}]
    <2>1. UNCHANGED listVars /\ op' = op
      BY DEF LoadHead, LoadVersion, StartTraversal, CompareKey, TakeVal, Advance, Validate, Return,
             CallInv, TableInv
    <2>2. QED
      BY <2>1, AnswersStay DEF Bucket, CallInv, TableInv, DataInv, DataOK
  <1>2. CASE LoadHead(t)
    <2>1. answerBar[t] = result[t] /\ stage'[t] = "version" /\ result'[t] = result[t]
      BY <1>1, <1>2, AnswerOfCall DEF LoadHead, ReadingStages
    <2>2. CASE first'[t] = InLoop
      <3>1. Looking(t, Nil)'
        BY <2>1, <2>2 DEF Looking, Ahead
      <3>2. QED
        BY <2>1, <2>2, <3>1, AnswerOfLookupNext DEF AnswerNow
    <2>3. CASE first'[t] # InLoop
      <3>1. first'[t] = head[b]
        BY <1>1, <1>2, <2>3 DEF LoadHead
      <3>2. PICK p : p = head[b]
        OBVIOUS
      <3>3. Looking(t, p)'
        BY <2>1, <3>1, <3>2 DEF Looking, Ahead
      <3>4. QED
        BY <1>1, <2>1, <2>3, <3>2, <3>3, AnswerOfLookupNext DEF AnswerNow
    <2>4. QED
      BY <2>2, <2>3
  <1>3. CASE LoadVersion(t) \/ (Validate(t) /\ stage'[t] # "none")
    <2>1. /\ stage[t] \in {"version", "validate"} /\ UNCHANGED <<first[t], curr[t], result[t]>>
          /\ stage'[t] \in {"traverse", "version", "validate"}
          /\ stage[t] = "version" => stage'[t] = "traverse"
      BY <1>1, <1>3 DEF LoadVersion, Validate, Return
    <2>2. PICK p \in Pointers : Looking(t, p)
      BY <2>1 DEF SettledInv, Looking, ReadingStages
    <2>3. Looking(t, p)'
      BY <1>1, <2>1, <2>2 DEF Looking, Ahead, ReadingStages
    <2>4. answerBar[t] = AnswerNow(t, p) /\ answerBar'[t] = AnswerNow(t, p)'
      BY <2>2, <2>3, AnswerOfLookup, AnswerOfLookupNext
    <2>5. Answer(p, op[t].key)' = Answer(p, op[t].key)
      BY <1>1
    <2>6. stage[t] = "validate" => Answer(p, op[t].key) = result[t]
      BY <2>2 DEF Looking, Ahead
    <2>7. QED
      BY <1>1, <2>1, <2>4, <2>5, <2>6 DEF AnswerNow
  <1>4. CASE StartTraversal(t) \/ CompareKey(t) \/ TakeVal(t) \/ Advance(t)
    <2>1. /\ first' = first /\ stage[t] \in {"traverse", "key", "val", "next"}
          /\ stage'[t] \in {"key", "val", "next", "validate"}
          /\ stage[t] = "traverse" => StartTraversal(t)
      BY <1>1, <1>4 DEF StartTraversal, CompareKey, TakeVal, Advance, Visit
    <2>2. PICK p \in Pointers : /\ p \in ListNodes(b) \union {Nil}
                                /\ Looking(t, p)
                                /\ StartTraversal(t) /\ first[t] = InLoop => p = head[b]
      <3>1. CASE StartTraversal(t) /\ first[t] = InLoop
        <4>1. Looking(t, head[b])
          BY <3>1 DEF StartTraversal, Looking, Ahead, ReadingStages
        <4>2. head[b] \in ListNodes(b) \union {Nil} /\ head[b] \in Pointers
          BY ListNodesType DEF HeapInv, ListsInv, ListTypeOK
        <4>3. QED
          BY <3>1, <4>1, <4>2
      <3>2. CASE ~(StartTraversal(t) /\ first[t] = InLoop)
        BY <2>1, <3>2 DEF SettledInv, Looking, ReadingStages
      <3>3. QED
        BY <3>1, <3>2
    <2>3. Looking(t, p)'
      <3>1. Ahead(t, p)'
        <4>1. StartTraversal(t) => p = IF first[t] = InLoop THEN head[Bucket(t)] ELSE first[t]
          BY <2>2 DEF Looking
        <4>2. QED
          BY <1>4, <2>2, <4>1, TraversalStep DEF Looking
      <3>2. QED
        BY <2>1, <2>2, <3>1 DEF Looking, ReadingStages
    <2>4. answerBar[t] = AnswerNow(t, p) /\ answerBar'[t] = AnswerNow(t, p)'
      BY <2>2, <2>3, AnswerOfLookup, AnswerOfLookupNext
    <2>5. AnswerNow(t, p)' = Answer(p, k)
      <3>1. Answer(p, op[t].key)' = Answer(p, k)
        BY <1>1
      <3>2. QED
        BY <2>1, <3>1 DEF AnswerNow
    <2>6. QED
      BY <2>1, <2>2, <2>4, <2>5 DEF AnswerNow
  <1>5. QED
    BY <1>2, <1>3, <1>4

(* The table stays as it is when the lists do. *)
LEMMA SameTable ==
    ASSUME SameLists
    PROVE  tableBar' = tableBar
  <1>1. \A k \in Keys : Stack(k)' = Stack(k)
    BY ListAssumption DEF SameLists, SameList
  <1>2. QED
    BY <1>1 DEF tableBar

(* The newest value of a key is what its bucket's list answers. *)
LEMMA NewestIsAnswer ==
    ASSUME HeapInv, NEW k \in Keys
    PROVE  Table!Newest(k) = Answer(head[HashOf[k]], k)
  BY AnswerIsNewest DEF HeapInv, Table!Newest, tableBar

(* Nobody else's answer changes, so the answers change as thread t's does.  *)
LEMMA AnswersFollow ==
    ASSUME CallInv, HeapInv, KnownInv, wrapped = {},
           NEW t \in Threads, BeginWrite(t) \/ BeginLookup(t) \/ Continue(t)
    PROVE  /\ answerBar'[t] = answerBar[t] => answerBar' = answerBar
           /\ \A a : answerBar'[t] = a => answerBar' = [answerBar EXCEPT ![t] = a]
  <1>1. \A u \in Threads \ {t} : UNCHANGED <<stage[u], op[u], first[u], curr[u], result[u]>>
    BY StepIsLocal DEF CallInv, LockInv
  <1>2. \A u \in Threads \ {t} : answerBar'[u] = answerBar[u]
    BY <1>1, AnswerKept
  <1>3. QED
    BY <1>2 DEF answerBar

(* An operation takes effect when it writes the list, a lookup when it      *)
(* looks at its head: every step is one of HashTable, or none.              *)
LEMMA TableRefineStep ==
    ASSUME CallInv, CallInv', HeapInv, KnownInv, wrapped = {}, [TableNext]_vars
    PROVE  [Table!Next]_Table!vars
  <1> USE DEF GoTo, At
  <1>1. CASE UNCHANGED vars
    <2>1. UNCHANGED listVars /\ UNCHANGED <<op, stage, first, curr, result>>
      BY <1>1 DEF vars, callVars
    <2>2. SameLists
      BY <2>1, ListsUntouched DEF HeapInv
    <2>3. \A t \in Threads : LookupAnswer(t)' = LookupAnswer(t)
      <3>1. \A p, k : Answer(p, k)' = Answer(p, k)
        BY <2>1, AnswersStay
      <3>2. QED
        BY <2>1, <3>1 DEF LookupAnswer
    <2>4. answerBar' = answerBar
      BY <2>1, <2>3 DEF answerBar
    <2>5. QED
      BY <2>1, <2>2, <2>4, SameTable DEF Table!vars
  <1>2. ASSUME NEW t \in Threads, BeginWrite(t) \/ BeginLookup(t) \/ Continue(t)
        PROVE  [Table!Next]_Table!vars
    <2>1. /\ answerBar'[t] = answerBar[t] => answerBar' = answerBar
          /\ \A a : answerBar'[t] = a => answerBar' = [answerBar EXCEPT ![t] = a]
      BY <1>2, AnswersFollow
    <2>2. PhaseInv(t) /\ StageInv(t) /\ stage \in [Threads -> Stages]
          /\ op \in [Threads -> Ops \union {NoOp}]
          /\ result \in [Threads -> Vals \union {Junk, NotFound, TRUE, Pending}]
      BY DEF CallInv, TableInv, DataInv, DataOK
    <2>3. CASE BeginWrite(t) \/ BeginLookup(t)
      <3>1. SameLists
        BY <2>3, HeapUntouched
      <3>2. PICK o \in Ops : op' = [op EXCEPT ![t] = o] /\ stage[t] = "none"
        BY <2>3 DEF BeginWrite, BeginLookup, Invoke
      <3>3. answerBar'[t] = answerBar[t]
        <4>1. stage'[t] \in {"allocate", "search", "load_head"} /\ result' = result
          BY <2>2, <2>3 DEF BeginWrite, BeginLookup, Invoke
        <4>2. QED
          BY <3>2, <4>1, AnswerOfCall DEF ReadingStages
      <3>4. op[t] = NoOp /\ o \in Table!Ops
        BY <2>2, <3>2 DEF PhaseInv, Ops, Table!Ops
      <3>5. Table!Invoke(t)
        BY <2>1, <3>1, <3>2, <3>3, <3>4, SameTable DEF Table!Invoke, Table!NoOp, NoOp
      <3>6. QED
        BY <3>5 DEF Table!Next
    <2>4. CASE \/ Allocate(t) \/ FreeNode(t) \/ Unlock(t)
               \/ (InsideLock(t) /\ pc[t] # "faa")
      <3>1. SameLists
        BY <2>4, AllocateLists, FreeLists, HeapUntouched
      <3>2. op' = op /\ first' = first /\ curr' = curr /\ result' = result
        BY <2>4 DEF Allocate, FreeNode, Unlock, InsideLock
      <3>3. answerBar'[t] = answerBar[t]
        <4>1. CASE stage'[t] = stage[t]
          BY <1>2, <3>2, <4>1, AnswerKept
        <4>2. CASE stage'[t] # stage[t]
          <5>1. /\ stage[t] \in {"allocate", "free", "unlock"}
                /\ stage'[t] \in {"publish", "unlock", "release"}
            BY <2>2, <2>4, <4>2 DEF Allocate, FreeNode, Unlock, InsideLock
          <5>2. QED
            BY <3>2, <5>1, AnswerOfCall DEF ReadingStages
        <4>3. QED
          BY <4>1, <4>2
      <3>4. QED
        BY <2>1, <3>1, <3>2, <3>3, SameTable DEF Table!vars
    <2>5. CASE (InsideLock(t) /\ pc[t] = "faa") \/ (Validate(t) /\ stage'[t] = "none")
      <3>1. SameLists
        BY <2>5, HeapUntouched
      <3>2. Return(t) /\ stage[t] \in {"release", "validate"}
        <4>1. CASE InsideLock(t) /\ pc[t] = "faa"
          BY <2>2, <4>1 DEF InsideLock, StageInv, Ready, ReadyPCs, Stages, WriteStages, LookupStages
        <4>2. CASE Validate(t) /\ stage'[t] = "none"
          BY <2>2, <4>2 DEF Validate
        <4>3. QED
          BY <2>5, <4>1, <4>2
      <3>3. op[t] # NoOp /\ result[t] # Pending
        <4>1. op[t] \in Ops
          BY <2>2, <3>2 DEF StageInv
        <4>2. result[t] # Pending
          BY <2>2, <3>2, VLHashTableAssumption DEF PhaseInv
        <4>3. QED
          BY <4>1, <4>2 DEF Ops, NoOp
      <3>4. answerBar[t] = result[t]
        BY <3>2, AnswerOfCall DEF answerBar, LookupAnswer, LookupStages
      <3>5. answerBar'[t] = Pending
        BY <2>2, <3>2, AnswerOfCall DEF Return, ReadingStages
      <3>6. Table!Return(t)
        BY <2>1, <3>1, <3>2, <3>3, <3>4, <3>5, SameTable
           DEF Table!Return, Table!NoOp, NoOp, Return
      <3>7. QED
        BY <3>6 DEF Table!Next
    <2>6. CASE PublishNode(t)
      <3>1. PICK k \in Keys : k = op[t].key
        BY <2>6, BucketOfCall DEF PublishNode
      <3>2. tableBar' = [tableBar EXCEPT ![k] = <<op[t].val>> \o @]
        BY <2>6, <3>1, PublishLists DEF Published, tableBar
      <3>3. /\ stage[t] = "publish" /\ stage'[t] = "unlock" /\ op' = op
            /\ result'[t] = TRUE
        BY <2>2, <2>6 DEF PublishNode
      <3>4. op[t].kind = "insert" /\ answerBar[t] = Pending /\ answerBar'[t] = TRUE
        BY <2>2, <3>3, AnswerOfCall DEF PhaseInv, ReadingStages
      <3>5. Table!Insert(t)
        BY <2>1, <3>1, <3>2, <3>3, <3>4 DEF Table!Insert
      <3>6. QED
        BY <3>5 DEF Table!Next
    <2>7. CASE UnlinkNode(t)
      <3>1. PICK k \in Keys : k = op[t].key
        BY <2>7, BucketOfCall DEF UnlinkNode
      <3>2. stage[t] = "search" /\ op' = op /\ stage'[t] \in {"search", "free"}
        BY <2>2, <2>7 DEF UnlinkNode
      <3>3. /\ op[t].kind = "remove" /\ result[t] = Pending
            /\ answerBar[t] = Pending /\ answerBar'[t] = result'[t]
        BY <2>2, <3>2, AnswerOfCall DEF PhaseInv, ReadingStages
      <3>4. CASE SameLists /\ result' = result
        BY <2>1, <3>2, <3>3, <3>4, SameTable DEF Table!vars
      <3>5. CASE Taken(t)
        <4>1. tableBar' = [tableBar EXCEPT ![k] = Tail(@)] /\ tableBar[k] # <<>>
          BY <3>1, <3>5 DEF Taken, tableBar
        <4>2. answerBar'[t] = TRUE
          BY <2>2, <3>3, <3>5 DEF Taken
        <4>3. Table!Remove(t)
          BY <2>1, <3>1, <3>2, <3>3, <4>1, <4>2 DEF Table!Remove
        <4>4. QED
          BY <4>3 DEF Table!Next
      <3>6. QED
        BY <2>7, <3>4, <3>5, UnlinkLists
    <2>8. CASE \/ LoadHead(t) \/ LoadVersion(t) \/ StartTraversal(t) \/ CompareKey(t)
               \/ TakeVal(t) \/ Advance(t) \/ (Validate(t) /\ stage'[t] # "none")
      <3>1. stage[t] \in LookupStages
        BY <2>8 DEF LoadHead, LoadVersion, StartTraversal, CompareKey, TakeVal, Advance, Validate,
                    LookupStages
      <3>2. "remove" \notin Kinds /\ SettledInv
        BY <3>1, NoLookups DEF KnownInv
      <3>3. PICK k \in Keys, b \in Buckets : k = op[t].key /\ b = Bucket(t) /\ b = HashOf[k]
        BY <3>1, BucketOfCall DEF LookupStages, Bucket
      <3>4. answerBar'[t] = answerBar[t] \/ answerBar'[t] = Answer(head[b], k)
        BY <2>8, <3>2, <3>3, LookupAnswers
      <3>5. SameLists
        BY <2>8, HeapUntouched
      <3>6. op[t].kind = "lookup" /\ op' = op
        BY <2>2, <2>8, <3>1
           DEF PhaseInv, LoadHead, LoadVersion, StartTraversal, CompareKey, TakeVal, Advance,
               Validate, Return
      <3>7. CASE answerBar'[t] = answerBar[t]
        BY <2>1, <3>5, <3>6, <3>7, SameTable DEF Table!vars
      <3>8. CASE answerBar'[t] = Answer(head[b], k)
        <4>1. Table!Newest(k) = Answer(head[b], k)
          BY <3>3, NewestIsAnswer
        <4>2. Table!Lookup(t)
          BY <2>1, <3>3, <3>5, <3>6, <3>8, <4>1, SameTable DEF Table!Lookup
        <4>3. QED
          BY <4>2 DEF Table!Next
      <3>9. QED
        BY <3>4, <3>7, <3>8
    <2>9. QED
      BY <1>2, <2>3, <2>4, <2>5, <2>6, <2>7, <2>8 DEF Continue
  <1>3. QED
    BY <1>1, <1>2 DEF TableNext

(* The calls of a table that is not asked for both lookups and removes are  *)
(* linearizable, as long as no lock's counter is reset (vlht.hpp:49-95,     *)
(* list.hpp:69-106).                                                        *)
THEOREM VLTableIsLinearizable ==
    ASSUME "remove" \notin Kinds \/ "lookup" \notin Kinds
    PROVE  TableSpec /\ [](wrapped = {}) => Linearizable
  <1>1. TableInit => Table!Init
    <2> SUFFICES ASSUME TableInit PROVE Table!Init
      OBVIOUS
    <2>1. \A k \in Keys : Stack(k) = <<>>
      BY ListsInit DEF TableInit
    <2>2. answerBar = [t \in Threads |-> Pending]
      BY DEF TableInit, answerBar, LookupStages
    <2>3. QED
      BY <2>1, <2>2 DEF TableInit, Table!Init, Table!NoOp, NoOp, tableBar
  <1>2. TableSpec => [](CallInv /\ (wrapped = {} => HeapInv /\ KnownInv))
    <2>1. CASE "remove" \notin Kinds
      <3>1. TableSpec => [](CallInv /\ (wrapped = {} => HeapInv /\ SettledInv))
        BY <2>1, SettledInvariant
      <3>2. SettledInv => KnownInv
        BY <2>1 DEF KnownInv
      <3>3. QED
        BY <3>1, <3>2, PTL
    <2>2. CASE "lookup" \notin Kinds
      <3>1. KnownInv
        BY <2>2 DEF KnownInv
      <3>2. QED
        BY <3>1, HeapInvariant, PTL
    <2>3. QED
      BY <2>1, <2>2
  <1>3. /\ CallInv /\ CallInv' /\ (wrapped = {} => HeapInv /\ KnownInv) /\ wrapped = {}
        /\ [TableNext]_vars
        => [Table!Next]_Table!vars
    BY TableRefineStep
  <1>4. QED
    BY <1>1, <1>2, <1>3, PTL DEF TableSpec, Linearizable, Table!Spec

-----------------------------------------------------------------------------
(* No counter is reset as long as the writes that begin below the bound     *)
(* cannot take it to the maximum.  A counter moves twice for each write;    *)
(* what the writes in progress have still to add is counted with it.        *)

(* The threads whose write of lock l is to take it, and to release it. *)
Asking(l) == {t \in Threads : pc[t] \in {"write_lock", "write_cas"} /\ at[t] = l}
Holding(l) == {t \in Threads : pc[t] \in WriterPCs /\ at[t] = l}

Due(l) == 2 * Cardinality(Asking(l)) + Cardinality(Holding(l))

(* What no counter passes, whatever the threads that are writing. *)
Highest == WriteBound + 2 * Cardinality(Threads)

(* Fewer writes than it takes to bring a counter to its reset. *)
BelowReset == IsFiniteSet(Threads) /\ Highest < UINT64_MAX - 2

LowInv ==
    /\ wrapped = {}
    /\ \A t \in Threads : pc[t] # "reset"
    /\ \A l \in Locks : version[l] + Due(l) <= Highest

(* Two sets of threads with no thread in common. *)
LEMMA ApartThreads ==
    ASSUME IsFiniteSet(Threads), NEW A \in SUBSET Threads, NEW B \in SUBSET Threads,
           A \intersect B = {}
    PROVE  /\ IsFiniteSet(A) /\ IsFiniteSet(B)
           /\ Cardinality(A) \in Nat /\ Cardinality(B) \in Nat
           /\ Cardinality(A) + Cardinality(B) <= Cardinality(Threads)
  <1>1. IsFiniteSet(A) /\ IsFiniteSet(B)
    BY FS_Subset
  <1>2. Cardinality(A) \in Nat /\ Cardinality(B) \in Nat /\ Cardinality(Threads) \in Nat
    BY <1>1, FS_CardinalityType
  <1>3. Cardinality(A \union B) = Cardinality(A) + Cardinality(B) - Cardinality(A \intersect B)
    BY <1>1, FS_Union
  <1>4. Cardinality(A \intersect B) = 0
    BY FS_EmptySet
  <1>5. Cardinality(A \union B) <= Cardinality(Threads)
    <2>1. (A \union B) \in SUBSET Threads
      OBVIOUS
    <2>2. QED
      BY <2>1, FS_Subset
  <1>6. QED
    BY <1>1, <1>2, <1>3, <1>4, <1>5

(* A thread asks for a lock, holds it, or neither. *)
LEMMA WritersApart ==
    ASSUME NEW l
    PROVE  /\ Asking(l) \in SUBSET Threads /\ Holding(l) \in SUBSET Threads
           /\ Asking(l) \intersect Holding(l) = {}
           /\ Asking(l)' \in SUBSET Threads /\ Holding(l)' \in SUBSET Threads
           /\ Asking(l)' \intersect Holding(l)' = {}
  BY DEF Asking, Holding, WriterPCs

(* What is due is a number. *)
LEMMA DueTypes ==
    ASSUME IsFiniteSet(Threads), NEW l
    PROVE  /\ IsFiniteSet(Asking(l)) /\ IsFiniteSet(Holding(l))
           /\ Cardinality(Asking(l)) \in Nat /\ Cardinality(Holding(l)) \in Nat
  BY WritersApart, ApartThreads

(* No counter is high enough to be reset. *)
LEMMA CounterIsLow ==
    ASSUME BelowReset, TypeOK, LowInv, NEW l \in Locks
    PROVE  /\ version[l] \in Nat /\ version[l] <= Highest /\ Highest \in Nat
           /\ ~AtReset(version[l]) /\ Succ(version[l]) = version[l] + 1
  <1>1. Cardinality(Threads) \in Nat /\ Highest \in Nat
    BY FS_CardinalityType, VLHashTableAssumption DEF BelowReset, Highest
  <1>2. Due(l) \in Nat
    BY DueTypes DEF BelowReset, Due
  <1>3. version[l] \in Nat
    BY DEF TypeOK, Counter
  <1>4. version[l] <= Highest
    BY <1>1, <1>2, <1>3 DEF LowInv
  <1>5. QED
    BY <1>1, <1>3, <1>4, WidthAssumption DEF BelowReset, AtReset, Succ

(* A write begins: only the counter of its lock has more to come, and it is *)
(* at most WriteBound.                                                      *)
LEMMA LowBegin ==
    ASSUME BelowReset, CallInv, LowInv, NEW t \in Threads, BeginWrite(t)
    PROVE  LowInv'
  <1>1. PICK o \in Ops :
            /\ version[HashOf[o.key]] <= WriteBound
            /\ WriteLock(t, HashOf[o.key])
    BY DEF BeginWrite
  <1> DEFINE k == HashOf[o.key]
  <1>2. k \in Locks
    BY BucketIsLock
  <1>3. TypeOK
    BY DEF CallInv, LockInv
  <1>4. /\ pc[t] \in ReadyPCs /\ UNCHANGED <<version, wrapped>>
        /\ pc' = [pc EXCEPT ![t] = "write_lock"] /\ at' = [at EXCEPT ![t] = k]
    BY <1>1 DEF WriteLock, Call, Ready, Move
  <1> HIDE DEF k
  <1>5. ASSUME NEW l \in Locks PROVE version'[l] + Due(l)' <= Highest
    <2>1. CASE l = k
      <3>1. /\ Cardinality(Asking(l))' \in Nat /\ Cardinality(Holding(l))' \in Nat
            /\ (Cardinality(Asking(l)) + Cardinality(Holding(l)) <= Cardinality(Threads))'
        BY WritersApart, ApartThreads DEF BelowReset
      <3>2. version[l] \in Nat /\ version[l] <= WriteBound
        BY <1>1, <1>3, <2>1 DEF TypeOK, Counter, k
      <3>3. Cardinality(Threads) \in Nat /\ WriteBound \in Nat
        BY FS_CardinalityType, VLHashTableAssumption DEF BelowReset
      <3>4. QED
        BY <1>4, <3>1, <3>2, <3>3 DEF Due, Highest
    <2>2. CASE l # k
      <3>1. Asking(l)' = Asking(l) /\ Holding(l)' = Holding(l)
        <4>1. t \notin Asking(l) /\ t \notin Holding(l)
          BY <1>4 DEF Asking, Holding, WriterPCs, ReadyPCs
        <4>2. t \notin Asking(l)' /\ t \notin Holding(l)'
          BY <1>3, <1>4, <2>2 DEF Asking, Holding, TypeOK
        <4>3. \A u \in Threads \ {t} : pc'[u] = pc[u] /\ at'[u] = at[u]
          BY <1>3, <1>4 DEF TypeOK
        <4>4. QED
          BY <4>1, <4>2, <4>3 DEF Asking, Holding
      <3>2. QED
        BY <1>4, <3>1 DEF LowInv, Due
    <2>3. QED
      BY <2>1, <2>2
  <1>6. \A u \in Threads : pc'[u] # "reset"
    BY <1>3, <1>4 DEF LowInv, TypeOK
  <1>7. QED
    BY <1>4, <1>5, <1>6 DEF LowInv

(* write_lock's swap succeeds: one step of the two is taken. *)
LEMMA LowTaken ==
    ASSUME BelowReset, CallInv, LowInv, NEW t \in Threads, WriteCas(t), CasSucceeds(t)
    PROVE  LowInv'
  <1> DEFINE k == at[t]
  <1>1. TypeOK /\ k \in Locks
    BY DEF CallInv, LockInv, TypeOK
  <1>2. Succ(version[k]) = version[k] + 1 /\ version[k] \in Nat
    BY <1>1, CounterIsLow
  <1>3. /\ pc[t] = "write_cas" /\ UNCHANGED <<at, wrapped>>
        /\ pc' = [pc EXCEPT ![t] = "writing"]
        /\ version' = [version EXCEPT ![k] = version[k] + 1]
    BY <1>2 DEF WriteCas, CasSucceeds, Move
  <1> HIDE DEF k
  <1>4. \A u \in Threads \ {t} : pc'[u] = pc[u]
    BY <1>1, <1>3 DEF TypeOK
  <1>5. pc'[t] = "writing"
    BY <1>1, <1>3 DEF TypeOK
  <1>6. ASSUME NEW l \in Locks PROVE version'[l] + Due(l)' <= Highest
    <2>1. CASE l = k
      <3>1. t \in Asking(l) /\ t \notin Holding(l)
        BY <1>3, <2>1 DEF Asking, Holding, WriterPCs, k
      <3>2. Asking(l)' = Asking(l) \ {t} /\ Holding(l)' = Holding(l) \union {t}
        BY <1>3, <1>4, <1>5, <2>1 DEF Asking, Holding, WriterPCs, k
      <3>3. /\ IsFiniteSet(Asking(l)) /\ IsFiniteSet(Holding(l))
            /\ Cardinality(Asking(l)) \in Nat /\ Cardinality(Holding(l)) \in Nat
        BY DueTypes DEF BelowReset
      <3>4. /\ Cardinality(Asking(l) \ {t}) = Cardinality(Asking(l)) - 1
            /\ Cardinality(Holding(l) \union {t}) = Cardinality(Holding(l)) + 1
        BY <3>1, <3>3, FS_AddElement, FS_RemoveElement
      <3>5. Due(l)' = Due(l) - 1 /\ Due(l) \in Nat
        BY <3>2, <3>3, <3>4 DEF Due
      <3>6. version'[l] = version[l] + 1
        BY <1>1, <1>3, <2>1 DEF TypeOK
      <3>7. QED
        BY <1>2, <2>1, <3>5, <3>6 DEF LowInv
    <2>2. CASE l # k
      <3>1. Asking(l)' = Asking(l) /\ Holding(l)' = Holding(l)
        BY <1>3, <1>4, <2>2 DEF Asking, Holding, k
      <3>2. version'[l] = version[l]
        BY <1>1, <1>3, <2>2 DEF TypeOK
      <3>3. QED
        BY <3>1, <3>2 DEF LowInv, Due
    <2>3. QED
      BY <2>1, <2>2
  <1>7. QED
    BY <1>3, <1>4, <1>5, <1>6 DEF LowInv

(* write_unlock's addition: the other step is taken. *)
LEMMA LowReleased ==
    ASSUME BelowReset, CallInv, LowInv, NEW t \in Threads, UnlockFaa(t)
    PROVE  LowInv'
  <1> DEFINE k == at[t]
  <1>1. TypeOK /\ k \in Locks
    BY DEF CallInv, LockInv, TypeOK
  <1>2. Succ(version[k]) = version[k] + 1 /\ version[k] \in Nat
    BY <1>1, CounterIsLow
  <1>3. /\ pc[t] = "faa" /\ UNCHANGED <<at, wrapped>>
        /\ pc' = [pc EXCEPT ![t] = "idle"]
        /\ version' = [version EXCEPT ![k] = version[k] + 1]
    BY <1>2 DEF UnlockFaa, Move
  <1> HIDE DEF k
  <1>4. \A u \in Threads \ {t} : pc'[u] = pc[u]
    BY <1>1, <1>3 DEF TypeOK
  <1>5. pc'[t] = "idle"
    BY <1>1, <1>3 DEF TypeOK
  <1>6. ASSUME NEW l \in Locks PROVE version'[l] + Due(l)' <= Highest
    <2>1. CASE l = k
      <3>1. t \notin Asking(l) /\ t \in Holding(l)
        BY <1>3, <2>1 DEF Asking, Holding, WriterPCs, k
      <3>2. Asking(l)' = Asking(l) /\ Holding(l)' = Holding(l) \ {t}
        BY <1>3, <1>4, <1>5, <3>1 DEF Asking, Holding, WriterPCs
      <3>3. /\ IsFiniteSet(Holding(l))
            /\ Cardinality(Asking(l)) \in Nat /\ Cardinality(Holding(l)) \in Nat
        BY DueTypes DEF BelowReset
      <3>4. Cardinality(Holding(l) \ {t}) = Cardinality(Holding(l)) - 1
        BY <3>1, <3>3, FS_RemoveElement
      <3>5. Due(l)' = Due(l) - 1 /\ Due(l) \in Nat
        BY <3>2, <3>3, <3>4 DEF Due
      <3>6. version'[l] = version[l] + 1
        BY <1>1, <1>3, <2>1 DEF TypeOK
      <3>7. QED
        BY <1>2, <2>1, <3>5, <3>6 DEF LowInv
    <2>2. CASE l # k
      <3>1. Asking(l)' = Asking(l) /\ Holding(l)' = Holding(l)
        BY <1>3, <1>4, <2>2 DEF Asking, Holding, k
      <3>2. version'[l] = version[l]
        BY <1>1, <1>3, <2>2 DEF TypeOK
      <3>3. QED
        BY <3>1, <3>2 DEF LowInv, Due
    <2>3. QED
      BY <2>1, <2>2
  <1>7. QED
    BY <1>3, <1>4, <1>5, <1>6 DEF LowInv

(* Every other step leaves every counter, and what is due, as it is.        *)
LEMMA LowOther ==
    ASSUME BelowReset, CallInv, LowInv, NEW t \in Threads,
           BeginLookup(t) \/ Continue(t),
           ~(WriteCas(t) /\ CasSucceeds(t)), ~UnlockFaa(t)
    PROVE  LowInv'
  <1> DEFINE asking == {"write_lock", "write_cas"}
  <1>1. TypeOK /\ StageInv(t) /\ stage \in [Threads -> Stages] /\ at[t] \in Locks
    BY DEF CallInv, LockInv, TableInv, TypeOK
  <1>2. pc[t] # "reset" /\ pc[t] \in PCs
    BY <1>1 DEF LowInv, TypeOK
  <1>3. \A u \in Threads \ {t} : pc'[u] = pc[u] /\ at'[u] = at[u]
    BY StepIsLocal DEF CallInv, LockInv
  <1>4. /\ UNCHANGED <<version, wrapped>>
        /\ pc'[t] # "reset"
        /\ pc'[t] \in asking <=> pc[t] \in asking
        /\ pc'[t] \in WriterPCs <=> pc[t] \in WriterPCs
        /\ UNCHANGED at \/ (pc[t] \notin asking \union WriterPCs)
    <2>1. CASE Unlock(t)
      <3>1. ~AtReset(version[at[t]])
        BY <1>1, CounterIsLow
      <3>2. QED
        BY <1>1, <1>2, <2>1, <3>1 DEF Unlock, WriteUnlock, AfterAssert, Move, WriterPCs, TypeOK
    <2>2. CASE InsideLock(t)
      <3>1. pc[t] \notin {"try_cas", "reset"}
        BY <1>1, <1>2 DEF StageInv, Stages, WriteStages, LookupStages, Ready, ReadyPCs
      <3>2. QED
        BY <1>1, <1>2, <2>2, <3>1
           DEF InsideLock, LockStep, WriteLoad, WriteCas, TryCas, UnlockReset, ReadLoad,
               RetryWrite, Move, WriterPCs, TypeOK
    <2>3. CASE LoadVersion(t)
      BY <1>1, <1>2, <2>3 DEF LoadVersion, ReadLockNoWait, Call, Ready, ReadyPCs, Move, WriterPCs,
                              TypeOK
    <2>4. CASE Validate(t)
      BY <1>1, <1>2, <2>4 DEF Validate, ReadUnlock, Move, WriterPCs, TypeOK
    <2>5. CASE UNCHANGED lockVars
      BY <1>2, <2>5 DEF lockVars
    <2>6. QED
      BY <2>1, <2>2, <2>3, <2>4, <2>5
         DEF BeginLookup, Continue, Allocate, PublishNode, UnlinkNode, FreeNode, LoadHead,
             StartTraversal, CompareKey, TakeVal, Advance
  <1>5. \A u \in Threads, l \in Locks :
            /\ u \in Asking(l)' <=> u \in Asking(l)
            /\ u \in Holding(l)' <=> u \in Holding(l)
    <2>1. \A u \in Threads :
              /\ pc'[u] \in asking <=> pc[u] \in asking
              /\ pc'[u] \in WriterPCs <=> pc[u] \in WriterPCs
              /\ pc[u] \in asking \union WriterPCs => at'[u] = at[u]
      BY <1>3, <1>4
    <2>2. QED
      BY <2>1 DEF Asking, Holding
  <1>6. \A l \in Locks : Asking(l)' = Asking(l) /\ Holding(l)' = Holding(l)
    BY <1>5, WritersApart
  <1>7. \A u \in Threads : pc'[u] # "reset"
    BY <1>3, <1>4 DEF LowInv
  <1>8. QED
    BY <1>4, <1>6, <1>7 DEF LowInv, Due

(* No step takes a counter above what was due. *)
LEMMA LowStep ==
    ASSUME BelowReset, CallInv, LowInv, [TableNext]_vars
    PROVE  LowInv'
  <1>1. CASE UNCHANGED vars
    BY <1>1 DEF vars, lockVars, LowInv, Due, Asking, Holding
  <1>2. ASSUME NEW t \in Threads, BeginWrite(t) \/ BeginLookup(t) \/ Continue(t)
        PROVE  LowInv'
    BY <1>2, LowBegin, LowTaken, LowReleased, LowOther
  <1>3. QED
    BY <1>1, <1>2 DEF TableNext

(* As long as writes begin below the bound, no counter of the table is ever *)
(* reset, and no assert of the lock fails (version_lock.hpp:99-106,         *)
(* 158-165).  With 64 bits that is about 2^63 writes of a bucket.           *)
THEOREM NoCounterIsReset ==
    ASSUME BelowReset
    PROVE  TableSpec => [](wrapped = {} /\ ~aborted)
  <1>1. TableInit => LowInv
    <2> SUFFICES ASSUME TableInit PROVE LowInv
      OBVIOUS
    <2>1. ASSUME NEW l \in Locks PROVE version[l] + Due(l) <= Highest
      <3>1. Asking(l) = {} /\ Holding(l) = {} /\ version[l] = 0
        BY DEF TableInit, Init, Asking, Holding, WriterPCs
      <3>2. Cardinality(Threads) \in Nat /\ WriteBound \in Nat
        BY FS_CardinalityType, VLHashTableAssumption DEF BelowReset
      <3>3. QED
        BY <3>1, <3>2, FS_EmptySet DEF Due, Highest
    <2>2. QED
      BY <2>1 DEF TableInit, Init, LowInv
  <1>2. CallInv /\ LowInv /\ [TableNext]_vars => LowInv'
    BY LowStep
  <1>3. CallInv /\ LowInv => wrapped = {} /\ ~aborted
    BY DEF CallInv, LockInv, LowInv, AbortsOnlyAfterReset
  <1>4. QED
    BY <1>1, <1>2, <1>3, CallInvariant, PTL DEF TableSpec

(* As long as writes begin below the bound, the lists are intact in every   *)
(* state (vlht.hpp:55-61, 87-93).                                           *)
THEOREM ListsAlwaysIntact ==
    ASSUME BelowReset
    PROVE  TableSpec => []ListsIntact
  BY NoCounterIsReset, ListsStayIntact, PTL

(* As long as writes begin below the bound, a lookup that found the counter *)
(* even, and is validated, returns what the list answers at that moment     *)
(* (vlht.hpp:72-78).                                                        *)
THEOREM LookupsAlwaysCurrent ==
    ASSUME BelowReset
    PROVE  TableSpec => CleanLookupsAreCurrent
  BY NoCounterIsReset, LookupsAreCurrent, PTL

(* As long as writes begin below the bound, the calls of a table that is    *)
(* not asked for both lookups and removes are linearizable                  *)
(* (vlht.hpp:49-95, list.hpp:69-106).                                       *)
THEOREM VLTableAlwaysLinearizable ==
    ASSUME BelowReset, "remove" \notin Kinds \/ "lookup" \notin Kinds
    PROVE  TableSpec => Linearizable
  BY NoCounterIsReset, VLTableIsLinearizable, PTL
=============================================================================
