------------------------- MODULE RWHashTableProofs -------------------------
(***************************************************************************)
(* Proofs about RWHashTable for any number of threads, buckets, keys,      *)
(* values, nodes and calls: whoever writes a list is alone at it.          *)
(***************************************************************************)
EXTENDS RWHashTable, ChainedListsProofs

-----------------------------------------------------------------------------
(* The mutexes.                                                            *)

(* Where a thread is in its operation, it holds its bucket's mutex in the   *)
(* mode the operation needs.                                                *)
HoldsInv(t) ==
    /\ stage[t] # "none" => op[t] \in Ops
    /\ stage[t] \in WriteStages => owner[Bucket(t)] = t
    /\ stage[t] \in ReadStages => t \in sharers[Bucket(t)]

MutexInv ==
    /\ owner \in [Buckets -> Threads \union {Nobody}]
    /\ sharers \in [Buckets -> SUBSET Threads]
    /\ op \in [Threads -> Ops \union {NoOp}]
    /\ stage \in [Threads -> Stages]
    /\ \A b \in Buckets : owner[b] # Nobody => sharers[b] = {}
    /\ \A t \in Threads : HoldsInv(t)

(* The bucket of an operation exists. *)
LEMMA BucketExists ==
    ASSUME MutexInv, NEW t \in Threads, stage[t] # "none"
    PROVE  op[t].key \in Keys /\ Bucket(t) \in Buckets
  <1>1. op[t].key \in Keys
    BY DEF MutexInv, HoldsInv, Ops
  <1>2. QED
    BY <1>1, ListAssumption DEF Bucket

(* A step of one thread that leaves the mutexes alone. *)
LEMMA MutexesKept ==
    ASSUME MutexInv, UNCHANGED lockVars, NEW t \in Threads,
           op' \in [Threads -> Ops \union {NoOp}], stage' \in [Threads -> Stages],
           \A u \in Threads \ {t} : UNCHANGED <<op[u], stage[u]>>,
           HoldsInv(t)'
    PROVE  MutexInv'
  <1>1. \A u \in Threads \ {t} : HoldsInv(u)'
    BY DEF MutexInv, HoldsInv, Bucket, lockVars
  <1>2. QED
    BY <1>1 DEF MutexInv, lockVars

(* Every step keeps the invariant. *)
LEMMA MutexStep == MutexInv /\ [Next]_vars => MutexInv'
  <1> SUFFICES ASSUME MutexInv, [Next]_vars PROVE MutexInv'
    OBVIOUS
  <1> USE DEF At, GoTo, Stages, WriteStages, ReadStages
  <1>1. ASSUME NEW t \in Threads, Call(t) PROVE MutexInv'
    <2>1. PICK o \in Ops, s \in {"lock", "lock_shared"} :
              op' = [op EXCEPT ![t] = o] /\ stage' = [stage EXCEPT ![t] = s]
      BY <1>1 DEF Call
    <2>2. UNCHANGED lockVars
      BY <1>1 DEF Call
    <2>3. HoldsInv(t)'
      BY <2>1 DEF MutexInv, HoldsInv
    <2>4. QED
      BY <2>1, <2>2, <2>3, MutexesKept DEF MutexInv
  <1>2. ASSUME NEW t \in Threads,
               \/ Allocate(t) \/ PublishNode(t) \/ UnlinkNode(t) \/ FreeNode(t)
               \/ LoadHead(t) \/ VisitNode(t)
        PROVE  MutexInv'
    <2>1. UNCHANGED lockVars /\ op' = op
      BY <1>2 DEF Allocate, PublishNode, UnlinkNode, FreeNode, LoadHead, VisitNode
    <2>2. \/ stage' = stage
          \/ /\ stage[t] \in WriteStages
             /\ \E s \in WriteStages : stage' = [stage EXCEPT ![t] = s]
          \/ /\ stage[t] \in ReadStages
             /\ \E s \in ReadStages : stage' = [stage EXCEPT ![t] = s]
      BY <1>2 DEF Allocate, PublishNode, UnlinkNode, FreeNode, LoadHead, VisitNode, Visit
    <2>3. HoldsInv(t)'
      BY <2>1, <2>2 DEF MutexInv, HoldsInv, Bucket, lockVars
    <2>4. QED
      BY <2>1, <2>2, <2>3, MutexesKept DEF MutexInv
  <1>3. ASSUME NEW t \in Threads, Lock(t) \/ LockShared(t) PROVE MutexInv'
    <2> DEFINE b == Bucket(t)
    <2>1. b \in Buckets /\ op' = op /\ owner[b] = Nobody
      BY <1>3, BucketExists DEF Lock, LockShared, MayLock, MayShare
    <2>2. \/ /\ owner' = [owner EXCEPT ![b] = t] /\ sharers[b] = {} /\ sharers' = sharers
             /\ stage' = [stage EXCEPT ![t] = IF op[t].kind = "insert" THEN "allocate" ELSE "search"]
          \/ /\ sharers' = [sharers EXCEPT ![b] = @ \union {t}] /\ owner' = owner
             /\ stage' = [stage EXCEPT ![t] = "head"]
      BY <1>3 DEF Lock, LockShared, MayLock
    <2>3. /\ stage' \in [Threads -> Stages]
          /\ owner' \in [Buckets -> Threads \union {Nobody}]
          /\ sharers' \in [Buckets -> SUBSET Threads]
          /\ \A c \in Buckets : owner'[c] # Nobody => sharers'[c] = {}
      BY <2>1, <2>2 DEF MutexInv
    <2>4. HoldsInv(t)'
      <3>1. op[t] \in Ops
        BY <1>3 DEF Lock, LockShared, MutexInv, HoldsInv
      <3>2. QED
        BY <2>1, <2>2, <3>1 DEF MutexInv, HoldsInv, Bucket
    <2>5. ASSUME NEW u \in Threads \ {t} PROVE HoldsInv(u)'
      <3>1. HoldsInv(u) /\ op'[u] = op[u] /\ stage'[u] = stage[u]
        BY <2>1, <2>2 DEF MutexInv
      <3>2. CASE stage[u] = "none"
        BY <3>1, <3>2 DEF HoldsInv
      <3>3. CASE stage[u] # "none"
        <4>1. Bucket(u) \in Buckets /\ Bucket(u)' = Bucket(u)
          BY <2>1, <3>3, BucketExists DEF Bucket
        <4>2. stage[u] \in WriteStages => owner'[Bucket(u)] = u
          <5>1. owner[Bucket(u)] = u => owner'[Bucket(u)] = u
            <6>1. u # Nobody
              BY RWHashTableAssumption
            <6>2. QED
              BY <2>1, <2>2, <4>1, <6>1 DEF MutexInv
          <5>2. QED
            BY <3>1, <5>1 DEF HoldsInv
        <4>3. stage[u] \in ReadStages => u \in sharers'[Bucket(u)]
          BY <2>1, <2>2, <3>1, <4>1 DEF MutexInv, HoldsInv
        <4>4. QED
          BY <3>1, <4>1, <4>2, <4>3 DEF HoldsInv
      <3>4. QED
        BY <3>2, <3>3
    <2>6. QED
      BY <2>1, <2>3, <2>4, <2>5 DEF MutexInv
  <1>4. ASSUME NEW t \in Threads, Unlock(t) \/ UnlockShared(t) PROVE MutexInv'
    <2> DEFINE b == Bucket(t)
    <2>1. /\ b \in Buckets
          /\ op' = [op EXCEPT ![t] = NoOp] /\ stage' = [stage EXCEPT ![t] = "none"]
      BY <1>4, BucketExists DEF Unlock, UnlockShared, Return
    <2>2. \/ /\ owner' = [owner EXCEPT ![b] = Nobody] /\ sharers' = sharers
             /\ owner[b] = t
          \/ /\ sharers' = [sharers EXCEPT ![b] = @ \ {t}] /\ owner' = owner
      BY <1>4 DEF Unlock, UnlockShared, Unshare, MutexInv, HoldsInv
    <2>3. /\ op' \in [Threads -> Ops \union {NoOp}] /\ stage' \in [Threads -> Stages]
          /\ owner' \in [Buckets -> Threads \union {Nobody}]
          /\ sharers' \in [Buckets -> SUBSET Threads]
          /\ \A c \in Buckets : owner'[c] # Nobody => sharers'[c] = {}
      BY <2>1, <2>2 DEF MutexInv
    <2>4. HoldsInv(t)'
      BY <2>1 DEF MutexInv, HoldsInv
    <2>5. ASSUME NEW u \in Threads \ {t} PROVE HoldsInv(u)'
      <3>1. HoldsInv(u) /\ op'[u] = op[u] /\ stage'[u] = stage[u]
        BY <2>1 DEF MutexInv
      <3>2. CASE stage[u] = "none"
        BY <3>1, <3>2 DEF HoldsInv
      <3>3. CASE stage[u] # "none"
        <4>1. Bucket(u) \in Buckets /\ Bucket(u)' = Bucket(u)
          BY <3>1, <3>3, BucketExists DEF Bucket
        <4>2. stage[u] \in WriteStages => owner'[Bucket(u)] = u
          BY <2>1, <2>2, <3>1, <4>1 DEF MutexInv, HoldsInv
        <4>3. stage[u] \in ReadStages => u \in sharers'[Bucket(u)]
          BY <2>1, <2>2, <3>1, <4>1 DEF MutexInv, HoldsInv
        <4>4. QED
          BY <3>1, <4>1, <4>2, <4>3 DEF HoldsInv
      <3>4. QED
        BY <3>2, <3>3
    <2>6. QED
      BY <2>3, <2>4, <2>5 DEF MutexInv
  <1>5. CASE UNCHANGED vars
    BY <1>5 DEF vars, lockVars, callVars, MutexInv, HoldsInv, Bucket
  <1>6. QED
    BY <1>1, <1>2, <1>3, <1>4, <1>5 DEF Next, Continue

(* No mutex is held at first. *)
LEMMA MutexInit == Init => MutexInv
  BY DEF Init, MutexInv, HoldsInv, Stages, WriteStages, ReadStages

(* The mutexes are held as the operations need them, in every state. *)
LEMMA MutexInvariant == Spec => []MutexInv
  BY MutexInit, MutexStep, PTL DEF Spec

(* A thread that may write a list is the only one at it, writer or reader. *)
LEMMA WritersAreAloneNow == MutexInv => WritersAreAlone
  <1> SUFFICES ASSUME MutexInv, NEW t \in Threads, NEW u \in Threads,
                      stage[t] \in WriteStages, stage[u] \in WriteStages \union ReadStages,
                      Bucket(t) = Bucket(u)
               PROVE  t = u
    BY DEF WritersAreAlone
  <1>1. Bucket(t) \in Buckets
    BY BucketExists DEF WriteStages
  <1>2. owner[Bucket(t)] = t /\ t # Nobody
    BY RWHashTableAssumption DEF MutexInv, HoldsInv
  <1>3. u \notin sharers[Bucket(u)]
    BY <1>1, <1>2 DEF MutexInv
  <1>4. QED
    BY <1>2, <1>3 DEF MutexInv, HoldsInv

(* While a thread is at a list nobody but threads that only read is         *)
(* (rwht.hpp:57, 71, 82).                                                   *)
THEOREM WritersExcludeAll == Spec => []WritersAreAlone
  BY WritersAreAloneNow, MutexInvariant, PTL

-----------------------------------------------------------------------------
(* Type correctness.                                                       *)

DataOK ==
    /\ ListTypeOK
    /\ node \in [Threads -> Pointers]
    /\ result \in [Threads -> Vals \union {Junk, NotFound, TRUE, Pending}]
    /\ calls \in [Threads -> 0 .. MaxCalls]
    /\ failed \in BOOLEAN

(* A traversal is at a node, and only an insert allocates one. *)
DataInv ==
    /\ DataOK
    /\ \A t \in Threads :
           /\ stage[t] = "node" => node[t] # Nil
           /\ stage[t] = "allocate" => op[t].kind = "insert"

(* The other threads keep it. *)
LEMMA OthersKeepData ==
    ASSUME DataInv, DataOK', NEW t \in Threads,
           \A u \in Threads \ {t} : UNCHANGED <<stage[u], op[u], node[u]>>,
           stage'[t] = "node" => node'[t] # Nil,
           stage'[t] = "allocate" => op'[t].kind = "insert"
    PROVE  DataInv'
  BY DEF DataInv

(* Beginning a call, locking and returning (rwht.hpp:51-89). *)
LEMMA CallData ==
    ASSUME MutexInv, DataInv, NEW t \in Threads,
           Call(t) \/ Lock(t) \/ LockShared(t) \/ Unlock(t) \/ UnlockShared(t)
    PROVE  DataInv'
  <1> USE DEF GoTo
  <1>1. ListTypeOK' /\ failed' = failed
    BY DEF Call, Lock, LockShared, Unlock, UnlockShared, listVars, DataInv, DataOK,
           ListTypeOK, Pointers
  <1>2. /\ node' \in [Threads -> Pointers]
        /\ result' \in [Threads -> Vals \union {Junk, NotFound, TRUE, Pending}]
        /\ \A u \in Threads \ {t} : node'[u] = node[u]
    BY DEF Call, Lock, LockShared, Unlock, UnlockShared, Return, DataInv, DataOK, Pointers
  <1>3. calls' \in [Threads -> 0 .. MaxCalls]
    <2>1. CASE Call(t)
      <3>1. calls[t] \in 0 .. MaxCalls /\ calls[t] < MaxCalls /\ calls' = [calls EXCEPT ![t] = @ + 1]
        BY <2>1 DEF Call, DataInv, DataOK
      <3>2. calls[t] + 1 \in 0 .. MaxCalls
        BY <3>1, RWHashTableAssumption
      <3>3. QED
        BY <3>1, <3>2 DEF DataInv, DataOK
    <2>2. CASE ~Call(t)
      BY <2>2 DEF Lock, LockShared, Unlock, UnlockShared, DataInv, DataOK
    <2>3. QED
      BY <2>1, <2>2
  <1>4. DataOK'
    BY <1>1, <1>2, <1>3 DEF DataInv, DataOK
  <1>5. \A u \in Threads \ {t} : UNCHANGED <<stage[u], op[u]>>
    BY DEF Call, Lock, LockShared, Unlock, UnlockShared, Return, MutexInv
  <1>6. stage'[t] # "node" /\ (stage'[t] = "allocate" => op'[t].kind = "insert")
    BY DEF Call, Lock, LockShared, Unlock, UnlockShared, Return, MutexInv
  <1>7. QED
    BY <1>2, <1>4, <1>5, <1>6, OthersKeepData

(* The operations on the list (list.hpp:69-106). *)
LEMMA ListData ==
    ASSUME MutexInv, DataInv, NEW t \in Threads,
           \/ Allocate(t) \/ PublishNode(t) \/ UnlinkNode(t) \/ FreeNode(t)
           \/ LoadHead(t) \/ VisitNode(t)
    PROVE  DataInv'
  <1> USE DEF At, GoTo
  <1>1. /\ op' = op /\ calls' = calls
        /\ \A u \in Threads \ {t} : UNCHANGED <<stage[u], node[u]>>
    BY DEF Allocate, PublishNode, UnlinkNode, FreeNode, LoadHead, VisitNode, Visit, MutexInv,
           DataInv, DataOK
  <1>2. /\ ListTypeOK /\ op[t].key \in Keys
        /\ Bucket(t) \in Buckets /\ head[Bucket(t)] \in Pointers
    <2>1. stage[t] # "none"
      BY DEF Allocate, PublishNode, UnlinkNode, FreeNode, LoadHead, VisitNode
    <2>2. QED
      BY <2>1, BucketExists DEF DataInv, DataOK, ListTypeOK
  <1>3. CASE Allocate(t)
    <2>1. PICK n \in Nodes : /\ NewNode(n, op[t].key, op[t].val, head[Bucket(t)])
                             /\ node' = [node EXCEPT ![t] = n]
      BY <1>3 DEF Allocate
    <2>2. op[t].val \in Vals
      <3>1. op[t] \in Ops /\ op[t].kind = "insert"
        BY <1>3 DEF Allocate, MutexInv, HoldsInv, DataInv
      <3>2. QED
        BY <3>1 DEF Ops
    <2>3. ListTypeOK'
      BY <1>2, <2>1, <2>2, NewNodeType
    <2>4. DataOK'
      BY <1>1, <1>3, <2>1, <2>3 DEF Allocate, DataInv, DataOK, Pointers
    <2>5. stage'[t] = "publish"
      BY <1>3 DEF Allocate, MutexInv
    <2>6. QED
      BY <1>1, <2>4, <2>5, OthersKeepData
  <1>4. CASE PublishNode(t) \/ FreeNode(t)
    <2>1. ListTypeOK'
      <3>1. node[t] \in Pointers
        BY DEF DataInv, DataOK
      <3>2. QED
        BY <1>2, <1>4, <3>1, PublishType, FreeType DEF PublishNode, FreeNode
    <2>2. DataOK'
      BY <1>1, <1>4, <2>1 DEF PublishNode, FreeNode, DataInv, DataOK
    <2>3. stage'[t] = "unlock"
      BY <1>4 DEF PublishNode, FreeNode, MutexInv
    <2>4. QED
      BY <1>1, <2>2, <2>3, OthersKeepData
  <1>5. CASE UnlinkNode(t)
    <2>1. stage'[t] \in {"search", "free"}
      BY <1>5 DEF UnlinkNode, MutexInv
    <2>2. CASE UNCHANGED listVars
      <3>1. ListTypeOK'
        BY <1>2, <2>2 DEF listVars, ListTypeOK, Pointers
      <3>2. /\ node' \in [Threads -> Pointers] /\ failed' \in BOOLEAN
            /\ result' \in [Threads -> Vals \union {Junk, NotFound, TRUE, Pending}]
        BY <1>5 DEF UnlinkNode, DataInv, DataOK, Pointers
      <3>3. DataOK'
        BY <1>1, <3>1, <3>2 DEF DataInv, DataOK
      <3>4. QED
        BY <1>1, <2>1, <3>3, OthersKeepData
    <2>3. CASE ~UNCHANGED listVars
      <3>1. PICK n \in Nodes : Unlink(n, Bucket(t)) /\ node' = [node EXCEPT ![t] = n]
        BY <1>5, <2>3 DEF UnlinkNode
      <3>2. ListTypeOK'
        BY <1>2, <3>1, UnlinkType
      <3>3. result' = [result EXCEPT ![t] = TRUE] /\ failed' = failed
        BY <1>5, <2>3 DEF UnlinkNode
      <3>4. DataOK'
        BY <1>1, <3>1, <3>2, <3>3 DEF DataInv, DataOK, Pointers
      <3>5. QED
        BY <1>1, <2>1, <3>4, OthersKeepData
    <2>4. QED
      BY <2>2, <2>3
  <1>6. CASE LoadHead(t) \/ VisitNode(t)
    <2>1. ListTypeOK' /\ failed' = failed
      BY <1>2, <1>6 DEF LoadHead, VisitNode, listVars, ListTypeOK, Pointers
    <2>2. CASE \E p \in Pointers : Visit(t, p)
      <3>1. PICK p \in Pointers : Visit(t, p)
        BY <2>2
      <3>2. /\ node' = [node EXCEPT ![t] = p]
            /\ result' = result \/ result' = [result EXCEPT ![t] = NotFound]
            /\ stage' = [stage EXCEPT ![t] = IF p = Nil THEN "unlock_shared" ELSE "node"]
        BY <3>1 DEF Visit
      <3>3. node' \in [Threads -> Pointers] /\ node'[t] = p
        BY <3>2 DEF DataInv, DataOK
      <3>4. result' \in [Threads -> Vals \union {Junk, NotFound, TRUE, Pending}]
        BY <3>2 DEF DataInv, DataOK
      <3>5. DataOK'
        BY <1>1, <2>1, <3>3, <3>4 DEF DataInv, DataOK
      <3>6. stage'[t] = (IF p = Nil THEN "unlock_shared" ELSE "node")
        BY <3>2 DEF MutexInv
      <3>7. QED
        BY <1>1, <3>3, <3>5, <3>6, OthersKeepData
    <2>3. CASE ~\E p \in Pointers : Visit(t, p)
      <3>1. VisitNode(t)
        BY <1>2, <1>6, <2>3 DEF LoadHead
      <3>2. node[t] \in Nodes
        BY <3>1 DEF VisitNode, DataInv, DataOK, Pointers
      <3>3. cell[node[t]].next \in Pointers /\ cell[node[t]].val \in Vals \union {Junk}
        BY <1>2, <3>2 DEF ListTypeOK
      <3>4. /\ node' = node /\ result' = [result EXCEPT ![t] = cell[node[t]].val]
            /\ stage' = [stage EXCEPT ![t] = "unlock_shared"]
        BY <2>3, <3>1, <3>3 DEF VisitNode
      <3>5. DataOK'
        BY <1>1, <2>1, <3>3, <3>4 DEF DataInv, DataOK
      <3>6. stage'[t] = "unlock_shared"
        BY <3>4 DEF MutexInv
      <3>7. QED
        BY <1>1, <3>5, <3>6, OthersKeepData
    <2>4. QED
      BY <2>2, <2>3
  <1>7. QED
    BY <1>3, <1>4, <1>5, <1>6

(* It holds at first. *)
LEMMA DataInit == Init => DataInv
  <1>1. 0 \in 0 .. MaxCalls
    BY RWHashTableAssumption
  <1>2. QED
    BY <1>1, ListInitType DEF Init, DataInv, DataOK, Pointers

(* Every step keeps it. *)
LEMMA DataStep == MutexInv /\ DataInv /\ [Next]_vars => DataInv'
  <1> SUFFICES ASSUME MutexInv, DataInv, [Next]_vars PROVE DataInv'
    OBVIOUS
  <1>1. CASE UNCHANGED vars
    BY <1>1 DEF vars, listVars, callVars, DataInv, DataOK, ListTypeOK, Pointers
  <1>2. CASE Next
    BY <1>2, CallData, ListData DEF Next, Continue
  <1>3. QED
    BY <1>1, <1>2

(* Every variable keeps its type; no traversal follows the null pointer     *)
(* (rwht.hpp:51-89, list.hpp:69-106).                                       *)
THEOREM RWTypeCorrect == Spec => []RWTypeOK
  <1>1. MutexInv /\ DataInv => RWTypeOK
    BY DEF MutexInv, DataInv, DataOK, RWTypeOK
  <1>2. QED
    BY <1>1, DataInit, DataStep, MutexInvariant, PTL DEF Spec

-----------------------------------------------------------------------------
(* The lists.                                                              *)

(* What each thread is doing, and whether it knows its result already. *)
PhaseInv(t) ==
    /\ stage[t] = "none" => op[t] = NoOp
    /\ stage[t] \in {"allocate", "publish"} => op[t].kind = "insert"
    /\ stage[t] \in {"search", "free"} => op[t].kind = "remove"
    /\ stage[t] \in {"lock", "unlock"} => op[t].kind \in {"insert", "remove"}
    /\ stage[t] \in {"lock_shared"} \union ReadStages => op[t].kind = "lookup"
    /\ stage[t] \in {"free", "unlock", "unlock_shared"} <=> result[t] # Pending

(* The stages in which a thread's node is the thread's alone. *)
OwnStages == {"publish", "free"}

(* The node in hand: an insert's is filled in and in no list yet, a         *)
(* remove's is in no list any more, and a lookup's is in its list, with the *)
(* whole answer still ahead.                                                *)
HandInv(t) ==
    /\ stage[t] \in OwnStages =>
           /\ node[t] \in Nodes /\ node[t] \in live
           /\ \A b \in Buckets : node[t] \notin ListNodes(b)
    /\ stage[t] = "publish" =>
           cell[node[t]] = [key |-> op[t].key, val |-> op[t].val, next |-> head[Bucket(t)]]
    /\ stage[t] = "node" =>
           /\ node[t] \in ListNodes(Bucket(t))
           /\ Answer(node[t], op[t].key) = Answer(head[Bucket(t)], op[t].key)

Apart ==
    \A t, u \in Threads :
        t # u /\ stage[t] \in OwnStages /\ stage[u] \in OwnStages => node[t] # node[u]

RWInv ==
    /\ MutexInv /\ DataInv /\ ListsInv /\ Apart
    /\ \A t \in Threads : PhaseInv(t) /\ HandInv(t)

(* A thread's node in hand stays as it is when nobody touches it, or the    *)
(* list it goes to or stands in.                                            *)
LEMMA HandKept ==
    ASSUME RWInv, NEW t \in Threads, UNCHANGED <<op[t], stage[t], node[t]>>,
           stage[t] \in OwnStages =>
               /\ node[t] \in live' /\ cell'[node[t]] = cell[node[t]]
               /\ \A b \in Buckets : node[t] \notin ListNodes(b)',
           stage[t] \in {"publish", "node"} =>
               \A b \in Buckets : b = Bucket(t) => SameList(b)
    PROVE  HandInv(t)'
  <1>1. Bucket(t)' = Bucket(t) /\ op'[t] = op[t] /\ stage'[t] = stage[t] /\ node'[t] = node[t]
    BY DEF Bucket
  <1>2. HandInv(t)
    BY DEF RWInv
  <1>3. stage[t] \in OwnStages =>
            /\ node'[t] \in Nodes /\ node'[t] \in live'
            /\ \A b \in Buckets : node'[t] \notin ListNodes(b)'
    BY <1>1, <1>2 DEF HandInv
  <1>4. ASSUME stage[t] \in {"publish", "node"}
        PROVE  \E b \in Buckets : b = Bucket(t) /\ SameList(b)
    <2>1. Bucket(t) \in Buckets
      BY <1>4, BucketExists DEF RWInv
    <2>2. QED
      BY <1>4, <2>1
  <1>5. CASE stage[t] = "publish"
    <2>1. PICK b \in Buckets : b = Bucket(t) /\ SameList(b)
      BY <1>4, <1>5
    <2>2. head'[b] = head[b] /\ cell'[node[t]] = cell[node[t]]
      BY <1>5, <2>1 DEF SameList, OwnStages
    <2>3. cell'[node'[t]] =
              [key |-> op'[t].key, val |-> op'[t].val, next |-> head'[Bucket(t)']]
      BY <1>1, <1>2, <1>5, <2>1, <2>2 DEF HandInv
    <2>4. QED
      BY <1>1, <1>3, <1>5, <2>3 DEF HandInv
  <1>6. CASE stage[t] = "node"
    <2>1. PICK b \in Buckets : b = Bucket(t) /\ SameList(b)
      BY <1>4, <1>6
    <2>2. PICK n, p, k : n = node[t] /\ p = head[b] /\ k = op[t].key
      OBVIOUS
    <2>3. n \in ListNodes(b) /\ Answer(n, k) = Answer(p, k)
      BY <1>2, <1>6, <2>1, <2>2 DEF HandInv
    <2>4. p \in ListNodes(b) \union {Nil}
      BY <2>2, ListNodesType DEF RWInv
    <2>5. /\ head'[b] = p /\ ListNodes(b)' = ListNodes(b)
          /\ Answer(n, k)' = Answer(n, k) /\ Answer(p, k)' = Answer(p, k)
      BY <2>1, <2>2, <2>3, <2>4 DEF SameList
    <2>6. /\ Bucket(t)' = b /\ node'[t] = n /\ op'[t].key = k /\ head'[Bucket(t)'] = p
      BY <1>1, <2>1, <2>2, <2>5
    <2>7. node'[t] \in ListNodes(Bucket(t))'
      BY <2>3, <2>5, <2>6
    <2>8. Answer(node[t], op[t].key)' = Answer(head[Bucket(t)], op[t].key)'
      BY <2>3, <2>5, <2>6
    <2>9. QED
      BY <1>1, <1>3, <1>6, <2>7, <2>8 DEF HandInv
  <1>7. QED
    BY <1>1, <1>3, <1>5, <1>6 DEF HandInv

(* Thread t makes a step: the others are where they were, and keep what     *)
(* they have in hand.                                                       *)
LEMMA OthersKept ==
    ASSUME RWInv, MutexInv', DataInv', ListsInv', NEW t \in Threads,
           \A u \in Threads \ {t} :
               /\ UNCHANGED <<op[u], stage[u], node[u], result[u]>>
               /\ stage[u] \in OwnStages =>
                      /\ node[u] \in live' /\ cell'[node[u]] = cell[node[u]]
                      /\ \A b \in Buckets : node[u] \notin ListNodes(b)'
               /\ stage[u] \in {"publish", "node"} =>
                      \A b \in Buckets : b = Bucket(u) => SameList(b)
               /\ stage'[t] \in OwnStages /\ stage[u] \in OwnStages => node'[t] # node[u],
           PhaseInv(t)', HandInv(t)'
    PROVE  RWInv'
  <1>1. ASSUME NEW u \in Threads \ {t} PROVE PhaseInv(u)' /\ HandInv(u)'
    <2>1. UNCHANGED <<op[u], stage[u], node[u], result[u]>>
      OBVIOUS
    <2>2. PhaseInv(u)'
      <3>1. PhaseInv(u)
        BY DEF RWInv
      <3>2. QED
        BY <2>1, <3>1 DEF PhaseInv
    <2>3. HandInv(u)'
      BY <2>1, HandKept
    <2>4. QED
      BY <2>2, <2>3
  <1>2. Apart'
    BY DEF RWInv, Apart
  <1>3. QED
    BY <1>1, <1>2 DEF RWInv

(* A step of thread t on nodes in no list: the lists stay the same, and so  *)
(* do the nodes that the others have in hand.                               *)
LEMMA ListsSame ==
    ASSUME RWInv, MutexInv', DataInv', ListsInv', SameLists, NEW t \in Threads,
           \A u \in Threads \ {t} :
               /\ UNCHANGED <<op[u], stage[u], node[u], result[u]>>
               /\ stage[u] \in OwnStages =>
                      /\ node[u] \in live' /\ cell'[node[u]] = cell[node[u]]
                      /\ stage'[t] \in OwnStages => node'[t] # node[u],
           PhaseInv(t)', HandInv(t)'
    PROVE  RWInv'
  <1>1. \A u \in Threads \ {t} : stage[u] \in OwnStages =>
            \A b \in Buckets : node[u] \notin ListNodes(b)'
    <2>1. \A u \in Threads : stage[u] \in OwnStages => \A b \in Buckets : node[u] \notin ListNodes(b)
      BY DEF RWInv, HandInv
    <2>2. /\ \A b \in Buckets : ListNodes(b)' = ListNodes(b)
          /\ \A u \in Threads \ {t} : UNCHANGED <<stage[u], node[u]>>
      BY DEF SameLists, SameList
    <2>3. QED
      BY <2>1, <2>2
  <1>2. \A b \in Buckets : SameList(b)
    BY DEF SameLists
  <1>3. QED
    BY <1>1, <1>2, OthersKept

(* The steps that leave the heap alone: calling, locking and returning.     *)
LEMMA ControlLists ==
    ASSUME RWInv, MutexInv', DataInv', NEW t \in Threads,
           Call(t) \/ Lock(t) \/ LockShared(t) \/ Unlock(t) \/ UnlockShared(t)
    PROVE  RWInv' /\ SameLists
  <1> USE DEF GoTo, At
  <1>1. ListsInv' /\ SameLists /\ cell' = cell /\ live' = live
    <2>1. UNCHANGED listVars
      BY DEF Call, Lock, LockShared, Unlock, UnlockShared
    <2>2. QED
      BY <2>1, ListsUntouched DEF RWInv, listVars
  <1>2. \A u \in Threads \ {t} : UNCHANGED <<op[u], stage[u], node[u], result[u]>>
    BY DEF Call, Lock, LockShared, Unlock, UnlockShared, Return, RWInv, MutexInv, DataInv, DataOK
  <1>3. stage'[t] \in {"none", "lock", "lock_shared", "allocate", "search", "head"}
    BY DEF Call, Lock, LockShared, Unlock, UnlockShared, Return, RWInv, MutexInv
  <1>4. HandInv(t)'
    BY <1>3 DEF HandInv, OwnStages
  <1>5. PhaseInv(t)'
    <2>1. PhaseInv(t) /\ op \in [Threads -> Ops \union {NoOp}] /\ stage \in [Threads -> Stages]
          /\ result \in [Threads -> Vals \union {Junk, NotFound, TRUE, Pending}]
      BY DEF RWInv, MutexInv, DataInv, DataOK
    <2>2. CASE Call(t)
      <3>1. PICK o \in Ops : /\ op' = [op EXCEPT ![t] = o]
                              /\ stage' = [stage EXCEPT ![t] = IF o.kind = "lookup" THEN "lock_shared"
                                                               ELSE "lock"]
        BY <2>2 DEF Call
      <3>2. o.kind \in {"insert", "remove", "lookup"}
        BY DEF Ops
      <3>3. op'[t] = o /\ stage'[t] = (IF o.kind = "lookup" THEN "lock_shared" ELSE "lock")
        BY <2>1, <3>1
      <3>4. result'[t] = result[t] /\ stage[t] = "none"
        BY <2>2 DEF Call
      <3>5. QED
        BY <2>1, <3>2, <3>3, <3>4 DEF PhaseInv, ReadStages
    <2>3. CASE Lock(t) \/ LockShared(t)
      BY <2>1, <2>3 DEF Lock, LockShared, PhaseInv, ReadStages
    <2>4. CASE Unlock(t) \/ UnlockShared(t)
      BY <2>1, <2>4 DEF Unlock, UnlockShared, Return, PhaseInv, ReadStages
    <2>5. QED
      BY <2>2, <2>3, <2>4
  <1>6. \A u \in Threads \ {t} : stage[u] \in OwnStages =>
            /\ node[u] \in live' /\ cell'[node[u]] = cell[node[u]]
            /\ stage'[t] \in OwnStages => node'[t] # node[u]
    BY <1>1, <1>3 DEF RWInv, HandInv, OwnStages
  <1>7. QED
    BY <1>1, <1>2, <1>4, <1>5, <1>6, ListsSame

(* list::lookup goes on: when it comes to its result, it is the answer that *)
(* the whole list gives (list.hpp:102-110).                                 *)
LEMMA LookupLists ==
    ASSUME RWInv, MutexInv', DataInv', NEW t \in Threads, LoadHead(t) \/ VisitNode(t)
    PROVE  /\ RWInv' /\ SameLists
           /\ \/ result' = result
              \/ result' = [result EXCEPT ![t] = Answer(head[Bucket(t)], op[t].key)]
  <1> USE DEF GoTo, At
  <1>1. ListsInv' /\ SameLists /\ cell' = cell /\ live' = live /\ head' = head /\ op' = op
    <2>1. UNCHANGED listVars /\ op' = op
      BY DEF LoadHead, VisitNode
    <2>2. QED
      BY <2>1, ListsUntouched DEF RWInv, listVars
  <1>2. PICK b \in Buckets, k \in Keys : b = Bucket(t) /\ k = op[t].key /\ b = HashOf[k]
    BY BucketExists DEF RWInv, LoadHead, VisitNode, Bucket
  <1>3. /\ stage \in [Threads -> Stages] /\ node \in [Threads -> Pointers]
        /\ result \in [Threads -> Vals \union {Junk, NotFound, TRUE, Pending}]
        /\ stage[t] \in {"head", "node"} /\ op[t].kind = "lookup" /\ result[t] = Pending
    BY DEF LoadHead, VisitNode, RWInv, MutexInv, DataInv, DataOK, PhaseInv, ReadStages
  <1>4. head[b] \in ListNodes(b) \union {Nil}
    BY ListNodesType DEF RWInv
  <1>5. ASSUME NEW p \in ListNodes(b) \union {Nil}, Visit(t, p),
               Answer(p, k) = Answer(head[b], k)
        PROVE  /\ PhaseInv(t)' /\ HandInv(t)'
               /\ \/ result' = result
                  \/ result' = [result EXCEPT ![t] = Answer(head[b], k)]
    <2>1. CASE p = Nil
      <3>1. /\ stage' = [stage EXCEPT ![t] = "unlock_shared"]
            /\ result' = [result EXCEPT ![t] = NotFound]
        BY <1>5, <2>1 DEF Visit
      <3>2. Answer(head[b], k) = NotFound
        BY <1>5, <2>1, AnswerAtEnd DEF RWInv
      <3>3. result'[t] = NotFound /\ NotFound # Pending /\ stage'[t] = "unlock_shared"
        BY <1>3, <3>1, RWHashTableAssumption
      <3>4. QED
        BY <1>1, <1>3, <3>1, <3>2, <3>3 DEF PhaseInv, HandInv, OwnStages, ReadStages
    <2>2. CASE p # Nil
      <3>1. /\ stage'[t] = "node" /\ node'[t] = p /\ result' = result
        BY <1>3, <1>5, <2>2 DEF Visit
      <3>2. PhaseInv(t)'
        BY <1>1, <1>3, <3>1 DEF PhaseInv, ReadStages
      <3>3. /\ ListNodes(b)' = ListNodes(b) /\ Answer(p, k)' = Answer(p, k)
            /\ Answer(head[b], k) = Answer(p, k)
        BY <1>1, <1>2, <1>5 DEF SameLists, SameList
      <3>4. PICK q \in ListNodes(b) \union {Nil} : q = head[b]
        BY <1>4
      <3>5. Answer(q, k)' = Answer(q, k)
        BY <1>1, <3>4 DEF SameLists, SameList
      <3>6. Bucket(t)' = b /\ op'[t].key = k /\ head'[b] = q
        BY <1>1, <1>2, <3>4 DEF Bucket
      <3>7. node'[t] \in ListNodes(Bucket(t))'
        BY <1>5, <2>2, <3>1, <3>3, <3>6
      <3>8. Answer(node[t], op[t].key)' = Answer(head[Bucket(t)], op[t].key)'
        BY <3>1, <3>3, <3>4, <3>5, <3>6
      <3>9. HandInv(t)'
        BY <3>1, <3>7, <3>8 DEF HandInv, OwnStages
      <3>10. QED
        BY <3>1, <3>2, <3>9
    <2>3. QED
      BY <2>1, <2>2
  <1>6. /\ PhaseInv(t)' /\ HandInv(t)'
        /\ \/ result' = result
           \/ result' = [result EXCEPT ![t] = Answer(head[b], k)]
    <2>1. CASE LoadHead(t)
      <3>1. Visit(t, head[b])
        BY <1>2, <2>1 DEF LoadHead
      <3>2. QED
        BY <1>4, <1>5, <3>1
    <2>2. CASE VisitNode(t)
      <3>1. PICK n \in ListNodes(b) : n = node[t]
        BY <1>2, <2>2 DEF VisitNode, RWInv, HandInv
      <3>2. Answer(n, k) = Answer(head[b], k)
        BY <1>2, <2>2, <3>1 DEF VisitNode, RWInv, HandInv
      <3>3. /\ Answer(n, k) = IF cell[n].key = k THEN cell[n].val ELSE Answer(cell[n].next, k)
            /\ cell[n].next \in ListNodes(b) \union {Nil} /\ cell[n].val \in Vals
        BY AnswerFromNode, ListNodesType DEF RWInv, ListsInv, ListInv
      <3>4. CASE cell[n].key = k
        <4>1. /\ result' = [result EXCEPT ![t] = Answer(head[b], k)]
              /\ result'[t] \in Vals /\ stage'[t] = "unlock_shared"
          BY <1>2, <1>3, <2>2, <3>1, <3>2, <3>3, <3>4 DEF VisitNode
        <4>2. result'[t] # Pending
          BY <4>1, RWHashTableAssumption
        <4>3. QED
          BY <1>1, <1>3, <4>1, <4>2 DEF PhaseInv, HandInv, OwnStages, ReadStages
      <3>5. CASE cell[n].key # k
        <4>1. Visit(t, cell[n].next)
          BY <1>2, <2>2, <3>1, <3>5 DEF VisitNode
        <4>2. Answer(cell[n].next, k) = Answer(head[b], k)
          BY <3>2, <3>3, <3>5
        <4>3. QED
          BY <1>5, <3>3, <4>1, <4>2
      <3>6. QED
        BY <3>4, <3>5
    <2>3. QED
      BY <2>1, <2>2
  <1>7. /\ \A u \in Threads \ {t} : UNCHANGED <<op[u], stage[u], node[u], result[u]>>
        /\ stage'[t] \notin OwnStages
    <2>1. \A u \in Threads \ {t} : UNCHANGED <<op[u], stage[u], node[u], result[u]>>
      BY <1>1, <1>3 DEF LoadHead, VisitNode, Visit
    <2>2. stage'[t] \in {"node", "unlock_shared"}
      BY <1>3 DEF LoadHead, VisitNode, Visit
    <2>3. QED
      BY <2>1, <2>2 DEF OwnStages
  <1>8. \A u \in Threads \ {t} : stage[u] \in OwnStages =>
            node[u] \in live' /\ cell'[node[u]] = cell[node[u]]
    BY <1>1 DEF RWInv, HandInv
  <1>9. RWInv'
    BY <1>1, <1>6, <1>7, <1>8, ListsSame
  <1>10. QED
    BY <1>1, <1>2, <1>6, <1>9

(* insert fills a node in that no list and no other thread has              *)
(* (list.hpp:72-77).                                                        *)
LEMMA AllocateLists ==
    ASSUME RWInv, MutexInv', DataInv', NEW t \in Threads, Allocate(t)
    PROVE  RWInv' /\ SameLists
  <1> USE DEF GoTo, At
  <1>1. PICK b \in Buckets, k \in Keys : b = Bucket(t) /\ k = op[t].key
    BY BucketExists DEF RWInv, Allocate
  <1>2. /\ op' = op /\ result' = result /\ stage'[t] = "publish"
        /\ op[t].kind = "insert" /\ op[t].val \in Vals /\ result[t] = Pending
    BY DEF Allocate, RWInv, PhaseInv, MutexInv, HoldsInv, Ops
  <1>3. PICK n \in Nodes \ live, v \in Vals, p \in Pointers :
            v = op[t].val /\ p = head[b] /\ NewNode(n, k, v, p) /\ node' = [node EXCEPT ![t] = n]
    <2>1. head[b] \in Pointers
      BY DEF RWInv, ListsInv, ListTypeOK
    <2>2. QED
      BY <1>1, <1>2, <2>1 DEF Allocate, NewNode
  <1>4. /\ ListsInv' /\ SameLists
        /\ \A c \in Buckets : n \notin ListNodes(c)
        /\ \A m \in Nodes \ {n} : cell'[m] = cell[m]
        /\ cell'[n] = [key |-> k, val |-> v, next |-> p]
    <2>1. ListsInv
      BY DEF RWInv
    <2>2. NewNode(n, k, v, p)
      BY <1>3
    <2>3. QED
      BY <2>1, <2>2, ListsAllocate
  <1>5. live' = live \union {n} /\ head' = head /\ node'[t] = n
    BY <1>3 DEF NewNode, RWInv, DataInv, DataOK
  <1>6. PhaseInv(t)'
    BY <1>2 DEF PhaseInv, ReadStages
  <1>7. HandInv(t)'
    <2>1. \A c \in Buckets : n \notin ListNodes(c)'
      BY <1>4 DEF SameLists, SameList
    <2>2. cell'[n] = [key |-> op[t].key, val |-> op[t].val, next |-> head'[Bucket(t)]]
          /\ Bucket(t)' = Bucket(t)
      BY <1>1, <1>2, <1>3, <1>4, <1>5 DEF Bucket
    <2>3. QED
      BY <1>2, <1>5, <2>1, <2>2 DEF HandInv, OwnStages
  <1>8. \A u \in Threads \ {t} :
            /\ UNCHANGED <<op[u], stage[u], node[u], result[u]>>
            /\ stage[u] \in OwnStages =>
                   /\ node[u] \in live' /\ cell'[node[u]] = cell[node[u]]
                   /\ stage'[t] \in OwnStages => node'[t] # node[u]
    <2>1. \A u \in Threads \ {t} : UNCHANGED <<op[u], stage[u], node[u], result[u]>>
      BY <1>2, <1>3 DEF Allocate, RWInv, MutexInv, DataInv, DataOK
    <2>2. \A u \in Threads : stage[u] \in OwnStages => node[u] \in Nodes /\ node[u] \in live
      BY DEF RWInv, HandInv
    <2>3. QED
      BY <1>4, <1>5, <2>1, <2>2
  <1>9. QED
    BY <1>4, <1>6, <1>7, <1>8, ListsSame

(* Whoever has a node for bucket b in hand is not in bucket b while another *)
(* thread writes there.                                                     *)
LEMMA OthersElsewhere ==
    ASSUME RWInv, NEW t \in Threads, stage[t] \in WriteStages, NEW u \in Threads \ {t},
           stage[u] \in WriteStages \union ReadStages
    PROVE  Bucket(u) # Bucket(t)
  BY WritersAreAloneNow DEF RWInv, WritersAreAlone

(* The node goes in front of its list, and its value in front of its key's  *)
(* (list.hpp:78).                                                           *)
LEMMA PublishLists ==
    ASSUME RWInv, MutexInv', DataInv', NEW t \in Threads, PublishNode(t)
    PROVE  /\ RWInv'
           /\ \A k \in Keys : Stack(k)' = IF k = op[t].key THEN <<op[t].val>> \o Stack(k)
                                         ELSE Stack(k)
  <1> USE DEF GoTo, At
  <1>1. PICK b \in Buckets, k \in Keys : b = Bucket(t) /\ k = op[t].key /\ HashOf[k] = b
    BY BucketExists DEF RWInv, PublishNode, Bucket
  <1>2. /\ op' = op /\ node' = node /\ stage'[t] = "unlock" /\ stage[t] = "publish"
        /\ op[t].kind = "insert" /\ op[t].val \in Vals /\ result'[t] = TRUE
    BY DEF PublishNode, RWInv, PhaseInv, MutexInv, HoldsInv, Ops, DataInv, DataOK
  <1>3. PICK n \in Nodes : n = node[t] /\ n \in live /\ (\A c \in Buckets : n \notin ListNodes(c))
                           /\ cell[n] = [key |-> op[t].key, val |-> op[t].val, next |-> head[b]]
    BY <1>1, <1>2 DEF RWInv, HandInv, OwnStages
  <1>4. Publish(n, b)
    BY <1>1, <1>3 DEF PublishNode
  <1>5. /\ ListsInv' /\ cell' = cell /\ live' = live
        /\ head'[b] = n /\ ListNodes(b)' = {n} \union ListNodes(b)
        /\ \A c \in Buckets \ {b} : SameList(c)
        /\ \A j \in Keys : Stack(j)' = IF j = cell[n].key THEN <<cell[n].val>> \o Stack(j)
                                      ELSE Stack(j)
    <2>1. /\ cell[n].key \in Keys /\ cell[n].val \in Vals /\ HashOf[cell[n].key] = b
          /\ cell[n].next = head[b]
      BY <1>1, <1>2, <1>3
    <2>2. ListsInv
      BY DEF RWInv
    <2>3. QED
      BY <1>3, <1>4, <2>1, <2>2, ListsPublish
  <1>6. PhaseInv(t)' /\ HandInv(t)'
    BY <1>2, RWHashTableAssumption DEF PhaseInv, HandInv, OwnStages, ReadStages
  <1>7. ASSUME NEW u \in Threads \ {t}
        PROVE  /\ UNCHANGED <<op[u], stage[u], node[u], result[u]>>
               /\ stage[u] \in OwnStages =>
                      /\ node[u] \in live' /\ cell'[node[u]] = cell[node[u]]
                      /\ \A c \in Buckets : node[u] \notin ListNodes(c)'
               /\ stage[u] \in {"publish", "node"} =>
                      \A c \in Buckets : c = Bucket(u) => SameList(c)
               /\ stage'[t] \in OwnStages /\ stage[u] \in OwnStages => node'[t] # node[u]
    <2>1. UNCHANGED <<op[u], stage[u], node[u], result[u]>>
      BY <1>2 DEF PublishNode, RWInv, MutexInv, DataInv, DataOK
    <2>2. ASSUME stage[u] \in OwnStages
          PROVE  /\ node[u] \in live' /\ cell'[node[u]] = cell[node[u]]
                 /\ \A c \in Buckets : node[u] \notin ListNodes(c)'
      <3>1. node[u] # n /\ node[u] \in live /\ \A c \in Buckets : node[u] \notin ListNodes(c)
        BY <1>2, <1>3, <2>2 DEF RWInv, Apart, HandInv, OwnStages
      <3>2. QED
        BY <1>5, <3>1 DEF SameList
    <2>3. stage[u] \in {"publish", "node"} => Bucket(u) # b
      BY <1>1, <1>2, OthersElsewhere DEF WriteStages, ReadStages
    <2>4. stage'[t] \notin OwnStages
      BY <1>2 DEF OwnStages
    <2>5. QED
      BY <1>5, <2>1, <2>2, <2>3, <2>4
  <1>8. RWInv'
    BY <1>5, <1>6, <1>7, OthersKept
  <1>9. \A j \in Keys : Stack(j)' = IF j = op[t].key THEN <<op[t].val>> \o Stack(j) ELSE Stack(j)
    <2>1. cell[n].key = op[t].key /\ cell[n].val = op[t].val
      BY <1>3
    <2>2. QED
      BY <1>5, <2>1
  <1>10. QED
    BY <1>8, <1>9

(* remove takes the first node with its key out of the list, or finds none  *)
(* (list.hpp:84-98).                                                        *)
LEMMA UnlinkLists ==
    ASSUME RWInv, MutexInv', DataInv', NEW t \in Threads, UnlinkNode(t)
    PROVE  /\ RWInv'
           /\ \/ SameLists /\ result' = result
              \/ /\ Stack(op[t].key) # <<>>
                 /\ \A k \in Keys : Stack(k)' = IF k = op[t].key THEN Tail(Stack(k)) ELSE Stack(k)
                 /\ result' = [result EXCEPT ![t] = TRUE]
  <1> USE DEF GoTo, At
  <1>1. PICK b \in Buckets, k \in Keys : b = Bucket(t) /\ k = op[t].key /\ b = HashOf[k]
    BY BucketExists DEF RWInv, UnlinkNode, Bucket
  <1>2. op' = op /\ stage[t] = "search" /\ op[t].kind = "remove"
    BY DEF UnlinkNode, RWInv, PhaseInv
  <1>3. CASE Matching(head[b], k) = <<>>
    <2>1. UNCHANGED <<listVars, stage, node, result>>
      BY <1>1, <1>3 DEF UnlinkNode
    <2>2. ListsInv' /\ SameLists /\ cell' = cell /\ live' = live
      BY <2>1, ListsUntouched DEF RWInv, listVars
    <2>3. PhaseInv(t)' /\ HandInv(t)' /\ stage'[t] \notin OwnStages
      <3>1. PhaseInv(t)
        BY DEF RWInv
      <3>2. QED
        BY <1>2, <2>1, <3>1 DEF PhaseInv, HandInv, OwnStages
    <2>4. \A u \in Threads \ {t} :
              /\ UNCHANGED <<op[u], stage[u], node[u], result[u]>>
              /\ stage[u] \in OwnStages => node[u] \in live' /\ cell'[node[u]] = cell[node[u]]
      BY <1>2, <2>1, <2>2 DEF RWInv, HandInv
    <2>5. RWInv'
      BY <2>2, <2>3, <2>4, ListsSame
    <2>6. QED
      BY <2>1, <2>2, <2>5
  <1>4. CASE Matching(head[b], k) # <<>>
    <2>1. /\ stage' = [stage EXCEPT ![t] = "free"] /\ result' = [result EXCEPT ![t] = TRUE]
          /\ \E n \in Nodes : /\ n = Head(Matching(head[b], k))
                              /\ Unlink(n, b) /\ node' = [node EXCEPT ![t] = n]
      BY <1>1, <1>4 DEF UnlinkNode
    <2>2. PICK n \in Nodes : /\ n = Head(Matching(head[b], k))
                             /\ Unlink(n, b) /\ node' = [node EXCEPT ![t] = n]
      BY <2>1
    <2>3. /\ ListsInv' /\ live' = live
          /\ n \in ListNodes(b) /\ cell[n].key = k
          /\ ListNodes(b)' = ListNodes(b) \ {n}
          /\ \A c \in Buckets \ {b} : SameList(c)
          /\ Stack(k) # <<>> /\ Stack(k)' = Tail(Stack(k))
          /\ \A j \in Keys \ {k} : Stack(j)' = Stack(j)
          /\ \A m \in Nodes \ ListNodes(b) : cell'[m] = cell[m]
      <3>1. ListsInv
        BY DEF RWInv
      <3>2. b = HashOf[k] /\ n = Head(Matching(head[b], k)) /\ Unlink(n, b)
        BY <1>1, <2>2
      <3>3. QED
        BY <1>4, <3>1, <3>2, ListsUnlink
    <2>4. stage'[t] = "free" /\ result'[t] = TRUE /\ node'[t] = n
      BY <2>1, <2>2 DEF RWInv, MutexInv, DataInv, DataOK
    <2>5. \A c \in Buckets : n \notin ListNodes(c)' /\ ListNodes(c)' \subseteq ListNodes(c)
      BY <2>3, ListsAreDisjoint DEF RWInv, SameList
    <2>6. n \in live
      BY <2>3 DEF RWInv, ListsInv, ListInv
    <2>7. PhaseInv(t)' /\ HandInv(t)'
      BY <1>2, <2>3, <2>4, <2>5, <2>6, RWHashTableAssumption DEF PhaseInv, HandInv, OwnStages, ReadStages
    <2>8. ASSUME NEW u \in Threads \ {t}
          PROVE  /\ UNCHANGED <<op[u], stage[u], node[u], result[u]>>
                 /\ stage[u] \in OwnStages =>
                        /\ node[u] \in live' /\ cell'[node[u]] = cell[node[u]]
                        /\ \A c \in Buckets : node[u] \notin ListNodes(c)'
                 /\ stage[u] \in {"publish", "node"} =>
                        \A c \in Buckets : c = Bucket(u) => SameList(c)
                 /\ stage'[t] \in OwnStages /\ stage[u] \in OwnStages => node'[t] # node[u]
      <3>1. UNCHANGED <<op[u], stage[u], node[u], result[u]>>
        BY <1>2, <2>1, <2>2 DEF RWInv, MutexInv, DataInv, DataOK
      <3>2. stage[u] \in OwnStages =>
                /\ node[u] \in Nodes /\ node[u] \in live
                /\ \A c \in Buckets : node[u] \notin ListNodes(c)
        BY DEF RWInv, HandInv
      <3>3. stage[u] \in {"publish", "node"} => Bucket(u) # b
        BY <1>1, <1>2, OthersElsewhere DEF WriteStages, ReadStages
      <3>4. QED
        BY <2>3, <2>4, <2>5, <3>1, <3>2, <3>3
    <2>9. RWInv'
      BY <2>3, <2>7, <2>8, OthersKept
    <2>10. QED
      BY <1>1, <2>1, <2>3, <2>9
  <1>5. QED
    BY <1>3, <1>4

(* remove deletes the node, which nobody else can have (list.hpp:99).       *)
LEMMA FreeLists ==
    ASSUME RWInv, MutexInv', DataInv', NEW t \in Threads, FreeNode(t)
    PROVE  RWInv' /\ SameLists
  <1> USE DEF GoTo, At
  <1>1. /\ op' = op /\ node' = node /\ result' = result /\ stage'[t] = "unlock"
        /\ stage[t] = "free" /\ op[t].kind = "remove" /\ result[t] # Pending
    BY DEF FreeNode, RWInv, MutexInv, PhaseInv
  <1>2. PICK n \in Nodes : n = node[t] /\ Free(n) /\ \A c \in Buckets : n \notin ListNodes(c)
    BY <1>1 DEF FreeNode, RWInv, HandInv, OwnStages
  <1>3. /\ ListsInv' /\ SameLists /\ live' = live \ {n}
        /\ \A m \in Nodes \ {n} : cell'[m] = cell[m]
    BY <1>2, ListsFree DEF RWInv, Free
  <1>4. PhaseInv(t)' /\ HandInv(t)' /\ stage'[t] \notin OwnStages
    BY <1>1 DEF PhaseInv, HandInv, OwnStages, ReadStages
  <1>5. \A u \in Threads \ {t} :
            /\ UNCHANGED <<op[u], stage[u], node[u], result[u]>>
            /\ stage[u] \in OwnStages => node[u] \in live' /\ cell'[node[u]] = cell[node[u]]
    <2>1. \A u \in Threads \ {t} : UNCHANGED <<op[u], stage[u], node[u], result[u]>>
      BY <1>1 DEF FreeNode, RWInv, MutexInv
    <2>2. \A u \in Threads \ {t} : stage[u] \in OwnStages =>
              node[u] \in Nodes /\ node[u] \in live /\ node[u] # n
      BY <1>1, <1>2 DEF RWInv, HandInv, Apart, OwnStages
    <2>3. QED
      BY <1>3, <2>1, <2>2
  <1>6. QED
    BY <1>3, <1>4, <1>5, ListsSame

(* No thread has a node, and no list has one, at first. *)
LEMMA RWInit == Init => RWInv
  <1> SUFFICES ASSUME Init PROVE RWInv
    OBVIOUS
  <1>1. ListsInv
    BY ListsInit DEF Init
  <1>2. \A t \in Threads : PhaseInv(t) /\ HandInv(t)
    BY RWHashTableAssumption DEF Init, PhaseInv, HandInv, OwnStages, ReadStages
  <1>3. QED
    BY <1>1, <1>2, MutexInit, DataInit DEF Init, RWInv, Apart, OwnStages

(* Every step keeps the invariant. *)
LEMMA RWStep == RWInv /\ [Next]_vars => RWInv'
  <1> SUFFICES ASSUME RWInv, [Next]_vars PROVE RWInv'
    OBVIOUS
  <1>1. MutexInv' /\ DataInv'
    BY MutexStep, DataStep DEF RWInv
  <1>2. CASE UNCHANGED vars
    <2>1. ListsInv' /\ SameLists /\ UNCHANGED <<cell, live, op, stage, node, result>>
      BY <1>2, ListsUntouched DEF RWInv, vars, listVars, callVars
    <2>2. \A t \in Threads : PhaseInv(t)' /\ HandInv(t)'
      <3>1. ASSUME NEW t \in Threads PROVE HandInv(t)'
        <4>1. stage[t] \in OwnStages =>
                  /\ node[t] \in live' /\ cell'[node[t]] = cell[node[t]]
                  /\ \A b \in Buckets : node[t] \notin ListNodes(b)'
          BY <2>1 DEF RWInv, HandInv, SameLists, SameList
        <4>2. QED
          BY <2>1, <4>1, HandKept DEF SameLists
      <3>2. QED
        BY <2>1, <3>1 DEF RWInv, PhaseInv
    <2>3. QED
      BY <1>1, <2>1, <2>2 DEF RWInv, Apart
  <1>3. ASSUME NEW t \in Threads, Call(t) \/ Continue(t) PROVE RWInv'
    BY <1>1, <1>3, ControlLists, LookupLists, AllocateLists, PublishLists, UnlinkLists, FreeLists
       DEF Continue
  <1>4. QED
    BY <1>2, <1>3 DEF Next

(* The lists, and what every thread has in hand, are right in every state. *)
LEMMA RWInvariant == Spec => []RWInv
  BY RWInit, RWStep, PTL DEF Spec

(* No lookup stands on a node that has been freed, or taken out of its list *)
(* (rwht.hpp:71-72, 82-83, list.hpp:82-106).                                *)
THEOREM LookupsAreSafe == Spec => []LookupsVisitLiveNodes
  <1>1. RWInv => LookupsVisitLiveNodes
    <2> SUFFICES ASSUME RWInv, NEW t \in Threads, stage[t] = "node"
                 PROVE  node[t] \in live /\ node[t] \in ListNodes(Bucket(t))
      BY DEF LookupsVisitLiveNodes
    <2>1. Bucket(t) \in Buckets
      BY BucketExists DEF RWInv
    <2>2. node[t] \in ListNodes(Bucket(t))
      BY DEF RWInv, HandInv
    <2>3. QED
      BY <2>1, <2>2 DEF RWInv, ListsInv, ListInv
  <1>2. QED
    BY <1>1, RWInvariant, PTL

-----------------------------------------------------------------------------
(* Linearizability.                                                        *)

(* The table stays as it is when the lists do. *)
LEMMA SameTable ==
    ASSUME SameLists
    PROVE  tableBar' = tableBar
  <1>1. \A k \in Keys : Stack(k)' = Stack(k)
    BY ListAssumption DEF SameLists, SameList
  <1>2. QED
    BY <1>1 DEF tableBar

(* The newest value of a key is what its bucket's list answers. *)
LEMMA NewestIsAnswer ==
    ASSUME RWInv, NEW k \in Keys
    PROVE  Table!Newest(k) = Answer(head[HashOf[k]], k)
  BY AnswerIsNewest DEF RWInv, Table!Newest, tableBar

(* An operation takes effect when it writes the list, a lookup when it      *)
(* comes to its result: every step is one of HashTable, or none.            *)
LEMMA TableStep == RWInv /\ [Next]_vars => [Table!Next]_Table!vars
  <1> SUFFICES ASSUME RWInv, [Next]_vars PROVE [Table!Next]_Table!vars
    OBVIOUS
  <1> USE DEF GoTo, At
  <1>1. MutexInv' /\ DataInv'
    BY MutexStep, DataStep DEF RWInv
  <1>2. CASE UNCHANGED vars
    <2>1. SameLists /\ op' = op /\ result' = result
      BY <1>2, ListsUntouched DEF RWInv, vars, listVars, callVars
    <2>2. QED
      BY <2>1, SameTable DEF Table!vars
  <1>3. ASSUME NEW t \in Threads, Call(t) PROVE Table!Next
    <2>1. SameLists
      BY <1>1, <1>3, ControlLists
    <2>2. op[t] = NoOp /\ result' = result /\ \E o \in Ops : op' = [op EXCEPT ![t] = o]
      BY <1>3 DEF Call, RWInv, PhaseInv
    <2>3. Table!Invoke(t)
      BY <2>1, <2>2, SameTable DEF Table!Invoke, Table!NoOp, Table!Ops, NoOp, Ops
    <2>4. QED
      BY <2>3 DEF Table!Next
  <1>4. ASSUME NEW t \in Threads, Lock(t) \/ LockShared(t) \/ Allocate(t) \/ FreeNode(t)
        PROVE  UNCHANGED Table!vars
    <2>1. SameLists
      BY <1>1, <1>4, ControlLists, AllocateLists, FreeLists
    <2>2. op' = op /\ result' = result
      BY <1>4 DEF Lock, LockShared, Allocate, FreeNode
    <2>3. QED
      BY <2>1, <2>2, SameTable DEF Table!vars
  <1>5. ASSUME NEW t \in Threads, Unlock(t) \/ UnlockShared(t) PROVE Table!Next
    <2>1. SameLists
      BY <1>1, <1>5, ControlLists
    <2>2. /\ op[t] \in Ops /\ result[t] # Pending
          /\ op' = [op EXCEPT ![t] = NoOp] /\ result' = [result EXCEPT ![t] = Pending]
      BY <1>5 DEF Unlock, UnlockShared, Return, RWInv, PhaseInv, MutexInv, HoldsInv
    <2>3. op[t] # NoOp
      BY <2>2 DEF Ops, NoOp
    <2>4. Table!Return(t)
      BY <2>1, <2>2, <2>3, SameTable DEF Table!Return, Table!NoOp, NoOp
    <2>5. QED
      BY <2>4 DEF Table!Next
  <1>6. ASSUME NEW t \in Threads, PublishNode(t) PROVE Table!Next
    <2>1. PICK k \in Keys : k = op[t].key
      BY <1>6, BucketExists DEF RWInv, PublishNode
    <2>2. \A j \in Keys : Stack(j)' = IF j = k THEN <<op[t].val>> \o Stack(j) ELSE Stack(j)
      BY <1>1, <1>6, <2>1, PublishLists
    <2>3. /\ op[t].kind = "insert" /\ result[t] = Pending
          /\ op' = op /\ result' = [result EXCEPT ![t] = TRUE]
      BY <1>6 DEF PublishNode, RWInv, PhaseInv
    <2>4. tableBar' = [tableBar EXCEPT ![k] = <<op[t].val>> \o @]
      BY <2>2 DEF tableBar
    <2>5. Table!Insert(t)
      BY <2>1, <2>3, <2>4 DEF Table!Insert
    <2>6. QED
      BY <2>5 DEF Table!Next
  <1>7. ASSUME NEW t \in Threads, UnlinkNode(t) PROVE [Table!Next]_Table!vars
    <2>1. PICK k \in Keys : k = op[t].key
      BY <1>7, BucketExists DEF RWInv, UnlinkNode
    <2>2. op[t].kind = "remove" /\ result[t] = Pending /\ op' = op
      BY <1>7 DEF UnlinkNode, RWInv, PhaseInv
    <2>3. CASE SameLists /\ result' = result
      BY <2>2, <2>3, SameTable DEF Table!vars
    <2>4. CASE /\ Stack(op[t].key) # <<>>
               /\ \A j \in Keys : Stack(j)' = IF j = op[t].key THEN Tail(Stack(j)) ELSE Stack(j)
               /\ result' = [result EXCEPT ![t] = TRUE]
      <3>1. tableBar' = [tableBar EXCEPT ![k] = Tail(@)] /\ tableBar[k] # <<>>
        BY <2>1, <2>4 DEF tableBar
      <3>2. Table!Remove(t)
        BY <2>1, <2>2, <2>4, <3>1 DEF Table!Remove
      <3>3. QED
        BY <3>2 DEF Table!Next
    <2>5. QED
      BY <1>1, <1>7, <2>3, <2>4, UnlinkLists
  <1>8. ASSUME NEW t \in Threads, LoadHead(t) \/ VisitNode(t) PROVE [Table!Next]_Table!vars
    <2>1. PICK k \in Keys : k = op[t].key /\ Bucket(t) = HashOf[k]
      BY <1>8, BucketExists DEF RWInv, LoadHead, VisitNode, Bucket
    <2>2. /\ SameLists
          /\ \/ result' = result
             \/ result' = [result EXCEPT ![t] = Answer(head[HashOf[k]], k)]
      BY <1>1, <1>8, <2>1, LookupLists
    <2>3. op' = op /\ op[t].kind = "lookup"
      BY <1>8 DEF LoadHead, VisitNode, RWInv, PhaseInv, ReadStages
    <2>4. CASE result' = result
      BY <2>2, <2>3, <2>4, SameTable DEF Table!vars
    <2>5. CASE result' = [result EXCEPT ![t] = Answer(head[HashOf[k]], k)]
      <3>1. Table!Lookup(t)
        BY <2>1, <2>2, <2>3, <2>5, SameTable, NewestIsAnswer DEF Table!Lookup
      <3>2. QED
        BY <3>1 DEF Table!Next
    <2>6. QED
      BY <2>2, <2>4, <2>5
  <1>9. QED
    BY <1>2, <1>3, <1>4, <1>5, <1>6, <1>7, <1>8 DEF Next, Continue

(* insert, remove and lookup together are linearizable: the table           *)
(* implements HashTable (rwht.hpp:51-89).                                   *)
THEOREM RWTableIsLinearizable == Spec => Linearizable
  <1>1. Init => Table!Init
    <2> SUFFICES ASSUME Init PROVE Table!Init
      OBVIOUS
    <2>1. \A k \in Keys : Stack(k) = <<>>
      BY ListsInit DEF Init
    <2>2. QED
      BY <2>1 DEF Init, Table!Init, Table!NoOp, NoOp, tableBar
  <1>2. QED
    BY <1>1, TableStep, RWInvariant, PTL DEF Spec, Linearizable, Table!Spec
=============================================================================
