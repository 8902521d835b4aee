---------------------------- MODULE RWHashTable ----------------------------
(***************************************************************************)
(* The hash table of rwht.hpp: chained lists whose buckets have a          *)
(* std::shared_mutex each.  insert and remove hold it exclusively, lookup  *)
(* shared, for as long as their unique_lock or shared_lock object lives:   *)
(* from its declaration to the return.                                     *)
(*                                                                         *)
(* The mutex is the C++ library's.  It is modelled by what the standard    *)
(* says of it, with no preference among those who wait for it.  The clients *)
(* are threads that make finitely many calls, as all those of ycsb.cpp.    *)
(***************************************************************************)
EXTENDS ChainedLists

CONSTANTS
    Threads,
    Nobody,      \* holds no mutex
    Pending,     \* no result yet
    MaxCalls     \* bound: the calls each thread makes

ASSUME RWHashTableAssumption ==
    /\ Nobody \notin Threads
    /\ MaxCalls \in Nat
    /\ Pending \notin Vals \union {Junk, NotFound, TRUE}

VARIABLES
    owner,     \* the thread that holds each mutex exclusively, or Nobody
    sharers,   \* the threads that hold each mutex shared
    op,        \* the call each thread is in (kind, key, value), or NoOp
    stage,     \* where the thread is in it
    node,      \* the node in hand: new_node, or lookup's and remove's curr
    result,    \* what the call is about to return
    calls,     \* the number of calls each thread has made
    failed     \* remove's assert has failed and abort() has ended the process

lockVars == <<owner, sharers>>
callVars == <<op, stage, node, result>>
vars == <<listVars, lockVars, callVars, calls, failed>>

Ops == [kind : {"insert"}, key : Keys, val : Vals]
           \union [kind : {"remove", "lookup"}, key : Keys]

NoOp == [kind |-> "none"]

WriteStages == {"allocate", "publish", "search", "free", "unlock"}
ReadStages == {"head", "node", "unlock_shared"}
Stages == {"none", "lock", "lock_shared"} \union WriteStages \union ReadStages

RWTypeOK ==
    /\ ListTypeOK
    /\ owner \in [Buckets -> Threads \union {Nobody}]
    /\ sharers \in [Buckets -> SUBSET Threads]
    /\ op \in [Threads -> Ops \union {NoOp}]
    /\ stage \in [Threads -> Stages]
    /\ node \in [Threads -> Pointers]
    /\ result \in [Threads -> Vals \union {Junk, NotFound, TRUE, Pending}]
    /\ calls \in [Threads -> 0 .. MaxCalls]
    /\ failed \in BOOLEAN

Bucket(t) == HashOf[op[t].key]

Init ==
    /\ ListInit
    /\ owner = [b \in Buckets |-> Nobody]
    /\ sharers = [b \in Buckets |-> {}]
    /\ op = [t \in Threads |-> NoOp]
    /\ stage = [t \in Threads |-> "none"]
    /\ node = [t \in Threads |-> Nil]
    /\ result = [t \in Threads |-> Pending]
    /\ calls = [t \in Threads |-> 0]
    /\ failed = FALSE

-----------------------------------------------------------------------------
At(t, s) == ~failed /\ stage[t] = s
GoTo(t, s) == stage' = [stage EXCEPT ![t] = s]

(* Mutant of MayLock: an exclusive lock that does not keep readers out. *)
MayLockWithSharers(b) == owner[b] = Nobody

(* std::shared_mutex::lock returns. *)
MayLock(b) == owner[b] = Nobody /\ sharers[b] = {}

(* Mutant of MayShare: a shared lock that does not keep the writer out. *)
MayShareWithOwner(b) == TRUE

(* std::shared_mutex::lock_shared returns. *)
MayShare(b) == owner[b] = Nobody

(* The call returns value result[t]; its local variables are gone. *)
Return(t) ==
    /\ op' = [op EXCEPT ![t] = NoOp]
    /\ GoTo(t, "none")
    /\ node' = [node EXCEPT ![t] = Nil]
    /\ result' = [result EXCEPT ![t] = Pending]

(* Bound: an insert begins only when there will be a block for its node. *)
MemoryLeft ==
    Cardinality(live) + Cardinality({t \in Threads : op[t].kind = "insert" /\ node[t] = Nil})
        < Cardinality(Nodes)

-----------------------------------------------------------------------------
Call(t) ==
    /\ At(t, "none") /\ calls[t] < MaxCalls
    /\ \E o \in Ops :
           /\ o.kind = "insert" => MemoryLeft
           /\ op' = [op EXCEPT ![t] = o]
           /\ GoTo(t, IF o.kind = "lookup" THEN "lock_shared" ELSE "lock")
    /\ calls' = [calls EXCEPT ![t] = @ + 1]
    /\ UNCHANGED <<listVars, lockVars, node, result, failed>>

(***************************************************************************)
(* insert and remove: the list operation under write_lock.                 *)
(***************************************************************************)
(* Mutant of Lock: read_lock in place of write_lock. *)
LockAsReader(t) ==
    /\ At(t, "lock") /\ MayShare(Bucket(t))
    /\ sharers' = [sharers EXCEPT ![Bucket(t)] = @ \union {t}]
    /\ GoTo(t, IF op[t].kind = "insert" THEN "allocate" ELSE "search")
    /\ UNCHANGED <<listVars, owner, op, node, result, calls, failed>>

(* write_lock w_lock(ht[bkt].lock) *)
Lock(t) ==
    /\ At(t, "lock") /\ MayLock(Bucket(t))
    /\ owner' = [owner EXCEPT ![Bucket(t)] = t]
    /\ GoTo(t, IF op[t].kind = "insert" THEN "allocate" ELSE "search")
    /\ UNCHANGED <<listVars, sharers, op, node, result, calls, failed>>

Allocate(t) ==
    /\ At(t, "allocate")
    /\ \E n \in Nodes :
           /\ NewNode(n, op[t].key, op[t].val, head[Bucket(t)])
           /\ node' = [node EXCEPT ![t] = n]
    /\ GoTo(t, "publish")
    /\ UNCHANGED <<lockVars, op, result, calls, failed>>

PublishNode(t) ==
    /\ At(t, "publish")
    /\ Publish(node[t], Bucket(t))
    /\ result' = [result EXCEPT ![t] = TRUE]
    /\ GoTo(t, "unlock")
    /\ UNCHANGED <<lockVars, op, node, calls, failed>>

(* The search is one step: the lock keeps the list as it is meanwhile. *)
UnlinkNode(t) ==
    LET m == Matching(head[Bucket(t)], op[t].key) IN
    /\ At(t, "search")
    /\ IF m = <<>>
       THEN failed' = TRUE /\ UNCHANGED <<listVars, stage, node, result>>
       ELSE /\ \E n \in Nodes :
                   /\ n = Head(m)
                   /\ Unlink(n, Bucket(t))
                   /\ node' = [node EXCEPT ![t] = n]
            /\ result' = [result EXCEPT ![t] = TRUE]
            /\ GoTo(t, "free")
            /\ UNCHANGED failed
    /\ UNCHANGED <<lockVars, op, calls>>

FreeNode(t) ==
    /\ At(t, "free")
    /\ Free(node[t])
    /\ GoTo(t, "unlock")
    /\ UNCHANGED <<lockVars, op, node, result, calls, failed>>

(* The unique_lock's destructor, and the return. *)
Unlock(t) ==
    /\ At(t, "unlock")
    /\ owner' = [owner EXCEPT ![Bucket(t)] = Nobody]
    /\ Return(t)
    /\ UNCHANGED <<listVars, sharers, calls, failed>>

(***************************************************************************)
(* lookup: list::lookup under read_lock.                                   *)
(***************************************************************************)
LockShared(t) ==
    /\ At(t, "lock_shared") /\ MayShare(Bucket(t))
    /\ sharers' = [sharers EXCEPT ![Bucket(t)] = @ \union {t}]
    /\ GoTo(t, "head")
    /\ UNCHANGED <<listVars, owner, op, node, result, calls, failed>>

(* list::lookup goes to node p, or to its end. *)
Visit(t, p) ==
    /\ node' = [node EXCEPT ![t] = p]
    /\ IF p = Nil
       THEN GoTo(t, "unlock_shared") /\ result' = [result EXCEPT ![t] = NotFound]
       ELSE GoTo(t, "node") /\ UNCHANGED result

LoadHead(t) ==
    /\ At(t, "head")
    /\ Visit(t, head[Bucket(t)])
    /\ UNCHANGED <<listVars, lockVars, op, calls, failed>>

VisitNode(t) ==
    LET c == cell[node[t]] IN
    /\ At(t, "node")
    /\ IF c.key = op[t].key
       THEN /\ result' = [result EXCEPT ![t] = c.val]
            /\ GoTo(t, "unlock_shared")
            /\ UNCHANGED node
       ELSE Visit(t, c.next)
    /\ UNCHANGED <<listVars, lockVars, op, calls, failed>>

(* Mutant of Unshare: only a lookup that finds its key gives the lock back. *)
UnshareIfFound(t) ==
    sharers' = IF result[t] = NotFound THEN sharers
               ELSE [sharers EXCEPT ![Bucket(t)] = @ \ {t}]

Unshare(t) == sharers' = [sharers EXCEPT ![Bucket(t)] = @ \ {t}]

(* The shared_lock's destructor, and the return. *)
UnlockShared(t) ==
    /\ At(t, "unlock_shared")
    /\ Unshare(t)
    /\ Return(t)
    /\ UNCHANGED <<listVars, owner, calls, failed>>

-----------------------------------------------------------------------------
(* What a thread does inside a call, once it has made it. *)
Continue(t) ==
    \/ Lock(t) \/ Allocate(t) \/ PublishNode(t) \/ UnlinkNode(t) \/ FreeNode(t) \/ Unlock(t)
    \/ LockShared(t) \/ LoadHead(t) \/ VisitNode(t) \/ UnlockShared(t)

Next == \E t \in Threads : Call(t) \/ Continue(t)

Spec == Init /\ [][Next]_vars

(* A thread inside a call keeps running, and gets a mutex that stays free   *)
(* for it: nothing more is asked of std::shared_mutex.                      *)
FairSpec == Spec /\ \A t \in Threads : WF_vars(Continue(t))

-----------------------------------------------------------------------------
(* RWHashTable implements HashTable: an operation takes effect when it      *)
(* writes the list, a lookup at the end of its traversal.                   *)
tableBar == [k \in Keys |-> Stack(k)]

Table == INSTANCE HashTable WITH table <- tableBar, answer <- result

(* Properties.                                                             *)

(* insert, remove and lookup together are linearizable (rwht.hpp:51-89).    *)
Linearizable == Table!Spec

(* While a thread is at the list nobody but threads that only read is       *)
(* (rwht.hpp:57, 71, 82).                                                   *)
WritersAreAlone ==
    \A t, u \in Threads :
        /\ stage[t] \in WriteStages
        /\ stage[u] \in WriteStages \union ReadStages
        /\ Bucket(t) = Bucket(u)
        => t = u

(* A traversal never stands on a node that has been freed: here that is the *)
(* lock's doing, where the lookup of vlht.hpp reads on (rwht.hpp:71-72,     *)
(* 82-83, list.hpp:82-106).                                                 *)
LookupsVisitLiveNodes ==
    \A t \in Threads : stage[t] = "node" =>
        node[t] \in live /\ node[t] \in ListNodes(Bucket(t))

(* No mutex stays locked and nobody waits for ever: every call returns, on  *)
(* the paths where the key is not found too, or remove's assert has ended   *)
(* the process (rwht.hpp:51-89).                                            *)
CallsReturn == \A t \in Threads : (op[t] # NoOp) ~> (op[t] = NoOp \/ failed)
=============================================================================
