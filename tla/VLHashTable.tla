---------------------------- MODULE VLHashTable ----------------------------
(***************************************************************************)
(* The hash table of vlht.hpp: chained lists whose buckets have a version  *)
(* lock each.  insert and remove hold the bucket's lock; lookup traverses  *)
(* the list without it, between read_lock_no_wait and read_unlock, and     *)
(* starts over when read_unlock refuses.                                   *)
(*                                                                         *)
(* The lock's steps are those of VersionLock, the heap's of ChainedLists.  *)
(* A lookup's loads of a node's key, value and next pointer are volatile   *)
(* and stay where the code has them.  Its load of head->next is not: the   *)
(* compiler may take it out of the retry loop, before the load of the      *)
(* version, and the optimized build does.  Both are modelled.              *)
(***************************************************************************)
EXTENDS VersionLock, ChainedLists

CONSTANTS
    Kinds,         \* the operations the clients call
    WriteBound,    \* bound: no write begins on a counter above it
    InLoop,        \* the lookup loads head->next inside its retry loop
    Pending        \* no result yet

ASSUME VLHashTableAssumption ==
    /\ Buckets = Locks
    /\ Kinds \subseteq {"insert", "remove", "lookup"}
    /\ WriteBound \in Nat
    /\ InLoop \notin Pointers
    /\ Pending \notin Vals \union {Junk, NotFound, TRUE}

VARIABLES
    op,       \* the call each thread is in (kind, key, value), or NoOp
    stage,    \* where the thread is in it
    node,     \* the node in hand: new_node, or remove's curr
    first,    \* the list head the lookup has loaded early, or InLoop
    curr,     \* lookup's curr
    result,   \* what the call returns, or will return if it is validated
    failed    \* remove's assert has failed and abort() has ended the process

callVars == <<op, stage, node, first, curr, result, failed>>
vars == <<lockVars, listVars, callVars>>

WriteStages == {"allocate", "publish", "search", "free", "unlock", "release"}
LookupStages == {"load_head", "version", "traverse", "key", "val", "next", "validate"}
Stages == {"none"} \union WriteStages \union LookupStages

Ops == [kind : {"insert"} \intersect Kinds, key : Keys, val : Vals]
           \union [kind : {"remove", "lookup"} \intersect Kinds, key : Keys]

NoOp == [kind |-> "none"]

TableTypeOK ==
    /\ TypeOK
    /\ ListTypeOK
    /\ op \in [Threads -> Ops \union {NoOp}]
    /\ stage \in [Threads -> Stages]
    /\ node \in [Threads -> Pointers]
    /\ first \in [Threads -> Pointers \union {InLoop}]
    /\ curr \in [Threads -> Pointers]
    /\ result \in [Threads -> Vals \union {Junk, NotFound, TRUE, Pending}]
    /\ failed \in BOOLEAN

Bucket(t) == HashOf[op[t].key]

TableInit ==
    /\ Init
    /\ ListInit
    /\ op = [t \in Threads |-> NoOp]
    /\ stage = [t \in Threads |-> "none"]
    /\ node = [t \in Threads |-> Nil]
    /\ first = [t \in Threads |-> InLoop]
    /\ curr = [t \in Threads |-> Nil]
    /\ result = [t \in Threads |-> Pending]
    /\ failed = FALSE

-----------------------------------------------------------------------------
Running == ~aborted /\ ~failed

At(t, s) == Running /\ stage[t] = s
GoTo(t, s) == stage' = [stage EXCEPT ![t] = s]

(* Thread t, outside any call, calls operation o. *)
Invoke(t, o) == At(t, "none") /\ op' = [op EXCEPT ![t] = o]

(* The call returns, and its local variables are gone. *)
Return(t) ==
    /\ op' = [op EXCEPT ![t] = NoOp]
    /\ stage' = [stage EXCEPT ![t] = "none"]
    /\ node' = [node EXCEPT ![t] = Nil]
    /\ first' = [first EXCEPT ![t] = InLoop]
    /\ curr' = [curr EXCEPT ![t] = Nil]
    /\ result' = [result EXCEPT ![t] = Pending]

(* Bound: an insert begins only when there will be a block for its node. *)
MemoryLeft ==
    Cardinality(live) + Cardinality({t \in Threads : stage[t] = "allocate"})
        < Cardinality(Nodes)

(***************************************************************************)
(* insert and remove: write_lock, the list operation, write_unlock.        *)
(***************************************************************************)
BeginWrite(t) ==
    \E o \in Ops :
        /\ o.kind \in {"insert", "remove"}
        /\ version[HashOf[o.key]] <= WriteBound
        /\ o.kind = "insert" => MemoryLeft
        /\ Invoke(t, o)
        /\ WriteLock(t, HashOf[o.key])
        /\ GoTo(t, IF o.kind = "insert" THEN "allocate" ELSE "search")
        /\ UNCHANGED <<listVars, node, first, curr, result, failed>>

(* Mutant of Inside: the list operation does not wait for the lock. *)
Anywhere(t) == TRUE

(* write_lock has returned. *)
Inside(t) == pc[t] = "writing"

Allocate(t) ==
    /\ At(t, "allocate") /\ Inside(t)
    /\ \E n \in Nodes :
           /\ NewNode(n, op[t].key, op[t].val, head[Bucket(t)])
           /\ node' = [node EXCEPT ![t] = n]
    /\ GoTo(t, "publish")
    /\ UNCHANGED <<lockVars, op, first, curr, result, failed>>

PublishNode(t) ==
    /\ At(t, "publish")
    /\ Publish(node[t], Bucket(t))
    /\ result' = [result EXCEPT ![t] = TRUE]
    /\ GoTo(t, "unlock")
    /\ UNCHANGED <<lockVars, op, node, first, curr, failed>>

(* The search is one step: the lock keeps the list as it is meanwhile. *)
UnlinkNode(t) ==
    LET m == Matching(head[Bucket(t)], op[t].key) IN
    /\ At(t, "search") /\ Inside(t)
    /\ IF m = <<>>
       THEN failed' = TRUE /\ UNCHANGED <<listVars, stage, node, result>>
       ELSE /\ \E n \in Nodes :
                   /\ n = Head(m)
                   /\ Unlink(n, Bucket(t))
                   /\ node' = [node EXCEPT ![t] = n]
            /\ result' = [result EXCEPT ![t] = TRUE]
            /\ GoTo(t, "free")
            /\ UNCHANGED failed
    /\ UNCHANGED <<lockVars, op, first, curr>>

FreeNode(t) ==
    /\ At(t, "free")
    /\ Free(node[t])
    /\ GoTo(t, "unlock")
    /\ UNCHANGED <<lockVars, op, node, first, curr, result, failed>>

Unlock(t) ==
    /\ At(t, "unlock")
    /\ WriteUnlock(t)
    /\ IF aborted' THEN UNCHANGED stage ELSE GoTo(t, "release")
    /\ UNCHANGED <<listVars, op, node, first, curr, result, failed>>

(* A step inside a call to the lock; the last one of write_unlock ends the  *)
(* operation.                                                               *)
InsideLock(t) ==
    /\ Running
    /\ LockStep(t)
    /\ IF pc[t] = "faa"
       THEN Return(t)
       ELSE UNCHANGED <<op, stage, node, first, curr, result>>
    /\ UNCHANGED <<listVars, failed>>

(***************************************************************************)
(* lookup.                                                                 *)
(***************************************************************************)
BeginLookup(t) ==
    /\ \E o \in Ops : o.kind = "lookup" /\ Invoke(t, o)
    /\ GoTo(t, "load_head")
    /\ UNCHANGED <<lockVars, listVars, node, first, curr, result, failed>>

(* Before the loop: load head->next here, or leave it to the loop. *)
LoadHead(t) ==
    /\ At(t, "load_head")
    /\ \E p \in {head[Bucket(t)], InLoop} : first' = [first EXCEPT ![t] = p]
    /\ GoTo(t, "version")
    /\ UNCHANGED <<lockVars, listVars, op, node, curr, result, failed>>

(* version = read_lock_no_wait() *)
LoadVersion(t) ==
    /\ At(t, "version")
    /\ ReadLockNoWait(t, Bucket(t))
    /\ GoTo(t, "traverse")
    /\ UNCHANGED <<listVars, op, node, first, curr, result, failed>>

(* list::lookup goes to node p, or to its end. *)
Visit(t, p) ==
    /\ curr' = [curr EXCEPT ![t] = p]
    /\ IF p = Nil
       THEN GoTo(t, "validate") /\ result' = [result EXCEPT ![t] = NotFound]
       ELSE GoTo(t, "key") /\ UNCHANGED result

StartTraversal(t) ==
    /\ At(t, "traverse")
    /\ Visit(t, IF first[t] = InLoop THEN head[Bucket(t)] ELSE first[t])
    /\ UNCHANGED <<lockVars, listVars, op, node, first, failed>>

CompareKey(t) ==
    /\ At(t, "key")
    /\ GoTo(t, IF cell[curr[t]].key = op[t].key THEN "val" ELSE "next")
    /\ UNCHANGED <<lockVars, listVars, op, node, first, curr, result, failed>>

TakeVal(t) ==
    /\ At(t, "val")
    /\ result' = [result EXCEPT ![t] = cell[curr[t]].val]
    /\ GoTo(t, "validate")
    /\ UNCHANGED <<lockVars, listVars, op, node, first, curr, failed>>

Advance(t) ==
    /\ At(t, "next")
    /\ Visit(t, cell[curr[t]].next)
    /\ UNCHANGED <<lockVars, listVars, op, node, first, failed>>

(* read_unlock(version): return the value, start over, or abort. *)
Validate(t) ==
    /\ At(t, "validate")
    /\ ReadUnlock(t)
    /\ CASE pc'[t] = "validated" -> Return(t)
         [] pc'[t] = "refused" ->
              GoTo(t, "version") /\ UNCHANGED <<op, node, first, curr, result>>
         [] OTHER -> UNCHANGED <<op, stage, node, first, curr, result>>
    /\ UNCHANGED <<listVars, failed>>

-----------------------------------------------------------------------------
(* What a thread does inside a call, once it has made it. *)
Continue(t) ==
    \/ Allocate(t) \/ PublishNode(t) \/ UnlinkNode(t) \/ FreeNode(t)
    \/ Unlock(t) \/ InsideLock(t)
    \/ LoadHead(t) \/ LoadVersion(t) \/ StartTraversal(t) \/ CompareKey(t)
    \/ TakeVal(t) \/ Advance(t) \/ Validate(t)

TableNext ==
    \E t \in Threads : BeginWrite(t) \/ BeginLookup(t) \/ Continue(t)

TableSpec == TableInit /\ [][TableNext]_vars

(* The threads are POSIX threads: one that is inside a call keeps running,  *)
(* and every critical section is finite.  Nobody has to make another call.  *)
FairTableSpec == TableSpec /\ \A t \in Threads : WF_vars(Continue(t))

-----------------------------------------------------------------------------
(* Properties.                                                             *)

(* The lists are what the locks are there to protect (vlht.hpp:55-61,       *)
(* 87-93): every bucket's chain ends, no node is in two chains or in the    *)
(* wrong one, and every allocated node is in a chain or in the hands of the *)
(* one thread that is inserting or deleting it.                             *)
ListsIntact ==
    LET inHand == {node[t] : t \in {u \in Threads : stage[u] \in {"publish", "free"}}}
    IN  /\ \A b \in Buckets :
               /\ Chain(head[b]) # <<>> => cell[Chain(head[b])[Len(Chain(head[b]))]].next = Nil
               /\ \A n \in ListNodes(b) : n \in live /\ HashOf[cell[n].key] = b
        /\ live = inHand \union UNION {ListNodes(b) : b \in Buckets}
        /\ \A b \in Buckets : inHand \intersect ListNodes(b) = {}

(* Whoever changes a list holds its bucket's lock and is the only one to    *)
(* change it, until the lock's counter is reset (vlht.hpp:55-61, 87-93).    *)
OneWriterPerList ==
    \A t, u \in Threads :
        /\ stage[t] \in {"publish", "free", "unlock"}
        /\ stage[u] \in {"publish", "free", "unlock"}
        /\ Bucket(t) = Bucket(u) /\ Intact(Bucket(t))
        => t = u

(* Where a thread is in its operation and where it is in the lock agree:    *)
(* the list operations are between write_lock's return and write_unlock,    *)
(* the traversal between read_lock_no_wait and read_unlock, and every call  *)
(* is about the lock of the key's bucket (vlht.hpp:49-95).                  *)
StageInv(t) ==
    /\ stage[t] # "none" => op[t] \in Ops
    /\ stage[t] \in {"none", "load_head", "version"} => Ready(t)
    /\ stage[t] \in {"allocate", "search"} =>
           pc[t] \in {"write_lock", "write_cas", "writing"} /\ at[t] = Bucket(t)
    /\ stage[t] \in {"publish", "free", "unlock"} =>
           pc[t] = "writing" /\ at[t] = Bucket(t)
    /\ stage[t] = "release" => pc[t] \in {"reset", "faa"}
    /\ stage[t] \in {"traverse", "key", "val", "next", "validate"} => pc[t] = "reading"

TableInv ==
    /\ op \in [Threads -> Ops \union {NoOp}]
    /\ stage \in [Threads -> Stages]
    /\ \A t \in Threads : StageInv(t)

Returns(t) == pc[t] = "reading" /\ pc'[t] = "validated"

(* A lookup that found the counter even, and loaded head->next after it, is *)
(* validated only with the answer the list gives at that moment, whatever   *)
(* inserts, removes and reuses of freed nodes it ran into (vlht.hpp:72-78). *)
CleanLookupsAreCurrent ==
    [][\A t \in Threads :
          Returns(t) /\ ~Odd(seen[t]) /\ first[t] = InLoop =>
              result[t] = Answer(head[Bucket(t)], op[t].key)]_vars

(* Every call returns, unless a remove of an absent key ends the process    *)
(* (vlht.hpp:49-95): a lookup starts over only because of writers, of which *)
(* there are finitely many here.                                            *)
CallsReturn ==
    \A t \in Threads : (op[t] # NoOp) ~> (op[t] = NoOp \/ failed)

(* "if both version numbers are equal means no write has happened during    *)
(* the read operation. so read can return successful"                       *)
(* (version_lock.hpp:167-168): a validated lookup returns a value of the    *)
(* table, not what is in a block that has been freed.                       *)
LookupsReturnValues ==
    [][\A t \in Threads : Returns(t) => result[t] # Junk]_vars
=============================================================================
