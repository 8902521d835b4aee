----------------------------- MODULE ListBench -----------------------------
(***************************************************************************)
(* The list bench of test.cc, test_version_lock_list: threads insert into  *)
(* one list under the global lock, others look keys up without it, between *)
(* read_lock_no_wait and read_unlock.  Like the API test it runs writers,  *)
(* then readers, then both.  The value looked up is asserted before        *)
(* read_unlock has said whether the read was undisturbed.                  *)
(*                                                                         *)
(* The list's nodes never change once they are published, so a lookup's    *)
(* loads of one node are one step.  Its load of head->next is not          *)
(* volatile: the optimized build has it before the loop, and again after   *)
(* a read that was refused.                                                *)
(***************************************************************************)
EXTENDS VersionLockTest, ChainedLists

CONSTANTS
    n_threads,
    LIST_INIT_SIZE,
    N_NODE_ADD, N_NODE_ADD_MIXED,   \* a writer's inserts; N_NODE_ADD / 10 with readers
    KEY_STRIDE,                     \* 1000: from one writer's first key to the next one's
    Unloaded                        \* no head->next in a register

(* All inserts of all writers. *)
ListWrites == n_threads * (N_NODE_ADD + N_NODE_ADD_MIXED)

ASSUME ListBenchAssumption ==
    /\ n_threads \in Nat \ {0}
    /\ Threads = 0 .. 2 * n_threads - 1 /\ Firsts = 0 .. n_threads - 1
    /\ Keys \subseteq Nat /\ Vals = Keys /\ \E b \in Buckets : Buckets = {b}
    /\ {LIST_INIT_SIZE, N_NODE_ADD, N_NODE_ADD_MIXED, KEY_STRIDE} \subseteq Nat
    /\ Nodes = 1 .. LIST_INIT_SIZE + ListWrites
    /\ Unloaded \notin Pointers
    /\ 2 * ListWrites < UINT64_MAX - 2

VARIABLES
    group,     \* which group of threads is running
    range,     \* i and its limit, in the loop of each thread
    doing,     \* where each thread is in its iteration
    keys,      \* the vector of keys inserted so far
    node,      \* new_node, or the node a lookup is at
    first,     \* the list head a reader keeps in a register
    refused,   \* read_unlock has returned false to some reader
    unequal    \* the assert of vl_list_lookup has failed

listBenchVars == <<listVars, group, range, doing, keys, node, first, refused, unequal>>
listAllVars == <<lockVars, listBenchVars>>

_list == CHOOSE b \in Buckets : TRUE

ListWriter(g, t) == IF g = "both" THEN t >= n_threads ELSE g = "writers" /\ t < n_threads
ListReader(g, t) == g \in {"readers", "both"} /\ t < n_threads

(* Mutant of KeyShare: rounded up. *)
KeyShareUp(ks) == (Len(ks) + n_threads - 1) \div n_threads

(* The readers' share of the keys, rounded down. *)
KeyShare(ks) == Len(ks) \div n_threads

(* How many nodes a writer of group g inserts. *)
Inserts(g) == IF g = "both" THEN N_NODE_ADD_MIXED ELSE N_NODE_ADD

(* The loops of a group that is started when the keys are ks. *)
Ranges(g, ks) ==
    [t \in Threads |->
        CASE ListWriter(g, t) -> [i |-> 0, end |-> Inserts(g)]
          [] ListReader(g, t) -> [i |-> KeyShare(ks) * t, end |-> KeyShare(ks) * (t + 1)]
          [] OTHER -> [i |-> 0, end |-> 0]]

start_key(g, t) == IF g = "both" THEN 10 * KEY_STRIDE * t ELSE KEY_STRIDE * (t + 1)

(* main inserts the first keys itself, from 100 on. *)
InitKey(j) == KEY_STRIDE \div 10 + j

(* Every key that is inserted is one of Keys. *)
InsertedAreKeys ==
    /\ \A j \in 0 .. LIST_INIT_SIZE - 1 : InitKey(j) \in Keys
    /\ \A g \in Phases, t \in Threads : ListWriter(g, t) =>
           \A j \in 0 .. Inserts(g) - 1 : start_key(g, t) + j \in Keys

ASSUME ListBenchKeys == InsertedAreKeys

(* The key of a writer's iteration, and of a reader's: the readers have     *)
(* copies of the vector as it was when they were started, whose elements    *)
(* are those of the vector.                                                 *)
WriterKey(t) == start_key(group, t) + range[t].i
ReaderKey(t) == keys[range[t].i + 1]

ListBenchTypeOK ==
    /\ ListTypeOK
    /\ group \in Phases
    /\ range \in [Threads -> [i : Nat, end : Nat]]
    /\ \A t \in Threads : ListReader(group, t) => range[t].end <= Len(keys)
    /\ doing \in [Threads -> {"none", "alloc", "publish", "push", "unlock", "release",
                              "head", "walk", "validate"}]
    /\ keys \in Seq(Keys)
    /\ node \in [Threads -> Pointers]
    /\ first \in [Threads -> Pointers \union {Unloaded}]
    /\ refused \in BOOLEAN /\ unequal \in BOOLEAN

ListBenchInit ==
    /\ head = [b \in Buckets |-> IF LIST_INIT_SIZE = 0 THEN Nil ELSE LIST_INIT_SIZE]
    /\ cell = [n \in Nodes |->
                  IF n <= LIST_INIT_SIZE
                  THEN [key |-> InitKey(n - 1), val |-> InitKey(n - 1),
                        next |-> IF n = 1 THEN Nil ELSE n - 1]
                  ELSE [key |-> Junk, val |-> Junk, next |-> Nil]]
    /\ live = 1 .. LIST_INIT_SIZE
    /\ keys = [i \in 1 .. LIST_INIT_SIZE |-> InitKey(i - 1)]
    /\ group = "writers"
    /\ range = Ranges("writers", keys)
    /\ doing = [t \in Threads |-> "none"]
    /\ node = [t \in Threads |-> Nil]
    /\ first = [t \in Threads |-> Unloaded]
    /\ refused = FALSE /\ unequal = FALSE

-----------------------------------------------------------------------------
Does(t, d) == doing[t] = d
Goes(t, d) == doing' = [doing EXCEPT ![t] = d]

(* Thread t is in its loop, and i < count. *)
Iterates(t) == Does(t, "none") /\ range[t].i < range[t].end
NextIteration(t) == range' = [range EXCEPT ![t].i = @ + 1] /\ Goes(t, "none")

(***************************************************************************)
(* vl_list_insert.                                                         *)
(***************************************************************************)
ListBeginWrite(t) ==
    /\ ListWriter(group, t) /\ Iterates(t)
    /\ WriteLock(t, vlock)
    /\ Goes(t, "alloc")
    /\ UNCHANGED <<listVars, group, range, keys, node, first, refused, unequal>>

(* Mutant of MayInsert: the insert before the lock is taken. *)
MayInsertEarly(t) == TRUE

(* write_lock has returned. *)
MayInsert(t) == pc[t] = "writing"

(* list::insert allocates a node, whichever, and loads head->next into it. *)
AllocNode(t) ==
    /\ Does(t, "alloc") /\ MayInsert(t)
    /\ LET n == CHOOSE n \in Nodes : n \notin live IN
       /\ NewNode(n, WriterKey(t), WriterKey(t), head[_list])
       /\ node' = [node EXCEPT ![t] = n]
    /\ Goes(t, "publish")
    /\ UNCHANGED <<lockVars, group, range, keys, first, refused, unequal>>

LinkNode(t) ==
    /\ Does(t, "publish")
    /\ Publish(node[t], _list)
    /\ Goes(t, "push")
    /\ UNCHANGED <<lockVars, group, range, keys, node, first, refused, unequal>>

PushKey(t) ==
    /\ Does(t, "push")
    /\ keys' = Append(keys, WriterKey(t))
    /\ Goes(t, "unlock")
    /\ UNCHANGED <<lockVars, listVars, group, range, node, first, refused, unequal>>

ListEndWrite(t) ==
    /\ Does(t, "unlock")
    /\ WriteUnlock(t)
    /\ IF aborted' THEN UNCHANGED doing ELSE Goes(t, "release")
    /\ UNCHANGED <<listVars, group, range, keys, node, first, refused, unequal>>

(* A step inside a call; the one that ends write_unlock ends the iteration. *)
ListInsideCall(t) ==
    /\ LockStep(t)
    /\ IF pc[t] = "faa" THEN NextIteration(t) ELSE UNCHANGED <<range, doing>>
    /\ UNCHANGED <<listVars, group, keys, node, first, refused, unequal>>

(***************************************************************************)
(* vl_list_lookup.                                                         *)
(***************************************************************************)
(* Load head->next before version, as the optimized build does. *)
LoadFirst(t) ==
    /\ ListReader(group, t) /\ Iterates(t) /\ first[t] = Unloaded
    /\ first' = [first EXCEPT ![t] = head[_list]]
    /\ UNCHANGED <<lockVars, listVars, group, range, doing, keys, node, refused, unequal>>

ListBeginRead(t) ==
    /\ ListReader(group, t) /\ Iterates(t)
    /\ ReadLockNoWait(t, vlock)
    /\ Goes(t, "head")
    /\ UNCHANGED <<listVars, group, range, keys, node, first, refused, unequal>>

StartWalk(t) ==
    /\ Does(t, "head")
    /\ node' = [node EXCEPT ![t] = IF first[t] = Unloaded THEN head[_list] ELSE first[t]]
    /\ Goes(t, "walk")
    /\ UNCHANGED <<lockVars, listVars, group, range, keys, first, refused, unequal>>

(* One node of list::lookup; the end of the list gives UINT64_MAX. *)
WalkNode(t) ==
    LET n == node[t] IN
    /\ Does(t, "walk")
    /\ IF n # Nil /\ cell[n].key # ReaderKey(t)
       THEN node' = [node EXCEPT ![t] = cell[n].next] /\ UNCHANGED <<doing, unequal>>
       ELSE /\ IF n # Nil /\ cell[n].val = ReaderKey(t)
               THEN Goes(t, "validate") /\ UNCHANGED unequal
               ELSE unequal' = TRUE /\ UNCHANGED doing
            /\ UNCHANGED node
    /\ UNCHANGED <<lockVars, listVars, group, range, keys, first, refused>>

(* The next key, or the same again with whatever is at the head now. *)
ListEndRead(t) ==
    /\ Does(t, "validate")
    /\ ReadUnlock(t)
    /\ CASE pc'[t] = "validated" -> NextIteration(t) /\ UNCHANGED <<first, refused>>
         [] pc'[t] = "refused" ->
              /\ Goes(t, "none") /\ refused' = TRUE
              /\ first' = [first EXCEPT ![t] = Unloaded] /\ UNCHANGED range
         [] OTHER -> UNCHANGED <<range, doing, first, refused>>
    /\ UNCHANGED <<listVars, group, keys, node, unequal>>

(***************************************************************************)
(* The main thread.                                                        *)
(***************************************************************************)
ListJoined == \A t \in Threads : Does(t, "none") /\ range[t].i = range[t].end

ListJoinAndSpawn ==
    /\ group # "done" /\ ListJoined
    /\ group' = NextPhase(group)
    /\ range' = Ranges(group', keys)
    /\ first' = [t \in Threads |-> Unloaded]
    /\ UNCHANGED <<lockVars, listVars, doing, keys, node, refused, unequal>>

ListBenchRuns == ~aborted /\ ~unequal

ListThreadStep(t) ==
    \/ ListBeginWrite(t) \/ AllocNode(t) \/ LinkNode(t) \/ PushKey(t) \/ ListEndWrite(t)
    \/ ListInsideCall(t)
    \/ LoadFirst(t) \/ ListBeginRead(t) \/ StartWalk(t) \/ WalkNode(t) \/ ListEndRead(t)

ListBenchNext ==
    ListBenchRuns /\ ((\E t \in Threads : ListThreadStep(t)) \/ ListJoinAndSpawn)

-----------------------------------------------------------------------------
(* Properties.                                                             *)

(* The assert of test.cc:164 holds although it looks at a value that may    *)
(* not be validated: a list that only grows still has every key the readers *)
(* were given.  And readers without writers are never refused.              *)
ListBenchPasses ==
    /\ ListBenchRuns
    /\ group \in {"writers", "readers"} => ~refused

(* No insert and no key is lost (test.cc:136-141, list.hpp:69-80): when all *)
(* threads are joined the list has a node for every element of keys, and    *)
(* those are as many as the loops of the groups so far have iterations.     *)
ListHasAllKeys ==
    ListJoined =>
        LET c == Chain(head[_list])
            times(s, k) == Cardinality({i \in DOMAIN s : s[i] = k})
        IN  /\ \A k \in Keys : times([i \in DOMAIN c |-> cell[c[i]].key], k) = times(keys, k)
            /\ Len(keys) = LIST_INIT_SIZE + n_threads *
                 (CASE group \in {"writers", "readers"} -> N_NODE_ADD
                    [] OTHER -> N_NODE_ADD + N_NODE_ADD_MIXED)
=============================================================================
