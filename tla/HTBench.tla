------------------------------ MODULE HTBench ------------------------------
(***************************************************************************)
(* The hash table bench of test.cc, test_version_lock_ht: threads insert   *)
(* keys and save each in a vector of their own, then threads look up the   *)
(* saved keys and assert what they find, then both at once.                *)
(*                                                                         *)
(* The table is the abstract HashTable, which VLHashTable implements when  *)
(* nothing is removed.  A thread's number selects the vector it reads;     *)
(* main makes vectors 0 .. n_threads, and in the last group numbers        *)
(* readers up to 2 * n_threads - 1.                                        *)
(***************************************************************************)
EXTENDS Integers, Sequences, FiniteSets

CONSTANTS
    Threads, n_threads,       \* 0 .. 2 * n_threads - 1
    LIST_INIT_SIZE, N_NODE_ADD,
    KEY_STRIDE,               \* 1000: from one writer's start_key to the next one's
    Keys, NotFound, Pending

VARIABLES
    table, op, answer,   \* the hash table
    group,               \* which group of threads is running
    keys,                \* the vector of vectors of saved keys
    i,                   \* each thread's loop variable
    failed               \* the thread whose assert has failed, or that has crashed, if any

tableVars == <<table, op, answer>>
htVars == <<tableVars, group, keys, i, failed>>

Table == INSTANCE HashTable WITH Vals <- Keys

(* The key of iteration j, as main and the writers compute it. *)
Key(j, start) == (j + 1) * (j + start)

InitKeys == [j \in 1 .. LIST_INIT_SIZE |-> Key(j - 1, KEY_STRIDE \div 10)]

(* How many of them have key k. *)
Copies(k) == Cardinality({j \in DOMAIN InitKeys : InitKeys[j] = k})

Writer(t) == IF group = "both" THEN t % 2 = 0 ELSE group = "writers" /\ t < n_threads
Reader(t) == IF group = "both" THEN t % 2 = 1 ELSE group = "readers" /\ t < n_threads

start_key(t) == IF group = "both" THEN 10 * KEY_STRIDE * t ELSE KEY_STRIDE * (t + 1)

HasVector(t) == t \in DOMAIN keys

(* How often thread t's loop is executed; a reader without a vector does     *)
(* ReadNoVector once.                                                      *)
Count(t) ==
    CASE Writer(t) -> N_NODE_ADD
      [] Reader(t) -> IF HasVector(t) THEN Len(keys[t]) ELSE 1
      [] OTHER -> 0

HTBenchInit ==
    /\ table = [k \in Keys |-> [j \in 1 .. Copies(k) |-> k]]
    /\ op = [t \in Threads |-> Table!NoOp]
    /\ answer = [t \in Threads |-> Pending]
    /\ group = "writers"
    /\ keys = [j \in 0 .. n_threads |-> IF j = n_threads THEN InitKeys ELSE <<>>]
    /\ i = [t \in Threads |-> 0]
    /\ failed = {}

-----------------------------------------------------------------------------
Iterates(t) == op[t] = Table!NoOp /\ i[t] < Count(t)

(* Mutant of Insertion: the value is not the key. *)
InsertionOfZero(k) == [kind |-> "insert", key |-> k, val |-> 0]

(* insert(key, key) *)
Insertion(k) == [kind |-> "insert", key |-> k, val |-> k]

(* vl_ht_insert *)
CallInsert(t) ==
    /\ Writer(t) /\ Iterates(t)
    /\ Table!Invoke(t) /\ op'[t] = Insertion(Key(i[t], start_key(t)))
    /\ UNCHANGED <<group, keys, i, failed>>

(* vl_ht_lookup *)
CallLookup(t) ==
    /\ Reader(t) /\ HasVector(t) /\ Iterates(t)
    /\ Table!Invoke(t) /\ op'[t] = [kind |-> "lookup", key |-> keys[t][i[t] + 1]]
    /\ UNCHANGED <<group, keys, i, failed>>

(* keys[tid] is past the end: whatever is in memory there is taken for a    *)
(* vector, of no elements or of elements that need not be in the table.     *)
ReadNoVector(t) ==
    /\ Reader(t) /\ ~HasVector(t) /\ Iterates(t)
    /\ i' = [i EXCEPT ![t] = @ + 1]
    /\ failed' \in {{}, {t}}
    /\ UNCHANGED <<tableVars, group, keys>>

InsideCall(t) ==
    /\ answer[t] = Pending /\ (Table!Insert(t) \/ Table!Lookup(t))
    /\ UNCHANGED <<group, keys, i, failed>>

(* The call returns: a new key is saved, a value that was found compared. *)
EndCall(t) ==
    LET o == op[t] IN
    /\ Table!Return(t)
    /\ i' = [i EXCEPT ![t] = @ + 1]
    /\ keys' = IF o.kind = "insert" /\ group = "writers"
               THEN [keys EXCEPT ![t] = Append(@, o.key)] ELSE keys
    /\ failed' = IF o.kind = "lookup" /\ answer[t] # o.key THEN {t} ELSE {}
    /\ UNCHANGED group

(* Mutant of Joined: n_threads joins where 2 * n_threads were started. *)
JoinedFirsts == \A t \in 0 .. n_threads - 1 : op[t] = Table!NoOp /\ i[t] = Count(t)

Joined == \A t \in Threads : op[t] = Table!NoOp /\ i[t] = Count(t)

JoinAndSpawn ==
    /\ group # "done" /\ Joined
    /\ group' = CASE group = "writers" -> "readers" [] group = "readers" -> "both"
                  [] OTHER -> "done"
    /\ i' = [t \in Threads |-> 0]
    /\ UNCHANGED <<tableVars, keys, failed>>

ThreadStep(t) ==
    CallInsert(t) \/ CallLookup(t) \/ ReadNoVector(t) \/ InsideCall(t) \/ EndCall(t)

HTBenchNext == failed = {} /\ ((\E t \in Threads : ThreadStep(t)) \/ JoinAndSpawn)

-----------------------------------------------------------------------------
(* Properties.                                                             *)

(* The nodes of the table: the j-th of key k, for every value k has. *)
HTNodes == UNION {{k} \X DOMAIN table[k] : k \in Keys}

(* get_node_count, as vl_hash_table and the lists compute it. *)
get_node_count == Cardinality(HTNodes)

(* When all threads are joined the table has a node for every insert of the *)
(* groups so far, whichever keys they have in common (test.cc:253, 286).    *)
NodesCounted ==
    Joined => get_node_count = LIST_INIT_SIZE + N_NODE_ADD *
        (IF group \in {"both", "done"} THEN 2 * n_threads ELSE n_threads)

(* The assert of test.cc:201 never fails in a reader that has a vector,      *)
(* while others insert and whoever else fails (test.cc:199-202, 272-282).   *)
SavedKeysAreFound == \A t \in failed : ~HasVector(t)
=============================================================================
