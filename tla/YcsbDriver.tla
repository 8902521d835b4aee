----------------------------- MODULE YcsbDriver -----------------------------
(***************************************************************************)
(* The benchmark of ycsb.cpp: main chooses a CPU for every thread, then     *)
(* num_thread threads load LOAD_SIZE records into the table, are joined,   *)
(* and as many new threads execute RUN_SIZE transactions.  A thread finds  *)
(* its share by taking a number from next_thread_id.                       *)
(*                                                                         *)
(* The table is the abstract HashTable, which the table modules implement: *)
(* a call of this driver is a call there.  Values are the keys themselves, *)
(* as in the code.  The machine has the CPUs of OS_CPU_ID; sched_setaffinity *)
(* is the kernel's.                                                        *)
(***************************************************************************)
EXTENDS HashTable, Integers, FiniteSets

CONSTANTS
    LOAD_SIZE, RUN_SIZE,
    InitKeys,    \* the keys of the load file
    Txns,        \* the transaction files there may be
    Unset,       \* a thread that has no number yet
    NUM_SOCKET, NUM_PHYSICAL_CPU_PER_SOCKET, SMT_LEVEL

ASSUME YcsbAssumption ==
    /\ LOAD_SIZE \in Nat /\ RUN_SIZE \in Nat
    /\ IsFiniteSet(Threads) /\ Threads # {}
    /\ Vals = Keys /\ InitKeys \in [0 .. LOAD_SIZE - 1 -> Keys]
    /\ Txns \subseteq [0 .. RUN_SIZE - 1 -> [kind : {"insert", "lookup"}, key : Keys]]
    /\ Unset \notin Int /\ Pending \notin Vals \union {TRUE, NotFound}
    /\ {NUM_SOCKET, NUM_PHYSICAL_CPU_PER_SOCKET, SMT_LEVEL} \subseteq Nat \ {0}
    /\ Cardinality(Threads) <= NUM_SOCKET * NUM_PHYSICAL_CPU_PER_SOCKET * SMT_LEVEL

VARIABLES
    phase,             \* what main is at
    curr,              \* the CPU get_cpu_id returns next: curr_sock and so on
    cpu_set,           \* cpu_set[0], the only one that is filled in
    n_cpus,            \* how many CPUs main has asked for
    txns,              \* ops and keys, from the transaction file
    next_thread_id,
    thread_id,         \* each thread's number
    index,             \* i, each thread's loop variable
    affinity           \* the CPUs the kernel may run a thread on

cpuVars == <<curr, cpu_set, n_cpus>>
driverVars == <<phase, cpuVars, txns, next_thread_id, thread_id, index, affinity>>
allVars == <<vars, driverVars>>

num_thread == Cardinality(Threads)

(* The numbers of the CPUs: all first hyperthreads, then all second ones. *)
OS_CPU_ID(sock, phy, smt) ==
    (smt * NUM_SOCKET + sock) * NUM_PHYSICAL_CPU_PER_SOCKET + phy

Socket(sock) ==
    {OS_CPU_ID(sock, phy, smt) :
        phy \in 0 .. NUM_PHYSICAL_CPU_PER_SOCKET - 1, smt \in 0 .. SMT_LEVEL - 1}

AllCpus == UNION {Socket(sock) : sock \in 0 .. NUM_SOCKET - 1}

YcsbTypeOK ==
    /\ phase \in {"cpus", "files", "load", "run", "end", "failed"}
    /\ curr \in [sock : 0 .. NUM_SOCKET - 1, smt : 0 .. SMT_LEVEL - 1,
                  phy : 0 .. NUM_PHYSICAL_CPU_PER_SOCKET - 1]
    /\ cpu_set \subseteq AllCpus
    /\ n_cpus \in 0 .. num_thread
    /\ txns \in Txns
    /\ next_thread_id \in 0 .. num_thread
    /\ thread_id \in [Threads -> 0 .. num_thread - 1 \union {Unset}]
    /\ index \in [Threads -> 0 .. LOAD_SIZE + RUN_SIZE]
    /\ affinity \in [Threads -> SUBSET AllCpus]
    /\ table \in [Keys -> Seq(Vals)]
    /\ op \in [Threads -> Ops \union {NoOp}]
    /\ answer \in [Threads -> Vals \union {TRUE, NotFound, Pending}]

YcsbInit ==
    /\ Init
    /\ phase = "cpus"
    /\ curr = [sock |-> 0, phy |-> 0, smt |-> 0]
    /\ cpu_set = {} /\ n_cpus = 0
    /\ txns \in Txns
    /\ next_thread_id = 0
    /\ thread_id = [t \in Threads |-> Unset]
    /\ index = [t \in Threads |-> 0]
    /\ affinity = [t \in Threads |-> AllCpus]

-----------------------------------------------------------------------------
(* Mutant of NextCpu: the next socket before the second hyperthreads. *)
NextCpuOtherSocket ==
    LET phy == (curr.phy + 1) % NUM_PHYSICAL_CPU_PER_SOCKET
        sock == IF phy = 0 THEN (curr.sock + 1) % NUM_SOCKET ELSE curr.sock
    IN  [sock |-> sock, phy |-> phy,
         smt |-> IF phy = 0 /\ sock = 0 THEN (curr.smt + 1) % SMT_LEVEL ELSE curr.smt]

(* All CPUs of a socket, then their second hyperthreads, then the next one. *)
NextCpu ==
    LET phy == (curr.phy + 1) % NUM_PHYSICAL_CPU_PER_SOCKET
        smt == IF phy = 0 THEN (curr.smt + 1) % SMT_LEVEL ELSE curr.smt
    IN  [sock |-> IF phy = 0 /\ smt = 0 THEN (curr.sock + 1) % NUM_SOCKET ELSE curr.sock,
         phy |-> phy, smt |-> smt]

(* cpu_id = get_cpu_id(); CPU_SET(cpu_id, &cpu_set[0]), once per thread. *)
SetCpu ==
    /\ phase = "cpus"
    /\ cpu_set' = cpu_set \union {OS_CPU_ID(curr.sock, curr.phy, curr.smt)}
    /\ curr' = NextCpu
    /\ n_cpus' = n_cpus + 1
    /\ phase' = IF n_cpus' = num_thread THEN "files" ELSE "cpus"
    /\ UNCHANGED <<vars, txns, next_thread_id, thread_id, index, affinity>>

(* The share of each thread, rounded down: with 24 threads, as in run.sh,   *)
(* the last 16 of 64000000 records are nobody's.                            *)
Share(size) == size \div num_thread

Size == IF phase = "load" THEN LOAD_SIZE ELSE RUN_SIZE

start_key(id) == Share(Size) * id
end_key(id) == start_key(id) + Share(Size)

(* The call made for the i-th record of the phase. *)
Request(i) ==
    LET k == IF phase = "load" THEN InitKeys[i] ELSE txns[i].key
    IN  IF phase = "run" /\ txns[i].kind = "lookup"
        THEN [kind |-> "lookup", key |-> k]
        ELSE [kind |-> "insert", key |-> k, val |-> k]

(* Both files are read, or one of them has a line that is not understood or *)
(* too few lines.                                                           *)
ReadFiles ==
    /\ phase = "files"
    /\ phase' \in {"load", "failed"}
    /\ UNCHANGED <<vars, cpuVars, txns, next_thread_id, thread_id, index, affinity>>

(* Mutant of Fetched: the number is read and not counted up. *)
FetchedOnly == next_thread_id

(* next_thread_id.fetch_add(1) *)
Fetched == next_thread_id + 1

(* cpu_set[id]: main fills in the first set only; the others, global        *)
(* variables, are empty.                                                   *)
CpuSet(id) == IF id = 0 THEN cpu_set ELSE {}

(* The kernel refuses an empty set, and the thread does not look at the     *)
(* answer.                                                                 *)
sched_setaffinity(t, cpus) ==
    affinity' = IF cpus = {} THEN affinity ELSE [affinity EXCEPT ![t] = cpus]

(* A new thread takes its number, sets its CPUs and computes its share. *)
FetchId(t) ==
    /\ phase \in {"load", "run"} /\ thread_id[t] = Unset
    /\ thread_id' = [thread_id EXCEPT ![t] = next_thread_id]
    /\ next_thread_id' = Fetched
    /\ sched_setaffinity(t, CpuSet(next_thread_id))
    /\ index' = [index EXCEPT ![t] = start_key(next_thread_id)]
    /\ UNCHANGED <<vars, phase, cpuVars, txns>>

(* The loop's next call of insert or lookup. *)
Call(t) ==
    /\ thread_id[t] # Unset
    /\ index[t] < end_key(thread_id[t])
    /\ Invoke(t) /\ op'[t] = Request(index[t])
    /\ UNCHANGED driverVars

InsideCall(t) == (Insert(t) \/ Lookup(t)) /\ UNCHANGED driverVars

(* Mutant of NextIndex: a read that finds nothing is tried again. *)
NextIndexIfFound(t) == IF answer[t] = NotFound THEN index[t] ELSE index[t] + 1

(* i++, whatever lookup has answered. *)
NextIndex(t) == index[t] + 1

EndCall(t) ==
    /\ Return(t)
    /\ index' = [index EXCEPT ![t] = NextIndex(t)]
    /\ UNCHANGED <<phase, cpuVars, txns, next_thread_id, thread_id, affinity>>

(* Mutant of Joined: a thread between two calls counts as joined. *)
JoinedBetweenCalls(t) == thread_id[t] # Unset /\ op[t] = NoOp

(* The thread's function has returned. *)
Joined(t) ==
    /\ thread_id[t] # Unset /\ op[t] = NoOp
    /\ index[t] = end_key(thread_id[t])

(* Mutant of FirstId: the numbers of the second phase go on from the first. *)
FirstIdKept == next_thread_id

(* next_thread_id.store(0) *)
FirstId == 0

(* main joins the threads of a phase and starts those of the next. *)
JoinAndSpawn ==
    /\ phase \in {"load", "run"}
    /\ \A t \in Threads : Joined(t)
    /\ phase' = IF phase = "load" THEN "run" ELSE "end"
    /\ next_thread_id' = FirstId
    /\ thread_id' = [t \in Threads |-> Unset]
    /\ index' = [t \in Threads |-> 0]
    /\ affinity' = [t \in Threads |-> AllCpus]
    /\ UNCHANGED <<vars, cpuVars, txns>>

-----------------------------------------------------------------------------
ThreadStep(t) == FetchId(t) \/ Call(t) \/ InsideCall(t) \/ EndCall(t)

YcsbNext == SetCpu \/ ReadFiles \/ JoinAndSpawn \/ \E t \in Threads : ThreadStep(t)

YcsbSpec == YcsbInit /\ [][YcsbNext]_allVars

(* All threads keep running, and the table's calls return. *)
FairYcsbSpec ==
    /\ YcsbSpec
    /\ WF_allVars(SetCpu) /\ WF_allVars(ReadFiles) /\ WF_allVars(JoinAndSpawn)
    /\ \A t \in Threads : WF_allVars(ThreadStep(t))

-----------------------------------------------------------------------------
(* Properties.                                                             *)

(* get_cpu_id never returns a CPU twice, and fills one NUMA node, with all  *)
(* hyperthreads, before it goes to the next (ycsb.cpp:134-155).             *)
CpusFillNodes ==
    /\ Cardinality(cpu_set) = n_cpus
    /\ \A sock \in 1 .. NUM_SOCKET - 1 :
           cpu_set \intersect Socket(sock) # {} => Socket(sock - 1) \subseteq cpu_set

(* "thread pinning inside code to node 0" (run_numa.sh:8): once all threads *)
(* of a phase have started, none of them may run outside node 0, if that    *)
(* node has a CPU for each (ycsb.cpp:267, 299).                             *)
ThreadsArePinned ==
    (\A t \in Threads : thread_id[t] # Unset) /\ cpu_set \subseteq Socket(0) =>
        \A t \in Threads : affinity[t] \subseteq Socket(0)

(* The records that are in somebody's share. *)
Handled(size) == 0 .. Share(size) * num_thread - 1

Loaded(k) == {i \in Handled(LOAD_SIZE) : InitKeys[i] = k}

Inserted(k) ==
    {i \in Handled(RUN_SIZE) : txns[i].kind = "insert" /\ txns[i].key = k}

(* The records of the files. *)
LoadRecords(k) == {i \in 0 .. LOAD_SIZE - 1 : InitKeys[i] = k}

InsertRecords(k) ==
    {i \in 0 .. RUN_SIZE - 1 : txns[i].kind = "insert" /\ txns[i].key = k}

BetweenPhases == \A t \in Threads : thread_id[t] = Unset

(* No record is handled by two threads, and no record of a share by none:   *)
(* after the join of a phase the table has one value for each insert of the *)
(* shares, and at most one for each of the file (ycsb.cpp:266-287,          *)
(* 298-328).                                                                *)
EachRecordOnce ==
    BetweenPhases =>
        \A k \in Keys :
            /\ phase = "run" =>
                   Len(table[k]) \in Cardinality(Loaded(k)) .. Cardinality(LoadRecords(k))
            /\ phase = "end" =>
                   Len(table[k]) \in Cardinality(Loaded(k)) + Cardinality(Inserted(k))
                       .. Cardinality(LoadRecords(k)) + Cardinality(InsertRecords(k))

(* "`LOAD_SIZE` : number of items in hash table before running a workload"  *)
(* (README.md:13): when the run phase starts, every record of the load file *)
(* is in the table (ycsb.cpp:269-270).                                      *)
AllRecordsLoaded ==
    BetweenPhases /\ phase = "run" =>
        \A k \in Keys : Len(table[k]) = Cardinality(LoadRecords(k))

(* A read of a key that was loaded finds it: nothing of the load phase is   *)
(* still going on in the run phase.  What the assertion of ycsb.cpp:313     *)
(* would have said, if reads were of loaded keys only.                      *)
LoadedKeysAreFound ==
    \A t \in Threads :
        phase = "run" /\ op[t].kind = "lookup" /\ answer[t] # Pending
                /\ Loaded(op[t].key) # {} =>
            answer[t] = op[t].key

(* The benchmark comes to its end (ycsb.cpp:285-287, 324-326). *)
BenchmarkEnds == <>(phase \in {"end", "failed"})
=============================================================================
