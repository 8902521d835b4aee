# Version lock: TLA+ models and proofs

This directory specifies, model-checks and proves the version lock of this
repository (`version_lock.hpp`) and what is built on it or beside it: the test
program (`test.cc`), the hash table with one version lock per bucket (`vlht.hpp`,
`list.hpp`, `node.hpp`), the tables with reader-writer locks (`rwht.hpp`) and
without locks (`lfht.hpp`), their hash function (`base_ht.hpp`), and the
benchmark that drives them (`ycsb.cpp`).

A version lock is one 64-bit counter: even when the lock is free, odd while a
writer holds it. Writers swap it from even to odd and add 1 to release it.
Readers write nothing: they take the number when they begin (`read_lock`,
`try_read_lock` or `read_lock_no_wait`) and hand it to `read_unlock`, which says
whether it is still the same. Everything of interest is in the interleavings of
these few accesses, and in the moment the counter runs out.

## Inventory

| Component | State | Operations | Interacts with | What makes it correct |
|---|---|---|---|---|
| Version lock, `version_lock.hpp` | `version_number` | `write_lock`, `try_write_lock`, `write_unlock`, `read_lock`, `try_read_lock`, `read_lock_no_wait`, `read_unlock`, constructor, destructor | atomics of `arch.h`; called by the tables and the test | one writer at a time; odd exactly while held; a read is validated only if nobody acquired or released the lock since it began; no assert fails; a free lock does not stay free while writers wait |
| Atomics, `arch.h` | none | `smp_cas`, `smp_faa`, `smp_cas16b`, fences | the lock, the lock-free list | compare and swap are one step |
| Chained list, `list.hpp`, `node.hpp` | sentinel `head`, nodes (key, val, tag, next) | `insert`, `lookup`, `remove`, `lf_insert`, two `lf_lookup`s, `print_list`, `get_list_size` | the tables, the allocator | no node lost, no cycle, no freed node in a list |
| Table with version locks, `vlht.hpp` | bucket array of list + lock | `insert`, `lookup`, `remove`, `print`, `get_node_count` | lists under their locks | operations are linearizable; every call returns |
| Table with reader-writer locks, `rwht.hpp` | list + `std::shared_mutex` | same | lists under their locks | same |
| Lock-free table, `lfht.hpp` | list with tag | same; `remove` does nothing | `lf_` list functions | no insert lost, lookups linearizable, both lock-free; no remove |
| Hashing, `base_ht.hpp` | `n_buckets` | `get_key_hash`, `get_bucket` | all tables | every bucket number is below `n_buckets` |
| Test program, `test.cc` | `__g_counter`, `vlock`, `read_retry`, key vectors | API, list and hash table benches | the lock, the list, the table | no increment, node or key lost; no assert fails; it terminates |
| YCSB driver, `ycsb.cpp` | workload vectors, `next_thread_id`, `cpu_set` | load and run phases | all tables | every record is handled by exactly one thread; loading ends before reading begins |
| Scripts, report, `index-microbench/` | files | generate and plot | | |

Hard behaviours: writers racing for the swap; a reader whose read overlaps any
number of writes; the counter's reset, which is two atomic operations with a gap
between them; readers retrying while writers write; the optimizer moving a load
of the list head out of the retry loop; lookups on nodes that are being deleted
and reused; a test that asserts what it has read before it is validated; lock-free
inserts whose tag and head are from two moments; and the benchmark's threads
drawing their shares from one counter, twice. `PROJECT.json` lists these hazards
line by line with the properties that cover them. There is no persistence, no messages and no timeouts in this
code, so nothing here is about crashes or lost messages; `abort()` by a failed
assert is the only failure, and it ends the process.

## Modules

| Module | What it is |
|---|---|
| `VersionLock` | the lock, one action per access to the counter |
| `OptimisticLock` | what a version lock promises, without its counter |
| `VersionLockRefinement` | the mapping from one to the other |
| `VersionLockProofs`, `VersionLockRefinementProofs` | theorems about them |
| `VersionLockTest` | `test_version_lock_apis` |
| `ListBench` | `test_version_lock_list`: `ChainedLists` under the test's lock |
| `HTBench` | `test_version_lock_ht` on `HashTable` |
| `TestProgram`, `TestProgramProofs` | `main` of `test.cc`: one of the three benches; theorems about all of them |
| `HashTable` | what a hash table promises: atomic operations on a stack of values per key |
| `ChainedLists`, `ChainedListsProofs` | heap, nodes and bucket chains of `list.hpp`; what its operations do to every list |
| `VLHashTable` | the operations of `vlht.hpp` on `ChainedLists` under `VersionLock` |
| `VLHashTableRefinement` | the mapping to `HashTable` |
| `VLHashTableProofs` | theorems about the table |
| `RWHashTable`, `RWHashTableProofs` | the operations of `rwht.hpp` on `ChainedLists` under a `std::shared_mutex`, with the mapping to `HashTable`; theorems |
| `LFHashTable`, `LFHashTableProofs` | the operations of `lfht.hpp` on `ChainedLists`, with the mapping to `HashTable`; theorems |
| `KeyHash` | `get_key_hash` and `get_bucket` of `base_ht.hpp` |
| `YcsbDriver`, `YcsbDriverProofs` | the phases of `ycsb.cpp` on `HashTable`; theorems |
| `MC...` | instances for TLC |

`VersionLockTest`, `ListBench` and `VLHashTable` extend `VersionLock` and conjoin their own
state with the lock's actions: a step of the test or the table either *is* an
action of the lock (its call, or a step inside the call) or leaves all locks
unchanged. The theorems `TestUsesLock` and `TableUsesLock` say so for all
parameters, which carries every safety theorem about the lock over to its clients.

### VersionLock

`version[l]` is `version_number` of lock `l`. `pc[t]`, `at[t]` and `seen[t]` are
the program counter of a thread in the API, the lock of its call and its local
copy of the counter. Between `read_lock*` and `read_unlock` the thread is at
`"reading"`, between `write_lock` and `write_unlock` at `"writing"`. A call that
has returned leaves its result in `pc`: `"idle"`, `"busy"` (a failed `try_*`),
`"validated"` or `"refused"` (`read_unlock`). `aborted` means a failed assert has
called `abort()`, after which nothing happens. `wrapped` is a history variable:
the locks whose counter has been reset to 0; it guards nothing.

| Action | Code |
|---|---|
| `WriteLock`, `WriteLoad`, `WriteCas` | `write_lock`: call, load (an odd value is loaded again), swap or start over |
| `TryWriteLock`, `TryCas` | `try_write_lock`: call and load, swap or give up |
| `WriteUnlock`, `UnlockReset`, `UnlockFaa` | `write_unlock`: load and overflow test, swap to 0, assert, add 1 |
| `ReadLock`, `ReadLoad` | `read_lock` |
| `TryReadLock`, `ReadLockNoWait`, `ReadUnlock` | the functions of the same name: one load each, so one step each |
| `Destroy` | the destructor |

A spinning load of an odd value changes no state and has no step of its own. The
target is x86 and `version_number` is volatile: locked instructions are full
fences and volatile loads are not moved past each other, so the counter's
accesses are taken as sequentially consistent. A thread holds at most one lock at
a time, as in all callers of the repository. `UINT64_MAX` is a parameter: any
2^w - 1 the reset threshold fits in (`WidthAssumption`), which is the only thing
about the width the code depends on.

Properties are stated for a lock that is `Intact`, that is, not yet reset. This
is no convenience: after a reset the lock is broken, which the runs in the
section *Disagreements* show.

### VersionLockTest

`test_version_lock_apis`: `phase` is the group of threads running, `left[t]` how
many iterations a thread has to go, `g_counter` the unprotected counter, whose
`++` is a load (`LoadCounter`) and a store (`StoreCounter`). `JoinAndSpawn` is
the main thread: it joins the group, checks the counter after the first phase,
and starts the next. Thread creation is not a step of its own: a thread not
created yet cannot be told from one that has not run yet. The readers use
`read_lock_no_wait`, as `TEST_READ_LOCK_NO_WAIT` is defined (`test.cc:23`).

### ListBench, HTBench and TestProgram

`TestProgram` is `main`: `bench` is its argument, and only the bench it names
takes steps. The API test is `VersionLockTest`; `ListBench` extends it with the
list bench, because both use the global `vlock`; `HTBench` is an instance. As in
the API test, `group` (`htGroup`) is the group of threads that is running, and a
thread's loop is `range[t]` (`i[t]`).

In the list bench a writer locks, allocates (`AllocNode`), links (`LinkNode`),
pushes the key (`PushKey`) and unlocks. A reader takes the version
(`ListBeginRead`), walks the list a node at a time, asserts the value
(`WalkNode` sets `unequal` when the assert fails) and only then validates
(`ListEndRead`). In the optimized build the load of `head->next` stands before
the loop over the keys and is made again only after a refused read: `LoadFirst`
may set `first[t]` before the loop's first iteration, or the load is made where
the source has it (`StartWalk`). Readers have copies of `keys` made when they
were started; the vector only grows, so the model reads the common one.

The hash table bench calls the abstract table, which `VLHashTable` implements for
inserts with lookups. `main` makes vectors `0 .. n_threads` of saved keys, but the
last group's readers have odd numbers up to `2 * n_threads - 1`: those beyond
`n_threads` have no vector, and what is in memory there is anything
(`ReadNoVector`: an empty loop, or a failed assert). `failed` is the set of
readers whose assert has failed.

### ChainedLists and VLHashTable

A node is a block of the heap (`cell`), allocated or not (`live`); `head[b]` is
the `next` field of bucket `b`'s sentinel. Freeing a block overwrites its first
two words, key and value, as the C library's allocator does, and leaves the
others; the block may be allocated again by any insert. The allocator is outside
this repository; this is how it is used in the build.

`insert` is `BeginWrite` (call of `write_lock`), the lock's steps (`InsideLock`),
`Allocate` (allocate, fill in, load the head), `PublishNode` (store the head),
`Unlock`, and the lock's steps again, of which the last returns. `remove` has
`UnlinkNode` and `FreeNode` in their place; its search is part of `UnlinkNode`,
because the list does not change while the lock is held (`ListsIntact` would be
violated otherwise), and an absent key sets `failed`: the assert of
`vlht.hpp:91`. `lookup` is `BeginLookup`, `LoadHead`, `LoadVersion`,
`StartTraversal`, then one step per volatile load (`CompareKey`, `TakeVal`,
`Advance`), and `Validate`.

The load of `head->next` (`list.hpp:84`) is an ordinary load in a loop without
another access to it, so the compiler may do it once, before the loop, and with
`-O3`, as the Makefile builds, it does: the compiled retry branches back to a
point behind the load. `LoadHead` chooses between both (`first[t]` is the early
value, or `InLoop`). The stores of `insert` are ordinary too; the compiled code
has them in the order of the source, the head's last, which the model follows.

### RWHashTable

`owner[b]` and `sharers[b]` are the holders of bucket `b`'s `std::shared_mutex`.
`MayLock`, `MayShare` and `Unshare` are the C++ library's part: exclusive with
nobody else, shared with no owner, and no order among those who wait. A call is
`Call`, `Lock` or `LockShared` (the declaration of the lock object), the list
operation as in `VLHashTable` but with ordinary retry-free traversal
(`LoadHead`, `VisitNode`), and `Unlock` or `UnlockShared` (its destructor, and
the return). `MaxCalls` bounds the calls per thread, as a benchmark's threads
make finitely many; weak fairness of `Lock` needs it, since readers that keep
coming could keep a writer out for ever.

### LFHashTable

`tag[b]` is the `tag` of bucket `b`'s sentinel, next to `head[b]`. `lf_insert` is
`BeginInsert` (allocate and fill in), `LoadTag` and `LoadNext` in either order
(only the tag is volatile), `Swap`, which is the `cmpxchg16b` on both and on
failure the jump to `cas_retry`, and `EndInsert`. A lookup is `BeginLookup`,
`LoadInitTag` if the function has an `init_tag`, `LoadHead`, a `VisitNode` per node,
whose fields never change once it is published, and `EndOfList`. `LoadInitTag` and
`LoadHead` come in either order, for the same reason as in `lf_insert`
(`list.hpp:169`, `171`); what follows in the code are volatile loads, so both come
before it. `headFirst` is a history variable that guards nothing: the lookups that
have loaded the head before `init_tag`. At the end of the list, a disturbed `lf_lookup_linearizable` starts over, with a new load of the head or
with the old one: the load is ordinary, and the compiled code has it before the
loop. The clients of the table call `lf_lookup_snapshot`; the other one is
commented out in `lfht.hpp:64`, and both are modelled: `Calls[t]` are the
functions thread `t` calls. `remove` does nothing (`lfht.hpp:69`) and has no
action.

### KeyHash

`key` is the variable of `get_key_hash`, `step` the next of its eight
assignments; `AddComplement`, `AddShifted` and `XorShifted` are its three kinds of
assignment on integers modulo 2^`w`, and `get_bucket` the reduction at the end.
The shifts are a parameter, so that a small width can have small shifts. The
tables take the result as a function `HashOf` of the key.

### YcsbDriver

`phase` is what `main` is at: choosing the CPUs (`SetCpu`, one call of
`get_cpu_id`, whose three static counters are `curr`), reading the files, loading,
running, or done. `OS_CPU_ID` is the table of the same name as a formula. The
threads of a phase draw their number (`FetchId`), make the calls of their share
(`Call`, `InsideCall`, `EndCall`) and are joined (`JoinAndSpawn`). The table is
the abstract `HashTable`: a call is an `Invoke` there, and what `VLHashTable` and
`LFHashTable` are shown to implement holds here by substitution. (`VLHashTable`
implements it for inserts with removes and for inserts with lookups; the
benchmark removes nothing.) Values are keys, as in `ycsb.cpp:273`. A file that
cannot be used ends the program (`ReadFiles`). `affinity[t]` is where the kernel
may run a thread; `sched_setaffinity` is the kernel's and refuses an empty set.
`cpu_set[0]` is the only set `main` fills in (`CpuSet`), so only the thread that
draws number 0 is pinned (*Disagreements*, `threads_not_pinned`).

### The mappings

`OptimisticLock` has a holder, and for every thread whether its read is still
good (`clean`: begun on a free lock, `under`: begun under a writer, `stale`). In
`VersionLockRefinement` the holder is the thread between its swap and its
addition, and a read is stale when the counter differs from the number the reader
took. Its content is the absence of ABA on the counter: that equal numbers mean
*no acquisition or release in between* holds because the counter only grows until
the reset.

`HashTable` has a stack of values per key (`insert` does not look for the key
first, `lookup` finds the newest, `remove` removes the newest). In
`VLHashTableRefinement` an insert takes effect at `PublishNode`, a remove at
`UnlinkNode`, a lookup when it loads the head: nodes in a list never change, so
its answer is settled from then on. The mapping of `LFHashTable` is the same with
`Swap` for `PublishNode`; that of `RWHashTable` lets a lookup take effect at the
end of its traversal, as nothing changes while it holds the mutex.

## Runs

| Run | Bounds | Shows |
|---|---|---|
| `lock_safety` (`MCVersionLockRefinement`) | 3 threads, 2 locks, counters 0..7 (reset at 5), one lock compared with the abstract one, symmetric threads | `MutualExclusion`, `OddIffHeld`, `AbortsOnlyAfterReset`, the inductive `LockInv`, and `ImplementsOptimisticLock` |
| `test_program` (`MCTestProgram`) | 2 writers, then 2 readers, then both, in each bench; API: 2 writes, 1 read each, counter 0..31; list: 1 key, 1 insert per writer and group; table: 1 key, 2 inserts per writer and group | `LoadedIsCurrent`, `NoLostUpdate`, `TestPasses`; `ListBenchPasses`, `ListHasAllKeys`; `HTNodesCounted`, `HTSavedKeysAreFound`; `FreeLockIsTaken`, `MainReturns` |
| `vl_table` (`MCVLHashTableMixes`) | 1 bucket, 2 keys, 2 values, 2 nodes, and one of three mixes of calls: inserts and removes by 3 threads, inserts and lookups by 2, all three by 2; 6 writes | `ListsIntact`, `OneWriterPerList`, `CallsLinearizable`, `CleanLookupsAreCurrent`, `CallsReturn` |
| `lf_table` (`MCLFHashTable`) | 3 threads, 1 bucket, 2 keys, 2 values, 2 nodes; two threads insert, one of them also calls `lf_lookup_snapshot`, the third calls both lookups | `EqualTagSameList`, `Linearizable`, `PublishedFixed`, `CallsReturn` |
| `rw_table` | 3 threads of 2 calls, 1 bucket, 2 keys, 2 nodes, all operations | `WritersAreAlone`, `LookupsVisitLiveNodes`, `Linearizable`, `CallsReturn` |
| `ycsb_phases` (`MCYcsbDriver`) | 3 threads, 6 records, 4 transactions of any kind, 2 sockets with 1 core of 2 hyperthreads | `CpusFillNodes`, `EachRecordOnce`, `LoadedKeysAreFound`, `BenchmarkEnds` |

Why these bounds are enough. Two writers race for a swap and a third thread reads
or is the second loser; with three threads every pair of roles meets a third
party. Counters to 7 give two complete writes before the reset and let the
counter run through 0 and up again. Two locks show that the locks do not disturb
each other and let a thread go from one to the other. In the tables, two nodes in
one chain and two keys give a victim at the head and one behind it, and a freed
block is reused while a lookup is on it. Two nodes of one key have different
values, so a lookup or a remove that takes the older for the newer is seen; the
mixes split the callers where the code splits them (nobody looks up while others
remove). In the lock-free table
two inserts race for the swap while a third thread looks up, and the loser's
second attempt follows. In the test program two writers and two readers are the smallest group in which writers
race while another reader reads, and in which a reader has no vector; the
numbers of keys are such that the readers' shares are not empty, and one key is
left over. Keys of two writers of the list bench differ,
while in the test (10000 inserts, first keys 1000 apart) they overlap: with equal
keys and values nothing there tells two nodes of one key apart, and the hash table
bench has such keys. In the benchmark, three threads get two records and one
transaction each, and one transaction is left over; the transactions are on a key that is
loaded, on one that is not, and on one that is.

`WriteBound` stops the table runs from starting another write, so that they are
finite and no counter is reset; `MemoryLeft` keeps inserts within the blocks
there are. `CHECK_DEADLOCK FALSE` is set where the system really stops: `abort()`,
a lock stuck odd after the reset, the write or call bound, or the end of the
program; the other runs check deadlock.

Each property of a passing run is broken by a mutation of a modelled definition
(`PROJECT.json`, `mutants`): a store instead of the swap, a retry that keeps its
stale copy, an unlock without overflow test, a list operation that does not wait
for the lock, and so on.

### Fairness

Threads are POSIX threads that the kernel schedules preemptively, so a thread
inside a call keeps running: weak fairness of its steps. A writer in its critical
section gets to its `write_unlock`, because all critical sections of the
repository are finite. No thread is obliged to make another call, and a reader
may stay away for ever. Nothing stronger is assumed: an individual `write_lock`
may lose every race (the lock has no queue), so what holds is lock freedom
(`FreeLockIsTaken`), and a lookup or a test returns because the writers are
finitely many (`CallsReturn`, `MainReturns`), as in `test.cc` and `ycsb.cpp`. A
`std::shared_mutex` is asked for nothing but that a thread gets it if it stays
free.

### Disagreements

Six runs end in a counterexample against what a comment, a script or the README
says.

* `reset_leaves_odd`: when the counter reaches
  `UINT64_MAX - 2`, `write_unlock` swaps it to 0 and *then adds 1* as always. The
  released lock is left at 1, locked for ever; in the gap between the two
  instructions another writer can get in, although the comment at
  `version_lock.hpp:106` excludes two threads in `write_unlock`; and a reader that
  began before the reset fails the assert of `read_unlock`. This is why
  `AbortsOnlyAfterReset` does not say that no assert fails. At 64 bits this takes
  2^63 writes.
* `lookup_returns_freed`: `lookup` of `vlht.hpp` uses `read_lock_no_wait`, which
  does not look at the lock bit. A read inside one write is validated, and if the
  write is a `remove`, the read may have been of the node it frees. No caller in
  the repository removes anything while others look up. Without removes lookups
  are linearizable (`CallsLinearizable`); with them, those that began on an even
  number and load the head inside the loop are current
  (`CleanLookupsAreCurrent`).
* `lf_lookup_loops`: `lf_lookup_linearizable` compares the tag with an `init_tag`
  it never loads again. An insert into the list while it traverses it, and a
  lookup of an absent key never returns, although `list.hpp:21-23` has it among the
  lock-free functions. `lf_hash_table` does not call it at present.
* `bucket_out_of_range`: `get_bucket` reduces a hash only if it is *greater* than
  `n_buckets`. The eight steps of `get_key_hash` each permute the integers, so
  some key's hash is exactly `n_buckets`, and all tables then index one past their
  array. At 64 bits this is one key: 4421017294434884656 for the default of 1007
  buckets, 12115663851090242479 for the benchmark's 8000000.

* `threads_not_pinned`: `run_numa.sh:8` says "thread pinning inside code to node
  0", and `report/eval.tex:164` that the threads are pinned to one NUMA node. But
  `ycsb.cpp:267` gives thread `i` the set `cpu_set[i]`, of which only the first is
  filled in: `sched_setaffinity` fails for all the others, unnoticed, and they may
  run anywhere, also when node 0 has a CPU for each.
* `records_not_loaded`: the shares are rounded down (`ycsb.cpp:269`), so with the
  24 and 48 threads of `run.sh` the last 16 of 64000000 records are loaded by
  nobody, where `README.md:13` calls `LOAD_SIZE` the "number of items in hash table
  before running a workload", and the throughput is computed from all of them.
  `EachRecordOnce`, of the passing run, has the bounds that hold in any case: no
  record of a share is skipped and none of the file is loaded twice.

More need no run of their own. The last group of the hash table bench gives
readers numbers beyond the vector of key vectors (`test.cc:274`) when there are two
threads or more. What is read there is undefined, so nothing follows about those
readers; `HTSavedKeysAreFound` says that no reader with a vector fails beside
them. `try_read_lock` returns `UINT64_MAX` for a held lock, where
its comment (`version_lock.hpp:28`) says false. And the report
(`report/design.tex:93-100`) has the two kinds of read the other way round: it is
`read_lock` that waits for the writer, `read_lock_no_wait` that does not.

## Proofs

All theorems hold for any number of threads, locks, buckets, keys, values and
nodes, any counter width and any length of the loops. Every safety property that
a passing run checks has its theorem, and so has every refinement; the run shows
the property on a small instance first. (`CallsLinearizable` is `Linearizable` of
`VLHashTableRefinement` with a mix of callers chosen at the start;
`VLTableIsLinearizable` is its theorem for the two mixes without removes or
without lookups. That inserts and removes stay linearizable beside lookups, the
third mix, is only model-checked.)

The assumptions are the ASSUMEs next to the constants. Most say that a marker is
not a value (`Nil`, `Junk`, `NotFound`, `Pending`, `Unset`: code that mixes them up
is a hazard of its own, listed in `PROJECT.json`). Those that say more:
`WidthAssumption` (the width), `TestAssumption` and the last conjunct of
`ListBenchAssumption` (the writes of a bench are fewer than a 64-bit counter has
room for: 4 * 10^6 * `n_threads` and 2 * 11000 * `n_threads` of 2^64), `ListBenchKeys`
and `HTBenchAssumption` (the keys a bench inserts are keys).

### Lock

`VersionLockProofs`. `LockInv` is the inductive invariant. `MutualExclusion`
alone is not inductive: that a second writer's swap fails while somebody holds
the lock needs *the counter is odd exactly while the lock is held*
(`CounterInv`) and *what a writer swaps from is even* (`LocalInv`). That the
addition in `write_unlock` makes the counter even needs the writer to be alone.
`AbortsOnlyAfterReset` needs *a reader's copy is at most the counter*, kept
because the counter only grows, which needs it to stay below `UINT64_MAX - 2`:
the overflow test is what keeps it there, by way of the facts about `"reset"` and
`"faa"` in `LocalInv`. All of it is claimed of intact locks only, so the reset
ends the obligations of a lock instead of breaking the invariant. There is a
lemma per kind of step: quiet steps, acquisitions, unlock, reset, addition,
destructor. The theorems `TypeCorrect`, `WritersExclude`, `LockBitIsTrue` and
`AssertionsHold` follow.

`VersionLockRefinementProofs`: `LockRefinesOptimisticLock`. Under `LockInv`
every step maps to a step of `OptimisticLock` or to a stutter. The key is that an
acquisition or release changes the counter to a value no read in progress has,
since all copies are at most the old one.

### Lists

`ChainedListsProofs` is the library of the three tables. `Chain`, `Matching` and
`Answer` are defined by a function that walks the heap, so what they are after a
store is a question for induction. The library's induction theorems take an
operator as a parameter, which no prover here can instantiate; the induction is
done with sets instead. `LeastElement` (every non-empty set of numbers has a
least one) gives `IterationExists`, hence that the walk is the function its
equations say (`WalkDef`), and `PathInduction`: a set of pairs that holds the
empty path, and with each path the one a node longer, holds all paths. A `Path`
is a sequence of different nodes, each leading to the next, the last to `Nil`.
`ReachedIsPath` says that the walk along a path is the path, and from there on
everything is about paths: where they lead after a node was put in front
(`ListFromNode`, `NodeBeforeList`), when another block was written
(`ListKept`), and when a node was taken out (`ListUnlinked`).

`ListsInv` is what the tables want of their lists: each ends, its nodes are
allocated and have keys of its bucket, and so no two share a node. `ListsAllocate`,
`ListsPublish`, `ListsUnlink` and `ListsFree` say for each operation that
`ListsInv` is kept and what becomes of every list, stack and answer.

### Tables

`RWHashTableProofs`. `WritersExcludeAll` from `MutexInv`: a mutex is never owned
and shared at once, and a thread at a list holds its bucket's mutex in the mode
its operation needs. `RWInv` adds the lists and what each thread has in hand
(`HandInv`): an insert's node and a remove's victim are its own, allocated and in
no list, and a lookup is at a node of the list from where its answer is the
answer from the head. The mutex keeps both true: what would break them needs it in
another mode. `RWTypeCorrect`, `LookupsAreSafe` and `RWTableIsLinearizable`
follow.

`VLHashTableProofs`. `StagesAgree` is the joint invariant of table and lock.
Neither half is inductive alone: the table calls the lock legally because of
where it is in its operations (`TableInv`), and knows that it is inside because
the lock says so. `TableUsesLock`, `ListsHaveOneWriter` and `TableTypeCorrect`
follow. The rest holds until a counter is reset, since exclusion does, and the last
point says when none is:

* `HeapInv` gives `ListsStayIntact`: lists right, the writers' nodes their own,
  and every allocated block in a list or in somebody's hands.
* `CurrentInv` gives `LookupsAreCurrent`. A lookup whose number is even and still
  the counter's value, and which loads the head after it, has the list's present answer ahead of
  it: whoever writes the list holds the lock, so the counter differs from every
  even number read before. Nothing is said of lookups that began under a writer,
  which is where the counterexample of `lookup_returns_freed` is.
* `SettledInv` is for the table nobody removes from: there a lookup's answer is
  that of the node it started from, for ever, whatever is inserted in front.
* `VLTableIsLinearizable` needs one of the two: its hypothesis is that the
  callers do not both look up and remove (`"remove" \notin Kinds` or
  `"lookup" \notin Kinds`), which is how the repository uses the table. With
  lookups the point of linearization is the load of the head, which a read that
  is refused moves on; `AnswerNow` is the mapping's result.
* `NoCounterIsReset` drops the reset, for callers that write less than a counter
  has room for (`BelowReset`: 2^64 - 3 is above `WriteBound` and twice the number
  of threads, which is true of every `WriteBound` the benches and the benchmark
  come near, and of every run). A write begins at a counter of at most
  `WriteBound`, but others may have begun at the same one: `LowInv` counts two
  for each write that has still to take the lock and one for each that has still
  to release it, and then the sum of counter and debt never passes `WriteBound`
  plus two for every thread. `ListsAlwaysIntact`, `LookupsAlwaysCurrent` and
  `VLTableAlwaysLinearizable` are the three theorems without the reset, and no
  assert of a lock fails.

`LFHashTableProofs`. `LFTypeCorrect` and `EqualTagsProveIt` from `LFInv`. That the
tag is bounded by the number of nodes needs the pending nodes of two inserts to be
different; that an equal tag means an equal list needs *no lookup's `init_tag` is
greater than the tag*, so that a swap, which counts the tag up, leaves it
different from every `init_tag`. It is claimed of lookups that have loaded
`init_tag` before the head: a swap between the two loads in the other order is not
seen in the tag. Linearizability needs no such condition, as a lookup's answer is
that of the moment it loads the head. `PublishedInv` adds the lists: an insert's node is
in none, and leads to the head the insert has loaded (`HandInv`), so a successful swap puts
it in front of the list there is; a lookup is at a node of the list, with the
rest of its answer ahead (`LookInv`), because lists only grow (`ListsGrow`).
`PublishedStaysFixed` and `LFTableIsLinearizable`, for both lookups, follow.

### Test program

`TestProgramProofs`, API bench: `TestUsesLock` and, with `MutualExclusion`,
`IncrementsAreIsolated`: a thread that has loaded `__g_counter` is the only one
to store it. `TestAlwaysPasses`, `NoUpdateIsLost` and `TestTypeCorrect` rest on
counting (`ApiInv`). An iteration is a pair of a writer and a number; the counter
is the number of iterations that have stored, and half of the lock's version the
number of those that have released the lock. A step adds at most one pair to
either set. So the version stays below `4 * Writes`, which by `TestAssumption` is
far from the reset: the lock is intact for the whole test, no assert of the lock
fails (`AssertionsHold` alone says this only up to a reset), and when all writers
are joined, every pair is in the set and the counter is their number. In the
readers' group nobody moves the version, so no read is refused.
`MainPassesApiTest` lifts this to the program.

Hash table bench: `SavedKeysStayFound` from `HTInv` (every saved key is in the
table with its own value, keys are saved after they are inserted, and so whoever
is in `failed` has no vector), and
`NodesAreCounted` from `HTCountInv`: the nodes are pairs of a key and a depth, the
inserts pairs of a writer and an iteration, and each insert adds one of either.

List bench: `ListBenchInv`. The nodes of a list that only grows are a sequence
`s`, the oldest first (`OrderInv`), and the vector of keys is the sequence of
their keys, but for the one node whose key is about to be pushed. A lookup of the
j-th key comes from a node not older than the j-th (`NotBefore`), which each
`next` keeps, so it never gets to the end of the list: the assert on a value that
is not validated holds (`KeysAreFoundUnvalidated`). The order needs one writer at
a time (`InsertAlone`), that needs the lock intact, and that needs the version
bounded by the keys inserted so far (`ListLockInv`), whose number is that of the
pairs of writer and iteration done (`ListCountInv`). `ListTypeCorrect` and
`NoInsertIsLost` follow: joined, the list backwards has the vector's keys
(`BackwardsCounts`).

### Benchmark

`YcsbDriverProofs`. `NodesAreFilled` from `CpuInv`: a CPU's place is a number in a
mixed-radix system of socket, hyperthread and core, and `get_cpu_id` counts. `IdInv` (the
numbers drawn are those below `next_thread_id`, each once) gives that the shares
are apart (`ShareBounds`) and inside the files (`FilesHoldShares`). `RecordInv` is
`RecordsAreHandledOnce` in the middle of a phase:
a key has as many values as records of it were inserted by a thread whose share
they are in, of which there is one. `YcsbTypeCorrect` and `ReadsFindLoadedKeys`
follow.

### Only model-checked

`CallsLinearizable` where all three calls are mixed. Liveness (`FreeLockIsTaken`, `CallsReturn`, `MainReturns`, `BenchmarkEnds`): fairness
and ENABLED are outside the prover. `KeyHash`: its operators on bits are
recursive. The six disagreements: a counterexample is a behaviour, and the run
shows it.

## Not modelled

`print`, `print_list`, `get_node_count`, `get_list_size` only read, and are
called while no other thread runs; `HTBench` has the node count as an operator,
and nothing else needs them. The constructors' allocation failures and
the destructors of tables and lists: they run alone. Thread-creation failure.
The lock-free `remove`, which does nothing, and `lf_remove`,
which is declared and not defined. The command lines, file names, parsing and
timing of `ycsb.cpp`, and the initial read-back of an empty vector in the hash
table bench. `cpu-topology.py`, `index-microbench/`, the Makefile, the shell
scripts and the report: sequential tools and text. The time-stamp counters and
alignment macros of `arch.h`.

## Plan

Everything with shared state or concurrency in the code has its module, and every
safety property of a passing run its theorem. What is left, in the order of what
it would add:

1. The hash table bench and the benchmark on `VLHashTable` itself instead of the
   abstract table, by the refinement that is proved.
2. An abstraction of the lock-free list's tag, to see whether insert needs it as
   long as nothing is removed.
3. What `get_bucket` does guarantee, for every width: a number that is at most
   `n_buckets`.
