\* The benches of test.cc with two threads, that is, four in the last groups.
SPECIFICATION FairMainSpec
CONSTANTS
    Threads = {0, 1, 2, 3}
    Firsts = {0, 1}
    n_threads = 2
    Locks = {l1}
    N_ITRS_WRITE = 2
    N_ITRS_READ = 1
    UINT64_MAX = 31
    LIST_INIT_SIZE = 1
    N_NODE_ADD = 1
    HT_NODE_ADD = 2
    N_NODE_ADD_MIXED = 1
    KEY_STRIDE = 1
    Buckets = {b1}
    Keys <- AllKeys
    Vals <- AllKeys
    Nodes <- AllNodes
    HashOf <- OneBucket
    Nil = Nil
    NotFound = NotFound
    Junk = Junk
    Unloaded = Unloaded
    Pending = Pending
INVARIANTS
    TestTypeOK
    LoadedIsCurrent
    NoLostUpdate
    TestPasses
    ListBenchTypeOK
    ListBenchPasses
    ListHasAllKeys
    HTNodesCounted
    HTSavedKeysAreFound
PROPERTIES
    MainReturns
    FreeLockIsTaken
\* The program ends.
CHECK_DEADLOCK FALSE
