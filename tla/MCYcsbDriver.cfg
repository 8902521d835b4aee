\* Three threads; one transaction is left over.
SPECIFICATION FairYcsbSpec
CONSTANTS
    Threads = {t1, t2, t3}
    Keys = {k0, k1, k2, k3, k4, k5, k6}
    Vals = {k0, k1, k2, k3, k4, k5, k6}
    k0 = k0
    k1 = k1
    k2 = k2
    k3 = k3
    k4 = k4
    k5 = k5
    k6 = k6
    LOAD_SIZE = 6
    RUN_SIZE = 4
    InitKeys <- LoadFile
    Txns <- MixedTxns
    Unset = Unset
    NUM_SOCKET = 2
    NUM_PHYSICAL_CPU_PER_SOCKET = 1
    SMT_LEVEL = 2
    NotFound = NotFound
    Pending = Pending
INVARIANTS
    YcsbTypeOK
    CpusFillNodes
    EachRecordOnce
    LoadedKeysAreFound
PROPERTIES
    BenchmarkEnds
\* The program ends.
CHECK_DEADLOCK FALSE
