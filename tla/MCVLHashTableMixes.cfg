\* Two or three threads on one list; freed nodes are reused.
SPECIFICATION FairMixSpec
CONSTANTS
    t1 = t1
    t2 = t2
    t3 = t3
    k1 = k1
    k2 = k2
    v1 = v1
    v2 = v2
    Threads = {t1, t2, t3}
    Locks = {b1}
    Buckets = {b1}
    Keys = {k1, k2}
    Vals = {v1, v2}
    Nodes = {n1, n2}
    Kinds = {"insert", "remove", "lookup"}
    WriteBound = 6
    UINT64_MAX = 31
    HashOf <- OneBucket
    Nil = Nil
    NotFound = NotFound
    Junk = Junk
    InLoop = InLoop
    Pending = Pending
INVARIANTS
    TableTypeOK
    ListsIntact
    OneWriterPerList
PROPERTIES
    CallsLinearizable
    CleanLookupsAreCurrent
    CallsReturn
\* Removing an absent key aborts.
CHECK_DEADLOCK FALSE
