\* A validated lookup reads a freed node.
SPECIFICATION TableSpec
CONSTANTS
    Threads = {t1, t2}
    Locks = {b1}
    Buckets = {b1}
    Keys = {k1}
    Vals = {v1}
    Nodes = {n1, n2}
    Kinds = {"insert", "remove", "lookup"}
    WriteBound = 6
    UINT64_MAX = 31
    HashOf <- OneBucket
    Nil = Nil
    NotFound = NotFound
    Junk = Junk
    InLoop = InLoop
    Pending = Pending
SYMMETRY Symmetric
PROPERTIES
    LookupsReturnValues
\* Removing an absent key aborts.
CHECK_DEADLOCK FALSE
