\* Inserts, removes and lookups of two keys in one list; freed nodes are reused.
SPECIFICATION FairSpec
CONSTANTS
    Threads = {t1, t2, t3}
    Buckets = {b1}
    Keys = {k1, k2}
    Vals = {v1}
    Nodes = {n1, n2}
    MaxCalls = 2
    HashOf <- OneBucket
    Nil = Nil
    NotFound = NotFound
    Junk = Junk
    Nobody = Nobody
    Pending = Pending
INVARIANTS
    RWTypeOK
    WritersAreAlone
    LookupsVisitLiveNodes
PROPERTIES
    Linearizable
    CallsReturn
\* Clients stop after MaxCalls calls, and a remove of an absent key aborts.
CHECK_DEADLOCK FALSE
