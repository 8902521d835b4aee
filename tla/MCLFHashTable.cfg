\* Inserts and both lookups of two keys in one list, by three threads.
SPECIFICATION FairSpec
CONSTANTS
    t1 = t1
    t2 = t2
    t3 = t3
    Threads = {t1, t2, t3}
    Buckets = {b1}
    Keys = {k1, k2}
    Vals = {v1, v2}
    Nodes = {n1, n2}
    Calls <- ReadersAndWriters
    HashOf <- OneBucket
    Nil = Nil
    NotFound = NotFound
    Junk = Junk
    Unread = Unread
    Pending = Pending
INVARIANTS
    TypeOK
    EqualTagSameList
PROPERTIES
    Linearizable
    PublishedFixed
    CallsReturn
