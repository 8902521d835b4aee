\* A linearizable lookup that an insert has disturbed never returns.
SPECIFICATION FairSpec
CONSTANTS
    t1 = t1
    t2 = t2
    t3 = t3
    Threads = {t1, t2}
    Buckets = {b1}
    Keys = {k1, k2}
    Vals = {v1}
    Nodes = {n1, n2, n3}
    Calls <- LinearizableOnly
    HashOf <- OneBucket
    Nil = Nil
    NotFound = NotFound
    Junk = Junk
    Unread = Unread
    Pending = Pending
PROPERTIES
    LookupsReturn
