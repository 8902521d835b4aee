\* Three threads on two locks with three-bit counters (0 .. 7, reset at 5);
\* one of the locks is compared with the abstract one.
SPECIFICATION Spec
CONSTANTS
    Threads = {t1, t2, t3}
    Locks = {l1, l2}
    UINT64_MAX = 7
    TheLock = l1
    NoThread = NoThread
SYMMETRY Symmetric
INVARIANTS
    TypeOK
    MutualExclusion
    OddIffHeld
    AbortsOnlyAfterReset
    LockInv
PROPERTIES
    ImplementsOptimisticLock
\* After a reset the lock may stay odd for ever, and abort() ends the process.
CHECK_DEADLOCK FALSE
