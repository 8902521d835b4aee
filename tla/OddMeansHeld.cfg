\* The reset leaves the counter odd with nobody holding the lock.
SPECIFICATION Spec
CONSTANTS
    Threads = {t1, t2}
    Locks = {l1}
    UINT64_MAX = 7
INVARIANTS
    OddMeansHeld
\* After a reset the lock may stay odd for ever, and abort() ends the process.
CHECK_DEADLOCK FALSE
