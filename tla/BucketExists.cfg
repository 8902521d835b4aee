\* A key whose hash is n_buckets gets a bucket the table does not have.
SPECIFICATION KeyHashSpec
CONSTANTS
    w = 8
    Shifts <- ScaledShifts
    n_buckets = 7
INVARIANTS
    BucketExists
\* The function returns.
CHECK_DEADLOCK FALSE
