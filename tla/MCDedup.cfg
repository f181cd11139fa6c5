CONSTANTS
    Thread = {t1, t2}
    Id = {i1, i2, i3}
    Entry = {e1, e2, e3, e4, e5}
    NULL = NULL
    MAX_RETRIES = 2
    MAX_HEAD_RETRIES = 2
SPECIFICATION QuietSpec
SYMMETRY Symmetry
INVARIANTS BucketSound NoLeak
PROPERTIES RemovedOnlyExpired
