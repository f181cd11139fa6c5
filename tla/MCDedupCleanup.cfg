CONSTANTS
    Thread = {t1, t2}
    Id = {i1, i2}
    Entry = {e1, e2, e3, e4}
    NULL = NULL
    MAX_RETRIES = 3
    MAX_HEAD_RETRIES = 10
SPECIFICATION Spec
SYMMETRY Symmetry
INVARIANT NoUseAfterFree
