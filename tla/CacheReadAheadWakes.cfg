SPECIFICATION Spec
CONSTANTS
    Task = {t1, t2}
    Block = {k1, k2, k3}
    NR_BUFFERS = 2
    Ops = {"read", "breada"}
    ReadsAhead = {t1, t2}
    IoErrors = {}
    NrContents = 1
    NULL = NULL
INVARIANTS NobodySleepsForFreeBuffer
