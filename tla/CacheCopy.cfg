SPECIFICATION Spec
CONSTANTS
    Task = {t1, t2}
    Block = {k1, k2}
    NR_BUFFERS = 2
    Ops = {"read", "copy", "sync"}
    ReadsAhead = {}
    IoErrors = {}
    NrContents = 2
    NULL = NULL
INVARIANTS NoUpdateIsLost
