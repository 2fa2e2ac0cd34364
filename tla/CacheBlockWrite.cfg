SPECIFICATION Spec
CONSTANTS
    Task = {t1}
    Block = {k1}
    NR_BUFFERS = 1
    Ops = {"read", "block_write"}
    ReadsAhead = {}
    IoErrors = {}
    NrContents = 2
    NULL = NULL
INVARIANTS NoUpdateIsLost
