SPECIFICATION Spec
CONSTANTS
    Task = {t1, t2}
    Block = {k1, k2, k3}
    NR_BUFFERS = 2
    Ops = {"read", "modify", "sync"}
    ReadsAhead = {}
    IoErrors = {"READ"}
    NrContents = 2
    NULL = NULL
INVARIANTS OneBufferPerBlock CountIsHolders HeldBufferStays NoUpdateIsLost
SYMMETRY Symmetry
