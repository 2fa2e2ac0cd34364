SPECIFICATION Spec
CONSTANTS
    Task = {t1, t2}
    Block = {k1}
    NR_BUFFERS = 1
    Ops = {"read", "modify", "sync"}
    ReadsAhead = {}
    IoErrors = {"READ", "WRITE"}
    NrContents = 1
    NULL = NULL
INVARIANTS UsedBufferStaysValid
