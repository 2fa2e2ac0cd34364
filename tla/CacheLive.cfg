SPECIFICATION FairSpec
CONSTANTS
    Task = {t1, t2}
    Block = {k1, k2, k3}
    NR_BUFFERS = 2
    Ops = {"copy", "breada"}
    ReadsAhead = {t1}
    IoErrors = {}
    NrContents = 1
    NULL = NULL
PROPERTIES OperationsEnd
