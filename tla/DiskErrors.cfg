SPECIFICATION FairSpec
CONSTANTS
    Task = {}
    Blocks = {0, 1, 2}
    NR_REQUEST = 3
    MAX_ERRORS = 3
    NrSects = 4
    NULL = NULL
PROPERTIES RequestEnds
