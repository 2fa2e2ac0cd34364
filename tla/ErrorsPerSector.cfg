SPECIFICATION Spec
CONSTANTS
    Task = {t1}
    Blocks = {0, 1}
    NR_REQUEST = 3
    MAX_ERRORS = 3
    NrSects = 4
    NULL = NULL
PROPERTIES ErrorsArePerSector
