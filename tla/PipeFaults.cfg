SPECIFICATION Spec
CONSTANTS
    Task = {t1, t2}
    PAGE_SIZE = 4
    NR_FILE = 2
    NR_OPEN = 2
    Counts = {2}
    Faults = TRUE
    NULL = NULL
INVARIANTS ReadsTheStream
CHECK_DEADLOCK FALSE
