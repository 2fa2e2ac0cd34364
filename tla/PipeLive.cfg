SPECIFICATION FairSpec
CONSTANTS
    Task = {t1, t2}
    PAGE_SIZE = 4
    NR_FILE = 2
    NR_OPEN = 2
    Counts = {4}
    Faults = TRUE
    NULL = NULL
PROPERTIES HangUpEndsCalls
\* As in PipeStream.cfg.
CHECK_DEADLOCK FALSE
