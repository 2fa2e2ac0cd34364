SPECIFICATION Spec
CONSTANTS
    Task = {t1, t2, t3}
    PAGE_SIZE = 4
    NR_FILE = 3
    NR_OPEN = 2
    Counts = {2, 4}
    Faults = FALSE
    NULL = NULL
SYMMETRY Symmetry
INVARIANTS CountsAreHolders ReadsTheStream SleepersHaveReason
\* A task that reads from an empty pipe of its own sleeps for ever, rightly.
CHECK_DEADLOCK FALSE
