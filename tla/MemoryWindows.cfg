SPECIFICATION Spec
CONSTANTS
    Task = {t1, t2, t3}
    NR_PAGES = 7
    Program = {x1}
    NR_ADDR = 2
    TABLE = 2
    EndData = 1
    Windows = {"retry", "write", "close", "absent", "unused"}
    NULL = NULL
INVARIANTS CountsAreUses WritableIsPrivate
SYMMETRY Symmetry
VIEW View
CHECK_DEADLOCK FALSE
