SPECIFICATION Spec
CONSTANTS
    Task = {t1, t2}
    NR_PAGES = 9
    Program = {x1}
    NR_ADDR = 3
    TABLE = 2
    EndData = 1
    Windows = {"exec", "oom"}
    NULL = NULL
INVARIANTS CountsAreUses
SYMMETRY Symmetry
VIEW View
CHECK_DEADLOCK FALSE
