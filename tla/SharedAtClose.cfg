SPECIFICATION Spec
CONSTANTS
    Task = {t1, t2}
    NR_PAGES = 11
    Program = {x1, x2}
    NR_ADDR = 3
    TABLE = 2
    EndData = 1
    Windows = {"close"}
    NULL = NULL
PROPERTIES MemoriesAreSeparate
SYMMETRY Symmetry
VIEW View
CHECK_DEADLOCK FALSE
