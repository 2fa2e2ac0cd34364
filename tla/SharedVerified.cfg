SPECIFICATION Spec
CONSTANTS
    Task = {t1, t2}
    NR_PAGES = 11
    Program = {x1}
    NR_ADDR = 3
    TABLE = 2
    EndData = 1
    Windows = {"write"}
    NULL = NULL
PROPERTIES MemoriesAreSeparate
SYMMETRY Symmetry
VIEW View
CHECK_DEADLOCK FALSE
