SPECIFICATION Spec
CONSTANTS
    Task = {t1, t2}
    NULL = NULL
    NR_INODE = 3
    Num = {1, 2}
    BlkNum = {1}
    File = {x1, x2}
    Block = {1, 2, 3}
    DIRECT = 1
    PER = 1
    FileBlock = {0, 1, 2}
    Dir = {x1, x2}
    Dev = {v1, v2}
    NR_SUPER = 2
    Node = {r, x1, x2}
    ROOT = r
    SIZE = 2
    InodeRegimes = {{"create", "unlink", "modify"}, {"create", "modify", "sync", "block_files"}}
    BlockRegimes = {{}}
    MountRegimes = {{}, {"disk_change"}}
    DirRegimes = {{"dirs"}, {"full", "nodes"}}
INVARIANTS OneInodePerNumber CountIsHolders NoChangeIsLost SleeperHasHope
    BlocksAreWhole ReadsOwnFile MountsAreWhole DirectoriesAreATree NeverPanics
SYMMETRY Symmetry
