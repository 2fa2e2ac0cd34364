SPECIFICATION Spec
CONSTANTS
    Task = {t1, t2}
    Blocks = {0, 1, 2}
    NR_REQUEST = 3
    MAX_ERRORS = 1
    NrSects = 4
    NULL = NULL
INVARIANTS ListIsWhole LockHasOneOwner RoomForReads SleepersWillBeWoken
