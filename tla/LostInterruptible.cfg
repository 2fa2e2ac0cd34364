SPECIFICATION Spec
CONSTANTS
    Task = {t1, t2, t3}
    Idle = idle
    NULL = NULL
    SleepQueue = {}
    InterruptibleQueue = {i1}
    Masked = {i1}
INVARIANTS NoLostInterruptible
