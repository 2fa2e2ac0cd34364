SPECIFICATION Spec
CONSTANTS
    Task = {t1, t2, t3}
    Idle = idle
    NULL = NULL
    SleepQueue = {s1}
    InterruptibleQueue = {i1}
    Masked = {s1, i1}
INVARIANTS HeadIsASleeper
