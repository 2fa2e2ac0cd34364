SPECIFICATION Spec
CONSTANTS
    Task = {t1, t2}
    Idle = idle
    NULL = NULL
    SleepQueue = {s1}
    InterruptibleQueue = {}
    Masked = {}
INVARIANTS NoLostUnmasked
