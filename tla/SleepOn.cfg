SPECIFICATION FairSpec
CONSTANTS
    Task = {t1, t2, t3}
    Idle = idle
    NULL = NULL
    SleepQueue = {s1, s2}
    InterruptibleQueue = {}
    Masked = {s1, s2}
INVARIANTS NoLostWaiter NoSpuriousWakeUp
PROPERTIES WakeUpReachesAll ImplementsWaitQueue ZombieStaysDead
