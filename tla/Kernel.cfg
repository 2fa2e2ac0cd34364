SPECIFICATION Spec
CONSTANTS
    Task = {t1, t2}
    NULL = NULL
    SIZE = 4
    RSIZE = 2
    MARGIN = 1
    MAXNR = 2
    MAXTEXT = 1
    LASTTICK = 3
    FAR = 9
    Line = {l1}
    ROOM = 2
    STARTUP = 1
    LINES = 3
    COLS = 2
    MEM = 8
    TAB = 2
    NPAR = 2
    MAXPAR = 2
    COL7 = 9
    COL8 = 9
    Glyph = {a}
    BLANK = BLANK
    NR_TASKS = 3
    MAXPID = 4
    PRIORITY = 2
    RAISED = 3
    ALARM = 2
    Drive = {0, 1}
    Track = {0, 1}
    BEYOND = 9
    NR_REQUEST = 2
    MAX_ERRORS = 1
    Changer = {u1}
    SPINUP = 2
    SHORT = 2
    LONG = 3
    InputRegimes = {{"raw", "timeout"}, {"erase", "eof"}, {"erase", "signal"}, {"erase", "long"}, {"erase", "modes"}, {"long", "modes"}}
    OutputRegimes = {{"flush"}, {"echo"}}
    ConsoleInputs = {{"r", "M"}, {"u", "s", "m", "Z", "other"}, {"J", "K", "@"}, {"L", "P"}, {"A", "B", "C", "D", "E", "F", "G", "d"}, {"H"}}
    ProcessRegimes = {{"signals"}, {"few_slots", "sessions", "groups", "terminal"}, {"few_slots", "signals", "handlers", "masks"}}
    SchedulerRegimes = {{"sleep"}, {"alarms"}, {"nice"}, {"fork"}}
    FloppyRegimes = {{"two_drives", "io_errors"}, {"fdc_errors"}, {"beyond"}, {"stray"}}
INVARIANTS QueueIsTheLine AlarmIsKept QueueIsTheOutput FamiliesAreWhole
    SleepersHaveHope WaitIsBounded TransfersAreRight
PROPERTIES ShowsTheScreen
SYMMETRY Symmetry
VIEW View
