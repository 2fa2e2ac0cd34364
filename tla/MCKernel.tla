------------------------------ MODULE MCKernel ------------------------------
(***************************************************************************)
(* Instances of the modules for kernel/ that have one each, to be checked  *)
(* in one run: a behaviour is one of one part.  Parts share the variables  *)
(* that have the same name.                                                *)
(***************************************************************************)
EXTENDS Naturals, TLC

CONSTANTS Task, NULL,
          SIZE, RSIZE, MARGIN, MAXNR, LASTTICK, FAR,         \* of TerminalInput
          Line, ROOM, STARTUP, MAXTEXT,                      \* of TerminalOutput
          LINES, COLS, MEM, TAB, NPAR, MAXPAR, COL7, COL8,   \* of Console
          Glyph, BLANK,
          NR_TASKS, MAXPID,                                  \* of ProcessLife
          PRIORITY, RAISED, ALARM,                           \* of Scheduler
          Drive, Track, BEYOND, NR_REQUEST, MAX_ERRORS,      \* of Floppy
          SPINUP, SHORT, LONG, Changer,
          InputRegimes, OutputRegimes, ConsoleInputs, ProcessRegimes,
          SchedulerRegimes, FloppyRegimes

VARIABLES part, on, pc, nr, head, tail, buf, asleep, signal, alarm, state,
          canon, read_q, data, line, intr, got, c, flag, oldalarm, jiffies, asked,
          queued, ier, cr_flag, tty, text, running, last, bare,
          video, mem, origin, scr_end, pos, x, y, top, bottom, saved, npar, par, ques,
          finals,
          task, last_pid, tty_pgrp,
          current, counter, priority, highest, kernel, waited,
          fd

ofInput == <<canon, read_q, data, line, intr, got, c, flag, oldalarm, jiffies, asked>>
ofOutput == <<queued, ier, cr_flag, tty, text, running, last, bare>>
ofConsole == <<video, mem, origin, scr_end, pos, x, y, top, bottom, saved, npar, par,
               ques, finals>>
ofProcesses == <<task, last_pid, tty_pgrp>>
ofScheduler == <<current, counter, priority, highest, kernel, waited>>
ofTerminals == <<head, tail, buf, asleep>>
vars == <<part, on, pc, nr, ofTerminals, signal, alarm, state, ofInput, ofOutput,
          ofConsole, ofProcesses, ofScheduler, fd>>

I == INSTANCE TerminalInput WITH Regimes <- InputRegimes
O == INSTANCE TerminalOutput WITH MAXNR <- MAXTEXT, Regimes <- OutputRegimes
C == INSTANCE Console WITH Inputs <- ConsoleInputs
P == INSTANCE ProcessLife WITH Regimes <- ProcessRegimes
S == INSTANCE Scheduler WITH Regimes <- SchedulerRegimes
F == INSTANCE Floppy WITH Task <- Changer, Regimes <- FloppyRegimes

ASSUME KernelAssumption ==
    /\ I!TerminalInputAssumption /\ O!TerminalOutputAssumption
    /\ C!ConsoleAssumption /\ P!ProcessLifeAssumption
    /\ S!SchedulerAssumption /\ F!FloppyAssumption

Symmetry == Permutations(Task) \cup Permutations(Line)

\* What counts of the parameters of a sequence: nothing when it is over, or when
\* no final character looks at them, and the second only for two of them.
Parameters ==
    IF state # 3 \/ finals \subseteq {"s", "u", "m", "Z", "other"} THEN <<>>
    ELSE IF finals \cap {"r", "H"} = {} THEN <<npar = 0, par[0]>>
    ELSE <<npar, par>>

\* The cells outside the window are written before the window comes to them.
ConsoleView ==
    <<video, origin, scr_end, pos, x, y, top, bottom, saved, state, finals,
      [k \in {i \in C!Cell : i >= origin /\ i < scr_end} |-> mem[k]],
      Parameters>>
View == IF part = "console" THEN ConsoleView ELSE vars
-----------------------------------------------------------------------------
NoInput ==
    /\ canon = NULL /\ read_q = NULL /\ data = NULL /\ line = NULL /\ intr = NULL
    /\ got = NULL /\ c = NULL /\ flag = NULL /\ oldalarm = NULL /\ jiffies = NULL
    /\ asked = NULL
NoOutput ==
    /\ queued = NULL /\ ier = NULL /\ cr_flag = NULL /\ tty = NULL /\ text = NULL
    /\ running = NULL /\ last = NULL /\ bare = NULL
NoConsole ==
    /\ video = NULL /\ mem = NULL /\ origin = NULL /\ scr_end = NULL /\ pos = NULL
    /\ x = NULL /\ y = NULL /\ top = NULL /\ bottom = NULL /\ saved = NULL
    /\ npar = NULL /\ par = NULL /\ ques = NULL /\ finals = NULL
NoProcesses == task = NULL /\ last_pid = NULL /\ tty_pgrp = NULL
NoScheduler ==
    /\ current = NULL /\ counter = NULL /\ priority = NULL /\ kernel = NULL
    /\ highest = NULL /\ waited = NULL
NoTerminals == head = NULL /\ tail = NULL /\ buf = NULL /\ asleep = NULL
NoSignals == signal = NULL /\ alarm = NULL

Init ==
    \/ /\ part = "input" /\ I!Init
       /\ NoOutput /\ NoConsole /\ NoProcesses /\ NoScheduler
       /\ state = NULL /\ fd = NULL
    \/ /\ part = "output" /\ O!Init
       /\ NoInput /\ NoConsole /\ NoProcesses /\ NoScheduler /\ NoSignals
       /\ nr = NULL /\ state = NULL /\ fd = NULL
    \/ /\ part = "console" /\ C!Init
       /\ NoInput /\ NoOutput /\ NoProcesses /\ NoScheduler /\ NoTerminals /\ NoSignals
       /\ on = NULL /\ pc = NULL /\ nr = NULL /\ fd = NULL
    \/ /\ part = "processes" /\ P!Init
       /\ NoInput /\ NoOutput /\ NoConsole /\ NoScheduler /\ NoTerminals /\ NoSignals
       /\ pc = NULL /\ nr = NULL /\ state = NULL /\ fd = NULL
    \/ /\ part = "scheduler" /\ S!Init
       /\ NoInput /\ NoOutput /\ NoConsole /\ NoProcesses /\ NoTerminals
       /\ pc = NULL /\ nr = NULL /\ fd = NULL
    \/ /\ part = "floppy" /\ F!Init
       /\ NoInput /\ NoOutput /\ NoConsole /\ NoProcesses /\ NoScheduler
       /\ NoTerminals /\ NoSignals /\ state = NULL

InputStep ==
    /\ part = "input" /\ I!Next
    /\ UNCHANGED <<part, state, fd, ofOutput, ofConsole, ofProcesses, ofScheduler>>
OutputStep ==
    /\ part = "output" /\ O!Next
    /\ UNCHANGED <<part, nr, signal, alarm, state, fd, ofInput, ofConsole, ofProcesses,
                   ofScheduler>>
ConsoleStep ==
    /\ part = "console" /\ C!Next
    /\ UNCHANGED <<part, on, pc, nr, signal, alarm, fd, ofTerminals, ofInput, ofOutput,
                   ofProcesses, ofScheduler>>
ProcessesStep ==
    /\ part = "processes" /\ P!Next
    /\ UNCHANGED <<part, pc, nr, signal, alarm, state, fd, ofTerminals, ofInput,
                   ofOutput, ofConsole, ofScheduler>>
SchedulerStep ==
    /\ part = "scheduler" /\ S!Next
    /\ UNCHANGED <<part, pc, nr, fd, ofTerminals, ofInput, ofOutput, ofConsole,
                   ofProcesses>>
FloppyStep ==
    /\ part = "floppy" /\ F!Next
    /\ UNCHANGED <<part, signal, alarm, state, ofTerminals, ofInput, ofOutput, ofConsole,
                   ofProcesses, ofScheduler>>

\* All processes may be in sys_pause(), or wait for each other.
AllWait == part = "processes" /\ UNCHANGED vars

Next ==
    \/ InputStep \/ OutputStep \/ ConsoleStep \/ ProcessesStep \/ SchedulerStep
    \/ FloppyStep \/ AllWait

Spec == Init /\ [][Next]_vars
-----------------------------------------------------------------------------
(***************************************************************************)
(* The properties of the parts.                                            *)
(***************************************************************************)
\* The queue of a terminal holds what was typed, edited and not yet read, and
\* its number of lines is right, while the reader and the interrupt both take
\* characters out.
QueueIsTheLine == part = "input" => I!QueueIsTheLine /\ I!DataCountsLines

\* tty_read() gives the task back the alarm that it had asked for.
AlarmIsKept == part = "input" => I!AlarmIsKept

\* A line sends what was written to it, once and in order.
QueueIsTheOutput == part = "output" => O!QueueIsTheOutput

\* The console implements module Screen.
ShowsTheScreen ==
    /\ part = "console" => C!Shown!Init
    /\ [][part = "console" => UNCHANGED C!Shown!screen \/ C!Shown!Next]_vars

\* Processes have numbers of their own, and each a father that can wait for it;
\* init is where do_exit() looks for it.
FamiliesAreWhole ==
    part = "processes" => P!PidsAreUnique /\ P!FatherIsThere /\ P!InitIsFirst

\* Who sleeps for a line, for a child that has ended, or for a drive will be
\* woken.
SleepersHaveHope ==
    /\ part = "output" => O!WriterHasHope
    /\ part = "processes" => P!WaiterHasHope
    /\ part = "floppy" => F!SleepersAreServed

\* A task that can run gets the processor within a bounded number of ticks.
WaitIsBounded == part = "scheduler" => S!WaitIsBounded

\* The floppy transfers with the right drive selected, its motor at speed and
\* the head on the track, and its driver does not stop while there is work.
TransfersAreRight == part = "floppy" => F!TransfersAreRight /\ F!DriverIsAwake
=============================================================================
