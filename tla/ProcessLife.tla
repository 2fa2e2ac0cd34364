----------------------------- MODULE ProcessLife -----------------------------
(***************************************************************************)
(* The life of processes: fork (find_empty_process(), copy_process()), the *)
(* three parts of do_exit(), sys_waitpid() and release(), signals with     *)
(* their masks and handlers (kernel/signal.c, ret_from_sys_call), kill(),  *)
(* process groups and sessions (kernel/exit.c, kernel/sys.c).              *)
(*                                                                         *)
(* A system call is a step, but do_exit() sleeps when it closes files, and *)
(* sys_waitpid() and sys_pause() sleep until schedule() finds a signal.    *)
(* Memory and files are in Memory and Pipe, task 0 is not modelled.        *)
(***************************************************************************)
EXTENDS Naturals, FiniteSets

CONSTANTS NR_TASKS,   \* slots of the task table that task 0 leaves
          MAXPID,     \* the largest number of a process
          Regimes,    \* the sets of features to be explored, see Init
          NULL

Feature == {"few_slots",   \* the last slot belongs to a process that stays
            "signals",     \* kill() and pause()
            "masks",       \* sys_ssetmask()
            "mask_child",  \* SIGCHLD is masked as well
            "handlers",    \* sys_sigaction()
            "sessions",    \* sys_setsid()
            "groups",      \* sys_setpgid()
            "terminal",    \* the interrupt key and TIOCSPGRP
            "wait_group",  \* sys_waitpid() for the caller's group
            "init_killed"} \* signals are sent to init, or to all

Slot == 1..NR_TASKS
Pid == 1..MAXPID
Signals == {"CHLD", "TERM", "HUP"}
Handler == {"default", "ignore", "handler"}

VARIABLES on,
          task,       \* the task table: NULL, or the process in a slot
          last_pid,
          tty_pgrp    \* the group of the terminal, that of its session's leader

vars == <<on, task, last_pid, tty_pgrp>>

\* state is TASK_RUNNING, TASK_INTERRUPTIBLE or TASK_ZOMBIE, at is where the
\* process is; who waits waits for the child of that number, for ANY child or
\* for one of its own GROUP.
ANY == 0
GROUP == MAXPID + 1

Process == [pid : Pid, father : Nat, pgrp : Nat, session : Nat, leader : BOOLEAN,
            state : {"running", "interruptible", "zombie"},
            at : {"user", "wait", "pause", "close", "end"},
            for : 0..GROUP,
            signal : SUBSET Signals, blocked : SUBSET Signals,
            handler : Handler]

ProcessLifeAssumption ==
    /\ NR_TASKS \in Nat \ {0} /\ MAXPID \in Nat /\ MAXPID > NR_TASKS
    /\ Regimes \subseteq SUBSET Feature
    /\ NULL \notin Pid /\ NULL \notin Process

TypeOK ==
    /\ on \in Regimes
    /\ task \in [Slot -> Process \cup {NULL}]
    /\ last_pid \in Pid
    /\ tty_pgrp \in 0..MAXPID

INIT == [pid |-> 1, father |-> 0, pgrp |-> 0, session |-> 0, leader |-> FALSE,
         state |-> "running", at |-> "user", for |-> 0, signal |-> {},
         blocked |-> {}, handler |-> "default"]

Init ==
    /\ on \in Regimes
    /\ task = [i \in Slot |-> IF i = 1 THEN INIT ELSE NULL]
    /\ last_pid = 1
    /\ tty_pgrp = 0

-----------------------------------------------------------------------------
There(i) == task[i] # NULL
Tasks == {i \in Slot : There(i)}
PidOf(i) == task[i].pid

\* The process in slot i executes in state at.
At(i, at) == There(i) /\ task[i].state = "running" /\ task[i].at = at

\* signal |= sig for the tasks of set S, in table tab.
Send(tab, S, sig) ==
    [i \in Slot |-> IF i \in S /\ tab[i] # NULL
                    THEN [tab[i] EXCEPT !.signal = @ \cup {sig}] ELSE tab[i]]

-----------------------------------------------------------------------------
(***************************************************************************)
(* fork()                                                                  *)
(***************************************************************************)
\* Mutant: the numbers of zombies are taken for free.
UnusedByLiving(p) == \A i \in Tasks : task[i].state # "zombie" => PidOf(i) # p

Unused(p) == \A i \in Tasks : PidOf(i) # p

\* find_empty_process(): the next number that no task has; after the largest
\* comes 1.
FreshPid ==
    LET after == [k \in 1..MAXPID |-> IF last_pid + k <= MAXPID THEN last_pid + k
                                      ELSE last_pid + k - MAXPID]
    IN  after[CHOOSE k \in 1..MAXPID :
                 Unused(after[k]) /\ \A j \in 1..(k - 1) : ~Unused(after[j])]

\* copy_process(); what fails leaves the number used up.
Fork(i) ==
    /\ At(i, "user")
    /\ last_pid' = FreshPid
    /\ \/ UNCHANGED task
       \/ \E n \in Slot :
             /\ "few_slots" \in on => n < NR_TASKS
             /\ ~There(n) /\ \A m \in Slot : ~There(m) => n <= m
             /\ task' = [task EXCEPT ![n] =
                   [task[i] EXCEPT !.pid = FreshPid, !.father = PidOf(i),
                                   !.signal = {}, !.leader = FALSE]]
    /\ UNCHANGED <<on, tty_pgrp>>

-----------------------------------------------------------------------------
(***************************************************************************)
(* do_exit()                                                               *)
(***************************************************************************)
\* Mutant: init is not told of the zombies that it gets.
GiveQuietly(i) ==
    [j \in Slot |-> IF There(j) /\ task[j].father = PidOf(i)
                    THEN [task[j] EXCEPT !.father = 1] ELSE task[j]]

\* The children are given to init, which is told of those that are zombies.
GiveToInit(i) ==
    LET mine == {j \in Tasks : task[j].father = PidOf(i)}
        given == [j \in Slot |-> IF j \in mine THEN [task[j] EXCEPT !.father = 1]
                                 ELSE task[j]]
    IN  IF \E j \in mine : task[j].state = "zombie" THEN Send(given, {1}, "CHLD")
        ELSE given

MayExit(i) == "init_killed" \in on \/ PidOf(i) # 1

BeginExit(i) ==
    /\ task' = [GiveToInit(i) EXCEPT ![i].at = "close"]
    /\ UNCHANGED <<on, last_pid, tty_pgrp>>

Exit(i) == At(i, "user") /\ MayExit(i) /\ BeginExit(i)

\* The task is a zombie; its father is told.  Without one it releases itself.
EndExit(i) ==
    /\ At(i, "close")
    /\ tty_pgrp' = IF task[i].leader THEN 0 ELSE tty_pgrp
    /\ LET members == {j \in Tasks : task[i].leader /\ task[j].session = task[i].session}
           hung == Send(task, members, "HUP")
           dead == [hung EXCEPT ![i].state = "zombie", ![i].at = "end"]
           fathers == {j \in Tasks : PidOf(j) = task[i].father}
       IN  task' = IF task[i].father = 0 THEN [dead EXCEPT ![i] = NULL]
                   ELSE IF fathers = {} THEN [dead EXCEPT ![i] = NULL]
                   ELSE Send(dead, {CHOOSE j \in fathers : \A k \in fathers : j <= k}, "CHLD")
    /\ UNCHANGED <<on, last_pid>>

-----------------------------------------------------------------------------
(***************************************************************************)
(* sys_waitpid(), sys_pause() and schedule()                               *)
(***************************************************************************)
\* The children that a call for p, or for any, is about.
Children(i, p) ==
    {j \in Tasks \ {i} : /\ task[j].father = PidOf(i)
                         /\ CASE p = ANY   -> TRUE
                              [] p = GROUP -> task[j].pgrp = task[i].pgrp
                              [] OTHER     -> PidOf(j) = p}

ZombiesOf(i, p) == {j \in Children(i, p) : task[j].state = "zombie"}

\* One turn of the search: a zombie is released, from the end of the table;
\* with WNOHANG, or without children, the call is over.
Search(i, p, tab) ==
    LET z == ZombiesOf(i, p)
    IN  IF z # {}
        THEN \E j \in z :
               /\ \A k \in z : k <= j
               /\ task' = [tab EXCEPT ![j] = NULL, ![i].at = "user", ![i].for = 0,
                                      ![i].state = "running"]
        ELSE IF Children(i, p) = {}
        THEN task' = [tab EXCEPT ![i].at = "user", ![i].for = 0]
        ELSE \/ task' = [tab EXCEPT ![i].at = "wait", ![i].for = p,
                                    ![i].state = "interruptible"]
             \/ /\ task[i].at = "user" /\ UNCHANGED task

WaitPid(i) ==
    /\ At(i, "user")
    /\ \E p \in {ANY} \cup {PidOf(j) : j \in Tasks}
                \cup (IF "wait_group" \in on THEN {GROUP} ELSE {}) :
          Search(i, p, task)
    /\ UNCHANGED <<on, last_pid, tty_pgrp>>

\* sys_waitpid() when schedule() returns: SIGCHLD is taken, and another signal
\* ends the call, blocked or not.
WaitAgain(i) ==
    /\ At(i, "wait")
    /\ LET left == task[i].signal \ {"CHLD"}
           tab == [task EXCEPT ![i].signal = left]
       IN  IF left # {} THEN task' = [tab EXCEPT ![i].at = "user", ![i].for = 0]
           ELSE Search(i, task[i].for, tab)
    /\ UNCHANGED <<on, last_pid, tty_pgrp>>

Pause(i) ==
    /\ At(i, "user") /\ PidOf(i) # 1 /\ "signals" \in on
    /\ task' = [task EXCEPT ![i].at = "pause", ![i].state = "interruptible"]
    /\ UNCHANGED <<on, last_pid, tty_pgrp>>

Unpause(i) ==
    /\ At(i, "pause")
    /\ task' = [task EXCEPT ![i].at = "user"]
    /\ UNCHANGED <<on, last_pid, tty_pgrp>>

\* schedule(): a signal that is not blocked wakes a task that may be
\* interrupted.
Wake(i) ==
    /\ There(i) /\ task[i].state = "interruptible"
    /\ task[i].signal \ task[i].blocked # {}
    /\ task' = [task EXCEPT ![i].state = "running"]
    /\ UNCHANGED <<on, last_pid, tty_pgrp>>

-----------------------------------------------------------------------------
(***************************************************************************)
(* Signals                                                                 *)
(***************************************************************************)
\* SIGCHLD has number 17, SIGTERM 15 and SIGHUP 1: the lowest comes first.
First(S) == IF "HUP" \in S THEN "HUP" ELSE IF "TERM" \in S THEN "TERM" ELSE "CHLD"

\* ret_from_sys_call and do_signal(): one signal that is not blocked.  The
\* handler is for SIGTERM, used once; the others have the default.
DoSignal(i) ==
    /\ At(i, "user") /\ task[i].signal \ task[i].blocked # {}
    /\ LET sig == First(task[i].signal \ task[i].blocked)
           h == IF sig = "TERM" THEN task[i].handler ELSE "default"
           taken == [task EXCEPT ![i].signal = @ \ {sig}]
       IN  IF h = "default" /\ sig # "CHLD" /\ MayExit(i)
           THEN task' = [GiveToInit(i) EXCEPT ![i].at = "close", ![i].signal = @ \ {sig}]
           ELSE task' = IF h = "handler" THEN [taken EXCEPT ![i].handler = "default"]
                        ELSE taken
    /\ UNCHANGED <<on, last_pid, tty_pgrp>>

\* kill(-1): an else of the source belongs to the if before it, so that the
\* search ends with the first task, from the end of the table, that got the
\* signal; of the others only group 1 gets it, and kill(-pgrp) does nothing.
KilledByAll ==
    LET last == CHOOSE j \in Tasks : \A k \in Tasks : k <= j
    IN  {last} \cup {j \in Tasks : task[j].pgrp = 1}

\* sys_kill(): to a process, to the group with the number of the sender, to all.
Kill(i) ==
    /\ At(i, "user") /\ "signals" \in on
    /\ \E S \in {{j \in Tasks : task[j].pgrp = PidOf(i)}, KilledByAll}
                \cup {{j \in Tasks : PidOf(j) = p} : p \in Pid} :
          /\ S # {} /\ ("init_killed" \in on \/ 1 \notin S)
          /\ task' = Send(task, S, "TERM")
    /\ UNCHANGED <<on, last_pid, tty_pgrp>>

\* tty_intr(): the group of the terminal.
TtyIntr ==
    /\ tty_pgrp > 0 /\ "terminal" \in on
    /\ LET S == {j \in Tasks : task[j].pgrp = tty_pgrp}
       IN  S # {} /\ ("init_killed" \in on \/ 1 \notin S) /\ task' = Send(task, S, "TERM")
    /\ UNCHANGED <<on, last_pid, tty_pgrp>>

SetMask(i) ==
    /\ At(i, "user") /\ "masks" \in on
    /\ \E m \in {{}, {"TERM"}} \cup (IF "mask_child" \in on THEN {{"CHLD"}} ELSE {}) :
          task' = [task EXCEPT ![i].blocked = m]
    /\ UNCHANGED <<on, last_pid, tty_pgrp>>

SigAction(i) ==
    /\ At(i, "user") /\ "handlers" \in on
    /\ \E h \in Handler : task' = [task EXCEPT ![i].handler = h]
    /\ UNCHANGED <<on, last_pid, tty_pgrp>>

SetSid(i) ==
    /\ At(i, "user") /\ "sessions" \in on /\ ~task[i].leader
    /\ task' = [task EXCEPT ![i].leader = TRUE, ![i].session = PidOf(i), ![i].pgrp = PidOf(i)]
    /\ UNCHANGED <<on, last_pid, tty_pgrp>>

SetPgid(i) ==
    /\ At(i, "user") /\ "groups" \in on
    /\ \E j \in Tasks, g \in {PidOf(k) : k \in Tasks} :
          /\ ~task[j].leader /\ task[j].session = task[i].session
          /\ task' = [task EXCEPT ![j].pgrp = g]
    /\ UNCHANGED <<on, last_pid, tty_pgrp>>

\* TIOCSPGRP
SetTtyGroup(i) ==
    /\ At(i, "user") /\ "terminal" \in on
    /\ tty_pgrp' = task[i].pgrp
    /\ UNCHANGED <<on, task, last_pid>>

Next ==
    \/ \E i \in Slot :
          \/ Fork(i) \/ Exit(i) \/ EndExit(i) \/ WaitPid(i) \/ WaitAgain(i)
          \/ Pause(i) \/ Unpause(i) \/ Wake(i) \/ DoSignal(i) \/ Kill(i)
          \/ SetMask(i) \/ SigAction(i) \/ SetSid(i) \/ SetPgid(i) \/ SetTtyGroup(i)
    \/ TtyIntr

Spec == Init /\ [][Next]_vars

-----------------------------------------------------------------------------
(***************************************************************************)
(* Properties.                                                             *)
(***************************************************************************)
\* A process is found by its number, also when it is a zombie.
PidsAreUnique == \A i, j \in Tasks : PidOf(i) = PidOf(j) => i = j

\* Each process but init has a father that can wait for it: tell_father()
\* finds it, through all orders in which the two end.
FatherIsThere ==
    \A i \in Tasks : PidOf(i) # 1 =>
       \E j \in Tasks \ {i} : /\ PidOf(j) = task[i].father
                              /\ task[j].state # "zombie" /\ task[j].at # "close"

\* No process sleeps in sys_waitpid() for a child that has ended, unless the
\* signal that will wake it is pending.
WaiterHasHope ==
    \A i \in Tasks :
       task[i].at = "wait" /\ task[i].state = "interruptible" =>
          /\ Children(i, ANY) # {}
          /\ ZombiesOf(i, task[i].for) # {} => task[i].signal \ task[i].blocked # {}

\* init is in slot 1, where do_exit() looks for it.
InitIsFirst == task[1] # NULL /\ PidOf(1) = 1
=============================================================================
