------------------------------ MODULE Scheduler ------------------------------
(***************************************************************************)
(* The scheduler (kernel/sched.c, and the way out of a system call in      *)
(* kernel/system_call.s): the clock takes the time of the current task,    *)
(* schedule() chooses the task with most time left and gives new time when *)
(* no task that can run has any; sleeping, nice(), alarms and fork().      *)
(*                                                                         *)
(* SleepWake has the queues that tasks sleep on; here another task or an   *)
(* interrupt wakes a sleeper at any time.                                  *)
(***************************************************************************)
EXTENDS Integers, FiniteSets, FiniteSetsExt

CONSTANTS NR_TASKS,  \* tasks besides the idle task 0
          PRIORITY,  \* what a task begins with
          RAISED,    \* for the bound, the most it may raise it to
          ALARM,     \* the ticks of the longest alarm
          Regimes,   \* the sets of features to be explored, see Init
          NULL

Feature == {"sleep", "alarms", "nice",
            "fork",   \* tasks come and go
            "spawn"}  \* and their new time counts for who waits

SchedulerAssumption ==
    /\ NR_TASKS \in Nat /\ PRIORITY \in Nat \ {0} /\ ALARM \in Nat
    /\ RAISED \in Nat /\ PRIORITY <= RAISED
    /\ Regimes \subseteq SUBSET Feature
    /\ NULL \notin Int

Tasks == 1..NR_TASKS

VARIABLES on,
          current,   \* 0 is the idle task
          state,     \* "free" is a slot without a task
          counter, priority,
          highest,   \* not in the code: the highest priority there has been
          alarm,     \* NULL, or the ticks until the alarm: alarm - jiffies
          signal,    \* is SIGALRM pending?
          kernel,    \* is the task in a system call?
          waited     \* not in the code: ticks that a task could run and did not

vars == <<on, current, state, counter, priority, highest, alarm, signal, kernel, waited>>

\* What a task can have saved with the priorities that there have been.
MaxCounter == 2 * highest - 1

\* The ticks after which a task has run, see WaitIsBounded.
MaxWait == (NR_TASKS - 1) * (MaxCounter + highest)

TypeOK ==
    /\ on \in Regimes
    /\ current \in 0..NR_TASKS
    /\ state \in [Tasks -> {"free", "running", "interruptible", "uninterruptible"}]
    /\ counter \in [Tasks -> 0..MaxCounter]
    /\ priority \in [Tasks -> 1..highest]
    /\ highest \in 1..RAISED
    /\ alarm \in [Tasks -> (-1)..ALARM \cup {NULL}]
    /\ signal \in [Tasks -> BOOLEAN]
    /\ kernel \in [Tasks -> BOOLEAN]
    /\ waited \in [Tasks -> Nat]

Init ==
    /\ on \in Regimes
    /\ current = 1
    /\ state = [t \in Tasks |-> IF "fork" \in on /\ t = NR_TASKS THEN "free" ELSE "running"]
    /\ counter = [t \in Tasks |-> PRIORITY]
    /\ priority = [t \in Tasks |-> PRIORITY]
    /\ highest = PRIORITY
    /\ alarm = [t \in Tasks |-> NULL]
    /\ signal = [t \in Tasks |-> FALSE]
    /\ kernel = [t \in Tasks |-> FALSE]
    /\ waited = [t \in Tasks |-> 0]

-----------------------------------------------------------------------------
\* New time for all, half of what is left of it is kept.
Recharged(st, time) ==
    [t \in Tasks |-> IF st[t] = "free" THEN time[t] ELSE time[t] \div 2 + priority[t]]

\* Mutant: new time is given as soon as one task has none.
SpentByOne(ready, time) == \E t \in ready : time[t] = 0

\* Has the time of all tasks that can run been used up?
Spent(ready, time) == ready # {} /\ \A t \in ready : time[t] = 0

\* The last of the tasks with most time, the idle task if none can run.
Chosen(ready, time) ==
    IF ready = {} THEN 0
    ELSE Max({t \in ready : \A u \in ready : time[u] <= time[t]})

\* schedule(), when the tasks have states st and the counters time: alarms that
\* are over become signals, signals wake those that may be interrupted, and a
\* task is chosen, which may need new time.
Schedule(st, time, ring) ==
    LET rung == {t \in Tasks : ring[t] # NULL /\ ring[t] < 0}
    IN  /\ signal' = [t \in Tasks |-> signal[t] \/ (t \in rung /\ st[t] # "free")]
        /\ alarm' = [t \in Tasks |-> IF t \in rung THEN NULL ELSE ring[t]]
        /\ state' = [t \in Tasks |-> IF signal'[t] /\ st[t] = "interruptible"
                                    THEN "running" ELSE st[t]]
        /\ LET ready == {t \in Tasks : state'[t] = "running"}
           IN  /\ counter' = IF Spent(ready, time) THEN Recharged(state', time) ELSE time
               /\ current' = Chosen(ready, counter')
               /\ waited' = [t \in Tasks |-> IF t \in ready \ {current'} THEN waited[t]
                                            ELSE 0]

Stay(st, time, ring) ==
    /\ state' = st /\ counter' = time /\ alarm' = ring
    /\ UNCHANGED <<signal, current>>

\* do_timer(): in the kernel a task goes on when its time is over, to the end of
\* its system call, which for the bound comes before the next tick; and a tick
\* is long enough for the idle task to call pause().
Tick ==
    LET used == [t \in Tasks |-> IF t = current /\ counter[t] > 0 THEN counter[t] - 1
                                ELSE counter[t]]
        ring == [t \in Tasks |-> IF alarm[t] = NULL THEN NULL
                                ELSE IF alarm[t] < 0 THEN alarm[t] ELSE alarm[t] - 1]
        older == [t \in Tasks |-> IF state[t] = "running" /\ t # current
                                 THEN waited[t] + 1 ELSE 0]
    IN  /\ \/ /\ current = 0 /\ \A t \in Tasks : state[t] # "running"
              /\ waited' = older
              /\ Stay(state, used, ring)
           \/ /\ current # 0 /\ kernel[current] /\ counter[current] > 0
              /\ waited' = older
              /\ Stay(state, used, ring)
           \/ /\ current # 0 /\ ~kernel[current] /\ used[current] > 0
              /\ waited' = older
              /\ Stay(state, used, ring)
           \/ /\ current # 0 /\ ~kernel[current] /\ used[current] = 0
              /\ Schedule(state, used, ring)
        /\ UNCHANGED <<on, priority, highest, kernel>>

\* The idle task calls pause() for ever.
Idle ==
    /\ current = 0
    /\ Schedule(state, counter, alarm)
    /\ UNCHANGED <<on, priority, highest, kernel>>

Enter ==
    /\ current # 0 /\ ~kernel[current]
    /\ kernel' = [kernel EXCEPT ![current] = TRUE]
    /\ UNCHANGED <<on, current, state, counter, priority, highest, alarm, signal, waited>>

\* ret_from_sys_call: a task without time left is rescheduled first.
Leave ==
    /\ current # 0 /\ kernel[current]
    /\ kernel' = [kernel EXCEPT ![current] = FALSE]
    /\ IF counter[current] = 0 THEN Schedule(state, counter, alarm)
       ELSE UNCHANGED <<current, state, counter, alarm, signal, waited>>
    /\ UNCHANGED <<on, priority, highest>>

\* A task sleeps, so that a signal may wake it or not.
Sleep ==
    /\ "sleep" \in on /\ current # 0 /\ kernel[current]
    /\ \E s \in {"interruptible", "uninterruptible"} :
          Schedule([state EXCEPT ![current] = s], counter, alarm)
    /\ UNCHANGED <<on, priority, highest, kernel>>

\* wake_up(), by a task or an interrupt.
WakeUp(t) ==
    /\ state[t] \in {"interruptible", "uninterruptible"}
    /\ state' = [state EXCEPT ![t] = "running"]
    /\ UNCHANGED <<on, current, counter, priority, highest, alarm, signal, kernel, waited>>

\* do_signal(): the signal is taken.
TakeSignal ==
    /\ current # 0 /\ ~kernel[current] /\ signal[current]
    /\ signal' = [signal EXCEPT ![current] = FALSE]
    /\ UNCHANGED <<on, current, state, counter, priority, highest, alarm, kernel, waited>>

\* sys_alarm(), with the ticks of so many seconds.
SetAlarm ==
    /\ "alarms" \in on /\ current # 0 /\ kernel[current]
    /\ \E n \in 0..ALARM :
          alarm' = [alarm EXCEPT ![current] = IF n > 0 THEN n ELSE NULL]
    /\ UNCHANGED <<on, current, state, counter, priority, highest, signal, kernel, waited>>

\* sys_nice(), for any increment, also one below 0, that leaves a priority.
Nice ==
    /\ "nice" \in on /\ current # 0 /\ kernel[current]
    /\ \E p \in 1..RAISED :
          /\ priority' = [priority EXCEPT ![current] = p]
          /\ highest' = Max({highest, p})
    /\ UNCHANGED <<on, current, state, counter, alarm, signal, kernel, waited>>

\* copy_process(): the child begins with its full time.
Fork ==
    /\ "fork" \in on /\ current # 0 /\ kernel[current]
    /\ \E t \in Tasks :
          /\ state[t] = "free"
          /\ state' = [state EXCEPT ![t] = "running"]
          /\ counter' = [counter EXCEPT ![t] = priority[current]]
          /\ priority' = [priority EXCEPT ![t] = priority[current]]
          /\ alarm' = [alarm EXCEPT ![t] = NULL]
          /\ signal' = [signal EXCEPT ![t] = FALSE]
          /\ kernel' = [kernel EXCEPT ![t] = FALSE]
    /\ waited' = IF "spawn" \in on THEN waited ELSE [t \in Tasks |-> 0]
    /\ UNCHANGED <<on, current, highest>>

Exit ==
    /\ "fork" \in on /\ current # 0 /\ kernel[current]
    /\ Schedule([state EXCEPT ![current] = "free"], counter, alarm)
    /\ UNCHANGED <<on, priority, highest, kernel>>

Next ==
    \/ Tick \/ Idle \/ Enter \/ Leave \/ Sleep \/ TakeSignal \/ SetAlarm \/ Nice
    \/ Fork \/ Exit \/ \E t \in Tasks : WakeUp(t)

Spec == Init /\ [][Next]_vars

\* The clock ticks, and the idle task and system calls make progress.
FairSpec == Spec /\ WF_vars(Tick) /\ WF_vars(Idle) /\ WF_vars(Leave)

-----------------------------------------------------------------------------
(***************************************************************************)
(* Properties.                                                             *)
(***************************************************************************)
\* A task that can run does so before each of the others has used up the most
\* time that it can have saved by sleeping and the time that is given once more,
\* by the highest priority that a task has given itself so far, however they sleep,
\* wake each other and change priorities.
WaitIsBounded == \A t \in Tasks : waited[t] <= MaxWait

\* Every task that can run runs.
EveryoneRuns == \A t \in Tasks : state[t] = "running" ~> current = t \/ state[t] = "free"

\* The signal of an alarm is sent when its time is over.
AlarmsRing == \A t \in Tasks : (alarm[t] # NULL /\ alarm[t] < 0) ~> (alarm[t] = NULL \/ alarm[t] >= 0)
=============================================================================
