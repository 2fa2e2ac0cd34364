----------------------------- MODULE SleepWake -----------------------------
(***************************************************************************)
(* The sleeping and waking primitives of the kernel: sleep_on(),           *)
(* interruptible_sleep_on(), wake_up(), sys_pause() and the part of        *)
(* schedule() that moves tasks between their states (kernel/sched.c).      *)
(*                                                                         *)
(* A wait queue is one pointer to a task.  A task that goes to sleep saves *)
(* the old pointer in a local variable tmp of its kernel stack and puts    *)
(* itself in the pointer; so the queue is a list that is threaded through  *)
(* the stacks of the sleeping tasks, and a task that wakes up wakes the    *)
(* one it has in tmp.                                                      *)
(*                                                                         *)
(* The kernel is not preemptible: a task in the kernel keeps the processor *)
(* until it calls schedule(), and only interrupts come in between, when    *)
(* they are not masked.  The counters schedule() compares are left out:    *)
(* it may pick any task that is runnable.                                  *)
(***************************************************************************)
EXTENDS Naturals, FiniteSets

CONSTANTS Task,                \* the tasks, without task 0
          Idle,                \* task 0, which never sleeps
          NULL,
          SleepQueue,          \* the queues slept on with sleep_on()
          InterruptibleQueue,  \* with interruptible_sleep_on()
          Masked               \* those whose callers do cli() before it

Queue == SleepQueue \cup InterruptibleQueue

ASSUME TasksAreDistinct ==
    /\ Idle \notin Task
    /\ NULL \notin Task \cup Queue
    /\ SleepQueue \cap InterruptibleQueue = {}
    /\ Masked \subseteq Queue

VARIABLES current,  \* the task that has the processor
          sched,    \* TRUE while current executes schedule()
          state,    \* task_struct.state
          signal,   \* TRUE when an unblocked signal is pending
          pc,       \* where in the kernel the task is
          on,       \* the argument p of the sleep it is in
          tmp,      \* the local variable tmp of that sleep
          head      \* head[q]: the pointer *p of queue q

vars == <<current, sched, state, signal, pc, on, tmp, head>>

TaskState == {"TASK_RUNNING", "TASK_INTERRUPTIBLE", "TASK_UNINTERRUPTIBLE",
              "TASK_ZOMBIE"}

\* "run"  : in user mode or in code of the kernel that does not sleep
\* "link" : in a sleep, the queue pointer set, the state not yet
\* "wait" : in a sleep, at the call of schedule()
\* "pause", "exit" : at the call of schedule() of sys_pause(), do_exit()
Where == {"run", "link", "wait", "pause", "exit"}

TypeOK ==
    /\ current \in Task \cup {Idle}
    /\ sched \in BOOLEAN
    /\ state \in [Task -> TaskState]
    /\ signal \in [Task -> BOOLEAN]
    /\ pc \in [Task -> Where]
    /\ on \in [Task -> Queue \cup {NULL}]
    /\ tmp \in [Task -> Task \cup {NULL}]
    /\ head \in [Queue -> Task \cup {NULL}]

Init ==
    /\ current = Idle
    /\ sched = FALSE
    /\ state = [t \in Task |-> "TASK_RUNNING"]
    /\ signal = [t \in Task |-> FALSE]
    /\ pc = [t \in Task |-> "run"]
    /\ on = [t \in Task |-> NULL]
    /\ tmp = [t \in Task |-> NULL]
    /\ head = [q \in Queue |-> NULL]

-----------------------------------------------------------------------------
\* t executes code of the kernel (or of its own) at point p.
At(t, p) == current = t /\ ~sched /\ pc[t] = p

\* The interrupt flag: clear while the current task is in a sleep that its
\* caller entered after cli().
InterruptsOn == current \in Task => on[current] \notin Masked

\* The assignment task->state = 0 through a pointer that may be NULL.
WakeTask(u) ==
    state' = [t \in Task |-> IF t = u THEN "TASK_RUNNING" ELSE state[t]]

\* Mutant: the pointer is not cleared.
WakeUpKeepsHead(q) == WakeTask(head[q]) /\ UNCHANGED head

WakeUp(q) ==
    /\ WakeTask(head[q])
    /\ head' = [head EXCEPT ![q] = NULL]

-----------------------------------------------------------------------------
(***************************************************************************)
(* schedule().                                                             *)
(***************************************************************************)
\* Mutant: a signal makes a task in any state runnable.
StateAfterAnySignal ==
    [t \in Task |-> IF signal[t] THEN "TASK_RUNNING" ELSE state[t]]

\* The first loop: a pending signal makes an interruptible task runnable.
StateAfterScan ==
    [t \in Task |-> IF signal[t] /\ state[t] = "TASK_INTERRUPTIBLE"
                      THEN "TASK_RUNNING" ELSE state[t]]

Runnable == {t \in Task : StateAfterScan[t] = "TASK_RUNNING"}

InSchedule == sched \/ current = Idle

ScheduleTo(t) ==
    /\ InSchedule
    /\ t \in Runnable
    /\ state' = StateAfterScan
    /\ current' = t
    /\ sched' = FALSE
    /\ UNCHANGED <<signal, pc, on, tmp, head>>

ScheduleIdle ==
    /\ InSchedule
    /\ Runnable = {}
    /\ current' = Idle
    /\ sched' = FALSE
    /\ UNCHANGED <<state, signal, pc, on, tmp, head>>

\* The clock interrupt, when the time slice of a task in user mode is over.
Preempt(t) ==
    /\ At(t, "run")
    /\ sched' = TRUE
    /\ UNCHANGED <<current, state, signal, pc, on, tmp, head>>

-----------------------------------------------------------------------------
(***************************************************************************)
(* Sleeping.  An interrupt can come between the two assignments unless the *)
(* caller has masked it, so they are two steps.                            *)
(***************************************************************************)
\* Mutant: the old pointer is not saved.
EnqueueForgets(t, q) ==
    /\ At(t, "run")
    /\ head' = [head EXCEPT ![q] = t]
    /\ on' = [on EXCEPT ![t] = q]
    /\ pc' = [pc EXCEPT ![t] = "link"]
    /\ UNCHANGED <<current, sched, state, signal, tmp>>

Enqueue(t, q) ==
    /\ At(t, "run")
    /\ tmp' = [tmp EXCEPT ![t] = head[q]]
    /\ head' = [head EXCEPT ![q] = t]
    /\ on' = [on EXCEPT ![t] = q]
    /\ pc' = [pc EXCEPT ![t] = "link"]
    /\ UNCHANGED <<current, sched, state, signal>>

MarkAsleep(t) ==
    /\ At(t, "link")
    /\ state' = [state EXCEPT ![t] = IF on[t] \in SleepQueue
                                       THEN "TASK_UNINTERRUPTIBLE"
                                       ELSE "TASK_INTERRUPTIBLE"]
    /\ pc' = [pc EXCEPT ![t] = "wait"]
    /\ sched' = TRUE
    /\ UNCHANGED <<current, signal, on, tmp, head>>

LeaveSleep(t) ==
    /\ pc' = [pc EXCEPT ![t] = "run"]
    /\ on' = [on EXCEPT ![t] = NULL]
    /\ tmp' = [tmp EXCEPT ![t] = NULL]
    /\ UNCHANGED <<current, sched, signal>>

\* Mutants: the sleeper in tmp is not woken; the pointer is cleared, as
\* interruptible_sleep_on() does.
ReturnAlone(t) ==
    /\ At(t, "wait")
    /\ on[t] \in SleepQueue
    /\ LeaveSleep(t)
    /\ UNCHANGED <<state, head>>

ReturnClearsHead(t) ==
    /\ At(t, "wait")
    /\ on[t] \in SleepQueue
    /\ WakeTask(tmp[t])
    /\ LeaveSleep(t)
    /\ head' = [head EXCEPT ![on[t]] = NULL]

\* The rest of sleep_on(), once schedule() has returned.
ReturnFromSleepOn(t) ==
    /\ At(t, "wait")
    /\ on[t] \in SleepQueue
    /\ WakeTask(tmp[t])
    /\ LeaveSleep(t)
    /\ UNCHANGED head

\* interruptible_sleep_on(): somebody went to sleep after t, so it is woken
\* and t sleeps again.
RepeatInterruptible(t) ==
    /\ At(t, "wait")
    /\ on[t] \in InterruptibleQueue
    /\ head[on[t]] \notin {NULL, t}
    /\ state' = [state EXCEPT ![head[on[t]]] = "TASK_RUNNING",
                              ![t] = "TASK_INTERRUPTIBLE"]
    /\ sched' = TRUE
    /\ UNCHANGED <<current, signal, pc, on, tmp, head>>

\* Mutant: the pointer is not cleared.
ReturnKeepsHead(t) ==
    /\ At(t, "wait")
    /\ on[t] \in InterruptibleQueue
    /\ head[on[t]] \in {NULL, t}
    /\ WakeTask(tmp[t])
    /\ LeaveSleep(t)
    /\ UNCHANGED head

ReturnFromInterruptible(t) ==
    /\ At(t, "wait")
    /\ on[t] \in InterruptibleQueue
    /\ head[on[t]] \in {NULL, t}
    /\ head' = [head EXCEPT ![on[t]] = NULL]
    /\ WakeTask(tmp[t])
    /\ LeaveSleep(t)

SysPause(t) ==
    /\ At(t, "run")
    /\ state' = [state EXCEPT ![t] = "TASK_INTERRUPTIBLE"]
    /\ pc' = [pc EXCEPT ![t] = "pause"]
    /\ sched' = TRUE
    /\ UNCHANGED <<current, signal, on, tmp, head>>

\* schedule() returns to sys_pause(), or to do_exit() if ever it does.
ReturnFromSchedule(t) ==
    /\ \/ At(t, "pause")
       \/ At(t, "exit")
    /\ pc' = [pc EXCEPT ![t] = "run"]
    /\ UNCHANGED <<current, sched, state, signal, on, tmp, head>>

-----------------------------------------------------------------------------
\* wake_up() called by the task that has the processor (a pipe, brelse()) ...
TaskWakesUp(t, q) ==
    /\ At(t, "run")
    /\ WakeUp(q)
    /\ UNCHANGED <<current, sched, signal, pc, on, tmp>>

\* ... and by an interrupt handler (end_request(), the tty and floppy code).
InterruptWakesUp(q) ==
    /\ InterruptsOn
    /\ WakeUp(q)
    /\ UNCHANGED <<current, sched, signal, pc, on, tmp>>

\* kill(), the interrupt key of a terminal, or an alarm: p->signal |= ...
PostSignal(t) ==
    /\ InterruptsOn
    /\ state[t] # "TASK_ZOMBIE"
    /\ signal' = [signal EXCEPT ![t] = TRUE]
    /\ UNCHANGED <<current, sched, state, pc, on, tmp, head>>

\* do_signal() on the way back to user mode; Exit is its other outcome.
DoSignal(t) ==
    /\ At(t, "run")
    /\ signal[t]
    /\ signal' = [signal EXCEPT ![t] = FALSE]
    /\ UNCHANGED <<current, sched, state, pc, on, tmp, head>>

\* The end of do_exit().
Exit(t) ==
    /\ At(t, "run")
    /\ state' = [state EXCEPT ![t] = "TASK_ZOMBIE"]
    /\ pc' = [pc EXCEPT ![t] = "exit"]
    /\ sched' = TRUE
    /\ UNCHANGED <<current, signal, on, tmp, head>>

-----------------------------------------------------------------------------
\* The steps a task takes without waiting for anyone.
TaskStep(t) ==
    \/ Preempt(t)
    \/ MarkAsleep(t)
    \/ ReturnFromSleepOn(t)
    \/ RepeatInterruptible(t)
    \/ ReturnFromInterruptible(t)
    \/ ReturnFromSchedule(t)

Next ==
    \/ ScheduleIdle
    \/ \E t \in Task :
          \/ ScheduleTo(t)
          \/ TaskStep(t)
          \/ SysPause(t)
          \/ PostSignal(t)
          \/ DoSignal(t)
          \/ Exit(t)
          \/ \E q \in Queue : Enqueue(t, q) \/ TaskWakesUp(t, q)
    \/ \E q \in Queue : InterruptWakesUp(q)

\* A task with the processor goes on (the clock interrupts it at the latest
\* when its time slice is over); the counters of schedule() let every task
\* that is runnable again and again have the processor sooner or later.
Fairness ==
    \A t \in Task : WF_vars(TaskStep(t)) /\ SF_vars(ScheduleTo(t))

Spec == Init /\ [][Next]_vars

FairSpec == Spec /\ WF_vars(ScheduleIdle) /\ Fairness

-----------------------------------------------------------------------------
(***************************************************************************)
(* Properties.                                                             *)
(***************************************************************************)
\* t is in a queue: a queue pointer or the tmp of another sleeper leads to t.
Linked(t) ==
    \/ \E q \in Queue : head[q] = t
    \/ \E u \in Task : tmp[u] = t

\* Nobody is lost: a task that has gone to sleep in sleep_on(), with
\* interrupts masked by its caller, is in the queue, or in the tmp of a task
\* that is still inside its own sleep and will wake it.  This is what the
\* callers' loops "while (locked) sleep_on(...)" depend on.
NoLostWaiter ==
    \A t \in Task :
        (state[t] = "TASK_UNINTERRUPTIBLE" /\ on[t] \in Masked) => Linked(t)

\* sleep_on() returns only because of a wake_up() (the comment above it): a
\* sleeper that is runnable again has been taken out of the queue, by
\* wake_up() or by the sleeper after it.
NoSpuriousWakeUp ==
    \A t \in Task :
        (pc[t] = "wait" /\ on[t] \in SleepQueue /\ state[t] = "TASK_RUNNING")
            => ~Linked(t)

\* The pointer of an interruptible queue never dangles: the task it points
\* to is inside interruptible_sleep_on() on that very queue, signals or not.
HeadIsASleeper ==
    \A q \in InterruptibleQueue :
        head[q] # NULL => /\ pc[head[q]] \in {"link", "wait"}
                          /\ on[head[q]] = q

\* The same of the list of an interruptible queue: who waits in it, and has
\* no signal that wakes it, can be reached by a wake-up of the queue (the
\* comment in interruptible_sleep_on(): the later sleepers wake this one).
NoLostInterruptible ==
    \A t \in Task :
        (state[t] = "TASK_INTERRUPTIBLE" /\ pc[t] = "wait" /\ ~signal[t])
            => Linked(t)

\* NoLostWaiter for the queues whose callers do not mask interrupts, as
\* make_request() when it sleeps on wait_for_request (ll_rw_blk.c): the
\* comment of sleep_on() offers it as the synchronisation between a process
\* and an interrupt handler, without that condition.
NoLostUnmasked ==
    \A t \in Task :
        (state[t] = "TASK_UNINTERRUPTIBLE" /\ on[t] \notin Masked) => Linked(t)

\* A sleeper of a queue that has been woken (its pointer is NULL again) does
\* come back, however many tasks the wake-up must run through.
WakeUpReachesAll ==
    \A t \in Task, q \in SleepQueue :
        (pc[t] = "wait" /\ on[t] = q /\ head[q] = NULL) ~> (pc[t] = "run")

\* do_exit() does not return: nothing makes a zombie run again.
ZombieStaysDead ==
    [][\A t \in Task :
          state[t] = "TASK_ZOMBIE" => state'[t] = "TASK_ZOMBIE"]_vars

-----------------------------------------------------------------------------
(***************************************************************************)
(* The list implements the wait set of module WaitQueue.                   *)
(***************************************************************************)
\* The tasks that can be reached from a task h over links: the least set that
\* holds h and what its members lead to.
Reach(h, link) ==
    {t \in Task : /\ h # NULL
                  /\ \A S \in SUBSET Task :
                        h \in S /\ (\A u \in S : link[u] \in S \cup {NULL}) => t \in S}

\* The tasks that can be reached from the pointer of q.
Chain(q) == Reach(head[q], tmp)

Sleeping == {t \in Task : pc[t] \in {"link", "wait"} /\ on[t] \in SleepQueue}

Waiting == [q \in SleepQueue |-> Chain(q)]

Woken == Sleeping \ UNION {Chain(q) : q \in SleepQueue}

Abstract == INSTANCE WaitQueue WITH Queue <- SleepQueue, waiting <- Waiting, woken <- Woken

\* sleep_on() and wake_up() are a wait queue: a wake-up releases all who
\* wait, nothing else releases anybody, and the released ones do return.
ImplementsWaitQueue == Abstract!WSpec
=============================================================================
