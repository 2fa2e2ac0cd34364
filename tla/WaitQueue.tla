----------------------------- MODULE WaitQueue -----------------------------
(***************************************************************************)
(* What the callers of sleep_on() and wake_up() (kernel/sched.c) rely on:  *)
(* a wait queue is a set of tasks; waking the queue releases every task    *)
(* that is in it at that moment, and nothing else ever does.  The linked   *)
(* list of sleep_on(), which has no list node and no lock, is specified in *)
(* module SleepWake and shown there to implement this module.              *)
(***************************************************************************)
CONSTANTS Task,   \* the tasks that can sleep (every task but task 0)
          Queue   \* the wait queues

VARIABLES waiting,  \* waiting[q]: the tasks a wake-up of q must release
          woken     \* tasks released, still on their way out of sleep_on()

wvars == <<waiting, woken>>

WTypeOK ==
    /\ waiting \in [Queue -> SUBSET Task]
    /\ woken \in SUBSET Task

WInit ==
    /\ waiting = [q \in Queue |-> {}]
    /\ woken = {}

\* A task that is in no queue joins one.
Sleep(t, q) ==
    /\ t \notin woken
    /\ \A r \in Queue : t \notin waiting[r]
    /\ waiting' = [waiting EXCEPT ![q] = @ \cup {t}]
    /\ UNCHANGED woken

\* The whole queue is released at once.
WakeAll(q) ==
    /\ waiting' = [waiting EXCEPT ![q] = {}]
    /\ woken' = woken \cup waiting[q]

\* A released task goes back to what it was doing.
Return(t) ==
    /\ t \in woken
    /\ woken' = woken \ {t}
    /\ UNCHANGED waiting

WNext ==
    \/ \E t \in Task, q \in Queue : Sleep(t, q)
    \/ \E q \in Queue : WakeAll(q)
    \/ \E t \in Task : Return(t)

WSafe == WInit /\ [][WNext]_wvars

WSpec == WSafe /\ \A t \in Task : WF_wvars(Return(t))
=============================================================================
