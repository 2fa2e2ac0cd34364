-------------------------- MODULE SleepWakeProofs --------------------------
(* Proofs about the sleeping primitives, for any tasks and any queues. *)
EXTENDS SleepWake, TLAPS

\* Every step keeps the types.
LEMMA TypeStep == ASSUME TypeOK, [Next]_vars PROVE TypeOK'
<1> USE TasksAreDistinct DEF TasksAreDistinct, TypeOK, TaskState, Where, Queue
<1>1. CASE UNCHANGED vars
  BY <1>1 DEF vars
<1>2. CASE ScheduleIdle
  BY <1>2 DEF ScheduleIdle
<1>3. ASSUME NEW t \in Task, ScheduleTo(t) PROVE TypeOK'
  BY <1>3 DEF ScheduleTo, StateAfterScan
<1>4. ASSUME NEW t \in Task, TaskStep(t) PROVE TypeOK'
  <2>1. CASE Preempt(t)
    BY <2>1 DEF Preempt
  <2>2. CASE MarkAsleep(t)
    BY <2>2 DEF MarkAsleep
  <2>3. CASE ReturnFromSleepOn(t)
    BY <2>3 DEF ReturnFromSleepOn, WakeTask, LeaveSleep
  <2>4. CASE RepeatInterruptible(t)
    BY <2>4 DEF RepeatInterruptible
  <2>5. CASE ReturnFromInterruptible(t)
    BY <2>5 DEF ReturnFromInterruptible, WakeTask, LeaveSleep
  <2>6. CASE ReturnFromSchedule(t)
    BY <2>6 DEF ReturnFromSchedule
  <2> QED BY <1>4, <2>1, <2>2, <2>3, <2>4, <2>5, <2>6 DEF TaskStep
<1>5. ASSUME NEW t \in Task, SysPause(t) \/ Exit(t) PROVE TypeOK'
  BY <1>5 DEF SysPause, Exit
<1>6. ASSUME NEW t \in Task, PostSignal(t) \/ DoSignal(t) PROVE TypeOK'
  BY <1>6 DEF PostSignal, DoSignal
<1>7. ASSUME NEW t \in Task, NEW q \in Queue, Enqueue(t, q) PROVE TypeOK'
  BY <1>7 DEF Enqueue
<1>8. ASSUME NEW t \in Task, NEW q \in Queue, TaskWakesUp(t, q) PROVE TypeOK'
  BY <1>8 DEF TaskWakesUp, WakeUp, WakeTask
<1>9. ASSUME NEW q \in Queue, InterruptWakesUp(q) PROVE TypeOK'
  BY <1>9 DEF InterruptWakesUp, WakeUp, WakeTask
<1> QED
  BY <1>1, <1>2, <1>3, <1>4, <1>5, <1>6, <1>7, <1>8, <1>9 DEF Next

\* The types of the initial state.
LEMMA InitTypes == ASSUME Init PROVE TypeOK
<1>1. current \in Task \cup {Idle} /\ sched \in BOOLEAN
  BY DEF Init
<1>2. state \in [Task -> TaskState] /\ pc \in [Task -> Where]
  BY DEF Init, TaskState, Where
<1>3. signal \in [Task -> BOOLEAN]
  BY DEF Init
<1>4. on \in [Task -> Queue \cup {NULL}]
  BY DEF Init
<1>5. tmp \in [Task -> Task \cup {NULL}]
  BY DEF Init
<1>6. head \in [Queue -> Task \cup {NULL}]
  BY DEF Init
<1> QED BY <1>1, <1>2, <1>3, <1>4, <1>5, <1>6 DEF TypeOK

\* Type correctness of the sleeping primitives.
THEOREM TypeCorrect == Spec => []TypeOK
<1>1. Init => TypeOK
  BY InitTypes
<1>2. TypeOK /\ [Next]_vars => TypeOK'
  BY TypeStep
<1>3. QED
  BY <1>1, <1>2, PTL DEF Spec

-----------------------------------------------------------------------------
(***************************************************************************)
(* No sleeper is lost, with any mixture of queues and of signals.          *)
(***************************************************************************)
\* A task outside a sleep holds no pointer of a queue.
LocalsAreClear ==
    \A t \in Task :
        pc[t] \notin {"link", "wait"} => tmp[t] = NULL /\ on[t] = NULL

\* A task between the two assignments has the processor, and if interrupts
\* are masked it is still the head of its queue.
LinkIsCurrent ==
    \A t \in Task :
        pc[t] = "link" =>
            /\ current = t
            /\ ~sched
            /\ on[t] \in Queue
            /\ on[t] \in Masked => head[on[t]] = t

\* The processor executes a runnable task.
CurrentIsRunning ==
    current \in Task /\ ~sched => state[current] = "TASK_RUNNING"

SleepInv ==
    TypeOK /\ LocalsAreClear /\ LinkIsCurrent /\ CurrentIsRunning /\ NoLostWaiter

\* Every step keeps the sleepers waiting or woken.
LEMMA SleepInvStep == ASSUME SleepInv, [Next]_vars PROVE SleepInv'
<1> USE TasksAreDistinct DEF TasksAreDistinct, SleepInv
<1>0. TypeOK'
  BY TypeStep
<1> USE <1>0 DEF TypeOK, LocalsAreClear, LinkIsCurrent, CurrentIsRunning,
                 NoLostWaiter, Linked, At, Queue
<1>1. CASE UNCHANGED vars
  BY <1>1 DEF vars
<1>2. CASE ScheduleIdle
  BY <1>2 DEF ScheduleIdle, InSchedule
<1>3. ASSUME NEW t \in Task, ScheduleTo(t) PROVE SleepInv'
  BY <1>3 DEF ScheduleTo, StateAfterScan, Runnable, InSchedule
<1>4. ASSUME NEW t \in Task, TaskStep(t) PROVE SleepInv'
  <2>1. CASE Preempt(t)
    BY <2>1 DEF Preempt
  <2>2. CASE MarkAsleep(t)
    BY <2>2 DEF MarkAsleep
  <2>3. CASE ReturnFromSleepOn(t)
    BY <2>3 DEF ReturnFromSleepOn, WakeTask, LeaveSleep
  <2>4. CASE RepeatInterruptible(t)
    BY <2>4 DEF RepeatInterruptible
  <2>5. CASE ReturnFromInterruptible(t)
    BY <2>5 DEF ReturnFromInterruptible, WakeTask, LeaveSleep
  <2>6. CASE ReturnFromSchedule(t)
    BY <2>6 DEF ReturnFromSchedule
  <2> QED BY <1>4, <2>1, <2>2, <2>3, <2>4, <2>5, <2>6 DEF TaskStep
<1>5. ASSUME NEW t \in Task, SysPause(t) \/ Exit(t) PROVE SleepInv'
  BY <1>5 DEF SysPause, Exit
<1>6. ASSUME NEW t \in Task, PostSignal(t) \/ DoSignal(t) PROVE SleepInv'
  BY <1>6 DEF PostSignal, DoSignal
<1>7. ASSUME NEW t \in Task, NEW q \in Queue, Enqueue(t, q) PROVE SleepInv'
  BY <1>7 DEF Enqueue
<1>8. ASSUME NEW t \in Task, NEW q \in Queue, TaskWakesUp(t, q) PROVE SleepInv'
  BY <1>8 DEF TaskWakesUp, WakeUp, WakeTask
<1>9. ASSUME NEW q \in Queue, InterruptWakesUp(q) PROVE SleepInv'
  BY <1>9 DEF InterruptWakesUp, InterruptsOn, WakeUp, WakeTask
<1> QED
  BY <1>1, <1>2, <1>3, <1>4, <1>5, <1>6, <1>7, <1>8, <1>9 DEF Next

\* No task sleeps at the start.
LEMMA SleepInvInit == ASSUME Init PROVE SleepInv
<1>1. TypeOK
  BY InitTypes
<1>2. LocalsAreClear /\ LinkIsCurrent
  BY DEF Init, LocalsAreClear, LinkIsCurrent
<1>3. CurrentIsRunning /\ NoLostWaiter
  BY TasksAreDistinct DEF TasksAreDistinct, Init, CurrentIsRunning, NoLostWaiter
<1> QED BY <1>1, <1>2, <1>3 DEF SleepInv

\* No task that sleeps uninterruptibly, its caller having masked interrupts,
\* ever drops out of reach of a wake-up, whatever the other queues and the
\* signals do.
THEOREM NoWaiterIsLost == Spec => []NoLostWaiter
<1>1. Init => SleepInv
  BY SleepInvInit
<1>2. SleepInv /\ [Next]_vars => SleepInv'
  BY SleepInvStep
<1>3. SleepInv => NoLostWaiter
  BY DEF SleepInv
<1>4. QED
  BY <1>1, <1>2, <1>3, PTL DEF Spec

-----------------------------------------------------------------------------
(***************************************************************************)
(* Without interruptible sleepers the stacks form proper lists: whoever is *)
(* pointed to is asleep on that queue, and is pointed to once.             *)
(***************************************************************************)
Asleep(t) == pc[t] = "wait" /\ state[t] = "TASK_UNINTERRUPTIBLE"

HeadsSleep ==
    \A q \in Queue, t \in Task :
        head[q] = t => on[t] = q /\ (pc[t] = "link" \/ Asleep(t))

TmpsSleep ==
    \A t, u \in Task : tmp[u] = t => on[t] = on[u] /\ Asleep(t)

OneReferrer ==
    \A t, u, v \in Task :
        /\ tmp[u] = t => \A q \in Queue : head[q] # t
        /\ tmp[u] = t /\ tmp[v] = t => u = v

ListInv == SleepInv /\ HeadsSleep /\ TmpsSleep /\ OneReferrer

\* All wait queues are empty at the start.
LEMMA ListInvInit == ASSUME Init PROVE ListInv
<1>1. SleepInv
  BY SleepInvInit
<1>2. HeadsSleep /\ TmpsSleep /\ OneReferrer
  BY TasksAreDistinct
     DEF TasksAreDistinct, Init, HeadsSleep, TmpsSleep, OneReferrer
<1> QED BY <1>1, <1>2 DEF ListInv

\* Every step keeps the lists of sleepers.
LEMMA ListInvStep ==
    ASSUME InterruptibleQueue = {}, ListInv, [Next]_vars PROVE ListInv'
<1> USE TasksAreDistinct DEF TasksAreDistinct, ListInv
<1>0. SleepInv'
  BY SleepInvStep
<1> USE <1>0 DEF SleepInv, TypeOK, LocalsAreClear, LinkIsCurrent,
                 CurrentIsRunning, HeadsSleep, TmpsSleep, OneReferrer, Asleep,
                 At, Queue
<1>1. CASE UNCHANGED vars
  BY <1>1 DEF vars
<1>2. CASE ScheduleIdle
  BY <1>2 DEF ScheduleIdle
<1>3. ASSUME NEW t \in Task, ScheduleTo(t) PROVE ListInv'
  BY <1>3 DEF ScheduleTo, StateAfterScan
<1>4. ASSUME NEW t \in Task, TaskStep(t) PROVE ListInv'
  <2>1. CASE Preempt(t)
    BY <2>1 DEF Preempt
  <2>2. CASE MarkAsleep(t)
    BY <2>2 DEF MarkAsleep
  <2>3. CASE ReturnFromSleepOn(t)
    BY <2>3 DEF ReturnFromSleepOn, WakeTask, LeaveSleep
  <2>4. CASE RepeatInterruptible(t)
    BY <2>4 DEF RepeatInterruptible
  <2>5. CASE ReturnFromInterruptible(t)
    BY <2>5 DEF ReturnFromInterruptible
  <2>6. CASE ReturnFromSchedule(t)
    BY <2>6 DEF ReturnFromSchedule
  <2> QED BY <1>4, <2>1, <2>2, <2>3, <2>4, <2>5, <2>6 DEF TaskStep
<1>5. ASSUME NEW t \in Task, SysPause(t) \/ Exit(t) PROVE ListInv'
  BY <1>5 DEF SysPause, Exit
<1>6. ASSUME NEW t \in Task, PostSignal(t) \/ DoSignal(t) PROVE ListInv'
  BY <1>6 DEF PostSignal, DoSignal
<1>7. ASSUME NEW t \in Task, NEW q \in Queue, Enqueue(t, q) PROVE ListInv'
  BY <1>7 DEF Enqueue
<1>8. ASSUME NEW t \in Task, NEW q \in Queue, TaskWakesUp(t, q) PROVE ListInv'
  BY <1>8 DEF TaskWakesUp, WakeUp, WakeTask
<1>9. ASSUME NEW q \in Queue, InterruptWakesUp(q) PROVE ListInv'
  BY <1>9 DEF InterruptWakesUp, WakeUp, WakeTask
<1> QED
  BY <1>1, <1>2, <1>3, <1>4, <1>5, <1>6, <1>7, <1>8, <1>9 DEF Next

\* With sleep_on() alone, a sleeper runs again only after it has been taken
\* off its queue by a wake-up.
THEOREM OnlyWokenSleepersRun ==
    ASSUME InterruptibleQueue = {} PROVE Spec => []NoSpuriousWakeUp
<1>1. Init => ListInv
  BY ListInvInit
<1>2. ListInv /\ [Next]_vars => ListInv'
  BY ListInvStep
<1>3. ListInv => NoSpuriousWakeUp
  BY DEF ListInv, HeadsSleep, TmpsSleep, Asleep, NoSpuriousWakeUp, Linked
<1>4. QED
  BY <1>1, <1>2, <1>3, PTL DEF Spec

\* With sleep_on() alone, a task that has exited never runs again.
THEOREM ZombiesStayDead ==
    ASSUME InterruptibleQueue = {} PROVE Spec => ZombieStaysDead
<1>1. Init => ListInv
  BY ListInvInit
<1>2. ListInv /\ [Next]_vars => ListInv'
  BY ListInvStep
<1>3. ListInv /\ [Next]_vars =>
        [\A t \in Task :
            state[t] = "TASK_ZOMBIE" => state'[t] = "TASK_ZOMBIE"]_vars
  <2> SUFFICES ASSUME ListInv, Next, NEW t \in Task, state[t] = "TASK_ZOMBIE"
               PROVE  state'[t] = "TASK_ZOMBIE"
    BY DEF vars
  <2> USE TasksAreDistinct
      DEF TasksAreDistinct, ListInv, SleepInv, TypeOK, LinkIsCurrent,
          CurrentIsRunning, HeadsSleep, TmpsSleep, Asleep, At, Queue
  <2>1. CASE ScheduleIdle
    BY <2>1 DEF ScheduleIdle
  <2>2. ASSUME NEW u \in Task, TaskStep(u) PROVE state'[t] = "TASK_ZOMBIE"
    <3>1. CASE Preempt(u) \/ ReturnFromSchedule(u)
      BY <3>1 DEF Preempt, ReturnFromSchedule
    <3>2. CASE MarkAsleep(u)
      BY <3>2 DEF MarkAsleep
    <3>3. CASE ReturnFromSleepOn(u)
      BY <3>3 DEF ReturnFromSleepOn, WakeTask
    <3>4. CASE RepeatInterruptible(u) \/ ReturnFromInterruptible(u)
      BY <3>4 DEF RepeatInterruptible, ReturnFromInterruptible
    <3> QED BY <2>2, <3>1, <3>2, <3>3, <3>4 DEF TaskStep
  <2>3. ASSUME NEW u \in Task,
               ScheduleTo(u) \/ SysPause(u) \/ PostSignal(u) \/ DoSignal(u)
                 \/ Exit(u)
        PROVE  state'[t] = "TASK_ZOMBIE"
    BY <2>3 DEF ScheduleTo, StateAfterScan, SysPause, PostSignal, DoSignal, Exit
  <2>4. ASSUME NEW u \in Task, NEW q \in Queue,
               Enqueue(u, q) \/ TaskWakesUp(u, q)
        PROVE  state'[t] = "TASK_ZOMBIE"
    BY <2>4 DEF Enqueue, TaskWakesUp, WakeUp, WakeTask
  <2>5. ASSUME NEW q \in Queue, InterruptWakesUp(q)
        PROVE  state'[t] = "TASK_ZOMBIE"
    BY <2>5 DEF InterruptWakesUp, WakeUp, WakeTask
  <2> QED BY <2>1, <2>2, <2>3, <2>4, <2>5 DEF Next
<1>4. QED
  BY <1>1, <1>2, <1>3, PTL DEF Spec, ZombieStaysDead

-----------------------------------------------------------------------------
HeadInv == SleepInv /\ HeadIsASleeper

\* Whatever the signals do, the pointer of an interruptible queue leads to a
\* task that is still inside its sleep on that queue.
THEOREM HeadsDoNotDangle == Spec => []HeadIsASleeper
<1>1. Init => HeadInv
  BY SleepInvInit DEF Init, HeadInv, HeadIsASleeper, Queue
<1>2. HeadInv /\ [Next]_vars => HeadInv'
  <2> SUFFICES ASSUME HeadInv, [Next]_vars PROVE HeadInv'
    OBVIOUS
  <2> USE TasksAreDistinct DEF TasksAreDistinct, HeadInv
  <2>0. SleepInv'
    BY SleepInvStep
  <2> USE <2>0 DEF SleepInv, TypeOK, LocalsAreClear, HeadIsASleeper, At, Queue
  <2>1. CASE UNCHANGED vars
    BY <2>1 DEF vars
  <2>2. CASE ScheduleIdle
    BY <2>2 DEF ScheduleIdle
  <2>3. ASSUME NEW t \in Task, ScheduleTo(t) PROVE HeadInv'
    BY <2>3 DEF ScheduleTo
  <2>4. ASSUME NEW t \in Task, TaskStep(t) PROVE HeadInv'
    <3>1. CASE Preempt(t) \/ ReturnFromSchedule(t)
      BY <3>1 DEF Preempt, ReturnFromSchedule
    <3>2. CASE MarkAsleep(t)
      BY <3>2 DEF MarkAsleep
    <3>3. CASE ReturnFromSleepOn(t)
      BY <3>3 DEF ReturnFromSleepOn, LeaveSleep
    <3>4. CASE RepeatInterruptible(t)
      BY <3>4 DEF RepeatInterruptible
    <3>5. CASE ReturnFromInterruptible(t)
      BY <3>5 DEF ReturnFromInterruptible, LeaveSleep
    <3> QED BY <2>4, <3>1, <3>2, <3>3, <3>4, <3>5 DEF TaskStep
  <2>5. ASSUME NEW t \in Task,
               SysPause(t) \/ PostSignal(t) \/ DoSignal(t) \/ Exit(t)
        PROVE  HeadInv'
    BY <2>5 DEF SysPause, PostSignal, DoSignal, Exit
  <2>6. ASSUME NEW t \in Task, NEW q \in Queue, Enqueue(t, q) PROVE HeadInv'
    BY <2>6 DEF Enqueue
  <2>7. ASSUME NEW q \in Queue,
               (\E t \in Task : TaskWakesUp(t, q)) \/ InterruptWakesUp(q)
        PROVE  HeadInv'
    BY <2>7 DEF TaskWakesUp, InterruptWakesUp, WakeUp
  <2> QED
    BY <2>1, <2>2, <2>3, <2>4, <2>5, <2>6, <2>7 DEF Next
<1>3. HeadInv => HeadIsASleeper
  BY DEF HeadInv
<1>4. QED
  BY <1>1, <1>2, <1>3, PTL DEF Spec

-----------------------------------------------------------------------------
(***************************************************************************)
(* Without interruptible sleepers the lists implement the sets of module   *)
(* WaitQueue.                                                              *)
(***************************************************************************)
Links == [Task -> Task \cup {NULL}]

IsClosed(S, link) == \A u \in S : link[u] \in S \cup {NULL}

\* What can be reached is closed, and is the least such set.
LEMMA ReachIsLeast ==
  ASSUME NEW link \in Links, NEW h \in Task \cup {NULL}
  PROVE  /\ Reach(h, link) \subseteq Task /\ IsClosed(Reach(h, link), link)
         /\ h \in Reach(h, link) \cup {NULL} /\ (h = NULL => Reach(h, link) = {})
         /\ \A S \in SUBSET Task :
               h \in S \cup {NULL} /\ IsClosed(S, link) => Reach(h, link) \subseteq S
<1>1. Reach(h, link) \subseteq Task /\ h \in Reach(h, link) \cup {NULL}
      /\ (h = NULL => Reach(h, link) = {})
  BY DEF Reach
<1>2. ASSUME NEW S \in SUBSET Task, h \in S \cup {NULL}, IsClosed(S, link)
      PROVE  Reach(h, link) \subseteq S
  BY <1>2 DEF Reach, IsClosed
<1>3. ASSUME NEW u \in Reach(h, link), link[u] # NULL PROVE link[u] \in Reach(h, link)
  <2>1. u \in Task /\ h # NULL /\ link[u] \in Task
    BY <1>3 DEF Reach, Links
  <2>2. ASSUME NEW S \in SUBSET Task, h \in S, \A v \in S : link[v] \in S \cup {NULL}
        PROVE  link[u] \in S
    BY <1>3, <2>2 DEF Reach
  <2> QED BY <2>1, <2>2 DEF Reach
<1> QED BY <1>1, <1>2, <1>3 DEF IsClosed

\* A task that is put in front.
LEMMA ReachGrows ==
  ASSUME NEW link \in Links, NEW h \in Task \cup {NULL}, NEW t \in Task,
         NULL \notin Task, link[t] = NULL
  PROVE  Reach(t, [link EXCEPT ![t] = h]) = Reach(h, link) \cup {t}
<1> DEFINE link2 == [link EXCEPT ![t] = h]
           R == Reach(h, link)
           R2 == Reach(t, link2)
<1>1. link2 \in Links /\ link2[t] = h /\ \A u \in Task \ {t} : link2[u] = link[u]
  BY DEF Links
<1>2. /\ R \subseteq Task /\ IsClosed(R, link) /\ h \in R \cup {NULL}
      /\ \A S \in SUBSET Task : h \in S \cup {NULL} /\ IsClosed(S, link) => R \subseteq S
  BY ReachIsLeast
<1>3. /\ R2 \subseteq Task /\ IsClosed(R2, link2) /\ t \in R2
      /\ \A S \in SUBSET Task : t \in S /\ IsClosed(S, link2) => R2 \subseteq S
  <2> HIDE DEF link2
  <2> QED BY <1>1, ReachIsLeast
<1> HIDE DEF link2, R, R2
<1>4. R2 \subseteq R \cup {t}
  <2>1. IsClosed(R \cup {t}, link2)
    BY <1>1, <1>2 DEF IsClosed
  <2> QED BY <1>2, <1>3, <2>1
<1>5. R \subseteq R2
  <2>1. h \in R2 \cup {NULL}
    BY <1>1, <1>3 DEF IsClosed
  <2>2. IsClosed(R2, link)
    BY <1>1, <1>3 DEF IsClosed
  <2> QED BY <1>2, <1>3, <2>1, <2>2
<1> QED BY <1>3, <1>4, <1>5 DEF link2, R, R2

\* A link of a task that is not reached does not matter.
LEMMA ReachStays ==
  ASSUME NEW link \in Links, NEW h \in Task \cup {NULL}, NEW t \in Task,
         NEW k \in Task \cup {NULL}, t \notin Reach(h, link)
  PROVE  Reach(h, [link EXCEPT ![t] = k]) = Reach(h, link)
<1> DEFINE link2 == [link EXCEPT ![t] = k]
           R == Reach(h, link)
           R2 == Reach(h, link2)
<1>1. link2 \in Links /\ \A u \in Task \ {t} : link2[u] = link[u]
  BY DEF Links
<1>2. /\ R \subseteq Task /\ IsClosed(R, link) /\ h \in R \cup {NULL} /\ t \notin R
      /\ \A S \in SUBSET Task : h \in S \cup {NULL} /\ IsClosed(S, link) => R \subseteq S
  BY ReachIsLeast
<1>3. /\ R2 \subseteq Task /\ IsClosed(R2, link2) /\ h \in R2 \cup {NULL}
      /\ \A S \in SUBSET Task : h \in S \cup {NULL} /\ IsClosed(S, link2) => R2 \subseteq S
  <2> HIDE DEF link2
  <2> QED BY <1>1, ReachIsLeast
<1> HIDE DEF link2, R, R2
<1>4. R2 \subseteq R
  <2>1. IsClosed(R, link2)
    BY <1>1, <1>2 DEF IsClosed
  <2> QED BY <1>2, <1>3, <2>1
<1>5. R \subseteq R2
  <2>1. IsClosed(R2, link)
    BY <1>1, <1>2, <1>3, <1>4 DEF IsClosed
  <2> QED BY <1>2, <1>3, <2>1
<1> QED BY <1>4, <1>5 DEF link2, R, R2

\* Who is reached from the pointer of a queue sleeps there.
LEMMA ChainsSleep ==
  ASSUME InterruptibleQueue = {}, ListInv
  PROVE  \A q \in SleepQueue : \A t \in Chain(q) :
            t \in Sleeping /\ on[t] = q /\ (pc[t] = "link" \/ Asleep(t))
<1> SUFFICES ASSUME NEW q \in SleepQueue
             PROVE  \A t \in Chain(q) :
                       t \in Sleeping /\ on[t] = q /\ (pc[t] = "link" \/ Asleep(t))
  OBVIOUS
<1> DEFINE here == {t \in Task : on[t] = q /\ (pc[t] = "link" \/ Asleep(t))}
<1>1. tmp \in Links /\ head[q] \in Task \cup {NULL}
  BY DEF ListInv, SleepInv, TypeOK, Links, Queue
<1>2. head[q] \in here \cup {NULL}
  BY <1>1 DEF ListInv, HeadsSleep, Queue
<1>3. IsClosed(here, tmp)
  BY <1>1 DEF IsClosed, Links, ListInv, TmpsSleep
<1>4. Reach(head[q], tmp) \subseteq here
  <2> HIDE DEF here
  <2>1. here \in SUBSET Task
    BY DEF here
  <2> QED BY <1>1, <1>2, <1>3, <2>1, ReachIsLeast
<1> QED BY <1>4 DEF Chain, Sleeping, Asleep

\* The sets are the same if the links and the sleepers are.
LEMMA QuietForQueues ==
  ASSUME head' = head, tmp' = tmp, Sleeping' = Sleeping
  PROVE  UNCHANGED <<Waiting, Woken>>
<1>1. ASSUME NEW q \in SleepQueue PROVE Chain(q)' = Chain(q)
  BY DEF Chain
<1> QED BY <1>1 DEF Waiting, Woken

\* Every step is one of the sets, or none.
LEMMA StepsOfQueues ==
  ASSUME InterruptibleQueue = {}, ListInv, [Next]_vars
  PROVE  Abstract!WNext \/ (UNCHANGED <<Waiting, Woken>>)
<1>0. /\ tmp \in Links /\ head \in [Queue -> Task \cup {NULL}] /\ NULL \notin Task
      /\ Queue = SleepQueue
      /\ \A q \in SleepQueue : head[q] \in Task \cup {NULL}
      /\ on \in [Task -> Queue \cup {NULL}] /\ pc \in [Task -> Where] /\ NULL \notin Queue
  BY TasksAreDistinct DEF ListInv, SleepInv, TypeOK, Links, Queue
<1>1. CASE UNCHANGED vars
  <2>1. Sleeping' = Sleeping
    BY <1>1 DEF vars, Sleeping
  <2> QED BY <1>1, <2>1, QuietForQueues DEF vars
<1>2. ASSUME NEW t \in Task,
             ScheduleTo(t) \/ Preempt(t) \/ MarkAsleep(t) \/ ReturnFromSchedule(t)
               \/ SysPause(t) \/ PostSignal(t) \/ DoSignal(t) \/ Exit(t)
      PROVE  UNCHANGED <<Waiting, Woken>>
  <2>1. head' = head /\ tmp' = tmp
    BY <1>2 DEF ScheduleTo, Preempt, MarkAsleep, ReturnFromSchedule, SysPause, PostSignal,
       DoSignal, Exit
  <2>2. /\ on' = on
        /\ \A u \in Task : pc'[u] \in {"link", "wait"} <=> pc[u] \in {"link", "wait"}
    BY <1>0, <1>2 DEF ScheduleTo, Preempt, MarkAsleep, ReturnFromSchedule, SysPause, PostSignal,
       DoSignal, Exit, At
  <2>3. Sleeping' = Sleeping
    BY <2>2 DEF Sleeping
  <2> QED BY <2>1, <2>3, QuietForQueues
<1>3. CASE ScheduleIdle
  <2>1. Sleeping' = Sleeping
    BY <1>3 DEF ScheduleIdle, Sleeping
  <2> QED BY <1>3, <2>1, QuietForQueues DEF ScheduleIdle
<1>4. ASSUME NEW t \in Task, RepeatInterruptible(t) \/ ReturnFromInterruptible(t)
      PROVE  FALSE
  BY <1>4 DEF RepeatInterruptible, ReturnFromInterruptible
<1>5. ASSUME NEW t \in Task, NEW q \in SleepQueue, Enqueue(t, q)
      PROVE  Abstract!Sleep(t, q)
  <2>1. /\ pc[t] = "run" /\ tmp[t] = NULL
        /\ tmp' = [tmp EXCEPT ![t] = head[q]] /\ head' = [head EXCEPT ![q] = t]
        /\ on' = [on EXCEPT ![t] = q] /\ pc' = [pc EXCEPT ![t] = "link"]
    BY <1>5 DEF Enqueue, At, ListInv, SleepInv, LocalsAreClear
  <2>2. t \notin Sleeping /\ \A r \in SleepQueue : t \notin Chain(r)
    BY <2>1, ChainsSleep DEF Sleeping
  <2>3. Chain(q)' = Chain(q) \cup {t}
    <3>1. Reach(t, [tmp EXCEPT ![t] = head[q]]) = Reach(head[q], tmp) \cup {t}
      BY <1>0, <2>1, ReachGrows
    <3>2. head'[q] = t
      BY <1>0, <2>1
    <3> QED BY <2>1, <3>1, <3>2 DEF Chain
  <2>4. ASSUME NEW r \in SleepQueue \ {q} PROVE Chain(r)' = Chain(r)
    <3>1. Reach(head[r], [tmp EXCEPT ![t] = head[q]]) = Reach(head[r], tmp)
      BY <1>0, <2>2, ReachStays DEF Chain
    <3>2. head'[r] = head[r]
      BY <1>0, <2>1, <2>4
    <3> QED BY <2>1, <3>1, <3>2 DEF Chain
  <2>5. Waiting' = [Waiting EXCEPT ![q] = @ \cup {t}]
    BY <2>3, <2>4 DEF Waiting
  <2>6. Sleeping' = Sleeping \cup {t}
    BY <1>0, <2>1 DEF Sleeping
  <2>7. Woken' = Woken
    <3>1. UNION {Chain(r)' : r \in SleepQueue} = {t} \cup UNION {Chain(r) : r \in SleepQueue}
      BY <2>3, <2>4
    <3> QED BY <2>2, <2>6, <3>1 DEF Woken
  <2> QED BY <2>2, <2>5, <2>7 DEF Abstract!Sleep, Waiting, Woken
<1>6. ASSUME NEW t \in Task, ReturnFromSleepOn(t)
      PROVE  Abstract!Return(t)
  <2>1. /\ pc[t] = "wait" /\ state[t] = "TASK_RUNNING" /\ on[t] \in SleepQueue
        /\ tmp' = [tmp EXCEPT ![t] = NULL] /\ head' = head
        /\ on' = [on EXCEPT ![t] = NULL] /\ pc' = [pc EXCEPT ![t] = "run"]
    BY <1>6 DEF ReturnFromSleepOn, LeaveSleep, At, ListInv, SleepInv, CurrentIsRunning
  <2>2. t \in Sleeping /\ \A r \in SleepQueue : t \notin Chain(r)
    BY <2>1, ChainsSleep DEF Sleeping, Asleep
  <2>3. ASSUME NEW r \in SleepQueue PROVE Chain(r)' = Chain(r)
    <3>1. Reach(head[r], [tmp EXCEPT ![t] = NULL]) = Reach(head[r], tmp)
      BY <1>0, <2>2, ReachStays DEF Chain
    <3> QED BY <2>1, <3>1 DEF Chain
  <2>4. Sleeping' = Sleeping \ {t}
    BY <1>0, <2>1 DEF Sleeping
  <2>5. Waiting' = Waiting
    BY <2>3 DEF Waiting
  <2>6. Woken' = Woken \ {t}
    BY <2>3, <2>4 DEF Woken
  <2> QED BY <2>2, <2>5, <2>6 DEF Abstract!Return, Woken
<1>7. ASSUME NEW q \in SleepQueue, WakeUp(q), UNCHANGED <<pc, on, tmp>>
      PROVE  Abstract!WakeAll(q)
  <2>1. head' = [head EXCEPT ![q] = NULL] /\ tmp' = tmp
    BY <1>7 DEF WakeUp
  <2>2. Chain(q)' = {}
    BY <1>0, <2>1 DEF Chain, Reach
  <2>3. ASSUME NEW r \in SleepQueue \ {q} PROVE Chain(r)' = Chain(r)
    BY <1>0, <2>1, <2>3 DEF Chain
  <2>4. Sleeping' = Sleeping
    BY <1>7 DEF Sleeping
  <2>5. Waiting' = [Waiting EXCEPT ![q] = {}]
    BY <2>2, <2>3 DEF Waiting
  <2>6. Chain(q) \subseteq Sleeping /\ \A r \in SleepQueue \ {q} : Chain(q) \cap Chain(r) = {}
    BY ChainsSleep
  <2>7. Woken' = Woken \cup Chain(q)
    <3>1. UNION {Chain(r)' : r \in SleepQueue} = (UNION {Chain(r) : r \in SleepQueue}) \ Chain(q)
      BY <2>2, <2>3, <2>6
    <3> QED BY <2>4, <2>6, <3>1 DEF Woken
  <2> QED BY <2>5, <2>7 DEF Abstract!WakeAll, Waiting
<1>8. ASSUME Next PROVE Abstract!WNext \/ (UNCHANGED <<Waiting, Woken>>)
  <2>1. ASSUME NEW t \in Task, NEW q \in SleepQueue, TaskWakesUp(t, q)
        PROVE  Abstract!WakeAll(q)
    BY <1>7, <2>1 DEF TaskWakesUp
  <2>2. ASSUME NEW q \in SleepQueue, InterruptWakesUp(q) PROVE Abstract!WakeAll(q)
    BY <1>7, <2>2 DEF InterruptWakesUp
  <2> QED BY <1>0, <1>2, <1>3, <1>4, <1>5, <1>6, <1>8, <2>1, <2>2
          DEF Next, TaskStep, Abstract!WNext
<1> QED BY <1>1, <1>8

\* sleep_on() and wake_up() are a wait queue: a wake-up releases everyone who
\* waits, and nothing else releases anybody.
THEOREM ListsImplementQueues ==
  ASSUME InterruptibleQueue = {}
  PROVE  Spec => Abstract!WSafe
<1>1. Init => Abstract!WInit
  <2> SUFFICES ASSUME Init PROVE Abstract!WInit
    OBVIOUS
  <2>1. \A q \in SleepQueue : Chain(q) = {}
    BY DEF Init, Chain, Reach, Queue
  <2>2. Sleeping = {}
    BY DEF Init, Sleeping
  <2> QED BY <2>1, <2>2 DEF Abstract!WInit, Waiting, Woken
<1>2. Init => ListInv
  BY ListInvInit
<1>3. ListInv /\ [Next]_vars => ListInv'
  BY ListInvStep
<1>4. ListInv /\ [Next]_vars => [Abstract!WNext]_(Abstract!wvars)
  BY StepsOfQueues DEF Abstract!wvars
<1> QED BY <1>1, <1>2, <1>3, <1>4, PTL DEF Spec, Abstract!WSafe
=============================================================================
