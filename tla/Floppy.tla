-------------------------------- MODULE Floppy --------------------------------
(***************************************************************************)
(* The floppy driver: the request function, the timers that wait for the   *)
(* motor and the selection of a drive, the interrupts of the controller    *)
(* with retries, recalibration and reset (kernel/blk_drv/floppy.c), the    *)
(* list of timers and the motors (kernel/sched.c), and floppy_change(),    *)
(* which tasks call when they open a disk.                                 *)
(*                                                                         *)
(* The driver is sequential code that the clock, the controller and tasks  *)
(* enter in turn: fd is its state, and an operator yields the states that  *)
(* a function may leave behind.                                            *)
(***************************************************************************)
EXTENDS Naturals, Integers, SequencesExt

CONSTANTS Drive, Task,
          Track,       \* numbers of tracks, among them 0
          BEYOND,      \* the track of a request behind the end of the disk
          NR_REQUEST,  \* requests at a time
          MAX_ERRORS,
          SPINUP,      \* HZ/2, the ticks until a motor has its speed
          SHORT, LONG, \* 3*HZ and 10000, the ticks until it is stopped
          Regimes,     \* the sets of features to be explored, see Init
          NULL

Feature == {"io_errors",    \* transfers and seeks may fail
            "fdc_errors",   \* and so may the dialogue with the controller
            "beyond",       \* requests behind the end of the disk
            "stray",        \* interrupts nobody waits for
            "two_drives",   \* both drives are used
            "late_request", \* a request may come while a reset without one runs
            "slow",         \* the controller, or a task that has been woken, may
                            \* take longer than a motor is kept on
            "late_sleep"}   \* an interrupt may come between a task's look at the
                            \* driver and its sleep_on()

FloppyAssumption ==
    /\ 0 \in Track /\ BEYOND \notin Track /\ NULL \notin Track /\ 0 \in Drive
    /\ NR_REQUEST \in Nat /\ MAX_ERRORS \in Nat
    /\ SPINUP \in Nat /\ SHORT \in Nat /\ LONG \in Nat
    /\ 1 < SPINUP /\ SPINUP < LONG /\ 1 < SHORT /\ SHORT < LONG
    /\ Regimes \subseteq SUBSET Feature
    /\ NULL \notin {"rw", "seek", "recal", "reset"}

VARIABLES on,
          fd,    \* the state of the driver, the motors and the controller
          pc,    \* where a task is in floppy_change()
          nr     \* and for which drive

vars == <<on, fd, pc, nr>>

Used == IF "two_drives" \in on THEN Drive ELSE {0}

\* What the controller does, and the handlers of its interrupts.
Work == {"rw", "seek", "recal", "reset"}

Request == [drive : Drive, track : Track \cup {BEYOND}, errors : Nat]

\* A timer, and the ticks after which it should ring: due is not in the code,
\* like head, the tracks where the heads are, and spun, the ticks for which a
\* motor has been running.
Timer == [left : Nat, fn : {"on", "transfer"}, due : Int]

Driver ==
    [queue : Seq(Request), timers : Seq(Timer),
     reset : BOOLEAN, recalibrate : BOOLEAN, seek : BOOLEAN,
     selected : BOOLEAN, dor : Drive, motors : SUBSET Drive,
     mon : [Drive -> 0..SPINUP], moff : [Drive -> 0..LONG],
     drive : Drive, track : Track \cup {NULL}, seek_track : Track,
     do : Work \cup {NULL}, busy : Work \cup {NULL},
     head : [Drive -> Track], spun : [Drive -> 0..SPINUP], freed : BOOLEAN,
     wrong : SUBSET STRING]

TypeOK ==
    /\ on \in Regimes
    /\ fd \in Driver
    /\ pc \in [Task -> {"idle", "on", "to_motor", "motor", "check", "to_select", "select"}]
    /\ nr \in [Task -> Drive]

Init ==
    /\ on \in Regimes
    /\ fd = [queue |-> <<>>, timers |-> <<>>,
             reset |-> FALSE, recalibrate |-> FALSE, seek |-> FALSE,
             selected |-> FALSE, dor |-> 0, motors |-> {},
             mon |-> [d \in Drive |-> 0], moff |-> [d \in Drive |-> 0],
             drive |-> 0, track |-> NULL, seek_track |-> 0,
             do |-> NULL, busy |-> NULL,
             head |-> [d \in Drive |-> 0], spun |-> [d \in Drive |-> 0], freed |-> FALSE, wrong |-> {}]
    /\ pc = [t \in Task |-> "idle"]
    /\ nr = [t \in Task |-> 0]

-----------------------------------------------------------------------------
(***************************************************************************)
(* Motors and timers (kernel/sched.c)                                      *)
(***************************************************************************)
\* Mutant: the drive is selected although another one is.
MotorOnSelecting(f, d) ==
    [f EXCEPT !.moff[d] = LONG, !.motors = @ \cup {d}, !.dor = d,
              !.mon[d] = IF d \notin f.motors THEN SPINUP
                         ELSE IF d # f.dor /\ @ < 2 THEN 2 ELSE @,
              !.spun[d] = IF d \in f.motors THEN @ ELSE 0]

\* ticks_to_floppy_on(): the motor is started, and the drive selected unless
\* one is; what it returns is mon[d] then.
MotorOn(f, d) ==
    LET dor == IF f.selected THEN f.dor ELSE d
        mon == IF d \notin f.motors THEN SPINUP
               ELSE IF dor # f.dor /\ f.mon[d] < 2 THEN 2
               ELSE f.mon[d]
    IN  [f EXCEPT !.moff[d] = LONG, !.motors = @ \cup {d}, !.dor = dor, !.mon[d] = mon,
                  !.spun[d] = IF d \in f.motors THEN @ ELSE 0]

MotorOff(f, d) == [f EXCEPT !.moff[d] = SHORT]

\* add_timer(): the list is ordered, each timer has the ticks behind the one
\* before it.  The new one passes those that are shorter than what is left.
PassTimers(list, n, fn) ==
    LET Before(k) == FoldLeft(LAMBDA s, p : s + p.left, 0, SubSeq(list, 1, k))
        passed == CHOOSE k \in 0..Len(list) :
                     /\ \A j \in 1..k : list[j].left < n - Before(j - 1)
                     /\ k < Len(list) => list[k + 1].left >= n - Before(k)
    IN  InsertAt(list, passed + 1, [left |-> n - Before(passed), fn |-> fn, due |-> n])

InsertTimer(list, n, fn) ==
    IF list = <<>> THEN <<[left |-> n, fn |-> fn, due |-> n]>> ELSE PassTimers(list, n, fn)

-----------------------------------------------------------------------------
(***************************************************************************)
(* The driver (kernel/blk_drv/floppy.c)                                    *)
(***************************************************************************)
\* end_request()
EndRequest(f) == [MotorOff(f, Head(f.queue).drive) EXCEPT !.queue = Tail(@)]

Deselect(f) == [f EXCEPT !.selected = FALSE, !.freed = TRUE]

\* output_byte() for the bytes of a command: nothing is sent while a reset is
\* due, and a controller that is busy takes nothing.
Command(f, work) ==
    IF f.reset THEN {f}
    ELSE (IF f.busy = NULL THEN {[f EXCEPT !.busy = work]} ELSE {})
         \cup (IF f.busy # NULL \/ "fdc_errors" \in on THEN {[f EXCEPT !.reset = TRUE]} ELSE {})

\* reset_floppy(), which ends whatever the controller does.
ResetFloppy(f) ==
    [f EXCEPT !.reset = FALSE, !.recalibrate = TRUE, !.seek = FALSE,
              !.do = "reset", !.busy = "reset"]

\* "if (reset) do_fd_request();" behind the commands.
OrReset(S) == {IF f.reset THEN ResetFloppy(f) ELSE f : f \in S}

Recalibrate(f) ==
    OrReset({[g EXCEPT !.head[f.drive] = IF g.busy = "recal" THEN 0 ELSE @] :
             g \in Command([f EXCEPT !.recalibrate = FALSE, !.track = 0, !.do = "recal"],
                           "recal")})

\* What is wrong with a transfer that begins now.
Wrong(f) ==
    (IF f.queue = <<>> THEN {"no request"} ELSE {})
    \cup (IF ~f.selected \/ f.dor # f.drive THEN {"selection"} ELSE {})
    \cup (IF f.drive \notin f.motors \/ f.spun[f.drive] < SPINUP - 1 THEN {"motor"} ELSE {})
    \cup (IF f.head[f.drive] # f.seek_track THEN {"track"} ELSE {})

\* setup_rw_floppy()
SetupTransfer(f) ==
    OrReset({IF g.reset THEN g ELSE [g EXCEPT !.wrong = @ \cup Wrong(g)] :
             g \in Command([f EXCEPT !.do = "rw"], "rw")})

\* transfer()
Transfer(f) ==
    IF f.reset THEN {ResetFloppy(f)}
    ELSE IF ~f.seek THEN SetupTransfer(f)
    ELSE OrReset({[g EXCEPT !.head[f.drive] = IF g.busy = "seek" THEN f.seek_track ELSE @] :
                  g \in Command([f EXCEPT !.do = "seek"], "seek")})

\* floppy_on_interrupt(): the drive is selected, by force.
SelectDrive(f) ==
    LET g == [f EXCEPT !.selected = TRUE]
    IN  IF g.drive = g.dor THEN Transfer(g)
        ELSE {[g EXCEPT !.dor = g.drive, !.timers = InsertTimer(@, 2, "transfer")]}

\* do_fd_request() behind its first tests: what is behind the end of the disk
\* is given up, and the first other request waits for its motor.
StartRequest(f) ==
    LET bad == CHOOSE k \in 0..Len(f.queue) :
                  /\ \A j \in 1..k : f.queue[j].track = BEYOND
                  /\ k < Len(f.queue) => f.queue[k + 1].track # BEYOND
        drives == <<f.drive>> \o [j \in 1..Len(f.queue) |-> f.queue[j].drive]
        given == [f EXCEPT !.queue = SubSeq(@, bad + 1, Len(@)),
                           !.moff = [d \in Drive |-> IF \E j \in 1..bad : drives[j + 1] = d
                                                     THEN SHORT ELSE f.moff[d]]]
        next == IF bad < Len(f.queue) THEN bad + 1 ELSE bad
        g == [given EXCEPT !.drive = drives[next + 1],
                           !.seek = \E j \in 1..next : drives[j] # drives[j + 1]]
    IN  IF g.queue = <<>> THEN {g}
        ELSE LET r == Head(g.queue)
                 h == MotorOn([g EXCEPT !.seek = @ \/ r.track # g.track,
                                        !.seek_track = r.track], r.drive)
             IN  IF h.mon[r.drive] = 0 THEN SelectDrive(h)
                 ELSE {[h EXCEPT !.timers = InsertTimer(@, h.mon[r.drive], "on")]}

DoRequest(f) ==
    IF f.reset THEN {ResetFloppy(f)}
    ELSE IF f.recalibrate THEN Recalibrate([f EXCEPT !.seek = FALSE])
    ELSE StartRequest([f EXCEPT !.seek = FALSE])

\* Behind end_request(), bad_flp_intr() looks at the errors of the next request,
\* or of none, and finds any number.
AfterError(f, given) ==
    IF f.queue = <<>> THEN {[f EXCEPT !.wrong = @ \cup {"no request"}]}
    ELSE LET g == [f EXCEPT !.queue[1].errors = @ + 1]
             errors == g.queue[1].errors
             left == IF errors > MAX_ERRORS THEN EndRequest(given) ELSE g
             due == IF errors > MAX_ERRORS THEN {"reset", "recalibrate"}
                    ELSE IF errors > MAX_ERRORS \div 2 THEN {"reset"} ELSE {"recalibrate"}
         IN  {[left EXCEPT !.reset = @ \/ d = "reset",
                           !.recalibrate = @ \/ d = "recalibrate"] : d \in due}

\* bad_flp_intr()
Fail(f) == AfterError(f, Deselect(f))

\* Does work end well?  The dialogue after it may fail as well.
MayFail == {"io_errors", "fdc_errors"} \cap on # {}

\* rw_interrupt(): success, failure, or a disk that must not be written.
AfterTransfer(f, work) ==
    LET over == IF f.queue = <<>> THEN [f EXCEPT !.wrong = @ \cup {"no request"}]
                ELSE EndRequest(Deselect(f))
    IN  UNION {DoRequest(g) : g \in
            (IF work = "rw" THEN {over} ELSE {})
            \cup (IF work # "rw" \/ MayFail THEN Fail(f) ELSE {})}

\* seek_interrupt()
AfterSeek(f, work) ==
    (IF work = "seek" THEN SetupTransfer([f EXCEPT !.track = f.seek_track]) ELSE {})
    \cup (IF work # "seek" \/ MayFail THEN UNION {DoRequest(g) : g \in Fail(f)} ELSE {})

\* recal_interrupt() and, without do_fd_request(), unexpected_floppy_interrupt()
AfterRecalibrate(f) ==
    UNION {DoRequest(g) : g \in {[f EXCEPT !.recalibrate = FALSE]}
              \cup (IF "fdc_errors" \in on THEN {[f EXCEPT !.reset = TRUE]} ELSE {})}

Unexpected(f) ==
    {[f EXCEPT !.recalibrate = TRUE]}
    \cup (IF "fdc_errors" \in on THEN {[f EXCEPT !.reset = TRUE]} ELSE {})

\* floppy_interrupt: the handler is used once.
Handle(f, work) ==
    LET g == [f EXCEPT !.do = NULL]
    IN  CASE f.do = NULL    -> Unexpected(g)
          [] f.do = "rw"    -> AfterTransfer(g, work)
          [] f.do = "seek"  -> AfterSeek(g, work)
          [] f.do = "recal" -> AfterRecalibrate(g)
          [] f.do = "reset" -> DoRequest(g)

-----------------------------------------------------------------------------
(***************************************************************************)
(* Who enters the driver                                                   *)
(***************************************************************************)
\* The tasks that a change of the driver wakes: when the selection is given
\* up, and when a motor has its speed.  One that only is about to sleep is not
\* in the queue.
Become(g, position) ==
    /\ fd' = [g EXCEPT !.freed = FALSE]
    /\ pc' = [t \in Task |->
                IF position[t] = "select" /\ g.freed THEN "check"
                ELSE IF position[t] = "motor" /\ fd.mon[nr[t]] > 0 /\ g.mon[nr[t]] = 0
                THEN "on" ELSE position[t]]
    /\ UNCHANGED on

\* A task has looked at the driver, and will sleep for what it saw; no other
\* task runs in between.
AboutToSleep(t) == pc[t] \in {"to_motor", "to_select"}

TaskRuns(t) == \A u \in Task \ {t} : ~AboutToSleep(u)

\* Interrupts are on then: of floppy_on() ticks_to_floppy_on() has called sti(),
\* floppy_change() never disables them.
MayInterrupt == "late_sleep" \in on \/ \A t \in Task : ~AboutToSleep(t)

\* add_request(): an idle driver is started, otherwise the request is sorted in
\* behind the first.
MakeRequest ==
    /\ Len(fd.queue) < NR_REQUEST /\ \A t \in Task : ~AboutToSleep(t)
    /\ "late_request" \in on \/ fd.queue # <<>> \/ fd.busy = NULL
    /\ \E d \in Used, track \in Track \cup (IF "beyond" \in on THEN {BEYOND} ELSE {}) :
          LET r == [drive |-> d, track |-> track, errors |-> 0]
          IN  IF fd.queue = <<>>
              THEN \E g \in DoRequest([fd EXCEPT !.queue = <<r>>]) : Become(g, pc)
              ELSE \E k \in 2..(Len(fd.queue) + 1) :
                      Become([fd EXCEPT !.queue = InsertAt(@, k, r)], pc)
    /\ UNCHANGED nr

Interrupt ==
    /\ MayInterrupt /\ fd.busy # NULL
    /\ \E g \in Handle([fd EXCEPT !.busy = NULL], fd.busy) : Become(g, pc)
    /\ UNCHANGED nr

StrayInterrupt ==
    /\ MayInterrupt /\ "stray" \in on /\ fd.busy = NULL
    /\ \E g \in Handle(fd, NULL) : Become(g, pc)
    /\ UNCHANGED nr

\* The first timer rings if its time is over.
Ring(f) ==
    IF f.timers = <<>> THEN {f}
    ELSE IF Head(f.timers).left > 0 THEN {f}
    ELSE LET g == [f EXCEPT !.timers = Tail(@)]
         IN  IF Head(f.timers).fn = "on" THEN SelectDrive(g) ELSE Transfer(g)

\* do_floppy_timer()
MotorTick(f) ==
    [f EXCEPT !.mon = [d \in Drive |->
                          IF d \in f.motors /\ f.mon[d] > 0 THEN f.mon[d] - 1 ELSE f.mon[d]],
              !.moff = [d \in Drive |->
                          IF d \in f.motors /\ f.mon[d] = 0 /\ f.moff[d] > 0
                          THEN f.moff[d] - 1 ELSE f.moff[d]],
              !.motors = {d \in f.motors : f.mon[d] > 0 \/ f.moff[d] > 0},
              !.spun = [d \in Drive |-> IF f.spun[d] < SPINUP THEN f.spun[d] + 1 ELSE SPINUP]]

\* The motors the controller and tasks are about to use.
Awaited ==
    {d \in fd.motors : \/ fd.busy # NULL /\ fd.drive = d
                      \/ \E t \in Task : pc[t] = "on" /\ nr[t] = d}

\* do_timer(): the first timer is shortened, those that are over ring, of which
\* there are two at most.
Tick ==
    /\ MayInterrupt
    /\ fd.timers # <<>> \/ fd.motors # {}
    /\ "slow" \notin on => Awaited \subseteq MotorTick(fd).motors
    /\ LET aged == [k \in 1..Len(fd.timers) |->
                      [fd.timers[k] EXCEPT !.left = IF k = 1 THEN @ - 1 ELSE @, !.due = @ - 1]]
       IN  \E g \in Ring([fd EXCEPT !.timers = aged]) :
              \E h \in Ring(g) : Become(MotorTick(h), pc)
    /\ UNCHANGED nr

\* floppy_change()
BeginChange(t) ==
    /\ pc[t] = "idle" /\ TaskRuns(t)
    /\ \E d \in Used : nr' = [nr EXCEPT ![t] = d]
    /\ pc' = [pc EXCEPT ![t] = "on"]
    /\ UNCHANGED <<on, fd>>

\* A round of floppy_on(): the motor is started, and looked at.
FloppyOn(t) ==
    /\ pc[t] = "on" /\ TaskRuns(t)
    /\ LET g == MotorOn(fd, nr[t])
       IN  /\ fd' = g
           /\ pc' = [pc EXCEPT ![t] = IF g.mon[nr[t]] > 0 THEN "to_motor" ELSE "check"]
    /\ UNCHANGED <<on, nr>>

\* A round of floppy_change(): the selection is looked at.
Check(t) ==
    /\ pc[t] = "check" /\ TaskRuns(t)
    /\ \/ /\ fd.dor # nr[t] /\ fd.selected
          /\ pc' = [pc EXCEPT ![t] = "to_select"] /\ UNCHANGED fd
       \/ /\ fd.dor # nr[t] /\ ~fd.selected
          /\ pc' = [pc EXCEPT ![t] = "on"] /\ UNCHANGED fd
       \/ /\ fd.dor = nr[t]
          /\ pc' = [pc EXCEPT ![t] = "idle"] /\ fd' = MotorOff(fd, nr[t])
    /\ UNCHANGED <<on, nr>>

\* sleep_on() and interruptible_sleep_on()
FallAsleep(t) ==
    /\ AboutToSleep(t)
    /\ pc' = [pc EXCEPT ![t] = IF pc[t] = "to_motor" THEN "motor" ELSE "select"]
    /\ UNCHANGED <<on, fd, nr>>

Next ==
    \/ MakeRequest \/ Interrupt \/ StrayInterrupt \/ Tick
    \/ \E t \in Task : BeginChange(t) \/ FloppyOn(t) \/ Check(t) \/ FallAsleep(t)

Spec == Init /\ [][Next]_vars

\* The clock ticks, the controller answers, and tasks that can run do so.
FairSpec ==
    /\ Spec /\ WF_vars(Tick) /\ WF_vars(Interrupt)
    /\ \A t \in Task : WF_vars(FloppyOn(t) \/ Check(t) \/ FallAsleep(t))

-----------------------------------------------------------------------------
(***************************************************************************)
(* Properties.                                                             *)
(***************************************************************************)
\* While there are requests the driver is on its way: it waits for an interrupt
\* that will come or for a timer, through all errors and retries.
DriverIsAwake == fd.queue # <<>> => fd.busy # NULL \/ fd.timers # <<>>

\* A transfer begins only for a request, on the drive that is selected, with
\* its motor at speed and its head on the track.
TransfersAreRight == fd.wrong = {}

\* A timer rings when its time is over, not earlier and not later: what the
\* list says is what was asked for.
TimersAreExact ==
    \A k \in 1..Len(fd.timers) :
       FoldLeft(LAMBDA s, p : s + p.left, 0, SubSeq(fd.timers, 1, k)) = fd.timers[k].due

\* A task sleeps for the selection only while a drive is selected, which the
\* end of the request gives up; one that sleeps for a motor is waited for.
SleepersAreServed ==
    \A t \in Task :
       /\ pc[t] = "select" => fd.selected /\ fd.queue # <<>>
       /\ pc[t] = "motor" => nr[t] \in fd.motors /\ fd.mon[nr[t]] > 0

\* floppy_change() returns.
ChangesEnd == \A t \in Task : pc[t] # "idle" ~> pc[t] = "idle"
=============================================================================
