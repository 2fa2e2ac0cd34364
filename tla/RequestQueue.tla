---------------------------- MODULE RequestQueue ----------------------------
(***************************************************************************)
(* The block request queue (kernel/blk_drv/ll_rw_blk.c, blk.h) and the     *)
(* hard disk driver that serves it (hd.c).                                 *)
(*                                                                         *)
(* A task asks for a block with ll_rw_block(): it locks the buffer, takes  *)
(* a free entry of the table request[] and links it, in elevator order,    *)
(* into the list of the device.  The interrupts of the controller advance  *)
(* the request at the head of the list, retry it when it fails, and end    *)
(* it, which unlocks the buffer.                                           *)
(*                                                                         *)
(* Buffers are identified with the blocks they hold: they keep their block *)
(* while they are locked (module BufferCache).  Sleeping is the wait set   *)
(* of module WaitQueue; the task part of make_request() is one step        *)
(* between two sleeps, as the kernel is not preemptible, except at the     *)
(* point where an interrupt makes a difference (pc "full").                *)
(***************************************************************************)
EXTENDS Integers, FiniteSets, Sequences

CONSTANTS Task,
          Blocks,      \* block numbers; buffer b holds block b
          NR_REQUEST,  \* entries of the request table
          MAX_ERRORS,  \* failures after which a request is given up
          NrSects,     \* sectors of the partition (hd[dev].nr_sects)
          NULL

\* The handlers of the interrupts of the controller.
Handler == {"read_intr", "write_intr", "recal_intr"}

ASSUME RequestAssumption ==
    /\ Blocks \subseteq Nat
    /\ NR_REQUEST \in Nat /\ NR_REQUEST >= 3
    /\ MAX_ERRORS \in Nat \ {0}
    /\ NrSects \in Nat
    /\ NULL \notin Nat \cup Task \cup Handler

READ == 0
WRITE == 1

Slot == 0..(NR_REQUEST - 1)

VARIABLES request,          \* the table; dev = -1 marks a free entry
          current_request,  \* head of the list of the device
          driver,           \* "idle", "start": in do_hd_request(), "busy"
          do_hd,            \* the handler of the next interrupt
          reset, recalibrate,
          b_lock, b_dirt, b_uptodate,
          pc,               \* where a task is in make_request()
          arg               \* its arguments: the buffer and the command

bufs == <<b_lock, b_dirt, b_uptodate>>
hd == <<driver, do_hd, reset, recalibrate>>
tasks == <<pc, arg>>
vars == <<request, current_request, hd, bufs, tasks>>

\* "out"   : not in make_request()
\* "lock"  : about to test b_lock in lock_buffer()
\* "b_wait": asleep on the b_wait of the buffer
\* "find"  : about to look for a free entry, the buffer locked
\* "full"  : found none, not yet asleep
\* "r_wait": asleep on wait_for_request
Where == {"out", "lock", "b_wait", "find", "full", "r_wait"}

Request ==
    [dev : {-1, 0}, cmd : {READ, WRITE}, errors : 0..MAX_ERRORS,
     sector : Nat, nr_sectors : 0..2, bh : Blocks \cup {NULL},
     next : Slot \cup {NULL}]

Argument == [bh : Blocks \cup {NULL}, rw : {READ, WRITE}]

TypeOK ==
    /\ request \in [Slot -> Request]
    /\ current_request \in Slot \cup {NULL}
    /\ driver \in {"idle", "start", "busy"}
    /\ do_hd \in Handler \cup {NULL}
    /\ reset \in BOOLEAN /\ recalibrate \in BOOLEAN
    /\ b_lock \in [Blocks -> BOOLEAN]
    /\ b_dirt \in [Blocks -> BOOLEAN]
    /\ b_uptodate \in [Blocks -> BOOLEAN]
    /\ pc \in [Task -> Where]
    /\ arg \in [Task -> Argument]

Unused == [dev |-> -1, cmd |-> READ, errors |-> 0, sector |-> 0,
           nr_sectors |-> 0, bh |-> NULL, next |-> NULL]

NoArgument == [bh |-> NULL, rw |-> READ]

\* blk_dev_init(), and the initial values of hd.c: the first request makes
\* the driver reset the controller and recalibrate the drive.
Init ==
    /\ request = [i \in Slot |-> Unused]
    /\ current_request = NULL
    /\ driver = "idle"
    /\ do_hd = NULL
    /\ reset = TRUE
    /\ recalibrate = TRUE
    /\ b_lock = [b \in Blocks |-> FALSE]
    /\ b_dirt = [b \in Blocks |-> FALSE]
    /\ b_uptodate = [b \in Blocks |-> FALSE]
    /\ pc = [t \in Task |-> "out"]
    /\ arg = [t \in Task |-> NoArgument]

-----------------------------------------------------------------------------
(***************************************************************************)
(* The list of the device.                                                 *)
(***************************************************************************)
\* IN_ORDER: reads before writes, then by sector (one device).
IN_ORDER(s1, s2) ==
    \/ s1.cmd < s2.cmd
    \/ s1.cmd = s2.cmd /\ s1.sector < s2.sector

Used == {i \in Slot : request[i].dev >= 0}

\* q holds the used entries, each once, in the order of the links that start
\* at current_request.
IsList(q) ==
    /\ current_request = IF q = << >> THEN NULL ELSE q[1]
    /\ {q[k] : k \in DOMAIN q} = Used
    /\ \A j, k \in DOMAIN q : q[j] = q[k] => j = k
    /\ \A k \in DOMAIN q :
          request[q[k]].next = IF k = Len(q) THEN NULL ELSE q[k+1]

Lists == [1..Cardinality(Used) -> Slot]

\* The entries linked from current_request, in list order.
Queue == CHOOSE q \in Lists : IsList(q)

\* Mutant: there is no elevator at all, and the newest request is next.
InsertNewestNext(r) == current_request

\* The entry after which the elevator of add_request() puts r.
InsertAfter(r) ==
    LET q == Queue
        stops == {k \in 1..(Len(q) - 1) :
                    /\ \/ IN_ORDER(request[q[k]], r)
                       \/ ~IN_ORDER(request[q[k]], request[q[k+1]])
                    /\ IN_ORDER(r, request[q[k+1]])}
    IN  q[IF stops = {} THEN Len(q)
          ELSE CHOOSE k \in stops : \A j \in stops : k <= j]

\* Mutant: writes may take any entry.
AllowedAll(rw) == Slot

\* The entries the search for a command may take: writes stay out of the
\* last third.
Allowed(rw) == IF rw = READ THEN Slot ELSE 0..((NR_REQUEST * 2) \div 3 - 1)

Free(rw) == {i \in Allowed(rw) : request[i].dev < 0}

\* Mutant: the entries behind the new one are cut off.
AddRequestCutsTail(b, rw) ==
    LET i == CHOOSE i \in Free(rw) : \A j \in Free(rw) : j <= i
        r == [dev |-> 0, cmd |-> rw, errors |-> 0, sector |-> 2 * b,
              nr_sectors |-> 2, bh |-> b, next |-> NULL]
    IN  /\ b_dirt' = [b_dirt EXCEPT ![b] = FALSE]
        /\ IF current_request = NULL
           THEN /\ request' = [request EXCEPT ![i] = r]
                /\ current_request' = i
                /\ driver' = "start"
           ELSE /\ request' = [request EXCEPT ![i] = r,
                                              ![InsertAfter(r)].next = i]
                /\ UNCHANGED <<current_request, driver>>
        /\ UNCHANGED <<do_hd, reset, recalibrate>>

\* The request function is called if the list was empty; otherwise the
\* driver is busy and will come to the new entry.
AddRequest(b, rw) ==
    LET i == CHOOSE i \in Free(rw) : \A j \in Free(rw) : j <= i
        r == [dev |-> 0, cmd |-> rw, errors |-> 0, sector |-> 2 * b,
              nr_sectors |-> 2, bh |-> b, next |-> NULL]
    IN  /\ b_dirt' = [b_dirt EXCEPT ![b] = FALSE]
        /\ IF current_request = NULL
           THEN /\ request' = [request EXCEPT ![i] = r]
                /\ current_request' = i
                /\ driver' = "start"
           ELSE LET k == InsertAfter(r)
                IN  /\ request' = [request EXCEPT
                                     ![i] = [r EXCEPT !.next = request[k].next],
                                     ![k].next = i]
                    /\ UNCHANGED <<current_request, driver>>
        /\ UNCHANGED <<do_hd, reset, recalibrate>>

-----------------------------------------------------------------------------
(***************************************************************************)
(* The tasks.  One runs in the kernel only while no other one, and no      *)
(* request function, is in the middle of something.                        *)
(***************************************************************************)
KernelIsFree == driver # "start" /\ \A t \in Task : pc[t] # "full"

Needed(b, rw) ==
    ~ \/ rw = WRITE /\ ~b_dirt[b]
      \/ rw = READ /\ b_uptodate[b]

Leave(t) ==
    /\ pc' = [pc EXCEPT ![t] = "out"]
    /\ arg' = [arg EXCEPT ![t] = NoArgument]

NoRequest == UNCHANGED <<request, current_request, hd>>

\* From label "repeat" on, with the buffer locked.
FindEntry(t, b, rw) ==
    /\ b_lock' = [b_lock EXCEPT ![b] = TRUE]
    /\ UNCHANGED b_uptodate
    /\ \/ /\ Free(rw) # {}
          /\ AddRequest(b, rw)
          /\ Leave(t)
       \/ /\ Free(rw) = {}
          /\ pc' = [pc EXCEPT ![t] = "full"]
          /\ arg' = [arg EXCEPT ![t] = [bh |-> b, rw |-> rw]]
          /\ UNCHANGED b_dirt
          /\ NoRequest

\* lock_buffer() and what follows it in make_request().
LockAndRequest(t, b, rw) ==
    \/ /\ b_lock[b]
       /\ pc' = [pc EXCEPT ![t] = "b_wait"]
       /\ arg' = [arg EXCEPT ![t] = [bh |-> b, rw |-> rw]]
       /\ UNCHANGED bufs
       /\ NoRequest
    \/ /\ ~b_lock[b]
       /\ ~Needed(b, rw)
       /\ Leave(t)
       /\ UNCHANGED bufs
       /\ NoRequest
    \/ /\ ~b_lock[b]
       /\ Needed(b, rw)
       /\ FindEntry(t, b, rw)

MakeRequest(t, b, rw) ==
    /\ KernelIsFree
    /\ pc[t] = "out"
    /\ LockAndRequest(t, b, rw)

\* READA and WRITEA give up where the others would sleep.
MakeAheadRequest(b, rw) ==
    /\ KernelIsFree
    /\ ~b_lock[b]
    /\ Needed(b, rw)
    /\ Free(rw) # {}
    /\ b_lock' = [b_lock EXCEPT ![b] = TRUE]
    /\ AddRequest(b, rw)
    /\ UNCHANGED <<b_uptodate, tasks>>

\* Mutant: the loop of lock_buffer() is an if.
RetryLockOnce(t) ==
    /\ KernelIsFree
    /\ pc[t] = "lock"
    /\ FindEntry(t, arg[t].bh, arg[t].rw)

\* Woken in the loop of lock_buffer().
RetryLock(t) ==
    /\ KernelIsFree
    /\ pc[t] = "lock"
    /\ LockAndRequest(t, arg[t].bh, arg[t].rw)

SleepForRequest(t) ==
    /\ driver # "start"
    /\ pc[t] = "full"
    /\ pc' = [pc EXCEPT ![t] = "r_wait"]
    /\ UNCHANGED <<request, current_request, hd, bufs, arg>>

RetryFind(t) ==
    /\ KernelIsFree
    /\ pc[t] = "find"
    /\ FindEntry(t, arg[t].bh, arg[t].rw)

\* The file system modifies a buffer, and block_write() even one that is not
\* valid; nobody looks at b_lock.
Modify(b) ==
    /\ KernelIsFree
    /\ b_dirt' = [b_dirt EXCEPT ![b] = TRUE]
    /\ UNCHANGED <<request, current_request, hd, b_lock, b_uptodate, tasks>>

\* getblk() gives the memory of the block to another one, and later another
\* buffer to the block.
Recycle(b) ==
    /\ KernelIsFree
    /\ ~b_lock[b] /\ ~b_dirt[b]
    /\ \A t \in Task : arg[t].bh # b
    /\ b_uptodate' = [b_uptodate EXCEPT ![b] = FALSE]
    /\ UNCHANGED <<request, current_request, hd, b_lock, b_dirt, tasks>>

-----------------------------------------------------------------------------
(***************************************************************************)
(* The driver.                                                             *)
(***************************************************************************)
Current == request[current_request]

\* Mutant: no wake_up(&wait_for_request).
EndRequestSilently(uptodate) ==
    LET b == Current.bh
    IN  /\ b_uptodate' = [b_uptodate EXCEPT ![b] = uptodate]
        /\ b_lock' = [b_lock EXCEPT ![b] = FALSE]
        /\ pc' = [t \in Task |->
                     IF pc[t] = "b_wait" /\ arg[t].bh = b THEN "lock"
                     ELSE pc[t]]
        /\ request' = [request EXCEPT ![current_request] = Unused]
        /\ current_request' = Current.next
        /\ UNCHANGED <<b_dirt, arg>>

\* end_request(): the fields of an entry are dead once it is free.
EndRequest(uptodate) ==
    LET b == Current.bh
    IN  /\ b_uptodate' = [b_uptodate EXCEPT ![b] = uptodate]
        /\ b_lock' = [b_lock EXCEPT ![b] = FALSE]
        /\ pc' = [t \in Task |->
                     IF pc[t] = "b_wait" /\ arg[t].bh = b THEN "lock"
                     ELSE IF pc[t] = "r_wait" THEN "find"
                     ELSE pc[t]]
        /\ request' = [request EXCEPT ![current_request] = Unused]
        /\ current_request' = Current.next
        /\ UNCHANGED <<b_dirt, arg>>

\* bad_rw_intr().  Its second test reads the errors of whatever request is
\* current by then; there may be none, and then it reads through NULL.
BadRwIntr ==
    LET n == Current.errors + 1
        next == Current.next
    IN  \/ /\ n < MAX_ERRORS
          /\ request' = [request EXCEPT ![current_request].errors = n]
          /\ reset' = (reset \/ n > MAX_ERRORS \div 2)
          /\ UNCHANGED <<current_request, bufs, tasks>>
       \/ /\ n >= MAX_ERRORS
          /\ EndRequest(FALSE)
          /\ \E garbage \in BOOLEAN :
                reset' = (reset \/ IF next = NULL THEN garbage
                                   ELSE request[next].errors > MAX_ERRORS \div 2)

NoEnd == UNCHANGED <<request, current_request, bufs, tasks>>

\* One turn of the loop in do_hd_request().
NoMoreRequests ==
    /\ driver = "start"
    /\ current_request = NULL
    /\ driver' = "idle"
    /\ UNCHANGED <<do_hd, reset, recalibrate>>
    /\ NoEnd

BeyondPartition ==
    /\ driver = "start"
    /\ current_request # NULL
    /\ Current.sector + 2 > NrSects
    /\ EndRequest(FALSE)
    /\ UNCHANGED hd

\* hd_out(): the controller is given a command, handler takes its interrupt.
HdOut(handler) ==
    /\ driver = "start"
    /\ current_request # NULL
    /\ Current.sector + 2 <= NrSects
    /\ do_hd' = handler

ResetController ==
    /\ HdOut("recal_intr")
    /\ reset
    /\ reset' = FALSE
    /\ recalibrate' = TRUE
    /\ driver' = "busy"
    /\ NoEnd

Recalibrate ==
    /\ HdOut("recal_intr")
    /\ ~reset /\ recalibrate
    /\ recalibrate' = FALSE
    /\ driver' = "busy"
    /\ UNCHANGED reset
    /\ NoEnd

Transfer ==
    /\ HdOut(IF Current.cmd = WRITE THEN "write_intr" ELSE "read_intr")
    /\ ~reset /\ ~recalibrate
    /\ driver' = "busy"
    /\ UNCHANGED <<reset, recalibrate>>
    /\ NoEnd

\* The window between the search of make_request() and its sleep is some
\* instructions long: interrupts may come in it, but not so many that they
\* end all the requests the disk really has to serve.
WindowIsShort ==
    (\E t \in Task : pc[t] = "full") =>
        \E i \in Slot \ {current_request} :
            request[i].dev >= 0 /\ request[i].sector + 2 <= NrSects

\* The controller does not ask for the data of a write.
NoDataRequest ==
    /\ HdOut("write_intr")
    /\ WindowIsShort
    /\ ~reset /\ ~recalibrate
    /\ Current.cmd = WRITE
    /\ BadRwIntr
    /\ UNCHANGED <<driver, recalibrate>>

InterruptPossible == driver = "busy" /\ WindowIsShort

\* hd_interrupt() takes do_hd and clears it.  read_intr() and write_intr()
\* after a good sector that is not the last one ...
SectorDone ==
    /\ InterruptPossible
    /\ do_hd \in {"read_intr", "write_intr"}
    /\ Current.nr_sectors > 1
    /\ request' = [request EXCEPT
         ![current_request].nr_sectors = @ - 1,
         ![current_request].sector = @ + 1,
         ![current_request].errors = IF do_hd = "read_intr" THEN 0 ELSE @]
    /\ UNCHANGED <<current_request, hd, bufs, tasks>>

\* ... and after the last one; do_hd_request() follows at once.
RequestDone ==
    /\ InterruptPossible
    /\ do_hd \in {"read_intr", "write_intr"}
    /\ Current.nr_sectors = 1
    /\ EndRequest(TRUE)
    /\ do_hd' = NULL
    /\ driver' = "start"
    /\ UNCHANGED <<reset, recalibrate>>

Recalibrated ==
    /\ InterruptPossible
    /\ do_hd = "recal_intr"
    /\ do_hd' = NULL
    /\ driver' = "start"
    /\ UNCHANGED <<reset, recalibrate>>
    /\ NoEnd

\* Any of the three handlers, when win_result() reports an error.
InterruptWithError ==
    /\ InterruptPossible
    /\ BadRwIntr
    /\ do_hd' = NULL
    /\ driver' = "start"
    /\ UNCHANGED recalibrate

DoHdRequest ==
    \/ NoMoreRequests
    \/ BeyondPartition
    \/ ResetController
    \/ Recalibrate
    \/ Transfer
    \/ NoDataRequest

HdInterrupt ==
    \/ SectorDone
    \/ RequestDone
    \/ Recalibrated
    \/ InterruptWithError

-----------------------------------------------------------------------------
TaskStep(t) == RetryLock(t) \/ SleepForRequest(t) \/ RetryFind(t)

Next ==
    \/ \E t \in Task :
          \/ TaskStep(t)
          \/ \E b \in Blocks, rw \in {READ, WRITE} : MakeRequest(t, b, rw)
    \/ \E b \in Blocks :
          \/ Modify(b)
          \/ Recycle(b)
          \/ \E rw \in {READ, WRITE} : MakeAheadRequest(b, rw)
    \/ DoHdRequest
    \/ HdInterrupt

Spec == Init /\ [][Next]_vars

\* The request function runs to its end, the controller answers every
\* command (the driver has no time-out), and a task that is runnable runs.
Fairness ==
    /\ WF_vars(DoHdRequest)
    /\ WF_vars(HdInterrupt)
    /\ \A t \in Task : WF_vars(TaskStep(t))

FairSpec == Spec /\ Fairness

-----------------------------------------------------------------------------
(***************************************************************************)
(* Properties.                                                             *)
(***************************************************************************)
QueuedFor(b) == {i \in Slot : request[i].dev >= 0 /\ request[i].bh = b}

\* The tasks that hold the lock of b while they wait for a free entry.
Holders(b) ==
    {t \in Task : pc[t] \in {"find", "full", "r_wait"} /\ arg[t].bh = b}

\* The list holds every used entry, once: an insertion while the interrupts
\* take entries off the head neither drops nor repeats one, and the panic
\* "request list destroyed" of INIT_REQUEST is unreachable.
ListIsWhole == \E q \in Lists : IsList(q)

\* b_lock means exactly one owner: the one request of the buffer in the
\* list, or the one task that has locked it and looks for an entry.  So no
\* block is in the list twice, and "block not locked" is unreachable.
LockHasOneOwner ==
    \A b \in Blocks :
        Cardinality(QueuedFor(b)) + Cardinality(Holders(b)) =
            IF b_lock[b] THEN 1 ELSE 0

\* Writes never fill the table: a third of it is left for reads (the
\* comment in make_request()).
RoomForReads ==
    Cardinality({i \in Slot : request[i].dev >= 0 /\ request[i].cmd = WRITE})
        <= (NR_REQUEST * 2) \div 3

\* The elevator: the list turns back at most once, so the head sweeps
\* upwards, then once more over what came too late for this sweep.
OneTurnAtMost ==
    LET q == Queue
    IN  Cardinality({k \in 1..(Len(q) - 1) :
                        ~IN_ORDER(request[q[k]], request[q[k+1]])}) <= 1

\* The driver never falls asleep on a list that is not empty, and never
\* waits for an interrupt nobody handles.
DriverIsAwake ==
    /\ driver = "idle" => current_request = NULL
    /\ driver = "busy" => current_request # NULL /\ do_hd # NULL

\* Nobody sleeps for good: who is on b_wait waits for a locked buffer, who is
\* on wait_for_request for a list whose end of request will wake it.
SleepersWillBeWoken ==
    \A t \in Task :
        /\ pc[t] = "b_wait" => b_lock[arg[t].bh]
        /\ pc[t] = "r_wait" => current_request # NULL

\* Once in the list a request ends, however many requests keep arriving in
\* front of it and however often the controller fails.
RequestEnds ==
    \A b \in Blocks : (QueuedFor(b) # {}) ~> (QueuedFor(b) = {})

\* MAX_ERRORS is the number of "read/write errors/sector" (hd.c): a request
\* that moves on to its next sector starts with no errors.
ErrorsArePerSector ==
    [][\A i \in Slot :
          (request[i].nr_sectors = 2 /\ request'[i].nr_sectors = 1)
              => request'[i].errors = 0]_vars

\* bad_rw_intr() gives a request up after MAX_ERRORS failures: a block of the
\* partition is not reported bad (unlocked, not up to date) earlier.
GivenUpAfterMaxErrors ==
    [][\A i \in Slot :
          ( /\ request[i].dev >= 0
            /\ request'[i].dev < 0
            /\ 2 * request[i].bh + 2 <= NrSects
            /\ ~b_uptodate'[request[i].bh] )
              => request[i].errors >= MAX_ERRORS - 1]_vars
=============================================================================
