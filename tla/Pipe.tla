-------------------------------- MODULE Pipe --------------------------------
(***************************************************************************)
(* A pipe and the descriptors that lead to it: sys_pipe(), read_pipe() and *)
(* write_pipe() of fs/pipe.c, get_pipe_inode() and the pipe branch of      *)
(* iput() in fs/inode.c, the counts of the file table that sys_close(),    *)
(* dupfd(), fork and exit maintain.                                        *)
(*                                                                         *)
(* There is memory for one pipe; its inode has i_count, i_wait and, in     *)
(* i_zone[0] and i_zone[1], the head and the tail of a ring of PAGE_SIZE   *)
(* bytes.  A byte is its place in the stream of all bytes written, modulo  *)
(* twice the size of the ring; sent and got, ghosts, are how many bytes    *)
(* writers and readers have taken their turn for, modulo the same.         *)
(*                                                                         *)
(* A wake-up wakes all that sleep on i_wait: module SleepWake shows it of  *)
(* sleep_on() and wake_up().  The kernel is not preemptible; running is    *)
(* the task that has it.  A task gives it up where it sleeps: on i_wait,   *)
(* in get_empty_inode(), which may have to write an old inode, and, if     *)
(* Faults, where it touches a page of its program that is still on disk.   *)
(***************************************************************************)
EXTENDS Naturals, FiniteSets, FiniteSetsExt

CONSTANTS Task,
          PAGE_SIZE,
          NR_FILE,    \* entries of the file table
          NR_OPEN,    \* descriptors of a task
          Counts,     \* how many bytes a call may ask for
          Faults,     \* the copying from and to user space may sleep
          NULL

File == 1..NR_FILE
Fd == 0..(NR_OPEN - 1)
Byte == 0..(2 * PAGE_SIZE - 1)

ASSUME PipeAssumption ==
    /\ IsFiniteSet(Task) /\ PAGE_SIZE \in Nat \ {0}
    /\ NR_FILE \in Nat /\ NR_OPEN \in Nat
    /\ Counts \subseteq Nat \ {0}
    /\ Faults \in BOOLEAN
    /\ NULL \notin Nat \cup Task

VARIABLES f_count, f_mode,   \* the file table
          filp,              \* the descriptors of each task
          i_pipe, i_count,   \* the inode of the pipe
          head, tail, page,  \* the ring
          asleep,            \* the tasks that sleep on its i_wait
          sent, got,         \* ghosts: the places of head and tail in the stream
          running,           \* the task that has the kernel
          pc,
          f,                 \* f[2] of sys_pipe(): the entries it has taken
          left,              \* count: the bytes a call has still to transfer
          chars, slot,       \* what is left of a chunk, and where it is
          due,               \* ghost: the place in the stream of the next byte
          signal             \* the tasks for which SIGPIPE is pending

files == <<f_count, f_mode, filp>>
ring == <<head, tail, sent, got>>
chunk == <<chars, slot, due>>
vars == <<files, i_pipe, i_count, ring, page, asleep, running, pc, f, left,
          chunk, signal>>

Where == {"out", "create", "read", "copy_out", "write", "copy_in"}

TypeOK ==
    /\ f_count \in [File -> Nat]
    /\ f_mode \in [File -> {NULL, "r", "w"}]
    /\ filp \in [Task -> [Fd -> File \cup {NULL}]]
    /\ i_pipe \in BOOLEAN
    /\ i_count \in 0..2
    /\ head \in 0..(PAGE_SIZE - 1)
    /\ tail \in 0..(PAGE_SIZE - 1)
    /\ page \in [0..(PAGE_SIZE - 1) -> Byte \cup {NULL}]
    /\ asleep \subseteq Task
    /\ sent \in Byte
    /\ got \in Byte
    /\ running \in Task \cup {NULL}
    /\ pc \in [Task -> Where]
    /\ f \in [Task -> SUBSET File]
    /\ left \in [Task -> Nat]
    /\ chars \in [Task -> 0..PAGE_SIZE]
    /\ slot \in [Task -> 0..PAGE_SIZE]
    /\ due \in [Task -> Byte]
    /\ signal \subseteq Task

\* A page of get_free_page(): nothing that anybody has written.
Zeroes == [s \in 0..(PAGE_SIZE - 1) |-> NULL]

Init ==
    /\ f_count = [e \in File |-> 0]
    /\ f_mode = [e \in File |-> NULL]
    /\ filp = [t \in Task |-> [d \in Fd |-> NULL]]
    /\ i_pipe = FALSE
    /\ i_count = 0
    /\ head = 0 /\ tail = 0 /\ sent = 0 /\ got = 0
    /\ page = Zeroes
    /\ asleep = {}
    /\ running = NULL
    /\ pc = [t \in Task |-> "out"]
    /\ f = [t \in Task |-> {}]
    /\ left = [t \in Task |-> 0]
    /\ chars = [t \in Task |-> 0]
    /\ slot = [t \in Task |-> 0]
    /\ due = [t \in Task |-> 0]
    /\ signal = {}

-----------------------------------------------------------------------------
\* t is at point p and not asleep, and the kernel is its own, or free.
At(t, p) == running \in {NULL, t} /\ pc[t] = p /\ t \notin asleep

\* t goes on to p in the kernel.
Goto(t, p) ==
    /\ pc' = [pc EXCEPT ![t] = p]
    /\ running' = t

\* t returns to its program.
Return(t) ==
    /\ pc' = [pc EXCEPT ![t] = "out"]
    /\ running' = NULL

\* wake_up(&inode->i_wait)
WakeUp == asleep' = {}

\* wake_up(), and sleep_on() right after it.
WakeUpAndSleep(t) ==
    /\ asleep' = {t}
    /\ running' = NULL
    /\ UNCHANGED pc

PIPE_SIZE == (head + PAGE_SIZE - tail) % PAGE_SIZE

\* How many bytes can be transferred at once from position p of the ring.
Chunk(t, p, size) == Min({PAGE_SIZE - p, left[t], size})

\* The n lowest members of a set of numbers.
Lowest(n, S) == {x \in S : Cardinality({y \in S : y < x}) < n}

-----------------------------------------------------------------------------
(***************************************************************************)
(* Descriptors.                                                            *)
(***************************************************************************)
Unused == {e \in File : f_count[e] = 0}
FreeFds(t) == {d \in Fd : filp[t][d] = NULL}

\* The counts of the entries when t gives up the descriptors in fds.
CountsWithout(t, fds) ==
    [e \in File |-> f_count[e] - Cardinality({d \in fds : filp[t][d] = e})]

\* The entries that nobody has open any more: each is an iput() of the inode.
Gone(count) == {e \in File : f_count[e] > 0 /\ count[e] = 0}

EmptyRing == head' = 0 /\ tail' = 0 /\ sent' = 0 /\ got' = 0

\* Mutant: nobody is woken.
iputSilently(n) ==
    /\ i_count' = i_count - n
    /\ IF i_count' > 0 \/ ~i_pipe THEN UNCHANGED <<i_pipe, page, ring>>
       ELSE i_pipe' = FALSE /\ page' = Zeroes /\ EmptyRing
    /\ UNCHANGED asleep

\* n calls of iput() for the inode of the pipe.  The last one frees the page;
\* the ring, that nothing reads before it is set again, is cleared here.
iput(n) ==
    /\ i_count' = i_count - n
    /\ IF i_count' > 0 \/ ~i_pipe THEN UNCHANGED <<i_pipe, page, ring>>
       ELSE i_pipe' = FALSE /\ page' = Zeroes /\ EmptyRing
    /\ IF n = 0 THEN UNCHANGED asleep ELSE WakeUp

\* sys_close() of each descriptor in fds; they are all in use.
CloseAll(t, fds) ==
    LET count == CountsWithout(t, fds)
    IN  /\ filp' = [filp EXCEPT ![t] =
                       [d \in Fd |-> IF d \in fds THEN NULL ELSE filp[t][d]]]
        /\ f_count' = count
        /\ f_mode' = [e \in File |-> IF count[e] = 0 THEN NULL ELSE f_mode[e]]
        /\ iput(Cardinality(Gone(count)))

User(t) == running = NULL /\ pc[t] = "out" /\ t \notin signal

Close(t) ==
    /\ User(t)
    /\ \E d \in Fd \ FreeFds(t) : CloseAll(t, {d})
    /\ UNCHANGED <<running, pc, f, left, chunk, signal>>

\* dup(), or fcntl(F_DUPFD) with the least descriptor wanted.
Dup(t) ==
    /\ User(t)
    /\ \E d \in Fd \ FreeFds(t), arg \in Fd :
          \E new \in Lowest(1, {n \in FreeFds(t) : n >= arg}) :
             /\ filp' = [filp EXCEPT ![t][new] = filp[t][d]]
             /\ f_count' = [f_count EXCEPT ![filp[t][d]] = @ + 1]
    /\ UNCHANGED <<f_mode, i_pipe, i_count, ring, page, asleep, running, pc,
                   f, left, chunk, signal>>

\* A child gets all descriptors of its parent.  A task without descriptors
\* stands for one that does not exist yet.
Fork(t) ==
    /\ User(t)
    /\ FreeFds(t) # Fd
    /\ \E child \in Task :
          /\ pc[child] = "out" /\ FreeFds(child) = Fd /\ child \notin signal
          /\ filp' = [filp EXCEPT ![child] = filp[t]]
    /\ f_count' = [e \in File |->
                     f_count[e] + Cardinality({d \in Fd : filp[t][d] = e})]
    /\ UNCHANGED <<f_mode, i_pipe, i_count, ring, page, asleep, running, pc,
                   f, left, chunk, signal>>

\* The end of a task, by do_exit() of its own accord or of a pending SIGPIPE.
\* Closing does not sleep: nobody ever locks the inode of a pipe.
Exit(t) ==
    /\ running = NULL /\ pc[t] = "out"
    /\ CloseAll(t, Fd \ FreeFds(t))
    /\ signal' = signal \ {t}
    /\ UNCHANGED <<running, pc, f, left, chunk>>

\* A task that ignores SIGPIPE or has a handler goes on.
HandleSignal(t) ==
    /\ running = NULL /\ pc[t] = "out" /\ t \in signal
    /\ signal' = signal \ {t}
    /\ UNCHANGED <<files, i_pipe, i_count, ring, page, asleep, running, pc,
                   f, left, chunk>>

\* sys_pipe() takes two entries of the file table and two descriptors, or
\* gives back what it has taken and fails.  It then looks for a free inode and
\* may sleep there.
SysPipe(t) ==
    LET es == Lowest(2, Unused)
        ds == Lowest(2, FreeFds(t))
    IN  /\ User(t)
        /\ Cardinality(es) = 2 /\ Cardinality(ds) = 2
        /\ f_count' = [e \in File |-> IF e \in es THEN 1 ELSE f_count[e]]
        /\ filp' = [filp EXCEPT ![t] =
              [d \in Fd |-> IF d \notin ds THEN filp[t][d]
                            ELSE IF d = Min(ds) THEN Min(es) ELSE Max(es)]]
        /\ f' = [f EXCEPT ![t] = es]
        /\ pc' = [pc EXCEPT ![t] = "create"]
        /\ UNCHANGED <<f_mode, i_pipe, i_count, ring, page, asleep, running,
                       left, chunk, signal>>

\* get_pipe_inode() has found an inode and a page.
PipeInode(t) ==
    /\ At(t, "create") /\ ~i_pipe
    /\ i_pipe' = TRUE
    /\ i_count' = 2
    /\ EmptyRing
    /\ f_mode' = [f_mode EXCEPT ![Min(f[t])] = "r", ![Max(f[t])] = "w"]
    /\ f' = [f EXCEPT ![t] = {}]
    /\ page' = Zeroes
    /\ Return(t)
    /\ UNCHANGED <<f_count, filp, asleep, left, chunk, signal>>

\* Mutant: the entries of the file table stay in use.
NoPipeInodeLeaks(t) ==
    /\ At(t, "create") /\ i_pipe
    /\ filp' = [filp EXCEPT ![t] =
          [d \in Fd |-> IF filp[t][d] \in f[t] THEN NULL ELSE filp[t][d]]]
    /\ f' = [f EXCEPT ![t] = {}]
    /\ Return(t)
    /\ UNCHANGED <<f_count, f_mode, i_pipe, i_count, ring, page, asleep, left,
                   chunk, signal>>

\* It has not: the descriptors and the entries are free again.
NoPipeInode(t) ==
    /\ At(t, "create") /\ i_pipe
    /\ filp' = [filp EXCEPT ![t] =
          [d \in Fd |-> IF filp[t][d] \in f[t] THEN NULL ELSE filp[t][d]]]
    /\ f_count' = [e \in File |-> IF e \in f[t] THEN 0 ELSE f_count[e]]
    /\ f' = [f EXCEPT ![t] = {}]
    /\ Return(t)
    /\ UNCHANGED <<f_mode, i_pipe, i_count, ring, page, asleep, left, chunk,
                   signal>>

-----------------------------------------------------------------------------
(***************************************************************************)
(* read_pipe() and write_pipe().                                           *)
(***************************************************************************)
\* sys_read() or sys_write(), with a descriptor for that end of the pipe.
Call(t, mode, p) ==
    /\ User(t)
    /\ \E d \in Fd \ FreeFds(t) : f_mode[filp[t][d]] = mode
    /\ \E count \in Counts : left' = [left EXCEPT ![t] = count]
    /\ Goto(t, p)
    /\ UNCHANGED <<files, i_pipe, i_count, ring, page, asleep, f, chunk, signal>>

SysRead(t) == Call(t, "r", "read")
SysWrite(t) == Call(t, "w", "write")

\* The call returns.
EndCall(t) == Return(t) /\ left' = [left EXCEPT ![t] = 0]

\* It sleeps, after a wake_up(), and will look again.
Wait(t) == WakeUpAndSleep(t) /\ UNCHANGED left

NoTransfer == UNCHANGED <<files, i_pipe, i_count, ring, page, f, chunk>>

\* Mutant: a reader that is done wakes nobody.
ReadDoneSilently(t) ==
    /\ At(t, "read") /\ left[t] = 0
    /\ EndCall(t)
    /\ NoTransfer /\ UNCHANGED <<asleep, signal>>

ReadDone(t) ==
    /\ At(t, "read") /\ left[t] = 0
    /\ WakeUp
    /\ EndCall(t)
    /\ NoTransfer /\ UNCHANGED signal

\* Nothing to read: the end of the stream, or a writer has to come first.
ReadEmpty(t) ==
    /\ At(t, "read") /\ left[t] > 0 /\ PIPE_SIZE = 0
    /\ IF i_count # 2 THEN WakeUp /\ EndCall(t) ELSE Wait(t)
    /\ NoTransfer /\ UNCHANGED signal

\* The tail moves before the bytes are copied.
ReadChunk(t) ==
    LET n == Chunk(t, tail, PIPE_SIZE)
    IN  /\ At(t, "read") /\ left[t] > 0 /\ PIPE_SIZE > 0
        /\ left' = [left EXCEPT ![t] = @ - n]
        /\ chars' = [chars EXCEPT ![t] = n]
        /\ slot' = [slot EXCEPT ![t] = tail]
        /\ due' = [due EXCEPT ![t] = got]
        /\ tail' = (tail + n) % PAGE_SIZE
        /\ got' = (got + n) % (2 * PAGE_SIZE)
        /\ Goto(t, "copy_out")
        /\ UNCHANGED <<files, i_pipe, i_count, head, sent, page, asleep, f,
                       signal>>

WriteDone(t) ==
    /\ At(t, "write") /\ left[t] = 0
    /\ WakeUp
    /\ EndCall(t)
    /\ NoTransfer /\ UNCHANGED signal

\* No room: nobody will ever read, or a reader has to come first.
WriteFull(t) ==
    /\ At(t, "write") /\ left[t] > 0 /\ PIPE_SIZE = PAGE_SIZE - 1
    /\ IF i_count # 2
       THEN WakeUp /\ EndCall(t) /\ signal' = signal \cup {t}
       ELSE Wait(t) /\ UNCHANGED signal
    /\ NoTransfer

\* Mutant: the ring may become full to the last byte.
RoomForAll == PAGE_SIZE - PIPE_SIZE

Room == PAGE_SIZE - 1 - PIPE_SIZE

\* The head moves before the bytes are copied.
WriteChunk(t) ==
    LET n == Chunk(t, head, Room)
    IN  /\ At(t, "write") /\ left[t] > 0 /\ Room > 0
        /\ left' = [left EXCEPT ![t] = @ - n]
        /\ chars' = [chars EXCEPT ![t] = n]
        /\ slot' = [slot EXCEPT ![t] = head]
        /\ due' = [due EXCEPT ![t] = sent]
        /\ head' = (head + n) % PAGE_SIZE
        /\ sent' = (sent + n) % (2 * PAGE_SIZE)
        /\ Goto(t, "copy_in")
        /\ UNCHANGED <<files, i_pipe, i_count, tail, got, page, asleep, f,
                       signal>>

\* One byte is copied; the last one leads back to the loop.  (What is not used
\* any more is set to zero, here and where a call returns.)
NextByte(t, p) ==
    /\ chars' = [chars EXCEPT ![t] = @ - 1]
    /\ IF chars[t] > 1
       THEN /\ slot' = [slot EXCEPT ![t] = @ + 1]
            /\ due' = [due EXCEPT ![t] = (@ + 1) % (2 * PAGE_SIZE)]
            /\ Goto(t, pc[t])
       ELSE /\ slot' = [slot EXCEPT ![t] = 0]
            /\ due' = [due EXCEPT ![t] = 0]
            /\ Goto(t, p)
    /\ UNCHANGED <<files, i_pipe, i_count, ring, asleep, f, left, signal>>

CopyOut(t) == At(t, "copy_out") /\ NextByte(t, "read") /\ UNCHANGED page

CopyIn(t) ==
    /\ At(t, "copy_in")
    /\ page' = [page EXCEPT ![slot[t]] = due[t]]
    /\ NextByte(t, "write")

\* put_fs_byte() or get_fs_byte() meets a page that do_no_page() has to read.
Fault(t) ==
    /\ Faults
    /\ running = t /\ pc[t] \in {"copy_out", "copy_in"}
    /\ running' = NULL
    /\ UNCHANGED <<files, i_pipe, i_count, ring, page, asleep, pc, f, left,
                   chunk, signal>>

-----------------------------------------------------------------------------
Kernel(t) ==
    \/ PipeInode(t) \/ NoPipeInode(t)
    \/ ReadDone(t) \/ ReadEmpty(t) \/ ReadChunk(t) \/ CopyOut(t)
    \/ WriteDone(t) \/ WriteFull(t) \/ WriteChunk(t) \/ CopyIn(t)

Next ==
    \E t \in Task :
        \/ Kernel(t) \/ Fault(t)
        \/ Close(t) \/ Dup(t) \/ Fork(t) \/ Exit(t) \/ HandleSignal(t)
        \/ SysPipe(t) \/ SysRead(t) \/ SysWrite(t)

Spec == Init /\ [][Next]_vars

\* schedule() runs every task that can run again and again: a task in the
\* kernel goes on.  Nothing is assumed of what programs do.
Fairness == \A t \in Task : SF_vars(Kernel(t))
FairSpec == Spec /\ Fairness

-----------------------------------------------------------------------------
(***************************************************************************)
(* Properties.                                                             *)
(***************************************************************************)
InCall == {"read", "copy_out", "write", "copy_in"}

\* Every descriptor of every task is counted in the file table, and every end
\* of the pipe that is open in i_count: over dup, fork, exit, the end of one
\* pipe and the next, and a sys_pipe() that fails half way.
CountsAreHolders ==
    /\ \A e \in File :
          f_count[e] = Cardinality({h \in Task \X Fd : filp[h[1]][h[2]] = e})
    /\ i_count = Cardinality({e \in File :
                                f_count[e] > 0 /\ \A t \in Task : e \notin f[t]})

\* iput() frees the page of the pipe only when no task is inside read_pipe()
\* or write_pipe(), asleep or copying.
NoCallOutlivesPipe == \A t \in Task : pc[t] \in InCall => i_pipe

\* What a reader copies for its turn are the bytes that writers wrote at that
\* place of the stream: nothing is lost, repeated or overwritten when the
\* ring wraps, whoever else reads and writes.
ReadsTheStream ==
    \A t \in Task : pc[t] = "copy_out" => page[slot[t]] = due[t]

Open(mode) == \E t \in Task, d \in Fd : /\ filp[t][d] # NULL
                                         /\ f_mode[filp[t][d]] = mode
                                         /\ filp[t][d] \notin f[t]

\* A read that returns early tells the truth ("are there any writers?"): no
\* descriptor to write is left anywhere and all that was written has been
\* taken; so does SIGPIPE ("no readers").
HangUpIsTrue ==
    [][\A t \in Task :
          pc[t] \in {"read", "write"} /\ pc'[t] = "out" /\ left[t] > 0 =>
              IF pc[t] = "read" THEN ~Open("w") /\ sent = got ELSE ~Open("r")]_vars

\* No task sleeps for something that is there: a reader sleeps only while the
\* pipe is empty, a writer only while it is full, and both only while the
\* other end is open.  So a reader and a writer never wait for each other.
SleepersHaveReason ==
    \A t \in asleep :
        running = NULL =>
            /\ i_count = 2
            /\ PIPE_SIZE = IF pc[t] = "read" THEN 0 ELSE PAGE_SIZE - 1

\* When the last descriptor of one end is closed, every call that is under
\* way at the other end returns.
HangUpEndsCalls ==
    \A t \in Task : (pc[t] \in InCall /\ i_count = 1) ~> pc[t] = "out"

=============================================================================
