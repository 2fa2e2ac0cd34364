----------------------------- MODULE BufferCache -----------------------------
(***************************************************************************)
(* The buffer cache (fs/buffer.c): getblk(), bread(), breada(), brelse(),  *)
(* sync_dev(), and the ways in which the file system changes a buffer it   *)
(* holds (file_write() in fs/file_dev.c, block_write() in fs/block_dev.c,  *)
(* the many places that modify a block and then set b_dirt).               *)
(*                                                                         *)
(* There is one device.  Its driver is the interface of module             *)
(* RequestQueue: a request locks the buffer, clears b_dirt and some time   *)
(* later ends, in any order, with or without an error.  The contents of a  *)
(* block are a number; the ghost latest is the one written last.  The free *)
(* list is a set: getblk() may pick any of the least bad buffers.          *)
(*                                                                         *)
(* The kernel is not preemptible: running is the task that is on its way   *)
(* through the code below.  It gives the processor up where it sleeps, or  *)
(* where it leaves the cache; the interrupts of the device come anywhere.  *)
(***************************************************************************)
EXTENDS Naturals, FiniteSets

CONSTANTS Task,
          Block,       \* block numbers of the device
          NR_BUFFERS,
          Ops,         \* the operations the tasks perform
          ReadsAhead,  \* the tasks that call breada(), holding two buffers
          IoErrors,    \* the transfers that may fail: READ, WRITE
          NrContents,  \* how many different contents a block has
          NULL

Buffer == 1..NR_BUFFERS
AllOps == {"read", "modify", "copy", "block_write", "breada", "sync"}

ASSUME CacheAssumption ==
    /\ NR_BUFFERS \in Nat \ {0}
    /\ Ops \subseteq AllOps
    /\ ReadsAhead \subseteq Task
    /\ IoErrors \subseteq {"READ", "WRITE"}
    /\ NrContents \in Nat \ {0}
    /\ NULL \notin Nat \cup Task \cup Block \cup AllOps

\* NR_TASKS of them.
ASSUME FinitelyManyTasks == IsFiniteSet(Task)

VARIABLES b_block,      \* b_dev and b_blocknr: the block a buffer is for
          b_count, b_lock, b_dirt, b_uptodate,
          b_data,
          io,           \* the request of a locked buffer
          disk,         \* the contents on the device
          latest,       \* ghost: the contents last written by a task
          running,      \* the task that has the kernel
          pc, op, want, \* where a task is, its operation, the block it wants
          bh,           \* the buffer it works with (bh, or tmp of breada())
          first,        \* the buffer bh of breada() while it reads ahead
          idx           \* the index of its scan in sync_dev()

bufs == <<b_block, b_count, b_lock, b_dirt, b_uptodate, b_data>>
store == <<io, disk, latest>>
locals == <<op, want, bh, first, idx>>
vars == <<bufs, store, running, pc, locals>>

Data == 0..(NrContents - 1)

\* Where a task can be without having the kernel although nothing it waits
\* for is missing.
Rest == {"out", "use", "copy"}

\* Where it is at a wait_on_buffer(bh).
WaitPoint == {"hash_wait", "free_wait", "sync_wait", "read_wait", "rel_wait"}

Where == Rest \cup WaitPoint \cup {"get", "buffer_wait", "got", "sync"}

NoIo == [cmd |-> "NONE", data |-> 0]

TypeOK ==
    /\ b_block \in [Buffer -> Block \cup {NULL}]
    /\ b_count \in [Buffer -> Nat]
    /\ b_lock \in [Buffer -> BOOLEAN]
    /\ b_dirt \in [Buffer -> BOOLEAN]
    /\ b_uptodate \in [Buffer -> BOOLEAN]
    /\ b_data \in [Buffer -> Data]
    /\ io \in [Buffer -> [cmd : {"NONE", "READ", "WRITE"}, data : Data]]
    /\ disk \in [Block -> Data]
    /\ latest \in [Block -> Data]
    /\ running \in Task \cup {NULL}
    /\ pc \in [Task -> Where]
    /\ op \in [Task -> AllOps \cup {NULL}]
    /\ want \in [Task -> Block \cup {NULL}]
    /\ bh \in [Task -> Buffer \cup {NULL}]
    /\ first \in [Task -> Buffer \cup {NULL}]
    /\ idx \in [Task -> 0..(2 * NR_BUFFERS)]

\* buffer_init(): all buffers free, for no device.
Init ==
    /\ b_block = [b \in Buffer |-> NULL]
    /\ b_count = [b \in Buffer |-> 0]
    /\ b_lock = [b \in Buffer |-> FALSE]
    /\ b_dirt = [b \in Buffer |-> FALSE]
    /\ b_uptodate = [b \in Buffer |-> FALSE]
    /\ b_data = [b \in Buffer |-> 0]
    /\ io = [b \in Buffer |-> NoIo]
    /\ disk = [k \in Block |-> 0]
    /\ latest = [k \in Block |-> 0]
    /\ running = NULL
    /\ pc = [t \in Task |-> "out"]
    /\ op = [t \in Task |-> NULL]
    /\ want = [t \in Task |-> NULL]
    /\ bh = [t \in Task |-> NULL]
    /\ first = [t \in Task |-> NULL]
    /\ idx = [t \in Task |-> 0]

-----------------------------------------------------------------------------
\* t is at point p and the kernel is its own, or free.
At(t, p) == running \in {NULL, t} /\ pc[t] = p

\* t goes on to p.
Goto(t, p) ==
    /\ pc' = [pc EXCEPT ![t] = p]
    /\ running' = IF p \in Rest THEN NULL ELSE t

\* t goes on to p, a wait_on_buffer(b); it sleeps there if b is locked.
GotoWait(t, p, locked) ==
    /\ pc' = [pc EXCEPT ![t] = p]
    /\ running' = IF locked THEN NULL ELSE t

\* wait_on_buffer() returns: the buffer is not locked any more.
AfterWait(t, p) == At(t, p) /\ ~b_lock[bh[t]]

\* ll_rw_block(READ/WRITE, b) of an unlocked buffer: a request is queued.
Needed(cmd, b) ==
    \/ cmd = "READ" /\ ~b_uptodate[b]
    \/ cmd = "WRITE" /\ b_dirt[b]

ll_rw_block(cmd, b) ==
    /\ b_lock' = [b_lock EXCEPT ![b] = TRUE]
    /\ b_dirt' = [b_dirt EXCEPT ![b] = FALSE]
    /\ io' = [io EXCEPT ![b] = [cmd |-> cmd, data |-> b_data[b]]]

NoTransfer == UNCHANGED <<b_lock, b_dirt, io>>

\* find_buffer(): the buffers the hash queue holds for a block.
Found(k) == {b \in Buffer : b_block[b] = k}

BADNESS(b) == (IF b_dirt[b] THEN 2 ELSE 0) + (IF b_lock[b] THEN 1 ELSE 0)

-----------------------------------------------------------------------------
(***************************************************************************)
(* getblk().                                                               *)
(***************************************************************************)
\* Mutant: the count is not raised.
GetFoundUncounted(t) ==
    /\ At(t, "get")
    /\ \E b \in Found(want[t]) :
          /\ bh' = [bh EXCEPT ![t] = b]
          /\ GotoWait(t, "hash_wait", b_lock[b])
    /\ UNCHANGED <<bufs, store, op, want, first, idx>>

\* get_hash_table() finds the block: it is counted before the wait ...
GetFound(t) ==
    /\ At(t, "get")
    /\ \E b \in Found(want[t]) :
          /\ b_count' = [b_count EXCEPT ![b] = @ + 1]
          /\ bh' = [bh EXCEPT ![t] = b]
          /\ GotoWait(t, "hash_wait", b_lock[b])
    /\ UNCHANGED <<b_block, b_lock, b_dirt, b_uptodate, b_data, store, op,
                   want, first, idx>>

\* ... and given back, without a wake-up, if it is for another block then.
GetHashTableReturns(t) ==
    /\ AfterWait(t, "hash_wait")
    /\ LET same == b_block[bh[t]] = want[t]
       IN  /\ b_count' = IF same THEN b_count
                         ELSE [b_count EXCEPT ![bh[t]] = @ - 1]
           /\ Goto(t, IF same THEN "got" ELSE "get")
    /\ UNCHANGED <<b_block, b_lock, b_dirt, b_uptodate, b_data, store, locals>>

Unused == {b \in Buffer : b_count[b] = 0}

GetCandidate(t) ==
    /\ At(t, "get")
    /\ Found(want[t]) = {}
    /\ \E b \in Unused :
          /\ \A c \in Unused : BADNESS(b) <= BADNESS(c)
          /\ bh' = [bh EXCEPT ![t] = b]
          /\ GotoWait(t, "free_wait", b_lock[b])
    /\ UNCHANGED <<bufs, store, op, want, first, idx>>

\* sleep_on(&buffer_wait).
GetSleeps(t) ==
    /\ At(t, "get")
    /\ Found(want[t]) = {}
    /\ Unused = {}
    /\ pc' = [pc EXCEPT ![t] = "buffer_wait"]
    /\ running' = NULL
    /\ UNCHANGED <<bufs, store, locals>>

\* Back to label "repeat".
GetAgain(t) ==
    /\ bh' = [bh EXCEPT ![t] = NULL]
    /\ Goto(t, "get")
    /\ UNCHANGED <<bufs, store, op, want, first, idx>>

CandidateTaken(t) ==
    /\ AfterWait(t, "free_wait")
    /\ b_count[bh[t]] > 0
    /\ GetAgain(t)

CandidateDirty(t) ==
    /\ AfterWait(t, "free_wait")
    /\ b_count[bh[t]] = 0
    /\ b_dirt[bh[t]]
    /\ idx' = [idx EXCEPT ![t] = 1]
    /\ Goto(t, "sync")
    /\ UNCHANGED <<bufs, store, op, want, bh, first>>

\* The second find_buffer(): somebody else has read the block meanwhile.
CandidateNotNeeded(t) ==
    /\ AfterWait(t, "free_wait")
    /\ b_count[bh[t]] = 0 /\ ~b_dirt[bh[t]]
    /\ Found(want[t]) # {}
    /\ GetAgain(t)

\* The candidate becomes the buffer of the block.
TakeOver(t) ==
    /\ b_count' = [b_count EXCEPT ![bh[t]] = 1]
    /\ b_dirt' = [b_dirt EXCEPT ![bh[t]] = FALSE]
    /\ b_uptodate' = [b_uptodate EXCEPT ![bh[t]] = FALSE]
    /\ b_block' = [b_block EXCEPT ![bh[t]] = want[t]]
    /\ Goto(t, "got")
    /\ UNCHANGED <<b_lock, b_data, store, locals>>

\* Mutants: no second look at b_count, at b_dirt, at the hash table.
ClaimCounted(t) ==
    /\ AfterWait(t, "free_wait")
    /\ ~b_dirt[bh[t]]
    /\ Found(want[t]) = {}
    /\ TakeOver(t)

ClaimDirty(t) ==
    /\ AfterWait(t, "free_wait")
    /\ b_count[bh[t]] = 0
    /\ Found(want[t]) = {}
    /\ TakeOver(t)

ClaimTwice(t) ==
    /\ AfterWait(t, "free_wait")
    /\ b_count[bh[t]] = 0 /\ ~b_dirt[bh[t]]
    /\ TakeOver(t)

Claim(t) ==
    /\ AfterWait(t, "free_wait")
    /\ b_count[bh[t]] = 0 /\ ~b_dirt[bh[t]]
    /\ Found(want[t]) = {}
    /\ TakeOver(t)

-----------------------------------------------------------------------------
(***************************************************************************)
(* sync_dev(), two scans of the table, and sys_sync(), one.                *)
(***************************************************************************)
ScannedBuffer(t) == ((idx[t] - 1) % NR_BUFFERS) + 1

NextIndex(t) == [idx EXCEPT ![t] = IF @ = 2 * NR_BUFFERS THEN 0 ELSE @ + 1]

\* The scan comes to a buffer; those of another device are skipped.
SyncScan(t) ==
    /\ At(t, "sync")
    /\ idx[t] \in 1..(2 * NR_BUFFERS)
    /\ LET b == ScannedBuffer(t)
       IN  IF b_block[b] = NULL
           THEN /\ idx' = NextIndex(t)
                /\ Goto(t, "sync")
           ELSE /\ GotoWait(t, "sync_wait", b_lock[b])
                /\ UNCHANGED idx
    /\ UNCHANGED <<bufs, store, op, want, bh, first>>

SyncWrite(t) ==
    /\ At(t, "sync_wait")
    /\ LET b == ScannedBuffer(t)
       IN  /\ ~b_lock[b]
           /\ IF b_dirt[b] THEN ll_rw_block("WRITE", b) ELSE NoTransfer
    /\ idx' = NextIndex(t)
    /\ Goto(t, "sync")
    /\ UNCHANGED <<b_block, b_count, b_uptodate, b_data, disk, latest, op,
                   want, bh, first>>

\* The scan is over: back to getblk(), which waits for its candidate again,
\* or out of sys_sync().
SyncEnd(t) ==
    /\ At(t, "sync")
    /\ idx[t] = 0
    /\ IF op[t] = "sync"
       THEN /\ Goto(t, "out")
            /\ op' = [op EXCEPT ![t] = NULL]
       ELSE /\ GotoWait(t, "free_wait", b_lock[bh[t]])
            /\ UNCHANGED op
    /\ UNCHANGED <<bufs, store, want, bh, first, idx>>

-----------------------------------------------------------------------------
(***************************************************************************)
(* What the callers do with a block.                                       *)
(***************************************************************************)
Start(t, o, k) ==
    /\ At(t, "out")
    /\ o = "breada" => t \in ReadsAhead
    /\ op' = [op EXCEPT ![t] = o]
    /\ IF o = "sync"
       THEN /\ idx' = [idx EXCEPT ![t] = NR_BUFFERS + 1]
            /\ Goto(t, "sync")
            /\ UNCHANGED want
       ELSE /\ want' = [want EXCEPT ![t] = k]
            /\ Goto(t, "get")
            /\ UNCHANGED idx
    /\ UNCHANGED <<bufs, store, bh, first>>

\* bread() after getblk(); block_write() of a whole block does not read it.
BreadGot(t) ==
    /\ At(t, "got")
    /\ op[t] # "breada"
    /\ IF b_uptodate[bh[t]] \/ op[t] = "block_write"
       THEN NoTransfer /\ Goto(t, "use")
       ELSE ll_rw_block("READ", bh[t]) /\ GotoWait(t, "read_wait", TRUE)
    /\ UNCHANGED <<b_block, b_count, b_uptodate, b_data, disk, latest, locals>>

\* The end of bread() and breada(): an unreadable block is released.
BreadReturns(t) ==
    /\ AfterWait(t, "read_wait")
    /\ Goto(t, IF b_uptodate[bh[t]] THEN "use" ELSE "rel_wait")
    /\ UNCHANGED <<bufs, store, locals>>

\* breada(): the first block is asked for, then the one ahead is looked up.
BreadaFirst(t, k) ==
    /\ At(t, "got")
    /\ op[t] = "breada" /\ first[t] = NULL
    /\ k # want[t]
    /\ IF b_uptodate[bh[t]] THEN NoTransfer ELSE ll_rw_block("READ", bh[t])
    /\ first' = [first EXCEPT ![t] = bh[t]]
    /\ want' = [want EXCEPT ![t] = k]
    /\ Goto(t, "get")
    /\ UNCHANGED <<b_block, b_count, b_uptodate, b_data, disk, latest, op, bh,
                   idx>>

\* The read-ahead names the wrong buffer, the first one, and READA ignores a
\* locked buffer; then the buffer is given back without a wake-up.
BreadaAhead(t) ==
    /\ At(t, "got")
    /\ op[t] = "breada" /\ first[t] # NULL
    /\ LET ahead == ~b_uptodate[bh[t]] /\ ~b_lock[first[t]]
                        /\ Needed("READ", first[t])
       IN  IF ahead THEN ll_rw_block("READ", first[t]) ELSE NoTransfer
    /\ b_count' = [b_count EXCEPT ![bh[t]] = @ - 1]
    /\ bh' = [bh EXCEPT ![t] = first[t]]
    /\ first' = [first EXCEPT ![t] = NULL]
    /\ want' = [want EXCEPT ![t] = b_block[first[t]]]
    /\ GotoWait(t, "read_wait", b_lock'[first[t]])
    /\ UNCHANGED <<b_block, b_uptodate, b_data, disk, latest, op, idx>>

NewContents(k) == (latest[k] + 1) % NrContents

SetData(t) ==
    /\ b_data' = [b_data EXCEPT ![bh[t]] = NewContents(want[t])]
    /\ latest' = [latest EXCEPT ![want[t]] = NewContents(want[t])]

\* The contents change and b_dirt is set, with no sleep in between (the
\* directories, bit maps and inodes; block_write() after its copy loop).
Modify(t) ==
    /\ At(t, "use")
    /\ op[t] \in {"modify", "block_write"}
    /\ SetData(t)
    /\ b_dirt' = [b_dirt EXCEPT ![bh[t]] = TRUE]
    /\ GotoWait(t, "rel_wait", b_lock[bh[t]])
    /\ UNCHANGED <<b_block, b_count, b_lock, b_uptodate, io, disk, locals>>

\* file_write() sets b_dirt first; the copy that follows may sleep, as
\* get_fs_byte() may fault on a page of the caller that has to be loaded.
CopyBegins(t) ==
    /\ At(t, "use")
    /\ op[t] = "copy"
    /\ b_dirt' = [b_dirt EXCEPT ![bh[t]] = TRUE]
    /\ Goto(t, "copy")
    /\ UNCHANGED <<b_block, b_count, b_lock, b_uptodate, b_data, store, locals>>

CopyEnds(t) ==
    /\ At(t, "copy")
    /\ SetData(t)
    /\ GotoWait(t, "rel_wait", b_lock[bh[t]])
    /\ UNCHANGED <<b_block, b_count, b_lock, b_dirt, b_uptodate, io, disk,
                   locals>>

ReadOver(t) ==
    /\ At(t, "use")
    /\ op[t] \in {"read", "breada"}
    /\ GotoWait(t, "rel_wait", b_lock[bh[t]])
    /\ UNCHANGED <<bufs, store, locals>>

\* Mutant: no wake_up(&buffer_wait).
ReleaseSilently(t) ==
    /\ AfterWait(t, "rel_wait")
    /\ b_count' = [b_count EXCEPT ![bh[t]] = @ - 1]
    /\ pc' = [pc EXCEPT ![t] = "out"]
    /\ running' = NULL
    /\ op' = [op EXCEPT ![t] = NULL]
    /\ want' = [want EXCEPT ![t] = NULL]
    /\ bh' = [bh EXCEPT ![t] = NULL]
    /\ UNCHANGED <<b_block, b_lock, b_dirt, b_uptodate, b_data, store, first,
                   idx>>

\* brelse() after its wait; all who sleep on buffer_wait try again.
Release(t) ==
    /\ AfterWait(t, "rel_wait")
    /\ b_count' = [b_count EXCEPT ![bh[t]] = @ - 1]
    /\ pc' = [u \in Task |-> IF u = t THEN "out"
                             ELSE IF pc[u] = "buffer_wait" THEN "get"
                             ELSE pc[u]]
    /\ running' = NULL
    /\ op' = [op EXCEPT ![t] = NULL]
    /\ want' = [want EXCEPT ![t] = NULL]
    /\ bh' = [bh EXCEPT ![t] = NULL]
    /\ UNCHANGED <<b_block, b_lock, b_dirt, b_uptodate, b_data, store, first,
                   idx>>

-----------------------------------------------------------------------------
(***************************************************************************)
(* The device: end_request() of a transfer.                                *)
(***************************************************************************)
EndRequest(b, uptodate) ==
    /\ b_lock' = [b_lock EXCEPT ![b] = FALSE]
    /\ b_uptodate' = [b_uptodate EXCEPT ![b] = uptodate]
    /\ io' = [io EXCEPT ![b] = NoIo]
    /\ UNCHANGED <<b_block, b_count, b_dirt, latest, running, pc, locals>>

ReadDone(b) ==
    /\ io[b].cmd = "READ"
    /\ EndRequest(b, TRUE)
    /\ b_data' = [b_data EXCEPT ![b] = disk[b_block[b]]]
    /\ UNCHANGED disk

\* A buffer that is changed while it is being written may go out either way.
WriteDone(b) ==
    /\ io[b].cmd = "WRITE"
    /\ EndRequest(b, TRUE)
    /\ \E d \in {io[b].data, b_data[b]} : disk' = [disk EXCEPT ![b_block[b]] = d]
    /\ UNCHANGED b_data

TransferFails(b) ==
    /\ io[b].cmd \in IoErrors
    /\ EndRequest(b, FALSE)
    /\ UNCHANGED <<b_data, disk>>

Transfer(b) == ReadDone(b) \/ WriteDone(b) \/ TransferFails(b)

-----------------------------------------------------------------------------
GetStep(t) ==
    \/ GetFound(t)
    \/ GetHashTableReturns(t)
    \/ GetCandidate(t)
    \/ GetSleeps(t)
    \/ CandidateTaken(t)
    \/ CandidateDirty(t)
    \/ CandidateNotNeeded(t)
    \/ Claim(t)

SyncStep(t) == SyncScan(t) \/ SyncWrite(t) \/ SyncEnd(t)

UseStep(t) ==
    \/ BreadGot(t)
    \/ BreadReturns(t)
    \/ \E k \in Block : BreadaFirst(t, k)
    \/ BreadaAhead(t)
    \/ Modify(t)
    \/ CopyBegins(t)
    \/ CopyEnds(t)
    \/ ReadOver(t)
    \/ Release(t)

TaskStep(t) == GetStep(t) \/ SyncStep(t) \/ UseStep(t)

Next ==
    \/ \E t \in Task :
          \/ TaskStep(t)
          \/ \E o \in Ops, k \in Block : Start(t, o, k)
    \/ \E b \in Buffer : Transfer(b)

Spec == Init /\ [][Next]_vars

\* Transfers end (RequestEnds of module RequestQueue), and a task that can
\* run does: in particular it releases the buffers it holds.
Fairness ==
    /\ \A t \in Task : WF_vars(TaskStep(t))
    /\ \A b \in Buffer : WF_vars(Transfer(b))

FairSpec == Spec /\ Fairness

-----------------------------------------------------------------------------
(***************************************************************************)
(* Properties.                                                             *)
(***************************************************************************)
Holding == {"hash_wait", "got", "read_wait", "use", "copy", "rel_wait"}

\* The tasks that have counted buffer b.
Holders(b) == {t \in Task : pc[t] \in Holding /\ bh[t] = b}
Pinners(b) == {t \in Task : first[t] = b}

\* A block is in at most one buffer, however many tasks look for it, sleep
\* and claim a buffer for it at the same time (the note in getblk()).
OneBufferPerBlock ==
    \A b, c \in Buffer :
        b_block[b] = b_block[c] /\ b_block[b] # NULL => b = c

\* b_count is the number of tasks that use the buffer; so the panic "Trying
\* to free free buffer" of brelse() is unreachable and nobody leaks one.
CountIsHolders ==
    \A b \in Buffer :
        b_count[b] = Cardinality(Holders(b)) + Cardinality(Pinners(b))

\* A buffer a task has got from getblk() stays the buffer of its block, over
\* every sleep until brelse().
HeldBufferStays ==
    \A t \in Task :
        pc[t] \in Holding \ {"hash_wait"} => b_block[bh[t]] = want[t]

\* A valid buffer shows what was written last, to every reader.
ValidIsCurrent ==
    \A b \in Buffer :
        b_block[b] # NULL /\ b_uptodate[b] => b_data[b] = latest[b_block[b]]

\* A buffer that getblk() could take for another block, as it is clean and
\* not locked, holds nothing that is not on the device.
CleanIsOnDisk ==
    \A b \in Buffer :
        b_block[b] # NULL /\ b_uptodate[b] /\ ~b_dirt[b] /\ ~b_lock[b]
            => disk[b_block[b]] = b_data[b]

\* What was written last is never lost: it is on the device, or in a buffer
\* that is valid, or dirty, or on its way out.
NoUpdateIsLost ==
    \A k \in Block :
        \/ disk[k] = latest[k]
        \/ \E b \in Found(k) :
              /\ b_data[b] = latest[k]
              /\ b_uptodate[b] \/ b_dirt[b] \/ io[b].cmd = "WRITE"

\* Who sleeps on buffer_wait is not alone: somebody who is not asleep there
\* has a buffer and will come to its brelse(), which wakes the sleepers.
SleeperHasHope ==
    \A t \in Task : pc[t] = "buffer_wait" =>
        \E u \in Task : /\ pc[u] # "buffer_wait"
                        /\ pc[u] \in Holding \/ first[u] # NULL

\* If no new operation starts, those under way end: no task is left asleep
\* on a buffer or on buffer_wait.
OperationsEnd ==
    \/ []<><<\E t \in Task, o \in Ops, k \in Block : Start(t, o, k)>>_vars
    \/ \A t \in Task : pc[t] # "out" ~> pc[t] = "out"

\* "When a free buffer is available this process is woken" (the comment
\* before sleep_on() in getblk()): no task sleeps while a buffer is free.
NobodySleepsForFreeBuffer ==
    (\E t \in Task : pc[t] = "buffer_wait") => Unused = {}

\* breada() "marks other blocks for reading as well" (its comment): when it
\* gives the block ahead back, the block is valid or being read.
ReadAheadIsIssued ==
    [][\A t \in Task :
          (first[t] # NULL /\ first'[t] = NULL)
              => b_uptodate'[bh[t]] \/ b_lock'[bh[t]]]_vars

\* The comment of get_hash_table(): that an error forces a buffer bad while
\* somebody uses it "shouldn't really happen currently".
UsedBufferStaysValid ==
    \A t \in Task : pc[t] = "use" => b_uptodate[bh[t]]
=============================================================================
