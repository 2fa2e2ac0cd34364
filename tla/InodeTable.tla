----------------------------- MODULE InodeTable -----------------------------
(***************************************************************************)
(* The table of inodes in memory: get_empty_inode(), iget(), iput(),       *)
(* read_inode(), write_inode(), sync_inodes() of fs/inode.c, new_inode()   *)
(* and free_inode() of fs/bitmap.c, and the ways the system calls use them.*)
(*                                                                         *)
(* One device.  A task in the kernel has a stack of frames, the function   *)
(* it executes first; a frame is the place it has come to, the inode it    *)
(* works on and the number it looks for.  The kernel is not preemptible:   *)
(* running is the task that has it, and a task gives it up where it waits  *)
(* for a lock or for a block of the disk (bread() always may).             *)
(*                                                                         *)
(* What an inode says of its file besides the number of links is data, one *)
(* bit, that Modify changes.  The blocks of a file are in FileBlocks, the  *)
(* directories in Directory, mounted devices in Mounts, pipes in Pipe.     *)
(***************************************************************************)
EXTENDS Naturals, Sequences, FiniteSets, FiniteSetsExt

CONSTANTS Task,
          NR_INODE,   \* entries of inode_table
          Num,        \* numbers of the inodes of the device
          BlkNum,     \* those that are files of block devices
          Regimes,    \* the sets of features to be explored, see Init
          NULL

Inode == 1..NR_INODE

Feature ==
    {"create", "unlink", "modify", "sync",
     "block_files",      \* the numbers in BlkNum are block devices
     "unlink_shared",    \* files that others may be opening are unlinked
     "lookup_sleeps",    \* iput(dir) sleeps between the look-up and iget()
     "dirty_buffers"}    \* getblk() finds only dirty buffers, and syncs

InodeTableAssumption ==
    /\ NR_INODE \in Nat \ {0} /\ Num \subseteq Nat /\ BlkNum \subseteq Num
    /\ Regimes \subseteq SUBSET Feature
    /\ NULL \notin Nat \cup Task

VARIABLES on,        \* the features of this behaviour
          table,     \* inode_table
          disk,      \* the inodes in the blocks of the device
          imap,      \* the numbers whose bit is set in s_imap
          names,     \* the tasks that know a name for a number, {} if it has none
          latest,    \* ghost: the data last given to a number
          stack, held, asleep, running, panic

vars == <<on, table, disk, imap, names, latest, stack, held, asleep, running,
          panic>>

\* memset(inode, 0, sizeof(*inode)); i_num is NULL when i_dev is 0.
Zeroed == [i_num |-> NULL, i_count |-> 0, i_dirt |-> FALSE, i_lock |-> FALSE,
           i_nlinks |-> 0, data |-> 0, i_wait |-> {}]

Places == {"get_empty", "iget", "read", "iput", "repeat", "truncate", "lock",
           "write", "sync", "open", "create", "unlink"}

TypeOK ==
    /\ on \in Regimes
    /\ table \in [Inode -> [i_num : Num \cup {NULL}, i_count : Nat,
                            i_dirt : BOOLEAN, i_lock : BOOLEAN, i_nlinks : 0..1,
                            data : 0..1, i_wait : SUBSET Task]]
    /\ disk \in [Num -> [i_nlinks : 0..1, data : 0..1]]
    /\ imap \subseteq Num
    /\ names \in [Num -> SUBSET Task]
    /\ latest \in [Num -> 0..1]
    /\ stack \in [Task -> Seq([at : Places, i : Inode \cup {NULL},
                               nr : Num \cup {NULL}])]
    /\ held \in [Task -> Inode \cup {NULL}]
    /\ asleep \subseteq Task
    /\ running \in Task \cup {NULL}
    /\ panic \in {NULL, "iput", "free_inode", "No free inodes"}

\* All files but one exist and are known to all tasks.
Init ==
    /\ on \in Regimes
    /\ table = [i \in Inode |-> Zeroed]
    /\ imap = Num \ {Max(Num)}
    /\ names = [n \in Num |-> IF n \in imap THEN Task ELSE {}]
    /\ disk = [n \in Num |-> [i_nlinks |-> IF n \in imap THEN 1 ELSE 0,
                              data |-> 0]]
    /\ latest = [n \in Num |-> 0]
    /\ stack = [t \in Task |-> <<>>]
    /\ held = [t \in Task |-> NULL]
    /\ asleep = {}
    /\ running = NULL
    /\ panic = NULL

-----------------------------------------------------------------------------
Frame(p, i, n) == [at |-> p, i |-> i, nr |-> n]

\* t has the kernel, or finds it free, and goes on in a frame at place p.
At(t, p) ==
    /\ panic = NULL /\ running \in {NULL, t} /\ t \notin asleep
    /\ stack[t] # <<>> /\ Head(stack[t]).at = p

\* A call by a task that is in its program.
User(t) == panic = NULL /\ running = NULL /\ stack[t] = <<>>

Below(t) == Tail(stack[t])
Replace(t, frames) == stack' = [stack EXCEPT ![t] = frames \o Below(t)]

\* The frame of t goes on as f, having first called what calls says.
Goto(t, calls, f) == Replace(t, calls \o <<f>>) /\ running' = t

Return(t) == Replace(t, <<>>) /\ running' = t

\* t returns inode i to its caller.
ReturnInode(t, i) ==
    /\ stack' = [stack EXCEPT ![t] =
                    <<[Head(Below(t)) EXCEPT !.i = i]>> \o Tail(Below(t))]
    /\ running' = t

\* sleep_on(&inode->i_wait), and the test of i_lock again after it.
SleepOn(t, i) ==
    /\ table' = [table EXCEPT ![i].i_wait = @ \cup {t}]
    /\ asleep' = asleep \cup {t}
    /\ running' = NULL
    /\ UNCHANGED <<stack, imap, panic>>

InSync(t) == \E k \in DOMAIN stack[t] : stack[t][k].at = "sync"

\* t calls bread() and is at frame f when it has the block.  When all buffers
\* are dirty getblk() calls sync_dev() (bound: not from inside a sync_dev()).
Bread(t, f) ==
    /\ \/ Replace(t, <<f>>)
       \/ /\ "dirty_buffers" \in on /\ ~InSync(t)
          /\ Replace(t, <<Frame("sync", 1, NULL), f>>)
    /\ running' = NULL

\* unlock_inode(): the table and the tasks that are asleep, if inode i is e.
Unlock(i, e) ==
    /\ table' = [table EXCEPT ![i] = [e EXCEPT !.i_lock = FALSE, !.i_wait = {}]]
    /\ asleep' = asleep \ table[i].i_wait

Panic(what) ==
    /\ panic' = what
    /\ UNCHANGED <<table, imap, stack, asleep, running>>

files == <<disk, names, latest>>

-----------------------------------------------------------------------------
\* Mutant: an entry that others count is taken as well.
FreeOrLast(i) == table[i].i_count <= 1

Free(i) == table[i].i_count = 0

\* get_empty_inode().  Which of the entries it finds depends on last_inode;
\* any one may be it.  One that is dirty or locked is the last resort.
GetEmpty(t) ==
    /\ At(t, "get_empty")
    /\ LET f == Head(stack[t])
           clean == {i \in Inode : Free(i) /\ ~table[i].i_dirt /\ ~table[i].i_lock}
           choice == IF f.i # NULL THEN {f.i}
                     ELSE IF clean # {} THEN clean ELSE {i \in Inode : Free(i)}
       IN  IF choice = {} THEN Panic("No free inodes")
           ELSE \E i \in choice :
             IF table[i].i_lock THEN SleepOn(t, i)
             ELSE IF table[i].i_dirt
             THEN /\ Goto(t, <<Frame("lock", i, NULL)>>, [f EXCEPT !.i = i])
                  /\ UNCHANGED <<table, imap, asleep, panic>>
             ELSE IF Free(i)
             THEN /\ table' = [table EXCEPT ![i] = [Zeroed EXCEPT !.i_count = 1]]
                  /\ ReturnInode(t, i)
                  /\ UNCHANGED <<imap, asleep, panic>>
             ELSE /\ Goto(t, <<>>, [f EXCEPT !.i = NULL])
                  /\ UNCHANGED <<table, imap, asleep, panic>>
    /\ UNCHANGED <<on, files, held>>

\* Mutant: the table is not searched after get_empty_inode(), which may sleep.
IgetSearchFirst(t) ==
    /\ At(t, "iget")
    /\ LET f == Head(stack[t])
       IN  /\ table' = [table EXCEPT ![f.i].i_num = f.nr, ![f.i].i_lock = TRUE]
           /\ Bread(t, [f EXCEPT !.at = "read"])
    /\ UNCHANGED <<on, files, held, asleep, imap, panic>>

\* iget() with its empty entry in f.i, and the search it makes again from the
\* start when it had to wait.  read_inode() locks a zeroed entry, at once.
Iget(t) ==
    /\ At(t, "iget")
    /\ LET f == Head(stack[t])
           match == {i \in Inode : table[i].i_num = f.nr}
       IN  IF match = {}
           THEN /\ table' = [table EXCEPT ![f.i].i_num = f.nr, ![f.i].i_lock = TRUE]
                /\ Bread(t, [f EXCEPT !.at = "read"])
                /\ UNCHANGED <<asleep, imap, panic>>
           ELSE LET i == Min(match)
                IN  IF table[i].i_lock THEN SleepOn(t, i)
                    ELSE /\ table' = [table EXCEPT ![i].i_count = @ + 1,
                                                   ![f.i].i_count = @ - 1]
                         /\ ReturnInode(t, i)
                         /\ UNCHANGED <<asleep, imap, panic>>
    /\ UNCHANGED <<on, files, held>>

\* The end of read_inode(): the block is there.
ReadInode(t) ==
    /\ At(t, "read")
    /\ LET i == Head(stack[t]).i
           d == disk[Head(stack[t]).nr]
       IN  /\ Unlock(i, [table[i] EXCEPT !.i_nlinks = d.i_nlinks, !.data = d.data])
           /\ ReturnInode(t, i)
    /\ UNCHANGED <<on, files, imap, held, panic>>

-----------------------------------------------------------------------------
\* free_inode()
FreeInode(t, i) ==
    IF table[i].i_count > 1 \/ table[i].i_nlinks # 0
    THEN Panic("free_inode")
    ELSE /\ imap' = imap \ {table[i].i_num}
         /\ table' = [table EXCEPT ![i] = Zeroed]
         /\ Return(t)
         /\ UNCHANGED <<asleep, panic>>

\* One reference less, and nothing else.
CountDown(t, i) ==
    /\ table' = [table EXCEPT ![i].i_count = @ - 1]
    /\ Return(t)
    /\ UNCHANGED <<imap, asleep, panic>>

\* iput() from repeat on: the inode is not locked.  truncate() of the last
\* reference to a file without links reads indirect blocks, and sleeps.
Release(t, i) ==
    IF table[i].i_count > 1
    THEN CountDown(t, i)
    ELSE IF table[i].i_nlinks = 0
    THEN /\ Bread(t, Frame("truncate", i, NULL))
         /\ UNCHANGED <<table, imap, asleep, panic>>
    ELSE IF table[i].i_dirt
    THEN /\ Goto(t, <<Frame("lock", i, NULL)>>, Frame("repeat", i, NULL))
         /\ UNCHANGED <<table, imap, asleep, panic>>
    ELSE CountDown(t, i)

\* iput() of an inode that is not a pipe's.
Iput(t) ==
    /\ At(t, "iput")
    /\ LET i == Head(stack[t]).i
       IN  IF table[i].i_lock THEN SleepOn(t, i)
           ELSE IF table[i].i_count = 0 THEN Panic("iput")
           ELSE IF table[i].i_num = NULL THEN CountDown(t, i)
           ELSE IF table[i].i_num \in BlkNum /\ "block_files" \in on
           THEN /\ Goto(t, <<Frame("sync", 1, NULL)>>, Frame("repeat", i, NULL))
                /\ UNCHANGED <<table, imap, asleep, panic>>
           ELSE Release(t, i)
    /\ UNCHANGED <<on, files, held>>

\* wait_on_inode() and goto repeat.
Repeat(t) ==
    /\ At(t, "repeat")
    /\ LET i == Head(stack[t]).i
       IN  IF table[i].i_lock THEN SleepOn(t, i) ELSE Release(t, i)
    /\ UNCHANGED <<on, files, held>>

Truncated(t) ==
    /\ At(t, "truncate")
    /\ FreeInode(t, Head(stack[t]).i)
    /\ UNCHANGED <<on, files, held>>

-----------------------------------------------------------------------------
\* Mutant: i_dirt is cleared before the block is there.
LockToWriteClean(t) ==
    /\ At(t, "lock")
    /\ LET i == Head(stack[t]).i
       IN  IF table[i].i_lock THEN SleepOn(t, i)
           ELSE IF ~table[i].i_dirt \/ table[i].i_num = NULL
           THEN /\ Unlock(i, table[i])
                /\ Return(t)
                /\ UNCHANGED <<imap, panic>>
           ELSE /\ table' = [table EXCEPT ![i].i_lock = TRUE, ![i].i_dirt = FALSE]
                /\ Bread(t, Frame("write", i, table[i].i_num))
                /\ UNCHANGED <<asleep, imap, panic>>
    /\ UNCHANGED <<on, files, held>>

\* write_inode(): lock_inode(), and nothing to be done if it is clean.
LockToWrite(t) ==
    /\ At(t, "lock")
    /\ LET i == Head(stack[t]).i
       IN  IF table[i].i_lock THEN SleepOn(t, i)
           ELSE IF ~table[i].i_dirt \/ table[i].i_num = NULL
           THEN /\ Unlock(i, table[i])
                /\ Return(t)
                /\ UNCHANGED <<imap, panic>>
           ELSE /\ table' = [table EXCEPT ![i].i_lock = TRUE]
                /\ Bread(t, Frame("write", i, table[i].i_num))
                /\ UNCHANGED <<asleep, imap, panic>>
    /\ UNCHANGED <<on, files, held>>

\* Mutant: unlock_inode() without its wake_up().
WriteInodeSilently(t) ==
    /\ At(t, "write")
    /\ LET i == Head(stack[t]).i
           e == table[i]
       IN  /\ disk' = [disk EXCEPT ![e.i_num] = [i_nlinks |-> e.i_nlinks,
                                                 data |-> e.data]]
           /\ table' = [table EXCEPT ![i].i_dirt = FALSE, ![i].i_lock = FALSE]
           /\ Return(t)
    /\ UNCHANGED <<on, names, latest, imap, held, asleep, panic>>

\* The end of write_inode(): the inode as it is now goes to the block of the
\* number it had; without a number it would go to an inode of that block.
WriteInode(t) ==
    /\ At(t, "write")
    /\ LET i == Head(stack[t]).i
           e == table[i]
           n == IF e.i_num = NULL THEN Head(stack[t]).nr ELSE e.i_num
       IN  /\ disk' = [disk EXCEPT ![n] = [i_nlinks |-> e.i_nlinks, data |-> e.data]]
           /\ Unlock(i, [e EXCEPT !.i_dirt = FALSE])
           /\ Return(t)
    /\ UNCHANGED <<on, names, latest, imap, held, panic>>

\* sync_inodes(), one entry of the table.
SyncInodes(t) ==
    /\ At(t, "sync")
    /\ LET i == Head(stack[t]).i
           write == IF table[i].i_dirt THEN <<Frame("lock", i, NULL)>> ELSE <<>>
           next == IF i < NR_INODE THEN <<Frame("sync", i + 1, NULL)>> ELSE <<>>
       IN  IF table[i].i_lock THEN SleepOn(t, i)
           ELSE /\ Replace(t, write \o next)
                /\ running' = t
                /\ UNCHANGED <<table, asleep, imap, panic>>
    /\ UNCHANGED <<on, files, held>>

-----------------------------------------------------------------------------
(***************************************************************************)
(* The system calls.                                                       *)
(***************************************************************************)
IgetOf(n) == <<Frame("get_empty", NULL, NULL), Frame("iget", NULL, n)>>

\* t has found number n in a directory and calls iget() for what is in rest.
LookUp(t, n, rest) ==
    /\ t \in names[n]
    /\ stack' = [stack EXCEPT ![t] = IgetOf(n) \o rest]
    /\ running' = IF "lookup_sleeps" \in on THEN NULL ELSE t
    /\ UNCHANGED <<on, table, files, imap, held, asleep, panic>>

\* open_namei() of an existing file; a task holds one inode at a time.
Open(t) ==
    /\ User(t) /\ held[t] = NULL
    /\ \E n \in Num : LookUp(t, n, <<Frame("open", NULL, NULL)>>)

Opened(t) ==
    /\ At(t, "open")
    /\ held' = [held EXCEPT ![t] = Head(stack[t]).i]
    /\ Replace(t, <<>>)
    /\ running' = NULL
    /\ UNCHANGED <<on, table, files, imap, asleep, panic>>

\* new_inode(), and the name that open_namei() gives it, known to t alone.
Create(t) ==
    /\ User(t) /\ held[t] = NULL /\ "create" \in on
    /\ stack' = [stack EXCEPT ![t] = <<Frame("get_empty", NULL, NULL),
                                      Frame("create", NULL, NULL)>>]
    /\ running' = t
    /\ UNCHANGED <<on, table, files, imap, held, asleep, panic>>

NewInode(t) ==
    /\ At(t, "create")
    /\ LET i == Head(stack[t]).i
           n == Min(Num \ imap)
       IN  IF Num \subseteq imap
           THEN /\ Goto(t, <<>>, Frame("iput", i, NULL))
                /\ UNCHANGED <<table, imap, names, latest, held>>
           ELSE /\ imap' = imap \cup {n}
                /\ table' = [table EXCEPT ![i].i_num = n, ![i].i_nlinks = 1,
                                          ![i].i_dirt = TRUE]
                /\ names' = [names EXCEPT ![n] = {t}]
                /\ latest' = [latest EXCEPT ![n] = 0]
                /\ held' = [held EXCEPT ![t] = i]
                /\ Replace(t, <<>>)
                /\ running' = NULL
    /\ UNCHANGED <<on, disk, asleep, panic>>

\* sys_unlink()
Unlink(t) ==
    /\ User(t) /\ on \cap {"unlink", "unlink_shared"} # {}
    /\ \E n \in Num :
          /\ names[n] = {t} \/ "unlink_shared" \in on
          /\ LookUp(t, n, <<Frame("unlink", NULL, n)>>)

\* ... and the rest of it, with the inode.
Unlinked(t) ==
    /\ At(t, "unlink")
    /\ LET i == Head(stack[t]).i
       IN  /\ names' = [names EXCEPT ![Head(stack[t]).nr] = {}]
           /\ table' = [table EXCEPT ![i].i_nlinks = 0, ![i].i_dirt = TRUE]
           /\ Goto(t, <<>>, Frame("iput", i, NULL))
    /\ UNCHANGED <<on, disk, imap, latest, held, asleep, panic>>

\* A change of the inode by a task that has it open: chmod(), write() ...
Modify(t) ==
    /\ User(t) /\ held[t] # NULL /\ "modify" \in on
    /\ LET i == held[t]
           d == 1 - table[i].data
       IN  /\ table' = [table EXCEPT ![i].data = d, ![i].i_dirt = TRUE]
           /\ latest' = [latest EXCEPT ![table[i].i_num] = d]
    /\ UNCHANGED <<on, disk, imap, names, stack, held, asleep, running, panic>>

Close(t) ==
    /\ User(t) /\ held[t] # NULL
    /\ stack' = [stack EXCEPT ![t] = <<Frame("iput", held[t], NULL)>>]
    /\ held' = [held EXCEPT ![t] = NULL]
    /\ running' = t
    /\ UNCHANGED <<on, table, files, imap, asleep, panic>>

\* sys_sync()
Sync(t) ==
    /\ User(t) /\ "sync" \in on
    /\ stack' = [stack EXCEPT ![t] = <<Frame("sync", 1, NULL)>>]
    /\ running' = t
    /\ UNCHANGED <<on, table, files, imap, held, asleep, panic>>

\* t is back in its program: the kernel is free.
Leave(t) ==
    /\ running = t /\ stack[t] = <<>>
    /\ running' = NULL
    /\ UNCHANGED <<on, table, files, imap, stack, held, asleep, panic>>

InKernel(t) ==
    \/ GetEmpty(t) \/ Iget(t) \/ ReadInode(t) \/ Iput(t) \/ Repeat(t)
    \/ Truncated(t) \/ LockToWrite(t) \/ WriteInode(t) \/ SyncInodes(t)
    \/ Opened(t) \/ NewInode(t) \/ Unlinked(t) \/ Leave(t)

Next ==
    \E t \in Task :
       \/ InKernel(t)
       \/ Open(t) \/ Create(t) \/ Unlink(t) \/ Modify(t) \/ Close(t) \/ Sync(t)

Spec == Init /\ [][Next]_vars

-----------------------------------------------------------------------------
(***************************************************************************)
(* Properties.                                                             *)
(***************************************************************************)
\* A file has one inode in memory, however the searches of the table and the
\* waiting of iget() and new_inode() interleave: two would lose each other's
\* changes.
OneInodePerNumber ==
    \A i, j \in Inode :
       table[i].i_num # NULL /\ table[i].i_num = table[j].i_num => i = j

\* The frames in which a task counts for inode i.
Using(t, i) ==
    {k \in DOMAIN stack[t] :
       /\ stack[t][k].i = i
       /\ stack[t][k].at \in {"iget", "read", "iput", "repeat", "truncate", "open",
                              "create", "unlink"}}

\* i_count is the number of tasks that have the inode open or are at work on
\* it, through every wait and every way out of iget() and iput().
CountIsHolders ==
    \A i \in Inode :
       table[i].i_count = Cardinality({t \in Task : held[t] = i})
                          + Cardinality({u \in Task \X (1..8) : u[2] \in Using(u[1], i)})

BeingRead(i) ==
    \E t \in Task : stack[t] # <<>> /\ Head(stack[t]).at = "read" /\ Head(stack[t]).i = i

\* What was last done to a file is what the next iget() will find: in the
\* table, or in the blocks of the device if the table has it not or has it
\* not changed.
NoChangeIsLost ==
    \A n \in Num : names[n] # {} =>
       LET in == {i \in Inode : table[i].i_num = n /\ ~BeingRead(i)}
       IN  /\ \A i \in in : table[i].data = latest[n]
           /\ (\A i \in in : ~table[i].i_dirt) => disk[n].data = latest[n]

\* The tasks that have locked inode i.
Lockers(i) ==
    {t \in Task : \E k \in DOMAIN stack[t] :
        stack[t][k].i = i /\ stack[t][k].at \in {"read", "write"}}

\* A task that sleeps on an inode waits for another task that has locked it:
\* its wake-up has not gone, nor was its queue cleared, nor is it waiting for
\* itself.
SleeperHasHope ==
    \A t \in asleep : \E i \in Inode :
       t \in table[i].i_wait /\ table[i].i_lock /\ Lockers(i) \ {t} # {}

\* The kernel's own assertions: iput() of a free inode, free_inode() of one
\* that others use or that has links.
NeverPanics == panic = NULL
=============================================================================
