# Specifications of the Linux 0.11 kernel in this repository

This directory models the repository's Linux 0.11 kernel (`src/linux-0.11`) in
TLA+: sleeping and waking, block devices, the buffer cache, the file system,
pipes, terminals and the console, memory, processes and signals, the scheduler,
the floppy disk. TLC checks the modules on small instances; TLAPS proves the most
important invariants for all sizes. The repository also holds the loaders of a
second system, Cosmos (`src/cosmos`), whose C code prepares memory and files
before a kernel runs; it is in the inventory and in the plan, and not modelled.

Contents: [1 the system](#1-the-system) ·
[2 modules](#2-the-modules-and-the-code) ·
[3 runs](#3-the-runs) · [4 fairness](#4-fairness) ·
[5 proofs](#5-the-proofs) · [6 what was found](#6-what-was-found) ·
[7 limits](#7-what-the-models-leave-out) · [8 plan](#8-plan)

To repeat everything, from this directory:

    tlc -workers 2 -config SleepOn.cfg SleepWake.tla      # any row of section 3
    tlapm CacheProofs.tla                                 # any *Proofs.tla

## 1. The system

Linux 0.11 runs on one processor. **The kernel is not preemptible**: a task in
the kernel keeps the processor until it calls `schedule()`. So concurrency has
exactly two sources, and every model here is built around them:

* a task that **sleeps** (`sleep_on`, a page fault, a call that may do either)
  finds, when it goes on, a world that other tasks have changed;
* an **interrupt** comes between any two instructions that are not protected by
  `cli()`, and may wake tasks and change the request list.

There are no locks but flags with a wait queue (`b_lock`, `i_lock`, `s_lock`)
and counts (`b_count`, `i_count`, `f_count`, `mem_map`). Nothing of the kernel
survives a reboot except what is on the disk, and there is no journal, so there
is no crash recovery to model.

### Inventory

| component | state | operations | what is hard; what makes it correct |
|---|---|---|---|
| **sleeping and waking** `kernel/sched.c` | `task->state`, the queue pointer, `tmp` on each kernel stack | `sleep_on`, `interruptible_sleep_on`, `wake_up`, `sys_pause`, `schedule` | The list of waiters has no nodes: it goes through the stacks of sleeping tasks and is walked by them, one wake-up at a time, while others join and signals tear tasks out of its middle. Nobody who waits is lost; nobody who was not woken returns; the dead stay dead. |
| **block request queue** `blk_drv/ll_rw_blk.c`, `blk.h` | `request[]`, `current_request`, `b_lock`, `wait_for_request` | `ll_rw_block`, `make_request`, `add_request`, `end_request` | Tasks insert while interrupts remove. The list is whole, one owner per lock, room for reads, no starvation by the elevator, no sleep without a wake-up to come. |
| **hard disk driver** `blk_drv/hd.c` | `do_hd`, `reset`, `recalibrate`, the progress of a request | `do_hd_request`, `read_intr`, `write_intr`, `recal_intr`, `bad_rw_intr` | A state machine run by interrupts, with retries and resets in the middle of a request. It never stops on a list that is not empty; it gives up after `MAX_ERRORS` and not before. |
| **buffer cache** `fs/buffer.c` | the buffer heads, hash queues, free list | `getblk`, `get_hash_table`, `bread`, `breada`, `brelse`, `sync_dev` | `getblk` sleeps up to three times between "not in the cache" and "mine". One buffer per block; counts are exact; a held buffer stays; no update is lost; who waits for a buffer gets one. |
| **pipes** `fs/pipe.c` | ring, head and tail in an inode, `i_count` as "both ends open" | `sys_pipe`, `read_pipe`, `write_pipe`, close, dup, fork, exit | Readers and writers share one wait queue; counts of files stand for ends. Bytes arrive once, in order; nobody waits for what is there; hang-up ends the waits. |
| **scheduler** `kernel/sched.c` | `counter`, `priority`, `alarm`, `jiffies` | `schedule`, `do_timer`, `sys_alarm`, `sys_nice` | Counters must make the choice fair, whatever sleepers save and `nice` and `fork` change: a runnable task waits for a bounded number of ticks. |
| **timers, floppy motors, floppy driver** `kernel/sched.c`, `blk_drv/floppy.c` | list of time differences, motor counters, selected drive, `seek`, `reset`, `recalibrate`, `do_floppy` | `add_timer`, `do_timer`, `do_floppy_timer`, `floppy_on`, the request function and its five interrupt handlers, `floppy_change` | Differences after an insertion; the drive may be deselected between a task's wake-up and its run. A transfer meets its drive, a motor at speed and the right track; the driver never stops on work. |
| RAM disk `blk_drv/ramdisk.c` | none beyond the request list | `do_rd_request` | Ends requests inside the request function, so `add_request` recurses over the list. |
| **inode table** `fs/inode.c`, `bitmap.c` | `i_count`, `i_lock`, `i_dirt`, the 32 entries | `iget`, `iput`, `get_empty_inode`, `sync_inodes` | Sleeps while it looks for an inode; `iput` sleeps with a count that says "unused" next. One entry per inode; a count is the number of users; no change is lost; who waits for an inode is woken. |
| **block mapping, bit maps, truncation** `fs/inode.c`, `bitmap.c`, `truncate.c` | bit maps in pinned buffers, `i_zone` | `_bmap`, `new_block`, `free_block`, `new_inode`, `free_inode`, `truncate` | Two tasks extend one file, or one truncates while another extends. A block has one owner, a bit is set exactly if it has, and a file never reads what another left in a block. |
| **super blocks** `fs/super.c` | `super_block[]`, `s_imount`, `i_mount` | `get_super`, `read_super`, `put_super`, `sys_mount`, `sys_umount` | An umount against an open, a second mount, or a disk that was changed. Super block and mount point belong together; what is in use is loaded. |
| **directories** `fs/namei.c` | directory entries in buffers | `namei`, `add_entry`, `sys_unlink`, `sys_mkdir`, `sys_rmdir`, `sys_link` | An entry is looked up, then the task sleeps, then the entry is used. Names are unique, links are counted, everything can be reached. |
| files and descriptors `fs/open.c`, `read_write.c`, `fcntl.c` | `file_table`, `filp`, close-on-exec | open, close, dup, lseek | Counts shared over fork; partial failure. |
| **memory** `mm/memory.c` | `mem_map`, page tables | `get_free_page`, `copy_page_tables`, `do_wp_page`, `do_no_page`, `share_page` | Counts of shared pages over fork, copy on write and sharing of executables; out of memory in the middle. |
| **processes, signals** `kernel/fork.c`, `exit.c`, `signal.c` | task table, `last_pid`, `signal`, `blocked`, `sigaction` | fork, exit, waitpid, kill, sigaction, `do_signal` | A child exits before, while or after its father waits, or after its father has gone. Everybody has a father that can wait for him; nobody waits beside a zombie. |
| program loading `fs/exec.c` | the address space | `do_execve` | Replaces what it is reading from; errors past the point of no return. |
| **terminals** `chr_drv/tty_io.c`, `serial.c`, `rs_io.s` | three rings per terminal | `tty_read`, `tty_write`, `copy_to_cooked`, the serial interrupts | Interrupts fill and drain rings that tasks test with `cli()` half of the time. What was typed arrives, edited, once; what was written goes out in order; the alarm lent to a time-out comes back. |
| **console** `chr_drv/console.c` | window in video memory, cursor, escape state | `con_write` and the functions of its escape sequences | Sequential, but every position exists twice and the window moves: it must look like a plain screen. |
| keyboard `keyboard.S` | state of the shift keys | the keyboard interrupt | A table of keys. |
| entry code `system_call.s`, `asm.s`, `traps.c` | register frames | system call entry, `ret_from_sys_call` | The point where signals and reschedules are seen. |
| allocator `lib/malloc.c` | bucket lists | `malloc`, `free_s` | Bucket lists of interrupt-protected pages. |
| Cosmos second stage `ldrkrl/chkcpmm.c`, `fs.c`, `bstartparm.c` | the E820 map, the file table of the image, the machine description | look for memory, place kernel and files, build page tables | Overlap of placed files, arithmetic at boundaries. Sequential. |
| Cosmos first stage, screen, glue; boot code, printk, user library, build tool, coprocessor stub | — | — | No state beyond the call, or run once before there is anything to interleave with. |

How the parts call each other, and therefore how the modules rest on each other:

    directories, mounts, files, pipes, exec         <- system calls of tasks
        |  iget/iput, _bmap/truncate   \
        v                               \
    inode table, blocks of files         \
        |  getblk/bread/brelse          \  sleep_on(i_wait)
        v                                \
    buffer cache  -- sleep_on(buffer_wait, b_wait) --\
        |  ll_rw_block (locks the buffer)             v
        v                                        sleeping and waking  <- signals,
    request queue -- wait_for_request, b_wait ------> ^                   clock
        |  request function                           |
        v                                             |
    hard disk driver <- interrupts -- end_request, unlock_buffer: wake_up

Each layer is checked against the interface of the one below it:

* `SleepWake` shows that the list on the stacks behaves like the wait *set* of
  `WaitQueue`; `RequestQueue`, `BufferCache` and `Pipe` use the set.
* `RequestQueue` shows that a request locks its buffer, that only one exists per
  buffer, and that it ends (`LockHasOneOwner`, `RequestEnds`); `BufferCache`
  has that as its driver: one transfer per locked buffer, ending in any order.
* `BufferCache` shows that a held buffer stays the buffer of its block
  (`HeldBufferStays`); `RequestQueue` uses it when it identifies a locked buffer
  with its block, and `InodeTable` and `FileBlocks` when they take a block for a
  place that is read and written as one.
* `InodeTable` shows that a number has one inode in memory and that its count is right
  (`OneInodePerNumber`, `CountIsHolders`); `Mounts`, `FileBlocks` and `Directory` use
  inodes as things with an identity and a count.
* `SleepWake` needs every runnable task to be chosen again and again; `Scheduler` shows
  that it waits for a bounded number of ticks (`WaitIsBounded`).

## 2. The modules and the code

The code's own names are used where TLA+ allows. In all modules a step of a task
runs from one point where it may lose the processor, or where an interrupt makes
a difference, to the next.

### WaitQueue — the abstract specification
`waiting[q]` is a set; `WakeAll(q)` releases all of it; `Return(t)` is what a
released task does. Nothing else takes a task out. Released tasks do return.

### SleepWake — `kernel/sched.c`
| model | code |
|---|---|
| `state`, `signal` | `task->state`; whether a signal is pending and not blocked |
| `head[q]`, `tmp[t]` | `*p`; the local variable `tmp` |
| `pc`, `on` | which sleep a task is in and at which statement |
| `current`, `sched` | the task on the processor; it is executing `schedule()` |
| `Enqueue`, `MarkAsleep` | `tmp = *p; *p = current`, and the change of state. They are two steps, because an interrupt may come between them when the caller has not disabled interrupts (`Masked` names the queues whose callers have) |
| `ReturnFromSleepOn` | the statement after `schedule()`: `if (tmp) tmp->state = 0` |
| `RepeatInterruptible`, `ReturnFromInterruptible` | the two branches of `if (*p && *p != current)` |
| `TaskWakesUp`, `InterruptWakesUp` | `wake_up()`, called by a task or a handler |
| `ScheduleTo`, `ScheduleIdle`, `Preempt`, `StateAfterScan` | `schedule()`: the scan that makes signalled interruptible tasks runnable, then the choice |
| `SysPause`, `PostSignal`, `DoSignal`, `Exit` | `sys_pause()`; a signal set; taken on return to user mode; the last `schedule()` of `do_exit()` |

### RequestQueue — `ll_rw_blk.c`, `blk.h`, `hd.c`
`request`, `current_request`, `do_hd`, `reset`, `recalibrate` and the buffer flags
are the code's. `driver` says whether the request function is running
(`"start"`), a command is with the controller (`"busy"`) or neither. `MakeRequest`
is `ll_rw_block` up to the point where it would sleep; `FindEntry` and
`AddRequest` are the search from the end of the allowed part of the table and the
insertion in elevator order; `DoHdRequest` is `do_hd_request` with its goto
`repeat` unrolled into steps; `HdInterrupt` is the handler in `do_hd` with the
outcomes the controller can report. A request has two sectors, advanced in place,
as in the code. `MakeAheadRequest` is `READA`/`WRITEA`: given up if the buffer is
locked or the table full. `Modify` and `Recycle` are what users of a buffer
may do to its flags in between.

### BufferCache — `buffer.c`, with `block_dev.c` and `file_dev.c`
A buffer head is `b_block`, `b_count`, `b_lock`, `b_dirt`, `b_uptodate`,
`b_data`. `want`, `bh`, `first` are local variables of a call. `GetFound` and
`GetHashTableReturns` are `get_hash_table` around its sleep; `GetCandidate`,
`CandidateTaken`, `CandidateDirty`, `CandidateNotNeeded`, `Claim` are `getblk`
between its sleeps; `SyncScan`, `SyncWrite`, `SyncEnd` the two passes of `sync_dev`, called by
`getblk` and by `sys_sync`; `Bread…`, `Breada…`, `Release` the rest. `Modify`
changes a block and sets `b_dirt` as one step (`add_entry`, `new_block` and the
like); `CopyBegins`/`CopyEnds` set `b_dirt` first and copy later
(`file_write`), and `block_write` fills a block it has not read. `Transfer` is
the driver. `disk` and the ghost `latest` are what is on the device and what was
written last.

### Pipe — `pipe.c`, the pipe parts of `inode.c`, the counts of `open.c`, `fcntl.c`, `fork.c`, `exit.c`
`f_count`, `f_mode`, `filp`, `i_count`, `head`, `tail`, `page` are the code's.
`ReadEmpty`, `ReadChunk`, `CopyOut`, `ReadDone` are the loop of `read_pipe`
(and likewise for `write_pipe`); `SysPipe`, `PipeInode`, `NoPipeInode` are
`sys_pipe` before and after `get_empty_inode`, which may sleep, with both of its
failures; `Close`, `Dup`, `Fork`, `Exit` are the counting of files; `iput` is the
pipe branch of `iput`. A byte is its position in the stream modulo twice the
ring, which is enough to tell every byte of the ring from every byte it could be
confused with.

### AddressSpaces — the abstract specification
`mem[t]` is the memory of a task as a function from pages to contents. Only `Write(t, a)`
changes a page, and only of `t`; `ForkTask` copies, `Execute` starts from the file.

### Memory — `mm/memory.c`, `mm/page.s`, and the pages of `fork.c`, `exec.c`, `exit.c`
| model | code |
|---|---|
| `mem_map` | `mem_map[]` of the pages above `LOW_MEM` |
| `dir`, `pte` | the entries of the page directory and of the page tables that belong to a task; an entry has its page, R/W and the dirty bit of the processor |
| `data` | what a page holds: zeroes, arguments, the file of a program, or the last write of a task |
| `fault`, `page` | the address and the page of a `do_no_page` that sleeps in `bread_page` |
| `arg`, `next` | `page[]` and `inode` of a `do_execve` under way |
| `pc`, `at` | between which steps of a call the task is, and the address of a write under way |
| `LastFree` | `get_free_page`, which scans from the end |
| `NoPage` = `EmptyPage`, `SharePage`, `StartLoad`; `LoadDone` | `do_no_page` up to the sleep of `bread_page`, and after it |
| `UnWpPage`; `WriteFault`, `Retry` | `un_wp_page`; the fault, and the instruction executed again |
| `VerifyArea`, `KernelWrite` | `verify_area`/`write_verify`, and the write of the kernel, for which R/W is ignored (a 386, or a later processor with WP off, as head.s leaves it) |
| `Fork`, `ForkFails` | `copy_process`, `copy_mem`, `copy_page_tables`, complete and with memory running out in between |
| `ExecBegin`, `ExecFault`, `ExecFails`, `ExecCommit`, `ExecReplace` | `copy_strings`, a fault on a string, `exec_error2`, the new `executable` and `sys_close`, `free_page_tables` and `change_ldt` |
| `Die`, `Exit`, `Release` | `do_exit`, also from `oom()`; `release` |

`Windows` says which of the places where a call may sleep, or the clock may come, are
open. After `VerifyArea` the call writes (`KernelWrite`) or finds that it has nothing to write
(`NothingToWrite`: end of file, an empty pipe); with window `"unused"` the latter may also leave a
copy of `un_wp_page` behind that nobody has written to (`Stale`). `MemoriesAreSeparate` says that the memory a task sees through its tables
(`Seen`) implements `AddressSpaces`.

### Features
The modules below have a constant `Regimes`, a set of sets of features; a behaviour
begins by choosing one of the sets (variable `on`) and keeps to it. A feature opens
operations, or a window in which the code goes wrong: what TLC then finds is in
section 6, and the sets in the configurations are those for which the properties
hold. Several small sets cost far less than one large one, and each operation
is in some set.

### InodeTable — `fs/inode.c`, the inode part of `bitmap.c`
A task in the kernel has a `stack` of frames: `iget` calls `get_empty_inode`, which
calls `write_inode`, which waits for a lock. A frame is a function, the place in it,
the inode and the number. `running` is the task that has the kernel; it gives it
up at a lock (`SleepOn`) or at a block (`Bread`), and only there.
`GetEmpty`, `Iget`, `ReadInode`, `LockToWrite`, `WriteInode`, `SyncInodes`, `Iput`, `Repeat`,
`Truncated`, `FreeInode` are the functions between these places; `Open`, `Create`,
`Unlink`, `Modify`, `Close` and `Sync` what system calls make of them. `names` is who
knows a name for a number. `panic` is the argument of a `panic()` that was reached.

### FileBlocks — `_bmap`, `truncate.c`, the block part of `bitmap.c`
A file has `DIRECT` blocks, a block of `PER` numbers, and a block of `PER` such blocks:
`_bmap` is a walk along a `path` of indices (`Bmap`, `NewBlock`, `HaveBlock`), `truncate`
a list of things still `todo` (`TruncateZone`, `FreeTree`, `FreeEntry`, `FreeBlock`,
`ClearZone`), in the order of the code. `data` is the file for which a block was last
written, so that a reader can tell a block of its own from what another file left.

### Mounts — `fs/super.c`, the mount points of `inode.c`
`LookUp` is an open that crosses a mount point; `Mount`, `CheckDir`, `ReadSuper`, `LockSuper`,
`SuperRead`, `Attach` are `sys_mount` and `read_super` between their sleeps, for the lock of the
entry and for its blocks; `Umount`, `Iput`, `Sync` are `sys_umount`; `PutSuper` and `SuperPut` are
`put_super` before and after it sleeps in `brelse`, when the entry has no device, is locked and may be
taken by a `read_super`. `DiskChange` and `Invalidate` are `check_disk_change`, with `put_super` in
between. `s_map` says whether the entry still owns its bit maps: to put them twice is a panic
of `brelse`. A task that has taken a locked entry gets the lock before any other, unless feature
`"overtaken"` is chosen. The root inode of a device stands for all inodes of the device.

### Directory — `fs/namei.c`
`call[t]` is the system call of a task with its local variables. `Search` reads one block
of a directory, the step at which the task may sleep; `Follow` goes down a path.
`CreateFile`, `MakeNode`, `MakeDirectory`, `LinkTo`, `Add`, `Linked`, `NextBlock`, `NoSpace`
are `open_namei`, `mknod`, `mkdir`, `link` and `add_entry`; `Victim`, `Unlink`, `Rmdir`,
`EmptyDir` the removals. `slot` are the entries of a directory and `size` how many
of them `i_size` counts.

### TerminalInput — `tty_io.c`: `copy_to_cooked`, `tty_read`; `rs_io.s`; `tty_ioctl.c`
`Receive`, `Cook`, `Cooked` are the interrupt, one character a step; `SetAlarm`,
`Read`, `Loop`, `Take`, `Count`, `After`, `End` the task, with the interrupt between any
two steps. `head`, `tail`, `buf`, `data` are the queue `secondary`, and the ghost `line`
what it should hold. `MARGIN` is the 20 of tty_io.c:321: a reader begins with a line that has no end
when no more places than that are free. Between this look and the `GETCH` (`TakesUnended`) no ERASE or
KILL arrives, unless feature `"taken_back"` is chosen. `alarm` and `jiffies` are bounded by `LASTTICK`.

### TerminalOutput — `tty_io.c`: `tty_write`; `serial.c`, `rs_io.s`
`Store` and `Advance` are the two halves of `PUTCH`, `SleepIfFull` and `Wait` of
`sleep_if_full`, `Start` is `rs_write`; `Transmit` is the interrupt that sends a
character and wakes writers at `STARTUP`; `Echo` and `FlushOutput` a key and TCFLSH.

### Screen — the abstract specification; Console — `console.c`
Screen has rows, a cursor and a region that scrolls. Console has video memory, a window
`origin`..`scr_end` that moves through it and starts over at its end (`ScrUp`, `ScrDown`,
`StartOver`), the position as `x`, `y` and as `pos`, and the five states of the escape
parser, of which `Finally` is the last. `ShowsTheScreen` is the refinement: what the
window shows implements Screen.

### ProcessLife — `fork.c`, `exit.c`, `signal.c`, `sys.c`
`task` is the task table; a process has its number, father, group, session, signals,
mask and handler. `Exit` and `EndExit` are `do_exit` before and after it closes its
files, which may sleep; `WaitPid`, `WaitAgain` the search of `sys_waitpid` before and after
its sleep; `Wake` is the scan of `schedule`; `DoSignal` the end of a system call. `Kill` sends
what the code sends (section 6).

### Scheduler — `sched.c`
`Tick` is `do_timer` with the choice of `schedule` when the time of the task is up;
`Enter`, `Leave` a system call, inside which the clock does not take the processor away;
`Sleep`, `WakeUp`, `SetAlarm`, `TakeSignal`, `Nice`, `Fork`, `Exit` the rest. `sys_nice` lowers and
raises the priority without limit; the bound `RAISED` is the most it is raised to. `waited[t]`
counts the ticks a task could have run and did not, and the ghost `highest` is the highest priority
there has been.

### Floppy — `blk_drv/floppy.c`, timers and motors of `sched.c`
The driver is sequential code that tasks, the clock and the controller enter in turn,
so its functions are operators from a state of the driver to the states they may
leave: `DoRequest`, `StartRequest`, `SelectDrive`, `Transfer`, `SetupTransfer`, `AfterTransfer`,
`AfterSeek`, `AfterRecalibrate`, `ResetFloppy`, `Unexpected`. `MakeRequest`, `Interrupt`,
`StrayInterrupt`, `Tick` and the steps of `floppy_change` (`BeginChange`, `FloppyOn`, `Check`,
`FallAsleep`) enter it. `FloppyOn` and `Check` look at `mon_timer` and at `selected`; the sleep is a
step of its own, because interrupts are enabled in between. Only with feature `"late_sleep"` does one come there
(`MayInterrupt`). The list of timers has differences, as in the code, and with each the
time it was asked for (`due`). `head` and `spun` are the hardware: where the head of a
drive is and for how long its motor has run.

### MCFiles, MCKernel — one run for each directory
They put the modules of `fs/` and of `kernel/` beside each other: a behaviour is one of
one `part`, the variables of the other parts are `NULL`. Their properties are those of
the parts. They do not make the parts interact; how the parts rest on each other is
said in section 1. `View` of MCKernel leaves out the parameters of an escape sequence that the
code will not read any more, and the cells outside the window, which are written before
the window comes to them (`ConsoleView`).

### SleepWakeProofs, RequestProofs, CacheProofs, PipeProofs, MemoryProofs, FilesProofs, BlocksProofs, KernelProofs — section 5.
### MCBufferCache, MCPipe, MCMemory — symmetry.
Symmetry is used in runs with safety properties only. `View` of MCMemory identifies
states that differ only in the numbers of pages, which no step and no property can tell
apart: it keeps, of every page, its count, contents and all its uses.

## 3. The runs

| run | instance | states | shows |
|---|---|---|---|
| SleepOn | 3 tasks, 2 queues of `sleep_on`, callers mask interrupts | 17 500 | no waiter is lost; none returns unwoken; a wake-up reaches all; zombies stay dead; **the list implements `WaitQueue`** |
| SleepMixed | 3 tasks, one `sleep_on` queue, one interruptible | 418 000 | with signals and both kinds of queues the queue pointer does not dangle |
| RequestTable | 2 tasks, 3 blocks (one beyond the partition), table of 3, `MAX_ERRORS` 1 | 1.46 M | list whole, one owner per lock, room for reads, sleepers will be woken |
| DiskErrors | 3 blocks, `MAX_ERRORS` 3, requests from read-ahead only | 41 000 | every request ends |
| CacheData | 2 tasks, 3 blocks, 2 buffers; read, modify, sync; failing reads | 1.12 M | one buffer per block, exact counts, held buffers stay, no update is lost |
| CacheLive | 2 tasks, 3 blocks, 2 buffers; slow copies and one task that reads ahead | 312 000 | operations end |
| PipeStream | 3 tasks, ring of 4 bytes, 3 files, 2 descriptors each, transfers of 2 and 4 | 1.9 M | counts are exact over dup, fork, exit and failing `sys_pipe`; the stream is read in order; no sleep without reason |
| PipeLive | 2 tasks, 2 files, transfers of 4, copies that sleep | 101 000 | closing one end ends the calls at the other |
| MemorySeparate | 2 tasks, 2 programs, 9 pages; 3 pages of address space in 2 tables; execve may fault; calls that write nothing | 356 000 | **the page tables implement `AddressSpaces`** |
| MemoryWindows | 3 tasks, 7 pages; 2 pages of address space in 1 table; windows retry, write, close, absent, unused open | 99 000 | pages are counted exactly; what can be written is mapped once |
| Files | 2 tasks in each part. Inodes: 3 entries, 2 numbers. Blocks: 2 files, 3 blocks, `DIRECT` = `PER` = 1. Mounts: 2 directories, 2 devices, 2 super blocks. Directories: 3 inodes, 2 entries each, names a and b | 580 000 | one inode per number, exact counts, no change is lost, nobody sleeps for ever; a block has one owner and a file reads its own; mounts are paired; directories are a tree; **nothing panics** |
| Kernel | Input: queues of 4 and 2. Output: 2 tasks, queue of 4. Console: 3 by 2 cells in a memory of 8. Processes: 3 slots, numbers up to 4. Scheduler: 3 tasks, priority 2, raised to 3. Floppy: 2 drives, 2 tracks, 2 requests, 1 task that asks for a change | 1.62 M | the queues of terminals are what they should be, alarms are given back; **the console implements `Screen`**; families are whole and nobody waits beside a zombie; a runnable task waits for a bounded time; transfers are right |

A run lists the properties that say most. These stay defined in the modules, hold in
the instances above, and are not repeated in the runs: the `TypeOK` of every module;
`OneTurnAtMost` and `DriverIsAwake` (RequestQueue), `ValidIsCurrent`, `CleanIsOnDisk` and
`SleeperHasHope` (BufferCache), `WakeUpReachesAll` in the instance of SleepMixed, under `FairSpec`; `HangUpIsTrue` and `NoCallOutlivesPipe` (Pipe);
`CursorIsInWindow` (Console); and, each under the module's `FairSpec` on an
instance of its own, `WritesEnd` (TerminalOutput, one task), `EveryoneRuns` and
`AlarmsRing` (Scheduler), `ChangesEnd` (Floppy, one drive).

### Why the bounds are enough
* **Three sleepers** give a queue with a first, a middle and a last one: a task
  can be torn out of the middle, and a newcomer can join while the rest of an
  older queue is still being woken. Two queues are needed for a stale `tmp` to
  lead into another queue.
* **A table of three** has two entries for writes and one that only reads may use, can be
  full for writes and not for reads, and full for both. Three blocks make an
  insertion in front, in the middle and behind, and across the turn of the
  elevator. `MAX_ERRORS` 3 is the least where a retry, a reset
  (`errors > MAX_ERRORS/2`) and giving up are three different events. Tasks
  that wait for an entry of the table multiply the states, and the driver cannot
  tell their requests from those of read-ahead; so the run that counts errors has
  no tasks, and the one with tasks gives up at the first error.
* **Two buffers for three blocks** make `getblk` evict, wait and find its
  candidate taken; two tasks suffice for every race of two steps, and the counting
  is proved for any number of them.
* **A ring of four bytes with transfers of two and four** wraps, fills up
  (three bytes are the most it can hold), and splits a call into chunks. Three
  tasks make two readers compete against a writer, and leave one outside to close.
  Three files let a second pipe be created next to a file of the first one that is
  still open, and `sys_pipe` fail for lack of files; two descriptors make it fail
  for lack of descriptors.

* **Nine pages for two tasks** are one for each task structure, two tables each, and three
  for contents: enough to load a page, share it and copy it, and few
  enough that memory runs out at every call of `get_free_page` (with ten pages, 383 000
  states, the properties hold as well); with two tables a fork can
  fail after the first. The three addresses are one of the file, one of the heap and
  the stack. With three tasks a page has three users, one of which may exit, load, or
  copy while the two others share. The constants of the three
  kinds of contents are enough, since `Contents` tells apart every writer and every file.

* **Inodes**: three entries are one more than numbers, so that `get_empty_inode` can
  choose an entry that was used and is to be written; two tasks make every pair of
  `iget`, `iput`, `write_inode` meet. With three numbers for the three
  entries, where entries are short, the properties hold as well.
* **Blocks**: with `DIRECT` = `PER` = 1 the blocks 0, 1 and 2 of a file are the direct one,
  the one behind a block of numbers, and the one behind two; three blocks let a file of one
  be extended by an indirect block and its content and leave none for the other,
  so that `new_block` fails at each level.
* **Mounts**: two devices and two directories make a mount on a mounted directory, a
  device mounted twice, and a mount of one against the umount of the other; the two super blocks
  are enough for one to be taken by a reader while it is still locked.
* **Directories**: two entries in blocks of one make an entry be found in the first and in the
  second block, the directory grow, and be full. Two names and the path a/b are the
  least in which a directory is entered while it is removed.
* **Terminals**: a queue of four holds three characters: a line, the rest of another, and no more.
  With `MARGIN` 1 a reader begins with a line of two characters that has no end yet, reads a part of it,
  and meets ERASE and KILL for the rest.
  The output has one character per call in the run; with two (`MAXTEXT` 2; 213 000 states
  with no feature, 697 000 with flush, 769 000 with flush and echo) it is the same.
* **Console**: three rows are the least in which a region is neither the whole
  nor a single row; two columns have an end of line and one before it. Video memory of eight
  cells is one row more than the screen, so that the window moves once and starts
  over.
* **Processes**: three slots are init, a father and a child; with `"few_slots"` the last one
  belongs to a process that stays, and fork fails. Numbers are used again after four.
* **Scheduler**: `WaitIsBounded` is `MaxWait`, which is tight: for (tasks, priority) = (2,2), (2,4),
  (3,1), (3,2), (3,3), (4,1) with sleeping, and for two tasks that sleep and raise their
  priority from 2 to 3, one tick less is violated. A task that raises its priority raises the
  bound, which is given in terms of the highest priority so far; the code has no limit for it. With
  sleeping and `sys_nice` together three tasks have 3.1 M states, and the bound holds as well.
* **Floppy**: two drives and two tracks make every transfer with and without a seek and a
  selection. `MAX_ERRORS` 1 is a retry and giving up. The times keep their order,
  1 < `SPINUP` < `LONG`. Nor is more
  than one task needed beside the driver for a motor that has been started by somebody else.

Deadlock is checked in every run but those of pipes and memory. In Kernel, `AllWait` lets
processes wait: all may be in `pause`. A task that reads
from an empty pipe to which it holds the only descriptor for writing sleeps for
ever, and the code means it to; in Memory everything may have exited, or memory be
exhausted by an execve for which the run leaves out the leak described in section 6.

Some configurations are kept for reading a counterexample and are not among the
runs above; each violates its property. (What the new modules find is had from `Files.cfg`
and `Kernel.cfg` with another set of features, see section 6.)

| configuration | module | shows |
|---|---|---|
| `LostInterruptible.cfg` | SleepWake | a task in `interruptible_sleep_on` drops out of the list (section 6) |
| `RetryLastBlock.cfg` | RequestQueue | the last block of a partition is not retried (section 6) |
| `PipeFaults.cfg` | Pipe | a page fault while a chunk is copied (section 6) |
| `CacheBlockWrite.cfg` | BufferCache | a block that was written is read back from the device (section 6) |
| `SharedAbsent.cfg`, `SharedCopy.cfg`, `SharedVerified.cfg`, `SharedAtClose.cfg`, `ExecLeak.cfg` | MCMemory | one window each (section 6) |
| `SpuriousWakeUp.cfg` | SleepWake | the stale `tmp` of an interruptible sleeper (sched.c:272) makes an unrelated sleeper runnable, or a zombie (`ZombieStaysDead`, even with no other queue); why two of the theorems assume there are no interruptible queues |
| `UnmaskedSleep.cfg` | SleepWake | a wake-up between `*p = current` and the change of state is lost (sched.c:221) |
| `ErrorsPerSector.cfg` | RequestQueue | `write_intr` carries the errors of one sector over to the next (hd.c:331) |
| `CacheCopy.cfg` | BufferCache | `file_write` sets `b_dirt` before it copies: a sync in between loses the copy (file_dev.c:93) |
| `CacheWriteError.cfg` | BufferCache | a failed write makes a buffer in use invalid (blk.h:121); the comment at buffer.c:196 knows of it |
| `CacheReadAheadWakes.cfg` | BufferCache | `breada` issues the wrong buffer (buffer.c:379; the comment at 373 names it; `ReadAheadIsIssued`), and gives a buffer back without a wake-up, so a task may sleep although one is free; `SleeperHasHope` and `OperationsEnd` say that it does not sleep for good |

## 4. Fairness

* **SleepWake**: weak fairness of a task's steps (it holds the processor and the
  clock cannot keep it from going on), strong fairness of `ScheduleTo(t)`: while a
  task is runnable, `schedule()` never gives its counter away, so it is chosen
  before the counters are refilled a second time (sched.c, the loop
  over `counter`). Nothing is assumed of wake-ups, signals or new sleeps.
* **RequestQueue**: weak fairness of the request function and of the interrupt.
  The second is an assumption about the controller: the driver has no time-out, so
  a lost interrupt stops the disk. Failures are not assumed to stop; the property holds
  even if every transfer fails.
* **BufferCache**: weak fairness of each task's steps and of each transfer (the
  latter is `RequestEnds`). Nothing makes operations start, and the liveness property
  speaks of behaviours in which they stop being started: a stream of newcomers
  can win every buffer against a sleeper, since wake-up gives no precedence.
* **Pipe**: strong fairness of a task inside a call, because another task may hold
  the processor whenever it could go on. Nothing of what programs do: no reader has to
  read and no writer to write.
* **TerminalOutput**: weak fairness of a writer's steps and of the transmit interrupt of each line.
  With two writers that is not enough for `WritesEnd`: nothing gives a sleeper precedence, and
  one of two tasks can be overtaken for ever (TLC shows it).
* **Scheduler**: weak fairness of the clock, of the idle task and of the end of a
  system call. Nothing of what tasks do.
* **Floppy**: weak fairness of the clock, of the controller's answer and of a task that can
  run. Under it `ChangesEnd` holds while one drive is used; requests for a second drive, or
  another task that asks for it again and again, can take the selection away from a task for
  ever. The comment at floppy.c:139 expects that it is lost over a sleep, "thus the loop".

The runs check liveness of the request queue, the cache, pipes and the wait queue.
The bounded wait of the scheduler is checked as an invariant.

## 5. The proofs

All hold for every value of the constants that meets the named assumptions of the
module: any number of tasks, any size of a table, a ring or a memory.

| theorem | states | assumes besides |
|---|---|---|
| **SleepWakeProofs** | | |
| `TypeCorrect` | `Spec => []TypeOK` | |
| `NoWaiterIsLost` | `Spec => []NoLostWaiter`; queues of both kinds, any signals | |
| `OnlyWokenSleepersRun` | `NoSpuriousWakeUp` | no interruptible queue: with one it is false |
| `ZombiesStayDead` | `ZombieStaysDead` (an action property) | no interruptible queue: with one it is false |
| `HeadsDoNotDangle` | `Spec => []HeadIsASleeper` | |
| `ListsImplementQueues` | `Spec => Abstract!WSafe`: every step is one of `WaitQueue`, or none | no interruptible queue |
| **RequestProofs** | | |
| `RequestInvHolds` | the invariant of table, list, locks and driver | |
| `ListStaysWhole` | `Spec => []ListIsWhole` | |
| `LocksHaveOneOwner` | `Spec => []LockHasOneOwner` | |
| `ReadsHaveRoom` | `Spec => []RoomForReads` | |
| `SleepersAreWoken` | `Spec => []SleepersWillBeWoken` | |
| `DriverStaysAwake` | `Spec => []DriverIsAwake` | |
| **CacheProofs** | | |
| `BlocksAreUnique` | `Spec => []OneBufferPerBlock` | `FinitelyManyTasks` |
| `CountsAreExact` | `Spec => []CountIsHolders` | same |
| `BuffersStay` | `Spec => []HeldBufferStays` | same |
| `CountsFit` | `b_count` is at most twice the number of tasks, so an `unsigned char` never wraps with `NR_TASKS` = 64 | same |
| `UpdatesAreKept` | `Spec => [](NoUpdateIsLost /\ ValidIsCurrent /\ CleanIsOnDisk)` | no `block_write`, no failing write, no copy that sleeps after `b_dirt` is set: with each of them it is false (`CacheBlockWrite.cfg`, `CacheWriteError.cfg`, `CacheCopy.cfg`) |
| **PipeProofs** | | |
| `NobodySleepsInVain` | `~Faults /\ Spec => []SleepersHaveReason` | copies that sleep make it false for the moment of the copy |
| `ReadersReadTheStream` | `~Faults /\ Spec => []ReadsTheStream` | with copies that sleep it is false (section 6) |
| `CountsAreTheHolders` | `Spec => []CountsAreHolders` | |
| **MemoryProofs** | | |
| `MemoryInvHolds` | the invariant of pages and places | `"oom" \notin Windows`: there the code loses a page (section 6) |
| `PagesAreCounted` | `Spec => []CountsAreUses` | same |
| `WritablePagesArePrivate` | `Spec => []WritableIsPrivate` | same |
| `MemoryImplementsAddressSpaces` | `Spec => MemoriesAreSeparate`: every step is one of `AddressSpaces`, or none | no window but `"exec"`: with `"retry"`, `"write"`, `"close"`, `"absent"` or `"unused"` it is false (section 6, 5 to 8); with `"oom"` a page is lost (9) |
| **KernelProofs** | | |
| `FamiliesStayWhole` | `Spec => []FamiliesAreWhole` | `InitIsSpared`: no set of features kills init (section 6) |
| `AlarmsAreKept` | `Spec => []AlarmIsKept` | `AlarmsMayBeKept`: not the two cases of section 6 |
| `OutputIsSent` | `Spec => []QueueIsTheOutput` | `EchoWaits`: echo comes when no task puts a character; else it is false (section 6) |
| `QueuesAreLines` | `Spec => []QueueIsTheLine`; any `MARGIN`, reads of any length, ERASE and KILL | `NothingIsTakenBack`: no ERASE or KILL between a reader's look at an unended line and its `GETCH`, with which it is false (section 6, 19) |
| `SleepersKeepHope` | `Spec => []SleepersHaveHope` | `EchoWaits`, `InitIsSpared`, `WaitersCanBeTold` (SIGCHLD is not blocked and nobody waits for a group: else it is false, section 6), `FloppyIsTame`, `SleepersAreInTime` (no interrupt between a task's look and its sleep: else it is false, section 6, 36) |
| `TransfersStayRight` | `Spec => []TransfersAreRight` | `FloppyIsTame`: see below |
| **FilesProofs** | | |
| `MountsStayWhole` | `Spec => []MountsAreWhole` | `MountsAreTame`: no two umounts of one device at a time, and nobody who has taken an entry is overtaken at its lock; with either it is false (section 6, 15 and 35) |
| `OneInodeForANumber` | `Spec => []OneInodePerNumber` | `InodesAreTame`: see below |
| `CountsAreUsers` | `Spec => []CountIsHolders` | `InodesAreTame`, `MountsAreTame` |
| `InodeChangesStay` | `Spec => []NoChangeIsLost` | `InodesAreTame` |
| `SleepersWillBeWoken` | `Spec => []SleeperHasHope` | `InodesAreTame` |
| **BlocksProofs** | | |
| `BlocksStayWhole` | `Spec => []BlocksAreWhole` | `BlocksAreTame`: not two writers of one file, nor others at work in a file that is truncated, with which it is false (section 6, 13 and 14) |
| `FilesReadTheirOwn` | `Spec => []ReadsOwnFile` | `BlocksAreTame` |

**Sleeping.** `NoLostWaiter` alone is not inductive: that a waiter can be reached
depends on the link to it not being dropped. `SleepInv` adds that a task
outside a sleep holds no link (`LocalsAreClear`), that the task between its two assignments has
the processor and, with interrupts masked, is still the head of its queue
(`LinkIsCurrent`) and that the processor executes a runnable task. For the
theorems about who may be woken, `ListInv` says that the stacks form proper lists:
heads and `tmp`s lead to tasks asleep on that very queue, and no task is referred
to twice. That is what interruptible sleepers destroy, and why these theorems
exclude them. For the refinement, `waiting[q]` is what can be reached from the pointer of `q`
(`Reach`, the least set that is closed under `tmp`), and `woken` are the other sleepers.
`ReachGrows` and `ReachStays` say what a new head and a cleared `tmp` do to it; that
chains of two queues are disjoint, and that a task that runs is in none, is `ListInv`
(`ChainsSleep`).

**Requests.** A list is the sequence of its entries (`IsList`); the proofs use it as a
chain of indices (`Chain`), and two lemmas say what an insertion behind an entry and the removal
of the first one do to a chain. `RequestInv` says besides: a used entry has a buffer, and one to
write is outside the last third (`RequestsAreWhole`); a locked buffer has one owner, an entry or
a task that looks for one (`OneOwner`); who sleeps on a buffer finds it locked, and who sleeps
for an entry finds a list; the driver has started, has a command under way or has no list. The
one step at which this is not enough is the window before `sleep_on(&wait_for_request)`:
a task that has found no entry and does not sleep yet (`FullWaits`) must still find a request
which the request function will not end at once, and that is what the bound `WindowIsShort`
gives.

**Cache.** The invariant is `CacheInv`: types, that a task in `getblk` knows its block and
candidate (`WantIsKnown`, `BufferIsKnown`), that the first buffer of a read-ahead
has a block, and the three properties together, which need each other:
a count that is exact is what stops `Claim` from taking a held buffer; a held
buffer that stays is what lets a sleeper of `get_hash_table` trust what it found. The
counting uses three lemmas (a user stays, joins or leaves) on the cardinality of
the set of users.

**Pipe.** `SleepInv` adds to the property that the task in the kernel is inside a
call and awake, that sleepers are at the top of the two loops, and
that an inode that is no longer a pipe has no ends. `RingInv` says where the bytes of the stream
are: the n-th unread byte is in the n-th place from the tail (`Holds`), except while a
writer copies, whose places hold it only up to where it has come (`Unwritten`), and a reader
that copies has its part still in front of it although the tail has passed (`Unread`). That
these are true together rests on the task that copies having the kernel, which is what a
page fault breaks. Positions are remainders; `Wrap` is the remainder of a sum of two, and
`PipeSize` shows that the expression of `PIPE_SIZE` is the distance. `CountInv` counts
descriptors by file and ends by file, and a task inside `sys_pipe` that has files and no inode yet
has two ends nobody counts.

**Memory.** A page is in one of two kinds of *places*: in a slot of the kernel (a page table, the
page of a task structure, a page that is being read, the page of the arguments), or at an
address of a task. `PagesRight` says that a page in a slot is in no other place and counts 1,
and that any other counts its addresses. It is a statement about three functions, the counts, the
slots (`Held`) and the addresses (`Mapped`), and six lemmas say which changes of
them keep it: free pages are put in slots, a slot is cleared, one address more or less, all places of
a task are emptied, all addresses of a task are copied. Every step of the kernel is one to
four of these, over states of the three functions that lie between two states of the model: so a copy on
write takes a page into a slot, out of it again to the address, and one address
off the old page. `TaskRight` says what a call under way relies on: a task that loads a page
has it, and its address is still empty; one that executes a program has the page of the arguments
and, past the point of no return, has not lost it; what has ended has no pages but that of its
task structure. `WritableIsAlone` says that no other entry leads to the page of one that
can be written to. Without it `un_wp_page`, which lets the last user write, could not be shown
to keep it; without the exact counts "the last user" would mean nothing.

**Address spaces.** That programs cannot tell what is shared is a statement about contents.
`ContentInv` says what is in the pages: free ones and those of task structures hold zeroes, the page of
`execve` its arguments, and a page of the program that is clean is as in the file
(`CleanIsFile`), which is what `try_to_share` relies on when it looks at the dirty bit. There are
two exceptions, a page that has just been copied for a write and not been written to yet (`Stale`), and the
pages of the old program after `executable` has changed; both last only as long as the task keeps the
kernel, and a call that was given such a copy does not leave without writing to it, and with `MemoryInv` this is inductive. Every action is then shown to leave
`Seen` as it is (a copy has the contents of the page, a new page those which a page never touched
has), or to change it as one step of `AddressSpaces` does: a write, because the page is the
task's own (`WritableIsOwn`), `fork`, the point of no return of `execve`, the end of a task.

**Families.** `FamilyInv` says that numbers are unique, that a father is in the table and can still
wait, or is init, that init is in slot 1 and does not end, and that a process within `do_exit`
is neither asleep nor a zombie yet. It uses that `find_empty_process` finds a
number, which is a matter of counting: there are more numbers than slots (`FreshPidIsUnused`, from
the least number that is free behind `last_pid`).

**What is in buffers.** `DataInv` is stated for each buffer: if the buffer is valid it has the
latest contents of its block, or a write of the latest is under way or due (`LatestIsSafe`); a
request of the disk carries what its buffer says (`RequestFits`); a user that has got its
buffer finds it valid (`UsersSeeValid`); and a block without a buffer is on the disk as it was
last written (`UncachedIsOnDisk`). A buffer is claimed for another block only when it is clean,
and by then its contents are on the disk; that it is still the only one of its block,
and that nobody holds it, is `CacheInv`. `block_write` breaks the
second and third: it dirties a buffer that is not valid.

**Terminals.** A ring that holds a sequence (`RingHolds`, with lemmas for putting,
taking from the tail and taking back from the head) is all the state of `tty_queue`. For the output
`OutputInv` adds that who puts a character has the processor and has found room
(`PuttersHaveRoom`), which is why a full ring is not overrun between the test and the store,
and that a line with something to send has its interrupt enabled or somebody who will
enable it (`LineSends`), from which the sleeping writer is woken. For the input `LineInv` adds
that `data` is the number of ends in the queue, one in the reader's hand
included (`LinesCounted`), and that who is about to take a character will find one although the interrupt
may take back the head (`TakersFind`). A line that has its end is safe, since the interrupt stops
at it. For a line that has none, which a reader takes when the queue is nearly full, in the
middle of a read, or after a change of the mode, `NothingIsTakenBack` is needed: it closes the few
instructions between the look and the `GETCH` to ERASE and KILL, which may come everywhere else.
`AlarmInv` says where the task's own alarm is: set, or in `oldalarm`.

**Who waits.** `HopeInv`: every father asleep in `waitpid` still has a child, and for each child
that it waits for and that is a zombie has a signal that is not blocked. A step keeps it that lets every
waiter wait on with at least its signals and adds no zombie without SIGCHLD (`WaitersKeepHope`);
each action is shown to be such a step.

**Floppy.** The driver has no state of its own that says where it is: that is in `do`, the one
timer, and the flags. `DriverInv` says what they mean together. There is at most one timer, and if
there is one, the controller is idle and `TimerWaits` holds: the drive of the first request will be at
speed when it rings, or is selected and at speed already. A transfer or a seek under way has
a request, the drive selected and at speed; after every way through errors, resets and
recalibrations the driver will seek or the head is where `current_track` says (`Settled`); a list
that is not empty has a command under way or a timer. The functions of the driver are shown one by one to
lead from `DriverRest` to `DriverInv`, and the actions are put together from them.
`FloppyIsTame` excludes what these rest on: that a request is not made while a reset without
one runs (`late_request`: there would be two timers), that motors are kept on for longer than a
command or a waiting task takes (`slow`, section 6), and that a request beyond the end of a
drive does not change the drive (`beyond` with `two_drives`, section 6). For the tasks in
`floppy_change`, `Hope` says by place what will wake them: who waits for a motor finds it started, with
ticks left, and who waits for the selection finds it taken by a driver that has a request, and so will
give it up. A task that has looked and not gone to sleep yet has the same `Hope`; an
interrupt at that place may use it up, which is what `SleepersAreInTime` excludes. Transfers do not
need that: `TransfersStayRight` has `"late_sleep"` as well.

**Mounts.** `MountInv` has no variable of its own for what a call has done so far: `CallRight`
says it of the task's `sb` and `inode` at each place (`pc`) where `sys_mount`, `sys_umount` and
`read_super` may sleep. `SupersRight` is the pairing, with the exception that the property
grants as well, a mount that an umount is taking away. `UsesCounted` gives each
count as three numbers of users: what tasks have open (`HeldUse`), what their calls count for
(`CallUse`) and the mount points; lemmas say what a change of one of these functions at one place does
to `Number`. `CallsAlone` keeps apart the calls that are at work on one super block, one
device or one mount point, which is what two umounts of one device do not. An entry without a device
may be locked, by the one `put_super` that has given it up (`pc` `"put"`); who has taken it meanwhile is at
`"lock"`, and then nobody else may put its super block, which is what `overtaken` breaks.

**Inodes.** `StackRight` lists the stacks of frames that exist, by their top: they have
at most three, since an entry that nobody uses is never dirty or locked (`EntryRight`), so that
`get_empty_inode` has nothing to write and the loop of it that calls `write_inode` is not
entered. `TaskRight` says what a task may rely on at each place: the empty entry that `iget` has taken
still is nobody's when it comes back, an inode that is read is known by its number and
has one user, the last user of a file without links is alone with it. `EntryRight` says that an entry that is
not being read is as its file was last changed. Two entries of one number (`OneEntry`) cannot
arise because `iget` looks after its last sleep and takes its own entry in the same step.
`InodeUsesCounted` counts tasks instead of frames: `UsedBy` maps a stack to the one entry
that it counts for. `NumRight` is what the device holds of a file that has a name and no changed entry.
Every function of the module is shown to lead from a state in which one task is in the middle of its
call back to `InodeInv`, and the actions are put together from these, as in the driver of the floppy.

`InodesAreTame` excludes `unlink_shared` and `dirty_buffers`, which violate the properties
(section 6, 10 and 12), and `unlink` together with `sync` or `block_files`. The first of these with
`create` is finding 11. Without `create` TLC finds no violation (`{"unlink", "sync", "modify"}`, 1998
states; `{"unlink", "block_files"}`, 170 states), but the proof does not cover them:
`write_inode` of an inode that nobody counts may then meet `free_inode`, and `EntryRight` has no
words for that. The invariant leaves one panic open, "No free inodes": with fewer
entries than two for each task the code reaches it.

**Blocks.** That no block is used twice follows from a tree, which the model has no variable for:
`BlockInv` says that there is one, `g`. It gives for each block in it (`here`) the one place that has its
number (`up`), the file (`own`), how far it is from the data (`lvl`) and, while `truncate` works,
the entries of it that are done (`done`); and for each file the places of `i_zone` that still count
(`owed`). `Forest` ties it to `i_zone` and `entry`. A block that is not free is in the tree or in the
hands of one `new_block` (`NewRight`); the references to a buffer are those of the tasks (`one`, `two`:
`BuffersCounted`), which is why `free_block` never meets a used one. `Truncates` lists what `todo` can be
and where in the tree `truncate`, `free_dind` and `free_ind` are then; `Positions` reads it by the kind of
the first item. Each step changes the tree at one place: `AddZone` and `AddEntry` hang a new block in,
`KillZone` and `KillEntry` pass a place and free its block, `ClearPlace` and `Revive` clear `i_zone`
and give it back to the file. The two properties follow by going up from a block (`HereIsUsed`) and by
there being one way up (`HangsOnce`). `NeverPanics` of this part is in the invariant.

**Only model-checked**: liveness under fairness, that of `WaitQueue` included; the
refinement of `Screen`;
`NoCallOutlivesPipe`; of MCFiles the directories and `NeverPanics`; of MCKernel the
console and the scheduler. `WaitIsBounded` is a sum over tasks whose bound takes an
induction on their number, which is out of the provers' reach.

## 6. What was found

1. **`interruptible_sleep_on` forgets sleepers** (sched.c:270,
   `LostInterruptible.cfg`): it clears the queue pointer on return although earlier sleepers
   may still wait behind `tmp`. The comment at 261 says the later sleepers wake
   them; the one at 268 doubts the line itself.
2. **The last block of a partition is not retried** (hd.c:370,
   `RetryLastBlock.cfg`): the test against the size of the partition is made again on every retry,
   when `sector` may already have moved to the second sector of the block.
3. **`block_write` of a whole block can be undone by a read** (block_dev.c:35,
   `CacheBlockWrite.cfg`): the buffer is dirty and not up to date, so `bread` fetches
   the old block over it.
4. **A pipe is read before it is written** (pipe.c:80, `PipeFaults.cfg`): head and tail move
   before the copy, and the copy may sleep in a page fault.
5. **The kernel writes into a shared page** (memory.c:394, `SharedAbsent.cfg`):
   `write_verify` does nothing for an absent page, and the fault of the kernel's write
   maps the page of another task, read only, which the kernel does not notice. The
   comment at 390 says an absent page knows no sharing. The passing runs leave
   kernel writes to absent pages of the file out (`Windows` without `"absent"`) where
   contents matter.
6. **The same may happen to a page that was verified** (fork.c:48, `SharedVerified.cfg`): the call
   sleeps between `verify_area` and its write, and another task shares the page, which is
   still clean.
7. **A copy that is not dirty** (memory.c:341, `SharedCopy.cfg`): `un_wp_page` gives the
   copy a fresh entry, so that until the instruction is executed again a page written
   before the fork passes for a page of the file, and may be shared as one. No processor need be lost
   for that if the copy was made for a system call that then has nothing to write: `sys_read` at the
   end of a file (read_write.c:74, 88), `read_pipe` of an empty pipe (pipe.c:23). It stays clean
   until the program writes to it again (`SharedCopy.cfg` with `"unused"` in place of `"retry"`).
8. **`do_execve` shares the old program as the new one** (exec.c:461, `SharedAtClose.cfg`):
   `executable` changes before the old pages are freed, and `sys_close` may sleep in between.
9. **`do_execve` forgets its argument pages** (exec.c:186, `ExecLeak.cfg`) when memory runs
   out in a fault of `copy_strings`: `oom()` does not come back.


The following are found with `Files.cfg` and `Kernel.cfg` when the constant is given the
value, and all other constants of that kind are `{}`:

| | where | constant | violates |
|---|---|---|---|
| 10. An inode without links is truncated while `iget` finds it | inode.c:233 | `InodeRegimes = {{"create", "unlink_shared", "modify"}}` | `NeverPanics` |
| 11. `write_inode` of an inode that has been freed writes zeroes over the next one of its number | inode.c:420 | `InodeRegimes = {{"create", "unlink", "sync"}}` | `NeverPanics` |
| 12. `write_inode`, `getblk`, `sync_dev`, `sync_inodes`: a task waits for its own lock | buffer.c:84 | `InodeRegimes = {{"create", "modify", "dirty_buffers"}}` | `SleeperHasHope` |
| 13. Two writers get two blocks for one zone | inode.c:97 | `BlockRegimes = {{"two_writers"}}` | `BlocksAreWhole` |
| 14. A block in use is not freed and belongs to nobody; the comment at bitmap.c:70 knows it | bitmap.c:85 | `BlockRegimes = {{"truncate_used"}}` | `BlocksAreWhole` |
| 15. Two umounts put one mount point twice | super.c:249 | `MountRegimes = {{"two_umounts"}}` | `NeverPanics` |
| 16. Two entries of one name; two unlinks of one entry | namei.c:500, 914 | `DirRegimes = {{"dirs", "same_name"}}` | `DirectoriesAreATree` |
| 17. `rmdir` of a directory in which a file is being created | namei.c:824 | `DirRegimes = {{"dirs", "busy_dir"}}` | `DirectoriesAreATree` |
| 18. `mkdir` in a full directory frees its block twice | namei.c:679 | `DirRegimes = {{"dirs", "full"}}` | `NeverPanics` |
| 19. ERASE or KILL takes back the unended line that a reader has seen and is about to take; `GETCH` then reads beyond the head | tty_io.c:196, 321 | `InputRegimes = {{"erase", "taken_back"}}` | `QueueIsTheLine` |
| 20. EOF leaves the time-out's alarm with the task | tty_io.c:334 | `InputRegimes = {{"timeout", "eof"}}` | `AlarmIsKept` |
| 21. An alarm that has gone off is set again | tty_io.c:368 | `InputRegimes = {{"rings"}}` | `AlarmIsKept` |
| 22. The echo puts characters into a queue without looking, in the middle of a task's PUTCH | tty_io.c:250 | `OutputRegimes = {{"echo_any"}}` | `QueueIsTheOutput` |
| 23. `waitpid` with SIGCHLD blocked sleeps beside a zombie | exit.c:261 | `ProcessRegimes = {{"masks", "mask_child"}}` | `SleepersHaveHope` |
| 24. `waitpid` for a group which the child leaves | exit.c:261 | `ProcessRegimes = {{"groups", "wait_group"}}` | `SleepersHaveHope` |
| 25. Init can be killed, and with it the father of all orphans | exit.c:140 | `ProcessRegimes = {{"signals", "init_killed"}}` | `FamiliesAreWhole` |
| 26. A request beyond the end of one drive makes the next forget its seek | floppy.c:512 | `FloppyRegimes = {{"beyond", "two_drives"}}` | `TransfersAreRight` |
| 27. A motor may be stopped under a transfer, if the controller or a task takes longer than it is kept on | sched.c:378 | `FloppyRegimes = {{"slow"}}` | `TransfersAreRight` |
| 28. A stream of new children keeps a task waiting; not a fault of the counters | sched.c:179 | `SchedulerRegimes = {{"fork", "spawn"}}` | `WaitIsBounded` |
| 35. `read_super` takes an entry that `put_super` has given up but still locks; another `put_super` for the new device wins the lock | super.c:138, 156 | `MountRegimes = {{"overtaken"}}`; with `"disk_change"` besides | `MountsAreWhole`; `NeverPanics` (`brelse`) |
| 36. A wake-up comes between the look at a motor, or at the selection, and the sleep: `ticks_to_floppy_on` enables interrupts. The comment of `floppy_on` says the timer will wake the task | sched.c:341, 353; floppy.c:158 | `FloppyRegimes = {{"late_sleep"}}` | `SleepersHaveHope` |

And these with a module alone, its constants as in `Kernel.cfg`:

| | where | module, constants | violates |
|---|---|---|---|
| 29. A line stays in `read_q` when the queue behind it was full | tty_io.c:162 | TerminalInput, `Regimes = {{}}` | `NoLineWaits` |
| 30. A reader of half a line runs in a circle instead of sleeping | tty_io.c:320 | TerminalInput, `Regimes = {{}}` | `WaitersSleep` |
| 31. `cr_flag` is shared by all terminals | tty_io.c:377 | TerminalOutput, two lines, `Regimes = {{"two_lines"}}`, `MAXNR` 2 | `NoBareLineFeed` |
| 32. ESC 7 compares the column, not the character; the comment on the line says `c` | console.c:610 | Console, `COL7` 1, `COL8` 2, `Inputs = {{"7"}}` | `EscSavesCursor` |
| 33. `add_timer` does not shorten the timer behind the new one; the comment at 424 asks | sched.c:426 | Floppy, `Regimes = {{"late_request", "io_errors", "two_drives"}}` | `TimersAreExact` |

34. **`kill(-1)` and `kill(-pgrp)`** (exit.c:95-101): the last `else` belongs to the inner `if`, so
    the first stops at the first success and goes on with group 1, and the second does nothing.
    The comment at 76 says what they should do. `KilledByAll` is written after the code.

37. **`sys_nice` raises priorities** (sched.c:538): a negative increment is taken from everybody and
    without limit, although the comment says the call lowers them. `Nice` is written after the
    code; who raises its priority makes the others wait longer, and `WaitIsBounded` counts that in.

In 36 the motor need not be started by the task itself: with `mon_timer` at 1, because the driver or
another task has asked for the drive, one tick in the window is enough. The task is then woken by
the next one who starts this motor, if there is one.

Seen while reading and not modelled: after a change of the disk an inode in use has `i_dev` 0; if
its user then sets `i_dirt` and puts it, `get_empty_inode` runs in a circle, because `write_inode`
returns without clearing the flag (inode.c:280); `respond` answers into a queue without
a test for room; the echo of a key may enter `con_write` again.

## 7. What the models leave out

* **One device**, one partition, the ports of the controller, `sys_setup`. The
  test `i == READY_STAT | SEEK_STAT` of `drive_busy` (hd.c:247) is always true by
  precedence; it only suppresses a message, and a controller that is still busy
  shows as a transfer that fails.
* **The window before `sleep_on(&wait_for_request)`** (ll_rw_blk.c:150) is open to
  interrupts. `WindowIsShort` bounds it: not all requests of the disk end within it.
  Without the bound the sleeper may wait for the next request of somebody else.
* **The free list is a set**: `getblk` may take any of the least bad buffers. The order
  of the list is a matter of performance, not of any property here.
* **Counts do not wrap**: `b_count` is proved to fit its `unsigned char` (`CountsFit`); the others are
  small in the instances.
* **`breada` with as many such tasks as buffers** stops: each holds one buffer
  and waits for a second (buffer.c:376). The kernel has far more buffers than
  tasks; `ReadsAhead` names the one task that reads ahead in CacheLive.
* **`bread_page`, `invalidate_buffers`.** That `sync_dev` calls `sync_inodes` is in
  InodeTable (feature `dirty_buffers`) and not in BufferCache.
* **A failed write** makes a buffer in use invalid; a failed read leaves one in the hash queue.
  The first is CacheWriteError.cfg; inodes, blocks and directories are modelled with blocks
  that can be read.
* **Memory below `LOW_MEM`**: task 0, and init before its first execve, run in pages that
  are not counted. A program's last page of the file, filled up with zeroes, is one of its
  pages. `brk`, and the checks of `do_execve` on the file.
* **The windows of Memory**: the contents are checked and proved with the windows of section 6
  closed, so without system calls that leave a fresh copy unwritten; the counts and the protection with all open but `"oom"`: `"exec"` in the instance of
  MemorySeparate, the others in MemoryWindows, and together in the proofs.
* **One pipe at a time**; results of calls; descriptors for anything but the pipe.
* **Local variables that are dead** are cleared, so that states that differ in
  nothing the code can see are one state.
* **The file system in parts**: the four parts of MCFiles use each other's results, not each other's
  steps. Directory fetches the inode of an entry before others run; the late look-up is in
  InodeTable (`lookup_sleeps`, which passes). Mode bits, users, `..` in a path, the
  times of inodes, `lseek`. One task may write a file at a time, for the reason of finding 13.
* **Terminals**: one reader, one character a step. The input modes are ICANON, ERASE/KILL, EOF
  and ISIG; the conversions of cases and of CR and NL on input, parity and baud rates are left
  out. **Console**: attributes, the bell, the cursor of the hardware.
* **Processes**: stopped processes (WUNTRACED only looks at a state the code never
  sets), users, times, `tell_father` releasing the stack it runs on (it does not sleep before
  its last `schedule()`, so nothing can take the page in between).
* **Floppy**: formats of disks, the registers of the DMA and the bounce buffer. A controller never
  loses an interrupt: there is no time-out for it.
* The components marked `not_modelled` in `PROJECT.json`, each with its reason.

## 8. Plan

Next would be proofs about directories (`DirectoriesAreATree`).

Left to model: RamDisk (with no interrupt, the list is empty when the request function
returns), the allocator of `lib/malloc.c` (nothing in the repository calls it), the keyboard's
table, the Cosmos loaders (placed files and memory areas do not overlap). Abstract
specifications worth stating: the cache as a store of blocks with atomic reads and writes,
which `BufferCache` with operations read, modify and sync implements; the pipe as a bounded
FIFO.
