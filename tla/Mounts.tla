------------------------------- MODULE Mounts -------------------------------
(***************************************************************************)
(* Mounted file systems: the table of super blocks of fs/super.c, with     *)
(* get_super(), read_super(), put_super(), sys_mount() and sys_umount(),   *)
(* the crossing of a mount point in iget() and the release of its inode in *)
(* iput() (fs/inode.c).                                                    *)
(*                                                                         *)
(* The inodes are the directories of the root device, where the others are *)
(* mounted, and the root of each other device, which stands for all inodes *)
(* of it.  InodeTable shows that one number has one inode in memory.  A    *)
(* task that waits for a lock is not enabled until it is released; running *)
(* is the task that has the kernel and will not sleep before its next step.*)
(***************************************************************************)
EXTENDS Naturals, FiniteSets

CONSTANTS Task,
          Dir,        \* directories of the root device
          Dev,        \* the other devices
          NR_SUPER,   \* entries of super_block that the root leaves
          Regimes,    \* the sets of features to be explored, see Init
          NULL

Super == 1..NR_SUPER
Inode == Dir \cup Dev

Feature == {"two_umounts",   \* a device is unmounted by several tasks at once
            "disk_change",   \* the medium of a device is found to be another
            "overtaken"}     \* see MayGetSuper

MountsAssumption ==
    /\ IsFiniteSet(Task) /\ NR_SUPER \in Nat
    /\ Regimes \subseteq SUBSET Feature
    /\ Dir \cap Dev = {}
    /\ NULL \notin Inode \cup Nat \cup Task

VARIABLES on,
          s_dev, s_lock, s_imount,            \* the super blocks
          s_map,                              \* whether one has its bit maps
          i_count, i_mount, i_dirt, i_lock,   \* the inodes
          held,          \* the inode that a task has open, or works in
          detached,      \* the tasks whose inode invalidate_inodes() has taken
          pc, dev, inode, sb, running, panic

supers == <<s_dev, s_lock, s_imount, s_map>>
inodes == <<i_count, i_mount, i_dirt, i_lock>>
call == <<pc, dev, inode, sb, running>>
vars == <<on, supers, inodes, held, detached, call, panic>>

\* Where a call may sleep, or be about to do a part that is one step.
Places == {"out", "iget", "iput", "write", "sync", "read_super", "lock", "load",
           "umount", "change", "put", "invalidate"}

TypeOK ==
    /\ on \in Regimes
    /\ s_dev \in [Super -> Dev \cup {NULL}]
    /\ s_lock \in [Super -> BOOLEAN]
    /\ s_imount \in [Super -> Dir \cup {NULL}]
    /\ s_map \in [Super -> BOOLEAN]
    /\ i_count \in [Inode -> Nat]
    /\ i_mount \in [Inode -> BOOLEAN]
    /\ i_dirt \in [Inode -> BOOLEAN]
    /\ i_lock \in [Inode -> BOOLEAN]
    /\ held \in [Task -> Inode \cup {NULL}]
    /\ detached \subseteq Task
    /\ pc \in [Task -> Places]
    /\ dev \in [Task -> Dev \cup {NULL}]
    /\ inode \in [Task -> Inode \cup {NULL}]
    /\ sb \in [Task -> Super \cup {NULL}]
    /\ running \in Task \cup {NULL}
    /\ panic \in {NULL, "iput", "read_inode", "brelse"}

Init ==
    /\ on \in Regimes
    /\ s_dev = [s \in Super |-> NULL]
    /\ s_lock = [s \in Super |-> FALSE]
    /\ s_imount = [s \in Super |-> NULL]
    /\ s_map = [s \in Super |-> FALSE]
    /\ i_count = [n \in Inode |-> 0]
    /\ i_mount = [n \in Inode |-> FALSE]
    /\ i_dirt = [n \in Inode |-> FALSE]
    /\ i_lock = [n \in Inode |-> FALSE]
    /\ held = [t \in Task |-> NULL]
    /\ detached = {}
    /\ pc = [t \in Task |-> "out"]
    /\ dev = [t \in Task |-> NULL]
    /\ inode = [t \in Task |-> NULL]
    /\ sb = [t \in Task |-> NULL]
    /\ running = NULL
    /\ panic = NULL

-----------------------------------------------------------------------------
At(t, p) == panic = NULL /\ running \in {NULL, t} /\ pc[t] = p

\* The state of the call of t: where it goes on, and its variables.
Goto(t, p, d, n, s) ==
    /\ pc' = [pc EXCEPT ![t] = p]
    /\ dev' = [dev EXCEPT ![t] = d]
    /\ inode' = [inode EXCEPT ![t] = n]
    /\ sb' = [sb EXCEPT ![t] = s]
    /\ running' = IF p \in {"iput", "lock", "umount", "change"} THEN t ELSE NULL

\* The call of t waits for a lock, and does the same again when it is woken.
Wait(t) ==
    /\ running' = NULL
    /\ UNCHANGED <<supers, inodes, pc, dev, inode, sb, panic>>

Return(t) == Goto(t, "out", NULL, NULL, NULL)

\* The call of t ends with iput(n).
EndWithIput(t, n) == Goto(t, "iput", NULL, n, NULL)

SuperOf(d) == {s \in Super : s_dev[s] = d}

\* read_super() waits in lock_super() for the entry it has chosen.
Taken(s) == \E u \in Task : pc[u] = "lock" /\ sb[u] = s

\* get_super() does not have to wait.  When an entry is unlocked that has been
\* taken, who waits in get_super() may run before who has taken it: that is
\* the feature "overtaken".
MayGetSuper(d) ==
    \A s \in SuperOf(d) : ~s_lock[s] /\ (Taken(s) => "overtaken" \in on)

-----------------------------------------------------------------------------
(***************************************************************************)
(* Looking up, and giving back.                                            *)
(***************************************************************************)
\* iget() of a directory.  Where a device is mounted it is the root of the
\* device that is returned, and read_inode() needs the super block of it; the
\* iput() of the mount point does not wait, for iget() has just done so.
LookUp(t) ==
    /\ At(t, "out") /\ held[t] = NULL
    /\ \E n \in Dir :
          /\ ~i_lock[n]
          /\ \A s \in Super : s_imount[s] = n /\ i_mount[n] /\ s_dev[s] # NULL
                             => MayGetSuper(s_dev[s])
          /\ LET on_it == {s \in Super : s_imount[s] = n}
                 cross == i_mount[n] /\ on_it # {}
                 found == IF cross THEN {s_dev[s] : s \in on_it} ELSE {n}
             IN  \E m \in found :
                    IF m = NULL \/ (m \in Dev /\ SuperOf(m) = {})
                    THEN panic' = "read_inode" /\ UNCHANGED <<i_count, held>>
                    ELSE /\ i_count' = [i_count EXCEPT ![m] = @ + 1]
                         /\ held' = [held EXCEPT ![t] = m]
                         /\ UNCHANGED panic
    /\ UNCHANGED <<on, supers, i_mount, i_dirt, i_lock, detached, call>>

\* iput() of an inode that is not dirty does not sleep; that of a device that
\* has been taken only counts.
Release(t) ==
    /\ At(t, "out") /\ held[t] # NULL
    /\ held' = [held EXCEPT ![t] = NULL]
    /\ detached' = detached \ {t}
    /\ IF held[t] \in Dir THEN EndWithIput(t, held[t]) /\ UNCHANGED i_count
       ELSE /\ i_count' = [i_count EXCEPT ![held[t]] =
                             IF t \in detached THEN @ ELSE @ - 1]
            /\ UNCHANGED call
    /\ UNCHANGED <<on, supers, i_mount, i_dirt, i_lock, panic>>

\* iput(); the inode has links.  In sys_umount() the mount point is taken from
\* the super block then.
Iput(t) ==
    /\ At(t, "iput")
    /\ LET n == inode[t]
       IN  IF i_lock[n] THEN Wait(t)
           ELSE IF i_count[n] = 0
           THEN panic' = "iput" /\ UNCHANGED <<supers, inodes, call>>
           ELSE IF i_count[n] = 1 /\ i_dirt[n]
           THEN /\ i_lock' = [i_lock EXCEPT ![n] = TRUE]
                /\ Goto(t, "write", dev[t], n, sb[t])
                /\ UNCHANGED <<supers, i_count, i_mount, i_dirt, panic>>
           ELSE /\ i_count' = [i_count EXCEPT ![n] = @ - 1]
                /\ IF sb[t] = NULL THEN Return(t) /\ UNCHANGED s_imount
                   ELSE /\ s_imount' = [s_imount EXCEPT ![sb[t]] = NULL]
                        /\ Goto(t, "umount", dev[t], NULL, NULL)
                /\ UNCHANGED <<s_dev, s_lock, s_map, i_mount, i_dirt, i_lock, panic>>
    /\ UNCHANGED <<on, held, detached>>

\* sync_inodes(): a dirty inode.
Sync(t) ==
    /\ At(t, "out")
    /\ \E n \in Inode :
          /\ i_dirt[n] /\ ~i_lock[n]
          /\ i_lock' = [i_lock EXCEPT ![n] = TRUE]
          /\ Goto(t, "sync", NULL, n, NULL)
    /\ UNCHANGED <<on, supers, i_count, i_mount, i_dirt, held, detached, panic>>

\* The end of write_inode(); iput() starts again.
Written(t) ==
    /\ At(t, "write") \/ At(t, "sync")
    /\ i_dirt' = [i_dirt EXCEPT ![inode[t]] = FALSE]
    /\ i_lock' = [i_lock EXCEPT ![inode[t]] = FALSE]
    /\ IF pc[t] = "sync" THEN Return(t)
       ELSE Goto(t, "iput", dev[t], inode[t], sb[t])
    /\ UNCHANGED <<on, supers, i_count, i_mount, held, detached, panic>>

-----------------------------------------------------------------------------
(***************************************************************************)
(* sys_mount()                                                             *)
(***************************************************************************)
\* It has the inode of the directory, and may sleep in iget(): others may look
\* it up as well.  What is mounted on has number ROOT_INO, and is refused.
Mount(t) ==
    /\ At(t, "out")
    /\ \E n \in Dir, d \in Dev :
          /\ ~i_lock[n] /\ ~i_mount[n]
          /\ i_count' = [i_count EXCEPT ![n] = @ + 1]
          /\ Goto(t, "iget", d, n, NULL)
    /\ UNCHANGED <<on, supers, i_mount, i_dirt, i_lock, held, detached, panic>>

\* Only a directory that nobody else uses may be mounted on.  read_super()
\* begins with check_disk_change().
CheckDir(t) ==
    /\ At(t, "iget")
    /\ IF i_count[inode[t]] # 1 THEN EndWithIput(t, inode[t])
       ELSE \/ Goto(t, "read_super", dev[t], inode[t], NULL)
            \/ /\ "disk_change" \in on
               /\ Goto(t, "change", dev[t], inode[t], NULL)
    /\ UNCHANGED <<on, supers, inodes, held, detached, panic>>

\* The super block is s: mount it, unless the device or the directory has
\* been mounted in the meantime.
Attach(t, s) ==
    LET n == inode[t]
    IN  IF s_imount[s] # NULL \/ i_mount[n]
        THEN EndWithIput(t, n) /\ UNCHANGED <<s_imount, i_mount, i_dirt>>
        ELSE /\ s_imount' = [s_imount EXCEPT ![s] = n]
             /\ i_mount' = [i_mount EXCEPT ![n] = TRUE]
             /\ i_dirt' = [i_dirt EXCEPT ![n] = TRUE]
             /\ Return(t)

\* read_super(): the super block that is there, or a free entry, which
\* put_super() may not have unlocked yet.
ReadSuper(t) ==
    /\ At(t, "read_super") /\ MayGetSuper(dev[t])
    /\ IF SuperOf(dev[t]) # {}
       THEN /\ \E s \in SuperOf(dev[t]) : Attach(t, s)
            /\ UNCHANGED s_dev
       ELSE /\ IF SuperOf(NULL) = {}
               THEN EndWithIput(t, inode[t]) /\ UNCHANGED <<s_dev, s_imount>>
               ELSE \E s \in SuperOf(NULL) :
                      /\ \A r \in SuperOf(NULL) : s <= r
                      /\ s_dev' = [s_dev EXCEPT ![s] = dev[t]]
                      /\ s_imount' = [s_imount EXCEPT ![s] = NULL]
                      /\ Goto(t, "lock", dev[t], inode[t], s)
            /\ UNCHANGED <<i_mount, i_dirt>>
    /\ UNCHANGED <<on, s_lock, s_map, i_count, i_lock, held, detached, panic>>

\* lock_super() in read_super(); then its blocks are read.
LockSuper(t) ==
    /\ At(t, "lock")
    /\ IF s_lock[sb[t]] THEN Wait(t)
       ELSE /\ s_lock' = [s_lock EXCEPT ![sb[t]] = TRUE]
            /\ Goto(t, "load", dev[t], inode[t], sb[t])
            /\ UNCHANGED <<s_dev, s_imount, s_map, inodes, panic>>
    /\ UNCHANGED <<on, held, detached>>

\* The blocks of the super block and of the bit maps have been read, or are
\* not those of a file system.
SuperRead(t) ==
    /\ At(t, "load")
    /\ s_lock' = [s_lock EXCEPT ![sb[t]] = FALSE]
    /\ \/ /\ Attach(t, sb[t])
          /\ s_map' = [s_map EXCEPT ![sb[t]] = TRUE]
          /\ UNCHANGED s_dev
       \/ /\ s_dev' = [s_dev EXCEPT ![sb[t]] = NULL]
          /\ EndWithIput(t, inode[t])
          /\ UNCHANGED <<s_imount, s_map, i_mount, i_dirt>>
    /\ UNCHANGED <<on, i_count, i_lock, held, detached, panic>>

-----------------------------------------------------------------------------
(***************************************************************************)
(* sys_umount(), and the change of a medium.                               *)
(***************************************************************************)
InUse(d) == i_count[d] > 0

\* The tasks that are in sys_umount() of device d.
Unmounting(d) == {t \in Task : dev[t] = d /\ pc[t] \in {"iput", "write"}}

Umount(t) ==
    /\ At(t, "out")
    /\ \E d \in Dev :
          /\ "two_umounts" \in on \/ Unmounting(d) = {}
          /\ MayGetSuper(d) /\ ~InUse(d)
          /\ \E s \in SuperOf(d) :
                /\ s_imount[s] # NULL
                /\ i_mount' = [i_mount EXCEPT ![s_imount[s]] = FALSE]
                /\ Goto(t, "iput", d, s_imount[s], s)
    /\ UNCHANGED <<on, supers, i_count, i_dirt, i_lock, held, detached, panic>>

\* check_disk_change(), when a task opens the device: put_super() and
\* invalidate_inodes().
DiskChange(t) ==
    /\ "disk_change" \in on /\ At(t, "out")
    /\ \E d \in Dev : Goto(t, "change", d, NULL, NULL)
    /\ UNCHANGED <<on, supers, inodes, held, detached, panic>>

\* Mutant: put_super() does not look at s_imount.
ToBePutMounted(d) == SuperOf(d)

\* What put_super() puts: a mounted super block is let be.
ToBePut(d) == {s \in SuperOf(d) : s_imount[s] = NULL}

\* put_super() gives up the entry and puts the bit maps, which it may sleep
\* for; the maps cannot be put twice.
PutSuper(t) ==
    /\ At(t, "umount") \/ At(t, "change")
    /\ LET umount == pc[t] = "umount"
           unlocked == IF umount THEN NULL ELSE dev[t]
       IN  IF ~MayGetSuper(dev[t]) THEN Wait(t)
           ELSE IF ToBePut(dev[t]) = {}
           THEN /\ IF umount THEN Return(t)
                   ELSE Goto(t, "invalidate", dev[t], inode[t], NULL)
                /\ UNCHANGED <<supers, inodes, panic>>
           ELSE \E s \in ToBePut(dev[t]) :
                IF ~s_map[s]
                THEN panic' = "brelse" /\ UNCHANGED <<supers, inodes, call>>
                ELSE /\ s_lock' = [s_lock EXCEPT ![s] = TRUE]
                     /\ s_dev' = [s_dev EXCEPT ![s] = NULL]
                     /\ s_map' = [s_map EXCEPT ![s] = FALSE]
                     /\ Goto(t, "put", unlocked, inode[t], s)
                     /\ UNCHANGED <<s_imount, inodes, panic>>
    /\ UNCHANGED <<on, held, detached>>

\* The end of put_super(), with free_super().  sys_umount() is over then.
SuperPut(t) ==
    /\ At(t, "put")
    /\ s_lock' = [s_lock EXCEPT ![sb[t]] = FALSE]
    /\ IF dev[t] = NULL THEN Return(t)
       ELSE Goto(t, "invalidate", dev[t], inode[t], NULL)
    /\ UNCHANGED <<on, s_dev, s_imount, s_map, inodes, held, detached, panic>>

\* invalidate_inodes(), the end of check_disk_change().
Invalidate(t) ==
    /\ At(t, "invalidate")
    /\ LET d == dev[t]
       IN  /\ ~i_lock[d]
           /\ i_count' = [i_count EXCEPT ![d] = 0]
           /\ i_dirt' = [i_dirt EXCEPT ![d] = FALSE]
           /\ detached' = detached \cup {u \in Task : held[u] = d}
           /\ IF inode[t] = NULL THEN Return(t)
              ELSE Goto(t, "read_super", d, inode[t], NULL)
    /\ UNCHANGED <<on, supers, i_mount, i_lock, held, panic>>

Next ==
    \E t \in Task :
       \/ LookUp(t) \/ Release(t) \/ Iput(t) \/ Sync(t) \/ Written(t)
       \/ Mount(t) \/ CheckDir(t) \/ ReadSuper(t) \/ LockSuper(t) \/ SuperRead(t)
       \/ Umount(t) \/ DiskChange(t) \/ PutSuper(t) \/ SuperPut(t) \/ Invalidate(t)

Spec == Init /\ [][Next]_vars

-----------------------------------------------------------------------------
(***************************************************************************)
(* Properties.                                                             *)
(***************************************************************************)
\* Each mount point has one super block, and each super block that names a
\* mount point is that of a device, has its bit maps and has its flag set in the
\* inode, through all that sleeps in sys_mount(), sys_umount() and put_super().
MountsArePaired ==
    /\ \A n \in Dir : i_mount[n] =>
          Cardinality({s \in Super : s_imount[s] = n}) = 1
    /\ \A s \in Super : s_imount[s] # NULL =>
          s_dev[s] # NULL /\ s_map[s] /\ (i_mount[s_imount[s]] \/ Unmounting(s_dev[s]) # {})
    /\ \A d \in Dev : Cardinality(SuperOf(d)) <= 1

\* The reference that sys_mount() keeps and sys_umount() gives back is counted
\* once, beside those of the tasks that use the inode.
CountIsUses ==
    \A n \in Inode :
       i_count[n] =
          Cardinality({t \in Task : held[t] = n /\ t \notin detached})
          + Cardinality({t \in Task : inode[t] = n /\ pc[t] # "sync" /\ sb[t] = NULL})
          + Cardinality({t \in Task : inode[t] = n /\ pc[t] \in {"lock", "load", "put"}})
          + Cardinality({s \in Super : s_imount[s] = n})

\* An inode in use has the super block of its device in memory: reading or
\* writing it, or its bit in a bit map, needs it.
InUseIsLoaded == \A d \in Dev : i_count[d] > 0 => SuperOf(d) # {}

NeverPanics == panic = NULL
=============================================================================
