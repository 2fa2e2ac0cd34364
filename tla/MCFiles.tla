------------------------------ MODULE MCFiles ------------------------------
(***************************************************************************)
(* Instances of the modules for fs/, to be checked in one run: a behaviour *)
(* is one of one part.  Parts share the variables that have the same name. *)
(***************************************************************************)
EXTENDS Naturals, TLC

CONSTANTS Task, NULL,
          NR_INODE, Num, BlkNum,                     \* of InodeTable
          File, Block, DIRECT, PER, FileBlock,       \* of FileBlocks
          Dir, Dev, NR_SUPER,                        \* of Mounts
          Node, ROOT, SIZE,                          \* of Directory
          InodeRegimes, BlockRegimes, MountRegimes, DirRegimes

VARIABLES part, on, panic, running, pc, held,
          table, disk, imap, names, latest, stack, asleep,
          zmap, i_zone, entry, data, b_count, file, create, path, node, blk, todo,
          s_dev, s_lock, s_imount, s_map, i_count, i_mount, i_dirt, i_lock, detached, dev,
          inode, sb,
          kind, nlinks, count, slot, size, call

ofInodes == <<table, disk, imap, names, latest, stack, asleep>>
ofBlocks == <<zmap, i_zone, entry, data, b_count, file, create, path, node, blk, todo>>
ofMounts == <<s_dev, s_lock, s_imount, s_map, i_count, i_mount, i_dirt, i_lock, detached, dev,
              inode, sb>>
ofDirs == <<kind, nlinks, count, slot, size, call>>
vars == <<part, on, panic, running, pc, held, ofInodes, ofBlocks, ofMounts, ofDirs>>

I == INSTANCE InodeTable WITH Regimes <- InodeRegimes
B == INSTANCE FileBlocks WITH Regimes <- BlockRegimes
M == INSTANCE Mounts WITH Regimes <- MountRegimes
D == INSTANCE Directory
     WITH Regimes <- DirRegimes, Name <- {"a", "b"},
          Path <- {<<"a">>, <<"b">>, <<"a", "b">>}

ASSUME FilesAssumption ==
    /\ I!InodeTableAssumption /\ B!FileBlocksAssumption
    /\ M!MountsAssumption /\ D!DirectoryAssumption

Symmetry ==
    UNION {Permutations(S) : S \in {Task, File, Dev}}
----------------------------------------------------------------------------
NoInodes ==
    /\ table = NULL /\ disk = NULL /\ imap = NULL /\ names = NULL /\ latest = NULL
    /\ stack = NULL /\ asleep = NULL
NoBlocks ==
    /\ zmap = NULL /\ i_zone = NULL /\ entry = NULL /\ data = NULL /\ b_count = NULL
    /\ file = NULL /\ create = NULL /\ path = NULL /\ node = NULL /\ blk = NULL
    /\ todo = NULL
NoMounts ==
    /\ s_dev = NULL /\ s_lock = NULL /\ s_imount = NULL /\ s_map = NULL /\ i_count = NULL
    /\ i_mount = NULL /\ i_dirt = NULL /\ i_lock = NULL /\ detached = NULL
    /\ dev = NULL /\ inode = NULL /\ sb = NULL
NoDirs ==
    /\ kind = NULL /\ nlinks = NULL /\ count = NULL /\ slot = NULL /\ size = NULL
    /\ call = NULL

Init ==
    \/ /\ part = "inodes" /\ I!Init
       /\ NoBlocks /\ NoMounts /\ NoDirs /\ pc = NULL
    \/ /\ part = "blocks" /\ B!Init
       /\ NoInodes /\ NoMounts /\ NoDirs /\ held = NULL
    \/ /\ part = "mounts" /\ M!Init
       /\ NoInodes /\ NoBlocks /\ NoDirs
    \/ /\ part = "directories" /\ D!Init
       /\ NoInodes /\ NoBlocks /\ NoMounts /\ running = NULL /\ pc = NULL /\ held = NULL

InodesStep ==
    /\ part = "inodes" /\ I!Next
    /\ UNCHANGED <<part, ofBlocks, ofMounts, ofDirs, pc>>
BlocksStep ==
    /\ part = "blocks" /\ B!Next
    /\ UNCHANGED <<part, ofInodes, ofMounts, ofDirs, held>>
MountsStep ==
    /\ part = "mounts" /\ M!Next
    /\ UNCHANGED <<part, ofInodes, ofBlocks, ofDirs>>
DirsStep ==
    /\ part = "directories" /\ D!Next
    /\ UNCHANGED <<part, ofInodes, ofBlocks, ofMounts, running, pc, held>>

Next == InodesStep \/ BlocksStep \/ MountsStep \/ DirsStep

Spec == Init /\ [][Next]_vars
----------------------------------------------------------------------------
(***************************************************************************)
(* The properties of the parts.                                            *)
(***************************************************************************)
\* An inode has one entry of the table, however many tasks look for it while
\* iget() sleeps.
OneInodePerNumber == part = "inodes" => I!OneInodePerNumber

\* i_count is the number of users, of the inodes in the table and of those
\* that super blocks stand on.
CountIsHolders ==
    /\ part = "inodes" => I!CountIsHolders
    /\ part = "mounts" => M!CountIsUses

\* What is written to an inode is in the table or in the block of the device.
NoChangeIsLost == part = "inodes" => I!NoChangeIsLost

\* Who sleeps for an inode will be woken.
SleeperHasHope == part = "inodes" => I!SleeperHasHope

\* The bit map and the block numbers of the files agree: a block has one use,
\* and one without a use is free.
BlocksAreWhole == part = "blocks" => B!BlockHasOneUse /\ B!NoBlockIsLost

\* A file reads what was written to it, and never what another file has left
\* in a block.
ReadsOwnFile == part = "blocks" => B!ReadsOwnFile

\* Super blocks and the inodes that they are mounted on belong together, and
\* what is mounted or used is loaded.
MountsAreWhole == part = "mounts" => M!MountsArePaired /\ M!InUseIsLoaded

\* Names are unique in a directory, i_nlinks counts the entries of an inode,
\* and every entry leads to an inode that is there and can be reached.
DirectoriesAreATree ==
    part = "directories" => D!OneEntryPerName /\ D!LinksAreEntries /\ D!EntriesAreReached

\* No sequence of calls leads to a panic(): no block or inode is freed twice,
\* none is freed that is in use.
NeverPanics == panic = NULL
=============================================================================
