------------------------------ MODULE Directory ------------------------------
(***************************************************************************)
(* Directories and path names: find_entry(), add_entry(), get_dir(),       *)
(* namei(), open_namei() and the system calls mknod, mkdir, rmdir, unlink  *)
(* and link (fs/namei.c).                                                  *)
(*                                                                         *)
(* A directory is a file of entries, read a block at a time; a task may    *)
(* sleep for each block, and others then change the directory, for nothing *)
(* locks it.  "." and ".." are not entries here.  iput() and iget() are    *)
(* what InodeTable shows of them, the mode bits let everything be done, and*)
(* what a number names is fetched before others run (InodeTable has the    *)
(* late look-up).                                                          *)
(***************************************************************************)
EXTENDS Naturals, Sequences, FiniteSets

CONSTANTS Task,
          Node,       \* the inodes of the device
          ROOT,       \* the directory where all paths begin
          Name, Path, \* names, and the paths that are used
          PER, SIZE,  \* entries per block, and per directory
          Regimes,    \* the sets of features to be explored, see Init
          NULL

Feature == {"dirs",       \* mkdir and rmdir are called
            "nodes",      \* mknod is called
            "full",       \* create_block() may find no block
            "same_name",  \* several calls change what one path names
            "busy_dir"}   \* a directory is removed while a file is created in it

DirectoryAssumption ==
    /\ ROOT \in Node
    /\ Path \subseteq Seq(Name) \ {<<>>}
    /\ PER \in Nat \ {0} /\ SIZE \in Nat \ {0} /\ SIZE % PER = 0
    /\ Regimes \subseteq SUBSET Feature
    /\ NULL \notin Node \cup Name \cup {"file", "dir"}

VARIABLES on,
          kind,      \* i_mode: what an inode is, NULL when it is free
          nlinks,    \* i_nlinks
          count,     \* i_count
          slot,      \* the entries of a directory: name and inode
          size,      \* how many of them i_size counts
          call,      \* the system call of a task and its variables
          panic

inodes == <<kind, nlinks, count, slot, size>>
vars == <<on, inodes, call, panic>>

Slot == 1..SIZE
DirBlock == 1..(SIZE \div PER)
Free == [name |-> NULL, ino |-> NULL]
Entry == [name : Name \cup {NULL}, ino : Node \cup {NULL}]

Idle == [op |-> NULL, pc |-> "out", path |-> <<>>, new |-> <<>>, dir |-> NULL,
         inode |-> NULL, at |-> 1, end |-> 0, de |-> 0]

Op == {"open", "creat", "mknod", "link", "unlink", "mkdir", "rmdir"}

Call == [op : Op \cup {"link to", NULL},
         pc : {"out", "find", "add", "linked", "have", "empty", "open"},
         path : Seq(Name), new : Seq(Name), dir : Node \cup {NULL},
         inode : Node \cup {NULL}, at : DirBlock, end : 0..SIZE, de : 0..SIZE]

TypeOK ==
    /\ on \in Regimes
    /\ kind \in [Node -> {"file", "dir", NULL}]
    /\ nlinks \in [Node -> Nat]
    /\ count \in [Node -> Nat]
    /\ slot \in [Node -> [Slot -> Entry]]
    /\ size \in [Node -> 0..SIZE]
    /\ call \in [Task -> Call]
    /\ panic \in {NULL, "block is free"}

\* The root holds nothing, and is the root and the working directory of all.
Init ==
    /\ on \in Regimes
    /\ kind = [n \in Node |-> IF n = ROOT THEN "dir" ELSE NULL]
    /\ nlinks = [n \in Node |-> IF n = ROOT THEN 2 ELSE 0]
    /\ count = [n \in Node |-> IF n = ROOT THEN 1 ELSE 0]
    /\ slot = [n \in Node |-> [k \in Slot |-> Free]]
    /\ size = [n \in Node |-> 0]
    /\ call = [t \in Task |-> Idle]
    /\ panic = NULL

-----------------------------------------------------------------------------
At(t, p) == panic = NULL /\ call[t].pc = p

Goto(t, c) == call' = [call EXCEPT ![t] = c]

Return(t) == Goto(t, Idle)

\* iput() of the inodes of drop, and iget() of those of take.  The last iput()
\* of an inode without links frees it.
Refs(drop, take) ==
    /\ count' = [n \in Node |-> count[n] + (IF n \in take THEN 1 ELSE 0)
                                         - (IF n \in drop THEN 1 ELSE 0)]
    /\ kind' = [n \in Node |-> IF n \in drop /\ count'[n] = 0 /\ nlinks'[n] = 0
                               THEN NULL ELSE kind[n]]

Mine(t) == {call[t].dir, call[t].inode} \ {NULL}

\* The end of a call that has changed nothing.
Fail(t) ==
    /\ UNCHANGED <<on, nlinks, slot, size, panic>>
    /\ Refs(Mine(t), {})
    /\ Return(t)

\* permission(): a directory without links is not searched, nor written.
Searchable(n) == kind[n] = "dir" /\ nlinks[n] # 0

\* The slots of a block.
SlotsOf(b) == ((b - 1) * PER + 1)..(b * PER)

\* Mutant: the last entry is not looked at.
HitsButLast(t) ==
    {k \in SlotsOf(call[t].at) :
        /\ k < call[t].end
        /\ slot[call[t].dir][k].ino # NULL
        /\ slot[call[t].dir][k].name = Head(call[t].path)}

\* match(): the entries of this block that have the name.
Hits(t) ==
    {k \in SlotsOf(call[t].at) :
        /\ k <= call[t].end
        /\ slot[call[t].dir][k].ino # NULL
        /\ slot[call[t].dir][k].name = Head(call[t].path)}

Hit(t, k) == k \in Hits(t) /\ \A j \in Hits(t) : k <= j

\* The name is not in this block, which is the last of the directory.
NotThere(t) == Hits(t) = {} /\ call[t].end <= call[t].at * PER

Last(t) == Len(call[t].path) = 1

-----------------------------------------------------------------------------
(***************************************************************************)
(* The search.                                                             *)
(***************************************************************************)
\* What a call changes: the path that it makes or removes.
Changed(op, p, q) ==
    CASE op = "open" -> {}
      [] op = "link" -> {q}
      [] OTHER -> {p}

\* new is the path for all but sys_link().
ChangedBy(u) ==
    IF call[u].op = "open" \/ call[u].pc = "out" THEN {} ELSE {call[u].new}

Below(p, q) == Len(p) < Len(q) /\ SubSeq(q, 1, Len(p)) = p

\* Without the features nobody else changes the same name, or works in a
\* directory that is being removed.
Alone(t, op, p, q) ==
    \A u \in Task \ {t}, mine \in Changed(op, p, q) :
       \A other \in ChangedBy(u) :
          /\ "same_name" \in on \/ mine # other
          /\ "busy_dir" \in on \/
                /\ ~(op = "rmdir" /\ Below(mine, other))
                /\ ~(call[u].op = "rmdir" /\ Below(other, mine))

\* get_dir() starts at the root.
Begin(t) ==
    /\ At(t, "out")
    /\ \E op \in Op, p, q \in Path :
          /\ op \in {"mkdir", "rmdir"} => "dirs" \in on
          /\ op = "mknod" => "nodes" \in on
          /\ op # "link" => p = q
          /\ Alone(t, op, p, q)
          /\ Goto(t, [Idle EXCEPT !.op = op, !.pc = "find", !.path = p, !.new = q,
                                  !.dir = ROOT, !.end = size[ROOT]])
    /\ count' = [count EXCEPT ![ROOT] = @ + 1]
    /\ UNCHANGED <<on, kind, nlinks, slot, size, panic>>

\* find_entry(): the next block of the directory.
Search(t) ==
    /\ At(t, "find")
    /\ Hits(t) = {} /\ ~NotThere(t)
    /\ Goto(t, [call[t] EXCEPT !.at = @ + 1])
    /\ UNCHANGED <<on, inodes, panic>>

\* get_dir(): into the next directory of the path.
Follow(t) ==
    /\ At(t, "find") /\ ~Last(t)
    /\ \E k \in Slot :
          /\ Hit(t, k)
          /\ LET n == slot[call[t].dir][k].ino
             IN  IF ~Searchable(n) THEN Fail(t)
                 ELSE /\ UNCHANGED <<on, nlinks, slot, size, panic>>
                      /\ Refs({call[t].dir}, {n})
                      /\ Goto(t, [call[t] EXCEPT !.path = Tail(@), !.dir = n,
                                                 !.at = 1, !.end = size[n]])

\* namei() and open_namei(): the name is there.  sys_link() goes on to search
\* its second path.
LookUp(t) ==
    /\ At(t, "find") /\ Last(t) /\ call[t].op \in {"open", "creat", "link"}
    /\ UNCHANGED <<on, nlinks, slot, size, panic>>
    /\ \E k \in Slot :
          /\ Hit(t, k)
          /\ LET n == slot[call[t].dir][k].ino
             IN  IF call[t].op # "link"
                 THEN /\ Refs({call[t].dir}, {n})
                      /\ Goto(t, [Idle EXCEPT !.op = "open", !.pc = "open", !.inode = n])
                 ELSE IF kind[n] = "dir"
                 THEN Refs({call[t].dir}, {}) /\ Return(t)
                 ELSE /\ Refs({call[t].dir}, {n, ROOT})
                      /\ Goto(t, [call[t] EXCEPT
                             !.op = "link to", !.path = call[t].new, !.dir = ROOT,
                             !.inode = n, !.at = 1, !.end = size[ROOT]])

\* EEXIST
Exists(t) ==
    /\ At(t, "find") /\ Last(t) /\ call[t].op \in {"mknod", "mkdir", "link to"}
    /\ Hits(t) # {}
    /\ Fail(t)

\* ENOENT
Missing(t) ==
    /\ At(t, "find") /\ NotThere(t)
    /\ ~(Last(t) /\ call[t].op \in {"creat", "mknod", "mkdir", "link to"})
    /\ Fail(t)

Close(t) ==
    /\ At(t, "open")
    /\ Fail(t)

-----------------------------------------------------------------------------
(***************************************************************************)
(* open_namei() that creates, sys_mknod(), sys_mkdir(), sys_link()         *)
(***************************************************************************)
\* new_inode(): an inode of kind k with links links, to be entered as the name.
NewInode(t, k, links) ==
    \E n \in Node :
       /\ kind[n] = NULL
       /\ kind' = [kind EXCEPT ![n] = k]
       /\ nlinks' = [nlinks EXCEPT ![n] = links]
       /\ count' = [count EXCEPT ![n] = 1]
       /\ slot' = [slot EXCEPT ![n] = [j \in Slot |-> Free]]
       /\ size' = [size EXCEPT ![n] = 0]
       /\ Goto(t, [call[t] EXCEPT !.pc = "add", !.inode = n, !.at = 1])
       /\ UNCHANGED <<on, panic>>

NoInodes == \A n \in Node : kind[n] # NULL

\* open_namei() asks for permission once more when it has searched.
CreateFile(t) ==
    /\ At(t, "find") /\ NotThere(t) /\ Last(t) /\ call[t].op = "creat"
    /\ IF NoInodes \/ ~Searchable(call[t].dir) THEN Fail(t)
       ELSE NewInode(t, "file", 1)

MakeNode(t) ==
    /\ At(t, "find") /\ NotThere(t) /\ Last(t) /\ call[t].op = "mknod"
    /\ IF NoInodes THEN Fail(t) ELSE NewInode(t, "file", 1)

\* sys_mkdir() has new_block() give it a block for "." and "..".
MakeDirectory(t) ==
    /\ At(t, "find") /\ NotThere(t) /\ Last(t) /\ call[t].op = "mkdir"
    /\ \/ (NoInodes \/ "full" \in on) /\ Fail(t)
       \/ NewInode(t, "dir", 2)

LinkTo(t) ==
    /\ At(t, "find") /\ NotThere(t) /\ Last(t) /\ call[t].op = "link to"
    /\ Goto(t, [call[t] EXCEPT !.pc = "add", !.at = 1])
    /\ UNCHANGED <<on, inodes, panic>>

\* The slots of this block that add_entry() may take: one whose inode is 0, or
\* the one behind the end.
Room(t) ==
    {k \in SlotsOf(call[t].at) :
        k > size[call[t].dir] \/ slot[call[t].dir][k].ino = NULL}

\* add_entry() in this block, and what the caller puts into the entry; it does
\* so without sleeping.
AddEntry(t) ==
    LET d == call[t].dir
        n == call[t].inode
    IN  \E k \in Room(t) :
           /\ \A j \in Room(t) : k <= j
           /\ slot' = [slot EXCEPT ![d][k] = [name |-> Head(call[t].path), ino |-> n]]
           /\ size' = [size EXCEPT ![d] = IF k > @ THEN k ELSE @]
           /\ nlinks' = IF call[t].op = "mkdir" THEN [nlinks EXCEPT ![d] = @ + 1]
                        ELSE nlinks

Add(t) ==
    /\ At(t, "add") /\ Room(t) # {}
    /\ AddEntry(t)
    /\ IF call[t].op = "link to"
       THEN /\ Refs({call[t].dir}, {})
            /\ Goto(t, [call[t] EXCEPT !.pc = "linked", !.dir = NULL])
       ELSE IF call[t].op = "creat"
       THEN /\ Refs({call[t].dir}, {})
            /\ Goto(t, [Idle EXCEPT !.op = "open", !.pc = "open", !.inode = call[t].inode])
       ELSE Refs(Mine(t), {}) /\ Return(t)
    /\ UNCHANGED <<on, panic>>

\* sys_link() counts the link when it has given back the directory.
Linked(t) ==
    /\ At(t, "linked")
    /\ nlinks' = [nlinks EXCEPT ![call[t].inode] = @ + 1]
    /\ Refs({call[t].inode}, {})
    /\ Return(t)
    /\ UNCHANGED <<on, slot, size, panic>>

\* create_block(): the next block is there, or is made.
NextBlock(t) ==
    /\ At(t, "add") /\ Room(t) = {} /\ call[t].at + 1 \in DirBlock
    /\ Goto(t, [call[t] EXCEPT !.at = @ + 1])
    /\ UNCHANGED <<on, inodes, panic>>

\* add_entry() finds no room: the new inode is given back without a link.
\* sys_mkdir() frees its block first, and iput() frees it again.
NoSpace(t) ==
    /\ At(t, "add") /\ Room(t) = {}
    /\ "full" \in on /\ size[call[t].dir] <= call[t].at * PER
    /\ IF call[t].op = "mkdir"
       THEN panic' = "block is free" /\ UNCHANGED <<inodes, call>>
       ELSE /\ nlinks' = IF call[t].op \in {"creat", "mknod"}
                         THEN [nlinks EXCEPT ![call[t].inode] = 0] ELSE nlinks
            /\ Refs(Mine(t), {})
            /\ Return(t)
            /\ UNCHANGED <<slot, size, panic>>
    /\ UNCHANGED on

-----------------------------------------------------------------------------
(***************************************************************************)
(* sys_unlink() and sys_rmdir()                                            *)
(***************************************************************************)
\* The entry is kept while iget() reads the inode.
Victim(t) ==
    /\ At(t, "find") /\ Last(t) /\ call[t].op \in {"unlink", "rmdir"}
    /\ UNCHANGED <<on, nlinks, slot, size, panic>>
    /\ \E k \in Slot :
          /\ Hit(t, k)
          /\ LET n == slot[call[t].dir][k].ino
             IN  /\ Refs({}, {n})
                 /\ Goto(t, [call[t] EXCEPT !.pc = "have", !.inode = n, !.de = k])

ClearEntry(t) == slot' = [slot EXCEPT ![call[t].dir][call[t].de].ino = NULL]

\* An inode without links is taken to have one.
Unlink(t) ==
    /\ At(t, "have") /\ call[t].op = "unlink"
    /\ IF kind[call[t].inode] = "dir" THEN Fail(t)
       ELSE /\ ClearEntry(t)
            /\ nlinks' = [nlinks EXCEPT ![call[t].inode] = IF @ = 0 THEN 0 ELSE @ - 1]
            /\ Refs(Mine(t), {})
            /\ Return(t)
            /\ UNCHANGED <<on, size, panic>>

\* Only a directory that nobody else uses is removed.
MayRemove(t) == kind[call[t].inode] = "dir" /\ count[call[t].inode] = 1

Rmdir(t) ==
    /\ At(t, "have") /\ call[t].op = "rmdir"
    /\ IF ~MayRemove(t) THEN Fail(t)
       ELSE /\ Goto(t, [call[t] EXCEPT !.pc = "empty", !.at = 1,
                                       !.end = size[call[t].inode]])
            /\ UNCHANGED <<on, inodes, panic>>

\* empty_dir(): a used entry in this block.
UsedHere(t) ==
    \E k \in SlotsOf(call[t].at) : k <= call[t].end /\ slot[call[t].inode][k].ino # NULL

EmptyDir(t) ==
    /\ At(t, "empty")
    /\ IF UsedHere(t) THEN Fail(t)
       ELSE IF call[t].at * PER < call[t].end
       THEN /\ Goto(t, [call[t] EXCEPT !.at = @ + 1])
            /\ UNCHANGED <<on, inodes, panic>>
       ELSE /\ ClearEntry(t)
            /\ nlinks' = [nlinks EXCEPT ![call[t].inode] = 0, ![call[t].dir] = @ - 1]
            /\ Refs(Mine(t), {})
            /\ Return(t)
            /\ UNCHANGED <<on, size, panic>>

Next ==
    \E t \in Task :
       \/ Begin(t) \/ Search(t) \/ Follow(t) \/ LookUp(t) \/ Exists(t)
       \/ Missing(t) \/ Close(t) \/ CreateFile(t) \/ MakeNode(t)
       \/ MakeDirectory(t) \/ LinkTo(t) \/ Add(t) \/ Linked(t) \/ NextBlock(t)
       \/ NoSpace(t) \/ Victim(t) \/ Unlink(t) \/ Rmdir(t) \/ EmptyDir(t)

Spec == Init /\ [][Next]_vars

-----------------------------------------------------------------------------
(***************************************************************************)
(* Properties.                                                             *)
(***************************************************************************)
Used(d) == {k \in Slot : kind[d] = "dir" /\ slot[d][k].ino # NULL}

Entries(n) == {e \in Node \X Slot : e[2] \in Used(e[1]) /\ slot[e[1]][e[2]].ino = n}

\* A name is once in a directory, though nothing is locked between the search
\* for it and the entry.
OneEntryPerName ==
    \A d \in Node : \A j, k \in Used(d) : slot[d][j].name = slot[d][k].name => j = k

\* The link count of a file is the number of its names, but for those that a
\* call has made or counted and not yet the other; that of a directory is that
\* of its subdirectories and two, or zero when it has been removed.
LinksAreEntries ==
    \A n \in Node :
       /\ kind[n] = "file" =>
             nlinks[n] + Cardinality({t \in Task : call[t].pc = "linked" /\ call[t].inode = n})
             = Cardinality(Entries(n))
               + Cardinality({t \in Task : call[t].pc = "add" /\ call[t].inode = n
                                           /\ call[t].op \in {"creat", "mknod"}})
       /\ kind[n] = "dir" =>
             nlinks[n] = IF n # ROOT /\ Entries(n) = {}
                            /\ ~\E t \in Task : call[t].pc = "add" /\ call[t].inode = n
                         THEN 0
                         ELSE 2 + Cardinality({k \in Used(n) : kind[slot[n][k].ino] = "dir"})

\* What an entry names is an inode that is not free, and a directory that has
\* been removed holds none: nothing is out of reach of every path while it has
\* a link.
EntriesAreReached ==
    \A d \in Node :
       /\ \A k \in Used(d) : kind[slot[d][k].ino] # NULL
       /\ nlinks[d] = 0 => Used(d) = {}

\* No block is freed twice.
NeverPanics == panic = NULL
=============================================================================
