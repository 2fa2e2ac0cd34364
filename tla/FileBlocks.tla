----------------------------- MODULE FileBlocks -----------------------------
(***************************************************************************)
(* The blocks of the files of a device: _bmap() of fs/inode.c, new_block() *)
(* and free_block() of fs/bitmap.c, truncate() of fs/truncate.c, as        *)
(* file_read(), file_write() and open() use them.                          *)
(*                                                                         *)
(* i_zone of a file has DIRECT blocks of the file, a block of PER numbers  *)
(* of blocks, and a block of PER such blocks.  Several tasks may be at     *)
(* work in one file: nothing locks it.  A task gives up the kernel in      *)
(* bread(), getblk() and get_hash_table(), and only there.  A free buffer  *)
(* can always be had: that is BufferCache's subject.                       *)
(***************************************************************************)
EXTENDS Naturals, Sequences, FiniteSets, FiniteSetsExt

CONSTANTS Task, File,
          Block,      \* the blocks of the data zone
          DIRECT,     \* 7 in the code
          PER,        \* 512 in the code
          FileBlock,  \* the blocks of a file that are read and written
          Regimes,    \* the sets of features to be explored, see Init
          NULL

Feature == {"two_writers",     \* several tasks write to a file at the same time
            "truncate_used"}   \* a file is truncated while others are at work in it

FileBlocksAssumption ==
    /\ Block \subseteq Nat
    /\ DIRECT \in Nat \ {0} /\ PER \in Nat \ {0}
    /\ FileBlock \subseteq 0..(DIRECT + PER + PER * PER - 1)
    /\ Regimes \subseteq SUBSET Feature
    /\ NULL \notin Nat \cup File

VARIABLES on,
          zmap,      \* the blocks whose bit is set
          i_zone,    \* of each file
          entry,     \* what a block has as a block of numbers
          data,      \* the file that a block was last written for
          b_count,   \* of the buffer of a block
          pc, file,
          create,    \* the argument of _bmap(): the task writes
          path,      \* the indices that _bmap() has still to go through
          node,      \* the block it has come to, NULL for the inode itself
          blk,       \* the block that it has got
          todo,      \* what truncate() has still to do
          running, panic

walk == <<file, create, path, node>>
vars == <<on, zmap, i_zone, entry, data, b_count, pc, walk, blk, todo, running,
          panic>>

Zone == 0..(DIRECT + 1)
Index == 0..(PER - 1)
Item == [kind : {"zone", "root", "tree", "scan", "free", "clear"},
         b : Block \cup {NULL}, k : Nat, depth : 0..2]

TypeOK ==
    /\ on \in Regimes
    /\ zmap \subseteq Block
    /\ i_zone \in [File -> [Zone -> Block \cup {NULL}]]
    /\ entry \in [Block -> [Index -> Block \cup {NULL}]]
    /\ data \in [Block -> File \cup {NULL}]
    /\ b_count \in [Block -> Nat]
    /\ pc \in [Task -> {"out", "bmap", "new_block", "data", "truncate"}]
    /\ file \in [Task -> File \cup {NULL}]
    /\ create \in [Task -> BOOLEAN]
    /\ path \in [Task -> Seq(Zone \cup Index)]
    /\ node \in [Task -> Block \cup {NULL}]
    /\ blk \in [Task -> Block \cup {NULL}]
    /\ todo \in [Task -> Seq(Item)]
    /\ running \in Task \cup {NULL}
    /\ panic \in {NULL, "new_block", "free_block"}

NoEntries == [k \in Index |-> NULL]

Init ==
    /\ on \in Regimes
    /\ zmap = {}
    /\ i_zone = [f \in File |-> [z \in Zone |-> NULL]]
    /\ entry = [b \in Block |-> NoEntries]
    /\ data = [b \in Block |-> NULL]
    /\ b_count = [b \in Block |-> 0]
    /\ pc = [t \in Task |-> "out"]
    /\ file = [t \in Task |-> NULL]
    /\ create = [t \in Task |-> FALSE]
    /\ path = [t \in Task |-> <<>>]
    /\ node = [t \in Task |-> NULL]
    /\ blk = [t \in Task |-> NULL]
    /\ todo = [t \in Task |-> <<>>]
    /\ running = NULL
    /\ panic = NULL

-----------------------------------------------------------------------------
User(t) == panic = NULL /\ running = NULL /\ pc[t] = "out"
At(t, p) == panic = NULL /\ running \in {NULL, t} /\ pc[t] = p

\* The tasks at work in file f, and those of them that write to it.
In(f) == {t \in Task : pc[t] # "out" /\ file[t] = f}
Writers(f) == {t \in In(f) : create[t] \/ pc[t] = "truncate"}

\* The indices by which block fb of a file is found.
PathTo(fb) ==
    LET i == fb - DIRECT
        ii == fb - DIRECT - PER
    IN  IF fb < DIRECT THEN <<fb>>
        ELSE IF i < PER THEN <<DIRECT, i>>
        ELSE <<DIRECT + 1, ii \div PER, ii % PER>>

\* The buffer counts after bread() of the blocks in S and brelse() of those in R.
Counts(S, R) ==
    [b \in Block |-> b_count[b] + (IF b \in S THEN 1 ELSE 0)
                                - (IF b \in R THEN 1 ELSE 0)]

NodeOf(t) == IF node[t] = NULL THEN {} ELSE {node[t]}

\* The call of t ends.
Leave(t) ==
    /\ pc' = [pc EXCEPT ![t] = "out"]
    /\ file' = [file EXCEPT ![t] = NULL]
    /\ create' = [create EXCEPT ![t] = FALSE]
    /\ path' = [path EXCEPT ![t] = <<>>]
    /\ node' = [node EXCEPT ![t] = NULL]
    /\ blk' = [blk EXCEPT ![t] = NULL]
    /\ running' = NULL

\* The block at the next index is v: bread() it, as another block of numbers,
\* or, when it was the last index, as the caller of _bmap() does.
Advance(t, v) ==
    /\ b_count' = Counts({v}, NodeOf(t))
    /\ IF Len(path[t]) > 1
       THEN /\ node' = [node EXCEPT ![t] = v]
            /\ blk' = [blk EXCEPT ![t] = NULL]
            /\ pc' = [pc EXCEPT ![t] = "bmap"]
       ELSE /\ node' = [node EXCEPT ![t] = NULL]
            /\ blk' = [blk EXCEPT ![t] = v]
            /\ pc' = [pc EXCEPT ![t] = "data"]
    /\ path' = [path EXCEPT ![t] = Tail(@)]
    /\ running' = NULL
    /\ UNCHANGED <<file, create>>

\* Mutant: the bit is set when the buffer is there.
NewBlockLater(t, j) ==
    /\ zmap' = zmap
    /\ blk' = [blk EXCEPT ![t] = j]
    /\ pc' = [pc EXCEPT ![t] = "new_block"]
    /\ running' = NULL

\* new_block() up to its getblk().
NewBlock(t, j) ==
    /\ zmap' = zmap \cup {j}
    /\ blk' = [blk EXCEPT ![t] = j]
    /\ pc' = [pc EXCEPT ![t] = "new_block"]
    /\ running' = NULL

\* _bmap(): one level.  The result 0 ends the call of its caller.
Bmap(t) ==
    /\ At(t, "bmap")
    /\ LET k == Head(path[t])
           v == IF node[t] = NULL THEN i_zone[file[t]][k] ELSE entry[node[t]][k]
       IN  IF v # NULL
           THEN Advance(t, v) /\ UNCHANGED zmap
           ELSE IF create[t] /\ zmap # Block
           THEN NewBlock(t, Min(Block \ zmap)) /\ UNCHANGED <<b_count, walk>>
           ELSE Leave(t) /\ b_count' = Counts({}, NodeOf(t)) /\ UNCHANGED zmap
    /\ UNCHANGED <<on, i_zone, entry, data, todo, panic>>

\* Mutant: the new block keeps what it had before.
HaveBlockUncleared(t) ==
    /\ At(t, "new_block")
    /\ LET j == blk[t]
           k == Head(path[t])
       IN  /\ IF node[t] = NULL
              THEN i_zone' = [i_zone EXCEPT ![file[t]][k] = j] /\ UNCHANGED entry
              ELSE entry' = [entry EXCEPT ![node[t]][k] = j] /\ UNCHANGED i_zone
           /\ Advance(t, j)
    /\ UNCHANGED <<on, zmap, data, todo, panic>>

\* new_block() has the buffer: it is cleared, and its number goes where
\* _bmap() saw none.
HaveBlock(t) ==
    /\ At(t, "new_block")
    /\ LET j == blk[t]
           k == Head(path[t])
           cleared == [entry EXCEPT ![j] = NoEntries]
       IN  IF b_count[j] # 0
           THEN /\ panic' = "new_block"
                /\ UNCHANGED <<i_zone, entry, data, b_count, pc, walk, blk, running>>
           ELSE /\ data' = [data EXCEPT ![j] = NULL]
                /\ IF node[t] = NULL
                   THEN /\ i_zone' = [i_zone EXCEPT ![file[t]][k] = j]
                        /\ entry' = cleared
                   ELSE /\ entry' = [cleared EXCEPT ![node[t]][k] = j]
                        /\ UNCHANGED i_zone
                /\ Advance(t, j)
                /\ UNCHANGED panic
    /\ UNCHANGED <<on, zmap, todo>>

\* file_read() and file_write() have the block.
Transfer(t) ==
    /\ At(t, "data")
    /\ data' = IF create[t] THEN [data EXCEPT ![blk[t]] = file[t]] ELSE data
    /\ b_count' = Counts({}, {blk[t]})
    /\ Leave(t)
    /\ UNCHANGED <<on, zmap, i_zone, entry, todo, panic>>

\* file_read() or file_write() of one block, up to bmap() or create_block().
ReadOrWrite(t) ==
    /\ User(t)
    /\ \E f \in File, fb \in FileBlock, c \in BOOLEAN :
          /\ \A u \in In(f) : pc[u] = "truncate" => "truncate_used" \in on
          /\ c /\ Writers(f) # {} => "two_writers" \in on
          /\ file' = [file EXCEPT ![t] = f]
          /\ create' = [create EXCEPT ![t] = c]
          /\ path' = [path EXCEPT ![t] = PathTo(fb)]
    /\ pc' = [pc EXCEPT ![t] = "bmap"]
    /\ running' = t
    /\ UNCHANGED <<on, zmap, i_zone, entry, data, b_count, node, blk, todo, panic>>

-----------------------------------------------------------------------------
(***************************************************************************)
(* truncate(): a list of what is to be done, the first item first.         *)
(***************************************************************************)
Do(kind, b, k, depth) == [kind |-> kind, b |-> b, k |-> k, depth |-> depth]

\* Open() with O_TRUNC, or the end of a file without links.
Truncate(t) ==
    /\ User(t)
    /\ \E f \in File :
          /\ In(f) # {} => "truncate_used" \in on
          /\ file' = [file EXCEPT ![t] = f]
    /\ pc' = [pc EXCEPT ![t] = "truncate"]
    /\ todo' = [todo EXCEPT ![t] =
                   [i \in 1..DIRECT |-> Do("zone", NULL, i - 1, 0)]
                   \o <<Do("root", NULL, DIRECT, 1), Do("root", NULL, DIRECT + 1, 2),
                        Do("clear", NULL, DIRECT, 0), Do("clear", NULL, DIRECT + 1, 0)>>]
    /\ running' = t
    /\ UNCHANGED <<on, zmap, i_zone, entry, data, b_count, create, path, node,
                   blk, panic>>

Next1(t, kind) == At(t, "truncate") /\ todo[t] # <<>> /\ Head(todo[t]).kind = kind

\* The first item becomes items.  A free_block() or a bread() may sleep first.
Becomes(t, items) ==
    /\ todo' = [todo EXCEPT ![t] = items \o Tail(@)]
    /\ running' = IF items # <<>> /\ Head(items).kind \in {"free", "scan"}
                  THEN NULL ELSE t

\* A direct block.
TruncateZone(t) ==
    /\ Next1(t, "zone")
    /\ LET k == Head(todo[t]).k
           v == i_zone[file[t]][k]
       IN  Becomes(t, IF v = NULL THEN <<>>
                      ELSE <<Do("free", v, 0, 0), Do("clear", NULL, k, 0)>>)
    /\ UNCHANGED <<on, zmap, i_zone, entry, data, b_count, pc, walk, blk, panic>>

\* The calls of free_ind() and free_dind() by truncate().
TruncateRoot(t) ==
    /\ Next1(t, "root")
    /\ LET d == Head(todo[t])
       IN  Becomes(t, <<Do("tree", i_zone[file[t]][d.k], 0, d.depth)>>)
    /\ UNCHANGED <<on, zmap, i_zone, entry, data, b_count, pc, walk, blk, panic>>

\* free_ind() (depth 1) and free_dind() (depth 2) up to their bread().
FreeTree(t) ==
    /\ Next1(t, "tree")
    /\ LET d == Head(todo[t])
       IN  IF d.b = NULL THEN Becomes(t, <<>>) /\ UNCHANGED b_count
           ELSE /\ Becomes(t, <<Do("scan", d.b, 0, d.depth)>>)
                /\ b_count' = Counts({d.b}, {})
    /\ UNCHANGED <<on, zmap, i_zone, entry, data, pc, walk, blk, panic>>

\* One entry of their block, and what follows the last.
FreeEntry(t) ==
    /\ Next1(t, "scan")
    /\ LET d == Head(todo[t])
           next == Do("scan", d.b, d.k + 1, d.depth)
       IN  IF d.k = PER
           THEN /\ Becomes(t, <<Do("free", d.b, 0, 0)>>)
                /\ b_count' = Counts({}, {d.b})
           ELSE /\ LET v == entry[d.b][d.k]
                   IN  Becomes(t, IF v = NULL THEN <<next>>
                                  ELSE IF d.depth = 1 THEN <<Do("free", v, 0, 0), next>>
                                  ELSE <<Do("tree", v, 0, 1), next>>)
                /\ UNCHANGED b_count
    /\ UNCHANGED <<on, zmap, i_zone, entry, data, pc, walk, blk, panic>>

\* free_block().  While others have the buffer, it only takes one more
\* reference to the buffer, for ever.
FreeBlock(t) ==
    /\ Next1(t, "free")
    /\ LET b == Head(todo[t]).b
       IN  IF b_count[b] # 0
           THEN /\ b_count' = Counts({b}, {})
                /\ UNCHANGED <<zmap, panic>>
           ELSE /\ zmap' = zmap \ {b}
                /\ panic' = IF b \in zmap THEN NULL ELSE "free_block"
                /\ UNCHANGED b_count
    /\ Becomes(t, <<>>)
    /\ UNCHANGED <<on, i_zone, entry, data, pc, walk, blk>>

\* Mutant: i_zone keeps the number of the block that is free.
ClearNothing(t) ==
    /\ Next1(t, "clear")
    /\ Becomes(t, <<>>)
    /\ UNCHANGED <<on, zmap, i_zone, entry, data, b_count, pc, walk, blk, panic>>

ClearZone(t) ==
    /\ Next1(t, "clear")
    /\ i_zone' = [i_zone EXCEPT ![file[t]][Head(todo[t]).k] = NULL]
    /\ Becomes(t, <<>>)
    /\ UNCHANGED <<on, zmap, entry, data, b_count, pc, walk, blk, panic>>

Truncated(t) ==
    /\ At(t, "truncate") /\ todo[t] = <<>>
    /\ Leave(t)
    /\ UNCHANGED <<on, zmap, i_zone, entry, data, b_count, todo, panic>>

Next ==
    \E t \in Task :
       \/ ReadOrWrite(t) \/ Bmap(t) \/ HaveBlock(t) \/ Transfer(t)
       \/ Truncate(t) \/ TruncateZone(t) \/ TruncateRoot(t) \/ FreeTree(t)
       \/ FreeEntry(t) \/ FreeBlock(t) \/ ClearZone(t) \/ Truncated(t)

Spec == Init /\ [][Next]_vars

-----------------------------------------------------------------------------
(***************************************************************************)
(* Properties.                                                             *)
(***************************************************************************)
\* The places that can have the number of a block of file f: each with the
\* block it has.
Uses(f) ==
    LET top == {<<z, i_zone[f][z]>> : z \in {z \in Zone : i_zone[f][z] # NULL}}
        below(S) == {<<u, k, entry[u[Len(u)]][k]>> : u \in S, k \in Index}
        full(S) == {u \in S : u[Len(u)] # NULL}
        ind == full(below({u \in top : u[1] >= DIRECT}))
        dind == full(below({u \in ind : u[1][1] = DIRECT + 1}))
    IN  top \cup ind \cup dind

AllUses == UNION {{<<f, u>> : u \in Uses(f)} : f \in File}
UsesOf(b) == {u \in AllUses : u[2][Len(u[2])] = b}
New(b) == {t \in Task : pc[t] = "new_block" /\ blk[t] = b}
Truncating(f) == \E t \in In(f) : pc[t] = "truncate"

\* No block is in two files, or twice in one, or given out twice, although
\* new_block() sleeps between finding a block and its callers' noting it.  (A
\* file that is being truncated still has numbers of blocks that are free.)
BlockHasOneUse ==
    \A b \in Block :
       Cardinality({u \in UsesOf(b) : ~Truncating(u[1])}) + Cardinality(New(b)) <= 1

\* A block of a file is not free; and one that is not free is in a file, or
\* about to be, so that no interleaving of writers and truncation loses space.
NoBlockIsLost ==
    /\ \A b \in zmap : UsesOf(b) # {} \/ New(b) # {}
    /\ \A u \in AllUses : u[2][Len(u[2])] \in zmap \/ Truncating(u[1])

\* The block that file_read() has got is one written for that file, or clear,
\* from bmap() to the end of the copy.
ReadsOwnFile ==
    \A t \in Task : pc[t] = "data" => data[blk[t]] \in {NULL, file[t]}

\* new_block() never finds a use of the block it takes, nor free_block() one
\* that is free.
NeverPanics == panic = NULL
=============================================================================
