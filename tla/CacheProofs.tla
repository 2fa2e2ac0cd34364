---------------------------- MODULE CacheProofs ----------------------------
(***************************************************************************)
(* Proofs about the buffer cache, for any number of tasks, of blocks and   *)
(* of buffers, any mixture of operations and any failures of the device.   *)
(***************************************************************************)
EXTENDS BufferCache, FiniteSetTheorems, TLAPS

\* The shape of the state that says who uses which buffer for which block.
UseTypes ==
    /\ b_block \in [Buffer -> Block \cup {NULL}]
    /\ b_count \in [Buffer -> Nat]
    /\ pc \in [Task -> Where]
    /\ op \in [Task -> AllOps \cup {NULL}]
    /\ want \in [Task -> Block \cup {NULL}]
    /\ bh \in [Task -> Buffer \cup {NULL}]
    /\ first \in [Task -> Buffer \cup {NULL}]

\* A task on its way through getblk() or with a buffer knows which block it
\* wants; so does one that goes through sync_dev() on behalf of getblk().
Wanting(t) ==
    \/ pc[t] \in Holding \cup {"get", "buffer_wait", "free_wait"}
    \/ pc[t] \in {"sync", "sync_wait"} /\ op[t] # "sync"

WantIsKnown == \A t \in Task : Wanting(t) => want[t] \in Block

\* It has a buffer or a candidate, except where it looks for one.
BufferIsKnown ==
    \A t \in Task :
        Wanting(t) /\ pc[t] \notin {"get", "buffer_wait"} => bh[t] \in Buffer

\* The first buffer of a read-ahead is for some block.
PinnedHasBlock ==
    \A t \in Task : first[t] # NULL => b_block[first[t]] # NULL

CacheInv ==
    /\ UseTypes
    /\ WantIsKnown
    /\ BufferIsKnown
    /\ PinnedHasBlock
    /\ OneBufferPerBlock
    /\ CountIsHolders
    /\ HeldBufferStays

-----------------------------------------------------------------------------
(***************************************************************************)
(* Counting tasks.                                                         *)
(***************************************************************************)
\* A set of tasks is finite, and empty if and only if it has no members.
LEMMA TaskSet ==
  ASSUME NEW S \in SUBSET Task
  PROVE  /\ IsFiniteSet(S)
         /\ Cardinality(S) \in Nat
         /\ Cardinality(S) = 0 <=> S = {}
<1>1. IsFiniteSet(S)
  BY FinitelyManyTasks, FS_Subset
<1>2. Cardinality(S) \in Nat
  BY <1>1, FS_CardinalityType
<1>3. Cardinality(S) = 0 <=> S = {}
  BY <1>1, FS_EmptySet
<1> QED BY <1>1, <1>2, <1>3

\* A task joins those that have a buffer.
LEMMA OneMore ==
  ASSUME NEW S \in SUBSET Task, NEW t \in Task, t \notin S
  PROVE  Cardinality(S \cup {t}) = Cardinality(S) + 1
  BY TaskSet, FS_AddElement

\* One of them leaves.
LEMMA OneLess ==
  ASSUME NEW S \in SUBSET Task, NEW t \in S
  PROVE  /\ Cardinality(S \ {t}) = Cardinality(S) - 1
         /\ Cardinality(S) > 0
<1>1. Cardinality(S) # 0 /\ Cardinality(S) \in Nat /\ IsFiniteSet(S)
  BY TaskSet
<1>2. Cardinality(S) > 0
  BY <1>1
<1>3. Cardinality(S \ {t}) = Cardinality(S) - 1
  BY <1>1, FS_RemoveElement
<1> QED BY <1>2, <1>3

\* A buffer that somebody holds or pins is counted.
LEMMA HeldIsCounted ==
  ASSUME CacheInv, NEW t \in Task, NEW b \in Buffer,
         t \in Holders(b) \/ t \in Pinners(b)
  PROVE  b_count[b] > 0
<1>1. Holders(b) \in SUBSET Task /\ Pinners(b) \in SUBSET Task
  BY DEF Holders, Pinners
<1>2. /\ Cardinality(Holders(b)) \in Nat
      /\ Cardinality(Pinners(b)) \in Nat
      /\ Cardinality(Holders(b)) # 0 \/ Cardinality(Pinners(b)) # 0
  BY <1>1, TaskSet
<1>3. b_count[b] = Cardinality(Holders(b)) + Cardinality(Pinners(b))
  BY DEF CacheInv, CountIsHolders
<1> QED BY <1>2, <1>3

\* A step that moves nobody.
LEMMA CountStays ==
  ASSUME UseTypes, CountIsHolders, b_count' = b_count,
         \A b \in Buffer : Holders(b)' = Holders(b) /\ Pinners(b)' = Pinners(b)
  PROVE  CountIsHolders' /\ b_count' \in [Buffer -> Nat]
  BY DEF UseTypes, CountIsHolders

\* A step by which t becomes a holder of c.
LEMMA CountJoins ==
  ASSUME UseTypes, CountIsHolders, NEW t \in Task, NEW c \in Buffer,
         t \notin Holders(c),
         b_count' = [b_count EXCEPT ![c] = @ + 1],
         \A b \in Buffer :
            /\ Holders(b)' = IF b = c THEN Holders(b) \cup {t} ELSE Holders(b)
            /\ Pinners(b)' = Pinners(b)
  PROVE  CountIsHolders' /\ b_count' \in [Buffer -> Nat]
<1>1. /\ Holders(c) \in SUBSET Task
      /\ Pinners(c) \in SUBSET Task
  BY DEF Holders, Pinners
<1>2. Cardinality(Holders(c) \cup {t}) = Cardinality(Holders(c)) + 1
  BY <1>1, OneMore
<1>3. Cardinality(Holders(c)) \in Nat /\ Cardinality(Pinners(c)) \in Nat
  BY <1>1, TaskSet
<1>4. b_count[c] = Cardinality(Holders(c)) + Cardinality(Pinners(c))
  BY DEF CountIsHolders
<1>5. b_count'[c] = b_count[c] + 1 /\ b_count'[c] \in Nat
  BY <1>2, <1>3, <1>4 DEF UseTypes
<1>6. \A b \in Buffer : b # c => b_count'[b] = b_count[b]
  BY DEF UseTypes
<1>7. b_count' \in [Buffer -> Nat]
  BY <1>5, <1>6 DEF UseTypes
<1>8. ASSUME NEW b \in Buffer
      PROVE  b_count'[b] = Cardinality(Holders(b)') + Cardinality(Pinners(b)')
  <2>1. CASE b = c
    <3>1. Holders(b)' = Holders(c) \cup {t} /\ Pinners(b)' = Pinners(c)
      BY <2>1
    <3> QED BY <2>1, <3>1, <1>2, <1>3, <1>4, <1>5
  <2>2. CASE b # c
    BY <2>2, <1>6 DEF CountIsHolders
  <2> QED BY <2>1, <2>2
<1> QED BY <1>7, <1>8 DEF CountIsHolders

\* A step by which t stops to be a holder of c.
LEMMA CountLeaves ==
  ASSUME UseTypes, CountIsHolders, NEW t \in Task, NEW c \in Buffer,
         t \in Holders(c),
         b_count' = [b_count EXCEPT ![c] = @ - 1],
         \A b \in Buffer :
            /\ Holders(b)' = IF b = c THEN Holders(b) \ {t} ELSE Holders(b)
            /\ Pinners(b)' = Pinners(b)
  PROVE  CountIsHolders' /\ b_count' \in [Buffer -> Nat]
<1>1. /\ Holders(c) \in SUBSET Task
      /\ Pinners(c) \in SUBSET Task
  BY DEF Holders, Pinners
<1>2. /\ Cardinality(Holders(c) \ {t}) = Cardinality(Holders(c)) - 1
      /\ Cardinality(Holders(c)) > 0
  BY <1>1, OneLess
<1>3. Cardinality(Holders(c)) \in Nat /\ Cardinality(Pinners(c)) \in Nat
  BY <1>1, TaskSet
<1>4. b_count[c] = Cardinality(Holders(c)) + Cardinality(Pinners(c))
  BY DEF CountIsHolders
<1>5. b_count'[c] = b_count[c] - 1 /\ b_count'[c] \in Nat
  BY <1>2, <1>3, <1>4 DEF UseTypes
<1>6. \A b \in Buffer : b # c => b_count'[b] = b_count[b]
  BY DEF UseTypes
<1>7. b_count' \in [Buffer -> Nat]
  BY <1>5, <1>6 DEF UseTypes
<1>8. ASSUME NEW b \in Buffer
      PROVE  b_count'[b] = Cardinality(Holders(b)') + Cardinality(Pinners(b)')
  <2>1. CASE b = c
    <3>1. Holders(b)' = Holders(c) \ {t} /\ Pinners(b)' = Pinners(c)
      BY <2>1
    <3> QED BY <2>1, <3>1, <1>2, <1>3, <1>4, <1>5
  <2>2. CASE b # c
    BY <2>2, <1>6 DEF CountIsHolders
  <2> QED BY <2>1, <2>2
<1> QED BY <1>7, <1>8 DEF CountIsHolders

-----------------------------------------------------------------------------
(***************************************************************************)
(* The steps.                                                              *)
(***************************************************************************)
\* What has to be shown of a step that neither claims nor counts a buffer.
LEMMA QuietStep ==
  ASSUME CacheInv, UNCHANGED <<b_block, b_count, first>>,
         UseTypes', WantIsKnown', BufferIsKnown', HeldBufferStays',
         \A b \in Buffer : Holders(b)' = Holders(b)
  PROVE  CacheInv'
<1>1. \A b \in Buffer : Pinners(b)' = Pinners(b)
  BY DEF Pinners
<1>2. CountIsHolders'
  BY <1>1, CountStays DEF CacheInv
<1>3. PinnedHasBlock' /\ OneBufferPerBlock'
  BY DEF CacheInv, PinnedHasBlock, OneBufferPerBlock
<1> QED BY <1>2, <1>3 DEF CacheInv

\* getblk() and sync_dev() before a buffer is claimed.
LEMMA SearchKeepsInv ==
  ASSUME CacheInv, NEW t \in Task,
         \/ GetCandidate(t) \/ GetSleeps(t) \/ CandidateTaken(t)
         \/ CandidateDirty(t) \/ CandidateNotNeeded(t) \/ SyncStep(t)
  PROVE  CacheInv'
<1> USE DEF CacheInv, UseTypes, WantIsKnown, BufferIsKnown, HeldBufferStays,
            Wanting, Holding, At, AfterWait, Goto, GotoWait, GetAgain, Where,
            Rest, WaitPoint, bufs, store, locals, Unused
<1>1. CASE GetCandidate(t)
  <2>1. UseTypes' /\ WantIsKnown' /\ BufferIsKnown' /\ HeldBufferStays'
    BY <1>1 DEF GetCandidate
  <2>2. \A b \in Buffer : Holders(b)' = Holders(b)
    BY <1>1 DEF GetCandidate, Holders
  <2> QED BY <1>1, <2>1, <2>2, QuietStep DEF GetCandidate
<1>2. CASE GetSleeps(t)
  <2>1. UseTypes' /\ WantIsKnown' /\ BufferIsKnown' /\ HeldBufferStays'
    BY <1>2 DEF GetSleeps
  <2>2. \A b \in Buffer : Holders(b)' = Holders(b)
    BY <1>2 DEF GetSleeps, Holders
  <2> QED BY <1>2, <2>1, <2>2, QuietStep DEF GetSleeps
<1>3. CASE CandidateTaken(t) \/ CandidateNotNeeded(t)
  <2>1. UseTypes' /\ WantIsKnown' /\ BufferIsKnown' /\ HeldBufferStays'
    BY <1>3 DEF CandidateTaken, CandidateNotNeeded
  <2>2. \A b \in Buffer : Holders(b)' = Holders(b)
    BY <1>3 DEF CandidateTaken, CandidateNotNeeded, Holders
  <2> QED BY <1>3, <2>1, <2>2, QuietStep DEF CandidateTaken, CandidateNotNeeded
<1>4. CASE CandidateDirty(t)
  <2>1. UseTypes' /\ WantIsKnown' /\ BufferIsKnown' /\ HeldBufferStays'
    BY <1>4 DEF CandidateDirty
  <2>2. \A b \in Buffer : Holders(b)' = Holders(b)
    BY <1>4 DEF CandidateDirty, Holders
  <2> QED BY <1>4, <2>1, <2>2, QuietStep DEF CandidateDirty
<1>5. CASE SyncScan(t) \/ SyncWrite(t)
  <2>1. UseTypes' /\ WantIsKnown' /\ BufferIsKnown' /\ HeldBufferStays'
    BY <1>5 DEF SyncScan, SyncWrite
  <2>2. \A b \in Buffer : Holders(b)' = Holders(b)
    BY <1>5 DEF SyncScan, SyncWrite, Holders
  <2> QED BY <1>5, <2>1, <2>2, QuietStep DEF SyncScan, SyncWrite
<1>6. CASE SyncEnd(t)
  <2>1. UseTypes' /\ WantIsKnown' /\ BufferIsKnown' /\ HeldBufferStays'
    BY <1>6 DEF SyncEnd
  <2>2. \A b \in Buffer : Holders(b)' = Holders(b)
    BY <1>6 DEF SyncEnd, Holders
  <2> QED BY <1>6, <2>1, <2>2, QuietStep DEF SyncEnd
<1> QED BY <1>1, <1>2, <1>3, <1>4, <1>5, <1>6 DEF SyncStep

\* The callers of getblk(), as long as they keep their buffers.
LEMMA UseKeepsInv ==
  ASSUME CacheInv, NEW t \in Task,
         \/ BreadGot(t) \/ BreadReturns(t) \/ Modify(t)
         \/ CopyBegins(t) \/ CopyEnds(t) \/ ReadOver(t)
  PROVE  CacheInv'
<1> USE DEF CacheInv, UseTypes, WantIsKnown, BufferIsKnown, HeldBufferStays,
            Wanting, Holding, At, AfterWait, Goto, GotoWait, Where,
            Rest, WaitPoint, bufs, store, locals, ll_rw_block, NoTransfer
<1>1. CASE BreadGot(t)
  <2>1. UseTypes' /\ WantIsKnown' /\ BufferIsKnown' /\ HeldBufferStays'
    BY <1>1 DEF BreadGot
  <2>2. \A b \in Buffer : Holders(b)' = Holders(b)
    BY <1>1 DEF BreadGot, Holders
  <2> QED BY <1>1, <2>1, <2>2, QuietStep DEF BreadGot
<1>2. CASE BreadReturns(t)
  <2>1. UseTypes' /\ WantIsKnown' /\ BufferIsKnown' /\ HeldBufferStays'
    BY <1>2 DEF BreadReturns
  <2>2. \A b \in Buffer : Holders(b)' = Holders(b)
    BY <1>2 DEF BreadReturns, Holders
  <2> QED BY <1>2, <2>1, <2>2, QuietStep DEF BreadReturns
<1>3. CASE Modify(t) \/ CopyEnds(t) \/ ReadOver(t)
  <2>1. UseTypes' /\ WantIsKnown' /\ BufferIsKnown' /\ HeldBufferStays'
    BY <1>3 DEF Modify, CopyEnds, ReadOver
  <2>2. \A b \in Buffer : Holders(b)' = Holders(b)
    BY <1>3 DEF Modify, CopyEnds, ReadOver, Holders
  <2> QED BY <1>3, <2>1, <2>2, QuietStep DEF Modify, CopyEnds, ReadOver
<1>4. CASE CopyBegins(t)
  <2>1. UseTypes' /\ WantIsKnown' /\ BufferIsKnown' /\ HeldBufferStays'
    BY <1>4 DEF CopyBegins
  <2>2. \A b \in Buffer : Holders(b)' = Holders(b)
    BY <1>4 DEF CopyBegins, Holders
  <2> QED BY <1>4, <2>1, <2>2, QuietStep DEF CopyBegins
<1> QED BY <1>1, <1>2, <1>3, <1>4

\* An operation begins; a transfer ends.
LEMMA StartKeepsInv ==
  ASSUME CacheInv, NEW t \in Task, NEW o \in Ops, NEW k \in Block,
         Start(t, o, k)
  PROVE  CacheInv'
<1> USE CacheAssumption
    DEF CacheInv, UseTypes, WantIsKnown, BufferIsKnown, HeldBufferStays,
        Wanting, Holding, At, Goto, Where, Rest, WaitPoint, bufs, store, Start
<1>1. UseTypes' /\ WantIsKnown' /\ BufferIsKnown' /\ HeldBufferStays'
  OBVIOUS
<1>2. \A b \in Buffer : Holders(b)' = Holders(b)
  BY DEF Holders
<1> QED BY <1>1, <1>2, QuietStep

\* The end of a transfer, read or write, good or bad.
LEMMA TransferKeepsInv ==
  ASSUME CacheInv, NEW b \in Buffer, Transfer(b) PROVE CacheInv'
<1>1. UNCHANGED <<b_block, b_count, pc, op, want, bh, first>>
  BY DEF Transfer, ReadDone, WriteDone, TransferFails, EndRequest, locals
<1>2. UseTypes' /\ WantIsKnown' /\ BufferIsKnown' /\ HeldBufferStays'
  BY <1>1 DEF CacheInv, UseTypes, WantIsKnown, BufferIsKnown, HeldBufferStays,
              Wanting
<1>3. \A c \in Buffer : Holders(c)' = Holders(c)
  BY <1>1 DEF Holders
<1> QED BY <1>1, <1>2, <1>3, QuietStep

\* getblk() finds the block in the cache.
LEMMA GetFoundKeepsInv ==
  ASSUME CacheInv, NEW t \in Task, GetFound(t) PROVE CacheInv'
<1>1. PICK c \in Found(want[t]) :
        /\ b_count' = [b_count EXCEPT ![c] = @ + 1]
        /\ bh' = [bh EXCEPT ![t] = c]
        /\ GotoWait(t, "hash_wait", b_lock[c])
  BY DEF GetFound
<1>2. /\ pc[t] = "get" /\ c \in Buffer
      /\ UNCHANGED <<b_block, op, want, first>>
  BY DEF GetFound, At, Found
<1>3. pc' = [pc EXCEPT ![t] = "hash_wait"]
  BY <1>1 DEF GotoWait
<1>4. /\ t \notin Holders(c)
      /\ \A b \in Buffer :
            /\ Holders(b)' = IF b = c THEN Holders(b) \cup {t} ELSE Holders(b)
            /\ Pinners(b)' = Pinners(b)
  BY <1>1, <1>2, <1>3 DEF CacheInv, UseTypes, Holders, Pinners, Holding
<1>5. CountIsHolders' /\ b_count' \in [Buffer -> Nat]
  BY <1>1, <1>2, <1>4, CountJoins DEF CacheInv
<1>6. UseTypes' /\ WantIsKnown' /\ BufferIsKnown' /\ HeldBufferStays'
  BY <1>1, <1>2, <1>3, <1>5
     DEF CacheInv, UseTypes, WantIsKnown, BufferIsKnown, HeldBufferStays,
         Wanting, Holding, Where, WaitPoint
<1>7. PinnedHasBlock' /\ OneBufferPerBlock'
  BY <1>2 DEF CacheInv, PinnedHasBlock, OneBufferPerBlock
<1> QED BY <1>5, <1>6, <1>7 DEF CacheInv

\* The buffer it has waited for is no longer the right one, or it is.
LEMMA GetHashTableReturnsKeepsInv ==
  ASSUME CacheInv, NEW t \in Task, GetHashTableReturns(t) PROVE CacheInv'
<1> DEFINE c == bh[t]
<1>1. /\ pc[t] = "hash_wait" /\ c \in Buffer
      /\ UNCHANGED <<b_block, op, want, bh, first>>
  BY DEF GetHashTableReturns, AfterWait, At, CacheInv, BufferIsKnown, Wanting,
         Holding, locals
<1>2. CASE b_block[c] = want[t]
  <2>1. b_count' = b_count /\ pc' = [pc EXCEPT ![t] = "got"]
    BY <1>1, <1>2 DEF GetHashTableReturns, Goto
  <2>2. UseTypes' /\ WantIsKnown' /\ BufferIsKnown' /\ HeldBufferStays'
    BY <1>1, <1>2, <2>1 DEF CacheInv, UseTypes, WantIsKnown, BufferIsKnown,
       HeldBufferStays, Wanting, Holding, Where, WaitPoint
  <2>3. \A b \in Buffer : Holders(b)' = Holders(b)
    BY <1>1, <2>1 DEF CacheInv, UseTypes, Holders, Holding
  <2> QED BY <1>1, <2>1, <2>2, <2>3, QuietStep
<1>3. CASE b_block[c] # want[t]
  <2>1. /\ b_count' = [b_count EXCEPT ![c] = @ - 1]
        /\ pc' = [pc EXCEPT ![t] = "get"]
    BY <1>1, <1>3 DEF GetHashTableReturns, Goto
  <2>2. t \in Holders(c)
    BY <1>1 DEF Holders, Holding
  <2>3. \A b \in Buffer :
          Holders(b)' = IF b = c THEN Holders(b) \ {t} ELSE Holders(b)
    BY <1>1, <2>1 DEF CacheInv, UseTypes, Holders, Holding
  <2>4. \A b \in Buffer : Pinners(b)' = Pinners(b)
    BY <1>1 DEF Pinners
  <2>5. CountIsHolders' /\ b_count' \in [Buffer -> Nat]
    BY <1>1, <2>1, <2>2, <2>3, <2>4, CountLeaves DEF CacheInv
  <2>6. UseTypes' /\ WantIsKnown' /\ BufferIsKnown' /\ HeldBufferStays'
    BY <1>1, <2>1, <2>5 DEF CacheInv, UseTypes, WantIsKnown, BufferIsKnown,
       HeldBufferStays, Wanting, Holding, Where, WaitPoint
  <2>7. PinnedHasBlock' /\ OneBufferPerBlock'
    BY <1>1 DEF CacheInv, PinnedHasBlock, OneBufferPerBlock
  <2> QED BY <2>5, <2>6, <2>7 DEF CacheInv
<1> QED BY <1>2, <1>3

\* The claim of a free buffer for a block that is in no buffer: nobody uses the
\* old contents, and nobody has the block.
LEMMA ClaimKeepsInv ==
  ASSUME CacheInv, NEW t \in Task, Claim(t) PROVE CacheInv'
<1> DEFINE c == bh[t]
<1>1. /\ pc[t] = "free_wait" /\ c \in Buffer /\ want[t] \in Block
      /\ b_count[c] = 0 /\ Found(want[t]) = {}
  BY DEF Claim, AfterWait, At, CacheInv, BufferIsKnown, WantIsKnown, Wanting
<1>2. /\ b_count' = [b_count EXCEPT ![c] = 1]
      /\ b_block' = [b_block EXCEPT ![c] = want[t]]
      /\ pc' = [pc EXCEPT ![t] = "got"]
      /\ UNCHANGED <<op, want, bh, first>>
  BY DEF Claim, TakeOver, Goto, locals
<1> HIDE DEF c
<1>3. /\ b_count' = [b_count EXCEPT ![c] = @ + 1]
      /\ want[t] # NULL
  BY <1>1, <1>2, CacheAssumption DEF CacheInv, UseTypes
<1>4. \A u \in Task : u \notin Holders(c) /\ u \notin Pinners(c)
  BY <1>1, HeldIsCounted
<1>5. \A b \in Buffer :
        /\ Holders(b)' = IF b = c THEN Holders(b) \cup {t} ELSE Holders(b)
        /\ Pinners(b)' = Pinners(b)
  BY <1>1, <1>2 DEF CacheInv, UseTypes, Holders, Pinners, Holding, c
<1>6. CountIsHolders' /\ b_count' \in [Buffer -> Nat]
  BY <1>1, <1>3, <1>4, <1>5, CountJoins DEF CacheInv
<1>7. UseTypes' /\ WantIsKnown' /\ BufferIsKnown'
  BY <1>1, <1>2, <1>6 DEF CacheInv, UseTypes, WantIsKnown, BufferIsKnown,
     Wanting, Holding, Where, c
<1>8. HeldBufferStays'
  BY <1>1, <1>2, <1>4 DEF CacheInv, UseTypes, HeldBufferStays, Holders,
     BufferIsKnown, Wanting, Holding, c
<1>9. PinnedHasBlock'
  BY <1>1, <1>2, <1>3 DEF CacheInv, UseTypes, PinnedHasBlock
<1>10. OneBufferPerBlock'
  BY <1>1, <1>2 DEF CacheInv, UseTypes, OneBufferPerBlock, Found
<1> QED BY <1>6, <1>7, <1>8, <1>9, <1>10 DEF CacheInv

\* brelse(); the tasks that sleep for a buffer look again.
LEMMA ReleaseKeepsInv ==
  ASSUME CacheInv, NEW t \in Task, Release(t) PROVE CacheInv'
<1> DEFINE c == bh[t]
<1>1. pc[t] = "rel_wait" /\ c \in Buffer
  BY DEF Release, AfterWait, At, CacheInv, BufferIsKnown, Wanting, Holding
<1>2. /\ b_count' = [b_count EXCEPT ![c] = @ - 1]
      /\ pc' = [u \in Task |-> IF u = t THEN "out"
                               ELSE IF pc[u] = "buffer_wait" THEN "get"
                               ELSE pc[u]]
      /\ op' = [op EXCEPT ![t] = NULL]
      /\ want' = [want EXCEPT ![t] = NULL]
      /\ bh' = [bh EXCEPT ![t] = NULL]
      /\ UNCHANGED <<b_block, first>>
  BY DEF Release
<1> HIDE DEF c
<1>3. t \in Holders(c)
  BY <1>1 DEF Holders, Holding, c
<1>4. \A b \in Buffer :
        /\ Holders(b)' = IF b = c THEN Holders(b) \ {t} ELSE Holders(b)
        /\ Pinners(b)' = Pinners(b)
  BY <1>1, <1>2 DEF CacheInv, UseTypes, Holders, Pinners, Holding, c
<1>5. CountIsHolders' /\ b_count' \in [Buffer -> Nat]
  BY <1>1, <1>2, <1>3, <1>4, CountLeaves DEF CacheInv
<1>6. UseTypes'
  BY <1>2, <1>5 DEF CacheInv, UseTypes, Where, Rest
<1>7. WantIsKnown' /\ BufferIsKnown' /\ HeldBufferStays'
  BY <1>2 DEF CacheInv, UseTypes, WantIsKnown, BufferIsKnown, HeldBufferStays,
     Wanting, Holding
<1>8. PinnedHasBlock' /\ OneBufferPerBlock'
  BY <1>2 DEF CacheInv, PinnedHasBlock, OneBufferPerBlock
<1> QED BY <1>5, <1>6, <1>7, <1>8 DEF CacheInv

\* breada() keeps its first buffer while it looks for the next one.
LEMMA BreadaFirstKeepsInv ==
  ASSUME CacheInv, NEW t \in Task, NEW k \in Block, BreadaFirst(t, k)
  PROVE  CacheInv'
<1> DEFINE c == bh[t]
<1>1. /\ pc[t] = "got" /\ c \in Buffer /\ first[t] = NULL
      /\ b_block[c] = want[t] /\ want[t] \in Block
  BY DEF BreadaFirst, At, CacheInv, BufferIsKnown, WantIsKnown,
     HeldBufferStays, Wanting, Holding
<1>2. /\ first' = [first EXCEPT ![t] = c]
      /\ want' = [want EXCEPT ![t] = k]
      /\ pc' = [pc EXCEPT ![t] = "get"]
      /\ UNCHANGED <<b_block, b_count, op, bh>>
  BY DEF BreadaFirst, Goto
<1> HIDE DEF c
<1>3. /\ \A b \in Buffer :
            /\ Holders(b)' = IF b = c THEN Holders(b) \ {t} ELSE Holders(b)
            /\ Pinners(b)' = IF b = c THEN Pinners(b) \cup {t} ELSE Pinners(b)
      /\ t \in Holders(c) /\ t \notin Pinners(c)
  BY <1>1, <1>2, CacheAssumption
     DEF CacheInv, UseTypes, Holders, Pinners, Holding, Buffer, c
<1>4. /\ Holders(c) \in SUBSET Task /\ Pinners(c) \in SUBSET Task
      /\ Cardinality(Holders(c)) \in Nat /\ Cardinality(Pinners(c)) \in Nat
  BY TaskSet DEF Holders, Pinners
<1>5. /\ Cardinality(Holders(c) \ {t}) = Cardinality(Holders(c)) - 1
      /\ Cardinality(Pinners(c) \cup {t}) = Cardinality(Pinners(c)) + 1
  BY <1>3, <1>4, OneLess, OneMore
<1>6. CountIsHolders'
  <2> SUFFICES ASSUME NEW b \in Buffer
               PROVE  b_count[b] = Cardinality(Holders(b)')
                                     + Cardinality(Pinners(b)')
    BY <1>2 DEF CountIsHolders
  <2>1. b_count[b] = Cardinality(Holders(b)) + Cardinality(Pinners(b))
    BY DEF CacheInv, CountIsHolders
  <2>2. CASE b = c
    <3>1. Holders(b)' = Holders(c) \ {t} /\ Pinners(b)' = Pinners(c) \cup {t}
      BY <1>3, <2>2
    <3> QED BY <1>4, <1>5, <2>1, <2>2, <3>1
  <2>3. CASE b # c
    BY <1>3, <2>1, <2>3
  <2> QED BY <2>2, <2>3
<1>7. UseTypes' /\ WantIsKnown' /\ BufferIsKnown' /\ HeldBufferStays'
  BY <1>1, <1>2 DEF CacheInv, UseTypes, WantIsKnown, BufferIsKnown,
     HeldBufferStays, Wanting, Holding, Where
<1>8. PinnedHasBlock'
  BY <1>1, <1>2, CacheAssumption DEF CacheInv, UseTypes, PinnedHasBlock
<1>9. OneBufferPerBlock'
  BY <1>2 DEF CacheInv, OneBufferPerBlock
<1> QED BY <1>6, <1>7, <1>8, <1>9 DEF CacheInv

\* breada() gives the block ahead back and returns to its first buffer.
LEMMA BreadaAheadKeepsInv ==
  ASSUME CacheInv, NEW t \in Task, BreadaAhead(t) PROVE CacheInv'
<1> DEFINE c == bh[t]
           p == first[t]
<1>1. /\ pc[t] = "got" /\ c \in Buffer
      /\ p \in Buffer /\ b_block[p] \in Block
  BY DEF BreadaAhead, At, CacheInv, UseTypes, BufferIsKnown, PinnedHasBlock,
     Wanting, Holding
<1>2. /\ b_count' = [b_count EXCEPT ![c] = @ - 1]
      /\ bh' = [bh EXCEPT ![t] = p]
      /\ first' = [first EXCEPT ![t] = NULL]
      /\ want' = [want EXCEPT ![t] = b_block[p]]
      /\ pc' = [pc EXCEPT ![t] = "read_wait"]
      /\ UNCHANGED <<b_block, op>>
  BY DEF BreadaAhead, GotoWait
<1>3. t \in Holders(c) /\ t \in Pinners(p) /\ (c # p => t \notin Holders(p))
  BY <1>1 DEF Holders, Pinners, Holding
<1>4. \A b \in Buffer :
        /\ Holders(b)' = IF b = p THEN Holders(b) \cup {t} ELSE Holders(b) \ {t}
        /\ Pinners(b)' = IF b = p THEN Pinners(b) \ {t} ELSE Pinners(b)
  BY <1>1, <1>2, CacheAssumption
     DEF CacheInv, UseTypes, Holders, Pinners, Holding, Buffer
<1> HIDE DEF c, p
<1>5. \A b \in Buffer :
        /\ Holders(b) \in SUBSET Task /\ Pinners(b) \in SUBSET Task
        /\ Cardinality(Holders(b)) \in Nat /\ Cardinality(Pinners(b)) \in Nat
  BY TaskSet DEF Holders, Pinners
<1>6. /\ Cardinality(Holders(c) \ {t}) = Cardinality(Holders(c)) - 1
      /\ Cardinality(Pinners(p) \ {t}) = Cardinality(Pinners(p)) - 1
      /\ Cardinality(Holders(c)) > 0 /\ Cardinality(Pinners(p)) > 0
      /\ c # p => Cardinality(Holders(p) \cup {t}) = Cardinality(Holders(p)) + 1
  BY <1>1, <1>3, <1>5, OneLess, OneMore
<1>7. /\ \A b \in Buffer :
            b_count[b] = Cardinality(Holders(b)) + Cardinality(Pinners(b))
      /\ b_count'[c] = b_count[c] - 1
      /\ \A b \in Buffer : b # c => b_count'[b] = b_count[b]
  BY <1>1, <1>2 DEF CacheInv, UseTypes, CountIsHolders
<1>8. b_count' \in [Buffer -> Nat]
  <2>1. b_count[c] - 1 \in Nat
    BY <1>1, <1>5, <1>6, <1>7
  <2> QED BY <1>2, <2>1 DEF CacheInv, UseTypes
<1>9. ASSUME NEW b \in Buffer
      PROVE  b_count'[b] = Cardinality(Holders(b)') + Cardinality(Pinners(b)')
  <2>1. CASE b = c /\ c = p
    <3>1. Holders(b)' = Holders(p) /\ Pinners(b)' = Pinners(p) \ {t}
      BY <1>3, <1>4, <2>1
    <3>2. /\ b_count'[b] = b_count[p] - 1
          /\ b_count[p] = Cardinality(Holders(p)) + Cardinality(Pinners(p))
      BY <1>1, <1>7, <2>1
    <3>3. Cardinality(Holders(p)) \in Nat /\ Cardinality(Pinners(p)) \in Nat
      BY <1>1, <1>5
    <3> QED BY <1>6, <3>1, <3>2, <3>3
  <2>2. CASE b = c /\ c # p
    <3>1. Holders(b)' = Holders(c) \ {t} /\ Pinners(b)' = Pinners(b)
      BY <1>4, <2>2
    <3> QED BY <1>5, <1>6, <1>7, <2>2, <3>1
  <2>3. CASE b # c /\ b = p
    <3>1. Holders(b)' = Holders(p) \cup {t} /\ Pinners(b)' = Pinners(p) \ {t}
      BY <1>4, <2>3
    <3> QED BY <1>5, <1>6, <1>7, <2>3, <3>1
  <2>4. CASE b # c /\ b # p
    <3>1. t \notin Holders(b)
      BY <2>4 DEF Holders, c
    <3>2. Holders(b)' = Holders(b) /\ Pinners(b)' = Pinners(b)
      BY <1>4, <2>4, <3>1
    <3> QED BY <1>7, <2>4, <3>2
  <2> QED BY <2>1, <2>2, <2>3, <2>4
<1>10. CountIsHolders'
  BY <1>9 DEF CountIsHolders
<1>11. UseTypes' /\ WantIsKnown' /\ BufferIsKnown' /\ HeldBufferStays'
  BY <1>1, <1>2, <1>8 DEF CacheInv, UseTypes, WantIsKnown, BufferIsKnown,
     HeldBufferStays, Wanting, Holding, Where, WaitPoint
<1>12. PinnedHasBlock' /\ OneBufferPerBlock'
  BY <1>1, <1>2 DEF CacheInv, UseTypes, PinnedHasBlock, OneBufferPerBlock
<1> QED BY <1>10, <1>11, <1>12 DEF CacheInv

-----------------------------------------------------------------------------
\* The invariant at the start: all buffers are free.
LEMMA CacheInvInit == ASSUME Init PROVE CacheInv
<1>1. UseTypes
  BY DEF Init, UseTypes, Where, Rest
<1>2. \A b \in Buffer : Holders(b) = {} /\ Pinners(b) = {}
  BY CacheAssumption DEF Init, Holders, Pinners, Holding, Buffer
<1>3. CountIsHolders
  BY <1>2, FS_EmptySet DEF Init, CountIsHolders
<1>4. /\ WantIsKnown /\ BufferIsKnown /\ PinnedHasBlock
      /\ OneBufferPerBlock /\ HeldBufferStays
  BY DEF Init, WantIsKnown, BufferIsKnown, PinnedHasBlock, OneBufferPerBlock,
     HeldBufferStays, Wanting, Holding
<1> QED BY <1>1, <1>3, <1>4 DEF CacheInv

\* The invariant is kept by every step.
LEMMA CacheInvStep == ASSUME CacheInv, [Next]_vars PROVE CacheInv'
<1>1. CASE UNCHANGED vars
  <2>1. UNCHANGED <<b_block, b_count, pc, op, want, bh, first>>
    BY <1>1 DEF vars, bufs, locals
  <2> QED BY <2>1 DEF CacheInv, UseTypes, WantIsKnown, BufferIsKnown,
             PinnedHasBlock, OneBufferPerBlock, CountIsHolders,
             HeldBufferStays, Wanting, Holders, Pinners
<1>2. ASSUME NEW t \in Task, GetStep(t) \/ SyncStep(t) PROVE CacheInv'
  BY <1>2, SearchKeepsInv, GetFoundKeepsInv, GetHashTableReturnsKeepsInv,
     ClaimKeepsInv DEF GetStep
<1>3. ASSUME NEW t \in Task, UseStep(t) PROVE CacheInv'
  BY <1>3, UseKeepsInv, BreadaFirstKeepsInv, BreadaAheadKeepsInv,
     ReleaseKeepsInv DEF UseStep
<1>4. ASSUME NEW t \in Task, \E o \in Ops, k \in Block : Start(t, o, k)
      PROVE  CacheInv'
  BY <1>4, StartKeepsInv
<1>5. ASSUME NEW b \in Buffer, Transfer(b) PROVE CacheInv'
  BY <1>5, TransferKeepsInv
<1> QED BY <1>1, <1>2, <1>3, <1>4, <1>5 DEF Next, TaskStep

\* However many tasks look for a block at once, sleep in between and claim a
\* buffer for it, the block is in at most one buffer.
THEOREM BlocksAreUnique == Spec => []OneBufferPerBlock
<1>1. Init => CacheInv
  BY CacheInvInit
<1>2. CacheInv /\ [Next]_vars => CacheInv'
  BY CacheInvStep
<1>3. CacheInv => OneBufferPerBlock
  BY DEF CacheInv
<1> QED BY <1>1, <1>2, <1>3, PTL DEF Spec

\* b_count is exactly the number of users of the buffer: none is forgotten,
\* and no brelse() finds a buffer that is free.
THEOREM CountsAreExact == Spec => []CountIsHolders
<1>1. Init => CacheInv
  BY CacheInvInit
<1>2. CacheInv /\ [Next]_vars => CacheInv'
  BY CacheInvStep
<1>3. CacheInv => CountIsHolders
  BY DEF CacheInv
<1> QED BY <1>1, <1>2, <1>3, PTL DEF Spec

\* What getblk() returns stays the buffer of its block until brelse().
THEOREM BuffersStay == Spec => []HeldBufferStays
<1>1. Init => CacheInv
  BY CacheInvInit
<1>2. CacheInv /\ [Next]_vars => CacheInv'
  BY CacheInvStep
<1>3. CacheInv => HeldBufferStays
  BY DEF CacheInv
<1> QED BY <1>1, <1>2, <1>3, PTL DEF Spec

\* A task uses a buffer at most twice, as the first and the second one of
\* breada().
CountFits == \A b \in Buffer : b_count[b] <= 2 * Cardinality(Task)

\* b_count is an unsigned char (struct buffer_head): with the 64 tasks of the
\* kernel it cannot wrap around.
THEOREM CountsFit == Spec => []CountFits
<1>1. Init => CacheInv
  BY CacheInvInit
<1>2. CacheInv /\ [Next]_vars => CacheInv'
  BY CacheInvStep
<1>3. CacheInv => CountFits
  <2> SUFFICES ASSUME CacheInv, NEW b \in Buffer
               PROVE  b_count[b] <= 2 * Cardinality(Task)
    BY DEF CountFits
  <2>1. Holders(b) \in SUBSET Task /\ Pinners(b) \in SUBSET Task
    BY DEF Holders, Pinners
  <2>2. /\ Cardinality(Holders(b)) <= Cardinality(Task)
        /\ Cardinality(Pinners(b)) <= Cardinality(Task)
    BY <2>1, FinitelyManyTasks, FS_Subset
  <2>3. /\ Cardinality(Holders(b)) \in Nat
        /\ Cardinality(Pinners(b)) \in Nat
        /\ Cardinality(Task) \in Nat
    BY <2>1, TaskSet
  <2>4. b_count[b] = Cardinality(Holders(b)) + Cardinality(Pinners(b))
    BY DEF CacheInv, CountIsHolders
  <2> QED BY <2>2, <2>3, <2>4
<1> QED BY <1>1, <1>2, <1>3, PTL DEF Spec
-----------------------------------------------------------------------------
(***************************************************************************)
(* The contents.  file_write() copies after it has set b_dirt, and         *)
(* block_write() fills a buffer that is not marked valid: with either of   *)
(* them, or with failing writes, updates are lost (CacheBlockWrite.cfg,    *)
(* CacheCopy.cfg and CacheWriteError.cfg show how).  Without them none is. *)
(***************************************************************************)
DataTypes ==
    /\ b_lock \in [Buffer -> BOOLEAN]
    /\ b_dirt \in [Buffer -> BOOLEAN]
    /\ b_uptodate \in [Buffer -> BOOLEAN]
    /\ b_data \in [Buffer -> Data]
    /\ io \in [Buffer -> [cmd : {"NONE", "READ", "WRITE"}, data : Data]]
    /\ disk \in [Block -> Data]
    /\ latest \in [Block -> Data]

\* Who comes from getblk() to bread() has had no sleep since the buffer was
\* unlocked; who uses a buffer has seen it valid.
UsersSeeValid ==
    \A t \in Task :
        /\ op[t] \in Ops \cup {NULL} /\ pc[t] # "copy"
        /\ pc[t] = "got" => running = t /\ ~b_lock[bh[t]]
        /\ pc[t] = "use" => b_uptodate[bh[t]]

\* A request is that of a locked buffer of some block: a read of an invalid
\* one or a write of a valid one.  No invalid buffer is dirty.
RequestFits(b) ==
    /\ b_lock[b] <=> io[b].cmd # "NONE"
    /\ io[b].cmd = "READ" => ~b_uptodate[b]
    /\ io[b].cmd = "WRITE" => b_uptodate[b]
    /\ b_dirt[b] => b_uptodate[b]
    /\ io[b].cmd # "NONE" \/ b_dirt[b] => b_block[b] # NULL

\* Where the last contents of the buffer's block are.
LatestIsSafe(b) ==
    LET k == b_block[b] IN
    k # NULL =>
        /\ b_uptodate[b] => b_data[b] = latest[k]
        /\ ~b_uptodate[b] => disk[k] = latest[k]
        /\ b_uptodate[b] /\ ~b_dirt[b] =>
              IF io[b].cmd = "WRITE" THEN io[b].data = b_data[b]
              ELSE disk[k] = b_data[b]

UncachedIsOnDisk == \A k \in Block : Found(k) = {} => disk[k] = latest[k]

DataInv ==
    /\ DataTypes
    /\ UsersSeeValid
    /\ \A b \in Buffer : RequestFits(b) /\ LatestIsSafe(b)
    /\ UncachedIsOnDisk

\* The contents at the start: no buffer is in use, nothing has been written.
LEMMA DataInvInit == ASSUME Init PROVE DataInv
<1>1. 0 \in Data
  BY CacheAssumption DEF Data
<1>2. DataTypes
  BY <1>1 DEF Init, DataTypes, NoIo
<1>3. UsersSeeValid
  BY DEF Init, UsersSeeValid
<1>4. \A b \in Buffer : RequestFits(b) /\ LatestIsSafe(b)
  BY DEF Init, RequestFits, LatestIsSafe, NoIo
<1>5. UncachedIsOnDisk
  BY DEF Init, UncachedIsOnDisk
<1> QED BY <1>2, <1>3, <1>4, <1>5 DEF DataInv

\* A step of t that touches no contents.
LEMMA LookKeepsData ==
  ASSUME DataInv, NEW t \in Task, pc \in [Task -> Where], running \in {NULL, t},
         UNCHANGED <<b_block, b_lock, b_dirt, b_uptodate, b_data, store>>,
         \A u \in Task \ {t} :
            /\ pc'[u] = pc[u] \/ pc'[u] = "get"
            /\ op'[u] = op[u] /\ bh'[u] = bh[u],
         op'[t] \in Ops \cup {NULL}, pc'[t] # "copy",
         pc'[t] = "got" => running' = t /\ ~b_lock[bh'[t]],
         pc'[t] = "use" => b_uptodate[bh'[t]]
  PROVE  DataInv'
<1>1. DataTypes' /\ UncachedIsOnDisk'
  BY DEF DataInv, DataTypes, UncachedIsOnDisk, Found, store
<1>2. \A b \in Buffer : RequestFits(b)' /\ LatestIsSafe(b)'
  BY DEF DataInv, RequestFits, LatestIsSafe, store
<1>3. UsersSeeValid'
  <2> SUFFICES ASSUME NEW u \in Task
               PROVE  /\ op'[u] \in Ops \cup {NULL} /\ pc'[u] # "copy"
                      /\ pc'[u] = "got" => running' = u /\ ~b_lock'[bh'[u]]
                      /\ pc'[u] = "use" => b_uptodate'[bh'[u]]
    BY DEF UsersSeeValid
  <2>1. CASE u = t
    BY <2>1
  <2>2. CASE u # t
    <3>1. pc[u] # "got"
      BY <2>2, CacheAssumption DEF DataInv, UsersSeeValid
    <3> QED BY <2>2, <3>1 DEF DataInv, UsersSeeValid
  <2> QED BY <2>1, <2>2
<1> QED BY <1>1, <1>2, <1>3 DEF DataInv

\* Searches, scans, waits and releases.
LEMMA SearchKeepsData ==
  ASSUME CacheInv, DataInv, NEW t \in Task,
         \/ GetFound(t) \/ GetHashTableReturns(t) \/ GetCandidate(t)
         \/ GetSleeps(t) \/ CandidateTaken(t) \/ CandidateDirty(t)
         \/ CandidateNotNeeded(t) \/ SyncScan(t) \/ SyncEnd(t)
         \/ BreadReturns(t) \/ ReadOver(t) \/ Release(t)
         \/ (\E o \in Ops, k \in Block : Start(t, o, k))
  PROVE  DataInv'
<1>1. /\ pc \in [Task -> Where] /\ op \in [Task -> AllOps \cup {NULL}]
      /\ bh \in [Task -> Buffer \cup {NULL}]
      /\ op[t] \in Ops \cup {NULL} /\ pc[t] # "copy"
  BY DEF CacheInv, UseTypes, DataInv, UsersSeeValid
<1>2. /\ running \in {NULL, t}
      /\ UNCHANGED <<b_block, b_lock, b_dirt, b_uptodate, b_data, store>>
  BY DEF GetFound, GetHashTableReturns, GetCandidate, GetSleeps,
     CandidateTaken, CandidateDirty, CandidateNotNeeded, SyncScan, SyncEnd,
     BreadReturns, ReadOver, Release, Start, At, AfterWait, GetAgain, bufs
<1> USE DEF At, AfterWait, GetAgain, Goto, GotoWait, Rest, locals
<1>3. CASE GetFound(t)
  BY <1>1, <1>2, <1>3, LookKeepsData DEF GetFound
<1>4. CASE GetHashTableReturns(t)
  BY <1>1, <1>2, <1>4, LookKeepsData DEF GetHashTableReturns
<1>5. CASE GetCandidate(t) \/ GetSleeps(t) \/ SyncScan(t)
  BY <1>1, <1>2, <1>5, LookKeepsData DEF GetCandidate, GetSleeps, SyncScan
<1>6. CASE CandidateTaken(t) \/ CandidateDirty(t) \/ CandidateNotNeeded(t)
  BY <1>1, <1>2, <1>6, LookKeepsData
     DEF CandidateTaken, CandidateDirty, CandidateNotNeeded
<1>7. CASE SyncEnd(t)
  BY <1>1, <1>2, <1>7, LookKeepsData DEF SyncEnd
<1>8. CASE BreadReturns(t) \/ ReadOver(t)
  BY <1>1, <1>2, <1>8, LookKeepsData DEF BreadReturns, ReadOver
<1>9. CASE Release(t)
  BY <1>1, <1>2, <1>9, LookKeepsData DEF Release
<1>10. CASE \E o \in Ops, k \in Block : Start(t, o, k)
  <2>1. PICK o \in Ops, k \in Block : Start(t, o, k)
    BY <1>10
  <2> QED BY <1>1, <1>2, <2>1, LookKeepsData DEF Start
<1> QED BY <1>3, <1>4, <1>5, <1>6, <1>7, <1>8, <1>9, <1>10

\* A step that touches the contents of buffer b and of its block only.
LEMMA OneBufferMoves ==
  ASSUME CacheInv, DataInv, NEW b \in Buffer, b_block' = b_block,
         \A c \in Buffer \ {b} :
            /\ b_lock'[c] = b_lock[c] /\ b_dirt'[c] = b_dirt[c]
            /\ b_uptodate'[c] = b_uptodate[c] /\ b_data'[c] = b_data[c]
            /\ io'[c] = io[c],
         \A k \in Block \ {b_block[b]} :
            disk'[k] = disk[k] /\ latest'[k] = latest[k],
         DataTypes', UsersSeeValid', RequestFits(b)', LatestIsSafe(b)'
  PROVE  DataInv'
<1>1. \A c \in Buffer : RequestFits(c)'
  BY DEF DataInv, RequestFits
<1>2. ASSUME NEW c \in Buffer, c # b PROVE LatestIsSafe(c)'
  <2>1. LatestIsSafe(c)
    BY DEF DataInv
  <2>2. b_block[c] # NULL => b_block[c] \in Block \ {b_block[b]}
    BY <1>2 DEF CacheInv, UseTypes, OneBufferPerBlock
  <2> QED BY <1>2, <2>1, <2>2 DEF LatestIsSafe
<1>3. UncachedIsOnDisk'
  <2> SUFFICES ASSUME NEW k \in Block, Found(k)' = {} PROVE disk'[k] = latest'[k]
    BY DEF UncachedIsOnDisk
  <2>1. Found(k) = {} /\ k # b_block[b]
    BY DEF Found
  <2> QED BY <2>1 DEF DataInv, UncachedIsOnDisk
<1> QED BY <1>1, <1>2, <1>3 DEF DataInv

\* A task that uses a buffer has one.
LEMMA UserHasBuffer ==
  ASSUME CacheInv, NEW t \in Task, pc[t] \in Holding
  PROVE  bh[t] \in Buffer /\ want[t] \in Block
  BY DEF CacheInv, WantIsKnown, BufferIsKnown, Wanting, Holding

\* The users stay where they are, as a step of t makes no buffer invalid.
LEMMA UsersStay ==
  ASSUME CacheInv, DataInv, NEW t \in Task, running \in {NULL, t},
         \A b \in Buffer : b_uptodate[b] => b_uptodate'[b],
         \A u \in Task \ {t} :
            pc'[u] = pc[u] /\ op'[u] = op[u] /\ bh'[u] = bh[u],
         op'[t] \in Ops \cup {NULL}, pc'[t] \notin {"copy", "got"},
         pc'[t] = "use" => b_uptodate'[bh'[t]]
  PROVE  UsersSeeValid'
<1> SUFFICES ASSUME NEW u \in Task
             PROVE  /\ op'[u] \in Ops \cup {NULL} /\ pc'[u] # "copy"
                    /\ pc'[u] = "got" => running' = u /\ ~b_lock'[bh'[u]]
                    /\ pc'[u] = "use" => b_uptodate'[bh'[u]]
  BY DEF UsersSeeValid
<1>1. CASE u = t
  BY <1>1
<1>2. CASE u # t
  <2>1. pc[u] # "got"
    BY <1>2, CacheAssumption DEF DataInv, UsersSeeValid
  <2>2. pc[u] = "use" => bh[u] \in Buffer
    BY UserHasBuffer DEF Holding
  <2> QED BY <1>2, <2>1, <2>2 DEF DataInv, UsersSeeValid
<1> QED BY <1>1, <1>2

\* ll_rw_block() of a buffer that is not locked: the read of an invalid one,
\* or the write of a dirty one.
LEMMA RequestKeepsData ==
  ASSUME CacheInv, DataInv, NEW b \in Buffer, NEW cmd \in {"READ", "WRITE"},
         ~b_lock[b], b_block[b] # NULL, Needed(cmd, b), ll_rw_block(cmd, b),
         UNCHANGED <<b_block, b_uptodate, b_data, disk, latest>>,
         UsersSeeValid'
  PROVE  DataInv'
<1>1. /\ b_lock' = [b_lock EXCEPT ![b] = TRUE]
      /\ b_dirt' = [b_dirt EXCEPT ![b] = FALSE]
      /\ io' = [io EXCEPT ![b] = [cmd |-> cmd, data |-> b_data[b]]]
  BY DEF ll_rw_block
<1>2. /\ b_lock \in [Buffer -> BOOLEAN] /\ b_dirt \in [Buffer -> BOOLEAN]
      /\ io \in [Buffer -> [cmd : {"NONE", "READ", "WRITE"}, data : Data]]
      /\ b_data[b] \in Data
  BY DEF DataInv, DataTypes
<1>3. DataTypes'
  BY <1>1, <1>2 DEF DataInv, DataTypes
<1>4. io'[b].cmd = cmd /\ io'[b].data = b_data[b] /\ ~b_dirt'[b] /\ b_lock'[b]
  BY <1>1, <1>2
<1>5. RequestFits(b) /\ LatestIsSafe(b)
  BY DEF DataInv
<1>6. RequestFits(b)'
  BY <1>4, <1>5 DEF RequestFits, Needed
<1>7. LatestIsSafe(b)'
  BY <1>4, <1>5 DEF LatestIsSafe, Needed, RequestFits
<1> QED BY <1>1, <1>2, <1>3, <1>6, <1>7, OneBufferMoves

\* The index of a scan is a number.
ScanTypes == idx \in [Task -> Nat]

\* The index is kept by every step.
LEMMA ScanTypesStep == ASSUME ScanTypes, [Next]_vars PROVE ScanTypes'
<1>1. ASSUME UNCHANGED idx PROVE ScanTypes'
  BY <1>1 DEF ScanTypes
<1>2. CASE UNCHANGED vars
  BY <1>1, <1>2 DEF vars, locals
<1>3. ASSUME NEW t \in Task, GetStep(t) PROVE ScanTypes'
  <2>1. CASE CandidateDirty(t)
    BY <2>1 DEF CandidateDirty, ScanTypes
  <2>2. CASE ~CandidateDirty(t)
    BY <1>1, <1>3, <2>2 DEF GetStep, GetFound, GetHashTableReturns,
       GetCandidate, GetSleeps, CandidateTaken, CandidateNotNeeded, GetAgain,
       Claim, TakeOver, locals
  <2> QED BY <2>1, <2>2
<1>4. ASSUME NEW t \in Task, SyncStep(t) PROVE ScanTypes'
  <2>1. NextIndex(t) \in [Task -> Nat]
    BY DEF ScanTypes, NextIndex
  <2> QED BY <1>1, <1>4, <2>1
          DEF SyncStep, SyncScan, SyncWrite, SyncEnd, ScanTypes
<1>5. ASSUME NEW t \in Task, UseStep(t) PROVE ScanTypes'
  BY <1>1, <1>5 DEF UseStep, BreadGot, BreadReturns, BreadaFirst, BreadaAhead,
     Modify, CopyBegins, CopyEnds, ReadOver, Release, locals
<1>6. ASSUME NEW t \in Task, NEW o \in Ops, NEW k \in Block, Start(t, o, k)
      PROVE  ScanTypes'
  <2>1. NR_BUFFERS + 1 \in Nat
    BY CacheAssumption
  <2> QED BY <1>6, <2>1 DEF Start, ScanTypes
<1>7. ASSUME NEW b \in Buffer, Transfer(b) PROVE ScanTypes'
  BY <1>1, <1>7 DEF Transfer, ReadDone, WriteDone, TransferFails, EndRequest,
     locals
<1> QED BY <1>2, <1>3, <1>4, <1>5, <1>6, <1>7 DEF Next, TaskStep

\* sync_dev() writes a dirty buffer out.
LEMMA SyncWriteKeepsData ==
  ASSUME CacheInv, DataInv, ScanTypes, NEW t \in Task, SyncWrite(t)
  PROVE  DataInv'
<1>1. PICK b : b = ScannedBuffer(t)
  OBVIOUS
<1>2. /\ pc[t] = "sync_wait" /\ running \in {NULL, t} /\ ~b_lock[b]
      /\ pc' = [pc EXCEPT ![t] = "sync"]
      /\ UNCHANGED <<b_block, b_uptodate, b_data, disk, latest, op, bh>>
      /\ IF b_dirt[b] THEN ll_rw_block("WRITE", b) ELSE NoTransfer
  BY <1>1 DEF SyncWrite, At, Goto
<1>3. /\ pc \in [Task -> Where] /\ op[t] \in Ops \cup {NULL}
  BY DEF CacheInv, UseTypes, DataInv, UsersSeeValid
<1>4. CASE ~b_dirt[b]
  BY <1>2, <1>3, <1>4, LookKeepsData DEF NoTransfer, store
<1>5. CASE b_dirt[b]
  <2>1. UsersSeeValid'
    BY <1>2, <1>3, UsersStay
  <2>2. b \in Buffer
    BY <1>1, CacheAssumption DEF ScannedBuffer, ScanTypes, Buffer
  <2>3. b_block[b] # NULL
    BY <1>5, <2>2 DEF DataInv, RequestFits
  <2> QED BY <1>2, <1>5, <2>1, <2>2, <2>3, RequestKeepsData DEF Needed
<1> QED BY <1>4, <1>5

\* bread() after getblk().
LEMMA BreadGotKeepsData ==
  ASSUME CacheInv, DataInv, NEW t \in Task, BreadGot(t),
         "block_write" \notin Ops
  PROVE  DataInv'
<1>1. /\ pc[t] = "got" /\ running \in {NULL, t} /\ pc \in [Task -> Where]
      /\ op[t] \in Ops \cup {NULL} /\ ~b_lock[bh[t]]
      /\ UNCHANGED <<b_block, b_uptodate, b_data, disk, latest, op, bh>>
  BY DEF BreadGot, At, CacheInv, UseTypes, DataInv, UsersSeeValid, locals
<1>2. /\ bh[t] \in Buffer /\ b_block[bh[t]] # NULL
  BY <1>1, UserHasBuffer, CacheAssumption DEF CacheInv, HeldBufferStays, Holding
<1>3. op[t] # "block_write"
  BY <1>1, CacheAssumption, "block_write" \notin Ops DEF AllOps
<1>4. CASE b_uptodate[bh[t]]
  <2>1. NoTransfer /\ pc' = [pc EXCEPT ![t] = "use"]
    BY <1>4 DEF BreadGot, Goto
  <2> QED BY <1>1, <1>4, <2>1, LookKeepsData DEF NoTransfer, store
<1>5. CASE ~b_uptodate[bh[t]]
  <2>1. ll_rw_block("READ", bh[t]) /\ pc' = [pc EXCEPT ![t] = "read_wait"]
    BY <1>3, <1>5 DEF BreadGot, GotoWait
  <2>2. UsersSeeValid'
    BY <1>1, <2>1, UsersStay
  <2> QED BY <1>1, <1>2, <1>5, <2>1, <2>2, RequestKeepsData DEF Needed
<1> QED BY <1>4, <1>5

\* breada() asks for its first block.
LEMMA BreadaFirstKeepsData ==
  ASSUME CacheInv, DataInv, NEW t \in Task, NEW k \in Block, BreadaFirst(t, k)
  PROVE  DataInv'
<1>1. /\ pc[t] = "got" /\ running \in {NULL, t} /\ pc \in [Task -> Where]
      /\ op[t] \in Ops \cup {NULL} /\ ~b_lock[bh[t]]
      /\ pc' = [pc EXCEPT ![t] = "get"]
      /\ UNCHANGED <<b_block, b_uptodate, b_data, disk, latest, op, bh>>
  BY DEF BreadaFirst, At, Goto, CacheInv, UseTypes, DataInv, UsersSeeValid
<1>2. /\ bh[t] \in Buffer /\ b_block[bh[t]] # NULL
  BY <1>1, UserHasBuffer, CacheAssumption DEF CacheInv, HeldBufferStays, Holding
<1>3. CASE b_uptodate[bh[t]]
  <2>1. NoTransfer
    BY <1>3 DEF BreadaFirst
  <2> QED BY <1>1, <2>1, LookKeepsData DEF NoTransfer, store
<1>4. CASE ~b_uptodate[bh[t]]
  <2>1. ll_rw_block("READ", bh[t])
    BY <1>4 DEF BreadaFirst
  <2>2. UsersSeeValid'
    BY <1>1, UsersStay
  <2> QED BY <1>1, <1>2, <1>4, <2>1, <2>2, RequestKeepsData DEF Needed
<1> QED BY <1>3, <1>4

\* breada() asks for the first block again and gives the second one back.
LEMMA BreadaAheadKeepsData ==
  ASSUME CacheInv, DataInv, NEW t \in Task, BreadaAhead(t)
  PROVE  DataInv'
<1>1. PICK p : p = first[t]
  OBVIOUS
<1>2. /\ pc[t] = "got" /\ running \in {NULL, t} /\ pc \in [Task -> Where]
      /\ op[t] \in Ops \cup {NULL} /\ bh \in [Task -> Buffer \cup {NULL}]
      /\ p \in Buffer /\ b_block[p] # NULL
      /\ pc' = [pc EXCEPT ![t] = "read_wait"] /\ bh' = [bh EXCEPT ![t] = p]
      /\ UNCHANGED <<b_block, b_uptodate, b_data, disk, latest, op>>
  BY <1>1 DEF BreadaAhead, At, GotoWait, CacheInv, UseTypes, PinnedHasBlock,
     DataInv, UsersSeeValid
<1>3. \/ NoTransfer
      \/ /\ ~b_lock[p] /\ Needed("READ", p) /\ ll_rw_block("READ", p)
  BY <1>1 DEF BreadaAhead
<1>4. CASE NoTransfer
  BY <1>2, <1>4, LookKeepsData DEF NoTransfer, store
<1>5. CASE ~b_lock[p] /\ Needed("READ", p) /\ ll_rw_block("READ", p)
  <2>1. UsersSeeValid'
    BY <1>2, UsersStay
  <2> QED BY <1>2, <1>5, <2>1, RequestKeepsData
<1> QED BY <1>3, <1>4, <1>5

\* A task changes the buffer it uses, which is valid: it becomes dirty, also
\* when it is just being written.
LEMMA ModifyKeepsData ==
  ASSUME CacheInv, DataInv, NEW t \in Task, Modify(t) PROVE DataInv'
<1>1. PICK b : b = bh[t]
  OBVIOUS
<1>2. PICK d : d = NewContents(want[t])
  OBVIOUS
<1>3. /\ pc[t] = "use" /\ running \in {NULL, t} /\ pc \in [Task -> Where]
      /\ op[t] \in Ops \cup {NULL} /\ b_uptodate[b]
      /\ pc' = [pc EXCEPT ![t] = "rel_wait"]
      /\ b_data' = [b_data EXCEPT ![b] = d]
      /\ latest' = [latest EXCEPT ![want[t]] = d]
      /\ b_dirt' = [b_dirt EXCEPT ![b] = TRUE]
      /\ UNCHANGED <<b_block, b_lock, b_uptodate, io, disk, op, bh>>
  BY <1>1, <1>2 DEF Modify, SetData, At, GotoWait, CacheInv, UseTypes, DataInv,
     UsersSeeValid, locals
<1>4. b \in Buffer /\ want[t] \in Block /\ b_block[b] = want[t]
  BY <1>1, <1>3, UserHasBuffer DEF CacheInv, HeldBufferStays, Holding
<1>5. d \in Data
  <2>1. latest[want[t]] \in Nat
    BY <1>4 DEF DataInv, DataTypes, Data
  <2> QED BY <1>2, <2>1, CacheAssumption DEF NewContents, Data
<1>6. DataTypes'
  BY <1>3, <1>5 DEF DataInv, DataTypes
<1>7. UsersSeeValid'
  BY <1>3, UsersStay
<1>8. /\ b_dirt'[b] /\ b_data'[b] = d /\ latest'[want[t]] = d
  BY <1>3, <1>4 DEF DataInv, DataTypes
<1>9. RequestFits(b)' /\ LatestIsSafe(b)'
  BY <1>3, <1>4, <1>8, CacheAssumption DEF DataInv, RequestFits, LatestIsSafe
<1>10. /\ \A c \in Buffer \ {b} : /\ b_dirt'[c] = b_dirt[c]
                                  /\ b_data'[c] = b_data[c]
       /\ \A k \in Block \ {b_block[b]} : latest'[k] = latest[k]
  BY <1>3, <1>4 DEF DataInv, DataTypes
<1> QED BY <1>3, <1>4, <1>6, <1>7, <1>9, <1>10, OneBufferMoves

\* The claim of a buffer: its old contents are on the device.
LEMMA ClaimKeepsData ==
  ASSUME CacheInv, DataInv, NEW t \in Task, Claim(t) PROVE DataInv'
<1>1. PICK c : c = bh[t]
  OBVIOUS
<1>2. PICK w : w = want[t]
  OBVIOUS
<1>3. /\ pc[t] = "free_wait" /\ running \in {NULL, t} /\ c \in Buffer
      /\ w \in Block /\ b_count[c] = 0 /\ Found(w) = {}
      /\ ~b_lock[c] /\ ~b_dirt[c]
  BY <1>1, <1>2 DEF Claim, AfterWait, At, CacheInv, BufferIsKnown,
     WantIsKnown, Wanting
<1>4. /\ b_dirt' = [b_dirt EXCEPT ![c] = FALSE]
      /\ b_uptodate' = [b_uptodate EXCEPT ![c] = FALSE]
      /\ b_block' = [b_block EXCEPT ![c] = w]
      /\ pc' = [pc EXCEPT ![t] = "got"] /\ running' = t
      /\ UNCHANGED <<b_lock, b_data, io, disk, latest, op, bh>>
  BY <1>1, <1>2 DEF Claim, TakeOver, Goto, Rest, store, locals
<1>5. DataTypes'
  BY <1>4 DEF DataInv, DataTypes
<1>6. /\ RequestFits(c) /\ LatestIsSafe(c) /\ io[c].cmd = "NONE"
  BY <1>3 DEF DataInv, RequestFits
<1>7. /\ b_block'[c] = w /\ w # NULL /\ ~b_uptodate'[c] /\ ~b_dirt'[c]
      /\ \A b \in Buffer \ {c} :
            /\ b_block'[b] = b_block[b] /\ b_dirt'[b] = b_dirt[b]
            /\ b_uptodate'[b] = b_uptodate[b]
  BY <1>3, <1>4, CacheAssumption DEF DataInv, DataTypes, CacheInv, UseTypes
<1>8. disk[w] = latest[w]
  BY <1>3 DEF DataInv, UncachedIsOnDisk
<1>9. ASSUME NEW b \in Buffer PROVE RequestFits(b)' /\ LatestIsSafe(b)'
  <2>1. CASE b = c
    BY <1>3, <1>4, <1>6, <1>7, <1>8, <2>1 DEF RequestFits, LatestIsSafe
  <2>2. CASE b # c
    BY <1>4, <1>7, <2>2 DEF DataInv, RequestFits, LatestIsSafe
  <2> QED BY <2>1, <2>2
<1>10. UncachedIsOnDisk'
  <2> SUFFICES ASSUME NEW k \in Block, Found(k)' = {} PROVE disk[k] = latest[k]
    BY <1>4 DEF UncachedIsOnDisk
  <2>1. CASE b_block[c] = k
    BY <1>3, <1>6, <2>1, CacheAssumption DEF LatestIsSafe
  <2>2. CASE b_block[c] # k
    BY <1>7, <2>2 DEF Found, DataInv, UncachedIsOnDisk
  <2> QED BY <2>1, <2>2
<1>11. UsersSeeValid'
  <2> SUFFICES ASSUME NEW u \in Task
               PROVE  /\ op'[u] \in Ops \cup {NULL} /\ pc'[u] # "copy"
                      /\ pc'[u] = "got" => running' = u /\ ~b_lock'[bh'[u]]
                      /\ pc'[u] = "use" => b_uptodate'[bh'[u]]
    BY DEF UsersSeeValid
  <2>1. CASE u = t
    BY <1>1, <1>3, <1>4, <2>1 DEF DataInv, UsersSeeValid, CacheInv, UseTypes
  <2>2. CASE u # t
    <3>1. pc[u] # "got" /\ pc'[u] = pc[u]
      BY <1>3, <1>4, <2>2, CacheAssumption
         DEF DataInv, UsersSeeValid, CacheInv, UseTypes
    <3>2. pc[u] = "use" => bh[u] \in Buffer /\ bh[u] # c
      <4>1. u \notin Holders(c)
        BY <1>3, HeldIsCounted
      <4> QED BY <4>1, UserHasBuffer DEF Holders, Holding
    <3> QED BY <1>4, <1>7, <3>1, <3>2 DEF DataInv, UsersSeeValid
  <2> QED BY <2>1, <2>2
<1> QED BY <1>5, <1>9, <1>10, <1>11 DEF DataInv

\* The end of a transfer: a write may only succeed.
LEMMA TransferKeepsData ==
  ASSUME CacheInv, DataInv, NEW b \in Buffer, Transfer(b),
         "WRITE" \notin IoErrors
  PROVE  DataInv'
<1>1. PICK ok \in BOOLEAN : EndRequest(b, ok)
  BY DEF Transfer, ReadDone, WriteDone, TransferFails
<1>2. /\ b_lock' = [b_lock EXCEPT ![b] = FALSE]
      /\ b_uptodate' = [b_uptodate EXCEPT ![b] = ok]
      /\ io' = [io EXCEPT ![b] = NoIo]
      /\ UNCHANGED <<b_block, b_dirt, latest, running, pc, op, bh>>
  BY <1>1 DEF EndRequest, locals
<1>3. PICK k : k = b_block[b]
  OBVIOUS
<1>4. io[b].cmd # "NONE"
  BY CacheAssumption DEF Transfer, ReadDone, WriteDone, TransferFails
<1>5. RequestFits(b) /\ LatestIsSafe(b) /\ k \in Block /\ k # NULL
  BY <1>3, <1>4 DEF DataInv, RequestFits, CacheInv, UseTypes
<1>6. DataTypes
  BY DEF DataInv
<1>7. /\ ~b_lock'[b] /\ b_uptodate'[b] = ok /\ io'[b].cmd = "NONE"
      /\ NoIo \in [cmd : {"NONE", "READ", "WRITE"}, data : Data]
  BY <1>2, <1>6, CacheAssumption DEF DataTypes, NoIo, Data
<1>8. \/ /\ io[b].cmd = "READ" /\ ok
         /\ b_data' = [b_data EXCEPT ![b] = disk[k]] /\ disk' = disk
      \/ /\ io[b].cmd = "WRITE" /\ ok /\ b_data' = b_data
         /\ \E d \in {io[b].data, b_data[b]} : disk' = [disk EXCEPT ![k] = d]
      \/ io[b].cmd = "READ" /\ ~ok /\ UNCHANGED <<b_data, disk>>
  <2>1. /\ ReadDone(b) \/ WriteDone(b) => b_uptodate'[b] = TRUE
        /\ TransferFails(b) => b_uptodate'[b] = FALSE
    BY <1>6 DEF ReadDone, WriteDone, TransferFails, EndRequest, DataTypes
  <2>2. /\ ReadDone(b) \/ WriteDone(b) => ok
        /\ TransferFails(b) => ~ok
    BY <1>7, <2>1
  <2> QED BY <1>3, <2>2, CacheAssumption, "WRITE" \notin IoErrors
          DEF Transfer, ReadDone, WriteDone, TransferFails
<1>9. b_data' \in [Buffer -> Data] /\ disk' \in [Block -> Data]
  BY <1>5, <1>6, <1>8 DEF DataTypes
<1>10. DataTypes'
  BY <1>2, <1>6, <1>7, <1>9 DEF DataTypes
<1>11. RequestFits(b)'
  BY <1>2, <1>5, <1>7, <1>8 DEF RequestFits
<1>12. LatestIsSafe(b)'
  <2>1. /\ b_data[b] = latest[k] \/ io[b].cmd # "WRITE"
        /\ disk[k] = latest[k] \/ io[b].cmd # "READ"
        /\ io[b].cmd = "WRITE" /\ ~b_dirt[b] => io[b].data = b_data[b]
    BY <1>3, <1>5 DEF RequestFits, LatestIsSafe
  <2>2. CASE io[b].cmd = "READ" /\ ok
    <3>1. b_data'[b] = disk[k] /\ disk'[k] = disk[k]
      BY <1>6, <1>8, <2>2 DEF DataTypes
    <3> QED BY <1>2, <1>3, <1>5, <1>7, <2>1, <2>2, <3>1
            DEF LatestIsSafe, RequestFits
  <2>3. CASE io[b].cmd = "WRITE"
    <3>1. /\ ok /\ b_data' = b_data
          /\ disk'[k] \in {io[b].data, b_data[b]}
      BY <1>5, <1>6, <1>8, <2>3 DEF DataTypes
    <3> QED BY <1>2, <1>3, <1>7, <2>1, <2>3, <3>1 DEF LatestIsSafe
  <2>4. CASE io[b].cmd = "READ" /\ ~ok
    BY <1>2, <1>3, <1>7, <1>8, <2>1, <2>4 DEF LatestIsSafe
  <2> QED BY <1>8, <2>2, <2>3, <2>4
<1>13. /\ \A c \in Buffer \ {b} :
             /\ b_lock'[c] = b_lock[c] /\ b_data'[c] = b_data[c]
             /\ b_uptodate'[c] = b_uptodate[c] /\ io'[c] = io[c]
       /\ \A j \in Block \ {k} : disk'[j] = disk[j]
  BY <1>2, <1>6, <1>8 DEF DataTypes
<1>14. UsersSeeValid'
  <2> SUFFICES ASSUME NEW u \in Task
               PROVE  /\ op[u] \in Ops \cup {NULL} /\ pc[u] # "copy"
                      /\ pc[u] = "got" => running = u /\ ~b_lock'[bh[u]]
                      /\ pc[u] = "use" => b_uptodate'[bh[u]]
    BY <1>2 DEF UsersSeeValid
  <2>1. pc[u] \in {"got", "use"} => bh[u] \in Buffer
    BY UserHasBuffer DEF Holding
  <2>2. bh[u] = b /\ b_uptodate[b] => b_uptodate'[b]
    BY <1>5, <1>7, <1>8 DEF RequestFits
  <2> QED BY <1>7, <1>13, <2>1, <2>2 DEF DataInv, UsersSeeValid
<1> QED BY <1>2, <1>3, <1>10, <1>11, <1>12, <1>13, <1>14, OneBufferMoves

\* The invariant of the contents is kept by every step.
LEMMA DataInvStep ==
  ASSUME CacheInv, DataInv, ScanTypes, [Next]_vars,
         "copy" \notin Ops, "block_write" \notin Ops, "WRITE" \notin IoErrors
  PROVE  DataInv'
<1>1. CASE UNCHANGED vars
  <2>1. UNCHANGED <<b_block, b_lock, b_dirt, b_uptodate, b_data, io, disk,
                    latest, running, pc, op, bh>>
    BY <1>1 DEF vars, bufs, store, locals
  <2> QED BY <2>1 DEF DataInv, DataTypes, UsersSeeValid, RequestFits,
             LatestIsSafe, UncachedIsOnDisk, Found
<1>2. ASSUME NEW t \in Task, GetStep(t) \/ SyncStep(t) PROVE DataInv'
  BY <1>2, SearchKeepsData, ClaimKeepsData, SyncWriteKeepsData
     DEF GetStep, SyncStep
<1>3. ASSUME NEW t \in Task, UseStep(t) PROVE DataInv'
  <2>1. ~CopyBegins(t) /\ ~CopyEnds(t)
    BY "copy" \notin Ops, CacheAssumption
       DEF CopyBegins, CopyEnds, At, DataInv, UsersSeeValid, AllOps
  <2> QED BY <1>3, <2>1, "block_write" \notin Ops, SearchKeepsData,
             BreadGotKeepsData, BreadaFirstKeepsData, BreadaAheadKeepsData,
             ModifyKeepsData DEF UseStep
<1>4. ASSUME NEW t \in Task, \E o \in Ops, k \in Block : Start(t, o, k)
      PROVE  DataInv'
  BY <1>4, SearchKeepsData
<1>5. ASSUME NEW b \in Buffer, Transfer(b) PROVE DataInv'
  BY <1>5, "WRITE" \notin IoErrors, TransferKeepsData
<1> QED BY <1>1, <1>2, <1>3, <1>4, <1>5 DEF Next, TaskStep

\* What was written last is on the device, or in the one buffer of its block;
\* nobody reads anything older, and no buffer is taken for another block
\* before its contents are on the device: if no task copies with sleeps after
\* b_dirt is set, none writes into a buffer that is not valid, and all writes
\* of the device succeed (reads may fail at any time).
THEOREM UpdatesAreKept ==
  ASSUME "copy" \notin Ops, "block_write" \notin Ops, "WRITE" \notin IoErrors
  PROVE  Spec => [](NoUpdateIsLost /\ ValidIsCurrent /\ CleanIsOnDisk)
<1>1. Init => CacheInv /\ DataInv /\ ScanTypes
  BY CacheInvInit, DataInvInit DEF Init, ScanTypes
<1>2. CacheInv /\ DataInv /\ ScanTypes /\ [Next]_vars
        => CacheInv' /\ DataInv' /\ ScanTypes'
  BY CacheInvStep, DataInvStep, ScanTypesStep, "copy" \notin Ops, "block_write" \notin Ops,
     "WRITE" \notin IoErrors
<1>3. CacheInv /\ DataInv => NoUpdateIsLost /\ ValidIsCurrent /\ CleanIsOnDisk
  <2> SUFFICES ASSUME CacheInv, DataInv
               PROVE  NoUpdateIsLost /\ ValidIsCurrent /\ CleanIsOnDisk
    OBVIOUS
  <2>1. \A b \in Buffer : RequestFits(b) /\ LatestIsSafe(b)
    BY DEF DataInv
  <2>2. ValidIsCurrent
    BY <2>1 DEF ValidIsCurrent, LatestIsSafe
  <2>3. CleanIsOnDisk
    BY <2>1 DEF CleanIsOnDisk, LatestIsSafe, RequestFits
  <2>4. ASSUME NEW k \in Block, NEW b \in Found(k)
        PROVE  disk[k] = latest[k] \/ (b_data[b] = latest[k] /\ b_uptodate[b])
    BY <2>1, CacheAssumption DEF LatestIsSafe, Found
  <2>5. NoUpdateIsLost
    BY <2>4 DEF NoUpdateIsLost, DataInv, UncachedIsOnDisk
  <2> QED BY <2>2, <2>3, <2>5
<1> QED BY <1>1, <1>2, <1>3, PTL DEF Spec
=============================================================================
