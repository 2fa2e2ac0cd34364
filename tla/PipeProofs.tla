----------------------------- MODULE PipeProofs -----------------------------
(***************************************************************************)
(* Proofs about pipes, for any number of tasks, files and descriptors and  *)
(* any size of the ring.                                                   *)
(***************************************************************************)
EXTENDS Pipe, FiniteSetTheorems, TLAPS

-----------------------------------------------------------------------------
(***************************************************************************)
(* Numbers and finite sets.                                                *)
(***************************************************************************)
\* A set of natural numbers that is not empty has a least member.
LEMMA LeastNatural ==
  ASSUME NEW S \in SUBSET Nat, S # {}
  PROVE  \E m \in S : \A n \in S : m <= n
<1>1. IsWellFoundedOn(OpToRel(<, Nat), Nat)
  BY NatLessThanWellFounded
<1>2. PICK m \in S : \A n \in S : <<n, m>> \notin OpToRel(<, Nat)
  BY <1>1, WFMin
<1>3. \A n \in S : <<n, m>> \in OpToRel(<, Nat) <=> n < m
  BY DEF OpToRel
<1>4. \A n \in S : ~(n < m)
  BY <1>2, <1>3
<1>5. \A n \in S : n \in Nat
  OBVIOUS
<1>6. \A n \in S : m <= n
  BY <1>4, <1>5
<1> QED BY <1>6

\* The remainder of a number that goes round at most once.
Wrap(x, m) == IF x < m THEN x ELSE x - m

\* It is what % gives.
LEMMA Modulo ==
  ASSUME NEW m \in Nat \ {0}, NEW x \in Nat, x < 2 * m
  PROVE  x % m = Wrap(x, m) /\ x % m \in 0..(m - 1)
  BY DEF Wrap

\* A step of at most one round.
LEMMA Advance ==
  ASSUME NEW m \in Nat \ {0}, NEW x \in 0..(m - 1), NEW n \in 0..m
  PROVE  (x + n) % m = Wrap(x + n, m) /\ (x + n) % m \in 0..(m - 1)
<1>1. PICK y : y = x + n
  OBVIOUS
<1>2. y \in Nat /\ y < 2 * m
  BY <1>1
<1> QED BY <1>1, <1>2, Modulo

\* Two steps that are one round at most are one step.
LEMMA WrapTwice ==
  ASSUME NEW m \in Nat \ {0}, NEW x \in 0..(m - 1), NEW n \in Nat, NEW k \in Nat,
         n + k <= m
  PROVE  Wrap(Wrap(x + n, m) + k, m) = Wrap(x + (n + k), m)
  BY DEF Wrap

\* Where a step began.
LEMMA WrapBack ==
  ASSUME NEW m \in Nat \ {0}, NEW x \in 0..(m - 1), NEW y \in 0..(m - 1),
         NEW n \in 0..(m - 1), NEW k \in 0..n, Wrap(x + n, m) = Wrap(y + k, m)
  PROVE  y = Wrap(x + (n - k), m)
  BY DEF Wrap

\* Pairs with the same first component are as many as their second components.
LEMMA PairsWith ==
  ASSUME NEW x, NEW S, IsFiniteSet(S)
  PROVE  IsFiniteSet({x} \X S) /\ Cardinality({x} \X S) = Cardinality(S)
<1>1. IsFiniteSet({x}) /\ Cardinality({x}) = 1
  BY FS_Singleton
<1>2. IsFiniteSet({x} \X S) /\ Cardinality({x} \X S) = 1 * Cardinality(S)
  BY <1>1, FS_Product
<1>3. Cardinality(S) \in Nat
  BY FS_CardinalityType
<1> QED BY <1>2, <1>3

\* A set of two members.
LEMMA TwoMembers ==
  ASSUME NEW S, IsFiniteSet(S), Cardinality(S) = 2
  PROVE  \E a, b \in S : a # b /\ S = {a, b}
<1>1. S # {}
  BY FS_EmptySet
<1>2. PICK a \in S : TRUE
  BY <1>1
<1>3. IsFiniteSet(S \ {a}) /\ Cardinality(S \ {a}) = 1
  BY <1>2, FS_RemoveElement
<1>4. PICK b : S \ {a} = {b}
  BY <1>3, FS_Singleton
<1> QED BY <1>2, <1>4

\* And the other way round.
LEMMA TwoAreTwo ==
  ASSUME NEW a, NEW b, a # b
  PROVE  IsFiniteSet({a, b}) /\ Cardinality({a, b}) = 2
<1>1. IsFiniteSet({a}) /\ Cardinality({a}) = 1
  BY FS_Singleton
<1>2. IsFiniteSet({a} \cup {b}) /\ Cardinality({a} \cup {b}) = 2
  BY <1>1, FS_AddElement
<1>3. {a} \cup {b} = {a, b}
  OBVIOUS
<1> QED BY <1>2, <1>3

\* Two disjoint sets together.
LEMMA DisjointUnion ==
  ASSUME NEW S, NEW T, IsFiniteSet(S), IsFiniteSet(T), S \cap T = {}
  PROVE  IsFiniteSet(S \cup T) /\ Cardinality(S \cup T) = Cardinality(S) + Cardinality(T)
<1>1. Cardinality(S \cap T) = 0
  BY FS_EmptySet
<1>2. Cardinality(S) \in Nat /\ Cardinality(T) \in Nat
  BY FS_CardinalityType
<1>3. /\ IsFiniteSet(S \cup T)
      /\ Cardinality(S \cup T) = Cardinality(S) + Cardinality(T) - Cardinality(S \cap T)
  BY FS_Union
<1> QED BY <1>1, <1>2, <1>3

\* A part is taken away.
LEMMA TakeAway ==
  ASSUME NEW S, NEW T, IsFiniteSet(S), T \subseteq S
  PROVE  /\ IsFiniteSet(T) /\ IsFiniteSet(S \ T)
         /\ Cardinality(S \ T) = Cardinality(S) - Cardinality(T)
         /\ Cardinality(T) <= Cardinality(S)
         /\ Cardinality(S) \in Nat /\ Cardinality(T) \in Nat /\ Cardinality(S \ T) \in Nat
<1>1. S \cap T = T
  OBVIOUS
<1> QED BY <1>1, FS_Difference, FS_Subset, FS_CardinalityType

-----------------------------------------------------------------------------
(***************************************************************************)
(* Who runs and who sleeps.                                                *)
(***************************************************************************)

\* The task that has the kernel is inside a call and awake; if copies do not
\* sleep, no other task is in the middle of a copy.
RunningIsInCall ==
    running # NULL =>
        /\ pc[running] \in InCall
        /\ running \notin asleep

\* Tasks sleep only in the loops of read_pipe() and write_pipe().
SleepersAreInCall ==
    /\ asleep \subseteq Task
    /\ \A t \in asleep : pc[t] \in {"read", "write"}

\* An inode that is not a pipe has no ends.
NoPipeNoEnds ==
    /\ i_count \in Int
    /\ ~i_pipe => i_count <= 0

\* With Faults, a copy that sleeps has moved the ring and wakes nobody yet.
SleepInv ==
    /\ pc \in [Task -> Where]
    /\ RunningIsInCall
    /\ SleepersAreInCall
    /\ NoPipeNoEnds
    /\ SleepersHaveReason

\* No task sleeps at the start.
LEMMA SleepInvInit == ASSUME Init PROVE SleepInv
  BY PipeAssumption DEF Init, SleepInv, Where, RunningIsInCall, SleepersAreInCall,
     NoPipeNoEnds, SleepersHaveReason

\* How many ends of the pipe a close gives up.
LEMMA GoneIsNat == ASSUME NEW count PROVE Cardinality(Gone(count)) \in Nat
<1>1. IsFiniteSet(File)
  BY PipeAssumption, FS_Interval DEF File
<1>2. Gone(count) \subseteq File
  BY DEF Gone
<1> QED BY <1>1, <1>2, FS_Subset, FS_CardinalityType

\* Some descriptors are closed; iput() frees the pipe with the last of them.
LEMMA CloseKeepsSleepInv ==
  ASSUME SleepInv, NEW t \in Task, NEW fds, running = NULL, CloseAll(t, fds),
         UNCHANGED <<running, pc>>
  PROVE  SleepInv'
<1> DEFINE n == Cardinality(Gone(CountsWithout(t, fds)))
<1>1. n \in Nat
  BY GoneIsNat
<1>2. iput(n)
  BY DEF CloseAll
<1> HIDE DEF n
<1>3. NoPipeNoEnds'
  BY <1>1, <1>2 DEF SleepInv, NoPipeNoEnds, iput
<1>4. CASE n = 0
  BY <1>2, <1>3, <1>4 DEF SleepInv, NoPipeNoEnds, iput, RunningIsInCall,
     SleepersAreInCall, SleepersHaveReason, EmptyRing, PIPE_SIZE, ring
<1>5. CASE n # 0
  <2>1. asleep' = {}
    BY <1>2, <1>5 DEF iput, WakeUp
  <2> QED BY <1>3, <2>1 DEF SleepInv, RunningIsInCall, SleepersAreInCall,
             SleepersHaveReason
<1> QED BY <1>4, <1>5

\* A step of the kernel keeps the invariant if copies do not sleep.
LEMMA KernelKeepsSleepInv ==
  ASSUME SleepInv, NEW t \in Task, Kernel(t) PROVE SleepInv'
<1> USE PipeAssumption
    DEF SleepInv, RunningIsInCall, SleepersAreInCall, NoPipeNoEnds,
        SleepersHaveReason, At, InCall, Where, PIPE_SIZE
<1>1. CASE PipeInode(t)
  BY <1>1 DEF PipeInode, Return
<1>2. CASE NoPipeInode(t)
  BY <1>2 DEF NoPipeInode, Return, ring
<1>3. CASE ReadDone(t) \/ WriteDone(t)
  BY <1>3 DEF ReadDone, WriteDone, WakeUp, EndCall, Return, NoTransfer, ring
<1>4. CASE ReadEmpty(t)
  BY <1>4 DEF ReadEmpty, WakeUp, EndCall, Return, NoTransfer, Wait,
     WakeUpAndSleep, ring
<1>5. CASE WriteFull(t)
  BY <1>5 DEF WriteFull, WakeUp, EndCall, Return, NoTransfer, Wait,
     WakeUpAndSleep, ring
<1>6. CASE ReadChunk(t)
  BY <1>6 DEF ReadChunk, Goto
<1>7. CASE WriteChunk(t)
  BY <1>7 DEF WriteChunk, Goto
<1>8. CASE CopyOut(t) \/ CopyIn(t)
  BY <1>8 DEF CopyOut, CopyIn, NextByte, Goto, ring
<1> QED BY <1>1, <1>2, <1>3, <1>4, <1>5, <1>6, <1>7, <1>8 DEF Kernel

\* If copies do not sleep, no task sleeps for what is there: in no pipe do a
\* reader and a writer wait for each other.
THEOREM NobodySleepsInVain == ~Faults /\ Spec => []SleepersHaveReason
<1> SUFFICES ASSUME ~Faults PROVE Spec => []SleepersHaveReason
  OBVIOUS
<1>1. Init => SleepInv
  BY SleepInvInit
<1>2. SleepInv /\ [Next]_vars => SleepInv'
  <2> SUFFICES ASSUME SleepInv, [Next]_vars PROVE SleepInv'
    OBVIOUS
  <2>1. CASE UNCHANGED vars
    BY <2>1 DEF vars, ring, SleepInv, RunningIsInCall, SleepersAreInCall,
       NoPipeNoEnds, SleepersHaveReason, PIPE_SIZE
  <2>2. ASSUME NEW t \in Task, Kernel(t) PROVE SleepInv'
    BY <2>2, KernelKeepsSleepInv
  <2>3. ASSUME NEW t \in Task, Close(t) \/ Exit(t) PROVE SleepInv'
    BY <2>3, CloseKeepsSleepInv DEF Close, Exit, User
  <2>4. ASSUME NEW t \in Task, Dup(t) \/ Fork(t) \/ HandleSignal(t)
        PROVE  SleepInv'
    BY <2>4 DEF Dup, Fork, HandleSignal, User, ring, SleepInv, RunningIsInCall,
       SleepersAreInCall, NoPipeNoEnds, SleepersHaveReason, PIPE_SIZE
  <2>5. ASSUME NEW t \in Task, SysPipe(t) PROVE SleepInv'
    BY <2>5 DEF SysPipe, User, ring, SleepInv, RunningIsInCall,
       SleepersAreInCall, NoPipeNoEnds, SleepersHaveReason, PIPE_SIZE, Where
  <2>6. ASSUME NEW t \in Task, SysRead(t) \/ SysWrite(t) PROVE SleepInv'
    BY <2>6, PipeAssumption DEF SysRead, SysWrite, Call, Goto, User, ring,
       SleepInv, RunningIsInCall, SleepersAreInCall, NoPipeNoEnds,
       SleepersHaveReason, PIPE_SIZE, Where, InCall
  <2>7. ASSUME NEW t \in Task, Fault(t) PROVE SleepInv'
    BY <2>7 DEF Fault
  <2> QED BY <2>1, <2>2, <2>3, <2>4, <2>5, <2>6, <2>7 DEF Next
<1>3. SleepInv => SleepersHaveReason
  BY DEF SleepInv
<1> QED BY <1>1, <1>2, <1>3, PTL DEF Spec

-----------------------------------------------------------------------------
(***************************************************************************)
(* The stream.  Only what has been written lies in the ring: in order, and *)
(* without the part of a chunk that a writer has still to copy; a reader   *)
(* copies from where no writer can be.                                     *)
(***************************************************************************)
RingTypes ==
    /\ pc \in [Task -> Where]
    /\ page \in [0..(PAGE_SIZE - 1) -> Byte \cup {NULL}]
    /\ head \in 0..(PAGE_SIZE - 1) /\ tail \in 0..(PAGE_SIZE - 1)
    /\ sent \in Byte /\ got \in Byte
    /\ left \in [Task -> Nat]
    /\ chars \in [Task -> 0..PAGE_SIZE] /\ slot \in [Task -> 0..PAGE_SIZE]
    /\ due \in [Task -> Byte]

\* The first m bytes behind the tail are those of the stream.
Holds(m) ==
    \A k \in 0..(m - 1) :
        page[Wrap(tail + k, PAGE_SIZE)] = Wrap(got + k, 2 * PAGE_SIZE)

\* What task t has still to copy into the ring.
Unwritten(t) ==
    /\ chars[t] \in 1..PIPE_SIZE
    /\ slot[t] + chars[t] <= PAGE_SIZE
    /\ head = Wrap(slot[t] + chars[t], PAGE_SIZE)
    /\ sent = Wrap(due[t] + chars[t], 2 * PAGE_SIZE)
    /\ Holds(PIPE_SIZE - chars[t])

\* What task t has still to copy out of it.
Unread(t) ==
    /\ chars[t] >= 1
    /\ slot[t] + chars[t] <= PAGE_SIZE
    /\ \A k \in 0..(chars[t] - 1) :
          page[slot[t] + k] = Wrap(due[t] + k, 2 * PAGE_SIZE)

RingInv ==
    /\ RingTypes
    /\ \A t \in Task : pc[t] \in {"copy_in", "copy_out"} => running = t
    /\ sent = Wrap(got + PIPE_SIZE, 2 * PAGE_SIZE)
    /\ \A t \in Task : pc[t] = "copy_in" => Unwritten(t)
    /\ \A t \in Task : pc[t] = "copy_out" => Unread(t)
    /\ (\A t \in Task : pc[t] # "copy_in") => Holds(PIPE_SIZE)

\* How much is in the ring, without the remainder.
SizeIsDistance ==
    /\ PIPE_SIZE \in 0..(PAGE_SIZE - 1)
    /\ PIPE_SIZE = IF head < tail THEN head + PAGE_SIZE - tail ELSE head - tail

\* The expression of PIPE_SIZE() gives that.
LEMMA PipeSize == RingTypes => SizeIsDistance
<1> SUFFICES ASSUME RingTypes PROVE SizeIsDistance
  OBVIOUS
<1>1. PICK x : x = head + PAGE_SIZE - tail
  OBVIOUS
<1>2. x \in Nat /\ x < 2 * PAGE_SIZE /\ PAGE_SIZE \in Nat \ {0}
  BY <1>1, PipeAssumption DEF RingTypes
<1>3. x % PAGE_SIZE = Wrap(x, PAGE_SIZE) /\ x % PAGE_SIZE \in 0..(PAGE_SIZE - 1)
  BY <1>2, Modulo
<1>4. PIPE_SIZE = Wrap(x, PAGE_SIZE) /\ PIPE_SIZE \in 0..(PAGE_SIZE - 1)
  BY <1>1, <1>3 DEF PIPE_SIZE
<1> QED BY <1>1, <1>2, <1>4 DEF Wrap, RingTypes, SizeIsDistance

\* The size of a chunk: not more than is left of the call, of the ring up to its
\* end, and of what there is.
LEMMA ChunkFits ==
  ASSUME RingTypes, NEW t \in Task, left[t] > 0, NEW p \in 0..(PAGE_SIZE - 1),
         NEW size \in Nat \ {0}
  PROVE  /\ Chunk(t, p, size) \in 1..PAGE_SIZE
         /\ Chunk(t, p, size) <= size /\ Chunk(t, p, size) <= left[t]
         /\ p + Chunk(t, p, size) <= PAGE_SIZE
<1> DEFINE S == {PAGE_SIZE - p, left[t], size}
<1>1. S \in SUBSET Nat /\ S # {} /\ left[t] \in Nat /\ PAGE_SIZE - p \in Nat \ {0}
  BY PipeAssumption DEF RingTypes
<1>2. PICK m \in S : \A n \in S : m <= n
  <2> HIDE DEF S
  <2> QED BY <1>1, LeastNatural
<1>3. Chunk(t, p, size) \in S /\ \A n \in S : Chunk(t, p, size) <= n
  BY <1>2 DEF Chunk, Min
<1> QED BY <1>1, <1>3, PipeAssumption

\* A step that leaves the ring and all chunks alone, and is in no copy.
LEMMA RingStays ==
  ASSUME RingInv, UNCHANGED <<ring, page, chunk>>, left' \in [Task -> Nat],
         pc' \in [Task -> Where],
         \A t \in Task : pc'[t] = pc[t] \/ {pc[t], pc'[t]} \cap {"copy_in", "copy_out"} = {},
         \A t \in Task : pc[t] \in {"copy_in", "copy_out"} => running' = running
  PROVE  RingInv'
<1>1. RingTypes' /\ PIPE_SIZE' = PIPE_SIZE
  BY DEF RingInv, RingTypes, ring, chunk, PIPE_SIZE
<1>2. \A t \in Task : pc'[t] \in {"copy_in", "copy_out"} => running' = t
  <2> SUFFICES ASSUME NEW t \in Task, pc'[t] \in {"copy_in", "copy_out"}
               PROVE  running' = t
    OBVIOUS
  <2>1. pc'[t] = pc[t]
    OBVIOUS
  <2> QED BY <2>1 DEF RingInv
<1>3. \A t \in Task : /\ pc'[t] = "copy_in" <=> pc[t] = "copy_in"
                      /\ pc'[t] = "copy_out" <=> pc[t] = "copy_out"
  OBVIOUS
<1>4. \A t \in Task : Unwritten(t)' <=> Unwritten(t)
  BY <1>1 DEF Unwritten, Holds, ring, chunk
<1>5. \A t \in Task : Unread(t)' <=> Unread(t)
  BY DEF Unread, chunk
<1>6. Holds(PIPE_SIZE)' <=> Holds(PIPE_SIZE)
  BY <1>1 DEF Holds, ring
<1> QED BY <1>1, <1>2, <1>3, <1>4, <1>5, <1>6 DEF RingInv, ring

\* The ring of a new pipe, and of one that has just been given up.
LEMMA RingStarts ==
  ASSUME RingInv, EmptyRing, page' = Zeroes, UNCHANGED chunk, left' = left,
         pc' \in [Task -> Where],
         \A t \in Task : pc'[t] \notin {"copy_in", "copy_out"}
  PROVE  RingInv'
<1>1. 0 \in 0..(PAGE_SIZE - 1) /\ 0 \in Byte /\ 0 + PAGE_SIZE - 0 = PAGE_SIZE
  BY PipeAssumption DEF Byte
<1>2. RingTypes'
  BY <1>1 DEF EmptyRing, RingInv, RingTypes, Zeroes, chunk
<1>3. PIPE_SIZE' = 0
  <2>1. SizeIsDistance'
    BY <1>2, PipeSize, PTL
  <2> QED BY <1>1, <2>1 DEF SizeIsDistance, EmptyRing
<1>4. sent' = Wrap(got' + 0, 2 * PAGE_SIZE)
  BY PipeAssumption DEF EmptyRing, Wrap
<1>5. Holds(PIPE_SIZE)'
  BY <1>3 DEF Holds
<1> QED BY <1>2, <1>3, <1>4, <1>5 DEF RingInv

\* A task that has the kernel at another place finds nobody in a copy.
LEMMA NobodyCopies ==
  ASSUME RingInv, NEW t \in Task, NEW p, At(t, p), p \notin {"copy_in", "copy_out"}
  PROVE  \A u \in Task : pc[u] \notin {"copy_in", "copy_out"}
  BY PipeAssumption DEF RingInv, At

\* A function that changes at one place keeps its type.
LEMMA OneChanges ==
  ASSUME NEW S, NEW T, NEW g \in [S -> T], NEW i, NEW v \in T
  PROVE  [g EXCEPT ![i] = v] \in [S -> T]
OBVIOUS

\* A reader takes a chunk: it is what follows the tail.
LEMMA ReadChunkKeepsRing ==
  ASSUME RingInv, NEW t \in Task, ReadChunk(t)
  PROVE  RingInv'
<1>1. PICK n : n = Chunk(t, tail, PIPE_SIZE)
  OBVIOUS
<1>2. PICK s : s = PIPE_SIZE
  OBVIOUS
<1>3. /\ RingTypes /\ SizeIsDistance /\ PAGE_SIZE \in Nat \ {0}
      /\ 2 * PAGE_SIZE \in Nat \ {0} /\ got \in 0..(2 * PAGE_SIZE - 1)
      /\ sent \in 0..(2 * PAGE_SIZE - 1)
  BY PipeSize, PipeAssumption DEF RingInv, RingTypes, Byte
<1>4. /\ n \in 1..PAGE_SIZE /\ n <= s /\ n <= left[t] /\ tail + n <= PAGE_SIZE
      /\ s \in 1..(PAGE_SIZE - 1)
  <2>1. /\ left[t] > 0 /\ tail \in 0..(PAGE_SIZE - 1) /\ s \in Nat \ {0}
        /\ s \in 0..(PAGE_SIZE - 1)
    BY <1>2, <1>3 DEF ReadChunk, SizeIsDistance, RingTypes
  <2> QED BY <1>1, <1>2, <1>3, <2>1, ChunkFits
<1>5. \A u \in Task : pc[u] \notin {"copy_in", "copy_out"}
  BY NobodyCopies DEF ReadChunk
<1>6. Holds(s)
  BY <1>2, <1>5 DEF RingInv
<1>7. /\ tail' = Wrap(tail + n, PAGE_SIZE) /\ tail' \in 0..(PAGE_SIZE - 1)
      /\ got' = Wrap(got + n, 2 * PAGE_SIZE) /\ got' \in 0..(2 * PAGE_SIZE - 1)
  <2>1. tail' = (tail + n) % PAGE_SIZE /\ got' = (got + n) % (2 * PAGE_SIZE)
    BY <1>1 DEF ReadChunk
  <2>2. n \in 0..PAGE_SIZE /\ n \in 0..(2 * PAGE_SIZE) /\ tail \in 0..(PAGE_SIZE - 1)
    BY <1>3, <1>4 DEF RingTypes
  <2> QED BY <1>3, <2>1, <2>2, Advance
<1>8. /\ left' = [left EXCEPT ![t] = left[t] - n] /\ chars' = [chars EXCEPT ![t] = n]
      /\ slot' = [slot EXCEPT ![t] = tail] /\ due' = [due EXCEPT ![t] = got]
      /\ pc' = [pc EXCEPT ![t] = "copy_out"] /\ running' = t
      /\ UNCHANGED <<head, sent, page>>
  BY <1>1 DEF ReadChunk, Goto
<1>9. RingTypes'
  <2> USE <1>3, <1>4, <1>7, <1>8
  <2>1. /\ pc \in [Task -> Where] /\ left \in [Task -> Nat]
        /\ chars \in [Task -> 0..PAGE_SIZE] /\ slot \in [Task -> 0..PAGE_SIZE]
        /\ due \in [Task -> Byte] /\ "copy_out" \in Where
    BY DEF RingTypes, Where
  <2>2. /\ left[t] - n \in Nat /\ n \in 0..PAGE_SIZE
        /\ tail \in 0..PAGE_SIZE /\ got \in Byte
    BY <2>1 DEF RingTypes, Byte
  <2>3. pc' \in [Task -> Where] /\ left' \in [Task -> Nat]
    BY <2>1, <2>2, OneChanges
  <2>4. chars' \in [Task -> 0..PAGE_SIZE] /\ slot' \in [Task -> 0..PAGE_SIZE]
    BY <2>1, <2>2, OneChanges
  <2>5. due' \in [Task -> Byte]
    BY <2>1, <2>2, OneChanges
  <2>6. /\ page' \in [0..(PAGE_SIZE - 1) -> Byte \cup {NULL}]
        /\ head' \in 0..(PAGE_SIZE - 1) /\ sent' \in Byte
    BY DEF RingTypes
  <2>7. tail' \in 0..(PAGE_SIZE - 1) /\ got' \in Byte
    BY DEF Byte
  <2> QED BY <2>3, <2>4, <2>5, <2>6, <2>7 DEF RingTypes
<1>10. PIPE_SIZE' = s - n
  <2>1. SizeIsDistance'
    BY <1>9, PipeSize, PTL
  <2> QED BY <1>2, <1>3, <1>4, <1>7, <1>8, <2>1 DEF SizeIsDistance, Wrap, RingTypes
<1>11. sent' = Wrap(got' + (s - n), 2 * PAGE_SIZE)
  <2>1. sent' = Wrap(got + s, 2 * PAGE_SIZE) /\ n + (s - n) = s
    BY <1>2, <1>4, <1>8 DEF RingInv
  <2>2. n \in Nat /\ s - n \in Nat /\ n + (s - n) <= 2 * PAGE_SIZE
    BY <1>3, <1>4
  <2>3. Wrap(Wrap(got + n, 2 * PAGE_SIZE) + (s - n), 2 * PAGE_SIZE)
          = Wrap(got + (n + (s - n)), 2 * PAGE_SIZE)
    BY <1>3, <2>2, WrapTwice
  <2> QED BY <1>7, <2>1, <2>3
<1>12. Unread(t)'
  <2> SUFFICES ASSUME NEW k \in 0..(n - 1)
               PROVE  page[tail + k] = Wrap(got + k, 2 * PAGE_SIZE)
    BY <1>3, <1>4, <1>8 DEF Unread, RingTypes
  <2>1. k \in 0..(s - 1) /\ Wrap(tail + k, PAGE_SIZE) = tail + k
    BY <1>3, <1>4 DEF Wrap, RingTypes
  <2> QED BY <1>6, <2>1 DEF Holds
<1>13. Holds(PIPE_SIZE)'
  <2> SUFFICES ASSUME NEW k \in 0..(s - n - 1)
               PROVE  page[Wrap(tail' + k, PAGE_SIZE)] = Wrap(got' + k, 2 * PAGE_SIZE)
    BY <1>8, <1>10 DEF Holds
  <2>1. k + n \in 0..(s - 1) /\ k \in Nat
    BY <1>4
  <2>2. /\ Wrap(tail' + k, PAGE_SIZE) = Wrap(tail + (k + n), PAGE_SIZE)
        /\ Wrap(got' + k, 2 * PAGE_SIZE) = Wrap(got + (k + n), 2 * PAGE_SIZE)
    BY <1>3, <1>4, <1>7, <2>1 DEF Wrap, RingTypes, Byte
  <2> QED BY <1>6, <2>1, <2>2 DEF Holds
<1>14. \A u \in Task : pc'[u] = IF u = t THEN "copy_out" ELSE pc[u]
  BY <1>3, <1>8 DEF RingTypes
<1> QED BY <1>5, <1>8, <1>9, <1>10, <1>11, <1>12, <1>13, <1>14 DEF RingInv

\* A writer takes a chunk: room behind the head, that is not yet written.
LEMMA WriteChunkKeepsRing ==
  ASSUME RingInv, NEW t \in Task, WriteChunk(t)
  PROVE  RingInv'
<1>1. PICK n : n = Chunk(t, head, Room)
  OBVIOUS
<1>2. PICK s : s = PIPE_SIZE
  OBVIOUS
<1>3. /\ RingTypes /\ SizeIsDistance /\ PAGE_SIZE \in Nat \ {0}
      /\ 2 * PAGE_SIZE \in Nat \ {0} /\ got \in 0..(2 * PAGE_SIZE - 1)
      /\ sent \in 0..(2 * PAGE_SIZE - 1)
  BY PipeSize, PipeAssumption DEF RingInv, RingTypes, Byte
<1>4. /\ n \in 1..PAGE_SIZE /\ n <= PAGE_SIZE - 1 - s /\ n <= left[t]
      /\ head + n <= PAGE_SIZE /\ s \in 0..(PAGE_SIZE - 1)
  <2>1. /\ left[t] > 0 /\ head \in 0..(PAGE_SIZE - 1) /\ s \in 0..(PAGE_SIZE - 1)
        /\ Room = PAGE_SIZE - 1 - s /\ Room > 0
    BY <1>2, <1>3 DEF WriteChunk, Room, SizeIsDistance, RingTypes
  <2>2. Room \in Nat \ {0}
    BY <1>3, <2>1
  <2> QED BY <1>1, <1>3, <2>1, <2>2, ChunkFits
<1>5. \A u \in Task : pc[u] \notin {"copy_in", "copy_out"}
  BY NobodyCopies DEF WriteChunk
<1>6. Holds(s)
  BY <1>2, <1>5 DEF RingInv
<1>7. /\ head' = Wrap(head + n, PAGE_SIZE) /\ head' \in 0..(PAGE_SIZE - 1)
      /\ sent' = Wrap(sent + n, 2 * PAGE_SIZE) /\ sent' \in 0..(2 * PAGE_SIZE - 1)
  <2>1. head' = (head + n) % PAGE_SIZE /\ sent' = (sent + n) % (2 * PAGE_SIZE)
    BY <1>1 DEF WriteChunk
  <2>2. n \in 0..PAGE_SIZE /\ n \in 0..(2 * PAGE_SIZE) /\ head \in 0..(PAGE_SIZE - 1)
    BY <1>3, <1>4 DEF RingTypes
  <2> QED BY <1>3, <2>1, <2>2, Advance
<1>8. /\ left' = [left EXCEPT ![t] = left[t] - n] /\ chars' = [chars EXCEPT ![t] = n]
      /\ slot' = [slot EXCEPT ![t] = head] /\ due' = [due EXCEPT ![t] = sent]
      /\ pc' = [pc EXCEPT ![t] = "copy_in"] /\ running' = t
      /\ UNCHANGED <<tail, got, page>>
  BY <1>1 DEF WriteChunk, Goto
<1>9. RingTypes'
  <2> USE <1>3, <1>4, <1>7, <1>8
  <2>1. /\ pc \in [Task -> Where] /\ left \in [Task -> Nat]
        /\ chars \in [Task -> 0..PAGE_SIZE] /\ slot \in [Task -> 0..PAGE_SIZE]
        /\ due \in [Task -> Byte] /\ "copy_in" \in Where
    BY DEF RingTypes, Where
  <2>2. /\ left[t] - n \in Nat /\ n \in 0..PAGE_SIZE
        /\ head \in 0..PAGE_SIZE /\ sent \in Byte
    BY <2>1 DEF RingTypes, Byte
  <2>3. pc' \in [Task -> Where] /\ left' \in [Task -> Nat]
    BY <2>1, <2>2, OneChanges
  <2>4. chars' \in [Task -> 0..PAGE_SIZE] /\ slot' \in [Task -> 0..PAGE_SIZE]
    BY <2>1, <2>2, OneChanges
  <2>5. due' \in [Task -> Byte]
    BY <2>1, <2>2, OneChanges
  <2>6. /\ page' \in [0..(PAGE_SIZE - 1) -> Byte \cup {NULL}]
        /\ tail' \in 0..(PAGE_SIZE - 1) /\ got' \in Byte
    BY DEF RingTypes
  <2>7. head' \in 0..(PAGE_SIZE - 1) /\ sent' \in Byte
    BY DEF Byte
  <2> QED BY <2>3, <2>4, <2>5, <2>6, <2>7 DEF RingTypes
<1>10. PIPE_SIZE' = s + n
  <2>1. SizeIsDistance'
    BY <1>9, PipeSize, PTL
  <2> QED BY <1>2, <1>3, <1>4, <1>7, <1>8, <2>1 DEF SizeIsDistance, Wrap, RingTypes
<1>11. sent' = Wrap(got' + (s + n), 2 * PAGE_SIZE)
  <2>1. sent = Wrap(got + s, 2 * PAGE_SIZE) /\ got' = got
    BY <1>2, <1>8 DEF RingInv
  <2>2. n \in Nat /\ s \in Nat /\ s + n <= 2 * PAGE_SIZE
    BY <1>3, <1>4
  <2> QED BY <1>3, <1>7, <2>1, <2>2, WrapTwice
<1>12. Unwritten(t)'
  <2>1. chars'[t] = n /\ slot'[t] = head /\ due'[t] = sent
    BY <1>3, <1>8 DEF RingTypes
  <2>2. (s + n) - n = s
    BY <1>4
  <2>3. Holds(PIPE_SIZE - chars[t])'
    BY <1>6, <1>8, <1>10, <2>1, <2>2 DEF Holds
  <2> QED BY <1>4, <1>7, <1>10, <2>1, <2>3 DEF Unwritten
<1>13. \A u \in Task : pc'[u] = IF u = t THEN "copy_in" ELSE pc[u]
  BY <1>3, <1>8 DEF RingTypes
<1> QED BY <1>5, <1>8, <1>9, <1>10, <1>11, <1>12, <1>13 DEF RingInv

\* The next byte of a copy.
LEMMA NextByteIs ==
  ASSUME RingTypes, NEW t \in Task, chars[t] > 0, slot[t] + chars[t] <= PAGE_SIZE,
         NEW p \in Where, NextByte(t, p)
  PROVE  /\ chars' = [chars EXCEPT ![t] = chars[t] - 1]
         /\ IF chars[t] > 1
            THEN /\ pc' = pc /\ slot' = [slot EXCEPT ![t] = slot[t] + 1]
                 /\ due' = [due EXCEPT ![t] = Wrap(due[t] + 1, 2 * PAGE_SIZE)]
            ELSE /\ pc' = [pc EXCEPT ![t] = p]
                 /\ slot' = [slot EXCEPT ![t] = 0] /\ due' = [due EXCEPT ![t] = 0]
         /\ pc' \in [Task -> Where] /\ chars' \in [Task -> 0..PAGE_SIZE]
         /\ slot' \in [Task -> 0..PAGE_SIZE] /\ due' \in [Task -> Byte]
         /\ running' = t /\ UNCHANGED <<ring, left>>
<1>1. /\ PAGE_SIZE \in Nat \ {0} /\ due[t] \in 0..(2 * PAGE_SIZE - 1)
      /\ 2 * PAGE_SIZE \in Nat \ {0} /\ due[t] + 1 \in Nat
      /\ due[t] + 1 < 2 * (2 * PAGE_SIZE)
  BY PipeAssumption DEF RingTypes, Byte
<1>2. /\ (due[t] + 1) % (2 * PAGE_SIZE) = Wrap(due[t] + 1, 2 * PAGE_SIZE)
      /\ (due[t] + 1) % (2 * PAGE_SIZE) \in Byte
  BY <1>1, Modulo DEF Byte
<1>3. chars' = [chars EXCEPT ![t] = chars[t] - 1] /\ running' = t /\ UNCHANGED <<ring, left>>
  BY DEF NextByte, Goto
<1>4. CASE chars[t] > 1
  <2>1. /\ pc' = [pc EXCEPT ![t] = pc[t]] /\ slot' = [slot EXCEPT ![t] = slot[t] + 1]
        /\ due' = [due EXCEPT ![t] = (due[t] + 1) % (2 * PAGE_SIZE)]
    BY <1>4 DEF NextByte, Goto
  <2>2. pc' = pc
    BY <2>1 DEF RingTypes
  <2>3. slot[t] + 1 \in 0..PAGE_SIZE /\ chars[t] - 1 \in 0..PAGE_SIZE
    BY <1>1, <1>4 DEF RingTypes
  <2>4. pc' \in [Task -> Where] /\ due' \in [Task -> Byte]
    BY <1>2, <2>1, <2>2 DEF RingTypes
  <2>5. chars' \in [Task -> 0..PAGE_SIZE] /\ slot' \in [Task -> 0..PAGE_SIZE]
    BY <1>3, <2>1, <2>3 DEF RingTypes
  <2> QED BY <1>2, <1>3, <1>4, <2>1, <2>2, <2>4, <2>5
<1>5. CASE ~(chars[t] > 1)
  <2>1. /\ pc' = [pc EXCEPT ![t] = p] /\ slot' = [slot EXCEPT ![t] = 0]
        /\ due' = [due EXCEPT ![t] = 0]
    BY <1>5 DEF NextByte, Goto
  <2>2. 0 \in Byte /\ 0 \in 0..PAGE_SIZE /\ chars[t] - 1 \in 0..PAGE_SIZE
    BY <1>1, <1>5 DEF RingTypes, Byte
  <2> QED BY <1>3, <1>5, <2>1, <2>2 DEF RingTypes
<1> QED BY <1>4, <1>5

\* A byte is copied out.
LEMMA CopyOutKeepsRing ==
  ASSUME RingInv, NEW t \in Task, CopyOut(t)
  PROVE  RingInv'
<1>1. RingTypes /\ pc[t] = "copy_out" /\ Unread(t) /\ page' = page /\ NextByte(t, "read")
  BY DEF RingInv, CopyOut, At
<1>2. /\ chars[t] \in 1..PAGE_SIZE /\ slot[t] \in 0..PAGE_SIZE /\ PAGE_SIZE \in Nat \ {0}
      /\ slot[t] + chars[t] <= PAGE_SIZE /\ due[t] \in 0..(2 * PAGE_SIZE - 1)
  BY <1>1, PipeAssumption DEF RingTypes, Unread, Byte
<1>3. /\ chars' = [chars EXCEPT ![t] = chars[t] - 1]
      /\ IF chars[t] > 1
         THEN /\ pc' = pc /\ slot' = [slot EXCEPT ![t] = slot[t] + 1]
              /\ due' = [due EXCEPT ![t] = Wrap(due[t] + 1, 2 * PAGE_SIZE)]
         ELSE /\ pc' = [pc EXCEPT ![t] = "read"]
              /\ slot' = [slot EXCEPT ![t] = 0] /\ due' = [due EXCEPT ![t] = 0]
      /\ pc' \in [Task -> Where] /\ chars' \in [Task -> 0..PAGE_SIZE]
      /\ slot' \in [Task -> 0..PAGE_SIZE] /\ due' \in [Task -> Byte]
      /\ running' = t /\ UNCHANGED <<ring, left>>
  BY <1>1, <1>2, NextByteIs DEF Where
<1>4. RingTypes' /\ PIPE_SIZE' = PIPE_SIZE
  BY <1>1, <1>3 DEF RingTypes, ring, PIPE_SIZE
<1>5. \A u \in Task : u # t => pc[u] \notin {"copy_in", "copy_out"} /\ pc'[u] = pc[u]
  BY <1>1, <1>3 DEF RingInv, CopyOut, At, RingTypes
<1>6. Holds(PIPE_SIZE)'
  BY <1>1, <1>3, <1>4, <1>5 DEF RingInv, Holds, ring
<1>7. pc'[t] \in {"read", "copy_out"} /\ (pc'[t] = "copy_out" => chars[t] > 1)
  BY <1>1, <1>3 DEF RingTypes
<1>8. chars[t] > 1 => Unread(t)'
  <2> SUFFICES ASSUME chars[t] > 1 PROVE Unread(t)'
    OBVIOUS
  <2>1. /\ chars'[t] = chars[t] - 1 /\ slot'[t] = slot[t] + 1
        /\ due'[t] = Wrap(due[t] + 1, 2 * PAGE_SIZE)
    BY <1>3, <1>1 DEF RingTypes
  <2>2. ASSUME NEW k \in 0..(chars[t] - 2)
        PROVE  page[(slot[t] + 1) + k] = Wrap(Wrap(due[t] + 1, 2 * PAGE_SIZE) + k, 2 * PAGE_SIZE)
    <3>1. k + 1 \in 0..(chars[t] - 1) /\ slot[t] + (k + 1) = (slot[t] + 1) + k
      BY <1>2
    <3>2. Wrap(Wrap(due[t] + 1, 2 * PAGE_SIZE) + k, 2 * PAGE_SIZE) = Wrap(due[t] + (k + 1), 2 * PAGE_SIZE)
      BY <1>2 DEF Wrap
    <3> QED BY <1>1, <3>1, <3>2 DEF Unread
  <2>3. chars'[t] - 1 = chars[t] - 2
    BY <1>2, <2>1
  <2> QED BY <1>1, <1>2, <2>1, <2>2, <2>3 DEF Unread
<1>9. sent' = Wrap(got' + PIPE_SIZE', 2 * PAGE_SIZE)
  BY <1>3, <1>4 DEF RingInv, ring
<1> QED BY <1>3, <1>4, <1>5, <1>6, <1>7, <1>8, <1>9 DEF RingInv

\* A byte is copied in: the next one of the stream, behind those that are there.
LEMMA CopyInKeepsRing ==
  ASSUME RingInv, NEW t \in Task, CopyIn(t)
  PROVE  RingInv'
<1>1. RingTypes /\ pc[t] = "copy_in" /\ Unwritten(t) /\ NextByte(t, "write")
      /\ page' = [page EXCEPT ![slot[t]] = due[t]] /\ SizeIsDistance
  BY PipeSize DEF RingInv, CopyIn, At
<1>2. /\ chars[t] \in 1..PAGE_SIZE /\ slot[t] \in 0..(PAGE_SIZE - 1)
      /\ PAGE_SIZE \in Nat \ {0} /\ slot[t] + chars[t] <= PAGE_SIZE
      /\ due[t] \in 0..(2 * PAGE_SIZE - 1) /\ chars[t] <= PIPE_SIZE
      /\ PIPE_SIZE \in 0..(PAGE_SIZE - 1)
  BY <1>1, PipeAssumption DEF RingTypes, Unwritten, Byte, SizeIsDistance
<1>3. /\ chars' = [chars EXCEPT ![t] = chars[t] - 1]
      /\ IF chars[t] > 1
         THEN /\ pc' = pc /\ slot' = [slot EXCEPT ![t] = slot[t] + 1]
              /\ due' = [due EXCEPT ![t] = Wrap(due[t] + 1, 2 * PAGE_SIZE)]
         ELSE /\ pc' = [pc EXCEPT ![t] = "write"]
              /\ slot' = [slot EXCEPT ![t] = 0] /\ due' = [due EXCEPT ![t] = 0]
      /\ pc' \in [Task -> Where] /\ chars' \in [Task -> 0..PAGE_SIZE]
      /\ slot' \in [Task -> 0..PAGE_SIZE] /\ due' \in [Task -> Byte]
      /\ running' = t /\ UNCHANGED <<ring, left>>
  BY <1>1, <1>2, NextByteIs DEF Where
<1>4. RingTypes' /\ PIPE_SIZE' = PIPE_SIZE
  <2>1. page' \in [0..(PAGE_SIZE - 1) -> Byte \cup {NULL}]
    BY <1>1, <1>2 DEF RingTypes, Byte
  <2> QED BY <1>1, <1>3, <2>1 DEF RingTypes, ring, PIPE_SIZE
<1>5. \A u \in Task : u # t => pc[u] \notin {"copy_in", "copy_out"} /\ pc'[u] = pc[u]
  BY <1>1, <1>3 DEF RingInv, CopyIn, At, RingTypes
<1>6. PICK m : m = PIPE_SIZE - chars[t]
  OBVIOUS
<1>7. /\ m \in 0..(PAGE_SIZE - 2) /\ Holds(m)
      /\ slot[t] = Wrap(tail + m, PAGE_SIZE) /\ due[t] = Wrap(got + m, 2 * PAGE_SIZE)
  <2>1. m \in 0..(PAGE_SIZE - 2) /\ Holds(m)
    BY <1>1, <1>2, <1>6 DEF Unwritten
  <2>2. slot[t] = Wrap(tail + m, PAGE_SIZE)
    <3>1. PICK n : n = PIPE_SIZE
      OBVIOUS
    <3>2. head = Wrap(tail + n, PAGE_SIZE) /\ tail \in 0..(PAGE_SIZE - 1)
      BY <1>1, <1>2, <3>1 DEF SizeIsDistance, Wrap, RingTypes
    <3>3. head = Wrap(slot[t] + chars[t], PAGE_SIZE) /\ chars[t] \in 0..n
          /\ n \in 0..(PAGE_SIZE - 1) /\ m = n - chars[t]
      BY <1>1, <1>2, <1>6, <3>1 DEF Unwritten
    <3> QED BY <1>2, <3>2, <3>3, WrapBack
  <2>3. PICK n : n = PIPE_SIZE
    OBVIOUS
  <2>4. sent = Wrap(got + n, 2 * PAGE_SIZE) /\ sent = Wrap(due[t] + chars[t], 2 * PAGE_SIZE)
    BY <1>1, <2>3 DEF RingInv, Unwritten
  <2>5. due[t] = Wrap(got + m, 2 * PAGE_SIZE)
    <3>1. /\ got \in 0..(2 * PAGE_SIZE - 1) /\ 2 * PAGE_SIZE \in Nat \ {0}
          /\ n \in 0..(2 * PAGE_SIZE - 1) /\ chars[t] \in 0..n /\ m = n - chars[t]
      BY <1>1, <1>2, <1>6, <2>3 DEF RingTypes, Byte
    <3> QED BY <1>2, <2>4, <3>1, WrapBack
  <2> QED BY <2>1, <2>2, <2>5
<1>8. Holds(m + 1)'
  <2> SUFFICES ASSUME NEW k \in 0..m
               PROVE  page'[Wrap(tail + k, PAGE_SIZE)] = Wrap(got + k, 2 * PAGE_SIZE)
    BY <1>3, <1>7 DEF Holds, ring
  <2>1. CASE k = m
    BY <1>1, <1>2, <1>7, <2>1 DEF RingTypes
  <2>2. CASE k # m
    <3>1. k \in 0..(m - 1) /\ page[Wrap(tail + k, PAGE_SIZE)] = Wrap(got + k, 2 * PAGE_SIZE)
      BY <1>7, <2>2 DEF Holds
    <3>2. Wrap(tail + k, PAGE_SIZE) \in 0..(PAGE_SIZE - 1) \ {slot[t]}
      BY <1>1, <1>2, <1>7, <3>1 DEF Wrap, RingTypes
    <3> QED BY <1>1, <3>1, <3>2 DEF RingTypes
  <2> QED BY <2>1, <2>2
<1>9. CASE chars[t] > 1
  <2>1. /\ chars'[t] = chars[t] - 1 /\ slot'[t] = slot[t] + 1 /\ pc' = pc
        /\ due'[t] = Wrap(due[t] + 1, 2 * PAGE_SIZE)
    BY <1>1, <1>3, <1>9 DEF RingTypes
  <2>2. PIPE_SIZE' - chars'[t] = m + 1
    BY <1>2, <1>4, <1>6, <2>1
  <2>3. /\ chars'[t] \in 1..PIPE_SIZE' /\ slot'[t] + chars'[t] <= PAGE_SIZE
        /\ head' = Wrap(slot'[t] + chars'[t], PAGE_SIZE)
    BY <1>1, <1>2, <1>3, <1>4, <1>9, <2>1 DEF Unwritten, ring
  <2>4. sent' = Wrap(due'[t] + chars'[t], 2 * PAGE_SIZE)
    BY <1>1, <1>2, <1>3, <1>9, <2>1 DEF Unwritten, ring, Wrap
  <2>5. Unwritten(t)'
    BY <1>8, <2>2, <2>3, <2>4 DEF Unwritten
  <2>6. sent' = Wrap(got' + PIPE_SIZE', 2 * PAGE_SIZE)
    BY <1>3, <1>4 DEF RingInv, ring
  <2> QED BY <1>1, <1>3, <1>4, <1>5, <2>1, <2>5, <2>6 DEF RingInv
<1>10. CASE ~(chars[t] > 1)
  <2>1. pc'[t] = "write" /\ m + 1 = PIPE_SIZE
    BY <1>1, <1>2, <1>3, <1>6, <1>10 DEF RingTypes
  <2>2. Holds(PIPE_SIZE)'
    BY <1>4, <1>8, <2>1
  <2>3. sent' = Wrap(got' + PIPE_SIZE', 2 * PAGE_SIZE)
    BY <1>3, <1>4 DEF RingInv, ring
  <2> QED BY <1>3, <1>4, <1>5, <2>1, <2>2, <2>3 DEF RingInv
<1> QED BY <1>9, <1>10

\* Every step keeps the invariant if copies do not sleep.
LEMMA RingStep ==
  ASSUME RingInv, ~Faults, [Next]_vars
  PROVE  RingInv'
<1>1. CASE UNCHANGED vars
  BY <1>1, RingStays DEF vars, RingInv, RingTypes
<1>2. ASSUME NEW t \in Task, Close(t) \/ Exit(t) PROVE RingInv'
  <2>1. /\ running = NULL /\ UNCHANGED <<pc, running, left, chunk>>
        /\ UNCHANGED <<page, ring>> \/ (page' = Zeroes /\ EmptyRing)
    BY <1>2 DEF Close, Exit, User, CloseAll, iput
  <2>2. /\ pc' \in [Task -> Where] /\ left' \in [Task -> Nat]
        /\ \A u \in Task : pc[u] \notin {"copy_in", "copy_out"}
    BY <2>1, PipeAssumption DEF RingInv, RingTypes
  <2> QED BY <2>1, <2>2, RingStays, RingStarts
<1>3. ASSUME NEW t \in Task, PipeInode(t) PROVE RingInv'
  <2>1. /\ At(t, "create") /\ pc' = [pc EXCEPT ![t] = "out"] /\ left' = left
        /\ page' = Zeroes /\ EmptyRing /\ UNCHANGED chunk
    BY <1>3 DEF PipeInode, Return
  <2>2. \A u \in Task : pc[u] \notin {"copy_in", "copy_out"}
    BY <2>1, NobodyCopies
  <2>3. /\ pc' \in [Task -> Where]
        /\ \A u \in Task : pc'[u] \notin {"copy_in", "copy_out"}
    BY <2>1, <2>2 DEF RingInv, RingTypes, Where
  <2> QED BY <2>1, <2>3, RingStarts
<1>4. ASSUME NEW t \in Task, NEW p \in {"out", "read", "write", "create"},
             pc[t] \notin {"copy_in", "copy_out"}, pc' = [pc EXCEPT ![t] = p] \/ pc' = pc,
             running \in {NULL, t}, left' \in [Task -> Nat],
             UNCHANGED <<ring, page, chunk>>
      PROVE  RingInv'
  <2>1. \A u \in Task : pc[u] \notin {"copy_in", "copy_out"}
    BY <1>4, PipeAssumption DEF RingInv
  <2>2. pc' \in [Task -> Where] /\ \A u \in Task : pc'[u] \notin {"copy_in", "copy_out"}
    BY <1>4, <2>1 DEF RingInv, RingTypes, Where
  <2> QED BY <1>4, <2>1, <2>2, RingStays
<1>5. ASSUME NEW t \in Task, Dup(t) \/ Fork(t) \/ HandleSignal(t) PROVE RingInv'
  BY <1>4, <1>5 DEF Dup, Fork, HandleSignal, User, RingInv, RingTypes
<1>6. ASSUME NEW t \in Task, SysPipe(t) PROVE RingInv'
  BY <1>4, <1>6 DEF SysPipe, User, RingInv, RingTypes
<1>7. ASSUME NEW t \in Task, SysRead(t) \/ SysWrite(t) PROVE RingInv'
  <2>1. left' \in [Task -> Nat]
    BY <1>7, PipeAssumption DEF SysRead, SysWrite, Call, RingInv, RingTypes
  <2> QED BY <1>4, <1>7, <2>1 DEF SysRead, SysWrite, Call, User, Goto
<1>8. ASSUME NEW t \in Task, NoPipeInode(t) PROVE RingInv'
  BY <1>4, <1>8 DEF NoPipeInode, Return, At, RingInv, RingTypes
<1>9. ASSUME NEW t \in Task, ReadDone(t) \/ ReadEmpty(t) \/ WriteDone(t) \/ WriteFull(t)
      PROVE  RingInv'
  <2>1. left' = [left EXCEPT ![t] = 0] \/ left' = left
    BY <1>9 DEF ReadDone, ReadEmpty, WriteDone, WriteFull, EndCall, Wait
  <2>2. left' \in [Task -> Nat]
    <3>1. left \in [Task -> Nat]
      BY DEF RingInv, RingTypes
    <3>2. [left EXCEPT ![t] = 0] \in [Task -> Nat]
      BY <3>1
    <3> QED BY <2>1, <3>1, <3>2
  <2>3. /\ pc' = [pc EXCEPT ![t] = "out"] \/ pc' = pc
        /\ running \in {NULL, t} /\ pc[t] \notin {"copy_in", "copy_out"}
        /\ UNCHANGED <<ring, page, chunk>>
    BY <1>9 DEF ReadDone, ReadEmpty, WriteDone, WriteFull, EndCall, Wait, Return,
       WakeUpAndSleep, At, NoTransfer
  <2> QED BY <1>4, <2>2, <2>3
<1>10. ASSUME NEW t \in Task, Fault(t) PROVE RingInv'
  BY <1>10 DEF Fault
<1> QED BY <1>1, <1>2, <1>3, <1>5, <1>6, <1>7, <1>8, <1>9, <1>10, ReadChunkKeepsRing,
        WriteChunkKeepsRing, CopyOutKeepsRing, CopyInKeepsRing DEF Next, Kernel

\* If copies do not sleep, what a reader copies are the bytes that were written at
\* its place of the stream, however often the ring wraps and whoever else reads
\* and writes.
THEOREM ReadersReadTheStream == ~Faults /\ Spec => []ReadsTheStream
<1> SUFFICES ASSUME ~Faults PROVE Spec => []ReadsTheStream
  OBVIOUS
<1>1. Init => RingInv
  <2> SUFFICES ASSUME Init PROVE RingInv
    OBVIOUS
  <2>1. 0 \in 0..(PAGE_SIZE - 1) /\ 0 \in Byte /\ 0 \in 0..PAGE_SIZE
    BY PipeAssumption DEF Byte
  <2>2. RingTypes
    BY <2>1 DEF Init, RingTypes, Zeroes, Where
  <2>3. PIPE_SIZE = 0
    BY <2>2, PipeSize DEF SizeIsDistance, Init
  <2>4. sent = Wrap(got + 0, 2 * PAGE_SIZE)
    BY PipeAssumption DEF Init, Wrap
  <2>5. Holds(PIPE_SIZE)
    BY <2>3 DEF Holds
  <2> QED BY <2>2, <2>3, <2>4, <2>5 DEF RingInv, Init
<1>2. RingInv /\ [Next]_vars => RingInv'
  BY RingStep
<1>3. RingInv => ReadsTheStream
  <2> SUFFICES ASSUME RingInv, NEW t \in Task, pc[t] = "copy_out"
               PROVE  page[slot[t]] = due[t]
    BY DEF ReadsTheStream
  <2>1. /\ Unread(t) /\ slot[t] \in Nat /\ due[t] \in 0..(2 * PAGE_SIZE - 1)
        /\ chars[t] \in Nat
    BY DEF RingInv, RingTypes, Byte
  <2>2. 0 \in 0..(chars[t] - 1) /\ slot[t] + 0 = slot[t]
        /\ Wrap(due[t] + 0, 2 * PAGE_SIZE) = due[t]
    BY <2>1, PipeAssumption DEF Unread, Wrap
  <2> QED BY <2>1, <2>2 DEF Unread
<1> QED BY <1>1, <1>2, <1>3, PTL DEF Spec

-----------------------------------------------------------------------------
(***************************************************************************)
(* The counts.  An entry that sys_pipe() has taken has one descriptor, of  *)
(* its own task, until the inode of the pipe is there or has been refused. *)
(***************************************************************************)
Holders(e) == {h \in Task \X Fd : filp[h[1]][h[2]] = e}
FdsFor(t, e) == {d \in Fd : filp[t][d] = e}
Ends == {e \in File : f_count[e] > 0 /\ \A t \in Task : e \notin f[t]}

TakenByPipe(t) ==
    /\ IF pc[t] = "create" THEN \E a, b \in File : a # b /\ f[t] = {a, b}
       ELSE f[t] = {}
    /\ \A e \in f[t] : \E d \in Fd : Holders(e) = {<<t, d>>}

CountTypes ==
    /\ filp \in [Task -> [Fd -> File \cup {NULL}]]
    /\ f \in [Task -> SUBSET File]
    /\ f_count \in [File -> Nat]
    /\ pc \in [Task -> Where]
    /\ i_pipe \in BOOLEAN

CountInv ==
    /\ CountTypes
    /\ \A e \in File : f_count[e] = Cardinality(Holders(e))
    /\ i_count = Cardinality(Ends)
    /\ i_pipe \/ i_count = 0
    /\ \A t \in Task : TakenByPipe(t)

\* All these sets are finite.
LEMMA HoldersAreFinite ==
  /\ IsFiniteSet(File) /\ IsFiniteSet(Fd) /\ NULL \notin File
  /\ \A e : IsFiniteSet(Holders(e)) /\ Cardinality(Holders(e)) \in Nat
  /\ \A t, e : IsFiniteSet(FdsFor(t, e)) /\ Cardinality(FdsFor(t, e)) \in Nat
  /\ IsFiniteSet(Ends) /\ Cardinality(Ends) \in Nat
<1>1. IsFiniteSet(File) /\ IsFiniteSet(Fd) /\ NULL \notin File
  BY PipeAssumption, FS_Interval DEF File, Fd
<1>2. IsFiniteSet(Task \X Fd)
  BY <1>1, PipeAssumption, FS_Product
<1>3. \A e : IsFiniteSet(Holders(e)) /\ Cardinality(Holders(e)) \in Nat
  <2> TAKE e
  <2>1. Holders(e) \subseteq Task \X Fd
    BY DEF Holders
  <2> QED BY <1>2, <2>1, TakeAway
<1>4. \A t, e : IsFiniteSet(FdsFor(t, e)) /\ Cardinality(FdsFor(t, e)) \in Nat
  <2> TAKE t, e
  <2>1. FdsFor(t, e) \subseteq Fd
    BY DEF FdsFor
  <2> QED BY <1>1, <2>1, TakeAway
<1>5. Ends \subseteq File
  BY DEF Ends
<1> QED BY <1>1, <1>3, <1>4, <1>5, TakeAway

\* An entry that is held by a task whose sys_pipe() is not under way is nobody's.
LEMMA HeldIsTakenBy ==
  ASSUME CountInv, NEW t \in Task, pc[t] # "create", NEW d \in Fd, NEW u \in Task
  PROVE  filp[t][d] \notin f[u]
<1> SUFFICES ASSUME filp[t][d] \in f[u] PROVE FALSE
  OBVIOUS
<1>1. TakenByPipe(u) /\ TakenByPipe(t)
  BY DEF CountInv
<1>2. PICK c \in Fd : Holders(filp[t][d]) = {<<u, c>>}
  BY <1>1 DEF TakenByPipe
<1>3. <<t, d>> \in Holders(filp[t][d])
  BY DEF Holders
<1>4. t = u
  BY <1>2, <1>3
<1> QED BY <1>1, <1>4 DEF TakenByPipe

\* Who has a descriptor is counted.
LEMMA HeldIsCounted ==
  ASSUME CountInv, NEW t \in Task, NEW d \in Fd, filp[t][d] # NULL
  PROVE  filp[t][d] \in File /\ f_count[filp[t][d]] > 0
<1>1. filp[t][d] \in File
  BY DEF CountInv, CountTypes
<1>2. <<t, d>> \in Holders(filp[t][d])
  BY DEF Holders
<1>3. Cardinality(Holders(filp[t][d])) # 0
  BY <1>2, HoldersAreFinite, FS_EmptySet
<1> QED BY <1>1, <1>3, HoldersAreFinite DEF CountInv

\* A step of a task that is not in sys_pipe(), and leaves the descriptors alone.
LEMMA CountsStay ==
  ASSUME CountInv, UNCHANGED <<filp, f, f_count, i_pipe, i_count>>,
         pc' \in [Task -> Where],
         \A t \in Task : (pc[t] = "create") <=> (pc'[t] = "create")
  PROVE  CountInv'
<1>1. CountTypes' /\ Ends' = Ends
  BY DEF CountInv, CountTypes, Ends
<1>2. \A e : Holders(e)' = Holders(e)
  BY DEF Holders
<1>3. \A t \in Task : TakenByPipe(t)'
  BY <1>2 DEF CountInv, TakenByPipe
<1> QED BY <1>1, <1>2, <1>3 DEF CountInv

\* Descriptors are closed, and their entries with them when they are the last.
LEMMA CloseKeepsCounts ==
  ASSUME CountInv, NEW t \in Task, pc[t] # "create", NEW fds \in SUBSET Fd,
         CloseAll(t, fds), UNCHANGED <<pc, f>>
  PROVE  CountInv'
<1> DEFINE D(e) == {d \in fds : filp[t][d] = e}
<1>1. PICK count : count = CountsWithout(t, fds)
  OBVIOUS
<1>2. /\ filp' = [filp EXCEPT ![t] = [d \in Fd |-> IF d \in fds THEN NULL ELSE filp[t][d]]]
      /\ f_count' = count /\ iput(Cardinality(Gone(count)))
  BY <1>1 DEF CloseAll
<1>3. \A e : IsFiniteSet(D(e)) /\ Cardinality(D(e)) \in Nat
  <2> TAKE e
  <2>1. D(e) \subseteq Fd
    OBVIOUS
  <2> QED BY <2>1, HoldersAreFinite, TakeAway
<1>4. ASSUME NEW e \in File
      PROVE  /\ Holders(e)' = Holders(e) \ ({t} \X D(e))
             /\ Cardinality(Holders(e)') = Cardinality(Holders(e)) - Cardinality(D(e))
             /\ count[e] = Cardinality(Holders(e)') /\ count[e] \in Nat
             /\ count[e] <= f_count[e]
  <2>1. Holders(e)' = Holders(e) \ ({t} \X D(e))
    <3>1. \A u \in Task, d \in Fd :
            filp'[u][d] = IF u = t /\ d \in fds THEN NULL ELSE filp[u][d]
      BY <1>2 DEF CountInv, CountTypes
    <3> QED BY <3>1, HoldersAreFinite DEF Holders
  <2>2. {t} \X D(e) \subseteq Holders(e)
    BY DEF Holders
  <2>3. Cardinality({t} \X D(e)) = Cardinality(D(e))
    <3>1. IsFiniteSet(D(e))
      BY <1>3
    <3> HIDE DEF D
    <3> QED BY <3>1, PairsWith
  <2>4. /\ Cardinality(Holders(e)') = Cardinality(Holders(e)) - Cardinality(D(e))
        /\ Cardinality(Holders(e)') \in Nat
    BY <2>1, <2>2, <2>3, HoldersAreFinite, TakeAway
  <2>5. count[e] = f_count[e] - Cardinality(D(e)) /\ f_count[e] = Cardinality(Holders(e))
    BY <1>1 DEF CountsWithout, CountInv
  <2> QED BY <1>3, <2>1, <2>4, <2>5, HoldersAreFinite
<1>5. \A u \in Task : \A e \in f[u] : e \in File /\ D(e) = {}
  BY HeldIsTakenBy DEF CountInv, CountTypes
<1>6. Gone(count) \subseteq Ends
  <2> SUFFICES ASSUME NEW e \in Gone(count), NEW u \in Task, e \in f[u] PROVE FALSE
    BY DEF Gone, Ends
  <2>1. e \in File /\ f_count[e] > 0 /\ count[e] = 0 /\ D(e) = {}
    BY <1>5 DEF Gone
  <2>2. count[e] = f_count[e] - 0
    BY <2>1, <1>1, FS_EmptySet DEF CountsWithout
  <2> QED BY <2>1, <2>2 DEF CountInv, CountTypes
<1>7. Ends' = Ends \ Gone(count)
  <2> SUFFICES ASSUME NEW e \in File
               PROVE  count[e] > 0 <=> f_count[e] > 0 /\ ~(f_count[e] > 0 /\ count[e] = 0)
    BY <1>2 DEF Ends, Gone
  <2>1. f_count[e] \in Nat /\ count[e] \in Nat /\ count[e] <= f_count[e]
    BY <1>4 DEF CountInv, CountTypes
  <2> QED BY <2>1
<1>8. PICK n : n = Cardinality(Gone(count))
  OBVIOUS
<1>9. i_count' = Cardinality(Ends') /\ i_count' \in Nat /\ n <= i_count /\ n \in Nat
  <2>1. i_count' = i_count - n /\ i_count = Cardinality(Ends)
    BY <1>2, <1>8 DEF iput, CountInv
  <2> QED BY <1>6, <1>7, <1>8, <2>1, HoldersAreFinite, TakeAway
<1>10. i_pipe' \in BOOLEAN /\ (i_pipe' \/ i_count' = 0)
  <2>1. iput(n) /\ i_count' = i_count - n
    BY <1>2, <1>8 DEF iput
  <2>2. CASE i_count' > 0 \/ ~i_pipe
    <3>1. i_pipe' = i_pipe
      BY <2>1, <2>2 DEF iput
    <3>2. ~i_pipe => i_count' = 0
      BY <1>9, <2>1 DEF CountInv
    <3> QED BY <3>1, <3>2 DEF CountInv, CountTypes
  <2>3. CASE ~(i_count' > 0 \/ ~i_pipe)
    <3>1. i_pipe' = FALSE
      BY <2>1, <2>3 DEF iput
    <3>2. i_count' = 0
      BY <1>9, <2>3
    <3> QED BY <3>1, <3>2
  <2> QED BY <2>2, <2>3
<1>11. CountTypes'
  <2>1. filp' \in [Task -> [Fd -> File \cup {NULL}]]
    BY <1>2 DEF CountInv, CountTypes
  <2>2. f_count' \in [File -> Nat]
    BY <1>1, <1>2, <1>4 DEF CountsWithout
  <2> QED BY <1>10, <2>1, <2>2 DEF CountInv, CountTypes
<1>12. \A u \in Task : TakenByPipe(u)'
  <2> SUFFICES ASSUME NEW u \in Task PROVE TakenByPipe(u)'
    OBVIOUS
  <2>1. TakenByPipe(u)
    BY DEF CountInv
  <2>2. \A e \in f[u] : Holders(e)' = Holders(e)
    BY <1>4, <1>5
  <2> QED BY <2>1, <2>2 DEF TakenByPipe
<1> QED BY <1>2, <1>4, <1>9, <1>10, <1>11, <1>12 DEF CountInv

\* More descriptors for entries that are open: dup() and fork().  Task u gets the
\* descriptors new, as far as they lead to something.
LEMMA ShareKeepsCounts ==
  ASSUME CountInv, NEW t \in Task, pc[t] # "create", NEW u \in Task, pc[u] # "create",
         NEW new, new \in [Fd -> File \cup {NULL}],
         \A d \in Fd : new[d] # NULL => filp[u][d] = NULL /\ \E c \in Fd : new[d] = filp[t][c],
         filp' = [filp EXCEPT ![u] = [d \in Fd |-> IF new[d] = NULL THEN filp[u][d]
                                                  ELSE new[d]]],
         \A e \in File : f_count'[e] = f_count[e] + Cardinality({d \in Fd : new[d] = e}),
         f_count' = [e \in File |-> f_count'[e]],
         UNCHANGED <<f, i_pipe, i_count, pc>>
  PROVE  CountInv'
<1> DEFINE D(e) == {d \in Fd : new[d] = e}
<1>1. \A e : IsFiniteSet(D(e)) /\ Cardinality(D(e)) \in Nat
  <2> TAKE e
  <2>1. D(e) \subseteq Fd
    OBVIOUS
  <2> QED BY <2>1, HoldersAreFinite, TakeAway
<1>2. ASSUME NEW e \in File
      PROVE  /\ Holders(e)' = Holders(e) \cup ({u} \X D(e))
             /\ f_count'[e] = Cardinality(Holders(e)') /\ f_count'[e] \in Nat
             /\ f_count'[e] > 0 <=> f_count[e] > 0
             /\ D(e) = {} => Holders(e)' = Holders(e)
  <2>1. Holders(e)' = Holders(e) \cup ({u} \X D(e)) /\ Holders(e) \cap ({u} \X D(e)) = {}
    <3>1. \A v \in Task, d \in Fd :
            filp'[v][d] = IF v = u /\ new[d] # NULL THEN new[d] ELSE filp[v][d]
      BY DEF CountInv, CountTypes
    <3>2. e # NULL
      BY HoldersAreFinite
    <3> QED BY <3>1, <3>2 DEF Holders
  <2>2. IsFiniteSet(D(e)) /\ IsFiniteSet(Holders(e)) /\ Cardinality(Holders(e)) \in Nat
    BY <1>1, HoldersAreFinite
  <2>3. f_count'[e] = f_count[e] + Cardinality(D(e)) /\ f_count[e] = Cardinality(Holders(e))
    BY DEF CountInv
  <2>4. D(e) # {} => f_count[e] > 0
    <3> SUFFICES ASSUME NEW d \in D(e) PROVE f_count[e] > 0
      OBVIOUS
    <3>1. PICK c \in Fd : e = filp[t][c]
      BY HoldersAreFinite
    <3> QED BY <3>1, HoldersAreFinite, HeldIsCounted
  <2>5. D(e) = {} => Cardinality(D(e)) = 0
    BY FS_EmptySet
  <2>6. Cardinality(D(e)) \in Nat
    BY <1>1
  <2>9. D(e) = {} => Holders(e)' = Holders(e)
    BY <2>1
  <2> HIDE DEF D
  <2>7. IsFiniteSet({u} \X D(e)) /\ Cardinality({u} \X D(e)) = Cardinality(D(e))
    BY <2>2, PairsWith
  <2>8. Cardinality(Holders(e)') = Cardinality(Holders(e)) + Cardinality(D(e))
    <3>1. PICK A, B : A = Holders(e) /\ B = {u} \X D(e)
      OBVIOUS
    <3>2. Cardinality(A \cup B) = Cardinality(A) + Cardinality(B)
      BY <2>1, <2>2, <2>7, <3>1, DisjointUnion
    <3> QED BY <2>1, <2>7, <3>1, <3>2
  <2> QED BY <2>1, <2>2, <2>3, <2>4, <2>5, <2>6, <2>8, <2>9
<1>3. Ends' = Ends
  BY <1>2 DEF Ends
<1>4. \A v \in Task : \A e \in f[v] : e \in File /\ D(e) = {}
  BY HeldIsTakenBy, HoldersAreFinite DEF CountInv, CountTypes
<1>5. CountTypes'
  <2>1. filp' \in [Task -> [Fd -> File \cup {NULL}]]
    BY DEF CountInv, CountTypes
  <2>2. f_count' \in [File -> Nat]
    BY <1>2
  <2> QED BY <2>1, <2>2 DEF CountInv, CountTypes
<1>6. \A v \in Task : TakenByPipe(v)'
  <2> SUFFICES ASSUME NEW v \in Task PROVE TakenByPipe(v)'
    OBVIOUS
  <2>1. TakenByPipe(v)
    BY DEF CountInv
  <2>2. \A e \in f[v] : Holders(e)' = Holders(e)
    <3> HIDE DEF D
    <3> QED BY <1>2, <1>4
  <2> QED BY <2>1, <2>2 DEF TakenByPipe
<1> QED BY <1>2, <1>3, <1>5, <1>6 DEF CountInv

\* dup()
LEMMA DupKeepsCounts ==
  ASSUME CountInv, NEW t \in Task, Dup(t)
  PROVE  CountInv'
<1>1. PICK d \in Fd \ FreeFds(t), arg \in Fd :
        \E n \in Lowest(1, {n \in FreeFds(t) : n >= arg}) :
           /\ filp' = [filp EXCEPT ![t][n] = filp[t][d]]
           /\ f_count' = [f_count EXCEPT ![filp[t][d]] = f_count[filp[t][d]] + 1]
  BY DEF Dup
<1>2. PICK n \in Lowest(1, {n \in FreeFds(t) : n >= arg}) :
           /\ filp' = [filp EXCEPT ![t][n] = filp[t][d]]
           /\ f_count' = [f_count EXCEPT ![filp[t][d]] = f_count[filp[t][d]] + 1]
  BY <1>1
<1>3. n \in Fd /\ filp[t][n] = NULL
  BY DEF Lowest, FreeFds
<1>4. PICK e : e = filp[t][d]
  OBVIOUS
<1>5. e \in File /\ e # NULL
  BY <1>4, HeldIsCounted DEF FreeFds
<1>6. PICK new : new = [c \in Fd |-> IF c = n THEN e ELSE NULL]
  OBVIOUS
<1>7. new \in [Fd -> File \cup {NULL}] /\ \A c \in Fd : new[c] # NULL <=> c = n
  BY <1>5, <1>6
<1>8. filp' = [filp EXCEPT ![t] = [c \in Fd |-> IF new[c] = NULL THEN filp[t][c] ELSE new[c]]]
  BY <1>2, <1>3, <1>4, <1>6, <1>7 DEF CountInv, CountTypes
<1>9. \A g \in File : f_count'[g] = f_count[g] + Cardinality({c \in Fd : new[c] = g})
  <2> TAKE g \in File
  <2>1. CASE g = e
    <3>1. {c \in Fd : new[c] = g} = {n}
      BY <1>3, <1>5, <1>6, <2>1
    <3>2. Cardinality({c \in Fd : new[c] = g}) = 1
      BY <3>1, FS_Singleton
    <3> QED BY <1>2, <1>4, <2>1, <3>2 DEF CountInv, CountTypes
  <2>2. CASE g # e
    <3>1. {c \in Fd : new[c] = g} = {}
      BY <1>6, <2>2, HoldersAreFinite
    <3>2. Cardinality({c \in Fd : new[c] = g}) = 0
      BY <3>1, FS_EmptySet
    <3> QED BY <1>2, <1>4, <2>2, <3>2 DEF CountInv, CountTypes
  <2> QED BY <2>1, <2>2
<1>10. /\ f_count' = [g \in File |-> f_count'[g]] /\ pc[t] # "create"
       /\ UNCHANGED <<f, i_pipe, i_count, pc>>
  BY <1>2 DEF Dup, User, CountInv, CountTypes
<1>11. \A c \in Fd : new[c] # NULL => filp[t][c] = NULL /\ \E b \in Fd : new[c] = filp[t][b]
  BY <1>3, <1>4, <1>6, <1>7
<1> QED BY <1>7, <1>8, <1>9, <1>10, <1>11, ShareKeepsCounts

\* fork()
LEMMA ForkKeepsCounts ==
  ASSUME CountInv, NEW t \in Task, Fork(t)
  PROVE  CountInv'
<1>1. PICK child \in Task : /\ pc[child] = "out" /\ FreeFds(child) = Fd
                            /\ filp' = [filp EXCEPT ![child] = filp[t]]
  BY DEF Fork
<1>2. PICK new : new = filp[t]
  OBVIOUS
<1>3. new \in [Fd -> File \cup {NULL}]
  BY <1>2 DEF CountInv, CountTypes
<1>4. \A d \in Fd : filp[child][d] = NULL
  BY <1>1 DEF FreeFds
<1>5. filp' = [filp EXCEPT ![child] = [d \in Fd |-> IF new[d] = NULL THEN filp[child][d]
                                                   ELSE new[d]]]
  <2>1. new = [d \in Fd |-> IF new[d] = NULL THEN filp[child][d] ELSE new[d]]
    BY <1>3, <1>4
  <2> QED BY <1>1, <1>2, <2>1
<1>6. /\ \A e \in File : f_count'[e] = f_count[e] + Cardinality({d \in Fd : new[d] = e})
      /\ f_count' = [e \in File |-> f_count'[e]] /\ pc[t] # "create"
      /\ UNCHANGED <<f, i_pipe, i_count, pc>>
  BY <1>2 DEF Fork, User
<1>7. \A d \in Fd : new[d] # NULL => filp[child][d] = NULL /\ \E c \in Fd : new[d] = filp[t][c]
  BY <1>2, <1>4
<1>8. pc[child] # "create"
  BY <1>1
<1> QED BY <1>3, <1>5, <1>6, <1>7, <1>8, ShareKeepsCounts

\* The two entries of the file table and the two descriptors that sys_pipe() takes.
LEMMA LowestTwo ==
  ASSUME NEW S \in SUBSET Nat, IsFiniteSet(S), Cardinality(Lowest(2, S)) = 2
  PROVE  /\ Min(Lowest(2, S)) \in S /\ Max(Lowest(2, S)) \in S
         /\ Min(Lowest(2, S)) # Max(Lowest(2, S))
         /\ Lowest(2, S) = {Min(Lowest(2, S)), Max(Lowest(2, S))}
<1>1. PICK T : T = Lowest(2, S)
  OBVIOUS
<1>2. T \subseteq S /\ IsFiniteSet(T) /\ Cardinality(T) = 2
  BY <1>1, TakeAway DEF Lowest
<1>3. PICK a \in T, b \in T : a # b /\ T = {a, b}
  BY <1>2, TwoMembers
<1>4. a \in Nat /\ b \in Nat
  BY <1>2, <1>3
<1>5. Min(T) \in T /\ Max(T) \in T /\ Min(T) # Max(T)
  <2>1. CASE a < b
    BY <1>3, <1>4, <2>1 DEF Min, Max
  <2>2. CASE b < a
    BY <1>3, <1>4, <2>2 DEF Min, Max
  <2> QED BY <1>3, <1>4, <2>1, <2>2
<1> QED BY <1>1, <1>2, <1>3, <1>5

\* sys_pipe() up to get_pipe_inode().
LEMMA SysPipeKeepsCounts ==
  ASSUME CountInv, NEW t \in Task, SysPipe(t)
  PROVE  CountInv'
<1>1. PICK es, ds : es = Lowest(2, Unused) /\ ds = Lowest(2, FreeFds(t))
  OBVIOUS
<1>2. PICK lo, hi : lo = Min(es) /\ hi = Max(es)
  OBVIOUS
<1>3. PICK dl, dh : dl = Min(ds) /\ dh = Max(ds)
  OBVIOUS
<1>4. /\ lo \in Unused /\ hi \in Unused /\ lo # hi /\ es = {lo, hi}
      /\ dl \in FreeFds(t) /\ dh \in FreeFds(t) /\ dl # dh /\ ds = {dl, dh}
  <2>1. /\ Unused \in SUBSET Nat /\ IsFiniteSet(Unused)
        /\ FreeFds(t) \in SUBSET Nat /\ IsFiniteSet(FreeFds(t))
    <3>1. Unused \subseteq File /\ FreeFds(t) \subseteq Fd
      BY DEF Unused, FreeFds
    <3>2. File \subseteq Nat /\ Fd \subseteq Nat
      BY DEF File, Fd
    <3> QED BY <3>1, <3>2, HoldersAreFinite, TakeAway
  <2>2. Cardinality(es) = 2 /\ Cardinality(ds) = 2
    BY <1>1 DEF SysPipe
  <2> QED BY <1>1, <1>2, <1>3, <2>1, <2>2, LowestTwo
<1>5. /\ pc[t] = "out" /\ pc' = [pc EXCEPT ![t] = "create"] /\ f' = [f EXCEPT ![t] = es]
      /\ f_count' = [e \in File |-> IF e \in es THEN 1 ELSE f_count[e]]
      /\ UNCHANGED <<i_pipe, i_count>>
      /\ filp' = [filp EXCEPT ![t] =
                    [d \in Fd |-> IF d \notin ds THEN filp[t][d]
                                 ELSE IF d = dl THEN lo ELSE hi]]
  BY <1>1, <1>2, <1>3 DEF SysPipe, User
<1>6. /\ \A u \in Task, d \in Fd :
           filp'[u][d] = IF u = t /\ d = dl THEN lo ELSE IF u = t /\ d = dh THEN hi
                         ELSE filp[u][d]
      /\ filp[t][dl] = NULL /\ filp[t][dh] = NULL /\ dl \in Fd /\ dh \in Fd
      /\ lo \in File /\ hi \in File
  BY <1>4, <1>5 DEF CountInv, CountTypes, FreeFds, Unused
<1>7. Holders(lo) = {} /\ Holders(hi) = {}
  <2>1. Cardinality(Holders(lo)) = 0 /\ Cardinality(Holders(hi)) = 0
    BY <1>4 DEF CountInv, Unused
  <2> QED BY <2>1, HoldersAreFinite, FS_EmptySet
<1>8. ASSUME NEW e \in File
      PROVE  Holders(e)' = IF e = lo THEN {<<t, dl>>} ELSE IF e = hi THEN {<<t, dh>>}
                           ELSE Holders(e)
  <2>1. e # NULL
    BY HoldersAreFinite
  <2>2. CASE e = lo
    BY <1>4, <1>6, <1>7, <2>1, <2>2 DEF Holders
  <2>3. CASE e = hi
    BY <1>4, <1>6, <1>7, <2>1, <2>3 DEF Holders
  <2>4. CASE e # lo /\ e # hi
    BY <1>4, <1>6, <2>1, <2>4 DEF Holders
  <2> QED BY <1>4, <2>2, <2>3, <2>4
<1>9. CountTypes'
  <2>1. filp' \in [Task -> [Fd -> File \cup {NULL}]]
    BY <1>5, <1>6 DEF CountInv, CountTypes
  <2>2. es \in SUBSET File
    BY <1>4, <1>6
  <2> QED BY <1>5, <2>1, <2>2 DEF CountInv, CountTypes, Where
<1>10. \A e \in File : f_count'[e] = Cardinality(Holders(e)')
  <2> TAKE e \in File
  <2>1. Cardinality({<<t, dl>>}) = 1 /\ Cardinality({<<t, dh>>}) = 1
    BY FS_Singleton
  <2> QED BY <1>4, <1>5, <1>8, <2>1 DEF CountInv
<1>11. \A u \in Task : f'[u] = IF u = t THEN es ELSE f[u]
  BY <1>5 DEF CountInv, CountTypes
<1>12. f[t] = {} /\ f_count[lo] = 0 /\ f_count[hi] = 0
  BY <1>4, <1>5 DEF CountInv, TakenByPipe, Unused
<1>13. Ends' = Ends
  <2> SUFFICES ASSUME NEW e \in File
               PROVE  (f_count'[e] > 0 /\ \A u \in Task : e \notin f'[u]) <=>
                      (f_count[e] > 0 /\ \A u \in Task : e \notin f[u])
    BY DEF Ends
  <2>1. CASE e \in es
    BY <1>4, <1>11, <1>12, <2>1
  <2>2. CASE e \notin es
    BY <1>5, <1>11, <1>12, <2>2
  <2> QED BY <2>1, <2>2
<1>14. \A u \in Task : TakenByPipe(u)'
  <2> TAKE u \in Task
  <2>1. CASE u = t
    <3>1. pc'[t] = "create" /\ f'[t] = {lo, hi}
      BY <1>4, <1>5, <1>11 DEF CountInv, CountTypes
    <3> QED BY <1>4, <1>6, <1>8, <2>1, <3>1 DEF TakenByPipe
  <2>2. CASE u # t
    <3>1. pc'[u] = pc[u] /\ f'[u] = f[u] /\ TakenByPipe(u)
      BY <1>5, <1>11, <2>2 DEF CountInv, CountTypes
    <3>2. \A e \in f[u] : e \in File /\ e # lo /\ e # hi
      BY <1>7, <3>1 DEF TakenByPipe, CountInv, CountTypes
    <3>3. \A e \in f[u] : Holders(e)' = Holders(e)
      BY <1>8, <3>2
    <3> QED BY <3>1, <3>3 DEF TakenByPipe
  <2> QED BY <2>1, <2>2
<1> QED BY <1>5, <1>9, <1>10, <1>13, <1>14 DEF CountInv

\* The inode of the pipe is there, or is refused.
LEMMA CreateKeepsCounts ==
  ASSUME CountInv, NEW t \in Task, PipeInode(t) \/ NoPipeInode(t)
  PROVE  CountInv'
<1>1. /\ pc[t] = "create" /\ f' = [f EXCEPT ![t] = {}] /\ pc' = [pc EXCEPT ![t] = "out"]
  BY DEF PipeInode, NoPipeInode, At, Return
<1>2. PICK a \in File, b \in File : a # b /\ f[t] = {a, b}
  BY <1>1 DEF CountInv, TakenByPipe
<1>3. \A u \in Task : f'[u] = IF u = t THEN {} ELSE f[u]
  BY <1>1 DEF CountInv, CountTypes
<1>4. \A u \in Task : u # t => f[u] \cap f[t] = {}
  <2> SUFFICES ASSUME NEW u \in Task, u # t, NEW e \in f[u], e \in f[t] PROVE FALSE
    OBVIOUS
  <2>1. TakenByPipe(t) /\ TakenByPipe(u)
    BY DEF CountInv
  <2>2. PICK d \in Fd : Holders(e) = {<<t, d>>}
    BY <2>1 DEF TakenByPipe
  <2>3. PICK c \in Fd : Holders(e) = {<<u, c>>}
    BY <2>1 DEF TakenByPipe
  <2>4. <<t, d>> = <<u, c>>
    BY <2>2, <2>3
  <2> QED BY <2>4
<1>5. \A e \in f[t] : \E d \in Fd : Holders(e) = {<<t, d>>}
  BY DEF CountInv, TakenByPipe
<1>6. CASE PipeInode(t)
  <2>1. UNCHANGED <<filp, f_count>> /\ i_count' = 2 /\ i_pipe' = TRUE /\ ~i_pipe
    BY <1>6 DEF PipeInode
  <2>2. Ends = {}
    BY <2>1, HoldersAreFinite, FS_EmptySet DEF CountInv
  <2>3. f_count[a] > 0 /\ f_count[b] > 0
    <3>1. Cardinality(Holders(a)) = 1 /\ Cardinality(Holders(b)) = 1
      <4>1. PICK da, db : Holders(a) = {<<t, da>>} /\ Holders(b) = {<<t, db>>}
        BY <1>2, <1>5
      <4>2. Cardinality({<<t, da>>}) = 1 /\ Cardinality({<<t, db>>}) = 1
        BY FS_Singleton
      <4> QED BY <4>1, <4>2
    <3> QED BY <3>1 DEF CountInv
  <2>4. Ends' = {a, b}
    <3>1. \A e \in File : (f_count[e] > 0 /\ \A u \in Task : e \notin f'[u]) <=> e \in {a, b}
      <4> TAKE e \in File
      <4>1. CASE e \in {a, b}
        BY <1>2, <1>3, <1>4, <2>3, <4>1
      <4>2. CASE e \notin {a, b}
        BY <1>2, <1>3, <2>2, <4>2 DEF Ends
      <4> QED BY <4>1, <4>2
    <3> QED BY <2>1, <3>1 DEF Ends
  <2>5. i_count' = Cardinality(Ends')
    BY <1>2, <2>1, <2>4, TwoAreTwo
  <2>6. \A e : Holders(e)' = Holders(e)
    BY <2>1 DEF Holders
  <2>7. \A u \in Task : TakenByPipe(u)'
    <3> TAKE u \in Task
    <3>1. TakenByPipe(u) /\ pc'[u] = IF u = t THEN "out" ELSE pc[u]
      BY <1>1 DEF CountInv, CountTypes
    <3> QED BY <1>3, <2>6, <3>1 DEF TakenByPipe
  <2>8. CountTypes'
    BY <1>1, <2>1 DEF CountInv, CountTypes, Where
  <2> QED BY <2>1, <2>5, <2>6, <2>7, <2>8 DEF CountInv
<1>7. CASE NoPipeInode(t)
  <2>1. /\ filp' = [filp EXCEPT ![t] =
                      [d \in Fd |-> IF filp[t][d] \in f[t] THEN NULL ELSE filp[t][d]]]
        /\ f_count' = [e \in File |-> IF e \in f[t] THEN 0 ELSE f_count[e]]
        /\ UNCHANGED <<i_pipe, i_count>>
    BY <1>7 DEF NoPipeInode
  <2>2. \A u \in Task, d \in Fd :
          filp'[u][d] = IF u = t /\ filp[t][d] \in f[t] THEN NULL ELSE filp[u][d]
    BY <2>1 DEF CountInv, CountTypes
  <2>3. \A e \in File : Holders(e)' = IF e \in f[t] THEN {} ELSE Holders(e)
    <3> TAKE e \in File
    <3>1. e # NULL
      BY HoldersAreFinite
    <3>2. CASE e \in f[t]
      <4>1. PICK d \in Fd : Holders(e) = {<<t, d>>}
        BY <1>5, <3>2
      <4>2. \A u \in Task, c \in Fd : filp'[u][c] = e => u = t /\ c = d /\ filp[t][c] = e
        <5> SUFFICES ASSUME NEW u \in Task, NEW c \in Fd, filp'[u][c] = e
                     PROVE  u = t /\ c = d /\ filp[t][c] = e
          OBVIOUS
        <5>1. filp[u][c] = e
          BY <2>2, <3>1
        <5>2. <<u, c>> \in Holders(e)
          BY <5>1 DEF Holders
        <5>3. <<u, c>> = <<t, d>>
          BY <4>1, <5>2
        <5> QED BY <5>1, <5>3
      <4> QED BY <2>2, <3>1, <3>2, <4>2 DEF Holders
    <3>3. CASE e \notin f[t]
      BY <2>2, <3>1, <3>3 DEF Holders
    <3> QED BY <3>2, <3>3
  <2>4. \A e \in File : f_count'[e] = Cardinality(Holders(e)')
    BY <2>1, <2>3, FS_EmptySet DEF CountInv
  <2>5. Ends' = Ends
    <3> SUFFICES ASSUME NEW e \in File
                 PROVE  (f_count'[e] > 0 /\ \A u \in Task : e \notin f'[u]) <=>
                        (f_count[e] > 0 /\ \A u \in Task : e \notin f[u])
      BY DEF Ends
    <3> QED BY <1>3, <2>1
  <2>6. \A u \in Task : TakenByPipe(u)'
    <3> TAKE u \in Task
    <3>1. TakenByPipe(u) /\ pc'[u] = IF u = t THEN "out" ELSE pc[u]
      BY <1>1 DEF CountInv, CountTypes
    <3>2. u # t => \A e \in f[u] : Holders(e)' = Holders(e)
      BY <1>4, <2>3 DEF CountInv, CountTypes
    <3> QED BY <1>3, <3>1, <3>2 DEF TakenByPipe
  <2>7. CountTypes'
    <3>1. filp' \in [Task -> [Fd -> File \cup {NULL}]]
      BY <2>1 DEF CountInv, CountTypes
    <3> QED BY <1>1, <2>1, <3>1 DEF CountInv, CountTypes, Where
  <2> QED BY <2>1, <2>4, <2>5, <2>6, <2>7 DEF CountInv
<1> QED BY <1>6, <1>7

\* Every step keeps the counts.
LEMMA CountInvStep == CountInv /\ [Next]_vars => CountInv'
<1> SUFFICES ASSUME CountInv, [Next]_vars PROVE CountInv'
  OBVIOUS
<1>1. CASE UNCHANGED vars
  BY <1>1, CountsStay DEF vars, files, CountInv, CountTypes
<1>2. ASSUME NEW t \in Task, Close(t) \/ Exit(t) PROVE CountInv'
  <2>1. pc[t] = "out" /\ UNCHANGED <<pc, f>> /\ \E fds \in SUBSET Fd : CloseAll(t, fds)
    BY <1>2 DEF Close, Exit, User
  <2> QED BY <2>1, CloseKeepsCounts
<1>3. ASSUME NEW t \in Task, NEW p \in Where \ {"create"}, pc[t] # "create",
             pc' = [pc EXCEPT ![t] = p] \/ pc' = pc,
             UNCHANGED <<files, i_pipe, i_count, f>>
      PROVE  CountInv'
  <2>1. pc' \in [Task -> Where] /\ \A u \in Task : (pc[u] = "create") <=> (pc'[u] = "create")
    BY <1>3 DEF CountInv, CountTypes
  <2> QED BY <1>3, <2>1, CountsStay DEF files
<1>4. ASSUME NEW t \in Task, HandleSignal(t) \/ SysRead(t) \/ SysWrite(t) PROVE CountInv'
  BY <1>3, <1>4 DEF HandleSignal, SysRead, SysWrite, Call, User, Goto, Where
<1>5. ASSUME NEW t \in Task, ReadDone(t) \/ ReadEmpty(t) \/ WriteDone(t) \/ WriteFull(t)
      PROVE  CountInv'
  BY <1>3, <1>5 DEF ReadDone, ReadEmpty, WriteDone, WriteFull, EndCall, Wait, Return,
     WakeUpAndSleep, At, NoTransfer, Where
<1>6. ASSUME NEW t \in Task, ReadChunk(t) \/ WriteChunk(t) PROVE CountInv'
  BY <1>3, <1>6 DEF ReadChunk, WriteChunk, At, Goto, Where
<1>7. ASSUME NEW t \in Task, CopyOut(t) \/ CopyIn(t) PROVE CountInv'
  <2>1. /\ pc[t] \in {"copy_in", "copy_out"}
        /\ \E p \in {"read", "write", pc[t]} : pc' = [pc EXCEPT ![t] = p]
        /\ UNCHANGED <<files, i_pipe, i_count, f>>
    BY <1>7 DEF CopyOut, CopyIn, NextByte, Goto, At
  <2> QED BY <1>3, <2>1 DEF Where
<1>8. ASSUME NEW t \in Task, Fault(t) PROVE CountInv'
  BY <1>3, <1>8 DEF Fault, Where
<1> QED BY <1>1, <1>2, <1>4, <1>5, <1>6, <1>7, <1>8, DupKeepsCounts, ForkKeepsCounts,
        SysPipeKeepsCounts, CreateKeepsCounts DEF Next, Kernel

\* Every descriptor is counted in the file table and every open end of the pipe in
\* its inode: "no readers" and "no writers" are what i_count says, whatever tasks
\* dup, fork, exit, close, and fail to make pipes, with or without page faults.
THEOREM CountsAreTheHolders == Spec => []CountsAreHolders
<1>1. Init => CountInv
  <2> SUFFICES ASSUME Init PROVE CountInv
    OBVIOUS
  <2>1. NULL \notin File
    BY HoldersAreFinite
  <2>2. CountTypes
    BY DEF Init, CountTypes, Where
  <2>3. \A e \in File : Holders(e) = {}
    BY <2>1 DEF Init, Holders
  <2>4. Ends = {}
    BY DEF Init, Ends
  <2> QED BY <2>2, <2>3, <2>4, FS_EmptySet DEF CountInv, Init, TakenByPipe
<1>2. CountInv => CountsAreHolders
  BY DEF CountInv, CountsAreHolders, Holders, Ends
<1> QED BY <1>1, <1>2, CountInvStep, PTL DEF Spec
=============================================================================
