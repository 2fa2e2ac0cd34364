--------------------------- MODULE RequestProofs ---------------------------
(***************************************************************************)
(* Proofs about the block request queue, for a table of any size, any      *)
(* number of tasks and of blocks, and any failures of the controller.      *)
(***************************************************************************)
EXTENDS RequestQueue, FiniteSetTheorems, TLAPS

-----------------------------------------------------------------------------
(***************************************************************************)
(* Sets of numbers.                                                        *)
(***************************************************************************)
\* A set of natural numbers that is not empty has a least member.
LEMMA LeastNatural ==
  ASSUME NEW S \in SUBSET Nat, S # {}
  PROVE  \E m \in S : \A n \in S : m <= n
<1>1. IsWellFoundedOn(OpToRel(<, Nat), Nat)
  BY NatLessThanWellFounded
<1>2. PICK m \in S : \A n \in S : <<n, m>> \notin OpToRel(<, Nat)
  BY <1>1, WFMin
<1>3. \A n \in S : <<n, m>> \in OpToRel(<, Nat) <=> n < m
  BY DEF OpToRel
<1>4. \A n \in S : ~(n < m)
  BY <1>2, <1>3
<1>5. \A n \in S : n \in Nat
  OBVIOUS
<1>6. \A n \in S : m <= n
  BY <1>4, <1>5
<1> QED BY <1>6

\* With an upper bound it has a greatest one.
LEMMA GreatestNatural ==
  ASSUME NEW S \in SUBSET Nat, S # {}, NEW b \in Nat, \A n \in S : n <= b
  PROVE  \E m \in S : \A n \in S : n <= m
<1> DEFINE U == {u \in Nat : \A n \in S : n <= u}
<1>1. U \in SUBSET Nat /\ U # {}
  OBVIOUS
<1>2. PICK m \in U : \A u \in U : m <= u
  BY <1>1, LeastNatural
<1>3. CASE m \in S
  BY <1>3
<1>4. CASE m \notin S
  <2>1. \A n \in S : n < m
    BY <1>4
  <2>2. PICK s \in S : TRUE
    OBVIOUS
  <2>3. s < m /\ s \in Nat /\ m \in Nat
    BY <2>1
  <2>4. m - 1 \in Nat
    BY <2>3
  <2>5. \A n \in S : n <= m - 1
    BY <2>1
  <2>6. m - 1 \in U
    BY <2>4, <2>5
  <2>7. m <= m - 1
    BY <2>6, <1>2
  <2> QED BY <2>7, <2>3
<1> QED BY <1>3, <1>4

-----------------------------------------------------------------------------
(***************************************************************************)
(* The list.                                                               *)
(***************************************************************************)
\* q is the list, of n entries: IsList without the operators on sequences.
Chain(n, q) ==
    /\ q \in [1..n -> Slot]
    /\ current_request = IF n = 0 THEN NULL ELSE q[1]
    /\ \A i \in Slot : i \in Used <=> \E k \in 1..n : q[k] = i
    /\ \A j, k \in 1..n : q[j] = q[k] => j = k
    /\ \A k \in 1..n : request[q[k]].next = IF k = n THEN NULL ELSE q[k+1]

\* A function on 1..n is a sequence of length n.
LEMMA FunctionIsSequence ==
  ASSUME NEW n \in Nat, NEW q \in [1..n -> Slot]
  PROVE  /\ q \in Seq(Slot)
         /\ Len(q) = n
         /\ DOMAIN q = 1..n
         /\ q = << >> <=> n = 0
<1>1. q \in Seq(Slot)
  OBVIOUS
<1>2. Len(q) = n /\ DOMAIN q = 1..n
  BY <1>1
<1>3. q = << >> <=> n = 0
  BY <1>1, <1>2
<1> QED BY <1>1, <1>2, <1>3

\* The two descriptions agree.
LEMMA ChainIsList ==
  ASSUME NEW n \in Nat, NEW q \in [1..n -> Slot]
  PROVE  Chain(n, q) <=> IsList(q)
<1>1. Len(q) = n /\ DOMAIN q = 1..n /\ (q = << >> <=> n = 0)
  BY FunctionIsSequence
<1>2. {q[k] : k \in 1..n} = Used
        <=> \A i \in Slot : i \in Used <=> \E k \in 1..n : q[k] = i
  BY DEF Used
<1> HIDE DEF Used
<1> QED BY <1>1, <1>2 DEF Chain, IsList

\* A list has as many places as there are used entries.
LEMMA ChainHasLength ==
  ASSUME NEW n \in Nat, NEW q \in [1..n -> Slot], Chain(n, q)
  PROVE  Cardinality(Used) = n
<1>1. q \in Bijection(1..n, Used)
  BY DEF Chain, Bijection, Injection, Surjection, IsInjective, Used
<1>2. ExistsBijection(1..n, Used)
  BY <1>1 DEF ExistsBijection
<1> QED BY <1>2, FS_CountingElements

\* Where there is a list, ListIsWhole holds.
LEMMA ChainIsWhole ==
  ASSUME NEW n \in Nat, NEW q \in [1..n -> Slot], Chain(n, q)
  PROVE  ListIsWhole
  BY ChainIsList, ChainHasLength DEF ListIsWhole, Lists

\* The table of requests is finite.
LEMMA SlotsAreFinite == IsFiniteSet(Slot)
  BY RequestAssumption, FS_Interval DEF Slot

\* Queue, that AddRequest looks at, is the list.
LEMMA QueueIsChain ==
  ASSUME ListIsWhole
  PROVE  /\ Len(Queue) \in Nat
         /\ Queue \in [1..Len(Queue) -> Slot]
         /\ Chain(Len(Queue), Queue)
<1> DEFINE n == Cardinality(Used)
<1>1. IsFiniteSet(Used)
  BY SlotsAreFinite, FS_Subset DEF Used
<1>2. n \in Nat
  BY <1>1, FS_CardinalityType
<1>3. Queue \in Lists /\ IsList(Queue)
  BY DEF ListIsWhole, Queue
<1>4. Queue \in [1..n -> Slot]
  BY <1>3 DEF Lists
<1> HIDE DEF n
<1>5. Len(Queue) = n
  BY <1>2, <1>4, FunctionIsSequence
<1> QED BY <1>2, <1>3, <1>4, <1>5, ChainIsList

Linked == \E n \in Nat : \E q \in [1..n -> Slot] : Chain(n, q)

\* The list that some sequence describes is whole.
LEMMA LinkedIsWhole == Linked => ListIsWhole
  BY ChainIsWhole DEF Linked

\* A step after which there is a list leaves the list whole.
LEMMA ChainAfterStep ==
  ASSUME NEW n \in Nat, NEW q \in [1..n -> Slot], Chain(n, q)'
  PROVE  ListIsWhole'
<1>1. Linked'
  BY DEF Linked
<1>2. Linked' => ListIsWhole'
  BY LinkedIsWhole, PTL
<1> QED BY <1>1, <1>2

\* The list is empty if and only if no entry is used; its head is used.
HeadIsUsed ==
    /\ current_request = NULL <=> Used = {}
    /\ current_request # NULL => current_request \in Used

\* A list that is whole begins with a request in use.
LEMMA ListHasHead == ListIsWhole => HeadIsUsed
<1> SUFFICES ASSUME ListIsWhole PROVE HeadIsUsed
  OBVIOUS
<1> DEFINE n == Len(Queue)
<1>1. n \in Nat /\ Queue \in [1..n -> Slot] /\ Chain(n, Queue)
  BY QueueIsChain
<1>2. \A i \in Slot : i # NULL
  BY RequestAssumption DEF Slot
<1> HIDE DEF n
<1>3. CASE n = 0
  BY <1>1, <1>3 DEF Chain, Used, HeadIsUsed
<1>4. CASE n # 0
  <2>1. 1 \in 1..n /\ Queue[1] \in Slot /\ current_request = Queue[1]
    BY <1>1, <1>4 DEF Chain
  <2>2. Queue[1] \in Used
    BY <1>1, <2>1 DEF Chain
  <2> QED BY <1>2, <2>1, <2>2 DEF HeadIsUsed
<1> QED BY <1>3, <1>4

\* The same of the next state.
LEMMA ListHasHeadAfter == ListIsWhole' => HeadIsUsed'
  BY ListHasHead, PTL

\* A step that leaves the links alone leaves the list whole.
LEMMA SameLinks ==
  ASSUME ListIsWhole, current_request' = current_request,
         \A i \in Slot : /\ request'[i].dev = request[i].dev
                         /\ request'[i].next = request[i].next
  PROVE  ListIsWhole'
<1>1. PICK n \in Nat : \E q \in [1..n -> Slot] : Chain(n, q)
  BY QueueIsChain
<1>2. PICK q \in [1..n -> Slot] : Chain(n, q)
  BY <1>1
<1>3. Chain(n, q)'
  BY <1>2 DEF Chain, Used
<1> QED BY <1>3, ChainAfterStep

\* The elevator finds a place in the list.
LEMMA PlaceInList ==
  ASSUME ListIsWhole, current_request # NULL, NEW r
  PROVE  \E p \in 1..Len(Queue) : InsertAfter(r) = Queue[p]
<1> DEFINE n == Len(Queue)
           stops == {k \in 1..(n - 1) :
                       /\ \/ IN_ORDER(request[Queue[k]], r)
                          \/ ~IN_ORDER(request[Queue[k]], request[Queue[k+1]])
                       /\ IN_ORDER(r, request[Queue[k+1]])}
           least == CHOOSE k \in stops : \A j \in stops : k <= j
<1>1. n \in Nat /\ n # 0
  BY QueueIsChain DEF Chain
<1>2. InsertAfter(r) = Queue[IF stops = {} THEN n ELSE least]
  BY DEF InsertAfter
<1>3. stops \subseteq 1..(n - 1)
  OBVIOUS
<1> HIDE DEF n, stops
<1>4. CASE stops = {}
  BY <1>1, <1>2, <1>4 DEF n
<1>5. CASE stops # {}
  <2>1. stops \in SUBSET Nat
    BY <1>1, <1>3
  <2>2. \E k \in stops : \A j \in stops : k <= j
    BY <2>1, <1>5, LeastNatural
  <2>3. least \in stops
    BY <2>2
  <2> HIDE DEF least
  <2>4. least \in 1..n
    BY <1>1, <1>3, <2>3
  <2> QED BY <1>2, <1>5, <2>4 DEF n
<1> QED BY <1>4, <1>5

\* A new entry behind place p of the list.
LEMMA InsertIntoChain ==
  ASSUME NEW n \in Nat, NEW q \in [1..n -> Slot], Chain(n, q),
         NEW p \in 1..n, NEW i \in Slot, i \notin Used,
         request \in [Slot -> Request],
         NEW new \in Request, new.dev = 0, new.next = request[q[p]].next,
         request' = [request EXCEPT ![i] = new, ![q[p]].next = i],
         current_request' = current_request
  PROVE  ListIsWhole'
<1> DEFINE Q == [k \in 1..(n+1) |-> IF k <= p THEN q[k]
                                    ELSE IF k = p + 1 THEN i ELSE q[k-1]]
<1>1. Q \in [1..(n+1) -> Slot]
  OBVIOUS
<1>2. \A k \in 1..n : q[k] # i /\ q[k] \in Used
  BY DEF Chain
<1>3. /\ \A k \in 1..n : k # p => request'[q[k]] = request[q[k]]
      /\ request'[i] = new
      /\ request'[q[p]].next = i
      /\ request'[q[p]].dev = request[q[p]].dev
      /\ \A j \in Slot : j # i /\ j # q[p] => request'[j] = request[j]
  BY <1>2, <1>1 DEF Chain, Request
<1>4. Used' = Used \cup {i}
  BY <1>3, <1>2 DEF Used
<1>5. current_request' = IF n + 1 = 0 THEN NULL ELSE Q[1]
  BY DEF Chain
<1>6. \A j \in Slot : j \in Used' <=> \E k \in 1..(n+1) : Q[k] = j
  <2> TAKE j \in Slot
  <2>1. CASE j = i
    <3>1. p + 1 \in 1..(n+1) /\ Q[p+1] = i
      OBVIOUS
    <3> QED BY <2>1, <3>1, <1>4
  <2>2. ASSUME j # i, j \in Used' PROVE \E k \in 1..(n+1) : Q[k] = j
    <3>1. PICK k \in 1..n : q[k] = j
      BY <2>2, <1>4 DEF Chain
    <3>2. CASE k <= p
      BY <3>1, <3>2
    <3>3. CASE k > p
      <4>1. k + 1 \in 1..(n+1) /\ Q[k+1] = q[k]
        BY <3>3
      <4> QED BY <3>1, <4>1
    <3> QED BY <3>2, <3>3
  <2>3. ASSUME j # i, NEW k \in 1..(n+1), Q[k] = j PROVE j \in Used'
    BY <2>3, <1>2, <1>4
  <2> QED BY <2>1, <2>2, <2>3
<1>7. \A j, k \in 1..(n+1) : Q[j] = Q[k] => j = k
  <2> TAKE j, k \in 1..(n+1)
  <2> HAVE Q[j] = Q[k]
  <2> DEFINE at(m) == IF m <= p THEN m ELSE m - 1
  <2>1. j # p + 1 => at(j) \in 1..n /\ Q[j] = q[at(j)]
    OBVIOUS
  <2>2. k # p + 1 => at(k) \in 1..n /\ Q[k] = q[at(k)]
    OBVIOUS
  <2>3. Q[p+1] = i
    OBVIOUS
  <2>4. j = p + 1 <=> k = p + 1
    BY <1>2, <2>1, <2>2, <2>3
  <2>5. j # p + 1 => at(j) = at(k)
    BY <2>1, <2>2, <2>4 DEF Chain
  <2> QED BY <2>4, <2>5
<1>8. \A k \in 1..(n+1) :
         request'[Q[k]].next = IF k = n + 1 THEN NULL ELSE Q[k+1]
  <2> TAKE k \in 1..(n+1)
  <2>1. CASE k < p
    BY <2>1, <1>3 DEF Chain
  <2>2. CASE k = p
    BY <2>2, <1>3
  <2>3. CASE k = p + 1
    BY <2>3, <1>3 DEF Chain
  <2>4. CASE k > p + 1
    <3>1. k - 1 \in 1..n /\ k - 1 # p /\ Q[k] = q[k-1]
      BY <2>4
    <3>2. q[k-1] # q[p]
      BY <3>1 DEF Chain
    <3>3. request'[Q[k]].next = request[q[k-1]].next
      BY <3>1, <1>3
    <3>4. k # n + 1 => Q[k+1] = q[k]
      BY <2>4
    <3>5. request[q[k-1]].next = IF k - 1 = n THEN NULL ELSE q[k]
      BY <3>1 DEF Chain
    <3>6. k - 1 = n <=> k = n + 1
      OBVIOUS
    <3> QED BY <3>3, <3>4, <3>5, <3>6
  <2> QED BY <2>1, <2>2, <2>3, <2>4
<1>9. Chain(n+1, Q)'
  BY <1>1, <1>5, <1>6, <1>7, <1>8 DEF Chain
<1> QED BY <1>1, <1>9, ChainAfterStep

\* The head of the list is taken off.
LEMMA RemoveHead ==
  ASSUME ListIsWhole, current_request # NULL,
         request \in [Slot -> Request],
         request' = [request EXCEPT ![current_request] = Unused],
         current_request' = request[current_request].next
  PROVE  ListIsWhole'
<1>1. PICK n \in Nat : \E q \in [1..n -> Slot] : Chain(n, q)
  BY QueueIsChain
<1>2. PICK q \in [1..n -> Slot] : Chain(n, q)
  BY <1>1
<1>3. n # 0 /\ current_request = q[1]
  BY <1>2 DEF Chain
<1> DEFINE Q == [k \in 1..(n-1) |-> q[k+1]]
<1>4. n - 1 \in Nat /\ Q \in [1..(n-1) -> Slot]
  BY <1>3
<1>5. q[1] \in Slot /\ \A k \in 1..n : k # 1 => q[k] # q[1]
  BY <1>2, <1>3 DEF Chain
<1>6. Used' = Used \ {q[1]} /\ \A j \in Slot : j # q[1] => request'[j] = request[j]
  BY <1>3, <1>5 DEF Used, Unused
<1>7. Chain(n-1, Q)'
  <2>1. current_request' = IF n - 1 = 0 THEN NULL ELSE Q[1]
    BY <1>2, <1>3, <1>4 DEF Chain
  <2>2. \A j \in Slot : j \in Used' <=> \E k \in 1..(n-1) : Q[k] = j
    <3> TAKE j \in Slot
    <3>1. ASSUME j \in Used' PROVE \E k \in 1..(n-1) : Q[k] = j
      <4>1. PICK k \in 1..n : q[k] = j
        BY <3>1, <1>2, <1>6 DEF Chain
      <4>2. k - 1 \in 1..(n-1) /\ Q[k-1] = q[k]
        BY <4>1, <3>1, <1>6
      <4> QED BY <4>1, <4>2
    <3>2. ASSUME NEW k \in 1..(n-1), Q[k] = j PROVE j \in Used'
      <4>1. k + 1 \in 1..n /\ q[k+1] = j
        BY <3>2
      <4> QED BY <4>1, <1>2, <1>5, <1>6 DEF Chain
    <3> QED BY <3>1, <3>2
  <2>3. \A j, k \in 1..(n-1) : Q[j] = Q[k] => j = k
    BY <1>2 DEF Chain
  <2>4. \A k \in 1..(n-1) :
          request'[Q[k]].next = IF k = n - 1 THEN NULL ELSE Q[k+1]
    <3> TAKE k \in 1..(n-1)
    <3>1. k + 1 \in 1..n /\ Q[k] = q[k+1] /\ q[k+1] \in Slot /\ q[k+1] # q[1]
      BY <1>5
    <3>2. request'[Q[k]].next = request[q[k+1]].next
      BY <3>1, <1>6
    <3> QED BY <3>1, <3>2, <1>2 DEF Chain
  <2> QED BY <1>4, <2>1, <2>2, <2>3, <2>4 DEF Chain
<1> QED BY <1>4, <1>7, ChainAfterStep

-----------------------------------------------------------------------------
(***************************************************************************)
(* The invariant.                                                          *)
(***************************************************************************)
HdTypes ==
    /\ driver \in {"idle", "start", "busy"}
    /\ do_hd \in Handler \cup {NULL}
    /\ reset \in BOOLEAN /\ recalibrate \in BOOLEAN

\* A task inside make_request() knows its buffer.
ArgIsKnown == \A t \in Task : pc[t] # "out" => arg[t].bh \in Blocks

\* A request has a buffer, and one to write is outside the last third.
RequestsAreWhole ==
    \A i \in Used : /\ request[i].bh \in Blocks
                    /\ request[i].cmd = WRITE => i \in Allowed(WRITE)

\* A buffer that is locked has an owner, and one owner only.
Owned(b) ==
    /\ b_lock[b] <=> QueuedFor(b) # {} \/ Holders(b) # {}
    /\ QueuedFor(b) = {} \/ Holders(b) = {}
    /\ \A i, j \in QueuedFor(b) : i = j
    /\ \A t, u \in Holders(b) : t = u

OneOwner == \A b \in Blocks : Owned(b)

\* A task that has found no free entry and is not asleep yet: there is a list,
\* and in the request function a request that it will not end at once.
FullWaits ==
    \A t \in Task : pc[t] = "full" =>
        /\ current_request # NULL
        /\ driver = "start" =>
              \E i \in Used : request[i].sector + 2 <= NrSects

QueueInv ==
    /\ TypeOK
    /\ ListIsWhole
    /\ ArgIsKnown
    /\ RequestsAreWhole
    /\ OneOwner
    /\ SleepersWillBeWoken

RequestInv ==
    /\ QueueInv
    /\ DriverIsAwake
    /\ FullWaits

\* The search is within the table, and not over nothing.
LEMMA AllowedSlots ==
  ASSUME NEW rw \in {READ, WRITE}
  PROVE  Allowed(rw) \subseteq Slot /\ 0 \in Allowed(rw)
  BY RequestAssumption DEF Allowed, Slot

\* The entry that the search of make_request() finds.
LEMMA SearchFinds ==
  ASSUME NEW rw \in {READ, WRITE}, Free(rw) # {}
  PROVE  (CHOOSE i \in Free(rw) : \A j \in Free(rw) : j <= i) \in Free(rw)
<1>1. Free(rw) \subseteq Slot
  BY AllowedSlots DEF Free
<1>2. Free(rw) \in SUBSET Nat /\ \A i \in Free(rw) : i <= NR_REQUEST
  BY <1>1, RequestAssumption DEF Slot
<1>3. NR_REQUEST \in Nat
  BY RequestAssumption
<1>4. \E i \in Free(rw) : \A j \in Free(rw) : j <= i
  BY <1>2, <1>3, GreatestNatural
<1> QED BY <1>4

\* add_request(): one more used entry, and the list is whole.
LEMMA AddRequestAdds ==
  ASSUME TypeOK, ListIsWhole, NEW b \in Blocks, NEW rw \in {READ, WRITE},
         Free(rw) # {}, AddRequest(b, rw)
  PROVE  \E i \in Free(rw) :
            /\ request' \in [Slot -> Request]
            /\ request'[i].dev = 0 /\ request'[i].bh = b
            /\ request'[i].cmd = rw
            /\ \A j \in Slot : j # i =>
                  /\ request'[j].dev = request[j].dev
                  /\ request'[j].bh = request[j].bh
                  /\ request'[j].cmd = request[j].cmd
                  /\ request'[j].sector = request[j].sector
            /\ current_request' \in Slot
            /\ ListIsWhole'
<1> DEFINE r == [dev |-> 0, cmd |-> rw, errors |-> 0, sector |-> 2 * b,
                 nr_sectors |-> 2, bh |-> b, next |-> NULL]
<1>1. PICK i \in Free(rw) :
         \/ /\ current_request = NULL
            /\ request' = [request EXCEPT ![i] = r]
            /\ current_request' = i
         \/ /\ current_request # NULL
            /\ request' = [request EXCEPT
                             ![i] = [r EXCEPT !.next = request[InsertAfter(r)].next],
                             ![InsertAfter(r)].next = i]
            /\ current_request' = current_request
  BY SearchFinds DEF AddRequest
<1>2. PICK k : k = InsertAfter(r)
  OBVIOUS
<1> DEFINE new == [r EXCEPT !.next = request[k].next]
<1>3. r \in Request
  BY RequestAssumption DEF Request
<1>4. current_request # NULL => \E p \in 1..Len(Queue) : k = Queue[p]
  BY <1>2, PlaceInList
<1>5. i \in Slot /\ i \notin Used
  <2>1. i \in Allowed(rw) /\ request[i].dev < 0
    BY <1>1 DEF Free
  <2>2. i \in Slot
    BY <2>1, AllowedSlots
  <2>3. request[i].dev \in {-1, 0}
    BY <2>2 DEF TypeOK, Request
  <2> QED BY <2>1, <2>2, <2>3 DEF Used
<1>6. request \in [Slot -> Request]
  BY DEF TypeOK
<1>7. CASE current_request = NULL
  <2>1. request' = [request EXCEPT ![i] = r] /\ current_request' = i
    BY <1>1, <1>7
  <2>2. \A j \in Slot : request'[j] = IF j = i THEN r ELSE request[j]
    BY <1>6, <2>1
  <2> DEFINE q == [m \in 1..1 |-> i]
  <2>3. Used = {}
    BY <1>7, ListHasHead DEF HeadIsUsed
  <2>4. Used' = {i}
    BY <1>5, <2>2, <2>3 DEF Used
  <2>5. 1..1 = {1} /\ q[1] = i /\ q \in [1..1 -> Slot]
    BY <1>5
  <2>6. request'[i].next = NULL
    BY <1>5, <2>2
  <2>7. ListIsWhole'
    <3> HIDE DEF q
    <3>1. Chain(1, q)'
      BY <2>1, <2>4, <2>5, <2>6 DEF Chain
    <3>2. 1 \in Nat
      OBVIOUS
    <3> QED BY <3>1, <3>2, <2>5, ChainAfterStep
  <2> QED BY <1>1, <1>3, <1>5, <1>6, <2>1, <2>2, <2>7
<1>8. CASE current_request # NULL
  <2>1. /\ request' = [request EXCEPT ![i] = new, ![k].next = i]
        /\ current_request' = current_request
    BY <1>1, <1>2, <1>8
  <2>2. PICK p \in 1..Len(Queue) : k = Queue[p]
    BY <1>4, <1>8
  <2>3. /\ Len(Queue) \in Nat /\ Queue \in [1..Len(Queue) -> Slot]
        /\ Chain(Len(Queue), Queue)
    BY QueueIsChain
  <2>4. k \in Used /\ k # i
    BY <1>5, <2>2, <2>3 DEF Chain
  <2>5. k \in Slot /\ request[k].next \in Slot \cup {NULL}
    BY <2>4, <1>6 DEF Used, Request
  <2>6. new \in Request /\ new.dev = 0 /\ new.next = request[k].next
    BY <1>3, <2>5 DEF Request
  <2>7. ListIsWhole'
    <3> HIDE DEF new
    <3> DEFINE n == Len(Queue)
               q == Queue
    <3>1. n \in Nat /\ q \in [1..n -> Slot] /\ Chain(n, q) /\ p \in 1..n /\ k = q[p]
      BY <2>2, <2>3
    <3> HIDE DEF n, q
    <3> QED BY <1>5, <1>6, <2>1, <2>6, <3>1, InsertIntoChain
  <2>8. \A j \in Slot : j # i /\ j # k => request'[j] = request[j]
    BY <1>6, <2>1
  <2>9. request'[k] = [request[k] EXCEPT !.next = i] /\ request'[i] = new
    BY <1>5, <1>6, <2>1, <2>4, <2>5
  <2>10. request'[k] \in Request /\ request[k] \in Request
    BY <1>5, <1>6, <2>5, <2>9 DEF Request
  <2>11. request' \in [Slot -> Request]
    BY <1>5, <1>6, <2>1, <2>6, <2>8, <2>9, <2>10
  <2>12. /\ request'[k].dev = request[k].dev /\ request'[k].bh = request[k].bh
         /\ request'[k].cmd = request[k].cmd
         /\ request'[k].sector = request[k].sector
    BY <2>9, <2>10 DEF Request
  <2>13. current_request' \in Slot
    BY <1>8, <2>1 DEF TypeOK
  <2>14. request'[i].dev = 0 /\ request'[i].bh = b /\ request'[i].cmd = rw
    BY <2>9
  <2> QED BY <1>1, <2>7, <2>8, <2>11, <2>12, <2>13, <2>14
<1> QED BY <1>7, <1>8

-----------------------------------------------------------------------------
(***************************************************************************)
(* What steps do to the table, the buffers and the tasks.                  *)
(***************************************************************************)
\* The owners of a buffer stay.
LEMMA OwnersStay ==
  ASSUME OneOwner, NEW b \in Blocks, b_lock'[b] <=> b_lock[b],
         QueuedFor(b)' = QueuedFor(b), Holders(b)' = Holders(b)
  PROVE  Owned(b)'
<1> DEFINE Q == QueuedFor(b)
           H == Holders(b)
<1>1. /\ b_lock[b] <=> Q # {} \/ H # {}
      /\ Q = {} \/ H = {}
      /\ \A i, j \in Q : i = j
      /\ \A t, u \in H : t = u
  BY DEF OneOwner, Owned
<1>2. QueuedFor(b)' = Q /\ Holders(b)' = H
  OBVIOUS
<1> HIDE DEF Q, H
<1> QED BY <1>1, <1>2 DEF Owned

\* Nothing changes but what belongs to the driver and to the progress of
\* the requests.
LEMMA ProgressKeepsQueueInv ==
  ASSUME QueueInv, HdTypes', request' \in [Slot -> Request],
         b_dirt' \in [Blocks -> BOOLEAN], b_uptodate' \in [Blocks -> BOOLEAN],
         \A i \in Slot : /\ request'[i].dev = request[i].dev
                         /\ request'[i].bh = request[i].bh
                         /\ request'[i].cmd = request[i].cmd
                         /\ request'[i].next = request[i].next,
         UNCHANGED <<current_request, b_lock, tasks>>
  PROVE  QueueInv'
<1>1. ListIsWhole'
  BY SameLinks DEF QueueInv
<1>2. TypeOK'
  BY DEF QueueInv, TypeOK, HdTypes, tasks
<1>3. ArgIsKnown' /\ SleepersWillBeWoken'
  BY DEF QueueInv, ArgIsKnown, SleepersWillBeWoken, tasks
<1>4. Used' = Used
  BY DEF Used
<1>5. RequestsAreWhole'
  BY <1>4 DEF QueueInv, RequestsAreWhole, Used, Allowed
<1>6. \A b \in Blocks : QueuedFor(b)' = QueuedFor(b) /\ Holders(b)' = Holders(b)
  BY DEF QueuedFor, Holders, tasks
<1>7. OneOwner'
  BY <1>6 DEF QueueInv, OneOwner, Owned
<1> QED BY <1>1, <1>2, <1>3, <1>5, <1>7 DEF QueueInv

\* A task moves on inside make_request(), and neither takes nor gives up a
\* buffer.
LEMMA MoveKeepsQueueInv ==
  ASSUME QueueInv, UNCHANGED <<request, current_request, hd, bufs>>,
         NEW t \in Task, NEW p \in Where, NEW a \in Argument,
         pc' = [pc EXCEPT ![t] = p], arg' = [arg EXCEPT ![t] = a],
         p # "out" => a.bh \in Blocks,
         p = "b_wait" => b_lock[a.bh],
         p = "r_wait" => current_request # NULL,
         IF pc[t] \in {"find", "full", "r_wait"}
         THEN p \in {"find", "full", "r_wait"} /\ a = arg[t]
         ELSE p \notin {"find", "full", "r_wait"}
  PROVE  QueueInv'
<1>1. ListIsWhole'
  BY SameLinks DEF QueueInv
<1>2. TypeOK'
  BY DEF QueueInv, TypeOK, hd, bufs
<1>3. /\ \A u \in Task : u # t => pc'[u] = pc[u] /\ arg'[u] = arg[u]
      /\ pc'[t] = p /\ arg'[t] = a
  BY DEF QueueInv, TypeOK
<1>4. ArgIsKnown' /\ SleepersWillBeWoken'
  BY <1>3 DEF QueueInv, ArgIsKnown, SleepersWillBeWoken, bufs
<1>5. RequestsAreWhole'
  BY DEF QueueInv, RequestsAreWhole, Used, Allowed
<1>6. \A b \in Blocks : QueuedFor(b)' = QueuedFor(b)
  BY DEF QueuedFor
<1>7. \A b \in Blocks : Holders(b)' = Holders(b)
  BY <1>3 DEF Holders
<1>8. OneOwner'
  BY <1>6, <1>7 DEF QueueInv, OneOwner, Owned, bufs
<1> QED BY <1>1, <1>2, <1>4, <1>5, <1>8 DEF QueueInv

\* add_request() by a task that has just locked the buffer or held it, and is
\* done; by == {} stands for a request that nobody waits with.
LEMMA AddKeepsQueueInv ==
  ASSUME QueueInv, NEW b \in Blocks, NEW rw \in {READ, WRITE},
         Free(rw) # {}, AddRequest(b, rw),
         b_lock' = [b_lock EXCEPT ![b] = TRUE], UNCHANGED b_uptodate,
         NEW by \in SUBSET Task,
         b_lock[b] => by = Holders(b) /\ by # {},
         \A t \in by : pc[t] \in {"out", "lock", "find"},
         \A t \in by : pc[t] = "find" => b_lock[b],
         pc' = [t \in Task |-> IF t \in by THEN "out" ELSE pc[t]],
         arg' = [t \in Task |-> IF t \in by THEN NoArgument ELSE arg[t]]
  PROVE  QueueInv' /\ current_request' \in Slot
<1>1. PICK i \in Free(rw) :
         /\ request' \in [Slot -> Request]
         /\ request'[i].dev = 0 /\ request'[i].bh = b /\ request'[i].cmd = rw
         /\ \A j \in Slot : j # i =>
               /\ request'[j].dev = request[j].dev
               /\ request'[j].bh = request[j].bh
               /\ request'[j].cmd = request[j].cmd
               /\ request'[j].sector = request[j].sector
         /\ current_request' \in Slot
         /\ ListIsWhole'
  BY AddRequestAdds DEF QueueInv
<1>2. i \in Allowed(rw) /\ i \in Slot /\ request[i].dev < 0
  BY AllowedSlots DEF Free
<1>3. request[i].dev \in {-1, 0} /\ ~(request[i].dev >= 0)
  BY <1>2 DEF QueueInv, TypeOK, Request
<1>4. Used' = Used \cup {i}
  BY <1>1, <1>2 DEF Used
<1>5. NoArgument \in Argument
  BY DEF NoArgument, Argument
<1>6. TypeOK'
  <2>1. pc' \in [Task -> Where] /\ arg' \in [Task -> Argument]
    BY <1>5 DEF QueueInv, TypeOK, Where
  <2>2. /\ b_lock' \in [Blocks -> BOOLEAN] /\ b_dirt' \in [Blocks -> BOOLEAN]
        /\ b_uptodate' \in [Blocks -> BOOLEAN]
    BY DEF QueueInv, TypeOK, AddRequest
  <2>3. /\ driver' \in {"idle", "start", "busy"}
        /\ UNCHANGED <<do_hd, reset, recalibrate>>
    BY DEF QueueInv, TypeOK, AddRequest
  <2> QED BY <1>1, <2>1, <2>2, <2>3 DEF QueueInv, TypeOK
<1>7. ArgIsKnown'
  BY DEF QueueInv, ArgIsKnown
<1>8. SleepersWillBeWoken'
  <2>1. \A t \in Task : pc'[t] = "b_wait" => pc[t] = "b_wait" /\ arg'[t] = arg[t]
    OBVIOUS
  <2>2. \A c \in Blocks : b_lock[c] => b_lock'[c]
    BY DEF QueueInv, TypeOK
  <2>3. \A t \in Task : pc[t] = "b_wait" => arg[t].bh \in Blocks /\ b_lock[arg[t].bh]
    BY DEF QueueInv, ArgIsKnown, SleepersWillBeWoken
  <2>4. current_request' # NULL
    BY <1>1, RequestAssumption DEF Slot
  <2> QED BY <2>1, <2>2, <2>3, <2>4 DEF SleepersWillBeWoken
<1>9. RequestsAreWhole'
  <2> SUFFICES ASSUME NEW j \in Used'
               PROVE  /\ request'[j].bh \in Blocks
                      /\ request'[j].cmd = WRITE => j \in Allowed(WRITE)
    BY DEF RequestsAreWhole, Allowed
  <2>1. CASE j = i
    BY <1>1, <1>2, <2>1
  <2>2. CASE j # i
    BY <1>1, <1>4, <2>2 DEF QueueInv, RequestsAreWhole, Used
  <2> QED BY <2>1, <2>2
<1>10. OneOwner'
  <2>1. \A c \in Blocks :
           QueuedFor(c)' = IF c = b THEN QueuedFor(c) \cup {i} ELSE QueuedFor(c)
    BY <1>1, <1>2, <1>3 DEF QueuedFor
  <2>2. \A c \in Blocks : Holders(c)' = Holders(c) \ by
    BY DEF Holders
  <2>3. \A c \in Blocks : b_lock'[c] <=> (c = b \/ b_lock[c])
    BY DEF QueueInv, TypeOK
  <2>4. QueuedFor(b) = {} /\ Holders(b)' = {}
    BY <2>2 DEF QueueInv, OneOwner, Owned
  <2>5. ASSUME NEW c \in Blocks, c # b PROVE Holders(c)' = Holders(c)
    <3>1. \A t \in by : pc[t] = "find" => arg[t].bh = b
      BY DEF Holders
    <3> QED BY <2>2, <2>5, <3>1 DEF Holders
  <2> SUFFICES ASSUME NEW c \in Blocks
               PROVE  Owned(c)'
    BY DEF OneOwner, Owned
  <2>6. CASE c = b
    BY <2>1, <2>3, <2>4, <2>6 DEF Owned
  <2>7. CASE c # b
    <3>1. QueuedFor(c)' = QueuedFor(c) /\ Holders(c)' = Holders(c)
      BY <2>1, <2>5, <2>7
    <3>2. b_lock'[c] <=> b_lock[c]
      BY <2>3, <2>7
    <3> QED BY <3>1, <3>2, OwnersStay DEF QueueInv
  <2> QED BY <2>6, <2>7
<1> QED BY <1>1, <1>6, <1>7, <1>8, <1>9, <1>10 DEF QueueInv

\* A task locks a buffer and finds no free entry.
LEMMA LockKeepsQueueInv ==
  ASSUME QueueInv, UNCHANGED <<request, current_request, hd, b_dirt, b_uptodate>>,
         NEW t \in Task, pc[t] \in {"out", "lock"},
         NEW b \in Blocks, ~b_lock[b], NEW rw \in {READ, WRITE},
         b_lock' = [b_lock EXCEPT ![b] = TRUE],
         pc' = [pc EXCEPT ![t] = "full"],
         arg' = [arg EXCEPT ![t] = [bh |-> b, rw |-> rw]]
  PROVE  QueueInv'
<1>1. ListIsWhole'
  BY SameLinks DEF QueueInv
<1>2. TypeOK'
  BY DEF QueueInv, TypeOK, hd, Where, Argument
<1>3. /\ \A u \in Task : u # t => pc'[u] = pc[u] /\ arg'[u] = arg[u]
      /\ pc'[t] = "full" /\ arg'[t].bh = b
  BY DEF QueueInv, TypeOK
<1>4. \A c \in Blocks : b_lock'[c] <=> (c = b \/ b_lock[c])
  BY DEF QueueInv, TypeOK
<1>5. ArgIsKnown' /\ SleepersWillBeWoken'
  BY <1>3, <1>4 DEF QueueInv, ArgIsKnown, SleepersWillBeWoken
<1>6. RequestsAreWhole'
  BY DEF QueueInv, RequestsAreWhole, Used, Allowed
<1>7. \A c \in Blocks : QueuedFor(c)' = QueuedFor(c)
  BY DEF QueuedFor
<1>8. \A c \in Blocks :
         Holders(c)' = IF c = b THEN Holders(c) \cup {t} ELSE Holders(c)
  BY <1>3 DEF Holders
<1>9. QueuedFor(b) = {} /\ Holders(b) = {}
  BY DEF QueueInv, OneOwner, Owned
<1>10. OneOwner'
  <2> SUFFICES ASSUME NEW c \in Blocks
               PROVE  Owned(c)'
    BY DEF OneOwner, Owned
  <2>1. CASE c = b
    <3>1. QueuedFor(c)' = {} /\ Holders(c)' = {t} /\ b_lock'[c]
      BY <1>4, <1>7, <1>8, <1>9, <2>1
    <3> QED BY <3>1 DEF Owned
  <2>2. CASE c # b
    <3>1. QueuedFor(c)' = QueuedFor(c) /\ Holders(c)' = Holders(c)
      BY <1>7, <1>8, <2>2
    <3>2. b_lock'[c] <=> b_lock[c]
      BY <1>4, <2>2
    <3> QED BY <3>1, <3>2, OwnersStay DEF QueueInv
  <2> QED BY <2>1, <2>2
<1> QED BY <1>1, <1>2, <1>5, <1>6, <1>10 DEF QueueInv

\* end_request(): the head of the list is gone, its buffer unlocked, and
\* nobody sleeps on what has been woken.
LEMMA EndKeepsQueueInv ==
  ASSUME QueueInv, HdTypes', current_request # NULL,
         NEW uptodate \in BOOLEAN, EndRequest(uptodate)
  PROVE  QueueInv'
<1>0. PICK c, b : c = current_request /\ b = Current.bh
  OBVIOUS
<1>1. c \in Used /\ c \in Slot /\ b \in Blocks
  BY <1>0, ListHasHead DEF HeadIsUsed, QueueInv, RequestsAreWhole, Used, Current
<1>2. /\ request' = [request EXCEPT ![c] = Unused]
      /\ current_request' = request[c].next
      /\ b_lock' = [b_lock EXCEPT ![b] = FALSE]
      /\ b_uptodate' = [b_uptodate EXCEPT ![b] = uptodate]
      /\ pc' = [t \in Task |->
                  IF pc[t] = "b_wait" /\ arg[t].bh = b THEN "lock"
                  ELSE IF pc[t] = "r_wait" THEN "find"
                  ELSE pc[t]]
      /\ UNCHANGED <<b_dirt, arg>>
  BY <1>0 DEF EndRequest, Current
<1>3. request \in [Slot -> Request] /\ Unused \in Request
  BY RequestAssumption DEF QueueInv, TypeOK, Unused, Request
<1>4. ListIsWhole'
  BY <1>0, <1>2, <1>3, RemoveHead DEF QueueInv
<1>5. request[c].next \in Slot \cup {NULL}
  BY <1>1, <1>3 DEF Request
<1>6. request' \in [Slot -> Request] /\ current_request' \in Slot \cup {NULL}
  BY <1>2, <1>3, <1>5
<1>7. /\ b_lock' \in [Blocks -> BOOLEAN] /\ b_dirt' \in [Blocks -> BOOLEAN]
      /\ b_uptodate' \in [Blocks -> BOOLEAN]
  BY <1>2 DEF QueueInv, TypeOK
<1>8. pc' \in [Task -> Where] /\ arg' \in [Task -> Argument]
  BY <1>2 DEF QueueInv, TypeOK, Where
<1>9. TypeOK'
  BY <1>6, <1>7, <1>8 DEF TypeOK, HdTypes
<1>10. ArgIsKnown'
  BY <1>2 DEF QueueInv, ArgIsKnown
<1>11. \A d \in Blocks : b_lock'[d] <=> (d # b /\ b_lock[d])
  BY <1>1, <1>2 DEF QueueInv, TypeOK
<1>12. SleepersWillBeWoken'
  <2>1. \A t \in Task : pc'[t] = "b_wait" => pc[t] = "b_wait" /\ arg[t].bh # b
    BY <1>2
  <2>2. \A t \in Task : pc'[t] # "r_wait"
    BY <1>2
  <2>3. \A t \in Task : pc[t] = "b_wait" => arg[t].bh \in Blocks /\ b_lock[arg[t].bh]
    BY DEF QueueInv, ArgIsKnown, SleepersWillBeWoken
  <2> QED BY <1>2, <1>11, <2>1, <2>2, <2>3 DEF SleepersWillBeWoken
<1>13. \A j \in Slot : request'[j] = IF j = c THEN Unused ELSE request[j]
  BY <1>2, <1>3
<1>14. Used' = Used \ {c}
  BY <1>13 DEF Used, Unused
<1>15. RequestsAreWhole'
  <2>1. \A j \in Used' : j \in Used /\ request'[j] = request[j]
    BY <1>13, <1>14 DEF Used
  <2> QED BY <2>1 DEF QueueInv, RequestsAreWhole, Allowed
<1>16. \A d \in Blocks : QueuedFor(d)' = QueuedFor(d) \ {c}
  BY <1>13 DEF QueuedFor, Unused
<1>17. \A d \in Blocks : Holders(d)' = Holders(d)
  BY <1>2 DEF Holders
<1>18. c \in QueuedFor(b)
  BY <1>0, <1>1 DEF QueuedFor, Used, Current
<1>19. \A d \in Blocks : d # b => c \notin QueuedFor(d)
  BY <1>0 DEF QueuedFor, Current
<1>20. QueuedFor(b)' = {} /\ Holders(b)' = {}
  <2>1. QueuedFor(b) = {c} /\ Holders(b) = {}
    BY <1>1, <1>18 DEF QueueInv, OneOwner, Owned
  <2> QED BY <1>1, <1>16, <1>17, <2>1
<1>21. OneOwner'
  <2> SUFFICES ASSUME NEW d \in Blocks
               PROVE  Owned(d)'
    BY DEF OneOwner, Owned
  <2>1. CASE d = b
    <3>1. QueuedFor(d)' = {} /\ Holders(d)' = {} /\ ~b_lock'[d]
      BY <1>1, <1>11, <1>20, <2>1
    <3> QED BY <3>1 DEF Owned
  <2>2. CASE d # b
    <3>1. QueuedFor(d)' = QueuedFor(d) /\ Holders(d)' = Holders(d)
      BY <1>16, <1>17, <1>19, <2>2
    <3>2. b_lock'[d] <=> b_lock[d]
      BY <1>11, <2>2
    <3> QED BY <3>1, <3>2, OwnersStay DEF QueueInv
  <2> QED BY <2>1, <2>2
<1> QED BY <1>4, <1>9, <1>10, <1>12, <1>15, <1>21 DEF QueueInv

-----------------------------------------------------------------------------
(***************************************************************************)
(* The steps of the tasks.                                                 *)
(***************************************************************************)
\* From label "repeat" on.
LEMMA FindEntryKeeps ==
  ASSUME RequestInv, KernelIsFree, NEW t \in Task, NEW b \in Blocks,
         NEW rw \in {READ, WRITE}, FindEntry(t, b, rw),
         \/ pc[t] \in {"out", "lock"} /\ ~b_lock[b]
         \/ pc[t] = "find" /\ arg[t] = [bh |-> b, rw |-> rw]
  PROVE  RequestInv'
<1>1. CASE Free(rw) # {} /\ AddRequest(b, rw) /\ Leave(t)
  <2>1. /\ pc' = [u \in Task |-> IF u \in {t} THEN "out" ELSE pc[u]]
        /\ arg' = [u \in Task |-> IF u \in {t} THEN NoArgument ELSE arg[u]]
    BY <1>1 DEF Leave, RequestInv, QueueInv, TypeOK
  <2>2. b_lock[b] => {t} = Holders(b)
    BY DEF RequestInv, QueueInv, OneOwner, Owned, Holders
  <2>3. pc[t] = "find" => b_lock[b]
    BY DEF RequestInv, QueueInv, OneOwner, Owned, Holders
  <2>4. b_lock' = [b_lock EXCEPT ![b] = TRUE] /\ UNCHANGED b_uptodate
    BY DEF FindEntry
  <2>5. QueueInv' /\ current_request' \in Slot
    <3> DEFINE by == {t}
    <3>1. /\ by \in SUBSET Task /\ by # {}
          /\ \A u \in by : pc[u] \in {"out", "lock", "find"}
          /\ \A u \in by : pc[u] = "find" => b_lock[b]
      BY <2>3
    <3> HIDE DEF by
    <3>2. /\ pc' = [u \in Task |-> IF u \in by THEN "out" ELSE pc[u]]
          /\ arg' = [u \in Task |-> IF u \in by THEN NoArgument ELSE arg[u]]
          /\ b_lock[b] => by = Holders(b)
      BY <2>1, <2>2 DEF by
    <3> QED BY <1>1, <2>4, <3>1, <3>2, AddKeepsQueueInv DEF RequestInv
  <2>6. current_request' # NULL
    BY <2>5, RequestAssumption DEF Slot
  <2>7. DriverIsAwake'
    BY <1>1, <2>6 DEF AddRequest, RequestInv, DriverIsAwake
  <2>8. FullWaits'
    BY <2>1 DEF FullWaits, KernelIsFree
  <2> QED BY <2>5, <2>7, <2>8 DEF RequestInv
<1>2. CASE /\ Free(rw) = {} /\ UNCHANGED b_dirt /\ NoRequest
           /\ pc' = [pc EXCEPT ![t] = "full"]
           /\ arg' = [arg EXCEPT ![t] = [bh |-> b, rw |-> rw]]
  <2>1. b_lock' = [b_lock EXCEPT ![b] = TRUE] /\ UNCHANGED b_uptodate
    BY DEF FindEntry
  <2>2. QueueInv'
    <3>1. CASE pc[t] \in {"out", "lock"} /\ ~b_lock[b]
      BY <1>2, <2>1, <3>1, LockKeepsQueueInv DEF RequestInv, NoRequest
    <3>2. CASE pc[t] = "find" /\ arg[t] = [bh |-> b, rw |-> rw]
      <4>1. b_lock[b]
        BY <3>2 DEF RequestInv, QueueInv, OneOwner, Owned, Holders
      <4>2. UNCHANGED bufs
        BY <1>2, <2>1, <4>1 DEF bufs, RequestInv, QueueInv, TypeOK
      <4> DEFINE a == [bh |-> b, rw |-> rw]
      <4>3. a \in Argument /\ a.bh \in Blocks /\ a = arg[t]
        BY <3>2 DEF Argument
      <4> HIDE DEF a
      <4>4. "full" \in Where /\ arg' = [arg EXCEPT ![t] = a]
        BY <1>2 DEF Where, a
      <4> QED BY <1>2, <3>2, <4>2, <4>3, <4>4, MoveKeepsQueueInv
             DEF RequestInv, NoRequest
    <3> QED BY <3>1, <3>2
  <2>3. Used # {}
    <3>1. 0 \in Allowed(rw) /\ 0 \in Slot
      BY AllowedSlots
    <3>2. request[0].dev \in {-1, 0}
      BY <3>1 DEF RequestInv, QueueInv, TypeOK, Request
    <3> QED BY <1>2, <3>1, <3>2 DEF Free, Used
  <2>4. current_request # NULL
    BY <2>3, ListHasHead DEF HeadIsUsed, RequestInv, QueueInv
  <2>5. DriverIsAwake' /\ FullWaits'
    BY <1>2, <2>4 DEF RequestInv, DriverIsAwake, FullWaits, NoRequest, hd,
       KernelIsFree
  <2> QED BY <2>2, <2>5 DEF RequestInv
<1> QED BY <1>1, <1>2 DEF FindEntry

\* make_request() for a buffer that is free, taken or found busy.
LEMMA LockAndRequestKeeps ==
  ASSUME RequestInv, KernelIsFree, NEW t \in Task, NEW b \in Blocks,
         NEW rw \in {READ, WRITE}, pc[t] \in {"out", "lock"},
         LockAndRequest(t, b, rw)
  PROVE  RequestInv'
<1> DEFINE a == [bh |-> b, rw |-> rw]
<1>1. a \in Argument /\ NoArgument \in Argument /\ a.bh = b
  BY DEF Argument, NoArgument
<1>2. CASE /\ b_lock[b] /\ UNCHANGED bufs /\ NoRequest
           /\ pc' = [pc EXCEPT ![t] = "b_wait"]
           /\ arg' = [arg EXCEPT ![t] = a]
  <2> HIDE DEF a
  <2>1. "b_wait" \in Where
    BY DEF Where
  <2>2. QueueInv'
    BY <1>1, <1>2, <2>1, MoveKeepsQueueInv DEF RequestInv, NoRequest
  <2>3. DriverIsAwake' /\ FullWaits'
    BY <1>2 DEF RequestInv, QueueInv, TypeOK, DriverIsAwake, FullWaits, NoRequest,
       hd, Used
  <2> QED BY <2>2, <2>3 DEF RequestInv
<1>3. CASE Leave(t) /\ UNCHANGED bufs /\ NoRequest
  <2>1. "out" \in Where
    BY DEF Where
  <2>2. QueueInv'
    BY <1>1, <1>3, <2>1, MoveKeepsQueueInv DEF RequestInv, NoRequest, Leave
  <2>3. DriverIsAwake' /\ FullWaits'
    BY <1>3 DEF RequestInv, QueueInv, TypeOK, DriverIsAwake, FullWaits, NoRequest,
       hd, Used, Leave
  <2> QED BY <2>2, <2>3 DEF RequestInv
<1>4. CASE ~b_lock[b] /\ FindEntry(t, b, rw)
  BY <1>4, FindEntryKeeps
<1> QED BY <1>2, <1>3, <1>4 DEF LockAndRequest

\* The steps of a task in ll_rw_block(), lock_buffer() and get_request.
LEMMA TasksKeep ==
  ASSUME RequestInv, NEW t \in Task,
         TaskStep(t) \/ \E b \in Blocks, rw \in {READ, WRITE} : MakeRequest(t, b, rw)
  PROVE  RequestInv'
<1>1. pc[t] # "out" => /\ arg[t].bh \in Blocks /\ arg[t].rw \in {READ, WRITE}
                       /\ arg[t] = [bh |-> arg[t].bh, rw |-> arg[t].rw]
  BY DEF RequestInv, QueueInv, TypeOK, ArgIsKnown, Argument
<1>2. CASE RetryLock(t)
  BY <1>1, <1>2, LockAndRequestKeeps DEF RetryLock
<1>3. CASE RetryFind(t)
  BY <1>1, <1>3, FindEntryKeeps DEF RetryFind
<1>4. CASE SleepForRequest(t)
  <2> DEFINE a == arg[t]
  <2>1. a \in Argument /\ a.bh \in Blocks /\ "r_wait" \in Where
        /\ arg' = [arg EXCEPT ![t] = a]
    BY <1>1, <1>4 DEF SleepForRequest, RequestInv, QueueInv, TypeOK, Where
  <2>2. current_request # NULL
    BY <1>4 DEF SleepForRequest, RequestInv, FullWaits
  <2>3. /\ UNCHANGED <<request, current_request, hd, bufs>>
        /\ pc' = [pc EXCEPT ![t] = "r_wait"] /\ pc[t] = "full"
    BY <1>4 DEF SleepForRequest
  <2> HIDE DEF a
  <2>4. QueueInv'
    BY <2>1, <2>2, <2>3, MoveKeepsQueueInv DEF RequestInv, a
  <2>5. DriverIsAwake' /\ FullWaits'
    BY <1>4 DEF SleepForRequest, RequestInv, QueueInv, TypeOK, DriverIsAwake,
       FullWaits, hd, Used
  <2> QED BY <2>4, <2>5 DEF RequestInv
<1>5. ASSUME NEW b \in Blocks, NEW rw \in {READ, WRITE}, MakeRequest(t, b, rw)
      PROVE  RequestInv'
  BY <1>5, LockAndRequestKeeps DEF MakeRequest
<1> QED BY <1>2, <1>3, <1>4, <1>5 DEF TaskStep

\* A request for read-ahead or write-ahead, that never sleeps.
LEMMA AheadKeeps ==
  ASSUME RequestInv, NEW b \in Blocks, NEW rw \in {READ, WRITE},
         MakeAheadRequest(b, rw)
  PROVE  RequestInv'
<1>1. /\ KernelIsFree /\ ~b_lock[b] /\ Free(rw) # {} /\ AddRequest(b, rw)
      /\ b_lock' = [b_lock EXCEPT ![b] = TRUE] /\ UNCHANGED b_uptodate
      /\ pc' = pc /\ arg' = arg
  BY DEF MakeAheadRequest, tasks
<1> DEFINE by == {t \in Task : FALSE}
<1>2. /\ pc' = [t \in Task |-> IF t \in by THEN "out" ELSE pc[t]]
      /\ arg' = [t \in Task |-> IF t \in by THEN NoArgument ELSE arg[t]]
  BY <1>1 DEF RequestInv, QueueInv, TypeOK
<1>3. by \in SUBSET Task /\ \A t \in by : FALSE
  OBVIOUS
<1> HIDE DEF by
<1>4. QueueInv' /\ current_request' \in Slot
  BY <1>1, <1>2, <1>3, AddKeepsQueueInv DEF RequestInv
<1>5. current_request' # NULL
  BY <1>4, RequestAssumption DEF Slot
<1>6. DriverIsAwake' /\ FullWaits'
  BY <1>1, <1>5 DEF AddRequest, RequestInv, DriverIsAwake, FullWaits, KernelIsFree
<1> QED BY <1>4, <1>6 DEF RequestInv

\* What others do with a buffer between its requests.
LEMMA BuffersKeep ==
  ASSUME RequestInv, NEW b \in Blocks, Modify(b) \/ Recycle(b)
  PROVE  RequestInv'
<1>1. /\ UNCHANGED <<request, current_request, hd, b_lock, tasks>>
      /\ b_dirt' \in [Blocks -> BOOLEAN] /\ b_uptodate' \in [Blocks -> BOOLEAN]
  BY DEF Modify, Recycle, RequestInv, QueueInv, TypeOK
<1>2. HdTypes' /\ request' \in [Slot -> Request]
  BY <1>1 DEF RequestInv, QueueInv, TypeOK, HdTypes, hd
<1>3. QueueInv'
  BY <1>1, <1>2, ProgressKeepsQueueInv DEF RequestInv
<1>4. DriverIsAwake' /\ FullWaits'
  BY <1>1 DEF RequestInv, DriverIsAwake, FullWaits, hd, tasks, Used
<1> QED BY <1>3, <1>4 DEF RequestInv

-----------------------------------------------------------------------------
(***************************************************************************)
(* The steps of the driver.                                                *)
(***************************************************************************)
\* While a task is between its search and its sleep, a request is left behind
\* the one that ends.
OthersWait ==
    (\E t \in Task : pc[t] = "full") =>
        \E i \in Slot \ {current_request} :
            request[i].dev >= 0 /\ request[i].sector + 2 <= NrSects

\* end_request(): the head leaves the list, its tasks are woken.
LEMMA EndKeeps ==
  ASSUME RequestInv, HdTypes', driver' = "start", current_request # NULL,
         OthersWait, NEW uptodate \in BOOLEAN, EndRequest(uptodate)
  PROVE  RequestInv'
<1>1. QueueInv'
  BY EndKeepsQueueInv DEF RequestInv
<1>2. DriverIsAwake'
  BY DEF DriverIsAwake
<1>3. ASSUME NEW t \in Task, pc'[t] = "full"
      PROVE  /\ current_request' # NULL
             /\ \E i \in Used' : request'[i].sector + 2 <= NrSects
  <2>1. pc[t] = "full"
    BY <1>3 DEF EndRequest
  <2>2. PICK i \in Slot \ {current_request} :
           request[i].dev >= 0 /\ request[i].sector + 2 <= NrSects
    BY <2>1 DEF OthersWait
  <2>3. request'[i] = request[i]
    BY <2>2 DEF EndRequest, RequestInv, QueueInv, TypeOK
  <2>4. i \in Used'
    BY <2>2, <2>3 DEF Used
  <2>5. current_request' # NULL
    BY <1>1, <2>4, ListHasHeadAfter DEF HeadIsUsed, QueueInv
  <2> QED BY <2>2, <2>3, <2>4, <2>5
<1>4. FullWaits'
  BY <1>3 DEF FullWaits
<1> QED BY <1>1, <1>2, <1>4 DEF RequestInv

\* The driver goes on and no request ends.
LEMMA DriverKeeps ==
  ASSUME RequestInv, HdTypes', DriverIsAwake', request' \in [Slot -> Request],
         \A i \in Slot : /\ request'[i].dev = request[i].dev
                         /\ request'[i].bh = request[i].bh
                         /\ request'[i].cmd = request[i].cmd
                         /\ request'[i].next = request[i].next,
         driver' = "start" =>
            \/ OthersWait /\ \A i \in Slot \ {current_request} : request'[i] = request[i]
            \/ driver = "start" /\ \A i \in Slot : request'[i].sector = request[i].sector,
         UNCHANGED <<current_request, bufs, tasks>>
  PROVE  RequestInv'
<1>1. /\ b_dirt' \in [Blocks -> BOOLEAN] /\ b_uptodate' \in [Blocks -> BOOLEAN]
      /\ UNCHANGED <<current_request, b_lock, tasks>>
  BY DEF RequestInv, QueueInv, TypeOK, bufs
<1>2. QueueInv'
  BY <1>1, ProgressKeepsQueueInv DEF RequestInv
<1>3. FullWaits'
  <2> SUFFICES ASSUME NEW t \in Task, pc[t] = "full"
               PROVE  /\ current_request' # NULL
                      /\ driver' = "start" =>
                            \E i \in Used' : request'[i].sector + 2 <= NrSects
    BY DEF FullWaits, tasks
  <2>1. current_request' # NULL
    BY DEF RequestInv, FullWaits
  <2>2. \A i \in Slot : i \in Used' <=> i \in Used
    BY DEF Used
  <2>3. ASSUME driver' = "start", OthersWait,
               \A i \in Slot \ {current_request} : request'[i] = request[i]
        PROVE  \E i \in Used' : request'[i].sector + 2 <= NrSects
    <3>1. PICK i \in Slot \ {current_request} :
             request[i].dev >= 0 /\ request[i].sector + 2 <= NrSects
      BY <2>3 DEF OthersWait
    <3>2. i \in Used' /\ request'[i] = request[i]
      BY <2>2, <2>3, <3>1 DEF Used
    <3> QED BY <3>1, <3>2
  <2>4. ASSUME driver = "start",
               \A i \in Slot : request'[i].sector = request[i].sector
        PROVE  \E i \in Used' : request'[i].sector + 2 <= NrSects
    <3>1. PICK i \in Used : request[i].sector + 2 <= NrSects
      BY <2>4 DEF RequestInv, FullWaits
    <3>2. i \in Used' /\ request'[i].sector = request[i].sector
      BY <2>2, <2>4, <3>1 DEF Used
    <3> QED BY <3>1, <3>2
  <2> QED BY <2>1, <2>3, <2>4
<1> QED BY <1>2, <1>3 DEF RequestInv

\* bad_rw_intr(), from the request function or from an interrupt.
LEMMA BadRwKeeps ==
  ASSUME RequestInv, current_request # NULL, OthersWait, BadRwIntr,
         driver' = "start", do_hd' \in Handler \cup {NULL},
         recalibrate' \in BOOLEAN
  PROVE  RequestInv'
<1>1. /\ current_request \in Slot /\ request \in [Slot -> Request]
      /\ Current \in Request /\ reset \in BOOLEAN /\ MAX_ERRORS \in Nat
  BY RequestAssumption DEF RequestInv, QueueInv, TypeOK, Current
<1>2. CASE /\ Current.errors + 1 < MAX_ERRORS
           /\ request' = [request EXCEPT ![current_request].errors = Current.errors + 1]
           /\ reset' = (reset \/ Current.errors + 1 > MAX_ERRORS \div 2)
           /\ UNCHANGED <<current_request, bufs, tasks>>
  <2>1. HdTypes' /\ DriverIsAwake'
    BY <1>2 DEF HdTypes, DriverIsAwake
  <2>2. Current.errors + 1 \in 0..MAX_ERRORS
    BY <1>1, <1>2 DEF Request
  <2>3. request'[current_request] = [Current EXCEPT !.errors = Current.errors + 1]
    BY <1>1, <1>2 DEF Current
  <2>4. request'[current_request] \in Request
    BY <1>1, <2>2, <2>3 DEF Request
  <2>5. \A i \in Slot : i # current_request => request'[i] = request[i]
    BY <1>1, <1>2
  <2>6. request' \in [Slot -> Request]
    BY <1>1, <1>2, <2>4, <2>5
  <2>7. \A i \in Slot : /\ request'[i].dev = request[i].dev
                        /\ request'[i].bh = request[i].bh
                        /\ request'[i].cmd = request[i].cmd
                        /\ request'[i].next = request[i].next
    BY <1>1, <2>3, <2>5 DEF Request, Current
  <2> QED BY <1>2, <2>1, <2>5, <2>6, <2>7, DriverKeeps
<1>3. CASE EndRequest(FALSE) /\ reset' \in BOOLEAN
  <2>1. HdTypes'
    BY <1>3 DEF HdTypes
  <2> QED BY <1>3, <2>1, EndKeeps
<1>4. EndRequest(FALSE) =>
        (BadRwIntr /\ Current.errors + 1 >= MAX_ERRORS => reset' \in BOOLEAN)
  BY <1>1 DEF BadRwIntr
<1>5. Current.errors + 1 < MAX_ERRORS \/ Current.errors + 1 >= MAX_ERRORS
  BY <1>1 DEF Request
<1> QED BY <1>2, <1>3, <1>4, <1>5 DEF BadRwIntr

\* What an invariant says of a driver that is at work.
LEMMA DriverHasWork ==
  ASSUME RequestInv, driver = "busy"
  PROVE  current_request # NULL /\ do_hd # NULL
  BY DEF RequestInv, DriverIsAwake

\* do_hd_request() for the head of the list.
LEMMA DoHdRequestKeeps == ASSUME RequestInv, DoHdRequest PROVE RequestInv'
<1>1. HdTypes /\ request \in [Slot -> Request]
  BY DEF RequestInv, QueueInv, TypeOK, HdTypes
<1>2. "recal_intr" # NULL /\ "read_intr" # NULL /\ "write_intr" # NULL
  BY RequestAssumption DEF Handler
<1>3. CASE NoMoreRequests
  <2>1. UNCHANGED <<request, current_request, bufs, tasks>> /\ HdTypes' /\ DriverIsAwake'
        /\ driver' # "start"
    BY <1>1, <1>3 DEF NoMoreRequests, NoEnd, HdTypes, DriverIsAwake
  <2> QED BY <1>1, <2>1, DriverKeeps
<1>4. CASE BeyondPartition
  <2>1. HdTypes' /\ driver' = "start" /\ current_request # NULL /\ EndRequest(FALSE)
    BY <1>1, <1>4 DEF BeyondPartition, HdTypes, hd
  <2>2. OthersWait
    <3> SUFFICES ASSUME NEW t \in Task, pc[t] = "full"
                 PROVE  \E i \in Slot \ {current_request} :
                           request[i].dev >= 0 /\ request[i].sector + 2 <= NrSects
      BY DEF OthersWait
    <3>1. PICK i \in Used : request[i].sector + 2 <= NrSects
      BY <1>4 DEF BeyondPartition, RequestInv, FullWaits
    <3>2. request[i].sector \in Nat /\ NrSects \in Nat /\ i \in Slot
      BY <1>1, RequestAssumption DEF Request, Used
    <3>3. i # current_request
      BY <1>4, <3>1, <3>2 DEF BeyondPartition, Current
    <3> QED BY <3>1, <3>2, <3>3 DEF Used
  <2> QED BY <2>1, <2>2, EndKeeps
<1>5. CASE ResetController \/ Recalibrate \/ Transfer
  <2>1. /\ UNCHANGED <<request, current_request, bufs, tasks>>
        /\ HdTypes' /\ driver' = "busy" /\ current_request # NULL /\ do_hd' # NULL
    BY <1>1, <1>2, <1>5 DEF ResetController, Recalibrate, Transfer, HdOut, NoEnd,
       HdTypes, Handler
  <2>2. DriverIsAwake'
    BY <2>1 DEF DriverIsAwake
  <2> QED BY <1>1, <2>1, <2>2, DriverKeeps
<1>6. CASE NoDataRequest
  <2>1. /\ current_request # NULL /\ BadRwIntr /\ driver' = "start"
        /\ do_hd' \in Handler \cup {NULL} /\ recalibrate' \in BOOLEAN
    BY <1>1, <1>6 DEF NoDataRequest, HdOut, HdTypes, Handler
  <2>2. OthersWait
    BY <1>6 DEF NoDataRequest, WindowIsShort, OthersWait
  <2> QED BY <2>1, <2>2, BadRwKeeps
<1> QED BY <1>3, <1>4, <1>5, <1>6 DEF DoHdRequest

\* The interrupt of the disk and the handler that it runs.
LEMMA HdInterruptKeeps == ASSUME RequestInv, HdInterrupt PROVE RequestInv'
<1>1. HdTypes /\ request \in [Slot -> Request]
  BY DEF RequestInv, QueueInv, TypeOK, HdTypes
<1>2. driver = "busy" /\ OthersWait
  BY DEF HdInterrupt, SectorDone, RequestDone, Recalibrated, InterruptWithError,
     InterruptPossible, WindowIsShort, OthersWait
<1>3. current_request # NULL /\ do_hd # NULL
  BY <1>2, DriverHasWork
<1>4. current_request \in Slot
  BY <1>3 DEF RequestInv, QueueInv, TypeOK
<1>5. CASE SectorDone
  <2>0. PICK c, e : c = current_request /\ e = IF do_hd = "read_intr" THEN 0
                                              ELSE Current.errors
    OBVIOUS
  <2>1. /\ Current.nr_sectors > 1
        /\ request' = [request EXCEPT ![c].nr_sectors = @ - 1,
                                      ![c].sector = @ + 1,
                                      ![c].errors = e]
        /\ UNCHANGED <<current_request, hd, bufs, tasks>>
    BY <1>1, <1>4, <1>5, <2>0 DEF SectorDone, Current
  <2>2. Current \in Request /\ Current = request[c] /\ c \in Slot
    BY <1>1, <1>4, <2>0 DEF Current
  <2>3. /\ Current.nr_sectors - 1 \in 0..2 /\ Current.sector + 1 \in Nat
        /\ e \in 0..MAX_ERRORS
    BY <2>0, <2>1, <2>2, RequestAssumption DEF Request
  <2>4. request'[c] = [Current EXCEPT !.nr_sectors = Current.nr_sectors - 1,
                                      !.sector = Current.sector + 1,
                                      !.errors = e]
    BY <1>1, <2>1, <2>2
  <2>5. request'[c] \in Request
    BY <2>2, <2>3, <2>4 DEF Request
  <2>6. \A i \in Slot : i # c => request'[i] = request[i]
    BY <1>1, <2>1, <2>2
  <2>7. request' \in [Slot -> Request]
    BY <1>1, <2>1, <2>2, <2>5, <2>6
  <2>8. \A i \in Slot : /\ request'[i].dev = request[i].dev
                        /\ request'[i].bh = request[i].bh
                        /\ request'[i].cmd = request[i].cmd
                        /\ request'[i].next = request[i].next
    <3>1. /\ request'[c].dev = request[c].dev /\ request'[c].bh = request[c].bh
          /\ request'[c].cmd = request[c].cmd
          /\ request'[c].next = request[c].next
      BY <2>2, <2>4 DEF Request
    <3> QED BY <2>6, <3>1
  <2>9. HdTypes' /\ DriverIsAwake' /\ driver' # "start"
    BY <1>1, <1>2, <1>3, <2>1 DEF hd, HdTypes, DriverIsAwake
  <2> QED BY <2>1, <2>7, <2>8, <2>9, DriverKeeps
<1>6. CASE RequestDone
  <2>1. HdTypes' /\ driver' = "start" /\ EndRequest(TRUE)
    BY <1>1, <1>6 DEF RequestDone, HdTypes
  <2> QED BY <1>2, <1>3, <2>1, EndKeeps
<1>7. CASE Recalibrated
  <2>1. /\ UNCHANGED <<request, current_request, bufs, tasks>> /\ HdTypes'
        /\ driver' = "start"
    BY <1>1, <1>7 DEF Recalibrated, NoEnd, HdTypes
  <2>2. DriverIsAwake'
    BY <2>1 DEF DriverIsAwake
  <2> QED BY <1>1, <1>2, <2>1, <2>2, DriverKeeps
<1>8. CASE InterruptWithError
  <2>1. /\ BadRwIntr /\ driver' = "start" /\ do_hd' \in Handler \cup {NULL}
        /\ recalibrate' \in BOOLEAN
    BY <1>1, <1>8 DEF InterruptWithError, HdTypes
  <2> QED BY <1>2, <1>3, <2>1, BadRwKeeps
<1> QED BY <1>5, <1>6, <1>7, <1>8 DEF HdInterrupt

-----------------------------------------------------------------------------
(***************************************************************************)
(* The theorems.                                                           *)
(***************************************************************************)
\* The invariant holds when blk_dev_init() is done.
LEMMA RequestInvInit == Init => RequestInv
<1> SUFFICES ASSUME Init PROVE RequestInv
  OBVIOUS
<1>1. Unused \in Request /\ NoArgument \in Argument /\ Unused.dev = -1
  BY RequestAssumption DEF Unused, Request, NoArgument, Argument
<1>2. \A i \in Slot : request[i] = Unused
  BY DEF Init
<1>3. Used = {}
  BY <1>1, <1>2 DEF Used
<1>4. TypeOK
  BY <1>1 DEF Init, TypeOK, Where
<1>5. ListIsWhole
  <2>1. Cardinality(Used) = 0
    BY <1>3, FS_EmptySet
  <2> DEFINE q == [k \in 1..0 |-> 0]
  <2>2. 0 \in Slot /\ q \in [1..0 -> Slot]
    BY RequestAssumption DEF Slot
  <2>3. Chain(0, q)
    BY <1>3, <2>2 DEF Chain, Init
  <2> HIDE DEF q
  <2> QED BY <2>2, <2>3, ChainIsWhole
<1>6. ArgIsKnown /\ RequestsAreWhole /\ SleepersWillBeWoken /\ FullWaits
  BY <1>3 DEF Init, ArgIsKnown, RequestsAreWhole, SleepersWillBeWoken, FullWaits
<1>7. OneOwner
  BY <1>3 DEF Init, OneOwner, Owned, QueuedFor, Holders, Used
<1>8. DriverIsAwake
  BY DEF Init, DriverIsAwake
<1> QED BY <1>4, <1>5, <1>6, <1>7, <1>8 DEF RequestInv, QueueInv

\* Every step of a task, of the driver and of the disk keeps it.
LEMMA RequestInvStep == RequestInv /\ [Next]_vars => RequestInv'
<1> SUFFICES ASSUME RequestInv, [Next]_vars PROVE RequestInv'
  OBVIOUS
<1>1. CASE UNCHANGED vars
  <2>1. /\ HdTypes' /\ request' \in [Slot -> Request] /\ DriverIsAwake'
        /\ UNCHANGED <<request, current_request, hd, bufs, tasks>>
    BY <1>1 DEF vars, hd, RequestInv, QueueInv, TypeOK, HdTypes, DriverIsAwake
  <2> QED BY <2>1, DriverKeeps DEF hd
<1>2. ASSUME NEW t \in Task,
             \/ TaskStep(t)
             \/ \E b \in Blocks, rw \in {READ, WRITE} : MakeRequest(t, b, rw)
      PROVE  RequestInv'
  BY <1>2, TasksKeep
<1>3. ASSUME NEW b \in Blocks, Modify(b) \/ Recycle(b) PROVE RequestInv'
  BY <1>3, BuffersKeep
<1>4. ASSUME NEW b \in Blocks, NEW rw \in {READ, WRITE}, MakeAheadRequest(b, rw)
      PROVE  RequestInv'
  BY <1>4, AheadKeeps
<1>5. CASE DoHdRequest
  BY <1>5, DoHdRequestKeeps
<1>6. CASE HdInterrupt
  BY <1>6, HdInterruptKeeps
<1> QED BY <1>1, <1>2, <1>3, <1>4, <1>5, <1>6 DEF Next

\* The table, the list, the locks and the driver agree in all reachable states.
THEOREM RequestInvHolds == Spec => []RequestInv
  BY RequestInvInit, RequestInvStep, PTL DEF Spec

\* The list of the device holds every used entry once: no insertion of a task
\* and no end of a request drops or repeats one.
THEOREM ListStaysWhole == Spec => []ListIsWhole
<1>1. RequestInv => ListIsWhole
  BY DEF RequestInv, QueueInv
<1> QED BY <1>1, RequestInvHolds, PTL

\* A locked buffer has one owner, the request in the list or the task that
\* looks for an entry; the panic of unlock_buffer() is not reached.
THEOREM LocksHaveOneOwner == Spec => []LockHasOneOwner
<1>1. RequestInv => LockHasOneOwner
  <2> SUFFICES ASSUME RequestInv, NEW b \in Blocks
               PROVE  Cardinality(QueuedFor(b)) + Cardinality(Holders(b)) =
                         IF b_lock[b] THEN 1 ELSE 0
    BY DEF LockHasOneOwner
  <2>1. Owned(b)
    BY DEF RequestInv, QueueInv, OneOwner
  <2>2. Cardinality({}) = 0 /\ \A x : Cardinality({x}) = 1
    BY FS_EmptySet, FS_Singleton
  <2>3. QueuedFor(b) = {} \/ \E i : QueuedFor(b) = {i}
    BY <2>1 DEF Owned
  <2>4. Holders(b) = {} \/ \E t : Holders(b) = {t}
    BY <2>1 DEF Owned
  <2> DEFINE Q == QueuedFor(b)
             H == Holders(b)
  <2> HIDE DEF Q, H
  <2>5. b_lock[b] <=> Q # {} \/ H # {}
    BY <2>1 DEF Owned, Q, H
  <2>6. CASE Q = {}
    <3>1. H = {} \/ \E t : H = {t}
      BY <2>4 DEF H
    <3>2. Cardinality(H) = IF b_lock[b] THEN 1 ELSE 0
      BY <2>2, <2>5, <2>6, <3>1
    <3> QED BY <2>2, <2>6, <3>2 DEF Q, H
  <2>7. CASE H = {}
    <3>1. Q = {} \/ \E i : Q = {i}
      BY <2>3 DEF Q
    <3>2. Cardinality(Q) = IF b_lock[b] THEN 1 ELSE 0
      BY <2>2, <2>5, <2>7, <3>1
    <3> QED BY <2>2, <2>7, <3>2 DEF Q, H
  <2> QED BY <2>1, <2>6, <2>7 DEF Owned, Q, H
<1> QED BY <1>1, RequestInvHolds, PTL

\* Writes leave a third of the table to reads.
THEOREM ReadsHaveRoom == Spec => []RoomForReads
<1>1. RequestInv => RoomForReads
  <2> SUFFICES ASSUME RequestInv PROVE RoomForReads
    OBVIOUS
  <2> DEFINE W == {i \in Slot : request[i].dev >= 0 /\ request[i].cmd = WRITE}
             n == (NR_REQUEST * 2) \div 3
  <2>1. W \subseteq 0..(n - 1)
    BY DEF RequestInv, QueueInv, RequestsAreWhole, Used, Allowed, READ, WRITE
  <2>2. n \in Nat
    BY RequestAssumption
  <2> HIDE DEF W, n
  <2>3. IsFiniteSet(0..(n - 1)) /\ Cardinality(0..(n - 1)) = n
    BY <2>2, FS_Interval
  <2>4. Cardinality(W) <= n
    BY <2>1, <2>3, FS_Subset
  <2> QED BY <2>4 DEF RoomForReads, W, n
<1> QED BY <1>1, RequestInvHolds, PTL

\* Nobody sleeps for good on a buffer that is not locked or for an entry of a
\* table whose list is empty.
THEOREM SleepersAreWoken == Spec => []SleepersWillBeWoken
<1>1. RequestInv => SleepersWillBeWoken
  BY DEF RequestInv, QueueInv
<1> QED BY <1>1, RequestInvHolds, PTL

\* The driver never stops while there is a request, and never waits for an
\* interrupt that nobody handles.
THEOREM DriverStaysAwake == Spec => []DriverIsAwake
<1>1. RequestInv => DriverIsAwake
  BY DEF RequestInv
<1> QED BY <1>1, RequestInvHolds, PTL
=============================================================================
