---------------------------- MODULE KernelProofs ----------------------------
(***************************************************************************)
(* Proofs about the parts of the kernel that MCKernel checks together, for *)
(* tables, queues and numbers of any size.                                 *)
(***************************************************************************)
EXTENDS MCKernel, Sequences, FiniteSetTheorems, TLAPS

-----------------------------------------------------------------------------
(***************************************************************************)
(* Numbers.                                                                *)
(***************************************************************************)
\* A set of natural numbers that is not empty has a least member.
LEMMA LeastNatural ==
  ASSUME NEW A \in SUBSET Nat, A # {}
  PROVE  \E m \in A : \A n \in A : m <= n
<1>1. IsWellFoundedOn(OpToRel(<, Nat), Nat)
  BY NatLessThanWellFounded
<1>2. PICK m \in A : \A n \in A : <<n, m>> \notin OpToRel(<, Nat)
  BY <1>1, WFMin
<1>3. \A n \in A : <<n, m>> \in OpToRel(<, Nat) <=> n < m
  BY DEF OpToRel
<1>4. \A n \in A : ~(n < m)
  BY <1>2, <1>3
<1>5. \A n \in A : n \in Nat
  OBVIOUS
<1>6. \A n \in A : m <= n
  BY <1>4, <1>5
<1> QED BY <1>6

\* The remainder of a number that goes round at most once.
Wrap(a, m) == IF a < m THEN a ELSE a - m

\* It is what % gives.
LEMMA Modulo ==
  ASSUME NEW m \in Nat \ {0}, NEW a \in Nat, a < 2 * m
  PROVE  a % m = Wrap(a, m) /\ a % m \in 0..(m - 1)
  BY DEF Wrap

\* A step of at most one round.
LEMMA Advance ==
  ASSUME NEW m \in Nat \ {0}, NEW a \in 0..(m - 1), NEW n \in 0..m
  PROVE  (a + n) % m = Wrap(a + n, m) /\ (a + n) % m \in 0..(m - 1)
<1>1. PICK b : b = a + n
  OBVIOUS
<1>2. b \in Nat /\ b < 2 * m
  BY <1>1
<1> QED BY <1>1, <1>2, Modulo

-----------------------------------------------------------------------------
(***************************************************************************)
(* Rings, as struct tty_queue is one.                                      *)
(***************************************************************************)
\* How far it is from t up to h, in a ring of m places.
Distance(m, h, t) == IF h < t THEN h + m - t ELSE h - t

\* A ring of m characters b, with this head and tail, holds the sequence s.
RingHolds(m, h, t, b, s) ==
    /\ Len(s) = Distance(m, h, t)
    /\ \A i \in 1..Len(s) : b[Wrap(t + i - 1, m)] = s[i]

\* What % gives for distances.
LEMMA RingDistances ==
  ASSUME NEW m \in Nat \ {0, 1}, NEW h \in 0..(m - 1), NEW t \in 0..(m - 1)
  PROVE  /\ (h + m - t) % m = Distance(m, h, t)
         /\ (t + m - h - 1) % m = m - 1 - Distance(m, h, t)
         /\ Distance(m, h, t) \in 0..(m - 1)
         /\ Distance(m, h, t) = 0 <=> h = t
         /\ h = Wrap(t + Distance(m, h, t), m)
<1>1. PICK b : b = h + m - t
  OBVIOUS
<1>2. b \in Nat /\ b < 2 * m
  BY <1>1
<1>3. b % m = Wrap(b, m)
  BY <1>2, Modulo
<1>4. PICK z : z = t + m - h - 1
  OBVIOUS
<1>5. z \in Nat /\ z < 2 * m
  BY <1>4
<1>6. z % m = Wrap(z, m)
  BY <1>5, Modulo
<1>7. Wrap(b, m) = Distance(m, h, t)
  BY <1>1 DEF Wrap, Distance
<1>8. Wrap(z, m) = m - 1 - Distance(m, h, t)
  BY <1>4 DEF Wrap, Distance
<1>9. /\ Distance(m, h, t) \in 0..(m - 1)
      /\ Distance(m, h, t) = 0 <=> h = t
      /\ h = Wrap(t + Distance(m, h, t), m)
  BY DEF Distance, Wrap
<1> QED BY <1>1, <1>3, <1>4, <1>6, <1>7, <1>8, <1>9

\* And for places.
LEMMA RingPlaces ==
  ASSUME NEW m \in Nat \ {0, 1}, NEW t \in 0..(m - 1), NEW i \in 1..m
  PROVE  (t + i - 1) % m = Wrap(t + i - 1, m)
<1>1. PICK b : b = t + i - 1
  OBVIOUS
<1>2. b \in Nat /\ b < 2 * m
  BY <1>1
<1> QED BY <1>1, <1>2, Modulo

\* A place behind the head.
LEMMA RingBack ==
  ASSUME NEW m \in Nat \ {0, 1}, NEW h \in 0..(m - 1), NEW i \in 0..(m - 1)
  PROVE  (h + m - i) % m = Wrap(h + m - i, m) /\ (h + m - i) % m \in 0..(m - 1)
<1>1. PICK b : b = h + m - i
  OBVIOUS
<1>2. b \in Nat /\ b < 2 * m
  BY <1>1
<1> QED BY <1>1, <1>2, Modulo

\* The place behind the tail.
LEMMA RingNext ==
  ASSUME NEW m \in Nat \ {0, 1}, NEW t \in 0..(m - 1)
  PROVE  (t + 1) % m = Wrap(t + 1, m) /\ (t + 1) % m \in 0..(m - 1)
  BY Advance

\* Something is put at the head, which stays or moves on.
LEMMA RingPut ==
  ASSUME NEW m \in Nat \ {0, 1}, NEW h \in 0..(m - 1), NEW t \in 0..(m - 1),
         NEW b, NEW X, NEW s \in Seq(X), NEW v \in X, NEW bb,
         RingHolds(m, h, t, b, s),
         \A i \in (0..(m - 1)) \ {h} : bb[i] = b[i]
  PROVE  /\ RingHolds(m, h, t, bb, s)
         /\ Len(s) < m - 1 /\ bb[h] = v
              => RingHolds(m, (h + 1) % m, t, bb, Append(s, v)) /\ (h + 1) % m # t
<1>1. PICK n : n = Len(s)
  OBVIOUS
<1>2. /\ n = Distance(m, h, t) /\ n \in 0..(m - 1) /\ h = Wrap(t + n, m)
      /\ \A i \in 1..n : b[Wrap(t + i - 1, m)] = s[i]
  BY <1>1, RingDistances DEF RingHolds
<1>3. ASSUME NEW i \in 1..n PROVE Wrap(t + i - 1, m) \in (0..(m - 1)) \ {h}
  BY <1>2 DEF Wrap
<1>4. \A i \in 1..n : bb[Wrap(t + i - 1, m)] = s[i]
  BY <1>2, <1>3
<1>5. RingHolds(m, h, t, bb, s)
  BY <1>1, <1>2, <1>4 DEF RingHolds
<1>6. PICK g : g = (h + 1) % m
  OBVIOUS
<1>7. g = Wrap(h + 1, m) /\ g \in 0..(m - 1)
  BY <1>6, RingNext
<1>8. ASSUME n < m - 1, bb[h] = v
      PROVE  RingHolds(m, g, t, bb, Append(s, v)) /\ g # t
  <2>1. PICK u : u = Append(s, v)
    OBVIOUS
  <2>2. /\ Len(u) = n + 1 /\ u[n + 1] = v /\ \A i \in 1..n : u[i] = s[i]
    BY <1>1, <2>1
  <2>3. g # t /\ n + 1 = Distance(m, g, t)
    BY <1>2, <1>7, <1>8 DEF Wrap, Distance
  <2>4. ASSUME NEW i \in 1..(n + 1) PROVE bb[Wrap(t + i - 1, m)] = u[i]
    <3>1. CASE i = n + 1
      <4>1. n \in Nat /\ t \in Nat
        BY <1>2
      <4>2. t + i - 1 = t + n
        BY <3>1, <4>1
      <4> QED BY <1>2, <1>8, <2>2, <3>1, <4>2
    <3>2. CASE i # n + 1
      <4>1. i \in 1..n
        BY <1>2, <3>2
      <4> QED BY <1>4, <2>2, <4>1
    <3> QED BY <3>1, <3>2
  <2> QED BY <2>1, <2>2, <2>3, <2>4 DEF RingHolds
<1> QED BY <1>1, <1>5, <1>6, <1>8

\* What is at the tail is taken.
LEMMA RingGet ==
  ASSUME NEW m \in Nat \ {0, 1}, NEW h \in 0..(m - 1), NEW t \in 0..(m - 1),
         NEW b, NEW X, NEW s \in Seq(X), RingHolds(m, h, t, b, s)
  PROVE  /\ h = t <=> s = <<>>
         /\ h # t => /\ b[t] = Head(s) /\ Head(s) = s[1]
                     /\ RingHolds(m, h, (t + 1) % m, b, Tail(s))
                     /\ (t + 1) % m = h <=> Len(s) = 1
<1>1. PICK n : n = Len(s)
  OBVIOUS
<1>2. /\ n = Distance(m, h, t) /\ n \in 0..(m - 1) /\ (h = t <=> n = 0)
      /\ \A i \in 1..n : b[Wrap(t + i - 1, m)] = s[i]
  <2>1. /\ n = Distance(m, h, t)
        /\ \A i \in 1..n : b[Wrap(t + i - 1, m)] = s[i]
    BY <1>1 DEF RingHolds
  <2>2. /\ Distance(m, h, t) \in 0..(m - 1)
        /\ Distance(m, h, t) = 0 <=> h = t
    BY RingDistances
  <2> QED BY <2>1, <2>2
<1>3. n = 0 <=> s = <<>>
  BY <1>1
<1>4. PICK g : g = (t + 1) % m
  OBVIOUS
<1>5. g = Wrap(t + 1, m) /\ g \in 0..(m - 1)
  BY <1>4, RingNext
<1>6. ASSUME h # t
      PROVE  /\ b[t] = Head(s) /\ Head(s) = s[1]
             /\ RingHolds(m, h, g, b, Tail(s))
             /\ g = h <=> n = 1
  <2>1. PICK u : u = Tail(s)
    OBVIOUS
  <2>2. /\ Len(u) = n - 1 /\ \A i \in 1..(n - 1) : u[i] = s[i + 1]
        /\ Head(s) = s[1]
    <3>1. s # <<>> /\ Len(s) \in Nat
      BY <1>2, <1>3, <1>6
    <3>2. Len(u) = Len(s) - 1 /\ \A i \in 1..(Len(s) - 1) : u[i] = s[i + 1]
      BY <2>1, <3>1
    <3>3. Head(s) = s[1]
      BY <3>1
    <3> QED BY <1>1, <3>2, <3>3
  <2>3. n - 1 = Distance(m, h, g) /\ (g = h <=> n = 1)
    BY <1>2, <1>5, <1>6 DEF Wrap, Distance
  <2>4. b[t] = s[1]
    <3>1. Wrap(t + 1 - 1, m) = t /\ 1 \in 1..n
      BY <1>2, <1>6 DEF Wrap
    <3> QED BY <1>2, <3>1
  <2>5. ASSUME NEW i \in 1..(n - 1) PROVE b[Wrap(g + i - 1, m)] = u[i]
    <3>1. Wrap(g + i - 1, m) = Wrap(t + (i + 1) - 1, m) /\ i + 1 \in 1..n
      BY <1>2, <1>5 DEF Wrap
    <3> QED BY <1>2, <2>2, <3>1
  <2>6. RingHolds(m, h, g, b, u)
    BY <2>2, <2>3, <2>5 DEF RingHolds
  <2> QED BY <2>1, <2>2, <2>3, <2>4, <2>6
<1> QED BY <1>1, <1>2, <1>3, <1>4, <1>6

\* What was put last is taken back.
LEMMA RingDrop ==
  ASSUME NEW m \in Nat \ {0, 1}, NEW h \in 0..(m - 1), NEW t \in 0..(m - 1),
         NEW b, NEW X, NEW s \in Seq(X), RingHolds(m, h, t, b, s),
         NEW k \in 0..Len(s)
  PROVE  /\ RingHolds(m, (h + m - k) % m, t, b, SubSeq(s, 1, Len(s) - k))
         /\ (h + m - k) % m \in 0..(m - 1)
         /\ \A i \in 1..Len(s) : b[(h + m - i) % m] = s[Len(s) + 1 - i]
<1>1. PICK n : n = Len(s)
  OBVIOUS
<1>2. /\ n = Distance(m, h, t) /\ n \in 0..(m - 1) /\ k \in 0..n
      /\ \A i \in 1..n : b[Wrap(t + i - 1, m)] = s[i]
  BY <1>1, RingDistances DEF RingHolds
<1>3. PICK g : g = (h + m - k) % m
  OBVIOUS
<1>4. g = Wrap(h + m - k, m) /\ g \in 0..(m - 1)
  <2>1. k \in 0..(m - 1)
    BY <1>2
  <2> QED BY <1>3, <2>1, RingBack
<1>5. PICK u : u = SubSeq(s, 1, n - k)
  OBVIOUS
<1>6. n - k \in Nat /\ n - k <= n
  BY <1>2
<1>7. Len(u) = n - k /\ \A i \in 1..(n - k) : u[i] = s[i]
  BY <1>1, <1>5, <1>6
<1>8. n - k = Distance(m, g, t)
  BY <1>2, <1>4 DEF Wrap, Distance
<1>9. \A i \in 1..(n - k) : b[Wrap(t + i - 1, m)] = u[i]
  <2>1. \A i \in 1..(n - k) : i \in 1..n
    BY <1>2
  <2> QED BY <1>2, <1>7, <2>1
<1>10. ASSUME NEW i \in 1..n PROVE b[(h + m - i) % m] = s[n + 1 - i]
  <2>1. i \in 0..(m - 1)
    BY <1>2
  <2>2. (h + m - i) % m = Wrap(h + m - i, m)
    BY <2>1, RingBack
  <2>3. Wrap(h + m - i, m) = Wrap(t + (n + 1 - i) - 1, m) /\ n + 1 - i \in 1..n
    <3>1. n \in 0..(m - 1) /\ n = IF h < t THEN h + m - t ELSE h - t
      BY <1>2 DEF Distance
    <3>2. n + 1 - i \in 1..n
      BY <3>1
    <3>3. CASE h < t
      BY <3>1, <3>2, <3>3 DEF Wrap
    <3>4. CASE ~(h < t)
      BY <3>1, <3>2, <3>4 DEF Wrap
    <3> QED BY <3>2, <3>3, <3>4
  <2> QED BY <1>2, <2>2, <2>3
<1>11. RingHolds(m, g, t, b, u)
  BY <1>7, <1>8, <1>9 DEF RingHolds
<1> QED BY <1>1, <1>3, <1>4, <1>5, <1>10, <1>11

-----------------------------------------------------------------------------
(***************************************************************************)
(* How often a sequence has something of a set, as the ends of lines.      *)
(***************************************************************************)
\* The places of s where something of E is.
Marks(s, E) == {i \in 1..Len(s) : s[i] \in E}

\* They are counted.
LEMMA MarksAreFinite ==
  ASSUME NEW s, Len(s) \in Nat, NEW E
  PROVE  /\ IsFiniteSet(Marks(s, E)) /\ Cardinality(Marks(s, E)) \in Nat
         /\ Cardinality(Marks(s, E)) # 0 <=> \E i \in 1..Len(s) : s[i] \in E
<1>1. IsFiniteSet(1..Len(s)) /\ Marks(s, E) \in SUBSET (1..Len(s))
  BY FS_Interval DEF Marks
<1>2. IsFiniteSet(Marks(s, E))
  BY <1>1, FS_Subset
<1>3. Cardinality(Marks(s, E)) = 0 <=> Marks(s, E) = {}
  BY <1>2, FS_EmptySet
<1> QED BY <1>2, <1>3, FS_CardinalityType DEF Marks

\* Something is put behind s.
LEMMA MarksAppend ==
  ASSUME NEW s, NEW u, NEW v, NEW E, Len(s) \in Nat,
         Len(u) = Len(s) + 1, u[Len(s) + 1] = v, \A i \in 1..Len(s) : u[i] = s[i]
  PROVE  Cardinality(Marks(u, E)) = Cardinality(Marks(s, E)) + (IF v \in E THEN 1 ELSE 0)
<1>1. IsFiniteSet(Marks(s, E)) /\ Cardinality(Marks(s, E)) \in Nat
  BY MarksAreFinite
<1>2. PICK n \in Nat : n = Len(s)
  OBVIOUS
<1>3. n + 1 \notin Marks(s, E)
  BY <1>2 DEF Marks
<1>4. CASE v \in E
  <2>1. Marks(u, E) = Marks(s, E) \cup {n + 1}
    <3>1. Len(u) = n + 1 /\ u[n + 1] = v /\ Len(s) = n /\ \A i \in 1..n : u[i] = s[i]
      BY <1>2
    <3> QED BY <1>2, <1>4, <3>1 DEF Marks
  <2> QED BY <1>1, <1>3, <1>4, <2>1, FS_AddElement
<1>5. CASE v \notin E
  <2>1. Marks(u, E) = Marks(s, E)
    <3>1. Len(u) = n + 1 /\ u[n + 1] = v /\ Len(s) = n /\ \A i \in 1..n : u[i] = s[i]
      BY <1>2
    <3> QED BY <1>2, <1>5, <3>1 DEF Marks
  <2> QED BY <1>1, <1>5, <2>1
<1> QED BY <1>4, <1>5

\* The first is taken.
LEMMA MarksTail ==
  ASSUME NEW s, NEW u, NEW E, Len(s) \in Nat \ {0},
         Len(u) = Len(s) - 1, \A i \in 1..(Len(s) - 1) : u[i] = s[i + 1]
  PROVE  Cardinality(Marks(s, E)) = Cardinality(Marks(u, E)) + (IF s[1] \in E THEN 1 ELSE 0)
<1>1. PICK n \in Nat \ {0} : n = Len(s)
  OBVIOUS
<1>2. Len(u) = n - 1 /\ n - 1 \in Nat /\ Len(s) = n /\ \A i \in 1..(n - 1) : u[i] = s[i + 1]
  BY <1>1
<1>3. /\ IsFiniteSet(Marks(s, E)) /\ Cardinality(Marks(s, E)) \in Nat
      /\ IsFiniteSet(Marks(u, E)) /\ Cardinality(Marks(u, E)) \in Nat
  BY <1>2, MarksAreFinite
<1> DEFINE f == [i \in Marks(u, E) |-> i + 1]
<1>4. \A i \in Marks(u, E) : i + 1 \in Marks(s, E) \ {1}
  BY <1>2 DEF Marks
<1>5. \A j \in Marks(s, E) \ {1} : j - 1 \in Marks(u, E) /\ j - 1 + 1 = j
  <2> TAKE j \in Marks(s, E) \ {1}
  <2>1. j \in 1..n /\ j # 1 /\ s[j] \in E
    BY <1>2 DEF Marks
  <2>2. PICK k : k = j - 1
    OBVIOUS
  <2>3. k \in 1..(n - 1) /\ k + 1 = j
    BY <1>2, <2>1, <2>2
  <2>4. u[k] \in E
    BY <1>2, <2>1, <2>3
  <2> QED BY <1>2, <2>2, <2>3, <2>4 DEF Marks
<1>6. f \in Bijection(Marks(u, E), Marks(s, E) \ {1})
  <2>1. f \in [Marks(u, E) -> Marks(s, E) \ {1}]
    BY <1>4
  <2>2. \A a, b \in Marks(u, E) : f[a] = f[b] => a = b
    BY DEF Marks
  <2>3. \A j \in Marks(s, E) \ {1} : \E i \in Marks(u, E) : f[i] = j
    BY <1>5
  <2> HIDE DEF f
  <2> QED BY <2>1, <2>2, <2>3 DEF Bijection, Injection, Surjection, IsInjective
<1>7. ExistsBijection(Marks(u, E), Marks(s, E) \ {1})
  BY <1>6 DEF ExistsBijection
<1>8. Cardinality(Marks(s, E) \ {1}) = Cardinality(Marks(u, E))
  BY <1>3, <1>7, FS_Bijection
<1>9. 1 \in Marks(s, E) <=> s[1] \in E
  BY <1>2 DEF Marks
<1>10. Cardinality(Marks(s, E) \ {1})
         = IF 1 \in Marks(s, E) THEN Cardinality(Marks(s, E)) - 1 ELSE Cardinality(Marks(s, E))
  BY <1>3, FS_RemoveElement
<1> QED BY <1>3, <1>8, <1>9, <1>10

\* What is taken from the end does not count.
LEMMA MarksDrop ==
  ASSUME NEW s, NEW u, NEW E, Len(s) \in Nat, Len(u) \in 0..Len(s),
         \A i \in 1..Len(u) : u[i] = s[i],
         \A i \in (Len(u) + 1)..Len(s) : s[i] \notin E
  PROVE  Marks(u, E) = Marks(s, E)
<1>1. PICK n \in Nat, k \in Nat : n = Len(s) /\ k = Len(u)
  OBVIOUS
<1>2. k \in 0..n /\ (\A i \in 1..k : u[i] = s[i]) /\ (\A i \in (k + 1)..n : s[i] \notin E)
  BY <1>1
<1>3. \A i \in 1..n : i \in 1..k \/ i \in (k + 1)..n
  BY <1>2
<1> QED BY <1>1, <1>2, <1>3 DEF Marks

-----------------------------------------------------------------------------
(***************************************************************************)
(* The floppy driver.                                                      *)
(***************************************************************************)
\* The features of the run: no request comes while a reset without one runs, the
\* controller and the tasks are not slower than a motor stays on, and only where
\* there is one drive are there requests behind the end of the disk.
FloppyIsTame ==
    \A r \in FloppyRegimes : /\ "late_request" \notin r /\ "slow" \notin r
                             /\ ~({"beyond", "two_drives"} \subseteq r)

\* The driver's state has these registers, which hold values of these kinds.
Registers == {"queue", "timers", "reset", "recalibrate", "seek", "selected", "dor",
              "motors", "mon", "moff", "drive", "track", "seek_track", "do", "busy",
              "head", "spun", "freed", "wrong"}

DriverTypes(f) ==
    /\ DOMAIN f = Registers
    /\ f.queue \in Seq(F!Request)
    /\ f.reset \in BOOLEAN /\ f.recalibrate \in BOOLEAN /\ f.seek \in BOOLEAN
    /\ f.selected \in BOOLEAN /\ f.freed \in BOOLEAN
    /\ f.dor \in Drive /\ f.drive \in Drive /\ f.motors \in SUBSET Drive
    /\ f.mon \in [Drive -> 0..SPINUP] /\ f.moff \in [Drive -> 0..LONG]
    /\ f.spun \in [Drive -> 0..SPINUP] /\ f.head \in [Drive -> Track]
    /\ f.track \in Track \cup {NULL} /\ f.seek_track \in Track

\* The first request is one that the driver works for.
Queued(f) == f.queue # <<>> /\ f.queue[1].track # BEYOND

\* Motors that start stay on, and those that run have their speed in time.
MotorsCount(f) ==
    \A d \in Drive : /\ f.mon[d] > 0 => d \in f.motors /\ f.moff[d] > 1
                     /\ d \in f.motors => f.spun[d] + f.mon[d] >= SPINUP

AtSpeed(f) == f.drive \in f.motors /\ f.spun[f.drive] >= SPINUP - 1
Selected(f) == f.selected /\ f.dor = f.drive
OnTrack(f) == f.head[f.drive] = f.seek_track
Settled(f) == f.track = NULL \/ f.head[f.drive] = f.track

\* What a timer waits for will be so when it rings.
TimerWaits(f, k) ==
    /\ k \in F!Timer /\ Queued(f)
    /\ f.seek \/ OnTrack(f)
    /\ \/ /\ k.fn = "on" /\ k.left > 0
          /\ f.drive \in f.motors /\ f.mon[f.drive] >= k.left
          /\ f.spun[f.drive] + k.left >= SPINUP
       \/ /\ k.fn = "transfer" /\ k.left \in 1..2
          /\ Selected(f) /\ AtSpeed(f)
          /\ (f.mon[f.drive] > 0 \/ f.moff[f.drive] >= k.left)

DrivesUsed(f) ==
    /\ "late_request" \notin on /\ "slow" \notin on
    /\ "two_drives" \notin on =>
          f.drive = 0 /\ \A k \in 1..Len(f.queue) : f.queue[k].drive = 0
    /\ "two_drives" \in on => \A k \in 1..Len(f.queue) : f.queue[k].track # BEYOND

\* The rest of what is so between two steps.
DriverRest(f) ==
    /\ DriverTypes(f)
    /\ DrivesUsed(f) /\ MotorsCount(f) /\ f.wrong = {}
    /\ f.selected => Queued(f)
    /\ f.do = f.busy /\ f.busy \in {"rw", "seek", "recal", "reset", NULL}
    /\ f.queue # <<>> => f.busy # NULL \/ f.timers # <<>>
    /\ f.busy \in {"rw", "seek"} => Queued(f) /\ Selected(f) /\ AtSpeed(f)
    /\ f.busy = "seek" => OnTrack(f)
    /\ f.busy = "reset" => f.recalibrate \/ f.reset
    /\ \/ f.recalibrate \/ f.reset \/ f.busy = "seek" \/ (f.timers # <<>> /\ f.seek)
       \/ Settled(f)
    /\ f.busy = "recal" => Settled(f)

DriverInv(f) ==
    /\ DriverRest(f)
    /\ f.timers = <<>> \/ (Len(f.timers) = 1 /\ TimerWaits(f, f.timers[1]) /\ f.busy = NULL)

\* Nothing but the motors and the selection differs.
SameWork(f, g) ==
    /\ g.queue = f.queue /\ g.timers = f.timers /\ g.reset = f.reset
    /\ g.recalibrate = f.recalibrate /\ g.seek = f.seek /\ g.selected = f.selected
    /\ g.drive = f.drive /\ g.track = f.track /\ g.seek_track = f.seek_track
    /\ g.do = f.do /\ g.busy = f.busy /\ g.head = f.head
    /\ g.freed = f.freed /\ g.wrong = f.wrong

\* The motors and the selection are the same.
SameMotors(f, g) ==
    /\ g.dor = f.dor /\ g.motors = f.motors /\ g.mon = f.mon /\ g.moff = f.moff
    /\ g.spun = f.spun

\* The numbers of the driver.
LEMMA FloppyNumbers ==
  /\ 0 \in Track /\ BEYOND \notin Track /\ NULL \notin Track /\ 0 \in Drive
  /\ SPINUP \in Nat /\ SHORT \in Nat /\ LONG \in Nat
  /\ 1 < SPINUP /\ SPINUP < LONG /\ 1 < SHORT /\ SHORT < LONG
  /\ NULL \notin {"rw", "seek", "recal", "reset"}
  BY KernelAssumption DEF F!FloppyAssumption

\* ticks_to_floppy_on(): the motor is on, and has its speed in time.
LEMMA MotorIsOn ==
  ASSUME NEW f, DriverTypes(f), NEW d \in Drive, MotorsCount(f), NEW h, h = F!MotorOn(f, d)
  PROVE  /\ DriverTypes(h) /\ SameWork(f, h) /\ MotorsCount(h)
         /\ d \in h.motors /\ f.motors \subseteq h.motors /\ h.moff[d] = LONG
         /\ h.dor = IF f.selected THEN f.dor ELSE d
         /\ \A e \in Drive : e # d => h.moff[e] = f.moff[e]
         /\ \A e \in f.motors : h.spun[e] = f.spun[e] /\ h.mon[e] >= f.mon[e]
<1>1. PICK dor : dor = IF f.selected THEN f.dor ELSE d
  OBVIOUS
<1>2. PICK m : m = IF d \notin f.motors THEN SPINUP
                   ELSE IF dor # f.dor /\ f.mon[d] < 2 THEN 2 ELSE f.mon[d]
  OBVIOUS
<1>3. PICK s : s = IF d \in f.motors THEN f.spun[d] ELSE 0
  OBVIOUS
<1>4. PICK mon : mon = [f.mon EXCEPT ![d] = m]
  OBVIOUS
<1>5. PICK moff : moff = [f.moff EXCEPT ![d] = LONG]
  OBVIOUS
<1>6. PICK spun : spun = [f.spun EXCEPT ![d] = s]
  OBVIOUS
<1>7. /\ f.mon \in [Drive -> 0..SPINUP] /\ f.moff \in [Drive -> 0..LONG]
      /\ f.spun \in [Drive -> 0..SPINUP] /\ f.dor \in Drive /\ f.motors \in SUBSET Drive
  BY DEF DriverTypes
<1>8. dor \in Drive /\ m \in 0..SPINUP /\ s \in 0..SPINUP
  BY <1>1, <1>2, <1>3, <1>7, FloppyNumbers
<1>9. /\ mon \in [Drive -> 0..SPINUP] /\ moff \in [Drive -> 0..LONG]
      /\ spun \in [Drive -> 0..SPINUP]
  BY <1>4, <1>5, <1>6, <1>7, <1>8, FloppyNumbers
<1>10. h = [f EXCEPT !.moff = moff, !.motors = f.motors \cup {d}, !.dor = dor, !.mon = mon,
                     !.spun = spun]
  BY <1>1, <1>2, <1>3, <1>4, <1>5, <1>6 DEF F!MotorOn, DriverTypes, Registers
<1>12. /\ SameWork(f, h) /\ h.moff = moff /\ h.motors = f.motors \cup {d}
       /\ h.dor = dor /\ h.mon = mon /\ h.spun = spun /\ DOMAIN h = Registers
  BY <1>10 DEF DriverTypes, Registers, SameWork
<1>11. DriverTypes(h)
  BY <1>7, <1>8, <1>9, <1>12 DEF DriverTypes, SameWork
<1>13. ASSUME NEW e \in Drive
       PROVE  /\ h.mon[e] > 0 => e \in h.motors /\ h.moff[e] > 1
              /\ e \in h.motors => h.spun[e] + h.mon[e] >= SPINUP
              /\ e # d => h.moff[e] = f.moff[e]
              /\ e \in f.motors => h.spun[e] = f.spun[e] /\ h.mon[e] >= f.mon[e]
  <2>1. CASE e = d
    <3>1. h.mon[e] = m /\ h.moff[e] = LONG /\ h.spun[e] = s
      BY <1>4, <1>5, <1>6, <1>7, <1>12, <2>1
    <3>2. f.mon[d] \in Nat /\ f.spun[d] \in Nat
      BY <1>7, FloppyNumbers
    <3> QED BY <1>2, <1>3, <1>8, <1>12, <2>1, <3>1, <3>2, FloppyNumbers DEF MotorsCount
  <2>2. CASE e # d
    <3>1. h.mon[e] = f.mon[e] /\ h.moff[e] = f.moff[e] /\ h.spun[e] = f.spun[e]
      BY <1>4, <1>5, <1>6, <1>7, <1>12, <2>2
    <3>2. f.mon[e] \in Nat
      BY <1>7, FloppyNumbers
    <3> QED BY <1>12, <2>2, <3>1, <3>2 DEF MotorsCount
  <2> QED BY <2>1, <2>2
<1>14. h.moff[d] = LONG
  BY <1>5, <1>7, <1>12
<1> QED BY <1>1, <1>7, <1>11, <1>12, <1>13, <1>14 DEF MotorsCount

\* floppy_off(): the motor will stop, but not at once.
LEMMA MotorIsLeft ==
  ASSUME NEW f, DriverTypes(f), NEW d \in Drive, MotorsCount(f), NEW h, h = F!MotorOff(f, d)
  PROVE  /\ DriverTypes(h) /\ SameWork(f, h) /\ MotorsCount(h)
         /\ h.dor = f.dor /\ h.motors = f.motors /\ h.mon = f.mon /\ h.spun = f.spun
         /\ \A e \in Drive : h.moff[e] = f.moff[e] \/ h.moff[e] = SHORT
<1>1. PICK moff : moff = [f.moff EXCEPT ![d] = SHORT]
  OBVIOUS
<1>2. /\ moff \in [Drive -> 0..LONG]
      /\ \A e \in Drive : moff[e] = f.moff[e] \/ moff[e] = SHORT
  <2>1. f.moff \in [Drive -> 0..LONG]
    BY DEF DriverTypes
  <2> QED BY <1>1, <2>1, FloppyNumbers
<1>3. h = [f EXCEPT !.moff = moff]
  BY <1>1 DEF F!MotorOff, DriverTypes, Registers
<1>4. DriverTypes(h)
  BY <1>2, <1>3 DEF DriverTypes, Registers
<1>5. /\ SameWork(f, h) /\ h.dor = f.dor /\ h.motors = f.motors /\ h.mon = f.mon
      /\ h.spun = f.spun /\ h.moff = moff
  BY <1>3 DEF DriverTypes, Registers, SameWork
<1>6. \A e \in Drive : f.moff[e] > 1 => h.moff[e] > 1
  BY <1>2, <1>5, FloppyNumbers
<1> QED BY <1>2, <1>4, <1>5, <1>6 DEF MotorsCount

\* end_request()
LEMMA RequestEnds ==
  ASSUME NEW f, DriverTypes(f), MotorsCount(f), DrivesUsed(f), f.queue # <<>>,
         NEW h, h = F!EndRequest(f)
  PROVE  /\ DriverTypes(h) /\ MotorsCount(h) /\ DrivesUsed(h) /\ h.queue = Tail(f.queue)
         /\ SameWork([f EXCEPT !.queue = Tail(f.queue)], h)
         /\ h.dor = f.dor
<1>1. PICK d : d = Head(f.queue).drive
  OBVIOUS
<1>2. PICK m : m = F!MotorOff(f, d)
  OBVIOUS
<1>3. d \in Drive
  <2>1. Head(f.queue) \in F!Request
    BY DEF DriverTypes
  <2> QED BY <1>1, <2>1 DEF F!Request
<1>4. /\ DriverTypes(m) /\ SameWork(f, m) /\ MotorsCount(m)
      /\ m.dor = f.dor /\ m.motors = f.motors /\ m.mon = f.mon /\ m.spun = f.spun
  BY <1>2, <1>3, MotorIsLeft
<1>5. PICK q : q = Tail(f.queue)
  OBVIOUS
<1>6. /\ q \in Seq(F!Request) /\ Len(q) = Len(f.queue) - 1 /\ Len(f.queue) \in Nat
      /\ \A k \in 1..Len(q) : q[k] = f.queue[k + 1]
  BY <1>5 DEF DriverTypes
<1>7. h = [m EXCEPT !.queue = q]
  BY <1>1, <1>2, <1>4, <1>5 DEF F!EndRequest, SameWork, DriverTypes, Registers
<1>8. DriverTypes(h)
  BY <1>4, <1>6, <1>7 DEF DriverTypes, Registers
<1>9. /\ h.queue = q /\ h.mon = m.mon /\ h.motors = m.motors /\ h.moff = m.moff
      /\ h.spun = m.spun /\ h.dor = m.dor /\ h.drive = m.drive
  BY <1>4, <1>7 DEF DriverTypes, Registers
<1>10. MotorsCount(h)
  BY <1>4, <1>9 DEF MotorsCount
<1>11. DrivesUsed(h)
  BY <1>4, <1>6, <1>9 DEF DrivesUsed, SameWork
<1>12. SameWork([f EXCEPT !.queue = q], h)
  BY <1>4, <1>7 DEF SameWork, DriverTypes, Registers
<1> QED BY <1>4, <1>5, <1>8, <1>9, <1>10, <1>11, <1>12

-----------------------------------------------------------------------------
\* The driver is entered, and nothing is on its way.
Between(f) ==
    /\ DriverTypes(f) /\ DrivesUsed(f) /\ MotorsCount(f) /\ f.wrong = {}
    /\ f.selected => Queued(f)
    /\ f.busy = NULL /\ f.timers = <<>>

\* The heads are where the driver says, or it will find them.
HeadsFound(f) == f.recalibrate \/ f.reset \/ Settled(f)

\* A command is given: no motor, no selection and no request has changed.
Commanded(f, g) ==
    /\ SameMotors(f, g) /\ g.queue = f.queue /\ g.drive = f.drive
    /\ g.selected = f.selected /\ g.freed = f.freed /\ g.timers = <<>>

\* output_byte(): the command is taken, or a reset is due.
LEMMA CommandIsTaken ==
  ASSUME NEW f, NEW w, f.busy = NULL, NEW g \in F!Command(f, w)
  PROVE  \/ f.reset /\ g = f
         \/ ~f.reset /\ g = [f EXCEPT !.busy = w]
         \/ ~f.reset /\ g = [f EXCEPT !.reset = TRUE]
  BY DEF F!Command

\* reset_floppy()
LEMMA ResetIsRight ==
  ASSUME NEW f, Between(f), NEW h, h = F!ResetFloppy(f)
  PROVE  DriverInv(h) /\ Commanded(f, h)
<1>1. /\ DOMAIN h = Registers /\ SameMotors(f, h) /\ h.queue = f.queue /\ h.drive = f.drive
      /\ h.selected = f.selected /\ h.freed = f.freed /\ h.timers = <<>>
      /\ h.reset = FALSE /\ h.recalibrate = TRUE /\ h.seek = FALSE
      /\ h.do = "reset" /\ h.busy = "reset" /\ h.wrong = {}
      /\ h.track = f.track /\ h.seek_track = f.seek_track /\ h.head = f.head
  BY DEF Between, DriverTypes, Registers, SameMotors, F!ResetFloppy
<1>2. DriverTypes(h)
  BY <1>1 DEF Between, DriverTypes, SameMotors
<1>3. DrivesUsed(h) /\ MotorsCount(h) /\ (h.selected => Queued(h))
  BY <1>1 DEF Between, DrivesUsed, MotorsCount, SameMotors, Queued
<1>4. h.busy # NULL
  BY <1>1, FloppyNumbers
<1> QED BY <1>1, <1>2, <1>3, <1>4 DEF DriverInv, DriverRest, Commanded

\* What a command leaves behind, when the driver is as it should be otherwise.
LEMMA BusyIsRight ==
  ASSUME NEW f, Between(f), NEW g, DriverTypes(g), Commanded(f, g),
         g.wrong = {}, g.do = g.busy, g.busy \in {"rw", "seek", "recal"},
         g.busy \in {"rw", "seek"} => Queued(g) /\ Selected(g) /\ AtSpeed(g),
         g.busy = "seek" => OnTrack(g), g.busy = "recal" => Settled(g),
         g.busy = "rw" => HeadsFound(g)
  PROVE  DriverInv(g)
<1>1. DrivesUsed(g) /\ MotorsCount(g) /\ (g.selected => Queued(g))
  BY DEF Between, DrivesUsed, MotorsCount, Commanded, SameMotors, Queued
<1>2. g.busy # NULL /\ g.timers = <<>>
  BY FloppyNumbers DEF Commanded
<1> QED BY <1>1, <1>2 DEF DriverInv, DriverRest, HeadsFound

\* setup_rw_floppy(): nothing is wrong with the transfer.
LEMMA SetupIsRight ==
  ASSUME NEW f, Between(f), Queued(f), Selected(f), AtSpeed(f), OnTrack(f), HeadsFound(f),
         NEW g \in F!SetupTransfer(f)
  PROVE  DriverInv(g) /\ Commanded(f, g)
<1>1. PICK e : e = [f EXCEPT !.do = "rw"]
  OBVIOUS
<1>2. PICK c1 \in F!Command(e, "rw") :
        \E y1 : /\ y1 = IF c1.reset THEN c1 ELSE [c1 EXCEPT !.wrong = @ \cup F!Wrong(c1)]
                /\ g = IF y1.reset THEN F!ResetFloppy(y1) ELSE y1
  BY <1>1 DEF F!SetupTransfer, F!OrReset
<1>3. PICK z : /\ z = IF c1.reset THEN c1 ELSE [c1 EXCEPT !.wrong = @ \cup F!Wrong(c1)]
               /\ g = IF z.reset THEN F!ResetFloppy(z) ELSE z
  BY <1>2
<1>4. /\ DOMAIN e = Registers /\ SameMotors(f, e) /\ e.queue = f.queue /\ e.drive = f.drive
      /\ e.selected = f.selected /\ e.freed = f.freed /\ e.timers = <<>>
      /\ e.reset = f.reset /\ e.recalibrate = f.recalibrate /\ e.seek = f.seek
      /\ e.do = "rw" /\ e.busy = NULL /\ e.wrong = {}
      /\ e.track = f.track /\ e.seek_track = f.seek_track /\ e.head = f.head
  BY <1>1 DEF Between, DriverTypes, Registers, SameMotors
<1>5. \/ e.reset /\ c1 = e
      \/ ~e.reset /\ c1 = [e EXCEPT !.busy = "rw"]
      \/ ~e.reset /\ c1 = [e EXCEPT !.reset = TRUE]
  BY <1>2, <1>4, CommandIsTaken
<1>6. CASE e.reset \/ c1 = [e EXCEPT !.reset = TRUE]
  <2>1. /\ DOMAIN c1 = Registers /\ SameMotors(f, c1) /\ c1.queue = f.queue
        /\ c1.drive = f.drive
        /\ c1.selected = f.selected /\ c1.freed = f.freed /\ c1.timers = <<>>
        /\ c1.reset = TRUE /\ c1.recalibrate = f.recalibrate /\ c1.seek = f.seek
        /\ c1.busy = NULL /\ c1.wrong = {}
        /\ c1.track = f.track /\ c1.seek_track = f.seek_track /\ c1.head = f.head
    <3>1. CASE e.reset
      <4>1. e.reset = TRUE
        BY <1>4, <3>1 DEF Between, DriverTypes
      <4> QED BY <1>4, <1>5, <3>1, <4>1
    <3>2. CASE c1 = [e EXCEPT !.reset = TRUE]
      BY <1>4, <3>2 DEF SameMotors, Registers
    <3> QED BY <1>6, <3>1, <3>2
  <2>2. DriverTypes(c1)
    BY <2>1 DEF Between, DriverTypes, SameMotors
  <2>3. Between(c1)
    BY <2>1, <2>2 DEF Between, DrivesUsed, MotorsCount, SameMotors, Queued
  <2>4. g = F!ResetFloppy(c1)
    BY <1>3, <2>1
  <2>5. DriverInv(g) /\ Commanded(c1, g)
    BY <2>3, <2>4, ResetIsRight
  <2> QED BY <2>1, <2>5 DEF Commanded, SameMotors
<1>7. CASE ~e.reset /\ c1 = [e EXCEPT !.busy = "rw"]
  <2>1. /\ DOMAIN c1 = Registers /\ SameMotors(f, c1) /\ c1.queue = f.queue
        /\ c1.drive = f.drive
        /\ c1.selected = f.selected /\ c1.freed = f.freed /\ c1.timers = <<>>
        /\ c1.reset = f.reset /\ c1.recalibrate = f.recalibrate /\ c1.seek = f.seek
        /\ c1.busy = "rw" /\ c1.do = "rw" /\ c1.wrong = {} /\ ~c1.reset
        /\ c1.track = f.track /\ c1.seek_track = f.seek_track /\ c1.head = f.head
    BY <1>4, <1>7 DEF SameMotors, Registers
  <2>2. F!Wrong(c1) = {}
    <3>1. c1.queue # <<>> /\ c1.selected /\ c1.dor = c1.drive
      BY <2>1 DEF Queued, Selected, SameMotors
    <3>2. c1.drive \in c1.motors /\ c1.head[c1.drive] = c1.seek_track
      BY <2>1 DEF AtSpeed, OnTrack, SameMotors
    <3>3. c1.spun[c1.drive] \in Int /\ c1.spun[c1.drive] >= SPINUP - 1
      BY <2>1, FloppyNumbers DEF AtSpeed, SameMotors, Between, DriverTypes
    <3>4. ~(c1.spun[c1.drive] < SPINUP - 1)
      BY <3>3, FloppyNumbers
    <3> QED BY <3>1, <3>2, <3>4 DEF F!Wrong
  <2>3. z = [c1 EXCEPT !.wrong = {}] /\ g = z
    <3>1. z = [c1 EXCEPT !.wrong = {}]
      BY <1>3, <2>1, <2>2
    <3>2. ~z.reset
      BY <2>1, <3>1 DEF Registers
    <3> QED BY <1>3, <3>1, <3>2
  <2>4. /\ DOMAIN g = Registers /\ SameMotors(f, g) /\ g.queue = f.queue /\ g.drive = f.drive
        /\ g.selected = f.selected /\ g.freed = f.freed /\ g.timers = <<>>
        /\ g.reset = f.reset /\ g.recalibrate = f.recalibrate /\ g.seek = f.seek
        /\ g.busy = "rw" /\ g.do = "rw" /\ g.wrong = {}
        /\ g.track = f.track /\ g.seek_track = f.seek_track /\ g.head = f.head
    BY <2>1, <2>3 DEF SameMotors, Registers
  <2>5. DriverTypes(g) /\ Commanded(f, g)
    BY <2>4 DEF Between, DriverTypes, SameMotors, Commanded
  <2>6. Queued(g) /\ Selected(g) /\ AtSpeed(g) /\ HeadsFound(g)
    BY <2>4 DEF Queued, Selected, AtSpeed, HeadsFound, Settled, SameMotors
  <2> QED BY <2>4, <2>5, <2>6, BusyIsRight
<1> QED BY <1>5, <1>6, <1>7

-----------------------------------------------------------------------------
\* The driver may move the heads to track p, by command w.
MayMove(e, w, p) ==
    /\ Between(e) /\ e.do = w /\ p \in Track
    /\ \/ w = "seek" /\ Queued(e) /\ Selected(e) /\ AtSpeed(e) /\ e.seek_track = p
       \/ w = "recal" /\ e.track = p

\* A command that moves the heads of the drive to a track: it is under way, or
\* a reset is.
LEMMA HeadsAreMoved ==
  ASSUME NEW e, NEW w, NEW p, MayMove(e, w, p), NEW d, d = e.drive,
         NEW g \in F!OrReset({[x1 EXCEPT !.head[d] = IF x1.busy = w THEN p ELSE @] :
                              x1 \in F!Command(e, w)})
  PROVE  DriverInv(g) /\ Commanded(e, g)
<1>7. /\ Between(e) /\ w \in {"seek", "recal"} /\ e.do = w /\ p \in Track
      /\ w = "seek" => Queued(e) /\ Selected(e) /\ AtSpeed(e) /\ e.seek_track = p
      /\ w = "recal" => e.track = p
  BY DEF MayMove
<1>1. PICK c1 \in F!Command(e, w) :
        \E y1 : /\ y1 = [c1 EXCEPT !.head[d] = IF c1.busy = w THEN p ELSE @]
                /\ g = IF y1.reset THEN F!ResetFloppy(y1) ELSE y1
  BY DEF F!OrReset
<1>2. PICK z : /\ z = [c1 EXCEPT !.head[d] = IF c1.busy = w THEN p ELSE @]
               /\ g = IF z.reset THEN F!ResetFloppy(z) ELSE z
  BY <1>1
<1>3. /\ DOMAIN e = Registers /\ e.busy = NULL /\ e.wrong = {} /\ e.timers = <<>>
      /\ e.reset \in BOOLEAN /\ e.head \in [Drive -> Track] /\ d \in Drive
      /\ NULL # w
  BY <1>7, FloppyNumbers DEF Between, DriverTypes
<1>4. \/ e.reset /\ c1 = e
      \/ ~e.reset /\ c1 = [e EXCEPT !.busy = w]
      \/ ~e.reset /\ c1 = [e EXCEPT !.reset = TRUE]
  BY <1>1, <1>3, CommandIsTaken
<1>5. CASE e.reset \/ c1 = [e EXCEPT !.reset = TRUE]
  <2>1. /\ DOMAIN c1 = Registers /\ SameMotors(e, c1) /\ c1.queue = e.queue
        /\ c1.drive = e.drive
        /\ c1.selected = e.selected /\ c1.freed = e.freed /\ c1.timers = <<>>
        /\ c1.reset = TRUE /\ c1.recalibrate = e.recalibrate /\ c1.seek = e.seek
        /\ c1.busy = NULL /\ c1.wrong = {}
        /\ c1.track = e.track /\ c1.seek_track = e.seek_track /\ c1.head = e.head
    <3>1. CASE e.reset
      BY <1>3, <1>4, <3>1 DEF SameMotors
    <3>2. CASE c1 = [e EXCEPT !.reset = TRUE]
      BY <1>3, <3>2 DEF SameMotors, Registers
    <3> QED BY <1>5, <3>1, <3>2
  <2>2. z = [c1 EXCEPT !.head = e.head]
    <3>1. [e.head EXCEPT ![d] = e.head[d]] = e.head
      BY <1>3
    <3>2. z = [c1 EXCEPT !.head = [e.head EXCEPT ![d] = e.head[d]]]
      BY <1>2, <1>3, <2>1 DEF Registers
    <3> QED BY <3>1, <3>2
  <2>3. /\ DOMAIN z = Registers /\ SameMotors(e, z) /\ z.queue = e.queue
        /\ z.drive = e.drive
        /\ z.selected = e.selected /\ z.freed = e.freed /\ z.timers = <<>>
        /\ z.reset = TRUE /\ z.recalibrate = e.recalibrate /\ z.seek = e.seek
        /\ z.busy = NULL /\ z.wrong = {}
        /\ z.track = e.track /\ z.seek_track = e.seek_track /\ z.head = e.head
    BY <2>1, <2>2 DEF SameMotors, Registers
  <2>4. DriverTypes(z)
    BY <1>7, <2>3 DEF Between, DriverTypes, SameMotors
  <2>5. Between(z)
    BY <1>7, <2>3, <2>4 DEF Between, DrivesUsed, MotorsCount, SameMotors, Queued
  <2>6. g = F!ResetFloppy(z)
    BY <1>2, <2>3
  <2>7. DriverInv(g) /\ Commanded(z, g)
    BY <2>5, <2>6, ResetIsRight
  <2> QED BY <2>3, <2>7 DEF Commanded, SameMotors
<1>6. CASE ~e.reset /\ c1 = [e EXCEPT !.busy = w]
  <2>1. PICK hd : hd = [e.head EXCEPT ![d] = p]
    OBVIOUS
  <2>2. hd \in [Drive -> Track] /\ hd[d] = p
    BY <1>3, <1>7, <2>1
  <2>3. z = [c1 EXCEPT !.head = hd]
    BY <1>2, <1>3, <1>6, <2>1 DEF Registers
  <2>4. g = z
    BY <1>2, <1>3, <1>6, <2>3 DEF Registers
  <2>5. /\ DOMAIN g = Registers /\ SameMotors(e, g) /\ g.queue = e.queue /\ g.drive = e.drive
        /\ g.selected = e.selected /\ g.freed = e.freed /\ g.timers = <<>>
        /\ g.reset = e.reset /\ g.recalibrate = e.recalibrate /\ g.seek = e.seek
        /\ g.busy = w /\ g.do = w /\ g.wrong = {}
        /\ g.track = e.track /\ g.seek_track = e.seek_track /\ g.head = hd
    BY <1>3, <1>6, <1>7, <2>3, <2>4 DEF SameMotors, Registers
  <2>6. DriverTypes(g) /\ Commanded(e, g)
    BY <1>7, <2>2, <2>5 DEF Between, DriverTypes, SameMotors, Commanded
  <2>7. w = "seek" => Queued(g) /\ Selected(g) /\ AtSpeed(g) /\ OnTrack(g)
    BY <1>7, <2>2, <2>5 DEF Queued, Selected, AtSpeed, OnTrack, SameMotors
  <2>8. w = "recal" => Settled(g)
    BY <1>7, <2>2, <2>5 DEF Settled
  <2> QED BY <1>7, <2>5, <2>6, <2>7, <2>8, BusyIsRight
<1> QED BY <1>4, <1>5, <1>6

\* recalibrate_floppy()
LEMMA RecalibrateIsRight ==
  ASSUME NEW f, Between(f), NEW g \in F!Recalibrate(f)
  PROVE  DriverInv(g) /\ Commanded(f, g)
<1>1. PICK e : e = [f EXCEPT !.recalibrate = FALSE, !.track = 0, !.do = "recal"]
  OBVIOUS
<1>2. /\ DOMAIN e = Registers /\ SameMotors(f, e) /\ e.queue = f.queue /\ e.drive = f.drive
      /\ e.selected = f.selected /\ e.freed = f.freed /\ e.timers = <<>>
      /\ e.reset = f.reset /\ e.recalibrate = FALSE /\ e.seek = f.seek
      /\ e.do = "recal" /\ e.busy = NULL /\ e.wrong = {}
      /\ e.track = 0 /\ e.seek_track = f.seek_track /\ e.head = f.head
  BY <1>1 DEF Between, DriverTypes, Registers, SameMotors
<1>3. DriverTypes(e)
  BY <1>2, FloppyNumbers DEF Between, DriverTypes, SameMotors
<1>4. Between(e)
  BY <1>2, <1>3 DEF Between, DrivesUsed, MotorsCount, SameMotors, Queued
<1>5. PICK w, d, p : w = "recal" /\ d = f.drive /\ p = 0
  OBVIOUS
<1>6. g \in F!OrReset({[x1 EXCEPT !.head[d] = IF x1.busy = w THEN p ELSE @] :
                       x1 \in F!Command(e, w)})
  BY <1>1, <1>5 DEF F!Recalibrate
<1>7. MayMove(e, w, p) /\ d = e.drive
  BY <1>2, <1>4, <1>5, FloppyNumbers DEF MayMove
<1>8. DriverInv(g) /\ Commanded(e, g)
  BY <1>6, <1>7, HeadsAreMoved
<1> QED BY <1>2, <1>8 DEF Commanded, SameMotors

\* transfer() when the heads have to be moved.
LEMMA SeekIsRight ==
  ASSUME NEW f, Between(f), Queued(f), Selected(f), AtSpeed(f), ~f.reset, f.seek,
         NEW g \in F!Transfer(f)
  PROVE  DriverInv(g) /\ Commanded(f, g)
<1>1. PICK e : e = [f EXCEPT !.do = "seek"]
  OBVIOUS
<1>2. /\ DOMAIN e = Registers /\ SameMotors(f, e) /\ e.queue = f.queue /\ e.drive = f.drive
      /\ e.selected = f.selected /\ e.freed = f.freed /\ e.timers = <<>>
      /\ e.reset = f.reset /\ e.recalibrate = f.recalibrate /\ e.seek = f.seek
      /\ e.do = "seek" /\ e.busy = NULL /\ e.wrong = {}
      /\ e.track = f.track /\ e.seek_track = f.seek_track /\ e.head = f.head
  BY <1>1 DEF Between, DriverTypes, Registers, SameMotors
<1>3. DriverTypes(e)
  BY <1>2 DEF Between, DriverTypes, SameMotors
<1>4. Between(e)
  BY <1>2, <1>3 DEF Between, DrivesUsed, MotorsCount, SameMotors, Queued
<1>5. Queued(e) /\ Selected(e) /\ AtSpeed(e)
  BY <1>2 DEF Queued, Selected, AtSpeed, SameMotors
<1>6. PICK w, d, p : w = "seek" /\ d = f.drive /\ p = f.seek_track
  OBVIOUS
<1>7. g \in F!OrReset({[x1 EXCEPT !.head[d] = IF x1.busy = w THEN p ELSE @] :
                       x1 \in F!Command(e, w)})
  BY <1>1, <1>6 DEF F!Transfer
<1>8. MayMove(e, w, p) /\ d = e.drive
  BY <1>2, <1>4, <1>5, <1>6 DEF MayMove, Between, DriverTypes
<1>9. DriverInv(g) /\ Commanded(e, g)
  BY <1>7, <1>8, HeadsAreMoved
<1> QED BY <1>2, <1>9 DEF Commanded, SameMotors

\* transfer()
LEMMA TransferIsRight ==
  ASSUME NEW f, Between(f), Queued(f), Selected(f), AtSpeed(f), f.seek \/ OnTrack(f),
         f.seek \/ HeadsFound(f), NEW g \in F!Transfer(f)
  PROVE  DriverInv(g) /\ Commanded(f, g)
<1>1. CASE f.reset
  BY <1>1, ResetIsRight DEF F!Transfer
<1>2. CASE ~f.reset /\ ~f.seek
  BY <1>2, SetupIsRight DEF F!Transfer
<1>3. CASE ~f.reset /\ f.seek
  BY <1>3, SeekIsRight
<1> QED BY <1>1, <1>2, <1>3

\* floppy_on_interrupt()
LEMMA SelectIsRight ==
  ASSUME NEW f, Between(f), f.do = NULL, Queued(f), AtSpeed(f), f.seek \/ OnTrack(f),
         f.seek \/ HeadsFound(f), f.mon[f.drive] > 0 \/ f.moff[f.drive] > 1,
         NEW g \in F!SelectDrive(f)
  PROVE  /\ DriverInv(g) /\ g.selected /\ g.freed = f.freed /\ g.drive = f.drive
         /\ g.motors = f.motors /\ g.mon = f.mon /\ g.moff = f.moff /\ g.spun = f.spun
         /\ g.queue = f.queue
         /\ g.timers = <<>> \/ g.timers = <<[left |-> 2, fn |-> "transfer", due |-> 2]>>
<1>1. PICK e : e = [f EXCEPT !.selected = TRUE]
  OBVIOUS
<1>2. /\ DOMAIN e = Registers /\ SameMotors(f, e) /\ e.queue = f.queue /\ e.drive = f.drive
      /\ e.selected = TRUE /\ e.freed = f.freed /\ e.timers = <<>>
      /\ e.reset = f.reset /\ e.recalibrate = f.recalibrate /\ e.seek = f.seek
      /\ e.do = f.do /\ e.busy = NULL /\ e.wrong = {}
      /\ e.track = f.track /\ e.seek_track = f.seek_track /\ e.head = f.head
  BY <1>1 DEF Between, DriverTypes, Registers, SameMotors
<1>3. DriverTypes(e)
  BY <1>2 DEF Between, DriverTypes, SameMotors
<1>4. Queued(e) /\ AtSpeed(e) /\ (e.seek \/ OnTrack(e)) /\ (e.seek \/ HeadsFound(e))
  BY <1>2 DEF Queued, OnTrack, AtSpeed, HeadsFound, Settled, SameMotors
<1>5. Between(e)
  BY <1>2, <1>3, <1>4 DEF Between, DrivesUsed, MotorsCount, SameMotors
<1>6. CASE e.drive = e.dor
  <2>1. g \in F!Transfer(e)
    BY <1>1, <1>6 DEF F!SelectDrive
  <2>2. DriverInv(g) /\ Commanded(e, g)
    BY <1>2, <1>4, <1>5, <1>6, <2>1, TransferIsRight DEF Selected
  <2> QED BY <1>2, <2>2 DEF Commanded, SameMotors
<1>7. CASE e.drive # e.dor
  <2>1. PICK ts : ts = <<[left |-> 2, fn |-> "transfer", due |-> 2]>>
    OBVIOUS
  <2>2. F!InsertTimer(e.timers, 2, "transfer") = ts
    BY <1>2, <2>1 DEF F!InsertTimer
  <2>3. g = [e EXCEPT !.dor = e.drive, !.timers = ts]
    BY <1>1, <1>7, <2>2 DEF F!SelectDrive
  <2>4. /\ DOMAIN g = Registers /\ g.dor = f.drive /\ g.motors = f.motors /\ g.mon = f.mon
        /\ g.moff = f.moff /\ g.spun = f.spun /\ g.queue = f.queue /\ g.drive = f.drive
        /\ g.selected = TRUE /\ g.freed = f.freed /\ g.timers = ts
        /\ g.reset = f.reset /\ g.recalibrate = f.recalibrate /\ g.seek = f.seek
        /\ g.do = f.do /\ g.busy = NULL /\ g.wrong = {}
        /\ g.track = f.track /\ g.seek_track = f.seek_track /\ g.head = f.head
    BY <1>2, <2>3 DEF SameMotors, Registers
  <2>5. DriverTypes(g)
    BY <1>3, <2>4 DEF Between, DriverTypes
  <2>6. DrivesUsed(g) /\ MotorsCount(g) /\ Queued(g)
    BY <2>4 DEF Between, DrivesUsed, MotorsCount, Queued
  <2>7. /\ Len(ts) = 1 /\ ts # <<>> /\ ts[1].left = 2 /\ ts[1].fn = "transfer"
        /\ ts[1] \in F!Timer
    BY <2>1 DEF F!Timer
  <2>8. f.moff[f.drive] > 1 => f.moff[f.drive] >= 2
    <3>1. f.moff[f.drive] \in Int
      BY FloppyNumbers DEF Between, DriverTypes
    <3> QED BY <3>1
  <2>9. TimerWaits(g, ts[1])
    BY <2>4, <2>6, <2>7, <2>8 DEF TimerWaits, Selected, AtSpeed, OnTrack
  <2>10. g.recalibrate \/ g.reset \/ (g.timers # <<>> /\ g.seek) \/ Settled(g)
    BY <2>4, <2>7 DEF HeadsFound, Settled
  <2>11. NULL \notin {"rw", "seek", "recal", "reset"}
    BY FloppyNumbers
  <2> QED BY <2>1, <2>4, <2>5, <2>6, <2>7, <2>9, <2>10, <2>11 DEF DriverInv, DriverRest
<1> QED BY <1>6, <1>7

-----------------------------------------------------------------------------
\* The first k requests are behind the end of the disk, and the next one is not.
Skips(q, k) ==
    /\ \A j \in 1..k : q[j].track = BEYOND
    /\ k < Len(q) => q[k + 1].track # BEYOND

\* There is a number of requests to be given up.
LEMMA SomeAreSkipped ==
  ASSUME NEW q \in Seq(F!Request)
  PROVE  \E k \in 0..Len(q) : Skips(q, k)
<1>1. Len(q) \in Nat
  OBVIOUS
<1>2. PICK T : T = {k \in 0..(Len(q) - 1) : q[k + 1].track # BEYOND}
  OBVIOUS
<1>3. CASE T = {}
  <2>1. \A j \in 1..Len(q) : q[j].track = BEYOND
    <3>1. SUFFICES ASSUME NEW j \in 1..Len(q) PROVE q[j].track = BEYOND
      OBVIOUS
    <3>2. j - 1 \in 0..(Len(q) - 1) /\ (j - 1) + 1 = j
      BY <1>1
    <3> QED BY <1>2, <1>3, <3>2
  <2> QED BY <1>1, <2>1 DEF Skips
<1>4. CASE T # {}
  <2>1. T \in SUBSET Nat
    BY <1>1, <1>2
  <2>2. PICK m \in T : \A n \in T : m <= n
    BY <1>4, <2>1, LeastNatural
  <2>3. m \in 0..(Len(q) - 1) /\ q[m + 1].track # BEYOND
    BY <1>2, <2>2
  <2>4. ASSUME NEW j \in 1..m PROVE q[j].track = BEYOND
    <3>1. j - 1 \in 0..(Len(q) - 1) /\ (j - 1) + 1 = j /\ ~(m <= j - 1)
      BY <1>1, <2>3
    <3> QED BY <1>2, <2>2, <3>1
  <2> QED BY <1>1, <2>3, <2>4 DEF Skips
<1> QED BY <1>3, <1>4

\* What is looked at for the next request: the requests behind the end of the disk
\* are gone, and the drive and the track are those of the first one that is left.
Chosen(f, q, u) ==
    /\ u.queue = q /\ u.timers = f.timers /\ u.reset = f.reset
    /\ u.recalibrate = f.recalibrate /\ u.selected = f.selected /\ u.dor = f.dor
    /\ u.motors = f.motors /\ u.mon = f.mon /\ u.spun = f.spun /\ u.track = f.track
    /\ u.seek_track = f.seek_track /\ u.do = f.do /\ u.busy = f.busy /\ u.head = f.head
    /\ u.freed = f.freed /\ u.wrong = f.wrong
    /\ f.selected => q = f.queue
    /\ q # <<>> => /\ q[1].drive = u.drive /\ q[1].track # BEYOND
                   /\ q[1].track \in Track
    /\ u.seek \/ u.drive = f.drive
    /\ q = <<>> => u.drive = f.drive

\* do_fd_request() looks for a request.
LEMMA RequestIsChosen ==
  ASSUME NEW f, Between(f), NEW g \in F!StartRequest(f)
  PROVE  \E u, q : /\ Chosen(f, q, u) /\ DriverTypes(u) /\ DrivesUsed(u) /\ MotorsCount(u)
                   /\ q = <<>> => g = u
                   /\ q # <<>> => \E r, h : /\ r = q[1]
                          /\ h = F!MotorOn([u EXCEPT !.seek = @ \/ r.track # u.track,
                                                     !.seek_track = r.track], r.drive)
                          /\ g \in IF h.mon[r.drive] = 0 THEN F!SelectDrive(h)
                                   ELSE {[h EXCEPT !.timers =
                                            F!InsertTimer(@, h.mon[r.drive], "on")]}
<1> DEFINE bad == CHOOSE k \in 0..Len(f.queue) :
                    /\ \A j \in 1..k : f.queue[j].track = BEYOND
                    /\ k < Len(f.queue) => f.queue[k + 1].track # BEYOND
           drives == <<f.drive>> \o [j \in 1..Len(f.queue) |-> f.queue[j].drive]
           rest == SubSeq(f.queue, bad + 1, Len(f.queue))
           off == [d \in Drive |-> IF \E j \in 1..bad : drives[j + 1] = d
                                   THEN SHORT ELSE f.moff[d]]
           given == [f EXCEPT !.queue = rest, !.moff = off]
           next == IF bad < Len(f.queue) THEN bad + 1 ELSE bad
           far == \E j \in 1..next : drives[j] # drives[j + 1]
           v == [given EXCEPT !.drive = drives[next + 1], !.seek = far]
           w(r) == F!MotorOn([v EXCEPT !.seek = @ \/ r.track # v.track,
                                       !.seek_track = r.track], r.drive)
<1>1. g \in IF v.queue = <<>> THEN {v}
            ELSE IF w(Head(v.queue)).mon[Head(v.queue).drive] = 0
                 THEN F!SelectDrive(w(Head(v.queue)))
                 ELSE {[w(Head(v.queue)) EXCEPT !.timers =
                          F!InsertTimer(@, w(Head(v.queue)).mon[Head(v.queue).drive], "on")]}
  BY Zenon DEF F!StartRequest
<1>2. f.queue \in Seq(F!Request) /\ f.drive \in Drive /\ f.moff \in [Drive -> 0..LONG]
  BY DEF Between, DriverTypes
<1>3. bad \in 0..Len(f.queue) /\ Skips(f.queue, bad)
  <2>1. \E k \in 0..Len(f.queue) : /\ \A j \in 1..k : f.queue[j].track = BEYOND
                                   /\ k < Len(f.queue) => f.queue[k + 1].track # BEYOND
    BY <1>2, SomeAreSkipped DEF Skips
  <2> QED BY <2>1 DEF Skips
<1> HIDE DEF bad
<1>4. PICK n : n = Len(f.queue)
  OBVIOUS
<1>5. n \in Nat /\ bad \in 0..n
  BY <1>2, <1>3, <1>4
<1>6. PICK ds : ds = drives
  OBVIOUS
<1>7. /\ Len(ds) = n + 1 /\ ds[1] = f.drive
      /\ \A j \in 1..n : ds[j + 1] = f.queue[j].drive /\ ds[j + 1] \in Drive
  <2>1. PICK s : s = [j \in 1..Len(f.queue) |-> f.queue[j].drive]
    OBVIOUS
  <2>2. ASSUME NEW j \in 1..n PROVE f.queue[j].drive \in Drive
    <3>1. f.queue[j] \in F!Request
      BY <1>2, <1>4
    <3> QED BY <3>1 DEF F!Request
  <2>3. s \in Seq(Drive) /\ Len(s) = n /\ \A j \in 1..n : s[j] = f.queue[j].drive
    BY <1>4, <1>5, <2>1, <2>2
  <2>4. ds = <<f.drive>> \o s
    BY <1>6, <2>1
  <2>5. PICK a : a = f.drive
    OBVIOUS
  <2>6. Len(ds) = n + 1 /\ ds[1] = a /\ \A j \in 1..n : ds[j + 1] = s[j]
    <3>1. ds = <<a>> \o s /\ a \in Drive
      BY <1>2, <2>4, <2>5
    <3> QED BY <1>5, <2>3, <3>1
  <2> QED BY <2>2, <2>3, <2>5, <2>6
<1>8. PICK q : q = rest
  OBVIOUS
<1>9. /\ q \in Seq(F!Request) /\ Len(q) = n - bad
      /\ \A k \in 1..Len(q) : q[k] = f.queue[bad + k]
      /\ bad = 0 => q = f.queue
  BY <1>2, <1>4, <1>5, <1>8
<1>10. PICK m : m = off
  OBVIOUS
<1>11. m \in [Drive -> 0..LONG] /\ \A d \in Drive : m[d] = f.moff[d] \/ m[d] = SHORT
  <2>1. ASSUME NEW d \in Drive
        PROVE  m[d] \in 0..LONG /\ (m[d] = f.moff[d] \/ m[d] = SHORT)
    <3>1. PICK b : b = \E j \in 1..bad : drives[j + 1] = d
      OBVIOUS
    <3> HIDE DEF drives
    <3>2. m[d] = IF b THEN SHORT ELSE f.moff[d]
      BY <1>10, <3>1
    <3> HIDE DEF off
    <3>3. f.moff[d] \in 0..LONG /\ SHORT \in 0..LONG
      BY <1>2, FloppyNumbers
    <3> QED BY <3>2, <3>3
  <2>2. DOMAIN m = Drive /\ m = [d \in DOMAIN m |-> m[d]]
    <3> HIDE DEF drives
    <3> QED BY <1>10
  <2> HIDE DEF drives, off
  <2> QED BY <2>1, <2>2
<1>12. PICK nx : nx = next
  OBVIOUS
<1>13. PICK fr : fr = far
  OBVIOUS
<1>14. PICK u : u = v
  OBVIOUS
<1>15. u = [f EXCEPT !.queue = q, !.moff = m, !.drive = ds[nx + 1], !.seek = fr]
  BY <1>6, <1>8, <1>10, <1>12, <1>13, <1>14 DEF Between, DriverTypes, Registers
<1>16. nx = IF bad < n THEN bad + 1 ELSE bad
  BY <1>4, <1>12
<1>17. fr \in BOOLEAN /\ (fr <=> \E j \in 1..nx : ds[j] # ds[j + 1])
  BY <1>6, <1>12, <1>13
<1> HIDE DEF drives, rest, off, given, next, far, v, w
<1>18. /\ DOMAIN u = Registers /\ u.queue = q /\ u.moff = m /\ u.drive = ds[nx + 1]
       /\ u.seek = fr
       /\ u.timers = f.timers /\ u.reset = f.reset
       /\ u.recalibrate = f.recalibrate /\ u.selected = f.selected /\ u.dor = f.dor
       /\ u.motors = f.motors /\ u.mon = f.mon /\ u.spun = f.spun /\ u.track = f.track
       /\ u.seek_track = f.seek_track /\ u.do = f.do /\ u.busy = f.busy /\ u.head = f.head
       /\ u.freed = f.freed /\ u.wrong = f.wrong
  BY <1>15 DEF Between, DriverTypes, Registers
<1>19. ds[nx + 1] \in Drive
  <2>1. CASE nx = 0
    BY <1>2, <1>7, <2>1
  <2>2. CASE nx # 0
    <3>1. nx \in 1..n
      BY <1>5, <1>16, <2>2
    <3> QED BY <1>7, <3>1
  <2> QED BY <2>1, <2>2
<1>20. DriverTypes(u)
  BY <1>9, <1>11, <1>17, <1>18, <1>19 DEF Between, DriverTypes
<1>21. q # <<>> => q[1].drive = ds[nx + 1] /\ q[1].track # BEYOND /\ q[1].track \in Track
  <2>1. SUFFICES ASSUME q # <<>>
                 PROVE  q[1].drive = ds[nx + 1] /\ q[1].track # BEYOND /\ q[1].track \in Track
    OBVIOUS
  <2>2. bad < n /\ 1 \in 1..Len(q) /\ nx = bad + 1 /\ bad + 1 \in 1..n
    BY <1>5, <1>9, <1>16, <2>1
  <2>3. q[1] = f.queue[bad + 1] /\ ds[nx + 1] = f.queue[bad + 1].drive
    BY <1>7, <1>9, <2>2
  <2>4. q[1].track # BEYOND
    BY <1>3, <1>4, <2>2, <2>3 DEF Skips
  <2>5. q[1] \in F!Request
    BY <1>9, <2>2
  <2> QED BY <2>3, <2>4, <2>5 DEF F!Request
<1>22. f.selected => q = f.queue
  <2>1. SUFFICES ASSUME f.selected PROVE bad = 0
    BY <1>9
  <2>2. f.queue # <<>> /\ f.queue[1].track # BEYOND
    BY <2>1 DEF Between, Queued
  <2>3. bad > 0 => 1 \in 1..bad
    BY <1>5
  <2>4. ~(bad > 0)
    BY <1>3, <2>2, <2>3 DEF Skips
  <2> QED BY <1>5, <2>4
<1>23. "two_drives" \in on => bad = 0
  <2>1. SUFFICES ASSUME "two_drives" \in on, bad # 0 PROVE FALSE
    OBVIOUS
  <2>2. 1 \in 1..bad /\ 1 \in 1..n
    BY <1>5, <2>1
  <2> QED BY <1>3, <1>4, <2>1, <2>2 DEF Skips, Between, DrivesUsed
<1>24. /\ fr \/ ds[nx + 1] = f.drive
       /\ q = <<>> => ds[nx + 1] = f.drive
  <2>1. CASE "two_drives" \in on
    <3>1. nx = IF n = 0 THEN 0 ELSE 1
      BY <1>5, <1>16, <1>23, <2>1
    <3>2. nx = 1 => (fr <=> ds[1] # ds[2])
      BY <1>17
    <3>3. q = <<>> => n = 0
      BY <1>4, <1>9, <1>23, <2>1
    <3> QED BY <1>7, <3>1, <3>2, <3>3
  <2>2. CASE "two_drives" \notin on
    <3>1. f.drive = 0 /\ \A j \in 1..n : f.queue[j].drive = 0
      BY <1>4, <2>2 DEF Between, DrivesUsed
    <3>2. nx = 0 \/ nx \in 1..n
      BY <1>5, <1>16
    <3> QED BY <1>7, <3>1, <3>2
  <2> QED BY <2>1, <2>2
<1>25. DrivesUsed(u)
  <2>1. \A k \in 1..Len(q) : bad + k \in 1..n
    BY <1>5, <1>9
  <2>2. "two_drives" \notin on => ds[nx + 1] = 0
    <3>1. SUFFICES ASSUME "two_drives" \notin on PROVE ds[nx + 1] = 0
      OBVIOUS
    <3>2. f.drive = 0 /\ \A j \in 1..n : f.queue[j].drive = 0
      BY <1>4, <3>1 DEF Between, DrivesUsed
    <3>3. nx = 0 \/ nx \in 1..n
      BY <1>5, <1>16
    <3> QED BY <1>7, <3>2, <3>3
  <2> QED BY <1>4, <1>9, <1>18, <2>1, <2>2 DEF Between, DrivesUsed
<1>26. MotorsCount(u)
  <2>1. \A d \in Drive : f.moff[d] > 1 => m[d] > 1
    BY <1>11, FloppyNumbers
  <2> QED BY <1>18, <2>1 DEF Between, MotorsCount
<1>27. Chosen(f, q, u)
  BY <1>18, <1>21, <1>22, <1>24 DEF Chosen
<1>28. q = <<>> => g = u
  BY <1>1, <1>14, <1>18
<1>29. q # <<>> => \E r, h : /\ r = q[1]
                /\ h = F!MotorOn([u EXCEPT !.seek = @ \/ r.track # u.track,
                                           !.seek_track = r.track], r.drive)
                /\ g \in IF h.mon[r.drive] = 0 THEN F!SelectDrive(h)
                         ELSE {[h EXCEPT !.timers = F!InsertTimer(@, h.mon[r.drive], "on")]}
  <2>1. SUFFICES ASSUME q # <<>>
        PROVE \E r, h : /\ r = q[1]
                /\ h = F!MotorOn([u EXCEPT !.seek = @ \/ r.track # u.track,
                                           !.seek_track = r.track], r.drive)
                /\ g \in IF h.mon[r.drive] = 0 THEN F!SelectDrive(h)
                         ELSE {[h EXCEPT !.timers = F!InsertTimer(@, h.mon[r.drive], "on")]}
    OBVIOUS
  <2>2. PICK r : r = Head(v.queue)
    OBVIOUS
  <2>3. PICK h : h = w(r)
    OBVIOUS
  <2>4. r = q[1]
    BY <1>9, <1>14, <1>18, <2>1, <2>2
  <2>5. h = F!MotorOn([u EXCEPT !.seek = @ \/ r.track # u.track,
                                !.seek_track = r.track], r.drive)
    BY <1>14, <2>3 DEF w
  <2>6. g \in IF h.mon[r.drive] = 0 THEN F!SelectDrive(h)
              ELSE {[h EXCEPT !.timers = F!InsertTimer(@, h.mon[r.drive], "on")]}
    BY <1>1, <1>14, <1>18, <2>1, <2>2, <2>3
  <2> QED BY <2>4, <2>5, <2>6
<1> QED BY <1>20, <1>25, <1>26, <1>27, <1>28, <1>29

-----------------------------------------------------------------------------
\* The motor of the request is on; it is waited for, or the drive is selected.
LEMMA StartIsRight ==
  ASSUME NEW f, Between(f), f.do = NULL, Settled(f), NEW g \in F!StartRequest(f)
  PROVE  DriverInv(g) /\ (f.selected => g.selected) /\ g.freed = f.freed
<1>1. PICK u, q :
        /\ Chosen(f, q, u) /\ DriverTypes(u) /\ DrivesUsed(u) /\ MotorsCount(u)
        /\ q = <<>> => g = u
        /\ q # <<>> => \E r, h : /\ r = q[1]
               /\ h = F!MotorOn([u EXCEPT !.seek = @ \/ r.track # u.track,
                                          !.seek_track = r.track], r.drive)
               /\ g \in IF h.mon[r.drive] = 0 THEN F!SelectDrive(h)
                        ELSE {[h EXCEPT !.timers =
                                 F!InsertTimer(@, h.mon[r.drive], "on")]}
  BY RequestIsChosen
<1>2. /\ u.do = NULL /\ u.busy = NULL /\ u.wrong = {} /\ u.timers = <<>>
      /\ u.freed = f.freed /\ u.selected = f.selected /\ u.queue = q
      /\ f.selected => q # <<>>
  BY <1>1 DEF Chosen, Between, Queued
<1>3. CASE q = <<>>
  <2>1. Settled(u)
    BY <1>1, <1>3 DEF Chosen, Settled
  <2>2. ~u.selected
    BY <1>2, <1>3
  <2>3. g = u
    BY <1>1, <1>3
  <2> QED BY <1>1, <1>2, <1>3, <2>1, <2>2, <2>3, FloppyNumbers DEF DriverInv, DriverRest
<1>4. CASE q # <<>>
  <2>1. PICK r, h : /\ r = q[1]
               /\ h = F!MotorOn([u EXCEPT !.seek = @ \/ r.track # u.track,
                                          !.seek_track = r.track], r.drive)
               /\ g \in IF h.mon[r.drive] = 0 THEN F!SelectDrive(h)
                        ELSE {[h EXCEPT !.timers =
                                 F!InsertTimer(@, h.mon[r.drive], "on")]}
    BY <1>1, <1>4
  <2>2. r.drive = u.drive /\ r.track # BEYOND /\ r.track \in Track /\ u.drive \in Drive
    BY <1>1, <1>4, <2>1 DEF Chosen, DriverTypes
  <2>3. PICK sk : sk = (u.seek \/ r.track # u.track)
    OBVIOUS
  <2>4. PICK e : e = [u EXCEPT !.seek = sk, !.seek_track = r.track]
    OBVIOUS
  <2>5. h = F!MotorOn(e, r.drive)
    BY <2>1, <2>3, <2>4
  <2>6. /\ DOMAIN e = Registers /\ SameMotors(u, e) /\ e.queue = q /\ e.drive = u.drive
        /\ e.selected = f.selected /\ e.freed = f.freed /\ e.timers = <<>>
        /\ e.reset = u.reset /\ e.recalibrate = u.recalibrate /\ e.seek = sk
        /\ e.do = NULL /\ e.busy = NULL /\ e.wrong = {}
        /\ e.track = u.track /\ e.seek_track = r.track /\ e.head = u.head
    BY <1>1, <1>2, <2>4 DEF DriverTypes, Registers, SameMotors
  <2>7. sk \in BOOLEAN
    BY <1>1, <2>3 DEF DriverTypes
  <2>8. DriverTypes(e)
    BY <1>1, <1>2, <2>2, <2>6, <2>7 DEF DriverTypes, SameMotors
  <2>9. MotorsCount(e)
    BY <1>1, <2>6 DEF MotorsCount, SameMotors
  <2>10. /\ DriverTypes(h) /\ SameWork(e, h) /\ MotorsCount(h)
         /\ u.drive \in h.motors /\ h.moff[u.drive] = LONG
    BY <2>2, <2>5, <2>8, <2>9, MotorIsOn
  <2>11. Queued(h)
    BY <1>4, <2>1, <2>2, <2>6, <2>10 DEF SameWork, Queued
  <2>12. Between(h) /\ h.do = NULL
    <3>1. DrivesUsed(u)
      BY <1>1
    <3>2. h.queue = u.queue /\ h.drive = u.drive
      BY <1>2, <2>6, <2>10 DEF SameWork
    <3>3. DrivesUsed(h)
      BY <3>1, <3>2 DEF DrivesUsed
    <3>4. h.wrong = {} /\ h.busy = NULL /\ h.timers = <<>> /\ h.do = NULL
      BY <2>6, <2>10 DEF SameWork
    <3> QED BY <2>10, <2>11, <3>3, <3>4 DEF Between
  <2>13. h.drive = u.drive /\ h.track = f.track /\ h.head = f.head
    BY <1>1, <2>6, <2>10 DEF SameWork, Chosen
  <2>14. ~h.seek => OnTrack(h) /\ Settled(h)
    <3>1. SUFFICES ASSUME ~h.seek PROVE OnTrack(h) /\ Settled(h)
      OBVIOUS
    <3>2. ~u.seek /\ r.track = u.track /\ h.seek_track = r.track
      BY <2>3, <2>6, <2>10, <3>1 DEF SameWork
    <3>3. h.drive = f.drive /\ f.track = r.track
      BY <1>1, <2>13, <3>2 DEF Chosen
    <3>4. Settled(h)
      BY <2>13, <3>3 DEF Settled
    <3>5. f.track # NULL
      BY <2>2, <3>3, FloppyNumbers
    <3> QED BY <2>13, <3>2, <3>3, <3>4, <3>5 DEF Settled, OnTrack
  <2>15. PICK m : m = h.mon[u.drive]
    OBVIOUS
  <2>16. m \in 0..SPINUP /\ h.spun[u.drive] \in 0..SPINUP
         /\ h.spun[u.drive] + m >= SPINUP
    BY <2>2, <2>10, <2>15 DEF DriverTypes, MotorsCount
  <2>17. CASE m = 0
    <3>1. g \in F!SelectDrive(h)
      BY <2>1, <2>2, <2>15, <2>17
    <3>2. AtSpeed(h)
      BY <2>10, <2>13, <2>16, <2>17, FloppyNumbers DEF AtSpeed
    <3>3. h.moff[h.drive] > 1
      BY <2>10, <2>13, FloppyNumbers
    <3>4. /\ Between(h) /\ h.do = NULL /\ Queued(h) /\ AtSpeed(h) /\ (h.seek \/ OnTrack(h))
          /\ (h.seek \/ HeadsFound(h)) /\ (h.mon[h.drive] > 0 \/ h.moff[h.drive] > 1)
      BY <2>11, <2>12, <2>14, <3>2, <3>3 DEF HeadsFound
    <3>5. DriverInv(g) /\ g.selected /\ g.freed = h.freed
      BY <3>1, <3>4, SelectIsRight
    <3> QED BY <2>6, <2>10, <3>5 DEF SameWork
  <2>18. CASE m # 0
    <3>1. PICK ts : ts = <<[left |-> m, fn |-> "on", due |-> m]>>
      OBVIOUS
    <3>2. F!InsertTimer(h.timers, m, "on") = ts
      BY <2>12, <3>1 DEF F!InsertTimer, Between
    <3>3. g = [h EXCEPT !.timers = ts]
      BY <2>1, <2>2, <2>15, <2>18, <3>2
    <3>4. /\ DOMAIN g = Registers /\ SameMotors(h, g) /\ g.queue = h.queue
          /\ g.drive = h.drive /\ g.selected = h.selected /\ g.freed = h.freed
          /\ g.timers = ts /\ g.reset = h.reset /\ g.recalibrate = h.recalibrate
          /\ g.seek = h.seek /\ g.do = h.do /\ g.busy = h.busy /\ g.wrong = h.wrong
          /\ g.track = h.track /\ g.seek_track = h.seek_track /\ g.head = h.head
      BY <2>10, <3>3 DEF DriverTypes, Registers, SameMotors
    <3>5. DriverTypes(g)
      BY <2>10, <3>4 DEF DriverTypes, SameMotors
    <3>6. DrivesUsed(g) /\ MotorsCount(g) /\ Queued(g) /\ g.wrong = {}
      BY <2>11, <2>12, <3>4 DEF Between, DrivesUsed, MotorsCount, SameMotors, Queued
    <3>7. /\ Len(ts) = 1 /\ ts # <<>> /\ ts[1].left = m /\ ts[1].fn = "on"
          /\ ts[1] \in F!Timer
      <4>1. m \in Nat /\ m \in Int
        BY <2>16, FloppyNumbers
      <4> QED BY <3>1, <4>1 DEF F!Timer
    <3>8. m > 0 /\ m >= m /\ h.spun[u.drive] + m >= SPINUP
      BY <2>16, <2>18, FloppyNumbers
    <3>9. TimerWaits(g, ts[1])
      <4>1. g.drive \in g.motors /\ g.mon[g.drive] = m /\ g.spun[g.drive] = h.spun[u.drive]
        BY <2>10, <2>13, <2>15, <3>4 DEF SameMotors
      <4>2. g.seek \/ OnTrack(g)
        BY <2>14, <3>4 DEF OnTrack
      <4> QED BY <3>6, <3>7, <3>8, <4>1, <4>2 DEF TimerWaits
    <3>10. g.seek \/ Settled(g)
      BY <2>14, <3>4 DEF Settled
    <3>11. g.busy = NULL /\ g.do = NULL /\ NULL \notin {"rw", "seek", "recal", "reset"}
      BY <2>12, <3>4, FloppyNumbers DEF Between
    <3>12. DriverInv(g)
      BY <3>4, <3>5, <3>6, <3>7, <3>9, <3>10, <3>11 DEF DriverInv, DriverRest
    <3> QED BY <2>6, <2>10, <3>4, <3>12 DEF SameWork
  <2> QED BY <2>17, <2>18
<1> QED BY <1>3, <1>4

\* do_fd_request() without the first request: the heads may be anywhere if they
\* are to be looked for.
LEMMA DoRequestIsRight ==
  ASSUME NEW f, Between(f), f.do = NULL, HeadsFound(f), NEW g \in F!DoRequest(f)
  PROVE  DriverInv(g) /\ (f.selected => g.selected) /\ g.freed = f.freed
<1>1. CASE f.reset
  <2>1. g = F!ResetFloppy(f)
    BY <1>1 DEF F!DoRequest
  <2> QED BY <2>1, ResetIsRight DEF Commanded
<1>2. CASE ~f.reset
  <2>1. PICK e : e = [f EXCEPT !.seek = FALSE]
    OBVIOUS
  <2>2. /\ DOMAIN e = Registers /\ SameMotors(f, e) /\ e.queue = f.queue /\ e.drive = f.drive
        /\ e.selected = f.selected /\ e.freed = f.freed /\ e.timers = <<>>
        /\ e.reset = f.reset /\ e.recalibrate = f.recalibrate /\ e.seek = FALSE
        /\ e.do = f.do /\ e.busy = NULL /\ e.wrong = {}
        /\ e.track = f.track /\ e.seek_track = f.seek_track /\ e.head = f.head
    BY <2>1 DEF Between, DriverTypes, Registers, SameMotors
  <2>3. DriverTypes(e)
    BY <2>2 DEF Between, DriverTypes, SameMotors
  <2>4. Between(e)
    BY <2>2, <2>3 DEF Between, DrivesUsed, MotorsCount, SameMotors, Queued
  <2>5. CASE f.recalibrate
    <3>1. g \in F!Recalibrate(e)
      BY <1>2, <2>1, <2>5 DEF F!DoRequest
    <3>2. DriverInv(g) /\ Commanded(e, g)
      BY <2>4, <3>1, RecalibrateIsRight
    <3> QED BY <2>2, <3>2 DEF Commanded
  <2>6. CASE ~f.recalibrate
    <3>1. g \in F!StartRequest(e)
      BY <1>2, <2>1, <2>6 DEF F!DoRequest
    <3>2. Settled(e)
      BY <1>2, <2>2, <2>6 DEF HeadsFound, Settled
    <3>3. DriverInv(g) /\ (e.selected => g.selected) /\ g.freed = e.freed
      BY <2>2, <2>4, <3>1, <3>2, StartIsRight
    <3> QED BY <2>2, <3>3
  <2> QED BY <2>5, <2>6
<1> QED BY <1>1, <1>2

-----------------------------------------------------------------------------
\* The driver may look for the next request.
MayGoOn(f, g) ==
    /\ Between(g) /\ g.do = NULL /\ HeadsFound(g)
    /\ f.selected => g.selected \/ g.freed

\* end_request() and floppy_deselect(): whoever waits for the selection is told.
LEMMA SelectionIsGivenUp ==
  ASSUME NEW f, Between(f), f.do = NULL, f.queue # <<>>,
         NEW g, g = F!EndRequest(F!Deselect(f))
  PROVE  /\ Between(g) /\ g.do = NULL /\ g.freed /\ ~g.selected
         /\ g.reset = f.reset /\ g.recalibrate = f.recalibrate
         /\ g.drive = f.drive /\ g.track = f.track /\ g.head = f.head
<1>1. PICK e : e = F!Deselect(f)
  OBVIOUS
<1>2. /\ DOMAIN e = Registers /\ SameMotors(f, e) /\ e.queue = f.queue /\ e.drive = f.drive
      /\ e.selected = FALSE /\ e.freed = TRUE /\ e.timers = <<>>
      /\ e.reset = f.reset /\ e.recalibrate = f.recalibrate /\ e.seek = f.seek
      /\ e.do = NULL /\ e.busy = NULL /\ e.wrong = {}
      /\ e.track = f.track /\ e.seek_track = f.seek_track /\ e.head = f.head
  BY <1>1 DEF Between, DriverTypes, Registers, SameMotors, F!Deselect
<1>3. DriverTypes(e)
  BY <1>2 DEF Between, DriverTypes, SameMotors
<1>4. MotorsCount(e) /\ DrivesUsed(e) /\ e.queue # <<>>
  BY <1>2 DEF Between, MotorsCount, DrivesUsed, SameMotors
<1>5. g = F!EndRequest(e)
  BY <1>1
<1>6. /\ DriverTypes(g) /\ MotorsCount(g) /\ DrivesUsed(g)
      /\ SameWork([e EXCEPT !.queue = Tail(e.queue)], g)
  BY <1>3, <1>4, <1>5, RequestEnds
<1>7. PICK y1 : y1 = [e EXCEPT !.queue = Tail(e.queue)]
  OBVIOUS
<1>8. /\ y1.selected = FALSE /\ y1.freed = TRUE /\ y1.timers = <<>> /\ y1.busy = NULL
      /\ y1.do = NULL /\ y1.wrong = {} /\ y1.reset = f.reset
      /\ y1.recalibrate = f.recalibrate /\ y1.drive = f.drive /\ y1.track = f.track
      /\ y1.head = f.head
  BY <1>2, <1>7 DEF Registers
<1>9. /\ g.selected = FALSE /\ g.freed = TRUE /\ g.timers = <<>> /\ g.busy = NULL
      /\ g.do = NULL /\ g.wrong = {} /\ g.reset = f.reset
      /\ g.recalibrate = f.recalibrate /\ g.drive = f.drive /\ g.track = f.track
      /\ g.head = f.head
  BY <1>6, <1>7, <1>8 DEF SameWork
<1> QED BY <1>6, <1>9 DEF Between

\* bad_flp_intr() counts an error of the first request.
LEMMA ErrorIsCounted ==
  ASSUME NEW f, Between(f), f.queue # <<>>,
         NEW g, g = [f EXCEPT !.queue[1].errors = @ + 1]
  PROVE  /\ Between(g) /\ g.do = f.do /\ g.selected = f.selected
         /\ g.reset = f.reset /\ g.recalibrate = f.recalibrate
         /\ g.drive = f.drive /\ g.track = f.track /\ g.head = f.head
<1>1. f.queue \in Seq(F!Request) /\ DOMAIN f = Registers
  BY DEF Between, DriverTypes
<1>2. PICK r : r = [f.queue[1] EXCEPT !.errors = @ + 1]
  OBVIOUS
<1>3. f.queue[1] \in F!Request /\ 1 \in 1..Len(f.queue)
  BY <1>1
<1>4. r \in F!Request /\ r.drive = f.queue[1].drive /\ r.track = f.queue[1].track
  BY <1>2, <1>3 DEF F!Request
<1>5. PICK q : q = [f.queue EXCEPT ![1] = r]
  OBVIOUS
<1>6. /\ q \in Seq(F!Request) /\ Len(q) = Len(f.queue) /\ q # <<>> /\ q[1] = r
      /\ \A k \in 1..Len(q) : k # 1 => q[k] = f.queue[k]
  BY <1>1, <1>3, <1>4, <1>5
<1>7. g = [f EXCEPT !.queue = q]
  BY <1>1, <1>2, <1>5 DEF Registers
<1>8. /\ DOMAIN g = Registers /\ SameMotors(f, g) /\ g.queue = q /\ g.drive = f.drive
      /\ g.selected = f.selected /\ g.freed = f.freed /\ g.timers = f.timers
      /\ g.reset = f.reset /\ g.recalibrate = f.recalibrate /\ g.seek = f.seek
      /\ g.do = f.do /\ g.busy = f.busy /\ g.wrong = f.wrong
      /\ g.track = f.track /\ g.seek_track = f.seek_track /\ g.head = f.head
  BY <1>1, <1>7 DEF Registers, SameMotors
<1>9. DriverTypes(g)
  BY <1>6, <1>8 DEF Between, DriverTypes, SameMotors
<1>10. \A k \in 1..Len(q) : q[k].drive = f.queue[k].drive /\ q[k].track = f.queue[k].track
  BY <1>4, <1>6
<1>11. DrivesUsed(g)
  BY <1>6, <1>8, <1>10 DEF Between, DrivesUsed
<1>12. MotorsCount(g) /\ (g.selected => Queued(g))
  BY <1>4, <1>6, <1>8 DEF Between, MotorsCount, SameMotors, Queued
<1> QED BY <1>8, <1>9, <1>11, <1>12 DEF Between

\* A reset or a recalibration is due, or is not any longer.
Flagged(f, g, a, b) ==
    a \in BOOLEAN /\ b \in BOOLEAN /\ g = [f EXCEPT !.reset = a, !.recalibrate = b]

\* Then the driver is still entered.
LEMMA FlagsAreSet ==
  ASSUME NEW f, Between(f), NEW a, NEW b, NEW g, Flagged(f, g, a, b)
  PROVE  /\ Between(g) /\ g.do = f.do /\ g.selected = f.selected /\ g.freed = f.freed
         /\ g.reset = a /\ g.recalibrate = b
         /\ g.drive = f.drive /\ g.track = f.track /\ g.head = f.head
<1>1. /\ DOMAIN g = Registers /\ SameMotors(f, g) /\ g.queue = f.queue /\ g.drive = f.drive
      /\ g.selected = f.selected /\ g.freed = f.freed /\ g.timers = f.timers
      /\ g.reset = a /\ g.recalibrate = b /\ g.seek = f.seek
      /\ g.do = f.do /\ g.busy = f.busy /\ g.wrong = f.wrong
      /\ g.track = f.track /\ g.seek_track = f.seek_track /\ g.head = f.head
  BY DEF Between, DriverTypes, Registers, SameMotors, Flagged
<1>2. DriverTypes(g)
  BY <1>1 DEF Between, DriverTypes, SameMotors, Flagged
<1> QED BY <1>1, <1>2 DEF Between, DrivesUsed, MotorsCount, SameMotors, Queued

\* bad_flp_intr()
LEMMA FailIsRight ==
  ASSUME NEW f, Between(f), f.do = NULL, f.queue # <<>>, NEW g \in F!Fail(f)
  PROVE  MayGoOn(f, g)
<1>1. PICK e : e = [f EXCEPT !.queue[1].errors = @ + 1]
  OBVIOUS
<1>2. PICK z : z = F!EndRequest(F!Deselect(f))
  OBVIOUS
<1>3. PICK y1 \in {e, z}, k \in {"reset", "recalibrate"} :
        g = [y1 EXCEPT !.reset = @ \/ k = "reset", !.recalibrate = @ \/ k = "recalibrate"]
  BY <1>1, <1>2 DEF F!Fail, F!AfterError
<1>4. /\ Between(y1) /\ y1.do = NULL /\ y1.reset = f.reset /\ y1.recalibrate = f.recalibrate
      /\ f.selected => y1.selected \/ y1.freed
  <2>1. CASE y1 = e
    <3>1. /\ Between(e) /\ e.do = f.do /\ e.selected = f.selected
          /\ e.reset = f.reset /\ e.recalibrate = f.recalibrate
      BY <1>1, ErrorIsCounted
    <3> QED BY <2>1, <3>1
  <2>2. CASE y1 = z
    <3>1. /\ Between(z) /\ z.do = NULL /\ z.freed
          /\ z.reset = f.reset /\ z.recalibrate = f.recalibrate
      BY <1>2, SelectionIsGivenUp
    <3> QED BY <2>2, <3>1
  <2> QED BY <1>3, <2>1, <2>2
<1>5. PICK a, b : a = (y1.reset \/ k = "reset") /\ b = (y1.recalibrate \/ k = "recalibrate")
  OBVIOUS
<1>6. a \in BOOLEAN /\ b \in BOOLEAN /\ (a \/ b)
  BY <1>3, <1>5
<1>7. Flagged(y1, g, a, b)
  BY <1>3, <1>5, <1>6 DEF Flagged
<1>8. /\ Between(g) /\ g.do = y1.do /\ g.selected = y1.selected /\ g.freed = y1.freed
      /\ g.reset = a /\ g.recalibrate = b
  BY <1>4, <1>7, FlagsAreSet
<1> QED BY <1>4, <1>6, <1>8 DEF MayGoOn, HeadsFound

\* The driver goes on.
LEMMA GoingOnIsRight ==
  ASSUME NEW f, NEW e, MayGoOn(f, e), NEW g \in F!DoRequest(e)
  PROVE  DriverInv(g) /\ (f.selected => g.selected \/ g.freed)
<1>1. Between(e) /\ e.do = NULL /\ HeadsFound(e)
  BY DEF MayGoOn
<1>2. DriverInv(g) /\ (e.selected => g.selected) /\ g.freed = e.freed
  BY <1>1, DoRequestIsRight
<1> QED BY <1>2 DEF MayGoOn

\* rw_interrupt()
LEMMA AfterTransferIsRight ==
  ASSUME NEW f, Between(f), f.do = NULL, Queued(f), HeadsFound(f),
         NEW g \in F!AfterTransfer(f, "rw")
  PROVE  DriverInv(g) /\ (f.selected => g.selected \/ g.freed)
<1>1. f.queue # <<>>
  BY DEF Queued
<1>2. PICK z : z = F!EndRequest(F!Deselect(f))
  OBVIOUS
<1>3. PICK e \in {z} \cup F!Fail(f) : g \in F!DoRequest(e)
  <2>1. PICK e \in ({z} \cup (IF F!MayFail THEN F!Fail(f) ELSE {})) : g \in F!DoRequest(e)
    BY <1>1, <1>2 DEF F!AfterTransfer
  <2> QED BY <2>1
<1>4. MayGoOn(f, z)
  <2>1. /\ Between(z) /\ z.do = NULL /\ z.freed
        /\ z.reset = f.reset /\ z.recalibrate = f.recalibrate
        /\ z.drive = f.drive /\ z.track = f.track /\ z.head = f.head
    BY <1>1, <1>2, SelectionIsGivenUp
  <2> QED BY <2>1 DEF MayGoOn, HeadsFound, Settled
<1>5. MayGoOn(f, e)
  BY <1>1, <1>3, <1>4, FailIsRight
<1> QED BY <1>3, <1>5, GoingOnIsRight

\* seek_interrupt()
LEMMA AfterSeekIsRight ==
  ASSUME NEW f, Between(f), f.do = NULL, Queued(f), Selected(f), AtSpeed(f), OnTrack(f),
         NEW g \in F!AfterSeek(f, "seek")
  PROVE  DriverInv(g) /\ (f.selected => g.selected \/ g.freed)
<1>1. PICK e : e = [f EXCEPT !.track = f.seek_track]
  OBVIOUS
<1>2. \/ g \in F!SetupTransfer(e)
      \/ \E x1 \in F!Fail(f) : g \in F!DoRequest(x1)
  BY <1>1 DEF F!AfterSeek
<1>3. CASE g \in F!SetupTransfer(e)
  <2>1. /\ DOMAIN e = Registers /\ SameMotors(f, e) /\ e.queue = f.queue /\ e.drive = f.drive
        /\ e.selected = f.selected /\ e.freed = f.freed /\ e.timers = <<>>
        /\ e.reset = f.reset /\ e.recalibrate = f.recalibrate /\ e.seek = f.seek
        /\ e.do = NULL /\ e.busy = NULL /\ e.wrong = {}
        /\ e.track = f.seek_track /\ e.seek_track = f.seek_track /\ e.head = f.head
    BY <1>1 DEF Between, DriverTypes, Registers, SameMotors
  <2>2. DriverTypes(e)
    BY <2>1 DEF Between, DriverTypes, SameMotors
  <2>3. Between(e)
    BY <2>1, <2>2 DEF Between, DrivesUsed, MotorsCount, SameMotors, Queued
  <2>4. Queued(e) /\ Selected(e) /\ AtSpeed(e) /\ OnTrack(e) /\ HeadsFound(e)
    BY <2>1 DEF Queued, Selected, AtSpeed, OnTrack, HeadsFound, Settled, SameMotors
  <2>5. DriverInv(g) /\ Commanded(e, g)
    BY <1>3, <2>3, <2>4, SetupIsRight
  <2> QED BY <2>1, <2>5 DEF Commanded
<1>4. CASE \E x1 \in F!Fail(f) : g \in F!DoRequest(x1)
  <2>1. PICK x1 \in F!Fail(f) : g \in F!DoRequest(x1)
    BY <1>4
  <2>2. MayGoOn(f, x1)
    BY <2>1, FailIsRight DEF Queued
  <2> QED BY <2>1, <2>2, GoingOnIsRight
<1> QED BY <1>2, <1>3, <1>4

\* recal_interrupt()
LEMMA AfterRecalibrateIsRight ==
  ASSUME NEW f, Between(f), f.do = NULL, Settled(f), NEW g \in F!AfterRecalibrate(f)
  PROVE  DriverInv(g) /\ (f.selected => g.selected \/ g.freed)
<1>1. PICK e \in {[f EXCEPT !.recalibrate = FALSE], [f EXCEPT !.reset = TRUE]} :
        g \in F!DoRequest(e)
  BY DEF F!AfterRecalibrate
<1>2. f.reset \in BOOLEAN /\ f.recalibrate \in BOOLEAN /\ DOMAIN f = Registers
  BY DEF Between, DriverTypes
<1>3. PICK a, b : Flagged(f, e, a, b)
  <2>1. CASE e = [f EXCEPT !.recalibrate = FALSE]
    <3>1. e = [f EXCEPT !.reset = f.reset, !.recalibrate = FALSE]
      BY <1>2, <2>1 DEF Registers
    <3> QED BY <1>2, <3>1 DEF Flagged
  <2>2. CASE e = [f EXCEPT !.reset = TRUE]
    <3>1. e = [f EXCEPT !.reset = TRUE, !.recalibrate = f.recalibrate]
      BY <1>2, <2>2 DEF Registers
    <3> QED BY <1>2, <3>1 DEF Flagged
  <2> QED BY <1>1, <2>1, <2>2
<1>4. /\ Between(e) /\ e.do = f.do /\ e.selected = f.selected /\ e.freed = f.freed
      /\ e.drive = f.drive /\ e.track = f.track /\ e.head = f.head
  BY <1>3, FlagsAreSet
<1>5. MayGoOn(f, e)
  BY <1>4 DEF MayGoOn, HeadsFound, Settled
<1> QED BY <1>1, <1>5, GoingOnIsRight

-----------------------------------------------------------------------------
\* unexpected_floppy_interrupt()
LEMMA UnexpectedIsRight ==
  ASSUME NEW f, DriverInv(f), f.busy = NULL, NEW g \in F!Handle(f, NULL)
  PROVE  DriverInv(g) /\ g.selected = f.selected
<1>1. DOMAIN f = Registers /\ f.do = NULL
  BY DEF DriverInv, DriverRest, DriverTypes
<1>2. PICK e : e = [f EXCEPT !.do = NULL]
  OBVIOUS
<1>3. g \in F!Unexpected(e)
  <2>1. F!Handle(f, NULL) = F!Unexpected(e)
    BY <1>1, <1>2, FloppyNumbers DEF F!Handle
  <2> QED BY <2>1
<1>4. g = [e EXCEPT !.recalibrate = TRUE] \/ g = [e EXCEPT !.reset = TRUE]
  BY <1>3 DEF F!Unexpected
<1>5. /\ DOMAIN g = Registers /\ SameMotors(f, g) /\ g.queue = f.queue /\ g.drive = f.drive
      /\ g.selected = f.selected /\ g.freed = f.freed /\ g.timers = f.timers
      /\ g.reset \in BOOLEAN /\ g.recalibrate \in BOOLEAN /\ (g.reset \/ g.recalibrate)
      /\ g.seek = f.seek /\ g.do = f.do /\ g.busy = f.busy /\ g.wrong = f.wrong
      /\ g.track = f.track /\ g.seek_track = f.seek_track /\ g.head = f.head
  <2>1. /\ DOMAIN e = Registers /\ SameMotors(f, e) /\ e.queue = f.queue
        /\ e.drive = f.drive /\ e.selected = f.selected /\ e.freed = f.freed
        /\ e.timers = f.timers /\ e.reset = f.reset /\ e.recalibrate = f.recalibrate
        /\ e.seek = f.seek /\ e.do = f.do /\ e.busy = f.busy /\ e.wrong = f.wrong
        /\ e.track = f.track /\ e.seek_track = f.seek_track /\ e.head = f.head
    BY <1>1, <1>2 DEF Registers, SameMotors
  <2>2. f.reset \in BOOLEAN /\ f.recalibrate \in BOOLEAN
    BY DEF DriverInv, DriverRest, DriverTypes
  <2> QED BY <1>4, <2>1, <2>2 DEF Registers, SameMotors
<1>6. DriverTypes(g)
  BY <1>5 DEF DriverInv, DriverRest, DriverTypes, SameMotors
<1>7. DrivesUsed(g) /\ MotorsCount(g) /\ (g.selected => Queued(g))
  BY <1>5 DEF DriverInv, DriverRest, DrivesUsed, MotorsCount, SameMotors, Queued
<1>8. g.busy = NULL /\ NULL \notin {"rw", "seek", "recal", "reset"}
  BY <1>5, FloppyNumbers
<1>9. g.timers = <<>> \/ (Len(g.timers) = 1 /\ TimerWaits(g, g.timers[1]))
  <2>1. TimerWaits(f, f.timers[1]) => TimerWaits(g, g.timers[1])
    BY <1>5 DEF TimerWaits, Queued, OnTrack, Selected, AtSpeed, SameMotors
  <2> QED BY <1>5, <2>1 DEF DriverInv, DriverRest
<1> QED BY <1>5, <1>6, <1>7, <1>8, <1>9 DEF DriverInv, DriverRest

\* The state when an interrupt is handled: the handler is used once, and nothing
\* is on its way.
LEMMA BusyIsOver ==
  ASSUME NEW f, DriverInv(f), f.busy # NULL, NEW e, e = [f EXCEPT !.busy = NULL, !.do = NULL]
  PROVE  /\ Between(e) /\ e.do = NULL /\ e.selected = f.selected
         /\ e.queue = f.queue /\ e.dor = f.dor /\ e.drive = f.drive
         /\ e.motors = f.motors /\ e.spun = f.spun /\ e.head = f.head
         /\ e.track = f.track /\ e.seek_track = f.seek_track
         /\ e.reset = f.reset /\ e.recalibrate = f.recalibrate
<1>1. DOMAIN f = Registers /\ f.timers = <<>>
  BY DEF DriverInv, DriverRest, DriverTypes
<1>2. /\ DOMAIN e = Registers /\ SameMotors(f, e) /\ e.queue = f.queue /\ e.drive = f.drive
      /\ e.selected = f.selected /\ e.freed = f.freed /\ e.timers = <<>>
      /\ e.reset = f.reset /\ e.recalibrate = f.recalibrate /\ e.seek = f.seek
      /\ e.do = NULL /\ e.busy = NULL /\ e.wrong = f.wrong
      /\ e.track = f.track /\ e.seek_track = f.seek_track /\ e.head = f.head
  BY <1>1 DEF Registers, SameMotors
<1>3. DriverTypes(e)
  BY <1>2 DEF DriverInv, DriverRest, DriverTypes, SameMotors
<1>4. Between(e)
  BY <1>2, <1>3 DEF DriverInv, DriverRest, Between, DrivesUsed, MotorsCount, SameMotors, Queued
<1> QED BY <1>2, <1>4 DEF SameMotors

\* floppy_interrupt
LEMMA HandleIsRight ==
  ASSUME NEW f, DriverInv(f), f.busy # NULL,
         NEW g \in F!Handle([f EXCEPT !.busy = NULL], f.busy)
  PROVE  DriverInv(g) /\ (f.selected => g.selected \/ g.freed)
<1>1. PICK e : e = [f EXCEPT !.busy = NULL, !.do = NULL]
  OBVIOUS
<1>2. /\ Between(e) /\ e.do = NULL /\ e.selected = f.selected
      /\ e.queue = f.queue /\ e.dor = f.dor /\ e.drive = f.drive
      /\ e.motors = f.motors /\ e.spun = f.spun /\ e.head = f.head
      /\ e.track = f.track /\ e.seek_track = f.seek_track
      /\ e.reset = f.reset /\ e.recalibrate = f.recalibrate
  BY <1>1, BusyIsOver
<1>3. DOMAIN f = Registers /\ f.do = f.busy /\ f.busy \in {"rw", "seek", "recal", "reset"}
  BY DEF DriverInv, DriverRest, DriverTypes
<1>4. PICK k : k = [f EXCEPT !.busy = NULL]
  OBVIOUS
<1>5. k.do = f.busy /\ [k EXCEPT !.do = NULL] = e
  BY <1>1, <1>3, <1>4 DEF Registers
<1>6. g \in F!Handle(k, f.busy)
  BY <1>4
<1>7. /\ f.busy = "rw" => g \in F!AfterTransfer(e, "rw")
      /\ f.busy = "seek" => g \in F!AfterSeek(e, "seek")
      /\ f.busy = "recal" => g \in F!AfterRecalibrate(e)
      /\ f.busy = "reset" => g \in F!DoRequest(e)
  BY <1>3, <1>5, <1>6, FloppyNumbers DEF F!Handle
<1>8. CASE f.busy = "rw"
  <2>1. Queued(e) /\ HeadsFound(e)
    BY <1>2, <1>8, FloppyNumbers DEF DriverInv, DriverRest, Queued, HeadsFound, Settled
  <2> QED BY <1>2, <1>7, <1>8, <2>1, AfterTransferIsRight
<1>9. CASE f.busy = "seek"
  <2>1. Queued(e) /\ Selected(e) /\ AtSpeed(e) /\ OnTrack(e)
    BY <1>2, <1>9 DEF DriverInv, DriverRest, Queued, Selected, AtSpeed, OnTrack
  <2> QED BY <1>2, <1>7, <1>9, <2>1, AfterSeekIsRight
<1>10. CASE f.busy = "recal"
  <2>1. Settled(e)
    BY <1>2, <1>10 DEF DriverInv, DriverRest, Settled
  <2> QED BY <1>2, <1>7, <1>10, <2>1, AfterRecalibrateIsRight
<1>11. CASE f.busy = "reset"
  <2>1. MayGoOn(e, e)
    BY <1>2, <1>11 DEF DriverInv, DriverRest, HeadsFound, MayGoOn
  <2> QED BY <1>2, <1>7, <1>11, <2>1, GoingOnIsRight
<1> QED BY <1>3, <1>8, <1>9, <1>10, <1>11

\* add_request(): the request is put into the queue of an idle driver.
LEMMA FirstRequestIsRight ==
  ASSUME NEW f, DriverInv(f), f.queue = <<>>, f.busy = NULL, NEW r \in F!Request,
         "two_drives" \notin on => r.drive = 0,
         "two_drives" \in on => r.track # BEYOND,
         NEW g \in F!DoRequest([f EXCEPT !.queue = <<r>>])
  PROVE  DriverInv(g) /\ ~f.selected
<1>1. PICK q : q = <<r>>
  OBVIOUS
<1>2. q \in Seq(F!Request) /\ Len(q) = 1 /\ q[1] = r
  BY <1>1
<1>3. PICK e : e = [f EXCEPT !.queue = q]
  OBVIOUS
<1>4. DOMAIN f = Registers /\ f.timers = <<>> /\ ~f.selected /\ f.selected \in BOOLEAN
  BY DEF DriverInv, DriverRest, DriverTypes, TimerWaits, Queued
<1>5. /\ DOMAIN e = Registers /\ SameMotors(f, e) /\ e.queue = q /\ e.drive = f.drive
      /\ e.selected = f.selected /\ e.freed = f.freed /\ e.timers = <<>>
      /\ e.reset = f.reset /\ e.recalibrate = f.recalibrate /\ e.seek = f.seek
      /\ e.do = NULL /\ e.busy = NULL /\ e.wrong = f.wrong
      /\ e.track = f.track /\ e.seek_track = f.seek_track /\ e.head = f.head
  BY <1>3, <1>4 DEF Registers, SameMotors, DriverInv, DriverRest
<1>6. DriverTypes(e)
  BY <1>2, <1>5 DEF DriverInv, DriverRest, DriverTypes, SameMotors
<1>7. DrivesUsed(e) /\ MotorsCount(e)
  <2>1. MotorsCount(e)
    BY <1>5 DEF DriverInv, DriverRest, MotorsCount, SameMotors
  <2>2. \A j \in 1..Len(q) : q[j] = r
    BY <1>2
  <2>3. DrivesUsed(f)
    BY DEF DriverInv, DriverRest
  <2> QED BY <1>5, <2>1, <2>2, <2>3 DEF DrivesUsed
<1>8. Between(e)
  BY <1>4, <1>5, <1>6, <1>7 DEF DriverInv, DriverRest, Between
<1>9. HeadsFound(e)
  BY <1>4, <1>5, FloppyNumbers DEF DriverInv, DriverRest, HeadsFound, Settled
<1>10. g \in F!DoRequest(e)
  BY <1>1, <1>3
<1> QED BY <1>4, <1>5, <1>8, <1>9, <1>10, DoRequestIsRight

\* add_request(): the driver does not look behind the first request.
LEMMA LaterRequestIsRight ==
  ASSUME NEW f, DriverInv(f), f.queue # <<>>, NEW r \in F!Request,
         "two_drives" \notin on => r.drive = 0,
         "two_drives" \in on => r.track # BEYOND,
         NEW k \in 2..(Len(f.queue) + 1),
         NEW g, g = [f EXCEPT !.queue = F!InsertAt(@, k, r)]
  PROVE  DriverInv(g) /\ g.selected = f.selected
<1>1. PICK q : q = F!InsertAt(f.queue, k, r)
  OBVIOUS
<1>2. DOMAIN f = Registers /\ f.queue \in Seq(F!Request)
  BY DEF DriverInv, DriverRest, DriverTypes
<1>3. /\ q \in Seq(F!Request) /\ Len(q) = Len(f.queue) + 1 /\ q # <<>> /\ q[1] = f.queue[1]
      /\ \A j \in 1..Len(q) : q[j] = r \/ \E i \in 1..Len(f.queue) : q[j] = f.queue[i]
  <2>1. PICK a : a = SubSeq(f.queue, 1, k - 1)
    OBVIOUS
  <2>2. PICK b : b = SubSeq(f.queue, k, Len(f.queue))
    OBVIOUS
  <2>3. PICK n : n = Len(f.queue)
    OBVIOUS
  <2>4. n \in Nat /\ k \in 2..(n + 1)
    BY <1>2, <2>3
  <2>5. /\ a \in Seq(F!Request) /\ Len(a) = k - 1
        /\ \A j \in 1..(k - 1) : a[j] = f.queue[j]
    BY <1>2, <2>1, <2>3, <2>4
  <2>6. /\ b \in Seq(F!Request) /\ Len(b) = n - k + 1
        /\ \A j \in 1..(n - k + 1) : b[j] = f.queue[k + j - 1]
    BY <1>2, <2>2, <2>3, <2>4
  <2>7. q = (a \o <<r>>) \o b
    BY <1>1, <2>1, <2>2 DEF F!InsertAt
  <2>8. PICK o1 : o1 = a \o <<r>>
    OBVIOUS
  <2>9. /\ o1 \in Seq(F!Request) /\ Len(o1) = k
        /\ \A j \in 1..(k - 1) : o1[j] = a[j]
        /\ o1[k] = r
    BY <2>4, <2>5, <2>8
  <2>10. /\ q \in Seq(F!Request) /\ Len(q) = n + 1
         /\ \A j \in 1..k : q[j] = o1[j]
         /\ \A j \in (k + 1)..(n + 1) : q[j] = b[j - k]
    <3>1. q = o1 \o b
      BY <2>7, <2>8
    <3>2. k + (n - k + 1) = n + 1 /\ Len(o1) + Len(b) = n + 1
      BY <2>4, <2>6, <2>9
    <3>3. q \in Seq(F!Request) /\ Len(q) = n + 1
      <4>1. PICK Q : Q = F!Request
        OBVIOUS
      <4>2. o1 \in Seq(Q) /\ b \in Seq(Q)
        BY <2>6, <2>9, <4>1
      <4>3. q \in Seq(Q) /\ Len(q) = Len(o1) + Len(b)
        BY <3>1, <4>2
      <4> QED BY <3>2, <4>1, <4>3
    <3>4. \A j \in 1..k : q[j] = o1[j]
      BY <2>4, <2>6, <2>9, <3>1, <3>2
    <3>5. ASSUME NEW j \in (k + 1)..(n + 1) PROVE q[j] = b[j - k]
      <4>1. j \in 1..(n + 1) /\ j > k
        BY <2>4
      <4>2. j \in 1..(Len(o1) + Len(b)) /\ j > Len(o1)
        BY <2>4, <2>9, <3>2, <4>1
      <4>3. q[j] = b[j - Len(o1)]
        BY <2>6, <2>9, <3>1, <4>2
      <4> QED BY <2>9, <4>3
    <3> QED BY <3>3, <3>4, <3>5
  <2>11. q[1] = f.queue[1]
    <3>1. 1 \in 1..k /\ 1 \in 1..(k - 1)
      BY <2>4
    <3>2. q[1] = o1[1] /\ o1[1] = a[1] /\ a[1] = f.queue[1]
      BY <2>5, <2>9, <2>10, <3>1
    <3> QED BY <3>2
  <2>12. ASSUME NEW j \in 1..Len(q)
         PROVE  q[j] = r \/ \E i \in 1..n : q[j] = f.queue[i]
    <3>1. CASE j < k
      <4>1. j \in 1..(k - 1) /\ j \in 1..k /\ j \in 1..n
        BY <2>4, <2>10, <3>1
      <4> QED BY <2>5, <2>9, <2>10, <4>1
    <3>2. CASE j = k
      BY <2>4, <2>9, <2>10, <3>2
    <3>3. CASE j > k
      <4>1. /\ j \in (k + 1)..(n + 1) /\ j - k \in 1..(n - k + 1)
            /\ k + (j - k) - 1 \in 1..n
        BY <2>4, <2>10, <3>3
      <4> QED BY <2>6, <2>10, <4>1
    <3> QED BY <2>4, <2>10, <3>1, <3>2, <3>3
  <2> QED BY <2>3, <2>4, <2>10, <2>11, <2>12
<1>4. g = [f EXCEPT !.queue = q]
  BY <1>1
<1>5. /\ DOMAIN g = Registers /\ SameMotors(f, g) /\ g.queue = q /\ g.drive = f.drive
      /\ g.selected = f.selected /\ g.freed = f.freed /\ g.timers = f.timers
      /\ g.reset = f.reset /\ g.recalibrate = f.recalibrate /\ g.seek = f.seek
      /\ g.do = f.do /\ g.busy = f.busy /\ g.wrong = f.wrong
      /\ g.track = f.track /\ g.seek_track = f.seek_track /\ g.head = f.head
  BY <1>2, <1>4 DEF Registers, SameMotors
<1>6. DriverTypes(g)
  BY <1>3, <1>5 DEF DriverInv, DriverRest, DriverTypes, SameMotors
<1>7. DrivesUsed(g) /\ MotorsCount(g)
  <2>1. MotorsCount(g)
    BY <1>5 DEF DriverInv, DriverRest, MotorsCount, SameMotors
  <2>2. "late_request" \notin on /\ "slow" \notin on
    BY DEF DriverInv, DriverRest, DrivesUsed
  <2>3. ASSUME "two_drives" \notin on
        PROVE  g.drive = 0 /\ \A j \in 1..Len(q) : q[j].drive = 0
    <3>1. f.drive = 0 /\ \A j \in 1..Len(f.queue) : f.queue[j].drive = 0
      BY <2>3 DEF DriverInv, DriverRest, DrivesUsed
    <3>2. r.drive = 0
      BY <2>3
    <3> QED BY <1>3, <1>5, <3>1, <3>2
  <2>4. ASSUME "two_drives" \in on
        PROVE  \A j \in 1..Len(q) : q[j].track # BEYOND
    <3>1. \A j \in 1..Len(f.queue) : f.queue[j].track # BEYOND
      BY <2>4 DEF DriverInv, DriverRest, DrivesUsed
    <3>2. r.track # BEYOND
      BY <2>4
    <3> QED BY <1>3, <3>1, <3>2
  <2>5. g.queue = q
    BY <1>5
  <2> QED BY <2>1, <2>2, <2>3, <2>4, <2>5 DEF DrivesUsed
<1>8. Queued(f) => Queued(g)
  BY <1>3, <1>5 DEF Queued
<1>9. TimerWaits(f, f.timers[1]) => TimerWaits(g, g.timers[1])
  BY <1>5, <1>8 DEF TimerWaits, OnTrack, Selected, AtSpeed, SameMotors
<1>10. Selected(f) => Selected(g)
  BY <1>5 DEF Selected, SameMotors
<1>11. AtSpeed(f) => AtSpeed(g)
  BY <1>5 DEF AtSpeed, SameMotors
<1>12. (OnTrack(f) => OnTrack(g)) /\ (Settled(f) => Settled(g))
  BY <1>5 DEF OnTrack, Settled
<1>13. g.timers = <<>> \/ (Len(g.timers) = 1 /\ TimerWaits(g, g.timers[1]) /\ g.busy = NULL)
  BY <1>5, <1>9 DEF DriverInv, DriverRest
<1>14. g.queue # <<>> => g.busy # NULL \/ g.timers # <<>>
  BY <1>5 DEF DriverInv, DriverRest
<1> QED BY <1>5, <1>6, <1>7, <1>8, <1>10, <1>11, <1>12, <1>13, <1>14 DEF DriverInv, DriverRest

-----------------------------------------------------------------------------
\* do_floppy_timer(): each motor that is to start or to stop comes a tick closer to it.
LEMMA MotorsTick ==
  ASSUME NEW f, DriverTypes(f), MotorsCount(f), NEW g, g = F!MotorTick(f)
  PROVE  /\ DriverTypes(g) /\ SameWork(f, g) /\ MotorsCount(g) /\ g.dor = f.dor
         /\ \A d \in f.motors : f.mon[d] > 0 \/ f.moff[d] > 0 => d \in g.motors
         /\ \A d \in Drive : f.mon[d] > 0 => g.mon[d] = f.mon[d] - 1 /\ g.moff[d] = f.moff[d]
         /\ \A d \in Drive : f.moff[d] > 0 => g.moff[d] >= f.moff[d] - 1
         /\ \A d \in Drive : /\ g.spun[d] = f.spun[d] + 1 \/ g.spun[d] = SPINUP
                             /\ g.spun[d] >= f.spun[d]
<1>1. /\ f.mon \in [Drive -> 0..SPINUP] /\ f.moff \in [Drive -> 0..LONG]
      /\ f.spun \in [Drive -> 0..SPINUP] /\ f.motors \in SUBSET Drive /\ DOMAIN f = Registers
  BY DEF DriverTypes
<1>2. PICK mon : mon = [d \in Drive |-> IF d \in f.motors /\ f.mon[d] > 0
                                        THEN f.mon[d] - 1 ELSE f.mon[d]]
  OBVIOUS
<1>3. PICK moff : moff = [d \in Drive |-> IF d \in f.motors /\ f.mon[d] = 0 /\ f.moff[d] > 0
                                          THEN f.moff[d] - 1 ELSE f.moff[d]]
  OBVIOUS
<1>4. PICK ms : ms = {d \in f.motors : f.mon[d] > 0 \/ f.moff[d] > 0}
  OBVIOUS
<1>5. PICK spun : spun = [d \in Drive |-> IF f.spun[d] < SPINUP THEN f.spun[d] + 1 ELSE SPINUP]
  OBVIOUS
<1>6. g = [f EXCEPT !.mon = mon, !.moff = moff, !.motors = ms, !.spun = spun]
  BY <1>2, <1>3, <1>4, <1>5 DEF F!MotorTick
<1>7. /\ DOMAIN g = Registers /\ SameWork(f, g) /\ g.dor = f.dor
      /\ g.mon = mon /\ g.moff = moff /\ g.motors = ms /\ g.spun = spun
  BY <1>1, <1>6 DEF Registers, SameWork
<1>8. ASSUME NEW d \in Drive
      PROVE  /\ mon[d] \in 0..SPINUP /\ moff[d] \in 0..LONG /\ spun[d] \in 0..SPINUP
             /\ f.mon[d] > 0 => mon[d] = f.mon[d] - 1 /\ moff[d] = f.moff[d]
             /\ f.moff[d] > 0 => moff[d] >= f.moff[d] - 1
             /\ spun[d] = f.spun[d] + 1 \/ spun[d] = SPINUP
             /\ spun[d] >= f.spun[d]
             /\ mon[d] > 0 => d \in ms /\ moff[d] > 1
             /\ d \in ms => spun[d] + mon[d] >= SPINUP
  <2>1. PICK a, b, e : a = f.mon[d] /\ b = f.moff[d] /\ e = f.spun[d]
    OBVIOUS
  <2>2. a \in 0..SPINUP /\ b \in 0..LONG /\ e \in 0..SPINUP
    BY <1>1, <2>1
  <2>3. /\ a > 0 => d \in f.motors /\ b > 1
        /\ d \in f.motors => e + a >= SPINUP
    BY <2>1 DEF MotorsCount
  <2>4. /\ mon[d] = IF d \in f.motors /\ a > 0 THEN a - 1 ELSE a
        /\ moff[d] = IF d \in f.motors /\ a = 0 /\ b > 0 THEN b - 1 ELSE b
        /\ spun[d] = IF e < SPINUP THEN e + 1 ELSE SPINUP
        /\ d \in ms <=> d \in f.motors /\ (a > 0 \/ b > 0)
    BY <1>2, <1>3, <1>4, <1>5, <2>1
  <2> QED BY <2>1, <2>2, <2>3, <2>4, FloppyNumbers
<1>9. /\ mon \in [Drive -> 0..SPINUP] /\ moff \in [Drive -> 0..LONG]
      /\ spun \in [Drive -> 0..SPINUP]
  BY <1>2, <1>3, <1>5, <1>8
<1>10. DriverTypes(g)
  BY <1>4, <1>7, <1>9 DEF DriverTypes, SameWork
<1>11. MotorsCount(g)
  BY <1>7, <1>8 DEF MotorsCount
<1>12. \A d \in f.motors : f.mon[d] > 0 \/ f.moff[d] > 0 => d \in g.motors
  BY <1>4, <1>7
<1> QED BY <1>7, <1>8, <1>10, <1>11, <1>12

\* What a timer waits for, a tick later.
WaitsLonger(f, k) ==
    /\ k \in F!Timer /\ Queued(f)
    /\ f.seek \/ OnTrack(f)
    /\ \/ /\ k.fn = "on" /\ k.left > 0
          /\ f.drive \in f.motors /\ f.mon[f.drive] >= k.left + 1
          /\ f.spun[f.drive] + k.left + 1 >= SPINUP
       \/ /\ k.fn = "transfer" /\ k.left \in 1..2
          /\ Selected(f) /\ AtSpeed(f)
          /\ (f.mon[f.drive] > 0 \/ f.moff[f.drive] >= k.left + 1)

\* The motors tick behind the timers.
LEMMA TickIsRight ==
  ASSUME NEW f, DriverRest(f),
         f.timers = <<>> \/ (Len(f.timers) = 1 /\ WaitsLonger(f, f.timers[1]) /\ f.busy = NULL),
         f.busy \in {"rw", "seek"} => f.mon[f.drive] > 0 \/ f.moff[f.drive] > 0,
         NEW g, g = F!MotorTick(f)
  PROVE  DriverInv(g) /\ g.selected = f.selected /\ g.freed = f.freed
<1>1. /\ DriverTypes(g) /\ SameWork(f, g) /\ MotorsCount(g) /\ g.dor = f.dor
      /\ \A d \in f.motors : f.mon[d] > 0 \/ f.moff[d] > 0 => d \in g.motors
      /\ \A d \in Drive : f.mon[d] > 0 => g.mon[d] = f.mon[d] - 1 /\ g.moff[d] = f.moff[d]
      /\ \A d \in Drive : f.moff[d] > 0 => g.moff[d] >= f.moff[d] - 1
      /\ \A d \in Drive : /\ g.spun[d] = f.spun[d] + 1 \/ g.spun[d] = SPINUP
                          /\ g.spun[d] >= f.spun[d]
  BY MotorsTick DEF DriverRest
<1>2. DrivesUsed(g) /\ (Queued(f) => Queued(g)) /\ (Selected(f) => Selected(g))
  BY <1>1 DEF DriverRest, DrivesUsed, SameWork, Queued, Selected
<1>3. (OnTrack(f) => OnTrack(g)) /\ (Settled(f) => Settled(g))
  BY <1>1 DEF OnTrack, Settled, SameWork
<1>4. PICK d : d = f.drive
  OBVIOUS
<1>5. d \in Drive /\ g.drive = d
  BY <1>1, <1>4 DEF DriverRest, DriverTypes, SameWork
<1>6. PICK a, b, e : a = f.mon[d] /\ b = f.moff[d] /\ e = f.spun[d]
  OBVIOUS
<1>7. /\ a \in 0..SPINUP /\ b \in 0..LONG /\ e \in 0..SPINUP
      /\ g.mon[d] \in 0..SPINUP /\ g.moff[d] \in 0..LONG /\ g.spun[d] \in 0..SPINUP
  BY <1>1, <1>5, <1>6 DEF DriverRest, DriverTypes
<1>8. /\ d \in f.motors /\ (a > 0 \/ b > 0) => d \in g.motors
      /\ a > 0 => g.mon[d] = a - 1 /\ g.moff[d] = b /\ b > 1
      /\ b > 0 => g.moff[d] >= b - 1
      /\ g.spun[d] = e + 1 \/ g.spun[d] = SPINUP
      /\ g.spun[d] >= e
  BY <1>1, <1>5, <1>6 DEF DriverRest, MotorsCount
<1>9. AtSpeed(f) /\ (a > 0 \/ b > 0) => AtSpeed(g)
  BY <1>4, <1>5, <1>6, <1>7, <1>8, FloppyNumbers DEF AtSpeed
<1>10. f.busy \in {"rw", "seek"} => Queued(g) /\ Selected(g) /\ AtSpeed(g)
  BY <1>2, <1>4, <1>6, <1>9 DEF DriverRest
<1>11. CASE f.timers = <<>>
  <2>1. g.timers = <<>>
    BY <1>1, <1>11 DEF SameWork
  <2> QED BY <1>1, <1>2, <1>3, <1>10, <1>11, <2>1 DEF DriverInv, DriverRest, SameWork
<1>12. CASE Len(f.timers) = 1 /\ WaitsLonger(f, f.timers[1]) /\ f.busy = NULL
  <2>1. PICK k : k = f.timers[1]
    OBVIOUS
  <2>2. k \in F!Timer /\ k.left \in Nat
    BY <1>12, <2>1 DEF WaitsLonger, F!Timer
  <2>3. PICK n : n = k.left
    OBVIOUS
  <2>4. ASSUME k.fn = "on" PROVE TimerWaits(g, k)
    <3>1. n \in Nat /\ n > 0 /\ d \in f.motors /\ a >= n + 1 /\ e + n + 1 >= SPINUP
      BY <1>4, <1>6, <1>12, <2>1, <2>2, <2>3, <2>4 DEF WaitsLonger
    <3>2. d \in g.motors /\ g.mon[d] >= n /\ g.spun[d] + n >= SPINUP
      BY <1>7, <1>8, <3>1, FloppyNumbers
    <3>3. Queued(g) /\ (g.seek \/ OnTrack(g))
      BY <1>1, <1>2, <1>3, <1>12 DEF WaitsLonger, SameWork
    <3> QED BY <1>5, <2>2, <2>3, <2>4, <3>1, <3>2, <3>3 DEF TimerWaits
  <2>5. ASSUME k.fn = "transfer" PROVE TimerWaits(g, k)
    <3>1. /\ n \in 1..2 /\ Selected(f) /\ AtSpeed(f) /\ (a > 0 \/ b >= n + 1)
      BY <1>4, <1>6, <1>12, <2>1, <2>2, <2>3, <2>5 DEF WaitsLonger
    <3>2. g.mon[d] > 0 \/ g.moff[d] >= n
      BY <1>7, <1>8, <3>1, FloppyNumbers
    <3>3. Queued(g) /\ (g.seek \/ OnTrack(g))
      BY <1>1, <1>2, <1>3, <1>12 DEF WaitsLonger, SameWork
    <3>4. Selected(g) /\ AtSpeed(g)
      BY <1>2, <1>7, <1>9, <3>1
    <3> QED BY <1>5, <2>2, <2>3, <2>5, <3>1, <3>2, <3>3, <3>4 DEF TimerWaits
  <2>6. k.fn \in {"on", "transfer"}
    BY <2>2 DEF F!Timer
  <2>7. TimerWaits(g, g.timers[1]) /\ g.timers = f.timers
    <3>1. g.timers = f.timers
      BY <1>1 DEF SameWork
    <3>2. TimerWaits(g, k)
      BY <2>4, <2>5, <2>6
    <3> QED BY <2>1, <3>1, <3>2
  <2>8. DriverRest(g)
    BY <1>1, <1>2, <1>3, <1>10, <1>12, <2>7 DEF DriverRest, SameWork
  <2> QED BY <1>1, <1>12, <2>7, <2>8 DEF DriverInv, SameWork
<1> QED BY <1>11, <1>12

-----------------------------------------------------------------------------
\* The list of timers, a tick later.
AgedTimers(f) ==
    [k \in 1..Len(f.timers) |->
       [f.timers[k] EXCEPT !.left = IF k = 1 THEN @ - 1 ELSE @, !.due = @ - 1]]

\* A timer, a tick later.
LEMMA TimerAges ==
  ASSUME NEW k \in F!Timer, k.left > 0,
         NEW t1, t1 = [k EXCEPT !.left = @ - 1, !.due = @ - 1]
  PROVE  t1 \in F!Timer /\ t1.left = k.left - 1 /\ t1.fn = k.fn
<1>1. PICK a \in Nat, b \in {"on", "transfer"}, d \in Int :
        k = [left |-> a, fn |-> b, due |-> d]
  BY Zenon DEF F!Timer
<1>2. t1 = [left |-> a - 1, fn |-> b, due |-> d - 1] /\ k.left = a /\ k.fn = b
  BY <1>1
<1>3. a - 1 \in Nat /\ d - 1 \in Int
  BY <1>1, <1>2
<1> QED BY <1>2, <1>3 DEF F!Timer

\* do_timer() without a timer.
LEMMA NoTimerRings ==
  ASSUME NEW f, DriverInv(f), f.timers = <<>>,
         f.busy # NULL /\ f.drive \in f.motors => f.drive \in F!MotorTick(f).motors,
         NEW g \in F!Ring([f EXCEPT !.timers = AgedTimers(f)]), NEW h \in F!Ring(g),
         NEW k, k = F!MotorTick(h)
  PROVE  DriverInv(k) /\ k.selected = f.selected /\ k.freed = f.freed
<1>1. AgedTimers(f) = <<>>
  BY DEF AgedTimers
<1>2. PICK e : e = [f EXCEPT !.timers = <<>>]
  OBVIOUS
<1>3. DOMAIN f = Registers
  BY DEF DriverInv, DriverRest, DriverTypes
<1>4. /\ DOMAIN e = Registers /\ SameMotors(f, e) /\ SameWork(f, e)
  BY <1>2, <1>3 DEF Registers, SameMotors, SameWork
<1>5. e.timers = <<>>
  BY <1>4 DEF SameWork
<1>6. g = e /\ h = e
  <2>1. g \in F!Ring(e)
    BY <1>1, <1>2
  <2>2. g = e
    BY <1>5, <2>1 DEF F!Ring
  <2> QED BY <1>5, <2>2 DEF F!Ring
<1>7. DriverRest(e)
  <2>1. DriverTypes(e)
    BY <1>4 DEF DriverInv, DriverRest, DriverTypes, SameMotors, SameWork
  <2>2. DrivesUsed(e) /\ MotorsCount(e)
    BY <1>4 DEF DriverInv, DriverRest, DrivesUsed, MotorsCount, SameMotors, SameWork
  <2>3. /\ Queued(f) => Queued(e)
        /\ Selected(f) => Selected(e)
        /\ AtSpeed(f) => AtSpeed(e)
        /\ OnTrack(f) => OnTrack(e)
        /\ Settled(f) => Settled(e)
    BY <1>4 DEF Queued, Selected, AtSpeed, OnTrack, Settled, SameMotors, SameWork
  <2> QED BY <1>4, <2>1, <2>2, <2>3 DEF DriverInv, DriverRest, SameWork
<1>8. e.busy \in {"rw", "seek"} => e.mon[e.drive] > 0 \/ e.moff[e.drive] > 0
  <2>1. SUFFICES ASSUME e.busy \in {"rw", "seek"}
                 PROVE  e.mon[e.drive] > 0 \/ e.moff[e.drive] > 0
    OBVIOUS
  <2>2. f.busy # NULL /\ f.drive \in f.motors
    BY <1>4, <2>1, FloppyNumbers DEF DriverInv, DriverRest, AtSpeed, SameWork
  <2>3. f.drive \in F!MotorTick(f).motors
    BY <2>2
  <2>4. F!MotorTick(f).motors = {d \in f.motors : f.mon[d] > 0 \/ f.moff[d] > 0}
    BY <1>3 DEF F!MotorTick, Registers
  <2>5. f.mon[f.drive] > 0 \/ f.moff[f.drive] > 0
    BY <2>3, <2>4
  <2> QED BY <1>4, <2>5 DEF SameMotors, SameWork
<1>9. DriverInv(k) /\ k.selected = e.selected /\ k.freed = e.freed
  BY <1>5, <1>6, <1>7, <1>8, TickIsRight
<1> QED BY <1>4, <1>9 DEF SameWork

\* The state when the first timer, k, is a tick shorter and does not ring.
LEMMA TimerWaitsOn ==
  ASSUME NEW f, DriverInv(f), f.timers # <<>>, f.timers[1].left > 1,
         NEW e, e = [f EXCEPT !.timers = AgedTimers(f)]
  PROVE  /\ DriverRest(e) /\ Len(e.timers) = 1 /\ WaitsLonger(e, e.timers[1]) /\ e.busy = NULL
         /\ e.selected = f.selected /\ e.freed = f.freed
         /\ e.timers # <<>> /\ Head(e.timers).left > 0
<1>1. DOMAIN f = Registers /\ Len(f.timers) = 1 /\ f.busy = NULL
  BY DEF DriverInv, DriverRest, DriverTypes
<1>2. PICK k : k = f.timers[1]
  OBVIOUS
<1>3. PICK n : n = k.left
  OBVIOUS
<1>4. k \in F!Timer /\ n \in Nat /\ n > 1 /\ TimerWaits(f, k)
  BY <1>1, <1>2, <1>3 DEF DriverInv, TimerWaits, F!Timer
<1>5. PICK o1 : o1 = [k EXCEPT !.left = @ - 1, !.due = @ - 1]
  OBVIOUS
<1>6. o1 \in F!Timer /\ o1.left = n - 1 /\ o1.fn = k.fn
  <2>1. k.left > 0
    BY <1>3, <1>4
  <2> QED BY <1>3, <1>4, <1>5, <2>1, TimerAges
<1>7. PICK ts : ts = AgedTimers(f)
  OBVIOUS
<1>8. ts \in Seq(F!Timer) /\ Len(ts) = 1 /\ ts[1] = o1 /\ ts # <<>> /\ Head(ts) = o1
  <2>1. ts = [j \in 1..1 |-> o1]
    BY <1>1, <1>2, <1>5, <1>7 DEF AgedTimers
  <2> QED BY <1>6, <2>1
<1>9. e = [f EXCEPT !.timers = ts]
  BY <1>7
<1>10. /\ DOMAIN e = Registers /\ SameMotors(f, e) /\ e.queue = f.queue /\ e.drive = f.drive
       /\ e.selected = f.selected /\ e.freed = f.freed /\ e.timers = ts
       /\ e.reset = f.reset /\ e.recalibrate = f.recalibrate /\ e.seek = f.seek
       /\ e.do = f.do /\ e.busy = f.busy /\ e.wrong = f.wrong
       /\ e.track = f.track /\ e.seek_track = f.seek_track /\ e.head = f.head
  BY <1>1, <1>9 DEF Registers, SameMotors
<1>11. /\ Queued(f) => Queued(e)
       /\ Selected(f) => Selected(e)
       /\ AtSpeed(f) => AtSpeed(e)
       /\ OnTrack(f) => OnTrack(e)
       /\ Settled(f) => Settled(e)
  BY <1>10 DEF Queued, Selected, AtSpeed, OnTrack, Settled, SameMotors
<1>12. DriverRest(e)
  <2>1. DriverTypes(e)
    BY <1>10 DEF DriverInv, DriverRest, DriverTypes, SameMotors
  <2>2. DrivesUsed(e) /\ MotorsCount(e)
    BY <1>10 DEF DriverInv, DriverRest, DrivesUsed, MotorsCount, SameMotors
  <2>3. e.timers # <<>>
    BY <1>8, <1>10
  <2> QED BY <1>10, <1>11, <2>1, <2>2, <2>3 DEF DriverInv, DriverRest
<1>13. WaitsLonger(e, o1)
  <2>1. PICK a, b, x1 : /\ a = f.mon[f.drive] /\ b = f.moff[f.drive]
                        /\ x1 = f.spun[f.drive]
    OBVIOUS
  <2>2. a \in 0..SPINUP /\ b \in 0..LONG /\ x1 \in 0..SPINUP
    BY <2>1 DEF DriverInv, DriverRest, DriverTypes
  <2>3. a = e.mon[e.drive] /\ b = e.moff[e.drive] /\ x1 = e.spun[e.drive]
    BY <1>10, <2>1 DEF SameMotors
  <2>4. Queued(e) /\ (e.seek \/ OnTrack(e))
    BY <1>4, <1>10, <1>11 DEF TimerWaits
  <2>5. ASSUME k.fn = "on" PROVE WaitsLonger(e, o1)
    <3>1. f.drive \in f.motors /\ a >= n /\ x1 + n >= SPINUP
      BY <1>3, <1>4, <2>1, <2>5 DEF TimerWaits
    <3>2. PICK m : m = n - 1
      OBVIOUS
    <3>3. m > 0 /\ a >= m + 1 /\ x1 + m + 1 >= SPINUP
      BY <1>4, <2>2, <3>1, <3>2, FloppyNumbers
    <3>4. e.drive \in e.motors
      BY <1>10, <3>1 DEF SameMotors
    <3> QED BY <1>6, <2>3, <2>4, <2>5, <3>2, <3>3, <3>4 DEF WaitsLonger
  <2>6. ASSUME k.fn = "transfer" PROVE WaitsLonger(e, o1)
    <3>1. n \in 1..2 /\ Selected(f) /\ AtSpeed(f) /\ (a > 0 \/ b >= n)
      BY <1>3, <1>4, <2>1, <2>6 DEF TimerWaits
    <3>2. PICK m : m = n - 1
      OBVIOUS
    <3>3. m \in 1..2 /\ (a > 0 \/ b >= m + 1)
      BY <1>4, <2>2, <3>1, <3>2, FloppyNumbers
    <3> QED BY <1>6, <1>11, <2>3, <2>4, <2>6, <3>1, <3>2, <3>3 DEF WaitsLonger
  <2>7. k.fn \in {"on", "transfer"}
    BY <1>4 DEF F!Timer
  <2> QED BY <2>5, <2>6, <2>7
<1>14. Head(e.timers).left > 0
  BY <1>4, <1>6, <1>8, <1>10
<1> QED BY <1>1, <1>8, <1>10, <1>12, <1>13, <1>14

\* The state when the first timer rings: nothing is on its way, and the motor has
\* its speed.
LEMMA TimerRings ==
  ASSUME NEW f, DriverInv(f), f.timers # <<>>, ~(f.timers[1].left > 1),
         NEW e, e = [f EXCEPT !.timers = AgedTimers(f)],
         NEW g \in F!Ring(e)
  PROVE  /\ DriverInv(g) /\ (f.selected => g.selected) /\ g.freed = f.freed
         /\ g.drive = f.drive /\ g.mon = f.mon /\ g.moff = f.moff
         /\ g.mon[g.drive] > 0 \/ (g.timers = <<>> /\ g.moff[g.drive] > 0)
         /\ g.timers = <<>> \/ g.timers = <<[left |-> 2, fn |-> "transfer", due |-> 2]>>
<1>1. DOMAIN f = Registers /\ Len(f.timers) = 1 /\ f.busy = NULL /\ f.do = NULL
  BY DEF DriverInv, DriverRest, DriverTypes
<1>2. PICK k : k = f.timers[1]
  OBVIOUS
<1>3. k \in F!Timer /\ k.left \in Nat /\ k.fn \in {"on", "transfer"} /\ TimerWaits(f, k)
  BY <1>1, <1>2 DEF DriverInv, TimerWaits, F!Timer
<1>4. k.left = 1
  <2>1. k.left > 0
    BY <1>3 DEF TimerWaits
  <2> QED BY <1>2, <1>3, <2>1
<1>5. PICK o1 : o1 = [k EXCEPT !.left = @ - 1, !.due = @ - 1]
  OBVIOUS
<1>6. o1 \in F!Timer /\ o1.left = 0 /\ o1.fn = k.fn
  <2>1. k.left > 0
    BY <1>3, <1>4
  <2>2. o1 \in F!Timer /\ o1.left = k.left - 1 /\ o1.fn = k.fn
    BY <1>3, <1>5, <2>1, TimerAges
  <2> QED BY <1>4, <2>2
<1>7. PICK ts : ts = AgedTimers(f)
  OBVIOUS
<1>8. ts \in Seq(F!Timer) /\ Len(ts) = 1 /\ ts # <<>> /\ Head(ts) = o1 /\ Tail(ts) = <<>>
  <2>1. ts = [j \in 1..1 |-> o1]
    BY <1>1, <1>2, <1>5, <1>7 DEF AgedTimers
  <2>2. ts \in Seq(F!Timer) /\ Len(ts) = 1 /\ ts # <<>> /\ Head(ts) = o1
    BY <1>6, <2>1
  <2>3. PICK T, s1 : T = F!Timer /\ s1 = Tail(ts)
    OBVIOUS
  <2>4. ts \in Seq(T) /\ Len(ts) = 1
    BY <2>2, <2>3
  <2>5. s1 \in Seq(T) /\ Len(s1) = 0
    BY <2>3, <2>4
  <2>6. s1 = <<>>
    BY <2>5
  <2> QED BY <2>2, <2>3, <2>6
<1>9. e = [f EXCEPT !.timers = ts]
  BY <1>7
<1>10. PICK z : z = [e EXCEPT !.timers = Tail(@)]
  OBVIOUS
<1>11. z = [f EXCEPT !.timers = <<>>] /\ e.timers = ts
  BY <1>1, <1>8, <1>9, <1>10 DEF Registers
<1>12. g \in IF o1.fn = "on" THEN F!SelectDrive(z) ELSE F!Transfer(z)
  <2>1. ~(Head(e.timers).left > 0) /\ e.timers # <<>>
    BY <1>6, <1>8, <1>11
  <2> QED BY <1>8, <1>10, <1>11, <2>1 DEF F!Ring
<1>13. /\ DOMAIN z = Registers /\ SameMotors(f, z) /\ z.queue = f.queue /\ z.drive = f.drive
       /\ z.selected = f.selected /\ z.freed = f.freed /\ z.timers = <<>>
       /\ z.reset = f.reset /\ z.recalibrate = f.recalibrate /\ z.seek = f.seek
       /\ z.do = f.do /\ z.busy = f.busy /\ z.wrong = f.wrong
       /\ z.track = f.track /\ z.seek_track = f.seek_track /\ z.head = f.head
  BY <1>1, <1>11 DEF Registers, SameMotors
<1>14. DriverTypes(z)
  BY <1>13 DEF DriverInv, DriverRest, DriverTypes, SameMotors
<1>15. Between(z)
  BY <1>1, <1>13, <1>14
     DEF DriverInv, DriverRest, Between, DrivesUsed, MotorsCount, SameMotors, Queued
<1>16. Queued(z) /\ (z.seek \/ OnTrack(z)) /\ (z.seek \/ HeadsFound(z))
  <2>1. Queued(f) /\ (f.seek \/ OnTrack(f))
    BY <1>3 DEF TimerWaits
  <2>2. f.seek \/ f.recalibrate \/ f.reset \/ Settled(f)
    BY <1>1, FloppyNumbers DEF DriverInv, DriverRest
  <2> QED BY <1>13, <2>1, <2>2 DEF Queued, OnTrack, HeadsFound, Settled
<1>17. PICK a, b, x1 : /\ a = f.mon[f.drive] /\ b = f.moff[f.drive]
                       /\ x1 = f.spun[f.drive]
  OBVIOUS
<1>18. a \in 0..SPINUP /\ b \in 0..LONG /\ x1 \in 0..SPINUP
  BY <1>17 DEF DriverInv, DriverRest, DriverTypes
<1>19. a = z.mon[z.drive] /\ b = z.moff[z.drive] /\ x1 = z.spun[z.drive]
  BY <1>13, <1>17 DEF SameMotors
<1>20. CASE k.fn = "on"
  <2>1. f.drive \in f.motors /\ a >= 1 /\ x1 + 1 >= SPINUP
    BY <1>3, <1>4, <1>17, <1>20 DEF TimerWaits
  <2>2. AtSpeed(z)
    BY <1>13, <1>18, <1>19, <2>1, FloppyNumbers DEF AtSpeed, SameMotors
  <2>3. a > 0
    BY <1>18, <2>1, FloppyNumbers
  <2>4. g \in F!SelectDrive(z)
    BY <1>6, <1>12, <1>20
  <2>5. z.do = NULL /\ (z.mon[z.drive] > 0 \/ z.moff[z.drive] > 1)
    BY <1>1, <1>13, <1>19, <2>3
  <2>6. /\ DriverInv(g) /\ g.selected /\ g.freed = z.freed /\ g.drive = z.drive
        /\ g.motors = z.motors /\ g.mon = z.mon /\ g.moff = z.moff /\ g.spun = z.spun
        /\ g.queue = z.queue
        /\ g.timers = <<>> \/ g.timers = <<[left |-> 2, fn |-> "transfer", due |-> 2]>>
    BY <1>15, <1>16, <2>2, <2>4, <2>5, SelectIsRight
  <2> QED BY <1>13, <1>19, <2>3, <2>6 DEF SameMotors
<1>21. CASE k.fn = "transfer"
  <2>1. Selected(f) /\ AtSpeed(f) /\ (a > 0 \/ b >= 1)
    BY <1>3, <1>4, <1>17, <1>21 DEF TimerWaits
  <2>2. Selected(z) /\ AtSpeed(z)
    BY <1>13, <2>1 DEF Selected, AtSpeed, SameMotors
  <2>3. a > 0 \/ b > 0
    BY <1>18, <2>1, FloppyNumbers
  <2>4. g \in F!Transfer(z)
    BY <1>6, <1>12, <1>21
  <2>5. DriverInv(g) /\ Commanded(z, g)
    BY <1>15, <1>16, <2>2, <2>4, TransferIsRight
  <2> QED BY <1>13, <1>19, <2>3, <2>5 DEF Commanded, SameMotors
<1> QED BY <1>3, <1>20, <1>21

-----------------------------------------------------------------------------
\* ticks_to_floppy_on(), called by a task: the driver does not mind.
LEMMA TaskStartsMotor ==
  ASSUME NEW f, DriverInv(f), NEW d \in Drive, NEW g, g = F!MotorOn(f, d)
  PROVE  /\ DriverInv(g) /\ g.selected = f.selected /\ g.freed = f.freed
         /\ \A e \in Drive : f.mon[e] > 0 => g.mon[e] > 0
<1>1. DriverTypes(f) /\ MotorsCount(f)
  BY DEF DriverInv, DriverRest
<1>2. /\ DriverTypes(g) /\ SameWork(f, g) /\ MotorsCount(g)
      /\ d \in g.motors /\ f.motors \subseteq g.motors /\ g.moff[d] = LONG
      /\ g.dor = IF f.selected THEN f.dor ELSE d
      /\ \A e \in Drive : e # d => g.moff[e] = f.moff[e]
      /\ \A e \in f.motors : g.spun[e] = f.spun[e] /\ g.mon[e] >= f.mon[e]
  BY <1>1, MotorIsOn
<1>3. /\ Queued(f) => Queued(g)
      /\ Selected(f) => Selected(g)
      /\ AtSpeed(f) => AtSpeed(g)
      /\ OnTrack(f) => OnTrack(g)
      /\ Settled(f) => Settled(g)
      /\ DrivesUsed(f) => DrivesUsed(g)
  BY <1>2 DEF Queued, Selected, AtSpeed, OnTrack, Settled, SameWork, DrivesUsed
<1>4. ASSUME NEW e \in Drive, f.mon[e] > 0 PROVE g.mon[e] > 0
  <2>1. e \in f.motors
    BY <1>1, <1>4 DEF MotorsCount
  <2>2. g.mon[e] >= f.mon[e]
    BY <1>2, <2>1
  <2>3. f.mon[e] \in Int /\ g.mon[e] \in Int
    BY <1>1, <1>2, FloppyNumbers DEF DriverTypes
  <2> QED BY <1>4, <2>2, <2>3
<1>5. DriverRest(g)
  BY <1>2, <1>3 DEF DriverInv, DriverRest, SameWork
<1>6. ASSUME f.timers # <<>> PROVE TimerWaits(g, g.timers[1])
  <2>1. PICK k : k = f.timers[1]
    OBVIOUS
  <2>2. g.timers[1] = k /\ g.drive = f.drive /\ g.seek = f.seek
    BY <1>2, <2>1 DEF SameWork
  <2>3. TimerWaits(f, k) /\ k.left \in Nat
    BY <1>6, <2>1 DEF DriverInv, TimerWaits, F!Timer
  <2>4. PICK a, b, a1, b1 : /\ a = f.mon[f.drive] /\ b = f.moff[f.drive]
                            /\ a1 = g.mon[f.drive] /\ b1 = g.moff[f.drive]
    OBVIOUS
  <2>5. f.drive \in Drive /\ a \in 0..SPINUP /\ b \in 0..LONG /\ a1 \in 0..SPINUP
        /\ b1 \in 0..LONG
    BY <1>1, <1>2, <2>4 DEF DriverTypes
  <2>6. a > 0 => a1 > 0
    BY <1>4, <2>4, <2>5
  <2>7. b1 >= b
    BY <1>2, <2>4, <2>5, FloppyNumbers
  <2>8. f.drive \in f.motors => /\ f.drive \in g.motors /\ a1 >= a
                                /\ g.spun[f.drive] = f.spun[f.drive]
    BY <1>2, <2>4
  <2>9. PICK n : n = k.left
    OBVIOUS
  <2>10. (a >= n => (f.drive \in f.motors => a1 >= n)) /\ (b >= n => b1 >= n)
    BY <2>3, <2>5, <2>7, <2>8, <2>9, FloppyNumbers
  <2> QED BY <1>3, <2>2, <2>3, <2>4, <2>6, <2>8, <2>9, <2>10 DEF TimerWaits
<1> QED BY <1>2, <1>4, <1>5, <1>6 DEF DriverInv, SameWork

\* floppy_off(), called by a task.
LEMMA TaskLeavesMotor ==
  ASSUME NEW f, DriverInv(f), NEW d \in Drive, NEW g, g = F!MotorOff(f, d)
  PROVE  DriverInv(g) /\ g.selected = f.selected /\ g.freed = f.freed /\ g.mon = f.mon
<1>1. DriverTypes(f) /\ MotorsCount(f)
  BY DEF DriverInv, DriverRest
<1>2. /\ DriverTypes(g) /\ SameWork(f, g) /\ MotorsCount(g)
      /\ g.dor = f.dor /\ g.motors = f.motors /\ g.mon = f.mon /\ g.spun = f.spun
      /\ \A e \in Drive : g.moff[e] = f.moff[e] \/ g.moff[e] = SHORT
  BY <1>1, MotorIsLeft
<1>3. /\ Queued(f) => Queued(g)
      /\ Selected(f) => Selected(g)
      /\ AtSpeed(f) => AtSpeed(g)
      /\ OnTrack(f) => OnTrack(g)
      /\ Settled(f) => Settled(g)
      /\ DrivesUsed(f) => DrivesUsed(g)
  BY <1>2 DEF Queued, Selected, AtSpeed, OnTrack, Settled, SameWork, DrivesUsed
<1>5. DriverRest(g)
  BY <1>2, <1>3 DEF DriverInv, DriverRest, SameWork
<1>6. ASSUME f.timers # <<>> PROVE TimerWaits(g, g.timers[1])
  <2>1. PICK k : k = f.timers[1]
    OBVIOUS
  <2>2. g.timers[1] = k /\ g.drive = f.drive /\ g.seek = f.seek
    BY <1>2, <2>1 DEF SameWork
  <2>3. TimerWaits(f, k) /\ k.left \in Nat
    BY <1>6, <2>1 DEF DriverInv, TimerWaits, F!Timer
  <2>4. PICK n, b, b1 : n = k.left /\ b = f.moff[f.drive] /\ b1 = g.moff[f.drive]
    OBVIOUS
  <2>5. f.drive \in Drive /\ b \in 0..LONG
    BY <1>1, <2>4 DEF DriverTypes
  <2>6. b1 = b \/ b1 = SHORT
    BY <1>2, <2>4, <2>5
  <2>7. n \in 1..2 /\ b >= n => b1 >= n
    BY <2>5, <2>6, FloppyNumbers
  <2> QED BY <1>2, <1>3, <2>2, <2>3, <2>4, <2>7 DEF TimerWaits
<1> QED BY <1>2, <1>5, <1>6 DEF DriverInv, SameWork

\* The selection that was given up is made known.
LEMMA FreedIsTold ==
  ASSUME NEW f, DriverInv(f), NEW g, g = [f EXCEPT !.freed = FALSE]
  PROVE  DriverInv(g) /\ g.freed = FALSE /\ g.selected = f.selected /\ g.mon = f.mon
<1>1. DOMAIN f = Registers
  BY DEF DriverInv, DriverRest, DriverTypes
<1>2. /\ DOMAIN g = Registers /\ SameMotors(f, g) /\ g.queue = f.queue /\ g.drive = f.drive
      /\ g.selected = f.selected /\ g.freed = FALSE /\ g.timers = f.timers
      /\ g.reset = f.reset /\ g.recalibrate = f.recalibrate /\ g.seek = f.seek
      /\ g.do = f.do /\ g.busy = f.busy /\ g.wrong = f.wrong
      /\ g.track = f.track /\ g.seek_track = f.seek_track /\ g.head = f.head
  BY <1>1 DEF Registers, SameMotors
<1>3. /\ Queued(f) => Queued(g)
      /\ Selected(f) => Selected(g)
      /\ AtSpeed(f) => AtSpeed(g)
      /\ OnTrack(f) => OnTrack(g)
      /\ Settled(f) => Settled(g)
  BY <1>2 DEF Queued, Selected, AtSpeed, OnTrack, Settled, SameMotors
<1>4. DriverTypes(g)
  BY <1>2 DEF DriverInv, DriverRest, DriverTypes, SameMotors
<1>5. DrivesUsed(g) /\ MotorsCount(g)
  BY <1>2 DEF DriverInv, DriverRest, DrivesUsed, MotorsCount, SameMotors
<1>6. TimerWaits(f, f.timers[1]) => TimerWaits(g, g.timers[1])
  BY <1>2, <1>3 DEF TimerWaits, SameMotors
<1>7. DriverRest(g)
  BY <1>2, <1>3, <1>4, <1>5 DEF DriverInv, DriverRest
<1> QED BY <1>2, <1>6, <1>7 DEF DriverInv, SameMotors

-----------------------------------------------------------------------------
\* Where tasks are in floppy_change().
ChangePlace == {"idle", "on", "to_motor", "motor", "check", "to_select", "select"}

\* What a task sleeps for at a place, or is about to, is still to come.
Hope(place, f, d) ==
    /\ place \in {"to_select", "select"} => f.selected
    /\ place \in {"to_motor", "motor"} => f.mon[d] > 0

\* Tasks sleep, or are about to, for the selection while there is one, and for
\* motors that start, unless an interrupt comes before they sleep.
FloppyInv ==
    /\ on \in FloppyRegimes
    /\ DriverInv(fd) /\ fd.freed = FALSE
    /\ pc \in [Changer -> ChangePlace]
    /\ nr \in [Changer -> Drive]
    /\ "late_sleep" \notin on => \A t \in Changer : Hope(pc[t], fd, nr[t])

\* The driver after a step, in the step's terms.
LEMMA DriverInvNext ==
  ASSUME DriverInv(fd'), on' = on
  PROVE  DriverInv(fd)'
  BY DEF DriverInv, DriverRest, DriverTypes, DrivesUsed, MotorsCount, Queued, Selected, AtSpeed,
     OnTrack, Settled, TimerWaits, Registers, F!Timer, F!Request

\* The driver's own steps.
LEMMA DriverBecomes ==
  ASSUME FloppyInv, NEW g, DriverInv(g), fd.selected => g.selected \/ g.freed,
         F!Become(g, pc), nr' = nr, F!MayInterrupt
  PROVE  FloppyInv'
<1>1. /\ fd' = [g EXCEPT !.freed = FALSE] /\ on' = on
      /\ pc' = [t \in Changer |->
                  IF pc[t] = "select" /\ g.freed THEN "check"
                  ELSE IF pc[t] = "motor" /\ fd.mon[nr[t]] > 0 /\ g.mon[nr[t]] = 0
                  THEN "on" ELSE pc[t]]
  BY DEF F!Become
<1>2. PICK h : h = [g EXCEPT !.freed = FALSE]
  OBVIOUS
<1>3. DriverInv(h) /\ h.freed = FALSE /\ h.selected = g.selected /\ h.mon = g.mon
  BY <1>2, FreedIsTold
<1>4. fd' = h
  BY <1>1, <1>2
<1>5. DriverInv(fd)'
  BY <1>1, <1>3, <1>4, DriverInvNext
<1>6. pc' \in [Changer -> ChangePlace]
  BY <1>1 DEF FloppyInv, ChangePlace
<1>7. ASSUME NEW t \in Changer, "late_sleep" \notin on
      PROVE  Hope(pc'[t], fd', nr'[t])
  <2>5. pc[t] \notin {"to_motor", "to_select"}
    BY <1>7 DEF F!MayInterrupt, F!AboutToSleep
  <2>1. pc'[t] = IF pc[t] = "select" /\ g.freed THEN "check"
                 ELSE IF pc[t] = "motor" /\ fd.mon[nr[t]] > 0 /\ g.mon[nr[t]] = 0
                 THEN "on" ELSE pc[t]
    BY <1>1
  <2>2. /\ pc[t] = "select" => fd.selected
        /\ pc[t] = "motor" => fd.mon[nr[t]] > 0
        /\ nr[t] \in Drive
    <3>1. Hope(pc[t], fd, nr[t]) /\ nr[t] \in Drive
      BY <1>7 DEF FloppyInv
    <3> QED BY <3>1 DEF Hope
  <2>3. g.mon[nr[t]] \in 0..SPINUP
    BY <2>2 DEF DriverInv, DriverRest, DriverTypes
  <2>4. g.mon[nr[t]] # 0 => g.mon[nr[t]] > 0
    BY <2>3, FloppyNumbers
  <2> QED BY <1>3, <1>4, <2>1, <2>2, <2>4, <2>5 DEF Hope
<1> QED BY <1>1, <1>3, <1>4, <1>5, <1>6, <1>7 DEF FloppyInv

-----------------------------------------------------------------------------
\* add_request()
LEMMA MakeRequestKeeps ==
  ASSUME FloppyIsTame, FloppyInv, F!MakeRequest
  PROVE  FloppyInv'
<1>10. PICK d \in F!Used, k \in Track \cup (IF "beyond" \in on THEN {BEYOND} ELSE {}) :
         LET r == [drive |-> d, track |-> k, errors |-> 0]
         IN  IF fd.queue = <<>>
             THEN \E g \in F!DoRequest([fd EXCEPT !.queue = <<r>>]) : F!Become(g, pc)
             ELSE \E j \in 2..(Len(fd.queue) + 1) :
                     F!Become([fd EXCEPT !.queue = F!InsertAt(@, j, r)], pc)
  BY DEF F!MakeRequest
<1>11. PICK r : r = [drive |-> d, track |-> k, errors |-> 0]
  OBVIOUS
<1>1. IF fd.queue = <<>>
      THEN \E g \in F!DoRequest([fd EXCEPT !.queue = <<r>>]) : F!Become(g, pc)
      ELSE \E j \in 2..(Len(fd.queue) + 1) :
              F!Become([fd EXCEPT !.queue = F!InsertAt(@, j, r)], pc)
  BY <1>10, <1>11
<1>2. /\ "late_request" \in on \/ fd.queue # <<>> \/ fd.busy = NULL
      /\ nr' = nr
  BY DEF F!MakeRequest
<1>3. "late_request" \notin on /\ ~({"beyond", "two_drives"} \subseteq on)
  BY DEF FloppyIsTame, FloppyInv
<1>4. d \in Drive /\ ("two_drives" \notin on => d = 0)
  BY <1>10, FloppyNumbers DEF F!Used
<1>5. k \in Track \cup {BEYOND} /\ ("two_drives" \in on => k # BEYOND)
  BY <1>10, <1>3, FloppyNumbers
<1>6. /\ r \in F!Request
      /\ "two_drives" \notin on => r.drive = 0
      /\ "two_drives" \in on => r.track # BEYOND
  BY <1>11, <1>4, <1>5 DEF F!Request
<1>7. DriverInv(fd) /\ F!MayInterrupt
  BY DEF FloppyInv, F!MakeRequest, F!MayInterrupt
<1>8. CASE fd.queue = <<>>
  <2>1. PICK g \in F!DoRequest([fd EXCEPT !.queue = <<r>>]) : F!Become(g, pc)
    BY <1>1, <1>8
  <2>2. DriverInv(g) /\ ~fd.selected
    <3>1. fd.busy = NULL
      BY <1>2, <1>3, <1>8
    <3>2. PICK f : f = fd
      OBVIOUS
    <3>3. g \in F!DoRequest([f EXCEPT !.queue = <<r>>]) /\ DriverInv(f) /\ f.queue = <<>>
          /\ f.busy = NULL
      BY <1>7, <1>8, <2>1, <3>1, <3>2
    <3>4. DriverInv(g) /\ ~f.selected
      BY <1>6, <3>3, FirstRequestIsRight
    <3> QED BY <3>2, <3>4
  <2> QED BY <1>2, <1>7, <2>1, <2>2, DriverBecomes
<1>9. CASE fd.queue # <<>>
  <2>1. PICK j \in 2..(Len(fd.queue) + 1) :
          F!Become([fd EXCEPT !.queue = F!InsertAt(@, j, r)], pc)
    BY <1>1, <1>9
  <2>2. PICK g : g = [fd EXCEPT !.queue = F!InsertAt(@, j, r)]
    OBVIOUS
  <2>3. DriverInv(g) /\ g.selected = fd.selected
    BY <1>6, <1>7, <1>9, <2>2, LaterRequestIsRight
  <2>4. F!Become(g, pc)
    BY <2>1, <2>2
  <2> QED BY <1>2, <1>7, <2>3, <2>4, DriverBecomes
<1> QED BY <1>8, <1>9

\* Interrupts, those that are waited for and others.
LEMMA InterruptsKeep ==
  ASSUME FloppyInv, F!Interrupt \/ F!StrayInterrupt
  PROVE  FloppyInv'
<1>1. DriverInv(fd) /\ nr' = nr /\ F!MayInterrupt
  BY DEF FloppyInv, F!Interrupt, F!StrayInterrupt
<1>2. CASE F!Interrupt
  <2>1. fd.busy # NULL
    BY <1>2 DEF F!Interrupt
  <2>2. PICK g \in F!Handle([fd EXCEPT !.busy = NULL], fd.busy) : F!Become(g, pc)
    BY <1>2 DEF F!Interrupt
  <2>3. DriverInv(g) /\ (fd.selected => g.selected \/ g.freed)
    BY <1>1, <2>1, <2>2, HandleIsRight
  <2> QED BY <1>1, <2>2, <2>3, DriverBecomes
<1>3. CASE F!StrayInterrupt
  <2>1. fd.busy = NULL
    BY <1>3 DEF F!StrayInterrupt
  <2>2. PICK g \in F!Handle(fd, NULL) : F!Become(g, pc)
    BY <1>3 DEF F!StrayInterrupt
  <2>3. DriverInv(g) /\ g.selected = fd.selected
    BY <1>1, <2>1, <2>2, UnexpectedIsRight
  <2> QED BY <1>1, <2>2, <2>3, DriverBecomes
<1> QED BY <1>2, <1>3

\* do_timer()
LEMMA TickKeeps ==
  ASSUME FloppyInv, F!Tick
  PROVE  FloppyInv'
<1>1. nr' = nr /\ DriverInv(fd) /\ "slow" \notin on /\ fd.freed = FALSE /\ F!MayInterrupt
  BY DEF FloppyInv, F!Tick, DriverInv, DriverRest, DrivesUsed
<1>2. F!Awaited \subseteq F!MotorTick(fd).motors
  BY <1>1 DEF F!Tick
<1>3. fd.busy # NULL /\ fd.drive \in fd.motors => fd.drive \in F!MotorTick(fd).motors
  BY <1>2 DEF F!Awaited
<1>4. PICK g \in F!Ring([fd EXCEPT !.timers = AgedTimers(fd)]) :
        \E h \in F!Ring(g) : F!Become(F!MotorTick(h), pc)
  BY DEF F!Tick, AgedTimers
<1>5. PICK h \in F!Ring(g) : F!Become(F!MotorTick(h), pc)
  BY <1>4
<1>6. PICK k : k = F!MotorTick(h)
  OBVIOUS
<1>7. PICK e : e = [fd EXCEPT !.timers = AgedTimers(fd)]
  OBVIOUS
<1>8. g \in F!Ring(e)
  BY <1>4, <1>7
<1>9. DriverInv(k) /\ (fd.selected => k.selected)
  <2>1. CASE fd.timers = <<>>
    BY <1>1, <1>3, <1>4, <1>5, <1>6, <2>1, NoTimerRings
  <2>2. CASE fd.timers # <<>> /\ fd.timers[1].left > 1
    <3>1. /\ DriverRest(e) /\ Len(e.timers) = 1 /\ WaitsLonger(e, e.timers[1])
          /\ e.busy = NULL
          /\ e.selected = fd.selected /\ e.freed = fd.freed
          /\ e.timers # <<>> /\ Head(e.timers).left > 0
      BY <1>1, <1>7, <2>2, TimerWaitsOn
    <3>2. g = e
      BY <1>8, <3>1 DEF F!Ring
    <3>3. h = e
      BY <1>5, <3>1, <3>2 DEF F!Ring
    <3>4. e.busy \notin {"rw", "seek"}
      BY <3>1, FloppyNumbers
    <3>5. DriverInv(k) /\ k.selected = e.selected
      BY <1>6, <3>1, <3>3, <3>4, TickIsRight
    <3> QED BY <3>1, <3>5
  <2>3. CASE fd.timers # <<>> /\ ~(fd.timers[1].left > 1)
    <3>1. /\ DriverInv(g) /\ (fd.selected => g.selected)
          /\ g.mon[g.drive] > 0 \/ (g.timers = <<>> /\ g.moff[g.drive] > 0)
          /\ g.timers = <<>> \/ g.timers = <<[left |-> 2, fn |-> "transfer", due |-> 2]>>
      BY <1>1, <1>7, <1>8, <2>3, TimerRings
    <3>2. h = g
      <4>1. CASE g.timers = <<>>
        BY <1>5, <4>1 DEF F!Ring
      <4>2. CASE g.timers = <<[left |-> 2, fn |-> "transfer", due |-> 2]>>
        <5>1. g.timers # <<>> /\ Head(g.timers).left > 0
          BY <4>2
        <5> QED BY <1>5, <5>1 DEF F!Ring
      <4> QED BY <3>1, <4>1, <4>2
    <3>3. DriverRest(g)
      BY <3>1 DEF DriverInv
    <3>4. \/ g.timers = <<>>
          \/ Len(g.timers) = 1 /\ WaitsLonger(g, g.timers[1]) /\ g.busy = NULL
      <4>1. SUFFICES ASSUME g.timers # <<>>
                     PROVE  Len(g.timers) = 1 /\ WaitsLonger(g, g.timers[1]) /\ g.busy = NULL
        OBVIOUS
      <4>2. g.mon[g.drive] > 0
        BY <3>1, <4>1
      <4>3. g.timers[1].fn = "transfer" /\ g.timers[1].left = 2
        BY <3>1, <4>1
      <4>4. Len(g.timers) = 1 /\ TimerWaits(g, g.timers[1]) /\ g.busy = NULL
        BY <3>1, <4>1 DEF DriverInv
      <4> QED BY <4>2, <4>3, <4>4 DEF WaitsLonger, TimerWaits
    <3>5. g.mon[g.drive] > 0 \/ g.moff[g.drive] > 0
      BY <3>1
    <3>6. DriverInv(k) /\ k.selected = g.selected
      BY <1>6, <3>2, <3>3, <3>4, <3>5, TickIsRight
    <3> QED BY <3>1, <3>6
  <2> QED BY <2>1, <2>2, <2>3
<1>10. F!Become(k, pc)
  BY <1>5, <1>6
<1> QED BY <1>1, <1>9, <1>10, DriverBecomes

\* floppy_change()
LEMMA ChangesKeep ==
  ASSUME FloppyInv, NEW t \in Changer, F!BeginChange(t) \/ F!FloppyOn(t) \/ F!Check(t) \/ F!FallAsleep(t)
  PROVE  FloppyInv'
<1>1. /\ DriverInv(fd) /\ fd.freed = FALSE /\ on' = on
      /\ pc \in [Changer -> ChangePlace]
      /\ nr \in [Changer -> Drive]
  BY DEF FloppyInv, F!BeginChange, F!FloppyOn, F!Check, F!FallAsleep
<1>2. ASSUME DriverInv(fd'), fd'.freed = FALSE,
             pc' \in [Changer -> ChangePlace],
             nr' \in [Changer -> Drive],
             "late_sleep" \notin on =>
               \A x1 \in Changer : Hope(pc'[x1], fd', nr'[x1])
      PROVE  FloppyInv'
  <2>1. DriverInv(fd)'
    BY <1>1, <1>2, DriverInvNext
  <2> QED BY <1>1, <1>2, <2>1 DEF FloppyInv
<1>8. "late_sleep" \notin on => \A x1 \in Changer : Hope(pc[x1], fd, nr[x1])
  BY DEF FloppyInv
<1>3. CASE F!BeginChange(t)
  <2>1. PICK d \in F!Used : nr' = [nr EXCEPT ![t] = d]
    BY <1>3 DEF F!BeginChange
  <2>2. d \in Drive
    BY FloppyNumbers DEF F!Used
  <2>3. pc' = [pc EXCEPT ![t] = "on"] /\ fd' = fd
    BY <1>3 DEF F!BeginChange
  <2>4. /\ pc' \in [Changer -> ChangePlace]
        /\ nr' \in [Changer -> Drive]
    BY <1>1, <2>1, <2>2, <2>3 DEF ChangePlace
  <2>5. ASSUME NEW x1 \in Changer, "late_sleep" \notin on
        PROVE  Hope(pc'[x1], fd', nr'[x1])
    <3>1. CASE x1 = t
      BY <1>1, <2>3, <3>1 DEF Hope
    <3>2. CASE x1 # t
      <4>1. pc'[x1] = pc[x1] /\ nr'[x1] = nr[x1] /\ fd' = fd
        BY <1>1, <2>1, <2>3, <3>2
      <4> QED BY <1>8, <2>5, <4>1
    <3> QED BY <3>1, <3>2
  <2>6. DriverInv(fd') /\ fd'.freed = FALSE
    BY <1>1, <2>3
  <2> QED BY <1>2, <2>4, <2>5, <2>6
<1>4. CASE F!FloppyOn(t)
  <2>1. PICK d, g : d = nr[t] /\ g = F!MotorOn(fd, d)
    <3>1. PICK d : d = nr[t]
      OBVIOUS
    <3> QED BY <3>1
  <2>2. /\ fd' = g /\ nr' = nr
        /\ pc' = [pc EXCEPT ![t] = IF g.mon[nr[t]] > 0 THEN "to_motor" ELSE "check"]
    BY <1>4, <2>1 DEF F!FloppyOn
  <2>3. d \in Drive
    BY <1>1, <2>1
  <2>4. /\ DriverInv(g) /\ g.selected = fd.selected /\ g.freed = fd.freed
        /\ \A e \in Drive : fd.mon[e] > 0 => g.mon[e] > 0
    BY <1>1, <2>1, <2>3, TaskStartsMotor
  <2>5. pc' \in [Changer -> ChangePlace]
    BY <1>1, <2>2 DEF ChangePlace
  <2>6. ASSUME NEW x1 \in Changer, "late_sleep" \notin on
        PROVE  Hope(pc'[x1], fd', nr'[x1])
    <3>1. CASE x1 = t
      <4>1. /\ pc'[x1] = (IF g.mon[nr[t]] > 0 THEN "to_motor" ELSE "check")
            /\ nr'[x1] = nr[t] /\ fd' = g
        BY <1>1, <2>2, <3>1
      <4> QED BY <4>1 DEF Hope
    <3>2. CASE x1 # t
      <4>1. pc'[x1] = pc[x1] /\ nr[x1] \in Drive /\ nr'[x1] = nr[x1] /\ fd' = g
        BY <1>1, <2>2, <3>2
      <4>2. Hope(pc[x1], fd, nr[x1])
        BY <1>8, <2>6
      <4> QED BY <2>4, <4>1, <4>2 DEF Hope
    <3> QED BY <3>1, <3>2
  <2>7. DriverInv(fd') /\ fd'.freed = FALSE /\ nr' \in [Changer -> Drive]
    BY <1>1, <2>2, <2>4
  <2> QED BY <1>2, <2>5, <2>6, <2>7
<1>5. CASE F!Check(t) /\ fd' = fd
  <2>1. /\ nr' = nr
        /\ \/ pc' = [pc EXCEPT ![t] = "to_select"] /\ fd.selected
           \/ pc' = [pc EXCEPT ![t] = "on"] \/ pc' = [pc EXCEPT ![t] = "idle"]
    BY <1>5 DEF F!Check
  <2>2. pc' \in [Changer -> ChangePlace]
    BY <1>1, <2>1 DEF ChangePlace
  <2>3. ASSUME NEW x1 \in Changer, "late_sleep" \notin on
        PROVE  Hope(pc'[x1], fd', nr'[x1])
    <3>1. CASE x1 = t
      <4>1. nr'[x1] = nr[x1] /\ fd' = fd
        BY <1>5, <2>1
      <4>2. \/ pc'[x1] = "to_select" /\ fd.selected
            \/ pc'[x1] \in {"on", "idle"}
        BY <1>1, <2>1, <3>1
      <4> QED BY <4>1, <4>2 DEF Hope
    <3>2. CASE x1 # t
      <4>1. pc'[x1] = pc[x1] /\ nr'[x1] = nr[x1] /\ fd' = fd
        BY <1>1, <1>5, <2>1, <3>2
      <4> QED BY <1>8, <2>3, <4>1
    <3> QED BY <3>1, <3>2
  <2>4. DriverInv(fd') /\ fd'.freed = FALSE /\ nr' \in [Changer -> Drive]
    BY <1>1, <1>5, <2>1
  <2> QED BY <1>2, <2>2, <2>3, <2>4
<1>6. CASE F!Check(t) /\ fd' = F!MotorOff(fd, nr[t]) /\ pc' = [pc EXCEPT ![t] = "idle"]
  <2>1. nr' = nr
    BY <1>6 DEF F!Check
  <2>2. PICK d, g : d = nr[t] /\ g = F!MotorOff(fd, d)
    <3>1. PICK d : d = nr[t]
      OBVIOUS
    <3> QED BY <3>1
  <2>3. d \in Drive /\ fd' = g
    BY <1>1, <1>6, <2>2
  <2>4. /\ DriverInv(g) /\ g.selected = fd.selected /\ g.freed = fd.freed
        /\ g.mon = fd.mon
    BY <1>1, <2>2, <2>3, TaskLeavesMotor
  <2>5. pc' \in [Changer -> ChangePlace]
    BY <1>1, <1>6 DEF ChangePlace
  <2>6. ASSUME NEW x1 \in Changer, "late_sleep" \notin on
        PROVE  Hope(pc'[x1], fd', nr'[x1])
    <3>1. CASE x1 = t
      BY <1>1, <1>6, <3>1 DEF Hope
    <3>2. CASE x1 # t
      <4>1. pc'[x1] = pc[x1] /\ nr'[x1] = nr[x1] /\ fd' = g
        BY <1>1, <1>6, <2>1, <2>3, <3>2
      <4>2. Hope(pc[x1], fd, nr[x1])
        BY <1>8, <2>6
      <4> QED BY <2>4, <4>1, <4>2 DEF Hope
    <3> QED BY <3>1, <3>2
  <2>7. DriverInv(fd') /\ fd'.freed = FALSE /\ nr' \in [Changer -> Drive]
    BY <1>1, <2>1, <2>3, <2>4
  <2> QED BY <1>2, <2>5, <2>6, <2>7
<1>7. CASE F!FallAsleep(t)
  <2>1. /\ pc[t] \in {"to_motor", "to_select"} /\ fd' = fd /\ nr' = nr
        /\ pc' = [pc EXCEPT ![t] = IF pc[t] = "to_motor" THEN "motor" ELSE "select"]
    BY <1>7 DEF F!FallAsleep, F!AboutToSleep
  <2>2. pc' \in [Changer -> ChangePlace]
    BY <1>1, <2>1 DEF ChangePlace
  <2>3. ASSUME NEW x1 \in Changer, "late_sleep" \notin on
        PROVE  Hope(pc'[x1], fd', nr'[x1])
    <3>1. Hope(pc[x1], fd, nr[x1]) /\ nr'[x1] = nr[x1] /\ fd' = fd
      BY <1>8, <2>1, <2>3
    <3>2. CASE x1 = t
      <4>1. \/ pc[x1] = "to_motor" /\ pc'[x1] = "motor"
            \/ pc[x1] = "to_select" /\ pc'[x1] = "select"
        BY <1>1, <2>1, <3>2
      <4> QED BY <3>1, <4>1 DEF Hope
    <3>3. CASE x1 # t
      <4>1. pc'[x1] = pc[x1]
        BY <1>1, <2>1, <3>3
      <4> QED BY <3>1, <4>1
    <3> QED BY <3>2, <3>3
  <2>4. DriverInv(fd') /\ fd'.freed = FALSE /\ nr' \in [Changer -> Drive]
    BY <1>1, <2>1
  <2> QED BY <1>2, <2>2, <2>3, <2>4
<1> QED BY <1>3, <1>4, <1>5, <1>6, <1>7 DEF F!Check

-----------------------------------------------------------------------------
FloppyStart == part = "floppy" => FloppyInv

\* The driver before its first request.
LEMMA FloppyBegins ==
  ASSUME FloppyIsTame, F!Init
  PROVE  FloppyInv
<1>1. /\ on \in FloppyRegimes /\ pc = [t \in Changer |-> "idle"]
      /\ nr = [t \in Changer |-> 0]
  BY DEF F!Init
<1>2. PICK mon, moff, spun, hd :
        /\ mon = [d \in Drive |-> 0] /\ moff = [d \in Drive |-> 0]
        /\ spun = [d \in Drive |-> 0] /\ hd = [d \in Drive |-> 0]
  OBVIOUS
<1>3. /\ mon \in [Drive -> 0..SPINUP] /\ moff \in [Drive -> 0..LONG]
      /\ spun \in [Drive -> 0..SPINUP] /\ hd \in [Drive -> Track]
      /\ \A d \in Drive : mon[d] = 0
  BY <1>2, FloppyNumbers
<1>4. fd = [queue |-> <<>>, timers |-> <<>>,
            reset |-> FALSE, recalibrate |-> FALSE, seek |-> FALSE,
            selected |-> FALSE, dor |-> 0, motors |-> {},
            mon |-> mon, moff |-> moff,
            drive |-> 0, track |-> NULL, seek_track |-> 0,
            do |-> NULL, busy |-> NULL,
            head |-> hd, spun |-> spun, freed |-> FALSE, wrong |-> {}]
  BY <1>2 DEF F!Init
<1>5. /\ DOMAIN fd = Registers /\ fd.queue = <<>> /\ fd.timers = <<>>
      /\ fd.reset = FALSE /\ fd.recalibrate = FALSE /\ fd.seek = FALSE
      /\ fd.selected = FALSE /\ fd.dor = 0 /\ fd.motors = {}
      /\ fd.mon = mon /\ fd.moff = moff /\ fd.drive = 0 /\ fd.track = NULL
      /\ fd.seek_track = 0 /\ fd.do = NULL /\ fd.busy = NULL /\ fd.head = hd
      /\ fd.spun = spun /\ fd.freed = FALSE /\ fd.wrong = {}
  BY <1>4 DEF Registers
<1>6. DriverTypes(fd)
  <2>1. <<>> \in Seq(F!Request)
    OBVIOUS
  <2>2. fd.queue \in Seq(F!Request) /\ fd.motors \in SUBSET Drive
    BY <1>5, <2>1
  <2> QED BY <1>3, <1>5, <2>2, FloppyNumbers DEF DriverTypes
<1>7. DrivesUsed(fd)
  BY <1>1, <1>5 DEF DrivesUsed, FloppyIsTame
<1>8. MotorsCount(fd)
  BY <1>3, <1>5, FloppyNumbers DEF MotorsCount
<1>9. DriverInv(fd)
  BY <1>5, <1>6, <1>7, <1>8, FloppyNumbers DEF DriverInv, DriverRest, Settled
<1> QED BY <1>1, <1>5, <1>9, FloppyNumbers DEF FloppyInv, ChangePlace, Hope

\* All steps of the driver and of the tasks that call it.
LEMMA FloppyKeeps ==
  ASSUME FloppyIsTame, FloppyInv, F!Next
  PROVE  FloppyInv'
  BY MakeRequestKeeps, InterruptsKeep, TickKeeps, ChangesKeep DEF F!Next

\* The floppy driver, in a kernel with other parts.
LEMMA FloppyInvHolds ==
  ASSUME FloppyIsTame
  PROVE  Spec => []FloppyStart
<1>1. Init => FloppyStart
  BY FloppyBegins DEF Init, FloppyStart
<1>2. FloppyStart /\ [Next]_vars => FloppyStart'
  <2> SUFFICES ASSUME FloppyStart, [Next]_vars, part' = "floppy" PROVE FloppyInv'
    BY DEF FloppyStart
  <2>1. CASE F!Next /\ part = "floppy"
    BY <2>1, FloppyKeeps DEF FloppyStart
  <2>2. CASE UNCHANGED <<part, on, pc, nr, fd>>
    <3>1. FloppyInv
      BY <2>2 DEF FloppyStart
    <3>2. DriverInv(fd') /\ on' = on
      BY <2>2, <3>1 DEF FloppyInv
    <3>3. DriverInv(fd)'
      BY <3>2, DriverInvNext
    <3> QED BY <2>2, <3>1, <3>3 DEF FloppyInv
  <2> QED BY <2>1, <2>2 DEF Next, InputStep, OutputStep, ConsoleStep, ProcessesStep,
      SchedulerStep, FloppyStep, AllWait, vars
<1> QED BY <1>1, <1>2, PTL DEF Spec

\* A transfer begins only for a request, on the drive that is selected, with its
\* motor at speed and its head on the track; and while there are requests, the
\* driver waits for an interrupt that will come, or for a timer.
THEOREM TransfersStayRight ==
  ASSUME FloppyIsTame
  PROVE  Spec => []TransfersAreRight
<1>1. FloppyStart => TransfersAreRight
  BY DEF FloppyStart, FloppyInv, DriverInv, DriverRest, TransfersAreRight,
     F!TransfersAreRight, F!DriverIsAwake
<1> QED BY <1>1, FloppyInvHolds, PTL

-----------------------------------------------------------------------------
(***************************************************************************)
(* Processes: numbers.                                                     *)
(***************************************************************************)
\* The numbers in use are fewer than there are numbers: find_empty_process()
\* finds one, and the first that it finds is free.
LEMMA FreshPidIsUnused ==
  ASSUME P!TypeOK
  PROVE  P!FreshPid \in P!Pid /\ P!Unused(P!FreshPid)
<1> DEFINE after == [k \in 1..MAXPID |-> IF last_pid + k <= MAXPID THEN last_pid + k
                                         ELSE last_pid + k - MAXPID]
           Free == {k \in 1..MAXPID : P!Unused(after[k])}
<1>1. /\ NR_TASKS \in Nat \ {0} /\ MAXPID \in Nat /\ MAXPID > NR_TASKS
      /\ last_pid \in 1..MAXPID
  BY KernelAssumption DEF P!ProcessLifeAssumption, P!TypeOK, P!Pid
<1>2. \A k \in 1..MAXPID : after[k] \in 1..MAXPID
  BY <1>1
<1>3. \A p \in 1..MAXPID : \E k \in 1..MAXPID : after[k] = p
  <2> TAKE p \in 1..MAXPID
  <2>1. CASE p > last_pid
    <3>1. p - last_pid \in 1..MAXPID /\ after[p - last_pid] = p
      BY <1>1, <2>1
    <3> QED BY <3>1
  <2>2. CASE p <= last_pid
    <3>1. p - last_pid + MAXPID \in 1..MAXPID /\ after[p - last_pid + MAXPID] = p
      BY <1>1, <2>2
    <3> QED BY <3>1
  <2> QED BY <1>1, <2>1, <2>2
<1>4. Free # {}
  <2>1. SUFFICES ASSUME \A p \in 1..MAXPID : ~P!Unused(p) PROVE FALSE
    BY <1>2, <1>3
  <2> DEFINE used == {P!PidOf(i) : i \in P!Tasks}
  <2>2. 1..MAXPID \subseteq used
    BY <2>1 DEF P!Unused
  <2>3. IsFiniteSet(P!Slot) /\ Cardinality(P!Slot) = NR_TASKS
    BY <1>1, FS_Interval DEF P!Slot
  <2>4. IsFiniteSet(P!Tasks) /\ Cardinality(P!Tasks) <= NR_TASKS
    BY <2>3, FS_Subset DEF P!Tasks
  <2>5. IsFiniteSet(used) /\ Cardinality(used) <= Cardinality(P!Tasks)
    <3> DEFINE pids == [i \in P!Tasks |-> P!PidOf(i)]
    <3>1. pids \in Surjection(P!Tasks, used)
      BY DEF Surjection
    <3> HIDE DEF pids, used
    <3> QED BY <2>4, <3>1, FS_Surjection
  <2>6. IsFiniteSet(1..MAXPID) /\ Cardinality(1..MAXPID) = MAXPID
    BY <1>1, FS_Interval
  <2>7. Cardinality(1..MAXPID) <= Cardinality(used)
    <3> HIDE DEF used
    <3> QED BY <2>2, <2>5, FS_Subset
  <2>8. Cardinality(P!Tasks) \in Nat /\ Cardinality(used) \in Nat
    BY <2>4, <2>5, FS_CardinalityType
  <2> QED BY <1>1, <2>4, <2>5, <2>6, <2>7, <2>8
<1>5. PICK m \in Free : \A n \in Free : m <= n
  <2>1. Free \in SUBSET Nat
    BY <1>1
  <2> HIDE DEF Free
  <2> QED BY <1>4, <2>1, LeastNatural
<1>6. P!Unused(after[m]) /\ \A j \in 1..(m - 1) : ~P!Unused(after[j])
  <2>1. m \in 1..MAXPID /\ P!Unused(after[m])
    BY <1>5
  <2>2. ASSUME NEW j \in 1..(m - 1), P!Unused(after[j]) PROVE FALSE
    <3>1. j \in 1..MAXPID /\ j < m
      BY <1>1, <2>1
    <3>2. j \in Free
      BY <2>2, <3>1
    <3> QED BY <1>1, <1>5, <2>1, <3>1, <3>2
  <2> QED BY <2>1, <2>2
<1> DEFINE k0 == CHOOSE k \in 1..MAXPID :
                   P!Unused(after[k]) /\ \A j \in 1..(k - 1) : ~P!Unused(after[j])
<1>7. k0 \in 1..MAXPID /\ P!Unused(after[k0])
  BY <1>6
<1>8. P!FreshPid = after[k0]
  BY DEF P!FreshPid
<1> QED BY <1>2, <1>7, <1>8 DEF P!Pid

-----------------------------------------------------------------------------
(***************************************************************************)
(* Processes: families.                                                    *)
(***************************************************************************)
\* A process that do_exit() has begun to end; one that can still wait.
Ending(r) == r.state = "zombie" \/ r.at \in {"close", "end"}

\* A zombie has left do_exit(), a process within it can be neither signalled
\* awake nor asleep.
EndsInOrder ==
    \A i \in P!Tasks : /\ task[i].state = "zombie" <=> task[i].at = "end"
                       /\ task[i].at = "close" => task[i].state = "running"

InitLives == P!InitIsFirst /\ ~Ending(task[1])

FamilyInv ==
    /\ P!TypeOK
    /\ "init_killed" \notin on
    /\ \A i \in P!Tasks : task[i].pgrp \in 0..MAXPID
    /\ P!PidsAreUnique /\ InitLives /\ EndsInOrder /\ P!FatherIsThere

\* Two states of a process with the same place in its family.
SamePlace(q, r) ==
    /\ r \in P!Process /\ r # NULL /\ r.pgrp \in 0..MAXPID
    /\ r.pid = q.pid /\ r.father = q.father /\ (Ending(r) <=> Ending(q))
    /\ r.state = "zombie" <=> r.at = "end"
    /\ r.at = "close" => r.state = "running"

\* What changes no place in a family, starts no process and ends none.
LEMMA FamiliesStay ==
  ASSUME FamilyInv, on' = on, last_pid' \in P!Pid, tty_pgrp' \in 0..MAXPID,
         NEW tab \in [P!Slot -> P!Process \cup {NULL}], task' = tab,
         \A i \in P!Slot : IF task[i] = NULL THEN tab[i] = NULL
                           ELSE SamePlace(task[i], tab[i])
  PROVE  FamilyInv'
<1>1. P!TypeOK'
  BY DEF FamilyInv, P!TypeOK
<1>2. P!Tasks' = P!Tasks
  BY DEF P!Tasks, P!There, SamePlace
<1>3. \A i \in P!Tasks : P!PidOf(i)' = P!PidOf(i) /\ SamePlace(task[i], task'[i])
  BY DEF P!Tasks, P!There, P!PidOf, SamePlace
<1>4. P!PidsAreUnique'
  BY <1>2, <1>3 DEF FamilyInv, P!PidsAreUnique
<1>5. InitLives'
  <2>1. 1 \in P!Tasks
    BY KernelAssumption DEF FamilyInv, InitLives, P!InitIsFirst, P!Tasks, P!There,
       P!Slot, P!ProcessLifeAssumption
  <2> QED BY <1>2, <1>3, <2>1 DEF FamilyInv, InitLives, P!InitIsFirst, P!PidOf,
             SamePlace
<1>6. EndsInOrder'
  BY <1>2, <1>3 DEF EndsInOrder, SamePlace
<1>7. P!FatherIsThere'
  <2> SUFFICES ASSUME NEW i \in P!Tasks, task'[i].pid # 1
               PROVE  \E j \in P!Tasks \ {i} :
                         /\ task'[j].pid = task'[i].father
                         /\ task'[j].state # "zombie" /\ task'[j].at # "close"
    BY <1>2 DEF P!FatherIsThere, P!PidOf
  <2>1. PICK j \in P!Tasks \ {i} : /\ task[j].pid = task[i].father
                                   /\ ~Ending(task[j])
    BY <1>3 DEF FamilyInv, P!FatherIsThere, P!PidOf, EndsInOrder, Ending, SamePlace
  <2> QED BY <1>3, <2>1 DEF SamePlace, Ending
<1>8. \A i \in P!Tasks' : task'[i].pgrp \in 0..MAXPID
  BY <1>2, <1>3 DEF SamePlace
<1> QED BY <1>1, <1>4, <1>5, <1>6, <1>7, <1>8 DEF FamilyInv

\* fork(): the child has a number of its own and a father that lives.
LEMMA ForkKeeps ==
  ASSUME FamilyInv, NEW i \in P!Slot, P!Fork(i)
  PROVE  FamilyInv'
<1>1. P!FreshPid \in P!Pid /\ P!Unused(P!FreshPid)
  BY FreshPidIsUnused DEF FamilyInv
<1>2. P!At(i, "user") /\ i \in P!Tasks /\ task[i] \in P!Process
  BY DEF P!Fork, P!At, P!There, P!Tasks, FamilyInv, P!TypeOK
<1>3. CASE UNCHANGED task
  <2>1. \A j \in P!Slot : task[j] # NULL => SamePlace(task[j], task[j])
    BY DEF FamilyInv, P!TypeOK, SamePlace, EndsInOrder, P!Tasks, P!There
  <2> QED BY <1>1, <1>3, <2>1, FamiliesStay DEF P!Fork, FamilyInv, P!TypeOK
<1>4. ASSUME NEW n \in P!Slot, ~P!There(n),
             task' = [task EXCEPT ![n] =
                        [task[i] EXCEPT !.pid = P!FreshPid, !.father = P!PidOf(i),
                                        !.signal = {}, !.leader = FALSE]]
      PROVE  FamilyInv'
  <2>1. PICK p : p = P!FreshPid
    OBVIOUS
  <2>2. PICK child : child = [task[i] EXCEPT !.pid = p, !.father = P!PidOf(i),
                                             !.signal = {}, !.leader = FALSE]
    OBVIOUS
  <2>3. /\ child \in P!Process /\ child.pid = p /\ child.father = task[i].pid
        /\ child.state = "running" /\ child.at = "user" /\ child.pgrp = task[i].pgrp
    <3>1. /\ p \in P!Pid /\ task[i].pid \in P!Pid /\ P!Pid \subseteq Nat
          /\ task[i].state = "running" /\ task[i].at = "user"
      BY <1>1, <1>2, <2>1, KernelAssumption
         DEF P!Process, P!Pid, P!At, P!ProcessLifeAssumption
    <3> QED BY <1>2, <2>2, <3>1 DEF P!Process, P!PidOf
  <2>4. task' = [task EXCEPT ![n] = child]
    BY <1>4, <2>1, <2>2
  <2>5. /\ task'[n] = child
        /\ \A j \in P!Slot : j # n => task'[j] = task[j]
    BY <2>4 DEF FamilyInv, P!TypeOK
  <2>6. child # NULL
    BY <1>1, <2>1, <2>3, KernelAssumption DEF P!Process, P!ProcessLifeAssumption
  <2>7. P!Tasks' = P!Tasks \cup {n} /\ n \notin P!Tasks
    BY <1>4, <2>5, <2>6 DEF P!Tasks, P!There
  <2>8. /\ \A j \in P!Tasks : task'[j] = task[j] /\ task[j].pid # p
        /\ i # n
    BY <1>1, <1>2, <2>1, <2>5, <2>7 DEF P!Unused, P!PidOf, P!Tasks
  <2>9. P!TypeOK'
    BY <1>1, <2>3, <2>4 DEF P!Fork, FamilyInv, P!TypeOK
  <2>10. P!PidsAreUnique'
    BY <2>3, <2>5, <2>7, <2>8 DEF FamilyInv, P!PidsAreUnique, P!PidOf
  <2>11. InitLives'
    <3>1. 1 \in P!Tasks
      BY KernelAssumption DEF FamilyInv, InitLives, P!InitIsFirst, P!Tasks, P!There,
         P!Slot, P!ProcessLifeAssumption
    <3> QED BY <2>8, <3>1 DEF FamilyInv, InitLives, P!InitIsFirst, P!PidOf
  <2>12. EndsInOrder'
    BY <2>3, <2>5, <2>7, <2>8 DEF FamilyInv, EndsInOrder
  <2>13. P!FatherIsThere'
    <3> SUFFICES ASSUME NEW k \in P!Tasks \cup {n}, task'[k].pid # 1
                 PROVE  \E j \in (P!Tasks \cup {n}) \ {k} :
                           /\ task'[j].pid = task'[k].father
                           /\ task'[j].state # "zombie" /\ task'[j].at # "close"
      BY <2>7 DEF P!FatherIsThere, P!PidOf
    <3>1. CASE k = n
      BY <1>2, <2>3, <2>5, <2>8, <3>1 DEF P!At
    <3>2. CASE k # n
      BY <2>8, <3>2 DEF FamilyInv, P!FatherIsThere, P!PidOf
    <3> QED BY <3>1, <3>2
  <2>14. \A j \in P!Tasks' : task'[j].pgrp \in 0..MAXPID
    BY <1>2, <2>3, <2>5, <2>7, <2>8 DEF FamilyInv
  <2>15. "init_killed" \notin on'
    BY DEF P!Fork, FamilyInv
  <2> QED BY <2>9, <2>10, <2>11, <2>12, <2>13, <2>14, <2>15 DEF FamilyInv
<1> QED BY <1>3, <1>4 DEF P!Fork

\* Two states of a process that differ in its signals and what belongs to them.
SameButSignals(q, r) ==
    /\ r \in P!Process
    /\ r.pid = q.pid /\ r.father = q.father /\ r.pgrp = q.pgrp
    /\ r.state = q.state /\ r.at = q.at

\* Signals are all that changes when signals are sent.
LEMMA SendChangesSignals ==
  ASSUME NEW tab \in [P!Slot -> P!Process \cup {NULL}], NEW T, NEW sig \in P!Signals
  PROVE  /\ P!Send(tab, T, sig) \in [P!Slot -> P!Process \cup {NULL}]
         /\ \A j \in P!Slot : IF tab[j] = NULL THEN P!Send(tab, T, sig)[j] = NULL
                             ELSE SameButSignals(tab[j], P!Send(tab, T, sig)[j])
<1>1. \A j \in P!Slot :
        P!Send(tab, T, sig)[j] =
          IF j \in T /\ tab[j] # NULL
          THEN [tab[j] EXCEPT !.signal = tab[j].signal \cup {sig}] ELSE tab[j]
  BY DEF P!Send
<1>2. ASSUME NEW q \in P!Process
      PROVE  /\ SameButSignals(q, q)
             /\ SameButSignals(q, [q EXCEPT !.signal = q.signal \cup {sig}])
  <2>1. PICK h : h = [q EXCEPT !.signal = q.signal \cup {sig}]
    OBVIOUS
  <2>2. SameButSignals(q, h)
    BY <2>1 DEF P!Process, SameButSignals
  <2> QED BY <2>1, <2>2 DEF SameButSignals
<1>3. \A j \in P!Slot : IF tab[j] = NULL THEN P!Send(tab, T, sig)[j] = NULL
                        ELSE SameButSignals(tab[j], P!Send(tab, T, sig)[j])
  <2> TAKE j \in P!Slot
  <2>1. tab[j] # NULL => tab[j] \in P!Process
    OBVIOUS
  <2> QED BY <1>1, <1>2, <2>1
<1>4. P!Send(tab, T, sig) = [j \in P!Slot |-> P!Send(tab, T, sig)[j]]
  BY DEF P!Send
<1>5. \A j \in P!Slot : P!Send(tab, T, sig)[j] \in P!Process \cup {NULL}
  BY <1>3 DEF SameButSignals
<1> QED BY <1>3, <1>4, <1>5

\* What do_exit() makes of the table when the children of task i are given away.
LEMMA GivenToInit ==
  ASSUME P!TypeOK, NEW i \in P!Tasks
  PROVE  /\ P!GiveToInit(i) \in [P!Slot -> P!Process \cup {NULL}]
         /\ \A j \in P!Slot : task[j] = NULL => P!GiveToInit(i)[j] = NULL
         /\ \A j \in P!Tasks :
               /\ P!GiveToInit(i)[j] \in P!Process
               /\ P!GiveToInit(i)[j].pid = task[j].pid
               /\ P!GiveToInit(i)[j].state = task[j].state
               /\ P!GiveToInit(i)[j].at = task[j].at
               /\ P!GiveToInit(i)[j].pgrp = task[j].pgrp
               /\ P!GiveToInit(i)[j].father =
                     IF task[j].father = P!PidOf(i) THEN 1 ELSE task[j].father
<1> DEFINE mine == {j \in P!Tasks : task[j].father = P!PidOf(i)}
           given == [j \in P!Slot |-> IF j \in mine THEN [task[j] EXCEPT !.father = 1]
                                     ELSE task[j]]
<1>1. /\ given \in [P!Slot -> P!Process \cup {NULL}]
      /\ \A j \in P!Slot : task[j] = NULL => given[j] = NULL
      /\ \A j \in P!Tasks :
            /\ given[j] \in P!Process
            /\ given[j].pid = task[j].pid
            /\ given[j].state = task[j].state
            /\ given[j].at = task[j].at
            /\ given[j].pgrp = task[j].pgrp
            /\ given[j].father = IF task[j].father = P!PidOf(i) THEN 1
                                 ELSE task[j].father
  <2>1. \A j \in P!Tasks : j \in P!Slot /\ task[j] # NULL /\ task[j] \in P!Process
    BY DEF P!TypeOK, P!Tasks, P!There
  <2>2. \A j \in mine : [task[j] EXCEPT !.father = 1] \in P!Process
    BY <2>1 DEF P!Process
  <2>3. \A j \in P!Slot : task[j] = NULL => j \notin mine
    BY <2>1
  <2>4. given \in [P!Slot -> P!Process \cup {NULL}]
    BY <2>1, <2>2 DEF P!TypeOK
  <2> QED BY <2>1, <2>2, <2>3, <2>4 DEF P!Process
<1>2. P!GiveToInit(i) = given \/ P!GiveToInit(i) = P!Send(given, {1}, "CHLD")
  BY DEF P!GiveToInit
<1> HIDE DEF given
<1>3. PICK sent : sent = P!Send(given, {1}, "CHLD")
  OBVIOUS
<1>4. /\ sent \in [P!Slot -> P!Process \cup {NULL}]
      /\ \A j \in P!Slot : IF given[j] = NULL THEN sent[j] = NULL
                          ELSE SameButSignals(given[j], sent[j])
  BY <1>1, <1>3, SendChangesSignals DEF P!Signals
<1>5. \A j \in P!Tasks : j \in P!Slot /\ given[j] # NULL
  BY <1>1, KernelAssumption DEF P!Tasks, P!ProcessLifeAssumption
<1> QED BY <1>1, <1>2, <1>3, <1>4, <1>5 DEF SameButSignals

\* The step of do_exit() that gives the children away: init is not the one who
\* ends, and becomes the father of all of them.
LEMMA BeginExitKeeps ==
  ASSUME FamilyInv, NEW i \in P!Slot, P!At(i, "user"), P!MayExit(i),
         UNCHANGED <<on, last_pid, tty_pgrp>>, NEW q \in P!Process,
         task' = [P!GiveToInit(i) EXCEPT ![i] = q],
         q.pid = task[i].pid, q.father = P!GiveToInit(i)[i].father,
         q.state = "running", q.at = "close", q.pgrp = task[i].pgrp
  PROVE  FamilyInv'
<1>1. /\ i \in P!Tasks /\ task[i] \in P!Process
      /\ task[i].state = "running" /\ task[i].at = "user"
  BY DEF P!At, P!There, P!Tasks, FamilyInv, P!TypeOK
<1>2. 1 \in P!Tasks /\ task[1].pid = 1 /\ ~Ending(task[1]) /\ i # 1
  BY KernelAssumption DEF FamilyInv, InitLives, P!InitIsFirst, P!Tasks, P!There,
     P!Slot, P!ProcessLifeAssumption, P!MayExit, P!PidOf
<1>3. PICK tab : tab = P!GiveToInit(i)
  OBVIOUS
<1>4. /\ tab \in [P!Slot -> P!Process \cup {NULL}]
      /\ \A j \in P!Slot : task[j] = NULL => tab[j] = NULL
      /\ \A j \in P!Tasks :
            /\ tab[j] \in P!Process /\ tab[j].pid = task[j].pid
            /\ tab[j].state = task[j].state /\ tab[j].at = task[j].at
            /\ tab[j].pgrp = task[j].pgrp
            /\ tab[j].father = IF task[j].father = task[i].pid THEN 1
                               ELSE task[j].father
  BY <1>1, <1>3, GivenToInit DEF FamilyInv, P!PidOf
<1>5. task' \in [P!Slot -> P!Process \cup {NULL}] /\ task'[i] = q
      /\ \A j \in P!Slot : j # i => task'[j] = tab[j]
  BY <1>3, <1>4
<1>6. NULL \notin P!Process
  BY KernelAssumption DEF P!ProcessLifeAssumption
<1>7. P!Tasks' = P!Tasks
  BY <1>1, <1>4, <1>5, <1>6 DEF P!Tasks, P!There
<1>8. \A j \in P!Tasks :
         /\ task'[j].pid = task[j].pid /\ task'[j].state = task[j].state
         /\ task'[j].pgrp = task[j].pgrp
         /\ task'[j].at = IF j = i THEN "close" ELSE task[j].at
         /\ task'[j].father = IF task[j].father = task[i].pid THEN 1
                              ELSE task[j].father
  BY <1>1, <1>3, <1>4, <1>5 DEF P!Tasks
<1>9. P!TypeOK' /\ "init_killed" \notin on'
  BY <1>5 DEF FamilyInv, P!TypeOK
<1>10. P!PidsAreUnique'
  BY <1>7, <1>8 DEF FamilyInv, P!PidsAreUnique, P!PidOf
<1>11. InitLives'
  BY <1>2, <1>7, <1>8 DEF FamilyInv, InitLives, P!InitIsFirst, P!PidOf, Ending,
     P!Tasks, P!There
<1>12. EndsInOrder'
  BY <1>1, <1>7, <1>8 DEF FamilyInv, EndsInOrder
<1>13. P!FatherIsThere'
  <2> SUFFICES ASSUME NEW k \in P!Tasks, task[k].pid # 1
               PROVE  \E j \in P!Tasks \ {k} :
                         /\ task'[j].pid = task'[k].father
                         /\ task'[j].state # "zombie" /\ task'[j].at # "close"
    BY <1>7, <1>8 DEF P!FatherIsThere, P!PidOf
  <2>1. CASE task[k].father = task[i].pid
    BY <1>2, <1>8, <2>1 DEF Ending
  <2>2. CASE task[k].father # task[i].pid
    <3>1. PICK j \in P!Tasks \ {k} : /\ task[j].pid = task[k].father
                                     /\ task[j].state # "zombie"
                                     /\ task[j].at # "close"
      BY DEF FamilyInv, P!FatherIsThere, P!PidOf
    <3> QED BY <1>8, <2>2, <3>1
  <2> QED BY <2>1, <2>2
<1>14. \A j \in P!Tasks' : task'[j].pgrp \in 0..MAXPID
  BY <1>7, <1>8 DEF FamilyInv
<1> QED BY <1>9, <1>10, <1>11, <1>12, <1>13, <1>14 DEF FamilyInv

\* The end of a process: its slot becomes empty or holds the zombie r, all others
\* stay where they are.  It is not init, and no other process counts on it.
LEMMA LeavingKeeps ==
  ASSUME FamilyInv, on' = on, last_pid' = last_pid, tty_pgrp' \in 0..MAXPID,
         NEW i \in P!Tasks, Ending(task[i]),
         NEW tab \in [P!Slot -> P!Process \cup {NULL}], task' = tab,
         \A j \in P!Slot : j # i => IF task[j] = NULL THEN tab[j] = NULL
                                    ELSE SamePlace(task[j], tab[j]),
         tab[i] = NULL \/ SamePlace(task[i], tab[i])
  PROVE  FamilyInv'
<1>1. P!TypeOK' /\ "init_killed" \notin on'
  BY DEF FamilyInv, P!TypeOK
<1>2. 1 \in P!Tasks /\ task[1].pid = 1 /\ ~Ending(task[1]) /\ i # 1
  BY KernelAssumption DEF FamilyInv, InitLives, P!InitIsFirst, P!Tasks, P!There,
     P!Slot, P!ProcessLifeAssumption, P!PidOf
<1>3. P!Tasks' \in {P!Tasks, P!Tasks \ {i}}
  BY DEF P!Tasks, P!There, SamePlace
<1>4. \A j \in P!Tasks : j \in P!Tasks' => SamePlace(task[j], task'[j])
  BY DEF P!Tasks, P!There
<1>5. P!PidsAreUnique'
  BY <1>3, <1>4 DEF FamilyInv, P!PidsAreUnique, P!PidOf, SamePlace
<1>6. InitLives'
  BY <1>2, <1>3, <1>4 DEF FamilyInv, InitLives, P!InitIsFirst, P!PidOf, SamePlace,
     P!Tasks, P!There
<1>7. EndsInOrder'
  BY <1>3, <1>4 DEF EndsInOrder, SamePlace
<1>8. P!FatherIsThere'
  <2> SUFFICES ASSUME NEW k \in P!Tasks', task'[k].pid # 1
               PROVE  \E j \in P!Tasks' \ {k} :
                         /\ task'[j].pid = task'[k].father
                         /\ task'[j].state # "zombie" /\ task'[j].at # "close"
    BY DEF P!FatherIsThere, P!PidOf
  <2>1. k \in P!Tasks /\ SamePlace(task[k], task'[k])
    BY <1>3, <1>4
  <2>2. PICK j \in P!Tasks \ {k} : /\ task[j].pid = task[k].father
                                   /\ ~Ending(task[j])
    BY <2>1 DEF FamilyInv, P!FatherIsThere, P!PidOf, EndsInOrder, Ending, SamePlace
  <2>3. j # i /\ j \in P!Tasks'
    BY <1>3, <2>2
  <2> QED BY <1>4, <2>1, <2>2, <2>3 DEF SamePlace, Ending
<1>9. \A j \in P!Tasks' : task'[j].pgrp \in 0..MAXPID
  BY <1>3, <1>4 DEF SamePlace
<1> QED BY <1>1, <1>5, <1>6, <1>7, <1>8, <1>9 DEF FamilyInv

\* A task that is not ending, and has changed otherwise, keeps its place.
LEMMA SameProcess ==
  ASSUME FamilyInv, NEW j \in P!Tasks
  PROVE  SamePlace(task[j], task[j])
  BY DEF FamilyInv, P!TypeOK, P!Tasks, P!There, EndsInOrder, SamePlace

\* Signals change no place.
LEMMA SendKeepsPlaces ==
  ASSUME FamilyInv, NEW T, NEW sig \in P!Signals
  PROVE  /\ P!Send(task, T, sig) \in [P!Slot -> P!Process \cup {NULL}]
         /\ \A j \in P!Slot : IF task[j] = NULL THEN P!Send(task, T, sig)[j] = NULL
                             ELSE SamePlace(task[j], P!Send(task, T, sig)[j])
<1>1. PICK tab : tab = P!Send(task, T, sig)
  OBVIOUS
<1>2. /\ tab \in [P!Slot -> P!Process \cup {NULL}]
      /\ \A j \in P!Slot : IF task[j] = NULL THEN tab[j] = NULL
                          ELSE SameButSignals(task[j], tab[j])
  BY <1>1, SendChangesSignals DEF FamilyInv, P!TypeOK
<1>3. NULL \notin P!Process
  BY KernelAssumption DEF P!ProcessLifeAssumption
<1>4. ASSUME NEW j \in P!Slot, task[j] # NULL PROVE SamePlace(task[j], tab[j])
  <2>1. j \in P!Tasks
    BY <1>4 DEF P!Tasks, P!There
  <2> QED BY <1>2, <1>3, <1>4, <2>1, SameProcess DEF SamePlace, SameButSignals, Ending
<1> QED BY <1>1, <1>2, <1>4

\* One process changes and keeps its place.
LEMMA OneKeeps ==
  ASSUME FamilyInv, on' = on, last_pid' = last_pid, tty_pgrp' \in 0..MAXPID,
         NEW i \in P!Tasks, NEW q, SamePlace(task[i], q), task' = [task EXCEPT ![i] = q]
  PROVE  FamilyInv'
<1>1. [task EXCEPT ![i] = q] \in [P!Slot -> P!Process \cup {NULL}]
  BY DEF FamilyInv, P!TypeOK, SamePlace
<1>2. \A j \in P!Slot : IF task[j] = NULL THEN [task EXCEPT ![i] = q][j] = NULL
                        ELSE SamePlace(task[j], [task EXCEPT ![i] = q][j])
  <2> TAKE j \in P!Slot
  <2>1. j = i => [task EXCEPT ![i] = q][j] = q /\ task[j] # NULL
    BY DEF FamilyInv, P!TypeOK, P!Tasks, P!There
  <2>2. j # i => [task EXCEPT ![i] = q][j] = task[j]
    BY DEF FamilyInv, P!TypeOK
  <2>3. task[j] # NULL => j \in P!Tasks
    BY DEF P!Tasks, P!There
  <2> QED BY <2>1, <2>2, <2>3, SameProcess
<1>3. last_pid' \in P!Pid
  BY DEF FamilyInv, P!TypeOK
<1> QED BY <1>1, <1>2, <1>3, FamiliesStay

\* Such a change: of all but the number, the father and the state of one who ends.
LEMMA ProcessChanges ==
  ASSUME FamilyInv, NEW i \in P!Tasks, ~Ending(task[i]), NEW q \in P!Process,
         q.pid = task[i].pid, q.father = task[i].father,
         q.pgrp \in 0..MAXPID, ~Ending(q)
  PROVE  SamePlace(task[i], q)
  BY KernelAssumption DEF SamePlace, Ending, P!ProcessLifeAssumption

\* The last step of do_exit(): a zombie with the same father, or nothing.
LEMMA EndExitKeeps ==
  ASSUME FamilyInv, NEW i \in P!Slot, P!EndExit(i)
  PROVE  FamilyInv'
<1> DEFINE members == {j \in P!Tasks : task[i].leader /\ task[j].session = task[i].session}
           hung == P!Send(task, members, "HUP")
           dead == [hung EXCEPT ![i].state = "zombie", ![i].at = "end"]
           fathers == {j \in P!Tasks : P!PidOf(j) = task[i].father}
           first == CHOOSE j \in fathers : \A k \in fathers : j <= k
<1>1. i \in P!Tasks /\ task[i] # NULL /\ Ending(task[i])
  BY DEF P!EndExit, P!At, P!There, P!Tasks, Ending
<1>2. \/ task' = [dead EXCEPT ![i] = NULL]
      \/ task' = P!Send(dead, {first}, "CHLD")
  BY DEF P!EndExit
<1>3. on' = on /\ last_pid' = last_pid /\ tty_pgrp' \in 0..MAXPID
  BY KernelAssumption DEF P!EndExit, FamilyInv, P!TypeOK, P!ProcessLifeAssumption
<1>4. PICK h : h = hung
  OBVIOUS
<1>5. /\ h \in [P!Slot -> P!Process \cup {NULL}]
      /\ \A j \in P!Slot : IF task[j] = NULL THEN h[j] = NULL
                          ELSE SamePlace(task[j], h[j])
  BY <1>4, SendKeepsPlaces DEF P!Signals
<1>6. h[i] \in P!Process /\ SamePlace(task[i], h[i])
  BY <1>1, <1>5 DEF SamePlace, P!Tasks
<1>7. PICK z : z = [h[i] EXCEPT !.state = "zombie", !.at = "end"]
  OBVIOUS
<1>8. z \in P!Process /\ SamePlace(task[i], z)
  <2>1. /\ z \in P!Process /\ z.pid = h[i].pid /\ z.father = h[i].father
        /\ z.pgrp = h[i].pgrp /\ z.state = "zombie" /\ z.at = "end"
    BY <1>6, <1>7 DEF P!Process
  <2> QED BY <1>1, <1>6, <2>1, KernelAssumption
          DEF SamePlace, Ending, P!ProcessLifeAssumption
<1>9. PICK d : d = [h EXCEPT ![i] = z]
  OBVIOUS
<1>10. d = dead
  BY <1>4, <1>5, <1>7, <1>9
<1>11. /\ d \in [P!Slot -> P!Process \cup {NULL}]
       /\ \A j \in P!Slot : IF task[j] = NULL THEN d[j] = NULL
                           ELSE SamePlace(task[j], d[j])
  BY <1>1, <1>5, <1>8, <1>9
<1>12. CASE task' = [dead EXCEPT ![i] = NULL]
  <2>1. PICK tab : tab = [d EXCEPT ![i] = NULL]
    OBVIOUS
  <2>2. /\ tab \in [P!Slot -> P!Process \cup {NULL}] /\ tab[i] = NULL
        /\ \A j \in P!Slot : j # i => tab[j] = d[j]
    BY <1>11, <2>1
  <2>3. task' = tab
    BY <1>10, <1>12, <2>1
  <2>4. \A j \in P!Slot : j # i => IF task[j] = NULL THEN tab[j] = NULL
                                   ELSE SamePlace(task[j], tab[j])
    BY <1>11, <2>2
  <2> QED BY <1>1, <1>3, <2>2, <2>3, <2>4, LeavingKeeps
<1>13. CASE task' = P!Send(dead, {first}, "CHLD")
  <2>1. PICK f : f = first
    OBVIOUS
  <2>2. PICK tab : tab = P!Send(d, {f}, "CHLD")
    OBVIOUS
  <2>3. task' = tab
    BY <1>10, <1>13, <2>1, <2>2
  <2>4. /\ tab \in [P!Slot -> P!Process \cup {NULL}]
        /\ \A j \in P!Slot : IF d[j] = NULL THEN tab[j] = NULL
                            ELSE SameButSignals(d[j], tab[j])
    BY <1>11, <2>2, SendChangesSignals DEF P!Signals
  <2>5. NULL \notin P!Process
    BY KernelAssumption DEF P!ProcessLifeAssumption
  <2>6. \A j \in P!Slot : IF task[j] = NULL THEN tab[j] = NULL
                          ELSE SamePlace(task[j], tab[j])
    BY <1>11, <2>4, <2>5 DEF SamePlace, SameButSignals, Ending
  <2>7. last_pid' \in P!Pid
    BY <1>3 DEF FamilyInv, P!TypeOK
  <2> QED BY <1>3, <2>3, <2>4, <2>6, <2>7, FamiliesStay
<1> QED BY <1>2, <1>12, <1>13

\* do_exit() from its begin to its sleep, called by the process or for a signal.
LEMMA ExitKeeps ==
  ASSUME FamilyInv, NEW i \in P!Slot, P!Exit(i)
  PROVE  FamilyInv'
<1>1. PICK tab : tab = P!GiveToInit(i)
  OBVIOUS
<1>2. i \in P!Tasks /\ P!At(i, "user") /\ P!MayExit(i)
  BY DEF P!Exit, P!At, P!There, P!Tasks
<1>3. /\ tab \in [P!Slot -> P!Process \cup {NULL}] /\ tab[i] \in P!Process
      /\ tab[i].pid = task[i].pid /\ tab[i].pgrp = task[i].pgrp
      /\ tab[i].state = "running"
  BY <1>1, <1>2, GivenToInit DEF FamilyInv, P!At
<1>4. PICK q : q = [tab[i] EXCEPT !.at = "close"]
  OBVIOUS
<1>5. /\ q \in P!Process /\ q.pid = task[i].pid /\ q.father = tab[i].father
      /\ q.state = "running" /\ q.at = "close" /\ q.pgrp = task[i].pgrp
  BY <1>3, <1>4 DEF P!Process
<1>6. task' = [P!GiveToInit(i) EXCEPT ![i] = q]
  BY <1>1, <1>3, <1>4 DEF P!Exit, P!BeginExit
<1>7. UNCHANGED <<on, last_pid, tty_pgrp>>
  BY DEF P!Exit, P!BeginExit
<1> QED BY <1>1, <1>2, <1>5, <1>6, <1>7, BeginExitKeeps

\* sys_waitpid(): only a zombie leaves the table.
LEMMA SearchKeeps ==
  ASSUME FamilyInv, NEW i \in P!Tasks, ~Ending(task[i]), NEW p \in 0..P!GROUP,
         NEW q, SameButSignals(task[i], q), NEW tab, tab = [task EXCEPT ![i] = q],
         P!Search(i, p, tab), UNCHANGED <<on, last_pid, tty_pgrp>>
  PROVE  FamilyInv'
<1>1. i \in P!Slot /\ task[i] \in P!Process /\ task[i].pgrp \in 0..MAXPID
  BY DEF P!Tasks, P!There, FamilyInv, P!TypeOK
<1>2. /\ tab \in [P!Slot -> P!Process \cup {NULL}] /\ tab[i] = q /\ q \in P!Process
      /\ \A j \in P!Slot : j # i => tab[j] = task[j]
  BY <1>1 DEF SameButSignals, FamilyInv, P!TypeOK
<1>3. \A r \in P!Process :
        r.pid = q.pid /\ r.father = q.father /\ r.pgrp = q.pgrp /\ ~Ending(r)
          => SamePlace(task[i], r)
  BY <1>1, ProcessChanges DEF SameButSignals
<1>4. tty_pgrp' \in 0..MAXPID
  BY DEF FamilyInv, P!TypeOK
<1>5. 0 \in 0..P!GROUP
  BY KernelAssumption DEF P!GROUP, P!ProcessLifeAssumption
<1>6. ASSUME NEW z \in P!ZombiesOf(i, p),
             task' = [tab EXCEPT ![z] = NULL, ![i].at = "user", ![i].for = 0,
                                 ![i].state = "running"]
      PROVE  FamilyInv'
  <2>1. z \in P!Tasks /\ z \in P!Slot /\ z # i /\ Ending(task[z])
    BY <1>6 DEF P!ZombiesOf, P!Children, P!Tasks, Ending
  <2>2. PICK r : r = [q EXCEPT !.at = "user", !.for = 0, !.state = "running"]
    OBVIOUS
  <2>3. /\ r \in P!Process /\ r.pid = q.pid /\ r.father = q.father
        /\ r.pgrp = q.pgrp /\ ~Ending(r)
    BY <1>2, <1>5, <2>2 DEF P!Process, Ending
  <2>4. PICK new : new = [[tab EXCEPT ![z] = NULL] EXCEPT ![i] = r]
    OBVIOUS
  <2>5. task' = new
    BY <1>1, <1>2, <1>6, <2>1, <2>2, <2>4
  <2>6. /\ new \in [P!Slot -> P!Process \cup {NULL}] /\ new[z] = NULL /\ new[i] = r
        /\ \A j \in P!Slot : j # i /\ j # z => new[j] = task[j]
    BY <1>1, <1>2, <2>1, <2>3, <2>4
  <2>7. \A j \in P!Slot : j # z => IF task[j] = NULL THEN new[j] = NULL
                                   ELSE SamePlace(task[j], new[j])
    <3>1. task[i] # NULL
      BY DEF P!Tasks, P!There
    <3>2. \A j \in P!Slot : task[j] # NULL => SamePlace(task[j], task[j])
      BY SameProcess DEF P!Tasks, P!There
    <3> QED BY <1>3, <2>3, <2>6, <3>1, <3>2
  <2> QED BY <1>4, <2>1, <2>5, <2>6, <2>7, LeavingKeeps
<1>7. ASSUME NEW r, r \in P!Process, r.pid = q.pid, r.father = q.father,
             r.pgrp = q.pgrp, ~Ending(r), task' = [tab EXCEPT ![i] = r]
      PROVE  FamilyInv'
  <2>1. task' = [task EXCEPT ![i] = r]
    BY <1>1, <1>7 DEF FamilyInv, P!TypeOK
  <2> QED BY <1>3, <1>4, <1>7, <2>1, OneKeeps
<1>8. CASE task' = [tab EXCEPT ![i].at = "user", ![i].for = 0]
  <2>1. PICK r : r = [q EXCEPT !.at = "user", !.for = 0]
    OBVIOUS
  <2>2. /\ r \in P!Process /\ r.pid = q.pid /\ r.father = q.father
        /\ r.pgrp = q.pgrp /\ ~Ending(r)
    BY <1>2, <1>5, <2>1 DEF P!Process, Ending, SameButSignals
  <2>3. task' = [tab EXCEPT ![i] = r]
    BY <1>1, <1>2, <1>8, <2>1
  <2> QED BY <1>7, <2>2, <2>3
<1>9. CASE task' = [tab EXCEPT ![i].at = "wait", ![i].for = p,
                               ![i].state = "interruptible"]
  <2>1. PICK r : r = [q EXCEPT !.at = "wait", !.for = p, !.state = "interruptible"]
    OBVIOUS
  <2>2. /\ r \in P!Process /\ r.pid = q.pid /\ r.father = q.father
        /\ r.pgrp = q.pgrp /\ ~Ending(r)
    BY <1>2, <2>1 DEF P!Process, Ending
  <2>3. task' = [tab EXCEPT ![i] = r]
    BY <1>1, <1>2, <1>9, <2>1
  <2> QED BY <1>7, <2>2, <2>3
<1>10. CASE UNCHANGED task
  BY <1>10 DEF FamilyInv, P!TypeOK, P!PidsAreUnique, P!FatherIsThere, InitLives,
     P!InitIsFirst, EndsInOrder, P!Tasks, P!There, P!PidOf
<1> QED BY <1>6, <1>8, <1>9, <1>10 DEF P!Search

\* sys_waitpid(), at its call and when its sleep ends.
LEMMA WaitKeeps ==
  ASSUME FamilyInv, NEW i \in P!Slot, P!WaitPid(i) \/ P!WaitAgain(i)
  PROVE  FamilyInv'
<1>1. /\ i \in P!Tasks /\ task[i] \in P!Process /\ ~Ending(task[i])
      /\ UNCHANGED <<on, last_pid, tty_pgrp>>
  BY DEF P!WaitPid, P!WaitAgain, P!At, P!There, P!Tasks, Ending, FamilyInv, P!TypeOK
<1>2. CASE P!WaitPid(i)
  <2>1. PICK p : /\ p \in {0, MAXPID + 1} \cup {P!PidOf(j) : j \in P!Tasks}
                 /\ P!Search(i, p, task)
    BY <1>2 DEF P!WaitPid, P!ANY, P!GROUP
  <2>2. p \in 0..P!GROUP
    BY <2>1, KernelAssumption DEF P!GROUP, P!ProcessLifeAssumption, P!PidOf, P!Tasks,
       P!There, FamilyInv, P!TypeOK, P!Process, P!Pid
  <2>3. task = [task EXCEPT ![i] = task[i]]
    BY DEF FamilyInv, P!TypeOK
  <2>4. SameButSignals(task[i], task[i])
    BY <1>1 DEF SameButSignals
  <2> QED BY <1>1, <2>1, <2>2, <2>3, <2>4, SearchKeeps
<1>3. CASE P!WaitAgain(i)
  <2>1. PICK left : left = task[i].signal \ {"CHLD"}
    OBVIOUS
  <2>2. PICK q : q = [task[i] EXCEPT !.signal = left]
    OBVIOUS
  <2>3. /\ SameButSignals(task[i], q) /\ task[i].for \in 0..P!GROUP
        /\ q = [q EXCEPT !.at = q.at]
    BY <1>1, <2>1, <2>2 DEF P!Process, SameButSignals
  <2>4. PICK tab : tab = [task EXCEPT ![i] = q]
    OBVIOUS
  <2>5. tab = [task EXCEPT ![i].signal = left]
    BY <1>1, <2>2, <2>4 DEF FamilyInv, P!TypeOK
  <2>6. \/ task' = [tab EXCEPT ![i].at = "user", ![i].for = 0]
        \/ P!Search(i, task[i].for, tab)
    BY <1>3, <2>1, <2>5 DEF P!WaitAgain
  <2>7. CASE task' = [tab EXCEPT ![i].at = "user", ![i].for = 0]
    <3>1. PICK r : r = [q EXCEPT !.at = "user", !.for = 0]
      OBVIOUS
    <3>2. 0 \in 0..P!GROUP
      BY KernelAssumption DEF P!GROUP, P!ProcessLifeAssumption
    <3>3. /\ r \in P!Process /\ r.pid = q.pid /\ r.father = q.father
          /\ r.pgrp = q.pgrp /\ ~Ending(r)
      BY <1>1, <2>3, <3>1, <3>2 DEF P!Process, Ending, SameButSignals
    <3>4. task' = [task EXCEPT ![i] = r]
      BY <1>1, <2>4, <2>7, <3>1 DEF P!Tasks, FamilyInv, P!TypeOK
    <3>5. tty_pgrp' \in 0..MAXPID /\ task[i].pgrp \in 0..MAXPID
      BY <1>1 DEF FamilyInv, P!TypeOK
    <3>6. SamePlace(task[i], r)
      BY <1>1, <2>3, <3>3, <3>5, ProcessChanges DEF SameButSignals
    <3> QED BY <1>1, <3>4, <3>5, <3>6, OneKeeps
  <2>8. CASE P!Search(i, task[i].for, tab)
    BY <1>1, <2>3, <2>4, <2>8, SearchKeeps
  <2> QED BY <2>6, <2>7, <2>8
<1> QED BY <1>2, <1>3

\* A signal is delivered: it ends the process, or is taken.
LEMMA DoSignalKeeps ==
  ASSUME FamilyInv, NEW i \in P!Slot, P!DoSignal(i)
  PROVE  FamilyInv'
<1>1. /\ i \in P!Tasks /\ task[i] \in P!Process /\ ~Ending(task[i]) /\ P!At(i, "user")
      /\ UNCHANGED <<on, last_pid, tty_pgrp>>
  BY DEF P!DoSignal, P!At, P!There, P!Tasks, Ending, FamilyInv, P!TypeOK
<1>2. PICK sig : sig = P!First(task[i].signal \ task[i].blocked)
  OBVIOUS
<1>3. \/ /\ P!MayExit(i)
         /\ task' = [P!GiveToInit(i) EXCEPT ![i].at = "close", ![i].signal = @ \ {sig}]
      \/ task' = [[task EXCEPT ![i].signal = @ \ {sig}] EXCEPT ![i].handler = "default"]
      \/ task' = [task EXCEPT ![i].signal = @ \ {sig}]
  BY <1>2 DEF P!DoSignal
<1>4. CASE /\ P!MayExit(i)
           /\ task' = [P!GiveToInit(i) EXCEPT ![i].at = "close", ![i].signal = @ \ {sig}]
  <2>1. PICK tab : tab = P!GiveToInit(i)
    OBVIOUS
  <2>2. /\ tab \in [P!Slot -> P!Process \cup {NULL}] /\ tab[i] \in P!Process
        /\ tab[i].pid = task[i].pid /\ tab[i].pgrp = task[i].pgrp
        /\ tab[i].state = "running"
    BY <1>1, <2>1, GivenToInit DEF FamilyInv, P!At
  <2>3. PICK q : q = [tab[i] EXCEPT !.at = "close", !.signal = tab[i].signal \ {sig}]
    OBVIOUS
  <2>4. /\ q \in P!Process /\ q.pid = task[i].pid /\ q.father = tab[i].father
        /\ q.state = "running" /\ q.at = "close" /\ q.pgrp = task[i].pgrp
    BY <2>2, <2>3 DEF P!Process
  <2>5. task' = [tab EXCEPT ![i] = q]
    BY <1>4, <2>1, <2>2, <2>3
  <2> QED BY <1>1, <1>4, <2>1, <2>4, <2>5, BeginExitKeeps
<1>5. CASE \/ task' = [[task EXCEPT ![i].signal = @ \ {sig}] EXCEPT ![i].handler = "default"]
           \/ task' = [task EXCEPT ![i].signal = @ \ {sig}]
  <2>1. PICK q : q = [task[i] EXCEPT !.signal = task[i].signal \ {sig}]
    OBVIOUS
  <2>2. PICK r : r = [q EXCEPT !.handler = "default"]
    OBVIOUS
  <2>3. SameButSignals(task[i], q) /\ SameButSignals(task[i], r)
    BY <1>1, <2>1, <2>2 DEF P!Process, P!Handler, SameButSignals
  <2>4. task' = [task EXCEPT ![i] = q] \/ task' = [task EXCEPT ![i] = r]
    BY <1>1, <1>5, <2>1, <2>2 DEF FamilyInv, P!TypeOK
  <2>5. tty_pgrp' \in 0..MAXPID /\ task[i].pgrp \in 0..MAXPID
    BY <1>1 DEF FamilyInv, P!TypeOK
  <2>6. SamePlace(task[i], q) /\ SamePlace(task[i], r)
    BY <1>1, <2>3, <2>5, ProcessChanges DEF SameButSignals, Ending
  <2> QED BY <1>1, <2>4, <2>5, <2>6, OneKeeps
<1> QED BY <1>3, <1>4, <1>5

\* Calls that change one process and leave it where it is in its family.
LEMMA CallsKeep ==
  ASSUME FamilyInv, NEW i \in P!Slot,
         \/ P!Pause(i) \/ P!Unpause(i) \/ P!Wake(i) \/ P!SetMask(i) \/ P!SigAction(i)
         \/ P!SetSid(i) \/ P!SetPgid(i) \/ P!SetTtyGroup(i)
  PROVE  FamilyInv'
<1>1. /\ i \in P!Tasks /\ task[i] \in P!Process /\ on' = on /\ last_pid' = last_pid
      /\ ~Ending(task[i]) /\ task[i].pgrp \in 0..MAXPID /\ task[i].pid \in 0..MAXPID
  <2>1. i \in P!Tasks /\ task[i] \in P!Process /\ task[i].state # "zombie"
    BY DEF P!Pause, P!Unpause, P!Wake, P!SetMask, P!SigAction, P!SetSid, P!SetPgid,
       P!SetTtyGroup, P!At, P!There, P!Tasks, FamilyInv, P!TypeOK
  <2>2. task[i].at # "close"
    BY <2>1 DEF P!Pause, P!Unpause, P!Wake, P!SetMask, P!SigAction, P!SetSid, P!SetPgid,
       P!SetTtyGroup, P!At, FamilyInv, EndsInOrder
  <2>3. on' = on /\ last_pid' = last_pid
    BY DEF P!Pause, P!Unpause, P!Wake, P!SetMask, P!SigAction, P!SetSid, P!SetPgid,
       P!SetTtyGroup
  <2>4. task[i].pid \in 0..MAXPID
    BY <2>1 DEF P!Process, P!Pid
  <2> QED BY <2>1, <2>2, <2>3, <2>4 DEF Ending, FamilyInv, EndsInOrder
<1>2. tty_pgrp' \in 0..MAXPID
  BY <1>1 DEF P!Pause, P!Unpause, P!Wake, P!SetMask, P!SigAction, P!SetSid, P!SetPgid,
     P!SetTtyGroup, FamilyInv, P!TypeOK
<1>3. ASSUME NEW q \in P!Process, q.pid = task[i].pid, q.father = task[i].father,
             q.pgrp \in 0..MAXPID, ~Ending(q), task' = [task EXCEPT ![i] = q]
      PROVE  FamilyInv'
  <2>1. SamePlace(task[i], q)
    BY <1>1, <1>3, ProcessChanges
  <2> QED BY <1>1, <1>2, <1>3, <2>1, OneKeeps
<1>4. CASE P!Pause(i)
  <2>1. PICK q : q = [task[i] EXCEPT !.at = "pause", !.state = "interruptible"]
    OBVIOUS
  <2>2. /\ q \in P!Process /\ q.pid = task[i].pid /\ q.father = task[i].father
        /\ q.pgrp = task[i].pgrp /\ ~Ending(q)
    BY <1>1, <2>1 DEF P!Process, Ending
  <2>3. task' = [task EXCEPT ![i] = q]
    BY <1>1, <1>4, <2>1 DEF P!Pause, FamilyInv, P!TypeOK
  <2> QED BY <1>1, <1>3, <2>2, <2>3
<1>5. CASE P!Unpause(i)
  <2>1. PICK q : q = [task[i] EXCEPT !.at = "user"]
    OBVIOUS
  <2>2. /\ q \in P!Process /\ q.pid = task[i].pid /\ q.father = task[i].father
        /\ q.pgrp = task[i].pgrp /\ ~Ending(q)
    BY <1>1, <2>1 DEF P!Process, Ending
  <2>3. task' = [task EXCEPT ![i] = q]
    BY <1>1, <1>5, <2>1 DEF P!Unpause, FamilyInv, P!TypeOK
  <2> QED BY <1>1, <1>3, <2>2, <2>3
<1>6. CASE P!Wake(i)
  <2>1. PICK q : q = [task[i] EXCEPT !.state = "running"]
    OBVIOUS
  <2>2. /\ q \in P!Process /\ q.pid = task[i].pid /\ q.father = task[i].father
        /\ q.pgrp = task[i].pgrp /\ ~Ending(q)
    BY <1>1, <2>1 DEF P!Process, Ending
  <2>3. task' = [task EXCEPT ![i] = q]
    BY <1>1, <1>6, <2>1 DEF P!Wake, FamilyInv, P!TypeOK
  <2> QED BY <1>1, <1>3, <2>2, <2>3
<1>7. CASE P!SetMask(i)
  <2>1. PICK m \in SUBSET P!Signals : task' = [task EXCEPT ![i].blocked = m]
    BY <1>7 DEF P!SetMask, P!Signals
  <2>2. PICK q : q = [task[i] EXCEPT !.blocked = m]
    OBVIOUS
  <2>3. /\ q \in P!Process /\ q.pid = task[i].pid /\ q.father = task[i].father
        /\ q.pgrp = task[i].pgrp /\ ~Ending(q)
    BY <1>1, <2>2 DEF P!Process, Ending
  <2>4. task' = [task EXCEPT ![i] = q]
    BY <1>1, <2>1, <2>2 DEF FamilyInv, P!TypeOK
  <2> QED BY <1>1, <1>3, <2>3, <2>4
<1>8. CASE P!SigAction(i)
  <2>1. PICK h \in P!Handler : task' = [task EXCEPT ![i].handler = h]
    BY <1>8 DEF P!SigAction
  <2>2. PICK q : q = [task[i] EXCEPT !.handler = h]
    OBVIOUS
  <2>3. /\ q \in P!Process /\ q.pid = task[i].pid /\ q.father = task[i].father
        /\ q.pgrp = task[i].pgrp /\ ~Ending(q)
    BY <1>1, <2>2 DEF P!Process, Ending
  <2>4. task' = [task EXCEPT ![i] = q]
    BY <1>1, <2>1, <2>2 DEF FamilyInv, P!TypeOK
  <2> QED BY <1>1, <1>3, <2>3, <2>4
<1>9. CASE P!SetSid(i)
  <2>1. PICK p : p = task[i].pid
    OBVIOUS
  <2>2. PICK q : q = [task[i] EXCEPT !.leader = TRUE, !.session = p, !.pgrp = p]
    OBVIOUS
  <2>3. /\ q \in P!Process /\ q.pid = task[i].pid /\ q.father = task[i].father
        /\ q.pgrp \in 0..MAXPID /\ ~Ending(q)
    <3>1. p \in Nat /\ p \in 0..MAXPID
      BY <1>1, <2>1 DEF P!Process, P!Pid
    <3> QED BY <1>1, <2>1, <2>2, <3>1 DEF P!Process, Ending
  <2>4. task' = [task EXCEPT ![i] = q]
    BY <1>1, <1>9, <2>1, <2>2 DEF P!SetSid, P!PidOf, FamilyInv, P!TypeOK
  <2> QED BY <1>3, <2>3, <2>4
<1>10. CASE P!SetPgid(i)
  <2>1. PICK j \in P!Tasks, k \in P!Tasks : task' = [task EXCEPT ![j].pgrp = task[k].pid]
    BY <1>10 DEF P!SetPgid, P!PidOf
  <2>2. PICK p : p = task[k].pid
    OBVIOUS
  <2>3. p \in 0..MAXPID /\ p \in Nat /\ task[j] \in P!Process /\ SamePlace(task[j], task[j])
    BY <2>2, SameProcess DEF P!Tasks, P!There, FamilyInv, P!TypeOK, P!Process, P!Pid
  <2>4. PICK q : q = [task[j] EXCEPT !.pgrp = p]
    OBVIOUS
  <2>5. /\ q \in P!Process /\ q.pid = task[j].pid /\ q.father = task[j].father
        /\ q.pgrp = p /\ q.state = task[j].state /\ q.at = task[j].at
    BY <2>3, <2>4 DEF P!Process
  <2>6. SamePlace(task[j], q)
    BY <2>3, <2>5, KernelAssumption DEF SamePlace, Ending, P!ProcessLifeAssumption
  <2>7. task' = [task EXCEPT ![j] = q]
    BY <2>1, <2>2, <2>4 DEF P!Tasks, FamilyInv, P!TypeOK
  <2> QED BY <1>1, <1>2, <2>6, <2>7, OneKeeps
<1>11. CASE P!SetTtyGroup(i)
  <2>1. task' = [task EXCEPT ![i] = task[i]]
    BY <1>11 DEF P!SetTtyGroup, FamilyInv, P!TypeOK
  <2> QED BY <1>1, <1>3, <2>1
<1> QED BY <1>4, <1>5, <1>6, <1>7, <1>8, <1>9, <1>10, <1>11

\* All steps of the processes.
LEMMA ProcessesKeep ==
  ASSUME FamilyInv, P!Next
  PROVE  FamilyInv'
<1>1. ASSUME NEW T, task' = P!Send(task, T, "TERM"), UNCHANGED <<on, last_pid, tty_pgrp>>
      PROVE  FamilyInv'
  <2>1. PICK tab : tab = P!Send(task, T, "TERM")
    OBVIOUS
  <2>2. /\ tab \in [P!Slot -> P!Process \cup {NULL}]
        /\ \A j \in P!Slot : IF task[j] = NULL THEN tab[j] = NULL
                            ELSE SamePlace(task[j], tab[j])
    BY <2>1, SendKeepsPlaces DEF P!Signals
  <2>3. last_pid' \in P!Pid /\ tty_pgrp' \in 0..MAXPID
    BY <1>1 DEF FamilyInv, P!TypeOK
  <2> QED BY <1>1, <2>1, <2>2, <2>3, FamiliesStay
<1>2. ASSUME NEW i \in P!Slot, P!Kill(i) PROVE FamilyInv'
  BY <1>1, <1>2 DEF P!Kill
<1>3. CASE P!TtyIntr
  BY <1>1, <1>3 DEF P!TtyIntr
<1> QED BY <1>2, <1>3, ForkKeeps, ExitKeeps, EndExitKeeps, WaitKeeps, DoSignalKeeps,
        CallsKeep DEF P!Next

\* The features of the run: nothing ends init, for which do_exit() has no care.
InitIsSpared == \A r \in ProcessRegimes : "init_killed" \notin r

\* The invariant of the processes, in a kernel with other parts.
LEMMA FamilyInvHolds ==
  ASSUME InitIsSpared
  PROVE  Spec => [](part = "processes" => FamilyInv)
<1>1. Init /\ part = "processes" => FamilyInv
  <2> SUFFICES ASSUME Init, part = "processes" PROVE FamilyInv
    OBVIOUS
  <2>1. P!Init
    BY DEF Init
  <2>2. /\ NR_TASKS \in Nat \ {0} /\ MAXPID \in Nat /\ MAXPID > NR_TASKS
        /\ NULL \notin P!Process
    BY KernelAssumption DEF P!ProcessLifeAssumption
  <2>3. P!INIT \in P!Process
    BY <2>2 DEF P!INIT, P!Process, P!Pid, P!GROUP, P!Signals, P!Handler
  <2>4. P!TypeOK
    BY <2>1, <2>2, <2>3 DEF P!Init, P!TypeOK, P!Pid
  <2>5. P!Tasks = {1} /\ task[1] = P!INIT
    BY <2>1, <2>2, <2>3 DEF P!Init, P!Tasks, P!There, P!Slot
  <2>6. /\ P!INIT.pid = 1 /\ P!INIT.pgrp = 0 /\ P!INIT.state = "running"
        /\ P!INIT.at = "user"
    BY DEF P!INIT
  <2>7. "init_killed" \notin on
    BY <2>1 DEF InitIsSpared, P!Init
  <2> QED BY <2>2, <2>3, <2>4, <2>5, <2>6, <2>7 DEF FamilyInv, P!PidsAreUnique,
      InitLives, P!InitIsFirst, EndsInOrder, P!FatherIsThere, Ending, P!PidOf
<1>2. (part = "processes" => FamilyInv) /\ [Next]_vars => (part = "processes" => FamilyInv)'
  <2> SUFFICES ASSUME part = "processes" => FamilyInv, [Next]_vars, part' = "processes"
               PROVE  FamilyInv'
    OBVIOUS
  <2>1. CASE P!Next /\ part = "processes"
    BY <2>1, ProcessesKeep
  <2>2. CASE UNCHANGED <<part, on, ofProcesses>>
    BY <2>2 DEF ofProcesses, FamilyInv, P!TypeOK, P!PidsAreUnique, P!FatherIsThere,
       InitLives, P!InitIsFirst, EndsInOrder, P!Tasks, P!There, P!PidOf
  <2> QED BY <2>1, <2>2 DEF Next, InputStep, OutputStep, ConsoleStep, ProcessesStep,
      SchedulerStep, FloppyStep, AllWait, vars, ofProcesses
<1> QED BY <1>1, <1>2, PTL DEF Spec

\* A process number belongs to one process until waitpid() has released it, every
\* process but init has a father that can wait for it, and init is in its slot:
\* through all orders in which fork(), do_exit() and sys_waitpid() run.
THEOREM FamiliesStayWhole ==
  ASSUME InitIsSpared
  PROVE  Spec => []FamiliesAreWhole
<1>1. (part = "processes" => FamilyInv) => FamiliesAreWhole
  BY DEF FamilyInv, FamiliesAreWhole, InitLives
<1> QED BY <1>1, FamilyInvHolds, PTL
-----------------------------------------------------------------------------
(***************************************************************************)
(* The input of a terminal: the alarm.                                     *)
(***************************************************************************)
\* The features of the run: the task's own alarm does not go off within the
\* call, and no EOF ends a call with a time-out (which leaves the alarm of the
\* time-out behind).
AlarmsMayBeKept ==
    \A r \in InputRegimes : "rings" \notin r /\ ~({"timeout", "eof"} \subseteq r)

\* What is typed is in both queues, and in the hand of the reader.
InputTypes ==
    /\ read_q \in Seq(I!Char) /\ buf \in [0..(SIZE - 1) -> I!Char] /\ c \in I!Char
    /\ head \in 0..(SIZE - 1) /\ tail \in 0..(SIZE - 1)
    /\ canon \in BOOLEAN

NoEof ==
    /\ \A i \in 1..Len(read_q) : read_q[i] # "eof"
    /\ \A i \in 0..(SIZE - 1) : buf[i] # "eof"
    /\ c # "eof"

\* In tty_read() the alarm of the task is in oldalarm, and the alarm that is set
\* is that of the time-out if flag says so.
AlarmInv ==
    /\ "rings" \notin on /\ ~({"timeout", "eof"} \subseteq on)
    /\ InputTypes /\ ("eof" \notin on => NoEof)
    /\ jiffies \in 1..(LASTTICK + 1) /\ asked \in {0, FAR}
    /\ "alarm" \in signal => pc = "loop" /\ flag
    /\ asleep => pc = "loop"
    /\ IF pc = "out" THEN alarm = asked
       ELSE /\ oldalarm = asked /\ (flag \/ alarm = asked)
            /\ flag => "timeout" \in on

\* The interrupt and other tasks, which leave the call alone.
LEMMA EditingKeepsTypes ==
  ASSUME InputTypes, "eof" \notin on => NoEof, I!Cook
  PROVE  /\ InputTypes' /\ ("eof" \notin on => NoEof')
         /\ "alarm" \in signal' <=> "alarm" \in signal
<1>1. /\ SIZE \in Nat \ {0, 1} /\ read_q \in Seq(I!Char) /\ read_q # <<>>
      /\ read_q' = Tail(read_q)
      /\ UNCHANGED <<on, canon, intr, asleep, c>>
  BY KernelAssumption DEF I!TerminalInputAssumption, I!Cook, InputTypes, I!call
<1>2. /\ read_q' \in Seq(I!Char) /\ Head(read_q) \in I!Char
      /\ \A i \in 1..Len(read_q') : read_q'[i] = read_q[i + 1] /\ i + 1 \in 1..Len(read_q)
      /\ Head(read_q) = read_q[1] /\ 1 \in 1..Len(read_q)
  BY <1>1
<1>3. /\ \A n \in Nat : I!Mod(n) \in 0..(SIZE - 1)
  BY <1>1 DEF I!Mod
<1>4. \/ /\ UNCHANGED <<buf, tail, signal>> /\ head' \in 0..(SIZE - 1)
      \/ I!Put(Head(read_q))
      \/ /\ UNCHANGED <<buf, tail, head>> /\ signal' = signal \cup {"int"}
  <2>1. \A k \in 0..(SIZE - 1) : head + SIZE - k \in Nat
    BY <1>1 DEF InputTypes
  <2>2. I!Kill \/ I!EraseOne => UNCHANGED <<buf, tail, signal>> /\ head' \in 0..(SIZE - 1)
    <3>1. CASE I!Kill
      BY <1>3, <2>1, <3>1 DEF I!Kill
    <3>2. CASE I!EraseOne
      <4>1. head' = head \/ head' = I!Mod(head + SIZE - 1)
        BY <3>2 DEF I!EraseOne
      <4>2. head + SIZE - 1 \in Nat
        BY <1>1 DEF InputTypes
      <4> QED BY <1>3, <3>2, <4>1, <4>2 DEF I!EraseOne, InputTypes
    <3> QED BY <3>1, <3>2
  <2>3. \/ I!Kill \/ I!EraseOne \/ I!Put(Head(read_q))
        \/ signal' = signal \cup {"int"} /\ UNCHANGED I!queue
    BY DEF I!Cook
  <2> QED BY <2>2, <2>3 DEF I!queue
<1>5. CASE I!Put(Head(read_q))
  <2>1. head + 1 \in Nat
    BY <1>1 DEF InputTypes
  <2>2. buf' = [buf EXCEPT ![head] = read_q[1]] /\ head' \in 0..(SIZE - 1)
        /\ UNCHANGED <<tail, signal>>
    BY <1>2, <1>3, <1>5, <2>1 DEF I!Put
  <2>3. InputTypes'
    BY <1>1, <1>2, <2>2 DEF InputTypes
  <2>4. NoEof => NoEof'
    BY <1>1, <1>2, <2>2 DEF InputTypes, NoEof
  <2> QED BY <2>2, <2>3, <2>4
<1>6. CASE UNCHANGED <<buf, tail>> /\ head' \in 0..(SIZE - 1)
  BY <1>1, <1>2, <1>4, <1>5, <1>6 DEF InputTypes, NoEof
<1> QED BY <1>4, <1>5, <1>6 DEF InputTypes

\* The interrupt receives a character; the queue is flushed.
LEMMA ReceivingKeepsTypes ==
  ASSUME InputTypes, "eof" \notin on => NoEof, I!Receive \/ I!FlushInput
  PROVE  InputTypes' /\ ("eof" \notin on => NoEof')
<1>1. UNCHANGED <<canon, buf, head, tail, c>>
  BY DEF I!Receive, I!FlushInput, I!queue, I!call
<1>2. CASE I!FlushInput
  BY <1>1, <1>2 DEF I!FlushInput, InputTypes, NoEof
<1>3. CASE I!Receive
  <2>1. PICK ch \in I!Typed :
          read_q' = IF Len(read_q) = RSIZE - 1 THEN read_q ELSE Append(read_q, ch)
    BY <1>3 DEF I!Receive
  <2>2. ch \in I!Char /\ ("eof" \notin on => ch # "eof")
    BY DEF I!Typed, I!Char, I!Plain
  <2>3. read_q \in Seq(I!Char)
    BY DEF InputTypes
  <2>4. /\ read_q' \in Seq(I!Char)
        /\ \A i \in 1..Len(read_q') : read_q'[i] = ch \/ (i \in 1..Len(read_q) /\ read_q'[i] = read_q[i])
    BY <2>1, <2>2, <2>3
  <2> QED BY <1>1, <2>2, <2>4 DEF InputTypes, NoEof
<1> QED BY <1>2, <1>3

\* All steps of the input keep the invariant of the alarm.
LEMMA AlarmInvKept ==
  ASSUME AlarmInv, I!Next
  PROVE  AlarmInv'
<1>0. /\ SIZE \in Nat \ {0, 1} /\ LASTTICK \in Nat /\ FAR \in Nat
      /\ FAR > LASTTICK + 1
  BY KernelAssumption DEF I!TerminalInputAssumption
<1>a. /\ InputTypes /\ ("eof" \notin on => NoEof) /\ on' = on
  BY DEF AlarmInv, I!Next, I!Receive, I!Cook, I!Cooked, I!SetAlarm, I!Read, I!Loop,
     I!Take, I!Count, I!After, I!End, I!Handle, I!Tick, I!Schedule, I!SetMode,
     I!FlushInput, I!Unread
<1>b. alarm = asked => ~(alarm # 0 /\ alarm < jiffies)
  BY <1>0 DEF AlarmInv
<1>1. CASE I!Receive \/ I!FlushInput
  <2>1. UNCHANGED <<on, pc, flag, oldalarm, asleep, signal, alarm, jiffies, asked>>
    BY <1>1 DEF I!Receive, I!FlushInput, I!call, I!clock
  <2>2. InputTypes' /\ ("eof" \notin on => NoEof')
    BY <1>1, <1>a, ReceivingKeepsTypes
  <2> QED BY <2>1, <2>2 DEF AlarmInv
<1>2. CASE I!Cook
  BY <1>2, <1>a, EditingKeepsTypes DEF AlarmInv, I!Cook, I!call
<1>3. CASE I!Take
  <2>1. buf[tail] \in I!Char /\ tail + 1 \in Nat /\ (NoEof => buf[tail] # "eof")
    BY <1>0, <1>a DEF InputTypes, NoEof
  <2>2. tail' \in 0..(SIZE - 1)
    BY <1>0, <1>3, <2>1 DEF I!Take, I!Mod
  <2>3. InputTypes' /\ ("eof" \notin on => NoEof')
    BY <1>3, <1>a, <2>1, <2>2 DEF InputTypes, NoEof, I!Take, I!Unread
  <2> QED BY <1>3, <1>a, <2>3 DEF AlarmInv, I!Take, I!At, I!Unread, I!clock
<1>4. CASE I!Read
  <2>1. InputTypes' /\ ("eof" \notin on => NoEof')
    BY <1>4, <1>a DEF InputTypes, NoEof, I!Read, I!Unread, I!queue, I!Char, I!Plain
  <2>2. /\ pc' = "loop" /\ oldalarm' = asked /\ UNCHANGED <<signal, asleep, jiffies, asked>>
        /\ signal = {} /\ pc = "out" /\ (flag' \/ alarm' = asked) /\ (flag' => "timeout" \in on)
    BY <1>4 DEF AlarmInv, I!Read, I!At, I!VTIME
  <2> QED BY <1>a, <2>1, <2>2 DEF AlarmInv
<1>5. CASE I!Cooked \/ I!SetAlarm \/ I!Loop \/ I!Count \/ I!After \/ I!End \/ I!Handle
          \/ I!Tick \/ I!Schedule \/ I!SetMode
  <2>1. UNCHANGED <<read_q, buf, head, tail, c>> /\ canon' \in BOOLEAN
    BY <1>5, <1>a DEF I!Cooked, I!SetAlarm, I!Loop, I!Count, I!After, I!End, I!Handle,
       I!Tick, I!Schedule, I!SetMode, I!Unread, I!queue, I!call, InputTypes
  <2>2. InputTypes' /\ ("eof" \notin on => NoEof')
    BY <1>a, <2>1 DEF InputTypes, NoEof
  <2> USE <1>a, <2>2 DEF AlarmInv
  <2>3. CASE I!Cooked \/ I!SetMode
    BY <2>3 DEF I!Cooked, I!SetMode, I!call, I!clock
  <2>4. CASE I!SetAlarm
    BY <2>4 DEF I!SetAlarm, I!At, I!call
  <2>5. CASE I!Loop
    BY <2>5 DEF I!Loop, I!At
  <2>6. CASE I!Count
    <3>1. c = "eof" => ~flag
      BY <2>6 DEF NoEof, I!Count, I!At
    <3> QED BY <2>6, <3>1 DEF I!Count, I!At, I!clock
  <2>7. CASE I!After
    BY <2>7 DEF I!After, I!At, I!VTIME
  <2>8. CASE I!End
    BY <2>8 DEF I!End, I!At
  <2>9. CASE I!Handle
    BY <2>9 DEF I!Handle, I!At, I!call
  <2>10. CASE I!Tick
    <3>1. jiffies' \in 1..(LASTTICK + 1)
      BY <1>0, <2>10 DEF I!Tick
    <3> QED BY <2>10, <3>1 DEF I!Tick, I!call
  <2>11. CASE I!Schedule
    <3>1. UNCHANGED <<on, pc, flag, oldalarm, jiffies, asked>>
      BY <2>11 DEF I!Schedule, I!call
    <3>2. CASE alarm # 0 /\ alarm < jiffies
      BY <1>b, <2>11, <3>1, <3>2 DEF I!Schedule
    <3>3. CASE ~(alarm # 0 /\ alarm < jiffies)
      BY <2>11, <3>1, <3>3 DEF I!Schedule
    <3> QED BY <3>2, <3>3
  <2> QED BY <1>5, <2>3, <2>4, <2>5, <2>6, <2>7, <2>8, <2>9, <2>10, <2>11
<1> QED BY <1>1, <1>2, <1>3, <1>4, <1>5 DEF I!Next

\* tty_read() makes its time-out of the one alarm of the task and gives the task
\* back the alarm that it had asked for, whatever is typed, signalled, flushed or
\* changed meanwhile.
THEOREM AlarmsAreKept ==
  ASSUME AlarmsMayBeKept
  PROVE  Spec => []AlarmIsKept
<1>1. Init /\ part = "input" => AlarmInv
  <2>1. SIZE \in Nat \ {0, 1} /\ LASTTICK \in Nat /\ 0 \in 0..(SIZE - 1)
    BY KernelAssumption DEF I!TerminalInputAssumption
  <2>2. ASSUME Init, part = "input" PROVE AlarmInv
    <3>1. I!Init
      BY <2>2 DEF Init
    <3>2. 1 \in 1..(LASTTICK + 1)
      BY <2>1
    <3>3. InputTypes /\ NoEof
      BY <2>1, <3>1 DEF I!Init, InputTypes, NoEof, I!Char, I!Plain
    <3> QED BY <3>1, <3>2, <3>3 DEF I!Init, AlarmInv, AlarmsMayBeKept
  <2> QED BY <2>2
<1>2. (part = "input" => AlarmInv) /\ [Next]_vars => (part = "input" => AlarmInv)'
  <2> SUFFICES ASSUME part = "input" => AlarmInv, [Next]_vars, part' = "input"
               PROVE  AlarmInv'
    OBVIOUS
  <2>1. CASE I!Next /\ part = "input"
    BY <2>1, AlarmInvKept
  <2>2. CASE UNCHANGED <<part, on, pc, ofInput, ofTerminals, signal, alarm>>
    BY <2>2 DEF ofInput, ofTerminals, AlarmInv, InputTypes, NoEof
  <2> QED BY <2>1, <2>2 DEF Next, InputStep, OutputStep, ConsoleStep, ProcessesStep,
      SchedulerStep, FloppyStep, AllWait, vars
<1>3. (part = "input" => AlarmInv) => AlarmIsKept
  BY DEF AlarmInv, AlarmIsKept, I!AlarmIsKept
<1> QED BY <1>1, <1>2, <1>3, PTL DEF Spec

-----------------------------------------------------------------------------
(***************************************************************************)
(* The output of serial lines.                                             *)
(***************************************************************************)
\* The features of the run: the echo finds room and comes when no task is in
\* tty_write() (else it may overwrite what has not been sent).
EchoWaits == \A r \in OutputRegimes : "echo_any" \notin r

OutputTypes ==
    /\ head \in [Line -> 0..(SIZE - 1)] /\ tail \in [Line -> 0..(SIZE - 1)]
    /\ buf \in [Line -> [0..(SIZE - 1) -> O!Out]]
    /\ queued \in [Line -> Seq(O!Out)]
    /\ ier \in [Line -> BOOLEAN]
    /\ tty \in [Task -> Line] /\ text \in [Task -> Seq(O!Char)]
    /\ pc \in [Task -> {"out", "full", "check", "store", "advance", "start", "wait"}]
    /\ asleep \subseteq Task /\ running \in Task \cup {NULL}

\* The character that tty_write() puts next.
NextChar(t) == IF O!NeedsCR(t) THEN "cr" ELSE Head(text[t])

\* Where a task does not give up the processor.
Putting == {"check", "store", "advance", "start"}

\* Who puts a character has the processor, has found room, and has stored it
\* before it moves the head.
PuttersHaveRoom ==
    \A t \in Task :
       /\ pc[t] \in Putting => running = t /\ t \notin asleep
       /\ t \in asleep => pc[t] = "wait"
       /\ pc[t] \in {"store", "advance"} => text[t] # <<>> /\ Len(queued[tty[t]]) < SIZE - 1
       /\ pc[t] = "advance" => buf[tty[t]][head[tty[t]]] = NextChar(t)

LineHolds(l) == RingHolds(SIZE, head[l], tail[l], buf[l], queued[l])

\* A line that has something to send has the interrupt enabled, or will have it
\* by who is just putting.
LineSends(l) ==
    queued[l] = <<>> \/ ier[l] \/ \E t \in Task : pc[t] \in Putting /\ tty[t] = l

OutputInv ==
    /\ "echo_any" \notin on /\ OutputTypes
    /\ PuttersHaveRoom
    /\ \A l \in Line : LineHolds(l) /\ LineSends(l)
    /\ O!WriterHasHope

\* What the operators of the queue are, of a line that is whole.
LEMMA LineQueue ==
  ASSUME OutputTypes, NEW l \in Line, LineHolds(l)
  PROVE  /\ SIZE \in Nat \ {0, 1} /\ queued[l] \in Seq(O!Out) /\ Len(queued[l]) \in 0..(SIZE - 1)
         /\ head[l] \in 0..(SIZE - 1) /\ tail[l] \in 0..(SIZE - 1)
         /\ O!CHARS(l) = Len(queued[l])
         /\ O!LEFT(l) = SIZE - 1 - Len(queued[l])
         /\ O!EMPTY(l) <=> queued[l] = <<>>
         /\ \A i \in 1..Len(queued[l]) : buf[l][O!Mod(tail[l] + i - 1)] = queued[l][i]
<1>1. /\ SIZE \in Nat \ {0, 1} /\ queued[l] \in Seq(O!Out)
      /\ head[l] \in 0..(SIZE - 1) /\ tail[l] \in 0..(SIZE - 1)
  BY KernelAssumption DEF O!TerminalOutputAssumption, OutputTypes
<1>2. PICK n : n = Len(queued[l])
  OBVIOUS
<1>3. /\ n = Distance(SIZE, head[l], tail[l])
      /\ \A i \in 1..n : buf[l][Wrap(tail[l] + i - 1, SIZE)] = queued[l][i]
  BY <1>2 DEF LineHolds, RingHolds
<1>4. /\ (head[l] + SIZE - tail[l]) % SIZE = n
      /\ (tail[l] + SIZE - head[l] - 1) % SIZE = SIZE - 1 - n
      /\ n \in 0..(SIZE - 1) /\ (n = 0 <=> head[l] = tail[l])
  <2>1. PICK h : h = head[l]
    OBVIOUS
  <2>2. PICK k : k = tail[l]
    OBVIOUS
  <2>3. h \in 0..(SIZE - 1) /\ k \in 0..(SIZE - 1) /\ n = Distance(SIZE, h, k)
    BY <1>1, <1>3, <2>1, <2>2
  <2>4. /\ (h + SIZE - k) % SIZE = n /\ (k + SIZE - h - 1) % SIZE = SIZE - 1 - n
        /\ n \in 0..(SIZE - 1) /\ (n = 0 <=> h = k)
    <3>1. SIZE \in Nat \ {0, 1}
      BY <1>1
    <3>2. PICK m : m = SIZE
      OBVIOUS
    <3>a. m \in Nat \ {0, 1} /\ h \in 0..(m - 1) /\ k \in 0..(m - 1)
      BY <2>3, <3>1, <3>2
    <3>3. /\ (h + m - k) % m = Distance(m, h, k)
          /\ (k + m - h - 1) % m = m - 1 - Distance(m, h, k)
          /\ Distance(m, h, k) \in 0..(m - 1)
          /\ Distance(m, h, k) = 0 <=> h = k
      BY <3>a, RingDistances
    <3> QED BY <2>3, <3>2, <3>3
  <2> QED BY <2>1, <2>2, <2>4
<1>5. n = 0 <=> queued[l] = <<>>
  BY <1>1, <1>2
<1>6. ASSUME NEW i \in 1..n PROVE buf[l][O!Mod(tail[l] + i - 1)] = queued[l][i]
  <2>1. i \in 1..SIZE
    BY <1>1, <1>4
  <2> QED BY <1>1, <1>3, <2>1, RingPlaces DEF O!Mod
<1> QED BY <1>1, <1>2, <1>4, <1>5, <1>6 DEF O!CHARS, O!LEFT, O!EMPTY, O!Mod

\* A task moves on and the queues stay.
LEMMA QueuesStay ==
  ASSUME OutputInv, NEW t \in Task, UNCHANGED <<on, head, tail, buf, queued, cr_flag, tty>>,
         pc' \in [Task -> {"out", "full", "check", "store", "advance", "start", "wait"}],
         ier' \in [Line -> BOOLEAN], text' \in [Task -> Seq(O!Char)],
         \A u \in Task \ {t} : /\ pc'[u] = pc[u] /\ text'[u] = text[u]
                               /\ u \in asleep' <=> u \in asleep,
         asleep' \subseteq Task, running \in {NULL, t}, running' \in {NULL, t},
         pc'[t] \in Putting => running' = t /\ t \notin asleep',
         t \in asleep' => pc'[t] = "wait" /\ ier'[tty[t]],
         pc'[t] # "advance",
         pc'[t] = "store" => text'[t] # <<>> /\ Len(queued[tty[t]]) < SIZE - 1,
         \A l \in Line : ier[l] => ier'[l],
         pc[t] \in Putting /\ pc'[t] \notin Putting => ier'[tty[t]] \/ queued[tty[t]] = <<>>
  PROVE  OutputInv'
<1>1. NULL \notin Task
  BY KernelAssumption DEF O!TerminalOutputAssumption
<1>2. \A u \in Task \ {t} : pc[u] \notin Putting
  BY <1>1 DEF OutputInv, PuttersHaveRoom
<1>3. OutputTypes'
  BY DEF OutputInv, OutputTypes
<1>4. PuttersHaveRoom'
  <2> SUFFICES ASSUME NEW u \in Task
      PROVE  /\ pc'[u] \in Putting => running' = u /\ u \notin asleep'
             /\ u \in asleep' => pc'[u] = "wait"
             /\ pc'[u] \in {"store", "advance"} => text'[u] # <<>> /\ Len(queued[tty[u]]) < SIZE - 1
             /\ pc'[u] # "advance"
    BY DEF PuttersHaveRoom
  <2>1. CASE u = t
    BY <2>1
  <2>2. CASE u # t
    BY <1>2, <2>2 DEF OutputInv, PuttersHaveRoom, Putting
  <2> QED BY <2>1, <2>2
<1>5. ASSUME NEW l \in Line PROVE LineHolds(l)' /\ LineSends(l)'
  <2>1. LineHolds(l)'
    BY DEF LineHolds, OutputInv
  <2>2. LineSends(l)
    BY DEF OutputInv
  <2> QED BY <1>2, <2>1, <2>2 DEF LineSends
<1>6. O!WriterHasHope'
  BY DEF OutputInv, OutputTypes, O!WriterHasHope
<1> QED BY <1>3, <1>4, <1>5, <1>6 DEF OutputInv

\* tty_write(), except where it puts a character.
LEMMA WritingKeeps ==
  ASSUME OutputInv, NEW t \in Task,
         \/ O!Write(t) \/ O!SleepIfFull(t) \/ O!Wait(t) \/ O!Signal(t)
         \/ O!Check(t) \/ O!Start(t)
  PROVE  OutputInv'
<1>1. /\ OutputTypes /\ PuttersHaveRoom /\ O!WriterHasHope /\ tty[t] \in Line
      /\ LineHolds(tty[t]) /\ LineSends(tty[t]) /\ pc[t] \in {"out", "full", "check", "store", "advance", "start", "wait"}
      /\ STARTUP + ROOM < SIZE /\ STARTUP \in Nat \ {0} /\ ROOM \in Nat \ {0}
      /\ NULL \notin Task
  BY KernelAssumption DEF OutputInv, OutputTypes, O!TerminalOutputAssumption
<1>2. PICK n : n = Len(queued[tty[t]])
  OBVIOUS
<1>3. /\ n \in 0..(SIZE - 1) /\ O!LEFT(tty[t]) = SIZE - 1 - n /\ SIZE \in Nat \ {0, 1}
      /\ O!EMPTY(tty[t]) <=> queued[tty[t]] = <<>>
      /\ n = 0 <=> queued[tty[t]] = <<>>
  BY <1>1, <1>2, LineQueue
<1>4. UNCHANGED <<on, head, tail, buf, queued, cr_flag, tty>>
  BY DEF O!Write, O!SleepIfFull, O!Wait, O!Signal, O!Check, O!Start, O!queue
<1> USE DEF Putting
<1>5. CASE O!Write(t)
  <2>0. PICK k \in 1..MAXTEXT : \E z \in [1..k -> O!Char] : text' = [text EXCEPT ![t] = z]
    BY <1>5 DEF O!Write
  <2>1. PICK s \in [1..k -> O!Char] : text' = [text EXCEPT ![t] = s]
    BY <2>0
  <2>2. s \in Seq(O!Char)
    <3>1. k \in Nat
      BY KernelAssumption DEF O!TerminalOutputAssumption
    <3> QED BY <2>1, <3>1
  <2>3. text' \in [Task -> Seq(O!Char)] /\ \A u \in Task \ {t} : text'[u] = text[u]
    BY <1>1, <2>1, <2>2 DEF OutputTypes
  <2> QED BY <1>1, <1>4, <1>5, <2>3, QueuesStay
          DEF O!Write, O!At, O!Goto, OutputTypes
<1>6. CASE O!SleepIfFull(t)
  BY <1>1, <1>4, <1>6, QueuesStay DEF O!SleepIfFull, O!At, O!Goto, OutputTypes
<1>7. CASE O!Wait(t) /\ O!LEFT(tty[t]) < ROOM
  <2>1. /\ pc[t] = "wait" /\ running \in {NULL, t} /\ asleep' = asleep \cup {t}
        /\ running' = NULL /\ UNCHANGED <<pc, ier, text>>
    BY <1>7 DEF O!Wait, O!At
  <2>2. queued[tty[t]] # <<>>
    BY <1>1, <1>3, <1>7
  <2>3. ier[tty[t]]
    BY <1>1, <2>1, <2>2 DEF LineSends, PuttersHaveRoom
  <2> QED BY <1>1, <1>4, <2>1, <2>3, QueuesStay DEF OutputTypes
<1>8. CASE O!Wait(t) /\ ~(O!LEFT(tty[t]) < ROOM)
  <2>1. /\ pc[t] = "wait" /\ running \in {NULL, t} /\ running' = t /\ t \notin asleep
        /\ pc' = [pc EXCEPT ![t] = "check"] /\ UNCHANGED <<asleep, ier, text>>
    BY <1>8 DEF O!Wait, O!At, O!Goto
  <2> QED BY <1>1, <1>4, <2>1, QueuesStay DEF OutputTypes
<1>9. CASE O!Signal(t)
  <2>1. pc[t] = "wait"
    BY <1>1, <1>9 DEF O!Signal, PuttersHaveRoom
  <2>2. text' \in [Task -> Seq(O!Char)] /\ \A u \in Task \ {t} : text'[u] = text[u]
    BY <1>1, <1>9 DEF OutputTypes, O!Signal
  <2>3. OutputTypes' /\ O!WriterHasHope'
    BY <1>1, <1>4, <1>9, <2>2 DEF OutputTypes, O!Signal, O!WriterHasHope
  <2>4. PuttersHaveRoom'
    BY <1>1, <1>4, <1>9, <2>1, <2>2 DEF OutputTypes, O!Signal, PuttersHaveRoom, NextChar, O!NeedsCR
  <2>5. ASSUME NEW l \in Line PROVE LineHolds(l)' /\ LineSends(l)'
    <3>1. LineHolds(l)' /\ LineSends(l)
      BY <1>4 DEF OutputInv, LineHolds
    <3>2. \A u \in Task : pc[u] \in Putting => pc'[u] = pc[u]
      BY <1>1, <1>9, <2>1 DEF O!Signal, OutputTypes
    <3> QED BY <1>4, <1>9, <3>1, <3>2 DEF LineSends, O!Signal
  <2> QED BY <1>4, <2>3, <2>4, <2>5 DEF OutputInv
<1>10. CASE O!Check(t)
  <2>1. /\ pc[t] = "check" /\ t \notin asleep /\ running \in {NULL, t}
        /\ UNCHANGED <<ier, text, asleep>> /\ running' = t
        /\ pc' = [pc EXCEPT ![t] = IF text[t] = <<>> \/ O!LEFT(tty[t]) = 0 THEN "start" ELSE "store"]
    BY <1>10 DEF O!Check, O!At, O!Goto, O!FULL
  <2>2. O!LEFT(tty[t]) # 0 => Len(queued[tty[t]]) < SIZE - 1
    BY <1>2, <1>3
  <2> QED BY <1>1, <1>4, <2>1, <2>2, QueuesStay DEF OutputTypes
<1>11. CASE O!Start(t)
  <2>1. /\ pc[t] = "start" /\ t \notin asleep /\ running \in {NULL, t} /\ running' = NULL
        /\ UNCHANGED <<text, asleep>>
        /\ pc' = [pc EXCEPT ![t] = IF text[t] = <<>> THEN "out" ELSE "full"]
        /\ ier' = O!EnableTransmit(tty[t])
    BY <1>11 DEF O!Start, O!At
  <2>2. /\ ier' \in [Line -> BOOLEAN] /\ \A l \in Line : ier[l] => ier'[l]
        /\ ier'[tty[t]] \/ queued[tty[t]] = <<>>
    BY <1>1, <1>3, <2>1 DEF O!EnableTransmit, OutputTypes
  <2> QED BY <1>1, <1>4, <2>1, <2>2, QueuesStay DEF OutputTypes
<1> QED BY <1>5, <1>6, <1>7, <1>8, <1>9, <1>10, <1>11

\* PUTCH: the character is stored; then the head moves over it.
LEMMA StoreKeeps ==
  ASSUME OutputInv, NEW t \in Task, O!Store(t)
  PROVE  OutputInv'
<1>1. PICK l \in Line : l = tty[t]
  BY DEF OutputInv, OutputTypes
<1>2. PICK ch : ch = NextChar(t)
  OBVIOUS
<1>3. /\ OutputTypes /\ PuttersHaveRoom /\ pc[t] = "store" /\ t \notin asleep
      /\ running \in {NULL, t} /\ running' = t
      /\ pc' = [pc EXCEPT ![t] = "advance"]
      /\ buf' = [buf EXCEPT ![l][head[l]] = ch]
      /\ UNCHANGED <<on, head, tail, queued, ier, cr_flag, tty, text, asleep>>
  BY <1>1, <1>2 DEF O!Store, O!At, O!Goto, OutputInv, NextChar
<1>4. ch \in O!Out
  <2>1. text[t] \in Seq(O!Char) /\ text[t] # <<>>
    BY <1>3 DEF OutputTypes, PuttersHaveRoom
  <2>2. Head(text[t]) \in O!Char
    BY <2>1
  <2> QED BY <1>2, <2>2 DEF NextChar, O!Out
<1>5. PICK row : row = [buf[l] EXCEPT ![head[l]] = ch]
  OBVIOUS
<1>6. /\ row \in [0..(SIZE - 1) -> O!Out] /\ row[head[l]] = ch
      /\ \A i \in (0..(SIZE - 1)) \ {head[l]} : row[i] = buf[l][i]
      /\ buf' = [buf EXCEPT ![l] = row]
  BY <1>3, <1>4, <1>5 DEF OutputTypes
<1>7. buf'[l] = row /\ \A k \in Line \ {l} : buf'[k] = buf[k]
  BY <1>3, <1>6 DEF OutputTypes
<1>8. OutputTypes'
  BY <1>3, <1>6 DEF OutputTypes
<1>9. ASSUME NEW k \in Line PROVE LineHolds(k)'
  <2>1. CASE k = l
    <3>1. /\ RingHolds(SIZE, head[l], tail[l], buf[l], queued[l]) /\ SIZE \in Nat \ {0, 1}
          /\ head[l] \in 0..(SIZE - 1) /\ tail[l] \in 0..(SIZE - 1)
          /\ queued[l] \in Seq(O!Out)
      BY <1>3, LineQueue DEF OutputInv, LineHolds
    <3>2. RingHolds(SIZE, head[l], tail[l], row, queued[l])
      BY <1>4, <1>6, <3>1, RingPut
    <3> QED BY <1>3, <1>7, <2>1, <3>2 DEF LineHolds
  <2>2. CASE k # l
    BY <1>3, <1>7, <2>2 DEF LineHolds, OutputInv
  <2> QED BY <2>1, <2>2
<1>10. \A u \in Task : pc'[u] \in Putting <=> pc[u] \in Putting
  BY <1>3 DEF OutputTypes, Putting
<1>11. \A k \in Line : LineSends(k)'
  BY <1>3, <1>10 DEF OutputInv, LineSends
<1>12. \A u \in Task \ {t} : pc[u] \notin Putting
  BY <1>3, KernelAssumption DEF PuttersHaveRoom, O!TerminalOutputAssumption
<1>13. PuttersHaveRoom'
  <2>1. NextChar(t)' = ch
    BY <1>2, <1>3 DEF NextChar, O!NeedsCR
  <2>2. ASSUME NEW u \in Task
        PROVE  /\ pc'[u] \in Putting => running' = u /\ u \notin asleep'
               /\ u \in asleep' => pc'[u] = "wait"
               /\ pc'[u] \in {"store", "advance"} => text'[u] # <<>> /\ Len(queued'[tty'[u]]) < SIZE - 1
               /\ pc'[u] = "advance" => buf'[tty'[u]][head'[tty'[u]]] = NextChar(u)'
    <3>1. CASE u = t
      BY <1>1, <1>3, <1>6, <1>7, <2>1, <3>1 DEF PuttersHaveRoom, OutputTypes
    <3>2. CASE u # t
      BY <1>3, <1>12, <3>2 DEF PuttersHaveRoom, OutputTypes, Putting
    <3> QED BY <3>1, <3>2
  <2> QED BY <2>2 DEF PuttersHaveRoom
<1> QED BY <1>3, <1>8, <1>9, <1>11, <1>13 DEF OutputInv, O!WriterHasHope

\* The character before the head is the next of what is sent.
LEMMA AdvanceKeeps ==
  ASSUME OutputInv, NEW t \in Task, O!Advance(t)
  PROVE  OutputInv'
<1>1. PICK l \in Line : l = tty[t]
  BY DEF OutputInv, OutputTypes
<1>2. PICK ch : ch = NextChar(t)
  OBVIOUS
<1>3. /\ OutputTypes /\ PuttersHaveRoom /\ pc[t] = "advance" /\ t \notin asleep
      /\ running \in {NULL, t} /\ running' = t
      /\ pc' = [pc EXCEPT ![t] = "check"]
      /\ head' = [head EXCEPT ![l] = (head[l] + 1) % SIZE]
      /\ queued' = [queued EXCEPT ![l] = Append(queued[l], ch)]
      /\ text' = text \/ text' = [text EXCEPT ![t] = Tail(text[t])]
      /\ UNCHANGED <<on, tail, buf, ier, tty, asleep>>
  BY <1>1, <1>2 DEF O!Advance, O!At, O!Goto, O!Mod, OutputInv, NextChar
<1>4. ch \in O!Out /\ text' \in [Task -> Seq(O!Char)]
  <2>1. text[t] \in Seq(O!Char) /\ text[t] # <<>>
    BY <1>3 DEF OutputTypes, PuttersHaveRoom
  <2>2. Head(text[t]) \in O!Char /\ Tail(text[t]) \in Seq(O!Char)
    BY <2>1
  <2> QED BY <1>2, <1>3, <2>2 DEF NextChar, O!Out, OutputTypes
<1>5. /\ RingHolds(SIZE, head[l], tail[l], buf[l], queued[l]) /\ SIZE \in Nat \ {0, 1}
      /\ head[l] \in 0..(SIZE - 1) /\ tail[l] \in 0..(SIZE - 1)
      /\ queued[l] \in Seq(O!Out)
  BY <1>3, LineQueue DEF OutputInv, LineHolds
<1>6. buf[l][head[l]] = ch /\ Len(queued[l]) < SIZE - 1
  BY <1>1, <1>2, <1>3 DEF PuttersHaveRoom
<1>7. /\ RingHolds(SIZE, (head[l] + 1) % SIZE, tail[l], buf[l], Append(queued[l], ch))
      /\ (head[l] + 1) % SIZE \in 0..(SIZE - 1)
  <2>1. (head[l] + 1) % SIZE \in 0..(SIZE - 1)
    BY <1>5, RingNext
  <2>2. PICK h, k, b, s : h = head[l] /\ k = tail[l] /\ b = buf[l] /\ s = queued[l]
    OBVIOUS
  <2>3. /\ RingHolds(SIZE, h, k, b, s) /\ SIZE \in Nat \ {0, 1}
        /\ h \in 0..(SIZE - 1) /\ k \in 0..(SIZE - 1) /\ s \in Seq(O!Out)
        /\ ch \in O!Out /\ Len(s) < SIZE - 1 /\ b[h] = ch
    BY <1>4, <1>5, <1>6, <2>2
  <2>4. RingHolds(SIZE, (h + 1) % SIZE, k, b, Append(s, ch))
    BY <2>3, RingPut
  <2> QED BY <2>1, <2>2, <2>4
<1>8. Append(queued[l], ch) \in Seq(O!Out)
  BY <1>4, <1>5
<1>9. OutputTypes'
  BY <1>3, <1>4, <1>7, <1>8 DEF OutputTypes
<1>10. ASSUME NEW k \in Line PROVE LineHolds(k)' /\ LineSends(k)'
  <2>1. CASE k = l
    <3>1. pc'[t] \in Putting /\ tty'[t] = l
      BY <1>1, <1>3 DEF Putting, OutputTypes
    <3> QED BY <1>3, <1>7, <2>1, <3>1 DEF LineHolds, LineSends, OutputTypes
  <2>2. CASE k # l
    <3>1. \A u \in Task : pc[u] \in Putting /\ tty[u] = k => pc'[u] = pc[u]
      BY <1>1, <1>3, <2>2 DEF OutputTypes
    <3> QED BY <1>3, <2>2, <3>1 DEF LineHolds, LineSends, OutputInv, OutputTypes
  <2> QED BY <2>1, <2>2
<1>11. PuttersHaveRoom'
  <2>1. \A u \in Task \ {t} : pc[u] \notin Putting
    BY <1>3, KernelAssumption DEF PuttersHaveRoom, O!TerminalOutputAssumption
  <2> QED BY <1>3, <2>1 DEF PuttersHaveRoom, OutputTypes, Putting
<1> QED BY <1>3, <1>9, <1>10, <1>11 DEF OutputInv, O!WriterHasHope

\* The interrupt sends the character at the tail; when it is disabled nothing is
\* left to send and the writers are woken.
LEMMA TransmitKeeps ==
  ASSUME OutputInv, NEW l \in Line, O!Transmit(l)
  PROVE  OutputInv'
<1>1. /\ OutputTypes /\ PuttersHaveRoom /\ O!WriterHasHope /\ LineHolds(l)
      /\ STARTUP \in Nat \ {0} /\ NULL \notin Task
      /\ UNCHANGED <<on, head, buf, pc, tty, text, running>>
  BY KernelAssumption DEF OutputInv, O!Transmit, O!call, O!TerminalOutputAssumption
<1>2. /\ RingHolds(SIZE, head[l], tail[l], buf[l], queued[l]) /\ SIZE \in Nat \ {0, 1}
      /\ head[l] \in 0..(SIZE - 1) /\ tail[l] \in 0..(SIZE - 1)
      /\ queued[l] \in Seq(O!Out)
      /\ O!CHARS(l) = Len(queued[l])
      /\ O!EMPTY(l) <=> queued[l] = <<>>
  BY <1>1, LineQueue DEF LineHolds
<1>3. PICK g : g = IF queued[l] = <<>> THEN tail[l] ELSE (tail[l] + 1) % SIZE
  OBVIOUS
<1>4. PICK q : q = IF queued[l] = <<>> THEN <<>> ELSE Tail(queued[l])
  OBVIOUS
<1>5. /\ tail' = [tail EXCEPT ![l] = g] /\ queued' = [queued EXCEPT ![l] = q]
      /\ ier' = [ier EXCEPT ![l] = g # head[l]]
  <2>1. /\ ier' = [ier EXCEPT ![l] = tail'[l] # head[l]]
        /\ IF queued[l] = <<>> THEN UNCHANGED <<tail, queued>>
           ELSE /\ tail' = [tail EXCEPT ![l] = (tail[l] + 1) % SIZE]
                /\ queued' = [queued EXCEPT ![l] = IF queued[l] = <<>> THEN queued[l]
                                                   ELSE Tail(queued[l])]
    BY <1>2 DEF O!Transmit, O!Mod
  <2>2. tail' = [tail EXCEPT ![l] = g]
    BY <1>1, <1>3, <2>1 DEF OutputTypes
  <2>3. queued' = [queued EXCEPT ![l] = q]
    BY <1>1, <1>4, <2>1 DEF OutputTypes
  <2>4. tail'[l] = g
    BY <1>1, <2>2 DEF OutputTypes
  <2> QED BY <2>1, <2>2, <2>3, <2>4
<1>6. /\ RingHolds(SIZE, head[l], g, buf[l], q) /\ g \in 0..(SIZE - 1) /\ q \in Seq(O!Out)
      /\ Len(q) <= Len(queued[l])
      /\ g = head[l] => Len(queued[l]) <= 1 /\ q = <<>>
  <2>1. CASE queued[l] = <<>>
    BY <1>2, <1>3, <1>4, <2>1
  <2>2. CASE queued[l] # <<>>
    <3>1. /\ RingHolds(SIZE, head[l], g, buf[l], q)
          /\ g = head[l] <=> Len(queued[l]) = 1
      <4>1. PICK h, k, b, s : h = head[l] /\ k = tail[l] /\ b = buf[l] /\ s = queued[l]
        OBVIOUS
      <4>2. /\ RingHolds(SIZE, h, k, b, s) /\ SIZE \in Nat \ {0, 1}
            /\ h \in 0..(SIZE - 1) /\ k \in 0..(SIZE - 1) /\ s \in Seq(O!Out)
        BY <1>2, <4>1
      <4>3. s # <<>>
        BY <2>2, <4>1
      <4>4. /\ RingHolds(SIZE, h, (k + 1) % SIZE, b, Tail(s))
            /\ (k + 1) % SIZE = h <=> Len(s) = 1
        BY <4>2, <4>3, RingGet
      <4> QED BY <1>3, <1>4, <2>2, <4>1, <4>4
    <3>2. g \in 0..(SIZE - 1)
      BY <1>2, <1>3, <2>2, RingNext
    <3>3. q \in Seq(O!Out) /\ Len(q) = Len(queued[l]) - 1 /\ Len(queued[l]) \in Nat
      BY <1>2, <1>4, <2>2
    <3>4. Len(q) = 0 => q = <<>>
      BY <3>3
    <3> QED BY <3>1, <3>2, <3>3, <3>4
  <2> QED BY <2>1, <2>2
<1>7. /\ asleep' \subseteq asleep
      /\ g = head[l] => \A t \in asleep' : tty[t] # l
  <2>1. g = head[l] => O!CHARS(l) <= STARTUP
    BY <1>1, <1>2, <1>6
  <2> QED BY <2>1 DEF O!Transmit, O!WakeWriters
<1>8. OutputTypes'
  BY <1>1, <1>5, <1>6, <1>7 DEF OutputTypes
<1>9. /\ tail'[l] = g /\ queued'[l] = q /\ ier'[l] = (g # head[l])
      /\ \A k \in Line \ {l} : tail'[k] = tail[k] /\ queued'[k] = queued[k] /\ ier'[k] = ier[k]
  BY <1>1, <1>2, <1>5 DEF OutputTypes
<1>10. ASSUME NEW k \in Line PROVE LineHolds(k)' /\ LineSends(k)'
  <2>1. CASE k = l
    BY <1>1, <1>6, <1>9, <2>1 DEF LineHolds, LineSends
  <2>2. CASE k # l
    BY <1>1, <1>9, <2>2 DEF LineHolds, LineSends, OutputInv
  <2> QED BY <2>1, <2>2
<1>11. O!WriterHasHope'
  BY <1>1, <1>7, <1>9 DEF O!WriterHasHope, OutputTypes
<1>12. PuttersHaveRoom'
  <2>1. ASSUME NEW t \in Task PROVE Len(queued'[tty[t]]) < SIZE - 1 \/ ~(Len(queued[tty[t]]) < SIZE - 1)
    <3>1. CASE tty[t] = l
      BY <1>2, <1>6, <1>9, <3>1
    <3>2. CASE tty[t] # l
      BY <1>1, <1>9, <3>2 DEF OutputTypes
    <3> QED BY <3>1, <3>2
  <2>2. \A t \in Task : NextChar(t)' = NextChar(t) \/ pc[t] # "advance"
    <3>1. \A t \in Task : pc[t] = "advance" => UNCHANGED cr_flag
      BY DEF O!Transmit
    <3> QED BY <1>1, <3>1 DEF NextChar, O!NeedsCR
  <2> QED BY <1>1, <1>7, <2>1, <2>2 DEF PuttersHaveRoom
<1> QED BY <1>1, <1>8, <1>10, <1>11, <1>12 DEF OutputInv

\* The echo finds room; ioctl() drops what is left. Nobody is in tty_write().
LEMMA OthersKeep ==
  ASSUME OutputInv, NEW l \in Line, O!Echo(l) \/ O!FlushOutput(l)
  PROVE  OutputInv'
<1>1. /\ OutputTypes /\ PuttersHaveRoom /\ O!WriterHasHope /\ LineHolds(l)
      /\ NULL \notin Task /\ running = NULL
      /\ UNCHANGED <<on, tail, pc, tty, text, running, asleep>>
  BY KernelAssumption
     DEF OutputInv, O!Echo, O!FlushOutput, O!call, O!TerminalOutputAssumption
<1>2. /\ RingHolds(SIZE, head[l], tail[l], buf[l], queued[l]) /\ SIZE \in Nat \ {0, 1}
      /\ head[l] \in 0..(SIZE - 1) /\ tail[l] \in 0..(SIZE - 1)
      /\ queued[l] \in Seq(O!Out)
      /\ O!LEFT(l) = SIZE - 1 - Len(queued[l]) /\ Len(queued[l]) \in 0..(SIZE - 1)
  BY <1>1, LineQueue DEF LineHolds
<1>3. \A t \in Task : pc[t] \notin Putting
  BY <1>1 DEF PuttersHaveRoom
<1>4. PuttersHaveRoom'
  BY <1>1, <1>3 DEF PuttersHaveRoom, Putting
<1>5. CASE O!Echo(l)
  <2>1. PICK row : row = [buf[l] EXCEPT ![head[l]] = "echo"]
    OBVIOUS
  <2>2. PICK g : g = (head[l] + 1) % SIZE
    OBVIOUS
  <2>3. PICK q : q = Append(queued[l], "echo")
    OBVIOUS
  <2>4. /\ buf' = [buf EXCEPT ![l] = row] /\ head' = [head EXCEPT ![l] = g]
        /\ queued' = [queued EXCEPT ![l] = q]
        /\ ier' = [ier EXCEPT ![l] = g = tail[l] => ier[l]]
        /\ Len(queued[l]) < SIZE - 1
    <3>1. Len(queued[l]) < SIZE - 1
      BY <1>2, <1>5 DEF O!Echo, OutputInv, O!FULL
    <3>2. head'[l] = g
      BY <1>1, <1>5, <2>2 DEF O!Echo, O!Mod, OutputTypes
    <3> QED BY <1>5, <2>1, <2>2, <2>3, <3>1, <3>2 DEF O!Echo, O!Mod, OutputTypes
  <2>5. /\ row \in [0..(SIZE - 1) -> O!Out] /\ row[head[l]] = "echo"
        /\ \A i \in (0..(SIZE - 1)) \ {head[l]} : row[i] = buf[l][i]
        /\ "echo" \in O!Out
    BY <1>1, <1>2, <2>1 DEF OutputTypes, O!Out
  <2>6. /\ RingHolds(SIZE, g, tail[l], row, q) /\ g # tail[l] /\ g \in 0..(SIZE - 1)
        /\ q \in Seq(O!Out)
    <3>1. g \in 0..(SIZE - 1)
      BY <1>2, <2>2, RingNext
    <3>2. q \in Seq(O!Out)
      BY <1>2, <2>3, <2>5
    <3>3. PICK h, k, b, s : h = head[l] /\ k = tail[l] /\ b = buf[l] /\ s = queued[l]
      OBVIOUS
    <3>4. /\ RingHolds(SIZE, h, k, b, s) /\ SIZE \in Nat \ {0, 1}
          /\ h \in 0..(SIZE - 1) /\ k \in 0..(SIZE - 1) /\ s \in Seq(O!Out)
          /\ "echo" \in O!Out /\ Len(s) < SIZE - 1 /\ row[h] = "echo"
          /\ \A i \in (0..(SIZE - 1)) \ {h} : row[i] = b[i]
      BY <1>2, <2>4, <2>5, <3>3
    <3>5. RingHolds(SIZE, (h + 1) % SIZE, k, row, Append(s, "echo")) /\ (h + 1) % SIZE # k
      BY <3>4, RingPut
    <3> QED BY <2>2, <2>3, <3>1, <3>2, <3>3, <3>5
  <2>7. OutputTypes'
    BY <1>1, <2>4, <2>5, <2>6 DEF OutputTypes
  <2>8. /\ buf'[l] = row /\ head'[l] = g /\ queued'[l] = q /\ ier'[l]
        /\ \A k \in Line \ {l} : /\ buf'[k] = buf[k] /\ head'[k] = head[k]
                                 /\ queued'[k] = queued[k] /\ ier'[k] = ier[k]
    BY <1>1, <2>4, <2>6 DEF OutputTypes
  <2>9. ASSUME NEW k \in Line PROVE LineHolds(k)' /\ LineSends(k)'
    <3>1. CASE k = l
      BY <1>1, <2>6, <2>8, <3>1 DEF LineHolds, LineSends
    <3>2. CASE k # l
      BY <1>1, <1>3, <2>8, <3>2 DEF LineHolds, LineSends, OutputInv
    <3> QED BY <3>1, <3>2
  <2>10. O!WriterHasHope'
    BY <1>1, <2>8 DEF O!WriterHasHope, OutputTypes
  <2> QED BY <1>1, <1>4, <2>7, <2>9, <2>10 DEF OutputInv
<1>6. CASE O!FlushOutput(l)
  <2>1. /\ UNCHANGED <<buf, ier>> /\ head' = [head EXCEPT ![l] = tail[l]]
        /\ queued' = [queued EXCEPT ![l] = <<>>]
    BY <1>6 DEF O!FlushOutput
  <2>2. OutputTypes'
    BY <1>1, <1>2, <2>1 DEF OutputTypes
  <2>3. /\ head'[l] = tail[l] /\ queued'[l] = <<>>
        /\ \A k \in Line \ {l} : head'[k] = head[k] /\ queued'[k] = queued[k]
    BY <1>1, <2>1 DEF OutputTypes
  <2>4. RingHolds(SIZE, tail[l], tail[l], buf[l], <<>>)
    BY <1>2 DEF RingHolds, Distance
  <2>5. ASSUME NEW k \in Line PROVE LineHolds(k)' /\ LineSends(k)'
    <3>1. CASE k = l
      BY <1>1, <2>1, <2>3, <2>4, <3>1 DEF LineHolds, LineSends
    <3>2. CASE k # l
      BY <1>1, <1>3, <2>1, <2>3, <3>2 DEF LineHolds, LineSends, OutputInv
    <3> QED BY <3>1, <3>2
  <2> QED BY <1>1, <1>4, <2>1, <2>2, <2>5 DEF OutputInv, O!WriterHasHope
<1> QED BY <1>5, <1>6

\* Every step of the output of serial lines keeps it.
LEMMA OutputInvKept ==
  ASSUME OutputInv, O!Next
  PROVE  OutputInv'
BY WritingKeeps, StoreKeeps, AdvanceKeeps, TransmitKeeps, OthersKeep DEF O!Next

\* The same for the parts together.
OutputStart == part = "output" => OutputInv

\* The invariant holds in the kernel.
LEMMA OutputInvHolds ==
  ASSUME EchoWaits
  PROVE  Spec => []OutputStart
<1>1. Init => OutputStart
  <2> SUFFICES ASSUME Init, part = "output" PROVE OutputInv
    BY DEF OutputStart
  <2>1. O!Init
    BY DEF Init
  <2>2. SIZE \in Nat \ {0, 1} /\ 0 \in 0..(SIZE - 1)
    BY KernelAssumption DEF O!TerminalOutputAssumption
  <2>3. OutputTypes
    BY <2>1, <2>2 DEF O!Init, OutputTypes, O!Out, O!Char
  <2>4. "echo_any" \notin on
    BY <2>1 DEF O!Init, EchoWaits
  <2>5. \A l \in Line : LineHolds(l) /\ LineSends(l)
    BY <2>1, <2>2 DEF O!Init, LineHolds, LineSends, RingHolds, Distance
  <2>6. PuttersHaveRoom /\ O!WriterHasHope
    BY <2>1 DEF O!Init, PuttersHaveRoom, O!WriterHasHope, Putting
  <2> QED BY <2>3, <2>4, <2>5, <2>6 DEF OutputInv
<1>2. OutputStart /\ [Next]_vars => OutputStart'
  <2> SUFFICES ASSUME OutputStart, [Next]_vars, part' = "output"
               PROVE  OutputInv'
    BY DEF OutputStart
  <2>1. CASE O!Next /\ part = "output"
    BY <2>1, OutputInvKept DEF OutputStart
  <2>2. CASE UNCHANGED <<part, on, pc, ofTerminals, ofOutput>>
    <3>1. OutputInv /\ UNCHANGED <<on, head, tail, buf, queued, ier, cr_flag, pc, tty, text, asleep, running>>
      BY <2>2 DEF OutputStart, ofTerminals, ofOutput
    <3> QED BY <3>1 DEF OutputInv, OutputTypes, PuttersHaveRoom, NextChar, O!NeedsCR,
                        LineHolds, LineSends, O!WriterHasHope
  <2> QED BY <2>1, <2>2 DEF Next, InputStep, OutputStep, ConsoleStep, ProcessesStep,
      SchedulerStep, FloppyStep, AllWait, vars
<1> QED BY <1>1, <1>2, PTL DEF Spec

\* What the interrupt sends is what was written, in order, whatever tty_write(),
\* the echo, the interrupt and TCFLSH do to the two ends of the ring in between.
THEOREM OutputIsSent ==
  ASSUME EchoWaits
  PROVE  Spec => []QueueIsTheOutput
<1>1. OutputStart => QueueIsTheOutput
  <2> SUFFICES ASSUME part = "output", OutputInv, NEW l \in Line
      PROVE  /\ O!CHARS(l) = Len(queued[l])
             /\ \A i \in 1..Len(queued[l]) : buf[l][O!Mod(tail[l] + i - 1)] = queued[l][i]
    BY DEF OutputStart, QueueIsTheOutput, O!QueueIsTheOutput
  <2> QED BY LineQueue DEF OutputInv
<1> QED BY <1>1, OutputInvHolds, PTL
-----------------------------------------------------------------------------
(***************************************************************************)
(* The input of a terminal: the queue.                                     *)
(***************************************************************************)
\* The features of the run: no character is erased that a task is about to take.
NothingIsTakenBack == \A r \in InputRegimes : "taken_back" \notin r

Ends == {"nl", "eof"}

\* Who has looked finds a character, although the interrupt may remove some.
TakersFind ==
    /\ asleep => pc = "loop"
    /\ nr \in Nat /\ (pc \in {"take", "count"} => nr # 0)
    /\ pc = "take" => line # <<>>
    /\ I!TakesUnended /\ intr => ~I!Erases(read_q)

LinesCounted ==
    data = Cardinality(Marks(line, Ends)) + (IF pc = "count" /\ c \in Ends THEN 1 ELSE 0)

LineInv ==
    /\ "taken_back" \notin on
    /\ InputTypes /\ line \in Seq(I!Char)
    /\ RingHolds(SIZE, head, tail, buf, line)
    /\ LinesCounted
    /\ TakersFind

\* What the operators of the queue are while it is whole.
LEMMA InputQueue ==
  ASSUME InputTypes, line \in Seq(I!Char), RingHolds(SIZE, head, tail, buf, line)
  PROVE  /\ SIZE \in Nat \ {0, 1} /\ Len(line) \in 0..(SIZE - 1)
         /\ I!Mod(head + SIZE - tail) = Len(line)
         /\ I!LEFT = SIZE - 1 - Len(line)
         /\ I!EMPTY <=> line = <<>>
         /\ \A i \in 1..Len(line) : buf[I!Mod(tail + i - 1)] = line[i]
<1>1. /\ SIZE \in Nat \ {0, 1} /\ head \in 0..(SIZE - 1) /\ tail \in 0..(SIZE - 1)
  BY KernelAssumption DEF I!TerminalInputAssumption, InputTypes
<1>2. PICK n : n = Len(line)
  OBVIOUS
<1>3. /\ n = Distance(SIZE, head, tail)
      /\ \A i \in 1..n : buf[Wrap(tail + i - 1, SIZE)] = line[i]
  BY <1>2 DEF RingHolds
<1>4. /\ (head + SIZE - tail) % SIZE = n
      /\ (tail + SIZE - head - 1) % SIZE = SIZE - 1 - n
      /\ n \in 0..(SIZE - 1) /\ (n = 0 <=> head = tail)
  <2>1. PICK h, k, m : h = head /\ k = tail /\ m = SIZE
    OBVIOUS
  <2>2. m \in Nat \ {0, 1} /\ h \in 0..(m - 1) /\ k \in 0..(m - 1)
    BY <1>1, <2>1
  <2>3. /\ (h + m - k) % m = Distance(m, h, k)
        /\ (k + m - h - 1) % m = m - 1 - Distance(m, h, k)
        /\ Distance(m, h, k) \in 0..(m - 1)
        /\ Distance(m, h, k) = 0 <=> h = k
    BY <2>2, RingDistances
  <2> QED BY <1>3, <2>1, <2>3
<1>5. n = 0 <=> line = <<>>
  BY <1>2
<1>6. ASSUME NEW i \in 1..n PROVE buf[I!Mod(tail + i - 1)] = line[i]
  <2>1. i \in 1..SIZE
    BY <1>1, <1>4
  <2> QED BY <1>1, <1>3, <2>1, RingPlaces DEF I!Mod
<1> QED BY <1>1, <1>2, <1>4, <1>5, <1>6 DEF I!LEFT, I!EMPTY, I!Mod

\* What is typed stays what it is through each step.
LEMMA TypesAreKept ==
  ASSUME InputTypes, I!Next
  PROVE  InputTypes'
<1>1. SIZE \in Nat \ {0, 1}
  BY KernelAssumption DEF I!TerminalInputAssumption
<1>2. CASE I!Receive \/ I!FlushInput
  <2>1. UNCHANGED <<canon, buf, head, tail, c>>
    BY <1>2 DEF I!Receive, I!FlushInput, I!queue, I!call
  <2>2. read_q' \in Seq(I!Char)
    <3>1. \A ch \in I!Typed : ch \in I!Char
      BY DEF I!Typed, I!Char, I!Plain
    <3>2. \A s \in Seq(I!Char), ch \in I!Char : Append(s, ch) \in Seq(I!Char)
      OBVIOUS
    <3>3. read_q \in Seq(I!Char) /\ <<>> \in Seq(I!Char)
      BY DEF InputTypes
    <3>4. \/ read_q' \in {read_q, <<>>}
          \/ \E ch \in I!Typed : read_q' = Append(read_q, ch)
      BY <1>2 DEF I!Receive, I!FlushInput
    <3> QED BY <3>1, <3>2, <3>3, <3>4
  <2> QED BY <2>1, <2>2 DEF InputTypes
<1>3. CASE I!Cook
  <2>1. /\ read_q \in Seq(I!Char) /\ read_q # <<>> /\ read_q' = Tail(read_q)
        /\ UNCHANGED <<canon, c>>
    BY <1>3 DEF I!Cook, InputTypes, I!call
  <2>2. read_q' \in Seq(I!Char) /\ Head(read_q) \in I!Char
    BY <2>1
  <2>3. \A n \in Nat : I!Mod(n) \in 0..(SIZE - 1)
    BY <1>1 DEF I!Mod
  <2>4. CASE I!Put(Head(read_q))
    <3>1. head + 1 \in Nat
      BY <1>1 DEF InputTypes
    <3> QED BY <2>1, <2>2, <2>3, <2>4, <3>1 DEF InputTypes, I!Put
  <2>5. CASE I!Kill
    <3>1. \A k \in 0..(SIZE - 1) : head + SIZE - k \in Nat
      BY <1>1 DEF InputTypes
    <3>2. head' \in 0..(SIZE - 1) /\ UNCHANGED <<tail, buf>>
      BY <2>3, <2>5, <3>1 DEF I!Kill
    <3> QED BY <2>1, <2>2, <3>2 DEF InputTypes
  <2>6. CASE I!EraseOne
    <3>1. head + SIZE - 1 \in Nat
      BY <1>1 DEF InputTypes
    <3>2. head' \in 0..(SIZE - 1) /\ UNCHANGED <<tail, buf>>
      BY <2>3, <2>6, <3>1 DEF I!EraseOne, InputTypes
    <3> QED BY <2>1, <2>2, <3>2 DEF InputTypes
  <2>7. CASE UNCHANGED I!queue
    BY <2>1, <2>2, <2>7 DEF InputTypes, I!queue
  <2> QED BY <1>3, <2>4, <2>5, <2>6, <2>7 DEF I!Cook
<1>4. CASE I!Take
  <2>1. buf[tail] \in I!Char /\ tail + 1 \in Nat
    BY <1>1 DEF InputTypes
  <2>2. tail' \in 0..(SIZE - 1)
    BY <1>1, <1>4, <2>1 DEF I!Take, I!Mod
  <2> QED BY <1>4, <2>1, <2>2 DEF InputTypes, I!Take, I!Unread
<1>5. CASE I!Read
  BY <1>5 DEF InputTypes, I!Read, I!Unread, I!queue, I!Char, I!Plain
<1>6. CASE I!Cooked \/ I!SetAlarm \/ I!Loop \/ I!Count \/ I!After \/ I!End \/ I!Handle
          \/ I!Tick \/ I!Schedule \/ I!SetMode
  <2>1. UNCHANGED <<read_q, buf, head, tail, c>> /\ canon' \in BOOLEAN
    BY <1>6 DEF I!Cooked, I!SetAlarm, I!Loop, I!Count, I!After, I!End, I!Handle,
       I!Tick, I!Schedule, I!SetMode, I!Unread, I!queue, I!call, InputTypes
  <2> QED BY <2>1 DEF InputTypes
<1> QED BY <1>2, <1>3, <1>4, <1>5, <1>6 DEF I!Next

\* A ring read backwards from its head.
ReadsBack(m, h, b, s, n) == \A i \in 1..n : b[(h + m - i) % m] = s[n + 1 - i]

\* RingDrop with the length of the sequence given.
LEMMA DropFromRing ==
  ASSUME NEW m \in Nat \ {0, 1}, NEW h \in 0..(m - 1), NEW t \in 0..(m - 1), NEW b,
         NEW X, NEW s \in Seq(X), RingHolds(m, h, t, b, s), NEW n, n = Len(s), NEW j \in 0..n
  PROVE  /\ RingHolds(m, (h + m - j) % m, t, b, SubSeq(s, 1, n - j))
         /\ ReadsBack(m, h, b, s, n)
<1>1. j \in 0..Len(s)
  OBVIOUS
<1>2. RingHolds(m, (h + m - j) % m, t, b, SubSeq(s, 1, Len(s) - j))
  BY <1>1, RingDrop
<1>3. \A i \in 1..Len(s) : b[(h + m - i) % m] = s[Len(s) + 1 - i]
  BY <1>1, RingDrop
<1> QED BY <1>2, <1>3 DEF ReadsBack

\* Characters that end no line are taken back from the end: so much stays.
LEMMA TakingBackKeeps ==
  ASSUME LineInv, NEW k \in 0..Len(line),
         \A i \in 1..k : buf[I!Mod(head + SIZE - i)] \notin Ends,
         head' = I!Mod(head + SIZE - k), line' = SubSeq(line, 1, Len(line) - k),
         I!TakesUnended => FALSE,
         UNCHANGED <<on, canon, tail, buf, data, pc, nr, c, asleep>>,
         InputTypes', canon
  PROVE  LineInv'
<1>1. PICK n, h, t, b, s, m, j :
        n = Len(line) /\ h = head /\ t = tail /\ b = buf /\ s = line /\ m = SIZE /\ j = k
  OBVIOUS
<1>2. /\ m \in Nat \ {0, 1} /\ h \in 0..(m - 1) /\ t \in 0..(m - 1) /\ s \in Seq(I!Char)
      /\ RingHolds(m, h, t, b, s) /\ n = Len(s) /\ n \in Nat /\ j \in 0..n
      /\ \A i \in 1..j : b[(h + m - i) % m] \notin Ends
  BY <1>1, KernelAssumption DEF LineInv, InputTypes, I!TerminalInputAssumption, I!Mod
<1>3. /\ RingHolds(m, (h + m - j) % m, t, b, SubSeq(s, 1, n - j))
      /\ \A i \in 1..n : b[(h + m - i) % m] = s[n + 1 - i]
  <2>1. PICK X : X = I!Char
    OBVIOUS
  <2>2. /\ m \in Nat \ {0, 1} /\ h \in 0..(m - 1) /\ t \in 0..(m - 1) /\ s \in Seq(X)
        /\ RingHolds(m, h, t, b, s) /\ n = Len(s) /\ j \in 0..n
    BY <1>2, <2>1
  <2>3. RingHolds(m, (h + m - j) % m, t, b, SubSeq(s, 1, n - j))
    BY ONLY <2>2, DropFromRing
  <2>4. ReadsBack(m, h, b, s, n)
    BY ONLY <2>2, DropFromRing
  <2> QED BY <2>3, <2>4 DEF ReadsBack
<1>4. PICK u : u = SubSeq(s, 1, n - j)
  OBVIOUS
<1>5. /\ u \in Seq(I!Char) /\ Len(u) = n - j /\ \A i \in 1..(n - j) : u[i] = s[i]
  BY <1>2, <1>4
<1>6. ASSUME NEW i \in (Len(u) + 1)..Len(s) PROVE s[i] \notin Ends
  <2>1. PICK g : g = n + 1 - i
    OBVIOUS
  <2>2. g \in 1..j /\ i = n + 1 - g /\ g \in 1..n
    BY <1>2, <1>5, <2>1
  <2> QED BY <1>2, <1>3, <2>2
<1>7. Marks(u, Ends) = Marks(s, Ends)
  <2>1. Len(s) \in Nat /\ Len(u) \in 0..Len(s) /\ \A i \in 1..Len(u) : u[i] = s[i]
    <3>1. Len(s) = n /\ n \in Nat /\ j \in 0..n
      BY <1>2
    <3>2. Len(u) = n - j /\ \A i \in 1..(n - j) : u[i] = s[i]
      BY <1>5
    <3> QED BY ONLY <3>1, <3>2
  <2>2. \A i \in (Len(u) + 1)..Len(s) : s[i] \notin Ends
    BY <1>6
  <2> QED BY <2>1, <2>2, MarksDrop
<1>8. /\ line' = u /\ u \in Seq(I!Char) /\ RingHolds(SIZE, head', tail, buf, u)
      /\ Marks(u, Ends) = Marks(line, Ends)
  BY <1>1, <1>3, <1>4, <1>5, <1>7 DEF I!Mod
<1>9. LinesCounted'
  BY <1>8 DEF LineInv, LinesCounted
<1>10. TakersFind'
  <2>1. pc = "take" => u # <<>> /\ data # 0
    <3>1. ASSUME pc = "take" PROVE u # <<>> /\ data # 0
      <4>1. data # 0 /\ Cardinality(Marks(u, Ends)) # 0
        BY <1>8, <3>1 DEF LineInv, LinesCounted, I!TakesUnended
      <4>2. \E i \in 1..Len(u) : u[i] \in Ends
        BY <1>5, <4>1, MarksAreFinite
      <4> QED BY <4>1, <4>2
    <3> QED BY <3>1
  <2> QED BY <1>8, <2>1 DEF LineInv, TakersFind, I!TakesUnended
<1> QED BY <1>8, <1>9, <1>10 DEF LineInv

\* PUTCH into a queue that has room.
LEMMA PuttingKeeps ==
  ASSUME LineInv, NEW ch \in I!Char, I!Put(ch), I!LEFT # 0,
         UNCHANGED <<on, canon, pc, nr, c, asleep>>, InputTypes', intr,
         I!Erases(read_q)' => I!Erases(read_q)
  PROVE  LineInv'
<1>1. /\ SIZE \in Nat \ {0, 1} /\ head \in 0..(SIZE - 1) /\ tail \in 0..(SIZE - 1)
      /\ line \in Seq(I!Char) /\ RingHolds(SIZE, head, tail, buf, line)
      /\ buf \in [0..(SIZE - 1) -> I!Char]
      /\ Len(line) \in 0..(SIZE - 1) /\ Len(line) \in Nat /\ I!LEFT = SIZE - 1 - Len(line)
  BY InputQueue DEF LineInv, InputTypes
<1>2. PICK u : u = Append(line, ch)
  OBVIOUS
<1>3. /\ u \in Seq(I!Char) /\ Len(u) = Len(line) + 1 /\ u[Len(line) + 1] = ch
      /\ u # <<>> /\ \A i \in 1..Len(line) : u[i] = line[i]
  BY <1>1, <1>2
<1>4. /\ buf' = [buf EXCEPT ![head] = ch] /\ head' = (head + 1) % SIZE
      /\ line' = u /\ tail' = tail
      /\ data' = data + (IF ch \in Ends THEN 1 ELSE 0)
  <2>1. data \in Nat
    <3>1. Cardinality(Marks(line, Ends)) \in Nat
      BY <1>1, MarksAreFinite
    <3> QED BY <3>1 DEF LineInv, LinesCounted
  <2> QED BY <1>2, <2>1 DEF I!Put, I!Mod, Ends
<1>5. RingHolds(SIZE, head', tail, buf', line')
  <2>1. Len(line) < SIZE - 1 /\ buf'[head] = ch
        /\ \A i \in (0..(SIZE - 1)) \ {head} : buf'[i] = buf[i]
    <3>1. Len(line) < SIZE - 1
      BY <1>1
    <3>2. buf'[head] = ch
      BY <1>1, <1>4
    <3>3. \A i \in (0..(SIZE - 1)) \ {head} : buf'[i] = buf[i]
      BY <1>1, <1>4
    <3> QED BY <3>1, <3>2, <3>3
  <2> QED BY <1>1, <1>2, <1>4, <2>1, RingPut
<1>6. LinesCounted'
  <2>1. /\ Cardinality(Marks(u, Ends)) = Cardinality(Marks(line, Ends)) + (IF ch \in Ends THEN 1 ELSE 0)
        /\ Cardinality(Marks(line, Ends)) \in Nat
    <3>1. PICK s, n : s = line /\ n = Len(s)
      OBVIOUS
    <3>2. /\ Len(s) \in Nat /\ Len(u) = Len(s) + 1 /\ u[Len(s) + 1] = ch
          /\ \A i \in 1..Len(s) : u[i] = s[i]
      BY <1>1, <1>3, <3>1
    <3>3. Cardinality(Marks(u, Ends)) = Cardinality(Marks(s, Ends)) + (IF ch \in Ends THEN 1 ELSE 0)
      BY <3>2, MarksAppend
    <3>4. Cardinality(Marks(s, Ends)) \in Nat
      BY <3>2, MarksAreFinite
    <3> QED BY <3>1, <3>3, <3>4
  <2> QED BY <1>4, <2>1 DEF LineInv, LinesCounted
<1>7. TakersFind'
  <2>1. data # 0 => data' # 0
    <3>1. Cardinality(Marks(line, Ends)) \in Nat
      BY <1>1, MarksAreFinite
    <3> QED BY <1>4, <3>1 DEF LineInv, LinesCounted
  <2>2. I!TakesUnended' => I!TakesUnended
    BY <2>1 DEF I!TakesUnended
  <2> QED BY <1>3, <1>4, <2>2 DEF LineInv, TakersFind, I!TakesUnended
<1> QED BY <1>3, <1>4, <1>5, <1>6, <1>7 DEF LineInv

\* copy_to_cooked(): the interrupt edits the line.
LEMMA CookKeeps ==
  ASSUME LineInv, I!Cook
  PROVE  LineInv'
<1>1. /\ InputTypes /\ line \in Seq(I!Char) /\ RingHolds(SIZE, head, tail, buf, line)
      /\ SIZE \in Nat \ {0, 1} /\ head \in 0..(SIZE - 1) /\ tail \in 0..(SIZE - 1)
      /\ read_q \in Seq(I!Char) /\ read_q # <<>>
      /\ I!LEFT # 0 /\ read_q' = Tail(read_q) /\ intr /\ intr' = intr
      /\ UNCHANGED <<on, canon, pc, nr, c, asleep>>
  BY InputQueue DEF LineInv, InputTypes, I!Cook, I!call
<1>2. PICK n \in Nat : n = Len(line)
  BY <1>1
<1>3. /\ n \in 0..(SIZE - 1) /\ I!Mod(head + SIZE - tail) = n
      /\ (I!EMPTY <=> line = <<>>)
  BY <1>1, <1>2, InputQueue
<1>4. /\ Head(read_q) \in I!Char /\ Head(read_q) = read_q[1] /\ 1 \in 1..Len(read_q)
      /\ \A i \in 1..Len(read_q') : read_q'[i] = read_q[i + 1] /\ i + 1 \in 1..Len(read_q)
  BY <1>1
<1>5. /\ I!Erases(read_q)' => I!Erases(read_q)
      /\ Head(read_q) \in {"erase", "kill"} => I!Erases(read_q)
  BY <1>1, <1>4 DEF I!Erases
<1>6. InputTypes'
  BY <1>1, TypesAreKept DEF I!Next
<1>7. ASSUME NEW k \in 0..n, \A i \in 1..k : buf[I!Mod(head + SIZE - i)] \notin Ends,
             head' = I!Mod(head + SIZE - k), line' = SubSeq(line, 1, Len(line) - k),
             canon, Head(read_q) \in {"erase", "kill"}, UNCHANGED <<tail, buf, data>>
      PROVE  LineInv'
  <2>1. ~I!TakesUnended
    BY <1>1, <1>5, <1>7 DEF LineInv, TakersFind
  <2> QED BY <1>1, <1>2, <1>6, <1>7, <2>1, TakingBackKeeps
<1>8. CASE canon /\ Head(read_q) = "kill"
  <2>1. I!Kill
    BY <1>8 DEF I!Cook
  <2>2. PICK k \in 0..(SIZE - 1) :
          /\ k <= I!Mod(head + SIZE - tail)
          /\ \A i \in 1..k : buf[I!Mod(head + SIZE - i)] \notin {"nl", "eof"}
          /\ head' = I!Mod(head + SIZE - k)
          /\ line' = SubSeq(line, 1, Len(line) - k)
    BY <2>1 DEF I!Kill
  <2>3. k \in 0..n /\ UNCHANGED <<tail, buf, data>>
    BY <1>3, <2>1, <2>2 DEF I!Kill
  <2> QED BY <1>7, <1>8, <2>1, <2>2, <2>3 DEF Ends
<1>9. CASE canon /\ Head(read_q) = "erase" /\ ~I!AtLineStart
  <2>1. /\ UNCHANGED <<tail, buf, data>>
        /\ head' = I!Mod(head + SIZE - 1) /\ line' = SubSeq(line, 1, Len(line) - 1)
        /\ line # <<>> /\ buf[I!Mod(head + SIZE - 1)] \notin Ends
    BY <1>3, <1>9 DEF I!Cook, I!EraseOne, I!AtLineStart, I!LAST, Ends
  <2>2. 1 \in 0..n /\ 1..1 = {1}
    BY <1>1, <1>2, <2>1
  <2>3. \A i \in 1..1 : buf[I!Mod(head + SIZE - i)] \notin Ends
    BY <2>1, <2>2
  <2> QED BY <1>7, <1>9, <2>1, <2>2, <2>3
<1>10. CASE ~canon \/ Head(read_q) \notin {"kill", "erase", "int"}
  <2>1. I!Put(Head(read_q))
    BY <1>10 DEF I!Cook
  <2> QED BY <1>1, <1>4, <1>5, <1>6, <2>1, PuttingKeeps
<1>11. CASE UNCHANGED I!queue
  BY <1>1, <1>5, <1>6, <1>11 DEF I!queue, LineInv, LinesCounted, TakersFind, I!TakesUnended
<1>12. canon /\ Head(read_q) = "int" => UNCHANGED I!queue
  BY DEF I!Cook
<1>13. canon /\ Head(read_q) = "erase" /\ I!AtLineStart => UNCHANGED I!queue
  BY DEF I!Cook, I!EraseOne, I!queue
<1> QED BY <1>8, <1>9, <1>10, <1>11, <1>12, <1>13

\* GETCH and the count of lines.
LEMMA TakingKeeps ==
  ASSUME LineInv, I!Take, InputTypes'
  PROVE  LineInv'
<1>1. /\ InputTypes /\ line \in Seq(I!Char) /\ RingHolds(SIZE, head, tail, buf, line)
      /\ SIZE \in Nat \ {0, 1} /\ head \in 0..(SIZE - 1) /\ tail \in 0..(SIZE - 1)
      /\ pc = "take" /\ pc' = "count" /\ line # <<>>
      /\ c' = buf[tail] /\ tail' = (tail + 1) % SIZE /\ line' = Tail(line)
      /\ UNCHANGED <<on, canon, read_q, head, buf, data, nr, asleep>>
  BY InputQueue DEF LineInv, InputTypes, TakersFind, I!Take, I!At, I!Mod, I!Unread
<1>2. PICK h, t, b, s : h = head /\ t = tail /\ b = buf /\ s = line
  OBVIOUS
<1>3. /\ h \in 0..(SIZE - 1) /\ t \in 0..(SIZE - 1) /\ s \in Seq(I!Char) /\ s # <<>>
      /\ RingHolds(SIZE, h, t, b, s)
  BY <1>1, <1>2
<1>4. /\ b[t] = s[1] /\ RingHolds(SIZE, h, (t + 1) % SIZE, b, Tail(s))
  BY <1>1, <1>3, RingGet
<1>5. PICK u : u = Tail(s)
  OBVIOUS
<1>6. /\ u \in Seq(I!Char) /\ Len(s) \in Nat \ {0} /\ Len(u) = Len(s) - 1
      /\ \A i \in 1..(Len(s) - 1) : u[i] = s[i + 1]
  BY <1>3, <1>5
<1>7. /\ Cardinality(Marks(s, Ends)) = Cardinality(Marks(u, Ends)) + (IF s[1] \in Ends THEN 1 ELSE 0)
      /\ Cardinality(Marks(u, Ends)) \in Nat
  <2>1. Cardinality(Marks(s, Ends)) = Cardinality(Marks(u, Ends)) + (IF s[1] \in Ends THEN 1 ELSE 0)
    BY <1>6, MarksTail
  <2>2. Len(u) \in Nat
    BY <1>6
  <2> QED BY <2>1, <2>2, MarksAreFinite
<1>8. LinesCounted'
  <2>1. data = Cardinality(Marks(s, Ends)) /\ line' = u /\ c' = s[1]
    <3>1. Cardinality(Marks(s, Ends)) \in Nat
      BY <1>6, MarksAreFinite
    <3> QED BY <1>1, <1>2, <1>4, <1>5, <3>1 DEF LineInv, LinesCounted
  <2> QED BY <1>1, <1>7, <2>1 DEF LinesCounted
<1>9. RingHolds(SIZE, head', tail', buf', line')
  BY <1>1, <1>2, <1>4
<1> QED BY <1>1, <1>2, <1>5, <1>6, <1>8, <1>9
        DEF LineInv, TakersFind, I!TakesUnended

\* All other steps leave the queue alone.
LEMMA LineInvKept ==
  ASSUME LineInv, I!Next
  PROVE  LineInv'
<1>1. /\ InputTypes /\ line \in Seq(I!Char) /\ RingHolds(SIZE, head, tail, buf, line)
      /\ on' = on /\ TakersFind /\ LinesCounted
      /\ (I!EMPTY <=> line = <<>>)
      /\ MAXNR \in Nat
  BY InputQueue, KernelAssumption
     DEF I!TerminalInputAssumption, LineInv, I!Next, I!Receive, I!Cook, I!Cooked,
     I!SetAlarm, I!Read, I!Loop, I!Take, I!Count, I!After, I!End, I!Handle, I!Tick,
     I!Schedule, I!SetMode, I!FlushInput, I!Unread
<1>2. InputTypes'
  BY <1>1, TypesAreKept
<1>3. CASE I!Cook
  BY <1>3, CookKeeps
<1>4. CASE I!Take
  BY <1>2, <1>4, TakingKeeps
<1>5. CASE I!Receive \/ I!FlushInput
  <2>1. UNCHANGED <<on, canon, head, tail, buf, data, line, pc, nr, c, asleep>>
    BY <1>5 DEF I!Receive, I!FlushInput, I!queue, I!call
  <2>2. I!TakesUnended /\ intr' => ~I!Erases(read_q)'
    <3>1. CASE I!FlushInput
      BY <3>1 DEF I!FlushInput, I!Erases
    <3>2. CASE I!Receive
      BY <3>2 DEF I!Receive, LineInv, I!Erases
    <3> QED BY <1>5, <3>1, <3>2
  <2> QED BY <1>2, <2>1, <2>2 DEF LineInv, LinesCounted, TakersFind, I!TakesUnended
<1>6. ASSUME UNCHANGED <<on, read_q, head, tail, buf, data, line>>, LinesCounted', TakersFind'
      PROVE  LineInv'
  BY <1>2, <1>6 DEF LineInv
<1>7. CASE I!Loop
  <2>1. /\ pc = "loop" /\ ~intr
        /\ UNCHANGED <<on, canon, read_q, intr, head, tail, buf, data, line, nr, c>>
    BY <1>7 DEF I!Loop, I!At, I!Unread, I!queue
  <2>2. pc' \in {"loop", "end", "take"} /\ (asleep' => pc' = "loop")
    BY <1>1, <1>7, <2>1 DEF I!Loop, I!At
  <2>3. pc' = "take" => line # <<>> /\ nr # 0
    BY <1>1, <1>7, <2>1 DEF I!Loop, I!At
  <2>4. TakersFind'
    BY <1>1, <2>1, <2>2, <2>3 DEF TakersFind
  <2>5. LinesCounted'
    BY <1>1, <2>1, <2>2 DEF LinesCounted
  <2> QED BY <1>6, <2>1, <2>4, <2>5
<1>8. CASE I!Count
  <2>1. /\ pc = "count" /\ ~asleep /\ nr # 0 /\ ~intr
        /\ UNCHANGED <<on, canon, read_q, intr, head, tail, buf, line, c, asleep>>
    BY <1>1, <1>8 DEF I!Count, I!At, I!Unread, TakersFind
  <2>2. /\ data' = (IF c \in Ends THEN data - 1 ELSE data)
        /\ \/ pc' = "out" /\ nr' = nr
           \/ pc' = "after" /\ nr' = nr - 1
           \/ pc' = "take" /\ nr' = nr - 1 /\ nr' > 0 /\ ~I!EMPTY
    BY <1>8 DEF I!Count, Ends
  <2>3. Cardinality(Marks(line, Ends)) \in Nat
    BY <1>1, MarksAreFinite
  <2>4. LinesCounted'
    BY <1>1, <2>1, <2>2, <2>3 DEF LinesCounted
  <2>5. TakersFind'
    BY <1>1, <2>1, <2>2 DEF TakersFind
  <2>6. RingHolds(SIZE, head', tail', buf', line')
    BY <1>1, <2>1
  <2> QED BY <1>1, <1>2, <2>1, <2>4, <2>5, <2>6 DEF LineInv
<1>9. CASE I!Read
  <2>1. /\ pc = "out" /\ pc' = "loop" /\ ~asleep /\ nr' \in Nat
        /\ UNCHANGED <<on, canon, read_q, head, tail, buf, data, line, asleep>>
    BY <1>1, <1>9 DEF I!Read, I!At, I!Unread, I!queue
  <2>2. TakersFind' /\ LinesCounted'
    BY <1>1, <2>1 DEF TakersFind, LinesCounted, I!TakesUnended
  <2> QED BY <1>6, <2>1, <2>2
<1>10. CASE I!SetMode
  <2>1. /\ pc # "take" /\ UNCHANGED <<on, read_q, head, tail, buf, data, line, nr, c, pc, asleep>>
    BY <1>1, <1>10 DEF I!SetMode, I!OtherTask, TakersFind, I!queue, I!call
  <2>2. TakersFind' /\ LinesCounted'
    BY <1>1, <2>1 DEF TakersFind, LinesCounted, I!TakesUnended
  <2> QED BY <1>6, <2>1, <2>2
<1>11. CASE I!Cooked \/ I!SetAlarm \/ I!After \/ I!End \/ I!Handle \/ I!Tick \/ I!Schedule
  <2>1. /\ UNCHANGED <<on, canon, read_q, head, tail, buf, data, line, nr, c>>
        /\ \/ pc' = pc
           \/ pc \notin {"take", "count"} /\ pc' \notin {"take", "count"} /\ ~asleep
        /\ (asleep' => asleep) /\ (intr' => intr)
    <3>1. CASE I!Cooked
      BY <3>1 DEF I!Cooked, I!queue, I!call
    <3>2. CASE I!SetAlarm \/ I!Handle
      BY <3>2 DEF I!SetAlarm, I!Handle, I!Unread, I!queue, I!call
    <3>3. CASE I!After
      <4>1. /\ pc = "after" /\ ~asleep /\ pc' \in {"end", "loop"}
            /\ UNCHANGED <<on, canon, read_q, intr, head, tail, buf, data, line, nr, c, asleep>>
        BY <3>3 DEF I!After, I!At, I!Unread, I!queue
      <4> QED BY <4>1
    <3>4. CASE I!End
      BY <3>4 DEF I!End, I!At, I!Unread, I!queue
    <3>5. CASE I!Tick
      BY <3>5 DEF I!Tick, I!queue, I!call
    <3>6. CASE I!Schedule
      <4>1. /\ UNCHANGED <<on, canon, read_q, head, tail, buf, data, line, nr, c, pc>>
            /\ (asleep' => asleep) /\ intr' = intr
        BY <3>6 DEF I!Schedule, I!queue, I!call
      <4> QED BY <4>1
    <3> QED BY <1>11, <3>1, <3>2, <3>3, <3>4, <3>5, <3>6
  <2>2. LinesCounted'
    BY <1>1, <2>1 DEF LinesCounted
  <2>3. TakersFind'
    BY <1>1, <2>1 DEF TakersFind, I!TakesUnended, I!Erases
  <2> QED BY <1>6, <2>1, <2>2, <2>3
<1> QED BY <1>3, <1>4, <1>5, <1>7, <1>8, <1>9, <1>10, <1>11 DEF I!Next

\* The same for the parts together.
InputStart == part = "input" => LineInv

\* The queue of a terminal holds what was typed, edited and not yet read, and
\* secondary.data counts its lines, for any sizes of the queues, while the
\* interrupt appends to it and erases from its end and tty_read() takes from its
\* front.
THEOREM QueuesAreLines ==
  ASSUME NothingIsTakenBack PROVE Spec => []QueueIsTheLine
<1>1. Init => InputStart
  <2> SUFFICES ASSUME Init, part = "input" PROVE LineInv
    BY DEF InputStart
  <2>1. I!Init
    BY DEF Init
  <2>2. SIZE \in Nat \ {0, 1} /\ 0 \in 0..(SIZE - 1)
    BY KernelAssumption DEF I!TerminalInputAssumption
  <2>3. InputTypes /\ line = <<>> /\ line \in Seq(I!Char)
    BY <2>1, <2>2 DEF I!Init, InputTypes, I!Char, I!Plain
  <2>4. "taken_back" \notin on
    BY <2>1 DEF I!Init, NothingIsTakenBack
  <2>5. RingHolds(SIZE, head, tail, buf, line)
    BY <2>1, <2>2 DEF I!Init, RingHolds, Distance
  <2>6. LinesCounted
    <3>1. Marks(line, Ends) = {}
      BY <2>3 DEF Marks
    <3>2. Cardinality(Marks(line, Ends)) = 0
      BY <3>1, FS_EmptySet
    <3> QED BY <2>1, <3>2 DEF I!Init, LinesCounted
  <2>7. TakersFind
    BY <2>1 DEF I!Init, TakersFind
  <2> QED BY <2>3, <2>4, <2>5, <2>6, <2>7 DEF LineInv
<1>2. InputStart /\ [Next]_vars => InputStart'
  <2> SUFFICES ASSUME InputStart, [Next]_vars, part' = "input"
               PROVE  LineInv'
    BY DEF InputStart
  <2>1. CASE I!Next /\ part = "input"
    BY <2>1, LineInvKept DEF InputStart
  <2>2. CASE UNCHANGED <<part, on, pc, nr, ofInput, ofTerminals, signal, alarm>>
    <3>1. LineInv /\ UNCHANGED <<on, pc, nr, canon, read_q, intr, data, line, c, head, tail,
                               buf, asleep>>
      BY <2>2 DEF InputStart, ofInput, ofTerminals
    <3> QED BY <3>1
            DEF LineInv, InputTypes, LinesCounted, TakersFind, I!TakesUnended, I!Erases
  <2> QED BY <2>1, <2>2 DEF Next, InputStep, OutputStep, ConsoleStep, ProcessesStep,
      SchedulerStep, FloppyStep, AllWait, vars
<1>3. InputStart => QueueIsTheLine
  <2> SUFFICES ASSUME part = "input", LineInv PROVE I!QueueIsTheLine /\ I!DataCountsLines
    BY DEF InputStart, QueueIsTheLine
  <2>1. I!QueueIsTheLine
    BY InputQueue DEF LineInv, I!QueueIsTheLine
  <2>2. I!DataCountsLines
    <3>1. I!Cardinality(Marks(line, Ends)) = Cardinality(Marks(line, Ends))
      BY DEF I!Cardinality, Cardinality
    <3>2. Marks(line, Ends) = {i \in 1..Len(line) : line[i] \in {"nl", "eof"}}
      BY DEF Marks, Ends
    <3>3. data = I!Cardinality(Marks(line, Ends)) + (IF pc = "count" /\ c \in {"nl", "eof"} THEN 1 ELSE 0)
      BY <3>1 DEF LineInv, LinesCounted, Ends
    <3> QED BY <3>2, <3>3 DEF I!DataCountsLines
  <2> QED BY <2>1, <2>2
<1> QED BY <1>1, <1>2, <1>3, PTL DEF Spec
-----------------------------------------------------------------------------
(***************************************************************************)
(* Processes: who waits is told.                                           *)
(***************************************************************************)
\* The features of the run: SIGCHLD is not masked, and no call waits for a group
\* (whose members may leave it).
WaitersCanBeTold == \A r \in ProcessRegimes : "mask_child" \notin r /\ "wait_group" \notin r

Waits(r) == r.at = "wait" /\ r.state = "interruptible"

CanBeTold(r) == "CHLD" \notin r.blocked /\ (r.at = "wait" => r.for # P!GROUP)

HopeInv ==
    /\ "mask_child" \notin on /\ "wait_group" \notin on
    /\ \A i \in P!Tasks : CanBeTold(task[i])
    /\ P!WaiterHasHope

\* A waiter goes on to wait, with more signals.
WaitsOn(q, r) ==
    /\ Waits(q) /\ r.pid = q.pid /\ r.for = q.for
    /\ q.signal \subseteq r.signal /\ r.blocked = q.blocked

\* Every waiter has waited before, still has a child, and is told of each that
\* has become a zombie.
LEMMA WaitersKeepHope ==
  ASSUME FamilyInv, HopeInv, on' = on,
         \A i \in P!Tasks' : CanBeTold(task'[i]),
         \A i \in P!Tasks' : Waits(task'[i]) =>
            /\ i \in P!Tasks /\ WaitsOn(task[i], task'[i])
            /\ \E j \in P!Tasks' \ {i} : task'[j].father = task[i].pid
            /\ \A j \in P!Tasks' \ {i} :
                  task'[j].father = task[i].pid /\ task'[j].state = "zombie" =>
                     \/ /\ j \in P!Tasks /\ task[j].father = task[i].pid
                        /\ task[j].state = "zombie" /\ task[j].pid = task'[j].pid
                     \/ "CHLD" \in task'[i].signal
  PROVE  HopeInv'
<1>1. P!WaiterHasHope'
  <2> SUFFICES ASSUME NEW i \in P!Tasks', Waits(task'[i])
               PROVE  /\ (P!Children(i, P!ANY))' # {}
                      /\ (P!ZombiesOf(i, task[i].for))' # {}
                            => task'[i].signal \ task'[i].blocked # {}
    BY DEF P!WaiterHasHope, Waits
  <2>1. /\ i \in P!Tasks /\ Waits(task[i]) /\ task'[i].pid = task[i].pid
        /\ task'[i].for = task[i].for /\ task[i].for # P!GROUP
        /\ task[i].signal \subseteq task'[i].signal /\ task'[i].blocked = task[i].blocked
    BY DEF WaitsOn, HopeInv, CanBeTold, Waits
  <2>2. (P!Children(i, P!ANY))' # {}
    <3>1. PICK j \in P!Tasks' \ {i} : task'[j].father = task[i].pid
      BY <2>1
    <3>2. task'[j].father = (P!PidOf(i))'
      BY <2>1, <3>1 DEF P!PidOf
    <3>3. P!ANY # P!GROUP
      BY KernelAssumption DEF P!ProcessLifeAssumption, P!ANY, P!GROUP
    <3>4. j \in (P!Children(i, P!ANY))'
      BY <3>1, <3>2, <3>3 DEF P!Children
    <3> QED BY <3>4
  <2>3. ASSUME NEW j \in (P!ZombiesOf(i, task[i].for))'
        PROVE  task'[i].signal \ task'[i].blocked # {}
    <3>1. /\ j \in P!Tasks' \ {i} /\ task'[j].father = task[i].pid /\ task'[j].state = "zombie"
          /\ task[i].for = P!ANY \/ task'[j].pid = task[i].for
      BY <2>1, <2>3 DEF P!ZombiesOf, P!Children, P!PidOf
    <3>2. CASE "CHLD" \in task'[i].signal
      BY <2>1, <3>2 DEF HopeInv, CanBeTold
    <3>3. CASE "CHLD" \notin task'[i].signal
      <4>1. /\ j \in P!Tasks /\ task[j].father = task[i].pid
            /\ task[j].state = "zombie" /\ task[j].pid = task'[j].pid
        BY <3>1, <3>3
      <4>2. j \in P!ZombiesOf(i, task[i].for)
        BY <2>1, <3>1, <4>1 DEF P!ZombiesOf, P!Children, P!PidOf
      <4>3. task[i].signal \ task[i].blocked # {}
        BY <2>1, <4>2 DEF HopeInv, P!WaiterHasHope, Waits
      <4> QED BY <2>1, <4>3
    <3> QED BY <3>2, <3>3
  <2> QED BY <2>2, <2>3
<1> QED BY <1>1 DEF HopeInv

\* A process stays where it is for those who wait.
SameWait(q, r) ==
    /\ r # NULL /\ r.pid = q.pid /\ r.father = q.father
    /\ r.state = "zombie" => q.state = "zombie"
    /\ CanBeTold(r) /\ (Waits(r) => WaitsOn(q, r))

\* When all processes stay for those who wait, these keep their hope.
LEMMA WaitersStay ==
  ASSUME FamilyInv, HopeInv, on' = on,
         \A i \in P!Slot : IF task[i] = NULL THEN task'[i] = NULL
                           ELSE SameWait(task[i], task'[i])
  PROVE  HopeInv'
<1>1. P!Tasks' = P!Tasks /\ \A i \in P!Tasks : SameWait(task[i], task'[i])
  BY DEF P!Tasks, P!There, SameWait
<1>2. \A i \in P!Tasks' : CanBeTold(task'[i])
  BY <1>1 DEF SameWait
<1>3. ASSUME NEW i \in P!Tasks', Waits(task'[i])
      PROVE  /\ i \in P!Tasks /\ WaitsOn(task[i], task'[i])
             /\ \E j \in P!Tasks' \ {i} : task'[j].father = task[i].pid
             /\ \A j \in P!Tasks' \ {i} :
                  task'[j].father = task[i].pid /\ task'[j].state = "zombie" =>
                     /\ j \in P!Tasks /\ task[j].father = task[i].pid
                     /\ task[j].state = "zombie" /\ task[j].pid = task'[j].pid
  <2>1. i \in P!Tasks /\ WaitsOn(task[i], task'[i])
    BY <1>1, <1>3 DEF SameWait
  <2>2. P!Children(i, P!ANY) # {}
    BY <2>1 DEF HopeInv, P!WaiterHasHope, WaitsOn, Waits
  <2>3. PICK j \in P!Tasks \ {i} : task[j].father = task[i].pid
    BY <2>2 DEF P!Children, P!PidOf
  <2> QED BY <1>1, <2>1, <2>3 DEF SameWait
<1> QED BY <1>2, <1>3, WaitersKeepHope

\* One process that does not begin to wait changes.
LEMMA OneStays ==
  ASSUME FamilyInv, HopeInv, on' = on, NEW i \in P!Tasks, NEW q,
         SameWait(task[i], q), task' = [task EXCEPT ![i] = q]
  PROVE  HopeInv'
<1>1. ASSUME NEW j \in P!Slot
      PROVE  IF task[j] = NULL THEN task'[j] = NULL ELSE SameWait(task[j], task'[j])
  <2>1. task'[j] = IF j = i THEN q ELSE task[j]
    BY DEF FamilyInv, P!TypeOK
  <2>2. j = i => task[j] # NULL
    BY DEF P!Tasks, P!There
  <2>3. ASSUME task[j] # NULL PROVE SameWait(task[j], task[j])
    <3>1. j \in P!Tasks
      BY <2>3 DEF P!Tasks, P!There
    <3> QED BY <2>3, <3>1 DEF SameWait, WaitsOn, HopeInv
  <2> QED BY <2>1, <2>2, <2>3
<1> QED BY <1>1, WaitersStay

\* Signals are sent: of a process all but the signal stays.
LEMMA Sent ==
  ASSUME NEW tab \in [P!Slot -> P!Process \cup {NULL}], NEW T, NEW sig \in P!Signals,
         NEW j \in P!Slot
  PROVE  /\ j \notin T \/ tab[j] = NULL => P!Send(tab, T, sig)[j] = tab[j]
         /\ j \in T /\ tab[j] # NULL =>
               /\ P!Send(tab, T, sig)[j] \in P!Process
               /\ P!Send(tab, T, sig)[j].pid = tab[j].pid
               /\ P!Send(tab, T, sig)[j].father = tab[j].father
               /\ P!Send(tab, T, sig)[j].state = tab[j].state
               /\ P!Send(tab, T, sig)[j].at = tab[j].at
               /\ P!Send(tab, T, sig)[j].for = tab[j].for
               /\ P!Send(tab, T, sig)[j].blocked = tab[j].blocked
               /\ P!Send(tab, T, sig)[j].signal = tab[j].signal \cup {sig}
<1>1. P!Send(tab, T, sig)[j] = IF j \in T /\ tab[j] # NULL
                               THEN [tab[j] EXCEPT !.signal = tab[j].signal \cup {sig}] ELSE tab[j]
  BY DEF P!Send
<1>2. ASSUME j \in T, tab[j] # NULL
      PROVE  \A h : h = [tab[j] EXCEPT !.signal = tab[j].signal \cup {sig}] =>
               /\ h \in P!Process
               /\ h.pid = tab[j].pid /\ h.father = tab[j].father /\ h.state = tab[j].state
               /\ h.at = tab[j].at /\ h.for = tab[j].for /\ h.blocked = tab[j].blocked
               /\ h.signal = tab[j].signal \cup {sig}
  <2>1. tab[j] \in P!Process
    BY <1>2
  <2> QED BY <2>1 DEF P!Process
<1> QED BY <1>1, <1>2

\* Signals alone take nobody's hope.
LEMMA SendingKeepsHope ==
  ASSUME FamilyInv, HopeInv, on' = on, NEW T, NEW sig \in P!Signals,
         task' = P!Send(task, T, sig)
  PROVE  HopeInv'
<1>1. ASSUME NEW j \in P!Slot
      PROVE  IF task[j] = NULL THEN task'[j] = NULL ELSE SameWait(task[j], task'[j])
  <2>1. task \in [P!Slot -> P!Process \cup {NULL}] /\ NULL \notin P!Process
    BY KernelAssumption DEF FamilyInv, P!TypeOK, P!ProcessLifeAssumption
  <2>2. task[j] # NULL => CanBeTold(task[j])
    BY DEF HopeInv, P!Tasks, P!There
  <2>3. CASE j \notin T \/ task[j] = NULL
    <3>1. task'[j] = task[j]
      BY <2>1, <2>3, Sent
    <3> QED BY <2>2, <3>1 DEF SameWait, WaitsOn
  <2>4. CASE j \in T /\ task[j] # NULL
    <3>1. PICK h : h = task'[j]
      OBVIOUS
    <3>2. /\ h \in P!Process /\ h.pid = task[j].pid /\ h.father = task[j].father
          /\ h.state = task[j].state /\ h.at = task[j].at /\ h.for = task[j].for
          /\ h.blocked = task[j].blocked /\ h.signal = task[j].signal \cup {sig}
      BY <2>1, <2>4, <3>1, Sent
    <3>3. h # NULL /\ CanBeTold(h) /\ (Waits(h) => WaitsOn(task[j], h))
      BY <2>1, <2>2, <2>4, <3>2 DEF CanBeTold, Waits, WaitsOn
    <3> QED BY <2>4, <3>1, <3>2, <3>3 DEF SameWait
  <2> QED BY <2>3, <2>4
<1> QED BY <1>1, WaitersStay

\* fork(): the child is not a zombie.
LEMMA ForkKeepsHope ==
  ASSUME FamilyInv, HopeInv, NEW i \in P!Slot, P!Fork(i)
  PROVE  HopeInv'
<1>1. P!At(i, "user") /\ i \in P!Tasks /\ task[i] \in P!Process /\ on' = on
  BY DEF P!Fork, P!At, P!There, P!Tasks, FamilyInv, P!TypeOK
<1>2. CASE UNCHANGED task
  <2>1. \A j \in P!Slot : IF task[j] = NULL THEN task'[j] = NULL
                          ELSE SameWait(task[j], task'[j])
    BY <1>2 DEF SameWait, WaitsOn, HopeInv, P!Tasks, P!There
  <2> QED BY <1>1, <2>1, WaitersStay
<1>3. ASSUME NEW n \in P!Slot, ~P!There(n),
             task' = [task EXCEPT ![n] =
                        [task[i] EXCEPT !.pid = P!FreshPid, !.father = P!PidOf(i),
                                        !.signal = {}, !.leader = FALSE]]
      PROVE  HopeInv'
  <2>1. PICK p : p = P!FreshPid
    OBVIOUS
  <2>2. PICK child : child = [task[i] EXCEPT !.pid = p, !.father = P!PidOf(i),
                                             !.signal = {}, !.leader = FALSE]
    OBVIOUS
  <2>3. /\ child.state = "running" /\ child.at = "user"
        /\ child.blocked = task[i].blocked
    BY <1>1, <2>2 DEF P!Process, P!At
  <2>4. /\ task'[n] = child /\ \A j \in P!Slot : j # n => task'[j] = task[j]
    BY <1>3, <2>1, <2>2 DEF FamilyInv, P!TypeOK
  <2>5. /\ \A j \in P!Tasks' : j \in P!Tasks \/ j = n
        /\ \A j \in P!Tasks : j \in P!Tasks' /\ j # n /\ task'[j] = task[j]
    BY <1>3, <2>4 DEF P!Tasks, P!There
  <2>6. CanBeTold(task'[n])
    BY <1>1, <2>3, <2>4 DEF HopeInv, CanBeTold
  <2>7. \A j \in P!Tasks' : CanBeTold(task'[j])
    BY <2>5, <2>6 DEF HopeInv
  <2>8. ASSUME NEW k \in P!Tasks', Waits(task'[k])
        PROVE  /\ k \in P!Tasks /\ WaitsOn(task[k], task'[k])
               /\ \E j \in P!Tasks' \ {k} : task'[j].father = task[k].pid
               /\ \A j \in P!Tasks' \ {k} :
                    task'[j].father = task[k].pid /\ task'[j].state = "zombie" =>
                       /\ j \in P!Tasks /\ task[j].father = task[k].pid
                       /\ task[j].state = "zombie" /\ task[j].pid = task'[j].pid
    <3>1. k \in P!Tasks /\ WaitsOn(task[k], task'[k])
      BY <2>3, <2>4, <2>5, <2>8 DEF Waits, WaitsOn
    <3>2. P!Children(k, P!ANY) # {}
      BY <3>1 DEF HopeInv, P!WaiterHasHope, WaitsOn, Waits
    <3>3. PICK j \in P!Tasks \ {k} : task[j].father = task[k].pid
      BY <3>2 DEF P!Children, P!PidOf
    <3> QED BY <2>3, <2>4, <2>5, <3>1, <3>3
  <2> QED BY <1>1, <2>7, <2>8, WaitersKeepHope
<1> QED BY <1>1, <1>2, <1>3 DEF P!Fork

\* What do_exit() makes of the children: init is told of the zombies.
LEMMA GivenAreTold ==
  ASSUME P!TypeOK, NEW i \in P!Tasks, NEW j \in P!Tasks
  PROVE  /\ P!GiveToInit(i)[j].for = task[j].for
         /\ P!GiveToInit(i)[j].blocked = task[j].blocked
         /\ task[j].signal \subseteq P!GiveToInit(i)[j].signal
         /\ 1 \in P!Tasks /\ task[j].state = "zombie" /\ task[j].father = P!PidOf(i)
               => "CHLD" \in P!GiveToInit(i)[1].signal
<1> DEFINE mine == {k \in P!Tasks : task[k].father = P!PidOf(i)}
           given == [k \in P!Slot |-> IF k \in mine THEN [task[k] EXCEPT !.father = 1]
                                     ELSE task[k]]
<1>1. /\ \A k \in P!Tasks : k \in P!Slot /\ task[k] # NULL /\ task[k] \in P!Process
      /\ NULL \notin P!Process
  BY KernelAssumption DEF P!TypeOK, P!Tasks, P!There, P!ProcessLifeAssumption
<1>2. ASSUME NEW k \in P!Tasks
      PROVE  /\ given[k] \in P!Process /\ given[k].for = task[k].for
             /\ given[k].blocked = task[k].blocked /\ given[k].signal = task[k].signal
  <2>1. PICK h : h = [task[k] EXCEPT !.father = 1]
    OBVIOUS
  <2>2. /\ h \in P!Process /\ h.for = task[k].for /\ h.blocked = task[k].blocked
        /\ h.signal = task[k].signal
    BY <1>1, <2>1 DEF P!Process
  <2> QED BY <1>1, <2>1, <2>2
<1>3. given \in [P!Slot -> P!Process \cup {NULL}]
  <2>1. \A k \in P!Slot : given[k] \in P!Process \cup {NULL}
    BY <1>2 DEF P!Tasks, P!There
  <2> QED BY <2>1
<1>4. P!GiveToInit(i) = IF \E k \in mine : task[k].state = "zombie"
                        THEN P!Send(given, {1}, "CHLD") ELSE given
  BY DEF P!GiveToInit
<1> HIDE DEF given
<1>5. CASE \E k \in mine : task[k].state = "zombie"
  <2>1. PICK tab : tab = P!Send(given, {1}, "CHLD")
    OBVIOUS
  <2>2. ASSUME NEW k \in P!Tasks
        PROVE  /\ tab[k].for = task[k].for /\ tab[k].blocked = task[k].blocked
               /\ task[k].signal \subseteq tab[k].signal
               /\ k = 1 => "CHLD" \in tab[k].signal
    <3>1. k \in P!Slot /\ given[k] # NULL
      BY <1>1, <1>2
    <3>2. CASE k = 1
      BY <1>2, <1>3, <2>1, <3>1, <3>2, Sent DEF P!Signals
    <3>3. CASE k # 1
      BY <1>2, <1>3, <2>1, <3>1, <3>3, Sent DEF P!Signals
    <3> QED BY <3>2, <3>3
  <2>3. P!GiveToInit(i) = tab
    BY <1>4, <1>5, <2>1
  <2> QED BY <2>2, <2>3
<1>6. CASE ~\E k \in mine : task[k].state = "zombie"
  BY <1>2, <1>4, <1>6
<1> QED BY <1>5, <1>6

\* The step of do_exit() that gives the children away.
LEMMA BeginExitKeepsHope ==
  ASSUME FamilyInv, HopeInv, NEW i \in P!Slot, P!At(i, "user"), P!MayExit(i),
         on' = on, NEW q \in P!Process,
         task' = [P!GiveToInit(i) EXCEPT ![i] = q],
         q.father = P!GiveToInit(i)[i].father,
         q.state = "running", q.at = "close", q.blocked = task[i].blocked
  PROVE  HopeInv'
<1>1. /\ i \in P!Tasks /\ task[i] \in P!Process /\ P!TypeOK
      /\ task[i].state = "running" /\ task[i].at = "user"
  BY DEF P!At, P!There, P!Tasks, FamilyInv, P!TypeOK
<1>2. 1 \in P!Tasks /\ task[1].pid = 1 /\ i # 1
  BY KernelAssumption DEF FamilyInv, InitLives, P!InitIsFirst, P!Tasks, P!There,
     P!Slot, P!ProcessLifeAssumption, P!MayExit, P!PidOf
<1>3. PICK tab : tab = P!GiveToInit(i)
  OBVIOUS
<1>4. /\ tab \in [P!Slot -> P!Process \cup {NULL}]
      /\ \A j \in P!Slot : task[j] = NULL => tab[j] = NULL
      /\ \A j \in P!Tasks :
            /\ tab[j] \in P!Process /\ tab[j].pid = task[j].pid
            /\ tab[j].state = task[j].state /\ tab[j].at = task[j].at
            /\ tab[j].father = IF task[j].father = task[i].pid THEN 1
                               ELSE task[j].father
  BY <1>1, <1>3, GivenToInit DEF P!PidOf
<1>5. \A j \in P!Tasks :
         /\ tab[j].for = task[j].for /\ tab[j].blocked = task[j].blocked
         /\ task[j].signal \subseteq tab[j].signal
         /\ task[j].state = "zombie" /\ task[j].father = task[i].pid => "CHLD" \in tab[1].signal
  BY <1>1, <1>2, <1>3, GivenAreTold DEF P!PidOf
<1>6. task'[i] = q /\ \A j \in P!Slot : j # i => task'[j] = tab[j]
  BY <1>3, <1>4
<1>7. NULL \notin P!Process
  BY KernelAssumption DEF P!ProcessLifeAssumption
<1>8. P!Tasks' = P!Tasks
  BY <1>1, <1>4, <1>6, <1>7 DEF P!Tasks, P!There
<1>9. \A j \in P!Tasks : task'[j].father = IF task[j].father = task[i].pid THEN 1
                                           ELSE task[j].father
  BY <1>1, <1>3, <1>4, <1>6 DEF P!Tasks
<1>10. \A j \in P!Tasks : j # i =>
         /\ task'[j].pid = task[j].pid /\ task'[j].state = task[j].state
         /\ task'[j].at = task[j].at /\ task'[j].for = task[j].for
         /\ task'[j].blocked = task[j].blocked /\ task[j].signal \subseteq task'[j].signal
  BY <1>4, <1>5, <1>6 DEF P!Tasks
<1>11. \A j \in P!Tasks' : CanBeTold(task'[j])
  BY <1>1, <1>6, <1>8, <1>10 DEF HopeInv, CanBeTold
<1>12. ASSUME NEW k \in P!Tasks', Waits(task'[k])
       PROVE  /\ k \in P!Tasks /\ WaitsOn(task[k], task'[k])
              /\ \E j \in P!Tasks' \ {k} : task'[j].father = task[k].pid
              /\ \A j \in P!Tasks' \ {k} :
                    task'[j].father = task[k].pid /\ task'[j].state = "zombie" =>
                       \/ /\ j \in P!Tasks /\ task[j].father = task[k].pid
                          /\ task[j].state = "zombie" /\ task[j].pid = task'[j].pid
                       \/ "CHLD" \in task'[k].signal
  <2>1. k \in P!Tasks /\ k # i /\ WaitsOn(task[k], task'[k])
    BY <1>6, <1>8, <1>10, <1>12 DEF Waits, WaitsOn
  <2>2. task[k].pid # task[i].pid
    BY <1>1, <2>1 DEF FamilyInv, P!PidsAreUnique, P!PidOf
  <2>3. P!Children(k, P!ANY) # {}
    BY <2>1 DEF HopeInv, P!WaiterHasHope, WaitsOn, Waits
  <2>4. PICK j \in P!Tasks \ {k} : task[j].father = task[k].pid
    BY <2>3 DEF P!Children, P!PidOf
  <2>5. ASSUME NEW m \in P!Tasks \ {k}, task'[m].father = task[k].pid,
               task'[m].state = "zombie", task[m].father # task[k].pid
        PROVE  "CHLD" \in task'[k].signal
    <3>1. m # i /\ task[m].state = "zombie"
      BY <1>6, <1>10, <2>5
    <3>2. task[m].father = task[i].pid /\ task[k].pid = 1
      BY <1>9, <2>5
    <3>3. k = 1
      BY <1>2, <2>1, <3>2 DEF FamilyInv, P!PidsAreUnique, P!PidOf
    <3> QED BY <1>2, <1>5, <1>6, <2>1, <3>1, <3>2, <3>3 DEF P!Tasks
  <2>6. \A m \in P!Tasks : task'[m].state = "zombie" => m # i
    BY <1>6
  <2> QED BY <1>8, <1>9, <1>10, <2>1, <2>2, <2>4, <2>5, <2>6
<1> QED BY <1>11, <1>12, WaitersKeepHope

-----------------------------------------------------------------------------
\* do_exit() up to its sleep, for a call or for a signal.
LEMMA LeavingKeepsHope ==
  ASSUME FamilyInv, HopeInv, NEW i \in P!Slot, P!Exit(i)
  PROVE  HopeInv'
<1>1. PICK tab : tab = P!GiveToInit(i)
  OBVIOUS
<1>2. i \in P!Tasks /\ P!At(i, "user") /\ P!MayExit(i) /\ on' = on
  BY DEF P!Exit, P!BeginExit, P!At, P!There, P!Tasks
<1>3. /\ tab \in [P!Slot -> P!Process \cup {NULL}] /\ tab[i] \in P!Process
      /\ tab[i].state = "running"
  BY <1>1, <1>2, GivenToInit DEF FamilyInv, P!At
<1>4. tab[i].blocked = task[i].blocked
  BY <1>1, <1>2, GivenAreTold DEF FamilyInv
<1>5. PICK q : q = [tab[i] EXCEPT !.at = "close"]
  OBVIOUS
<1>6. /\ q \in P!Process /\ q.father = tab[i].father
      /\ q.state = "running" /\ q.at = "close" /\ q.blocked = task[i].blocked
  BY <1>3, <1>4, <1>5 DEF P!Process
<1>7. task' = [P!GiveToInit(i) EXCEPT ![i] = q]
  BY <1>1, <1>3, <1>5 DEF P!Exit, P!BeginExit
<1> QED BY <1>1, <1>2, <1>6, <1>7, BeginExitKeepsHope

\* A signal is delivered.
LEMMA DoSignalKeepsHope ==
  ASSUME FamilyInv, HopeInv, NEW i \in P!Slot, P!DoSignal(i)
  PROVE  HopeInv'
<1>1. /\ i \in P!Tasks /\ task[i] \in P!Process /\ P!At(i, "user") /\ on' = on
      /\ task[i].at = "user" /\ task[i].state = "running"
      /\ task[i] # NULL /\ NULL \notin P!Process
  BY KernelAssumption DEF P!DoSignal, P!At, P!There, P!Tasks, FamilyInv, P!TypeOK,
     P!ProcessLifeAssumption
<1>2. PICK sig : sig = P!First(task[i].signal \ task[i].blocked)
  OBVIOUS
<1>3. \/ /\ P!MayExit(i)
         /\ task' = [P!GiveToInit(i) EXCEPT ![i].at = "close", ![i].signal = @ \ {sig}]
      \/ task' = [[task EXCEPT ![i].signal = @ \ {sig}] EXCEPT ![i].handler = "default"]
      \/ task' = [task EXCEPT ![i].signal = @ \ {sig}]
  BY <1>2 DEF P!DoSignal
<1>4. CASE /\ P!MayExit(i)
           /\ task' = [P!GiveToInit(i) EXCEPT ![i].at = "close", ![i].signal = @ \ {sig}]
  <2>1. PICK tab : tab = P!GiveToInit(i)
    OBVIOUS
  <2>2. /\ tab \in [P!Slot -> P!Process \cup {NULL}] /\ tab[i] \in P!Process
        /\ tab[i].state = "running"
    BY <1>1, <2>1, GivenToInit DEF FamilyInv, P!At
  <2>3. tab[i].blocked = task[i].blocked
    BY <1>1, <2>1, GivenAreTold DEF FamilyInv
  <2>4. PICK q : q = [tab[i] EXCEPT !.at = "close", !.signal = tab[i].signal \ {sig}]
    OBVIOUS
  <2>5. /\ q \in P!Process /\ q.father = tab[i].father
        /\ q.state = "running" /\ q.at = "close" /\ q.blocked = task[i].blocked
    BY <2>2, <2>3, <2>4 DEF P!Process
  <2>6. task' = [tab EXCEPT ![i] = q]
    BY <1>4, <2>1, <2>2, <2>4
  <2> QED BY <1>1, <1>4, <2>1, <2>5, <2>6, BeginExitKeepsHope
<1>5. CASE \/ task' = [[task EXCEPT ![i].signal = @ \ {sig}] EXCEPT ![i].handler = "default"]
           \/ task' = [task EXCEPT ![i].signal = @ \ {sig}]
  <2>1. PICK q : q = [task[i] EXCEPT !.signal = task[i].signal \ {sig}]
    OBVIOUS
  <2>2. PICK r : r = [q EXCEPT !.handler = "default"]
    OBVIOUS
  <2>3. /\ q \in P!Process /\ q.pid = task[i].pid /\ q.father = task[i].father
        /\ q.state = "running" /\ q.at = "user" /\ q.blocked = task[i].blocked
    BY <1>1, <2>1 DEF P!Process
  <2>4. /\ r \in P!Process /\ r.pid = task[i].pid /\ r.father = task[i].father
        /\ r.state = "running" /\ r.at = "user" /\ r.blocked = task[i].blocked
    BY <2>2, <2>3 DEF P!Process, P!Handler
  <2>5. task' = [task EXCEPT ![i] = q] \/ task' = [task EXCEPT ![i] = r]
    BY <1>1, <1>5, <2>1, <2>2 DEF FamilyInv, P!TypeOK
  <2>6. CanBeTold(task[i])
    BY <1>1 DEF HopeInv
  <2>7. SameWait(task[i], q) /\ SameWait(task[i], r)
    BY <1>1, <2>3, <2>4, <2>6 DEF SameWait, CanBeTold, Waits
  <2> QED BY <1>1, <2>5, <2>7, OneStays
<1> QED BY <1>3, <1>4, <1>5

\* The last step of do_exit(): the father is told of the zombie.
LEMMA EndExitKeepsHope ==
  ASSUME FamilyInv, HopeInv, NEW i \in P!Slot, P!EndExit(i)
  PROVE  HopeInv'
<1> DEFINE members == {j \in P!Tasks : task[i].leader /\ task[j].session = task[i].session}
           hung == P!Send(task, members, "HUP")
           dead == [hung EXCEPT ![i].state = "zombie", ![i].at = "end"]
           fathers == {j \in P!Tasks : P!PidOf(j) = task[i].father}
           first == CHOOSE j \in fathers : \A k \in fathers : j <= k
<1>1. /\ i \in P!Tasks /\ task[i] # NULL /\ task[i].at = "close" /\ on' = on
      /\ task[i].state = "running" /\ task[i] \in P!Process
      /\ task \in [P!Slot -> P!Process \cup {NULL}] /\ NULL \notin P!Process
  BY KernelAssumption DEF P!EndExit, P!At, P!There, P!Tasks, FamilyInv, P!TypeOK,
     P!ProcessLifeAssumption
<1>2. i # 1 /\ task[i].pid # 1
  <2>1. 1 \in P!Tasks /\ task[1].pid = 1 /\ ~Ending(task[1])
    BY KernelAssumption DEF FamilyInv, InitLives, P!InitIsFirst, P!Tasks, P!There,
       P!Slot, P!ProcessLifeAssumption, P!PidOf
  <2> QED BY <1>1, <2>1 DEF Ending, FamilyInv, P!PidsAreUnique, P!PidOf
<1>3. PICK f \in P!Tasks \ {i} : task[f].pid = task[i].father
  BY <1>1, <1>2 DEF FamilyInv, P!FatherIsThere, P!PidOf
<1>4. task[i].father # 0
  BY <1>3 DEF P!Tasks, P!There, FamilyInv, P!TypeOK, P!Process, P!Pid
<1>5. fathers = {f}
  BY <1>3 DEF FamilyInv, P!PidsAreUnique, P!PidOf
<1>6. first = f
  <2>1. f <= f
    BY <1>3 DEF P!Tasks, P!Slot
  <2> QED BY <1>5, <2>1
<1>7. task' = P!Send(dead, {f}, "CHLD")
  <2>1. task' = IF task[i].father = 0 THEN [dead EXCEPT ![i] = NULL]
                ELSE IF fathers = {} THEN [dead EXCEPT ![i] = NULL]
                ELSE P!Send(dead, {first}, "CHLD")
    BY DEF P!EndExit
  <2> QED BY <1>4, <1>5, <1>6, <2>1
<1>8. PICK h : h = hung
  OBVIOUS
<1>9. /\ h \in [P!Slot -> P!Process \cup {NULL}]
      /\ \A j \in P!Slot : task[j] = NULL => h[j] = NULL
      /\ \A j \in P!Tasks : /\ h[j] \in P!Process /\ h[j].pid = task[j].pid
                            /\ h[j].father = task[j].father /\ h[j].state = task[j].state
                            /\ h[j].at = task[j].at /\ h[j].for = task[j].for
                            /\ h[j].blocked = task[j].blocked
                            /\ task[j].signal \subseteq h[j].signal
  <2>1. "HUP" \in P!Signals
    BY DEF P!Signals
  <2>2. ASSUME NEW j \in P!Slot
        PROVE  /\ h[j] \in P!Process \cup {NULL} /\ (task[j] = NULL => h[j] = NULL)
               /\ j \in P!Tasks =>
                     /\ h[j] \in P!Process /\ h[j].pid = task[j].pid
                     /\ h[j].father = task[j].father /\ h[j].state = task[j].state
                     /\ h[j].at = task[j].at /\ h[j].for = task[j].for
                     /\ h[j].blocked = task[j].blocked
                     /\ task[j].signal \subseteq h[j].signal
    <3>1. CASE j \notin members \/ task[j] = NULL
      <4>1. h[j] = task[j]
        BY <1>1, <1>8, <2>1, <3>1, Sent
      <4> QED BY <1>1, <4>1 DEF P!Tasks, P!There
    <3>2. CASE j \in members /\ task[j] # NULL
      BY <1>1, <1>8, <2>1, <3>2, Sent
    <3> QED BY <3>1, <3>2
  <2>3. h = [j \in P!Slot |-> h[j]]
    BY <1>8 DEF P!Send
  <2> QED BY <2>2, <2>3 DEF P!Tasks
<1>10. PICK z : z = [h[i] EXCEPT !.state = "zombie", !.at = "end"]
  OBVIOUS
<1>11. /\ z \in P!Process /\ z.pid = task[i].pid /\ z.father = task[i].father
       /\ z.state = "zombie" /\ z.at = "end" /\ z.blocked = task[i].blocked
  <2>1. /\ h[i] \in P!Process /\ h[i].pid = task[i].pid
        /\ h[i].father = task[i].father /\ h[i].blocked = task[i].blocked
    BY <1>1, <1>9
  <2> HIDE DEF members, hung, dead, fathers, first
  <2>2. /\ z \in P!Process /\ z.pid = h[i].pid /\ z.father = h[i].father
        /\ z.state = "zombie" /\ z.at = "end" /\ z.blocked = h[i].blocked
    BY <1>10, <2>1 DEF P!Process
  <2> QED BY <2>1, <2>2
<1>12. PICK d : d = [h EXCEPT ![i] = z]
  OBVIOUS
<1>13. /\ d \in [P!Slot -> P!Process \cup {NULL}] /\ d[i] = z
       /\ \A j \in P!Slot : j # i => d[j] = h[j]
  BY <1>9, <1>11, <1>12
<1>14. task' = P!Send(d, {f}, "CHLD")
  <2>1. d = dead
    BY <1>8, <1>9, <1>10, <1>12
  <2> QED BY <1>7, <2>1
<1> HIDE DEF members, hung, dead, fathers, first
<1>23. \A j \in P!Tasks : j \in P!Slot /\ task[j] # NULL
  BY DEF P!Tasks, P!There
<1>24. \A j \in P!Tasks : d[j] # NULL
  BY <1>1, <1>9, <1>11, <1>13, <1>23
<1>15. ASSUME NEW j \in P!Slot, d[j] # NULL
       PROVE  /\ task'[j] \in P!Process /\ task'[j].pid = d[j].pid
              /\ task'[j].father = d[j].father /\ task'[j].state = d[j].state
              /\ task'[j].at = d[j].at /\ task'[j].for = d[j].for
              /\ task'[j].blocked = d[j].blocked
              /\ d[j].signal \subseteq task'[j].signal
              /\ j = f => "CHLD" \in task'[j].signal
  <2>1. "CHLD" \in P!Signals
    BY DEF P!Signals
  <2>2. CASE j \in {f}
    BY <1>13, <1>14, <1>15, <2>1, <2>2, Sent
  <2>3. CASE j \notin {f}
    <3>1. task'[j] = d[j]
      BY <1>13, <1>14, <2>1, <2>3, Sent
    <3> QED BY <1>13, <1>15, <2>3, <3>1
  <2> QED BY <2>2, <2>3
<1>16. \A j \in P!Slot : d[j] = NULL => task'[j] = NULL
  <2>1. "CHLD" \in P!Signals
    BY DEF P!Signals
  <2> QED BY <1>13, <1>14, <2>1, Sent
<1>17. P!Tasks' = P!Tasks
  <2>1. \A j \in P!Slot : task[j] = NULL <=> task'[j] = NULL
    BY <1>1, <1>9, <1>13, <1>15, <1>16, <1>23, <1>24 DEF P!Tasks, P!There
  <2> QED BY <2>1 DEF P!Tasks, P!There
<1>18. /\ task'[i].at = "end" /\ task'[i].state = "zombie" /\ task'[i].father = task[i].father
       /\ task'[i].blocked = task[i].blocked
  BY <1>1, <1>11, <1>13, <1>15
<1>19. \A j \in P!Tasks : j # i =>
          /\ task'[j].pid = task[j].pid /\ task'[j].father = task[j].father
          /\ task'[j].state = task[j].state /\ task'[j].at = task[j].at
          /\ task'[j].for = task[j].for /\ task'[j].blocked = task[j].blocked
          /\ task[j].signal \subseteq task'[j].signal
  <2> TAKE j \in P!Tasks
  <2> HAVE j # i
  <2>1. j \in P!Slot /\ d[j] = h[j] /\ d[j] # NULL
    BY <1>13, <1>23, <1>24
  <2> QED BY <1>9, <1>15, <2>1
<1>20. "CHLD" \in task'[f].signal
  <2>1. f \in P!Slot /\ d[f] # NULL
    BY <1>3, <1>23, <1>24
  <2> QED BY <1>15, <2>1
<1>21. \A j \in P!Tasks' : CanBeTold(task'[j])
  BY <1>1, <1>17, <1>18, <1>19 DEF HopeInv, CanBeTold
<1>22. ASSUME NEW k \in P!Tasks', Waits(task'[k])
       PROVE  /\ k \in P!Tasks /\ WaitsOn(task[k], task'[k])
              /\ \E j \in P!Tasks' \ {k} : task'[j].father = task[k].pid
              /\ \A j \in P!Tasks' \ {k} :
                    task'[j].father = task[k].pid /\ task'[j].state = "zombie" =>
                       \/ /\ j \in P!Tasks /\ task[j].father = task[k].pid
                          /\ task[j].state = "zombie" /\ task[j].pid = task'[j].pid
                       \/ "CHLD" \in task'[k].signal
  <2>1. k \in P!Tasks /\ k # i /\ WaitsOn(task[k], task'[k])
    BY <1>17, <1>18, <1>19, <1>22 DEF Waits, WaitsOn
  <2>2. P!Children(k, P!ANY) # {}
    BY <2>1 DEF HopeInv, P!WaiterHasHope, WaitsOn, Waits
  <2>3. PICK j \in P!Tasks \ {k} : task[j].father = task[k].pid
    BY <2>2 DEF P!Children, P!PidOf
  <2>4. task[i].father = task[k].pid => "CHLD" \in task'[k].signal
    <3>1. task[i].father = task[k].pid => k = f
      BY <1>3, <2>1 DEF FamilyInv, P!PidsAreUnique, P!PidOf
    <3> QED BY <1>20, <3>1
  <2> QED BY <1>17, <1>18, <1>19, <2>1, <2>3, <2>4
<1> QED BY <1>1, <1>21, <1>22, WaitersKeepHope

-----------------------------------------------------------------------------
\* What a waiter's hope is made of.
LEMMA HopeIsThis ==
  ASSUME HopeInv, on' = on,
         \A k \in P!Tasks' : CanBeTold(task'[k]),
         \A k \in P!Tasks' : Waits(task'[k]) =>
            /\ \E j \in P!Tasks' \ {k} : task'[j].father = task'[k].pid
            /\ (\E j \in P!Tasks' \ {k} :
                  /\ task'[j].father = task'[k].pid /\ task'[j].state = "zombie"
                  /\ task'[k].for = 0 \/ task'[j].pid = task'[k].for)
               => task'[k].signal \ task'[k].blocked # {}
  PROVE  HopeInv'
<1>1. P!WaiterHasHope'
  <2> SUFFICES ASSUME NEW k \in P!Tasks', Waits(task'[k])
               PROVE  /\ (P!Children(k, P!ANY))' # {}
                      /\ (P!ZombiesOf(k, task[k].for))' # {}
                            => task'[k].signal \ task'[k].blocked # {}
    BY DEF P!WaiterHasHope, Waits
  <2>1. task'[k].for # P!GROUP
    BY DEF CanBeTold, Waits
  <2>2. PICK j \in P!Tasks' \ {k} : task'[j].father = task'[k].pid
    OBVIOUS
  <2>3. (P!Children(k, P!ANY))' # {}
    <3>1. j \in P!Tasks' \ {k} /\ task'[j].father = task'[k].pid
      BY <2>2
    <3>2. j \in (P!Children(k, P!ANY))'
      BY <3>1, KernelAssumption DEF P!Children, P!PidOf, P!ANY, P!GROUP, P!ProcessLifeAssumption
    <3> QED BY <3>2
  <2>4. ASSUME NEW z \in (P!ZombiesOf(k, task[k].for))'
        PROVE  task'[k].signal \ task'[k].blocked # {}
    <3>1. /\ z \in P!Tasks' \ {k} /\ task'[z].father = task'[k].pid
          /\ task'[z].state = "zombie" /\ (task'[k].for = 0 \/ task'[z].pid = task'[k].for)
      BY <2>1, <2>4 DEF P!ZombiesOf, P!Children, P!PidOf, P!ANY
    <3> QED BY <3>1
  <2> QED BY <2>3, <2>4
<1> QED BY <1>1 DEF HopeInv

\* sys_waitpid(): who releases a child leaves the others theirs, and who begins
\* to wait has a child and no zombie.
LEMMA SearchKeepsHope ==
  ASSUME FamilyInv, HopeInv, NEW i \in P!Tasks, task[i].state = "running",
         task[i].at \in {"user", "wait"}, NEW p \in 0..P!GROUP, p # P!GROUP,
         NEW q, SameButSignals(task[i], q), q.blocked = task[i].blocked,
         NEW tab, tab = [task EXCEPT ![i] = q], P!Search(i, p, tab), on' = on
  PROVE  HopeInv'
<1>1. /\ i \in P!Slot /\ task[i] \in P!Process /\ task[i] # NULL /\ NULL \notin P!Process
      /\ task \in [P!Slot -> P!Process \cup {NULL}]
      /\ \A j \in P!Tasks : j \in P!Slot /\ task[j] # NULL
      /\ CanBeTold(task[i])
  BY KernelAssumption DEF P!Tasks, P!There, FamilyInv, P!TypeOK, HopeInv,
     P!ProcessLifeAssumption
<1>2. /\ q \in P!Process /\ q.pid = task[i].pid /\ q.father = task[i].father
      /\ q.state = "running" /\ q.at = task[i].at /\ q.blocked = task[i].blocked
      /\ tab \in [P!Slot -> P!Process \cup {NULL}] /\ tab[i] = q
      /\ \A j \in P!Slot : j # i => tab[j] = task[j]
  BY <1>1 DEF SameButSignals
<1>3. ASSUME NEW r \in P!Process, r.pid = q.pid, r.father = q.father,
             r.state = "running", r.at = "user", r.blocked = q.blocked
      PROVE  SameWait(task[i], r)
  BY <1>1, <1>2, <1>3 DEF SameWait, CanBeTold, Waits
<1>4. ASSUME NEW z \in P!ZombiesOf(i, p),
             task' = [tab EXCEPT ![z] = NULL, ![i].at = "user", ![i].for = 0,
                                 ![i].state = "running"]
      PROVE  HopeInv'
  <2>1. z \in P!Tasks /\ z \in P!Slot /\ z # i /\ task[z].father = task[i].pid
    BY <1>1, <1>4 DEF P!ZombiesOf, P!Children, P!PidOf
  <2>2. PICK r : r = [q EXCEPT !.at = "user", !.for = 0, !.state = "running"]
    OBVIOUS
  <2>3. 0 \in 0..P!GROUP
    BY KernelAssumption DEF P!GROUP, P!ProcessLifeAssumption
  <2>4. /\ r \in P!Process /\ r.pid = q.pid /\ r.father = q.father
        /\ r.state = "running" /\ r.at = "user" /\ r.blocked = q.blocked
    BY <1>2, <2>2, <2>3 DEF P!Process
  <2>5. PICK new : new = [[tab EXCEPT ![z] = NULL] EXCEPT ![i] = r]
    OBVIOUS
  <2>6. task' = new
    BY <1>1, <1>2, <1>4, <2>1, <2>2, <2>5
  <2>7. /\ new \in [P!Slot -> P!Process \cup {NULL}] /\ new[z] = NULL /\ new[i] = r
        /\ \A j \in P!Slot : j # i /\ j # z => new[j] = task[j]
    BY <1>1, <1>2, <2>1, <2>4, <2>5
  <2>8. r # NULL /\ SameWait(task[i], r)
    BY <1>1, <1>3, <2>4
  <2>9. P!Tasks' = P!Tasks \ {z}
    BY <1>1, <2>1, <2>6, <2>7, <2>8 DEF P!Tasks, P!There
  <2>10. \A j \in P!Tasks' : j # i => task'[j] = task[j]
    BY <1>1, <2>6, <2>7, <2>9
  <2>11. task'[i] = r /\ CanBeTold(r) /\ ~Waits(r) /\ r.father = task[i].father
    BY <1>2, <2>4, <2>6, <2>7, <2>8 DEF SameWait, Waits
  <2>12. \A j \in P!Tasks' : CanBeTold(task'[j])
    BY <2>9, <2>10, <2>11 DEF HopeInv
  <2>13. ASSUME NEW k \in P!Tasks', Waits(task'[k])
         PROVE  /\ k \in P!Tasks /\ WaitsOn(task[k], task'[k])
                /\ \E j \in P!Tasks' \ {k} : task'[j].father = task[k].pid
                /\ \A j \in P!Tasks' \ {k} :
                      task'[j].father = task[k].pid /\ task'[j].state = "zombie" =>
                         /\ j \in P!Tasks /\ task[j].father = task[k].pid
                         /\ task[j].state = "zombie" /\ task[j].pid = task'[j].pid
    <3>1. k \in P!Tasks /\ k # i /\ WaitsOn(task[k], task'[k])
      BY <2>9, <2>10, <2>11, <2>13 DEF Waits, WaitsOn
    <3>2. P!Children(k, P!ANY) # {}
      BY <3>1 DEF HopeInv, P!WaiterHasHope, WaitsOn, Waits
    <3>3. PICK j \in P!Tasks \ {k} : task[j].father = task[k].pid
      BY <3>2 DEF P!Children, P!PidOf
    <3>4. task[k].pid # task[i].pid
      BY <3>1 DEF FamilyInv, P!PidsAreUnique, P!PidOf
    <3>5. j # z
      BY <2>1, <3>3, <3>4
    <3>6. r.state = "running"
      BY <2>4
    <3> QED BY <2>9, <2>10, <2>11, <3>1, <3>3, <3>5, <3>6
  <2> QED BY <2>12, <2>13, WaitersKeepHope
<1>5. CASE task' = [tab EXCEPT ![i].at = "user", ![i].for = 0]
  <2>1. PICK r : r = [q EXCEPT !.at = "user", !.for = 0]
    OBVIOUS
  <2>2. 0 \in 0..P!GROUP
    BY KernelAssumption DEF P!GROUP, P!ProcessLifeAssumption
  <2>3. /\ r \in P!Process /\ r.pid = q.pid /\ r.father = q.father
        /\ r.state = "running" /\ r.at = "user" /\ r.blocked = q.blocked
    BY <1>2, <2>1, <2>2 DEF P!Process
  <2>4. task' = [task EXCEPT ![i] = r]
    BY <1>1, <1>2, <1>5, <2>1
  <2> QED BY <1>3, <2>3, <2>4, OneStays
<1>6. CASE /\ P!ZombiesOf(i, p) = {} /\ P!Children(i, p) # {}
           /\ task' = [tab EXCEPT ![i].at = "wait", ![i].for = p,
                                  ![i].state = "interruptible"]
  <2>1. PICK r : r = [q EXCEPT !.at = "wait", !.for = p, !.state = "interruptible"]
    OBVIOUS
  <2>2. /\ r \in P!Process
        /\ r.pid = q.pid /\ r.father = q.father /\ r.at = "wait" /\ r.for = p
        /\ r.state = "interruptible" /\ r.blocked = q.blocked
    BY <1>2, <2>1 DEF P!Process
  <2>3. task' = [task EXCEPT ![i] = r]
    BY <1>1, <1>2, <1>6, <2>1
  <2>4. task'[i] = r /\ \A j \in P!Slot : j # i => task'[j] = task[j]
    BY <1>1, <2>3
  <2>5. r # NULL
    BY <1>1, <2>2
  <2>6. P!Tasks' = P!Tasks
    BY <1>1, <2>4, <2>5 DEF P!Tasks, P!There
  <2>7. CanBeTold(r)
    BY <1>1, <1>2, <2>2 DEF CanBeTold
  <2>8. \A j \in P!Tasks : /\ task'[j].pid = task[j].pid /\ task'[j].father = task[j].father
                           /\ CanBeTold(task'[j])
                           /\ task'[j].state = "zombie" => task[j].state = "zombie" /\ j # i
                           /\ j # i => task'[j] = task[j]
    BY <1>1, <1>2, <2>2, <2>4, <2>7 DEF HopeInv
  <2>9. PICK m \in P!Tasks \ {i} : task[m].father = task[i].pid
    BY <1>6 DEF P!Children, P!PidOf
  <2>10. ASSUME NEW k \in P!Tasks', Waits(task'[k])
         PROVE  /\ \E j \in P!Tasks' \ {k} : task'[j].father = task'[k].pid
                /\ (\E j \in P!Tasks' \ {k} :
                      /\ task'[j].father = task'[k].pid /\ task'[j].state = "zombie"
                      /\ task'[k].for = 0 \/ task'[j].pid = task'[k].for)
                   => task'[k].signal \ task'[k].blocked # {}
    <3>1. CASE k = i
      <4>1. ASSUME NEW j \in P!Tasks \ {i}, task[j].father = task[i].pid,
                   task[j].state = "zombie", p = 0 \/ task[j].pid = p
            PROVE  FALSE
        <5>1. j \in P!ZombiesOf(i, p)
          BY <4>1 DEF P!ZombiesOf, P!Children, P!PidOf, P!ANY
        <5> QED BY <1>6, <5>1
      <4>2. task'[i].for = p /\ task'[i].pid = task[i].pid
        BY <1>2, <2>2, <2>4
      <4> QED BY <2>6, <2>8, <2>9, <3>1, <4>1, <4>2
    <3>2. CASE k # i
      <4>1. k \in P!Tasks /\ task'[k] = task[k] /\ Waits(task[k])
        BY <2>6, <2>8, <2>10, <3>2
      <4>2. /\ P!Children(k, P!ANY) # {} /\ task[k].for # P!GROUP
            /\ P!ZombiesOf(k, task[k].for) # {} => task[k].signal \ task[k].blocked # {}
        BY <4>1 DEF HopeInv, P!WaiterHasHope, Waits, CanBeTold
      <4>3. PICK j \in P!Tasks \ {k} : task[j].father = task[k].pid
        BY <4>2 DEF P!Children, P!PidOf
      <4>4. ASSUME NEW y1 \in P!Tasks \ {k}, task[y1].father = task[k].pid,
                   task[y1].state = "zombie", task[k].for = 0 \/ task[y1].pid = task[k].for
            PROVE  task[k].signal \ task[k].blocked # {}
        <5>1. y1 \in P!ZombiesOf(k, task[k].for)
          BY <4>2, <4>4 DEF P!ZombiesOf, P!Children, P!PidOf, P!ANY
        <5> QED BY <4>2, <5>1
      <4> QED BY <2>6, <2>8, <4>1, <4>3, <4>4
    <3> QED BY <3>1, <3>2
  <2> QED BY <2>6, <2>8, <2>10, HopeIsThis
<1>7. CASE UNCHANGED task
  <2>1. \A j \in P!Slot : IF task[j] = NULL THEN task'[j] = NULL
                          ELSE SameWait(task[j], task'[j])
    BY <1>7 DEF SameWait, WaitsOn, HopeInv, P!Tasks, P!There
  <2> QED BY <2>1, WaitersStay
<1> QED BY <1>4, <1>5, <1>6, <1>7 DEF P!Search

\* sys_waitpid(), at its call and when its sleep ends.
LEMMA WaitKeepsHope ==
  ASSUME FamilyInv, HopeInv, NEW i \in P!Slot, P!WaitPid(i) \/ P!WaitAgain(i)
  PROVE  HopeInv'
<1>1. /\ i \in P!Tasks /\ task[i] \in P!Process /\ task[i].state = "running"
      /\ task[i].at \in {"user", "wait"} /\ on' = on
      /\ task[i] # NULL /\ NULL \notin P!Process /\ CanBeTold(task[i])
  BY KernelAssumption DEF P!WaitPid, P!WaitAgain, P!At, P!There, P!Tasks, FamilyInv,
     P!TypeOK, HopeInv, P!ProcessLifeAssumption
<1>2. CASE P!WaitPid(i)
  <2>1. PICK p : /\ p \in {0} \cup {P!PidOf(j) : j \in P!Tasks}
                 /\ P!Search(i, p, task)
    BY <1>2 DEF P!WaitPid, P!ANY, HopeInv
  <2>2. p \in 0..P!GROUP /\ p # P!GROUP
    BY <2>1, KernelAssumption DEF P!GROUP, P!ProcessLifeAssumption, P!PidOf, P!Tasks,
       P!There, FamilyInv, P!TypeOK, P!Process, P!Pid
  <2>3. task = [task EXCEPT ![i] = task[i]]
    BY DEF FamilyInv, P!TypeOK
  <2>4. SameButSignals(task[i], task[i])
    BY <1>1 DEF SameButSignals
  <2> QED BY <1>1, <2>1, <2>2, <2>3, <2>4, SearchKeepsHope
<1>3. CASE P!WaitAgain(i)
  <2>1. PICK left : left = task[i].signal \ {"CHLD"}
    OBVIOUS
  <2>2. PICK q : q = [task[i] EXCEPT !.signal = left]
    OBVIOUS
  <2>3. /\ SameButSignals(task[i], q) /\ q.blocked = task[i].blocked
        /\ q \in P!Process /\ q.pid = task[i].pid /\ q.father = task[i].father
        /\ q.state = "running"
    BY <1>1, <2>1, <2>2 DEF P!Process, SameButSignals
  <2>4. PICK tab : tab = [task EXCEPT ![i] = q]
    OBVIOUS
  <2>5. tab = [task EXCEPT ![i].signal = left]
    BY <1>1, <2>2, <2>4 DEF FamilyInv, P!TypeOK
  <2>6. \/ task' = [tab EXCEPT ![i].at = "user", ![i].for = 0]
        \/ P!Search(i, task[i].for, tab)
    BY <1>3, <2>1, <2>5 DEF P!WaitAgain
  <2>7. task[i].for \in 0..P!GROUP /\ task[i].for # P!GROUP
    BY <1>1, <1>3 DEF P!WaitAgain, P!At, CanBeTold, P!Process
  <2>8. CASE task' = [tab EXCEPT ![i].at = "user", ![i].for = 0]
    <3>1. PICK r : r = [q EXCEPT !.at = "user", !.for = 0]
      OBVIOUS
    <3>2. 0 \in 0..P!GROUP
      BY KernelAssumption DEF P!GROUP, P!ProcessLifeAssumption
    <3>3. /\ r \in P!Process /\ r.pid = q.pid /\ r.father = q.father
          /\ r.state = "running" /\ r.at = "user" /\ r.blocked = q.blocked
      BY <2>3, <3>1, <3>2 DEF P!Process
    <3>4. task' = [task EXCEPT ![i] = r]
      BY <1>1, <2>4, <2>8, <3>1 DEF P!Tasks, FamilyInv, P!TypeOK
    <3>5. SameWait(task[i], r)
      BY <1>1, <2>3, <3>3 DEF SameWait, CanBeTold, Waits
    <3> QED BY <1>1, <3>4, <3>5, OneStays
  <2>9. CASE P!Search(i, task[i].for, tab)
    BY <1>1, <2>3, <2>4, <2>7, <2>9, SearchKeepsHope
  <2> QED BY <2>6, <2>8, <2>9
<1> QED BY <1>2, <1>3

-----------------------------------------------------------------------------
\* Calls that change one process: none takes a child or a signal from a waiter.
LEMMA CallsKeepHope ==
  ASSUME FamilyInv, HopeInv, NEW i \in P!Slot,
         \/ P!Pause(i) \/ P!Unpause(i) \/ P!Wake(i) \/ P!SetMask(i) \/ P!SigAction(i)
         \/ P!SetSid(i) \/ P!SetPgid(i) \/ P!SetTtyGroup(i)
  PROVE  HopeInv'
<1>1. /\ task \in [P!Slot -> P!Process \cup {NULL}] /\ NULL \notin P!Process
      /\ \A j \in P!Tasks : /\ j \in P!Slot /\ task[j] # NULL /\ task[j] \in P!Process
                            /\ CanBeTold(task[j])
      /\ "mask_child" \notin on
  BY KernelAssumption DEF P!Tasks, P!There, FamilyInv, P!TypeOK, HopeInv,
     P!ProcessLifeAssumption
<1>2. i \in P!Tasks /\ on' = on
  BY DEF P!Pause, P!Unpause, P!Wake, P!SetMask, P!SigAction, P!SetSid, P!SetPgid,
     P!SetTtyGroup, P!At, P!There, P!Tasks
<1>3. ASSUME NEW j \in P!Tasks, NEW q \in P!Process, q.pid = task[j].pid,
             q.father = task[j].father, q.state = "zombie" => task[j].state = "zombie",
             "CHLD" \notin q.blocked, q.at = task[j].at \/ ~(q.at = "wait"),
             q.for = task[j].for,
             Waits(q) => /\ Waits(task[j]) /\ q.signal = task[j].signal
                         /\ q.blocked = task[j].blocked,
             task' = [task EXCEPT ![j] = q]
      PROVE  HopeInv'
  <2>1. SameWait(task[j], q)
    BY <1>1, <1>3 DEF SameWait, CanBeTold, WaitsOn
  <2> QED BY <1>2, <1>3, <2>1, OneStays
<1>4. CASE P!Pause(i)
  <2>1. PICK q : q = [task[i] EXCEPT !.at = "pause", !.state = "interruptible"]
    OBVIOUS
  <2>2. /\ q \in P!Process /\ q.pid = task[i].pid /\ q.father = task[i].father
        /\ q.state = "interruptible" /\ q.at = "pause" /\ q.for = task[i].for
        /\ q.blocked = task[i].blocked
    BY <1>1, <1>2, <2>1 DEF P!Process
  <2>3. task' = [task EXCEPT ![i] = q]
    BY <1>1, <1>2, <1>4, <2>1 DEF P!Pause
  <2> QED BY <1>1, <1>2, <1>3, <2>2, <2>3 DEF CanBeTold, Waits
<1>5. CASE P!Unpause(i)
  <2>1. PICK q : q = [task[i] EXCEPT !.at = "user"]
    OBVIOUS
  <2>2. /\ q \in P!Process /\ q.pid = task[i].pid /\ q.father = task[i].father
        /\ q.state = task[i].state /\ q.at = "user" /\ q.for = task[i].for
        /\ q.blocked = task[i].blocked
    BY <1>1, <1>2, <2>1 DEF P!Process
  <2>3. task' = [task EXCEPT ![i] = q]
    BY <1>1, <1>2, <1>5, <2>1 DEF P!Unpause
  <2> QED BY <1>1, <1>2, <1>3, <2>2, <2>3 DEF CanBeTold, Waits
<1>6. CASE P!Wake(i)
  <2>1. PICK q : q = [task[i] EXCEPT !.state = "running"]
    OBVIOUS
  <2>2. /\ q \in P!Process /\ q.pid = task[i].pid /\ q.father = task[i].father
        /\ q.state = "running" /\ q.at = task[i].at /\ q.for = task[i].for
        /\ q.blocked = task[i].blocked
    BY <1>1, <1>2, <2>1 DEF P!Process
  <2>3. task' = [task EXCEPT ![i] = q]
    BY <1>1, <1>2, <1>6, <2>1 DEF P!Wake
  <2> QED BY <1>1, <1>2, <1>3, <2>2, <2>3 DEF CanBeTold, Waits
<1>7. CASE P!SetMask(i)
  <2>1. PICK m \in {{}, {"TERM"}} : task' = [task EXCEPT ![i].blocked = m]
    BY <1>1, <1>7 DEF P!SetMask
  <2>2. m \subseteq P!Signals /\ "CHLD" \notin m
    BY <2>1 DEF P!Signals
  <2>3. PICK q : q = [task[i] EXCEPT !.blocked = m]
    OBVIOUS
  <2>4. /\ q \in P!Process /\ q.pid = task[i].pid /\ q.father = task[i].father
        /\ q.state = task[i].state /\ q.at = task[i].at /\ q.for = task[i].for
        /\ q.blocked = m
    BY <1>1, <1>2, <2>2, <2>3 DEF P!Process
  <2>5. task' = [task EXCEPT ![i] = q]
    BY <1>1, <1>2, <2>1, <2>3
  <2>6. task[i].state = "running"
    BY <1>7 DEF P!SetMask, P!At
  <2> QED BY <1>1, <1>2, <1>3, <2>2, <2>4, <2>5, <2>6 DEF Waits
<1>8. CASE P!SigAction(i)
  <2>1. PICK h \in P!Handler : task' = [task EXCEPT ![i].handler = h]
    BY <1>8 DEF P!SigAction
  <2>2. PICK q : q = [task[i] EXCEPT !.handler = h]
    OBVIOUS
  <2>3. /\ q \in P!Process /\ q.pid = task[i].pid /\ q.father = task[i].father
        /\ q.state = task[i].state /\ q.at = task[i].at /\ q.for = task[i].for
        /\ q.blocked = task[i].blocked /\ q.signal = task[i].signal
    BY <1>1, <1>2, <2>2 DEF P!Process
  <2>4. task' = [task EXCEPT ![i] = q]
    BY <1>1, <1>2, <2>1, <2>2
  <2> QED BY <1>1, <1>2, <1>3, <2>3, <2>4 DEF CanBeTold, Waits
<1>9. CASE P!SetSid(i)
  <2>1. PICK p : p = task[i].pid
    OBVIOUS
  <2>2. PICK q : q = [task[i] EXCEPT !.leader = TRUE, !.session = p, !.pgrp = p]
    OBVIOUS
  <2>3. p \in Nat
    BY <1>1, <1>2, <2>1 DEF P!Process, P!Pid
  <2>4. /\ q \in P!Process /\ q.pid = task[i].pid /\ q.father = task[i].father
        /\ q.state = task[i].state /\ q.at = task[i].at /\ q.for = task[i].for
        /\ q.blocked = task[i].blocked /\ q.signal = task[i].signal
    BY <1>1, <1>2, <2>2, <2>3 DEF P!Process
  <2>5. task' = [task EXCEPT ![i] = q]
    BY <1>1, <1>2, <1>9, <2>1, <2>2 DEF P!SetSid, P!PidOf
  <2> QED BY <1>1, <1>2, <1>3, <2>4, <2>5 DEF CanBeTold, Waits
<1>10. CASE P!SetPgid(i)
  <2>1. PICK j \in P!Tasks, k \in P!Tasks : task' = [task EXCEPT ![j].pgrp = task[k].pid]
    BY <1>10 DEF P!SetPgid, P!PidOf
  <2>2. PICK p : p = task[k].pid
    OBVIOUS
  <2>3. p \in Nat
    BY <1>1, <2>1, <2>2 DEF P!Process, P!Pid
  <2>4. PICK q : q = [task[j] EXCEPT !.pgrp = p]
    OBVIOUS
  <2>5. /\ q \in P!Process /\ q.pid = task[j].pid /\ q.father = task[j].father
        /\ q.state = task[j].state /\ q.at = task[j].at /\ q.for = task[j].for
        /\ q.blocked = task[j].blocked /\ q.signal = task[j].signal
    BY <1>1, <2>1, <2>3, <2>4 DEF P!Process
  <2>6. task' = [task EXCEPT ![j] = q]
    BY <1>1, <2>1, <2>2, <2>4
  <2> QED BY <1>1, <1>3, <2>5, <2>6 DEF CanBeTold, Waits
<1>11. CASE P!SetTtyGroup(i)
  <2>1. task' = [task EXCEPT ![i] = task[i]]
    BY <1>1, <1>11 DEF P!SetTtyGroup
  <2> QED BY <1>1, <1>2, <1>3, <2>1 DEF CanBeTold, Waits
<1> QED BY <1>4, <1>5, <1>6, <1>7, <1>8, <1>9, <1>10, <1>11

\* All steps of the processes.
LEMMA HopeIsKept ==
  ASSUME FamilyInv, HopeInv, P!Next
  PROVE  HopeInv'
<1>1. "TERM" \in P!Signals
  BY DEF P!Signals
<1>2. ASSUME NEW i \in P!Slot, P!Kill(i) PROVE HopeInv'
  <2>1. PICK T : task' = P!Send(task, T, "TERM")
    BY <1>2 DEF P!Kill
  <2>2. on' = on
    BY <1>2 DEF P!Kill
  <2> QED BY <1>1, <2>1, <2>2, SendingKeepsHope
<1>3. CASE P!TtyIntr
  <2>1. PICK T : task' = P!Send(task, T, "TERM")
    BY <1>3 DEF P!TtyIntr
  <2>2. on' = on
    BY <1>3 DEF P!TtyIntr
  <2> QED BY <1>1, <2>1, <2>2, SendingKeepsHope
<1> QED BY <1>2, <1>3, ForkKeepsHope, LeavingKeepsHope, EndExitKeepsHope, WaitKeepsHope,
        DoSignalKeepsHope, CallsKeepHope DEF P!Next

HopeStart == part = "processes" => FamilyInv /\ HopeInv

\* The hope of those who wait, in a kernel with other parts.
LEMMA HopeInvHolds ==
  ASSUME InitIsSpared, WaitersCanBeTold
  PROVE  Spec => []HopeStart
<1>1. Init /\ (part = "processes" => FamilyInv) => HopeStart
  <2> SUFFICES ASSUME Init, part = "processes" PROVE HopeInv
    BY DEF HopeStart
  <2>1. P!Init
    BY DEF Init
  <2>2. P!INIT # NULL
    <3>1. P!INIT \in P!Process
      BY KernelAssumption DEF P!ProcessLifeAssumption, P!INIT, P!Process, P!Pid, P!GROUP,
         P!Signals, P!Handler
    <3> QED BY <3>1, KernelAssumption DEF P!ProcessLifeAssumption
  <2>3. P!Tasks = {1} /\ task[1] = P!INIT
    BY <2>1, <2>2, KernelAssumption DEF P!Init, P!Tasks, P!There, P!Slot,
       P!ProcessLifeAssumption
  <2>4. "CHLD" \notin P!INIT.blocked /\ P!INIT.at = "user"
    BY DEF P!INIT
  <2>5. "mask_child" \notin on /\ "wait_group" \notin on
    BY <2>1 DEF P!Init, WaitersCanBeTold
  <2> QED BY <2>3, <2>4, <2>5 DEF HopeInv, CanBeTold, P!WaiterHasHope
<1>2. HopeStart /\ [Next]_vars => HopeStart'
  <2> SUFFICES ASSUME HopeStart, [Next]_vars, part' = "processes"
               PROVE  FamilyInv' /\ HopeInv'
    BY DEF HopeStart
  <2>1. CASE P!Next /\ part = "processes"
    BY <2>1, ProcessesKeep, HopeIsKept DEF HopeStart
  <2>2. CASE UNCHANGED <<part, on, ofProcesses>>
    <3>1. FamilyInv /\ HopeInv
      BY <2>2 DEF HopeStart
    <3>2. FamilyInv'
      BY <2>2, <3>1 DEF ofProcesses, FamilyInv, P!TypeOK, P!PidsAreUnique,
         P!FatherIsThere, InitLives, P!InitIsFirst, EndsInOrder, P!Tasks, P!There, P!PidOf
    <3>3. HopeInv'
      BY <2>2, <3>1 DEF ofProcesses, HopeInv, P!WaiterHasHope, P!ZombiesOf, P!Children,
         P!Tasks, P!There, P!PidOf
    <3> QED BY <3>2, <3>3
  <2> QED BY <2>1, <2>2 DEF Next, InputStep, OutputStep, ConsoleStep, ProcessesStep,
      SchedulerStep, FloppyStep, AllWait, vars, ofProcesses
<1>3. Spec => [](part = "processes" => FamilyInv)
  BY FamilyInvHolds
<1> QED BY <1>1, <1>2, <1>3, PTL DEF Spec

-----------------------------------------------------------------------------
(***************************************************************************)
(* Everyone who sleeps.                                                    *)
(***************************************************************************)
\* No interrupt comes between a task's look at the floppy driver and its sleep.
SleepersAreInTime == \A r \in FloppyRegimes : "late_sleep" \notin r

\* Who sleeps for a line, for a child that has ended, or for a drive will be woken.
THEOREM SleepersKeepHope ==
  ASSUME EchoWaits, InitIsSpared, WaitersCanBeTold, FloppyIsTame, SleepersAreInTime
  PROVE  Spec => []SleepersHaveHope
<1>1. FloppyStart => (part = "floppy" => F!SleepersAreServed)
  <2> SUFFICES ASSUME FloppyInv, NEW t \in Changer
               PROVE  /\ pc[t] = "select" => fd.selected /\ fd.queue # <<>>
                      /\ pc[t] = "motor" => nr[t] \in fd.motors /\ fd.mon[nr[t]] > 0
    BY DEF FloppyStart, F!SleepersAreServed
  <2>1. "late_sleep" \notin on
    BY DEF FloppyInv, SleepersAreInTime
  <2>2. DriverInv(fd) /\ Hope(pc[t], fd, nr[t]) /\ nr[t] \in Drive
    BY <2>1 DEF FloppyInv
  <2> QED BY <2>2 DEF Hope, DriverInv, DriverRest, MotorsCount, Queued
<1>2. OutputStart => (part = "output" => O!WriterHasHope)
  BY DEF OutputStart, OutputInv
<1>3. HopeStart => (part = "processes" => P!WaiterHasHope)
  BY DEF HopeStart, HopeInv
<1>4. OutputStart /\ HopeStart /\ FloppyStart => SleepersHaveHope
  BY <1>1, <1>2, <1>3 DEF SleepersHaveHope
<1> QED BY <1>4, OutputInvHolds, HopeInvHolds, FloppyInvHolds, PTL
=============================================================================
