---------------------------- MODULE MemoryProofs ----------------------------
(***************************************************************************)
(* Proofs about physical memory and page tables, for any number of tasks,  *)
(* pages and programs, if memory does not run out when execve() faults on  *)
(* a page of strings: oom() then forgets the page of the arguments.        *)
(*                                                                         *)
(* A page is in one of two kinds of places: in a slot of the kernel (a     *)
(* page table, the page of a task structure, a page that is being read,    *)
(* the page of the arguments), or at an address of a task.  What steps do  *)
(* to places and counts is first shown of functions; a step of the kernel  *)
(* does one to four such things.                                           *)
(*                                                                         *)
(* At the end, that programs cannot tell: module Memory implements module  *)
(* AddressSpaces, if a task may lose the processor where it waits for a    *)
(* page, and while execve() copies strings, and nowhere else.              *)
(***************************************************************************)
EXTENDS Memory, FiniteSetTheorems, TLAPS

-----------------------------------------------------------------------------
(***************************************************************************)
(* Finite sets.                                                            *)
(***************************************************************************)
\* Pairs with the same first component are as many as their second components.
LEMMA PairsWith ==
  ASSUME NEW x, NEW S, IsFiniteSet(S)
  PROVE  IsFiniteSet({x} \X S) /\ Cardinality({x} \X S) = Cardinality(S)
<1>1. IsFiniteSet({x}) /\ Cardinality({x}) = 1
  BY FS_Singleton
<1>2. IsFiniteSet({x} \X S) /\ Cardinality({x} \X S) = 1 * Cardinality(S)
  BY <1>1, FS_Product
<1>3. Cardinality(S) \in Nat
  BY FS_CardinalityType
<1> QED BY <1>2, <1>3

\* Two disjoint sets together.
LEMMA DisjointUnion ==
  ASSUME NEW S, NEW T, IsFiniteSet(S), IsFiniteSet(T), S \cap T = {}
  PROVE  IsFiniteSet(S \cup T) /\ Cardinality(S \cup T) = Cardinality(S) + Cardinality(T)
<1>1. Cardinality(S \cap T) = 0
  BY FS_EmptySet
<1>2. Cardinality(S) \in Nat /\ Cardinality(T) \in Nat
  BY FS_CardinalityType
<1>3. /\ IsFiniteSet(S \cup T)
      /\ Cardinality(S \cup T) = Cardinality(S) + Cardinality(T) - Cardinality(S \cap T)
  BY FS_Union
<1> QED BY <1>1, <1>2, <1>3

\* A part is taken away.
LEMMA TakeAway ==
  ASSUME NEW S, NEW T, IsFiniteSet(S), T \subseteq S
  PROVE  /\ IsFiniteSet(T) /\ IsFiniteSet(S \ T)
         /\ Cardinality(S \ T) = Cardinality(S) - Cardinality(T)
         /\ Cardinality(T) <= Cardinality(S)
         /\ Cardinality(S) \in Nat /\ Cardinality(T) \in Nat /\ Cardinality(S \ T) \in Nat
<1>1. S \cap T = T
  OBVIOUS
<1> QED BY <1>1, FS_Difference, FS_Subset, FS_CardinalityType

-----------------------------------------------------------------------------
(***************************************************************************)
(* Places.                                                                 *)
(***************************************************************************)

Slot == (Task \X {"table"} \X Dir) \cup (Task \X {"task", "page", "arg"} \X {0})
Place == Task \X Addr

\* The pages in the slots, and those at the addresses.
Held == [s \in Slot |->
            IF s[2] = "table" THEN dir[s[1]][s[3]]
            ELSE IF s[2] = "task" THEN task_page[s[1]]
            ELSE IF s[2] = "page" THEN page[s[1]]
            ELSE arg[s[1]]]

Mapped == [x \in Place |->
              IF pte[x[1]][x[2]] = NULL THEN NULL ELSE pte[x[1]][x[2]].page]

PlacesOf(m, p) == {x \in Place : m[x] = p}

\* A page in a slot is nowhere else and counts 1; any other counts the
\* addresses it is at.
PagesRight(map, h, m) ==
    /\ map \in [Page -> Nat]
    /\ h \in [Slot -> Page \cup {NULL}]
    /\ m \in [Place -> Page \cup {NULL}]
    /\ \A s, r \in Slot : h[s] # NULL /\ h[s] = h[r] => s = r
    /\ \A s \in Slot : h[s] # NULL => map[h[s]] = 1 /\ PlacesOf(m, h[s]) = {}
    /\ \A p \in Page : (\A s \in Slot : h[s] # p) => map[p] = Cardinality(PlacesOf(m, p))

-----------------------------------------------------------------------------
\* The address spaces, the places and the pages.
LEMMA SetsAreFinite ==
  /\ IsFiniteSet(Addr) /\ IsFiniteSet(Dir) /\ IsFiniteSet(Place)
  /\ NULL \notin Page /\ NULL \notin Addr /\ Page \subseteq Nat
<1>1. IsFiniteSet(Addr) /\ Addr \subseteq Nat
  BY MemoryAssumption, FS_Interval DEF Addr
<1>2. IsFiniteSet(Dir)
  <2> DEFINE g == [a \in Addr |-> DirOf(a)]
  <2>1. g \in Surjection(Addr, Dir)
    BY DEF Surjection, Dir
  <2> QED BY <1>1, <2>1, FS_Surjection
<1>3. IsFiniteSet(Place)
  BY <1>1, MemoryAssumption, FS_Product DEF Place
<1>4. NULL \notin Nat /\ Page \subseteq Nat
  BY MemoryAssumption DEF Page
<1> QED BY <1>1, <1>2, <1>3, <1>4

\* The places of a page can be counted.
LEMMA PlacesAreFinite ==
  ASSUME NEW m, NEW p
  PROVE  IsFiniteSet(PlacesOf(m, p)) /\ Cardinality(PlacesOf(m, p)) \in Nat
<1>1. PlacesOf(m, p) \subseteq Place
  BY DEF PlacesOf
<1> QED BY <1>1, SetsAreFinite, FS_Subset, FS_CardinalityType

\* A free page is nowhere.
LEMMA FreeIsNowhere ==
  ASSUME NEW map, NEW h, NEW m, PagesRight(map, h, m), NEW p \in Page, map[p] = 0
  PROVE  (\A s \in Slot : h[s] # p) /\ PlacesOf(m, p) = {}
<1>1. \A s \in Slot : h[s] # p
  BY SetsAreFinite DEF PagesRight
<1>2. Cardinality(PlacesOf(m, p)) = 0
  BY <1>1 DEF PagesRight
<1> QED BY <1>1, <1>2, PlacesAreFinite, FS_EmptySet

\* Free pages are put in slots.
LEMMA FillSlots ==
  ASSUME NEW map, NEW h, NEW m, PagesRight(map, h, m),
         NEW S \in SUBSET Slot, NEW g \in [S -> Page],
         \A s \in S : h[s] = NULL /\ map[g[s]] = 0,
         \A s, r \in S : g[s] = g[r] => s = r,
         NEW map2, NEW h2,
         map2 = [p \in Page |-> IF \E s \in S : g[s] = p THEN 1 ELSE map[p]],
         h2 = [s \in Slot |-> IF s \in S THEN g[s] ELSE h[s]]
  PROVE  PagesRight(map2, h2, m)
<1>1. \A s \in S : (\A r \in Slot : h[r] # g[s]) /\ PlacesOf(m, g[s]) = {}
  BY FreeIsNowhere
<1>2. map2 \in [Page -> Nat] /\ h2 \in [Slot -> Page \cup {NULL}]
  BY DEF PagesRight
<1>3. ASSUME NEW s \in Slot, NEW r \in Slot, h2[s] # NULL, h2[s] = h2[r]
      PROVE  s = r
  BY <1>1, <1>3 DEF PagesRight
<1>4. ASSUME NEW s \in Slot, h2[s] # NULL
      PROVE  map2[h2[s]] = 1 /\ PlacesOf(m, h2[s]) = {}
  <2>1. CASE s \in S
    BY <1>1, <2>1
  <2>2. CASE s \notin S
    BY <1>4, <2>2 DEF PagesRight
  <2> QED BY <2>1, <2>2
<1>5. ASSUME NEW p \in Page, \A s \in Slot : h2[s] # p
      PROVE  map2[p] = Cardinality(PlacesOf(m, p))
  <2>1. \A s \in S : g[s] # p
    BY <1>5
  <2>2. ASSUME NEW s \in Slot PROVE h[s] # p
    <3>1. CASE s \in S
      BY <3>1, SetsAreFinite
    <3>2. CASE s \notin S
      BY <1>5, <3>2
    <3> QED BY <3>1, <3>2
  <2> QED BY <2>1, <2>2 DEF PagesRight
<1> QED BY <1>2, <1>3, <1>4, <1>5 DEF PagesRight

\* One free page is put in one slot.
LEMMA FillSlot ==
  ASSUME NEW map, NEW h, NEW m, PagesRight(map, h, m),
         NEW s \in Slot, h[s] = NULL, NEW p \in Page, map[p] = 0
  PROVE  PagesRight([map EXCEPT ![p] = 1], [h EXCEPT ![s] = p], m)
<1>1. PICK S, g : S = {s} /\ g = [r \in S |-> p]
  OBVIOUS
<1>2. /\ [map EXCEPT ![p] = 1] = [q \in Page |-> IF \E r \in S : g[r] = q THEN 1 ELSE map[q]]
      /\ [h EXCEPT ![s] = p] = [r \in Slot |-> IF r \in S THEN g[r] ELSE h[r]]
  BY <1>1 DEF PagesRight
<1>3. /\ S \in SUBSET Slot /\ g \in [S -> Page]
      /\ \A r \in S : h[r] = NULL /\ map[g[r]] = 0
      /\ \A r, q \in S : g[r] = g[q] => r = q
  BY <1>1
<1> QED BY <1>2, <1>3, FillSlots

\* The page of a slot is freed.
LEMMA ClearSlot ==
  ASSUME NEW map, NEW h, NEW m, PagesRight(map, h, m),
         NEW s \in Slot, h[s] # NULL
  PROVE  /\ PagesRight([map EXCEPT ![h[s]] = map[h[s]] - 1], [h EXCEPT ![s] = NULL], m)
         /\ [map EXCEPT ![h[s]] = map[h[s]] - 1][h[s]] = 0
<1>1. PICK p : p = h[s]
  OBVIOUS
<1>2. p \in Page /\ map[p] = 1 /\ PlacesOf(m, p) = {} /\ Cardinality(PlacesOf(m, p)) = 0
  BY <1>1, FS_EmptySet DEF PagesRight
<1>3. PICK map2, h2 : map2 = [map EXCEPT ![p] = map[p] - 1] /\ h2 = [h EXCEPT ![s] = NULL]
  OBVIOUS
<1>4. /\ \A q \in Page : map2[q] = IF q = p THEN 0 ELSE map[q]
      /\ \A r \in Slot : h2[r] = IF r = s THEN NULL ELSE h[r]
      /\ map2 \in [Page -> Nat] /\ h2 \in [Slot -> Page \cup {NULL}]
  BY <1>2, <1>3 DEF PagesRight
<1>5. \A r, q \in Slot : h2[r] # NULL /\ h2[r] = h2[q] => r = q
  BY <1>4 DEF PagesRight
<1>6. \A r \in Slot : h2[r] # NULL => map2[h2[r]] = 1 /\ PlacesOf(m, h2[r]) = {}
  BY <1>1, <1>4 DEF PagesRight
<1>7. ASSUME NEW q \in Page, \A r \in Slot : h2[r] # q
      PROVE  map2[q] = Cardinality(PlacesOf(m, q))
  <2>1. CASE q = p
    BY <1>2, <1>4, <2>1
  <2>2. CASE q # p
    BY <1>1, <1>4, <1>7, <2>2 DEF PagesRight
  <2> QED BY <2>1, <2>2
<1>8. PagesRight(map2, h2, m)
  BY <1>4, <1>5, <1>6, <1>7 DEF PagesRight
<1> QED BY <1>1, <1>2, <1>3, <1>4, <1>8

\* One more address for a page that is in no slot.
LEMMA MapPage ==
  ASSUME NEW map, NEW h, NEW m, PagesRight(map, h, m),
         NEW x \in Place, m[x] = NULL, NEW p \in Page, \A s \in Slot : h[s] # p
  PROVE  PagesRight([map EXCEPT ![p] = map[p] + 1], h, [m EXCEPT ![x] = p])
<1>1. PICK map2, m2 : map2 = [map EXCEPT ![p] = map[p] + 1] /\ m2 = [m EXCEPT ![x] = p]
  OBVIOUS
<1>2. /\ \A q \in Page : map2[q] = IF q = p THEN map[p] + 1 ELSE map[q]
      /\ \A y \in Place : m2[y] = IF y = x THEN p ELSE m[y]
      /\ map2 \in [Page -> Nat] /\ m2 \in [Place -> Page \cup {NULL}]
  BY <1>1 DEF PagesRight
<1>3. /\ \A q \in Page \ {p} : PlacesOf(m2, q) = PlacesOf(m, q)
      /\ PlacesOf(m2, p) = PlacesOf(m, p) \cup {x} /\ x \notin PlacesOf(m, p)
  BY <1>2, SetsAreFinite DEF PlacesOf
<1>4. Cardinality(PlacesOf(m2, p)) = Cardinality(PlacesOf(m, p)) + 1
  BY <1>3, PlacesAreFinite, FS_AddElement
<1>5. map[p] = Cardinality(PlacesOf(m, p))
  BY DEF PagesRight
<1>6. \A s \in Slot : h[s] # NULL => map2[h[s]] = 1 /\ PlacesOf(m2, h[s]) = {}
  <2> SUFFICES ASSUME NEW s \in Slot, h[s] # NULL
               PROVE  map2[h[s]] = 1 /\ PlacesOf(m2, h[s]) = {}
    OBVIOUS
  <2>1. h[s] \in Page \ {p}
    BY DEF PagesRight
  <2> QED BY <1>2, <1>3, <2>1 DEF PagesRight
<1>7. \A q \in Page : (\A s \in Slot : h[s] # q) => map2[q] = Cardinality(PlacesOf(m2, q))
  BY <1>2, <1>3, <1>4, <1>5 DEF PagesRight
<1>8. PagesRight(map2, h, m2)
  BY <1>2, <1>6, <1>7 DEF PagesRight
<1> QED BY <1>1, <1>8

\* One address less for the page that is at it.
LEMMA UnmapPage ==
  ASSUME NEW map, NEW h, NEW m, PagesRight(map, h, m),
         NEW x \in Place, m[x] # NULL
  PROVE  PagesRight([map EXCEPT ![m[x]] = map[m[x]] - 1], h, [m EXCEPT ![x] = NULL])
<1>1. PICK p : p = m[x]
  OBVIOUS
<1>2. PICK map2, m2 : map2 = [map EXCEPT ![p] = map[p] - 1] /\ m2 = [m EXCEPT ![x] = NULL]
  OBVIOUS
<1>3. p \in Page /\ p # NULL /\ x \in PlacesOf(m, p)
  BY <1>1 DEF PagesRight, PlacesOf
<1>4. \A s \in Slot : h[s] # p
  BY <1>3 DEF PagesRight
<1>5. /\ \A q \in Page : map2[q] = IF q = p THEN map[p] - 1 ELSE map[q]
      /\ \A y \in Place : m2[y] = IF y = x THEN NULL ELSE m[y]
      /\ m2 \in [Place -> Page \cup {NULL}] /\ map2 = [q \in Page |-> map2[q]]
  BY <1>2 DEF PagesRight
<1>6. /\ \A q \in Page \ {p} : PlacesOf(m2, q) = PlacesOf(m, q)
      /\ PlacesOf(m2, p) = PlacesOf(m, p) \ {x}
  BY <1>1, <1>5, SetsAreFinite DEF PlacesOf
<1>7. Cardinality(PlacesOf(m2, p)) = Cardinality(PlacesOf(m, p)) - 1
  BY <1>3, <1>6, PlacesAreFinite, FS_RemoveElement
<1>8. map[p] = Cardinality(PlacesOf(m, p))
  BY <1>3, <1>4 DEF PagesRight
<1>9. map2[p] = Cardinality(PlacesOf(m2, p)) /\ map2[p] \in Nat
  BY <1>3, <1>5, <1>7, <1>8, PlacesAreFinite
<1>10. map2 \in [Page -> Nat]
  BY <1>5, <1>9 DEF PagesRight
<1>11. \A s \in Slot : h[s] # NULL => map2[h[s]] = 1 /\ PlacesOf(m2, h[s]) = {}
  <2> SUFFICES ASSUME NEW s \in Slot, h[s] # NULL
               PROVE  map2[h[s]] = 1 /\ PlacesOf(m2, h[s]) = {}
    OBVIOUS
  <2>1. h[s] \in Page \ {p}
    BY <1>4 DEF PagesRight
  <2> QED BY <1>5, <1>6, <2>1 DEF PagesRight
<1>12. \A q \in Page : (\A s \in Slot : h[s] # q) => map2[q] = Cardinality(PlacesOf(m2, q))
  BY <1>5, <1>6, <1>9 DEF PagesRight
<1>13. PagesRight(map2, h, m2)
  BY <1>5, <1>10, <1>11, <1>12 DEF PagesRight
<1> QED BY <1>1, <1>2, <1>13

\* free_page_tables(): all pages at the addresses of t, and its page tables.
LEMMA FreeTables ==
  ASSUME NEW map, NEW h, NEW m, PagesRight(map, h, m), NEW t \in Task,
         NEW map2, NEW h2, NEW m2,
         map2 = [p \in Page |-> map[p] - Cardinality({a \in Addr : m[<<t, a>>] = p})
                                  - Cardinality({d \in Dir : h[<<t, "table", d>>] = p})],
         h2 = [s \in Slot |-> IF s[1] = t /\ s[2] = "table" THEN NULL ELSE h[s]],
         m2 = [x \in Place |-> IF x[1] = t THEN NULL ELSE m[x]]
  PROVE  /\ PagesRight(map2, h2, m2)
         /\ \A p \in Page : map2[p] <= map[p]
<1> DEFINE A(p) == {a \in Addr : m[<<t, a>>] = p}
           D(p) == {d \in Dir : h[<<t, "table", d>>] = p}
<1>1. \A d \in Dir : <<t, "table", d>> \in Slot
  BY DEF Slot
<1>2. ASSUME NEW p \in Page
      PROVE  /\ IsFiniteSet(A(p)) /\ Cardinality(A(p)) \in Nat
             /\ PlacesOf(m2, p) = PlacesOf(m, p) \ ({t} \X A(p))
             /\ Cardinality(PlacesOf(m2, p)) = Cardinality(PlacesOf(m, p)) - Cardinality(A(p))
  <2>1. IsFiniteSet(A(p)) /\ Cardinality(A(p)) \in Nat
    <3>1. A(p) \subseteq Addr
      OBVIOUS
    <3> QED BY <3>1, SetsAreFinite, TakeAway
  <2>2. {t} \X A(p) \subseteq PlacesOf(m, p)
    BY DEF PlacesOf, Place
  <2>3. PlacesOf(m2, p) = PlacesOf(m, p) \ ({t} \X A(p))
    <3>1. \A x \in Place : m2[x] = p <=> m[x] = p /\ x[1] # t
      BY SetsAreFinite
    <3>2. \A x \in Place : m[x] = p => (x \in {t} \X A(p) <=> x[1] = t)
      BY DEF Place
    <3> QED BY <3>1, <3>2 DEF PlacesOf
  <2> HIDE DEF A
  <2>4. Cardinality({t} \X A(p)) = Cardinality(A(p))
    BY <2>1, PairsWith
  <2>5. PICK B : B = {t} \X A(p)
    OBVIOUS
  <2>6. Cardinality(PlacesOf(m, p) \ B) = Cardinality(PlacesOf(m, p)) - Cardinality(B)
    BY <2>2, <2>5, PlacesAreFinite, TakeAway
  <2> QED BY <2>1, <2>3, <2>4, <2>5, <2>6
<1>3. ASSUME NEW p \in Page, \A d \in Dir : h[<<t, "table", d>>] # p
      PROVE  map2[p] = map[p] - Cardinality(A(p))
  <2>1. D(p) = {}
    BY <1>3
  <2>2. Cardinality(D(p)) = 0
    BY <2>1, FS_EmptySet
  <2>3. map2[p] = map[p] - Cardinality(A(p)) - Cardinality(D(p))
    OBVIOUS
  <2>4. map[p] \in Nat /\ Cardinality(A(p)) \in Nat
    BY <1>2 DEF PagesRight
  <2>5. PICK n, k : n = Cardinality(A(p)) /\ k = Cardinality(D(p))
    OBVIOUS
  <2>6. map2[p] = map[p] - n
    BY <2>2, <2>3, <2>4, <2>5
  <2> QED BY <2>5, <2>6
<1>4. ASSUME NEW p \in Page, PlacesOf(m, p) = {}
      PROVE  Cardinality(A(p)) = 0
  <2>1. A(p) = {}
    BY <1>4 DEF PlacesOf, Place
  <2> QED BY <2>1, FS_EmptySet
<1>5. ASSUME NEW d \in Dir, h[<<t, "table", d>>] # NULL
      PROVE  map2[h[<<t, "table", d>>]] = 0
  <2>1. PICK s, p : s = <<t, "table", d>> /\ p = h[s] /\ s \in Slot
    BY <1>1
  <2>2. p \in Page /\ map[p] = 1 /\ PlacesOf(m, p) = {}
    BY <1>5, <2>1 DEF PagesRight
  <2>3. D(p) = {d}
    <3>1. ASSUME NEW c \in D(p) PROVE c = d
      <4>1. <<t, "table", c>> \in Slot /\ h[<<t, "table", c>>] = h[s]
        BY <1>1, <2>1
      <4>2. <<t, "table", c>> = s
        BY <1>5, <2>1, <4>1 DEF PagesRight
      <4> QED BY <2>1, <4>2
    <3> QED BY <2>1, <3>1
  <2>4. Cardinality(D(p)) = 1
    BY <2>3, FS_Singleton
  <2>5. map2[p] = map[p] - Cardinality(A(p)) - Cardinality(D(p))
    BY <2>2
  <2>6. Cardinality(A(p)) = 0
    BY <1>4, <2>2
  <2> HIDE DEF A, D
  <2>7. map2[p] = 0
    BY <2>2, <2>4, <2>5, <2>6
  <2> QED BY <2>1, <2>7
<1>6. \A s \in Slot : s[1] = t /\ s[2] = "table" => \E d \in Dir : s = <<t, "table", d>>
  BY DEF Slot
<1>7. ASSUME NEW p \in Page
      PROVE  /\ map2[p] \in Nat /\ map2[p] <= map[p]
             /\ (\A s \in Slot : h2[s] # p) => map2[p] = Cardinality(PlacesOf(m2, p))
             /\ \A s \in Slot : h2[s] = p => map2[p] = 1 /\ PlacesOf(m2, p) = {}
  <2>1. CASE \E d \in Dir : h[<<t, "table", d>>] = p
    <3>1. PICK d \in Dir : h[<<t, "table", d>>] = p
      BY <2>1
    <3>2. map2[p] = 0
      BY <1>5, <3>1, SetsAreFinite
    <3>3. PlacesOf(m, p) = {} /\ map[p] = 1
      BY <1>1, <3>1, SetsAreFinite DEF PagesRight
    <3>4. PlacesOf(m2, p) = {} /\ Cardinality(PlacesOf(m2, p)) = 0
      BY <1>2, <3>3, FS_EmptySet
    <3>5. \A s \in Slot : h2[s] # p
      BY <1>1, <3>1, SetsAreFinite DEF PagesRight
    <3> QED BY <3>2, <3>3, <3>4, <3>5
  <2>2. CASE \A d \in Dir : h[<<t, "table", d>>] # p
    <3>1. map2[p] = map[p] - Cardinality(A(p))
      BY <1>3, <2>2
    <3>2. \A s \in Slot : h2[s] = p <=> h[s] = p
      BY <1>6, <2>2, SetsAreFinite
    <3>3. CASE \E s \in Slot : h[s] = p
      <4>1. map[p] = 1 /\ PlacesOf(m, p) = {}
        BY <3>3, SetsAreFinite DEF PagesRight
      <4>2. Cardinality(A(p)) = 0 /\ PlacesOf(m2, p) = {}
        BY <1>2, <1>4, <4>1
      <4> HIDE DEF A
      <4> QED BY <3>1, <3>2, <3>3, <4>1, <4>2
    <3>4. CASE \A s \in Slot : h[s] # p
      <4>1. map[p] = Cardinality(PlacesOf(m, p))
        BY <3>4 DEF PagesRight
      <4>2. map2[p] = Cardinality(PlacesOf(m2, p)) /\ Cardinality(A(p)) \in Nat
        BY <1>2, <3>1, <4>1
      <4> HIDE DEF A
      <4>3. map2[p] \in Nat /\ map2[p] <= map[p]
        BY <3>1, <4>1, <4>2, PlacesAreFinite
      <4> QED BY <3>2, <3>4, <4>2, <4>3
    <3> QED BY <3>3, <3>4
  <2> QED BY <2>1, <2>2
<1>8. /\ map2 \in [Page -> Nat] /\ h2 \in [Slot -> Page \cup {NULL}]
      /\ m2 \in [Place -> Page \cup {NULL}]
  BY <1>7 DEF PagesRight
<1>9. \A s, r \in Slot : h2[s] # NULL /\ h2[s] = h2[r] => s = r
  BY DEF PagesRight
<1>10. \A s \in Slot : h2[s] # NULL => map2[h2[s]] = 1 /\ PlacesOf(m2, h2[s]) = {}
  BY <1>7, <1>8
<1> QED BY <1>7, <1>8, <1>9, <1>10 DEF PagesRight

\* fork(): pages at the addresses of t are at those of u as well.
LEMMA CopyMappings ==
  ASSUME NEW map, NEW h, NEW m, PagesRight(map, h, m), NEW t \in Task, NEW u \in Task,
         u # t, \A a \in Addr : m[<<u, a>>] = NULL,
         NEW map2, NEW m2,
         map2 = [p \in Page |-> map[p] + Cardinality({a \in Addr : m[<<t, a>>] = p})],
         m2 = [x \in Place |-> IF x[1] = u THEN m[<<t, x[2]>>] ELSE m[x]]
  PROVE  /\ PagesRight(map2, h, m2)
         /\ \A p \in Page : map[p] = 0 => map2[p] = 0
<1> DEFINE A(p) == {a \in Addr : m[<<t, a>>] = p}
<1>1. ASSUME NEW p \in Page
      PROVE  /\ IsFiniteSet(A(p)) /\ Cardinality(A(p)) \in Nat
             /\ PlacesOf(m2, p) = PlacesOf(m, p) \cup ({u} \X A(p))
             /\ Cardinality(PlacesOf(m2, p)) = Cardinality(PlacesOf(m, p)) + Cardinality(A(p))
  <2>1. IsFiniteSet(A(p)) /\ Cardinality(A(p)) \in Nat
    <3>1. A(p) \subseteq Addr
      OBVIOUS
    <3> QED BY <3>1, SetsAreFinite, TakeAway
  <2>2. \A x \in Place : x[1] = u => m[x] = NULL
    BY DEF Place
  <2>3. PlacesOf(m, p) \cap ({u} \X A(p)) = {}
    BY <2>2, SetsAreFinite DEF PlacesOf
  <2>4. PlacesOf(m2, p) = PlacesOf(m, p) \cup ({u} \X A(p))
    <3>1. \A x \in Place : x \in {u} \X A(p) <=> x[1] = u /\ m[<<t, x[2]>>] = p
      BY DEF Place
    <3>2. {u} \X A(p) \subseteq Place
      BY DEF Place
    <3>3. \A x \in Place : m2[x] = p <=> m[x] = p \/ x \in {u} \X A(p)
      BY <2>2, <3>1, SetsAreFinite
    <3> HIDE DEF A
    <3> QED BY <3>2, <3>3 DEF PlacesOf
  <2> HIDE DEF A
  <2>5. Cardinality({u} \X A(p)) = Cardinality(A(p)) /\ IsFiniteSet({u} \X A(p))
    BY <2>1, PairsWith
  <2>6. PICK B : B = {u} \X A(p)
    OBVIOUS
  <2>7. Cardinality(PlacesOf(m, p) \cup B) = Cardinality(PlacesOf(m, p)) + Cardinality(B)
    BY <2>3, <2>5, <2>6, PlacesAreFinite, DisjointUnion
  <2> QED BY <2>1, <2>4, <2>5, <2>6, <2>7
<1>2. ASSUME NEW p \in Page, PlacesOf(m, p) = {}
      PROVE  map2[p] = map[p] /\ PlacesOf(m2, p) = {}
  <2>1. A(p) = {}
    BY <1>2 DEF PlacesOf, Place
  <2>2. Cardinality(A(p)) = 0
    BY <2>1, FS_EmptySet
  <2>3. PlacesOf(m2, p) = {}
    BY <1>1, <1>2, <2>1
  <2> QED BY <2>2, <2>3 DEF PagesRight
<1>3. \A p \in Page : map[p] = 0 => map2[p] = 0
  BY <1>2, FreeIsNowhere
<1>4. map2 \in [Page -> Nat] /\ m2 \in [Place -> Page \cup {NULL}]
  <2>1. \A p \in Page : map[p] + Cardinality(A(p)) \in Nat
    <3> TAKE p \in Page
    <3>1. map[p] \in Nat /\ Cardinality(A(p)) \in Nat
      BY <1>1 DEF PagesRight
    <3>2. PICK n : n = Cardinality(A(p))
      OBVIOUS
    <3> QED BY <3>1, <3>2
  <2>2. \A x \in Place : <<t, x[2]>> \in Place
    BY DEF Place
  <2> QED BY <2>1, <2>2 DEF PagesRight
<1>5. \A s \in Slot : h[s] # NULL => map2[h[s]] = 1 /\ PlacesOf(m2, h[s]) = {}
  BY <1>2 DEF PagesRight
<1>6. ASSUME NEW p \in Page, \A s \in Slot : h[s] # p
      PROVE  map2[p] = Cardinality(PlacesOf(m2, p))
  BY <1>1, <1>6 DEF PagesRight
<1> QED BY <1>3, <1>4, <1>5, <1>6 DEF PagesRight

-----------------------------------------------------------------------------
(***************************************************************************)
(* The invariant.                                                          *)
(***************************************************************************)
\* What is known of a task: a page that is being read is for an address that
\* has none; the arguments of execve() have a page as long as it lasts.
TaskRight(t) ==
    /\ pc[t] = "free" <=> task_page[t] = NULL
    /\ pc[t] \in Gone => /\ fault[t] = NULL
                         /\ \A d \in Dir : dir[t][d] = NULL
                         /\ \A a \in Addr : pte[t][a] = NULL
    /\ arg[t] # NULL <=> pc[t] \in {"exec", "close"}
    /\ fault[t] # NULL <=> page[t] # NULL
    /\ fault[t] # NULL => pte[t][fault[t]] = NULL /\ pc[t] \in {"user", "write", "exec"}
    /\ pc[t] \in {"retry", "write"} => at[t] \in Addr
    /\ pc[t] = "retry" => pte[t][at[t]] # NULL

Types ==
    /\ dir \in [Task -> [Dir -> Page \cup {NULL}]]
    /\ pte \in [Task -> [Addr -> Entry \cup {NULL}]]
    /\ task_page \in [Task -> Page \cup {NULL}]
    /\ pc \in [Task -> Where]
    /\ at \in [Task -> Addr \cup {NULL}]
    /\ fault \in [Task -> Addr \cup {NULL}]
    /\ page \in [Task -> Page \cup {NULL}]
    /\ arg \in [Task -> Page \cup {NULL}]

\* No other entry leads to the page of one that can be written to.
WritableIsAlone ==
    \A x, y \in Place : Writable(x[1], x[2]) /\ Mapped[x] = Mapped[y] => x = y

MemoryInv ==
    /\ Types
    /\ \A t \in Task : TaskRight(t)
    /\ PagesRight(mem_map, Held, Mapped)
    /\ WritableIsAlone

\* The page of an entry is at the address of the entry.
LEMMA Addresses ==
  ASSUME Types, NEW t \in Task, NEW a \in Addr
  PROVE  /\ <<t, a>> \in Place
         /\ pte[t][a] = NULL => Mapped[<<t, a>>] = NULL
         /\ pte[t][a] # NULL => /\ pte[t][a] \in Entry /\ pte[t][a].page \in Page
                                /\ Mapped[<<t, a>>] = pte[t][a].page
                                /\ Mapped[<<t, a>>] # NULL
<1>1. <<t, a>> \in Place /\ (pte[t][a] = NULL \/ pte[t][a] \in Entry)
  BY DEF Place, Types
<1> QED BY <1>1, SetsAreFinite DEF Mapped, Entry

\* What is in the slots of task t.
LEMMA Slots ==
  ASSUME NEW t \in Task
  PROVE  /\ <<t, "task", 0>> \in Slot /\ Held[<<t, "task", 0>>] = task_page[t]
         /\ <<t, "page", 0>> \in Slot /\ Held[<<t, "page", 0>>] = page[t]
         /\ <<t, "arg", 0>> \in Slot /\ Held[<<t, "arg", 0>>] = arg[t]
         /\ \A d \in Dir : /\ <<t, "table", d>> \in Slot
                           /\ Held[<<t, "table", d>>] = dir[t][d]
<1>1. \A d \in Dir : <<t, "table", d>> \in Slot
  BY DEF Slot
<1>2. \A k \in {"task", "page", "arg"} : <<t, k, 0>> \in Slot
  BY DEF Slot
<1> QED BY <1>1, <1>2 DEF Held

\* A new entry at address a of t.
LEMMA NewEntry ==
  ASSUME Types, NEW t \in Task, NEW a \in Addr, NEW e \in Entry,
         pte' = [pte EXCEPT ![t][a] = e]
  PROVE  /\ Mapped' = [Mapped EXCEPT ![<<t, a>>] = e.page]
         /\ pte' \in [Task -> [Addr -> Entry \cup {NULL}]]
<1>1. \A x \in Place : pte'[x[1]][x[2]] = IF x = <<t, a>> THEN e ELSE pte[x[1]][x[2]]
  BY DEF Types, Place
<1>2. e # NULL
  BY MemoryAssumption
<1>3. pte' \in [Task -> [Addr -> Entry \cup {NULL}]]
  BY DEF Types
<1>4. \A x \in Place : Mapped'[x] = IF x = <<t, a>> THEN e.page ELSE Mapped[x]
  BY <1>1, <1>2 DEF Mapped
<1>5. Mapped' = [x \in Place |-> Mapped'[x]] /\ Mapped = [x \in Place |-> Mapped[x]]
  BY DEF Mapped
<1> QED BY <1>3, <1>4, <1>5

\* A new page table, or the one that is there.
LEMMA PutTable ==
  ASSUME NEW map, NEW h, NEW m, PagesRight(map, h, m), NEW t \in Task, NEW a \in Addr,
         h[<<t, "table", DirOf(a)>>] = dir[t][DirOf(a)],
         NEW q \in TableFor(t, a, map)
  PROVE  /\ PagesRight(Taken(map, q), [h EXCEPT ![<<t, "table", DirOf(a)>>] = q], m)
         /\ q \in Page
<1>1. PICK s : s = <<t, "table", DirOf(a)>> /\ s \in Slot
  BY DEF Slot, Dir
<1>2. CASE dir[t][DirOf(a)] # NULL
  <2>1. q = h[s] /\ q # NULL
    BY <1>1, <1>2 DEF TableFor
  <2>2. map[q] = 1 /\ q \in Page
    BY <1>1, <2>1 DEF PagesRight
  <2>3. Taken(map, q) = map /\ [h EXCEPT ![s] = q] = h
    BY <1>1, <2>1, <2>2 DEF PagesRight, Taken
  <2> QED BY <1>1, <2>2, <2>3
<1>3. CASE dir[t][DirOf(a)] = NULL
  <2>1. q \in Page /\ map[q] = 0 /\ h[s] = NULL
    BY <1>1, <1>3 DEF TableFor, LastFree, FreeIn
  <2> QED BY <1>1, <2>1, FillSlot DEF Taken
<1> QED BY <1>2, <1>3

\* The slots after put_page().
LEMMA HeldAfterPut ==
  ASSUME Types, NEW t \in Task, NEW a \in Addr, NEW q,
         dir' = [dir EXCEPT ![t][DirOf(a)] = q], UNCHANGED <<task_page, page, arg>>
  PROVE  Held' = [Held EXCEPT ![<<t, "table", DirOf(a)>>] = q]
<1>1. \A s \in Slot : /\ s = <<s[1], s[2], s[3]>>
                      /\ s[1] \in Task
                      /\ s[2] = "table" => s[3] \in Dir
  BY DEF Slot
<1>2. DirOf(a) \in Dir
  BY DEF Dir
<1>3. \A s \in Slot : Held'[s] = IF s = <<t, "table", DirOf(a)>> THEN q ELSE Held[s]
  BY <1>1, <1>2 DEF Held, Types
<1> QED BY <1>3 DEF Held

\* Writable pages stay alone where nothing but entries of free pages is new.
LEMMA AloneIfLess ==
  ASSUME Types, WritableIsAlone,
         \A x \in Place :
             /\ Mapped'[x] = Mapped[x] \/ Mapped'[x] = NULL
             /\ Writable(x[1], x[2])' => Writable(x[1], x[2]) /\ Mapped'[x] # NULL
  PROVE  WritableIsAlone'
  BY DEF WritableIsAlone

\* The same where a page that was at no address is now at one, x0.
LEMMA AloneIfNew ==
  ASSUME Types, WritableIsAlone, NEW x0 \in Place, NEW p \in Page,
         PlacesOf(Mapped, p) = {}, Mapped'[x0] = p,
         \A x \in Place : x # x0 =>
             /\ Mapped'[x] = Mapped[x] \/ Mapped'[x] = NULL
             /\ Writable(x[1], x[2])' => Writable(x[1], x[2]) /\ Mapped'[x] # NULL
  PROVE  WritableIsAlone'
<1> SUFFICES ASSUME NEW x \in Place, NEW y \in Place, Writable(x[1], x[2])',
                    Mapped'[x] = Mapped'[y]
             PROVE  x = y
  BY DEF WritableIsAlone
<1>1. Mapped[x] # p /\ Mapped[y] # p /\ p # NULL
  BY SetsAreFinite DEF PlacesOf
<1>2. CASE x = x0
  BY <1>1, <1>2
<1>3. CASE x # x0 /\ y = x0
  BY <1>1, <1>3
<1>4. CASE x # x0 /\ y # x0
  BY <1>4 DEF WritableIsAlone
<1> QED BY <1>2, <1>3, <1>4

SameTask(t) ==
    UNCHANGED <<pc[t], task_page[t], fault[t], dir[t], pte[t], arg[t], page[t], at[t]>>

\* A step that leaves a task alone leaves it right.
LEMMA SameTaskIsRight ==
  ASSUME NEW t, TaskRight(t), SameTask(t)
  PROVE  TaskRight(t)'
  BY DEF TaskRight, SameTask

-----------------------------------------------------------------------------
(***************************************************************************)
(* Exit, do_no_page().                                                     *)
(***************************************************************************)
\* The counts that free_page_tables() takes off.
LEMMA EntriesAndTables ==
  ASSUME Types, NEW t \in Task, NEW p \in Page
  PROVE  /\ Entries(t, p) = {a \in Addr : Mapped[<<t, a>>] = p}
         /\ Tables(t, p) = {d \in Dir : Held[<<t, "table", d>>] = p}
<1>1. \A a \in Addr : (pte[t][a] # NULL /\ pte[t][a].page = p) <=> Mapped[<<t, a>>] = p
  BY Addresses, SetsAreFinite
<1> QED BY <1>1, Slots DEF Entries, Tables

\* do_exit(), with the page that was being read, if any, freed already.
LEMMA DieKeeps ==
  ASSUME MemoryInv, "oom" \notin Windows, NEW t \in Task, pc[t] \notin Gone,
         NEW map, PagesRight(map, [Held EXCEPT ![<<t, "page", 0>>] = NULL], Mapped),
         Die(t, map)
  PROVE  MemoryInv'
<1>1. /\ arg[t] = NULL /\ mem_map' = WithoutTables(map, t)
      /\ dir' = [dir EXCEPT ![t] = NoTables] /\ pte' = [pte EXCEPT ![t] = NoEntries]
      /\ at' = [at EXCEPT ![t] = NULL] /\ fault' = [fault EXCEPT ![t] = NULL]
      /\ page' = [page EXCEPT ![t] = NULL] /\ arg' = [arg EXCEPT ![t] = NULL]
      /\ pc' = [pc EXCEPT ![t] = "zombie"] /\ UNCHANGED task_page
  BY DEF Die, Goto
<1>2. Types /\ Types'
  <2>1. "zombie" \in Where /\ NoTables \in [Dir -> Page \cup {NULL}]
        /\ NoEntries \in [Addr -> Entry \cup {NULL}]
    BY DEF Where, Gone, NoTables, NoEntries
  <2> QED BY <1>1, <2>1 DEF MemoryInv, Types
<1>3. PICK h : h = [Held EXCEPT ![<<t, "page", 0>>] = NULL]
  OBVIOUS
<1>4. \A d \in Dir : h[<<t, "table", d>>] = Held[<<t, "table", d>>]
  BY <1>3, Slots
<1>5. mem_map' = [p \in Page |-> map[p] - Cardinality({a \in Addr : Mapped[<<t, a>>] = p})
                                  - Cardinality({d \in Dir : h[<<t, "table", d>>] = p})]
  <2>1. \A p \in Page : Tables(t, p) = {d \in Dir : h[<<t, "table", d>>] = p}
    BY <1>2, <1>4, EntriesAndTables
  <2>2. \A p \in Page : Entries(t, p) = {a \in Addr : Mapped[<<t, a>>] = p}
    BY <1>2, EntriesAndTables
  <2> QED BY <1>1, <2>1, <2>2 DEF WithoutTables
<1>6. Held' = [s \in Slot |-> IF s[1] = t /\ s[2] = "table" THEN NULL ELSE h[s]]
  <2>1. \A s \in Slot : /\ s = <<s[1], s[2], s[3]>> /\ s[1] \in Task
                        /\ s[2] = "table" => s[3] \in Dir
                        /\ s[2] # "table" => s[2] \in {"task", "page", "arg"} /\ s[3] = 0
    BY DEF Slot
  <2>2. \A s \in Slot : Held'[s] = IF s[1] = t /\ s[2] = "table" THEN NULL ELSE h[s]
    <3> TAKE s \in Slot
    <3>1. CASE s[1] # t
      BY <1>1, <1>2, <1>3, <2>1, <3>1 DEF Held, Types
    <3>2. CASE s[1] = t /\ s[2] = "table"
      BY <1>1, <1>2, <2>1, <3>2 DEF Held, Types, NoTables
    <3>3. CASE s[1] = t /\ s[2] # "table"
      BY <1>1, <1>2, <1>3, <2>1, <3>3 DEF Held, Types
    <3> QED BY <3>1, <3>2, <3>3
  <2> QED BY <2>2 DEF Held
<1>7. Mapped' = [x \in Place |-> IF x[1] = t THEN NULL ELSE Mapped[x]]
  BY <1>1, <1>2 DEF Mapped, Types, Place, NoEntries
<1>8. PagesRight(mem_map', Held', Mapped')
  <2>1. PagesRight(map, h, Mapped)
    BY <1>3
  <2>2. PICK m : m = Mapped
    OBVIOUS
  <2>3. PICK map2, h2, m2 : map2 = mem_map' /\ h2 = Held' /\ m2 = Mapped'
    OBVIOUS
  <2>4. PagesRight(map2, h2, m2)
    BY <1>5, <1>6, <1>7, <2>1, <2>2, <2>3, FreeTables
  <2> QED BY <2>3, <2>4
<1>9. WritableIsAlone'
  <2>1. \A x \in Place : Writable(x[1], x[2])' => x[1] # t /\ Writable(x[1], x[2])
    BY <1>1, <1>2 DEF Writable, Present, Place, Types, NoEntries
  <2>2. \A x \in Place : Writable(x[1], x[2]) => Mapped[x] # NULL
    <3> TAKE x \in Place
    <3>1. x = <<x[1], x[2]>> /\ x[1] \in Task /\ x[2] \in Addr
      BY DEF Place
    <3> QED BY <1>2, <3>1, Addresses DEF Writable, Present
  <2> QED BY <1>2, <1>7, <2>1, <2>2, AloneIfLess DEF MemoryInv
<1>10. \A u \in Task : TaskRight(u)'
  <2> TAKE u \in Task
  <2>1. TaskRight(u)
    BY DEF MemoryInv
  <2>2. CASE u = t
    BY <1>1, <1>2, <2>1, <2>2 DEF TaskRight, Types, Gone, NoTables, NoEntries
  <2>3. CASE u # t
    BY <1>1, <1>2, <2>1, <2>3, SameTaskIsRight DEF SameTask, Types
  <2> QED BY <2>2, <2>3
<1> QED BY <1>2, <1>8, <1>9, <1>10 DEF MemoryInv

\* do_exit() of a task that is reading no page.
LEMMA DieAtOnceKeeps ==
  ASSUME MemoryInv, "oom" \notin Windows, NEW t \in Task, pc[t] \notin Gone,
         fault[t] = NULL, Die(t, mem_map)
  PROVE  MemoryInv'
<1>1. page[t] = NULL
  BY DEF MemoryInv, TaskRight
<1>2. [Held EXCEPT ![<<t, "page", 0>>] = NULL] = Held
  BY <1>1, Slots DEF Held
<1>3. PICK map : map = mem_map
  OBVIOUS
<1>4. PagesRight(map, [Held EXCEPT ![<<t, "page", 0>>] = NULL], Mapped)
  BY <1>2, <1>3 DEF MemoryInv
<1>5. Die(t, map)
  BY <1>3
<1> QED BY <1>4, <1>5, DieKeeps

\* What is left to show of a step that gives t an entry.
LEMMA EntryKeeps ==
  ASSUME MemoryInv, NEW t \in Task, NEW a \in Addr, pc[t] \in {"user", "write", "exec"},
         NEW e \in Entry, NEW q \in Page,
         dir' = [dir EXCEPT ![t][DirOf(a)] = q],
         pte' = [pte EXCEPT ![t][a] = e],
         \/ UNCHANGED <<fault, page>>
         \/ fault' = [fault EXCEPT ![t] = NULL] /\ page' = [page EXCEPT ![t] = NULL],
         fault'[t] = NULL,
         UNCHANGED <<pc, at, task_page, arg>>
  PROVE  Types' /\ \A u \in Task : TaskRight(u)'
<1>1. Types
  BY DEF MemoryInv
<1>2. DirOf(a) \in Dir
  BY DEF Dir
<1>3. Types'
  <2>1. pte' \in [Task -> [Addr -> Entry \cup {NULL}]] /\ dir' \in [Task -> [Dir -> Page \cup {NULL}]]
    BY <1>1, <1>2 DEF Types
  <2>2. fault' \in [Task -> Addr \cup {NULL}] /\ page' \in [Task -> Page \cup {NULL}]
    BY <1>1 DEF Types
  <2> QED BY <1>1, <2>1, <2>2 DEF Types
<1>4. \A u \in Task : TaskRight(u)'
  <2> TAKE u \in Task
  <2>1. TaskRight(u)
    BY DEF MemoryInv
  <2>2. CASE u = t
    <3>1. page'[t] = NULL
      BY <1>1, <2>1, <2>2 DEF Types, TaskRight
    <3> QED BY <1>1, <1>3, <2>1, <2>2, <3>1 DEF TaskRight, Types, Gone
  <2>3. CASE u # t
    BY <1>1, <2>1, <2>3, SameTaskIsRight DEF SameTask, Types
  <2> QED BY <2>2, <2>3
<1> QED BY <1>3, <1>4

\* The page at a free address becomes a page that was free, or was being read.
LEMMA FreshEntryIsAlone ==
  ASSUME MemoryInv, NEW t \in Task, NEW a \in Addr, NEW e \in Entry,
         PlacesOf(Mapped, e.page) = {},
         pte' = [pte EXCEPT ![t][a] = e]
  PROVE  /\ WritableIsAlone'
         /\ Mapped' = [Mapped EXCEPT ![<<t, a>>] = e.page]
<1>1. Types
  BY DEF MemoryInv
<1>2. PICK p \in Page : p = e.page
  BY DEF Entry
<1>4. Mapped' = [Mapped EXCEPT ![<<t, a>>] = p]
  BY <1>1, <1>2, NewEntry
<1>5. <<t, a>> \in Place /\ Mapped = [x \in Place |-> Mapped[x]]
  BY DEF Place, Mapped
<1>6. ASSUME NEW x \in Place, x # <<t, a>>
      PROVE  /\ Mapped'[x] = Mapped[x]
             /\ Writable(x[1], x[2])' => Writable(x[1], x[2]) /\ Mapped'[x] # NULL
  <2>1. x = <<x[1], x[2]>> /\ x[1] \in Task /\ x[2] \in Addr
    BY DEF Place
  <2>2. pte'[x[1]][x[2]] = pte[x[1]][x[2]]
    BY <1>1, <1>6, <2>1 DEF Types
  <2>3. Mapped'[x] = Mapped[x]
    BY <1>4, <1>5, <1>6
  <2>4. Writable(x[1], x[2]) => Mapped[x] # NULL
    BY <1>1, <2>1, Addresses DEF Writable, Present
  <2> QED BY <2>2, <2>3, <2>4 DEF Writable, Present
<1>7. Mapped'[<<t, a>>] = p
  BY <1>4, <1>5
<1>8. PlacesOf(Mapped, p) = {}
  BY <1>2
<1> QED BY <1>1, <1>2, <1>4, <1>5, <1>6, <1>7, <1>8, AloneIfNew DEF MemoryInv

\* get_empty_page()
LEMMA EmptyPageKeeps ==
  ASSUME MemoryInv, "oom" \notin Windows, NEW t \in Task, NEW a \in Addr,
         pc[t] \in {"user", "write", "exec"}, fault[t] = NULL, pte[t][a] = NULL,
         EmptyPage(t, a)
  PROVE  MemoryInv'
<1>1. CASE Die(t, mem_map)
  BY <1>1, DieAtOnceKeeps DEF Gone
<1>2. CASE ~Die(t, mem_map)
  <2>0. PICK p \in LastFree(mem_map) : \E q \in TableFor(t, a, Taken(mem_map, p)) :
          /\ PutPage(t, a, [page |-> p, rw |-> TRUE, dirty |-> FALSE], q, Taken(mem_map, p))
          /\ UNCHANGED load /\ Rest /\ UNCHANGED pc
    BY <1>2 DEF EmptyPage, Resume
  <2>1. PICK q \in TableFor(t, a, Taken(mem_map, p)) :
          /\ PutPage(t, a, [page |-> p, rw |-> TRUE, dirty |-> FALSE], q, Taken(mem_map, p))
          /\ UNCHANGED load /\ Rest /\ UNCHANGED pc
    BY <2>0
  <2>2. p \in Page /\ mem_map[p] = 0
    BY DEF LastFree, FreeIn
  <2>3. PICK map, h, m : map = mem_map /\ h = Held /\ m = Mapped
    OBVIOUS
  <2>4. PagesRight(map, h, m)
    BY <2>3 DEF MemoryInv
  <2>5. (\A s \in Slot : h[s] # p) /\ PlacesOf(m, p) = {}
    BY <2>2, <2>3, <2>4, FreeIsNowhere
  <2>6. <<t, a>> \in Place /\ m[<<t, a>>] = NULL
    BY <2>3, Addresses DEF MemoryInv
  <2>7. PagesRight(Taken(map, p), h, [m EXCEPT ![<<t, a>>] = p])
    <3>1. [map EXCEPT ![p] = map[p] + 1] = Taken(map, p)
      <4>1. map[p] + 1 = 1
        BY <2>2, <2>3
      <4> QED BY <4>1 DEF Taken
    <3> QED BY <2>2, <2>4, <2>5, <2>6, <3>1, MapPage
  <2>8. PICK map2, m2 : map2 = Taken(map, p) /\ m2 = [m EXCEPT ![<<t, a>>] = p]
    OBVIOUS
  <2>9. h[<<t, "table", DirOf(a)>>] = dir[t][DirOf(a)]
    BY <2>3, Slots DEF Dir
  <2>10. /\ PagesRight(Taken(map2, q), [h EXCEPT ![<<t, "table", DirOf(a)>>] = q], m2)
         /\ q \in Page
    BY <2>3, <2>7, <2>8, <2>9, PutTable
  <2>17. PICK e : e = [page |-> p, rw |-> TRUE, dirty |-> FALSE]
    OBVIOUS
  <2>15. e \in Entry /\ e.page = p
    BY <2>2, <2>17 DEF Entry
  <2>11. /\ dir' = [dir EXCEPT ![t][DirOf(a)] = q] /\ mem_map' = Taken(map2, q)
         /\ pte' = [pte EXCEPT ![t][a] = e]
         /\ UNCHANGED <<fault, page, pc, at, task_page, arg>>
    BY <2>1, <2>3, <2>8, <2>17 DEF PutPage, Rest, load, exec
  <2>12. Held' = [Held EXCEPT ![<<t, "table", DirOf(a)>>] = q]
    BY <2>11, HeldAfterPut DEF MemoryInv
  <2>13. WritableIsAlone' /\ Mapped' = [Mapped EXCEPT ![<<t, a>>] = p]
    <3>1. PlacesOf(Mapped, e.page) = {}
      BY <2>3, <2>5, <2>15
    <3>2. pte' = [pte EXCEPT ![t][a] = e]
      BY <2>11
    <3>3. WritableIsAlone' /\ Mapped' = [Mapped EXCEPT ![<<t, a>>] = e.page]
      BY <2>15, <3>1, <3>2, FreshEntryIsAlone
    <3> QED BY <2>15, <3>3
  <2>14. PagesRight(mem_map', Held', Mapped')
    BY <2>3, <2>8, <2>10, <2>11, <2>12, <2>13
  <2>16. Types' /\ \A u \in Task : TaskRight(u)'
    BY <2>10, <2>11, <2>15, EntryKeeps
  <2> QED BY <2>13, <2>14, <2>16 DEF MemoryInv
<1> QED BY <1>1, <1>2

\* try_to_share() makes two entries for one page, and both read only.
LEMMA ShareKeepsAlone ==
  ASSUME MemoryInv, NEW t \in Task, NEW u \in Task, u # t, NEW a \in Addr,
         pte[t][a] = NULL, pte[u][a] # NULL,
         NEW e \in Entry, e.page = pte[u][a].page, ~e.rw,
         pte' = [pte EXCEPT ![t][a] = e, ![u][a] = e]
  PROVE  /\ WritableIsAlone'
         /\ Mapped' = [Mapped EXCEPT ![<<t, a>>] = e.page]
         /\ pte' \in [Task -> [Addr -> Entry \cup {NULL}]]
<1>1. Types /\ pte[u][a] \in Entry
  BY DEF MemoryInv, Types
<1>2. e \in Entry /\ e.page = pte[u][a].page /\ ~e.rw /\ e # NULL
  BY MemoryAssumption
<1>3. \A x \in Place :
        pte'[x[1]][x[2]] = IF x = <<t, a>> \/ x = <<u, a>> THEN e ELSE pte[x[1]][x[2]]
  <2>1. \A v \in Task, b \in Addr :
          pte'[v][b] = IF b = a /\ (v = t \/ v = u) THEN e ELSE pte[v][b]
    BY <1>1 DEF Types
  <2>2. \A x \in Place : x = <<x[1], x[2]>> /\ x[1] \in Task /\ x[2] \in Addr
    BY DEF Place
  <2>3. \A x \in Place, v \in Task : x = <<v, a>> <=> x[1] = v /\ x[2] = a
    BY DEF Place
  <2>4. ASSUME NEW x \in Place
        PROVE  pte'[x[1]][x[2]] = IF x = <<t, a>> \/ x = <<u, a>> THEN e ELSE pte[x[1]][x[2]]
    <3>1. pte'[x[1]][x[2]] = IF x[2] = a /\ (x[1] = t \/ x[1] = u) THEN e ELSE pte[x[1]][x[2]]
      BY <2>1, <2>2
    <3>2. (x = <<t, a>> \/ x = <<u, a>>) <=> x[2] = a /\ (x[1] = t \/ x[1] = u)
      BY <2>3
    <3> QED BY <3>1, <3>2
  <2> QED BY <2>4
<1>8. <<t, a>> \in Place /\ <<u, a>> \in Place
  BY DEF Place
<1>4. /\ \A x \in Place : x # <<t, a>> => Mapped'[x] = Mapped[x]
      /\ Mapped'[<<t, a>>] = e.page /\ Mapped[<<u, a>>] = e.page
  <2>1. Mapped[<<u, a>>] = e.page
    BY <1>2, <1>8 DEF Mapped
  <2>2. \A x \in Place : x = <<t, a>> \/ x = <<u, a>> => Mapped'[x] = e.page
    BY <1>2, <1>3 DEF Mapped
  <2>3. ASSUME NEW x \in Place, x # <<t, a>>, x # <<u, a>>
        PROVE  Mapped'[x] = Mapped[x]
    <3>1. pte'[x[1]][x[2]] = pte[x[1]][x[2]]
      BY <1>3, <2>3
    <3> QED BY <3>1 DEF Mapped
  <2> QED BY <1>8, <2>1, <2>2, <2>3
<1>5. Mapped' = [Mapped EXCEPT ![<<t, a>>] = e.page]
  <2>1. Mapped = [x \in Place |-> Mapped[x]] /\ Mapped' = [x \in Place |-> Mapped'[x]]
    BY DEF Mapped
  <2> QED BY <1>4, <2>1
<1>6. pte' \in [Task -> [Addr -> Entry \cup {NULL}]]
  BY <1>1, <1>2 DEF Types
<1>7. WritableIsAlone'
  <2> SUFFICES ASSUME NEW x \in Place, NEW y \in Place, Writable(x[1], x[2])',
                      Mapped'[x] = Mapped'[y]
               PROVE  x = y
    BY DEF WritableIsAlone
  <2>1. x # <<t, a>> /\ x # <<u, a>> /\ Writable(x[1], x[2])
    BY <1>2, <1>3 DEF Writable, Present
  <2>2. CASE y # <<t, a>>
    BY <1>4, <1>8, <2>1, <2>2 DEF WritableIsAlone, MemoryInv
  <2>3. CASE y = <<t, a>>
    <3>1. Mapped[x] = Mapped[<<u, a>>]
      BY <1>4, <1>8, <2>1, <2>3
    <3>2. x = <<u, a>>
      BY <1>4, <1>8, <2>1, <3>1 DEF WritableIsAlone, MemoryInv
    <3> QED BY <2>1, <3>2
  <2> QED BY <2>2, <2>3
<1> QED BY <1>2, <1>5, <1>6, <1>7

\* share_page()
LEMMA SharePageKeeps ==
  ASSUME MemoryInv, "oom" \notin Windows, NEW t \in Task, NEW a \in Addr,
         pc[t] \in {"user", "write", "exec"}, fault[t] = NULL, pte[t][a] = NULL,
         SharePage(t, a)
  PROVE  MemoryInv'
<1>1. CASE Die(t, mem_map)
  BY <1>1, DieAtOnceKeeps DEF Gone
<1>2. CASE ~Die(t, mem_map)
  <2>1. PICK u \in Sharers(t, a), q \in TableFor(t, a, mem_map) :
          ShareWith(t, u, a, q) /\ UNCHANGED load /\ Rest /\ UNCHANGED pc
    BY <1>2 DEF SharePage, Resume
  <2>2. u \in Task /\ u # t /\ pte[u][a] # NULL
    BY DEF Sharers
  <2>3. PICK e : e = [pte[u][a] EXCEPT !.rw = FALSE]
    OBVIOUS
  <2>15. e \in Entry /\ e.page = pte[u][a].page /\ ~e.rw
    <3>1. PICK r : r = pte[u][a]
      OBVIOUS
    <3>2. r \in Entry /\ e = [r EXCEPT !.rw = FALSE]
      BY <2>2, <2>3, <3>1 DEF MemoryInv, Types
    <3>3. e \in Entry /\ e.page = r.page /\ ~e.rw
      BY <3>2 DEF Entry
    <3> QED BY <3>1, <3>3
  <2>4. /\ dir' = [dir EXCEPT ![t][DirOf(a)] = q]
        /\ pte' = [pte EXCEPT ![t][a] = e, ![u][a] = e]
        /\ mem_map' = [Taken(mem_map, q) EXCEPT ![e.page] = Taken(mem_map, q)[e.page] + 1]
        /\ UNCHANGED <<fault, page, pc, at, task_page, arg>>
    BY <2>1, <2>3 DEF ShareWith, Rest, load, exec
  <2>5. /\ WritableIsAlone'
        /\ Mapped' = [Mapped EXCEPT ![<<t, a>>] = e.page]
        /\ pte' \in [Task -> [Addr -> Entry \cup {NULL}]]
    BY <2>2, <2>4, <2>15, ShareKeepsAlone
  <2>6. /\ <<t, a>> \in Place /\ Mapped[<<t, a>>] = NULL /\ <<u, a>> \in Place
        /\ Mapped[<<u, a>>] = e.page /\ e.page \in Page
    BY <2>2, <2>15, Addresses DEF MemoryInv
  <2>7. PICK map, h, m : map = mem_map /\ h = Held /\ m = Mapped
    OBVIOUS
  <2>8. PICK map2, h2 : /\ map2 = Taken(map, q)
                        /\ h2 = [h EXCEPT ![<<t, "table", DirOf(a)>>] = q]
    OBVIOUS
  <2>9. PagesRight(map2, h2, m) /\ q \in Page
    <3>1. PagesRight(map, h, m)
      BY <2>7 DEF MemoryInv
    <3>2. h[<<t, "table", DirOf(a)>>] = dir[t][DirOf(a)]
      BY <2>7, Slots DEF Dir
    <3> QED BY <2>1, <2>7, <2>8, <3>1, <3>2, PutTable
  <2>10. \A s \in Slot : h2[s] # e.page
    <3>1. <<u, a>> \in PlacesOf(m, e.page) /\ e.page # NULL
      BY <2>6, <2>7, SetsAreFinite DEF PlacesOf
    <3> QED BY <2>9, <3>1 DEF PagesRight
  <2>11. PagesRight([map2 EXCEPT ![e.page] = map2[e.page] + 1], h2,
                    [m EXCEPT ![<<t, a>>] = e.page])
    BY <2>6, <2>7, <2>9, <2>10, MapPage
  <2>12. Held' = h2
    BY <2>4, <2>7, <2>8, HeldAfterPut DEF MemoryInv
  <2>13. PagesRight(mem_map', Held', Mapped')
    BY <2>4, <2>5, <2>7, <2>8, <2>11, <2>12
  <2>14. Types /\ Types'
    <3>1. DirOf(a) \in Dir
      BY DEF Dir
    <3> QED BY <2>4, <2>5, <2>9, <3>1 DEF MemoryInv, Types
  <2>16. \A v \in Task : TaskRight(v)'
    <3> TAKE v \in Task
    <3>1. TaskRight(v) /\ TaskRight(u)
      BY <2>2 DEF MemoryInv
    <3>2. e # NULL
      BY <2>15, MemoryAssumption
    <3>3. CASE v = t
      BY <2>4, <2>14, <3>1, <3>3 DEF TaskRight, Types, Gone
    <3>4. CASE v = u
      <4>1. /\ \A b \in Addr : pte'[u][b] = NULL <=> pte[u][b] = NULL
            /\ dir'[u] = dir[u]
        BY <2>2, <2>4, <2>14, <3>2 DEF Types
      <4> QED BY <2>2, <2>4, <2>14, <3>1, <3>4, <4>1 DEF TaskRight, Types
    <3>5. CASE v # t /\ v # u
      BY <2>4, <2>14, <3>1, <3>5, SameTaskIsRight DEF SameTask, Types
    <3> QED BY <3>3, <3>4, <3>5
  <2> QED BY <2>5, <2>13, <2>14, <2>16 DEF MemoryInv
<1> QED BY <1>1, <1>2

\* The slots after one that holds no page table has changed.
LEMMA HeldAfterSlot ==
  ASSUME Types, NEW t \in Task, NEW k, NEW p, UNCHANGED dir,
         \/ k = "task" /\ task_page' = [task_page EXCEPT ![t] = p] /\ UNCHANGED <<page, arg>>
         \/ k = "page" /\ page' = [page EXCEPT ![t] = p] /\ UNCHANGED <<task_page, arg>>
         \/ k = "arg" /\ arg' = [arg EXCEPT ![t] = p] /\ UNCHANGED <<task_page, page>>
  PROVE  Held' = [Held EXCEPT ![<<t, k, 0>>] = p]
<1>1. \A s \in Slot : /\ s = <<s[1], s[2], s[3]>> /\ s[1] \in Task
                      /\ s[2] \in {"table", "task", "page", "arg"}
                      /\ s[2] # "table" => s[3] = 0
  BY DEF Slot
<1>2. \A s \in Slot : s = <<t, k, 0>> <=> s[1] = t /\ s[2] = k
  BY <1>1
<1>3. ASSUME NEW s \in Slot
      PROVE  Held'[s] = IF s = <<t, k, 0>> THEN p ELSE Held[s]
  <2>1. Held'[s] = IF s[1] = t /\ s[2] = k THEN p ELSE Held[s]
    BY <1>1 DEF Held, Types
  <2> QED BY <1>2, <2>1
<1>4. Held = [s \in Slot |-> Held[s]] /\ Held' = [s \in Slot |-> Held'[s]]
  BY DEF Held
<1> QED BY <1>3, <1>4

\* Nothing changes at any address.
LEMMA SameTables ==
  ASSUME WritableIsAlone, UNCHANGED pte
  PROVE  WritableIsAlone' /\ Mapped' = Mapped
  BY DEF WritableIsAlone, Mapped, Writable, Present

\* A page is taken to be read into.
LEMMA StartLoadKeeps ==
  ASSUME MemoryInv, "oom" \notin Windows, NEW t \in Task, NEW a \in Addr,
         pc[t] \in {"user", "write", "exec"}, fault[t] = NULL, pte[t][a] = NULL,
         StartLoad(t, a)
  PROVE  MemoryInv'
<1>1. CASE Die(t, mem_map)
  BY <1>1, DieAtOnceKeeps DEF Gone
<1>2. CASE ~Die(t, mem_map)
  <2>1. PICK p \in LastFree(mem_map) :
          /\ mem_map' = Taken(mem_map, p)
          /\ fault' = [fault EXCEPT ![t] = a] /\ page' = [page EXCEPT ![t] = p]
          /\ UNCHANGED <<tables, pc>> /\ Rest
    BY <1>2 DEF StartLoad
  <2>2. p \in Page /\ mem_map[p] = 0
    BY DEF LastFree, FreeIn
  <2>3. UNCHANGED <<dir, pte, pc, task_page, at, arg>>
    BY <2>1 DEF Rest, tables, exec
  <2>4. Types /\ Types'
    BY <2>1, <2>2, <2>3 DEF MemoryInv, Types
  <2>5. WritableIsAlone' /\ Mapped' = Mapped
    BY <2>3, SameTables DEF MemoryInv
  <2>6. Held' = [Held EXCEPT ![<<t, "page", 0>>] = p]
    BY <2>1, <2>3, <2>4, HeldAfterSlot
  <2>7. page[t] = NULL
    BY DEF MemoryInv, TaskRight
  <2>8. PICK map, h, m : map = mem_map /\ h = Held /\ m = Mapped
    OBVIOUS
  <2>9. PagesRight(Taken(map, p), [h EXCEPT ![<<t, "page", 0>>] = p], m)
    <3>1. PagesRight(map, h, m)
      BY <2>8 DEF MemoryInv
    <3>2. <<t, "page", 0>> \in Slot /\ h[<<t, "page", 0>>] = NULL
      BY <2>7, <2>8, Slots
    <3>3. map[p] = 0
      BY <2>2, <2>8
    <3> QED BY <2>2, <3>1, <3>2, <3>3, FillSlot DEF Taken
  <2>10. PagesRight(mem_map', Held', Mapped')
    BY <2>1, <2>5, <2>6, <2>8, <2>9
  <2>11. \A u \in Task : TaskRight(u)'
    <3> TAKE u \in Task
    <3>1. TaskRight(u) /\ a # NULL /\ p # NULL
      BY <2>2, SetsAreFinite DEF MemoryInv
    <3>2. CASE u = t
      BY <2>1, <2>3, <2>4, <3>1, <3>2 DEF TaskRight, Types, Gone
    <3>3. CASE u # t
      BY <2>1, <2>3, <2>4, <3>1, <3>3, SameTaskIsRight DEF SameTask, Types
    <3> QED BY <3>2, <3>3
  <2> QED BY <2>4, <2>5, <2>10, <2>11 DEF MemoryInv
<1> QED BY <1>1, <1>2

\* do_no_page(), up to where it sleeps.
LEMMA NoPageKeeps ==
  ASSUME MemoryInv, "oom" \notin Windows, NEW t \in Task, NEW a \in Addr,
         pc[t] \in {"user", "write", "exec"}, fault[t] = NULL, NoPage(t, a)
  PROVE  MemoryInv'
  BY EmptyPageKeeps, SharePageKeeps, StartLoadKeeps DEF NoPage

\* The page has been read.
LEMMA LoadDoneKeeps ==
  ASSUME MemoryInv, "oom" \notin Windows, NEW t \in Task, LoadDone(t)
  PROVE  MemoryInv'
<1>1. PICK a, p : a = fault[t] /\ p = page[t]
  OBVIOUS
<1>2. /\ a \in Addr /\ p \in Page /\ p # NULL /\ pte[t][a] = NULL
      /\ pc[t] \in {"user", "write", "exec"}
  BY <1>1 DEF LoadDone, MemoryInv, TaskRight, Types
<1>3. PICK s : s = <<t, "page", 0>> /\ s \in Slot /\ Held[s] = p
  BY <1>1, Slots
<1>4. PICK map, h, m : map = mem_map /\ h = Held /\ m = Mapped
  OBVIOUS
<1>5. PagesRight(map, h, m) /\ h[s] = p /\ map[p] = 1
  <2>1. PagesRight(map, h, m) /\ h[s] = p
    BY <1>3, <1>4 DEF MemoryInv
  <2> QED BY <1>2, <1>3, <2>1 DEF PagesRight
<1>6. PICK map1, h1 : map1 = [map EXCEPT ![p] = map[p] - 1] /\ h1 = [h EXCEPT ![s] = NULL]
  OBVIOUS
<1>7. PagesRight(map1, h1, m) /\ map1[p] = 0
  <2>1. h[s] # NULL
    BY <1>2, <1>5
  <2>2. /\ PagesRight([map EXCEPT ![h[s]] = map[h[s]] - 1], [h EXCEPT ![s] = NULL], m)
        /\ [map EXCEPT ![h[s]] = map[h[s]] - 1][h[s]] = 0
    BY <1>3, <1>5, <2>1, ClearSlot
  <2>3. map1 = [map EXCEPT ![h[s]] = map[h[s]] - 1]
    BY <1>5, <1>6
  <2> QED BY <1>5, <1>6, <2>2, <2>3
<1>8. CASE Die(t, Freed(mem_map, p))
  <2>1. Freed(mem_map, p) = map1
    BY <1>4, <1>6 DEF Freed
  <2>2. PagesRight(map1, [Held EXCEPT ![<<t, "page", 0>>] = NULL], Mapped)
    BY <1>3, <1>4, <1>6, <1>7
  <2> QED BY <1>2, <1>8, <2>1, <2>2, DieKeeps DEF Gone
<1>9. CASE ~Die(t, Freed(mem_map, p))
  <2>1. PICK q \in TableFor(t, a, mem_map) :
          /\ PutPage(t, a, [page |-> p, rw |-> TRUE, dirty |-> FALSE], q, mem_map)
          /\ fault' = [fault EXCEPT ![t] = NULL] /\ page' = [page EXCEPT ![t] = NULL]
          /\ UNCHANGED pc /\ Rest
    BY <1>1, <1>9 DEF LoadDone, Resume
  <2>2. PICK e : e = [page |-> p, rw |-> TRUE, dirty |-> FALSE]
    OBVIOUS
  <2>3. e \in Entry /\ e.page = p
    BY <1>2, <2>2 DEF Entry
  <2>4. /\ dir' = [dir EXCEPT ![t][DirOf(a)] = q] /\ pte' = [pte EXCEPT ![t][a] = e]
        /\ mem_map' = Taken(map, q) /\ UNCHANGED <<pc, at, task_page, arg>>
    BY <1>4, <2>1, <2>2 DEF PutPage, Rest, exec
  <2>5. (\A r \in Slot : h1[r] # p) /\ PlacesOf(m, p) = {}
    BY <1>2, <1>7, FreeIsNowhere
  <2>6. PICK m1 : m1 = [m EXCEPT ![<<t, a>>] = p]
    OBVIOUS
  <2>7. PagesRight(map, h1, m1)
    <3>1. <<t, a>> \in Place /\ m[<<t, a>>] = NULL
      BY <1>2, <1>4, Addresses DEF MemoryInv
    <3>2. PagesRight([map1 EXCEPT ![p] = map1[p] + 1], h1, m1)
      BY <1>2, <1>7, <2>5, <2>6, <3>1, MapPage
    <3>3. [map1 EXCEPT ![p] = map1[p] + 1] = map
      <4>1. map1[p] + 1 = 1
        BY <1>7
      <4>2. map \in [Page -> Nat]
        BY <1>5 DEF PagesRight
      <4> QED BY <1>2, <1>5, <1>6, <4>1, <4>2
    <3> QED BY <3>2, <3>3
  <2>8. <<t, "table", DirOf(a)>> \in Slot /\ <<t, "table", DirOf(a)>> # s
    BY <1>2, <1>3, Slots DEF Dir
  <2>9. h1[<<t, "table", DirOf(a)>>] = dir[t][DirOf(a)]
    BY <1>2, <1>4, <1>6, <2>8, Slots DEF Dir, Held
  <2>10. /\ PagesRight(Taken(map, q), [h1 EXCEPT ![<<t, "table", DirOf(a)>>] = q], m1)
         /\ q \in Page
    BY <1>2, <1>4, <2>1, <2>7, <2>9, PutTable
  <2>11. Held' = [h1 EXCEPT ![<<t, "table", DirOf(a)>>] = q]
    <3>1. DirOf(a) \in Dir /\ Types
      BY <1>2 DEF Dir, MemoryInv
    <3>2. \A r \in Slot : /\ r = <<r[1], r[2], r[3]>> /\ r[1] \in Task
                          /\ r[2] \in {"table", "task", "page", "arg"}
                          /\ r[2] = "table" => r[3] \in Dir
                          /\ r[2] # "table" => r[3] = 0
      BY DEF Slot
    <3>3. ASSUME NEW r \in Slot
          PROVE  Held'[r] = IF r = <<t, "table", DirOf(a)>> THEN q
                            ELSE IF r = <<t, "page", 0>> THEN NULL ELSE Held[r]
      <4>1. CASE r[2] = "table"
        <5>1. Held'[r] = dir'[r[1]][r[3]] /\ Held[r] = dir[r[1]][r[3]]
          BY <4>1 DEF Held
        <5> QED BY <2>4, <3>1, <3>2, <4>1, <5>1 DEF Types
      <4>2. CASE r[2] = "page"
        <5>1. Held'[r] = page'[r[1]] /\ Held[r] = page[r[1]]
          BY <4>2 DEF Held
        <5> QED BY <2>1, <3>1, <3>2, <4>2, <5>1 DEF Types
      <4>3. CASE r[2] \in {"task", "arg"}
        <5>1. Held'[r] = Held[r]
          BY <2>4, <4>3 DEF Held
        <5> QED BY <3>2, <4>3, <5>1
      <4> QED BY <3>2, <4>1, <4>2, <4>3
    <3>4. Held = [r \in Slot |-> Held[r]] /\ Held' = [r \in Slot |-> Held'[r]]
      BY DEF Held
    <3> QED BY <1>3, <1>4, <1>6, <3>3, <3>4
  <2>12. WritableIsAlone' /\ Mapped' = [Mapped EXCEPT ![<<t, a>>] = e.page]
    <3>1. PlacesOf(Mapped, e.page) = {}
      BY <1>4, <2>3, <2>5
    <3> QED BY <1>2, <2>3, <2>4, <3>1, FreshEntryIsAlone
  <2>13. PagesRight(mem_map', Held', Mapped')
    BY <1>4, <2>3, <2>4, <2>6, <2>10, <2>11, <2>12
  <2>14. Types' /\ \A u \in Task : TaskRight(u)'
    <3>1. fault'[t] = NULL
      BY <2>1 DEF MemoryInv, Types
    <3> QED BY <1>2, <2>1, <2>3, <2>4, <2>10, <3>1, EntryKeeps
  <2> QED BY <2>12, <2>13, <2>14 DEF MemoryInv
<1> QED BY <1>8, <1>9
-----------------------------------------------------------------------------
(***************************************************************************)
(* Writing.                                                                *)
(***************************************************************************)
\* What is left to show of a step that changes no page of anything: the entries are
\* where they were.
LEMMA WriteKeeps ==
  ASSUME MemoryInv, NEW t \in Task, NEW a \in Addr, pte[t][a] # NULL,
         NEW e \in Entry,
         pte' = [pte EXCEPT ![t][a] = e],
         pc[t] \in {"user", "retry", "write"}, fault[t] = NULL,
         NEW w \in {"user", "retry", "write"}, pc' = [pc EXCEPT ![t] = w],
         \/ w = "user" /\ at' = [at EXCEPT ![t] = NULL]
         \/ at' = [at EXCEPT ![t] = a],
         UNCHANGED <<dir, fault, page, task_page, arg>>
  PROVE  Types' /\ (\A u \in Task : TaskRight(u)') /\ Held' = Held
<1>1. Types
  BY DEF MemoryInv
<1>2. Types'
  BY <1>1 DEF Types, Where, Sleep
<1>3. \A u \in Task : TaskRight(u)'
  <2> TAKE u \in Task
  <2>1. TaskRight(u) /\ e # NULL /\ a # NULL
    BY MemoryAssumption, SetsAreFinite DEF MemoryInv
  <2>2. CASE u = t
    BY <1>1, <1>2, <2>1, <2>2 DEF TaskRight, Types, Gone
  <2>3. CASE u # t
    BY <1>1, <2>1, <2>3, SameTaskIsRight DEF SameTask, Types
  <2> QED BY <2>2, <2>3
<1>4. Held' = Held
  BY DEF Held
<1> QED BY <1>2, <1>3, <1>4

\* An entry that keeps its page may be written to if it could be, or if it is alone.
LEMMA SamePageIsAlone ==
  ASSUME MemoryInv, NEW t \in Task, NEW a \in Addr, pte[t][a] # NULL,
         NEW e \in Entry, e.page = pte[t][a].page,
         pte' = [pte EXCEPT ![t][a] = e],
         e.rw => pte[t][a].rw \/ PlacesOf(Mapped, e.page) = {<<t, a>>}
  PROVE  WritableIsAlone' /\ Mapped' = Mapped
<1>1. Types
  BY DEF MemoryInv
<1>2. /\ <<t, a>> \in Place /\ Mapped[<<t, a>>] = e.page
      /\ \A x \in Place : x = <<x[1], x[2]>> /\ x[1] \in Task /\ x[2] \in Addr
  BY <1>1, Addresses DEF Place
<1>3. Mapped' = [Mapped EXCEPT ![<<t, a>>] = e.page]
  BY <1>1, NewEntry
<1>4. Mapped' = Mapped
  <2>1. Mapped = [x \in Place |-> Mapped[x]]
    BY DEF Mapped
  <2> QED BY <1>2, <1>3, <2>1
<1>5. ASSUME NEW x \in Place, Writable(x[1], x[2])'
      PROVE  \/ Writable(x[1], x[2])
             \/ x = <<t, a>> /\ PlacesOf(Mapped, e.page) = {<<t, a>>}
  <2>1. CASE x = <<t, a>>
    <3>1. pte'[x[1]][x[2]] = e /\ pte[x[1]][x[2]] = pte[t][a]
      BY <1>1, <2>1 DEF Types
    <3> QED BY <1>5, <2>1, <3>1 DEF Writable, Present
  <2>2. CASE x # <<t, a>>
    <3>1. pte'[x[1]][x[2]] = pte[x[1]][x[2]]
      BY <1>1, <1>2, <2>2 DEF Types
    <3> QED BY <1>5, <3>1 DEF Writable, Present
  <2> QED BY <2>1, <2>2
<1>6. WritableIsAlone'
  <2> SUFFICES ASSUME NEW x \in Place, NEW y \in Place, Writable(x[1], x[2])',
                      Mapped'[x] = Mapped'[y]
               PROVE  x = y
    BY DEF WritableIsAlone
  <2>1. CASE Writable(x[1], x[2])
    BY <1>4, <2>1 DEF MemoryInv, WritableIsAlone
  <2>2. CASE x = <<t, a>> /\ PlacesOf(Mapped, e.page) = {<<t, a>>}
    <3>1. y \in PlacesOf(Mapped, e.page)
      BY <1>2, <1>4, <2>2 DEF PlacesOf
    <3> QED BY <2>2, <3>1
  <2> QED BY <1>5, <2>1, <2>2
<1> QED BY <1>4, <1>6

\* The processor writes to a page that is there.
LEMMA StoreKeeps ==
  ASSUME MemoryInv, NEW t \in Task, NEW a \in Addr, pte[t][a] # NULL,
         pc[t] \in {"user", "retry", "write"}, fault[t] = NULL, Store(t, a)
  PROVE  MemoryInv'
<1>1. PICK e : e = [pte[t][a] EXCEPT !.dirty = TRUE]
  OBVIOUS
<1>2. e \in Entry /\ e.page = pte[t][a].page /\ e.rw = pte[t][a].rw
  <2>1. PICK r : r = pte[t][a]
    OBVIOUS
  <2>2. r \in Entry /\ e = [r EXCEPT !.dirty = TRUE]
    BY <1>1, <2>1 DEF MemoryInv, Types
  <2>3. e \in Entry /\ e.page = r.page /\ e.rw = r.rw
    BY <2>2 DEF Entry
  <2> QED BY <2>1, <2>3
<1>3. pte' = [pte EXCEPT ![t][a] = e]
  BY <1>1 DEF Store, MemoryInv, Types
<1>4. /\ pc' = [pc EXCEPT ![t] = "user"] /\ at' = [at EXCEPT ![t] = NULL]
      /\ UNCHANGED <<mem_map, dir, fault, page, task_page, arg>>
  BY DEF Store, Goto, load, exec
<1>5. Types' /\ (\A u \in Task : TaskRight(u)') /\ Held' = Held
  <2>1. PICK w : w = "user"
    OBVIOUS
  <2> QED BY <1>2, <1>3, <1>4, <2>1, WriteKeeps
<1>6. WritableIsAlone' /\ Mapped' = Mapped
  BY <1>2, <1>3, SamePageIsAlone
<1>7. PagesRight(mem_map', Held', Mapped')
  BY <1>4, <1>5, <1>6 DEF MemoryInv
<1> QED BY <1>5, <1>6, <1>7 DEF MemoryInv

\* A page at one address only: that is where it is.
LEMMA OnlyPlace ==
  ASSUME NEW map, NEW h, NEW m, PagesRight(map, h, m), NEW x \in Place, m[x] # NULL
  PROVE  /\ \A s \in Slot : h[s] # m[x]
         /\ map[m[x]] \in Nat \ {0}
         /\ map[m[x]] = 1 => PlacesOf(m, m[x]) = {x}
<1>1. PICK p : p = m[x]
  OBVIOUS
<1>2. p \in Page /\ x \in PlacesOf(m, p) /\ p # NULL
  BY <1>1 DEF PagesRight, PlacesOf
<1>3. \A s \in Slot : h[s] # p
  BY <1>2 DEF PagesRight
<1>4. map[p] = Cardinality(PlacesOf(m, p)) /\ map[p] \in Nat
  BY <1>2, <1>3 DEF PagesRight
<1>5. map[p] # 0
  BY <1>2, <1>4, PlacesAreFinite, FS_EmptySet
<1>6. map[p] = 1 => PlacesOf(m, p) = {x}
  <2> SUFFICES ASSUME map[p] = 1 PROVE PlacesOf(m, p) = {x}
    OBVIOUS
  <2>1. PICK y : PlacesOf(m, p) = {y}
    BY <1>4, PlacesAreFinite, FS_Singleton
  <2> QED BY <1>2, <2>1
<1> QED BY <1>1, <1>3, <1>4, <1>5, <1>6

\* un_wp_page(): the last user may write, another gets a copy.
LEMMA UnWpPageKeeps ==
  ASSUME MemoryInv, "oom" \notin Windows, NEW t \in Task, NEW a \in Addr, pte[t][a] # NULL,
         pc[t] \in {"user", "retry"}, fault[t] = NULL, NEW w \in {"retry", "write"},
         UnWpPage(t, a, w)
  PROVE  MemoryInv'
<1>1. PICK old : old = pte[t][a].page
  OBVIOUS
<1>2. /\ old \in Page /\ <<t, a>> \in Place /\ Mapped[<<t, a>>] = old /\ old # NULL
      /\ pte[t][a] \in Entry
  BY <1>1, Addresses DEF MemoryInv
<1>3. PICK map, h, m : map = mem_map /\ h = Held /\ m = Mapped
  OBVIOUS
<1>4. PagesRight(map, h, m) /\ m[<<t, a>>] = old
  BY <1>2, <1>3 DEF MemoryInv
<1>5. /\ \A s \in Slot : h[s] # old
      /\ map[old] \in Nat \ {0}
      /\ map[old] = 1 => PlacesOf(m, old) = {<<t, a>>}
  BY <1>2, <1>4, OnlyPlace
<1>6. CASE /\ mem_map[old] = 1
           /\ pte' = [pte EXCEPT ![t][a].rw = TRUE]
           /\ Goto(t, w) /\ at' = [at EXCEPT ![t] = a]
           /\ UNCHANGED <<mem_map, data, dir, load, task_page, executable, exec>>
  <2>1. PICK e : e = [pte[t][a] EXCEPT !.rw = TRUE]
    OBVIOUS
  <2>2. e \in Entry /\ e.page = pte[t][a].page
    <3>1. PICK r : r = pte[t][a]
      OBVIOUS
    <3>2. r \in Entry /\ e = [r EXCEPT !.rw = TRUE]
      BY <1>2, <2>1, <3>1
    <3>3. e \in Entry /\ e.page = r.page
      BY <3>2 DEF Entry
    <3> QED BY <3>1, <3>3
  <2>3. pte' = [pte EXCEPT ![t][a] = e]
    BY <1>6, <2>1 DEF MemoryInv, Types
  <2>4. /\ pc' = [pc EXCEPT ![t] = w] /\ at' = [at EXCEPT ![t] = a]
        /\ UNCHANGED <<mem_map, dir, fault, page, task_page, arg>>
    BY <1>6 DEF Goto, load, exec
  <2>5. Types' /\ (\A u \in Task : TaskRight(u)') /\ Held' = Held
    BY <2>2, <2>3, <2>4, WriteKeeps
  <2>6. PlacesOf(Mapped, e.page) = {<<t, a>>}
    BY <1>1, <1>3, <1>5, <1>6, <2>2
  <2>7. WritableIsAlone' /\ Mapped' = Mapped
    BY <2>2, <2>3, <2>6, SamePageIsAlone
  <2>8. PagesRight(mem_map', Held', Mapped')
    BY <2>4, <2>5, <2>7 DEF MemoryInv
  <2> QED BY <2>5, <2>7, <2>8 DEF MemoryInv
<1>7. CASE \E new \in LastFree(mem_map) :
             /\ mem_map[old] # 1
             /\ pte' = [pte EXCEPT ![t][a] = [page |-> new, rw |-> TRUE, dirty |-> FALSE]]
             /\ mem_map' = CopyCounts(mem_map, old, new)
             /\ Goto(t, w) /\ at' = [at EXCEPT ![t] = a]
             /\ UNCHANGED <<dir, load, task_page, executable, exec>>
  <2>1. PICK new \in LastFree(mem_map) :
             /\ mem_map[old] # 1
             /\ pte' = [pte EXCEPT ![t][a] = [page |-> new, rw |-> TRUE, dirty |-> FALSE]]
             /\ mem_map' = CopyCounts(mem_map, old, new)
             /\ Goto(t, w) /\ at' = [at EXCEPT ![t] = a]
             /\ UNCHANGED <<dir, load, task_page, executable, exec>>
    BY <1>7
  <2>2. new \in Page /\ map[new] = 0 /\ new # old
    BY <1>3, <1>5 DEF LastFree, FreeIn
  <2>3. PICK e : e = [page |-> new, rw |-> TRUE, dirty |-> FALSE]
    OBVIOUS
  <2>4. e \in Entry /\ e.page = new
    BY <2>2, <2>3 DEF Entry
  <2>5. /\ pc' = [pc EXCEPT ![t] = w] /\ at' = [at EXCEPT ![t] = a]
        /\ pte' = [pte EXCEPT ![t][a] = e]
        /\ UNCHANGED <<dir, fault, page, task_page, arg>>
    BY <2>1, <2>3 DEF Goto, load, exec
  <2>6. Types' /\ (\A u \in Task : TaskRight(u)') /\ Held' = Held
    BY <2>4, <2>5, WriteKeeps
  <2>7. (\A s \in Slot : h[s] # new) /\ PlacesOf(m, new) = {}
    BY <1>4, <2>2, FreeIsNowhere
  <2>8. WritableIsAlone' /\ Mapped' = [Mapped EXCEPT ![<<t, a>>] = e.page]
    <3>1. PlacesOf(Mapped, e.page) = {}
      BY <1>3, <2>4, <2>7
    <3> QED BY <2>4, <2>5, <3>1, FreshEntryIsAlone
  <2>9. PICK map1, m1 : map1 = [map EXCEPT ![old] = map[old] - 1] /\ m1 = [m EXCEPT ![<<t, a>>] = NULL]
    OBVIOUS
  <2>10. PagesRight(map1, h, m1)
    <3>1. PagesRight([map EXCEPT ![m[<<t, a>>]] = map[m[<<t, a>>]] - 1], h,
                     [m EXCEPT ![<<t, a>>] = NULL])
      BY <1>2, <1>4, UnmapPage
    <3> QED BY <1>4, <2>9, <3>1
  <2>11. PagesRight([map1 EXCEPT ![new] = map1[new] + 1], h, [m1 EXCEPT ![<<t, a>>] = new])
    <3>1. m1[<<t, a>>] = NULL
      BY <1>2, <1>4, <2>9 DEF PagesRight
    <3> QED BY <1>2, <2>2, <2>7, <2>10, <3>1, MapPage
  <2>12. mem_map' = [map1 EXCEPT ![new] = map1[new] + 1]
    <3>1. map \in [Page -> Nat]
      BY <1>4 DEF PagesRight
    <3>2. mem_map' = [[map EXCEPT ![new] = 1] EXCEPT ![old] = [map EXCEPT ![new] = 1][old] - 1]
      BY <1>3, <2>1 DEF CopyCounts, Freed, Taken
    <3>3. [map EXCEPT ![new] = 1][old] = map[old] /\ map1[new] + 1 = 1
      BY <1>2, <2>2, <2>9, <3>1
    <3>4. mem_map' = [[map EXCEPT ![new] = 1] EXCEPT ![old] = map[old] - 1]
      BY <3>2, <3>3
    <3>5. [[map EXCEPT ![new] = 1] EXCEPT ![old] = map[old] - 1] = [map1 EXCEPT ![new] = 1]
      BY <1>2, <2>2, <2>9, <3>1
    <3> QED BY <3>3, <3>4, <3>5
  <2>13. Mapped' = [m1 EXCEPT ![<<t, a>>] = new]
    <3>1. m \in [Place -> Page \cup {NULL}]
      BY <1>4 DEF PagesRight
    <3>2. Mapped' = [m EXCEPT ![<<t, a>>] = new]
      BY <1>3, <2>4, <2>8
    <3> QED BY <1>2, <2>9, <3>1, <3>2
  <2>14. PagesRight(mem_map', Held', Mapped')
    BY <1>3, <2>6, <2>11, <2>12, <2>13
  <2> QED BY <2>6, <2>8, <2>14 DEF MemoryInv
<1>8. CASE Die(t, mem_map)
  BY <1>8, DieAtOnceKeeps DEF Gone
<1> QED BY <1>1, <1>6, <1>7, <1>8 DEF UnWpPage

\* What a program writes, and the kernel for it, or not.
LEMMA WritesKeep ==
  ASSUME MemoryInv, "oom" \notin Windows, NEW t \in Task,
         \/ \E a \in Addr : UserWrite(t, a) \/ WriteFault(t, a) \/ VerifyArea(t, a)
         \/ Retry(t)
         \/ KernelWrite(t)
         \/ NothingToWrite(t)
  PROVE  MemoryInv'
<1>1. CASE \E a \in Addr : UserWrite(t, a)
  BY <1>1, StoreKeeps DEF UserWrite, At, Writable, Present
<1>2. CASE \E a \in Addr : WriteFault(t, a)
  BY <1>2, UnWpPageKeeps DEF WriteFault, At, Present
<1>3. CASE \E a \in Addr : VerifyArea(t, a)
  <2>1. PICK a \in Addr : VerifyArea(t, a)
    BY <1>3
  <2>2. pc[t] = "user" /\ fault[t] = NULL
    BY <2>1 DEF VerifyArea, At
  <2>3. CASE Present(t, a) /\ UnWpPage(t, a, "write")
    BY <2>2, <2>3, UnWpPageKeeps DEF Present
  <2>4. CASE ~(Present(t, a) /\ UnWpPage(t, a, "write"))
    <3>1. /\ pc' = [pc EXCEPT ![t] = "write"] /\ at' = [at EXCEPT ![t] = a]
          /\ UNCHANGED <<mem_map, dir, pte, task_page, fault, page, arg>>
      BY <2>1, <2>4 DEF VerifyArea, Goto, tables, load, exec
    <3>2. Types /\ Types'
      BY <3>1 DEF MemoryInv, Types, Where, Sleep
    <3>3. WritableIsAlone' /\ Mapped' = Mapped /\ Held' = Held
      BY <3>1, SameTables DEF MemoryInv, Held
    <3>4. PagesRight(mem_map', Held', Mapped')
      BY <3>1, <3>3 DEF MemoryInv
    <3>5. \A u \in Task : TaskRight(u)'
      <4> TAKE u \in Task
      <4>1. TaskRight(u)
        BY DEF MemoryInv
      <4>2. CASE u = t
        BY <2>2, <3>1, <3>2, <4>1, <4>2 DEF TaskRight, Types, Gone
      <4>3. CASE u # t
        BY <3>1, <3>2, <4>1, <4>3, SameTaskIsRight DEF SameTask, Types
      <4> QED BY <4>2, <4>3
    <3> QED BY <3>2, <3>3, <3>4, <3>5 DEF MemoryInv
  <2> QED BY <2>3, <2>4
<1>4. CASE Retry(t)
  <2>1. /\ pc[t] = "retry" /\ fault[t] = NULL
        /\ at[t] \in Addr /\ pte[t][at[t]] # NULL
    BY <1>4 DEF Retry, At, MemoryInv, TaskRight
  <2>2. Store(t, at[t]) \/ UnWpPage(t, at[t], "retry")
    BY <1>4 DEF Retry
  <2> QED BY <2>1, <2>2, StoreKeeps, UnWpPageKeeps
<1>5. CASE KernelWrite(t)
  <2>1. pc[t] = "write" /\ fault[t] = NULL /\ at[t] \in Addr
    BY <1>5 DEF KernelWrite, At, MemoryInv, TaskRight
  <2>2. CASE pte[t][at[t]] # NULL
    BY <1>5, <2>1, <2>2, StoreKeeps DEF KernelWrite, Present
  <2>3. CASE pte[t][at[t]] = NULL
    BY <1>5, <2>1, <2>3, NoPageKeeps DEF KernelWrite, Present
  <2> QED BY <2>2, <2>3
<1>6. CASE NothingToWrite(t)
  <2>1. /\ pc[t] = "write" /\ fault[t] = NULL
        /\ pc' = [pc EXCEPT ![t] = "user"] /\ at' = [at EXCEPT ![t] = NULL]
        /\ UNCHANGED <<mem_map, dir, pte, task_page, fault, page, arg>>
    BY <1>6 DEF NothingToWrite, At, Goto, tables, load, exec
  <2>2. Types /\ Types'
    BY <2>1 DEF MemoryInv, Types, Where, Sleep
  <2>3. WritableIsAlone' /\ Mapped' = Mapped /\ Held' = Held
    BY <2>1, SameTables DEF MemoryInv, Held
  <2>4. PagesRight(mem_map', Held', Mapped')
    BY <2>1, <2>3 DEF MemoryInv
  <2>5. \A u \in Task : TaskRight(u)'
    <3> TAKE u \in Task
    <3>1. TaskRight(u)
      BY DEF MemoryInv
    <3>2. CASE u = t
      BY <2>1, <2>2, <3>1, <3>2 DEF TaskRight, Types, Gone
    <3>3. CASE u # t
      BY <2>1, <2>2, <3>1, <3>3, SameTaskIsRight DEF SameTask, Types
    <3> QED BY <3>2, <3>3
  <2> QED BY <2>2, <2>3, <2>4, <2>5 DEF MemoryInv
<1> QED BY <1>1, <1>2, <1>3, <1>4, <1>5, <1>6

-----------------------------------------------------------------------------
(***************************************************************************)
(* fork(), execve(), exit().                                               *)
(***************************************************************************)
\* An entry that is made read only keeps its page.
LEMMA ReadOnlyEntry ==
  ASSUME NEW e \in Entry \cup {NULL}
  PROVE  /\ ReadOnly(e) \in Entry \cup {NULL}
         /\ ReadOnly(e) = NULL <=> e = NULL
         /\ e # NULL => ReadOnly(e).page = e.page /\ ~ReadOnly(e).rw
<1>1. CASE e = NULL
  BY <1>1 DEF ReadOnly
<1>2. CASE e # NULL
  <2>1. PICK r : r = [e EXCEPT !.rw = FALSE]
    OBVIOUS
  <2>2. ReadOnly(e) = r
    BY <1>2, <2>1 DEF ReadOnly
  <2>3. r \in Entry /\ r.page = e.page /\ ~r.rw
    BY <1>2, <2>1 DEF Entry
  <2> QED BY <1>2, <2>2, <2>3, MemoryAssumption
<1> QED BY <1>1, <1>2

\* The address spaces after fork().
LEMMA ForkedEntries ==
  ASSUME MemoryInv, NEW t \in Task, NEW u \in Task, u # t, pte' = EntriesAfterFork(t, u)
  PROVE  /\ pte' \in [Task -> [Addr -> Entry \cup {NULL}]]
         /\ \A v \in Task, a \in Addr : v # u => (pte'[v][a] = NULL <=> pte[v][a] = NULL)
         /\ \A v \in Task : v # u /\ v # t => pte'[v] = pte[v]
         /\ Mapped' = [x \in Place |-> IF x[1] = u THEN Mapped[<<t, x[2]>>] ELSE Mapped[x]]
         /\ WritableIsAlone'
<1>1. Types
  BY DEF MemoryInv
<1>2. PICK row : row = Protected(t)
  OBVIOUS
<1>3. /\ row \in [Addr -> Entry \cup {NULL}]
      /\ \A a \in Addr : /\ row[a] = NULL <=> pte[t][a] = NULL
                         /\ row[a] # NULL => row[a].page = pte[t][a].page /\ ~row[a].rw
  <2>1. \A a \in Addr : pte[t][a] \in Entry \cup {NULL} /\ row[a] = ReadOnly(pte[t][a])
    BY <1>1, <1>2 DEF Types, Protected
  <2>2. row = [a \in Addr |-> row[a]]
    BY <1>2 DEF Protected
  <2> QED BY <2>1, <2>2, ReadOnlyEntry
<1>4. \A v \in Task : pte'[v] = IF v = t \/ v = u THEN row ELSE pte[v]
  BY <1>1, <1>2 DEF EntriesAfterFork, Types
<1>5. pte' \in [Task -> [Addr -> Entry \cup {NULL}]]
  <2>1. pte' = [v \in Task |-> pte'[v]]
    BY <1>1 DEF EntriesAfterFork, Types
  <2>2. \A v \in Task : pte[v] \in [Addr -> Entry \cup {NULL}]
    BY <1>1 DEF Types
  <2>3. \A v \in Task : pte'[v] \in [Addr -> Entry \cup {NULL}]
    BY <1>3, <1>4, <2>2
  <2> QED BY <2>1, <2>3
<1>6. \A x \in Place : x = <<x[1], x[2]>> /\ x[1] \in Task /\ x[2] \in Addr
  BY DEF Place
<1>7. \A v \in Task, a \in Addr :
        /\ <<v, a>> \in Place
        /\ Mapped'[<<v, a>>] = IF pte'[v][a] = NULL THEN NULL ELSE pte'[v][a].page
        /\ Mapped[<<v, a>>] = IF pte[v][a] = NULL THEN NULL ELSE pte[v][a].page
  BY DEF Mapped, Place
<1>8. \A v \in Task, a \in Addr :
        Mapped'[<<v, a>>] = IF v = u THEN Mapped[<<t, a>>] ELSE Mapped[<<v, a>>]
  <2> SUFFICES ASSUME NEW v \in Task, NEW a \in Addr
               PROVE  Mapped'[<<v, a>>] = IF v = u THEN Mapped[<<t, a>>] ELSE Mapped[<<v, a>>]
    OBVIOUS
  <2>1. CASE v = t \/ v = u
    <3>1. pte'[v][a] = row[a]
      BY <1>4, <2>1
    <3>2. Mapped'[<<v, a>>] = Mapped[<<t, a>>]
      BY <1>3, <1>7, <3>1
    <3> QED BY <2>1, <3>2
  <2>2. CASE v # t /\ v # u
    <3>1. pte'[v] = pte[v]
      BY <1>4, <2>2
    <3> QED BY <1>7, <2>2, <3>1
  <2> QED BY <2>1, <2>2
<1>9. Mapped' = [x \in Place |-> IF x[1] = u THEN Mapped[<<t, x[2]>>] ELSE Mapped[x]]
  <2>1. Mapped' = [x \in Place |-> Mapped'[x]]
    BY DEF Mapped
  <2>2. \A x \in Place : Mapped'[x] = IF x[1] = u THEN Mapped[<<t, x[2]>>] ELSE Mapped[x]
    BY <1>6, <1>8
  <2> QED BY <2>1, <2>2
<1>10. WritableIsAlone'
  <2> SUFFICES ASSUME NEW x \in Place, NEW y \in Place, Writable(x[1], x[2])',
                      Mapped'[x] = Mapped'[y]
               PROVE  x = y
    BY DEF WritableIsAlone
  <2>1. x[1] # t /\ x[1] # u /\ Writable(x[1], x[2])
    <3>1. pte'[x[1]][x[2]] # NULL /\ pte'[x[1]][x[2]].rw
      BY DEF Writable, Present
    <3>2. x[1] # t /\ x[1] # u
      BY <1>3, <1>4, <1>6, <3>1
    <3>3. pte'[x[1]] = pte[x[1]]
      BY <1>4, <1>6, <3>2
    <3> QED BY <3>1, <3>2, <3>3 DEF Writable, Present
  <2>2. Mapped'[x] = Mapped[x]
    BY <1>9, <2>1
  <2>3. CASE y[1] # u
    BY <1>9, <2>1, <2>2, <2>3 DEF MemoryInv, WritableIsAlone
  <2>4. CASE y[1] = u
    <3>1. PICK z : z = <<t, y[2]>> /\ z \in Place
      BY <1>6, <1>7
    <3>2. Mapped[x] = Mapped[z]
      BY <1>9, <2>2, <2>4, <3>1
    <3>3. x = z
      BY <2>1, <3>1, <3>2 DEF MemoryInv, WritableIsAlone
    <3> QED BY <2>1, <3>1, <3>3
  <2> QED BY <2>3, <2>4
<1>11. \A v \in Task, a \in Addr : v # u => (pte'[v][a] = NULL <=> pte[v][a] = NULL)
  BY <1>3, <1>4
<1> QED BY <1>4, <1>5, <1>9, <1>10, <1>11

\* fork(): the pages are at the addresses of both tasks, all read only.
LEMMA ForkKeeps ==
  ASSUME MemoryInv, NEW t \in Task, NEW u \in Task, Fork(t, u)
  PROVE  MemoryInv'
<1>1. PICK s \in LastFree(mem_map) :
          \E q \in Injection(DirsOf(t), Free \ {s}) :
             /\ mem_map' = [p \in Page |->
                               IF p = s \/ p \in Range(q) THEN 1
                               ELSE mem_map[p] + Cardinality(Entries(t, p))]
             /\ dir' = [dir EXCEPT ![u] = [d \in Dir |-> IF d \in DirsOf(t) THEN q[d]
                                                         ELSE NULL]]
             /\ task_page' = [task_page EXCEPT ![u] = s]
  BY DEF Fork
<1>2. PICK q \in Injection(DirsOf(t), Free \ {s}) :
             /\ mem_map' = [p \in Page |->
                               IF p = s \/ p \in Range(q) THEN 1
                               ELSE mem_map[p] + Cardinality(Entries(t, p))]
             /\ dir' = [dir EXCEPT ![u] = [d \in Dir |-> IF d \in DirsOf(t) THEN q[d]
                                                         ELSE NULL]]
             /\ task_page' = [task_page EXCEPT ![u] = s]
  BY <1>1
<1>3. /\ q \in [DirsOf(t) -> Free \ {s}]
      /\ \A c, d \in DirsOf(t) : q[c] = q[d] => c = d
      /\ DirsOf(t) \subseteq Dir /\ s \in Page /\ mem_map[s] = 0
      /\ \A d \in DirsOf(t) : q[d] \in Page /\ q[d] # s /\ mem_map[q[d]] = 0
  BY DEF Injection, IsInjective, DirsOf, LastFree, FreeIn, Free
<1>4. /\ pc[t] = "user" /\ pc[u] = "free" /\ u # t /\ fault[t] = NULL
      /\ pte' = EntriesAfterFork(t, u) /\ pc' = [pc EXCEPT ![u] = "user"]
      /\ UNCHANGED <<at, fault, page, arg>>
  BY DEF Fork, At, load, exec
<1>5. /\ task_page[u] = NULL /\ page[u] = NULL /\ arg[u] = NULL /\ fault[u] = NULL
      /\ \A a \in Addr : pte[u][a] = NULL
      /\ \A d \in Dir : dir[u][d] = NULL
  BY <1>4 DEF MemoryInv, TaskRight, Gone
<1>6. /\ pte' \in [Task -> [Addr -> Entry \cup {NULL}]]
      /\ \A v \in Task, a \in Addr : v # u => (pte'[v][a] = NULL <=> pte[v][a] = NULL)
      /\ \A v \in Task : v # u /\ v # t => pte'[v] = pte[v]
      /\ Mapped' = [x \in Place |-> IF x[1] = u THEN Mapped[<<t, x[2]>>] ELSE Mapped[x]]
      /\ WritableIsAlone'
  BY <1>4, ForkedEntries
<1>7. PICK map, h, m : map = mem_map /\ h = Held /\ m = Mapped
  OBVIOUS
<1>8. PICK map1, m1 :
        /\ map1 = [p \in Page |-> map[p] + Cardinality({a \in Addr : m[<<t, a>>] = p})]
        /\ m1 = [x \in Place |-> IF x[1] = u THEN m[<<t, x[2]>>] ELSE m[x]]
  OBVIOUS
<1>9. PagesRight(map1, h, m1) /\ \A p \in Page : map[p] = 0 => map1[p] = 0
  <2>1. PagesRight(map, h, m)
    BY <1>7 DEF MemoryInv
  <2>2. \A a \in Addr : m[<<u, a>>] = NULL
    BY <1>5, <1>7, Addresses DEF MemoryInv
  <2> QED BY <1>4, <1>8, <2>1, <2>2, CopyMappings
<1>10. PICK S : S = {r \in Slot : /\ r[1] = u /\ r[2] \in {"task", "table"}
                                  /\ r[2] = "table" => r[3] \in DirsOf(t)}
  OBVIOUS
<1>11. PICK g : g = [r \in S |-> IF r[2] = "task" THEN s ELSE q[r[3]]]
  OBVIOUS
<1>12. \A r \in Slot : /\ r = <<r[1], r[2], r[3]>> /\ r[1] \in Task
                       /\ r[2] \in {"table", "task", "page", "arg"}
                       /\ r[2] = "table" => r[3] \in Dir
                       /\ r[2] # "table" => r[3] = 0
  BY DEF Slot
<1>13. /\ S \in SUBSET Slot /\ g \in [S -> Page]
       /\ \A r \in S : h[r] = NULL /\ map1[g[r]] = 0
  <2>1. \A r \in S : g[r] \in Page /\ map[g[r]] = 0
    BY <1>3, <1>7, <1>10, <1>11
  <2>2. \A r \in S : h[r] = NULL
    BY <1>5, <1>7, <1>10, <1>12 DEF Held
  <2> QED BY <1>9, <1>10, <1>11, <2>1, <2>2
<1>14. \A r1, r2 \in S : g[r1] = g[r2] => r1 = r2
  <2> SUFFICES ASSUME NEW r1 \in S, NEW r2 \in S, g[r1] = g[r2] PROVE r1 = r2
    OBVIOUS
  <2>1. r1[2] = r2[2] /\ r1[3] = r2[3] /\ r1[1] = r2[1]
    BY <1>3, <1>10, <1>11, <1>12
  <2> QED BY <1>10, <1>12, <2>1
<1>15. PICK map2, h2 :
        /\ map2 = [p \in Page |-> IF \E r \in S : g[r] = p THEN 1 ELSE map1[p]]
        /\ h2 = [r \in Slot |-> IF r \in S THEN g[r] ELSE h[r]]
  OBVIOUS
<1>16. PagesRight(map2, h2, m1)
  BY <1>9, <1>13, <1>14, <1>15, FillSlots
<1>17. mem_map' = map2
  <2>1. ASSUME NEW p \in Page
        PROVE  (p = s \/ p \in Range(q)) <=> \E r \in S : g[r] = p
    <3>1. CASE p = s
      <4>1. <<u, "task", 0>> \in S
        BY <1>10, Slots
      <4> QED BY <1>11, <3>1, <4>1
    <3>2. ASSUME p \in Range(q) PROVE \E r \in S : g[r] = p
      <4>1. PICK d \in DirsOf(t) : p = q[d]
        BY <1>3, <3>2 DEF Range
      <4>2. PICK r : r = <<u, "table", d>>
        OBVIOUS
      <4>3. r \in S /\ r[2] = "table" /\ r[3] = d
        BY <1>3, <1>10, <4>2, Slots
      <4> QED BY <1>11, <4>1, <4>3
    <3>3. ASSUME NEW r \in S, g[r] = p PROVE p = s \/ p \in Range(q)
      <4>1. CASE r[2] = "task"
        BY <1>11, <3>3, <4>1
      <4>2. CASE r[2] # "task"
        <5>1. r[3] \in DirsOf(t) /\ p = q[r[3]]
          BY <1>10, <1>11, <3>3, <4>2
        <5> QED BY <1>3, <5>1 DEF Range
      <4> QED BY <4>1, <4>2
    <3> QED BY <3>1, <3>2, <3>3
  <2>2. \A p \in Page : Entries(t, p) = {a \in Addr : m[<<t, a>>] = p}
    BY <1>7, EntriesAndTables DEF MemoryInv
  <2>3. ASSUME NEW p \in Page PROVE mem_map'[p] = map2[p]
    <3>1. map1[p] = map[p] + Cardinality(Entries(t, p))
      BY <1>8, <2>2
    <3>2. mem_map'[p] = IF p = s \/ p \in Range(q) THEN 1 ELSE map[p] + Cardinality(Entries(t, p))
      BY <1>2, <1>7
    <3>3. map2[p] = IF \E r \in S : g[r] = p THEN 1 ELSE map1[p]
      BY <1>15
    <3> QED BY <2>1, <3>1, <3>2, <3>3
  <2>4. mem_map' = [p \in Page |-> mem_map'[p]] /\ map2 = [p \in Page |-> map2[p]]
    BY <1>2, <1>15
  <2> QED BY <2>3, <2>4
<1>18. Held' = h2
  <2>1. Types
    BY DEF MemoryInv
  <2>2. ASSUME NEW r \in Slot PROVE Held'[r] = h2[r]
    <3>1. CASE r[2] = "table"
      <4>1. Held'[r] = dir'[r[1]][r[3]] /\ Held[r] = dir[r[1]][r[3]] /\ r[3] \in Dir /\ r[1] \in Task
        BY <1>12, <3>1 DEF Held
      <4>2. Held'[r] = IF r[1] = u THEN IF r[3] \in DirsOf(t) THEN q[r[3]] ELSE NULL ELSE Held[r]
        BY <1>2, <2>1, <4>1 DEF Types
      <4>3. r[1] = u => Held[r] = NULL
        BY <1>5, <4>1
      <4>4. r \in S <=> r[1] = u /\ r[3] \in DirsOf(t)
        BY <1>10, <3>1
      <4>5. r \in S => g[r] = q[r[3]]
        BY <1>11, <3>1
      <4> QED BY <1>7, <1>15, <4>2, <4>3, <4>4, <4>5
    <3>2. CASE r[2] = "task"
      <4>1. Held'[r] = task_page'[r[1]] /\ Held[r] = task_page[r[1]] /\ r[1] \in Task
        BY <1>12, <3>2 DEF Held
      <4>2. Held'[r] = IF r[1] = u THEN s ELSE Held[r]
        BY <1>2, <2>1, <4>1 DEF Types
      <4>3. r \in S <=> r[1] = u
        BY <1>10, <3>2
      <4>4. r \in S => g[r] = s
        BY <1>11, <3>2
      <4> QED BY <1>7, <1>15, <4>2, <4>3, <4>4
    <3>3. CASE r[2] \in {"page", "arg"}
      <4>1. Held'[r] = Held[r]
        BY <1>4, <3>3 DEF Held
      <4>2. r \notin S
        BY <1>10, <3>3
      <4> QED BY <1>7, <1>15, <4>1, <4>2
    <3> QED BY <1>12, <3>1, <3>2, <3>3
  <2>3. Held' = [r \in Slot |-> Held'[r]]
    BY DEF Held
  <2> QED BY <1>15, <2>2, <2>3
<1>19. PagesRight(mem_map', Held', Mapped')
  BY <1>6, <1>7, <1>8, <1>16, <1>17, <1>18
<1>20. Types /\ Types'
  <2>1. Types /\ "user" \in Where
    BY DEF MemoryInv, Where
  <2>2. dir' \in [Task -> [Dir -> Page \cup {NULL}]]
    BY <1>2, <1>3, <2>1 DEF Types
  <2> QED BY <1>2, <1>3, <1>4, <1>6, <2>1, <2>2 DEF Types
<1>21. \A v \in Task : TaskRight(v)'
  <2> TAKE v \in Task
  <2>1. TaskRight(v) /\ s # NULL
    BY <1>3, SetsAreFinite DEF MemoryInv
  <2>2. CASE v = u
    BY <1>2, <1>4, <1>5, <1>20, <2>1, <2>2 DEF TaskRight, Types, Gone
  <2>3. CASE v = t
    BY <1>2, <1>4, <1>6, <1>20, <2>1, <2>3 DEF TaskRight, Types, Gone
  <2>4. CASE v # u /\ v # t
    BY <1>2, <1>4, <1>6, <1>20, <2>1, <2>4, SameTaskIsRight DEF SameTask, Types
  <2> QED BY <2>2, <2>3, <2>4
<1> QED BY <1>6, <1>19, <1>20, <1>21 DEF MemoryInv

\* fork() without memory: some entries of the father are read only.
LEMMA ForkFailsKeeps ==
  ASSUME MemoryInv, NEW t \in Task, NEW u \in Task, ForkFails(t, u)
  PROVE  MemoryInv'
<1>1. PICK D : pte' = [pte EXCEPT ![t] = [a \in Addr |-> IF DirOf(a) \in D THEN ReadOnly(pte[t][a])
                                                        ELSE pte[t][a]]]
  BY DEF ForkFails
<1>2. UNCHANGED <<mem_map, dir, task_page, pc, at, fault, page, arg>> /\ pc[t] = "user" /\ fault[t] = NULL
  BY DEF ForkFails, At, load, exec
<1>3. Types
  BY DEF MemoryInv
<1>4. ASSUME NEW v \in Task, NEW a \in Addr
      PROVE  /\ pte'[v][a] = pte[v][a] \/ pte'[v][a] = ReadOnly(pte[v][a])
             /\ v # t => pte'[v] = pte[v]
             /\ pte'[v][a] \in Entry \cup {NULL}
             /\ pte'[v][a] = NULL <=> pte[v][a] = NULL
             /\ pte'[v][a] # NULL => /\ pte'[v][a].page = pte[v][a].page
                                     /\ pte'[v][a].rw => pte[v][a].rw
  <2>1. pte[v][a] \in Entry \cup {NULL}
    BY <1>3 DEF Types
  <2>2. /\ pte'[v][a] = pte[v][a] \/ pte'[v][a] = ReadOnly(pte[v][a])
        /\ v # t => pte'[v] = pte[v]
    BY <1>1, <1>3 DEF Types
  <2> QED BY <2>1, <2>2, ReadOnlyEntry
<1>5. Types'
  <2>1. pte' = [v \in Task |-> pte'[v]] /\ \A v \in Task : pte'[v] = [a \in Addr |-> pte'[v][a]]
    BY <1>1, <1>3 DEF Types
  <2>2. \A v \in Task : pte'[v] \in [Addr -> Entry \cup {NULL}]
    BY <1>4, <2>1
  <2>3. pte' \in [Task -> [Addr -> Entry \cup {NULL}]]
    BY <2>1, <2>2
  <2> QED BY <1>2, <1>3, <2>3 DEF Types
<1>6. \A x \in Place : x = <<x[1], x[2]>> /\ x[1] \in Task /\ x[2] \in Addr
  BY DEF Place
<1>7. Mapped' = Mapped
  <2>1. \A x \in Place : Mapped'[x] = Mapped[x]
    BY <1>4, <1>6 DEF Mapped
  <2>2. Mapped = [x \in Place |-> Mapped[x]] /\ Mapped' = [x \in Place |-> Mapped'[x]]
    BY DEF Mapped
  <2> QED BY <2>1, <2>2
<1>8. WritableIsAlone'
  <2>1. \A x \in Place : Writable(x[1], x[2])' => Writable(x[1], x[2])
    BY <1>4, <1>6 DEF Writable, Present
  <2> QED BY <1>7, <2>1 DEF MemoryInv, WritableIsAlone
<1>9. Held' = Held
  BY <1>2 DEF Held
<1>10. PagesRight(mem_map', Held', Mapped')
  BY <1>2, <1>7, <1>9 DEF MemoryInv
<1>11. \A v \in Task : TaskRight(v)'
  <2> TAKE v \in Task
  <2>1. TaskRight(v)
    BY DEF MemoryInv
  <2>2. CASE v = t
    BY <1>2, <1>4, <2>1, <2>2 DEF TaskRight, Gone
  <2>3. CASE v # t
    BY <1>1, <1>2, <1>3, <2>1, <2>3, SameTaskIsRight DEF SameTask, Types
  <2> QED BY <2>2, <2>3
<1> QED BY <1>5, <1>8, <1>10, <1>11 DEF MemoryInv

\* A page is taken for the arguments, or given back, and the program is changed.
LEMMA ExecStepsKeep ==
  ASSUME MemoryInv, NEW t \in Task,
         ExecFails(t) \/ ExecCommit(t) \/ \E x \in Program : ExecBegin(t, x)
  PROVE  MemoryInv'
<1>1. /\ UNCHANGED <<dir, pte, task_page, at, fault, page>> /\ fault[t] = NULL
      /\ pc[t] \in {"user", "exec"}
      /\ \E w \in {"user", "exec", "close"} : pc' = [pc EXCEPT ![t] = w]
  BY DEF ExecFails, ExecCommit, ExecBegin, Goto, At, tables, load
<1>2. WritableIsAlone' /\ Mapped' = Mapped /\ Types /\ <<t, "arg", 0>> \in Slot
  BY <1>1, SameTables, Slots DEF MemoryInv
<1>3. PICK map, h, m, k : map = mem_map /\ h = Held /\ m = Mapped /\ k = <<t, "arg", 0>>
  OBVIOUS
<1>4. PagesRight(map, h, m) /\ k \in Slot /\ h[k] = arg[t]
  BY <1>2, <1>3, Slots DEF MemoryInv
<1>5. \A u \in Task : TaskRight(u)
  BY DEF MemoryInv
<1>6. ASSUME Types', UNCHANGED arg \/ \E p : arg' = [arg EXCEPT ![t] = p],
             arg'[t] # NULL <=> pc'[t] \in {"exec", "close"}
      PROVE  \A u \in Task : TaskRight(u)'
  <2> TAKE u \in Task
  <2>1. CASE u = t
    BY <1>1, <1>2, <1>5, <1>6, <2>1 DEF TaskRight, Types, Gone
  <2>2. CASE u # t
    BY <1>1, <1>2, <1>5, <1>6, <2>2, SameTaskIsRight DEF SameTask, Types
  <2> QED BY <2>1, <2>2
<1>7. CASE ExecCommit(t)
  <2>1. UNCHANGED <<mem_map, arg>> /\ pc[t] = "exec" /\ pc' = [pc EXCEPT ![t] = "close"]
    BY <1>7 DEF ExecCommit, Goto, At
  <2>2. Types'
    BY <1>1, <1>2, <2>1 DEF Types, Where, Sleep
  <2>3. Held' = Held
    BY <1>1, <2>1 DEF Held
  <2>4. arg'[t] # NULL /\ pc'[t] = "close"
    BY <1>2, <1>5, <2>1 DEF TaskRight, Types
  <2>5. \A u \in Task : TaskRight(u)'
    BY <1>6, <2>1, <2>2, <2>4
  <2>6. PagesRight(mem_map', Held', Mapped')
    BY <1>2, <2>1, <2>3 DEF MemoryInv
  <2> QED BY <1>2, <2>2, <2>5, <2>6 DEF MemoryInv
<1>8. CASE ExecFails(t)
  <2>1. /\ mem_map' = Freed(mem_map, arg[t]) /\ arg' = [arg EXCEPT ![t] = NULL]
        /\ pc[t] = "exec" /\ pc' = [pc EXCEPT ![t] = "user"]
    BY <1>8 DEF ExecFails, Goto, At
  <2>2. Types'
    BY <1>1, <1>2, <2>1 DEF Types, Where
  <2>3. Held' = [h EXCEPT ![k] = NULL]
    <3>1. UNCHANGED <<dir, task_page, page>> /\ arg' = [arg EXCEPT ![t] = NULL] /\ Types
      BY <1>1, <1>2, <2>1
    <3>2. Held' = [Held EXCEPT ![<<t, "arg", 0>>] = NULL]
      BY <3>1, HeldAfterSlot
    <3> QED BY <1>3, <3>2
  <2>4. h[k] # NULL
    BY <1>4, <1>5, <2>1 DEF TaskRight
  <2>5. PagesRight([map EXCEPT ![h[k]] = map[h[k]] - 1], [h EXCEPT ![k] = NULL], m)
    BY <1>4, <2>4, ClearSlot
  <2>6. mem_map' = [map EXCEPT ![h[k]] = map[h[k]] - 1]
    BY <1>3, <1>4, <2>1 DEF Freed
  <2>7. PagesRight(mem_map', Held', Mapped')
    BY <1>2, <1>3, <2>3, <2>5, <2>6
  <2>8. arg'[t] = NULL /\ pc'[t] = "user"
    BY <1>2, <2>1 DEF Types
  <2>9. \A u \in Task : TaskRight(u)'
    BY <1>6, <2>1, <2>2, <2>8
  <2> QED BY <1>2, <2>2, <2>7, <2>9 DEF MemoryInv
<1>9. CASE \E x \in Program : ExecBegin(t, x)
  <2>1. PICK p \in LastFree(mem_map) :
          /\ mem_map' = Taken(mem_map, p) /\ arg' = [arg EXCEPT ![t] = p]
          /\ pc[t] = "user" /\ pc' = [pc EXCEPT ![t] = "exec"]
    BY <1>9 DEF ExecBegin, Goto, At
  <2>2. p \in Page /\ map[p] = 0 /\ p # NULL
    BY <1>3, SetsAreFinite DEF LastFree, FreeIn
  <2>3. Types'
    BY <1>1, <1>2, <2>1, <2>2 DEF Types, Where, Sleep
  <2>4. Held' = [h EXCEPT ![k] = p]
    <3>1. UNCHANGED <<dir, task_page, page>> /\ arg' = [arg EXCEPT ![t] = p] /\ Types
      BY <1>1, <1>2, <2>1
    <3>2. Held' = [Held EXCEPT ![<<t, "arg", 0>>] = p]
      BY <3>1, HeldAfterSlot
    <3> QED BY <1>3, <3>2
  <2>5. h[k] = NULL
    BY <1>4, <1>5, <2>1 DEF TaskRight
  <2>6. PagesRight([map EXCEPT ![p] = 1], [h EXCEPT ![k] = p], m)
    BY <1>4, <2>2, <2>5, FillSlot
  <2>7. PagesRight(mem_map', Held', Mapped')
    BY <1>2, <1>3, <2>1, <2>4, <2>6 DEF Taken
  <2>8. arg'[t] # NULL /\ pc'[t] = "exec"
    BY <1>2, <2>1, <2>2 DEF Types
  <2>9. \A u \in Task : TaskRight(u)'
    BY <1>6, <2>1, <2>3, <2>8
  <2> QED BY <1>2, <2>3, <2>7, <2>9 DEF MemoryInv
<1> QED BY <1>7, <1>8, <1>9

\* release()
LEMMA ReleaseKeeps ==
  ASSUME MemoryInv, NEW t \in Task, Release(t)
  PROVE  MemoryInv'
<1>1. /\ pc[t] = "zombie" /\ mem_map' = Freed(mem_map, task_page[t])
      /\ task_page' = [task_page EXCEPT ![t] = NULL] /\ pc' = [pc EXCEPT ![t] = "free"]
      /\ UNCHANGED <<dir, pte, at, fault, page, arg>>
  BY DEF Release, tables, load, exec
<1>2. Types /\ Types'
  BY <1>1 DEF MemoryInv, Types, Where, Gone
<1>3. WritableIsAlone' /\ Mapped' = Mapped
  BY <1>1, SameTables DEF MemoryInv
<1>4. PICK map, h, m, k : map = mem_map /\ h = Held /\ m = Mapped /\ k = <<t, "task", 0>>
  OBVIOUS
<1>5. PagesRight(map, h, m) /\ k \in Slot /\ h[k] = task_page[t]
  BY <1>4, Slots DEF MemoryInv
<1>6. h[k] # NULL
  BY <1>1, <1>5 DEF MemoryInv, TaskRight
<1>7. Held' = [h EXCEPT ![k] = NULL]
  BY <1>1, <1>2, <1>4, HeldAfterSlot
<1>8. PagesRight([map EXCEPT ![h[k]] = map[h[k]] - 1], [h EXCEPT ![k] = NULL], m)
  BY <1>5, <1>6, ClearSlot
<1>9. mem_map' = [map EXCEPT ![h[k]] = map[h[k]] - 1]
  BY <1>1, <1>4, <1>5 DEF Freed
<1>10. PagesRight(mem_map', Held', Mapped')
  BY <1>3, <1>4, <1>7, <1>8, <1>9
<1>11. \A u \in Task : TaskRight(u)'
  <2> TAKE u \in Task
  <2>1. TaskRight(u)
    BY DEF MemoryInv
  <2>2. CASE u = t
    BY <1>1, <1>2, <2>1, <2>2 DEF TaskRight, Types, Gone
  <2>3. CASE u # t
    BY <1>1, <1>2, <2>1, <2>3, SameTaskIsRight DEF SameTask, Types
  <2> QED BY <2>2, <2>3
<1> QED BY <1>2, <1>3, <1>10, <1>11 DEF MemoryInv

\* free_page_tables(), and the page of the arguments in a new table.
LEMMA ExecReplaceKeeps ==
  ASSUME MemoryInv, NEW t \in Task, ExecReplace(t)
  PROVE  MemoryInv'
<1>1. PICK p : p = arg[t]
  OBVIOUS
<1>2. PICK q \in LastFree(ExecFrees(mem_map, t)) :
         /\ mem_map' = Taken(ExecFrees(mem_map, t), q)
         /\ dir' = [dir EXCEPT ![t] = [NoTables EXCEPT ![DirOf(Top)] = q]]
  BY DEF ExecReplace
<1>3. /\ pte' = [pte EXCEPT ![t] = ArgEntries(p)] /\ arg' = [arg EXCEPT ![t] = NULL]
      /\ pc' = [pc EXCEPT ![t] = "user"] /\ UNCHANGED <<task_page, at, fault, page>>
      /\ pc[t] = "close" /\ fault[t] = NULL
  BY <1>1 DEF ExecReplace, Goto, At, load
<1>4. Types /\ TaskRight(t)
  BY DEF MemoryInv
<1>5. p \in Page /\ p # NULL
  BY <1>1, <1>3, <1>4 DEF TaskRight, Types
<1>6. Top \in Addr /\ DirOf(Top) \in Dir
  BY MemoryAssumption DEF Top, Addr, Dir
<1>7. PICK map, h, m : map = mem_map /\ h = Held /\ m = Mapped
  OBVIOUS
<1>8. PICK map2, h2, m2 :
        /\ map2 = [r \in Page |-> map[r] - Cardinality({a \in Addr : m[<<t, a>>] = r})
                                    - Cardinality({d \in Dir : h[<<t, "table", d>>] = r})]
        /\ h2 = [s \in Slot |-> IF s[1] = t /\ s[2] = "table" THEN NULL ELSE h[s]]
        /\ m2 = [x \in Place |-> IF x[1] = t THEN NULL ELSE m[x]]
  OBVIOUS
<1>9. PagesRight(map, h, m)
  BY <1>7 DEF MemoryInv
<1>10. PagesRight(map2, h2, m2)
  BY <1>8, <1>9, FreeTables
<1>11. ExecFrees(mem_map, t) = map2
  <2>1. \A r \in Page : Entries(t, r) = {a \in Addr : m[<<t, a>>] = r}
    BY <1>4, <1>7, EntriesAndTables
  <2>2. \A r \in Page : Tables(t, r) = {d \in Dir : h[<<t, "table", d>>] = r}
    BY <1>4, <1>7, EntriesAndTables
  <2> QED BY <1>7, <1>8, <2>1, <2>2 DEF ExecFrees, WithoutTables
<1>12. PICK k, j : k = <<t, "table", DirOf(Top)>> /\ j = <<t, "arg", 0>>
  OBVIOUS
<1>13. /\ k \in Slot /\ j \in Slot /\ j # k /\ k[1] = t /\ k[2] = "table"
       /\ j[2] = "arg" /\ h[j] = p
  BY <1>1, <1>6, <1>7, <1>12, Slots
<1>14. q \in Page /\ map2[q] = 0
  BY <1>11 DEF LastFree, FreeIn
<1>15. PICK map3, h3 : map3 = [map2 EXCEPT ![q] = 1] /\ h3 = [h2 EXCEPT ![k] = q]
  OBVIOUS
<1>16. PagesRight(map3, h3, m2)
  <2>1. h2[k] = NULL
    BY <1>8, <1>13
  <2> QED BY <1>10, <1>13, <1>14, <1>15, <2>1, FillSlot
<1>17. h3[j] = p /\ map3[p] = 1
  <2>1. h3[j] = p
    BY <1>8, <1>13, <1>15
  <2> QED BY <1>5, <1>13, <1>16, <2>1 DEF PagesRight
<1>18. PICK map4, h4 : map4 = [map3 EXCEPT ![p] = map3[p] - 1] /\ h4 = [h3 EXCEPT ![j] = NULL]
  OBVIOUS
<1>19. PagesRight(map4, h4, m2) /\ map4[p] = 0
  <2>1. h3[j] # NULL
    BY <1>5, <1>17
  <2>2. /\ PagesRight([map3 EXCEPT ![h3[j]] = map3[h3[j]] - 1], [h3 EXCEPT ![j] = NULL], m2)
        /\ [map3 EXCEPT ![h3[j]] = map3[h3[j]] - 1][h3[j]] = 0
    BY <1>13, <1>16, <2>1, ClearSlot
  <2> QED BY <1>17, <1>18, <2>2
<1>20. PICK x : x = <<t, Top>>
  OBVIOUS
<1>21. x \in Place /\ m2[x] = NULL /\ x[1] = t /\ x[2] = Top
  BY <1>6, <1>8, <1>20 DEF Place
<1>22. PagesRight(map3, h4, [m2 EXCEPT ![x] = p])
  <2>1. \A s \in Slot : h4[s] # p
    BY <1>5, <1>19, FreeIsNowhere
  <2>2. PagesRight([map4 EXCEPT ![p] = map4[p] + 1], h4, [m2 EXCEPT ![x] = p])
    BY <1>5, <1>19, <1>21, <2>1, MapPage
  <2>3. [map4 EXCEPT ![p] = map4[p] + 1] = map3
    <3>1. map4[p] + 1 = 1 /\ map3 \in [Page -> Nat]
      BY <1>16, <1>19 DEF PagesRight
    <3> QED BY <1>5, <1>17, <1>18, <3>1
  <2> QED BY <2>2, <2>3
<1>23. mem_map' = map3
  BY <1>2, <1>11, <1>15 DEF Taken
<1>24. Held' = h4
  <2>1. \A s \in Slot : /\ s = <<s[1], s[2], s[3]>> /\ s[1] \in Task
                        /\ s[2] \in {"table", "task", "page", "arg"}
                        /\ s[2] = "table" => s[3] \in Dir
                        /\ s[2] # "table" => s[3] = 0
    BY DEF Slot
  <2>2. ASSUME NEW s \in Slot PROVE Held'[s] = h4[s]
    <3>1. h4[s] = IF s = j THEN NULL ELSE IF s = k THEN q
                  ELSE IF s[1] = t /\ s[2] = "table" THEN NULL ELSE Held[s]
      BY <1>7, <1>8, <1>15, <1>18
    <3>2. CASE s[2] = "table"
      <4>1. Held'[s] = dir'[s[1]][s[3]] /\ Held[s] = dir[s[1]][s[3]] /\ s[3] \in Dir /\ s[1] \in Task
        BY <2>1, <3>2 DEF Held
      <4>2. Held'[s] = IF s[1] = t THEN IF s[3] = DirOf(Top) THEN q ELSE NULL ELSE Held[s]
        BY <1>2, <1>4, <4>1 DEF Types, NoTables
      <4>3. s = k <=> s[1] = t /\ s[3] = DirOf(Top)
        BY <1>12, <2>1, <3>2
      <4>4. s # j
        BY <1>13, <3>2
      <4> QED BY <3>1, <3>2, <4>2, <4>3, <4>4
    <3>3. CASE s[2] = "arg"
      <4>1. Held'[s] = arg'[s[1]] /\ Held[s] = arg[s[1]] /\ s[1] \in Task
        BY <2>1, <3>3 DEF Held
      <4>2. s = j <=> s[1] = t
        BY <1>12, <2>1, <3>3
      <4>3. s # k
        BY <1>13, <3>3
      <4>4. Held'[s] = IF s[1] = t THEN NULL ELSE Held[s]
        BY <1>3, <1>4, <4>1 DEF Types
      <4> QED BY <3>1, <3>3, <4>2, <4>3, <4>4
    <3>4. CASE s[2] \in {"task", "page"}
      <4>1. Held'[s] = Held[s]
        BY <1>3, <3>4 DEF Held
      <4>2. s # k /\ s # j
        BY <1>13, <3>4
      <4> QED BY <3>1, <3>4, <4>1, <4>2
    <3> QED BY <2>1, <3>2, <3>3, <3>4
  <2>3. Held' = [s \in Slot |-> Held'[s]]
    BY DEF Held
  <2>4. h4 = [s \in Slot |-> h4[s]]
    BY <1>8, <1>15, <1>18
  <2> QED BY <2>2, <2>3, <2>4
<1>25. PICK e : e = [page |-> p, rw |-> TRUE, dirty |-> TRUE]
  OBVIOUS
<1>26. e \in Entry /\ e.page = p /\ e # NULL
  <2>1. e \in Entry /\ e.page = p
    BY <1>5, <1>25 DEF Entry
  <2>2. NULL \notin Entry
    BY MemoryAssumption
  <2> QED BY <2>1, <2>2
<1>27. PICK row : row = ArgEntries(p)
  OBVIOUS
<1>28. /\ row \in [Addr -> Entry \cup {NULL}]
       /\ \A a \in Addr : row[a] = IF a = Top THEN e ELSE NULL
  BY <1>25, <1>26, <1>27 DEF ArgEntries, NoEntries
<1>29. \A v \in Task : pte'[v] = IF v = t THEN row ELSE pte[v]
  BY <1>3, <1>4, <1>27 DEF Types
<1>30. \A y \in Place : y = <<y[1], y[2]>> /\ y[1] \in Task /\ y[2] \in Addr
  BY DEF Place
<1>31. ASSUME NEW y \in Place
       PROVE  /\ Mapped'[y] = IF y = x THEN p ELSE IF y[1] = t THEN NULL ELSE Mapped[y]
              /\ y # x => (Writable(y[1], y[2])' => Writable(y[1], y[2]) /\ y[1] # t)
  <2>1. CASE y[1] = t
    <3>1. pte'[y[1]][y[2]] = IF y = x THEN e ELSE NULL
      BY <1>20, <1>28, <1>29, <1>30, <2>1
    <3> QED BY <1>26, <2>1, <3>1 DEF Mapped, Writable, Present
  <2>2. CASE y[1] # t
    <3>1. pte'[y[1]] = pte[y[1]] /\ y # x
      BY <1>21, <1>29, <1>30, <2>2
    <3> QED BY <2>2, <3>1 DEF Mapped, Writable, Present
  <2> QED BY <2>1, <2>2
<1>32. Mapped' = [m2 EXCEPT ![x] = p]
  <2>1. Mapped' = [y \in Place |-> Mapped'[y]]
    BY DEF Mapped
  <2> QED BY <1>7, <1>8, <1>31, <2>1
<1>33. PagesRight(mem_map', Held', Mapped')
  BY <1>22, <1>23, <1>24, <1>32
<1>34. WritableIsAlone'
  <2>1. PlacesOf(Mapped, p) = {}
    <3>1. PlacesOf(m, p) = {}
      BY <1>5, <1>9, <1>13 DEF PagesRight
    <3> QED BY <1>7, <3>1
  <2>2. Mapped'[x] = p
    BY <1>21, <1>31
  <2>3. \A y \in Place : Writable(y[1], y[2]) => Mapped[y] # NULL
    BY <1>4, <1>30, Addresses DEF Writable, Present
  <2>4. \A y \in Place : y # x =>
             /\ Mapped'[y] = Mapped[y] \/ Mapped'[y] = NULL
             /\ Writable(y[1], y[2])' => Writable(y[1], y[2]) /\ Mapped'[y] # NULL
    BY <1>31, <2>3
  <2> QED BY <1>4, <1>5, <1>21, <2>1, <2>2, <2>4, AloneIfNew DEF MemoryInv
<1>35. Types'
  <2>1. pte' \in [Task -> [Addr -> Entry \cup {NULL}]]
    BY <1>3, <1>4, <1>27, <1>28 DEF Types
  <2>2. dir' \in [Task -> [Dir -> Page \cup {NULL}]]
    BY <1>2, <1>4, <1>14 DEF Types, NoTables
  <2>3. "user" \in Where
    BY DEF Where
  <2> QED BY <1>3, <1>4, <2>1, <2>2, <2>3 DEF Types
<1>36. \A v \in Task : TaskRight(v)'
  <2> TAKE v \in Task
  <2>1. TaskRight(v)
    BY DEF MemoryInv
  <2>2. CASE v = t
    BY <1>3, <1>4, <1>35, <2>1, <2>2 DEF TaskRight, Types, Gone
  <2>3. CASE v # t
    BY <1>2, <1>3, <1>4, <2>1, <2>3, SameTaskIsRight DEF SameTask, Types
  <2> QED BY <2>2, <2>3
<1> QED BY <1>33, <1>34, <1>35, <1>36 DEF MemoryInv

-----------------------------------------------------------------------------
(***************************************************************************)
(* The invariant of every execution.                                       *)
(***************************************************************************)
\* All pages are free: from here the first task is given its three pages.
LEMMA AllIsFree ==
  ASSUME NEW map, NEW h, NEW m,
         map = [p \in Page |-> 0], h = [s \in Slot |-> NULL], m = [x \in Place |-> NULL]
  PROVE  PagesRight(map, h, m)
<1>1. \A p \in Page : PlacesOf(m, p) = {}
  BY SetsAreFinite DEF PlacesOf
<1>2. \A p \in Page : map[p] = Cardinality(PlacesOf(m, p))
  BY <1>1, FS_EmptySet
<1> QED BY <1>2 DEF PagesRight

\* The three pages of the first task.
LEMMA MemoryInvAtFirst ==
  ASSUME Init
  PROVE  MemoryInv
<1>1. PICK s, q, p : s = NR_PAGES /\ q = NR_PAGES - 1 /\ p = NR_PAGES - 2
  OBVIOUS
<1>2. /\ s \in Page /\ q \in Page /\ p \in Page /\ s # q /\ s # p /\ q # p
      /\ s # NULL /\ q # NULL /\ p # NULL
  <2>1. NR_PAGES \in Nat /\ NR_PAGES >= 3
    BY MemoryAssumption
  <2>2. s \in Page /\ q \in Page /\ p \in Page /\ s # q /\ s # p /\ q # p
    BY <1>1, <2>1 DEF Page
  <2> QED BY <2>2, SetsAreFinite
<1>3. PICK t \in Task :
        /\ mem_map = [r \in Page |-> IF r \in {s, q, p} THEN 1 ELSE 0]
        /\ dir = [u \in Task |->
                     IF u = t THEN [NoTables EXCEPT ![DirOf(Top)] = q] ELSE NoTables]
        /\ pte = [u \in Task |-> IF u = t THEN ArgEntries(p) ELSE NoEntries]
        /\ task_page = [u \in Task |-> IF u = t THEN s ELSE NULL]
        /\ pc = [u \in Task |-> IF u = t THEN "user" ELSE "free"]
        /\ at = [u \in Task |-> NULL] /\ fault = [u \in Task |-> NULL]
        /\ page = [u \in Task |-> NULL] /\ arg = [u \in Task |-> NULL]
  BY <1>1 DEF Init
<1>4. Top \in Addr /\ DirOf(Top) \in Dir
  BY MemoryAssumption DEF Top, Addr, Dir
<1>5. PICK e, row : e = [page |-> p, rw |-> TRUE, dirty |-> TRUE] /\ row = ArgEntries(p)
  OBVIOUS
<1>6. e \in Entry /\ e.page = p /\ e # NULL
  <2>1. e \in Entry /\ e.page = p
    BY <1>2, <1>5 DEF Entry
  <2>2. NULL \notin Entry
    BY MemoryAssumption
  <2> QED BY <2>1, <2>2
<1>7. /\ row \in [Addr -> Entry \cup {NULL}]
      /\ \A a \in Addr : row[a] = IF a = Top THEN e ELSE NULL
  BY <1>5, <1>6 DEF ArgEntries, NoEntries
<1>8. \A u \in Task : pte[u] = IF u = t THEN row ELSE NoEntries
  BY <1>3, <1>5
<1>9. Types
  <2>1. NoEntries \in [Addr -> Entry \cup {NULL}]
    BY DEF NoEntries
  <2>2. pte \in [Task -> [Addr -> Entry \cup {NULL}]]
    BY <1>3, <1>5, <1>7, <2>1
  <2>3. dir \in [Task -> [Dir -> Page \cup {NULL}]]
    BY <1>2, <1>3 DEF NoTables
  <2>4. "user" \in Where /\ "free" \in Where
    BY DEF Where, Gone
  <2> QED BY <1>2, <1>3, <2>2, <2>3, <2>4 DEF Types
<1>10. PICK k, j, x : k = <<t, "task", 0>> /\ j = <<t, "table", DirOf(Top)>> /\ x = <<t, Top>>
  OBVIOUS
<1>11. /\ k \in Slot /\ j \in Slot /\ j # k /\ x \in Place
       /\ k[1] = t /\ k[2] = "task" /\ j[1] = t /\ j[2] = "table" /\ j[3] = DirOf(Top)
  BY <1>4, <1>10, Slots DEF Place
<1>12. PICK map0, h0, m0 :
         map0 = [r \in Page |-> 0] /\ h0 = [c \in Slot |-> NULL] /\ m0 = [y \in Place |-> NULL]
  OBVIOUS
<1>13. PICK map1, h1 : map1 = [map0 EXCEPT ![s] = 1] /\ h1 = [h0 EXCEPT ![k] = s]
  OBVIOUS
<1>14. PagesRight(map1, h1, m0)
  <2>1. PagesRight(map0, h0, m0)
    BY <1>12, AllIsFree
  <2>2. h0[k] = NULL /\ map0[s] = 0
    BY <1>2, <1>11, <1>12
  <2> QED BY <1>2, <1>11, <1>13, <2>1, <2>2, FillSlot
<1>15. PICK map2, h2 : map2 = [map1 EXCEPT ![q] = 1] /\ h2 = [h1 EXCEPT ![j] = q]
  OBVIOUS
<1>16. PagesRight(map2, h2, m0)
  <2>1. h1[j] = NULL /\ map1[q] = 0
    BY <1>2, <1>11, <1>12, <1>13
  <2> QED BY <1>2, <1>11, <1>14, <1>15, <2>1, FillSlot
<1>17. PICK map3, m3 : map3 = [map2 EXCEPT ![p] = map2[p] + 1] /\ m3 = [m0 EXCEPT ![x] = p]
  OBVIOUS
<1>18. map2[p] = 0
  BY <1>2, <1>12, <1>13, <1>15
<1>19. PagesRight(map3, h2, m3)
  <2>1. \A c \in Slot : h2[c] # p
    BY <1>2, <1>16, <1>18, FreeIsNowhere
  <2>2. m0[x] = NULL
    BY <1>11, <1>12
  <2> QED BY <1>2, <1>11, <1>16, <1>17, <2>1, <2>2, MapPage
<1>20. mem_map = map3
  <2>1. map3 = [map2 EXCEPT ![p] = 1]
    BY <1>17, <1>18
  <2> QED BY <1>2, <1>3, <1>12, <1>13, <1>15, <2>1
<1>21. Held = h2
  <2>1. \A c \in Slot : /\ c = <<c[1], c[2], c[3]>> /\ c[1] \in Task
                        /\ c[2] \in {"table", "task", "page", "arg"}
                        /\ c[2] = "table" => c[3] \in Dir
                        /\ c[2] # "table" => c[3] = 0
    BY DEF Slot
  <2>2. ASSUME NEW c \in Slot PROVE Held[c] = h2[c]
    <3>1. h2[c] = IF c = j THEN q ELSE IF c = k THEN s ELSE NULL
      BY <1>11, <1>12, <1>13, <1>15
    <3>2. CASE c[2] = "table"
      <4>1. Held[c] = dir[c[1]][c[3]] /\ c[3] \in Dir /\ c[1] \in Task
        BY <2>1, <3>2 DEF Held
      <4>2. Held[c] = IF c[1] = t /\ c[3] = DirOf(Top) THEN q ELSE NULL
        BY <1>3, <4>1 DEF NoTables
      <4>3. c = j <=> c[1] = t /\ c[3] = DirOf(Top)
        BY <1>10, <2>1, <3>2
      <4>4. c # k
        BY <1>11, <3>2
      <4> QED BY <3>1, <4>2, <4>3, <4>4
    <3>3. CASE c[2] = "task"
      <4>1. Held[c] = task_page[c[1]] /\ c[1] \in Task
        BY <2>1, <3>3 DEF Held
      <4>2. c = k <=> c[1] = t
        BY <1>10, <2>1, <3>3
      <4>3. c # j
        BY <1>11, <3>3
      <4> QED BY <1>3, <3>1, <4>1, <4>2, <4>3
    <3>4. CASE c[2] \in {"page", "arg"}
      <4>1. Held[c] = NULL
        BY <1>3, <2>1, <3>4 DEF Held
      <4>2. c # k /\ c # j
        BY <1>11, <3>4
      <4> QED BY <3>1, <4>1, <4>2
    <3> QED BY <2>1, <3>2, <3>3, <3>4
  <2>3. Held = [c \in Slot |-> Held[c]]
    BY DEF Held
  <2>4. h2 = [c \in Slot |-> h2[c]]
    BY <1>12, <1>13, <1>15
  <2> QED BY <2>2, <2>3, <2>4
<1>22. \A y \in Place : Mapped[y] = IF y = x THEN p ELSE NULL
  <2> TAKE y \in Place
  <2>1. y = <<y[1], y[2]>> /\ y[1] \in Task /\ y[2] \in Addr
    BY DEF Place
  <2>2. pte[y[1]][y[2]] = IF y = x THEN e ELSE NULL
    BY <1>7, <1>8, <1>10, <2>1 DEF NoEntries
  <2> QED BY <1>6, <2>2 DEF Mapped
<1>23. Mapped = m3
  <2>1. Mapped = [y \in Place |-> Mapped[y]]
    BY DEF Mapped
  <2> QED BY <1>12, <1>17, <1>22, <2>1
<1>24. WritableIsAlone
  <2>1. \A y \in Place : Writable(y[1], y[2]) => Mapped[y] # NULL
    <3> TAKE y \in Place
    <3>1. y = <<y[1], y[2]>> /\ y[1] \in Task /\ y[2] \in Addr
      BY DEF Place
    <3> QED BY <1>9, <3>1, Addresses DEF Writable, Present
  <2> QED BY <1>22, <2>1 DEF WritableIsAlone
<1>25. ASSUME NEW u \in Task PROVE TaskRight(u)
  BY <1>2, <1>3, <1>8 DEF TaskRight, Gone, NoTables, NoEntries
<1>26. PagesRight(mem_map, Held, Mapped)
  BY <1>19, <1>20, <1>21, <1>23
<1> QED BY <1>9, <1>24, <1>25, <1>26 DEF MemoryInv

\* A state in which nothing that counts has changed.
LEMMA MemoryInvStutters ==
  ASSUME MemoryInv, UNCHANGED vars
  PROVE  MemoryInv'
<1>1. UNCHANGED <<mem_map, dir, pte, task_page, pc, at, fault, page, arg>>
  BY DEF vars, tables, load, exec
<1>2. Held' = Held /\ Mapped' = Mapped
  BY <1>1 DEF Held, Mapped
<1>3. WritableIsAlone'
  BY <1>1, SameTables DEF MemoryInv
<1>4. \A t \in Task : TaskRight(t)'
  BY <1>1, SameTaskIsRight DEF SameTask, MemoryInv
<1>5. Types' /\ PagesRight(mem_map', Held', Mapped')
  BY <1>1, <1>2 DEF MemoryInv, Types
<1> QED BY <1>3, <1>4, <1>5 DEF MemoryInv

\* Every step keeps the invariant.
LEMMA MemoryInvKept ==
  ASSUME MemoryInv, "oom" \notin Windows, [Next]_vars
  PROVE  MemoryInv'
<1>1. CASE UNCHANGED vars
  BY <1>1, MemoryInvStutters
<1>2. CASE Next
  <2>1. PICK t \in Task : UserStep(t) \/ LifeStep(t)
    BY <1>2 DEF Next
  <2>2. CASE UserStep(t)
    <3>1. CASE \E a \in Addr : TouchFault(t, a)
      <4>1. PICK a \in Addr : TouchFault(t, a)
        BY <3>1
      <4>2. pc[t] = "user" /\ fault[t] = NULL /\ NoPage(t, a)
        BY <4>1 DEF TouchFault, At
      <4> QED BY <4>2, NoPageKeeps
    <3>2. CASE LoadDone(t)
      BY <3>2, LoadDoneKeeps
    <3>3. CASE \/ \E a \in Addr : UserWrite(t, a) \/ WriteFault(t, a) \/ VerifyArea(t, a)
               \/ Retry(t)
               \/ KernelWrite(t)
               \/ NothingToWrite(t)
      BY <3>3, WritesKeep
    <3> QED BY <2>2, <3>1, <3>2, <3>3 DEF UserStep
  <2>3. CASE LifeStep(t)
    <3>1. CASE \E u \in Task : Fork(t, u)
      BY <3>1, ForkKeeps
    <3>2. CASE \E u \in Task : ForkFails(t, u)
      BY <3>2, ForkFailsKeeps
    <3>3. CASE ExecFails(t) \/ ExecCommit(t) \/ \E x \in Program : ExecBegin(t, x)
      BY <3>3, ExecStepsKeep
    <3>4. CASE \E a \in Addr : ExecFault(t, a)
      <4>1. PICK a \in Addr : ExecFault(t, a)
        BY <3>4
      <4>2. pc[t] = "exec" /\ fault[t] = NULL /\ NoPage(t, a)
        BY <4>1 DEF ExecFault, At
      <4> QED BY <4>2, NoPageKeeps
    <3>5. CASE ExecReplace(t)
      BY <3>5, ExecReplaceKeeps
    <3>6. CASE Exit(t)
      <4>1. pc[t] = "user" /\ fault[t] = NULL /\ Die(t, mem_map)
        BY <3>6 DEF Exit, At
      <4>2. pc[t] \notin Gone
        BY <4>1 DEF Gone
      <4> QED BY <4>1, <4>2, DieAtOnceKeeps
    <3>7. CASE Release(t)
      BY <3>7, ReleaseKeeps
    <3> QED BY <2>3, <3>1, <3>2, <3>3, <3>4, <3>5, <3>6, <3>7 DEF LifeStep
  <2> QED BY <2>1, <2>2, <2>3
<1> QED BY <1>1, <1>2

\* Every page is in one slot of the kernel, or at as many addresses as it
\* counts, and what a program can write is at one address only.
THEOREM MemoryInvHolds ==
  ASSUME "oom" \notin Windows
  PROVE  Spec => []MemoryInv
<1>1. Init => MemoryInv
  BY MemoryInvAtFirst
<1>2. MemoryInv /\ [Next]_vars => MemoryInv'
  BY MemoryInvKept
<1> QED BY <1>1, <1>2, PTL DEF Spec

-----------------------------------------------------------------------------
\* The uses of a page, in terms of places.
LEMMA UsesArePlaces ==
  ASSUME Types, NEW p \in Page
  PROVE  /\ Mappings(p) = PlacesOf(Mapped, p)
         /\ TableUses(p) = {u \in Task \X Dir : Held[<<u[1], "table", u[2]>>] = p}
         /\ KernelUses(p) = {t \in Task : \E k \in {"task", "page", "arg"} :
                                               Held[<<t, k, 0>>] = p}
<1>1. Mappings(p) = PlacesOf(Mapped, p)
  <2>1. ASSUME NEW x \in Place
        PROVE  (pte[x[1]][x[2]] # NULL /\ pte[x[1]][x[2]].page = p) <=> Mapped[x] = p
    <3>1. x = <<x[1], x[2]>> /\ x[1] \in Task /\ x[2] \in Addr
      BY DEF Place
    <3> QED BY <3>1, Addresses, SetsAreFinite
  <2> QED BY <2>1 DEF Mappings, PlacesOf, Place
<1>2. TableUses(p) = {u \in Task \X Dir : Held[<<u[1], "table", u[2]>>] = p}
  BY Slots DEF TableUses
<1>3. \A t \in Task : p \in {task_page[t], page[t], arg[t]}
                        <=> \E k \in {"task", "page", "arg"} : Held[<<t, k, 0>>] = p
  BY Slots
<1> QED BY <1>1, <1>2, <1>3 DEF KernelUses

\* The count of a page, from the places it is in.
LEMMA RightPagesAreCounted ==
  ASSUME MemoryInv, NEW p \in Page
  PROVE  mem_map[p] = Cardinality(Mappings(p)) + Cardinality(TableUses(p))
                        + Cardinality(KernelUses(p))
<1>1. PICK map, h, m : map = mem_map /\ h = Held /\ m = Mapped
  OBVIOUS
<1>2. PagesRight(map, h, m) /\ Types
  BY <1>1 DEF MemoryInv
<1>3. PICK P, T, K :
        /\ P = PlacesOf(m, p)
        /\ T = {u \in Task \X Dir : h[<<u[1], "table", u[2]>>] = p}
        /\ K = {t \in Task : \E k \in {"task", "page", "arg"} : h[<<t, k, 0>>] = p}
  OBVIOUS
<1>4. Mappings(p) = P /\ TableUses(p) = T /\ KernelUses(p) = K
  BY <1>1, <1>2, <1>3, UsesArePlaces
<1>5. /\ \A u \in Task \X Dir : u = <<u[1], u[2]>> /\ <<u[1], "table", u[2]>> \in Slot
      /\ \A t \in Task, k \in {"task", "page", "arg"} : <<t, k, 0>> \in Slot
      /\ \A s \in Slot : /\ s = <<s[1], s[2], s[3]>> /\ s[1] \in Task
                         /\ s[2] \in {"table", "task", "page", "arg"}
                         /\ s[2] = "table" => s[3] \in Dir
                         /\ s[2] # "table" => s[3] = 0
  BY DEF Slot
<1>6. CASE \A s \in Slot : h[s] # p
  <2>1. T = {} /\ K = {}
    BY <1>3, <1>5, <1>6
  <2>2. map[p] = Cardinality(P) /\ Cardinality(P) \in Nat
    BY <1>2, <1>3, <1>6, PlacesAreFinite DEF PagesRight
  <2> QED BY <1>1, <1>4, <2>1, <2>2, FS_EmptySet
<1>7. CASE \E s \in Slot : h[s] = p
  <2>1. PICK s \in Slot : h[s] = p
    BY <1>7
  <2>2. p # NULL
    BY SetsAreFinite
  <2>3. map[p] = 1 /\ P = {} /\ \A r \in Slot : h[r] = p => r = s
    BY <1>2, <1>3, <2>1, <2>2 DEF PagesRight
  <2>4. CASE s[2] = "table"
    <3>1. K = {}
      <4>1. \A t \in Task, k \in {"task", "page", "arg"} : <<t, k, 0>> # s
        BY <2>4
      <4> QED BY <1>3, <1>5, <2>3, <4>1
    <3>2. T = {<<s[1], s[3]>>}
      <4>1. <<s[1], s[3]>> \in T
        BY <1>3, <1>5, <2>1, <2>4
      <4>2. ASSUME NEW u \in T PROVE u = <<s[1], s[3]>>
        <5>1. u \in Task \X Dir /\ <<u[1], "table", u[2]>> = s
          BY <1>3, <1>5, <2>3
        <5> QED BY <1>5, <5>1
      <4> QED BY <4>1, <4>2
    <3>3. Cardinality(T) = 1
      BY <3>2, FS_Singleton
    <3> QED BY <1>1, <1>4, <2>3, <3>1, <3>3, FS_EmptySet
  <2>5. CASE s[2] # "table"
    <3>1. T = {}
      <4>1. \A u \in Task \X Dir : <<u[1], "table", u[2]>> # s
        BY <2>5
      <4> QED BY <1>3, <1>5, <2>3, <4>1
    <3>2. K = {s[1]}
      <4>1. s[1] \in K
        BY <1>3, <1>5, <2>1, <2>5
      <4>2. ASSUME NEW t \in K PROVE t = s[1]
        <5>1. PICK k \in {"task", "page", "arg"} : h[<<t, k, 0>>] = p
          BY <1>3
        <5>2. <<t, k, 0>> = s
          BY <1>3, <1>5, <2>3, <5>1
        <5> QED BY <5>2
      <4> QED BY <4>1, <4>2
    <3>3. Cardinality(K) = 1
      BY <3>2, FS_Singleton
    <3> QED BY <1>1, <1>4, <2>3, <3>1, <3>3, FS_EmptySet
  <2> QED BY <2>4, <2>5
<1> QED BY <1>6, <1>7

\* mem_map[p] is the number of uses of page p, whatever the tasks do: no page
\* leaks, and free_page() never finds a free page.
THEOREM PagesAreCounted ==
  ASSUME "oom" \notin Windows
  PROVE  Spec => []CountsAreUses
<1>1. MemoryInv => CountsAreUses
  BY RightPagesAreCounted DEF CountsAreUses
<1> QED BY <1>1, MemoryInvHolds, PTL

\* A page that a program can write is mapped once: no write of one task is
\* seen by another, after any fork, fault, execve or exit.
THEOREM WritablePagesArePrivate ==
  ASSUME "oom" \notin Windows
  PROVE  Spec => []WritableIsPrivate
<1>1. MemoryInv => WritableIsPrivate
  <2> SUFFICES ASSUME MemoryInv, NEW t \in Task, NEW a \in Addr, Writable(t, a)
               PROVE  Cardinality(Mappings(pte[t][a].page)) = 1
    BY DEF WritableIsPrivate
  <2>1. PICK x, p : x = <<t, a>> /\ p = pte[t][a].page
    OBVIOUS
  <2>2. Types /\ x \in Place /\ p \in Page /\ Mapped[x] = p /\ x[1] = t /\ x[2] = a
    BY <2>1, Addresses DEF MemoryInv, Writable, Present
  <2>3. Mappings(p) = PlacesOf(Mapped, p)
    BY <2>2, UsesArePlaces
  <2>4. PlacesOf(Mapped, p) = {x}
    BY <2>2 DEF MemoryInv, WritableIsAlone, PlacesOf
  <2> QED BY <2>1, <2>3, <2>4, FS_Singleton
<1> QED BY <1>1, MemoryInvHolds, PTL

-----------------------------------------------------------------------------
(***************************************************************************)
(* What is in the pages, if a task keeps the kernel from the moment it is  *)
(* given a page to write to until it has written, and from the point of no *)
(* return of execve() until its old memory is freed; and if a call that    *)
(* has been given a copy of a changed page of the program writes to it.    *)
(***************************************************************************)
\* The write that a task has prepared, and will do before any other runs.
Writing(t, a) == pc[t] \in {"retry", "write"} /\ at[t] = a

\* A page of the program that has not been written to is as in the file, but
\* for the one about to be written and those execve() is about to free.
CleanIsFile(t) ==
    \A a \in Addr :
        /\ a < EndData /\ Present(t, a) /\ ~pte[t][a].dirty
        /\ pc[t] # "close" /\ ~Writing(t, a)
        => data[pte[t][a].page] = executable[t]

Busy == {"retry", "write", "close"}

ContentRight(t) ==
    /\ pc[t] \notin Gone => executable[t] \in Program
    /\ arg[t] # NULL => data[arg[t]] = "args"
    /\ task_page[t] # NULL => data[task_page[t]] = "zero"
    /\ pc[t] = "exec" => next[t] \in Program
    /\ fault[t] # NULL => fault[t] < EndData
    /\ pc[t] \in Busy => running = t /\ fault[t] = NULL
    /\ pc[t] \in {"retry", "write"} /\ Present(t, at[t]) => Writable(t, at[t])
    /\ pc[t] = "write" => Present(t, at[t]) \/ at[t] >= EndData
    /\ CleanIsFile(t)

ContentInv ==
    /\ data \in [Page -> Contents]
    /\ executable \in [Task -> Program \cup {NULL}]
    /\ next \in [Task -> Program \cup {NULL}]
    /\ \A p \in Page : mem_map[p] = 0 => data[p] = "zero"
    /\ \A t \in Task : ContentRight(t)

\* What task t finds in a page, if it is not in the kernel to be replaced.
Content(t, a) == IF Present(t, a) THEN data[pte[t][a].page]
                 ELSE Untouched(executable[t], a)

\* The pages whose contents count for task t.
Uses(t, p) ==
    \/ p = arg[t] \/ p = task_page[t]
    \/ \E a \in Addr : Present(t, a) /\ pte[t][a].page = p

Same(t) ==
    UNCHANGED <<pc[t], executable[t], pte[t], arg[t], task_page[t], next[t],
                fault[t], at[t]>>

\* No page that is used counts as free, in a state and in the next one.
LEMMA UsedPagesCount ==
  MemoryInv => \A t \in Task, p \in Page : Uses(t, p) => mem_map[p] # 0
<1> SUFFICES ASSUME MemoryInv, NEW t \in Task, NEW p \in Page, mem_map[p] = 0
             PROVE  ~Uses(t, p)
  OBVIOUS
<1>1. PICK map, h, m : map = mem_map /\ h = Held /\ m = Mapped
  OBVIOUS
<1>2. (\A s \in Slot : h[s] # p) /\ PlacesOf(m, p) = {}
  BY <1>1, FreeIsNowhere DEF MemoryInv
<1>3. arg[t] # p /\ task_page[t] # p
  BY <1>1, <1>2, Slots
<1>4. ASSUME NEW a \in Addr, Present(t, a), pte[t][a].page = p PROVE FALSE
  <2>1. <<t, a>> \in Place /\ Mapped[<<t, a>>] = p
    BY <1>4, Addresses DEF Present, MemoryInv
  <2> QED BY <1>1, <1>2, <2>1 DEF PlacesOf
<1> QED BY <1>3, <1>4 DEF Uses

LEMMA UsedPagesCountThen ==
  (MemoryInv => \A t \in Task, p \in Page : Uses(t, p) => mem_map[p] # 0)'
  BY UsedPagesCount, PTL

\* The memory that task t sees is what is in its pages.
LEMMA SeenIsContent ==
  \A t \in Task :
     /\ pc[t] \in Gone => Seen(t) = NULL
     /\ pc[t] \notin Gone \cup {"close"} => Seen(t) = [a \in Addr |-> Content(t, a)]
  BY DEF Seen, Content

\* The processor, if it is t's or no task's, is not another task's.
LEMMA OthersAreNotBusy ==
  ASSUME ContentInv, NEW t \in Task, running \in {NULL, t}, NEW u \in Task, u # t
  PROVE  pc[u] \notin Busy
<1>1. u # NULL
  BY MemoryAssumption
<1> QED BY <1>1 DEF ContentInv, ContentRight

\* A task sees the same memory if a step changes no more of it than what may
\* be written to.
LEMMA ReadOnlySees ==
  ASSUME Types, NEW t \in Task, ContentRight(t), pc[t] \notin Busy,
         UNCHANGED <<pc[t], executable[t], arg[t], task_page[t], next[t], fault[t], at[t]>>,
         \A a \in Addr : Present(t, a)' = Present(t, a),
         \A a \in Addr : Present(t, a) => /\ pte'[t][a].page = pte[t][a].page
                                          /\ pte'[t][a].dirty = pte[t][a].dirty,
         \A p \in Page : Uses(t, p) => data'[p] = data[p]
  PROVE  ContentRight(t)' /\ Seen(t)' = Seen(t)
<1>1. \A a \in Addr : Present(t, a) => data'[pte[t][a].page] = data[pte[t][a].page]
  <2> SUFFICES ASSUME NEW a \in Addr, Present(t, a)
               PROVE  data'[pte[t][a].page] = data[pte[t][a].page]
    OBVIOUS
  <2>1. pte[t][a].page \in Page
    BY Addresses DEF Present
  <2> QED BY <2>1 DEF Uses
<1>2. /\ arg[t] # NULL => data'[arg[t]] = data[arg[t]]
      /\ task_page[t] # NULL => data'[task_page[t]] = data[task_page[t]]
  BY DEF Types, Uses
<1>3. CleanIsFile(t)'
  BY <1>1 DEF CleanIsFile, ContentRight, Writing, Busy
<1>4. ContentRight(t)'
  BY <1>2, <1>3 DEF ContentRight, Busy
<1>5. Seen(t)' = Seen(t)
  <2>1. Seen(t) = IF pc[t] \in Gone THEN NULL ELSE [a \in Addr |-> Content(t, a)]
    BY DEF Seen, Busy, Content
  <2>2. Seen(t)' = IF pc[t] \in Gone THEN NULL ELSE [a \in Addr |-> Content(t, a)']
    BY DEF Seen, Busy, Content
  <2>3. \A a \in Addr : Content(t, a)' = Content(t, a)
    BY <1>1 DEF Content
  <2> QED BY <2>1, <2>2, <2>3
<1> QED BY <1>4, <1>5

\* So does a task that a step leaves alone.
LEMMA SameTaskSees ==
  ASSUME Types, NEW t \in Task, ContentRight(t), Same(t), pc[t] \notin Busy,
         \A p \in Page : Uses(t, p) => data'[p] = data[p]
  PROVE  ContentRight(t)' /\ Seen(t)' = Seen(t)
<1>1. \A a \in Addr : /\ Present(t, a)' = Present(t, a)
                      /\ pte'[t][a] = pte[t][a]
  BY DEF Same, Present
<1> QED BY <1>1, ReadOnlySees DEF Same

\* Clearing pages that become free leaves alone the pages of such a task.
LEMMA FreeingKeeps ==
  ASSUME MemoryInv', NEW t \in Task, Same(t), Contain(data)
  PROVE  \A p \in Page : Uses(t, p) => data'[p] = data[p]
<1> SUFFICES ASSUME NEW p \in Page, Uses(t, p) PROVE data'[p] = data[p]
  OBVIOUS
<1>1. Uses(t, p)'
  BY DEF Same, Uses, Present
<1>2. mem_map'[p] # 0
  BY <1>1, UsedPagesCountThen
<1> QED BY <1>2 DEF Contain

\* A step that no program notices, and one that ends task t.
Unseen == \A u \in Task : Seen(u)' = Seen(u)

Ends(t) ==
    /\ pc[t] \notin Gone
    /\ Seen(t)' = NULL
    /\ \A u \in Task \ {t} : Seen(u)' = Seen(u)

\* What a step that has t do something leaves of another task.
Undisturbed(u) == Same(u) /\ \A p \in Page : Uses(u, p) => data'[p] = data[p]

LEMMA OthersSee ==
  ASSUME MemoryInv, ContentInv, NEW t \in Task, running \in {NULL, t},
         NEW u \in Task, u # t, Undisturbed(u)
  PROVE  ContentRight(u)' /\ Seen(u)' = Seen(u)
<1>1. pc[u] \notin Busy
  BY OthersAreNotBusy
<1>2. Types /\ ContentRight(u)
  BY DEF MemoryInv, ContentInv
<1> QED BY <1>1, <1>2, SameTaskSees DEF Undisturbed

\* do_exit()
LEMMA DieEnds ==
  ASSUME MemoryInv, MemoryInv', ContentInv, NEW t \in Task, pc[t] \notin Gone,
         running \in {NULL, t}, NEW map, Die(t, map)
  PROVE  ContentInv' /\ Ends(t)
<1>1. /\ pte' = [pte EXCEPT ![t] = NoEntries] /\ at' = [at EXCEPT ![t] = NULL]
      /\ fault' = [fault EXCEPT ![t] = NULL] /\ arg' = [arg EXCEPT ![t] = NULL]
      /\ next' = [next EXCEPT ![t] = NULL]
      /\ executable' = [executable EXCEPT ![t] = NULL]
      /\ pc' = [pc EXCEPT ![t] = "zombie"] /\ UNCHANGED task_page
      /\ Contain(data)
  BY DEF Die, Goto
<1>2. Types
  BY DEF MemoryInv
<1>3. ASSUME NEW u \in Task, u # t
      PROVE  ContentRight(u)' /\ Seen(u)' = Seen(u)
  <2>1. Same(u)
    BY <1>1, <1>2, <1>3 DEF Same, Types, ContentInv
  <2>2. \A p \in Page : Uses(u, p) => data'[p] = data[p]
    BY <1>1, <2>1, FreeingKeeps
  <2>3. u # t /\ u \in Task /\ running \in {NULL, t} /\ MemoryInv /\ ContentInv
    BY <1>3
  <2>4. Undisturbed(u)
    BY <2>1, <2>2 DEF Undisturbed
  <2> QED BY <2>3, <2>4, OthersSee
<1>4. \A p \in Page : mem_map'[p] = 0 => data'[p] = "zero"
  BY <1>1 DEF Contain
<1>5. /\ data' \in [Page -> Contents]
      /\ executable' \in [Task -> Program \cup {NULL}]
      /\ next' \in [Task -> Program \cup {NULL}]
  BY <1>1 DEF Contain, Contents, ContentInv
<1>6. /\ pc'[t] = "zombie" /\ arg'[t] = NULL /\ fault'[t] = NULL
      /\ \A a \in Addr : pte'[t][a] = NULL
  BY <1>1, <1>2 DEF Types, NoEntries
<1>7. task_page[t] # NULL => data'[task_page[t]] = "zero"
  <2>1. ContentRight(t) /\ (task_page[t] # NULL => task_page[t] \in Page)
    BY <1>2 DEF ContentInv, Types
  <2> QED BY <1>1, <2>1 DEF Contain, ContentRight
<1>8. ContentRight(t)'
  BY <1>1, <1>6, <1>7 DEF ContentRight, CleanIsFile, Present, Gone, Busy
<1>9. Seen(t)' = NULL
  BY <1>6 DEF Seen, Gone
<1> QED BY <1>3, <1>4, <1>5, <1>8, <1>9 DEF ContentInv, Ends

\* What is left to show of a step that puts v in page p, which is used after it.
LEMMA ContentStays ==
  ASSUME ContentInv, NEW p \in Page, NEW v \in Contents,
         data' = [data EXCEPT ![p] = v],
         UNCHANGED executable, UNCHANGED next,
         mem_map'[p] # 0, \A r \in Page : mem_map'[r] = 0 => mem_map[r] = 0,
         \A u \in Task : ContentRight(u)'
  PROVE  ContentInv'
<1>1. data' \in [Page -> Contents]
  BY DEF ContentInv
<1>2. \A r \in Page : mem_map'[r] = 0 => data'[r] = "zero"
  BY DEF ContentInv
<1> QED BY <1>1, <1>2 DEF ContentInv

\* The same where no page changes.
LEMMA ContentIsSame ==
  ASSUME ContentInv, UNCHANGED <<data, executable>>,
         next' \in [Task -> Program \cup {NULL}],
         \A r \in Page : mem_map'[r] = 0 => mem_map[r] = 0,
         \A u \in Task : ContentRight(u)'
  PROVE  ContentInv'
  BY DEF ContentInv

\* Task t sees the same if it finds the same in every page.
LEMMA SameContent ==
  ASSUME NEW t \in Task, pc[t] \notin Gone \cup {"close"}, pc'[t] \notin Gone \cup {"close"},
         \A a \in Addr : Content(t, a)' = Content(t, a)
  PROVE  Seen(t)' = Seen(t)
<1>1. Seen(t) = [a \in Addr |-> Content(t, a)]
  BY DEF Seen, Content
<1>2. Seen(t)' = [a \in Addr |-> Content(t, a)']
  BY DEF Seen, Content
<1> QED BY <1>1, <1>2

-----------------------------------------------------------------------------
(***************************************************************************)
(* Writing.                                                                *)
(***************************************************************************)
\* Task t, and no other, sees its write to a.
Writes(t, a) ==
    /\ pc[t] \notin Gone
    /\ Seen(t)' = [Seen(t) EXCEPT ![a] = t]
    /\ \A u \in Task \ {t} : Seen(u)' = Seen(u)

\* A page that t can write is used by t alone, and at one address.
LEMMA WritableIsOwn ==
  ASSUME MemoryInv, NEW t \in Task, NEW a \in Addr, Writable(t, a),
         NEW p, p = pte[t][a].page
  PROVE  /\ p \in Page /\ mem_map[p] # 0
         /\ \A u \in Task : Uses(u, p) => u = t
         /\ arg[t] # p /\ task_page[t] # p
         /\ \A b \in Addr : Present(t, b) /\ pte[t][b].page = p => b = a
<1>1. Types /\ <<t, a>> \in Place /\ p \in Page /\ Mapped[<<t, a>>] = p /\ p # NULL
  BY Addresses DEF Writable, Present, MemoryInv
<1>2. PICK map, h, m : map = mem_map /\ h = Held /\ m = Mapped
  OBVIOUS
<1>3. (\A s \in Slot : h[s] # p) /\ map[p] \in Nat \ {0}
  BY <1>1, <1>2, OnlyPlace DEF MemoryInv
<1>4. ASSUME NEW u \in Task, NEW b \in Addr, Present(u, b), pte[u][b].page = p
      PROVE  u = t /\ b = a
  <2>1. PICK x, y : x = <<t, a>> /\ y = <<u, b>>
    OBVIOUS
  <2>2. y \in Place /\ Mapped[y] = p
    BY <1>1, <1>4, <2>1, Addresses DEF Present
  <2>3. x \in Place /\ Mapped[x] = p /\ Writable(x[1], x[2])
    BY <1>1, <2>1
  <2>4. x = y
    BY <2>2, <2>3 DEF MemoryInv, WritableIsAlone
  <2> QED BY <2>1, <2>4
<1>5. ASSUME NEW u \in Task
      PROVE  arg[u] # p /\ task_page[u] # p
  <2>1. /\ <<u, "arg", 0>> \in Slot /\ h[<<u, "arg", 0>>] = arg[u]
        /\ <<u, "task", 0>> \in Slot /\ h[<<u, "task", 0>>] = task_page[u]
    BY <1>2, Slots
  <2> QED BY <1>3, <2>1
<1> QED BY <1>1, <1>2, <1>3, <1>4, <1>5 DEF Uses

\* The processor writes to a page that is there, and t's own.
LEMMA StoreWrites ==
  ASSUME MemoryInv, ContentInv, NEW t \in Task, NEW a \in Addr,
         pc[t] = "user" \/ (pc[t] \in {"retry", "write"} /\ at[t] = a),
         running \in {NULL, t}, Writable(t, a), Store(t, a)
  PROVE  ContentInv' /\ Writes(t, a)
<1>1. PICK p : p = pte[t][a].page
  OBVIOUS
<1>2. /\ p \in Page /\ mem_map[p] # 0
      /\ \A u \in Task : Uses(u, p) => u = t
      /\ arg[t] # p /\ task_page[t] # p
      /\ \A b \in Addr : Present(t, b) /\ pte[t][b].page = p => b = a
  BY <1>1, WritableIsOwn
<1>3. PICK e : e = [pte[t][a] EXCEPT !.dirty = TRUE]
  OBVIOUS
<1>4. /\ data' = [data EXCEPT ![p] = t] /\ pte' = [pte EXCEPT ![t][a] = e]
      /\ pc' = [pc EXCEPT ![t] = "user"] /\ at' = [at EXCEPT ![t] = NULL]
      /\ UNCHANGED <<mem_map, fault, task_page, executable, arg, next>>
  BY <1>1, <1>3 DEF Store, Goto, load, exec, MemoryInv, Types
<1>5. Types /\ pte[t][a] \in Entry
  BY DEF MemoryInv, Writable, Present, Types
<1>6. e \in Entry /\ e.page = p /\ e.dirty = TRUE
  <2>1. PICK r : r = pte[t][a]
    OBVIOUS
  <2>2. r \in Entry /\ e = [r EXCEPT !.dirty = TRUE] /\ r.page = p
    BY <1>1, <1>3, <1>5, <2>1
  <2> QED BY <2>2 DEF Entry
<1>7. e # NULL /\ e.page = p /\ e.dirty = TRUE
  BY <1>6, MemoryAssumption
<1>8. /\ \A b \in Addr : pte'[t][b] = IF b = a THEN e ELSE pte[t][b]
      /\ pc'[t] = "user"
      /\ \A r \in Page : data'[r] = IF r = p THEN t ELSE data[r]
  BY <1>4, <1>5 DEF Types, ContentInv
<1>9. ASSUME NEW u \in Task, u # t
      PROVE  ContentRight(u)' /\ Seen(u)' = Seen(u)
  <2>1. Same(u)
    BY <1>4, <1>5, <1>9 DEF Same, Types
  <2>2. \A r \in Page : Uses(u, r) => data'[r] = data[r]
    BY <1>2, <1>8, <1>9
  <2>3. u # t /\ u \in Task /\ running \in {NULL, t} /\ MemoryInv /\ ContentInv
    BY <1>9
  <2>4. Undisturbed(u)
    BY <2>1, <2>2 DEF Undisturbed
  <2> QED BY <2>3, <2>4, OthersSee
<1>10. \A b \in Addr : b # a /\ Present(t, b) =>
          /\ pte[t][b].page \in Page /\ data'[pte[t][b].page] = data[pte[t][b].page]
  BY <1>2, <1>5, <1>8, Addresses DEF Present
<1>11. ContentRight(t)'
  <2>1. ContentRight(t)
    BY DEF ContentInv
  <2>2. CleanIsFile(t)'
    <3> SUFFICES ASSUME NEW b \in Addr, b < EndData, Present(t, b)', ~pte'[t][b].dirty
                 PROVE  data'[pte'[t][b].page] = executable'[t]
      BY DEF CleanIsFile
    <3>1. b # a /\ pte'[t][b] = pte[t][b] /\ Present(t, b) /\ ~Writing(t, b)
      BY <1>7, <1>8 DEF Present, Writing
    <3>2. data[pte[t][b].page] = executable[t]
      BY <2>1, <3>1 DEF ContentRight, CleanIsFile
    <3> QED BY <1>4, <1>10, <3>1, <3>2
  <2>3. /\ arg[t] # NULL => arg[t] \in Page
        /\ task_page[t] # NULL => task_page[t] \in Page
    BY <1>5 DEF Types
  <2>4. executable[t] \in Program
    BY <2>1 DEF ContentRight, Gone
  <2>5. pc'[t] = "user" /\ UNCHANGED <<executable, arg, task_page, fault>>
    BY <1>4, <1>8
  <2> QED BY <1>2, <1>8, <2>1, <2>2, <2>3, <2>4, <2>5 DEF ContentRight, Busy
<1>12. ContentInv'
  <2>1. \A u \in Task : ContentRight(u)'
    BY <1>9, <1>11
  <2>2. t \in Contents /\ mem_map' = mem_map /\ UNCHANGED executable /\ UNCHANGED next
    BY <1>4 DEF Contents
  <2> QED BY <1>2, <1>4, <2>1, <2>2, ContentStays
<1>13. Seen(t)' = [Seen(t) EXCEPT ![a] = t]
  <2>1. Seen(t) = [b \in Addr |-> Content(t, b)]
    BY DEF Seen, Content, Gone
  <2>2. Seen(t)' = [b \in Addr |-> Content(t, b)']
    BY <1>8 DEF Seen, Content, Gone
  <2>3. Content(t, a)' = t
    BY <1>2, <1>7, <1>8 DEF Content, Present
  <2>4. \A b \in Addr : b # a => Content(t, b)' = Content(t, b)
    BY <1>4, <1>8, <1>10 DEF Content, Present
  <2> QED BY <2>1, <2>2, <2>3, <2>4
<1> QED BY <1>9, <1>12, <1>13 DEF Writes, Gone

\* un_wp_page() is not seen: a copy has the contents of the page.
LEMMA UnWpPageUnseen ==
  ASSUME MemoryInv, MemoryInv', ContentInv, Windows \subseteq {"exec"},
         NEW t \in Task, NEW a \in Addr, pc[t] = "user", fault[t] = NULL,
         running \in {NULL, t}, Present(t, a), NEW w \in {"retry", "write"},
         UnWpPage(t, a, w)
  PROVE  ContentInv' /\ (Unseen \/ Ends(t))
<1>1. CASE Die(t, mem_map)
  <2>1. pc[t] \notin Gone
    BY DEF Gone
  <2>2. PICK map : map = mem_map
    OBVIOUS
  <2>3. Die(t, map)
    BY <1>1, <2>2
  <2> QED BY <2>1, <2>3, DieEnds
<1>2. CASE ~Die(t, mem_map)
  <2>1. PICK old : old = pte[t][a].page
    OBVIOUS
  <2>2. Types /\ pte[t][a] \in Entry /\ old \in Page /\ a # NULL
    BY <2>1, SetsAreFinite, Addresses DEF MemoryInv, Present
  <2>3. \E p \in Page, e \in Entry :
          /\ pte' = [pte EXCEPT ![t][a] = e] /\ e.page = p /\ e.rw = TRUE
          /\ data' = [data EXCEPT ![p] = data[old]] /\ mem_map'[p] # 0
          /\ \A r \in Page : mem_map'[r] = 0 => mem_map[r] = 0
          /\ p = old \/ mem_map[p] = 0
    <3>1. CASE mem_map[old] = 1 /\ pte' = [pte EXCEPT ![t][a].rw = TRUE]
               /\ UNCHANGED <<mem_map, data>>
      <4>1. PICK r, e : r = pte[t][a] /\ e = [r EXCEPT !.rw = TRUE]
        OBVIOUS
      <4>2. e \in Entry /\ e.page = old /\ e.rw = TRUE
        BY <2>1, <2>2, <4>1 DEF Entry
      <4>3. pte' = [pte EXCEPT ![t][a] = e]
        BY <2>2, <3>1, <4>1 DEF Types
      <4>4. data' = [data EXCEPT ![old] = data[old]] /\ mem_map'[old] # 0
        BY <2>2, <3>1 DEF ContentInv
      <4> QED BY <2>2, <3>1, <4>2, <4>3, <4>4
    <3>2. CASE \E new \in LastFree(mem_map) :
                 /\ mem_map[old] # 1
                 /\ pte' = [pte EXCEPT ![t][a] = [page |-> new, rw |-> TRUE, dirty |-> FALSE]]
                 /\ mem_map' = CopyCounts(mem_map, old, new)
                 /\ data' = [data EXCEPT ![new] = data[old]]
      <4>1. PICK new \in LastFree(mem_map) :
                 /\ mem_map[old] # 1
                 /\ pte' = [pte EXCEPT ![t][a] = [page |-> new, rw |-> TRUE, dirty |-> FALSE]]
                 /\ mem_map' = CopyCounts(mem_map, old, new)
                 /\ data' = [data EXCEPT ![new] = data[old]]
        BY <3>2
      <4>2. new \in Page /\ mem_map[new] = 0
        BY DEF LastFree, FreeIn
      <4>3. PICK e : e = [page |-> new, rw |-> TRUE, dirty |-> FALSE]
        OBVIOUS
      <4>4. e \in Entry /\ e.page = new /\ e.rw = TRUE
        BY <4>2, <4>3 DEF Entry
      <4>5. mem_map[old] # 0 /\ mem_map \in [Page -> Nat]
        <5>1. Uses(t, old)
          BY <2>1 DEF Uses
        <5> QED BY <2>2, <5>1, UsedPagesCount DEF MemoryInv, PagesRight
      <4>6. \A r \in Page : mem_map'[r] = IF r = new THEN 1 ELSE IF r = old THEN mem_map[old] - 1
                                          ELSE mem_map[r]
        BY <2>2, <4>1, <4>2, <4>5 DEF CopyCounts, Taken, Freed
      <4>7. mem_map'[new] # 0 /\ \A r \in Page : mem_map'[r] = 0 => mem_map[r] = 0
        <5>1. mem_map[old] \in Nat /\ mem_map[old] - 1 # 0
          BY <2>2, <4>1, <4>5
        <5> QED BY <4>2, <4>6, <5>1
      <4> QED BY <4>1, <4>2, <4>3, <4>4, <4>7
    <3> QED BY <1>2, <2>1, <3>1, <3>2 DEF UnWpPage
  <2>4. PICK p \in Page, e \in Entry :
          /\ pte' = [pte EXCEPT ![t][a] = e] /\ e.page = p /\ e.rw = TRUE
          /\ data' = [data EXCEPT ![p] = data[old]] /\ mem_map'[p] # 0
          /\ \A r \in Page : mem_map'[r] = 0 => mem_map[r] = 0
          /\ p = old \/ mem_map[p] = 0
    BY <2>3
  <2>5. /\ pc' = [pc EXCEPT ![t] = w] /\ at' = [at EXCEPT ![t] = a] /\ running' = t
        /\ UNCHANGED <<fault, task_page, executable, arg, next>>
    BY <1>2 DEF UnWpPage, Goto, Sleep, load, exec
  <2>6. \A u \in Task, r \in Page : Uses(u, r) => data'[r] = data[r]
    <3>1. \A u \in Task : mem_map[p] = 0 => ~Uses(u, p)
      BY UsedPagesCount
    <3>2. \A r \in Page : data'[r] = IF r = p THEN data[old] ELSE data[r]
      BY <2>4 DEF ContentInv
    <3> QED BY <2>4, <3>1, <3>2
  <2>7. e # NULL /\ e.page = p /\ e.rw = TRUE
    BY <2>4, MemoryAssumption
  <2>8. /\ \A b \in Addr : pte'[t][b] = IF b = a THEN e ELSE pte[t][b]
        /\ pc'[t] = w /\ at'[t] = a
        /\ data'[p] = data[old]
    BY <2>2, <2>4, <2>5 DEF Types, ContentInv
  <2>9. ASSUME NEW u \in Task, u # t
        PROVE  ContentRight(u)' /\ Seen(u)' = Seen(u)
    <3>1. Same(u)
      BY <2>2, <2>4, <2>5, <2>9 DEF Same, Types
    <3>2. \A r \in Page : Uses(u, r) => data'[r] = data[r]
      BY <2>6
    <3>3. u # t /\ u \in Task /\ running \in {NULL, t} /\ MemoryInv /\ ContentInv
      BY <2>9
    <3>4. Undisturbed(u)
      BY <3>1, <3>2 DEF Undisturbed
    <3> QED BY <3>3, <3>4, OthersSee
  <2>10. \A b \in Addr : Present(t, b) =>
            /\ pte[t][b].page \in Page /\ data'[pte[t][b].page] = data[pte[t][b].page]
    BY <2>2, <2>6, Addresses DEF Present, Uses
  <2>11. ContentRight(t)'
    <3>1. ContentRight(t)
      BY DEF ContentInv
    <3>2. CleanIsFile(t)'
      <4> SUFFICES ASSUME NEW b \in Addr, b < EndData, Present(t, b)', ~pte'[t][b].dirty,
                          ~Writing(t, b)'
                   PROVE  data'[pte'[t][b].page] = executable'[t]
        BY DEF CleanIsFile
      <4>1. b # a /\ pte'[t][b] = pte[t][b] /\ Present(t, b) /\ ~Writing(t, b)
        BY <2>8 DEF Present, Writing
      <4>2. data[pte[t][b].page] = executable[t]
        BY <3>1, <4>1 DEF ContentRight, CleanIsFile
      <4> QED BY <2>5, <2>10, <4>1, <4>2
    <3>3. /\ arg[t] # NULL => data'[arg[t]] = data[arg[t]]
          /\ task_page[t] # NULL => data'[task_page[t]] = data[task_page[t]]
      BY <2>2, <2>6 DEF Types, Uses
    <3>4. executable[t] \in Program
      BY <3>1 DEF ContentRight, Gone
    <3>5. Present(t, at[t])' /\ Writable(t, at[t])'
      BY <2>7, <2>8 DEF Present, Writable
    <3>6. pc'[t] = w /\ running' = t /\ fault'[t] = NULL
          /\ UNCHANGED <<executable, arg, task_page, fault>>
      BY <2>5, <2>8
    <3> QED BY <3>1, <3>2, <3>3, <3>4, <3>5, <3>6 DEF ContentRight, Busy
  <2>12. ContentInv'
    <3>1. \A u \in Task : ContentRight(u)'
      BY <2>9, <2>11
    <3>2. data[old] \in Contents /\ UNCHANGED executable /\ UNCHANGED next
      BY <2>2, <2>5 DEF ContentInv
    <3>3. PICK v : v = data[old]
      OBVIOUS
    <3> QED BY <2>4, <3>1, <3>2, <3>3, ContentStays
  <2>13. Seen(t)' = Seen(t)
    <3>1. pc[t] \notin Gone \cup {"close"} /\ pc'[t] \notin Gone \cup {"close"}
      BY <2>8 DEF Gone
    <3>2. Content(t, a)' = Content(t, a)
      BY <2>1, <2>7, <2>8 DEF Content, Present
    <3>3. \A b \in Addr : b # a => Content(t, b)' = Content(t, b)
      BY <2>5, <2>8, <2>10 DEF Content, Present
    <3> QED BY <3>1, <3>2, <3>3, SameContent
  <2> QED BY <2>9, <2>12, <2>13 DEF Unseen
<1> QED BY <1>1, <1>2

-----------------------------------------------------------------------------
(***************************************************************************)
(* do_no_page().                                                           *)
(***************************************************************************)
\* A new entry of t is not seen, if what is in its page is what t would find
\* there: zeroes, or a page of its program.
LEMMA EntryUnseen ==
  ASSUME MemoryInv, ContentInv, NEW t \in Task, NEW a \in Addr,
         pc[t] \in {"user", "write", "exec"}, pte[t][a] = NULL,
         NEW e \in Entry,
         data'[e.page] = Untouched(executable[t], a),
         \A b \in Addr : pte'[t][b] = IF b = a THEN e ELSE pte[t][b],
         \A r \in Page : Uses(t, r) => data'[r] = data[r],
         pc[t] = "write" => a = at[t] /\ e.rw /\ running' = t /\ fault'[t] = NULL,
         fault'[t] \in {fault[t], NULL},
         UNCHANGED <<pc, executable, arg, task_page, next, at>>
  PROVE  ContentRight(t)' /\ Seen(t)' = Seen(t)
<1>1. ContentRight(t) /\ Types /\ e # NULL
  BY MemoryAssumption DEF ContentInv, MemoryInv
<1>2. \A b \in Addr : Present(t, b) =>
         /\ pte[t][b].page \in Page /\ data'[pte[t][b].page] = data[pte[t][b].page]
  BY <1>1, Addresses DEF Present, Uses
<1>3. CleanIsFile(t)'
  <2> SUFFICES ASSUME NEW b \in Addr, b < EndData, Present(t, b)', ~pte'[t][b].dirty,
                      ~Writing(t, b)'
               PROVE  data'[pte'[t][b].page] = executable'[t]
    BY DEF CleanIsFile
  <2>1. CASE b = a
    BY <1>1, <2>1 DEF Untouched
  <2>2. CASE b # a
    <3>1. pte'[t][b] = pte[t][b] /\ Present(t, b) /\ ~Writing(t, b)
      BY <2>2 DEF Present, Writing
    <3>2. data[pte[t][b].page] = executable[t]
      BY <1>1, <3>1 DEF ContentRight, CleanIsFile
    <3> QED BY <1>2, <3>1, <3>2
  <2> QED BY <2>1, <2>2
<1>4. /\ arg[t] # NULL => data'[arg[t]] = data[arg[t]]
      /\ task_page[t] # NULL => data'[task_page[t]] = data[task_page[t]]
  BY <1>1 DEF Types, Uses
<1>5. pc[t] = "write" => Present(t, at[t])' /\ Writable(t, at[t])'
  BY <1>1 DEF Present, Writable
<1>6. pc'[t] = pc[t] /\ UNCHANGED <<executable, arg, task_page, next, at>>
  OBVIOUS
<1>7. ContentRight(t)'
  BY <1>1, <1>3, <1>4, <1>5, <1>6 DEF ContentRight, Busy, Gone
<1>8. Seen(t)' = Seen(t)
  <2>1. pc[t] \notin Gone \cup {"close"} /\ pc'[t] \notin Gone \cup {"close"}
    BY DEF Gone
  <2>2. Content(t, a)' = Content(t, a)
    BY <1>1 DEF Content, Present
  <2>3. \A b \in Addr : b # a => Content(t, b)' = Content(t, b)
    BY <1>2 DEF Content, Present
  <2> QED BY <2>1, <2>2, <2>3, SameContent
<1> QED BY <1>7, <1>8

\* Where task t goes on.
LEMMA ResumesRunning ==
  ASSUME Windows \subseteq {"exec"}, NEW t, pc[t] = "write", Resume(t)
  PROVE  running' = t
  BY DEF Resume, Sleep

\* get_empty_page()
LEMMA EmptyPageUnseen ==
  ASSUME MemoryInv, MemoryInv', ContentInv, Windows \subseteq {"exec"},
         NEW t \in Task, NEW a \in Addr, pc[t] \in {"user", "write", "exec"},
         fault[t] = NULL, running \in {NULL, t}, pte[t][a] = NULL,
         pc[t] = "write" => a = at[t], EmptyPage(t, a)
  PROVE  ContentInv' /\ (Unseen \/ Ends(t))
<1>1. CASE Die(t, mem_map)
  <2>1. pc[t] \notin Gone
    BY DEF Gone
  <2>2. PICK map : map = mem_map
    OBVIOUS
  <2>3. Die(t, map)
    BY <1>1, <2>2
  <2> QED BY <2>1, <2>3, DieEnds
<1>2. CASE ~Die(t, mem_map)
  <2>0. PICK p \in LastFree(mem_map) : \E q \in TableFor(t, a, Taken(mem_map, p)) :
          /\ PutPage(t, a, [page |-> p, rw |-> TRUE, dirty |-> FALSE], q, Taken(mem_map, p))
          /\ Resume(t) /\ UNCHANGED <<data, load>> /\ Rest
    BY <1>2 DEF EmptyPage
  <2>1. PICK q \in TableFor(t, a, Taken(mem_map, p)) :
          /\ PutPage(t, a, [page |-> p, rw |-> TRUE, dirty |-> FALSE], q, Taken(mem_map, p))
          /\ Resume(t) /\ UNCHANGED <<data, load>> /\ Rest
    BY <2>0
  <2>2. Types /\ p \in Page /\ mem_map[p] = 0 /\ data[p] = "zero" /\ a >= EndData
        /\ mem_map \in [Page -> Nat]
    BY <1>2 DEF LastFree, FreeIn, MemoryInv, ContentInv, PagesRight, EmptyPage
  <2>3. PICK e : e = [page |-> p, rw |-> TRUE, dirty |-> FALSE]
    OBVIOUS
  <2>4. e \in Entry /\ e.page = p /\ e.rw
    BY <2>2, <2>3 DEF Entry
  <2>5. /\ pte' = [pte EXCEPT ![t][a] = e] /\ mem_map' = Taken(Taken(mem_map, p), q)
        /\ UNCHANGED <<data, fault, page, task_page, executable, at, arg, next, pc>>
    BY <2>1, <2>3 DEF PutPage, Rest, load, exec, Resume
  <2>6. \A b \in Addr : pte'[t][b] = IF b = a THEN e ELSE pte[t][b]
    BY <2>2, <2>5 DEF Types
  <2>7. data'[e.page] = Untouched(executable[t], a)
    <3>1. ~(a < EndData)
      BY <2>2, MemoryAssumption DEF Addr
    <3> QED BY <2>2, <2>4, <2>5, <3>1 DEF Untouched
  <2>8. pc[t] = "write" => running' = t
    BY <2>1, ResumesRunning
  <2>9. ContentRight(t)' /\ Seen(t)' = Seen(t)
    <3>1. pc[t] = "write" => a = at[t] /\ e.rw /\ running' = t /\ fault'[t] = NULL
      BY <2>4, <2>5, <2>8
    <3>2. fault'[t] \in {fault[t], NULL} /\ UNCHANGED <<pc, executable, arg, task_page, next, at>>
      BY <2>5
    <3>3. \A r \in Page : Uses(t, r) => data'[r] = data[r]
      BY <2>5
    <3> QED BY <2>4, <2>6, <2>7, <3>1, <3>2, <3>3, EntryUnseen
  <2>10. ASSUME NEW u \in Task, u # t
         PROVE  ContentRight(u)' /\ Seen(u)' = Seen(u)
    <3>1. Same(u)
      BY <2>2, <2>5, <2>10 DEF Same, Types
    <3>2. \A r \in Page : Uses(u, r) => data'[r] = data[r]
      BY <2>5
    <3>3. u # t /\ u \in Task /\ running \in {NULL, t} /\ MemoryInv /\ ContentInv
      BY <2>10
    <3>4. Undisturbed(u)
      BY <3>1, <3>2 DEF Undisturbed
    <3> QED BY <3>3, <3>4, OthersSee
  <2>11. ContentInv'
    <3>1. \A r \in Page : mem_map'[r] = 0 => mem_map[r] = 0
      BY <2>2, <2>5 DEF Taken
    <3>2. \A u \in Task : ContentRight(u)'
      BY <2>9, <2>10
    <3>3. UNCHANGED <<data, executable>> /\ next' \in [Task -> Program \cup {NULL}]
      BY <2>5 DEF ContentInv
    <3> QED BY <3>1, <3>2, <3>3, ContentIsSame
  <2> QED BY <2>9, <2>10, <2>11 DEF Unseen
<1> QED BY <1>1, <1>2

\* The kernel's write never asks for a page of the file.
LEMMA FileIsNotWritten ==
  ASSUME ContentInv, NEW t \in Task, NEW a \in Addr, a < EndData, pte[t][a] = NULL,
         pc[t] \in {"user", "write", "exec"}, pc[t] = "write" => a = at[t]
  PROVE  pc[t] \in {"user", "exec"}
<1>1. pc[t] = "write" => Present(t, at[t]) \/ at[t] >= EndData
  BY DEF ContentInv, ContentRight
<1>2. a \in Nat /\ EndData \in Nat
  BY MemoryAssumption DEF Addr
<1> QED BY <1>1, <1>2 DEF Present

\* bread_page()
LEMMA StartLoadUnseen ==
  ASSUME MemoryInv, MemoryInv', ContentInv,
         NEW t \in Task, NEW a \in Addr, pc[t] \in {"user", "exec"},
         fault[t] = NULL, running \in {NULL, t}, StartLoad(t, a)
  PROVE  ContentInv' /\ (Unseen \/ Ends(t))
<1>1. CASE Die(t, mem_map)
  <2>1. pc[t] \notin Gone
    BY DEF Gone
  <2>2. PICK map : map = mem_map
    OBVIOUS
  <2>3. Die(t, map)
    BY <1>1, <2>2
  <2> QED BY <2>1, <2>3, DieEnds
<1>2. CASE ~Die(t, mem_map)
  <2>1. PICK p \in LastFree(mem_map) :
          /\ mem_map' = Taken(mem_map, p)
          /\ fault' = [fault EXCEPT ![t] = a]
          /\ UNCHANGED <<data, dir, pte, pc, task_page, executable, at, arg, next>>
    BY <1>2 DEF StartLoad, Rest, tables, exec
  <2>2. Types /\ mem_map \in [Page -> Nat] /\ a < EndData
    BY DEF MemoryInv, PagesRight, StartLoad
  <2>3. ContentRight(t)' /\ Seen(t)' = Seen(t)
    <3>1. ContentRight(t) /\ fault'[t] = a
      BY <2>1, <2>2 DEF ContentInv, Types
    <3>2. CleanIsFile(t)'
      BY <2>1, <3>1 DEF ContentRight, CleanIsFile, Present, Writing
    <3> QED BY <2>1, <2>2, <3>1, <3>2 DEF ContentRight, Busy, Seen, Present, Gone
  <2>4. ASSUME NEW u \in Task, u # t
        PROVE  ContentRight(u)' /\ Seen(u)' = Seen(u)
    <3>1. Same(u)
      BY <2>1, <2>2, <2>4 DEF Same, Types
    <3>2. \A r \in Page : Uses(u, r) => data'[r] = data[r]
      BY <2>1
    <3>3. u # t /\ u \in Task /\ running \in {NULL, t} /\ MemoryInv /\ ContentInv
      BY <2>4
    <3>4. Undisturbed(u)
      BY <3>1, <3>2 DEF Undisturbed
    <3> QED BY <3>3, <3>4, OthersSee
  <2>5. ContentInv'
    <3>1. \A r \in Page : mem_map'[r] = 0 => mem_map[r] = 0
      BY <2>1, <2>2 DEF Taken
    <3>2. \A u \in Task : ContentRight(u)'
      BY <2>3, <2>4
    <3>3. UNCHANGED <<data, executable>> /\ next' \in [Task -> Program \cup {NULL}]
      BY <2>1 DEF ContentInv
    <3> QED BY <3>1, <3>2, <3>3, ContentIsSame
  <2> QED BY <2>3, <2>4, <2>5 DEF Unseen
<1> QED BY <1>1, <1>2

\* try_to_share(): the page is clean, so it is as in the file.
LEMMA SharePageUnseen ==
  ASSUME MemoryInv, MemoryInv', ContentInv,
         NEW t \in Task, NEW a \in Addr, pc[t] \in {"user", "exec"},
         fault[t] = NULL, running \in {NULL, t}, pte[t][a] = NULL, SharePage(t, a)
  PROVE  ContentInv' /\ (Unseen \/ Ends(t))
<1>1. CASE Die(t, mem_map)
  <2>1. pc[t] \notin Gone
    BY DEF Gone
  <2>2. PICK map : map = mem_map
    OBVIOUS
  <2>3. Die(t, map)
    BY <1>1, <2>2
  <2> QED BY <2>1, <2>3, DieEnds
<1>2. CASE ~Die(t, mem_map)
  <2>0. PICK u \in Sharers(t, a) : \E q \in TableFor(t, a, mem_map) :
          ShareWith(t, u, a, q) /\ UNCHANGED <<data, load, pc>> /\ Rest
    BY <1>2 DEF SharePage, Resume
  <2>1. PICK q \in TableFor(t, a, mem_map) :
          ShareWith(t, u, a, q) /\ UNCHANGED <<data, load, pc>> /\ Rest
    BY <2>0
  <2>2. /\ u \in Task /\ u # t /\ executable[u] = executable[t]
        /\ Present(u, a) /\ ~pte[u][a].dirty /\ a < EndData
    BY <1>2 DEF Sharers, Present, SharePage
  <2>3. Types /\ mem_map \in [Page -> Nat] /\ pc[u] \notin Busy
    <3>1. u \in Task /\ u # t /\ running \in {NULL, t} /\ ContentInv
      BY <2>2
    <3>2. pc[u] \notin Busy
      BY <3>1, OthersAreNotBusy
    <3> QED BY <3>2 DEF MemoryInv, PagesRight
  <2>4. PICK old, e : old = pte[u][a] /\ e = [old EXCEPT !.rw = FALSE]
    OBVIOUS
  <2>5. /\ old \in Entry /\ e \in Entry /\ e.page = old.page /\ e.dirty = old.dirty
        /\ old.page \in Page
    <3>1. old \in Entry
      BY <2>2, <2>3, <2>4 DEF Types, Present
    <3> QED BY <2>4, <3>1 DEF Entry
  <2>6. /\ pte' = [pte EXCEPT ![t][a] = e, ![u][a] = e]
        /\ mem_map' = [Taken(mem_map, q) EXCEPT ![e.page] = @ + 1]
        /\ UNCHANGED <<data, fault, page, task_page, executable, at, arg, next, pc>>
    BY <2>1, <2>4 DEF ShareWith, Rest, load, exec
  <2>7. /\ \A b \in Addr : pte'[t][b] = IF b = a THEN e ELSE pte[t][b]
        /\ \A b \in Addr : pte'[u][b] = IF b = a THEN e ELSE pte[u][b]
        /\ \A v \in Task \ {t, u} : pte'[v] = pte[v]
    BY <2>2, <2>3, <2>6 DEF Types
  <2>8. data'[e.page] = Untouched(executable[t], a)
    <3>1. ContentRight(u) /\ ~Writing(u, a) /\ pc[u] # "close"
      BY <2>2, <2>3 DEF ContentInv, Writing, Busy
    <3>2. data[old.page] = executable[u]
      BY <2>2, <2>4, <3>1 DEF ContentRight, CleanIsFile
    <3> QED BY <2>2, <2>5, <2>6, <3>2 DEF Untouched
  <2>9. ContentRight(t)' /\ Seen(t)' = Seen(t)
    <3>1. pc[t] \in {"user", "write", "exec"} /\ pc[t] # "write"
      OBVIOUS
    <3>2. fault'[t] \in {fault[t], NULL} /\ UNCHANGED <<pc, executable, arg, task_page, next, at>>
      BY <2>6
    <3>3. \A r \in Page : Uses(t, r) => data'[r] = data[r]
      BY <2>6
    <3> QED BY <2>5, <2>7, <2>8, <3>1, <3>2, <3>3, EntryUnseen
  <2>10. ContentRight(u)' /\ Seen(u)' = Seen(u)
    <3>1. \A b \in Addr : Present(u, b)' = Present(u, b)
      BY <2>2, <2>5, <2>7, MemoryAssumption DEF Present
    <3>2. \A b \in Addr : Present(u, b) => /\ pte'[u][b].page = pte[u][b].page
                                           /\ pte'[u][b].dirty = pte[u][b].dirty
      BY <2>4, <2>5, <2>7
    <3>3. \A r \in Page : Uses(u, r) => data'[r] = data[r]
      BY <2>6
    <3>4. ContentRight(u) /\ u \in Task
      BY <2>2 DEF ContentInv
    <3>5. UNCHANGED <<pc[u], executable[u], arg[u], task_page[u], next[u], fault[u], at[u]>>
      BY <2>6
    <3> QED BY <2>3, <3>1, <3>2, <3>3, <3>4, <3>5, ReadOnlySees
  <2>11. ASSUME NEW v \in Task, v # t, v # u
         PROVE  ContentRight(v)' /\ Seen(v)' = Seen(v)
    <3>1. Same(v)
      BY <2>6, <2>7, <2>11 DEF Same
    <3>2. \A r \in Page : Uses(v, r) => data'[r] = data[r]
      BY <2>6
    <3>3. v # t /\ v \in Task /\ running \in {NULL, t} /\ MemoryInv /\ ContentInv
      BY <2>11
    <3>4. Undisturbed(v)
      BY <3>1, <3>2 DEF Undisturbed
    <3> QED BY <3>3, <3>4, OthersSee
  <2>12. ContentInv'
    <3>1. \A r \in Page : mem_map'[r] = 0 => mem_map[r] = 0
      <4>1. q \in Page
        <5>1. DirOf(a) \in Dir
          BY DEF Dir
        <5>2. dir[t][DirOf(a)] \in Page \cup {NULL}
          BY <2>3, <5>1 DEF Types
        <5> QED BY <5>2 DEF TableFor, LastFree, FreeIn
      <4>2. PICK map, p : map = Taken(mem_map, q) /\ p = e.page
        OBVIOUS
      <4>3. map \in [Page -> Nat] /\ \A r \in Page : map[r] = 0 => mem_map[r] = 0
        BY <2>3, <4>1, <4>2 DEF Taken
      <4>4. mem_map' = [map EXCEPT ![p] = map[p] + 1] /\ p \in Page
        BY <2>5, <2>6, <4>2
      <4> QED BY <4>3, <4>4
    <3>2. \A v \in Task : ContentRight(v)'
      BY <2>9, <2>10, <2>11
    <3>3. UNCHANGED <<data, executable>> /\ next' \in [Task -> Program \cup {NULL}]
      BY <2>6 DEF ContentInv
    <3> QED BY <3>1, <3>2, <3>3, ContentIsSame
  <2> QED BY <2>9, <2>10, <2>11, <2>12 DEF Unseen
<1> QED BY <1>1, <1>2

\* do_no_page()
LEMMA NoPageUnseen ==
  ASSUME MemoryInv, MemoryInv', ContentInv, Windows \subseteq {"exec"},
         NEW t \in Task, NEW a \in Addr, pc[t] \in {"user", "write", "exec"},
         fault[t] = NULL, running \in {NULL, t},
         pc[t] = "write" => a = at[t], NoPage(t, a)
  PROVE  ContentInv' /\ (Unseen \/ Ends(t))
<1>1. pte[t][a] = NULL
  BY DEF NoPage
<1>2. CASE EmptyPage(t, a)
  BY <1>1, <1>2, EmptyPageUnseen
<1>3. CASE SharePage(t, a) \/ StartLoad(t, a)
  <2>1. a < EndData
    BY <1>3 DEF SharePage, StartLoad
  <2>2. pc[t] \in {"user", "exec"}
    BY <1>1, <2>1, FileIsNotWritten
  <2> QED BY <1>1, <1>3, <2>2, SharePageUnseen, StartLoadUnseen
<1> QED BY <1>2, <1>3 DEF NoPage

\* The page of the program has been read.
LEMMA LoadDoneUnseen ==
  ASSUME MemoryInv, MemoryInv', ContentInv, NEW t \in Task, LoadDone(t)
  PROVE  ContentInv' /\ (Unseen \/ Ends(t))
<1>1. PICK a, p : a = fault[t] /\ p = page[t]
  OBVIOUS
<1>2. /\ Types /\ a \in Addr /\ p \in Page /\ p # NULL /\ pte[t][a] = NULL /\ a < EndData
      /\ pc[t] \in {"user", "exec"} /\ running = NULL /\ a # NULL
      /\ mem_map \in [Page -> Nat]
  BY <1>1 DEF LoadDone, MemoryInv, TaskRight, Types, ContentInv, ContentRight, Busy, PagesRight
<1>3. CASE \E map : Die(t, map)
  <2>1. pc[t] \notin Gone /\ running \in {NULL, t}
    BY <1>2 DEF Gone
  <2>2. PICK map : Die(t, map)
    BY <1>3
  <2> QED BY <2>1, <2>2, DieEnds
<1>4. CASE ~\E map : Die(t, map)
  <2>1. PICK q \in TableFor(t, a, mem_map) :
          /\ PutPage(t, a, [page |-> p, rw |-> TRUE, dirty |-> FALSE], q, mem_map)
          /\ data' = [data EXCEPT ![p] = executable[t]]
          /\ fault' = [fault EXCEPT ![t] = NULL]
          /\ UNCHANGED pc /\ Rest
    <3>1. ~Die(t, Freed(mem_map, p))
      BY <1>4
    <3> QED BY <1>1, <3>1 DEF LoadDone, Resume
  <2>2. PICK e : e = [page |-> p, rw |-> TRUE, dirty |-> FALSE]
    OBVIOUS
  <2>3. e \in Entry /\ e.page = p /\ e.rw
    BY <1>2, <2>2 DEF Entry
  <2>4. /\ pte' = [pte EXCEPT ![t][a] = e] /\ mem_map' = Taken(mem_map, q)
        /\ UNCHANGED <<task_page, executable, at, arg, next, pc>>
    BY <2>1, <2>2 DEF PutPage, Rest, exec
  <2>5. /\ \A b \in Addr : pte'[t][b] = IF b = a THEN e ELSE pte[t][b]
        /\ fault'[t] = NULL
        /\ \A r \in Page : data'[r] = IF r = p THEN executable[t] ELSE data[r]
    BY <1>2, <2>1, <2>4 DEF Types, ContentInv
  <2>6. ASSUME NEW u \in Task, NEW r \in Page, Uses(u, r)
        PROVE  data'[r] = data[r]
    <3>1. PICK map, h, m : map = mem_map /\ h = Held /\ m = Mapped
      OBVIOUS
    <3>2. PagesRight(map, h, m)
      BY <3>1 DEF MemoryInv
    <3>3. /\ <<t, "page", 0>> \in Slot /\ h[<<t, "page", 0>>] = p
          /\ <<u, "arg", 0>> \in Slot /\ h[<<u, "arg", 0>>] = arg[u]
          /\ <<u, "task", 0>> \in Slot /\ h[<<u, "task", 0>>] = task_page[u]
      BY <1>1, <3>1, Slots
    <3>4. PlacesOf(m, p) = {} /\ arg[u] # p /\ task_page[u] # p
      BY <1>2, <3>2, <3>3 DEF PagesRight
    <3>5. ASSUME NEW b \in Addr, Present(u, b), pte[u][b].page = p PROVE FALSE
      <4>1. <<u, b>> \in Place /\ Mapped[<<u, b>>] = p
        BY <1>2, <3>5, Addresses DEF Present
      <4> QED BY <3>1, <3>4, <4>1 DEF PlacesOf
    <3> QED BY <2>5, <2>6, <3>4, <3>5 DEF Uses
  <2>7. ContentRight(t)' /\ Seen(t)' = Seen(t)
    <3>1. pc[t] \in {"user", "write", "exec"} /\ pc[t] # "write"
      BY <1>2
    <3>2. fault'[t] \in {fault[t], NULL} /\ UNCHANGED <<pc, executable, arg, task_page, next, at>>
      BY <2>4, <2>5
    <3>3. \A r \in Page : Uses(t, r) => data'[r] = data[r]
      BY <2>6
    <3>4. data'[e.page] = Untouched(executable[t], a)
      BY <1>2, <2>3, <2>5 DEF Untouched
    <3> QED BY <1>2, <2>3, <2>5, <3>1, <3>2, <3>3, <3>4, EntryUnseen
  <2>8. ASSUME NEW u \in Task, u # t
        PROVE  ContentRight(u)' /\ Seen(u)' = Seen(u)
    <3>1. Same(u)
      BY <1>2, <2>1, <2>4, <2>8 DEF Same, Types
    <3>2. \A r \in Page : Uses(u, r) => data'[r] = data[r]
      BY <2>6
    <3>3. u # t /\ u \in Task /\ running \in {NULL, t} /\ MemoryInv /\ ContentInv
      BY <1>2, <2>8
    <3>4. Undisturbed(u)
      BY <3>1, <3>2 DEF Undisturbed
    <3> QED BY <3>3, <3>4, OthersSee
  <2>9. ContentInv'
    <3>1. \A r \in Page : mem_map'[r] = 0 => mem_map[r] = 0
      BY <1>2, <2>4 DEF Taken
    <3>2. \A u \in Task : ContentRight(u)'
      BY <2>7, <2>8
    <3>3. UNCHANGED executable /\ UNCHANGED next /\ executable[t] \in Contents
      <4>1. executable[t] \in Program
        BY <1>2 DEF ContentInv, ContentRight, Gone
      <4> QED BY <2>4, <4>1 DEF Contents
    <3>4. mem_map'[p] # 0
      <4>1. mem_map[p] = 1
        <5>1. PICK map, h, m : map = mem_map /\ h = Held /\ m = Mapped
          OBVIOUS
        <5>2. <<t, "page", 0>> \in Slot /\ h[<<t, "page", 0>>] = p /\ PagesRight(map, h, m)
          BY <1>1, <5>1, Slots DEF MemoryInv
        <5> QED BY <1>2, <5>1, <5>2 DEF PagesRight
      <4> QED BY <1>2, <3>1, <4>1
    <3>5. PICK v : v = executable[t]
      OBVIOUS
    <3> QED BY <1>2, <2>1, <3>1, <3>2, <3>3, <3>4, <3>5, ContentStays
  <2> QED BY <2>7, <2>8, <2>9 DEF Unseen
<1> QED BY <1>3, <1>4

-----------------------------------------------------------------------------
(***************************************************************************)
(* The steps of UserStep.                                                  *)
(***************************************************************************)
\* Preparing a write to a page that can be written to, or is not there.
LEMMA ReadyUnseen ==
  ASSUME MemoryInv, ContentInv, Windows \subseteq {"exec"},
         NEW t \in Task, NEW a \in Addr, pc[t] = "user", fault[t] = NULL,
         running \in {NULL, t}, Present(t, a) => Writable(t, a),
         Present(t, a) \/ a >= EndData,
         Goto(t, "write"), at' = [at EXCEPT ![t] = a],
         UNCHANGED <<mem_map, pte, data, fault, task_page, executable, exec>>
  PROVE  ContentInv' /\ Unseen
<1>1. /\ pc' = [pc EXCEPT ![t] = "write"] /\ running' = t
      /\ UNCHANGED <<arg, next>> /\ Types /\ a # NULL
  BY SetsAreFinite DEF Goto, Sleep, exec, MemoryInv
<1>2. ASSUME NEW u \in Task, u # t
      PROVE  ContentRight(u)' /\ Seen(u)' = Seen(u)
  <2>1. Same(u)
    BY <1>1, <1>2 DEF Same, Types
  <2>2. \A r \in Page : Uses(u, r) => data'[r] = data[r]
    OBVIOUS
  <2>3. u # t /\ u \in Task /\ running \in {NULL, t} /\ MemoryInv /\ ContentInv
    BY <1>2
  <2>4. Undisturbed(u)
    BY <2>1, <2>2 DEF Undisturbed
  <2> QED BY <2>3, <2>4, OthersSee
<1>3. pc'[t] = "write" /\ at'[t] = a
  BY <1>1 DEF Types
<1>4. ContentRight(t)'
  <2>1. ContentRight(t)
    BY DEF ContentInv
  <2>2. CleanIsFile(t)'
    BY <1>3, <2>1 DEF ContentRight, CleanIsFile, Present, Writing
  <2>3. /\ Present(t, at[t])' => Writable(t, at[t])'
        /\ Present(t, at[t])' \/ at'[t] >= EndData
    BY <1>3 DEF Present, Writable
  <2>4. executable[t] \in Program
    BY <2>1 DEF ContentRight, Gone
  <2> QED BY <1>1, <1>3, <2>1, <2>2, <2>3, <2>4 DEF ContentRight, Busy
<1>5. Seen(t)' = Seen(t)
  <2>1. pc[t] \notin Gone \cup {"close"} /\ pc'[t] \notin Gone \cup {"close"}
    BY <1>3 DEF Gone
  <2>2. \A b \in Addr : Content(t, b)' = Content(t, b)
    BY DEF Content, Present
  <2> QED BY <2>1, <2>2, SameContent
<1>6. ContentInv'
  <2>1. \A u \in Task : ContentRight(u)'
    BY <1>2, <1>4
  <2>2. UNCHANGED <<data, executable>> /\ next' \in [Task -> Program \cup {NULL}]
    BY <1>1 DEF ContentInv
  <2>3. \A r \in Page : mem_map'[r] = 0 => mem_map[r] = 0
    OBVIOUS
  <2> QED BY <2>1, <2>2, <2>3, ContentIsSame
<1> QED BY <1>2, <1>5, <1>6 DEF Unseen

\* A call that does not write leaves no page that passes for one of the file.
LEMMA UnwrittenUnseen ==
  ASSUME MemoryInv, ContentInv, Windows \subseteq {"exec"},
         NEW t \in Task, NothingToWrite(t)
  PROVE  ContentInv' /\ Unseen
<1>1. /\ pc[t] = "write" /\ running = t /\ fault[t] = NULL
      /\ pc' = [pc EXCEPT ![t] = "user"] /\ running' = NULL
      /\ at' = [at EXCEPT ![t] = NULL]
      /\ UNCHANGED <<mem_map, pte, data, fault, task_page, executable, arg, next>>
      /\ ~Stale(t, at[t]) /\ Types /\ at[t] \in Addr
  BY DEF NothingToWrite, At, Goto, Sleep, Busy, tables, load, exec, MemoryInv, TaskRight,
         ContentInv, ContentRight
<1>2. ASSUME NEW u \in Task, u # t
      PROVE  ContentRight(u)' /\ Seen(u)' = Seen(u)
  <2>1. Same(u)
    BY <1>1, <1>2 DEF Same, Types
  <2>2. \A r \in Page : Uses(u, r) => data'[r] = data[r]
    BY <1>1
  <2>3. u # t /\ u \in Task /\ running \in {NULL, t} /\ MemoryInv /\ ContentInv
    BY <1>1, <1>2
  <2>4. Undisturbed(u)
    BY <2>1, <2>2 DEF Undisturbed
  <2> QED BY <2>3, <2>4, OthersSee
<1>3. pc'[t] = "user"
  BY <1>1 DEF Types
<1>4. ContentRight(t)'
  <2>1. ContentRight(t)
    BY DEF ContentInv
  <2>2. CleanIsFile(t)'
    <3> SUFFICES ASSUME NEW a \in Addr, a < EndData, Present(t, a)', ~pte'[t][a].dirty
                 PROVE  data'[pte'[t][a].page] = executable'[t]
      BY DEF CleanIsFile
    <3>1. a < EndData /\ Present(t, a) /\ ~pte[t][a].dirty
      BY <1>1 DEF Present
    <3>2. CASE a = at[t]
      BY <1>1, <3>1, <3>2 DEF Stale
    <3>3. CASE a # at[t]
      BY <1>1, <2>1, <3>1, <3>3 DEF ContentRight, CleanIsFile, Writing
    <3> QED BY <3>2, <3>3
  <2>3. executable[t] \in Program
    BY <1>1, <2>1 DEF ContentRight, Gone
  <2> QED BY <1>1, <1>3, <2>1, <2>2, <2>3 DEF ContentRight, Busy
<1>5. Seen(t)' = Seen(t)
  <2>1. pc[t] \notin Gone \cup {"close"} /\ pc'[t] \notin Gone \cup {"close"}
    BY <1>1, <1>3 DEF Gone
  <2>2. \A b \in Addr : Content(t, b)' = Content(t, b)
    BY <1>1 DEF Content, Present
  <2> QED BY <2>1, <2>2, SameContent
<1>6. ContentInv'
  <2>1. \A u \in Task : ContentRight(u)'
    BY <1>2, <1>4
  <2>2. UNCHANGED <<data, executable>> /\ next' \in [Task -> Program \cup {NULL}]
    BY <1>1 DEF ContentInv
  <2>3. \A r \in Page : mem_map'[r] = 0 => mem_map[r] = 0
    BY <1>1
  <2> QED BY <2>1, <2>2, <2>3, ContentIsSame
<1> QED BY <1>2, <1>5, <1>6 DEF Unseen

\* What the steps of a running program, and LoadDone, let programs see.
LEMMA UserStepSeen ==
  ASSUME MemoryInv, MemoryInv', ContentInv, Windows \subseteq {"exec"},
         NEW t \in Task, UserStep(t)
  PROVE  ContentInv' /\ (Unseen \/ Ends(t) \/ \E a \in Addr : Writes(t, a))
<1>1. CASE \E a \in Addr : UserWrite(t, a)
  <2>1. PICK a \in Addr : UserWrite(t, a)
    BY <1>1
  <2>2. pc[t] = "user" /\ running \in {NULL, t} /\ Writable(t, a) /\ Store(t, a)
    BY <2>1 DEF UserWrite, At
  <2>3. ContentInv' /\ Writes(t, a)
    BY <2>2, StoreWrites
  <2> QED BY <2>3
<1>2. CASE \E a \in Addr : WriteFault(t, a)
  BY <1>2, UnWpPageUnseen DEF WriteFault, At
<1>3. CASE \E a \in Addr : TouchFault(t, a)
  <2>1. PICK a \in Addr : TouchFault(t, a)
    BY <1>3
  <2>2. pc[t] = "user" /\ fault[t] = NULL /\ running \in {NULL, t} /\ NoPage(t, a)
    BY <2>1 DEF TouchFault, At
  <2> QED BY <2>2, NoPageUnseen
<1>4. CASE Retry(t)
  <2>1. pc[t] = "retry" /\ fault[t] = NULL /\ running \in {NULL, t}
    BY <1>4 DEF Retry, At
  <2>2. at[t] \in Addr /\ Writable(t, at[t])
    BY <2>1 DEF MemoryInv, TaskRight, ContentInv, ContentRight, Present
  <2>3. Store(t, at[t])
    BY <1>4, <2>2 DEF Retry
  <2>4. PICK a \in Addr : a = at[t]
    BY <2>2
  <2>5. ContentInv' /\ Writes(t, a)
    BY <2>1, <2>2, <2>3, <2>4, StoreWrites
  <2> QED BY <2>5
<1>5. CASE \E a \in Addr : VerifyArea(t, a)
  <2>1. PICK a \in Addr : VerifyArea(t, a)
    BY <1>5
  <2>2. /\ pc[t] = "user" /\ fault[t] = NULL /\ running \in {NULL, t}
        /\ Present(t, a) \/ a >= EndData
    BY <2>1 DEF VerifyArea, At
  <2>3. CASE Present(t, a) /\ UnWpPage(t, a, "write")
    <3>1. PICK w \in {"retry", "write"} : w = "write"
      OBVIOUS
    <3> QED BY <2>2, <2>3, <3>1, UnWpPageUnseen
  <2>4. CASE ~(Present(t, a) /\ UnWpPage(t, a, "write"))
    <3>1. /\ Present(t, a) => Writable(t, a)
          /\ Goto(t, "write") /\ at' = [at EXCEPT ![t] = a]
          /\ UNCHANGED <<mem_map, pte, data, fault, task_page, executable, exec>>
      BY <2>1, <2>4 DEF VerifyArea, tables, load
    <3> QED BY <2>2, <3>1, ReadyUnseen
  <2> QED BY <2>3, <2>4
<1>6. CASE KernelWrite(t)
  <2>1. /\ pc[t] = "write" /\ fault[t] = NULL /\ running \in {NULL, t}
        /\ at[t] \in Addr
    BY <1>6 DEF KernelWrite, At, MemoryInv, TaskRight
  <2>2. PICK a \in Addr : a = at[t]
    BY <2>1
  <2>3. CASE Present(t, a)
    <3>1. Writable(t, a) /\ Store(t, a)
      BY <1>6, <2>1, <2>2, <2>3 DEF KernelWrite, ContentInv, ContentRight
    <3>2. ContentInv' /\ Writes(t, a)
      BY <2>1, <2>2, <3>1, StoreWrites
    <3> QED BY <3>2
  <2>4. CASE ~Present(t, a)
    <3>1. NoPage(t, a)
      BY <1>6, <2>2, <2>4 DEF KernelWrite
    <3> QED BY <2>1, <2>2, <3>1, NoPageUnseen
  <2> QED BY <2>3, <2>4
<1>7. CASE LoadDone(t)
  BY <1>7, LoadDoneUnseen
<1>8. CASE NothingToWrite(t)
  BY <1>8, UnwrittenUnseen
<1> QED BY <1>1, <1>2, <1>3, <1>4, <1>5, <1>6, <1>7, <1>8 DEF UserStep

-----------------------------------------------------------------------------
(***************************************************************************)
(* The steps of LifeStep.                                                  *)
(***************************************************************************)
Forks(t, u) ==
    /\ pc[t] \notin Gone /\ Seen(u) = NULL /\ Seen(u)' = Seen(t)
    /\ \A v \in Task \ {u} : Seen(v)' = Seen(v)

Begins(t, x) ==
    /\ pc[t] \notin Gone
    /\ Seen(t)' = [a \in Addr |-> IF a = Top THEN "args" ELSE Untouched(x, a)]
    /\ \A v \in Task \ {t} : Seen(v)' = Seen(v)

\* An entry that is made read only keeps its page, and its dirty bit.
LEMMA ReadOnlyIsSame ==
  ASSUME NEW e \in Entry \cup {NULL}
  PROVE  /\ ReadOnly(e) = NULL <=> e = NULL
         /\ e # NULL => ReadOnly(e).page = e.page /\ ReadOnly(e).dirty = e.dirty
<1>1. ReadOnly(e) = NULL <=> e = NULL
  BY ReadOnlyEntry
<1>2. CASE e # NULL
  <2>1. PICK r : r = [e EXCEPT !.rw = FALSE]
    OBVIOUS
  <2>2. ReadOnly(e) = r /\ e \in Entry
    BY <1>2, <2>1 DEF ReadOnly
  <2>3. r.page = e.page /\ r.dirty = e.dirty
    BY <2>1, <2>2 DEF Entry
  <2> QED BY <1>1, <2>2, <2>3
<1> QED BY <1>1, <1>2

\* copy_process()
LEMMA ForkSeen ==
  ASSUME MemoryInv, ContentInv, NEW t \in Task, NEW u \in Task, Fork(t, u)
  PROVE  ContentInv' /\ Forks(t, u)
<1>1. /\ pc[t] = "user" /\ fault[t] = NULL /\ running \in {NULL, t} /\ pc[u] = "free"
      /\ u # t /\ Types /\ mem_map \in [Page -> Nat]
  BY DEF Fork, At, MemoryInv, PagesRight
<1>2. PICK s \in LastFree(mem_map) : \E q \in Injection(DirsOf(t), Free \ {s}) :
          /\ mem_map' = [p \in Page |-> IF p = s \/ p \in Range(q) THEN 1
                                        ELSE mem_map[p] + Cardinality(Entries(t, p))]
          /\ task_page' = [task_page EXCEPT ![u] = s]
  BY DEF Fork
<1>3. PICK R :
          /\ mem_map' = [p \in Page |-> IF p = s \/ p \in R THEN 1
                                        ELSE mem_map[p] + Cardinality(Entries(t, p))]
          /\ task_page' = [task_page EXCEPT ![u] = s]
  BY <1>2
<1>4. s \in Page /\ data[s] = "zero"
  BY DEF LastFree, FreeIn, ContentInv
<1>5. /\ pte' = [pte EXCEPT ![t] = Protected(t), ![u] = Protected(t)]
      /\ executable' = [executable EXCEPT ![u] = executable[t]]
      /\ pc' = [pc EXCEPT ![u] = "user"]
      /\ UNCHANGED <<data, at, fault, arg, next, running>>
  BY DEF Fork, EntriesAfterFork, load, exec
<1>6. \A r \in Page : mem_map'[r] = 0 => mem_map[r] = 0
  <2>1. \A r \in Page : Cardinality(Entries(t, r)) \in Nat
    <3> TAKE r \in Page
    <3>1. Entries(t, r) \subseteq Addr
      BY DEF Entries
    <3> QED BY <3>1, SetsAreFinite, FS_Subset, FS_CardinalityType
  <2> QED BY <1>1, <1>3, <2>1
<1>7. \A b \in Addr : /\ pte'[t][b] = ReadOnly(pte[t][b])
                      /\ pte'[u][b] = ReadOnly(pte[t][b])
                      /\ pte[t][b] \in Entry \cup {NULL}
  BY <1>1, <1>5 DEF Types, Protected
<1>8. ASSUME NEW b \in Addr
      PROVE  /\ Present(t, b)' = Present(t, b) /\ Present(u, b)' = Present(t, b)
             /\ Present(t, b) => /\ pte'[t][b].page = pte[t][b].page
                                 /\ pte'[t][b].dirty = pte[t][b].dirty
                                 /\ pte'[u][b].page = pte[t][b].page
                                 /\ pte'[u][b].dirty = pte[t][b].dirty
  <2>1. PICK e \in Entry \cup {NULL} : e = pte[t][b]
    BY <1>7
  <2>2. /\ ReadOnly(e) = NULL <=> e = NULL
        /\ e # NULL => ReadOnly(e).page = e.page /\ ReadOnly(e).dirty = e.dirty
    BY ReadOnlyIsSame
  <2> QED BY <1>7, <2>1, <2>2 DEF Present
<1>9. \A v \in Task, r \in Page : Uses(v, r) => data'[r] = data[r]
  BY <1>5
<1>10. ContentRight(t)' /\ Seen(t)' = Seen(t)
  <2>1. UNCHANGED <<pc[t], executable[t], arg[t], task_page[t], next[t], fault[t], at[t]>>
    BY <1>1, <1>3, <1>5 DEF Types, ContentInv
  <2>2. pc[t] \notin Busy /\ ContentRight(t)
    BY <1>1 DEF Busy, ContentInv
  <2> QED BY <1>1, <1>8, <1>9, <2>1, <2>2, ReadOnlySees
<1>11. /\ pc'[u] = "user" /\ executable'[u] = executable[t] /\ task_page'[u] = s
       /\ arg'[u] = NULL /\ fault'[u] = NULL
  <2>1. arg[u] = NULL /\ fault[u] = NULL
    BY <1>1 DEF MemoryInv, TaskRight, Gone
  <2> QED BY <1>1, <1>3, <1>5, <2>1 DEF Types, ContentInv
<1>12. ContentRight(u)'
  <2>1. executable[t] \in Program /\ CleanIsFile(t)
    BY <1>1 DEF ContentInv, ContentRight, Gone
  <2>2. CleanIsFile(u)'
    BY <1>1, <1>5, <1>8, <1>11, <2>1 DEF CleanIsFile, Writing
  <2>3. data'[task_page'[u]] = "zero"
    BY <1>4, <1>5, <1>11
  <2> QED BY <1>11, <2>1, <2>2, <2>3 DEF ContentRight, Busy
<1>13. Seen(u)' = Seen(t) /\ Seen(u) = NULL
  <2>1. Seen(u)' = [b \in Addr |-> Content(u, b)']
    BY <1>11 DEF Seen, Content, Gone
  <2>2. Seen(t) = [b \in Addr |-> Content(t, b)]
    BY <1>1 DEF Seen, Content, Gone
  <2>3. ASSUME NEW b \in Addr PROVE Content(u, b)' = Content(t, b)
    <3>1. data' = data /\ executable'[u] = executable[t]
      BY <1>5, <1>11
    <3>2. CASE Present(t, b)
      BY <1>8, <3>1, <3>2 DEF Content
    <3>3. CASE ~Present(t, b)
      BY <1>8, <3>1, <3>3 DEF Content, Untouched
    <3> QED BY <3>2, <3>3
  <2>4. Seen(u) = NULL
    BY <1>1 DEF Seen, Gone
  <2> QED BY <2>1, <2>2, <2>3, <2>4
<1>14. ASSUME NEW v \in Task, v # t, v # u
       PROVE  ContentRight(v)' /\ Seen(v)' = Seen(v)
  <2>1. Same(v)
    BY <1>1, <1>3, <1>5, <1>14 DEF Same, Types, ContentInv
  <2>2. \A r \in Page : Uses(v, r) => data'[r] = data[r]
    BY <1>9
  <2>3. v # t /\ v \in Task /\ running \in {NULL, t} /\ MemoryInv /\ ContentInv
    BY <1>1, <1>14
  <2>4. Undisturbed(v)
    BY <2>1, <2>2 DEF Undisturbed
  <2> QED BY <2>3, <2>4, OthersSee
<1>15. ContentInv'
  <2>1. \A v \in Task : ContentRight(v)'
    BY <1>10, <1>12, <1>14
  <2>2. executable' \in [Task -> Program \cup {NULL}]
    BY <1>5 DEF ContentInv
  <2> QED BY <1>5, <1>6, <2>1, <2>2 DEF ContentInv
<1> QED BY <1>1, <1>10, <1>13, <1>14, <1>15 DEF Forks, Gone

\* fork() that runs out of memory.
LEMMA ForkFailsUnseen ==
  ASSUME MemoryInv, ContentInv, NEW t \in Task, NEW u \in Task, ForkFails(t, u)
  PROVE  ContentInv' /\ Unseen
<1>1. pc[t] = "user" /\ running \in {NULL, t} /\ Types
  BY DEF ForkFails, At, MemoryInv
<1>2. /\ \E S : pte' = [pte EXCEPT ![t] = [a \in Addr |-> IF DirOf(a) \in S THEN ReadOnly(@[a])
                                                        ELSE @[a]]]
      /\ UNCHANGED <<mem_map, data, task_page, executable, pc, at, fault, arg, next, running>>
  BY DEF ForkFails, load, exec
<1>3. PICK S : pte' = [pte EXCEPT ![t] = [a \in Addr |-> IF DirOf(a) \in S THEN ReadOnly(@[a])
                                                        ELSE @[a]]]
  BY <1>2
<1>4. /\ \A b \in Addr : /\ pte'[t][b] \in {ReadOnly(pte[t][b]), pte[t][b]}
                         /\ pte[t][b] \in Entry \cup {NULL}
      /\ \A v \in Task \ {t} : pte'[v] = pte[v]
  BY <1>1, <1>3 DEF Types
<1>5. ASSUME NEW b \in Addr
      PROVE  /\ Present(t, b)' = Present(t, b)
             /\ Present(t, b) => /\ pte'[t][b].page = pte[t][b].page
                                 /\ pte'[t][b].dirty = pte[t][b].dirty
  <2>1. PICK e \in Entry \cup {NULL} : e = pte[t][b]
    BY <1>4
  <2>2. /\ ReadOnly(e) = NULL <=> e = NULL
        /\ e # NULL => ReadOnly(e).page = e.page /\ ReadOnly(e).dirty = e.dirty
    BY ReadOnlyIsSame
  <2> QED BY <1>4, <2>1, <2>2 DEF Present
<1>6. \A v \in Task, r \in Page : Uses(v, r) => data'[r] = data[r]
  BY <1>2
<1>7. ContentRight(t)' /\ Seen(t)' = Seen(t)
  <2>1. UNCHANGED <<pc[t], executable[t], arg[t], task_page[t], next[t], fault[t], at[t]>>
    BY <1>2
  <2>2. pc[t] \notin Busy /\ ContentRight(t)
    BY <1>1 DEF Busy, ContentInv
  <2> QED BY <1>1, <1>5, <1>6, <2>1, <2>2, ReadOnlySees
<1>8. ASSUME NEW v \in Task, v # t
      PROVE  ContentRight(v)' /\ Seen(v)' = Seen(v)
  <2>1. Same(v)
    BY <1>2, <1>4, <1>8 DEF Same
  <2>2. \A r \in Page : Uses(v, r) => data'[r] = data[r]
    BY <1>6
  <2>3. v # t /\ v \in Task /\ running \in {NULL, t} /\ MemoryInv /\ ContentInv
    BY <1>1, <1>8
  <2>4. Undisturbed(v)
    BY <2>1, <2>2 DEF Undisturbed
  <2> QED BY <2>3, <2>4, OthersSee
<1>9. ContentInv'
  <2>1. \A v \in Task : ContentRight(v)'
    BY <1>7, <1>8
  <2> QED BY <1>2, <2>1 DEF ContentInv
<1> QED BY <1>7, <1>8, <1>9 DEF Unseen

\* copy_strings()
LEMMA ExecBeginUnseen ==
  ASSUME MemoryInv, ContentInv, NEW t \in Task, NEW x \in Program, ExecBegin(t, x)
  PROVE  ContentInv' /\ Unseen
<1>1. /\ pc[t] = "user" /\ fault[t] = NULL /\ running \in {NULL, t} /\ Types
      /\ mem_map \in [Page -> Nat]
  BY DEF ExecBegin, At, MemoryInv, PagesRight
<1>2. PICK p \in LastFree(mem_map) :
          /\ mem_map' = Taken(mem_map, p)
          /\ data' = [data EXCEPT ![p] = "args"]
          /\ arg' = [arg EXCEPT ![t] = p]
  BY DEF ExecBegin
<1>3. /\ next' = [next EXCEPT ![t] = x] /\ pc' = [pc EXCEPT ![t] = "exec"]
      /\ UNCHANGED <<pte, task_page, executable, at, fault>>
  BY DEF ExecBegin, Goto, tables, load
<1>4. p \in Page /\ mem_map[p] = 0
  BY DEF LastFree, FreeIn
<1>5. /\ mem_map'[p] # 0 /\ \A r \in Page : mem_map'[r] = 0 => mem_map[r] = 0
      /\ data' \in [Page -> Contents]
      /\ \A r \in Page : data'[r] = IF r = p THEN "args" ELSE data[r]
  BY <1>1, <1>2, <1>4 DEF Taken, ContentInv, Contents
<1>6. \A v \in Task, r \in Page : Uses(v, r) => data'[r] = data[r]
  BY <1>4, <1>5, UsedPagesCount
<1>7. /\ pc'[t] = "exec" /\ arg'[t] = p /\ next'[t] = x
      /\ next' \in [Task -> Program \cup {NULL}]
  BY <1>1, <1>2, <1>3 DEF Types, ContentInv
<1>8. \A b \in Addr : Present(t, b) =>
         /\ pte[t][b].page \in Page /\ data'[pte[t][b].page] = data[pte[t][b].page]
  BY <1>1, <1>6, Addresses DEF Present, Uses
<1>9. ContentRight(t)'
  <2>1. ContentRight(t)
    BY DEF ContentInv
  <2>2. CleanIsFile(t)'
    BY <1>1, <1>3, <1>8, <2>1 DEF ContentRight, CleanIsFile, Present, Writing
  <2>3. task_page[t] # NULL => data'[task_page[t]] = data[task_page[t]]
    BY <1>1, <1>6 DEF Types, Uses
  <2>4. executable[t] \in Program
    BY <1>1, <2>1 DEF ContentRight, Gone
  <2> QED BY <1>1, <1>3, <1>5, <1>7, <1>4, <2>1, <2>2, <2>3, <2>4 DEF ContentRight, Busy
<1>10. Seen(t)' = Seen(t)
  <2>1. pc[t] \notin Gone \cup {"close"} /\ pc'[t] \notin Gone \cup {"close"}
    BY <1>1, <1>7 DEF Gone
  <2>2. \A b \in Addr : Content(t, b)' = Content(t, b)
    BY <1>3, <1>8 DEF Content, Present
  <2> QED BY <2>1, <2>2, SameContent
<1>11. ASSUME NEW v \in Task, v # t
       PROVE  ContentRight(v)' /\ Seen(v)' = Seen(v)
  <2>1. Same(v)
    BY <1>1, <1>2, <1>3, <1>11 DEF Same, Types, ContentInv
  <2>2. \A r \in Page : Uses(v, r) => data'[r] = data[r]
    BY <1>6
  <2>3. v # t /\ v \in Task /\ running \in {NULL, t} /\ MemoryInv /\ ContentInv
    BY <1>1, <1>11
  <2>4. Undisturbed(v)
    BY <2>1, <2>2 DEF Undisturbed
  <2> QED BY <2>3, <2>4, OthersSee
<1>12. ContentInv'
  <2>1. \A v \in Task : ContentRight(v)'
    BY <1>9, <1>11
  <2>2. \A r \in Page : mem_map'[r] = 0 => data'[r] = "zero"
    BY <1>5 DEF ContentInv
  <2> QED BY <1>3, <1>5, <1>7, <2>1, <2>2 DEF ContentInv
<1> QED BY <1>10, <1>11, <1>12 DEF Unseen

\* exec_error2: the page of the arguments is free again.
LEMMA ExecFailsUnseen ==
  ASSUME MemoryInv, MemoryInv', ContentInv, NEW t \in Task, ExecFails(t)
  PROVE  ContentInv' /\ Unseen
<1>1. /\ pc[t] = "exec" /\ fault[t] = NULL /\ running \in {NULL, t} /\ Types
      /\ Contain(data)
  BY DEF ExecFails, At, MemoryInv
<1>2. /\ arg' = [arg EXCEPT ![t] = NULL] /\ next' = [next EXCEPT ![t] = NULL]
      /\ pc' = [pc EXCEPT ![t] = "user"]
      /\ UNCHANGED <<pte, task_page, executable, at, fault>>
  BY DEF ExecFails, Goto, tables, load
<1>3. pc'[t] = "user" /\ arg'[t] = NULL /\ next' \in [Task -> Program \cup {NULL}]
  BY <1>1, <1>2 DEF Types, ContentInv
<1>4. data' \in [Page -> Contents] /\ \A r \in Page : mem_map'[r] = 0 => data'[r] = "zero"
  BY <1>1 DEF Contain, ContentInv, Contents
<1>5. \A b \in Addr : Present(t, b) =>
         /\ pte[t][b].page \in Page /\ data'[pte[t][b].page] = data[pte[t][b].page]
  <2> SUFFICES ASSUME NEW b \in Addr, Present(t, b), NEW r, r = pte[t][b].page
               PROVE  r \in Page /\ data'[r] = data[r]
    OBVIOUS
  <2>1. r \in Page /\ Uses(t, r)'
    BY <1>1, <1>2, Addresses DEF Present, Uses
  <2>2. mem_map'[r] # 0
    BY <2>1, UsedPagesCountThen
  <2> QED BY <1>1, <2>1, <2>2 DEF Contain
<1>6. ContentRight(t)'
  <2>1. ContentRight(t)
    BY DEF ContentInv
  <2>2. CleanIsFile(t)'
    BY <1>1, <1>2, <1>3, <1>5, <2>1 DEF ContentRight, CleanIsFile, Present, Writing
  <2>3. task_page[t] # NULL => data'[task_page[t]] = "zero"
    <3>1. task_page[t] # NULL => task_page[t] \in Page
      BY <1>1 DEF Types
    <3> QED BY <1>1, <2>1, <3>1 DEF Contain, ContentRight
  <2>4. executable[t] \in Program
    BY <1>1, <2>1 DEF ContentRight, Gone
  <2> QED BY <1>1, <1>2, <1>3, <2>1, <2>2, <2>3, <2>4 DEF ContentRight, Busy
<1>7. Seen(t)' = Seen(t)
  <2>1. pc[t] \notin Gone \cup {"close"} /\ pc'[t] \notin Gone \cup {"close"}
    BY <1>1, <1>3 DEF Gone
  <2>2. \A b \in Addr : Content(t, b)' = Content(t, b)
    BY <1>2, <1>5 DEF Content, Present
  <2> QED BY <2>1, <2>2, SameContent
<1>8. ASSUME NEW v \in Task, v # t
      PROVE  ContentRight(v)' /\ Seen(v)' = Seen(v)
  <2>1. Same(v)
    BY <1>1, <1>2, <1>8 DEF Same, Types, ContentInv
  <2>2. \A r \in Page : Uses(v, r) => data'[r] = data[r]
    BY <1>1, <2>1, FreeingKeeps
  <2>3. v # t /\ v \in Task /\ running \in {NULL, t} /\ MemoryInv /\ ContentInv
    BY <1>1, <1>8
  <2>4. Undisturbed(v)
    BY <2>1, <2>2 DEF Undisturbed
  <2> QED BY <2>3, <2>4, OthersSee
<1>9. ContentInv'
  <2>1. \A v \in Task : ContentRight(v)'
    BY <1>6, <1>8
  <2> QED BY <1>2, <1>3, <1>4, <2>1 DEF ContentInv
<1> QED BY <1>7, <1>8, <1>9 DEF Unseen

\* The point of no return: from here on t has the memory of its new program.
LEMMA ExecCommitSeen ==
  ASSUME MemoryInv, ContentInv, Windows \subseteq {"exec"}, NEW t \in Task, ExecCommit(t)
  PROVE  ContentInv' /\ next[t] \in Program /\ Begins(t, next[t])
<1>1. /\ pc[t] = "exec" /\ fault[t] = NULL /\ running \in {NULL, t} /\ Types
  BY DEF ExecCommit, At, MemoryInv
<1>2. /\ executable' = [executable EXCEPT ![t] = next[t]]
      /\ next' = [next EXCEPT ![t] = NULL]
      /\ pc' = [pc EXCEPT ![t] = "close"] /\ running' = t
      /\ UNCHANGED <<mem_map, pte, data, task_page, at, fault, arg>>
  BY DEF ExecCommit, Goto, Sleep, tables, load
<1>3. ContentRight(t) /\ next[t] \in Program
  BY <1>1 DEF ContentInv, ContentRight
<1>4. pc'[t] = "close" /\ executable'[t] = next[t]
  BY <1>1, <1>2 DEF Types, ContentInv
<1>5. ContentRight(t)'
  <2>1. CleanIsFile(t)'
    BY <1>4 DEF CleanIsFile
  <2> QED BY <1>1, <1>2, <1>3, <1>4, <2>1 DEF ContentRight, Busy
<1>6. ASSUME NEW v \in Task, v # t
      PROVE  ContentRight(v)' /\ Seen(v)' = Seen(v)
  <2>1. Same(v)
    BY <1>1, <1>2, <1>6 DEF Same, Types, ContentInv
  <2>2. \A r \in Page : Uses(v, r) => data'[r] = data[r]
    BY <1>2
  <2>3. v # t /\ v \in Task /\ running \in {NULL, t} /\ MemoryInv /\ ContentInv
    BY <1>1, <1>6
  <2>4. Undisturbed(v)
    BY <2>1, <2>2 DEF Undisturbed
  <2> QED BY <2>3, <2>4, OthersSee
<1>7. ContentInv'
  <2>1. \A v \in Task : ContentRight(v)'
    BY <1>5, <1>6
  <2>2. /\ executable' \in [Task -> Program \cup {NULL}]
        /\ next' \in [Task -> Program \cup {NULL}]
    BY <1>2, <1>3 DEF ContentInv
  <2> QED BY <1>2, <2>1, <2>2 DEF ContentInv
<1>8. Seen(t)' = [a \in Addr |-> IF a = Top THEN "args" ELSE Untouched(next[t], a)]
  BY <1>4 DEF Seen, Gone, Untouched
<1>9. pc[t] \notin Gone
  BY <1>1 DEF Gone
<1> QED BY <1>3, <1>6, <1>7, <1>8, <1>9 DEF Begins

\* free_page_tables(), create_tables(): the memory of the new program is as promised.
LEMMA ExecReplaceUnseen ==
  ASSUME MemoryInv, MemoryInv', ContentInv, NEW t \in Task, ExecReplace(t)
  PROVE  ContentInv' /\ Unseen
<1>1. /\ pc[t] = "close" /\ fault[t] = NULL /\ running \in {NULL, t} /\ Types
      /\ Contain(data) /\ ContentRight(t)
  BY DEF ExecReplace, At, MemoryInv, ContentInv
<1>2. PICK p : p = arg[t]
  OBVIOUS
<1>3. p # NULL /\ p \in Page /\ data[p] = "args"
  BY <1>1, <1>2 DEF MemoryInv, TaskRight, ContentRight, Types
<1>4. PICK e : e = [page |-> p, rw |-> TRUE, dirty |-> TRUE]
  OBVIOUS
<1>5. e \in Entry /\ e # NULL /\ e.page = p /\ e.dirty = TRUE
  <2>1. e \in Entry /\ e.page = p /\ e.dirty = TRUE
    BY <1>3, <1>4 DEF Entry
  <2> QED BY <2>1, MemoryAssumption
<1>6. /\ pte' = [pte EXCEPT ![t] = [NoEntries EXCEPT ![Top] = e]]
      /\ arg' = [arg EXCEPT ![t] = NULL] /\ pc' = [pc EXCEPT ![t] = "user"]
      /\ UNCHANGED <<task_page, executable, at, fault, next>>
  BY <1>2, <1>4 DEF ExecReplace, ArgEntries, Goto, load
<1>7. /\ pc'[t] = "user" /\ arg'[t] = NULL /\ Top \in Addr /\ ~(Top < EndData)
      /\ \A b \in Addr : pte'[t][b] = IF b = Top THEN e ELSE NULL
  <2>1. Top \in Addr /\ ~(Top < EndData)
    BY MemoryAssumption DEF Top, Addr
  <2> QED BY <1>1, <1>6, <2>1 DEF Types, NoEntries
<1>8. data'[p] = "args"
  <2>1. Present(t, Top)' /\ pte'[t][Top].page = p
    BY <1>5, <1>7 DEF Present
  <2>2. Uses(t, p)'
    BY <1>7, <2>1 DEF Uses
  <2>3. mem_map'[p] # 0
    BY <1>3, <2>2, UsedPagesCountThen
  <2> QED BY <1>1, <1>3, <2>3 DEF Contain
<1>9. ContentRight(t)'
  <2>1. CleanIsFile(t)'
    <3>1. \A b \in Addr : b < EndData => ~Present(t, b)'
      BY <1>7 DEF Present
    <3> QED BY <3>1 DEF CleanIsFile
  <2>2. task_page[t] # NULL => data'[task_page[t]] = "zero"
    <3>1. task_page[t] # NULL => task_page[t] \in Page
      BY <1>1 DEF Types
    <3> QED BY <1>1, <3>1 DEF Contain, ContentRight
  <2>3. executable[t] \in Program
    BY <1>1 DEF ContentRight, Gone
  <2> QED BY <1>1, <1>6, <1>7, <2>1, <2>2, <2>3 DEF ContentRight, Busy
<1>10. Seen(t)' = Seen(t)
  <2>1. Seen(t)' = [b \in Addr |-> Content(t, b)']
    BY <1>7 DEF Seen, Content, Gone
  <2>2. Seen(t) = [b \in Addr |-> IF b = Top THEN "args" ELSE Untouched(executable[t], b)]
    BY <1>1 DEF Seen, Gone
  <2>3. \A b \in Addr : Content(t, b)' = IF b = Top THEN "args" ELSE Untouched(executable[t], b)
    BY <1>5, <1>6, <1>7, <1>8 DEF Content, Present
  <2> QED BY <2>1, <2>2, <2>3
<1>11. ASSUME NEW v \in Task, v # t
       PROVE  ContentRight(v)' /\ Seen(v)' = Seen(v)
  <2>1. Same(v)
    BY <1>1, <1>6, <1>11 DEF Same, Types
  <2>2. \A r \in Page : Uses(v, r) => data'[r] = data[r]
    BY <1>1, <2>1, FreeingKeeps
  <2>3. v # t /\ v \in Task /\ running \in {NULL, t} /\ MemoryInv /\ ContentInv
    BY <1>1, <1>11
  <2>4. Undisturbed(v)
    BY <2>1, <2>2 DEF Undisturbed
  <2> QED BY <2>3, <2>4, OthersSee
<1>12. ContentInv'
  <2>1. \A v \in Task : ContentRight(v)'
    BY <1>9, <1>11
  <2>2. data' \in [Page -> Contents] /\ \A r \in Page : mem_map'[r] = 0 => data'[r] = "zero"
    BY <1>1 DEF Contain, ContentInv, Contents
  <2> QED BY <1>6, <2>1, <2>2 DEF ContentInv
<1> QED BY <1>10, <1>11, <1>12 DEF Unseen

\* release()
LEMMA ReleaseUnseen ==
  ASSUME MemoryInv, ContentInv, NEW t \in Task, Release(t)
  PROVE  ContentInv' /\ Unseen
<1>1. /\ pc[t] = "zombie" /\ running = NULL /\ Types /\ ContentRight(t)
      /\ mem_map \in [Page -> Nat]
  BY DEF Release, MemoryInv, ContentInv, PagesRight
<1>2. /\ mem_map' = Freed(mem_map, task_page[t])
      /\ task_page' = [task_page EXCEPT ![t] = NULL]
      /\ pc' = [pc EXCEPT ![t] = "free"]
      /\ UNCHANGED <<pte, data, executable, at, fault, arg, next, running>>
  BY DEF Release, tables, load, exec
<1>3. pc'[t] = "free" /\ task_page'[t] = NULL
  BY <1>1, <1>2 DEF Types
<1>4. /\ arg[t] = NULL /\ fault[t] = NULL /\ \A a \in Addr : pte[t][a] = NULL
      /\ task_page[t] # NULL
  BY <1>1 DEF MemoryInv, TaskRight, Gone
<1>5. ContentRight(t)'
  BY <1>2, <1>3, <1>4 DEF ContentRight, CleanIsFile, Present, Gone, Busy
<1>6. Seen(t)' = Seen(t)
  BY <1>1, <1>3 DEF Seen, Gone
<1>7. ASSUME NEW v \in Task, v # t
      PROVE  ContentRight(v)' /\ Seen(v)' = Seen(v)
  <2>1. Same(v)
    BY <1>1, <1>2, <1>7 DEF Same, Types
  <2>2. \A r \in Page : Uses(v, r) => data'[r] = data[r]
    BY <1>2
  <2>3. v # t /\ v \in Task /\ running \in {NULL, t} /\ MemoryInv /\ ContentInv
    BY <1>1, <1>7
  <2>4. Undisturbed(v)
    BY <2>1, <2>2 DEF Undisturbed
  <2> QED BY <2>3, <2>4, OthersSee
<1>8. \A r \in Page : mem_map'[r] = 0 => data[r] = "zero"
  <2>1. data[task_page[t]] = "zero"
    BY <1>1, <1>4 DEF ContentRight
  <2>2. \A r \in Page : r # task_page[t] => mem_map'[r] = mem_map[r]
    BY <1>1, <1>2 DEF Freed
  <2> QED BY <2>1, <2>2 DEF ContentInv
<1>9. ContentInv'
  <2>1. \A v \in Task : ContentRight(v)'
    BY <1>5, <1>7
  <2> QED BY <1>2, <1>8, <2>1 DEF ContentInv
<1> QED BY <1>6, <1>7, <1>9 DEF Unseen

\* What fork, execve, exit and waitpid let programs see.
LEMMA LifeStepSeen ==
  ASSUME MemoryInv, MemoryInv', ContentInv, Windows \subseteq {"exec"},
         NEW t \in Task, LifeStep(t)
  PROVE  /\ ContentInv'
         /\ \/ Unseen \/ Ends(t) \/ (\E u \in Task : Forks(t, u))
            \/ \E x \in Program : Begins(t, x)
<1>1. CASE \E u \in Task : Fork(t, u)
  BY <1>1, ForkSeen
<1>2. CASE \E u \in Task : ForkFails(t, u)
  BY <1>2, ForkFailsUnseen
<1>3. CASE \E x \in Program : ExecBegin(t, x)
  BY <1>3, ExecBeginUnseen
<1>4. CASE \E a \in Addr : ExecFault(t, a)
  <2>1. PICK a \in Addr : ExecFault(t, a)
    BY <1>4
  <2>2. pc[t] = "exec" /\ fault[t] = NULL /\ running \in {NULL, t} /\ NoPage(t, a)
    BY <2>1 DEF ExecFault, At
  <2> QED BY <2>2, NoPageUnseen
<1>5. CASE ExecFails(t)
  BY <1>5, ExecFailsUnseen
<1>6. CASE ExecCommit(t)
  <2>1. ContentInv' /\ next[t] \in Program /\ Begins(t, next[t])
    BY <1>6, ExecCommitSeen
  <2> QED BY <2>1
<1>7. CASE ExecReplace(t)
  BY <1>7, ExecReplaceUnseen
<1>8. CASE Exit(t)
  <2>1. pc[t] \notin Gone /\ running \in {NULL, t} /\ Die(t, mem_map)
    BY <1>8 DEF Exit, At, Gone
  <2>2. PICK map : map = mem_map
    OBVIOUS
  <2>3. Die(t, map)
    BY <2>1, <2>2
  <2> QED BY <2>1, <2>3, DieEnds
<1>9. CASE Release(t)
  BY <1>9, ReleaseUnseen
<1> QED BY <1>1, <1>2, <1>3, <1>4, <1>5, <1>6, <1>7, <1>8, <1>9 DEF LifeStep

-----------------------------------------------------------------------------
(***************************************************************************)
(* The refinement.                                                         *)
(***************************************************************************)
LEMMA ContentInvAtFirst ==
  Init => ContentInv
<1> SUFFICES ASSUME Init PROVE ContentInv
  OBVIOUS
<1>0. PICK p : p = NR_PAGES - 2
  OBVIOUS
<1>1. PICK t \in Task, x \in Program :
        /\ pte = [u \in Task |-> IF u = t THEN ArgEntries(p) ELSE NoEntries]
        /\ data = [r \in Page |-> IF r = p THEN "args" ELSE "zero"]
        /\ mem_map = [r \in Page |-> IF r \in {NR_PAGES, NR_PAGES - 1, p} THEN 1 ELSE 0]
        /\ task_page = [u \in Task |-> IF u = t THEN NR_PAGES ELSE NULL]
        /\ executable = [u \in Task |-> IF u = t THEN x ELSE NULL]
        /\ pc = [u \in Task |-> IF u = t THEN "user" ELSE "free"]
        /\ fault = [u \in Task |-> NULL] /\ arg = [u \in Task |-> NULL]
        /\ next = [u \in Task |-> NULL]
  BY <1>0 DEF Init
<1>2. /\ NR_PAGES \in Page /\ NR_PAGES # p
      /\ \A b \in Addr : b < EndData => b # Top
  BY <1>0, MemoryAssumption DEF Page, Addr, Top
<1>3. /\ data \in [Page -> Contents]
      /\ executable \in [Task -> Program \cup {NULL}]
      /\ next \in [Task -> Program \cup {NULL}]
  BY <1>1 DEF Contents
<1>4. \A r \in Page : mem_map[r] = 0 => data[r] = "zero"
  BY <1>1
<1>5. ASSUME NEW u \in Task PROVE ContentRight(u)
  <2>1. CleanIsFile(u)
    <3>1. \A b \in Addr : b < EndData => ~Present(u, b)
      BY <1>1, <1>2 DEF Present, ArgEntries, NoEntries
    <3> QED BY <3>1 DEF CleanIsFile
  <2>2. task_page[u] # NULL => data[task_page[u]] = "zero"
    BY <1>1, <1>2
  <2> QED BY <1>1, <2>1, <2>2 DEF ContentRight, Gone, Busy
<1> QED BY <1>3, <1>4, <1>5 DEF ContentInv

\* What a task sees is a memory.
LEMMA SeenIsMemory ==
  ASSUME MemoryInv, ContentInv, NEW t \in Task, pc[t] \notin Gone
  PROVE  Seen(t) \in [Addr -> Contents] /\ Seen(t) # NULL
<1>1. executable[t] \in Program /\ Types
  BY DEF ContentInv, ContentRight, MemoryInv
<1>2. \A a \in Addr : Untouched(executable[t], a) \in Contents
  BY <1>1 DEF Untouched, Contents
<1>3. \A a \in Addr : Present(t, a) => data[pte[t][a].page] \in Contents
  BY <1>1, Addresses DEF Present, ContentInv
<1>4. "args" \in Contents
  BY DEF Contents
<1>5. Seen(t) \in [Addr -> Contents]
  BY <1>2, <1>3, <1>4 DEF Seen
<1> QED BY <1>5, NoMemory

\* At first one task has been started.
LEMMA FirstIsStarted ==
  ASSUME Init
  PROVE  Abstract!SInit
<1>0. PICK p : p = NR_PAGES - 2
  OBVIOUS
<1>1. PICK t \in Task, x \in Program :
        /\ pte = [u \in Task |-> IF u = t THEN ArgEntries(p) ELSE NoEntries]
        /\ data = [r \in Page |-> IF r = p THEN "args" ELSE "zero"]
        /\ executable = [u \in Task |-> IF u = t THEN x ELSE NULL]
        /\ pc = [u \in Task |-> IF u = t THEN "user" ELSE "free"]
  BY <1>0 DEF Init
<1>2. p \in Page /\ Top \in Addr /\ NULL \notin Entry
  BY <1>0, MemoryAssumption DEF Page, Addr, Top
<1>3. PICK e : e = [page |-> p, rw |-> TRUE, dirty |-> TRUE]
  OBVIOUS
<1>4. e \in Entry /\ e.page = p
  BY <1>2, <1>3 DEF Entry
<1>5. \A b \in Addr : pte[t][b] = IF b = Top THEN e ELSE NULL
  BY <1>1, <1>2, <1>3 DEF ArgEntries, NoEntries
<1>6. Seen(t) = [b \in Addr |-> IF b = Top THEN "args" ELSE Untouched(x, b)]
  <2>1. Seen(t) = [b \in Addr |-> Content(t, b)]
    BY <1>1 DEF Seen, Content, Gone
  <2>2. \A b \in Addr : Content(t, b) = IF b = Top THEN "args" ELSE Untouched(x, b)
    BY <1>1, <1>2, <1>4, <1>5 DEF Content, Present
  <2> QED BY <2>1, <2>2
<1>7. Seen(t) = Abstract!Started(x)
  BY <1>6 DEF Abstract!Started, Abstract!Untouched, Untouched, Abstract!Addr, Addr,
              Abstract!Top, Top
<1>8. \A u \in Task : u # t => Seen(u) = NULL
  BY <1>1 DEF Seen, Gone
<1>9. [u \in Task |-> Seen(u)] = [u \in Task |-> IF u = t THEN Abstract!Started(x) ELSE NULL]
  BY <1>7, <1>8
<1> QED BY <1>9 DEF Abstract!SInit

\* Every step is one of AddressSpaces, or not seen.
LEMMA StepsAreSeparate ==
  ASSUME MemoryInv, MemoryInv', ContentInv, Windows \subseteq {"exec"}, [Next]_vars
  PROVE  ContentInv' /\ [Abstract!SNext]_([t \in Task |-> Seen(t)])
<1> DEFINE mem == [t \in Task |-> Seen(t)]
<1>1. CASE UNCHANGED vars
  <2>1. UNCHANGED <<mem_map, pte, data, task_page, executable, pc, at, fault, arg, next, running>>
    BY <1>1 DEF vars, tables, load, exec
  <2>2. ContentInv'
    BY <2>1 DEF ContentInv, ContentRight, CleanIsFile, Present, Writable, Writing
  <2>3. \A t \in Task : Seen(t)' = Seen(t)
    BY <2>1 DEF Seen, Present, Untouched
  <2> QED BY <2>2, <2>3
<1>2. CASE Next
  <2>1. PICK t \in Task : UserStep(t) \/ LifeStep(t)
    BY <1>2 DEF Next
  <2>2. /\ ContentInv'
        /\ \/ Unseen \/ Ends(t)
           \/ \E a \in Addr : Writes(t, a)
           \/ \E u \in Task : Forks(t, u)
           \/ \E x \in Program : Begins(t, x)
    BY <2>1, UserStepSeen, LifeStepSeen
  <2>3. CASE Unseen
    BY <2>2, <2>3 DEF Unseen
  <2>4. CASE Ends(t)
    <3>1. mem[t] # NULL /\ mem' = [mem EXCEPT ![t] = NULL]
      BY <2>4, SeenIsMemory DEF Ends
    <3>2. Abstract!End(t)
      BY <3>1 DEF Abstract!End
    <3> QED BY <2>2, <3>2 DEF Abstract!SNext
  <2>5. CASE \E a \in Addr : Writes(t, a)
    <3>1. PICK a \in Addr : Writes(t, a)
      BY <2>5
    <3>2. mem[t] # NULL /\ mem' = [mem EXCEPT ![t][a] = t]
      BY <3>1, SeenIsMemory DEF Writes
    <3>3. Abstract!Write(t, a) /\ a \in Abstract!Addr
      BY <3>2 DEF Abstract!Write, Addr, Abstract!Addr
    <3> QED BY <2>2, <3>3 DEF Abstract!SNext
  <2>6. CASE \E u \in Task : Forks(t, u)
    <3>1. PICK u \in Task : Forks(t, u)
      BY <2>6
    <3>2. mem[t] # NULL /\ mem[u] = NULL /\ mem' = [mem EXCEPT ![u] = mem[t]]
      BY <3>1, SeenIsMemory DEF Forks
    <3>3. Abstract!ForkTask(t, u)
      BY <3>2 DEF Abstract!ForkTask
    <3> QED BY <2>2, <3>3 DEF Abstract!SNext
  <2>7. CASE \E x \in Program : Begins(t, x)
    <3>1. PICK x \in Program : Begins(t, x)
      BY <2>7
    <3>2. Seen(t)' = Abstract!Started(x)
      BY <3>1 DEF Begins, Abstract!Started, Abstract!Untouched, Untouched, Abstract!Addr,
                  Addr, Abstract!Top, Top
    <3>3. mem[t] # NULL /\ mem' = [mem EXCEPT ![t] = Abstract!Started(x)]
      BY <3>1, <3>2, SeenIsMemory DEF Begins
    <3>4. Abstract!Execute(t, x)
      BY <3>3 DEF Abstract!Execute
    <3> QED BY <2>2, <3>4 DEF Abstract!SNext
  <2> QED BY <2>2, <2>3, <2>4, <2>5, <2>6, <2>7
<1> QED BY <1>1, <1>2

\* Every task has a memory of its own: whatever is shared after fork, loaded
\* and shared on demand, copied before a write and freed, a program sees what
\* it would see if each task had all its pages to itself.  It holds for a
\* kernel in which no window but "exec" is open: in particular, no call
\* returns with a copy of a changed page of the program to which it has not
\* written ("unused", which the code allows).
THEOREM MemoryImplementsAddressSpaces ==
  ASSUME Windows \subseteq {"exec"}
  PROVE  Spec => MemoriesAreSeparate
<1>1. "oom" \notin Windows
  OBVIOUS
<1>2. Init => MemoryInv /\ ContentInv /\ Abstract!SInit
  BY MemoryInvAtFirst, ContentInvAtFirst, FirstIsStarted
<1>3. MemoryInv /\ ContentInv /\ [Next]_vars
        => MemoryInv' /\ ContentInv' /\ [Abstract!SNext]_([t \in Task |-> Seen(t)])
  BY <1>1, MemoryInvKept, StepsAreSeparate
<1> QED BY <1>2, <1>3, PTL DEF Spec, MemoriesAreSeparate, Abstract!SSpec
=============================================================================
