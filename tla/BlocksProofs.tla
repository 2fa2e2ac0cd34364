---------------------------- MODULE BlocksProofs ----------------------------
(***************************************************************************)
(* Proofs about the blocks of files, their bit map and truncation, for     *)
(* files and devices of any size and any number of tasks.                  *)
(***************************************************************************)
EXTENDS MCFiles, SequenceTheorems, FiniteSetTheorems, TLAPS

-----------------------------------------------------------------------------
(***************************************************************************)
(* Numbers.                                                                *)
(***************************************************************************)
\* A set of natural numbers that is not empty has a least member.
LEMMA LeastNatural ==
  ASSUME NEW S \in SUBSET Nat, S # {}
  PROVE  \E m \in S : \A n \in S : m <= n
<1>1. IsWellFoundedOn(OpToRel(<, Nat), Nat)
  BY NatLessThanWellFounded
<1>2. PICK m \in S : \A n \in S : <<n, m>> \notin OpToRel(<, Nat)
  BY <1>1, WFMin
<1>3. \A n \in S : <<n, m>> \in OpToRel(<, Nat) <=> n < m
  BY DEF OpToRel
<1>4. \A n \in S : ~(n < m)
  BY <1>2, <1>3
<1>5. \A n \in S : n \in Nat
  OBVIOUS
<1>6. \A n \in S : m <= n
  BY <1>4, <1>5
<1> QED BY <1>6

-----------------------------------------------------------------------------
(***************************************************************************)
(* Users: who uses what is a function, and a count is a number of users.   *)
(***************************************************************************)
Number(f, S, n) == Cardinality({y \in S : f[y] = n})

LEMMA NumberIsNat ==
  ASSUME NEW S, IsFiniteSet(S), NEW f, NEW n
  PROVE  /\ Number(f, S, n) \in Nat
         /\ Number(f, S, n) = 0 <=> \A y \in S : f[y] # n
<1>1. IsFiniteSet({y \in S : f[y] = n})
  BY FS_Subset
<1> QED BY <1>1, FS_CardinalityType, FS_EmptySet DEF Number

LEMMA UsesStay ==
  ASSUME NEW S, NEW f, NEW g, \A y \in S : f[y] = g[y]
  PROVE  \A n : Number(g, S, n) = Number(f, S, n)
<1> TAKE n
<1>1. {y \in S : g[y] = n} = {y \in S : f[y] = n}
  OBVIOUS
<1> QED BY <1>1 DEF Number

SameBut(f, g, S, x) == \A y \in S \ {x} : f[y] = g[y]

\* One user changes what it uses.
LEMMA UseMoves ==
  ASSUME NEW S, IsFiniteSet(S), NEW f, NEW g, NEW x \in S,
         SameBut(f, g, S, x), NEW n
  PROVE  Number(g, S, n) = Number(f, S, n) + (IF g[x] = n THEN 1 ELSE 0)
                                           - (IF f[x] = n THEN 1 ELSE 0)
<1> DEFINE F == {y \in S : f[y] = n}
           G == {y \in S : g[y] = n}
<1>1. F \ {x} = G \ {x}
  BY DEF SameBut
<1>2. IsFiniteSet(F) /\ IsFiniteSet(G)
  BY FS_Subset
<1>3. Cardinality(F \ {x}) = IF x \in F THEN Cardinality(F) - 1 ELSE Cardinality(F)
  BY <1>2, FS_RemoveElement
<1>4. Cardinality(G \ {x}) = IF x \in G THEN Cardinality(G) - 1 ELSE Cardinality(G)
  BY <1>2, FS_RemoveElement
<1>5. Cardinality(F) \in Nat /\ Cardinality(G) \in Nat
  BY <1>2, FS_CardinalityType
<1>6. (x \in F <=> f[x] = n) /\ (x \in G <=> g[x] = n)
  OBVIOUS
<1>7. Number(f, S, n) = Cardinality(F) /\ Number(g, S, n) = Cardinality(G)
  BY DEF Number
<1>8. PICK c : c = Cardinality(F \ {x})
  OBVIOUS
<1>9. c = Cardinality(F) - (IF f[x] = n THEN 1 ELSE 0)
  BY <1>3, <1>5, <1>6, <1>8
<1>10. c = Cardinality(G) - (IF g[x] = n THEN 1 ELSE 0)
  BY <1>1, <1>4, <1>5, <1>6, <1>8
<1> HIDE DEF F, G
<1> QED BY <1>5, <1>7, <1>9, <1>10

-----------------------------------------------------------------------------
(***************************************************************************)
(* Blocks: a forest.  A block that is in use has one place that leads to   *)
(* it, a number in an inode or in a block of numbers.  What else there is  *)
(* to say of a block is in g: where it hangs, in which file and how far    *)
(* from the data, and how far a truncate() has come with what hangs on it. *)
(***************************************************************************)
\* The features of the run: one task at a time writes to a file, and none is at work in
\* one that is truncated.
BlocksAreTame ==
    \A r \in BlockRegimes : r \cap {"two_writers", "truncate_used"} = {}

\* How many blocks of numbers are between a place of an inode and the data.
Level(z) == IF z < DIRECT THEN 0 ELSE IF z = DIRECT THEN 1 ELSE 2

Leads(g, v, s, f, l) == v \in g.here /\ g.up[v] = s /\ g.own[v] = f /\ g.lvl[v] = l

\* The places that truncate() has not passed lead to the blocks that hang there.
Forest(g) ==
    /\ g.here \subseteq zmap
    /\ \A b \in g.here : g.own[b] \in File /\ g.lvl[b] \in 0..2 /\ g.done[b] \in 0..PER
    /\ \A f \in File :
         /\ g.owed[f] \subseteq B!Zone
         /\ \A z \in g.owed[f] : i_zone[f][z] # NULL =>
               Leads(g, i_zone[f][z], <<"i", f, z>>, f, Level(z))
    /\ \A b \in g.here : \A k \in B!Index :
         k >= g.done[b] /\ entry[b][k] # NULL =>
               Leads(g, entry[b][k], <<"e", b, k>>, g.own[b], g.lvl[b] - 1)
    /\ \A v \in g.here :
         \/ \E z \in g.owed[g.own[v]] :
               g.up[v] = <<"i", g.own[v], z>> /\ i_zone[g.own[v]][z] = v
         \/ \E b \in g.here : \E k \in B!Index :
               g.up[v] = <<"e", b, k>> /\ k >= g.done[b] /\ entry[b][k] = v

\* All that hangs on the blocks of file f is still to be done, but for those in X.
Whole(g, f, X) == \A b \in g.here : g.own[b] = f /\ b \notin X => g.done[b] = 0

Contents(g) == \A b \in g.here : g.lvl[b] = 0 => data[b] \in {NULL, g.own[b]}

\* A file that is not being truncated.
FileRight(g, f) ==
    (\A t \in Task : pc[t] = "truncate" => file[t] # f)
       => g.owed[f] = B!Zone /\ Whole(g, f, {})

\* Blocks that new_block() has taken and not given to its caller yet.
NewRight(g) ==
    /\ \A b \in zmap : b \in g.here \/ \E t \in Task : pc[t] = "new_block" /\ blk[t] = b
    /\ \A t, u \in Task : pc[t] = "new_block" /\ pc[u] = "new_block" /\ blk[t] = blk[u] => t = u

BuffersCounted(g) ==
    \A b \in Block : b_count[b] = Number(g.one, Task, b) + Number(g.two, Task, b)

Alone ==
    \A t, u \in Task : t # u /\ file[t] = file[u] /\ file[t] # NULL =>
       pc[t] # "truncate" /\ ~(create[t] /\ create[u])

\* A block of file f.
In(g, b, f) == b \in g.here /\ g.own[b] = f

-----------------------------------------------------------------------------
(***************************************************************************)
(* What truncate() has still to do.                                        *)
(***************************************************************************)
Zones(z) == [i \in 1..(DIRECT - z) |-> B!Do("zone", NULL, z + i - 1, 0)]
Clears == <<B!Do("clear", NULL, DIRECT, 0), B!Do("clear", NULL, DIRECT + 1, 0)>>
Root2 == <<B!Do("root", NULL, DIRECT + 1, 2), B!Do("clear", NULL, DIRECT, 0),
           B!Do("clear", NULL, DIRECT + 1, 0)>>
Roots == <<B!Do("root", NULL, DIRECT, 1), B!Do("root", NULL, DIRECT + 1, 2),
           B!Do("clear", NULL, DIRECT, 0), B!Do("clear", NULL, DIRECT + 1, 0)>>
Rest(z) == Zones(z) \o Roots

Cleared(f, z) == \A y \in 0..(z - 1) : i_zone[f][y] = NULL

\* At the direct blocks.
AtZones(g, s, f) ==
    /\ Whole(g, f, {})
    /\ \/ \E z \in 0..DIRECT :
            s = Rest(z) /\ Cleared(f, z) /\ g.owed[f] = z..(DIRECT + 1)
       \/ \E z \in 0..(DIRECT - 1) : \E v \in g.here :
            /\ s = <<B!Do("free", v, 0, 0), B!Do("clear", NULL, z, 0)>> \o Rest(z + 1)
            /\ Cleared(f, z) /\ g.owed[f] = z..(DIRECT + 1)
            /\ In(g, v, f) /\ g.up[v] = <<"i", f, z>>
       \/ \E z \in 0..(DIRECT - 1) :
            /\ s = <<B!Do("clear", NULL, z, 0)>> \o Rest(z + 1)
            /\ Cleared(f, z) /\ g.owed[f] = (z + 1)..(DIRECT + 1)

\* In free_ind() of block v, before r.
AtInd(g, s, f, one, v, r) ==
    \/ /\ s = <<B!Do("tree", v, 0, 1)>> \o r /\ one = NULL
       /\ v # NULL => g.done[v] = 0
    \/ \E j \in 0..PER :
          /\ v # NULL /\ one = v /\ g.done[v] = j
          /\ s = <<B!Do("scan", v, j, 1)>> \o r
    \/ \E j \in B!Index : \E w \in g.here :
          /\ v # NULL /\ one = v /\ g.done[v] = j
          /\ In(g, w, f) /\ g.up[w] = <<"e", v, j>>
          /\ s = <<B!Do("free", w, 0, 0), B!Do("scan", v, j + 1, 1)>> \o r
    \/ v # NULL /\ one = NULL /\ g.done[v] = PER /\ s = <<B!Do("free", v, 0, 0)>> \o r

AtRoot1(g, s, f, one) ==
    /\ g.owed[f] = DIRECT..(DIRECT + 1)
    /\ \E v \in Block \cup {NULL} :
          /\ AtInd(g, s, f, one, v, Root2) /\ Whole(g, f, {v})
          /\ v # NULL => In(g, v, f) /\ g.up[v] = <<"i", f, DIRECT>>
          /\ v = NULL => i_zone[f][DIRECT] = NULL

\* In free_dind() of block b, k entries of it done.
AtDind(g, s, f, one, two, b, k) ==
    \/ /\ s = <<B!Do("scan", b, k, 2)>> \o Clears /\ one = NULL /\ two = b
       /\ Whole(g, f, {b})
    \/ /\ k < PER /\ two = b
       /\ \E v \in g.here :
             /\ AtInd(g, s, f, one, v, <<B!Do("scan", b, k + 1, 2)>> \o Clears)
             /\ In(g, v, f) /\ g.up[v] = <<"e", b, k>> /\ Whole(g, f, {b, v})
    \/ /\ k = PER /\ s = <<B!Do("free", b, 0, 0)>> \o Clears /\ one = NULL /\ two = NULL
       /\ Whole(g, f, {b})

AtRoot2(g, s, f, one, two) ==
    /\ g.owed[f] = {DIRECT + 1}
    /\ \/ /\ s = Root2 \/ s = <<B!Do("tree", i_zone[f][DIRECT + 1], 0, 2)>> \o Clears
          /\ one = NULL /\ two = NULL /\ Whole(g, f, {})
       \/ \E b \in g.here : \E k \in 0..PER :
             /\ In(g, b, f) /\ g.up[b] = <<"i", f, DIRECT + 1>> /\ g.done[b] = k
             /\ AtDind(g, s, f, one, two, b, k)

AtEnd(g, s, f) ==
    /\ g.owed[f] = {} /\ Whole(g, f, {})
    /\ \/ s = Clears
       \/ s = <<B!Do("clear", NULL, DIRECT + 1, 0)>> /\ i_zone[f][DIRECT] = NULL
       \/ s = <<>> /\ i_zone[f][DIRECT] = NULL /\ i_zone[f][DIRECT + 1] = NULL

Truncates(g, s, f, one, two) ==
    \/ AtZones(g, s, f) /\ one = NULL /\ two = NULL
    \/ /\ Cleared(f, DIRECT)
       /\ \/ AtRoot1(g, s, f, one) /\ two = NULL
          \/ AtRoot2(g, s, f, one, two)
          \/ AtEnd(g, s, f) /\ one = NULL /\ two = NULL

-----------------------------------------------------------------------------
(***************************************************************************)
(* What _bmap() has still to do.                                           *)
(***************************************************************************)
Walks(g, t) ==
    /\ file[t] \in File /\ path[t] \in Seq(Nat) /\ Len(path[t]) \in 1..3
    /\ node[t] = NULL => path[t][1] \in B!Zone /\ Level(path[t][1]) = Len(path[t]) - 1
    /\ node[t] # NULL => /\ In(g, node[t], file[t]) /\ g.lvl[node[t]] = Len(path[t])
                         /\ path[t][1] \in B!Index
    /\ \A i \in 2..Len(path[t]) : path[t][i] \in B!Index

\* The place it looks at.
Pointer(t) == IF node[t] = NULL THEN i_zone[file[t]][path[t][1]] ELSE entry[node[t]][path[t][1]]

BlockTask(g, t) ==
    /\ pc[t] = "out" => file[t] = NULL /\ node[t] = NULL /\ ~create[t] /\ g.one[t] = NULL
    /\ pc[t] # "truncate" => todo[t] = <<>> /\ g.two[t] = NULL
    /\ pc[t] \in {"bmap", "new_block"} => Walks(g, t) /\ g.one[t] = node[t]
    /\ pc[t] = "new_block" => create[t] /\ blk[t] \in zmap \ g.here /\ Pointer(t) = NULL
    /\ pc[t] = "data" => /\ file[t] \in File /\ node[t] = NULL /\ g.one[t] = blk[t]
                         /\ In(g, blk[t], file[t]) /\ g.lvl[blk[t]] = 0
    /\ pc[t] = "truncate" => /\ file[t] \in File /\ node[t] = NULL /\ ~create[t]
                             /\ Truncates(g, todo[t], file[t], g.one[t], g.two[t])

BlockTypes ==
    /\ on \in BlockRegimes /\ panic = NULL
    /\ zmap \subseteq Block
    /\ i_zone \in [File -> [B!Zone -> Block \cup {NULL}]]
    /\ entry \in [Block -> [B!Index -> Block \cup {NULL}]]
    /\ data \in [Block -> File \cup {NULL}]
    /\ pc \in [Task -> {"out", "bmap", "new_block", "data", "truncate"}]
    /\ file \in [Task -> File \cup {NULL}]
    /\ create \in [Task -> BOOLEAN]
    /\ path \in [Task -> Seq(Nat)]
    /\ node \in [Task -> Block \cup {NULL}]
    /\ blk \in [Task -> Block \cup {NULL}]
    /\ todo \in [Task -> Seq(B!Item)]

BlocksRight(g) ==
    /\ BlockTypes /\ BlocksAreTame
    /\ Forest(g) /\ Contents(g) /\ NewRight(g) /\ BuffersCounted(g) /\ Alone
    /\ \A f \in File : FileRight(g, f)
    /\ \A t \in Task : BlockTask(g, t)

BlockInv == \E g : BlocksRight(g)
-----------------------------------------------------------------------------
LEMMA BlockConstants ==
  /\ DIRECT \in Nat \ {0} /\ PER \in Nat \ {0} /\ Block \subseteq Nat
  /\ NULL \notin Block /\ NULL \notin File /\ NULL \notin Nat
  /\ B!Zone = 0..(DIRECT + 1) /\ B!Index = 0..(PER - 1)
  /\ FileBlock \subseteq 0..(DIRECT + PER + PER * PER - 1)
  /\ IsFiniteSet(Task)
<1>1. B!FileBlocksAssumption /\ M!MountsAssumption
  BY FilesAssumption
<1>2. M!IsFiniteSet(Task) => IsFiniteSet(Task)
  BY DEF M!IsFiniteSet, IsFiniteSet
<1>3. IsFiniteSet(Task)
  BY <1>1, <1>2 DEF M!MountsAssumption
<1> QED BY <1>1, <1>3 DEF B!FileBlocksAssumption, B!Zone, B!Index

\* What a sequence begins with stays its beginning.
LEMMA TailOf ==
  ASSUME NEW X, NEW p \in Seq(X), p # <<>>, NEW s \in Seq(X)
  PROVE  /\ p \o s \in Seq(X) /\ p \o s # <<>> /\ Head(p \o s) = p[1]
         /\ Tail(p \o s) = Tail(p) \o s
<1>1. PICK q : q = p \o s
  OBVIOUS
<1>2. /\ q \in Seq(X) /\ Len(q) = Len(p) + Len(s)
      /\ \A i \in 1 .. Len(p) + Len(s) : q[i] = IF i <= Len(p) THEN p[i] ELSE s[i - Len(p)]
  BY <1>1, ConcatProperties
<1>3. Len(p) \in Nat \ {0} /\ Len(s) \in Nat
  OBVIOUS
<1>4. q # <<>> /\ Head(q) = p[1]
  BY <1>2, <1>3
<1>5. PICK u : u = Tail(q)
  OBVIOUS
<1>6. /\ u \in Seq(X) /\ Len(u) = Len(q) - 1 /\ \A i \in 1..Len(u) : u[i] = q[i + 1]
  BY <1>2, <1>4, <1>5
<1>7. PICK w : w = Tail(p)
  OBVIOUS
<1>8. /\ w \in Seq(X) /\ Len(w) = Len(p) - 1 /\ \A i \in 1..Len(w) : w[i] = p[i + 1]
  BY <1>7
<1>9. PICK x : x = w \o s
  OBVIOUS
<1>10. /\ x \in Seq(X) /\ Len(x) = Len(w) + Len(s)
       /\ \A i \in 1 .. Len(w) + Len(s) : x[i] = IF i <= Len(w) THEN w[i] ELSE s[i - Len(w)]
  BY <1>8, <1>9, ConcatProperties
<1>11. Len(u) = Len(x)
  BY <1>2, <1>3, <1>6, <1>8, <1>10
<1>12. ASSUME NEW i \in 1..Len(u) PROVE u[i] = x[i]
  <2>1. u[i] = q[i + 1] /\ i + 1 \in 1..(Len(p) + Len(s))
    BY <1>2, <1>3, <1>6
  <2>2. i \in 1..(Len(w) + Len(s))
    BY <1>3, <1>10, <1>11
  <2>3. CASE i <= Len(w)
    <3>1. x[i] = w[i] /\ w[i] = p[i + 1]
      BY <1>3, <1>8, <1>10, <2>2, <2>3
    <3>2. q[i + 1] = p[i + 1]
      BY <1>2, <1>3, <1>8, <2>1, <2>3
    <3> QED BY <2>1, <3>1, <3>2
  <2>4. CASE ~(i <= Len(w))
    <3>1. x[i] = s[i - Len(w)]
      BY <1>10, <2>2, <2>4
    <3>2. q[i + 1] = s[i + 1 - Len(p)]
      BY <1>2, <1>3, <1>8, <2>1, <2>4
    <3>3. i + 1 - Len(p) = i - Len(w)
      BY <1>3, <1>8
    <3> QED BY <2>1, <3>1, <3>2, <3>3
  <2> QED BY <2>3, <2>4
<1>13. u = x
  BY <1>6, <1>10, <1>11, <1>12, SeqEqual
<1> QED BY <1>1, <1>2, <1>4, <1>5, <1>7, <1>9, <1>13

\* Sequences of items.
LEMMA Items ==
  ASSUME NEW s \in Seq(B!Item), NEW a \in B!Item, NEW b \in B!Item
  PROVE  /\ <<>> \o s = s
         /\ <<a>> \o s \in Seq(B!Item) /\ <<a>> \o s # <<>>
         /\ Head(<<a>> \o s) = a /\ Tail(<<a>> \o s) = s
         /\ <<a, b>> \o s \in Seq(B!Item) /\ <<a, b>> \o s # <<>>
         /\ Head(<<a, b>> \o s) = a /\ Tail(<<a, b>> \o s) = <<b>> \o s
<1>1. PICK X : X = B!Item
  OBVIOUS
<1>2. s \in Seq(X) /\ a \in X /\ b \in X
  BY <1>1
<1>3. <<>> \o s = s
  BY <1>2, ConcatEmptySeq
<1>5. /\ <<a>> \in Seq(X) /\ <<a>> # <<>> /\ <<a>>[1] = a /\ Tail(<<a>>) = <<>>
      /\ <<a, b>> \in Seq(X) /\ <<a, b>> # <<>> /\ <<a, b>>[1] = a /\ Tail(<<a, b>>) = <<b>>
  BY <1>2
<1>6. /\ <<a>> \o s \in Seq(X) /\ <<a>> \o s # <<>>
      /\ Head(<<a>> \o s) = a /\ Tail(<<a>> \o s) = s
  <2>1. PICK p : p = <<a>>
    OBVIOUS
  <2>2. p \in Seq(X) /\ p # <<>> /\ p[1] = a /\ Tail(p) = <<>>
    BY <1>5, <2>1
  <2> QED BY <1>2, <1>3, <2>1, <2>2, TailOf
<1>7. /\ <<a, b>> \o s \in Seq(X) /\ <<a, b>> \o s # <<>>
      /\ Head(<<a, b>> \o s) = a /\ Tail(<<a, b>> \o s) = <<b>> \o s
  <2>1. PICK p : p = <<a, b>>
    OBVIOUS
  <2>2. p \in Seq(X) /\ p # <<>> /\ p[1] = a /\ Tail(p) = <<b>>
    BY <1>5, <2>1
  <2> QED BY <1>2, <2>1, <2>2, TailOf
<1> QED BY <1>1, <1>3, <1>6, <1>7

LEMMA ItemFields ==
  ASSUME NEW k, NEW b, NEW n, NEW d
  PROVE  /\ B!Do(k, b, n, d).kind = k /\ B!Do(k, b, n, d).b = b /\ B!Do(k, b, n, d).k = n
         /\ B!Do(k, b, n, d).depth = d
         /\ k \in {"zone", "root", "tree", "scan", "free", "clear"} /\ b \in Block \cup {NULL}
            /\ n \in Nat /\ d \in 0..2 => B!Do(k, b, n, d) \in B!Item
BY DEF B!Do, B!Item

\* The lists of what is left.
LEMMA Lists ==
  /\ Clears \in Seq(B!Item) /\ Root2 \in Seq(B!Item) /\ Roots \in Seq(B!Item)
  /\ Clears # <<>> /\ Head(Clears) = B!Do("clear", NULL, DIRECT, 0)
  /\ Tail(Clears) = <<B!Do("clear", NULL, DIRECT + 1, 0)>>
  /\ Root2 # <<>> /\ Head(Root2) = B!Do("root", NULL, DIRECT + 1, 2) /\ Tail(Root2) = Clears
  /\ Roots # <<>> /\ Head(Roots) = B!Do("root", NULL, DIRECT, 1) /\ Tail(Roots) = Root2
<1>1. PICK a : a = B!Do("clear", NULL, DIRECT, 0)
  OBVIOUS
<1>2. PICK b : b = B!Do("clear", NULL, DIRECT + 1, 0)
  OBVIOUS
<1>3. PICK c : c = B!Do("root", NULL, DIRECT + 1, 2)
  OBVIOUS
<1>4. PICK d : d = B!Do("root", NULL, DIRECT, 1)
  OBVIOUS
<1>5. PICK X : X = B!Item
  OBVIOUS
<1>6. DIRECT \in Nat
  BY BlockConstants
<1>7. a \in X /\ b \in X /\ c \in X /\ d \in X
  BY <1>1, <1>2, <1>3, <1>4, <1>5, <1>6, ItemFields
<1>8. Clears = <<a, b>> /\ Root2 = <<c, a, b>> /\ Roots = <<d, c, a, b>>
  BY <1>1, <1>2, <1>3, <1>4 DEF Clears, Root2, Roots
<1>9. /\ <<a, b>> \in Seq(X) /\ <<c, a, b>> \in Seq(X) /\ <<d, c, a, b>> \in Seq(X)
  BY <1>7
<1>10. /\ Head(<<a, b>>) = a /\ Tail(<<a, b>>) = <<b>> /\ Head(<<c, a, b>>) = c
       /\ Tail(<<c, a, b>>) = <<a, b>> /\ Head(<<d, c, a, b>>) = d /\ Tail(<<d, c, a, b>>) = <<c, a, b>>
       /\ <<a, b>> # <<>> /\ <<c, a, b>> # <<>> /\ <<d, c, a, b>> # <<>>
  OBVIOUS
<1> QED BY <1>1, <1>2, <1>3, <1>4, <1>5, <1>8, <1>9, <1>10

LEMMA RestIs ==
  ASSUME NEW z \in 0..DIRECT
  PROVE  /\ Rest(z) \in Seq(B!Item) /\ Rest(z) # <<>>
         /\ z = DIRECT => Rest(z) = Roots
         /\ z < DIRECT => Head(Rest(z)) = B!Do("zone", NULL, z, 0) /\ Tail(Rest(z)) = Rest(z + 1)
<1>1. PICK X : X = B!Item
  OBVIOUS
<1>2. DIRECT \in Nat /\ z \in Nat
  BY BlockConstants
<1>3. ASSUME NEW y \in 0..DIRECT
      PROVE  /\ Zones(y) \in Seq(X) /\ Len(Zones(y)) = DIRECT - y
             /\ \A i \in 1..(DIRECT - y) : Zones(y)[i] = B!Do("zone", NULL, y + i - 1, 0)
  <2>1. \A i \in 1..(DIRECT - y) : B!Do("zone", NULL, y + i - 1, 0) \in X
    <3> TAKE i \in 1..(DIRECT - y)
    <3>1. y + i - 1 \in Nat
      BY <1>2
    <3> QED BY <1>1, <3>1, ItemFields
  <2>2. DIRECT - y \in Nat
    BY <1>2
  <2> QED BY <2>1, <2>2 DEF Zones
<1>4. Roots \in Seq(X)
  BY <1>1, Lists
<1>5. CASE z = DIRECT
  <2>1. Zones(z) = <<>>
    <3>1. Zones(z) \in Seq(X) /\ Len(Zones(z)) = 0
      BY <1>2, <1>3, <1>5
    <3> QED BY <3>1
  <2>2. <<>> \o Roots = Roots
    BY <1>4, ConcatEmptySeq
  <2> QED BY <1>1, <1>4, <1>5, <2>1, <2>2, Lists DEF Rest
<1>6. CASE z < DIRECT
  <2>0. z + 1 \in 0..DIRECT
    BY <1>2, <1>6
  <2>1. PICK p : p = Zones(z)
    OBVIOUS
  <2>2. PICK q : q = Zones(z + 1)
    OBVIOUS
  <2>3. /\ p \in Seq(X) /\ Len(p) = DIRECT - z
        /\ \A i \in 1..(DIRECT - z) : p[i] = B!Do("zone", NULL, z + i - 1, 0)
    BY <1>3, <2>1
  <2>4. /\ q \in Seq(X) /\ Len(q) = DIRECT - (z + 1)
        /\ \A i \in 1..(DIRECT - (z + 1)) : q[i] = B!Do("zone", NULL, (z + 1) + i - 1, 0)
    BY <1>3, <2>0, <2>2
  <2>5. p # <<>> /\ p[1] = B!Do("zone", NULL, z, 0)
    <3>1. 1 \in 1..(DIRECT - z) /\ z + 1 - 1 = z
      BY <1>2, <1>6
    <3>2. p[1] = B!Do("zone", NULL, z + 1 - 1, 0)
      BY <2>3, <3>1
    <3> QED BY <1>2, <1>6, <2>3, <3>1, <3>2
  <2>6. PICK w : w = Tail(p)
    OBVIOUS
  <2>7. w \in Seq(X) /\ Len(w) = Len(p) - 1 /\ \A i \in 1..Len(w) : w[i] = p[i + 1]
    BY <2>3, <2>5, <2>6
  <2>8. \A i \in 1..Len(w) : w[i] = q[i]
    <3> TAKE i \in 1..Len(w)
    <3>1. i + 1 \in 1..(DIRECT - z) /\ i \in 1..(DIRECT - (z + 1)) /\ z + (i + 1) - 1 = (z + 1) + i - 1
      BY <1>2, <2>3, <2>7
    <3>2. p[i + 1] = B!Do("zone", NULL, z + (i + 1) - 1, 0)
      BY <2>3, <3>1
    <3>3. q[i] = B!Do("zone", NULL, (z + 1) + i - 1, 0)
      BY <2>4, <3>1
    <3> QED BY <2>7, <3>1, <3>2, <3>3
  <2>9. w = q
    BY <1>2, <2>3, <2>4, <2>7, <2>8, SeqEqual
  <2>10. /\ p \o Roots \in Seq(X) /\ p \o Roots # <<>> /\ Head(p \o Roots) = p[1]
         /\ Tail(p \o Roots) = Tail(p) \o Roots
    BY <1>4, <2>3, <2>5, TailOf
  <2>11. p \o Roots = Rest(z) /\ q \o Roots = Rest(z + 1)
    BY <2>1, <2>2 DEF Rest
  <2>12. Tail(p) = q /\ z # DIRECT
    BY <1>2, <1>6, <2>6, <2>9
  <2>13. Tail(p \o Roots) = q \o Roots
    BY <2>10, <2>12
  <2>14. Rest(z) \in Seq(B!Item) /\ Rest(z) # <<>>
    BY <1>1, <2>10, <2>11
  <2>15. Head(Rest(z)) = B!Do("zone", NULL, z, 0) /\ Tail(Rest(z)) = Rest(z + 1)
    BY <2>5, <2>10, <2>11, <2>13
  <2> QED BY <2>12, <2>14, <2>15
<1> QED BY <1>2, <1>5, <1>6

\* The list with which truncate() begins.
LEMMA FirstList ==
  [i \in 1..DIRECT |-> B!Do("zone", NULL, i - 1, 0)]
     \o <<B!Do("root", NULL, DIRECT, 1), B!Do("root", NULL, DIRECT + 1, 2),
          B!Do("clear", NULL, DIRECT, 0), B!Do("clear", NULL, DIRECT + 1, 0)>> = Rest(0)
<1>1. DIRECT \in Nat
  BY BlockConstants
<1>2. DIRECT - 0 = DIRECT /\ \A i \in 1..DIRECT : 0 + i - 1 = i - 1
  BY <1>1
<1>3. Zones(0) = [i \in 1..DIRECT |-> B!Do("zone", NULL, i - 1, 0)]
  BY <1>2 DEF Zones
<1> QED BY <1>3 DEF Rest, Roots

\* The indices by which a block of a file is found.
LEMMA Division ==
  ASSUME NEW m \in Nat \ {0}, NEW x \in 0..(m * m - 1)
  PROVE  x \div m \in 0..(m - 1) /\ x % m \in 0..(m - 1)
<1>1. PICK q : q = x \div m
  OBVIOUS
<1>2. PICK r : r = x % m
  OBVIOUS
<1>3. x \in Nat /\ m * m \in Nat /\ x < m * m
  OBVIOUS
<1>4. q \in Int /\ r \in 0..(m - 1) /\ x = m * q + r
  BY <1>1, <1>2, <1>3
<1>5. q >= 0
  <2> SUFFICES ASSUME q <= -1 PROVE FALSE
    BY <1>4
  <2>1. m * q <= -m
    BY <1>4
  <2> QED BY <1>3, <1>4, <2>1
<1>6. q < m
  <2> SUFFICES ASSUME q >= m PROVE FALSE
    BY <1>4
  <2>1. m * q >= m * m
    BY <1>4
  <2>2. m * q \in Int
    BY <1>4
  <2> QED BY <1>3, <1>4, <2>1, <2>2
<1> QED BY <1>1, <1>2, <1>4, <1>5, <1>6

LEMMA PathsAreRight ==
  ASSUME NEW fb \in FileBlock, NEW p, p = B!PathTo(fb)
  PROVE  /\ p \in Seq(Nat) /\ Len(p) \in 1..3 /\ p[1] \in B!Zone /\ Level(p[1]) = Len(p) - 1
         /\ \A i \in 2..Len(p) : p[i] \in B!Index
<1>1. /\ DIRECT \in Nat \ {0} /\ PER \in Nat \ {0} /\ B!Zone = 0..(DIRECT + 1)
      /\ B!Index = 0..(PER - 1) /\ PER * PER \in Nat
  BY BlockConstants
<1>2. PICK m : m = PER * PER
  OBVIOUS
<1>3. m \in Nat /\ fb \in 0..(DIRECT + PER + m - 1)
  BY <1>1, <1>2, BlockConstants
<1>4. PICK i : i = fb - DIRECT
  OBVIOUS
<1>5. PICK ii : ii = fb - DIRECT - PER
  OBVIOUS
<1>6. p = IF fb < DIRECT THEN <<fb>> ELSE IF i < PER THEN <<DIRECT, i>>
          ELSE <<DIRECT + 1, ii \div PER, ii % PER>>
  BY <1>4, <1>5 DEF B!PathTo
<1>7. CASE fb < DIRECT
  <2>1. p = <<fb>> /\ fb \in Nat /\ fb \in 0..(DIRECT + 1)
    BY <1>1, <1>3, <1>6, <1>7
  <2> QED BY <1>1, <1>7, <2>1 DEF Level
<1>8. CASE ~(fb < DIRECT) /\ i < PER
  <2>1. p = <<DIRECT, i>> /\ i \in 0..(PER - 1) /\ i \in Nat
    BY <1>1, <1>3, <1>4, <1>6, <1>8
  <2> QED BY <1>1, <2>1 DEF Level
<1>9. CASE ~(fb < DIRECT) /\ ~(i < PER)
  <2>1. ii \in 0..(PER * PER - 1)
    BY <1>1, <1>2, <1>3, <1>4, <1>5, <1>9
  <2>2. PICK q : q = ii \div PER
    OBVIOUS
  <2>3. PICK r : r = ii % PER
    OBVIOUS
  <2>4. q \in 0..(PER - 1) /\ r \in 0..(PER - 1)
    BY <1>1, <2>1, <2>2, <2>3, Division
  <2>5. p = <<DIRECT + 1, q, r>>
    BY <1>6, <1>9, <2>2, <2>3
  <2> QED BY <1>1, <2>4, <2>5 DEF Level
<1> QED BY <1>7, <1>8, <1>9

-----------------------------------------------------------------------------
(***************************************************************************)
(* What a task says of its file stays true while others change other files.*)
(***************************************************************************)
SameFile(g, h, f) ==
    /\ h.owed[f] = g.owed[f]
    /\ \A b : In(h, b, f) <=> In(g, b, f)
    /\ \A b : In(g, b, f) => h.up[b] = g.up[b] /\ h.done[b] = g.done[b]

LEMMA WholeStays ==
  ASSUME NEW g, NEW h, NEW f, SameFile(g, h, f), NEW X, Whole(g, f, X)
  PROVE  Whole(h, f, X)
BY DEF Whole, SameFile, In

LEMMA AtZonesStays ==
  ASSUME NEW g, NEW h, NEW f, NEW s, SameFile(g, h, f), i_zone'[f] = i_zone[f], AtZones(g, s, f)
  PROVE  AtZones(h, s, f)'
<1>1. Whole(h, f, {}) /\ h.owed[f] = g.owed[f]
  BY WholeStays DEF AtZones, SameFile
<1>2. \A z : Cleared(f, z) => Cleared(f, z)'
  BY DEF Cleared
<1>3. CASE \E z \in 0..DIRECT : s = Rest(z) /\ Cleared(f, z) /\ g.owed[f] = z..(DIRECT + 1)
  BY <1>1, <1>2, <1>3 DEF AtZones
<1>4. CASE \E z \in 0..(DIRECT - 1) : \E v \in g.here :
            /\ s = <<B!Do("free", v, 0, 0), B!Do("clear", NULL, z, 0)>> \o Rest(z + 1)
            /\ Cleared(f, z) /\ g.owed[f] = z..(DIRECT + 1)
            /\ In(g, v, f) /\ g.up[v] = <<"i", f, z>>
  <2>1. PICK z \in 0..(DIRECT - 1) : \E v \in g.here :
            /\ s = <<B!Do("free", v, 0, 0), B!Do("clear", NULL, z, 0)>> \o Rest(z + 1)
            /\ Cleared(f, z) /\ g.owed[f] = z..(DIRECT + 1)
            /\ In(g, v, f) /\ g.up[v] = <<"i", f, z>>
    BY <1>4
  <2>2. PICK v \in g.here :
            /\ s = <<B!Do("free", v, 0, 0), B!Do("clear", NULL, z, 0)>> \o Rest(z + 1)
            /\ Cleared(f, z) /\ g.owed[f] = z..(DIRECT + 1)
            /\ In(g, v, f) /\ g.up[v] = <<"i", f, z>>
    BY <2>1
  <2>3. In(h, v, f) /\ h.up[v] = <<"i", f, z>> /\ Cleared(f, z)' /\ v \in h.here
    BY <1>2, <2>2 DEF SameFile, In
  <2> QED BY <1>1, <2>2, <2>3 DEF AtZones
<1>5. CASE \E z \in 0..(DIRECT - 1) :
            /\ s = <<B!Do("clear", NULL, z, 0)>> \o Rest(z + 1)
            /\ Cleared(f, z) /\ g.owed[f] = (z + 1)..(DIRECT + 1)
  BY <1>1, <1>2, <1>5 DEF AtZones
<1> QED BY <1>3, <1>4, <1>5 DEF AtZones

LEMMA AtIndStays ==
  ASSUME NEW g, NEW h, NEW f, NEW s, NEW one, NEW v, NEW r,
         SameFile(g, h, f), v # NULL => In(g, v, f), AtInd(g, s, f, one, v, r)
  PROVE  AtInd(h, s, f, one, v, r)
<1>1. v # NULL => h.done[v] = g.done[v]
  BY DEF SameFile
<1>2. CASE \E j \in B!Index : \E w \in g.here :
          /\ v # NULL /\ one = v /\ g.done[v] = j
          /\ In(g, w, f) /\ g.up[w] = <<"e", v, j>>
          /\ s = <<B!Do("free", w, 0, 0), B!Do("scan", v, j + 1, 1)>> \o r
  <2>1. PICK j \in B!Index : \E w \in g.here :
          /\ v # NULL /\ one = v /\ g.done[v] = j
          /\ In(g, w, f) /\ g.up[w] = <<"e", v, j>>
          /\ s = <<B!Do("free", w, 0, 0), B!Do("scan", v, j + 1, 1)>> \o r
    BY <1>2
  <2>2. PICK w \in g.here :
          /\ v # NULL /\ one = v /\ g.done[v] = j
          /\ In(g, w, f) /\ g.up[w] = <<"e", v, j>>
          /\ s = <<B!Do("free", w, 0, 0), B!Do("scan", v, j + 1, 1)>> \o r
    BY <2>1
  <2>3. In(h, w, f) /\ h.up[w] = <<"e", v, j>> /\ w \in h.here
    BY <2>2 DEF SameFile, In
  <2> QED BY <1>1, <2>2, <2>3 DEF AtInd
<1> QED BY <1>1, <1>2 DEF AtInd

LEMMA AtRoot1Stays ==
  ASSUME NEW g, NEW h, NEW f, NEW s, NEW one, SameFile(g, h, f), i_zone'[f] = i_zone[f],
         AtRoot1(g, s, f, one)
  PROVE  AtRoot1(h, s, f, one)'
<1>1. PICK v \in Block \cup {NULL} :
          /\ AtInd(g, s, f, one, v, Root2) /\ Whole(g, f, {v})
          /\ v # NULL => In(g, v, f) /\ g.up[v] = <<"i", f, DIRECT>>
          /\ v = NULL => i_zone[f][DIRECT] = NULL
  BY DEF AtRoot1
<1>2. AtInd(h, s, f, one, v, Root2)
  BY <1>1, AtIndStays
<1>3. Whole(h, f, {v})
  BY <1>1, WholeStays
<1>4. v # NULL => In(h, v, f) /\ h.up[v] = <<"i", f, DIRECT>>
  BY <1>1 DEF SameFile
<1>5. h.owed[f] = DIRECT..(DIRECT + 1)
  BY DEF SameFile, AtRoot1
<1> QED BY <1>1, <1>2, <1>3, <1>4, <1>5 DEF AtRoot1

LEMMA AtDindStays ==
  ASSUME NEW g, NEW h, NEW f, NEW s, NEW one, NEW two, NEW b, NEW k,
         SameFile(g, h, f), AtDind(g, s, f, one, two, b, k)
  PROVE  AtDind(h, s, f, one, two, b, k)
<1>1. \A X : Whole(g, f, X) => Whole(h, f, X)
  BY WholeStays
<1>2. CASE /\ k < PER /\ two = b
           /\ \E v \in g.here :
                 /\ AtInd(g, s, f, one, v, <<B!Do("scan", b, k + 1, 2)>> \o Clears)
                 /\ In(g, v, f) /\ g.up[v] = <<"e", b, k>> /\ Whole(g, f, {b, v})
  <2>1. PICK r : r = <<B!Do("scan", b, k + 1, 2)>> \o Clears
    OBVIOUS
  <2>2. PICK v \in g.here :
           /\ AtInd(g, s, f, one, v, r)
           /\ In(g, v, f) /\ g.up[v] = <<"e", b, k>> /\ Whole(g, f, {b, v})
    BY <1>2, <2>1
  <2>3. AtInd(h, s, f, one, v, r)
    BY <2>2, AtIndStays
  <2>4. In(h, v, f) /\ h.up[v] = <<"e", b, k>> /\ v \in h.here /\ Whole(h, f, {b, v})
    BY <1>1, <2>2 DEF SameFile, In
  <2> QED BY <1>2, <2>1, <2>3, <2>4 DEF AtDind
<1> QED BY <1>1, <1>2 DEF AtDind

LEMMA TruncatesStays ==
  ASSUME NEW g, NEW h, NEW f, NEW s, NEW one, NEW two, SameFile(g, h, f),
         i_zone'[f] = i_zone[f], Truncates(g, s, f, one, two)
  PROVE  Truncates(h, s, f, one, two)'
<1>1. CASE AtZones(g, s, f) /\ one = NULL /\ two = NULL
  BY <1>1, AtZonesStays DEF Truncates
<1>2. Cleared(f, DIRECT) => Cleared(f, DIRECT)'
  BY DEF Cleared
<1>3. CASE Cleared(f, DIRECT) /\ AtRoot1(g, s, f, one) /\ two = NULL
  BY <1>2, <1>3, AtRoot1Stays DEF Truncates
<1>4. CASE Cleared(f, DIRECT) /\ AtRoot2(g, s, f, one, two)
  <2>1. h.owed[f] = {DIRECT + 1}
    BY <1>4 DEF AtRoot2, SameFile
  <2>2. CASE /\ s = Root2 \/ s = <<B!Do("tree", i_zone[f][DIRECT + 1], 0, 2)>> \o Clears
             /\ one = NULL /\ two = NULL /\ Whole(g, f, {})
    <3>1. Whole(h, f, {})
      BY <2>2, WholeStays
    <3> QED BY <1>2, <1>4, <2>1, <2>2, <3>1 DEF AtRoot2, Truncates
  <2>3. CASE \E b \in g.here : \E k \in 0..PER :
             /\ In(g, b, f) /\ g.up[b] = <<"i", f, DIRECT + 1>> /\ g.done[b] = k
             /\ AtDind(g, s, f, one, two, b, k)
    <3>1. PICK b \in g.here : \E k \in 0..PER :
             /\ In(g, b, f) /\ g.up[b] = <<"i", f, DIRECT + 1>> /\ g.done[b] = k
             /\ AtDind(g, s, f, one, two, b, k)
      BY <2>3
    <3>2. PICK k \in 0..PER :
             /\ In(g, b, f) /\ g.up[b] = <<"i", f, DIRECT + 1>> /\ g.done[b] = k
             /\ AtDind(g, s, f, one, two, b, k)
      BY <3>1
    <3>3. AtDind(h, s, f, one, two, b, k)
      BY <3>2, AtDindStays
    <3>4. In(h, b, f) /\ h.up[b] = <<"i", f, DIRECT + 1>> /\ h.done[b] = k /\ b \in h.here
      BY <3>2 DEF SameFile, In
    <3>5. AtDind(h, s, f, one, two, b, k)'
      BY <3>3 DEF AtDind, AtInd, Whole, In
    <3>6. AtRoot2(h, s, f, one, two)'
      BY <2>1, <3>4, <3>5 DEF AtRoot2, In
    <3> QED BY <1>2, <1>4, <3>6 DEF Truncates
  <2> QED BY <1>4, <2>2, <2>3 DEF AtRoot2
<1>5. CASE Cleared(f, DIRECT) /\ AtEnd(g, s, f) /\ one = NULL /\ two = NULL
  <2>1. h.owed[f] = {} /\ Whole(h, f, {})
    BY <1>5, WholeStays DEF AtEnd, SameFile
  <2>2. AtEnd(h, s, f)'
    BY <1>5, <2>1 DEF AtEnd, Whole
  <2> QED BY <1>2, <1>5, <2>2 DEF Truncates
<1> QED BY <1>1, <1>3, <1>4, <1>5 DEF Truncates

SameTask(g, h, u) ==
    /\ pc'[u] = pc[u] /\ file'[u] = file[u] /\ create'[u] = create[u] /\ path'[u] = path[u]
    /\ node'[u] = node[u] /\ blk'[u] = blk[u] /\ todo'[u] = todo[u]
    /\ h.one[u] = g.one[u] /\ h.two[u] = g.two[u]

LEMMA TaskStays ==
  ASSUME NEW g, NEW h, NEW u \in Task, BlockTask(g, u), SameTask(g, h, u),
         pc[u] \in {"bmap", "new_block", "data"}
           => \A b : In(g, b, file[u]) => In(h, b, file[u]) /\ h.lvl[b] = g.lvl[b],
         pc[u] = "new_block" => blk[u] \in zmap' \ h.here /\ Pointer(u)' = Pointer(u),
         pc[u] = "truncate" => SameFile(g, h, file[u]) /\ i_zone'[file[u]] = i_zone[file[u]]
  PROVE  BlockTask(h, u)'
<1> USE DEF SameTask
<1>1. pc[u] \in {"bmap", "new_block"} => Walks(h, u)' /\ h.one[u] = node'[u]
  BY DEF Walks, BlockTask
<1>2. pc[u] = "new_block" => create'[u] /\ blk'[u] \in zmap' \ h.here /\ Pointer(u)' = NULL
  BY DEF BlockTask
<1>3. pc[u] = "data" => /\ file'[u] \in File /\ node'[u] = NULL /\ h.one[u] = blk'[u]
                        /\ In(h, blk'[u], file'[u]) /\ h.lvl[blk'[u]] = 0
  BY DEF BlockTask
<1>4. pc[u] = "truncate" => Truncates(h, todo[u], file[u], g.one[u], g.two[u])'
  <2> SUFFICES ASSUME pc[u] = "truncate"
               PROVE  Truncates(h, todo[u], file[u], g.one[u], g.two[u])'
    OBVIOUS
  <2>1. PICK s : s = todo[u]
    OBVIOUS
  <2>2. PICK f : f = file[u]
    OBVIOUS
  <2>3. Truncates(h, s, f, g.one[u], g.two[u])'
    BY <2>1, <2>2, TruncatesStays DEF BlockTask
  <2>4. s = todo'[u] /\ f = file'[u]
    BY <2>1, <2>2
  <2> QED BY <2>3, <2>4
<1>5. pc[u] = "truncate" => /\ file'[u] \in File /\ node'[u] = NULL /\ ~create'[u]
  BY DEF BlockTask
<1> QED BY <1>1, <1>2, <1>3, <1>4, <1>5 DEF BlockTask, In

-----------------------------------------------------------------------------
(***************************************************************************)
(* What one step does to the forest.                                       *)
(***************************************************************************)
\* A block that has no live entries has no blocks that hang on it.
Bare(g, p) == p \in g.here => g.done[p] = PER \/ g.lvl[p] = 0

LEMMA BareHasNone ==
  ASSUME NEW g, Forest(g), NEW p \in g.here, Bare(g, p), NEW k \in B!Index, k >= g.done[p]
  PROVE  entry[p][k] = NULL
<1>1. g.done[p] # PER
  BY BlockConstants
<1>2. g.lvl[p] = 0
  BY <1>1 DEF Bare
<1>3. g.lvl[p] - 1 \notin 0..2
  BY <1>2
<1> QED BY <1>2, <1>3 DEF Forest, Leads

\* truncate() has passed place z of file f, and freed the block there.
KillsZone(g, h, f, z, p) ==
    /\ h.here = g.here \ {p} /\ h.up = g.up /\ h.own = g.own /\ h.lvl = g.lvl /\ h.done = g.done
    /\ h.owed[f] = g.owed[f] \ {z}
    /\ \A x \in File \ {f} : h.owed[x] = g.owed[x]

LEMMA KillZone ==
  ASSUME NEW g, NEW h, Forest(g), NEW f \in File, NEW z \in g.owed[f], NEW p, p = i_zone[f][z],
         Bare(g, p), KillsZone(g, h, f, z, p), h.here \subseteq zmap', zmap \subseteq Block,
         i_zone' = i_zone, entry' = entry
  PROVE  Forest(h)'
<1>0. \A b \in g.here : b # NULL
  BY BlockConstants DEF Forest
<1>1. \A b \in h.here : b \in g.here /\ b # p
  BY DEF KillsZone
<1>2. p # NULL => p \in g.here /\ g.up[p] = <<"i", f, z>>
  BY DEF Forest, Leads
<1>3. \A b \in h.here : h.own[b] \in File /\ h.lvl[b] \in 0..2 /\ h.done[b] \in 0..PER
  BY <1>1 DEF Forest, KillsZone
<1>4. ASSUME NEW x \in File
      PROVE /\ h.owed[x] \subseteq B!Zone
            /\ \A y \in h.owed[x] : i_zone'[x][y] # NULL =>
                  Leads(h, i_zone'[x][y], <<"i", x, y>>, x, Level(y))
  <2>1. h.owed[x] \subseteq g.owed[x] /\ ~(x = f /\ z \in h.owed[x])
    BY DEF KillsZone
  <2>2. ASSUME NEW y \in h.owed[x], i_zone'[x][y] # NULL
        PROVE  Leads(h, i_zone'[x][y], <<"i", x, y>>, x, Level(y))
    <3>1. Leads(g, i_zone[x][y], <<"i", x, y>>, x, Level(y))
      BY <2>1, <2>2 DEF Forest
    <3>2. <<"i", x, y>> # <<"i", f, z>>
      BY <2>1
    <3>3. i_zone[x][y] # p
      BY <1>2, <2>2, <3>1, <3>2 DEF Leads
    <3> QED BY <3>1, <3>3 DEF Leads, KillsZone
  <2> QED BY <2>1, <2>2 DEF Forest
<1>5. ASSUME NEW b \in h.here, NEW k \in B!Index, k >= h.done[b], entry'[b][k] # NULL
      PROVE  Leads(h, entry'[b][k], <<"e", b, k>>, h.own[b], h.lvl[b] - 1)
  <2>1. Leads(g, entry[b][k], <<"e", b, k>>, g.own[b], g.lvl[b] - 1)
    BY <1>1, <1>5 DEF Forest, KillsZone
  <2>2. <<"e", b, k>> # <<"i", f, z>>
    OBVIOUS
  <2>3. entry[b][k] # p
    BY <1>2, <1>5, <2>1, <2>2 DEF Leads
  <2> QED BY <2>1, <2>3 DEF Leads, KillsZone
<1>6. ASSUME NEW v \in h.here
      PROVE \/ \E y \in h.owed[h.own[v]] :
                  h.up[v] = <<"i", h.own[v], y>> /\ i_zone'[h.own[v]][y] = v
            \/ \E b \in h.here : \E k \in B!Index :
                  h.up[v] = <<"e", b, k>> /\ k >= h.done[b] /\ entry'[b][k] = v
  <2>1. v \in g.here /\ v # p /\ v # NULL /\ g.own[v] \in File
    BY <1>0, <1>1, <1>3 DEF KillsZone
  <2>2. CASE \E y \in g.owed[g.own[v]] :
                g.up[v] = <<"i", g.own[v], y>> /\ i_zone[g.own[v]][y] = v
    <3>1. PICK y \in g.owed[g.own[v]] : g.up[v] = <<"i", g.own[v], y>> /\ i_zone[g.own[v]][y] = v
      BY <2>2
    <3>2. ~(g.own[v] = f /\ y = z)
      BY <2>1, <3>1
    <3>3. y \in h.owed[g.own[v]]
      BY <2>1, <3>1, <3>2 DEF KillsZone
    <3> QED BY <3>1, <3>3 DEF KillsZone
  <2>3. CASE \E b \in g.here : \E k \in B!Index :
                g.up[v] = <<"e", b, k>> /\ k >= g.done[b] /\ entry[b][k] = v
    <3>1. PICK b \in g.here, k \in B!Index :
                g.up[v] = <<"e", b, k>> /\ k >= g.done[b] /\ entry[b][k] = v
      BY <2>3
    <3>2. b # p
      BY <2>1, <3>1, BareHasNone
    <3> QED BY <3>1, <3>2 DEF KillsZone
  <2> QED BY <2>1, <2>2, <2>3 DEF Forest
<1> QED BY <1>3, <1>4, <1>5, <1>6 DEF Forest

\* The same for the next entry of block n.
KillsEntry(g, h, n, p) ==
    /\ h.here = g.here \ {p} /\ h.up = g.up /\ h.own = g.own /\ h.lvl = g.lvl /\ h.owed = g.owed
    /\ h.done[n] = g.done[n] + 1
    /\ \A b \in Block \ {n} : h.done[b] = g.done[b]

LEMMA KillEntry ==
  ASSUME NEW g, NEW h, Forest(g), NEW n \in g.here, g.done[n] \in B!Index,
         NEW p, p = entry[n][g.done[n]],
         Bare(g, p), KillsEntry(g, h, n, p), h.here \subseteq zmap', zmap \subseteq Block,
         i_zone' = i_zone, entry' = entry
  PROVE  Forest(h)'
<1>0. /\ \A b \in g.here : b # NULL /\ b \in Block
      /\ PER \in Nat /\ B!Index = 0..(PER - 1)
  BY BlockConstants DEF Forest
<1>1. \A b \in h.here : b \in g.here /\ b # p
  BY DEF KillsEntry
<1>2. p # NULL => p \in g.here /\ g.up[p] = <<"e", n, g.done[n]>>
  BY <1>0 DEF Forest, Leads
<1>3. \A b \in h.here : h.own[b] \in File /\ h.lvl[b] \in 0..2 /\ h.done[b] \in 0..PER
  <2> TAKE b \in h.here
  <2>1. b \in g.here /\ b \in Block /\ g.done[b] \in 0..PER
    BY <1>0, <1>1 DEF Forest
  <2>2. h.done[b] \in 0..PER
    BY <1>0, <2>1 DEF KillsEntry
  <2> QED BY <2>1, <2>2 DEF Forest, KillsEntry
<1>4. \A b \in h.here : \A k \in B!Index :
         (k >= h.done[b] <=> k >= g.done[b] /\ ~(b = n /\ k = g.done[n]))
  <2> TAKE b \in h.here
  <2> TAKE k \in B!Index
  <2>1. b \in Block /\ g.done[b] \in Nat /\ k \in Nat /\ g.done[n] \in Nat
    BY <1>0, <1>1 DEF Forest
  <2>2. CASE b = n
    <3>1. h.done[b] = g.done[n] + 1
      BY <2>2 DEF KillsEntry
    <3> QED BY <2>1, <2>2, <3>1
  <2>3. CASE b # n
    BY <2>1, <2>3 DEF KillsEntry
  <2> QED BY <2>2, <2>3
<1>5. ASSUME NEW x \in File
      PROVE /\ h.owed[x] \subseteq B!Zone
            /\ \A y \in h.owed[x] : i_zone'[x][y] # NULL =>
                  Leads(h, i_zone'[x][y], <<"i", x, y>>, x, Level(y))
  <2>1. h.owed[x] = g.owed[x]
    BY DEF KillsEntry
  <2>2. ASSUME NEW y \in h.owed[x], i_zone'[x][y] # NULL
        PROVE  Leads(h, i_zone'[x][y], <<"i", x, y>>, x, Level(y))
    <3>1. Leads(g, i_zone[x][y], <<"i", x, y>>, x, Level(y))
      BY <2>1, <2>2 DEF Forest
    <3>2. <<"i", x, y>> # <<"e", n, g.done[n]>>
      OBVIOUS
    <3>3. i_zone[x][y] # p
      BY <1>2, <2>2, <3>1, <3>2 DEF Leads
    <3> QED BY <3>1, <3>3 DEF Leads, KillsEntry
  <2> QED BY <2>1, <2>2 DEF Forest
<1>6. ASSUME NEW b \in h.here, NEW k \in B!Index, k >= h.done[b], entry'[b][k] # NULL
      PROVE  Leads(h, entry'[b][k], <<"e", b, k>>, h.own[b], h.lvl[b] - 1)
  <2>0. k >= g.done[b] /\ ~(b = n /\ k = g.done[n])
    BY <1>4, <1>6
  <2>1. Leads(g, entry[b][k], <<"e", b, k>>, g.own[b], g.lvl[b] - 1)
    BY <1>1, <1>6, <2>0 DEF Forest
  <2>2. <<"e", b, k>> # <<"e", n, g.done[n]>>
    BY <2>0
  <2>3. entry[b][k] # p
    BY <1>2, <1>6, <2>1, <2>2 DEF Leads
  <2> QED BY <2>1, <2>3 DEF Leads, KillsEntry
<1>7. ASSUME NEW v \in h.here
      PROVE \/ \E y \in h.owed[h.own[v]] :
                  h.up[v] = <<"i", h.own[v], y>> /\ i_zone'[h.own[v]][y] = v
            \/ \E b \in h.here : \E k \in B!Index :
                  h.up[v] = <<"e", b, k>> /\ k >= h.done[b] /\ entry'[b][k] = v
  <2>1. v \in g.here /\ v # p /\ v # NULL
    BY <1>0, <1>1
  <2>2. CASE \E y \in g.owed[g.own[v]] :
                g.up[v] = <<"i", g.own[v], y>> /\ i_zone[g.own[v]][y] = v
    BY <2>2 DEF KillsEntry
  <2>3. CASE \E b \in g.here : \E k \in B!Index :
                g.up[v] = <<"e", b, k>> /\ k >= g.done[b] /\ entry[b][k] = v
    <3>1. PICK b \in g.here, k \in B!Index :
                g.up[v] = <<"e", b, k>> /\ k >= g.done[b] /\ entry[b][k] = v
      BY <2>3
    <3>2. b # p
      BY <2>1, <3>1, BareHasNone
    <3>3. b \in h.here /\ ~(b = n /\ k = g.done[n])
      BY <2>1, <3>1, <3>2 DEF KillsEntry
    <3>4. k >= h.done[b]
      BY <1>4, <3>1, <3>3
    <3> QED BY <3>1, <3>3, <3>4 DEF KillsEntry
  <2> QED BY <2>1, <2>2, <2>3 DEF Forest
<1> QED BY <1>3, <1>5, <1>6, <1>7 DEF Forest

\* A place that truncate() has passed is cleared.
LEMMA ClearPlace ==
  ASSUME NEW g, Forest(g), NEW f \in File, NEW z, z \notin g.owed[f], zmap' = zmap,
         i_zone \in [File -> [B!Zone -> Block \cup {NULL}]],
         i_zone' = [i_zone EXCEPT ![f][z] = NULL], entry' = entry
  PROVE  Forest(g)'
<1>1. \A x \in File : \A y \in g.owed[x] : i_zone'[x][y] = i_zone[x][y]
  <2> TAKE x \in File
  <2> TAKE y \in g.owed[x]
  <2>1. y \in B!Zone /\ ~(x = f /\ y = z)
    BY DEF Forest
  <2> QED BY <2>1
<1>2. \A v \in g.here : g.own[v] \in File
  BY DEF Forest
<1> QED BY <1>1, <1>2 DEF Forest

\* truncate() has come to its end.
LEMMA Revive ==
  ASSUME NEW g, NEW h, Forest(g), NEW f \in File, \A z \in B!Zone : i_zone[f][z] = NULL,
         h.here = g.here, h.up = g.up, h.own = g.own, h.lvl = g.lvl, h.done = g.done,
         h.owed[f] = B!Zone, \A x \in File \ {f} : h.owed[x] = g.owed[x],
         zmap' = zmap, i_zone' = i_zone, entry' = entry
  PROVE  Forest(h)'
<1>1. \A x \in File : g.owed[x] \subseteq h.owed[x] /\ h.owed[x] \subseteq B!Zone
  BY DEF Forest
<1>2. \A x \in File : \A y \in h.owed[x] : i_zone[x][y] # NULL => y \in g.owed[x]
  OBVIOUS
<1>3. \A v \in g.here : g.own[v] \in File
  BY DEF Forest
<1>4. \A x \in File : \A y \in h.owed[x] : i_zone'[x][y] # NULL =>
               Leads(h, i_zone'[x][y], <<"i", x, y>>, x, Level(y))
  BY <1>2 DEF Forest, Leads
<1>5. \A b \in h.here : \A k \in B!Index :
         k >= h.done[b] /\ entry'[b][k] # NULL =>
               Leads(h, entry'[b][k], <<"e", b, k>>, h.own[b], h.lvl[b] - 1)
  BY DEF Forest, Leads
<1>6. \A v \in h.here :
         \/ \E z \in h.owed[h.own[v]] :
               h.up[v] = <<"i", h.own[v], z>> /\ i_zone'[h.own[v]][z] = v
         \/ \E b \in h.here : \E k \in B!Index :
               h.up[v] = <<"e", b, k>> /\ k >= h.done[b] /\ entry'[b][k] = v
  BY <1>1, <1>3 DEF Forest
<1>7. h.here \subseteq zmap' /\ \A b \in h.here : h.own[b] \in File /\ h.lvl[b] \in 0..2 /\ h.done[b] \in 0..PER
  BY DEF Forest
<1> QED BY <1>1, <1>4, <1>5, <1>6, <1>7 DEF Forest

\* Block j is hung up at s, in file f.
Adds(g, h, j, s, f, l) ==
    /\ h.here = g.here \cup {j} /\ h.owed = g.owed
    /\ \A b \in g.here : /\ h.up[b] = g.up[b] /\ h.own[b] = g.own[b]
                         /\ h.lvl[b] = g.lvl[b] /\ h.done[b] = g.done[b]
    /\ h.up[j] = s /\ h.own[j] = f /\ h.lvl[j] = l /\ h.done[j] = 0

LEMMA AddZone ==
  ASSUME NEW g, NEW h, Forest(g), NEW f \in File, NEW z \in g.owed[f], i_zone[f][z] = NULL,
         NEW j \in Block, j \notin g.here, j \in zmap, zmap \subseteq Block, zmap' = zmap,
         Adds(g, h, j, <<"i", f, z>>, f, Level(z)),
         i_zone \in [File -> [B!Zone -> Block \cup {NULL}]],
         entry \in [Block -> [B!Index -> Block \cup {NULL}]],
         i_zone' = [i_zone EXCEPT ![f][z] = j],
         entry' = [entry EXCEPT ![j] = B!NoEntries]
  PROVE  Forest(h)'
<1>0. /\ z \in B!Zone /\ j # NULL /\ PER \in Nat
      /\ \A b \in g.here : b \in Block /\ b # j
  BY BlockConstants DEF Forest
<1>1. /\ \A x \in File : \A y \in B!Zone : ~(x = f /\ y = z) => i_zone'[x][y] = i_zone[x][y]
      /\ i_zone'[f][z] = j
  BY <1>0
<1>2. /\ \A b \in g.here : entry'[b] = entry[b]
      /\ \A k \in B!Index : entry'[j][k] = NULL
  BY <1>0 DEF B!NoEntries
<1>3. /\ h.here \subseteq zmap'
      /\ \A b \in h.here : h.own[b] \in File /\ h.lvl[b] \in 0..2 /\ h.done[b] \in 0..PER
  <2>1. Level(z) \in 0..2 /\ 0 \in 0..PER
    BY <1>0 DEF Level
  <2>2. \A b \in g.here : g.own[b] \in File /\ g.lvl[b] \in 0..2 /\ g.done[b] \in 0..PER
    BY DEF Forest
  <2>3. h.own[j] \in File /\ h.lvl[j] \in 0..2 /\ h.done[j] \in 0..PER
    BY <2>1 DEF Adds
  <2>4. \A b \in g.here : h.own[b] \in File /\ h.lvl[b] \in 0..2 /\ h.done[b] \in 0..PER
    BY <2>2 DEF Adds
  <2>5. h.here \subseteq zmap'
    BY DEF Adds, Forest
  <2> QED BY <2>3, <2>4, <2>5 DEF Adds
<1>4. ASSUME NEW x \in File
      PROVE /\ h.owed[x] \subseteq B!Zone
            /\ \A y \in h.owed[x] : i_zone'[x][y] # NULL =>
                  Leads(h, i_zone'[x][y], <<"i", x, y>>, x, Level(y))
  <2>1. h.owed[x] = g.owed[x] /\ g.owed[x] \subseteq B!Zone
    BY DEF Adds, Forest
  <2>2. ASSUME NEW y \in h.owed[x], i_zone'[x][y] # NULL
        PROVE  Leads(h, i_zone'[x][y], <<"i", x, y>>, x, Level(y))
    <3>1. CASE x = f /\ y = z
      BY <1>1, <3>1 DEF Leads, Adds
    <3>2. CASE ~(x = f /\ y = z)
      <4>1. i_zone'[x][y] = i_zone[x][y]
        BY <1>1, <2>1, <3>2
      <4>2. Leads(g, i_zone[x][y], <<"i", x, y>>, x, Level(y))
        BY <2>1, <2>2, <4>1 DEF Forest
      <4> QED BY <4>1, <4>2 DEF Leads, Adds
    <3> QED BY <3>1, <3>2
  <2> QED BY <2>1, <2>2
<1>5. ASSUME NEW b \in h.here, NEW k \in B!Index, k >= h.done[b], entry'[b][k] # NULL
      PROVE  Leads(h, entry'[b][k], <<"e", b, k>>, h.own[b], h.lvl[b] - 1)
  <2>1. b \in g.here
    BY <1>2, <1>5 DEF Adds
  <2>2. entry'[b][k] = entry[b][k] /\ k >= g.done[b]
    BY <1>2, <1>5, <2>1 DEF Adds
  <2>3. Leads(g, entry[b][k], <<"e", b, k>>, g.own[b], g.lvl[b] - 1)
    BY <1>5, <2>1, <2>2 DEF Forest
  <2> QED BY <2>1, <2>2, <2>3 DEF Leads, Adds
<1>6. ASSUME NEW v \in h.here
      PROVE \/ \E y \in h.owed[h.own[v]] :
                  h.up[v] = <<"i", h.own[v], y>> /\ i_zone'[h.own[v]][y] = v
            \/ \E b \in h.here : \E k \in B!Index :
                  h.up[v] = <<"e", b, k>> /\ k >= h.done[b] /\ entry'[b][k] = v
  <2>1. CASE v = j
    BY <1>1, <2>1 DEF Adds
  <2>2. CASE v \in g.here
    <3>0. g.own[v] \in File /\ h.own[v] = g.own[v] /\ h.up[v] = g.up[v] /\ v # NULL
      BY <1>0, <2>2, BlockConstants DEF Forest, Adds
    <3>1. CASE \E y \in g.owed[g.own[v]] :
                  g.up[v] = <<"i", g.own[v], y>> /\ i_zone[g.own[v]][y] = v
      <4>1. PICK y \in g.owed[g.own[v]] : g.up[v] = <<"i", g.own[v], y>> /\ i_zone[g.own[v]][y] = v
        BY <3>1
      <4>2. y \in B!Zone /\ ~(g.own[v] = f /\ y = z)
        BY <3>0, <4>1 DEF Forest
      <4>3. i_zone'[g.own[v]][y] = v
        BY <1>1, <3>0, <4>1, <4>2
      <4> QED BY <3>0, <4>1, <4>3 DEF Adds
    <3>2. CASE \E b \in g.here : \E k \in B!Index :
                  g.up[v] = <<"e", b, k>> /\ k >= g.done[b] /\ entry[b][k] = v
      <4>1. PICK b \in g.here, k \in B!Index :
                  g.up[v] = <<"e", b, k>> /\ k >= g.done[b] /\ entry[b][k] = v
        BY <3>2
      <4>2. b \in h.here /\ k >= h.done[b] /\ entry'[b][k] = v
        BY <1>2, <4>1 DEF Adds
      <4> QED BY <3>0, <4>1, <4>2
    <3> QED BY <2>2, <3>1, <3>2 DEF Forest
  <2> QED BY <2>1, <2>2 DEF Adds
<1> QED BY <1>3, <1>4, <1>5, <1>6 DEF Forest

LEMMA AddEntry ==
  ASSUME NEW g, NEW h, Forest(g), NEW n \in g.here, g.done[n] = 0, g.lvl[n] \in 1..2,
         NEW k0 \in B!Index, entry[n][k0] = NULL,
         NEW j \in Block, j \notin g.here, j \in zmap, zmap \subseteq Block, zmap' = zmap,
         Adds(g, h, j, <<"e", n, k0>>, g.own[n], g.lvl[n] - 1),
         entry \in [Block -> [B!Index -> Block \cup {NULL}]],
         i_zone' = i_zone,
         entry' = [[entry EXCEPT ![j] = B!NoEntries] EXCEPT ![n][k0] = j]
  PROVE  Forest(h)'
<1>0. /\ j # NULL /\ PER \in Nat /\ B!Index \subseteq Nat
      /\ \A b \in g.here : b \in Block /\ b # j
  <2>1. PER \in Nat /\ B!Index = 0..(PER - 1) /\ j # NULL
    BY BlockConstants
  <2>2. g.here \subseteq zmap
    BY DEF Forest
  <2> QED BY <2>1, <2>2
<1>1. /\ \A b \in g.here : \A k \in B!Index : ~(b = n /\ k = k0) => entry'[b][k] = entry[b][k]
      /\ entry'[n][k0] = j
      /\ \A k \in B!Index : entry'[j][k] = NULL
  BY <1>0 DEF B!NoEntries
<1>3. /\ h.here \subseteq zmap'
      /\ \A b \in h.here : h.own[b] \in File /\ h.lvl[b] \in 0..2 /\ h.done[b] \in 0..PER
  BY <1>0 DEF Adds, Forest
<1>4. ASSUME NEW x \in File
      PROVE /\ h.owed[x] \subseteq B!Zone
            /\ \A y \in h.owed[x] : i_zone'[x][y] # NULL =>
                  Leads(h, i_zone'[x][y], <<"i", x, y>>, x, Level(y))
  BY DEF Adds, Forest, Leads
<1>5. ASSUME NEW b \in h.here, NEW k \in B!Index, k >= h.done[b], entry'[b][k] # NULL
      PROVE  Leads(h, entry'[b][k], <<"e", b, k>>, h.own[b], h.lvl[b] - 1)
  <2>1. b \in g.here
    BY <1>1, <1>5 DEF Adds
  <2>2. CASE b = n /\ k = k0
    BY <1>1, <2>1, <2>2 DEF Leads, Adds
  <2>3. CASE ~(b = n /\ k = k0)
    <3>2. entry'[b][k] = entry[b][k] /\ k >= g.done[b]
      BY <1>1, <1>5, <2>1, <2>3 DEF Adds
    <3>3. Leads(g, entry[b][k], <<"e", b, k>>, g.own[b], g.lvl[b] - 1)
      BY <1>5, <2>1, <3>2 DEF Forest
    <3> QED BY <2>1, <3>2, <3>3 DEF Leads, Adds
  <2> QED BY <2>2, <2>3
<1>6. ASSUME NEW v \in h.here
      PROVE \/ \E y \in h.owed[h.own[v]] :
                  h.up[v] = <<"i", h.own[v], y>> /\ i_zone'[h.own[v]][y] = v
            \/ \E b \in h.here : \E k \in B!Index :
                  h.up[v] = <<"e", b, k>> /\ k >= h.done[b] /\ entry'[b][k] = v
  <2>1. CASE v = j
    <3>1. k0 >= h.done[n] /\ n \in h.here
      BY <1>0 DEF Adds
    <3> QED BY <1>1, <2>1, <3>1 DEF Adds
  <2>2. CASE v \in g.here
    <3>0. h.own[v] = g.own[v] /\ h.up[v] = g.up[v] /\ v # NULL
      BY <1>0, <2>2, BlockConstants DEF Adds
    <3>1. CASE \E y \in g.owed[g.own[v]] :
                  g.up[v] = <<"i", g.own[v], y>> /\ i_zone[g.own[v]][y] = v
      BY <3>0, <3>1 DEF Adds
    <3>2. CASE \E b \in g.here : \E k \in B!Index :
                  g.up[v] = <<"e", b, k>> /\ k >= g.done[b] /\ entry[b][k] = v
      <4>1. PICK b \in g.here, k \in B!Index :
                  g.up[v] = <<"e", b, k>> /\ k >= g.done[b] /\ entry[b][k] = v
        BY <3>2
      <4>2. b \in h.here /\ k >= h.done[b] /\ entry'[b][k] = v
        BY <1>1, <3>0, <4>1 DEF Adds
      <4> QED BY <3>0, <4>1, <4>2
    <3> QED BY <2>2, <3>1, <3>2 DEF Forest
  <2> QED BY <2>1, <2>2 DEF Adds
<1> QED BY <1>3, <1>4, <1>5, <1>6 DEF Forest

-----------------------------------------------------------------------------
(***************************************************************************)
(* What the parts of the invariant need from a step.                       *)
(***************************************************************************)
SameHeap(g, h) ==
    /\ h.here = g.here /\ h.up = g.up /\ h.own = g.own /\ h.lvl = g.lvl
    /\ h.owed = g.owed /\ h.done = g.done

LEMMA IndUser ==
  ASSUME NEW g, NEW s, NEW f, NEW one, NEW v, NEW r, AtInd(g, s, f, one, v, r)
  PROVE  one = NULL \/ (v # NULL /\ one = v)
BY DEF AtInd

\* Who has the buffer of a block is in its file.
LEMMA UsersIn ==
  ASSUME NEW g, NEW u \in Task, BlockTypes, BlockTask(g, u)
  PROVE  /\ pc[u] = "out" => file[u] = NULL /\ g.one[u] = NULL /\ g.two[u] = NULL
         /\ pc[u] # "out" => file[u] \in File
         /\ g.one[u] # NULL => In(g, g.one[u], file[u])
         /\ g.two[u] # NULL => In(g, g.two[u], file[u]) /\ pc[u] = "truncate"
<1>1. pc[u] \in {"out", "bmap", "new_block", "data", "truncate"}
  BY DEF BlockTypes
<1>2. CASE pc[u] = "out"
  BY <1>2 DEF BlockTask
<1>3. CASE pc[u] \in {"bmap", "new_block"}
  BY <1>3 DEF BlockTask, Walks
<1>4. CASE pc[u] = "data"
  BY <1>4 DEF BlockTask
<1>5. CASE pc[u] = "truncate"
  <2>1. PICK f, s, one, two : f = file[u] /\ s = todo[u] /\ one = g.one[u] /\ two = g.two[u]
    OBVIOUS
  <2>2. Truncates(g, s, f, one, two) /\ f \in File
    BY <1>5, <2>1 DEF BlockTask
  <2>3. (one # NULL => In(g, one, f)) /\ (two # NULL => In(g, two, f))
    <3>1. CASE one = NULL /\ two = NULL
      BY <3>1
    <3>2. CASE AtRoot1(g, s, f, one) /\ two = NULL
      <4>1. PICK v : AtInd(g, s, f, one, v, Root2) /\ (v # NULL => In(g, v, f))
        BY <3>2 DEF AtRoot1
      <4> QED BY <3>2, <4>1, IndUser
    <3>3. CASE AtRoot2(g, s, f, one, two) /\ ~(one = NULL /\ two = NULL)
      <4>1. PICK b \in g.here : \E k \in 0..PER :
                   In(g, b, f) /\ AtDind(g, s, f, one, two, b, k)
        BY <3>3 DEF AtRoot2
      <4>2. PICK k \in 0..PER : In(g, b, f) /\ AtDind(g, s, f, one, two, b, k)
        BY <4>1
      <4>3. two = NULL \/ two = b
        BY <4>2 DEF AtDind
      <4>4. one = NULL \/ In(g, one, f)
        <5>1. CASE one = NULL
          BY <5>1
        <5>2. CASE one # NULL
          <6>1. PICK v \in g.here :
                   /\ AtInd(g, s, f, one, v, <<B!Do("scan", b, k + 1, 2)>> \o Clears)
                   /\ In(g, v, f)
            BY <4>2, <5>2 DEF AtDind
          <6> QED BY <5>2, <6>1, IndUser
        <5> QED BY <5>1, <5>2
      <4> QED BY <4>2, <4>3, <4>4
    <3> QED BY <2>2, <3>1, <3>2, <3>3 DEF Truncates
  <2> QED BY <1>5, <2>1, <2>2, <2>3
<1> QED BY <1>1, <1>2, <1>3, <1>4, <1>5

\* The buffer counts when a task takes and gives back buffers.
OneMoves(g, h, t, S, R) ==
    /\ \A u \in Task : h.two[u] = g.two[u]
    /\ \A u \in Task \ {t} : h.one[u] = g.one[u]
    /\ \A b \in Block : (b \in S <=> h.one[t] = b) /\ (b \in R <=> g.one[t] = b)

TwoMoves(g, h, t, S, R) ==
    /\ \A u \in Task : h.one[u] = g.one[u]
    /\ \A u \in Task \ {t} : h.two[u] = g.two[u]
    /\ \A b \in Block : (b \in S <=> h.two[t] = b) /\ (b \in R <=> g.two[t] = b)

LEMMA BuffersMove ==
  ASSUME NEW g, NEW h, NEW t \in Task, NEW S, NEW R, BuffersCounted(g),
         OneMoves(g, h, t, S, R) \/ TwoMoves(g, h, t, S, R), b_count' = B!Counts(S, R)
  PROVE  BuffersCounted(h)'
<1> SUFFICES ASSUME NEW b \in Block
             PROVE  b_count'[b] = Number(h.one, Task, b) + Number(h.two, Task, b)
  BY DEF BuffersCounted
<1>0. IsFiniteSet(Task)
  BY BlockConstants
<1>1. PICK o, w, p, x : o = g.one /\ w = g.two /\ p = h.one /\ x = h.two
  OBVIOUS
<1>2. PICK no, nw, np, nx : /\ no = Number(o, Task, b) /\ nw = Number(w, Task, b)
                            /\ np = Number(p, Task, b) /\ nx = Number(x, Task, b)
  OBVIOUS
<1>3. no \in Nat /\ nw \in Nat /\ np \in Nat /\ nx \in Nat
  BY <1>0, <1>2, NumberIsNat
<1>4. b_count[b] = no + nw
  BY <1>1, <1>2 DEF BuffersCounted
<1>5. b_count'[b] = no + nw + (IF b \in S THEN 1 ELSE 0) - (IF b \in R THEN 1 ELSE 0)
  BY <1>4 DEF B!Counts
<1>6. CASE OneMoves(g, h, t, S, R)
  <2>1. nx = nw
    <3>1. \A u \in Task : w[u] = x[u]
      BY <1>1, <1>6 DEF OneMoves
    <3> QED BY <1>2, <3>1, UsesStay
  <2>2. np = no + (IF p[t] = b THEN 1 ELSE 0) - (IF o[t] = b THEN 1 ELSE 0)
    <3>1. SameBut(o, p, Task, t)
      BY <1>1, <1>6 DEF OneMoves, SameBut
    <3> QED BY <1>0, <1>2, <3>1, UseMoves
  <2>3. (b \in S <=> p[t] = b) /\ (b \in R <=> o[t] = b)
    BY <1>1, <1>6 DEF OneMoves
  <2> QED BY <1>1, <1>2, <1>3, <1>5, <2>1, <2>2, <2>3
<1>7. CASE TwoMoves(g, h, t, S, R)
  <2>1. np = no
    <3>1. \A u \in Task : o[u] = p[u]
      BY <1>1, <1>7 DEF TwoMoves
    <3> QED BY <1>2, <3>1, UsesStay
  <2>2. nx = nw + (IF x[t] = b THEN 1 ELSE 0) - (IF w[t] = b THEN 1 ELSE 0)
    <3>1. SameBut(w, x, Task, t)
      BY <1>1, <1>7 DEF TwoMoves, SameBut
    <3> QED BY <1>0, <1>2, <3>1, UseMoves
  <2>3. (b \in S <=> x[t] = b) /\ (b \in R <=> w[t] = b)
    BY <1>1, <1>7 DEF TwoMoves
  <2> QED BY <1>1, <1>2, <1>3, <1>5, <2>1, <2>2, <2>3
<1> QED BY <1>6, <1>7

LEMMA BuffersStayCounted ==
  ASSUME NEW g, NEW h, BuffersCounted(g), b_count' = b_count,
         \A u \in Task : h.one[u] = g.one[u] /\ h.two[u] = g.two[u]
  PROVE  BuffersCounted(h)'
<1>1. PICK o, w, p, x : o = g.one /\ w = g.two /\ p = h.one /\ x = h.two
  OBVIOUS
<1>2. (\A u \in Task : o[u] = p[u]) /\ (\A u \in Task : w[u] = x[u])
  BY <1>1
<1>3. \A b : Number(p, Task, b) = Number(o, Task, b) /\ Number(x, Task, b) = Number(w, Task, b)
  BY <1>2, UsesStay
<1> QED BY <1>1, <1>3 DEF BuffersCounted

LEMMA StaysAlone ==
  ASSUME Alone, NEW t \in Task,
         \A u \in Task \ {t} : file'[u] = file[u] /\ create'[u] = create[u] /\ pc'[u] = pc[u],
         file'[t] # NULL => /\ file'[t] = file[t] /\ (create'[t] => create[t])
                            /\ (pc'[t] = "truncate" => pc[t] = "truncate")
  PROVE  Alone'
BY DEF Alone

LEMMA ForestStays ==
  ASSUME NEW g, NEW h, SameHeap(g, h), Forest(g), zmap \subseteq zmap', i_zone' = i_zone,
         entry' = entry
  PROVE  Forest(h)'
BY DEF Forest, SameHeap, Leads

LEMMA FilesStay ==
  ASSUME NEW g, NEW h, SameHeap(g, h), NEW t \in Task,
         \A u \in Task \ {t} : pc'[u] = pc[u] /\ file'[u] = file[u],
         pc[t] # "truncate", NEW f, FileRight(g, f)
  PROVE  FileRight(h, f)'
<1>1. (\A u \in Task : pc'[u] = "truncate" => file'[u] # f)
          => \A u \in Task : pc[u] = "truncate" => file[u] # f
  OBVIOUS
<1>2. Whole(h, f, {}) <=> Whole(g, f, {})
  BY DEF Whole, SameHeap
<1> QED BY <1>1, <1>2 DEF FileRight, SameHeap

\* A step that leaves the forest as it is.
LEMMA WalkKeeps ==
  ASSUME NEW g, NEW h, BlocksRight(g), SameHeap(g, h), NEW t \in Task, pc[t] # "truncate",
         \A u \in Task \ {t} : SameTask(g, h, u),
         BlockTypes', zmap \subseteq zmap', i_zone' = i_zone, entry' = entry,
         Contents(h)', NewRight(h)', BuffersCounted(h)', Alone', BlockTask(h, t)'
  PROVE  BlocksRight(h)'
<1>1. Forest(h)'
  BY ForestStays DEF BlocksRight
<1>2. \A f \in File : FileRight(h, f)'
  BY FilesStay DEF BlocksRight, SameTask
<1>3. ASSUME NEW u \in Task \ {t} PROVE BlockTask(h, u)'
  <2>1. BlockTask(g, u) /\ SameTask(g, h, u)
    BY DEF BlocksRight
  <2>2. \A b, f : In(h, b, f) <=> In(g, b, f)
    BY DEF In, SameHeap
  <2>3. pc[u] = "new_block" => blk[u] \in zmap' \ h.here /\ Pointer(u)' = Pointer(u)
    BY <2>1 DEF BlockTask, SameHeap, Pointer, SameTask
  <2>4. SameFile(g, h, file[u])
    BY <2>2 DEF SameFile, SameHeap
  <2>5. \A b : In(g, b, file[u]) => In(h, b, file[u]) /\ h.lvl[b] = g.lvl[b]
    BY <2>2 DEF SameHeap
  <2>6. i_zone'[file[u]] = i_zone[file[u]]
    OBVIOUS
  <2> QED BY <2>1, <2>3, <2>4, <2>5, <2>6, TaskStays
<1>4. BlocksAreTame'
  BY DEF BlocksRight, BlocksAreTame
<1>5. \A u \in Task : BlockTask(h, u)'
  BY <1>3
<1> QED BY <1>1, <1>2, <1>4, <1>5 DEF BlocksRight

-----------------------------------------------------------------------------
(***************************************************************************)
(* The steps of readers and writers.                                       *)
(***************************************************************************)
LEMMA FreeBlockIs ==
  ASSUME zmap \subseteq Block, zmap # Block
  PROVE  B!Min(Block \ zmap) \in Block \ zmap
<1>1. PICK S : S = Block \ zmap
  OBVIOUS
<1>2. S \in SUBSET Nat /\ S # {}
  BY <1>1, BlockConstants
<1>3. \E m \in S : \A n \in S : m <= n
  BY <1>2, LeastNatural
<1>4. B!Min(S) \in S
  BY <1>3 DEF B!Min
<1> QED BY <1>1, <1>4

LEMMA NewStays ==
  ASSUME NEW g, NEW h, NewRight(g), h.here = g.here, zmap' = zmap, NEW t \in Task,
         \A u \in Task \ {t} : pc'[u] = pc[u] /\ blk'[u] = blk[u],
         pc[t] # "new_block", pc'[t] # "new_block"
  PROVE  NewRight(h)'
BY DEF NewRight

\* The forest is the same, and one task has another buffer.
OneIs(g, h, t, v) ==
    /\ SameHeap(g, h) /\ h.one[t] = v
    /\ \A u \in Task \ {t} : h.one[u] = g.one[u]
    /\ \A u \in Task : h.two[u] = g.two[u]

LEMMA GhostOne ==
  ASSUME NEW g, NEW t \in Task, NEW v PROVE \E h : OneIs(g, h, t, v)
<1>1. PICK o : o = [u \in Task |-> IF u = t THEN v ELSE g.one[u]]
  OBVIOUS
<1>2. PICK h : h = [here |-> g.here, up |-> g.up, own |-> g.own, lvl |-> g.lvl,
                    owed |-> g.owed, done |-> g.done, one |-> o, two |-> g.two]
  OBVIOUS
<1>3. h.one[t] = v /\ \A u \in Task \ {t} : h.one[u] = g.one[u]
  BY <1>1, <1>2
<1>4. SameHeap(g, h) /\ h.two = g.two
  BY <1>2 DEF SameHeap
<1> QED BY <1>3, <1>4 DEF OneIs

LEMMA IsOut ==
  ASSUME NEW h, NEW t \in Task, pc'[t] = "out", file'[t] = NULL, node'[t] = NULL, create'[t] = FALSE,
         h.one[t] = NULL, h.two[t] = NULL, todo'[t] = <<>>
  PROVE  BlockTask(h, t)'
BY DEF BlockTask

LEMMA ReadOrWriteKeeps ==
  ASSUME BlockInv, NEW t \in Task, B!ReadOrWrite(t) PROVE BlockInv'
<1>1. PICK g : BlocksRight(g)
  BY DEF BlockInv
<1>2. PICK f \in File, fb \in FileBlock, c \in BOOLEAN :
          /\ \A u \in B!In(f) : pc[u] = "truncate" => "truncate_used" \in on
          /\ c /\ B!Writers(f) # {} => "two_writers" \in on
          /\ file' = [file EXCEPT ![t] = f]
          /\ create' = [create EXCEPT ![t] = c]
          /\ path' = [path EXCEPT ![t] = B!PathTo(fb)]
  BY DEF B!ReadOrWrite
<1>3. /\ pc[t] = "out" /\ panic = NULL /\ pc' = [pc EXCEPT ![t] = "bmap"]
      /\ UNCHANGED <<on, zmap, i_zone, entry, data, b_count, node, blk, todo, panic>>
  BY DEF B!ReadOrWrite, B!User
<1>4. BlockTypes /\ BlocksAreTame /\ Alone /\ BlockTask(g, t) /\ NewRight(g) /\ Contents(g)
      /\ BuffersCounted(g) /\ \A u \in Task : BlockTask(g, u)
  BY <1>1 DEF BlocksRight
<1>5. PICK p : p = B!PathTo(fb)
  OBVIOUS
<1>6. /\ p \in Seq(Nat) /\ Len(p) \in 1..3 /\ p[1] \in B!Zone /\ Level(p[1]) = Len(p) - 1
      /\ \A i \in 2..Len(p) : p[i] \in B!Index
  BY <1>5, PathsAreRight
<1>7. /\ file'[t] = f /\ create'[t] = c /\ path'[t] = p /\ pc'[t] = "bmap"
      /\ \A u \in Task \ {t} : /\ file'[u] = file[u] /\ create'[u] = create[u]
                               /\ path'[u] = path[u] /\ pc'[u] = pc[u]
  BY <1>2, <1>3, <1>4, <1>5 DEF BlockTypes
<1>8. BlockTypes'
  BY <1>2, <1>3, <1>4, <1>5, <1>6 DEF BlockTypes
<1>9. on \cap {"two_writers", "truncate_used"} = {}
  BY <1>4 DEF BlockTypes, BlocksAreTame
<1>10. ASSUME NEW u \in Task \ {t}, file[u] = f PROVE pc[u] # "truncate" /\ ~(c /\ create[u])
  <2>1. f # NULL
    BY BlockConstants
  <2>2. u \in B!In(f)
    BY <1>4, <1>10, <2>1 DEF BlockTask, B!In
  <2>3. c /\ create[u] => u \in B!Writers(f)
    BY <2>2 DEF B!Writers
  <2> QED BY <1>2, <1>9, <2>2, <2>3
<1>11. Alone'
  <2>1. c \in BOOLEAN /\ create' \in [Task -> BOOLEAN]
    BY <1>8 DEF BlockTypes
  <2> SUFFICES ASSUME NEW u \in Task, NEW w \in Task, u # w, file'[u] = file'[w], file'[u] # NULL
               PROVE  pc'[u] # "truncate" /\ ~(create'[u] /\ create'[w])
    BY DEF Alone
  <2>2. CASE u # t /\ w # t
    BY <1>4, <1>7, <2>2 DEF Alone
  <2>3. CASE u = t
    BY <1>7, <1>10, <2>3
  <2>4. CASE w = t
    BY <1>7, <1>10, <2>4
  <2> QED BY <2>2, <2>3, <2>4
<1>12. g.one[t] = NULL /\ node[t] = NULL /\ todo[t] = <<>> /\ g.two[t] = NULL
  BY <1>3, <1>4 DEF BlockTask
<1>13. Walks(g, t)'
  BY <1>3, <1>6, <1>7, <1>12 DEF Walks
<1>14. BlockTask(g, t)'
  BY <1>3, <1>7, <1>12, <1>13 DEF BlockTask
<1>15. SameHeap(g, g) /\ \A u \in Task \ {t} : SameTask(g, g, u)
  BY <1>3, <1>7 DEF SameHeap, SameTask
<1>16. BuffersCounted(g)' /\ Contents(g)' /\ NewRight(g)'
  <2>1. BuffersCounted(g)' /\ Contents(g)'
    BY <1>3, <1>4 DEF BuffersCounted, Contents
  <2>2. \A u \in Task \ {t} : pc'[u] = pc[u] /\ blk'[u] = blk[u]
    BY <1>3, <1>7
  <2>3. pc[t] # "new_block" /\ pc'[t] # "new_block" /\ zmap' = zmap
    BY <1>3, <1>7
  <2>4. NewRight(g)'
    BY <1>4, <2>2, <2>3, NewStays
  <2> QED BY <2>1, <2>4
<1>17. pc[t] # "truncate" /\ zmap \subseteq zmap' /\ i_zone' = i_zone /\ entry' = entry
  BY <1>3
<1>18. BlocksRight(g)'
  BY <1>1, <1>8, <1>11, <1>14, <1>15, <1>16, <1>17, WalkKeeps
<1> QED BY <1>18 DEF BlockInv

LEMMA TransferKeeps ==
  ASSUME BlockInv, NEW t \in Task, B!Transfer(t) PROVE BlockInv'
<1>1. PICK g : BlocksRight(g)
  BY DEF BlockInv
<1>2. /\ pc[t] = "data" /\ panic = NULL
      /\ data' = (IF create[t] THEN [data EXCEPT ![blk[t]] = file[t]] ELSE data)
      /\ b_count' = B!Counts({}, {blk[t]})
      /\ pc' = [pc EXCEPT ![t] = "out"] /\ file' = [file EXCEPT ![t] = NULL]
      /\ create' = [create EXCEPT ![t] = FALSE] /\ path' = [path EXCEPT ![t] = <<>>]
      /\ node' = [node EXCEPT ![t] = NULL] /\ blk' = [blk EXCEPT ![t] = NULL]
      /\ UNCHANGED <<on, zmap, i_zone, entry, todo, panic>>
  BY DEF B!Transfer, B!At, B!Leave
<1>4. BlockTypes /\ BlocksAreTame /\ Alone /\ BlockTask(g, t) /\ NewRight(g) /\ Contents(g)
      /\ BuffersCounted(g) /\ Forest(g)
  BY <1>1 DEF BlocksRight
<1>0. PICK h : OneIs(g, h, t, NULL)
  BY GhostOne
<1>5. \A u \in Task : h.two[u] = g.two[u]
  BY <1>0 DEF OneIs
<1>6. SameHeap(g, h) /\ h.one[t] = NULL /\ (\A u \in Task \ {t} : h.one[u] = g.one[u])
      /\ h.here = g.here /\ h.own = g.own /\ h.lvl = g.lvl
  BY <1>0 DEF OneIs, SameHeap
<1>7. /\ pc'[t] = "out" /\ file'[t] = NULL /\ create'[t] = FALSE /\ node'[t] = NULL
      /\ \A u \in Task \ {t} : /\ file'[u] = file[u] /\ create'[u] = create[u] /\ node'[u] = node[u]
                               /\ path'[u] = path[u] /\ pc'[u] = pc[u] /\ blk'[u] = blk[u]
  BY <1>2, <1>4 DEF BlockTypes
<1>8. BlockTypes'
  <2>1. data' \in [Block -> File \cup {NULL}]
    BY <1>2, <1>4 DEF BlockTypes
  <2> QED BY <1>2, <1>4, <2>1 DEF BlockTypes
<1>9. /\ g.one[t] = blk[t] /\ In(g, blk[t], file[t]) /\ todo[t] = <<>> /\ g.two[t] = NULL
  BY <1>2, <1>4 DEF BlockTask
<1>10. blk[t] \in Block
  BY <1>4, <1>9 DEF In, Forest, BlockTypes
<1>11. Contents(h)'
  <2>1. \A b \in Block : data'[b] = data[b] \/ (b = blk[t] /\ data'[b] = file[t])
    BY <1>2, <1>4, <1>10 DEF BlockTypes
  <2>2. \A b \in h.here : b \in g.here /\ b \in Block /\ h.own[b] = g.own[b] /\ h.lvl[b] = g.lvl[b]
    BY <1>4, <1>6 DEF Forest, BlockTypes
  <2>3. g.own[blk[t]] = file[t]
    BY <1>9 DEF In
  <2> QED BY <1>4, <2>1, <2>2, <2>3 DEF Contents
<1>12. BuffersCounted(h)'
  <2>1. OneMoves(g, h, t, {}, {blk[t]})
    <3>1. \A b \in Block : (b \in {} <=> h.one[t] = b) /\ (b \in {blk[t]} <=> g.one[t] = b)
      BY <1>6, <1>9, BlockConstants
    <3> QED BY <1>5, <1>6, <3>1 DEF OneMoves
  <2>2. PICK R : R = {blk[t]}
    OBVIOUS
  <2>3. OneMoves(g, h, t, {}, R) /\ b_count' = B!Counts({}, R)
    BY <1>2, <2>1, <2>2
  <2> QED BY <1>4, <2>3, BuffersMove
<1>13. Alone'
  BY <1>4, <1>7, StaysAlone
<1>14. NewRight(h)'
  <2>1. pc[t] # "new_block" /\ pc'[t] # "new_block" /\ zmap' = zmap
    BY <1>2, <1>7
  <2> QED BY <1>4, <1>6, <1>7, <2>1, NewStays
<1>15. BlockTask(h, t)'
  <2>1. h.two[t] = NULL /\ todo'[t] = <<>>
    BY <1>2, <1>5, <1>9
  <2> QED BY <1>6, <1>7, <2>1, IsOut
<1>16. \A u \in Task \ {t} : SameTask(g, h, u)
  BY <1>2, <1>5, <1>6, <1>7 DEF SameTask
<1>17. pc[t] # "truncate" /\ zmap \subseteq zmap' /\ i_zone' = i_zone /\ entry' = entry
  BY <1>2
<1>18. BlocksRight(h)'
  BY <1>1, <1>6, <1>8, <1>11, <1>12, <1>13, <1>14, <1>15, <1>16, <1>17, WalkKeeps
<1> QED BY <1>18 DEF BlockInv

LEMMA TruncateKeeps ==
  ASSUME BlockInv, NEW t \in Task, B!Truncate(t) PROVE BlockInv'
<1>1. PICK g : BlocksRight(g)
  BY DEF BlockInv
<1>2. PICK f \in File : /\ B!In(f) # {} => "truncate_used" \in on
                        /\ file' = [file EXCEPT ![t] = f]
  BY DEF B!Truncate
<1>3. /\ pc[t] = "out" /\ panic = NULL /\ pc' = [pc EXCEPT ![t] = "truncate"]
      /\ todo' = [todo EXCEPT ![t] = Rest(0)]
      /\ UNCHANGED <<on, zmap, i_zone, entry, data, b_count, create, path, node, blk, panic>>
  BY FirstList DEF B!Truncate, B!User
<1>4. BlockTypes /\ BlocksAreTame /\ Alone /\ BlockTask(g, t) /\ NewRight(g) /\ Contents(g)
      /\ BuffersCounted(g) /\ (\A u \in Task : BlockTask(g, u)) /\ FileRight(g, f)
  BY <1>1 DEF BlocksRight
<1>5. PICK s : s = Rest(0)
  OBVIOUS
<1>6. s \in Seq(B!Item)
  BY <1>5, RestIs, BlockConstants
<1>7. /\ file'[t] = f /\ pc'[t] = "truncate" /\ todo'[t] = s
      /\ \A u \in Task \ {t} : file'[u] = file[u] /\ pc'[u] = pc[u] /\ todo'[u] = todo[u]
  BY <1>2, <1>3, <1>4, <1>5 DEF BlockTypes
<1>8. BlockTypes'
  BY <1>2, <1>3, <1>4, <1>5, <1>6 DEF BlockTypes
<1>9. on \cap {"two_writers", "truncate_used"} = {}
  BY <1>4 DEF BlockTypes, BlocksAreTame
<1>10. \A u \in Task : file[u] # f
  <2>1. f # NULL /\ B!In(f) = {}
    BY <1>2, <1>9, BlockConstants
  <2> QED BY <1>4, <2>1 DEF BlockTask, B!In
<1>11. Alone'
  BY <1>3, <1>4, <1>7, <1>10 DEF Alone
<1>12. g.one[t] = NULL /\ node[t] = NULL /\ g.two[t] = NULL /\ ~create[t]
  BY <1>3, <1>4 DEF BlockTask
<1>13. g.owed[f] = B!Zone /\ Whole(g, f, {})
  BY <1>4, <1>10 DEF FileRight
<1>14. Truncates(g, s, f, NULL, NULL)'
  <2>1. Cleared(f, 0)' /\ g.owed[f] = 0..(DIRECT + 1) /\ 0 \in 0..DIRECT
    BY <1>13, BlockConstants DEF Cleared
  <2>2. Whole(g, f, {})'
    BY <1>13 DEF Whole
  <2>3. AtZones(g, s, f)'
    BY <1>5, <2>1, <2>2 DEF AtZones
  <2> QED BY <2>3 DEF Truncates
<1>15. BlockTask(g, t)'
  BY <1>3, <1>7, <1>12, <1>14 DEF BlockTask
<1>16. SameHeap(g, g) /\ \A u \in Task \ {t} : SameTask(g, g, u)
  BY <1>3, <1>7 DEF SameHeap, SameTask
<1>17. BuffersCounted(g)' /\ Contents(g)' /\ NewRight(g)'
  <2>1. BuffersCounted(g)' /\ Contents(g)'
    BY <1>3, <1>4 DEF BuffersCounted, Contents
  <2>2. \A u \in Task \ {t} : pc'[u] = pc[u] /\ blk'[u] = blk[u]
    BY <1>3, <1>7
  <2>3. pc[t] # "new_block" /\ pc'[t] # "new_block" /\ zmap' = zmap
    BY <1>3, <1>7
  <2>4. NewRight(g)'
    BY <1>4, <2>2, <2>3, NewStays
  <2> QED BY <2>1, <2>4
<1>18. pc[t] # "truncate" /\ zmap \subseteq zmap' /\ i_zone' = i_zone /\ entry' = entry
  BY <1>3
<1>19. BlocksRight(g)'
  BY <1>1, <1>8, <1>11, <1>15, <1>16, <1>17, <1>18, WalkKeeps
<1> QED BY <1>19 DEF BlockInv

LEMMA WalkersFile ==
  ASSUME NEW g, BlocksRight(g), NEW t \in Task, pc[t] \in {"bmap", "new_block", "data"}
  PROVE  file[t] \in File /\ g.owed[file[t]] = B!Zone /\ Whole(g, file[t], {})
<1>1. file[t] \in File /\ file[t] # NULL
  <2>1. BlockTypes /\ BlockTask(g, t) /\ pc[t] # "out"
    BY DEF BlocksRight
  <2> QED BY <2>1, UsersIn, BlockConstants
<1>2. \A u \in Task : pc[u] = "truncate" => file[u] # file[t]
  BY <1>1 DEF BlocksRight, Alone
<1> QED BY <1>1, <1>2 DEF BlocksRight, FileRight

\* What _bmap() finds is the next block of the file.
LEMMA PointerLeads ==
  ASSUME NEW g, BlocksRight(g), NEW t \in Task, pc[t] \in {"bmap", "new_block"},
         Pointer(t) # NULL
  PROVE  In(g, Pointer(t), file[t]) /\ g.lvl[Pointer(t)] = Len(path[t]) - 1
<1>1. /\ Walks(g, t) /\ Forest(g) /\ file[t] \in File /\ g.owed[file[t]] = B!Zone
      /\ Whole(g, file[t], {})
  BY WalkersFile DEF BlocksRight, BlockTask
<1>2. PICK f, n, k, l : f = file[t] /\ n = node[t] /\ k = path[t][1] /\ l = Len(path[t])
  OBVIOUS
<1>3. CASE n = NULL
  <2>1. k \in g.owed[f] /\ Level(k) = l - 1 /\ Pointer(t) = i_zone[f][k]
    BY <1>1, <1>2, <1>3 DEF Walks, Pointer
  <2>2. Leads(g, i_zone[f][k], <<"i", f, k>>, f, Level(k))
    BY <1>1, <1>2, <2>1 DEF Forest
  <2> QED BY <1>2, <2>1, <2>2 DEF Leads, In
<1>4. CASE n # NULL
  <2>1. In(g, n, f) /\ g.lvl[n] = l /\ k \in B!Index /\ Pointer(t) = entry[n][k]
    BY <1>1, <1>2, <1>4 DEF Walks, Pointer
  <2>2. g.done[n] = 0 /\ n \in g.here /\ g.own[n] = f
    BY <1>1, <1>2, <2>1 DEF Whole, In
  <2>3. k >= g.done[n]
    BY <2>1, <2>2, BlockConstants
  <2>4. Leads(g, entry[n][k], <<"e", n, k>>, f, l - 1)
    BY <1>1, <2>1, <2>2, <2>3 DEF Forest
  <2> QED BY <1>2, <2>1, <2>4 DEF Leads, In
<1> QED BY <1>3, <1>4

\* A task that has gone on to block v, over either way of _bmap().
Advanced(t, v) ==
    /\ IF Len(path[t]) > 1
       THEN node'[t] = v /\ blk'[t] = NULL /\ pc'[t] = "bmap"
       ELSE node'[t] = NULL /\ blk'[t] = v /\ pc'[t] = "data"
    /\ path'[t] = Tail(path[t]) /\ file'[t] = file[t] /\ create'[t] = create[t]
    /\ todo'[t] = todo[t]

LEMMA AdvancedIsRight ==
  ASSUME NEW h, NEW t \in Task, NEW v \in Block, Advanced(t, v), NEW l, l = Len(path[t]),
         file[t] \in File, path[t] \in Seq(Nat), l \in 1..3,
         \A i \in 2..l : path[t][i] \in B!Index,
         In(h, v, file[t]), h.lvl[v] = l - 1, h.one[t] = v, h.two[t] = NULL, todo[t] = <<>>
  PROVE  BlockTask(h, t)'
<1>0. v # NULL
  BY BlockConstants
<1>1. CASE l > 1
  <2>1. PICK p, q : p = path[t] /\ q = Tail(p)
    OBVIOUS
  <2>2. /\ q \in Seq(Nat) /\ Len(q) = l - 1 /\ \A i \in 1..(l - 1) : q[i] = p[i + 1]
    BY <1>1, <2>1
  <2>3. \A i \in 1..(l - 1) : q[i] \in B!Index
    <3> TAKE i \in 1..(l - 1)
    <3>1. i + 1 \in 2..l
      BY <1>1
    <3> QED BY <2>1, <2>2, <3>1
  <2>4. q[1] \in B!Index /\ \A i \in 2..Len(q) : q[i] \in B!Index
    BY <1>1, <2>2, <2>3
  <2>5. /\ node'[t] = v /\ pc'[t] = "bmap" /\ path'[t] = q /\ file'[t] = file[t]
    BY <1>1, <2>1 DEF Advanced
  <2>6. Walks(h, t)'
    <3>1. Len(q) \in 1..3 /\ Len(q) = h.lvl[v]
      BY <1>1, <2>2
    <3> QED BY <1>0, <2>2, <2>4, <2>5, <3>1 DEF Walks, In
  <2> QED BY <2>5, <2>6 DEF BlockTask, Advanced
<1>2. CASE ~(l > 1)
  <2>0. l = 1 /\ ~(Len(path[t]) > 1)
    <3>1. \A m \in 1..3 : m > 1 \/ m = 1
      OBVIOUS
    <3>2. l > 1 \/ l = 1
      BY <3>1
    <3>3. l = 1
      BY <1>2, <3>2
    <3> QED BY <3>3
  <2>1. node'[t] = NULL /\ blk'[t] = v /\ pc'[t] = "data" /\ file'[t] = file[t]
        /\ create'[t] = create[t] /\ todo'[t] = <<>>
    BY <2>0 DEF Advanced
  <2>2. h.lvl[v] = 0
    BY <2>0
  <2> QED BY <2>1, <2>2 DEF BlockTask, In
<1> QED BY <1>1, <1>2

LEMMA AdvanceIs ==
  ASSUME BlockTypes, NEW t \in Task, NEW v \in Block, B!Advance(t, v), todo' = todo
  PROVE  /\ Advanced(t, v)
         /\ \A u \in Task \ {t} : /\ file'[u] = file[u] /\ create'[u] = create[u]
                                  /\ node'[u] = node[u] /\ path'[u] = path[u]
                                  /\ pc'[u] = pc[u] /\ blk'[u] = blk[u] /\ todo'[u] = todo[u]
         /\ pc' \in [Task -> {"out", "bmap", "new_block", "data", "truncate"}]
         /\ node' \in [Task -> Block \cup {NULL}] /\ blk' \in [Task -> Block \cup {NULL}]
<1> USE DEF BlockTypes
<1>1. CASE Len(path[t]) > 1
  <2>1. /\ node' = [node EXCEPT ![t] = v] /\ blk' = [blk EXCEPT ![t] = NULL]
        /\ pc' = [pc EXCEPT ![t] = "bmap"] /\ path' = [path EXCEPT ![t] = Tail(path[t])]
        /\ UNCHANGED <<file, create>>
    BY <1>1 DEF B!Advance
  <2> QED BY <1>1, <2>1 DEF Advanced
<1>2. CASE ~(Len(path[t]) > 1)
  <2>1. /\ node' = [node EXCEPT ![t] = NULL] /\ blk' = [blk EXCEPT ![t] = v]
        /\ pc' = [pc EXCEPT ![t] = "data"] /\ path' = [path EXCEPT ![t] = Tail(path[t])]
        /\ UNCHANGED <<file, create>>
    BY <1>2 DEF B!Advance
  <2> QED BY <1>2, <2>1 DEF Advanced
<1> QED BY <1>1, <1>2

LEMMA BmapGoesOn ==
  ASSUME NEW g, BlocksRight(g), NEW t \in Task, pc[t] = "bmap", NEW v \in Block, v = Pointer(t),
         B!Advance(t, v), UNCHANGED <<on, zmap, i_zone, entry, data, todo, panic>>
  PROVE  BlockInv'
<1>1. BlockTypes /\ BlockTask(g, t) /\ Alone /\ NewRight(g) /\ Contents(g) /\ BuffersCounted(g)
      /\ Walks(g, t) /\ Forest(g)
  BY DEF BlocksRight, BlockTask
<1>2. PICK l : l = Len(path[t])
  OBVIOUS
<1>3. v # NULL /\ In(g, v, file[t]) /\ g.lvl[v] = l - 1
  BY <1>2, PointerLeads, BlockConstants
<1>4. PICK h : OneIs(g, h, t, v)
  BY GhostOne
<1>5. SameHeap(g, h) /\ h.one[t] = v /\ (\A u \in Task \ {t} : h.one[u] = g.one[u])
      /\ h.here = g.here /\ h.own = g.own /\ h.lvl = g.lvl /\ h.two[t] = g.two[t]
      /\ \A u \in Task : h.two[u] = g.two[u]
  BY <1>4 DEF OneIs, SameHeap
<1>6. /\ Advanced(t, v)
      /\ \A u \in Task \ {t} : /\ file'[u] = file[u] /\ create'[u] = create[u]
                               /\ node'[u] = node[u] /\ path'[u] = path[u]
                               /\ pc'[u] = pc[u] /\ blk'[u] = blk[u] /\ todo'[u] = todo[u]
      /\ pc' \in [Task -> {"out", "bmap", "new_block", "data", "truncate"}]
      /\ node' \in [Task -> Block \cup {NULL}] /\ blk' \in [Task -> Block \cup {NULL}]
  BY <1>1, AdvanceIs
<1>7. BlockTypes'
  <2>1. path' \in [Task -> Seq(Nat)]
    <3>1. path' = [path EXCEPT ![t] = Tail(path[t])] /\ path[t] \in Seq(Nat) /\ path[t] # <<>>
      BY <1>1 DEF B!Advance, Walks
    <3>2. Tail(path[t]) \in Seq(Nat)
      BY <3>1
    <3> QED BY <1>1, <3>1, <3>2 DEF BlockTypes
  <2>2. file' = file /\ create' = create
    BY DEF B!Advance
  <2> QED BY <1>1, <1>6, <2>1, <2>2 DEF BlockTypes
<1>8. BlockTask(h, t)'
  <2>1. In(h, v, file[t]) /\ h.lvl[v] = l - 1 /\ h.two[t] = NULL /\ todo[t] = <<>>
    BY <1>1, <1>3, <1>5 DEF In, BlockTask
  <2>2. file[t] \in File /\ path[t] \in Seq(Nat) /\ l \in 1..3 /\ \A i \in 2..l : path[t][i] \in B!Index
    BY <1>1, <1>2 DEF Walks
  <2> QED BY <1>2, <1>5, <1>6, <2>1, <2>2, AdvancedIsRight
<1>9. BuffersCounted(h)'
  <2>1. PICK S, R : S = {v} /\ R = B!NodeOf(t)
    OBVIOUS
  <2>2. g.one[t] = node[t]
    BY <1>1 DEF BlockTask
  <2>3. \A b \in Block : b # NULL
    BY BlockConstants
  <2>4. \A b \in Block : (b \in S <=> h.one[t] = b) /\ (b \in R <=> g.one[t] = b)
    BY <1>5, <2>1, <2>2, <2>3 DEF B!NodeOf
  <2>5. OneMoves(g, h, t, S, R) /\ b_count' = B!Counts(S, R)
    BY <1>5, <2>1, <2>4 DEF OneMoves, B!Advance
  <2> QED BY <1>1, <2>5, BuffersMove
<1>10. file'[t] = file[t] /\ create'[t] = create[t] /\ pc'[t] # "truncate" /\ pc'[t] # "new_block"
  BY <1>6 DEF Advanced
<1>11. Alone'
  BY <1>1, <1>6, <1>10, StaysAlone
<1>12. NewRight(h)'
  BY <1>1, <1>5, <1>6, <1>10, NewStays
<1>13. Contents(h)'
  BY <1>1, <1>5 DEF Contents
<1>14. \A u \in Task \ {t} : SameTask(g, h, u)
  BY <1>5, <1>6 DEF SameTask
<1>15. pc[t] # "truncate" /\ zmap \subseteq zmap' /\ i_zone' = i_zone /\ entry' = entry
  OBVIOUS
<1>16. BlocksRight(h)'
  BY <1>5, <1>7, <1>8, <1>9, <1>11, <1>12, <1>13, <1>14, <1>15, WalkKeeps
<1> QED BY <1>16 DEF BlockInv

LEMMA BmapTakesBlock ==
  ASSUME NEW g, BlocksRight(g), NEW t \in Task, pc[t] = "bmap", Pointer(t) = NULL, create[t],
         NEW j \in Block \ zmap, B!NewBlock(t, j),
         UNCHANGED <<on, i_zone, entry, data, b_count, file, create, path, node, todo, panic>>
  PROVE  BlockInv'
<1>1. BlockTypes /\ BlockTask(g, t) /\ Alone /\ NewRight(g) /\ Contents(g) /\ BuffersCounted(g)
      /\ Walks(g, t) /\ Forest(g) /\ \A u \in Task : BlockTask(g, u)
  BY DEF BlocksRight, BlockTask
<1>2. /\ zmap' = zmap \cup {j} /\ blk' = [blk EXCEPT ![t] = j]
      /\ pc' = [pc EXCEPT ![t] = "new_block"]
  BY DEF B!NewBlock
<1>3. /\ blk'[t] = j /\ pc'[t] = "new_block"
      /\ \A u \in Task \ {t} : blk'[u] = blk[u] /\ pc'[u] = pc[u]
  BY <1>1, <1>2 DEF BlockTypes
<1>4. BlockTypes'
  BY <1>1, <1>2 DEF BlockTypes
<1>5. j \notin g.here /\ g.here \subseteq zmap
  BY <1>1 DEF Forest
<1>6. BlockTask(g, t)'
  <2>1. Walks(g, t)'
    BY <1>1 DEF Walks
  <2>2. Pointer(t)' = NULL
    BY DEF Pointer
  <2> QED BY <1>1, <1>2, <1>3, <1>5, <2>1, <2>2 DEF BlockTask
<1>7. NewRight(g)'
  <2>1. \A b \in zmap' : b \in g.here \/ \E u \in Task : pc'[u] = "new_block" /\ blk'[u] = b
    <3> TAKE b \in zmap'
    <3>1. CASE b = j
      BY <1>3, <3>1
    <3>2. CASE b \in zmap /\ b \notin g.here
      <4>1. PICK u \in Task : pc[u] = "new_block" /\ blk[u] = b
        BY <1>1, <3>2 DEF NewRight
      <4> QED BY <1>3, <4>1
    <3> QED BY <1>2, <3>1, <3>2
  <2>2. \A u \in Task : pc[u] = "new_block" => blk[u] \in zmap
    BY <1>1 DEF BlockTask
  <2>3. \A u, w \in Task : pc'[u] = "new_block" /\ pc'[w] = "new_block" /\ blk'[u] = blk'[w] => u = w
    BY <1>1, <1>3, <2>2 DEF NewRight
  <2> QED BY <2>1, <2>3 DEF NewRight
<1>8. Alone'
  <2>1. \A u \in Task : pc'[u] = "truncate" <=> pc[u] = "truncate"
    BY <1>3
  <2> QED BY <1>1, <2>1 DEF Alone
<1>9. Contents(g)' /\ BuffersCounted(g)'
  BY <1>1 DEF Contents, BuffersCounted
<1>10. SameHeap(g, g) /\ \A u \in Task \ {t} : SameTask(g, g, u)
  BY <1>3 DEF SameHeap, SameTask
<1>11. pc[t] # "truncate" /\ zmap \subseteq zmap' /\ i_zone' = i_zone /\ entry' = entry
  BY <1>2
<1>12. BlocksRight(g)'
  BY <1>4, <1>6, <1>7, <1>8, <1>9, <1>10, <1>11, WalkKeeps
<1> QED BY <1>12 DEF BlockInv

LEMMA BmapEnds ==
  ASSUME NEW g, BlocksRight(g), NEW t \in Task, pc[t] = "bmap", B!Leave(t),
         b_count' = B!Counts({}, B!NodeOf(t)),
         UNCHANGED <<on, zmap, i_zone, entry, data, todo, panic>>
  PROVE  BlockInv'
<1>1. BlockTypes /\ BlockTask(g, t) /\ Alone /\ NewRight(g) /\ Contents(g) /\ BuffersCounted(g)
  BY DEF BlocksRight
<1>2. /\ pc' = [pc EXCEPT ![t] = "out"] /\ file' = [file EXCEPT ![t] = NULL]
      /\ create' = [create EXCEPT ![t] = FALSE] /\ path' = [path EXCEPT ![t] = <<>>]
      /\ node' = [node EXCEPT ![t] = NULL] /\ blk' = [blk EXCEPT ![t] = NULL]
  BY DEF B!Leave
<1>3. /\ pc'[t] = "out" /\ file'[t] = NULL /\ create'[t] = FALSE /\ node'[t] = NULL
      /\ \A u \in Task \ {t} : /\ file'[u] = file[u] /\ create'[u] = create[u] /\ node'[u] = node[u]
                               /\ path'[u] = path[u] /\ pc'[u] = pc[u] /\ blk'[u] = blk[u]
  BY <1>1, <1>2 DEF BlockTypes
<1>4. PICK h : OneIs(g, h, t, NULL)
  BY GhostOne
<1>5. SameHeap(g, h) /\ h.one[t] = NULL /\ (\A u \in Task \ {t} : h.one[u] = g.one[u])
      /\ h.here = g.here /\ h.own = g.own /\ h.lvl = g.lvl /\ \A u \in Task : h.two[u] = g.two[u]
  BY <1>4 DEF OneIs, SameHeap
<1>6. BlockTypes'
  BY <1>1, <1>2 DEF BlockTypes
<1>7. g.one[t] = node[t] /\ todo[t] = <<>> /\ g.two[t] = NULL
  BY <1>1 DEF BlockTask
<1>8. BuffersCounted(h)'
  <2>1. PICK S, R : S = {} /\ R = B!NodeOf(t)
    OBVIOUS
  <2>2. \A b \in Block : b # NULL
    BY BlockConstants
  <2>3. \A b \in Block : (b \in S <=> h.one[t] = b) /\ (b \in R <=> g.one[t] = b)
    BY <1>5, <1>7, <2>1, <2>2 DEF B!NodeOf
  <2>4. OneMoves(g, h, t, S, R) /\ b_count' = B!Counts(S, R)
    BY <1>5, <2>1, <2>3 DEF OneMoves
  <2> QED BY <1>1, <2>4, BuffersMove
<1>9. Alone'
  BY <1>1, <1>3, StaysAlone
<1>10. NewRight(h)'
  <2>1. pc[t] # "new_block" /\ pc'[t] # "new_block"
    BY <1>3
  <2> QED BY <1>1, <1>3, <1>5, <2>1, NewStays
<1>11. Contents(h)'
  BY <1>1, <1>5 DEF Contents
<1>12. BlockTask(h, t)'
  BY <1>3, <1>5, <1>7, IsOut
<1>13. \A u \in Task \ {t} : SameTask(g, h, u)
  BY <1>3, <1>5 DEF SameTask
<1>14. pc[t] # "truncate" /\ zmap \subseteq zmap' /\ i_zone' = i_zone /\ entry' = entry
  OBVIOUS
<1>15. BlocksRight(h)'
  BY <1>5, <1>6, <1>8, <1>9, <1>10, <1>11, <1>12, <1>13, <1>14, WalkKeeps
<1> QED BY <1>15 DEF BlockInv

LEMMA BmapKeeps ==
  ASSUME BlockInv, NEW t \in Task, B!Bmap(t) PROVE BlockInv'
<1>1. PICK g : BlocksRight(g)
  BY DEF BlockInv
<1>2. /\ pc[t] = "bmap" /\ BlockTypes /\ Walks(g, t) /\ zmap \subseteq Block /\ Forest(g)
  BY <1>1 DEF B!Bmap, B!At, BlocksRight, BlockTask, BlockTypes
<1>3. path[t] \in Seq(Nat) /\ path[t] # <<>>
  BY <1>2 DEF Walks
<1>4. Head(path[t]) = path[t][1]
  BY <1>3
<1>5. PICK v : v = Pointer(t)
  OBVIOUS
<1>6. v = IF node[t] = NULL THEN i_zone[file[t]][Head(path[t])] ELSE entry[node[t]][Head(path[t])]
  BY <1>4, <1>5 DEF Pointer
<1>7. /\ IF v # NULL THEN B!Advance(t, v) /\ UNCHANGED zmap
         ELSE IF create[t] /\ zmap # Block
         THEN B!NewBlock(t, B!Min(Block \ zmap)) /\ UNCHANGED <<b_count, B!walk>>
         ELSE B!Leave(t) /\ b_count' = B!Counts({}, B!NodeOf(t)) /\ UNCHANGED zmap
      /\ UNCHANGED <<on, i_zone, entry, data, todo, panic>>
  BY <1>6 DEF B!Bmap
<1>8. CASE v # NULL
  <2>1. v \in Block
    <3>1. v \in g.here /\ g.here \subseteq zmap
      BY <1>1, <1>2, <1>5, <1>8, PointerLeads DEF In, Forest
    <3> QED BY <1>2, <3>1
  <2> QED BY <1>1, <1>2, <1>5, <1>7, <1>8, <2>1, BmapGoesOn
<1>9. CASE v = NULL /\ create[t] /\ zmap # Block
  <2>1. PICK j : j = B!Min(Block \ zmap)
    OBVIOUS
  <2>2. j \in Block \ zmap
    BY <1>2, <1>9, <2>1, FreeBlockIs
  <2>3. B!NewBlock(t, j) /\ UNCHANGED <<b_count, file, create, path, node>>
    BY <1>7, <1>9, <2>1 DEF B!walk
  <2> QED BY <1>1, <1>2, <1>5, <1>7, <1>9, <2>2, <2>3, BmapTakesBlock
<1>10. CASE v = NULL /\ ~(create[t] /\ zmap # Block)
  BY <1>1, <1>2, <1>7, <1>10, BmapEnds
<1> QED BY <1>8, <1>9, <1>10

-----------------------------------------------------------------------------
(***************************************************************************)
(* A block that new_block() has taken is hung up.                          *)
(***************************************************************************)
LEMMA NoUser ==
  ASSUME NEW g, BlocksRight(g), NEW j \in Block, j \notin g.here
  PROVE  b_count[j] = 0
<1>0. j # NULL /\ IsFiniteSet(Task)
  BY BlockConstants
<1>1. ASSUME NEW u \in Task PROVE g.one[u] # j /\ g.two[u] # j
  <2>1. BlockTypes /\ BlockTask(g, u)
    BY DEF BlocksRight
  <2> QED BY <1>0, <2>1, UsersIn DEF In
<1>2. PICK o, w : o = g.one /\ w = g.two
  OBVIOUS
<1>3. Number(o, Task, j) = 0 /\ Number(w, Task, j) = 0
  <2>1. \A u \in Task : o[u] # j /\ w[u] # j
    BY <1>1, <1>2
  <2> QED BY <1>0, <2>1, NumberIsNat
<1>4. b_count[j] = Number(o, Task, j) + Number(w, Task, j)
  BY <1>2 DEF BlocksRight, BuffersCounted
<1> QED BY <1>3, <1>4

Grown(g, h, t, j, s, f, l) ==
    /\ Adds(g, h, j, s, f, l) /\ h.one[t] = j
    /\ \A u \in Task \ {t} : h.one[u] = g.one[u]
    /\ \A u \in Task : h.two[u] = g.two[u]

LEMMA GhostGrown ==
  ASSUME NEW g, NEW t \in Task, NEW j \in Block, NEW s, NEW f, NEW l,
         g.here \subseteq Block, j \notin g.here
  PROVE  \E h : Grown(g, h, t, j, s, f, l)
<1>1. PICK o : o = [u \in Task |-> IF u = t THEN j ELSE g.one[u]]
  OBVIOUS
<1>2. PICK up : up = [b \in Block |-> IF b = j THEN s ELSE g.up[b]]
  OBVIOUS
<1>3. PICK own : own = [b \in Block |-> IF b = j THEN f ELSE g.own[b]]
  OBVIOUS
<1>4. PICK lvl : lvl = [b \in Block |-> IF b = j THEN l ELSE g.lvl[b]]
  OBVIOUS
<1>5. PICK done : done = [b \in Block |-> IF b = j THEN 0 ELSE g.done[b]]
  OBVIOUS
<1>6. PICK h : h = [here |-> g.here \cup {j}, up |-> up, own |-> own, lvl |-> lvl,
                    owed |-> g.owed, done |-> done, one |-> o, two |-> g.two]
  OBVIOUS
<1>7. /\ h.here = g.here \cup {j} /\ h.up = up /\ h.own = own /\ h.lvl = lvl /\ h.owed = g.owed
      /\ h.done = done /\ h.one = o /\ h.two = g.two
  BY <1>6
<1>8. \A b \in g.here : b \in Block /\ b # j
  OBVIOUS
<1>9. Adds(g, h, j, s, f, l)
  BY <1>2, <1>3, <1>4, <1>5, <1>7, <1>8 DEF Adds
<1>10. h.one[t] = j /\ \A u \in Task \ {t} : h.one[u] = g.one[u]
  BY <1>1, <1>7
<1> QED BY <1>7, <1>9, <1>10 DEF Grown

\* What other tasks see of it.
Elsewhere(t) ==
    /\ \A f \in File \ {file[t]} : i_zone'[f] = i_zone[f]
    /\ \A u \in Task \ {t} : pc[u] = "new_block" => Pointer(u)' = Pointer(u)

LEMMA GrownIsRight ==
  ASSUME NEW g, BlocksRight(g), NEW t \in Task, pc[t] = "new_block", NEW j \in Block, j = blk[t],
         NEW h, NEW s, NEW l, l = Len(path[t]), Grown(g, h, t, j, s, file[t], l - 1), Forest(h)',
         B!Advance(t, j), data' = [data EXCEPT ![j] = NULL],
         UNCHANGED <<on, zmap, todo, panic>>,
         i_zone' \in [File -> [B!Zone -> Block \cup {NULL}]],
         entry' \in [Block -> [B!Index -> Block \cup {NULL}]],
         Elsewhere(t)
  PROVE  BlocksRight(h)'
<1>1. BlockTypes /\ BlockTask(g, t) /\ Alone /\ NewRight(g) /\ Contents(g) /\ BuffersCounted(g)
      /\ Walks(g, t) /\ Forest(g) /\ BlocksAreTame
      /\ (\A u \in Task : BlockTask(g, u)) /\ (\A f \in File : FileRight(g, f))
  BY DEF BlocksRight, BlockTask
<1>2. /\ Advanced(t, j)
      /\ \A u \in Task \ {t} : /\ file'[u] = file[u] /\ create'[u] = create[u]
                               /\ node'[u] = node[u] /\ path'[u] = path[u]
                               /\ pc'[u] = pc[u] /\ blk'[u] = blk[u] /\ todo'[u] = todo[u]
      /\ pc' \in [Task -> {"out", "bmap", "new_block", "data", "truncate"}]
      /\ node' \in [Task -> Block \cup {NULL}] /\ blk' \in [Task -> Block \cup {NULL}]
  BY <1>1, AdvanceIs
<1>3. file'[t] = file[t] /\ create'[t] = create[t] /\ pc'[t] # "truncate" /\ pc'[t] # "new_block"
  BY <1>2 DEF Advanced
<1>4. j \notin g.here /\ j \in zmap /\ create[t] /\ file[t] \in File /\ file[t] # NULL
  BY <1>1, BlockConstants DEF BlockTask, Walks
<1>5. /\ h.here = g.here \cup {j} /\ h.owed = g.owed
      /\ (\A b \in g.here : /\ h.up[b] = g.up[b] /\ h.own[b] = g.own[b]
                            /\ h.lvl[b] = g.lvl[b] /\ h.done[b] = g.done[b])
      /\ h.own[j] = file[t] /\ h.lvl[j] = l - 1 /\ h.done[j] = 0 /\ h.one[t] = j
      /\ (\A u \in Task \ {t} : h.one[u] = g.one[u])
      /\ \A u \in Task : h.two[u] = g.two[u]
  BY DEF Grown, Adds
<1>6. BlockTypes'
  <2>1. path' \in [Task -> Seq(Nat)]
    <3>1. path' = [path EXCEPT ![t] = Tail(path[t])] /\ path[t] \in Seq(Nat) /\ path[t] # <<>>
      BY <1>1 DEF B!Advance, Walks
    <3>2. Tail(path[t]) \in Seq(Nat)
      BY <3>1
    <3> QED BY <1>1, <3>1, <3>2 DEF BlockTypes
  <2>2. file' = file /\ create' = create
    BY DEF B!Advance
  <2>3. data' \in [Block -> File \cup {NULL}]
    BY <1>1 DEF BlockTypes
  <2> QED BY <1>1, <1>2, <2>1, <2>2, <2>3 DEF BlockTypes
<1>7. BlockTask(h, t)'
  <2>1. In(h, j, file[t]) /\ h.lvl[j] = l - 1 /\ h.two[t] = NULL /\ todo[t] = <<>> /\ h.one[t] = j
    BY <1>1, <1>5 DEF In, BlockTask
  <2>2. file[t] \in File /\ path[t] \in Seq(Nat) /\ l \in 1..3 /\ \A i \in 2..l : path[t][i] \in B!Index
    BY <1>1 DEF Walks
  <2> QED BY <1>2, <2>1, <2>2, AdvancedIsRight
<1>8. BuffersCounted(h)'
  <2>1. PICK S, R : S = {j} /\ R = B!NodeOf(t)
    OBVIOUS
  <2>2. g.one[t] = node[t]
    BY <1>1 DEF BlockTask
  <2>3. \A b \in Block : b # NULL
    BY BlockConstants
  <2>4. \A b \in Block : (b \in S <=> h.one[t] = b) /\ (b \in R <=> g.one[t] = b)
    BY <1>5, <2>1, <2>2, <2>3 DEF B!NodeOf
  <2>5. OneMoves(g, h, t, S, R) /\ b_count' = B!Counts(S, R)
    BY <1>5, <2>1, <2>4 DEF OneMoves, B!Advance
  <2> QED BY <1>1, <2>5, BuffersMove
<1>9. Alone'
  BY <1>1, <1>2, <1>3, StaysAlone
<1>10. NewRight(h)'
  <2>1. \A b \in zmap' : b \in h.here \/ \E u \in Task : pc'[u] = "new_block" /\ blk'[u] = b
    <3> TAKE b \in zmap'
    <3>1. CASE b # j /\ b \notin g.here
      <4>1. PICK u \in Task : pc[u] = "new_block" /\ blk[u] = b
        BY <1>1, <3>1 DEF NewRight
      <4>2. u # t
        BY <3>1, <4>1
      <4> QED BY <1>2, <4>1, <4>2
    <3> QED BY <1>5, <3>1
  <2>2. \A u, w \in Task : pc'[u] = "new_block" /\ pc'[w] = "new_block" /\ blk'[u] = blk'[w] => u = w
    BY <1>1, <1>2, <1>3 DEF NewRight
  <2> QED BY <2>1, <2>2 DEF NewRight
<1>11. Contents(h)'
  <2>1. data'[j] = NULL /\ \A b \in Block \ {j} : data'[b] = data[b]
    BY <1>1 DEF BlockTypes
  <2>2. \A b \in g.here : b \in Block /\ b # j
    BY <1>1, <1>4 DEF Forest, BlockTypes
  <2> QED BY <1>1, <1>5, <2>1, <2>2 DEF Contents
<1>12. \A f \in File : FileRight(h, f)'
  <2> TAKE f \in File
  <2>1. (\A u \in Task : pc'[u] = "truncate" => file'[u] # f)
           => \A u \in Task : pc[u] = "truncate" => file[u] # f
    BY <1>2
  <2>2. Whole(g, f, {}) => Whole(h, f, {})
    BY <1>5 DEF Whole
  <2>3. FileRight(g, f) /\ h.owed[f] = g.owed[f]
    BY <1>1, <1>5
  <2> QED BY <2>1, <2>2, <2>3 DEF FileRight
<1>13. ASSUME NEW u \in Task \ {t} PROVE BlockTask(h, u)'
  <2>1. BlockTask(g, u) /\ SameTask(g, h, u)
    BY <1>1, <1>2, <1>5 DEF SameTask
  <2>2. \A b : In(g, b, file[u]) => In(h, b, file[u]) /\ h.lvl[b] = g.lvl[b]
    BY <1>5 DEF In
  <2>3. pc[u] = "new_block" => blk[u] \in zmap' \ h.here /\ Pointer(u)' = Pointer(u)
    <3> SUFFICES ASSUME pc[u] = "new_block" PROVE blk[u] \in zmap' \ h.here /\ Pointer(u)' = Pointer(u)
      OBVIOUS
    <3>1. blk[u] # j
      BY <1>1 DEF NewRight
    <3>2. blk[u] \in zmap \ g.here
      BY <2>1 DEF BlockTask
    <3> QED BY <1>5, <3>1, <3>2 DEF Elsewhere
  <2>4. pc[u] = "truncate" => SameFile(g, h, file[u]) /\ i_zone'[file[u]] = i_zone[file[u]]
    <3> SUFFICES ASSUME pc[u] = "truncate" PROVE SameFile(g, h, file[u]) /\ i_zone'[file[u]] = i_zone[file[u]]
      OBVIOUS
    <3>1. file[u] # file[t] /\ file[u] \in File
      BY <1>1, <1>4, <2>1 DEF Alone, BlockTask
    <3>2. i_zone'[file[u]] = i_zone[file[u]]
      BY <3>1 DEF Elsewhere
    <3>3. \A b : In(h, b, file[u]) <=> In(g, b, file[u])
      BY <1>5, <3>1 DEF In
    <3>4. \A b : In(g, b, file[u]) => h.up[b] = g.up[b] /\ h.done[b] = g.done[b]
      BY <1>5 DEF In
    <3> QED BY <1>5, <3>2, <3>3, <3>4 DEF SameFile
  <2> QED BY <2>1, <2>2, <2>3, <2>4, TaskStays
<1>14. BlocksAreTame'
  BY <1>1 DEF BlocksAreTame
<1>15. \A u \in Task : BlockTask(h, u)'
  BY <1>7, <1>13
<1> QED BY <1>6, <1>8, <1>9, <1>10, <1>11, <1>12, <1>14, <1>15 DEF BlocksRight

LEMMA HaveBlockKeeps ==
  ASSUME BlockInv, NEW t \in Task, B!HaveBlock(t) PROVE BlockInv'
<1>1. PICK g : BlocksRight(g)
  BY DEF BlockInv
<1>2. /\ BlockTypes /\ Walks(g, t) /\ Forest(g) /\ BlockTask(g, t) /\ zmap \subseteq Block
      /\ pc[t] = "new_block" /\ Alone /\ (\A u \in Task : BlockTask(g, u))
      /\ i_zone \in [File -> [B!Zone -> Block \cup {NULL}]]
      /\ entry \in [Block -> [B!Index -> Block \cup {NULL}]]
  BY <1>1 DEF B!HaveBlock, B!At, BlocksRight, BlockTask, BlockTypes
<1>3. PICK j, f, n, k, l : j = blk[t] /\ f = file[t] /\ n = node[t] /\ k = path[t][1] /\ l = Len(path[t])
  OBVIOUS
<1>4. /\ j \in Block /\ j \in zmap /\ j \notin g.here /\ Pointer(t) = NULL /\ create[t]
      /\ path[t] # <<>> /\ Head(path[t]) = k /\ g.here \subseteq Block
  <2>1. j \in zmap /\ j \notin g.here /\ Pointer(t) = NULL /\ create[t]
    BY <1>2, <1>3 DEF BlockTask
  <2>2. path[t] # <<>> /\ path[t] \in Seq(Nat)
    BY <1>2 DEF Walks
  <2>3. g.here \subseteq zmap
    BY <1>2 DEF Forest
  <2> QED BY <1>2, <1>3, <2>1, <2>2, <2>3
<1>5. b_count[j] = 0
  BY <1>1, <1>4, NoUser
<1>6. /\ data' = [data EXCEPT ![j] = NULL]
      /\ IF n = NULL
         THEN /\ i_zone' = [i_zone EXCEPT ![f][k] = j]
              /\ entry' = [entry EXCEPT ![j] = B!NoEntries]
         ELSE /\ entry' = [[entry EXCEPT ![j] = B!NoEntries] EXCEPT ![n][k] = j]
              /\ UNCHANGED i_zone
      /\ B!Advance(t, j) /\ UNCHANGED <<on, zmap, todo, panic>>
  BY <1>3, <1>4, <1>5 DEF B!HaveBlock
<1>7. f \in File /\ g.owed[f] = B!Zone /\ Whole(g, f, {})
  BY <1>1, <1>2, <1>3, WalkersFile
<1>8. ASSUME NEW u \in Task \ {t}, pc[u] = "new_block"
      PROVE  file[u] # f /\ file[u] \in File /\ Walks(g, u)
  <2>1. create[u] /\ Walks(g, u) /\ file[u] \in File
    BY <1>2, <1>8 DEF BlockTask, Walks
  <2>2. f # NULL
    BY <1>7, BlockConstants
  <2> QED BY <1>2, <1>3, <1>4, <2>1, <2>2 DEF Alone
<1>9. CASE n = NULL
  <2>1. k \in B!Zone /\ Level(k) = l - 1 /\ i_zone[f][k] = NULL
    BY <1>2, <1>3, <1>4, <1>9 DEF Walks, Pointer
  <2>2. PICK h : Grown(g, h, t, j, <<"i", f, k>>, f, l - 1)
    BY <1>4, GhostGrown
  <2>3. Adds(g, h, j, <<"i", f, k>>, f, Level(k))
    BY <2>1, <2>2 DEF Grown
  <2>4. Forest(h)'
    BY <1>2, <1>4, <1>6, <1>7, <1>9, <2>1, <2>3, AddZone
  <2>5. Elsewhere(t)
    <3>1. \A x \in File \ {f} : i_zone'[x] = i_zone[x]
      BY <1>2, <1>6, <1>9
    <3>2. ASSUME NEW u \in Task \ {t}, pc[u] = "new_block" PROVE Pointer(u)' = Pointer(u)
      <4>1. file'[u] = file[u] /\ node'[u] = node[u] /\ path'[u] = path[u]
        BY <1>2, <1>4, <1>6, AdvanceIs
      <4>2. i_zone'[file[u]] = i_zone[file[u]]
        BY <1>8, <3>1, <3>2
      <4>3. node[u] # NULL => entry'[node[u]] = entry[node[u]]
        <5> SUFFICES ASSUME node[u] # NULL PROVE entry'[node[u]] = entry[node[u]]
          OBVIOUS
        <5>1. node[u] \in g.here
          BY <1>8, <3>2 DEF Walks, In
        <5>2. node[u] \in Block /\ node[u] # j
          BY <1>4, <5>1
        <5> QED BY <1>2, <1>6, <1>9, <5>2
      <4> QED BY <4>1, <4>2, <4>3 DEF Pointer
    <3> QED BY <1>3, <3>1, <3>2 DEF Elsewhere
  <2>6. i_zone' \in [File -> [B!Zone -> Block \cup {NULL}]]
    <3>1. i_zone' = [i_zone EXCEPT ![f][k] = j]
      BY <1>6, <1>9
    <3> QED BY <1>2, <1>4, <1>7, <3>1
  <2>7. entry' \in [Block -> [B!Index -> Block \cup {NULL}]]
    BY <1>2, <1>4, <1>6, <1>9 DEF B!NoEntries
  <2>8. PICK s : s = <<"i", f, k>>
    OBVIOUS
  <2>9. BlocksRight(h)'
    <3>1. Grown(g, h, t, j, s, file[t], l - 1)
      BY <1>3, <2>2, <2>8
    <3> QED BY <1>1, <1>2, <1>3, <1>4, <1>6, <2>4, <2>5, <2>6, <2>7, <3>1, GrownIsRight
  <2> QED BY <2>9 DEF BlockInv
<1>10. CASE n # NULL
  <2>1. k \in B!Index /\ n \in g.here /\ g.own[n] = f /\ g.lvl[n] = l /\ l \in 1..3 /\ entry[n][k] = NULL
    BY <1>2, <1>3, <1>4, <1>10 DEF Walks, Pointer, In
  <2>2. g.done[n] = 0 /\ g.lvl[n] \in 1..2 /\ g.lvl[n] - 1 = l - 1
    <3>1. g.lvl[n] \in 0..2
      BY <1>2, <2>1 DEF Forest
    <3> QED BY <1>7, <2>1, <3>1 DEF Whole
  <2>3. PICK h : Grown(g, h, t, j, <<"e", n, k>>, f, l - 1)
    BY <1>4, GhostGrown
  <2>4. Adds(g, h, j, <<"e", n, k>>, g.own[n], g.lvl[n] - 1)
    BY <2>1, <2>2, <2>3 DEF Grown
  <2>5. Forest(h)'
    <3>1. i_zone' = i_zone /\ entry' = [[entry EXCEPT ![j] = B!NoEntries] EXCEPT ![n][k] = j]
      BY <1>6, <1>10
    <3> QED BY <1>2, <1>4, <1>6, <2>1, <2>2, <2>4, <3>1, AddEntry
  <2>6. Elsewhere(t)
    <3>1. \A x \in File \ {f} : i_zone'[x] = i_zone[x]
      BY <1>6, <1>10
    <3>2. ASSUME NEW u \in Task \ {t}, pc[u] = "new_block" PROVE Pointer(u)' = Pointer(u)
      <4>1. file'[u] = file[u] /\ node'[u] = node[u] /\ path'[u] = path[u]
        BY <1>2, <1>4, <1>6, AdvanceIs
      <4>3. node[u] # NULL => entry'[node[u]] = entry[node[u]]
        <5> SUFFICES ASSUME node[u] # NULL PROVE entry'[node[u]] = entry[node[u]]
          OBVIOUS
        <5>1. node[u] \in g.here /\ g.own[node[u]] = file[u] /\ file[u] # f
          BY <1>8, <3>2 DEF Walks, In
        <5>2. node[u] \in Block /\ node[u] # j /\ node[u] # n
          BY <1>4, <2>1, <5>1
        <5> QED BY <1>2, <1>6, <1>10, <5>2
      <4> QED BY <1>6, <1>10, <4>1, <4>3 DEF Pointer
    <3> QED BY <1>3, <3>1, <3>2 DEF Elsewhere
  <2>7. entry' \in [Block -> [B!Index -> Block \cup {NULL}]]
    <3>1. PICK c : c = [entry EXCEPT ![j] = B!NoEntries]
      OBVIOUS
    <3>2. c \in [Block -> [B!Index -> Block \cup {NULL}]]
      BY <1>2, <1>4, <3>1 DEF B!NoEntries
    <3>3. n \in Block /\ entry' = [c EXCEPT ![n][k] = j]
      BY <1>4, <1>6, <1>10, <2>1, <3>1
    <3> QED BY <1>4, <2>1, <3>2, <3>3
  <2>8. i_zone' \in [File -> [B!Zone -> Block \cup {NULL}]]
    BY <1>2, <1>6, <1>10
  <2>9. PICK s : s = <<"e", n, k>>
    OBVIOUS
  <2>10. BlocksRight(h)'
    <3>1. Grown(g, h, t, j, s, file[t], l - 1)
      BY <1>3, <2>3, <2>9
    <3> QED BY <1>1, <1>2, <1>3, <1>4, <1>6, <2>5, <2>6, <2>7, <2>8, <3>1, GrownIsRight
  <2> QED BY <2>10 DEF BlockInv
<1> QED BY <1>9, <1>10

-----------------------------------------------------------------------------
(***************************************************************************)
(* The steps of truncate(): where it is, by the first of the items.        *)
(***************************************************************************)
Idle(one, two) == one = NULL /\ two = NULL

AtZone(g, s, f, z) ==
    /\ z \in 0..(DIRECT - 1) /\ Head(s) = B!Do("zone", NULL, z, 0) /\ Tail(s) = Rest(z + 1)
    /\ Cleared(f, z) /\ g.owed[f] = z..(DIRECT + 1) /\ Whole(g, f, {})

AtFreeZone(g, s, f, z, v) ==
    /\ z \in 0..(DIRECT - 1) /\ Head(s) = B!Do("free", v, 0, 0)
    /\ Tail(s) = <<B!Do("clear", NULL, z, 0)>> \o Rest(z + 1)
    /\ Cleared(f, z) /\ g.owed[f] = z..(DIRECT + 1) /\ Whole(g, f, {})
    /\ In(g, v, f) /\ g.up[v] = <<"i", f, z>>

AtClear(g, s, f, z) ==
    /\ z \in 0..(DIRECT - 1) /\ Head(s) = B!Do("clear", NULL, z, 0) /\ Tail(s) = Rest(z + 1)
    /\ Cleared(f, z) /\ g.owed[f] = (z + 1)..(DIRECT + 1) /\ Whole(g, f, {})

AtRoots(g, s, f) ==
    /\ Head(s) = B!Do("root", NULL, DIRECT, 1) /\ Tail(s) = Root2
    /\ Cleared(f, DIRECT) /\ g.owed[f] = DIRECT..(DIRECT + 1) /\ Whole(g, f, {})

AtSecondRoot(g, s, f) ==
    /\ Head(s) = B!Do("root", NULL, DIRECT + 1, 2) /\ Tail(s) = Clears
    /\ Cleared(f, DIRECT) /\ g.owed[f] = {DIRECT + 1} /\ Whole(g, f, {})

AtSecondTree(g, s, f) ==
    /\ Head(s) = B!Do("tree", i_zone[f][DIRECT + 1], 0, 2) /\ Tail(s) = Clears
    /\ Cleared(f, DIRECT) /\ g.owed[f] = {DIRECT + 1} /\ Whole(g, f, {})

\* free_dind() works on block b, whose first k entries are done.
InDind(g, f, b, k) ==
    /\ Cleared(f, DIRECT) /\ g.owed[f] = {DIRECT + 1}
    /\ In(g, b, f) /\ g.up[b] = <<"i", f, DIRECT + 1>> /\ g.done[b] = k /\ k \in 0..PER

\* free_ind() works on block v, with r to follow: called by truncate(), or by free_dind().
ByTruncate(g, f, two, v, r, X) ==
    /\ r = Root2 /\ X = {v} /\ two = NULL
    /\ Cleared(f, DIRECT) /\ g.owed[f] = DIRECT..(DIRECT + 1)
    /\ v # NULL => In(g, v, f) /\ g.up[v] = <<"i", f, DIRECT>>
    /\ v = NULL => i_zone[f][DIRECT] = NULL

ByDind(g, f, two, v, r, X, b, k) ==
    /\ r = <<B!Do("scan", b, k + 1, 2)>> \o Clears /\ X = {b, v} /\ two = b
    /\ InDind(g, f, b, k) /\ k < PER
    /\ v # NULL /\ In(g, v, f) /\ g.up[v] = <<"e", b, k>>

InInd(g, f, two, v, r, X) ==
    /\ v \in Block \cup {NULL} /\ r \in Seq(B!Item) /\ Whole(g, f, X)
    /\ ByTruncate(g, f, two, v, r, X) \/ \E b, k : ByDind(g, f, two, v, r, X, b, k)

AtTree(g, s, one, v, r) ==
    /\ Head(s) = B!Do("tree", v, 0, 1) /\ Tail(s) = r
    /\ one = NULL /\ (v # NULL => g.done[v] = 0)

AtScan(g, s, one, v, r, j) ==
    /\ Head(s) = B!Do("scan", v, j, 1) /\ Tail(s) = r
    /\ v # NULL /\ one = v /\ g.done[v] = j /\ j \in 0..PER

AtFreeLeaf(g, s, f, one, v, r, j, w) ==
    /\ Head(s) = B!Do("free", w, 0, 0) /\ Tail(s) = <<B!Do("scan", v, j + 1, 1)>> \o r
    /\ v # NULL /\ one = v /\ g.done[v] = j /\ j \in B!Index
    /\ In(g, w, f) /\ g.up[w] = <<"e", v, j>>

AtFreeInd(g, s, one, v, r) ==
    /\ Head(s) = B!Do("free", v, 0, 0) /\ Tail(s) = r
    /\ v # NULL /\ one = NULL /\ g.done[v] = PER

AtSecondScan(g, s, f, one, two, b, k) ==
    /\ Head(s) = B!Do("scan", b, k, 2) /\ Tail(s) = Clears
    /\ one = NULL /\ two = b /\ InDind(g, f, b, k) /\ Whole(g, f, {b})

AtFreeDind(g, s, f, b) ==
    /\ Head(s) = B!Do("free", b, 0, 0) /\ Tail(s) = Clears
    /\ InDind(g, f, b, PER) /\ Whole(g, f, {b})

AtLast(g, s, f) ==
    /\ g.owed[f] = {} /\ Whole(g, f, {}) /\ Cleared(f, DIRECT)
    /\ \/ Head(s) = B!Do("clear", NULL, DIRECT, 0) /\ s = Clears
       \/ /\ Head(s) = B!Do("clear", NULL, DIRECT + 1, 0) /\ Tail(s) = <<>>
          /\ i_zone[f][DIRECT] = NULL

Positions(g, s, f, one, two) ==
    /\ Head(s).kind \in {"zone", "root", "tree", "scan", "free", "clear"}
    /\ Head(s).kind = "zone" => Idle(one, two) /\ \E z : AtZone(g, s, f, z)
    /\ Head(s).kind = "root" => Idle(one, two) /\ (AtRoots(g, s, f) \/ AtSecondRoot(g, s, f))
    /\ Head(s).kind = "tree" =>
          \/ \E v, r, X : InInd(g, f, two, v, r, X) /\ AtTree(g, s, one, v, r)
          \/ Idle(one, two) /\ AtSecondTree(g, s, f)
    /\ Head(s).kind = "scan" =>
          \/ \E v, r, X, j : InInd(g, f, two, v, r, X) /\ AtScan(g, s, one, v, r, j)
          \/ \E b, k : AtSecondScan(g, s, f, one, two, b, k)
    /\ Head(s).kind = "free" =>
          \/ Idle(one, two) /\ \E z, v : AtFreeZone(g, s, f, z, v)
          \/ \E v, r, X, j, w : InInd(g, f, two, v, r, X) /\ AtFreeLeaf(g, s, f, one, v, r, j, w)
          \/ \E v, r, X : InInd(g, f, two, v, r, X) /\ AtFreeInd(g, s, one, v, r)
          \/ Idle(one, two) /\ \E b : AtFreeDind(g, s, f, b)
    /\ Head(s).kind = "clear" =>
          Idle(one, two) /\ ((\E z : AtClear(g, s, f, z)) \/ AtLast(g, s, f))

LEMMA ZonePositions ==
  ASSUME NEW g, Forest(g), zmap \subseteq Block, NEW s, NEW f, AtZones(g, s, f),
         NEW one, NEW two, Idle(one, two)
  PROVE  Positions(g, s, f, one, two)
<1>0. DIRECT \in Nat \ {0} /\ NULL \notin Block
  BY BlockConstants
<1>1. Whole(g, f, {})
  BY DEF AtZones
<1>2. ASSUME NEW z \in 0..DIRECT, s = Rest(z), Cleared(f, z), g.owed[f] = z..(DIRECT + 1)
      PROVE  Positions(g, s, f, one, two)
  <2>1. CASE z = DIRECT
    <3>1. Head(s) = B!Do("root", NULL, DIRECT, 1) /\ Tail(s) = Root2
      BY <1>2, <2>1, RestIs, Lists
    <3>2. AtRoots(g, s, f) /\ Head(s).kind = "root"
      BY <1>1, <1>2, <2>1, <3>1, ItemFields DEF AtRoots
    <3> QED BY <3>2 DEF Positions
  <2>2. CASE z # DIRECT
    <3>0. z < DIRECT /\ z \in 0..(DIRECT - 1)
      BY <1>0, <2>2
    <3>1. Head(s) = B!Do("zone", NULL, z, 0) /\ Tail(s) = Rest(z + 1)
      BY <1>2, <3>0, RestIs
    <3>2. AtZone(g, s, f, z) /\ Head(s).kind = "zone"
      BY <1>1, <1>2, <3>0, <3>1, ItemFields DEF AtZone
    <3> QED BY <3>2 DEF Positions
  <2> QED BY <2>1, <2>2
<1>3. ASSUME NEW z \in 0..(DIRECT - 1), NEW v \in g.here,
             s = <<B!Do("free", v, 0, 0), B!Do("clear", NULL, z, 0)>> \o Rest(z + 1),
             Cleared(f, z), g.owed[f] = z..(DIRECT + 1), In(g, v, f), g.up[v] = <<"i", f, z>>
      PROVE  Positions(g, s, f, one, two)
  <2>1. PICK a, c, r : a = B!Do("free", v, 0, 0) /\ c = B!Do("clear", NULL, z, 0) /\ r = Rest(z + 1)
    OBVIOUS
  <2>2. v \in Block
    BY DEF Forest
  <2>3. a \in B!Item /\ c \in B!Item /\ r \in Seq(B!Item)
    <3>1. z \in Nat /\ z + 1 \in 0..DIRECT
      BY <1>0
    <3>2. 0 \in Nat /\ 0 \in 0..2
      OBVIOUS
    <3> QED BY <2>1, <2>2, <3>1, <3>2, ItemFields, RestIs
  <2>4. Head(s) = a /\ Tail(s) = <<c>> \o r
    BY <1>3, <2>1, <2>3, Items
  <2>5. AtFreeZone(g, s, f, z, v) /\ Head(s).kind = "free"
    BY <1>1, <1>3, <2>1, <2>4, ItemFields DEF AtFreeZone
  <2> QED BY <2>5 DEF Positions
<1>4. ASSUME NEW z \in 0..(DIRECT - 1), s = <<B!Do("clear", NULL, z, 0)>> \o Rest(z + 1),
             Cleared(f, z), g.owed[f] = (z + 1)..(DIRECT + 1)
      PROVE  Positions(g, s, f, one, two)
  <2>1. PICK c, r : c = B!Do("clear", NULL, z, 0) /\ r = Rest(z + 1)
    OBVIOUS
  <2>3. c \in B!Item /\ r \in Seq(B!Item)
    <3>1. z \in Nat /\ z + 1 \in 0..DIRECT
      BY <1>0
    <3>2. 0 \in Nat /\ 0 \in 0..2
      OBVIOUS
    <3> QED BY <2>1, <3>1, <3>2, ItemFields, RestIs
  <2>4. Head(s) = c /\ Tail(s) = r
    BY <1>4, <2>1, <2>3, Items
  <2>5. AtClear(g, s, f, z) /\ Head(s).kind = "clear"
    BY <1>1, <1>4, <2>1, <2>4, ItemFields DEF AtClear
  <2> QED BY <2>5 DEF Positions
<1> QED BY <1>2, <1>3, <1>4 DEF AtZones

LEMMA IndPositions ==
  ASSUME NEW g, Forest(g), zmap \subseteq Block, NEW s, NEW f, NEW one, NEW two,
         NEW v, NEW r, NEW X, InInd(g, f, two, v, r, X), AtInd(g, s, f, one, v, r)
  PROVE  Positions(g, s, f, one, two)
<1>0. PER \in Nat \ {0} /\ NULL \notin Block /\ B!Index = 0..(PER - 1)
  BY BlockConstants
<1>1. v \in Block \cup {NULL} /\ r \in Seq(B!Item)
  BY DEF InInd
<1>c. 0 \in Nat /\ 0 \in 0..2 /\ 1 \in 0..2
  OBVIOUS
<1>2. CASE s = <<B!Do("tree", v, 0, 1)>> \o r /\ one = NULL /\ (v # NULL => g.done[v] = 0)
  <2>1. PICK a : a = B!Do("tree", v, 0, 1)
    OBVIOUS
  <2>2. a \in B!Item /\ a.kind = "tree"
    BY <1>1, <1>c, <2>1, ItemFields
  <2>3. Head(s) = a /\ Tail(s) = r
    BY <1>1, <1>2, <2>1, <2>2, Items
  <2>4. AtTree(g, s, one, v, r) /\ Head(s).kind = "tree"
    BY <1>2, <2>1, <2>2, <2>3 DEF AtTree
  <2> QED BY <2>4 DEF Positions
<1>3. ASSUME NEW j \in 0..PER, v # NULL, one = v, g.done[v] = j,
             s = <<B!Do("scan", v, j, 1)>> \o r
      PROVE  Positions(g, s, f, one, two)
  <2>1. PICK a : a = B!Do("scan", v, j, 1)
    OBVIOUS
  <2>2. a \in B!Item /\ a.kind = "scan"
    <3>1. j \in Nat
      BY <1>0
    <3> QED BY <1>1, <1>c, <2>1, <3>1, ItemFields
  <2>3. Head(s) = a /\ Tail(s) = r
    BY <1>1, <1>3, <2>1, <2>2, Items
  <2>4. AtScan(g, s, one, v, r, j) /\ Head(s).kind = "scan"
    BY <1>3, <2>1, <2>2, <2>3 DEF AtScan
  <2> QED BY <2>4 DEF Positions
<1>4. ASSUME NEW j \in B!Index, NEW w \in g.here, v # NULL, one = v, g.done[v] = j,
             In(g, w, f), g.up[w] = <<"e", v, j>>,
             s = <<B!Do("free", w, 0, 0), B!Do("scan", v, j + 1, 1)>> \o r
      PROVE  Positions(g, s, f, one, two)
  <2>1. PICK a, c : a = B!Do("free", w, 0, 0) /\ c = B!Do("scan", v, j + 1, 1)
    OBVIOUS
  <2>2. a \in B!Item /\ c \in B!Item /\ a.kind = "free"
    <3>1. w \in Block
      BY DEF Forest
    <3>2. j + 1 \in Nat
      BY <1>0
    <3> QED BY <1>1, <1>c, <2>1, <3>1, <3>2, ItemFields
  <2>3. Head(s) = a /\ Tail(s) = <<c>> \o r
    BY <1>1, <1>4, <2>1, <2>2, Items
  <2>4. AtFreeLeaf(g, s, f, one, v, r, j, w) /\ Head(s).kind = "free"
    BY <1>4, <2>1, <2>2, <2>3 DEF AtFreeLeaf
  <2> QED BY <2>4 DEF Positions
<1>5. CASE v # NULL /\ one = NULL /\ g.done[v] = PER /\ s = <<B!Do("free", v, 0, 0)>> \o r
  <2>1. PICK a : a = B!Do("free", v, 0, 0)
    OBVIOUS
  <2>2. a \in B!Item /\ a.kind = "free"
    BY <1>1, <1>c, <2>1, ItemFields
  <2>3. Head(s) = a /\ Tail(s) = r
    BY <1>1, <1>5, <2>1, <2>2, Items
  <2>4. AtFreeInd(g, s, one, v, r) /\ Head(s).kind = "free"
    BY <1>5, <2>1, <2>2, <2>3 DEF AtFreeInd
  <2> QED BY <2>4 DEF Positions
<1> QED BY <1>2, <1>3, <1>4, <1>5 DEF AtInd

LEMMA RootPositions ==
  ASSUME NEW g, Forest(g), zmap \subseteq Block, NEW s, NEW f \in File, NEW one, NEW two,
         i_zone \in [File -> [B!Zone -> Block \cup {NULL}]],
         AtRoot2(g, s, f, one, two), Cleared(f, DIRECT)
  PROVE  Positions(g, s, f, one, two)
<1>0. /\ PER \in Nat \ {0} /\ NULL \notin Block /\ B!Index = 0..(PER - 1) /\ DIRECT + 1 \in B!Zone
  BY BlockConstants
<1>c. 0 \in Nat /\ 0 \in 0..2 /\ 1 \in 0..2 /\ 2 \in 0..2
  OBVIOUS
<1>1. g.owed[f] = {DIRECT + 1} /\ Clears \in Seq(B!Item)
  BY Lists DEF AtRoot2
<1>2. CASE s = Root2 /\ one = NULL /\ two = NULL /\ Whole(g, f, {})
  <2>1. AtSecondRoot(g, s, f) /\ Head(s).kind = "root" /\ Idle(one, two)
    BY <1>1, <1>2, Lists, ItemFields DEF AtSecondRoot, Idle
  <2> QED BY <2>1 DEF Positions
<1>3. CASE /\ s = <<B!Do("tree", i_zone[f][DIRECT + 1], 0, 2)>> \o Clears
           /\ one = NULL /\ two = NULL /\ Whole(g, f, {})
  <2>1. PICK v, a : v = i_zone[f][DIRECT + 1] /\ a = B!Do("tree", v, 0, 2)
    OBVIOUS
  <2>2. v \in Block \cup {NULL}
    BY <1>0, <2>1
  <2>3. a \in B!Item /\ a.kind = "tree"
    BY <1>c, <2>1, <2>2, ItemFields
  <2>4. Head(s) = a /\ Tail(s) = Clears
    BY <1>1, <1>3, <2>1, <2>3, Items
  <2>5. AtSecondTree(g, s, f) /\ Head(s).kind = "tree" /\ Idle(one, two)
    BY <1>1, <1>3, <2>1, <2>3, <2>4 DEF AtSecondTree, Idle
  <2> QED BY <2>5 DEF Positions
<1>4. ASSUME NEW b \in g.here, NEW k \in 0..PER, In(g, b, f), g.up[b] = <<"i", f, DIRECT + 1>>,
             g.done[b] = k, AtDind(g, s, f, one, two, b, k)
      PROVE  Positions(g, s, f, one, two)
  <2>0. b \in Block /\ b # NULL /\ InDind(g, f, b, k)
    <3>1. b \in Block
      BY DEF Forest
    <3> QED BY <1>0, <1>1, <1>4, <3>1 DEF InDind
  <2>1. CASE s = <<B!Do("scan", b, k, 2)>> \o Clears /\ one = NULL /\ two = b /\ Whole(g, f, {b})
    <3>1. PICK a : a = B!Do("scan", b, k, 2)
      OBVIOUS
    <3>2. a \in B!Item /\ a.kind = "scan"
      <4>1. k \in Nat
        BY <1>0
      <4> QED BY <1>c, <2>0, <3>1, <4>1, ItemFields
    <3>3. Head(s) = a /\ Tail(s) = Clears
      BY <1>1, <2>1, <3>1, <3>2, Items
    <3>4. AtSecondScan(g, s, f, one, two, b, k) /\ Head(s).kind = "scan"
      BY <2>0, <2>1, <3>1, <3>2, <3>3 DEF AtSecondScan
    <3> QED BY <3>4 DEF Positions
  <2>2. ASSUME k < PER, two = b, NEW v \in g.here,
               AtInd(g, s, f, one, v, <<B!Do("scan", b, k + 1, 2)>> \o Clears),
               In(g, v, f), g.up[v] = <<"e", b, k>>, Whole(g, f, {b, v})
        PROVE  Positions(g, s, f, one, two)
    <3>1. PICK a, r, X : a = B!Do("scan", b, k + 1, 2) /\ r = <<a>> \o Clears /\ X = {b, v}
      OBVIOUS
    <3>2. a \in B!Item
      <4>1. k + 1 \in Nat
        BY <1>0
      <4> QED BY <1>c, <2>0, <3>1, <4>1, ItemFields
    <3>3. r \in Seq(B!Item)
      BY <1>1, <3>1, <3>2, Items
    <3>4. v \in Block /\ v # NULL
      <4>1. v \in Block
        BY DEF Forest
      <4> QED BY <1>0, <4>1
    <3>5. ByDind(g, f, two, v, r, X, b, k)
      BY <2>0, <2>2, <3>1, <3>4 DEF ByDind
    <3>6. InInd(g, f, two, v, r, X)
      BY <2>2, <3>1, <3>3, <3>4, <3>5 DEF InInd
    <3>7. AtInd(g, s, f, one, v, r)
      BY <2>2, <3>1
    <3> QED BY <3>6, <3>7, IndPositions
  <2>3. CASE /\ k = PER /\ s = <<B!Do("free", b, 0, 0)>> \o Clears /\ one = NULL /\ two = NULL
             /\ Whole(g, f, {b})
    <3>1. PICK a : a = B!Do("free", b, 0, 0)
      OBVIOUS
    <3>2. a \in B!Item /\ a.kind = "free"
      BY <1>c, <2>0, <3>1, ItemFields
    <3>3. Head(s) = a /\ Tail(s) = Clears
      BY <1>1, <2>3, <3>1, <3>2, Items
    <3>4. AtFreeDind(g, s, f, b) /\ Head(s).kind = "free" /\ Idle(one, two)
      BY <2>0, <2>3, <3>1, <3>2, <3>3 DEF AtFreeDind, Idle
    <3> QED BY <3>4 DEF Positions
  <2> QED BY <1>4, <2>1, <2>2, <2>3 DEF AtDind
<1> QED BY <1>2, <1>3, <1>4 DEF AtRoot2

LEMMA TruncatesAt ==
  ASSUME NEW g, Forest(g), zmap \subseteq Block, NEW s, NEW f \in File, NEW one, NEW two,
         i_zone \in [File -> [B!Zone -> Block \cup {NULL}]],
         Truncates(g, s, f, one, two), s # <<>>
  PROVE  Positions(g, s, f, one, two)
<1>1. CASE AtZones(g, s, f) /\ one = NULL /\ two = NULL
  BY <1>1, ZonePositions DEF Idle
<1>2. CASE Cleared(f, DIRECT) /\ AtRoot1(g, s, f, one) /\ two = NULL
  <2>1. PICK v \in Block \cup {NULL} :
           /\ AtInd(g, s, f, one, v, Root2) /\ Whole(g, f, {v})
           /\ v # NULL => In(g, v, f) /\ g.up[v] = <<"i", f, DIRECT>>
           /\ v = NULL => i_zone[f][DIRECT] = NULL
    BY <1>2 DEF AtRoot1
  <2>2. PICK r, X : r = Root2 /\ X = {v}
    OBVIOUS
  <2>3. r \in Seq(B!Item) /\ g.owed[f] = DIRECT..(DIRECT + 1)
    BY <1>2, <2>2, Lists DEF AtRoot1
  <2>4. ByTruncate(g, f, two, v, r, X)
    BY <1>2, <2>1, <2>2, <2>3 DEF ByTruncate
  <2>5. InInd(g, f, two, v, r, X) /\ AtInd(g, s, f, one, v, r)
    BY <2>1, <2>2, <2>3, <2>4 DEF InInd
  <2> QED BY <2>5, IndPositions
<1>3. CASE Cleared(f, DIRECT) /\ AtRoot2(g, s, f, one, two)
  BY <1>3, RootPositions
<1>4. CASE Cleared(f, DIRECT) /\ AtEnd(g, s, f) /\ one = NULL /\ two = NULL
  <2>1. AtLast(g, s, f) /\ Head(s).kind = "clear"
    <3>1. CASE s = Clears
      BY <1>4, <3>1, Lists, ItemFields DEF AtEnd, AtLast
    <3>2. CASE s = <<B!Do("clear", NULL, DIRECT + 1, 0)>> /\ i_zone[f][DIRECT] = NULL
      <4>1. PICK a : a = B!Do("clear", NULL, DIRECT + 1, 0)
        OBVIOUS
      <4>2. Head(s) = a /\ Tail(s) = <<>> /\ a.kind = "clear"
        <5>1. Head(<<a>>) = a /\ Tail(<<a>>) = <<>>
          OBVIOUS
        <5> QED BY <3>2, <4>1, <5>1, ItemFields
      <4> QED BY <1>4, <3>2, <4>1, <4>2 DEF AtEnd, AtLast
    <3> QED BY <1>4, <3>1, <3>2 DEF AtEnd
  <2> QED BY <1>4, <2>1 DEF Positions, Idle
<1> QED BY <1>1, <1>2, <1>3, <1>4 DEF Truncates

-----------------------------------------------------------------------------
(***************************************************************************)
(* A step of truncate() changes one file, its items and its buffers.       *)
(***************************************************************************)
OnlyIn(g, h, f) ==
    /\ h.here \subseteq g.here /\ h.up = g.up /\ h.own = g.own /\ h.lvl = g.lvl
    /\ \A b \in g.here : g.own[b] # f => b \in h.here /\ h.done[b] = g.done[b]
    /\ \A x \in File \ {f} : h.owed[x] = g.owed[x]

BuffersOf(g, h, t) == \A u \in Task \ {t} : h.one[u] = g.one[u] /\ h.two[u] = g.two[u]

TruncateStays(t) ==
    /\ pc[t] = "truncate"
    /\ UNCHANGED <<on, entry, data, pc, file, create, path, node, blk, panic>>

LEMMA TruncateGoesOn ==
  ASSUME NEW g, BlocksRight(g), NEW t \in Task, TruncateStays(t),
         NEW h, NEW f, f = file[t], OnlyIn(g, h, f), BuffersOf(g, h, t),
         NEW s \in Seq(B!Item), todo' = [todo EXCEPT ![t] = s],
         zmap' \subseteq zmap, zmap \ zmap' = g.here \ h.here,
         i_zone' \in [File -> [B!Zone -> Block \cup {NULL}]],
         \A x \in File \ {f} : i_zone'[x] = i_zone[x],
         Forest(h)', BuffersCounted(h)', Truncates(h, s, f, h.one[t], h.two[t])'
  PROVE  BlocksRight(h)'
<1>1. /\ BlockTypes /\ BlocksAreTame /\ Alone /\ NewRight(g) /\ Contents(g)
      /\ (\A u \in Task : BlockTask(g, u)) /\ (\A x \in File : FileRight(g, x)) /\ Forest(g)
  BY DEF BlocksRight
<1>2. /\ pc[t] = "truncate" /\ f \in File /\ f # NULL /\ node[t] = NULL /\ ~create[t]
      /\ UNCHANGED <<on, entry, data, pc, file, create, path, node, blk, panic>>
  BY <1>1, BlockConstants DEF TruncateStays, BlockTask
<1>3. todo'[t] = s /\ \A u \in Task \ {t} : todo'[u] = todo[u]
  BY <1>1 DEF BlockTypes
<1>4. BlockTypes'
  BY <1>1, <1>2 DEF BlockTypes
<1>5. BlocksAreTame' /\ Alone'
  BY <1>1, <1>2 DEF BlocksAreTame, Alone
<1>6. /\ h.here \subseteq g.here /\ h.up = g.up /\ h.own = g.own /\ h.lvl = g.lvl
      /\ (\A b \in g.here : g.own[b] # f => b \in h.here /\ h.done[b] = g.done[b])
      /\ \A x \in File \ {f} : h.owed[x] = g.owed[x]
  BY DEF OnlyIn
<1>7. Contents(h)'
  BY <1>1, <1>2, <1>6 DEF Contents
<1>8. NewRight(h)'
  <2>1. \A b \in zmap' : b \in zmap /\ (b \in g.here => b \in h.here)
    OBVIOUS
  <2>2. \A b \in zmap' : b \in h.here \/ \E u \in Task : pc'[u] = "new_block" /\ blk'[u] = b
    BY <1>1, <1>2, <2>1 DEF NewRight
  <2>3. \A u, w \in Task : pc'[u] = "new_block" /\ pc'[w] = "new_block" /\ blk'[u] = blk'[w] => u = w
    BY <1>1, <1>2 DEF NewRight
  <2> QED BY <2>2, <2>3 DEF NewRight
<1>9. BlockTask(h, t)'
  BY <1>2, <1>3 DEF BlockTask
<1>10. ASSUME NEW x \in File \ {f}
       PROVE  SameFile(g, h, x) /\ \A b : In(g, b, x) => h.lvl[b] = g.lvl[b]
  <2>1. \A b : In(h, b, x) <=> In(g, b, x)
    BY <1>6 DEF In
  <2>2. \A b : In(g, b, x) => h.up[b] = g.up[b] /\ h.done[b] = g.done[b]
    BY <1>6 DEF In
  <2> QED BY <1>6, <2>1, <2>2 DEF SameFile
<1>11. \A x \in File : FileRight(h, x)'
  <2> TAKE x \in File
  <2>1. CASE x = f
    BY <1>2, <2>1 DEF FileRight
  <2>2. CASE x # f
    <3>1. SameFile(g, h, x)
      BY <1>10, <2>2
    <3>2. h.owed[x] = g.owed[x] /\ (Whole(g, x, {}) => Whole(h, x, {}))
      BY <3>1, WholeStays DEF SameFile
    <3> QED BY <1>1, <1>2, <3>2 DEF FileRight
  <2> QED BY <2>1, <2>2
<1>12. ASSUME NEW u \in Task \ {t} PROVE BlockTask(h, u)'
  <2>0. BlockTask(g, u) /\ SameTask(g, h, u)
    BY <1>1, <1>2, <1>3 DEF SameTask, BuffersOf
  <2>1. pc[u] # "out" => file[u] \in File \ {f}
    <3>1. pc[u] # "out" => file[u] \in File
      BY <1>1, <2>0, UsersIn
    <3>2. file[u] # f
      BY <1>1, <1>2 DEF Alone
    <3> QED BY <3>1, <3>2
  <2>2. pc[u] # "out" => /\ SameFile(g, h, file[u]) /\ i_zone'[file[u]] = i_zone[file[u]]
                         /\ \A b : In(g, b, file[u]) => h.lvl[b] = g.lvl[b]
    BY <1>10, <2>1
  <2>3. pc[u] \in {"bmap", "new_block", "data"}
           => \A b : In(g, b, file[u]) => In(h, b, file[u]) /\ h.lvl[b] = g.lvl[b]
    BY <2>2 DEF SameFile
  <2>4. pc[u] = "new_block" => blk[u] \in zmap' \ h.here /\ Pointer(u)' = Pointer(u)
    <3> SUFFICES ASSUME pc[u] = "new_block" PROVE blk[u] \in zmap' \ h.here /\ Pointer(u)' = Pointer(u)
      OBVIOUS
    <3>1. blk[u] \in zmap \ g.here
      BY <2>0 DEF BlockTask
    <3>2. Pointer(u)' = Pointer(u)
      BY <1>2, <2>2 DEF Pointer
    <3> QED BY <1>6, <3>1, <3>2
  <2>5. pc[u] = "truncate" => SameFile(g, h, file[u]) /\ i_zone'[file[u]] = i_zone[file[u]]
    BY <2>2
  <2> QED BY <2>0, <2>3, <2>4, <2>5, TaskStays
<1>13. \A u \in Task : BlockTask(h, u)'
  BY <1>9, <1>12
<1> QED BY <1>4, <1>5, <1>7, <1>8, <1>11, <1>13 DEF BlocksRight

\* Ghosts.
KillsZoneOnly(g, h, f, z, p) == KillsZone(g, h, f, z, p) /\ h.one = g.one /\ h.two = g.two
KillsEntryOnly(g, h, n, p) == KillsEntry(g, h, n, p) /\ h.one = g.one /\ h.two = g.two

LEMMA GhostKillsZone ==
  ASSUME NEW g, NEW f \in File, NEW z, NEW p PROVE \E h : KillsZoneOnly(g, h, f, z, p)
<1>1. PICK o : o = [x \in File |-> IF x = f THEN g.owed[f] \ {z} ELSE g.owed[x]]
  OBVIOUS
<1>2. PICK h : h = [here |-> g.here \ {p}, up |-> g.up, own |-> g.own, lvl |-> g.lvl,
                    owed |-> o, done |-> g.done, one |-> g.one, two |-> g.two]
  OBVIOUS
<1>3. h.owed[f] = g.owed[f] \ {z} /\ \A x \in File \ {f} : h.owed[x] = g.owed[x]
  BY <1>1, <1>2
<1>4. h.here = g.here \ {p} /\ h.up = g.up /\ h.own = g.own /\ h.lvl = g.lvl /\ h.done = g.done
      /\ h.one = g.one /\ h.two = g.two
  BY <1>2
<1> QED BY <1>3, <1>4 DEF KillsZone, KillsZoneOnly

LEMMA GhostKillsEntry ==
  ASSUME NEW g, NEW n \in Block, NEW p PROVE \E h : KillsEntryOnly(g, h, n, p)
<1>1. PICK o : o = [b \in Block |-> IF b = n THEN g.done[n] + 1 ELSE g.done[b]]
  OBVIOUS
<1>2. PICK h : h = [here |-> g.here \ {p}, up |-> g.up, own |-> g.own, lvl |-> g.lvl,
                    owed |-> g.owed, done |-> o, one |-> g.one, two |-> g.two]
  OBVIOUS
<1>3. h.done[n] = g.done[n] + 1 /\ \A b \in Block \ {n} : h.done[b] = g.done[b]
  BY <1>1, <1>2
<1>4. h.here = g.here \ {p} /\ h.up = g.up /\ h.own = g.own /\ h.lvl = g.lvl /\ h.owed = g.owed
      /\ h.one = g.one /\ h.two = g.two
  BY <1>2
<1> QED BY <1>3, <1>4 DEF KillsEntry, KillsEntryOnly

TwoIs(g, h, t, v) ==
    /\ SameHeap(g, h) /\ h.two[t] = v
    /\ \A u \in Task \ {t} : h.two[u] = g.two[u]
    /\ \A u \in Task : h.one[u] = g.one[u]

LEMMA GhostTwo ==
  ASSUME NEW g, NEW t \in Task, NEW v PROVE \E h : TwoIs(g, h, t, v)
<1>1. PICK o : o = [u \in Task |-> IF u = t THEN v ELSE g.two[u]]
  OBVIOUS
<1>2. PICK h : h = [here |-> g.here, up |-> g.up, own |-> g.own, lvl |-> g.lvl,
                    owed |-> g.owed, done |-> g.done, one |-> g.one, two |-> o]
  OBVIOUS
<1>3. h.two[t] = v /\ \A u \in Task \ {t} : h.two[u] = g.two[u]
  BY <1>1, <1>2
<1>4. SameHeap(g, h) /\ h.one = g.one
  BY <1>2 DEF SameHeap
<1> QED BY <1>3, <1>4 DEF TwoIs

\* What each change leaves alone.
LEMMA ChangesOnlyIn ==
  ASSUME NEW g, NEW h, NEW f \in File, NEW p, p # NULL => In(g, p, f),
         NULL \notin g.here, g.here \subseteq Block
  PROVE  /\ \A z : KillsZone(g, h, f, z, p) => OnlyIn(g, h, f)
         /\ \A n : KillsEntry(g, h, n, p) /\ In(g, n, f) => OnlyIn(g, h, f)
         /\ SameHeap(g, h) => OnlyIn(g, h, f)
<1>1. ASSUME NEW z, KillsZone(g, h, f, z, p) PROVE OnlyIn(g, h, f)
  BY <1>1 DEF KillsZone, OnlyIn, In
<1>2. ASSUME NEW n, KillsEntry(g, h, n, p), In(g, n, f) PROVE OnlyIn(g, h, f)
  BY <1>2 DEF KillsEntry, OnlyIn, In
<1>3. SameHeap(g, h) => OnlyIn(g, h, f)
  BY DEF SameHeap, OnlyIn
<1> QED BY <1>1, <1>2, <1>3

\* No one has the buffer of a block that is freed.
LEMMA NoOtherUser ==
  ASSUME NEW g, BlocksRight(g), NEW t \in Task, pc[t] = "truncate", NEW j, In(g, j, file[t]),
         g.one[t] # j, g.two[t] # j
  PROVE  j \in Block /\ b_count[j] = 0
<1>0. IsFiniteSet(Task) /\ j \in Block /\ j # NULL
  <2>1. j \in Block
    BY DEF In, Forest, BlocksRight, BlockTypes
  <2> QED BY <2>1, BlockConstants
<1>1. ASSUME NEW u \in Task PROVE g.one[u] # j /\ g.two[u] # j
  <2>1. BlockTypes /\ BlockTask(g, u) /\ BlockTask(g, t)
    BY DEF BlocksRight
  <2>2. file[t] \in File /\ file[t] # NULL
    BY <2>1, BlockConstants DEF BlockTask
  <2>3. u # t => file[u] # file[t]
    BY <2>2 DEF BlocksRight, Alone
  <2>4. u # t => ~In(g, j, file[u])
    BY <2>3 DEF In
  <2> QED BY <1>0, <2>1, <2>4, UsersIn
<1>2. PICK o, w : o = g.one /\ w = g.two
  OBVIOUS
<1>3. Number(o, Task, j) = 0 /\ Number(w, Task, j) = 0
  <2>1. \A u \in Task : o[u] # j /\ w[u] # j
    BY <1>1, <1>2
  <2> QED BY <1>0, <2>1, NumberIsNat
<1>4. b_count[j] = Number(o, Task, j) + Number(w, Task, j)
  BY <1>0, <1>2 DEF BlocksRight, BuffersCounted
<1> QED BY <1>0, <1>3, <1>4

LEMMA AtFirst ==
  ASSUME NEW g, BlocksRight(g), NEW t \in Task, NEW k, B!Next1(t, k)
  PROVE  /\ pc[t] = "truncate" /\ file[t] \in File /\ panic = NULL
         /\ todo[t] \in Seq(B!Item) /\ todo[t] # <<>> /\ Tail(todo[t]) \in Seq(B!Item)
         /\ Head(todo[t]).kind = k
         /\ Forest(g) /\ BuffersCounted(g) /\ NULL \notin g.here /\ g.here \subseteq Block
         /\ zmap \subseteq Block /\ i_zone \in [File -> [B!Zone -> Block \cup {NULL}]]
         /\ entry \in [Block -> [B!Index -> Block \cup {NULL}]]
         /\ Positions(g, todo[t], file[t], g.one[t], g.two[t])
<1>1. /\ pc[t] = "truncate" /\ todo[t] # <<>> /\ Head(todo[t]).kind = k /\ panic = NULL
  BY DEF B!Next1, B!At
<1>2. /\ BlockTypes /\ Forest(g) /\ BlockTask(g, t) /\ BuffersCounted(g)
  BY DEF BlocksRight
<1>3. /\ todo[t] \in Seq(B!Item) /\ zmap \subseteq Block
      /\ i_zone \in [File -> [B!Zone -> Block \cup {NULL}]]
      /\ entry \in [Block -> [B!Index -> Block \cup {NULL}]]
  BY <1>2 DEF BlockTypes
<1>4. file[t] \in File /\ Truncates(g, todo[t], file[t], g.one[t], g.two[t])
  BY <1>1, <1>2 DEF BlockTask
<1>5. g.here \subseteq Block
  BY <1>2, <1>3 DEF Forest
<1>6. NULL \notin g.here
  BY <1>5, BlockConstants
<1>7. PICK s, f, one, two : s = todo[t] /\ f = file[t] /\ one = g.one[t] /\ two = g.two[t]
  OBVIOUS
<1>8. Positions(g, s, f, one, two)
  BY <1>1, <1>2, <1>3, <1>4, <1>7, TruncatesAt
<1>9. Tail(todo[t]) \in Seq(B!Item)
  BY <1>1, <1>3
<1> QED BY <1>1, <1>2, <1>3, <1>4, <1>5, <1>6, <1>7, <1>8, <1>9

\* Where a block hangs, it is found; and so far it is from the data.
LEMMA UpIs ==
  ASSUME NEW g, Forest(g), NULL \notin g.here, NEW v \in g.here
  PROVE  /\ \A f, z : g.up[v] = <<"i", f, z>> =>
               /\ g.own[v] = f /\ f \in File /\ z \in g.owed[f] /\ i_zone[f][z] = v
               /\ g.lvl[v] = Level(z)
         /\ \A b, k : g.up[v] = <<"e", b, k>> =>
               /\ b \in g.here /\ k \in B!Index /\ k >= g.done[b] /\ entry[b][k] = v
               /\ g.own[v] = g.own[b] /\ g.lvl[v] = g.lvl[b] - 1
<1>0. v # NULL /\ g.own[v] \in File
  BY DEF Forest
<1>1. CASE \E z \in g.owed[g.own[v]] :
               g.up[v] = <<"i", g.own[v], z>> /\ i_zone[g.own[v]][z] = v
  <2>1. PICK z \in g.owed[g.own[v]] : g.up[v] = <<"i", g.own[v], z>> /\ i_zone[g.own[v]][z] = v
    BY <1>1
  <2>2. g.lvl[v] = Level(z)
    BY <1>0, <2>1 DEF Forest, Leads
  <2>3. ASSUME NEW f, NEW y, g.up[v] = <<"i", f, y>>
        PROVE  /\ g.own[v] = f /\ f \in File /\ y \in g.owed[f] /\ i_zone[f][y] = v
               /\ g.lvl[v] = Level(y)
    <3>1. f = g.own[v] /\ y = z
      BY <2>1, <2>3
    <3> QED BY <1>0, <2>1, <2>2, <3>1
  <2>4. ASSUME NEW b, NEW k, g.up[v] = <<"e", b, k>> PROVE FALSE
    BY <2>1, <2>4
  <2> QED BY <2>3, <2>4
<1>2. CASE \E b \in g.here : \E k \in B!Index :
               g.up[v] = <<"e", b, k>> /\ k >= g.done[b] /\ entry[b][k] = v
  <2>1. PICK b \in g.here, k \in B!Index :
               g.up[v] = <<"e", b, k>> /\ k >= g.done[b] /\ entry[b][k] = v
    BY <1>2
  <2>2. g.own[v] = g.own[b] /\ g.lvl[v] = g.lvl[b] - 1
    BY <1>0, <2>1 DEF Forest, Leads
  <2>3. ASSUME NEW c, NEW j, g.up[v] = <<"e", c, j>>
        PROVE  /\ c \in g.here /\ j \in B!Index /\ j >= g.done[c] /\ entry[c][j] = v
               /\ g.own[v] = g.own[c] /\ g.lvl[v] = g.lvl[c] - 1
    <3>1. c = b /\ j = k
      BY <2>1, <2>3
    <3> QED BY <2>1, <2>2, <3>1
  <2>4. ASSUME NEW f, NEW z, g.up[v] = <<"i", f, z>> PROVE FALSE
    BY <2>1, <2>4
  <2> QED BY <2>3, <2>4
<1> QED BY <1>1, <1>2 DEF Forest

LEMMA RootLevels ==
  /\ Level(DIRECT) = 1 /\ Level(DIRECT + 1) = 2 /\ \A z \in 0..(DIRECT - 1) : Level(z) = 0
BY BlockConstants DEF Level

LEMMA IndLevels ==
  ASSUME NEW g, Forest(g), NULL \notin g.here, NEW f, NEW two, NEW v, NEW r, NEW X,
         InInd(g, f, two, v, r, X), v # NULL
  PROVE  /\ In(g, v, f) /\ g.lvl[v] = 1 /\ v # two /\ X = IF two = NULL THEN {v} ELSE {two, v}
         /\ two # NULL => In(g, two, f) /\ g.lvl[two] = 2
<1>1. CASE ByTruncate(g, f, two, v, r, X)
  <2>1. In(g, v, f) /\ v \in g.here /\ g.up[v] = <<"i", f, DIRECT>> /\ two = NULL /\ X = {v}
    BY <1>1 DEF ByTruncate, In
  <2>2. g.lvl[v] = Level(DIRECT)
    BY <2>1, UpIs
  <2> QED BY <2>1, <2>2, RootLevels
<1>2. CASE \E b, k : ByDind(g, f, two, v, r, X, b, k)
  <2>1. PICK b, k : ByDind(g, f, two, v, r, X, b, k)
    BY <1>2
  <2>2. /\ In(g, v, f) /\ v \in g.here /\ g.up[v] = <<"e", b, k>> /\ two = b /\ X = {b, v}
        /\ In(g, b, f) /\ b \in g.here /\ g.up[b] = <<"i", f, DIRECT + 1>>
    BY <2>1 DEF ByDind, InDind, In
  <2>3. g.lvl[b] = Level(DIRECT + 1)
    BY <2>2, UpIs
  <2>4. g.lvl[v] = g.lvl[b] - 1
    BY <2>2, UpIs
  <2> QED BY <2>2, <2>3, <2>4, RootLevels
<1> QED BY <1>1, <1>2 DEF InInd

\* In free_ind(), other blocks stay as they were.
LEMMA IndStays ==
  ASSUME NEW g, NEW h, NEW f, NEW two, NEW v, NEW r, NEW X, InInd(g, f, two, v, r, X), v # NULL,
         v # two, NEW p, p # v, two # NULL => p # two, KillsEntry(g, h, v, p),
         NULL \notin g.here, g.here \subseteq Block
  PROVE  InInd(h, f, two, v, r, X)
<1>0. /\ h.here = g.here \ {p} /\ h.up = g.up /\ h.own = g.own /\ h.owed = g.owed
      /\ \A b \in g.here \ {v} : h.done[b] = g.done[b]
  BY DEF KillsEntry
<1>1. v \in X
  BY DEF InInd, ByTruncate, ByDind
<1>2. Whole(h, f, X)
  BY <1>0, <1>1 DEF Whole, InInd
<1>3. ByTruncate(g, f, two, v, r, X) => ByTruncate(h, f, two, v, r, X)
  BY <1>0 DEF ByTruncate, In
<1>4. ASSUME NEW b, NEW k, ByDind(g, f, two, v, r, X, b, k) PROVE ByDind(h, f, two, v, r, X, b, k)
  <2>1. two = b /\ b \in g.here
    BY <1>4 DEF ByDind, InDind, In
  <2>2. b # v /\ b # p /\ b # NULL
    BY <2>1
  <2> QED BY <1>0, <1>4, <2>1, <2>2 DEF ByDind, InDind, In
<1> QED BY <1>2, <1>3, <1>4 DEF InInd

LEMMA IndSame ==
  ASSUME NEW g, NEW h, NEW f, NEW two, NEW v, NEW r, NEW X, InInd(g, f, two, v, r, X),
         SameHeap(g, h)
  PROVE  InInd(h, f, two, v, r, X)
<1>1. Whole(h, f, X)
  BY DEF Whole, InInd, SameHeap
<1>2. ByTruncate(g, f, two, v, r, X) => ByTruncate(h, f, two, v, r, X)
  BY DEF ByTruncate, In, SameHeap
<1>3. ASSUME NEW b, NEW k, ByDind(g, f, two, v, r, X, b, k) PROVE ByDind(h, f, two, v, r, X, b, k)
  BY <1>3 DEF ByDind, InDind, In, SameHeap
<1> QED BY <1>1, <1>2, <1>3 DEF InInd

LEMMA IndTruncates ==
  ASSUME NEW h, NEW s, NEW f, NEW one, NEW two, NEW v, NEW r, NEW X,
         InInd(h, f, two, v, r, X), AtInd(h, s, f, one, v, r)
  PROVE  Truncates(h, s, f, one, two)
<1>1. CASE ByTruncate(h, f, two, v, r, X)
  <2>1. AtRoot1(h, s, f, one)
    BY <1>1 DEF InInd, ByTruncate, AtRoot1
  <2> QED BY <1>1, <2>1 DEF ByTruncate, Truncates
<1>2. CASE \E b, k : ByDind(h, f, two, v, r, X, b, k)
  <2>1. PICK b, k : ByDind(h, f, two, v, r, X, b, k)
    BY <1>2
  <2>2. /\ r = <<B!Do("scan", b, k + 1, 2)>> \o Clears /\ Whole(h, f, {b, v})
        /\ k < PER /\ two = b /\ In(h, v, f) /\ v \in h.here /\ h.up[v] = <<"e", b, k>>
    BY <2>1 DEF ByDind, InInd, In
  <2>3. AtDind(h, s, f, one, two, b, k)
    BY <2>2 DEF AtDind
  <2>4. /\ In(h, b, f) /\ b \in h.here /\ h.up[b] = <<"i", f, DIRECT + 1>> /\ h.done[b] = k
        /\ k \in 0..PER /\ h.owed[f] = {DIRECT + 1} /\ Cleared(f, DIRECT)
    BY <2>1 DEF ByDind, InDind, In
  <2>5. AtRoot2(h, s, f, one, two)
    BY <2>3, <2>4 DEF AtRoot2
  <2> QED BY <2>4, <2>5 DEF Truncates
<1> QED BY <1>1, <1>2 DEF InInd

LEMMA DindTruncates ==
  ASSUME NEW h, NEW s, NEW f, NEW one, NEW two, NEW b, NEW k,
         InDind(h, f, b, k), AtDind(h, s, f, one, two, b, k)
  PROVE  Truncates(h, s, f, one, two)
<1>1. AtRoot2(h, s, f, one, two) /\ Cleared(f, DIRECT)
  BY DEF AtRoot2, InDind, In
<1> QED BY <1>1 DEF Truncates

LEMMA Afterwards ==
  ASSUME NEW h, NEW s, NEW f, NEW one, NEW two, Truncates(h, s, f, one, two), i_zone' = i_zone
  PROVE  Truncates(h, s, f, one, two)'
<1>1. SameFile(h, h, f) /\ i_zone'[f] = i_zone[f]
  BY DEF SameFile
<1> QED BY <1>1, TruncatesStays

\* The kinds of steps.
Goes(t, s) ==
    /\ TruncateStays(t) /\ s \in Seq(B!Item) /\ todo' = [todo EXCEPT ![t] = s]

LEMMA SameDone ==
  ASSUME NEW g, BlocksRight(g), NEW t \in Task, NEW f \in File, f = file[t], NEW s, Goes(t, s),
         UNCHANGED <<zmap, i_zone, b_count>>,
         Truncates(g, s, f, g.one[t], g.two[t])
  PROVE  BlockInv'
<1>1. /\ Forest(g) /\ BuffersCounted(g) /\ i_zone \in [File -> [B!Zone -> Block \cup {NULL}]]
  BY DEF BlocksRight, BlockTypes
<1>2. PICK one, two : one = g.one[t] /\ two = g.two[t]
  OBVIOUS
<1>3. Truncates(g, s, f, one, two)'
  BY <1>2, Afterwards
<1>4. OnlyIn(g, g, f) /\ BuffersOf(g, g, t) /\ SameHeap(g, g)
  BY DEF OnlyIn, BuffersOf, SameHeap
<1>5. Forest(g)' /\ BuffersCounted(g)'
  BY <1>1, <1>4, ForestStays DEF Goes, TruncateStays, BuffersCounted
<1>6. BlocksRight(g)'
  <2>1. Truncates(g, s, f, g.one[t], g.two[t])'
    BY <1>2, <1>3
  <2>2. /\ zmap' \subseteq zmap /\ zmap \ zmap' = g.here \ g.here
        /\ i_zone' \in [File -> [B!Zone -> Block \cup {NULL}]]
        /\ \A x \in File \ {f} : i_zone'[x] = i_zone[x]
    BY <1>1
  <2> QED BY <1>4, <1>5, <2>1, <2>2, TruncateGoesOn DEF Goes
<1> QED BY <1>6 DEF BlockInv

LEMMA BufferDone ==
  ASSUME NEW g, BlocksRight(g), NEW t \in Task, NEW f \in File, f = file[t], NEW s, Goes(t, s),
         UNCHANGED <<zmap, i_zone>>, NEW h, SameHeap(g, h), NEW S, NEW R,
         OneMoves(g, h, t, S, R) \/ TwoMoves(g, h, t, S, R), b_count' = B!Counts(S, R),
         Truncates(h, s, f, h.one[t], h.two[t])
  PROVE  BlockInv'
<1>1. /\ Forest(g) /\ BuffersCounted(g) /\ i_zone \in [File -> [B!Zone -> Block \cup {NULL}]]
  BY DEF BlocksRight, BlockTypes
<1>2. PICK one, two : one = h.one[t] /\ two = h.two[t]
  OBVIOUS
<1>3. Truncates(h, s, f, one, two)'
  BY <1>2, Afterwards
<1>4. OnlyIn(g, h, f) /\ BuffersOf(g, h, t)
  BY DEF OnlyIn, BuffersOf, SameHeap, OneMoves, TwoMoves
<1>5. Forest(h)'
  BY <1>1, ForestStays DEF Goes, TruncateStays
<1>6. BuffersCounted(h)'
  BY <1>1, BuffersMove
<1>7. BlocksRight(h)'
  <2>1. Truncates(h, s, f, h.one[t], h.two[t])'
    BY <1>2, <1>3
  <2>2. /\ zmap' \subseteq zmap /\ zmap \ zmap' = g.here \ h.here
        /\ i_zone' \in [File -> [B!Zone -> Block \cup {NULL}]]
        /\ \A x \in File \ {f} : i_zone'[x] = i_zone[x]
    BY <1>1 DEF SameHeap
  <2> QED BY <1>4, <1>5, <1>6, <2>1, <2>2, TruncateGoesOn DEF Goes
<1> QED BY <1>7 DEF BlockInv

LEMMA ZoneDone ==
  ASSUME NEW g, BlocksRight(g), NEW t \in Task, NEW f \in File, f = file[t], NEW s, Goes(t, s),
         NEW z \in g.owed[f], NEW p, p = i_zone[f][z], Bare(g, p), p # NULL => In(g, p, f),
         zmap' = zmap \ {p}, UNCHANGED <<i_zone, b_count>>,
         NEW h, KillsZoneOnly(g, h, f, z, p),
         Truncates(h, s, f, g.one[t], g.two[t])
  PROVE  BlockInv'
<1>1. /\ Forest(g) /\ BuffersCounted(g) /\ i_zone \in [File -> [B!Zone -> Block \cup {NULL}]]
      /\ zmap \subseteq Block /\ g.here \subseteq zmap /\ g.here \subseteq Block
  BY DEF BlocksRight, BlockTypes, Forest
<1>0. NULL \notin g.here /\ NULL \notin zmap
  BY <1>1, BlockConstants
<1>2. PICK one, two : one = g.one[t] /\ two = g.two[t]
  OBVIOUS
<1>3. Truncates(h, s, f, one, two)'
  BY <1>2, Afterwards
<1>4. KillsZone(g, h, f, z, p) /\ h.one = g.one /\ h.two = g.two /\ h.here = g.here \ {p}
  BY DEF KillsZoneOnly, KillsZone
<1>5. OnlyIn(g, h, f) /\ BuffersOf(g, h, t)
  <2>1. OnlyIn(g, h, f)
    BY <1>0, <1>1, <1>4, ChangesOnlyIn
  <2> QED BY <1>4, <2>1 DEF BuffersOf
<1>6. Forest(h)'
  <2>1. h.here \subseteq zmap' /\ entry' = entry
    BY <1>1, <1>4 DEF Goes, TruncateStays
  <2> QED BY <1>1, <1>4, <2>1, KillZone
<1>7. BuffersCounted(h)'
  BY <1>1, <1>4, BuffersStayCounted
<1>8. zmap' \subseteq zmap /\ zmap \ zmap' = g.here \ h.here
  <2>1. p # NULL => p \in g.here
    BY DEF In
  <2>2. p = NULL \/ p # NULL
    OBVIOUS
  <2> QED BY <1>0, <1>1, <1>4, <2>1, <2>2
<1>9. BlocksRight(h)'
  <2>1. Truncates(h, s, f, h.one[t], h.two[t])'
    BY <1>2, <1>3, <1>4
  <2>2. /\ i_zone' \in [File -> [B!Zone -> Block \cup {NULL}]]
        /\ \A x \in File \ {f} : i_zone'[x] = i_zone[x]
    BY <1>1
  <2> QED BY <1>5, <1>6, <1>7, <1>8, <2>1, <2>2, TruncateGoesOn DEF Goes
<1> QED BY <1>9 DEF BlockInv

LEMMA EntryDone ==
  ASSUME NEW g, BlocksRight(g), NEW t \in Task, NEW f \in File, f = file[t], NEW s, Goes(t, s),
         NEW n, In(g, n, f), g.done[n] \in B!Index, NEW p, p = entry[n][g.done[n]], Bare(g, p),
         p # NULL => In(g, p, f),
         zmap' = zmap \ {p}, UNCHANGED <<i_zone, b_count>>,
         NEW h, KillsEntryOnly(g, h, n, p),
         Truncates(h, s, f, g.one[t], g.two[t])
  PROVE  BlockInv'
<1>1. /\ Forest(g) /\ BuffersCounted(g) /\ i_zone \in [File -> [B!Zone -> Block \cup {NULL}]]
      /\ zmap \subseteq Block /\ g.here \subseteq zmap /\ g.here \subseteq Block
  BY DEF BlocksRight, BlockTypes, Forest
<1>0. NULL \notin g.here /\ NULL \notin zmap
  BY <1>1, BlockConstants
<1>2. PICK one, two : one = g.one[t] /\ two = g.two[t]
  OBVIOUS
<1>3. Truncates(h, s, f, one, two)'
  BY <1>2, Afterwards
<1>4. KillsEntry(g, h, n, p) /\ h.one = g.one /\ h.two = g.two /\ h.here = g.here \ {p}
  BY DEF KillsEntryOnly, KillsEntry
<1>5. OnlyIn(g, h, f) /\ BuffersOf(g, h, t)
  <2>1. OnlyIn(g, h, f)
    BY <1>0, <1>1, <1>4, ChangesOnlyIn
  <2> QED BY <1>4, <2>1 DEF BuffersOf
<1>6. Forest(h)'
  <2>1. h.here \subseteq zmap' /\ entry' = entry /\ n \in g.here
    BY <1>1, <1>4 DEF Goes, TruncateStays, In
  <2> QED BY <1>1, <1>4, <2>1, KillEntry
<1>7. BuffersCounted(h)'
  BY <1>1, <1>4, BuffersStayCounted
<1>8. zmap' \subseteq zmap /\ zmap \ zmap' = g.here \ h.here
  <2>1. p # NULL => p \in g.here
    BY DEF In
  <2>2. p = NULL \/ p # NULL
    OBVIOUS
  <2> QED BY <1>0, <1>1, <1>4, <2>1, <2>2
<1>9. BlocksRight(h)'
  <2>1. Truncates(h, s, f, h.one[t], h.two[t])'
    BY <1>2, <1>3, <1>4
  <2>2. /\ i_zone' \in [File -> [B!Zone -> Block \cup {NULL}]]
        /\ \A x \in File \ {f} : i_zone'[x] = i_zone[x]
    BY <1>1
  <2> QED BY <1>5, <1>6, <1>7, <1>8, <2>1, <2>2, TruncateGoesOn DEF Goes
<1> QED BY <1>9 DEF BlockInv

LEMMA StaysTruncate ==
  ASSUME NEW t \in Task, pc[t] = "truncate",
         UNCHANGED <<on, entry, data, pc, B!walk, blk, panic>>
  PROVE  TruncateStays(t)
BY DEF TruncateStays, B!walk

LEMMA NoneIsBare ==
  ASSUME NEW g, NULL \notin g.here PROVE Bare(g, NULL)
BY DEF Bare

LEMMA NoneOfBlocks ==
  ASSUME NEW S, S \subseteq Block PROVE S \ {NULL} = S
BY BlockConstants

LEMMA ClearedNext ==
  ASSUME NEW f, NEW z \in 0..(DIRECT - 1), Cleared(f, z), i_zone[f][z] = NULL
  PROVE  Cleared(f, z + 1) /\ z + 1 \in 0..DIRECT
<1>1. DIRECT \in Nat
  BY BlockConstants
<1>2. \A y \in 0..(z + 1 - 1) : y \in 0..(z - 1) \/ y = z
  BY <1>1
<1> QED BY <1>1, <1>2 DEF Cleared

LEMMA TruncateZoneKeeps ==
  ASSUME BlockInv, NEW t \in Task, B!TruncateZone(t) PROVE BlockInv'
<1>1. PICK g : BlocksRight(g)
  BY DEF BlockInv
<1>2. PICK s, f, one, two : s = todo[t] /\ f = file[t] /\ one = g.one[t] /\ two = g.two[t]
  OBVIOUS
<1>3. B!Next1(t, "zone")
  BY DEF B!TruncateZone
<1>4. /\ pc[t] = "truncate" /\ f \in File /\ s \in Seq(B!Item) /\ Tail(s) \in Seq(B!Item)
      /\ Head(s).kind = "zone" /\ Forest(g) /\ NULL \notin g.here /\ g.here \subseteq Block
      /\ zmap \subseteq Block /\ i_zone \in [File -> [B!Zone -> Block \cup {NULL}]]
      /\ Positions(g, s, f, one, two)
  BY <1>1, <1>2, <1>3, AtFirst
<1>5. one = NULL /\ two = NULL /\ \E z : AtZone(g, s, f, z)
  BY <1>4 DEF Positions, Idle
<1>6. PICK z : AtZone(g, s, f, z)
  BY <1>5
<1>7. /\ z \in 0..(DIRECT - 1) /\ Head(s).k = z /\ Tail(s) = Rest(z + 1)
      /\ Cleared(f, z) /\ g.owed[f] = z..(DIRECT + 1) /\ Whole(g, f, {})
  BY <1>6, ItemFields DEF AtZone
<1>8. DIRECT \in Nat /\ z \in g.owed[f] /\ z \in B!Zone /\ B!Zone = 0..(DIRECT + 1)
  BY <1>7, BlockConstants
<1>9. PICK v : v = i_zone[f][z]
  OBVIOUS
<1>10. /\ B!Becomes(t, IF v = NULL THEN <<>> ELSE <<B!Do("free", v, 0, 0), B!Do("clear", NULL, z, 0)>>)
       /\ UNCHANGED <<on, zmap, i_zone, entry, data, b_count, pc, B!walk, blk, panic>>
  BY <1>2, <1>7, <1>9 DEF B!TruncateZone
<1>11. TruncateStays(t)
  BY <1>4, <1>10, StaysTruncate
<1>12. CASE v = NULL
  <2>1. PICK r : r = Rest(z + 1)
    OBVIOUS
  <2>2. todo' = [todo EXCEPT ![t] = <<>> \o Tail(todo[t])]
    BY <1>10, <1>12 DEF B!Becomes
  <2>3. <<>> \o r = r /\ r \in Seq(B!Item)
    <3>1. r \in Seq(B!Item)
      BY <1>4, <1>7, <2>1
    <3> QED BY <3>1, Items, ConcatEmptySeq
  <2>4. Goes(t, r)
    BY <1>2, <1>7, <1>11, <2>1, <2>2, <2>3 DEF Goes
  <2>5. PICK h : KillsZoneOnly(g, h, f, z, NULL)
    BY <1>4, GhostKillsZone
  <2>6. /\ h.owed[f] = g.owed[f] \ {z} /\ h.here = g.here \ {NULL} /\ h.own = g.own /\ h.done = g.done
    BY <2>5 DEF KillsZoneOnly, KillsZone
  <2>7. h.owed[f] = (z + 1)..(DIRECT + 1)
    BY <1>7, <1>8, <2>6
  <2>8. Whole(h, f, {})
    BY <1>7, <2>6 DEF Whole
  <2>9. Cleared(f, z + 1) /\ z + 1 \in 0..DIRECT
    BY <1>7, <1>9, <1>12, ClearedNext
  <2>10. AtZones(h, r, f)
    BY <2>1, <2>7, <2>8, <2>9 DEF AtZones
  <2>11. Truncates(h, r, f, one, two)
    BY <1>5, <2>10 DEF Truncates
  <2>12. Bare(g, NULL) /\ zmap' = zmap \ {NULL}
    BY <1>4, <1>10, NoneIsBare, NoneOfBlocks
  <2>13. PICK p : p = v
    OBVIOUS
  <2>14. p = i_zone[f][z] /\ p = NULL
    BY <1>9, <1>12, <2>13
  <2> QED BY <1>1, <1>2, <1>4, <1>8, <1>10, <2>4, <2>5, <2>11, <2>12, <2>14, ZoneDone
<1>13. CASE v # NULL
  <2>1. PICK a, c, r : a = B!Do("free", v, 0, 0) /\ c = B!Do("clear", NULL, z, 0) /\ r = Rest(z + 1)
    OBVIOUS
  <2>2. v \in Block
    BY <1>4, <1>8, <1>9, <1>13
  <2>3. a \in B!Item /\ c \in B!Item /\ r \in Seq(B!Item)
    <3>1. z \in Nat /\ 0 \in Nat /\ 0 \in 0..2
      BY <1>7, <1>8
    <3> QED BY <1>4, <1>7, <2>1, <2>2, <3>1, ItemFields
  <2>4. PICK q : q = <<a, c>> \o r
    OBVIOUS
  <2>5. q \in Seq(B!Item)
    BY <2>3, <2>4, Items
  <2>6. todo' = [todo EXCEPT ![t] = <<a, c>> \o Tail(todo[t])]
    BY <1>10, <1>13, <2>1 DEF B!Becomes
  <2>7. Goes(t, q)
    BY <1>2, <1>7, <1>11, <2>1, <2>4, <2>5, <2>6 DEF Goes
  <2>8. Leads(g, v, <<"i", f, z>>, f, Level(z))
    BY <1>4, <1>8, <1>9, <1>13 DEF Forest
  <2>9. AtZones(g, q, f)
    <3>1. v \in g.here /\ In(g, v, f) /\ g.up[v] = <<"i", f, z>>
      BY <2>8 DEF Leads, In
    <3> QED BY <1>7, <2>1, <2>4, <3>1 DEF AtZones
  <2>10. Truncates(g, q, f, g.one[t], g.two[t])
    BY <1>2, <1>5, <2>9 DEF Truncates
  <2> QED BY <1>1, <1>2, <1>4, <1>10, <2>7, <2>10, SameDone
<1> QED BY <1>12, <1>13

LEMMA TruncateRootKeeps ==
  ASSUME BlockInv, NEW t \in Task, B!TruncateRoot(t) PROVE BlockInv'
<1>1. PICK g : BlocksRight(g)
  BY DEF BlockInv
<1>2. PICK s, f, one, two : s = todo[t] /\ f = file[t] /\ one = g.one[t] /\ two = g.two[t]
  OBVIOUS
<1>3. B!Next1(t, "root")
  BY DEF B!TruncateRoot
<1>4. /\ pc[t] = "truncate" /\ f \in File /\ s \in Seq(B!Item) /\ Tail(s) \in Seq(B!Item)
      /\ Head(s).kind = "root" /\ Forest(g) /\ NULL \notin g.here /\ g.here \subseteq Block
      /\ i_zone \in [File -> [B!Zone -> Block \cup {NULL}]]
      /\ Positions(g, s, f, one, two)
  BY <1>1, <1>2, <1>3, AtFirst
<1>5. one = NULL /\ two = NULL /\ (AtRoots(g, s, f) \/ AtSecondRoot(g, s, f))
  BY <1>4 DEF Positions, Idle
<1>6. DIRECT \in B!Zone /\ DIRECT + 1 \in B!Zone /\ DIRECT \in DIRECT..(DIRECT + 1)
  BY BlockConstants
<1>7. PICK y, n : y = Head(s).k /\ n = Head(s).depth
  OBVIOUS
<1>8. PICK v, a : v = i_zone[f][y] /\ a = B!Do("tree", v, 0, n)
  OBVIOUS
<1>9. /\ B!Becomes(t, <<a>>)
      /\ UNCHANGED <<on, zmap, i_zone, entry, data, b_count, pc, B!walk, blk, panic>>
  BY <1>2, <1>7, <1>8 DEF B!TruncateRoot
<1>10. TruncateStays(t)
  BY <1>4, <1>9, StaysTruncate
<1>11. y \in {DIRECT, DIRECT + 1} /\ n \in 0..2
  BY <1>5, <1>7, ItemFields DEF AtRoots, AtSecondRoot
<1>12. v \in Block \cup {NULL} /\ a \in B!Item
  <2>1. v \in Block \cup {NULL}
    BY <1>4, <1>6, <1>8, <1>11
  <2>2. 0 \in Nat
    OBVIOUS
  <2> QED BY <1>8, <1>11, <2>1, <2>2, ItemFields
<1>13. PICK r, q : r = Tail(s) /\ q = <<a>> \o r
  OBVIOUS
<1>14. q \in Seq(B!Item) /\ r \in Seq(B!Item)
  BY <1>4, <1>12, <1>13, Items
<1>15. Goes(t, q)
  BY <1>2, <1>9, <1>10, <1>13, <1>14 DEF Goes, B!Becomes
<1>16. Truncates(g, q, f, one, two)
  <2>1. CASE AtRoots(g, s, f)
    <3>1. /\ y = DIRECT /\ n = 1 /\ r = Root2 /\ Cleared(f, DIRECT) /\ Whole(g, f, {})
          /\ g.owed[f] = DIRECT..(DIRECT + 1)
      BY <1>7, <1>13, <2>1, ItemFields DEF AtRoots
    <3>2. v # NULL => Leads(g, v, <<"i", f, DIRECT>>, f, Level(DIRECT))
      BY <1>4, <1>6, <1>8, <3>1 DEF Forest
    <3>3. v # NULL => In(g, v, f) /\ g.up[v] = <<"i", f, DIRECT>> /\ g.done[v] = 0
      BY <3>1, <3>2 DEF Leads, In, Whole
    <3>4. PICK X : X = {v}
      OBVIOUS
    <3>5. Whole(g, f, X)
      BY <3>1 DEF Whole
    <3>6. ByTruncate(g, f, two, v, r, X)
      BY <1>5, <1>8, <3>1, <3>3, <3>4 DEF ByTruncate
    <3>7. InInd(g, f, two, v, r, X)
      BY <1>12, <1>14, <3>5, <3>6 DEF InInd
    <3>8. AtInd(g, q, f, one, v, r)
      BY <1>5, <1>8, <1>13, <3>1, <3>3 DEF AtInd
    <3> QED BY <3>7, <3>8, IndTruncates
  <2>2. CASE AtSecondRoot(g, s, f)
    <3>1. /\ y = DIRECT + 1 /\ n = 2 /\ r = Clears /\ Cleared(f, DIRECT) /\ Whole(g, f, {})
          /\ g.owed[f] = {DIRECT + 1}
      BY <1>7, <1>13, <2>2, ItemFields DEF AtSecondRoot
    <3>2. AtRoot2(g, q, f, one, two)
      BY <1>5, <1>8, <1>13, <3>1 DEF AtRoot2
    <3> QED BY <3>1, <3>2 DEF Truncates
  <2> QED BY <1>5, <2>1, <2>2
<1>17. Truncates(g, q, f, g.one[t], g.two[t])
  BY <1>2, <1>16
<1> QED BY <1>1, <1>2, <1>4, <1>9, <1>15, <1>17, SameDone

\* free_ind() up to its bread().
LEMMA FreeIndBegins ==
  ASSUME NEW g, BlocksRight(g), NEW t \in Task, NEW s, s = todo[t], NEW f \in File, f = file[t],
         B!Next1(t, "tree"), TruncateStays(t), UNCHANGED <<zmap, i_zone>>,
         NEW v, NEW r, NEW X, InInd(g, f, g.two[t], v, r, X), AtTree(g, s, g.one[t], v, r),
         IF v = NULL THEN B!Becomes(t, <<>>) /\ UNCHANGED b_count
         ELSE B!Becomes(t, <<B!Do("scan", v, 0, 1)>>) /\ b_count' = B!Counts({v}, {})
  PROVE  BlockInv'
<1>1. PICK one, two : one = g.one[t] /\ two = g.two[t]
  OBVIOUS
<1>2. /\ Forest(g) /\ NULL \notin g.here /\ g.here \subseteq Block /\ zmap \subseteq Block
  BY AtFirst
<1>3. /\ v \in Block \cup {NULL} /\ r \in Seq(B!Item) /\ Whole(g, f, X)
      /\ InInd(g, f, two, v, r, X)
  BY <1>1 DEF InInd
<1>4. /\ Tail(s) = r /\ one = NULL /\ (v # NULL => g.done[v] = 0)
  BY <1>1 DEF AtTree
<1>5. DIRECT \in B!Zone /\ DIRECT \in DIRECT..(DIRECT + 1) /\ (DIRECT..(DIRECT + 1)) \ {DIRECT} = {DIRECT + 1}
      /\ PER \in Nat /\ 0 \in 0..PER
  BY BlockConstants
<1>6. CASE v = NULL
  <2>1. ByTruncate(g, f, two, v, r, X)
    BY <1>3, <1>6 DEF InInd, ByDind
  <2>2. /\ r = Root2 /\ X = {NULL} /\ two = NULL /\ Cleared(f, DIRECT)
        /\ g.owed[f] = DIRECT..(DIRECT + 1) /\ i_zone[f][DIRECT] = NULL
    BY <1>6, <2>1 DEF ByTruncate
  <2>3. todo' = [todo EXCEPT ![t] = <<>> \o Tail(todo[t])]
    BY <1>6 DEF B!Becomes
  <2>4. <<>> \o r = r
    BY <1>3, Items, ConcatEmptySeq
  <2>5. Goes(t, r)
    BY <1>3, <1>4, <2>3, <2>4 DEF Goes
  <2>6. PICK z, p : z = DIRECT /\ p = NULL
    OBVIOUS
  <2>7. PICK h : KillsZoneOnly(g, h, f, z, p)
    BY GhostKillsZone
  <2>8. /\ h.owed[f] = g.owed[f] \ {z} /\ h.here = g.here \ {p} /\ h.own = g.own /\ h.done = g.done
    BY <2>7 DEF KillsZoneOnly, KillsZone
  <2>9. h.owed[f] = {DIRECT + 1} /\ Whole(h, f, {})
    <3>1. h.owed[f] = {DIRECT + 1}
      BY <1>5, <2>2, <2>6, <2>8
    <3>2. Whole(h, f, {})
      BY <1>2, <1>3, <2>2, <2>8 DEF Whole
    <3> QED BY <3>1, <3>2
  <2>10. Truncates(h, r, f, one, two)
    <3>1. AtRoot2(h, r, f, one, two)
      BY <1>4, <2>2, <2>9 DEF AtRoot2
    <3> QED BY <2>2, <3>1 DEF Truncates
  <2>11. Truncates(h, r, f, g.one[t], g.two[t])
    BY <1>1, <2>10
  <2>12. Bare(g, p) /\ zmap' = zmap \ {p} /\ z \in g.owed[f] /\ p = i_zone[f][z]
    BY <1>2, <1>5, <2>2, <2>6, NoneIsBare, NoneOfBlocks
  <2>13. b_count' = b_count /\ i_zone' = i_zone
    BY <1>6
  <2> QED BY <2>5, <2>6, <2>7, <2>11, <2>12, <2>13, ZoneDone
<1>7. CASE v # NULL
  <2>1. PICK a, q : a = B!Do("scan", v, 0, 1) /\ q = <<a>> \o r
    OBVIOUS
  <2>2. v \in Block /\ 0 \in Nat /\ 1 \in 0..2
    BY <1>3, <1>7
  <2>3. a \in B!Item /\ q \in Seq(B!Item)
    <3>1. a \in B!Item
      BY <2>1, <2>2, ItemFields
    <3> QED BY <1>3, <2>1, <3>1, Items
  <2>4. todo' = [todo EXCEPT ![t] = <<a>> \o Tail(todo[t])] /\ b_count' = B!Counts({v}, {})
    BY <1>7, <2>1 DEF B!Becomes
  <2>5. Goes(t, q)
    BY <1>4, <2>1, <2>3, <2>4 DEF Goes
  <2>6. PICK h : OneIs(g, h, t, v)
    BY GhostOne
  <2>7. SameHeap(g, h) /\ h.one[t] = v /\ h.done = g.done /\ h.two[t] = two
    BY <1>1, <2>6 DEF OneIs, SameHeap
  <2>8. InInd(h, f, two, v, r, X)
    BY <1>3, <2>7, IndSame
  <2>9. AtInd(h, q, f, v, v, r)
    BY <1>4, <1>5, <1>7, <2>1, <2>7 DEF AtInd
  <2>10. Truncates(h, q, f, h.one[t], h.two[t])
    BY <2>7, <2>8, <2>9, IndTruncates
  <2>11. PICK S, R : S = {v} /\ R = {}
    OBVIOUS
  <2>12. OneMoves(g, h, t, S, R)
    <3>1. \A b \in Block : b # NULL
      BY BlockConstants
    <3> QED BY <1>1, <1>4, <2>6, <2>7, <2>11, <3>1 DEF OneMoves, OneIs
  <2>13. b_count' = B!Counts(S, R)
    BY <2>4, <2>11
  <2> QED BY <2>5, <2>7, <2>10, <2>12, <2>13, BufferDone
<1> QED BY <1>6, <1>7

\* free_dind() up to its bread().
LEMMA FreeDindBegins ==
  ASSUME NEW g, BlocksRight(g), NEW t \in Task, NEW s, s = todo[t], NEW f \in File, f = file[t],
         B!Next1(t, "tree"), TruncateStays(t), UNCHANGED <<zmap, i_zone>>,
         g.one[t] = NULL, g.two[t] = NULL, AtSecondTree(g, s, f), NEW v, v = i_zone[f][DIRECT + 1],
         IF v = NULL THEN B!Becomes(t, <<>>) /\ UNCHANGED b_count
         ELSE B!Becomes(t, <<B!Do("scan", v, 0, 2)>>) /\ b_count' = B!Counts({v}, {})
  PROVE  BlockInv'
<1>1. PICK one, two : one = g.one[t] /\ two = g.two[t] /\ one = NULL /\ two = NULL
  OBVIOUS
<1>2. /\ Forest(g) /\ NULL \notin g.here /\ g.here \subseteq Block /\ zmap \subseteq Block
      /\ i_zone \in [File -> [B!Zone -> Block \cup {NULL}]]
  BY AtFirst
<1>3. /\ Tail(s) = Clears /\ Cleared(f, DIRECT) /\ g.owed[f] = {DIRECT + 1} /\ Whole(g, f, {})
      /\ Clears \in Seq(B!Item)
  BY Lists DEF AtSecondTree
<1>4. DIRECT + 1 \in B!Zone /\ PER \in Nat /\ 0 \in 0..PER
  BY BlockConstants
<1>5. v \in Block \cup {NULL}
  BY <1>2, <1>4
<1>6. CASE v = NULL
  <2>1. todo' = [todo EXCEPT ![t] = <<>> \o Tail(todo[t])]
    BY <1>6 DEF B!Becomes
  <2>2. <<>> \o Clears = Clears
    BY <1>3, Items, ConcatEmptySeq
  <2>3. Goes(t, Clears)
    BY <1>3, <2>1, <2>2 DEF Goes
  <2>4. PICK z, p : z = DIRECT + 1 /\ p = NULL
    OBVIOUS
  <2>5. PICK h : KillsZoneOnly(g, h, f, z, p)
    BY GhostKillsZone
  <2>6. /\ h.owed[f] = g.owed[f] \ {z} /\ h.here = g.here \ {p} /\ h.own = g.own /\ h.done = g.done
    BY <2>5 DEF KillsZoneOnly, KillsZone
  <2>7. h.owed[f] = {} /\ Whole(h, f, {})
    <3>1. h.owed[f] = {}
      BY <1>3, <2>4, <2>6
    <3>2. Whole(h, f, {})
      BY <1>3, <2>6 DEF Whole
    <3> QED BY <3>1, <3>2
  <2>8. Truncates(h, Clears, f, one, two)
    <3>1. AtEnd(h, Clears, f)
      BY <2>7 DEF AtEnd
    <3> QED BY <1>1, <1>3, <3>1 DEF Truncates
  <2>9. Truncates(h, Clears, f, g.one[t], g.two[t])
    BY <1>1, <2>8
  <2>10. Bare(g, p) /\ zmap' = zmap \ {p} /\ z \in g.owed[f] /\ p = i_zone[f][z]
    BY <1>2, <1>3, <1>6, <2>4, NoneIsBare, NoneOfBlocks
  <2>11. b_count' = b_count /\ i_zone' = i_zone
    BY <1>6
  <2> QED BY <2>3, <2>4, <2>5, <2>9, <2>10, <2>11, ZoneDone
<1>7. CASE v # NULL
  <2>1. PICK a, q : a = B!Do("scan", v, 0, 2) /\ q = <<a>> \o Clears
    OBVIOUS
  <2>2. v \in Block /\ 0 \in Nat /\ 2 \in 0..2
    BY <1>5, <1>7
  <2>3. a \in B!Item /\ q \in Seq(B!Item)
    <3>1. a \in B!Item
      BY <2>1, <2>2, ItemFields
    <3> QED BY <1>3, <2>1, <3>1, Items
  <2>4. todo' = [todo EXCEPT ![t] = <<a>> \o Tail(todo[t])] /\ b_count' = B!Counts({v}, {})
    BY <1>7, <2>1 DEF B!Becomes
  <2>5. Goes(t, q)
    BY <1>3, <2>1, <2>3, <2>4 DEF Goes
  <2>6. PICK h : TwoIs(g, h, t, v)
    BY GhostTwo
  <2>7. SameHeap(g, h) /\ h.two[t] = v /\ h.done = g.done /\ h.one[t] = one
        /\ h.here = g.here /\ h.up = g.up /\ h.own = g.own /\ h.owed = g.owed
    BY <1>1, <2>6 DEF TwoIs, SameHeap
  <2>8. PICK z : z = DIRECT + 1
    OBVIOUS
  <2>9. Leads(g, v, <<"i", f, z>>, f, Level(z))
    BY <1>2, <1>3, <1>7, <2>8 DEF Forest
  <2>10. In(g, v, f) /\ g.up[v] = <<"i", f, DIRECT + 1>> /\ g.done[v] = 0
    BY <1>3, <2>8, <2>9 DEF Leads, In, Whole
  <2>11. InDind(h, f, v, 0)
    BY <1>3, <1>4, <2>7, <2>10 DEF InDind, In
  <2>12. AtDind(h, q, f, one, v, v, 0)
    <3>1. Whole(h, f, {v})
      BY <1>3, <2>7 DEF Whole
    <3> QED BY <1>1, <2>1, <3>1 DEF AtDind
  <2>13. Truncates(h, q, f, h.one[t], h.two[t])
    BY <2>7, <2>11, <2>12, DindTruncates
  <2>14. PICK S, R : S = {v} /\ R = {}
    OBVIOUS
  <2>15. TwoMoves(g, h, t, S, R)
    <3>1. \A b \in Block : b # NULL
      BY BlockConstants
    <3> QED BY <1>1, <2>6, <2>7, <2>14, <3>1 DEF TwoMoves, TwoIs
  <2>16. b_count' = B!Counts(S, R)
    BY <2>4, <2>14
  <2> QED BY <2>5, <2>7, <2>13, <2>15, <2>16, BufferDone
<1> QED BY <1>6, <1>7

LEMMA FreeTreeKeeps ==
  ASSUME BlockInv, NEW t \in Task, B!FreeTree(t) PROVE BlockInv'
<1>1. PICK g : BlocksRight(g)
  BY DEF BlockInv
<1>2. PICK s, f, one, two : s = todo[t] /\ f = file[t] /\ one = g.one[t] /\ two = g.two[t]
  OBVIOUS
<1>3. B!Next1(t, "tree")
  BY DEF B!FreeTree
<1>4. /\ pc[t] = "truncate" /\ f \in File /\ Head(s).kind = "tree" /\ Positions(g, s, f, one, two)
  BY <1>1, <1>2, <1>3, AtFirst
<1>5. PICK v, n : v = Head(s).b /\ n = Head(s).depth
  OBVIOUS
<1>6. /\ IF v = NULL THEN B!Becomes(t, <<>>) /\ UNCHANGED b_count
         ELSE B!Becomes(t, <<B!Do("scan", v, 0, n)>>) /\ b_count' = B!Counts({v}, {})
      /\ UNCHANGED <<on, zmap, i_zone, entry, data, pc, B!walk, blk, panic>>
  BY <1>2, <1>5 DEF B!FreeTree
<1>7. TruncateStays(t) /\ zmap' = zmap /\ i_zone' = i_zone
  BY <1>4, <1>6, StaysTruncate
<1>8. CASE \E x, r, X : InInd(g, f, two, x, r, X) /\ AtTree(g, s, one, x, r)
  <2>1. PICK x, r, X : InInd(g, f, two, x, r, X) /\ AtTree(g, s, one, x, r)
    BY <1>8
  <2>2. x = v /\ n = 1
    BY <1>5, <2>1, ItemFields DEF AtTree
  <2>3. InInd(g, f, g.two[t], v, r, X) /\ AtTree(g, s, g.one[t], v, r)
    BY <1>2, <2>1, <2>2
  <2>4. IF v = NULL THEN B!Becomes(t, <<>>) /\ UNCHANGED b_count
        ELSE B!Becomes(t, <<B!Do("scan", v, 0, 1)>>) /\ b_count' = B!Counts({v}, {})
    BY <1>6, <2>2
  <2> QED BY <1>1, <1>2, <1>3, <1>4, <1>7, <2>3, <2>4, FreeIndBegins
<1>9. CASE Idle(one, two) /\ AtSecondTree(g, s, f)
  <2>1. v = i_zone[f][DIRECT + 1] /\ n = 2
    BY <1>5, <1>9, ItemFields DEF AtSecondTree
  <2>2. g.one[t] = NULL /\ g.two[t] = NULL
    BY <1>2, <1>9 DEF Idle
  <2>3. IF v = NULL THEN B!Becomes(t, <<>>) /\ UNCHANGED b_count
        ELSE B!Becomes(t, <<B!Do("scan", v, 0, 2)>>) /\ b_count' = B!Counts({v}, {})
    BY <1>6, <2>1
  <2>4. AtSecondTree(g, s, f) /\ UNCHANGED <<zmap, i_zone>> /\ f \in File /\ s = todo[t] /\ f = file[t]
    BY <1>2, <1>4, <1>7, <1>9
  <2> QED BY <1>1, <1>3, <1>7, <2>1, <2>2, <2>3, <2>4, FreeDindBegins
<1> QED BY <1>4, <1>8, <1>9 DEF Positions

LEMMA TwoItems ==
  ASSUME NEW s \in Seq(B!Item), NEW a \in B!Item, NEW b \in B!Item
  PROVE  <<a, b>> \o s = <<a>> \o (<<b>> \o s)
<1>1. PICK X : X = B!Item
  OBVIOUS
<1>2. PICK p, q, pq : p = <<a>> /\ q = <<b>> /\ pq = <<a, b>>
  OBVIOUS
<1>3. p \in Seq(X) /\ q \in Seq(X) /\ pq \in Seq(X) /\ Len(p) = 1 /\ Len(q) = 1 /\ Len(pq) = 2
      /\ p[1] = a /\ q[1] = b /\ pq[1] = a /\ pq[2] = b
  BY <1>1, <1>2
<1>4. p \o q = pq
  <2>1. PICK c : c = p \o q
    OBVIOUS
  <2>5. /\ c \in Seq(X) /\ Len(c) = Len(p) + Len(q)
        /\ \A i \in 1 .. Len(p) + Len(q) : c[i] = IF i <= Len(p) THEN p[i] ELSE q[i - Len(p)]
    BY <1>3, <2>1, ConcatProperties
  <2>2. c \in Seq(X) /\ Len(c) = 2 /\ c[1] = a /\ c[2] = b
    <3>1. 1 \in 1 .. Len(p) + Len(q) /\ 2 \in 1 .. Len(p) + Len(q) /\ Len(p) = 1 /\ Len(q) = 1
      BY <1>3
    <3> QED BY <1>3, <2>5, <3>1
  <2>3. \A i \in 1..Len(c) : c[i] = pq[i]
    BY <1>3, <2>2
  <2>4. c = pq
    BY <1>3, <2>2, <2>3, SeqEqual
  <2> QED BY <2>1, <2>4
<1>5. (p \o q) \o s = p \o (q \o s)
  <2>1. s \in Seq(X)
    BY <1>1
  <2> QED BY <1>3, <2>1, ConcatAssociative
<1> QED BY <1>2, <1>4, <1>5

\* free_ind() at an entry, or behind the last.
LEMMA FreeIndScans ==
  ASSUME NEW g, BlocksRight(g), NEW t \in Task, NEW s, s = todo[t], NEW f \in File, f = file[t],
         B!Next1(t, "scan"), TruncateStays(t), UNCHANGED <<zmap, i_zone>>,
         NEW v, NEW r, NEW X, NEW j, InInd(g, f, g.two[t], v, r, X), AtScan(g, s, g.one[t], v, r, j),
         IF j = PER THEN B!Becomes(t, <<B!Do("free", v, 0, 0)>>) /\ b_count' = B!Counts({}, {v})
         ELSE /\ b_count' = b_count
              /\ IF entry[v][j] = NULL THEN B!Becomes(t, <<B!Do("scan", v, j + 1, 1)>>)
                 ELSE B!Becomes(t, <<B!Do("free", entry[v][j], 0, 0), B!Do("scan", v, j + 1, 1)>>)
  PROVE  BlockInv'
<1>1. PICK one, two : one = g.one[t] /\ two = g.two[t]
  OBVIOUS
<1>2. /\ Forest(g) /\ NULL \notin g.here /\ g.here \subseteq Block /\ zmap \subseteq Block
      /\ entry \in [Block -> [B!Index -> Block \cup {NULL}]]
  BY AtFirst
<1>3. /\ v \in Block \cup {NULL} /\ r \in Seq(B!Item) /\ InInd(g, f, two, v, r, X)
  BY <1>1 DEF InInd
<1>4. /\ Tail(s) = r /\ one = v /\ v # NULL /\ g.done[v] = j /\ j \in 0..PER /\ v \in Block
  BY <1>1, <1>3 DEF AtScan
<1>5. PER \in Nat /\ B!Index = 0..(PER - 1) /\ j \in Nat /\ j + 1 \in Nat
      /\ 0 \in Nat /\ 0 \in 0..2 /\ 1 \in 0..2
  BY <1>4, BlockConstants
<1>6. In(g, v, f) /\ v # two
  BY <1>2, <1>3, <1>4, IndLevels
<1>7. CASE j = PER
  <2>1. PICK a, q : a = B!Do("free", v, 0, 0) /\ q = <<a>> \o r
    OBVIOUS
  <2>2. a \in B!Item /\ q \in Seq(B!Item)
    <3>1. a \in B!Item
      BY <1>4, <1>5, <2>1, ItemFields
    <3> QED BY <1>3, <2>1, <3>1, Items
  <2>3. todo' = [todo EXCEPT ![t] = <<a>> \o Tail(todo[t])] /\ b_count' = B!Counts({}, {v})
    BY <1>7, <2>1 DEF B!Becomes
  <2>4. Goes(t, q)
    BY <1>4, <2>1, <2>2, <2>3 DEF Goes
  <2>5. PICK h : OneIs(g, h, t, NULL)
    BY GhostOne
  <2>6. SameHeap(g, h) /\ h.one[t] = NULL /\ h.done = g.done /\ h.two[t] = two
    BY <1>1, <2>5 DEF OneIs, SameHeap
  <2>7. InInd(h, f, two, v, r, X)
    BY <1>3, <2>6, IndSame
  <2>8. AtInd(h, q, f, h.one[t], v, r)
    BY <1>4, <1>7, <2>1, <2>6 DEF AtInd
  <2>9. Truncates(h, q, f, h.one[t], h.two[t])
    BY <2>6, <2>7, <2>8, IndTruncates
  <2>10. PICK S, R : S = {} /\ R = {v}
    OBVIOUS
  <2>11. OneMoves(g, h, t, S, R)
    <3>1. \A b \in Block : b # NULL
      BY BlockConstants
    <3> QED BY <1>1, <1>4, <2>5, <2>6, <2>10, <3>1 DEF OneMoves, OneIs
  <2>12. b_count' = B!Counts(S, R)
    BY <2>3, <2>10
  <2> QED BY <2>4, <2>6, <2>9, <2>11, <2>12, BufferDone
<1>8. CASE j # PER /\ entry[v][j] = NULL
  <2>0. j \in B!Index /\ j + 1 \in 0..PER
    BY <1>4, <1>5, <1>8
  <2>1. PICK a, q : a = B!Do("scan", v, j + 1, 1) /\ q = <<a>> \o r
    OBVIOUS
  <2>2. a \in B!Item /\ q \in Seq(B!Item)
    <3>1. a \in B!Item
      BY <1>4, <1>5, <2>1, ItemFields
    <3> QED BY <1>3, <2>1, <3>1, Items
  <2>3. todo' = [todo EXCEPT ![t] = <<a>> \o Tail(todo[t])] /\ b_count' = b_count
    BY <1>8, <2>1 DEF B!Becomes
  <2>4. Goes(t, q)
    BY <1>4, <2>1, <2>2, <2>3 DEF Goes
  <2>5. PICK p : p = NULL
    OBVIOUS
  <2>6. PICK h : KillsEntryOnly(g, h, v, p)
    BY <1>4, GhostKillsEntry
  <2>7. KillsEntry(g, h, v, p) /\ h.done[v] = j + 1
    BY <1>4, <2>6 DEF KillsEntryOnly, KillsEntry
  <2>8. InInd(h, f, two, v, r, X)
    BY <1>2, <1>3, <1>4, <1>6, <2>5, <2>7, IndStays
  <2>9. AtInd(h, q, f, one, v, r)
    BY <1>4, <2>0, <2>1, <2>7 DEF AtInd
  <2>10. Truncates(h, q, f, g.one[t], g.two[t])
    BY <1>1, <2>8, <2>9, IndTruncates
  <2>11. Bare(g, p) /\ zmap' = zmap \ {p} /\ g.done[v] \in B!Index /\ p = entry[v][g.done[v]]
    BY <1>2, <1>4, <1>8, <2>0, <2>5, NoneIsBare, NoneOfBlocks
  <2> QED BY <1>6, <2>3, <2>4, <2>5, <2>6, <2>10, <2>11, EntryDone
<1>9. CASE j # PER /\ entry[v][j] # NULL
  <2>0. j \in B!Index
    BY <1>4, <1>5, <1>9
  <2>1. PICK w, a, c, q : /\ w = entry[v][j] /\ a = B!Do("free", w, 0, 0)
                          /\ c = B!Do("scan", v, j + 1, 1) /\ q = <<a, c>> \o r
    OBVIOUS
  <2>2. w \in Block
    BY <1>2, <1>4, <1>9, <2>0, <2>1
  <2>3. a \in B!Item /\ c \in B!Item /\ q \in Seq(B!Item)
    <3>1. a \in B!Item /\ c \in B!Item
      BY <1>4, <1>5, <2>1, <2>2, ItemFields
    <3> QED BY <1>3, <2>1, <3>1, Items
  <2>4. todo' = [todo EXCEPT ![t] = <<a, c>> \o Tail(todo[t])] /\ b_count' = b_count
    BY <1>9, <2>1 DEF B!Becomes
  <2>5. Goes(t, q)
    BY <1>4, <2>1, <2>3, <2>4 DEF Goes
  <2>6. Leads(g, w, <<"e", v, j>>, g.own[v], g.lvl[v] - 1)
    <3>1. v \in g.here /\ j >= g.done[v] /\ entry[v][j] # NULL
      BY <1>4, <1>5, <1>6, <1>9 DEF In
    <3> QED BY <1>2, <2>0, <2>1, <3>1 DEF Forest
  <2>7. w \in g.here /\ In(g, w, f) /\ g.up[w] = <<"e", v, j>>
    BY <1>6, <2>6 DEF Leads, In
  <2>8. AtInd(g, q, f, one, v, r)
    BY <1>4, <2>0, <2>1, <2>7 DEF AtInd
  <2>9. Truncates(g, q, f, g.one[t], g.two[t])
    BY <1>1, <1>3, <2>8, IndTruncates
  <2> QED BY <2>4, <2>5, <2>9, SameDone
<1> QED BY <1>7, <1>8, <1>9

\* free_dind() at an entry, or behind the last.
LEMMA FreeDindScans ==
  ASSUME NEW g, BlocksRight(g), NEW t \in Task, NEW s, s = todo[t], NEW f \in File, f = file[t],
         B!Next1(t, "scan"), TruncateStays(t), UNCHANGED <<zmap, i_zone>>,
         NEW b, NEW k, AtSecondScan(g, s, f, g.one[t], g.two[t], b, k),
         IF k = PER THEN B!Becomes(t, <<B!Do("free", b, 0, 0)>>) /\ b_count' = B!Counts({}, {b})
         ELSE /\ b_count' = b_count
              /\ IF entry[b][k] = NULL THEN B!Becomes(t, <<B!Do("scan", b, k + 1, 2)>>)
                 ELSE B!Becomes(t, <<B!Do("tree", entry[b][k], 0, 1), B!Do("scan", b, k + 1, 2)>>)
  PROVE  BlockInv'
<1>1. PICK one, two : one = g.one[t] /\ two = g.two[t]
  OBVIOUS
<1>2. /\ Forest(g) /\ NULL \notin g.here /\ g.here \subseteq Block /\ zmap \subseteq Block
      /\ entry \in [Block -> [B!Index -> Block \cup {NULL}]]
  BY AtFirst
<1>3. /\ Tail(s) = Clears /\ one = NULL /\ two = b /\ InDind(g, f, b, k) /\ Whole(g, f, {b})
      /\ Clears \in Seq(B!Item)
  BY <1>1, Lists DEF AtSecondScan
<1>4. /\ Cleared(f, DIRECT) /\ g.owed[f] = {DIRECT + 1}
      /\ In(g, b, f) /\ g.up[b] = <<"i", f, DIRECT + 1>> /\ g.done[b] = k /\ k \in 0..PER
      /\ b \in g.here /\ b \in Block /\ b # NULL
  BY <1>2, <1>3 DEF InDind, In
<1>5. PER \in Nat /\ B!Index = 0..(PER - 1) /\ k \in Nat /\ k + 1 \in Nat
      /\ 0 \in Nat /\ 0 \in 0..2 /\ 1 \in 0..2 /\ 2 \in 0..2
  BY <1>4, BlockConstants
<1>6. CASE k = PER
  <2>1. PICK a, q : a = B!Do("free", b, 0, 0) /\ q = <<a>> \o Clears
    OBVIOUS
  <2>2. a \in B!Item /\ q \in Seq(B!Item)
    <3>1. a \in B!Item
      BY <1>4, <1>5, <2>1, ItemFields
    <3> QED BY <1>3, <2>1, <3>1, Items
  <2>3. todo' = [todo EXCEPT ![t] = <<a>> \o Tail(todo[t])] /\ b_count' = B!Counts({}, {b})
    BY <1>6, <2>1 DEF B!Becomes
  <2>4. Goes(t, q)
    BY <1>3, <2>1, <2>2, <2>3 DEF Goes
  <2>5. PICK h : TwoIs(g, h, t, NULL)
    BY GhostTwo
  <2>6. SameHeap(g, h) /\ h.two[t] = NULL /\ h.done = g.done /\ h.one[t] = one
        /\ h.here = g.here /\ h.up = g.up /\ h.own = g.own /\ h.owed = g.owed
    BY <1>1, <2>5 DEF TwoIs, SameHeap
  <2>7. InDind(h, f, b, k) /\ Whole(h, f, {b})
    BY <1>3, <1>4, <2>6 DEF InDind, In, Whole
  <2>8. AtDind(h, q, f, h.one[t], h.two[t], b, k)
    BY <1>3, <1>6, <2>1, <2>6, <2>7 DEF AtDind
  <2>9. Truncates(h, q, f, h.one[t], h.two[t])
    BY <2>7, <2>8, DindTruncates
  <2>10. PICK S, R : S = {} /\ R = {b}
    OBVIOUS
  <2>11. TwoMoves(g, h, t, S, R)
    <3>1. \A x \in Block : x # NULL
      BY BlockConstants
    <3> QED BY <1>1, <1>3, <2>5, <2>6, <2>10, <3>1 DEF TwoMoves, TwoIs
  <2>12. b_count' = B!Counts(S, R)
    BY <2>3, <2>10
  <2> QED BY <2>4, <2>6, <2>9, <2>11, <2>12, BufferDone
<1>7. CASE k # PER /\ entry[b][k] = NULL
  <2>0. k \in B!Index /\ k + 1 \in 0..PER
    BY <1>4, <1>5, <1>7
  <2>1. PICK a, q : a = B!Do("scan", b, k + 1, 2) /\ q = <<a>> \o Clears
    OBVIOUS
  <2>2. a \in B!Item /\ q \in Seq(B!Item)
    <3>1. a \in B!Item
      BY <1>4, <1>5, <2>1, ItemFields
    <3> QED BY <1>3, <2>1, <3>1, Items
  <2>3. todo' = [todo EXCEPT ![t] = <<a>> \o Tail(todo[t])] /\ b_count' = b_count
    BY <1>7, <2>1 DEF B!Becomes
  <2>4. Goes(t, q)
    BY <1>3, <2>1, <2>2, <2>3 DEF Goes
  <2>5. PICK p : p = NULL
    OBVIOUS
  <2>6. PICK h : KillsEntryOnly(g, h, b, p)
    BY <1>4, GhostKillsEntry
  <2>7. /\ KillsEntry(g, h, b, p) /\ h.done[b] = k + 1 /\ h.here = g.here \ {p} /\ h.up = g.up
        /\ h.own = g.own /\ h.owed = g.owed /\ \A x \in Block \ {b} : h.done[x] = g.done[x]
    BY <1>4, <2>6 DEF KillsEntryOnly, KillsEntry
  <2>8. InDind(h, f, b, k + 1)
    BY <1>4, <2>0, <2>5, <2>7 DEF InDind, In
  <2>9. Whole(h, f, {b})
    BY <1>2, <1>3, <2>7 DEF Whole
  <2>10. AtDind(h, q, f, one, two, b, k + 1)
    BY <1>3, <2>1, <2>9 DEF AtDind
  <2>11. Truncates(h, q, f, g.one[t], g.two[t])
    BY <1>1, <2>8, <2>10, DindTruncates
  <2>12. Bare(g, p) /\ zmap' = zmap \ {p} /\ g.done[b] \in B!Index /\ p = entry[b][g.done[b]]
    BY <1>2, <1>4, <1>7, <2>0, <2>5, NoneIsBare, NoneOfBlocks
  <2> QED BY <1>4, <2>3, <2>4, <2>5, <2>6, <2>11, <2>12, EntryDone
<1>8. CASE k # PER /\ entry[b][k] # NULL
  <2>0. k \in B!Index /\ k < PER
    BY <1>4, <1>5, <1>8
  <2>1. PICK v, a, c, r, q, X : /\ v = entry[b][k] /\ a = B!Do("tree", v, 0, 1)
                                /\ c = B!Do("scan", b, k + 1, 2) /\ r = <<c>> \o Clears
                                /\ q = <<a, c>> \o Clears /\ X = {b, v}
    OBVIOUS
  <2>2. v \in Block /\ v # NULL
    BY <1>2, <1>4, <1>8, <2>0, <2>1
  <2>3. a \in B!Item /\ c \in B!Item /\ q \in Seq(B!Item) /\ r \in Seq(B!Item) /\ q = <<a>> \o r
    <3>1. a \in B!Item /\ c \in B!Item
      BY <1>4, <1>5, <2>1, <2>2, ItemFields
    <3>2. q \in Seq(B!Item) /\ r \in Seq(B!Item)
      BY <1>3, <2>1, <3>1, Items
    <3>3. q = <<a>> \o r
      BY <1>3, <2>1, <3>1, TwoItems
    <3> QED BY <3>1, <3>2, <3>3
  <2>4. todo' = [todo EXCEPT ![t] = <<a, c>> \o Tail(todo[t])] /\ b_count' = b_count
    BY <1>8, <2>1 DEF B!Becomes
  <2>5. Goes(t, q)
    BY <1>3, <2>1, <2>3, <2>4 DEF Goes
  <2>6. Leads(g, v, <<"e", b, k>>, g.own[b], g.lvl[b] - 1)
    <3>1. k >= g.done[b] /\ entry[b][k] # NULL
      BY <1>4, <1>5, <1>8
    <3> QED BY <1>2, <1>4, <2>0, <2>1, <3>1 DEF Forest
  <2>7. v \in g.here /\ In(g, v, f) /\ g.up[v] = <<"e", b, k>> /\ g.lvl[v] = g.lvl[b] - 1
    BY <1>4, <2>6 DEF Leads, In
  <2>8. v # b
    <3>1. g.lvl[b] \in 0..2
      BY <1>2, <1>4 DEF Forest
    <3> QED BY <2>7, <3>1
  <2>9. g.done[v] = 0 /\ Whole(g, f, X)
    BY <1>3, <2>1, <2>7, <2>8 DEF Whole, In
  <2>10. ByDind(g, f, two, v, r, X, b, k)
    BY <1>3, <2>0, <2>1, <2>2, <2>7 DEF ByDind
  <2>11. InInd(g, f, two, v, r, X)
    BY <2>2, <2>3, <2>9, <2>10 DEF InInd
  <2>12. AtInd(g, q, f, one, v, r)
    BY <1>3, <2>1, <2>3, <2>9 DEF AtInd
  <2>13. Truncates(g, q, f, g.one[t], g.two[t])
    BY <1>1, <2>11, <2>12, IndTruncates
  <2> QED BY <2>4, <2>5, <2>13, SameDone
<1> QED BY <1>6, <1>7, <1>8

LEMMA FreeEntryKeeps ==
  ASSUME BlockInv, NEW t \in Task, B!FreeEntry(t) PROVE BlockInv'
<1>1. PICK g : BlocksRight(g)
  BY DEF BlockInv
<1>2. PICK s, f, one, two : s = todo[t] /\ f = file[t] /\ one = g.one[t] /\ two = g.two[t]
  OBVIOUS
<1>3. B!Next1(t, "scan")
  BY DEF B!FreeEntry
<1>4. /\ pc[t] = "truncate" /\ f \in File /\ Head(s).kind = "scan" /\ Positions(g, s, f, one, two)
  BY <1>1, <1>2, <1>3, AtFirst
<1>5. PICK b, k, n : b = Head(s).b /\ k = Head(s).k /\ n = Head(s).depth
  OBVIOUS
<1>6. PICK w : w = entry[b][k]
  OBVIOUS
<1>7. /\ IF k = PER THEN B!Becomes(t, <<B!Do("free", b, 0, 0)>>) /\ b_count' = B!Counts({}, {b})
         ELSE /\ b_count' = b_count
              /\ B!Becomes(t, IF w = NULL THEN <<B!Do("scan", b, k + 1, n)>>
                              ELSE IF n = 1 THEN <<B!Do("free", w, 0, 0), B!Do("scan", b, k + 1, n)>>
                              ELSE <<B!Do("tree", w, 0, 1), B!Do("scan", b, k + 1, n)>>)
      /\ UNCHANGED <<on, zmap, i_zone, entry, data, pc, B!walk, blk, panic>>
  BY <1>2, <1>5, <1>6 DEF B!FreeEntry
<1>8. TruncateStays(t) /\ UNCHANGED <<zmap, i_zone>>
  BY <1>4, <1>7, StaysTruncate
<1>9. CASE \E v, r, X, j : InInd(g, f, two, v, r, X) /\ AtScan(g, s, one, v, r, j)
  <2>1. PICK v, r, X, j : InInd(g, f, two, v, r, X) /\ AtScan(g, s, one, v, r, j)
    BY <1>9
  <2>2. v = b /\ n = 1 /\ j = k
    BY <1>5, <2>1, ItemFields DEF AtScan
  <2>3. InInd(g, f, g.two[t], b, r, X) /\ AtScan(g, s, g.one[t], b, r, k)
    BY <1>2, <2>1, <2>2
  <2>4. IF k = PER THEN B!Becomes(t, <<B!Do("free", b, 0, 0)>>) /\ b_count' = B!Counts({}, {b})
        ELSE /\ b_count' = b_count
             /\ IF entry[b][k] = NULL THEN B!Becomes(t, <<B!Do("scan", b, k + 1, 1)>>)
                ELSE B!Becomes(t, <<B!Do("free", entry[b][k], 0, 0), B!Do("scan", b, k + 1, 1)>>)
    BY <1>6, <1>7, <2>2
  <2> QED BY <1>1, <1>2, <1>3, <1>4, <1>8, <2>3, <2>4, FreeIndScans
<1>10. CASE \E x, j : AtSecondScan(g, s, f, one, two, x, j)
  <2>1. PICK x, j : AtSecondScan(g, s, f, one, two, x, j)
    BY <1>10
  <2>2. x = b /\ n = 2 /\ j = k
    BY <1>5, <2>1, ItemFields DEF AtSecondScan
  <2>3. AtSecondScan(g, s, f, g.one[t], g.two[t], b, k)
    BY <1>2, <2>1, <2>2
  <2>4. IF k = PER THEN B!Becomes(t, <<B!Do("free", b, 0, 0)>>) /\ b_count' = B!Counts({}, {b})
        ELSE /\ b_count' = b_count
             /\ IF entry[b][k] = NULL THEN B!Becomes(t, <<B!Do("scan", b, k + 1, 2)>>)
                ELSE B!Becomes(t, <<B!Do("tree", entry[b][k], 0, 1), B!Do("scan", b, k + 1, 2)>>)
    BY <1>6, <1>7, <2>2
  <2> QED BY <1>1, <1>2, <1>3, <1>4, <1>8, <2>3, <2>4, FreeDindScans
<1> QED BY <1>4, <1>9, <1>10 DEF Positions

LEMMA HangsInZone ==
  ASSUME NEW g, Forest(g), NULL \notin g.here, NEW v \in g.here, NEW f, NEW z, NEW w,
         w = <<"i", f, z>>, g.up[v] = w
  PROVE  z \in g.owed[f] /\ i_zone[f][z] = v /\ g.lvl[v] = Level(z)
BY UpIs

LEMMA FreeBlockDoes ==
  ASSUME NEW g, BlocksRight(g), NEW t \in Task, B!FreeBlock(t), NEW b, b = Head(todo[t]).b,
         In(g, b, file[t]), g.one[t] # b, g.two[t] # b, NEW r, r = Tail(todo[t])
  PROVE  Goes(t, r) /\ zmap' = zmap \ {b} /\ UNCHANGED <<i_zone, b_count>> /\ b \in Block
<1>1. B!Next1(t, "free")
  BY DEF B!FreeBlock
<1>2. /\ pc[t] = "truncate" /\ panic = NULL /\ r \in Seq(B!Item) /\ Forest(g)
  BY <1>1, AtFirst
<1>3. b \in Block /\ b_count[b] = 0
  BY <1>2, NoOtherUser
<1>4. b \in zmap
  BY <1>2 DEF In, Forest
<1>5. /\ zmap' = zmap \ {b} /\ panic' = NULL /\ b_count' = b_count
      /\ B!Becomes(t, <<>>)
      /\ UNCHANGED <<on, i_zone, entry, data, pc, B!walk, blk>>
  BY <1>3, <1>4 DEF B!FreeBlock
<1>6. todo' = [todo EXCEPT ![t] = <<>> \o Tail(todo[t])]
  BY <1>5 DEF B!Becomes
<1>7. <<>> \o r = r
  BY <1>2, ConcatEmptySeq
<1>8. TruncateStays(t)
  BY <1>2, <1>5, StaysTruncate
<1> QED BY <1>2, <1>3, <1>5, <1>6, <1>7, <1>8 DEF Goes

LEMMA FreesZone ==
  ASSUME NEW g, BlocksRight(g), NEW t \in Task, B!FreeBlock(t), NEW s, s = todo[t],
         NEW f \in File, f = file[t], g.one[t] = NULL, g.two[t] = NULL,
         NEW z, NEW v, AtFreeZone(g, s, f, z, v)
  PROVE  BlockInv'
<1>1. B!Next1(t, "free")
  BY DEF B!FreeBlock
<1>2. /\ Forest(g) /\ NULL \notin g.here /\ g.here \subseteq Block
  BY <1>1, AtFirst
<1>3. /\ z \in 0..(DIRECT - 1) /\ Head(s).b = v /\ Tail(s) = <<B!Do("clear", NULL, z, 0)>> \o Rest(z + 1)
      /\ Cleared(f, z) /\ g.owed[f] = z..(DIRECT + 1) /\ Whole(g, f, {})
      /\ In(g, v, f) /\ g.up[v] = <<"i", f, z>>
  BY ItemFields DEF AtFreeZone
<1>4. v \in g.here /\ v # NULL
  BY <1>2, <1>3 DEF In
<1>5. z \in g.owed[f] /\ i_zone[f][z] = v /\ g.lvl[v] = Level(z)
  <2>1. PICK w : w = <<"i", f, z>>
    OBVIOUS
  <2>2. g.up[v] = w
    BY <1>3, <2>1
  <2> QED BY <1>2, <1>4, <2>1, <2>2, HangsInZone
<1>6. Bare(g, v)
  BY <1>3, <1>5, RootLevels DEF Bare
<1>7. PICK r : r = Tail(todo[t])
  OBVIOUS
<1>8. Goes(t, r) /\ zmap' = zmap \ {v} /\ UNCHANGED <<i_zone, b_count>>
  BY <1>3, <1>4, <1>7, FreeBlockDoes
<1>9. PICK h : KillsZoneOnly(g, h, f, z, v)
  BY GhostKillsZone
<1>10. /\ h.owed[f] = g.owed[f] \ {z} /\ h.here = g.here \ {v} /\ h.own = g.own /\ h.done = g.done
  BY <1>9 DEF KillsZoneOnly, KillsZone
<1>11. Whole(h, f, {}) /\ h.owed[f] = (z + 1)..(DIRECT + 1)
  <2>1. Whole(h, f, {})
    BY <1>3, <1>10 DEF Whole
  <2>2. h.owed[f] = (z + 1)..(DIRECT + 1)
    BY <1>3, <1>10, BlockConstants
  <2> QED BY <2>1, <2>2
<1>12. AtZones(h, r, f)
  BY <1>3, <1>7, <1>11 DEF AtZones
<1>13. Truncates(h, r, f, g.one[t], g.two[t])
  BY <1>12 DEF Truncates
<1> QED BY <1>3, <1>4, <1>5, <1>6, <1>8, <1>9, <1>13, ZoneDone

LEMMA FreesLeaf ==
  ASSUME NEW g, BlocksRight(g), NEW t \in Task, B!FreeBlock(t), NEW s, s = todo[t],
         NEW f \in File, f = file[t], NEW v, NEW r, NEW X, NEW j, NEW w,
         InInd(g, f, g.two[t], v, r, X), AtFreeLeaf(g, s, f, g.one[t], v, r, j, w)
  PROVE  BlockInv'
<1>0. PICK one, two : one = g.one[t] /\ two = g.two[t]
  OBVIOUS
<1>1. B!Next1(t, "free")
  BY DEF B!FreeBlock
<1>2. /\ Forest(g) /\ NULL \notin g.here /\ g.here \subseteq Block
  BY <1>1, AtFirst
<1>3. /\ Head(s).b = w /\ Tail(s) = <<B!Do("scan", v, j + 1, 1)>> \o r
      /\ v # NULL /\ one = v /\ g.done[v] = j /\ j \in B!Index
      /\ In(g, w, f) /\ g.up[w] = <<"e", v, j>> /\ InInd(g, f, two, v, r, X)
  BY <1>0, ItemFields DEF AtFreeLeaf
<1>4. In(g, v, f) /\ g.lvl[v] = 1 /\ v # two /\ (two # NULL => g.lvl[two] = 2)
  BY <1>2, <1>3, IndLevels
<1>5. w \in g.here /\ w # NULL /\ v \in Block
  BY <1>2, <1>3, <1>4 DEF In
<1>6. entry[v][j] = w /\ g.lvl[w] = 0
  <2>1. entry[v][j] = w /\ g.lvl[w] = g.lvl[v] - 1
    BY <1>2, <1>3, <1>5, UpIs
  <2> QED BY <1>4, <2>1
<1>7. w # v /\ (two # NULL => w # two) /\ w # two
  BY <1>4, <1>5, <1>6
<1>8. Bare(g, w)
  BY <1>6 DEF Bare
<1>9. PICK q : q = Tail(todo[t])
  OBVIOUS
<1>10. Goes(t, q) /\ zmap' = zmap \ {w} /\ UNCHANGED <<i_zone, b_count>>
  BY <1>0, <1>3, <1>7, <1>9, FreeBlockDoes
<1>11. PICK h : KillsEntryOnly(g, h, v, w)
  BY <1>5, GhostKillsEntry
<1>12. KillsEntry(g, h, v, w) /\ h.done[v] = j + 1
  BY <1>3, <1>11 DEF KillsEntryOnly, KillsEntry
<1>13. InInd(h, f, two, v, r, X)
  BY <1>2, <1>3, <1>4, <1>7, <1>12, IndStays
<1>14. j + 1 \in 0..PER
  BY <1>3, BlockConstants
<1>15. AtInd(h, q, f, one, v, r)
  BY <1>3, <1>9, <1>12, <1>14 DEF AtInd
<1>16. Truncates(h, q, f, g.one[t], g.two[t])
  BY <1>0, <1>13, <1>15, IndTruncates
<1>17. g.done[v] \in B!Index /\ w = entry[v][g.done[v]]
  BY <1>3, <1>6
<1> QED BY <1>3, <1>4, <1>8, <1>10, <1>11, <1>16, <1>17, EntryDone

LEMMA FreesInd ==
  ASSUME NEW g, BlocksRight(g), NEW t \in Task, B!FreeBlock(t), NEW s, s = todo[t],
         NEW f \in File, f = file[t], NEW v, NEW r, NEW X,
         InInd(g, f, g.two[t], v, r, X), AtFreeInd(g, s, g.one[t], v, r)
  PROVE  BlockInv'
<1>0. PICK one, two : one = g.one[t] /\ two = g.two[t]
  OBVIOUS
<1>1. B!Next1(t, "free")
  BY DEF B!FreeBlock
<1>2. /\ Forest(g) /\ NULL \notin g.here /\ g.here \subseteq Block
  BY <1>1, AtFirst
<1>3. /\ Head(s).b = v /\ Tail(s) = r /\ v # NULL /\ one = NULL /\ g.done[v] = PER
      /\ InInd(g, f, two, v, r, X)
  BY <1>0, ItemFields DEF AtFreeInd
<1>4. In(g, v, f) /\ v # two
  BY <1>2, <1>3, IndLevels
<1>5. v \in g.here /\ Bare(g, v) /\ Whole(g, f, X)
  BY <1>3, <1>4 DEF In, Bare, InInd
<1>6. Goes(t, r) /\ zmap' = zmap \ {v} /\ UNCHANGED <<i_zone, b_count>>
  BY <1>0, <1>3, <1>4, FreeBlockDoes
<1>7. CASE ByTruncate(g, f, two, v, r, X)
  <2>1. /\ r = Root2 /\ X = {v} /\ two = NULL /\ Cleared(f, DIRECT)
        /\ g.owed[f] = DIRECT..(DIRECT + 1) /\ g.up[v] = <<"i", f, DIRECT>>
    BY <1>3, <1>7 DEF ByTruncate
  <2>3. PICK z, w : z = DIRECT /\ w = <<"i", f, z>>
    OBVIOUS
  <2>a. g.up[v] = w
    BY <2>1, <2>3
  <2>2. DIRECT \in g.owed[f] /\ i_zone[f][DIRECT] = v
    BY <1>2, <1>5, <2>3, <2>a, HangsInZone
  <2>4. PICK h : KillsZoneOnly(g, h, f, z, v)
    BY GhostKillsZone
  <2>5. /\ h.owed[f] = g.owed[f] \ {z} /\ h.here = g.here \ {v} /\ h.own = g.own /\ h.done = g.done
    BY <2>4 DEF KillsZoneOnly, KillsZone
  <2>6. h.owed[f] = {DIRECT + 1} /\ Whole(h, f, {})
    <3>1. h.owed[f] = {DIRECT + 1}
      BY <2>1, <2>3, <2>5, BlockConstants
    <3>2. Whole(h, f, {})
      BY <1>5, <2>1, <2>5 DEF Whole
    <3> QED BY <3>1, <3>2
  <2>7. AtRoot2(h, r, f, one, two)
    BY <1>3, <2>1, <2>6 DEF AtRoot2
  <2>8. Truncates(h, r, f, g.one[t], g.two[t])
    BY <1>0, <2>1, <2>7 DEF Truncates
  <2>9. z \in g.owed[f] /\ v = i_zone[f][z]
    BY <2>2, <2>3
  <2> QED BY <1>4, <1>5, <1>6, <2>4, <2>8, <2>9, ZoneDone
<1>8. CASE \E b, k : ByDind(g, f, two, v, r, X, b, k)
  <2>1. PICK b, k : ByDind(g, f, two, v, r, X, b, k)
    BY <1>8
  <2>2. /\ r = <<B!Do("scan", b, k + 1, 2)>> \o Clears /\ X = {b, v} /\ two = b
        /\ InDind(g, f, b, k) /\ k < PER /\ g.up[v] = <<"e", b, k>>
    BY <2>1 DEF ByDind
  <2>3. /\ Cleared(f, DIRECT) /\ g.owed[f] = {DIRECT + 1}
        /\ In(g, b, f) /\ g.up[b] = <<"i", f, DIRECT + 1>> /\ g.done[b] = k /\ k \in 0..PER
        /\ b \in g.here /\ b \in Block
    BY <1>2, <2>2 DEF InDind, In
  <2>4. entry[b][k] = v /\ k \in B!Index
    BY <1>2, <1>5, <2>2, UpIs
  <2>5. PICK h : KillsEntryOnly(g, h, b, v)
    BY <2>3, GhostKillsEntry
  <2>6. /\ h.done[b] = k + 1 /\ h.here = g.here \ {v} /\ h.up = g.up
        /\ h.own = g.own /\ h.owed = g.owed /\ \A x \in Block \ {b} : h.done[x] = g.done[x]
    BY <2>3, <2>5 DEF KillsEntryOnly, KillsEntry
  <2>7. k + 1 \in 0..PER /\ b # v
    <3>1. k + 1 \in 0..PER
      BY <2>4, BlockConstants
    <3> QED BY <1>4, <2>2, <3>1
  <2>8. InDind(h, f, b, k + 1)
    BY <2>3, <2>6, <2>7 DEF InDind, In
  <2>9. Whole(h, f, {b})
    BY <1>2, <1>5, <2>2, <2>6 DEF Whole
  <2>10. AtDind(h, r, f, one, two, b, k + 1)
    BY <1>3, <2>2, <2>9 DEF AtDind
  <2>11. Truncates(h, r, f, g.one[t], g.two[t])
    BY <1>0, <2>8, <2>10, DindTruncates
  <2>12. g.done[b] \in B!Index /\ v = entry[b][g.done[b]]
    BY <2>3, <2>4
  <2> QED BY <1>4, <1>5, <1>6, <2>3, <2>5, <2>11, <2>12, EntryDone
<1> QED BY <1>3, <1>7, <1>8 DEF InInd

LEMMA FreesDind ==
  ASSUME NEW g, BlocksRight(g), NEW t \in Task, B!FreeBlock(t), NEW s, s = todo[t],
         NEW f \in File, f = file[t], g.one[t] = NULL, g.two[t] = NULL,
         NEW b, AtFreeDind(g, s, f, b)
  PROVE  BlockInv'
<1>1. B!Next1(t, "free")
  BY DEF B!FreeBlock
<1>2. /\ Forest(g) /\ NULL \notin g.here /\ g.here \subseteq Block
  BY <1>1, AtFirst
<1>3. /\ Head(s).b = b /\ Tail(s) = Clears /\ InDind(g, f, b, PER) /\ Whole(g, f, {b})
  BY ItemFields DEF AtFreeDind
<1>4. /\ Cleared(f, DIRECT) /\ g.owed[f] = {DIRECT + 1}
      /\ In(g, b, f) /\ g.up[b] = <<"i", f, DIRECT + 1>> /\ g.done[b] = PER
      /\ b \in g.here /\ b # NULL
  BY <1>2, <1>3 DEF InDind, In
<1>5. DIRECT + 1 \in g.owed[f] /\ i_zone[f][DIRECT + 1] = b
  BY <1>2, <1>4, UpIs
<1>6. Bare(g, b)
  BY <1>4 DEF Bare
<1>7. PICK r : r = Tail(todo[t])
  OBVIOUS
<1>8. Goes(t, r) /\ zmap' = zmap \ {b} /\ UNCHANGED <<i_zone, b_count>>
  BY <1>3, <1>4, <1>7, FreeBlockDoes
<1>9. PICK z : z = DIRECT + 1
  OBVIOUS
<1>10. PICK h : KillsZoneOnly(g, h, f, z, b)
  BY GhostKillsZone
<1>11. /\ h.owed[f] = g.owed[f] \ {z} /\ h.here = g.here \ {b} /\ h.own = g.own /\ h.done = g.done
  BY <1>10 DEF KillsZoneOnly, KillsZone
<1>12. h.owed[f] = {} /\ Whole(h, f, {})
  <2>1. h.owed[f] = {}
    BY <1>4, <1>9, <1>11
  <2>2. Whole(h, f, {})
    BY <1>3, <1>11 DEF Whole
  <2> QED BY <2>1, <2>2
<1>13. AtEnd(h, r, f)
  BY <1>3, <1>7, <1>12 DEF AtEnd
<1>14. Truncates(h, r, f, g.one[t], g.two[t])
  BY <1>4, <1>13 DEF Truncates
<1>15. z \in g.owed[f] /\ b = i_zone[f][z]
  BY <1>5, <1>9
<1> QED BY <1>4, <1>6, <1>8, <1>10, <1>14, <1>15, ZoneDone

LEMMA FreeBlockKeeps ==
  ASSUME BlockInv, NEW t \in Task, B!FreeBlock(t) PROVE BlockInv'
<1>1. PICK g : BlocksRight(g)
  BY DEF BlockInv
<1>2. PICK s, f, one, two : s = todo[t] /\ f = file[t] /\ one = g.one[t] /\ two = g.two[t]
  OBVIOUS
<1>3. B!Next1(t, "free")
  BY DEF B!FreeBlock
<1>4. /\ f \in File /\ Head(s).kind = "free" /\ Positions(g, s, f, one, two)
  BY <1>1, <1>2, <1>3, AtFirst
<1>5. CASE Idle(one, two) /\ \E z, v : AtFreeZone(g, s, f, z, v)
  <2>1. PICK z, v : AtFreeZone(g, s, f, z, v)
    BY <1>5
  <2>2. g.one[t] = NULL /\ g.two[t] = NULL
    BY <1>2, <1>5 DEF Idle
  <2> QED BY <1>1, <1>2, <1>4, <2>1, <2>2, FreesZone
<1>6. CASE \E v, r, X, j, w : InInd(g, f, two, v, r, X) /\ AtFreeLeaf(g, s, f, one, v, r, j, w)
  <2>1. PICK v, r, X, j, w : InInd(g, f, two, v, r, X) /\ AtFreeLeaf(g, s, f, one, v, r, j, w)
    BY <1>6
  <2>2. InInd(g, f, g.two[t], v, r, X) /\ AtFreeLeaf(g, s, f, g.one[t], v, r, j, w)
    BY <1>2, <2>1
  <2> QED BY <1>1, <1>2, <1>4, <2>2, FreesLeaf
<1>7. CASE \E v, r, X : InInd(g, f, two, v, r, X) /\ AtFreeInd(g, s, one, v, r)
  <2>1. PICK v, r, X : InInd(g, f, two, v, r, X) /\ AtFreeInd(g, s, one, v, r)
    BY <1>7
  <2>2. InInd(g, f, g.two[t], v, r, X) /\ AtFreeInd(g, s, g.one[t], v, r)
    BY <1>2, <2>1
  <2> QED BY <1>1, <1>2, <1>4, <2>2, FreesInd
<1>8. CASE Idle(one, two) /\ \E b : AtFreeDind(g, s, f, b)
  <2>1. PICK b : AtFreeDind(g, s, f, b)
    BY <1>8
  <2>2. g.one[t] = NULL /\ g.two[t] = NULL
    BY <1>2, <1>8 DEF Idle
  <2> QED BY <1>1, <1>2, <1>4, <2>1, <2>2, FreesDind
<1> QED BY <1>4, <1>5, <1>6, <1>7, <1>8 DEF Positions

LEMMA ClearDone ==
  ASSUME NEW g, BlocksRight(g), NEW t \in Task, NEW f \in File, f = file[t], NEW s, Goes(t, s),
         UNCHANGED <<zmap, b_count>>, NEW z \in B!Zone, z \notin g.owed[f],
         i_zone' = [i_zone EXCEPT ![f][z] = NULL],
         Truncates(g, s, f, g.one[t], g.two[t])'
  PROVE  BlockInv'
<1>1. /\ Forest(g) /\ BuffersCounted(g) /\ i_zone \in [File -> [B!Zone -> Block \cup {NULL}]]
  BY DEF BlocksRight, BlockTypes
<1>2. i_zone' \in [File -> [B!Zone -> Block \cup {NULL}]]
  BY <1>1
<1>3. Forest(g)'
  BY <1>1, ClearPlace DEF Goes, TruncateStays
<1>4. BuffersCounted(g)'
  BY <1>1 DEF BuffersCounted
<1>5. OnlyIn(g, g, f) /\ BuffersOf(g, g, t)
  BY DEF OnlyIn, BuffersOf
<1>6. BlocksRight(g)'
  <2>1. /\ zmap' \subseteq zmap /\ zmap \ zmap' = g.here \ g.here
        /\ \A x \in File \ {f} : i_zone'[x] = i_zone[x]
    BY <1>1
  <2> QED BY <1>2, <1>3, <1>4, <1>5, <2>1, TruncateGoesOn DEF Goes
<1> QED BY <1>6 DEF BlockInv

LEMMA PlaceClear ==
  ASSUME NEW f \in File, NEW z \in B!Zone, i_zone \in [File -> [B!Zone -> Block \cup {NULL}]],
         i_zone' = [i_zone EXCEPT ![f][z] = NULL]
  PROVE  /\ i_zone'[f][z] = NULL
         /\ \A y \in B!Zone : i_zone[f][y] = NULL => i_zone'[f][y] = NULL
         /\ \A n \in 0..DIRECT : Cleared(f, n) => Cleared(f, n)'
         /\ z \in 0..(DIRECT - 1) /\ Cleared(f, z) => Cleared(f, z + 1)'
<1>1. i_zone'[f][z] = NULL /\ \A y \in B!Zone : i_zone[f][y] = NULL => i_zone'[f][y] = NULL
  OBVIOUS
<1>2. DIRECT \in Nat /\ B!Zone = 0..(DIRECT + 1)
  BY BlockConstants
<1>3. ASSUME NEW n \in 0..DIRECT, Cleared(f, n) PROVE Cleared(f, n)'
  <2>1. \A y \in 0..(n - 1) : y \in B!Zone /\ i_zone[f][y] = NULL
    BY <1>2, <1>3 DEF Cleared
  <2> QED BY <1>1, <2>1 DEF Cleared
<1>4. ASSUME z \in 0..(DIRECT - 1), Cleared(f, z) PROVE Cleared(f, z + 1)'
  <2>1. \A y \in 0..(z + 1 - 1) : y = z \/ (y \in 0..(z - 1) /\ y \in B!Zone)
    BY <1>2, <1>4
  <2>2. \A y \in 0..(z - 1) : i_zone[f][y] = NULL
    BY <1>4 DEF Cleared
  <2>3. PICK n : n = z + 1
    OBVIOUS
  <2>4. \A y \in 0..(n - 1) : i_zone'[f][y] = NULL
    <3> TAKE y \in 0..(n - 1)
    <3>1. y = z \/ (y \in 0..(z - 1) /\ y \in B!Zone)
      BY <1>2, <1>4, <2>1, <2>3
    <3>2. CASE y = z
      BY <1>1, <3>2
    <3>3. CASE y \in 0..(z - 1) /\ y \in B!Zone
      <4>1. i_zone[f][y] = NULL
        BY <2>2, <3>3
      <4> QED BY <1>1, <3>3, <4>1
    <3> QED BY <3>1, <3>2, <3>3
  <2>5. Cleared(f, n)'
    BY <2>4 DEF Cleared
  <2> QED BY <2>3, <2>5
<1> QED BY <1>1, <1>3, <1>4

LEMMA ClearZoneKeeps ==
  ASSUME BlockInv, NEW t \in Task, B!ClearZone(t) PROVE BlockInv'
<1>1. PICK g : BlocksRight(g)
  BY DEF BlockInv
<1>2. PICK s, f, one, two : s = todo[t] /\ f = file[t] /\ one = g.one[t] /\ two = g.two[t]
  OBVIOUS
<1>3. B!Next1(t, "clear")
  BY DEF B!ClearZone
<1>4. /\ pc[t] = "truncate" /\ f \in File /\ s \in Seq(B!Item) /\ Tail(s) \in Seq(B!Item)
      /\ Head(s).kind = "clear" /\ Forest(g)
      /\ i_zone \in [File -> [B!Zone -> Block \cup {NULL}]]
      /\ Positions(g, s, f, one, two)
  BY <1>1, <1>2, <1>3, AtFirst
<1>5. one = NULL /\ two = NULL /\ ((\E z : AtClear(g, s, f, z)) \/ AtLast(g, s, f))
  BY <1>4 DEF Positions, Idle
<1>6. PICK k, r : k = Head(s).k /\ r = Tail(s)
  OBVIOUS
<1>7. /\ i_zone' = [i_zone EXCEPT ![f][k] = NULL] /\ B!Becomes(t, <<>>)
      /\ UNCHANGED <<on, zmap, entry, data, b_count, pc, B!walk, blk, panic>>
  BY <1>2, <1>6 DEF B!ClearZone
<1>8. Goes(t, r)
  <2>1. TruncateStays(t)
    BY <1>4, <1>7, StaysTruncate
  <2>2. <<>> \o r = r
    BY <1>4, <1>6, ConcatEmptySeq
  <2>3. todo' = [todo EXCEPT ![t] = r]
    BY <1>2, <1>6, <1>7, <2>2 DEF B!Becomes
  <2> QED BY <1>4, <1>6, <2>1, <2>3 DEF Goes
<1>9. DIRECT \in Nat /\ B!Zone = 0..(DIRECT + 1)
  BY BlockConstants
<1>10. /\ k \in B!Zone /\ k \notin g.owed[f]
       /\ Truncates(g, r, f, NULL, NULL)'
  <2>1. CASE \E z : AtClear(g, s, f, z)
    <3>1. PICK z : AtClear(g, s, f, z)
      BY <2>1
    <3>2. /\ z \in 0..(DIRECT - 1) /\ k = z /\ r = Rest(z + 1) /\ Cleared(f, z)
          /\ g.owed[f] = (z + 1)..(DIRECT + 1) /\ Whole(g, f, {})
      BY <1>6, <3>1, ItemFields DEF AtClear
    <3>3. k \in B!Zone /\ k \notin g.owed[f] /\ z + 1 \in 0..DIRECT
      BY <1>9, <3>2
    <3>4. Cleared(f, z + 1)'
      BY <1>4, <1>7, <3>2, <3>3, PlaceClear
    <3>5. Whole(g, f, {})'
      BY <3>2 DEF Whole
    <3>6. AtZones(g, r, f)'
      BY <3>2, <3>3, <3>4, <3>5 DEF AtZones
    <3> QED BY <3>3, <3>6 DEF Truncates
  <2>2. CASE AtLast(g, s, f)
    <3>1. g.owed[f] = {} /\ Whole(g, f, {}) /\ Cleared(f, DIRECT)
      BY <2>2 DEF AtLast
    <3>2. Whole(g, f, {})'
      BY <3>1 DEF Whole
    <3>3. /\ k \in B!Zone
          /\ \/ k = DIRECT /\ r = <<B!Do("clear", NULL, DIRECT + 1, 0)>>
             \/ k = DIRECT + 1 /\ r = <<>> /\ i_zone[f][DIRECT] = NULL
      <4>1. CASE Head(s) = B!Do("clear", NULL, DIRECT, 0) /\ s = Clears
        <5>1. k = DIRECT /\ DIRECT \in B!Zone
          BY <1>6, <1>9, <4>1, ItemFields
        <5>2. r = <<B!Do("clear", NULL, DIRECT + 1, 0)>>
          BY <1>6, <4>1, Lists
        <5> QED BY <5>1, <5>2
      <4>2. CASE /\ Head(s) = B!Do("clear", NULL, DIRECT + 1, 0) /\ Tail(s) = <<>>
                 /\ i_zone[f][DIRECT] = NULL
        <5>1. k = DIRECT + 1 /\ DIRECT + 1 \in B!Zone
          BY <1>6, <1>9, <4>2, ItemFields
        <5> QED BY <1>6, <4>2, <5>1
      <4> QED BY <2>2, <4>1, <4>2 DEF AtLast
    <3>4. DIRECT \in B!Zone /\ DIRECT \in 0..DIRECT
      BY <1>9
    <3>5. Cleared(f, DIRECT)' /\ i_zone'[f][k] = NULL
          /\ (i_zone[f][DIRECT] = NULL => i_zone'[f][DIRECT] = NULL)
      BY <1>4, <1>7, <3>1, <3>3, <3>4, PlaceClear
    <3>6. AtEnd(g, r, f)'
      <4>1. CASE k = DIRECT /\ r = <<B!Do("clear", NULL, DIRECT + 1, 0)>>
        BY <3>1, <3>2, <3>5, <4>1 DEF AtEnd
      <4>2. CASE k = DIRECT + 1 /\ r = <<>> /\ i_zone[f][DIRECT] = NULL
        BY <3>1, <3>2, <3>5, <4>2 DEF AtEnd
      <4> QED BY <3>3, <4>1, <4>2
    <3> QED BY <3>1, <3>3, <3>5, <3>6 DEF Truncates
  <2> QED BY <1>5, <2>1, <2>2
<1>11. Truncates(g, r, f, g.one[t], g.two[t])'
  BY <1>2, <1>5, <1>10
<1> QED BY <1>1, <1>2, <1>4, <1>7, <1>8, <1>10, <1>11, ClearDone

LEMMA Longer ==
  \A s \in Seq(B!Item) : \A a, b : <<a>> \o s # <<>> /\ <<a, b>> \o s # <<>>
<1> TAKE s \in Seq(B!Item)
<1> TAKE a, b
<1>1. PICK X : X = B!Item \cup {a, b}
  OBVIOUS
<1>2. s \in Seq(X) /\ a \in X /\ b \in X
  <2>1. B!Item \subseteq X
    BY <1>1
  <2> QED BY <1>1, <2>1
<1>3. PICK p, q : p = <<a>> /\ q = <<a, b>>
  OBVIOUS
<1>4. p \in Seq(X) /\ p # <<>> /\ q \in Seq(X) /\ q # <<>>
  BY <1>2, <1>3
<1>5. p \o s # <<>> /\ q \o s # <<>>
  BY <1>2, <1>4, TailOf
<1> QED BY <1>3, <1>5

LEMMA IndNotEmpty ==
  ASSUME NEW g, NEW f, NEW one, NEW v, NEW r \in Seq(B!Item), NEW s, AtInd(g, s, f, one, v, r)
  PROVE  s # <<>>
BY Longer DEF AtInd

LEMMA EmptyIsEnd ==
  ASSUME NEW g, Forest(g), zmap \subseteq Block, NEW f, NEW one, NEW two, NEW s, s = <<>>,
         Truncates(g, s, f, one, two)
  PROVE  AtEnd(g, s, f) /\ one = NULL /\ two = NULL /\ Cleared(f, DIRECT)
<1>1. ~AtZones(g, s, f)
  <2> SUFFICES ASSUME AtZones(g, s, f) PROVE FALSE
    OBVIOUS
  <2>0. DIRECT \in Nat
    BY BlockConstants
  <2>1. CASE \E z \in 0..DIRECT : s = Rest(z)
    BY <2>1, RestIs
  <2>2. CASE \E z \in 0..(DIRECT - 1) : \E v :
               s = <<B!Do("free", v, 0, 0), B!Do("clear", NULL, z, 0)>> \o Rest(z + 1)
    <3>1. PICK z \in 0..(DIRECT - 1) :
             \E v : s = <<B!Do("free", v, 0, 0), B!Do("clear", NULL, z, 0)>> \o Rest(z + 1)
      BY <2>2
    <3>2. PICK r, n : r = Rest(n) /\ n = z + 1
      OBVIOUS
    <3>3. r \in Seq(B!Item)
      <4>1. n \in 0..DIRECT
        BY <2>0, <3>2
      <4> QED BY <3>2, <4>1, RestIs
    <3> QED BY <3>1, <3>2, <3>3, Longer
  <2>3. CASE \E z \in 0..(DIRECT - 1) : s = <<B!Do("clear", NULL, z, 0)>> \o Rest(z + 1)
    <3>1. PICK z \in 0..(DIRECT - 1) : s = <<B!Do("clear", NULL, z, 0)>> \o Rest(z + 1)
      BY <2>3
    <3>2. PICK r, n : r = Rest(n) /\ n = z + 1
      OBVIOUS
    <3>3. r \in Seq(B!Item)
      <4>1. n \in 0..DIRECT
        BY <2>0, <3>2
      <4> QED BY <3>2, <4>1, RestIs
    <3> QED BY <3>1, <3>2, <3>3, Longer
  <2> QED BY <2>1, <2>2, <2>3 DEF AtZones
<1>2. ~AtRoot1(g, s, f, one)
  <2> SUFFICES ASSUME NEW v, AtInd(g, s, f, one, v, Root2) PROVE FALSE
    BY DEF AtRoot1
  <2>1. Root2 \in Seq(B!Item)
    BY Lists
  <2> QED BY <2>1, IndNotEmpty
<1>3. ~AtRoot2(g, s, f, one, two)
  <2> SUFFICES ASSUME AtRoot2(g, s, f, one, two) PROVE FALSE
    OBVIOUS
  <2>0. Clears \in Seq(B!Item) /\ Root2 # <<>>
    BY Lists
  <2>1. CASE s = Root2 \/ s = <<B!Do("tree", i_zone[f][DIRECT + 1], 0, 2)>> \o Clears
    BY <2>0, <2>1, Longer
  <2>2. ASSUME NEW b \in g.here, NEW k \in 0..PER, AtDind(g, s, f, one, two, b, k)
        PROVE  FALSE
    <3>1. s # <<B!Do("scan", b, k, 2)>> \o Clears /\ s # <<B!Do("free", b, 0, 0)>> \o Clears
      BY <2>0, Longer
    <3>2. PICK a, r : a = B!Do("scan", b, k + 1, 2) /\ r = <<a>> \o Clears
      OBVIOUS
    <3>3. PICK v \in g.here : In(g, v, f) /\ AtInd(g, s, f, one, v, r)
      BY <2>2, <3>1, <3>2 DEF AtDind
    <3>4. r \in Seq(B!Item)
      <4>1. b \in Block
        BY DEF Forest
      <4>2. k + 1 \in Nat /\ 2 \in 0..2
        BY BlockConstants
      <4>3. a \in B!Item
        BY <3>2, <4>1, <4>2, ItemFields
      <4> QED BY <2>0, <3>2, <4>3, Items
    <3> QED BY <3>3, <3>4, IndNotEmpty
  <2> QED BY <2>1, <2>2 DEF AtRoot2
<1> QED BY <1>1, <1>2, <1>3 DEF Truncates

\* truncate() is done with file f: all of its places count again.
Revives(g, h, f) ==
    /\ h.here = g.here /\ h.up = g.up /\ h.own = g.own /\ h.lvl = g.lvl /\ h.done = g.done
    /\ h.one = g.one /\ h.two = g.two
    /\ h.owed[f] = B!Zone /\ \A x \in File \ {f} : h.owed[x] = g.owed[x]

LEMMA GhostRevives ==
  ASSUME NEW g, NEW f \in File PROVE \E h : Revives(g, h, f)
<1>1. PICK o : o = [x \in File |-> IF x = f THEN B!Zone ELSE g.owed[x]]
  OBVIOUS
<1>2. PICK h : h = [here |-> g.here, up |-> g.up, own |-> g.own, lvl |-> g.lvl,
                    owed |-> o, done |-> g.done, one |-> g.one, two |-> g.two]
  OBVIOUS
<1>3. h.owed[f] = B!Zone /\ \A x \in File \ {f} : h.owed[x] = g.owed[x]
  BY <1>1, <1>2
<1>4. h.here = g.here /\ h.up = g.up /\ h.own = g.own /\ h.lvl = g.lvl /\ h.done = g.done
      /\ h.one = g.one /\ h.two = g.two
  BY <1>2
<1> QED BY <1>3, <1>4 DEF Revives

LEMMA TruncatedKeeps ==
  ASSUME BlockInv, NEW t \in Task, B!Truncated(t) PROVE BlockInv'
<1>1. PICK g : BlocksRight(g)
  BY DEF BlockInv
<1>2. PICK f : f = file[t]
  OBVIOUS
<1>3. /\ pc[t] = "truncate" /\ panic = NULL /\ todo[t] = <<>>
      /\ pc' = [pc EXCEPT ![t] = "out"] /\ file' = [file EXCEPT ![t] = NULL]
      /\ create' = [create EXCEPT ![t] = FALSE] /\ path' = [path EXCEPT ![t] = <<>>]
      /\ node' = [node EXCEPT ![t] = NULL] /\ blk' = [blk EXCEPT ![t] = NULL]
      /\ UNCHANGED <<on, zmap, i_zone, entry, data, b_count, todo, panic>>
  BY DEF B!Truncated, B!At, B!Leave
<1>4. /\ BlockTypes /\ BlocksAreTame /\ Alone /\ NewRight(g) /\ Contents(g) /\ BuffersCounted(g)
      /\ Forest(g) /\ (\A u \in Task : BlockTask(g, u)) /\ \A x \in File : FileRight(g, x)
  BY <1>1 DEF BlocksRight
<1>5. f \in File /\ f # NULL /\ Truncates(g, todo[t], f, g.one[t], g.two[t])
  BY <1>2, <1>3, <1>4, BlockConstants DEF BlockTask
<1>6. PICK s, one, two : s = todo[t] /\ one = g.one[t] /\ two = g.two[t]
  OBVIOUS
<1>7. AtEnd(g, s, f) /\ one = NULL /\ two = NULL /\ Cleared(f, DIRECT)
  <2>1. zmap \subseteq Block
    BY <1>4 DEF BlockTypes
  <2> QED BY <1>3, <1>4, <1>5, <1>6, <2>1, EmptyIsEnd
<1>8. /\ g.owed[f] = {} /\ Whole(g, f, {}) /\ s = <<>>
      /\ i_zone[f][DIRECT] = NULL /\ i_zone[f][DIRECT + 1] = NULL
  <2>1. s # Clears
    BY <1>3, <1>6, Lists
  <2>2. s # <<B!Do("clear", NULL, DIRECT + 1, 0)>>
    BY <1>3, <1>6
  <2> QED BY <1>7, <2>1, <2>2 DEF AtEnd
<1>9. \A z \in B!Zone : i_zone[f][z] = NULL
  <2> TAKE z \in B!Zone
  <2>1. z \in 0..(DIRECT - 1) \/ z = DIRECT \/ z = DIRECT + 1
    BY BlockConstants
  <2> QED BY <1>7, <1>8, <2>1 DEF Cleared
<1>10. PICK h : Revives(g, h, f)
  BY <1>5, GhostRevives
<1>11. /\ h.here = g.here /\ h.up = g.up /\ h.own = g.own /\ h.lvl = g.lvl /\ h.done = g.done
       /\ h.one = g.one /\ h.two = g.two
       /\ h.owed[f] = B!Zone /\ \A x \in File \ {f} : h.owed[x] = g.owed[x]
  BY <1>10 DEF Revives
<1>12. Forest(h)'
  BY <1>3, <1>4, <1>5, <1>9, <1>11, Revive
<1>13. /\ pc'[t] = "out" /\ file'[t] = NULL /\ create'[t] = FALSE /\ node'[t] = NULL
       /\ todo'[t] = <<>>
       /\ \A u \in Task \ {t} : /\ file'[u] = file[u] /\ create'[u] = create[u] /\ node'[u] = node[u]
                                /\ path'[u] = path[u] /\ pc'[u] = pc[u] /\ blk'[u] = blk[u]
                                /\ todo'[u] = todo[u]
  BY <1>3, <1>4 DEF BlockTypes
<1>14. BlockTypes'
  BY <1>3, <1>4 DEF BlockTypes
<1>15. BlocksAreTame' /\ Alone'
  <2>1. Alone'
    BY <1>4, <1>13, StaysAlone
  <2> QED BY <1>3, <1>4, <2>1 DEF BlocksAreTame
<1>16. Contents(h)'
  BY <1>3, <1>4, <1>11 DEF Contents
<1>17. NewRight(h)'
  BY <1>3, <1>4, <1>11, <1>13, NewStays
<1>18. BuffersCounted(h)'
  BY <1>3, <1>4, <1>11, BuffersStayCounted
<1>19. BlockTask(h, t)'
  BY <1>6, <1>7, <1>11, <1>13, IsOut
<1>20. ASSUME NEW x \in File \ {f} PROVE SameFile(g, h, x)
  BY <1>11 DEF SameFile, In
<1>21. \A x \in File : FileRight(h, x)'
  <2> TAKE x \in File
  <2>1. CASE x = f
    BY <1>8, <1>11, <2>1 DEF FileRight, Whole
  <2>2. CASE x # f
    <3>1. SameFile(g, h, x)
      BY <1>20, <2>2
    <3>2. h.owed[x] = g.owed[x] /\ (Whole(g, x, {}) => Whole(h, x, {}))
      BY <3>1, WholeStays DEF SameFile
    <3>3. FileRight(g, x)
      BY <1>4
    <3>4. (\A u \in Task : pc'[u] = "truncate" => file'[u] # x)
             => \A u \in Task : pc[u] = "truncate" => file[u] # x
      BY <1>2, <1>13, <2>2
    <3> QED BY <3>2, <3>3, <3>4 DEF FileRight
  <2> QED BY <2>1, <2>2
<1>22. ASSUME NEW u \in Task \ {t} PROVE BlockTask(h, u)'
  <2>1. BlockTask(g, u) /\ SameTask(g, h, u)
    BY <1>4, <1>11, <1>13 DEF SameTask
  <2>2. pc[u] # "out" => file[u] \in File \ {f}
    <3>1. pc[u] # "out" => file[u] \in File
      BY <1>4, <2>1, UsersIn
    <3>2. file[u] # f
      BY <1>2, <1>3, <1>4, <1>5 DEF Alone
    <3> QED BY <3>1, <3>2
  <2>3. pc[u] \in {"bmap", "new_block", "data"}
           => \A b : In(g, b, file[u]) => In(h, b, file[u]) /\ h.lvl[b] = g.lvl[b]
    BY <1>11 DEF In
  <2>4. pc[u] = "new_block" => blk[u] \in zmap' \ h.here /\ Pointer(u)' = Pointer(u)
    BY <1>3, <1>11, <1>13, <2>1 DEF BlockTask, Pointer
  <2>5. pc[u] = "truncate" => SameFile(g, h, file[u]) /\ i_zone'[file[u]] = i_zone[file[u]]
    BY <1>3, <1>20, <2>2
  <2> QED BY <2>1, <2>3, <2>4, <2>5, TaskStays
<1>23. \A u \in Task : BlockTask(h, u)'
  BY <1>19, <1>22
<1>24. BlocksRight(h)'
  BY <1>12, <1>14, <1>15, <1>16, <1>17, <1>18, <1>21, <1>23 DEF BlocksRight
<1> QED BY <1>24 DEF BlockInv

-----------------------------------------------------------------------------
(***************************************************************************)
(* Uses of blocks.                                                         *)
(***************************************************************************)
Tops(f) == {<<z, i_zone[f][z]>> : z \in {z \in B!Zone : i_zone[f][z] # NULL}}
Below(S) == {<<u, k, entry[u[Len(u)]][k]>> : u \in S, k \in B!Index}
Full(S) == {u \in S : u[Len(u)] # NULL}
Inds(f) == Full(Below({u \in Tops(f) : u[1] >= DIRECT}))
Dinds(f) == Full(Below({u \in Inds(f) : u[1][1] = DIRECT + 1}))

LEMMA UsesAre ==
  \A f : B!Uses(f) = (Tops(f) \cup Inds(f)) \cup Dinds(f)
BY DEF B!Uses, Tops, Inds, Dinds, Below, Full

TopUse(f, b, u, z) == z \in B!Zone /\ i_zone[f][z] = b /\ b # NULL /\ u = <<z, b>>

IndUse(f, b, u, z, v, k) ==
    /\ z \in B!Zone /\ z >= DIRECT /\ i_zone[f][z] = v /\ v # NULL
    /\ k \in B!Index /\ entry[v][k] = b /\ b # NULL /\ u = <<<<z, v>>, k, b>>

DindUse(f, b, u, z, v, k, w, j) ==
    /\ z \in B!Zone /\ z = DIRECT + 1 /\ i_zone[f][z] = v /\ v # NULL
    /\ k \in B!Index /\ entry[v][k] = w /\ w # NULL
    /\ j \in B!Index /\ entry[w][j] = b /\ b # NULL /\ u = <<<<<<z, v>>, k, w>>, j, b>>

LEMMA TopUses ==
  /\ \A f, u : u \in Tops(f) => \E z : TopUse(f, u[Len(u)], u, z)
  /\ \A f, b, u, z : TopUse(f, b, u, z) => u \in Tops(f) /\ u[Len(u)] = b
<1>1. ASSUME NEW f, NEW u \in Tops(f) PROVE \E z : TopUse(f, u[Len(u)], u, z)
  <2>1. PICK z \in B!Zone : i_zone[f][z] # NULL /\ u = <<z, i_zone[f][z]>>
    BY DEF Tops
  <2>2. u[Len(u)] = i_zone[f][z]
    BY <2>1
  <2> QED BY <2>1, <2>2 DEF TopUse
<1>2. ASSUME NEW f, NEW b, NEW u, NEW z, TopUse(f, b, u, z) PROVE u \in Tops(f) /\ u[Len(u)] = b
  BY <1>2 DEF TopUse, Tops
<1> QED BY <1>1, <1>2

LEMMA IndUses ==
  /\ \A f, u : u \in Inds(f) => \E z, v, k : IndUse(f, u[Len(u)], u, z, v, k)
  /\ \A f, b, u, z, v, k : IndUse(f, b, u, z, v, k) => u \in Inds(f) /\ u[Len(u)] = b
<1>1. ASSUME NEW f, NEW u \in Inds(f) PROVE \E z, v, k : IndUse(f, u[Len(u)], u, z, v, k)
  <2>1. PICK p \in Tops(f), k \in B!Index : p[1] >= DIRECT /\ u = <<p, k, entry[p[Len(p)]][k]>>
    BY DEF Inds, Full, Below
  <2>2. u[Len(u)] # NULL
    BY DEF Inds, Full
  <2>3. PICK z : TopUse(f, p[Len(p)], p, z)
    BY TopUses
  <2>4. PICK v : v = p[Len(p)]
    OBVIOUS
  <2>5. z \in B!Zone /\ i_zone[f][z] = v /\ v # NULL /\ p = <<z, v>>
    BY <2>3, <2>4 DEF TopUse
  <2>6. p[1] = z /\ u = <<p, k, entry[v][k]>>
    BY <2>1, <2>4, <2>5
  <2>7. u[Len(u)] = entry[v][k]
    BY <2>6
  <2>8. IndUse(f, u[Len(u)], u, z, v, k)
    BY <2>1, <2>2, <2>5, <2>6, <2>7 DEF IndUse
  <2> QED BY <2>8
<1>2. ASSUME NEW f, NEW b, NEW u, NEW z, NEW v, NEW k, IndUse(f, b, u, z, v, k)
      PROVE  u \in Inds(f) /\ u[Len(u)] = b
  <2>1. PICK p : p = <<z, v>>
    OBVIOUS
  <2>2. TopUse(f, v, p, z)
    BY <1>2, <2>1 DEF TopUse, IndUse
  <2>3. p \in Tops(f) /\ p[Len(p)] = v /\ p[1] = z
    BY <2>1, <2>2, TopUses
  <2>4. /\ u = <<p, k, b>> /\ entry[v][k] = b /\ k \in B!Index /\ z >= DIRECT /\ b # NULL
    BY <1>2, <2>1 DEF IndUse
  <2>5. u[Len(u)] = b
    BY <2>4
  <2>6. u \in Below({x \in Tops(f) : x[1] >= DIRECT})
    BY <2>3, <2>4 DEF Below
  <2> QED BY <2>4, <2>5, <2>6 DEF Inds, Full
<1> QED BY <1>1, <1>2

LEMMA DindUses ==
  /\ \A f, u : u \in Dinds(f) => \E z, v, k, w, j : DindUse(f, u[Len(u)], u, z, v, k, w, j)
  /\ \A f, b, u, z, v, k, w, j :
        DindUse(f, b, u, z, v, k, w, j) => u \in Dinds(f) /\ u[Len(u)] = b
<1>1. ASSUME NEW f, NEW u \in Dinds(f)
      PROVE  \E z, v, k, w, j : DindUse(f, u[Len(u)], u, z, v, k, w, j)
  <2>1. PICK p \in Inds(f), j \in B!Index :
           p[1][1] = DIRECT + 1 /\ u = <<p, j, entry[p[Len(p)]][j]>>
    BY DEF Dinds, Full, Below
  <2>2. u[Len(u)] # NULL
    BY DEF Dinds, Full
  <2>3. PICK z, v, k : IndUse(f, p[Len(p)], p, z, v, k)
    BY IndUses
  <2>4. PICK w, q : w = p[Len(p)] /\ q = <<z, v>>
    OBVIOUS
  <2>5. /\ z \in B!Zone /\ i_zone[f][z] = v /\ v # NULL
        /\ k \in B!Index /\ entry[v][k] = w /\ w # NULL /\ p = <<q, k, w>>
    BY <2>3, <2>4 DEF IndUse
  <2>6. p[1] = q /\ q[1] = z /\ u = <<p, j, entry[w][j]>>
    BY <2>1, <2>4, <2>5
  <2>7. u[Len(u)] = entry[w][j]
    BY <2>6
  <2>8. z = DIRECT + 1
    BY <2>1, <2>6
  <2>9. u = <<<<<<z, v>>, k, w>>, j, u[Len(u)]>>
    BY <2>4, <2>5, <2>6, <2>7
  <2>10. DindUse(f, u[Len(u)], u, z, v, k, w, j)
    BY <2>2, <2>5, <2>7, <2>8, <2>9 DEF DindUse
  <2> QED BY <2>10
<1>2. ASSUME NEW f, NEW b, NEW u, NEW z, NEW v, NEW k, NEW w, NEW j,
             DindUse(f, b, u, z, v, k, w, j)
      PROVE  u \in Dinds(f) /\ u[Len(u)] = b
  <2>1. PICK q, p : q = <<z, v>> /\ p = <<q, k, w>>
    OBVIOUS
  <2>2. /\ z \in B!Zone /\ z = DIRECT + 1 /\ i_zone[f][z] = v /\ v # NULL
        /\ k \in B!Index /\ entry[v][k] = w /\ w # NULL
        /\ j \in B!Index /\ entry[w][j] = b /\ b # NULL /\ u = <<p, j, b>>
    BY <1>2, <2>1 DEF DindUse
  <2>3. IndUse(f, w, p, z, v, k)
    <3>1. z >= DIRECT
      BY <2>2, BlockConstants
    <3> QED BY <2>1, <2>2, <3>1 DEF IndUse
  <2>4. p \in Inds(f) /\ p[Len(p)] = w
    BY <2>3, IndUses
  <2>5. p[1] = q /\ q[1] = z
    BY <2>1
  <2>6. u[Len(u)] = b
    BY <2>2
  <2>7. u \in Below({x \in Inds(f) : x[1][1] = DIRECT + 1})
    BY <2>2, <2>4, <2>5 DEF Below
  <2> QED BY <2>2, <2>6, <2>7 DEF Dinds, Full
<1> QED BY <1>1, <1>2

\* A use of block b in file f, as the forest has it.
Hangs(g, f, b, u) ==
    \/ \E z : g.up[b] = <<"i", f, z>> /\ u = <<z, b>>
    \/ \E z, v, k : /\ g.up[b] = <<"e", v, k>> /\ g.up[v] = <<"i", f, z>>
                    /\ u = <<<<z, v>>, k, b>>
    \/ \E z, v, k, w, j : /\ g.up[b] = <<"e", w, j>> /\ g.up[w] = <<"e", v, k>>
                          /\ g.up[v] = <<"i", f, z>> /\ u = <<<<<<z, v>>, k, w>>, j, b>>

LEMMA HangsOnce ==
  ASSUME NEW g, NEW f, NEW x, NEW b, NEW u, NEW p, Hangs(g, f, b, u), Hangs(g, x, b, p)
  PROVE  f = x /\ u = p
<1>1. CASE \E z : g.up[b] = <<"i", f, z>> /\ u = <<z, b>>
  BY <1>1 DEF Hangs
<1>2. CASE \E z, v, k : /\ g.up[b] = <<"e", v, k>> /\ g.up[v] = <<"i", f, z>>
                        /\ u = <<<<z, v>>, k, b>>
  <2>1. PICK z, v, k : /\ g.up[b] = <<"e", v, k>> /\ g.up[v] = <<"i", f, z>>
                       /\ u = <<<<z, v>>, k, b>>
    BY <1>2
  <2> QED BY <2>1 DEF Hangs
<1>3. CASE \E z, v, k, w, j : /\ g.up[b] = <<"e", w, j>> /\ g.up[w] = <<"e", v, k>>
                              /\ g.up[v] = <<"i", f, z>> /\ u = <<<<<<z, v>>, k, w>>, j, b>>
  <2>1. PICK z, v, k, w, j : /\ g.up[b] = <<"e", w, j>> /\ g.up[w] = <<"e", v, k>>
                             /\ g.up[v] = <<"i", f, z>> /\ u = <<<<<<z, v>>, k, w>>, j, b>>
    BY <1>3
  <2> QED BY <2>1 DEF Hangs
<1> QED BY <1>1, <1>2, <1>3 DEF Hangs

LEMMA UseHangs ==
  ASSUME NEW g, BlocksRight(g), NEW f \in File, ~B!Truncating(f), NEW u \in B!Uses(f)
  PROVE  u[Len(u)] \in g.here /\ Hangs(g, f, u[Len(u)], u)
<1>1. Forest(g) /\ FileRight(g, f) /\ BlockTypes
  BY DEF BlocksRight
<1>2. \A t \in Task : pc[t] = "truncate" => file[t] # f
  BY DEF B!Truncating, B!In
<1>3. g.owed[f] = B!Zone /\ \A v \in g.here : g.own[v] = f => g.done[v] = 0
  BY <1>1, <1>2 DEF FileRight, Whole
<1>4. \A z \in B!Zone : i_zone[f][z] # NULL =>
         i_zone[f][z] \in g.here /\ g.up[i_zone[f][z]] = <<"i", f, z>> /\ g.own[i_zone[f][z]] = f
  BY <1>1, <1>3 DEF Forest, Leads
<1>5. \A v \in g.here : \A k \in B!Index : g.own[v] = f /\ entry[v][k] # NULL =>
         /\ entry[v][k] \in g.here /\ g.up[entry[v][k]] = <<"e", v, k>>
         /\ g.own[entry[v][k]] = f
  <2> TAKE v \in g.here
  <2> TAKE k \in B!Index
  <2>1. k >= 0
    BY BlockConstants
  <2> QED BY <1>1, <1>3, <2>1 DEF Forest, Leads
<1>6. PICK b : b = u[Len(u)]
  OBVIOUS
<1>7. CASE u \in Tops(f)
  <2>1. PICK z : TopUse(f, b, u, z)
    BY <1>6, <1>7, TopUses
  <2>2. z \in B!Zone /\ i_zone[f][z] = b /\ b # NULL /\ u = <<z, b>>
    BY <2>1 DEF TopUse
  <2>3. b \in g.here /\ g.up[b] = <<"i", f, z>>
    BY <1>4, <2>2
  <2> QED BY <1>6, <2>2, <2>3 DEF Hangs
<1>8. CASE u \in Inds(f)
  <2>1. PICK z, v, k : IndUse(f, b, u, z, v, k)
    BY <1>6, <1>8, IndUses
  <2>2. /\ z \in B!Zone /\ i_zone[f][z] = v /\ v # NULL
        /\ k \in B!Index /\ entry[v][k] = b /\ b # NULL /\ u = <<<<z, v>>, k, b>>
    BY <2>1 DEF IndUse
  <2>3. v \in g.here /\ g.up[v] = <<"i", f, z>> /\ g.own[v] = f
    BY <1>4, <2>2
  <2>4. b \in g.here /\ g.up[b] = <<"e", v, k>>
    BY <1>5, <2>2, <2>3
  <2> QED BY <1>6, <2>2, <2>3, <2>4 DEF Hangs
<1>9. CASE u \in Dinds(f)
  <2>1. PICK z, v, k, w, j : DindUse(f, b, u, z, v, k, w, j)
    BY <1>6, <1>9, DindUses
  <2>2. /\ z \in B!Zone /\ i_zone[f][z] = v /\ v # NULL
        /\ k \in B!Index /\ entry[v][k] = w /\ w # NULL
        /\ j \in B!Index /\ entry[w][j] = b /\ b # NULL /\ u = <<<<<<z, v>>, k, w>>, j, b>>
    BY <2>1 DEF DindUse
  <2>3. v \in g.here /\ g.up[v] = <<"i", f, z>> /\ g.own[v] = f
    BY <1>4, <2>2
  <2>4. w \in g.here /\ g.up[w] = <<"e", v, k>> /\ g.own[w] = f
    BY <1>5, <2>2, <2>3
  <2>5. b \in g.here /\ g.up[b] = <<"e", w, j>>
    BY <1>5, <2>2, <2>4
  <2> QED BY <1>6, <2>2, <2>3, <2>4, <2>5 DEF Hangs
<1> QED BY <1>7, <1>8, <1>9, UsesAre

\* Every block in the forest has a use: it is found by going up.
LEMMA HereIsUsed ==
  ASSUME NEW g, Forest(g), zmap \subseteq Block, NEW b \in g.here
  PROVE  \E f \in File : \E u \in B!Uses(f) : u[Len(u)] = b
<1>0. DIRECT \in Nat /\ B!Zone = 0..(DIRECT + 1)
  BY BlockConstants
<1>1. /\ NULL \notin g.here /\ \A v \in g.here : g.own[v] \in File /\ g.lvl[v] \in 0..2
  <2>1. g.here \subseteq Block
    BY DEF Forest
  <2>2. \A v \in g.here : g.own[v] \in File /\ g.lvl[v] \in 0..2
    BY DEF Forest
  <2> QED BY <2>1, <2>2, BlockConstants
<1>2. ASSUME NEW v \in g.here
      PROVE  \/ \E f \in File : \E z \in B!Zone : i_zone[f][z] = v /\ g.lvl[v] = Level(z)
             \/ \E w \in g.here : \E k \in B!Index : entry[w][k] = v /\ g.lvl[v] = g.lvl[w] - 1
  <2>1. CASE \E z \in g.owed[g.own[v]] :
               g.up[v] = <<"i", g.own[v], z>> /\ i_zone[g.own[v]][z] = v
    <3>1. PICK f, z : f = g.own[v] /\ z \in g.owed[f] /\ g.up[v] = <<"i", f, z>> /\ i_zone[f][z] = v
      BY <2>1
    <3>2. f \in File /\ z \in B!Zone
      BY <1>1, <3>1 DEF Forest
    <3>3. g.lvl[v] = Level(z)
      BY <1>1, <3>1, UpIs
    <3> QED BY <3>1, <3>2, <3>3
  <2>2. CASE \E w \in g.here : \E k \in B!Index :
               g.up[v] = <<"e", w, k>> /\ k >= g.done[w] /\ entry[w][k] = v
    <3>1. PICK w \in g.here, k \in B!Index : g.up[v] = <<"e", w, k>> /\ entry[w][k] = v
      BY <2>2
    <3>2. g.lvl[v] = g.lvl[w] - 1
      BY <1>1, <3>1, UpIs
    <3> QED BY <3>1, <3>2
  <2> QED BY <2>1, <2>2 DEF Forest
<1>3. b # NULL
  BY <1>1
<1>4. ASSUME NEW f \in File, NEW z \in B!Zone, i_zone[f][z] = b
      PROVE  \E u \in B!Uses(f) : u[Len(u)] = b
  <2>1. PICK u : u = <<z, b>>
    OBVIOUS
  <2>2. TopUse(f, b, u, z)
    BY <1>3, <1>4, <2>1 DEF TopUse
  <2> QED BY <2>2, TopUses, UsesAre
<1>5. ASSUME NEW v \in g.here, NEW k \in B!Index, entry[v][k] = b, g.lvl[b] = g.lvl[v] - 1
      PROVE  \E f \in File : \E u \in B!Uses(f) : u[Len(u)] = b
  <2>0. v # NULL
    BY <1>1
  <2>1. CASE \E f \in File : \E z \in B!Zone : i_zone[f][z] = v /\ g.lvl[v] = Level(z)
    <3>1. PICK f \in File, z \in B!Zone : i_zone[f][z] = v /\ g.lvl[v] = Level(z)
      BY <2>1
    <3>2. z >= DIRECT
      <4>1. g.lvl[v] # 0
        BY <1>1, <1>5
      <4> QED BY <1>0, <3>1, <4>1 DEF Level
    <3>3. PICK u : u = <<<<z, v>>, k, b>>
      OBVIOUS
    <3>4. IndUse(f, b, u, z, v, k)
      BY <1>3, <1>5, <2>0, <3>1, <3>2, <3>3 DEF IndUse
    <3> QED BY <3>4, IndUses, UsesAre
  <2>2. CASE \E w \in g.here : \E j \in B!Index : entry[w][j] = v /\ g.lvl[v] = g.lvl[w] - 1
    <3>1. PICK w \in g.here, j \in B!Index : entry[w][j] = v /\ g.lvl[v] = g.lvl[w] - 1
      BY <2>2
    <3>2. g.lvl[w] = 2 /\ w # NULL
      BY <1>1, <1>5, <3>1
    <3>3. ~\E x \in g.here : \E n \in B!Index : entry[x][n] = w /\ g.lvl[w] = g.lvl[x] - 1
      BY <1>1, <3>2
    <3>4. PICK f \in File, z \in B!Zone : i_zone[f][z] = w /\ g.lvl[w] = Level(z)
      BY <1>2, <3>3
    <3>5. z = DIRECT + 1
      BY <1>0, <3>2, <3>4 DEF Level
    <3>6. PICK u : u = <<<<<<z, w>>, j, v>>, k, b>>
      OBVIOUS
    <3>7. DindUse(f, b, u, z, w, j, v, k)
      BY <1>3, <1>5, <2>0, <3>1, <3>2, <3>4, <3>5, <3>6 DEF DindUse
    <3> QED BY <3>7, DindUses, UsesAre
  <2> QED BY <1>2, <2>1, <2>2
<1> QED BY <1>2, <1>4, <1>5

LEMMA UsesOfAre ==
  /\ \A p : p \in B!AllUses => p[1] \in File /\ p[2] \in B!Uses(p[1]) /\ p = <<p[1], p[2]>>
  /\ \A f \in File : \A u \in B!Uses(f) : <<f, u>> \in B!AllUses
BY DEF B!AllUses

LEMMA NoneIsLost ==
  ASSUME BlockInv PROVE B!NoBlockIsLost
<1>1. PICK g : BlocksRight(g)
  BY DEF BlockInv
<1>2. Forest(g) /\ NewRight(g) /\ zmap \subseteq Block
  BY <1>1 DEF BlocksRight, BlockTypes
<1>3. \A b \in zmap : B!UsesOf(b) # {} \/ B!New(b) # {}
  <2> TAKE b \in zmap
  <2>1. CASE b \in g.here
    <3>1. PICK f \in File : \E u \in B!Uses(f) : u[Len(u)] = b
      BY <1>2, <2>1, HereIsUsed
    <3>2. PICK u \in B!Uses(f) : u[Len(u)] = b
      BY <3>1
    <3>3. PICK p : p = <<f, u>>
      OBVIOUS
    <3>4. p \in B!AllUses /\ p[2] = u
      BY <3>3, UsesOfAre
    <3>5. p \in B!UsesOf(b)
      BY <3>2, <3>4 DEF B!UsesOf
    <3> QED BY <3>5
  <2>2. CASE \E t \in Task : pc[t] = "new_block" /\ blk[t] = b
    BY <2>2 DEF B!New
  <2> QED BY <1>2, <2>1, <2>2 DEF NewRight
<1>4. \A p \in B!AllUses : p[2][Len(p[2])] \in zmap \/ B!Truncating(p[1])
  <2> TAKE p \in B!AllUses
  <2>1. PICK f, u : f = p[1] /\ u = p[2]
    OBVIOUS
  <2>2. f \in File /\ u \in B!Uses(f)
    BY <2>1, UsesOfAre
  <2>3. ~B!Truncating(f) => u[Len(u)] \in g.here
    BY <1>1, <2>2, UseHangs
  <2>4. ~B!Truncating(f) => u[Len(u)] \in zmap
    BY <1>2, <2>3 DEF Forest
  <2> QED BY <2>1, <2>4
<1> QED BY <1>3, <1>4 DEF B!NoBlockIsLost

LEMMA NoneOrOne ==
  ASSUME NEW S, \A x, y \in S : x = y
  PROVE  Cardinality(S) \in {0, 1} /\ (Cardinality(S) = 1 => S # {})
<1>1. CASE S = {}
  BY <1>1, FS_EmptySet
<1>2. CASE S # {}
  <2>1. PICK x \in S : S = {x}
    BY <1>2
  <2> QED BY <2>1, FS_Singleton
<1> QED BY <1>1, <1>2

LEMMA OneUse ==
  ASSUME BlockInv PROVE B!BlockHasOneUse
<1>1. PICK g : BlocksRight(g)
  BY DEF BlockInv
<1>2. NewRight(g) /\ \A t \in Task : BlockTask(g, t)
  BY <1>1 DEF BlocksRight
<1>3. SUFFICES ASSUME NEW b \in Block
               PROVE  Cardinality({u \in B!UsesOf(b) : ~B!Truncating(u[1])})
                         + Cardinality(B!New(b)) <= 1
  BY DEF B!BlockHasOneUse, B!Cardinality, Cardinality
<1>4. PICK S, N : S = {u \in B!UsesOf(b) : ~B!Truncating(u[1])} /\ N = B!New(b)
  OBVIOUS
<1>5. ASSUME NEW p \in S PROVE b \in g.here /\ Hangs(g, p[1], b, p[2]) /\ p = <<p[1], p[2]>>
  <2>1. p \in B!AllUses /\ p[2][Len(p[2])] = b /\ ~B!Truncating(p[1])
    BY <1>4, <1>5 DEF B!UsesOf
  <2>2. PICK f, u : f = p[1] /\ u = p[2]
    OBVIOUS
  <2>3. f \in File /\ u \in B!Uses(f) /\ ~B!Truncating(f) /\ p = <<p[1], p[2]>>
    BY <2>1, <2>2, UsesOfAre
  <2>4. u[Len(u)] \in g.here /\ Hangs(g, f, u[Len(u)], u)
    BY <1>1, <2>3, UseHangs
  <2> QED BY <2>1, <2>2, <2>3, <2>4
<1>6. \A p, q \in S : p = q
  <2> TAKE p, q \in S
  <2>1. p[1] = q[1] /\ p[2] = q[2]
    BY <1>5, HangsOnce
  <2> QED BY <1>5, <2>1
<1>7. \A t, u \in N : t = u
  BY <1>2, <1>4 DEF NewRight, B!New
<1>8. S = {} \/ N = {}
  <2>1. N # {} => b \notin g.here
    BY <1>2, <1>4 DEF B!New, BlockTask
  <2> QED BY <1>5, <2>1
<1>9. Cardinality(S) \in {0, 1} /\ (Cardinality(S) = 1 => S # {})
  BY <1>6, NoneOrOne
<1>10. Cardinality(N) \in {0, 1} /\ (Cardinality(N) = 1 => N # {})
  BY <1>7, NoneOrOne
<1>11. Cardinality(S) + Cardinality(N) <= 1
  BY <1>8, <1>9, <1>10
<1> QED BY <1>4, <1>11

LEMMA ReadsOwn ==
  ASSUME BlockInv PROVE B!ReadsOwnFile
<1>1. PICK g : BlocksRight(g)
  BY DEF BlockInv
<1>2. Contents(g) /\ \A t \in Task : BlockTask(g, t)
  BY <1>1 DEF BlocksRight
<1> QED BY <1>2 DEF B!ReadsOwnFile, BlockTask, Contents, In

-----------------------------------------------------------------------------
LEMMA BlockInvInit ==
  ASSUME BlocksAreTame, B!Init PROVE BlockInv
<1>1. /\ on \in BlockRegimes /\ zmap = {} /\ panic = NULL
      /\ i_zone = [f \in File |-> [z \in B!Zone |-> NULL]]
      /\ entry = [b \in Block |-> [k \in B!Index |-> NULL]]
      /\ data = [b \in Block |-> NULL] /\ b_count = [b \in Block |-> 0]
      /\ pc = [t \in Task |-> "out"] /\ file = [t \in Task |-> NULL]
      /\ create = [t \in Task |-> FALSE] /\ path = [t \in Task |-> <<>>]
      /\ node = [t \in Task |-> NULL] /\ blk = [t \in Task |-> NULL]
      /\ todo = [t \in Task |-> <<>>]
  BY DEF B!Init, B!NoEntries
<1>2. PICK none, all : none = [t \in Task |-> NULL] /\ all = [f \in File |-> B!Zone]
  OBVIOUS
<1>3. PICK g : g = [here |-> {}, up |-> {}, own |-> {}, lvl |-> {}, owed |-> all, done |-> {},
                    one |-> none, two |-> none]
  OBVIOUS
<1>4. /\ g.here = {} /\ (\A f \in File : g.owed[f] = B!Zone)
      /\ \A t \in Task : g.one[t] = NULL /\ g.two[t] = NULL
  BY <1>2, <1>3
<1>5. /\ \A f \in File : \A z \in B!Zone : i_zone[f][z] = NULL
      /\ \A t \in Task : /\ pc[t] = "out" /\ file[t] = NULL /\ node[t] = NULL /\ ~create[t]
                         /\ todo[t] = <<>>
      /\ \A b \in Block : b_count[b] = 0
  BY <1>1
<1>6. BlockTypes
  BY <1>1 DEF BlockTypes
<1>7. Forest(g)
  BY <1>4, <1>5 DEF Forest
<1>8. Contents(g) /\ NewRight(g) /\ \A f \in File : FileRight(g, f)
  BY <1>1, <1>4, <1>5 DEF Contents, NewRight, FileRight, Whole
<1>9. BuffersCounted(g)
  <2>1. IsFiniteSet(Task) /\ NULL \notin Block
    BY BlockConstants
  <2>2. PICK o, w : o = g.one /\ w = g.two
    OBVIOUS
  <2>3. \A b \in Block : Number(o, Task, b) = 0 /\ Number(w, Task, b) = 0
    <3> TAKE b \in Block
    <3>1. \A t \in Task : o[t] # b /\ w[t] # b
      BY <1>4, <2>1, <2>2
    <3> QED BY <2>1, <3>1, NumberIsNat
  <2> QED BY <1>5, <2>2, <2>3 DEF BuffersCounted
<1>10. Alone
  BY <1>5 DEF Alone
<1>11. \A t \in Task : BlockTask(g, t)
  BY <1>4, <1>5 DEF BlockTask
<1>12. BlocksRight(g)
  BY <1>6, <1>7, <1>8, <1>9, <1>10, <1>11 DEF BlocksRight
<1> QED BY <1>12 DEF BlockInv

LEMMA SameBlocks ==
  ASSUME BlockInv, UNCHANGED <<on, panic, pc, ofBlocks>> PROVE BlockInv'
<1>1. PICK g : BlocksRight(g)
  BY DEF BlockInv
<1>2. UNCHANGED <<on, panic, pc, zmap, i_zone, entry, data, b_count, file, create, path, node,
                  blk, todo>>
  BY DEF ofBlocks
<1>3. /\ BlockTypes /\ BlocksAreTame /\ Alone /\ NewRight(g) /\ Contents(g) /\ BuffersCounted(g)
      /\ Forest(g) /\ (\A u \in Task : BlockTask(g, u)) /\ \A x \in File : FileRight(g, x)
  BY <1>1 DEF BlocksRight
<1>4. BlockTypes' /\ BlocksAreTame' /\ Alone'
  BY <1>2, <1>3 DEF BlockTypes, BlocksAreTame, Alone
<1>5. NewRight(g)' /\ Contents(g)' /\ BuffersCounted(g)'
  BY <1>2, <1>3 DEF NewRight, Contents, BuffersCounted
<1>6. Forest(g)'
  BY <1>2, <1>3 DEF Forest
<1>7. \A x \in File : FileRight(g, x)'
  BY <1>2, <1>3 DEF FileRight
<1>8. ASSUME NEW u \in Task PROVE BlockTask(g, u)'
  <2>1. BlockTask(g, u) /\ SameTask(g, g, u)
    BY <1>2, <1>3 DEF SameTask
  <2>2. SameFile(g, g, file[u])
    BY DEF SameFile
  <2>3. pc[u] = "new_block" => blk[u] \in zmap' \ g.here /\ Pointer(u)' = Pointer(u)
    BY <1>2, <2>1 DEF BlockTask, Pointer
  <2>4. i_zone'[file[u]] = i_zone[file[u]]
    BY <1>2
  <2> QED BY <2>1, <2>2, <2>3, <2>4, TaskStays
<1>9. BlocksRight(g)'
  BY <1>4, <1>5, <1>6, <1>7, <1>8 DEF BlocksRight
<1> QED BY <1>9 DEF BlockInv

LEMMA BlockInvStep ==
  ASSUME BlockInv, B!Next PROVE BlockInv'
<1>1. PICK t \in Task :
       \/ B!ReadOrWrite(t) \/ B!Bmap(t) \/ B!HaveBlock(t) \/ B!Transfer(t)
       \/ B!Truncate(t) \/ B!TruncateZone(t) \/ B!TruncateRoot(t) \/ B!FreeTree(t)
       \/ B!FreeEntry(t) \/ B!FreeBlock(t) \/ B!ClearZone(t) \/ B!Truncated(t)
  BY DEF B!Next
<1> QED BY <1>1, ReadOrWriteKeeps, BmapKeeps, HaveBlockKeeps, TransferKeeps, TruncateKeeps,
        TruncateZoneKeeps, TruncateRootKeeps, FreeTreeKeeps, FreeEntryKeeps, FreeBlockKeeps,
        ClearZoneKeeps, TruncatedKeeps

LEMMA BlocksHold ==
  ASSUME BlocksAreTame PROVE Spec => [](part = "blocks" => BlockInv)
<1>1. Init => (part = "blocks" => BlockInv)
  <2> SUFFICES ASSUME Init, part = "blocks" PROVE BlockInv
    OBVIOUS
  <2>1. B!Init
    BY DEF Init
  <2> QED BY <2>1, BlockInvInit
<1>2. (part = "blocks" => BlockInv) /\ [Next]_vars => (part = "blocks" => BlockInv)'
  <2> SUFFICES ASSUME part = "blocks" => BlockInv, [Next]_vars, part' = "blocks"
               PROVE  BlockInv'
    OBVIOUS
  <2>1. CASE UNCHANGED vars
    <3>1. part' = part /\ UNCHANGED <<on, panic, pc, ofBlocks>>
      BY <2>1 DEF vars
    <3> QED BY <3>1, SameBlocks
  <2>2. CASE InodesStep
    BY <2>2 DEF InodesStep
  <2>3. CASE BlocksStep
    BY <2>3, BlockInvStep DEF BlocksStep
  <2>4. CASE MountsStep
    BY <2>4 DEF MountsStep
  <2>5. CASE DirsStep
    BY <2>5 DEF DirsStep
  <2> QED BY <2>1, <2>2, <2>3, <2>4, <2>5 DEF Next
<1> QED BY <1>1, <1>2, PTL DEF Spec

\* No block is in two files, twice in one, or given out twice, and none is lost: through the
\* waits of new_block() and of truncate(), the bit map and the numbers in the files agree.
THEOREM BlocksStayWhole ==
  ASSUME BlocksAreTame PROVE Spec => []BlocksAreWhole
<1>1. (part = "blocks" => BlockInv) => BlocksAreWhole
  BY OneUse, NoneIsLost DEF BlocksAreWhole
<1> QED BY <1>1, BlocksHold, PTL

\* The block that file_read() has got has what was written to this file, or nothing.
THEOREM FilesReadTheirOwn ==
  ASSUME BlocksAreTame PROVE Spec => []ReadsOwnFile
<1>1. (part = "blocks" => BlockInv) => ReadsOwnFile
  BY ReadsOwn DEF ReadsOwnFile
<1> QED BY <1>1, BlocksHold, PTL
=============================================================================
