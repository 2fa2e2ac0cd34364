---------------------------- MODULE FilesProofs ----------------------------
(***************************************************************************)
(* Proofs about the parts of the file system that MCFiles checks together, *)
(* for tables, devices, files and directories of any size.                 *)
(***************************************************************************)
EXTENDS MCFiles, SequenceTheorems, FiniteSetTheorems, TLAPS

-----------------------------------------------------------------------------
(***************************************************************************)
(* Numbers.                                                                *)
(***************************************************************************)
\* A set of natural numbers that is not empty has a least member.
LEMMA LeastNatural ==
  ASSUME NEW S \in SUBSET Nat, S # {}
  PROVE  \E m \in S : \A n \in S : m <= n
<1>1. IsWellFoundedOn(OpToRel(<, Nat), Nat)
  BY NatLessThanWellFounded
<1>2. PICK m \in S : \A n \in S : <<n, m>> \notin OpToRel(<, Nat)
  BY <1>1, WFMin
<1>3. \A n \in S : <<n, m>> \in OpToRel(<, Nat) <=> n < m
  BY DEF OpToRel
<1>4. \A n \in S : ~(n < m)
  BY <1>2, <1>3
<1>5. \A n \in S : n \in Nat
  OBVIOUS
<1>6. \A n \in S : m <= n
  BY <1>4, <1>5
<1> QED BY <1>6

\* Two disjoint sets together.
LEMMA DisjointUnion ==
  ASSUME NEW S, NEW T, IsFiniteSet(S), IsFiniteSet(T), S \cap T = {}
  PROVE  IsFiniteSet(S \cup T) /\ Cardinality(S \cup T) = Cardinality(S) + Cardinality(T)
<1>1. Cardinality(S \cap T) = 0
  BY FS_EmptySet
<1>2. Cardinality(S) \in Nat /\ Cardinality(T) \in Nat
  BY FS_CardinalityType
<1>3. /\ IsFiniteSet(S \cup T)
      /\ Cardinality(S \cup T) = Cardinality(S) + Cardinality(T) - Cardinality(S \cap T)
  BY FS_Union
<1> QED BY <1>1, <1>2, <1>3

-----------------------------------------------------------------------------
(***************************************************************************)
(* Users: who uses what is a function, and a count is a number of users.   *)
(***************************************************************************)
Number(f, S, n) == Cardinality({y \in S : f[y] = n})

LEMMA NumberIsNat ==
  ASSUME NEW S, IsFiniteSet(S), NEW f, NEW n
  PROVE  /\ Number(f, S, n) \in Nat
         /\ Number(f, S, n) = 0 <=> \A y \in S : f[y] # n
<1>1. IsFiniteSet({y \in S : f[y] = n})
  BY FS_Subset
<1> QED BY <1>1, FS_CardinalityType, FS_EmptySet DEF Number

LEMMA UsesStay ==
  ASSUME NEW S, NEW f, NEW g, \A y \in S : f[y] = g[y]
  PROVE  \A n : Number(g, S, n) = Number(f, S, n)
<1> TAKE n
<1>1. {y \in S : g[y] = n} = {y \in S : f[y] = n}
  OBVIOUS
<1> QED BY <1>1 DEF Number

SameBut(f, g, S, x) == \A y \in S \ {x} : f[y] = g[y]

\* One user changes what it uses.
LEMMA UseMoves ==
  ASSUME NEW S, IsFiniteSet(S), NEW f, NEW g, NEW x \in S,
         SameBut(f, g, S, x), NEW n
  PROVE  Number(g, S, n) = Number(f, S, n) + (IF g[x] = n THEN 1 ELSE 0)
                                           - (IF f[x] = n THEN 1 ELSE 0)
<1> DEFINE F == {y \in S : f[y] = n}
           G == {y \in S : g[y] = n}
<1>1. F \ {x} = G \ {x}
  BY DEF SameBut
<1>2. IsFiniteSet(F) /\ IsFiniteSet(G)
  BY FS_Subset
<1>3. Cardinality(F \ {x}) = IF x \in F THEN Cardinality(F) - 1 ELSE Cardinality(F)
  BY <1>2, FS_RemoveElement
<1>4. Cardinality(G \ {x}) = IF x \in G THEN Cardinality(G) - 1 ELSE Cardinality(G)
  BY <1>2, FS_RemoveElement
<1>5. Cardinality(F) \in Nat /\ Cardinality(G) \in Nat
  BY <1>2, FS_CardinalityType
<1>6. (x \in F <=> f[x] = n) /\ (x \in G <=> g[x] = n)
  OBVIOUS
<1>7. Number(f, S, n) = Cardinality(F) /\ Number(g, S, n) = Cardinality(G)
  BY DEF Number
<1>8. PICK c : c = Cardinality(F \ {x})
  OBVIOUS
<1>9. c = Cardinality(F) - (IF f[x] = n THEN 1 ELSE 0)
  BY <1>3, <1>5, <1>6, <1>8
<1>10. c = Cardinality(G) - (IF g[x] = n THEN 1 ELSE 0)
  BY <1>1, <1>4, <1>5, <1>6, <1>8
<1> HIDE DEF F, G
<1> QED BY <1>5, <1>7, <1>9, <1>10

-----------------------------------------------------------------------------
(***************************************************************************)
(* Mounts.                                                                 *)
(***************************************************************************)
LEMMA MountsFinite == IsFiniteSet(Task) /\ IsFiniteSet(M!Super) /\ NULL \notin M!Super
<1>1. M!IsFiniteSet(Task) => IsFiniteSet(Task)
  BY DEF M!IsFiniteSet, IsFiniteSet
<1> QED BY <1>1, FilesAssumption, FS_Interval DEF M!MountsAssumption, M!Super

\* The features of the run: a device is not unmounted by two tasks at once, and who waits for
\* a super block does not overtake who has taken its entry.
MountsAreTame == \A r \in MountRegimes : "two_umounts" \notin r /\ "overtaken" \notin r

\* What the tasks have open, and what their calls count for.
HeldUse == [t \in Task |-> IF t \in detached THEN NULL ELSE held[t]]
CallUse == [t \in Task |-> IF \/ pc[t] = "sync"
                              \/ sb[t] # NULL /\ pc[t] \notin {"lock", "load", "put"}
                           THEN NULL ELSE inode[t]]

UsesCounted ==
    \A n \in M!Inode : i_count[n] = Number(HeldUse, Task, n) + Number(CallUse, Task, n)
                                     + Number(s_imount, M!Super, n)

Umounts(t) == pc[t] \in {"iput", "write"} /\ dev[t] # NULL
Mounting(t) == \/ pc[t] \in {"read_super", "lock", "load"}
               \/ pc[t] \in {"change", "put", "invalidate"} /\ inode[t] # NULL

\* Who has taken an entry for a device, and who has locked one.
Takes(t) == pc[t] \in {"lock", "load"}
Locks(t) == pc[t] \in {"load", "put"}

CallRight(t) ==
    /\ pc[t] = "out" => dev[t] = NULL /\ inode[t] = NULL /\ sb[t] = NULL
    /\ pc[t] = "sync" => dev[t] = NULL /\ inode[t] \in M!Inode /\ sb[t] = NULL
    /\ pc[t] \in {"iget", "iput", "write", "read_super", "lock", "load"} => inode[t] \in Dir
    /\ pc[t] \in {"change", "put", "invalidate"} => inode[t] \in Dir \cup {NULL}
    /\ pc[t] = "umount" => inode[t] = NULL
    /\ pc[t] \in {"iget", "read_super", "umount", "change", "invalidate"} =>
          dev[t] \in Dev /\ sb[t] = NULL
    /\ Takes(t) => /\ dev[t] \in Dev /\ sb[t] \in M!Super
                   /\ s_dev[sb[t]] = dev[t] /\ s_imount[sb[t]] = NULL
    /\ Locks(t) => sb[t] \in M!Super /\ s_lock[sb[t]] /\ s_imount[sb[t]] = NULL
    /\ pc[t] = "put" /\ dev[t] = NULL => inode[t] = NULL
    /\ pc[t] \in {"iput", "write"} => (dev[t] = NULL <=> sb[t] = NULL)
    /\ Umounts(t) => /\ dev[t] \in Dev /\ sb[t] \in M!Super
                     /\ s_dev[sb[t]] = dev[t] /\ s_imount[sb[t]] = inode[t]
                     /\ ~i_mount[inode[t]] /\ i_count[dev[t]] = 0
    /\ Mounting(t) => /\ ~i_mount[inode[t]]
                      /\ \A s \in M!Super : s_imount[s] # inode[t]

CallsAlone ==
    \A t, u \in Task :
       /\ Takes(t) /\ Takes(u) /\ sb[t] = sb[u] => t = u
       /\ Locks(t) /\ Locks(u) /\ sb[t] = sb[u] => t = u
       /\ Umounts(t) /\ Umounts(u) /\ dev[t] = dev[u] => t = u
       /\ Mounting(t) /\ Mounting(u) /\ inode[t] = inode[u] => t = u

\* A super block has its bit maps, once it has been read.
MapsRight ==
    \A s \in M!Super : s_dev[s] # NULL =>
       s_map[s] \/ \E t \in Task : Takes(t) /\ sb[t] = s

SupersRight ==
    /\ \A s, r \in M!Super : s_dev[s] = s_dev[r] /\ s_dev[s] # NULL => s = r
    /\ \A s, r \in M!Super : s_imount[s] = s_imount[r] /\ s_imount[s] # NULL => s = r
    /\ \A s \in M!Super : s_imount[s] # NULL =>
          /\ s_dev[s] # NULL
          /\ i_mount[s_imount[s]] \/ \E t \in Task : Umounts(t) /\ sb[t] = s
    /\ \A n \in Dir : i_mount[n] => \E s \in M!Super : s_imount[s] = n
    /\ \A d \in Dev : i_count[d] # 0 => \E s \in M!Super : s_dev[s] = d /\ s_imount[s] # NULL

MountInv ==
    /\ M!TypeOK /\ panic = NULL /\ MountsAreTame
    /\ \A t \in Task : CallRight(t)
    /\ CallsAlone /\ SupersRight /\ MapsRight /\ UsesCounted
    /\ \A t \in detached : held[t] \in Dev

LEMMA MountInvInit ==
  ASSUME M!Init, MountsAreTame PROVE MountInv
<1> USE FilesAssumption DEF M!MountsAssumption, M!Init
<1>1. M!TypeOK
  BY DEF M!TypeOK, M!Inode, M!Places
<1>2. UsesCounted
  <2> SUFFICES ASSUME NEW n \in M!Inode
               PROVE  i_count[n] = Number(HeldUse, Task, n) + Number(CallUse, Task, n)
                                   + Number(s_imount, M!Super, n)
    BY DEF UsesCounted
  <2>1. n # NULL
    BY DEF M!Inode
  <2>2. IsFiniteSet(Task) /\ IsFiniteSet(M!Super)
    BY MountsFinite
  <2>3. \A t \in Task : HeldUse[t] = NULL /\ CallUse[t] = NULL
    BY DEF HeldUse, CallUse
  <2>4. Number(HeldUse, Task, n) = 0 /\ Number(CallUse, Task, n) = 0
    BY <2>1, <2>2, <2>3, NumberIsNat
  <2>5. Number(s_imount, M!Super, n) = 0
    BY <2>1, <2>2, NumberIsNat
  <2> QED BY <2>4, <2>5
<1>3. \A t \in Task : CallRight(t)
  BY DEF CallRight, Umounts, Mounting, Takes, Locks
<1>4. CallsAlone
  BY DEF CallsAlone, Umounts, Mounting, Takes, Locks
<1>5. SupersRight /\ MapsRight
  BY DEF SupersRight, MapsRight, M!Inode
<1> QED BY <1>1, <1>2, <1>3, <1>4, <1>5 DEF MountInv

\* The maps of super blocks that stay, when nobody who has taken an entry goes on.
LEMMA MapsStay ==
  ASSUME MapsRight, UNCHANGED <<s_dev, s_map>>,
         \A u \in Task : Takes(u) => Takes(u)' /\ sb'[u] = sb[u]
  PROVE  MapsRight'
BY DEF MapsRight

\* Counts that change as their users do.
LEMMA HeldMoves ==
  ASSUME NEW t \in Task, \A u \in Task \ {t} : HeldUse'[u] = HeldUse[u]
  PROVE  \A n : Number(HeldUse', Task, n) = Number(HeldUse, Task, n)
                  + (IF HeldUse'[t] = n THEN 1 ELSE 0) - (IF HeldUse[t] = n THEN 1 ELSE 0)
<1>1. PICK f : f = HeldUse
  OBVIOUS
<1>2. PICK g : g = HeldUse'
  OBVIOUS
<1>3. SameBut(f, g, Task, t)
  BY <1>1, <1>2 DEF SameBut
<1>4. ASSUME NEW n
      PROVE  Number(g, Task, n) = Number(f, Task, n)
                  + (IF g[t] = n THEN 1 ELSE 0) - (IF f[t] = n THEN 1 ELSE 0)
  BY <1>3, MountsFinite, UseMoves
<1> QED BY <1>1, <1>2, <1>4

LEMMA HeldStays ==
  ASSUME UNCHANGED <<held, detached>>
  PROVE  \A n : Number(HeldUse', Task, n) = Number(HeldUse, Task, n)
<1>1. \A u \in Task : HeldUse'[u] = HeldUse[u]
  BY DEF HeldUse
<1> QED BY <1>1, UsesStay

LEMMA CallMoves ==
  ASSUME NEW t \in Task, M!TypeOK, NEW p, NEW d, NEW i, NEW s, M!Goto(t, p, d, i, s)
  PROVE  \A n : Number(CallUse', Task, n) = Number(CallUse, Task, n)
                  + (IF CallUse'[t] = n THEN 1 ELSE 0) - (IF CallUse[t] = n THEN 1 ELSE 0)
<1>1. \A u \in Task \ {t} : CallUse'[u] = CallUse[u]
  BY DEF CallUse, M!Goto, M!TypeOK
<1>2. PICK f : f = CallUse
  OBVIOUS
<1>3. PICK g : g = CallUse'
  OBVIOUS
<1>4. SameBut(f, g, Task, t)
  BY <1>1, <1>2, <1>3 DEF SameBut
<1>5. ASSUME NEW n
      PROVE  Number(g, Task, n) = Number(f, Task, n)
                  + (IF g[t] = n THEN 1 ELSE 0) - (IF f[t] = n THEN 1 ELSE 0)
  BY <1>4, MountsFinite, UseMoves
<1> QED BY <1>2, <1>3, <1>5

LEMMA CallStays ==
  ASSUME UNCHANGED <<pc, sb, inode>>
  PROVE  \A n : Number(CallUse', Task, n) = Number(CallUse, Task, n)
<1>1. \A u \in Task : CallUse'[u] = CallUse[u]
  BY DEF CallUse
<1> QED BY <1>1, UsesStay

LEMMA MountMoves ==
  ASSUME NEW s \in M!Super, SameBut(s_imount, s_imount', M!Super, s)
  PROVE  \A n : Number(s_imount', M!Super, n) = Number(s_imount, M!Super, n)
                  + (IF s_imount'[s] = n THEN 1 ELSE 0) - (IF s_imount[s] = n THEN 1 ELSE 0)
<1>1. PICK f : f = s_imount
  OBVIOUS
<1>2. PICK g : g = s_imount'
  OBVIOUS
<1>3. SameBut(f, g, M!Super, s)
  BY <1>1, <1>2
<1>4. ASSUME NEW n
      PROVE  Number(g, M!Super, n) = Number(f, M!Super, n)
                  + (IF g[s] = n THEN 1 ELSE 0) - (IF f[s] = n THEN 1 ELSE 0)
  BY <1>3, MountsFinite, UseMoves
<1> QED BY <1>1, <1>2, <1>4

LEMMA NumbersAreNat ==
  \A n : /\ Number(HeldUse, Task, n) \in Nat
         /\ Number(CallUse, Task, n) \in Nat
         /\ Number(s_imount, M!Super, n) \in Nat
BY MountsFinite, NumberIsNat

LEMMA LookUpKeepsMounts ==
  ASSUME MountInv, NEW t \in Task, M!LookUp(t) PROVE MountInv'
<1> USE FilesAssumption DEF M!MountsAssumption
<1>1. M!TypeOK /\ SupersRight /\ (\A u \in Task : CallRight(u)) /\ UsesCounted /\ MapsRight
  BY DEF MountInv
<1>2. PICK n \in Dir :
        /\ ~i_lock[n]
        /\ LET on_it == {s \in M!Super : s_imount[s] = n}
               cross == i_mount[n] /\ on_it # {}
               found == IF cross THEN {s_dev[s] : s \in on_it} ELSE {n}
           IN  \E m \in found :
                  IF m = NULL \/ (m \in Dev /\ M!SuperOf(m) = {})
                  THEN panic' = "read_inode" /\ UNCHANGED <<i_count, held>>
                  ELSE /\ i_count' = [i_count EXCEPT ![m] = @ + 1]
                       /\ held' = [held EXCEPT ![t] = m]
                       /\ UNCHANGED panic
  BY DEF M!LookUp
<1>3. PICK m :
        /\ m = n \/ \E s \in M!Super : s_imount[s] = n /\ i_mount[n] /\ m = s_dev[s]
        /\ IF m = NULL \/ (m \in Dev /\ M!SuperOf(m) = {})
           THEN panic' = "read_inode" /\ UNCHANGED <<i_count, held>>
           ELSE /\ i_count' = [i_count EXCEPT ![m] = @ + 1]
                /\ held' = [held EXCEPT ![t] = m]
                /\ UNCHANGED panic
  BY <1>2
<1>4. \/ m = n
      \/ m \in Dev /\ i_mount[n] /\ \E s \in M!Super : s_imount[s] = n /\ s_dev[s] = m
  BY <1>1, <1>3 DEF SupersRight, M!TypeOK
<1>5. m \in M!Inode /\ m # NULL /\ ~(m \in Dev /\ M!SuperOf(m) = {})
  BY <1>4 DEF M!Inode, M!SuperOf, M!MountsAssumption
<1>6. /\ i_count' = [i_count EXCEPT ![m] = @ + 1]
      /\ held' = [held EXCEPT ![t] = m] /\ held[t] = NULL
      /\ UNCHANGED <<panic, on, s_dev, s_lock, s_imount, s_map, i_mount, i_dirt, i_lock, detached,
                     pc, dev, inode, sb, running>>
  BY <1>3, <1>5 DEF M!LookUp, M!supers, M!call
<1> HIDE FilesAssumption
<1>7. M!TypeOK'
  BY <1>1, <1>5, <1>6 DEF M!TypeOK
<1>8. \A u \in detached : held[u] \in Dev
  BY DEF MountInv
<1>9. t \notin detached
  BY <1>6, <1>8, FilesAssumption DEF M!MountsAssumption, M!Inode
<1>10. UsesCounted'
  <2>1. HeldUse'[t] = m /\ HeldUse[t] = NULL /\ \A u \in Task \ {t} : HeldUse'[u] = HeldUse[u]
    BY <1>1, <1>6, <1>9 DEF HeldUse, M!TypeOK
  <2>2. \A k : Number(HeldUse', Task, k) = Number(HeldUse, Task, k)
                  + (IF HeldUse'[t] = k THEN 1 ELSE 0) - (IF HeldUse[t] = k THEN 1 ELSE 0)
    BY <2>1, HeldMoves
  <2>3. \A k : Number(CallUse', Task, k) = Number(CallUse, Task, k)
    BY <1>6, CallStays
  <2>4. NULL \notin M!Inode
    BY FilesAssumption DEF M!MountsAssumption
  <2> SUFFICES ASSUME NEW k \in M!Inode
               PROVE  i_count'[k] = Number(HeldUse', Task, k) + Number(CallUse', Task, k)
                                    + Number(s_imount', M!Super, k)
    BY DEF UsesCounted
  <2>5. i_count'[k] = i_count[k] + IF m = k THEN 1 ELSE 0
    BY <1>1, <1>6 DEF M!TypeOK
  <2> QED BY <1>1, <1>6, <2>1, <2>2, <2>3, <2>4, <2>5, NumbersAreNat DEF UsesCounted
<1>11. \A k \in M!Inode : i_count'[k] # i_count[k] =>
                            k = m
  BY <1>1, <1>6 DEF M!TypeOK
<1>12. \A u \in Task : Umounts(u) => dev[u] # m
  <2> SUFFICES ASSUME NEW u \in Task, Umounts(u), dev[u] = m PROVE FALSE
    OBVIOUS
  <2>1. /\ m \in Dev /\ sb[u] \in M!Super /\ s_dev[sb[u]] = m
        /\ s_imount[sb[u]] = inode[u] /\ ~i_mount[inode[u]] /\ inode[u] \in Dir
    BY <1>1 DEF CallRight, Umounts
  <2>2. m # n
    BY <2>1, FilesAssumption DEF M!MountsAssumption
  <2> QED BY <1>1, <1>4, <2>1, <2>2, FilesAssumption DEF SupersRight, M!MountsAssumption, M!Inode
<1>13. \A u \in Task : CallRight(u)'
  BY <1>1, <1>6, <1>11, <1>12 DEF CallRight, Umounts, Mounting, Takes, Locks, M!Inode
<1>14. CallsAlone'
  BY <1>6 DEF MountInv, CallsAlone, Umounts, Mounting, Takes, Locks
<1>15. SupersRight'
  <2>1. m \in Dev => \E s \in M!Super : s_dev[s] = m /\ s_imount[s] # NULL
    BY <1>4, FilesAssumption DEF M!MountsAssumption, M!Inode
  <2> QED BY <1>1, <1>6, <1>11, <2>1 DEF SupersRight, Umounts, M!Inode
<1>16. \A u \in detached' : held'[u] \in Dev
  BY <1>1, <1>6, <1>8, <1>9 DEF M!TypeOK
<1>17. MapsRight'
  BY <1>1, <1>6, MapsStay DEF Takes
<1> QED BY <1>6, <1>7, <1>10, <1>13, <1>14, <1>15, <1>16, <1>17 DEF MountInv, MountsAreTame

\* The counts after the call of t has gone on to p, if nothing else changes but them.
LEMMA CountsAfterCall ==
  ASSUME MountInv, NEW t \in Task, NEW p, NEW d, NEW i, NEW s, M!Goto(t, p, d, i, s),
         UNCHANGED <<held, detached, s_imount>>,
         \A n \in M!Inode : i_count'[n] = i_count[n] + (IF CallUse'[t] = n THEN 1 ELSE 0)
                                                     - (IF CallUse[t] = n THEN 1 ELSE 0)
  PROVE  UsesCounted'
<1>1. M!TypeOK /\ UsesCounted
  BY DEF MountInv
<1>2. \A n : Number(CallUse', Task, n) = Number(CallUse, Task, n)
                  + (IF CallUse'[t] = n THEN 1 ELSE 0) - (IF CallUse[t] = n THEN 1 ELSE 0)
  BY <1>1, CallMoves
<1>3. \A n : Number(HeldUse', Task, n) = Number(HeldUse, Task, n)
  BY HeldStays
<1> SUFFICES ASSUME NEW k \in M!Inode
             PROVE  i_count'[k] = Number(HeldUse', Task, k) + Number(CallUse', Task, k)
                                  + Number(s_imount', M!Super, k)
  BY DEF UsesCounted
<1>4. i_count[k] \in Nat
  BY <1>1 DEF M!TypeOK
<1> QED BY <1>1, <1>2, <1>3, <1>4, NumbersAreNat DEF UsesCounted

\* What a task uses has a count.
LEMMA UsedIsCounted ==
  ASSUME MountInv, NEW t \in Task, NEW n \in M!Inode, HeldUse[t] = n \/ CallUse[t] = n
  PROVE  i_count[n] > 0
<1>1. IsFiniteSet(Task)
  BY MountsFinite
<1>2. PICK f : f = HeldUse
  OBVIOUS
<1>3. PICK g : g = CallUse
  OBVIOUS
<1>4. /\ f[t] = n => Number(f, Task, n) # 0
      /\ g[t] = n => Number(g, Task, n) # 0
  BY <1>1, NumberIsNat
<1> QED BY <1>2, <1>3, <1>4, NumbersAreNat DEF MountInv, UsesCounted

LEMMA ReleaseKeepsMounts ==
  ASSUME MountInv, NEW t \in Task, M!Release(t) PROVE MountInv'
<1>1. M!TypeOK /\ SupersRight /\ (\A u \in Task : CallRight(u)) /\ UsesCounted /\ MapsRight /\ CallsAlone
  BY DEF MountInv
<1>2. \A u \in detached : held[u] \in Dev
  BY DEF MountInv
<1>3. /\ pc[t] = "out" /\ held[t] \in M!Inode /\ NULL \notin M!Inode /\ Dir \cap Dev = {}
      /\ held' = [held EXCEPT ![t] = NULL] /\ detached' = detached \ {t}
      /\ UNCHANGED <<on, s_dev, s_lock, s_imount, s_map, i_mount, i_dirt, i_lock, panic>>
  BY <1>1, FilesAssumption DEF M!MountsAssumption, M!Release, M!supers, M!At, M!TypeOK
<1>4. HeldUse'[t] = NULL /\ \A u \in Task \ {t} : HeldUse'[u] = HeldUse[u]
  BY <1>1, <1>3 DEF HeldUse, M!TypeOK
<1>5. \A n : Number(HeldUse', Task, n) = Number(HeldUse, Task, n)
               + (IF HeldUse'[t] = n THEN 1 ELSE 0) - (IF HeldUse[t] = n THEN 1 ELSE 0)
  BY <1>4, HeldMoves
<1>6. \A u \in detached' : held'[u] \in Dev
  BY <1>1, <1>2, <1>3 DEF M!TypeOK
<1>7. CASE held[t] \in Dir
  <2>1. M!EndWithIput(t, held[t]) /\ UNCHANGED i_count
    BY <1>7 DEF M!Release
  <2>2. M!Goto(t, "iput", NULL, held[t], NULL)
    BY <2>1 DEF M!EndWithIput
  <2>3. HeldUse[t] = held[t] /\ CallUse[t] = NULL /\ CallUse'[t] = held[t]
    BY <1>1, <1>2, <1>3, <1>7, <2>2 DEF HeldUse, CallUse, M!Goto, M!TypeOK, CallRight
  <2>4. UsesCounted'
    <3>1. \A n : Number(CallUse', Task, n) = Number(CallUse, Task, n)
                  + (IF CallUse'[t] = n THEN 1 ELSE 0) - (IF CallUse[t] = n THEN 1 ELSE 0)
      BY <1>1, <2>2, CallMoves
    <3> SUFFICES ASSUME NEW k \in M!Inode
                 PROVE  i_count'[k] = Number(HeldUse', Task, k) + Number(CallUse', Task, k)
                                      + Number(s_imount', M!Super, k)
      BY DEF UsesCounted
    <3> QED BY <1>1, <1>3, <1>4, <1>5, <2>1, <2>3, <3>1, NumbersAreNat DEF UsesCounted
  <2>5. M!TypeOK'
    BY <1>1, <1>3, <1>7, <2>1, <2>2 DEF M!TypeOK, M!Goto, M!Places
  <2>6. /\ pc'[t] = "iput" /\ dev'[t] = NULL /\ inode'[t] = held[t] /\ sb'[t] = NULL
        /\ \A u \in Task \ {t} : /\ pc'[u] = pc[u] /\ dev'[u] = dev[u]
                                 /\ inode'[u] = inode[u] /\ sb'[u] = sb[u]
    BY <1>1, <2>2 DEF M!Goto, M!TypeOK
  <2>7. CallRight(t)'
    BY <1>3, <1>7, <2>6 DEF CallRight, Umounts, Mounting, Takes, Locks
  <2>8. \A u \in Task \ {t} : CallRight(u)'
    BY <1>1, <1>3, <2>1, <2>6 DEF CallRight, Umounts, Mounting, Takes, Locks
  <2>9. CallsAlone'
    BY <1>1, <2>6 DEF CallsAlone, Umounts, Mounting, Takes, Locks
  <2>10. SupersRight'
    BY <1>1, <1>3, <2>1, <2>6 DEF SupersRight, Umounts
  <2>11. MapsRight'
    BY <1>1, <1>3, <2>6, MapsStay DEF Takes
  <2> QED BY <1>3, <1>6, <2>4, <2>5, <2>7, <2>8, <2>9, <2>10, <2>11 DEF MountInv, MountsAreTame
<1>8. CASE held[t] \notin Dir
  <2>1. /\ held[t] \in Dev
        /\ i_count' = [i_count EXCEPT ![held[t]] = IF t \in detached THEN @ ELSE @ - 1]
        /\ UNCHANGED <<pc, dev, inode, sb, running>>
    BY <1>3, <1>8 DEF M!Release, M!Inode, M!call
  <2>2. \A n : Number(CallUse', Task, n) = Number(CallUse, Task, n)
    BY <2>1, CallStays
  <2>3. HeldUse[t] = (IF t \in detached THEN NULL ELSE held[t])
    BY DEF HeldUse
  <2>4. t \notin detached => i_count[held[t]] > 0
    BY <1>3, <2>3, UsedIsCounted
  <2>5. M!TypeOK'
    BY <1>1, <1>3, <2>1, <2>4 DEF M!TypeOK
  <2>6. \A k \in M!Inode : i_count'[k] = i_count[k] - IF HeldUse[t] = k THEN 1 ELSE 0
    BY <1>1, <1>3, <2>1, <2>3 DEF M!TypeOK
  <2>7. UsesCounted'
    <3> SUFFICES ASSUME NEW k \in M!Inode
                 PROVE  i_count'[k] = Number(HeldUse', Task, k) + Number(CallUse', Task, k)
                                      + Number(s_imount', M!Super, k)
      BY DEF UsesCounted
    <3> QED BY <1>1, <1>3, <1>4, <1>5, <2>2, <2>6, NumbersAreNat DEF UsesCounted
  <2>8. \A k \in M!Inode : i_count'[k] # 0 => i_count[k] # 0
    BY <1>1, <2>3, <2>4, <2>5, <2>6 DEF M!TypeOK
  <2>9. \A u \in Task : CallRight(u)'
    BY <1>1, <1>3, <2>1, <2>8 DEF CallRight, Umounts, Mounting, Takes, Locks, M!Inode
  <2>10. CallsAlone'
    BY <1>1, <2>1 DEF CallsAlone, Umounts, Mounting, Takes, Locks
  <2>11. SupersRight'
    BY <1>1, <1>3, <2>1, <2>8 DEF SupersRight, Umounts, M!Inode
  <2>12. MapsRight'
    BY <1>1, <1>3, <2>1, MapsStay DEF Takes
  <2> QED BY <1>3, <1>6, <2>5, <2>7, <2>9, <2>10, <2>11, <2>12 DEF MountInv, MountsAreTame
<1> QED BY <1>7, <1>8

\* The call of t after Goto, and those of the others.
LEMMA CallAfter ==
  ASSUME M!TypeOK, NEW t \in Task, NEW p, NEW d, NEW i, NEW s, M!Goto(t, p, d, i, s)
  PROVE  /\ pc'[t] = p /\ dev'[t] = d /\ inode'[t] = i /\ sb'[t] = s
         /\ \A u \in Task \ {t} : /\ pc'[u] = pc[u] /\ dev'[u] = dev[u]
                                  /\ inode'[u] = inode[u] /\ sb'[u] = sb[u]
BY DEF M!Goto, M!TypeOK

LEMMA MountConstants ==
  /\ NULL \notin M!Inode /\ NULL \notin M!Super /\ Dir \cap Dev = {} /\ NULL \notin Task
  /\ M!Inode = Dir \cup Dev
BY FilesAssumption, MountsFinite DEF M!MountsAssumption, M!Inode

LEMMA CallTypes ==
  ASSUME M!TypeOK, NEW t \in Task, NEW p, NEW d, NEW i, NEW s, M!Goto(t, p, d, i, s),
         p \in M!Places,
         d \in Dev \cup {NULL}, i \in M!Inode \cup {NULL}, s \in M!Super \cup {NULL}
  PROVE  /\ pc' \in [Task -> M!Places]
         /\ dev' \in [Task -> Dev \cup {NULL}]
         /\ inode' \in [Task -> M!Inode \cup {NULL}]
         /\ sb' \in [Task -> M!Super \cup {NULL}]
         /\ running' \in Task \cup {NULL}
BY DEF M!Goto, M!TypeOK

\* The call of t waits.
LEMMA WaitKeepsMounts ==
  ASSUME MountInv, NEW t \in Task, M!Wait(t), UNCHANGED <<on, held, detached>>
  PROVE  MountInv'
<1>1. UNCHANGED <<on, s_dev, s_lock, s_imount, s_map, i_count, i_mount, i_dirt, i_lock, held,
                  detached, pc, dev, inode, sb, panic>> /\ running' = NULL
  BY DEF M!Wait, M!supers, M!inodes
<1>2. M!TypeOK' /\ UsesCounted'
  BY <1>1, HeldStays, CallStays DEF MountInv, UsesCounted, M!TypeOK
<1> QED BY <1>1, <1>2
        DEF MountInv, MountsAreTame, CallRight, CallsAlone, SupersRight, MapsRight, Umounts, Mounting,
            Takes, Locks

LEMMA IputKeepsMounts ==
  ASSUME MountInv, NEW t \in Task, M!Iput(t) PROVE MountInv'
<1> DEFINE n == inode[t]
<1>1. M!TypeOK /\ SupersRight /\ (\A u \in Task : CallRight(u)) /\ UsesCounted /\ MapsRight /\ CallsAlone
  BY DEF MountInv
<1>2. \A u \in detached : held[u] \in Dev
  BY DEF MountInv
<1>3. pc[t] = "iput" /\ UNCHANGED <<on, held, detached>> /\ n \in Dir /\ panic = NULL
  BY <1>1 DEF M!Iput, M!At, CallRight
<1>4. (dev[t] = NULL <=> sb[t] = NULL) /\ sb[t] \in M!Super \cup {NULL}
  BY <1>1, <1>3 DEF CallRight, M!TypeOK
<1>5. CallUse[t] = (IF sb[t] = NULL THEN n ELSE NULL)
  BY <1>3 DEF CallUse
<1>6. i_count[n] > 0
  <2>1. CASE sb[t] = NULL
    BY <1>3, <1>5, <2>1, UsedIsCounted, MountConstants
  <2>2. CASE sb[t] # NULL
    <3>1. sb[t] \in M!Super /\ s_imount[sb[t]] = n
      BY <1>1, <1>3, <1>4, <2>2, MountConstants DEF CallRight, Umounts
    <3>2. PICK f : f = s_imount
      OBVIOUS
    <3>3. Number(f, M!Super, n) # 0
      BY <3>1, <3>2, MountsFinite, NumberIsNat
    <3> QED BY <1>1, <1>3, <3>2, <3>3, NumbersAreNat, MountConstants DEF UsesCounted
  <2> QED BY <2>1, <2>2
<1>7. CASE i_lock[n]
  BY <1>3, <1>7, WaitKeepsMounts DEF M!Iput
<1>8. CASE ~i_lock[n] /\ i_count[n] = 1 /\ i_dirt[n]
  <2>1. /\ i_lock' = [i_lock EXCEPT ![n] = TRUE]
        /\ M!Goto(t, "write", dev[t], n, sb[t])
        /\ UNCHANGED <<s_dev, s_lock, s_imount, s_map, i_count, i_mount, i_dirt, panic>>
    BY <1>6, <1>8 DEF M!Iput, M!supers
  <2>2. /\ pc'[t] = "write" /\ dev'[t] = dev[t] /\ inode'[t] = n /\ sb'[t] = sb[t]
        /\ \A u \in Task \ {t} : /\ pc'[u] = pc[u] /\ dev'[u] = dev[u]
                                 /\ inode'[u] = inode[u] /\ sb'[u] = sb[u]
    BY <1>1, <2>1, CallAfter
  <2>3. CallUse'[t] = CallUse[t]
    BY <1>3, <1>5, <2>2 DEF CallUse
  <2>4. UsesCounted'
    <3>1. \A k \in M!Inode : i_count'[k] = i_count[k] + (IF CallUse'[t] = k THEN 1 ELSE 0)
                                                      - (IF CallUse[t] = k THEN 1 ELSE 0)
      BY <1>1, <2>1, <2>3 DEF M!TypeOK
    <3> QED BY <1>3, <2>1, <3>1, CountsAfterCall
  <2>5. M!TypeOK'
    <3>1. dev[t] \in Dev \cup {NULL} /\ n \in M!Inode
      BY <1>1, <1>3, MountConstants DEF M!TypeOK
    <3> QED BY <1>1, <1>3, <1>4, <2>1, <3>1, CallTypes DEF M!TypeOK, M!Places
  <2>6. CallRight(t)'
    BY <1>1, <1>3, <2>1, <2>2 DEF CallRight, Umounts, Mounting, Takes, Locks
  <2>7. \A u \in Task \ {t} : CallRight(u)'
    BY <1>1, <2>1, <2>2 DEF CallRight, Umounts, Mounting, Takes, Locks
  <2>8. CallsAlone'
    BY <1>1, <1>3, <2>2 DEF CallsAlone, Umounts, Mounting, Takes, Locks
  <2>9. SupersRight'
    BY <1>1, <1>3, <2>1, <2>2 DEF SupersRight, Umounts
  <2>10. MapsRight'
    BY <1>1, <1>3, <2>1, <2>2, MapsStay DEF Takes
  <2> QED BY <1>2, <1>3, <2>1, <2>4, <2>5, <2>6, <2>7, <2>8, <2>9, <2>10
          DEF MountInv, MountsAreTame
<1>9. CASE ~i_lock[n] /\ ~(i_count[n] = 1 /\ i_dirt[n])
  <2>1. /\ i_count' = [i_count EXCEPT ![n] = @ - 1]
        /\ IF sb[t] = NULL THEN M!Return(t) /\ UNCHANGED s_imount
           ELSE /\ s_imount' = [s_imount EXCEPT ![sb[t]] = NULL]
                /\ M!Goto(t, "umount", dev[t], NULL, NULL)
        /\ UNCHANGED <<s_dev, s_lock, s_map, i_mount, i_dirt, i_lock, panic>>
    BY <1>6, <1>9 DEF M!Iput
  <2>2. PICK p, d : /\ M!Goto(t, p, d, NULL, NULL)
                    /\ IF sb[t] = NULL THEN p = "out" /\ d = NULL
                       ELSE p = "umount" /\ d = dev[t]
    BY <2>1 DEF M!Return
  <2>3. /\ pc'[t] = p /\ dev'[t] = d /\ inode'[t] = NULL /\ sb'[t] = NULL
        /\ \A u \in Task \ {t} : /\ pc'[u] = pc[u] /\ dev'[u] = dev[u]
                                 /\ inode'[u] = inode[u] /\ sb'[u] = sb[u]
    BY <1>1, <2>2, CallAfter
  <2>4. CallUse'[t] = NULL
    BY <2>3 DEF CallUse
  <2>5. \A k \in M!Inode : i_count'[k] = i_count[k] - (IF n = k THEN 1 ELSE 0)
    BY <1>1, <2>1 DEF M!TypeOK
  <2>6. i_count' \in [M!Inode -> Nat] /\ \A k \in M!Inode : i_count'[k] # 0 => i_count[k] # 0
    BY <1>1, <1>3, <1>6, <2>1, MountConstants DEF M!TypeOK
  <2>7. CASE sb[t] = NULL
    <3>1. UNCHANGED s_imount
      BY <2>1, <2>7
    <3>2. UsesCounted'
      <4>1. \A k \in M!Inode : i_count'[k] = i_count[k] + (IF CallUse'[t] = k THEN 1 ELSE 0)
                                                        - (IF CallUse[t] = k THEN 1 ELSE 0)
        BY <1>1, <1>5, <2>4, <2>5, <2>7, MountConstants DEF M!TypeOK
      <4> QED BY <1>3, <2>2, <3>1, <4>1, CountsAfterCall
    <3>3. M!TypeOK'
      <4>1. p \in M!Places /\ d \in Dev \cup {NULL}
        BY <2>2, <2>7 DEF M!Places
      <4> QED BY <1>1, <1>3, <2>1, <2>2, <2>6, <3>1, <4>1, CallTypes DEF M!TypeOK, M!Places
    <3>4. \A u \in Task : CallRight(u)'
      BY <1>1, <2>1, <2>2, <2>3, <2>6, <2>7, <3>1, MountConstants
         DEF CallRight, Umounts, Mounting, Takes, Locks
    <3>5. CallsAlone'
      BY <1>1, <2>2, <2>3, <2>7 DEF CallsAlone, Umounts, Mounting, Takes, Locks
    <3>6. SupersRight'
      BY <1>1, <1>4, <2>1, <2>3, <2>6, <2>7, <3>1, MountConstants DEF SupersRight, Umounts
    <3>7. MapsRight'
      BY <1>1, <1>3, <2>1, <2>3, MapsStay DEF Takes
    <3> QED BY <1>2, <1>3, <2>1, <3>1, <3>2, <3>3, <3>4, <3>5, <3>6, <3>7
            DEF MountInv, MountsAreTame
  <2>8. CASE sb[t] # NULL
    <3> DEFINE r == sb[t]
    <3>1. /\ r \in M!Super /\ s_imount[r] = n /\ s_dev[r] = dev[t] /\ dev[t] \in Dev
          /\ ~i_mount[n] /\ Umounts(t)
      BY <1>1, <1>3, <1>4, <2>8 DEF CallRight, Umounts
    <3>2. /\ s_imount' = [s_imount EXCEPT ![r] = NULL]
          /\ p = "umount" /\ d = dev[t]
      BY <2>1, <2>2, <2>8
    <3>3. s_imount'[r] = NULL /\ \A s \in M!Super \ {r} : s_imount'[s] = s_imount[s]
      BY <1>1, <3>1, <3>2 DEF M!TypeOK
    <3> HIDE DEF r
    <3>4. UsesCounted'
      <4>0. SameBut(s_imount, s_imount', M!Super, r)
        BY <3>3 DEF SameBut
      <4>1. \A k : Number(s_imount', M!Super, k) = Number(s_imount, M!Super, k)
                      + (IF NULL = k THEN 1 ELSE 0) - (IF s_imount[r] = k THEN 1 ELSE 0)
        BY <3>1, <3>3, <4>0, MountMoves
      <4>2. \A k : Number(CallUse', Task, k) = Number(CallUse, Task, k)
                      + (IF CallUse'[t] = k THEN 1 ELSE 0) - (IF CallUse[t] = k THEN 1 ELSE 0)
        BY <1>1, <2>2, CallMoves
      <4>3. \A k : Number(HeldUse', Task, k) = Number(HeldUse, Task, k)
        BY <1>3, HeldStays
      <4>4. CallUse[t] = NULL
        BY <1>5, <2>8
      <4> SUFFICES ASSUME NEW k \in M!Inode
                   PROVE  i_count'[k] = Number(HeldUse', Task, k) + Number(CallUse', Task, k)
                                        + Number(s_imount', M!Super, k)
        BY DEF UsesCounted
      <4> QED BY <1>1, <2>4, <2>5, <3>1, <4>1, <4>2, <4>3, <4>4, MountConstants, NumbersAreNat
              DEF UsesCounted
    <3>5. M!TypeOK'
      <4>1. p \in M!Places /\ d \in Dev \cup {NULL}
        BY <3>1, <3>2 DEF M!Places
      <4>2. s_imount' \in [M!Super -> Dir \cup {NULL}]
        BY <1>1, <3>1, <3>2 DEF M!TypeOK
      <4> QED BY <1>1, <1>3, <2>1, <2>2, <2>6, <4>1, <4>2, CallTypes DEF M!TypeOK, M!Places
    <3>6. \A u \in Task \ {t} : Umounts(u) => sb[u] # r /\ dev[u] # dev[t]
      BY <1>1, <3>1 DEF CallRight, CallsAlone, Umounts
    <3>7. CallRight(t)'
      BY <2>3, <3>1, <3>2 DEF CallRight, Umounts, Mounting, Takes, Locks
    <3>8. \A u \in Task \ {t} : CallRight(u)'
      <4> SUFFICES ASSUME NEW u \in Task \ {t} PROVE CallRight(u)'
        OBVIOUS
      <4>1. CallRight(u)
        BY <1>1
      <4>2. \A s \in M!Super : s_imount[s] # inode[u] /\ inode[u] # NULL => s_imount'[s] # inode[u]
        BY <3>3
      <4>3. Mounting(u) => inode[u] # NULL
        BY <4>1, MountConstants DEF CallRight, Mounting
      <4>4. \A s \in M!Super : s_imount[s] = NULL => s_imount'[s] = NULL
        BY <3>3
      <4> QED BY <2>1, <2>3, <2>6, <3>3, <3>6, <4>1, <4>2, <4>3, <4>4, MountConstants
              DEF CallRight, Umounts, Mounting, Takes, Locks
    <3>9. CallsAlone'
      BY <1>1, <2>3, <3>2 DEF CallsAlone, Umounts, Mounting, Takes, Locks
    <3>10. SupersRight'
      <4>1. \A s \in M!Super \ {r} : s_imount[s] # n
        BY <1>1, <1>3, <3>1, MountConstants DEF SupersRight
      <4>2. \A e \in Dev : i_count[e] # 0 => e # dev[t]
        BY <1>1, <3>1 DEF CallRight
      <4>3. \A s \in M!Super \ {r} : \A u \in Task : Umounts(u) /\ sb[u] = s =>
                                                    Umounts(u)' /\ sb'[u] = s
        BY <2>3 DEF Umounts, r
      <4> QED BY <1>1, <2>1, <2>3, <2>6, <3>1, <3>3, <4>1, <4>2, <4>3, MountConstants
              DEF SupersRight
    <3>11. MapsRight'
      BY <1>1, <1>3, <2>1, <2>3, MapsStay DEF Takes
    <3> QED BY <1>2, <1>3, <2>1, <3>4, <3>5, <3>7, <3>8, <3>9, <3>10, <3>11
            DEF MountInv, MountsAreTame
  <2> QED BY <2>7, <2>8
<1> QED BY <1>7, <1>8, <1>9

\* A step in which only the call of t goes on, and the counts with it: what is left to show
\* is that its call is right.
LEMMA CallStepKeepsMounts ==
  ASSUME MountInv, NEW t \in Task, NEW p, NEW d, NEW i, NEW s, M!Goto(t, p, d, i, s),
         UNCHANGED <<on, panic, held, detached, s_dev, s_lock, s_imount, s_map, i_mount>>,
         M!TypeOK', UsesCounted', CallRight(t)',
         \A k \in M!Inode : i_count'[k] # 0 /\ i_count[k] = 0 => k \in Dir,
         Umounts(t) <=> Umounts(t)', Umounts(t) => sb'[t] = sb[t] /\ dev'[t] = dev[t],
         Mounting(t)' /\ ~Mounting(t) =>
            \A u \in Task \ {t} : Mounting(u) => inode[u] # inode'[t],
         Mounting(t)' /\ Mounting(t) => inode'[t] = inode[t],
         ~Takes(t), ~Locks(t), ~Takes(t)', ~Locks(t)'
  PROVE  MountInv'
<1>1. M!TypeOK /\ SupersRight /\ (\A u \in Task : CallRight(u)) /\ CallsAlone
  BY DEF MountInv
<1>2. \A u \in Task \ {t} : /\ pc'[u] = pc[u] /\ dev'[u] = dev[u]
                            /\ inode'[u] = inode[u] /\ sb'[u] = sb[u]
  BY <1>1, CallAfter
<1>3. \A u \in Task \ {t} : CallRight(u)'
  <2> SUFFICES ASSUME NEW u \in Task \ {t} PROVE CallRight(u)'
    OBVIOUS
  <2>1. CallRight(u)
    BY <1>1
  <2>2. Umounts(u) => dev[u] \in Dev /\ dev[u] \in M!Inode
    BY <2>1, MountConstants DEF CallRight
  <2> QED BY <1>2, <2>1, <2>2, MountConstants DEF CallRight, Umounts, Mounting, Takes, Locks
<1>4. CallsAlone'
  BY <1>1, <1>2 DEF CallsAlone, Umounts, Mounting, Takes, Locks
<1>5. SupersRight'
  <2>1. \A r \in M!Super : \A u \in Task : Umounts(u) /\ sb[u] = r => Umounts(u)' /\ sb'[u] = r
    BY <1>2 DEF Umounts
  <2>2. \A k \in Dev : i_count'[k] # 0 => i_count[k] # 0
    BY MountConstants
  <2> QED BY <1>1, <2>1, <2>2 DEF SupersRight
<1>6. MapsRight'
  <2>1. \A u \in Task : Takes(u) => Takes(u)' /\ sb'[u] = sb[u]
    BY <1>2 DEF Takes
  <2> QED BY <2>1, MapsStay DEF MountInv
<1> QED BY <1>3, <1>4, <1>5, <1>6 DEF MountInv, MountsAreTame

LEMMA SyncKeepsMounts ==
  ASSUME MountInv, NEW t \in Task, M!Sync(t) PROVE MountInv'
<1>1. M!TypeOK /\ CallRight(t) /\ pc[t] = "out"
  BY DEF MountInv, M!Sync, M!At
<1>2. PICK n \in M!Inode : /\ i_lock' = [i_lock EXCEPT ![n] = TRUE]
                           /\ M!Goto(t, "sync", NULL, n, NULL)
  BY DEF M!Sync
<1>3. UNCHANGED <<on, s_dev, s_lock, s_imount, s_map, i_count, i_mount, i_dirt, held, detached, panic>>
  BY DEF M!Sync, M!supers
<1>4. pc'[t] = "sync" /\ dev'[t] = NULL /\ inode'[t] = n /\ sb'[t] = NULL
  BY <1>1, <1>2, CallAfter
<1>5. CallUse[t] = NULL /\ CallUse'[t] = NULL
  BY <1>1, <1>4 DEF CallUse, CallRight
<1>6. UsesCounted'
  <2>1. \A k \in M!Inode : i_count'[k] = i_count[k] + (IF CallUse'[t] = k THEN 1 ELSE 0)
                                                    - (IF CallUse[t] = k THEN 1 ELSE 0)
    BY <1>1, <1>3, <1>5 DEF M!TypeOK
  <2> QED BY <1>2, <1>3, <2>1, CountsAfterCall
<1>7. M!TypeOK'
  BY <1>1, <1>2, <1>3, CallTypes DEF M!TypeOK, M!Places
<1>8. CallRight(t)'
  BY <1>4 DEF CallRight, Umounts, Mounting, Takes, Locks
<1>9. /\ Umounts(t) <=> Umounts(t)'
      /\ Umounts(t) => sb'[t] = sb[t] /\ dev'[t] = dev[t]
      /\ ~Mounting(t)' /\ ~Takes(t) /\ ~Locks(t) /\ ~Takes(t)' /\ ~Locks(t)'
  BY <1>1, <1>4 DEF Umounts, Mounting, Takes, Locks
<1> QED BY <1>2, <1>3, <1>6, <1>7, <1>8, <1>9, CallStepKeepsMounts

LEMMA WrittenKeepsMounts ==
  ASSUME MountInv, NEW t \in Task, M!Written(t) PROVE MountInv'
<1>1. M!TypeOK /\ CallRight(t) /\ pc[t] \in {"write", "sync"}
  BY DEF MountInv, M!Written, M!At
<1>2. inode[t] \in M!Inode
  BY <1>1, MountConstants DEF CallRight
<1>3. /\ i_dirt' = [i_dirt EXCEPT ![inode[t]] = FALSE]
      /\ i_lock' = [i_lock EXCEPT ![inode[t]] = FALSE]
      /\ UNCHANGED <<on, s_dev, s_lock, s_imount, s_map, i_count, i_mount, held, detached, panic>>
  BY DEF M!Written, M!supers
<1>4. CASE pc[t] = "sync"
  <2>1. M!Goto(t, "out", NULL, NULL, NULL)
    BY <1>4 DEF M!Written, M!Return
  <2>2. pc'[t] = "out" /\ dev'[t] = NULL /\ inode'[t] = NULL /\ sb'[t] = NULL
    BY <1>1, <2>1, CallAfter
  <2>3. CallUse[t] = NULL /\ CallUse'[t] = NULL
    BY <1>4, <2>2 DEF CallUse
  <2>4. UsesCounted'
    <3>1. \A k \in M!Inode : i_count'[k] = i_count[k] + (IF CallUse'[t] = k THEN 1 ELSE 0)
                                                      - (IF CallUse[t] = k THEN 1 ELSE 0)
      BY <1>1, <1>3, <2>3 DEF M!TypeOK
    <3> QED BY <1>3, <2>1, <3>1, CountsAfterCall
  <2>5. M!TypeOK'
    BY <1>1, <1>3, <2>1, CallTypes DEF M!TypeOK, M!Places
  <2>6. CallRight(t)'
    BY <2>2 DEF CallRight, Umounts, Mounting, Takes, Locks
  <2>7. /\ Umounts(t) <=> Umounts(t)'
        /\ Umounts(t) => sb'[t] = sb[t] /\ dev'[t] = dev[t]
        /\ ~Mounting(t)' /\ ~Takes(t) /\ ~Locks(t) /\ ~Takes(t)' /\ ~Locks(t)'
    BY <1>4, <2>2 DEF Umounts, Mounting, Takes, Locks
  <2> QED BY <1>3, <2>1, <2>4, <2>5, <2>6, <2>7, CallStepKeepsMounts
<1>5. CASE pc[t] = "write"
  <2>1. M!Goto(t, "iput", dev[t], inode[t], sb[t])
    BY <1>5 DEF M!Written
  <2>2. pc'[t] = "iput" /\ dev'[t] = dev[t] /\ inode'[t] = inode[t] /\ sb'[t] = sb[t]
    BY <1>1, <2>1, CallAfter
  <2>3. CallUse'[t] = CallUse[t]
    BY <1>5, <2>2 DEF CallUse
  <2>4. UsesCounted'
    <3>1. \A k \in M!Inode : i_count'[k] = i_count[k] + (IF CallUse'[t] = k THEN 1 ELSE 0)
                                                      - (IF CallUse[t] = k THEN 1 ELSE 0)
      BY <1>1, <1>3, <2>3 DEF M!TypeOK
    <3> QED BY <1>3, <2>1, <3>1, CountsAfterCall
  <2>5. M!TypeOK'
    <3>1. dev[t] \in Dev \cup {NULL} /\ sb[t] \in M!Super \cup {NULL}
      BY <1>1 DEF M!TypeOK
    <3> QED BY <1>1, <1>2, <1>3, <2>1, <3>1, CallTypes DEF M!TypeOK, M!Places
  <2>6. CallRight(t)'
    BY <1>1, <1>3, <1>5, <2>2 DEF CallRight, Umounts, Mounting, Takes, Locks
  <2>7. /\ Umounts(t) <=> Umounts(t)'
        /\ Umounts(t) => sb'[t] = sb[t] /\ dev'[t] = dev[t]
        /\ ~Mounting(t)' /\ ~Takes(t) /\ ~Locks(t) /\ ~Takes(t)' /\ ~Locks(t)'
    BY <1>5, <2>2 DEF Umounts, Mounting, Takes, Locks
  <2> QED BY <1>3, <2>1, <2>4, <2>5, <2>6, <2>7, CallStepKeepsMounts
<1> QED BY <1>1, <1>4, <1>5

LEMMA MountKeepsMounts ==
  ASSUME MountInv, NEW t \in Task, M!Mount(t) PROVE MountInv'
<1>1. M!TypeOK /\ CallRight(t) /\ pc[t] = "out"
  BY DEF MountInv, M!Mount, M!At
<1>2. PICK n \in Dir, d \in Dev : /\ i_count' = [i_count EXCEPT ![n] = @ + 1]
                                  /\ M!Goto(t, "iget", d, n, NULL)
  BY DEF M!Mount
<1>3. UNCHANGED <<on, s_dev, s_lock, s_imount, s_map, i_mount, i_dirt, i_lock, held, detached, panic>>
  BY DEF M!Mount, M!supers
<1>4. pc'[t] = "iget" /\ dev'[t] = d /\ inode'[t] = n /\ sb'[t] = NULL
  BY <1>1, <1>2, CallAfter
<1>5. CallUse[t] = NULL /\ CallUse'[t] = n
  BY <1>1, <1>4 DEF CallUse, CallRight
<1>6. \A k \in M!Inode : i_count'[k] = i_count[k] + (IF n = k THEN 1 ELSE 0)
  BY <1>1, <1>2 DEF M!TypeOK
<1>7. UsesCounted'
  <2>1. \A k \in M!Inode : i_count'[k] = i_count[k] + (IF CallUse'[t] = k THEN 1 ELSE 0)
                                                    - (IF CallUse[t] = k THEN 1 ELSE 0)
    BY <1>1, <1>5, <1>6, MountConstants DEF M!TypeOK
  <2> QED BY <1>2, <1>3, <2>1, CountsAfterCall
<1>8. M!TypeOK'
  <2>1. n \in M!Inode
    BY MountConstants
  <2>2. i_count' \in [M!Inode -> Nat]
    BY <1>1, <1>2, <2>1 DEF M!TypeOK
  <2> QED BY <1>1, <1>2, <1>3, <2>1, <2>2, CallTypes DEF M!TypeOK, M!Places
<1>9. CallRight(t)'
  BY <1>2, <1>4, MountConstants DEF CallRight, Umounts, Mounting, Takes, Locks
<1>10. /\ Umounts(t) <=> Umounts(t)'
       /\ Umounts(t) => sb'[t] = sb[t] /\ dev'[t] = dev[t]
       /\ ~Mounting(t)' /\ ~Takes(t) /\ ~Locks(t) /\ ~Takes(t)' /\ ~Locks(t)'
  BY <1>1, <1>4 DEF Umounts, Mounting, Takes, Locks
<1>11. \A k \in M!Inode : i_count'[k] # 0 /\ i_count[k] = 0 => k \in Dir
  BY <1>1, <1>6 DEF M!TypeOK
<1> QED BY <1>2, <1>3, <1>7, <1>8, <1>9, <1>10, <1>11, CallStepKeepsMounts

LEMMA CheckDirKeepsMounts ==
  ASSUME MountInv, NEW t \in Task, M!CheckDir(t) PROVE MountInv'
<1>1. M!TypeOK /\ CallRight(t) /\ pc[t] = "iget" /\ UsesCounted /\ \A u \in Task : CallRight(u)
  BY DEF MountInv, M!CheckDir, M!At
<1>2. UNCHANGED <<on, s_dev, s_lock, s_imount, s_map, i_count, i_mount, i_dirt, i_lock, held, detached,
                  panic>>
  BY DEF M!CheckDir, M!supers, M!inodes
<1>3. /\ inode[t] \in Dir /\ dev[t] \in Dev /\ sb[t] = NULL
      /\ inode[t] \in M!Inode /\ CallUse[t] = inode[t]
  BY <1>1, MountConstants DEF CallRight, CallUse
<1>4. CASE i_count[inode[t]] # 1
  <2>1. M!Goto(t, "iput", NULL, inode[t], NULL)
    BY <1>4 DEF M!CheckDir, M!EndWithIput
  <2>2. pc'[t] = "iput" /\ dev'[t] = NULL /\ inode'[t] = inode[t] /\ sb'[t] = NULL
    BY <1>1, <2>1, CallAfter
  <2>3. CallUse'[t] = CallUse[t]
    BY <1>3, <2>2 DEF CallUse
  <2>4. UsesCounted'
    <3>1. \A k \in M!Inode : i_count'[k] = i_count[k] + (IF CallUse'[t] = k THEN 1 ELSE 0)
                                                      - (IF CallUse[t] = k THEN 1 ELSE 0)
      BY <1>1, <1>2, <2>3 DEF M!TypeOK
    <3> QED BY <1>2, <2>1, <3>1, CountsAfterCall
  <2>5. M!TypeOK'
    BY <1>1, <1>2, <1>3, <2>1, CallTypes DEF M!TypeOK, M!Places
  <2>6. CallRight(t)'
    BY <1>3, <2>2 DEF CallRight, Umounts, Mounting, Takes, Locks
  <2>7. /\ Umounts(t) <=> Umounts(t)'
        /\ Umounts(t) => sb'[t] = sb[t] /\ dev'[t] = dev[t]
        /\ ~Mounting(t)' /\ ~Takes(t) /\ ~Locks(t) /\ ~Takes(t)' /\ ~Locks(t)'
    BY <1>1, <2>2 DEF Umounts, Mounting, Takes, Locks
  <2> QED BY <1>2, <2>1, <2>4, <2>5, <2>6, <2>7, CallStepKeepsMounts
<1>5. CASE i_count[inode[t]] = 1
  <2> DEFINE n == inode[t]
  <2>1. PICK p \in {"read_super", "change"} : M!Goto(t, p, dev[t], n, NULL)
    BY <1>5 DEF M!CheckDir
  <2>2. pc'[t] = p /\ dev'[t] = dev[t] /\ inode'[t] = n /\ sb'[t] = NULL
    BY <1>1, <2>1, CallAfter
  <2>3. CallUse'[t] = CallUse[t]
    BY <1>3, <2>2 DEF CallUse
  <2>4. UsesCounted'
    <3>1. \A k \in M!Inode : i_count'[k] = i_count[k] + (IF CallUse'[t] = k THEN 1 ELSE 0)
                                                      - (IF CallUse[t] = k THEN 1 ELSE 0)
      BY <1>1, <1>2, <2>3 DEF M!TypeOK
    <3> QED BY <1>2, <2>1, <3>1, CountsAfterCall
  <2>5. M!TypeOK'
    BY <1>1, <1>2, <1>3, <2>1, CallTypes DEF M!TypeOK, M!Places
  <2>6. /\ \A s \in M!Super : s_imount[s] # n
        /\ \A u \in Task \ {t} : CallUse[u] # n
    <3>1. PICK f : f = s_imount
      OBVIOUS
    <3>2. PICK g : g = CallUse
      OBVIOUS
    <3>3. PICK h : h = [CallUse EXCEPT ![t] = NULL]
      OBVIOUS
    <3>4. SameBut(g, h, Task, t) /\ h[t] = NULL /\ g[t] = n
      BY <1>3, <3>2, <3>3 DEF SameBut, CallUse
    <3>5. IsFiniteSet(Task) /\ IsFiniteSet(M!Super)
      BY MountsFinite
    <3>6. Number(h, Task, n) = Number(g, Task, n) + (IF h[t] = n THEN 1 ELSE 0)
                                                  - (IF g[t] = n THEN 1 ELSE 0)
      BY <3>4, <3>5, UseMoves
    <3>7. Number(g, Task, n) = Number(h, Task, n) + 1
      <4>1. Number(g, Task, n) \in Nat /\ Number(h, Task, n) \in Nat
        BY <3>5, NumberIsNat
      <4> QED BY <1>3, <3>4, <3>6, <4>1, MountConstants
    <3>8. Number(h, Task, n) \in Nat /\ Number(f, M!Super, n) \in Nat
      BY <3>5, NumberIsNat
    <3>9. 1 = Number(HeldUse, Task, n) + Number(g, Task, n) + Number(f, M!Super, n)
      BY <1>1, <1>3, <1>5, <3>1, <3>2 DEF UsesCounted
    <3>10. Number(h, Task, n) = 0 /\ Number(f, M!Super, n) = 0
      BY <3>7, <3>8, <3>9, NumbersAreNat
    <3>11. (\A y \in Task : h[y] # n) /\ (\A y \in M!Super : f[y] # n)
      BY <3>5, <3>10, NumberIsNat
    <3>12. \A u \in Task \ {t} : CallUse[u] = h[u]
      BY <3>2, <3>4 DEF SameBut
    <3> QED BY <3>1, <3>11, <3>12
  <2>7. ~i_mount[n]
    BY <1>3, <2>6 DEF MountInv, SupersRight
  <2>8. CallRight(t)'
    BY <1>2, <1>3, <2>2, <2>6, <2>7 DEF CallRight, Umounts, Mounting, Takes, Locks
  <2>9. \A u \in Task \ {t} : Mounting(u) => inode[u] # n
    <3> SUFFICES ASSUME NEW u \in Task \ {t}, Mounting(u) PROVE inode[u] # n
      OBVIOUS
    <3>1. CallUse[u] = inode[u]
      BY <1>1 DEF CallRight, CallUse, Mounting
    <3> QED BY <2>6, <3>1
  <2>10. /\ Umounts(t) <=> Umounts(t)'
         /\ Umounts(t) => sb'[t] = sb[t] /\ dev'[t] = dev[t]
         /\ ~Mounting(t) /\ ~Takes(t) /\ ~Locks(t) /\ ~Takes(t)' /\ ~Locks(t)'
    BY <1>1, <2>2 DEF Umounts, Mounting, Takes, Locks
  <2> QED BY <1>2, <2>1, <2>2, <2>4, <2>5, <2>8, <2>9, <2>10, CallStepKeepsMounts
<1> QED BY <1>4, <1>5

\* s is the super block of the device, and nobody else loads it: it is mounted.
LEMMA AttachKeepsMounts ==
  ASSUME MountInv, NEW t \in Task, Mounting(t), NEW s \in M!Super, s_dev[s] = dev[t],
         s_imount[s] = NULL, ~i_mount[inode[t]], M!Attach(t, s),
         pc[t] \in {"read_super", "load"}, pc[t] = "load" => sb[t] = s,
         \A u \in Task \ {t} : Takes(u) \/ Locks(u) => sb[u] # s,
         \A u \in Task \ {t} : Locks(u) => s_lock'[sb[u]],
         s_lock' \in [M!Super -> BOOLEAN],
         s_map' \in [M!Super -> BOOLEAN], s_map'[s], \A r \in M!Super \ {s} : s_map'[r] = s_map[r],
         UNCHANGED <<on, s_dev, i_count, i_lock, held, detached, panic>>
  PROVE  MountInv'
<1> DEFINE n == inode[t]
<1>1. /\ M!TypeOK /\ SupersRight /\ (\A u \in Task : CallRight(u)) /\ UsesCounted /\ MapsRight
      /\ CallsAlone /\ \A u \in detached : held[u] \in Dev
  BY DEF MountInv
<1>2. /\ n \in Dir /\ n \in M!Inode /\ n # NULL /\ dev[t] \in Dev /\ dev[t] # NULL
      /\ \A r \in M!Super : s_imount[r] # n
  BY <1>1, MountConstants DEF CallRight, Mounting, Takes
<1>3. /\ s_imount' = [s_imount EXCEPT ![s] = n]
      /\ i_mount' = [i_mount EXCEPT ![n] = TRUE]
      /\ i_dirt' = [i_dirt EXCEPT ![n] = TRUE]
      /\ M!Goto(t, "out", NULL, NULL, NULL)
  BY DEF M!Attach, M!Return
<1>4. /\ pc'[t] = "out" /\ dev'[t] = NULL /\ inode'[t] = NULL /\ sb'[t] = NULL
      /\ \A u \in Task \ {t} : /\ pc'[u] = pc[u] /\ dev'[u] = dev[u]
                               /\ inode'[u] = inode[u] /\ sb'[u] = sb[u]
  BY <1>1, <1>3, CallAfter
<1>5. /\ s_imount'[s] = n /\ \A r \in M!Super \ {s} : s_imount'[r] = s_imount[r]
      /\ i_mount'[n] = TRUE /\ \A k \in M!Inode \ {n} : i_mount'[k] = i_mount[k]
  BY <1>1, <1>2, <1>3 DEF M!TypeOK
<1>6. M!TypeOK'
  BY <1>1, <1>2, <1>3, CallTypes DEF M!TypeOK, M!Places
<1>7. UsesCounted'
  <2>1. CallUse[t] = n /\ CallUse'[t] = NULL
    BY <1>1, <1>4 DEF CallUse, CallRight, Mounting
  <2>2. SameBut(s_imount, s_imount', M!Super, s)
    BY <1>5 DEF SameBut
  <2>3. \A k : Number(s_imount', M!Super, k) = Number(s_imount, M!Super, k)
                  + (IF n = k THEN 1 ELSE 0) - (IF s_imount[s] = k THEN 1 ELSE 0)
    BY <1>5, <2>2, MountMoves
  <2>4. \A k : Number(CallUse', Task, k) = Number(CallUse, Task, k)
                  + (IF CallUse'[t] = k THEN 1 ELSE 0) - (IF CallUse[t] = k THEN 1 ELSE 0)
    BY <1>1, <1>3, CallMoves
  <2>5. \A k : Number(HeldUse', Task, k) = Number(HeldUse, Task, k)
    BY HeldStays
  <2> SUFFICES ASSUME NEW k \in M!Inode
               PROVE  i_count'[k] = Number(HeldUse', Task, k) + Number(CallUse', Task, k)
                                    + Number(s_imount', M!Super, k)
    BY DEF UsesCounted
  <2> QED BY <1>1, <1>2, <2>1, <2>3, <2>4, <2>5, MountConstants, NumbersAreNat
          DEF UsesCounted
<1> HIDE DEF n
<1>8. CallRight(t)'
  BY <1>4 DEF CallRight, Umounts, Mounting, Takes, Locks
<1>9. \A u \in Task \ {t} : CallRight(u)'
  <2> SUFFICES ASSUME NEW u \in Task \ {t} PROVE CallRight(u)'
    OBVIOUS
  <2>1. CallRight(u)
    BY <1>1
  <2>2. Mounting(u) => inode[u] # n
    BY <1>1 DEF CallsAlone, Mounting, n
  <2>3. Umounts(u) => inode[u] # n /\ sb[u] # s
    BY <1>2, <2>1, MountConstants DEF CallRight, Umounts
  <2>4. (Takes(u) \/ Locks(u) => sb[u] # s) /\ (Locks(u) => s_lock'[sb[u]])
    OBVIOUS
  <2>5. Mounting(u) => inode[u] \in Dir /\ \A r \in M!Super : s_imount'[r] # inode[u]
    BY <1>5, <2>1, <2>2 DEF CallRight, Mounting
  <2> QED BY <1>4, <1>5, <2>1, <2>2, <2>3, <2>4, <2>5, MountConstants
          DEF CallRight, Umounts, Mounting, Takes, Locks
<1>10. CallsAlone'
  BY <1>1, <1>4 DEF CallsAlone, Umounts, Mounting, Takes, Locks
<1>11. SupersRight'
  <2>1. \A r \in M!Super : \A u \in Task : Umounts(u) /\ sb[u] = r => Umounts(u)' /\ sb'[u] = r
    BY <1>4 DEF Umounts, Mounting, Takes, Locks
  <2> QED BY <1>1, <1>2, <1>5, <2>1, MountConstants DEF SupersRight, M!TypeOK
<1>12. MapsRight'
  BY <1>1, <1>4 DEF MapsRight, Takes
<1> QED BY <1>1, <1>6, <1>7, <1>8, <1>9, <1>10, <1>11, <1>12 DEF MountInv, MountsAreTame

\* sys_mount() gives up, and puts the inode.
LEMMA GiveUpKeepsMounts ==
  ASSUME MountInv, NEW t \in Task, Mounting(t), pc[t] = "read_super",
         M!EndWithIput(t, inode[t]),
         UNCHANGED <<on, s_dev, s_lock, s_imount, s_map, i_count, i_mount, i_dirt, i_lock, held,
                     detached, panic>>
  PROVE  MountInv'
<1>1. M!TypeOK /\ CallRight(t) /\ inode[t] \in Dir /\ inode[t] \in M!Inode
  BY MountConstants DEF MountInv, CallRight, Mounting
<1>2. M!Goto(t, "iput", NULL, inode[t], NULL)
  BY DEF M!EndWithIput
<1>3. pc'[t] = "iput" /\ dev'[t] = NULL /\ inode'[t] = inode[t] /\ sb'[t] = NULL
  BY <1>1, <1>2, CallAfter
<1>4. CallUse'[t] = CallUse[t]
  BY <1>1, <1>3 DEF CallUse, CallRight
<1>5. UsesCounted'
  <2>1. \A k \in M!Inode : i_count'[k] = i_count[k] + (IF CallUse'[t] = k THEN 1 ELSE 0)
                                                    - (IF CallUse[t] = k THEN 1 ELSE 0)
    BY <1>1, <1>4 DEF M!TypeOK
  <2> QED BY <1>2, <2>1, CountsAfterCall
<1>6. M!TypeOK'
  BY <1>1, <1>2, CallTypes DEF M!TypeOK, M!Places
<1>7. CallRight(t)'
  BY <1>1, <1>3 DEF CallRight, Umounts, Mounting, Takes, Locks
<1>8. /\ Umounts(t) <=> Umounts(t)'
      /\ Umounts(t) => sb'[t] = sb[t] /\ dev'[t] = dev[t]
      /\ ~Mounting(t)' /\ ~Takes(t) /\ ~Locks(t) /\ ~Takes(t)' /\ ~Locks(t)'
  BY <1>3 DEF Umounts, Mounting, Takes, Locks
<1> QED BY <1>2, <1>5, <1>6, <1>7, <1>8, CallStepKeepsMounts

\* Nobody has taken or locked what get_super() finds without waiting.
LEMMA GotIsFree ==
  ASSUME MountInv, NEW d, M!MayGetSuper(d), NEW s \in M!SuperOf(d)
  PROVE  /\ s \in M!Super /\ s_dev[s] = d /\ ~s_lock[s]
         /\ \A u \in Task : Takes(u) \/ Locks(u) => sb[u] # s
         /\ d # NULL => s_map[s]
<1>1. /\ s \in M!Super /\ s_dev[s] = d /\ ~s_lock[s] /\ ~M!Taken(s)
  BY DEF M!SuperOf, M!MayGetSuper, MountInv, MountsAreTame, M!TypeOK
<1>2. \A u \in Task : Locks(u) => sb[u] # s
  BY <1>1 DEF MountInv, CallRight
<1>3. \A u \in Task : Takes(u) => sb[u] # s
  BY <1>1, <1>2 DEF Takes, Locks, M!Taken
<1> QED BY <1>1, <1>2, <1>3 DEF MountInv, MapsRight

LEMMA ReadSuperKeepsMounts ==
  ASSUME MountInv, NEW t \in Task, M!ReadSuper(t) PROVE MountInv'
<1>1. /\ M!TypeOK /\ SupersRight /\ (\A u \in Task : CallRight(u)) /\ UsesCounted /\ MapsRight
      /\ CallsAlone /\ \A u \in detached : held[u] \in Dev
  BY DEF MountInv
<1>2. /\ Mounting(t) /\ pc[t] = "read_super" /\ M!MayGetSuper(dev[t])
      /\ UNCHANGED <<on, s_lock, s_map, i_count, i_lock, held, detached, panic>>
  BY DEF M!ReadSuper, M!At, Mounting
<1>3. /\ inode[t] \in Dir /\ dev[t] \in Dev /\ ~i_mount[inode[t]] /\ sb[t] = NULL
      /\ inode[t] \in M!Inode /\ CallUse[t] = inode[t] /\ dev[t] # NULL
      /\ \A s \in M!Super : s_imount[s] # inode[t]
  BY <1>1, <1>2, MountConstants DEF CallRight, CallUse
<1>4. CASE M!SuperOf(dev[t]) # {}
  <2>1. PICK s \in M!SuperOf(dev[t]) : M!Attach(t, s)
    BY <1>4 DEF M!ReadSuper
  <2>2. UNCHANGED s_dev
    BY <1>4 DEF M!ReadSuper
  <2>3. /\ s \in M!Super /\ s_dev[s] = dev[t] /\ s_map[s]
        /\ \A u \in Task : Takes(u) \/ Locks(u) => sb[u] # s
    BY <1>2, <1>3, GotIsFree
  <2>4. CASE s_imount[s] # NULL
    <3>1. M!EndWithIput(t, inode[t]) /\ UNCHANGED <<s_imount, i_mount, i_dirt>>
      BY <2>1, <2>4 DEF M!Attach
    <3> QED BY <1>2, <2>2, <3>1, GiveUpKeepsMounts
  <2>5. CASE s_imount[s] = NULL
    <3>1. \A u \in Task \ {t} : Locks(u) => s_lock'[sb[u]]
      BY <1>1, <1>2 DEF CallRight
    <3>2. s_lock' \in [M!Super -> BOOLEAN] /\ s_map' \in [M!Super -> BOOLEAN]
      BY <1>1, <1>2 DEF M!TypeOK
    <3> QED BY <1>2, <1>3, <2>1, <2>2, <2>3, <2>5, <3>1, <3>2, AttachKeepsMounts
  <2> QED BY <2>4, <2>5
<1>5. CASE M!SuperOf(dev[t]) = {} /\ M!SuperOf(NULL) = {}
  <2>1. M!EndWithIput(t, inode[t]) /\ UNCHANGED <<s_dev, s_imount, i_mount, i_dirt>>
    BY <1>5 DEF M!ReadSuper
  <2> QED BY <1>2, <2>1, GiveUpKeepsMounts
<1>6. CASE M!SuperOf(dev[t]) = {} /\ M!SuperOf(NULL) # {}
  <2>1. PICK s \in M!SuperOf(NULL) : /\ s_dev' = [s_dev EXCEPT ![s] = dev[t]]
                                     /\ s_imount' = [s_imount EXCEPT ![s] = NULL]
                                     /\ M!Goto(t, "lock", dev[t], inode[t], s)
    BY <1>6 DEF M!ReadSuper
  <2>2. s \in M!Super /\ s_dev[s] = NULL /\ \A r \in M!Super : s_dev[r] # dev[t]
    BY <1>6 DEF M!SuperOf
  <2>3. UNCHANGED <<i_mount, i_dirt>>
    BY <1>6 DEF M!ReadSuper
  <2>4. s_imount[s] = NULL /\ UNCHANGED s_imount
    <3>1. s_imount[s] = NULL
      BY <1>1, <2>2 DEF SupersRight
    <3> QED BY <1>1, <2>1, <3>1 DEF M!TypeOK
  <2>5. /\ pc'[t] = "lock" /\ dev'[t] = dev[t] /\ inode'[t] = inode[t] /\ sb'[t] = s
        /\ \A u \in Task \ {t} : /\ pc'[u] = pc[u] /\ dev'[u] = dev[u]
                                 /\ inode'[u] = inode[u] /\ sb'[u] = sb[u]
    BY <1>1, <2>1, CallAfter
  <2>6. s_dev'[s] = dev[t] /\ \A r \in M!Super \ {s} : s_dev'[r] = s_dev[r]
    BY <1>1, <2>1, <2>2 DEF M!TypeOK
  <2>7. CallUse'[t] = CallUse[t]
    BY <1>3, <2>5 DEF CallUse
  <2>8. UsesCounted'
    <3>1. \A k \in M!Inode : i_count'[k] = i_count[k] + (IF CallUse'[t] = k THEN 1 ELSE 0)
                                                      - (IF CallUse[t] = k THEN 1 ELSE 0)
      BY <1>1, <1>2, <2>7 DEF M!TypeOK
    <3> QED BY <1>2, <2>1, <2>4, <3>1, CountsAfterCall
  <2>9. M!TypeOK'
    BY <1>1, <1>2, <1>3, <2>1, <2>2, <2>3, <2>4, CallTypes DEF M!TypeOK, M!Places
  <2>10. CallRight(t)'
    BY <1>3, <2>2, <2>3, <2>4, <2>5, <2>6 DEF CallRight, Umounts, Mounting, Takes, Locks
  <2>11. \A u \in Task \ {t} : Takes(u) \/ Umounts(u) => sb[u] # s
    BY <1>1, <2>2, MountConstants DEF CallRight
  <2>12. \A u \in Task \ {t} : CallRight(u)'
    <3> SUFFICES ASSUME NEW u \in Task \ {t} PROVE CallRight(u)'
      OBVIOUS
    <3>1. CallRight(u) /\ (Takes(u) \/ Umounts(u) => sb[u] # s)
      BY <1>1, <2>11
    <3> QED BY <1>2, <2>3, <2>4, <2>5, <2>6, <3>1 DEF CallRight, Umounts, Mounting, Takes, Locks
  <2>13. CallsAlone'
    BY <1>1, <1>2, <2>5, <2>11 DEF CallsAlone, Umounts, Mounting, Takes, Locks
  <2>14. SupersRight'
    <3>1. \A r \in M!Super : \A u \in Task : Umounts(u) /\ sb[u] = r => Umounts(u)' /\ sb'[u] = r
      BY <1>2, <2>5 DEF Umounts
    <3> QED BY <1>1, <1>2, <1>3, <2>2, <2>3, <2>4, <2>6, <3>1 DEF SupersRight
  <2>15. MapsRight'
    <3>1. Takes(t)' /\ \A u \in Task : Takes(u) => Takes(u)' /\ sb'[u] = sb[u]
      BY <1>2, <2>5 DEF Takes
    <3> QED BY <1>1, <1>2, <2>5, <2>6, <3>1 DEF MapsRight
  <2> QED BY <1>1, <1>2, <2>8, <2>9, <2>10, <2>12, <2>13, <2>14, <2>15 DEF MountInv, MountsAreTame
<1> QED BY <1>4, <1>5, <1>6

LEMMA LockSuperKeepsMounts ==
  ASSUME MountInv, NEW t \in Task, M!LockSuper(t) PROVE MountInv'
<1> DEFINE s == sb[t]
<1>1. /\ M!TypeOK /\ SupersRight /\ (\A u \in Task : CallRight(u)) /\ UsesCounted /\ MapsRight
      /\ CallsAlone /\ \A u \in detached : held[u] \in Dev
  BY DEF MountInv
<1>2. pc[t] = "lock" /\ UNCHANGED <<on, held, detached>>
  BY DEF M!LockSuper, M!At
<1>3. CASE s_lock[s]
  BY <1>2, <1>3, WaitKeepsMounts DEF M!LockSuper
<1>4. CASE ~s_lock[s]
  <2>1. /\ s_lock' = [s_lock EXCEPT ![s] = TRUE]
        /\ M!Goto(t, "load", dev[t], inode[t], s)
        /\ UNCHANGED <<s_dev, s_imount, s_map, i_count, i_mount, i_dirt, i_lock, panic>>
    BY <1>4 DEF M!LockSuper, M!inodes
  <2>2. /\ Takes(t) /\ ~Locks(t) /\ Mounting(t) /\ ~Umounts(t) /\ s \in M!Super
        /\ CallUse[t] = inode[t] /\ dev[t] \in Dev /\ inode[t] \in M!Inode
    BY <1>1, <1>2, MountConstants DEF CallRight, Takes, Locks, Mounting, Umounts, CallUse
  <2>3. /\ pc'[t] = "load" /\ dev'[t] = dev[t] /\ inode'[t] = inode[t] /\ sb'[t] = s
        /\ \A u \in Task \ {t} : /\ pc'[u] = pc[u] /\ dev'[u] = dev[u]
                                 /\ inode'[u] = inode[u] /\ sb'[u] = sb[u]
    BY <1>1, <2>1, CallAfter
  <2>4. s_lock'[s] = TRUE /\ \A r \in M!Super \ {s} : s_lock'[r] = s_lock[r]
    BY <1>1, <2>1, <2>2 DEF M!TypeOK
  <2>5. CallUse'[t] = CallUse[t]
    BY <2>2, <2>3 DEF CallUse
  <2>6. UsesCounted'
    <3>1. \A k \in M!Inode : i_count'[k] = i_count[k] + (IF CallUse'[t] = k THEN 1 ELSE 0)
                                                      - (IF CallUse[t] = k THEN 1 ELSE 0)
      BY <1>1, <2>1, <2>5 DEF M!TypeOK
    <3> QED BY <1>2, <2>1, <3>1, CountsAfterCall
  <2>7. M!TypeOK'
    BY <1>1, <1>2, <2>1, <2>2, CallTypes DEF M!TypeOK, M!Places
  <2>8. \A u \in Task \ {t} : Locks(u) => sb[u] # s
    BY <1>1, <1>4 DEF CallRight
  <2> HIDE DEF s
  <2>9. CallRight(t)'
    BY <1>1, <1>2, <2>1, <2>3, <2>4 DEF CallRight, Umounts, Mounting, Takes, Locks, s
  <2>10. \A u \in Task \ {t} : CallRight(u)'
    <3> SUFFICES ASSUME NEW u \in Task \ {t} PROVE CallRight(u)'
      OBVIOUS
    <3>1. CallRight(u) /\ (Locks(u) => sb[u] # s)
      BY <1>1, <2>8
    <3> QED BY <2>1, <2>3, <2>4, <3>1 DEF CallRight, Umounts, Mounting, Takes, Locks
  <2>11. CallsAlone'
    BY <1>1, <1>2, <2>3, <2>8 DEF CallsAlone, Umounts, Mounting, Takes, Locks, s
  <2>12. SupersRight'
    <3>1. \A r \in M!Super : \A u \in Task : Umounts(u) /\ sb[u] = r => Umounts(u)' /\ sb'[u] = r
      BY <1>2, <2>3 DEF Umounts
    <3> QED BY <1>1, <2>1, <3>1 DEF SupersRight
  <2>13. MapsRight'
    <3>1. \A u \in Task : Takes(u) => Takes(u)' /\ sb'[u] = sb[u]
      BY <1>2, <2>3 DEF Takes, s
    <3> QED BY <1>1, <2>1, <3>1, MapsStay
  <2> QED BY <1>1, <1>2, <2>1, <2>6, <2>7, <2>9, <2>10, <2>11, <2>12, <2>13
          DEF MountInv, MountsAreTame
<1> QED BY <1>3, <1>4

LEMMA SuperReadKeepsMounts ==
  ASSUME MountInv, NEW t \in Task, M!SuperRead(t) PROVE MountInv'
<1> DEFINE s == sb[t]
           n == inode[t]
<1>1. /\ M!TypeOK /\ SupersRight /\ (\A u \in Task : CallRight(u)) /\ UsesCounted /\ MapsRight
      /\ CallsAlone /\ \A u \in detached : held[u] \in Dev
  BY DEF MountInv
<1>2. /\ Mounting(t) /\ pc[t] = "load" /\ s_lock' = [s_lock EXCEPT ![s] = FALSE]
      /\ Takes(t) /\ Locks(t) /\ ~Umounts(t)
      /\ UNCHANGED <<on, i_count, i_lock, held, detached, panic>>
  BY DEF M!SuperRead, M!At, Mounting, Takes, Locks, Umounts
<1>3. /\ n \in Dir /\ dev[t] \in Dev /\ ~i_mount[n] /\ s \in M!Super /\ s_dev[s] = dev[t]
      /\ s_imount[s] = NULL /\ n \in M!Inode /\ CallUse[t] = n
      /\ \A r \in M!Super : s_imount[r] # n
  BY <1>1, <1>2, MountConstants DEF CallRight, CallUse
<1>4. /\ s_lock'[s] = FALSE /\ \A r \in M!Super \ {s} : s_lock'[r] = s_lock[r]
      /\ s_lock' \in [M!Super -> BOOLEAN]
  BY <1>1, <1>2, <1>3 DEF M!TypeOK
<1>5. /\ \A u \in Task \ {t} : Takes(u) \/ Locks(u) => sb[u] # s
      /\ \A u \in Task \ {t} : Locks(u) => s_lock'[sb[u]]
  <2>1. \A u \in Task \ {t} : Takes(u) \/ Locks(u) => sb[u] # s
    BY <1>1, <1>2 DEF CallsAlone
  <2> QED BY <1>1, <1>4, <2>1 DEF CallRight
<1>6. CASE M!Attach(t, s) /\ s_map' = [s_map EXCEPT ![s] = TRUE] /\ UNCHANGED s_dev
  <2>1. /\ s_map' \in [M!Super -> BOOLEAN] /\ s_map'[s]
        /\ \A r \in M!Super \ {s} : s_map'[r] = s_map[r]
    BY <1>1, <1>3, <1>6 DEF M!TypeOK
  <2> QED BY <1>2, <1>3, <1>4, <1>5, <1>6, <2>1, AttachKeepsMounts
<1>7. CASE ~(M!Attach(t, s) /\ s_map' = [s_map EXCEPT ![s] = TRUE] /\ UNCHANGED s_dev)
  <2>1. /\ s_dev' = [s_dev EXCEPT ![s] = NULL]
        /\ M!Goto(t, "iput", NULL, n, NULL)
        /\ UNCHANGED <<s_imount, s_map, i_mount, i_dirt>>
    BY <1>7 DEF M!SuperRead, M!EndWithIput
  <2>2. /\ pc'[t] = "iput" /\ dev'[t] = NULL /\ inode'[t] = n /\ sb'[t] = NULL
        /\ \A u \in Task \ {t} : /\ pc'[u] = pc[u] /\ dev'[u] = dev[u]
                                 /\ inode'[u] = inode[u] /\ sb'[u] = sb[u]
    BY <1>1, <2>1, CallAfter
  <2>3. s_dev'[s] = NULL /\ \A r \in M!Super \ {s} : s_dev'[r] = s_dev[r]
    BY <1>1, <1>3, <2>1 DEF M!TypeOK
  <2>4. CallUse'[t] = CallUse[t]
    BY <1>3, <2>2 DEF CallUse
  <2>5. UsesCounted'
    <3>1. \A k \in M!Inode : i_count'[k] = i_count[k] + (IF CallUse'[t] = k THEN 1 ELSE 0)
                                                      - (IF CallUse[t] = k THEN 1 ELSE 0)
      BY <1>1, <1>2, <2>4 DEF M!TypeOK
    <3> QED BY <1>2, <2>1, <3>1, CountsAfterCall
  <2>6. M!TypeOK'
    BY <1>1, <1>2, <1>3, <1>4, <2>1, CallTypes DEF M!TypeOK, M!Places
  <2>7. CallRight(t)'
    BY <1>3, <2>2 DEF CallRight, Umounts, Mounting, Takes, Locks
  <2>8. \A u \in Task \ {t} : Umounts(u) => sb[u] # s
    BY <1>1, <1>3, MountConstants DEF CallRight, Umounts
  <2> HIDE DEF s, n
  <2>9. \A u \in Task \ {t} : CallRight(u)'
    <3> SUFFICES ASSUME NEW u \in Task \ {t} PROVE CallRight(u)'
      OBVIOUS
    <3>1. CallRight(u) /\ (Takes(u) \/ Locks(u) \/ Umounts(u) => sb[u] # s)
          /\ (Locks(u) => s_lock'[sb[u]])
      BY <1>1, <1>5, <2>8
    <3> QED BY <1>2, <2>1, <2>2, <2>3, <3>1 DEF CallRight, Umounts, Mounting, Takes, Locks
  <2>10. CallsAlone'
    BY <1>1, <2>2 DEF CallsAlone, Umounts, Mounting, Takes, Locks
  <2>11. SupersRight'
    <3>1. \A r \in M!Super : \A u \in Task : Umounts(u) /\ sb[u] = r => Umounts(u)' /\ sb'[u] = r
      BY <1>2, <2>2 DEF Umounts
    <3> QED BY <1>1, <1>2, <1>3, <2>1, <2>3, <3>1 DEF SupersRight
  <2>12. MapsRight'
    <3>1. \A r \in M!Super \ {s} : \A u \in Task : Takes(u) /\ sb[u] = r =>
                                                  Takes(u)' /\ sb'[u] = r
      BY <2>2 DEF Takes, s
    <3> QED BY <1>1, <2>1, <2>3, <3>1 DEF MapsRight
  <2> QED BY <1>1, <1>2, <2>1, <2>5, <2>6, <2>7, <2>9, <2>10, <2>11, <2>12
          DEF MountInv, MountsAreTame
<1> QED BY <1>6, <1>7

LEMMA UmountKeepsMounts ==
  ASSUME MountInv, NEW t \in Task, M!Umount(t) PROVE MountInv'
<1>1. /\ M!TypeOK /\ SupersRight /\ (\A u \in Task : CallRight(u)) /\ UsesCounted /\ MapsRight /\ CallsAlone
      /\ (\A u \in detached : held[u] \in Dev) /\ "two_umounts" \notin on
  BY DEF MountInv, MountsAreTame, M!TypeOK
<1>2. pc[t] = "out" /\ UNCHANGED <<on, s_dev, s_lock, s_imount, s_map, i_count, i_dirt, i_lock, held,
                                   detached, panic>>
  BY DEF M!Umount, M!At, M!supers
<1>3. PICK d \in Dev : /\ M!Unmounting(d) = {} /\ ~M!InUse(d)
                       /\ \E s \in M!SuperOf(d) :
                            /\ s_imount[s] # NULL
                            /\ i_mount' = [i_mount EXCEPT ![s_imount[s]] = FALSE]
                            /\ M!Goto(t, "iput", d, s_imount[s], s)
  BY <1>1 DEF M!Umount
<1>4. PICK s \in M!Super : /\ s_dev[s] = d /\ s_imount[s] # NULL
                           /\ i_mount' = [i_mount EXCEPT ![s_imount[s]] = FALSE]
                           /\ M!Goto(t, "iput", d, s_imount[s], s)
  BY <1>3 DEF M!SuperOf
<1>5. PICK n : n = s_imount[s]
  OBVIOUS
<1>6. n \in Dir /\ n \in M!Inode /\ i_count[d] = 0 /\ d # NULL
  BY <1>1, <1>3, <1>4, <1>5, MountConstants DEF M!TypeOK, M!InUse
<1>7. /\ pc'[t] = "iput" /\ dev'[t] = d /\ inode'[t] = n /\ sb'[t] = s
      /\ \A u \in Task \ {t} : /\ pc'[u] = pc[u] /\ dev'[u] = dev[u]
                               /\ inode'[u] = inode[u] /\ sb'[u] = sb[u]
  BY <1>1, <1>4, <1>5, CallAfter
<1>8. i_mount'[n] = FALSE /\ \A k \in M!Inode \ {n} : i_mount'[k] = i_mount[k]
  BY <1>1, <1>4, <1>5, <1>6 DEF M!TypeOK
<1>9. CallUse[t] = NULL /\ CallUse'[t] = NULL
  BY <1>1, <1>2, <1>7, MountConstants DEF CallUse, CallRight
<1>10. UsesCounted'
  <2>1. \A k \in M!Inode : i_count'[k] = i_count[k] + (IF CallUse'[t] = k THEN 1 ELSE 0)
                                                    - (IF CallUse[t] = k THEN 1 ELSE 0)
    BY <1>1, <1>2, <1>9 DEF M!TypeOK
  <2> QED BY <1>2, <1>4, <2>1, CountsAfterCall
<1>11. M!TypeOK'
  BY <1>1, <1>2, <1>4, <1>5, <1>6, CallTypes DEF M!TypeOK, M!Places
<1>12. CallRight(t)'
  BY <1>2, <1>4, <1>5, <1>6, <1>7, <1>8, MountConstants DEF CallRight, Umounts, Mounting, Takes, Locks
<1>13. \A u \in Task \ {t} : ~(Umounts(u) /\ dev[u] = d)
  BY <1>3 DEF M!Unmounting, Umounts
<1>14. \A u \in Task \ {t} : CallRight(u)'
  <2> SUFFICES ASSUME NEW u \in Task \ {t} PROVE CallRight(u)'
    OBVIOUS
  <2>1. CallRight(u) /\ i_mount' \in [M!Inode -> BOOLEAN]
    BY <1>1, <1>11 DEF M!TypeOK
  <2>2. \A k \in M!Inode : i_mount'[k] => i_mount[k]
    BY <1>8
  <2> QED BY <1>2, <1>7, <2>1, <2>2, MountConstants DEF CallRight, Umounts, Mounting, Takes, Locks
<1>15. CallsAlone'
  BY <1>1, <1>7, <1>13 DEF CallsAlone, Umounts, Mounting, Takes, Locks
<1>16. SupersRight'
  <2>1. \A r \in M!Super : \A u \in Task : Umounts(u) /\ sb[u] = r => Umounts(u)' /\ sb'[u] = r
    BY <1>2, <1>7 DEF Umounts, Mounting, Takes, Locks
  <2>2. Umounts(t)' /\ sb'[t] = s
    BY <1>6, <1>7 DEF Umounts
  <2>3. \A r \in M!Super \ {s} : s_imount[r] # n
    BY <1>1, <1>4, <1>5 DEF SupersRight
  <2>4. \A r \in M!Super : s_imount[r] # NULL => s_imount[r] \in M!Inode
    BY <1>1, MountConstants DEF M!TypeOK
  <2> QED BY <1>1, <1>2, <1>5, <1>8, <2>1, <2>2, <2>3, <2>4, MountConstants DEF SupersRight
<1>17. MapsRight'
  <2>1. \A u \in Task : Takes(u) => Takes(u)' /\ sb'[u] = sb[u]
    BY <1>2, <1>7 DEF Takes
  <2> QED BY <1>1, <1>2, <2>1, MapsStay
<1> QED BY <1>1, <1>2, <1>10, <1>11, <1>12, <1>14, <1>15, <1>16, <1>17
        DEF MountInv, MountsAreTame

LEMMA DiskChangeKeepsMounts ==
  ASSUME MountInv, NEW t \in Task, M!DiskChange(t) PROVE MountInv'
<1>1. M!TypeOK /\ CallRight(t) /\ pc[t] = "out"
  BY DEF MountInv, M!DiskChange, M!At
<1>2. PICK d \in Dev : M!Goto(t, "change", d, NULL, NULL)
  BY DEF M!DiskChange
<1>3. UNCHANGED <<on, s_dev, s_lock, s_imount, s_map, i_count, i_mount, i_dirt, i_lock, held,
                  detached, panic>>
  BY DEF M!DiskChange, M!supers, M!inodes
<1>4. pc'[t] = "change" /\ dev'[t] = d /\ inode'[t] = NULL /\ sb'[t] = NULL
  BY <1>1, <1>2, CallAfter
<1>5. CallUse[t] = NULL /\ CallUse'[t] = NULL
  BY <1>1, <1>4 DEF CallUse, CallRight
<1>6. UsesCounted'
  <2>1. \A k \in M!Inode : i_count'[k] = i_count[k] + (IF CallUse'[t] = k THEN 1 ELSE 0)
                                                    - (IF CallUse[t] = k THEN 1 ELSE 0)
    BY <1>1, <1>3, <1>5 DEF M!TypeOK
  <2> QED BY <1>2, <1>3, <2>1, CountsAfterCall
<1>7. M!TypeOK'
  BY <1>1, <1>2, <1>3, CallTypes DEF M!TypeOK, M!Places
<1>8. CallRight(t)'
  BY <1>4 DEF CallRight, Umounts, Mounting, Takes, Locks
<1>9. /\ Umounts(t) <=> Umounts(t)'
      /\ Umounts(t) => sb'[t] = sb[t] /\ dev'[t] = dev[t]
      /\ ~Mounting(t)' /\ ~Takes(t) /\ ~Locks(t) /\ ~Takes(t)' /\ ~Locks(t)'
  BY <1>1, <1>4 DEF Umounts, Mounting, Takes, Locks
<1> QED BY <1>2, <1>3, <1>6, <1>7, <1>8, <1>9, CallStepKeepsMounts

\* put_super() puts an entry that nobody has taken or locked.
LEMMA PutSuperKeepsMounts ==
  ASSUME MountInv, NEW t \in Task, M!PutSuper(t) PROVE MountInv'
<1> DEFINE d == dev[t]
           n == inode[t]
           unlocked == IF pc[t] = "umount" THEN NULL ELSE d
<1>1. /\ M!TypeOK /\ SupersRight /\ (\A u \in Task : CallRight(u)) /\ UsesCounted /\ MapsRight
      /\ CallsAlone /\ \A u \in detached : held[u] \in Dev
  BY DEF MountInv
<1>2. /\ pc[t] \in {"umount", "change"} /\ UNCHANGED <<on, held, detached>>
      /\ ~Takes(t) /\ ~Locks(t) /\ ~Umounts(t)
  BY DEF M!PutSuper, M!At, Takes, Locks, Umounts
<1>3. /\ d \in Dev /\ d # NULL /\ sb[t] = NULL /\ n \in Dir \cup {NULL} /\ CallUse[t] = n
      /\ n \in M!Inode \cup {NULL} /\ (pc[t] = "umount" => n = NULL)
      /\ Mounting(t) <=> n # NULL
  BY <1>1, <1>2, MountConstants DEF CallRight, CallUse, Mounting
<1>4. CASE ~M!MayGetSuper(d)
  BY <1>2, <1>4, WaitKeepsMounts DEF M!PutSuper
<1>5. CASE M!MayGetSuper(d) /\ M!ToBePut(d) = {}
  <2>1. /\ IF pc[t] = "umount" THEN M!Return(t) ELSE M!Goto(t, "invalidate", d, n, NULL)
        /\ UNCHANGED <<s_dev, s_lock, s_imount, s_map, i_count, i_mount, i_dirt, i_lock, panic>>
    BY <1>5 DEF M!PutSuper, M!supers, M!inodes
  <2>2. PICK p, e : /\ M!Goto(t, p, e, n, NULL)
                    /\ \/ pc[t] = "umount" /\ p = "out" /\ e = NULL
                       \/ pc[t] = "change" /\ p = "invalidate" /\ e = d
    BY <1>2, <1>3, <2>1 DEF M!Return
  <2>3. pc'[t] = p /\ dev'[t] = e /\ inode'[t] = n /\ sb'[t] = NULL
    BY <1>1, <2>2, CallAfter
  <2>4. CallUse'[t] = n
    BY <2>2, <2>3 DEF CallUse
  <2>5. UsesCounted'
    <3>1. \A k \in M!Inode : i_count'[k] = i_count[k] + (IF CallUse'[t] = k THEN 1 ELSE 0)
                                                      - (IF CallUse[t] = k THEN 1 ELSE 0)
      BY <1>1, <1>3, <2>1, <2>4 DEF M!TypeOK
    <3> QED BY <1>2, <2>1, <2>2, <3>1, CountsAfterCall
  <2>6. M!TypeOK'
    <3>1. p \in M!Places /\ e \in Dev \cup {NULL}
      BY <1>3, <2>2 DEF M!Places
    <3> QED BY <1>1, <1>2, <1>3, <2>1, <2>2, <3>1, CallTypes DEF M!TypeOK
  <2>7. Mounting(t)' => Mounting(t)
    BY <1>3, <2>2, <2>3 DEF Mounting
  <2>8. CallRight(t)'
    <3>1. Mounting(t) => ~i_mount[n] /\ \A r \in M!Super : s_imount[r] # n
      BY <1>1 DEF CallRight
    <3> QED BY <1>3, <2>1, <2>2, <2>3, <2>7, <3>1 DEF CallRight, Umounts, Takes, Locks
  <2>9. ~Takes(t)' /\ ~Locks(t)' /\ ~Umounts(t)'
    BY <2>2, <2>3 DEF Takes, Locks, Umounts
  <2> QED BY <1>2, <2>1, <2>2, <2>3, <2>5, <2>6, <2>7, <2>8, <2>9, CallStepKeepsMounts
<1>6. CASE M!MayGetSuper(d) /\ M!ToBePut(d) # {}
  <2>1. PICK s \in M!ToBePut(d) :
             IF ~s_map[s]
             THEN panic' = "brelse" /\ UNCHANGED <<M!supers, M!inodes, M!call>>
             ELSE /\ s_lock' = [s_lock EXCEPT ![s] = TRUE]
                  /\ s_dev' = [s_dev EXCEPT ![s] = NULL]
                  /\ s_map' = [s_map EXCEPT ![s] = FALSE]
                  /\ M!Goto(t, "put", unlocked, n, s)
                  /\ UNCHANGED <<s_imount, M!inodes, panic>>
    BY <1>6 DEF M!PutSuper
  <2>2. s \in M!SuperOf(d) /\ s_imount[s] = NULL
    BY DEF M!ToBePut
  <2>3. /\ s \in M!Super /\ s_dev[s] = d /\ s_map[s]
        /\ \A u \in Task : Takes(u) \/ Locks(u) => sb[u] # s
    BY <1>3, <1>6, <2>2, GotIsFree
  <2>4. /\ s_lock' = [s_lock EXCEPT ![s] = TRUE]
        /\ s_dev' = [s_dev EXCEPT ![s] = NULL]
        /\ s_map' = [s_map EXCEPT ![s] = FALSE]
        /\ M!Goto(t, "put", unlocked, n, s)
        /\ UNCHANGED <<s_imount, i_count, i_mount, i_dirt, i_lock, panic>>
    BY <2>1, <2>3 DEF M!inodes
  <2>5. /\ pc'[t] = "put" /\ dev'[t] = unlocked /\ inode'[t] = n /\ sb'[t] = s
        /\ \A u \in Task \ {t} : /\ pc'[u] = pc[u] /\ dev'[u] = dev[u]
                                 /\ inode'[u] = inode[u] /\ sb'[u] = sb[u]
    BY <1>1, <2>4, CallAfter
  <2>6. /\ s_lock'[s] = TRUE /\ \A r \in M!Super \ {s} : s_lock'[r] = s_lock[r]
        /\ s_dev'[s] = NULL /\ \A r \in M!Super \ {s} : s_dev'[r] = s_dev[r]
        /\ \A r \in M!Super \ {s} : s_map'[r] = s_map[r]
    BY <1>1, <2>3, <2>4 DEF M!TypeOK
  <2>7. CallUse'[t] = n
    BY <2>5 DEF CallUse
  <2>8. UsesCounted'
    <3>1. \A k \in M!Inode : i_count'[k] = i_count[k] + (IF CallUse'[t] = k THEN 1 ELSE 0)
                                                      - (IF CallUse[t] = k THEN 1 ELSE 0)
      BY <1>1, <1>3, <2>4, <2>7 DEF M!TypeOK
    <3> QED BY <1>2, <2>4, <3>1, CountsAfterCall
  <2>9. M!TypeOK'
    <3>1. unlocked \in Dev \cup {NULL}
      BY <1>3
    <3>2. /\ s_lock' \in [M!Super -> BOOLEAN] /\ s_map' \in [M!Super -> BOOLEAN]
          /\ s_dev' \in [M!Super -> Dev \cup {NULL}]
      BY <1>1, <2>3, <2>4 DEF M!TypeOK
    <3> QED BY <1>1, <1>2, <1>3, <2>3, <2>4, <3>1, <3>2, CallTypes DEF M!TypeOK, M!Places
  <2>10. CallRight(t)'
    <3>1. Mounting(t) => ~i_mount[n] /\ \A r \in M!Super : s_imount[r] # n
      BY <1>1 DEF CallRight
    <3>2. unlocked = NULL => n = NULL
      BY <1>3
    <3>3. Mounting(t)' => Mounting(t)
      BY <1>3, <2>5 DEF Mounting
    <3> QED BY <1>3, <2>2, <2>3, <2>4, <2>5, <2>6, <3>1, <3>2, <3>3
            DEF CallRight, Umounts, Takes, Locks
  <2>11. \A u \in Task \ {t} : Umounts(u) => sb[u] # s
    BY <1>1, <2>2, MountConstants DEF CallRight, Umounts
  <2> HIDE DEF d, n, unlocked
  <2>12. \A u \in Task \ {t} : CallRight(u)'
    <3> SUFFICES ASSUME NEW u \in Task \ {t} PROVE CallRight(u)'
      OBVIOUS
    <3>1. CallRight(u) /\ (Takes(u) \/ Locks(u) \/ Umounts(u) => sb[u] # s)
      BY <1>1, <2>3, <2>11
    <3> QED BY <2>4, <2>5, <2>6, <3>1 DEF CallRight, Umounts, Mounting, Takes, Locks
  <2>13. CallsAlone'
    <3>1. ~Takes(t)' /\ ~Umounts(t)' /\ (Mounting(t)' => Mounting(t))
      BY <1>3, <2>5 DEF Takes, Umounts, Mounting, n
    <3> QED BY <1>1, <1>2, <2>3, <2>5, <3>1 DEF CallsAlone, Umounts, Mounting, Takes, Locks, n
  <2>14. SupersRight'
    <3>1. \A r \in M!Super : \A u \in Task : Umounts(u) /\ sb[u] = r => Umounts(u)' /\ sb'[u] = r
      BY <1>2, <2>5 DEF Umounts
    <3> QED BY <1>1, <2>2, <2>4, <2>6, <3>1 DEF SupersRight
  <2>15. MapsRight'
    <3>1. \A u \in Task : Takes(u) => Takes(u)' /\ sb'[u] = sb[u]
      BY <1>2, <2>5 DEF Takes
    <3> QED BY <1>1, <2>6, <3>1 DEF MapsRight
  <2> QED BY <1>1, <1>2, <2>4, <2>8, <2>9, <2>10, <2>12, <2>13, <2>14, <2>15
          DEF MountInv, MountsAreTame
<1> QED BY <1>4, <1>5, <1>6

LEMMA SuperPutKeepsMounts ==
  ASSUME MountInv, NEW t \in Task, M!SuperPut(t) PROVE MountInv'
<1> DEFINE s == sb[t]
           n == inode[t]
<1>1. /\ M!TypeOK /\ SupersRight /\ (\A u \in Task : CallRight(u)) /\ UsesCounted /\ MapsRight
      /\ CallsAlone /\ \A u \in detached : held[u] \in Dev
  BY DEF MountInv
<1>2. /\ pc[t] = "put" /\ s_lock' = [s_lock EXCEPT ![s] = FALSE]
      /\ IF dev[t] = NULL THEN M!Return(t) ELSE M!Goto(t, "invalidate", dev[t], n, NULL)
      /\ UNCHANGED <<on, s_dev, s_imount, s_map, i_count, i_mount, i_dirt, i_lock, held,
                     detached, panic>>
  BY DEF M!SuperPut, M!At, M!inodes
<1>3. /\ s \in M!Super /\ n \in Dir \cup {NULL} /\ n \in M!Inode \cup {NULL} /\ CallUse[t] = n
      /\ Locks(t) /\ ~Takes(t) /\ ~Umounts(t) /\ (Mounting(t) <=> n # NULL)
      /\ dev[t] \in Dev \cup {NULL} /\ (dev[t] = NULL => n = NULL)
  BY <1>1, <1>2, MountConstants
     DEF M!TypeOK, CallRight, CallUse, Mounting, Locks, Takes, Umounts
<1>4. PICK p, e : /\ M!Goto(t, p, e, n, NULL)
                  /\ \/ p = "out" /\ e = NULL /\ n = NULL
                     \/ p = "invalidate" /\ e \in Dev
  BY <1>2, <1>3 DEF M!Return
<1>5. /\ pc'[t] = p /\ dev'[t] = e /\ inode'[t] = n /\ sb'[t] = NULL
      /\ \A u \in Task \ {t} : /\ pc'[u] = pc[u] /\ dev'[u] = dev[u]
                               /\ inode'[u] = inode[u] /\ sb'[u] = sb[u]
  BY <1>1, <1>4, CallAfter
<1>6. UsesCounted'
  <2>1. CallUse'[t] = n
    BY <1>4, <1>5 DEF CallUse
  <2>2. \A k \in M!Inode : i_count'[k] = i_count[k] + (IF CallUse'[t] = k THEN 1 ELSE 0)
                                                    - (IF CallUse[t] = k THEN 1 ELSE 0)
    BY <1>1, <1>2, <1>3, <2>1 DEF M!TypeOK
  <2> QED BY <1>2, <1>4, <2>2, CountsAfterCall
<1>7. M!TypeOK'
  <2>1. p \in M!Places /\ e \in Dev \cup {NULL}
    BY <1>4 DEF M!Places
  <2>2. s_lock' \in [M!Super -> BOOLEAN]
    BY <1>1, <1>2, <1>3 DEF M!TypeOK
  <2> QED BY <1>1, <1>2, <1>3, <1>4, <2>1, <2>2, CallTypes DEF M!TypeOK
<1>8. ~Takes(t)' /\ ~Locks(t)' /\ ~Umounts(t)' /\ (Mounting(t)' => Mounting(t))
  BY <1>3, <1>4, <1>5 DEF Takes, Locks, Umounts, Mounting
<1>9. CallRight(t)'
  <2>1. Mounting(t) => ~i_mount[n] /\ \A r \in M!Super : s_imount[r] # n
    BY <1>1 DEF CallRight
  <2> QED BY <1>2, <1>3, <1>4, <1>5, <1>8, <2>1 DEF CallRight
<1>10. \A u \in Task \ {t} : CallRight(u)'
  <2> SUFFICES ASSUME NEW u \in Task \ {t} PROVE CallRight(u)'
    OBVIOUS
  <2>1. CallRight(u) /\ (Locks(u) => sb[u] # s)
    BY <1>1, <1>3 DEF CallsAlone
  <2>2. \A r \in M!Super \ {s} : s_lock'[r] = s_lock[r]
    BY <1>1, <1>2 DEF M!TypeOK
  <2> HIDE DEF s
  <2> QED BY <1>2, <1>5, <2>1, <2>2 DEF CallRight, Umounts, Mounting, Takes, Locks
<1>11. CallsAlone'
  BY <1>1, <1>5, <1>8 DEF CallsAlone, Umounts, Mounting, Takes, Locks
<1>12. SupersRight'
  <2>1. \A r \in M!Super : \A u \in Task : Umounts(u) /\ sb[u] = r => Umounts(u)' /\ sb'[u] = r
    BY <1>3, <1>5 DEF Umounts
  <2> QED BY <1>1, <1>2, <2>1 DEF SupersRight
<1>13. MapsRight'
  <2>1. \A u \in Task : Takes(u) => Takes(u)' /\ sb'[u] = sb[u]
    BY <1>3, <1>5 DEF Takes
  <2> QED BY <1>1, <1>2, <2>1, MapsStay
<1> QED BY <1>1, <1>2, <1>6, <1>7, <1>9, <1>10, <1>11, <1>12, <1>13 DEF MountInv, MountsAreTame

LEMMA InvalidateKeepsMounts ==
  ASSUME MountInv, NEW t \in Task, M!Invalidate(t) PROVE MountInv'
<1>1. /\ M!TypeOK /\ SupersRight /\ (\A u \in Task : CallRight(u)) /\ UsesCounted /\ MapsRight
      /\ CallsAlone /\ \A u \in detached : held[u] \in Dev
  BY DEF MountInv
<1>2. PICK d, n : d = dev[t] /\ n = inode[t]
  OBVIOUS
<1>3. /\ pc[t] = "invalidate"
      /\ i_count' = [i_count EXCEPT ![d] = 0]
      /\ i_dirt' = [i_dirt EXCEPT ![d] = FALSE]
      /\ detached' = detached \cup {u \in Task : held[u] = d}
      /\ IF n = NULL THEN M!Return(t) ELSE M!Goto(t, "read_super", d, n, NULL)
      /\ UNCHANGED <<on, s_dev, s_lock, s_imount, s_map, i_mount, i_lock, held, panic>>
  BY <1>2 DEF M!Invalidate, M!At, M!supers
<1>4. /\ d \in Dev /\ d \in M!Inode /\ d # NULL /\ d \notin Dir /\ d # n
      /\ n \in Dir \cup {NULL} /\ n \in M!Inode \cup {NULL} /\ CallUse[t] = n
      /\ ~Locks(t) /\ ~Takes(t) /\ ~Umounts(t) /\ (Mounting(t) <=> n # NULL)
  BY <1>1, <1>2, <1>3, MountConstants DEF CallRight, CallUse, Mounting, Locks, Takes, Umounts
<1>5. PICK p, e : /\ M!Goto(t, p, e, n, NULL)
                  /\ \/ p = "out" /\ e = NULL /\ n = NULL
                     \/ p = "read_super" /\ e = d /\ n # NULL
  BY <1>3 DEF M!Return
<1>6. /\ pc'[t] = p /\ dev'[t] = e /\ inode'[t] = n /\ sb'[t] = NULL
      /\ \A u \in Task \ {t} : /\ pc'[u] = pc[u] /\ dev'[u] = dev[u]
                               /\ inode'[u] = inode[u] /\ sb'[u] = sb[u]
  BY <1>1, <1>5, CallAfter
<1>7. i_count'[d] = 0 /\ \A k \in M!Inode \ {d} : i_count'[k] = i_count[k]
  BY <1>1, <1>3, <1>4 DEF M!TypeOK
<1>8. M!TypeOK'
  <2>1. i_count' \in [M!Inode -> Nat] /\ i_dirt' \in [M!Inode -> BOOLEAN]
    BY <1>1, <1>3, <1>4 DEF M!TypeOK
  <2>2. detached' \subseteq Task
    BY <1>1, <1>3 DEF M!TypeOK
  <2>3. p \in M!Places /\ e \in Dev \cup {NULL}
    BY <1>4, <1>5 DEF M!Places
  <2> QED BY <1>1, <1>3, <1>4, <1>5, <2>1, <2>2, <2>3, CallTypes DEF M!TypeOK
<1>9. UsesCounted'
  <2>1. \A k : Number(CallUse', Task, k) = Number(CallUse, Task, k)
    <3>1. CallUse'[t] = n
      BY <1>5, <1>6 DEF CallUse
    <3>2. \A u \in Task : CallUse'[u] = CallUse[u]
      BY <1>4, <1>6, <3>1 DEF CallUse
    <3> QED BY <3>2, UsesStay
  <2>2. \A u \in Task : HeldUse'[u] = IF HeldUse[u] = d THEN NULL ELSE HeldUse[u]
    BY <1>3 DEF HeldUse
  <2>3. \A k \in M!Inode \ {d} : Number(HeldUse', Task, k) = Number(HeldUse, Task, k)
    <3> TAKE k \in M!Inode \ {d}
    <3>1. {u \in Task : HeldUse'[u] = k} = {u \in Task : HeldUse[u] = k}
      BY <2>2, MountConstants
    <3> QED BY <3>1 DEF Number
  <2>4. Number(HeldUse', Task, d) = 0
    <3>1. PICK f : f = HeldUse'
      OBVIOUS
    <3>2. IsFiniteSet(Task) /\ \A u \in Task : f[u] # d
      BY <1>4, <2>2, <3>1, MountsFinite
    <3> QED BY <3>1, <3>2, NumberIsNat
  <2>5. Number(CallUse, Task, d) = 0
    <3>1. PICK f : f = CallUse
      OBVIOUS
    <3>2. \A u \in Task : CallUse[u] # d
      BY <1>1, <1>4 DEF CallUse, CallRight, M!TypeOK, M!Places
    <3>3. IsFiniteSet(Task) /\ \A u \in Task : f[u] # d
      BY <3>1, <3>2, MountsFinite
    <3> QED BY <3>1, <3>3, NumberIsNat
  <2>6. Number(s_imount, M!Super, d) = 0
    <3>1. PICK f : f = s_imount
      OBVIOUS
    <3>2. IsFiniteSet(M!Super) /\ \A u \in M!Super : f[u] # d
      BY <1>1, <1>4, <3>1, MountsFinite DEF M!TypeOK
    <3> QED BY <3>1, <3>2, NumberIsNat
  <2> SUFFICES ASSUME NEW k \in M!Inode
               PROVE  i_count'[k] = Number(HeldUse', Task, k) + Number(CallUse', Task, k)
                                    + Number(s_imount', M!Super, k)
    BY DEF UsesCounted
  <2>7. CASE k = d
    BY <1>3, <1>7, <2>1, <2>4, <2>5, <2>6, <2>7
  <2>8. CASE k # d
    BY <1>1, <1>3, <1>7, <2>1, <2>3, <2>8 DEF UsesCounted
  <2> QED BY <2>7, <2>8
<1>10. ~Takes(t)' /\ ~Locks(t)' /\ ~Umounts(t)' /\ (Mounting(t)' => Mounting(t))
  BY <1>4, <1>5, <1>6 DEF Takes, Locks, Umounts, Mounting
<1>11. CallRight(t)'
  <2>1. Mounting(t) => ~i_mount[n] /\ \A r \in M!Super : s_imount[r] # n
    BY <1>1, <1>2 DEF CallRight
  <2> QED BY <1>3, <1>4, <1>5, <1>6, <1>10, <2>1 DEF CallRight
<1>12. \A u \in Task \ {t} : CallRight(u)'
  <2> SUFFICES ASSUME NEW u \in Task \ {t} PROVE CallRight(u)'
    OBVIOUS
  <2>1. CallRight(u)
    BY <1>1
  <2>2. Umounts(u) => dev[u] \in M!Inode
    BY <2>1, MountConstants DEF CallRight, Umounts
  <2> QED BY <1>3, <1>6, <1>7, <2>1, <2>2 DEF CallRight, Umounts, Mounting, Takes, Locks
<1>13. CallsAlone'
  BY <1>1, <1>2, <1>6, <1>10 DEF CallsAlone, Umounts, Mounting, Takes, Locks
<1>14. SupersRight'
  <2>1. \A r \in M!Super : \A u \in Task : Umounts(u) /\ sb[u] = r => Umounts(u)' /\ sb'[u] = r
    BY <1>4, <1>6 DEF Umounts
  <2> QED BY <1>1, <1>3, <1>4, <1>7, <2>1, MountConstants DEF SupersRight
<1>15. MapsRight'
  <2>1. \A u \in Task : Takes(u) => Takes(u)' /\ sb'[u] = sb[u]
    BY <1>4, <1>6 DEF Takes
  <2> QED BY <1>1, <1>3, <2>1, MapsStay
<1>16. \A u \in detached' : held'[u] \in Dev
  BY <1>1, <1>3, <1>4
<1> QED BY <1>3, <1>8, <1>9, <1>11, <1>12, <1>13, <1>14, <1>15, <1>16 DEF MountInv, MountsAreTame

LEMMA MountInvStep ==
  ASSUME MountInv, M!Next PROVE MountInv'
BY LookUpKeepsMounts, ReleaseKeepsMounts, IputKeepsMounts, SyncKeepsMounts,
   WrittenKeepsMounts, MountKeepsMounts, CheckDirKeepsMounts, ReadSuperKeepsMounts,
   LockSuperKeepsMounts, SuperReadKeepsMounts, UmountKeepsMounts, DiskChangeKeepsMounts,
   PutSuperKeepsMounts, SuperPutKeepsMounts, InvalidateKeepsMounts DEF M!Next

LEMMA MountInvProps ==
  ASSUME MountInv PROVE M!MountsArePaired /\ M!InUseIsLoaded /\ M!CountIsUses
<1>1. /\ M!TypeOK /\ SupersRight /\ (\A u \in Task : CallRight(u)) /\ UsesCounted /\ MapsRight
      /\ CallsAlone /\ \A u \in detached : held[u] \in Dev
  BY DEF MountInv
<1>2. \A S : M!Cardinality(S) = Cardinality(S)
  BY DEF M!Cardinality, Cardinality
<1>3. M!MountsArePaired
  <2>1. ASSUME NEW n \in Dir, i_mount[n]
        PROVE  M!Cardinality({s \in M!Super : s_imount[s] = n}) = 1
    <3>1. PICK s \in M!Super : s_imount[s] = n
      BY <1>1, <2>1 DEF SupersRight
    <3>2. {r \in M!Super : s_imount[r] = n} = {s}
      BY <1>1, <3>1, MountConstants DEF SupersRight
    <3> QED BY <1>2, <3>2, FS_Singleton
  <2>2. ASSUME NEW s \in M!Super, s_imount[s] # NULL
        PROVE  /\ s_dev[s] # NULL /\ s_map[s]
               /\ i_mount[s_imount[s]] \/ M!Unmounting(s_dev[s]) # {}
    <3>1. \A u \in Task : Umounts(u) /\ sb[u] = s => u \in M!Unmounting(s_dev[s])
      BY <1>1 DEF CallRight, Umounts, M!Unmounting
    <3>2. \A u \in Task : Takes(u) => sb[u] # s
      BY <1>1, <2>2 DEF CallRight
    <3> QED BY <1>1, <2>2, <3>1, <3>2 DEF SupersRight, MapsRight
  <2>3. ASSUME NEW d \in Dev PROVE M!Cardinality(M!SuperOf(d)) <= 1
    <3>1. CASE M!SuperOf(d) = {}
      BY <1>2, <3>1, FS_EmptySet
    <3>2. CASE M!SuperOf(d) # {}
      <4>0. PICK s \in M!Super : s_dev[s] = d
        BY <3>2 DEF M!SuperOf
      <4>1. M!SuperOf(d) = {s}
        BY <1>1, <4>0, MountConstants DEF SupersRight, M!SuperOf
      <4> QED BY <1>2, <4>1, FS_Singleton
    <3> QED BY <3>1, <3>2
  <2> QED BY <2>1, <2>2, <2>3 DEF M!MountsArePaired
<1>4. M!InUseIsLoaded
  BY <1>1 DEF M!InUseIsLoaded, SupersRight, M!SuperOf, M!TypeOK
<1>5. M!CountIsUses
  <2> SUFFICES ASSUME NEW n \in M!Inode
               PROVE  i_count[n] =
                        M!Cardinality({t \in Task : held[t] = n /\ t \notin detached})
                        + M!Cardinality({t \in Task : inode[t] = n /\ pc[t] # "sync"
                                                                 /\ sb[t] = NULL})
                        + M!Cardinality({t \in Task : inode[t] = n
                                                      /\ pc[t] \in {"lock", "load", "put"}})
                        + M!Cardinality({s \in M!Super : s_imount[s] = n})
    BY DEF M!CountIsUses
  <2> DEFINE A == {t \in Task : inode[t] = n /\ pc[t] # "sync" /\ sb[t] = NULL}
             L == {t \in Task : inode[t] = n /\ pc[t] \in {"lock", "load", "put"}}
  <2>1. {t \in Task : held[t] = n /\ t \notin detached} = {t \in Task : HeldUse[t] = n}
    BY MountConstants DEF HeldUse
  <2>2. A \cup L = {t \in Task : CallUse[t] = n} /\ A \cap L = {}
    <3>1. \A t \in Task : pc[t] \in {"lock", "load", "put"} => sb[t] # NULL
      <4>1. \A t \in Task : pc[t] \in {"lock", "load", "put"} => sb[t] \in M!Super
        BY <1>1 DEF CallRight, Takes, Locks
      <4> QED BY <4>1, MountConstants
    <3>2. n # NULL
      BY MountConstants
    <3>3. \A t \in Task : CallUse[t] = n <=> t \in A \/ t \in L
      BY <3>1, <3>2 DEF CallUse
    <3> QED BY <3>1, <3>3
  <2>3. IsFiniteSet(A) /\ IsFiniteSet(L)
    BY MountsFinite, FS_Subset
  <2> HIDE DEF A, L
  <2>4. Cardinality(A \cup L) = Cardinality(A) + Cardinality(L)
    BY <2>2, <2>3, DisjointUnion
  <2>5. Cardinality(A) \in Nat /\ Cardinality(L) \in Nat
    BY <2>3, FS_CardinalityType
  <2>6. i_count[n] = Cardinality({t \in Task : HeldUse[t] = n}) + Cardinality(A \cup L)
                     + Cardinality({s \in M!Super : s_imount[s] = n})
    BY <1>1, <2>2 DEF UsesCounted, Number
  <2>7. /\ Cardinality({t \in Task : HeldUse[t] = n}) \in Nat
        /\ Cardinality({s \in M!Super : s_imount[s] = n}) \in Nat
    BY NumbersAreNat DEF Number
  <2>8. i_count[n] = Cardinality({t \in Task : held[t] = n /\ t \notin detached})
                     + Cardinality(A) + Cardinality(L)
                     + Cardinality({s \in M!Super : s_imount[s] = n})
    <3>1. PICK h : h = Cardinality({t \in Task : HeldUse[t] = n})
      OBVIOUS
    <3>2. PICK m : m = Cardinality({s \in M!Super : s_imount[s] = n})
      OBVIOUS
    <3>3. i_count[n] = h + Cardinality(A \cup L) + m /\ h \in Nat /\ m \in Nat
      BY <2>6, <2>7, <3>1, <3>2
    <3>4. i_count[n] = h + Cardinality(A) + Cardinality(L) + m
      BY <2>4, <2>5, <3>3
    <3> QED BY <2>1, <3>1, <3>2, <3>4
  <2> QED BY <1>2, <2>8 DEF A, L
<1> QED BY <1>3, <1>4, <1>5

LEMMA MountsHold ==
  ASSUME MountsAreTame PROVE Spec => [](part = "mounts" => MountInv)
<1>1. Init => (part = "mounts" => MountInv)
  <2> SUFFICES ASSUME Init, part = "mounts" PROVE MountInv
    OBVIOUS
  <2>1. M!Init
    BY DEF Init
  <2> QED BY <2>1, MountInvInit
<1>2. (part = "mounts" => MountInv) /\ [Next]_vars => (part = "mounts" => MountInv)'
  <2> SUFFICES ASSUME part = "mounts" => MountInv, [Next]_vars, part' = "mounts"
               PROVE  MountInv'
    OBVIOUS
  <2>1. CASE UNCHANGED vars
    <3>1. UNCHANGED <<part, on, panic, running, pc, held, s_dev, s_lock, s_imount, s_map,
                      i_count, i_mount, i_dirt, i_lock, detached, dev, inode, sb>>
      BY <2>1 DEF vars, ofMounts
    <3> QED BY <3>1 DEF MountInv, MountsAreTame, M!TypeOK, CallRight, CallsAlone, SupersRight,
                        MapsRight, UsesCounted, Umounts, Mounting, Takes, Locks, HeldUse, CallUse
  <2>2. CASE InodesStep
    BY <2>2 DEF InodesStep
  <2>3. CASE BlocksStep
    BY <2>3 DEF BlocksStep
  <2>4. CASE MountsStep
    BY <2>4, MountInvStep DEF MountsStep
  <2>5. CASE DirsStep
    BY <2>5 DEF DirsStep
  <2> QED BY <2>1, <2>2, <2>3, <2>4, <2>5 DEF Next
<1> QED BY <1>1, <1>2, PTL DEF Spec

\* Super blocks and mount points belong together, and what is in use is loaded, through all
\* that sleeps in sys_mount(), sys_umount(), put_super() and iput(), also when disks are changed.
THEOREM MountsStayWhole ==
  ASSUME MountsAreTame PROVE Spec => []MountsAreWhole
<1>1. (part = "mounts" => MountInv) => MountsAreWhole
  BY MountInvProps DEF MountsAreWhole
<1> QED BY <1>1, MountsHold, PTL

-----------------------------------------------------------------------------
(***************************************************************************)
(* Inodes: the stacks that tasks have, and what they say.                  *)
(***************************************************************************)
IsCaller(c, n) == c = I!Frame("open", NULL, NULL) \/ c = I!Frame("unlink", NULL, n)

Empties(s) ==
    \/ s = <<I!Frame("get_empty", NULL, NULL), I!Frame("create", NULL, NULL)>>
    \/ \E n \in Num : \E c : IsCaller(c, n)
         /\ s = <<I!Frame("get_empty", NULL, NULL), I!Frame("iget", NULL, n), c>>

Searches(s) ==
    \E p \in {"iget", "read"} : \E i \in I!Inode : \E n \in Num : \E c :
       IsCaller(c, n) /\ s = <<I!Frame(p, i, n), c>>

Single(s) ==
    \/ \E p \in {"open", "create", "iput", "truncate"} : \E i \in I!Inode :
          s = <<I!Frame(p, i, NULL)>>
    \/ \E i \in I!Inode : \E n \in Num : s = <<I!Frame("unlink", i, n)>>

\* What goes on when an inode has been written.
Resumes(s) ==
    \/ s = <<>>
    \/ \E p \in {"sync", "repeat"} : \E i \in I!Inode : s = <<I!Frame(p, i, NULL)>>
    \/ \E k \in I!Inode : \E i \in I!Inode :
          s = <<I!Frame("sync", k, NULL), I!Frame("repeat", i, NULL)>>

Writes(s) ==
    \E j \in I!Inode : \E f :
       /\ f = I!Frame("lock", j, NULL) \/ \E n \in Num : f = I!Frame("write", j, n)
       /\ \/ s = <<f>>
          \/ \E p \in {"sync", "repeat"} : \E i \in I!Inode : s = <<f, I!Frame(p, i, NULL)>>
          \/ \E k \in I!Inode : \E i \in I!Inode :
                s = <<f, I!Frame("sync", k, NULL), I!Frame("repeat", i, NULL)>>

StackRight(s) == Empties(s) \/ Searches(s) \/ Single(s) \/ Resumes(s) \/ Writes(s)

TopAt(s) == IF s = <<>> THEN "out" ELSE s[1].at
TopI(s) == IF s = <<>> THEN NULL ELSE s[1].i
TopNr(s) == IF s = <<>> THEN NULL ELSE s[1].nr
Repeats(s) == IF s # <<>> /\ s[Len(s)].at = "repeat" THEN s[Len(s)].i ELSE NULL
UsedBy(s) ==
    IF TopAt(s) \in {"iget", "read", "iput", "truncate", "open", "create", "unlink"}
    THEN TopI(s) ELSE Repeats(s)
LockedBy(s) == IF TopAt(s) \in {"read", "write"} THEN TopI(s) ELSE NULL
Seeks(s) ==
    IF TopAt(s) \in {"iget", "read", "unlink"} THEN TopNr(s)
    ELSE IF Len(s) > 1 /\ s[2].at = "iget" THEN s[2].nr ELSE NULL
Unlinks(s) == IF s # <<>> /\ s[Len(s)].at = "unlink" THEN s[Len(s)].nr ELSE NULL
Syncs(s) == s # <<>> /\ (s[1].at = "sync" \/ (Len(s) > 1 /\ s[2].at = "sync"))

OneView(s, f) ==
    /\ TopAt(s) = f.at /\ TopI(s) = f.i /\ TopNr(s) = f.nr
    /\ Repeats(s) = (IF f.at = "repeat" THEN f.i ELSE NULL)
    /\ Unlinks(s) = (IF f.at = "unlink" THEN f.nr ELSE NULL)
    /\ Seeks(s) = (IF f.at \in {"iget", "read", "unlink"} THEN f.nr ELSE NULL)
    /\ Syncs(s) <=> f.at = "sync"
    /\ s # <<>> /\ Head(s) = f /\ Tail(s) = <<>>

\* The views of a stack s with f first, g last.
View(s, f, g, h, rest) ==
    /\ TopAt(s) = f.at /\ TopI(s) = f.i /\ TopNr(s) = f.nr
    /\ Repeats(s) = (IF h.at = "repeat" THEN h.i ELSE NULL)
    /\ Unlinks(s) = (IF h.at = "unlink" THEN h.nr ELSE NULL)
    /\ Seeks(s) = (IF f.at \in {"iget", "read", "unlink"} THEN f.nr
                   ELSE IF g.at = "iget" THEN g.nr ELSE NULL)
    /\ Syncs(s) <=> (f.at = "sync" \/ g.at = "sync")
    /\ s # <<>> /\ Head(s) = f /\ Tail(s) = rest

LEMMA OneFrame ==
  ASSUME NEW f PROVE OneView(<<f>>, f)
BY DEF OneView, TopAt, TopI, TopNr, Repeats, Unlinks, Seeks, Syncs

LEMMA TwoFrames ==
  ASSUME NEW f, NEW g PROVE View(<<f, g>>, f, g, g, <<g>>)
<1>1. <<f, g>> # <<>> /\ Len(<<f, g>>) = 2 /\ <<f, g>>[2] = g /\ <<f, g>>[1] = f
  OBVIOUS
<1>2. Tail(<<f, g>>) = <<g>>
  OBVIOUS
<1> QED BY <1>1, <1>2 DEF View, TopAt, TopI, TopNr, Repeats, Unlinks, Seeks, Syncs

LEMMA ThreeFrames ==
  ASSUME NEW f, NEW g, NEW h PROVE View(<<f, g, h>>, f, g, h, <<g, h>>)
<1>1. /\ <<f, g, h>> # <<>> /\ Len(<<f, g, h>>) = 3
      /\ <<f, g, h>>[1] = f /\ <<f, g, h>>[2] = g /\ <<f, g, h>>[3] = h
  OBVIOUS
<1>2. Tail(<<f, g, h>>) = <<g, h>>
  OBVIOUS
<1> QED BY <1>1, <1>2 DEF View, TopAt, TopI, TopNr, Repeats, Unlinks, Seeks, Syncs

LEMMA JoinNone ==
  ASSUME NEW f
  PROVE  <<>> \o <<>> = <<>> /\ <<>> \o <<f>> = <<f>> /\ <<f>> \o <<>> = <<f>>
<1>1. <<f>> \in Seq({f}) /\ <<>> \in Seq({f})
  OBVIOUS
<1> QED BY <1>1, ConcatEmptySeq
LEMMA JoinTwo ==
  ASSUME NEW f, NEW g
  PROVE  <<f>> \o <<g>> = <<f, g>> /\ <<f, g>> \o <<>> = <<f, g>> /\ <<>> \o <<f, g>> = <<f, g>>
<1>1. /\ <<f>> \in Seq({f, g}) /\ <<g>> \in Seq({f, g}) /\ <<f, g>> \in Seq({f, g}) 
  OBVIOUS
<1>2. PICK S : S = {f, g}
  OBVIOUS
<1>3. PICK a : a = <<f>>
  OBVIOUS
<1>4. PICK b : b = <<g>>
  OBVIOUS
<1>5. PICK c : c = <<f, g>>
  OBVIOUS
<1>6. a \in Seq(S) /\ b \in Seq(S) /\ c \in Seq(S)
  BY <1>1, <1>2, <1>3, <1>4, <1>5
<1>7. /\ a \o b \in Seq(S) /\ Len(a \o b) = Len(a) + Len(b)
      /\ \A i \in 1 .. Len(a) + Len(b) : (a \o b)[i] = IF i <= Len(a) THEN a[i] ELSE b[i - Len(a)]
  BY <1>6, ConcatProperties
<1>8. Len(a) = 1 /\ Len(b) = 1 /\ Len(c) = 2 /\ a[1] = f /\ b[1] = g /\ c[1] = f /\ c[2] = g
  BY <1>3, <1>4, <1>5
<1>9. a \o b = c
  <2>1. PICK d : d = a \o b
    OBVIOUS
  <2>2. d \in Seq(S) /\ Len(d) = Len(c) /\ \A i \in 1..Len(d) : d[i] = c[i]
    BY <1>7, <1>8, <2>1
  <2>3. d = c
    BY <1>6, <2>2, SeqEqual
  <2> QED BY <2>1, <2>3
<1>10. c \o <<>> = c /\ <<>> \o c = c
  BY <1>6, ConcatEmptySeq
<1> QED BY <1>3, <1>4, <1>5, <1>9, <1>10
LEMMA JoinThree ==
  ASSUME NEW f, NEW g, NEW h
  PROVE  <<f>> \o <<g, h>> = <<f, g, h>> /\ <<f, g>> \o <<h>> = <<f, g, h>>
<1>1. PICK S : S = {f, g, h}
  OBVIOUS
<1>2. ASSUME NEW a, NEW b, NEW c, a \in Seq(S), b \in Seq(S), c \in Seq(S),
             Len(c) = Len(a) + Len(b),
             \A i \in 1 .. Len(a) + Len(b) : c[i] = IF i <= Len(a) THEN a[i] ELSE b[i - Len(a)]
      PROVE  a \o b = c
  <2>1. PICK d : d = a \o b
    OBVIOUS
  <2>2. /\ a \o b \in Seq(S) /\ Len(a \o b) = Len(a) + Len(b)
      /\ \A i \in 1 .. Len(a) + Len(b) : (a \o b)[i] = IF i <= Len(a) THEN a[i] ELSE b[i - Len(a)]
    BY <1>2, ConcatProperties
  <2>3. d \in Seq(S) /\ Len(d) = Len(c) /\ \A i \in 1..Len(d) : d[i] = c[i]
    BY <1>2, <2>1, <2>2
  <2>4. d = c
    BY <1>2, <2>3, SeqEqual
  <2> QED BY <2>1, <2>4
<1>3. /\ <<f>> \in Seq(S) /\ <<g, h>> \in Seq(S) /\ <<f, g>> \in Seq(S) /\ <<h>> \in Seq(S)
      /\ <<f, g, h>> \in Seq(S)
  BY <1>1
<1>4. <<f>> \o <<g, h>> = <<f, g, h>>
  <2>1. PICK a : a = <<f>>
    OBVIOUS
  <2>2. PICK b : b = <<g, h>>
    OBVIOUS
  <2>3. PICK c : c = <<f, g, h>>
    OBVIOUS
  <2>4. Len(a) = 1 /\ Len(b) = 2 /\ Len(c) = 3 /\ a[1] = f /\ b[1] = g /\ b[2] = h
        /\ c[1] = f /\ c[2] = g /\ c[3] = h
    BY <2>1, <2>2, <2>3
  <2>5. /\ Len(c) = Len(a) + Len(b)
        /\ \A i \in 1 .. Len(a) + Len(b) : c[i] = IF i <= Len(a) THEN a[i] ELSE b[i - Len(a)]
    BY <2>4
  <2>6. a \in Seq(S) /\ b \in Seq(S) /\ c \in Seq(S)
    BY <1>3, <2>1, <2>2, <2>3
  <2>7. a \o b = c
    BY <1>2, <2>5, <2>6
  <2> QED BY <2>1, <2>2, <2>3, <2>7
<1>5. <<f, g>> \o <<h>> = <<f, g, h>>
  <2>1. PICK a : a = <<f, g>>
    OBVIOUS
  <2>2. PICK b : b = <<h>>
    OBVIOUS
  <2>3. PICK c : c = <<f, g, h>>
    OBVIOUS
  <2>4. Len(a) = 2 /\ Len(b) = 1 /\ Len(c) = 3 /\ a[1] = f /\ a[2] = g /\ b[1] = h
        /\ c[1] = f /\ c[2] = g /\ c[3] = h
    BY <2>1, <2>2, <2>3
  <2>5. /\ Len(c) = Len(a) + Len(b)
        /\ \A i \in 1 .. Len(a) + Len(b) : c[i] = IF i <= Len(a) THEN a[i] ELSE b[i - Len(a)]
    BY <2>4
  <2>6. a \in Seq(S) /\ b \in Seq(S) /\ c \in Seq(S)
    BY <1>3, <2>1, <2>2, <2>3
  <2>7. a \o b = c
    BY <1>2, <2>5, <2>6
  <2> QED BY <2>1, <2>2, <2>3, <2>7
<1> QED BY <1>4, <1>5

LEMMA Fields ==
  ASSUME NEW p, NEW i, NEW n
  PROVE  I!Frame(p, i, n).at = p /\ I!Frame(p, i, n).i = i /\ I!Frame(p, i, n).nr = n
BY DEF I!Frame

LEMMA StackKinds ==
  ASSUME NEW s
  PROVE  /\ Empties(s) => TopAt(s) = "get_empty"
         /\ Searches(s) => TopAt(s) \in {"iget", "read"}
         /\ Single(s) => TopAt(s) \in {"open", "create", "iput", "truncate", "unlink"}
         /\ Resumes(s) => TopAt(s) \in {"out", "sync", "repeat"}
         /\ Writes(s) => TopAt(s) \in {"lock", "write"}
<1>1. \A f, g, h : /\ TopAt(<<f>>) = f.at /\ TopAt(<<f, g>>) = f.at
                   /\ TopAt(<<f, g, h>>) = f.at
  BY DEF TopAt
<1>2. TopAt(<<>>) = "out"
  BY DEF TopAt
<1>3. Empties(s) => TopAt(s) = "get_empty"
  BY <1>1, Fields DEF Empties
<1>4. Searches(s) => TopAt(s) \in {"iget", "read"}
  BY <1>1, Fields DEF Searches
<1>5. Single(s) => TopAt(s) \in {"open", "create", "iput", "truncate", "unlink"}
  BY <1>1, Fields DEF Single
<1>6. Resumes(s) => TopAt(s) \in {"out", "sync", "repeat"}
  BY <1>1, <1>2, Fields DEF Resumes
<1>7. Writes(s) => TopAt(s) \in {"lock", "write"}
  BY <1>1, Fields DEF Writes
<1> QED BY <1>3, <1>4, <1>5, <1>6, <1>7

\* What a stack says of its task: the views that the invariant uses.
Emptied(s, i, r) ==
    /\ Head(s).i = NULL /\ UsedBy(s) = NULL /\ LockedBy(s) = NULL /\ Repeats(s) = NULL
    /\ ~Syncs(s) /\ Seeks(s) \in Num \cup {NULL} /\ s # <<>>
    /\ r # <<>> /\ StackRight(r) /\ TopAt(r) \in {"iget", "create"} /\ TopI(r) = i
    /\ UsedBy(r) = i /\ LockedBy(r) = NULL /\ Repeats(r) = NULL /\ ~Syncs(r)
    /\ Seeks(r) = Seeks(s) /\ Unlinks(r) = Unlinks(s)

LEMMA EmptiesViews ==
  ASSUME NEW s, Empties(s), NEW i \in I!Inode, NEW r,
         r = <<[Head(Tail(s)) EXCEPT !.i = i]>> \o Tail(Tail(s))
  PROVE  Emptied(s, i, r)
<1>0. PICK f : f = I!Frame("get_empty", NULL, NULL)
  OBVIOUS
<1>1. f.at = "get_empty" /\ f.i = NULL /\ f.nr = NULL
  BY <1>0, Fields
<1>2. CASE s = <<I!Frame("get_empty", NULL, NULL), I!Frame("create", NULL, NULL)>>
  <2>1. PICK g : g = I!Frame("create", NULL, NULL)
    OBVIOUS
  <2>2. PICK h : h = I!Frame("create", i, NULL)
    OBVIOUS
  <2>3. /\ g.at = "create" /\ g.i = NULL /\ g.nr = NULL
        /\ h.at = "create" /\ h.i = i /\ h.nr = NULL
    BY <2>1, <2>2, Fields
  <2>4. s = <<f, g>> /\ [g EXCEPT !.i = i] = h
    BY <1>0, <1>2, <2>1, <2>2 DEF I!Frame
  <2>5. View(s, f, g, g, <<g>>) /\ OneView(<<g>>, g)
    BY <2>4, TwoFrames, OneFrame
  <2>6. r = <<h>>
    BY <2>4, <2>5, JoinNone DEF View, OneView
  <2>7. OneView(r, h)
    BY <2>6, OneFrame
  <2>8. Single(r)
    BY <2>2, <2>6 DEF Single
  <2> QED BY <1>1, <2>3, <2>5, <2>7, <2>8 DEF View, OneView, StackRight, UsedBy, LockedBy, Emptied
<1>3. CASE \E n \in Num : \E c : IsCaller(c, n)
         /\ s = <<I!Frame("get_empty", NULL, NULL), I!Frame("iget", NULL, n), c>>
  <2>1. PICK n \in Num : \E c : IsCaller(c, n)
         /\ s = <<I!Frame("get_empty", NULL, NULL), I!Frame("iget", NULL, n), c>>
    BY <1>3
  <2>2. PICK c : IsCaller(c, n)
         /\ s = <<I!Frame("get_empty", NULL, NULL), I!Frame("iget", NULL, n), c>>
    BY <2>1
  <2>3. PICK g : g = I!Frame("iget", NULL, n)
    OBVIOUS
  <2>4. PICK h : h = I!Frame("iget", i, n)
    OBVIOUS
  <2>5. /\ g.at = "iget" /\ g.i = NULL /\ g.nr = n
        /\ h.at = "iget" /\ h.i = i /\ h.nr = n
        /\ c.at \in {"open", "unlink"}
    BY <2>2, <2>3, <2>4, Fields DEF IsCaller
  <2>6. s = <<f, g, c>> /\ [g EXCEPT !.i = i] = h
    BY <1>0, <2>2, <2>3, <2>4 DEF I!Frame
  <2>7. View(s, f, g, c, <<g, c>>) /\ View(<<g, c>>, g, c, c, <<c>>)
    BY <2>6, TwoFrames, ThreeFrames
  <2>8. r = <<h, c>>
    BY <2>6, <2>7, JoinTwo DEF View
  <2>9. View(r, h, c, c, <<c>>)
    BY <2>8, TwoFrames
  <2>10. Searches(r)
    BY <2>2, <2>4, <2>8 DEF Searches
  <2> QED BY <1>1, <2>5, <2>7, <2>9, <2>10 DEF View, StackRight, UsedBy, LockedBy, Emptied
<1> QED BY <1>2, <1>3 DEF Empties

Searched(s, r) ==
    /\ s # <<>> /\ Repeats(s) = NULL /\ ~Syncs(s) /\ UsedBy(s) = TopI(s)
    /\ LockedBy(s) = (IF TopAt(s) = "read" THEN TopI(s) ELSE NULL)
    /\ Head(s).i = TopI(s) /\ Head(s).nr = TopNr(s) /\ Head(s).at = TopAt(s)
    /\ TopI(s) \in I!Inode /\ TopNr(s) \in Num /\ Seeks(s) = TopNr(s)
    /\ Unlinks(s) \in {NULL, TopNr(s)}
    /\ r # <<>> /\ StackRight(r) /\ TopAt(r) = "read" /\ TopI(r) = TopI(s)
    /\ TopNr(r) = TopNr(s) /\ UsedBy(r) = TopI(s) /\ LockedBy(r) = TopI(s)
    /\ Seeks(r) = TopNr(s) /\ Unlinks(r) = Unlinks(s) /\ ~Syncs(r)
    /\ Repeats(r) = NULL

LEMMA SearchesViews ==
  ASSUME NEW s, Searches(s), NEW r, r = <<[Head(s) EXCEPT !.at = "read"]>> \o Tail(s)
  PROVE  Searched(s, r)
<1>1. PICK p \in {"iget", "read"}, i \in I!Inode, n \in Num : \E c :
         IsCaller(c, n) /\ s = <<I!Frame(p, i, n), c>>
  BY DEF Searches
<1>2. PICK c : IsCaller(c, n) /\ s = <<I!Frame(p, i, n), c>>
  BY <1>1
<1>3. PICK f : f = I!Frame(p, i, n)
  OBVIOUS
<1>4. PICK g : g = I!Frame("read", i, n)
  OBVIOUS
<1>5. /\ f.at = p /\ f.i = i /\ f.nr = n
      /\ g.at = "read" /\ g.i = i /\ g.nr = n
      /\ c.at \in {"open", "unlink"} /\ (c.at = "unlink" => c.nr = n)
  BY <1>2, <1>3, <1>4, Fields DEF IsCaller
<1>6. s = <<f, c>> /\ [f EXCEPT !.at = "read"] = g
  BY <1>2, <1>3, <1>4 DEF I!Frame
<1>8. View(s, f, c, c, <<c>>)
  BY <1>6, TwoFrames
<1>9. r = <<g, c>>
  BY <1>6, <1>8, JoinTwo DEF View
<1>10. View(r, g, c, c, <<c>>)
  BY <1>9, TwoFrames
<1>11. Searches(r)
  BY <1>2, <1>4, <1>9 DEF Searches
<1>12. /\ r # <<>> /\ StackRight(r) /\ TopAt(r) = "read" /\ TopI(r) = TopI(s)
       /\ TopNr(r) = TopNr(s) /\ UsedBy(r) = TopI(s) /\ LockedBy(r) = TopI(s)
       /\ Seeks(r) = TopNr(s) /\ Unlinks(r) = Unlinks(s) /\ ~Syncs(r)
       /\ Repeats(r) = NULL
  BY <1>5, <1>8, <1>10, <1>11 DEF View, StackRight, UsedBy, LockedBy
<1> QED BY <1>1, <1>5, <1>8, <1>12 DEF View, UsedBy, LockedBy, Searched

Found(s, i, r) ==
    /\ r # <<>> /\ StackRight(r) /\ TopAt(r) \in {"open", "unlink"} /\ TopI(r) = i
    /\ UsedBy(r) = i /\ LockedBy(r) = NULL /\ Repeats(r) = NULL /\ ~Syncs(r)
    /\ Unlinks(r) = Unlinks(s) /\ Seeks(r) \in {NULL, Seeks(s)}
    /\ TopAt(r) = "unlink" => TopNr(r) = TopNr(s)

LEMMA FoundViews ==
  ASSUME NEW s, Searches(s), NEW i \in I!Inode, NEW r,
         r = <<[Head(Tail(s)) EXCEPT !.i = i]>> \o Tail(Tail(s))
  PROVE  Found(s, i, r)
<1>1. PICK p \in {"iget", "read"}, j \in I!Inode, n \in Num : \E c :
         IsCaller(c, n) /\ s = <<I!Frame(p, j, n), c>>
  BY DEF Searches
<1>2. PICK c : IsCaller(c, n) /\ s = <<I!Frame(p, j, n), c>>
  BY <1>1
<1>3. PICK f : f = I!Frame(p, j, n)
  OBVIOUS
<1>4. PICK g : g = [c EXCEPT !.i = i]
  OBVIOUS
<1>5. /\ f.at = p /\ f.i = j /\ f.nr = n
      /\ c.at \in {"open", "unlink"} /\ (c.at = "unlink" => c.nr = n)
      /\ g.at = c.at /\ g.i = i /\ g.nr = c.nr
      /\ g = I!Frame("open", i, NULL) \/ g = I!Frame("unlink", i, n)
  BY <1>2, <1>3, <1>4 DEF IsCaller, I!Frame
<1>6. View(s, f, c, c, <<c>>) /\ OneView(<<c>>, c)
  BY <1>2, <1>3, TwoFrames, OneFrame
<1>7. r = <<g>>
  BY <1>4, <1>6, JoinNone DEF View, OneView
<1>8. OneView(r, g)
  BY <1>7, OneFrame
<1>9. Single(r)
  BY <1>5, <1>7 DEF Single
<1> QED BY <1>5, <1>6, <1>8, <1>9 DEF View, OneView, StackRight, UsedBy, LockedBy, Found

LEMMA SingleViews ==
  ASSUME NEW s, Single(s)
  PROVE  /\ s # <<>> /\ Tail(s) = <<>> /\ Head(s).i = TopI(s) /\ Head(s).nr = TopNr(s)
         /\ UsedBy(s) = TopI(s) /\ TopI(s) \in I!Inode /\ LockedBy(s) = NULL
         /\ Repeats(s) = NULL /\ ~Syncs(s) /\ StackRight(s)
         /\ TopAt(s) = "unlink" => TopNr(s) \in Num /\ Seeks(s) = TopNr(s) /\ Unlinks(s) = TopNr(s)
         /\ TopAt(s) # "unlink" => Seeks(s) = NULL /\ Unlinks(s) = NULL
<1>1. CASE \E p \in {"open", "create", "iput", "truncate"} : \E i \in I!Inode :
             s = <<I!Frame(p, i, NULL)>>
  <2>1. PICK p \in {"open", "create", "iput", "truncate"}, i \in I!Inode :
             s = <<I!Frame(p, i, NULL)>>
    BY <1>1
  <2>2. PICK f : f = I!Frame(p, i, NULL)
    OBVIOUS
  <2>3. f.at = p /\ f.i = i /\ f.nr = NULL /\ OneView(s, f)
    BY <2>1, <2>2, OneFrame, Fields
  <2> QED BY <2>3 DEF OneView, UsedBy, LockedBy, StackRight
<1>2. CASE \E i \in I!Inode : \E n \in Num : s = <<I!Frame("unlink", i, n)>>
  <2>1. PICK i \in I!Inode, n \in Num : s = <<I!Frame("unlink", i, n)>>
    BY <1>2
  <2>2. PICK f : f = I!Frame("unlink", i, n)
    OBVIOUS
  <2>3. f.at = "unlink" /\ f.i = i /\ f.nr = n /\ OneView(s, f)
    BY <2>1, <2>2, OneFrame, Fields
  <2> QED BY <2>3 DEF OneView, UsedBy, LockedBy, StackRight
<1> QED BY <1>1, <1>2 DEF Single

LEMMA FrameViews ==
  ASSUME NEW p, p \in {"open", "create", "iput", "truncate", "repeat", "sync"},
         NEW i \in I!Inode, NEW s, s = <<I!Frame(p, i, NULL)>>
  PROVE  /\ s # <<>> /\ StackRight(s) /\ TopAt(s) = p /\ TopI(s) = i
         /\ UsedBy(s) = (IF p = "sync" THEN NULL ELSE i) /\ LockedBy(s) = NULL
         /\ Repeats(s) = (IF p = "repeat" THEN i ELSE NULL) /\ (Syncs(s) <=> p = "sync")
         /\ Seeks(s) = NULL /\ Unlinks(s) = NULL
<1>1. PICK f : f = I!Frame(p, i, NULL)
  OBVIOUS
<1>2. f.at = p /\ f.i = i /\ f.nr = NULL /\ OneView(s, f)
  BY <1>1, OneFrame, Fields
<1>3. Single(s) \/ Resumes(s)
  BY DEF Single, Resumes
<1> QED BY <1>2, <1>3 DEF OneView, UsedBy, LockedBy, StackRight

LEMMA NoFrames ==
  /\ TopAt(<<>>) = "out" /\ TopI(<<>>) = NULL /\ TopNr(<<>>) = NULL /\ UsedBy(<<>>) = NULL
  /\ LockedBy(<<>>) = NULL /\ Repeats(<<>>) = NULL /\ Seeks(<<>>) = NULL
  /\ Unlinks(<<>>) = NULL /\ ~Syncs(<<>>) /\ Resumes(<<>>) /\ StackRight(<<>>)
<1>1. Len(<<>>) = 0
  OBVIOUS
<1> QED BY <1>1 DEF TopAt, TopI, TopNr, UsedBy, LockedBy, Repeats, Seeks, Unlinks, Syncs, Resumes,
        StackRight

LEMMA ResumesViews ==
  ASSUME NEW s, Resumes(s)
  PROVE  /\ Seeks(s) = NULL /\ Unlinks(s) = NULL /\ LockedBy(s) = NULL
         /\ UsedBy(s) = Repeats(s) /\ Repeats(s) \in I!Inode \cup {NULL}
         /\ StackRight(s)
         /\ TopAt(s) = "repeat" => /\ s # <<>> /\ Tail(s) = <<>> /\ ~Syncs(s)
                                   /\ Head(s).i = TopI(s) /\ Repeats(s) = TopI(s)
                                   /\ TopI(s) \in I!Inode
         /\ TopAt(s) = "sync" => /\ s # <<>> /\ Syncs(s)
                                 /\ Head(s).i = TopI(s) /\ TopI(s) \in I!Inode
                                 /\ Resumes(Tail(s)) /\ ~Syncs(Tail(s))
                                 /\ Repeats(Tail(s)) = Repeats(s)
                                 /\ TopAt(Tail(s)) \in {"out", "repeat"}
<1>1. CASE s = <<>>
  BY <1>1, NoFrames
<1>2. CASE \E p \in {"sync", "repeat"} : \E i \in I!Inode : s = <<I!Frame(p, i, NULL)>>
  <2>1. PICK p \in {"sync", "repeat"}, i \in I!Inode : s = <<I!Frame(p, i, NULL)>>
    BY <1>2
  <2>2. PICK f : f = I!Frame(p, i, NULL)
    OBVIOUS
  <2>3. f.at = p /\ f.i = i /\ f.nr = NULL /\ OneView(s, f)
    BY <2>1, <2>2, OneFrame, Fields
  <2> QED BY <2>3, NoFrames DEF OneView, UsedBy, LockedBy, StackRight
<1>3. CASE \E k \in I!Inode : \E i \in I!Inode :
             s = <<I!Frame("sync", k, NULL), I!Frame("repeat", i, NULL)>>
  <2>1. PICK k \in I!Inode, i \in I!Inode :
             s = <<I!Frame("sync", k, NULL), I!Frame("repeat", i, NULL)>>
    BY <1>3
  <2>2. PICK f : f = I!Frame("sync", k, NULL)
    OBVIOUS
  <2>3. PICK g : g = I!Frame("repeat", i, NULL)
    OBVIOUS
  <2>4. /\ f.at = "sync" /\ f.i = k /\ f.nr = NULL
        /\ g.at = "repeat" /\ g.i = i /\ g.nr = NULL
        /\ View(s, f, g, g, <<g>>) /\ OneView(<<g>>, g)
    BY <2>1, <2>2, <2>3, OneFrame, TwoFrames, Fields
  <2>5. Resumes(<<g>>)
    BY <2>3 DEF Resumes
  <2> QED BY <2>4, <2>5 DEF View, OneView, UsedBy, LockedBy, StackRight
<1> QED BY <1>1, <1>2, <1>3 DEF Resumes

WriteFrame(f) == \E j \in I!Inode : \/ f = I!Frame("lock", j, NULL)
                                   \/ \E n \in Num : f = I!Frame("write", j, n)

\* Writing an inode is put on top of what is to be done after it.
Pushed(r, f, s) ==
    /\ r # <<>> /\ Writes(r) /\ StackRight(r) /\ TopAt(r) = f.at /\ TopI(r) = f.i
    /\ TopNr(r) = f.nr /\ UsedBy(r) = UsedBy(s) /\ Repeats(r) = Repeats(s)
    /\ LockedBy(r) = (IF f.at = "write" THEN f.i ELSE NULL)
    /\ (Syncs(r) <=> Syncs(s)) /\ Seeks(r) = NULL /\ Unlinks(r) = NULL
    /\ Head(r) = f /\ Tail(r) = s

LEMMA PushViews ==
  ASSUME NEW s, Resumes(s), NEW f, WriteFrame(f), NEW r, r = <<f>> \o s
  PROVE  Pushed(r, f, s)
<1>1. PICK j \in I!Inode : f = I!Frame("lock", j, NULL) \/ \E n \in Num : f = I!Frame("write", j, n)
  BY DEF WriteFrame
<1>2. f.at \in {"lock", "write"} /\ f.i = j /\ (f.at = "lock" => f.nr = NULL)
  BY <1>1, Fields
<1>3. UsedBy(s) = Repeats(s)
  BY ResumesViews
<1>4. CASE s = <<>>
  <2>1. r = <<f>>
    BY <1>4, JoinNone
  <2>2. OneView(r, f)
    BY <2>1, OneFrame
  <2>3. Writes(r)
    BY <1>1, <2>1 DEF Writes
  <2> QED BY <1>2, <1>3, <1>4, <2>2, <2>3, NoFrames DEF OneView, UsedBy, LockedBy, StackRight, Pushed
<1>5. CASE \E p \in {"sync", "repeat"} : \E i \in I!Inode : s = <<I!Frame(p, i, NULL)>>
  <2>1. PICK p \in {"sync", "repeat"}, i \in I!Inode : s = <<I!Frame(p, i, NULL)>>
    BY <1>5
  <2>2. PICK g : g = I!Frame(p, i, NULL)
    OBVIOUS
  <2>3. g.at = p /\ g.i = i /\ g.nr = NULL /\ OneView(s, g) /\ s = <<g>>
    BY <2>1, <2>2, OneFrame, Fields
  <2>4. r = <<f, g>>
    BY <2>3, JoinTwo
  <2>5. View(r, f, g, g, s)
    BY <2>3, <2>4, TwoFrames
  <2>6. Writes(r)
    BY <1>1, <2>2, <2>4 DEF Writes
  <2> QED BY <1>2, <1>3, <2>3, <2>5, <2>6 DEF View, OneView, UsedBy, LockedBy, StackRight, Pushed
<1>6. CASE \E k \in I!Inode : \E i \in I!Inode :
             s = <<I!Frame("sync", k, NULL), I!Frame("repeat", i, NULL)>>
  <2>1. PICK k \in I!Inode, i \in I!Inode :
             s = <<I!Frame("sync", k, NULL), I!Frame("repeat", i, NULL)>>
    BY <1>6
  <2>2. PICK g : g = I!Frame("sync", k, NULL)
    OBVIOUS
  <2>3. PICK h : h = I!Frame("repeat", i, NULL)
    OBVIOUS
  <2>4. /\ g.at = "sync" /\ g.i = k /\ g.nr = NULL
        /\ h.at = "repeat" /\ h.i = i /\ h.nr = NULL
        /\ View(s, g, h, h, <<h>>) /\ s = <<g, h>>
    BY <2>1, <2>2, <2>3, TwoFrames, Fields
  <2>5. r = <<f, g, h>>
    BY <2>4, JoinThree
  <2>6. View(r, f, g, h, s)
    BY <2>4, <2>5, ThreeFrames
  <2>7. Writes(r)
    BY <1>1, <2>2, <2>3, <2>5 DEF Writes
  <2> QED BY <1>2, <1>3, <2>4, <2>6, <2>7 DEF View, UsedBy, LockedBy, StackRight, Pushed
<1> QED BY <1>4, <1>5, <1>6 DEF Resumes

LEMMA WritesViews ==
  ASSUME NEW s, Writes(s)
  PROVE  /\ s # <<>> /\ StackRight(s) /\ Resumes(Tail(s)) /\ TopI(s) \in I!Inode
         /\ Head(s).i = TopI(s) /\ Head(s).nr = TopNr(s)
         /\ UsedBy(Tail(s)) = UsedBy(s) /\ Repeats(Tail(s)) = Repeats(s) /\ UsedBy(s) = Repeats(s)
         /\ LockedBy(s) = (IF TopAt(s) = "write" THEN TopI(s) ELSE NULL)
         /\ (Syncs(Tail(s)) <=> Syncs(s)) /\ Seeks(s) = NULL /\ Unlinks(s) = NULL
         /\ TopAt(s) = "write" => TopNr(s) \in Num
<1>1. PICK j \in I!Inode : \E f :
       /\ f = I!Frame("lock", j, NULL) \/ \E n \in Num : f = I!Frame("write", j, n)
       /\ \/ s = <<f>>
          \/ \E p \in {"sync", "repeat"} : \E i \in I!Inode : s = <<f, I!Frame(p, i, NULL)>>
          \/ \E k \in I!Inode : \E i \in I!Inode :
                s = <<f, I!Frame("sync", k, NULL), I!Frame("repeat", i, NULL)>>
  BY DEF Writes
<1>2. PICK f :
       /\ f = I!Frame("lock", j, NULL) \/ \E n \in Num : f = I!Frame("write", j, n)
       /\ \/ s = <<f>>
          \/ \E p \in {"sync", "repeat"} : \E i \in I!Inode : s = <<f, I!Frame(p, i, NULL)>>
          \/ \E k \in I!Inode : \E i \in I!Inode :
                s = <<f, I!Frame("sync", k, NULL), I!Frame("repeat", i, NULL)>>
  BY <1>1
<1>3. WriteFrame(f) /\ f.i = j /\ f.at \in {"lock", "write"} /\ (f.at = "write" => f.nr \in Num)
  BY <1>2, Fields DEF WriteFrame
<1>4. \E q : Resumes(q) /\ s = <<f>> \o q
  <2>1. CASE s = <<f>>
    BY <2>1, JoinNone, NoFrames
  <2>2. CASE \E p \in {"sync", "repeat"} : \E i \in I!Inode : s = <<f, I!Frame(p, i, NULL)>>
    <3>1. PICK p \in {"sync", "repeat"}, i \in I!Inode : s = <<f, I!Frame(p, i, NULL)>>
      BY <2>2
    <3>2. s = <<f>> \o <<I!Frame(p, i, NULL)>>
      BY <3>1, JoinTwo
    <3>3. Resumes(<<I!Frame(p, i, NULL)>>)
      BY DEF Resumes
    <3> QED BY <3>2, <3>3
  <2>3. CASE \E k \in I!Inode : \E i \in I!Inode :
                s = <<f, I!Frame("sync", k, NULL), I!Frame("repeat", i, NULL)>>
    <3>1. PICK k \in I!Inode, i \in I!Inode :
                s = <<f, I!Frame("sync", k, NULL), I!Frame("repeat", i, NULL)>>
      BY <2>3
    <3>2. s = <<f>> \o <<I!Frame("sync", k, NULL), I!Frame("repeat", i, NULL)>>
      BY <3>1, JoinThree
    <3>3. Resumes(<<I!Frame("sync", k, NULL), I!Frame("repeat", i, NULL)>>)
      BY DEF Resumes
    <3> QED BY <3>2, <3>3
  <2> QED BY <1>2, <2>1, <2>2, <2>3
<1>5. PICK q : Resumes(q) /\ s = <<f>> \o q
  BY <1>4
<1>6. /\ s # <<>> /\ StackRight(s) /\ TopAt(s) = f.at /\ TopI(s) = f.i
      /\ TopNr(s) = f.nr /\ UsedBy(s) = UsedBy(q) /\ Repeats(s) = Repeats(q)
      /\ LockedBy(s) = (IF f.at = "write" THEN f.i ELSE NULL)
      /\ (Syncs(s) <=> Syncs(q)) /\ Seeks(s) = NULL /\ Unlinks(s) = NULL
      /\ Head(s) = f /\ Tail(s) = q
  <2>1. Pushed(s, f, q)
    BY <1>3, <1>5, PushViews
  <2> QED BY <2>1 DEF Pushed
<1>7. UsedBy(q) = Repeats(q)
  BY <1>5, ResumesViews
<1> QED BY <1>3, <1>5, <1>6, <1>7

LEMMA SyncViews ==
  ASSUME NEW s, Resumes(s), TopAt(s) \in {"out", "repeat"}, NEW k \in I!Inode, NEW r,
         r = <<I!Frame("sync", k, NULL)>> \o s
  PROVE  /\ Resumes(r) /\ TopAt(r) = "sync" /\ TopI(r) = k /\ Syncs(r)
         /\ UsedBy(r) = UsedBy(s) /\ Repeats(r) = Repeats(s)
         /\ \A f : <<f, I!Frame("sync", k, NULL)>> \o s = <<f>> \o r
<1>1. PICK g : g = I!Frame("sync", k, NULL)
  OBVIOUS
<1>2. g.at = "sync" /\ g.i = k
  BY <1>1, Fields
<1>3. CASE s = <<>>
  <2>1. r = <<g>>
    BY <1>1, <1>3, JoinNone
  <2>2. OneView(r, g)
    BY <2>1, OneFrame
  <2>3. Resumes(r)
    BY <1>1, <2>1 DEF Resumes
  <2>4. \A f : <<f, g>> \o s = <<f>> \o r
    BY <1>3, <2>1, JoinTwo
  <2> QED BY <1>1, <1>2, <1>3, <2>2, <2>3, <2>4, NoFrames DEF OneView, UsedBy
<1>4. CASE s # <<>>
  <2>0. PICK i \in I!Inode : s = <<I!Frame("repeat", i, NULL)>>
    <3>1. ~\E i \in I!Inode : s = <<I!Frame("sync", i, NULL)>>
      BY OneFrame, Fields DEF OneView
    <3>2. ~\E j \in I!Inode : \E i \in I!Inode :
             s = <<I!Frame("sync", j, NULL), I!Frame("repeat", i, NULL)>>
      <4>1. \A f, h : TopAt(<<f, h>>) = f.at
        BY DEF TopAt
      <4> QED BY <4>1, Fields
    <3> QED BY <1>4, <3>1, <3>2 DEF Resumes
  <2>1. PICK h : h = I!Frame("repeat", i, NULL)
    OBVIOUS
  <2>2. h.at = "repeat" /\ h.i = i /\ s = <<h>> /\ OneView(s, h)
    BY <2>0, <2>1, Fields, OneFrame
  <2>3. r = <<g, h>>
    BY <1>1, <2>2, JoinTwo
  <2>4. View(r, g, h, h, s)
    BY <2>2, <2>3, TwoFrames
  <2>5. Resumes(r)
    BY <1>1, <2>1, <2>3 DEF Resumes
  <2>6. \A f : <<f, g>> \o s = <<f>> \o r
    BY <2>2, <2>3, JoinThree
  <2> QED BY <1>1, <1>2, <2>2, <2>4, <2>5, <2>6 DEF View, OneView, UsedBy
<1> QED BY <1>3, <1>4

\* The entries that a stack is at work on.
LEMMA WorkViews ==
  ASSUME NEW s, StackRight(s)
  PROVE  /\ Repeats(s) # NULL => UsedBy(s) = Repeats(s) /\ Repeats(s) \in I!Inode
         /\ TopAt(s) \in {"iget", "create", "read", "open", "unlink", "truncate", "iput"}
              => UsedBy(s) = TopI(s) /\ TopI(s) \in I!Inode
         /\ TopAt(s) \in {"read", "write"} => LockedBy(s) = TopI(s) /\ TopI(s) \in I!Inode
         /\ TopAt(s) = "lock" => TopI(s) \in I!Inode
         /\ UsedBy(s) \in I!Inode \cup {NULL} /\ LockedBy(s) \in I!Inode \cup {NULL}
         /\ Seeks(s) \in Num \cup {NULL} /\ Unlinks(s) \in Num \cup {NULL}
         /\ TopAt(s) = "get_empty" => UsedBy(s) = NULL /\ LockedBy(s) = NULL /\ Head(s).i = NULL
<1>1. CASE Empties(s)
  <2>1. ASSUME NEW f, NEW g, NEW c, f.at = "get_empty", f.i = NULL,
               g.at \in {"create", "iget"}, g.at = "iget" => g.nr \in Num,
               c.at \in {"create", "open", "unlink"}, c.at = "unlink" => c.nr \in Num,
               NEW rest, View(s, f, g, c, rest)
        PROVE  /\ TopAt(s) = "get_empty" /\ UsedBy(s) = NULL /\ LockedBy(s) = NULL /\ Head(s).i = NULL
               /\ Repeats(s) = NULL /\ Seeks(s) \in Num \cup {NULL}
               /\ Unlinks(s) \in Num \cup {NULL}
    BY <2>1 DEF View, UsedBy, LockedBy
  <2>2. PICK f : f = I!Frame("get_empty", NULL, NULL)
    OBVIOUS
  <2>3. f.at = "get_empty" /\ f.i = NULL
    BY <2>2, Fields
  <2>4. CASE s = <<I!Frame("get_empty", NULL, NULL), I!Frame("create", NULL, NULL)>>
    <3>1. PICK g : g = I!Frame("create", NULL, NULL)
      OBVIOUS
    <3>2. g.at = "create" /\ View(s, f, g, g, <<g>>)
      BY <2>2, <2>4, <3>1, Fields, TwoFrames
    <3>3. /\ TopAt(s) = "get_empty" /\ UsedBy(s) = NULL /\ LockedBy(s) = NULL /\ Head(s).i = NULL
          /\ Repeats(s) = NULL /\ Seeks(s) \in Num \cup {NULL}
          /\ Unlinks(s) \in Num \cup {NULL}
      BY <2>1, <2>3, <3>2
    <3> QED BY <3>3
  <2>5. CASE \E n \in Num : \E c : IsCaller(c, n)
         /\ s = <<I!Frame("get_empty", NULL, NULL), I!Frame("iget", NULL, n), c>>
    <3>1. PICK n \in Num : \E c : IsCaller(c, n)
         /\ s = <<I!Frame("get_empty", NULL, NULL), I!Frame("iget", NULL, n), c>>
      BY <2>5
    <3>2. PICK c : IsCaller(c, n)
         /\ s = <<I!Frame("get_empty", NULL, NULL), I!Frame("iget", NULL, n), c>>
      BY <3>1
    <3>3. PICK g : g = I!Frame("iget", NULL, n)
      OBVIOUS
    <3>4. /\ g.at = "iget" /\ g.nr = n /\ View(s, f, g, c, <<g, c>>)
          /\ c.at \in {"open", "unlink"} /\ (c.at = "unlink" => c.nr = n)
      BY <2>2, <3>2, <3>3, Fields, ThreeFrames DEF IsCaller
    <3>5. /\ TopAt(s) = "get_empty" /\ UsedBy(s) = NULL /\ LockedBy(s) = NULL /\ Head(s).i = NULL
          /\ Repeats(s) = NULL /\ Seeks(s) \in Num \cup {NULL}
          /\ Unlinks(s) \in Num \cup {NULL}
      BY <2>1, <2>3, <3>4
    <3> QED BY <3>5
  <2> QED BY <1>1, <2>4, <2>5 DEF Empties
<1>2. CASE Searches(s)
  <2>1. PICK r : r = <<[Head(s) EXCEPT !.at = "read"]>> \o Tail(s)
    OBVIOUS
  <2>2. Searched(s, r) /\ TopAt(s) \in {"iget", "read"}
    BY <1>2, <2>1, SearchesViews, StackKinds
  <2> QED BY <2>2 DEF Searched
<1>3. CASE Single(s)
  <2>1. TopAt(s) \in {"open", "create", "iput", "truncate", "unlink"}
    BY <1>3, StackKinds
  <2> QED BY <1>3, <2>1, SingleViews
<1>4. CASE Resumes(s)
  <2>1. TopAt(s) \in {"out", "sync", "repeat"}
    BY <1>4, StackKinds
  <2> QED BY <1>4, <2>1, ResumesViews
<1>5. CASE Writes(s)
  <2>1. TopAt(s) \in {"lock", "write"}
    BY <1>5, StackKinds
  <2>2. Resumes(Tail(s)) /\ Repeats(Tail(s)) = Repeats(s)
    BY <1>5, WritesViews
  <2>3. Repeats(s) \in I!Inode \cup {NULL}
    BY <2>2, ResumesViews
  <2> QED BY <1>5, <2>1, <2>3, WritesViews
<1> QED BY <1>1, <1>2, <1>3, <1>4, <1>5 DEF StackRight

-----------------------------------------------------------------------------
(***************************************************************************)
(* Inodes.                                                                 *)
(***************************************************************************)
\* The features of the run: only files that nobody else may be opening are
\* unlinked, not while inodes are written that no caller counts, and getblk()
\* finds a clean buffer.
InodesAreTame ==
    \A r \in InodeRegimes :
       /\ r \cap {"unlink_shared", "dirty_buffers"} = {}
       /\ "unlink" \in r => r \cap {"sync", "block_files"} = {}

StackUse == [t \in Task |-> UsedBy(stack[t])]

InodeUsesCounted ==
    \A i \in I!Inode :
       table[i].i_count = Number(held, Task, i) + Number(StackUse, Task, i)

Entry == [i_num : Num \cup {NULL}, i_count : Nat, i_dirt : BOOLEAN, i_lock : BOOLEAN,
          i_nlinks : 0..1, data : 0..1, i_wait : SUBSET Task]

InodeTypes ==
    /\ on \in InodeRegimes
    /\ table \in [I!Inode -> Entry]
    /\ disk \in [Num -> [i_nlinks : 0..1, data : 0..1]]
    /\ imap \subseteq Num
    /\ names \in [Num -> SUBSET Task]
    /\ latest \in [Num -> 0..1]
    /\ stack = [t \in Task |-> stack[t]]
    /\ held \in [Task -> I!Inode \cup {NULL}]
    /\ asleep \subseteq Task

\* What the task is at, and the entry and the number that it is at work on.
TaskRight(t) ==
    LET s == stack[t]
        e == table[TopI(s)]
    IN
    /\ StackRight(s)
    /\ "unlink" \in on => ~Syncs(s)
    /\ "unlink" \in on /\ TopAt(s) \in {"lock", "write"} => UsedBy(s) = TopI(s)
    /\ held[t] # NULL => table[held[t]].i_num # NULL
    /\ Repeats(s) # NULL => table[Repeats(s)].i_num # NULL
    /\ TopAt(s) \in {"iget", "create"} => e.i_num = NULL /\ e.i_count = 1
    /\ TopAt(s) = "read" => e.i_num = TopNr(s) /\ e.i_count = 1 /\ ~e.i_dirt
    /\ TopAt(s) = "open" => e.i_num # NULL
    /\ TopAt(s) = "unlink" => e.i_num = TopNr(s)
    /\ TopAt(s) = "write" => e.i_num = TopNr(s) /\ e.i_dirt
    /\ TopAt(s) = "truncate" => e.i_num # NULL /\ e.i_count = 1 /\ e.i_nlinks = 0 /\ ~e.i_lock
    /\ TopAt(s) \in {"get_empty", "iget", "read", "open", "create"} /\ Unlinks(s) = NULL
         => held[t] = NULL
    /\ Seeks(s) # NULL => t \in names[Seeks(s)]
    /\ Unlinks(s) # NULL => names[Unlinks(s)] = {t} /\ "unlink" \in on
    /\ LockedBy(s) # NULL => table[LockedBy(s)].i_lock /\ t \notin asleep
    /\ t \in asleep => \E i \in I!Inode : t \in table[i].i_wait

Reading(i) == \E t \in Task : TopAt(stack[t]) = "read" /\ TopI(stack[t]) = i

EntryRight(i) ==
    LET e == table[i] IN
    /\ e.i_num = NULL => ~e.i_dirt /\ ~e.i_lock /\ e.data = 0
    /\ e.i_count = 0 => ~e.i_dirt /\ ~e.i_lock
    /\ e.i_wait # {} => e.i_lock
    /\ e.i_lock => \E t \in Task : LockedBy(stack[t]) = i
    /\ e.i_num # NULL => e.i_num \in imap
    /\ e.i_num # NULL /\ ~Reading(i) =>
          /\ e.i_nlinks = 1 <=> names[e.i_num] # {}
          /\ names[e.i_num] # {} => e.data = latest[e.i_num]
          /\ e.i_nlinks = 0 => "unlink" \in on

OneLocker ==
    \A t, u \in Task :
       LockedBy(stack[t]) = LockedBy(stack[u]) /\ LockedBy(stack[t]) # NULL => t = u

OneEntry ==
    \A i, j \in I!Inode : table[i].i_num # NULL /\ table[i].i_num = table[j].i_num => i = j

\* What the device has of a file that the table has not, or has not changed.
NumRight(n) ==
    names[n] # {} =>
       /\ n \in imap
       /\ (\A i \in I!Inode : table[i].i_num = n /\ ~Reading(i) => ~table[i].i_dirt)
             => disk[n].i_nlinks = 1 /\ disk[n].data = latest[n]

InodeInv ==
    /\ InodeTypes /\ InodesAreTame /\ panic \in {NULL, "No free inodes"}
    /\ \A t \in Task : TaskRight(t)
    /\ \A i \in I!Inode : EntryRight(i)
    /\ OneLocker /\ OneEntry
    /\ \A n \in Num : NumRight(n)
    /\ InodeUsesCounted

LEMMA InodeConstants ==
  /\ IsFiniteSet(Task) /\ NULL \notin I!Inode /\ NULL \notin Num /\ NULL \notin Task
  /\ I!Inode \subseteq Nat /\ Num \subseteq Nat
<1>1. IsFiniteSet(Task)
  BY MountsFinite
<1>2. NR_INODE \in Nat /\ Num \subseteq Nat /\ NULL \notin Nat \cup Task
  BY FilesAssumption DEF I!InodeTableAssumption
<1>3. I!Inode \subseteq Nat
  BY <1>2 DEF I!Inode
<1>4. NULL \notin I!Inode /\ NULL \notin Num /\ NULL \notin Task
  BY <1>2, <1>3
<1> QED BY <1>1, <1>2, <1>3, <1>4

LEMMA TwoUsers ==
  ASSUME NEW S, IsFiniteSet(S), NEW f, NEW x \in S, NEW y \in S, x # y, f[x] = f[y]
  PROVE  Number(f, S, f[x]) >= 2
<1>1. IsFiniteSet({x, y}) /\ Cardinality({x, y}) = 2
  <2>1. {x, y} = {x} \cup {y} /\ y \notin {x}
    OBVIOUS
  <2>2. IsFiniteSet({x}) /\ Cardinality({x}) = 1
    BY FS_Singleton
  <2>3. PICK A : A = {x}
    OBVIOUS
  <2>4. IsFiniteSet(A) /\ y \notin A /\ Cardinality(A) = 1
    BY <2>1, <2>2, <2>3
  <2>5. IsFiniteSet(A \cup {y}) /\ Cardinality(A \cup {y}) = Cardinality(A) + 1
    BY <2>4, FS_AddElement
  <2> QED BY <2>1, <2>3, <2>4, <2>5
<1>2. {x, y} \subseteq {z \in S : f[z] = f[x]} /\ IsFiniteSet({z \in S : f[z] = f[x]})
  BY FS_Subset
<1> QED BY <1>1, <1>2, FS_Subset, FS_CardinalityType DEF Number

\* Who holds an entry or works on it has it counted.
LEMMA EntryUsers ==
  ASSUME InodeInv, NEW i \in I!Inode
  PROVE  /\ table[i].i_count \in Nat
         /\ \A u \in Task : held[u] = i \/ UsedBy(stack[u]) = i => table[i].i_count >= 1
         /\ \A t, u \in Task : held[u] = i /\ UsedBy(stack[t]) = i => table[i].i_count >= 2
         /\ \A t, u \in Task : t # u /\ UsedBy(stack[u]) = i /\ UsedBy(stack[t]) = i
                                => table[i].i_count >= 2
<1>1. PICK f : f = StackUse
  OBVIOUS
<1>2. PICK h : h = held
  OBVIOUS
<1>3. /\ table[i].i_count \in Nat
      /\ table[i].i_count = Number(h, Task, i) + Number(f, Task, i)
  BY <1>1, <1>2 DEF InodeInv, InodeTypes, Entry, InodeUsesCounted
<1>4. /\ Number(h, Task, i) \in Nat /\ Number(f, Task, i) \in Nat
      /\ Number(h, Task, i) = 0 <=> \A y \in Task : h[y] # i
      /\ Number(f, Task, i) = 0 <=> \A y \in Task : f[y] # i
  BY InodeConstants, NumberIsNat
<1>5. \A u \in Task : f[u] = UsedBy(stack[u])
  BY <1>1 DEF StackUse
<1>6. ASSUME NEW t \in Task, NEW u \in Task, t # u, f[u] = i, f[t] = i
      PROVE  Number(f, Task, i) >= 2
  BY <1>6, TwoUsers, InodeConstants
<1> QED BY <1>2, <1>3, <1>4, <1>5, <1>6

LEMMA InodeUseMoves ==
  ASSUME InodeInv, NEW t \in Task, SameBut(held, held', Task, t),
         SameBut(stack, stack', Task, t),
         \A i \in I!Inode :
            table'[i].i_count = table[i].i_count
              + (IF held'[t] = i THEN 1 ELSE 0) - (IF held[t] = i THEN 1 ELSE 0)
              + (IF UsedBy(stack'[t]) = i THEN 1 ELSE 0) - (IF UsedBy(stack[t]) = i THEN 1 ELSE 0)
  PROVE  InodeUsesCounted'
<1>1. PICK f : f = StackUse
  OBVIOUS
<1>2. PICK g : g = StackUse'
  OBVIOUS
<1>3. PICK h : h = held
  OBVIOUS
<1>4. PICK k : k = held'
  OBVIOUS
<1>5. SameBut(f, g, Task, t) /\ SameBut(h, k, Task, t)
  BY <1>1, <1>2, <1>3, <1>4 DEF SameBut, StackUse
<1>6. f[t] = UsedBy(stack[t]) /\ g[t] = UsedBy(stack'[t])
  BY <1>1, <1>2 DEF StackUse
<1> SUFFICES ASSUME NEW i \in I!Inode
             PROVE  table'[i].i_count = Number(held', Task, i) + Number(StackUse', Task, i)
  BY DEF InodeUsesCounted
<1>7. /\ Number(g, Task, i) = Number(f, Task, i) + (IF g[t] = i THEN 1 ELSE 0)
                                                 - (IF f[t] = i THEN 1 ELSE 0)
      /\ Number(k, Task, i) = Number(h, Task, i) + (IF k[t] = i THEN 1 ELSE 0)
                                                 - (IF h[t] = i THEN 1 ELSE 0)
  BY <1>5, UseMoves, InodeConstants
<1>8. Number(h, Task, i) \in Nat /\ Number(f, Task, i) \in Nat
  BY InodeConstants, NumberIsNat
<1>9. table[i].i_count = Number(h, Task, i) + Number(f, Task, i)
  BY <1>1, <1>3 DEF InodeInv, InodeUsesCounted
<1> QED BY <1>1, <1>2, <1>3, <1>4, <1>6, <1>7, <1>8, <1>9

\* A call goes on without a change of the table.
LEMMA GoesOn ==
  ASSUME InodeInv, NEW t \in Task, NEW r, stack' = [stack EXCEPT ![t] = r],
         UNCHANGED <<on, table, disk, imap, names, latest, asleep, panic>>,
         held' \in [Task -> I!Inode \cup {NULL}], SameBut(held, held', Task, t),
         TopAt(r) \notin {"read", "write"}, TopAt(stack[t]) \notin {"read", "write"},
         \A i \in I!Inode :
            (IF held'[t] = i THEN 1 ELSE 0) + (IF UsedBy(r) = i THEN 1 ELSE 0)
              = (IF held[t] = i THEN 1 ELSE 0) + (IF UsedBy(stack[t]) = i THEN 1 ELSE 0),
         TaskRight(t)'
  PROVE  InodeInv'
<1>1. /\ InodeTypes /\ \A u \in Task : TaskRight(u)
      /\ \A i \in I!Inode : EntryRight(i)
      /\ OneLocker /\ OneEntry
      /\ \A n \in Num : NumRight(n)
  BY DEF InodeInv
<1>2. stack'[t] = r /\ \A u \in Task \ {t} : stack'[u] = stack[u]
  BY <1>1 DEF InodeTypes
<1>3. LockedBy(r) = NULL /\ LockedBy(stack[t]) = NULL
  BY DEF LockedBy
<1>4. InodeTypes'
  BY <1>1, <1>2 DEF InodeTypes
<1>5. \A u \in Task : TaskRight(u)'
  <2> SUFFICES ASSUME NEW u \in Task \ {t} PROVE TaskRight(u)'
    OBVIOUS
  <2>1. stack'[u] = stack[u] /\ held'[u] = held[u] /\ TaskRight(u)
    BY <1>1, <1>2 DEF SameBut
  <2> QED BY <2>1 DEF TaskRight
<1>6. \A i : Reading(i)' <=> Reading(i)
  BY <1>2 DEF Reading
<1>7. \A i \in I!Inode : EntryRight(i)'
  BY <1>1, <1>2, <1>3, <1>6, InodeConstants DEF EntryRight
<1>8. OneLocker'
  BY <1>1, <1>2, <1>3 DEF OneLocker
<1>9. OneEntry' /\ \A n \in Num : NumRight(n)'
  BY <1>1, <1>6 DEF OneEntry, NumRight
<1>10. InodeUsesCounted'
  <2>1. SameBut(stack, stack', Task, t)
    BY <1>2 DEF SameBut
  <2>2. \A i \in I!Inode :
            table'[i].i_count = table[i].i_count
              + (IF held'[t] = i THEN 1 ELSE 0) - (IF held[t] = i THEN 1 ELSE 0)
              + (IF UsedBy(stack'[t]) = i THEN 1 ELSE 0) - (IF UsedBy(stack[t]) = i THEN 1 ELSE 0)
    BY <1>2, EntryUsers
  <2> QED BY <2>1, <2>2, InodeUseMoves
<1> QED BY <1>4, <1>5, <1>7, <1>8, <1>9, <1>10 DEF InodeInv, InodesAreTame

\* sleep_on()
LEMMA Sleeps ==
  ASSUME InodeInv, NEW t \in Task, NEW i \in I!Inode, I!SleepOn(t, i), table[i].i_lock,
         TopAt(stack[t]) \notin {"read", "write"},
         UNCHANGED <<on, disk, names, latest, held>>
  PROVE  InodeInv'
<1>1. /\ InodeTypes /\ \A u \in Task : TaskRight(u)
      /\ \A j \in I!Inode : EntryRight(j)
      /\ OneLocker /\ OneEntry
      /\ \A n \in Num : NumRight(n)
  BY DEF InodeInv
<1>2. /\ table' = [table EXCEPT ![i].i_wait = @ \cup {t}] /\ asleep' = asleep \cup {t}
      /\ UNCHANGED <<stack, imap, panic>>
  BY DEF I!SleepOn
<1>3. InodeTypes'
  <2>1. PICK e : e = [table[i] EXCEPT !.i_wait = @ \cup {t}]
    OBVIOUS
  <2>2. table[i] \in Entry
    BY <1>1 DEF InodeTypes
  <2>3. e \in Entry
    BY <2>1, <2>2 DEF Entry
  <2>4. table' = [table EXCEPT ![i] = e]
    BY <1>2, <2>1
  <2>5. table' \in [I!Inode -> Entry]
    BY <1>1, <2>3, <2>4 DEF InodeTypes
  <2> QED BY <1>1, <1>2, <2>5 DEF InodeTypes
<1>4. /\ t \in table'[i].i_wait
      /\ \A j \in I!Inode : 
         /\ table'[j].i_num = table[j].i_num /\ table'[j].i_count = table[j].i_count
         /\ table'[j].i_dirt = table[j].i_dirt /\ table'[j].i_lock = table[j].i_lock
         /\ table'[j].i_nlinks = table[j].i_nlinks /\ table'[j].data = table[j].data
         /\ table[j].i_wait \subseteq table'[j].i_wait
         /\ table'[j].i_wait # {} => table'[j].i_lock
  BY <1>1, <1>2 DEF InodeTypes, Entry, EntryRight
<1>5. LockedBy(stack[t]) = NULL
  BY DEF LockedBy
<1>6. \A u \in Task : TaskRight(u)'
  <2> SUFFICES ASSUME NEW u \in Task PROVE TaskRight(u)'
    OBVIOUS
  <2>1. TaskRight(u)
    BY <1>1
  <2> QED BY <1>1, <1>2, <1>4, <1>5, <2>1 DEF TaskRight
<1>7. \A j : Reading(j)' <=> Reading(j)
  BY <1>2 DEF Reading
<1>8. \A j \in I!Inode : EntryRight(j)'
  BY <1>1, <1>2, <1>4, <1>7 DEF EntryRight
<1>9. OneLocker' /\ OneEntry' /\ \A n \in Num : NumRight(n)'
  BY <1>1, <1>2, <1>4, <1>7 DEF OneLocker, OneEntry, NumRight
<1>10. InodeUsesCounted'
  <2>1. stack' = stack /\ held' = held /\ \A j \in I!Inode : table'[j].i_count = table[j].i_count
    BY <1>2, <1>4
  <2>2. StackUse' = StackUse
    BY <2>1 DEF StackUse
  <2>3. InodeUsesCounted
    BY DEF InodeInv
  <2> QED BY <2>1, <2>2, <2>3 DEF InodeUsesCounted
<1> QED BY <1>2, <1>3, <1>6, <1>8, <1>9, <1>10 DEF InodeInv, InodesAreTame

LEMMA AtTop ==
  ASSUME NEW t \in Task, NEW p, I!At(t, p)
  PROVE  /\ panic = NULL /\ t \notin asleep /\ stack[t] # <<>> /\ TopAt(stack[t]) = p
         /\ Head(stack[t]).i = TopI(stack[t]) /\ Head(stack[t]).nr = TopNr(stack[t])
BY DEF I!At, TopAt, TopI, TopNr

\* What of the entries the invariant of another task looks at.
SameFor(u, j) ==
    /\ table'[j].i_num = table[j].i_num /\ table'[j].i_count = table[j].i_count
    /\ table'[j].i_dirt = table[j].i_dirt /\ table'[j].i_lock = table[j].i_lock
    /\ table'[j].i_nlinks = table[j].i_nlinks

\* One reference less.
LEMMA CountsDown ==
  ASSUME InodeInv, NEW t \in Task, NEW i \in I!Inode, I!CountDown(t, i),
         UsedBy(stack[t]) = i, TopAt(stack[t]) \in {"iput", "repeat"}, Tail(stack[t]) = <<>>,
         ~table[i].i_lock, table[i].i_count > 1 \/ ~table[i].i_dirt,
         t \notin asleep,
         UNCHANGED <<on, disk, names, latest, held>>
  PROVE  InodeInv'
<1>1. /\ InodeTypes /\ \A u \in Task : TaskRight(u)
      /\ \A j \in I!Inode : EntryRight(j)
      /\ OneLocker /\ OneEntry
      /\ \A n \in Num : NumRight(n)
  BY DEF InodeInv
<1>2. /\ table' = [table EXCEPT ![i].i_count = @ - 1]
      /\ stack' = [stack EXCEPT ![t] = <<>>]
      /\ UNCHANGED <<imap, asleep, panic>>
  BY JoinNone DEF I!CountDown, I!Return, I!Replace, I!Below
<1>3. stack'[t] = <<>> /\ \A u \in Task \ {t} : stack'[u] = stack[u]
  BY <1>1, <1>2 DEF InodeTypes
<1>4. table[i].i_count \in Nat /\ table[i].i_count >= 1
  BY EntryUsers
<1>5. /\ table'[i].i_count = table[i].i_count - 1
      /\ \A j \in I!Inode : 
         /\ table'[j].i_num = table[j].i_num /\ (j # i => table'[j].i_count = table[j].i_count)
         /\ table'[j].i_dirt = table[j].i_dirt /\ table'[j].i_lock = table[j].i_lock
         /\ table'[j].i_nlinks = table[j].i_nlinks /\ table'[j].data = table[j].data
         /\ table'[j].i_wait = table[j].i_wait
  BY <1>1, <1>2 DEF InodeTypes, Entry
<1>6. InodeTypes'
  <2>0. PICK c : c = table[i].i_count - 1
    OBVIOUS
  <2>1. PICK e : e = [table[i] EXCEPT !.i_count = c]
    OBVIOUS
  <2>2. e \in Entry
    <3>1. table[i] \in Entry /\ c \in Nat
      BY <1>1, <1>4, <2>0 DEF InodeTypes
    <3> QED BY <2>1, <3>1 DEF Entry
  <2>3. table' = [table EXCEPT ![i] = e]
    BY <1>2, <2>0, <2>1
  <2>4. table' \in [I!Inode -> Entry]
    BY <1>1, <2>2, <2>3 DEF InodeTypes
  <2> QED BY <1>1, <1>2, <1>3, <2>4 DEF InodeTypes
<1>7. LockedBy(stack[t]) = NULL /\ LockedBy(stack'[t]) = NULL
  BY <1>3, NoFrames DEF LockedBy
<1>8. \A u \in Task : TaskRight(u)'
  <2>1. TaskRight(t)'
    <3>1. held[t] # NULL => held[t] \in I!Inode /\ table[held[t]].i_num # NULL
      BY <1>1 DEF TaskRight, InodeTypes
    <3> QED BY <1>2, <1>3, <1>5, <3>1, NoFrames DEF TaskRight
  <2>2. ASSUME NEW u \in Task \ {t} PROVE TaskRight(u)'
    <3>1. stack'[u] = stack[u] /\ held'[u] = held[u] /\ TaskRight(u)
      BY <1>1, <1>2, <1>3
    <3>2. TopAt(stack[u]) \in {"iget", "create", "read", "truncate"} /\ TopI(stack[u]) = i
            => table[i].i_count >= 2
      BY EntryUsers DEF UsedBy
    <3> QED BY <1>1, <1>2, <1>5, <3>1, <3>2 DEF TaskRight
  <2> QED BY <2>1, <2>2
<1>9. \A j : Reading(j)' <=> Reading(j)
  BY <1>3, NoFrames DEF Reading
<1>10. \A j \in I!Inode : EntryRight(j)'
  <2>1. table'[i].i_count = 0 => ~table[i].i_dirt /\ ~table[i].i_lock
    BY <1>4, <1>5
  <2> SUFFICES ASSUME NEW j \in I!Inode PROVE EntryRight(j)'
    OBVIOUS
  <2>2. EntryRight(j)
    BY <1>1
  <2>3. j # i => table'[j].i_count = table[j].i_count
    BY <1>5
  <2>4. (\E u \in Task : LockedBy(stack[u]) = j) => \E u \in Task : LockedBy(stack'[u]) = j
    BY <1>3, <1>7, InodeConstants
  <2> QED BY <1>2, <1>5, <1>9, <2>1, <2>2, <2>3, <2>4 DEF EntryRight
<1>11. OneLocker' /\ OneEntry' /\ \A n \in Num : NumRight(n)'
  BY <1>1, <1>2, <1>3, <1>5, <1>7, <1>9 DEF OneLocker, OneEntry, NumRight
<1>12. InodeUsesCounted'
  <2>1. SameBut(stack, stack', Task, t) /\ SameBut(held, held', Task, t)
    BY <1>3 DEF SameBut
  <2>2. UsedBy(stack'[t]) = NULL
    BY <1>3, NoFrames
  <2>3. \A j \in I!Inode : table[j].i_count \in Nat
    BY <1>1 DEF InodeTypes, Entry
  <2>4. \A j \in I!Inode :
            table'[j].i_count = table[j].i_count
              + (IF held'[t] = j THEN 1 ELSE 0) - (IF held[t] = j THEN 1 ELSE 0)
              + (IF UsedBy(stack'[t]) = j THEN 1 ELSE 0) - (IF UsedBy(stack[t]) = j THEN 1 ELSE 0)
    BY <1>5, <2>2, <2>3, InodeConstants
  <2> QED BY <2>1, <2>4, InodeUseMoves
<1> QED BY <1>2, <1>6, <1>8, <1>10, <1>11, <1>12 DEF InodeInv, InodesAreTame

\* bread() finds a clean buffer.
LEMMA BreadGoesOn ==
  ASSUME InodeInv, NEW t \in Task, NEW f, I!Bread(t, f)
  PROVE  stack' = [stack EXCEPT ![t] = <<f>> \o Tail(stack[t])]
<1>1. "dirty_buffers" \notin on
  BY DEF InodeInv, InodeTypes, InodesAreTame
<1> QED BY <1>1 DEF I!Bread, I!Replace, I!Below

\* iput(), once the inode is not locked.
LEMMA Releases ==
  ASSUME InodeInv, NEW t \in Task, NEW i \in I!Inode, I!Release(t, i),
         UsedBy(stack[t]) = i, TopAt(stack[t]) \in {"iput", "repeat"}, Tail(stack[t]) = <<>>,
         ~table[i].i_lock, table[i].i_num # NULL, t \notin asleep,
         ~Syncs(stack[t]),
         UNCHANGED <<on, disk, names, latest, held>>
  PROVE  InodeInv'
<1>1. InodeTypes /\ TaskRight(t) /\ EntryRight(i)
  BY DEF InodeInv
<1>2. CASE table[i].i_count > 1 \/ (table[i].i_nlinks # 0 /\ ~table[i].i_dirt)
  <2>1. I!CountDown(t, i)
    BY <1>2 DEF I!Release
  <2> QED BY <1>2, <2>1, CountsDown
<1>3. CASE ~(table[i].i_count > 1) /\ table[i].i_nlinks = 0
  <2>1. /\ I!Bread(t, I!Frame("truncate", i, NULL))
        /\ UNCHANGED <<table, imap, asleep, panic>>
    BY <1>3 DEF I!Release
  <2>2. PICK r : r = <<I!Frame("truncate", i, NULL)>>
    OBVIOUS
  <2>3. stack' = [stack EXCEPT ![t] = r]
    <3>1. stack' = [stack EXCEPT ![t] = <<I!Frame("truncate", i, NULL)>> \o Tail(stack[t])]
      BY <2>1, BreadGoesOn
    <3>2. <<I!Frame("truncate", i, NULL)>> \o <<>> = <<I!Frame("truncate", i, NULL)>>
      BY JoinNone
    <3> QED BY <2>2, <3>1, <3>2
  <2>4. /\ StackRight(r) /\ TopAt(r) = "truncate" /\ TopI(r) = i /\ UsedBy(r) = i
        /\ LockedBy(r) = NULL /\ Repeats(r) = NULL /\ ~Syncs(r) /\ Seeks(r) = NULL
        /\ Unlinks(r) = NULL
    BY <2>2, FrameViews
  <2>5. table[i].i_count = 1
    BY <1>3, EntryUsers
  <2>6. stack'[t] = r
    BY <1>1, <2>3 DEF InodeTypes
  <2>7. TaskRight(t)'
    BY <1>1, <1>3, <2>1, <2>4, <2>5, <2>6, InodeConstants DEF TaskRight
  <2>8. SameBut(held, held', Task, t) /\ held' \in [Task -> I!Inode \cup {NULL}]
    BY <1>1 DEF SameBut, InodeTypes
  <2> QED BY <2>1, <2>3, <2>4, <2>7, <2>8, GoesOn
<1>4. CASE ~(table[i].i_count > 1) /\ table[i].i_nlinks # 0 /\ table[i].i_dirt
  <2>1. /\ I!Goto(t, <<I!Frame("lock", i, NULL)>>, I!Frame("repeat", i, NULL))
        /\ UNCHANGED <<table, imap, asleep, panic>>
    BY <1>4 DEF I!Release
  <2>2. PICK q : q = <<I!Frame("repeat", i, NULL)>>
    OBVIOUS
  <2>3. PICK f : f = I!Frame("lock", i, NULL)
    OBVIOUS
  <2>4. PICK r : r = <<f>> \o q
    OBVIOUS
  <2>5. stack' = [stack EXCEPT ![t] = r]
    <3>1. (<<f>> \o q) \o <<>> = r
      BY <2>2, <2>4, JoinTwo
    <3> QED BY <2>1, <2>2, <2>3, <3>1 DEF I!Goto, I!Replace, I!Below
  <2>6. Resumes(q) /\ Repeats(q) = i /\ UsedBy(q) = i /\ ~Syncs(q)
    BY <2>2, FrameViews DEF Resumes
  <2>7. WriteFrame(f) /\ f.at = "lock" /\ f.i = i
    BY <2>3, Fields DEF WriteFrame
  <2>8. /\ StackRight(r) /\ TopAt(r) = "lock" /\ TopI(r) = i /\ UsedBy(r) = i
        /\ LockedBy(r) = NULL /\ Repeats(r) = i /\ ~Syncs(r) /\ Seeks(r) = NULL
        /\ Unlinks(r) = NULL
    <3>1. Resumes(q) /\ WriteFrame(f) /\ r = <<f>> \o q
      BY <2>4, <2>6, <2>7
    <3>2. Pushed(r, f, q)
      BY <3>1, PushViews
    <3> QED BY <2>6, <2>7, <3>2 DEF Pushed
  <2>9. stack'[t] = r
    BY <1>1, <2>5 DEF InodeTypes
  <2>10. TaskRight(t)'
    BY <1>1, <2>1, <2>8, <2>9, InodeConstants DEF TaskRight
  <2>11. SameBut(held, held', Task, t) /\ held' \in [Task -> I!Inode \cup {NULL}]
    BY <1>1 DEF SameBut, InodeTypes
  <2> QED BY <2>1, <2>5, <2>8, <2>10, <2>11, GoesOn
<1> QED BY <1>2, <1>3, <1>4

\* What a step of another task must leave to u.
LeftTo(u, j) ==
    /\ table'[j].i_num = table[j].i_num
    /\ LockedBy(stack[u]) = j => table'[j].i_lock /\ table'[j].i_dirt = table[j].i_dirt
    /\ UsedBy(stack[u]) = j /\ TopAt(stack[u]) \in {"iget", "create", "read", "truncate"} =>
          /\ table'[j].i_count = table[j].i_count
          /\ TopAt(stack[u]) = "read" => table'[j].i_dirt = table[j].i_dirt
          /\ TopAt(stack[u]) = "truncate" => /\ table'[j].i_nlinks = table[j].i_nlinks
                                             /\ table'[j].i_lock = table[j].i_lock

LEMMA OtherRight ==
  ASSUME InodeInv, NEW u \in Task, stack'[u] = stack[u], held'[u] = held[u], on' = on,
         \A j \in I!Inode :
            held[u] = j \/ UsedBy(stack[u]) = j \/ LockedBy(stack[u]) = j => LeftTo(u, j),
         \A n \in Num : (u \in names[n] => u \in names'[n]) \/ Seeks(stack[u]) # n,
         \A n \in Num : names'[n] = names[n] \/ Unlinks(stack[u]) # n,
         u \in asleep' => u \in asleep /\ \A j \in I!Inode : u \in table[j].i_wait => u \in table'[j].i_wait
  PROVE  TaskRight(u)'
<1>1. TaskRight(u) /\ held[u] \in I!Inode \cup {NULL}
  BY DEF InodeInv, InodeTypes
<1>2. PICK s : s = stack[u]
  OBVIOUS
<1>3. StackRight(s)
  BY <1>1, <1>2 DEF TaskRight
<1>4. /\ Repeats(s) # NULL => UsedBy(s) = Repeats(s) /\ Repeats(s) \in I!Inode
      /\ TopAt(s) \in {"iget", "create", "read", "open", "unlink", "truncate", "iput"}
           => UsedBy(s) = TopI(s) /\ TopI(s) \in I!Inode
      /\ TopAt(s) \in {"read", "write"} => LockedBy(s) = TopI(s) /\ TopI(s) \in I!Inode
      /\ LockedBy(s) \in I!Inode \cup {NULL}
      /\ Seeks(s) \in Num \cup {NULL} /\ Unlinks(s) \in Num \cup {NULL}
  BY <1>3, WorkViews
<1>5. \A j \in I!Inode : held[u] = j \/ UsedBy(s) = j \/ LockedBy(s) = j => LeftTo(u, j)
  BY <1>2
<1>6. stack'[u] = s /\ s = stack[u]
  BY <1>2
<1>7. held[u] # NULL => table'[held[u]].i_num = table[held[u]].i_num
  BY <1>1, <1>5 DEF LeftTo
<1>8. Repeats(s) # NULL => table'[Repeats(s)].i_num = table[Repeats(s)].i_num
  BY <1>4, <1>5 DEF LeftTo
<1>9. TopAt(s) \in {"iget", "create", "read", "open", "unlink", "truncate", "iput", "write"} =>
         LeftTo(u, TopI(s))
  BY <1>4, <1>5
<1>10. TopAt(s) \in {"iget", "create", "read", "open", "unlink", "truncate", "write"} =>
         table'[TopI(s)].i_num = table[TopI(s)].i_num
  BY <1>9 DEF LeftTo
<1>11. TopAt(s) \in {"iget", "create", "read", "truncate"} =>
         table'[TopI(s)].i_count = table[TopI(s)].i_count
  BY <1>4, <1>6, <1>9 DEF LeftTo
<1>12. TopAt(s) \in {"read", "write"} => table'[TopI(s)].i_dirt = table[TopI(s)].i_dirt
  BY <1>4, <1>6, <1>9 DEF LeftTo
<1>13. TopAt(s) = "truncate" => /\ table'[TopI(s)].i_nlinks = table[TopI(s)].i_nlinks
                                /\ table'[TopI(s)].i_lock = table[TopI(s)].i_lock
  BY <1>4, <1>6, <1>9 DEF LeftTo
<1>14. LockedBy(s) # NULL => table'[LockedBy(s)].i_lock /\ u \notin asleep'
  BY <1>1, <1>4, <1>5, <1>6 DEF LeftTo, TaskRight
<1>15. u \in asleep' => \E i \in I!Inode : u \in table'[i].i_wait
  BY <1>1 DEF TaskRight
<1>16. Seeks(s) # NULL => u \in names'[Seeks(s)]
  BY <1>1, <1>4, <1>6 DEF TaskRight
<1>17. Unlinks(s) # NULL => names'[Unlinks(s)] = {u} /\ "unlink" \in on
  BY <1>1, <1>4, <1>6 DEF TaskRight
<1> QED BY <1>1, <1>6, <1>7, <1>8, <1>10, <1>11, <1>12, <1>13, <1>14, <1>15, <1>16, <1>17
        DEF TaskRight

LEMMA OtherEntry ==
  ASSUME NEW j \in I!Inode, EntryRight(j), table'[j] = table[j], on' = on,
         \/ table[j].i_num = NULL
         \/ /\ table[j].i_num \in imap'
            /\ names'[table[j].i_num] = names[table[j].i_num]
            /\ latest'[table[j].i_num] = latest[table[j].i_num],
         Reading(j)' <=> Reading(j),
         (\E u \in Task : LockedBy(stack[u]) = j) => \E u \in Task : LockedBy(stack'[u]) = j
  PROVE  EntryRight(j)'
<1> QED BY DEF EntryRight

LEMMA Panics ==
  ASSUME InodeInv, panic' = "No free inodes",
         UNCHANGED <<on, table, disk, imap, names, latest, stack, held, asleep>>
  PROVE  InodeInv'
<1>1. InodeTypes' /\ InodesAreTame' /\ InodeUsesCounted'
  BY DEF InodeInv, InodeTypes, InodesAreTame, InodeUsesCounted, StackUse
<1>2. \A t \in Task : TaskRight(t)'
  BY DEF InodeInv, TaskRight
<1>3. \A j : Reading(j)' <=> Reading(j)
  BY DEF Reading
<1>4. OneLocker' /\ OneEntry' /\ (\A n \in Num : NumRight(n)') /\ \A i \in I!Inode : EntryRight(i)'
  BY <1>3 DEF InodeInv, OneLocker, OneEntry, NumRight, EntryRight
<1> QED BY <1>1, <1>2, <1>4 DEF InodeInv

\* The stack of t alone changes.
LEMMA OneStack ==
  ASSUME InodeInv, NEW t \in Task, NEW r, stack' = [stack EXCEPT ![t] = r]
  PROVE  /\ stack'[t] = r /\ \A u \in Task \ {t} : stack'[u] = stack[u]
         /\ stack' = [u \in Task |-> stack'[u]]
         /\ SameBut(stack, stack', Task, t)
<1>1. stack = [u \in Task |-> stack[u]]
  BY DEF InodeInv, InodeTypes
<1> QED BY <1>1 DEF SameBut

LEMMA ReturnsInode ==
  ASSUME NEW t \in Task, NEW i, I!ReturnInode(t, i)
  PROVE  stack' = [stack EXCEPT ![t] =
                     <<[Head(Tail(stack[t])) EXCEPT !.i = i]>> \o Tail(Tail(stack[t]))]
BY DEF I!ReturnInode, I!Below

LEMMA GetEmptyKeepsInodes ==
  ASSUME InodeInv, NEW t \in Task, I!GetEmpty(t) PROVE InodeInv'
<1>1. /\ InodeTypes /\ \A u \in Task : TaskRight(u)
      /\ \A j \in I!Inode : EntryRight(j)
      /\ OneLocker /\ OneEntry
      /\ \A n \in Num : NumRight(n)
  BY DEF InodeInv
<1>2. /\ t \notin asleep /\ TopAt(stack[t]) = "get_empty"
      /\ UNCHANGED <<on, disk, names, latest, held>>
  BY AtTop DEF I!GetEmpty, I!files
<1>3. Empties(stack[t]) /\ StackRight(stack[t])
  BY <1>1, <1>2, StackKinds DEF TaskRight, StackRight
<1>4. Head(stack[t]).i = NULL
  BY <1>2, <1>3, WorkViews
<1>5. \A i \in I!Inode : I!Free(i) => ~table[i].i_dirt /\ ~table[i].i_lock
  BY <1>1 DEF I!Free, EntryRight
<1>6. CASE ~\E i \in I!Inode : I!Free(i)
  <2>1. I!Panic("No free inodes")
    BY <1>4, <1>6 DEF I!GetEmpty
  <2> QED BY <1>2, <2>1, Panics DEF I!Panic
<1>7. CASE \E i \in I!Inode : I!Free(i)
  <2>1. {i \in I!Inode : I!Free(i) /\ ~table[i].i_dirt /\ ~table[i].i_lock} = {i \in I!Inode : I!Free(i)}
    BY <1>5
  <2>2. PICK i \in I!Inode :
          /\ I!Free(i)
          /\ table' = [table EXCEPT ![i] = [I!Zeroed EXCEPT !.i_count = 1]]
          /\ I!ReturnInode(t, i)
          /\ UNCHANGED <<imap, asleep, panic>>
    BY <1>4, <1>5, <1>7, <2>1 DEF I!GetEmpty
  <2>3. PICK r : r = <<[Head(Tail(stack[t])) EXCEPT !.i = i]>> \o Tail(Tail(stack[t]))
    OBVIOUS
  <2>4. stack' = [stack EXCEPT ![t] = r]
    BY <2>2, <2>3, ReturnsInode
  <2>5. Emptied(stack[t], i, r)
    BY <1>3, <2>3, EmptiesViews
  <2>6. /\ stack'[t] = r /\ \A u \in Task \ {t} : stack'[u] = stack[u]
        /\ stack' = [u \in Task |-> stack'[u]] /\ SameBut(stack, stack', Task, t)
    BY <2>4, OneStack
  <2>7. PICK e : e = [I!Zeroed EXCEPT !.i_count = 1]
    OBVIOUS
  <2>8. /\ e \in Entry /\ e.i_num = NULL /\ e.i_count = 1 /\ ~e.i_dirt /\ ~e.i_lock
        /\ e.data = 0 /\ e.i_wait = {}
    <3>1. e = [i_num |-> NULL, i_count |-> 1, i_dirt |-> FALSE, i_lock |-> FALSE,
               i_nlinks |-> 0, data |-> 0, i_wait |-> {}]
      BY <2>7 DEF I!Zeroed
    <3> QED BY <3>1 DEF Entry
  <2>9. /\ table' \in [I!Inode -> Entry] /\ table'[i] = e
        /\ \A j \in I!Inode \ {i} : table'[j] = table[j]
    BY <1>1, <2>2, <2>7, <2>8 DEF InodeTypes
  <2>10. table[i].i_count = 0 /\ ~table[i].i_dirt /\ ~table[i].i_lock /\ table[i].i_wait = {}
    BY <1>1, <1>5, <2>2 DEF EntryRight, I!Free
  <2>11. InodeTypes'
    BY <1>1, <1>2, <2>2, <2>6, <2>9 DEF InodeTypes
  <2>12. \A u \in Task : held[u] # i /\ UsedBy(stack[u]) # i /\ LockedBy(stack[u]) # i
    <3> SUFFICES ASSUME NEW u \in Task
                 PROVE  held[u] # i /\ UsedBy(stack[u]) # i /\ LockedBy(stack[u]) # i
      OBVIOUS
    <3>1. LockedBy(stack[u]) = i => table[i].i_lock
      BY <1>1, InodeConstants DEF TaskRight
    <3> QED BY <2>10, <3>1, EntryUsers
  <2>13. TaskRight(t)'
    <3>1. TaskRight(t) /\ held[t] # NULL => held[t] \in I!Inode \ {i}
      BY <1>1, <2>12 DEF InodeTypes
    <3> QED BY <1>1, <1>2, <2>2, <2>5, <2>6, <2>8, <2>9, <3>1 DEF TaskRight, Emptied
  <2>14. ASSUME NEW u \in Task \ {t} PROVE TaskRight(u)'
    <3>1. stack'[u] = stack[u] /\ held'[u] = held[u] /\ on' = on
      BY <1>2, <2>6
    <3>2. \A j \in I!Inode :
            held[u] = j \/ UsedBy(stack[u]) = j \/ LockedBy(stack[u]) = j => LeftTo(u, j)
      <4>1. TaskRight(u)
        BY <1>1
      <4>2. ASSUME NEW j \in I!Inode, j # i PROVE LockedBy(stack[u]) = j => table[j].i_lock
        BY <4>1, <4>2, InodeConstants DEF TaskRight
      <4> QED BY <2>9, <2>12, <4>2 DEF LeftTo
    <3>3. u \in asleep' => u \in asleep /\ \A j \in I!Inode : u \in table[j].i_wait => u \in table'[j].i_wait
      BY <2>2, <2>9, <2>10
    <3> QED BY <1>2, <3>1, <3>2, <3>3, OtherRight
  <2>15. \A j : Reading(j)' <=> Reading(j)
    BY <1>2, <2>5, <2>6 DEF Reading, Emptied
  <2>16. \A j \in I!Inode : EntryRight(j)'
    <3> SUFFICES ASSUME NEW j \in I!Inode PROVE EntryRight(j)'
      OBVIOUS
    <3>1. CASE j = i
      BY <2>8, <2>9, <3>1 DEF EntryRight
    <3>2. CASE j # i
      <4>1. EntryRight(j) /\ table'[j] = table[j]
        BY <1>1, <2>9, <3>2
      <4>2. (\E u \in Task : LockedBy(stack[u]) = j) => \E u \in Task : LockedBy(stack'[u]) = j
        BY <2>5, <2>6, InodeConstants DEF Emptied
      <4>3. table[j].i_num = NULL \/ table[j].i_num \in imap'
        BY <2>2, <4>1 DEF EntryRight
      <4> QED BY <1>2, <2>15, <4>1, <4>2, <4>3, OtherEntry
    <3> QED BY <3>1, <3>2
  <2>17. OneLocker'
    BY <1>1, <2>5, <2>6 DEF OneLocker, Emptied
  <2>18. OneEntry'
    BY <1>1, <2>8, <2>9 DEF OneEntry
  <2>19. \A n \in Num : NumRight(n)'
    <3> SUFFICES ASSUME NEW n \in Num PROVE NumRight(n)'
      OBVIOUS
    <3>1. NumRight(n)
      BY <1>1
    <3>2. (\A j \in I!Inode : table'[j].i_num = n /\ ~Reading(j)' => ~table'[j].i_dirt)
            => \A j \in I!Inode : table[j].i_num = n /\ ~Reading(j) => ~table[j].i_dirt
      BY <2>9, <2>10, <2>15
    <3> QED BY <1>2, <2>2, <3>1, <3>2 DEF NumRight
  <2>20. InodeUsesCounted'
    <3>1. SameBut(held, held', Task, t) /\ held' = held
      BY <1>2 DEF SameBut
    <3>2. \A j \in I!Inode : table[j].i_count \in Nat
      BY EntryUsers
    <3>3. UsedBy(stack'[t]) = i /\ UsedBy(stack[t]) = NULL
      BY <2>5, <2>6 DEF Emptied
    <3>4. \A j \in I!Inode :
            table'[j].i_count = table[j].i_count
              + (IF held'[t] = j THEN 1 ELSE 0) - (IF held[t] = j THEN 1 ELSE 0)
              + (IF UsedBy(stack'[t]) = j THEN 1 ELSE 0) - (IF UsedBy(stack[t]) = j THEN 1 ELSE 0)
      BY <2>8, <2>9, <2>10, <3>1, <3>2, <3>3, InodeConstants
    <3> QED BY <2>6, <3>1, <3>4, InodeUseMoves
  <2> QED BY <2>2, <2>11, <2>13, <2>14, <2>16, <2>17, <2>18, <2>19, <2>20 DEF InodeInv, InodesAreTame
<1> QED BY <1>6, <1>7

LEMMA Found1 ==
  ASSUME NEW S, S \subseteq Nat, S # {} PROVE I!Min(S) \in S
<1>1. PICK m \in S : \A y \in S : m <= y
  BY LeastNatural
<1> QED BY <1>1 DEF I!Min

\* Another task that works on an entry that t alone works on.
LEMMA NotOthers ==
  ASSUME InodeInv, NEW t \in Task, NEW i \in I!Inode, UsedBy(stack[t]) = i,
         table[i].i_count = 1, NEW u \in Task
  PROVE  held[u] # i /\ (u # t => UsedBy(stack[u]) # i)
BY EntryUsers

LEMMA LockersLock ==
  ASSUME InodeInv, NEW u \in Task, NEW j \in I!Inode, LockedBy(stack[u]) = j
  PROVE  table[j].i_lock
BY InodeConstants DEF InodeInv, TaskRight

LEMMA InodeUseStays ==
  ASSUME InodeInv, NEW t \in Task, held' = held, SameBut(stack, stack', Task, t),
         UsedBy(stack'[t]) = UsedBy(stack[t]),
         \A i \in I!Inode : table'[i].i_count = table[i].i_count
  PROVE  InodeUsesCounted'
<1>1. \A u \in Task : StackUse'[u] = StackUse[u]
  BY DEF SameBut, StackUse
<1>2. PICK f : f = StackUse
  OBVIOUS
<1>3. PICK g : g = StackUse'
  OBVIOUS
<1>4. \A n : Number(g, Task, n) = Number(f, Task, n)
  BY <1>1, <1>2, <1>3, UsesStay
<1> QED BY <1>2, <1>3, <1>4 DEF InodeInv, InodeUsesCounted

LEMMA ReadingEntry ==
  ASSUME NEW i, NEW n, n # NULL, n \in imap', \E u \in Task : LockedBy(stack'[u]) = i,
         table'[i].i_num = n, table'[i].i_count = 1, table'[i].i_wait = {}, Reading(i)'
  PROVE  EntryRight(i)'
BY DEF EntryRight

LEMMA EntryStays ==
  ASSUME NEW j \in I!Inode, EntryRight(j), on' = on, imap' = imap, names' = names, latest' = latest,
         /\ table'[j].i_num = table[j].i_num /\ table'[j].i_dirt = table[j].i_dirt
         /\ table'[j].i_lock = table[j].i_lock /\ table'[j].i_nlinks = table[j].i_nlinks
         /\ table'[j].data = table[j].data /\ table'[j].i_wait = table[j].i_wait,
         table'[j].i_count = 0 => ~table[j].i_dirt /\ ~table[j].i_lock,
         Reading(j)' <=> Reading(j),
         (\E u \in Task : LockedBy(stack[u]) = j) => \E u \in Task : LockedBy(stack'[u]) = j
  PROVE  EntryRight(j)'
BY DEF EntryRight

LEMMA IgetMissKeeps ==
  ASSUME InodeInv, NEW t \in Task, NEW i, NEW n, i = TopI(stack[t]), n = TopNr(stack[t]),
         TopAt(stack[t]) = "iget", t \notin asleep,
         \A j \in I!Inode : table[j].i_num # n,
         table' = [table EXCEPT ![i].i_num = n, ![i].i_lock = TRUE],
         I!Bread(t, [Head(stack[t]) EXCEPT !.at = "read"]),
         UNCHANGED <<on, disk, imap, names, latest, held, asleep, panic>>
  PROVE  InodeInv'
<1>1. /\ InodeTypes /\ \A u \in Task : TaskRight(u)
      /\ \A j \in I!Inode : EntryRight(j)
      /\ OneLocker /\ OneEntry
      /\ \A m \in Num : NumRight(m)
  BY DEF InodeInv
<1>2. Searches(stack[t]) /\ TaskRight(t)
  BY <1>1, StackKinds DEF TaskRight, StackRight
<1>3. PICK r : r = <<[Head(stack[t]) EXCEPT !.at = "read"]>> \o Tail(stack[t])
  OBVIOUS
<1>4. Searched(stack[t], r)
  BY <1>2, <1>3, SearchesViews
<1>5. stack' = [stack EXCEPT ![t] = r]
  BY <1>3, BreadGoesOn
<1>6. /\ stack'[t] = r /\ \A u \in Task \ {t} : stack'[u] = stack[u]
      /\ stack' = [u \in Task |-> stack'[u]] /\ SameBut(stack, stack', Task, t)
  BY <1>5, OneStack
<1>7. /\ i \in I!Inode /\ n \in Num /\ table[i].i_num = NULL /\ table[i].i_count = 1
      /\ UsedBy(stack[t]) = i /\ t \in names[n] /\ Seeks(stack[t]) = n
  BY <1>2, <1>4, InodeConstants DEF TaskRight, Searched
<1>8. ~table[i].i_dirt /\ ~table[i].i_lock /\ table[i].i_wait = {} /\ table[i].data = 0
  BY <1>1, <1>7 DEF EntryRight
<1>9. PICK e : e = [[table[i] EXCEPT !.i_num = n] EXCEPT !.i_lock = TRUE]
  OBVIOUS
<1>10. table[i] \in Entry
  BY <1>1, <1>7 DEF InodeTypes
<1>11. /\ e \in Entry /\ e.i_num = n /\ e.i_count = 1 /\ ~e.i_dirt /\ e.i_lock
       /\ e.data = 0 /\ e.i_wait = {}
  BY <1>7, <1>8, <1>9, <1>10 DEF Entry
<1>12. table' = [table EXCEPT ![i] = e]
  BY <1>1, <1>7, <1>9 DEF InodeTypes
<1>13. /\ table' \in [I!Inode -> Entry] /\ table'[i] = e
       /\ \A j \in I!Inode \ {i} : table'[j] = table[j]
  BY <1>1, <1>7, <1>11, <1>12 DEF InodeTypes
<1>14. InodeTypes'
  BY <1>1, <1>6, <1>13 DEF InodeTypes
<1>15. \A u \in Task : held[u] # i /\ (u # t => UsedBy(stack[u]) # i)
  BY <1>7, NotOthers
<1>16. \A u \in Task : LockedBy(stack[u]) # i
  BY <1>7, <1>8, LockersLock
<1>17. TaskRight(t)'
  <2>1. held[t] # NULL => table'[held[t]].i_num # NULL
    <3>1. held[t] # NULL => held[t] \in I!Inode \ {i}
      BY <1>1, <1>15 DEF InodeTypes
    <3> QED BY <1>2, <1>13, <3>1 DEF TaskRight
  <2> QED BY <1>2, <1>4, <1>6, <1>7, <1>11, <1>13, <2>1, InodeConstants DEF TaskRight, Searched
<1>18. ASSUME NEW u \in Task \ {t} PROVE TaskRight(u)'
  <2>1. stack'[u] = stack[u] /\ held'[u] = held[u] /\ on' = on
    BY <1>6
  <2>2. \A j \in I!Inode :
          held[u] = j \/ UsedBy(stack[u]) = j \/ LockedBy(stack[u]) = j => LeftTo(u, j)
    BY <1>13, <1>15, <1>16, LockersLock DEF LeftTo
  <2>3. u \in asleep' => u \in asleep /\ \A j \in I!Inode : u \in table[j].i_wait => u \in table'[j].i_wait
    BY <1>8, <1>13
  <2> QED BY <2>1, <2>2, <2>3, OtherRight
<1>19. /\ Reading(i)' /\ \A j : j # i => (Reading(j)' <=> Reading(j))
  BY <1>4, <1>6, <1>7 DEF Reading, Searched
<1>20. \A j \in I!Inode : EntryRight(j)'
  <2> SUFFICES ASSUME NEW j \in I!Inode PROVE EntryRight(j)'
    OBVIOUS
  <2>1. CASE j = i
    <3>1. n \in imap /\ n # NULL
      BY <1>1, <1>7, InodeConstants DEF NumRight
    <3>2. \E u \in Task : LockedBy(stack'[u]) = i
      BY <1>4, <1>6, <1>7 DEF Searched
    <3>3. /\ table'[i].i_num = n /\ table'[i].i_count = 1 /\ table'[i].i_wait = {}
          /\ n \in imap' /\ Reading(i)'
      BY <1>11, <1>13, <1>19, <3>1
    <3>4. EntryRight(i)'
      BY <3>1, <3>2, <3>3, ReadingEntry
    <3> QED BY <2>1, <3>4
  <2>2. CASE j # i
    <3>1. EntryRight(j) /\ table'[j] = table[j] /\ (Reading(j)' <=> Reading(j))
      BY <1>1, <1>13, <1>19, <2>2
    <3>2. (\E u \in Task : LockedBy(stack[u]) = j) => \E u \in Task : LockedBy(stack'[u]) = j
      <4>1. LockedBy(stack[t]) # j
        BY <1>4, InodeConstants DEF Searched
      <4> QED BY <1>6, <4>1
    <3>3. table[j].i_num = NULL \/ table[j].i_num \in imap'
      BY <3>1 DEF EntryRight
    <3> QED BY <3>1, <3>2, <3>3, OtherEntry
  <2> QED BY <2>1, <2>2
<1>21. OneLocker'
  <2>1. LockedBy(r) = i
    BY <1>4, <1>7 DEF Searched
  <2> QED BY <1>1, <1>6, <1>16, <2>1 DEF OneLocker
<1>22. OneEntry'
  BY <1>1, <1>11, <1>13 DEF OneEntry
<1>23. \A m \in Num : NumRight(m)'
  <2> SUFFICES ASSUME NEW m \in Num PROVE NumRight(m)'
    OBVIOUS
  <2>1. NumRight(m)
    BY <1>1
  <2>2. (\A j \in I!Inode : table'[j].i_num = m /\ ~Reading(j)' => ~table'[j].i_dirt)
            => \A j \in I!Inode : table[j].i_num = m /\ ~Reading(j) => ~table[j].i_dirt
    <3>1. \A j \in I!Inode : j # i => (Reading(j)' <=> Reading(j)) /\ table'[j] = table[j]
      BY <1>13, <1>19
    <3> QED BY <1>8, <3>1
  <2> QED BY <2>1, <2>2 DEF NumRight
<1>24. InodeUsesCounted'
  <2>1. SameBut(held, held', Task, t) /\ held' = held
    BY DEF SameBut
  <2>2. \A j \in I!Inode : table[j].i_count \in Nat /\ table'[j].i_count = table[j].i_count
    BY <1>7, <1>11, <1>13, EntryUsers
  <2>3. UsedBy(stack'[t]) = i /\ UsedBy(stack[t]) = i
    BY <1>4, <1>6, <1>7 DEF Searched
  <2> QED BY <1>6, <2>1, <2>2, <2>3, InodeUseStays
<1> QED BY <1>14, <1>17, <1>18, <1>20, <1>21, <1>22, <1>23, <1>24 DEF InodeInv, InodesAreTame

LEMMA IgetHitKeeps ==
  ASSUME InodeInv, NEW t \in Task, NEW o, NEW n, o = TopI(stack[t]), n = TopNr(stack[t]),
         TopAt(stack[t]) = "iget", t \notin asleep,
         NEW i \in I!Inode, table[i].i_num = n, ~table[i].i_lock,
         table' = [table EXCEPT ![i].i_count = @ + 1, ![o].i_count = @ - 1],
         I!ReturnInode(t, i),
         UNCHANGED <<on, disk, imap, names, latest, held, asleep, panic>>
  PROVE  InodeInv'
<1>1. /\ InodeTypes /\ \A u \in Task : TaskRight(u)
      /\ \A j \in I!Inode : EntryRight(j)
      /\ OneLocker /\ OneEntry
      /\ \A m \in Num : NumRight(m)
  BY DEF InodeInv
<1>2. Searches(stack[t]) /\ TaskRight(t)
  BY <1>1, StackKinds DEF TaskRight, StackRight
<1>3. PICK r : r = <<[Head(Tail(stack[t])) EXCEPT !.i = i]>> \o Tail(Tail(stack[t]))
  OBVIOUS
<1>4. Found(stack[t], i, r)
  BY <1>2, <1>3, FoundViews
<1>5. PICK q : q = <<[Head(stack[t]) EXCEPT !.at = "read"]>> \o Tail(stack[t])
  OBVIOUS
<1>6. Searched(stack[t], q)
  BY <1>2, <1>5, SearchesViews
<1>7. stack' = [stack EXCEPT ![t] = r]
  BY <1>3, ReturnsInode
<1>8. /\ stack'[t] = r /\ \A u \in Task \ {t} : stack'[u] = stack[u]
      /\ stack' = [u \in Task |-> stack'[u]] /\ SameBut(stack, stack', Task, t)
  BY <1>7, OneStack
<1>9. /\ o \in I!Inode /\ n \in Num /\ table[o].i_num = NULL /\ table[o].i_count = 1
      /\ UsedBy(stack[t]) = o /\ t \in names[n] /\ Seeks(stack[t]) = n
      /\ LockedBy(stack[t]) = NULL
  BY <1>2, <1>6, InodeConstants DEF TaskRight, Searched
<1>10. ~table[o].i_dirt /\ ~table[o].i_lock /\ o # i /\ n # NULL
  BY <1>1, <1>9, InodeConstants DEF EntryRight
<1>11. \A j \in I!Inode : table[j].i_count \in Nat
  BY EntryUsers
<1>12. /\ table' \in [I!Inode -> Entry]
       /\ table'[i].i_count = table[i].i_count + 1 /\ table'[o].i_count = 0
       /\ \A j \in I!Inode \ {i, o} : table'[j] = table[j]
       /\ \A j \in I!Inode :
            /\ table'[j].i_num = table[j].i_num /\ table'[j].i_dirt = table[j].i_dirt
            /\ table'[j].i_lock = table[j].i_lock /\ table'[j].i_nlinks = table[j].i_nlinks
            /\ table'[j].data = table[j].data /\ table'[j].i_wait = table[j].i_wait
  <2>1. PICK c : c = table[i].i_count + 1
    OBVIOUS
  <2>2. PICK d : d = [table[i] EXCEPT !.i_count = c]
    OBVIOUS
  <2>0. PICK z : z = table[o].i_count - 1
    OBVIOUS
  <2>3. PICK e : e = [table[o] EXCEPT !.i_count = z]
    OBVIOUS
  <2>9. z = 0
    BY <1>9, <2>0
  <2>4. table[i] \in Entry /\ table[o] \in Entry /\ c \in Nat /\ z \in Nat
    BY <1>1, <1>9, <1>11, <2>1, <2>9 DEF InodeTypes
  <2>5. d \in Entry /\ e \in Entry
    BY <2>2, <2>3, <2>4 DEF Entry
  <2>6. table' = [[table EXCEPT ![i] = d] EXCEPT ![o] = e]
    BY <1>1, <1>9, <1>10, <2>0, <2>1, <2>2, <2>3 DEF InodeTypes
  <2>7. /\ table' \in [I!Inode -> Entry] /\ table'[i] = d /\ table'[o] = e
        /\ \A j \in I!Inode \ {i, o} : table'[j] = table[j]
    BY <1>1, <1>9, <1>10, <2>5, <2>6 DEF InodeTypes
  <2>8. /\ d.i_num = table[i].i_num /\ d.i_dirt = table[i].i_dirt /\ d.i_count = c
        /\ d.i_lock = table[i].i_lock /\ d.i_nlinks = table[i].i_nlinks
        /\ d.data = table[i].data /\ d.i_wait = table[i].i_wait
        /\ e.i_num = table[o].i_num /\ e.i_dirt = table[o].i_dirt /\ e.i_count = 0
        /\ e.i_lock = table[o].i_lock /\ e.i_nlinks = table[o].i_nlinks
        /\ e.data = table[o].data /\ e.i_wait = table[o].i_wait
    BY <2>2, <2>3, <2>4, <2>9 DEF Entry
  <2> QED BY <2>1, <2>7, <2>8
<1>13. InodeTypes'
  BY <1>1, <1>8, <1>12 DEF InodeTypes
<1>14. \A u \in Task : held[u] # o /\ (u # t => UsedBy(stack[u]) # o)
  BY <1>9, NotOthers
<1>15. ~Reading(i)
  <2> SUFFICES ASSUME NEW u \in Task, TopAt(stack[u]) = "read", TopI(stack[u]) = i PROVE FALSE
    BY DEF Reading
  <2>1. LockedBy(stack[u]) = i
    BY DEF LockedBy
  <2> QED BY <2>1, LockersLock
<1>16. table[i].i_nlinks # 0
  <2>1. EntryRight(i) /\ table[i].i_nlinks \in 0..1
    BY <1>1 DEF InodeTypes, Entry
  <2> QED BY <1>9, <1>10, <1>15, <2>1 DEF EntryRight
<1>17. TaskRight(t)'
  <2>1. held[t] # NULL => table'[held[t]].i_num # NULL
    <3>1. held[t] # NULL => held[t] \in I!Inode
      BY <1>1 DEF InodeTypes
    <3> QED BY <1>2, <1>12, <3>1 DEF TaskRight
  <2>2. TopAt(r) = "unlink" => TopNr(r) = n
    BY <1>4 DEF Found
  <2>3. table'[i].i_num = n
    BY <1>12
  <2> QED BY <1>2, <1>4, <1>8, <1>9, <1>10, <2>1, <2>2, <2>3 DEF TaskRight, Found
<1>18. ASSUME NEW u \in Task \ {t} PROVE TaskRight(u)'
  <2>1. stack'[u] = stack[u] /\ held'[u] = held[u] /\ on' = on
    BY <1>8
  <2>2. TaskRight(u)
    BY <1>1
  <2>3. UsedBy(stack[u]) = i => TopAt(stack[u]) \notin {"iget", "create", "read", "truncate"}
    <3> SUFFICES ASSUME UsedBy(stack[u]) = i,
                        TopAt(stack[u]) \in {"iget", "create", "read", "truncate"}
                 PROVE  FALSE
      OBVIOUS
    <3>1. TopI(stack[u]) = i
      BY DEF UsedBy
    <3> QED BY <1>10, <1>15, <1>16, <2>2, <3>1 DEF TaskRight, Reading
  <2>4. ASSUME NEW j \in I!Inode, held[u] = j \/ UsedBy(stack[u]) = j \/ LockedBy(stack[u]) = j
        PROVE  LeftTo(u, j)
    <3>1. j = o => UsedBy(stack[u]) # j
      BY <1>14
    <3>2. LockedBy(stack[u]) = j => table[j].i_lock
      BY LockersLock
    <3>3. j # i /\ j # o => table'[j] = table[j]
      BY <1>12
    <3>4. /\ table'[j].i_num = table[j].i_num /\ table'[j].i_dirt = table[j].i_dirt
          /\ table'[j].i_lock = table[j].i_lock /\ table'[j].i_nlinks = table[j].i_nlinks
      BY <1>12
    <3> QED BY <2>3, <3>1, <3>2, <3>3, <3>4 DEF LeftTo
  <2>5. u \in asleep' => u \in asleep /\ \A j \in I!Inode : u \in table[j].i_wait => u \in table'[j].i_wait
    BY <1>12
  <2> QED BY <2>1, <2>4, <2>5, OtherRight
<1>19. \A j : Reading(j)' <=> Reading(j)
  BY <1>4, <1>8 DEF Reading, Found
<1>20. \A j \in I!Inode : EntryRight(j)'
  <2> SUFFICES ASSUME NEW j \in I!Inode PROVE EntryRight(j)'
    OBVIOUS
  <2>1. EntryRight(j)
    BY <1>1
  <2>2. (\E u \in Task : LockedBy(stack[u]) = j) => \E u \in Task : LockedBy(stack'[u]) = j
    BY <1>8, <1>9, InodeConstants
  <2>3. table'[j].i_count = 0 => ~table[j].i_dirt /\ ~table[j].i_lock
    <3>1. table[i].i_count + 1 # 0
      BY <1>11
    <3>2. j # i /\ j # o => table'[j].i_count = table[j].i_count
      BY <1>12
    <3>3. table[j].i_count = 0 => ~table[j].i_dirt /\ ~table[j].i_lock
      BY <2>1 DEF EntryRight
    <3> QED BY <1>10, <1>12, <3>1, <3>2, <3>3
  <2>4. /\ table'[j].i_num = table[j].i_num /\ table'[j].i_dirt = table[j].i_dirt
        /\ table'[j].i_lock = table[j].i_lock /\ table'[j].i_nlinks = table[j].i_nlinks
        /\ table'[j].data = table[j].data /\ table'[j].i_wait = table[j].i_wait
    BY <1>12
  <2> QED BY <1>19, <2>1, <2>2, <2>3, <2>4, EntryStays
<1>21. OneLocker'
  BY <1>1, <1>4, <1>8 DEF OneLocker, Found
<1>22. OneEntry' /\ \A m \in Num : NumRight(m)'
  BY <1>1, <1>12, <1>19 DEF OneEntry, NumRight
<1>23. InodeUsesCounted'
  <2>1. SameBut(held, held', Task, t) /\ held' = held
    BY DEF SameBut
  <2>2. UsedBy(stack'[t]) = i /\ UsedBy(stack[t]) = o
    BY <1>4, <1>8, <1>9 DEF Found
  <2>3. ASSUME NEW j \in I!Inode
        PROVE  table'[j].i_count = table[j].i_count
              + (IF held'[t] = j THEN 1 ELSE 0) - (IF held[t] = j THEN 1 ELSE 0)
              + (IF UsedBy(stack'[t]) = j THEN 1 ELSE 0) - (IF UsedBy(stack[t]) = j THEN 1 ELSE 0)
    <3>1. PICK c : c = table[j].i_count
      OBVIOUS
    <3>2. PICK d : d = table'[j].i_count
      OBVIOUS
    <3>3. c \in Nat /\ (j = i => d = c + 1) /\ (j = o => c = 1 /\ d = 0) /\ (j \notin {i, o} => d = c)
      BY <1>9, <1>11, <1>12, <3>1, <3>2
    <3>4. d = c + (IF i = j THEN 1 ELSE 0) - (IF o = j THEN 1 ELSE 0)
      BY <1>10, <3>3
    <3> QED BY <2>1, <2>2, <3>1, <3>2, <3>3, <3>4
  <2> QED BY <1>8, <2>1, <2>3, InodeUseMoves
<1> QED BY <1>13, <1>17, <1>18, <1>20, <1>21, <1>22, <1>23 DEF InodeInv, InodesAreTame

LEMMA IgetKeepsInodes ==
  ASSUME InodeInv, NEW t \in Task, I!Iget(t) PROVE InodeInv'
<1>1. /\ t \notin asleep /\ TopAt(stack[t]) = "iget"
      /\ Head(stack[t]).i = TopI(stack[t]) /\ Head(stack[t]).nr = TopNr(stack[t])
      /\ UNCHANGED <<on, disk, names, latest, held>>
  BY AtTop DEF I!Iget, I!files
<1>2. PICK o : o = TopI(stack[t])
  OBVIOUS
<1>3. PICK n : n = TopNr(stack[t])
  OBVIOUS
<1>4. PICK match : match = {j \in I!Inode : table[j].i_num = n}
  OBVIOUS
<1>5. CASE match = {}
  <2>1. /\ table' = [table EXCEPT ![o].i_num = n, ![o].i_lock = TRUE]
        /\ I!Bread(t, [Head(stack[t]) EXCEPT !.at = "read"])
        /\ UNCHANGED <<asleep, imap, panic>>
    BY <1>1, <1>2, <1>3, <1>4, <1>5 DEF I!Iget
  <2>2. \A j \in I!Inode : table[j].i_num # n
    BY <1>4, <1>5
  <2> QED BY <1>1, <1>2, <1>3, <2>1, <2>2, IgetMissKeeps
<1>6. CASE match # {}
  <2>1. PICK i : i = I!Min(match)
    OBVIOUS
  <2>2. i \in I!Inode /\ table[i].i_num = n
    <3>1. match \subseteq Nat
      BY <1>4, InodeConstants
    <3>2. i \in match
      BY <1>6, <2>1, <3>1, Found1
    <3> QED BY <1>4, <3>2
  <2>3. CASE table[i].i_lock
    <3>1. I!SleepOn(t, i)
      BY <1>1, <1>2, <1>3, <1>4, <1>6, <2>1, <2>3 DEF I!Iget
    <3> QED BY <1>1, <2>2, <2>3, <3>1, Sleeps
  <2>4. CASE ~table[i].i_lock
    <3>1. /\ table' = [table EXCEPT ![i].i_count = @ + 1, ![o].i_count = @ - 1]
          /\ I!ReturnInode(t, i)
          /\ UNCHANGED <<asleep, imap, panic>>
      BY <1>1, <1>2, <1>3, <1>4, <1>6, <2>1, <2>4 DEF I!Iget
    <3> QED BY <1>1, <1>2, <1>3, <2>2, <2>4, <3>1, IgetHitKeeps
  <2> QED BY <2>3, <2>4
<1> QED BY <1>5, <1>6

\* The end of a read or a write of entry i, which t alone has locked.
LEMMA UnlockLeaves ==
  ASSUME InodeInv, NEW t \in Task, NEW i \in I!Inode, LockedBy(stack[t]) = i,
         \A u \in Task \ {t} : stack'[u] = stack[u],
         NEW u \in Task \ {t}
  PROVE  LockedBy(stack[u]) # i
BY InodeConstants DEF InodeInv, OneLocker

EntryIs(x, n, c, dirt, lock, links, data1, wait) ==
    /\ x \in Entry /\ x.i_num = n /\ x.i_count = c /\ x.i_dirt = dirt /\ x.i_lock = lock
    /\ x.i_nlinks = links /\ x.data = data1 /\ x.i_wait = wait

LEMMA EntryRead ==
  ASSUME NEW e \in Entry, NEW a \in 0..1, NEW b \in 0..1, NEW x,
         x = [e EXCEPT !.i_nlinks = a, !.data = b]
  PROVE  EntryIs(x, e.i_num, e.i_count, e.i_dirt, e.i_lock, a, b, e.i_wait)
BY DEF Entry, EntryIs

LEMMA ReadInodeKeepsInodes ==
  ASSUME InodeInv, NEW t \in Task, I!ReadInode(t) PROVE InodeInv'
<1>1. /\ InodeTypes /\ \A u \in Task : TaskRight(u)
      /\ \A j \in I!Inode : EntryRight(j)
      /\ OneLocker /\ OneEntry
      /\ \A m \in Num : NumRight(m)
  BY DEF InodeInv
<1>2. /\ t \notin asleep /\ TopAt(stack[t]) = "read"
      /\ Head(stack[t]).i = TopI(stack[t]) /\ Head(stack[t]).nr = TopNr(stack[t])
      /\ UNCHANGED <<on, disk, imap, names, latest, held, panic>>
  BY AtTop DEF I!ReadInode, I!files
<1>3. PICK i : i = TopI(stack[t])
  OBVIOUS
<1>4. PICK n : n = TopNr(stack[t])
  OBVIOUS
<1>5. PICK d : d = disk[n]
  OBVIOUS
<1>6. Searches(stack[t]) /\ TaskRight(t)
  BY <1>1, <1>2, StackKinds DEF TaskRight, StackRight
<1>7. PICK q : q = <<[Head(stack[t]) EXCEPT !.at = "read"]>> \o Tail(stack[t])
  OBVIOUS
<1>8. Searched(stack[t], q)
  BY <1>6, <1>7, SearchesViews
<1>9. /\ i \in I!Inode /\ n \in Num /\ table[i].i_num = n /\ table[i].i_count = 1
      /\ ~table[i].i_dirt /\ UsedBy(stack[t]) = i /\ t \in names[n] /\ Seeks(stack[t]) = n
      /\ LockedBy(stack[t]) = i /\ n # NULL
  BY <1>2, <1>3, <1>4, <1>6, <1>8, InodeConstants DEF TaskRight, Searched
<1>10. PICK r : r = <<[Head(Tail(stack[t])) EXCEPT !.i = i]>> \o Tail(Tail(stack[t]))
  OBVIOUS
<1>11. Found(stack[t], i, r)
  BY <1>6, <1>9, <1>10, FoundViews
<1>12. PICK e : e = [[table[i] EXCEPT !.i_nlinks = d.i_nlinks, !.data = d.data]
                       EXCEPT !.i_lock = FALSE, !.i_wait = {}]
  OBVIOUS
<1>13. /\ table' = [table EXCEPT ![i] = e] /\ asleep' = asleep \ table[i].i_wait
       /\ I!ReturnInode(t, i)
  BY <1>2, <1>3, <1>4, <1>5, <1>12 DEF I!ReadInode, I!Unlock
<1>14. stack' = [stack EXCEPT ![t] = r]
  BY <1>10, <1>13, ReturnsInode
<1>15. /\ stack'[t] = r /\ \A u \in Task \ {t} : stack'[u] = stack[u]
       /\ stack' = [u \in Task |-> stack'[u]] /\ SameBut(stack, stack', Task, t)
  BY <1>14, OneStack
<1>16. d.i_nlinks = 1 /\ d.data = latest[n] /\ d.data \in 0..1 /\ n \in imap
  <2>1. NumRight(n) /\ names[n] # {}
    BY <1>1, <1>9
  <2>2. Reading(i)
    BY <1>2, <1>3 DEF Reading
  <2>3. \A j \in I!Inode : table[j].i_num = n /\ ~Reading(j) => ~table[j].i_dirt
    BY <1>1, <1>9, <2>2 DEF OneEntry
  <2>4. d \in [i_nlinks : 0..1, data : 0..1]
    BY <1>1, <1>5, <1>9 DEF InodeTypes
  <2> QED BY <1>5, <2>1, <2>3, <2>4 DEF NumRight
<1>17. /\ e \in Entry /\ e.i_num = n /\ e.i_count = 1 /\ ~e.i_dirt /\ ~e.i_lock
       /\ e.i_nlinks = 1 /\ e.data = latest[n] /\ e.i_wait = {}
  <2>1. table[i] \in Entry
    BY <1>1, <1>9 DEF InodeTypes
  <2>2. PICK a : a = d.i_nlinks
    OBVIOUS
  <2>3. PICK b : b = d.data
    OBVIOUS
  <2>4. PICK e1 : e1 = [table[i] EXCEPT !.i_nlinks = a, !.data = b]
    OBVIOUS
  <2>5. a = 1 /\ b = latest[n] /\ b \in 0..1
    BY <1>16, <2>2, <2>3
  <2>6. /\ e1 \in Entry /\ e1.i_num = n /\ e1.i_count = 1 /\ ~e1.i_dirt
        /\ e1.i_nlinks = 1 /\ e1.data = latest[n]
    <3>1. PICK e0 : e0 = table[i]
      OBVIOUS
    <3>2. e0 \in Entry /\ e1 = [e0 EXCEPT !.i_nlinks = a, !.data = b] /\ a \in 0..1
      BY <2>1, <2>4, <2>5, <3>1
    <3>3. EntryIs(e1, e0.i_num, e0.i_count, e0.i_dirt, e0.i_lock, a, b, e0.i_wait)
      BY <2>5, <3>2, EntryRead
    <3> QED BY <1>9, <2>5, <3>1, <3>3 DEF EntryIs
  <2>7. e = [e1 EXCEPT !.i_lock = FALSE, !.i_wait = {}]
    BY <1>12, <2>2, <2>3, <2>4
  <2> QED BY <2>6, <2>7 DEF Entry
<1>18. /\ table' \in [I!Inode -> Entry] /\ table'[i] = e
       /\ \A j \in I!Inode \ {i} : table'[j] = table[j]
  BY <1>1, <1>9, <1>13, <1>17 DEF InodeTypes
<1>19. InodeTypes'
  BY <1>1, <1>2, <1>13, <1>15, <1>18 DEF InodeTypes
<1>20. \A u \in Task : held[u] # i /\ (u # t => UsedBy(stack[u]) # i)
  BY <1>9, NotOthers
<1>21. \A u \in Task \ {t} : LockedBy(stack[u]) # i
  BY <1>9, <1>15, UnlockLeaves
<1>22. TaskRight(t)'
  <2>1. held[t] # NULL => table'[held[t]].i_num # NULL
    <3>1. held[t] # NULL => held[t] \in I!Inode \ {i}
      BY <1>1, <1>20 DEF InodeTypes
    <3> QED BY <1>6, <1>18, <3>1 DEF TaskRight
  <2>2. TopAt(r) = "unlink" => TopNr(r) = n
    BY <1>4, <1>11 DEF Found
  <2>3. table'[i].i_num = n /\ t \notin asleep' /\ held' = held /\ names' = names /\ on' = on
    BY <1>2, <1>13, <1>17, <1>18
  <2> QED BY <1>2, <1>6, <1>9, <1>11, <1>15, <2>1, <2>2, <2>3 DEF TaskRight, Found
<1>23. ASSUME NEW u \in Task \ {t} PROVE TaskRight(u)'
  <2>1. stack'[u] = stack[u] /\ held'[u] = held[u] /\ on' = on
    BY <1>2, <1>15
  <2>2. ASSUME NEW j \in I!Inode, held[u] = j \/ UsedBy(stack[u]) = j \/ LockedBy(stack[u]) = j
        PROVE  LeftTo(u, j)
    <3>1. table'[j] = table[j]
      BY <1>18, <1>20, <1>21, <2>2
    <3>2. LockedBy(stack[u]) = j => table[j].i_lock
      BY LockersLock
    <3> QED BY <3>1, <3>2 DEF LeftTo
  <2>3. u \in asleep' => u \in asleep /\ \A j \in I!Inode : u \in table[j].i_wait => u \in table'[j].i_wait
    BY <1>13, <1>18
  <2> QED BY <1>2, <2>1, <2>2, <2>3, OtherRight
<1>24. ~Reading(i)' /\ \A j : j # i => (Reading(j)' <=> Reading(j))
  <2>1. TopAt(r) # "read"
    BY <1>11 DEF Found
  <2>2. \A u \in Task \ {t} : ~(TopAt(stack[u]) = "read" /\ TopI(stack[u]) = i)
    BY <1>21 DEF LockedBy
  <2>3. ~Reading(i)'
    BY <1>15, <2>1, <2>2 DEF Reading
  <2>4. \A j : j # i => (Reading(j)' <=> Reading(j))
    BY <1>3, <1>15, <2>1 DEF Reading
  <2> QED BY <2>3, <2>4
<1>25. \A j \in I!Inode : EntryRight(j)'
  <2> SUFFICES ASSUME NEW j \in I!Inode PROVE EntryRight(j)'
    OBVIOUS
  <2>1. CASE j = i
    <3>1. /\ table'[i].i_num = n /\ table'[i].i_count = 1 /\ table'[i].i_wait = {}
          /\ ~table'[i].i_lock /\ table'[i].i_nlinks = 1 /\ table'[i].data = latest'[n]
          /\ n \in imap' /\ n # NULL /\ names'[n] # {}
      BY <1>2, <1>9, <1>16, <1>17, <1>18
    <3>2. EntryRight(i)'
      BY <3>1 DEF EntryRight
    <3> QED BY <2>1, <3>2
  <2>2. CASE j # i
    <3>1. EntryRight(j) /\ table'[j] = table[j] /\ (Reading(j)' <=> Reading(j))
      BY <1>1, <1>18, <1>24, <2>2
    <3>2. (\E u \in Task : LockedBy(stack[u]) = j) => \E u \in Task : LockedBy(stack'[u]) = j
      BY <1>9, <1>15, <2>2
    <3>3. table[j].i_num = NULL \/ table[j].i_num \in imap'
      BY <1>2, <3>1 DEF EntryRight
    <3> QED BY <1>2, <3>1, <3>2, <3>3, OtherEntry
  <2> QED BY <2>1, <2>2
<1>26. OneLocker'
  <2>1. LockedBy(r) = NULL
    BY <1>11 DEF Found
  <2> QED BY <1>1, <1>15, <2>1 DEF OneLocker
<1>27. OneEntry'
  BY <1>1, <1>9, <1>17, <1>18 DEF OneEntry
<1>28. \A m \in Num : NumRight(m)'
  <2> SUFFICES ASSUME NEW m \in Num PROVE NumRight(m)'
    OBVIOUS
  <2>1. NumRight(m)
    BY <1>1
  <2>2. (\A j \in I!Inode : table'[j].i_num = m /\ ~Reading(j)' => ~table'[j].i_dirt)
            => \A j \in I!Inode : table[j].i_num = m /\ ~Reading(j) => ~table[j].i_dirt
    <3>1. \A j \in I!Inode : j # i => (Reading(j)' <=> Reading(j)) /\ table'[j] = table[j]
      BY <1>18, <1>24
    <3> QED BY <1>9, <3>1
  <2> QED BY <1>2, <2>1, <2>2 DEF NumRight
<1>29. InodeUsesCounted'
  <2>1. \A j \in I!Inode : table'[j].i_count = table[j].i_count
    BY <1>9, <1>17, <1>18
  <2>2. UsedBy(stack'[t]) = UsedBy(stack[t])
    BY <1>9, <1>11, <1>15 DEF Found
  <2> QED BY <1>2, <1>15, <2>1, <2>2, InodeUseStays
<1> QED BY <1>2, <1>19, <1>22, <1>23, <1>25, <1>26, <1>27, <1>28, <1>29 DEF InodeInv, InodesAreTame

\* A step of t that changes the entry i alone, and that locks or unlocks no other.
LEMMA ReadsElse ==
  ASSUME InodeInv, NEW t \in Task, NEW i \in I!Inode, NEW r, stack' = [stack EXCEPT ![t] = r],
         LockedBy(stack[t]) \in {NULL, i}, LockedBy(r) \in {NULL, i},
         NEW j \in I!Inode, j # i
  PROVE  /\ Reading(j)' <=> Reading(j)
         /\ (\E u \in Task : LockedBy(stack[u]) = j) => \E u \in Task : LockedBy(stack'[u]) = j
<1>1. stack'[t] = r /\ \A u \in Task \ {t} : stack'[u] = stack[u]
  BY OneStack
<1>2. j # NULL
  BY InodeConstants
<1>3. TopAt(stack[t]) = "read" => TopI(stack[t]) # j
  BY <1>2 DEF LockedBy
<1>4. TopAt(r) = "read" => TopI(r) # j
  BY <1>2 DEF LockedBy
<1> QED BY <1>1, <1>2, <1>3, <1>4 DEF Reading

\* What such a step must do: entry i becomes e, the stack of t becomes r.
Step(t, i, e, r) ==
    /\ e \in Entry /\ table' = [table EXCEPT ![i] = e]
    /\ stack' = [stack EXCEPT ![t] = r]
    /\ LockedBy(stack[t]) \in {NULL, i} /\ LockedBy(r) \in {NULL, i}
    /\ \A u \in Task \ {t} : LockedBy(r) = i => LockedBy(stack[u]) # i
    /\ on' = on /\ panic' = panic
    /\ held' \in [Task -> I!Inode \cup {NULL}] /\ SameBut(held, held', Task, t)
    /\ disk' \in [Num -> [i_nlinks : 0..1, data : 0..1]] /\ imap' \subseteq Num
    /\ names' \in [Num -> SUBSET Task] /\ latest' \in [Num -> 0..1]
    /\ asleep' \subseteq asleep
    /\ \A u \in asleep' : u \in table[i].i_wait => u \in e.i_wait

\* The numbers that such a step does not concern.
Kept(i, e, m) ==
    /\ names'[m] # {} => names[m] # {} /\ m \in imap'
    /\ disk'[m] = disk[m] /\ latest'[m] = latest[m]
    /\ (e.i_num = m /\ ~Reading(i)' => ~e.i_dirt)
         => (table[i].i_num = m /\ ~Reading(i) => ~table[i].i_dirt)

LEMMA NumStays ==
  ASSUME InodeInv, NEW t \in Task, NEW i \in I!Inode, NEW e, NEW r, Step(t, i, e, r),
         NEW m \in Num, Kept(i, e, m)
  PROVE  NumRight(m)'
<1>1. NumRight(m)
  BY DEF InodeInv
<1>2. table'[i] = e /\ \A j \in I!Inode \ {i} : table'[j] = table[j]
  BY DEF InodeInv, InodeTypes, Step
<1>3. \A j \in I!Inode \ {i} : Reading(j)' <=> Reading(j)
  BY ReadsElse DEF Step
<1>4. (\A j \in I!Inode : table'[j].i_num = m /\ ~Reading(j)' => ~table'[j].i_dirt)
        => \A j \in I!Inode : table[j].i_num = m /\ ~Reading(j) => ~table[j].i_dirt
  BY <1>2, <1>3 DEF Kept
<1> QED BY <1>1, <1>4 DEF NumRight, Kept

LeavesOthers(t, i, e) ==
    /\ \A u \in Task \ {t} :
         held[u] = i \/ UsedBy(stack[u]) = i \/ LockedBy(stack[u]) = i => LeftTo(u, i)
    /\ \A u \in Task \ {t} : \A n \in Num :
         /\ (u \in names[n] => u \in names'[n]) \/ Seeks(stack[u]) # n
         /\ names'[n] = names[n] \/ Unlinks(stack[u]) # n
    /\ \A j \in I!Inode \ {i} :
         \/ table[j].i_num = NULL
         \/ /\ table[j].i_num \in imap'
            /\ names'[table[j].i_num] = names[table[j].i_num]
            /\ latest'[table[j].i_num] = latest[table[j].i_num]
    /\ e.i_num # NULL => \A j \in I!Inode \ {i} : table[j].i_num # e.i_num

Counts(t, i, e, r) ==
    /\ e.i_count = table[i].i_count
              + (IF held'[t] = i THEN 1 ELSE 0) - (IF held[t] = i THEN 1 ELSE 0)
              + (IF UsedBy(r) = i THEN 1 ELSE 0) - (IF UsedBy(stack[t]) = i THEN 1 ELSE 0)
    /\ \A j \in I!Inode \ {i} :
            (IF held'[t] = j THEN 1 ELSE 0) + (IF UsedBy(r) = j THEN 1 ELSE 0)
              = (IF held[t] = j THEN 1 ELSE 0) + (IF UsedBy(stack[t]) = j THEN 1 ELSE 0)

LEMMA EntryStep ==
  ASSUME InodeInv, NEW t \in Task, NEW i \in I!Inode, NEW e, NEW r,
         Step(t, i, e, r), LeavesOthers(t, i, e), Counts(t, i, e, r),
         TaskRight(t)', EntryRight(i)', \A m \in Num : NumRight(m)'
  PROVE  InodeInv'
<1>0. /\ e \in Entry /\ table' = [table EXCEPT ![i] = e]
      /\ stack' = [stack EXCEPT ![t] = r]
      /\ LockedBy(stack[t]) \in {NULL, i} /\ LockedBy(r) \in {NULL, i}
      /\ \A u \in Task \ {t} : LockedBy(r) = i => LockedBy(stack[u]) # i
      /\ on' = on /\ panic' = panic
      /\ held' \in [Task -> I!Inode \cup {NULL}] /\ SameBut(held, held', Task, t)
      /\ disk' \in [Num -> [i_nlinks : 0..1, data : 0..1]] /\ imap' \subseteq Num
      /\ names' \in [Num -> SUBSET Task] /\ latest' \in [Num -> 0..1]
      /\ asleep' \subseteq asleep
      /\ \A u \in asleep' : u \in table[i].i_wait => u \in e.i_wait
  BY DEF Step
<1>1. /\ InodeTypes /\ \A u \in Task : TaskRight(u)
      /\ \A j \in I!Inode : EntryRight(j)
      /\ OneLocker /\ OneEntry
  BY DEF InodeInv
<1>2. /\ stack'[t] = r /\ \A u \in Task \ {t} : stack'[u] = stack[u]
      /\ stack' = [u \in Task |-> stack'[u]] /\ SameBut(stack, stack', Task, t)
  BY <1>0, OneStack
<1>3. /\ table' \in [I!Inode -> Entry] /\ table'[i] = e
      /\ \A j \in I!Inode \ {i} : table'[j] = table[j]
  BY <1>0, <1>1 DEF InodeTypes
<1>4. InodeTypes'
  BY <1>0, <1>1, <1>2, <1>3 DEF InodeTypes
<1>5. ASSUME NEW u \in Task \ {t} PROVE TaskRight(u)'
  <2>1. stack'[u] = stack[u] /\ held'[u] = held[u]
    BY <1>0, <1>2 DEF SameBut
  <2>2. ASSUME NEW j \in I!Inode, held[u] = j \/ UsedBy(stack[u]) = j \/ LockedBy(stack[u]) = j
        PROVE  LeftTo(u, j)
    <3>1. LockedBy(stack[u]) = j => table[j].i_lock
      BY LockersLock
    <3>2. j # i => LeftTo(u, j)
      BY <1>3, <3>1 DEF LeftTo
    <3> QED BY <2>2, <3>2 DEF LeavesOthers
  <2>3. u \in asleep' => u \in asleep /\ \A j \in I!Inode : u \in table[j].i_wait => u \in table'[j].i_wait
    BY <1>0, <1>3
  <2>4. /\ \A n \in Num : (u \in names[n] => u \in names'[n]) \/ Seeks(stack[u]) # n
        /\ \A n \in Num : names'[n] = names[n] \/ Unlinks(stack[u]) # n
    BY DEF LeavesOthers
  <2> QED BY <1>0, <2>1, <2>2, <2>3, <2>4, OtherRight
<1>6. ASSUME NEW j \in I!Inode, j # i PROVE EntryRight(j)'
  <2>1. EntryRight(j) /\ table'[j] = table[j]
    BY <1>1, <1>3, <1>6
  <2>2. /\ Reading(j)' <=> Reading(j)
        /\ (\E u \in Task : LockedBy(stack[u]) = j) => \E u \in Task : LockedBy(stack'[u]) = j
    BY <1>0, <1>6, ReadsElse
  <2>3. \/ table[j].i_num = NULL
        \/ /\ table[j].i_num \in imap'
           /\ names'[table[j].i_num] = names[table[j].i_num]
           /\ latest'[table[j].i_num] = latest[table[j].i_num]
    BY <1>6 DEF LeavesOthers
  <2> QED BY <1>0, <2>1, <2>2, <2>3, OtherEntry
<1>7. OneLocker'
  BY <1>0, <1>1, <1>2, InodeConstants DEF OneLocker
<1>8. OneEntry'
  BY <1>1, <1>3 DEF OneEntry, LeavesOthers
<1>9. InodeUsesCounted'
  <2>1. ASSUME NEW j \in I!Inode
        PROVE  table'[j].i_count = table[j].i_count
              + (IF held'[t] = j THEN 1 ELSE 0) - (IF held[t] = j THEN 1 ELSE 0)
              + (IF UsedBy(stack'[t]) = j THEN 1 ELSE 0) - (IF UsedBy(stack[t]) = j THEN 1 ELSE 0)
    <3>1. table[j].i_count \in Nat
      BY EntryUsers
    <3>2. CASE j = i
      BY <1>2, <1>3, <3>2 DEF Counts
    <3>3. CASE j # i
      <4>1. table'[j].i_count = table[j].i_count
        BY <1>3, <3>3
      <4>2. (IF held'[t] = j THEN 1 ELSE 0) + (IF UsedBy(r) = j THEN 1 ELSE 0)
              = (IF held[t] = j THEN 1 ELSE 0) + (IF UsedBy(stack[t]) = j THEN 1 ELSE 0)
        BY <3>3 DEF Counts
      <4>3. PICK c : c = table[j].i_count
        OBVIOUS
      <4>4. PICK p : p = IF held'[t] = j THEN 1 ELSE 0
        OBVIOUS
      <4>5. PICK q : q = IF held[t] = j THEN 1 ELSE 0
        OBVIOUS
      <4>6. PICK x : x = IF UsedBy(r) = j THEN 1 ELSE 0
        OBVIOUS
      <4>7. PICK y : y = IF UsedBy(stack[t]) = j THEN 1 ELSE 0
        OBVIOUS
      <4>8. c \in Nat /\ p \in 0..1 /\ q \in 0..1 /\ x \in 0..1 /\ y \in 0..1 /\ p + x = q + y
        BY <3>1, <4>2, <4>3, <4>4, <4>5, <4>6, <4>7
      <4>9. c = c + p - q + x - y
        BY <4>8
      <4> QED BY <1>2, <4>1, <4>3, <4>4, <4>5, <4>6, <4>7, <4>9
    <3> QED BY <3>2, <3>3
  <2> QED BY <1>0, <1>2, <2>1, InodeUseMoves
<1>10. /\ \A u \in Task : TaskRight(u)'
       /\ \A j \in I!Inode : EntryRight(j)'
       /\ \A m \in Num : NumRight(m)'
  BY <1>5, <1>6
<1> QED BY <1>0, <1>4, <1>7, <1>8, <1>9, <1>10 DEF InodeInv, InodesAreTame

\* A task whose stack is empty.
LEMMA OutRight ==
  ASSUME InodeInv, NEW t \in Task, stack'[t] = <<>>, t \notin asleep', 
         held'[t] # NULL => table'[held'[t]].i_num # NULL
  PROVE  TaskRight(t)'
BY NoFrames DEF TaskRight

LEMMA TruncatedKeepsInodes ==
  ASSUME InodeInv, NEW t \in Task, I!Truncated(t) PROVE InodeInv'
<1>1. /\ InodeTypes /\ \A u \in Task : TaskRight(u)
      /\ \A j \in I!Inode : EntryRight(j)
      /\ OneLocker /\ OneEntry
      /\ \A m \in Num : NumRight(m)
  BY DEF InodeInv
<1>2. /\ t \notin asleep /\ TopAt(stack[t]) = "truncate"
      /\ Head(stack[t]).i = TopI(stack[t])
      /\ UNCHANGED <<on, disk, names, latest, held>>
  BY AtTop DEF I!Truncated, I!files
<1>3. PICK i : i = TopI(stack[t])
  OBVIOUS
<1>4. Single(stack[t]) /\ TaskRight(t)
  BY <1>1, <1>2, StackKinds DEF TaskRight, StackRight
<1>5. /\ i \in I!Inode /\ Tail(stack[t]) = <<>> /\ UsedBy(stack[t]) = i
      /\ LockedBy(stack[t]) = NULL
  BY <1>3, <1>4, SingleViews
<1>6. /\ table[i].i_num # NULL /\ table[i].i_count = 1 /\ table[i].i_nlinks = 0
      /\ ~table[i].i_lock
  BY <1>2, <1>3, <1>4 DEF TaskRight
<1>7. /\ imap' = imap \ {table[i].i_num} /\ table' = [table EXCEPT ![i] = I!Zeroed]
      /\ stack' = [stack EXCEPT ![t] = <<>>]
      /\ UNCHANGED <<asleep, panic>>
  <2>1. I!FreeInode(t, i)
    BY <1>2, <1>3 DEF I!Truncated
  <2>2. ~(table[i].i_count > 1 \/ table[i].i_nlinks # 0)
    BY <1>6
  <2>3. /\ imap' = imap \ {table[i].i_num} /\ table' = [table EXCEPT ![i] = I!Zeroed]
        /\ I!Return(t) /\ UNCHANGED <<asleep, panic>>
    BY <2>1, <2>2 DEF I!FreeInode
  <2>4. stack' = [stack EXCEPT ![t] = <<>>]
    BY <1>5, <2>3, JoinNone DEF I!Return, I!Replace, I!Below
  <2> QED BY <2>3, <2>4
<1>8. PICK n : n = table[i].i_num
  OBVIOUS
<1>9. PICK e : e = I!Zeroed
  OBVIOUS
<1>10. /\ e \in Entry /\ e.i_num = NULL /\ e.i_count = 0 /\ ~e.i_dirt /\ ~e.i_lock
       /\ e.data = 0 /\ e.i_wait = {}
  BY <1>9 DEF I!Zeroed, Entry
<1>11. \A u \in Task : held[u] # i /\ (u # t => UsedBy(stack[u]) # i) /\ LockedBy(stack[u]) # i
  BY <1>5, <1>6, NotOthers, LockersLock
<1>12. ~Reading(i) /\ table[i].i_wait = {}
  BY <1>1, <1>5, <1>6, <1>11 DEF Reading, LockedBy, EntryRight
<1>13. n \in Num /\ names[n] = {}
  <2>1. EntryRight(i) /\ table[i] \in Entry
    BY <1>1, <1>5 DEF InodeTypes
  <2> QED BY <1>6, <1>8, <1>12, <2>1 DEF EntryRight, Entry
<1>14. PICK r : r = <<>>
  OBVIOUS
<1>15. LockedBy(r) = NULL /\ UsedBy(r) = NULL /\ stack' = [stack EXCEPT ![t] = r]
  BY <1>7, <1>14, NoFrames
<1>16. stack'[t] = <<>>
  BY <1>14, <1>15, OneStack
<1>17. table'[i] = e /\ \A j \in I!Inode \ {i} : table'[j] = table[j]
  BY <1>1, <1>5, <1>7, <1>9 DEF InodeTypes
<1>18. TaskRight(t)'
  <2>1. held'[t] # NULL => table'[held'[t]].i_num # NULL
    <3>1. held[t] # NULL => held[t] \in I!Inode \ {i}
      BY <1>1, <1>11 DEF InodeTypes
    <3> QED BY <1>2, <1>4, <1>17, <3>1 DEF TaskRight
  <2> QED BY <1>2, <1>7, <1>16, <2>1, OutRight
<1>19. EntryRight(i)'
  BY <1>10, <1>17 DEF EntryRight
<1>20. \A j \in I!Inode \ {i} : table[j].i_num # NULL =>
             table[j].i_num \in imap' /\ table[j].i_num # n
  BY <1>1, <1>5, <1>6, <1>7, <1>8 DEF EntryRight, OneEntry
<1>21. Step(t, i, e, r)
  BY <1>1, <1>2, <1>5, <1>7, <1>9, <1>10, <1>11, <1>12, <1>15 DEF InodeTypes, SameBut, Step
<1>22. \A m \in Num : NumRight(m)'
  <2> SUFFICES ASSUME NEW m \in Num PROVE NumRight(m)'
    OBVIOUS
  <2>1. CASE m = n
    BY <1>2, <1>13, <2>1 DEF NumRight
  <2>2. CASE m # n
    <3>1. Kept(i, e, m)
      BY <1>1, <1>2, <1>7, <1>8, <2>2 DEF NumRight, Kept
    <3> QED BY <1>5, <1>21, <3>1, NumStays
  <2> QED BY <2>1, <2>2
<1>23. LeavesOthers(t, i, e)
  BY <1>2, <1>10, <1>11, <1>12, <1>20 DEF LeavesOthers
<1>24. Counts(t, i, e, r)
  BY <1>2, <1>5, <1>6, <1>10, <1>15, InodeConstants DEF Counts
<1> QED BY <1>5, <1>18, <1>19, <1>21, <1>22, <1>23, <1>24, EntryStep

LEMMA IputKeepsInodes ==
  ASSUME InodeInv, NEW t \in Task, I!Iput(t) PROVE InodeInv'
<1>1. /\ InodeTypes /\ \A u \in Task : TaskRight(u)
      /\ \A j \in I!Inode : EntryRight(j)
  BY DEF InodeInv
<1>2. /\ t \notin asleep /\ TopAt(stack[t]) = "iput"
      /\ Head(stack[t]).i = TopI(stack[t])
      /\ UNCHANGED <<on, disk, names, latest, held>>
  BY AtTop DEF I!Iput, I!files
<1>3. PICK i : i = TopI(stack[t])
  OBVIOUS
<1>4. Single(stack[t]) /\ TaskRight(t)
  BY <1>1, <1>2, StackKinds DEF TaskRight, StackRight
<1>5. /\ i \in I!Inode /\ Tail(stack[t]) = <<>> /\ UsedBy(stack[t]) = i
      /\ LockedBy(stack[t]) = NULL /\ ~Syncs(stack[t])
  BY <1>3, <1>4, SingleViews
<1>6. table[i].i_count \in Nat /\ table[i].i_count >= 1
  BY <1>5, EntryUsers
<1>7. CASE table[i].i_lock
  <2>1. I!SleepOn(t, i)
    BY <1>2, <1>3, <1>7 DEF I!Iput
  <2> QED BY <1>2, <1>5, <1>7, <2>1, Sleeps
<1>8. CASE ~table[i].i_lock /\ table[i].i_num = NULL
  <2>1. I!CountDown(t, i)
    BY <1>2, <1>3, <1>6, <1>8 DEF I!Iput
  <2>2. ~table[i].i_dirt
    BY <1>1, <1>5, <1>8 DEF EntryRight
  <2> QED BY <1>2, <1>5, <1>8, <2>1, <2>2, CountsDown
<1>9. CASE /\ ~table[i].i_lock /\ table[i].i_num # NULL
           /\ table[i].i_num \in BlkNum /\ "block_files" \in on
  <2>1. /\ I!Goto(t, <<I!Frame("sync", 1, NULL)>>, I!Frame("repeat", i, NULL))
        /\ UNCHANGED <<table, imap, asleep, panic>>
    BY <1>2, <1>3, <1>6, <1>9 DEF I!Iput
  <2>2. PICK q : q = <<I!Frame("repeat", i, NULL)>>
    OBVIOUS
  <2>3. PICK r : r = <<I!Frame("sync", 1, NULL)>> \o q
    OBVIOUS
  <2>4. stack' = [stack EXCEPT ![t] = r]
    <3>1. (<<I!Frame("sync", 1, NULL)>> \o q) \o <<>> = r
      BY <2>2, <2>3, JoinTwo
    <3> QED BY <1>5, <2>1, <2>2, <3>1 DEF I!Goto, I!Replace, I!Below
  <2>5. /\ Resumes(q) /\ Repeats(q) = i /\ UsedBy(q) = i /\ TopAt(q) = "repeat"
    BY <1>5, <2>2, FrameViews DEF Resumes
  <2>6. 1 \in I!Inode
    BY <1>5, FilesAssumption DEF I!InodeTableAssumption, I!Inode
  <2>7. /\ Resumes(r) /\ TopAt(r) = "sync" /\ UsedBy(r) = i /\ Repeats(r) = i
    <3>1. TopAt(q) \in {"out", "repeat"}
      BY <2>5
    <3> QED BY <2>3, <2>5, <2>6, <3>1, SyncViews
  <2>8. StackRight(r) /\ Seeks(r) = NULL /\ Unlinks(r) = NULL /\ LockedBy(r) = NULL
    BY <2>7, ResumesViews
  <2>9. stack'[t] = r
    BY <2>4, OneStack
  <2>10. "unlink" \notin on
    BY <1>9 DEF InodeInv, InodeTypes, InodesAreTame
  <2>11. TaskRight(t)'
    BY <1>1, <1>2, <1>4, <1>9, <2>1, <2>7, <2>8, <2>9, <2>10 DEF TaskRight
  <2>12. SameBut(held, held', Task, t) /\ held' \in [Task -> I!Inode \cup {NULL}]
    BY <1>1, <1>2 DEF SameBut, InodeTypes
  <2> QED BY <1>2, <1>5, <2>1, <2>4, <2>7, <2>11, <2>12, GoesOn
<1>10. CASE /\ ~table[i].i_lock /\ table[i].i_num # NULL
            /\ ~(table[i].i_num \in BlkNum /\ "block_files" \in on)
  <2>1. I!Release(t, i)
    BY <1>2, <1>3, <1>6, <1>10 DEF I!Iput
  <2> QED BY <1>2, <1>5, <1>10, <2>1, Releases
<1> QED BY <1>7, <1>8, <1>9, <1>10

LEMMA RepeatKeepsInodes ==
  ASSUME InodeInv, NEW t \in Task, I!Repeat(t) PROVE InodeInv'
<1>1. /\ InodeTypes /\ \A u \in Task : TaskRight(u)
  BY DEF InodeInv
<1>2. /\ t \notin asleep /\ TopAt(stack[t]) = "repeat"
      /\ Head(stack[t]).i = TopI(stack[t])
      /\ UNCHANGED <<on, disk, names, latest, held>>
  BY AtTop DEF I!Repeat, I!files
<1>3. PICK i : i = TopI(stack[t])
  OBVIOUS
<1>4. Resumes(stack[t]) /\ TaskRight(t)
  BY <1>1, <1>2, StackKinds DEF TaskRight, StackRight
<1>5. /\ i \in I!Inode /\ Tail(stack[t]) = <<>> /\ UsedBy(stack[t]) = i
      /\ ~Syncs(stack[t]) /\ Repeats(stack[t]) = i
  BY <1>2, <1>3, <1>4, ResumesViews
<1>6. table[i].i_num # NULL
  BY <1>4, <1>5, InodeConstants DEF TaskRight
<1>7. CASE table[i].i_lock
  <2>1. I!SleepOn(t, i)
    BY <1>2, <1>3, <1>7 DEF I!Repeat
  <2> QED BY <1>2, <1>5, <1>7, <2>1, Sleeps
<1>8. CASE ~table[i].i_lock
  <2>1. I!Release(t, i)
    BY <1>2, <1>3, <1>8 DEF I!Repeat
  <2> QED BY <1>2, <1>5, <1>6, <1>8, <2>1, Releases
<1> QED BY <1>7, <1>8

LEMMA JoinResumes ==
  ASSUME NEW s, Resumes(s) PROVE <<>> \o s = s
<1>1. CASE s = <<>>
  BY <1>1, JoinNone
<1>2. CASE \E p \in {"sync", "repeat"} : \E i \in I!Inode : s = <<I!Frame(p, i, NULL)>>
  BY <1>2, JoinNone
<1>3. CASE \E k \in I!Inode : \E i \in I!Inode :
             s = <<I!Frame("sync", k, NULL), I!Frame("repeat", i, NULL)>>
  BY <1>3, JoinTwo
<1> QED BY <1>1, <1>2, <1>3 DEF Resumes

\* What is left when an inode has been written, or need not be.
LEMMA ReturnsToRest ==
  ASSUME InodeInv, NEW t \in Task, Writes(stack[t]), I!Return(t), NEW q, q = Tail(stack[t])
  PROVE  stack' = [stack EXCEPT ![t] = q]
<1>1. Resumes(q)
  BY WritesViews
<1>2. <<>> \o q = q
  BY <1>1, JoinResumes
<1> QED BY <1>2 DEF I!Return, I!Replace, I!Below

LEMMA EntryFlags ==
  ASSUME NEW e \in Entry, NEW d \in BOOLEAN, NEW l \in BOOLEAN, NEW w \in SUBSET Task,
         NEW x, x = [e EXCEPT !.i_dirt = d, !.i_lock = l, !.i_wait = w]
  PROVE  EntryIs(x, e.i_num, e.i_count, d, l, e.i_nlinks, e.data, w)
BY DEF Entry, EntryIs

LEMMA EntryEqual ==
  ASSUME NEW e \in Entry, ~e.i_lock, e.i_wait = {}
  PROVE  [e EXCEPT !.i_lock = FALSE, !.i_wait = {}] = e
BY DEF Entry

LEMMA CleanReturns ==
  ASSUME InodeInv, NEW t \in Task, NEW i \in I!Inode, TopAt(stack[t]) = "lock",
         TopI(stack[t]) = i, t \notin asleep, Writes(stack[t]), ~table[i].i_lock,
         I!Unlock(i, table[i]), I!Return(t),
         UNCHANGED <<on, disk, imap, names, latest, held, panic>>
  PROVE  InodeInv'
<1>1. /\ InodeTypes /\ TaskRight(t) /\ EntryRight(i)
  BY DEF InodeInv
<1>2. PICK q : q = Tail(stack[t])
  OBVIOUS
<1>3. /\ Resumes(q) /\ UsedBy(q) = UsedBy(stack[t]) /\ Repeats(q) = Repeats(stack[t])
      /\ (Syncs(q) <=> Syncs(stack[t]))
  BY <1>2, WritesViews
<1>4. /\ Seeks(q) = NULL /\ Unlinks(q) = NULL /\ LockedBy(q) = NULL /\ StackRight(q)
      /\ TopAt(q) \in {"out", "sync", "repeat"}
  BY <1>3, ResumesViews, StackKinds
<1>5. stack' = [stack EXCEPT ![t] = q]
  BY <1>2, ReturnsToRest
<1>6. stack'[t] = q
  BY <1>5, OneStack
<1>7. table[i] \in Entry /\ table[i].i_wait = {}
  BY <1>1 DEF InodeTypes, EntryRight
<1>8. table' = table /\ asleep' = asleep
  <2>1. [table[i] EXCEPT !.i_lock = FALSE, !.i_wait = {}] = table[i]
    BY <1>7, EntryEqual
  <2>2. table' = [table EXCEPT ![i] = table[i]]
    BY <2>1 DEF I!Unlock
  <2>3. table' = table
    BY <1>1, <2>2 DEF InodeTypes
  <2> QED BY <1>7, <2>3 DEF I!Unlock
<1>9. TaskRight(t)'
  BY <1>1, <1>3, <1>4, <1>6, <1>8 DEF TaskRight
<1>10. SameBut(held, held', Task, t) /\ held' \in [Task -> I!Inode \cup {NULL}]
  BY <1>1 DEF SameBut, InodeTypes
<1> QED BY <1>3, <1>4, <1>5, <1>8, <1>9, <1>10, GoesOn

\* Another task that is at work on an entry that t is to write or has written.
LEMMA WriterLeaves ==
  ASSUME InodeInv, NEW t \in Task, NEW i \in I!Inode, TopAt(stack[t]) = "lock",
         TopI(stack[t]) = i, NEW u \in Task \ {t}, UsedBy(stack[u]) = i
  PROVE  TopAt(stack[u]) # "truncate"
<1> SUFFICES ASSUME TopAt(stack[u]) = "truncate" PROVE FALSE
  OBVIOUS
<1>1. TaskRight(t) /\ TaskRight(u) /\ EntryRight(i)
  BY DEF InodeInv
<1>2. TopI(stack[u]) = i
  BY DEF UsedBy
<1>3. /\ table[i].i_num # NULL /\ table[i].i_count = 1 /\ table[i].i_nlinks = 0
      /\ ~table[i].i_lock
  BY <1>1, <1>2 DEF TaskRight
<1>4. ~Reading(i)
  <2>1. \A x \in Task : LockedBy(stack[x]) # i
    BY <1>3, LockersLock
  <2> QED BY <2>1 DEF Reading, LockedBy
<1>5. "unlink" \in on
  BY <1>1, <1>3, <1>4 DEF EntryRight
<1>6. UsedBy(stack[t]) = i
  BY <1>1, <1>5 DEF TaskRight
<1> QED BY <1>3, <1>6, EntryUsers

LEMMA LocksToWrite ==
  ASSUME InodeInv, NEW t \in Task, NEW i \in I!Inode, TopAt(stack[t]) = "lock",
         TopI(stack[t]) = i, t \notin asleep, Writes(stack[t]), ~table[i].i_lock,
         table[i].i_dirt, table[i].i_num # NULL,
         table' = [table EXCEPT ![i].i_lock = TRUE],
         I!Bread(t, I!Frame("write", i, table[i].i_num)),
         UNCHANGED <<on, disk, imap, names, latest, held, asleep, panic>>
  PROVE  InodeInv'
<1>1. /\ InodeTypes /\ TaskRight(t) /\ EntryRight(i)
      /\ \A m \in Num : NumRight(m)
      /\ OneEntry /\ \A j \in I!Inode : EntryRight(j)
  BY DEF InodeInv
<1>2. PICK q : q = Tail(stack[t])
  OBVIOUS
<1>3. /\ Resumes(q) /\ UsedBy(q) = UsedBy(stack[t]) /\ Repeats(q) = Repeats(stack[t])
      /\ (Syncs(q) <=> Syncs(stack[t])) /\ LockedBy(stack[t]) = NULL
  BY <1>2, WritesViews
<1>4. PICK n : n = table[i].i_num
  OBVIOUS
<1>5. PICK f : f = I!Frame("write", i, n)
  OBVIOUS
<1>6. PICK r : r = <<f>> \o q
  OBVIOUS
<1>7. table[i] \in Entry /\ n \in Num
  <2>1. table[i] \in Entry
    BY <1>1 DEF InodeTypes
  <2> QED BY <1>4, <2>1 DEF Entry
<1>8. WriteFrame(f) /\ f.at = "write" /\ f.i = i /\ f.nr = n
  BY <1>5, <1>7, Fields DEF WriteFrame
<1>9. Pushed(r, f, q)
  BY <1>3, <1>6, <1>8, PushViews
<1>10. stack' = [stack EXCEPT ![t] = r]
  BY <1>2, <1>4, <1>5, <1>6, BreadGoesOn
<1>11. stack'[t] = r /\ \A u \in Task \ {t} : stack'[u] = stack[u]
  BY <1>10, OneStack
<1>12. PICK x : x = table[i]
  OBVIOUS
<1>13. PICK e : e = [x EXCEPT !.i_dirt = x.i_dirt, !.i_lock = TRUE, !.i_wait = x.i_wait]
  OBVIOUS
<1>14. x \in Entry /\ x.i_dirt \in BOOLEAN /\ x.i_wait \in SUBSET Task
  BY <1>7, <1>12 DEF Entry
<1>15. EntryIs(e, x.i_num, x.i_count, x.i_dirt, TRUE, x.i_nlinks, x.data, x.i_wait)
  BY <1>13, <1>14, EntryFlags
<1>16. table' = [table EXCEPT ![i] = e]
  <2>1. [x EXCEPT !.i_lock = TRUE] = e
    BY <1>13, <1>14 DEF Entry
  <2> QED BY <1>12, <2>1
<1>17. /\ e \in Entry /\ e.i_num = n /\ e.i_count = table[i].i_count /\ e.i_dirt /\ e.i_lock
       /\ e.i_nlinks = table[i].i_nlinks /\ e.data = table[i].data
       /\ e.i_wait = table[i].i_wait
  BY <1>4, <1>12, <1>15 DEF EntryIs
<1>18. \A u \in Task : LockedBy(stack[u]) # i
  BY LockersLock
<1>19. ~Reading(i) /\ ~Reading(i)'
  <2>1. ~Reading(i)
    BY <1>18 DEF Reading, LockedBy
  <2>2. TopAt(r) = "write"
    BY <1>8, <1>9 DEF Pushed
  <2>3. \A u \in Task \ {t} : ~(TopAt(stack[u]) = "read" /\ TopI(stack[u]) = i)
    BY <2>1 DEF Reading
  <2> QED BY <1>11, <2>1, <2>2, <2>3 DEF Reading
<1>20. table'[i] = e /\ \A j \in I!Inode \ {i} : table'[j] = table[j]
  BY <1>1, <1>16 DEF InodeTypes
<1>21. /\ UsedBy(r) = UsedBy(stack[t]) /\ Repeats(r) = Repeats(stack[t])
       /\ LockedBy(r) = i /\ (Syncs(r) <=> Syncs(stack[t])) /\ Seeks(r) = NULL
       /\ Unlinks(r) = NULL /\ StackRight(r) /\ TopAt(r) = "write" /\ TopI(r) = i
       /\ TopNr(r) = n
  BY <1>3, <1>8, <1>9 DEF Pushed
<1>22. \A j \in I!Inode : table'[j].i_num = table[j].i_num
  BY <1>4, <1>17, <1>20
<1>23. TaskRight(t)'
  <2>1. held[t] # NULL => table'[held[t]].i_num # NULL
    <3>1. held[t] # NULL => held[t] \in I!Inode
      BY <1>1 DEF InodeTypes
    <3> QED BY <1>1, <1>22, <3>1 DEF TaskRight
  <2>2. Repeats(r) # NULL => table'[Repeats(r)].i_num # NULL
    <3>1. Repeats(r) # NULL => Repeats(r) \in I!Inode
      BY <1>21, WorkViews
    <3> QED BY <1>1, <1>21, <1>22, <3>1 DEF TaskRight
  <2> QED BY <1>1, <1>11, <1>17, <1>20, <1>21, <2>1, <2>2 DEF TaskRight
<1>24. EntryRight(i)'
  <2>1. \E u \in Task : LockedBy(stack'[u]) = i
    BY <1>11, <1>21
  <2>2. table[i].i_count # 0
    BY <1>1 DEF EntryRight
  <2> QED BY <1>1, <1>4, <1>17, <1>19, <1>20, <2>1, <2>2 DEF EntryRight
<1>25. Step(t, i, e, r)
  BY <1>1, <1>3, <1>10, <1>16, <1>17, <1>18, <1>21 DEF InodeTypes, SameBut, Step
<1>26. LeavesOthers(t, i, e)
  <2>1. ASSUME NEW u \in Task \ {t} PROVE LeftTo(u, i)
    <3>1. UsedBy(stack[u]) = i => TopAt(stack[u]) \notin {"read", "truncate"}
      <4>1. TopAt(stack[u]) = "read" => TopI(stack[u]) # i
        BY <1>19 DEF Reading
      <4>2. UsedBy(stack[u]) = i => TopAt(stack[u]) # "truncate"
        BY WriterLeaves
      <4> QED BY <4>1, <4>2 DEF UsedBy
    <3>2. table'[i].i_num = table[i].i_num /\ table'[i].i_count = table[i].i_count
      BY <1>4, <1>17, <1>20
    <3> QED BY <1>18, <3>1, <3>2 DEF LeftTo
  <2>2. \A j \in I!Inode \ {i} : table[j].i_num # NULL =>
             table[j].i_num \in imap' /\ table[j].i_num # n
    BY <1>1, <1>4 DEF EntryRight, OneEntry
  <2> QED BY <1>17, <2>1, <2>2 DEF LeavesOthers
<1>27. Counts(t, i, e, r)
  <2>1. table[i].i_count \in Nat
    BY EntryUsers
  <2> QED BY <1>17, <1>21, <2>1 DEF Counts
<1>28. \A m \in Num : NumRight(m)'
  <2> SUFFICES ASSUME NEW m \in Num PROVE NumRight(m)'
    OBVIOUS
  <2>1. Kept(i, e, m)
    BY <1>1, <1>4, <1>17, <1>19 DEF NumRight, Kept
  <2> QED BY <1>25, <2>1, NumStays
<1> QED BY <1>23, <1>24, <1>25, <1>26, <1>27, <1>28, EntryStep

LEMMA LockToWriteKeepsInodes ==
  ASSUME InodeInv, NEW t \in Task, I!LockToWrite(t) PROVE InodeInv'
<1>1. /\ InodeTypes /\ TaskRight(t)
  BY DEF InodeInv
<1>2. /\ t \notin asleep /\ TopAt(stack[t]) = "lock"
      /\ Head(stack[t]).i = TopI(stack[t])
      /\ UNCHANGED <<on, disk, names, latest, held>>
  BY AtTop DEF I!LockToWrite, I!files
<1>3. PICK i : i = TopI(stack[t])
  OBVIOUS
<1>4. Writes(stack[t])
  BY <1>1, <1>2, StackKinds DEF TaskRight, StackRight
<1>5. i \in I!Inode
  BY <1>3, <1>4, WritesViews
<1>6. CASE table[i].i_lock
  <2>1. I!SleepOn(t, i)
    BY <1>2, <1>3, <1>6 DEF I!LockToWrite
  <2> QED BY <1>2, <1>5, <1>6, <2>1, Sleeps
<1>7. CASE ~table[i].i_lock /\ (~table[i].i_dirt \/ table[i].i_num = NULL)
  <2>1. I!Unlock(i, table[i]) /\ I!Return(t) /\ UNCHANGED <<imap, panic>>
    BY <1>2, <1>3, <1>7 DEF I!LockToWrite
  <2> QED BY <1>2, <1>3, <1>4, <1>5, <1>7, <2>1, CleanReturns
<1>8. CASE ~table[i].i_lock /\ ~(~table[i].i_dirt \/ table[i].i_num = NULL)
  <2>1. /\ table' = [table EXCEPT ![i].i_lock = TRUE]
        /\ I!Bread(t, I!Frame("write", i, table[i].i_num))
        /\ UNCHANGED <<asleep, imap, panic>>
    BY <1>2, <1>3, <1>8 DEF I!LockToWrite
  <2> QED BY <1>2, <1>3, <1>4, <1>5, <1>8, <2>1, LocksToWrite
<1> QED BY <1>6, <1>7, <1>8

LEMMA WriteInodeKeepsInodes ==
  ASSUME InodeInv, NEW t \in Task, I!WriteInode(t) PROVE InodeInv'
<1>1. /\ InodeTypes /\ \A u \in Task : TaskRight(u)
      /\ OneLocker /\ OneEntry /\ \A j \in I!Inode : EntryRight(j)
      /\ \A m \in Num : NumRight(m)
  BY DEF InodeInv
<1>2. /\ t \notin asleep /\ TopAt(stack[t]) = "write"
      /\ Head(stack[t]).i = TopI(stack[t]) /\ Head(stack[t]).nr = TopNr(stack[t])
      /\ UNCHANGED <<on, names, latest, imap, held, panic>>
  BY AtTop DEF I!WriteInode
<1>3. PICK i : i = TopI(stack[t])
  OBVIOUS
<1>4. PICK n : n = TopNr(stack[t])
  OBVIOUS
<1>5. Writes(stack[t]) /\ TaskRight(t)
  BY <1>1, <1>2, StackKinds DEF TaskRight, StackRight
<1>6. /\ i \in I!Inode /\ n \in Num /\ LockedBy(stack[t]) = i
      /\ table[i].i_num = n /\ n # NULL /\ table[i].i_dirt /\ table[i].i_lock
  BY <1>2, <1>3, <1>4, <1>5, WritesViews, InodeConstants DEF TaskRight
<1>7. PICK q : q = Tail(stack[t])
  OBVIOUS
<1>8. /\ Resumes(q) /\ UsedBy(q) = UsedBy(stack[t]) /\ Repeats(q) = Repeats(stack[t])
      /\ (Syncs(q) <=> Syncs(stack[t]))
  BY <1>5, <1>7, WritesViews
<1>9. /\ Seeks(q) = NULL /\ Unlinks(q) = NULL /\ LockedBy(q) = NULL /\ StackRight(q)
      /\ TopAt(q) \in {"out", "sync", "repeat"}
  BY <1>8, ResumesViews, StackKinds
<1>10. PICK x : x = table[i]
  OBVIOUS
<1>11. PICK e : e = [x EXCEPT !.i_dirt = FALSE, !.i_lock = FALSE, !.i_wait = {}]
  OBVIOUS
<1>12. x \in Entry
  BY <1>1, <1>6, <1>10 DEF InodeTypes
<1>13. EntryIs(e, x.i_num, x.i_count, FALSE, FALSE, x.i_nlinks, x.data, {})
  <2>1. {} \in SUBSET Task /\ FALSE \in BOOLEAN
    OBVIOUS
  <2> QED BY <1>11, <1>12, <2>1, EntryFlags
<1>14. PICK d : d = [i_nlinks |-> x.i_nlinks, data |-> x.data]
  OBVIOUS
<1>15. /\ disk' = [disk EXCEPT ![n] = d] /\ table' = [table EXCEPT ![i] = e]
       /\ asleep' = asleep \ x.i_wait /\ I!Return(t)
  BY <1>2, <1>3, <1>6, <1>10, <1>11, <1>14 DEF I!WriteInode, I!Unlock
<1>16. stack' = [stack EXCEPT ![t] = q]
  BY <1>5, <1>7, <1>15, ReturnsToRest
<1>17. stack'[t] = q /\ \A u \in Task \ {t} : stack'[u] = stack[u]
  BY <1>16, OneStack
<1>18. /\ e \in Entry /\ e.i_num = n /\ e.i_count = table[i].i_count /\ ~e.i_dirt /\ ~e.i_lock
       /\ e.i_nlinks = table[i].i_nlinks /\ e.data = table[i].data /\ e.i_wait = {}
  BY <1>6, <1>10, <1>13 DEF EntryIs
<1>19. \A u \in Task \ {t} : LockedBy(stack[u]) # i
  BY <1>1, <1>6, InodeConstants DEF OneLocker
<1>20. ~Reading(i) /\ ~Reading(i)'
  <2>1. ~Reading(i)
    BY <1>2, <1>19 DEF Reading, LockedBy
  <2>2. \A u \in Task \ {t} : ~(TopAt(stack[u]) = "read" /\ TopI(stack[u]) = i)
    BY <2>1 DEF Reading
  <2> QED BY <1>9, <1>17, <2>1, <2>2 DEF Reading
<1>21. table'[i] = e /\ \A j \in I!Inode \ {i} : table'[j] = table[j]
  BY <1>1, <1>15, <1>6 DEF InodeTypes
<1>22. \A j \in I!Inode : table'[j].i_num = table[j].i_num
  BY <1>6, <1>18, <1>21
<1>23. TaskRight(t)'
  <2>1. held[t] # NULL => table'[held[t]].i_num # NULL
    <3>1. held[t] # NULL => held[t] \in I!Inode
      BY <1>1 DEF InodeTypes
    <3> QED BY <1>5, <1>22, <3>1 DEF TaskRight
  <2>2. Repeats(q) # NULL => table'[Repeats(q)].i_num # NULL
    <3>1. Repeats(q) # NULL => Repeats(q) \in I!Inode
      BY <1>9, WorkViews
    <3> QED BY <1>5, <1>8, <1>22, <3>1 DEF TaskRight
  <2> QED BY <1>2, <1>5, <1>8, <1>9, <1>15, <1>17, <2>1, <2>2 DEF TaskRight
<1>24. EntryRight(i)'
  BY <1>1, <1>2, <1>6, <1>18, <1>20, <1>21 DEF EntryRight
<1>25. d \in [i_nlinks : 0..1, data : 0..1]
  BY <1>12, <1>14 DEF Entry
<1>26. Step(t, i, e, q)
  <2>1. disk' \in [Num -> [i_nlinks : 0..1, data : 0..1]]
    BY <1>1, <1>15, <1>25 DEF InodeTypes
  <2>2. \A u \in asleep' : u \in table[i].i_wait => u \in e.i_wait
    BY <1>10, <1>15
  <2> QED BY <1>1, <1>2, <1>6, <1>9, <1>15, <1>16, <1>18, <2>1, <2>2, InodeConstants
          DEF InodeTypes, SameBut, Step
<1>27. LeavesOthers(t, i, e)
  <2>1. ASSUME NEW u \in Task \ {t} PROVE LeftTo(u, i)
    <3>1. UsedBy(stack[u]) = i => TopAt(stack[u]) \notin {"read", "truncate"}
      <4>1. TopAt(stack[u]) = "read" => TopI(stack[u]) # i
        BY <1>20 DEF Reading
      <4>2. TopAt(stack[u]) = "truncate" => TopI(stack[u]) # i
        BY <1>1, <1>6 DEF TaskRight
      <4> QED BY <4>1, <4>2 DEF UsedBy
    <3>2. table'[i].i_num = table[i].i_num /\ table'[i].i_count = table[i].i_count
      BY <1>6, <1>18, <1>21
    <3> QED BY <1>19, <3>1, <3>2 DEF LeftTo
  <2>2. \A j \in I!Inode \ {i} : table[j].i_num # NULL =>
             table[j].i_num \in imap' /\ table[j].i_num # n
    BY <1>1, <1>2, <1>6 DEF EntryRight, OneEntry
  <2> QED BY <1>2, <1>18, <2>1, <2>2 DEF LeavesOthers
<1>28. Counts(t, i, e, q)
  <2>1. table[i].i_count \in Nat
    BY <1>6, EntryUsers
  <2> QED BY <1>2, <1>8, <1>18, <2>1 DEF Counts
<1>29. \A m \in Num : NumRight(m)'
  <2> SUFFICES ASSUME NEW m \in Num PROVE NumRight(m)'
    OBVIOUS
  <2>1. CASE m # n
    <3>1. disk'[m] = disk[m]
      BY <1>1, <1>15, <2>1 DEF InodeTypes
    <3>2. Kept(i, e, m)
      BY <1>1, <1>2, <1>6, <1>18, <1>20, <2>1, <3>1 DEF NumRight, Kept
    <3> QED BY <1>6, <1>26, <3>2, NumStays
  <2>2. CASE m = n
    <3>1. disk'[n] = d
      BY <1>1, <1>6, <1>15 DEF InodeTypes
    <3>2. names[n] # {} => d.i_nlinks = 1 /\ d.data = latest[n] /\ n \in imap
      BY <1>1, <1>6, <1>10, <1>14, <1>20 DEF EntryRight
    <3> QED BY <1>2, <2>2, <3>1, <3>2 DEF NumRight
  <2> QED BY <2>1, <2>2
<1> QED BY <1>6, <1>23, <1>24, <1>26, <1>27, <1>28, <1>29, EntryStep

LEMMA SyncInodesKeepsInodes ==
  ASSUME InodeInv, NEW t \in Task, I!SyncInodes(t) PROVE InodeInv'
<1>1. /\ InodeTypes /\ \A u \in Task : TaskRight(u)
  BY DEF InodeInv
<1>2. /\ t \notin asleep /\ TopAt(stack[t]) = "sync"
      /\ Head(stack[t]).i = TopI(stack[t])
      /\ UNCHANGED <<on, disk, names, latest, held>>
  BY AtTop DEF I!SyncInodes, I!files
<1>3. PICK i : i = TopI(stack[t])
  OBVIOUS
<1>4. Resumes(stack[t]) /\ TaskRight(t)
  BY <1>1, <1>2, StackKinds DEF TaskRight, StackRight
<1>5. PICK q : q = Tail(stack[t])
  OBVIOUS
<1>6. /\ i \in I!Inode /\ Resumes(q) /\ Syncs(stack[t]) /\ ~Syncs(q)
      /\ Repeats(q) = Repeats(stack[t]) /\ TopAt(q) \in {"out", "repeat"}
      /\ UsedBy(stack[t]) = Repeats(stack[t])
  BY <1>2, <1>3, <1>4, <1>5, ResumesViews
<1>7. "unlink" \notin on
  BY <1>4, <1>6 DEF TaskRight
<1>8. CASE table[i].i_lock
  <2>1. I!SleepOn(t, i)
    BY <1>2, <1>3, <1>8 DEF I!SyncInodes
  <2> QED BY <1>2, <1>6, <1>8, <2>1, Sleeps
<1>9. CASE ~table[i].i_lock
  <2>1. PICK w : w = IF table[i].i_dirt THEN <<I!Frame("lock", i, NULL)>> ELSE <<>>
    OBVIOUS
  <2>2. PICK g : g = IF i < NR_INODE THEN <<I!Frame("sync", i + 1, NULL)>> ELSE <<>>
    OBVIOUS
  <2>3. PICK r : r = (w \o g) \o q
    OBVIOUS
  <2>4. /\ stack' = [stack EXCEPT ![t] = r]
        /\ UNCHANGED <<table, asleep, imap, panic>>
    BY <1>2, <1>3, <1>5, <1>9, <2>1, <2>2, <2>3 DEF I!SyncInodes, I!Replace, I!Below
  <2>5. PICK p : p = g \o q
    OBVIOUS
  <2>6. /\ Resumes(p) /\ Repeats(p) = Repeats(q) /\ UsedBy(p) = Repeats(q)
        /\ \A f : (<<f>> \o g) \o q = <<f>> \o p
    <3>1. CASE i < NR_INODE
      <4>1. PICK k : k = i + 1
        OBVIOUS
      <4>2. k \in I!Inode
        BY <1>6, <3>1, <4>1, FilesAssumption DEF I!InodeTableAssumption, I!Inode
      <4>3. p = <<I!Frame("sync", k, NULL)>> \o q /\ g = <<I!Frame("sync", k, NULL)>>
        BY <2>2, <2>5, <3>1, <4>1
      <4>31. /\ Resumes(q) /\ TopAt(q) \in {"out", "repeat"} /\ k \in I!Inode
             /\ p = <<I!Frame("sync", k, NULL)>> \o q
        BY <1>6, <4>2, <4>3
      <4>4. Resumes(p) /\ UsedBy(p) = UsedBy(q) /\ Repeats(p) = Repeats(q)
        BY <4>31, SyncViews
      <4>7. \A f : <<f, I!Frame("sync", k, NULL)>> \o q = <<f>> \o p
        BY <4>31, SyncViews
      <4>5. UsedBy(q) = Repeats(q)
        BY <1>6, ResumesViews
      <4>6. \A f : <<f>> \o g = <<f, I!Frame("sync", k, NULL)>>
        BY <4>3, JoinTwo
      <4> QED BY <4>4, <4>5, <4>6, <4>7
    <3>2. CASE ~(i < NR_INODE)
      <4>1. g = <<>> /\ p = q
        BY <1>6, <2>2, <2>5, <3>2, JoinResumes
      <4>2. UsedBy(q) = Repeats(q)
        BY <1>6, ResumesViews
      <4>3. \A f : <<f>> \o g = <<f>>
        BY <4>1, JoinNone
      <4> QED BY <1>6, <4>1, <4>2, <4>3
    <3> QED BY <3>1, <3>2
  <2>7. <<>> \o g = g
    BY <2>2, JoinNone
  <2>8. /\ StackRight(r) /\ TopAt(r) \notin {"read", "write", "get_empty", "iget", "create",
                                             "open", "unlink", "truncate"}
        /\ UsedBy(r) = UsedBy(stack[t]) /\ Repeats(r) = Repeats(stack[t])
        /\ LockedBy(r) = NULL /\ Seeks(r) = NULL /\ Unlinks(r) = NULL
    <3>1. CASE table[i].i_dirt
      <4>1. PICK f : f = I!Frame("lock", i, NULL)
        OBVIOUS
      <4>2. WriteFrame(f) /\ f.at = "lock"
        BY <1>6, <4>1, Fields DEF WriteFrame
      <4>3. r = <<f>> \o p
        BY <2>1, <2>3, <2>6, <3>1, <4>1
      <4>4. Pushed(r, f, p)
        BY <2>6, <4>2, <4>3, PushViews
      <4> QED BY <1>6, <2>6, <4>2, <4>4 DEF Pushed
    <3>2. CASE ~table[i].i_dirt
      <4>1. r = p
        BY <2>1, <2>3, <2>5, <2>7, <3>2
      <4>2. StackRight(p) /\ LockedBy(p) = NULL /\ Seeks(p) = NULL /\ Unlinks(p) = NULL
            /\ TopAt(p) \in {"out", "sync", "repeat"}
        BY <2>6, ResumesViews, StackKinds
      <4> QED BY <1>6, <2>6, <4>1, <4>2
    <3> QED BY <3>1, <3>2
  <2>9. stack'[t] = r
    BY <2>4, OneStack
  <2>10. TaskRight(t)'
    BY <1>2, <1>4, <1>7, <2>4, <2>8, <2>9 DEF TaskRight
  <2>11. SameBut(held, held', Task, t) /\ held' \in [Task -> I!Inode \cup {NULL}]
    BY <1>1, <1>2 DEF SameBut, InodeTypes
  <2> QED BY <1>2, <2>4, <2>8, <2>10, <2>11, GoesOn
<1> QED BY <1>8, <1>9

\* The calls of a task that is in its program, and their ends.
Entered(r, p, n, m) ==
    /\ r # <<>> /\ StackRight(r) /\ TopAt(r) = p /\ UsedBy(r) = NULL /\ LockedBy(r) = NULL
    /\ Repeats(r) = NULL /\ ~Syncs(r) /\ Seeks(r) = n /\ Unlinks(r) = m

LEMMA CreateViews ==
  ASSUME NEW r, r = <<I!Frame("get_empty", NULL, NULL), I!Frame("create", NULL, NULL)>>
  PROVE  Entered(r, "get_empty", NULL, NULL)
<1>1. PICK f : f = I!Frame("get_empty", NULL, NULL)
  OBVIOUS
<1>2. PICK g : g = I!Frame("create", NULL, NULL)
  OBVIOUS
<1>3. /\ f.at = "get_empty" /\ f.i = NULL /\ f.nr = NULL
      /\ g.at = "create" /\ g.i = NULL /\ g.nr = NULL
  BY <1>1, <1>2, Fields
<1>4. View(r, f, g, g, <<g>>)
  BY <1>1, <1>2, TwoFrames
<1>5. Empties(r)
  BY DEF Empties
<1> QED BY <1>3, <1>4, <1>5 DEF View, StackRight, UsedBy, LockedBy, Entered

LEMMA LookUpViews ==
  ASSUME NEW n \in Num, NEW c, IsCaller(c, n), NEW r, r = I!IgetOf(n) \o <<c>>
  PROVE  Entered(r, "get_empty", n, IF c.at = "unlink" THEN n ELSE NULL)
<1>1. PICK f : f = I!Frame("get_empty", NULL, NULL)
  OBVIOUS
<1>2. PICK g : g = I!Frame("iget", NULL, n)
  OBVIOUS
<1>3. /\ f.at = "get_empty" /\ f.i = NULL /\ f.nr = NULL
      /\ g.at = "iget" /\ g.i = NULL /\ g.nr = n
      /\ c.at \in {"open", "unlink"} /\ (c.at = "unlink" => c.nr = n)
  BY <1>1, <1>2, Fields DEF IsCaller
<1>4. r = <<f, g, c>>
  BY <1>1, <1>2, JoinThree DEF I!IgetOf
<1>5. View(r, f, g, c, <<g, c>>)
  BY <1>4, ThreeFrames
<1>6. Empties(r)
  BY <1>1, <1>2, <1>4 DEF Empties
<1> QED BY <1>3, <1>5, <1>6 DEF View, StackRight, UsedBy, LockedBy, Entered

LEMMA Enters ==
  ASSUME InodeInv, NEW t \in Task, stack[t] = <<>>, NEW r, NEW n, NEW m,
         Entered(r, "get_empty", n, m),
         n # NULL => t \in names[n], m # NULL => names[m] = {t} /\ "unlink" \in on,
         m = NULL => held[t] = NULL,
         stack' = [stack EXCEPT ![t] = r],
         UNCHANGED <<on, table, disk, imap, names, latest, held, asleep, panic>>
  PROVE  InodeInv'
<1>1. /\ InodeTypes /\ TaskRight(t)
  BY DEF InodeInv
<1>2. stack'[t] = r
  BY OneStack
<1>3. TaskRight(t)'
  BY <1>1, <1>2 DEF TaskRight, Entered
<1>4. SameBut(held, held', Task, t) /\ held' \in [Task -> I!Inode \cup {NULL}]
  BY <1>1 DEF SameBut, InodeTypes
<1>5. /\ TopAt(r) \notin {"read", "write"} /\ TopAt(stack[t]) \notin {"read", "write"}
      /\ UsedBy(r) = UsedBy(stack[t])
  BY NoFrames DEF Entered
<1> QED BY <1>3, <1>4, <1>5, GoesOn

LEMMA OpenKeepsInodes ==
  ASSUME InodeInv, NEW t \in Task, I!Open(t) PROVE InodeInv'
<1>1. PICK n \in Num : I!LookUp(t, n, <<I!Frame("open", NULL, NULL)>>)
  BY DEF I!Open
<1>2. PICK c : c = I!Frame("open", NULL, NULL)
  OBVIOUS
<1>3. PICK r : r = I!IgetOf(n) \o <<c>>
  OBVIOUS
<1>4. IsCaller(c, n) /\ c.at = "open"
  BY <1>2, Fields DEF IsCaller
<1>5. Entered(r, "get_empty", n, NULL)
  BY <1>3, <1>4, LookUpViews
<1>6. /\ stack' = [stack EXCEPT ![t] = r] /\ t \in names[n]
      /\ UNCHANGED <<on, table, disk, imap, names, latest, held, asleep, panic>>
  BY <1>1, <1>2, <1>3 DEF I!LookUp, I!files
<1>7. stack[t] = <<>> /\ held[t] = NULL
  BY DEF I!Open, I!User
<1> QED BY <1>5, <1>6, <1>7, Enters

LEMMA UnlinkKeepsInodes ==
  ASSUME InodeInv, NEW t \in Task, I!Unlink(t) PROVE InodeInv'
<1>1. "unlink_shared" \notin on /\ "unlink" \in on
  <2>1. on \cap {"unlink_shared", "dirty_buffers"} = {}
    BY DEF InodeInv, InodeTypes, InodesAreTame
  <2>2. on \cap {"unlink", "unlink_shared"} # {}
    BY DEF I!Unlink
  <2> QED BY <2>1, <2>2
<1>2. PICK n \in Num : names[n] = {t} /\ I!LookUp(t, n, <<I!Frame("unlink", NULL, n)>>)
  BY <1>1 DEF I!Unlink
<1>3. PICK c : c = I!Frame("unlink", NULL, n)
  OBVIOUS
<1>4. PICK r : r = I!IgetOf(n) \o <<c>>
  OBVIOUS
<1>5. IsCaller(c, n) /\ c.at = "unlink"
  BY <1>3, Fields DEF IsCaller
<1>6. Entered(r, "get_empty", n, n)
  BY <1>4, <1>5, LookUpViews
<1>7. /\ stack' = [stack EXCEPT ![t] = r] /\ t \in names[n]
      /\ UNCHANGED <<on, table, disk, imap, names, latest, held, asleep, panic>>
  BY <1>2, <1>3, <1>4 DEF I!LookUp, I!files
<1>8. stack[t] = <<>> /\ n # NULL
  BY InodeConstants DEF I!Unlink, I!User
<1> QED BY <1>1, <1>2, <1>6, <1>7, <1>8, Enters

LEMMA CreateKeepsInodes ==
  ASSUME InodeInv, NEW t \in Task, I!Create(t) PROVE InodeInv'
<1>1. PICK r : r = <<I!Frame("get_empty", NULL, NULL), I!Frame("create", NULL, NULL)>>
  OBVIOUS
<1>2. Entered(r, "get_empty", NULL, NULL)
  BY <1>1, CreateViews
<1>3. /\ stack[t] = <<>> /\ held[t] = NULL /\ stack' = [stack EXCEPT ![t] = r]
      /\ UNCHANGED <<on, table, disk, imap, names, latest, held, asleep, panic>>
  BY <1>1 DEF I!Create, I!User, I!files
<1> QED BY <1>2, <1>3, Enters

LEMMA SyncKeepsInodes ==
  ASSUME InodeInv, NEW t \in Task, I!Sync(t) PROVE InodeInv'
<1>1. /\ InodeTypes /\ TaskRight(t) /\ "unlink" \notin on
  BY DEF InodeInv, InodeTypes, InodesAreTame, I!Sync
<1>2. PICK r : r = <<I!Frame("sync", 1, NULL)>>
  OBVIOUS
<1>3. 1 \in I!Inode
  BY FilesAssumption DEF I!InodeTableAssumption, I!Inode
<1>4. /\ StackRight(r) /\ TopAt(r) = "sync" /\ UsedBy(r) = NULL /\ LockedBy(r) = NULL
      /\ Repeats(r) = NULL /\ Seeks(r) = NULL /\ Unlinks(r) = NULL
  BY <1>2, <1>3, FrameViews
<1>5. /\ stack[t] = <<>> /\ stack' = [stack EXCEPT ![t] = r]
      /\ UNCHANGED <<on, table, disk, imap, names, latest, held, asleep, panic>>
  BY <1>2 DEF I!Sync, I!User, I!files
<1>6. stack'[t] = r
  BY <1>5, OneStack
<1>7. TaskRight(t)'
  BY <1>1, <1>4, <1>5, <1>6 DEF TaskRight
<1>8. SameBut(held, held', Task, t) /\ held' \in [Task -> I!Inode \cup {NULL}]
  BY <1>1, <1>5 DEF SameBut, InodeTypes
<1>9. UsedBy(stack[t]) = NULL /\ TopAt(stack[t]) = "out"
  BY <1>5, NoFrames
<1> QED BY <1>4, <1>5, <1>7, <1>8, <1>9, GoesOn

LEMMA CloseKeepsInodes ==
  ASSUME InodeInv, NEW t \in Task, I!Close(t) PROVE InodeInv'
<1>1. /\ InodeTypes /\ TaskRight(t)
  BY DEF InodeInv
<1>2. PICK i : i = held[t]
  OBVIOUS
<1>3. i \in I!Inode
  BY <1>1, <1>2 DEF I!Close, InodeTypes
<1>4. PICK r : r = <<I!Frame("iput", i, NULL)>>
  OBVIOUS
<1>5. /\ StackRight(r) /\ TopAt(r) = "iput" /\ UsedBy(r) = i /\ LockedBy(r) = NULL
      /\ Repeats(r) = NULL /\ Seeks(r) = NULL /\ Unlinks(r) = NULL /\ ~Syncs(r)
  BY <1>3, <1>4, FrameViews
<1>6. /\ stack[t] = <<>> /\ stack' = [stack EXCEPT ![t] = r]
      /\ held' = [held EXCEPT ![t] = NULL]
      /\ UNCHANGED <<on, table, disk, imap, names, latest, asleep, panic>>
  BY <1>2, <1>4 DEF I!Close, I!User, I!files
<1>7. stack'[t] = r
  BY <1>6, OneStack
<1>8. /\ SameBut(held, held', Task, t) /\ held' \in [Task -> I!Inode \cup {NULL}]
      /\ held'[t] = NULL
  BY <1>1, <1>6 DEF SameBut, InodeTypes
<1>9. TaskRight(t)'
  BY <1>1, <1>5, <1>6, <1>7, <1>8 DEF TaskRight
<1>10. UsedBy(stack[t]) = NULL /\ TopAt(stack[t]) = "out"
  BY <1>6, NoFrames
<1>11. \A j \in I!Inode :
            (IF held'[t] = j THEN 1 ELSE 0) + (IF UsedBy(r) = j THEN 1 ELSE 0)
              = (IF held[t] = j THEN 1 ELSE 0) + (IF UsedBy(stack[t]) = j THEN 1 ELSE 0)
  BY <1>2, <1>5, <1>8, <1>10, InodeConstants
<1> QED BY <1>5, <1>6, <1>8, <1>9, <1>10, <1>11, GoesOn

LEMMA OpenedKeepsInodes ==
  ASSUME InodeInv, NEW t \in Task, I!Opened(t) PROVE InodeInv'
<1>1. /\ InodeTypes /\ TaskRight(t)
  BY DEF InodeInv
<1>2. /\ t \notin asleep /\ TopAt(stack[t]) = "open"
      /\ Head(stack[t]).i = TopI(stack[t])
      /\ UNCHANGED <<on, table, disk, imap, names, latest, asleep, panic>>
  BY AtTop DEF I!Opened, I!files
<1>3. PICK i : i = TopI(stack[t])
  OBVIOUS
<1>4. Single(stack[t])
  BY <1>1, <1>2, StackKinds DEF TaskRight, StackRight
<1>5. /\ i \in I!Inode /\ Tail(stack[t]) = <<>> /\ UsedBy(stack[t]) = i
      /\ LockedBy(stack[t]) = NULL /\ Unlinks(stack[t]) = NULL
  BY <1>2, <1>3, <1>4, SingleViews
<1>6. held[t] = NULL /\ table[i].i_num # NULL
  BY <1>1, <1>2, <1>3, <1>5 DEF TaskRight
<1>7. PICK r : r = <<>>
  OBVIOUS
<1>8. stack' = [stack EXCEPT ![t] = r] /\ held' = [held EXCEPT ![t] = i]
  BY <1>2, <1>3, <1>5, <1>7, JoinNone DEF I!Opened, I!Replace, I!Below
<1>9. stack'[t] = <<>> /\ UsedBy(r) = NULL /\ TopAt(r) = "out"
  BY <1>7, <1>8, OneStack, NoFrames
<1>10. /\ SameBut(held, held', Task, t) /\ held' \in [Task -> I!Inode \cup {NULL}]
       /\ held'[t] = i
  BY <1>1, <1>5, <1>8 DEF SameBut, InodeTypes
<1>11. TaskRight(t)'
  BY <1>2, <1>6, <1>9, <1>10, OutRight
<1>12. \A j \in I!Inode :
            (IF held'[t] = j THEN 1 ELSE 0) + (IF UsedBy(r) = j THEN 1 ELSE 0)
              = (IF held[t] = j THEN 1 ELSE 0) + (IF UsedBy(stack[t]) = j THEN 1 ELSE 0)
  BY <1>5, <1>6, <1>9, <1>10, InodeConstants
<1> QED BY <1>2, <1>8, <1>9, <1>10, <1>11, <1>12, GoesOn

LEMMA SameInodes ==
  ASSUME InodeInv, UNCHANGED <<on, table, disk, imap, names, latest, stack, held, asleep, panic>>
  PROVE  InodeInv'
<1>1. InodeTypes' /\ InodesAreTame' /\ InodeUsesCounted'
  BY DEF InodeInv, InodeTypes, InodesAreTame, InodeUsesCounted, StackUse
<1>2. \A t \in Task : TaskRight(t)'
  BY DEF InodeInv, TaskRight
<1>3. \A j : Reading(j)' <=> Reading(j)
  BY DEF Reading
<1>4. OneLocker' /\ OneEntry' /\ (\A n \in Num : NumRight(n)') /\ \A i \in I!Inode : EntryRight(i)'
  BY <1>3 DEF InodeInv, OneLocker, OneEntry, NumRight, EntryRight
<1> QED BY <1>1, <1>2, <1>4 DEF InodeInv

LEMMA NewEntry ==
  ASSUME NEW x \in Entry, NEW n \in Num \cup {NULL}, NEW l \in 0..1, NEW d \in BOOLEAN,
         NEW b \in 0..1, NEW e,
         e = [x EXCEPT !.i_num = n, !.i_nlinks = l, !.data = b, !.i_dirt = d]
  PROVE  EntryIs(e, n, x.i_count, d, x.i_lock, l, b, x.i_wait)
BY DEF Entry, EntryIs

\* An entry with a number after a step, nobody reading it.
UsedRight(i, n) ==
    /\ table'[i].i_num = n /\ n # NULL /\ n \in imap' /\ table'[i].i_count # 0
    /\ table'[i].i_wait # {} => table'[i].i_lock
    /\ table'[i].i_lock => \E u \in Task : LockedBy(stack'[u]) = i
    /\ (table'[i].i_nlinks = 1 <=> names'[n] # {})
    /\ names'[n] # {} => table'[i].data = latest'[n]
    /\ table'[i].i_nlinks = 0 => "unlink" \in on'

LEMMA UsedEntry ==
  ASSUME NEW i, NEW n, UsedRight(i, n) PROVE EntryRight(i)'
BY DEF EntryRight, UsedRight

Makes(t, i, n) ==
    /\ imap' = imap \cup {n}
    /\ table' = [table EXCEPT ![i].i_num = n, ![i].i_nlinks = 1, ![i].i_dirt = TRUE]
    /\ names' = [names EXCEPT ![n] = {t}] /\ latest' = [latest EXCEPT ![n] = 0]
    /\ held' = [held EXCEPT ![t] = i] /\ I!Replace(t, <<>>)
    /\ UNCHANGED <<on, disk, asleep, panic>>

LEMMA NewInodeMade ==
  ASSUME InodeInv, NEW t \in Task, NEW i \in I!Inode, NEW n, n \in Num \ imap,
         TopAt(stack[t]) = "create", TopI(stack[t]) = i, t \notin asleep, Single(stack[t]),
         Makes(t, i, n)
  PROVE  InodeInv'
<1>0. /\ imap' = imap \cup {n}
      /\ names' = [names EXCEPT ![n] = {t}] /\ latest' = [latest EXCEPT ![n] = 0]
      /\ held' = [held EXCEPT ![t] = i] /\ I!Replace(t, <<>>)
      /\ UNCHANGED <<on, disk, asleep, panic>>
  BY DEF Makes
<1>1. /\ InodeTypes /\ \A u \in Task : TaskRight(u)
      /\ OneEntry /\ \A j \in I!Inode : EntryRight(j)
      /\ \A m \in Num : NumRight(m)
  BY DEF InodeInv
<1>2. /\ Tail(stack[t]) = <<>> /\ UsedBy(stack[t]) = i /\ LockedBy(stack[t]) = NULL
      /\ Unlinks(stack[t]) = NULL
  BY SingleViews
<1>3. table[i].i_num = NULL /\ table[i].i_count = 1 /\ held[t] = NULL
  BY <1>1, <1>2 DEF TaskRight
<1>4. ~table[i].i_dirt /\ ~table[i].i_lock /\ table[i].data = 0 /\ table[i].i_wait = {}
  BY <1>1, <1>3 DEF EntryRight
<1>5. n \in Num /\ n \notin imap /\ n # NULL /\ i # NULL
  BY InodeConstants
<1>6. names[n] = {}
  BY <1>1, <1>5 DEF NumRight
<1>7. PICK r : r = <<>>
  OBVIOUS
<1>8. stack' = [stack EXCEPT ![t] = r]
  BY <1>0, <1>2, <1>7, JoinNone DEF I!Replace, I!Below
<1>9. /\ stack'[t] = <<>> /\ UsedBy(r) = NULL /\ LockedBy(r) = NULL
      /\ \A u \in Task \ {t} : stack'[u] = stack[u]
  BY <1>7, <1>8, OneStack, NoFrames
<1>10. PICK x : x = table[i]
  OBVIOUS
<1>11. x \in Entry
  BY <1>1, <1>10 DEF InodeTypes
<1>12. PICK e : e = [x EXCEPT !.i_num = n, !.i_nlinks = 1, !.data = 0, !.i_dirt = TRUE]
  OBVIOUS
<1>13. EntryIs(e, n, x.i_count, TRUE, x.i_lock, 1, 0, x.i_wait)
  <2>1. n \in Num \cup {NULL} /\ 1 \in 0..1 /\ 0 \in 0..1 /\ TRUE \in BOOLEAN
    BY <1>5
  <2> QED BY <1>11, <1>12, <2>1, NewEntry
<1>14. /\ e \in Entry /\ e.i_num = n /\ e.i_count = 1 /\ e.i_dirt /\ ~e.i_lock
       /\ e.i_nlinks = 1 /\ e.data = 0 /\ e.i_wait = {}
  BY <1>3, <1>4, <1>10, <1>13 DEF EntryIs
<1>15. table' = [table EXCEPT ![i] = e]
  <2>1. table = [j \in I!Inode |-> table[j]]
    BY <1>1 DEF InodeTypes
  <2>2. table' = [[[table EXCEPT ![i].i_num = n] EXCEPT ![i].i_nlinks = 1] EXCEPT ![i].i_dirt = TRUE]
    BY DEF Makes
  <2>3. PICK a : a = [x EXCEPT !.i_num = n]
    OBVIOUS
  <2>4. PICK b : b = [a EXCEPT !.i_nlinks = 1]
    OBVIOUS
  <2>5. e = [b EXCEPT !.i_dirt = TRUE]
    BY <1>4, <1>10, <1>11, <1>12, <2>3, <2>4 DEF Entry
  <2>6. PICK T : T = [table EXCEPT ![i] = a]
    OBVIOUS
  <2>7. T = [table EXCEPT ![i].i_num = n] /\ T[i] = a /\ T = [j \in I!Inode |-> T[j]]
    BY <1>10, <2>1, <2>3, <2>6
  <2>8. PICK U : U = [T EXCEPT ![i] = b]
    OBVIOUS
  <2>9. U = [T EXCEPT ![i].i_nlinks = 1] /\ U[i] = b /\ U = [j \in I!Inode |-> U[j]]
    BY <2>4, <2>7, <2>8
  <2>10. table' = [U EXCEPT ![i] = e]
    BY <2>2, <2>5, <2>7, <2>9
  <2>11. \A j \in I!Inode : U[j] = (IF j = i THEN b ELSE table[j])
    BY <2>1, <2>6, <2>7, <2>8
  <2> QED BY <2>1, <2>9, <2>10, <2>11
<1>16. table'[i] = e /\ \A j \in I!Inode \ {i} : table'[j] = table[j]
  BY <1>1, <1>15 DEF InodeTypes
<1>17. /\ names' \in [Num -> SUBSET Task] /\ names'[n] = {t}
       /\ \A m \in Num \ {n} : names'[m] = names[m]
       /\ latest' \in [Num -> 0..1] /\ latest'[n] = 0
       /\ \A m \in Num \ {n} : latest'[m] = latest[m]
       /\ held' \in [Task -> I!Inode \cup {NULL}] /\ held'[t] = i
       /\ SameBut(held, held', Task, t)
  BY <1>0, <1>1, <1>5 DEF InodeTypes, SameBut
<1>18. \A u \in Task : held[u] # i /\ (u # t => UsedBy(stack[u]) # i) /\ LockedBy(stack[u]) # i
  BY <1>2, <1>3, <1>4, NotOthers, LockersLock
<1>19. ~Reading(i)' /\ ~Reading(i)
  <2>1. ~Reading(i)
    BY <1>18 DEF Reading, LockedBy
  <2>2. \A u \in Task \ {t} : ~(TopAt(stack[u]) = "read" /\ TopI(stack[u]) = i)
    BY <2>1 DEF Reading
  <2> QED BY <1>9, <2>1, <2>2, NoFrames DEF Reading
<1>20. TaskRight(t)'
  <2>1. stack'[t] = <<>> /\ t \notin asleep' /\ held'[t] = i /\ table'[i].i_num # NULL
    BY <1>0, <1>5, <1>9, <1>14, <1>16, <1>17
  <2> QED BY <2>1, OutRight
<1>21. EntryRight(i)'
  <2>1. UsedRight(i, n)
    BY <1>0, <1>5, <1>14, <1>16, <1>17 DEF UsedRight
  <2> QED BY <2>1, UsedEntry
<1>22. Step(t, i, e, r)
  BY <1>0, <1>1, <1>2, <1>4, <1>5, <1>8, <1>9, <1>14, <1>15, <1>17 DEF InodeTypes, Step
<1>23. \A j \in I!Inode \ {i} : table[j].i_num # NULL =>
             table[j].i_num \in imap' /\ table[j].i_num # n /\ table[j].i_num \in Num
  <2>1. \A j \in I!Inode : table[j].i_num \in Num \cup {NULL}
    BY <1>1 DEF InodeTypes, Entry
  <2> QED BY <1>0, <1>1, <1>5, <2>1 DEF EntryRight
<1>24. LeavesOthers(t, i, e)
  <2>1. ASSUME NEW u \in Task \ {t}, NEW m \in Num
        PROVE  /\ (u \in names[m] => u \in names'[m]) \/ Seeks(stack[u]) # m
               /\ names'[m] = names[m] \/ Unlinks(stack[u]) # m
    <3>1. CASE m # n
      BY <1>17, <3>1
    <3>2. CASE m = n
      BY <1>1, <1>5, <1>6, <3>2 DEF TaskRight
    <3> QED BY <3>1, <3>2
  <2> QED BY <1>14, <1>17, <1>18, <1>23, <2>1 DEF LeavesOthers
<1>25. Counts(t, i, e, r)
  BY <1>2, <1>3, <1>5, <1>9, <1>14, <1>17, InodeConstants DEF Counts
<1>26. \A m \in Num : NumRight(m)'
  <2> SUFFICES ASSUME NEW m \in Num PROVE NumRight(m)'
    OBVIOUS
  <2>1. CASE m # n
    <3>1. names'[m] = names[m] /\ latest'[m] = latest[m] /\ table[i].i_num # m
      BY <1>3, <1>17, <2>1, InodeConstants
    <3>2. names'[m] # {} => names[m] # {} /\ m \in imap'
      BY <1>0, <1>1, <3>1 DEF NumRight
    <3>3. Kept(i, e, m)
      BY <1>0, <3>1, <3>2 DEF Kept
    <3> QED BY <1>22, <3>3, NumStays
  <2>2. CASE m = n
    BY <1>0, <1>5, <1>14, <1>16, <1>19, <2>2 DEF NumRight
  <2> QED BY <2>1, <2>2
<1> QED BY <1>20, <1>21, <1>22, <1>24, <1>25, <1>26, EntryStep

LEMMA NewInodeKeepsInodes ==
  ASSUME InodeInv, NEW t \in Task, I!NewInode(t) PROVE InodeInv'
<1>1. /\ InodeTypes /\ TaskRight(t)
  BY DEF InodeInv
<1>2. /\ t \notin asleep /\ TopAt(stack[t]) = "create"
      /\ Head(stack[t]).i = TopI(stack[t])
      /\ UNCHANGED <<on, disk, asleep, panic>>
  BY AtTop DEF I!NewInode
<1>3. PICK i : i = TopI(stack[t])
  OBVIOUS
<1>4. Single(stack[t])
  BY <1>1, <1>2, StackKinds DEF TaskRight, StackRight
<1>5. i \in I!Inode /\ Tail(stack[t]) = <<>> /\ UsedBy(stack[t]) = i
  BY <1>3, <1>4, SingleViews
<1>6. CASE Num \subseteq imap
  <2>1. /\ I!Goto(t, <<>>, I!Frame("iput", i, NULL))
        /\ UNCHANGED <<table, imap, names, latest, held>>
    BY <1>2, <1>3, <1>6 DEF I!NewInode
  <2>2. PICK r : r = <<I!Frame("iput", i, NULL)>>
    OBVIOUS
  <2>3. stack' = [stack EXCEPT ![t] = r]
    <3>1. (<<>> \o r) \o <<>> = r
      BY <2>2, JoinNone
    <3> QED BY <1>5, <2>1, <2>2, <3>1 DEF I!Goto, I!Replace, I!Below
  <2>4. /\ StackRight(r) /\ TopAt(r) = "iput" /\ UsedBy(r) = i /\ LockedBy(r) = NULL
        /\ Repeats(r) = NULL /\ Seeks(r) = NULL /\ Unlinks(r) = NULL /\ ~Syncs(r)
    BY <1>5, <2>2, FrameViews
  <2>5. stack'[t] = r
    BY <2>3, OneStack
  <2>6. TaskRight(t)'
    BY <1>1, <1>2, <2>1, <2>4, <2>5 DEF TaskRight
  <2>7. SameBut(held, held', Task, t) /\ held' \in [Task -> I!Inode \cup {NULL}]
    BY <1>1, <2>1 DEF SameBut, InodeTypes
  <2> QED BY <1>2, <1>5, <2>1, <2>3, <2>4, <2>6, <2>7, GoesOn
<1>7. CASE ~(Num \subseteq imap)
  <2>1. PICK n : n = I!Min(Num \ imap)
    OBVIOUS
  <2>2. n \in Num \ imap
    <3>1. Num \ imap \subseteq Nat /\ Num \ imap # {}
      BY <1>7, InodeConstants
    <3> QED BY <2>1, <3>1, Found1
  <2>3. Makes(t, i, n)
    BY <1>2, <1>3, <1>7, <2>1 DEF I!NewInode, Makes
  <2> QED BY <1>2, <1>3, <1>4, <1>5, <2>2, <2>3, NewInodeMade
<1> QED BY <1>6, <1>7

UnlinkEnds(t, i, n) ==
    /\ names' = [names EXCEPT ![n] = {}]
    /\ table' = [table EXCEPT ![i].i_nlinks = 0, ![i].i_dirt = TRUE]
    /\ I!Goto(t, <<>>, I!Frame("iput", i, NULL))
    /\ UNCHANGED <<on, disk, imap, latest, held, asleep, panic>>

LEMMA UnlinkedKeepsInodes ==
  ASSUME InodeInv, NEW t \in Task, I!Unlinked(t) PROVE InodeInv'
<1>1. /\ InodeTypes /\ \A u \in Task : TaskRight(u)
      /\ OneEntry /\ \A j \in I!Inode : EntryRight(j)
      /\ \A m \in Num : NumRight(m)
  BY DEF InodeInv
<1>2. /\ t \notin asleep /\ TopAt(stack[t]) = "unlink"
      /\ Head(stack[t]).i = TopI(stack[t]) /\ Head(stack[t]).nr = TopNr(stack[t])
  BY AtTop DEF I!Unlinked
<1>3. PICK i : i = TopI(stack[t])
  OBVIOUS
<1>4. PICK n : n = TopNr(stack[t])
  OBVIOUS
<1>5. UnlinkEnds(t, i, n)
  BY <1>2, <1>3, <1>4 DEF I!Unlinked, UnlinkEnds
<1>6. Single(stack[t])
  BY <1>1, <1>2, StackKinds DEF TaskRight, StackRight
<1>7. /\ i \in I!Inode /\ n \in Num /\ Tail(stack[t]) = <<>> /\ UsedBy(stack[t]) = i
      /\ LockedBy(stack[t]) = NULL /\ Unlinks(stack[t]) = n /\ Seeks(stack[t]) = n
  BY <1>2, <1>3, <1>4, <1>6, SingleViews
<1>8. n # NULL /\ i # NULL
  BY <1>7, InodeConstants
<1>9. table[i].i_num = n /\ names[n] = {t} /\ "unlink" \in on
  BY <1>1, <1>2, <1>3, <1>4, <1>7, <1>8 DEF TaskRight
<1>10. table[i].i_count \in Nat /\ table[i].i_count >= 1
  BY <1>7, EntryUsers
<1>11. PICK x : x = table[i]
  OBVIOUS
<1>12. x \in Entry /\ x.data \in 0..1
  BY <1>1, <1>7, <1>11 DEF InodeTypes, Entry
<1>13. PICK e : e = [x EXCEPT !.i_num = n, !.i_nlinks = 0, !.data = x.data, !.i_dirt = TRUE]
  OBVIOUS
<1>14. EntryIs(e, n, x.i_count, TRUE, x.i_lock, 0, x.data, x.i_wait)
  <2>1. n \in Num \cup {NULL} /\ 0 \in 0..1 /\ TRUE \in BOOLEAN
    BY <1>7
  <2> QED BY <1>12, <1>13, <2>1, NewEntry
<1>15. /\ e \in Entry /\ e.i_num = n /\ e.i_count = table[i].i_count /\ e.i_dirt
       /\ e.i_lock = table[i].i_lock
       /\ e.i_nlinks = 0 /\ e.data = table[i].data /\ e.i_wait = table[i].i_wait
  BY <1>11, <1>14 DEF EntryIs
<1>16. table' = [table EXCEPT ![i] = e]
  <2>1. table = [j \in I!Inode |-> table[j]]
    BY <1>1 DEF InodeTypes
  <2>2. table' = [[table EXCEPT ![i].i_nlinks = 0] EXCEPT ![i].i_dirt = TRUE]
    BY <1>5 DEF UnlinkEnds
  <2>3. PICK a : a = [x EXCEPT !.i_nlinks = 0]
    OBVIOUS
  <2>4. e = [a EXCEPT !.i_dirt = TRUE]
    BY <1>9, <1>11, <1>12, <1>13, <2>3 DEF Entry
  <2>5. PICK T : T = [table EXCEPT ![i] = a]
    OBVIOUS
  <2>6. T = [table EXCEPT ![i].i_nlinks = 0] /\ T[i] = a /\ T = [j \in I!Inode |-> T[j]]
    BY <1>7, <1>11, <2>1, <2>3, <2>5
  <2>7. table' = [T EXCEPT ![i] = e]
    BY <1>7, <2>2, <2>4, <2>6
  <2> QED BY <1>7, <2>1, <2>5, <2>7
<1>17. table'[i] = e /\ \A j \in I!Inode \ {i} : table'[j] = table[j]
  BY <1>1, <1>7, <1>16 DEF InodeTypes
<1>18. UNCHANGED <<on, disk, imap, latest, held, asleep, panic>>
  BY <1>5 DEF UnlinkEnds
<1>19. /\ names' \in [Num -> SUBSET Task] /\ names'[n] = {}
       /\ \A m \in Num \ {n} : names'[m] = names[m]
  BY <1>1, <1>5, <1>7 DEF InodeTypes, UnlinkEnds
<1>20. PICK r : r = <<I!Frame("iput", i, NULL)>>
  OBVIOUS
<1>21. stack' = [stack EXCEPT ![t] = r]
  <2>1. (<<>> \o r) \o <<>> = r
    BY <1>20, JoinNone
  <2> QED BY <1>5, <1>7, <1>20, <2>1 DEF I!Goto, I!Replace, I!Below, UnlinkEnds
<1>22. /\ StackRight(r) /\ TopAt(r) = "iput" /\ UsedBy(r) = i /\ LockedBy(r) = NULL
       /\ Repeats(r) = NULL /\ Seeks(r) = NULL /\ Unlinks(r) = NULL /\ ~Syncs(r)
  BY <1>7, <1>20, FrameViews
<1>23. stack'[t] = r /\ \A u \in Task \ {t} : stack'[u] = stack[u]
  BY <1>21, OneStack
<1>24. \A u \in Task \ {t} : Seeks(stack[u]) # n /\ Unlinks(stack[u]) # n
  BY <1>1, <1>8, <1>9 DEF TaskRight
<1>25. ~Reading(i)
  <2> SUFFICES ASSUME NEW u \in Task, TopAt(stack[u]) = "read", TopI(stack[u]) = i PROVE FALSE
    BY DEF Reading
  <2>1. TopNr(stack[u]) = n /\ u # t
    BY <1>1, <1>2, <1>9 DEF TaskRight
  <2> QED BY <1>24, <2>1 DEF Seeks
<1>26. ~Reading(i)'
  <2>1. \A u \in Task \ {t} : ~(TopAt(stack[u]) = "read" /\ TopI(stack[u]) = i)
    BY <1>25 DEF Reading
  <2> QED BY <1>22, <1>23, <2>1 DEF Reading
<1>27. TaskRight(t)'
  <2>1. held'[t] # NULL => table'[held'[t]].i_num # NULL
    <3>1. held[t] # NULL => held[t] \in I!Inode
      BY <1>1 DEF InodeTypes
    <3>2. \A j \in I!Inode : table'[j].i_num = table[j].i_num
      BY <1>9, <1>15, <1>17
    <3> QED BY <1>1, <1>18, <3>1, <3>2 DEF TaskRight
  <2> QED BY <1>2, <1>18, <1>22, <1>23, <2>1 DEF TaskRight
<1>28. EntryRight(i)'
  <2>1. table[i].i_lock => \E u \in Task : LockedBy(stack'[u]) = i
    <3>1. table[i].i_lock => \E u \in Task \ {t} : LockedBy(stack[u]) = i
      BY <1>1, <1>7, <1>8 DEF EntryRight
    <3> QED BY <1>23, <3>1
  <2>2. (table[i].i_wait # {} => table[i].i_lock) /\ n \in imap
    BY <1>1, <1>7, <1>8, <1>9 DEF EntryRight
  <2>3. UsedRight(i, n)
    BY <1>8, <1>9, <1>10, <1>15, <1>17, <1>18, <1>19, <2>1, <2>2 DEF UsedRight
  <2> QED BY <2>3, UsedEntry
<1>29. Step(t, i, e, r)
  BY <1>1, <1>7, <1>8, <1>15, <1>16, <1>18, <1>19, <1>21, <1>22 DEF InodeTypes, Step, SameBut
<1>30. LeavesOthers(t, i, e)
  <2>1. ASSUME NEW u \in Task \ {t}, NEW m \in Num
        PROVE  /\ (u \in names[m] => u \in names'[m]) \/ Seeks(stack[u]) # m
               /\ names'[m] = names[m] \/ Unlinks(stack[u]) # m
    BY <1>19, <1>24
  <2>2. \A j \in I!Inode \ {i} : table[j].i_num # NULL =>
             table[j].i_num \in imap' /\ table[j].i_num # n /\ table[j].i_num \in Num
    <3>1. \A j \in I!Inode : table[j].i_num \in Num \cup {NULL}
      BY <1>1 DEF InodeTypes, Entry
    <3> QED BY <1>1, <1>7, <1>8, <1>9, <1>18, <3>1 DEF EntryRight, OneEntry
  <2>3. ASSUME NEW u \in Task \ {t} PROVE LeftTo(u, i)
    <3>1. LockedBy(stack[u]) = i => table[i].i_lock /\ table[i].i_dirt
      <4>1. LockedBy(stack[u]) = i => TopAt(stack[u]) = "write" /\ TopI(stack[u]) = i
        BY <1>8, <1>25 DEF LockedBy, Reading
      <4> QED BY <1>1, <1>7, <4>1, LockersLock DEF TaskRight
    <3>2. UsedBy(stack[u]) = i => TopAt(stack[u]) \notin {"iget", "create", "read", "truncate"}
      <4> SUFFICES ASSUME UsedBy(stack[u]) = i,
                          TopAt(stack[u]) \in {"iget", "create", "read", "truncate"}
                   PROVE  FALSE
        OBVIOUS
      <4>1. TopI(stack[u]) = i
        BY DEF UsedBy
      <4>2. table[i].i_count = 1
        BY <1>1, <4>1 DEF TaskRight
      <4> QED BY <1>7, <4>2, EntryUsers
    <3>3. table'[i].i_num = table[i].i_num /\ table'[i].i_lock = table[i].i_lock
          /\ table'[i].i_dirt = TRUE
      BY <1>9, <1>15, <1>17
    <3> QED BY <3>1, <3>2, <3>3 DEF LeftTo
  <2> QED BY <1>15, <1>18, <1>19, <2>1, <2>2, <2>3 DEF LeavesOthers
<1>31. Counts(t, i, e, r)
  BY <1>7, <1>8, <1>10, <1>15, <1>18, <1>22, InodeConstants DEF Counts
<1>32. \A m \in Num : NumRight(m)'
  <2> SUFFICES ASSUME NEW m \in Num PROVE NumRight(m)'
    OBVIOUS
  <2>1. CASE m # n
    <3>1. Kept(i, e, m)
      BY <1>1, <1>9, <1>18, <1>19, <2>1 DEF NumRight, Kept
    <3> QED BY <1>7, <1>29, <3>1, NumStays
  <2>2. CASE m = n
    BY <1>19, <2>2 DEF NumRight
  <2> QED BY <2>1, <2>2
<1> QED BY <1>7, <1>27, <1>28, <1>29, <1>30, <1>31, <1>32, EntryStep

Modifies(i, n, d) ==
    /\ table' = [table EXCEPT ![i].data = d, ![i].i_dirt = TRUE]
    /\ latest' = [latest EXCEPT ![n] = d]
    /\ UNCHANGED <<on, disk, imap, names, stack, held, asleep, panic>>

LEMMA ModifyKeepsInodes ==
  ASSUME InodeInv, NEW t \in Task, I!Modify(t) PROVE InodeInv'
<1>1. /\ InodeTypes /\ \A u \in Task : TaskRight(u)
      /\ OneEntry /\ \A j \in I!Inode : EntryRight(j)
      /\ \A m \in Num : NumRight(m)
  BY DEF InodeInv
<1>2. stack[t] = <<>> /\ held[t] # NULL
  BY DEF I!Modify, I!User
<1>3. PICK i : i = held[t]
  OBVIOUS
<1>4. PICK n : n = table[i].i_num
  OBVIOUS
<1>5. PICK d : d = 1 - table[i].data
  OBVIOUS
<1>6. Modifies(i, n, d)
  BY <1>3, <1>4, <1>5 DEF I!Modify, Modifies
<1>7. i \in I!Inode /\ i # NULL /\ n # NULL
  BY <1>1, <1>2, <1>3, <1>4 DEF TaskRight, InodeTypes
<1>8. PICK x : x = table[i]
  OBVIOUS
<1>9. x \in Entry /\ x.data \in 0..1 /\ x.i_nlinks \in 0..1 /\ n \in Num
  BY <1>1, <1>4, <1>7, <1>8 DEF InodeTypes, Entry
<1>10. d \in 0..1
  BY <1>5, <1>8, <1>9
<1>11. table[i].i_count \in Nat /\ table[i].i_count >= 1
  BY <1>3, <1>7, EntryUsers
<1>12. PICK e : e = [x EXCEPT !.i_num = n, !.i_nlinks = x.i_nlinks, !.data = d, !.i_dirt = TRUE]
  OBVIOUS
<1>13. EntryIs(e, n, x.i_count, TRUE, x.i_lock, x.i_nlinks, d, x.i_wait)
  <2>1. n \in Num \cup {NULL} /\ TRUE \in BOOLEAN
    BY <1>9
  <2> QED BY <1>9, <1>10, <1>12, <2>1, NewEntry
<1>14. /\ e \in Entry /\ e.i_num = n /\ e.i_count = table[i].i_count /\ e.i_dirt
       /\ e.i_lock = table[i].i_lock
       /\ e.i_nlinks = table[i].i_nlinks /\ e.data = d /\ e.i_wait = table[i].i_wait
  BY <1>8, <1>13 DEF EntryIs
<1>15. table' = [table EXCEPT ![i] = e]
  <2>1. table = [j \in I!Inode |-> table[j]]
    BY <1>1 DEF InodeTypes
  <2>2. table' = [[table EXCEPT ![i].data = d] EXCEPT ![i].i_dirt = TRUE]
    BY <1>6 DEF Modifies
  <2>3. PICK a : a = [x EXCEPT !.data = d]
    OBVIOUS
  <2>4. e = [a EXCEPT !.i_dirt = TRUE]
    BY <1>4, <1>8, <1>9, <1>12, <2>3 DEF Entry
  <2>5. PICK T : T = [table EXCEPT ![i] = a]
    OBVIOUS
  <2>6. T = [table EXCEPT ![i].data = d] /\ T[i] = a /\ T = [j \in I!Inode |-> T[j]]
    BY <1>7, <1>8, <2>1, <2>3, <2>5
  <2>7. table' = [T EXCEPT ![i] = e]
    BY <1>7, <2>2, <2>4, <2>6
  <2> QED BY <1>7, <2>1, <2>5, <2>7
<1>16. table'[i] = e /\ \A j \in I!Inode \ {i} : table'[j] = table[j]
  BY <1>1, <1>7, <1>15 DEF InodeTypes
<1>17. UNCHANGED <<on, disk, imap, names, stack, held, asleep, panic>>
  BY <1>6 DEF Modifies
<1>18. /\ latest' \in [Num -> 0..1] /\ latest'[n] = d
       /\ \A m \in Num \ {n} : latest'[m] = latest[m]
  BY <1>1, <1>6, <1>9, <1>10 DEF InodeTypes, Modifies
<1>19. PICK r : r = <<>>
  OBVIOUS
<1>20. /\ stack' = [stack EXCEPT ![t] = r] /\ r = stack[t] /\ LockedBy(r) = NULL
       /\ UsedBy(r) = NULL
  BY <1>1, <1>2, <1>17, <1>19, NoFrames DEF InodeTypes
<1>21. \A u \in Task : UsedBy(stack[u]) = i
            => TopAt(stack[u]) \notin {"iget", "create", "read", "truncate"}
  <2> SUFFICES ASSUME NEW u \in Task, UsedBy(stack[u]) = i,
                      TopAt(stack[u]) \in {"iget", "create", "read", "truncate"}
               PROVE  FALSE
    OBVIOUS
  <2>1. TopI(stack[u]) = i
    BY DEF UsedBy
  <2>2. table[i].i_count = 1
    BY <1>1, <2>1 DEF TaskRight
  <2> QED BY <1>3, <1>7, <2>2, EntryUsers
<1>22. ~Reading(i) /\ ~Reading(i)'
  <2>1. ~Reading(i)
    BY <1>21 DEF Reading, UsedBy
  <2> QED BY <1>17, <2>1 DEF Reading
<1>23. TaskRight(t)'
  <2>1. held'[t] # NULL => table'[held'[t]].i_num # NULL
    BY <1>3, <1>7, <1>14, <1>16, <1>17
  <2>2. t \in asleep' => \E j \in I!Inode : t \in table'[j].i_wait
    <3>1. \A j \in I!Inode : table'[j].i_wait = table[j].i_wait
      BY <1>14, <1>16
    <3> QED BY <1>1, <1>17, <3>1 DEF TaskRight
  <2>3. stack'[t] = <<>>
    BY <1>2, <1>17
  <2> QED BY <2>1, <2>2, <2>3, NoFrames DEF TaskRight
<1>24. EntryRight(i)'
  <2>1. /\ (table[i].i_wait # {} => table[i].i_lock) /\ n \in imap
        /\ (table[i].i_lock => \E u \in Task : LockedBy(stack[u]) = i)
        /\ (table[i].i_nlinks = 1 <=> names[n] # {})
        /\ (table[i].i_nlinks = 0 => "unlink" \in on)
    BY <1>1, <1>4, <1>7, <1>22 DEF EntryRight
  <2>2. UsedRight(i, n)
    BY <1>7, <1>11, <1>14, <1>16, <1>17, <1>18, <2>1 DEF UsedRight
  <2> QED BY <2>2, UsedEntry
<1>25. Step(t, i, e, r)
  BY <1>1, <1>7, <1>14, <1>15, <1>17, <1>18, <1>20 DEF InodeTypes, Step, SameBut
<1>26. LeavesOthers(t, i, e)
  <2>1. \A j \in I!Inode \ {i} : table[j].i_num # NULL =>
             table[j].i_num \in imap' /\ table[j].i_num # n /\ table[j].i_num \in Num
    <3>1. \A j \in I!Inode : table[j].i_num \in Num \cup {NULL}
      BY <1>1 DEF InodeTypes, Entry
    <3> QED BY <1>1, <1>4, <1>7, <1>17, <3>1 DEF EntryRight, OneEntry
  <2>2. ASSUME NEW u \in Task \ {t} PROVE LeftTo(u, i)
    <3>1. LockedBy(stack[u]) = i => table[i].i_lock /\ table[i].i_dirt
      <4>1. LockedBy(stack[u]) = i => TopAt(stack[u]) = "write" /\ TopI(stack[u]) = i
        BY <1>7, <1>22 DEF LockedBy, Reading
      <4> QED BY <1>1, <1>7, <4>1, LockersLock DEF TaskRight
    <3>2. table'[i].i_num = table[i].i_num /\ table'[i].i_lock = table[i].i_lock
          /\ table'[i].i_dirt = TRUE
      BY <1>4, <1>14, <1>16
    <3> QED BY <1>21, <3>1, <3>2 DEF LeftTo
  <2> QED BY <1>14, <1>17, <1>18, <2>1, <2>2 DEF LeavesOthers
<1>27. Counts(t, i, e, r)
  BY <1>11, <1>14, <1>17, <1>20 DEF Counts
<1>28. \A m \in Num : NumRight(m)'
  <2> SUFFICES ASSUME NEW m \in Num PROVE NumRight(m)'
    OBVIOUS
  <2>1. CASE m # n
    <3>1. Kept(i, e, m)
      BY <1>1, <1>4, <1>17, <1>18, <2>1 DEF NumRight, Kept
    <3> QED BY <1>7, <1>25, <3>1, NumStays
  <2>2. CASE m = n
    <3>1. n \in imap' /\ table'[i].i_num = n /\ table'[i].i_dirt
      BY <1>1, <1>4, <1>7, <1>14, <1>16, <1>17 DEF EntryRight
    <3> QED BY <1>7, <1>22, <2>2, <3>1 DEF NumRight
  <2> QED BY <2>1, <2>2
<1> QED BY <1>7, <1>23, <1>24, <1>25, <1>26, <1>27, <1>28, EntryStep

LEMMA InodeInvInit ==
  ASSUME I!Init, InodesAreTame PROVE InodeInv
<1>1. /\ on \in InodeRegimes /\ table = [i \in I!Inode |-> I!Zeroed]
      /\ \A n \in Num : names[n] = IF n \in imap THEN Task ELSE {}
      /\ names = [n \in Num |-> IF n \in imap THEN Task ELSE {}]
      /\ imap \subseteq Num
      /\ disk = [n \in Num |-> [i_nlinks |-> IF n \in imap THEN 1 ELSE 0, data |-> 0]]
      /\ latest = [n \in Num |-> 0] /\ stack = [t \in Task |-> <<>>]
      /\ held = [t \in Task |-> NULL] /\ asleep = {} /\ panic = NULL
  BY DEF I!Init
<1>2. InodeTypes
  <2>1. I!Zeroed \in Entry
    BY DEF I!Zeroed, Entry
  <2> QED BY <1>1, <2>1 DEF InodeTypes
<1>3. \A t \in Task : stack[t] = <<>> /\ held[t] = NULL
  BY <1>1
<1>4. \A t \in Task : TaskRight(t)
  BY <1>1, <1>3, NoFrames DEF TaskRight
<1>5. \A i \in I!Inode : /\ table[i].i_num = NULL /\ ~table[i].i_dirt /\ ~table[i].i_lock
                         /\ table[i].data = 0 /\ table[i].i_wait = {} /\ table[i].i_count = 0
  BY <1>1 DEF I!Zeroed
<1>6. \A i \in I!Inode : EntryRight(i)
  BY <1>5 DEF EntryRight
<1>7. OneLocker
  BY <1>3, NoFrames DEF OneLocker
<1>8. OneEntry
  BY <1>5 DEF OneEntry
<1>9. \A n \in Num : NumRight(n)
  BY <1>1 DEF NumRight
<1>10. InodeUsesCounted
  <2> SUFFICES ASSUME NEW i \in I!Inode
               PROVE  table[i].i_count = Number(held, Task, i) + Number(StackUse, Task, i)
    BY DEF InodeUsesCounted
  <2>1. \A t \in Task : held[t] # i /\ StackUse[t] # i
    BY <1>3, NoFrames, InodeConstants DEF StackUse
  <2>2. Number(held, Task, i) = 0 /\ Number(StackUse, Task, i) = 0
    BY <2>1, InodeConstants, NumberIsNat
  <2> QED BY <1>5, <2>2
<1> QED BY <1>1, <1>2, <1>4, <1>6, <1>7, <1>8, <1>9, <1>10 DEF InodeInv

LEMMA InodeInvStep ==
  ASSUME InodeInv, I!Next PROVE InodeInv'
<1>1. PICK t \in Task :
       \/ I!InKernel(t)
       \/ I!Open(t) \/ I!Create(t) \/ I!Unlink(t) \/ I!Modify(t) \/ I!Close(t) \/ I!Sync(t)
  BY DEF I!Next
<1>2. CASE I!InKernel(t)
  <2>1. I!Leave(t) => InodeInv'
    BY SameInodes DEF I!Leave, I!files
  <2> QED BY <1>2, <2>1, GetEmptyKeepsInodes, IgetKeepsInodes, ReadInodeKeepsInodes,
          IputKeepsInodes, RepeatKeepsInodes, TruncatedKeepsInodes, LockToWriteKeepsInodes,
          WriteInodeKeepsInodes, SyncInodesKeepsInodes, OpenedKeepsInodes,
          NewInodeKeepsInodes, UnlinkedKeepsInodes DEF I!InKernel
<1> QED BY <1>1, <1>2, OpenKeepsInodes, CreateKeepsInodes, UnlinkKeepsInodes,
        ModifyKeepsInodes, CloseKeepsInodes, SyncKeepsInodes

LEMMA InodesHold ==
  ASSUME InodesAreTame PROVE Spec => [](part = "inodes" => InodeInv)
<1>1. Init => (part = "inodes" => InodeInv)
  <2> SUFFICES ASSUME Init, part = "inodes" PROVE InodeInv
    OBVIOUS
  <2>1. I!Init
    BY DEF Init
  <2> QED BY <2>1, InodeInvInit
<1>2. (part = "inodes" => InodeInv) /\ [Next]_vars => (part = "inodes" => InodeInv)'
  <2> SUFFICES ASSUME part = "inodes" => InodeInv, [Next]_vars, part' = "inodes"
               PROVE  InodeInv'
    OBVIOUS
  <2>1. CASE UNCHANGED vars
    <3>1. part' = part /\ UNCHANGED <<on, table, disk, imap, names, latest, stack, held, asleep, panic>>
      BY <2>1 DEF vars, ofInodes
    <3> QED BY <3>1, SameInodes
  <2>2. CASE InodesStep
    BY <2>2, InodeInvStep DEF InodesStep
  <2>3. CASE BlocksStep
    BY <2>3 DEF BlocksStep
  <2>4. CASE MountsStep
    BY <2>4 DEF MountsStep
  <2>5. CASE DirsStep
    BY <2>5 DEF DirsStep
  <2> QED BY <2>1, <2>2, <2>3, <2>4, <2>5 DEF Next
<1> QED BY <1>1, <1>2, PTL DEF Spec

LEMMA NoChangeLost ==
  ASSUME InodeInv PROVE I!NoChangeIsLost
<1>1. \A i : I!BeingRead(i) <=> Reading(i)
  BY DEF I!BeingRead, Reading, TopAt, TopI
<1>2. SUFFICES ASSUME NEW n \in Num, names[n] # {}
      PROVE  LET in == {i \in I!Inode : table[i].i_num = n /\ ~I!BeingRead(i)}
             IN  /\ \A i \in in : table[i].data = latest[n]
                 /\ (\A i \in in : ~table[i].i_dirt) => disk[n].data = latest[n]
  BY DEF I!NoChangeIsLost
<1>3. n # NULL
  BY InodeConstants
<1>4. \A i \in I!Inode : EntryRight(i)
  BY DEF InodeInv
<1>5. NumRight(n)
  BY DEF InodeInv
<1>6. \A i \in I!Inode : table[i].i_num = n /\ ~Reading(i) => table[i].data = latest[n]
  BY <1>2, <1>3, <1>4 DEF EntryRight
<1> QED BY <1>1, <1>2, <1>5, <1>6 DEF NumRight

LEMMA TopIsThere ==
  ASSUME NEW s, StackRight(s), TopAt(s) \in {"read", "write"} PROVE 1 \in DOMAIN s
<1>1. Searches(s) => 1 \in DOMAIN s
  <2> SUFFICES ASSUME Searches(s) PROVE 1 \in DOMAIN s
    OBVIOUS
  <2>1. PICK f, c : s = <<f, c>>
    BY DEF Searches
  <2> QED BY <2>1
<1>2. Writes(s) => 1 \in DOMAIN s
  <2> SUFFICES ASSUME Writes(s) PROVE 1 \in DOMAIN s
    OBVIOUS
  <2>1. PICK f, g, h : s = <<f>> \/ s = <<f, g>> \/ s = <<f, g, h>>
    BY DEF Writes
  <2> QED BY <2>1
<1> QED BY <1>1, <1>2, StackKinds DEF StackRight

LEMMA SleepersHope ==
  ASSUME InodeInv PROVE I!SleeperHasHope
<1> SUFFICES ASSUME NEW t \in asleep
    PROVE \E i \in I!Inode : t \in table[i].i_wait /\ table[i].i_lock /\ I!Lockers(i) \ {t} # {}
  BY DEF I!SleeperHasHope
<1>1. t \in Task
  BY DEF InodeInv, InodeTypes
<1>2. PICK i \in I!Inode : t \in table[i].i_wait
  BY <1>1 DEF InodeInv, TaskRight
<1>3. EntryRight(i)
  BY DEF InodeInv
<1>4. table[i].i_lock
  BY <1>2, <1>3 DEF EntryRight
<1>5. PICK u \in Task : LockedBy(stack[u]) = i
  BY <1>3, <1>4 DEF EntryRight
<1>6. i # NULL
  BY InodeConstants
<1>7. u # t
  BY <1>5, <1>6 DEF InodeInv, TaskRight
<1>8. TopAt(stack[u]) \in {"read", "write"} /\ TopI(stack[u]) = i
  BY <1>5, <1>6 DEF LockedBy
<1>9. StackRight(stack[u])
  BY DEF InodeInv, TaskRight
<1>10. 1 \in DOMAIN stack[u]
  BY <1>8, <1>9, TopIsThere
<1>11. stack[u][1].at \in {"read", "write"} /\ stack[u][1].i = i
  BY <1>8, <1>6 DEF TopAt, TopI
<1>12. u \in I!Lockers(i)
  BY <1>10, <1>11 DEF I!Lockers
<1> QED BY <1>2, <1>4, <1>7, <1>12

\* The frames of a stack in which its task counts for an inode.
Counting(f, i) ==
    f.i = i /\ f.at \in {"iget", "read", "iput", "repeat", "truncate", "open", "create", "unlink"}
Countings(s, i) == {k \in DOMAIN s : Counting(s[k], i)}
AtMostOne(s, i) ==
    \E p \in 1..8 : Countings(s, i) = IF UsedBy(s) = i THEN {p} ELSE {}

\* Frames of which one counts if any does: the first in use, or the last.
LEMMA OneCounts ==
  ASSUME NEW s, NEW i, NEW f, s = <<f>>, UsedBy(s) = i <=> Counting(f, i)
  PROVE  AtMostOne(s, i)
<1>1. DOMAIN s = {1} /\ s[1] = f
  OBVIOUS
<1>2. Countings(s, i) = IF UsedBy(s) = i THEN {1} ELSE {}
  BY <1>1 DEF Countings
<1> QED BY <1>2 DEF AtMostOne

LEMMA TwoCount ==
  ASSUME NEW s, NEW i, NEW f, NEW g, s = <<f, g>>,
         UsedBy(s) = i <=> Counting(f, i) \/ Counting(g, i), ~Counting(f, i) \/ ~Counting(g, i)
  PROVE  AtMostOne(s, i)
<1>1. DOMAIN s = {1, 2} /\ s[1] = f /\ s[2] = g
  OBVIOUS
<1>2. CASE Counting(f, i)
  <2>1. Countings(s, i) = IF UsedBy(s) = i THEN {1} ELSE {}
    BY <1>1, <1>2 DEF Countings
  <2> QED BY <2>1 DEF AtMostOne
<1>3. CASE ~Counting(f, i)
  <2>1. Countings(s, i) = IF UsedBy(s) = i THEN {2} ELSE {}
    BY <1>1, <1>3 DEF Countings
  <2> QED BY <2>1 DEF AtMostOne
<1> QED BY <1>2, <1>3

LEMMA ThreeCount ==
  ASSUME NEW s, NEW i, NEW f, NEW g, NEW h, s = <<f, g, h>>,
         ~Counting(f, i), ~Counting(g, i), UsedBy(s) = i <=> Counting(h, i)
  PROVE  AtMostOne(s, i)
<1>1. DOMAIN s = {1, 2, 3} /\ s[1] = f /\ s[2] = g /\ s[3] = h
  OBVIOUS
<1>2. Countings(s, i) = IF UsedBy(s) = i THEN {3} ELSE {}
  BY <1>1 DEF Countings
<1> QED BY <1>2 DEF AtMostOne

\* A caller waits for its inode: it counts for none yet.
LEMMA CallersCountNot ==
  ASSUME NEW c, NEW n, IsCaller(c, n), NEW i, i # NULL PROVE ~Counting(c, i)
BY Fields DEF IsCaller, Counting

LEMMA UsesOne ==
  ASSUME NEW s, StackRight(s), NEW i \in I!Inode PROVE AtMostOne(s, i)
<1>0. i # NULL
  BY InodeConstants
<1>1. CASE Empties(s)
  <2>1. UsedBy(s) # i
    BY <1>0, <1>1, WorkViews, StackKinds
  <2>2. CASE s = <<I!Frame("get_empty", NULL, NULL), I!Frame("create", NULL, NULL)>>
    BY <1>0, <2>1, <2>2, TwoCount, Fields DEF Counting
  <2>3. CASE \E n \in Num : \E c : IsCaller(c, n)
               /\ s = <<I!Frame("get_empty", NULL, NULL), I!Frame("iget", NULL, n), c>>
    <3>1. PICK n \in Num : \E c : IsCaller(c, n)
               /\ s = <<I!Frame("get_empty", NULL, NULL), I!Frame("iget", NULL, n), c>>
      BY <2>3
    <3>2. PICK c : IsCaller(c, n)
               /\ s = <<I!Frame("get_empty", NULL, NULL), I!Frame("iget", NULL, n), c>>
      BY <3>1
    <3>3. /\ ~Counting(c, i) /\ ~Counting(I!Frame("get_empty", NULL, NULL), i)
          /\ ~Counting(I!Frame("iget", NULL, n), i)
      BY <1>0, <3>2, CallersCountNot, Fields DEF Counting
    <3> QED BY <2>1, <3>2, <3>3, ThreeCount
  <2> QED BY <1>1, <2>2, <2>3 DEF Empties
<1>2. CASE Searches(s)
  <2>1. PICK p \in {"iget", "read"}, j \in I!Inode, n \in Num : \E c :
       IsCaller(c, n) /\ s = <<I!Frame(p, j, n), c>>
    BY <1>2 DEF Searches
  <2>2. PICK c : IsCaller(c, n) /\ s = <<I!Frame(p, j, n), c>>
    BY <2>1
  <2>3. PICK f : f = I!Frame(p, j, n)
    OBVIOUS
  <2>4. f.at = p /\ f.i = j /\ View(s, f, c, c, <<c>>)
    BY <2>2, <2>3, Fields, TwoFrames
  <2>5. UsedBy(s) = j
    BY <2>4 DEF View, UsedBy
  <2>6. ~Counting(c, i) /\ (Counting(f, i) <=> j = i)
    BY <1>0, <2>2, <2>4, CallersCountNot DEF Counting
  <2>7. s = <<f, c>>
    BY <2>2, <2>3
  <2>8. UsedBy(s) = i <=> Counting(f, i) \/ Counting(c, i)
    BY <2>5, <2>6
  <2>9. ~Counting(f, i) \/ ~Counting(c, i)
    BY <2>6
  <2> QED BY <2>7, <2>8, <2>9, TwoCount
<1>3. CASE Single(s)
  <2>1. PICK f : s = <<f>> /\ f.at \in {"open", "create", "iput", "truncate", "unlink"}
    BY <1>3, Fields DEF Single
  <2>2. UsedBy(s) = TopI(s) /\ TopI(s) = f.i
    BY <1>3, <2>1, SingleViews, OneFrame DEF OneView
  <2>3. UsedBy(s) = i <=> Counting(f, i)
    BY <2>1, <2>2 DEF Counting
  <2> QED BY <2>1, <2>3, OneCounts
<1>4. CASE Resumes(s)
  <2>1. CASE s = <<>>
    <3>1. Countings(s, i) = {}
      <4>1. DOMAIN <<>> = {}
        OBVIOUS
      <4> QED BY <2>1, <4>1 DEF Countings
    <3> QED BY <1>0, <2>1, <3>1, NoFrames DEF AtMostOne
  <2>2. CASE \E p \in {"sync", "repeat"} : \E k \in I!Inode : s = <<I!Frame(p, k, NULL)>>
    <3>1. PICK p \in {"sync", "repeat"}, k \in I!Inode : s = <<I!Frame(p, k, NULL)>>
      BY <2>2
    <3>2. PICK f : f = I!Frame(p, k, NULL)
      OBVIOUS
    <3>3. f.at = p /\ f.i = k /\ s = <<f>>
      BY <3>1, <3>2, Fields
    <3>4. UsedBy(s) = IF p = "sync" THEN NULL ELSE k
      BY <3>1, FrameViews
    <3>5. UsedBy(s) = i <=> Counting(f, i)
      BY <1>0, <3>3, <3>4 DEF Counting
    <3> QED BY <3>3, <3>5, OneCounts
  <2>3. CASE \E j \in I!Inode : \E k \in I!Inode :
          s = <<I!Frame("sync", j, NULL), I!Frame("repeat", k, NULL)>>
    <3>1. PICK j \in I!Inode, k \in I!Inode :
          s = <<I!Frame("sync", j, NULL), I!Frame("repeat", k, NULL)>>
      BY <2>3
    <3>2. PICK f : f = I!Frame("sync", j, NULL)
      OBVIOUS
    <3>3. PICK g : g = I!Frame("repeat", k, NULL)
      OBVIOUS
    <3>4. f.at = "sync" /\ g.at = "repeat" /\ g.i = k /\ s = <<f, g>> /\ View(s, f, g, g, <<g>>)
      BY <3>1, <3>2, <3>3, Fields, TwoFrames
    <3>5. UsedBy(s) = k
      BY <3>4 DEF View, UsedBy
    <3>6. ~Counting(f, i) /\ (Counting(g, i) <=> UsedBy(s) = i)
      BY <3>4, <3>5 DEF Counting
    <3>7. (UsedBy(s) = i <=> Counting(f, i) \/ Counting(g, i)) /\ (~Counting(f, i) \/ ~Counting(g, i))
      BY <3>6
    <3> QED BY <3>4, <3>7, TwoCount
  <2> QED BY <1>4, <2>1, <2>2, <2>3 DEF Resumes
<1>5. CASE Writes(s)
  <2>1. PICK f, j :
       /\ f = I!Frame("lock", j, NULL) \/ \E n \in Num : f = I!Frame("write", j, n)
       /\ \/ s = <<f>>
          \/ \E p \in {"sync", "repeat"} : \E k \in I!Inode : s = <<f, I!Frame(p, k, NULL)>>
          \/ \E l \in I!Inode : \E k \in I!Inode :
                s = <<f, I!Frame("sync", l, NULL), I!Frame("repeat", k, NULL)>>
    BY <1>5 DEF Writes
  <2>2. f.at \in {"lock", "write"} /\ ~Counting(f, i)
    BY <2>1, Fields DEF Counting
  <2>3. UsedBy(s) = Repeats(s)
    BY <1>5, WritesViews
  <2>4. CASE s = <<f>>
    <3>1. UsedBy(s) # i
      BY <1>0, <2>2, <2>3, <2>4, OneFrame DEF OneView
    <3> QED BY <2>2, <2>4, <3>1, OneCounts
  <2>5. CASE \E p \in {"sync", "repeat"} : \E k \in I!Inode : s = <<f, I!Frame(p, k, NULL)>>
    <3>1. PICK p \in {"sync", "repeat"}, k \in I!Inode : s = <<f, I!Frame(p, k, NULL)>>
      BY <2>5
    <3>2. PICK g : g = I!Frame(p, k, NULL)
      OBVIOUS
    <3>3. g.at = p /\ g.i = k /\ s = <<f, g>> /\ View(s, f, g, g, <<g>>)
      BY <3>1, <3>2, Fields, TwoFrames
    <3>4. UsedBy(s) = IF p = "repeat" THEN k ELSE NULL
      BY <2>3, <3>3 DEF View
    <3>5. Counting(g, i) <=> UsedBy(s) = i
      BY <1>0, <3>3, <3>4 DEF Counting
    <3>6. (UsedBy(s) = i <=> Counting(f, i) \/ Counting(g, i)) /\ (~Counting(f, i) \/ ~Counting(g, i))
      BY <2>2, <3>5
    <3> QED BY <3>3, <3>6, TwoCount
  <2>6. CASE \E l \in I!Inode : \E k \in I!Inode :
                s = <<f, I!Frame("sync", l, NULL), I!Frame("repeat", k, NULL)>>
    <3>1. PICK l \in I!Inode, k \in I!Inode :
                s = <<f, I!Frame("sync", l, NULL), I!Frame("repeat", k, NULL)>>
      BY <2>6
    <3>2. PICK g : g = I!Frame("sync", l, NULL)
      OBVIOUS
    <3>3. PICK h : h = I!Frame("repeat", k, NULL)
      OBVIOUS
    <3>4. /\ g.at = "sync" /\ h.at = "repeat" /\ h.i = k /\ s = <<f, g, h>>
          /\ View(s, f, g, h, <<g, h>>)
      BY <3>1, <3>2, <3>3, Fields, ThreeFrames
    <3>5. UsedBy(s) = k
      BY <2>3, <3>4 DEF View
    <3>6. ~Counting(g, i) /\ (UsedBy(s) = i <=> Counting(h, i))
      BY <3>4, <3>5 DEF Counting
    <3> QED BY <2>2, <3>4, <3>6, ThreeCount
  <2> QED BY <2>1, <2>4, <2>5, <2>6
<1> QED BY <1>1, <1>2, <1>3, <1>4, <1>5 DEF StackRight

LEMMA InodeCounts ==
  ASSUME InodeInv PROVE I!CountIsHolders
<1> SUFFICES ASSUME NEW i \in I!Inode
    PROVE  table[i].i_count = I!Cardinality({t \in Task : held[t] = i})
             + I!Cardinality({u \in Task \X (1..8) : u[2] \in I!Using(u[1], i)})
  BY DEF I!CountIsHolders
<1>1. \A t \in Task : I!Using(t, i) = Countings(stack[t], i)
  BY DEF I!Using, Countings, Counting
<1>2. \A t \in Task : AtMostOne(stack[t], i)
  BY UsesOne DEF InodeInv, TaskRight
<1> DEFINE U == {t \in Task : StackUse[t] = i}
           P == {u \in Task \X (1..8) : u[2] \in I!Using(u[1], i)}
<1>3. PICK place : \A t \in Task : /\ place[t] \in 1..8
                                 /\ I!Using(t, i) = IF t \in U THEN {place[t]} ELSE {}
  <2>1. \A t \in Task : \E p \in 1..8 : I!Using(t, i) = IF t \in U THEN {p} ELSE {}
    BY <1>1, <1>2 DEF AtMostOne, StackUse
  <2>2. PICK place : place = [t \in Task |->
                        CHOOSE p \in 1..8 : I!Using(t, i) = IF t \in U THEN {p} ELSE {}]
    OBVIOUS
  <2> HIDE DEF U, P
  <2> QED BY <2>1, <2>2
<1>4. IsFiniteSet(U)
  BY InodeConstants, FS_Subset
<1>5. ExistsBijection(U, P)
  <2>1. PICK f : f = [t \in U |-> <<t, place[t]>>]
    OBVIOUS
  <2>2. \A t \in U : f[t] = <<t, place[t]>>
    BY <2>1
  <2>3. \A t \in U : f[t] \in P
    <3> TAKE t \in U
    <3>1. t \in Task /\ place[t] \in 1..8 /\ place[t] \in I!Using(t, i)
      BY <1>3
    <3>2. PICK p : p = place[t]
      OBVIOUS
    <3>3. <<t, p>> \in P
      BY <3>1, <3>2
    <3> QED BY <2>2, <3>2, <3>3
  <2>4. f \in [U -> P] /\ DOMAIN f = U
    BY <2>1, <2>3
  <2>5. ASSUME NEW u \in P PROVE \E t \in U : f[t] = u
    <3>1. PICK t \in Task, p \in 1..8 : u = <<t, p>>
      OBVIOUS
    <3>2. p \in I!Using(t, i)
      BY <3>1
    <3>3. t \in U /\ p = place[t]
      BY <1>3, <3>2
    <3> QED BY <2>2, <3>1, <3>3
  <2> HIDE DEF U, P
  <2>6. \A a, b \in U : f[a] = f[b] => a = b
    BY <2>2
  <2>7. f \in Injection(U, P)
    BY <2>4, <2>6 DEF Injection, IsInjective
  <2>8. f \in Surjection(U, P)
    BY <2>4, <2>5 DEF Surjection
  <2> QED BY <2>7, <2>8 DEF ExistsBijection, Bijection
<1>6. Cardinality(P) = Cardinality(U)
  BY <1>4, <1>5, FS_Bijection
<1>7. table[i].i_count = Number(held, Task, i) + Number(StackUse, Task, i)
  BY DEF InodeInv, InodeUsesCounted
<1>8. I!Cardinality({t \in Task : held[t] = i}) = Number(held, Task, i)
  BY DEF I!Cardinality, Cardinality, Number
<1>9. I!Cardinality(P) = Number(StackUse, Task, i)
  BY <1>6 DEF I!Cardinality, Cardinality, Number
<1> QED BY <1>7, <1>8, <1>9

\* An inode has one entry of the table, whatever tasks look for it while iget() waits.
THEOREM OneInodeForANumber ==
  ASSUME InodesAreTame PROVE Spec => []OneInodePerNumber
<1>1. (part = "inodes" => InodeInv) => OneInodePerNumber
  BY DEF InodeInv, OneEntry, OneInodePerNumber, I!OneInodePerNumber
<1> QED BY <1>1, InodesHold, PTL

\* i_count is the number of the users, of every entry of the inode table through every wait
\* of iget() and iput(), and of the inodes that super blocks are mounted on.
THEOREM CountsAreUsers ==
  ASSUME InodesAreTame, MountsAreTame PROVE Spec => []CountIsHolders
<1>1. (part = "inodes" => InodeInv) /\ (part = "mounts" => MountInv) => CountIsHolders
  BY InodeCounts, MountInvProps DEF CountIsHolders
<1> QED BY <1>1, InodesHold, MountsHold, PTL

\* What is written to an inode is in the table or in its block of the device, and what
\* iget() reads again is the last of it.
THEOREM InodeChangesStay ==
  ASSUME InodesAreTame PROVE Spec => []NoChangeIsLost
<1>1. (part = "inodes" => InodeInv) => NoChangeIsLost
  BY NoChangeLost DEF NoChangeIsLost
<1> QED BY <1>1, InodesHold, PTL

\* Who sleeps for an inode is in its queue, and another task has it locked.
THEOREM SleepersWillBeWoken ==
  ASSUME InodesAreTame PROVE Spec => []SleeperHasHope
<1>1. (part = "inodes" => InodeInv) => SleeperHasHope
  BY SleepersHope DEF SleeperHasHope
<1> QED BY <1>1, InodesHold, PTL
=============================================================================
