------------------------------ MODULE MCMemory ------------------------------
(***************************************************************************)
(* Instances of module Memory.  Which number a page has makes no           *)
(* difference: View is the state but for the numbers of the pages.         *)
(***************************************************************************)
EXTENDS Memory, TLC

Symmetry == Permutations(Task) \cup Permutations(Program)

\* What there is to know of a page.
Role(p) ==
    <<mem_map[p], data[p],
      {<<m, pte[m[1]][m[2]].rw, pte[m[1]][m[2]].dirty>> : m \in Mappings(p)},
      TableUses(p),
      {t \in Task : task_page[t] = p}, {t \in Task : page[t] = p},
      {t \in Task : arg[t] = p}>>

View ==
    <<{Role(p) : p \in Page}, Cardinality(Free), executable, pc, at, fault, next,
      running>>
=============================================================================
