------------------------------- MODULE Memory -------------------------------
(***************************************************************************)
(* Physical memory and page tables (mm/memory.c), with what fork, execve,  *)
(* exit and verify_area() do with them (kernel/fork.c, fs/exec.c,          *)
(* kernel/exit.c).                                                         *)
(*                                                                         *)
(* A page of physical memory is used as a page table, as the page of a     *)
(* task structure, or mapped by page table entries: fork copies entries    *)
(* and makes them read only, a fault on a page of the program may share    *)
(* the page of another task that runs the same program.  mem_map counts.   *)
(*                                                                         *)
(* The address spaces have NR_ADDR pages, TABLE of them in each page       *)
(* table.  The contents of a page are those of module AddressSpaces.  A    *)
(* task keeps the kernel until it sleeps: to read a page, and in the       *)
(* windows where a call may sleep between two of its steps.  Whether it    *)
(* does is the choice of Windows.  The tasks that run in the kernel's own  *)
(* pages, below LOW_MEM, which are not counted (task 0, and init before    *)
(* its first execve), are left out.                                        *)
(***************************************************************************)
EXTENDS Naturals, FiniteSets, Functions, FiniteSetsExt

CONSTANTS Task,     \* the slots of the task table
          NR_PAGES, \* pages of main memory
          Program,  \* executable files
          NR_ADDR, TABLE, EndData,
          Windows,  \* where a task may lose the processor
          NULL

\* "retry" : between a write fault and the instruction that caused it,
\* "write" : between verify_area() and the write of the kernel,
\* "exec"  : execve() copies strings, and may fault on their pages,
\* "close" : execve() closes files before it frees the old memory,
\* "absent": the kernel writes to a page of the program that is not there,
\* "oom"   : memory runs out when execve() faults on a page,
\* "unused": a system call writes nothing to the copy it was given.
Sleep == {"retry", "write", "exec", "close"}
Window == Sleep \cup {"absent", "oom", "unused"}

Page == 1..NR_PAGES
Entry == [page : Page, rw : BOOLEAN, dirty : BOOLEAN]

ASSUME MemoryAssumption ==
    /\ NR_ADDR \in Nat \ {0} /\ TABLE \in Nat \ {0}
    /\ EndData \in Nat /\ EndData < NR_ADDR
    /\ Windows \subseteq Window
    /\ NR_PAGES \in Nat /\ NR_PAGES >= 3
    /\ NULL \notin Task \cup Program \cup Nat \cup Entry
    /\ IsFiniteSet(Task)

Addr == 0..(NR_ADDR - 1)
Top == NR_ADDR - 1
DirOf(a) == a \div TABLE
Dir == {DirOf(a) : a \in Addr}

VARIABLES mem_map,
          dir,         \* the page tables of each task
          pte,         \* their entries: page, R/W, dirty; NULL: not present
          data,        \* the contents of a page
          task_page,   \* the page of the task structure
          executable,
          pc,
          at,          \* the address of a write under way
          fault,       \* the address of a page that is being read
          page,        \* the page it is read into
          arg,         \* execve(): the page of the arguments
          next,        \* execve(): the program to be run
          running      \* the task that has the kernel

tables == <<dir, pte>>
exec == <<arg, next>>
load == <<fault, page>>
vars == <<mem_map, tables, data, task_page, executable, pc, at, load, exec,
          running>>

Gone == {"free", "zombie"}
Where == Gone \cup {"user"} \cup Sleep
Contents == Program \cup Task \cup {"zero", "args"}

\* NULL is no memory, either.
ASSUME NoMemory == NULL \notin [Addr -> Contents]

TypeOK ==
    /\ mem_map \in [Page -> Nat]
    /\ dir \in [Task -> [Dir -> Page \cup {NULL}]]
    /\ pte \in [Task -> [Addr -> Entry \cup {NULL}]]
    /\ data \in [Page -> Contents]
    /\ task_page \in [Task -> Page \cup {NULL}]
    /\ executable \in [Task -> Program \cup {NULL}]
    /\ pc \in [Task -> Where]
    /\ at \in [Task -> Addr \cup {NULL}]
    /\ fault \in [Task -> Addr \cup {NULL}]
    /\ page \in [Task -> Page \cup {NULL}]
    /\ arg \in [Task -> Page \cup {NULL}]
    /\ next \in [Task -> Program \cup {NULL}]
    /\ running \in Task \cup {NULL}

NoTables == [d \in Dir |-> NULL]
NoEntries == [a \in Addr |-> NULL]

\* What execve() leaves: the arguments in the page at the top.
ArgEntries(p) ==
    [NoEntries EXCEPT ![Top] = [page |-> p, rw |-> TRUE, dirty |-> TRUE]]

\* Init after its first execve; s, q and p are the pages of its task
\* structure, its page table and its arguments.
Init ==
    \E t \in Task, x \in Program :
        LET s == NR_PAGES
            q == NR_PAGES - 1
            p == NR_PAGES - 2
        IN
        /\ mem_map = [r \in Page |-> IF r \in {s, q, p} THEN 1 ELSE 0]
        /\ dir = [u \in Task |->
                     IF u = t THEN [NoTables EXCEPT ![DirOf(Top)] = q]
                     ELSE NoTables]
        /\ pte = [u \in Task |-> IF u = t THEN ArgEntries(p) ELSE NoEntries]
        /\ data = [r \in Page |-> IF r = p THEN "args" ELSE "zero"]
        /\ task_page = [u \in Task |-> IF u = t THEN s ELSE NULL]
        /\ executable = [u \in Task |-> IF u = t THEN x ELSE NULL]
        /\ pc = [u \in Task |-> IF u = t THEN "user" ELSE "free"]
        /\ at = [u \in Task |-> NULL]
        /\ fault = [u \in Task |-> NULL]
        /\ page = [u \in Task |-> NULL]
        /\ arg = [u \in Task |-> NULL]
        /\ next = [u \in Task |-> NULL]
        /\ running = NULL

-----------------------------------------------------------------------------
At(t, w) == running \in {NULL, t} /\ fault[t] = NULL /\ pc[t] = w

Goto(t, w) ==
    /\ pc' = [pc EXCEPT ![t] = w]
    /\ running' = IF w \in Sleep \ Windows THEN t ELSE NULL

\* Back to where the fault came from.
Resume(t) ==
    /\ running' = IF pc[t] \in Sleep \ Windows THEN t ELSE NULL
    /\ UNCHANGED pc

\* get_free_page() clears the last free page and marks it used.
FreeIn(map) == {p \in Page : map[p] = 0}
LastFree(map) == {p \in FreeIn(map) : \A q \in FreeIn(map) : q <= p}
Free == FreeIn(mem_map)
Taken(map, p) == [map EXCEPT ![p] = 1]

\* free_page().
Freed(map, p) == [map EXCEPT ![p] = @ - 1]

\* The contents of a page that becomes free are dead: get_free_page() clears
\* it before it is used again.
Contain(d) == data' = [p \in Page |-> IF mem_map'[p] = 0 THEN "zero" ELSE d[p]]

Entries(t, p) == {a \in Addr : pte[t][a] # NULL /\ pte[t][a].page = p}
Tables(t, p) == {d \in Dir : dir[t][d] = p}

\* free_page_tables() of the whole address space.
WithoutTables(map, t) ==
    [p \in Page |-> map[p] - Cardinality(Entries(t, p)) - Cardinality(Tables(t, p))]

\* do_exit(), also called by oom(): what a call had in its local variables is
\* forgotten.
Die(t, map) ==
    /\ arg[t] = NULL \/ "oom" \in Windows
    /\ mem_map' = WithoutTables(map, t)
    /\ Contain(data)
    /\ dir' = [dir EXCEPT ![t] = NoTables]
    /\ pte' = [pte EXCEPT ![t] = NoEntries]
    /\ executable' = [executable EXCEPT ![t] = NULL]
    /\ at' = [at EXCEPT ![t] = NULL]
    /\ fault' = [fault EXCEPT ![t] = NULL]
    /\ page' = [page EXCEPT ![t] = NULL]
    /\ arg' = [arg EXCEPT ![t] = NULL]
    /\ next' = [next EXCEPT ![t] = NULL]
    /\ Goto(t, "zombie")
    /\ UNCHANGED task_page

\* The page table for an address: the one that is there, or a free page.
TableFor(t, a, map) ==
    IF dir[t][DirOf(a)] # NULL THEN {dir[t][DirOf(a)]} ELSE LastFree(map)

\* put_page(): entry e at address a, in table q (which counts 1 already if
\* it is not a new one).
PutPage(t, a, e, q, map) ==
    /\ dir' = [dir EXCEPT ![t][DirOf(a)] = q]
    /\ pte' = [pte EXCEPT ![t][a] = e]
    /\ mem_map' = Taken(map, q)

-----------------------------------------------------------------------------
(***************************************************************************)
(* do_no_page().                                                           *)
(***************************************************************************)
Rest == UNCHANGED <<task_page, executable, at, exec>>

\* get_empty_page(), for an address that is not in the file.
EmptyPage(t, a) ==
    /\ a >= EndData
    /\ \/ \E p \in LastFree(mem_map) :
             \E q \in TableFor(t, a, Taken(mem_map, p)) :
                /\ PutPage(t, a, [page |-> p, rw |-> TRUE, dirty |-> FALSE], q,
                           Taken(mem_map, p))
                /\ Resume(t)
                /\ UNCHANGED <<data, load>>
                /\ Rest
       \/ /\ \A p \in Free : TableFor(t, a, Taken(mem_map, p)) = {}
          /\ Die(t, mem_map)

\* Mutant: the dirty bit is not looked at.
SharersDirty(t, a) ==
    {u \in Task \ {t} : executable[u] = executable[t] /\ pte[u][a] # NULL}

\* The tasks that run the same program and have the page, present and clean.
Sharers(t, a) ==
    {u \in Task \ {t} : /\ executable[u] = executable[t]
                        /\ pte[u][a] # NULL
                        /\ ~pte[u][a].dirty}

\* Mutant: mem_map is not raised.
ShareUncounted(t, u, a, q) ==
    LET e == [pte[u][a] EXCEPT !.rw = FALSE]
    IN  /\ dir' = [dir EXCEPT ![t][DirOf(a)] = q]
        /\ pte' = [pte EXCEPT ![t][a] = e, ![u][a] = e]
        /\ mem_map' = Taken(mem_map, q)

\* try_to_share() with task u: both may only read the page from now on.
ShareWith(t, u, a, q) ==
    LET e == [pte[u][a] EXCEPT !.rw = FALSE]
    IN  /\ dir' = [dir EXCEPT ![t][DirOf(a)] = q]
        /\ pte' = [pte EXCEPT ![t][a] = e, ![u][a] = e]
        /\ mem_map' = [Taken(mem_map, q) EXCEPT ![e.page] = @ + 1]

\* share_page() takes the first task of the table that will do: any of them.
SharePage(t, a) ==
    /\ a < EndData
    /\ \/ \E u \in Sharers(t, a), q \in TableFor(t, a, mem_map) :
             /\ ShareWith(t, u, a, q)
             /\ Resume(t)
             /\ UNCHANGED <<data, load>>
             /\ Rest
       \/ /\ Sharers(t, a) # {}
          /\ TableFor(t, a, mem_map) = {}
          /\ Die(t, mem_map)

\* bread_page(): the page is read from the file, and the task sleeps.
StartLoad(t, a) ==
    /\ a < EndData
    /\ Sharers(t, a) = {}
    /\ \/ \E p \in LastFree(mem_map) :
             /\ mem_map' = Taken(mem_map, p)
             /\ fault' = [fault EXCEPT ![t] = a]
             /\ page' = [page EXCEPT ![t] = p]
             /\ running' = NULL
             /\ UNCHANGED <<data, tables, pc>>
             /\ Rest
       \/ Free = {} /\ Die(t, mem_map)

NoPage(t, a) ==
    /\ pte[t][a] = NULL
    /\ EmptyPage(t, a) \/ SharePage(t, a) \/ StartLoad(t, a)

\* The rest of do_no_page(), after the page has been read.
LoadDone(t) ==
    /\ running = NULL
    /\ fault[t] # NULL
    /\ LET a == fault[t]
           p == page[t]
       IN  \/ \E q \in TableFor(t, a, mem_map) :
                 /\ PutPage(t, a, [page |-> p, rw |-> TRUE, dirty |-> FALSE],
                            q, mem_map)
                 /\ data' = [data EXCEPT ![p] = executable[t]]
                 /\ fault' = [fault EXCEPT ![t] = NULL]
                 /\ page' = [page EXCEPT ![t] = NULL]
                 /\ Resume(t)
                 /\ Rest
           \/ TableFor(t, a, mem_map) = {} /\ Die(t, Freed(mem_map, p))

-----------------------------------------------------------------------------
(***************************************************************************)
(* Writing: un_wp_page() and its callers.                                  *)
(***************************************************************************)
CopyCounts(map, old, new) == Freed(Taken(map, new), old)

\* un_wp_page() of a page that is present and read only; w is where the task
\* goes on.
UnWpPage(t, a, w) ==
    LET old == pte[t][a].page
        Onwards == Goto(t, w) /\ at' = [at EXCEPT ![t] = a]
    IN  \/ /\ mem_map[old] = 1
           /\ pte' = [pte EXCEPT ![t][a].rw = TRUE]
           /\ Onwards
           /\ UNCHANGED <<mem_map, data, dir, load, task_page, executable, exec>>
        \/ \E new \in LastFree(mem_map) :
              /\ mem_map[old] # 1
              /\ pte' = [pte EXCEPT ![t][a] =
                            [page |-> new, rw |-> TRUE, dirty |-> FALSE]]
              /\ mem_map' = CopyCounts(mem_map, old, new)
              /\ data' = [data EXCEPT ![new] = data[old]]
              /\ Onwards
              /\ UNCHANGED <<dir, load, task_page, executable, exec>>
        \/ /\ mem_map[old] # 1 /\ Free = {}
           /\ Die(t, mem_map)

Present(t, a) == pte[t][a] # NULL
Writable(t, a) == Present(t, a) /\ pte[t][a].rw

\* The processor writes, and sets the dirty bit.
Store(t, a) ==
    /\ data' = [data EXCEPT ![pte[t][a].page] = t]
    /\ pte' = [pte EXCEPT ![t][a].dirty = TRUE]
    /\ Goto(t, "user")
    /\ at' = [at EXCEPT ![t] = NULL]
    /\ UNCHANGED <<mem_map, dir, load, task_page, executable, exec>>

UserWrite(t, a) == At(t, "user") /\ Writable(t, a) /\ Store(t, a)

\* do_wp_page(); the instruction is executed again when it returns.
WriteFault(t, a) ==
    /\ At(t, "user")
    /\ Present(t, a) /\ ~Writable(t, a)
    /\ UnWpPage(t, a, "retry")

Retry(t) ==
    /\ At(t, "retry")
    /\ IF Writable(t, at[t]) THEN Store(t, at[t])
                             ELSE UnWpPage(t, at[t], "retry")

\* A program touches a page that is not there.
TouchFault(t, a) == At(t, "user") /\ NoPage(t, a)

\* A system call that will write to user memory: write_verify() gives the
\* task a page of its own, as the kernel's writes are never stopped.
VerifyArea(t, a) ==
    /\ At(t, "user")
    /\ Present(t, a) \/ a >= EndData \/ "absent" \in Windows
    /\ \/ Present(t, a) /\ ~Writable(t, a) /\ UnWpPage(t, a, "write")
       \/ /\ Present(t, a) => Writable(t, a)
          /\ Goto(t, "write")
          /\ at' = [at EXCEPT ![t] = a]
          /\ UNCHANGED <<mem_map, tables, data, load, task_page, executable, exec>>

\* put_fs_byte(): the processor does not look at R/W in the kernel.
KernelWrite(t) ==
    /\ At(t, "write")
    /\ IF Present(t, at[t]) THEN Store(t, at[t]) ELSE NoPage(t, at[t])

\* What try_to_share() takes for a page of the file, and is not.
Stale(t, a) ==
    /\ a < EndData
    /\ Present(t, a) /\ ~pte[t][a].dirty
    /\ data[pte[t][a].page] # executable[t]

\* The file is at its end, or the pipe empty: the call returns and has not
\* written.
NothingToWrite(t) ==
    /\ At(t, "write")
    /\ Stale(t, at[t]) => "unused" \in Windows
    /\ Goto(t, "user")
    /\ at' = [at EXCEPT ![t] = NULL]
    /\ UNCHANGED <<mem_map, tables, data, load, task_page, executable, exec>>

-----------------------------------------------------------------------------
(***************************************************************************)
(* fork(): copy_process(), copy_mem(), copy_page_tables().                 *)
(***************************************************************************)
DirsOf(t) == {d \in Dir : dir[t][d] # NULL}

ReadOnly(e) == IF e = NULL THEN NULL ELSE [e EXCEPT !.rw = FALSE]

Protected(t) == [a \in Addr |-> ReadOnly(pte[t][a])]

\* Mutant: only the child's entries become read only.
EntriesAfterForkOpen(t, u) == [pte EXCEPT ![u] = Protected(t)]

EntriesAfterFork(t, u) == [pte EXCEPT ![t] = Protected(t), ![u] = Protected(t)]

Below(S, n) == {m \in S : m < n}
Above(S, n) == {m \in S : m > n}

\* s: the page for the task structure; q: the pages for the page tables,
\* each the last that is free then.
Fork(t, u) ==
    /\ At(t, "user")
    /\ pc[u] = "free"
    /\ \E s \in LastFree(mem_map) :
          \E q \in Injection(DirsOf(t), Free \ {s}) :
             /\ \A d \in DirsOf(t) :
                   Cardinality(Above(Free \ {s}, q[d])) = Cardinality(Below(DirsOf(t), d))
             /\ mem_map' = [p \in Page |->
                               IF p = s \/ p \in Range(q) THEN 1
                               ELSE mem_map[p] + Cardinality(Entries(t, p))]
             /\ dir' = [dir EXCEPT ![u] = [d \in Dir |-> IF d \in DirsOf(t) THEN q[d]
                                                         ELSE NULL]]
             /\ task_page' = [task_page EXCEPT ![u] = s]
    /\ pte' = EntriesAfterFork(t, u)
    /\ executable' = [executable EXCEPT ![u] = executable[t]]
    /\ pc' = [pc EXCEPT ![u] = "user"]
    /\ UNCHANGED <<data, at, load, exec, running>>

\* The first tables, as many as there are pages for.
Copied(t, n) == {d \in DirsOf(t) : Cardinality(Below(DirsOf(t), d)) < n}

\* copy_page_tables() runs out of memory: what the child has got is freed
\* again, what has been made read only in the parent stays read only.
ForkFails(t, u) ==
    /\ At(t, "user")
    /\ pc[u] = "free"
    /\ Free # {}
    /\ Cardinality(Free) - 1 < Cardinality(DirsOf(t))
    /\ pte' = [pte EXCEPT ![t] =
                  [a \in Addr |-> IF DirOf(a) \in Copied(t, Cardinality(Free) - 1)
                                  THEN ReadOnly(@[a]) ELSE @[a]]]
    /\ UNCHANGED <<mem_map, dir, data, task_page, executable, pc, at, load, exec,
                   running>>

-----------------------------------------------------------------------------
(***************************************************************************)
(* do_execve(), do_exit() and release().                                   *)
(***************************************************************************)
\* copy_strings() takes a page for the arguments.
ExecBegin(t, x) ==
    /\ At(t, "user")
    /\ \E p \in LastFree(mem_map) :
          /\ mem_map' = Taken(mem_map, p)
          /\ data' = [data EXCEPT ![p] = "args"]
          /\ arg' = [arg EXCEPT ![t] = p]
    /\ next' = [next EXCEPT ![t] = x]
    /\ Goto(t, "exec")
    /\ UNCHANGED <<tables, task_page, executable, at, load>>

\* A string of the old program is in a page that is not there.
ExecFault(t, a) ==
    /\ "exec" \in Windows
    /\ At(t, "exec")
    /\ NoPage(t, a)

\* There is no page for more strings: exec_error2.
ExecFails(t) ==
    /\ At(t, "exec")
    /\ Free = {}
    /\ mem_map' = Freed(mem_map, arg[t])
    /\ Contain(data)
    /\ arg' = [arg EXCEPT ![t] = NULL]
    /\ next' = [next EXCEPT ![t] = NULL]
    /\ Goto(t, "user")
    /\ UNCHANGED <<tables, task_page, executable, at, load>>

\* "This is the point of no return": the program is changed, files closed.
ExecCommit(t) ==
    /\ At(t, "exec")
    /\ executable' = [executable EXCEPT ![t] = next[t]]
    /\ next' = [next EXCEPT ![t] = NULL]
    /\ Goto(t, "close")
    /\ UNCHANGED <<mem_map, tables, data, task_page, at, load, arg>>

ExecFrees(map, t) == WithoutTables(map, t)

\* free_page_tables(), change_ldt(), create_tables().  put_page() of the
\* arguments finds a page for its table: the old program had one.
ExecReplace(t) ==
    /\ At(t, "close")
    /\ \E q \in LastFree(ExecFrees(mem_map, t)) :
          /\ mem_map' = Taken(ExecFrees(mem_map, t), q)
          /\ dir' = [dir EXCEPT ![t] = [NoTables EXCEPT ![DirOf(Top)] = q]]
    /\ pte' = [pte EXCEPT ![t] = ArgEntries(arg[t])]
    /\ Contain(data)
    /\ arg' = [arg EXCEPT ![t] = NULL]
    /\ Goto(t, "user")
    /\ UNCHANGED <<task_page, executable, at, load, next>>

Exit(t) == At(t, "user") /\ Die(t, mem_map)

\* release(), called by the father in waitpid(), or in tell_father().
Release(t) ==
    /\ running = NULL
    /\ pc[t] = "zombie"
    /\ mem_map' = Freed(mem_map, task_page[t])
    /\ task_page' = [task_page EXCEPT ![t] = NULL]
    /\ pc' = [pc EXCEPT ![t] = "free"]
    /\ UNCHANGED <<tables, data, executable, at, load, exec, running>>

-----------------------------------------------------------------------------
UserStep(t) ==
    \/ \E a \in Addr : UserWrite(t, a) \/ WriteFault(t, a) \/ TouchFault(t, a)
    \/ Retry(t)
    \/ \E a \in Addr : VerifyArea(t, a)
    \/ KernelWrite(t)
    \/ NothingToWrite(t)
    \/ LoadDone(t)

LifeStep(t) ==
    \/ \E u \in Task : Fork(t, u) \/ ForkFails(t, u)
    \/ \E x \in Program : ExecBegin(t, x)
    \/ \E a \in Addr : ExecFault(t, a)
    \/ ExecFails(t)
    \/ ExecCommit(t)
    \/ ExecReplace(t)
    \/ Exit(t)
    \/ Release(t)

Next == \E t \in Task : UserStep(t) \/ LifeStep(t)

Spec == Init /\ [][Next]_vars

-----------------------------------------------------------------------------
(***************************************************************************)
(* Properties.                                                             *)
(***************************************************************************)
\* What a page is used for, by task t.
Mappings(p) == {m \in Task \X Addr : pte[m[1]][m[2]] # NULL /\ pte[m[1]][m[2]].page = p}
TableUses(p) == {m \in Task \X Dir : dir[m[1]][m[2]] = p}
KernelUses(p) == {t \in Task : p \in {task_page[t], page[t], arg[t]}}

\* mem_map[p] is the number of uses of page p, over fork, sharing, copy on
\* write, execve, exit and every way to run out of memory: no page leaks, and
\* the panic "trying to free free page" is unreachable.
CountsAreUses ==
    \A p \in Page :
        mem_map[p] = Cardinality(Mappings(p)) + Cardinality(TableUses(p))
                        + Cardinality(KernelUses(p))

\* A page that a program can write is mapped once: what has been shared, by
\* fork or by a fault, is read only for all who have it.
WritableIsPrivate ==
    \A t \in Task, a \in Addr :
        Writable(t, a) => Cardinality(Mappings(pte[t][a].page)) = 1

\* The memory a program sees.  A task past the point of no return of execve()
\* has, in effect, the new one.
Untouched(x, a) == IF a < EndData THEN x ELSE "zero"

Seen(t) ==
    IF pc[t] \in Gone THEN NULL
    ELSE [a \in Addr |->
             IF pc[t] = "close" THEN IF a = Top THEN "args"
                                     ELSE Untouched(executable[t], a)
             ELSE IF Present(t, a) THEN data[pte[t][a].page]
             ELSE Untouched(executable[t], a)]

Abstract == INSTANCE AddressSpaces WITH mem <- [t \in Task |-> Seen(t)]

\* Every task has a memory of its own: no program can tell that pages are
\* shared, copied late and loaded on demand.
MemoriesAreSeparate == Abstract!SSpec
=============================================================================
