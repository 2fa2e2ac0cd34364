--------------------------- MODULE AddressSpaces ---------------------------
(***************************************************************************)
(* What programs rely on (fork(), execve() and exit() as a program sees    *)
(* them): every task has a memory of its own.  A write changes the memory  *)
(* of the task that writes and no other; fork gives the child a copy;      *)
(* execve starts from the contents of the file.  The sharing of pages in   *)
(* mm/memory.c, specified in module Memory, must not be visible here.      *)
(***************************************************************************)
EXTENDS Naturals

CONSTANTS Task, Program,
          NR_ADDR,   \* pages of an address space
          EndData,   \* those below come from the file of the program
          NULL

Addr == 0..(NR_ADDR - 1)
Top == NR_ADDR - 1

VARIABLE mem   \* the memory of a task, NULL if there is no such task

\* The contents of a page: of the file of a program, zeroes, the arguments
\* of execve, or what a task has written.
Contents == Program \cup Task \cup {"zero", "args"}

\* A page that has not been touched since the program was started.
Untouched(x, a) == IF a < EndData THEN x ELSE "zero"

Started(x) == [a \in Addr |-> IF a = Top THEN "args" ELSE Untouched(x, a)]

\* One task, that has just been started.
SInit ==
    \E t \in Task, x \in Program :
        mem = [u \in Task |-> IF u = t THEN Started(x) ELSE NULL]

Write(t, a) ==
    /\ mem[t] # NULL
    /\ mem' = [mem EXCEPT ![t][a] = t]

ForkTask(t, u) ==
    /\ mem[t] # NULL /\ mem[u] = NULL
    /\ mem' = [mem EXCEPT ![u] = mem[t]]

Execute(t, x) ==
    /\ mem[t] # NULL
    /\ mem' = [mem EXCEPT ![t] = Started(x)]

End(t) ==
    /\ mem[t] # NULL
    /\ mem' = [mem EXCEPT ![t] = NULL]

SNext ==
    \E t \in Task :
        \/ \E a \in Addr : Write(t, a)
        \/ \E u \in Task : ForkTask(t, u)
        \/ \E x \in Program : Execute(t, x)
        \/ End(t)

SSpec == SInit /\ [][SNext]_mem
=============================================================================
