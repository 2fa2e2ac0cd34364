--------------------------- MODULE TerminalOutput ---------------------------
(***************************************************************************)
(* The output of serial lines: tty_write() (kernel/chr_drv/tty_io.c),      *)
(* rs_write() (serial.c), the interrupt write_char (rs_io.s) that sends    *)
(* what is in the queue write_q, and the echo of copy_to_cooked().         *)
(*                                                                         *)
(* Interrupts come between any two steps of a task; a task keeps the       *)
(* processor until it sleeps or calls schedule().                          *)
(***************************************************************************)
EXTENDS Naturals, Sequences, FiniteSets

CONSTANTS Task, Line,
          SIZE,      \* TTY_BUF_SIZE
          ROOM,      \* a writer waits until so much is free
          STARTUP,   \* and is woken when so little is left
          MAXNR,     \* the largest number of characters written
          Regimes,   \* the sets of features to be explored, see Init
          NULL

Feature == {"two_lines",   \* several lines are written to
            "echo",        \* ECHO is set; a key is pressed when there is room
            "echo_any",    \* or at any time
            "flush"}       \* TCFLSH is called

TerminalOutputAssumption ==
    /\ {SIZE, ROOM, STARTUP, MAXNR} \subseteq Nat \ {0}
    /\ STARTUP + ROOM < SIZE
    /\ Regimes \subseteq SUBSET Feature
    /\ NULL \notin Task

VARIABLES on,
          head, tail, buf,    \* write_q of each line
          queued,             \* what it should hold, for the properties
          ier,                \* the transmit interrupt is enabled
          cr_flag,            \* the static variable of tty_write()
          pc, tty, text,      \* tty_write(): the line, what is left to write
          asleep,             \* the tasks that sleep for a line, signalled ones too
          running,            \* the task that has the processor
          last, bare          \* what was put last; a bare line feed was put

queue == <<head, tail, buf, queued, last, bare>>
call == <<pc, tty, text, running>>
vars == <<on, queue, ier, cr_flag, call, asleep>>

Char == {"x", "nl"}
Out == Char \cup {"cr", "echo"}
Mod(n) == n % SIZE

TypeOK ==
    /\ on \in Regimes
    /\ head \in [Line -> 0..(SIZE - 1)] /\ tail \in [Line -> 0..(SIZE - 1)]
    /\ buf \in [Line -> [0..(SIZE - 1) -> Out]]
    /\ queued \in [Line -> Seq(Out)]
    /\ ier \in [Line -> BOOLEAN]
    /\ cr_flag \in BOOLEAN
    /\ pc \in [Task -> {"out", "full", "check", "store", "advance", "start", "wait"}]
    /\ tty \in [Task -> Line] /\ text \in [Task -> Seq(Char)]
    /\ asleep \subseteq Task
    /\ running \in Task \cup {NULL}
    /\ last \in [Line -> Out] /\ bare \in BOOLEAN

Init ==
    /\ on \in Regimes
    /\ head = [l \in Line |-> 0] /\ tail = [l \in Line |-> 0]
    /\ buf = [l \in Line |-> [i \in 0..(SIZE - 1) |-> "x"]]
    /\ queued = [l \in Line |-> <<>>]
    /\ ier = [l \in Line |-> FALSE]
    /\ cr_flag = FALSE
    /\ pc = [t \in Task |-> "out"]
    /\ tty \in [Task -> Line]
    /\ "two_lines" \notin on => \A t, u \in Task : tty[t] = tty[u]
    /\ text = [t \in Task |-> <<>>]
    /\ asleep = {} /\ running = NULL
    /\ last = [l \in Line |-> "x"] /\ bare = FALSE

EMPTY(l) == head[l] = tail[l]
LEFT(l) == Mod(tail[l] + SIZE - head[l] - 1)
FULL(l) == LEFT(l) = 0
CHARS(l) == Mod(head[l] + SIZE - tail[l])

-----------------------------------------------------------------------------
(***************************************************************************)
(* tty_write()                                                             *)
(***************************************************************************)
At(t, p) == pc[t] = p /\ running \in {NULL, t} /\ t \notin asleep

\* The task goes on, and keeps the processor until the call ends.
Goto(t, p) ==
    /\ pc' = [pc EXCEPT ![t] = p]
    /\ running' = IF p = "out" THEN NULL ELSE t

Write(t) ==
    /\ At(t, "out")
    /\ \E s \in UNION {[1..n -> Char] : n \in 1..MAXNR} : text' = [text EXCEPT ![t] = s]
    /\ Goto(t, "full")
    /\ UNCHANGED <<on, queue, ier, cr_flag, tty, asleep>>

\* sleep_if_full(): the queue is looked at, and again with interrupts disabled.
SleepIfFull(t) ==
    /\ At(t, "full")
    /\ Goto(t, IF FULL(tty[t]) THEN "wait" ELSE "check")
    /\ UNCHANGED <<on, queue, ier, cr_flag, tty, text, asleep>>

\* It sleeps until ROOM characters fit.
Wait(t) ==
    /\ At(t, "wait")
    /\ IF LEFT(tty[t]) < ROOM
       THEN asleep' = asleep \cup {t} /\ running' = NULL /\ UNCHANGED pc
       ELSE Goto(t, "check") /\ UNCHANGED asleep
    /\ UNCHANGED <<on, queue, ier, cr_flag, tty, text>>

\* A signal ends the wait, and the call.
Signal(t) ==
    /\ t \in asleep
    /\ asleep' = asleep \ {t}
    /\ pc' = [pc EXCEPT ![t] = "out"]
    /\ text' = [text EXCEPT ![t] = <<>>]
    /\ UNCHANGED <<on, queue, ier, cr_flag, tty, running>>

\* Mutant: the inner loop does not look for room.
CheckUnfilled(t) ==
    /\ At(t, "check")
    /\ Goto(t, IF text[t] = <<>> THEN "start" ELSE "store")
    /\ UNCHANGED <<on, queue, ier, cr_flag, tty, text, asleep>>

\* The inner loop: room for another character.
Check(t) ==
    /\ At(t, "check")
    /\ Goto(t, IF text[t] = <<>> \/ FULL(tty[t]) THEN "start" ELSE "store")
    /\ UNCHANGED <<on, queue, ier, cr_flag, tty, text, asleep>>

\* ONLCR: a line feed is preceded by a carriage return.
NeedsCR(t) == Head(text[t]) = "nl" /\ ~cr_flag

\* PUTCH, the character and then the head.
Store(t) ==
    /\ At(t, "store")
    /\ buf' = [buf EXCEPT ![tty[t]][head[tty[t]]] =
                  IF NeedsCR(t) THEN "cr" ELSE Head(text[t])]
    /\ Goto(t, "advance")
    /\ UNCHANGED <<on, head, tail, queued, last, bare, ier, cr_flag, tty, text, asleep>>

Advance(t) ==
    LET l == tty[t]
        ch == IF NeedsCR(t) THEN "cr" ELSE Head(text[t])
    IN  /\ At(t, "advance")
        /\ head' = [head EXCEPT ![l] = Mod(@ + 1)]
        /\ queued' = [queued EXCEPT ![l] = Append(@, ch)]
        /\ cr_flag' = NeedsCR(t)
        /\ text' = IF NeedsCR(t) THEN text ELSE [text EXCEPT ![t] = Tail(@)]
        /\ last' = [last EXCEPT ![l] = ch]
        /\ bare' = (bare \/ (ch = "nl" /\ last[l] # "cr"))
        /\ Goto(t, "check")
        /\ UNCHANGED <<on, tail, buf, ier, tty, asleep>>

\* rs_write()
EnableTransmit(l) == IF EMPTY(l) THEN ier ELSE [ier EXCEPT ![l] = TRUE]

\* tty->write(), and schedule() when not all has been put.
Start(t) ==
    /\ At(t, "start")
    /\ ier' = EnableTransmit(tty[t])
    /\ pc' = [pc EXCEPT ![t] = IF text[t] = <<>> THEN "out" ELSE "full"]
    /\ running' = NULL
    /\ UNCHANGED <<on, queue, cr_flag, tty, text, asleep>>

-----------------------------------------------------------------------------
(***************************************************************************)
(* Interrupts, and ioctl().                                                *)
(***************************************************************************)
\* wake_up() of the writers of l; SleepWake shows that they all are woken.
WakeWriters(l) == asleep' = {t \in asleep : tty[t] # l}

\* write_char: the writers are woken when little is left, and the interrupt is
\* disabled when nothing is.
Transmit(l) ==
    /\ ier[l]
    /\ IF EMPTY(l) THEN UNCHANGED <<tail, queued>>
       ELSE /\ tail' = [tail EXCEPT ![l] = Mod(@ + 1)]
            /\ queued' = [queued EXCEPT ![l] = IF @ = <<>> THEN @ ELSE Tail(@)]
    /\ ier' = [ier EXCEPT ![l] = tail'[l] # head[l]]
    /\ IF CHARS(l) <= STARTUP THEN WakeWriters(l) ELSE UNCHANGED asleep
    /\ UNCHANGED <<on, head, buf, last, bare, cr_flag, call>>

\* copy_to_cooked() puts the echo whether there is room or not, and between any
\* two steps of tty_write().
Echo(l) ==
    /\ {"echo", "echo_any"} \cap on # {}
    /\ "echo_any" \in on \/ (running = NULL /\ ~FULL(l))
    /\ buf' = [buf EXCEPT ![l][head[l]] = "echo"]
    /\ head' = [head EXCEPT ![l] = Mod(@ + 1)]
    /\ queued' = [queued EXCEPT ![l] = Append(@, "echo")]
    /\ last' = [last EXCEPT ![l] = "echo"]
    /\ ier' = [ier EXCEPT ![l] = head'[l] = tail[l] => @]
    /\ UNCHANGED <<on, tail, bare, cr_flag, call, asleep>>

\* flush() by a task that has the processor.
FlushOutput(l) ==
    /\ "flush" \in on /\ running = NULL
    /\ head' = [head EXCEPT ![l] = tail[l]]
    /\ queued' = [queued EXCEPT ![l] = <<>>]
    /\ UNCHANGED <<on, tail, buf, last, bare, ier, cr_flag, call, asleep>>

Next ==
    \/ \E t \in Task :
          \/ Write(t) \/ SleepIfFull(t) \/ Wait(t) \/ Signal(t) \/ Check(t)
          \/ Store(t) \/ Advance(t) \/ Start(t)
    \/ \E l \in Line : Transmit(l) \/ Echo(l) \/ FlushOutput(l)

Spec == Init /\ [][Next]_vars

\* A task that has the processor runs on, and the line goes on to send.
FairSpec ==
    /\ Spec
    /\ \A t \in Task : WF_vars(SleepIfFull(t) \/ Wait(t) \/ Check(t) \/ Store(t)
                               \/ Advance(t) \/ Start(t))
    /\ \A l \in Line : WF_vars(Transmit(l))

-----------------------------------------------------------------------------
(***************************************************************************)
(* Properties.                                                             *)
(***************************************************************************)
\* What the interrupt will send is what was written, in order.
QueueIsTheOutput ==
    \A l \in Line :
       /\ CHARS(l) = Len(queued[l])
       /\ \A i \in 1..Len(queued[l]) : buf[l][Mod(tail[l] + i - 1)] = queued[l][i]

\* A writer that sleeps will be woken: the transmit interrupt of its line is
\* enabled.
WriterHasHope == \A t \in asleep : ier[tty[t]]

\* Each line feed follows a carriage return of the same line.
NoBareLineFeed == ~bare

\* A call of tty_write() ends.
WritesEnd == \A t \in Task : pc[t] # "out" ~> pc[t] = "out"
=============================================================================
