---------------------------- MODULE TerminalInput ----------------------------
(***************************************************************************)
(* The input of a terminal: the interrupt that receives a character        *)
(* (kernel/chr_drv/rs_io.s), copy_to_cooked(), which edits the line in the *)
(* queue `secondary', and tty_read() with its time-out, which is made of   *)
(* the alarm of the task (kernel/chr_drv/tty_io.c).  flush() and           *)
(* set_termios() are those of tty_ioctl.c.                                 *)
(*                                                                         *)
(* One task reads.  It runs in the kernel with interrupts enabled, so that *)
(* an interrupt comes between any two of its steps; the interrupt itself is*)
(* not interrupted.                                                        *)
(***************************************************************************)
EXTENDS Naturals, Sequences, FiniteSets

CONSTANTS SIZE,      \* TTY_BUF_SIZE, of secondary
          RSIZE,     \* and that of read_q
          MARGIN,    \* an unfinished line is read when no more room is left
          MAXNR,     \* the largest number of characters asked for
          LASTTICK,  \* bound: the clock stops here
          FAR,       \* an alarm that does not go off
          Regimes    \* the sets of features to be explored, see Init

Feature == {"raw",      \* the line is not edited, ICANON is clear
            "modes",    \* other tasks change ICANON while a task reads
            "erase",    \* ERASE and KILL are typed
            "long",     \* more than one character is asked for
            "taken_back",   \* see TakesUnended
            "timeout",  \* VTIME is set and VMIN is not
            "eof",      \* EOF is typed
            "signal",   \* INTR is typed
            "rings"}    \* the task's own alarm goes off

TerminalInputAssumption ==
    /\ {SIZE, RSIZE} \subseteq Nat \ {0, 1} /\ MARGIN \in Nat
    /\ MAXNR \in Nat \ {0}
    /\ LASTTICK \in Nat /\ FAR \in Nat /\ FAR > LASTTICK + 1
    /\ Regimes \subseteq SUBSET Feature

VARIABLES on, canon,
          read_q,                      \* the characters that were received
          head, tail, buf, data,       \* the queue secondary
          line,                        \* what it should hold, for the properties
          intr,                        \* do_tty_interrupt() is running
          pc, nr, got, c, flag, oldalarm,   \* tty_read()
          asleep, signal, alarm, jiffies,
          asked                        \* the alarm that the task has asked for

queue == <<head, tail, buf, data, line>>
call == <<pc, nr, got, c, flag, oldalarm>>
clock == <<signal, alarm, jiffies, asked>>
vars == <<on, canon, read_q, queue, intr, call, asleep, clock>>

Plain == {"x", "nl"}
Char == Plain \cup {"eof", "erase", "kill", "int"}
Mod(n) == n % SIZE

TypeOK ==
    /\ on \in Regimes /\ canon \in BOOLEAN
    /\ read_q \in Seq(Char) /\ Len(read_q) < RSIZE
    /\ head \in 0..(SIZE - 1) /\ tail \in 0..(SIZE - 1)
    /\ buf \in [0..(SIZE - 1) -> Char] /\ data \in Nat
    /\ line \in Seq(Char)
    /\ intr \in BOOLEAN /\ asleep \in BOOLEAN /\ flag \in BOOLEAN
    /\ pc \in {"out", "loop", "take", "count", "after", "end"}
    /\ nr \in 0..MAXNR /\ got \in 0..MAXNR /\ c \in Char
    /\ signal \subseteq {"alarm", "int"}
    /\ {alarm, oldalarm, asked} \subseteq 0..FAR
    /\ jiffies \in 0..LASTTICK

Init ==
    /\ on \in Regimes /\ canon = ("raw" \notin on)
    /\ read_q = <<>> /\ line = <<>>
    /\ head = 0 /\ tail = 0 /\ data = 0
    /\ buf = [i \in 0..(SIZE - 1) |-> "x"]
    /\ intr = FALSE /\ asleep = FALSE
    /\ pc = "out" /\ nr = 0 /\ got = 0 /\ c = "x" /\ flag = FALSE /\ oldalarm = 0
    /\ signal = {} /\ alarm = 0 /\ jiffies = 1 /\ asked = 0

EMPTY == head = tail
LEFT == Mod(tail + SIZE - head - 1)
LAST == buf[Mod(head + SIZE - 1)]

-----------------------------------------------------------------------------
(***************************************************************************)
(* The interrupt.                                                          *)
(***************************************************************************)
Typed ==
    {"x", "nl"}
    \cup (IF "signal" \in on THEN {"int"} ELSE {})
    \cup (IF "erase" \in on THEN {"erase", "kill"} ELSE {})
    \cup (IF "eof" \in on THEN {"eof"} ELSE {})

\* The task has found a line without an end, which it reads as it is when no more
\* than MARGIN is left or when it is in the middle of a read, and is about to take
\* a character.  The interrupt may erase that character now: feature
\* "taken_back".
TakesUnended == pc = "take" /\ canon /\ data = 0

Erases(q) == \E i \in 1..Len(q) : q[i] \in {"erase", "kill"}

\* read_char: what does not fit is dropped.
Receive ==
    /\ ~intr /\ intr' = TRUE
    /\ \E ch \in Typed :
          read_q' = IF Len(read_q) = RSIZE - 1 THEN read_q ELSE Append(read_q, ch)
    /\ TakesUnended /\ Erases(read_q') => "taken_back" \in on
    /\ UNCHANGED <<on, canon, queue, call, asleep, clock>>

\* ERASE and KILL stop at the end of the line before.
AtLineStart == EMPTY \/ LAST \in {"nl", "eof"}

\* Mutant: a line that has been ended is erased as well.
EraseAnything ==
    /\ IF EMPTY THEN UNCHANGED <<head, line>>
       ELSE /\ head' = Mod(head + SIZE - 1)
            /\ line' = SubSeq(line, 1, Len(line) - 1)
    /\ UNCHANGED <<tail, buf, data, signal>>

EraseOne ==
    /\ IF AtLineStart THEN UNCHANGED <<head, line>>
       ELSE /\ head' = Mod(head + SIZE - 1)
            /\ line' = SubSeq(line, 1, Len(line) - 1)
    /\ UNCHANGED <<tail, buf, data, signal>>

\* The loop of KILL, which leaves what ends the line before.
Kill ==
    LET erased(k) == k <= Mod(head + SIZE - tail)
                     /\ \A i \in 1..k : buf[Mod(head + SIZE - i)] \notin {"nl", "eof"}
    IN  /\ \E k \in 0..(SIZE - 1) :
              /\ erased(k) /\ ~erased(k + 1)
              /\ head' = Mod(head + SIZE - k)
              /\ line' = SubSeq(line, 1, Len(line) - k)
        /\ UNCHANGED <<tail, buf, data, signal>>

\* PUTCH into secondary; both ends of line are counted.
Put(ch) ==
    /\ buf' = [buf EXCEPT ![head] = ch]
    /\ head' = Mod(head + 1)
    /\ data' = IF ch \in {"nl", "eof"} THEN data + 1 ELSE data
    /\ line' = Append(line, ch)
    /\ UNCHANGED <<tail, signal>>

\* copy_to_cooked(): one character.  tty_intr() sets the signal and wakes
\* nobody; where the line is not edited, ISIG is clear as well.
Cook ==
    /\ intr /\ read_q # <<>> /\ LEFT # 0
    /\ read_q' = Tail(read_q)
    /\ LET ch == Head(read_q)
       IN  IF canon /\ ch = "kill" THEN Kill
           ELSE IF canon /\ ch = "erase" THEN EraseOne
           ELSE IF canon /\ ch = "int"
           THEN signal' = signal \cup {"int"} /\ UNCHANGED queue
           ELSE Put(ch)
    /\ UNCHANGED <<on, canon, intr, call, asleep, alarm, jiffies, asked>>

\* wake_up() at the end of copy_to_cooked().
Cooked ==
    /\ intr /\ (read_q = <<>> \/ LEFT = 0)
    /\ intr' = FALSE /\ asleep' = FALSE
    /\ UNCHANGED <<on, canon, read_q, queue, call, clock>>

-----------------------------------------------------------------------------
(***************************************************************************)
(* tty_read()                                                              *)
(***************************************************************************)
At(p) == pc = p /\ ~intr /\ ~asleep

Unread == <<on, canon, read_q, intr>>

\* sys_alarm(), before the call.
SetAlarm ==
    /\ At("out") /\ asked = 0 /\ jiffies = 1 /\ on \cap {"timeout", "rings"} # {}
    /\ asked' \in {FAR} \cup (IF "rings" \in on THEN {jiffies + 1} ELSE {})
    /\ alarm' = asked'
    /\ UNCHANGED <<Unread, queue, call, asleep, signal, jiffies>>

VTIME == IF "timeout" \in on THEN 1 ELSE 0
Minimum == 1

\* The alarm of the time-out is set when it comes before the task's own.
Sooner == oldalarm' = 0 \/ VTIME + jiffies < oldalarm'

Read ==
    /\ At("out") /\ signal = {}
    /\ nr' \in 1..(IF "long" \in on THEN MAXNR ELSE 1)
    /\ got' = 0 /\ c' = "x" /\ pc' = "loop"
    /\ oldalarm' = alarm
    /\ flag' = (VTIME # 0 /\ Sooner)
    /\ alarm' = IF flag' THEN VTIME + jiffies ELSE alarm
    /\ UNCHANGED <<Unread, queue, asleep, signal, jiffies, asked>>

\* The head of the loop.  sleep_if_empty() returns at once when characters are
\* there, and the loop goes round until the line is complete.
Loop ==
    /\ At("loop")
    /\ IF flag /\ "alarm" \in signal
       THEN pc' = "end" /\ signal' = signal \ {"alarm"} /\ UNCHANGED asleep
       ELSE IF signal # {} \/ nr = 0
       THEN pc' = "end" /\ UNCHANGED <<signal, asleep>>
       ELSE IF EMPTY \/ (canon /\ data = 0 /\ LEFT > MARGIN)
       THEN asleep' = EMPTY /\ UNCHANGED <<pc, signal>>
       ELSE pc' = "take" /\ UNCHANGED <<signal, asleep>>
    /\ UNCHANGED <<Unread, queue, nr, got, c, flag, oldalarm, alarm, jiffies, asked>>

\* GETCH
Take ==
    /\ At("take")
    /\ c' = buf[tail]
    /\ tail' = Mod(tail + 1)
    /\ line' = IF line = <<>> THEN line ELSE Tail(line)
    /\ pc' = "count"
    /\ UNCHANGED <<Unread, head, buf, data, nr, got, flag, oldalarm, asleep, clock>>

\* What ends a line is counted, and EOF ends the call; the alarm is then left
\* as it is.
Count ==
    /\ At("count")
    /\ data' = IF c \in {"nl", "eof"} THEN data - 1 ELSE data
    /\ IF c = "eof" /\ canon
       THEN pc' = "out" /\ UNCHANGED <<nr, got>>
       ELSE /\ nr' = nr - 1 /\ got' = got + 1
            /\ pc' = IF nr' > 0 /\ ~EMPTY THEN "take" ELSE "after"
    /\ UNCHANGED <<Unread, head, tail, buf, line, c, flag, oldalarm, asleep, clock>>

\* The time-out starts again; the call ends with the line, or with the minimum.
After ==
    /\ At("after")
    /\ IF VTIME # 0 /\ ~canon
       THEN /\ flag' = (oldalarm = 0 \/ VTIME + jiffies < oldalarm)
            /\ alarm' = IF flag' THEN VTIME + jiffies ELSE oldalarm
       ELSE UNCHANGED <<flag, alarm>>
    /\ pc' = IF (canon /\ got > 0) \/ (~canon /\ got >= Minimum) THEN "end" ELSE "loop"
    /\ UNCHANGED <<Unread, queue, nr, got, c, oldalarm, asleep, signal, jiffies, asked>>

\* Mutant: the alarm of the task is not put back.
EndLeavingAlarm ==
    /\ At("end") /\ pc' = "out"
    /\ UNCHANGED <<Unread, queue, nr, got, c, flag, oldalarm, asleep, clock>>

\* The alarm of the task is put back.
End ==
    /\ At("end") /\ pc' = "out"
    /\ alarm' = oldalarm
    /\ UNCHANGED <<Unread, queue, nr, got, c, flag, oldalarm, asleep, signal, jiffies,
                   asked>>

\* The task handles its signals when it is back; its own alarm is then over.
Handle ==
    /\ At("out") /\ signal # {}
    /\ signal' = {}
    /\ asked' = IF "alarm" \in signal THEN 0 ELSE asked
    /\ UNCHANGED <<Unread, queue, call, asleep, alarm, jiffies>>

-----------------------------------------------------------------------------
(***************************************************************************)
(* The clock, schedule(), and other tasks.                                 *)
(***************************************************************************)
Tick ==
    /\ ~intr /\ jiffies < LASTTICK /\ on \cap {"timeout", "rings"} # {}
    /\ jiffies' = jiffies + 1
    /\ UNCHANGED <<on, canon, read_q, queue, intr, call, asleep, signal, alarm, asked>>

\* schedule(): an alarm that is over, and a task with a signal is woken.  It is
\* called while the task sleeps, or when it is not in the kernel.
Schedule ==
    /\ ~intr /\ (asleep \/ pc = "out")
    /\ LET over == alarm # 0 /\ alarm < jiffies
       IN  /\ signal' = IF over THEN signal \cup {"alarm"} ELSE signal
           /\ alarm' = IF over THEN 0 ELSE alarm
           /\ asleep' = (asleep /\ signal' = {})
    /\ UNCHANGED <<on, canon, read_q, queue, intr, call, jiffies, asked>>

\* set_termios() and flush() by another task.
OtherTask == ~intr /\ (asleep \/ pc = "out")

SetMode ==
    /\ OtherTask /\ "modes" \in on
    /\ canon' = ~canon
    /\ UNCHANGED <<on, read_q, queue, intr, call, asleep, clock>>

FlushInput ==
    /\ OtherTask /\ read_q # <<>>
    /\ read_q' = <<>>
    /\ UNCHANGED <<on, canon, queue, intr, call, asleep, clock>>

Next ==
    \/ Receive \/ Cook \/ Cooked
    \/ SetAlarm \/ Read \/ Loop \/ Take \/ Count \/ After \/ End \/ Handle
    \/ Tick \/ Schedule \/ SetMode \/ FlushInput

Spec == Init /\ [][Next]_vars

-----------------------------------------------------------------------------
(***************************************************************************)
(* Properties.                                                             *)
(***************************************************************************)
\* The queue holds what was typed and edited and was not yet read, in order:
\* the reader and the interrupt, which removes characters too, do not pass
\* each other.
QueueIsTheLine ==
    /\ Mod(head + SIZE - tail) = Len(line)
    /\ \A i \in 1..Len(line) : buf[Mod(tail + i - 1)] = line[i]

\* secondary.data is the number of complete lines in the queue, but for the
\* end of line that is being taken out, whatever is erased and however the
\* mode changes.
DataCountsLines ==
    data = Cardinality({i \in 1..Len(line) : line[i] \in {"nl", "eof"}})
           + (IF pc = "count" /\ c \in {"nl", "eof"} THEN 1 ELSE 0)

\* A task does not sleep while a complete line is there for it, or has been
\* received.
NoLineWaits ==
    asleep /\ ~intr => data = 0 /\ "nl" \notin {read_q[i] : i \in 1..Len(read_q)}

\* When tty_read() has returned the alarm is the one that the task has asked
\* for, or the one that has gone off and is not handled yet.
AlarmIsKept ==
    pc = "out" => alarm = (IF "alarm" \in signal THEN 0 ELSE asked)

\* A task that waits for the rest of a line leaves the processor to others.
WaitersSleep ==
    ~(pc = "loop" /\ ~asleep /\ ~intr /\ signal = {} /\ canon /\ ~EMPTY /\ data = 0
      /\ LEFT > MARGIN)
=============================================================================
