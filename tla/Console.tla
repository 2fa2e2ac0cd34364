------------------------------- MODULE Console -------------------------------
(***************************************************************************)
(* The console: con_write() (kernel/chr_drv/console.c) with its escape     *)
(* sequences, on a display whose window, from origin to scr_end, moves     *)
(* through the memory of the adapter.                                      *)
(*                                                                         *)
(* Memory is counted in cells, of two bytes; attributes are not kept.  One *)
(* character is one step; set_cursor() and the bell are not modelled.      *)
(***************************************************************************)
EXTENDS Naturals, FiniteSets

CONSTANTS LINES, COLS,   \* video_num_lines, video_num_columns
          MEM,           \* cells of video memory
          TAB,           \* the width of a tabulator
          NPAR, MAXPAR,  \* parameters of a sequence, and the largest digit
          COL7, COL8,    \* the columns whose numbers are the codes of 7 and 8
          Glyph, BLANK,
          Inputs         \* the sets of final characters to be explored

ConsoleAssumption ==
    /\ {LINES, COLS, MEM, TAB, NPAR, MAXPAR, COL7, COL8} \subseteq Nat
    /\ LINES > 0 /\ COLS > 0 /\ COLS % 2 = 0
    /\ TAB \in 1..COLS /\ COLS % TAB = 0
    /\ LINES * COLS <= MEM
    /\ NPAR > 1
    /\ BLANK \notin Glyph

VARIABLES video,                      \* video_type: "ega" scrolls the window
          mem, origin, scr_end, pos,  \* the window, and the cell of the cursor
          x, y, top, bottom,
          saved,
          state, npar, par, ques,     \* the escape sequence
          finals                      \* the final characters that are sent

window == <<mem, origin, scr_end, pos>>
region == <<top, bottom>>
parser == <<state, npar, par, ques>>
vars == <<video, window, x, y, region, saved, parser, finals>>

Cell == 0..(MEM - 1)
Digit == 0..MAXPAR
Final == {"A", "B", "C", "D", "E", "F", "G", "H", "J", "K", "L", "M", "P", "@",
          "d", "m", "r", "s", "u"}
Escape == {"E", "M", "D", "Z", "7", "8", "other"}

TypeOK ==
    /\ video \in {"ega", "cga"}
    /\ mem \in [Cell -> Glyph \cup {BLANK}]
    /\ {origin, scr_end, pos} \subseteq 0..MEM
    /\ x \in 0..COLS /\ y \in 0..(LINES - 1)
    /\ top \in 0..LINES /\ bottom \in 0..LINES
    /\ saved \in (0..COLS) \X (0..(LINES - 1))
    /\ state \in 0..3 /\ npar \in 0..(NPAR - 1)
    /\ par \in [0..(NPAR - 1) -> Digit] /\ ques \in BOOLEAN
    /\ finals \in Inputs

NoPar == [i \in 0..(NPAR - 1) |-> 0]

\* con_init(); the cursor is where the boot program left it.
Init ==
    /\ video \in {"ega", "cga"}
    /\ mem = [c \in Cell |-> BLANK]
    /\ origin = 0 /\ scr_end = LINES * COLS
    /\ x \in 0..COLS /\ y \in 0..(LINES - 1)
    /\ pos = y * COLS + x
    /\ top = 0 /\ bottom = LINES
    /\ saved = <<0, 0>>
    /\ state = 0 /\ npar = 0 /\ par = NoPar /\ ques = FALSE
    /\ finals \in Inputs

-----------------------------------------------------------------------------
(***************************************************************************)
(* The window, as a record of what the functions of console.c change.      *)
(***************************************************************************)
Window == [mem |-> mem, org |-> origin, end |-> scr_end, pos |-> pos]

SetWindow(w) ==
    /\ mem' = w.mem /\ origin' = w.org /\ scr_end' = w.end /\ pos' = w.pos

\* Blank cells from c on, and n cells copied from s to d.
Blank(m, c, n) == [i \in Cell |-> IF c <= i /\ i < c + n THEN BLANK ELSE m[i]]
Copy(m, d, s, n) == [i \in Cell |-> IF d <= i /\ i < d + n THEN m[s + (i - d)] ELSE m[i]]

\* Rows t+1 to b-1 move up; b is counted from the window.
MoveUp(w, t, b) ==
    [w EXCEPT !.mem = Blank(Copy(@, w.org + COLS * t, w.org + COLS * (t + 1),
                                 (b - t - 1) * COLS),
                            w.org + COLS * (b - 1), COLS)]

\* Mutant: the window does not go back to the start of the memory.
ScrollOver(w) ==
    [w EXCEPT !.mem = Blank(@, (LINES - 1) * COLS, COLS), !.org = 0, !.end = LINES * COLS,
              !.pos = @ + COLS - (w.org + COLS)]

\* The window has reached the end of the memory: it is copied to the start.
StartOver(w) ==
    LET org == w.org + COLS
    IN  [w EXCEPT !.mem = Blank(Copy(@, 0, org, (LINES - 1) * COLS), (LINES - 1) * COLS, COLS),
                  !.org = 0, !.end = @ + COLS - org, !.pos = @ + COLS - org]

\* scrup()
ScrUp(w, t, b) ==
    IF video = "ega" /\ t = 0 /\ b = LINES
    THEN IF w.end + COLS > MEM THEN StartOver(w)
         ELSE [w EXCEPT !.mem = Blank(@, w.end, COLS), !.org = @ + COLS,
                        !.end = @ + COLS, !.pos = @ + COLS]
    ELSE MoveUp(w, t, b)

\* scrdown()
ScrDown(w, t, b) ==
    [w EXCEPT !.mem = Blank(Copy(@, w.org + COLS * (t + 1), w.org + COLS * t,
                                 (b - t - 1) * COLS),
                            w.org + COLS * t, COLS)]

Repeat(Op(_), w, n) ==
    LET f[k \in 0..n] == IF k = 0 THEN w ELSE Op(f[k - 1])
    IN  f[n]

\* lf() from window w; the column does not matter to it.
LfWindow(w) == IF y + 1 < bottom THEN [w EXCEPT !.pos = @ + COLS] ELSE ScrUp(w, top, bottom)
LfRow == IF y + 1 < bottom THEN y + 1 ELSE y

-----------------------------------------------------------------------------
(***************************************************************************)
(* State 0: characters and controls.                                       *)
(***************************************************************************)
Plain == state = 0 /\ UNCHANGED <<video, region, saved, parser, finals>>

PutGlyph ==
    /\ Plain
    /\ \E ch \in Glyph :
          LET wrap == x >= COLS
              w == IF wrap THEN LfWindow([Window EXCEPT !.pos = @ - COLS]) ELSE Window
          IN  /\ SetWindow([w EXCEPT !.mem[w.pos] = ch, !.pos = @ + 1])
              /\ x' = IF wrap THEN x - COLS + 1 ELSE x + 1
              /\ y' = IF wrap THEN LfRow ELSE y

LineFeed ==
    /\ Plain
    /\ SetWindow(LfWindow(Window)) /\ y' = LfRow /\ UNCHANGED x

CarriageReturn ==
    /\ Plain
    /\ SetWindow([Window EXCEPT !.pos = @ - x]) /\ x' = 0 /\ UNCHANGED y

\* BS
Backspace ==
    /\ Plain /\ x > 0
    /\ SetWindow([Window EXCEPT !.pos = @ - 1]) /\ x' = x - 1 /\ UNCHANGED y

\* ERASE_CHAR: del()
Del ==
    /\ Plain /\ x > 0
    /\ SetWindow([Window EXCEPT !.pos = @ - 1, !.mem[pos - 1] = BLANK])
    /\ x' = x - 1 /\ UNCHANGED y

HorizontalTab ==
    /\ Plain
    /\ LET c == TAB - (x % TAB)
           over == x + c > COLS
           w == [Window EXCEPT !.pos = @ + c]
       IN  /\ SetWindow(IF over THEN LfWindow([w EXCEPT !.pos = @ - COLS]) ELSE w)
           /\ x' = IF over THEN x + c - COLS ELSE x + c
           /\ y' = IF over THEN LfRow ELSE y

Esc ==
    /\ state = 0 /\ state' = 1
    /\ UNCHANGED <<video, window, x, y, region, saved, npar, par, ques, finals>>

-----------------------------------------------------------------------------
(***************************************************************************)
(* State 1: the character behind ESC.                                      *)
(***************************************************************************)
\* gotoxy(), whose arguments are unsigned: what is below zero is too large.
\* "NOTE! gotoxy thinks x==video_num_columns is ok"
GotoXY(ok, nx, ny) ==
    IF ok /\ nx <= COLS /\ ny < LINES
    THEN /\ x' = nx /\ y' = ny
         /\ pos' = origin + ny * COLS + nx
         /\ UNCHANGED <<mem, origin, scr_end>>
    ELSE UNCHANGED <<x, y, window>>

\* ri()
Ri ==
    /\ IF y > top
       THEN SetWindow([Window EXCEPT !.pos = @ - COLS]) /\ y' = y - 1
       ELSE SetWindow(ScrDown(Window, top, bottom)) /\ y' = y
    /\ x' = x

\* It is x that is compared with '7' and '8', and not the character.
SaveOrRestore ==
    IF x = COL7 THEN saved' = <<x, y>> /\ UNCHANGED <<x, y, window>>
    ELSE IF x = COL8 THEN GotoXY(TRUE, saved[1], saved[2]) /\ UNCHANGED saved
    ELSE UNCHANGED <<x, y, window, saved>>

AfterEsc ==
    /\ state = 1 /\ state' = 0
    /\ \E c \in Escape \cap finals :
          CASE c = "E" -> GotoXY(TRUE, 0, y + 1) /\ UNCHANGED saved
            [] c = "M" -> Ri /\ UNCHANGED saved
            [] c = "D" -> SetWindow(LfWindow(Window)) /\ y' = LfRow /\ UNCHANGED <<x, saved>>
            [] c = "Z" -> UNCHANGED <<x, y, window, saved>>
            [] OTHER -> SaveOrRestore
    /\ UNCHANGED <<video, region, npar, par, ques, finals>>

Csi ==
    /\ state = 1 /\ state' = 2
    /\ UNCHANGED <<video, window, x, y, region, saved, npar, par, ques, finals>>

-----------------------------------------------------------------------------
(***************************************************************************)
(* States 2 to 4: parameters and the final character.  The first character *)
(* clears the parameters of the sequence before.                           *)
(***************************************************************************)
P == IF state = 2 THEN NoPar ELSE par
N == IF state = 2 THEN 0 ELSE npar

Question ==
    /\ state = 2 /\ state' = 3
    /\ npar' = 0 /\ par' = NoPar /\ ques' = TRUE
    /\ UNCHANGED <<video, window, x, y, region, saved, finals>>

Semicolon ==
    /\ state \in {2, 3} /\ N < NPAR - 1
    /\ state' = 3 /\ npar' = N + 1 /\ par' = P
    /\ ques' = (state = 3 /\ ques)
    /\ UNCHANGED <<video, window, x, y, region, saved, finals>>

\* Bound: a parameter has one digit.
Number ==
    /\ state \in {2, 3}
    /\ \E d \in Digit \ {0} :
          /\ P[N] = 0
          /\ par' = [P EXCEPT ![N] = d]
    /\ state' = 3 /\ npar' = N
    /\ ques' = (state = 3 /\ ques)
    /\ UNCHANGED <<video, window, x, y, region, saved, finals>>

\* The final character c comes.
Finally(c) ==
    /\ state \in {2, 3} /\ state' = 0 /\ c \in finals
    /\ par' = P /\ npar' = N /\ ques' = (state = 3 /\ ques)
    /\ UNCHANGED <<video, finals>>

AtLeast1(n) == IF n = 0 THEN 1 ELSE n
From0(n) == IF n = 0 THEN 0 ELSE n - 1
AtMost(m, n) == IF n > m THEN m ELSE AtLeast1(n)

MoveCursor ==
    /\ \E c \in {"A", "B", "C", "D", "E", "F", "G", "H", "d"} :
          /\ Finally(c)
          /\ LET n == AtLeast1(P[0])
             IN  CASE c = "A" -> GotoXY(n <= y, x, y - n)
                   [] c = "B" -> GotoXY(TRUE, x, y + n)
                   [] c = "C" -> GotoXY(TRUE, x + n, y)
                   [] c = "D" -> GotoXY(n <= x, x - n, y)
                   [] c = "E" -> GotoXY(TRUE, 0, y + n)
                   [] c = "F" -> GotoXY(n <= y, 0, y - n)
                   [] c = "G" -> GotoXY(TRUE, From0(P[0]), y)
                   [] c = "d" -> GotoXY(TRUE, x, From0(P[0]))
                   [] c = "H" -> GotoXY(TRUE, From0(P[1]), From0(P[0]))
    /\ UNCHANGED <<region, saved>>

Unmoved == UNCHANGED <<x, y, region, saved>>

\* csi_J()
EraseDisplay ==
    /\ Finally("J")
    /\ SetWindow([Window EXCEPT !.mem =
          CASE P[0] = 0 -> Blank(@, pos, scr_end - pos)
            [] P[0] = 1 -> Blank(@, origin, pos - origin)
            [] P[0] = 2 -> Blank(@, origin, COLS * LINES)
            [] OTHER -> @])
    /\ Unmoved

\* csi_K()
EraseLine ==
    /\ Finally("K")
    /\ SetWindow([Window EXCEPT !.mem =
          CASE P[0] = 0 /\ x < COLS -> Blank(@, pos, COLS - x)
            [] P[0] = 1 -> Blank(@, pos - x, x)
            [] P[0] = 2 -> Blank(@, pos - x, COLS)
            [] OTHER -> @])
    /\ Unmoved

\* csi_L(), csi_M(): the region is set for each line, and put back.
InsertLines ==
    /\ Finally("L")
    /\ LET one(w) == ScrDown(w, y, LINES) IN SetWindow(Repeat(one, Window, AtMost(LINES, P[0])))
    /\ Unmoved

DeleteLines ==
    /\ Finally("M")
    /\ LET one(w) == ScrUp(w, y, LINES) IN SetWindow(Repeat(one, Window, AtMost(LINES, P[0])))
    /\ Unmoved

\* insert_char(), delete_char(): from the cursor to the end of the line.
InsertChar(w) ==
    IF x >= COLS THEN w
    ELSE [w EXCEPT !.mem = Blank(Copy(@, pos + 1, pos, COLS - x - 1), pos, 1)]

DeleteChar(w) ==
    IF x >= COLS THEN w
    ELSE [w EXCEPT !.mem = Blank(Copy(@, pos, pos + 1, COLS - x - 1), pos + COLS - x - 1, 1)]

InsertChars ==
    /\ Finally("@")
    /\ SetWindow(Repeat(InsertChar, Window, AtMost(COLS, P[0])))
    /\ Unmoved

DeleteChars ==
    /\ Finally("P")
    /\ SetWindow(Repeat(DeleteChar, Window, AtMost(COLS, P[0])))
    /\ Unmoved

\* r: rows from the first parameter to the second scroll.
SetRegion ==
    /\ Finally("r")
    /\ LET t == From0(P[0])
           b == IF P[1] = 0 THEN LINES ELSE P[1]
       IN  IF t < b /\ b <= LINES THEN top' = t /\ bottom' = b ELSE UNCHANGED region
    /\ UNCHANGED <<window, x, y, saved>>

\* save_cur()
SaveCursor ==
    /\ Finally("s")
    /\ saved' = <<x, y>>
    /\ UNCHANGED <<window, x, y, region>>

\* restore_cur()
RestoreCursor ==
    /\ Finally("u")
    /\ GotoXY(TRUE, saved[1], saved[2])
    /\ UNCHANGED <<region, saved>>

\* m, and characters that end a sequence without meaning.
OtherFinal ==
    /\ Finally("m")
    /\ UNCHANGED <<window, x, y, region, saved>>

Next ==
    \/ PutGlyph \/ LineFeed \/ CarriageReturn \/ Backspace \/ Del \/ HorizontalTab
    \/ Esc \/ AfterEsc \/ Csi \/ Question \/ Semicolon \/ Number
    \/ MoveCursor \/ EraseDisplay \/ EraseLine \/ InsertLines \/ DeleteLines
    \/ InsertChars \/ DeleteChars \/ SetRegion \/ SaveCursor \/ RestoreCursor
    \/ OtherFinal

Spec == Init /\ [][Next]_vars

-----------------------------------------------------------------------------
(***************************************************************************)
(* Properties.                                                             *)
(***************************************************************************)
\* The cell of the cursor is that of its row and column, and the window is
\* whole and in the memory, after all that moves the cursor, the window or
\* both.
CursorIsInWindow ==
    /\ pos = origin + y * COLS + x
    /\ scr_end = origin + LINES * COLS
    /\ scr_end <= MEM
    /\ top < bottom /\ bottom <= LINES

\* The window shows what a screen does that has no memory beyond it.
Shown == INSTANCE Screen WITH
            rows <- [r \in 0..(LINES - 1) |-> [c \in 0..(COLS - 1) |->
                        mem[origin + r * COLS + c]]]

ShowsTheScreen == Shown!Spec

\* ESC 7 saves the position of the cursor, and no other character behind ESC
\* does: the comment of con_write() says so.
EscSavesCursor == [][state = 1 /\ state' = 0 /\ "7" \in finals => saved' = <<x, y>>]_vars
=============================================================================
