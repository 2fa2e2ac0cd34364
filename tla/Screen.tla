------------------------------- MODULE Screen -------------------------------
(***************************************************************************)
(* What the console shows: LINES rows of COLS cells, a cursor, and a region*)
(* of rows that scrolls.  Console, with its window that moves through the  *)
(* memory of the display, implements it.                                   *)
(***************************************************************************)
EXTENDS Naturals

CONSTANTS LINES, COLS, Glyph, BLANK

VARIABLES rows,           \* the cells, rows and columns from 0
          x, y,           \* the cursor; x = COLS when the last cell was written
          top, bottom,    \* the rows from top to bottom - 1 scroll
          saved           \* a cursor

screen == <<rows, x, y, top, bottom, saved>>

Row == 0..(LINES - 1)
Col == 0..(COLS - 1)
BlankRow == [c \in Col |-> BLANK]

Init ==
    /\ rows = [r \in Row |-> BlankRow]
    /\ x \in 0..COLS /\ y \in Row
    /\ top = 0 /\ bottom = LINES
    /\ saved = <<0, 0>>

\* n lines go out at one end of the rows from a to b - 1, and blank ones come
\* in at the other.
Up(a, b, n) ==
    [r \in Row |-> IF r < a \/ r >= b THEN rows[r]
                   ELSE IF r + n < b THEN rows[r + n] ELSE BlankRow]
Down(a, b, n) ==
    [r \in Row |-> IF r < a \/ r >= b THEN rows[r]
                   ELSE IF r >= a + n THEN rows[r - n] ELSE BlankRow]

\* The row that a line feed leads to, and the rows after it.
NextRow == IF y + 1 < bottom THEN y + 1 ELSE y
Fed == IF y + 1 < bottom THEN rows ELSE Up(top, bottom, 1)

Put(rs, r, c, ch) == [rs EXCEPT ![r][c] = ch]

Still == UNCHANGED <<top, bottom, saved>>

PutGlyph ==
    /\ Still
    /\ x' = (IF x = COLS THEN 1 ELSE x + 1)
    /\ y' = (IF x = COLS THEN NextRow ELSE y)
    /\ \E ch \in Glyph :
          rows' = IF x = COLS THEN Put(Fed, NextRow, 0, ch) ELSE Put(rows, y, x, ch)

LineFeed == Still /\ x' = x /\ y' = NextRow /\ rows' = Fed

ReverseLineFeed ==
    /\ Still /\ x' = x
    /\ IF y > top THEN y' = y - 1 /\ rows' = rows
       ELSE y' = y /\ rows' = Down(top, bottom, 1)

\* A tabulator beyond the line goes on in the next.
Tab == Still /\ x' \in 0..COLS /\ y' = NextRow /\ rows' = Fed

Delete ==
    /\ Still /\ x > 0 /\ x' = x - 1 /\ y' = y
    /\ rows' = Put(rows, y, x - 1, BLANK)

Move == Still /\ x' \in 0..COLS /\ y' \in Row /\ rows' = rows

\* What changes cells behind the cursor leaves the cursor alone.
Stay == Still /\ UNCHANGED <<x, y>>

Before(r, c) == r < y \/ (r = y /\ c < x)

\* The display, or the line, up to the cursor, from it on, or whole.
Erase ==
    /\ Stay
    /\ \E line, first, last \in BOOLEAN :
          rows' = [r \in Row |-> [c \in Col |->
                     IF (line => r = y) /\ ((first /\ Before(r, c)) \/ (last /\ ~Before(r, c)))
                     THEN BLANK ELSE rows[r][c]]]

InsertLines == Stay /\ \E n \in 1..LINES : rows' = Down(y, LINES, n)
DeleteLines == Stay /\ \E n \in 1..LINES : rows' = Up(y, LINES, n)

InsertChars ==
    /\ Stay
    /\ \E n \in 1..COLS :
          rows' = [rows EXCEPT ![y] = [c \in Col |->
                     IF c < x THEN @[c] ELSE IF c >= x + n THEN @[c - n] ELSE BLANK]]

DeleteChars ==
    /\ Stay
    /\ \E n \in 1..COLS :
          rows' = [rows EXCEPT ![y] = [c \in Col |->
                     IF c < x THEN @[c] ELSE IF c + n < COLS THEN @[c + n] ELSE BLANK]]

SetRegion ==
    /\ top' \in Row /\ bottom' \in 1..LINES /\ top' < bottom'
    /\ UNCHANGED <<x, y, saved, rows>>

Save == saved' = <<x, y>> /\ UNCHANGED <<x, y, top, bottom, rows>>

Next ==
    \/ PutGlyph \/ LineFeed \/ ReverseLineFeed \/ Tab \/ Delete \/ Move \/ Erase
    \/ InsertLines \/ DeleteLines \/ InsertChars \/ DeleteChars \/ SetRegion
    \/ Save

Spec == Init /\ [][Next]_screen
=============================================================================
