------------------------------ MODULE Terminal ------------------------------
(***************************************************************************)
(* What the text screen promises whoever writes to it: a grid of lines,    *)
(* with a cursor on one column of one line.  A character appears at the    *)
(* cursor, which moves right and on to the next line; past the last line   *)
(* every line moves up and a blank one appears; a backspace erases and     *)
(* steps back, over the end of the previous line too.                      *)
(***************************************************************************)
EXTENDS Integers, Sequences

CONSTANTS
  Rows, Cols,
  Chars,        \* what can be written: records with a field ch
  Shown(_),     \* the cell a character makes
  Space         \* the blank character

VARIABLES
  grid, row, col,
  fed           \* every character written so far

vars == <<grid, row, col, fed>>

Lines == 0 .. Rows - 1
Columns == 0 .. Cols - 1

Init ==
  /\ \E filler \in {grid[0][0]} : grid = [r \in Lines |-> [k \in Columns |-> filler]]
  /\ row \in Lines
  /\ col \in Columns
  /\ fed = <<>>

\* The cursor goes to the next line of the grid g, which moves up to make one.
LineFeed(g) ==
  IF row < Rows - 1
  THEN row' = row + 1 /\ grid' = g
  ELSE /\ row' = row
       /\ grid' = [r \in Lines |->
                     IF r < Rows - 1 THEN g[r + 1] ELSE [k \in Columns |-> Shown(Space)]]

NewLine(x) == x.ch = "NL" /\ LineFeed(grid) /\ col' = 0

CarriageReturn(x) == x.ch = "CR" /\ col' = 0 /\ UNCHANGED <<grid, row>>

Erase(x) ==
  /\ x.ch = "BS" /\ row + col > 0
  /\ IF col > 0 THEN col' = col - 1 /\ row' = row
     ELSE col' = Cols - 1 /\ row' = row - 1
  /\ grid' = [grid EXCEPT ![row'][col'] = Shown([x EXCEPT !.ch = Space.ch])]

\* There is nothing to erase before the first column of the first line.
EraseNothing(x) == x.ch = "BS" /\ row + col = 0 /\ UNCHANGED <<grid, row, col>>

Glyph(x) ==
  /\ x.ch \notin {"NL", "CR", "BS", "TAB"}
  /\ LET g == [grid EXCEPT ![row][col] = Shown(x)] IN
     IF col < Cols - 1
     THEN grid' = g /\ col' = col + 1 /\ UNCHANGED row
     ELSE col' = 0 /\ LineFeed(g)

Next == \E x \in Chars :
  /\ fed' = Append(fed, x)
  /\ NewLine(x) \/ CarriageReturn(x) \/ Erase(x) \/ EraseNothing(x) \/ Glyph(x)

Spec == Init /\ [][Next]_vars
=============================================================================
