------------------------ MODULE ConsoleOutputProofs -------------------------
(***************************************************************************)
(* cons_putc with a screen of any size, any patience with its two ports    *)
(* and any text: crt_pos stays on the screen, a port that has been waited  *)
(* for long enough each time has got every character, in order, and the    *)
(* flat array with its position is a grid of lines with a cursor.          *)
(***************************************************************************)
EXTENDS ConsoleOutput, SequenceTheorems, WellFoundedInduction, TLAPS

-----------------------------------------------------------------------------
(* Lines and columns by division, whatever the width. *)

LEMMA ProductGrows ==
  ASSUME NEW n \in Nat, NEW q \in Int, NEW r \in Int, q >= r
  PROVE  n * q >= n * r
  OBVIOUS

\* Line and column of a position are unique ...
LEMMA PlaceUnique ==
  ASSUME NEW n \in Nat \ {0}, NEW q \in Int, NEW r \in Int,
         NEW m \in 0 .. n - 1, NEW k \in 0 .. n - 1, q * n + m = r * n + k
  PROVE  q = r /\ m = k
<1> DEFINE x == n * q
           y == n * r
<1>1. q * n = x /\ r * n = y
  OBVIOUS
<1>2. n * (r + 1) = y + n /\ n * (q + 1) = x + n /\ x \in Int /\ y \in Int
  OBVIOUS
<1>3. q >= r + 1 => x >= y + n
  BY <1>2, ProductGrows
<1>4. r >= q + 1 => y >= x + n
  BY <1>2, ProductGrows
<1>5. q = r => x = y
  OBVIOUS
<1> HIDE DEF x, y
<1>6. x + m = y + k
  BY <1>1
<1> QED
  BY <1>2, <1>3, <1>4, <1>5, <1>6

\* ... and are what division gives.
LEMMA Division ==
  ASSUME NEW n \in Nat \ {0}, NEW a \in Int
  PROVE  a \div n \in Int /\ a % n \in 0 .. n - 1 /\ a = (a \div n) * n + (a % n)
<1>1. a = n * (a \div n) + (a % n) /\ a % n \in 0 .. n - 1 /\ a \div n \in Int
  OBVIOUS
<1>2. n * (a \div n) = (a \div n) * n
  BY <1>1
<1> QED
  BY <1>1, <1>2

LEMMA PlaceOf ==
  ASSUME NEW n \in Nat \ {0}, NEW q \in Int, NEW m \in 0 .. n - 1
  PROVE  (q * n + m) \div n = q /\ (q * n + m) % n = m
<1> DEFINE a == q * n + m
<1>1. a \in Int
  OBVIOUS
<1>2. a \div n \in Int /\ a % n \in 0 .. n - 1 /\ a = (a \div n) * n + (a % n)
  BY <1>1, Division
<1>3. a = q * n + m
  OBVIOUS
<1> DEFINE d == a \div n
           e == a % n
<1> HIDE DEF d, e
<1>4. d \in Int /\ e \in 0 .. n - 1 /\ d * n + e = q * n + m
  BY <1>2, <1>3 DEF d, e
<1>5. d = q /\ e = m
  BY <1>4, PlaceUnique
<1> QED
  BY <1>5 DEF d, e

-----------------------------------------------------------------------------
(* Characters and cells. *)

Codes == [ch : STRING, high : {"none", "ones"}]
Glyphs == [ch : STRING, attr : {"0x07", "0xFF"}]
Screens == [buf : [Cells -> Glyphs], pos : Cells]

\* The only glyph that cga_putc itself writes.
BlankIsGlyph == {" "} \subseteq STRING

LEMMA CellGlyph == \A x \in Codes : Cell(x) \in Glyphs /\ Cell(x).ch = x.ch
<1> SUFFICES ASSUME NEW x \in Codes PROVE Cell(x) \in Glyphs /\ Cell(x).ch = x.ch
  OBVIOUS
<1> DEFINE attr == IF x.high = "none" THEN "0x07" ELSE "0xFF"
<1>1. attr \in {"0x07", "0xFF"}
  OBVIOUS
<1>2. x.ch \in STRING
  BY DEF Codes
<1>3. Cell(x) = [ch |-> x.ch, attr |-> attr]
  BY DEF Cell
<1> HIDE DEF attr
<1> QED
  BY <1>1, <1>2, <1>3 DEF Glyphs

LEMMA PlainCode == \A ch \in STRING : Plain(ch) \in Codes /\ Plain(ch).ch = ch
  BY DEF Plain, Codes

\* What cons_putc may be given.
Characters == Text \cup {Plain(" ")}

LEMMA Constants ==
  /\ SPIN \in Nat /\ RADIX \in Nat \ {0} /\ MaxPuts \in Nat
  /\ Characters \subseteq Codes /\ BlankIsGlyph /\ Cell(Plain("*")) \in Glyphs
<1>1. /\ SPIN \in Nat /\ RADIX \in Nat \ {0} /\ MaxPuts \in Nat
      /\ Text \subseteq Codes /\ {" ", "*"} \subseteq STRING
  BY ConsoleOutputAssumption DEF Codes
<1>2. Plain(" ") \in Codes /\ Plain("*") \in Codes
  BY <1>1, PlainCode
<1>3. Cell(Plain("*")) \in Glyphs
  BY <1>2, CellGlyph
<1>4. BlankIsGlyph
  BY <1>1 DEF BlankIsGlyph
<1> QED
  BY <1>1, <1>2, <1>3, <1>4 DEF Characters

LEMMA CharacterCode == \A ch \in Characters : ch \in Codes /\ ch.ch \in STRING
<1>1. Characters \subseteq Codes
  BY Constants
<1> QED
  BY <1>1 DEF Codes

LEMMA Digits ==
  \A a \in Nat : [high |-> a \div RADIX, low |-> a % RADIX] \in [high : Nat, low : 0 .. RADIX - 1]
<1> SUFFICES ASSUME NEW a \in Nat PROVE a \div RADIX \in Nat /\ a % RADIX \in 0 .. RADIX - 1
  OBVIOUS
<1> QED
  BY Constants

LEMMA ScreenSize == CRT_SIZE \in Nat /\ CRT_SIZE >= 2 * CRT_COLS /\ CRT_COLS \in Nat /\ CRT_COLS > 0
  BY CrtAssumption DEF CRT_SIZE

-----------------------------------------------------------------------------
(* The screen as lines and columns. *)

Lines == 0 .. CRT_ROWS - 1
Columns == 0 .. CRT_COLS - 1
At(r, k) == r * CRT_COLS + k
Grid(b) == [r \in Lines |-> [k \in Columns |-> b[At(r, k)]]]

LEMMA Dimensions ==
  /\ CRT_ROWS \in Nat /\ CRT_ROWS > 1 /\ CRT_COLS \in Nat \ {0} /\ CRT_SIZE \in Nat
  /\ CRT_SIZE = CRT_ROWS * CRT_COLS
  BY CrtAssumption DEF CRT_SIZE

LEMMA AtLine ==
  ASSUME NEW r \in Int, NEW k \in Int
  PROVE  /\ At(r, k) \in Int /\ At(r + 1, k) = At(r, k) + CRT_COLS
         /\ At(r - 1, k) = At(r, k) - CRT_COLS
         /\ At(r, k + 1) = At(r, k) + 1 /\ At(r, k - 1) = At(r, k) - 1
         /\ At(r, 0) + k = At(r, k)
<1>1. CRT_COLS \in Nat
  BY Dimensions
<1>2. (r + 1) * CRT_COLS = r * CRT_COLS + CRT_COLS /\ (r - 1) * CRT_COLS = r * CRT_COLS - CRT_COLS
  BY <1>1
<1>3. r * CRT_COLS \in Int
  BY <1>1
<1> DEFINE x == r * CRT_COLS
<1> HIDE DEF x
<1>4. x \in Int /\ (r + 1) * CRT_COLS = x + CRT_COLS /\ (r - 1) * CRT_COLS = x - CRT_COLS
  BY <1>2, <1>3 DEF x
<1> QED
  BY <1>1, <1>4 DEF At, x

\* Earlier lines have lower positions.
LEMMA LinesGrow ==
  ASSUME NEW r \in Int, NEW q \in Int, r >= q, NEW k \in Int
  PROVE  At(r, k) >= At(q, k)
<1> DEFINE x == CRT_COLS * r
           y == CRT_COLS * q
<1>1. CRT_COLS \in Nat
  BY Dimensions
<1>2. x >= y
  BY <1>1, ProductGrows
<1>3. r * CRT_COLS = x /\ q * CRT_COLS = y /\ x \in Int /\ y \in Int
  BY <1>1
<1> HIDE DEF x, y
<1> QED
  BY <1>2, <1>3 DEF At

LEMMA Ends == At(0, 0) = 0 /\ At(CRT_ROWS, 0) = CRT_SIZE
  BY Dimensions DEF At

LEMMA AtCell ==
  ASSUME NEW r \in Lines, NEW k \in Columns
  PROVE  At(r, k) \in Cells
<1>1. CRT_ROWS \in Nat /\ CRT_COLS \in Nat \ {0} /\ CRT_SIZE \in Nat
  BY Dimensions
<1>2. r \in Int /\ k \in Int /\ r >= 0 /\ CRT_ROWS - 1 >= r /\ k >= 0 /\ k < CRT_COLS
  BY <1>1 DEF Lines, Columns
<1>3. At(r, k) >= At(0, k) /\ At(CRT_ROWS - 1, k) >= At(r, k)
  BY <1>1, <1>2, LinesGrow
<1>4. At(0, 0) + k = At(0, k) /\ At(CRT_ROWS, 0) + k = At(CRT_ROWS, k)
  BY <1>1, <1>2, AtLine
<1>5. At(CRT_ROWS - 1, k) = At(CRT_ROWS, k) - CRT_COLS /\ At(r, k) \in Int
  BY <1>1, <1>2, AtLine
<1> QED
  BY <1>1, <1>2, <1>3, <1>4, <1>5, Ends DEF Cells

LEMMA AtPlace ==
  ASSUME NEW r \in Int, NEW k \in Columns
  PROVE  At(r, k) \div CRT_COLS = r /\ At(r, k) % CRT_COLS = k
  BY Dimensions, PlaceOf DEF At, Columns

LEMMA AtUnique ==
  ASSUME NEW r \in Int, NEW k \in Columns, NEW q \in Int, NEW j \in Columns, At(r, k) = At(q, j)
  PROVE  r = q /\ k = j
  BY Dimensions, PlaceUnique DEF At, Columns

\* Every position has a line and a column.
LEMMA CellPlace ==
  ASSUME NEW p \in Cells
  PROVE  /\ p \div CRT_COLS \in Lines /\ p % CRT_COLS \in Columns
         /\ p = At(p \div CRT_COLS, p % CRT_COLS)
<1> DEFINE r == p \div CRT_COLS
           k == p % CRT_COLS
<1>1. CRT_ROWS \in Nat /\ CRT_COLS \in Nat \ {0} /\ CRT_SIZE \in Nat
  BY Dimensions
<1>2. p \in Int /\ p >= 0 /\ p < CRT_SIZE
  BY <1>1 DEF Cells
<1>3. r \in Int /\ k \in 0 .. CRT_COLS - 1 /\ p = r * CRT_COLS + k
  BY <1>1, <1>2, Division
<1> HIDE DEF r, k
<1>4. p = At(r, k) /\ k \in Columns
  BY <1>3 DEF At, Columns
<1>5. At(0, 0) + k = At(0, k) /\ At(CRT_ROWS, 0) + k = At(CRT_ROWS, k)
  <2>1. k \in Int /\ CRT_ROWS \in Int /\ 0 \in Int
    BY <1>1, <1>3
  <2> QED
    BY <2>1, AtLine
<1>6. r < CRT_ROWS
  <2>1. r >= CRT_ROWS => At(r, k) >= At(CRT_ROWS, k)
    BY <1>1, <1>3, LinesGrow
  <2> QED
    BY <1>1, <1>2, <1>3, <1>4, <1>5, <2>1, Ends
<1>7. r >= 0
  <2>1. -1 >= r => At(-1, k) >= At(r, k)
    BY <1>1, <1>3, LinesGrow
  <2>2. At(0 - 1, k) = At(0, k) - CRT_COLS
    BY <1>3, AtLine
  <2>3. 0 - 1 = -1
    OBVIOUS
  <2> QED
    BY <1>1, <1>2, <1>3, <1>4, <1>5, <2>1, <2>2, <2>3, Ends
<1>8. r \in Lines
  BY <1>1, <1>3, <1>6, <1>7 DEF Lines
<1> QED
  BY <1>4, <1>8 DEF r, k

-----------------------------------------------------------------------------
(* The switch and the scroll on the grid. *)

\* A byte written is written in one cell of the grid.
LEMMA GridWrite ==
  ASSUME NEW b \in [Cells -> Glyphs], NEW r \in Lines, NEW k \in Columns, NEW v
  PROVE  Grid([b EXCEPT ![At(r, k)] = v]) = [Grid(b) EXCEPT ![r][k] = v]
<1> DEFINE a == At(r, k)
           b2 == [b EXCEPT ![a] = v]
<1>1. ASSUME NEW q \in Lines, NEW j \in Columns
      PROVE  b2[At(q, j)] = IF q = r /\ j = k THEN v ELSE b[At(q, j)]
  <2>1. At(q, j) \in Cells /\ a \in Cells /\ q \in Int /\ r \in Int
    BY AtCell DEF Lines
  <2>2. At(q, j) = a => q = r /\ j = k
    BY <2>1, AtUnique
  <2> HIDE DEF a
  <2>3. b2[At(q, j)] = IF At(q, j) = a THEN v ELSE b[At(q, j)]
    BY <2>1
  <2>4. q = r /\ j = k => At(q, j) = a
    BY DEF a
  <2> QED
    BY <2>2, <2>3, <2>4
<1> HIDE DEF b2, a
<1>2. Grid(b2) = [q \in Lines |-> [j \in Columns |-> IF q = r /\ j = k THEN v ELSE b[At(q, j)]]]
  BY <1>1 DEF Grid
<1>3. [Grid(b) EXCEPT ![r][k] = v] = [q \in Lines |-> [j \in Columns |-> IF q = r /\ j = k THEN v ELSE b[At(q, j)]]]
  BY DEF Grid
<1> QED
  BY <1>2, <1>3 DEF b2, a

\* The memory after memmove and the loop that blanks the last line.
Moved(b) == [q \in Cells |-> IF q < CRT_SIZE - CRT_COLS THEN b[q + CRT_COLS] ELSE Blank]

LEMMA GridMoved ==
  ASSUME NEW b \in [Cells -> Glyphs]
  PROVE  Grid(Moved(b)) =
           [r \in Lines |-> IF r < CRT_ROWS - 1 THEN Grid(b)[r + 1] ELSE [k \in Columns |-> Blank]]
<1>0. CRT_ROWS \in Nat /\ CRT_COLS \in Nat \ {0} /\ CRT_SIZE \in Nat
  BY Dimensions
<1>1. ASSUME NEW r \in Lines, NEW k \in Columns
      PROVE  Moved(b)[At(r, k)] = IF r < CRT_ROWS - 1 THEN b[At(r + 1, k)] ELSE Blank
  <2>1. r \in Int /\ k \in Int /\ r <= CRT_ROWS - 1 /\ 0 <= k /\ k < CRT_COLS /\ CRT_ROWS - 1 \in Int
    BY <1>0 DEF Lines, Columns
  <2>2. At(r, k) \in Cells
    BY AtCell
  <2>3. At(r + 1, k) = At(r, k) + CRT_COLS /\ At(r, k) \in Int
    BY <2>1, AtLine
  <2>4. Moved(b)[At(r, k)] = IF At(r, k) < CRT_SIZE - CRT_COLS THEN b[At(r + 1, k)] ELSE Blank
    BY <2>2, <2>3 DEF Moved
  <2>5. CASE r < CRT_ROWS - 1
    <3>1. r + 1 \in Lines
      BY <1>0, <2>1, <2>5 DEF Lines
    <3>2. At(r + 1, k) \in Cells
      BY <3>1, AtCell
    <3>3. At(r, k) < CRT_SIZE - CRT_COLS
      BY <1>0, <2>3, <3>2 DEF Cells
    <3> QED
      BY <2>4, <2>5, <3>3
  <2>6. CASE ~(r < CRT_ROWS - 1)
    <3>1. r + 1 = CRT_ROWS
      BY <1>0, <2>1, <2>6
    <3>2. At(CRT_ROWS, 0) + k = At(CRT_ROWS, k)
      BY <1>0, <2>1, AtLine
    <3>3. ~(At(r, k) < CRT_SIZE - CRT_COLS)
      BY <1>0, <2>1, <2>3, <3>1, <3>2, Ends
    <3> QED
      BY <2>4, <2>6, <3>3
  <2> QED
    BY <2>5, <2>6
<1>2. ASSUME NEW r \in Lines, r < CRT_ROWS - 1
      PROVE  Grid(b)[r + 1] = [k \in Columns |-> b[At(r + 1, k)]]
  <2>1. r + 1 \in Lines
    BY <1>0, <1>2 DEF Lines
  <2> QED
    BY <2>1 DEF Grid
<1>3. Grid(Moved(b)) =
        [r \in Lines |-> [k \in Columns |-> IF r < CRT_ROWS - 1 THEN b[At(r + 1, k)] ELSE Blank]]
  BY <1>1 DEF Grid
<1>4. ASSUME NEW r \in Lines
      PROVE  [k \in Columns |-> IF r < CRT_ROWS - 1 THEN b[At(r + 1, k)] ELSE Blank]
               = IF r < CRT_ROWS - 1 THEN Grid(b)[r + 1] ELSE [k \in Columns |-> Blank]
  BY <1>2
<1> QED
  BY <1>3, <1>4

\* Terminal's LineFeed, as values.
FedRow(r) == IF r < CRT_ROWS - 1 THEN r + 1 ELSE r
FedGrid(r, g) ==
  IF r < CRT_ROWS - 1 THEN g
  ELSE [q \in Lines |-> IF q < CRT_ROWS - 1 THEN g[q + 1] ELSE [k \in Columns |-> Blank]]

\* The screen s shows the grid g, with the cursor in line r, column k.
Shows(s, g, r, k) ==
  /\ s \in Screens /\ Grid(s.buf) = g
  /\ r \in Lines /\ k \in Columns /\ s.pos = At(r, k)

LEMMA BlankGlyph == BlankIsGlyph => Blank \in Glyphs
<1> SUFFICES ASSUME BlankIsGlyph PROVE Blank \in Glyphs
  OBVIOUS
<1>1. Plain(" ") \in Codes
  BY PlainCode DEF BlankIsGlyph
<1> QED
  BY <1>1, CellGlyph DEF Blank

\* Nothing scrolls as long as the cursor is on the screen ...
LEMMA Unscrolled ==
  ASSUME NEW b \in [Cells -> Glyphs], NEW r \in Lines, NEW k \in Columns
  PROVE  Shows(Scroll([buf |-> b, pos |-> At(r, k)]), Grid(b), r, k)
<1>1. At(r, k) \in Cells /\ CRT_SIZE \in Nat
  BY AtCell, Dimensions
<1>2. ~(At(r, k) >= CRT_SIZE)
  BY <1>1 DEF Cells
<1>3. Scroll([buf |-> b, pos |-> At(r, k)]) = [buf |-> b, pos |-> At(r, k)]
  BY <1>2 DEF Scroll
<1>4. [buf |-> b, pos |-> At(r, k)] \in Screens
  BY <1>1 DEF Screens
<1> QED
  BY <1>3, <1>4 DEF Shows

\* ... and past its last line all lines move up.
LEMMA LineFed ==
  ASSUME BlankIsGlyph, NEW b \in [Cells -> Glyphs], NEW r \in Lines
  PROVE  Shows(Scroll([buf |-> b, pos |-> At(r + 1, 0)]), FedGrid(r, Grid(b)), FedRow(r), 0)
<1>0. CRT_ROWS \in Nat /\ CRT_ROWS > 1 /\ CRT_COLS \in Nat \ {0} /\ CRT_SIZE \in Nat
  BY Dimensions
<1>1. 0 \in Columns /\ r \in Int /\ r <= CRT_ROWS - 1 /\ r >= 0
  BY <1>0 DEF Columns, Lines
<1>2. CASE r < CRT_ROWS - 1
  <2>1. r + 1 \in Lines
    BY <1>0, <1>1, <1>2 DEF Lines
  <2> QED
    BY <1>1, <1>2, <2>1, Unscrolled DEF FedGrid, FedRow
<1>3. CASE ~(r < CRT_ROWS - 1)
  <2>1. r + 1 = CRT_ROWS
    BY <1>0, <1>1, <1>3
  <2>2. At(r + 1, 0) = CRT_SIZE /\ At(r, 0) = CRT_SIZE - CRT_COLS
    <3>1. At(r + 1, 0) = At(r, 0) + CRT_COLS /\ At(r, 0) \in Int
      BY <1>1, AtLine
    <3> QED
      BY <1>0, <2>1, <3>1, Ends
  <2>3. Scroll([buf |-> b, pos |-> At(r + 1, 0)]) = [buf |-> Moved(b), pos |-> At(r, 0)]
    BY <1>0, <2>2 DEF Scroll, Moved
  <2>4. Moved(b) \in [Cells -> Glyphs]
    <3>1. ASSUME NEW q \in Cells, q < CRT_SIZE - CRT_COLS PROVE b[q + CRT_COLS] \in Glyphs
      BY <1>0, <3>1 DEF Cells
    <3> QED
      BY <3>1, BlankGlyph DEF Moved
  <2>5. At(r, 0) \in Cells
    BY <1>1, AtCell
  <2>6. [buf |-> Moved(b), pos |-> At(r, 0)] \in Screens
    BY <2>4, <2>5 DEF Screens
  <2>7. Grid(Moved(b)) = FedGrid(r, Grid(b))
    BY <1>3, GridMoved DEF FedGrid
  <2> QED
    BY <1>1, <1>3, <2>3, <2>6, <2>7 DEF Shows, FedRow
<1> QED
  BY <1>2, <1>3

-----------------------------------------------------------------------------
\* What Terminal says of a character x, as a relation between the grid and the cursor
\* before and after it.
Moves(x, g, r, k, g2, r2, k2) ==
  \/ x.ch = "NL" /\ r2 = FedRow(r) /\ g2 = FedGrid(r, g) /\ k2 = 0
  \/ x.ch = "CR" /\ k2 = 0 /\ g2 = g /\ r2 = r
  \/ /\ x.ch = "BS" /\ r + k > 0
     /\ IF k > 0 THEN k2 = k - 1 /\ r2 = r ELSE k2 = CRT_COLS - 1 /\ r2 = r - 1
     /\ g2 = [g EXCEPT ![r2][k2] = Cell([x EXCEPT !.ch = " "])]
  \/ x.ch = "BS" /\ r + k = 0 /\ g2 = g /\ r2 = r /\ k2 = k
  \/ /\ x.ch \notin {"NL", "CR", "BS", "TAB"}
     /\ LET h == [g EXCEPT ![r][k] = Cell(x)] IN
        IF k < CRT_COLS - 1 THEN g2 = h /\ k2 = k + 1 /\ r2 = r
        ELSE k2 = 0 /\ r2 = FedRow(r) /\ g2 = FedGrid(r, h)

LEMMA ScreenPlace ==
  ASSUME NEW s \in Screens
  PROVE  /\ s.buf \in [Cells -> Glyphs] /\ s = [buf |-> s.buf, pos |-> s.pos]
         /\ Shows(s, Grid(s.buf), s.pos \div CRT_COLS, s.pos % CRT_COLS)
<1>1. s.buf \in [Cells -> Glyphs] /\ s.pos \in Cells /\ s = [buf |-> s.buf, pos |-> s.pos]
  BY DEF Screens
<1> QED
  BY <1>1, CellPlace DEF Shows

LEMMA ReturnTo ==
  ASSUME NEW b, NEW r \in Int, NEW k \in Columns
  PROVE  Return([buf |-> b, pos |-> At(r, k)]) = [buf |-> b, pos |-> At(r, 0)]
<1>1. At(r, k) % CRT_COLS = k
  BY AtPlace
<1>2. At(r, 0) + k = At(r, k) /\ At(r, 0) \in Int /\ k \in Int
  <2>1. k \in Int /\ 0 \in Int
    BY Dimensions DEF Columns
  <2> QED
    BY <2>1, AtLine
<1>3. At(r, k) - k = At(r, 0)
  BY <1>2
<1> QED
  BY <1>1, <1>3 DEF Return

LEMMA PutcMoves ==
  ASSUME BlankIsGlyph, NEW x \in Codes, x.ch # "TAB",
         NEW s \in Screens, NEW r \in Lines, NEW k \in Columns, s.pos = At(r, k)
  PROVE  \E g2, r2, k2 :
           Moves(x, Grid(s.buf), r, k, g2, r2, k2) /\ Shows(cga_putc(s, x), g2, r2, k2)
<1> DEFINE b == s.buf
           g == Grid(b)
           t == cga_putc(s, x)
<1>0. /\ CRT_ROWS \in Nat /\ CRT_ROWS > 1 /\ CRT_COLS \in Nat \ {0}
      /\ r \in Int /\ r >= 0 /\ r <= CRT_ROWS - 1 /\ k \in Int /\ k >= 0 /\ k <= CRT_COLS - 1
      /\ 0 \in Columns
  BY Dimensions DEF Lines, Columns
<1>1. b \in [Cells -> Glyphs] /\ s = [buf |-> b, pos |-> At(r, k)] /\ At(r, k) \in Cells
  BY AtCell DEF Screens
<1>2. CASE x.ch = "NL"
  <2>1. At(r + 1, k) = At(r, k) + CRT_COLS /\ r + 1 \in Int
    BY <1>0, AtLine
  <2>2. [s EXCEPT !.pos = @ + CRT_COLS] = [buf |-> b, pos |-> At(r + 1, k)]
    BY <1>1, <2>1
  <2>3. Return([buf |-> b, pos |-> At(r + 1, k)]) = [buf |-> b, pos |-> At(r + 1, 0)]
    BY <2>1, ReturnTo
  <2>4. t = Scroll([buf |-> b, pos |-> At(r + 1, 0)])
    BY <1>2, <2>2, <2>3 DEF cga_putc, Switch, Newline
  <2>5. Shows(t, FedGrid(r, g), FedRow(r), 0)
    BY <1>1, <2>4, LineFed
  <2>6. Moves(x, g, r, k, FedGrid(r, g), FedRow(r), 0)
    BY <1>2 DEF Moves
  <2> QED
    BY <2>5, <2>6
<1>3. CASE x.ch = "CR"
  <2>1. Return(s) = [buf |-> b, pos |-> At(r, 0)]
    BY <1>0, <1>1, ReturnTo
  <2>2. t = Scroll([buf |-> b, pos |-> At(r, 0)])
    BY <1>3, <2>1 DEF cga_putc, Switch
  <2>3. Shows(t, g, r, 0)
    BY <1>0, <1>1, <2>2, Unscrolled
  <2>4. Moves(x, g, r, k, g, r, 0)
    BY <1>3 DEF Moves
  <2> QED
    BY <2>3, <2>4
<1>4. CASE x.ch = "BS"
  <2>1. At(r, 0) + k = At(r, k) /\ At(0, 0) = 0 /\ At(r, 0) \in Int
    BY <1>0, AtLine, Ends
  <2>2. r > 0 => At(r, 0) > 0
    <3> SUFFICES ASSUME r > 0 PROVE At(r, 0) > 0
      OBVIOUS
    <3>1. r - 1 \in Int /\ r - 1 >= 0
      BY <1>0
    <3>2. At(r - 1, 0) >= At(0, 0) /\ At(r - 1, 0) = At(r, 0) - CRT_COLS
      BY <1>0, <3>1, AtLine, LinesGrow
    <3> QED
      BY <1>0, <2>1, <3>2
  <2>3. s.pos > 0 <=> r + k > 0
    <3>1. r = 0 => At(r, 0) = 0
      BY <2>1
    <3> QED
      BY <1>0, <2>1, <2>2, <3>1
  <2>4. CASE r + k > 0
    <3> DEFINE v == Cell([x EXCEPT !.ch = " "])
               r2 == IF k > 0 THEN r ELSE r - 1
               k2 == IF k > 0 THEN k - 1 ELSE CRT_COLS - 1
    <3>1. r2 \in Lines /\ k2 \in Columns
      BY <1>0, <2>4 DEF Lines, Columns
    <3>2. s.pos - 1 = At(r2, k2)
      <4>1. k > 0 => At(r, k - 1) = At(r, k) - 1
        BY <1>0, AtLine
      <4>2. k = 0 => At(r - 1, CRT_COLS - 1) = At(r, k) - 1
        <5>1. At(r - 1, 0) = At(r, 0) - CRT_COLS
          BY <1>0, AtLine
        <5>2. At(r - 1, 0) + (CRT_COLS - 1) = At(r - 1, CRT_COLS - 1)
          <6>1. r - 1 \in Int /\ CRT_COLS - 1 \in Int
            BY <1>0
          <6> QED
            BY <6>1, AtLine
        <5> QED
          BY <1>0, <2>1, <5>1, <5>2
      <4> QED
        BY <1>0, <4>1, <4>2
    <3>3. v \in Glyphs
      <4>1. [x EXCEPT !.ch = " "] \in Codes
        BY DEF Codes, BlankIsGlyph
      <4> QED
        BY <4>1, CellGlyph
    <3>4. Moves(x, g, r, k, [g EXCEPT ![r2][k2] = v], r2, k2)
      BY <1>4, <1>0, <2>4 DEF Moves
    <3> HIDE DEF v, r2, k2
    <3> DEFINE b2 == [b EXCEPT ![At(r2, k2)] = v]
    <3>5. b2 \in [Cells -> Glyphs] /\ Grid(b2) = [g EXCEPT ![r2][k2] = v]
      <4>1. b2 \in [Cells -> Glyphs]
        BY <1>1, <3>3
      <4>2. Grid([b EXCEPT ![At(r2, k2)] = v]) = [Grid(b) EXCEPT ![r2][k2] = v]
        BY <1>1, <3>1, GridWrite
      <4> QED
        BY <4>1, <4>2
    <3>6. Switch(s, x) = [buf |-> b2, pos |-> At(r2, k2)]
      BY <1>4, <2>3, <2>4, <3>2 DEF Switch, Backspace, v
    <3> HIDE DEF b2
    <3>7. Shows(t, Grid(b2), r2, k2)
      BY <3>1, <3>5, <3>6, Unscrolled DEF cga_putc
    <3> QED
      BY <3>4, <3>5, <3>7
  <2>5. CASE ~(r + k > 0)
    <3>1. r + k = 0 /\ ~(s.pos > 0)
      BY <1>0, <2>3, <2>5
    <3>2. t = Scroll([buf |-> b, pos |-> At(r, k)])
      BY <1>1, <1>4, <3>1 DEF cga_putc, Switch, Backspace
    <3>3. Shows(t, g, r, k)
      BY <1>1, <3>2, Unscrolled
    <3>4. Moves(x, g, r, k, g, r, k)
      BY <1>4, <3>1 DEF Moves
    <3> QED
      BY <3>3, <3>4
  <2> QED
    BY <2>4, <2>5
<1>5. CASE x.ch \notin {"BS", "NL", "CR"}
  <2> DEFINE v == Cell(x)
             h == [g EXCEPT ![r][k] = v]
             b2 == [b EXCEPT ![At(r, k)] = v]
  <2>1. v \in Glyphs
    BY CellGlyph
  <2>2. b2 \in [Cells -> Glyphs] /\ Grid(b2) = h
    BY <1>1, <2>1, GridWrite
  <2>3. t = Scroll([buf |-> b2, pos |-> At(r, k) + 1])
    BY <1>1, <1>5 DEF cga_putc, Switch, Write
  <2> HIDE DEF b2
  <2>4. CASE k < CRT_COLS - 1
    <3>1. k + 1 \in Columns /\ At(r, k + 1) = At(r, k) + 1
      BY <1>0, <2>4, AtLine DEF Columns
    <3>2. Shows(t, h, r, k + 1)
      BY <2>2, <2>3, <3>1, Unscrolled
    <3>3. Moves(x, g, r, k, h, r, k + 1)
      BY <1>5, <2>4 DEF Moves
    <3> QED
      BY <3>2, <3>3
  <2>5. CASE ~(k < CRT_COLS - 1)
    <3>1. At(r + 1, 0) = At(r, k) + 1
      <4>1. At(r + 1, 0) = At(r, 0) + CRT_COLS /\ At(r, 0) + k = At(r, k) /\ At(r, 0) \in Int
        BY <1>0, AtLine
      <4> QED
        BY <1>0, <2>5, <4>1
    <3>2. Shows(t, FedGrid(r, h), FedRow(r), 0)
      BY <2>2, <2>3, <3>1, LineFed
    <3>3. Moves(x, g, r, k, FedGrid(r, h), FedRow(r), 0)
      BY <1>5, <2>5 DEF Moves
    <3> QED
      BY <3>2, <3>3
  <2> QED
    BY <2>4, <2>5
<1> QED
  BY <1>2, <1>3, <1>4, <1>5

\* Whatever character is put, the cursor stays on the screen.
LEMMA PutcScreen ==
  ASSUME BlankIsGlyph, NEW s \in Screens, NEW x \in Codes, x.ch # "TAB"
  PROVE  cga_putc(s, x) \in Screens
<1> DEFINE r == s.pos \div CRT_COLS
           k == s.pos % CRT_COLS
<1>1. r \in Lines /\ k \in Columns /\ s.pos = At(r, k)
  BY ScreenPlace DEF Shows
<1> HIDE DEF r, k
<1> QED
  BY <1>1, PutcMoves DEF Shows

LEMMA OnScreenUnscrolled == \A s \in Screens : Scroll(s) = s
<1> SUFFICES ASSUME NEW s \in Screens PROVE Scroll(s) = s
  OBVIOUS
<1>1. ~(s.pos >= CRT_SIZE)
  BY ScreenSize DEF Screens, Cells
<1> QED
  BY <1>1 DEF Scroll

-----------------------------------------------------------------------------
(* Types. *)

DeviceTypes ==
  /\ serial_exists \in BOOLEAN /\ printer \in BOOLEAN
  /\ thr = <<>> \/ \E ch \in Characters : thr = <<ch.ch>>
  /\ scr \in Screens
  /\ cursor \in [high : Nat, low : 0 .. RADIX - 1]

KernelTypes ==
  /\ pc \in {"idle", "serial", "lpt", "cga", "tab"}
  /\ c \in Characters /\ i \in 0 .. SPIN /\ spaces \in 0 .. 5

HistoryTypes ==
  /\ gaveUp \subseteq {"serial", "lpt"} /\ puts \in 0 .. MaxPuts
  /\ given \in Seq(Characters)

Types == DeviceTypes /\ KernelTypes /\ HistoryTypes

LEMMA InitTypes == Init => Types
<1> SUFFICES ASSUME Init PROVE Types
  OBVIOUS
<1>1. scr \in Screens
  BY Constants DEF Init, Screens
<1>2. cursor \in [high : Nat, low : 0 .. RADIX - 1]
  <2>1. cursor \in [high : 0 .. CRT_SIZE \div RADIX, low : 0 .. RADIX - 1]
    BY DEF Init
  <2> QED
    BY <2>1
<1>3. /\ serial_exists \in BOOLEAN /\ printer \in BOOLEAN /\ thr = <<>>
      /\ pc = "idle" /\ c = Plain(" ") /\ i = 0 /\ spaces = 0
      /\ given = <<>> /\ gaveUp = {} /\ puts = 0
  BY DEF Init
<1>4. DeviceTypes
  BY <1>1, <1>2, <1>3 DEF DeviceTypes
<1>5. 0 \in 0 .. SPIN /\ 0 \in 0 .. MaxPuts
  BY Constants
<1>6. KernelTypes
  <2>1. Plain(" ") \in Characters
    BY DEF Characters
  <2>2. c \in Characters
    BY <1>3, <2>1
  <2>3. i \in 0 .. SPIN
    BY <1>3, <1>5
  <2>4. spaces \in 0 .. 5
    <3>1. 0 \in 0 .. 5
      OBVIOUS
    <3> QED
      BY <1>3, <3>1
  <2> QED
    BY <1>3, <2>2, <2>3, <2>4 DEF KernelTypes
<1>7. HistoryTypes
  <2>1. given \in Seq(Characters)
    BY <1>3, EmptySeq
  <2>2. puts \in 0 .. MaxPuts
    BY <1>3, <1>5
  <2> QED
    BY <1>3, <2>1, <2>2 DEF HistoryTypes
<1> QED
  BY <1>4, <1>6, <1>7 DEF Types

\* Whatever cga_putc leaves, the cursor registers can show.
LEMMA CursorMoves ==
  ASSUME scr' \in Screens, MoveCursor(scr')
  PROVE  cursor' \in [high : Nat, low : 0 .. RADIX - 1]
<1>1. scr'.pos \in Nat
  BY ScreenSize DEF Screens, Cells
<1>2. cursor' = [high |-> scr'.pos \div RADIX, low |-> scr'.pos % RADIX]
  BY DEF MoveCursor
<1> QED
  BY <1>1, <1>2, Digits

\* A call of cons_putc.
LEMMA CallTypes ==
  ASSUME Types, NEW ch \in Characters, cons_putc(ch), spaces' \in 0 .. 5
  PROVE  KernelTypes' /\ given' \in Seq(Characters)
<1>1. given \in Seq(Characters)
  BY DEF Types, HistoryTypes
<1>2. 0 \in 0 .. SPIN
  BY Constants
<1> QED
  BY <1>1, <1>2 DEF cons_putc, KernelTypes

LEMMA StepTypes == Types /\ [Next]_vars => Types'
<1> SUFFICES ASSUME Types, [Next]_vars PROVE Types'
  OBVIOUS
<1> USE DEF Types
<1>0. 0 \in 0 .. SPIN /\ SPIN \in Nat /\ MaxPuts \in Nat /\ BlankIsGlyph
  BY Constants
<1>1. CASE UartSends
  BY <1>1 DEF UartSends, kernel, DeviceTypes, KernelTypes, HistoryTypes
<1>2. CASE PrinterChanges
  BY <1>2 DEF PrinterChanges, kernel, histories, DeviceTypes, KernelTypes, HistoryTypes
<1>3. ASSUME NEW ch \in Text, cputchar(ch) PROVE Types'
  <2>1. ch \in Characters
    BY DEF Characters
  <2>2. spaces' \in 0 .. 5 /\ cons_putc(ch)
    BY <1>3 DEF cputchar, KernelTypes
  <2>3. KernelTypes' /\ given' \in Seq(Characters)
    BY <2>1, <2>2, CallTypes
  <2>4. puts' \in 0 .. MaxPuts
    BY <1>0, <1>3 DEF cputchar, HistoryTypes
  <2> QED
    BY <1>3, <2>3, <2>4 DEF cputchar, devices, DeviceTypes, HistoryTypes
<1>4. CASE SerialPoll \/ LptPoll
  <2>1. i' \in 0 .. SPIN
    BY <1>0, <1>4 DEF SerialPoll, LptPoll, KernelTypes
  <2> QED
    BY <1>4, <2>1 DEF SerialPoll, LptPoll, devices, histories, DeviceTypes, KernelTypes, HistoryTypes
<1>5. CASE SerialWrite
  <2>1. thr' = <<>> \/ thr' = <<c.ch>>
    BY <1>5 DEF SerialWrite
  <2>2. DeviceTypes'
    BY <1>5, <2>1 DEF SerialWrite, DeviceTypes, KernelTypes
  <2>3. KernelTypes'
    BY <1>0, <1>5 DEF SerialWrite, KernelTypes
  <2> QED
    BY <1>5, <2>2, <2>3 DEF SerialWrite, HistoryTypes
<1>6. CASE LptWrite
  <2>1. KernelTypes'
    BY <1>0, <1>6 DEF LptWrite, KernelTypes
  <2> QED
    BY <1>6, <2>1 DEF LptWrite, devices, DeviceTypes, HistoryTypes
<1>7. CASE CgaChar
  <2>1. scr' \in Screens
    BY <1>0, <1>7, CharacterCode, PutcScreen DEF CgaChar, DeviceTypes, KernelTypes
  <2>2. DeviceTypes'
    BY <1>7, <2>1, CursorMoves DEF CgaChar, DeviceTypes
  <2>3. KernelTypes' /\ given' \in Seq(Characters)
    <3>1. CASE spaces > 1
      <4>1. cons_putc(c) /\ spaces' \in 0 .. 5
        BY <1>7, <3>1 DEF CgaChar, KernelTypes
      <4> QED
        BY <4>1, CallTypes DEF KernelTypes
    <3>2. CASE ~(spaces > 1)
      <4>1. pc' \in {"tab", "idle"} /\ spaces' = 0 /\ UNCHANGED <<c, i, given>>
        BY <1>7, <3>2 DEF CgaChar
      <4> QED
        BY <4>1 DEF KernelTypes, HistoryTypes
    <3> QED
      BY <3>1, <3>2
  <2> QED
    BY <1>7, <2>2, <2>3 DEF CgaChar, HistoryTypes
<1>8. CASE CgaTab
  <2> DEFINE blank == Plain(" ")
  <2>1. cons_putc(blank) /\ spaces' = 5 /\ blank \in Characters
    BY <1>8 DEF CgaTab, Characters
  <2> HIDE DEF blank
  <2>2. KernelTypes' /\ given' \in Seq(Characters)
    BY <2>1, CallTypes
  <2> QED
    BY <1>8, <2>2 DEF CgaTab, devices, DeviceTypes, HistoryTypes
<1>9. CASE CgaTabReturn
  <2>1. scr' \in Screens
    <3>1. scr \in Screens /\ scr' = Scroll(scr)
      BY <1>9 DEF CgaTabReturn, DeviceTypes
    <3>2. Scroll(scr) = scr
      BY <3>1, OnScreenUnscrolled
    <3> QED
      BY <3>1, <3>2
  <2>2. DeviceTypes'
    BY <1>9, <2>1, CursorMoves DEF CgaTabReturn, DeviceTypes
  <2> QED
    BY <1>9, <2>2 DEF CgaTabReturn, histories, KernelTypes, HistoryTypes
<1>10. CASE UNCHANGED vars
  BY <1>10 DEF vars, devices, kernel, histories, DeviceTypes, KernelTypes, HistoryTypes
<1> QED
  BY <1>1, <1>2, <1>3, <1>4, <1>5, <1>6, <1>7, <1>8, <1>9, <1>10 DEF Next, Devices, ConsPutc

\* crt_pos is a position on the screen whenever a character is written there, however tabs,
\* newlines and backspaces follow each other, and the 6845 can show it.
THEOREM OutputTypeCorrect == Spec => []TypeOK
<1>1. Types => TypeOK
  BY DEF Types, DeviceTypes, KernelTypes, HistoryTypes, TypeOK, Screens, Glyphs, Characters
<1> QED
  BY <1>1, InitTypes, StepTypes, PTL DEF Spec
-----------------------------------------------------------------------------
(* What the two ports have got. *)

ByteSeq(g, n) == [k \in 1 .. n |-> g[k].ch]

LEMMA ByteSeqIsSeq ==
  ASSUME NEW g \in Seq(Characters), NEW n \in 0 .. Len(g)
  PROVE  ByteSeq(g, n) \in Seq(STRING) /\ Len(ByteSeq(g, n)) = n
<1>1. \A k \in 1 .. n : g[k] \in Characters
  OBVIOUS
<1>2. \A k \in 1 .. n : g[k].ch \in STRING
  BY <1>1, CharacterCode
<1>3. n \in Nat
  OBVIOUS
<1>4. ByteSeq(g, n) \in [1 .. n -> STRING]
  BY <1>2 DEF ByteSeq
<1> QED
  BY <1>3, <1>4

\* A call of cons_putc leaves the earlier bytes what they are ...
LEMMA CallKeepsBytes ==
  ASSUME NEW g \in Seq(Characters), NEW ch \in Characters
  PROVE  /\ Append(g, ch) \in Seq(Characters) /\ Append(g, ch) # <<>>
         /\ Append(g, ch)[Len(Append(g, ch))] = ch
         /\ ByteSeq(Append(g, ch), Len(Append(g, ch)) - 1) = ByteSeq(g, Len(g))
<1> DEFINE h == Append(g, ch)
<1>1. /\ h \in Seq(Characters) /\ h # <<>> /\ Len(h) = Len(g) + 1
      /\ \A k \in 1 .. Len(g) : h[k] = g[k]
      /\ h[Len(g) + 1] = ch
  BY AppendProperties
<1> HIDE DEF h
<1>2. Len(h) - 1 = Len(g)
  BY <1>1
<1>3. ByteSeq(h, Len(g)) = ByteSeq(g, Len(g))
  BY <1>1 DEF ByteSeq
<1> QED
  BY <1>1, <1>2, <1>3 DEF h

LEMMA AppendLast ==
  ASSUME NEW S, NEW s \in Seq(S), NEW t \in Seq(S), NEW b, t # <<>>, Len(s) = Len(t) - 1,
         \A k \in 1 .. Len(s) : s[k] = t[k], t[Len(t)] = b
  PROVE  Append(s, b) = t
<1>1. Len(t) \in Nat \ {0}
  BY EmptySeq
<1>2. b \in S
  BY <1>1
<1>3. /\ Append(s, b) \in Seq(S) /\ Len(Append(s, b)) = Len(t)
      /\ \A k \in 1 .. Len(s) : Append(s, b)[k] = s[k]
      /\ Append(s, b)[Len(t)] = b
  BY <1>1, <1>2
<1>4. \A k \in 1 .. Len(t) : Append(s, b)[k] = t[k]
  BY <1>1, <1>3
<1> QED
  BY <1>3, <1>4, SeqEqual

\* ... and the byte it adds is the next one a port is to get.
LEMMA LastByte ==
  ASSUME NEW g \in Seq(Characters), g # <<>>
  PROVE  Append(ByteSeq(g, Len(g) - 1), g[Len(g)].ch) = ByteSeq(g, Len(g))
<1> DEFINE n == Len(g)
           s == ByteSeq(g, n - 1)
           t == ByteSeq(g, n)
           b == g[n].ch
<1>1. n \in Nat \ {0}
  BY EmptySeq
<1>2. s \in Seq(STRING) /\ Len(s) = n - 1 /\ t \in Seq(STRING) /\ Len(t) = n
  BY <1>1, ByteSeqIsSeq
<1>3. g[n] \in Characters
  BY <1>1
<1>4. b \in STRING
  BY <1>3, CharacterCode
<1>5. \A k \in 1 .. n - 1 : s[k] = t[k]
  BY <1>1 DEF ByteSeq
<1>6. t[n] = b
  BY <1>1 DEF ByteSeq
<1> HIDE DEF s, t, b, n
<1>7. t # <<>> /\ Len(s) = Len(t) - 1 /\ t[Len(t)] = b /\ \A k \in 1 .. Len(s) : s[k] = t[k]
  BY <1>1, <1>2, <1>5, <1>6
<1>8. Append(s, b) = t
  BY <1>2, <1>7, AppendLast
<1> QED
  BY <1>8 DEF s, t, b, n

\* PortsKeepAll with what makes it inductive: the character in cons_putc's hands
\* is the last one it was called with.
Ports ==
  /\ line \in Seq(STRING) /\ paper \in Seq(STRING)
  /\ pc \in {"serial", "lpt", "cga"} => given # <<>> /\ given[Len(given)] = c
  /\ serial_exists /\ "serial" \notin gaveUp =>
       line \o thr = ByteSeq(given, IF pc = "serial" THEN Len(given) - 1 ELSE Len(given))
  /\ "lpt" \notin gaveUp =>
       paper = ByteSeq(given, IF pc \in {"serial", "lpt"} THEN Len(given) - 1 ELSE Len(given))

LEMMA InitPorts == Init => Ports
<1> SUFFICES ASSUME Init PROVE Ports
  OBVIOUS
<1>1. line = <<>> /\ paper = <<>> /\ thr = <<>> /\ given = <<>> /\ pc = "idle"
  BY DEF Init
<1>2. <<>> \in Seq(STRING) /\ <<>> \in Seq(Characters) /\ Len(<<>>) = 0
  BY EmptySeq
<1>3. ByteSeq(<<>>, 0) = <<>>
  <2>1. ByteSeq(<<>>, 0) \in Seq(STRING) /\ Len(ByteSeq(<<>>, 0)) = 0
    <3>1. 0 \in 0 .. Len(<<>>)
      BY <1>2
    <3> QED
      BY ONLY <1>2, <3>1, ByteSeqIsSeq
  <2> QED
    BY <2>1, EmptySeq
<1>4. <<>> \o <<>> = <<>>
  BY <1>2, ConcatEmptySeq
<1> QED
  BY <1>1, <1>2, <1>3, <1>4 DEF Ports

\* A call of cons_putc, from where nothing waits for a port any more.
LEMMA CallPorts ==
  ASSUME Types, Ports, NEW ch \in Characters, cons_putc(ch), pc \in {"idle", "cga"},
         UNCHANGED <<line, paper, thr, serial_exists, gaveUp>>
  PROVE  Ports'
<1>1. given \in Seq(Characters)
  BY DEF Types, HistoryTypes
<1>2. given' = Append(given, ch) /\ pc' = "serial" /\ c' = ch
  BY DEF cons_putc
<1>3. /\ given' # <<>> /\ given'[Len(given')] = c'
      /\ ByteSeq(given', Len(given') - 1) = ByteSeq(given, Len(given))
  BY <1>1, <1>2, CallKeepsBytes
<1>4. /\ line \in Seq(STRING) /\ paper \in Seq(STRING)
      /\ serial_exists /\ "serial" \notin gaveUp => line \o thr = ByteSeq(given, Len(given))
      /\ "lpt" \notin gaveUp => paper = ByteSeq(given, Len(given))
  BY DEF Ports
<1> QED
  BY <1>2, <1>3, <1>4 DEF Ports

LEMMA StepPorts == Types /\ Ports /\ [Next]_vars => Ports'
<1> SUFFICES ASSUME Types, Ports, [Next]_vars PROVE Ports'
  OBVIOUS
<1>1. /\ given \in Seq(Characters) /\ line \in Seq(STRING) /\ paper \in Seq(STRING)
      /\ c \in Characters /\ c.ch \in STRING
      /\ thr = <<>> \/ \E ch \in Characters : thr = <<ch.ch>>
  BY CharacterCode DEF Types, DeviceTypes, KernelTypes, HistoryTypes, Ports
<1>2. CASE UartSends
  <2>1. thr \in Seq(STRING)
    <3>1. CASE thr = <<>>
      BY <3>1, EmptySeq
    <3>2. ASSUME NEW ch \in Characters, thr = <<ch.ch>> PROVE thr \in Seq(STRING)
      <4>1. ch.ch \in STRING
        BY CharacterCode
      <4> QED
        BY <3>2, <4>1
    <3> QED
      BY <1>1, <3>1, <3>2
  <2>2. line \o thr \in Seq(STRING)
    BY <1>1, <2>1
  <2>3. line' \o thr' = line \o thr
    BY <1>2, <2>2, ConcatEmptySeq DEF UartSends
  <2> QED
    BY <1>2, <2>2, <2>3 DEF UartSends, kernel, Ports
<1>3. CASE PrinterChanges
  BY <1>3 DEF PrinterChanges, kernel, histories, Ports
<1>4. ASSUME NEW ch \in Text, cputchar(ch) PROVE Ports'
  <2>1. ch \in Characters
    BY DEF Characters
  <2>2. cons_putc(ch) /\ pc = "idle" /\ UNCHANGED <<line, paper, thr, serial_exists, gaveUp>>
    BY <1>4 DEF cputchar, devices
  <2> QED
    BY <2>1, <2>2, CallPorts
<1>5. CASE SerialPoll \/ LptPoll
  <2>1. UNCHANGED <<pc, c, thr, serial_exists, line, paper, given, gaveUp>>
    BY <1>5 DEF SerialPoll, LptPoll, devices, histories
  <2> QED
    BY <2>1 DEF Ports
<1>6. CASE SerialWrite
  <2>1. given # <<>> /\ given[Len(given)] = c
    BY <1>6 DEF SerialWrite, Ports
  <2>2. serial_exists' /\ "serial" \notin gaveUp' => line' \o thr' = ByteSeq(given', Len(given'))
    <3> SUFFICES ASSUME serial_exists', "serial" \notin gaveUp'
                 PROVE  line' \o thr' = ByteSeq(given', Len(given'))
      OBVIOUS
    <3>1. /\ serial_exists /\ "serial" \notin gaveUp /\ thr = <<>>
          /\ thr' = <<c.ch>> /\ line' = line /\ given' = given /\ pc = "serial"
      BY <1>6 DEF SerialWrite, TxReady
    <3>2. line \o thr = ByteSeq(given, Len(given) - 1)
      BY <3>1 DEF Ports
    <3>3. line = ByteSeq(given, Len(given) - 1)
      BY <1>1, <3>1, <3>2, ConcatEmptySeq
    <3>4. line \o <<c.ch>> = Append(line, c.ch)
      BY <1>1, AppendIsConcat
    <3> QED
      BY <1>1, <2>1, <3>1, <3>3, <3>4, LastByte
  <2> QED
    BY <1>6, <2>1, <2>2 DEF SerialWrite, Ports
<1>7. CASE LptWrite
  <2>1. given # <<>> /\ given[Len(given)] = c
    BY <1>7 DEF LptWrite, Ports
  <2>2. paper' \in Seq(STRING)
    BY <1>1, <1>7, AppendProperties DEF LptWrite
  <2>3. "lpt" \notin gaveUp' => paper' = ByteSeq(given', Len(given'))
    <3> SUFFICES ASSUME "lpt" \notin gaveUp' PROVE paper' = ByteSeq(given', Len(given'))
      OBVIOUS
    <3>1. /\ "lpt" \notin gaveUp /\ pc = "lpt"
          /\ paper' = Append(paper, c.ch) /\ given' = given
      BY <1>7 DEF LptWrite
    <3>2. paper = ByteSeq(given, Len(given) - 1)
      BY <3>1 DEF Ports
    <3> QED
      BY <1>1, <2>1, <3>1, <3>2, LastByte
  <2> QED
    BY <1>7, <2>1, <2>2, <2>3 DEF LptWrite, devices, Ports
<1>8. CASE CgaChar
  <2>1. pc = "cga" /\ UNCHANGED <<line, paper, thr, serial_exists, gaveUp>>
    BY <1>8 DEF CgaChar
  <2>2. CASE spaces > 1
    <3>1. cons_putc(c)
      BY <1>8, <2>2 DEF CgaChar
    <3> QED
      BY <1>1, <2>1, <3>1, CallPorts
  <2>3. CASE ~(spaces > 1)
    <3>1. pc' \in {"tab", "idle"} /\ given' = given
      BY <1>8, <2>3 DEF CgaChar
    <3> QED
      BY <2>1, <3>1 DEF Ports
  <2> QED
    BY <2>2, <2>3
<1>9. CASE CgaTab
  <2> DEFINE blank == Plain(" ")
  <2>1. blank \in Characters
    BY DEF Characters
  <2>2. cons_putc(blank) /\ pc = "cga" /\ UNCHANGED <<line, paper, thr, serial_exists, gaveUp>>
    BY <1>9 DEF CgaTab, devices
  <2> HIDE DEF blank
  <2> QED
    BY <2>1, <2>2, CallPorts
<1>10. CASE CgaTabReturn
  BY <1>10 DEF CgaTabReturn, histories, Ports
<1>11. CASE UNCHANGED vars
  BY <1>11 DEF vars, devices, kernel, histories, Ports
<1> QED
  BY <1>2, <1>3, <1>4, <1>5, <1>6, <1>7, <1>8, <1>9, <1>10, <1>11 DEF Next, Devices, ConsPutc

\* As long as no wait for a port has run out, the serial line and the printer have got
\* exactly what cons_putc was given, in order: for a tab too, whose five spaces come from
\* inside cga_putc, and however often the printer goes away and comes back.
THEOREM PortsCorrect == Spec => []PortsKeepAll
<1>1. Ports => PortsKeepAll
  BY DEF Ports, PortsKeepAll, SerialKeepsAll, PaperKeepsAll, Bytes, ByteSeq
<1> QED
  BY <1>1, InitTypes, InitPorts, StepTypes, StepPorts, PTL DEF Spec

-----------------------------------------------------------------------------
(* What has been given to the screen: LessTabs is a recursion over the characters given. *)

LEMMA NaturalInduction ==
  ASSUME NEW T, 0 \in T, \A n \in Nat : n \in T => n + 1 \in T
  PROVE  Nat \subseteq T
<1> SUFFICES ASSUME Nat \ T # {} PROVE FALSE
  OBVIOUS
<1>1. \E x \in Nat \ T : \A y \in Nat \ T : ~ (<<y, x>> \in OpToRel(<, Nat))
  <2>1. Nat \ T \subseteq Nat
    OBVIOUS
  <2> QED
    BY <2>1, NatLessThanWellFounded, WFMin
<1>2. PICK x \in Nat \ T : \A y \in Nat \ T : ~ (<<y, x>> \in OpToRel(<, Nat))
  BY <1>1
<1>3. x # 0 /\ x - 1 \in Nat
  OBVIOUS
<1>4. x - 1 \in Nat \ T
  BY <1>3
<1>5. <<x - 1, x>> \in OpToRel(<, Nat)
  BY <1>3 DEF OpToRel
<1> QED
  BY <1>2, <1>4, <1>5

Added(s, v, n) == IF s[n].ch = "TAB" THEN v ELSE Append(v, s[n])

\* f is the recursion of LessTabs up to m.
Filters(f, s, m) == f = [n \in 0 .. m |-> IF n = 0 THEN <<>> ELSE Added(s, f[n - 1], n)]

LEMMA FilterExists == \A s : \A m \in Nat : \E f : Filters(f, s, m)
<1> TAKE s
<1> DEFINE T == {m \in Nat : \E f : Filters(f, s, m)}
<1>1. 0 \in T
  <2>1. Filters([n \in 0 .. 0 |-> <<>>], s, 0)
    BY DEF Filters
  <2> QED
    BY <2>1
<1>2. ASSUME NEW m \in Nat, m \in T PROVE m + 1 \in T
  <2>1. PICK f : Filters(f, s, m)
    BY <1>2
  <2> DEFINE g == [n \in 0 .. m + 1 |-> IF n <= m THEN f[n] ELSE Added(s, f[m], m + 1)]
  <2>2. ASSUME NEW n \in 0 .. m + 1 
        PROVE  g[n] = IF n = 0 THEN <<>> ELSE Added(s, g[n - 1], n)
    <3>1. CASE n = 0
      BY <2>1, <3>1 DEF Filters
    <3>2. CASE n \in 1 .. m
      <4>1. g[n] = f[n] /\ g[n - 1] = f[n - 1]
        BY <3>2
      <4>2. f[n] = Added(s, f[n - 1], n)
        BY <2>1, <3>2 DEF Filters
      <4> QED
        BY <3>2, <4>1, <4>2
    <3>3. CASE n = m + 1
      <4>1. g[n] = Added(s, f[m], m + 1) /\ g[n - 1] = f[m]
        BY <3>3
      <4> QED
        BY <3>3, <4>1
    <3> QED
      BY <3>1, <3>2, <3>3
  <2>3. Filters(g, s, m + 1)
    BY <2>2 DEF Filters
  <2> QED
    BY <2>3
<1> HIDE DEF T
<1>3. Nat \subseteq T
  BY <1>1, <1>2, NaturalInduction
<1> QED
  BY <1>3 DEF T

LEMMA LessTabsFilters == \A s : Len(s) \in Nat => Filters(LessTabs(s), s, Len(s))
<1> SUFFICES ASSUME NEW s, Len(s) \in Nat PROVE Filters(LessTabs(s), s, Len(s))
  OBVIOUS
<1>1. LessTabs(s) = CHOOSE f : Filters(f, s, Len(s))
  BY DEF LessTabs, Filters, Added
<1>2. \E f : Filters(f, s, Len(s))
  BY FilterExists
<1> QED
  BY <1>1, <1>2

\* It depends on nothing but the characters before.
LEMMA LessTabsSame ==
  ASSUME NEW s, NEW t, Len(s) \in Nat, Len(t) \in Nat, Len(s) <= Len(t),
         \A n \in 1 .. Len(s) : s[n] = t[n]
  PROVE  \A n \in 0 .. Len(s) : LessTabs(s)[n] = LessTabs(t)[n]
<1> DEFINE f == LessTabs(s)
           g == LessTabs(t)
           T == {n \in Nat : n <= Len(s) => f[n] = g[n]}
<1>1. Filters(f, s, Len(s)) /\ Filters(g, t, Len(t))
  BY LessTabsFilters
<1> HIDE DEF f, g
<1>2. 0 \in T
  BY <1>1 DEF Filters
<1>3. ASSUME NEW n \in Nat, n \in T PROVE n + 1 \in T
  <2> SUFFICES ASSUME n + 1 <= Len(s) PROVE f[n + 1] = g[n + 1]
    OBVIOUS
  <2>1. /\ f[n] = g[n] /\ s[n + 1] = t[n + 1]
        /\ n + 1 \in 0 .. Len(s) /\ n + 1 \in 0 .. Len(t) /\ (n + 1) - 1 = n
    BY <1>3
  <2>2. f[n + 1] = Added(s, f[n], n + 1) /\ g[n + 1] = Added(t, g[n], n + 1)
    BY <1>1, <2>1 DEF Filters
  <2> QED
    BY <2>1, <2>2 DEF Added
<1> HIDE DEF T
<1>4. Nat \subseteq T
  BY <1>2, <1>3, NaturalInduction
<1> QED
  BY <1>4 DEF T, f, g

LEMMA LessTabsAppend ==
  ASSUME NEW S, NEW s \in Seq(S), NEW e \in S
  PROVE  \A n \in 0 .. Len(s) : LessTabs(Append(s, e))[n] = LessTabs(s)[n]
<1> DEFINE t == Append(s, e)
<1>1. Len(s) \in Nat /\ Len(t) = Len(s) + 1 /\ \A n \in 1 .. Len(s) : s[n] = t[n]
  BY AppendProperties
<1>2. Len(t) \in Nat /\ Len(s) <= Len(t)
  BY <1>1
<1> HIDE DEF t
<1>3. \A n \in 0 .. Len(s) : LessTabs(s)[n] = LessTabs(t)[n]
  BY <1>1, <1>2, LessTabsSame
<1> QED
  BY <1>3 DEF t

LEMMA LessTabsLast ==
  ASSUME NEW S, NEW s \in Seq(S), s # <<>>
  PROVE  LessTabs(s)[Len(s)] =
           IF s[Len(s)].ch = "TAB" THEN LessTabs(s)[Len(s) - 1]
           ELSE Append(LessTabs(s)[Len(s) - 1], s[Len(s)])
<1> DEFINE f == LessTabs(s)
           l == Len(s)
<1>1. l \in Nat \ {0}
  BY EmptySeq
<1>2. Filters(f, s, l)
  BY <1>1, LessTabsFilters
<1> HIDE DEF f, l
<1>3. f[l] = Added(s, f[l - 1], l)
  BY <1>1, <1>2 DEF Filters
<1> QED
  BY <1>3 DEF Added, f, l

-----------------------------------------------------------------------------
(* The screen is a terminal. *)

Row == CursorPos(cursor) \div CRT_COLS
Col == CursorPos(cursor) % CRT_COLS
TermGrid == [r \in 0 .. CRT_ROWS - 1 |-> [k \in 0 .. CRT_COLS - 1 |-> scr.buf[r * CRT_COLS + k]]]

\* The registers of the 6845 hold crt_pos.
CursorShown == CursorPos(cursor) = scr.pos

LEMMA MoveShows ==
  ASSUME scr' \in Screens, MoveCursor(scr')
  PROVE  CursorShown'
<1>1. scr'.pos \in Int /\ RADIX \in Nat \ {0}
  BY ScreenSize, Constants DEF Screens, Cells
<1> DEFINE p == scr'.pos
<1>2. p = (p \div RADIX) * RADIX + (p % RADIX)
  BY <1>1, Division
<1>3. cursor' = [high |-> p \div RADIX, low |-> p % RADIX]
  BY DEF MoveCursor
<1> QED
  BY <1>2, <1>3 DEF CursorShown, CursorPos

LEMMA StepCursor == Types /\ Types' /\ CursorShown /\ [Next]_vars => CursorShown'
<1> SUFFICES ASSUME Types', CursorShown, [Next]_vars PROVE CursorShown'
  OBVIOUS
<1>1. CASE CgaChar \/ CgaTabReturn
  BY <1>1, MoveShows DEF CgaChar, CgaTabReturn, Types, DeviceTypes
<1>2. CASE UNCHANGED <<scr, cursor>>
  BY <1>2 DEF CursorShown, CursorPos
<1>3. CASE UartSends \/ PrinterChanges \/ SerialPoll \/ SerialWrite \/ LptPoll \/ LptWrite \/ CgaTab \/ UNCHANGED vars
  BY <1>2, <1>3 DEF UartSends, PrinterChanges, SerialPoll, SerialWrite, LptPoll, LptWrite, CgaTab, devices, vars
<1>4. ASSUME NEW ch \in Text, cputchar(ch) PROVE CursorShown'
  BY <1>2, <1>4 DEF cputchar, devices
<1> QED
  BY <1>1, <1>3, <1>4 DEF Next, Devices, ConsPutc

\* A character that is put on the screen is a step of the terminal.
LEMMA TerminalPuts ==
  ASSUME Types, CursorShown, CursorShown', NEW x, x = c, x.ch # "TAB", scr' = cga_putc(scr, x),
         OnScreen' = Append(OnScreen, x)
  PROVE  Term!Next
<1> DEFINE r == scr.pos \div CRT_COLS
           k == scr.pos % CRT_COLS
<1>1. scr \in Screens /\ x \in Codes /\ BlankIsGlyph /\ x \in Text \cup {Plain(" ")}
  BY CharacterCode, Constants DEF Types, DeviceTypes, KernelTypes, Characters
<1>2. r \in Lines /\ k \in Columns /\ scr.pos = At(r, k)
  BY <1>1, ScreenPlace DEF Shows
<1>3. Row = r /\ Col = k /\ TermGrid = Grid(scr.buf)
  BY DEF Row, Col, CursorShown, TermGrid, Grid, Lines, Columns, At
<1> HIDE DEF r, k
<1>4. PICK g2, r2, k2 : Moves(x, Grid(scr.buf), r, k, g2, r2, k2) /\ Shows(cga_putc(scr, x), g2, r2, k2)
  BY <1>1, <1>2, PutcMoves
<1>5. Grid(scr'.buf) = g2 /\ r2 \in Lines /\ k2 \in Columns /\ scr'.pos = At(r2, k2)
  BY <1>4 DEF Shows
<1>6. TermGrid' = g2
  BY <1>5 DEF TermGrid, Grid, Lines, Columns, At
<1>7. Row' = r2 /\ Col' = k2
  <2>1. scr'.pos \div CRT_COLS = r2 /\ scr'.pos % CRT_COLS = k2
    BY <1>5, AtPlace, Dimensions DEF Lines
  <2> QED
    BY <2>1 DEF Row, Col, CursorShown
<1>8. Moves(x, TermGrid, Row, Col, TermGrid', Row', Col')
  BY <1>3, <1>4, <1>6, <1>7
<1>9. Plain(" ").ch = " " /\ Cell(Plain(" ")) = Blank
  BY DEF Plain, Blank
<1>10. \/ Term!NewLine(x) \/ Term!CarriageReturn(x) \/ Term!Erase(x) \/ Term!EraseNothing(x)
       \/ Term!Glyph(x)
  <2>1. CASE x.ch = "NL" /\ Row' = FedRow(Row) /\ TermGrid' = FedGrid(Row, TermGrid) /\ Col' = 0
    <3>1. Term!LineFeed(TermGrid)
      <4>1. CASE Row < CRT_ROWS - 1
        BY <2>1, <4>1 DEF Term!LineFeed, FedRow, FedGrid, Row, TermGrid
      <4>2. CASE ~(Row < CRT_ROWS - 1)
        BY <2>1, <4>2, <1>9 DEF Term!LineFeed, Term!Lines, Term!Columns, FedRow, FedGrid, Row, TermGrid, Lines, Columns
      <4> QED
        BY <4>1, <4>2
    <3> QED
      BY <2>1, <3>1 DEF Term!NewLine, TermGrid, Col
  <2>2. CASE x.ch = "CR" /\ Col' = 0 /\ TermGrid' = TermGrid /\ Row' = Row
    BY <2>2 DEF Term!CarriageReturn, Row, Col, TermGrid
  <2>3. CASE /\ x.ch = "BS" /\ Row + Col > 0
             /\ IF Col > 0 THEN Col' = Col - 1 /\ Row' = Row ELSE Col' = CRT_COLS - 1 /\ Row' = Row - 1
             /\ TermGrid' = [TermGrid EXCEPT ![Row'][Col'] = Cell([x EXCEPT !.ch = " "])]
    BY <2>3, <1>9 DEF Term!Erase, Row, Col, TermGrid
  <2>4. CASE x.ch = "BS" /\ Row + Col = 0 /\ TermGrid' = TermGrid /\ Row' = Row /\ Col' = Col
    BY <2>4 DEF Term!EraseNothing, Row, Col, TermGrid
  <2>5. CASE /\ x.ch \notin {"NL", "CR", "BS", "TAB"}
             /\ LET h == [TermGrid EXCEPT ![Row][Col] = Cell(x)] IN
                IF Col < CRT_COLS - 1 THEN TermGrid' = h /\ Col' = Col + 1 /\ Row' = Row
                ELSE Col' = 0 /\ Row' = FedRow(Row) /\ TermGrid' = FedGrid(Row, h)
    BY <2>5, <1>9 DEF Term!Glyph, Term!LineFeed, Term!Lines, Term!Columns, FedRow, FedGrid, Row, Col, TermGrid, Lines, Columns
  <2> QED
    BY <1>8, <2>1, <2>2, <2>3, <2>4, <2>5 DEF Moves
<1>11. OnScreen' = Append(OnScreen, x) /\ x \in Text \cup {Plain(" ")}
  BY <1>1
<1> QED
  BY <1>10, <1>11 DEF Term!Next

\* What has been given to the screen, after a call of cons_putc that it does not see yet,
\* and after the last character has got there.
LEMMA CallWaits ==
  ASSUME Types, NEW ch \in Characters, cons_putc(ch)
  PROVE  OnScreen' = LessTabs(given)[Len(given)]
<1>1. given \in Seq(Characters) /\ given' = Append(given, ch) /\ pc' = "serial"
  BY DEF Types, HistoryTypes, cons_putc
<1>2. OnScreen' = LessTabs(Append(given, ch))[Len(Append(given, ch)) - 1]
  BY <1>1 DEF OnScreen
<1>3. Len(given) \in Nat /\ Len(Append(given, ch)) = Len(given) + 1
  BY <1>1, AppendProperties
<1>4. Len(Append(given, ch)) - 1 = Len(given) /\ Len(given) \in 0 .. Len(given)
  BY <1>3
<1>5. LessTabs(Append(given, ch))[Len(given)] = LessTabs(given)[Len(given)]
  BY <1>1, <1>4, LessTabsAppend
<1> QED
  BY <1>2, <1>4, <1>5

LEMMA PutArrives ==
  ASSUME Types, Ports, pc = "cga"
  PROVE  LessTabs(given)[Len(given)] = IF c.ch = "TAB" THEN OnScreen ELSE Append(OnScreen, c)
<1>1. given \in Seq(Characters) /\ given # <<>> /\ given[Len(given)] = c
  BY DEF Types, HistoryTypes, Ports
<1>2. OnScreen = LessTabs(given)[Len(given) - 1]
  BY DEF OnScreen
<1> QED
  BY <1>1, <1>2, LessTabsLast

LEMMA TerminalStep ==
  ASSUME Types, Types', Ports, CursorShown, CursorShown', Next
  PROVE  Term!Next \/ UNCHANGED <<TermGrid, Row, Col, OnScreen>>
<1>1. ASSUME UNCHANGED scr, OnScreen' = OnScreen PROVE UNCHANGED <<TermGrid, Row, Col, OnScreen>>
  <2>1. CursorPos(cursor)' = CursorPos(cursor)
    BY <1>1 DEF CursorShown
  <2>2. Row' = Row /\ Col' = Col
    BY <2>1 DEF Row, Col
  <2>3. TermGrid' = TermGrid
    BY <1>1 DEF TermGrid
  <2> QED
    BY <1>1, <2>2, <2>3
<1>2. CASE UartSends \/ PrinterChanges \/ SerialPoll \/ LptPoll
  <2>1. UNCHANGED <<scr, pc, given>>
    BY <1>2 DEF UartSends, PrinterChanges, SerialPoll, LptPoll, devices, kernel, histories
  <2>2. OnScreen' = OnScreen
    BY <2>1 DEF OnScreen
  <2> QED
    BY <1>1, <2>1, <2>2
<1>3. CASE SerialWrite \/ LptWrite
  <2>1. UNCHANGED <<scr, given>> /\ pc \in {"serial", "lpt"} /\ pc' \in {"lpt", "cga"}
    BY <1>3 DEF SerialWrite, LptWrite, devices
  <2>2. OnScreen' = OnScreen
    BY <2>1 DEF OnScreen
  <2> QED
    BY <1>1, <2>1, <2>2
<1>4. ASSUME NEW ch \in Text, cputchar(ch) PROVE UNCHANGED <<TermGrid, Row, Col, OnScreen>>
  <2>1. cons_putc(ch) /\ ch \in Characters /\ pc = "idle" /\ UNCHANGED scr
    BY <1>4 DEF cputchar, devices, Characters
  <2>2. OnScreen = LessTabs(given)[Len(given)]
    BY <2>1 DEF OnScreen
  <2>3. OnScreen' = LessTabs(given)[Len(given)]
    BY <2>1, CallWaits
  <2> QED
    BY <1>1, <2>1, <2>2, <2>3
<1>5. CASE CgaTab
  <2> DEFINE blank == Plain(" ")
  <2>1. cons_putc(blank) /\ blank \in Characters /\ pc = "cga" /\ c.ch = "TAB" /\ UNCHANGED scr
    BY <1>5 DEF CgaTab, devices, Characters
  <2> HIDE DEF blank
  <2>2. OnScreen' = LessTabs(given)[Len(given)]
    BY <2>1, CallWaits
  <2>3. LessTabs(given)[Len(given)] = OnScreen
    BY <2>1, PutArrives
  <2> QED
    BY <1>1, <2>1, <2>2, <2>3
<1>6. CASE CgaTabReturn
  <2>1. scr \in Screens /\ scr' = Scroll(scr) /\ pc = "tab" /\ pc' = "idle" /\ given' = given
    BY <1>6 DEF CgaTabReturn, histories, Types, DeviceTypes
  <2>3. scr' = scr
    BY <2>1, OnScreenUnscrolled
  <2>4. OnScreen' = OnScreen
    BY <2>1 DEF OnScreen
  <2> QED
    BY <1>1, <2>3, <2>4
<1>7. CASE CgaChar
  <2>1. PICK x : x = c
    OBVIOUS
  <2>2. pc = "cga" /\ x.ch # "TAB" /\ scr' = cga_putc(scr, x)
    BY <1>7, <2>1 DEF CgaChar
  <2>3. OnScreen' = LessTabs(given)[Len(given)]
    <3>1. CASE spaces > 1
      <4>1. cons_putc(x) /\ x \in Characters
        BY <1>7, <2>1, <3>1 DEF CgaChar, Types, KernelTypes
      <4> QED
        BY <4>1, CallWaits
    <3>2. CASE ~(spaces > 1)
      <4>1. pc' \in {"tab", "idle"} /\ given' = given
        BY <1>7, <3>2 DEF CgaChar
      <4> QED
        BY <4>1 DEF OnScreen
    <3> QED
      BY <3>1, <3>2
  <2>4. OnScreen' = Append(OnScreen, x)
    BY <2>1, <2>2, <2>3, PutArrives
  <2>5. Term!Next
    BY <2>1, <2>2, <2>4, TerminalPuts
  <2> QED
    BY <2>5
<1> QED
  BY <1>2, <1>3, <1>4, <1>5, <1>6, <1>7 DEF Next, Devices, ConsPutc

LEMMA TerminalInit == Init => Term!Init
<1> SUFFICES ASSUME Init PROVE Term!Init
  OBVIOUS
<1> DEFINE star == Cell(Plain("*"))
<1>1. scr.buf = [k \in Cells |-> star] /\ CursorPos(cursor) \in Cells /\ given = <<>> /\ pc = "idle"
  BY DEF Init
<1> HIDE DEF star
<1>2. TermGrid = [r \in Lines |-> [k \in Columns |-> star]]
  <2>1. Grid(scr.buf) = [r \in Lines |-> [k \in Columns |-> star]]
    BY <1>1, AtCell DEF Grid
  <2> QED
    BY <2>1 DEF TermGrid, Grid, Lines, Columns, At
<1>3. 0 \in Lines /\ 0 \in Columns
  BY Dimensions DEF Lines, Columns
<1>4. TermGrid[0][0] = star
  BY <1>2, <1>3
<1>5. \E filler \in {TermGrid[0][0]} : TermGrid = [r \in Lines |-> [k \in Columns |-> filler]]
  BY <1>2, <1>4
<1>6. Row \in Lines /\ Col \in Columns
  BY <1>1, CellPlace DEF Row, Col
<1>7. OnScreen = <<>>
  <2>1. Len(given) = 0
    BY <1>1, EmptySeq
  <2>2. OnScreen = LessTabs(given)[0]
    BY <1>1, <2>1 DEF OnScreen
  <2>3. Filters(LessTabs(given), given, 0)
    BY <2>1, LessTabsFilters
  <2>4. LessTabs(given)[0] = <<>>
    BY <2>3 DEF Filters
  <2> QED
    BY <2>2, <2>4
<1> QED
  BY <1>5, <1>6, <1>7 DEF Term!Init, Term!Lines, Term!Columns, TermGrid, Row, Col, Lines, Columns

\* The flat array that memmove scrolls, and the position that the cursor registers show, are
\* Terminal's grid, line and column, for a screen of any size: across the ends of lines, at both
\* ends of the screen, and in the five calls that a tab makes from inside cga_putc; every character
\* that cons_putc is given takes effect once, in order.
THEOREM TerminalImplemented == Spec => ImplementsTerminal
<1>1. Init => CursorShown
  <2> SUFFICES ASSUME Init PROVE CursorShown
    OBVIOUS
  <2>1. scr.pos = CursorPos(cursor)
    BY DEF Init
  <2> QED
    BY <2>1 DEF CursorShown
<1>2. Types /\ Types' /\ Ports /\ CursorShown /\ CursorShown' /\ [Next]_vars => [Term!Next]_(Term!vars)
  <2> SUFFICES ASSUME Types, Types', Ports, CursorShown, CursorShown', [Next]_vars
               PROVE  Term!Next \/ UNCHANGED <<TermGrid, Row, Col, OnScreen>>
    BY DEF Term!vars, TermGrid, Row, Col
  <2>1. CASE Next
    BY <2>1, TerminalStep
  <2>2. CASE UNCHANGED vars
    BY <2>2 DEF vars, devices, kernel, histories, TermGrid, Row, Col, OnScreen, CursorPos
  <2> QED
    BY <2>1, <2>2
<1> QED
  BY <1>1, <1>2, InitTypes, InitPorts, StepTypes, StepPorts, StepCursor, TerminalInit, PTL
  DEF Spec, ImplementsTerminal, Term!Spec
=============================================================================
