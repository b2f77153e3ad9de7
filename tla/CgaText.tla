------------------------------- MODULE CgaText -------------------------------
(***************************************************************************)
(* cga_putc of kern/console.c as an operator: the text screen is a record  *)
(* of its video memory and crt_pos.  The memory is one flat array, and the *)
(* cursor's line and column exist only as arithmetic on crt_pos.           *)
(***************************************************************************)
EXTENDS Integers

CONSTANTS CRT_ROWS, CRT_COLS  \* 25 and 80 in the source

ASSUME CrtAssumption ==
  /\ CRT_ROWS \in Nat /\ CRT_ROWS > 1
  /\ CRT_COLS \in Nat \ {0}

CRT_SIZE == CRT_ROWS * CRT_COLS
Cells == 0 .. CRT_SIZE - 1

-----------------------------------------------------------------------------
(* Characters.  The int a caller passes has a low byte, here a string, and  *)
(* higher bits: none at all, or all ones when a char from 0x80 up has been  *)
(* sign-extended on its way here.  "BS", "NL", "CR" and "TAB" are control  *)
(* characters, " " is the blank, and any other string is one glyph.         *)

Plain(ch) == [ch |-> ch, high |-> "none"]
Extended(ch) == [ch |-> ch, high |-> "ones"]

\* A cell of video memory: the byte it shows and its attribute byte.
Cell(c) == [ch |-> c.ch, attr |-> IF c.high = "none" THEN "0x07" ELSE "0xFF"]

Blank == Cell(Plain(" "))

-----------------------------------------------------------------------------
(* The switch of cga_putc.                                                  *)

Backspace(s, c) ==
  IF s.pos > 0
  THEN [buf |-> [s.buf EXCEPT ![s.pos - 1] = Cell([c EXCEPT !.ch = " "])],
        pos |-> s.pos - 1]
  ELSE s

Return(s) == [s EXCEPT !.pos = @ - (@ % CRT_COLS)]

\* Mutant: the carriage return that case '\n' falls through to is skipped.
Newline_no_return(s) == [s EXCEPT !.pos = @ + CRT_COLS]
Newline(s) == Return([s EXCEPT !.pos = @ + CRT_COLS])

Write(s, c) == [buf |-> [s.buf EXCEPT ![s.pos] = Cell(c)], pos |-> s.pos + 1]

\* The switch without case '\t', which calls back into cons_putc.
Switch(s, c) ==
  CASE c.ch = "BS" -> Backspace(s, c)
    [] c.ch = "NL" -> Newline(s)
    [] c.ch = "CR" -> Return(s)
    [] OTHER       -> Write(s, c)

\* Mutant: the screen scrolls one position late.
Scroll_late(s) ==
  IF s.pos > CRT_SIZE
  THEN [buf |-> [i \in Cells |-> IF i < CRT_SIZE - CRT_COLS THEN s.buf[i + CRT_COLS] ELSE Blank],
        pos |-> s.pos - CRT_COLS]
  ELSE s
Scroll(s) ==
  IF s.pos >= CRT_SIZE
  THEN [buf |-> [i \in Cells |-> IF i < CRT_SIZE - CRT_COLS THEN s.buf[i + CRT_COLS] ELSE Blank],
        pos |-> s.pos - CRT_COLS]
  ELSE s

\* cga_putc for every character but '\t'.
cga_putc(s, c) == Scroll(Switch(s, c))
=============================================================================
