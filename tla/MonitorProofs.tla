--------------------------- MODULE MonitorProofs ----------------------------
(***************************************************************************)
(* What holds of the line editor, the monitor and panics for every screen, *)
(* prompt, line length and command table: types, the agreement of the      *)
(* screen with the buffer, and the message of the first panic.             *)
(***************************************************************************)
EXTENDS Panic, SequenceTheorems, WellFoundedInduction, TLAPS

-----------------------------------------------------------------------------
(* What cga_putc does, on a screen of any size: the cursor stays on it, and a *)
(* text that stands before the cursor grows by a glyph, or loses its last one, *)
(* wherever the line ends and the screen scrolls.                             *)

Codes == [ch : STRING, high : {"none", "ones"}]
Glyphs == [ch : STRING, attr : {"0x07", "0xFF"}]
Screens == [buf : [Cells -> Glyphs], pos : Cells]

\* The only glyph that cga_putc itself writes.
BlankIsGlyph == {" "} \subseteq STRING

LEMMA CellGlyph == \A c \in Codes : Cell(c) \in Glyphs /\ Cell(c).ch = c.ch
<1> SUFFICES ASSUME NEW c \in Codes PROVE Cell(c) \in Glyphs /\ Cell(c).ch = c.ch
  OBVIOUS
<1> DEFINE attr == IF c.high = "none" THEN "0x07" ELSE "0xFF"
<1>1. attr \in {"0x07", "0xFF"}
  OBVIOUS
<1>2. c.ch \in STRING
  BY DEF Codes
<1>3. Cell(c) = [ch |-> c.ch, attr |-> attr]
  BY DEF Cell
<1> HIDE DEF attr
<1> QED
  BY <1>1, <1>2, <1>3 DEF Glyphs

LEMMA PlainCode == \A ch \in STRING : Plain(ch) \in Codes /\ Plain(ch).ch = ch
  BY DEF Plain, Codes

LEMMA Remainder == \A a \in Nat : a % CRT_COLS \in 0 .. a
  BY CrtAssumption

LEMMA ScreenSize == CRT_SIZE \in Nat /\ CRT_SIZE >= 2 * CRT_COLS /\ CRT_COLS \in Nat /\ CRT_COLS > 0
  BY CrtAssumption DEF CRT_SIZE

\* Scrolling brings a cursor that has just left the screen back to it.
LEMMA ScrollScreen ==
  ASSUME BlankIsGlyph, NEW b \in [Cells -> Glyphs], NEW q \in 0 .. CRT_SIZE + CRT_COLS - 1
  PROVE  Scroll([buf |-> b, pos |-> q]) \in Screens
<1> DEFINE s == [buf |-> b, pos |-> q]
<1>1. CASE q >= CRT_SIZE
  <2>1. [k \in Cells |-> IF k < CRT_SIZE - CRT_COLS THEN b[k + CRT_COLS] ELSE Blank] \in [Cells -> Glyphs]
    <3>1. Blank \in Glyphs
      <4>1. Plain(" ") \in Codes
        BY PlainCode DEF BlankIsGlyph
      <4>2. Cell(Plain(" ")) \in Glyphs
        BY <4>1, CellGlyph
      <4> QED
        BY <4>2 DEF Blank
    <3>2. \A k \in Cells : k < CRT_SIZE - CRT_COLS => b[k + CRT_COLS] \in Glyphs
      BY ScreenSize DEF Cells
    <3> QED
      BY <3>1, <3>2
  <2>2. q - CRT_COLS \in Cells
    BY <1>1, ScreenSize DEF Cells
  <2> QED
    BY <1>1, <2>1, <2>2 DEF Scroll, Screens
<1>2. CASE q < CRT_SIZE
  BY <1>2, ScreenSize DEF Scroll, Screens, Cells
<1> QED
  BY <1>1, <1>2, ScreenSize

LEMMA ReturnOf ==
  ASSUME NEW s, s = [buf |-> s.buf, pos |-> s.pos]
  PROVE  Return(s) = [buf |-> s.buf, pos |-> s.pos - (s.pos % CRT_COLS)]
  BY DEF Return

\* Whatever character is put, the cursor stays on the screen.
LEMMA PutcScreen ==
  ASSUME BlankIsGlyph, NEW s \in Screens, NEW c \in Codes
  PROVE  cga_putc(s, c) \in Screens
<1> USE ScreenSize
<1>1. s.buf \in [Cells -> Glyphs] /\ s.pos \in Cells /\ s = [buf |-> s.buf, pos |-> s.pos]
  BY DEF Screens
<1>2. CASE c.ch = "BS"
  <2>1. CASE s.pos > 0
    <3>1. [s.buf EXCEPT ![s.pos - 1] = Cell([c EXCEPT !.ch = " "])] \in [Cells -> Glyphs]
      <4>1. Cell([c EXCEPT !.ch = " "]) \in Glyphs
        <5>1. [c EXCEPT !.ch = " "] \in Codes
          BY DEF Codes, BlankIsGlyph
        <5> QED
          BY <5>1, CellGlyph
      <4> QED
        BY <1>1, <4>1
    <3>2. s.pos - 1 \in 0 .. CRT_SIZE + CRT_COLS - 1
      BY <1>1, <2>1 DEF Cells
    <3> QED
      BY <1>2, <2>1, <3>1, <3>2, ScrollScreen DEF cga_putc, Switch, Backspace
  <2>2. CASE ~(s.pos > 0)
    BY <1>1, <1>2, <2>2, ScrollScreen DEF cga_putc, Switch, Backspace, Cells
  <2> QED
    BY <2>1, <2>2
<1>3. CASE c.ch = "NL"
  <2> DEFINE t == [s EXCEPT !.pos = @ + CRT_COLS]
             q == t.pos - (t.pos % CRT_COLS)
  <2>1. t = [buf |-> t.buf, pos |-> t.pos] /\ t.buf = s.buf /\ t.pos = s.pos + CRT_COLS
    BY <1>1
  <2>2. Newline(s) = Return(t)
    BY DEF Newline
  <2> HIDE DEF t
  <2>3. Return(t) = [buf |-> t.buf, pos |-> q]
    BY <2>1, ReturnOf
  <2>4. q \in 0 .. CRT_SIZE + CRT_COLS - 1
    <3>1. t.pos \in 0 .. CRT_SIZE + CRT_COLS - 1
      BY <1>1, <2>1 DEF Cells
    <3> DEFINE m == t.pos % CRT_COLS
    <3>2. m \in 0 .. t.pos
      BY <3>1, Remainder
    <3> HIDE DEF m
    <3> QED
      BY <3>1, <3>2
  <2>5. Scroll([buf |-> t.buf, pos |-> q]) \in Screens
    BY <1>1, <2>1, <2>4, ScrollScreen
  <2> HIDE DEF q
  <2> QED
    BY <1>3, <2>2, <2>3, <2>5 DEF cga_putc, Switch
<1>4. CASE c.ch = "CR"
  <2> DEFINE q == s.pos - (s.pos % CRT_COLS)
  <2>1. q \in 0 .. CRT_SIZE + CRT_COLS - 1
    BY <1>1, Remainder DEF Cells
  <2>2. Return(s) = [buf |-> s.buf, pos |-> q]
    BY <1>1, ReturnOf
  <2> QED
    BY <1>1, <1>4, <2>1, <2>2, ScrollScreen DEF cga_putc, Switch
<1>5. CASE c.ch \notin {"BS", "NL", "CR"}
  <2>1. [s.buf EXCEPT ![s.pos] = Cell(c)] \in [Cells -> Glyphs]
    BY <1>1 DEF Cell, Codes, Glyphs
  <2>2. s.pos + 1 \in 0 .. CRT_SIZE + CRT_COLS - 1
    BY <1>1 DEF Cells
  <2> QED
    BY <1>5, <2>1, <2>2, ScrollScreen DEF cga_putc, Switch, Write
<1> QED
  BY <1>2, <1>3, <1>4, <1>5

\* The last n glyphs before the cursor are the first n of a text.
Shown(s, text, n) ==
  n <= s.pos /\ \A k \in 1 .. n : s.buf[s.pos - n + k - 1].ch = text[k]

\* Where the k-th of n + 1 glyphs is, before and after scrolling.
LEMMA GlyphBefore ==
  ASSUME NEW pos \in Nat, NEW n \in Nat, n <= pos, NEW k \in 1 .. n
  PROVE  pos - n + k - 1 \in 0 .. pos - 1
  OBVIOUS

LEMMA GlyphScrolled ==
  ASSUME NEW size \in Nat, NEW cols \in Nat, NEW pos \in Nat, pos + 1 = size,
         NEW n \in Nat, NEW k \in 1 .. n + 1
  PROVE  (size - cols) - (n + 1) + k - 1 + cols = pos - n + k - 1
  OBVIOUS

\* A glyph is put after them, even if the screen scrolls for it.
LEMMA PutcGlyph ==
  ASSUME NEW s \in Screens, NEW c \in Codes, c.ch \notin {"BS", "NL", "CR"},
         NEW n \in Nat, n + 1 <= CRT_SIZE - CRT_COLS,
         NEW text, NEW more, Shown(s, text, n),
         \A k \in 1 .. n : more[k] = text[k], more[n + 1] = c.ch
  PROVE  Shown(cga_putc(s, c), more, n + 1)
<1> USE ScreenSize
<1> DEFINE b == [s.buf EXCEPT ![s.pos] = Cell(c)]
           w == [buf |-> b, pos |-> s.pos + 1]
<1>1. s.buf \in [Cells -> Glyphs] /\ s.pos \in Cells
  BY DEF Screens
<1>2. cga_putc(s, c) = Scroll(w)
  BY DEF cga_putc, Switch, Write
<1>3. n <= s.pos
  BY DEF Shown
<1>4. \A k \in 1 .. n + 1 : b[s.pos - n + k - 1].ch = more[k]
  <2> SUFFICES ASSUME NEW k \in 1 .. n + 1 PROVE b[s.pos - n + k - 1].ch = more[k]
    OBVIOUS
  <2>1. CASE k = n + 1
    <3>1. b[s.pos] = Cell(c)
      BY <1>1
    <3>2. s.pos - n + k - 1 = s.pos
      BY <2>1, <1>1, <1>3 DEF Cells
    <3> QED
      BY <2>1, <3>1, <3>2 DEF Cell
  <2>2. CASE k <= n
    <3>1. s.pos - n + k - 1 \in Cells /\ s.pos - n + k - 1 # s.pos
      <4>1. s.pos \in Nat /\ s.pos \in 0 .. CRT_SIZE - 1 /\ k \in 1 .. n
        BY <1>1, <2>2 DEF Cells
      <4> DEFINE at == s.pos - n + k - 1
      <4>2. at \in 0 .. s.pos - 1
        BY <4>1, <1>3, GlyphBefore
      <4> HIDE DEF at
      <4>3. at \in 0 .. CRT_SIZE - 1 /\ at # s.pos
        BY <4>1, <4>2
      <4> QED
        BY <4>3 DEF at, Cells
    <3>2. b[s.pos - n + k - 1] = s.buf[s.pos - n + k - 1]
      BY <1>1, <3>1
    <3>3. s.buf[s.pos - n + k - 1].ch = text[k]
      BY <2>2 DEF Shown
    <3> QED
      BY <2>2, <3>2, <3>3
  <2> QED
    BY <2>1, <2>2
<1>5. CASE s.pos + 1 < CRT_SIZE
  <2>1. Scroll(w) = w
    BY <1>1, <1>5 DEF Scroll, Cells
  <2>2. \A k \in 1 .. n + 1 : (s.pos + 1) - (n + 1) + k - 1 = s.pos - n + k - 1
    BY <1>1 DEF Cells
  <2> HIDE DEF b
  <2>3. Shown(w, more, n + 1)
    <3>1. n + 1 <= s.pos + 1
      BY <1>1, <1>3 DEF Cells
    <3>2. \A k \in 1 .. n + 1 : b[(s.pos + 1) - (n + 1) + k - 1].ch = more[k]
      BY <1>4, <2>2
    <3> QED
      BY <3>1, <3>2 DEF Shown
  <2> QED
    BY <1>2, <2>1, <2>3
<1>6. CASE s.pos + 1 >= CRT_SIZE
  <2> DEFINE m == [k \in Cells |-> IF k < CRT_SIZE - CRT_COLS THEN b[k + CRT_COLS] ELSE Blank]
  <2>1. s.pos + 1 = CRT_SIZE
    BY <1>1, <1>6 DEF Cells
  <2>2. Scroll(w) = [buf |-> m, pos |-> CRT_SIZE - CRT_COLS]
    BY <2>1 DEF Scroll
  <2>3. \A k \in 1 .. n + 1 : m[(CRT_SIZE - CRT_COLS) - (n + 1) + k - 1].ch = more[k]
    <3> SUFFICES ASSUME NEW k \in 1 .. n + 1
                 PROVE m[(CRT_SIZE - CRT_COLS) - (n + 1) + k - 1].ch = more[k]
      OBVIOUS
    <3> DEFINE a == (CRT_SIZE - CRT_COLS) - (n + 1) + k - 1
    <3>1. a \in Cells /\ a < CRT_SIZE - CRT_COLS
      BY DEF Cells
    <3>2. a + CRT_COLS = s.pos - n + k - 1
      <4>1. s.pos \in Nat /\ CRT_SIZE \in Nat /\ CRT_COLS \in Nat
        BY <1>1 DEF Cells
      <4> QED
        BY <2>1, <4>1, GlyphScrolled
    <3>3. m[a] = b[a + CRT_COLS]
      BY <3>1
    <3> QED
      BY <3>2, <3>3, <1>4
  <2> QED
    BY <1>2, <2>2, <2>3 DEF Shown
<1> QED
  BY <1>1, <1>5, <1>6 DEF Cells

\* An echoed backspace takes the last one away.
LEMMA PutcErase ==
  ASSUME NEW s \in Screens, NEW n \in Nat \ {0}, NEW text, Shown(s, text, n)
  PROVE  Shown(cga_putc(s, Plain("BS")), text, n - 1)
<1> USE ScreenSize
<1> DEFINE b == [s.buf EXCEPT ![s.pos - 1] = Cell([Plain("BS") EXCEPT !.ch = " "])]
<1>1. s.buf \in [Cells -> Glyphs] /\ s.pos \in Cells /\ s.pos > 0 /\ n <= s.pos
  BY DEF Screens, Shown, Cells
<1>2. cga_putc(s, Plain("BS")) = [buf |-> b, pos |-> s.pos - 1]
  <2>1. Switch(s, Plain("BS")) = [buf |-> b, pos |-> s.pos - 1]
    BY <1>1 DEF Switch, Backspace, Plain
  <2>2. ~(s.pos - 1 >= CRT_SIZE)
    BY <1>1 DEF Cells
  <2>3. Scroll([buf |-> b, pos |-> s.pos - 1]) = [buf |-> b, pos |-> s.pos - 1]
    BY <2>2 DEF Scroll
  <2> HIDE DEF b
  <2> QED
    BY <2>1, <2>3 DEF cga_putc
<1>3. ASSUME NEW k \in 1 .. n - 1
      PROVE  b[(s.pos - 1) - (n - 1) + k - 1].ch = text[k]
  <2>1. (s.pos - 1) - (n - 1) + k - 1 = s.pos - n + k - 1
    BY <1>1 DEF Cells
  <2>2. s.pos - n + k - 1 \in Cells /\ s.pos - n + k - 1 # s.pos - 1
    BY <1>1 DEF Cells
  <2>3. s.buf[s.pos - n + k - 1].ch = text[k]
    BY DEF Shown
  <2> QED
    BY <1>1, <2>1, <2>2, <2>3
<1> HIDE DEF b
<1> QED
  BY <1>1, <1>2, <1>3 DEF Shown, Cells

-----------------------------------------------------------------------------
(* The invariant. *)

Types == MonitorTypeOK /\ scr \in Screens

\* readline is where monitor is, and nowhere else.
Places == mon = "readline" <=> pc = "reading"

\* The prompt and the line, one after the other.
Text == [k \in 1 .. Len(Prompt) + BUFLEN |->
           IF k <= Len(Prompt) THEN Prompt[k] ELSE buf[k - Len(Prompt) - 1]]

\* While a line is read, what has been printed of the prompt, and then the line, stand
\* before the cursor; no character of the line is a NUL.
Editing ==
  pc = "reading" =>
    /\ Len(out) <= Len(Prompt) /\ (out # <<>> => i = 0)
    /\ \A k \in 1 .. Len(out) : out[k] = Plain(Prompt[Len(Prompt) - Len(out) + k])
    /\ Shown(scr, Text, Len(Prompt) - Len(out) + i)
    /\ \A k \in 0 .. i - 1 : buf[k] # "NUL"

\* The string at q ends at e.
EndsAt(b, q, e) == b[e] = "NUL" /\ \A k \in q .. e - 1 : b[k] # "NUL"

\* While a line is cut up there is a NUL ahead; the arguments are behind, each with its
\* NUL, but for the last one perhaps, which has none so far.
Cutting ==
  mon \in {"gobble", "scan", "lookup"} =>
    /\ \E e \in p .. BUFLEN - 1 : buf[e] = "NUL"
    /\ mon = "lookup" => buf[p] = "NUL"
    /\ \A k \in 1 .. Len(argv) :
         /\ argv[k] <= p
         /\ \/ \E e \in argv[k] .. p - 1 : EndsAt(buf, argv[k], e)
            \/ \A j \in argv[k] .. p - 1 : buf[j] # "NUL"

\* How far runcmd has looked: at the character under its pointer too, inside an argument.
Reached == IF mon = "scan" THEN p + 1 ELSE p

\* Behind the pointer is the line with its white space cut out, ahead the line as it was.
CutUp ==
  /\ line \in Seq(Input) /\ Len(line) \in 0 .. BUFLEN - 1 /\ p <= Len(line)
  /\ buf[Len(line)] = "NUL"
  /\ \A j \in 0 .. Len(line) - 1 :
       buf[j] = IF j < p /\ line[j + 1] \in Whitespace THEN "NUL" ELSE line[j + 1]

\* argv holds the words that runcmd has come to, in order.
WordsSaved ==
  /\ \A k \in 1 .. Len(argv) : argv[k] + 1 \in WordStarts(line) /\ argv[k] < Reached
  /\ \A j, k \in 1 .. Len(argv) : j < k => argv[j] < argv[k]
  /\ \A s \in WordStarts(line) : s <= Reached => \E k \in 1 .. Len(argv) : argv[k] + 1 = s

\* runcmd is between two arguments, or everything has been cut up.
Divided ==
  mon \in {"gobble", "scan", "lookup"} =>
    /\ CutUp /\ WordsSaved
    /\ mon = "gobble" => Blank_at(line, p) \/ Blank_at(line, p + 1)
    /\ mon = "lookup" => p = Len(line)

Idle == mon # "prompt" => ran = 0

IInv == Types /\ Places /\ Editing /\ Cutting /\ Divided /\ Idle

LEMMA BlankChar == BlankIsGlyph
  BY ReadlineAssumption DEF BlankIsGlyph

LEMMA Constants ==
  /\ BUFLEN \in Nat /\ BUFLEN > 1 /\ Len(Prompt) \in Nat
  /\ Len(Prompt) + BUFLEN - 1 <= CRT_SIZE - CRT_COLS
  /\ \A k \in 1 .. Len(Prompt) : Prompt[k] \in STRING /\ Prompt[k] \notin {"BS", "NL", "CR"}
  /\ \A ch \in Input : ch \in STRING /\ ch # "NUL"
  /\ {"BS", "NL", "CR", " ", "NUL"} \subseteq STRING
  /\ {"BS", "NL", "CR"} \subseteq Control
<1>1. /\ BUFLEN \in Nat /\ BUFLEN > 1
      /\ Len(Prompt) + BUFLEN - 1 <= CRT_SIZE - CRT_COLS
      /\ Input \cup Control \cup {" ", "*", "NUL"} \subseteq STRING /\ "NUL" \notin Input
      /\ {"BS", "NL", "CR"} \subseteq Control
      /\ Prompt \in Seq(STRING \ Control)
  BY ReadlineAssumption
<1>2. Len(Prompt) \in Nat /\ \A k \in 1 .. Len(Prompt) : Prompt[k] \in STRING \ Control
  <2> DEFINE S == STRING \ Control
  <2>1. Prompt \in Seq(S)
    BY <1>1
  <2> HIDE DEF S
  <2>2. Len(Prompt) \in Nat /\ \A k \in 1 .. Len(Prompt) : Prompt[k] \in S
    BY <2>1
  <2> QED
    BY <2>2 DEF S
<1>3. {"BS", "NL", "CR", " ", "NUL"} \subseteq STRING
  BY <1>1
<1>4. \A ch \in Input : ch \in STRING /\ ch # "NUL"
  BY <1>1
<1> QED
  BY <1>1, <1>2, <1>3, <1>4

LEMMA Sizes ==
  /\ BUFLEN \in Nat /\ BUFLEN > 1 /\ Len(Prompt) \in Nat
  /\ CRT_SIZE \in Nat /\ CRT_COLS \in Nat
  /\ Len(Prompt) + BUFLEN - 1 <= CRT_SIZE - CRT_COLS
<1>1. /\ BUFLEN \in Nat /\ BUFLEN > 1 /\ Len(Prompt) \in Nat
      /\ Len(Prompt) + BUFLEN - 1 <= CRT_SIZE - CRT_COLS
  BY Constants
<1> QED
  BY <1>1, ScreenSize

\* Texts are printed as sequences of codes.
LEMMA CharsCodes == \A text \in Seq(STRING) : Chars(text) \in Seq(Codes)
<1> SUFFICES ASSUME NEW text \in Seq(STRING) PROVE Chars(text) \in Seq(Codes)
  OBVIOUS
<1>1. Len(text) \in Nat /\ DOMAIN text = 1 .. Len(text) /\ \A k \in 1 .. Len(text) : text[k] \in STRING
  OBVIOUS
<1>2. \A k \in 1 .. Len(text) : Plain(text[k]) \in Codes
  BY <1>1, PlainCode
<1> QED
  BY <1>1, <1>2 DEF Chars

LEMMA StringCharsCodes == \A text \in Seq(STRING) : StringChars(text) \in Seq(Codes)
<1> SUFFICES ASSUME NEW text \in Seq(STRING) PROVE StringChars(text) \in Seq(Codes)
  OBVIOUS
<1>1. Len(text) \in Nat /\ DOMAIN text = 1 .. Len(text) /\ \A k \in 1 .. Len(text) : text[k] \in STRING
  OBVIOUS
<1>2. \A k \in 1 .. Len(text) : Plain(text[k]) \in Codes /\ Extended(text[k]) \in Codes
  BY <1>1, PlainCode DEF Extended, Codes
<1> QED
  BY <1>1, <1>2 DEF StringChars

LEMMA NewlineCode == <<Plain("NL")>> \in Seq(Codes)
<1>1. "NL" \in STRING
  BY Constants
<1>2. Plain("NL") \in Codes
  BY <1>1, PlainCode
<1> QED
  BY <1>2

LEMMA CountsOf ==
  /\ MaxCalls \in Nat /\ MAXARGS \in Nat /\ MAXARGS > 1
  /\ Len(Commands) \in Nat /\ DOMAIN Commands = 1 .. Len(Commands)
<1> DEFINE S == [name : Seq(STRING), desc : Seq(STRING), func : STRING]
<1>1. Commands \in Seq(S)
  BY PrintedAssumption
<1> HIDE DEF S
<1>2. Len(Commands) \in Nat /\ DOMAIN Commands = 1 .. Len(Commands)
  BY <1>1
<1> QED
  BY <1>2, MonitorAssumption

LEMMA PromptText == Prompt \in Seq(STRING)
<1> DEFINE S == STRING \ Control
<1>1. Prompt \in Seq(S)
  BY ReadlineAssumption
<1>2. S \subseteq STRING
  OBVIOUS
<1> HIDE DEF S
<1> QED
  BY <1>1, <1>2, SeqMonotonic

LEMMA PromptCodes ==
  /\ DOMAIN Prompt = 1 .. Len(Prompt)
  /\ [k \in DOMAIN Prompt |-> Plain(Prompt[k])] \in Seq(Codes)
<1> DEFINE S == STRING \ Control
<1>1. Prompt \in Seq(S)
  BY ReadlineAssumption
<1> HIDE DEF S
<1>2. Len(Prompt) \in Nat /\ DOMAIN Prompt = 1 .. Len(Prompt)
  BY <1>1
<1>3. \A k \in 1 .. Len(Prompt) : Plain(Prompt[k]) \in Codes
  BY Constants, PlainCode
<1> QED
  BY <1>2, <1>3

\* The string at an index, where it ends.
LEMMA CStringOf ==
  ASSUME NEW b, NEW q \in 0 .. BUFLEN - 1, NEW e \in q .. BUFLEN - 1, EndsAt(b, q, e)
  PROVE  CString(b, q) = [k \in 1 .. e - q |-> b[q + k - 1]]
<1> DEFINE ends == {f \in q .. BUFLEN - 1 : b[f] = "NUL"}
           stop == CHOOSE f \in ends : \A g \in ends : f <= g
<1>0. BUFLEN \in Nat
  BY Constants
<1>1. \A g \in q .. BUFLEN - 1 : b[g] = "NUL" => e <= g
  <2> SUFFICES ASSUME NEW g \in q .. BUFLEN - 1, b[g] = "NUL", ~(e <= g) PROVE FALSE
    BY <1>0
  <2>1. g \in q .. e - 1
    BY <1>0
  <2> QED
    BY <2>1 DEF EndsAt
<1>2. e \in ends
  BY DEF EndsAt
<1>3. \A f \in ends : (\A g \in ends : f <= g) => f = e
  <2> SUFFICES ASSUME NEW f \in q .. BUFLEN - 1, b[f] = "NUL", f <= e PROVE f = e
    BY <1>2
  <2> QED
    BY <1>0, <1>1
<1>4. stop = e
  BY <1>1, <1>2, <1>3
<1>5. CString(b, q) = [k \in 1 .. stop - q |-> b[q + k - 1]]
  BY DEF CString
<1> HIDE DEF stop
<1> QED
  BY <1>4, <1>5

-----------------------------------------------------------------------------
(* Steps. *)

LEMMA TypeFacts ==
  Types => /\ BUFLEN \in Nat /\ p \in 0 .. BUFLEN - 1
           /\ buf \in [0 .. BUFLEN - 1 -> Input \cup {"NUL"}]
           /\ i \in 0 .. BUFLEN - 1
           /\ Len(argv) \in Nat /\ argv \in Seq(0 .. BUFLEN - 1)
           /\ \A k \in 1 .. Len(argv) : argv[k] \in 0 .. BUFLEN - 1
<1> SUFFICES ASSUME Types PROVE /\ BUFLEN \in Nat /\ p \in 0 .. BUFLEN - 1
                                /\ buf \in [0 .. BUFLEN - 1 -> Input \cup {"NUL"}]
                                /\ i \in 0 .. BUFLEN - 1
                                /\ Len(argv) \in Nat /\ argv \in Seq(0 .. BUFLEN - 1)
                                /\ \A k \in 1 .. Len(argv) : argv[k] \in 0 .. BUFLEN - 1
  OBVIOUS
<1>1. BUFLEN \in Nat
  BY Constants
<1>2. /\ p \in 0 .. BUFLEN - 1 /\ buf \in [0 .. BUFLEN - 1 -> Input \cup {"NUL"}]
      /\ i \in 0 .. BUFLEN - 1 /\ argv \in Seq(0 .. BUFLEN - 1)
  BY DEF Types, MonitorTypeOK, TypeOK
<1> QED
  BY <1>1, <1>2

LEMMA PlacesStep == Types /\ Places /\ [PanicNext]_allVars => Places'
<1> SUFFICES ASSUME Types, Places, [PanicNext]_allVars PROVE Places'
  OBVIOUS
<1> USE DEF Places, Types, MonitorTypeOK, TypeOK
<1>1. CASE Prompts
  BY <1>1 DEF Prompts, CallReadline
<1>2. CASE Prints
  BY <1>2 DEF Prints, PrintChar
<1>3. CASE Edits
  BY <1>3 DEF Edits
<1>4. CASE Enters
  BY <1>4 DEF Enters
<1>5. CASE GobbleWhitespace \/ EndOfLine \/ SaveArgument \/ ScanArgument \/ ArgumentEnds
  BY <1>5 DEF GobbleWhitespace, EndOfLine, SaveArgument, ScanArgument, ArgumentEnds, readlineVars
<1>6. CASE TooManyArguments \/ EmptyCommand \/ RunCommand \/ UnknownCommand
  BY <1>6 DEF TooManyArguments, EmptyCommand, RunCommand, UnknownCommand, Leaves, readlineVars
<1>7. CASE Panics
  BY <1>7 DEF Panics, _panic, monitor, Leaves
<1>8. CASE _warn
  BY <1>8 DEF _warn
<1>9. CASE UNCHANGED allVars
  BY <1>9 DEF allVars, vars, readlineVars
<1> QED
  BY <1>1, <1>2, <1>3, <1>4, <1>5, <1>6, <1>7, <1>8, <1>9 DEF PanicNext, Next, runcmd

LEMMA CuttingStep == Types /\ Cutting /\ [PanicNext]_allVars => Cutting'
<1> SUFFICES ASSUME Types, Cutting, [PanicNext]_allVars PROVE Cutting'
  OBVIOUS
<1>0. /\ BUFLEN \in Nat /\ p \in 0 .. BUFLEN - 1
      /\ buf \in [0 .. BUFLEN - 1 -> Input \cup {"NUL"}]
      /\ i \in 0 .. BUFLEN - 1
      /\ Len(argv) \in Nat /\ argv \in Seq(0 .. BUFLEN - 1)
      /\ \A k \in 1 .. Len(argv) : argv[k] \in 0 .. BUFLEN - 1
  BY TypeFacts
\* Outside the three places, or with nothing that matters changed.
<1>1. CASE mon' \notin {"gobble", "scan", "lookup"}
  BY <1>1 DEF Cutting
<1>2. CASE mon' = mon /\ UNCHANGED <<buf, p, argv>>
  BY <1>2 DEF Cutting, EndsAt
<1>3. CASE Enters
  <2>1. argv' = <<>> /\ p' = 0 /\ mon' = "gobble"
    BY <1>3 DEF Enters
  <2>2. buf' = [buf EXCEPT ![i] = "NUL"]
    BY <1>3 DEF Enters, getchar, Handle, EraseChar, StoreChar, EndLine, Ignore, readlineVars
  <2>3. buf'[i] = "NUL"
    BY <1>0, <2>2
  <2> QED
    BY <1>0, <2>1, <2>3 DEF Cutting
<1>4. CASE GobbleWhitespace
  <2>1. /\ mon = "gobble" /\ mon' = "gobble" /\ buf[p] # "NUL"
        /\ buf' = [buf EXCEPT ![p] = "NUL"] /\ p' = p + 1 /\ argv' = argv
    BY <1>4 DEF GobbleWhitespace, Whitespace
  <2>2. \E e \in p' .. BUFLEN - 1 : buf'[e] = "NUL"
    <3>1. PICK e \in p .. BUFLEN - 1 : buf[e] = "NUL"
      BY <2>1 DEF Cutting
    <3> QED
      BY <1>0, <2>1, <3>1
  <2>3. ASSUME NEW k \in 1 .. Len(argv)
        PROVE  argv[k] <= p' /\ \E e \in argv[k] .. p' - 1 : EndsAt(buf', argv[k], e)
    <3>1. argv[k] \in 0 .. p
      BY <1>0, <2>1 DEF Cutting
    <3>2. CASE \E e \in argv[k] .. p - 1 : EndsAt(buf, argv[k], e)
      <4>1. PICK e \in argv[k] .. p - 1 : EndsAt(buf, argv[k], e)
        BY <3>2
      <4>2. EndsAt(buf', argv[k], e)
        BY <1>0, <2>1, <3>1, <4>1 DEF EndsAt
      <4> QED
        BY <1>0, <2>1, <3>1, <4>1, <4>2
    <3>3. CASE \A j \in argv[k] .. p - 1 : buf[j] # "NUL"
      <4>1. EndsAt(buf', argv[k], p)
        BY <1>0, <2>1, <3>1, <3>3 DEF EndsAt
      <4> QED
        BY <1>0, <2>1, <3>1, <4>1
    <3> QED
      BY <2>1, <3>2, <3>3 DEF Cutting
  <2> QED
    BY <2>1, <2>2, <2>3 DEF Cutting
<1>5. CASE EndOfLine \/ ArgumentEnds
  BY <1>5 DEF EndOfLine, ArgumentEnds, Cutting, EndsAt, readlineVars, runcmdVars
<1>6. CASE SaveArgument
  <2>1. /\ mon = "gobble" /\ mon' = "scan" /\ argv' = Append(argv, p) /\ UNCHANGED <<buf, p>>
    BY <1>6 DEF SaveArgument, readlineVars
  <2>2. ASSUME NEW k \in 1 .. Len(argv')
        PROVE  argv'[k] <= p /\ (\/ \E e \in argv'[k] .. p - 1 : EndsAt(buf, argv'[k], e)
                                 \/ \A j \in argv'[k] .. p - 1 : buf[j] # "NUL")
    <3>1. CASE k = Len(argv) + 1
      <4>1. argv'[k] = p
        BY <1>0, <2>1, <3>1
      <4> QED
        BY <1>0, <4>1
    <3>2. CASE k \in 1 .. Len(argv)
      <4>1. argv'[k] = argv[k]
        BY <1>0, <2>1, <3>2
      <4> QED
        BY <1>0, <2>1, <3>2, <4>1 DEF Cutting
    <3> QED
      BY <1>0, <2>1, <3>1, <3>2
  <2> QED
    BY <2>1, <2>2 DEF Cutting, EndsAt
<1>7. CASE ScanArgument
  <2>1. mon = "scan" /\ mon' = "scan" /\ p' = p + 1 /\ UNCHANGED <<buf, argv>> /\ buf[p] # "NUL"
    BY <1>7 DEF ScanArgument, readlineVars
  <2>2. \E e \in p' .. BUFLEN - 1 : buf[e] = "NUL"
    <3>1. PICK e \in p .. BUFLEN - 1 : buf[e] = "NUL"
      BY <2>1 DEF Cutting
    <3> QED
      BY <1>0, <2>1, <3>1
  <2>3. ASSUME NEW k \in 1 .. Len(argv)
        PROVE  argv[k] <= p' /\ (\/ \E e \in argv[k] .. p' - 1 : EndsAt(buf, argv[k], e)
                                 \/ \A j \in argv[k] .. p' - 1 : buf[j] # "NUL")
    <3>1. argv[k] \in 0 .. p
      BY <1>0, <2>1 DEF Cutting
    <3>2. CASE \E e \in argv[k] .. p - 1 : EndsAt(buf, argv[k], e)
      BY <1>0, <2>1, <3>1, <3>2
    <3>3. CASE \A j \in argv[k] .. p - 1 : buf[j] # "NUL"
      BY <1>0, <2>1, <3>1, <3>3
    <3> QED
      BY <2>1, <3>2, <3>3 DEF Cutting
  <2> QED
    BY <2>1, <2>2, <2>3 DEF Cutting, EndsAt
<1> QED
  <2>1. CASE Prompts
    BY <1>1, <2>1 DEF Prompts
  <2>2. CASE Prints \/ UNCHANGED allVars
    BY <1>2, <2>2 DEF Prints, PrintChar, allVars, vars, readlineVars, runcmdVars
  <2>3. CASE Edits
    BY <1>1, <2>3 DEF Edits
  <2>4. CASE TooManyArguments \/ EmptyCommand \/ RunCommand \/ UnknownCommand
    BY <1>1, <2>4 DEF TooManyArguments, EmptyCommand, RunCommand, UnknownCommand, Leaves
  <2>5. CASE Panics
    BY <1>1, <2>5 DEF Panics, _panic, monitor, Leaves
  <2>6. CASE _warn
    BY <1>2, <2>6 DEF _warn, runcmdVars
  <2> QED
    BY <1>3, <1>4, <1>5, <1>6, <1>7, <2>1, <2>2, <2>3, <2>4, <2>5, <2>6 DEF PanicNext, Next, runcmd

\* What the line editor does to its variables keeps their types.
LEMMA HandleTypes ==
  ASSUME Types, NEW ch \in Input, Handle(ch)
  PROVE  /\ buf' \in [0 .. BUFLEN - 1 -> Input \cup {"NUL"}] /\ i' \in 0 .. BUFLEN - 1
         /\ scr' \in Screens /\ out' = out /\ pc' \in {"caller", "reading"}
<1>0. scr \in Screens /\ {"BS", "NL", ch} \subseteq STRING
  BY Constants DEF Types
<1>1. \A c \in {"BS", "NL", ch} : cga_putc(scr, Plain(c)) \in Screens
  BY <1>0, BlankChar, PlainCode, PutcScreen
<1>2. CASE EraseChar(ch)
  BY <1>1, <1>2, TypeFacts DEF EraseChar, Erases, cputchar, Handle
<1>3. CASE StoreChar(ch)
  BY <1>1, <1>3, TypeFacts DEF StoreChar, Stores, cputchar, Handle
<1>4. CASE EndLine(ch)
  BY <1>1, <1>4, TypeFacts DEF EndLine, cputchar, Handle
<1>5. CASE Ignore(ch)
  BY <1>0, <1>5, TypeFacts DEF Ignore, readlineVars, Handle
<1> QED
  BY <1>2, <1>3, <1>4, <1>5 DEF Handle

\* The string of the first argument, when it is looked up.
LEMMA FirstArgument ==
  ASSUME Types, Cutting, mon = "lookup", argv # <<>>
  PROVE  CString(buf, argv[1]) \in Seq(STRING)
<1>0. /\ BUFLEN \in Nat /\ p \in 0 .. BUFLEN - 1 /\ 1 \in 1 .. Len(argv)
      /\ buf \in [0 .. BUFLEN - 1 -> Input \cup {"NUL"}] /\ argv[1] \in 0 .. BUFLEN - 1
  BY TypeFacts
<1>1. PICK e \in argv[1] .. BUFLEN - 1 : EndsAt(buf, argv[1], e)
  <2>1. argv[1] <= p /\ buf[p] = "NUL"
    BY <1>0 DEF Cutting
  <2>2. CASE \E e \in argv[1] .. p - 1 : EndsAt(buf, argv[1], e)
    BY <1>0, <2>2
  <2>3. CASE \A j \in argv[1] .. p - 1 : buf[j] # "NUL"
    BY <1>0, <2>1, <2>3 DEF EndsAt
  <2> QED
    BY <1>0, <2>2, <2>3 DEF Cutting
<1>2. CString(buf, argv[1]) = [k \in 1 .. e - argv[1] |-> buf[argv[1] + k - 1]]
  BY <1>0, <1>1, CStringOf
<1>3. \A k \in 1 .. e - argv[1] : buf[argv[1] + k - 1] \in STRING
  <2>1. \A k \in 1 .. e - argv[1] : buf[argv[1] + k - 1] \in Input \cup {"NUL"}
    BY <1>0
  <2>2. Input \cup {"NUL"} \subseteq STRING
    BY Constants
  <2> QED
    BY <2>1, <2>2
<1>4. e - argv[1] \in Nat
  BY <1>0
<1> QED
  BY <1>2, <1>3, <1>4

LEMMA Appended ==
  ASSUME NEW S, NEW a \in Seq(S), NEW b \in Seq(S)
  PROVE  a \o b \in Seq(S)
  OBVIOUS

LEMMA TypesStep == Types /\ Cutting /\ [PanicNext]_allVars => Types'
<1> SUFFICES ASSUME Types, Cutting, [PanicNext]_allVars PROVE Types'
  OBVIOUS
<1> DEFINE Editor == /\ buf \in [0 .. BUFLEN - 1 -> Input \cup {"NUL"}] /\ i \in 0 .. BUFLEN - 1
                     /\ scr \in Screens /\ out \in Seq(Codes) /\ pc \in {"caller", "reading"}
           Runcmd == /\ mon \in {"prompt", "readline", "gobble", "scan", "lookup"}
                     /\ p \in 0 .. BUFLEN - 1
                     /\ argv \in Seq(0 .. BUFLEN - 1) /\ Len(argv) < MAXARGS
                     /\ ran \in 0 .. Len(Commands) /\ calls \in 0 .. MaxCalls
<1>0. Types = (Editor /\ Runcmd)
  BY DEF Types, MonitorTypeOK, TypeOK, Screens, Codes
<1>1. Types' = (Editor' /\ Runcmd')
  BY DEF Types, MonitorTypeOK, TypeOK, Screens, Codes
<1>2. Editor /\ Runcmd
  BY <1>0
<1>3. /\ BUFLEN \in Nat \ {0} /\ MaxCalls \in Nat /\ MAXARGS \in Nat /\ MAXARGS > 1
      /\ Len(Commands) \in Nat /\ DOMAIN Commands = 1 .. Len(Commands)
  BY Sizes, CountsOf
<1>4. \A text \in Seq(STRING) : Chars(text) \in Seq(Codes) /\ Chars(text) \o <<Plain("NL")>> \in Seq(Codes)
  BY CharsCodes, NewlineCode, Appended
\* What leaves runcmd, for whatever reason.
<1>5. ASSUME Leaves, UNCHANGED calls, ran' \in 0 .. Len(Commands) PROVE Runcmd'
  BY <1>2, <1>3, <1>5 DEF Leaves
<1>6. CASE Prompts
  <2>1. [k \in DOMAIN Prompt |-> Plain(Prompt[k])] \in Seq(Codes)
    BY PromptCodes
  <2>2. Editor'
    BY <1>2, <1>3, <1>6, <2>1 DEF Prompts, CallReadline
  <2>3. Runcmd'
    BY <1>2, <1>3, <1>6 DEF Prompts
  <2> QED
    BY <1>1, <2>2, <2>3
<1>7. CASE Prints
  <2>1. Head(out) \in Codes /\ Tail(out) \in Seq(Codes)
    BY <1>2, <1>7 DEF Prints, PrintChar
  <2>2. cga_putc(scr, Head(out)) \in Screens
    BY <1>2, <2>1, BlankChar, PutcScreen
  <2>3. Editor'
    BY <1>2, <1>7, <2>1, <2>2 DEF Prints, PrintChar
  <2>4. Runcmd'
    BY <1>2, <1>7 DEF Prints, runcmdVars
  <2> QED
    BY <1>1, <2>3, <2>4
<1>8. CASE Edits
  <2>1. PICK ch \in Input : Handle(ch)
    BY <1>8 DEF Edits, getchar
  <2>2. Editor'
    BY <1>2, <2>1, HandleTypes
  <2>3. Runcmd'
    BY <1>2, <1>8 DEF Edits, runcmdVars
  <2> QED
    BY <1>1, <2>2, <2>3
<1>9. CASE Enters
  <2>1. PICK ch \in Input : Handle(ch)
    BY <1>9 DEF Enters, getchar
  <2>2. Editor'
    BY <1>2, <2>1, HandleTypes
  <2>3. Runcmd'
    BY <1>2, <1>3, <1>9 DEF Enters
  <2> QED
    BY <1>1, <2>2, <2>3
<1>10. CASE GobbleWhitespace
  <2>1. PICK e \in p .. BUFLEN - 1 : buf[e] = "NUL"
    BY <1>10 DEF GobbleWhitespace, Cutting
  <2>2. buf[p] # "NUL"
    BY <1>10 DEF GobbleWhitespace, Whitespace
  <2>3. p + 1 \in 0 .. BUFLEN - 1
    BY <1>2, <1>3, <2>1, <2>2
  <2>4. Editor' /\ Runcmd'
    BY <1>2, <1>10, <2>3 DEF GobbleWhitespace
  <2> QED
    BY <1>1, <2>4
<1>11. CASE EndOfLine \/ ArgumentEnds
  BY <1>1, <1>2, <1>11 DEF EndOfLine, ArgumentEnds, readlineVars, runcmdVars
<1>12. CASE TooManyArguments
  <2>1. out' \in Seq(Codes)
    BY <1>4, <1>12, PrintedAssumption DEF TooManyArguments
  <2>2. Editor'
    BY <1>2, <1>12, <2>1 DEF TooManyArguments
  <2>3. Runcmd'
    BY <1>2, <1>5, <1>12 DEF TooManyArguments
  <2> QED
    BY <1>1, <2>2, <2>3
<1>13. CASE SaveArgument
  <2>1. Append(argv, p) \in Seq(0 .. BUFLEN - 1) /\ Len(Append(argv, p)) = Len(argv) + 1
    BY <1>2
  <2>2. Len(argv) + 1 < MAXARGS
    BY <1>2, <1>3, <1>13 DEF SaveArgument
  <2>3. Editor' /\ Runcmd'
    BY <1>2, <1>13, <2>1, <2>2 DEF SaveArgument, readlineVars
  <2> QED
    BY <1>1, <2>3
<1>14. CASE ScanArgument
  <2>1. PICK e \in p .. BUFLEN - 1 : buf[e] = "NUL"
    BY <1>14 DEF ScanArgument, Cutting
  <2>2. p + 1 \in 0 .. BUFLEN - 1
    BY <1>2, <1>3, <1>14, <2>1 DEF ScanArgument
  <2>3. Editor' /\ Runcmd'
    BY <1>2, <1>14, <2>2 DEF ScanArgument, readlineVars
  <2> QED
    BY <1>1, <2>3
<1>15. CASE EmptyCommand
  BY <1>1, <1>2, <1>5, <1>15 DEF EmptyCommand, readlineVars
<1>16. CASE RunCommand
  <2>1. PICK k \in DOMAIN Commands : out' = Chars(Report(k)) /\ ran' = k
    BY <1>16 DEF RunCommand
  <2>2. out' \in Seq(Codes)
    BY <1>4, <2>1, PrintedAssumption
  <2>3. Editor'
    BY <1>2, <1>16, <2>2 DEF RunCommand
  <2>4. Runcmd'
    BY <1>2, <1>3, <1>5, <1>16, <2>1 DEF RunCommand
  <2> QED
    BY <1>1, <2>3, <2>4
<1>17. CASE UnknownCommand
  <2>1. CString(buf, argv[1]) \in Seq(STRING)
    BY <1>17, FirstArgument DEF UnknownCommand
  <2>2. /\ Chars(Complaint) \in Seq(Codes) /\ StringChars(CString(buf, argv[1])) \in Seq(Codes)
        /\ <<Plain("NL")>> \in Seq(Codes)
    BY <1>4, <2>1, StringCharsCodes, PrintedAssumption, NewlineCode
  <2>3. out' \in Seq(Codes)
    BY <1>17, <2>2, Appended DEF UnknownCommand
  <2>4. Editor'
    BY <1>2, <1>17, <2>3 DEF UnknownCommand
  <2>5. Runcmd'
    BY <1>2, <1>5, <1>17 DEF UnknownCommand
  <2> QED
    BY <1>1, <2>4, <2>5
<1>18. CASE Panics
  <2>1. PICK fmt \in {Formats[k] : k \in DOMAIN Formats} : _panic(fmt)
    BY <1>18, PanicAssumption DEF Panics
  <2>2. Message(fmt) \in Seq(STRING)
    BY <2>1, PanicAssumption
  <2>3. \E before \in Seq(Codes) : monitor(before)
    <3>1. CASE panicstr # "NULL"
      <4>1. monitor(<<>>) /\ <<>> \in Seq(Codes)
        BY <2>1, <3>1 DEF _panic
      <4> QED
        BY <4>1
    <3>2. CASE panicstr = "NULL"
      <4> DEFINE before == Chars(Message(fmt)) \o <<Plain("NL")>>
      <4>1. monitor(before)
        BY <2>1, <3>2 DEF _panic
      <4>2. before \in Seq(Codes)
        BY <1>4, <2>2
      <4> HIDE DEF before
      <4> QED
        BY <4>1, <4>2
    <3> QED
      BY <3>1, <3>2
  <2>4. out' \in Seq(Codes)
    BY <1>4, <2>3, PrintedAssumption, Appended DEF monitor
  <2>5. Editor'
    BY <1>2, <1>3, <2>1, <2>3, <2>4 DEF _panic, monitor
  <2>6. Runcmd'
    BY <1>2, <1>5, <2>1, <2>3 DEF _panic, monitor
  <2> QED
    BY <1>1, <2>5, <2>6
<1>19. CASE _warn
  <2>1. out' \in Seq(Codes)
    BY <1>4, <1>19, PanicAssumption DEF _warn
  <2>2. Editor' /\ Runcmd'
    BY <1>2, <1>19, <2>1 DEF _warn, runcmdVars
  <2> QED
    BY <1>1, <2>2
<1>20. CASE UNCHANGED allVars
  BY <1>1, <1>2, <1>20 DEF allVars, vars, readlineVars, runcmdVars
<1> QED
  BY <1>6, <1>7, <1>8, <1>9, <1>10, <1>11, <1>12, <1>13, <1>14, <1>15, <1>16, <1>17, <1>18,
     <1>19, <1>20 DEF PanicNext, Next, runcmd

\* The prompt and the line, glyph by glyph.
LEMMA TextAt ==
  Types => /\ \A k \in 1 .. Len(Prompt) : Text[k] = Prompt[k]
           /\ \A j \in 0 .. BUFLEN - 1 : Text[Len(Prompt) + j + 1] = buf[j]
<1> SUFFICES ASSUME Types
             PROVE  /\ \A k \in 1 .. Len(Prompt) : Text[k] = Prompt[k]
                    /\ \A j \in 0 .. BUFLEN - 1 : Text[Len(Prompt) + j + 1] = buf[j]
  OBVIOUS
<1>1. BUFLEN \in Nat /\ Len(Prompt) \in Nat
  BY Sizes
<1>2. ASSUME NEW j \in 0 .. BUFLEN - 1 PROVE Text[Len(Prompt) + j + 1] = buf[j]
  <2> DEFINE k == Len(Prompt) + j + 1
  <2>1. k \in 1 .. Len(Prompt) + BUFLEN /\ ~(k <= Len(Prompt)) /\ k - Len(Prompt) - 1 = j
    BY <1>1
  <2> HIDE DEF k
  <2>2. Text[k] = buf[k - Len(Prompt) - 1]
    BY <2>1 DEF Text
  <2> QED
    BY <2>1, <2>2 DEF k
<1> QED
  BY <1>1, <1>2 DEF Text

\* One glyph of the prompt is printed.
LEMMA PromptPrinted ==
  ASSUME Types, Editing, PrintChar, pc = "reading"
  PROVE  Editing'
<1> DEFINE n == Len(Prompt) - Len(out)
<1>0. /\ out # <<>> /\ scr' = cga_putc(scr, Head(out)) /\ out' = Tail(out)
      /\ UNCHANGED <<buf, i, pc>>
  BY DEF PrintChar
<1>1. /\ i = 0 /\ Len(out) <= Len(Prompt)
      /\ \A k \in 1 .. Len(out) : out[k] = Plain(Prompt[Len(Prompt) - Len(out) + k])
      /\ Shown(scr, Text, Len(Prompt) - Len(out) + i)
  BY <1>0 DEF Editing
<1>2. out \in Seq(Codes) /\ scr \in Screens
  BY DEF Types, MonitorTypeOK, TypeOK, Codes
<1>3. /\ Len(out) \in Nat /\ Len(out) > 0 /\ Head(out) = out[1] /\ Len(Tail(out)) = Len(out) - 1
      /\ \A k \in 1 .. Len(out) - 1 : Tail(out)[k] = out[k + 1]
  BY <1>0, <1>2
<1>4. n \in Nat /\ n + 1 \in 1 .. Len(Prompt) /\ n + 1 <= CRT_SIZE - CRT_COLS
  BY <1>1, <1>3, Sizes
<1>5. Head(out) = Plain(Prompt[n + 1])
  BY <1>1, <1>3
<1>6. Prompt[n + 1] \in STRING /\ Prompt[n + 1] \notin {"BS", "NL", "CR"}
  BY <1>4, Constants
<1>7. Head(out) \in Codes /\ Head(out).ch = Prompt[n + 1]
  BY <1>5, <1>6, PlainCode
<1>8. Text[n + 1] = Head(out).ch
  BY <1>4, <1>7, TextAt
<1>9. Shown(scr, Text, n)
  <2>1. Len(Prompt) - Len(out) + i = n
    BY <1>1, <1>4
  <2> QED
    BY <1>1, <2>1
<1>10. Shown(scr', Text, n + 1)
  <2> HIDE DEF n
  <2>1. Shown(cga_putc(scr, Head(out)), Text, n + 1)
    BY <1>2, <1>4, <1>6, <1>7, <1>8, <1>9, PutcGlyph
  <2> QED
    BY <1>0, <2>1
<1>11. Text' = Text
  BY <1>0 DEF Text
<1>12. Shown(scr', Text', Len(Prompt) - Len(out') + i')
  <2>1. Len(Prompt) - Len(out') + i' = n + 1
    BY <1>0, <1>1, <1>3, <1>4, Sizes
  <2> QED
    BY <1>10, <1>11, <2>1
<1>13. \A k \in 1 .. Len(out') : out'[k] = Plain(Prompt[Len(Prompt) - Len(out') + k])
  <2> SUFFICES ASSUME NEW k \in 1 .. Len(out')
               PROVE  out'[k] = Plain(Prompt[Len(Prompt) - Len(out') + k])
    OBVIOUS
  <2>1. k + 1 \in 1 .. Len(out) /\ out'[k] = out[k + 1]
    BY <1>0, <1>3
  <2>2. Len(Prompt) - Len(out) + (k + 1) = Len(Prompt) - Len(out') + k
    BY <1>0, <1>3, <1>4, Sizes
  <2> QED
    BY <1>1, <2>1, <2>2
<1>14. Len(out') <= Len(Prompt) /\ i' = 0
  BY <1>0, <1>1, <1>3, Sizes
<1>15. \A k \in 0 .. i' - 1 : buf'[k] # "NUL"
  BY <1>14
<1> QED
  BY <1>12, <1>13, <1>14, <1>15 DEF Editing

\* A character is typed into the line, or rubbed out.
LEMMA LineEdited ==
  ASSUME Types, Editing, NEW ch \in Input, Handle(ch), pc' = "reading"
  PROVE  Editing'
<1> DEFINE n == Len(Prompt) + i
<1>1. pc = "reading" /\ out = <<>> /\ Len(out) = 0
  BY DEF Handle
<1>2. Shown(scr, Text, n) /\ \A k \in 0 .. i - 1 : buf[k] # "NUL"
  <2>1. Len(Prompt) - Len(out) + i = n
    BY <1>1, Sizes, TypeFacts
  <2> QED
    BY <1>1, <2>1 DEF Editing
<1>3. /\ BUFLEN \in Nat /\ i \in 0 .. BUFLEN - 1 /\ n \in Nat
      /\ buf \in [0 .. BUFLEN - 1 -> Input \cup {"NUL"}]
  BY TypeFacts, Sizes
<1>4. scr \in Screens
  BY DEF Types
\* What is left to show.
<1>5. SUFFICES ASSUME out' = out, i' \in Nat
               PROVE  Shown(scr', Text', Len(Prompt) + i') /\ \A k \in 0 .. i' - 1 : buf'[k] # "NUL"
  <2>1. out' = out /\ i' \in Nat
    BY <1>1, <1>3, HandleTypes
  <2>2. Len(out') = 0 /\ Len(Prompt) - Len(out') + i' = Len(Prompt) + i' /\ Len(out') <= Len(Prompt)
    BY <1>1, <2>1, Sizes
  <2> QED
    BY <1>1, <2>1, <2>2, <1>5 DEF Editing
<1>6. CASE EraseChar(ch)
  <2>1. scr' = cga_putc(scr, Plain("BS")) /\ i' = i - 1 /\ i > 0 /\ buf' = buf
    BY <1>6 DEF EraseChar, Erases, cputchar
  <2>2. n \in Nat \ {0} /\ n - 1 = Len(Prompt) + i'
    BY <1>3, <2>1, Sizes
  <2>3. Shown(cga_putc(scr, Plain("BS")), Text, n - 1)
    <3> HIDE DEF n
    <3> QED
      BY <1>2, <1>4, <2>2, PutcErase
  <2>4. Text' = Text
    BY <2>1 DEF Text
  <2> QED
    BY <1>2, <1>3, <2>1, <2>2, <2>3, <2>4
<1>7. CASE StoreChar(ch)
  <2>1. /\ scr' = cga_putc(scr, Plain(ch)) /\ buf' = [buf EXCEPT ![i] = ch] /\ i' = i + 1
        /\ i < BUFLEN - 1 /\ ch \notin Control
    BY <1>7 DEF StoreChar, Stores, cputchar
  <2>2. ch \in STRING /\ ch # "NUL" /\ ch \notin {"BS", "NL", "CR"}
    BY <2>1, Constants
  <2>3. Plain(ch) \in Codes /\ Plain(ch).ch = ch
    BY <2>2, PlainCode
  <2>4. n + 1 <= CRT_SIZE - CRT_COLS
    BY <1>3, <2>1, Sizes
  <2>5. \A k \in 0 .. i' - 1 : buf'[k] # "NUL"
    BY <1>2, <1>3, <2>1, <2>2
  <2>6. \A k \in 1 .. n : Text'[k] = Text[k]
    <3> SUFFICES ASSUME NEW k \in 1 .. n PROVE Text'[k] = Text[k]
      OBVIOUS
    <3>1. k \in 1 .. Len(Prompt) + BUFLEN
      BY <1>3, Sizes
    <3>2. ~(k <= Len(Prompt)) => buf'[k - Len(Prompt) - 1] = buf[k - Len(Prompt) - 1]
      BY <1>3, <2>1, Sizes
    <3> QED
      BY <3>1, <3>2 DEF Text
  <2>7. Text'[n + 1] = ch
    <3>1. n + 1 \in 1 .. Len(Prompt) + BUFLEN /\ ~(n + 1 <= Len(Prompt)) /\ (n + 1) - Len(Prompt) - 1 = i
      BY <1>3, Sizes
    <3>2. buf'[i] = ch
      BY <1>3, <2>1
    <3> HIDE DEF n
    <3> QED
      BY <3>1, <3>2 DEF Text
  <2>8. Shown(cga_putc(scr, Plain(ch)), Text', n + 1)
    <3> HIDE DEF n
    <3> QED
      BY <1>2, <1>3, <1>4, <2>2, <2>3, <2>4, <2>6, <2>7, PutcGlyph
  <2>9. n + 1 = Len(Prompt) + i'
    BY <1>3, <2>1, Sizes
  <2> QED
    BY <2>1, <2>5, <2>8, <2>9
<1>8. CASE Ignore(ch)
  BY <1>2, <1>8 DEF Ignore, readlineVars, Text
<1> QED
  BY <1>6, <1>7, <1>8 DEF Handle, EndLine

LEMMA EditingStep == Types /\ Places /\ Editing /\ [PanicNext]_allVars => Editing'
<1> SUFFICES ASSUME Types, Places, Editing, [PanicNext]_allVars PROVE Editing'
  OBVIOUS
<1>1. CASE pc' # "reading"
  BY <1>1 DEF Editing
<1>2. CASE pc' = pc /\ mon # "readline"
  BY <1>1, <1>2 DEF Places
<1>3. CASE UNCHANGED readlineVars
  BY <1>3 DEF readlineVars, Editing, Text, Shown
<1>4. CASE Prompts
  <2>1. /\ out' = [k \in DOMAIN Prompt |-> Plain(Prompt[k])] /\ i' = 0 /\ UNCHANGED <<buf, scr>>
    BY <1>4 DEF Prompts, CallReadline
  <2>2. Len(out') = Len(Prompt) /\ Len(Prompt) \in Nat
    BY <2>1, PromptCodes, Sizes
  <2>3. \A k \in 1 .. Len(out') : out'[k] = Plain(Prompt[Len(Prompt) - Len(out') + k])
    BY <2>1, <2>2, PromptCodes
  <2>4. Shown(scr', Text', 0)
    <3>1. 0 <= scr.pos
      BY DEF Types, Screens, Cells
    <3> QED
      BY <2>1, <3>1 DEF Shown
  <2>5. Len(Prompt) - Len(out') + i' = 0
    BY <2>1, <2>2
  <2> QED
    BY <2>1, <2>2, <2>3, <2>4, <2>5 DEF Editing
<1>5. CASE Prints
  <2>1. PrintChar /\ pc' = pc
    BY <1>5 DEF Prints, PrintChar
  <2> QED
    BY <1>1, <2>1, PromptPrinted
<1>6. CASE Edits
  <2>1. PICK ch \in Input : Handle(ch)
    BY <1>6 DEF Edits, getchar
  <2> QED
    BY <1>6, <2>1, LineEdited DEF Edits
<1>7. CASE Enters \/ Panics
  BY <1>1, <1>7 DEF Enters, Panics, _panic, monitor
<1>8. CASE runcmd
  BY <1>2, <1>8 DEF runcmd, GobbleWhitespace, EndOfLine, TooManyArguments, SaveArgument,
       ScanArgument, ArgumentEnds, EmptyCommand, RunCommand, UnknownCommand, readlineVars
<1>9. CASE _warn
  BY <1>2, <1>9 DEF _warn
<1>10. CASE UNCHANGED allVars
  BY <1>3, <1>10 DEF allVars, vars
<1> QED
  BY <1>4, <1>5, <1>6, <1>7, <1>8, <1>9, <1>10 DEF PanicNext, Next

LEMMA IdleStep == Idle /\ [PanicNext]_allVars => Idle'
<1> SUFFICES ASSUME Idle, [PanicNext]_allVars PROVE Idle'
  OBVIOUS
<1> USE DEF Idle
<1>1. CASE Prompts
  BY <1>1 DEF Prompts
<1>2. CASE Prints
  BY <1>2 DEF Prints, runcmdVars
<1>3. CASE Edits \/ Enters
  BY <1>3 DEF Edits, Enters, runcmdVars
<1>4. CASE GobbleWhitespace \/ EndOfLine \/ SaveArgument \/ ScanArgument \/ ArgumentEnds
  BY <1>4 DEF GobbleWhitespace, EndOfLine, SaveArgument, ScanArgument, ArgumentEnds, runcmdVars
<1>5. CASE TooManyArguments \/ EmptyCommand \/ RunCommand \/ UnknownCommand
  BY <1>5 DEF TooManyArguments, EmptyCommand, RunCommand, UnknownCommand, Leaves
<1>6. CASE Panics
  BY <1>6 DEF Panics, _panic, monitor, Leaves
<1>7. CASE _warn
  BY <1>7 DEF _warn, runcmdVars
<1>8. CASE UNCHANGED allVars
  BY <1>8 DEF allVars, vars, runcmdVars
<1> QED
  BY <1>1, <1>2, <1>3, <1>4, <1>5, <1>6, <1>7, <1>8 DEF PanicNext, Next, runcmd

\* What it means to be where a word starts.
LEMMA WordStart ==
  ASSUME NEW S, NEW l \in Seq(S), NEW s \in Int
  PROVE  /\ s \in WordStarts(l) <=>
              /\ s \in 1 .. Len(l) /\ l[s] \notin Whitespace
              /\ s - 1 \notin 1 .. Len(l) \/ l[s - 1] \in Whitespace
         /\ Blank_at(l, s) <=> s \notin 1 .. Len(l) \/ l[s] \in Whitespace
         /\ WordStarts(l) \subseteq 1 .. Len(l)
<1>1. DOMAIN l = 1 .. Len(l)
  OBVIOUS
<1> QED
  BY <1>1 DEF WordStarts, Blank_at

\* readline returns the line in its buffer.
LEMMA LineEntered ==
  ASSUME Types, Editing, Enters
  PROVE  /\ line' \in Seq(Input) /\ Len(line') = i /\ buf'[i] = "NUL"
         /\ \A j \in 0 .. i - 1 : buf'[j] = line'[j + 1]
<1>0. /\ BUFLEN \in Nat /\ i \in 0 .. BUFLEN - 1 /\ buf \in [0 .. BUFLEN - 1 -> Input \cup {"NUL"}]
  BY TypeFacts
<1>1. PICK ch \in Input : Handle(ch)
  BY DEF Enters, getchar
<1>2. EndLine(ch) /\ pc = "reading"
  BY <1>1 DEF Handle, Enters, EraseChar, StoreChar, Ignore, readlineVars
<1>3. buf' = [buf EXCEPT ![i] = "NUL"]
  BY <1>2 DEF EndLine
<1>4. \A k \in 0 .. i - 1 : buf[k] # "NUL"
  BY <1>2 DEF Editing
<1>5. EndsAt(buf', 0, i)
  BY <1>0, <1>3, <1>4 DEF EndsAt
<1>6. line' = [k \in 1 .. i - 0 |-> buf'[0 + k - 1]]
  BY <1>0, <1>5, CStringOf DEF Enters
<1>7. line' = [k \in 1 .. i |-> buf'[k - 1]]
  <2>1. i - 0 = i /\ \A k \in 1 .. i : 0 + k - 1 = k - 1
    BY <1>0
  <2> QED
    BY <1>6, <2>1
<1>8. \A k \in 1 .. i : buf'[k - 1] \in Input
  <2> SUFFICES ASSUME NEW k \in 1 .. i PROVE buf'[k - 1] \in Input
    OBVIOUS
  <2>1. k - 1 \in 0 .. i - 1 /\ k - 1 \in 0 .. BUFLEN - 1 /\ k - 1 # i
    BY <1>0
  <2> QED
    BY <1>0, <1>3, <1>4, <2>1
<1>9. line' \in Seq(Input) /\ Len(line') = i
  BY <1>0, <1>7, <1>8
<1>10. ASSUME NEW j \in 0 .. i - 1 PROVE buf'[j] = line'[j + 1]
  <2>1. j + 1 \in 1 .. i /\ j + 1 - 1 = j
    BY <1>0
  <2> QED
    BY <1>7, <2>1
<1> QED
  BY <1>0, <1>3, <1>9, <1>10

\* Looking one character further, at none that starts a word.
LEMMA Advanced ==
  ASSUME WordsSaved, UNCHANGED <<argv, line>>, NEW n \in Int, Reached = n, Reached' = n + 1,
         n + 1 \notin WordStarts(line), WordStarts(line) \subseteq Int,
         \A k \in 1 .. Len(argv) : argv[k] \in Int
  PROVE  WordsSaved'
<1>1. \A k \in 1 .. Len(argv) : argv[k] + 1 \in WordStarts(line) /\ argv[k] < n + 1
  BY DEF WordsSaved
<1>2. \A s \in WordStarts(line) : s <= n + 1 => s <= n
  OBVIOUS
<1>3. \A s \in WordStarts(line) : s <= n + 1 => \E k \in 1 .. Len(argv) : argv[k] + 1 = s
  BY <1>2 DEF WordsSaved
<1> QED
  BY <1>1, <1>3 DEF WordsSaved

LEMMA DividedStep ==
  Types /\ Places /\ Editing /\ Divided /\ [PanicNext]_allVars => Divided'
<1> SUFFICES ASSUME Types, Places, Editing, Divided, [PanicNext]_allVars PROVE Divided'
  OBVIOUS
<1>0. /\ BUFLEN \in Nat /\ p \in 0 .. BUFLEN - 1
      /\ buf \in [0 .. BUFLEN - 1 -> Input \cup {"NUL"}]
      /\ i \in 0 .. BUFLEN - 1
      /\ Len(argv) \in Nat /\ argv \in Seq(0 .. BUFLEN - 1)
      /\ \A k \in 1 .. Len(argv) : argv[k] \in 0 .. BUFLEN - 1
  BY TypeFacts
<1>1. CASE mon' \notin {"gobble", "scan", "lookup"}
  BY <1>1 DEF Divided
<1>2. CASE UNCHANGED <<mon, buf, p, argv, line>>
  BY <1>2 DEF Divided, CutUp, WordsSaved, Reached
\* A line comes in, whole.
<1>3. CASE Enters
  <2>1. mon' = "gobble" /\ p' = 0 /\ argv' = <<>> /\ Len(argv') = 0
    BY <1>3 DEF Enters
  <2>2. /\ line' \in Seq(Input) /\ Len(line') = i /\ buf'[i] = "NUL"
        /\ \A j \in 0 .. i - 1 : buf'[j] = line'[j + 1]
    BY <1>3, LineEntered
  <2>3. CutUp'
    BY <1>0, <2>1, <2>2 DEF CutUp
  <2>4. WordsSaved'
    <3>1. Reached' = 0
      BY <2>1 DEF Reached
    <3>2. \A s \in WordStarts(line') : s \in 1 .. Len(line')
      BY <2>2, WordStart
    <3> QED
      BY <2>1, <3>1, <3>2 DEF WordsSaved
  <2>5. Blank_at(line', p')
    BY <2>1, <2>2, WordStart
  <2> QED
    BY <2>1, <2>3, <2>4, <2>5 DEF Divided
\* The steps of runcmd over the line.
<1>4. ASSUME mon \in {"gobble", "scan"}
      PROVE  /\ CutUp /\ WordsSaved
             /\ Len(line) \in Nat /\ Len(line) \in 0 .. BUFLEN - 1 /\ p \in 0 .. Len(line)
             /\ \A j \in 1 .. Len(line) : line[j] \in Input /\ line[j] # "NUL"
             /\ buf[p] = IF p = Len(line) THEN "NUL" ELSE line[p + 1]
             /\ buf[p] = "NUL" <=> p = Len(line)
             /\ Blank_at(line, p + 1) <=> buf[p] \in Whitespace \cup {"NUL"}
  <2>1. CutUp /\ WordsSaved /\ line \in Seq(Input) /\ Len(line) \in 0 .. BUFLEN - 1 /\ p <= Len(line)
    BY <1>4 DEF Divided, CutUp
  <2>2. Len(line) \in Nat /\ p \in 0 .. Len(line)
    BY <1>0, <2>1
  <2>3. \A j \in 1 .. Len(line) : line[j] \in Input /\ line[j] # "NUL"
    <3>1. \A j \in 1 .. Len(line) : line[j] \in Input
      BY <2>1
    <3>2. \A ch \in Input : ch # "NUL"
      BY Constants, Zenon
    <3> QED
      BY <3>1, <3>2, Zenon
  <2>4. buf[p] = IF p = Len(line) THEN "NUL" ELSE line[p + 1]
    BY <2>1, <2>2 DEF CutUp
  <2>5. p # Len(line) => p + 1 \in 1 .. Len(line)
    BY <2>2
  <2>6. buf[p] = "NUL" <=> p = Len(line)
    BY <2>3, <2>4, <2>5
  <2>7. Blank_at(line, p + 1) <=> p + 1 \notin 1 .. Len(line) \/ line[p + 1] \in Whitespace
    BY <2>1, <2>2, WordStart
  <2>8. p = Len(line) => p + 1 \notin 1 .. Len(line)
    BY <2>2
  <2> QED
    BY <2>1, <2>2, <2>3, <2>4, <2>5, <2>6, <2>7, <2>8
<1>5. CASE GobbleWhitespace
  <2>1. /\ mon = "gobble" /\ mon' = "gobble" /\ buf[p] \in Whitespace /\ buf[p] # "NUL"
        /\ buf' = [buf EXCEPT ![p] = "NUL"] /\ p' = p + 1 /\ UNCHANGED <<argv, line>>
    BY <1>5 DEF GobbleWhitespace, Whitespace
  <2>2. /\ CutUp /\ WordsSaved /\ Len(line) \in Nat /\ Len(line) \in 0 .. BUFLEN - 1
        /\ p \in 0 .. Len(line) - 1 /\ buf[p] = line[p + 1] /\ Blank_at(line, p + 1)
    BY <1>4, <2>1
  <2>3. CutUp'
    BY <1>0, <2>1, <2>2 DEF CutUp
  <2>4. p + 1 \notin WordStarts(line)
    BY <2>2 DEF WordStarts
  <2>5. WordStarts(line) \subseteq Int
    BY <2>2, WordStart DEF CutUp
  <2>6. Reached = p /\ Reached' = p + 1
    BY <2>1 DEF Reached
  <2>7. WordsSaved'
    BY <1>0, <2>1, <2>2, <2>4, <2>5, <2>6, Advanced
  <2> QED
    BY <2>1, <2>2, <2>3, <2>7 DEF Divided
<1>6. CASE EndOfLine
  <2>1. mon = "gobble" /\ mon' = "lookup" /\ buf[p] = "NUL" /\ UNCHANGED <<buf, p, argv, line>>
    BY <1>6 DEF EndOfLine, readlineVars, runcmdVars
  <2> QED
    BY <1>4, <2>1 DEF Divided, CutUp, WordsSaved, Reached
<1>7. CASE SaveArgument
  <2>1. /\ mon = "gobble" /\ mon' = "scan" /\ buf[p] \notin Whitespace \cup {"NUL"}
        /\ argv' = Append(argv, p) /\ UNCHANGED <<buf, p, line>>
    BY <1>7 DEF SaveArgument, readlineVars
  <2>2. /\ CutUp /\ WordsSaved /\ Len(line) \in Nat /\ p \in 0 .. Len(line) - 1
        /\ ~Blank_at(line, p + 1) /\ Blank_at(line, p)
    BY <1>4, <2>1 DEF Divided
  <2>3. CutUp'
    BY <2>1, <2>2 DEF CutUp
  <2>4. p + 1 \in WordStarts(line)
    <3>1. line \in Seq(Input) /\ p + 1 \in Int /\ p \in Int /\ p + 1 - 1 = p
      BY <2>2 DEF CutUp
    <3> QED
      BY <2>2, <3>1, WordStart
  <2>5. Reached = p /\ Reached' = p + 1
    BY <2>1 DEF Reached
  <2>6. /\ Len(argv') = Len(argv) + 1 /\ argv'[Len(argv) + 1] = p
        /\ \A k \in 1 .. Len(argv) : argv'[k] = argv[k]
    BY <1>0, <2>1
  <2>7. WordsSaved'
    <3>1. ASSUME NEW k \in 1 .. Len(argv')
          PROVE  argv'[k] + 1 \in WordStarts(line) /\ argv'[k] < p + 1
      <4>1. CASE k = Len(argv) + 1
        BY <1>0, <2>4, <2>6, <4>1
      <4>2. CASE k \in 1 .. Len(argv)
        BY <1>0, <2>2, <2>5, <2>6, <4>2 DEF WordsSaved
      <4> QED
        BY <1>0, <2>6, <4>1, <4>2
    <3>2. ASSUME NEW j \in 1 .. Len(argv'), NEW k \in 1 .. Len(argv'), j < k
          PROVE  argv'[j] < argv'[k]
      <4>1. j \in 1 .. Len(argv) /\ argv'[j] = argv[j] /\ argv[j] < p
        BY <1>0, <2>2, <2>5, <2>6, <3>2 DEF WordsSaved
      <4>2. CASE k = Len(argv) + 1
        BY <2>6, <4>1, <4>2
      <4>3. CASE k \in 1 .. Len(argv)
        BY <2>2, <2>6, <3>2, <4>1, <4>3 DEF WordsSaved
      <4> QED
        BY <1>0, <2>6, <4>2, <4>3
    <3>3. ASSUME NEW s \in WordStarts(line), s <= p + 1
          PROVE  \E k \in 1 .. Len(argv') : argv'[k] + 1 = s
      <4>1. CASE s = p + 1
        BY <1>0, <2>6, <4>1
      <4>2. CASE s # p + 1
        <5>1. s <= p
          <6>1. s \in Int /\ p \in Int
            BY <1>0, <2>2, WordStart DEF CutUp
          <6> QED
            BY <3>3, <4>2, <6>1
        <5>2. PICK k \in 1 .. Len(argv) : argv[k] + 1 = s
          BY <2>2, <2>5, <5>1 DEF WordsSaved
        <5> QED
          BY <1>0, <2>6, <5>2
      <4> QED
        BY <4>1, <4>2
    <3> QED
      BY <2>1, <2>5, <3>1, <3>2, <3>3 DEF WordsSaved
  <2> QED
    BY <2>1, <2>3, <2>7 DEF Divided
<1>8. CASE ScanArgument
  <2>1. /\ mon = "scan" /\ mon' = "scan" /\ buf[p] \notin Whitespace \cup {"NUL"}
        /\ p' = p + 1 /\ UNCHANGED <<buf, argv, line>>
    BY <1>8 DEF ScanArgument, readlineVars
  <2>2. /\ CutUp /\ WordsSaved /\ Len(line) \in Nat /\ p \in 0 .. Len(line) - 1
        /\ ~Blank_at(line, p + 1) /\ line[p + 1] \notin Whitespace /\ line \in Seq(Input)
    BY <1>4, <2>1 DEF CutUp
  <2>3. CutUp'
    BY <1>0, <2>1, <2>2 DEF CutUp
  <2>4. p + 2 \notin WordStarts(line) /\ WordStarts(line) \subseteq Int
    <3>1. p + 2 \in Int /\ p + 2 - 1 = p + 1 /\ p + 1 \in 1 .. Len(line)
      BY <2>2
    <3> QED
      BY <2>2, <3>1, WordStart
  <2>5. Reached = p + 1 /\ Reached' = p + 2
    BY <1>0, <2>1 DEF Reached
  <2>6. WordsSaved'
    BY <1>0, <2>1, <2>2, <2>4, <2>5, Advanced
  <2> QED
    BY <2>1, <2>3, <2>6 DEF Divided
<1>9. CASE ArgumentEnds
  <2>1. /\ mon = "scan" /\ mon' = "gobble" /\ buf[p] \in Whitespace \cup {"NUL"}
        /\ UNCHANGED <<buf, p, argv, line>>
    BY <1>9 DEF ArgumentEnds, readlineVars, runcmdVars
  <2>2. CutUp /\ WordsSaved /\ Blank_at(line, p + 1) /\ line \in Seq(Input)
    BY <1>4, <2>1 DEF CutUp
  <2>3. p + 1 \notin WordStarts(line) /\ WordStarts(line) \subseteq Int
    <3>1. p + 1 \in Int
      BY <1>0
    <3> QED
      BY <2>2, <3>1, WordStart
  <2>4. CutUp'
    BY <2>1, <2>2 DEF CutUp
  <2>5. Reached = p + 1 /\ Reached' = p
    BY <2>1 DEF Reached
  <2>6. \A k \in 1 .. Len(argv) : argv[k] < p
    BY <1>0, <2>2, <2>3, <2>5 DEF WordsSaved
  <2>7. WordsSaved'
    <3>1. p <= p + 1 /\ WordStarts(line') = WordStarts(line) /\ Len(argv') = Len(argv)
      BY <1>0, <2>1
    <3>2. \A s \in WordStarts(line) : s <= p => s <= p + 1
      BY <1>0, <2>3
    <3> QED
      BY <2>1, <2>2, <2>5, <2>6, <3>1, <3>2 DEF WordsSaved
  <2> QED
    BY <2>1, <2>2, <2>4, <2>7 DEF Divided
<1> QED
  <2>1. CASE Prompts \/ Edits
    BY <1>1, <2>1 DEF Prompts, Edits
  <2>2. CASE Prints \/ UNCHANGED allVars
    BY <1>2, <2>2 DEF Prints, PrintChar, allVars, vars, readlineVars, runcmdVars
  <2>4. CASE TooManyArguments \/ EmptyCommand \/ RunCommand \/ UnknownCommand
    BY <1>1, <2>4 DEF TooManyArguments, EmptyCommand, RunCommand, UnknownCommand, Leaves
  <2>5. CASE Panics
    BY <1>1, <2>5 DEF Panics, _panic, monitor, Leaves
  <2>6. CASE _warn
    BY <1>2, <2>6 DEF _warn, runcmdVars
  <2> QED
    BY <1>3, <1>5, <1>6, <1>7, <1>8, <1>9, <2>1, <2>2, <2>4, <2>5, <2>6 DEF PanicNext, Next, runcmd

-----------------------------------------------------------------------------
(* The words of a line: the places where they start, in increasing order, are *)
(* one sequence only.                                                         *)

Rising(q, m) == \A j, k \in 1 .. m : j < k => q[j] < q[k]
Covers(q, m, W) == \A s \in W : \E k \in 1 .. m : q[k] = s

LEMMA Least ==
  ASSUME NEW T, T \subseteq Nat, T # {}
  PROVE  \E x \in T : \A y \in T : x <= y
<1>1. PICK x \in T : \A y \in T : ~ (<<y, x>> \in OpToRel(<, Nat))
  BY NatLessThanWellFounded, WFMin
<1>2. \A y \in T : ~ (y < x)
  BY <1>1 DEF OpToRel
<1> QED
  BY <1>2

\* The k-th of rising numbers is k at least.
LEMMA RisingBound ==
  ASSUME NEW n \in Nat, NEW m \in Nat, NEW q \in [1 .. m -> 1 .. n], Rising(q, m)
  PROVE  m <= n
<1> DEFINE T == {k \in 1 .. m : q[k] < k}
<1>1. T = {}
  <2> SUFFICES ASSUME T # {} PROVE FALSE
    OBVIOUS
  <2>1. T \subseteq Nat
    OBVIOUS
  <2>2. PICK k \in T : \A y \in T : k <= y
    BY <2>1, Least
  <2>3. k \in 1 .. m /\ q[k] < k /\ q[k] \in 1 .. n
    OBVIOUS
  <2>4. k - 1 \in 1 .. m /\ k - 1 < k
    BY <2>3
  <2>5. k - 1 \notin T
    BY <2>2, <2>3
  <2>6. q[k - 1] >= k - 1 /\ q[k - 1] \in 1 .. n
    BY <2>4, <2>5
  <2>7. q[k - 1] < q[k]
    BY <2>3, <2>4 DEF Rising
  <2> QED
    BY <2>3, <2>6, <2>7
<1>2. CASE m > 0
  <2>1. m \in 1 .. m /\ q[m] \in 1 .. n
    BY <1>2
  <2>2. ~(q[m] < m)
    BY <1>1, <2>1
  <2> QED
    BY <2>1, <2>2
<1> QED
  BY <1>2

\* Of two rising sequences with the same elements, the first is no longer than the second, and
\* agrees with it.
LEMMA RisingAgree ==
  ASSUME NEW W, W \subseteq Int, NEW m \in Nat, NEW q \in [1 .. m -> W], Rising(q, m), Covers(q, m, W),
         NEW n \in Nat, NEW r \in [1 .. n -> W], Rising(r, n), Covers(r, n, W)
  PROVE  \A k \in 1 .. m : k \in 1 .. n /\ q[k] = r[k]
<1> DEFINE T == {k \in 1 .. m : ~(k \in 1 .. n /\ q[k] = r[k])}
<1> SUFFICES ASSUME T # {} PROVE FALSE
  OBVIOUS
<1>1. T \subseteq Nat
  OBVIOUS
<1>2. PICK k \in T : \A y \in T : k <= y
  BY <1>1, Least
<1>3. k \in 1 .. m /\ q[k] \in W /\ q[k] \in Int
  OBVIOUS
<1>4. ASSUME NEW j \in 1 .. m, j < k PROVE j \in 1 .. n /\ q[j] = r[j] /\ q[j] < q[k]
  <2>1. j \notin T
    BY <1>2, <1>3, <1>4
  <2> QED
    BY <1>3, <1>4, <2>1 DEF Rising
<1>5. PICK x \in 1 .. n : r[x] = q[k]
  BY <1>3 DEF Covers
<1>6. x > k
  <2>1. ~(x < k)
    <3> SUFFICES ASSUME x < k PROVE FALSE
      OBVIOUS
    <3>1. x \in 1 .. m
      BY <1>3
    <3> QED
      BY <1>3, <1>4, <1>5, <3>1
  <2>2. x # k
    BY <1>2, <1>5
  <2> QED
    BY <1>3, <2>1, <2>2
<1>7. k \in 1 .. n /\ r[k] < q[k] /\ r[k] \in W
  BY <1>3, <1>5, <1>6 DEF Rising
<1>8. PICK y \in 1 .. m : q[y] = r[k]
  BY <1>7 DEF Covers
<1>9. CASE y < k
  <2>1. r[y] = r[k] /\ y \in 1 .. n
    BY <1>4, <1>8, <1>9
  <2>2. r[y] < r[k] /\ r[y] \in Int
    BY <1>7, <1>9, <2>1 DEF Rising
  <2> QED
    BY <2>1, <2>2
<1>10. CASE y = k
  BY <1>3, <1>7, <1>8, <1>10
<1>11. CASE y > k
  <2>1. q[k] < q[y] /\ q[y] \in Int
    BY <1>3, <1>11 DEF Rising
  <2> QED
    BY <1>3, <1>7, <1>8, <2>1
<1> QED
  BY <1>3, <1>9, <1>10, <1>11

LEMMA RisingSame ==
  ASSUME NEW W, W \subseteq Int, NEW m \in Nat, NEW q \in [1 .. m -> W], Rising(q, m), Covers(q, m, W),
         NEW n \in Nat, NEW r \in [1 .. n -> W], Rising(r, n), Covers(r, n, W)
  PROVE  q = r
<1>1. \A k \in 1 .. m : k \in 1 .. n /\ q[k] = r[k]
  BY RisingAgree
<1>2. \A k \in 1 .. n : k \in 1 .. m /\ r[k] = q[k]
  BY RisingAgree
<1>3. m = n
  BY <1>1, <1>2
<1> QED
  BY <1>1, <1>3

LEMMA StartsAre ==
  ASSUME NEW S, NEW l \in Seq(S), NEW m \in Nat, NEW q \in [1 .. m -> WordStarts(l)],
         Rising(q, m), Covers(q, m, WordStarts(l))
  PROVE  Starts(l) = q
<1> DEFINE W == WordStarts(l)
           All == UNION {[1 .. n -> W] : n \in 0 .. Len(l)}
           Is(r) == /\ \A s \in W : \E k \in DOMAIN r : r[k] = s
                    /\ \A j, k \in DOMAIN r : j < k => r[j] < r[k]
<1>0. Len(l) \in Nat /\ W \subseteq 1 .. Len(l) /\ W \subseteq Int
  <2>1. W \subseteq 1 .. Len(l)
    BY WordStart
  <2> QED
    BY <2>1
<1>1. Starts(l) = CHOOSE r \in All : Is(r)
  BY DEF Starts
<1> HIDE DEF W
<1>2. q \in [1 .. m -> W] /\ Rising(q, m) /\ Covers(q, m, W)
  BY DEF W
<1>3. m <= Len(l)
  <2>1. q \in [1 .. m -> 1 .. Len(l)]
    BY <1>0, <1>2
  <2> QED
    BY <1>0, <1>2, <2>1, RisingBound
<1>4. q \in All /\ Is(q)
  <2>1. m \in 0 .. Len(l)
    BY <1>0, <1>3
  <2>2. DOMAIN q = 1 .. m
    BY <1>2
  <2> QED
    BY <1>2, <2>1, <2>2 DEF Rising, Covers
<1>5. ASSUME NEW r \in All, Is(r) PROVE r = q
  <2>1. PICK n \in 0 .. Len(l) : r \in [1 .. n -> W]
    OBVIOUS
  <2>2. n \in Nat /\ DOMAIN r = 1 .. n
    BY <1>0, <2>1
  <2>3. Rising(r, n) /\ Covers(r, n, W)
    BY <1>5, <2>2 DEF Rising, Covers
  <2> QED
    BY <1>0, <1>2, <2>1, <2>2, <2>3, RisingSame
<1> HIDE DEF All, Is
<1> QED
  BY <1>1, <1>4, <1>5

LEMMA PieceOf ==
  ASSUME NEW S, NEW l \in Seq(S), NEW a \in Nat, NEW b \in Nat, a < b, b <= Len(l)
  PROVE  /\ SubSeq(l, a + 1, b) \in Seq(S) /\ Len(SubSeq(l, a + 1, b)) = b - a
         /\ \A k \in 1 .. b - a : SubSeq(l, a + 1, b)[k] = l[a + k]
<1>1. a + 1 \in 1 .. Len(l) /\ b \in 1 .. Len(l) /\ b - (a + 1) + 1 = b - a
  OBVIOUS
<1>2. SubSeq(l, a + 1, b) \in Seq(S) /\ Len(SubSeq(l, a + 1, b)) = b - a
  BY <1>1
<1>3. ASSUME NEW k \in 1 .. b - a PROVE SubSeq(l, a + 1, b)[k] = l[a + k]
  <2>1. k \in 1 .. b - (a + 1) + 1 /\ a + 1 + k - 1 = a + k
    OBVIOUS
  <2> QED
    BY <1>1, <2>1
<1> QED
  BY <1>2, <1>3

\* The word at a place is the string that the cut-up buffer has there.
LEMMA WordIs ==
  ASSUME Types, CutUp, p = Len(line), NEW q \in 0 .. BUFLEN - 1, q + 1 \in WordStarts(line)
  PROVE  CString(buf, q) = WordFrom(line, q + 1)
<1> DEFINE n == Len(line)
           Run(e) == \A k \in q + 1 .. e : ~Blank_at(line, k)
           E == {e \in q + 1 .. n : Run(e)}
<1>0. /\ line \in Seq(Input) /\ n \in Nat /\ n \in 0 .. BUFLEN - 1 /\ BUFLEN \in Nat
      /\ q \in Nat /\ q + 1 \in 1 .. n /\ DOMAIN line = 1 .. n
      /\ ~Blank_at(line, q + 1)
  <2>1. line \in Seq(Input) /\ n \in 0 .. BUFLEN - 1
    BY DEF CutUp
  <2>2. q + 1 \in 1 .. n /\ ~Blank_at(line, q + 1)
    BY <2>1, WordStart DEF WordStarts
  <2> QED
    BY <2>1, <2>2, TypeFacts
<1>1. ASSUME NEW j \in 0 .. n
      PROVE  buf[j] = "NUL" <=> Blank_at(line, j + 1)
  <2>1. CASE j = n
    <3>1. j + 1 \notin DOMAIN line
      BY <1>0, <2>1
    <3> QED
      BY <2>1, <3>1 DEF CutUp, Blank_at
  <2>2. CASE j # n
    <3>1. j \in 0 .. n - 1 /\ j + 1 \in DOMAIN line /\ j < p
      BY <1>0, <2>2
    <3>2. buf[j] = IF line[j + 1] \in Whitespace THEN "NUL" ELSE line[j + 1]
      BY <3>1 DEF CutUp
    <3>3. line[j + 1] # "NUL"
      <4>1. line[j + 1] \in Input
        BY <1>0, <3>1
      <4>2. \A ch \in Input : ch # "NUL"
        BY Constants, Zenon
      <4> QED
        BY <4>1, <4>2
    <3> QED
      BY <3>1, <3>2, <3>3 DEF Blank_at
  <2> QED
    BY <2>1, <2>2
<1>2. PICK e \in q .. n : EndsAt(buf, q, e)
  <2> DEFINE T == {e \in q .. n : buf[e] = "NUL"}
  <2>1. n \in T
    BY <1>0 DEF CutUp
  <2>2. T \subseteq Nat
    BY <1>0
  <2>3. PICK e \in T : \A y \in T : e <= y
    BY <2>1, <2>2, Least
  <2>4. ASSUME NEW k \in q .. e - 1 PROVE buf[k] # "NUL"
    <3>1. k \notin T /\ k \in q .. n
      BY <1>0, <2>3, <2>4
    <3> QED
      BY <3>1
  <2> QED
    BY <2>3, <2>4 DEF EndsAt
<1>3. e \in q + 1 .. n
  <2>1. buf[q] # "NUL"
    BY <1>0, <1>1
  <2>2. e # q
    BY <1>2, <2>1 DEF EndsAt
  <2> QED
    BY <1>0, <2>2
<1>4. ASSUME NEW k \in q + 1 .. e PROVE ~Blank_at(line, k)
  <2>1. k - 1 \in 0 .. n /\ k - 1 \in q .. e - 1 /\ k - 1 + 1 = k
    BY <1>0, <1>3, <1>4
  <2>2. buf[k - 1] # "NUL"
    BY <1>2, <2>1 DEF EndsAt
  <2>3. buf[k - 1] = "NUL" <=> Blank_at(line, k - 1 + 1)
    BY <1>1, <2>1
  <2> QED
    BY <2>1, <2>2, <2>3
<1>5. e \in E
  BY <1>3, <1>4
<1>6. \A f \in E : e >= f
  <2> SUFFICES ASSUME NEW f \in E, f > e PROVE FALSE
    BY <1>0, <1>3
  <2>1. e + 1 \in q + 1 .. f /\ e \in 0 .. n
    BY <1>0, <1>3
  <2>2. ~Blank_at(line, e + 1)
    BY <2>1
  <2>3. buf[e] = "NUL"
    BY <1>2 DEF EndsAt
  <2> QED
    BY <1>1, <2>1, <2>2, <2>3
<1>7. WordFrom(line, q + 1) = SubSeq(line, q + 1, Max(E))
  BY DEF WordFrom
<1>8. Max(E) = e
  <2>1. \A x \in E : (\A y \in E : x >= y) => x = e
    BY <1>0, <1>5, <1>6
  <2> HIDE DEF E
  <2> QED
    BY <1>5, <1>6, <2>1 DEF Max
<1> HIDE DEF E
<1>9. CString(buf, q) = [k \in 1 .. e - q |-> buf[q + k - 1]]
  <2>1. e \in q .. BUFLEN - 1
    BY <1>0
  <2> QED
    BY <1>2, <2>1, CStringOf
<1>10. ASSUME NEW k \in 1 .. e - q PROVE buf[q + k - 1] = line[q + k] /\ line[q + k] \in Input
  <2>1. /\ q + k - 1 \in 0 .. n - 1 /\ q + k - 1 + 1 = q + k /\ q + k - 1 < p
        /\ q + k \in q + 1 .. e /\ q + k \in 1 .. n
    BY <1>0, <1>3, <1>10
  <2>2. ~Blank_at(line, q + k)
    BY <1>4, <2>1
  <2>3. line[q + k] \notin Whitespace
    BY <1>0, <2>1, <2>2 DEF Blank_at
  <2>4. buf[q + k - 1] = line[q + k - 1 + 1]
    BY <2>1, <2>3 DEF CutUp
  <2> QED
    BY <1>0, <2>1, <2>4
<1>11. /\ SubSeq(line, q + 1, e) \in Seq(Input) /\ Len(SubSeq(line, q + 1, e)) = e - q
       /\ \A k \in 1 .. e - q : SubSeq(line, q + 1, e)[k] = line[q + k]
  <2>1. e \in Nat /\ q < e /\ e <= Len(line)
    BY <1>0, <1>3
  <2> HIDE DEF n
  <2> QED
    BY <1>0, <2>1, PieceOf
<1> HIDE DEF n
<1>12. CString(buf, q) \in Seq(Input) /\ Len(CString(buf, q)) = e - q
  <2>1. e - q \in Nat
    BY <1>0, <1>3
  <2>2. \A k \in 1 .. e - q : buf[q + k - 1] \in Input
    BY <1>10
  <2> QED
    BY <1>9, <2>1, <2>2
<1>13. \A k \in 1 .. e - q : CString(buf, q)[k] = SubSeq(line, q + 1, e)[k]
  BY <1>9, <1>10, <1>11
<1> QED
  BY <1>7, <1>8, <1>11, <1>12, <1>13, SeqEqual

-----------------------------------------------------------------------------
(* The theorems. *)

LEMMA InitIInv == PanicInit => IInv
<1> SUFFICES ASSUME PanicInit PROVE IInv
  OBVIOUS
<1> USE DEF PanicInit, Init, ReadlineInit
<1>1. scr \in Screens
  <2>1. "*" \in STRING
    BY ReadlineAssumption
  <2>2. Cell(Plain("*")) \in Glyphs
    BY <2>1, PlainCode, CellGlyph
  <2>3. Cursors \subseteq Cells
    BY ReadlineAssumption
  <2> QED
    BY <2>2, <2>3 DEF Screens
<1>2. Chars(Greeting) \in Seq(Codes)
  BY PrintedAssumption, CharsCodes
<1>3. MonitorTypeOK
  <2>1. /\ buf \in [0 .. BUFLEN - 1 -> Input \cup {"NUL"}] /\ i \in 0 .. BUFLEN - 1
        /\ p \in 0 .. BUFLEN - 1
    BY Sizes
  <2>2. /\ argv \in Seq(0 .. BUFLEN - 1) /\ Len(argv) = 0
    OBVIOUS
  <2>3. MaxCalls \in Nat /\ MAXARGS \in Nat /\ MAXARGS > 1 /\ Len(Commands) \in Nat
    BY CountsOf
  <2>4. ran \in 0 .. Len(Commands) /\ calls \in 0 .. MaxCalls /\ Len(argv) < MAXARGS
    BY <2>2, <2>3
  <2> QED
    BY <1>1, <1>2, <2>1, <2>2, <2>4 DEF MonitorTypeOK, TypeOK, Screens, Codes
<1> QED
  BY <1>1, <1>3 DEF IInv, Types, Places, Editing, Cutting, Divided, Idle

LEMMA StepIInv == IInv /\ [PanicNext]_allVars => IInv'
  BY TypesStep, PlacesStep, EditingStep, CuttingStep, DividedStep, IdleStep DEF IInv

LEMMA InvariantHolds == PanicSpec => []IInv
  BY InitIInv, StepIInv, PTL DEF PanicSpec

\* The line and its NUL stay inside the buffer, the cursor on the screen, runcmd's pointer
\* inside the buffer and argv short enough for its null pointer, whenever panics strike.
THEOREM MonitorTypeCorrect == PanicSpec => []MonitorTypeOK
<1>1. IInv => MonitorTypeOK
  BY DEF IInv, Types
<1> QED
  BY <1>1, InvariantHolds, PTL

\* What stands before the cursor is the prompt and the line, however it is edited and
\* wherever the screen wraps or scrolls.
THEOREM ScreenCorrect == PanicSpec => []ScreenShowsLine
<1>1. IInv => ScreenShowsLine
  <2> SUFFICES ASSUME IInv, pc = "reading", out = <<>>
               PROVE  BeforeCursor(scr, Len(Prompt) + i) = Prompt \o Line
    BY DEF ScreenShowsLine
  <2> DEFINE n == Len(Prompt) + i
  <2>0. Types
    BY DEF IInv
  <2>1. /\ i \in 0 .. BUFLEN - 1 /\ BUFLEN \in Nat /\ Len(Prompt) \in Nat /\ n \in Nat
        /\ buf \in [0 .. BUFLEN - 1 -> Input \cup {"NUL"}]
    BY <2>0, TypeFacts, Sizes
  <2>2. Shown(scr, Text, n)
    <3>1. Len(Prompt) - Len(out) + i = n
      BY <2>1
    <3> QED
      BY <3>1 DEF IInv, Editing
  <2>3. Prompt \in Seq(STRING) /\ Line \in Seq(STRING) /\ Len(Line) = i
    <3>1. Input \cup {"NUL"} \subseteq STRING
      BY Constants
    <3>2. \A k \in 1 .. i : buf[k - 1] \in STRING
      BY <2>1, <3>1
    <3>3. Line \in Seq(STRING) /\ Len(Line) = i
      BY <2>1, <3>2 DEF Line
    <3>4. Prompt \in Seq(STRING)
      BY PromptText
    <3> QED
      BY <3>3, <3>4
  <2>4. \A k \in 1 .. n : (Prompt \o Line)[k] = Text[k]
    <3> SUFFICES ASSUME NEW k \in 1 .. n PROVE (Prompt \o Line)[k] = Text[k]
      OBVIOUS
    <3>1. CASE k <= Len(Prompt)
      BY <2>0, <2>1, <2>3, <3>1, TextAt
    <3>2. CASE k > Len(Prompt)
      <4> DEFINE j == k - Len(Prompt) - 1
      <4>1. j \in 0 .. BUFLEN - 1 /\ k = Len(Prompt) + j + 1 /\ j + 1 \in 1 .. i
        BY <2>1, <3>2
      <4>2. (Prompt \o Line)[k] = Line[j + 1]
        BY <2>1, <2>3, <4>1
      <4>3. Line[j + 1] = buf[j]
        BY <2>1, <4>1 DEF Line
      <4> HIDE DEF j
      <4> QED
        BY <2>0, <4>1, <4>2, <4>3, TextAt
    <3>3. k <= Len(Prompt) \/ k > Len(Prompt)
      BY <2>1
    <3> QED
      BY <3>1, <3>2, <3>3
  <2>5. BeforeCursor(scr, n) = [k \in 1 .. n |-> Text[k]]
    BY <2>1, <2>2 DEF BeforeCursor, Shown
  <2>6. Prompt \o Line \in Seq(STRING) /\ Len(Prompt \o Line) = n
    BY <2>1, <2>3
  <2>7. \A k \in 1 .. n : Text[k] \in STRING
    BY <2>4, <2>6, ElementOfSeq
  <2> HIDE DEF n
  <2>8. BeforeCursor(scr, n) \in Seq(STRING) /\ Len(BeforeCursor(scr, n)) = n
    BY <2>1, <2>5, <2>7
  <2>9. \A k \in 1 .. n : BeforeCursor(scr, n)[k] = (Prompt \o Line)[k]
    BY <2>4, <2>5
  <2>10. BeforeCursor(scr, n) = Prompt \o Line
    BY <2>6, <2>8, <2>9, SeqEqual
  <2> QED
    BY <2>10 DEF n
<1> QED
  BY <1>1, InvariantHolds, PTL

\* The arguments that a command is looked up with are the words of the line that was
\* entered, in order, none of them changed.
LEMMA LookupWords == IInv => ArgumentsAreWords
<1> SUFFICES ASSUME IInv, mon = "lookup"
             PROVE  [k \in DOMAIN argv |-> CString(buf, argv[k])] = Words(line)
  BY DEF ArgumentsAreWords
<1> DEFINE m == Len(argv)
           q == [k \in 1 .. m |-> argv[k] + 1]
<1>1. Types /\ CutUp /\ WordsSaved /\ p = Len(line) /\ line \in Seq(Input)
  BY DEF IInv, Divided, CutUp
<1>2. /\ m \in Nat /\ DOMAIN argv = 1 .. m /\ Len(line) \in Nat
      /\ \A k \in 1 .. m : argv[k] \in 0 .. BUFLEN - 1
  <2>1. m \in Nat /\ argv \in Seq(0 .. BUFLEN - 1) /\ \A k \in 1 .. m : argv[k] \in 0 .. BUFLEN - 1
    BY <1>1, TypeFacts
  <2> QED
    BY <1>1, <2>1
<1>3. WordStarts(line) \subseteq 1 .. Len(line)
  BY <1>1, WordStart
<1>4. q \in [1 .. m -> WordStarts(line)]
  BY <1>1 DEF WordsSaved
<1>5. Rising(q, m)
  BY <1>1, <1>2 DEF Rising, WordsSaved
<1>6. Covers(q, m, WordStarts(line))
  <2>1. Reached = Len(line)
    BY <1>1 DEF Reached
  <2>2. \A s \in WordStarts(line) : s <= Reached
    BY <1>2, <1>3, <2>1
  <2> QED
    BY <1>1, <2>2 DEF WordsSaved, Covers
<1>7. Starts(line) = q
  <2> HIDE DEF q, m
  <2> QED
    BY <1>1, <1>2, <1>4, <1>5, <1>6, StartsAre
<1>8. \A k \in 1 .. m : CString(buf, argv[k]) = WordFrom(line, argv[k] + 1)
  BY <1>1, <1>2, WordIs DEF WordsSaved
<1>9. Words(line) = [k \in 1 .. m |-> WordFrom(line, argv[k] + 1)]
  <2>1. DOMAIN q = 1 .. m /\ \A k \in 1 .. m : q[k] = argv[k] + 1
    OBVIOUS
  <2> HIDE DEF q
  <2> QED
    BY <1>7, <2>1 DEF Words
<1> QED
  BY <1>2, <1>8, <1>9

\* Cutting up the line in place gives runcmd the words of the line the user entered, in
\* order, whenever it looks a command up, with panics and warnings at any point.
THEOREM ArgumentsCorrect == PanicSpec => []ArgumentsAreWords
  BY LookupWords, InvariantHolds, PTL

\* The command that runs is the one named by the first word of the line; if none does
\* (or there is no word) none is.
THEOREM CommandCorrect == PanicSpec => CommandOfFirstWord
<1>1. ASSUME IInv, mon = "lookup", runcmd
      PROVE  \/ ran' = 0 /\ \A k \in DOMAIN Commands : Words(line) = <<>> \/ Words(line)[1] # Commands[k].name
             \/ ran' \in DOMAIN Commands /\ Words(line)[1] = Commands[ran'].name
  <2>0. EmptyCommand \/ RunCommand \/ UnknownCommand
    BY <1>1 DEF runcmd, GobbleWhitespace, EndOfLine, TooManyArguments, SaveArgument, ScanArgument,
       ArgumentEnds
  <2>1. ran = 0
    BY <1>1 DEF IInv, Idle
  <2>2. Words(line) = [k \in DOMAIN argv |-> CString(buf, argv[k])]
    BY <1>1, LookupWords DEF ArgumentsAreWords
  <2>3. argv \in Seq(0 .. BUFLEN - 1)
    BY <1>1, TypeFacts DEF IInv
  <2>4. CASE EmptyCommand
    <3>1. Words(line) = <<>>
      BY <2>2, <2>4 DEF EmptyCommand
    <3> QED
      BY <2>1, <2>4, <3>1 DEF EmptyCommand
  <2>5. argv # <<>> => Words(line)[1] = CString(buf, argv[1])
    BY <2>2, <2>3
  <2>6. CASE RunCommand
    <3>1. PICK k \in DOMAIN Commands : IsNamed(k) /\ ran' = k
      BY <2>6 DEF RunCommand
    <3> QED
      BY <2>5, <2>6, <3>1 DEF RunCommand, IsNamed
  <2>7. CASE UnknownCommand
    <3>1. /\ argv # <<>> /\ ran' = ran
          /\ \A k \in DOMAIN Commands : Commands[k].name # CString(buf, argv[1])
      BY <2>7 DEF UnknownCommand, IsNamed
    <3> QED
      BY <2>1, <2>5, <3>1
  <2> QED
    BY <2>0, <2>4, <2>6, <2>7
<1>2. IInv => [mon = "lookup" /\ runcmd =>
       \/ ran' = 0 /\ \A k \in DOMAIN Commands : Words(line) = <<>> \/ Words(line)[1] # Commands[k].name
       \/ ran' \in DOMAIN Commands /\ Words(line)[1] = Commands[ran'].name
    ]_vars
  BY <1>1
<1> QED
  BY <1>2, InvariantHolds, PTL DEF CommandOfFirstWord

\* The string readline returns is the line that was on the screen when it was ended.
THEOREM LineReturned == PanicSpec => ReturnsWhatIsShown
<1>1. ASSUME IInv, getchar, pc' = "caller"
      PROVE  CString(buf', 0) = SubSeq(BeforeCursor(scr, Len(Prompt) + i), Len(Prompt) + 1, Len(Prompt) + i)
  <2> DEFINE n == Len(Prompt) + i
  <2>0. Types
    BY <1>1 DEF IInv
  <2>1. PICK ch \in Input : Handle(ch)
    BY <1>1 DEF getchar
  <2>2. EndLine(ch) /\ pc = "reading" /\ out = <<>>
    BY <1>1, <2>1 DEF Handle, EraseChar, StoreChar, Ignore, readlineVars
  <2>3. buf' = [buf EXCEPT ![i] = "NUL"]
    BY <2>2 DEF EndLine
  <2>4. /\ i \in 0 .. BUFLEN - 1 /\ BUFLEN \in Nat /\ Len(Prompt) \in Nat /\ n \in Nat
        /\ buf \in [0 .. BUFLEN - 1 -> Input \cup {"NUL"}]
    BY <2>0, TypeFacts, Sizes
  <2>5. Shown(scr, Text, n) /\ \A k \in 0 .. i - 1 : buf[k] # "NUL"
    <3>1. Len(Prompt) - Len(out) + i = n
      BY <2>2, <2>4
    <3> QED
      BY <1>1, <2>2, <3>1 DEF IInv, Editing
  <2>6. EndsAt(buf', 0, i)
    BY <2>3, <2>4, <2>5 DEF EndsAt
  <2>7. CString(buf', 0) = [k \in 1 .. i |-> buf[k - 1]]
    <3>1. CString(buf', 0) = [k \in 1 .. i - 0 |-> buf'[0 + k - 1]]
      BY <2>4, <2>6, CStringOf
    <3>2. i - 0 = i /\ \A k \in 1 .. i : buf'[0 + k - 1] = buf[k - 1]
      BY <2>3, <2>4
    <3> QED
      BY <3>1, <3>2
  <2>8. BeforeCursor(scr, n) = [k \in 1 .. n |-> Text[k]]
    BY <2>4, <2>5 DEF BeforeCursor, Shown
  <2>9. \A k \in 1 .. i : BeforeCursor(scr, n)[Len(Prompt) + 1 + k - 1] = buf[k - 1]
    <3> SUFFICES ASSUME NEW k \in 1 .. i
                 PROVE  BeforeCursor(scr, n)[Len(Prompt) + 1 + k - 1] = buf[k - 1]
      OBVIOUS
    <3>1. /\ Len(Prompt) + 1 + k - 1 \in 1 .. n /\ k - 1 \in 0 .. BUFLEN - 1
          /\ Len(Prompt) + (k - 1) + 1 = Len(Prompt) + 1 + k - 1
      BY <2>4
    <3>2. Text[Len(Prompt) + (k - 1) + 1] = buf[k - 1]
      BY <2>0, <3>1, TextAt
    <3> HIDE DEF n
    <3> QED
      BY <2>8, <3>1, <3>2
  <2>10. \A k \in 1 .. i : buf[k - 1] \in STRING
    <3>1. Input \cup {"NUL"} \subseteq STRING
      BY Constants
    <3> QED
      BY <2>4, <3>1
  <2> DEFINE shown == SubSeq(BeforeCursor(scr, n), Len(Prompt) + 1, n)
  <2>11. /\ shown \in Seq(STRING) /\ Len(shown) = i
         /\ \A k \in 1 .. i : shown[k] = buf[k - 1]
    <3> DEFINE s == BeforeCursor(scr, n)
               m == Len(Prompt) + 1
    <3>1. m \in Int /\ n \in Int /\ n - m + 1 = i /\ (IF m <= n THEN n - m + 1 ELSE 0) = i
      BY <2>4
    <3>2. \A k \in m .. n : s[k] \in STRING
      <4> SUFFICES ASSUME NEW k \in m .. n PROVE s[k] \in STRING
        OBVIOUS
      <4>1. k - Len(Prompt) \in 1 .. i /\ Len(Prompt) + 1 + (k - Len(Prompt)) - 1 = k
        BY <2>4
      <4> HIDE DEF n, s
      <4>2. s[Len(Prompt) + 1 + (k - Len(Prompt)) - 1] = buf[(k - Len(Prompt)) - 1]
        BY <2>9, <4>1 DEF s
      <4> QED
        BY <2>10, <4>1, <4>2
    <3>3. \A k \in 1 .. i : s[m + k - 1] = buf[k - 1]
      BY <2>9
    <3> HIDE DEF s, m, n
    <3>4. /\ SubSeq(s, m, n) \in Seq(STRING)
          /\ Len(SubSeq(s, m, n)) = IF m <= n THEN n - m + 1 ELSE 0
          /\ \A k \in 1 .. n - m + 1 : SubSeq(s, m, n)[k] = s[m + k - 1]
      BY <3>1, <3>2, SubSeqProperties
    <3>5. SubSeq(s, m, n) = shown
      BY DEF s, m
    <3> HIDE DEF shown
    <3> QED
      BY <3>1, <3>3, <3>4, <3>5
  <2>12. [k \in 1 .. i |-> buf[k - 1]] \in Seq(STRING) /\ Len([k \in 1 .. i |-> buf[k - 1]]) = i
    BY <2>4, <2>10
  <2> HIDE DEF n, shown
  <2>13. shown = [k \in 1 .. i |-> buf[k - 1]]
    BY <2>11, <2>12, SeqEqual
  <2> QED
    BY <2>7, <2>13 DEF n, shown
<1> QED
  BY <1>1, InvariantHolds, PTL DEF ReturnsWhatIsShown

\* panicstr and the message printed are those of the first panic, however many follow.
PanicHistory ==
  /\ FirstPanicTold
  /\ panics \in Seq(STRING) /\ \A k \in 1 .. Len(panics) : panics[k] # "NULL"

THEOREM FirstPanicCorrect == PanicSpec => []FirstPanicTold
<1>1. PanicInit => PanicHistory
  BY DEF PanicInit, PanicHistory, FirstPanicTold
<1>2. PanicHistory /\ [PanicNext]_allVars => PanicHistory'
  <2> SUFFICES ASSUME PanicHistory, [PanicNext]_allVars PROVE PanicHistory'
    OBVIOUS
  <2>1. CASE Panics
    <3> DEFINE fmt == Formats[Len(panics) + 1]
    <3>1. _panic(fmt) /\ fmt \in STRING /\ fmt # "NULL"
      <4>1. Len(panics) + 1 \in DOMAIN Formats
        BY <2>1, PanicAssumption DEF Panics, PanicHistory
      <4>2. _panic(fmt)
        BY <2>1 DEF Panics
      <4> QED
        BY <4>1, <4>2, PanicAssumption
    <3> HIDE DEF fmt
    <3>2. panics' = Append(panics, fmt) /\ panics \in Seq(STRING)
      BY <3>1 DEF _panic, PanicHistory
    <3>3. panics' \in Seq(STRING) /\ Len(panics') = Len(panics) + 1 /\ panics' # <<>>
      BY <3>1, <3>2
    <3>4. \A k \in 1 .. Len(panics') : panics'[k] # "NULL"
      BY <3>1, <3>2 DEF PanicHistory
    <3>5. FirstPanicTold'
      <4>1. CASE panics = <<>>
        <5>1. panicstr = "NULL" /\ told = <<>>
          BY <4>1 DEF PanicHistory, FirstPanicTold
        <5>2. panicstr' = fmt /\ told' = <<fmt>>
          BY <3>1, <5>1 DEF _panic
        <5>3. panics' = <<fmt>>
          BY <3>2, <4>1
        <5> QED
          BY <5>2, <5>3 DEF FirstPanicTold
      <4>2. CASE panics # <<>>
        <5>1. panicstr = Head(panics) /\ told = <<Head(panics)>>
          BY <4>2 DEF PanicHistory, FirstPanicTold
        <5>2. Head(panics) # "NULL"
          BY <3>2, <4>2 DEF PanicHistory
        <5>3. panicstr' = panicstr /\ told' = told
          BY <3>1, <5>1, <5>2 DEF _panic
        <5>4. Head(panics') = Head(panics)
          BY <3>2, <4>2
        <5> QED
          BY <3>3, <5>1, <5>3, <5>4 DEF FirstPanicTold
      <4> QED
        BY <4>1, <4>2
    <3> QED
      BY <3>3, <3>4, <3>5 DEF PanicHistory
  <2>2. CASE UNCHANGED <<panicstr, panics, told>>
    BY <2>2 DEF PanicHistory, FirstPanicTold
  <2> QED
    BY <2>1, <2>2 DEF PanicNext, _warn, panicVars, allVars
<1>3. PanicHistory => FirstPanicTold
  BY DEF PanicHistory
<1> QED
  BY <1>1, <1>2, <1>3, PTL DEF PanicSpec
=============================================================================
