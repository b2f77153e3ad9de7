---------------------------- MODULE ConsoleOutput ----------------------------
(***************************************************************************)
(* The output half of kern/console.c: cputchar and cons_putc, which give   *)
(* one character to the serial port, to the parallel port and to the       *)
(* screen.  The first two wait for their device, but only for so long.     *)
(*                                                                         *)
(* A tab is given to the two ports as it is, and then cga_putc calls       *)
(* cons_putc five times with a space: from inside cons_putc.               *)
(***************************************************************************)
EXTENDS CgaText, Sequences

CONSTANTS
  Text,      \* what callers may pass to cputchar
  SPIN,      \* polls of a device before it is written to anyway (12800)
  RADIX,     \* values of one cursor register of the 6845 (256)
  MaxPuts    \* bound of the model: calls of cputchar

ASSUME ConsoleOutputAssumption ==
  /\ SPIN \in Nat /\ RADIX \in Nat \ {0} /\ MaxPuts \in Nat
  /\ Text \subseteq [ch : STRING, high : {"none", "ones"}] /\ {" ", "*"} \subseteq STRING

VARIABLES
  serial_exists,
  thr,       \* the UART's transmit register: <<>> or <<the byte in it>>
  printer,   \* is the printer ready for a byte?
  scr,       \* crt_buf and crt_pos
  cursor,    \* the 6845's registers 14 and 15
  pc, c, i,  \* where cons_putc is, the character in its hands, its poll count
  spaces,    \* inside case '\t': calls of cons_putc(' ') not finished yet
  line,      \* history: the bytes that left on the serial line
  paper,     \* history: the bytes the printer took
  given,     \* history: the characters cons_putc was called with
  gaveUp,    \* history: the ports whose wait has ever run out
  puts       \* history: calls of cputchar so far

devices == <<serial_exists, thr, printer, scr, cursor>>
kernel == <<pc, c, i, spaces>>
histories == <<line, paper, given, gaveUp, puts>>
vars == <<devices, kernel, histories>>

-----------------------------------------------------------------------------
(* The devices. *)

\* The byte in the transmit register goes out on the line.
UartSends ==
  /\ thr # <<>>
  /\ line' = line \o thr
  /\ thr' = <<>>
  /\ UNCHANGED <<serial_exists, printer, scr, cursor, kernel, paper, given, gaveUp, puts>>

\* The printer becomes ready again, or is switched off or out of paper.  Nobody
\* looks at it except lpt_putc, so it changes only then.
PrinterChanges ==
  /\ pc = "lpt"
  /\ printer' = ~printer
  /\ UNCHANGED <<serial_exists, thr, scr, cursor, kernel, histories>>

\* LSR_TXRDY; with no port there, every status bit reads as one.
TxReady == thr = <<>>

-----------------------------------------------------------------------------
(* cons_putc: serial_putc, lpt_putc, cga_putc. *)

cons_putc(ch) ==
  /\ c' = ch
  /\ given' = Append(given, ch)
  /\ pc' = "serial" /\ i' = 0

cputchar(ch) ==
  /\ pc = "idle"
  /\ puts < MaxPuts
  /\ puts' = puts + 1
  /\ cons_putc(ch)
  /\ UNCHANGED <<devices, spaces, line, paper, gaveUp>>

\* A turn of the waiting loop.  Mutant: the poll count is never tested.
SerialPoll_unbounded ==
  /\ pc = "serial" /\ ~TxReady
  /\ UNCHANGED <<devices, kernel, histories>>
SerialPoll ==
  /\ pc = "serial" /\ ~TxReady /\ i < SPIN
  /\ i' = i + 1
  /\ UNCHANGED <<devices, pc, c, spaces, histories>>

\* The byte is written, over one that has not left yet if the wait ran out.
\* Mutant: the byte is written without waiting.
SerialWrite_at_once ==
  /\ pc = "serial"
  /\ thr' = IF serial_exists THEN <<c.ch>> ELSE <<>>
  /\ pc' = "lpt" /\ i' = 0
  /\ UNCHANGED <<serial_exists, printer, scr, cursor, c, spaces, line, paper, given, gaveUp, puts>>
SerialWrite ==
  /\ pc = "serial" /\ (TxReady \/ i >= SPIN)
  /\ gaveUp' = IF TxReady THEN gaveUp ELSE gaveUp \cup {"serial"}
  /\ thr' = IF serial_exists THEN <<c.ch>> ELSE <<>>
  /\ pc' = "lpt" /\ i' = 0
  /\ UNCHANGED <<serial_exists, printer, scr, cursor, c, spaces, line, paper, given, puts>>

LptPoll ==
  /\ pc = "lpt" /\ ~printer /\ i < SPIN
  /\ i' = i + 1
  /\ UNCHANGED <<devices, pc, c, spaces, histories>>

\* The data lines are set and strobed; a printer that is not ready ignores it.
\* Mutant: they are strobed without waiting.
LptWrite_at_once ==
  /\ pc = "lpt"
  /\ paper' = IF printer THEN Append(paper, c.ch) ELSE paper
  /\ pc' = "cga" /\ i' = 0
  /\ UNCHANGED <<devices, c, spaces, line, given, gaveUp, puts>>
LptWrite ==
  /\ pc = "lpt" /\ (printer \/ i >= SPIN)
  /\ gaveUp' = IF printer THEN gaveUp ELSE gaveUp \cup {"lpt"}
  /\ paper' = IF printer THEN Append(paper, c.ch) ELSE paper
  /\ pc' = "cga" /\ i' = 0
  /\ UNCHANGED <<devices, c, spaces, line, given, puts>>

\* The position the cursor registers show, and crt_pos's two bytes written there.
CursorPos(r) == r.high * RADIX + r.low
\* Mutant: both registers get the low byte.
MoveCursor_low(s) == cursor' = [high |-> s.pos % RADIX, low |-> s.pos % RADIX]
MoveCursor(s) == cursor' = [high |-> s.pos \div RADIX, low |-> s.pos % RADIX]

\* cga_putc, and the return to cputchar's caller or into case '\t'.
CgaChar ==
  /\ pc = "cga" /\ c.ch # "TAB"
  /\ scr' = cga_putc(scr, c)
  /\ MoveCursor(scr')
  /\ IF spaces > 1
     THEN cons_putc(c) /\ spaces' = spaces - 1
     ELSE pc' = (IF spaces = 1 THEN "tab" ELSE "idle") /\ spaces' = 0
          /\ UNCHANGED <<c, i, given>>
  /\ UNCHANGED <<serial_exists, thr, printer, line, paper, gaveUp, puts>>

CgaTab ==
  /\ pc = "cga" /\ c.ch = "TAB"
  /\ spaces' = 5
  /\ cons_putc(Plain(" "))
  /\ UNCHANGED <<devices, line, paper, gaveUp, puts>>

\* What follows the switch in the call of cga_putc that got the tab.
CgaTabReturn ==
  /\ pc = "tab"
  /\ scr' = Scroll(scr)
  /\ MoveCursor(scr')
  /\ pc' = "idle"
  /\ UNCHANGED <<serial_exists, thr, printer, c, i, spaces, histories>>

-----------------------------------------------------------------------------
\* After cons_init: cga_init has taken crt_pos from the cursor registers, and the
\* firmware had left the cursor on the screen.
Init ==
  /\ serial_exists \in BOOLEAN
  /\ thr = <<>> /\ printer \in BOOLEAN
  /\ cursor \in [high : 0 .. CRT_SIZE \div RADIX, low : 0 .. RADIX - 1]
  /\ CursorPos(cursor) \in Cells
  /\ scr = [buf |-> [k \in Cells |-> Cell(Plain("*"))], pos |-> CursorPos(cursor)]
  /\ pc = "idle" /\ c = Plain(" ") /\ i = 0 /\ spaces = 0
  /\ line = <<>> /\ paper = <<>> /\ given = <<>> /\ gaveUp = {} /\ puts = 0

Devices == UartSends \/ PrinterChanges

ConsPutc ==
  \/ SerialPoll \/ SerialWrite \/ LptPoll \/ LptWrite
  \/ CgaChar \/ CgaTab \/ CgaTabReturn

Next == Devices \/ (\E ch \in Text : cputchar(ch)) \/ ConsPutc

Spec == Init /\ [][Next]_vars

\* A call of cputchar keeps executing; the devices owe it nothing.
FairSpec == Spec /\ WF_vars(ConsPutc)

-----------------------------------------------------------------------------
(* Properties. *)

\* Every variable has its type; in particular crt_pos, which indexes crt_buf, is
\* a position on the screen whenever a character is written.
TypeOK ==
  /\ serial_exists \in BOOLEAN
  /\ thr = <<>> \/ \E ch \in Text \cup {Plain(" ")} : thr = <<ch.ch>>
  /\ printer \in BOOLEAN
  /\ scr.buf \in [Cells -> [ch : STRING, attr : {"0x07", "0xFF"}]]
  /\ scr.pos \in Cells
  /\ cursor \in [high : Nat, low : 0 .. RADIX - 1]
  /\ pc \in {"idle", "serial", "lpt", "cga", "tab"}
  /\ c \in Text \cup {Plain(" ")}
  /\ i \in 0 .. SPIN
  /\ spaces \in 0 .. 5
  /\ gaveUp \subseteq {"serial", "lpt"}
  /\ puts \in 0 .. MaxPuts

Bytes(n) == [k \in 1 .. n |-> given[k].ch]

\* While no wait for the UART has run out, what has left on the line, and the
\* byte in the transmit register, is exactly what cons_putc was given: nothing is
\* lost, doubled or reordered, however slow the line is.  The same of the printer.
SerialKeepsAll ==
  serial_exists /\ "serial" \notin gaveUp =>
    line \o thr = Bytes(IF pc = "serial" THEN Len(given) - 1 ELSE Len(given))
PaperKeepsAll ==
  "lpt" \notin gaveUp =>
    paper = Bytes(IF pc \in {"serial", "lpt"} THEN Len(given) - 1 ELSE Len(given))
PortsKeepAll == SerialKeepsAll /\ PaperKeepsAll

\* The first n of the characters s, less the tabs.
LessTabs(s) ==
  LET first[n \in 0 .. Len(s)] ==
        IF n = 0 THEN <<>>
        ELSE IF s[n].ch = "TAB" THEN first[n - 1] ELSE Append(first[n - 1], s[n])
  IN  first

\* What the screen has been given.
OnScreen ==
  LessTabs(given)[IF pc \in {"serial", "lpt", "cga"} THEN Len(given) - 1 ELSE Len(given)]

\* The flat array, scrolled by memmove, and the position that the cursor registers
\* show are a grid of lines and a cursor, where the next character appears, in the
\* calls that a tab makes from inside cons_putc as well; a tab is five spaces.
Term == INSTANCE Terminal WITH
  Rows <- CRT_ROWS, Cols <- CRT_COLS,
  Chars <- Text \cup {Plain(" ")},
  Shown <- Cell, Space <- Plain(" "),
  grid <- [r \in 0 .. CRT_ROWS - 1 |-> [k \in 0 .. CRT_COLS - 1 |-> scr.buf[r * CRT_COLS + k]]],
  row <- CursorPos(cursor) \div CRT_COLS,
  col <- CursorPos(cursor) % CRT_COLS,
  fed <- OnScreen

ImplementsTerminal == Term!Spec

\* cputchar always returns, whatever state the two ports are stuck in.
OutputNeverHangs == pc # "idle" ~> pc = "idle"
=============================================================================
