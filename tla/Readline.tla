------------------------------ MODULE Readline ------------------------------
(***************************************************************************)
(* lib/readline.c: the line editor in front of the kernel monitor.  It     *)
(* keeps the line in a static buffer and shows it only by echoing: nothing *)
(* in it knows where the cursor is, so what is on the screen is the line   *)
(* only if every echo undoes or repeats exactly what was done to the       *)
(* buffer, across the ends of screen lines and scrolling too.              *)
(*                                                                         *)
(* The screen is the one of module CgaText; getchar, which by              *)
(* ConsoleInput never returns 0 or a negative number, is a choice of any   *)
(* character, so the branch that reports a read error is not reachable.    *)
(***************************************************************************)
EXTENDS CgaText, SequencesExt

CONSTANTS
  BUFLEN,    \* 1024 in the source
  Prompt,    \* the glyphs of the prompt
  Input,     \* bytes getchar may return, by name
  Control,   \* the names that stand for bytes below ' '
  Cursors    \* where the firmware may have left the cursor

\* The longest line and its prompt stay visible when the last line of the screen
\* fills up and scrolling leaves the cursor on a new, empty one.
ASSUME ReadlineAssumption ==
  /\ BUFLEN \in Nat /\ BUFLEN > 1
  /\ Len(Prompt) + BUFLEN - 1 <= CRT_SIZE - CRT_COLS
  /\ {"BS", "NL", "CR"} \subseteq Control /\ "NUL" \notin Input
  /\ Input \cup Control \cup {" ", "*", "NUL"} \subseteq STRING
  /\ Prompt \in Seq(STRING \ Control)
  /\ Cursors \subseteq Cells

VARIABLES
  buf,    \* readline's static buffer
  i,      \* characters in the line being read
  scr,    \* the screen
  out,    \* what cprintf has still to print
  pc      \* "caller", or "reading" during a call

readlineVars == <<buf, i, scr, out, pc>>

\* cputchar, and cprintf's loop around it.
cputchar(ch) == scr' = cga_putc(scr, Plain(ch))

PrintChar ==
  /\ out # <<>>
  /\ scr' = cga_putc(scr, Head(out))
  /\ out' = Tail(out)
  /\ UNCHANGED <<buf, i, pc>>

CallReadline ==
  /\ pc = "caller" /\ out = <<>>
  /\ out' = [k \in DOMAIN Prompt |-> Plain(Prompt[k])]
  /\ i' = 0
  /\ pc' = "reading"
  /\ UNCHANGED <<buf, scr>>

\* Backspace, and Delete (0x7f), when there is something to erase.
Erases(ch) == ch \in {"BS", "DEL"} /\ i > 0
\* Mutant: the character is dropped but not rubbed out.
EraseChar_no_echo(ch) ==
  /\ Erases(ch)
  /\ i' = i - 1
  /\ UNCHANGED <<buf, scr, out, pc>>
EraseChar(ch) ==
  /\ Erases(ch)
  /\ cputchar("BS")
  /\ i' = i - 1
  /\ UNCHANGED <<buf, out, pc>>

\* Anything from ' ' up, a Delete on an empty line included, while there is room.
Stores(ch) == ~Erases(ch) /\ ch \notin Control /\ i < BUFLEN - 1
StoreChar(ch) ==
  /\ Stores(ch)
  /\ cputchar(ch)
  /\ buf' = [buf EXCEPT ![i] = ch]
  /\ i' = i + 1
  /\ UNCHANGED <<out, pc>>

\* Mutant: the line is handed over without its terminating NUL.
EndLine_unterminated(ch) ==
  /\ ch \in {"NL", "CR"}
  /\ cputchar("NL")
  /\ pc' = "caller" /\ i' = 0
  /\ UNCHANGED <<buf, out>>
EndLine(ch) ==
  /\ ch \in {"NL", "CR"}
  /\ cputchar("NL")
  /\ buf' = [buf EXCEPT ![i] = "NUL"]
  /\ pc' = "caller" /\ i' = 0
  /\ UNCHANGED <<out>>

\* Other control characters, an erase on an empty line, a glyph on a full one.
Ignore(ch) ==
  /\ ~Erases(ch) /\ ~Stores(ch) /\ ch \notin {"NL", "CR"}
  /\ UNCHANGED readlineVars

\* What the loop does with the character getchar has returned.
Handle(ch) ==
  /\ pc = "reading" /\ out = <<>>
  /\ EraseChar(ch) \/ StoreChar(ch) \/ EndLine(ch) \/ Ignore(ch)

getchar == \E ch \in Input : Handle(ch)

-----------------------------------------------------------------------------
ReadlineInit ==
  /\ buf = [k \in 0 .. BUFLEN - 1 |-> "NUL"]
  /\ i = 0
  /\ scr \in [buf : {[k \in Cells |-> Cell(Plain("*"))]}, pos : Cursors]
  /\ pc = "caller"

-----------------------------------------------------------------------------
(* Properties. *)

\* Every variable has its type: the line and its NUL stay inside the buffer, and
\* the cursor on the screen.
TypeOK ==
  /\ buf \in [0 .. BUFLEN - 1 -> Input \cup {"NUL"}]
  /\ i \in 0 .. BUFLEN - 1
  /\ scr.pos \in Cells
  /\ out \in Seq([ch : STRING, high : {"none", "ones"}])
  /\ pc \in {"caller", "reading"}

\* The n glyphs before the cursor, and the C string that starts at buf[p].
BeforeCursor(s, n) == [k \in 1 .. n |-> s.buf[s.pos - n + k - 1].ch]
CString(b, p) ==
  LET ends == {e \in p .. BUFLEN - 1 : b[e] = "NUL"}
      stop == CHOOSE e \in ends : \A f \in ends : e <= f
  IN  [k \in 1 .. stop - p |-> b[p + k - 1]]

Line == [k \in 1 .. i |-> buf[k - 1]]

\* What stands before the cursor is the prompt and the line as it is in the
\* buffer, however it was edited and wherever the screen wrapped or scrolled.
ScreenShowsLine ==
  pc = "reading" /\ out = <<>> => BeforeCursor(scr, Len(Prompt) + i) = Prompt \o Line

\* The string readline returns is the line that was on the screen when it was
\* ended: terminated, and with nothing left over from a longer one before it.
ReturnsWhatIsShown ==
  [][getchar /\ pc' = "caller" =>
       CString(buf', 0) = SubSeq(BeforeCursor(scr, Len(Prompt) + i), Len(Prompt) + 1, Len(Prompt) + i)
    ]_readlineVars
=============================================================================
