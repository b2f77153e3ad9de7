--------------------------- MODULE ConsoleSession ---------------------------
(***************************************************************************)
(* Console input and the line editor at work together: readline calls      *)
(* getchar for every character, and only then are the devices polled.      *)
(* While the prompt or an echo is printed, and while the caller does       *)
(* something with a line, bytes and keys arrive and nobody looks.          *)
(***************************************************************************)
EXTENDS ConsoleInput

CONSTANTS
  CRT_ROWS, CRT_COLS, BUFLEN, Prompt, Input, Control, Cursors,   \* of Readline
  Name          \* the name Readline has for each byte cons_getc may return, a function

VARIABLES
  linebuf, i, scr, out, rl,   \* readline's buffer, locals, screen and output; where it is
  returned                    \* history: the line it returned last

editorVars == <<linebuf, i, scr, out, rl, returned>>
sessionVars == <<vars, editorVars>>

R == INSTANCE Readline WITH buf <- linebuf, pc <- rl

ASSUME SessionAssumption ==
  /\ R!ReadlineAssumption /\ R!CrtAssumption
  /\ Name \in [1 .. 255 -> Input]

-----------------------------------------------------------------------------
\* monitor calls readline, at once or after it has dealt with the line before.
Calls ==
  /\ pc = "caller"
  /\ R!CallReadline
  /\ UNCHANGED <<vars, returned>>

Prints ==
  /\ pc = "caller"
  /\ R!PrintChar
  /\ UNCHANGED <<vars, returned>>

Asks ==
  /\ rl = "reading" /\ out = <<>>
  /\ getchar
  /\ UNCHANGED editorVars

Polls ==
  /\ SerialByte \/ SerialDone \/ KbdByte \/ KbdDone \/ GetcNone
  /\ UNCHANGED editorVars

\* getchar returns, and readline deals with the character.
Reads ==
  /\ GetcChar
  /\ R!Handle(Name[got'])
  /\ returned' = IF rl' = "caller" THEN R!CString(linebuf', 0) ELSE returned

-----------------------------------------------------------------------------
SessionInit == Init /\ R!ReadlineInit /\ out = <<>> /\ returned = <<>>

Thread == Calls \/ Prints \/ Asks \/ Polls \/ Reads

SessionNext == Thread \/ (Devices /\ UNCHANGED editorVars)

SessionSpec == SessionInit /\ [][SessionNext]_sessionVars

\* The thread goes on; nothing is assumed of the devices.
SessionFairSpec == SessionSpec /\ WF_sessionVars(Thread)

-----------------------------------------------------------------------------
(* Properties. *)

Line == [k \in 1 .. i |-> linebuf[k - 1]]

\* Whenever bytes and keys arrive, while the devices are polled or while nobody looks,
\* and however often the circular buffer wraps: each line readline returns is the edited
\* text of the characters typed, in their order, starting where the line before ended,
\* with nothing skipped but by an overrun.
Lines == INSTANCE LineInput WITH queue <- Pending, line <- Line
LinesAreTyped == Lines!Spec

\* Once Return waits in the buffer, the line is returned, even if the devices go on
\* sending for ever; only an overrun can forget it.
EnterEndsLine ==
  (\E k \in DOMAIN Pending : Name[Pending[k]] \in {"NL", "CR"}) ~> (rl = "caller" \/ Pending = <<>>)
=============================================================================
