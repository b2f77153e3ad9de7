----------------------------- MODULE LineInput ------------------------------
(***************************************************************************)
(* What the console's input and the line editor together promise the       *)
(* monitor: the characters typed wait in a queue, in the order they came,  *)
(* and each in turn changes the line as an editor does; Return hands the   *)
(* line over.  What is typed while nobody reads is there for the next line *)
(* unless the queue is full, when all that waits is forgotten.             *)
(***************************************************************************)
EXTENDS Integers, Sequences

CONSTANTS
  CONSBUFSIZE,  \* the queue holds one less
  Name,         \* the characters by name, a function of their bytes
  Control,      \* names of those below ' '
  BUFLEN        \* a line has at most one less

VARIABLES
  queue,        \* bytes waiting, oldest first
  line,         \* the line so far
  returned      \* the line handed over last

lineVars == <<queue, line, returned>>

Init == queue = <<>> /\ line = <<>> /\ returned = <<>>

Put ==
  /\ queue' \in IF Len(queue) + 1 = CONSBUFSIZE THEN {<<>>}
                ELSE {Append(queue, c) : c \in DOMAIN Name}
  /\ UNCHANGED <<line, returned>>

Rubout(ch) == ch \in {"BS", "DEL"} /\ line # <<>>
Enter(ch) == ch \in {"NL", "CR"}
Glyph(ch) == ~Rubout(ch) /\ ch \notin Control

Read ==
  /\ queue # <<>>
  /\ queue' = Tail(queue)
  /\ LET ch == Name[Head(queue)] IN
     /\ line' = CASE Rubout(ch) -> SubSeq(line, 1, Len(line) - 1)
                  [] Glyph(ch) /\ Len(line) < BUFLEN - 1 -> Append(line, ch)
                  [] Enter(ch) -> <<>>
                  [] OTHER -> line
     /\ returned' = IF Enter(ch) THEN line ELSE returned

Next == Put \/ Read

Spec == Init /\ [][Next]_lineVars
=============================================================================
