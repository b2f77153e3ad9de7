----------------------------- MODULE ConsoleLoss -----------------------------
(***************************************************************************)
(* ConsoleInput with one history variable: how many characters cons_intr   *)
(* has stored that cons_getc has never returned.  cons_intr does not test  *)
(* whether the buffer is full, so this is not the same as the number of    *)
(* unread characters the indices show.                                     *)
(***************************************************************************)
EXTENDS ConsoleInput

CONSTANT MaxOwed  \* the devices fall silent once this many characters are owed

VARIABLE owed

lossVars == <<vars, owed>>

LossInit == Init /\ owed = 0

Count ==
  owed' = owed + (IF wpos' # wpos THEN 1 ELSE 0) - (IF rpos' # rpos THEN 1 ELSE 0)

LossNext ==
  \/ owed < MaxOwed /\ Devices /\ UNCHANGED owed
  \/ Kernel /\ Count

LossSpec == LossInit /\ [][LossNext]_lossVars

-----------------------------------------------------------------------------
\* "return the next input character from the console, or 0 if none waiting"
\* (console.c:405): when cons_getc returns 0, every stored character has been
\* returned.  It has not when the buffer has just been overrun.
ZeroMeansNoneWaiting == [][GetcNone => owed = 0]_lossVars
=============================================================================
