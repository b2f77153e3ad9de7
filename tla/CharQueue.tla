----------------------------- MODULE CharQueue ------------------------------
(***************************************************************************)
(* What the console input buffer of kern/console.c promises its callers,   *)
(* without its circular array: a first-in first-out queue of characters    *)
(* that holds up to CONSBUFSIZE - 1 of them.  There is no overflow test in *)
(* cons_intr: the character that would make CONSBUFSIZE unread ones brings *)
(* wpos back onto rpos, and the whole buffer is forgotten.                 *)
(***************************************************************************)
EXTENDS Integers, Sequences

CONSTANTS
  CONSBUFSIZE,  \* slots in the buffer
  Chars         \* the characters cons_intr stores

VARIABLES
  queue,        \* characters stored and not yet returned, oldest first
  got           \* what cons_getc returned last; 0 when there was nothing

vars == <<queue, got>>

Init == queue = <<>> /\ got = 0

\* cons_intr stores a character.
Put(c) ==
  /\ queue' = IF Len(queue) + 1 = CONSBUFSIZE THEN <<>> ELSE Append(queue, c)
  /\ UNCHANGED got

\* cons_getc returns the oldest character.
Take ==
  /\ queue # <<>>
  /\ got' = Head(queue)
  /\ queue' = Tail(queue)

\* cons_getc returns 0: nothing waits.
NoneWaiting ==
  /\ queue = <<>>
  /\ got' = 0
  /\ UNCHANGED queue

Next == (\E c \in Chars : Put(c)) \/ Take \/ NoneWaiting

Spec == Init /\ [][Next]_vars
=============================================================================
