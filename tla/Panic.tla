------------------------------- MODULE Panic --------------------------------
(***************************************************************************)
(* _panic and _warn of kern/init.c around the kernel monitor.  _panic may  *)
(* be called from anywhere, in the middle of a line that is being edited,  *)
(* cut up or printed, and by whatever the monitor is asked to do after an  *)
(* earlier panic.  It calls monitor, which goes on with the same buffer    *)
(* and the same screen and never comes back to what was interrupted.       *)
(*                                                                         *)
(* Who calls them is external: this kernel's own calls of panic are for    *)
(* what cannot happen, and of _warn there is none.                         *)
(***************************************************************************)
EXTENDS Monitor

CONSTANTS
  Formats,      \* what _panic is called with, the first time, the second and so on
  Message(_),   \* what it prints for each
  Warning,      \* what _warn prints
  MaxWarnings   \* bound of the model: calls of _warn; those of _panic end with Formats

ASSUME PanicAssumption ==
  /\ MaxWarnings \in Nat
  /\ Formats \in Seq(STRING) /\ \A k \in DOMAIN Formats : Formats[k] # "NULL"
  /\ \A k \in DOMAIN Formats : Message(Formats[k]) \in Seq(STRING)
  /\ Warning \in Seq(STRING)

VARIABLES
  panicstr,   \* the format of the first panic, or "NULL"
  panics,     \* history: what _panic has been called with
  told,       \* history: whose message it has printed
  warnings    \* calls of _warn

panicVars == <<panicstr, panics, told, warnings>>
allVars == <<vars, panicVars>>

\* Mutant: every panic is treated as the first.
_panic_again(fmt) ==
  /\ panics' = Append(panics, fmt)
  /\ monitor(Chars(Message(fmt)) \o <<Plain("NL")>>)
  /\ panicstr' = fmt
  /\ told' = Append(told, fmt)
  /\ UNCHANGED <<buf, scr, calls, ran, warnings>>
\* The second panic goes straight to the monitor.
_panic(fmt) ==
  /\ panics' = Append(panics, fmt)
  /\ IF panicstr # "NULL"
     THEN monitor(<<>>) /\ UNCHANGED <<panicstr, told>>
     ELSE /\ monitor(Chars(Message(fmt)) \o <<Plain("NL")>>)
          /\ panicstr' = fmt
          /\ told' = Append(told, fmt)
  /\ UNCHANGED <<buf, scr, calls, ran, warnings>>

Panics ==
  /\ Len(panics) < Len(Formats)
  /\ _panic(Formats[Len(panics) + 1])

\* A command prints a warning before it goes on.
_warn ==
  /\ mon = "lookup" /\ argv # <<>> /\ out = <<>>
  /\ \E k \in DOMAIN Commands : IsNamed(k)
  /\ warnings < MaxWarnings
  /\ warnings' = warnings + 1
  /\ out' = Chars(Warning) \o <<Plain("NL")>>
  /\ UNCHANGED <<buf, i, scr, pc, calls, mon, runcmdVars, panicstr, panics, told>>

-----------------------------------------------------------------------------
PanicInit == Init /\ panicstr = "NULL" /\ panics = <<>> /\ told = <<>> /\ warnings = 0

PanicNext ==
  \/ Next /\ UNCHANGED panicVars
  \/ Panics
  \/ _warn

PanicSpec == PanicInit /\ [][PanicNext]_allVars

\* runcmd and cprintf keep executing; nobody owes the monitor another character.
PanicFairSpec == PanicSpec /\ WF_allVars((runcmd \/ Prints) /\ UNCHANGED panicVars)

-----------------------------------------------------------------------------
(* Properties. *)

\* "Variable panicstr contains argument to first call to panic" (init.c:48), however many
\* follow and wherever they interrupt the first, and only that one's message is begun.
FirstPanicTold ==
  IF panics = <<>> THEN panicstr = "NULL" /\ told = <<>>
                   ELSE panicstr = Head(panics) /\ told = <<Head(panics)>>
=============================================================================
