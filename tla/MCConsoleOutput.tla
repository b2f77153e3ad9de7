--------------------------- MODULE MCConsoleOutput ---------------------------
(* ConsoleOutput on a screen of three lines of two columns. *)
EXTENDS ConsoleOutput

\* A letter, the control characters, and a byte that "%s" has sign-extended.
MCText == {Plain("a"), Plain("NL"), Plain("BS"), Plain("CR"), Plain("TAB"), Extended("x")}
=============================================================================
