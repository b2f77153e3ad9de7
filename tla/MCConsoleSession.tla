-------------------------- MODULE MCConsoleSession --------------------------
(* ConsoleSession with the letter b and backspace on the serial line, and the  *)
(* Enter key on the keyboard.                                                  *)
EXTENDS ConsoleSession

MCPrompt == <<">">>
MCName == [c \in 1 .. 255 |-> CASE c = 8 -> "BS" [] c = 10 -> "NL" [] OTHER -> "b"]
=============================================================================
