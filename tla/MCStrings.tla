----------------------------- MODULE MCStrings ------------------------------
(* The functions of string.c on a block of bytes that are all different, on every   *)
(* memory of two characters and NULs, and on every string of these digits.          *)
EXTENDS Strtol

CONSTANTS BlockSize, TextSize, Chars, NumberChars, NumberLength

MCBlocks == {[a \in 0 .. BlockSize - 1 |-> a]}
MCTexts == {m \in [0 .. TextSize - 1 -> Chars \cup {0}] : m[TextSize - 1] = 0}
MCNumbers ==
  UNION {{[k \in 0 .. n |-> IF k = n THEN 0 ELSE t[k]] : t \in [0 .. n - 1 -> NumberChars]} :
           n \in 0 .. NumberLength}
=============================================================================
