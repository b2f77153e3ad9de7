------------------------------- MODULE Powers -------------------------------
(* Powers of natural numbers, as what digits of numbers count. *)
EXTENDS Integers

Power(b, e) == LET p[k \in Nat] == IF k = 0 THEN 1 ELSE b * p[k - 1] IN p[e]
=============================================================================
