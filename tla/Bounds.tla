------------------------------- MODULE Bounds -------------------------------
(* Python's min() and max() of two numbers. *)
EXTENDS Integers

Least(m, n) == IF m < n THEN m ELSE n
Most(m, n) == IF m < n THEN n ELSE m
=============================================================================
