--------------------------- MODULE MCM68kArithmetic ---------------------------
(* Every pair of decimal digits, and words at the edges of both readings.  *)
EXTENDS M68kArithmetic

MCOperands == 0 .. 99 \cup {64 * h + l : h \in {1, 31, 32, 63}, l \in {0, 1, 31, 32, 33, 62, 63}}
=============================================================================
