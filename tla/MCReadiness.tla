---------------------------- MODULE MCReadiness -----------------------------
(* Readiness alone, for TLC.                                               *)
EXTENDS Readiness

CONSTANTS o1, o2, g1, b1, p1, p2, f1, f2
=============================================================================
