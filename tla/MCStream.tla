------------------------------ MODULE MCStream ------------------------------
(* AccountStream alone, for TLC.                                           *)
EXTENDS AccountStream
=============================================================================
