----------------------------- MODULE MCSampled ------------------------------
(* SampledPrices alone, for TLC.                                           *)
EXTENDS SampledPrices
=============================================================================
