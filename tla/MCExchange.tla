----------------------------- MODULE MCExchange -----------------------------
(* Clocks ahead, behind and equal.                                         *)
EXTENDS Exchange
MCTrueOffset == {-3, 0, 2}
=============================================================================
