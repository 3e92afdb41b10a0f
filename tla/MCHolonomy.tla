----------------------------- MODULE MCHolonomy -----------------------------
(* Three nodes, so that there is a loop.                                   *)
EXTENDS Holonomy
=============================================================================
