--------------------------- MODULE MCAnchorGossip ---------------------------
(* Two nodes and one server; anchors of different servers do not interact. *)
EXTENDS AnchorGossip

CONSTANTS n1, n2, s1
=============================================================================
