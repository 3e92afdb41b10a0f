---------------------------- MODULE MCDiscovery -----------------------------
(* A star: two daemons bootstrap from an anchor.                           *)
EXTENDS Discovery

CONSTANTS anchor, joiner1, joiner2

MCBootstrapPeers == [h \in Host |-> IF h = anchor THEN {} ELSE {anchor}]
=============================================================================
