---------------------------- MODULE MCPeerTrack -----------------------------
(* A near and a far path; on the far one a queue no longer looks like one. *)
EXTENDS PeerTrack
=============================================================================
