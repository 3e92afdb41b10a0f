------------------------------ MODULE MCDaemon ------------------------------
(* Two daemons; the second one bootstraps from the first.                  *)
EXTENDS Daemon

CONSTANTS anchor, joiner, AnchorEpochs, JoinerEpochs

PerHost(a, j) == [h \in {anchor, joiner} |-> IF h = anchor THEN a ELSE j]

MCHost == {anchor, joiner}
MCBootstrapPeers == PerHost({}, {anchor})
MCEpochs == PerHost(AnchorEpochs, JoinerEpochs)
=============================================================================
