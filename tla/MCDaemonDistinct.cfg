SPECIFICATION Spec
CONSTANTS
    anchor = anchor
    joiner = joiner
    Host <- MCHost
    BootstrapPeers <- MCBootstrapPeers
    Epochs <- MCEpochs
    AnchorEpochs = 0
    JoinerEpochs = 2
    MaxRestarts = 0
INVARIANT
    DistinctPeers
