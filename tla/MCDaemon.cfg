SPECIFICATION Spec
CONSTANTS
    anchor = anchor
    joiner = joiner
    Host <- MCHost
    BootstrapPeers <- MCBootstrapPeers
    Epochs <- MCEpochs
    AnchorEpochs = 1
    JoinerEpochs = 3
    MaxRestarts = 0
INVARIANTS
    TypeOK
    MeasuredRecently
    BeaconMatchesLayer0
    TickPerEpoch
