SPECIFICATION Spec
CONSTANTS
    anchor = anchor
    joiner = joiner
    Host <- MCHost
    BootstrapPeers <- MCBootstrapPeers
    Epochs <- MCEpochs
    AnchorEpochs = 0
    JoinerEpochs = 2
    MaxRestarts = 1
INVARIANTS
    AcceptedOnce
    AnswersOwnRequest
    PendingIsCurrent
PROPERTY
    ImplementsDiscovery
