SPECIFICATION FairSpec
CONSTANTS
    anchor = anchor
    joiner1 = joiner1
    joiner2 = joiner2
    Host = {anchor, joiner1, joiner2}
    BootstrapPeers <- MCBootstrapPeers
    MaxRestarts = 1
INVARIANTS
    TypeOK
    LinksFollowBootstrap
PROPERTY
    Converges
CHECK_DEADLOCK FALSE
