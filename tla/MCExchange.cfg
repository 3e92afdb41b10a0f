SPECIFICATION ExchangeSpec
CONSTANTS
    TrueOffset <- MCTrueOffset
    Delay = {1, 2}
    NsPerSec = 10
    MaxSamples = 3
INVARIANT
    SyntheticSameOffsetAndRtt
