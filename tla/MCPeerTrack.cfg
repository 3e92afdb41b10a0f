SPECIFICATION FairSpec
CONSTANTS
    Paths = {2, 8}
    Queue = 4
    PopcornNs = 1
    Warmup = 2
    FloorWindow = 3
    MaxChanges = 3
PROPERTIES
    NeverStarved
    FollowsPeer
    GlitchNeverTracked
