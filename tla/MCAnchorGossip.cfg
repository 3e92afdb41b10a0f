SPECIFICATION Spec
CONSTANTS
    n1 = n1
    n2 = n2
    s1 = s1
    Node = {n1, n2}
    Server = {s1}
    Sigma = {1, 2}
    Window = 1
    MaxAge = 2
    Period = 3
    MaxDelay = 1
    MaxCopies = 2
    QuietCap = 16
INVARIANTS
    TypeOK
    NeverLooksFresh
PROPERTIES
    HearsayImproves
    StoppedForgotten
