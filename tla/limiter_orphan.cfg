SPECIFICATION FairSpec
CONSTANTS
    Requests = {r1, r2}
    Limit = 2
    Window = 3
PROPERTIES
    EveryWindowEnds
