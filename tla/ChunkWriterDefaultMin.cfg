SPECIFICATION Spec
CONSTANTS
    Window = 2
    Min = 0
    Max = 4
    BatchSize = 2
    StreamLimit = 7
    MaxInt = 31
INVARIANT CutsFollowPolicy
