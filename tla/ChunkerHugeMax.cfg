SPECIFICATION Spec
CONSTANTS
    Window = 2
    Min = 1
    Max = 14
    BatchSize = 2
    StreamLimit = 8
    MaxInt = 15
INVARIANT NeverPanics
