SPECIFICATION Spec
CONSTANTS
    Window = 2
    Min = 1
    Max = 4
    BatchSize = 2
    StreamLimit = 4
    MaxInt = 31
INVARIANT FalseClearsAccessors
