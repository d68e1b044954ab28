SPECIFICATION FairSpec
CONSTANTS
    Window = 3
    BatchSize = 5
    StreamLimit = 14
INVARIANTS
    BufferBounded
PROPERTIES
    ErrorIsFinal
    StreamComes
    ImplementsRollingBatches
