SPECIFICATION FairBytesSpec
CONSTANTS
    Window = 2
    Min = 0
    Max = 3
    BatchSize = 2
    StreamLimit = 6
    MaxInt = 31
INVARIANTS
    TypeOK
    BufferBounded
    BytesValidUntilNext
PROPERTIES
    ErrorIsFinal
    StreamComes
    ImplementsContentChunking
