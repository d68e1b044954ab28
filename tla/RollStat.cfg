SPECIFICATION FairSpec
CONSTANTS
    Buffers = {b1, b2}
    Nil = Nil
    ChunkSize = 4
    BatchSize = 4
    Window = 3
    DataSize = 3
    MaxSize = 12
    MaxRead = 3
INVARIANTS
    NoSharedBuffer
    SourceInOrder
    ResultIsComplete
    FileClosedAfterUse
PROPERTIES
    ErrPublished
    Ends
