SPECIFICATION FairWriterSpec
CONSTANTS
    Window = 3
    BatchSize = 4
    StreamLimit = 9
PROPERTIES
    BytesValidUntilNext
    DrainAfterClose
    WriterImplementsRollingBatches
