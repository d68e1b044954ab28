SPECIFICATION FairSpec
CONSTANTS
    Window = 3
    Min = 2
    Max = 4
    BatchSize = 3
    StreamLimit = 9
    MaxInt = 31
INVARIANTS
    TypeOK
    CutsFollowPolicy
    QueueComplete
PROPERTIES
    QueueAscends
    NeedMoreMeansNoCut
    NextReturns
    DrainAfterClose
    ImplementsContentChunking
