SPECIFICATION FairScan
CONSTANTS
    MaxN = 10
    BlockSizes = {2, 4, 32}
INVARIANTS
    AllHitsInOrder
PROPERTIES
    Returns
CHECK_DEADLOCK FALSE
