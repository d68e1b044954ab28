SPECIFICATION Spec
CONSTANTS
    Width = 3
    Mod = 3
    Bytes = {0, 1, 2}
    MaxWindow = 4
INVARIANTS
    RollAgreesWithWrite
    BatchRollAgrees
    WindowWrittenInOrder
PROPERTIES
    ImplementsSlidingWindow
