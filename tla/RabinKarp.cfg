SPECIFICATION Spec
CONSTANTS
    Width = 7
    DerivedDegree = 5
    ByteWidth = 2
    MaxWindow = 3
    Moduli <- High
INVARIANTS
    ValueIsResidue
    BatchAgrees
    OverflowIsNoticed
    DerivedIsIrreducible
