SPECIFICATION Spec
CONSTANTS
    MaxLen = 24
    SizeMod = 64
    MaxShort = 1
INVARIANTS
    TypeOK
    StaysInside
    FilledIfOpened
PROPERTIES
    FillReturns
