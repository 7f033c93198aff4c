SPECIFICATION Spec
CONSTANTS
    MaxLen = 24
    SizeMod = 64
    MaxShort = 2
INVARIANTS
    StaysInside
