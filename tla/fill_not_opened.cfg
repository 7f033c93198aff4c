SPECIFICATION Spec
CONSTANTS
    MaxLen = 24
    SizeMod = 64
    MaxShort = 0
INVARIANTS
    FilledAsAsked
