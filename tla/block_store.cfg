SPECIFICATION Spec
CONSTANTS
    Account = {a1}
    Rest = {r1, r2}
    BlockSize = 3
    MaxInt = 9
    SizeMod = 32
    Size = {3, 5, 6}
INVARIANTS
    TypeOK
    BlockInside
    NothingLost
    SignaturesTravel
PROPERTIES
    SignedBytesAgree
