SPECIFICATION Spec
CONSTANTS
    Thread = {t1, t2}
    Wallet = {w1}
    Root = {r1, r2}
    MaxIndex = 1
INVARIANTS
    TypeOK
    OneIdentity
PROPERTIES
    FieldsSettle
    KeepsContract
