SPECIFICATION Spec
CONSTANTS
    Thread = {t1, t2}
    Account = {a1, a2}
    Rest = {r1, r2}
INVARIANTS
    TypeOK
PROPERTIES
    WorkOfSigned
    SignedStaysSigned
    KeepsContract
