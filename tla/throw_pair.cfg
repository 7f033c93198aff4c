SPECIFICATION Spec
CONSTANTS
    Thread = {t1, t2}
    Message = {767}
INVARIANTS
    TypeOK
    ComplaintFits
    ComplaintIsMine
    MessageReleased
PROPERTIES
    KeepsContract
    Returns
