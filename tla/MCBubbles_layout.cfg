CONSTANTS
    Me = me
    Other = {ann, ben}
    System = System
    Nobody = Nobody
    Minutes = 2
    MaxMessages = 4
    MaxTime = 2
SPECIFICATION Spec
INVARIANTS
    TypeOK Readable
PROPERTY OldRowsStay
CHECK_DEADLOCK FALSE
