CONSTANTS
    Address = {ann, ben}
    Nil = Nil
    MaxUids = 2
    MaxTaps = 10
    Regimes <- Courses
SPECIFICATION Spec
INVARIANTS
    TypeOK ProfileKept OnlyCertifiedInside NoTrap
CHECK_DEADLOCK FALSE
