CONSTANTS
    Address = {ann, ben}
    Nil = Nil
    MaxUids = 2
    MaxTaps = 8
    Regimes <- Peaceful
SPECIFICATION Spec
INVARIANT OnlyWithdrawnDeleted
CHECK_DEADLOCK FALSE
