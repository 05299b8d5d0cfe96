CONSTANTS
    ann = ann
    ben = ben
    User <- Both
    kMaxPendingWrites = 2
    MaxWrites = 3
    Budgets <- Some
SPECIFICATION FairSpec
INVARIANTS
    TypeOK NoAssertionFails OnlyOwnWrites AnswersMatch CallersToldTrue
PROPERTIES
    ImplementsWriteQueue EveryWriteSettles
CHECK_DEADLOCK FALSE
