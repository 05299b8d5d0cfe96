CONSTANTS
    ann = ann
    ben = ben
    Member <- AnnAndBen
    Reason = {abuse, fraud}
    Nil = Nil
    Settings <- Screens
    MaxReports <- Reports
SPECIFICATION FairSpec
INVARIANTS
    TypeOK CollectedBeforeSaving SavedAsConfirmed
PROPERTY EveryReportSaved
CHECK_DEADLOCK FALSE
