CONSTANTS
    User = {u1, u2}
    Text = {hi}
    Blank = Blank
    Regimes <- TurnsAndCrowd
    MaxSends <- TwoSends
    MaxVisits <- Visits
SPECIFICATION FairSpec
INVARIANTS
    TypeOK TextSurvives NothingWithheld
PROPERTY EverySendArrives
CHECK_DEADLOCK FALSE
