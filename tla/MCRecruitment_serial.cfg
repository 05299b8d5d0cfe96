CONSTANTS
    u1 = u1
    u2 = u2
    u3 = u3
    p1 = p1
    p2 = p2
    User <- Three
    Post <- One
    Nil = Nil
    MaxSeats = 3
    MaxTaps = 6
    MaxQueue = 1
    Environment = {}
SPECIFICATION FairSpec
INVARIANTS
    TypeOK DatabasesAgree NoOverbooking NoCrash
PROPERTIES
    ImplementsRoster EnrolmentFollows
CHECK_DEADLOCK FALSE

