CONSTANTS
    u1 = u1
    u2 = u2
    u3 = u3
    p1 = p1
    p2 = p2
    User <- Three
    Post <- One
    Nil = Nil
    MaxSeats = 2
    MaxTaps = 3
    MaxQueue = 1
    Environment = {"stale", "search"}
SPECIFICATION Spec
INVARIANT NoOverbooking
CHECK_DEADLOCK FALSE

