CONSTANTS
    MaxSeats = 3
    MaxPosts = 2
SPECIFICATION Spec
INVARIANT NeverTwoPosts
CHECK_DEADLOCK FALSE
