CONSTANTS
    MaxSeats = 3
    MaxPosts = 2
SPECIFICATION Spec
INVARIANTS
    TypeOK OnlyCompletePosts OnePostUntouched TimeAsShown
CHECK_DEADLOCK FALSE
