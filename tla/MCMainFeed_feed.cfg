CONSTANTS
    p1 = p1
    p2 = p2
    p3 = p3
    ann = ann
    ben = ben
    tea = tea
    rice = rice
    Post <- Three
    Author = {ann, ben}
    Category <- Both
    AuthorOf <- Authors
    CategoryOf <- Categories
    Nil = Nil
    PageSize = 2
    Regimes <- Paces
    MaxClock <- ThreeOrTwo
    MaxTaps <- ThreeEach
    MaxReads = 2
SPECIFICATION FairSpec
INVARIANTS
    TypeOK OneTrapOnly PagesJoin NoBlockedShown CountsItsPost
PROPERTY TableCatchesUp
CHECK_DEADLOCK FALSE
