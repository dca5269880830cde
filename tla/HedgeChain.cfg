\* One order of two lots, any two mishaps on either side of the pair.
SPECIFICATION Spec
CONSTANTS
    Size = 2
    MaxOrders = 1
    MaxErrors = 2
    Scenes <- EitherLeg
    MaxMishaps = 2
INVARIANTS
    TypeOK
    BookedIsHeld
    RestIsHedged
    CountedIsExpected
CHECK_DEADLOCK FALSE
