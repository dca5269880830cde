\* Quarters of a contract: a fill of one, and one of a contract and three quarters.
SPECIFICATION Spec
CONSTANTS
    Contract = 4
    Tolerance = 2
    PolyMin = 8
    FillSizes = {4, 7}
    MaxBought = 14
    Attempts = 3
    EntryPrice = 3
    Bids = {2}
    Ceiling = 18
    Mishaps = {}
INVARIANT
    DustNeverHalts
CHECK_DEADLOCK FALSE
