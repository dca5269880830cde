\* The venue may read a filled order back as absent: the counter goes wrong
\* and is healed.
SPECIFICATION Spec
CONSTANTS
    Keys = {k1, k2}
    MaxOpenQuotes = 2
    MaxFillsPerDay = 2
    MaxDailyLoss = 3
    MaxDailyStake = 8
    MaxPairStake = 4
    InplayPool = 0
    InplayMaxLoss = 2
    FillPnlFloor = 3
    RestPrices = {1}
    HedgePrices = {1}
    Depths = {2}
    QuoteMax = 2
    VenueMin = 1
    Payout = 2
    InplayHaltLoss = 1
    MaxHedgeErrors = 1
    EmptyReads = TRUE
    MaxUtc = 0
    MaxErrors = 1
    MaxStake = 0
    MaxGain = 0
INVARIANTS
    NoSlotLeaked
