\* Money: one-share orders, every booking outcome, the ring-fence on, two days.
SPECIFICATION Spec
CONSTANTS
    Keys = {k1, k2}
    MaxOpenQuotes = 1
    MaxFillsPerDay = 2
    MaxDailyLoss = 2
    MaxDailyStake = 6
    MaxPairStake = 3
    InplayPool = 5
    InplayMaxLoss = 1
    FillPnlFloor = 1
    RestPrices = {2}
    HedgePrices = {1}
    Depths = {1}
    QuoteMax = 2
    VenueMin = 1
    Payout = 3
    InplayHaltLoss = 1
    MaxHedgeErrors = 1
    EmptyReads = FALSE
    MaxUtc = 1
    MaxErrors = 1
    MaxStake = 2
    MaxGain = 0
SYMMETRY SymmetricKeys
INVARIANTS
    TypeOK
    PhasesAddUp
    OrphanHalts
    SlotLimit
PROPERTIES
    LossStopsPlacing
    PoolsRespected
    RailsSurvive
