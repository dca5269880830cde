\* Slots: two orders, partial fills, sweeps of both, one shared pool,
\* a single day.
SPECIFICATION Spec
CONSTANTS
    Keys = {k1, k2}
    MaxOpenQuotes = 2
    MaxFillsPerDay = 2
    MaxDailyLoss = 3
    MaxDailyStake = 8
    MaxPairStake = 4
    InplayPool = 0
    InplayMaxLoss = 2
    FillPnlFloor = 3
    RestPrices = {1}
    HedgePrices = {2}
    Depths = {2}
    QuoteMax = 2
    VenueMin = 1
    Payout = 2
    InplayHaltLoss = 2
    MaxHedgeErrors = 1
    EmptyReads = FALSE
    MaxUtc = 0
    MaxErrors = 1
    MaxStake = 2
    MaxGain = 0
SYMMETRY SymmetricKeys
INVARIANTS
    SlotsBacked
    ReservationsBacked
