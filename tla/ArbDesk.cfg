\* Each part on the smallest instance in which its cases happen.
SPECIFICATION Spec
CONSTANTS
    KalshiLegs = {k1, k2}
    PolyLegs = {p1}
    MaxSize = 2
    MinPoly = 2
    Prints = {a, b}
    MaxErrors = 1
    MaxTrades = 2
    MaxLoss = 2
    Faults = {}
    Scans = {loop, person}
    Signatures = {s}
    MaxNow = 4
    MaxAge = 2
    Dedup = 1
    Interval = 2
    Allowance = 12
    Margin = 3
    RefreshMin = 5
    CatalogCost = 1
    Tournaments = 1
    OddsCalls = 2
    Slips = {}
    Target = 13000
    QuoteUsd = 2000000
    MinShares = 3
    PerTrade = 3000000
    Bankroll = 2500000
    QuoteInputs <- MCQuoteInputs
    SizeInputs <- MCSizeInputs
    SplitInputs <- MCSplitInputs
    PlanInputs <- MCPlanInputs
    Corrections = {c1, c2}
    Implausible = {c2}
    MaxDay = 2
    MaxStarts = 2
    MaxEvents = 2
    MaxLadder = 1
    Makers = {m1, m2}
    NoOwner = nobody
    Smoke = smoke
    Listings <- PlainListings
    Contests <- EveryContest
    Window = 3
    Fixtures <- FourGames
    MaxBuilds = 2
    MaxEnded = 1
    MaxGames = 2
    PerSport = 1
    TreeSlips = {"unreadable"}
    Markets = {x1, x2}
    MaxPasses = 2
    DriftLast = 1
    LiveAllowed = TRUE
    LoopSlips = {"raise", "disk", "crash"}
    Contract = 4
    Tolerance = 2
    PolyMin = 8
    FillSizes = {2, 4, 10}
    MaxBought = 14
    Attempts = 3
    EntryPrice = 3
    Bids = {2}
    Ceiling = 18
    Mishaps = {"thin", "lost", "uncancelled"}
    OddsSports <- TwoSports
    OddsEvery <- TwoIntervals
    Wanted <- OneToDrop
    Cups = {"cup"}
    DayLength = 2
    Reprobe = 1
    LastTime = 2
    OddsSlips = {"lost", "crash"}
    Boards <- EveryBoard
    AskPrices = {48}
    TakerFee = 2
INVARIANTS
    TypeOK
    ScanKept
    PricesRight
    CountersTell
    RuntimeKept
    PairsSound
    ExitKept
PROPERTIES
    TakerImplements
CHECK_DEADLOCK FALSE
