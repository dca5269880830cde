\* Two tickers, two candidates, two pairs, two audit threads, a queue of two.
SPECIFICATION Spec
CONSTANTS
    Tickers = {t1, t2}
    MaxDepth = 1
    MaxWire = 2
    MaxSent = 5
    MaxBreaks = 2
    LossUnderSnapshot = FALSE
    c1 = c1
    c2 = c2
    Lines <- TwoLines
    Kickoff = 2
    Cutoff = 1
    MaxTime = 4
    FreezeTime = 2
    Grace = 1
    PersistTime = 1
    HedgePersist = 1
    ThinLimit = 2
    ThinWindow = 2
    ThinCooldown = 2
    MaxPairs = 2
    MaxCrashes = 1
    Runners = {r1, r2}
    MaxSlot = 2
    MaxTrouble = 2
    Loop = loop
    Other = other
    MaxQueue = 2
    MaxTexts = 4
INVARIANTS
    TypeOK
    
    QuotesJustified
    SettledOnce
    AlertsKept
PROPERTIES
    
    AuditKept
CHECK_DEADLOCK FALSE
