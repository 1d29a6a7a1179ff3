SPECIFICATION FairSpec
CONSTANTS
    m3 = m3
    m5 = m5
    m6 = m6
    Module = {m3, m5}
    Seller = {m3}
    MaxPhase = 2
    TradeData <- TornTerms
    InitialKeys <- OwnKeys
    MaxTrades = 1
    MaxDups = 1
INVARIANTS
    QuorumFeasible
PROPERTIES
    PaidWithinTerms
    AppendsToHead
    TradeReopens
    ValidatorReturns
