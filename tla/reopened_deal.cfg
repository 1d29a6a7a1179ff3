SPECIFICATION Spec
CONSTANTS
    m3 = m3
    m5 = m5
    m6 = m6
    Module = {m3, m5}
    Seller = {m3, m5}
    MaxPhase = 1
    TradeData <- OnePhase
    InitialKeys <- AllKeys
    MaxTrades = 1
    MaxDups = 0
INVARIANTS
    ClosedWhileSelling
