SPECIFICATION Spec
CONSTANTS
    m3 = m3
    m5 = m5
    m6 = m6
    Module = {m3, m5, m6}
    Seller = {m3}
    MaxPhase = 2
    TradeData <- TwoPhases
    InitialKeys <- AllKeys
    MaxTrades = 1
    MaxDups = 0
SYMMETRY BuyerSymmetry
INVARIANTS
    TypeOK
    AcksBacked
    Agreement
