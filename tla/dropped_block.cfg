SPECIFICATION Spec
CONSTANTS
    m3 = m3
    m5 = m5
    m6 = m6
    Module = {m3, m5}
    Seller = {m3}
    MaxPhase = 2
    TradeData <- AnyTerms
    InitialKeys <- AllKeys
    MaxTrades = 2
    MaxDups = 0
PROPERTIES
    BlocksStayInChain
