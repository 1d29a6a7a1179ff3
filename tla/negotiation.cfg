SPECIFICATION Spec
CONSTANTS
    m3 = m3
    m5 = m5
    m6 = m6
    Module = {m3, m5}
    Seller = {m3}
    Terms <- TwoDeals
    MaxPrice = 6
    KeySlots = 2
    MaxBlocks = 2
    MaxBoots = 2
    MaxUnsigned = 2
    MaxKeyless = 1
INVARIANTS
    TypeOK
    BuyerAnswered
    OneDealAtATime
    VerifiedIsOffered
    SlotsKept
