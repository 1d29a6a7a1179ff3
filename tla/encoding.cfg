SPECIFICATION Spec
CONSTANTS
    Ids = {3, 5, 6}
    Prices = {1, 20}
    Durations = {5, 60}
    Phases = {1, 12}
    Readings <- ReadingsBothWays
    Loads <- LoadsBothWays
    Bytes = {0, 44, 59}
    HashSize = 2
    SignatureSize = 1
    KeySize = 7
    UdpBuffer = 40
    TcpBuffer = 12
INVARIANTS
    FirstIsRead
    FieldsFit
    HashedApart
CHECK_DEADLOCK FALSE
