SPECIFICATION FairSpec
CONSTANTS
    c1 = c1
    c2 = c2
    Requests = {c1, c2}
    Asks <- MCAsks
    PerIp <- MCPerIp
    PerDay <- MCPerDay
    Window = 1
    Day = 1
    Retention = 1
    Funds = 3
    Floor = 1
    Grant = 1
    MintFee = 1
    TransferFee = 1
    FillFee = 1
    MaxFaults = 3
INVARIANTS NoncesSound LedgerTruthful PaidOncePerWindow
PROPERTIES FloorKept ClaimsFinish
CHECK_DEADLOCK FALSE
