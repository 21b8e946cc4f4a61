SPECIFICATION Spec
CONSTANTS
    c1 = c1
    c2 = c2
    Requests = {c1, c2}
    Asks <- MCAsks
    PerIp <- MCPerIp
    PerDay <- MCPerDay
    Window = 1
    Day = 1
    Retention = 1
    Funds = 5
    Floor = 1
    Grant = 1
    MintFee = 1
    TransferFee = 1
    FillFee = 1
    MaxFaults = 1
INVARIANT RefusedNeverPaid
CHECK_DEADLOCK FALSE
