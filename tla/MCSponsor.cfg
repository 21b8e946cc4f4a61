SPECIFICATION FairSpec
CONSTANTS
    q1 = q1
    q2 = q2
    Requests <- MCRequests
    Ops <- MCOps
    Services = {"bootstrap", "sponsored", "pinned"}
    Prefund = 2
    OpCost = 1
    GasHold = 1
    Fees = {0, 2}
    DailyLimit = 4
    MaxDay = 1
    MaxFaults = 2
INVARIANTS BudgetHolds OneGift AnswerTruthful
PROPERTIES RequestsAnswered
CHECK_DEADLOCK FALSE
