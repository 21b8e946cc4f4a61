SPECIFICATION LiveSpec
CONSTANTS
    i1 = i1
    i2 = i2
    p1 = p1
    c1 = c1
    c2 = c2
    Intents = {i1, i2}
    Payers = {p1}
    PayerOf <- MCPayerOf
    Calls = {c1}
    NoIntent = NoIntent
    NoCall = NoCall
    TotalLimit = 2
    PayerLimit = 2
    Reservations = {0}
    L1Fees = {0}
    MaxDay = 0
    RetentionDays = 0
    KeepRejected = 1
    MaxRejected = 0
    MaxCrashes = 1
PROPERTIES ClaimsConclude
