SPECIFICATION LiveSpec
CONSTANTS
    i1 = i1
    i2 = i2
    d1 = d1
    d2 = d2
    m1 = m1
    m2 = m2
    q1 = q1
    q2 = q2
    NoId = NoId
    NoHeader = NoHeader
    NoIntent = NoIntent
    Intents = {i1}
    Ids = {d1}
    Items = {m1, m2}
    Requests = {q1}
    Headers <- OnePayment
    BindingTTL = 0
    KeepUnsettled = 1
    MaxTime = 1
    MaxCrashes = 2
PROPERTIES SettledBindingKept AllAnswered PaidIsServed
