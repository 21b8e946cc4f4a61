SPECIFICATION Spec
CONSTANTS
    i1 = i1
    i2 = i2
    d1 = d1
    d2 = d2
    m1 = m1
    m2 = m2
    q1 = q1
    q2 = q2
    NoId = NoId
    NoHeader = NoHeader
    NoIntent = NoIntent
    Intents = {i1, i2}
    Ids = {d1}
    Items = {m1, m2}
    Requests = {q1, q2}
    Headers <- TwoLeaves
    BindingTTL = 1
    KeepUnsettled = 1
    MaxTime = 2
    MaxCrashes = 0
SYMMETRY Interchangeable
INVARIANTS ServedPaid
