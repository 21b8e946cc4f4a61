SPECIFICATION LiveSpec
CONSTANTS
    j1 = j1
    w1 = w1
    w2 = w2
    Jobs = {j1}
    Workers = {w1, w2}
    Terms <- MCTerms
    Offers = {1, 2, 3}
    MaxTime = 5
    MaxCrashes = 1
INVARIANTS BooksExact ChargesCovered SlotChargedOnce
PROPERTIES CancelHolds JobsComeToRest
