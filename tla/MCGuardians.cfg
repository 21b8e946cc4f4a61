SPECIFICATION FairSpec
CONSTANTS
    alice = alice
    bob = bob
    Accounts <- MCAccounts
    Keys = {"admin", "signer"}
    Pairs <- MCPairs
    MaxSupply = 2
    MaxOwned = 2
    MaxMints = 1
    MaxBatch = 2
    Results <- MCResults
    Honors <- MCHonors
    HonorLanes = {"streak", "titles"}
    Games = {"race"}
    MaxSequence = 4
    FirstOwner = "admin"
    FirstSigner = "signer"
    FirstPair = "provider1"
    FirstWeek = 1
    MaxCalls = 2
    MaxEpoch = 2
    MaxWeek = 2
INVARIANTS HoldingsSound LatestDrawOnly PaymentsGrowOnce
PROPERTIES BirthsRevealed
CHECK_DEADLOCK FALSE
