SPECIFICATION FairSpec
CONSTANTS
    j1 = j1
    j2 = j2
    Jobs <- MCJobs
    Keys = {1, 2}
    Admissions = 2
    RankedAttempts = 1
    TotalLimit = 2
    MaxDay = 2
    MaxEpoch = 2
    MaxFaults = 1
    MaxHeaders = 2
INVARIANTS RoundsSound HeaderKept
PROPERTIES StopHeld Attended
CHECK_DEADLOCK FALSE
