SPECIFICATION FairSpec
CONSTANTS
    MaxFunctions = 3
    Strings = {s1, s2}
    MaxHits = 1
    hw = 2
    NotRun = NotRun
INVARIANTS TypeOK ExclusiveClaims NoResultLost Accounting LimitWarningConsistent
PROPERTIES RunOnce Terminates ImplementsBatch
