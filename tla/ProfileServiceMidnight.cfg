\* One instance, whose marine answers outlive midnight, as three hours of
\* tolerated age do.
SPECIFICATION Spec
CONSTANTS
    Instances = {i1}
    Declared = {"snowSeason", "marineCoverage"}
    Confirmations = 2
    CacheDays = 1
    LastDay = 1
    MaxRequests = 2
    MaxMishaps = 0
INVARIANT ConfirmedOnDifferentDays
CHECK_DEADLOCK FALSE
