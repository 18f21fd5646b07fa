\* One instance, one day or two: a place is known, what a probe of it found is not
\* saved, and it is asked for again.
SPECIFICATION Spec
CONSTANTS
    Instances = {i1}
    Declared = {"snowSeason", "marineCoverage"}
    Confirmations = 2
    CacheDays = 1
    LastDay = 1
    MaxRequests = 2
    MaxMishaps = 1
PROPERTY LostEvidenceWaitsForTomorrow
CHECK_DEADLOCK FALSE
