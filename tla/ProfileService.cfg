\* Two instances and two days: enough for a confirmation, and for a race on
\* either day.  One failure or restart a day.
SPECIFICATION Spec
CONSTANTS
    Instances = {i1, i2}
    Declared = {"snowSeason", "marineCoverage"}
    Confirmations = 2
    CacheDays = 1
    LastDay = 1
    MaxRequests = 3
    MaxMishaps = 1
SYMMETRY Alike
INVARIANTS
    KnownIsDurable
    NothingInvented
    ProbesArePaced
PROPERTY CoverageIsSettled
CHECK_DEADLOCK FALSE
