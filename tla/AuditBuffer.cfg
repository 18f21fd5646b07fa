\* Room for two records and six to record: the buffer overflows while a batch
\* is out, and twice over.
SPECIFICATION FairSpec
CONSTANTS
    MaxRecords = 2
    MaxRuns = 6
INVARIANTS
    CountsBoundTheStore
    HeldIsBounded
    NewestAreKept
PROPERTIES
    ImplementsLossyLog
    NoRunWaitsForever
    ShutdownCompletes
CHECK_DEADLOCK FALSE
