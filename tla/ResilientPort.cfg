\* Three fetches over one slot, so that one is out and two wait, and a slot
\* that is given back must go on to somebody; two attempts, so that both endings
\* of the retry happen; a stated delay beyond the greatest one; two faults open
\* the breaker for one tick; with five fetches a test outlives its half-open
\* period and meets a breaker that another test has closed.
SPECIFICATION FairSpec
CONSTANTS
    Callers = {p1, p2, p3}
    MaxAttempts = 2
    Limit = 1
    Queue = 2
    Threshold = 2
    HalfOpenAfter = 1
    InitialDelay = 1
    MaxDelay = 1
    StatedDelays = {2}
    MaxFetches = 5
INVARIANTS
    SlotsFollowTheCalls
    TestsAreUnderWay
PROPERTIES
    OpensAfterThreshold
    EveryFetchReturns
CHECK_DEADLOCK FALSE
