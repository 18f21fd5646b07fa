\* Two callers race on one rolling key, whose reads and writes may fail, with
\* fairness on callers and calls.  Two ticks are three refresh intervals and the
\* tolerated age, so a record is found fresh, stale and expired;
\* two calls are as many as one key could hold if it held too many.  No
\* symmetry: liveness is checked.
SPECIFICATION FairSpec
CONSTANTS
    Callers = {p1, p2}
    Keys = {kf}
    Rolling = {kf}
    Calls = {c1, c2}
    TTL = 1
    MaxStale = 2
    Wanted = 3
    Declared = 2
    ExactDays = 1
    DayLength = 2
    MayFail = {"get", "set"}
    MaxTime = 2
INVARIANTS
    OneCallPerKey
    AnswerCoversRequest
    AgeIsHonest
    AnswersNeverGoBack
PROPERTIES
    StoreNeverGoesBack
    StaleLeavesARefresh
    EveryFetchReturns
    EveryKeyIsReleased
