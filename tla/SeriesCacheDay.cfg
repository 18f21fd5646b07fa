\* One caller, a store that never fails, local days twice the interval long.
SPECIFICATION Spec
CONSTANTS
    Callers = {p1}
    Keys = {kf}
    Rolling = {kf}
    Calls = {c1}
    TTL = 2
    MaxStale = 3
    Wanted = 3
    Declared = 2
    ExactDays = 2
    DayLength = 4
    MayFail = {}
    MaxTime = 5
INVARIANT AnswerBeginsToday
