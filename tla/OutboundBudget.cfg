\* Eight instants are more than the long window, so both limits are met, bind
\* and refill; ten attempts are more than either lets out in that time.
SPECIFICATION Spec
CONSTANTS
    Windows <- MCWindows
    Limit <- MCLimit
    Length <- MCLength
    MaxTime = 8
    MaxAttempts = 10
INVARIANTS
    PaidInEveryWindow
    SustainedRate
PROPERTY NoTimePaidTwice
