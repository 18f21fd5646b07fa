--------------------------- MODULE OutboundBudget ---------------------------
(***************************************************************************)
(* What the service may still send (modules/weather/outbound-budget/):     *)
(* one token bucket per window of the source, refilled continuously, and   *)
(* an attempt that pays in every window or goes nowhere.                   *)
(*                                                                         *)
(* A bucket refills at limit / length.  Its tokens are counted in units of *)
(* 1 / length, so that an instant adds `Limit` units, an attempt costs     *)
(* `Length` of them, and all arithmetic is on integers; the rounding of    *)
(* the program's floating point is left out.  The clock is Date.now: it    *)
(* may be set back.                                                        *)
(***************************************************************************)
EXTENDS Integers

CONSTANTS
    Windows,        \* minute, hour, day
    Limit,          \* attempts a window allows
    Length,         \* the length of a window, in clock units
    MaxTime,        \* bound: the clock stops here
    MaxAttempts     \* bound: attempts granted

ASSUME WindowAssumption ==
    /\ Limit \in [Windows -> Nat \ {0}]
    /\ Length \in [Windows -> Nat \ {0}]

ASSUME BoundAssumption == MaxTime \in Nat /\ MaxAttempts \in Nat

VARIABLES
    now,            \* what Date.now answers
    buckets,        \* the TokenBucket of each window; tokens in 1 / Length units
    granted,        \* history: attempts let out
    taken,          \* history: units each bucket gave
    mark            \* history: `granted` and the refill times at a past moment

vars == <<now, buckets, granted, taken, mark>>

Capacity(w) == Limit[w] * Length[w]

TypeOK ==
    /\ now \in 0 .. MaxTime
    /\ buckets \in [Windows -> [tokens : Nat, lastRefill : 0 .. MaxTime]]
    /\ \A w \in Windows : buckets[w].tokens <= Capacity(w)
    /\ granted \in 0 .. MaxAttempts
    /\ taken \in [Windows -> 0 .. MaxAttempts]
    /\ mark \in [granted : 0 .. MaxAttempts, refilled : [Windows -> 0 .. MaxTime]]

Init ==
    /\ now = 0
    /\ buckets = [w \in Windows |-> [tokens |-> Capacity(w), lastRefill |-> 0]]
    /\ granted = 0
    /\ taken = [w \in Windows |-> 0]
    /\ mark = [granted |-> 0, refilled |-> [w \in Windows |-> 0]]

----------------------------------------------------------------------------
Capped(w, tokens) == IF tokens <= Capacity(w) THEN tokens ELSE Capacity(w)

\* Mutants: no capacity; a clock that went back is remembered.
Refill_Uncapped(w, b, at) ==
    IF at <= b.lastRefill
    THEN b
    ELSE [tokens |-> b.tokens + (at - b.lastRefill) * Limit[w], lastRefill |-> at]

Refill_FollowsClockBack(w, b, at) ==
    IF at = b.lastRefill
    THEN b
    ELSE [tokens |-> IF at < b.lastRefill THEN b.tokens
                     ELSE Capped(w, b.tokens + (at - b.lastRefill) * Limit[w]),
          lastRefill |-> at]

\* TokenBucket.refill.  A clock that stood still or went back adds nothing,
\* and is not remembered.
Refill(w, b, at) ==
    IF at <= b.lastRefill
    THEN b
    ELSE [tokens |-> Capped(w, b.tokens + (at - b.lastRefill) * Limit[w]),
          lastRefill |-> at]

\* `remaining` of every window, at one moment.
ReadAll(at) == [w \in Windows |-> Refill(w, buckets[w], at)]

\* The integer `remaining` is below one exactly when a unit is not there.
Spent(w, b) == b.tokens < Length[w]

\* Mutant: an attempt is refused only when no window has anything left.
Shed_AllSpent(read) == \A w \in Windows : Spent(w, read[w])

\* One spent window refuses the attempt.
Shed(read) == \E w \in Windows : Spent(w, read[w])

\* TokenBucket.tryConsume of one unit: it refills again, and may refuse.
Consume(w, b, at) ==
    LET r == Refill(w, b, at)
    IN  IF Spent(w, r) THEN r ELSE [r EXCEPT !.tokens = @ - Length[w]]

Paid(w, b, at) == IF Spent(w, Refill(w, b, at)) THEN 0 ELSE 1

\* The clock is read once for the check and again for the payment, and may
\* have moved in between; whether a bucket paid is not looked at.
TryConsumeGranted ==
    LET read == ReadAll(now)
    IN  /\ granted < MaxAttempts
        /\ ~Shed(read)
        /\ \E at \in 0 .. MaxTime :
              /\ at \in now - 1 .. now + 1
              /\ buckets' = [w \in Windows |-> Consume(w, read[w], at)]
              /\ taken' = [w \in Windows |-> taken[w] + Paid(w, read[w], at)]
              /\ now' = at
        /\ granted' = granted + 1
        /\ UNCHANGED mark

\* A refused attempt has read the buckets, and refilled them by reading.
TryConsumeShed ==
    /\ Shed(ReadAll(now))
    /\ buckets' = ReadAll(now)
    /\ UNCHANGED <<now, granted, taken, mark>>

\* `remaining` of the windows, as the gauges publish it; the observer notes
\* the moment, and counts from here.
Publish ==
    /\ buckets' = ReadAll(now)
    /\ mark' = [granted |-> granted,
                refilled |-> [w \in Windows |-> buckets'[w].lastRefill]]
    /\ UNCHANGED <<now, granted, taken>>

Tick ==
    /\ now < MaxTime
    /\ now' = now + 1
    /\ UNCHANGED <<buckets, granted, taken, mark>>

\* The operator, or NTP, sets the clock back.
ClockSetBack ==
    /\ now' \in 0 .. now - 1
    /\ UNCHANGED <<buckets, granted, taken, mark>>

Next == TryConsumeGranted \/ TryConsumeShed \/ Publish \/ Tick \/ ClockSetBack

Spec == Init /\ [][Next]_vars

----------------------------------------------------------------------------
\* "One attempt's worth of budget, from every window at once or from none":
\* every attempt that went out was paid for in every window, although the
\* service does not look at what the second reading of a bucket answers.
PaidInEveryWindow == \A w \in Windows : taken[w] = granted

\* "The sustained rate the limit actually means, and the capacity is the burst
\* it tolerates": from any moment on, what a window lets out is at most its
\* limit plus what refilled in between, whatever the clock does.
SustainedRate ==
    \A w \in Windows :
        (granted - mark.granted) * Length[w]
            <= Capacity(w) + (buckets[w].lastRefill - mark.refilled[w]) * Limit[w]

\* No stretch of time is paid out twice: the moment a bucket was refilled at
\* never goes back, even when the clock does.
NoTimePaidTwice ==
    [][\A w \in Windows : buckets'[w].lastRefill >= buckets[w].lastRefill]_buckets
=============================================================================
