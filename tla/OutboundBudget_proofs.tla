----------------------- MODULE OutboundBudget_proofs -----------------------
(***************************************************************************)
(* Proofs about OutboundBudget, for every set of windows, every limit and  *)
(* every length: an attempt pays in all windows or goes nowhere, and what  *)
(* a window lets out from any moment on is bounded by its limit plus what  *)
(* refilled since.  The rate is not inductive by itself: what is left in a *)
(* bucket has to be counted with what was let out.                         *)
(***************************************************************************)
EXTENDS OutboundBudget, TLAPS

Bucket == [tokens : Nat, lastRefill : 0 .. MaxTime]

\* What refilled between two readings pays for what was let out and what is
\* left: the inductive form of SustainedRate.
RateWithRemainder ==
    \A w \in Windows :
        (granted - mark.granted) * Length[w] + buckets[w].tokens
            <= Capacity(w) + (buckets[w].lastRefill - mark.refilled[w]) * Limit[w]

Inv == TypeOK /\ PaidInEveryWindow /\ RateWithRemainder

----------------------------------------------------------------------------
\* Three stretches of time that follow each other refill as the whole does.
LEMMA RefillsAddUp ==
    ASSUME NEW a \in Int, NEW b \in Int, NEW c \in Int, NEW d \in Int, NEW rate \in Int
    PROVE  (d - a) * rate = (b - a) * rate + (c - b) * rate + (d - c) * rate
<1>1. /\ (d - a) * rate = d * rate - a * rate
      /\ (b - a) * rate = b * rate - a * rate
      /\ (c - b) * rate = c * rate - b * rate
      /\ (d - c) * rate = d * rate - c * rate
  OBVIOUS
<1>2. a * rate \in Int /\ b * rate \in Int /\ c * rate \in Int /\ d * rate \in Int
  OBVIOUS
<1> QED
  BY <1>1, <1>2

\* One more attempt costs one more unit.
LEMMA OneMoreAttempt ==
    ASSUME NEW a \in Int, NEW b \in Int, NEW cost \in Int
    PROVE  (a + 1 - b) * cost = (a - b) * cost + cost
<1>1. (a + 1 - b) * cost = (a - b + 1) * cost
  OBVIOUS
<1>2. \A n \in Int : (n + 1) * cost = n * cost + cost
  OBVIOUS
<1> QED
  BY <1>1, <1>2

\* The capacity of a bucket is a number of units.
LEMMA CapacityIsNat == \A w \in Windows : Capacity(w) \in Nat
BY WindowAssumption DEF Capacity

\* A refill keeps a bucket within its capacity, takes nothing out of it, does
\* not move its moment back, and adds at most the rate times the time passed.
LEMMA RefillBounds ==
    ASSUME NEW w \in Windows, NEW b \in Bucket, b.tokens <= Capacity(w),
           NEW at \in 0 .. MaxTime
    PROVE  /\ Refill(w, b, at) \in Bucket
           /\ Refill(w, b, at).tokens <= Capacity(w)
           /\ Refill(w, b, at).tokens >= b.tokens
           /\ Refill(w, b, at).lastRefill >= b.lastRefill
           /\ Refill(w, b, at).tokens
                <= b.tokens + (Refill(w, b, at).lastRefill - b.lastRefill) * Limit[w]
<1>1. Limit[w] \in Nat /\ Capacity(w) \in Nat /\ MaxTime \in Nat
  BY WindowAssumption, BoundAssumption, CapacityIsNat
<1>2. b.tokens \in Nat /\ b.lastRefill \in 0 .. MaxTime
  BY DEF Bucket
<1>3. CASE at <= b.lastRefill
  BY <1>1, <1>2, <1>3 DEF Refill
<1>4. CASE at > b.lastRefill
  <2> DEFINE gain == (at - b.lastRefill) * Limit[w]
  <2>1. gain \in Nat
    BY <1>1, <1>2, <1>4
  <2>2. Refill(w, b, at) = [tokens |-> Capped(w, b.tokens + gain), lastRefill |-> at]
    BY <1>2, <1>4 DEF Refill
  <2> HIDE DEF gain
  <2>3. /\ Capped(w, b.tokens + gain) \in Nat
        /\ Capped(w, b.tokens + gain) <= Capacity(w)
        /\ Capped(w, b.tokens + gain) >= b.tokens
        /\ Capped(w, b.tokens + gain) <= b.tokens + gain
    BY <1>1, <1>2, <2>1 DEF Capped
  <2>4. Refill(w, b, at).lastRefill = at /\ at >= b.lastRefill
    BY <1>2, <1>4, <2>2
  <2>5. Refill(w, b, at).tokens = Capped(w, b.tokens + gain)
    BY <2>2
  <2>6. (Refill(w, b, at).lastRefill - b.lastRefill) * Limit[w] = gain
    BY <2>4 DEF gain
  <2>7. Refill(w, b, at) \in Bucket
    BY <2>2, <2>3 DEF Bucket
  <2> QED
    BY <2>3, <2>4, <2>5, <2>6, <2>7
<1> QED
  BY <1>2, <1>3, <1>4

\* A bucket that had a unit when it was read pays it, at whatever moment it is
\* asked to, and what is left is bounded by the rate.
LEMMA ConsumeBounds ==
    ASSUME NEW w \in Windows, NEW b \in Bucket, b.tokens <= Capacity(w),
           ~Spent(w, b), NEW at \in 0 .. MaxTime
    PROVE  /\ Paid(w, b, at) = 1
           /\ Consume(w, b, at) \in Bucket
           /\ Consume(w, b, at).tokens <= Capacity(w)
           /\ Consume(w, b, at).lastRefill >= b.lastRefill
           /\ Consume(w, b, at).tokens + Length[w]
                <= b.tokens + (Consume(w, b, at).lastRefill - b.lastRefill) * Limit[w]
<1> DEFINE r == Refill(w, b, at)
<1>1. /\ r \in Bucket /\ r.tokens <= Capacity(w) /\ r.tokens >= b.tokens
      /\ r.lastRefill >= b.lastRefill
      /\ r.tokens <= b.tokens + (r.lastRefill - b.lastRefill) * Limit[w]
  BY RefillBounds
<1>2. Length[w] \in Nat /\ b.tokens \in Nat /\ b.tokens >= Length[w]
  BY WindowAssumption DEF Spent, Bucket
<1>3. ~Spent(w, r)
  <2>1. r.tokens \in Nat
    BY <1>1 DEF Bucket
  <2> QED
    BY <1>1, <1>2, <2>1 DEF Spent
<1>4. Paid(w, b, at) = 1
  BY <1>3 DEF Paid
<1>5. Consume(w, b, at) = [r EXCEPT !.tokens = @ - Length[w]]
  BY <1>3 DEF Consume
<1> HIDE DEF r
<1>6. r = [tokens |-> r.tokens, lastRefill |-> r.lastRefill]
      /\ r.tokens \in Nat /\ r.lastRefill \in 0 .. MaxTime
  BY <1>1 DEF Bucket
<1>7. Consume(w, b, at) = [tokens |-> r.tokens - Length[w], lastRefill |-> r.lastRefill]
  BY <1>5, <1>6
<1>8. r.tokens - Length[w] \in Nat
  BY <1>1, <1>2, <1>6
<1>9. Consume(w, b, at) \in Bucket
  BY <1>6, <1>7, <1>8 DEF Bucket
<1>10. Consume(w, b, at).tokens = r.tokens - Length[w]
       /\ Consume(w, b, at).lastRefill = r.lastRefill
  BY <1>7
<1>11. Capacity(w) \in Nat
  BY CapacityIsNat
<1>12. Consume(w, b, at).tokens <= Capacity(w)
  BY <1>1, <1>2, <1>6, <1>10, <1>11
<1>13. Consume(w, b, at).tokens + Length[w] = r.tokens
  BY <1>2, <1>6, <1>10
<1> QED
  BY <1>1, <1>4, <1>9, <1>10, <1>12, <1>13

----------------------------------------------------------------------------
\* Reading every window leaves the invariant as it is.
LEMMA ReadAllKeeps ==
    ASSUME Inv, buckets' = ReadAll(now), UNCHANGED <<granted, taken, mark>>
    PROVE  /\ buckets' \in [Windows -> Bucket]
           /\ \A w \in Windows : buckets'[w].tokens <= Capacity(w)
           /\ RateWithRemainder'
<1>1. \A w \in Windows : buckets'[w] = Refill(w, buckets[w], now)
  BY DEF ReadAll
<1>2. \A w \in Windows : buckets[w] \in Bucket /\ buckets[w].tokens <= Capacity(w)
  BY DEF Inv, TypeOK, Bucket
<1>3. now \in 0 .. MaxTime
  BY DEF Inv, TypeOK
<1>4. buckets' \in [Windows -> Bucket]
  BY <1>2, <1>3, RefillBounds DEF ReadAll
<1>5. ASSUME NEW w \in Windows
      PROVE  /\ buckets'[w].tokens <= Capacity(w)
             /\ (granted' - mark'.granted) * Length[w] + buckets'[w].tokens
                  <= Capacity(w) + (buckets'[w].lastRefill - mark'.refilled[w]) * Limit[w]
  <2> DEFINE b == buckets[w]
             r == buckets'[w]
             out == (granted - mark.granted) * Length[w]
             old == (b.lastRefill - mark.refilled[w]) * Limit[w]
             gain == (r.lastRefill - b.lastRefill) * Limit[w]
             new == (r.lastRefill - mark.refilled[w]) * Limit[w]
  <2>1. r.tokens <= Capacity(w) /\ r.tokens <= b.tokens + gain
    BY <1>1, <1>2, <1>3, RefillBounds
  <2>2. out + b.tokens <= Capacity(w) + old
    BY DEF Inv, RateWithRemainder
  <2>3. /\ b.lastRefill \in Int /\ r.lastRefill \in Int /\ mark.refilled[w] \in Int
        /\ b.tokens \in Int /\ r.tokens \in Int /\ Limit[w] \in Int /\ Length[w] \in Int
        /\ granted \in Int /\ mark.granted \in Int /\ Capacity(w) \in Int
    BY <1>2, <1>4, WindowAssumption, CapacityIsNat DEF Inv, TypeOK, Bucket
  <2>4. new = old + gain
    BY <2>3
  <2>5. out \in Int /\ old \in Int /\ gain \in Int
    BY <2>3
  <2>6. out + r.tokens <= Capacity(w) + new
    <3> HIDE DEF out, old, gain, new
    <3> QED
      BY <2>1, <2>2, <2>3, <2>4, <2>5
  <2> QED
    BY <2>1, <2>6
<1> QED
  BY <1>4, <1>5 DEF RateWithRemainder

LEMMA InitInv == Init => Inv
<1> SUFFICES ASSUME Init PROVE Inv
  OBVIOUS
<1>1. TypeOK
  BY CapacityIsNat, WindowAssumption, BoundAssumption DEF Init, TypeOK
<1>2. PaidInEveryWindow
  BY DEF Init, PaidInEveryWindow
<1>3. ASSUME NEW w \in Windows
      PROVE  (granted - mark.granted) * Length[w] + buckets[w].tokens
               <= Capacity(w) + (buckets[w].lastRefill - mark.refilled[w]) * Limit[w]
  <2>1. granted - mark.granted = 0 /\ buckets[w].tokens = Capacity(w)
        /\ buckets[w].lastRefill - mark.refilled[w] = 0
    BY <1>3 DEF Init
  <2>2. Length[w] \in Nat /\ Limit[w] \in Nat /\ Capacity(w) \in Nat
    BY WindowAssumption, CapacityIsNat
  <2> QED
    BY <2>1, <2>2
<1> QED
  BY <1>1, <1>2, <1>3 DEF Inv, RateWithRemainder

\* A granted attempt takes a unit out of every window, and no more than the
\* rate and the time between the two readings allow.
LEMMA GrantedKeeps == Inv /\ TryConsumeGranted => Inv'
<1> SUFFICES ASSUME Inv, TryConsumeGranted PROVE Inv'
  OBVIOUS
<1> DEFINE read == ReadAll(now)
<1>1. PICK at \in 0 .. MaxTime :
        /\ buckets' = [w \in Windows |-> Consume(w, read[w], at)]
        /\ taken' = [w \in Windows |-> taken[w] + Paid(w, read[w], at)]
        /\ now' = at
  BY DEF TryConsumeGranted
<1>2. /\ granted < MaxAttempts /\ granted' = granted + 1 /\ mark' = mark
      /\ \A w \in Windows : ~Spent(w, read[w])
  BY DEF TryConsumeGranted, Shed
<1>3. TypeOK /\ PaidInEveryWindow /\ RateWithRemainder
  BY DEF Inv
<1>4. \A w \in Windows :
        /\ buckets[w] \in Bucket /\ buckets[w].tokens <= Capacity(w)
        /\ read[w] = Refill(w, buckets[w], now)
  BY <1>3 DEF TypeOK, Bucket, ReadAll
<1>5. now \in 0 .. MaxTime
  BY <1>3 DEF TypeOK
<1>6. \A w \in Windows :
        /\ read[w] \in Bucket /\ read[w].tokens <= Capacity(w)
        /\ read[w].tokens <= buckets[w].tokens
             + (read[w].lastRefill - buckets[w].lastRefill) * Limit[w]
  BY <1>4, <1>5, RefillBounds
<1> HIDE DEF read
<1>7. \A w \in Windows :
        /\ Paid(w, read[w], at) = 1
        /\ buckets'[w] = Consume(w, read[w], at)
        /\ buckets'[w] \in Bucket
        /\ buckets'[w].tokens <= Capacity(w)
        /\ buckets'[w].tokens + Length[w]
             <= read[w].tokens + (buckets'[w].lastRefill - read[w].lastRefill) * Limit[w]
  <2> TAKE w \in Windows
  <2>1. buckets'[w] = Consume(w, read[w], at)
    BY <1>1
  <2> QED
    BY <2>1, <1>2, <1>6, ConsumeBounds
<1>8. TypeOK'
  <2>1. buckets' \in [Windows -> Bucket]
    BY <1>1, <1>7
  <2>2. taken' \in [Windows -> 0 .. MaxAttempts] /\ granted' \in 0 .. MaxAttempts
    BY <1>1, <1>2, <1>3, <1>7, BoundAssumption DEF TypeOK, PaidInEveryWindow
  <2> QED
    BY <1>1, <1>2, <1>3, <1>7, <2>1, <2>2 DEF TypeOK, Bucket
<1>9. PaidInEveryWindow'
  BY <1>1, <1>2, <1>3, <1>7 DEF TypeOK, PaidInEveryWindow
<1>10. ASSUME NEW w \in Windows
       PROVE  (granted' - mark'.granted) * Length[w] + buckets'[w].tokens
                <= Capacity(w) + (buckets'[w].lastRefill - mark'.refilled[w]) * Limit[w]
  <2> DEFINE out == (granted - mark.granted) * Length[w]
             old == (buckets[w].lastRefill - mark.refilled[w]) * Limit[w]
             gain1 == (read[w].lastRefill - buckets[w].lastRefill) * Limit[w]
             gain2 == (buckets'[w].lastRefill - read[w].lastRefill) * Limit[w]
  <2>1. /\ buckets[w].lastRefill \in Int /\ read[w].lastRefill \in Int
        /\ buckets'[w].lastRefill \in Int /\ mark.refilled[w] \in Int
        /\ buckets[w].tokens \in Int /\ read[w].tokens \in Int /\ buckets'[w].tokens \in Int
        /\ Limit[w] \in Int /\ Length[w] \in Int /\ Capacity(w) \in Int
        /\ granted \in Int /\ mark.granted \in Int
    BY <1>3, <1>4, <1>6, <1>7, WindowAssumption, CapacityIsNat DEF TypeOK, Bucket
  <2>2. out + buckets[w].tokens <= Capacity(w) + old
    BY <1>3 DEF RateWithRemainder
  <2>3. read[w].tokens <= buckets[w].tokens + gain1
    BY <1>6
  <2>4. buckets'[w].tokens + Length[w] <= read[w].tokens + gain2
    BY <1>7
  <2>5. (granted' - mark'.granted) * Length[w] = out + Length[w]
    <3>1. granted' - mark'.granted = granted + 1 - mark.granted
      <4>1. granted' = granted + 1 /\ mark' = mark
        BY <1>2
      <4>2. mark'.granted = mark.granted
        BY <4>1
      <4> QED
        BY <2>1, <4>1, <4>2
    <3>2. (granted + 1 - mark.granted) * Length[w] = out + Length[w]
      BY <2>1, OneMoreAttempt
    <3> QED
      BY <3>1, <3>2, Zenon
  <2>6. (buckets'[w].lastRefill - mark'.refilled[w]) * Limit[w] = old + gain1 + gain2
    <3>1. mark' = mark
      BY <1>2
    <3>2. (buckets'[w].lastRefill - mark.refilled[w]) * Limit[w] = old + gain1 + gain2
      BY <2>1, RefillsAddUp
    <3> QED
      BY <3>1, <3>2
  <2>7. out \in Int /\ old \in Int /\ gain1 \in Int /\ gain2 \in Int
    BY <2>1
  <2> HIDE DEF out, old, gain1, gain2
  <2> QED
    BY <2>1, <2>2, <2>3, <2>4, <2>5, <2>6, <2>7
<1> QED
  BY <1>8, <1>9, <1>10 DEF Inv, RateWithRemainder

LEMMA ShedKeeps == Inv /\ TryConsumeShed => Inv'
<1> SUFFICES ASSUME Inv, TryConsumeShed PROVE Inv'
  OBVIOUS
<1>1. buckets' = ReadAll(now) /\ UNCHANGED <<now, granted, taken, mark>>
  BY DEF TryConsumeShed
<1>2. /\ buckets' \in [Windows -> Bucket]
      /\ \A w \in Windows : buckets'[w].tokens <= Capacity(w)
      /\ RateWithRemainder'
  BY <1>1, ReadAllKeeps
<1> QED
  BY <1>1, <1>2 DEF Inv, TypeOK, PaidInEveryWindow, Bucket

\* From a new mark nothing has been let out, and a bucket holds its capacity
\* at most: the rate starts over.
LEMMA PublishKeeps == Inv /\ Publish => Inv'
<1> SUFFICES ASSUME Inv, Publish PROVE Inv'
  OBVIOUS
<1>1. /\ buckets' = ReadAll(now)
      /\ mark' = [granted |-> granted,
                  refilled |-> [w \in Windows |-> buckets'[w].lastRefill]]
      /\ UNCHANGED <<now, granted, taken>>
  BY DEF Publish
<1>2. now \in 0 .. MaxTime
      /\ \A w \in Windows : buckets[w] \in Bucket /\ buckets[w].tokens <= Capacity(w)
  BY DEF Inv, TypeOK, Bucket
<1>3. \A w \in Windows : /\ buckets'[w] \in Bucket
                         /\ buckets'[w].tokens <= Capacity(w)
  BY <1>1, <1>2, RefillBounds DEF ReadAll
<1>4. buckets' \in [Windows -> Bucket]
  BY <1>1, <1>3 DEF ReadAll
<1>5. TypeOK'
  BY <1>1, <1>3, <1>4 DEF Inv, TypeOK, Bucket
<1>6. PaidInEveryWindow'
  BY <1>1 DEF Inv, PaidInEveryWindow
<1>7. ASSUME NEW w \in Windows
      PROVE  (granted' - mark'.granted) * Length[w] + buckets'[w].tokens
               <= Capacity(w) + (buckets'[w].lastRefill - mark'.refilled[w]) * Limit[w]
  <2>1. granted' - mark'.granted = 0
        /\ buckets'[w].lastRefill - mark'.refilled[w] = 0
    BY <1>1, <1>3 DEF Inv, TypeOK, Bucket
  <2>2. /\ Length[w] \in Nat /\ Limit[w] \in Nat /\ Capacity(w) \in Nat
        /\ buckets'[w].tokens \in Nat
    BY <1>3, WindowAssumption, CapacityIsNat DEF Bucket
  <2> QED
    BY <1>3, <2>1, <2>2
<1> QED
  BY <1>5, <1>6, <1>7 DEF Inv, RateWithRemainder

LEMMA NextInv == Inv /\ [Next]_vars => Inv'
<1> SUFFICES ASSUME Inv, [Next]_vars PROVE Inv'
  OBVIOUS
<1>1. CASE TryConsumeGranted
  BY <1>1, GrantedKeeps
<1>2. CASE TryConsumeShed
  BY <1>2, ShedKeeps
<1>3. CASE Publish
  BY <1>3, PublishKeeps
<1>4. CASE Tick
  BY <1>4, BoundAssumption DEF Inv, TypeOK, PaidInEveryWindow, RateWithRemainder, Tick
<1>5. CASE ClockSetBack
  BY <1>5, BoundAssumption DEF Inv, TypeOK, PaidInEveryWindow, RateWithRemainder, ClockSetBack
<1>6. CASE UNCHANGED vars
  BY <1>6 DEF Inv, TypeOK, PaidInEveryWindow, RateWithRemainder, vars
<1> QED
  BY <1>1, <1>2, <1>3, <1>4, <1>5, <1>6 DEF Next

\* The invariant holds throughout every behaviour of the budget.
THEOREM Invariance == Spec => []Inv
<1>1. Init => Inv
  BY InitInv
<1>2. Inv /\ [Next]_vars => Inv'
  BY NextInv
<1> QED
  BY <1>1, <1>2, PTL DEF Spec

----------------------------------------------------------------------------
\* Buckets stay within their capacity and never below zero, whatever the
\* limits, the windows and the clock (TokenBucket).
THEOREM TypeCorrect == Spec => []TypeOK
<1>1. Inv => TypeOK
  BY DEF Inv
<1> QED
  BY <1>1, Invariance, PTL

\* Every attempt that was let out was paid for in every window
\* (OutboundBudgetService.tryConsume).
THEOREM PaysInEveryWindow == Spec => []PaidInEveryWindow
<1>1. Inv => PaidInEveryWindow
  BY DEF Inv
<1> QED
  BY <1>1, Invariance, PTL

\* From any moment on, a window lets out its limit and what refilled since, at
\* most: the burst and the rate together bound the attempts.
THEOREM RateIsSustained == Spec => []SustainedRate
<1>1. Inv => SustainedRate
  <2> SUFFICES ASSUME Inv, NEW w \in Windows
               PROVE  (granted - mark.granted) * Length[w]
                        <= Capacity(w) + (buckets[w].lastRefill - mark.refilled[w]) * Limit[w]
    BY DEF SustainedRate
  <2> DEFINE out == (granted - mark.granted) * Length[w]
             room == Capacity(w) + (buckets[w].lastRefill - mark.refilled[w]) * Limit[w]
  <2>1. out \in Int /\ room \in Int /\ buckets[w].tokens \in Nat
    BY WindowAssumption, CapacityIsNat DEF Inv, TypeOK
  <2>2. out + buckets[w].tokens <= room
    BY DEF Inv, RateWithRemainder
  <2> HIDE DEF out, room
  <2>3. out <= room
    BY <2>1, <2>2
  <2> QED
    BY <2>3 DEF out, room
<1> QED
  BY <1>1, Invariance, PTL

\* A bucket's moment of refill never goes back, so no stretch of time is paid
\* out twice, although the clock may be set back (TokenBucket.refill).
THEOREM TimeIsPaidOnce == Spec => NoTimePaidTwice
<1> DEFINE Forward == \A w \in Windows : buckets'[w].lastRefill >= buckets[w].lastRefill
<1>1. Inv /\ [Next]_vars => [Forward]_buckets
  <2> SUFFICES ASSUME Inv, [Next]_vars, buckets' # buckets, NEW w \in Windows
               PROVE  buckets'[w].lastRefill >= buckets[w].lastRefill
    OBVIOUS
  <2>1. now \in 0 .. MaxTime /\ buckets[w] \in Bucket /\ buckets[w].tokens <= Capacity(w)
    BY DEF Inv, TypeOK, Bucket
  <2>2. ReadAll(now)[w] = Refill(w, buckets[w], now)
    BY DEF ReadAll
  <2>3. /\ ReadAll(now)[w] \in Bucket /\ ReadAll(now)[w].tokens <= Capacity(w)
        /\ ReadAll(now)[w].lastRefill >= buckets[w].lastRefill
    BY <2>1, <2>2, RefillBounds
  <2>4. CASE TryConsumeGranted
    <3>1. PICK at \in 0 .. MaxTime :
            buckets' = [v \in Windows |-> Consume(v, ReadAll(now)[v], at)]
      BY <2>4 DEF TryConsumeGranted
    <3>2. ~Spent(w, ReadAll(now)[w])
      BY <2>4 DEF TryConsumeGranted, Shed
    <3>3. buckets'[w].lastRefill >= ReadAll(now)[w].lastRefill /\ buckets'[w] \in Bucket
      BY <2>3, <3>1, <3>2, ConsumeBounds
    <3> QED
      BY <2>1, <2>3, <3>3 DEF Bucket
  <2>5. CASE TryConsumeShed \/ Publish
    BY <2>3, <2>5 DEF TryConsumeShed, Publish
  <2>6. CASE Tick \/ ClockSetBack \/ UNCHANGED vars
    BY <2>6 DEF Tick, ClockSetBack, vars
  <2> QED
    BY <2>4, <2>5, <2>6 DEF Next
<1>2. Spec => []Inv /\ [][Next]_vars
  BY Invariance, PTL DEF Spec
<1> QED
  BY <1>1, <1>2, PTL DEF NoTimePaidTwice
=============================================================================
