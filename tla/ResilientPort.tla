--------------------------- MODULE ResilientPort ---------------------------
(***************************************************************************)
(* Everything between a decision to call a source and the call itself      *)
(* (modules/weather/decorators/resilient-series.port.ts):                  *)
(*                                                                         *)
(*   circuit breaker -> retry -> bulkhead, budget -> timeout -> the source *)
(*                                                                         *)
(* for one source and capability.  The policies are those of the cockatiel *)
(* library, modelled from the way this file composes them: a half-open     *)
(* breaker lets one test through and holds everybody else until it is over;*)
(* a full bulkhead queues, and hands a freed slot to the head of the queue *)
(* a microtask later; an aggressive timeout abandons the call it bounds,   *)
(* and what that call still does on the wire is nobody's business here.    *)
(* Delays count down with the clock.                                       *)
(***************************************************************************)
EXTENDS Integers, Sequences, FiniteSets

CONSTANTS
    Callers,        \* concurrent executions of `fetch`
    MaxAttempts,    \* options.maxAttempts, the first included
    Limit, Queue,   \* options.concurrency
    Threshold,      \* options.breaker.consecutiveFailures
    HalfOpenAfter,  \* options.breaker.halfOpenAfterMs
    InitialDelay,   \* options.backoff.initialDelayMs
    MaxDelay,       \* options.backoff.maxDelayMs
    StatedDelays,   \* the delays a source states in Retry-After
    MaxFetches      \* bound: how many fetches are begun

ASSUME PolicyAssumption ==
    /\ MaxAttempts \in Nat \ {0} /\ Limit \in Nat \ {0} /\ Queue \in Nat
    /\ Threshold \in Nat \ {0} /\ HalfOpenAfter \in Nat \ {0}
    /\ InitialDelay \in Nat /\ MaxDelay \in Nat
    /\ StatedDelays \subseteq Nat
    /\ MaxFetches \in Nat

VARIABLES
    pc,         \* where each fetch is
    role,       \* how the breaker let it in: "normal" or as the "test"
    behind,     \* the fetch whose test it waits for
    attempts,   \* attempts made for this fetch
    wait,       \* what is left of the delay before the next attempt
    result,     \* what its last attempt ended in
    breaker,    \* the circuit breaker of the pair
    active,     \* slots of the bulkhead in use
    queue,      \* fetches waiting for a slot
    fetches,    \* history: how many fetches were begun
    faults      \* history: fetches in a row that ended in a source fault

vars == <<pc, role, behind, attempts, wait, result, breaker, active, queue, fetches, faults>>

(***************************************************************************)
(* Results, as failure-classification.ts tells them apart: "fault" stands  *)
(* for a transport failure or a status that says the source is in trouble, *)
(* "malformed" for a body that is not what it should be, "rejected" for a  *)
(* status that is our own doing.                                           *)
(***************************************************************************)
Answers == {"ok", "fault", "malformed", "rejected"}
Results == Answers \cup {"none", "timeout", "busy"}

Retryable(r) == r \in {"fault", "timeout"}

SourceFault(r) == r \in {"fault", "timeout", "malformed"}

Nobody == "nobody"

ASSUME CallerAssumption == Nobody \notin Callers /\ IsFiniteSet(Callers)

Stages == {"idle", "entering", "behind", "attempting", "queued", "out", "backing off",
           "judged"}

Breakers == [state : {"closed", "open", "half open"}, count : 0 .. Threshold,
             cooldown : 0 .. HalfOpenAfter, tester : Callers \cup {Nobody}]

TypeOK ==
    /\ pc \in [Callers -> Stages]
    /\ role \in [Callers -> {"normal", "test"}]
    /\ behind \in [Callers -> Callers \cup {Nobody}]
    /\ attempts \in [Callers -> 0 .. MaxAttempts]
    /\ wait \in [Callers -> 0 .. MaxDelay]
    /\ result \in [Callers -> Results]
    /\ breaker \in Breakers
    /\ active \in 0 .. Limit
    /\ queue \in Seq(Callers)
    /\ fetches \in 0 .. MaxFetches
    /\ faults \in 0 .. Threshold

Init ==
    /\ pc = [p \in Callers |-> "idle"]
    /\ role = [p \in Callers |-> "normal"]
    /\ behind = [p \in Callers |-> Nobody]
    /\ attempts = [p \in Callers |-> 0]
    /\ wait = [p \in Callers |-> 0]
    /\ result = [p \in Callers |-> "none"]
    /\ breaker = [state |-> "closed", count |-> 0, cooldown |-> 0, tester |-> Nobody]
    /\ active = 0
    /\ queue = << >>
    /\ fetches = 0
    /\ faults = 0

Min2(a, b) == IF a <= b THEN a ELSE b

----------------------------------------------------------------------------
(***************************************************************************)
(* The circuit breaker, on the way in.                                     *)
(***************************************************************************)
Fetch(p) ==
    /\ pc[p] = "idle"
    /\ fetches < MaxFetches
    /\ fetches' = fetches + 1
    /\ pc' = [pc EXCEPT ![p] = "entering"]
    /\ UNCHANGED <<role, behind, attempts, wait, result, breaker, active, queue, faults>>

LetIn(p, as) ==
    /\ role' = [role EXCEPT ![p] = as]
    /\ pc' = [pc EXCEPT ![p] = "attempting"]
    /\ UNCHANGED behind

\* A closed breaker lets everybody in; an open one refuses until it has cooled
\* down (the fetch returns CIRCUIT_OPEN), then lets one test through; while that
\* is out, the others wait.
Enter(p) ==
    /\ pc[p] = "entering"
    /\ \/ /\ breaker.state = "closed"
          /\ LetIn(p, "normal")
          /\ UNCHANGED breaker
       \/ /\ breaker.state = "open" /\ breaker.cooldown = 0
          /\ LetIn(p, "test")
          /\ breaker' = [breaker EXCEPT !.state = "half open", !.tester = p]
       \/ /\ breaker.state = "open" /\ breaker.cooldown > 0
          /\ pc' = [pc EXCEPT ![p] = "idle"]
          /\ UNCHANGED <<role, behind, breaker>>
       \/ /\ breaker.state = "half open"
          /\ pc' = [pc EXCEPT ![p] = "behind"]
          /\ behind' = [behind EXCEPT ![p] = breaker.tester]
          /\ UNCHANGED <<role, breaker>>
    /\ UNCHANGED <<attempts, wait, result, active, queue, fetches, faults>>

----------------------------------------------------------------------------
(***************************************************************************)
(* One attempt: a slot, a unit of budget, a bounded call.                  *)
(***************************************************************************)

\* What a freed slot leaves: the head of the queue is sent to try again.
Released ==
    IF queue = << >>
    THEN [slots |-> active - 1, waiting |-> queue, called |-> {}]
    ELSE [slots |-> active - 1, waiting |-> Tail(queue), called |-> {Head(queue)}]

\* How the retry goes on after an attempt of p that ended in r.
After(p, r, made) ==
    IF Retryable(r) /\ made < MaxAttempts THEN "backing off" ELSE "judged"

\* The delay before the next attempt: what the source stated, else jitter
\* under the exponential ceiling; never more than the greatest delay.
Delays(made, says) ==
    IF says = {} THEN {d \in 0 .. MaxDelay : d <= InitialDelay * 2 ^ (made - 1)}
    ELSE {Min2(d, MaxDelay) : d \in says}

\* p's attempt is over and its slot is free; `says` is the stated delay, if any.
AttemptEnds(p, r, made, says) ==
    LET next == After(p, r, made)
        free == Released
    IN  /\ active' = free.slots
        /\ queue' = free.waiting
        /\ pc' = [q \in Callers |-> IF q = p THEN next
                                    ELSE IF q \in free.called THEN "attempting" ELSE pc[q]]
        /\ \E delay \in IF next = "judged" THEN {0} ELSE Delays(made, says) :
              wait' = [wait EXCEPT ![p] = delay]
        /\ attempts' = [attempts EXCEPT ![p] = made]
        /\ result' = [result EXCEPT ![p] = r]

\* A slot is free: the attempt takes it, and goes out when the budget pays.
TakeSlot(p) ==
    /\ pc[p] = "attempting"
    /\ active < Limit
    /\ active' = active + 1
    /\ pc' = [pc EXCEPT ![p] = "out"]
    /\ attempts' = [attempts EXCEPT ![p] = @ + 1]
    /\ UNCHANGED <<role, behind, wait, result, breaker, queue, fetches, faults>>

\* Mutant: the slot goes back, and the queue is not told.
BudgetSpent_NotHandedOn(p) ==
    /\ pc[p] = "attempting"
    /\ active < Limit
    /\ pc' = [pc EXCEPT ![p] = "judged"]
    /\ result' = [result EXCEPT ![p] = "busy"]
    /\ UNCHANGED <<role, behind, attempts, wait, breaker, active, queue, fetches, faults>>

\* The budget does not pay: the slot goes back at once, and nobody retries.
\* (The slot taken and given back shows only in who is called.)
BudgetSpent(p) ==
    /\ pc[p] = "attempting"
    /\ active < Limit
    /\ pc' = [q \in Callers |-> IF q = p THEN "judged"
                                ELSE IF q \in Released.called THEN "attempting" ELSE pc[q]]
    /\ queue' = Released.waiting
    /\ result' = [result EXCEPT ![p] = "busy"]
    /\ UNCHANGED <<role, behind, attempts, wait, breaker, active, fetches, faults>>

\* No slot: the attempt waits for one, or is refused when too many wait.
WaitForSlot(p) ==
    /\ pc[p] = "attempting"
    /\ active = Limit
    /\ IF Len(queue) < Queue
       THEN /\ queue' = Append(queue, p)
            /\ pc' = [pc EXCEPT ![p] = "queued"]
            /\ UNCHANGED result
       ELSE /\ pc' = [pc EXCEPT ![p] = "judged"]
            /\ result' = [result EXCEPT ![p] = "busy"]
            /\ UNCHANGED queue
    /\ UNCHANGED <<role, behind, attempts, wait, breaker, active, fetches, faults>>

\* The source answers, with or without a stated delay.
SourceAnswers(p) ==
    /\ pc[p] = "out"
    /\ \E r \in Answers : \E says \in SUBSET StatedDelays :
          /\ Cardinality(says) <= (IF r = "fault" THEN 1 ELSE 0)
          /\ AttemptEnds(p, r, attempts[p], says)
    /\ UNCHANGED <<role, behind, breaker, fetches, faults>>

\* Mutant: a cooperative timeout, which the port is not told of.
TimesOut_Cooperative(p) == pc[p] = "out" /\ UNCHANGED vars

\* The timeout is over first: the call is left behind, and nobody looks at what
\* it brings.
TimesOut(p) ==
    /\ pc[p] = "out"
    /\ AttemptEnds(p, "timeout", attempts[p], {})
    /\ UNCHANGED <<role, behind, breaker, fetches, faults>>

Retry(p) ==
    /\ pc[p] = "backing off"
    /\ wait[p] = 0
    /\ pc' = [pc EXCEPT ![p] = "attempting"]
    /\ UNCHANGED <<role, behind, attempts, wait, result, breaker, active, queue, fetches, faults>>

----------------------------------------------------------------------------
(***************************************************************************)
(* The circuit breaker, on the way out.                                    *)
(***************************************************************************)

\* Mutant: every attempt of the fetch is an event, not the fetch.
Counted_PerAttempt(p) ==
    IF SourceFault(result[p]) THEN Min2(breaker.count + attempts[p], Threshold) ELSE 0

\* One fetch is one event, however many attempts it took.
Counted(p) == IF SourceFault(result[p]) THEN Min2(breaker.count + 1, Threshold) ELSE 0

Opens(p) ==
    /\ SourceFault(result[p])
    /\ breaker.state # "open"
    /\ role[p] = "test" \/ Counted(p) >= Threshold

Closes(p) ==
    /\ ~SourceFault(result[p])
    /\ role[p] = "test"
    /\ breaker.state = "half open"

Judged(p) ==
    [breaker EXCEPT
        !.count = Counted(p),
        !.state = IF Opens(p) THEN "open" ELSE IF Closes(p) THEN "closed" ELSE @,
        !.cooldown = IF Opens(p) THEN HalfOpenAfter ELSE @]

\* Mutant: those who wait are called when the test succeeds.
CalledByTest_OnSuccess(p) == {q \in Callers : behind[q] = p /\ ~SourceFault(result[p])}

\* Whoever waited for the test of p enters again when it is over.
CalledByTest(p) == {q \in Callers : behind[q] = p}

\* The fetch returns, after the breaker has seen its result.
Judge(p) ==
    /\ pc[p] = "judged"
    /\ breaker' = Judged(p)
    /\ pc' = [q \in Callers |-> IF q = p THEN "idle"
                                ELSE IF q \in CalledByTest(p) THEN "entering" ELSE pc[q]]
    /\ behind' = [q \in Callers |-> IF q \in CalledByTest(p) THEN Nobody ELSE behind[q]]
    /\ role' = [role EXCEPT ![p] = "normal"]
    /\ attempts' = [attempts EXCEPT ![p] = 0]
    /\ result' = [result EXCEPT ![p] = "none"]
    /\ faults' = IF SourceFault(result[p]) THEN Min2(faults + 1, Threshold) ELSE 0
    /\ UNCHANGED <<wait, active, queue, fetches>>

\* Time passes for every delay.
Down(n) == IF n = 0 THEN 0 ELSE n - 1

Tick ==
    /\ breaker.cooldown > 0 \/ \E p \in Callers : wait[p] > 0
    /\ wait' = [p \in Callers |-> Down(wait[p])]
    /\ breaker' = [breaker EXCEPT !.cooldown = Down(@)]
    /\ UNCHANGED <<pc, role, behind, attempts, result, active, queue, fetches, faults>>

Attempt(p) == TakeSlot(p) \/ BudgetSpent(p) \/ WaitForSlot(p)

Step(p) ==
    \/ Fetch(p) \/ Enter(p) \/ Attempt(p)
    \/ SourceAnswers(p) \/ TimesOut(p) \/ Retry(p) \/ Judge(p)

Next == (\E p \in Callers : Step(p)) \/ Tick

Spec == Init /\ [][Next]_vars

(***************************************************************************)
(* Due microtasks and timers run, the timer of an attempt that is out      *)
(* among them.  Nothing obliges the source to answer, or anybody to fetch. *)
(***************************************************************************)
Fairness ==
    /\ \A p \in Callers :
          /\ WF_vars(Enter(p)) /\ WF_vars(Attempt(p)) /\ WF_vars(Retry(p))
          /\ WF_vars(TimesOut(p)) /\ WF_vars(Judge(p))
    /\ WF_vars(Tick)

FairSpec == Spec /\ Fairness

----------------------------------------------------------------------------
At(where) == {p \in Callers : pc[p] = where}

\* The bulkhead keeps its books whatever way an attempt ends: the slots in use
\* are those of the calls that are out, the queue is those who wait, each once
\* and no more than it may hold, and nobody waits for a slot that is free: while
\* a call is queued, every slot is in use or somebody is on the way to it.
SlotsFollowTheCalls ==
    /\ active = Cardinality(At("out"))
    /\ {queue[i] : i \in 1 .. Len(queue)} = At("queued")
    /\ Len(queue) = Cardinality(At("queued"))
    /\ Len(queue) <= Queue
    /\ queue # << >> => active + Cardinality(At("attempting")) >= Limit

\* "One logical call is one event, and three retries do not open it three times
\* faster": a closed breaker opens only after as many fetches in a row as it is
\* configured for ended in a fault of the source, or on the fault of a test that
\* outlived the half-open period it was let in for.  (The breaker re-opened under
\* that test, on a fetch from before, and another test has closed it since.)
OutlivedTest(p) == role[p] = "test" /\ pc[p] = "judged" /\ pc'[p] = "idle"

OpensAfterThreshold ==
    [][breaker.state = "closed" /\ breaker'.state = "open" =>
          faults' >= Threshold \/ \E p \in Callers : OutlivedTest(p)]_vars

\* Nobody waits for a test that nobody makes: while the breaker is half open its
\* test is under way, and so is the one each held-up fetch waits for, whichever
\* fetches from before the breaker opened have re-opened or closed it since.
UnderWay(p) == role[p] = "test" /\ pc[p] \notin {"idle", "entering", "behind"}

TestsAreUnderWay ==
    /\ breaker.state = "half open" => breaker.tester \in Callers /\ UnderWay(breaker.tester)
    /\ \A q \in At("behind") : behind[q] \in Callers /\ UnderWay(behind[q])

\* Every fetch returns: no retry, queue, timeout or test holds it for ever.
EveryFetchReturns == \A p \in Callers : pc[p] # "idle" ~> pc[p] = "idle"
=============================================================================
