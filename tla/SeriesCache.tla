---------------------------- MODULE SeriesCache ----------------------------
(***************************************************************************)
(* The stale-while-revalidate cache in front of a capability port          *)
(* (modules/weather/decorators/cached-series.port.ts), with the single     *)
(* flight that deduplicates its misses (common/cache/single-flight.ts) and *)
(* the guarded in-process store behind it (guard-cache.ts,                 *)
(* memory-cache.adapter.ts).                                               *)
(*                                                                         *)
(* Callers run concurrently: each `await` of `fetch` and of `obtain` is a  *)
(* point where other steps happen, so a caller reads the store in one step *)
(* and decides what to do with the record in a later one, and a call is    *)
(* answered, arrives, is stored and settles in four.  A series is          *)
(* abstracted to the moment the source produced it and to how many days    *)
(* it holds, counted from the local day it was produced on.                *)
(***************************************************************************)
EXTENDS Freshness, FiniteSets

CONSTANTS
    Callers,        \* concurrent executions of `fetch`
    Keys,           \* cache keys: capability, grid point, metrics, zone, horizon
    Rolling,        \* the keys of a rolling horizon without past days
    Calls,          \* identities of the promises a flight can hold at once
    TTL,            \* refresh interval of the source, in ticks
    MaxStale,       \* tolerated age of a value, in ticks
    Wanted,         \* maxForecastDays: what every rolling request is widened to
    Declared,       \* port.limits.maxForecastDays: the most the source will give
    ExactDays,      \* the days of a window, or of a horizon with past days
    DayLength,      \* ticks in a local day of the location
    MayFail,        \* which operations of the store may fail: {}, {"get"}, ...
    MaxTime         \* bound: the clock stops here

ASSUME LifetimeAssumption ==
    /\ TTL \in Nat \ {0} /\ MaxStale \in Nat /\ MaxStale >= TTL
    /\ DayLength \in Nat \ {0} /\ MaxTime \in Nat

ASSUME HorizonAssumption ==
    /\ Wanted \in Nat \ {0} /\ Declared \in Nat \ {0} /\ ExactDays \in Nat \ {0}

ASSUME KeyAssumption == Rolling \subseteq Keys

\* A key that points at nothing is told apart from every promise.
NoCall == "no call"

ASSUME CallAssumption == NoCall \notin Calls

ASSUME FailAssumption == MayFail \subseteq {"get", "set"}

VARIABLES
    now,        \* the clock every component reads
    store,      \* what the adapter holds under each key
    running,    \* SingleFlight.running: the promise each key points at
    call,       \* the promises themselves, and how far each has got
    pc,         \* where each caller of `fetch` is
    asked,      \* the key and the days of the request it made
    found,      \* what `cache.get` gave it
    awaited,    \* the promise it waits on
    answer,     \* what its last `fetch` returned
    newest,     \* history: the youngest data a call handed to the store, per key
    floor       \* history: `newest` of the key when the caller asked

vars == <<now, store, running, call, pc, asked, found, awaited, answer, newest, floor>>

Time == 0 .. MaxTime
NoRecord == [kind |-> "none"]
NoAnswer == [kind |-> "none"]
NoRequest == [kind |-> "none"]

Min2(a, b) == IF a <= b THEN a ELSE b
Max2(a, b) == IF a >= b THEN a ELSE b

\* guardLimits and resolveHorizon have passed the request before it gets here.
DaysOf(k) == IF k \in Rolling THEN 1 .. Min2(Wanted, Declared) ELSE {ExactDays}

\* The location's local day, which the source starts the axis on.
Day(t) == t \div DayLength

Series == [asOf : Time, days : Nat]

Request == [kind : {"request"}, key : Keys, days : Nat]

Record == [kind : {"record"}, series : Series, storedAt : Time,
           freshUntil : Nat, expiresAt : Nat]

Answer == [kind : {"series"}, series : Series, stale : BOOLEAN,
           at : Time, storedAt : Time, cached : BOOLEAN]

Failure == [kind |-> "failure"]

Free == [phase |-> "free"]

(***************************************************************************)
(* How far a call has got: `port.fetch` is out; the source has produced a  *)
(* series that is on its way; the record is made and `cache.set` is under  *)
(* way; `obtain` is done and the promise is about to settle.               *)
(***************************************************************************)
CallStates ==
    {Free}
    \cup [phase : {"out"}, key : Keys, days : Nat]
    \cup [phase : {"arriving"}, key : Keys, series : Series]
    \cup [phase : {"storing"}, key : Keys, record : Record]
    \cup [phase : {"settling"}, key : Keys, result : Record \cup {Failure}]

Live(c) == call[c].phase # "free"

TypeOK ==
    /\ now \in Time
    /\ store \in [Keys -> Record \cup {NoRecord}]
    /\ running \in [Keys -> Calls \cup {NoCall}]
    /\ call \in [Calls -> CallStates]
    /\ pc \in [Callers -> {"idle", "reading", "deciding", "waiting"}]
    /\ asked \in [Callers -> Request \cup {NoRequest}]
    /\ found \in [Callers -> Record \cup {NoRecord}]
    /\ awaited \in [Callers -> Calls \cup {NoCall}]
    /\ answer \in [Callers -> Answer \cup {Failure, NoAnswer}]
    /\ newest \in [Keys -> Time]
    /\ floor \in [Callers -> Time]

Init ==
    /\ now = 0
    /\ store = [k \in Keys |-> NoRecord]
    /\ running = [k \in Keys |-> NoCall]
    /\ call = [c \in Calls |-> Free]
    /\ pc = [p \in Callers |-> "idle"]
    /\ asked = [p \in Callers |-> NoRequest]
    /\ found = [p \in Callers |-> NoRecord]
    /\ awaited = [p \in Callers |-> NoCall]
    /\ answer = [p \in Callers |-> NoAnswer]
    /\ newest = [k \in Keys |-> 0]
    /\ floor = [p \in Callers |-> 0]

----------------------------------------------------------------------------
(***************************************************************************)
(* Pure parts.                                                             *)
(***************************************************************************)

\* Mutant: a request that leaves as it came.
Widened_NotWidened(k, d) == d

\* The horizon that leaves the process for a request of d days.
Widened(k, d) ==
    IF k \in Rolling THEN Max2(d, Min2(Wanted, Declared)) ELSE d

\* What a caller that asked for d days is given out of a series.
Sliced(series, k, d) ==
    IF k \in Rolling THEN [series EXCEPT !.days = Min2(@, d)] ELSE series

NewRecord(series) ==
    [kind |-> "record", series |-> series, storedAt |-> now,
     freshUntil |-> FreshUntil(now, TTL), expiresAt |-> ExpiresAt(now, MaxStale)]

AnswerFrom(p, record, stale, cached) ==
    [kind |-> "series",
     series |-> Sliced(record.series, asked[p].key, asked[p].days),
     stale |-> stale, at |-> now, storedAt |-> record.storedAt, cached |-> cached]

----------------------------------------------------------------------------
(***************************************************************************)
(* SingleFlight.run: join the promise the key points at, or start one and  *)
(* point the key at it.  c is the promise the caller holds afterwards.     *)
(***************************************************************************)
Join(k, c) ==
    /\ running[k] = c
    /\ c # NoCall
    /\ UNCHANGED <<running, call>>

Start(k, d, c) ==
    /\ running[k] = NoCall
    /\ ~Live(c)
    /\ running' = [running EXCEPT ![k] = c]
    /\ call' = [call EXCEPT ![c] = [phase |-> "out", key |-> k, days |-> Widened(k, d)]]

\* Mutant: the existing promise is not looked up.
Run_NoJoin(k, d, c) ==
    /\ ~Live(c)
    /\ running' = [running EXCEPT ![k] = c]
    /\ call' = [call EXCEPT ![c] = [phase |-> "out", key |-> k, days |-> Widened(k, d)]]

Run(k, d, c) == Join(k, c) \/ Start(k, d, c)

----------------------------------------------------------------------------
(***************************************************************************)
(* A caller.                                                               *)
(***************************************************************************)
Ask(p) ==
    /\ pc[p] = "idle"
    /\ \E k \in Keys : \E d \in DaysOf(k) :
          /\ asked' = [asked EXCEPT ![p] = [kind |-> "request", key |-> k, days |-> d]]
          /\ floor' = [floor EXCEPT ![p] = newest[k]]
    /\ pc' = [pc EXCEPT ![p] = "reading"]
    /\ answer' = [answer EXCEPT ![p] = NoAnswer]
    /\ UNCHANGED <<now, store, running, call, found, awaited, newest>>

\* MemoryCache.get: an expired record is deleted and not returned.
ReadStore(p) ==
    LET k == asked[p].key
        expired == store[k] # NoRecord /\ store[k].expiresAt <= now
    IN  /\ store' = [store EXCEPT ![k] = IF expired THEN NoRecord ELSE @]
        /\ found' = [found EXCEPT ![p] = IF expired THEN NoRecord ELSE store[k]]

\* guardCache.get swallows the failure; a payload that does not decode reads
\* as a miss in the same way.
ReadFails(p) ==
    /\ "get" \in MayFail
    /\ found' = [found EXCEPT ![p] = NoRecord]
    /\ UNCHANGED store

Read(p) ==
    /\ pc[p] = "reading"
    /\ ReadStore(p) \/ ReadFails(p)
    /\ pc' = [pc EXCEPT ![p] = "deciding"]
    /\ UNCHANGED <<now, running, call, asked, awaited, answer, newest, floor>>

\* Mutant: the caller relies on the adapter to have enforced the expiry.
Servable_TrustsAdapter(p) == found[p] # NoRecord

\* The clock is read again after the await.
Servable(p) == found[p] # NoRecord /\ now < found[p].expiresAt

Fresh(p) == now < found[p].freshUntil

Respond(p, given) ==
    /\ answer' = [answer EXCEPT ![p] = given]
    /\ pc' = [pc EXCEPT ![p] = "idle"]
    /\ found' = [found EXCEPT ![p] = NoRecord]

Hit(p) ==
    /\ pc[p] = "deciding"
    /\ Servable(p) /\ Fresh(p)
    /\ Respond(p, AnswerFrom(p, found[p], FALSE, TRUE))
    /\ UNCHANGED <<now, store, running, call, asked, awaited, newest, floor>>

\* Mutant: the refresh is not started.
AnswerStale_NoRefresh(p) ==
    /\ pc[p] = "deciding"
    /\ Servable(p) /\ ~Fresh(p)
    /\ Respond(p, AnswerFrom(p, found[p], TRUE, TRUE))
    /\ UNCHANGED <<now, store, running, call, asked, awaited, newest, floor>>

\* The refresh is started, joined if one is under way, and never awaited.
AnswerStale(p) ==
    /\ pc[p] = "deciding"
    /\ Servable(p) /\ ~Fresh(p)
    /\ \E c \in Calls : Run(asked[p].key, asked[p].days, c)
    /\ Respond(p, AnswerFrom(p, found[p], TRUE, TRUE))
    /\ UNCHANGED <<now, store, asked, awaited, newest, floor>>

Miss(p) ==
    /\ pc[p] = "deciding"
    /\ ~Servable(p)
    /\ \E c \in Calls :
          /\ Run(asked[p].key, asked[p].days, c)
          /\ awaited' = [awaited EXCEPT ![p] = c]
    /\ pc' = [pc EXCEPT ![p] = "waiting"]
    /\ found' = [found EXCEPT ![p] = NoRecord]
    /\ UNCHANGED <<now, store, asked, answer, newest, floor>>

----------------------------------------------------------------------------
(***************************************************************************)
(* A call: `obtain` inside the promise of a flight.                        *)
(***************************************************************************)

\* The source produces the series it will answer with.
SourceAnswers(c) ==
    /\ call[c].phase = "out"
    /\ call' = [call EXCEPT ![c] = [phase |-> "arriving", key |-> @.key,
                                    series |-> [asOf |-> now, days |-> @.days]]]
    /\ UNCHANGED <<now, store, running, pc, asked, found, awaited, answer, newest, floor>>

\* `port.fetch` resolves to an error, or throws: either way nothing is stored.
SourceFails(c) ==
    /\ call[c].phase \in {"out", "arriving"}
    /\ call' = [call EXCEPT ![c] = [phase |-> "settling", key |-> @.key, result |-> Failure]]
    /\ UNCHANGED <<now, store, running, pc, asked, found, awaited, answer, newest, floor>>

\* `port.fetch` resolves: the record is stamped with the moment of arrival.
Arrive(c) ==
    /\ call[c].phase = "arriving"
    /\ call' = [call EXCEPT ![c] = [phase |-> "storing", key |-> @.key,
                                    record |-> NewRecord(@.series)]]
    /\ UNCHANGED <<now, store, running, pc, asked, found, awaited, answer, newest, floor>>

\* MemoryCache.set: a record already past its own expiry is not written.
WriteStore(c) ==
    /\ store' = IF call[c].record.expiresAt > now
             THEN [store EXCEPT ![call[c].key] = call[c].record]
             ELSE store
    /\ newest' = [newest EXCEPT ![call[c].key] = Max2(@, call[c].record.series.asOf)]

WriteFails == "set" \in MayFail /\ UNCHANGED <<store, newest>>

Store(c) ==
    /\ call[c].phase = "storing"
    /\ WriteStore(c) \/ WriteFails
    /\ call' = [call EXCEPT ![c] = [phase |-> "settling", key |-> @.key, result |-> @.record]]
    /\ UNCHANGED <<now, running, pc, asked, found, awaited, answer, floor>>

\* Mutant: one waiter is resumed and the others are forgotten.
Waiters_One(c) ==
    LET all == {p \in Callers : awaited[p] = c}
    IN  IF all = {} THEN {} ELSE {CHOOSE p \in all : TRUE}

Waiters(c) == {p \in Callers : awaited[p] = c}

\* What each waiter of a settled call returns.
Delivered(p, result) ==
    IF result = Failure THEN Failure ELSE AnswerFrom(p, result, FALSE, FALSE)

\* Mutant: the key stays in the map when the call failed.
ReleaseKey_OnSuccessOnly(k, result) ==
    running' = IF result = Failure THEN running ELSE [running EXCEPT ![k] = NoCall]

\* The `.finally` of SingleFlight.run.
ReleaseKey(k, result) == running' = [running EXCEPT ![k] = NoCall]

\* The promise settles: the key is released, then every waiter resumes.
Settle(c) ==
    LET k == call[c].key
        result == call[c].result
    IN  /\ call[c].phase = "settling"
        /\ ReleaseKey(k, result)
        /\ call' = [call EXCEPT ![c] = Free]
        /\ answer' = [p \in Callers |->
                        IF p \in Waiters(c) THEN Delivered(p, result) ELSE answer[p]]
        /\ pc' = [p \in Callers |-> IF p \in Waiters(c) THEN "idle" ELSE pc[p]]
        /\ awaited' = [p \in Callers |-> IF p \in Waiters(c) THEN NoCall ELSE awaited[p]]
        /\ UNCHANGED <<now, store, asked, found, newest, floor>>

----------------------------------------------------------------------------
\* lru-cache drops an entry: the count or the byte bound, or its own timer.
Evict(k) ==
    /\ store[k] # NoRecord
    /\ store' = [store EXCEPT ![k] = NoRecord]
    /\ UNCHANGED <<now, running, call, pc, asked, found, awaited, answer, newest, floor>>

Tick ==
    /\ now < MaxTime
    /\ now' = now + 1
    /\ UNCHANGED <<store, running, call, pc, asked, found, awaited, answer, newest, floor>>

CallerStep(p) == Ask(p) \/ Read(p) \/ Hit(p) \/ AnswerStale(p) \/ Miss(p)

CallStep(c) ==
    SourceAnswers(c) \/ SourceFails(c) \/ Arrive(c) \/ Store(c) \/ Settle(c)

Next ==
    \/ \E p \in Callers : CallerStep(p)
    \/ \E c \in Calls : CallStep(c)
    \/ \E k \in Keys : Evict(k)
    \/ Tick

Spec == Init /\ [][Next]_vars

(***************************************************************************)
(* A microtask that is due runs, and `port.fetch` always settles, because  *)
(* resilient-series.port.ts bounds every attempt and their number.  Nothing*)
(* obliges a caller to ask, the clock to advance or an entry to be evicted.*)
(***************************************************************************)
Fairness ==
    /\ \A p \in Callers : WF_vars(Read(p)) /\ WF_vars(Hit(p) \/ AnswerStale(p) \/ Miss(p))
    /\ \A c \in Calls : WF_vars(CallStep(c))

FairSpec == Spec /\ Fairness

----------------------------------------------------------------------------
(***************************************************************************)
(* Properties.                                                             *)
(***************************************************************************)

\* One outbound call per key, however many callers want it: two live calls
\* are never for the same key (SingleFlight, "one outbound call per key").
OneCallPerKey ==
    \A c, d \in Calls : Live(c) /\ Live(d) /\ call[c].key = call[d].key => c = d

\* The map of running calls and the calls themselves agree: a key points at
\* a live call for that very key, and no live call is forgotten, so a failed
\* or a finished call never leaves a key held.
RunningTracksCalls ==
    /\ \A k \in Keys : running[k] # NoCall => Live(running[k]) /\ call[running[k]].key = k
    /\ \A c \in Calls : Live(c) => running[call[c].key] = c

\* Nobody waits on a promise that has settled, or on the answer to another
\* question: the awaited call is live and carries the key that was asked.
WaitersAwaitTheirCall ==
    \A p \in Callers :
        pc[p] = "waiting" =>
            /\ awaited[p] # NoCall
            /\ Live(awaited[p])
            /\ call[awaited[p]].key = asked[p].key

\* Every answer covers exactly the days that were asked for, although one
\* entry, and one call, serves every horizon of a rolling key.
AnswerCoversRequest ==
    \A p \in Callers : answer[p].kind = "series" => answer[p].series.days = asked[p].days

\* An answer says the truth about its age: one served out of the store as
\* fresh was stored in the interval it is given in, and a stale one is past
\* that interval but not past the tolerated age, at the moment it is given.
AgeIsHonest ==
    \A p \in Callers :
        answer[p].kind = "series" /\ answer[p].cached =>
            /\ answer[p].at < answer[p].storedAt + MaxStale
            /\ answer[p].stale <=>
                  Interval(answer[p].at, TTL) > Interval(answer[p].storedAt, TTL)

\* A caller never receives data older than what a call had already stored for
\* its key when it asked: answers do not go back in time, however slow readers,
\* refreshes, evictions and expiries interleave.  What a failing write lost is
\* not counted: the waiters of that call had it, and later callers may be given
\* the older record that is still there.
AnswersNeverGoBack ==
    \A p \in Callers : answer[p].kind = "series" => answer[p].series.asOf >= floor[p]

\* No write replaces a record by an older one: a slow call never overwrites
\* what a later one brought back.
StoreNeverGoesBack ==
    [][\A k \in Keys :
          store[k] # NoRecord /\ store'[k] # NoRecord =>
              store'[k].series.asOf >= store[k].series.asOf]_store

\* The caller that is given a stale answer leaves a refresh behind it, under
\* way for its key at the moment it is answered.
StaleLeavesARefresh ==
    [][\A p \in Callers :
          answer'[p] # answer[p] /\ answer'[p].kind = "series" /\ answer'[p].stale =>
              running'[asked[p].key] # NoCall]_vars

\* "Days ahead, including today" (ports/contracts.ts): the first day of an
\* answer is the location's day at the moment it is given.  The axis begins on
\* the local day the source produced the series on, and slicing keeps it.  Only
\* answers are judged whose series was stored in the tick it was produced in.
AnswerBeginsToday ==
    \A p \in Callers :
        answer[p].kind = "series" /\ answer[p].cached
            /\ answer[p].series.asOf = answer[p].storedAt =>
            Day(answer[p].series.asOf) = Day(answer[p].at)

\* Every fetch returns, whether the source answers or not.
EveryFetchReturns == \A p \in Callers : pc[p] # "idle" ~> pc[p] = "idle"

\* No key stays held: whatever becomes of a call, the next miss can go out.
EveryKeyIsReleased == \A k \in Keys : running[k] # NoCall ~> running[k] = NoCall
=============================================================================
