----------------------------- MODULE Assessment -----------------------------
(***************************************************************************)
(* One question through the whole data path: declarations are loaded, each *)
(* capability they need is asked for its metrics, live over HTTP or out of *)
(* a recording, and every activity is judged on every day of the answer.   *)
(*                                                                         *)
(* Composes Declarations, Scoring, Weather and OpenMeteo.  The cache, the  *)
(* budget and the retries between them are modules of their own.           *)
(***************************************************************************)
EXTENDS Declarations, OpenMeteo

CONSTANTS
    Loads,       \* [inputs, shared, published]: what a build may be given to load
    Responses,   \* Responses[c]: what the host of c may answer with
    Recordings,  \* the fixtures of the recorded sources
    Bindings,    \* which source serves which capability: [Asked -> Sources]
    Horizons,    \* days a client asks for
    Now,         \* the hour it is
    Profile      \* [gapThreshold, neutralScore]

Capability == {"forecast", "marine"}
Sources == {"live", "recorded"}

ASSUME AssessmentAssumption ==
    /\ Horizons \subseteq Nat \ {0}
    /\ Profile \in [gapThreshold : Score, neutralScore : Score]
    /\ \A l \in Loads :
          /\ \A i \in DOMAIN l.inputs : l.inputs[i] = Misshapen \/ Written(l.inputs[i])
          /\ l.shared = Misshapen \/ \A id \in DOMAIN l.shared : WrittenRule(l.shared[id])
    /\ \A c \in Capability : \A r \in Responses[c] : IsResponse(r)
    /\ \A r \in Recordings : IsResponse(r)

VARIABLES
    load,       \* the input of the load
    catalogue,  \* what it gave: None until it ran
    binding,    \* binding[c]: "live" or "recorded"
    days,       \* the days asked for
    exchange,   \* exchange[c]: the call of a capability: its phase ("waiting", "unused",
                \* "asking", "reading" or "settled"), the response and the result
    outcomes    \* outcomes[a]: the days of an activity; None until judged

vars == <<load, catalogue, binding, days, exchange, outcomes>>

\* A rejection of the promise itself, which is not a result.
Rejected == Err("REJECTED")

Init ==
    /\ load \in Loads
    /\ catalogue = None
    /\ binding \in Bindings
    /\ days \in Horizons
    /\ exchange = [c \in Capability |-> [phase |-> "waiting", response |-> None, result |-> None]]
    /\ outcomes = None

----------------------------------------------------------------------------
(***************************************************************************)
(* What has to be asked of whom.                                           *)
(***************************************************************************)
Definitions == catalogue.value

Activities == DOMAIN Definitions

Reads(a) == BaseMetrics(MetricRequirements(Definitions[a]))

Wanted(c) == {m \in UNION {Reads(a) : a \in Activities} : Dictionary[m].capability = c}

Load ==
    /\ catalogue = None
    /\ catalogue' = LoadDeclarations(load.inputs, load.shared, load.published)
    /\ UNCHANGED <<load, binding, days, exchange, outcomes>>

\* One call to a capability something is wanted of.
Plan ==
    /\ catalogue # None
    /\ catalogue.ok
    /\ \A c \in Capability : exchange[c].phase = "waiting"
    /\ exchange' = [c \in Capability |->
                      [exchange[c] EXCEPT !.phase = IF Wanted(c) = {} THEN "unused" ELSE "asking"]]
    /\ UNCHANGED <<load, catalogue, binding, days, outcomes>>

Settles(c, response, result) ==
    exchange' = [exchange EXCEPT ![c] = [phase |-> "settled", response |-> response,
                                         result |-> result]]

----------------------------------------------------------------------------
(***************************************************************************)
(* What a source refuses before it asks anybody.                           *)
(***************************************************************************)
Horizon == [kind |-> "forecast", days |-> days, past |-> None]

\* The guard is around every source, recorded ones too.
Guarded(c) ==
    ValidateHorizon(Horizon, IF binding[c] = "live" THEN Limits(c)
                             ELSE RecordedLimits(Recordings, c))

Refusal(c) ==
    IF Guarded(c).ok /\ binding[c] = "live" THEN Variables(c, Wanted(c)) ELSE Guarded(c)

Asks(c, kind) == exchange[c].phase = "asking" /\ binding[c] = kind /\ Refusal(c).ok

Decline(c) ==
    /\ exchange[c].phase = "asking"
    /\ ~Refusal(c).ok
    /\ Settles(c, None, Refusal(c))
    /\ UNCHANGED <<load, catalogue, binding, days, outcomes>>

----------------------------------------------------------------------------
(***************************************************************************)
(* A live source: no answer, the headers, the body.                        *)
(***************************************************************************)
\* The connection, or the headers, within their time or not at all.
NoAnswer(c) ==
    /\ Asks(c, "live")
    /\ \E code \in {"TIMEOUT", "TRANSPORT_FAILURE"} : Settles(c, None, Err(code))
    /\ UNCHANGED <<load, catalogue, binding, days, outcomes>>

\* A host answers with the variables it was asked for, of those it has.
Asked(block, metrics) ==
    IF LeftOut(block) THEN block
    ELSE [block EXCEPT !.units = [v \in DOMAIN @ \cap metrics |-> @[v]],
                       !.arrays = [v \in DOMAIN @ \cap metrics |-> @[v]]]

AnswerTo(response, c) ==
    IF response.value = None THEN response
    ELSE [response EXCEPT !.value.hourly = Asked(@, Wanted(c)),
                          !.value.daily = Asked(@, Wanted(c))]

Headers(c) ==
    /\ Asks(c, "live")
    /\ \E r \in Responses[c] :
          LET response == AnswerTo(r, c)
              answered == AtHeaders(response)
          IN  IF answered.ok
              THEN exchange' = [exchange EXCEPT ![c].phase = "reading", ![c].response = response]
              ELSE Settles(c, response, answered)
    /\ UNCHANGED <<load, catalogue, binding, days, outcomes>>

Body(c) ==
    /\ exchange[c].phase = "reading"
    /\ Settles(c, exchange[c].response, Interpret(exchange[c].response, c, Wanted(c)))
    /\ UNCHANGED <<load, catalogue, binding, days, outcomes>>

\* The body stops coming, or does not come within its time: response.text()
\* rejects, and nothing around it catches that.
BodyBreaks(c) ==
    /\ exchange[c].phase = "reading"
    /\ Settles(c, exchange[c].response, Rejected)
    /\ UNCHANGED <<load, catalogue, binding, days, outcomes>>

----------------------------------------------------------------------------
(***************************************************************************)
(* A recorded source: its response is the recording it replays.            *)
(***************************************************************************)
Recorded(c) ==
    /\ Asks(c, "recorded")
    /\ \E cell \in {r.cell : r \in Recordings} :
          LET recording == Chosen(Recordings, c, cell, Horizon)
          IN  Settles(c, recording, Serve(recording, c, Horizon, Wanted(c), Now))
    /\ UNCHANGED <<load, catalogue, binding, days, outcomes>>

----------------------------------------------------------------------------
(***************************************************************************)
(* The judgement.                                                          *)
(***************************************************************************)
Served(c) == exchange[c].phase = "settled" /\ exchange[c].result.ok

Answerable(a) ==
    \A m \in Reads(a) : Served(Dictionary[m].capability)

Cut(c) == SliceToDays(exchange[c].result.value, days)

\* The series of an activity, cut to the days asked for before they are merged.
SeriesOf(a, cut) ==
    LET of(c) == IF cut THEN Cut(c) ELSE exchange[c].result.value
        needed == {c \in Capability : \E m \in Reads(a) : Dictionary[m].capability = c}
    IN  IF needed = Capability THEN MergeSeries(of("forecast"), of("marine"))
        ELSE Ok(of(CHOOSE c \in needed : TRUE))

JudgeDays(a, series) ==
    LET windows == BuildDayWindows(series)
    IN  [d \in DOMAIN windows |-> ScoreActivity(Definitions[a], series, windows[d], Profile)]

JudgeMerged(a, merged) ==
    IF merged.ok THEN JudgeDays(a, merged.value) ELSE <<NoData("PROVIDER_UNAVAILABLE", {})>>

Judged(a) == IF Answerable(a) THEN JudgeMerged(a, SeriesOf(a, TRUE)) ELSE <<>>

Assess ==
    /\ outcomes = None
    /\ catalogue # None
    /\ catalogue.ok
    /\ \A c \in Capability : exchange[c].phase \in {"unused", "settled"}
    /\ outcomes' = [a \in Activities |-> Judged(a)]
    /\ UNCHANGED <<load, catalogue, binding, days, exchange>>

Next ==
    \/ Load \/ Plan \/ Assess
    \/ \E c \in Capability :
          Decline(c) \/ NoAnswer(c) \/ Headers(c) \/ Body(c) \/ BodyBreaks(c) \/ Recorded(c)

Spec == Init /\ [][Next]_vars

----------------------------------------------------------------------------
(***************************************************************************)
(* Properties.                                                             *)
(***************************************************************************)
Mergeable(a) == outcomes # None /\ outcomes[a] # <<>> /\ SeriesOf(a, TRUE).ok
Days(a) == DOMAIN outcomes[a]
Verdicts(a) == {outcomes[a][d] : d \in Days(a)}

Assessed == IF outcomes = None THEN {} ELSE {a \in Activities : Mergeable(a)}

\* A bell of an accepted sigma so small that its square is 0 in the machine's
\* arithmetic: gaussian.ts:19 divides 0 by 0 at its centre.
NarrowBell(definition) ==
    \E f \in Range(definition.features) : Vanishing(f.normalizer.type, f.normalizer.params)

\* What loads without a fault and has no such bell never makes the engine throw,
\* whatever the source answered: every division of a curve and every mean has
\* something to divide by (branded.ts:38-41, scoring-engine.ts:136-140).
OnlyNarrowBellsThrow ==
    \A a \in Assessed : Thrown \in Verdicts(a) => NarrowBell(Definitions[a])

\* What a host sees to and nothing checks: the stamps of an axis run in order from
\* a day on without a gap, and days there are for every hour.
DatesOf(axis) == {DateOf(axis[i]) : i \in DOMAIN axis}

RunsFrom(axis, first) ==
    /\ \A i, j \in DOMAIN axis : i <= j => DateOf(axis[i]) <= DateOf(axis[j])
    /\ \A i \in DOMAIN axis : /\ DateOf(axis[i]) \in Int
                              /\ DateOf(axis[i]) >= first
                              /\ first .. DateOf(axis[i]) \subseteq DatesOf(axis)

OnCalendar(series, first) ==
    /\ RunsFrom(series.hourly.time, first)
    /\ RunsFrom(series.daily.time, first)
    /\ series.daily.time # <<>> =>
          DatesOf(series.hourly.time) \subseteq DatesOf(series.daily.time)

\* Every source that answered did so from one first day on.
SourcesKeepTheCalendar ==
    \E first \in Int : \A c \in Capability :
        Served(c) => OnCalendar(exchange[c].result.value, first)

\* A question about fewer days is answered with the first days of the longer
\* answer, where there is one: cutting a series changes no judgement, although
\* the hours of a day are counted anew (slice-series.ts).
ShortAnswerIsPrefix ==
    \A a \in Assessed :
        LET whole == SeriesOf(a, FALSE)
        IN  whole.ok => IsPrefix(outcomes[a], JudgeDays(a, whole.value))

\* A refusal is knowledge: it stands whatever the metrics that are missing
\* altogether on that day would have been (scoring-engine.ts:36-41, 217-221).
Absent(channel, indexes) ==
    {m \in DOMAIN channel.values : \A i \in indexes : channel.values[m][i] = None}

FilledValues(values, absent, value) ==
    [m \in DOMAIN values |-> IF m \in absent THEN [i \in DOMAIN values[m] |-> value] ELSE values[m]]

Filled(series, absent, value) ==
    [series EXCEPT !.hourly.values = FilledValues(@, absent, value)]

RefusalSurvivesKnowledge ==
    \A a \in Assessed, value \in {0, 1, 2, 90} :
        LET series == SeriesOf(a, TRUE).value
        IN  \A d \in Days(a) :
              LET window == BuildDayWindows(series)[d]
                  filled == Filled(series, Absent(series.hourly, window.hourIndexes), value)
                  fired == EvaluateConstraints(Definitions[a], series, window)
              IN  fired # 0 =>
                    Fires(Definitions[a].constraints[fired], filled, BuildDayWindows(filled)[d])

\* One of a unit, in parts that all the units of its quantity are made of.
Scale(unit) ==
    CASE unit = "km/h" -> 5 [] unit = "m/s" -> 18 [] unit = "km" -> 1000 [] OTHER -> 1

SameMagnitude(sent, label, kept, unit) ==
    IF sent = None THEN kept = None
    ELSE Abs(sent * Scale(label) - kept * Scale(unit)) < Scale(unit)

SameMagnitudes(block, channel) ==
    \A v \in DOMAIN channel.values, i \in DOMAIN channel.time :
        SameMagnitude(block.arrays[v][i], block.units[v], channel.values[v][i],
                      Dictionary[v].canonicalUnit)

\* Whatever a label says a number measures, the metric it became measures the
\* same, to less than one of its own unit, on either axis, of the answer of a live
\* source and of a recording (open-meteo.mapper.ts:85-106).
ScalesAreKept ==
    \A c \in Capability : Served(c) =>
        /\ SameMagnitudes(exchange[c].response.value.hourly, exchange[c].result.value.hourly)
        /\ SameMagnitudes(exchange[c].response.value.daily, exchange[c].result.value.daily)

\* A score is what its breakdown adds up to: the shares of what contributed
\* sum to one however many features were missing, each losing less than one part
\* of One in rounding, a gate without data limits nothing, and the bounds hold of
\* the score, not of its parts
\* (scoring-engine.ts:319-320, 363-372, 444-449).
Explains(definition, outcome) ==
    LET shares == Total(Column(outcome.breakdown, "weight"))
        sum == 100 * Combined(outcome.breakdown)
        low == definition.postprocess.floor
        high == definition.postprocess.ceiling
    IN  /\ One - Len(outcome.breakdown) < shares /\ shares <= One
        /\ \A i \in DOMAIN outcome.breakdown :
              LET e == outcome.breakdown[i]
              IN  e.raw = None => e.gateFactor \in {None, One}
        /\ outcome.score \in low..high
        /\ outcome.score \in (low + 1)..(high - 1) => 2 * Abs(outcome.score * One - sum) <= One

BreakdownExplainsTheScore ==
    \A a \in Assessed : \A o \in Verdicts(a) :
        (o.kind = "ranked" /\ o.constraintViolated = None) => Explains(Definitions[a], o)

\* What a definition reads, the hours of daylight it counts included, was asked
\* for and has arrived: a host that leaves a metric out is a failure, never a
\* shorter answer, unless it answered with no slot at all (open-meteo.source.ts:111-115).
Readers(definition) ==
    Range(definition.features)
    \cup UNION {Leaves(constraint.when) : constraint \in Range(definition.constraints)}

OnNoSlot(series) ==
    UNION {DOMAIN channel.values :
             channel \in {ch \in {series.hourly, series.daily} : ch.time = <<>>}}

NothingReadIsLeftOut ==
    \A a \in Assessed : \A reader \in Readers(Definitions[a]) :
        LET read == BaseMetrics({reader.metric})
                    \cup (IF ReadsDaylight(reader.aggregation) THEN {"is_day"} ELSE {})
        IN  \A m \in read : \/ m \in MetricsOf(SeriesOf(a, TRUE).value)
                            \/ m \in OnNoSlot(Cut(Dictionary[m].capability))

\* "a port never throws for anything that originated outside the process"
\* (open-meteo.http.ts:182-184).
SourceNeverThrows ==
    \A c \in Capability : exchange[c].result # Rejected
=============================================================================
