----------------------------- MODULE OpenMeteo -----------------------------
(***************************************************************************)
(* The live source and its recorded twin, from an answer on the wire to a  *)
(* series of the domain (src/src/modules/weather/adapters/open-meteo,      *)
(* adapters/mock).                                                         *)
(*                                                                         *)
(* A variable goes by the metric it spells, the axis saying which spelling *)
(* is meant.  An envelope is [hourly, daily, elevation, offset], each of   *)
(* the first two a block [units, arrays, time] whose units and arrays may  *)
(* be None; a stamp on the wire is <<day>> or <<day, hour>>.  A response   *)
(* is [status, json, retryAfter, text, value], text saying what its bytes  *)
(* are and value being the envelope they parse into, or None if they parse *)
(* into something else.                                                    *)
(***************************************************************************)
EXTENDS Weather

CONSTANT Text   \* a slot that carries a string

\* An answer that parses, whatever its hosts put into it.
IsBlock(block) ==
    /\ DOMAIN block = {"units", "arrays", "time"}
    /\ IsSequence(block.time)
    /\ block.arrays # None => \A v \in DOMAIN block.arrays :
                                block.arrays[v] \in Seq(Int \cup {None, Text})

IsEnvelope(value) ==
    /\ DOMAIN value = {"hourly", "daily", "elevation", "offset"}
    /\ IsBlock(value.hourly) /\ IsBlock(value.daily)
    /\ value.elevation \in Int

IsResponse(response) ==
    /\ {"status", "json", "retryAfter", "text", "value"} \subseteq DOMAIN response
    /\ response.value = None \/ IsEnvelope(response.value)

----------------------------------------------------------------------------
(***************************************************************************)
(* Units as the vendor writes them.                                        *)
(***************************************************************************)
Labels ==
    {"C", "F", "deg", "%", "s", "h", "mm", "cm", "m", "km", "km/h", "m/s", "mph", "kn", "inch",
     "wmo code", "iso8601", ""}

\* A label is its unit, or another spelling of it; a degree sign is written out.
Unit(label) ==
    CASE label = "C" -> "degC"
      [] label = "F" -> "degF"
      [] label = "deg" -> "degree"
      [] label = "%" -> "percent"
      [] label = "s" -> "second"
      [] label = "h" -> "hour"
      [] label = "wmo code" -> "wmo_code"
      [] label = "" -> "boolean"
      [] OTHER -> label

\* Mutant: the two labels of a speed are one.
SourceUnitByLabel_OneSpeed ==
    [label \in Labels |-> IF label = "km/h" THEN "m/s" ELSE Unit(label)]

SourceUnitByLabel == [label \in Labels |-> Unit(label)]

\* What a variable must be declared in.
ExpectedLabel(code) ==
    IF code = "visibility" THEN "m"
    ELSE IF code \in {"wind_speed_10m", "wind_gusts_10m"} THEN "km/h"
    ELSE CHOOSE label \in DOMAIN SourceUnitByLabel :
            SourceUnitByLabel[label] = Dictionary[code].canonicalUnit

\* ERA5's answer for a variable it does not carry.
AbsentUnit == "undefined"

----------------------------------------------------------------------------
(***************************************************************************)
(* What is asked for.                                                      *)
(***************************************************************************)
ForecastHourly ==
    {"temperature_2m", "apparent_temperature", "precipitation", "precipitation_probability",
     "snowfall", "snow_depth", "weather_code", "cloud_cover", "visibility", "wind_speed_10m",
     "wind_gusts_10m", "wind_direction_10m", "is_day", "sunshine_duration",
     "freezing_level_height"}
ForecastDaily ==
    {"weather_code", "temperature_2m_max", "temperature_2m_min", "daylight_duration",
     "sunshine_duration", "precipitation", "precipitation_hours", "snowfall",
     "wind_speed_10m", "wind_gusts_10m", "wind_direction_10m"}
MarineHourly == {"wave_height", "wave_period", "wave_direction", "sea_surface_temperature"}
MarineDaily == {"wave_height", "wave_period", "wave_direction"}

HourlyMetrics == ForecastHourly \cup MarineHourly
DailyMetrics == ForecastDaily \cup MarineDaily

\* The archive answers under the names of the forecast.
Spelled(capability) ==
    IF capability = "marine" THEN [hourly |-> MarineHourly, daily |-> MarineDaily]
    ELSE [hourly |-> ForecastHourly, daily |-> ForecastDaily]

Variables(capability, metrics) ==
    LET spelled == Spelled(capability)
    IN  IF metrics \subseteq spelled.hourly \cup spelled.daily
        THEN Ok([hourly |-> metrics \cap spelled.hourly, daily |-> metrics \cap spelled.daily])
        ELSE Err("UNSUPPORTED_METRIC")

Limits(capability) ==
    IF capability = "archive" THEN [maxForecastDays |-> 0, maxPastDays |-> 0, earliest |-> 0]
    ELSE [maxForecastDays |-> 16, maxPastDays |-> 92, earliest |-> None]

TooLarge(horizon, limits) ==
    IF horizon.kind = "forecast"
    THEN \/ horizon.days > limits.maxForecastDays
         \/ horizon.past # None /\ horizon.past > limits.maxPastDays
    ELSE \/ horizon.last < horizon.first
         \/ limits.earliest # None /\ horizon.first < limits.earliest

\* Refused before it leaves the process: the source's own refusal lies.
ValidateHorizon(horizon, limits) ==
    IF TooLarge(horizon, limits) THEN Err("HORIZON_TOO_LARGE") ELSE Ok(horizon)

----------------------------------------------------------------------------
(***************************************************************************)
(* What is made of an answer: the headers, then the body.                  *)
(***************************************************************************)
SecondsFrom(header) == IF header = None \/ header < 0 THEN None ELSE header

RateLimited(response) ==
    [ok |-> FALSE, error |-> "UNEXPECTED_STATUS",
     retryAfterSeconds |-> SecondsFrom(response.retryAfter)]

IsSuccess(status) == status \in 200..299

\* The limit first, then the media type; the body is not read for either.
AtHeaders(response) ==
    IF response.status = 429 THEN RateLimited(response)
    ELSE IF ~response.json THEN Err("UNEXPECTED_CONTENT_TYPE")
    ELSE Ok(response)

AfterBody(response) ==
    IF ~IsSuccess(response.status) THEN Err("UNEXPECTED_STATUS")
    ELSE IF response.text = "empty" THEN Err("MALFORMED_BODY")
    ELSE Ok(response)

\* JSON, or not.
ParseBody(response) ==
    IF response.text # "json" THEN Err("MALFORMED_BODY") ELSE Ok(response.value)

----------------------------------------------------------------------------
(***************************************************************************)
(* The envelope.                                                           *)
(***************************************************************************)
LeftOut(block) == block.units = None \/ block.arrays = None

ChannelSound(block) ==
    IF LeftOut(block) THEN block.units = block.arrays
    ELSE \A v \in DOMAIN block.units :
            /\ v \in DOMAIN block.arrays
            /\ Len(block.arrays[v]) = Len(block.time)
            /\ block.units[v] \in {AbsentUnit, ExpectedLabel(v)}
            /\ block.units[v] = AbsentUnit => \A i \in DOMAIN block.arrays[v] :
                                                  block.arrays[v][i] = None

ValidateEnvelope(value) ==
    IF value # None /\ ChannelSound(value.hourly) /\ ChannelSound(value.daily)
    THEN Ok(value) ELSE Err("SCHEMA_MISMATCH")

\* The units of the variables this call asked for, reported by name.
Declared(block, asked) ==
    block.units = None
    \/ \A v \in asked \cap DOMAIN block.units : block.units[v] \in {AbsentUnit, ExpectedLabel(v)}

CheckDeclared(value, asked) ==
    IF value = None \/ (Declared(value.hourly, asked.hourly) /\ Declared(value.daily, asked.daily))
    THEN Ok(value) ELSE Err("SCHEMA_MISMATCH")

----------------------------------------------------------------------------
(***************************************************************************)
(* The mapping.                                                            *)
(***************************************************************************)
ConvertSeries(code, label, slots) ==
    LET from == SourceUnitByLabel[label]
        to == Dictionary[code].canonicalUnit
        converted == [i \in 1..Len(slots) |-> ConvertToCanonical(from, to, slots[i])]
    IN  IF label = AbsentUnit THEN Ok([i \in 1..Len(slots) |-> None])
        ELSE IF label \notin DOMAIN SourceUnitByLabel \/ Contains(slots, Text) THEN Err("SCHEMA_MISMATCH")
        ELSE IF \E i \in DOMAIN converted : ~converted[i].ok THEN Err("SCHEMA_MISMATCH")
        ELSE Ok([i \in 1..Len(slots) |-> converted[i].value])

MapChannel(block, metrics, zone) ==
    LET present == metrics \cap DOMAIN block.units \cap DOMAIN block.arrays
        mapped == [v \in present |-> ConvertSeries(v, block.units[v], block.arrays[v])]
    IN  IF LeftOut(block) THEN Ok(EmptyChannel)
        ELSE IF \E v \in present : ~mapped[v].ok THEN Err("SCHEMA_MISMATCH")
        ELSE Ok([time |-> [i \in 1..Len(block.time) |-> block.time[i] \o zone],
                 values |-> [v \in present |-> mapped[v].value]])

\* An hour of the wire is a local one; the offset of the envelope makes it an
\* instant.  A date stays a date.
MapResponse(value, capability) ==
    LET hourly == MapChannel(value.hourly, HourlyMetrics, <<value.offset>>)
        daily == MapChannel(value.daily, DailyMetrics, <<>>)
    IN  IF ~hourly.ok THEN hourly
        ELSE IF ~daily.ok THEN daily
        ELSE Ok([hourly |-> hourly.value, daily |-> daily.value,
                 provenance |-> <<[capability |-> capability, elevation |-> value.elevation,
                                   metrics |-> DOMAIN hourly.value.values
                                               \cup DOMAIN daily.value.values]>>])

\* A metric that was asked for and did not arrive is a failure.
CheckComplete(series, metrics) ==
    IF metrics \subseteq MetricsOf(series) THEN Ok(series) ELSE Err("SCHEMA_MISMATCH")

Mapped(value, capability, metrics) ==
    LET validated == ValidateEnvelope(value)
        series == MapResponse(value, capability)
    IN  IF ~validated.ok THEN validated
        ELSE IF ~series.ok THEN series ELSE CheckComplete(series.value, metrics)

\* fetch of the live source, once the body is there.
Interpret(response, capability, metrics) ==
    LET answered == AfterBody(response)
        parsed == ParseBody(response)
        declared == CheckDeclared(parsed.value, Variables(capability, metrics).value)
    IN  IF ~answered.ok THEN answered
        ELSE IF ~parsed.ok THEN parsed
        ELSE IF ~declared.ok THEN declared
        ELSE Mapped(parsed.value, capability, metrics)

----------------------------------------------------------------------------
(***************************************************************************)
(* The recorded source.  A recording is a response with [serves, cell,     *)
(* window], window being None or the days it covers.                       *)
(***************************************************************************)
Span(recording) == recording.window[2] - recording.window[1]

Covers(recording, horizon) ==
    /\ recording.window # None
    /\ recording.window[1] <= horizon.first
    /\ horizon.last <= recording.window[2]

\* For a window, the tightest recording that covers it; for a rolling forecast,
\* the one recording of the live forecast, or else the one recording there is.
Selected(candidates, horizon) ==
    LET covering == {r \in candidates : Covers(r, horizon)}
        rolling == {r \in candidates : r.window = None}
    IN  IF horizon.kind = "window"
        THEN {r \in covering : \A other \in covering : Span(r) <= Span(other)}
        ELSE IF Cardinality(rolling) = 1 THEN rolling
        ELSE IF rolling = {} /\ Cardinality(candidates) = 1 THEN candidates
        ELSE {}

\* What a recorded source declares is read off its recordings.
DaysIn(value) ==
    IF value.daily.arrays # None THEN Len(value.daily.time) ELSE Len(value.hourly.time) \div 24

RecordedLimits(recordings, capability) ==
    LET successful == {r \in recordings : capability \in r.serves /\ r.status = 200
                                           /\ r.text # "empty"}
        starts == {r.window[1] : r \in {r \in successful : r.window # None}}
    IN  [maxForecastDays |-> Max({0} \cup {DaysIn(r.value) : r \in successful}), maxPastDays |-> 0,
         earliest |-> IF starts = {} THEN None ELSE Min(starts)]

Replay(recording) ==
    IF ~recording.json THEN Err("UNEXPECTED_CONTENT_TYPE")
    ELSE IF recording.status # 200 THEN Err("UNEXPECTED_STATUS")
    ELSE ParseBody(recording)

\* The day it is where a recording was made, now being in hours.
LocalDateAt(now, offset) == (now + offset) \div 24

FirstDayOf(value) ==
    IF value.daily.arrays # None /\ value.daily.time # <<>> THEN DateOf(value.daily.time[1])
    ELSE IF value.hourly.arrays # None /\ value.hourly.time # <<>>
    THEN DateOf(value.hourly.time[1]) ELSE None

Shifted(stamp, days) == [stamp EXCEPT ![1] = @ + days]

ShiftBlock(block, days) ==
    [block EXCEPT !.time = [i \in 1..Len(@) |-> Shifted(@[i], days)]]

\* A recording starts on the day it is now where it was made.
RebaseTimeAxis(value, now) ==
    LET shift == LocalDateAt(now, value.offset) - FirstDayOf(value)
    IN  IF value = None \/ FirstDayOf(value) = None THEN value
        ELSE [value EXCEPT !.hourly = ShiftBlock(@, shift), !.daily = ShiftBlock(@, shift)]

\* The recording that answers; None if there is none.
Chosen(recordings, capability, cell, horizon) ==
    LET candidates == {r \in recordings : capability \in r.serves /\ r.cell = cell}
        chosen == Selected(candidates, horizon)
    IN  IF chosen = {} THEN None ELSE CHOOSE r \in chosen : TRUE

Serve(recording, capability, horizon, metrics, now) ==
    LET replayed == Replay(recording)
    IN  IF recording = None THEN Err("TRANSPORT_FAILURE")
        ELSE IF ~replayed.ok THEN replayed
        ELSE Mapped(IF horizon.kind = "forecast" THEN RebaseTimeAxis(replayed.value, now)
                    ELSE replayed.value, capability, metrics)
=============================================================================
