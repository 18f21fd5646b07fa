------------------------------ MODULE Weather ------------------------------
(***************************************************************************)
(* The data the scoring reads (src/src/domain/weather): the metric         *)
(* dictionary and its units, a series with its two axes, slicing, merging, *)
(* the days of a series and the metrics computed from others.              *)
(*                                                                         *)
(* A stamp of an axis is <<day>> or <<day, hour, offset>>, its date being  *)
(* the first component.  A quantity is an integer in its unit; a division  *)
(* rounds down.  A value the code has as null or undefined is None.        *)
(***************************************************************************)
EXTENDS Integers, Sequences, FiniteSets, SequencesExt

CONSTANTS
    None,  \* an absent value
    NaN    \* what a division of zero by zero gives

ASSUME WeatherAssumption == None # NaN

IsSequence(s) == s \in Seq(Range(s))

Ok(value) == [ok |-> TRUE, value |-> value]
Err(code) == [ok |-> FALSE, error |-> code]

\* Beyond every quantity of a model.
Infinite == 1000000

Div(n, d) ==
    IF n = NaN \/ d = NaN THEN NaN
    ELSE IF d > 0 THEN n \div d
    ELSE IF d < 0 THEN (0 - n) \div (0 - d)
    ELSE IF n = 0 THEN NaN
    ELSE IF n > 0 THEN Infinite ELSE 0 - Infinite

----------------------------------------------------------------------------
(***************************************************************************)
(* Units and the dictionary.                                               *)
(***************************************************************************)
CanonicalUnits ==
    {"degC", "mm", "cm", "m", "km", "m/s", "degree", "percent", "second", "hour",
     "wmo_code", "boolean", "iso8601", "ratio"}

\* What is absent is neither a list of slots nor a channel in some unit.
ASSUME AbsenceAssumption ==
    /\ None \notin Seq(Int \cup {None})
    /\ None \notin [values : Seq(Int \cup {None}), unit : CanonicalUnits]

\* Only two conversions exist; another pair of units is a fault of the source.
ConvertToCanonical(from, to, value) ==
    IF value = None \/ from = to THEN Ok(value)
    ELSE IF from = "km/h" /\ to = "m/s" THEN Ok((value * 5) \div 18)
    ELSE IF from = "m" /\ to = "km" THEN Ok(value \div 1000)
    ELSE Err("SCHEMA_MISMATCH")

Capabilities == <<"forecast", "marine", "archive">>

Def(unit, granularity, capability, kind, plausible) ==
    [canonicalUnit |-> unit, granularity |-> granularity, capability |-> capability,
     kind |-> kind, plausible |-> plausible]

Forecast(unit, granularity, low, high) ==
    Def(unit, granularity, "forecast", "continuous", <<low, high>>)
Marine(unit, granularity, low, high) ==
    Def(unit, granularity, "marine", "continuous", <<low, high>>)

Dictionary ==
    [snow_depth                |-> Forecast("m", "hourly", 0, 30),
     snowfall                  |-> Forecast("cm", "both", 0, 300),
     freezing_level_height     |-> Forecast("m", "hourly", 0, 6000),
     temperature_2m            |-> Forecast("degC", "hourly", -90, 60),
     apparent_temperature      |-> Forecast("degC", "hourly", -90, 60),
     precipitation             |-> Forecast("mm", "both", 0, 400),
     precipitation_hours       |-> Forecast("hour", "daily", 0, 24),
     precipitation_probability |-> Forecast("percent", "hourly", 0, 100),
     wind_speed_10m            |-> Forecast("m/s", "both", 0, 40),
     wind_gusts_10m            |-> Forecast("m/s", "both", 0, 45),
     wind_direction_10m        |-> Forecast("degree", "both", 0, 360),
     cloud_cover               |-> Forecast("percent", "hourly", 0, 100),
     sunshine_duration         |-> Forecast("second", "both", 0, 86400),
     visibility                |-> Forecast("km", "hourly", 0, 100),
     weather_code              |-> Def("wmo_code", "both", "forecast", "categorical", <<0, 99>>),
     is_day                    |-> Def("boolean", "hourly", "forecast", "flag", <<0, 1>>),
     daylight_duration         |-> Forecast("second", "daily", 0, 86400),
     sunrise                   |-> Def("iso8601", "daily", "forecast", "continuous", None),
     sunset                    |-> Def("iso8601", "daily", "forecast", "continuous", None),
     temperature_2m_max        |-> Forecast("degC", "daily", -90, 60),
     temperature_2m_min        |-> Forecast("degC", "daily", -90, 60),
     wave_height               |-> Marine("m", "both", 0, 30),
     wave_period               |-> Marine("second", "both", 0, 30),
     wave_direction            |-> Marine("degree", "both", 0, 360),
     sea_surface_temperature   |-> Marine("degC", "hourly", -5, 40)]

MetricCodes == DOMAIN Dictionary

----------------------------------------------------------------------------
(***************************************************************************)
(* A series.                                                               *)
(***************************************************************************)
DateOf(stamp) == Head(stamp)

EmptyChannel == [time |-> <<>>, values |-> <<>>]

\* What channel(...) throws at otherwise.
LinesUp(channel) ==
    \A code \in DOMAIN channel.values : Len(channel.values[code]) = Len(channel.time)

HasMetric(channel, code) == code \in DOMAIN channel.values

ValueAt(channel, code, i) == IF HasMetric(channel, code) THEN channel.values[code][i] ELSE None

MetricsOf(series) == DOMAIN series.hourly.values \cup DOMAIN series.daily.values

\* The slots of a sequence whose positions are in the set, in their order.
Nth(positions, k) == CHOOSE i \in positions : Cardinality({j \in positions : j <= i}) = k

Kept(s, positions) == [k \in 1..Cardinality(positions) |-> s[Nth(positions, k)]]

\* Every date of an axis once, where it is first seen.
DistinctDates(axis) ==
    LET first == {i \in DOMAIN axis : \A j \in 1..(i - 1) : DateOf(axis[j]) # DateOf(axis[i])}
    IN  [k \in 1..Cardinality(first) |-> DateOf(Kept(axis, first)[k])]

LeadingAxis(series) ==
    IF series.daily.time # <<>> THEN series.daily.time ELSE series.hourly.time

IndexesOn(axis, dates) == {i \in DOMAIN axis : DateOf(axis[i]) \in dates}

KeepIndexes(channel, indexes) ==
    [time |-> Kept(channel.time, indexes),
     values |-> [code \in DOMAIN channel.values |-> Kept(channel.values[code], indexes)]]

\* Mutant: a day is counted in slots of the first day, not read off the stamps.
KeepDates_ByCount(channel, dates) ==
    LET perDay == IF channel.time = <<>> THEN 0
                  ELSE Cardinality(IndexesOn(channel.time, {DateOf(channel.time[1])}))
        wanted == perDay * Cardinality(dates)
    IN  KeepIndexes(channel, {i \in DOMAIN channel.time : i <= wanted})

KeepDates(channel, dates) == KeepIndexes(channel, IndexesOn(channel.time, dates))

SliceToDays(series, days) ==
    LET dates == DistinctDates(LeadingAxis(series))
        kept == {dates[i] : i \in 1..days}
    IN  IF days <= 0 \/ days >= Len(dates) THEN series
        ELSE [series EXCEPT !.hourly = KeepDates(@, kept), !.daily = KeepDates(@, kept)]

MergeChannel(left, right) ==
    IF right.time = <<>> THEN Ok(left)
    ELSE IF left.time = <<>> THEN Ok(right)
    ELSE IF left.time # right.time THEN Err("TIME_AXIS_MISMATCH")
    ELSE IF DOMAIN left.values \cap DOMAIN right.values # {} THEN Err("METRIC_COLLISION")
    ELSE Ok([time |-> left.time,
             values |-> [code \in DOMAIN left.values \cup DOMAIN right.values |->
                           IF code \in DOMAIN left.values THEN left.values[code]
                           ELSE right.values[code]]])

MergeSeries(first, next) ==
    LET hourly == MergeChannel(first.hourly, next.hourly)
        daily == MergeChannel(first.daily, next.daily)
    IN  IF ~hourly.ok THEN hourly
        ELSE IF ~daily.ok THEN daily
        ELSE Ok([hourly |-> hourly.value, daily |-> daily.value,
                 provenance |-> first.provenance \o next.provenance])

\* The slots of one local date; is_day says which of them are in daylight.
DayWindow(series, date) ==
    LET hours == IndexesOn(series.hourly.time, {date})
        day == SelectInSeq(series.daily.time, LAMBDA stamp : DateOf(stamp) = date)
    IN  [date |-> date,
         hourIndexes |-> hours,
         daylightIndexes |-> {i \in hours : ValueAt(series.hourly, "is_day", i) = 1},
         dailyIndex |-> IF day = 0 THEN None ELSE day]

BuildDayWindows(series) ==
    LET dates == DistinctDates(series.hourly.time)
    IN  [d \in DOMAIN dates |-> DayWindow(series, dates[d])]

----------------------------------------------------------------------------
(***************************************************************************)
(* Metrics computed from others, slot by slot.                             *)
(***************************************************************************)
Derived ==
    [WIND_WAVE_ALIGNMENT   |-> [requires |-> <<"wind_direction_10m", "wave_direction">>,
                                unit |-> "degree", plausible |-> <<0, 180>>],
     FRESH_COLD_SNOWFALL   |-> [requires |-> <<"snowfall", "temperature_2m">>,
                                unit |-> "cm", plausible |-> <<0, 300>>],
     FREEZING_LEVEL_MARGIN |-> [requires |-> <<"freezing_level_height">>,
                                unit |-> "m", plausible |-> <<-6000, 6000>>]]

\* The remainder of the language has the sign of its left operand.
Rem(a, n) == IF a >= 0 THEN a % n ELSE 0 - ((0 - a) % n)

Abs(a) == IF a < 0 THEN 0 - a ELSE a

AngleBetween(first, second) ==
    Abs(Rem(Rem(first - second + 180, 360) + 360, 360) - 180)

Formula(code, inputs, elevation) ==
    CASE code = "WIND_WAVE_ALIGNMENT" -> AngleBetween(inputs[1], inputs[2])
      [] code = "FRESH_COLD_SNOWFALL" -> IF inputs[2] < 0 THEN inputs[1] ELSE 0
      [] code = "FREEZING_LEVEL_MARGIN" -> inputs[1] - elevation

\* The elevation of the grid node of the source that carried the metric.
ElevationOf(series, code) ==
    LET carrier == SelectInSeq(series.provenance, LAMBDA p : code \in p.metrics)
    IN  series.provenance[IF carrier = 0 THEN 1 ELSE carrier].elevation

\* None when a metric it is computed from is not on the series at all.
ComputeDerived(code, series) ==
    LET requires == Derived[code].requires
        inputs == [r \in 1..Len(requires) |-> series.hourly.values[requires[r]]]
        at(i) == [r \in 1..Len(requires) |-> inputs[r][i]]
    IN  IF \E r \in 1..Len(requires) : ~HasMetric(series.hourly, requires[r]) THEN None
        ELSE [i \in 1..Len(inputs[1]) |->
                IF \E r \in 1..Len(requires) : inputs[r][i] = None THEN None
                ELSE Formula(code, at(i), ElevationOf(series, requires[1]))]

\* Every metric a source must be asked for.
BaseMetrics(required) ==
    UNION {IF code \in DOMAIN Derived THEN ToSet(Derived[code].requires) ELSE {code}
             : code \in required}
=============================================================================
