---------------------------- MODULE MCAssessment ----------------------------
(* Two activities after the seeds surfing and outdoor-sightseeing, curves   *)
(* over every order of their parameters, declarations with faults; hosts    *)
(* that answer well, badly and not at all, on three days of unequal length. *)
EXTENDS Assessment

----------------------------------------------------------------------------
\* Declarations.
NoParams == <<>>
Agg(type) == [type |-> type, params |-> NoParams]
Daylight(reduce) == [type |-> "daylightWindow", params |-> [reduce |-> reduce]]
Curve(type, params) == [type |-> type, params |-> params]
Value(v) == [array |-> FALSE, of |-> <<v>>]
Values(vs) == [array |-> TRUE, of |-> vs]
Leaf(metric, unit, agg, op, value) ==
    [node |-> "leaf", metric |-> metric, unit |-> unit, aggregation |-> agg,
     op |-> op, value |-> value]
Test(op, value) == [node |-> "leaf", op |-> op, value |-> value]
Counting(type, window, op, value) ==
    [type |-> type, params |-> [window |-> window, predicate |-> <<Test(op, value)>>]]

Feature(id, metric, unit, agg, curve, weight, policy) ==
    [id |-> id, role |-> None, metric |-> metric, unit |-> unit, aggregation |-> agg,
     normalizer |-> curve, weight |-> weight, gateFloor |-> None, nullPolicy |-> policy]

Gate(id, metric, unit, agg, curve, floor) ==
    [Feature(id, metric, unit, agg, curve, None, "degrade")
       EXCEPT !.role = "gate", !.gateFloor = floor]

Declaration(code, include, constraints, features, floor) ==
    [code |-> code, version |-> 1, include |-> include,
     applicability |-> <<[rule |-> "marineCoverage", threshold |-> 2]>>,
     constraints |-> constraints, features |-> features,
     postprocess |-> [floor |-> floor, ceiling |-> None]]

Shared ==
    [severe |-> [reason |-> "SEVERE_WEATHER",
                 when |-> <<Leaf("weather_code", "wmo_code",
                                 Counting("countIf", "day", "in", Values(<<95, 96>>)),
                                 "gte", Value(1)),
                            Leaf("wind_speed_10m", "m/s", Agg("max"), "gte", Value(25)),
                            [node |-> "anyOf", of |-> {1, 2}]>>],
     dark |-> [reason |-> "NO_DAYLIGHT",
               when |-> <<Leaf("daylight_duration", "second", Agg("identity"), "lte",
                               Value(0))>>]]

Surfing ==
    Declaration(1, <<"severe">>,
      <<[reason |-> "FLAT_SEA",
         when |-> <<Leaf("wave_height", "m", Agg("max"), "lt", Value(1))>>],
        [reason |-> "COLD_WATER",
         when |-> <<Leaf("sea_surface_temperature", "degC", Agg("max"), "gte", Value(8)),
                    [node |-> "not", of |-> 1]>>]>>,
      <<Feature("waves", "wave_height", "m", Daylight("max"),
                Curve("trapezoid", [a |-> 0, b |-> 1, c |-> 2, d |-> 4]), 3, "fail"),
        Feature("wind", "WIND_WAVE_ALIGNMENT", "degree", Daylight("mean"),
                Curve("linear", [from |-> 60, to |-> 150]), 2, "degrade"),
        Feature("water", "sea_surface_temperature", "degC", Daylight("mean"),
                Curve("linear", [from |-> 8, to |-> 20]), 1, "exclude")>>,
      None)

Walking ==
    Declaration(2, <<"severe", "dark">>, <<>>,
      <<Gate("comfort", "apparent_temperature", "degC", Daylight("mean"),
             Curve("trapezoid", [a |-> 2, b |-> 15, c |-> 25, d |-> 33]), 9),
        Feature("dry", "precipitation", "mm", Counting("shareOfHours", "daylight", "lt", Value(1)),
                Curve("linear", [from |-> 20, to |-> 60]), 3, "degrade"),
        Feature("view", "visibility", "km", Agg("min"),
                Curve("step", [points |-> <<[at |-> 2, value |-> 30], [at |-> 8, value |-> 60]>>,
                               below |-> 0]), 1, "exclude"),
        Feature("daylight", "daylight_duration", "second", Agg("identity"),
                Curve("linear", [from |-> 14400, to |-> 36000]), 2, "exclude")>>,
      5)

\* One feature and a curve, for curves of all parameters.
Curved(curve, policy) ==
    Declaration(3, <<>>, <<>>,
      <<Feature("only", "precipitation", "mm", Agg("max"), curve, 1, policy)>>, None)

Curves ==
    {Curve(t, [from |-> f, to |-> g]) : t \in {"linear", "inverse"}, f, g \in {0, 2}}
    \cup {Curve("trapezoid", [a |-> q[1], b |-> q[2], c |-> q[3], d |-> q[4]]) :
            q \in {<<0, 0, 2, 2>>, <<0, 2, 2, 4>>, <<2, 2, 2, 2>>, <<2, 0, 4, 4>>}}
    \cup {Curve(t, [center |-> 4, sigma |-> s]) :
            t \in {"gaussian", "inverseGaussian"}, s \in {0, 1, 3}}

Broken ==
    {Misshapen,
     [Surfing EXCEPT !.version = 0],
     [Surfing EXCEPT !.include = <<"unheard">>],
     [Surfing EXCEPT !.applicability[1].threshold = 0],
     [Surfing EXCEPT !.constraints[1].reason = "UNHEARD"],
     [Surfing EXCEPT !.constraints[1].when[1].unit = "cm"],
     [Surfing EXCEPT !.constraints[1].when[1].value = Value(31)],
     [Surfing EXCEPT !.features[1].unit = "km"],
     [Surfing EXCEPT !.features[1].aggregation = Daylight("median")],
     [Surfing EXCEPT !.features[2].id = "waves"],
     [Surfing EXCEPT !.features[2].metric = "sunrise"],
     [Surfing EXCEPT !.features[3].aggregation = Agg("identity")],
     [Surfing EXCEPT !.features[3].weight = None],
     [Walking EXCEPT !.features[1].gateFloor = 0],
     [Walking EXCEPT !.features[2].normalizer.params.to = 61],
     [Walking EXCEPT !.features[3].normalizer.params.points[2].at = 2],
     [Walking EXCEPT !.postprocess = [floor |-> 60, ceiling |-> 40]],
     Curved(Curve("cubic", NoParams), "fail")}

Loading(inputs) == [inputs |-> inputs, shared |-> Shared, published |-> <<>>]

\* Walking has its first version published, as it is or with another threshold.
Published(walking) == (<<walking.code, walking.version>> :> walking)

MCLoads ==
    {Loading(<<Surfing, Walking>>),
     Loading(<<Walking, Walking>>),
     [Loading(<<Walking>>) EXCEPT !.published = Published(Walking)],
     [Loading(<<Walking>>) EXCEPT !.published = Published([Walking EXCEPT !.postprocess.floor = 6])],
     [Loading(<<Surfing>>) EXCEPT !.shared.severe.reason = "UNHEARD"]}
    \cup {Loading(<<raw, Walking>>) : raw \in Broken}
    \cup {Loading(<<Curved(c, policy)>>) : c \in Curves, policy \in {"degrade", "fail"}}

----------------------------------------------------------------------------
\* Answers.
HourStamps == <<<<1, 10>>, <<2, 9>>, <<2, 12>>, <<3, 12>>>>
DayStamps == <<<<1>>, <<2>>, <<3>>>>

Envelope(hourly, hourlyUnits, daily, dailyUnits) ==
    [hourly |-> [units |-> hourlyUnits, arrays |-> hourly, time |-> HourStamps],
     daily |-> [units |-> dailyUnits, arrays |-> daily, time |-> DayStamps],
     elevation |-> 100, offset |-> 2]

Weathered ==
    Envelope([apparent_temperature |-> <<5, 18, 20, None>>, precipitation |-> <<0, 2, 4, 0>>,
              visibility |-> <<15000, 8000, 1000, 8000>>, is_day |-> <<1, 0, 1, 1>>,
              wind_speed_10m |-> <<36, 54, 18, 54>>, wind_direction_10m |-> <<350, 10, None, 90>>,
              weather_code |-> <<0, 3, 3, 3>>],
             [apparent_temperature |-> "C", precipitation |-> "mm", visibility |-> "m",
              is_day |-> "", wind_speed_10m |-> "km/h", wind_direction_10m |-> "deg",
              weather_code |-> "wmo code"],
             [daylight_duration |-> <<25200, 36000, 0>>, wind_speed_10m |-> <<36, 54, 54>>,
              weather_code |-> <<0, 3, 3>>, precipitation |-> <<0, 6, 0>>,
              wind_direction_10m |-> <<350, 10, 90>>],
             [daylight_duration |-> "s", wind_speed_10m |-> "km/h", weather_code |-> "wmo code",
              precipitation |-> "mm", wind_direction_10m |-> "deg"])

Sea ==
    Envelope([wave_height |-> <<2, 3, 1, 2>>, wave_direction |-> <<10, 200, 0, 270>>,
              sea_surface_temperature |-> <<14, 20, 20, None>>],
             [wave_height |-> "m", wave_direction |-> "deg", sea_surface_temperature |-> "C"],
             [wave_height |-> <<2, 3, 2>>, wave_direction |-> <<10, 200, 270>>],
             [wave_height |-> "m", wave_direction |-> "deg"])

Answer(value) ==
    [status |-> 200, json |-> TRUE, retryAfter |-> None, text |-> "json", value |-> value]

\* What any host may do.
Failing ==
    {[Answer(None) EXCEPT !.status = 429, !.retryAfter = 3],
     [Answer(None) EXCEPT !.json = FALSE],
     [Answer(None) EXCEPT !.status = 500],
     [Answer(None) EXCEPT !.text = "empty"],
     [Answer(None) EXCEPT !.text = "garbage"],
     Answer(None)}

Nothing == <<None, None, None, None>>

MCResponses ==
    [forecast |->
       Failing \cup
       {Answer(v) : v \in
         {Weathered,
          [Weathered EXCEPT !.hourly.arrays.precipitation = <<None, None, 4, 0>>,
                            !.hourly.arrays.visibility = Nothing,
                            !.hourly.arrays.weather_code = <<0, 95, None, 3>>,
                            !.hourly.arrays.wind_speed_10m = <<36, 54, None, 108>>,
                            !.daily.arrays.daylight_duration = <<25200, None, None>>],
          [Weathered EXCEPT !.hourly.arrays.precipitation = Nothing,
                            !.hourly.units.precipitation = "undefined"],
          [Weathered EXCEPT !.hourly.units.precipitation = "undefined"],
          [Weathered EXCEPT !.hourly.units.wind_speed_10m = "m/s"],
          [Weathered EXCEPT !.hourly.arrays.precipitation = <<0, 2, 4>>],
          [Weathered EXCEPT !.hourly.arrays.precipitation = <<0, Text, 4, 0>>],
          [Weathered EXCEPT !.hourly.arrays.is_day = Nothing,
                            !.hourly.arrays.weather_code = Nothing],
          [Weathered EXCEPT !.hourly.arrays = [v \in DOMAIN @ \ {"precipitation"} |-> @[v]],
                            !.daily.units = None, !.daily.arrays = None],
          [Weathered EXCEPT !.hourly.arrays = [v \in DOMAIN @ \ {"is_day"} |-> @[v]],
                            !.hourly.units = [v \in DOMAIN @ \ {"is_day"} |-> @[v]]],
          [Weathered EXCEPT !.daily.units = None, !.daily.arrays = None]}},
     marine |->
       {Answer(None)} \cup
       {Answer(v) : v \in
         {Sea,
          [Sea EXCEPT !.hourly.arrays.sea_surface_temperature = Nothing,
                      !.hourly.arrays.wave_height = <<0, 3, None, 5>>],
          [Sea EXCEPT !.hourly.arrays.sea_surface_temperature = <<7, 7, 6, 20>>],
          [Sea EXCEPT !.hourly.time = <<>>, !.hourly.arrays = [v \in DOMAIN @ |-> <<>>]],
          [Sea EXCEPT !.hourly.time = SubSeq(HourStamps, 1, 3),
                      !.hourly.arrays = [v \in DOMAIN @ |-> SubSeq(@[v], 1, 3)]]}}]

Recording(cell, window, value) ==
    [serves |-> {"forecast"}, cell |-> cell, window |-> window, status |-> 200, json |-> TRUE,
     retryAfter |-> None, text |-> "json", value |-> value]

\* Made forty days ago, in three places.
Old == [Weathered EXCEPT !.hourly = ShiftBlock(@, -40), !.daily = ShiftBlock(@, -40)]

MCRecordings ==
    {Recording("lisbon", None, Old), Recording("porto", <<1, 3>>, Old),
     Recording("porto", <<1, 5>>, Old), [Recording("oslo", <<1, 3>>, Old) EXCEPT !.json = FALSE]}

MCBindings ==
    {[forecast |-> "live", marine |-> "live"], [forecast |-> "recorded", marine |-> "live"]}

MCProfile == [gapThreshold |-> 18, neutralScore |-> 30]

\* On the day it is, whoever answers: SourcesKeepTheCalendar.
ASSUME AnswersKeepTheCalendar ==
    /\ \A c \in Capability : \A r \in MCResponses[c] : r.value # None => OnCalendar(r.value, 1)
    /\ \A r \in MCRecordings : OnCalendar(RebaseTimeAxis(r.value, Now), 1)
=============================================================================
