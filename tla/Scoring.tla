------------------------------ MODULE Scoring ------------------------------
(***************************************************************************)
(* One activity judged on one day (src/src/domain/scoring/scoring-engine,  *)
(* src/src/domain/weather/aggregation) and the order of a day's activities *)
(* (src/src/domain/ranking/rank.ts).                                       *)
(*                                                                         *)
(* A constraint, or a predicate, is the sequence of the nodes of its tree, *)
(* [node |-> "leaf" | "anyOf" | "allOf" | "not", ...], each after the ones *)
(* its "of" points at: the root is the last.  A threshold is [array |->    *)
(* ..., of |-> ...].  A share of hours counts in parts of One.             *)
(***************************************************************************)
EXTENDS Normalizers, Verdicts, TLC

Thrown == [kind |-> "thrown"]
NoData(reason, missing) == [kind |-> "no_data", reason |-> reason, missingMetrics |-> missing]

\* The sum of the values there are.
Total(values) ==
    LET sum[n \in 0..Len(values)] ==
          IF n = 0 THEN 0 ELSE sum[n - 1] + (IF values[n] = None THEN 0 ELSE values[n])
    IN  sum[Len(values)]

----------------------------------------------------------------------------
(***************************************************************************)
(* Predicates.                                                             *)
(***************************************************************************)
CompareOps == {"lt", "lte", "gt", "gte", "eq", "ne", "in", "notIn"}
SetOps == {"in", "notIn"}

Compare(op, threshold, value) ==
    LET bound == threshold.of[1]
    IN  CASE op = "in"    -> Contains(threshold.of, value)
          [] op = "notIn" -> ~Contains(threshold.of, value)
          [] op \notin SetOps /\ threshold.array -> FALSE
          [] op = "lt"  -> value < bound
          [] op = "lte" -> value <= bound
          [] op = "gt"  -> value > bound
          [] op = "gte" -> value >= bound
          [] op = "eq"  -> value = bound
          [] op = "ne"  -> value # bound

EvaluatePredicate(p, value) ==
    LET holds[i \in DOMAIN p] ==
          CASE p[i].node = "anyOf" -> \E j \in p[i].of : holds[j]
            [] p[i].node = "allOf" -> \A j \in p[i].of : holds[j]
            [] p[i].node = "not"   -> ~holds[p[i].of]
            [] p[i].node = "leaf"  -> Compare(p[i].op, p[i].value, value)
    IN  holds[Len(p)]

----------------------------------------------------------------------------
(***************************************************************************)
(* Aggregators.                                                            *)
(***************************************************************************)
Reducers == {"mean", "max", "min", "sum"}

Same(granularity) == [granularity |-> granularity, outputUnit |-> "same"]
Aggregators ==
    [mean |-> Same("hourly"), max |-> Same("hourly"), min |-> Same("hourly"),
     sum |-> Same("hourly"), identity |-> Same("daily"), daylightWindow |-> Same("hourly"),
     shareOfHours |-> [granularity |-> "hourly", outputUnit |-> "ratio"],
     countIf |-> [granularity |-> "hourly", outputUnit |-> "hour"]]

SlotsOf(values, indexes) ==
    LET present == {i \in indexes : values[i] # None}
    IN  [present |-> present, sampleCount |-> Cardinality(present),
         missingCount |-> Cardinality(indexes \ present)]

\* Over the slots that hold a value, of which there is one at least.
Reduce(values, present, reducer) ==
    LET sum == Total([i \in DOMAIN values |-> IF i \in present THEN values[i] ELSE None])
    IN  CASE reducer = "mean" -> Div(sum, Cardinality(present))
          [] reducer = "sum" -> sum
          [] reducer = "max" -> Max({values[i] : i \in present})
          [] reducer = "min" -> Min({values[i] : i \in present})

Tally(slots, value, unit) ==
    IF slots.sampleCount = 0 THEN None
    ELSE [value |-> value, unit |-> unit,
          sampleCount |-> slots.sampleCount, missingCount |-> slots.missingCount]

ReduceOver(channel, indexes, reducer) ==
    LET slots == SlotsOf(channel.values, indexes)
    IN  Tally(slots, Reduce(channel.values, slots.present, reducer), channel.unit)

Matching(values, present, predicate) ==
    Cardinality({i \in present : EvaluatePredicate(predicate, values[i])})

AggregateOver(spec, channel, window) ==
    LET slots == SlotsOf(channel.values, IF spec.params.window = "day" THEN window.hourIndexes
                                         ELSE window.daylightIndexes)
        matching == Matching(channel.values, slots.present, spec.params.predicate)
    IN  CASE spec.type \in Reducers -> ReduceOver(channel, window.hourIndexes, spec.type)
          [] spec.type = "identity" ->
                IF window.dailyIndex = None THEN None
                ELSE ReduceOver(channel, {window.dailyIndex}, "mean")
          [] spec.type = "daylightWindow" ->
                ReduceOver(channel, window.daylightIndexes, spec.params.reduce)
          [] spec.type = "shareOfHours" ->
                Tally(slots, Div(matching * One, slots.sampleCount), "ratio")
          [] spec.type = "countIf" -> Tally(slots, matching, "hour")

----------------------------------------------------------------------------
(***************************************************************************)
(* Stage 1: what a feature or a leaf reads of the day; None if nothing.    *)
(***************************************************************************)
ChannelFor(code, granularity, series) ==
    LET source == IF granularity = "daily" THEN series.daily ELSE series.hourly
        computed == ComputeDerived(code, series)
    IN  IF code \in DOMAIN Derived
        THEN IF computed = None THEN None
             ELSE [values |-> computed, unit |-> Derived[code].unit]
        ELSE IF ~HasMetric(source, code) THEN None
        ELSE [values |-> source.values[code], unit |-> Dictionary[code].canonicalUnit]

ValueOf(reader, series, window) ==
    LET entry == Aggregators[reader.aggregation.type]
        channel == ChannelFor(reader.metric, entry.granularity, series)
    IN  IF channel = None THEN None ELSE AggregateOver(reader.aggregation, channel, window)

----------------------------------------------------------------------------
(***************************************************************************)
(* Stages 2 and 3: coverage, then constraints.                             *)
(***************************************************************************)
Gappy(value, profile) ==
    /\ value # None
    /\ value.missingCount * One > profile.gapThreshold * (value.sampleCount + value.missingCount)

\* The first feature that cannot be done without and has too many holes; 0: none.
CheckCoverage(definition, series, window, profile) ==
    SelectInSeq(definition.features,
                LAMBDA f : f.nullPolicy = "fail" /\ Gappy(ValueOf(f, series, window), profile))

Compared(leaf, value) ==
    IF value = None THEN "unknown" ELSE Of(Compare(leaf.op, leaf.value, value.value))

Holds(expr, series, window) ==
    TreeVerdict(expr, [i \in LeavesOf(expr) |->
                         Compared(expr[i], ValueOf(expr[i], series, window))])

Fires(constraint, series, window) == Holds(constraint.when, series, window) = "yes"

\* The first constraint that holds; 0 if none does.
EvaluateConstraints(definition, series, window) ==
    SelectInSeq(definition.constraints, LAMBDA c : Fires(c, series, window))

----------------------------------------------------------------------------
(***************************************************************************)
(* Stage 4: every feature gets a status and its share of the score.        *)
(***************************************************************************)
StatusOf(feature, value) ==
    IF value # None \/ feature.nullPolicy = "fail" THEN "used"
    ELSE IF feature.nullPolicy = "degrade" THEN "degraded" ELSE "excluded"

Contributes(entry) == entry.feature.role = "additive" /\ entry.status # "excluded"

Metrics(entries, indexes) == {entries[i].feature.metric : i \in indexes}

\* Mutant: the weight of what is missing goes to nobody.
Redistributed_Lost(weight, total) == weight

Redistributed(weight, total) == Div(weight * One, total)

Weigh(entry, total) ==
    [feature |-> entry.feature, value |-> entry.value, status |-> entry.status,
     weight |-> IF Contributes(entry) THEN Redistributed(entry.feature.weight, total) ELSE None]

Additive(entries) ==
    Total([i \in DOMAIN entries |-> IF Contributes(entries[i]) THEN entries[i].feature.weight
                                   ELSE None])

Excluded(entries) == {i \in DOMAIN entries : entries[i].status = "excluded"}
Lacking(entries) ==
    {i \in DOMAIN entries : entries[i].value = None /\ entries[i].feature.nullPolicy = "fail"}

ApplyNullPolicy(entries) ==
    IF Lacking(entries) # {}
    THEN [missing |-> Metrics(entries, Lacking(entries))]
    ELSE IF Additive(entries) <= 0
    THEN [missing |-> Metrics(entries, Excluded(entries))]
    ELSE [features |-> [i \in DOMAIN entries |-> Weigh(entries[i], Additive(entries))]]

Entry(feature, value) == [feature |-> feature, value |-> value, status |-> StatusOf(feature, value)]

Entries(features, series, window) ==
    [i \in DOMAIN features |-> Entry(features[i], ValueOf(features[i], series, window))]

----------------------------------------------------------------------------
(***************************************************************************)
(* Stage 5: a weighted sum, then a factor for every gate, and the          *)
(* breakdown out of the same pass.                                         *)
(***************************************************************************)
\* No data is no punishment.
GateFactor(entry, normalized) ==
    IF entry.value = None THEN One
    ELSE Clamp01(entry.feature.gateFloor + Div((One - entry.feature.gateFloor) * normalized, One))

NormalizedOf(entry, profile) ==
    IF entry.value = None THEN profile.neutralScore
    ELSE Normalize(entry.feature.normalizer.type, entry.value.value, entry.feature.normalizer.params)

Explained(entry, normalized) ==
    LET f == entry.feature
        shown == IF entry.status = "excluded" THEN 0 ELSE normalized
    IN  [featureId |-> f.id, role |-> f.role, status |-> entry.status, raw |-> entry.value,
         normalized |-> shown,
         weight |-> IF Contributes(entry) THEN entry.weight ELSE None,
         contribution |-> IF Contributes(entry) /\ shown # NaN
                          THEN Div(entry.weight * normalized, One) ELSE None,
         gateFactor |-> IF f.role = "gate" /\ shown # NaN
                        THEN GateFactor(entry, normalized) ELSE None]

Breakdown(entries, profile) ==
    [i \in DOMAIN entries |-> Explained(entries[i], NormalizedOf(entries[i], profile))]

\* One field of all entries; a fold leaves out what is absent.
Column(breakdown, field) == [i \in DOMAIN breakdown |-> breakdown[i][field]]

Combined(breakdown) ==
    LET score[n \in 0..Len(breakdown)] ==
          IF n = 0 THEN Total(Column(breakdown, "contribution"))
          ELSE IF breakdown[n].gateFactor = None THEN score[n - 1]
          ELSE Div(score[n - 1] * breakdown[n].gateFactor, One)
    IN  score[Len(breakdown)]

----------------------------------------------------------------------------
(***************************************************************************)
(* Stage 6, and the whole.                                                 *)
(***************************************************************************)
Least(a, b) == IF a < b THEN a ELSE b
Greatest(a, b) == IF a > b THEN a ELSE b

\* On the scale of 0..100, rounded; a constraint outranks the floor.
Postprocess(score, definition, fired) ==
    LET raw == 100 * score
        bounds == definition.postprocess
        bounded == Least(Greatest(raw, bounds.floor * One), bounds.ceiling * One)
    IN  Div(2 * (IF fired THEN raw ELSE bounded) + One, 2 * One)

Ranked(definition, score, breakdown, reason) ==
    [kind |-> "ranked", score |-> Postprocess(score, definition, reason # None),
     constraintViolated |-> reason, breakdown |-> breakdown,
     definitionVersion |-> definition.version]

\* A NaN among the scores is what clamp01 throws at.
Scored(definition, breakdown) ==
    IF \E i \in DOMAIN breakdown : breakdown[i].normalized = NaN THEN Thrown
    ELSE Ranked(definition, Clamp01(Combined(breakdown)), breakdown, None)

Judge(definition, gap, fired, applied, profile) ==
    IF gap # 0 THEN NoData("TOO_MANY_GAPS", {definition.features[gap].metric})
    ELSE IF fired # 0 THEN Ranked(definition, 0, <<>>, definition.constraints[fired].reason)
    ELSE IF "missing" \in DOMAIN applied THEN NoData("MISSING_REQUIRED_METRIC", applied.missing)
    ELSE Scored(definition, Breakdown(applied.features, profile))

ScoreActivity(definition, series, window, profile) ==
    Judge(definition, CheckCoverage(definition, series, window, profile),
          EvaluateConstraints(definition, series, window),
          ApplyNullPolicy(Entries(definition.features, series, window)), profile)

----------------------------------------------------------------------------
(***************************************************************************)
(* The order of a day.  An activity's code is its place in code order.     *)
(***************************************************************************)
RankDay(results) ==
    LET ranked == SelectSeq(results, LAMBDA r : r.outcome.kind = "ranked")
        notRanked == SelectSeq(results, LAMBDA r : r.outcome.kind # "ranked")
        ahead(a, b) == \/ a.outcome.score > b.outcome.score
                       \/ a.outcome.score = b.outcome.score /\ a.activity < b.activity
    IN  [ranked |-> SortSeq(ranked, ahead),
         notRanked |-> SortSeq(notRanked, LAMBDA a, b : a.activity < b.activity)]
=============================================================================
