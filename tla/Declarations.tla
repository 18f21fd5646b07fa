---------------------------- MODULE Declarations ----------------------------
(***************************************************************************)
(* From a written declaration to a definition the engine can be given, or  *)
(* to the list of everything wrong with it                                 *)
(* (src/src/domain/activity/declaration.load.ts).                          *)
(*                                                                         *)
(* A written declaration is a record with None where a field is left out,  *)
(* and what has not that shape at all is Misshapen.  A fault is the        *)
(* activity it is about, 0 being the catalogue, and the place it is at;    *)
(* the wording is left out.  The parameters of an aggregation or a curve   *)
(* that has none are <<>>, a record without fields.                        *)
(***************************************************************************)
EXTENDS Scoring

CONSTANTS
    Misshapen,    \* an input no schema reads
    ReasonCodes   \* the reason registry

ASSUME DeclarationsAssumption == Misshapen # None /\ None \notin ReasonCodes

When(condition, place) == IF condition THEN {place} ELSE {}

(***************************************************************************)
(* What is written, as the schemas type it.                                *)
(***************************************************************************)
NumericFields == {"from", "to", "a", "b", "c", "d", "center", "sigma", "below"}

WrittenCurve(p) ==
    /\ \A field \in DOMAIN p \cap NumericFields : p[field] \in Int
    /\ "points" \in DOMAIN p => p.points \in Seq([at : Int, value : Int])

WrittenReader(reader) ==
    "predicate" \in DOMAIN reader.aggregation.params => IsTree(reader.aggregation.params.predicate)

WrittenRule(rule) ==
    /\ IsTree(rule.when)
    /\ \A i \in LeavesOf(rule.when) : WrittenReader(rule.when[i])

WrittenFeature(f) ==
    /\ WrittenReader(f)
    /\ WrittenCurve(f.normalizer.params)
    /\ f.weight \in Int \cup {None}

Written(raw) ==
    /\ IsSequence(raw.include) /\ IsSequence(raw.constraints) /\ IsSequence(raw.features)
    /\ \A i \in DOMAIN raw.constraints : WrittenRule(raw.constraints[i])
    /\ \A i \in DOMAIN raw.features : WrittenFeature(raw.features[i])

----------------------------------------------------------------------------
\* The leaves of a constraint or of a predicate.
Leaves(tree) == {tree[i] : i \in LeavesOf(tree)}

----------------------------------------------------------------------------
(***************************************************************************)
(* The shape.                                                              *)
(***************************************************************************)
NodeShaped(node) ==
    IF node.node = "leaf" THEN node.value.of # <<>> ELSE Branches(node) # {}

ExprShaped(expr) == \A i \in DOMAIN expr : NodeShaped(expr[i])

FeatureShaped(f) ==
    /\ f.role \in {None, "additive", "gate"}
    /\ f.weight = None \/ f.weight >= 0
    /\ f.nullPolicy \in {"degrade", "exclude", "fail"}

Shaped(raw) ==
    /\ raw # Misshapen
    /\ raw.version > 0
    /\ raw.features # <<>>
    /\ \A i \in DOMAIN raw.features : FeatureShaped(raw.features[i])
    /\ \A i \in DOMAIN raw.constraints : ExprShaped(raw.constraints[i].when)
    /\ {raw.postprocess.floor, raw.postprocess.ceiling} \subseteq 0..100 \cup {None}

RulesShaped(shared) ==
    shared # Misshapen /\ \A id \in DOMAIN shared : ExprShaped(shared[id].when)

----------------------------------------------------------------------------
(***************************************************************************)
(* Metrics and aggregations.                                               *)
(***************************************************************************)
MetaOf(code) ==
    IF code \in DOMAIN Derived
    THEN [code |-> code, unit |-> Derived[code].unit, plausible |-> Derived[code].plausible,
          granularity |-> "hourly", categorical |-> FALSE]
    ELSE IF code \in MetricCodes
    THEN [code |-> code, unit |-> Dictionary[code].canonicalUnit,
          plausible |-> Dictionary[code].plausible,
          granularity |-> Dictionary[code].granularity,
          categorical |-> Dictionary[code].kind = "categorical"]
    ELSE None

MetricFaults(code, unit) ==
    LET meta == MetaOf(code)
    IN  IF meta = None THEN {"metric"}
        ELSE IF unit # meta.unit THEN {"unit"}
        ELSE When(meta.plausible = None, "metric")

CheckMetric(code, unit) == IF MetricFaults(code, unit) = {} THEN MetaOf(code) ELSE None

ServesChannel(granularity, needed) == granularity \in {"both", needed}

PredicateShaped(p) ==
    /\ ExprShaped(p)
    /\ \A leaf \in Leaves(p) : leaf.op \in CompareOps /\ leaf.value.array = (leaf.op \in SetOps)

AggregatorAccepts(type, params) ==
    CASE type = "daylightWindow" -> "reduce" \in DOMAIN params /\ params.reduce \in Reducers
      [] type \in {"shareOfHours", "countIf"} ->
            /\ {"predicate", "window"} \subseteq DOMAIN params
            /\ PredicateShaped(params.predicate)
            /\ params.window \in {"day", "daylight"}
      [] OTHER -> TRUE

Outside(value, range) == value < range[1] \/ value > range[2]
AnyOutside(values, range) == \E i \in DOMAIN values : Outside(values[i], range)

\* A threshold inside a predicate is compared with the metric's own values.
PredicateFaults(p, meta) ==
    When(\E leaf \in Leaves(p) : \/ meta.categorical /\ leaf.op \notin SetOps
                                \/ AnyOutside(leaf.value.of, meta.plausible),
         "aggregation.params")

AggregationFaults(spec, meta) ==
    IF spec.type \notin DOMAIN Aggregators THEN {"aggregation"}
    ELSE IF ~AggregatorAccepts(spec.type, spec.params) THEN {"aggregation.params"}
    ELSE IF meta = None THEN {}
    ELSE When(~ServesChannel(meta.granularity, Aggregators[spec.type].granularity),
              "aggregation")
         \cup (IF "predicate" \in DOMAIN spec.params
               THEN PredicateFaults(spec.params.predicate, meta) ELSE {})

\* A threshold out of range is a fault, and the aggregation is known all the same.
CheckAggregation(spec, meta) ==
    IF AggregationFaults(spec, meta) \subseteq {"aggregation.params"}
       /\ AggregatorAccepts(spec.type, spec.params)
    THEN Aggregators[spec.type] ELSE None

\* A share or a count of hours has a range of its own.
RangeFor(meta, entry) ==
    CASE entry.outputUnit = "same"  -> meta.plausible
      [] entry.outputUnit = "ratio" -> <<0, One>>
      [] entry.outputUnit = "hour"  -> <<0, 24>>

----------------------------------------------------------------------------
(***************************************************************************)
(* Features.                                                               *)
(***************************************************************************)
RoleOf(f) == IF f.role = None THEN "additive" ELSE f.role

\* A gate that reached zero would be a refusal without a reason.
RoleFaults(f) ==
    IF RoleOf(f) = "additive" THEN When(f.weight = None, "weight")
    ELSE When(f.gateFloor = None \/ f.gateFloor \notin 1..One, "gateFloor")
         \cup When(f.weight # None, "weight")
         \cup When(f.nullPolicy = "fail", "nullPolicy")

NormalizerFaults(spec, meta, entry) ==
    IF spec.type \notin NormalizerCodes THEN {"normalizer"}
    ELSE IF ~CurveAccepts(spec.type, spec.params) THEN {"normalizer.params"}
    ELSE IF meta = None \/ entry = None THEN {}
    ELSE When(\E point \in AxisPoints(spec.type, spec.params) :
                 Outside(point, RangeFor(meta, entry)), "normalizer.params")

FeatureFaults(f) ==
    LET meta == CheckMetric(f.metric, f.unit)
        entry == CheckAggregation(f.aggregation, meta)
    IN  RoleFaults(f) \cup MetricFaults(f.metric, f.unit)
        \cup AggregationFaults(f.aggregation, meta)
        \cup NormalizerFaults(f.normalizer, meta, entry)

\* An identifier addresses the breakdown: the first feature of a name is read.
ReadFeatures(raw) ==
    {i \in DOMAIN raw.features :
       \A j \in 1..(i - 1) : raw.features[j].id # raw.features[i].id}

WeightOf(f) == IF RoleOf(f) = "additive" /\ f.weight # None THEN f.weight ELSE 0

TotalWeight(raw) ==
    Total([i \in DOMAIN raw.features |-> IF i \in ReadFeatures(raw) THEN WeightOf(raw.features[i])
                                        ELSE None])

FeaturesFaults(raw) ==
    When(ReadFeatures(raw) # DOMAIN raw.features, "feature")
    \cup When(TotalWeight(raw) = 0, "features")
    \cup UNION {FeatureFaults(raw.features[i]) : i \in ReadFeatures(raw)}

\* The weights of the contributing features sum to One; a gate has none.
Weighed(f, total) ==
    [id |-> f.id, metric |-> f.metric, aggregation |-> f.aggregation,
     normalizer |-> f.normalizer, nullPolicy |-> f.nullPolicy, role |-> RoleOf(f),
     weight |-> IF RoleOf(f) = "additive" THEN Div(WeightOf(f) * One, total) ELSE None,
     gateFloor |-> IF RoleOf(f) = "gate" THEN Clamp01(f.gateFloor) ELSE None]

ResolvedFeatures(raw) ==
    [i \in ReadFeatures(raw) |-> Weighed(raw.features[i], TotalWeight(raw))]

----------------------------------------------------------------------------
(***************************************************************************)
(* Constraints.                                                            *)
(***************************************************************************)
ValueFaults(leaf, meta, entry) ==
    IF meta = None \/ entry = None THEN {}
    ELSE When(meta.categorical /\ entry.outputUnit = "same" /\ leaf.op \notin SetOps, "op")
         \cup When(AnyOutside(leaf.value.of, RangeFor(meta, entry)), "value")

LeafFaults(leaf) ==
    LET meta == CheckMetric(leaf.metric, leaf.unit)
        entry == CheckAggregation(leaf.aggregation, meta)
    IN  MetricFaults(leaf.metric, leaf.unit)
        \cup AggregationFaults(leaf.aggregation, meta)
        \cup When(leaf.op \notin CompareOps, "op")
        \cup When(leaf.value.array # (leaf.op \in SetOps), "value")
        \cup ValueFaults(leaf, meta, entry)

ExprFaults(expr) == UNION {LeafFaults(leaf) : leaf \in Leaves(expr)}

ConstraintFaults(constraint) ==
    When(constraint.reason \notin ReasonCodes, "reason") \cup ExprFaults(constraint.when)

\* The shared rules that read without a fault.
SharedRules(shared) ==
    IF ~RulesShaped(shared) THEN <<>>
    ELSE [id \in {i \in DOMAIN shared : ConstraintFaults(shared[i]) = {}} |-> shared[id]]

SharedFaults(shared) ==
    IF ~RulesShaped(shared) THEN {[activity |-> 0, at |-> "shared-rules"]}
    ELSE {[activity |-> 0, at |-> place] :
            place \in UNION {ConstraintFaults(shared[id]) : id \in DOMAIN shared}}

----------------------------------------------------------------------------
(***************************************************************************)
(* A declaration, and a load of several.                                   *)
(***************************************************************************)
ApplicabilityRules == {"snowSeason", "marineCoverage"}

ApplicabilityFaults(rule) ==
    When(\/ rule.rule \notin ApplicabilityRules
         \/ rule.threshold = None
         \/ rule.threshold <= 0, "applicability")

DeclarationFaults(raw, rules) ==
    When(\E i \in DOMAIN raw.include : raw.include[i] \notin DOMAIN rules, "include")
    \cup (UNION {ApplicabilityFaults(raw.applicability[i]) : i \in DOMAIN raw.applicability})
    \cup (UNION {ConstraintFaults(raw.constraints[i]) : i \in DOMAIN raw.constraints})
    \cup FeaturesFaults(raw)
    \cup When(/\ None \notin {raw.postprocess.floor, raw.postprocess.ceiling}
              /\ raw.postprocess.floor > raw.postprocess.ceiling, "postprocess")

Bounds(postprocess) ==
    [floor |-> IF postprocess.floor = None THEN 0 ELSE postprocess.floor,
     ceiling |-> IF postprocess.ceiling = None THEN 100 ELSE postprocess.ceiling]

\* Included rules come before the activity's own.  A declaration stands for its
\* fingerprint: no two have one digest.
ResolveDeclaration(raw, rules) ==
    [code |-> raw.code, version |-> raw.version, fingerprint |-> raw,
     applicability |-> raw.applicability,
     constraints |-> [i \in 1..Len(raw.include) |-> rules[raw.include[i]]] \o raw.constraints,
     features |-> ResolvedFeatures(raw),
     postprocess |-> Bounds(raw.postprocess)]

FaultsOf(raw, rules, index) ==
    IF raw = Misshapen THEN {[activity |-> 0 - index, at |-> "shape"]}
    ELSE IF ~Shaped(raw) THEN {[activity |-> raw.code, at |-> "shape"]}
    ELSE {[activity |-> raw.code, at |-> place] : place \in DeclarationFaults(raw, rules)}

\* One version is one declaration, whatever the two of them say,
KeyOf(definition) == <<definition.code, definition.version>>

DeclaredTwice(resolved, i) ==
    \E j \in DOMAIN resolved : j < i /\ KeyOf(resolved[j]) = KeyOf(resolved[i])

\* and the one that was published under it, where one was: published maps the
\* keys of versions to fingerprints.
Redefines(definition, published) ==
    /\ KeyOf(definition) \in DOMAIN published
    /\ published[KeyOf(definition)] # definition.fingerprint

VersionFaults(resolved, published) ==
    {[activity |-> resolved[i].code, at |-> "version"] :
       i \in {i \in DOMAIN resolved : \/ DeclaredTwice(resolved, i)
                                      \/ Redefines(resolved[i], published)}}

\* The definitions of the inputs without a fault.
Resolve(inputs, rules) ==
    [i \in {i \in DOMAIN inputs : FaultsOf(inputs[i], rules, i) = {}} |->
       ResolveDeclaration(inputs[i], rules)]

\* Every fault of every input is reported, or else there is a catalogue.
Loaded(faults, resolved) == IF faults # {} THEN Err(faults) ELSE Ok(resolved)

LoadWith(rules, inputs, shared, published) ==
    LET resolved == Resolve(inputs, rules)
    IN  Loaded(SharedFaults(shared)
               \cup UNION {FaultsOf(inputs[i], rules, i) : i \in DOMAIN inputs}
               \cup VersionFaults(resolved, published), resolved)

LoadDeclarations(inputs, shared, published) ==
    LoadWith(SharedRules(shared), inputs, shared, published)

----------------------------------------------------------------------------
(***************************************************************************)
(* What a definition makes the service ask for                             *)
(* (src/src/domain/activity/metric-requirements.ts).                       *)
(***************************************************************************)
ReadsDaylight(spec) ==
    \/ spec.type = "daylightWindow"
    \/ "window" \in DOMAIN spec.params /\ spec.params.window = "daylight"

\* Mutant: what a window is made of is not asked for.
Required_ValueOnly(reader) == {reader.metric}

Required(reader) ==
    {reader.metric} \cup (IF ReadsDaylight(reader.aggregation) THEN {"is_day"} ELSE {})

ExprRequirements(expr) == UNION {Required(leaf) : leaf \in Leaves(expr)}

MetricRequirements(definition) ==
    (UNION {Required(definition.features[i]) : i \in DOMAIN definition.features})
    \cup (UNION {ExprRequirements(definition.constraints[i].when) :
                   i \in DOMAIN definition.constraints})
=============================================================================
