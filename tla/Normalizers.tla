---------------------------- MODULE Normalizers ----------------------------
(***************************************************************************)
(* The curves that turn a quantity into a score                            *)
(* (src/src/domain/scoring/normalizers, normalizer.registry.ts).           *)
(*                                                                         *)
(* A score is an integer in 0..One.  The bell is another curve here than   *)
(* the exponential, with its peak at the centre and no negative value; its *)
(* two squares vanish where the code's do.                                 *)
(***************************************************************************)
EXTENDS Weather

CONSTANTS
    One,       \* the score 1
    Underflow  \* the least magnitude whose square the machine tells from 0

ASSUME NormalizersAssumption ==
    /\ One \in Nat \ {0}
    /\ Underflow \in Nat \ {0}
    /\ None \notin Int
    /\ NaN \notin Int

Score == 0..One

\* clamp01 throws at NaN; a NaN that comes out of it stands for that.
Clamp01(value) ==
    IF value = NaN THEN NaN
    ELSE IF value < 0 THEN 0
    ELSE IF value > One THEN One ELSE value

\* A quotient as a score.
Share(n, d) == Clamp01(Div(n * One, d))

Linear(value, p) == Share(value - p.from, p.to - p.from)

InverseLinear(value, p) == Share(p.to - value, p.to - p.from)

Trapezoid(value, p) ==
    IF value < p.a THEN 0
    ELSE IF value < p.b THEN Share(value - p.a, p.b - p.a)
    ELSE IF value <= p.c THEN One
    ELSE IF value < p.d THEN Share(p.d - value, p.d - p.c)
    ELSE 0

\* Below about 1e-162 a double times itself is 0.
Square(x) == IF Abs(x) < Underflow THEN 0 ELSE x * x

\* 0 / 0 where the square of the offset and that of sigma both vanish.
Gaussian(value, p) ==
    LET width == 2 * Square(p.sigma)
    IN  Share(width, width + Square(value - p.center))

InverseGaussian(value, p) ==
    LET bell == Gaussian(value, p)
    IN  IF bell = NaN THEN NaN ELSE Clamp01(One - bell)

\* A bell whose sigma the schema accepts and the machine squares to 0.
Vanishing(type, p) == type \in {"gaussian", "inverseGaussian"} /\ Square(p.sigma) = 0

\* The points up to the first one beyond the value.
Step(value, p) ==
    LET passed == {i \in 1..Len(p.points) : \A j \in 1..i : p.points[j].at <= value}
    IN  IF passed = {} THEN p.below ELSE p.points[Cardinality(passed)].value

NormalizerCodes ==
    {"linear", "inverse", "trapezoid", "gaussian", "inverseGaussian", "step"}

Normalize(type, value, p) ==
    CASE type = "linear" -> Linear(value, p)
      [] type = "inverse" -> InverseLinear(value, p)
      [] type = "trapezoid" -> Trapezoid(value, p)
      [] type = "gaussian" -> Gaussian(value, p)
      [] type = "inverseGaussian" -> InverseGaussian(value, p)
      [] type = "step" -> Step(value, p)

\* Mutant: equal bounds pass.
CurveAccepts_EqualBounds(type, p) ==
    CASE type \in {"linear", "inverse"} ->
            {"from", "to"} \subseteq DOMAIN p /\ p.from <= p.to
      [] type = "trapezoid" ->
            {"a", "b", "c", "d"} \subseteq DOMAIN p /\ p.a <= p.b /\ p.b <= p.c /\ p.c <= p.d
      [] type \in {"gaussian", "inverseGaussian"} ->
            {"center", "sigma"} \subseteq DOMAIN p /\ p.sigma > 0
      [] type = "step" -> "points" \in DOMAIN p

\* The schema of the parameters of a curve.
CurveAccepts(type, p) ==
    CASE type \in {"linear", "inverse"} ->
            {"from", "to"} \subseteq DOMAIN p /\ p.from < p.to
      [] type = "trapezoid" ->
            {"a", "b", "c", "d"} \subseteq DOMAIN p /\ p.a <= p.b /\ p.b <= p.c /\ p.c <= p.d
      [] type \in {"gaussian", "inverseGaussian"} ->
            {"center", "sigma"} \subseteq DOMAIN p /\ p.sigma > 0
      [] type = "step" ->
            /\ {"points", "below"} \subseteq DOMAIN p
            /\ p.points # <<>>
            /\ p.below \in Score
            /\ \A i \in DOMAIN p.points : p.points[i].value \in Score
            /\ \A i \in 2..Len(p.points) : p.points[i - 1].at < p.points[i].at

\* The positions on the metric's axis a declaration spells out.
AxisPoints(type, p) ==
    CASE type \in {"linear", "inverse"} -> {p.from, p.to}
      [] type = "trapezoid" -> {p.a, p.b, p.c, p.d}
      [] type \in {"gaussian", "inverseGaussian"} -> {p.center}
      [] type = "step" -> {p.points[i].at : i \in DOMAIN p.points}
=============================================================================
