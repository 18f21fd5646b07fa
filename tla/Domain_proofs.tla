---------------------------- MODULE Domain_proofs ----------------------------
(***************************************************************************)
(* Proofs about the data path: first its pure parts (verdicts of three     *)
(* values, curves, the angle between two directions, series that are       *)
(* sliced and merged), then what declarations and answers have in common   *)
(* after validation, and from that the properties of a whole assessment.   *)
(* Quantities are integers, of any size; what a float loses is not in      *)
(* these theorems.                                                         *)
(*                                                                         *)
(* Sums, gates and trees are recursive functions: what holds along one is  *)
(* shown of the least place where it would not (LeastThere).               *)
(***************************************************************************)
EXTENDS Assessment, FiniteSetTheorems, SequenceTheorems, WellFoundedInduction, TLAPS

----------------------------------------------------------------------------
(***************************************************************************)
(* Numbers, positions and sums.                                            *)
(***************************************************************************)

\* Every set of numbers has a least one.
LEMMA LeastThere ==
    ASSUME NEW S \in SUBSET Nat, S # {}
    PROVE  \E m \in S : \A i \in S : m <= i
<1>1. PICK m \in S : ~\E i \in S : <<i, m>> \in OpToRel(<, Nat)
  BY NatLessThanWellFounded, WFMin
<1>2. ASSUME NEW i \in S, ~(m <= i) PROVE FALSE
  <2>1. i \in Nat /\ m \in Nat /\ i < m
    BY <1>2
  <2>2. <<i, m>> \in OpToRel(<, Nat)
    BY <2>1 DEF OpToRel
  <2> QED
    BY <1>1, <2>2
<1> QED
  BY <1>2

\* A function over 1..n is a sequence of n members.
LEMMA LenOfFunction ==
    ASSUME NEW n \in Nat, NEW s, s = [i \in 1 .. n |-> s[i]]
    PROVE  Len(s) = n
<1> DEFINE S == {s[i] : i \in 1 .. n}
<1>1. s \in [1 .. n -> S]
  OBVIOUS
<1>2. s \in Seq(S)
  BY <1>1, SeqDef
<1>3. DOMAIN s = 1 .. n /\ DOMAIN s = 1 .. Len(s) /\ Len(s) \in Nat
  BY <1>1, <1>2, LenProperties
<1> QED
  BY <1>3

\* A set of positions has as many members as it has, and each has its place.
LEMMA PositionsAreFinite ==
    ASSUME NEW n \in Nat, NEW S \in SUBSET (1 .. n)
    PROVE  IsFiniteSet(S) /\ Cardinality(S) \in Nat
<1>1. 1 \in Int /\ n \in Int
  OBVIOUS
<1>2. IsFiniteSet(1 .. n)
  BY <1>1, FS_Interval, Zenon
<1> QED
  BY <1>2, FS_Subset, FS_CardinalityType

LEMMA NthIsThere ==
    ASSUME NEW n \in Nat, NEW S \in SUBSET (1 .. n), NEW k \in 1 .. Cardinality(S)
    PROVE  /\ Nth(S, k) \in S
           /\ Cardinality({j \in S : j <= Nth(S, k)}) = k
<1> DEFINE Up(i) == {j \in S : j <= i}
           T == {i \in Nat : Cardinality(Up(i)) >= k}
<1>t. \A j \in S : j \in Int /\ j >= 1 /\ j <= n
  OBVIOUS
<1>0. \A i \in Nat : IsFiniteSet(Up(i)) /\ Cardinality(Up(i)) \in Nat
  BY PositionsAreFinite, FS_Subset, FS_CardinalityType
<1>k. k \in Nat /\ k >= 1
  <2>1. Cardinality(S) \in Nat
    BY PositionsAreFinite
  <2> QED
    BY <2>1
<1>1. n \in T
  <2>1. Up(n) = S
    BY <1>t
  <2>2. Cardinality(S) \in Nat
    BY PositionsAreFinite
  <2> QED
    BY <2>1, <2>2
<1>2. PICK m \in T : \A i \in T : m <= i
  <2>1. T \in SUBSET Nat
    OBVIOUS
  <2> HIDE DEF T
  <2> QED
    BY <1>1, <2>1, LeastThere
<1>m. m \in Nat /\ Cardinality(Up(m)) >= k
  BY <1>2
<1> HIDE DEF T
<1>3. m # 0
  <2>1. \A j \in S : ~(j <= 0)
    BY <1>t
  <2>1a. Up(0) = {}
    BY <2>1
  <2>2. Cardinality(Up(0)) = 0
    BY <2>1a, FS_EmptySet
  <2> QED
    BY <1>m, <1>k, <2>2
<1>4. m - 1 \in Nat /\ m - 1 \notin T
  BY <1>2, <1>3, <1>m
<1>5. Cardinality(Up(m - 1)) < k
  <2>1. ~(Cardinality(Up(m - 1)) >= k)
    BY <1>4 DEF T
  <2>2. Cardinality(Up(m - 1)) \in Nat
    BY <1>0, <1>4
  <2> HIDE DEF Up
  <2> QED
    BY <1>k, <2>1, <2>2
<1>6. m \in S
  <2>1. ASSUME m \notin S PROVE Up(m) = Up(m - 1)
    <3>1. \A j \in S : j <= m <=> j <= m - 1
      BY <1>t, <1>m, <2>1
    <3> QED
      BY <3>1
  <2> QED
    BY <1>m, <1>5, <1>0, <2>1
<1>7. Up(m) = Up(m - 1) \cup {m} /\ m \notin Up(m - 1)
  <2>1. \A j \in S : j <= m <=> (j <= m - 1 \/ j = m)
    BY <1>t, <1>m
  <2>2. ~(m <= m - 1)
    BY <1>m
  <2>3. Up(m) = Up(m - 1) \cup {m}
    <3>1. \A j : j \in Up(m) <=> j \in Up(m - 1) \cup {m}
      BY <1>6, <1>m, <2>1
    <3> QED
      BY <3>1, Zenon
  <2> QED
    BY <2>2, <2>3
<1>8. Cardinality(Up(m)) = Cardinality(Up(m - 1)) + 1
  BY <1>0, <1>4, <1>7, FS_AddElement
<1>9. Cardinality(Up(m)) = k
  <2>1. Cardinality(Up(m)) \in Nat /\ Cardinality(Up(m - 1)) \in Nat
    BY <1>0, <1>m, <1>4
  <2> HIDE DEF Up
  <2> QED
    BY <1>k, <1>m, <2>1, <1>5, <1>8
<1> QED
  BY <1>6, <1>9 DEF Nth

\* Stepping through the first N numbers gives a sequence of states.
Steps(s, N, S, start, step) ==
    /\ s \in [0 .. N -> S]
    /\ s[0] = start
    /\ \A n \in 1 .. N : s[n] = step[n][s[n - 1]]

LEMMA Iterated ==
    ASSUME NEW S, NEW N \in Nat, NEW start \in S, NEW step \in [1 .. N -> [S -> S]]
    PROVE  \E s : Steps(s, N, S, start, step)
<1> DEFINE Upto(m, s) == s[0] = start /\ \A n \in 1 .. m : s[n] = step[n][s[n - 1]]
           Reached(m) == \E s \in [0 .. m -> S] : Upto(m, s)
           Bad == {m \in Nat : m <= N /\ ~Reached(m)}
<1>1. SUFFICES ASSUME N \in Bad PROVE FALSE
  BY DEF Steps
<1>2. PICK m \in Bad : \A i \in Bad : m <= i
  <2>1. Bad \in SUBSET Nat /\ Bad # {}
    BY <1>1
  <2> HIDE DEF Bad
  <2> QED
    BY <2>1, LeastThere
<1>3. m \in Nat /\ m <= N /\ ~Reached(m)
  BY <1>2
<1>4. m # 0
  <2>1. [n \in 0 .. 0 |-> start] \in [0 .. 0 -> S] /\ Upto(0, [n \in 0 .. 0 |-> start])
    OBVIOUS
  <2> QED
    BY <1>3, <2>1
<1>5. PICK s \in [0 .. m - 1 -> S] : Upto(m - 1, s)
  <2>1. m - 1 \in Nat /\ m - 1 < m /\ m - 1 <= N
    BY <1>3, <1>4
  <2>2. m - 1 \notin Bad
    <3>1. ~(m <= m - 1)
      BY <1>3
    <3> HIDE DEF Bad
    <3> QED
      BY <1>2, <3>1
  <2>3. Reached(m - 1)
    BY <2>1, <2>2
  <2> QED
    BY <2>3
<1> DEFINE t == [n \in 0 .. m |-> IF n = m THEN step[m][s[m - 1]] ELSE s[n]]
<1>6. t \in [0 .. m -> S]
  <2>1. m \in 1 .. N /\ m - 1 \in 0 .. m - 1
    BY <1>3, <1>4
  <2>2. step[m][s[m - 1]] \in S
    BY <2>1
  <2>3. \A n \in 0 .. m : n # m => n \in 0 .. m - 1
    BY <1>3
  <2> QED
    BY <2>2, <2>3
<1>7. Upto(m, t)
  <2>1. t[0] = start
    BY <1>3, <1>4, <1>5
  <2>2. ASSUME NEW n \in 1 .. m PROVE t[n] = step[n][t[n - 1]]
    <3>1. n - 1 \in 0 .. m /\ n - 1 # m /\ n \in 0 .. m
      BY <1>3
    <3>2. t[n - 1] = s[n - 1]
      BY <3>1
    <3>3. n # m => n \in 1 .. m - 1
      BY <1>3
    <3> QED
      BY <1>5, <3>1, <3>2, <3>3
  <2> QED
    BY <2>1, <2>2
<1> QED
  BY <1>3, <1>6, <1>7

\* A total is the last of the sums it goes through.
LEMMA TotalSums ==
    ASSUME NEW N \in Nat, NEW values, values \in [1 .. N -> Int \cup {None}]
    PROVE  \E s \in [0 .. N -> Int] :
              /\ s[0] = 0
              /\ \A n \in 1 .. N : s[n] = s[n - 1] + (IF values[n] = None THEN 0 ELSE values[n])
              /\ Total(values) = s[N]
<1> DEFINE v == [n \in 1 .. N |-> IF values[n] = None THEN 0 ELSE values[n]]
           step == [n \in 1 .. N |-> [x \in Int |-> x + v[n]]]
           Sum(f) == f = [n \in 0 .. N |->
                            IF n = 0 THEN 0
                            ELSE f[n - 1] + (IF values[n] = None THEN 0 ELSE values[n])]
           f == CHOOSE f : Sum(f)
<1>0. v \in [1 .. N -> Int]
  OBVIOUS
<1>v. \A n \in 1 .. N : v[n] = IF values[n] = None THEN 0 ELSE values[n]
  OBVIOUS
<1>L. Len(values) = N
  <2>1. values = [i \in 1 .. N |-> values[i]]
    OBVIOUS
  <2> QED
    BY <2>1, LenOfFunction
<1> HIDE DEF v
<1>1. step \in [1 .. N -> [Int -> Int]]
  BY <1>0
<1>2. PICK s : Steps(s, N, Int, 0, step)
  <2>1. 0 \in Int
    OBVIOUS
  <2> HIDE DEF step
  <2> QED
    BY <1>1, <2>1, Iterated
<1>3. /\ s \in [0 .. N -> Int]
      /\ s[0] = 0
      /\ \A n \in 1 .. N : s[n] = step[n][s[n - 1]]
  BY <1>2 DEF Steps
<1>4. ASSUME NEW n \in 1 .. N PROVE s[n] = s[n - 1] + v[n]
  <2>1. n - 1 \in 0 .. N
    OBVIOUS
  <2>2. s[n - 1] \in Int
    BY <1>3, <2>1
  <2> QED
    BY <1>3, <2>2
<1>5. Sum(s)
  <2>1. s = [n \in 0 .. N |-> s[n]]
    BY <1>3
  <2>2. \A n \in 0 .. N : n # 0 => n \in 1 .. N
    OBVIOUS
  <2> QED
    BY <1>3, <1>4, <1>v, <2>1, <2>2
<1>6. Total(values) = f[N]
  BY <1>L DEF Total
<1>7. Sum(f)
  BY <1>5
<1> HIDE DEF f
<1>8. /\ DOMAIN f = 0 .. N
      /\ f[0] = 0
      /\ \A n \in 1 .. N : f[n] = f[n - 1] + v[n]
  BY <1>7, <1>v
<1>9. \A n \in 0 .. N : f[n] \in Int
  <2> DEFINE Bad == {n \in Nat : n <= N /\ f[n] \notin Int}
  <2>1. SUFFICES ASSUME Bad # {} PROVE FALSE
    OBVIOUS
  <2>2. PICK m \in Bad : \A i \in Bad : m <= i
    <3>1. Bad \in SUBSET Nat
      OBVIOUS
    <3> HIDE DEF Bad
    <3> QED
      BY <2>1, <3>1, LeastThere
  <2>3. m \in 1 .. N /\ m - 1 \in Nat /\ m - 1 <= N /\ ~(m <= m - 1) /\ f[m] \notin Int
    BY <1>8
  <2>4. m - 1 \notin Bad
    <3> HIDE DEF Bad
    <3> QED
      BY <2>2, <2>3
  <2>5. f[m - 1] \in Int /\ v[m] \in Int
    BY <1>0, <2>3, <2>4
  <2> QED
    BY <1>8, <2>3, <2>5
<1> QED
  <2>1. f = [n \in 0 .. N |-> f[n]]
    BY <1>7
  <2>2. f \in [0 .. N -> Int]
    BY <1>9, <2>1
  <2> QED
    BY <1>6, <1>8, <1>v, <2>2

----------------------------------------------------------------------------
(***************************************************************************)
(* Verdicts.                                                               *)
(***************************************************************************)

\* A value that arrives can decide what was not decided and overturns nothing
\* that was: so missing data never turns "no" into "yes" or back, however the
\* constraints are nested (scoring-engine.ts, holds).
THEOREM DecidedStaysDecided ==
    ASSUME NEW S, NEW f \in [S -> Verdict], NEW g \in [S -> Verdict],
           \A i \in S : Survives(f[i], g[i])
    PROVE  /\ Survives(AnyOf({f[i] : i \in S}), AnyOf({g[i] : i \in S}))
           /\ Survives(AllOf({f[i] : i \in S}), AllOf({g[i] : i \in S}))
           /\ \A i \in S : Survives(Not(f[i]), Not(g[i]))
<1>1. Survives(AnyOf({f[i] : i \in S}), AnyOf({g[i] : i \in S}))
  <2>1. ("yes" \in {f[i] : i \in S}) => ("yes" \in {g[i] : i \in S})
    BY DEF Survives
  <2>2. ASSUME "yes" \notin {f[i] : i \in S}, "unknown" \notin {f[i] : i \in S}
        PROVE  "yes" \notin {g[i] : i \in S} /\ "unknown" \notin {g[i] : i \in S}
    <3>1. \A i \in S : f[i] = "no" /\ g[i] = "no"
      BY <2>2 DEF Survives, Verdict
    <3> QED
      BY <3>1
  <2> QED
    BY <2>1, <2>2 DEF AnyOf, Survives
<1>2. Survives(AllOf({f[i] : i \in S}), AllOf({g[i] : i \in S}))
  <2>1. ("no" \in {f[i] : i \in S}) => ("no" \in {g[i] : i \in S})
    BY DEF Survives
  <2>2. ASSUME "no" \notin {f[i] : i \in S}, "unknown" \notin {f[i] : i \in S}
        PROVE  "no" \notin {g[i] : i \in S} /\ "unknown" \notin {g[i] : i \in S}
    <3>1. \A i \in S : f[i] = "yes" /\ g[i] = "yes"
      BY <2>2 DEF Survives, Verdict
    <3> QED
      BY <3>1
  <2> QED
    BY <2>1, <2>2 DEF AllOf, Survives
<1>3. \A i \in S : Survives(Not(f[i]), Not(g[i]))
  BY DEF Survives, Not, Verdict
<1> QED
  BY <1>1, <1>2, <1>3

\* To deny a choice is to deny each of its branches, undecided ones included
\* (scoring-engine.ts, holds).
THEOREM DenyingAChoice ==
    ASSUME NEW branches \in SUBSET Verdict
    PROVE  Not(AnyOf(branches)) = AllOf({Not(v) : v \in branches})
<1>1. "no" \in {Not(v) : v \in branches} <=> "yes" \in branches
  BY DEF Not, Verdict
<1>2. "unknown" \in {Not(v) : v \in branches} <=> "unknown" \in branches
  BY DEF Not, Verdict
<1> QED
  BY <1>1, <1>2 DEF Not, AnyOf, AllOf

----------------------------------------------------------------------------
(***************************************************************************)
(* Curves.                                                                 *)
(***************************************************************************)

LEMMA ClampIsScore ==
    ASSUME NEW value \in Int
    PROVE  Clamp01(value) \in Score
BY NormalizersAssumption DEF Clamp01, Score

LEMMA ShareIsScore ==
    ASSUME NEW n \in Int, NEW d \in Int, d > 0
    PROVE  Share(n, d) \in Score
<1>1. n * One \in Int /\ n * One # NaN /\ d # NaN
  <2>1. One \in Int
    BY NormalizersAssumption
  <2> QED
    BY <2>1, NormalizersAssumption
<1>2. Div(n * One, d) = (n * One) \div d
  BY <1>1 DEF Div
<1>3. (n * One) \div d \in Int
  BY <1>1
<1> QED
  BY <1>2, <1>3, ClampIsScore DEF Share

\* The parameters of a curve are numbers, and each curve reads its own.
Numeric(type, p) ==
    CASE type \in {"linear", "inverse"} -> p.from \in Int /\ p.to \in Int
      [] type = "trapezoid" -> {p.a, p.b, p.c, p.d} \subseteq Int
      [] type \in {"gaussian", "inverseGaussian"} -> p.center \in Int /\ p.sigma \in Int
      [] type = "step" ->
            /\ \E S : p.points \in Seq(S)
            /\ \A i \in DOMAIN p.points : p.points[i].at \in Int

LEMMA SquareIsThere ==
    ASSUME NEW x \in Int
    PROVE  Square(x) \in Nat
<1>1. x * x \in Int /\ x * x >= 0
  OBVIOUS
<1> QED
  BY <1>1 DEF Square

\* A bell is a score, or the quotient of two squares that are both 0.
LEMMA BellIsScore ==
    ASSUME NEW value \in Int, NEW p, p.center \in Int, p.sigma \in Int
    PROVE  /\ Gaussian(value, p) \in Score \cup {NaN}
           /\ Square(p.sigma) # 0 => Gaussian(value, p) \in Score
<1> DEFINE square == Square(p.sigma)
           far == Square(value - p.center)
<1>1. square \in Nat
  BY SquareIsThere
<1>2. far \in Nat
  <2>1. value - p.center \in Int
    OBVIOUS
  <2> HIDE DEF far
  <2> QED
    BY <2>1, SquareIsThere DEF far
<1>3. Gaussian(value, p) = Share(2 * square, 2 * square + far)
  BY DEF Gaussian
<1> HIDE DEF square, far
<1>4. 2 * square \in Nat /\ 2 * square + far \in Nat
  BY <1>1, <1>2
<1>5. CASE 2 * square + far > 0
  <2>1. Share(2 * square, 2 * square + far) \in Score
    BY <1>4, <1>5, ShareIsScore
  <2> QED
    BY <1>3, <2>1
<1>6. CASE ~(2 * square + far > 0)
  <2>1. square = 0 /\ far = 0
    BY <1>1, <1>2, <1>6
  <2>2. 0 * One = 0 /\ 0 # NaN
    BY NormalizersAssumption
  <2>3. Share(0, 0) = NaN
    BY <2>2 DEF Share, Div, Clamp01
  <2>4. 2 * square = 0 /\ 2 * square + far = 0
    BY <2>1
  <2>5. Gaussian(value, p) = NaN
    BY <1>3, <2>3, <2>4
  <2> QED
    BY <2>1, <2>5 DEF square
<1> QED
  BY <1>5, <1>6

LEMMA StepIsScore ==
    ASSUME NEW value \in Int, NEW p, CurveAccepts("step", p),
           Len(p.points) \in Nat, DOMAIN p.points = 1 .. Len(p.points)
    PROVE  Step(value, p) \in Score
<1> DEFINE passed == {i \in 1 .. Len(p.points) : \A j \in 1 .. i : p.points[j].at <= value}
<1>1. p.below \in Score /\ \A i \in DOMAIN p.points : p.points[i].value \in Score
  BY DEF CurveAccepts
<1>2. IsFiniteSet(1 .. Len(p.points)) /\ Cardinality(1 .. Len(p.points)) = Len(p.points)
  <2>1. 1 \in Int /\ Len(p.points) \in Int
    OBVIOUS
  <2>2. Cardinality(1 .. Len(p.points)) = IF 1 > Len(p.points) THEN 0 ELSE Len(p.points) - 1 + 1
    BY <2>1, FS_Interval, Zenon
  <2>3. IsFiniteSet(1 .. Len(p.points))
    BY <2>1, FS_Interval, Zenon
  <2> QED
    BY <2>2, <2>3
<1>3. IsFiniteSet(passed) /\ Cardinality(passed) <= Len(p.points) /\ Cardinality(passed) \in Nat
  BY <1>2, FS_Subset, FS_CardinalityType
<1>4. passed # {} => Cardinality(passed) # 0
  BY <1>3, FS_EmptySet
<1>5. passed # {} => Cardinality(passed) \in DOMAIN p.points
  BY <1>3, <1>4
<1> QED
  BY <1>1, <1>5 DEF Step

\* A curve whose parameters the schema of its kind accepts gives a score between
\* 0 and 1 for every value there can be: clamp01 never meets the result of a
\* division of zero by zero, which it throws at (normalizers, branded.ts:38-41).
\* The exception is a bell whose accepted sigma has a square of 0 in the machine's
\* arithmetic (gaussian.ts:19): it may give what clamp01 throws at.
THEOREM AcceptedCurvesScore ==
    ASSUME NEW type \in NormalizerCodes, NEW value \in Int, NEW p,
           CurveAccepts(type, p), Numeric(type, p)
    PROVE  /\ Normalize(type, value, p) \in Score \cup {NaN}
           /\ ~Vanishing(type, p) => Normalize(type, value, p) \in Score
<1>1. CASE type = "linear"
  <2>1. p.from \in Int /\ p.to \in Int /\ p.from < p.to
    BY <1>1 DEF CurveAccepts, Numeric
  <2>2. value - p.from \in Int /\ p.to - p.from \in Int /\ p.to - p.from > 0
    BY <2>1
  <2>3. Share(value - p.from, p.to - p.from) \in Score
    BY <2>2, ShareIsScore
  <2> QED
    BY <1>1, <2>3 DEF Normalize, Linear
<1>2. CASE type = "inverse"
  <2>1. p.from \in Int /\ p.to \in Int /\ p.from < p.to
    BY <1>2 DEF CurveAccepts, Numeric
  <2>2. p.to - value \in Int /\ p.to - p.from \in Int /\ p.to - p.from > 0
    BY <2>1
  <2>3. Share(p.to - value, p.to - p.from) \in Score
    BY <2>2, ShareIsScore
  <2> QED
    BY <1>2, <2>3 DEF Normalize, InverseLinear
<1>3. CASE type = "trapezoid"
  <2>1. {p.a, p.b, p.c, p.d} \subseteq Int
    BY <1>3 DEF Numeric
  <2>2. 0 \in Score /\ One \in Score
    BY NormalizersAssumption DEF Score
  <2>3. ASSUME ~(value < p.a), value < p.b PROVE Share(value - p.a, p.b - p.a) \in Score
    <3>1. value - p.a \in Int /\ p.b - p.a \in Int /\ p.b - p.a > 0
      BY <2>1, <2>3
    <3> QED
      BY <3>1, ShareIsScore
  <2>4. ASSUME ~(value <= p.c), value < p.d PROVE Share(p.d - value, p.d - p.c) \in Score
    <3>1. p.d - value \in Int /\ p.d - p.c \in Int /\ p.d - p.c > 0
      BY <2>1, <2>4
    <3> QED
      BY <3>1, ShareIsScore
  <2>5. Trapezoid(value, p) \in Score
    BY <2>2, <2>3, <2>4 DEF Trapezoid
  <2> QED
    BY <1>3, <2>5 DEF Normalize
<1>4. CASE type \in {"gaussian", "inverseGaussian"}
  <2>1. p.center \in Int /\ p.sigma \in Int
    BY <1>4 DEF Numeric
  <2> DEFINE bell == Gaussian(value, p)
  <2>2. bell \in Score \cup {NaN} /\ (~Vanishing(type, p) => bell \in Score)
    BY <1>4, <2>1, BellIsScore DEF Vanishing
  <2>3. NaN \notin Score /\ \A score \in Score : One - score \in Int
    BY NormalizersAssumption DEF Score
  <2>4. InverseGaussian(value, p) = IF bell = NaN THEN NaN ELSE Clamp01(One - bell)
    BY DEF InverseGaussian
  <2>5. Normalize(type, value, p) \in {bell, InverseGaussian(value, p)}
    BY <1>4 DEF Normalize
  <2> HIDE DEF bell
  <2>6. bell \in Score => One - bell \in Int /\ Clamp01(One - bell) \in Score
    BY <2>3, ClampIsScore
  <2> QED
    BY <2>2, <2>3, <2>4, <2>5, <2>6
<1>5. CASE type = "step"
  <2>1. Len(p.points) \in Nat /\ DOMAIN p.points = 1 .. Len(p.points)
    BY <1>5, LenProperties DEF Numeric
  <2>2. CurveAccepts("step", p)
    BY <1>5
  <2> QED
    BY <1>5, <2>1, <2>2, StepIsScore DEF Normalize
<1> QED
  BY <1>1, <1>2, <1>3, <1>4, <1>5 DEF NormalizerCodes

----------------------------------------------------------------------------
(***************************************************************************)
(* Directions.                                                             *)
(***************************************************************************)

\* The angle between two directions is one the dictionary takes for plausible,
\* whichever way round and however far beyond a turn they are
\* (derived-metric.registry.ts, angleBetween).
THEOREM AngleIsPlausible ==
    ASSUME NEW first \in Int, NEW second \in Int
    PROVE  AngleBetween(first, second) \in 0 .. 180
<1> DEFINE turned == first - second + 180
<1>1. turned \in Int
  OBVIOUS
<1>2. Rem(turned, 360) \in -359 .. 359
  BY <1>1 DEF Rem
<1>3. Rem(Rem(turned, 360) + 360, 360) \in 0 .. 359
  <2> DEFINE once == Rem(turned, 360) + 360
  <2>1. once \in 1 .. 719
    BY <1>2
  <2> HIDE DEF once
  <2>2. Rem(once, 360) \in 0 .. 359
    BY <2>1, SMTT(30) DEF Rem
  <2> QED
    BY <2>2 DEF once
<1> QED
  BY <1>3 DEF AngleBetween, Abs

\* A direction is some whole turns and what is less than one.
LEMMA WholeTurns ==
    ASSUME NEW z \in Int
    PROVE  \E q \in Int, r \in 0 .. 359 : z = 360 * q + r /\ r = z % 360
<1>1. z \div 360 \in Int /\ z % 360 \in 0 .. 359
  OBVIOUS
<1>2. z = 360 * (z \div 360) + (z % 360)
  OBVIOUS
<1> QED
  BY <1>1, <1>2

\* It is the same seen from either of them, although the remainder it is made
\* of keeps the sign of what is divided (derived-metric.registry.ts, angleBetween).
THEOREM AngleIsSymmetric ==
    ASSUME NEW first \in Int, NEW second \in Int
    PROVE  AngleBetween(first, second) = AngleBetween(second, first)
<1> DEFINE Turn(x) == Rem(Rem(x + 180, 360) + 360, 360)
<1>1. \A x \in Int : Turn(x) = (x + 180) % 360
  <2> TAKE x \in Int
  <2>1. CASE x + 180 >= 0
    <3>1. Rem(x + 180, 360) = (x + 180) % 360
      BY <2>1 DEF Rem
    <3>2. (x + 180) % 360 \in 0 .. 359
      OBVIOUS
    <3> QED
      BY <3>1, <3>2 DEF Rem
  <2>2. CASE x + 180 < 0
    <3>1. Rem(x + 180, 360) = 0 - ((0 - (x + 180)) % 360)
      BY <2>2 DEF Rem
    <3>2. (0 - (x + 180)) % 360 \in 0 .. 359
      OBVIOUS
    <3> QED
      BY <3>1, <3>2 DEF Rem
  <2> QED
    BY <2>1, <2>2
<1> DEFINE x == first - second
           y == second - first
<1>2. x \in Int /\ y \in Int /\ y = 0 - x
  OBVIOUS
<1>3. AngleBetween(first, second) = Abs(Turn(x) - 180)
      /\ AngleBetween(second, first) = Abs(Turn(y) - 180)
  BY DEF AngleBetween
<1> DEFINE u == (x + 180) % 360
           v == (y + 180) % 360
<1>4. PICK q \in Int : x + 180 = 360 * q + u /\ u \in 0 .. 359
  <2>1. x + 180 \in Int
    BY <1>2
  <2> QED
    BY <2>1, WholeTurns
<1>5. PICK r \in Int : y + 180 = 360 * r + v /\ v \in 0 .. 359
  <2>1. y + 180 \in Int
    BY <1>2
  <2> QED
    BY <2>1, WholeTurns
<1> HIDE DEF Turn, x, y
<1>6. Turn(x) = u /\ Turn(y) = v
  <2>1. Turn(x) = u
    BY <1>1, <1>2
  <2>2. Turn(y) = v
    BY <1>1, <1>2
  <2> QED
    BY <2>1, <2>2, Zenon
<1> HIDE DEF u, v
<1> DEFINE n == q + r
<1>7. n \in Int /\ 360 = 360 * n + u + v
  <2>1. 360 = (x + 180) + (y + 180)
    BY <1>2
  <2> QED
    BY <2>1, <1>2, <1>4, <1>5
<1> HIDE DEF n
<1>8. u + v = 360 \/ (u = 0 /\ v = 0)
  <2>1. u \in 0 .. 359 /\ v \in 0 .. 359
    BY <1>4, <1>5
  <2>2. n = 0 \/ n = 1 \/ n >= 2 \/ n <= -1
    BY <1>7
  <2>3. CASE n = 0
    BY <1>7, <2>1, <2>3
  <2>4. CASE n = 1
    BY <1>7, <2>1, <2>4
  <2>5. CASE n >= 2
    BY <1>7, <2>1, <2>5
  <2>6. CASE n <= -1
    BY <1>7, <2>1, <2>6
  <2> QED
    BY <2>2, <2>3, <2>4, <2>5, <2>6
<1> QED
  BY <1>3, <1>4, <1>5, <1>6, <1>8 DEF Abs

----------------------------------------------------------------------------
(***************************************************************************)
(* Series.                                                                 *)
(***************************************************************************)

\* A channel that keeps some of its slots keeps them in all of its metrics, so
\* that it still lines up (slice.ts, channel).
THEOREM KeptSlotsLineUp ==
    ASSUME NEW channel, NEW n \in Nat, NEW indexes \in SUBSET (1 .. n)
    PROVE  /\ LinesUp(KeepIndexes(channel, indexes))
           /\ DOMAIN KeepIndexes(channel, indexes).values = DOMAIN channel.values
           /\ \A code \in DOMAIN channel.values, k \in 1 .. Cardinality(indexes) :
                 /\ Nth(indexes, k) \in indexes
                 /\ KeepIndexes(channel, indexes).time[k] = channel.time[Nth(indexes, k)]
                 /\ KeepIndexes(channel, indexes).values[code][k] =
                       channel.values[code][Nth(indexes, k)]
<1> DEFINE size == Cardinality(indexes)
           kept == KeepIndexes(channel, indexes)
<1>0. size \in Nat
  BY PositionsAreFinite
<1>1. \A code \in DOMAIN channel.values : kept.values[code] = Kept(channel.values[code], indexes)
  BY DEF KeepIndexes
<1>2. kept.time = Kept(channel.time, indexes)
  BY DEF KeepIndexes
<1>3. DOMAIN kept.values = DOMAIN channel.values
  BY DEF KeepIndexes
<1>4. ASSUME NEW s PROVE /\ Kept(s, indexes) = [k \in 1 .. size |-> s[Nth(indexes, k)]]
                         /\ Len(Kept(s, indexes)) = size
  <2>1. Kept(s, indexes) = [k \in 1 .. size |-> s[Nth(indexes, k)]]
    BY DEF Kept
  <2> QED
    BY <1>0, <2>1, LenOfFunction
<1> HIDE DEF kept, size
<1>5. LinesUp(kept)
  BY <1>1, <1>2, <1>3, <1>4 DEF LinesUp
<1>6. ASSUME NEW s, NEW k \in 1 .. size PROVE Kept(s, indexes)[k] = s[Nth(indexes, k)]
  BY <1>4
<1>7. \A k \in 1 .. size : Nth(indexes, k) \in indexes
  BY NthIsThere DEF size
<1> QED
  BY <1>1, <1>2, <1>3, <1>5, <1>6, <1>7 DEF kept, size

\* Two channels that line up, and that merge, give one that lines up and has
\* every value of either where it was (merge.ts).
THEOREM MergedChannelsLineUp ==
    ASSUME NEW left, NEW right, LinesUp(left), LinesUp(right),
           MergeChannel(left, right).ok
    PROVE  LET merged == MergeChannel(left, right).value
           IN  /\ LinesUp(merged)
               /\ \A code \in DOMAIN merged.values :
                     \/ /\ code \in DOMAIN left.values
                        /\ merged.values[code] = left.values[code]
                     \/ /\ code \in DOMAIN right.values
                        /\ merged.values[code] = right.values[code]
<1> DEFINE merged == MergeChannel(left, right).value
<1>1. CASE right.time = <<>>
  BY <1>1 DEF MergeChannel, Ok
<1>2. CASE right.time # <<>> /\ left.time = <<>>
  BY <1>2 DEF MergeChannel, Ok
<1>3. CASE right.time # <<>> /\ left.time # <<>>
  <2>1. left.time = right.time /\ merged.time = left.time
    BY <1>3 DEF MergeChannel, Ok, Err
  <2>2. /\ DOMAIN merged.values = DOMAIN left.values \cup DOMAIN right.values
        /\ \A code \in DOMAIN merged.values :
              merged.values[code] = IF code \in DOMAIN left.values THEN left.values[code]
                                    ELSE right.values[code]
    BY <1>3 DEF MergeChannel, Ok, Err
  <2> HIDE DEF merged
  <2>3. LinesUp(merged)
    BY <2>1, <2>2 DEF LinesUp
  <2> QED
    BY <2>2, <2>3 DEF merged
<1> QED
  BY <1>1, <1>2, <1>3

----------------------------------------------------------------------------
(**************************************************************************)
(* Sound series: every metric of a channel has a slot for every slot of the *)
(* axis, and cutting and merging keep it so.                               *)
(**************************************************************************)

\* A channel whose metrics have one value, or none, for every slot of its axis.
SoundChannel(channel) ==
    /\ channel = [time |-> channel.time, values |-> channel.values]
    /\ Len(channel.time) \in Nat
    /\ channel.time = [i \in 1 .. Len(channel.time) |-> channel.time[i]]
    /\ channel.values = [code \in DOMAIN channel.values |-> channel.values[code]]
    /\ \A code \in DOMAIN channel.values :
          channel.values[code] \in [1 .. Len(channel.time) -> Int \cup {None}]

\* Where a series came from.
GridNode == [capability : Capability, elevation : Int, metrics : SUBSET (HourlyMetrics \cup DailyMetrics)]

\* A series every function of the engine can be given.
SoundSeries(series) ==
    /\ DOMAIN series = {"hourly", "daily", "provenance"}
    /\ SoundChannel(series.hourly)
    /\ SoundChannel(series.daily)
    /\ series.provenance \in Seq(GridNode)
    /\ series.provenance # <<>>

\* Cutting a channel leaves it sound, and with its metrics.
LEMMA KeptIsSound ==
    ASSUME NEW channel, SoundChannel(channel),
           NEW indexes \in SUBSET (1 .. Len(channel.time))
    PROVE  /\ SoundChannel(KeepIndexes(channel, indexes))
           /\ DOMAIN KeepIndexes(channel, indexes).values = DOMAIN channel.values
<1> DEFINE size == Cardinality(indexes)
           kept == KeepIndexes(channel, indexes)
           n == Len(channel.time)
<1>0. n \in Nat /\ size \in Nat
  BY PositionsAreFinite DEF SoundChannel
<1>1. \A k \in 1 .. size : Nth(indexes, k) \in 1 .. n
  BY <1>0, NthIsThere
<1>2. kept = [time |-> [k \in 1 .. size |-> channel.time[Nth(indexes, k)]],
              values |-> [code \in DOMAIN channel.values |->
                            [k \in 1 .. size |-> channel.values[code][Nth(indexes, k)]]]]
  BY DEF KeepIndexes, Kept
<1>3. Len(kept.time) = size
  <2>1. kept.time = [k \in 1 .. size |-> kept.time[k]]
    BY <1>2
  <2> QED
    BY <1>0, <2>1, LenOfFunction
<1>4. ASSUME NEW code \in DOMAIN channel.values
      PROVE  kept.values[code] \in [1 .. size -> Int \cup {None}]
  <2>1. channel.values[code] \in [1 .. n -> Int \cup {None}]
    BY DEF SoundChannel
  <2> HIDE DEF size, kept, n
  <2>2. kept.values[code] = [k \in 1 .. size |-> channel.values[code][Nth(indexes, k)]]
    BY <1>2
  <2> QED
    BY <1>1, <2>1, <2>2
<1>5. /\ kept = [time |-> kept.time, values |-> kept.values]
      /\ kept.time = [k \in 1 .. size |-> kept.time[k]]
      /\ kept.values = [code \in DOMAIN channel.values |-> kept.values[code]]
  BY <1>2
<1> HIDE DEF kept, size
<1> QED
  BY <1>0, <1>3, <1>4, <1>5 DEF SoundChannel, kept, size

\* So does cutting a series to its first days (slice-series.ts).
LEMMA SliceIsSound ==
    ASSUME NEW series, SoundSeries(series), NEW n \in Nat
    PROVE  LET sliced == SliceToDays(series, n)
           IN  /\ SoundSeries(sliced)
               /\ DOMAIN sliced.hourly.values = DOMAIN series.hourly.values
               /\ DOMAIN sliced.daily.values = DOMAIN series.daily.values
<1> DEFINE sliced == SliceToDays(series, n)
           kept == {DistinctDates(LeadingAxis(series))[i] : i \in 1 .. n}
           cut == [series EXCEPT !.hourly = KeepDates(@, kept), !.daily = KeepDates(@, kept)]
<1>1. sliced = series \/ sliced = cut
  BY DEF SliceToDays
<1>2. ASSUME NEW channel, SoundChannel(channel), NEW dates
      PROVE  /\ SoundChannel(KeepDates(channel, dates))
             /\ DOMAIN KeepDates(channel, dates).values = DOMAIN channel.values
  <2>1. IndexesOn(channel.time, dates) \in SUBSET (1 .. Len(channel.time))
    BY <1>2 DEF IndexesOn, SoundChannel
  <2> QED
    BY <1>2, <2>1, KeptIsSound DEF KeepDates
<1> HIDE DEF kept
<1>3. /\ DOMAIN cut = {"hourly", "daily", "provenance"}
      /\ cut.hourly = KeepDates(series.hourly, kept)
      /\ cut.daily = KeepDates(series.daily, kept)
      /\ cut.provenance = series.provenance
  BY DEF SoundSeries
<1> HIDE DEF cut
<1>4. SoundSeries(cut) /\ DOMAIN cut.hourly.values = DOMAIN series.hourly.values
      /\ DOMAIN cut.daily.values = DOMAIN series.daily.values
  BY <1>2, <1>3 DEF SoundSeries
<1> HIDE DEF sliced
<1>5. SoundSeries(sliced) /\ DOMAIN sliced.hourly.values = DOMAIN series.hourly.values
      /\ DOMAIN sliced.daily.values = DOMAIN series.daily.values
  BY <1>1, <1>4
<1> QED
  BY <1>5 DEF sliced

\* And merging two (merge.ts).
LEMMA MergeIsSound ==
    ASSUME NEW first, NEW next, SoundSeries(first), SoundSeries(next),
           MergeSeries(first, next).ok
    PROVE  SoundSeries(MergeSeries(first, next).value)
<1> DEFINE merged == MergeSeries(first, next).value
<1>1. ASSUME NEW left, NEW right, SoundChannel(left), SoundChannel(right),
             MergeChannel(left, right).ok
      PROVE  SoundChannel(MergeChannel(left, right).value)
  <2> DEFINE both == MergeChannel(left, right).value
  <2>1. CASE right.time = <<>> \/ left.time = <<>>
    <3>1. both = left \/ both = right
      BY <2>1 DEF MergeChannel, Ok
    <3> QED
      BY <1>1, <3>1
  <2>2. CASE right.time # <<>> /\ left.time # <<>>
    <3>1. left.time = right.time
      BY <1>1, <2>2 DEF MergeChannel, Err
    <3>2. both = [time |-> left.time,
                  values |-> [code \in DOMAIN left.values \cup DOMAIN right.values |->
                                IF code \in DOMAIN left.values THEN left.values[code]
                                ELSE right.values[code]]]
      BY <1>1, <2>2 DEF MergeChannel, Err, Ok
    <3> HIDE DEF both
    <3>3. /\ both = [time |-> both.time, values |-> both.values]
          /\ both.time = left.time
          /\ both.values = [code \in DOMAIN both.values |-> both.values[code]]
      BY <3>2
    <3>4. ASSUME NEW code \in DOMAIN both.values
          PROVE  \/ code \in DOMAIN left.values /\ both.values[code] = left.values[code]
                 \/ code \in DOMAIN right.values /\ both.values[code] = right.values[code]
      BY <3>2
    <3>5. SoundChannel(both)
      BY <1>1, <3>1, <3>3, <3>4 DEF SoundChannel
    <3> QED
      BY <3>5 DEF both
  <2> QED
    BY <2>1, <2>2
<1>2. /\ MergeChannel(first.hourly, next.hourly).ok
      /\ MergeChannel(first.daily, next.daily).ok
      /\ merged = [hourly |-> MergeChannel(first.hourly, next.hourly).value,
                   daily |-> MergeChannel(first.daily, next.daily).value,
                   provenance |-> first.provenance \o next.provenance]
  BY DEF MergeSeries, Ok
<1> HIDE DEF merged
<1>3. SoundChannel(merged.hourly) /\ SoundChannel(merged.daily)
  BY <1>1, <1>2 DEF SoundSeries
<1>4. merged.provenance \in Seq(GridNode) /\ merged.provenance # <<>>
  <2>1. first.provenance \in Seq(GridNode) /\ next.provenance \in Seq(GridNode)
        /\ first.provenance # <<>>
    BY DEF SoundSeries
  <2>2. ASSUME NEW p \in Seq(GridNode), NEW q \in Seq(GridNode), p # <<>>
        PROVE  p \o q \in Seq(GridNode) /\ p \o q # <<>>
    <3>1. Len(p) \in Nat /\ Len(q) \in Nat /\ Len(p) # 0
      BY <2>2, LenProperties, EmptySeq
    <3>2. p \o q \in Seq(GridNode) /\ Len(p \o q) = Len(p) + Len(q)
      BY ConcatProperties
    <3>3. Len(p \o q) # Len(<<>>)
      <4>1. Len(<<>>) = 0
        BY EmptySeq
      <4> QED
        BY <3>1, <3>2, <4>1
    <3> QED
      BY <3>2, <3>3
  <2> QED
    BY <1>2, <2>1, <2>2
<1>5. DOMAIN merged = {"hourly", "daily", "provenance"}
  BY <1>2
<1>6. SoundSeries(merged)
  BY <1>3, <1>4, <1>5 DEF SoundSeries
<1> QED
  BY <1>6 DEF merged

----------------------------------------------------------------------------
(**************************************************************************)
(* What a source makes of an answer is a sound series with everything that *)
(* was asked for.                                                          *)
(**************************************************************************)

\* What may stand in an array of a host.
Slot == Int \cup {None, Text}

\* What a variable becomes, where it becomes something.
LEMMA ConvertedSlots ==
    ASSUME NEW code, NEW label, NEW slots \in Seq(Slot), ConvertSeries(code, label, slots).ok
    PROVE  LET kept == ConvertSeries(code, label, slots).value
               unit == Dictionary[code].canonicalUnit
           IN  /\ kept \in [1 .. Len(slots) -> Int \cup {None}]
               /\ \/ label = AbsentUnit /\ \A i \in 1 .. Len(slots) : kept[i] = None
                  \/ /\ label \in Labels
                     /\ \A i \in 1 .. Len(slots) :
                           LET sent == slots[i]
                           IN  \/ sent = None /\ kept[i] = None
                               \/ /\ sent \in Int
                                  /\ \/ Unit(label) = unit /\ kept[i] = sent
                                     \/ /\ Unit(label) = "km/h" /\ unit = "m/s"
                                        /\ kept[i] = (sent * 5) \div 18
                                     \/ /\ Unit(label) = "m" /\ unit = "km"
                                        /\ kept[i] = sent \div 1000
<1> DEFINE N == Len(slots)
           kept == ConvertSeries(code, label, slots).value
           unit == Dictionary[code].canonicalUnit
           converted == [i \in 1 .. N |-> ConvertToCanonical(SourceUnitByLabel[label], unit, slots[i])]
<1>0. N \in Nat /\ \A i \in 1 .. N : slots[i] \in Slot
  BY ElementOfSeq, LenProperties
<1>1. CASE label = AbsentUnit
  <2>1. kept = [i \in 1 .. N |-> None]
    BY <1>1 DEF ConvertSeries, Ok
  <2> HIDE DEF kept
  <2>2. kept \in [1 .. N -> Int \cup {None}] /\ \A i \in 1 .. N : kept[i] = None
    BY <2>1
  <2> QED
    BY <1>1, <2>2 DEF kept
<1>2. CASE label # AbsentUnit
  <2>1. /\ label \in Labels /\ ~Contains(slots, Text)
        /\ \A i \in 1 .. N : converted[i].ok
        /\ kept = [i \in 1 .. N |-> converted[i].value]
    <3>1. DOMAIN SourceUnitByLabel = Labels
      BY DEF SourceUnitByLabel
    <3> QED
      BY <1>2, <3>1 DEF ConvertSeries, Ok, Err
  <2>2. SourceUnitByLabel[label] = Unit(label)
    BY <2>1 DEF SourceUnitByLabel
  <2> HIDE DEF kept
  <2>3. ASSUME NEW i \in 1 .. N
        PROVE  \/ slots[i] = None /\ kept[i] = None
               \/ /\ slots[i] \in Int
                  /\ \/ Unit(label) = unit /\ kept[i] = slots[i]
                     \/ Unit(label) = "km/h" /\ unit = "m/s" /\ kept[i] = (slots[i] * 5) \div 18
                     \/ Unit(label) = "m" /\ unit = "km" /\ kept[i] = slots[i] \div 1000
    <3>1. slots[i] \in Int \cup {None}
      BY <1>0, <2>1 DEF Slot, Contains
    <3>2. kept[i] = converted[i].value /\ converted[i].ok
      BY <2>1
    <3>3. converted[i] = ConvertToCanonical(Unit(label), unit, slots[i])
      BY <2>2
    <3> HIDE DEF converted, unit
    <3>4. CASE slots[i] = None
      BY <3>2, <3>3, <3>4 DEF ConvertToCanonical, Ok
    <3>5. CASE slots[i] # None
      <4>1. slots[i] \in Int
        BY <3>1, <3>5
      <4> HIDE DEF N
      <4>2. \/ Unit(label) = unit /\ converted[i].value = slots[i]
            \/ Unit(label) = "km/h" /\ unit = "m/s" /\ converted[i].value = (slots[i] * 5) \div 18
            \/ Unit(label) = "m" /\ unit = "km" /\ converted[i].value = slots[i] \div 1000
        BY <3>2, <3>3, <3>5 DEF ConvertToCanonical, Ok, Err
      <4> QED
        BY <3>2, <4>1, <4>2
    <3> QED
      BY <3>4, <3>5
  <2>4. kept \in [1 .. N -> Int \cup {None}]
    <3> HIDE DEF converted
    <3>1. \A i \in 1 .. N : kept[i] = converted[i].value
      BY <2>1
    <3>2. ASSUME NEW i \in 1 .. N PROVE kept[i] \in Int \cup {None}
      <4>1. slots[i] \in Int => (slots[i] * 5) \div 18 \in Int /\ slots[i] \div 1000 \in Int
        OBVIOUS
      <4> QED
        BY <2>3, <4>1, SMTT(30)
    <3>3. [i \in 1 .. N |-> converted[i].value] \in [1 .. N -> Int \cup {None}]
      BY <3>1, <3>2
    <3> QED
      BY <2>1, <3>3
  <2> QED
    BY <2>1, <2>3, <2>4 DEF kept
<1> QED
  BY <1>1, <1>2

\* A block of an answer that validates becomes a sound channel, of the metrics
\* the mapping knows of those the block declares.
LEMMA MappedIsSound ==
    ASSUME NEW block, IsBlock(block), ChannelSound(block), NEW metrics, NEW zone,
           MapChannel(block, metrics, zone).ok
    PROVE  LET channel == MapChannel(block, metrics, zone).value
           IN  /\ SoundChannel(channel)
               /\ DOMAIN channel.values \subseteq metrics
               /\ \/ LeftOut(block) /\ channel = EmptyChannel
                  \/ /\ ~LeftOut(block)
                     /\ Len(channel.time) = Len(block.time)
                     /\ \A v \in DOMAIN channel.values :
                           /\ v \in DOMAIN block.units /\ v \in DOMAIN block.arrays
                           /\ block.arrays[v] \in Seq(Slot)
                           /\ Len(block.arrays[v]) = Len(block.time)
                           /\ ConvertSeries(v, block.units[v], block.arrays[v]).ok
                           /\ channel.values[v] =
                                 ConvertSeries(v, block.units[v], block.arrays[v]).value
<1> DEFINE channel == MapChannel(block, metrics, zone).value
           present == metrics \cap DOMAIN block.units \cap DOMAIN block.arrays
           mapped == [v \in present |-> ConvertSeries(v, block.units[v], block.arrays[v])]
<1>1. CASE LeftOut(block)
  <2>1. channel = EmptyChannel
    BY <1>1 DEF MapChannel, Ok
  <2>2. SoundChannel(EmptyChannel) /\ DOMAIN EmptyChannel.values = {}
    <3>1. Len(<<>>) = 0 /\ DOMAIN <<>> = {} /\ <<>> = [i \in {} |-> <<>>[i]]
      BY EmptySeq
    <3>2. /\ EmptyChannel.time = <<>> /\ EmptyChannel.values = <<>>
          /\ EmptyChannel = [time |-> EmptyChannel.time, values |-> EmptyChannel.values]
      BY DEF EmptyChannel
    <3>3. 1 .. 0 = {}
      OBVIOUS
    <3> QED
      BY <3>1, <3>2, <3>3 DEF SoundChannel
  <2> HIDE DEF channel
  <2>3. SoundChannel(channel) /\ DOMAIN channel.values \subseteq metrics
    BY <2>1, <2>2
  <2> QED
    BY <1>1, <2>1, <2>3 DEF channel
<1>2. CASE ~LeftOut(block)
  <2>1. /\ \A v \in present : mapped[v].ok
        /\ channel = [time |-> [i \in 1 .. Len(block.time) |-> block.time[i] \o zone],
                      values |-> [v \in present |-> mapped[v].value]]
    BY <1>2 DEF MapChannel, Ok, Err
  <2> HIDE DEF channel
  <2>2. Len(block.time) \in Nat
    BY LenProperties DEF IsBlock, IsSequence
  <2>3. /\ channel = [time |-> channel.time, values |-> channel.values]
        /\ channel.time = [i \in 1 .. Len(block.time) |-> channel.time[i]]
        /\ channel.values = [v \in present |-> channel.values[v]]
    BY <2>1
  <2>4. Len(channel.time) = Len(block.time)
    <3>1. channel.time = [i \in 1 .. Len(block.time) |-> channel.time[i]]
      BY <2>1
    <3> QED
      BY <2>2, <3>1, LenOfFunction
  <2>5. ASSUME NEW v \in present
        PROVE  /\ v \in DOMAIN block.units /\ v \in DOMAIN block.arrays
               /\ block.arrays[v] \in Seq(Slot)
               /\ Len(block.arrays[v]) = Len(block.time)
               /\ ConvertSeries(v, block.units[v], block.arrays[v]).ok
               /\ channel.values[v] = ConvertSeries(v, block.units[v], block.arrays[v]).value
    <3>1. block.arrays # None /\ v \in DOMAIN block.units /\ v \in DOMAIN block.arrays
      BY <1>2 DEF LeftOut
    <3>2. block.arrays[v] \in Seq(Slot)
      BY <3>1 DEF IsBlock, Slot
    <3>3. Len(block.arrays[v]) = Len(block.time)
      BY <1>2, <3>1 DEF ChannelSound
    <3>4. mapped[v].ok /\ channel.values[v] = mapped[v].value
      BY <2>1
    <3> QED
      BY <3>1, <3>2, <3>3, <3>4
  <2>6. ASSUME NEW v \in present
        PROVE  channel.values[v] \in [1 .. Len(channel.time) -> Int \cup {None}]
    <3> HIDE DEF present
    <3> QED
      BY <2>4, <2>5, ConvertedSlots
  <2>7. SoundChannel(channel)
    BY <2>2, <2>3, <2>4, <2>6 DEF SoundChannel
  <2>8. DOMAIN channel.values \subseteq metrics
    BY <2>3
  <2> HIDE DEF present
  <2> QED
    BY <1>2, <2>3, <2>4, <2>5, <2>7, <2>8 DEF channel
<1> QED
  BY <1>1, <1>2

\* The blocks of an answer are sound where it was found so.
Checked(value) == IsEnvelope(value) /\ ChannelSound(value.hourly) /\ ChannelSound(value.daily)

\* What a source gives is sound, has everything that was asked for, and is what
\* the blocks of an answer map into.
LEMMA MappedSeriesIsSound ==
    ASSUME NEW value, value = None \/ IsEnvelope(value), NEW c \in Capability, NEW metrics,
           Mapped(value, c, metrics).ok
    PROVE  LET series == Mapped(value, c, metrics).value
               hourly == MapChannel(value.hourly, HourlyMetrics, <<value.offset>>)
               daily == MapChannel(value.daily, DailyMetrics, <<>>)
           IN  /\ SoundSeries(series)
               /\ metrics \subseteq MetricsOf(series)
               /\ Checked(value)
               /\ hourly.ok /\ series.hourly = hourly.value
               /\ daily.ok /\ series.daily = daily.value
<1> DEFINE series == Mapped(value, c, metrics).value
           hourly == MapChannel(value.hourly, HourlyMetrics, <<value.offset>>)
           daily == MapChannel(value.daily, DailyMetrics, <<>>)
           mapped == MapResponse(value, c)
<1>1. value # None /\ ChannelSound(value.hourly) /\ ChannelSound(value.daily)
      /\ mapped.ok /\ metrics \subseteq MetricsOf(mapped.value) /\ series = mapped.value
  BY DEF Mapped, ValidateEnvelope, CheckComplete, Ok, Err
<1>2. Checked(value)
  BY <1>1 DEF Checked
<1>3. /\ hourly.ok /\ daily.ok
      /\ mapped.value = [hourly |-> hourly.value, daily |-> daily.value,
                         provenance |-> <<[capability |-> c, elevation |-> value.elevation,
                                           metrics |-> DOMAIN hourly.value.values
                                                       \cup DOMAIN daily.value.values]>>]
  BY <1>1 DEF MapResponse, Ok
<1>4. IsBlock(value.hourly) /\ IsBlock(value.daily) /\ value.elevation \in Int
  BY <1>2 DEF Checked, IsEnvelope
<1>5. SoundChannel(hourly.value) /\ DOMAIN hourly.value.values \subseteq HourlyMetrics
  BY <1>1, <1>3, <1>4, MappedIsSound
<1>6. SoundChannel(daily.value) /\ DOMAIN daily.value.values \subseteq DailyMetrics
  BY <1>1, <1>3, <1>4, MappedIsSound
<1> HIDE DEF series, hourly, daily, mapped
<1>7. /\ DOMAIN series = {"hourly", "daily", "provenance"}
      /\ series.hourly = hourly.value /\ series.daily = daily.value
  BY <1>1, <1>3
<1>8. series.provenance \in Seq(GridNode) /\ series.provenance # <<>>
  <2> DEFINE node == [capability |-> c, elevation |-> value.elevation,
                      metrics |-> DOMAIN hourly.value.values \cup DOMAIN daily.value.values]
  <2>1. node \in GridNode
    BY <1>4, <1>5, <1>6 DEF GridNode
  <2>2. series.provenance = <<node>>
    BY <1>1, <1>3
  <2> HIDE DEF node
  <2> QED
    BY <2>1, <2>2
<1>9. SoundSeries(series)
  BY <1>5, <1>6, <1>7, <1>8 DEF SoundSeries
<1> QED
  BY <1>1, <1>2, <1>3, <1>7, <1>9 DEF series, hourly, daily

\* A host that is asked for less answers in the same shape.
LEMMA AskedIsBlock ==
    ASSUME NEW block, IsBlock(block), NEW metrics
    PROVE  IsBlock(Asked(block, metrics))
<1>1. CASE LeftOut(block)
  BY <1>1 DEF Asked
<1>2. CASE ~LeftOut(block)
  <2> DEFINE asked == Asked(block, metrics)
  <2>1. block.arrays # None /\ DOMAIN block = {"units", "arrays", "time"}
        /\ \A v \in DOMAIN block.arrays : block.arrays[v] \in Seq(Int \cup {None, Text})
    BY <1>2 DEF LeftOut, IsBlock
  <2>2. /\ DOMAIN asked = {"units", "arrays", "time"}
        /\ asked.time = block.time
        /\ asked.arrays = [v \in DOMAIN block.arrays \cap metrics |-> block.arrays[v]]
    BY <1>2, <2>1 DEF Asked
  <2> HIDE DEF asked
  <2>3. \A v \in DOMAIN asked.arrays : asked.arrays[v] \in Seq(Int \cup {None, Text})
    BY <2>1, <2>2
  <2>4. IsBlock(asked)
    BY <2>2, <2>3 DEF IsBlock
  <2> QED
    BY <2>4 DEF asked
<1> QED
  BY <1>1, <1>2

LEMMA AnswerIsResponse ==
    ASSUME NEW r, IsResponse(r), NEW c
    PROVE  AnswerTo(r, c).value = None \/ IsEnvelope(AnswerTo(r, c).value)
<1>1. CASE r.value = None
  BY <1>1 DEF AnswerTo
<1>2. CASE r.value # None
  <2> DEFINE value == AnswerTo(r, c).value
  <2>1. IsEnvelope(r.value) /\ "value" \in DOMAIN r
    BY <1>2 DEF IsResponse
  <2>2. /\ DOMAIN value = {"hourly", "daily", "elevation", "offset"}
        /\ value.hourly = Asked(r.value.hourly, Wanted(c))
        /\ value.daily = Asked(r.value.daily, Wanted(c))
        /\ value.elevation = r.value.elevation
    BY <1>2, <2>1 DEF AnswerTo, IsEnvelope
  <2> HIDE DEF value
  <2>3. IsEnvelope(value)
    BY <2>1, <2>2, AskedIsBlock DEF IsEnvelope
  <2> QED
    BY <2>3 DEF value
<1> QED
  BY <1>1, <1>2

\* Two envelopes that differ in their stamps at most.
SameArrays(value, other) ==
    /\ value.hourly.units = other.hourly.units /\ value.hourly.arrays = other.hourly.arrays
    /\ value.daily.units = other.daily.units /\ value.daily.arrays = other.daily.arrays

\* A recording moved to today is still an envelope, with the numbers it had.
LEMMA RebasedIsEnvelope ==
    ASSUME NEW value, value = None \/ IsEnvelope(value), NEW now
    PROVE  /\ RebaseTimeAxis(value, now) = None \/ IsEnvelope(RebaseTimeAxis(value, now))
           /\ SameArrays(RebaseTimeAxis(value, now), value)
<1>1. ASSUME NEW block, IsBlock(block), NEW shift
      PROVE  /\ IsBlock(ShiftBlock(block, shift))
             /\ ShiftBlock(block, shift).arrays = block.arrays
             /\ ShiftBlock(block, shift).units = block.units
  <2> DEFINE shifted == ShiftBlock(block, shift)
             time == [i \in 1 .. Len(block.time) |-> Shifted(block.time[i], shift)]
  <2>1. DOMAIN block = {"units", "arrays", "time"} /\ Len(block.time) \in Nat
    BY <1>1, LenProperties DEF IsBlock, IsSequence
  <2>2. /\ DOMAIN shifted = {"units", "arrays", "time"}
        /\ shifted.arrays = block.arrays
        /\ shifted.units = block.units
        /\ shifted.time = time
    <3>1. shifted = [block EXCEPT !.time = time]
      BY DEF ShiftBlock
    <3> HIDE DEF time, shifted
    <3> QED
      BY <2>1, <3>1
  <2> HIDE DEF shifted
  <2>3. IsSequence(shifted.time)
    <3> DEFINE N == Len(block.time)
    <3>1. \A i \in 1 .. N : time[i] \in Range(time)
      BY DEF Range
    <3>2. time \in [1 .. N -> Range(time)]
      BY <3>1
    <3> HIDE DEF N, time
    <3> QED
      BY <2>1, <2>2, <3>2, SeqDef DEF IsSequence, N
  <2>4. IsBlock(shifted)
    BY <1>1, <2>2, <2>3 DEF IsBlock
  <2> QED
    BY <2>2, <2>4 DEF shifted
<1> DEFINE shift == LocalDateAt(now, value.offset) - FirstDayOf(value)
           rebased == [value EXCEPT !.hourly = ShiftBlock(@, shift), !.daily = ShiftBlock(@, shift)]
<1>2. RebaseTimeAxis(value, now) = value \/ (value # None /\ RebaseTimeAxis(value, now) = rebased)
  BY DEF RebaseTimeAxis
<1> HIDE DEF shift
<1>3. ASSUME value # None PROVE IsEnvelope(rebased) /\ SameArrays(rebased, value)
  <2> DEFINE hourly == ShiftBlock(value.hourly, shift)
             daily == ShiftBlock(value.daily, shift)
  <2>1. /\ IsBlock(hourly) /\ hourly.arrays = value.hourly.arrays /\ hourly.units = value.hourly.units
        /\ IsBlock(daily) /\ daily.arrays = value.daily.arrays /\ daily.units = value.daily.units
    BY <1>1, <1>3 DEF IsEnvelope
  <2> HIDE DEF hourly, daily
  <2>2. rebased = [value EXCEPT !.hourly = hourly, !.daily = daily]
    BY DEF hourly, daily
  <2> HIDE DEF rebased
  <2>3. /\ DOMAIN rebased = {"hourly", "daily", "elevation", "offset"}
        /\ rebased.hourly = hourly /\ rebased.daily = daily /\ rebased.elevation \in Int
    BY <1>3, <2>2 DEF IsEnvelope
  <2> QED
    BY <2>1, <2>3 DEF IsEnvelope, SameArrays
<1>4. SameArrays(value, value)
  BY DEF SameArrays
<1> HIDE DEF rebased
<1> QED
  BY <1>2, <1>3, <1>4

\* A live answer that is accepted.
LEMMA InterpretedIsMapped ==
    ASSUME NEW response, NEW c, NEW metrics, Interpret(response, c, metrics).ok
    PROVE  Interpret(response, c, metrics) = Mapped(response.value, c, metrics)
BY DEF Interpret, ParseBody, AfterBody, Ok, Err

\* A recorded one.
LEMMA ServedIsMapped ==
    ASSUME NEW c, NEW cell, NEW horizon, NEW metrics, NEW now,
           NEW recording, recording = Chosen(Recordings, c, cell, horizon),
           Serve(recording, c, horizon, metrics, now).ok
    PROVE  \E value : /\ value = None \/ IsEnvelope(value)
                      /\ SameArrays(value, recording.value)
                      /\ Serve(recording, c, horizon, metrics, now) = Mapped(value, c, metrics)
<1> DEFINE candidates == {r \in Recordings : c \in r.serves /\ r.cell = cell}
           chosen == Selected(candidates, horizon)
           replayed == Replay(recording)
           value == IF horizon.kind = "forecast" THEN RebaseTimeAxis(replayed.value, now)
                    ELSE replayed.value
<1>1. recording # None /\ replayed.ok
      /\ Serve(recording, c, horizon, metrics, now) = Mapped(value, c, metrics)
  BY DEF Serve, Err
<1>2. chosen \subseteq Recordings
  BY DEF Selected
<1>3. recording \in Recordings
  <2>1. recording = IF chosen = {} THEN None ELSE CHOOSE r \in chosen : TRUE
    BY DEF Chosen
  <2> HIDE DEF chosen
  <2> QED
    BY <1>1, <1>2, <2>1
<1>4. replayed.value = recording.value
  BY <1>1 DEF Replay, ParseBody, Ok, Err
<1>5. replayed.value = None \/ IsEnvelope(replayed.value)
  <2> HIDE DEF replayed
  <2> QED
    BY <1>3, <1>4, AssessmentAssumption DEF IsResponse
<1>6. (value = None \/ IsEnvelope(value)) /\ SameArrays(value, replayed.value)
  <2>1. SameArrays(replayed.value, replayed.value)
    BY DEF SameArrays
  <2> HIDE DEF replayed
  <2> QED
    BY <1>5, <2>1, RebasedIsEnvelope
<1> HIDE DEF value, replayed
<1> QED
  BY <1>1, <1>4, <1>6

----------------------------------------------------------------------------
(**************************************************************************)
(* Faultless declarations: what validation finds nothing wrong with is clean *)
(* to the last leaf.                                                       *)
(**************************************************************************)

\* A metric that is known, read in a way that is known and fits it.
CleanReader(reader) ==
    /\ MetaOf(reader.metric) # None
    /\ reader.aggregation.type \in DOMAIN Aggregators
    /\ AggregatorAccepts(reader.aggregation.type, reader.aggregation.params)
    /\ ServesChannel(MetaOf(reader.metric).granularity,
                     Aggregators[reader.aggregation.type].granularity)

\* A rule with a reason, all of whose leaves can be read.
CleanRule(rule) ==
    /\ rule.reason # None
    /\ IsTree(rule.when)
    /\ \A leaf \in Leaves(rule.when) : CleanReader(leaf)

\* A feature that can be read, and scored on its curve.
CleanFeature(f) ==
    /\ CleanReader(f)
    /\ f.normalizer.type \in NormalizerCodes
    /\ CurveAccepts(f.normalizer.type, f.normalizer.params)
    /\ Numeric(f.normalizer.type, f.normalizer.params)

\* A share of the score, or a limit on it.
CleanShare(f) ==
    \/ f.role = "additive" /\ f.weight \in Nat
    \/ f.role = "gate" /\ f.gateFloor \in Score

\* Bounds in order.
CleanBounds(bounds) ==
    /\ bounds.floor \in 0 .. 100
    /\ bounds.ceiling \in 0 .. 100
    /\ bounds.floor <= bounds.ceiling

\* A definition in which nothing is wrong.
CleanDefinition(definition) ==
    /\ CleanBounds(definition.postprocess)
    /\ Len(definition.features) \in Nat \ {0}
    /\ DOMAIN definition.features = 1 .. Len(definition.features)
    /\ \A i \in DOMAIN definition.features : /\ CleanFeature(definition.features[i])
                                            /\ CleanShare(definition.features[i])
    /\ Len(definition.constraints) \in Nat
    /\ DOMAIN definition.constraints = 1 .. Len(definition.constraints)
    /\ \A i \in DOMAIN definition.constraints : CleanRule(definition.constraints[i])

\* What validation finds no fault with is clean: readers,
LEMMA FaultlessReader ==
    ASSUME NEW reader, NEW unit, MetricFaults(reader.metric, unit) = {},
           AggregationFaults(reader.aggregation, CheckMetric(reader.metric, unit)) = {}
    PROVE  CleanReader(reader)
<1> DEFINE meta == MetaOf(reader.metric)
           spec == reader.aggregation
<1>1. meta # None /\ CheckMetric(reader.metric, unit) = meta
  BY DEF MetricFaults, CheckMetric
<1>2. AggregationFaults(spec, meta) = {}
  BY <1>1
<1> HIDE DEF meta, spec
<1>3. /\ spec.type \in DOMAIN Aggregators
      /\ AggregatorAccepts(spec.type, spec.params)
      /\ ServesChannel(meta.granularity, Aggregators[spec.type].granularity)
  BY <1>1, <1>2 DEF AggregationFaults, When
<1> QED
  BY <1>1, <1>3 DEF CleanReader, meta, spec

\* curves,
LEMMA WrittenCurveIsNumeric ==
    ASSUME NEW type \in NormalizerCodes, NEW p, WrittenCurve(p), CurveAccepts(type, p)
    PROVE  Numeric(type, p)
<1>1. \A field \in DOMAIN p \cap NumericFields : p[field] \in Int
  BY DEF WrittenCurve
<1>2. CASE type \in {"linear", "inverse"}
  <2>1. "from" \in DOMAIN p /\ "to" \in DOMAIN p
    BY <1>2 DEF CurveAccepts
  <2>2. p.from \in Int /\ p.to \in Int
    BY <1>1, <2>1 DEF NumericFields
  <2> QED
    BY <1>2, <2>2 DEF Numeric
<1>3. CASE type = "trapezoid"
  <2>1. {"a", "b", "c", "d"} \subseteq DOMAIN p
    BY <1>3 DEF CurveAccepts
  <2>2. p.a \in Int /\ p.b \in Int /\ p.c \in Int /\ p.d \in Int
    BY <1>1, <2>1 DEF NumericFields
  <2> QED
    BY <1>3, <2>2 DEF Numeric
<1>4. CASE type \in {"gaussian", "inverseGaussian"}
  <2>1. "center" \in DOMAIN p /\ "sigma" \in DOMAIN p
    BY <1>4 DEF CurveAccepts
  <2>2. p.center \in Int /\ p.sigma \in Int
    BY <1>1, <2>1 DEF NumericFields
  <2> QED
    BY <1>4, <2>2 DEF Numeric
<1>5. CASE type = "step"
  <2>1. "points" \in DOMAIN p
    BY <1>5 DEF CurveAccepts
  <2>2. p.points \in Seq([at : Int, value : Int])
    BY <2>1 DEF WrittenCurve
  <2>3. \A i \in DOMAIN p.points : p.points[i] \in [at : Int, value : Int]
    BY <2>2, ElementOfSeq, LenProperties
  <2>4. \A i \in DOMAIN p.points : p.points[i].at \in Int
    BY <2>3
  <2> QED
    BY <1>5, <2>2, <2>4 DEF Numeric
<1> QED
  BY <1>2, <1>3, <1>4, <1>5 DEF NormalizerCodes

\* features,
LEMMA FaultlessFeature ==
    ASSUME NEW f, WrittenFeature(f), FeatureFaults(f) = {}
    PROVE  CleanFeature(f)
<1>1. /\ MetricFaults(f.metric, f.unit) = {}
      /\ AggregationFaults(f.aggregation, CheckMetric(f.metric, f.unit)) = {}
  BY DEF FeatureFaults
<1>2. PICK meta, entry : NormalizerFaults(f.normalizer, meta, entry) = {}
  BY DEF FeatureFaults
<1>3. f.normalizer.type \in NormalizerCodes /\ CurveAccepts(f.normalizer.type, f.normalizer.params)
  BY <1>2 DEF NormalizerFaults
<1>4. Numeric(f.normalizer.type, f.normalizer.params)
  BY <1>3, WrittenCurveIsNumeric DEF WrittenFeature
<1> QED
  BY <1>1, <1>3, <1>4, FaultlessReader DEF CleanFeature

\* and rules.
LEMMA FaultlessRule ==
    ASSUME NEW rule, WrittenRule(rule), ConstraintFaults(rule) = {}
    PROVE  CleanRule(rule)
<1>1. ExprFaults(rule.when) = {} /\ rule.reason # None
  BY DeclarationsAssumption DEF ConstraintFaults, When
<1>2. ASSUME NEW leaf \in Leaves(rule.when) PROVE CleanReader(leaf)
  <2>1. LeafFaults(leaf) = {}
    BY <1>1 DEF ExprFaults
  <2>2. /\ MetricFaults(leaf.metric, leaf.unit) = {}
        /\ AggregationFaults(leaf.aggregation, CheckMetric(leaf.metric, leaf.unit)) = {}
    BY <2>1 DEF LeafFaults
  <2> QED
    BY <2>2, FaultlessReader
<1> QED
  BY <1>1, <1>2 DEF CleanRule, WrittenRule

\* The weights of what is written add up to more than nothing.
LEMMA SumOfNaturals ==
    ASSUME NEW N \in Nat, NEW values, values \in [1 .. N -> Nat \cup {None}]
    PROVE  Total(values) \in Nat
<1>1. values \in [1 .. N -> Int \cup {None}]
  OBVIOUS
<1>2. PICK s \in [0 .. N -> Int] :
         /\ s[0] = 0
         /\ \A n \in 1 .. N : s[n] = s[n - 1] + (IF values[n] = None THEN 0 ELSE values[n])
         /\ Total(values) = s[N]
  BY <1>1, TotalSums
<1> DEFINE Below == {n \in Nat : n <= N /\ s[n] < 0}
<1>3. SUFFICES ASSUME Below # {} PROVE FALSE
  BY <1>2
<1>4. PICK m \in Below : \A n \in Below : m <= n
  <2>1. Below \in SUBSET Nat
    OBVIOUS
  <2> HIDE DEF Below
  <2> QED
    BY <1>3, <2>1, LeastThere
<1>5. m \in 1 .. N /\ m - 1 \in 0 .. N /\ ~(m <= m - 1) /\ s[m] < 0
  BY <1>2
<1>6. s[m - 1] \in Int /\ ~(s[m - 1] < 0)
  <2>1. m - 1 \notin Below
    <3> HIDE DEF Below
    <3> QED
      BY <1>4, <1>5
  <2> QED
    BY <1>2, <1>5, <2>1
<1> DEFINE gain == IF values[m] = None THEN 0 ELSE values[m]
<1>7. s[m] = s[m - 1] + gain /\ gain \in Nat
  BY <1>2, <1>5
<1> HIDE DEF gain
<1> QED
  BY <1>5, <1>6, <1>7

\* What a feature may weigh, once its weights are shares.
LEMMA FaultlessShare ==
    ASSUME NEW raw, Written(raw), Shaped(raw), TotalWeight(raw) # 0,
           Len(raw.features) \in Nat, DOMAIN raw.features = 1 .. Len(raw.features),
           NEW i \in DOMAIN raw.features, FeatureFaults(raw.features[i]) = {}
    PROVE  CleanShare(Weighed(raw.features[i], TotalWeight(raw)))
<1> DEFINE f == raw.features[i]
           total == TotalWeight(raw)
<1>1. \A j \in DOMAIN raw.features : WeightOf(raw.features[j]) \in Nat
  <2> SUFFICES ASSUME NEW j \in DOMAIN raw.features PROVE WeightOf(raw.features[j]) \in Nat
    OBVIOUS
  <2> DEFINE g == raw.features[j]
  <2>1. g.weight \in Int \cup {None} /\ (g.weight = None \/ g.weight >= 0)
    BY DEF Written, WrittenFeature, Shaped, FeatureShaped
  <2> HIDE DEF g
  <2>2. WeightOf(g) \in Nat
    BY <2>1 DEF WeightOf
  <2> QED
    BY <2>2 DEF g
<1>2. total \in Nat
  <2> DEFINE weights == [j \in DOMAIN raw.features |->
                           IF j \in ReadFeatures(raw) THEN WeightOf(raw.features[j]) ELSE None]
  <2>1. weights \in [1 .. Len(raw.features) -> Nat \cup {None}]
    BY <1>1
  <2>2. total = Total(weights)
    BY DEF TotalWeight
  <2> HIDE DEF weights
  <2> QED
    BY <2>1, <2>2, SumOfNaturals
<1>3. RoleFaults(f) = {} /\ RoleOf(f) \in {"additive", "gate"}
  BY DEF FeatureFaults, RoleOf, Shaped, FeatureShaped
<1>4. WeightOf(f) \in Nat
  BY <1>1
<1> HIDE DEF f, total
<1>5. ASSUME RoleOf(f) = "additive" PROVE CleanShare(Weighed(f, total))
  <2> DEFINE x == WeightOf(f) * One
  <2>1. x \in Nat
    BY <1>4, NormalizersAssumption
  <2>2. x # NaN /\ total # NaN /\ total > 0
    BY <1>2, <2>1, NormalizersAssumption DEF total
  <2> HIDE DEF x
  <2>3. Div(x, total) = x \div total /\ x \div total \in Nat
    BY <1>2, <2>1, <2>2 DEF Div
  <2> QED
    BY <1>5, <2>3 DEF CleanShare, Weighed, x
<1>6. ASSUME RoleOf(f) = "gate" PROVE CleanShare(Weighed(f, total))
  <2>1. f.gateFloor \in 1 .. One
    BY <1>3, <1>6 DEF RoleFaults, When
  <2>2. Clamp01(f.gateFloor) \in Score
    BY <2>1, ClampIsScore, NormalizersAssumption
  <2> QED
    BY <1>6, <2>2 DEF CleanShare, Weighed
<1>7. CleanShare(Weighed(f, total))
  BY <1>3, <1>5, <1>6
<1> QED
  BY <1>7 DEF f, total

\* A shared rule that was read is clean.
LEMMA SharedAreClean ==
    ASSUME NEW l \in Loads, NEW id \in DOMAIN SharedRules(l.shared)
    PROVE  CleanRule(SharedRules(l.shared)[id])
<1>1. RulesShaped(l.shared)
  <2>1. DOMAIN <<>> = {}
    BY EmptySeq
  <2> QED
    BY <2>1 DEF SharedRules
<1>2. id \in DOMAIN l.shared /\ ConstraintFaults(l.shared[id]) = {}
      /\ SharedRules(l.shared)[id] = l.shared[id]
  BY <1>1 DEF SharedRules
<1>3. WrittenRule(l.shared[id])
  BY <1>1, <1>2, AssessmentAssumption DEF RulesShaped
<1> QED
  BY <1>2, <1>3, FaultlessRule

\* What a load resolves is faultless to the last leaf.
LEMMA ResolvedIsClean ==
    ASSUME NEW l \in Loads, NEW a \in DOMAIN Resolve(l.inputs, SharedRules(l.shared))
    PROVE  CleanDefinition(Resolve(l.inputs, SharedRules(l.shared))[a])
<1> DEFINE rules == SharedRules(l.shared)
           raw == l.inputs[a]
           definition == Resolve(l.inputs, rules)[a]
<1>1. a \in DOMAIN l.inputs /\ FaultsOf(raw, rules, a) = {} /\ definition = ResolveDeclaration(raw, rules)
  BY DEF Resolve
<1>2. raw # Misshapen /\ Shaped(raw) /\ DeclarationFaults(raw, rules) = {}
  BY <1>1 DEF FaultsOf
<1>3. Written(raw)
  BY <1>1, <1>2, AssessmentAssumption
<1>c. ASSUME NEW id \in DOMAIN rules PROVE CleanRule(rules[id])
  BY SharedAreClean
<1> HIDE DEF rules, raw, definition
<1>b. CleanBounds(definition.postprocess)
  <2> DEFINE p == raw.postprocess
  <2>1. {p.floor, p.ceiling} \subseteq 0 .. 100 \cup {None}
    BY <1>2 DEF Shaped
  <2>2. None \notin {p.floor, p.ceiling} => ~(p.floor > p.ceiling)
    BY <1>2, Zenon DEF DeclarationFaults, When
  <2>3. definition.postprocess = Bounds(p)
    BY <1>1 DEF ResolveDeclaration
  <2> HIDE DEF p
  <2>4. {p.floor, p.ceiling} \subseteq Int \cup {None}
    BY <2>1
  <2>5. CleanBounds(Bounds(p))
    BY <2>1, <2>2, <2>4, NormalizersAssumption, SMTT(30) DEF Bounds, CleanBounds
  <2> QED
    BY <2>3, <2>5
<1>4. /\ \A i \in DOMAIN raw.include : raw.include[i] \in DOMAIN rules
      /\ \A i \in DOMAIN raw.constraints : ConstraintFaults(raw.constraints[i]) = {}
      /\ FeaturesFaults(raw) = {}
  <2> DEFINE Unknown == When(\E i \in DOMAIN raw.include : raw.include[i] \notin DOMAIN rules, "include")
             Rules == UNION {ApplicabilityFaults(raw.applicability[i]) : i \in DOMAIN raw.applicability}
             Constraints == UNION {ConstraintFaults(raw.constraints[i]) : i \in DOMAIN raw.constraints}
             Bound == When(/\ None \notin {raw.postprocess.floor, raw.postprocess.ceiling}
                           /\ raw.postprocess.floor > raw.postprocess.ceiling, "postprocess")
  <2>1. DeclarationFaults(raw, rules) =
           Unknown \cup Rules \cup Constraints \cup FeaturesFaults(raw) \cup Bound
    BY Zenon DEF DeclarationFaults
  <2>2. Unknown = {} /\ Constraints = {} /\ FeaturesFaults(raw) = {}
    <3> HIDE DEF Unknown, Rules, Constraints, Bound
    <3> QED
      BY <1>2, <2>1
  <2> QED
    BY <2>2 DEF When
<1>5. /\ ReadFeatures(raw) = DOMAIN raw.features
      /\ \A i \in DOMAIN raw.features : FeatureFaults(raw.features[i]) = {}
      /\ TotalWeight(raw) # 0
  <2> DEFINE Features == UNION {FeatureFaults(raw.features[i]) : i \in ReadFeatures(raw)}
             Repeated == When(ReadFeatures(raw) # DOMAIN raw.features, "feature")
             Weightless == When(TotalWeight(raw) = 0, "features")
  <2>1. FeaturesFaults(raw) = Repeated \cup Weightless \cup Features
    BY Zenon DEF FeaturesFaults
  <2>2. Features = {} /\ Repeated = {} /\ Weightless = {}
    <3> HIDE DEF Features, Repeated, Weightless
    <3> QED
      BY <1>4, <2>1
  <2>3. ReadFeatures(raw) = DOMAIN raw.features /\ TotalWeight(raw) # 0
    BY <2>2 DEF When
  <2> QED
    BY <2>2, <2>3
<1>6. raw.features \in Seq(Range(raw.features)) /\ raw.features # <<>>
  BY <1>2, <1>3 DEF Written, IsSequence, Shaped
<1> DEFINE n == Len(raw.features)
<1>7. n \in Nat \ {0} /\ DOMAIN raw.features = 1 .. n
  BY <1>6, LenProperties, EmptySeq
<1>8. ASSUME NEW i \in 1 .. n
      PROVE  /\ CleanFeature(Weighed(raw.features[i], TotalWeight(raw)))
             /\ CleanShare(Weighed(raw.features[i], TotalWeight(raw)))
  <2>1. CleanFeature(raw.features[i])
    BY <1>3, <1>5, <1>7, FaultlessFeature DEF Written
  <2>2. CleanShare(Weighed(raw.features[i], TotalWeight(raw)))
    BY <1>2, <1>3, <1>5, <1>7, FaultlessShare
  <2> QED
    BY <2>1, <2>2 DEF CleanFeature, CleanReader, Weighed
<1>9. definition.features = [i \in 1 .. n |-> Weighed(raw.features[i], TotalWeight(raw))]
  BY <1>1, <1>5, <1>7 DEF ResolveDeclaration, ResolvedFeatures
<1> HIDE DEF n
<1>10. Len(definition.features) = n
  <2>1. definition.features = [i \in 1 .. n |-> definition.features[i]]
    BY <1>9
  <2> QED
    BY <1>7, <2>1, LenOfFunction
<1> DEFINE S == {rules[id] : id \in DOMAIN rules} \cup Range(raw.constraints)
           m == Len(raw.include)
           included == [i \in 1 .. m |-> rules[raw.include[i]]]
<1>11. \A rule \in S : CleanRule(rule)
  <2>1. \A rule \in Range(raw.constraints) : CleanRule(rule)
    BY <1>3, <1>4, FaultlessRule DEF Written, Range
  <2> QED
    BY <1>c, <2>1
<1>12. included \in Seq(S)
  <2>1. m \in Nat /\ DOMAIN raw.include = 1 .. m
    BY <1>3, LenProperties DEF Written, IsSequence
  <2>2. included \in [1 .. m -> S]
    BY <1>4, <2>1
  <2> HIDE DEF S, m, included
  <2> QED
    BY <2>1, <2>2, SeqDef
<1>13. raw.constraints \in Seq(S)
  <2>1. raw.constraints \in Seq(Range(raw.constraints)) /\ Range(raw.constraints) \subseteq S
    BY <1>3 DEF Written, IsSequence
  <2> HIDE DEF S
  <2> QED
    BY <2>1, SeqMonotonic
<1>14. definition.constraints = included \o raw.constraints
  BY <1>1 DEF ResolveDeclaration
<1> HIDE DEF S, included
<1>15. definition.constraints \in Seq(S)
  BY <1>12, <1>13, <1>14, ConcatProperties
<1>16. /\ Len(definition.constraints) \in Nat
       /\ DOMAIN definition.constraints = 1 .. Len(definition.constraints)
       /\ \A i \in DOMAIN definition.constraints : CleanRule(definition.constraints[i])
  BY <1>11, <1>15, LenProperties, ElementOfSeq
<1> QED
  BY <1>7, <1>8, <1>9, <1>10, <1>16, <1>b DEF CleanDefinition, definition, rules

----------------------------------------------------------------------------
(**************************************************************************)
(* What is read of a day: a number, or nothing.                            *)
(**************************************************************************)

\* The first place a sequence passes a test, if there is one, is one of its places.
LEMMA CarrierIsThere ==
    ASSUME NEW series, SoundSeries(series), NEW code
    PROVE  ElevationOf(series, code) \in Int
<1> DEFINE nodes == series.provenance
           I == {i \in 1 .. Len(nodes) : code \in nodes[i].metrics}
           carrier == SelectInSeq(nodes, LAMBDA p : code \in p.metrics)
<1>1. nodes \in Seq(GridNode) /\ nodes # <<>> /\ Len(nodes) \in Nat
  BY LenProperties DEF SoundSeries
<1>2. Len(nodes) # 0
  BY <1>1, EmptySeq
<1>3. carrier = IF I # {} THEN Min(I) ELSE 0
  BY DEF SelectInSeq
<1>4. I # {} => Min(I) \in I
  <2>1. I \in SUBSET Nat
    BY <1>1
  <2> HIDE DEF I
  <2>2. ASSUME I # {} PROVE \E m \in I : \A i \in I : m <= i
    BY <2>1, <2>2, LeastThere
  <2> QED
    BY <2>2 DEF Min
<1>5. (IF carrier = 0 THEN 1 ELSE carrier) \in 1 .. Len(nodes)
  <2> HIDE DEF carrier
  <2> QED
    BY <1>1, <1>2, <1>3, <1>4
<1> DEFINE place == IF carrier = 0 THEN 1 ELSE carrier
<1>6. ElevationOf(series, code) = nodes[place].elevation
  BY DEF ElevationOf
<1> HIDE DEF place, nodes
<1>7. nodes[place] \in GridNode
  BY <1>1, <1>5, ElementOfSeq DEF place
<1> QED
  BY <1>6, <1>7 DEF GridNode

\* A metric that is computed is a number, or nothing, in every slot.
LEMMA ComputedSlots ==
    ASSUME NEW series, SoundSeries(series), NEW code \in DOMAIN Derived
    PROVE  \/ /\ ComputeDerived(code, series) = None
              /\ \E r \in 1 .. Len(Derived[code].requires) :
                    ~HasMetric(series.hourly, Derived[code].requires[r])
           \/ ComputeDerived(code, series) \in [1 .. Len(series.hourly.time) -> Int \cup {None}]
<1> DEFINE N == Len(series.hourly.time)
           requires == Derived[code].requires
           inputs == [r \in 1 .. Len(requires) |-> series.hourly.values[requires[r]]]
           at(i) == [r \in 1 .. Len(requires) |-> inputs[r][i]]
           elevation == ElevationOf(series, requires[1])
           value(i) == IF \E r \in 1 .. Len(requires) : inputs[r][i] = None THEN None
                       ELSE Formula(code, at(i), elevation)
<1>1. code \in {"WIND_WAVE_ALIGNMENT", "FRESH_COLD_SNOWFALL", "FREEZING_LEVEL_MARGIN"}
  BY DEF Derived
<1>2. /\ code = "WIND_WAVE_ALIGNMENT" => requires = <<"wind_direction_10m", "wave_direction">>
      /\ code = "FRESH_COLD_SNOWFALL" => requires = <<"snowfall", "temperature_2m">>
      /\ code = "FREEZING_LEVEL_MARGIN" => requires = <<"freezing_level_height">>
  BY DEF Derived
<1>3. 1 \in 1 .. Len(requires) /\ (code # "FREEZING_LEVEL_MARGIN" => 2 \in 1 .. Len(requires))
  <2> HIDE DEF requires
  <2> QED
    BY <1>1, <1>2
<1>4. CASE \E r \in 1 .. Len(requires) : ~HasMetric(series.hourly, requires[r])
  BY <1>4 DEF ComputeDerived
<1>5. CASE \A r \in 1 .. Len(requires) : HasMetric(series.hourly, requires[r])
  <2>1. ComputeDerived(code, series) = [i \in 1 .. Len(inputs[1]) |-> value(i)]
    BY <1>5 DEF ComputeDerived
  <2>2. \A r \in 1 .. Len(requires) : inputs[r] \in [1 .. N -> Int \cup {None}]
    <3> HIDE DEF requires
    <3> QED
      BY <1>5 DEF HasMetric, SoundSeries, SoundChannel
  <2>3. Len(inputs[1]) = N
    <3>1. N \in Nat
      BY DEF SoundSeries, SoundChannel
    <3> HIDE DEF inputs, requires, N
    <3>2. inputs[1] \in [1 .. N -> Int \cup {None}]
      BY <1>3, <2>2
    <3>3. inputs[1] = [i \in 1 .. N |-> inputs[1][i]]
      BY <3>2
    <3> QED
      BY <3>1, <3>3, LenOfFunction
  <2>4. ASSUME NEW i \in 1 .. N PROVE value(i) \in Int \cup {None}
    <3>1. CASE \E r \in 1 .. Len(requires) : inputs[r][i] = None
      BY <3>1
    <3>2. CASE \A r \in 1 .. Len(requires) : inputs[r][i] # None
      <4>1. value(i) = Formula(code, at(i), elevation)
        BY <3>2
      <4>2. elevation \in Int
        BY CarrierIsThere
      <4>3. \A r \in 1 .. Len(requires) : at(i)[r] \in Int
        <5> HIDE DEF requires, inputs, N
        <5> QED
          BY <2>2, <3>2
      <4> HIDE DEF at, elevation, value, requires
      <4>4. at(i)[1] \in Int /\ (code # "FREEZING_LEVEL_MARGIN" => at(i)[2] \in Int)
        BY <1>3, <4>3
      <4>5. Formula(code, at(i), elevation) \in Int
        <5>1. CASE code = "WIND_WAVE_ALIGNMENT"
          <6>1. AngleBetween(at(i)[1], at(i)[2]) \in 0 .. 180
            BY <4>4, <5>1, AngleIsPlausible
          <6>2. AngleBetween(at(i)[1], at(i)[2]) \in Int
            <7>1. 0 .. 180 \subseteq Int
              OBVIOUS
            <7> QED
              BY <6>1, <7>1, Zenon
          <6>3. Formula(code, at(i), elevation) = AngleBetween(at(i)[1], at(i)[2])
            BY <5>1 DEF Formula
          <6> QED
            BY <6>2, <6>3
        <5>2. CASE code = "FRESH_COLD_SNOWFALL"
          BY <4>4, <5>2 DEF Formula
        <5>3. CASE code = "FREEZING_LEVEL_MARGIN"
          BY <4>2, <4>4, <5>3 DEF Formula
        <5> QED
          BY <1>1, <5>1, <5>2, <5>3
      <4> QED
        BY <4>1, <4>5
    <3> QED
      BY <3>1, <3>2
  <2>5. [i \in 1 .. N |-> value(i)] \in [1 .. N -> Int \cup {None}]
    <3> HIDE DEF value, N
    <3> QED
      BY <2>4
  <2> QED
    BY <2>1, <2>3, <2>5
<1> QED
  BY <1>4, <1>5 DEF HasMetric

LEMMA OneIsNotAbove ==
    ASSUME NEW a \in Int, NEW b \in Int
    PROVE  a <= a /\ (a < b => a <= b) /\ (~(a < b) => b <= a)
OBVIOUS

\* Some values, one at least, have a largest and a smallest.
LEMMA Extremes ==
    ASSUME NEW N \in Nat, NEW f, NEW S \in SUBSET (1 .. N), S # {}, \A i \in S : f[i] \in Int
    PROVE  Max({f[i] : i \in S}) \in Int /\ Min({f[i] : i \in S}) \in Int
<1> DEFINE Upto(m) == {i \in S : i <= m}
           Bounded(m) == \E low, high \in S : \A i \in Upto(m) : f[low] <= f[i] /\ f[i] <= f[high]
           Bad == {m \in Nat : ~Bounded(m)}
<1>1. Bad = {}
  <2>1. SUFFICES ASSUME Bad # {} PROVE FALSE
    OBVIOUS
  <2>2. PICK m \in Bad : \A i \in Bad : m <= i
    <3>1. Bad \in SUBSET Nat
      OBVIOUS
    <3> HIDE DEF Bad
    <3> QED
      BY <2>1, <3>1, LeastThere
  <2>3. m \in Nat /\ ~Bounded(m)
    OBVIOUS
  <2>4. m # 0
    <3>1. \A i \in S : ~(i <= 0)
      OBVIOUS
    <3>2. PICK i \in S : TRUE
      OBVIOUS
    <3> QED
      BY <2>3, <3>1, <3>2
  <2>5. PICK low \in S, high \in S : \A i \in Upto(m - 1) : f[low] <= f[i] /\ f[i] <= f[high]
    <3>1. m - 1 \in Nat /\ ~(m <= m - 1)
      BY <2>3, <2>4
    <3>2. m - 1 \notin Bad
      <4> HIDE DEF Bad
      <4> QED
        BY <2>2, <3>1
    <3> QED
      BY <3>1, <3>2
  <2>6. \A i \in Upto(m) : i \in Upto(m - 1) \/ i = m
    <3>1. \A i \in S : i \in Int
      OBVIOUS
    <3> QED
      BY <2>3, <3>1
  <2>7. CASE m \notin S
    BY <2>3, <2>5, <2>6, <2>7
  <2>8. CASE m \in S
    <3>1. f[m] \in Int /\ f[low] \in Int /\ f[high] \in Int
      BY <2>8
    <3>2. PICK least \in S : f[least] \in Int /\ f[least] <= f[m] /\ f[least] <= f[low]
      <4>1. CASE f[m] < f[low]
        <5>1. f[m] \in Int /\ f[m] <= f[m] /\ f[m] <= f[low]
          BY <3>1, <4>1, OneIsNotAbove, Zenon
        <5> QED
          BY <2>8, <5>1, Zenon
      <4>2. CASE ~(f[m] < f[low])
        <5>1. f[low] \in Int /\ f[low] <= f[m] /\ f[low] <= f[low]
          BY <3>1, <4>2, OneIsNotAbove, Zenon
        <5> QED
          BY <5>1, Zenon
      <4> QED
        BY <4>1, <4>2
    <3>4. PICK most \in S : f[most] \in Int /\ f[m] <= f[most] /\ f[high] <= f[most]
      <4>1. CASE f[high] < f[m]
        <5>1. f[m] \in Int /\ f[m] <= f[m] /\ f[high] <= f[m]
          BY <3>1, <4>1, OneIsNotAbove, Zenon
        <5> QED
          BY <2>8, <5>1, Zenon
      <4>2. CASE ~(f[high] < f[m])
        <5>1. f[high] \in Int /\ f[m] <= f[high] /\ f[high] <= f[high]
          BY <3>1, <4>2, OneIsNotAbove, Zenon
        <5> QED
          BY <5>1, Zenon
      <4> QED
        BY <4>1, <4>2
    <3>3. ASSUME NEW i \in Upto(m) PROVE f[least] <= f[i] /\ f[i] <= f[most]
      <4>1. f[i] \in Int
        OBVIOUS
      <4>2. i # m => f[low] <= f[i] /\ f[i] <= f[high]
        BY <2>5, <2>6
      <4> HIDE DEF Upto
      <4> QED
        BY <3>1, <3>2, <3>4, <4>1, <4>2
    <3> QED
      BY <2>3, <3>2, <3>3, <3>4
  <2> QED
    BY <2>7, <2>8
<1>2. PICK low \in S, high \in S : \A i \in S : f[low] <= f[i] /\ f[i] <= f[high]
  <2>1. Bounded(N)
    BY <1>1
  <2>2. \A i \in S : i <= N
    OBVIOUS
  <2> QED
    BY <2>1, <2>2
<1> DEFINE V == {f[i] : i \in S}
<1>3. /\ V \subseteq Int
      /\ f[low] \in V /\ \A v \in V : f[low] <= v
      /\ f[high] \in V /\ \A v \in V : f[high] >= v
  BY <1>2
<1> HIDE DEF V
<1>4. Min(V) \in V /\ Max(V) \in V
  BY <1>3 DEF Min, Max
<1> QED
  BY <1>3, <1>4 DEF V

\* What is read is a number, if anything.
IsNumber(value) == value = None \/ value.value \in Int

\* Values on an axis of n slots.
Values(n) == [1 .. n -> Int \cup {None}]

\* Reading over some slots gives a number, or nothing.
LEMMA TallyIsNumber ==
    ASSUME NEW N \in Nat, NEW values, NEW indexes \in SUBSET (1 .. N), NEW value, NEW unit,
           {i \in indexes : values[i] # None} # {} => value \in Int
    PROVE  IsNumber(Tally(SlotsOf(values, indexes), value, unit))
<1> DEFINE present == {i \in indexes : values[i] # None}
           slots == SlotsOf(values, indexes)
<1>1. slots.sampleCount = Cardinality(present)
  BY DEF SlotsOf
<1>2. present = {} => Cardinality(present) = 0
  BY FS_EmptySet
<1> HIDE DEF slots, present
<1>3. CASE slots.sampleCount = 0
  BY <1>3 DEF Tally, IsNumber, slots
<1>4. CASE slots.sampleCount # 0
  <2>1. value \in Int
    BY <1>1, <1>2, <1>4 DEF present
  <2>2. Tally(slots, value, unit).value = value
    BY <1>4 DEF Tally
  <2> QED
    BY <2>1, <2>2 DEF IsNumber, slots
<1> QED
  BY <1>3, <1>4

\* So does every reducer: where nothing is present there is nothing to divide by.
LEMMA ReducedIsNumber ==
    ASSUME NEW N \in Nat, NEW channel, channel.values \in Values(N),
           NEW indexes \in SUBSET (1 .. N), NEW reducer \in Reducers
    PROVE  IsNumber(ReduceOver(channel, indexes, reducer))
<1> DEFINE values == channel.values
           present == {i \in indexes : values[i] # None}
           counted == [i \in DOMAIN values |-> IF i \in present THEN values[i] ELSE None]
           size == Cardinality(present)
<1>1. /\ DOMAIN values = 1 .. N
      /\ \A i \in present : values[i] \in Int
      /\ present \in SUBSET (1 .. N)
  BY DEF Values
<1>2. Total(counted) \in Int
  <2>1. counted \in [1 .. N -> Int \cup {None}]
    BY <1>1
  <2> HIDE DEF counted
  <2>2. PICK s \in [0 .. N -> Int] : Total(counted) = s[N]
    BY <2>1, TotalSums
  <2>3. N \in 0 .. N
    OBVIOUS
  <2> QED
    BY <2>2, <2>3
<1>3. present # {} => size \in Int /\ size > 0
  <2> HIDE DEF present
  <2>1. IsFiniteSet(present) /\ size \in Nat
    BY <1>1, PositionsAreFinite
  <2> QED
    BY <2>1, FS_EmptySet
<1> HIDE DEF counted, present, values
<1>4. ASSUME present # {} PROVE Reduce(values, present, reducer) \in Int
  <2>1. reducer \in {"mean", "sum", "max", "min"}
    BY DEF Reducers
  <2>2. CASE reducer = "mean"
    <3>1. Reduce(values, present, reducer) = Div(Total(counted), size)
      BY <2>2 DEF Reduce, counted
    <3>2. Total(counted) # NaN /\ size # NaN
      BY <1>2, <1>3, <1>4, NormalizersAssumption
    <3>3. Div(Total(counted), size) = Total(counted) \div size
      BY <1>3, <1>4, <3>2 DEF Div
    <3> QED
      BY <1>2, <1>3, <1>4, <3>1, <3>3
  <2>3. CASE reducer = "sum"
    BY <1>2, <2>3 DEF Reduce, counted
  <2>4. Max({values[i] : i \in present}) \in Int /\ Min({values[i] : i \in present}) \in Int
    BY <1>1, <1>4, Extremes
  <2> QED
    BY <2>1, <2>2, <2>3, <2>4 DEF Reduce
<1>5. ReduceOver(channel, indexes, reducer) =
         Tally(SlotsOf(values, indexes), Reduce(values, present, reducer), channel.unit)
  BY DEF ReduceOver, SlotsOf, values, present
<1> QED
  BY <1>4, <1>5, TallyIsNumber DEF present

\* The indexes of a window are places of the axes they point into.
WindowFits(window, series) ==
    /\ window.hourIndexes \in SUBSET (1 .. Len(series.hourly.time))
    /\ window.daylightIndexes \in SUBSET (1 .. Len(series.hourly.time))
    /\ window.dailyIndex = None \/ window.dailyIndex \in 1 .. Len(series.daily.time)

\* The channel a reader is given is sound.
LEMMA ChannelIsThere ==
    ASSUME NEW series, SoundSeries(series), NEW reader, CleanReader(reader)
    PROVE  LET granularity == Aggregators[reader.aggregation.type].granularity
               channel == ChannelFor(reader.metric, granularity, series)
           IN  \/ channel = None
               \/ channel.values \in
                     Values(Len((IF granularity = "daily" THEN series.daily
                                 ELSE series.hourly).time))
<1> DEFINE code == reader.metric
           granularity == Aggregators[reader.aggregation.type].granularity
           source == IF granularity = "daily" THEN series.daily ELSE series.hourly
           channel == ChannelFor(code, granularity, series)
           computed == ComputeDerived(code, series)
<1>1. CASE code \in DOMAIN Derived
  <2>1. granularity # "daily"
    <3>1. MetaOf(code).granularity = "hourly"
      BY <1>1 DEF MetaOf
    <3>2. ServesChannel(MetaOf(code).granularity, granularity)
      BY DEF CleanReader
    <3> HIDE DEF granularity
    <3> QED
      BY <3>1, <3>2 DEF ServesChannel
  <2>2. computed = None \/ computed \in Values(Len(series.hourly.time))
    BY <1>1, ComputedSlots DEF Values
  <2> HIDE DEF computed, granularity
  <2>3. channel = None \/ (computed # None /\ channel.values = computed)
    BY <1>1 DEF ChannelFor, computed
  <2> QED
    BY <2>1, <2>2, <2>3 DEF granularity
<1>2. CASE code \notin DOMAIN Derived
  <2>1. SoundChannel(source)
    BY DEF SoundSeries
  <2>2. channel = None \/ (HasMetric(source, code) /\ channel.values = source.values[code])
    BY <1>2 DEF ChannelFor
  <2> HIDE DEF source, channel, granularity
  <2>3. channel = None \/ channel.values \in Values(Len(source.time))
    BY <2>1, <2>2 DEF HasMetric, SoundChannel, Values
  <2> QED
    BY <2>3 DEF source, channel, granularity
<1> QED
  BY <1>1, <1>2

\* What is read of a day is a number, where anything is.
LEMMA ValueIsNumber ==
    ASSUME NEW series, SoundSeries(series), NEW reader, CleanReader(reader),
           NEW window, WindowFits(window, series)
    PROVE  IsNumber(ValueOf(reader, series, window))
<1> DEFINE spec == reader.aggregation
           type == spec.type
           granularity == Aggregators[type].granularity
           channel == ChannelFor(reader.metric, granularity, series)
           N == Len(series.hourly.time)
           D == Len(series.daily.time)
           value == AggregateOver(spec, channel, window)
<1>1. N \in Nat /\ D \in Nat
  BY DEF SoundSeries, SoundChannel
<1>2. type \in {"mean", "max", "min", "sum", "identity", "daylightWindow", "shareOfHours", "countIf"}
  <2>1. type \in DOMAIN Aggregators
    BY DEF CleanReader
  <2> HIDE DEF type
  <2> QED
    BY <2>1 DEF Aggregators
<1>3. CASE channel = None
  BY <1>3 DEF ValueOf, IsNumber
<1>4. CASE channel # None
  <2>1. ValueOf(reader, series, window) = value
    BY <1>4 DEF ValueOf
  <2>2. channel.values \in Values(Len((IF granularity = "daily" THEN series.daily
                                       ELSE series.hourly).time))
    BY <1>4, ChannelIsThere
  <2>3. /\ window.hourIndexes \in SUBSET (1 .. N)
        /\ window.daylightIndexes \in SUBSET (1 .. N)
        /\ window.dailyIndex = None \/ window.dailyIndex \in 1 .. D
    BY DEF WindowFits
  <2>4. AggregatorAccepts(type, spec.params)
    BY DEF CleanReader
  <2> HIDE DEF channel, spec, type
  <2>5. granularity = IF type = "identity" THEN "daily" ELSE "hourly"
    BY <1>2 DEF Aggregators, Same
  <2>6. CASE type \in Reducers
    <3>1. channel.values \in Values(N)
      BY <2>2, <2>5, <2>6 DEF Reducers
    <3>2. value = ReduceOver(channel, window.hourIndexes, type)
      BY <2>6 DEF AggregateOver, type, Reducers
    <3> HIDE DEF N, value
    <3>3. IsNumber(value)
      BY <1>1, <2>3, <2>6, <3>1, <3>2, ReducedIsNumber
    <3> QED
      BY <2>1, <3>3
  <2>7. CASE type = "identity"
    <3>1. channel.values \in Values(D)
      BY <2>2, <2>5, <2>7
    <3>2. value = IF window.dailyIndex = None THEN None
                  ELSE ReduceOver(channel, {window.dailyIndex}, "mean")
      BY <2>7 DEF AggregateOver, type, Reducers
    <3>3. "mean" \in Reducers
      BY DEF Reducers
    <3> HIDE DEF D, value
    <3>4. window.dailyIndex # None => IsNumber(ReduceOver(channel, {window.dailyIndex}, "mean"))
      <4>1. window.dailyIndex # None => {window.dailyIndex} \in SUBSET (1 .. D)
        BY <2>3
      <4> QED
        BY <1>1, <3>1, <3>3, <4>1, ReducedIsNumber
    <3> QED
      BY <2>1, <3>2, <3>4 DEF IsNumber
  <2>8. CASE type = "daylightWindow"
    <3>1. channel.values \in Values(N)
      BY <2>2, <2>5, <2>8
    <3>2. value = ReduceOver(channel, window.daylightIndexes, spec.params.reduce)
      BY <2>8 DEF AggregateOver, type, Reducers
    <3>3. spec.params.reduce \in Reducers
      BY <2>4, <2>8 DEF AggregatorAccepts
    <3> HIDE DEF N, value
    <3>4. IsNumber(value)
      BY <1>1, <2>3, <3>1, <3>2, <3>3, ReducedIsNumber
    <3> QED
      BY <2>1, <3>4
  <2>9. CASE type \in {"shareOfHours", "countIf"}
    <3> DEFINE indexes == IF spec.params.window = "day" THEN window.hourIndexes
                          ELSE window.daylightIndexes
               slots == SlotsOf(channel.values, indexes)
               present == {i \in indexes : channel.values[i] # None}
               hits == {i \in present : EvaluatePredicate(spec.params.predicate, channel.values[i])}
               matching == Matching(channel.values, slots.present, spec.params.predicate)
    <3>1. indexes \in SUBSET (1 .. N)
      BY <2>3
    <3> HIDE DEF indexes
    <3>2. matching = Cardinality(hits) /\ slots.sampleCount = Cardinality(present)
      BY DEF Matching, SlotsOf
    <3>3. present \in SUBSET (1 .. N) /\ hits \in SUBSET (1 .. N)
      BY <3>1
    <3> HIDE DEF present, hits, N
    <3>4. Cardinality(hits) \in Nat /\ Cardinality(present) \in Nat /\ IsFiniteSet(present)
      BY <1>1, <3>3, PositionsAreFinite
    <3>5. value = IF type = "countIf" THEN Tally(slots, matching, "hour")
                  ELSE Tally(slots, Div(matching * One, slots.sampleCount), "ratio")
      BY <2>9 DEF AggregateOver, type, Reducers, indexes
    <3>6. present # {} => Div(matching * One, slots.sampleCount) \in Int
      <4>1. present # {} => Cardinality(present) \in Int /\ Cardinality(present) > 0
        BY <3>4, FS_EmptySet
      <4>2. Cardinality(hits) * One \in Int
        BY <3>4, NormalizersAssumption
      <4>3. Cardinality(hits) * One # NaN /\ Cardinality(present) # NaN
        BY <3>4, <4>2, NormalizersAssumption
      <4>4. present # {} => Div(Cardinality(hits) * One, Cardinality(present)) =
                               (Cardinality(hits) * One) \div Cardinality(present)
        BY <4>1, <4>3 DEF Div
      <4>5. present # {} => (Cardinality(hits) * One) \div Cardinality(present) \in Int
        BY <4>1, <4>2
      <4> QED
        BY <3>2, <4>4, <4>5
    <3>7. matching \in Int
      BY <3>2, <3>4
    <3> HIDE DEF matching, value
    <3>8. /\ IsNumber(Tally(slots, matching, "hour"))
          /\ IsNumber(Tally(slots, Div(matching * One, slots.sampleCount), "ratio"))
      BY <1>1, <3>1, <3>6, <3>7, TallyIsNumber DEF present
    <3> QED
      BY <2>1, <3>5, <3>8
  <2> QED
    BY <1>2, <2>6, <2>7, <2>8, <2>9 DEF Reducers
<1> QED
  BY <1>3, <1>4

----------------------------------------------------------------------------
(**************************************************************************)
(* The judgement of a clean definition on a sound series.                  *)
(**************************************************************************)

\* Every window of a sound series fits it.
LEMMA WindowsFit ==
    ASSUME NEW series, SoundSeries(series), NEW d \in DOMAIN BuildDayWindows(series)
    PROVE  WindowFits(BuildDayWindows(series)[d], series)
<1> DEFINE date == DistinctDates(series.hourly.time)[d]
           window == DayWindow(series, date)
           I == {i \in 1 .. Len(series.daily.time) : DateOf(series.daily.time[i]) = date}
           day == SelectInSeq(series.daily.time, LAMBDA stamp : DateOf(stamp) = date)
<1>1. BuildDayWindows(series)[d] = window
  BY DEF BuildDayWindows
<1> HIDE DEF date
<1>2. window.hourIndexes \in SUBSET (1 .. Len(series.hourly.time))
  BY DEF DayWindow, IndexesOn, SoundSeries, SoundChannel
<1>3. window.daylightIndexes \subseteq window.hourIndexes
  BY DEF DayWindow
<1>4. day = 0 \/ day \in 1 .. Len(series.daily.time)
  <2>1. day = IF I # {} THEN Min(I) ELSE 0
    BY DEF SelectInSeq
  <2>2. I \in SUBSET Nat /\ I \subseteq 1 .. Len(series.daily.time)
    BY DEF SoundSeries, SoundChannel
  <2> HIDE DEF I
  <2>3. I # {} => \E m \in I : \A i \in I : m <= i
    BY <2>2, LeastThere
  <2>4. I # {} => Min(I) \in I
    BY <2>3 DEF Min
  <2> QED
    BY <2>1, <2>2, <2>4
<1>5. window.dailyIndex = IF day = 0 THEN None ELSE day
  BY DEF DayWindow
<1> HIDE DEF window, day
<1> QED
  BY <1>1, <1>2, <1>3, <1>4, <1>5 DEF WindowFits

\* An entry that is weighed keeps what was read, and its feature.
LEMMA AppliedFeatures ==
    ASSUME NEW n \in Nat, NEW features, DOMAIN features = 1 .. n, NEW series, NEW window,
           "missing" \notin DOMAIN ApplyNullPolicy(Entries(features, series, window)),
           NEW i \in DOMAIN ApplyNullPolicy(Entries(features, series, window)).features
    PROVE  LET entry == ApplyNullPolicy(Entries(features, series, window)).features[i]
           IN  /\ i \in DOMAIN features
               /\ entry.feature = features[i]
               /\ entry.value = ValueOf(features[i], series, window)
               /\ entry.status = "excluded" => entry.value = None
<1> DEFINE entries == Entries(features, series, window)
           applied == ApplyNullPolicy(entries)
<1>1. applied = [features |-> [k \in DOMAIN entries |-> Weigh(entries[k], Additive(entries))]]
  <2> HIDE DEF entries
  <2> QED
    BY DEF ApplyNullPolicy, entries
<1>2. /\ i \in DOMAIN entries
      /\ applied.features[i] = Weigh(entries[i], Additive(entries))
  <2>1. i \in DOMAIN applied.features
    OBVIOUS
  <2> HIDE DEF entries, applied
  <2> QED
    BY <1>1, <2>1
<1>3. /\ i \in DOMAIN features
      /\ entries[i] = Entry(features[i], ValueOf(features[i], series, window))
  BY <1>2 DEF Entries
<1> HIDE DEF entries, applied
<1>4. /\ applied.features[i].feature = features[i]
      /\ applied.features[i].value = ValueOf(features[i], series, window)
      /\ applied.features[i].status = StatusOf(features[i], ValueOf(features[i], series, window))
  BY <1>2, <1>3 DEF Weigh, Entry
<1>5. applied.features[i].status = "excluded" => applied.features[i].value = None
  BY <1>4 DEF StatusOf
<1> QED
  BY <1>3, <1>4, <1>5 DEF applied, entries

\* What is read of a feature becomes a score on its curve, or is the neutral one,
\* unless its curve is a bell that vanishes.
LEMMA AppliedIsNormalized ==
    ASSUME NEW definition, CleanDefinition(definition), NEW series, SoundSeries(series),
           NEW window, WindowFits(window, series),
           NEW applied, applied = ApplyNullPolicy(Entries(definition.features, series, window)),
           "missing" \notin DOMAIN applied, NEW i \in DOMAIN applied.features
    PROVE  LET normalized == NormalizedOf(applied.features[i], Profile)
           IN  /\ normalized \in Score \cup {NaN}
               /\ normalized \in Score \/ NarrowBell(definition)
               /\ applied.features[i].status = "excluded" => normalized \in Score
<1> DEFINE entry == applied.features[i]
           f == definition.features[i]
           value == ValueOf(f, series, window)
<1>1. /\ i \in DOMAIN definition.features /\ entry.feature = f /\ entry.value = value
      /\ entry.status = "excluded" => value = None
  BY AppliedFeatures DEF CleanDefinition
<1> HIDE DEF entry, f, value
<1>2. CleanFeature(f)
  BY <1>1 DEF CleanDefinition, f
<1>3. IsNumber(value)
  BY <1>2, ValueIsNumber DEF CleanFeature, value
<1>4. CASE value = None
  <2>1. Profile.neutralScore \in Score
    BY AssessmentAssumption
  <2> QED
    BY <1>1, <1>4, <2>1 DEF NormalizedOf, entry
<1>5. CASE value # None
  <2>1. value.value \in Int
    BY <1>3, <1>5 DEF IsNumber
  <2> DEFINE type == f.normalizer.type
             params == f.normalizer.params
             normalized == Normalize(type, value.value, params)
  <2>2. /\ normalized \in Score \cup {NaN}
        /\ ~Vanishing(type, params) => normalized \in Score
    BY <1>2, <2>1, AcceptedCurvesScore DEF CleanFeature
  <2>3. Vanishing(type, params) => NarrowBell(definition)
    BY <1>1 DEF NarrowBell, Range, f
  <2>4. NormalizedOf(entry, Profile) = normalized
    BY <1>1, <1>5 DEF NormalizedOf
  <2> HIDE DEF normalized, type, params
  <2> QED
    BY <1>1, <1>5, <2>2, <2>3, <2>4 DEF entry
<1> QED
  BY <1>4, <1>5

\* No curve but a bell that vanishes is given what it cannot make a score of.
LEMMA CleanNeverThrows ==
    ASSUME NEW definition, CleanDefinition(definition), ~NarrowBell(definition),
           NEW series, SoundSeries(series), NEW window, WindowFits(window, series)
    PROVE  ScoreActivity(definition, series, window, Profile) # Thrown
<1> DEFINE applied == ApplyNullPolicy(Entries(definition.features, series, window))
           breakdown == Breakdown(applied.features, Profile)
           outcome == ScoreActivity(definition, series, window, Profile)
<1>1. ASSUME "missing" \notin DOMAIN applied, NEW i \in DOMAIN breakdown
      PROVE  breakdown[i].normalized # NaN
  <2> DEFINE entry == applied.features[i]
  <2>1. i \in DOMAIN applied.features /\ breakdown[i] = Explained(entry, NormalizedOf(entry, Profile))
    BY DEF Breakdown
  <2>2. NormalizedOf(entry, Profile) \in Score
    BY <1>1, <2>1, AppliedIsNormalized
  <2> HIDE DEF entry
  <2>3. NormalizedOf(entry, Profile) # NaN /\ 0 # NaN
    BY <2>2, NormalizersAssumption DEF Score
  <2>4. breakdown[i].normalized \in {0, NormalizedOf(entry, Profile)}
    BY <2>1 DEF Explained
  <2> QED
    BY <2>3, <2>4
<1>2. "missing" \notin DOMAIN applied => Scored(definition, breakdown).kind = "ranked"
  <2> HIDE DEF breakdown
  <2> QED
    BY <1>1 DEF Scored, Ranked
<1> HIDE DEF breakdown, applied
<1>3. outcome.kind \in {"no_data", "ranked"}
  BY <1>2 DEF ScoreActivity, Judge, NoData, Ranked, breakdown, applied
<1> HIDE DEF outcome
<1>4. outcome # Thrown
  BY <1>3 DEF Thrown
<1> QED
  BY <1>4 DEF outcome

----------------------------------------------------------------------------
(**************************************************************************)
(* The assessment: its inductive invariant, and that every step keeps it.  *)
(**************************************************************************)

\* A response a host may give to what was wanted, and what a source makes of one.
Came(c, response) == \E r \in Responses[c] : response = AnswerTo(r, c)

\* What a source may have made of what came, or of a recording.
Made(c, response, result) ==
    \/ Came(c, response) /\ result = Interpret(response, c, Wanted(c))
    \/ /\ \E cell : response = Chosen(Recordings, c, cell, Horizon)
       /\ result = Serve(response, c, Horizon, Wanted(c), Now)

\* A result is made of its response.
Answered(c) == Made(c, exchange[c].response, exchange[c].result)

\* The catalogue is what the load makes of its input.
IsLoaded == catalogue = LoadDeclarations(load.inputs, load.shared, load.published)

\* A call has a response to read while it reads, and a result made of it after.
ExchangeInv(c) ==
    /\ DOMAIN exchange[c] = {"phase", "response", "result"}
    /\ exchange[c].phase # "waiting" => catalogue # None
    /\ exchange[c].phase = "reading" => Came(c, exchange[c].response)
    /\ Served(c) => Answered(c)

\* No call is under way.
Closed == \A c \in Capability : exchange[c].phase \in {"unused", "settled"}

\* The inductive invariant.
AssessmentInv ==
    /\ load \in Loads
    /\ days \in Nat \ {0}
    /\ catalogue # None => IsLoaded
    /\ DOMAIN exchange = Capability
    /\ \A c \in Capability : ExchangeInv(c)
    /\ outcomes # None => /\ catalogue # None /\ catalogue.ok /\ Closed
                          /\ outcomes = [a \in Activities |-> Judged(a)]

\* It holds at the start,
LEMMA InitEstablishesInv == Init => AssessmentInv
<1> SUFFICES ASSUME Init PROVE AssessmentInv
  OBVIOUS
<1>1. load \in Loads /\ days \in Nat \ {0} /\ catalogue = None /\ outcomes = None
      /\ DOMAIN exchange = Capability
  BY AssessmentAssumption DEF Init
<1>2. ASSUME NEW c \in Capability PROVE ExchangeInv(c)
  <2>1. exchange[c] = [phase |-> "waiting", response |-> None, result |-> None]
    BY DEF Init
  <2> QED
    BY <2>1 DEF ExchangeInv, Served
<1> QED
  BY <1>1, <1>2 DEF AssessmentInv

\* What a question wants does not change once the catalogue is there.
LEMMA SameIsWanted ==
    ASSUME UNCHANGED <<load, catalogue, binding, days>>, NEW c
    PROVE  /\ \A response : Came(c, response)' = Came(c, response)
           /\ \A response, result : Made(c, response, result)' = Made(c, response, result)
<1>1. Wanted(c)' = Wanted(c)
  BY DEF Wanted, Activities, Definitions, Reads
<1>2. Horizon' = Horizon
  BY DEF Horizon
<1>3. ASSUME NEW r PROVE AnswerTo(r, c)' = AnswerTo(r, c)
  BY <1>1, Zenon DEF AnswerTo
<1>4. ASSUME NEW response PROVE Came(c, response)' = Came(c, response)
  BY <1>3 DEF Came
<1>5. ASSUME NEW response, NEW result PROVE Made(c, response, result)' = Made(c, response, result)
  <2>1. Came(c, response)' = Came(c, response)
    BY <1>4
  <2> QED
    BY <1>1, <1>2, <2>1 DEF Made
<1> QED
  BY <1>4, <1>5

\* An exchange that is left alone stays what it is.
LEMMA OtherExchange ==
    ASSUME AssessmentInv, NEW c \in Capability, UNCHANGED <<load, catalogue, binding, days>>,
           exchange'[c] = exchange[c]
    PROVE  ExchangeInv(c)'
<1>1. ExchangeInv(c)
  BY DEF AssessmentInv
<1>2. /\ Came(c, exchange[c].response)' = Came(c, exchange[c].response)
      /\ Answered(c)' = Answered(c)
  BY SameIsWanted DEF Answered
<1>3. Served(c)' = Served(c)
  BY DEF Served
<1> QED
  BY <1>1, <1>2, <1>3 DEF ExchangeInv

\* A judgement depends on the catalogue, the answers and the days only.
LEMMA SameIsJudged ==
    ASSUME UNCHANGED <<catalogue, exchange, days>>
    PROVE  /\ Activities' = Activities
           /\ \A a : Judged(a)' = Judged(a)
<1>1. Activities' = Activities
  BY DEF Activities, Definitions
<1>2. ASSUME NEW a PROVE Judged(a)' = Judged(a)
  <2>1. Reads(a)' = Reads(a) /\ Definitions' = Definitions
    BY DEF Reads, Definitions
  <2>2. Answerable(a)' = Answerable(a)
    BY <2>1 DEF Answerable, Served
  <2>3. \A c : Cut(c)' = Cut(c)
    BY DEF Cut
  <2>4. SeriesOf(a, TRUE)' = SeriesOf(a, TRUE)
    BY <2>1, <2>3 DEF SeriesOf
  <2>5. \A merged : JudgeMerged(a, merged)' = JudgeMerged(a, merged)
    BY <2>1 DEF JudgeMerged, JudgeDays
  <2> QED
    BY <2>2, <2>4, <2>5 DEF Judged
<1> QED
  BY <1>1, <1>2

\* Only the call of one capability has changed, and there was one to change.
OnlyThisCall(c) ==
    /\ exchange[c].phase \in {"asking", "reading"}
    /\ DOMAIN exchange' = Capability
    /\ \A other \in Capability \ {c} : exchange'[other] = exchange[other]
    /\ UNCHANGED <<load, catalogue, binding, days, outcomes>>

\* A call that goes on, or ends, with what it may go on or end with.
LEMMA CallGoesOn ==
    ASSUME AssessmentInv, NEW c \in Capability, OnlyThisCall(c),
           DOMAIN exchange'[c] = {"phase", "response", "result"},
           exchange'[c].phase \in {"reading", "settled"},
           exchange'[c].phase = "reading" => Came(c, exchange'[c].response),
           exchange'[c].phase = "settled" /\ exchange'[c].result.ok
              => Made(c, exchange'[c].response, exchange'[c].result)
    PROVE  AssessmentInv'
<1>1. DOMAIN exchange = Capability /\ catalogue # None /\ outcomes = None
  <2>1. ~Closed
    BY DEF Closed, OnlyThisCall
  <2> QED
    BY <2>1 DEF AssessmentInv, ExchangeInv, OnlyThisCall
<1>2. /\ DOMAIN exchange' = Capability
      /\ \A other \in Capability : other # c => exchange'[other] = exchange[other]
      /\ UNCHANGED <<load, catalogue, binding, days, outcomes>>
  BY DEF OnlyThisCall
<1>3. ExchangeInv(c)'
  <2>1. /\ Came(c, exchange'[c].response) => Came(c, exchange[c].response)'
        /\ Made(c, exchange'[c].response, exchange'[c].result)
              => Made(c, exchange[c].response, exchange[c].result)'
    BY <1>2, SameIsWanted
  <2>2. Served(c)' => Answered(c)'
    BY <1>2, <2>1 DEF Served, Answered
  <2> QED
    BY <1>1, <1>2, <2>1, <2>2 DEF ExchangeInv
<1>4. ASSUME NEW other \in Capability, other # c PROVE ExchangeInv(other)'
  BY <1>2, <1>4, OtherExchange
<1>5. load' \in Loads /\ days' \in Nat /\ outcomes' = None /\ catalogue' # None /\ IsLoaded'
  BY <1>1, <1>2 DEF AssessmentInv, IsLoaded
<1> QED
  BY <1>2, <1>3, <1>4, <1>5 DEF AssessmentInv

\* and every step keeps it,
LEMMA StepKeepsInv == AssessmentInv /\ [Next]_vars => AssessmentInv'
<1> SUFFICES ASSUME AssessmentInv, [Next]_vars PROVE AssessmentInv'
  OBVIOUS
<1>1. /\ load \in Loads /\ days \in Nat
      /\ catalogue # None => IsLoaded
      /\ DOMAIN exchange = Capability
      /\ \A c \in Capability : ExchangeInv(c)
  BY DEF AssessmentInv
<1>2. CASE Load
  <2>1. \A c \in Capability : exchange[c].phase = "waiting"
    BY <1>1, <1>2 DEF Load, ExchangeInv
  <2>2. outcomes' = None
    BY <1>2 DEF Load, AssessmentInv
  <2>3. IsLoaded'
    BY <1>2 DEF Load, IsLoaded
  <2>4. ASSUME NEW c \in Capability PROVE ExchangeInv(c)'
    <3>1. exchange'[c] = exchange[c] /\ exchange[c].phase = "waiting"
      BY <1>2, <2>1 DEF Load
    <3> QED
      BY <1>1, <3>1 DEF ExchangeInv, Served
  <2> QED
    BY <1>1, <1>2, <2>2, <2>3, <2>4 DEF Load, AssessmentInv
<1>3. CASE Plan
  <2>1. ~Closed
    BY <1>3 DEF Plan, Closed, Capability
  <2>2. outcomes' = None
    BY <1>3, <2>1 DEF Plan, AssessmentInv
  <2>3. ASSUME NEW c \in Capability PROVE ExchangeInv(c)'
    <3>1. exchange'[c] = [exchange[c] EXCEPT !.phase = IF Wanted(c) = {} THEN "unused" ELSE "asking"]
      BY <1>3 DEF Plan
    <3>2. DOMAIN exchange[c] = {"phase", "response", "result"}
      BY <1>1 DEF ExchangeInv
    <3>3. DOMAIN exchange'[c] = {"phase", "response", "result"}
          /\ exchange'[c].phase \in {"unused", "asking"}
      BY <3>1, <3>2
    <3> QED
      BY <1>3, <3>3 DEF ExchangeInv, Served, Plan
  <2>4. DOMAIN exchange' = Capability
    BY <1>3 DEF Plan
  <2> QED
    BY <1>1, <1>3, <2>2, <2>3, <2>4 DEF Plan, AssessmentInv, IsLoaded
<1>4. CASE Assess
  <2>1. Activities' = Activities /\ \A a : Judged(a)' = Judged(a)
    BY <1>4, SameIsJudged DEF Assess
  <2>2. (outcomes = [a \in Activities |-> Judged(a)])'
    BY <1>4, <2>1 DEF Assess
  <2>3. ASSUME NEW c \in Capability PROVE ExchangeInv(c)'
    BY <1>4, OtherExchange DEF Assess
  <2>4. catalogue' # None /\ catalogue'.ok /\ Closed'
    BY <1>4 DEF Assess, Closed
  <2> QED
    BY <1>1, <1>4, <2>2, <2>3, <2>4 DEF Assess, AssessmentInv, IsLoaded
<1>5. ASSUME NEW c \in Capability,
             Decline(c) \/ NoAnswer(c) \/ Headers(c) \/ Body(c) \/ BodyBreaks(c) \/ Recorded(c)
      PROVE  AssessmentInv'
  <2> DEFINE Call(phase, response, result) ==
               [phase |-> phase, response |-> response, result |-> result]
  <2>1. ASSUME NEW response, NEW result, Settles(c, response, result),
               exchange[c].phase \in {"asking", "reading"},
               UNCHANGED <<load, catalogue, binding, days, outcomes>>,
               result.ok => Made(c, response, result)
        PROVE  AssessmentInv'
    <3>1. exchange' = [exchange EXCEPT ![c] = Call("settled", response, result)]
      BY <2>1 DEF Settles
    <3>2. /\ exchange'[c] = Call("settled", response, result)
          /\ OnlyThisCall(c)
      BY <1>1, <2>1, <3>1 DEF OnlyThisCall
    <3>3. /\ DOMAIN exchange'[c] = {"phase", "response", "result"}
          /\ exchange'[c].phase = "settled"
          /\ exchange'[c].response = response
          /\ exchange'[c].result = result
      BY <3>2
    <3> QED
      BY <2>1, <3>2, <3>3, CallGoesOn
  <2>2. CASE Decline(c)
    BY <2>1, <2>2 DEF Decline
  <2>3. CASE NoAnswer(c)
    <3>1. PICK code : Settles(c, None, Err(code))
      BY <2>3 DEF NoAnswer
    <3>2. ~Err(code).ok
      BY DEF Err
    <3> QED
      BY <2>1, <2>3, <3>1, <3>2 DEF NoAnswer, Asks
  <2>4. CASE Headers(c)
    <3>1. PICK r \in Responses[c] :
             LET response == AnswerTo(r, c)
                 answered == AtHeaders(response)
             IN  IF answered.ok
                 THEN exchange' = [exchange EXCEPT ![c].phase = "reading", ![c].response = response]
                 ELSE Settles(c, response, answered)
      BY <2>4 DEF Headers
    <3>2. /\ exchange[c].phase = "asking"
          /\ UNCHANGED <<load, catalogue, binding, days, outcomes>>
      BY <2>4 DEF Headers, Asks
    <3>3. CASE AtHeaders(AnswerTo(r, c)).ok
      <4>1. exchange' = [exchange EXCEPT ![c].phase = "reading", ![c].response = AnswerTo(r, c)]
        BY <3>1, <3>3
      <4>2. DOMAIN exchange[c] = {"phase", "response", "result"}
        BY <1>1 DEF ExchangeInv
      <4>3. /\ DOMAIN exchange'[c] = {"phase", "response", "result"}
            /\ exchange'[c].phase = "reading"
            /\ exchange'[c].response = AnswerTo(r, c)
        BY <1>1, <4>1, <4>2
      <4>4. OnlyThisCall(c)
        BY <1>1, <3>2, <4>1 DEF OnlyThisCall
      <4>5. Came(c, exchange'[c].response)
        BY <4>3 DEF Came
      <4> QED
        BY <4>3, <4>4, <4>5, CallGoesOn
    <3>4. CASE ~AtHeaders(AnswerTo(r, c)).ok
      BY <2>1, <3>1, <3>2, <3>4
    <3> QED
      BY <3>3, <3>4
  <2>5. CASE Body(c)
    <3>1. exchange[c].phase = "reading"
          /\ Settles(c, exchange[c].response, Interpret(exchange[c].response, c, Wanted(c)))
          /\ UNCHANGED <<load, catalogue, binding, days, outcomes>>
      BY <2>5 DEF Body
    <3>2. Came(c, exchange[c].response)
      BY <1>1, <3>1 DEF ExchangeInv
    <3> QED
      BY <2>1, <3>1, <3>2 DEF Made
  <2>6. CASE BodyBreaks(c)
    <3>1. ~Rejected.ok
      BY DEF Rejected, Err
    <3> QED
      BY <2>1, <2>6, <3>1 DEF BodyBreaks
  <2>7. CASE Recorded(c)
    <3>1. PICK cell : LET recording == Chosen(Recordings, c, cell, Horizon)
                      IN  Settles(c, recording, Serve(recording, c, Horizon, Wanted(c), Now))
      BY <2>7 DEF Recorded
    <3> DEFINE recording == Chosen(Recordings, c, cell, Horizon)
               result == Serve(recording, c, Horizon, Wanted(c), Now)
    <3>2. Settles(c, recording, result)
      BY <3>1
    <3>3. Made(c, recording, result)
      BY DEF Made
    <3> HIDE DEF recording, result
    <3> QED
      BY <2>1, <2>7, <3>2, <3>3 DEF Recorded, Asks
  <2> QED
    BY <1>5, <2>2, <2>3, <2>4, <2>5, <2>6, <2>7
<1>6. CASE UNCHANGED vars
  <2>1. Activities' = Activities /\ \A a : Judged(a)' = Judged(a)
    BY <1>6, SameIsJudged DEF vars
  <2>2. ASSUME NEW c \in Capability PROVE ExchangeInv(c)'
    BY <1>6, OtherExchange DEF vars
  <2>3. outcomes = [a \in Activities |-> Judged(a)] => (outcomes = [a \in Activities |-> Judged(a)])'
    BY <1>6, <2>1 DEF vars
  <2>4. Closed' = Closed
    BY <1>6 DEF vars, Closed
  <2> QED
    BY <1>6, <2>2, <2>3, <2>4 DEF vars, AssessmentInv, IsLoaded
<1> QED
  BY <1>2, <1>3, <1>4, <1>5, <1>6 DEF Next

\* so that it always holds.
LEMMA AssessmentIsInvariant == Spec => []AssessmentInv
  BY InitEstablishesInv, StepKeepsInv, PTL DEF Spec

----------------------------------------------------------------------------
(**************************************************************************)
(* What is judged: clean definitions, on sound series that were served.    *)
(**************************************************************************)

\* What a source gave is what the mapping made of an envelope, with the numbers
\* of the one that came or was recorded.
LEMMA ServedSeries ==
    ASSUME AssessmentInv, NEW c \in Capability, Served(c)
    PROVE  \E value : /\ value = None \/ IsEnvelope(value)
                      /\ exchange[c].result = Mapped(value, c, Wanted(c))
                      /\ SameArrays(value, exchange[c].response.value)
<1>1. Made(c, exchange[c].response, exchange[c].result) /\ exchange[c].result.ok
  BY DEF AssessmentInv, ExchangeInv, Answered, Served
<1>2. CASE /\ Came(c, exchange[c].response)
           /\ exchange[c].result = Interpret(exchange[c].response, c, Wanted(c))
  <2>1. PICK r \in Responses[c] : exchange[c].response = AnswerTo(r, c)
    BY <1>2 DEF Came
  <2>2. IsResponse(r)
    BY AssessmentAssumption
  <2>3. exchange[c].response.value = None \/ IsEnvelope(exchange[c].response.value)
    BY <2>1, <2>2, AnswerIsResponse
  <2>4. exchange[c].result = Mapped(exchange[c].response.value, c, Wanted(c))
    BY <1>1, <1>2, InterpretedIsMapped
  <2> QED
    BY <2>3, <2>4 DEF SameArrays
<1>3. CASE /\ \E cell : exchange[c].response = Chosen(Recordings, c, cell, Horizon)
           /\ exchange[c].result = Serve(exchange[c].response, c, Horizon, Wanted(c), Now)
  <2>1. PICK cell : exchange[c].response = Chosen(Recordings, c, cell, Horizon)
    BY <1>3
  <2> DEFINE recording == exchange[c].response
  <2>2. Serve(recording, c, Horizon, Wanted(c), Now).ok
    BY <1>1, <1>3
  <2> HIDE DEF recording
  <2>3. recording = Chosen(Recordings, c, cell, Horizon)
    BY <2>1 DEF recording
  <2>4. \E value : /\ value = None \/ IsEnvelope(value)
                   /\ SameArrays(value, recording.value)
                   /\ Serve(recording, c, Horizon, Wanted(c), Now) = Mapped(value, c, Wanted(c))
    BY <2>2, <2>3, ServedIsMapped
  <2> QED
    BY <1>3, <2>4 DEF recording
<1> QED
  BY <1>1, <1>2, <1>3 DEF Made

\* What is there of a capability: a sound series with everything wanted of it,
\* which cutting leaves sound and leaves its metrics.
LEMMA ServedIsSound ==
    ASSUME AssessmentInv, NEW c \in Capability, Served(c)
    PROVE  /\ SoundSeries(Cut(c))
           /\ Wanted(c) \subseteq MetricsOf(Cut(c))
           /\ SoundSeries(exchange[c].result.value)
<1>1. PICK value : /\ value = None \/ IsEnvelope(value)
                   /\ exchange[c].result = Mapped(value, c, Wanted(c))
  BY ServedSeries
<1>2. Mapped(value, c, Wanted(c)).ok
  BY <1>1 DEF Served
<1>3. SoundSeries(exchange[c].result.value) /\ Wanted(c) \subseteq MetricsOf(exchange[c].result.value)
  BY <1>1, <1>2, MappedSeriesIsSound
<1>4. days \in Nat
  BY DEF AssessmentInv
<1> QED
  BY <1>3, <1>4, SliceIsSound DEF Cut, MetricsOf

\* What is judged was loaded without a fault.
LEMMA LoadedIsClean ==
    ASSUME AssessmentInv, outcomes # None, NEW a \in Activities
    PROVE  CleanDefinition(Definitions[a])
<1> DEFINE rules == SharedRules(load.shared)
<1>1. load \in Loads /\ catalogue = LoadDeclarations(load.inputs, load.shared, load.published) /\ catalogue.ok
  BY DEF AssessmentInv, IsLoaded
<1>2. catalogue.value = Resolve(load.inputs, rules)
  BY <1>1 DEF LoadDeclarations, LoadWith, Loaded, Ok, Err
<1> QED
  BY <1>1, <1>2, ResolvedIsClean DEF Activities, Definitions

\* A metric that is known has a source, and so have those it is computed from.
LEMMA KnownIsServed ==
    ASSUME NEW code, MetaOf(code) # None
    PROVE  /\ BaseMetrics({code}) # {}
           /\ \A m \in BaseMetrics({code}) : m \in MetricCodes /\ Dictionary[m].capability \in Capability
<1>1. code \in DOMAIN Derived \/ (code \notin DOMAIN Derived /\ code \in MetricCodes)
  BY DEF MetaOf
<1>2. \A m \in MetricCodes : Dictionary[m].capability \in {"forecast", "marine"}
  BY DEF Dictionary, MetricCodes, Forecast, Marine, Def
<1>3. CASE code \in DOMAIN Derived
  <2>1. BaseMetrics({code}) = ToSet(Derived[code].requires)
    BY <1>3 DEF BaseMetrics
  <2>2. ToSet(Derived[code].requires) # {} /\ ToSet(Derived[code].requires) \subseteq MetricCodes
    BY <1>3 DEF Derived, ToSet, MetricCodes, Dictionary
  <2> QED
    BY <1>2, <2>1, <2>2 DEF Capability
<1>4. CASE code \notin DOMAIN Derived /\ code \in MetricCodes
  BY <1>2, <1>4 DEF BaseMetrics, Capability
<1> QED
  BY <1>1, <1>3, <1>4

\* The metrics a reader makes the service ask for.
Needs(reader) == BaseMetrics(Required(reader))

\* Who asks for more gets more.
LEMMA BaseOfMore ==
    ASSUME NEW S, NEW T, S \subseteq T
    PROVE  BaseMetrics(S) \subseteq BaseMetrics(T)
  BY DEF BaseMetrics

\* What a definition reads is asked for.
LEMMA ReadersAreHeard ==
    ASSUME NEW a, NEW reader \in Readers(Definitions[a])
    PROVE  Needs(reader) \subseteq Reads(a)
<1> DEFINE definition == Definitions[a]
<1>1. Required(reader) \subseteq MetricRequirements(definition)
  <2>1. CASE reader \in Range(definition.features)
    <3>1. PICK i \in DOMAIN definition.features : reader = definition.features[i]
      BY <2>1 DEF Range
    <3> QED
      BY <3>1 DEF MetricRequirements
  <2>2. CASE \E constraint \in Range(definition.constraints) : reader \in Leaves(constraint.when)
    <3>1. PICK i \in DOMAIN definition.constraints :
             reader \in Leaves(definition.constraints[i].when)
      BY <2>2 DEF Range
    <3>2. Required(reader) \subseteq ExprRequirements(definition.constraints[i].when)
      BY <3>1 DEF ExprRequirements
    <3> QED
      BY <3>2 DEF MetricRequirements
  <2> QED
    BY <2>1, <2>2 DEF Readers
<1> QED
  BY <1>1, BaseOfMore DEF Needs, Reads

\* And some source has to be asked for it.
LEMMA SomethingIsNeeded ==
    ASSUME AssessmentInv, outcomes # None, NEW a \in Activities
    PROVE  {c \in Capability : \E m \in Reads(a) : Dictionary[m].capability = c} # {}
<1>1. CleanDefinition(Definitions[a])
  BY LoadedIsClean
<1> DEFINE f == Definitions[a].features[1]
<1>2. 1 \in DOMAIN Definitions[a].features /\ CleanReader(f)
  BY <1>1 DEF CleanDefinition, CleanFeature
<1>3. f \in Readers(Definitions[a])
  BY <1>2 DEF Readers, Range
<1>4. Needs(f) \subseteq Reads(a)
  BY <1>3, ReadersAreHeard
<1>5. BaseMetrics({f.metric}) \subseteq Needs(f)
  BY BaseOfMore DEF Needs, Required
<1>6. PICK m \in BaseMetrics({f.metric}) : Dictionary[m].capability \in Capability
  BY <1>2, KnownIsServed DEF CleanReader
<1> QED
  BY <1>4, <1>5, <1>6

\* What is merged for an activity is sound, and comes from sources that served.
LEMMA SeriesIsSound ==
    ASSUME AssessmentInv, outcomes # None, NEW a \in Activities, Answerable(a),
           SeriesOf(a, TRUE).ok
    PROVE  /\ SoundSeries(SeriesOf(a, TRUE).value)
           /\ \/ /\ \A c \in Capability : Served(c)
                 /\ SeriesOf(a, TRUE) = MergeSeries(Cut("forecast"), Cut("marine"))
              \/ \E c \in Capability :
                    /\ Served(c)
                    /\ \A m \in Reads(a) : Dictionary[m].capability \in Capability
                                             => Dictionary[m].capability = c
                    /\ SeriesOf(a, TRUE) = Ok(Cut(c))
<1> DEFINE needed == {c \in Capability : \E m \in Reads(a) : Dictionary[m].capability = c}
           some == CHOOSE c \in needed : TRUE
<1>1. \A c \in needed : Served(c)
  BY DEF Answerable
<1>2. CASE needed = Capability
  <2>1. SeriesOf(a, TRUE) = MergeSeries(Cut("forecast"), Cut("marine"))
    BY <1>2 DEF SeriesOf
  <2>2. SoundSeries(Cut("forecast")) /\ SoundSeries(Cut("marine"))
    BY <1>1, <1>2, ServedIsSound DEF Capability
  <2>3. SoundSeries(SeriesOf(a, TRUE).value)
    BY <2>1, <2>2, MergeIsSound
  <2> QED
    BY <1>1, <1>2, <2>1, <2>3
<1>3. CASE needed # Capability
  <2>1. SeriesOf(a, TRUE) = Ok(Cut(some))
    BY <1>3 DEF SeriesOf
  <2>2. needed # {}
    BY SomethingIsNeeded
  <2>3. some \in needed
    BY <2>2
  <2> HIDE DEF some
  <2>4. PICK other \in Capability : other \notin needed
    BY <1>3
  <2>5. needed = {some}
    BY <2>3, <2>4 DEF Capability
  <2>6. Served(some) /\ some \in Capability
    BY <1>1, <2>3
  <2>7. SoundSeries(SeriesOf(a, TRUE).value)
    <3>1. SoundSeries(Cut(some))
      BY <2>6, ServedIsSound
    <3>2. Ok(Cut(some)).value = Cut(some)
      BY DEF Ok
    <3> QED
      BY <2>1, <3>1, <3>2, Zenon
  <2> QED
    BY <2>1, <2>5, <2>6, <2>7
<1> QED
  BY <1>2, <1>3

\* What is said of an activity that could be judged.
LEMMA AssessedIsJudged ==
    ASSUME AssessmentInv, NEW a \in Assessed
    PROVE  /\ outcomes # None /\ a \in Activities /\ Answerable(a) /\ SeriesOf(a, TRUE).ok
           /\ outcomes[a] = JudgeDays(a, SeriesOf(a, TRUE).value)
<1>1. outcomes # None /\ a \in Activities /\ Mergeable(a)
  BY DEF Assessed
<1>2. outcomes[a] = Judged(a)
  BY <1>1 DEF AssessmentInv
<1>3. outcomes[a] # <<>> /\ SeriesOf(a, TRUE).ok
  BY <1>1 DEF Mergeable
<1>4. Answerable(a)
  BY <1>2, <1>3 DEF Judged
<1> QED
  BY <1>1, <1>2, <1>3, <1>4 DEF Judged, JudgeMerged

\* What loads without a fault never makes the engine throw, whatever the sources
\* answered: every curve, mean and share has something to divide by
\* (branded.ts:38-41, scoring-engine.ts:136-140).  The exception is a definition with
\* a bell whose accepted sigma has a square of 0 (gaussian.ts:19).
THEOREM OnlyNarrowBellsMayThrow == Spec => []OnlyNarrowBellsThrow
<1>1. AssessmentInv => OnlyNarrowBellsThrow
  <2> SUFFICES ASSUME AssessmentInv, NEW a \in Assessed, ~NarrowBell(Definitions[a])
               PROVE  Thrown \notin Verdicts(a)
    BY DEF OnlyNarrowBellsThrow
  <2> DEFINE series == SeriesOf(a, TRUE).value
             windows == BuildDayWindows(series)
  <2>1. /\ outcomes # None /\ a \in Activities /\ Answerable(a) /\ SeriesOf(a, TRUE).ok
        /\ outcomes[a] = JudgeDays(a, series)
    BY AssessedIsJudged
  <2>2. SoundSeries(series) /\ CleanDefinition(Definitions[a])
    BY <2>1, SeriesIsSound, LoadedIsClean
  <2> HIDE DEF series
  <2>3. ASSUME NEW d \in DOMAIN windows PROVE outcomes[a][d] # Thrown
    <3>1. WindowFits(windows[d], series)
      BY <2>2, <2>3, WindowsFit
    <3> DEFINE window == windows[d]
    <3>2. outcomes[a][d] = ScoreActivity(Definitions[a], series, window, Profile)
      BY <2>1, <2>3 DEF JudgeDays
    <3> HIDE DEF window
    <3>3. WindowFits(window, series)
      BY <3>1 DEF window
    <3> QED
      BY <2>2, <3>2, <3>3, CleanNeverThrows
  <2>4. DOMAIN outcomes[a] = DOMAIN windows
    BY <2>1 DEF JudgeDays
  <2> QED
    BY <2>3, <2>4 DEF Verdicts, Days
<1> QED
  BY <1>1, AssessmentIsInvariant, PTL

----------------------------------------------------------------------------
(**************************************************************************)
(* Nothing that is read is left out.                                       *)
(**************************************************************************)

\* What a reader of a clean definition reads is known.
LEMMA ReadersAreClean ==
    ASSUME NEW definition, CleanDefinition(definition), NEW reader \in Readers(definition)
    PROVE  CleanReader(reader)
<1>1. CASE reader \in Range(definition.features)
  <2>1. PICK i \in DOMAIN definition.features : reader = definition.features[i]
    BY <1>1 DEF Range
  <2> QED
    BY <2>1 DEF CleanDefinition, CleanFeature
<1>2. CASE \E rule \in Range(definition.constraints) : reader \in Leaves(rule.when)
  <2>1. PICK i \in DOMAIN definition.constraints : reader \in Leaves(definition.constraints[i].when)
    BY <1>2 DEF Range
  <2> QED
    BY <2>1 DEF CleanDefinition, CleanRule
<1> QED
  BY <1>1, <1>2 DEF Readers

\* The metrics on the axes of a merge are those of either, but for what had no slot.
LEMMA MergeKeepsMetrics ==
    ASSUME NEW first, NEW next, SoundSeries(first), SoundSeries(next),
           MergeSeries(first, next).ok
    PROVE  /\ MetricsOf(first) \subseteq MetricsOf(MergeSeries(first, next).value) \cup OnNoSlot(first)
           /\ MetricsOf(next) \subseteq MetricsOf(MergeSeries(first, next).value) \cup OnNoSlot(next)
<1> DEFINE hourly == MergeChannel(first.hourly, next.hourly)
           daily == MergeChannel(first.daily, next.daily)
<1>1. ASSUME NEW left, NEW right, MergeChannel(left, right).ok
      PROVE  /\ left.time # <<>> => DOMAIN left.values \subseteq DOMAIN MergeChannel(left, right).value.values
             /\ right.time # <<>> => DOMAIN right.values \subseteq DOMAIN MergeChannel(left, right).value.values
  BY <1>1 DEF MergeChannel, Ok, Err
<1>2. hourly.ok /\ daily.ok
  BY DEF MergeSeries
<1>3. MergeSeries(first, next).value.hourly = hourly.value
      /\ MergeSeries(first, next).value.daily = daily.value
  BY <1>2 DEF MergeSeries, Ok
<1>4. MetricsOf(MergeSeries(first, next).value)
        = DOMAIN hourly.value.values \cup DOMAIN daily.value.values
  BY <1>3 DEF MetricsOf
<1>5. \A s : /\ s.hourly.time = <<>> => DOMAIN s.hourly.values \subseteq OnNoSlot(s)
             /\ s.daily.time = <<>> => DOMAIN s.daily.values \subseteq OnNoSlot(s)
  BY Zenon DEF OnNoSlot
<1>6. /\ first.hourly.time # <<>> => DOMAIN first.hourly.values \subseteq DOMAIN hourly.value.values
      /\ next.hourly.time # <<>> => DOMAIN next.hourly.values \subseteq DOMAIN hourly.value.values
      /\ first.daily.time # <<>> => DOMAIN first.daily.values \subseteq DOMAIN daily.value.values
      /\ next.daily.time # <<>> => DOMAIN next.daily.values \subseteq DOMAIN daily.value.values
  BY <1>1, <1>2
<1> HIDE DEF hourly, daily
<1> QED
  BY <1>4, <1>5, <1>6 DEF MetricsOf

\* Everything a definition reads, the hours of daylight it counts included, was
\* asked for and has arrived, unless the host answered with no slot at all
\* (metric-requirements.ts, open-meteo.source.ts:111-115).
THEOREM WhatIsReadArrives == Spec => []NothingReadIsLeftOut
<1>1. AssessmentInv => NothingReadIsLeftOut
  <2> DEFINE Read(reader) == BaseMetrics({reader.metric})
                    \cup (IF ReadsDaylight(reader.aggregation) THEN {"is_day"} ELSE {})
  <2> SUFFICES ASSUME AssessmentInv, NEW a \in Assessed, NEW reader \in Readers(Definitions[a]),
                      NEW m \in Read(reader)
               PROVE  \/ m \in MetricsOf(SeriesOf(a, TRUE).value)
                      \/ m \in OnNoSlot(Cut(Dictionary[m].capability))
    BY Zenon DEF NothingReadIsLeftOut
  <2> DEFINE c == Dictionary[m].capability
  <2>1. outcomes # None /\ a \in Activities /\ Answerable(a) /\ SeriesOf(a, TRUE).ok
    BY AssessedIsJudged
  <2>2. CleanReader(reader)
    BY <2>1, LoadedIsClean, ReadersAreClean
  <2>3. m \in Needs(reader) /\ c \in Capability
    <3>1. CASE m \in BaseMetrics({reader.metric})
      <4>1. BaseMetrics({reader.metric}) \subseteq Needs(reader)
        BY BaseOfMore DEF Needs, Required
      <4> QED
        BY <2>2, <3>1, <4>1, KnownIsServed DEF CleanReader
    <3>2. CASE ReadsDaylight(reader.aggregation) /\ m = "is_day"
      <4>1. "is_day" \in BaseMetrics({"is_day"}) /\ Dictionary["is_day"].capability = "forecast"
        BY DEF BaseMetrics, Derived, Dictionary, Def
      <4>2. BaseMetrics({"is_day"}) \subseteq Needs(reader)
        BY <3>2, BaseOfMore DEF Needs, Required
      <4> QED
        BY <3>2, <4>1, <4>2 DEF Capability
    <3> QED
      BY <3>1, <3>2
  <2>4. m \in Reads(a)
    BY <2>3, ReadersAreHeard
  <2>5. Served(c) /\ m \in Wanted(c)
    BY <2>1, <2>4 DEF Answerable, Wanted
  <2>6. m \in MetricsOf(Cut(c))
    BY <2>3, <2>5, ServedIsSound
  <2>7. CASE /\ \A other \in Capability : Served(other)
             /\ SeriesOf(a, TRUE) = MergeSeries(Cut("forecast"), Cut("marine"))
    <3>1. SoundSeries(Cut("forecast")) /\ SoundSeries(Cut("marine"))
      BY <2>7, ServedIsSound DEF Capability
    <3>2. MergeSeries(Cut("forecast"), Cut("marine")).ok
      BY <2>1, <2>7, Zenon
    <3>3. c = "forecast" \/ c = "marine"
      BY <2>3 DEF Capability
    <3> DEFINE merged == MergeSeries(Cut("forecast"), Cut("marine")).value
    <3>4. /\ MetricsOf(Cut("forecast")) \subseteq MetricsOf(merged) \cup OnNoSlot(Cut("forecast"))
          /\ MetricsOf(Cut("marine")) \subseteq MetricsOf(merged) \cup OnNoSlot(Cut("marine"))
      BY <3>1, <3>2, MergeKeepsMetrics
    <3> HIDE DEF merged
    <3>5. m \in MetricsOf(merged) \/ m \in OnNoSlot(Cut(c))
      BY <2>6, <3>3, <3>4
    <3> QED
      BY <2>7, <3>5, Zenon DEF merged
  <2>8. CASE \E other \in Capability :
                /\ \A n \in Reads(a) : Dictionary[n].capability \in Capability
                                         => Dictionary[n].capability = other
                /\ SeriesOf(a, TRUE) = Ok(Cut(other))
    <3>1. SeriesOf(a, TRUE) = Ok(Cut(c))
      BY <2>3, <2>4, <2>8, Zenon
    <3>2. Ok(Cut(c)).value = Cut(c)
      BY DEF Ok
    <3> QED
      BY <2>6, <3>1, <3>2, Zenon
  <2> QED
    BY <2>1, <2>7, <2>8, SeriesIsSound, Zenon
<1> QED
  BY <1>1, AssessmentIsInvariant, PTL

----------------------------------------------------------------------------
(**************************************************************************)
(* Scales.                                                                 *)
(**************************************************************************)

\* What is left of a division is less than what it was divided by.
LEMMA DivisionLoses ==
    ASSUME NEW x \in Int, NEW d \in {1, 18, 1000}
    PROVE  x - (x \div d) * d \in Int /\ Abs(x - (x \div d) * d) < d
<1>1. CASE d = 1
  BY <1>1 DEF Abs
<1>2. CASE d = 18
  BY <1>2 DEF Abs
<1>3. CASE d = 1000
  BY <1>3 DEF Abs
<1> QED
  BY <1>1, <1>2, <1>3

\* Four scales there are.
LEMMA ScaleOf ==
    ASSUME NEW u
    PROVE  /\ u = "km/h" => Scale(u) = 5
           /\ u = "m/s" => Scale(u) = 18
           /\ u = "km" => Scale(u) = 1000
           /\ u \notin {"km/h", "m/s", "km"} => Scale(u) = 1
<1>1. CASE u = "km/h"
  BY <1>1 DEF Scale
<1>2. CASE u = "m/s"
  BY <1>2 DEF Scale
<1>3. CASE u = "km"
  BY <1>3 DEF Scale
<1>4. CASE u \notin {"km/h", "m/s", "km"}
  BY <1>4 DEF Scale
<1> QED
  BY <1>1, <1>2, <1>3, <1>4

\* Normalising a label does not change how much it stands for.
LEMMA UnitIsAsLarge ==
    ASSUME NEW label \in Labels
    PROVE  /\ Scale(label) \in {1, 5, 18, 1000}
           /\ Scale(Unit(label)) = Scale(label)
           /\ Unit(label) = "km/h" => Scale(label) = 5
           /\ Unit(label) = "m" => Scale(label) = 1
<1>1. Scale(label) \in {1, 5, 18, 1000}
  BY ScaleOf
<1>2. \/ Unit(label) = label
      \/ /\ label \notin {"km/h", "m/s", "km", "m"}
         /\ Unit(label) \notin {"km/h", "m/s", "km", "m"}
  BY DEF Labels, Unit
<1>3. Scale(Unit(label)) = Scale(label)
  BY <1>2, ScaleOf
<1> QED
  BY <1>1, <1>2, <1>3, ScaleOf

\* A block that maps into a channel measures what it measured.
LEMMA MappedMeasuresTheSame ==
    ASSUME NEW block, IsBlock(block), ChannelSound(block), NEW metrics, NEW zone,
           MapChannel(block, metrics, zone).ok
    PROVE  SameMagnitudes(block, MapChannel(block, metrics, zone).value)
<1> DEFINE channel == MapChannel(block, metrics, zone).value
<1> SUFFICES ASSUME NEW v \in DOMAIN channel.values, NEW i \in DOMAIN channel.time
             PROVE  SameMagnitude(block.arrays[v][i], block.units[v], channel.values[v][i],
                                  Dictionary[v].canonicalUnit)
  BY DEF SameMagnitudes
<1>1. /\ SoundChannel(channel)
      /\ \/ LeftOut(block) /\ channel = EmptyChannel
         \/ /\ ~LeftOut(block)
            /\ Len(channel.time) = Len(block.time)
            /\ v \in DOMAIN block.units /\ v \in DOMAIN block.arrays
            /\ block.arrays[v] \in Seq(Slot)
            /\ Len(block.arrays[v]) = Len(block.time)
            /\ ConvertSeries(v, block.units[v], block.arrays[v]).ok
            /\ channel.values[v] = ConvertSeries(v, block.units[v], block.arrays[v]).value
  BY MappedIsSound
<1> HIDE DEF channel
<1>2. channel # EmptyChannel
  BY DEF EmptyChannel
<1> DEFINE label == block.units[v]
           slots == block.arrays[v]
           kept == channel.values[v]
           unit == Dictionary[v].canonicalUnit
<1>3. i \in 1 .. Len(slots) /\ DOMAIN slots = 1 .. Len(slots) /\ slots[i] \in Slot
  BY <1>1, <1>2 DEF SoundChannel
<1>4. label = AbsentUnit => slots[i] = None
  BY <1>1, <1>2, <1>3 DEF ChannelSound
<1>5. \/ label = AbsentUnit /\ kept[i] = None
      \/ /\ label \in Labels
         /\ \/ slots[i] = None /\ kept[i] = None
            \/ /\ slots[i] \in Int
               /\ \/ Unit(label) = unit /\ kept[i] = slots[i]
                  \/ /\ Unit(label) = "km/h" /\ unit = "m/s"
                     /\ kept[i] = (slots[i] * 5) \div 18
                  \/ /\ Unit(label) = "m" /\ unit = "km"
                     /\ kept[i] = slots[i] \div 1000
  <2>1. slots \in Seq(Slot) /\ ConvertSeries(v, label, slots).ok
        /\ kept = ConvertSeries(v, label, slots).value
    BY <1>1, <1>2
  <2> QED
    BY <1>3, <2>1, ConvertedSlots
<1> HIDE DEF label, slots, kept, unit
<1>6. SameMagnitude(slots[i], label, kept[i], unit)
  <2>1. CASE slots[i] = None
    BY <1>4, <1>5, <2>1, NormalizersAssumption DEF SameMagnitude
  <2>2. CASE slots[i] \in Int /\ label \in Labels /\ Unit(label) = unit /\ kept[i] = slots[i]
    <3>1. Scale(unit) = Scale(label) /\ Scale(unit) \in {1, 5, 18, 1000}
      BY <2>2, UnitIsAsLarge
    <3>2. slots[i] * Scale(label) - kept[i] * Scale(unit) = 0
      BY <2>2, <3>1
    <3> QED
      BY <2>2, <3>1, <3>2, NormalizersAssumption DEF SameMagnitude, Abs
  <2>3. CASE /\ slots[i] \in Int /\ label \in Labels /\ Unit(label) = "km/h" /\ unit = "m/s"
             /\ kept[i] = (slots[i] * 5) \div 18
    <3>1. Scale(label) = 5 /\ Scale(unit) = 18
      BY <2>3, UnitIsAsLarge DEF Scale
    <3>2. Abs(slots[i] * 5 - ((slots[i] * 5) \div 18) * 18) < 18
      <4> DEFINE x == slots[i] * 5
      <4>1. x \in Int
        BY <2>3
      <4> HIDE DEF x
      <4>2. Abs(x - (x \div 18) * 18) < 18
        BY <4>1, DivisionLoses
      <4> QED
        BY <4>2 DEF x
    <3> QED
      BY <2>3, <3>1, <3>2, NormalizersAssumption DEF SameMagnitude
  <2>4. CASE /\ slots[i] \in Int /\ label \in Labels /\ Unit(label) = "m" /\ unit = "km"
             /\ kept[i] = slots[i] \div 1000
    <3>1. Scale(label) = 1 /\ Scale(unit) = 1000
      BY <2>4, UnitIsAsLarge DEF Scale
    <3>2. Abs(slots[i] * 1 - (slots[i] \div 1000) * 1000) < 1000
      BY <2>4, DivisionLoses
    <3> QED
      BY <2>4, <3>1, <3>2, NormalizersAssumption DEF SameMagnitude
  <2> QED
    BY <1>4, <1>5, <2>1, <2>2, <2>3, <2>4
<1> QED
  BY <1>6 DEF label, slots, kept, unit

\* Whatever a label says a number measures, the metric it became measures the
\* same, to less than one of its own unit, of a live answer and of a recording
\* (open-meteo.mapper.ts:85-106).
THEOREM ScaleSurvivesTheSource == Spec => []ScalesAreKept
<1>1. AssessmentInv => ScalesAreKept
  <2> SUFFICES ASSUME AssessmentInv, NEW c \in Capability, Served(c)
               PROVE  /\ SameMagnitudes(exchange[c].response.value.hourly, exchange[c].result.value.hourly)
                      /\ SameMagnitudes(exchange[c].response.value.daily, exchange[c].result.value.daily)
    BY DEF ScalesAreKept
  <2>1. PICK value : /\ value = None \/ IsEnvelope(value)
                     /\ exchange[c].result = Mapped(value, c, Wanted(c))
                     /\ SameArrays(value, exchange[c].response.value)
    BY ServedSeries
  <2> DEFINE hourly == MapChannel(value.hourly, HourlyMetrics, <<value.offset>>)
             daily == MapChannel(value.daily, DailyMetrics, <<>>)
  <2>2. Mapped(value, c, Wanted(c)).ok
    BY <2>1 DEF Served
  <2>3. /\ Checked(value)
        /\ hourly.ok /\ exchange[c].result.value.hourly = hourly.value
        /\ daily.ok /\ exchange[c].result.value.daily = daily.value
    BY <2>1, <2>2, MappedSeriesIsSound
  <2>4. SameMagnitudes(value.hourly, hourly.value) /\ SameMagnitudes(value.daily, daily.value)
    BY <2>3, MappedMeasuresTheSame DEF Checked, IsEnvelope
  <2> HIDE DEF hourly, daily
  <2> QED
    BY <2>1, <2>3, <2>4 DEF SameArrays, SameMagnitudes
<1> QED
  BY <1>1, AssessmentIsInvariant, PTL

----------------------------------------------------------------------------
(**************************************************************************)
(* Trees: a verdict survives knowledge however it is nested.               *)
(**************************************************************************)

\* The verdict of a node over those of its branches.
NodeVerdict(node, branch, own) ==
    CASE node.node = "anyOf" -> AnyOf({branch[j] : j \in node.of})
      [] node.node = "allOf" -> AllOf({branch[j] : j \in node.of})
      [] node.node = "not"   -> Not(branch[node.of])
      [] node.node = "leaf"  -> own

\* A verdict for every node, each over those of its branches.
Judges(v, tree, leaf) ==
    /\ v \in [DOMAIN tree -> Verdict]
    /\ \A i \in DOMAIN tree : v[i] = NodeVerdict(tree[i], v, leaf[i])

\* What a node may be.
Kinds == {"leaf", "anyOf", "allOf", "not"}

\* The four kinds, one by one.
LEMMA NodeByNode ==
    ASSUME NEW node, node.node \in Kinds, NEW own, NEW f
    PROVE  /\ node.node = "anyOf" => /\ NodeVerdict(node, f, own) = AnyOf({f[j] : j \in node.of})
                                     /\ Branches(node) = node.of
           /\ node.node = "allOf" => /\ NodeVerdict(node, f, own) = AllOf({f[j] : j \in node.of})
                                     /\ Branches(node) = node.of
           /\ node.node = "not" => /\ NodeVerdict(node, f, own) = Not(f[node.of])
                                   /\ Branches(node) = {node.of}
           /\ node.node = "leaf" => NodeVerdict(node, f, own) = own
<1>1. CASE node.node = "anyOf"
  BY <1>1 DEF NodeVerdict, Branches
<1>2. CASE node.node = "allOf"
  BY <1>2 DEF NodeVerdict, Branches
<1>3. CASE node.node = "not"
  BY <1>3 DEF NodeVerdict, Branches
<1>4. CASE node.node = "leaf"
  BY <1>4 DEF NodeVerdict, Branches
<1> QED
  BY <1>1, <1>2, <1>3, <1>4 DEF Kinds

\* A node only looks at its branches, and says one of the three.
LEMMA NodeIsVerdict ==
    ASSUME NEW node, node.node \in Kinds, NEW own, node.node = "leaf" => own \in Verdict,
           NEW f, \A j \in Branches(node) : f[j] \in Verdict
    PROVE  NodeVerdict(node, f, own) \in Verdict
<1>1. CASE node.node = "not"
  <2>1. NodeVerdict(node, f, own) = Not(f[node.of]) /\ node.of \in Branches(node)
    BY <1>1, NodeByNode
  <2> QED
    BY <2>1 DEF Not, Verdict
<1>2. CASE node.node # "not"
  BY <1>2, NodeByNode DEF AnyOf, AllOf, Verdict, Kinds
<1> QED
  BY <1>1, <1>2

\* A node sees nothing but its branches.
LEMMA NodeLooksDown ==
    ASSUME NEW node, node.node \in Kinds, NEW own,
           NEW f, NEW g, \A j \in Branches(node) : f[j] = g[j]
    PROVE  NodeVerdict(node, f, own) = NodeVerdict(node, g, own)
<1>1. CASE node.node \in {"anyOf", "allOf"}
  <2>1. Branches(node) = node.of
    BY <1>1, NodeByNode
  <2>2. {f[j] : j \in node.of} = {g[j] : j \in node.of}
    BY <2>1
  <2>3. /\ node.node = "anyOf" =>
              /\ NodeVerdict(node, f, own) = AnyOf({f[j] : j \in node.of})
              /\ NodeVerdict(node, g, own) = AnyOf({g[j] : j \in node.of})
        /\ node.node = "allOf" =>
              /\ NodeVerdict(node, f, own) = AllOf({f[j] : j \in node.of})
              /\ NodeVerdict(node, g, own) = AllOf({g[j] : j \in node.of})
    BY NodeByNode
  <2> QED
    BY <1>1, <2>2, <2>3
<1>2. CASE node.node = "not"
  <2>1. Branches(node) = {node.of}
    BY <1>2, NodeByNode
  <2>2. NodeVerdict(node, f, own) = Not(f[node.of])
    BY <1>2 DEF NodeVerdict
  <2>3. NodeVerdict(node, g, own) = Not(g[node.of])
    BY <1>2 DEF NodeVerdict
  <2> QED
    BY <2>1, <2>2, <2>3
<1>3. CASE node.node = "leaf"
  BY <1>3 DEF NodeVerdict
<1> QED
  BY <1>1, <1>2, <1>3 DEF Kinds

\* What is decided of a node stays decided when what it looks at does.
LEMMA NodeSurvives ==
    ASSUME NEW node, node.node \in Kinds, NEW own, NEW later,
           node.node = "leaf" => Survives(own, later),
           NEW f, NEW g,
           \A j \in Branches(node) : f[j] \in Verdict /\ g[j] \in Verdict /\ Survives(f[j], g[j])
    PROVE  Survives(NodeVerdict(node, f, own), NodeVerdict(node, g, later))
<1> DEFINE S == Branches(node)
           p == [j \in S |-> f[j]]
           q == [j \in S |-> g[j]]
<1>1. p \in [S -> Verdict] /\ q \in [S -> Verdict] /\ \A j \in S : Survives(p[j], q[j])
  OBVIOUS
<1>2. /\ Survives(AnyOf({p[j] : j \in S}), AnyOf({q[j] : j \in S}))
      /\ Survives(AllOf({p[j] : j \in S}), AllOf({q[j] : j \in S}))
      /\ \A j \in S : Survives(Not(p[j]), Not(q[j]))
  <2> HIDE DEF p, q, S
  <2> QED
    BY <1>1, DecidedStaysDecided
<1>3. {p[j] : j \in S} = {f[j] : j \in S} /\ {q[j] : j \in S} = {g[j] : j \in S}
  OBVIOUS
<1>s. \A j \in S : p[j] = f[j] /\ q[j] = g[j]
  OBVIOUS
<1> HIDE DEF p, q
<1>4. CASE node.node = "anyOf"
  <2>1. S = node.of
    BY <1>4, NodeByNode
  <2>2. /\ NodeVerdict(node, f, own) = AnyOf({f[j] : j \in node.of})
        /\ NodeVerdict(node, g, later) = AnyOf({g[j] : j \in node.of})
    BY <1>4 DEF NodeVerdict
  <2> HIDE DEF S
  <2> QED
    BY <1>2, <1>3, <2>1, <2>2
<1>5. CASE node.node = "allOf"
  <2>1. S = node.of
    BY <1>5, NodeByNode
  <2>2. /\ NodeVerdict(node, f, own) = AllOf({f[j] : j \in node.of})
        /\ NodeVerdict(node, g, later) = AllOf({g[j] : j \in node.of})
    BY <1>5 DEF NodeVerdict
  <2> HIDE DEF S
  <2> QED
    BY <1>2, <1>3, <2>1, <2>2
<1>6. CASE node.node = "not"
  <2>1. S = {node.of}
    BY <1>6, NodeByNode
  <2>2. /\ NodeVerdict(node, f, own) = Not(f[node.of])
        /\ NodeVerdict(node, g, later) = Not(g[node.of])
    BY <1>6 DEF NodeVerdict
  <2> HIDE DEF S
  <2> QED
    BY <1>2, <1>s, <2>1, <2>2
<1>7. CASE node.node = "leaf"
  <2>1. NodeVerdict(node, f, own) = own /\ NodeVerdict(node, g, later) = later
    BY <1>7 DEF NodeVerdict
  <2> QED
    BY <1>7, <2>1
<1> QED
  BY <1>4, <1>5, <1>6, <1>7 DEF Kinds

\* Every tree has a verdict at each of its nodes, and its own at the root.
LEMMA TreeIsJudged ==
    ASSUME NEW tree, IsTree(tree), NEW leaf \in [LeavesOf(tree) -> Verdict]
    PROVE  \E v : Judges(v, tree, leaf) /\ TreeVerdict(tree, leaf) = v[Len(tree)]
<1> DEFINE N == Len(tree)
           Upto(m, v) == \A i \in 1 .. m : v[i] = NodeVerdict(tree[i], v, leaf[i])
           Reached(m) == \E v \in [1 .. m -> Verdict] : Upto(m, v)
           Bad == {m \in Nat : m <= N /\ ~Reached(m)}
<1>1. N \in Nat /\ DOMAIN tree = 1 .. N
  BY DEF IsTree
<1>2. \A i \in 1 .. N : /\ tree[i].node \in Kinds
                        /\ Branches(tree[i]) \subseteq 1 .. i - 1
                        /\ tree[i].node = "leaf" => leaf[i] \in Verdict
  BY <1>1 DEF IsTree, Kinds, LeavesOf
<1>3. Reached(N)
  <2>1. SUFFICES ASSUME N \in Bad PROVE FALSE
    BY <1>1
  <2>2. PICK m \in Bad : \A i \in Bad : m <= i
    <3>1. Bad \in SUBSET Nat /\ Bad # {}
      BY <2>1
    <3> HIDE DEF Bad
    <3> QED
      BY <3>1, LeastThere
  <2>3. m \in Nat /\ m <= N /\ ~Reached(m)
    BY <2>2
  <2>4. m # 0
    <3>1. [i \in 1 .. 0 |-> "no"] \in [1 .. 0 -> Verdict] /\ Upto(0, [i \in 1 .. 0 |-> "no"])
      OBVIOUS
    <3> QED
      BY <2>3, <3>1
  <2>5. PICK s \in [1 .. m - 1 -> Verdict] : Upto(m - 1, s)
    <3>1. m - 1 \in Nat /\ m - 1 <= N /\ ~(m <= m - 1)
      BY <1>1, <2>3, <2>4
    <3>2. m - 1 \notin Bad
      <4> HIDE DEF Bad
      <4> QED
        BY <2>2, <3>1
    <3> QED
      BY <3>1, <3>2
  <2> DEFINE own == NodeVerdict(tree[m], s, leaf[m])
             t == [i \in 1 .. m |-> IF i = m THEN own ELSE s[i]]
  <2>6. m \in 1 .. N /\ \A i \in 1 .. m - 1 : i \in 1 .. m /\ i # m /\ i \in 1 .. N
    BY <1>1, <2>3, <2>4
  <2>7. own \in Verdict
    BY <1>2, <2>5, <2>6, NodeIsVerdict
  <2>8. /\ t \in [1 .. m -> Verdict]
        /\ t[m] = own
        /\ \A i \in 1 .. m - 1 : t[i] = s[i]
    <3>1. \A i \in 1 .. m : i # m => i \in 1 .. m - 1
      BY <2>3
    <3> HIDE DEF own
    <3> QED
      BY <2>5, <2>6, <2>7, <3>1
  <2>9. ASSUME NEW i \in 1 .. m PROVE t[i] = NodeVerdict(tree[i], t, leaf[i])
    <3>1. i \in 1 .. N /\ \A j \in Branches(tree[i]) : j \in 1 .. m - 1
      BY <1>1, <1>2, <2>3, <2>6
    <3>2. \A j \in Branches(tree[i]) : t[j] = s[j]
      BY <2>8, <3>1
    <3> HIDE DEF t
    <3>3. NodeVerdict(tree[i], t, leaf[i]) = NodeVerdict(tree[i], s, leaf[i])
      BY <1>2, <3>1, <3>2, NodeLooksDown
    <3>4. CASE i = m
      BY <2>8, <3>3, <3>4
    <3>5. CASE i # m
      <4>1. i \in 1 .. m - 1
        BY <2>3, <3>5
      <4>2. s[i] = NodeVerdict(tree[i], s, leaf[i])
        BY <2>5, <4>1
      <4> QED
        BY <2>8, <3>3, <4>1, <4>2
    <3> QED
      BY <3>4, <3>5
  <2> QED
    BY <2>3, <2>8, <2>9
<1> DEFINE Solves(v) == v = [i \in DOMAIN tree |-> NodeVerdict(tree[i], v, leaf[i])]
           w == CHOOSE v : Solves(v)
<1>4. \E v : Solves(v)
  <2>1. PICK v \in [1 .. N -> Verdict] : Upto(N, v)
    BY <1>3
  <2>2. v = [i \in 1 .. N |-> v[i]]
    OBVIOUS
  <2> QED
    BY <1>1, <2>1, <2>2
<1>5. Solves(w)
  BY <1>4
<1>6. TreeVerdict(tree, leaf) = w[N]
  BY DEF TreeVerdict, NodeVerdict
<1> HIDE DEF w
<1>7. \A i \in 1 .. N : w[i] = NodeVerdict(tree[i], w, leaf[i])
  BY <1>1, <1>5
<1>8. \A i \in 1 .. N : w[i] \in Verdict
  <2> DEFINE Wrong == {i \in Nat : i \in 1 .. N /\ w[i] \notin Verdict}
  <2>1. SUFFICES ASSUME Wrong # {} PROVE FALSE
    BY <1>1
  <2>2. PICK m \in Wrong : \A i \in Wrong : m <= i
    <3>1. Wrong \in SUBSET Nat
      OBVIOUS
    <3> HIDE DEF Wrong
    <3> QED
      BY <2>1, <3>1, LeastThere
  <2>3. m \in 1 .. N /\ w[m] \notin Verdict
    BY <2>2
  <2>4. ASSUME NEW j \in Branches(tree[m]) PROVE w[j] \in Verdict
    <3>1. j \in 1 .. N /\ j \in Nat /\ ~(m <= j)
      BY <1>1, <1>2, <2>3
    <3>2. j \notin Wrong
      <4> HIDE DEF Wrong
      <4> QED
        BY <2>2, <3>1
    <3> QED
      BY <3>1, <3>2
  <2>5. NodeVerdict(tree[m], w, leaf[m]) \in Verdict
    BY <1>2, <2>3, <2>4, NodeIsVerdict
  <2> QED
    BY <1>7, <2>3, <2>5
<1>9. w \in [DOMAIN tree -> Verdict]
  <2>1. w = [i \in DOMAIN tree |-> w[i]]
    BY <1>5
  <2> QED
    BY <1>1, <1>8, <2>1
<1>10. Judges(w, tree, leaf)
  BY <1>1, <1>7, <1>9 DEF Judges
<1> QED
  BY <1>6, <1>10

\* However a constraint is nested, what it says of a day it goes on saying when
\* values arrive that were not there (scoring-engine.ts, holds).
THEOREM RefusalStands ==
    ASSUME NEW tree, IsTree(tree),
           NEW known \in [LeavesOf(tree) -> Verdict], NEW later \in [LeavesOf(tree) -> Verdict],
           \A i \in LeavesOf(tree) : Survives(known[i], later[i])
    PROVE  Survives(TreeVerdict(tree, known), TreeVerdict(tree, later))
<1> DEFINE N == Len(tree)
<1>1. N \in Nat /\ N \in 1 .. N /\ DOMAIN tree = 1 .. N
  <2>1. N \in Nat /\ DOMAIN tree = 1 .. N /\ N # 0
    BY DEF IsTree
  <2> QED
    BY <2>1
<1>2. \A i \in 1 .. N : /\ tree[i].node \in Kinds
                        /\ Branches(tree[i]) \subseteq 1 .. i - 1
                        /\ tree[i].node = "leaf" => Survives(known[i], later[i])
  BY <1>1 DEF IsTree, Kinds, LeavesOf
<1>3. PICK f : Judges(f, tree, known) /\ TreeVerdict(tree, known) = f[N]
  BY TreeIsJudged
<1>4. PICK g : Judges(g, tree, later) /\ TreeVerdict(tree, later) = g[N]
  BY TreeIsJudged
<1>5. \A i \in 1 .. N : f[i] \in Verdict /\ g[i] \in Verdict
  BY <1>1, <1>3, <1>4 DEF Judges
<1>6. \A i \in 1 .. N : f[i] = NodeVerdict(tree[i], f, known[i])
                        /\ g[i] = NodeVerdict(tree[i], g, later[i])
  BY <1>1, <1>3, <1>4 DEF Judges
<1> DEFINE Lost == {i \in Nat : i \in 1 .. N /\ ~Survives(f[i], g[i])}
<1>7. SUFFICES ASSUME Lost # {} PROVE FALSE
  BY <1>1, <1>3, <1>4
<1>8. PICK m \in Lost : \A i \in Lost : m <= i
  <2>1. Lost \in SUBSET Nat
    OBVIOUS
  <2> HIDE DEF Lost
  <2> QED
    BY <1>7, <2>1, LeastThere
<1>9. m \in 1 .. N /\ ~Survives(f[m], g[m])
  BY <1>8
<1>10. ASSUME NEW j \in Branches(tree[m])
       PROVE  f[j] \in Verdict /\ g[j] \in Verdict /\ Survives(f[j], g[j])
  <2>1. j \in 1 .. N /\ j \in Nat /\ ~(m <= j)
    BY <1>1, <1>2, <1>9
  <2>2. j \notin Lost
    <3> HIDE DEF Lost
    <3> QED
      BY <1>8, <2>1
  <2> QED
    BY <1>5, <2>1, <2>2
<1>11. Survives(NodeVerdict(tree[m], f, known[m]), NodeVerdict(tree[m], g, later[m]))
  BY <1>2, <1>9, <1>10, NodeSurvives
<1> QED
  BY <1>6, <1>9, <1>11

----------------------------------------------------------------------------
(**************************************************************************)
(* A refusal survives what would have arrived.                             *)
(**************************************************************************)

\* What is filled in changes nothing but the values of the metrics it fills.
LEMMA FilledIsTheSame ==
    ASSUME NEW series, SoundSeries(series), NEW absent, NEW value
    PROVE  LET filled == Filled(series, absent, value)
           IN  /\ filled.daily = series.daily
               /\ filled.provenance = series.provenance
               /\ filled.hourly.time = series.hourly.time
               /\ DOMAIN filled.hourly.values = DOMAIN series.hourly.values
               /\ \A m \in DOMAIN series.hourly.values \ absent :
                     filled.hourly.values[m] = series.hourly.values[m]
<1> DEFINE filled == Filled(series, absent, value)
<1>1. DOMAIN series = {"hourly", "daily", "provenance"} /\ DOMAIN series.hourly = {"time", "values"}
  BY DEF SoundSeries, SoundChannel
<1>2. /\ filled.daily = series.daily
      /\ filled.provenance = series.provenance
      /\ filled.hourly.time = series.hourly.time
      /\ filled.hourly.values = FilledValues(series.hourly.values, absent, value)
  BY <1>1 DEF Filled
<1> QED
  BY <1>2 DEF FilledValues

\* Nothing can be read where nothing is.
LEMMA NothingIsRead ==
    ASSUME NEW values, NEW indexes, \A i \in indexes : values[i] = None, NEW value, NEW unit
    PROVE  Tally(SlotsOf(values, indexes), value, unit) = None
<1>1. SlotsOf(values, indexes).sampleCount = Cardinality({i \in indexes : values[i] # None})
  BY DEF SlotsOf
<1>2. {i \in indexes : values[i] # None} = {}
  OBVIOUS
<1>3. SlotsOf(values, indexes).sampleCount = 0
  BY <1>1, <1>2, FS_EmptySet
<1> QED
  BY <1>3 DEF Tally

\* Nor can it be reduced,
LEMMA NothingIsReduced ==
    ASSUME NEW channel, NEW indexes, \A i \in indexes : channel.values[i] = None, NEW reducer
    PROVE  ReduceOver(channel, indexes, reducer) = None
  BY NothingIsRead DEF ReduceOver

\* What the hours are read over.
HoursOf(spec, window) ==
    IF spec.params.window = "day" THEN window.hourIndexes ELSE window.daylightIndexes

\* A share or a count of some slots.
Counts(read, slots) == \E value, unit : read = Tally(slots, value, unit)

\* or counted.
LEMMA NothingIsCounted ==
    ASSUME NEW read, NEW values, NEW indexes, \A i \in indexes : values[i] = None,
           Counts(read, SlotsOf(values, indexes))
    PROVE  read = None
  BY NothingIsRead DEF Counts

\* What an aggregation comes down to.
LEMMA ReducerReads ==
    ASSUME NEW spec, spec.type \in Reducers, NEW channel, NEW window
    PROVE  AggregateOver(spec, channel, window) =
              ReduceOver(channel, window.hourIndexes, spec.type)
  BY DEF AggregateOver, Reducers

LEMMA IdentityReads ==
    ASSUME NEW spec, spec.type = "identity", NEW channel, NEW window
    PROVE  AggregateOver(spec, channel, window) =
              IF window.dailyIndex = None THEN None
              ELSE ReduceOver(channel, {window.dailyIndex}, "mean")
  BY DEF AggregateOver, Reducers

LEMMA DaylightReads ==
    ASSUME NEW spec, spec.type = "daylightWindow", NEW channel, NEW window
    PROVE  AggregateOver(spec, channel, window) =
              ReduceOver(channel, window.daylightIndexes, spec.params.reduce)
  BY DEF AggregateOver, Reducers

LEMMA HoursRead ==
    ASSUME NEW spec, spec.type \in {"shareOfHours", "countIf"}, NEW channel, NEW window
    PROVE  Counts(AggregateOver(spec, channel, window),
                  SlotsOf(channel.values, HoursOf(spec, window)))
<1>1. CASE spec.type = "shareOfHours"
  BY <1>1 DEF AggregateOver, Reducers, HoursOf, Counts
<1>2. CASE spec.type = "countIf"
  BY <1>2 DEF AggregateOver, Reducers, HoursOf, Counts
<1> QED
  BY <1>1, <1>2

\* A reading of the hours finds nothing on a day without a value.
LEMMA NothingIsAggregated ==
    ASSUME NEW spec, spec.type \in DOMAIN Aggregators, spec.type # "identity",
           NEW channel, NEW window, window.daylightIndexes \subseteq window.hourIndexes,
           \A i \in window.hourIndexes : channel.values[i] = None
    PROVE  AggregateOver(spec, channel, window) = None
<1>1. CASE spec.type \in Reducers
  <2>1. ReduceOver(channel, window.hourIndexes, spec.type) = None
    BY NothingIsReduced
  <2> QED
    BY <1>1, <2>1, ReducerReads
<1>2. CASE spec.type = "daylightWindow"
  <2>1. ReduceOver(channel, window.daylightIndexes, spec.params.reduce) = None
    BY NothingIsReduced
  <2> QED
    BY <1>2, <2>1, DaylightReads
<1>3. CASE spec.type \in {"shareOfHours", "countIf"}
  <2>1. \A i \in HoursOf(spec, window) : channel.values[i] = None
    BY DEF HoursOf
  <2>2. Counts(AggregateOver(spec, channel, window),
               SlotsOf(channel.values, HoursOf(spec, window)))
    BY <1>3, HoursRead
  <2> QED
    BY <2>1, <2>2, NothingIsCounted
<1> QED
  BY <1>1, <1>2, <1>3 DEF Aggregators, Reducers

\* Two windows of one day that differ in the daylight the first does not know
\* read the same of a channel, or nothing.
LEMMA SameIsAggregated ==
    ASSUME NEW spec, spec.type \in DOMAIN Aggregators, NEW channel, NEW window, NEW other,
           other.hourIndexes = window.hourIndexes, other.dailyIndex = window.dailyIndex,
           window.daylightIndexes \in {{}, other.daylightIndexes}
    PROVE  \/ AggregateOver(spec, channel, window) = None
           \/ AggregateOver(spec, channel, window) = AggregateOver(spec, channel, other)
<1>1. CASE spec.type \in Reducers
  <2>1. /\ AggregateOver(spec, channel, window) =
              ReduceOver(channel, window.hourIndexes, spec.type)
        /\ AggregateOver(spec, channel, other) = ReduceOver(channel, other.hourIndexes, spec.type)
    BY <1>1, ReducerReads
  <2> QED
    BY <2>1
<1>2. CASE spec.type = "identity"
  <2>1. /\ AggregateOver(spec, channel, window) =
              IF window.dailyIndex = None THEN None
              ELSE ReduceOver(channel, {window.dailyIndex}, "mean")
        /\ AggregateOver(spec, channel, other) =
              IF other.dailyIndex = None THEN None
              ELSE ReduceOver(channel, {other.dailyIndex}, "mean")
    BY <1>2, IdentityReads
  <2> QED
    BY <2>1
<1>3. CASE spec.type = "daylightWindow"
  <2>1. /\ AggregateOver(spec, channel, window) =
              ReduceOver(channel, window.daylightIndexes, spec.params.reduce)
        /\ AggregateOver(spec, channel, other) =
              ReduceOver(channel, other.daylightIndexes, spec.params.reduce)
    BY <1>3, DaylightReads
  <2>2. window.daylightIndexes = {} =>
           ReduceOver(channel, window.daylightIndexes, spec.params.reduce) = None
    BY NothingIsReduced
  <2> QED
    BY <2>1, <2>2
<1>4. CASE spec.type \in {"shareOfHours", "countIf"}
  <2>1. CASE HoursOf(spec, window) = {}
    <3>1. Counts(AggregateOver(spec, channel, window),
                 SlotsOf(channel.values, HoursOf(spec, window)))
      BY <1>4, HoursRead
    <3> QED
      BY <2>1, <3>1, NothingIsCounted
  <2>2. CASE HoursOf(spec, window) = HoursOf(spec, other)
    <3>1. CASE spec.type = "shareOfHours"
      BY <2>2, <3>1 DEF AggregateOver, HoursOf, Reducers
    <3>2. CASE spec.type = "countIf"
      BY <2>2, <3>2 DEF AggregateOver, HoursOf, Reducers
    <3> QED
      BY <1>4, <3>1, <3>2
  <2> QED
    BY <2>1, <2>2 DEF HoursOf
<1> QED
  BY <1>1, <1>2, <1>3, <1>4 DEF Aggregators, Reducers

\* The same day, once what was absent on it has been filled in.
LEMMA FilledWindow ==
    ASSUME NEW series, SoundSeries(series), NEW d \in DOMAIN BuildDayWindows(series), NEW value
    PROVE  LET window == BuildDayWindows(series)[d]
               other == BuildDayWindows(Filled(series, Absent(series.hourly, window.hourIndexes), value))[d]
           IN  /\ other.hourIndexes = window.hourIndexes
               /\ other.dailyIndex = window.dailyIndex
               /\ window.daylightIndexes \subseteq window.hourIndexes
               /\ window.daylightIndexes \in {{}, other.daylightIndexes}
<1> DEFINE window == BuildDayWindows(series)[d]
           absent == Absent(series.hourly, window.hourIndexes)
           filled == Filled(series, absent, value)
           other == BuildDayWindows(filled)[d]
           date == DistinctDates(series.hourly.time)[d]
<1>1. window = DayWindow(series, date)
  BY DEF BuildDayWindows
<1> HIDE DEF absent, filled
<1>2. /\ filled.daily = series.daily
      /\ filled.hourly.time = series.hourly.time
      /\ DOMAIN filled.hourly.values = DOMAIN series.hourly.values
      /\ \A m \in DOMAIN series.hourly.values \ absent :
            filled.hourly.values[m] = series.hourly.values[m]
  BY FilledIsTheSame DEF filled
<1>3. other = DayWindow(filled, date)
  BY <1>2 DEF BuildDayWindows
<1> HIDE DEF window, other, date
<1>4. other.hourIndexes = window.hourIndexes /\ other.dailyIndex = window.dailyIndex
  BY <1>1, <1>2, <1>3 DEF DayWindow
<1>5. /\ window.daylightIndexes =
            {i \in window.hourIndexes : ValueAt(series.hourly, "is_day", i) = 1}
      /\ other.daylightIndexes =
            {i \in other.hourIndexes : ValueAt(filled.hourly, "is_day", i) = 1}
  BY <1>1, <1>3 DEF DayWindow
<1>6. CASE "is_day" \in absent
  <2>1. \A i \in window.hourIndexes : ValueAt(series.hourly, "is_day", i) = None
    BY <1>6 DEF absent, Absent, ValueAt, HasMetric
  <2>2. None # 1
    BY NormalizersAssumption
  <2> QED
    BY <1>4, <1>5, <2>1, <2>2 DEF window, other, filled, absent
<1>7. CASE "is_day" \notin absent
  <2>1. \A i : ValueAt(filled.hourly, "is_day", i) = ValueAt(series.hourly, "is_day", i)
    BY <1>2, <1>7 DEF ValueAt, HasMetric
  <2> QED
    BY <1>4, <1>5, <2>1 DEF window, other, filled, absent
<1> QED
  BY <1>6, <1>7

\* What a metric is computed from is there, or nothing is computed of the day.
LEMMA ComputedSurvives ==
    ASSUME NEW series, SoundSeries(series), NEW code \in DOMAIN Derived,
           NEW hours \in SUBSET (1 .. Len(series.hourly.time)), NEW value,
           ComputeDerived(code, series) # None
    PROVE  \/ ComputeDerived(code, Filled(series, Absent(series.hourly, hours), value))
                 = ComputeDerived(code, series)
           \/ \A i \in hours : ComputeDerived(code, series)[i] = None
<1> DEFINE absent == Absent(series.hourly, hours)
           filled == Filled(series, absent, value)
           requires == Derived[code].requires
           inputs == [r \in 1 .. Len(requires) |-> series.hourly.values[requires[r]]]
<1>1. 1 \in 1 .. Len(requires)
  <2>1. code \in {"WIND_WAVE_ALIGNMENT", "FRESH_COLD_SNOWFALL", "FREEZING_LEVEL_MARGIN"}
    BY DEF Derived
  <2>2. Len(requires) \in {1, 2}
    BY <2>1 DEF Derived
  <2> HIDE DEF requires
  <2> QED
    BY <2>2
<1>2. \A r \in 1 .. Len(requires) : requires[r] \in DOMAIN series.hourly.values
  BY DEF ComputeDerived, HasMetric
<1>3. /\ filled.provenance = series.provenance
      /\ DOMAIN filled.hourly.values = DOMAIN series.hourly.values
      /\ \A m \in DOMAIN series.hourly.values \ absent :
            filled.hourly.values[m] = series.hourly.values[m]
  BY FilledIsTheSame
<1> HIDE DEF absent, filled, requires
<1> DEFINE Computed(from, s) ==
             [i \in 1 .. Len(from[1]) |->
                IF \E r \in 1 .. Len(requires) : from[r][i] = None THEN None
                ELSE Formula(code, [r \in 1 .. Len(requires) |-> from[r][i]],
                             ElevationOf(s, requires[1]))]
<1>c. ComputeDerived(code, series) = Computed(inputs, series)
  BY <1>2 DEF ComputeDerived, HasMetric, requires
<1>4. CASE \E r \in 1 .. Len(requires) : requires[r] \in absent
  <2>1. PICK r \in 1 .. Len(requires) : requires[r] \in absent
    BY <1>4
  <2>2. \A i \in hours : inputs[r][i] = None
    BY <2>1 DEF absent, Absent
  <2>3. Len(inputs[1]) = Len(series.hourly.time)
    <3>1. inputs[1] = series.hourly.values[requires[1]]
      BY <1>1
    <3>2. inputs[1] \in [1 .. Len(series.hourly.time) -> Int \cup {None}]
      BY <1>1, <1>2, <3>1 DEF SoundSeries, SoundChannel
    <3>3. Len(series.hourly.time) \in Nat
      BY DEF SoundSeries, SoundChannel
    <3> HIDE DEF inputs
    <3> QED
      BY <3>2, <3>3, LenOfFunction
  <2> HIDE DEF inputs
  <2> QED
    BY <1>c, <2>1, <2>2, <2>3
<1>5. CASE \A r \in 1 .. Len(requires) : requires[r] \notin absent
  <2> DEFINE others == [r \in 1 .. Len(requires) |-> filled.hourly.values[requires[r]]]
  <2>1. others = inputs
    BY <1>2, <1>3, <1>5
  <2>2. ElevationOf(filled, requires[1]) = ElevationOf(series, requires[1])
    BY <1>3 DEF ElevationOf
  <2>3. \A r \in 1 .. Len(requires) : requires[r] \in DOMAIN filled.hourly.values
    BY <1>2, <1>3
  <2>4. ComputeDerived(code, filled) = Computed(others, filled)
    BY <2>3 DEF ComputeDerived, HasMetric, requires
  <2>5. Computed(others, filled) = Computed(inputs, series)
    <3> HIDE DEF inputs, others
    <3> QED
      BY <2>1, <2>2
  <2> QED
    BY <1>c, <2>4, <2>5 DEF filled, absent
<1> QED
  BY <1>4, <1>5

\* What a feature or a leaf reads of a day it goes on reading, once there is
\* something to read.
LEMMA ReadingSurvives ==
    ASSUME NEW series, SoundSeries(series), NEW reader, CleanReader(reader),
           NEW d \in DOMAIN BuildDayWindows(series), NEW value
    PROVE  LET window == BuildDayWindows(series)[d]
               filled == Filled(series, Absent(series.hourly, window.hourIndexes), value)
           IN  \/ ValueOf(reader, series, window) = None
               \/ ValueOf(reader, series, window)
                     = ValueOf(reader, filled, BuildDayWindows(filled)[d])
<1> DEFINE window == BuildDayWindows(series)[d]
           absent == Absent(series.hourly, window.hourIndexes)
           filled == Filled(series, absent, value)
           other == BuildDayWindows(filled)[d]
           spec == reader.aggregation
           granularity == Aggregators[spec.type].granularity
           channel == ChannelFor(reader.metric, granularity, series)
           later == ChannelFor(reader.metric, granularity, filled)
<1>1. /\ other.hourIndexes = window.hourIndexes
      /\ other.dailyIndex = window.dailyIndex
      /\ window.daylightIndexes \subseteq window.hourIndexes
      /\ window.daylightIndexes \in {{}, other.daylightIndexes}
  BY FilledWindow
<1>2. window.hourIndexes \in SUBSET (1 .. Len(series.hourly.time))
  BY WindowsFit DEF WindowFits
<1>3. /\ filled.daily = series.daily
      /\ DOMAIN filled.hourly.values = DOMAIN series.hourly.values
      /\ \A m \in DOMAIN series.hourly.values \ absent :
            filled.hourly.values[m] = series.hourly.values[m]
  BY FilledIsTheSame
<1>4. ~(spec.type \in DOMAIN Aggregators /\ reader.metric \in DOMAIN Derived /\ spec.type = "identity")
  <2>1. SUFFICES ASSUME reader.metric \in DOMAIN Derived, spec.type = "identity" PROVE FALSE
    OBVIOUS
  <2>2. MetaOf(reader.metric).granularity = "hourly"
    BY <2>1 DEF MetaOf
  <2>3. Aggregators[spec.type].granularity = "daily"
    BY <2>1 DEF Aggregators, Same
  <2> QED
    BY <2>2, <2>3 DEF CleanReader, ServesChannel
<1>5. spec.type \in DOMAIN Aggregators
  BY DEF CleanReader
<1>6. /\ spec.type = "identity" => granularity = "daily"
      /\ spec.type # "identity" => granularity = "hourly"
  BY <1>5 DEF Aggregators, Same
<1>7. /\ ValueOf(reader, series, window) =
            IF channel = None THEN None ELSE AggregateOver(spec, channel, window)
      /\ ValueOf(reader, filled, other) =
            IF later = None THEN None ELSE AggregateOver(spec, later, other)
  BY DEF ValueOf
<1>8. \/ channel = None
      \/ later = channel
      \/ spec.type # "identity" /\ \A i \in window.hourIndexes : channel.values[i] = None
  <2> HIDE DEF window, other
  <2>1. CASE reader.metric \in DOMAIN Derived
    <3> DEFINE now == ComputeDerived(reader.metric, series)
    <3>1. channel = IF now = None THEN None
                    ELSE [values |-> now, unit |-> Derived[reader.metric].unit]
      BY <2>1 DEF ChannelFor
    <3>2. later = IF ComputeDerived(reader.metric, filled) = None THEN None
                  ELSE [values |-> ComputeDerived(reader.metric, filled),
                        unit |-> Derived[reader.metric].unit]
      BY <2>1 DEF ChannelFor
    <3>3. now = None \/ ComputeDerived(reader.metric, filled) = now
          \/ \A i \in window.hourIndexes : now[i] = None
      BY <1>2, <2>1, ComputedSurvives
    <3> HIDE DEF now, channel, later, filled
    <3> QED
      BY <1>4, <1>5, <2>1, <3>1, <3>2, <3>3
  <2>2. CASE reader.metric \notin DOMAIN Derived /\ spec.type = "identity"
    BY <1>3, <1>6, <2>2 DEF ChannelFor, HasMetric
  <2>3. CASE reader.metric \notin DOMAIN Derived /\ spec.type # "identity"
    <3>1. CASE reader.metric \in absent
      <4>1. /\ reader.metric \in DOMAIN series.hourly.values
            /\ \A i \in window.hourIndexes : series.hourly.values[reader.metric][i] = None
        BY <3>1 DEF Absent
      <4>2. channel = [values |-> series.hourly.values[reader.metric],
                       unit |-> Dictionary[reader.metric].canonicalUnit]
        BY <1>6, <2>3, <4>1 DEF ChannelFor, HasMetric
      <4> HIDE DEF channel
      <4> QED
        BY <2>3, <4>1, <4>2
    <3>2. CASE reader.metric \notin absent
      <4> HIDE DEF filled, absent
      <4> QED
        BY <1>3, <1>6, <2>3, <3>2 DEF ChannelFor, HasMetric
    <3> QED
      BY <3>1, <3>2
  <2> QED
    BY <2>1, <2>2, <2>3
<1> HIDE DEF window, other, filled, channel, later, spec
<1>9. CASE channel = None
  BY <1>7, <1>9 DEF window
<1>10. CASE channel # None /\ later = channel
  <2>1. \/ AggregateOver(spec, channel, window) = None
        \/ AggregateOver(spec, channel, window) = AggregateOver(spec, channel, other)
    BY <1>1, <1>5, SameIsAggregated
  <2> QED
    BY <1>7, <1>10, <2>1 DEF window, other, filled
<1>11. CASE spec.type # "identity" /\ \A i \in window.hourIndexes : channel.values[i] = None
  <2>1. AggregateOver(spec, channel, window) = None
    BY <1>1, <1>5, <1>11, NothingIsAggregated
  <2> QED
    BY <1>7, <2>1 DEF window
<1> QED
  BY <1>8, <1>9, <1>10, <1>11

\* What a constraint says of the day it goes on saying.
LEMMA FiringSurvives ==
    ASSUME NEW series, SoundSeries(series), NEW rule, CleanRule(rule),
           NEW d \in DOMAIN BuildDayWindows(series), NEW value,
           Fires(rule, series, BuildDayWindows(series)[d])
    PROVE  LET window == BuildDayWindows(series)[d]
               filled == Filled(series, Absent(series.hourly, window.hourIndexes), value)
           IN  Fires(rule, filled, BuildDayWindows(filled)[d])
<1> DEFINE window == BuildDayWindows(series)[d]
           filled == Filled(series, Absent(series.hourly, window.hourIndexes), value)
           other == BuildDayWindows(filled)[d]
           tree == rule.when
           known == [i \in LeavesOf(tree) |-> Compared(tree[i], ValueOf(tree[i], series, window))]
           later == [i \in LeavesOf(tree) |-> Compared(tree[i], ValueOf(tree[i], filled, other))]
<1>1. IsTree(tree) /\ \A i \in LeavesOf(tree) : CleanReader(tree[i])
  BY DEF CleanRule, Leaves
<1>2. ASSUME NEW i \in LeavesOf(tree)
      PROVE  \/ ValueOf(tree[i], series, window) = None
             \/ ValueOf(tree[i], series, window) = ValueOf(tree[i], filled, other)
  BY <1>1, ReadingSurvives
<1>3. TreeVerdict(tree, known) = "yes"
  BY DEF Fires, Holds
<1> HIDE DEF window, filled, other
<1>4. \A leaf, v : Compared(leaf, v) \in Verdict
  BY DEF Compared, Of, Verdict
<1>5. known \in [LeavesOf(tree) -> Verdict] /\ later \in [LeavesOf(tree) -> Verdict]
  BY <1>4
<1>6. ASSUME NEW i \in LeavesOf(tree) PROVE Survives(known[i], later[i])
  <2>1. CASE ValueOf(tree[i], series, window) = None
    BY <2>1 DEF Compared, Survives
  <2>2. CASE ValueOf(tree[i], series, window) = ValueOf(tree[i], filled, other)
    BY <2>2 DEF Survives
  <2> QED
    BY <1>2, <2>1, <2>2
<1>7. Survives(TreeVerdict(tree, known), TreeVerdict(tree, later))
  <2> HIDE DEF known, later
  <2> QED
    BY <1>1, <1>5, <1>6, RefusalStands
<1>8. TreeVerdict(tree, later) = "yes"
  BY <1>3, <1>7 DEF Survives
<1>9. Fires(rule, filled, other)
  BY <1>8 DEF Fires, Holds
<1> QED
  BY <1>9 DEF window, filled, other

\* The constraint that fired is one of the definition's, and holds.
LEMMA FiredIsThere ==
    ASSUME NEW definition, CleanDefinition(definition), NEW series, NEW window,
           EvaluateConstraints(definition, series, window) # 0
    PROVE  /\ EvaluateConstraints(definition, series, window) \in DOMAIN definition.constraints
           /\ Fires(definition.constraints[EvaluateConstraints(definition, series, window)],
                    series, window)
<1> DEFINE rules == definition.constraints
           I == {i \in 1 .. Len(rules) : Fires(rules[i], series, window)}
<1>1. EvaluateConstraints(definition, series, window) = IF I # {} THEN Min(I) ELSE 0
  BY DEF EvaluateConstraints, SelectInSeq
<1>2. Len(rules) \in Nat /\ DOMAIN rules = 1 .. Len(rules)
  BY DEF CleanDefinition
<1>3. I # {}
  BY <1>1
<1>4. \E m \in I : \A i \in I : m <= i
  <2>1. I \in SUBSET Nat
    BY <1>2
  <2> HIDE DEF I
  <2> QED
    BY <1>3, <2>1, LeastThere
<1>5. Min(I) \in I
  <2> HIDE DEF I
  <2> QED
    BY <1>4 DEF Min
<1> QED
  BY <1>1, <1>2, <1>3, <1>5

\* A refusal is knowledge: the constraint that refused a day still refuses it
\* whatever the metrics that are missing on that day would have been
\* (scoring-engine.ts:36-41, 217-221).
THEOREM NoRefusalIsOverturned == Spec => []RefusalSurvivesKnowledge
<1>1. AssessmentInv => RefusalSurvivesKnowledge
  <2> DEFINE Series(a) == SeriesOf(a, TRUE).value
             Window(a, d) == BuildDayWindows(Series(a))[d]
             Later(a, d, value) ==
               Filled(Series(a), Absent(Series(a).hourly, Window(a, d).hourIndexes), value)
             Fired(a, d) == EvaluateConstraints(Definitions[a], Series(a), Window(a, d))
             Goes(a, d, value) ==
               Fires(Definitions[a].constraints[Fired(a, d)], Later(a, d, value),
                     BuildDayWindows(Later(a, d, value))[d])
  <2>1. ASSUME AssessmentInv, NEW a \in Assessed, NEW value, NEW d \in Days(a), Fired(a, d) # 0
        PROVE  Goes(a, d, value)
    <3> DEFINE series == Series(a)
               window == Window(a, d)
               fired == Fired(a, d)
               rules == Definitions[a].constraints
    <3>1. /\ outcomes # None /\ a \in Activities /\ Answerable(a) /\ SeriesOf(a, TRUE).ok
          /\ outcomes[a] = JudgeDays(a, series)
      BY <2>1, AssessedIsJudged
    <3>2. SoundSeries(series) /\ CleanDefinition(Definitions[a])
      BY <2>1, <3>1, SeriesIsSound, LoadedIsClean
    <3>3. d \in DOMAIN BuildDayWindows(series)
      BY <2>1, <3>1 DEF Days, JudgeDays
    <3> HIDE DEF series
    <3>4. fired \in DOMAIN rules /\ Fires(rules[fired], series, BuildDayWindows(series)[d])
      BY <2>1, <3>2, FiredIsThere DEF series
    <3>5. CleanRule(rules[fired])
      BY <3>2, <3>4 DEF CleanDefinition
    <3> HIDE DEF fired
    <3>6. LET filled == Filled(series, Absent(series.hourly, BuildDayWindows(series)[d].hourIndexes), value)
          IN  Fires(rules[fired], filled, BuildDayWindows(filled)[d])
      BY <3>2, <3>3, <3>4, <3>5, FiringSurvives
    <3> QED
      BY <3>6 DEF series, fired
  <2>2. RefusalSurvivesKnowledge <=>
           \A a \in Assessed, value \in {0, 1, 2, 90} :
              \A d \in Days(a) : Fired(a, d) # 0 => Goes(a, d, value)
    BY DEF RefusalSurvivesKnowledge
  <2> HIDE DEF Fired, Goes
  <2> QED
    BY <2>1, <2>2
<1> QED
  BY <1>1, AssessmentIsInvariant, PTL

----------------------------------------------------------------------------
(**************************************************************************)
(* The score and its breakdown: shares, gates, bounds.                     *)
(**************************************************************************)

\* A quotient and what is left of it.
LEMMA Quotients ==
    ASSUME NEW x \in Nat, NEW d \in Nat, d > 0
    PROVE  /\ Div(x, d) \in Nat
           /\ d * Div(x, d) <= x
           /\ x < d * Div(x, d) + d
<1>1. Div(x, d) = x \div d
  BY NormalizersAssumption DEF Div
<1>2. x \div d \in Int /\ x % d \in 0 .. d - 1
  OBVIOUS
<1>3. x = d * (x \div d) + (x % d)
  OBVIOUS
<1> DEFINE k == x \div d
           r == x % d
<1>4. k \in Int /\ r \in 0 .. d - 1 /\ x = d * k + r
  BY <1>2, <1>3
<1> HIDE DEF k, r
<1>5. k \in Nat
  <2>1. SUFFICES ASSUME k <= -1 PROVE FALSE
    BY <1>4
  <2>2. d * k <= 0 - d
    BY <1>4, <2>1
  <2> QED
    BY <1>4, <2>2
<1>6. d * k <= x /\ x < d * k + d
  BY <1>4
<1> QED
  BY <1>1, <1>5, <1>6 DEF k

\* One weight more, and the share of it.
LEMMA OneShareMore ==
    ASSUME NEW total \in Nat, total > 0, NEW s \in Int, NEW q \in Int, NEW w \in Nat, NEW n \in Nat,
           total * q <= One * s,
           One * s - total * q <= n * (total - 1)
    PROVE  /\ total * (q + Div(w * One, total)) <= One * (s + w)
           /\ One * (s + w) - total * (q + Div(w * One, total)) <= (n + 1) * (total - 1)
<1> DEFINE d == Div(w * One, total)
<1>1. w * One \in Nat /\ One \in Nat
  BY NormalizersAssumption
<1>2. d \in Nat /\ total * d <= w * One /\ w * One < total * d + total
  BY <1>1, Quotients
<1> HIDE DEF d
<1>3. total * (q + d) = total * q + total * d
  BY <1>2
<1>4. One * (s + w) = One * s + w * One
  BY <1>1
<1>5. (n + 1) * (total - 1) = n * (total - 1) + (total - 1)
  OBVIOUS
<1> DEFINE tq == total * q
           td == total * d
           os == One * s
           wo == w * One
           nt == n * (total - 1)
<1>6. tq \in Int /\ td \in Int /\ os \in Int /\ wo \in Int /\ nt \in Int
  BY <1>1, <1>2
<1>7. tq <= os /\ os - tq <= nt /\ td <= wo /\ wo < td + total
  BY <1>2
<1> HIDE DEF tq, td, os, wo, nt
<1>8. tq + td <= os + wo /\ (os + wo) - (tq + td) <= nt + (total - 1)
  BY <1>6, <1>7
<1> QED
  BY <1>3, <1>4, <1>5, <1>8 DEF tq, td, os, wo, nt, d

\* The shares of some weights, each cut to whole parts, come to One but for
\* less than a part of each.
LEMMA SharesComeToOne ==
    ASSUME NEW N \in Nat, N # 0, NEW weights \in [1 .. N -> Nat \cup {None}],
           Total(weights) > 0, NEW shares,
           shares = [i \in 1 .. N |-> IF weights[i] = None THEN None
                                      ELSE Div(weights[i] * One, Total(weights))]
    PROVE  One - N < Total(shares) /\ Total(shares) <= One
<1> DEFINE total == Total(weights)
           w == [i \in 1 .. N |-> IF weights[i] = None THEN 0 ELSE weights[i]]
           d == [i \in 1 .. N |-> IF weights[i] = None THEN 0 ELSE Div(weights[i] * One, total)]
<1>1. total \in Nat /\ total > 0 /\ One \in Nat /\ None \notin Int
  BY SumOfNaturals, NormalizersAssumption
<1>2. ASSUME NEW i \in 1 .. N
      PROVE  w[i] \in Nat /\ d[i] = Div(w[i] * One, total) /\ d[i] \in Nat
             /\ d[i] = IF shares[i] = None THEN 0 ELSE shares[i]
  <2> HIDE DEF total
  <2>1. weights[i] \in Nat \cup {None}
    OBVIOUS
  <2>2. Div(0, total) = 0
    BY <1>1, NormalizersAssumption DEF Div
  <2>3. w[i] \in Nat /\ w[i] * One \in Nat
    BY <1>1, <2>1
  <2>4. Div(w[i] * One, total) \in Nat
    BY <1>1, <2>3, Quotients
  <2>5. CASE weights[i] = None
    BY <1>1, <2>2, <2>3, <2>5 DEF total
  <2>6. CASE weights[i] # None
    <3>1. w[i] = weights[i] /\ d[i] = Div(weights[i] * One, total) /\ shares[i] = d[i]
      BY <2>6 DEF total
    <3>2. d[i] \in Nat /\ d[i] # None
      BY <1>1, <2>4, <3>1
    <3> QED
      BY <2>3, <3>1, <3>2
  <2> QED
    BY <2>5, <2>6
<1>3. shares \in [1 .. N -> Int \cup {None}]
  <2>1. \A i \in 1 .. N : shares[i] \in Int \cup {None}
    BY <1>2
  <2> QED
    BY <2>1
<1>4. PICK s \in [0 .. N -> Int] :
         /\ s[0] = 0
         /\ \A n \in 1 .. N : s[n] = s[n - 1] + (IF weights[n] = None THEN 0 ELSE weights[n])
         /\ total = s[N]
  <2>1. weights \in [1 .. N -> Int \cup {None}]
    OBVIOUS
  <2> QED
    BY <2>1, TotalSums
<1>5. PICK q \in [0 .. N -> Int] :
         /\ q[0] = 0
         /\ \A n \in 1 .. N : q[n] = q[n - 1] + (IF shares[n] = None THEN 0 ELSE shares[n])
         /\ Total(shares) = q[N]
  BY <1>3, TotalSums
<1>w. \A n \in 1 .. N : w[n] = IF weights[n] = None THEN 0 ELSE weights[n]
  OBVIOUS
<1> HIDE DEF w, d, total
<1> DEFINE Good(n) == total * q[n] <= One * s[n] /\ One * s[n] - total * q[n] <= n * (total - 1)
           Bad == {n \in Nat : n <= N /\ ~Good(n)}
<1>6. Good(0)
  BY <1>1, <1>4, <1>5
<1>7. ASSUME NEW n \in 1 .. N, Good(n - 1) PROVE Good(n)
  <2>1. n - 1 \in 0 .. N /\ n - 1 \in Nat /\ s[n - 1] \in Int /\ q[n - 1] \in Int
    BY <1>4, <1>5
  <2>2. s[n] = s[n - 1] + w[n] /\ q[n] = q[n - 1] + Div(w[n] * One, total) /\ w[n] \in Nat
    BY <1>2, <1>4, <1>5, <1>w
  <2>3. /\ total * (q[n - 1] + Div(w[n] * One, total)) <= One * (s[n - 1] + w[n])
        /\ One * (s[n - 1] + w[n]) - total * (q[n - 1] + Div(w[n] * One, total))
              <= ((n - 1) + 1) * (total - 1)
    BY <1>1, <1>7, <2>1, <2>2, OneShareMore
  <2>4. (n - 1) + 1 = n
    OBVIOUS
  <2> QED
    BY <2>2, <2>3, <2>4
<1>8. Good(N)
  <2> HIDE DEF Good
  <2>1. SUFFICES ASSUME N \in Bad PROVE FALSE
    OBVIOUS
  <2>2. PICK m \in Bad : \A n \in Bad : m <= n
    <3>1. Bad \in SUBSET Nat
      OBVIOUS
    <3> HIDE DEF Bad
    <3> QED
      BY <2>1, <3>1, LeastThere
  <2>3. m \in Nat /\ m <= N /\ ~Good(m)
    BY <2>2
  <2>4. m # 0
    BY <1>6, <2>3
  <2>5. m \in 1 .. N /\ m - 1 \in Nat /\ m - 1 <= N /\ ~(m <= m - 1)
    BY <2>3, <2>4
  <2>6. m - 1 \notin Bad
    <3> HIDE DEF Bad
    <3> QED
      BY <2>2, <2>5
  <2>7. Good(m - 1)
    BY <2>5, <2>6
  <2> QED
    BY <1>7, <2>3, <2>5, <2>7
<1> DEFINE Q == q[N]
<1>9. Q \in Int /\ total * Q <= One * total /\ One * total - total * Q <= N * (total - 1)
  BY <1>4, <1>5, <1>8
<1> HIDE DEF Q
<1>10. Q <= One
  BY <1>1, <1>9
<1>11. One - N < Q
  <2> DEFINE k == One - Q - N
  <2>1. SUFFICES ASSUME k >= 0 PROVE FALSE
    BY <1>1, <1>9
  <2>2. k \in Nat
    BY <1>1, <1>9, <2>1
  <2>3. total * k = One * total - total * Q - N * total
    BY <1>1, <1>9
  <2>4. total * k >= 0
    BY <1>1, <2>2
  <2>5. N * (total - 1) = N * total - N
    BY <1>1
  <2> DEFINE a == One * total
             b == total * Q
             c == N * total
  <2>6. a \in Int /\ b \in Int /\ c \in Int
    BY <1>1, <1>9
  <2> HIDE DEF k
  <2>7. a - b - c >= 0 /\ a - b <= c - N
    BY <1>9, <2>3, <2>4, <2>5
  <2> HIDE DEF a, b, c
  <2> QED
    BY <2>6, <2>7
<1> QED
  BY <1>5, <1>10, <1>11 DEF Q

\* Contributions add up to a number, and what a gate makes of it is one.
LEMMA CombinedIsNumber ==
    ASSUME NEW N \in Nat, NEW breakdown, DOMAIN breakdown = 1 .. N, Len(breakdown) = N,
           \A i \in 1 .. N : /\ breakdown[i].contribution \in Int \cup {None}
                             /\ breakdown[i].gateFactor \in Nat \cup {None}
    PROVE  Combined(breakdown) \in Int
<1> DEFINE start == Total(Column(breakdown, "contribution"))
           Through(n, x) == IF breakdown[n].gateFactor = None THEN x
                            ELSE Div(x * breakdown[n].gateFactor, One)
           step == [n \in 1 .. N |-> [x \in Int |-> Through(n, x)]]
           Combines(f) == f = [n \in 0 .. N |-> IF n = 0 THEN start ELSE Through(n, f[n - 1])]
           f == CHOOSE f : Combines(f)
<1>1. start \in Int
  <2> DEFINE column == Column(breakdown, "contribution")
  <2>1. column \in [1 .. N -> Int \cup {None}]
    BY DEF Column
  <2> HIDE DEF column
  <2>2. PICK s \in [0 .. N -> Int] : Total(column) = s[N]
    BY <2>1, TotalSums
  <2> QED
    BY <2>2 DEF column
<1>2. ASSUME NEW n \in 1 .. N, NEW x \in Int PROVE Through(n, x) \in Int
  <2> DEFINE g == breakdown[n].gateFactor
  <2>1. g \in Nat \cup {None}
    OBVIOUS
  <2> HIDE DEF g
  <2>2. CASE g # None
    <3> DEFINE y == x * g
    <3>1. y \in Int
      BY <2>1, <2>2
    <3> HIDE DEF y
    <3>2. Div(y, One) \in Int
      BY <3>1, NormalizersAssumption DEF Div
    <3> QED
      BY <2>2, <3>2 DEF g, y
  <2> QED
    BY <2>2 DEF g
<1> HIDE DEF start, Through
<1>3. step \in [1 .. N -> [Int -> Int]]
  BY <1>2
<1>4. PICK s : Steps(s, N, Int, start, step)
  <2> HIDE DEF step
  <2> QED
    BY <1>1, <1>3, Iterated
<1>5. Combines(s)
  <2>1. /\ s \in [0 .. N -> Int]
        /\ s[0] = start
        /\ \A n \in 1 .. N : s[n] = step[n][s[n - 1]]
    BY <1>4 DEF Steps
  <2>2. ASSUME NEW n \in 1 .. N PROVE s[n] = Through(n, s[n - 1])
    <3>1. s[n - 1] \in Int
      BY <2>1
    <3> QED
      BY <2>1, <3>1
  <2>3. s = [n \in 0 .. N |-> s[n]] /\ \A n \in 0 .. N : n # 0 => n \in 1 .. N
    BY <2>1
  <2> QED
    BY <2>1, <2>2, <2>3
<1>6. Combined(breakdown) = f[N]
  BY DEF Combined, start, Through
<1>7. Combines(f)
  BY <1>5
<1> HIDE DEF f
<1>8. f[0] = start /\ \A n \in 1 .. N : f[n] = Through(n, f[n - 1])
  BY <1>7
<1> DEFINE Bad == {n \in Nat : n <= N /\ f[n] \notin Int}
<1>9. SUFFICES ASSUME N \in Bad PROVE FALSE
  BY <1>6
<1>10. PICK m \in Bad : \A n \in Bad : m <= n
  <2>1. Bad \in SUBSET Nat
    OBVIOUS
  <2> HIDE DEF Bad
  <2> QED
    BY <1>9, <2>1, LeastThere
<1>11. m \in 1 .. N /\ m - 1 \in Nat /\ m - 1 <= N /\ ~(m <= m - 1) /\ f[m] \notin Int
  BY <1>1, <1>8, <1>10
<1>12. m - 1 \notin Bad
  <2> HIDE DEF Bad
  <2> QED
    BY <1>10, <1>11
<1>13. f[m - 1] \in Int
  BY <1>11, <1>12
<1> QED
  BY <1>2, <1>8, <1>11, <1>13

\* A score lies within the bounds of its definition, and strictly inside of them
\* it is the combined one, to the nearest part of a hundred.
LEMMA BoundsHold ==
    ASSUME NEW definition, CleanBounds(definition.postprocess), NEW combined \in Int
    PROVE  LET score == Postprocess(Clamp01(combined), definition, FALSE)
               low == definition.postprocess.floor
               high == definition.postprocess.ceiling
           IN  /\ score \in low .. high
               /\ score \in (low + 1) .. (high - 1) =>
                     2 * Abs(score * One - 100 * combined) <= One
<1> DEFINE low == definition.postprocess.floor
           high == definition.postprocess.ceiling
           raw == 100 * Clamp01(combined)
           bounded == Least(Greatest(raw, low * One), high * One)
           twice == 2 * bounded + One
           score == Div(twice, 2 * One)
           size == score * One
<1>1. low \in 0 .. 100 /\ high \in 0 .. 100 /\ low <= high
  BY DEF CleanBounds
<1>2. One \in Nat /\ One > 0 /\ Clamp01(combined) \in Score
  BY ClampIsScore, NormalizersAssumption
<1>3. Postprocess(Clamp01(combined), definition, FALSE) = score
  BY DEF Postprocess
<1>4. raw \in Nat
  BY <1>2 DEF Score
<1>5. /\ combined <= 0 => raw <= 0
      /\ combined >= One => raw >= 100 * One
      /\ (0 <= combined /\ combined <= One) => raw = 100 * combined
  BY <1>2, NormalizersAssumption DEF Clamp01
<1> HIDE DEF raw, low, high
<1> DEFINE least == low * One
           most == high * One
<1>6. least \in Nat /\ most \in Nat /\ least <= most
  <2>1. (high - low) * One >= 0
    BY <1>1, <1>2
  <2>2. (high - low) * One = most - least
    BY <1>1, <1>2
  <2>3. least \in Nat /\ most \in Nat
    BY <1>1, <1>2
  <2> QED
    BY <2>1, <2>2, <2>3
<1> HIDE DEF least, most
<1>7. bounded = Least(Greatest(raw, least), most)
  BY DEF least, most
<1> HIDE DEF bounded
<1>8. /\ bounded \in Nat /\ least <= bounded /\ bounded <= most
      /\ bounded > least /\ bounded < most => bounded = raw
  BY <1>4, <1>6, <1>7 DEF Least, Greatest
<1>9. score \in Nat /\ 2 * size <= twice /\ twice < 2 * size + 2 * One
  <2>1. twice \in Nat /\ 2 * One \in Nat /\ 2 * One > 0
    BY <1>2, <1>8
  <2> HIDE DEF twice
  <2>2. score \in Nat /\ (2 * One) * score <= twice /\ twice < (2 * One) * score + 2 * One
    BY <2>1, Quotients
  <2> HIDE DEF score
  <2>3. (2 * One) * score = 2 * size
    BY <1>2, <2>2
  <2> QED
    BY <2>2, <2>3
<1> HIDE DEF score
<1>10. size \in Nat
  BY <1>2, <1>9
<1>11. /\ score >= low + 1 => size >= least + One
       /\ score <= low - 1 => size <= least - One
       /\ score >= high + 1 => size >= most + One
       /\ score <= high - 1 => size <= most - One
  <2>1. ASSUME NEW a \in Int, NEW b \in Int, a >= b + 1 PROVE a * One >= b * One + One
    <3> DEFINE d == a - b - 1
    <3>1. d \in Nat
      BY <2>1
    <3>2. d * One >= 0
      BY <1>2, <3>1
    <3>3. d * One = a * One - b * One - One
      BY <1>2
    <3> DEFINE p == a * One
               q == b * One
    <3>4. p \in Int /\ q \in Int
      BY <1>2
    <3> HIDE DEF d, p, q
    <3> QED
      <4>1. p - q - One >= 0
        BY <3>2, <3>3 DEF p, q
      <4>2. p >= q + One
        BY <1>2, <3>4, <4>1
      <4> QED
        BY <4>2 DEF p, q
  <2>2. score \in Int /\ low \in Int /\ high \in Int
    BY <1>1, <1>9
  <2>3. score >= low + 1 => score * One >= low * One + One
    BY <2>1, <2>2
  <2>4. low >= score + 1 => low * One >= score * One + One
    BY <2>1, <2>2
  <2>5. score >= high + 1 => score * One >= high * One + One
    BY <2>1, <2>2
  <2>6. high >= score + 1 => high * One >= score * One + One
    BY <2>1, <2>2
  <2>7. least \in Int /\ most \in Int /\ size \in Int /\ One \in Int
    BY <1>2, <1>6, <1>10
  <2> HIDE DEF size
  <2>8. size = score * One /\ least = low * One /\ most = high * One
    BY DEF size, least, most
  <2> QED
    BY <2>2, <2>3, <2>4, <2>5, <2>6, <2>7, <2>8
<1> HIDE DEF size
<1>12. low <= score /\ score <= high
  BY <1>1, <1>2, <1>6, <1>8, <1>9, <1>10, <1>11
<1>13. ASSUME low + 1 <= score, score <= high - 1 PROVE 2 * Abs(size - 100 * combined) <= One
  <2>1. size >= least + One /\ size <= most - One
    BY <1>11, <1>13
  <2>2. bounded > least /\ bounded < most /\ bounded = raw
    BY <1>2, <1>6, <1>8, <1>9, <1>10, <2>1
  <2>3. most <= 100 * One
    <3>1. (100 - high) * One >= 0
      BY <1>1, <1>2
    <3>2. (100 - high) * One = 100 * One - high * One
      BY <1>1, <1>2
    <3>3. most \in Int /\ most = high * One
      BY <1>6 DEF most
    <3> QED
      BY <1>2, <3>1, <3>2, <3>3
  <2>4. raw > 0 /\ raw < 100 * One
    BY <1>2, <1>4, <1>6, <2>2, <2>3
  <2>5. 0 <= combined /\ combined <= One
    BY <1>2, <1>4, <1>5, <2>4
  <2>6. bounded = 100 * combined
    BY <1>5, <2>2, <2>5
  <2> DEFINE e == size - 100 * combined
  <2>7. e \in Int /\ 2 * e <= One /\ 2 * e > 0 - One - 1
    BY <1>2, <1>8, <1>9, <1>10, <2>6
  <2> HIDE DEF e
  <2>8. 2 * Abs(e) <= One
    BY <1>2, <2>7 DEF Abs
  <2> QED
    BY <2>8 DEF e
<1>14. /\ score \in low .. high
       /\ score \in (low + 1) .. (high - 1) => 2 * Abs(size - 100 * combined) <= One
  <2>1. low \in Int /\ high \in Int /\ score \in Int
    BY <1>1, <1>9
  <2> QED
    BY <1>12, <1>13, <2>1
<1> QED
  BY <1>3, <1>14, Zenon DEF low, high, size

\* What is judged, and refused by no constraint, is what its breakdown says.
LEMMA ScoredExplains ==
    ASSUME NEW definition, CleanDefinition(definition), NEW series, SoundSeries(series),
           NEW window, WindowFits(window, series),
           NEW outcome, outcome = ScoreActivity(definition, series, window, Profile),
           outcome.kind = "ranked", outcome.constraintViolated = None
    PROVE  Explains(definition, outcome)
<1> DEFINE entries == Entries(definition.features, series, window)
           applied == ApplyNullPolicy(entries)
           breakdown == Breakdown(applied.features, Profile)
           n == Len(definition.features)
           total == Additive(entries)
<1>1. /\ "missing" \notin DOMAIN applied
      /\ outcome.score = Postprocess(Clamp01(Combined(breakdown)), definition, FALSE)
      /\ outcome.breakdown = breakdown
      /\ \A i \in DOMAIN breakdown : breakdown[i].normalized # NaN
  <2> DEFINE gap == CheckCoverage(definition, series, window, Profile)
             fired == EvaluateConstraints(definition, series, window)
  <2>1. outcome = Judge(definition, gap, fired, applied, Profile)
    BY DEF ScoreActivity
  <2>2. fired # 0 => definition.constraints[fired].reason # None
    <3>1. fired # 0 => fired \in DOMAIN definition.constraints
      BY FiredIsThere DEF CleanDefinition
    <3> QED
      BY <3>1 DEF CleanDefinition, CleanRule
  <2> HIDE DEF gap, fired, applied, breakdown
  <2>3. gap = 0 /\ fired = 0 /\ "missing" \notin DOMAIN applied
    BY <2>1, <2>2 DEF Judge, NoData, Ranked
  <2>4. outcome = Scored(definition, breakdown)
    BY <2>1, <2>3 DEF Judge, breakdown
  <2>5. /\ outcome = Ranked(definition, Clamp01(Combined(breakdown)), breakdown, None)
        /\ \A i \in DOMAIN breakdown : breakdown[i].normalized # NaN
    BY <2>4 DEF Scored, Thrown
  <2> DEFINE score == Clamp01(Combined(breakdown))
  <2>6. outcome.score = Postprocess(score, definition, FALSE)
    <3> HIDE DEF score
    <3> QED
      BY <2>5 DEF Ranked, Postprocess, score
  <2>7. outcome.breakdown = breakdown
    BY <2>5 DEF Ranked
  <2> QED
    BY <2>3, <2>5, <2>6, <2>7
<1>2. n \in Nat /\ n # 0 /\ DOMAIN definition.features = 1 .. n
  BY DEF CleanDefinition
<1>3. ASSUME NEW i \in 1 .. n
      PROVE  entries[i].feature = definition.features[i] /\ CleanShare(definition.features[i])
  BY <1>2 DEF Entries, Entry, CleanDefinition
<1>4. DOMAIN entries = 1 .. n
  BY <1>2 DEF Entries
<1> HIDE DEF entries, n, total, applied
<1> DEFINE weights == [i \in 1 .. n |-> IF Contributes(entries[i]) THEN entries[i].feature.weight
                                        ELSE None]
<1>5. weights \in [1 .. n -> Nat \cup {None}] /\ total = Total(weights)
  <2>1. ASSUME NEW i \in 1 .. n PROVE weights[i] \in Nat \cup {None}
    <3> DEFINE f == definition.features[i]
    <3>1. entries[i].feature = f /\ CleanShare(f)
      BY <1>3
    <3> HIDE DEF f
    <3> QED
      BY <3>1 DEF Contributes, CleanShare
  <2> QED
    BY <1>4, <2>1 DEF Additive, total
<1>6. /\ applied.features = [i \in 1 .. n |-> Weigh(entries[i], total)]
      /\ total > 0 /\ total \in Nat
  <2>1. total \in Nat
    BY <1>2, <1>5, SumOfNaturals
  <2>2. /\ ~(total <= 0)
        /\ applied = [features |-> [i \in DOMAIN entries |-> Weigh(entries[i], total)]]
    <3>1. applied = ApplyNullPolicy(entries)
      BY DEF applied
    <3> HIDE DEF applied
    <3> QED
      BY <1>1, <3>1 DEF ApplyNullPolicy, total
  <2> QED
    BY <1>4, <2>1, <2>2
<1> DEFINE weighed == [i \in 1 .. n |-> Weigh(entries[i], total)]
<1>7. /\ DOMAIN breakdown = 1 .. n
      /\ \A i \in 1 .. n :
            breakdown[i] = Explained(weighed[i], NormalizedOf(weighed[i], Profile))
  BY <1>6 DEF Breakdown
<1>8. Len(breakdown) = n
  <2>1. breakdown = [i \in 1 .. n |-> breakdown[i]]
    BY <1>6 DEF Breakdown
  <2> HIDE DEF breakdown
  <2> QED
    BY <1>2, <2>1, LenOfFunction
<1>9. ASSUME NEW i \in 1 .. n
      PROVE  /\ breakdown[i].weight = IF weights[i] = None THEN None
                                      ELSE Div(weights[i] * One, total)
             /\ breakdown[i].contribution \in Int \cup {None}
             /\ breakdown[i].gateFactor \in Nat \cup {None}
             /\ breakdown[i].raw = None => breakdown[i].gateFactor \in {None, One}
  <2> DEFINE e == weighed[i]
             f == definition.features[i]
             normalized == NormalizedOf(e, Profile)
  <2>1. /\ e.feature = entries[i].feature /\ e.status = entries[i].status
        /\ e.value = entries[i].value
        /\ e.weight = IF Contributes(entries[i]) THEN Redistributed(entries[i].feature.weight, total)
                      ELSE None
    BY DEF Weigh
  <2>2. entries[i].feature = f /\ CleanShare(f)
    BY <1>3
  <2>3. normalized \in Score
    <3>1. applied.features[i] = e /\ i \in DOMAIN applied.features
      BY <1>6
    <3>2. /\ normalized \in Score \cup {NaN}
          /\ e.status = "excluded" => normalized \in Score
      BY <1>1, <3>1, AppliedIsNormalized DEF applied, entries
    <3>3. breakdown[i] = Explained(e, normalized)
      BY <1>7
    <3>4. breakdown[i].normalized # NaN
      BY <1>1, <1>7
    <3> HIDE DEF e, normalized, breakdown
    <3>5. breakdown[i].normalized = IF e.status = "excluded" THEN 0 ELSE normalized
      BY <3>3 DEF Explained
    <3> QED
      BY <3>2, <3>4, <3>5
  <2>4. breakdown[i] = Explained(e, normalized)
    BY <1>7
  <2> HIDE DEF e, f, normalized, weighed, breakdown
  <2>5. normalized \in Nat /\ normalized # NaN /\ 0 # NaN /\ One \in Nat /\ One > 0 /\ None \notin Int
    BY <2>3, NormalizersAssumption DEF Score
  <2> DEFINE share == Div(weights[i] * One, total)
  <2>6. Contributes(e) <=> weights[i] # None
    <3>1. Contributes(e) <=> Contributes(entries[i])
      BY <2>1 DEF Contributes
    <3>2. Contributes(entries[i]) => entries[i].feature.weight \in Nat
      BY <2>2 DEF Contributes, CleanShare
    <3> QED
      BY <2>5, <3>1, <3>2
  <2>7. Contributes(e) => e.weight = share /\ share \in Nat
    <3> SUFFICES ASSUME Contributes(e) PROVE e.weight = share /\ share \in Nat
      OBVIOUS
    <3>1. Contributes(entries[i])
      BY <2>1 DEF Contributes
    <3>2. weights[i] = entries[i].feature.weight /\ weights[i] \in Nat
      BY <2>2, <3>1 DEF Contributes, CleanShare
    <3>3. e.weight = share
      BY <2>1, <3>1, <3>2 DEF Redistributed
    <3>4. weights[i] * One \in Nat
      BY <2>5, <3>2
    <3> HIDE DEF weights
    <3>5. share \in Nat
      BY <1>6, <3>4, Quotients
    <3> QED
      BY <3>3, <3>5
  <2> HIDE DEF weights, share
  <2>8. breakdown[i].weight = IF weights[i] = None THEN None ELSE Div(weights[i] * One, total)
    <3>1. breakdown[i].weight = IF Contributes(e) THEN e.weight ELSE None
      BY <2>4 DEF Explained
    <3> QED
      BY <2>6, <2>7, <3>1 DEF share
  <2>9. breakdown[i].contribution \in Int \cup {None}
    <3> DEFINE part == Div(e.weight * normalized, One)
    <3>1. breakdown[i].contribution \in {None, part}
          /\ (~Contributes(e) => breakdown[i].contribution = None)
      BY <2>4 DEF Explained
    <3>2. Contributes(e) => part \in Nat
      <4>1. Contributes(e) => e.weight * normalized \in Nat
        BY <2>5, <2>7
      <4> QED
        BY <2>5, <4>1, Quotients
    <3> HIDE DEF part
    <3> QED
      BY <3>1, <3>2
  <2>10. breakdown[i].gateFactor = None
         \/ (f.role = "gate" /\ breakdown[i].gateFactor = GateFactor(e, normalized))
    BY <2>1, <2>2, <2>4 DEF Explained
  <2>11. breakdown[i].gateFactor \in Nat \cup {None}
    <3>1. CASE f.role = "gate" /\ e.value # None
      <4> DEFINE x == f.gateFloor + Div((One - f.gateFloor) * normalized, One)
      <4>1. f.gateFloor \in Score
        BY <2>2, <3>1 DEF CleanShare
      <4>2. (One - f.gateFloor) * normalized \in Nat
        <5>1. One - f.gateFloor \in Nat
          BY <2>5, <4>1 DEF Score
        <5> QED
          BY <2>5, <5>1
      <4>3. Div((One - f.gateFloor) * normalized, One) \in Nat
        BY <2>5, <4>2, Quotients
      <4>4. x \in Int
        BY <4>1, <4>3 DEF Score
      <4>5. GateFactor(e, normalized) = Clamp01(x)
        BY <2>1, <2>2, <3>1 DEF GateFactor
      <4> HIDE DEF x
      <4>6. Clamp01(x) \in Nat
        BY <4>4, ClampIsScore DEF Score
      <4> QED
        BY <2>10, <4>5, <4>6
    <3>2. CASE f.role # "gate"
      BY <2>10, <3>2
    <3>3. CASE e.value = None
      <4>1. GateFactor(e, normalized) = One
        BY <3>3 DEF GateFactor
      <4> QED
        BY <2>5, <2>10, <4>1
    <3> QED
      BY <3>1, <3>2, <3>3
  <2>12. breakdown[i].raw = None => breakdown[i].gateFactor \in {None, One}
    <3>1. breakdown[i].raw = e.value
      BY <2>4 DEF Explained
    <3>2. e.value = None => GateFactor(e, normalized) = One
      BY DEF GateFactor
    <3> QED
      BY <2>10, <3>1, <3>2
  <2> QED
    BY <2>8, <2>9, <2>11, <2>12
<1> DEFINE shares == Column(breakdown, "weight")
<1>10. shares = [i \in 1 .. n |-> IF weights[i] = None THEN None ELSE Div(weights[i] * One, total)]
  <2> HIDE DEF breakdown, weights
  <2> QED
    BY <1>7, <1>9 DEF Column
<1> HIDE DEF weights, breakdown, shares
<1>11. One - n < Total(shares) /\ Total(shares) <= One
  <2>1. Total(weights) > 0
    BY <1>5, <1>6
  <2>2. shares = [i \in 1 .. n |-> IF weights[i] = None THEN None
                                   ELSE Div(weights[i] * One, Total(weights))]
    BY <1>5, <1>10
  <2> QED
    BY <1>2, <1>5, <2>1, <2>2, SharesComeToOne
<1>12. Combined(breakdown) \in Int
  BY <1>2, <1>7, <1>8, <1>9, CombinedIsNumber
<1> DEFINE low == definition.postprocess.floor
           high == definition.postprocess.ceiling
           combined == Combined(breakdown)
<1>13. /\ outcome.score \in low .. high
       /\ outcome.score \in (low + 1) .. (high - 1) =>
             2 * Abs(outcome.score * One - 100 * combined) <= One
  <2>1. CleanBounds(definition.postprocess)
    BY DEF CleanDefinition
  <2> HIDE DEF combined
  <2>2. outcome.score = Postprocess(Clamp01(combined), definition, FALSE)
    BY <1>1 DEF combined
  <2> QED
    BY <1>12, <2>1, <2>2, BoundsHold DEF combined
<1>14. \A i \in DOMAIN breakdown : breakdown[i].raw = None => breakdown[i].gateFactor \in {None, One}
  BY <1>7, <1>9
<1> QED
  BY <1>1, <1>8, <1>11, <1>13, <1>14 DEF Explains, shares

\* A score is what its breakdown adds up to, within the bounds of its definition:
\* the shares of what contributed lose less than a part of One each, however many
\* features were missing (scoring-engine.ts:319-320, 363-372, 444-449).
THEOREM ScoreIsExplained == Spec => []BreakdownExplainsTheScore
<1>1. AssessmentInv => BreakdownExplainsTheScore
  <2> SUFFICES ASSUME AssessmentInv, NEW a \in Assessed, NEW o \in Verdicts(a),
                      o.kind = "ranked", o.constraintViolated = None
               PROVE  Explains(Definitions[a], o)
    BY DEF BreakdownExplainsTheScore
  <2> DEFINE series == SeriesOf(a, TRUE).value
             windows == BuildDayWindows(series)
  <2>1. /\ outcomes # None /\ a \in Activities /\ Answerable(a) /\ SeriesOf(a, TRUE).ok
        /\ outcomes[a] = JudgeDays(a, series)
    BY AssessedIsJudged
  <2>2. SoundSeries(series) /\ CleanDefinition(Definitions[a])
    BY <2>1, SeriesIsSound, LoadedIsClean
  <2> HIDE DEF series
  <2>3. PICK d \in DOMAIN windows : o = outcomes[a][d]
    BY <2>1 DEF Verdicts, Days, JudgeDays
  <2> DEFINE window == windows[d]
  <2>4. WindowFits(window, series)
    BY <2>2, <2>3, WindowsFit
  <2>5. o = ScoreActivity(Definitions[a], series, window, Profile)
    BY <2>1, <2>3 DEF JudgeDays
  <2> HIDE DEF window
  <2> QED
    BY <2>2, <2>4, <2>5, ScoredExplains
<1> QED
  BY <1>1, AssessmentIsInvariant, PTL

----------------------------------------------------------------------------
(**************************************************************************)
(* A short answer is the beginning of a longer one.                        *)
(**************************************************************************)

\* A set of places that holds every place before one of its own holds the first
\* ones,
LEMMA DownToOne ==
    ASSUME NEW n \in Nat, NEW S \in SUBSET (1 .. n),
           \A i \in S, j \in 1 .. n : j <= i => j \in S
    PROVE  S = 1 .. Cardinality(S) /\ Cardinality(S) \in 0 .. n
<1> DEFINE c == Cardinality(S)
<1>1. IsFiniteSet(S) /\ c \in Nat
  BY PositionsAreFinite
<1>2. \A m \in Nat : IsFiniteSet(1 .. m) /\ Cardinality(1 .. m) = m
  <2>1. ASSUME NEW m \in Nat PROVE IsFiniteSet(1 .. m) /\ Cardinality(1 .. m) = m
    <3>1. 1 \in Int /\ m \in Int
      OBVIOUS
    <3>2. IsFiniteSet(1 .. m) /\ Cardinality(1 .. m) = IF 1 > m THEN 0 ELSE m - 1 + 1
      BY <3>1, FS_Interval, Zenon
    <3> QED
      BY <3>2
  <2> QED
    BY <2>1
<1>3. c <= n
  <2>1. IsFiniteSet(1 .. n) /\ Cardinality(1 .. n) = n
    BY <1>2
  <2>2. Cardinality(S) <= Cardinality(1 .. n)
    BY <2>1, FS_Subset
  <2> QED
    BY <2>1, <2>2
<1>4. ASSUME NEW i \in S PROVE i \in 1 .. c
  <2>1. i \in Nat /\ 1 <= i /\ i <= n
    OBVIOUS
  <2>2. 1 .. i \in SUBSET S
    BY <2>1
  <2>3. Cardinality(1 .. i) <= Cardinality(S)
    BY <1>1, <2>2, FS_Subset
  <2>4. Cardinality(1 .. i) = i
    BY <1>2, <2>1
  <2> QED
    BY <1>1, <2>1, <2>3, <2>4
<1>5. S = 1 .. c
  <2>1. IsFiniteSet(1 .. c) /\ Cardinality(1 .. c) = c
    BY <1>1, <1>2
  <2>2. S \in SUBSET (1 .. c)
    BY <1>4
  <2>3. Cardinality(1 .. c) = Cardinality(S)
    BY <2>1
  <2> QED
    BY <2>1, <2>2, <2>3, FS_Subset
<1> QED
  BY <1>1, <1>3, <1>5

\* and what is kept of a list at the first places is its beginning.
LEMMA FirstOnesAreKept ==
    ASSUME NEW m \in Nat, NEW s
    PROVE  Kept(s, 1 .. m) = [k \in 1 .. m |-> s[k]] /\ Cardinality(1 .. m) = m
<1>1. \A i \in Nat : Cardinality(1 .. i) = i
  <2>1. ASSUME NEW i \in Nat PROVE Cardinality(1 .. i) = i
    <3>1. 1 \in Int /\ i \in Int
      OBVIOUS
    <3>2. Cardinality(1 .. i) = IF 1 > i THEN 0 ELSE i - 1 + 1
      BY <3>1, FS_Interval, Zenon
    <3> QED
      BY <3>2
  <2> QED
    BY <2>1
<1>2. ASSUME NEW k \in 1 .. m PROVE Nth(1 .. m, k) = k
  <2>1. ASSUME NEW i \in 1 .. m PROVE Cardinality({j \in 1 .. m : j <= i}) = i
    <3>1. {j \in 1 .. m : j <= i} = 1 .. i /\ i \in Nat
      OBVIOUS
    <3>2. Cardinality(1 .. i) = i
      BY <1>1, <3>1
    <3> QED
      BY <3>1, <3>2
  <2> DEFINE all == 1 .. m
             nth == Nth(all, k)
  <2>2. Cardinality(all) = m /\ all \in SUBSET (1 .. m)
    BY <1>1
  <2> HIDE DEF all
  <2>3. k \in 1 .. Cardinality(all)
    BY <2>2
  <2>4. nth \in all /\ Cardinality({j \in all : j <= nth}) = k
    BY <2>2, <2>3, NthIsThere
  <2> HIDE DEF nth
  <2>5. nth = k
    BY <2>1, <2>4 DEF all
  <2> QED
    BY <2>5 DEF nth, all
<1>3. Kept(s, 1 .. m) = [k \in 1 .. m |-> s[Nth(1 .. m, k)]]
  BY <1>1 DEF Kept
<1> QED
  BY <1>1, <1>2, <1>3

\* Where the stamps of an axis run in order from a day without a gap, the dates
\* of the axis are that day and the ones that follow it, each once.
LEMMA CalendarDates ==
    ASSUME NEW n \in Nat, NEW axis, DOMAIN axis = 1 .. n, NEW first \in Int, RunsFrom(axis, first)
    PROVE  /\ Len(DistinctDates(axis)) \in Nat
           /\ DistinctDates(axis) = [k \in 1 .. Len(DistinctDates(axis)) |-> first + k - 1]
           /\ DatesOf(axis) = first .. (first + Len(DistinctDates(axis)) - 1)
<1> DEFINE date(i) == DateOf(axis[i])
           F == {i \in DOMAIN axis : \A j \in 1 .. (i - 1) : date(j) # date(i)}
           L == Cardinality(F)
           Up(p) == {j \in F : j <= p}
<1>1. F \in SUBSET (1 .. n) /\ L \in Nat
  <2>1. F \in SUBSET (1 .. n)
    OBVIOUS
  <2> HIDE DEF F
  <2> QED
    BY <2>1, PositionsAreFinite
<1>2. /\ \A i, j \in 1 .. n : i <= j => date(i) <= date(j)
      /\ \A i \in 1 .. n : date(i) \in Int /\ date(i) >= first
      /\ \A i \in 1 .. n : \A x \in first .. date(i) : \E j \in 1 .. n : date(j) = x
  BY DEF RunsFrom, DatesOf
<1>3. DistinctDates(axis) = [k \in 1 .. L |-> date(Nth(F, k))]
  <2>1. DistinctDates(axis) = [k \in 1 .. L |-> DateOf(Kept(axis, F)[k])]
    BY DEF DistinctDates
  <2>2. Kept(axis, F) = [k \in 1 .. L |-> axis[Nth(F, k)]]
    BY DEF Kept
  <2> HIDE DEF F
  <2> QED
    BY <2>1, <2>2
<1>f. \A i \in F, j \in F : date(i) = date(j) => i = j
  <2>1. ASSUME NEW i \in F, NEW j \in F, i < j PROVE date(i) # date(j)
    <3>1. i \in 1 .. (j - 1)
      BY <2>1
    <3> QED
      BY <3>1
  <2>2. \A i \in F : i \in Int
    BY <1>1
  <2>3. \A i \in F, j \in F : i < j \/ j < i \/ i = j
    BY <2>2
  <2> HIDE DEF F, date
  <2> QED
    BY <2>1, <2>3
<1>g. ASSUME NEW i \in 1 .. n PROVE \E j \in F : date(j) = date(i) /\ j <= i
  <2> DEFINE E == {j \in 1 .. n : date(j) = date(i)}
  <2>1. E \in SUBSET Nat /\ i \in E
    OBVIOUS
  <2>2. PICK j \in E : \A h \in E : j <= h
    <3> HIDE DEF E
    <3> QED
      BY <2>1, LeastThere
  <2>3. j \in F
    <3>1. ASSUME NEW h \in 1 .. (j - 1) PROVE date(h) # date(j)
      <4>1. h \in 1 .. n /\ ~(j <= h)
        BY <3>1
      <4> QED
        BY <2>2, <4>1
    <3> QED
      BY <3>1
  <2>4. j <= i
    BY <2>1, <2>2
  <2>5. date(j) = date(i)
    BY <2>2
  <2> HIDE DEF F, E, date
  <2> QED
    BY <2>3, <2>4, <2>5
<1> HIDE DEF F
<1>4. ASSUME NEW p \in F PROVE /\ Cardinality(Up(p)) = date(p) - first + 1
                               /\ Cardinality(Up(p)) <= L
  <2> DEFINE I == first .. date(p)
             U == Up(p)
             f == [j \in U |-> date(j)]
  <2>1. p \in 1 .. n /\ date(p) \in Int /\ date(p) >= first
    BY <1>1, <1>2
  <2>2. U \in SUBSET (1 .. n) /\ U \in SUBSET F
    BY <1>1
  <2> HIDE DEF date
  <2>3. f \in [U -> I]
    <3>1. ASSUME NEW j \in U PROVE date(j) \in I
      <4>1. j \in 1 .. n /\ j <= p
        BY <2>2
      <4> QED
        BY <1>2, <2>1, <4>1
    <3> QED
      BY <3>1
  <2>4. \A a, b \in U : f[a] = f[b] => a = b
    BY <1>f
  <2>5. ASSUME NEW x \in I PROVE \E j \in U : f[j] = x
    <3>1. PICK i \in 1 .. n : date(i) = x
      BY <1>2, <2>1
    <3>2. PICK j \in F : date(j) = date(i) /\ j <= i
      BY <1>g
    <3>3. j \in 1 .. n
      BY <1>1
    <3>4. j <= p
      <4>1. CASE p < j
        <5>1. date(p) <= date(j) /\ date(j) <= date(p)
          BY <1>2, <2>1, <3>1, <3>2, <3>3, <4>1
        <5>2. date(p) = date(j)
          BY <2>1, <5>1, <1>2, <3>3
        <5>3. p = j
          BY <1>f, <5>2
        <5> QED
          BY <2>1, <4>1, <5>3
      <4> QED
        BY <2>1, <3>3, <4>1
    <3> QED
      BY <3>1, <3>2, <3>4
  <2> HIDE DEF f
  <2>6. f \in Injection(U, I) /\ f \in Surjection(U, I)
    BY <2>3, <2>4, <2>5 DEF Injection, Surjection, IsInjective
  <2>7. IsFiniteSet(I) /\ Cardinality(I) = date(p) - first + 1
    <3>1. first \in Int /\ date(p) \in Int
      BY <2>1
    <3>2. IsFiniteSet(I) /\ Cardinality(I) = IF first > date(p) THEN 0 ELSE date(p) - first + 1
      BY <3>1, FS_Interval, Zenon
    <3> QED
      BY <2>1, <3>2
  <2>8. Cardinality(U) = Cardinality(I)
    <3> HIDE DEF U, I
    <3> QED
      BY <2>6, <2>7, FS_Injection
  <2>9. Cardinality(U) <= L
    <3>1. IsFiniteSet(F)
      BY <1>1, PositionsAreFinite
    <3> QED
      BY <2>2, <3>1, FS_Subset
  <2> QED
    BY <2>7, <2>8, <2>9
<1>5. ASSUME NEW k \in 1 .. L PROVE Nth(F, k) \in F /\ date(Nth(F, k)) = first + k - 1
  <2>1. Nth(F, k) \in F /\ Cardinality(Up(Nth(F, k))) = k
    BY <1>1, NthIsThere
  <2>2. Cardinality(Up(Nth(F, k))) = date(Nth(F, k)) - first + 1
    BY <1>4, <2>1
  <2>3. date(Nth(F, k)) \in Int
    BY <1>1, <1>2, <2>1
  <2> HIDE DEF date, Up
  <2> QED
    BY <2>1, <2>2, <2>3
<1> DEFINE D == [k \in 1 .. L |-> first + k - 1]
<1>6. DistinctDates(axis) = D
  <2> HIDE DEF date
  <2> QED
    BY <1>3, <1>5
<1>7. Len(DistinctDates(axis)) = L
  <2>1. D = [k \in 1 .. L |-> D[k]]
    OBVIOUS
  <2> HIDE DEF D
  <2> QED
    BY <1>1, <1>6, <2>1, LenOfFunction
<1>8. ASSUME NEW x \in DatesOf(axis) PROVE x \in first .. (first + L - 1)
  <2>1. PICK i \in 1 .. n : x = date(i)
    BY DEF DatesOf
  <2>2. PICK j \in F : date(j) = date(i)
    BY <1>g
  <2>3. date(j) - first + 1 <= L /\ date(j) \in Int /\ date(j) >= first
    BY <1>1, <1>2, <1>4, <2>2
  <2> HIDE DEF date
  <2> QED
    BY <1>1, <2>1, <2>2, <2>3
<1>9. ASSUME NEW x \in first .. (first + L - 1) PROVE x \in DatesOf(axis)
  <2> DEFINE k == x - first + 1
  <2>1. k \in 1 .. L /\ first + k - 1 = x
    BY <1>1
  <2> HIDE DEF k
  <2>2. Nth(F, k) \in F /\ date(Nth(F, k)) = x
    BY <1>5, <2>1
  <2>3. Nth(F, k) \in DOMAIN axis
    BY <1>1, <2>2
  <2> QED
    BY <2>2, <2>3 DEF DatesOf
<1>10. DatesOf(axis) = first .. (first + L - 1)
  BY <1>8, <1>9, Zenon
<1> QED
  BY <1>1, <1>6, <1>7, <1>10

\* A channel up to a date.
UpTo(channel, last) ==
    KeepIndexes(channel, {i \in DOMAIN channel.time : DateOf(channel.time[i]) <= last})

\* The first slots of a channel.
Beginning(channel, m) ==
    [time |-> [k \in 1 .. m |-> channel.time[k]],
     values |-> [code \in DOMAIN channel.values |-> [k \in 1 .. m |-> channel.values[code][k]]]]

\* Where the stamps run in order, what is dated up to a day comes first.
LEMMA UpToIsBeginning ==
    ASSUME NEW channel, SoundChannel(channel), NEW first \in Int, RunsFrom(channel.time, first),
           NEW last \in Int
    PROVE  \E m \in 0 .. Len(channel.time) :
              /\ UpTo(channel, last) = Beginning(channel, m)
              /\ \A i \in 1 .. Len(channel.time) : DateOf(channel.time[i]) <= last <=> i \in 1 .. m
<1> DEFINE n == Len(channel.time)
           date(i) == DateOf(channel.time[i])
           S == {i \in DOMAIN channel.time : date(i) <= last}
           m == Cardinality(S)
<1>1. n \in Nat /\ DOMAIN channel.time = 1 .. n
  BY DEF SoundChannel
<1>2. S \in SUBSET (1 .. n)
  BY <1>1
<1>3. \A i \in S, j \in 1 .. n : j <= i => j \in S
  <2>1. \A i, j \in 1 .. n : i <= j => date(i) <= date(j)
    BY <1>1 DEF RunsFrom
  <2>2. \A i \in 1 .. n : date(i) \in Int
    BY <1>1 DEF RunsFrom
  <2> HIDE DEF date
  <2> QED
    BY <1>1, <2>1, <2>2
<1>4. S = 1 .. m /\ m \in 0 .. n
  <2> HIDE DEF S
  <2> QED
    BY <1>1, <1>2, <1>3, DownToOne
<1>5. UpTo(channel, last) = KeepIndexes(channel, 1 .. m)
  BY <1>4 DEF UpTo
<1>6. \A i \in 1 .. n : date(i) <= last <=> i \in 1 .. m
  BY <1>1, <1>4
<1> HIDE DEF S
<1>7. m \in Nat
  BY <1>1, <1>4
<1> HIDE DEF m
<1>8. \A s : Kept(s, 1 .. m) = [k \in 1 .. m |-> s[k]]
  BY <1>7, FirstOnesAreKept
<1>9. KeepIndexes(channel, 1 .. m) = Beginning(channel, m)
  BY <1>8 DEF KeepIndexes, Beginning
<1> QED
  BY <1>4, <1>5, <1>6, <1>9

\* A sound channel up to its end is the channel.
LEMMA AllOfIt ==
    ASSUME NEW channel, SoundChannel(channel)
    PROVE  Beginning(channel, Len(channel.time)) = channel
<1> DEFINE n == Len(channel.time)
           whole == Beginning(channel, n)
<1>1. /\ channel = [time |-> channel.time, values |-> channel.values]
      /\ channel.time = [k \in 1 .. n |-> channel.time[k]]
      /\ channel.values = [code \in DOMAIN channel.values |-> channel.values[code]]
  BY DEF SoundChannel
<1>2. whole = [time |-> [k \in 1 .. n |-> channel.time[k]],
               values |-> [code \in DOMAIN channel.values |->
                             [k \in 1 .. n |-> channel.values[code][k]]]]
  BY DEF Beginning
<1>3. \A code \in DOMAIN channel.values :
         [k \in 1 .. n |-> channel.values[code][k]] = channel.values[code]
  <2>1. \A code \in DOMAIN channel.values : channel.values[code] \in [1 .. n -> Int \cup {None}]
    BY DEF SoundChannel
  <2> HIDE DEF n
  <2> QED
    BY <2>1
<1>4. whole.time = channel.time /\ whole.values = channel.values
  <2>1. whole.time = [k \in 1 .. n |-> channel.time[k]]
    BY <1>2
  <2>2. whole.values = [code \in DOMAIN channel.values |-> [k \in 1 .. n |-> channel.values[code][k]]]
    BY <1>2
  <2>3. whole.values = [code \in DOMAIN channel.values |-> channel.values[code]]
    BY <1>3, <2>2
  <2> HIDE DEF whole, n
  <2> QED
    BY <1>1, <2>1, <2>3
<1>5. whole = [time |-> whole.time, values |-> whole.values]
  BY <1>2
<1> HIDE DEF whole
<1>6. whole = channel
  BY <1>1, <1>4, <1>5
<1> QED
  BY <1>6 DEF whole

\* On the calendar, a series cut to some days is a series up to a date, on both
\* axes, although the days are read off one of them.
LEMMA CutIsUpTo ==
    ASSUME NEW series, SoundSeries(series), NEW first \in Int, OnCalendar(series, first),
           NEW n \in Nat \ {0}
    PROVE  LET cut == SliceToDays(series, n)
           IN  /\ cut.hourly = UpTo(series.hourly, first + n - 1)
               /\ cut.daily = UpTo(series.daily, first + n - 1)
               /\ cut.provenance = series.provenance
<1> DEFINE cut == SliceToDays(series, n)
           last == first + n - 1
           axis == LeadingAxis(series)
           dates == DistinctDates(axis)
           L == Len(dates)
           kept == {dates[i] : i \in 1 .. n}
<1>1. /\ SoundChannel(series.hourly) /\ RunsFrom(series.hourly.time, first)
      /\ SoundChannel(series.daily) /\ RunsFrom(series.daily.time, first)
  BY DEF SoundSeries, OnCalendar
<1>2. axis = IF series.daily.time # <<>> THEN series.daily.time ELSE series.hourly.time
  BY DEF LeadingAxis
<1>l. last \in Int /\ last >= first
  OBVIOUS
<1> HIDE DEF last, axis
<1>3. DOMAIN axis = 1 .. Len(axis) /\ Len(axis) \in Nat /\ RunsFrom(axis, first)
  BY <1>1, <1>2 DEF SoundChannel
<1>4. /\ L \in Nat
      /\ dates = [k \in 1 .. L |-> first + k - 1]
      /\ DatesOf(axis) = first .. (first + L - 1)
  BY <1>3, CalendarDates
<1>5. CASE n < L
  <2>1. kept = first .. last
    <3>1. \A i \in 1 .. n : i \in 1 .. L /\ dates[i] = first + i - 1
      <4> HIDE DEF dates
      <4> QED
        BY <1>4, <1>5
    <3> HIDE DEF dates
    <3>2. kept = {first + i - 1 : i \in 1 .. n}
      BY <3>1
    <3>3. ASSUME NEW x \in first .. last PROVE \E i \in 1 .. n : x = first + i - 1
      <4>1. x - first + 1 \in 1 .. n /\ x = first + (x - first + 1) - 1
        BY DEF last
      <4> QED
        BY <4>1
    <3>4. ASSUME NEW i \in 1 .. n PROVE first + i - 1 \in first .. last
      BY DEF last
    <3> QED
      BY <3>2, <3>3, <3>4
  <2>2. ~(n <= 0 \/ n >= L)
    BY <1>4, <1>5
  <2>3. cut = [series EXCEPT !.hourly = KeepDates(@, kept), !.daily = KeepDates(@, kept)]
    BY <2>2 DEF SliceToDays, axis
  <2> HIDE DEF kept, cut
  <2>4. /\ cut.hourly = KeepDates(series.hourly, kept)
        /\ cut.daily = KeepDates(series.daily, kept)
        /\ cut.provenance = series.provenance
    BY <2>3 DEF SoundSeries
  <2>5. ASSUME NEW channel, RunsFrom(channel.time, first)
        PROVE  KeepDates(channel, kept) = UpTo(channel, last)
    <3>1. \A i \in DOMAIN channel.time : DateOf(channel.time[i]) \in Int
                                         /\ DateOf(channel.time[i]) >= first
      BY <2>5 DEF RunsFrom
    <3>2. \A i \in DOMAIN channel.time : DateOf(channel.time[i]) \in kept
                                         <=> DateOf(channel.time[i]) <= last
      BY <1>l, <2>1, <3>1
    <3> QED
      BY <3>2 DEF KeepDates, UpTo, IndexesOn
  <2> QED
    BY <1>1, <2>4, <2>5 DEF cut, last
<1>6. CASE ~(n < L)
  <2>1. cut = series
    BY <1>4, <1>6 DEF SliceToDays, axis
  <2>2. ASSUME NEW x \in DatesOf(axis) PROVE x <= last
    <3>1. x \in Int /\ x <= first + L - 1
      BY <1>4
    <3> HIDE DEF dates
    <3> QED
      BY <1>4, <1>6, <3>1 DEF last
  <2>3. ASSUME NEW channel, SoundChannel(channel), RunsFrom(channel.time, first),
               DatesOf(channel.time) \subseteq DatesOf(axis)
        PROVE  UpTo(channel, last) = channel
    <3>1. PICK m \in 0 .. Len(channel.time) :
              /\ UpTo(channel, last) = Beginning(channel, m)
              /\ \A i \in 1 .. Len(channel.time) :
                    DateOf(channel.time[i]) <= last <=> i \in 1 .. m
      BY <1>l, <2>3, UpToIsBeginning
    <3>2. DOMAIN channel.time = 1 .. Len(channel.time) /\ Len(channel.time) \in Nat
      BY <2>3 DEF SoundChannel
    <3>3. \A i \in 1 .. Len(channel.time) : i \in 1 .. m
      BY <2>2, <2>3, <3>1, <3>2 DEF DatesOf
    <3>4. m = Len(channel.time)
      <4>1. CASE Len(channel.time) = 0
        BY <3>1, <4>1
      <4>2. CASE Len(channel.time) # 0
        <5>1. Len(channel.time) \in 1 .. Len(channel.time)
          BY <3>2, <4>2
        <5>2. Len(channel.time) \in 1 .. m
          BY <3>3, <5>1
        <5> QED
          BY <3>1, <3>2, <5>2
      <4> QED
        BY <4>1, <4>2
    <3> QED
      BY <2>3, <3>1, <3>4, AllOfIt
  <2>4. DatesOf(series.hourly.time) \subseteq DatesOf(axis)
    BY <1>2 DEF OnCalendar
  <2>5. DatesOf(series.daily.time) \subseteq DatesOf(axis)
    <3>1. CASE series.daily.time # <<>>
      BY <1>2, <3>1
    <3>2. CASE series.daily.time = <<>>
      <4>1. DOMAIN <<>> = {}
        BY EmptySeq
      <4> QED
        BY <3>2, <4>1 DEF DatesOf
    <3> QED
      BY <3>1, <3>2
  <2> QED
    BY <1>1, <2>1, <2>3, <2>4, <2>5 DEF cut, last
<1> QED
  BY <1>5, <1>6

\* What has slots has some on the first day.
LEMMA FirstDayIsKept ==
    ASSUME NEW channel, SoundChannel(channel), NEW first \in Int, RunsFrom(channel.time, first),
           NEW last \in Int, last >= first
    PROVE  UpTo(channel, last).time = <<>> <=> channel.time = <<>>
<1> DEFINE n == Len(channel.time)
<1>1. n \in Nat /\ DOMAIN channel.time = 1 .. n /\ channel.time = [i \in 1 .. n |-> channel.time[i]]
  BY DEF SoundChannel
<1>e. Len(<<>>) = 0 /\ DOMAIN <<>> = {} /\ <<>> = [i \in {} |-> <<>>[i]] /\ 1 .. 0 = {}
  BY EmptySeq
<1>2. PICK m \in 0 .. n :
          /\ UpTo(channel, last) = Beginning(channel, m)
          /\ \A i \in 1 .. n : DateOf(channel.time[i]) <= last <=> i \in 1 .. m
  BY UpToIsBeginning
<1> DEFINE cut == UpTo(channel, last)
<1>3. cut.time = [k \in 1 .. m |-> channel.time[k]]
  BY <1>2 DEF Beginning
<1> HIDE DEF cut
<1>4. ASSUME channel.time = <<>> PROVE cut.time = <<>>
  <2>1. n = 0
    BY <1>e, <1>4
  <2>2. 1 .. m = {}
    BY <1>2, <2>1
  <2>3. cut.time = [k \in {} |-> channel.time[k]]
    BY <1>3, <2>2
  <2> QED
    BY <1>e, <2>3
<1>5. ASSUME channel.time # <<>> PROVE cut.time # <<>>
  <2>1. n # 0
    <3>1. ASSUME n = 0 PROVE channel.time = [i \in {} |-> channel.time[i]]
      <4> HIDE DEF n
      <4> QED
        BY <1>1, <1>e, <3>1
    <3>2. ASSUME n = 0 PROVE channel.time = <<>>
      BY <1>e, <3>1, <3>2
    <3> QED
      BY <1>5, <3>2
  <2>2. 1 \in 1 .. n
    BY <1>1, <2>1
  <2>3. /\ DateOf(channel.time[1]) \in Int /\ DateOf(channel.time[1]) >= first
        /\ first .. DateOf(channel.time[1]) \subseteq DatesOf(channel.time)
    BY <1>1, <2>2 DEF RunsFrom
  <2>4. PICK i \in 1 .. n : DateOf(channel.time[i]) = first
    <3>1. first \in DatesOf(channel.time)
      BY <2>3
    <3> QED
      BY <1>1, <3>1 DEF DatesOf
  <2>5. i \in 1 .. m
    BY <1>2, <2>4
  <2>6. i \in DOMAIN cut.time
    BY <1>3, <2>5
  <2> QED
    BY <1>e, <2>6
<1> QED
  BY <1>4, <1>5 DEF cut

\* Merging what was cut is cutting what was merged.
LEMMA MergeOfTheCut ==
    ASSUME NEW left, NEW right, SoundChannel(left), SoundChannel(right), NEW first \in Int,
           RunsFrom(left.time, first), RunsFrom(right.time, first),
           NEW last \in Int, last >= first, MergeChannel(left, right).ok
    PROVE  LET whole == MergeChannel(left, right).value
               cut == MergeChannel(UpTo(left, last), UpTo(right, last))
           IN  /\ cut.ok /\ cut.value = UpTo(whole, last)
               /\ RunsFrom(whole.time, first)
<1> DEFINE whole == MergeChannel(left, right).value
           l == UpTo(left, last)
           r == UpTo(right, last)
           cut == MergeChannel(l, r)
<1>1. (l.time = <<>> <=> left.time = <<>>) /\ (r.time = <<>> <=> right.time = <<>>)
  BY FirstDayIsKept
<1> HIDE DEF l, r
<1>2. CASE right.time = <<>>
  <2>1. whole = left /\ cut.ok /\ cut.value = l
    BY <1>1, <1>2 DEF MergeChannel, Ok
  <2> QED
    BY <2>1 DEF l, r
<1>3. CASE right.time # <<>> /\ left.time = <<>>
  <2>1. whole = right /\ cut.ok /\ cut.value = r
    BY <1>1, <1>3 DEF MergeChannel, Ok
  <2> QED
    BY <2>1 DEF l, r
<1>4. CASE right.time # <<>> /\ left.time # <<>>
  <2> DEFINE I == {i \in DOMAIN left.time : DateOf(left.time[i]) <= last}
             both == [code \in DOMAIN left.values \cup DOMAIN right.values |->
                        IF code \in DOMAIN left.values THEN left.values[code]
                        ELSE right.values[code]]
  <2>1. /\ left.time = right.time
        /\ DOMAIN left.values \cap DOMAIN right.values = {}
        /\ whole = [time |-> left.time, values |-> both]
    BY <1>4 DEF MergeChannel, Ok, Err
  <2> HIDE DEF whole
  <2>2. whole.time = left.time /\ whole.values = both
    BY <2>1
  <2>3. l = KeepIndexes(left, I) /\ r = KeepIndexes(right, I) /\ UpTo(whole, last) = KeepIndexes(whole, I)
    BY <2>1, <2>2 DEF UpTo, l, r
  <2> HIDE DEF I
  <2>4. /\ l.time = Kept(left.time, I) /\ r.time = Kept(left.time, I)
        /\ DOMAIN l.values = DOMAIN left.values /\ DOMAIN r.values = DOMAIN right.values
        /\ \A code \in DOMAIN left.values : l.values[code] = Kept(left.values[code], I)
        /\ \A code \in DOMAIN right.values : r.values[code] = Kept(right.values[code], I)
    BY <2>1, <2>3 DEF KeepIndexes
  <2>5. cut = Ok([time |-> l.time,
                  values |-> [code \in DOMAIN l.values \cup DOMAIN r.values |->
                                IF code \in DOMAIN l.values THEN l.values[code]
                                ELSE r.values[code]]])
    BY <1>1, <1>4, <2>1, <2>4 DEF MergeChannel
  <2>6. UpTo(whole, last) = [time |-> Kept(left.time, I),
                             values |-> [code \in DOMAIN both |-> Kept(both[code], I)]]
    BY <2>2, <2>3 DEF KeepIndexes
  <2>7. [code \in DOMAIN l.values \cup DOMAIN r.values |->
            IF code \in DOMAIN l.values THEN l.values[code] ELSE r.values[code]]
          = [code \in DOMAIN both |-> Kept(both[code], I)]
    <3>1. DOMAIN both = DOMAIN left.values \cup DOMAIN right.values
      OBVIOUS
    <3>2. ASSUME NEW code \in DOMAIN both
          PROVE  (IF code \in DOMAIN l.values THEN l.values[code] ELSE r.values[code])
                    = Kept(both[code], I)
      BY <2>4
    <3> HIDE DEF both
    <3> QED
      BY <2>4, <3>1, <3>2
  <2>8. cut.ok /\ cut.value = UpTo(whole, last)
    <3> DEFINE A == [code \in DOMAIN l.values \cup DOMAIN r.values |->
                       IF code \in DOMAIN l.values THEN l.values[code] ELSE r.values[code]]
               B == [code \in DOMAIN both |-> Kept(both[code], I)]
    <3>1. A = B /\ l.time = Kept(left.time, I)
      BY <2>4, <2>7
    <3>2. cut = Ok([time |-> l.time, values |-> A])
      BY <2>5
    <3>3. UpTo(whole, last) = [time |-> Kept(left.time, I), values |-> B]
      BY <2>6
    <3> HIDE DEF A, B, cut
    <3> QED
      BY <3>1, <3>2, <3>3 DEF Ok
  <2>9. RunsFrom(whole.time, first)
    BY <2>2
  <2> HIDE DEF cut
  <2> QED
    BY <2>8, <2>9 DEF whole, l, r, cut
<1> QED
  BY <1>2, <1>3, <1>4

\* Totals do not see what is absent at the end.
LEMMA AbsentAddsNothing ==
    ASSUME NEW N \in Nat, NEW m \in 0 .. N, NEW values, values \in [1 .. N -> Int \cup {None}],
           \A i \in (m + 1) .. N : values[i] = None
    PROVE  Total(values) = Total([i \in 1 .. m |-> values[i]])
<1> DEFINE short == [i \in 1 .. m |-> values[i]]
<1>1. m \in Nat /\ short \in [1 .. m -> Int \cup {None}]
  OBVIOUS
<1>2. PICK s \in [0 .. N -> Int] :
         /\ s[0] = 0
         /\ \A n \in 1 .. N : s[n] = s[n - 1] + (IF values[n] = None THEN 0 ELSE values[n])
         /\ Total(values) = s[N]
  BY TotalSums
<1>s. \A i \in 1 .. m : short[i] = values[i]
  OBVIOUS
<1> HIDE DEF short
<1>3. PICK t \in [0 .. m -> Int] :
         /\ t[0] = 0
         /\ \A n \in 1 .. m : t[n] = t[n - 1] + (IF short[n] = None THEN 0 ELSE short[n])
         /\ Total(short) = t[m]
  BY <1>1, TotalSums
<1> DEFINE Bad == {n \in 0 .. N : s[n] # (IF n <= m THEN t[n] ELSE t[m])}
<1>4. Bad = {}
  <2>1. SUFFICES ASSUME Bad # {} PROVE FALSE
    OBVIOUS
  <2>2. PICK n \in Bad : \A i \in Bad : n <= i
    <3>1. Bad \in SUBSET Nat
      OBVIOUS
    <3> HIDE DEF Bad
    <3> QED
      BY <2>1, <3>1, LeastThere
  <2>3. n \in 0 .. N /\ s[n] # (IF n <= m THEN t[n] ELSE t[m])
    OBVIOUS
  <2>4. n # 0
    BY <1>1, <1>2, <1>3, <2>3
  <2>5. n - 1 \in 0 .. N /\ n \in 1 .. N /\ ~(n <= n - 1)
    BY <2>3, <2>4
  <2>6. n - 1 \notin Bad
    <3> HIDE DEF Bad
    <3> QED
      BY <2>2, <2>5
  <2>7. s[n - 1] = IF n - 1 <= m THEN t[n - 1] ELSE t[m]
    BY <2>5, <2>6
  <2>8. s[n] = s[n - 1] + (IF values[n] = None THEN 0 ELSE values[n])
    BY <1>2, <2>5
  <2>9. CASE n <= m
    <3>1. n \in 1 .. m /\ n - 1 <= m
      BY <2>5, <2>9
    <3>2. t[n] = t[n - 1] + (IF values[n] = None THEN 0 ELSE values[n])
      BY <1>3, <1>s, <3>1
    <3>3. s[n - 1] = t[n - 1]
      BY <2>7, <3>1
    <3> HIDE DEF Bad
    <3> QED
      BY <2>3, <2>8, <2>9, <3>2, <3>3
  <2>10. CASE ~(n <= m)
    <3>1. values[n] = None
      BY <1>1, <2>5, <2>10
    <3>2. s[n] = s[n - 1]
      <4>1. s[n - 1] \in Int
        BY <2>5
      <4> QED
        BY <2>8, <3>1, <4>1
    <3>3. n - 1 <= m => n - 1 = m
      BY <1>1, <2>5, <2>10
    <3>4. s[n - 1] = t[m]
      BY <2>7, <3>3
    <3> HIDE DEF Bad
    <3>5. s[n] # t[m]
      BY <2>3, <2>10
    <3> QED
      BY <3>2, <3>4, <3>5
  <2> QED
    BY <2>9, <2>10
<1>5. s[N] = t[m]
  <2>1. N \in 0 .. N /\ N \notin Bad
    <3> HIDE DEF Bad
    <3> QED
      BY <1>4
  <2>2. s[N] = IF N <= m THEN t[N] ELSE t[m]
    BY <2>1
  <2>3. N <= m => N = m
    BY <1>1
  <2> QED
    BY <2>2, <2>3
<1> QED
  BY <1>2, <1>3, <1>5 DEF short

\* A channel some beginning of which is another.
Begins(short, long, m, n) ==
    /\ short.values \in Values(m)
    /\ long.values \in Values(n)
    /\ \A i \in 1 .. m : short.values[i] = long.values[i]
    /\ short.unit = long.unit

\* What is read of slots both have is the same,
LEMMA SlotsAreTheSame ==
    ASSUME NEW values, NEW other, NEW indexes, \A i \in indexes : values[i] = other[i]
    PROVE  SlotsOf(values, indexes) = SlotsOf(other, indexes)
<1>1. {i \in indexes : values[i] # None} = {i \in indexes : other[i] # None}
  OBVIOUS
<1> QED
  BY <1>1 DEF SlotsOf

\* and what is counted.
LEMMA MatchingIsTheSame ==
    ASSUME NEW values, NEW other, NEW present, \A i \in present : values[i] = other[i], NEW p
    PROVE  Matching(values, present, p) = Matching(other, present, p)
<1>1. {i \in present : EvaluatePredicate(p, values[i])}
         = {i \in present : EvaluatePredicate(p, other[i])}
  OBVIOUS
<1> QED
  BY <1>1 DEF Matching

\* so is what a reducer makes of them,
LEMMA ReducingTheBeginning ==
    ASSUME NEW n \in Nat, NEW m \in 0 .. n, NEW short, NEW long, Begins(short, long, m, n),
           NEW indexes \in SUBSET (1 .. m), NEW reducer
    PROVE  ReduceOver(short, indexes, reducer) = ReduceOver(long, indexes, reducer)
<1> DEFINE values == long.values
           other == short.values
           present == {i \in indexes : values[i] # None}
           all == [i \in DOMAIN values |-> IF i \in present THEN values[i] ELSE None]
           some == [i \in DOMAIN other |-> IF i \in present THEN other[i] ELSE None]
<1>1. /\ values \in Values(n) /\ other \in Values(m)
      /\ \A i \in 1 .. m : other[i] = values[i]
      /\ short.unit = long.unit
      /\ m \in Nat
  BY DEF Begins
<1> HIDE DEF values, other
<1>2. DOMAIN values = 1 .. n /\ DOMAIN other = 1 .. m
  BY <1>1 DEF Values
<1>3. \A i \in indexes : other[i] = values[i]
  BY <1>1
<1>4. SlotsOf(other, indexes) = SlotsOf(values, indexes)
  BY <1>3, SlotsAreTheSame
<1>5. SlotsOf(values, indexes).present = present
  BY DEF SlotsOf
<1>6. present \in SUBSET (1 .. m)
  OBVIOUS
<1> HIDE DEF present
<1>7. Total(all) = Total(some)
  <2>1. all \in [1 .. n -> Int \cup {None}]
    BY <1>1, <1>2 DEF Values
  <2>2. \A i \in (m + 1) .. n : all[i] = None
    <3>1. \A i \in (m + 1) .. n : i \in 1 .. n /\ i \notin 1 .. m
      BY <1>1
    <3> QED
      BY <1>2, <1>6, <3>1
  <2>3. some = [i \in 1 .. m |-> all[i]]
    <3>1. ASSUME NEW i \in 1 .. m PROVE some[i] = all[i]
      <4>1. i \in 1 .. n /\ other[i] = values[i]
        BY <1>1
      <4> QED
        BY <1>2, <4>1
    <3>2. some = [i \in 1 .. m |-> some[i]]
      BY <1>2
    <3> HIDE DEF some, all
    <3> QED
      BY <3>1, <3>2
  <2> HIDE DEF some, all
  <2>4. Total(all) = Total([i \in 1 .. m |-> all[i]])
    BY <2>1, <2>2, AbsentAddsNothing
  <2> QED
    BY <2>3, <2>4
<1>8. {values[i] : i \in present} = {other[i] : i \in present}
  BY <1>1, <1>6
<1>9. Reduce(other, present, reducer) = Reduce(values, present, reducer)
  <2>1. /\ Reduce(values, present, reducer) =
              CASE reducer = "mean" -> Div(Total(all), Cardinality(present))
                [] reducer = "sum" -> Total(all)
                [] reducer = "max" -> Max({values[i] : i \in present})
                [] reducer = "min" -> Min({values[i] : i \in present})
        /\ Reduce(other, present, reducer) =
              CASE reducer = "mean" -> Div(Total(some), Cardinality(present))
                [] reducer = "sum" -> Total(some)
                [] reducer = "max" -> Max({other[i] : i \in present})
                [] reducer = "min" -> Min({other[i] : i \in present})
    BY DEF Reduce
  <2> HIDE DEF all, some
  <2> QED
    BY <1>7, <1>8, <2>1
<1> QED
  BY <1>1, <1>4, <1>5, <1>9 DEF ReduceOver, values, other

\* and what any aggregator does.
LEMMA AggregatingTheBeginning ==
    ASSUME NEW n \in Nat, NEW m \in 0 .. n, NEW short, NEW long, Begins(short, long, m, n),
           NEW spec, spec.type \in DOMAIN Aggregators, NEW window,
           IF spec.type = "identity"
           THEN window.dailyIndex = None \/ window.dailyIndex \in 1 .. m
           ELSE window.hourIndexes \in SUBSET (1 .. m) /\ window.daylightIndexes \in SUBSET (1 .. m)
    PROVE  AggregateOver(spec, short, window) = AggregateOver(spec, long, window)
<1>1. CASE spec.type \in Reducers
  <2>1. window.hourIndexes \in SUBSET (1 .. m)
    BY <1>1 DEF Reducers
  <2>2. ReduceOver(short, window.hourIndexes, spec.type)
           = ReduceOver(long, window.hourIndexes, spec.type)
    BY <2>1, ReducingTheBeginning
  <2> QED
    BY <1>1, <2>2, ReducerReads
<1>2. CASE spec.type = "identity"
  <2>1. ASSUME window.dailyIndex # None
        PROVE  ReduceOver(short, {window.dailyIndex}, "mean")
                  = ReduceOver(long, {window.dailyIndex}, "mean")
    <3>1. {window.dailyIndex} \in SUBSET (1 .. m)
      BY <1>2, <2>1
    <3> QED
      BY <3>1, ReducingTheBeginning
  <2> QED
    BY <1>2, <2>1, IdentityReads
<1>3. CASE spec.type = "daylightWindow"
  <2>1. ReduceOver(short, window.daylightIndexes, spec.params.reduce)
           = ReduceOver(long, window.daylightIndexes, spec.params.reduce)
    BY <1>3, ReducingTheBeginning
  <2> QED
    BY <1>3, <2>1, DaylightReads
<1>4. CASE spec.type \in {"shareOfHours", "countIf"}
  <2> DEFINE hours == HoursOf(spec, window)
             slots == SlotsOf(long.values, hours)
             matching == Matching(long.values, slots.present, spec.params.predicate)
  <2>1. \A i \in hours : short.values[i] = long.values[i]
    BY <1>4 DEF HoursOf, Begins
  <2>2. slots.present \in SUBSET hours
    BY DEF SlotsOf
  <2> HIDE DEF hours
  <2>3. SlotsOf(short.values, hours) = slots
    BY <2>1, SlotsAreTheSame
  <2>4. Matching(short.values, slots.present, spec.params.predicate) = matching
    <3> HIDE DEF slots
    <3>1. \A i \in slots.present : short.values[i] = long.values[i]
      BY <2>1, <2>2
    <3> QED
      BY <3>1, MatchingIsTheSame
  <2> HIDE DEF slots, matching
  <2>5. CASE spec.type = "shareOfHours"
    <3>1. AggregateOver(spec, long, window) = Tally(slots, Div(matching * One, slots.sampleCount), "ratio")
      BY <2>5 DEF AggregateOver, Reducers, HoursOf, hours, slots, matching
    <3>2. AggregateOver(spec, short, window) = Tally(slots, Div(matching * One, slots.sampleCount), "ratio")
      BY <2>3, <2>4, <2>5 DEF AggregateOver, Reducers, HoursOf, hours
    <3> QED
      BY <3>1, <3>2
  <2>6. CASE spec.type = "countIf"
    <3>1. AggregateOver(spec, long, window) = Tally(slots, matching, "hour")
      BY <2>6 DEF AggregateOver, Reducers, HoursOf, hours, slots, matching
    <3>2. AggregateOver(spec, short, window) = Tally(slots, matching, "hour")
      BY <2>3, <2>4, <2>6 DEF AggregateOver, Reducers, HoursOf, hours
    <3> QED
      BY <3>1, <3>2
  <2> QED
    BY <1>4, <2>5, <2>6
<1> QED
  BY <1>1, <1>2, <1>3, <1>4 DEF Aggregators, Reducers

\* Two series merge when their axes do, axis by axis;
LEMMA MergedByAxis ==
    ASSUME NEW one, NEW next,
           MergeChannel(one.hourly, next.hourly).ok, MergeChannel(one.daily, next.daily).ok
    PROVE  LET both == MergeSeries(one, next).value
           IN  /\ both.hourly = MergeChannel(one.hourly, next.hourly).value
               /\ both.daily = MergeChannel(one.daily, next.daily).value
               /\ both.provenance = one.provenance \o next.provenance
<1> DEFINE hourly == MergeChannel(one.hourly, next.hourly)
           daily == MergeChannel(one.daily, next.daily)
           provenance == one.provenance \o next.provenance
           both == MergeSeries(one, next)
<1> HIDE DEF hourly, daily
<1>1. both = Ok([hourly |-> hourly.value, daily |-> daily.value, provenance |-> provenance])
  BY DEF MergeSeries, hourly, daily
<1> HIDE DEF provenance, both
<1>2. /\ both.value.hourly = hourly.value
      /\ both.value.daily = daily.value
      /\ both.value.provenance = provenance
  BY <1>1 DEF Ok
<1> QED
  BY <1>2 DEF both, provenance, hourly, daily

\* and only then.
LEMMA MergedOnlyIfAxesAre ==
    ASSUME NEW one, NEW next, MergeSeries(one, next).ok
    PROVE  MergeChannel(one.hourly, next.hourly).ok /\ MergeChannel(one.daily, next.daily).ok
<1> DEFINE hourly == MergeChannel(one.hourly, next.hourly)
           daily == MergeChannel(one.daily, next.daily)
<1>1. /\ ~hourly.ok => MergeSeries(one, next) = hourly
      /\ hourly.ok /\ ~daily.ok => MergeSeries(one, next) = daily
  BY DEF MergeSeries
<1> HIDE DEF hourly, daily
<1>2. hourly.ok /\ daily.ok
  BY <1>1
<1> QED
  BY <1>2 DEF hourly, daily

\* A series cut after a date.
ShortSeries(short, long, last) ==
    /\ short.hourly = UpTo(long.hourly, last)
    /\ short.daily = UpTo(long.daily, last)
    /\ short.provenance = long.provenance

\* The series of an activity, asked for fewer days, is the one it would have had,
\* cut after the last of them.
LEMMA AskedForLess ==
    ASSUME AssessmentInv, outcomes # None, NEW a \in Activities, Answerable(a),
           SeriesOf(a, FALSE).ok, NEW first \in Int,
           \A c \in Capability : Served(c) => OnCalendar(exchange[c].result.value, first)
    PROVE  LET long == SeriesOf(a, FALSE).value
           IN  /\ SoundSeries(long)
               /\ RunsFrom(long.hourly.time, first) /\ RunsFrom(long.daily.time, first)
               /\ ShortSeries(SeriesOf(a, TRUE).value, long, first + days - 1)
<1> DEFINE needed == {c \in Capability : \E m \in Reads(a) : Dictionary[m].capability = c}
           some == CHOOSE c \in needed : TRUE
           last == first + days - 1
           Whole(c) == exchange[c].result.value
           longer == SeriesOf(a, FALSE)
           shorter == SeriesOf(a, TRUE)
<1>1. \A c \in needed : Served(c)
  BY DEF Answerable
<1>2. days \in Nat \ {0}
  BY DEF AssessmentInv
<1>l. last \in Int /\ last >= first
  BY <1>2
<1>3. ASSUME NEW c \in needed
      PROVE  /\ SoundSeries(Whole(c)) /\ OnCalendar(Whole(c), first)
             /\ ShortSeries(Cut(c), Whole(c), last)
  <2>1. c \in Capability /\ Served(c)
    BY <1>1
  <2>2. SoundSeries(Whole(c)) /\ OnCalendar(Whole(c), first)
    BY <2>1, ServedIsSound
  <2> HIDE DEF Whole
  <2>3. LET cut == SliceToDays(Whole(c), days)
        IN  /\ cut.hourly = UpTo(Whole(c).hourly, last)
            /\ cut.daily = UpTo(Whole(c).daily, last)
            /\ cut.provenance = Whole(c).provenance
    BY <1>2, <2>2, CutIsUpTo
  <2>4. Cut(c) = SliceToDays(Whole(c), days)
    BY DEF Cut, Whole
  <2> QED
    BY <2>2, <2>3, <2>4 DEF ShortSeries
<1>4. CASE needed = Capability
  <2> DEFINE f == Whole("forecast")
             g == Whole("marine")
  <2>1. /\ shorter = MergeSeries(Cut("forecast"), Cut("marine"))
        /\ longer = MergeSeries(f, g)
    BY <1>4 DEF SeriesOf
  <2>2. /\ SoundSeries(f) /\ OnCalendar(f, first) /\ ShortSeries(Cut("forecast"), f, last)
        /\ SoundSeries(g) /\ OnCalendar(g, first) /\ ShortSeries(Cut("marine"), g, last)
    BY <1>3, <1>4 DEF Capability
  <2>o. longer.ok
    OBVIOUS
  <2> HIDE DEF f, g, last, longer, shorter
  <2>3. SoundSeries(longer.value)
    BY <2>o, <2>1, <2>2, MergeIsSound
  <2> DEFINE hourly == MergeChannel(f.hourly, g.hourly)
             daily == MergeChannel(f.daily, g.daily)
             cutHourly == MergeChannel(UpTo(f.hourly, last), UpTo(g.hourly, last))
             cutDaily == MergeChannel(UpTo(f.daily, last), UpTo(g.daily, last))
  <2>4. /\ hourly.ok /\ daily.ok
        /\ longer.value.hourly = hourly.value
        /\ longer.value.daily = daily.value
        /\ longer.value.provenance = f.provenance \o g.provenance
    <3>1. hourly.ok /\ daily.ok
      BY <2>o, <2>1, MergedOnlyIfAxesAre
    <3>2. MergeChannel(f.hourly, g.hourly).ok /\ MergeChannel(f.daily, g.daily).ok
      BY <3>1
    <3> DEFINE both == MergeSeries(f, g).value
    <3>3. longer.value = both
      BY <2>1
    <3> HIDE DEF hourly, daily
    <3>4. /\ both.hourly = MergeChannel(f.hourly, g.hourly).value
          /\ both.daily = MergeChannel(f.daily, g.daily).value
          /\ both.provenance = f.provenance \o g.provenance
      BY <3>2, MergedByAxis
    <3> HIDE DEF both
    <3>5. both.hourly = hourly.value /\ both.daily = daily.value
      BY <3>4 DEF hourly, daily
    <3> QED
      BY <3>1, <3>3, <3>4, <3>5
  <2>5. /\ cutHourly.ok /\ cutHourly.value = UpTo(hourly.value, last)
        /\ RunsFrom(hourly.value.time, first)
    <3> HIDE DEF hourly, cutHourly
    <3> QED
      BY <1>l, <2>2, <2>4, MergeOfTheCut DEF SoundSeries, OnCalendar, hourly, cutHourly
  <2>6. /\ cutDaily.ok /\ cutDaily.value = UpTo(daily.value, last)
        /\ RunsFrom(daily.value.time, first)
    <3> HIDE DEF daily, cutDaily
    <3> QED
      BY <1>l, <2>2, <2>4, MergeOfTheCut DEF SoundSeries, OnCalendar, daily, cutDaily
  <2>7. /\ shorter.value.hourly = cutHourly.value
        /\ shorter.value.daily = cutDaily.value
        /\ shorter.value.provenance = f.provenance \o g.provenance
    <3> DEFINE cf == Cut("forecast")
               cg == Cut("marine")
    <3> HIDE DEF cf, cg
    <3>1. /\ cf.hourly = UpTo(f.hourly, last) /\ cg.hourly = UpTo(g.hourly, last)
          /\ cf.daily = UpTo(f.daily, last) /\ cg.daily = UpTo(g.daily, last)
          /\ cf.provenance = f.provenance /\ cg.provenance = g.provenance
      BY <2>2 DEF ShortSeries, cf, cg
    <3>2. /\ MergeChannel(cf.hourly, cg.hourly) = cutHourly
          /\ MergeChannel(cf.daily, cg.daily) = cutDaily
      BY <3>1
    <3> HIDE DEF cutHourly, cutDaily
    <3>3. shorter = MergeSeries(cf, cg)
      BY <2>1 DEF cf, cg
    <3>4. MergeChannel(cf.hourly, cg.hourly).ok /\ MergeChannel(cf.daily, cg.daily).ok
      BY <2>5, <2>6, <3>2
    <3> DEFINE both == MergeSeries(cf, cg).value
    <3>5. /\ both.hourly = MergeChannel(cf.hourly, cg.hourly).value
          /\ both.daily = MergeChannel(cf.daily, cg.daily).value
          /\ both.provenance = cf.provenance \o cg.provenance
      BY <3>4, MergedByAxis
    <3>6. shorter.value = both
      BY <3>3
    <3>7. cf.provenance \o cg.provenance = f.provenance \o g.provenance
      BY <3>1
    <3> HIDE DEF both
    <3>8. both.hourly = cutHourly.value /\ both.daily = cutDaily.value
      BY <3>2, <3>5
    <3> QED
      BY <3>5, <3>6, <3>7, <3>8
  <2> HIDE DEF hourly, daily, cutHourly, cutDaily
  <2>8. ShortSeries(shorter.value, longer.value, last)
    BY <2>4, <2>5, <2>6, <2>7 DEF ShortSeries
  <2> QED
    BY <2>3, <2>4, <2>5, <2>6, <2>8 DEF last, longer, shorter
<1>5. CASE needed # Capability
  <2>1. shorter = Ok(Cut(some)) /\ longer = Ok(Whole(some))
    BY <1>5 DEF SeriesOf
  <2>2. some \in needed
    BY SomethingIsNeeded
  <2> HIDE DEF some, needed, Whole, longer, shorter
  <2>3. /\ shorter.value = Cut(some) /\ longer.value = Whole(some)
    BY <2>1 DEF Ok
  <2> QED
    BY <1>3, <2>2, <2>3 DEF OnCalendar, longer, shorter
<1> QED
  BY <1>4, <1>5

\* A day of the shorter series is the same day of the longer one.
LEMMA SameWindows ==
    ASSUME NEW short, NEW long, SoundSeries(short), SoundSeries(long), NEW first \in Int,
           RunsFrom(long.hourly.time, first), RunsFrom(long.daily.time, first),
           NEW last \in Int, ShortSeries(short, long, last)
    PROVE  \E S, N \in Nat : /\ S <= N
                             /\ DOMAIN BuildDayWindows(short) = 1 .. S
                             /\ DOMAIN BuildDayWindows(long) = 1 .. N
                             /\ \A d \in 1 .. S : BuildDayWindows(short)[d] = BuildDayWindows(long)[d]
<1> DEFINE n == Len(long.hourly.time)
           k == Len(long.daily.time)
           dates == DistinctDates(short.hourly.time)
           all == DistinctDates(long.hourly.time)
           S == Len(dates)
           N == Len(all)
           date(i) == DateOf(long.hourly.time[i])
<1>1. /\ SoundChannel(long.hourly) /\ SoundChannel(long.daily)
      /\ SoundChannel(short.hourly) /\ SoundChannel(short.daily)
  BY DEF SoundSeries
<1>2. /\ n \in Nat /\ DOMAIN long.hourly.time = 1 .. n
      /\ k \in Nat /\ DOMAIN long.daily.time = 1 .. k
  BY <1>1 DEF SoundChannel
<1>3. PICK m \in 0 .. n : /\ UpTo(long.hourly, last) = Beginning(long.hourly, m)
                          /\ \A i \in 1 .. n : date(i) <= last <=> i \in 1 .. m
  BY <1>1, UpToIsBeginning
<1>4. PICK l \in 0 .. k : /\ UpTo(long.daily, last) = Beginning(long.daily, l)
                          /\ \A i \in 1 .. k : DateOf(long.daily.time[i]) <= last <=> i \in 1 .. l
  BY <1>1, UpToIsBeginning
<1>5. /\ short.hourly.time = [i \in 1 .. m |-> long.hourly.time[i]]
      /\ DOMAIN short.hourly.values = DOMAIN long.hourly.values
      /\ \A code \in DOMAIN long.hourly.values :
            short.hourly.values[code] = [i \in 1 .. m |-> long.hourly.values[code][i]]
  <2>1. short.hourly = Beginning(long.hourly, m)
    BY <1>3 DEF ShortSeries
  <2> DEFINE channel == long.hourly
             axis == [i \in 1 .. m |-> channel.time[i]]
             values == [code \in DOMAIN channel.values |-> [i \in 1 .. m |-> channel.values[code][i]]]
  <2> HIDE DEF n, date, channel
  <2>2. short.hourly = [time |-> axis, values |-> values]
    BY <2>1 DEF Beginning, channel
  <2> HIDE DEF axis, values
  <2>3. short.hourly.time = axis /\ short.hourly.values = values
    BY <2>2
  <2>4. DOMAIN short.hourly.values = DOMAIN channel.values
    BY <2>3 DEF values
  <2>5. ASSUME NEW code \in DOMAIN channel.values
        PROVE  short.hourly.values[code] = [i \in 1 .. m |-> channel.values[code][i]]
    BY <2>3 DEF values
  <2> QED
    BY <2>3, <2>4, <2>5 DEF axis, channel
<1>6. short.daily.time = [i \in 1 .. l |-> long.daily.time[i]]
  <2>1. short.daily = Beginning(long.daily, l)
    BY <1>4 DEF ShortSeries
  <2> DEFINE channel == long.daily
             axis == [i \in 1 .. l |-> channel.time[i]]
             values == [code \in DOMAIN channel.values |-> [i \in 1 .. l |-> channel.values[code][i]]]
  <2> HIDE DEF k, channel
  <2>2. short.daily = [time |-> axis, values |-> values]
    BY <2>1 DEF Beginning, channel
  <2> HIDE DEF axis, values
  <2>3. short.daily.time = axis
    BY <2>2
  <2> QED
    BY <2>3 DEF axis, channel
<1>7. /\ \A i, j \in 1 .. n : i <= j => date(i) <= date(j)
      /\ \A i \in 1 .. n : date(i) \in Int /\ date(i) >= first
      /\ \A i \in 1 .. n : \A x \in first .. date(i) : \E j \in 1 .. n : date(j) = x
  <2>1. /\ \A i, j \in 1 .. n : i <= j => date(i) <= date(j)
        /\ \A i \in 1 .. n : /\ date(i) \in Int
                             /\ date(i) >= first
                             /\ first .. date(i) \subseteq DatesOf(long.hourly.time)
    BY <1>2 DEF RunsFrom
  <2>2. DatesOf(long.hourly.time) = {date(i) : i \in 1 .. n}
    BY <1>2 DEF DatesOf
  <2> HIDE DEF date, n
  <2> QED
    BY <2>1, <2>2
<1>m. m \in Nat /\ \A i \in 1 .. m : i \in 1 .. n
  BY <1>2
<1>8. RunsFrom(short.hourly.time, first)
  <2>1. DOMAIN short.hourly.time = 1 .. m /\ \A i \in 1 .. m : DateOf(short.hourly.time[i]) = date(i)
    BY <1>5
  <2> HIDE DEF date
  <2>2. ASSUME NEW i \in 1 .. m, NEW x \in first .. date(i)
        PROVE  \E j \in 1 .. m : date(j) = x
    <3>1. i \in 1 .. n /\ date(i) <= last /\ date(i) \in Int
      BY <1>3, <1>7, <1>m
    <3>2. PICK j \in 1 .. n : date(j) = x
      BY <1>7, <3>1
    <3>3. date(j) <= last
      BY <3>1, <3>2
    <3> QED
      BY <1>3, <3>2, <3>3
  <2>3. DatesOf(short.hourly.time) = {date(i) : i \in 1 .. m}
    BY <2>1 DEF DatesOf
  <2>4. \A i \in 1 .. m : first .. date(i) \subseteq DatesOf(short.hourly.time)
    BY <2>2, <2>3
  <2>5. /\ \A i, j \in 1 .. m : i <= j => date(i) <= date(j)
        /\ \A i \in 1 .. m : date(i) \in Int /\ date(i) >= first
    BY <1>7, <1>m
  <2> DEFINE axis == short.hourly.time
  <2> HIDE DEF axis
  <2>6. /\ DOMAIN axis = 1 .. m /\ \A i \in 1 .. m : DateOf(axis[i]) = date(i)
        /\ \A i \in 1 .. m : first .. date(i) \subseteq DatesOf(axis)
    BY <2>1, <2>4 DEF axis
  <2>7. /\ \A i, j \in DOMAIN axis : i <= j => DateOf(axis[i]) <= DateOf(axis[j])
        /\ \A i \in DOMAIN axis : /\ DateOf(axis[i]) \in Int
                                  /\ DateOf(axis[i]) >= first
                                  /\ first .. DateOf(axis[i]) \subseteq DatesOf(axis)
    BY <2>5, <2>6
  <2> QED
    BY <2>7 DEF RunsFrom, axis
<1>9. /\ S \in Nat /\ dates = [d \in 1 .. S |-> first + d - 1]
      /\ DatesOf(short.hourly.time) = first .. (first + S - 1)
  <2>1. DOMAIN short.hourly.time = 1 .. m
    BY <1>5
  <2> QED
    BY <1>8, <1>m, <2>1, CalendarDates
<1>10. /\ N \in Nat /\ all = [d \in 1 .. N |-> first + d - 1]
       /\ DatesOf(long.hourly.time) = first .. (first + N - 1)
  BY <1>2, CalendarDates
<1>11. \A x \in DatesOf(short.hourly.time) : x \in DatesOf(long.hourly.time) /\ x <= last
  BY <1>2, <1>3, <1>5, <1>m DEF DatesOf
<1> HIDE DEF dates, all, S, N
<1>12. S <= N
  <2>1. CASE S = 0
    BY <1>10, <2>1
  <2>2. CASE S # 0
    <3>1. first + S - 1 \in DatesOf(short.hourly.time)
      BY <1>9, <2>2
    <3>2. first + S - 1 \in first .. (first + N - 1)
      BY <1>10, <1>11, <3>1
    <3> QED
      BY <1>9, <1>10, <3>2
  <2> QED
    BY <2>1, <2>2
<1>13. /\ DOMAIN BuildDayWindows(short) = 1 .. S
       /\ \A d \in 1 .. S : BuildDayWindows(short)[d] = DayWindow(short, dates[d])
  BY <1>9 DEF BuildDayWindows, dates
<1>14. /\ DOMAIN BuildDayWindows(long) = 1 .. N
       /\ \A d \in 1 .. N : BuildDayWindows(long)[d] = DayWindow(long, all[d])
  BY <1>10 DEF BuildDayWindows, all
<1>15. ASSUME NEW x \in Int, x <= last PROVE DayWindow(short, x) = DayWindow(long, x)
  <2>1. IndexesOn(short.hourly.time, {x}) = IndexesOn(long.hourly.time, {x})
    <3>1. /\ DOMAIN short.hourly.time = 1 .. m
          /\ \A i \in 1 .. m : DateOf(short.hourly.time[i]) = date(i)
      BY <1>5
    <3>2. \A i \in 1 .. n : date(i) = x => i \in 1 .. m
      BY <1>3, <1>15
    <3> QED
      BY <1>2, <1>m, <3>1, <3>2 DEF IndexesOn
  <2>2. IndexesOn(short.hourly.time, {x}) \subseteq 1 .. m
    BY <1>5 DEF IndexesOn
  <2>3. \A i \in 1 .. m : ValueAt(short.hourly, "is_day", i) = ValueAt(long.hourly, "is_day", i)
    <3>1. CASE "is_day" \in DOMAIN long.hourly.values
      <4>1. /\ "is_day" \in DOMAIN short.hourly.values
            /\ short.hourly.values["is_day"] = [i \in 1 .. m |-> long.hourly.values["is_day"][i]]
        BY <1>5, <3>1
      <4> QED
        BY <3>1, <4>1 DEF ValueAt, HasMetric
    <3>2. CASE "is_day" \notin DOMAIN long.hourly.values
      <4>1. "is_day" \notin DOMAIN short.hourly.values
        BY <1>5, <3>2
      <4> QED
        BY <3>2, <4>1 DEF ValueAt, HasMetric
    <3> QED
      BY <3>1, <3>2
  <2>4. SelectInSeq(short.daily.time, LAMBDA stamp : DateOf(stamp) = x)
           = SelectInSeq(long.daily.time, LAMBDA stamp : DateOf(stamp) = x)
    <3> DEFINE I == {i \in 1 .. Len(short.daily.time) : DateOf(short.daily.time[i]) = x}
               J == {i \in 1 .. Len(long.daily.time) : DateOf(long.daily.time[i]) = x}
    <3>1. Len(short.daily.time) = l
      <4>1. short.daily.time = [i \in 1 .. l |-> short.daily.time[i]] /\ l \in Nat
        BY <1>2, <1>6
      <4> QED
        BY <4>1, LenOfFunction
    <3>2. \A i \in 1 .. k : DateOf(long.daily.time[i]) = x => i \in 1 .. l
      BY <1>4, <1>15
    <3>3. \A i \in 1 .. l : i \in 1 .. k /\ short.daily.time[i] = long.daily.time[i]
      BY <1>2, <1>6
    <3>4. I = J
      BY <3>1, <3>2, <3>3
    <3>5. /\ SelectInSeq(short.daily.time, LAMBDA stamp : DateOf(stamp) = x)
                = IF I # {} THEN Min(I) ELSE 0
          /\ SelectInSeq(long.daily.time, LAMBDA stamp : DateOf(stamp) = x)
                = IF J # {} THEN Min(J) ELSE 0
      BY DEF SelectInSeq
    <3> HIDE DEF I, J
    <3> QED
      BY <3>4, <3>5
  <2>5. {i \in IndexesOn(short.hourly.time, {x}) : ValueAt(short.hourly, "is_day", i) = 1}
           = {i \in IndexesOn(long.hourly.time, {x}) : ValueAt(long.hourly, "is_day", i) = 1}
    BY <2>1, <2>2, <2>3
  <2> QED
    BY <2>1, <2>4, <2>5 DEF DayWindow
<1>16. ASSUME NEW d \in 1 .. S PROVE BuildDayWindows(short)[d] = BuildDayWindows(long)[d]
  <2>1. d \in 1 .. N /\ dates[d] = first + d - 1 /\ all[d] = first + d - 1
    BY <1>9, <1>10, <1>12
  <2>2. first + d - 1 \in DatesOf(short.hourly.time) /\ first + d - 1 \in Int
    BY <1>9
  <2>3. first + d - 1 <= last
    BY <1>11, <2>2
  <2> QED
    BY <1>13, <1>14, <1>15, <2>1, <2>2, <2>3
<1> QED
  BY <1>9, <1>10, <1>12, <1>13, <1>14, <1>16

\* A series that is the beginning of another, slot by slot.
BeginsSeries(short, long, m, l) ==
    /\ SoundSeries(short) /\ SoundSeries(long)
    /\ m \in 0 .. Len(long.hourly.time) /\ l \in 0 .. Len(long.daily.time)
    /\ short.hourly = Beginning(long.hourly, m)
    /\ short.daily = Beginning(long.daily, l)
    /\ short.provenance = long.provenance

\* What is cut after a date is the beginning of the whole.
LEMMA CutBegins ==
    ASSUME NEW short, NEW long, SoundSeries(short), SoundSeries(long), NEW first \in Int,
           RunsFrom(long.hourly.time, first), RunsFrom(long.daily.time, first),
           NEW last \in Int, ShortSeries(short, long, last)
    PROVE  \E m, l : BeginsSeries(short, long, m, l)
<1>1. PICK m \in 0 .. Len(long.hourly.time) : UpTo(long.hourly, last) = Beginning(long.hourly, m)
  BY UpToIsBeginning DEF SoundSeries
<1>2. PICK l \in 0 .. Len(long.daily.time) : UpTo(long.daily, last) = Beginning(long.daily, l)
  BY UpToIsBeginning DEF SoundSeries
<1> QED
  BY <1>1, <1>2 DEF BeginsSeries, ShortSeries

\* The axes of a beginning are as long as it says.
LEMMA BeginningIsAsLong ==
    ASSUME NEW channel, SoundChannel(channel), NEW m \in 0 .. Len(channel.time)
    PROVE  /\ Len(Beginning(channel, m).time) = m /\ m \in Nat
           /\ DOMAIN Beginning(channel, m).values = DOMAIN channel.values
           /\ \A code \in DOMAIN channel.values :
                 Beginning(channel, m).values[code] = [k \in 1 .. m |-> channel.values[code][k]]
<1> DEFINE axis == [k \in 1 .. m |-> channel.time[k]]
<1>1. m \in Nat
  BY DEF SoundChannel
<1>2. axis = [k \in 1 .. m |-> axis[k]]
  OBVIOUS
<1>3. Len(axis) = m
  <2> HIDE DEF axis
  <2> QED
    BY <1>1, <1>2, LenOfFunction
<1>4. Beginning(channel, m).time = axis
  BY DEF Beginning
<1> HIDE DEF axis
<1> QED
  BY <1>1, <1>3, <1>4 DEF Beginning

\* A list of slots is there, and so is a channel.
LEMMA ListsAreThere ==
    ASSUME NEW n \in Nat, NEW values \in Values(n)
    PROVE  /\ values # None
           /\ \A unit \in CanonicalUnits : [values |-> values, unit |-> unit] # None
<1>1. values \in Seq(Int \cup {None})
  BY DEF Values
<1> QED
  BY <1>1, AbsenceAssumption

\* What is computed of the slots both have is the same.
LEMMA ComputedBegins ==
    ASSUME NEW short, NEW long, NEW m, NEW l, BeginsSeries(short, long, m, l),
           NEW code \in DOMAIN Derived
    PROVE  LET now == ComputeDerived(code, short)
               whole == ComputeDerived(code, long)
           IN  \/ now = None /\ whole = None
               \/ /\ now \in Values(m)
                  /\ whole \in Values(Len(long.hourly.time))
                  /\ \A i \in 1 .. m : now[i] = whole[i]
<1> DEFINE n == Len(long.hourly.time)
           requires == Derived[code].requires
           R == 1 .. Len(requires)
           inputs == [r \in R |-> long.hourly.values[requires[r]]]
           others == [r \in R |-> short.hourly.values[requires[r]]]
           elevation == ElevationOf(long, requires[1])
           computed(list, i) == IF \E r \in R : list[r][i] = None THEN None
                                ELSE Formula(code, [r \in R |-> list[r][i]], elevation)
           now == ComputeDerived(code, short)
           whole == ComputeDerived(code, long)
<1>1. /\ SoundSeries(short) /\ SoundSeries(long) /\ SoundChannel(long.hourly)
      /\ m \in 0 .. n /\ n \in Nat /\ m \in Nat
      /\ short.hourly = Beginning(long.hourly, m)
      /\ short.provenance = long.provenance
  <2>1. /\ SoundSeries(short) /\ SoundSeries(long)
        /\ m \in 0 .. n
        /\ short.hourly = Beginning(long.hourly, m)
        /\ short.provenance = long.provenance
    BY DEF BeginsSeries
  <2>2. SoundChannel(long.hourly)
    BY <2>1 DEF SoundSeries
  <2>3. n \in Nat
    BY <2>2 DEF SoundChannel
  <2>4. m \in Nat
    BY <2>1, <2>3
  <2> HIDE DEF n
  <2> QED
    BY <2>1, <2>2, <2>3, <2>4
<1>2. /\ Len(short.hourly.time) = m
      /\ DOMAIN short.hourly.values = DOMAIN long.hourly.values
      /\ \A v \in DOMAIN long.hourly.values :
            short.hourly.values[v] = [k \in 1 .. m |-> long.hourly.values[v][k]]
  <2> DEFINE channel == long.hourly
             begun == Beginning(channel, m)
  <2>1. SoundChannel(channel) /\ m \in 0 .. Len(channel.time) /\ short.hourly = begun
    BY <1>1
  <2> HIDE DEF channel
  <2>2. /\ Len(begun.time) = m /\ DOMAIN begun.values = DOMAIN channel.values
        /\ \A v \in DOMAIN channel.values :
              begun.values[v] = [k \in 1 .. m |-> channel.values[v][k]]
    <3>1. SoundChannel(channel) /\ m \in 0 .. Len(channel.time)
      BY <2>1
    <3> QED
      BY <3>1, BeginningIsAsLong
  <2> HIDE DEF begun
  <2> QED
    BY <2>1, <2>2 DEF channel
<1>3. ElevationOf(short, requires[1]) = elevation
  BY <1>1 DEF ElevationOf
<1>4. CASE \E r \in R : ~HasMetric(long.hourly, requires[r])
  <2>1. \E r \in R : ~HasMetric(short.hourly, requires[r])
    <3> HIDE DEF requires
    <3> QED
      BY <1>2, <1>4 DEF HasMetric
  <2> QED
    BY <1>4, <2>1 DEF ComputeDerived
<1>5. CASE \A r \in R : HasMetric(long.hourly, requires[r])
  <2>1. \A r \in R : HasMetric(short.hourly, requires[r])
    <3> HIDE DEF requires
    <3> QED
      BY <1>2, <1>5 DEF HasMetric
  <2>2. /\ now = [i \in 1 .. Len(others[1]) |-> computed(others, i)]
        /\ whole = [i \in 1 .. Len(inputs[1]) |-> computed(inputs, i)]
    BY <1>3, <1>5, <2>1 DEF ComputeDerived
  <2>3. 1 \in R
    <3>1. requires \in {<<"wind_direction_10m", "wave_direction">>, <<"snowfall", "temperature_2m">>,
                        <<"freezing_level_height">>}
      BY DEF Derived
    <3> HIDE DEF requires
    <3> QED
      BY <3>1
  <2>4. \A r \in R : /\ inputs[r] = [k \in 1 .. n |-> inputs[r][k]]
                     /\ others[r] = [k \in 1 .. m |-> inputs[r][k]]
    <3> HIDE DEF requires
    <3>1. ASSUME NEW r \in R
          PROVE  /\ inputs[r] = [k \in 1 .. n |-> inputs[r][k]]
                 /\ others[r] = [k \in 1 .. m |-> inputs[r][k]]
      <4>1. requires[r] \in DOMAIN long.hourly.values
        BY <1>5 DEF HasMetric
      <4>2. /\ inputs[r] = long.hourly.values[requires[r]]
            /\ others[r] = short.hourly.values[requires[r]]
        OBVIOUS
      <4>3. long.hourly.values[requires[r]] \in [1 .. n -> Int \cup {None}]
        BY <1>1, <4>1 DEF SoundChannel
      <4> HIDE DEF inputs, others, n
      <4> QED
        BY <1>2, <4>1, <4>2, <4>3
    <3> QED
      BY <3>1
  <2> HIDE DEF inputs, others, now, whole, elevation, n
  <2>5. Len(inputs[1]) = n /\ Len(others[1]) = m
    <3>1. others[1] = [k \in 1 .. m |-> others[1][k]]
      BY <2>3, <2>4
    <3>2. inputs[1] = [k \in 1 .. n |-> inputs[1][k]]
      BY <2>3, <2>4
    <3> QED
      BY <1>1, <3>1, <3>2, LenOfFunction
  <2>6. ASSUME NEW i \in 1 .. m PROVE now[i] = whole[i]
    <3>1. \A r \in R : others[r][i] = inputs[r][i]
      BY <2>4, <2>6
    <3>2. i \in 1 .. n
      BY <1>1
    <3>3. now[i] = computed(others, i) /\ whole[i] = computed(inputs, i)
      BY <2>2, <2>5, <3>2
    <3>4. [r \in R |-> others[r][i]] = [r \in R |-> inputs[r][i]]
      BY <3>1
    <3> QED
      BY <3>1, <3>3, <3>4
  <2>7. now \in Values(m) /\ whole \in Values(n)
    <3>1. ~ \E r \in 1 .. Len(Derived[code].requires) : ~HasMetric(short.hourly, Derived[code].requires[r])
      BY <2>1
    <3>2. ~ \E r \in 1 .. Len(Derived[code].requires) : ~HasMetric(long.hourly, Derived[code].requires[r])
      BY <1>5
    <3>3. now \in Values(m)
      BY <1>1, <1>2, <3>1, ComputedSlots DEF Values, now
    <3>4. whole \in Values(n)
      BY <1>1, <3>2, ComputedSlots DEF Values, whole, n
    <3> QED
      BY <3>3, <3>4
  <2> QED
    BY <2>6, <2>7 DEF now, whole, n
<1> QED
  BY <1>4, <1>5

\* Of a metric the units are names.
LEMMA UnitsAreNames ==
    /\ \A code \in DOMAIN Derived : Derived[code].unit \in CanonicalUnits
    /\ \A code \in MetricCodes : Dictionary[code].canonicalUnit \in CanonicalUnits
<1>1. \A code \in DOMAIN Derived : Derived[code].unit \in CanonicalUnits
  BY DEF Derived, CanonicalUnits
<1>2. \A code \in MetricCodes : Dictionary[code].canonicalUnit \in CanonicalUnits
  BY DEF MetricCodes, Dictionary, CanonicalUnits, Forecast, Marine, Def
<1> QED
  BY <1>1, <1>2

\* A series that begins another does so channel by channel.
LEMMA BothBegin ==
    ASSUME NEW short, NEW long, NEW m, NEW l, BeginsSeries(short, long, m, l)
    PROVE  /\ SoundChannel(long.hourly) /\ SoundChannel(long.daily)
           /\ m \in 0 .. Len(long.hourly.time) /\ Len(long.hourly.time) \in Nat /\ m \in Nat
           /\ l \in 0 .. Len(long.daily.time) /\ Len(long.daily.time) \in Nat /\ l \in Nat
           /\ short.hourly = Beginning(long.hourly, m)
           /\ short.daily = Beginning(long.daily, l)
<1>1. /\ SoundSeries(long)
      /\ m \in 0 .. Len(long.hourly.time) /\ l \in 0 .. Len(long.daily.time)
      /\ short.hourly = Beginning(long.hourly, m)
      /\ short.daily = Beginning(long.daily, l)
  BY DEF BeginsSeries
<1>2. SoundChannel(long.hourly) /\ SoundChannel(long.daily)
  BY <1>1 DEF SoundSeries
<1>3. Len(long.hourly.time) \in Nat /\ Len(long.daily.time) \in Nat
  BY <1>2 DEF SoundChannel
<1> QED
  BY <1>1, <1>2, <1>3

\* The channel a reader is given of the beginning is the beginning of the one it
\* is given of the whole.
LEMMA ChannelBegins ==
    ASSUME NEW short, NEW long, NEW m, NEW l, BeginsSeries(short, long, m, l),
           NEW reader, CleanReader(reader)
    PROVE  LET granularity == Aggregators[reader.aggregation.type].granularity
               now == ChannelFor(reader.metric, granularity, short)
               whole == ChannelFor(reader.metric, granularity, long)
           IN  \/ now = None /\ whole = None
               \/ /\ now # None /\ whole # None
                  /\ IF granularity = "daily" THEN Begins(now, whole, l, Len(long.daily.time))
                     ELSE Begins(now, whole, m, Len(long.hourly.time))
<1> DEFINE code == reader.metric
           granularity == Aggregators[reader.aggregation.type].granularity
           now == ChannelFor(code, granularity, short)
           whole == ChannelFor(code, granularity, long)
           n == Len(long.hourly.time)
           k == Len(long.daily.time)
<1>1. /\ SoundChannel(long.hourly) /\ SoundChannel(long.daily)
      /\ m \in 0 .. n /\ n \in Nat /\ m \in Nat
      /\ l \in 0 .. k /\ k \in Nat /\ l \in Nat
      /\ short.hourly = Beginning(long.hourly, m)
      /\ short.daily = Beginning(long.daily, l)
  BY BothBegin
<1>2. CASE code \in DOMAIN Derived
  <2>1. granularity # "daily"
    <3>1. MetaOf(code).granularity = "hourly"
      BY <1>2 DEF MetaOf
    <3>2. ServesChannel(MetaOf(code).granularity, granularity)
      BY DEF CleanReader
    <3> HIDE DEF granularity
    <3> QED
      BY <3>1, <3>2 DEF ServesChannel
  <2> DEFINE f == ComputeDerived(code, short)
             g == ComputeDerived(code, long)
             unit == Derived[code].unit
  <2>2. \/ f = None /\ g = None
        \/ f \in Values(m) /\ g \in Values(n) /\ \A i \in 1 .. m : f[i] = g[i]
    BY <1>2, ComputedBegins
  <2>3. /\ now = IF f = None THEN None ELSE [values |-> f, unit |-> unit]
        /\ whole = IF g = None THEN None ELSE [values |-> g, unit |-> unit]
    BY <1>2 DEF ChannelFor
  <2>4. unit \in CanonicalUnits
    BY <1>2, UnitsAreNames
  <2> HIDE DEF f, g, unit, now, whole, n, granularity
  <2>5. CASE f = None /\ g = None
    BY <2>3, <2>5 DEF now, whole, granularity
  <2>6. CASE f \in Values(m) /\ g \in Values(n) /\ \A i \in 1 .. m : f[i] = g[i]
    <3>1. /\ f # None /\ [values |-> f, unit |-> unit] # None
          /\ g # None /\ [values |-> g, unit |-> unit] # None
      BY <1>1, <2>4, <2>6, ListsAreThere
    <3>2. now = [values |-> f, unit |-> unit] /\ whole = [values |-> g, unit |-> unit]
      BY <2>3, <3>1
    <3>3. now # None /\ whole # None
      BY <3>1, <3>2
    <3>4. Begins(now, whole, m, n)
      BY <2>6, <3>2 DEF Begins
    <3> QED
      BY <2>1, <3>3, <3>4 DEF now, whole, granularity, n
  <2> QED
    BY <2>2, <2>5, <2>6
<1>3. CASE code \notin DOMAIN Derived
  <2> DEFINE source == IF granularity = "daily" THEN long.daily ELSE long.hourly
             size == IF granularity = "daily" THEN l ELSE m
             begun == Beginning(source, size)
             f == begun.values[code]
             g == source.values[code]
             unit == Dictionary[code].canonicalUnit
             length == Len(source.time)
  <2>1. /\ SoundChannel(source) /\ size \in 0 .. length /\ length \in Nat /\ size \in Nat
        /\ (IF granularity = "daily" THEN short.daily ELSE short.hourly) = begun
    BY <1>1
  <2>2. /\ now = IF ~HasMetric(begun, code) THEN None ELSE [values |-> f, unit |-> unit]
        /\ whole = IF ~HasMetric(source, code) THEN None ELSE [values |-> g, unit |-> unit]
    <3> HIDE DEF begun, unit
    <3> QED
      BY <1>3, <2>1 DEF ChannelFor, unit
  <2>3. code \in MetricCodes
    BY <1>3 DEF CleanReader, MetaOf
  <2>4. unit \in CanonicalUnits
    BY <2>3, UnitsAreNames
  <2> HIDE DEF granularity, source, now, whole, unit, size
  <2>5. /\ DOMAIN begun.values = DOMAIN source.values
        /\ \A v \in DOMAIN source.values :
              begun.values[v] = [i \in 1 .. size |-> source.values[v][i]]
    <3>1. SoundChannel(source) /\ size \in 0 .. Len(source.time)
      BY <2>1
    <3> QED
      BY <3>1, BeginningIsAsLong
  <2>6. CASE ~HasMetric(source, code)
    <3>1. ~HasMetric(begun, code)
      BY <2>5, <2>6 DEF HasMetric
    <3> QED
      BY <2>2, <2>6, <3>1 DEF now, whole, granularity
  <2>7. CASE HasMetric(source, code)
    <3>1. HasMetric(begun, code) /\ code \in DOMAIN source.values
      BY <2>5, <2>7 DEF HasMetric
    <3>2. g \in Values(length)
      BY <2>1, <3>1 DEF SoundChannel, Values
    <3>3. f = [i \in 1 .. size |-> g[i]]
      BY <2>5, <3>1
    <3> HIDE DEF f, g, begun, length
    <3>4. \A i \in 1 .. size : i \in 1 .. length
      BY <2>1
    <3>5. f \in Values(size) /\ \A i \in 1 .. size : f[i] = g[i]
      BY <3>2, <3>3, <3>4 DEF Values
    <3>6. /\ [values |-> f, unit |-> unit] # None
          /\ [values |-> g, unit |-> unit] # None
      BY <2>1, <2>4, <3>2, <3>5, ListsAreThere
    <3>7. now = [values |-> f, unit |-> unit] /\ whole = [values |-> g, unit |-> unit]
      BY <2>2, <2>7, <3>1
    <3>8. now # None /\ whole # None /\ Begins(now, whole, size, length)
      BY <3>2, <3>5, <3>6, <3>7 DEF Begins
    <3>9. length = IF granularity = "daily" THEN k ELSE n
      BY DEF length, source
    <3> HIDE DEF k, n
    <3>10. IF granularity = "daily" THEN Begins(now, whole, l, k) ELSE Begins(now, whole, m, n)
      BY <3>8, <3>9 DEF size
    <3> QED
      BY <3>8, <3>10 DEF now, whole, granularity, k, n
  <2> QED
    BY <2>6, <2>7
<1> QED
  BY <1>2, <1>3

\* What is read of a day both have is the same.
LEMMA ReadingBegins ==
    ASSUME NEW short, NEW long, NEW m, NEW l, BeginsSeries(short, long, m, l),
           NEW reader, CleanReader(reader), NEW window, WindowFits(window, short)
    PROVE  ValueOf(reader, short, window) = ValueOf(reader, long, window)
<1> DEFINE spec == reader.aggregation
           granularity == Aggregators[spec.type].granularity
           now == ChannelFor(reader.metric, granularity, short)
           whole == ChannelFor(reader.metric, granularity, long)
           n == Len(long.hourly.time)
           k == Len(long.daily.time)
<1>1. /\ SoundChannel(long.hourly) /\ SoundChannel(long.daily)
      /\ m \in 0 .. n /\ n \in Nat /\ l \in 0 .. k /\ k \in Nat
      /\ short.hourly = Beginning(long.hourly, m)
      /\ short.daily = Beginning(long.daily, l)
  BY BothBegin
<1>2. Len(short.hourly.time) = m /\ Len(short.daily.time) = l
  <2>1. Len(Beginning(long.hourly, m).time) = m
    BY <1>1, BeginningIsAsLong
  <2>2. Len(Beginning(long.daily, l).time) = l
    BY <1>1, BeginningIsAsLong
  <2> QED
    BY <1>1, <2>1, <2>2
<1>3. /\ window.hourIndexes \in SUBSET (1 .. m) /\ window.daylightIndexes \in SUBSET (1 .. m)
      /\ window.dailyIndex = None \/ window.dailyIndex \in 1 .. l
  BY <1>2 DEF WindowFits
<1>4. /\ ValueOf(reader, short, window) =
            IF now = None THEN None ELSE AggregateOver(spec, now, window)
      /\ ValueOf(reader, long, window) =
            IF whole = None THEN None ELSE AggregateOver(spec, whole, window)
  BY DEF ValueOf
<1>5. spec.type \in DOMAIN Aggregators
  BY DEF CleanReader
<1>6. /\ spec.type = "identity" => granularity = "daily"
      /\ spec.type # "identity" => granularity = "hourly"
  BY <1>5 DEF Aggregators, Same
<1>7. \/ now = None /\ whole = None
      \/ /\ now # None /\ whole # None
         /\ IF granularity = "daily" THEN Begins(now, whole, l, k) ELSE Begins(now, whole, m, n)
  BY ChannelBegins
<1> HIDE DEF now, whole, spec, granularity, n, k
<1>8. CASE now = None /\ whole = None
  BY <1>4, <1>8
<1>9. CASE now # None /\ whole # None /\ spec.type = "identity" /\ Begins(now, whole, l, k)
  <2>1. AggregateOver(spec, now, window) = AggregateOver(spec, whole, window)
    BY <1>1, <1>3, <1>5, <1>9, AggregatingTheBeginning
  <2> QED
    BY <1>4, <1>9, <2>1
<1>10. CASE now # None /\ whole # None /\ spec.type # "identity" /\ Begins(now, whole, m, n)
  <2>1. AggregateOver(spec, now, window) = AggregateOver(spec, whole, window)
    BY <1>1, <1>3, <1>5, <1>10, AggregatingTheBeginning
  <2> QED
    BY <1>4, <1>10, <2>1
<1> QED
  BY <1>6, <1>7, <1>8, <1>9, <1>10

\* Where every reader reads the same, the same is said.
LEMMA SameReadingsSameJudgement ==
    ASSUME NEW definition, CleanDefinition(definition), NEW short, NEW long, NEW window,
           \A reader : CleanReader(reader)
                         => ValueOf(reader, short, window) = ValueOf(reader, long, window)
    PROVE  ScoreActivity(definition, short, window, Profile)
              = ScoreActivity(definition, long, window, Profile)
<1> DEFINE features == definition.features
           rules == definition.constraints
<1>1. /\ DOMAIN features = 1 .. Len(features)
      /\ \A i \in DOMAIN features : CleanReader(features[i])
      /\ DOMAIN rules = 1 .. Len(rules)
      /\ \A i \in DOMAIN rules : CleanRule(rules[i])
  BY DEF CleanDefinition, CleanFeature
<1>2. \A i \in DOMAIN features :
         ValueOf(features[i], short, window) = ValueOf(features[i], long, window)
  BY <1>1
<1>3. CheckCoverage(definition, short, window, Profile)
         = CheckCoverage(definition, long, window, Profile)
  <2> DEFINE I == {i \in 1 .. Len(features) :
                      /\ features[i].nullPolicy = "fail"
                      /\ Gappy(ValueOf(features[i], short, window), Profile)}
             J == {i \in 1 .. Len(features) :
                      /\ features[i].nullPolicy = "fail"
                      /\ Gappy(ValueOf(features[i], long, window), Profile)}
  <2>1. /\ CheckCoverage(definition, short, window, Profile) = IF I # {} THEN Min(I) ELSE 0
        /\ CheckCoverage(definition, long, window, Profile) = IF J # {} THEN Min(J) ELSE 0
    BY DEF CheckCoverage, SelectInSeq
  <2>2. I = J
    <3> HIDE DEF features
    <3> QED
      BY <1>1, <1>2
  <2> HIDE DEF I, J
  <2> QED
    BY <2>1, <2>2
<1>4. ASSUME NEW rule, CleanRule(rule)
      PROVE  Fires(rule, short, window) <=> Fires(rule, long, window)
  <2> DEFINE tree == rule.when
             now == [i \in LeavesOf(tree) |-> Compared(tree[i], ValueOf(tree[i], short, window))]
             whole == [i \in LeavesOf(tree) |-> Compared(tree[i], ValueOf(tree[i], long, window))]
  <2>1. \A i \in LeavesOf(tree) : CleanReader(tree[i])
    BY <1>4 DEF CleanRule, Leaves
  <2>2. \A i \in LeavesOf(tree) : ValueOf(tree[i], short, window) = ValueOf(tree[i], long, window)
    BY <2>1
  <2>3. now = whole
    <3> HIDE DEF tree
    <3> QED
      BY <2>2
  <2>4. /\ Fires(rule, short, window) <=> TreeVerdict(tree, now) = "yes"
        /\ Fires(rule, long, window) <=> TreeVerdict(tree, whole) = "yes"
    BY DEF Fires, Holds
  <2> HIDE DEF now, whole
  <2> QED
    BY <2>3, <2>4
<1>5. EvaluateConstraints(definition, short, window) = EvaluateConstraints(definition, long, window)
  <2> DEFINE I == {i \in 1 .. Len(rules) : Fires(rules[i], short, window)}
             J == {i \in 1 .. Len(rules) : Fires(rules[i], long, window)}
  <2>1. /\ EvaluateConstraints(definition, short, window) = IF I # {} THEN Min(I) ELSE 0
        /\ EvaluateConstraints(definition, long, window) = IF J # {} THEN Min(J) ELSE 0
    BY DEF EvaluateConstraints, SelectInSeq
  <2>2. I = J
    <3> HIDE DEF rules
    <3> QED
      BY <1>1, <1>4
  <2> HIDE DEF I, J
  <2> QED
    BY <2>1, <2>2
<1>6. Entries(features, short, window) = Entries(features, long, window)
  <2> HIDE DEF features
  <2> QED
    BY <1>2 DEF Entries
<1> QED
  BY <1>3, <1>5, <1>6 DEF ScoreActivity

\* The judgement of the beginning of a series is the beginning of the judgement.
LEMMA JudgementBegins ==
    ASSUME AssessmentInv, outcomes # None, NEW a \in Activities,
           NEW short, NEW long, SoundSeries(short), SoundSeries(long), NEW first \in Int,
           RunsFrom(long.hourly.time, first), RunsFrom(long.daily.time, first),
           NEW last \in Int, ShortSeries(short, long, last)
    PROVE  IsPrefix(JudgeDays(a, short), JudgeDays(a, long))
<1> DEFINE now == JudgeDays(a, short)
           whole == JudgeDays(a, long)
           Window(d) == BuildDayWindows(short)[d]
           Said(series, d) == ScoreActivity(Definitions[a], series, BuildDayWindows(series)[d], Profile)
<1>1. PICK S, N \in Nat : /\ S <= N
                          /\ DOMAIN BuildDayWindows(short) = 1 .. S
                          /\ DOMAIN BuildDayWindows(long) = 1 .. N
                          /\ \A d \in 1 .. S : Window(d) = BuildDayWindows(long)[d]
  BY SameWindows
<1>2. PICK m, l : BeginsSeries(short, long, m, l)
  BY CutBegins
<1>3. CleanDefinition(Definitions[a])
  BY LoadedIsClean
<1>4. /\ now = [d \in 1 .. S |-> Said(short, d)]
      /\ whole = [d \in 1 .. N |-> Said(long, d)]
  BY <1>1 DEF JudgeDays
<1>5. ASSUME NEW d \in 1 .. S PROVE Said(short, d) = Said(long, d)
  <2> DEFINE window == Window(d)
  <2>1. WindowFits(window, short)
    BY <1>1, <1>5, WindowsFit
  <2>2. window = BuildDayWindows(long)[d]
    BY <1>1, <1>5
  <2> HIDE DEF window
  <2>3. \A reader : CleanReader(reader)
                      => ValueOf(reader, short, window) = ValueOf(reader, long, window)
    BY <1>2, <2>1, ReadingBegins
  <2>4. ScoreActivity(Definitions[a], short, window, Profile)
           = ScoreActivity(Definitions[a], long, window, Profile)
    BY <1>3, <2>3, SameReadingsSameJudgement
  <2> QED
    BY <2>2, <2>4 DEF window
<1> HIDE DEF now, whole, Said
<1>6. Len(now) = S /\ Len(whole) = N
  <2>1. now = [d \in 1 .. S |-> now[d]] /\ whole = [d \in 1 .. N |-> whole[d]]
    BY <1>4
  <2> QED
    BY <1>1, <2>1, LenOfFunction
<1>7. \A d \in 1 .. S : d \in 1 .. N /\ now[d] = whole[d]
  BY <1>1, <1>4, <1>5
<1>8. SubSeq(now, 1, S) = SubSeq(whole, 1, S)
  BY <1>1, <1>7
<1> QED
  BY <1>1, <1>6, <1>8 DEF IsPrefix, now, whole

\* A question about fewer days is answered with the first days of the longer
\* answer: each source cuts its own series, before they are merged and judged, and
\* the days are counted anew, and still no judgement changes.  That the stamps of
\* every source run in order from one first day without a gap, and that an axis of
\* days covers the hours, is what the hosts see to: without it the axis the days
\* are read off says nothing of the other (slice-series.ts, merge-series.ts).
THEOREM ShortAnswersArePrefixes == Spec => [](SourcesKeepTheCalendar => ShortAnswerIsPrefix)
<1>1. AssessmentInv => (SourcesKeepTheCalendar => ShortAnswerIsPrefix)
  <2> SUFFICES ASSUME AssessmentInv, SourcesKeepTheCalendar, NEW a \in Assessed,
                      SeriesOf(a, FALSE).ok
               PROVE  IsPrefix(outcomes[a], JudgeDays(a, SeriesOf(a, FALSE).value))
    BY DEF ShortAnswerIsPrefix
  <2> DEFINE short == SeriesOf(a, TRUE).value
             long == SeriesOf(a, FALSE).value
             last(first) == first + days - 1
  <2>1. /\ outcomes # None /\ a \in Activities /\ Answerable(a) /\ SeriesOf(a, TRUE).ok
        /\ outcomes[a] = JudgeDays(a, short)
    BY AssessedIsJudged
  <2>2. PICK first \in Int :
           \A c \in Capability : Served(c) => OnCalendar(exchange[c].result.value, first)
    BY DEF SourcesKeepTheCalendar
  <2>3. SoundSeries(short)
    BY <2>1, SeriesIsSound
  <2>4. /\ SoundSeries(long)
        /\ RunsFrom(long.hourly.time, first) /\ RunsFrom(long.daily.time, first)
        /\ ShortSeries(short, long, last(first))
    BY <2>1, <2>2, AskedForLess
  <2>5. last(first) \in Int
    BY <2>2 DEF AssessmentInv
  <2> HIDE DEF short, long, last
  <2>6. IsPrefix(JudgeDays(a, short), JudgeDays(a, long))
    BY <2>1, <2>3, <2>4, <2>5, JudgementBegins
  <2> QED
    BY <2>1, <2>6 DEF long
<1> QED
  BY <1>1, AssessmentIsInvariant, PTL
=============================================================================
