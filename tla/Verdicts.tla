------------------------------ MODULE Verdicts ------------------------------
(***************************************************************************)
(* What a constraint says of a day whose values may be absent              *)
(* (src/src/domain/scoring/scoring-engine.ts, holds).  A comparison with   *)
(* an absent value cannot be decided, and that is not "no".                *)
(***************************************************************************)
EXTENDS Integers, Sequences, Functions

Verdict == {"yes", "no", "unknown"}

Of(condition) == IF condition THEN "yes" ELSE "no"

AnyOf(branches) ==
    IF "yes" \in branches THEN "yes"
    ELSE IF "unknown" \in branches THEN "unknown" ELSE "no"

AllOf(branches) ==
    IF "no" \in branches THEN "no"
    ELSE IF "unknown" \in branches THEN "unknown" ELSE "yes"

\* Mutant: what cannot be decided is taken for "no", so its negation fires.
Not_OfUnknownFires(inner) == IF inner = "yes" THEN "no" ELSE "yes"

Not(inner) ==
    IF inner = "unknown" THEN "unknown"
    ELSE IF inner = "yes" THEN "no" ELSE "yes"

\* A constraint is a tree: its nodes in a sequence, each after its branches, and
\* the root last.
Branches(node) ==
    CASE node.node \in {"anyOf", "allOf"} -> node.of
      [] node.node = "not"  -> {node.of}
      [] node.node = "leaf" -> {}

IsTree(tree) ==
    /\ tree \in Seq(Range(tree)) \ {<<>>}
    /\ \A i \in DOMAIN tree : /\ tree[i].node \in {"leaf", "anyOf", "allOf", "not"}
                             /\ Branches(tree[i]) \subseteq 1..(i - 1)
    /\ \A i \in 1..(Len(tree) - 1) : \E j \in DOMAIN tree : i \in Branches(tree[j])

LeavesOf(tree) == {i \in DOMAIN tree : tree[i].node = "leaf"}

\* The verdict of a tree over the verdicts of its leaves.
TreeVerdict(tree, leaf) ==
    LET verdict[i \in DOMAIN tree] ==
          CASE tree[i].node = "anyOf" -> AnyOf({verdict[j] : j \in tree[i].of})
            [] tree[i].node = "allOf" -> AllOf({verdict[j] : j \in tree[i].of})
            [] tree[i].node = "not"   -> Not(verdict[tree[i].of])
            [] tree[i].node = "leaf"  -> leaf[i]
    IN  verdict[Len(tree)]

\* What is known in one verdict stays in the other.
Survives(known, later) == known # "unknown" => later = known
=============================================================================
