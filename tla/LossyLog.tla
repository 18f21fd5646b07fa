------------------------------ MODULE LossyLog ------------------------------
(***************************************************************************)
(* What the audit promises (openspec data-persistence, "Audit is recorded  *)
(* off the hot path and may be lost"): a record that is taken ends up kept *)
(* or counted as lost, once, and what became of it does not change.        *)
(***************************************************************************)
CONSTANT Runs       \* the computations there are to record

VARIABLE fate       \* what has become of each of them

Fates == {"unseen", "held", "kept", "lost"}

Init == fate = [r \in Runs |-> "unseen"]

\* What may become of a record in one step.
Onward(f) ==
    CASE f = "unseen" -> {"unseen", "held"}
      [] f = "held"   -> {"held", "kept", "lost"}
      [] f = "kept"   -> {"kept"}
      [] f = "lost"   -> {"lost"}

Next ==
    /\ fate' \in [Runs -> Fates]
    /\ \A r \in Runs : fate'[r] \in Onward(fate[r])

Spec == Init /\ [][Next]_fate
=============================================================================
