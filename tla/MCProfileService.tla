-------------------------- MODULE MCProfileService --------------------------
(* Instances of ProfileService for TLC. *)
EXTENDS ProfileService, TLC

Alike == Permutations(Instances)
=============================================================================
