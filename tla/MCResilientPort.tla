-------------------------- MODULE MCResilientPort --------------------------
(* Instances of ResilientPort for TLC. *)
EXTENDS ResilientPort
=============================================================================
