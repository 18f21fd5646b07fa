--------------------------- MODULE MCAuditBuffer ---------------------------
(* Instances of AuditBuffer for TLC. *)
EXTENDS AuditBuffer
=============================================================================
