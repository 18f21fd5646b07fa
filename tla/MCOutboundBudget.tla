-------------------------- MODULE MCOutboundBudget --------------------------
(* Two windows whose limits bind in turn: a short one that refills fast and *)
(* a long one that does not.                                                *)
EXTENDS OutboundBudget

MCWindows == {"minute", "hour"}
MCLimit == [w \in MCWindows |-> IF w = "minute" THEN 2 ELSE 3]
MCLength == [w \in MCWindows |-> IF w = "minute" THEN 3 ELSE 7]
=============================================================================
