--------------------------- MODULE MCSeriesCache ---------------------------
(* Instances of SeriesCache for TLC: its constants are model values and
   numbers, which the configurations give. *)
EXTENDS SeriesCache
=============================================================================
