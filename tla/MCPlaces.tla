------------------------------ MODULE MCPlaces ------------------------------
EXTENDS Places, TLC

CONSTANTS p1, p2, c1, c2, n1, i1, i2, i3, es

\* Two places in one cell, one of them with nothing but its coordinates and
\* zone, and one that is not on Earth.
Town == [id |-> i1, cell |-> c1, population |-> 2, country |-> es, timezone |-> "z1"]
Twin == [id |-> i2, cell |-> c1, population |-> 2, country |-> None, timezone |-> "z2"]
Odd  == [id |-> i3, cell |-> "nowhere", population |-> None, country |-> None,
         timezone |-> "z1"]

MCCandidates == {Town, Twin, Odd}
MCReplies == {<<>>, <<Odd, Twin, Town>>, <<Town>>}
Symmetry == Permutations(Callers)
=============================================================================
