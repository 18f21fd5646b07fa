----------------------------- MODULE MCRanking -----------------------------
EXTENDS Ranking, TLC

CONSTANTS p1, p2, r1, ski, surf, skiing, newSkiing, surfing, alien

Pub(code, n, content) == [version |-> <<code, n>>, content |-> content]

\* Two deploys that disagree about the second version of one activity; the one
\* with another activity's before it is of a build this one does not read.
MCManifest ==
    [p \in {p1, p2} |-> IF p = p1 THEN <<Pub(ski, 2, newSkiing)>>
                       ELSE <<Pub(surf, 2, surfing), Pub(ski, 2, alien)>>]

MCSeeded ==
    {[v \in Codes \X Numbers |-> IF v = <<ski, 1>> THEN skiing
                               ELSE IF v = <<surf, 1>> THEN surfing ELSE None]}

MCNeeds == [c \in {skiing, newSkiing, surfing, alien} |->
               IF c = surfing THEN {"forecast", "marine"} ELSE {"forecast"}]
MCRulesOf == [c \in {skiing, newSkiing, surfing, alien} |->
               IF c = surfing THEN {"marineCoverage"}
               ELSE IF c = skiing THEN {"snowSeason"} ELSE {"snowSeason", "marineCoverage"}]
MCProfiles == {[snowSeason |-> "applicable", marineCoverage |-> "applicable"],
               [snowSeason |-> "not_applicable", marineCoverage |-> "undecided"]}
=============================================================================
