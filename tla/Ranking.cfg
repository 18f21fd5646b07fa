CONSTANTS
    p1 = p1
    p2 = p2
    r1 = r1
    ski = ski
    surf = surf
    skiing = skiing
    newSkiing = newSkiing
    surfing = surfing
    alien = alien
    None = None
    Codes = {ski, surf}
    Numbers = {1, 2}
    Contents = {skiing, newSkiing, surfing, alien}
    Readable = {skiing, newSkiing, surfing}
    Publishers = {p1, p2}
    Manifest <- MCManifest
    Checks = {1, 2}
    Lifetime = 1
    Seeded <- MCSeeded
    Requests = {r1}
    Rules = {"snowSeason", "marineCoverage"}
    Needs <- MCNeeds
    RulesOf <- MCRulesOf
    MaxDays = 2
    DefaultDays = 1
    Axes = {1, 2}
    Profiles <- MCProfiles
SPECIFICATION Spec
INVARIANTS
    PublishedMeansStored
    OnlyTheAffectedLose
    AuditNamesThePlanOrLater
PROPERTIES
    PublishedIsImmutable
    ReachableStaysReachable
    NewestComesIntoForce
