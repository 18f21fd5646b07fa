CONSTANTS
    p1 = p1
    p2 = p2
    c1 = c1
    c2 = c2
    n1 = n1
    i1 = i1
    i2 = i2
    i3 = i3
    es = es
    None = None
    Callers = {p1, p2}
    Names = {n1}
    Cells = {c1}
    Candidates <- MCCandidates
    Replies <- MCReplies
    TTL = 3
    NegativeTTL = 2
    MaxNow = 4
SYMMETRY Symmetry
SPECIFICATION Spec
INVARIANTS
    NamesMatchTheirIds
PROPERTIES
    AbsenceIsRecent
    StoredPlaceIsKept
