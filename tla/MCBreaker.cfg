CONSTANTS
    Callers = {c1, c2, c3}
    Unrecorded = {c3}
    MaxFailures = 2
    Timeout = 2
SPECIFICATION FairSpec
INVARIANTS ClosedBelowThreshold OpenAdmitsNobody HalfOpenAdmitsOne
PROPERTIES OpenLastsTimeout OpenIsTested HalfOpenDecides
