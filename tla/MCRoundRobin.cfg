CONSTANTS
    u1 = u1
    u2 = u2
    u3 = u3
    urls <- ThreeUrls
    Callers = {c1, c2}
    CounterSize = 4
    NoHealthy = NoHealthy
SPECIFICATION FairHistorySpec
INVARIANTS UncontendedErrorMeansAllDown
PROPERTIES NextReturns
