CONSTANTS
    u1 = u1
    u2 = u2
    urls <- TwoUrls
    Requests = {r1, r2}
    Oversize = {r1}
    CounterSize = 2
    NoHealthy = NoHealthy
    MaxFailures = 2
    Timeout = 1
SPECIFICATION FairSpec
PROPERTIES BreakersImplemented RecoversUnlessAbandoned
