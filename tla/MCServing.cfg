CONSTANTS
    u1 = u1
    u2 = u2
    urls <- TwoUrls
    Callers = {r1}
    CounterSize = 2
    NoHealthy = NoHealthy
SPECIFICATION FairServingSpec
INVARIANTS NoSpuriousOutage NoDeadBoot NoFalseAlarm
PROPERTIES VerdictsFollow SignalEnds
CHECK_DEADLOCK FALSE
