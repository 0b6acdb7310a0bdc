CONSTANTS
    Requests = {r1, r2}
    limit = 1
SPECIFICATION FairSpec
INVARIANTS SlotsAccounted SpansEnded ObserversAgree
PROPERTIES NeverQueued
