CONSTANTS
    r1 = r1
    Requests = {r1, r2, r3}
    Limiters = {l1, l2, l3, l4}
    Setups <- MCSetups
    None = None
SPECIFICATION FairSpec
INVARIANTS OnlyDeletionOverAdmits OnlyTurningBackOverAdmits BucketExact
PROPERTIES IdleKeyForgotten
