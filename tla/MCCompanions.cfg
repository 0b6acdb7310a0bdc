CONSTANTS
    Requests = {r1, r2, r3}
    Routes = {"list", "get", "create"}
    Limits <- AnyLimit
    Users = {u1, u2}
    MaxPending = 3
SPECIFICATION FairCompanionsSpec
INVARIANTS SamplesConserved
PROPERTIES WarmedPool PoolServes
CHECK_DEADLOCK FALSE
