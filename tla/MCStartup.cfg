CONSTANTS
    None = None
    MaxServices = 2
    Upstreams = {u1, u2}
    FirstServices <- AnyService
    LaterServices <- PlainService
SPECIFICATION FairSpec
INVARIANTS BuiltAsAssumed SetupLeaksNothing TelemetryKept RefusalHasCause
PROPERTIES BootEnds
CHECK_DEADLOCK FALSE
