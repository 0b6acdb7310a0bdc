CONSTANTS
    minSize = 4
    Pieces = {0, 1, 3, 5}
    MaxBody = 10
SPECIFICATION CompressSpec
INVARIANTS BodyIntact
PROPERTIES OnlyWorthwhile
CHECK_DEADLOCK FALSE
