CONSTANTS
    RawConfigs <- AllChanges
    MaxRunnersLimit = 3
    secretFileMaxSize = 1
    MaxSize = 2

SPECIFICATION Spec
INVARIANT AcceptedNamesOwner
\* Load returns.
CHECK_DEADLOCK FALSE
