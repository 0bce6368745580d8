\* The defaults (config/defaults.go) and README.md:29, in ticks of ten seconds.
CONSTANTS
    ProvisioningTimeout = 30
    Grace = 12
    HealthTimeout = 1
    SessionTimeout = 3
    StopGracePeriod = 48
    MaxCalls = 2

SPECIFICATION Spec
CHECK_DEADLOCK FALSE
INVARIANT ExitsInTime
PROPERTY StopEnds
