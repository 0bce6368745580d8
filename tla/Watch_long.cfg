\* A runner that lives longer, and a Docker that does not fail.
CONSTANTS
    HTTPTimeout = 3
    MaxLifetime = 4
    DockerFails = FALSE

SPECIFICATION Spec
INVARIANT ReportsOnlyFaults
CHECK_DEADLOCK FALSE
