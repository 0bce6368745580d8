SPECIFICATION PartsSpec
CONSTANTS
    \* A runner that may live longer than the HTTP client's timeout.
    HTTPTimeout = 3
    MaxLifetime = 4
    DockerFails = TRUE
    Image = "image"
    Version = "dev"
    Instance = "instance"
    ScaleSetID = 1
    \* Limits below, at and above what a stream has, and the default.
    DefaultLogBytesPerStream = 3
    Limits = {0, 1, 2, 4}
    MaxFrame = 3
    MaxBytes = 4
    \* Two containers, created within one second or not.
    Containers = {1, 2}
    LabelChoices <- SomeLabels
    CreationTimes = {1, 2}
INVARIANTS AtMostOneStray WatchSafe ProvisionSafe LogsSafe RecoverySafe
PROPERTIES RemovalPromised CancelEndsAll RecoversInTheEnd
\* Most of the machines come to an end.
CHECK_DEADLOCK FALSE
