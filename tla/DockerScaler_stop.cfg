\* Liveness, under the policy that has one more phase to stop in.
SPECIFICATION FairSpec
CONSTANTS
  NumRunners = 2
  MinRunners = 0
  MaxRunners = 2
  MaxJobs = 2
  BusyPolicy = "stop"
PROPERTIES
  OwnershipKept
  ExitedRunnerRemoved
  ProcessStops
