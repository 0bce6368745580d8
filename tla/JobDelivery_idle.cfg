\* The instance of JobDelivery.cfg, without a crash.
SPECIFICATION JobSpec
CONSTANTS
  NumRunners = 3
  MinRunners = 0
  MaxRunners = 2
  MaxJobs = 2
  BusyPolicy = "leave"
  NumJobs = 2
  NumCrashes = 0
INVARIANT RemovesOnlyIdle
\* A third runner is the last that can be made.
CHECK_DEADLOCK FALSE
