\* Two jobs and two runners at a time; a third runner can replace one that ended,
\* and after a crash all that run are adopted.
SPECIFICATION JobFairSpec
CONSTANTS
  NumRunners = 3
  MinRunners = 0
  MaxRunners = 2
  MaxJobs = 2
  BusyPolicy = "leave"
  NumJobs = 2
  NumCrashes = 1
PROPERTIES StartedJobsGoOn EveryJobStarts
\* A third runner is the last that can be made.
CHECK_DEADLOCK FALSE
