\* What the comment of HandleDesiredRunnerCount promises of a scale-down.
SPECIFICATION FairSpec
CONSTANTS
  NumRunners = 2
  MinRunners = 1
  MaxRunners = 2
  MaxJobs = 2
  BusyPolicy = "leave"
PROPERTY MovesTowardDemand
