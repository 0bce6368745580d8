\* Three containers over the whole behaviour let two live runners and one more
\* be old, new, adopted and orphaned in one behaviour; maxRunners below that
\* makes the capacity bound bite.
SPECIFICATION Spec
CONSTANTS
  NumRunners = 3
  MinRunners = 1
  MaxRunners = 2
  MaxJobs = 3
  BusyPolicy = "leave"
INVARIANTS
  OneOwner
  NoSilentOrphan
  TableIsWatched
  AdoptedNotStopped
  OldestFirst
  CapacityRespected
  CleanExit
PROPERTY BusyKept
