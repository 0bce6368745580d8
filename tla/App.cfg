\* Two watches: one may fail while the other still runs, and the channel of
\* the scaler may be full when the second fails.
SPECIFICATION FairSpec
CONSTANT MaxWatches = 2
INVARIANTS
  NotReadyOnceStopping
  ReadyMeansServing
  ClosedAfterUse
  StatusTruthful
PROPERTIES
  LifecycleKept
  ProcessStops
\* Serve has returned.
CHECK_DEADLOCK FALSE
