\* Two turns of each loop: a deadline that passes, and one that does not.
\* 143 is also what a runner may end with by itself.
SPECIFICATION Spec
CONSTANTS
  ProvisioningTimeout = 2
  StopTimeout = 2
  RunnerCodes = {0, 1, 143}
INVARIANTS
  EarlySignalPreventsRunner
  SuccessIsReal
  DockerdLifetime
PROPERTY EndsWithRunner
\* PID 1 has exited.
CHECK_DEADLOCK FALSE
