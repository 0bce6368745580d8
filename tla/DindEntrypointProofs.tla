------------------------ MODULE DindEntrypointProofs ------------------------
(***************************************************************************)
(* The safety properties of the entrypoint, for all timeouts and all exit  *)
(* codes.  None of them is inductive alone: each needs to know which of    *)
(* the processes can exist at each command of the script.                  *)
(***************************************************************************)
EXTENDS DindEntrypoint, TLAPS

BeforeRunner == BeforeGate \cup {"validate", "launch"}
WithRunner == {"launched", "wait", "woken"}

\* Where the runner can be, and where it can still run.
RunnerInv ==
    /\ pc \in BeforeRunner => runner = "none"
    /\ pc \in WithRunner => runner # "none"
    /\ RunnerRuns => pc \in WithRunner \cup {"exited"}
    /\ runner = "ended" => runnerCode \in 0..255

\* Where a request that came early can have led.
EarlyInv ==
    early => /\ shutdown_requested
             /\ pc \notin {"validate", "launch"} \cup WithRunner
             /\ runner = "none"

\* What a wait has reported.
WokenInv ==
    pc = "woken" => \/ runner_exit_code \in SignalCodes
                    \/ runner = "ended" /\ runner_exit_code = runnerCode

\* What the script is going to exit with.
StatusInv == status = 0 => runner = "ended" /\ runnerCode = 0

\* How far dockerd has been told to stop.
DockerdInv ==
    /\ pc \in {"validate", "network", "dockerd"} => dockerd = "none"
    /\ dockerdSignal # "none" => pc \in {"grace", "reap", "exited"} /\ ~RunnerRuns
    /\ pc = "reap" => ~DockerdRuns \/ dockerdSignal = "KILL"
    /\ pc = "exited" /\ status # Killed => ~DockerdRuns \/ dockerdSignal = "KILL"

IInv ==
    /\ TypeOK
    /\ RunnerInv
    /\ EarlyInv
    /\ WokenInv
    /\ StatusInv
    /\ DockerdInv

\* TypeOK by kinds of value: no prover deals with all of them at once.
ControlType ==
    /\ pc \in Running \cup {"validate", "exited"}
    /\ dockerd \in {"none", "starting", "ready", "dead"}
    /\ dockerdSignal \in {"none", "TERM", "KILL"}
    /\ runner \in {"none", "running", "ended"}

NumberType ==
    /\ runnerCode \in RunnerCodes \cup {-1}
    /\ shutdown_exit_code \in SignalCodes
    /\ runner_exit_code \in 0..255
    /\ seconds \in Nat
    /\ status \in -1..255

FlagType ==
    /\ told \in BOOLEAN
    /\ runner_pid \in BOOLEAN
    /\ shutdown_requested \in BOOLEAN
    /\ early \in BOOLEAN

\* The three parts are the type invariant.
LEMMA TypeParts == TypeOK <=> ControlType /\ NumberType /\ FlagType
  BY DEF TypeOK, ControlType, NumberType, FlagType

\* The values of Init have their types.
LEMMA TypeInit == Init => TypeOK
<1> SUFFICES ASSUME Init PROVE TypeOK
  OBVIOUS
<1>1. ControlType
  BY DEF Init, ControlType, Running, BeforeGate
<1>2. NumberType
  BY DEF Init, NumberType, SignalCodes
<1>3. FlagType
  BY DEF Init, FlagType
<1> QED
  BY <1>1, <1>2, <1>3, TypeParts

\* One lemma for each part of the invariant, one step for each action.
LEMMA ControlTypeStep == TypeOK /\ [Next]_vars => ControlType'
<1> SUFFICES ASSUME TypeOK, [Next]_vars PROVE ControlType'
  OBVIOUS
<1> USE TimeoutsAssumption DEF TypeOK, ControlType, Running, BeforeGate
<1>1. CASE ValidateTimeouts
  BY <1>1 DEF ValidateTimeouts, Goto, others, children, signals
<1>2. CASE ConfigureNetwork
  BY <1>2 DEF ConfigureNetwork, Die, Exit, Goto, others, children, signals
<1>3. CASE StartDockerd
  BY <1>3 DEF StartDockerd, signals
<1>4. CASE WaitForDockerd
  BY <1>4 DEF WaitForDockerd, Die, Exit, Goto, others, children, signals,
     DockerdRuns
<1>5. CASE Ping
  BY <1>5 DEF Ping, others, children, signals
<1>6. CASE SleepOrExit
  BY <1>6 DEF SleepOrExit, Exit, others, children, signals
<1>7. CASE CheckJitConfig
  BY <1>7 DEF CheckJitConfig, Die, Exit, Goto, others, children, signals
<1>8. CASE Gate
  BY <1>8 DEF Gate, Exit, Goto, others, children, signals
<1>9. CASE StartRunner
  BY <1>9 DEF StartRunner, signals
<1>10. CASE RecordPid
  BY <1>10 DEF RecordPid, children, signals
<1>11. CASE WaitReturns
  BY <1>11 DEF WaitReturns, children, signals
<1>12. CASE WaitAgainOrExit
  BY <1>12 DEF WaitAgainOrExit, Exit, Goto, others, children, signals,
     RunnerRuns
<1>13. CASE StopDockerd
  BY <1>13 DEF StopDockerd, signals, DockerdRuns
<1>14. CASE Grace
  BY <1>14 DEF Grace, signals, DockerdRuns
<1>15. CASE Reap
  BY <1>15 DEF Reap, others, children, signals, DockerdRuns
<1>16. CASE Trap
  BY <1>16 DEF Trap, ForwardSignal, RunnerRuns
<1>17. CASE DockerdReady
  BY <1>17 DEF DockerdReady, script, signals
<1>18. CASE DockerdEnds
  BY <1>18 DEF DockerdEnds, script, signals, DockerdRuns
<1>19. CASE RunnerEnds
  BY <1>19 DEF RunnerEnds, script, signals, RunnerRuns
<1>20. CASE KillContainer
  BY <1>20 DEF KillContainer, others, children, signals, Killed
<1>21. CASE UNCHANGED vars
  BY <1>21 DEF vars
<1> QED
  BY <1>1, <1>2, <1>3, <1>4, <1>5, <1>6, <1>7, <1>8, <1>9, <1>10, <1>11,
     <1>12, <1>13, <1>14, <1>15, <1>16, <1>17, <1>18, <1>19, <1>20, <1>21 DEF Next, Script

LEMMA FlagTypeStep == TypeOK /\ [Next]_vars => FlagType'
<1> SUFFICES ASSUME TypeOK, [Next]_vars PROVE FlagType'
  OBVIOUS
<1> USE TimeoutsAssumption DEF TypeOK, FlagType
<1>1. CASE ValidateTimeouts
  BY <1>1 DEF ValidateTimeouts, Goto, others, children, signals
<1>2. CASE ConfigureNetwork
  BY <1>2 DEF ConfigureNetwork, Die, Exit, Goto, others, children, signals
<1>3. CASE StartDockerd
  BY <1>3 DEF StartDockerd, signals
<1>4. CASE WaitForDockerd
  BY <1>4 DEF WaitForDockerd, Die, Exit, Goto, others, children, signals,
     DockerdRuns
<1>5. CASE Ping
  BY <1>5 DEF Ping, others, children, signals
<1>6. CASE SleepOrExit
  BY <1>6 DEF SleepOrExit, Exit, others, children, signals
<1>7. CASE CheckJitConfig
  BY <1>7 DEF CheckJitConfig, Die, Exit, Goto, others, children, signals
<1>8. CASE Gate
  BY <1>8 DEF Gate, Exit, Goto, others, children, signals
<1>9. CASE StartRunner
  BY <1>9 DEF StartRunner, signals
<1>10. CASE RecordPid
  BY <1>10 DEF RecordPid, children, signals
<1>11. CASE WaitReturns
  BY <1>11 DEF WaitReturns, children, signals
<1>12. CASE WaitAgainOrExit
  BY <1>12 DEF WaitAgainOrExit, Exit, Goto, others, children, signals,
     RunnerRuns
<1>13. CASE StopDockerd
  BY <1>13 DEF StopDockerd, signals, DockerdRuns
<1>14. CASE Grace
  BY <1>14 DEF Grace, signals, DockerdRuns
<1>15. CASE Reap
  BY <1>15 DEF Reap, others, children, signals, DockerdRuns
<1>16. CASE Trap
  BY <1>16 DEF Trap, ForwardSignal, RunnerRuns
<1>17. CASE DockerdReady
  BY <1>17 DEF DockerdReady, script, signals
<1>18. CASE DockerdEnds
  BY <1>18 DEF DockerdEnds, script, signals, DockerdRuns
<1>19. CASE RunnerEnds
  BY <1>19 DEF RunnerEnds, script, signals, RunnerRuns
<1>20. CASE KillContainer
  BY <1>20 DEF KillContainer, others, children, signals, Killed
<1>21. CASE UNCHANGED vars
  BY <1>21 DEF vars
<1> QED
  BY <1>1, <1>2, <1>3, <1>4, <1>5, <1>6, <1>7, <1>8, <1>9, <1>10, <1>11,
     <1>12, <1>13, <1>14, <1>15, <1>16, <1>17, <1>18, <1>19, <1>20, <1>21 DEF Next, Script

\* A code is recorded when the runner has ended, so there is one (RunnerInv).
LEMMA NumberTypeStep == IInv /\ [Next]_vars => NumberType'
<1> SUFFICES ASSUME IInv, [Next]_vars PROVE NumberType'
  OBVIOUS
<1> USE TimeoutsAssumption, CodesAssumption DEF IInv, TypeOK, NumberType, RunnerInv, SignalCodes, Killed
<1>1. CASE ValidateTimeouts
  BY <1>1 DEF ValidateTimeouts, Goto, others, children, signals
<1>2. CASE ConfigureNetwork
  BY <1>2 DEF ConfigureNetwork, Die, Exit, Goto, others, children, signals
<1>3. CASE StartDockerd
  BY <1>3 DEF StartDockerd, signals
<1>4. CASE WaitForDockerd
  BY <1>4 DEF WaitForDockerd, Die, Exit, Goto, others, children, signals
<1>5. CASE Ping
  BY <1>5 DEF Ping, others, children, signals
<1>6. CASE SleepOrExit
  BY <1>6 DEF SleepOrExit, Exit, others, children, signals
<1>7. CASE CheckJitConfig
  BY <1>7 DEF CheckJitConfig, Die, Exit, Goto, others, children, signals
<1>8. CASE Gate
  BY <1>8 DEF Gate, Exit, Goto, others, children, signals
<1>9. CASE StartRunner
  BY <1>9 DEF StartRunner, signals
<1>10. CASE RecordPid
  BY <1>10 DEF RecordPid, children, signals
<1>11. CASE WaitReturns
  BY <1>11 DEF WaitReturns, children, signals
<1>12. CASE WaitAgainOrExit
  BY <1>12 DEF WaitAgainOrExit, Exit, Goto, others, children, signals
<1>13. CASE StopDockerd
  BY <1>13 DEF StopDockerd, signals
<1>14. CASE Grace
  BY <1>14 DEF Grace, signals
<1>15. CASE Reap
  BY <1>15 DEF Reap, others, children, signals
<1>16. CASE Trap
  BY <1>16 DEF Trap, ForwardSignal
<1>17. CASE DockerdReady
  BY <1>17 DEF DockerdReady, script, signals
<1>18. CASE DockerdEnds
  BY <1>18 DEF DockerdEnds, script, signals
<1>19. CASE RunnerEnds
  BY <1>19 DEF RunnerEnds, script, signals
<1>20. CASE KillContainer
  BY <1>20 DEF KillContainer, others, children, signals
<1>21. CASE UNCHANGED vars
  BY <1>21 DEF vars
<1> QED
  BY <1>1, <1>2, <1>3, <1>4, <1>5, <1>6, <1>7, <1>8, <1>9, <1>10, <1>11,
     <1>12, <1>13, <1>14, <1>15, <1>16, <1>17, <1>18, <1>19, <1>20, <1>21 DEF Next, Script

\* The script leaves its wait only when the runner has ended (WokenInv).
LEMMA RunnerStep == IInv /\ [Next]_vars => RunnerInv'
<1> SUFFICES ASSUME IInv, [Next]_vars PROVE RunnerInv'
  OBVIOUS
<1> USE TimeoutsAssumption, CodesAssumption DEF IInv, TypeOK, RunnerInv, WokenInv, BeforeRunner, BeforeGate, WithRunner, RunnerRuns, DockerdRuns, Running, SignalCodes
<1>1. CASE ValidateTimeouts
  BY <1>1 DEF ValidateTimeouts, Goto, others, children, signals
<1>2. CASE ConfigureNetwork
  BY <1>2 DEF ConfigureNetwork, Die, Exit, Goto, others, children, signals
<1>3. CASE StartDockerd
  BY <1>3 DEF StartDockerd, signals
<1>4. CASE WaitForDockerd
  BY <1>4 DEF WaitForDockerd, Die, Exit, Goto, others, children, signals
<1>5. CASE Ping
  BY <1>5 DEF Ping, others, children, signals
<1>6. CASE SleepOrExit
  BY <1>6 DEF SleepOrExit, Exit, others, children, signals
<1>7. CASE CheckJitConfig
  BY <1>7 DEF CheckJitConfig, Die, Exit, Goto, others, children, signals
<1>8. CASE Gate
  BY <1>8 DEF Gate, Exit, Goto, others, children, signals
<1>9. CASE StartRunner
  BY <1>9 DEF StartRunner, signals
<1>10. CASE RecordPid
  BY <1>10 DEF RecordPid, children, signals
<1>11. CASE WaitReturns
  BY <1>11 DEF WaitReturns, children, signals
<1>12. CASE WaitAgainOrExit
  BY <1>12 DEF WaitAgainOrExit, Exit, Goto, others, children, signals
<1>13. CASE StopDockerd
  BY <1>13 DEF StopDockerd, signals
<1>14. CASE Grace
  BY <1>14 DEF Grace, signals
<1>15. CASE Reap
  BY <1>15 DEF Reap, others, children, signals
<1>16. CASE Trap
  BY <1>16 DEF Trap, ForwardSignal
<1>17. CASE DockerdReady
  BY <1>17 DEF DockerdReady, script, signals
<1>18. CASE DockerdEnds
  BY <1>18 DEF DockerdEnds, script, signals
<1>19. CASE RunnerEnds
  BY <1>19 DEF RunnerEnds, script, signals
<1>20. CASE KillContainer
  BY <1>20 DEF KillContainer, others, children, signals
<1>21. CASE UNCHANGED vars
  BY <1>21 DEF vars
<1> QED
  BY <1>1, <1>2, <1>3, <1>4, <1>5, <1>6, <1>7, <1>8, <1>9, <1>10, <1>11,
     <1>12, <1>13, <1>14, <1>15, <1>16, <1>17, <1>18, <1>19, <1>20, <1>21 DEF Next, Script

\* The gate is the only way to the runner.
LEMMA EarlyStep == IInv /\ [Next]_vars => EarlyInv'
<1> SUFFICES ASSUME IInv, [Next]_vars PROVE EarlyInv'
  OBVIOUS
<1> USE TimeoutsAssumption, CodesAssumption DEF IInv, TypeOK, RunnerInv, EarlyInv, BeforeRunner, BeforeGate, WithRunner, RunnerRuns, DockerdRuns, Running, SignalCodes
<1>1. CASE ValidateTimeouts
  BY <1>1 DEF ValidateTimeouts, Goto, others, children, signals
<1>2. CASE ConfigureNetwork
  BY <1>2 DEF ConfigureNetwork, Die, Exit, Goto, others, children, signals
<1>3. CASE StartDockerd
  BY <1>3 DEF StartDockerd, signals
<1>4. CASE WaitForDockerd
  BY <1>4 DEF WaitForDockerd, Die, Exit, Goto, others, children, signals
<1>5. CASE Ping
  BY <1>5 DEF Ping, others, children, signals
<1>6. CASE SleepOrExit
  BY <1>6 DEF SleepOrExit, Exit, others, children, signals
<1>7. CASE CheckJitConfig
  BY <1>7 DEF CheckJitConfig, Die, Exit, Goto, others, children, signals
<1>8. CASE Gate
  BY <1>8 DEF Gate, Exit, Goto, others, children, signals
<1>9. CASE StartRunner
  BY <1>9 DEF StartRunner, signals
<1>10. CASE RecordPid
  BY <1>10 DEF RecordPid, children, signals
<1>11. CASE WaitReturns
  BY <1>11 DEF WaitReturns, children, signals
<1>12. CASE WaitAgainOrExit
  BY <1>12 DEF WaitAgainOrExit, Exit, Goto, others, children, signals
<1>13. CASE StopDockerd
  BY <1>13 DEF StopDockerd, signals
<1>14. CASE Grace
  BY <1>14 DEF Grace, signals
<1>15. CASE Reap
  BY <1>15 DEF Reap, others, children, signals
<1>16. CASE Trap
  BY <1>16 DEF Trap, ForwardSignal
<1>17. CASE DockerdReady
  BY <1>17 DEF DockerdReady, script, signals
<1>18. CASE DockerdEnds
  BY <1>18 DEF DockerdEnds, script, signals
<1>19. CASE RunnerEnds
  BY <1>19 DEF RunnerEnds, script, signals
<1>20. CASE KillContainer
  BY <1>20 DEF KillContainer, others, children, signals
<1>21. CASE UNCHANGED vars
  BY <1>21 DEF vars
<1> QED
  BY <1>1, <1>2, <1>3, <1>4, <1>5, <1>6, <1>7, <1>8, <1>9, <1>10, <1>11,
     <1>12, <1>13, <1>14, <1>15, <1>16, <1>17, <1>18, <1>19, <1>20, <1>21 DEF Next, Script

\* A wait ends with the runner or with the trap.
LEMMA WokenStep == IInv /\ [Next]_vars => WokenInv'
<1> SUFFICES ASSUME IInv, [Next]_vars PROVE WokenInv'
  OBVIOUS
<1> USE TimeoutsAssumption, CodesAssumption DEF IInv, TypeOK, RunnerInv, WokenInv, BeforeRunner, BeforeGate, WithRunner, RunnerRuns, DockerdRuns, Running, SignalCodes
<1>1. CASE ValidateTimeouts
  BY <1>1 DEF ValidateTimeouts, Goto, others, children, signals
<1>2. CASE ConfigureNetwork
  BY <1>2 DEF ConfigureNetwork, Die, Exit, Goto, others, children, signals
<1>3. CASE StartDockerd
  BY <1>3 DEF StartDockerd, signals
<1>4. CASE WaitForDockerd
  BY <1>4 DEF WaitForDockerd, Die, Exit, Goto, others, children, signals
<1>5. CASE Ping
  BY <1>5 DEF Ping, others, children, signals
<1>6. CASE SleepOrExit
  BY <1>6 DEF SleepOrExit, Exit, others, children, signals
<1>7. CASE CheckJitConfig
  BY <1>7 DEF CheckJitConfig, Die, Exit, Goto, others, children, signals
<1>8. CASE Gate
  BY <1>8 DEF Gate, Exit, Goto, others, children, signals
<1>9. CASE StartRunner
  BY <1>9 DEF StartRunner, signals
<1>10. CASE RecordPid
  BY <1>10 DEF RecordPid, children, signals
<1>11. CASE WaitReturns
  BY <1>11 DEF WaitReturns, children, signals
<1>12. CASE WaitAgainOrExit
  BY <1>12 DEF WaitAgainOrExit, Exit, Goto, others, children, signals
<1>13. CASE StopDockerd
  BY <1>13 DEF StopDockerd, signals
<1>14. CASE Grace
  BY <1>14 DEF Grace, signals
<1>15. CASE Reap
  BY <1>15 DEF Reap, others, children, signals
<1>16. CASE Trap
  BY <1>16 DEF Trap, ForwardSignal
<1>17. CASE DockerdReady
  BY <1>17 DEF DockerdReady, script, signals
<1>18. CASE DockerdEnds
  BY <1>18 DEF DockerdEnds, script, signals
<1>19. CASE RunnerEnds
  BY <1>19 DEF RunnerEnds, script, signals
<1>20. CASE KillContainer
  BY <1>20 DEF KillContainer, others, children, signals
<1>21. CASE UNCHANGED vars
  BY <1>21 DEF vars
<1> QED
  BY <1>1, <1>2, <1>3, <1>4, <1>5, <1>6, <1>7, <1>8, <1>9, <1>10, <1>11,
     <1>12, <1>13, <1>14, <1>15, <1>16, <1>17, <1>18, <1>19, <1>20, <1>21 DEF Next, Script

\* Zero comes from the runner alone.
LEMMA StatusStep == IInv /\ [Next]_vars => StatusInv'
<1> SUFFICES ASSUME IInv, [Next]_vars PROVE StatusInv'
  OBVIOUS
<1> USE TimeoutsAssumption, CodesAssumption DEF IInv, TypeOK, RunnerInv, WokenInv, StatusInv, BeforeRunner, BeforeGate, WithRunner, RunnerRuns, DockerdRuns, Running, SignalCodes, Killed
<1>1. CASE ValidateTimeouts
  BY <1>1 DEF ValidateTimeouts, Goto, others, children, signals
<1>2. CASE ConfigureNetwork
  BY <1>2 DEF ConfigureNetwork, Die, Exit, Goto, others, children, signals
<1>3. CASE StartDockerd
  BY <1>3 DEF StartDockerd, signals
<1>4. CASE WaitForDockerd
  BY <1>4 DEF WaitForDockerd, Die, Exit, Goto, others, children, signals
<1>5. CASE Ping
  BY <1>5 DEF Ping, others, children, signals
<1>6. CASE SleepOrExit
  BY <1>6 DEF SleepOrExit, Exit, others, children, signals
<1>7. CASE CheckJitConfig
  BY <1>7 DEF CheckJitConfig, Die, Exit, Goto, others, children, signals
<1>8. CASE Gate
  BY <1>8 DEF Gate, Exit, Goto, others, children, signals
<1>9. CASE StartRunner
  BY <1>9 DEF StartRunner, signals
<1>10. CASE RecordPid
  BY <1>10 DEF RecordPid, children, signals
<1>11. CASE WaitReturns
  BY <1>11 DEF WaitReturns, children, signals
<1>12. CASE WaitAgainOrExit
  BY <1>12 DEF WaitAgainOrExit, Exit, Goto, others, children, signals
<1>13. CASE StopDockerd
  BY <1>13 DEF StopDockerd, signals
<1>14. CASE Grace
  BY <1>14 DEF Grace, signals
<1>15. CASE Reap
  BY <1>15 DEF Reap, others, children, signals
<1>16. CASE Trap
  BY <1>16 DEF Trap, ForwardSignal
<1>17. CASE DockerdReady
  BY <1>17 DEF DockerdReady, script, signals
<1>18. CASE DockerdEnds
  BY <1>18 DEF DockerdEnds, script, signals
<1>19. CASE RunnerEnds
  BY <1>19 DEF RunnerEnds, script, signals
<1>20. CASE KillContainer
  BY <1>20 DEF KillContainer, others, children, signals
<1>21. CASE UNCHANGED vars
  BY <1>21 DEF vars
<1> QED
  BY <1>1, <1>2, <1>3, <1>4, <1>5, <1>6, <1>7, <1>8, <1>9, <1>10, <1>11,
     <1>12, <1>13, <1>14, <1>15, <1>16, <1>17, <1>18, <1>19, <1>20, <1>21 DEF Next, Script

\* TERM is sent in cleanup, which comes after the runner's end.
LEMMA DockerdStep == IInv /\ [Next]_vars => DockerdInv'
<1> SUFFICES ASSUME IInv, [Next]_vars PROVE DockerdInv'
  OBVIOUS
<1> USE TimeoutsAssumption, CodesAssumption DEF IInv, TypeOK, RunnerInv, DockerdInv, BeforeRunner, BeforeGate, WithRunner, RunnerRuns, DockerdRuns, Running, SignalCodes, Killed
<1>1. CASE ValidateTimeouts
  BY <1>1 DEF ValidateTimeouts, Goto, others, children, signals
<1>2. CASE ConfigureNetwork
  BY <1>2 DEF ConfigureNetwork, Die, Exit, Goto, others, children, signals
<1>3. CASE StartDockerd
  BY <1>3 DEF StartDockerd, signals
<1>4. CASE WaitForDockerd
  BY <1>4 DEF WaitForDockerd, Die, Exit, Goto, others, children, signals
<1>5. CASE Ping
  BY <1>5 DEF Ping, others, children, signals
<1>6. CASE SleepOrExit
  BY <1>6 DEF SleepOrExit, Exit, others, children, signals
<1>7. CASE CheckJitConfig
  BY <1>7 DEF CheckJitConfig, Die, Exit, Goto, others, children, signals
<1>8. CASE Gate
  BY <1>8 DEF Gate, Exit, Goto, others, children, signals
<1>9. CASE StartRunner
  BY <1>9 DEF StartRunner, signals
<1>10. CASE RecordPid
  BY <1>10 DEF RecordPid, children, signals
<1>11. CASE WaitReturns
  BY <1>11 DEF WaitReturns, children, signals
<1>12. CASE WaitAgainOrExit
  BY <1>12 DEF WaitAgainOrExit, Exit, Goto, others, children, signals
<1>13. CASE StopDockerd
  BY <1>13 DEF StopDockerd, signals
<1>14. CASE Grace
  BY <1>14 DEF Grace, signals
<1>15. CASE Reap
  BY <1>15 DEF Reap, others, children, signals
<1>16. CASE Trap
  BY <1>16 DEF Trap, ForwardSignal
<1>17. CASE DockerdReady
  BY <1>17 DEF DockerdReady, script, signals
<1>18. CASE DockerdEnds
  BY <1>18 DEF DockerdEnds, script, signals
<1>19. CASE RunnerEnds
  BY <1>19 DEF RunnerEnds, script, signals
<1>20. CASE KillContainer
  BY <1>20 DEF KillContainer, others, children, signals
<1>21. CASE UNCHANGED vars
  BY <1>21 DEF vars
<1> QED
  BY <1>1, <1>2, <1>3, <1>4, <1>5, <1>6, <1>7, <1>8, <1>9, <1>10, <1>11,
     <1>12, <1>13, <1>14, <1>15, <1>16, <1>17, <1>18, <1>19, <1>20, <1>21 DEF Next, Script

LEMMA InvInit == Init => IInv
<1> SUFFICES ASSUME Init PROVE IInv
  OBVIOUS
<1>1. TypeOK
  BY TypeInit
<1>2. RunnerInv /\ StatusInv /\ WokenInv
  BY DEF Init, RunnerInv, StatusInv, WokenInv, BeforeRunner, WithRunner, RunnerRuns
<1>3. EarlyInv
  BY DEF Init, EarlyInv
<1>4. DockerdInv
  BY DEF Init, DockerdInv
<1> QED
  BY <1>1, <1>2, <1>3, <1>4 DEF IInv

LEMMA InvStep == IInv /\ [Next]_vars => IInv'
<1> SUFFICES ASSUME IInv, [Next]_vars PROVE IInv'
  OBVIOUS
<1>1. TypeOK /\ TypeOK'
  BY TypeParts, ControlTypeStep, NumberTypeStep, FlagTypeStep DEF IInv,
     TypeOK, ControlType, NumberType, FlagType
<1> QED
  BY <1>1, RunnerStep, EarlyStep, WokenStep, StatusStep, DockerdStep DEF IInv

\* What holds of the script, of both processes and of the request together.
THEOREM Invariance == Spec => []IInv
  BY InvInit, InvStep, PTL DEF Spec

\* Every variable has a value of its type, whatever the timeouts and codes.
THEOREM TypeCorrect == Spec => []TypeOK
<1>1. IInv => TypeOK
  BY DEF IInv
<1> QED
  BY <1>1, Invariance, PTL

\* A stop request the script has seen in time keeps the runner from starting.
THEOREM EarlySignalPrevents == Spec => []EarlySignalPreventsRunner
<1>1. IInv => EarlySignalPreventsRunner
  BY DEF IInv, EarlyInv, EarlySignalPreventsRunner
<1> QED
  BY <1>1, Invariance, PTL

\* No failure, no signal and no cleanup turns into the success of the runner.
THEOREM SuccessCorrect == Spec => []SuccessIsReal
<1>1. IInv => SuccessIsReal
  BY DEF IInv, StatusInv, SuccessIsReal
<1> QED
  BY <1>1, Invariance, PTL

\* dockerd is not told to stop under the runner, and no way out leaves a daemon
\* behind that nobody has told to stop.
THEOREM DockerdLives == Spec => []DockerdLifetime
<1>1. IInv => DockerdServesRunner
  BY DEF IInv, TypeOK, DockerdInv, DockerdServesRunner
<1>2. IInv => DockerdStoppedAtExit
  BY DEF IInv, DockerdInv, DockerdStoppedAtExit
<1>3. IInv => DockerdLifetime
  BY <1>1, <1>2 DEF DockerdLifetime
<1> QED
  BY <1>3, Invariance, PTL
=============================================================================
