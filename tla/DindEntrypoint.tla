--------------------------- MODULE DindEntrypoint ---------------------------
(***************************************************************************)
(* PID 1 of the runner image with its own Docker daemon                    *)
(* (images/dind-runner-runsc/entrypoint.sh): a shell script that starts    *)
(* dockerd, waits until it answers, starts the runner, waits for it, and   *)
(* stops dockerd on every way out.  It shares the container with its two   *)
(* children, which may end at any time, and with signals: the shell runs   *)
(* a trap between two commands, and a trap interrupts the builtin wait.    *)
(*                                                                         *)
(* Processes that have exited and are not reaped yet count as "dead" or    *)
(* "ended", as process_is_running says of them.  A signal that arrives     *)
(* before the traps are set has no effect on PID 1 and is a stutter.       *)
(***************************************************************************)
EXTENDS Integers

CONSTANTS
    ProvisioningTimeout,    \* seconds dockerd has until it must answer
    StopTimeout,            \* seconds it has to stop after TERM
    RunnerCodes             \* exit codes the runner may end with

ASSUME TimeoutsAssumption ==
    ProvisioningTimeout \in Nat \ {0} /\ StopTimeout \in Nat \ {0}
ASSUME CodesAssumption == RunnerCodes \subseteq 0..255

VARIABLES
    pc,                     \* the command the script is about to run
    dockerd,                \* the daemon's process
    dockerdSignal,          \* the strongest signal the script has sent to it
    runner,                 \* the runner's process
    runnerCode,             \* what the runner ended with, once it has
    told,                   \* a signal has been sent to the runner
    runner_pid,             \* the variable of that name is set
    shutdown_requested,
    shutdown_exit_code,
    runner_exit_code,
    seconds,                \* what is left of the deadline of the loop at hand
    status,                 \* the status PID 1 exits with
    early                   \* history: a trap ran before the last look for one

vars == <<pc, dockerd, dockerdSignal, runner, runnerCode, told, runner_pid,
          shutdown_requested, shutdown_exit_code, runner_exit_code, seconds,
          status, early>>

children == <<dockerd, dockerdSignal, runner, runnerCode, told>>
signals == <<shutdown_requested, shutdown_exit_code, early>>
others == <<children, signals, runner_pid, runner_exit_code>>
script == <<pc, signals, runner_pid, runner_exit_code, seconds, status>>

\* What a wait reports, and the script exits with, on INT and on TERM.
SignalCodes == {130, 143}
Killed == 137

BeforeGate == {"network", "dockerd", "loop", "ping", "sleep", "jit", "gate"}
Running == BeforeGate \cup {"launch", "launched", "wait", "woken",
                            "cleanup", "grace", "reap"}

DockerdRuns == dockerd \in {"starting", "ready"}
RunnerRuns == runner = "running"

TypeOK ==
    /\ pc \in Running \cup {"validate", "exited"}
    /\ dockerd \in {"none", "starting", "ready", "dead"}
    /\ dockerdSignal \in {"none", "TERM", "KILL"}
    /\ runner \in {"none", "running", "ended"}
    /\ runnerCode \in RunnerCodes \cup {-1}
    /\ told \in BOOLEAN
    /\ runner_pid \in BOOLEAN
    /\ shutdown_requested \in BOOLEAN
    /\ shutdown_exit_code \in SignalCodes
    /\ runner_exit_code \in 0..255
    /\ seconds \in Nat
    /\ status \in -1..255
    /\ early \in BOOLEAN

Init ==
    /\ pc = "validate"
    /\ dockerd = "none"
    /\ dockerdSignal = "none"
    /\ runner = "none"
    /\ runnerCode = -1
    /\ told = FALSE
    /\ runner_pid = FALSE
    /\ shutdown_requested = FALSE
    /\ shutdown_exit_code = 143
    /\ runner_exit_code = 0
    /\ seconds = 0
    /\ status = -1
    /\ early = FALSE

-----------------------------------------------------------------------------
(* The script.                                                             *)

\* exit anywhere but in cleanup: the EXIT trap takes over with this status.
Exit(code) ==
    /\ pc' = "cleanup"
    /\ status' = code

Goto(command) ==
    /\ pc' = command
    /\ UNCHANGED status

\* die, and every command that fails under set -e.
Die == Exit(1)

\* The timeouts are checked before there is a trap to run.
ValidateTimeouts ==
    /\ pc = "validate"
    /\ \/ Goto("network")
       \/ pc' = "exited" /\ status' = 1
    /\ UNCHANGED <<others, seconds>>

\* Forwarding, the default route and the rules for both protocols.
ConfigureNetwork ==
    /\ pc = "network"
    /\ \/ Goto("dockerd")
       \/ Die
    /\ UNCHANGED <<others, seconds>>

StartDockerd ==
    /\ pc = "dockerd"
    /\ dockerd' = "starting"
    /\ seconds' = ProvisioningTimeout
    /\ pc' = "loop"
    /\ UNCHANGED <<dockerdSignal, runner, runnerCode, told, signals, runner_pid,
                   runner_exit_code, status>>

\* The head of the loop of wait_for_dockerd: the deadline, then the process.
WaitForDockerd ==
    /\ pc = "loop"
    /\ IF seconds > 0 /\ DockerdRuns
       THEN Goto("ping")
       ELSE Die
    /\ UNCHANGED <<others, seconds>>

\* A daemon that answers may still be too slow for this request.
Ping ==
    /\ pc = "ping"
    /\ \/ dockerd = "ready" /\ pc' = "jit"
       \/ pc' = "sleep"
    /\ UNCHANGED <<others, seconds, status>>

\* No answer: a stop request ends the wait, or the loop sleeps.  A turn takes
\* a second at least.
SleepOrExit ==
    /\ pc = "sleep"
    /\ IF shutdown_requested
       THEN Exit(shutdown_exit_code) /\ UNCHANGED seconds
       ELSE /\ pc' = "loop"
            /\ seconds' \in 0..(seconds - 1)
            /\ UNCHANGED status
    /\ UNCHANGED others

CheckJitConfig ==
    /\ pc = "jit"
    /\ \/ Goto("gate")
       \/ Die
    /\ UNCHANGED <<others, seconds>>

\* Mutant: the request is looked at only while waiting for dockerd.
GateOpen ==
    /\ pc = "gate"
    /\ pc' = "launch"
    /\ UNCHANGED <<others, seconds, status>>

\* The last look at shutdown_requested.
Gate ==
    /\ pc = "gate"
    /\ IF shutdown_requested
       THEN Exit(shutdown_exit_code)
       ELSE Goto("launch")
    /\ UNCHANGED <<others, seconds>>

StartRunner ==
    /\ pc = "launch"
    /\ runner' = "running"
    /\ pc' = "launched"
    /\ UNCHANGED <<dockerd, dockerdSignal, runnerCode, told, signals, runner_pid,
                   runner_exit_code, seconds, status>>

RecordPid ==
    /\ pc = "launched"
    /\ runner_pid' = TRUE
    /\ pc' = "wait"
    /\ UNCHANGED <<children, signals, runner_exit_code, seconds, status>>

\* The builtin returns because the runner has ended; Trap is the other way.
WaitReturns ==
    /\ pc = "wait"
    /\ runner = "ended"
    /\ runner_exit_code' = runnerCode
    /\ pc' = "woken"
    /\ UNCHANGED <<children, signals, runner_pid, seconds, status>>

\* Mutant: the loop around wait is missing.
WaitOnce ==
    /\ pc = "woken"
    /\ Exit(runner_exit_code)
    /\ UNCHANGED <<others, seconds>>

\* Wait again after a signal, unless the runner has ended meanwhile.
WaitAgainOrExit ==
    /\ pc = "woken"
    /\ IF RunnerRuns /\ runner_exit_code > 128
       THEN Goto("wait")
       ELSE Exit(runner_exit_code)
    /\ UNCHANGED <<others, seconds>>

\* cleanup and the first half of stop_dockerd.
StopDockerd ==
    /\ pc = "cleanup"
    /\ \/ /\ dockerd = "none"
          /\ pc' = "exited"
          /\ UNCHANGED <<dockerdSignal, seconds>>
       \/ /\ DockerdRuns
          /\ dockerdSignal' = "TERM"
          /\ seconds' = StopTimeout
          /\ pc' = "grace"
       \/ /\ dockerd = "dead"
          /\ pc' = "reap"
          /\ UNCHANGED <<dockerdSignal, seconds>>
    /\ UNCHANGED <<dockerd, runner, runnerCode, told, signals, runner_pid,
                   runner_exit_code, status>>

\* Mutant: dockerd gets all the time it wants.
GraceWithoutEnd ==
    /\ pc = "grace"
    /\ \/ /\ DockerdRuns
          /\ UNCHANGED <<pc, seconds>>
       \/ /\ ~DockerdRuns
          /\ pc' = "reap"
          /\ UNCHANGED seconds
    /\ UNCHANGED <<others, status>>

\* The loop that gives dockerd its time, and KILL when the time is over.
Grace ==
    /\ pc = "grace"
    /\ \/ /\ DockerdRuns /\ seconds > 0
          /\ seconds' \in 0..(seconds - 1)
          /\ UNCHANGED <<pc, dockerdSignal>>
       \/ /\ DockerdRuns /\ seconds = 0
          /\ dockerdSignal' = "KILL"
          /\ pc' = "reap"
          /\ UNCHANGED seconds
       \/ /\ ~DockerdRuns
          /\ pc' = "reap"
          /\ UNCHANGED <<dockerdSignal, seconds>>
    /\ UNCHANGED <<dockerd, runner, runnerCode, told, signals, runner_pid,
                   runner_exit_code, status>>

\* Mutant: cleanup forgets the status it was entered with.
ReapStatusLost ==
    /\ pc = "reap"
    /\ ~DockerdRuns
    /\ pc' = "exited"
    /\ status' = 0
    /\ UNCHANGED <<others, seconds>>

Reap ==
    /\ pc = "reap"
    /\ ~DockerdRuns
    /\ pc' = "exited"
    /\ UNCHANGED <<others, seconds, status>>

Script ==
    \/ ValidateTimeouts \/ ConfigureNetwork \/ StartDockerd
    \/ WaitForDockerd \/ Ping \/ SleepOrExit
    \/ CheckJitConfig \/ Gate \/ StartRunner \/ RecordPid
    \/ WaitReturns \/ WaitAgainOrExit
    \/ StopDockerd \/ Grace \/ Reap

-----------------------------------------------------------------------------
(* Signals, and the other processes.                                       *)

\* forward_signal: the part that is the same wherever the trap runs.
ForwardSignal(code) ==
    /\ shutdown_requested' = TRUE
    /\ shutdown_exit_code' = code
    /\ told' = (told \/ (runner_pid /\ RunnerRuns))

\* The trap of INT or TERM between two commands.  A builtin wait that it
\* interrupts returns 128 plus the signal: the wait for the runner is
\* repeated, the one for dockerd is not.
Trap ==
    /\ pc \in Running
    /\ \E code \in SignalCodes :
           /\ ForwardSignal(code)
           /\ \/ /\ pc = "wait"
                 /\ pc' = "woken"
                 /\ runner_exit_code' = code
              \/ /\ pc = "reap"
                 /\ pc' = "exited"
                 /\ UNCHANGED runner_exit_code
              \/ UNCHANGED <<pc, runner_exit_code>>
    /\ early' = (early \/ pc \in BeforeGate)
    /\ UNCHANGED <<dockerd, dockerdSignal, runner, runnerCode, runner_pid,
                   seconds, status>>

\* The daemon begins to answer, or ends, by itself or because it was told to.
DockerdReady ==
    /\ pc # "exited"
    /\ dockerd = "starting"
    /\ dockerd' = "ready"
    /\ UNCHANGED <<script, dockerdSignal, runner, runnerCode, told>>

DockerdEnds ==
    /\ pc # "exited"
    /\ DockerdRuns
    /\ dockerd' = "dead"
    /\ UNCHANGED <<script, dockerdSignal, runner, runnerCode, told>>

RunnerEnds ==
    /\ pc # "exited"
    /\ RunnerRuns
    /\ runner' = "ended"
    /\ runnerCode' \in RunnerCodes
    /\ UNCHANGED <<script, dockerd, dockerdSignal, told>>

\* Docker kills the container, all processes at once: the stop timeout is
\* over, or somebody asked for it.
KillContainer ==
    /\ pc # "exited"
    /\ pc' = "exited"
    /\ status' = Killed
    /\ UNCHANGED <<others, seconds>>

Next ==
    \/ Script
    \/ Trap
    \/ DockerdReady \/ DockerdEnds \/ RunnerEnds
    \/ KillContainer

\* The script runs on, and a process that is sent KILL ends.  Nobody has to
\* send a signal, to end, or to answer.
Spec ==
    /\ Init /\ [][Next]_vars
    /\ WF_vars(Script)
    /\ WF_vars(dockerdSignal = "KILL" /\ DockerdEnds)
-----------------------------------------------------------------------------
(* Safety.                                                                 *)

\* A stop request that the script has seen before it starts the runner (l.182
\* is the last look) keeps the runner from being started, however long ago it
\* came and whatever the script was doing then (entrypoint.sh:154, 182).
EarlySignalPreventsRunner == early => runner = "none"

\* The container exits with 0 only if the runner itself ended with 0: no
\* failure on the way, no signal and no cleanup turns into success
\* (entrypoint.sh:88-93, 193-206).
SuccessIsReal ==
    pc = "exited" /\ status = 0 => runner = "ended" /\ runnerCode = 0

\* The daemon a job may be using is not told to stop while the runner runs,
\* not even when the container is asked to stop (entrypoint.sh:47-60, 66); and
\* on every way out it has ended or has at least been sent KILL, unless Docker
\* killed PID 1 itself (entrypoint.sh:87, "Always stop dockerd").
DockerdServesRunner == RunnerRuns => dockerdSignal = "none"
DockerdStoppedAtExit ==
    pc = "exited" /\ status # Killed => ~DockerdRuns \/ dockerdSignal = "KILL"

DockerdLifetime == DockerdServesRunner /\ DockerdStoppedAtExit

(* Liveness.                                                               *)

\* The container ends once the runner has, also if dockerd hangs and signals
\* keep arriving (entrypoint.sh:66-85, 195-204); and waiting for dockerd ends,
\* with a runner or with the end of the container (entrypoint.sh:139-163).
EndsWithRunner ==
    /\ runner = "ended" ~> pc = "exited"
    /\ pc = "network" ~> runner # "none" \/ pc = "exited"

=============================================================================
