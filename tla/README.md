# Verification of arc-docker

arc-docker is a daemon that runs GitHub Actions jobs in Docker containers on one host. It
registers a runner scale set with GitHub, receives messages about jobs and demand, creates one
container per runner, and removes the container when its runner is done. This directory holds
TLA+ modules that model the daemon, TLC configurations that check them on small instances, and
proofs, checked by TLAPS, for all values of the constants.

Paths below are relative to `src/`.

## 1. The system

### Components

| component | state it keeps | operations | what makes it correct |
|---|---|---|---|
| runner table `internal/controller/scaler_state.go` | `idle` (queue), `busy`, `protected` (maps), one mutex | `addIdle`, `markBusy`, `takeOwnership`, `takeAllIdle`, `takeAllBusy`, `scaleDownIdle`, `addProtected`, `takeProtected`, `count` | a runner is in one part only and is handed to one caller only; the queue stays in creation order |
| scaler `internal/controller/scaler.go` | the table, one watch goroutine per runner, `watchStopped`, `errCh` | `HandleJobStarted`, `HandleJobCompleted`, `HandleDesiredRunnerCount`, `provision`, `startWatch`, `Recover`, `Shutdown` | no container is forgotten, cleaned up twice, or stopped while it may be executing a job of an earlier process; the limits hold; it stops |
| managed container lifecycle `internal/docker/lifecycle.go`, `managed.go` | none; the state is Docker's | `VerifyManaged`, `RefreshManaged`, `StopManaged`, `CleanupManaged`, `StartManaged`, `ListManaged` | nothing is stopped or removed that is not the controller's; success means that the container is gone |
| docker client `internal/docker/client.go`, `image.go` | negotiated API version | one call each; `ValidateVersions`, `CheckRuntime`, `EnsureImage` | the pull policy; limits on versions |
| scale set client `internal/scaleset/` | system information | `EnsureScaleSet`, `CheckScaleSet`, `GenerateJitRunnerConfig`, the message session | one set per name, also when several controllers start at once; a foreign set is refused; what GitHub answers belongs to what was asked |
| application lifecycle `internal/app/serve.go`, `shutdown.go` | the components opened so far, the listener goroutine, `errCh`, the cancelled context | `startup`, `wait`, `shutdown` | closing order, exit status, readiness; every failure ends the process; a stop ends before Docker's patience does |
| health server `internal/health/server.go` | two flags, `errCh`, `doneCh` | `Start`, `serve`, `Shutdown`, `SetSessionRunning`, `SetListenerRunning`, `Ready` | `/readyz` is true only while the daemon serves; `Shutdown` never hangs |
| check command `internal/app/check.go` | none | `Check` | a check that passes is worth something for the startup after it |
| identity and names `internal/model/` | none | `BuildLabels`, `ValidateLabels`, `SanitizeName`, `RunnerName`, `ContainerName`, `ValidRunnerName` | what one process writes, the next accepts, and nothing else; no two runners share a name |
| configuration `internal/config/` | none; the file of the secret is on disk | `Load`, defaults, secret, `validate`, the rewriting of the Docker settings | what is accepted is what the file says and is of use to all who take it; what is read as secret is what was looked at |
| command line `internal/cli/`, `cmd/` | none | `Run`, `parseArgs`, exit codes | the exit code tells what happened; the path that counts is the last one |
| runner image entrypoint `images/dind-runner-runsc/entrypoint.sh` | two child processes, `shutdown_requested`, `runner_pid` | start `dockerd`, wait for it, run the runner, forward signals, stop both | `dockerd` lives as long as the runner needs it; success is the runner's; PID 1 ends |

### How they interact

`Serve` opens the Docker client, the scale set, the scaler (whose `Recover` runs before anything
else may touch the table), the message session and the health server, and then starts the listener
goroutine. That goroutine is the only caller of the three handlers; each watch goroutine waits for
one container. Handlers, watches, `Recover` and `Shutdown` meet in the table, under its mutex, and
in Docker, which no lock protects and which outlives the process. Errors of goroutines reach the
main goroutine through three channels with room for one error each; `shutdown` cancels the
context, joins the listener, shuts down the scaler (which joins the watches) and closes the rest.

GitHub is beside all that: it registers a runner when asked for its JIT configuration, gives jobs to
runners on its own, and says so later in messages. Inside a runner's container, the entrypoint
starts a Docker daemon for the job and passes signals on.

### What is hard

* Handlers, watches and Docker are concurrent: the container of a runner can end between any two
  calls of the handler that is about to remove it.
* Every call can fail, with its effect carried out or not; a failed removal leaves a container
  that is in no table.
* The process may be killed between any two steps, and the next one has only Docker's list.
* Job events are redelivered and late.
* `Shutdown` must not wait for ever for a runner that it does not stop.
* Startup may end half-way and everything opened so far has to be closed in order.
* A runner may work on a job of which the controller has not heard yet.
* The wait of a watch is a request that stays open as long as its runner lives, read by goroutines
  that must not be left behind.
* Who writes labels, names and container specifications and who checks them are different functions,
  often different processes: what is refused late has been registered already.
* A shell script runs traps between any two commands.

The list with the lines where each of these bites is `hazards` in `PROJECT.json`.

## 2. Modules

| module | models | lines |
|---|---|---|
| `RunnerState` | every method of the table, one operator each, atomic as under the mutex | `scaler_state.go` |
| `DockerScaler` | the scaler in its process, with the containers | `scaler.go` and the phases of `serve.go`, `shutdown.go` |
| `Ownership` | abstract: who is responsible for one runner, and how it changes hands | `scaler_state.go`, `scaler.go` |
| `JobDelivery` | the scaler with GitHub: jobs, messages that are late, lost or repeated, crashes; extends `DockerScaler` | `scaler.go:113-178` |
| `Removal` | abstract: what a removal of one container promises | `scaler.go:240-253` |
| `ManagedCleanup` | detailed: the same removal call by call; implements `Removal` | `lifecycle.go:38-182`, `managed.go:124-171` |
| `ContainerLogs` | the reading of logs, frame by frame | `lifecycle.go:184-254` |
| `Watch` | one watch with the request it waits for and all goroutines that take part | `scaler.go:308-353`, `client.go:165-196` |
| `Provisioning` | the making of one runner, with everything that is validated on the way | `scaler.go:180-238`, `jit.go`, `managed_spec.go`, `validator_*.go` |
| `Identity` | labels: what is written, what is accepted; used by `Provisioning` and `Recovery` | `identity.go` |
| `Recovery` | what startups make of the containers they find, by their labels | `scaler.go:256-287`, `managed.go:80-147` |
| `Names` | the names of runners and containers | `names.go` |
| `Lifecycle` | abstract: the order in which `Serve` uses the scaler | `serve.go:46-72`, `shutdown.go:29-94` |
| `HealthServer` | flags and life of the health server | `health/server.go` |
| `App` | detailed: `Serve` with `startup`, `wait`, `shutdown` and the goroutines beside it; composes `HealthServer`, implements `Lifecycle` | `serve.go`, `shutdown.go` |
| `ShutdownTiming` | the deadlines of a stop as numbers | `shutdown.go`, contexts of `scaler.go` |
| `Preflight` | the checks of `startup` and the command `check`, with image and scale set | `check.go`, `image.go`, `scaleset.go`, `client.go:94-134` |
| `Configuration` | `Load` step by step, the secret's file under other hands | `load.go`, `defaults.go`, `types*.go`, `validate.go`, `secret_linux.go` |
| `HostConfig` | the rewriting and decoding of the Docker settings | `host_config.go` |
| `CommandLine` | arguments, commands, exit codes | `cli.go`, `main.go` |
| `DindEntrypoint` | the script of the runner image, its traps and children | `entrypoint.sh` |
| `RunnerLife` | one place for the machines of a runner's container (`ManagedCleanup`, `Watch`, `Provisioning`, `ContainerLogs`, `Recovery`), with their variables and what they promise | |
| `Startup` | the same for a start: `Preflight`, `Configuration`, `CommandLine`, `Names` | |
| `*Proofs` | the theorems about the module of that name | |
| `MCRunner`, `MCStartup` | `RunnerLife` and `Startup` made one machine for a run of TLC, with values for the constants | |
| `MCConfiguration`, `MCHostConfig` | what is in the files | |

`DockerScaler` extends `RunnerState`, `JobDelivery` extends `DockerScaler`, `App` extends
`HealthServer`, `Recovery` and `Provisioning` extend `Identity`, `RunnerLife` extends
`ManagedCleanup`, `Startup` extends `Preflight`. The modules lean on each other in
these places:

* `DockerScaler` implements `Ownership` once for every runner: `Owned(r)` instantiates it with the
  container of `r` and the set of those who hold `r`, which `Holdings` reads off the table and the local
  variables of the goroutines.
* `DockerScaler` takes a removal to be the steps `StopManaged`, then `Removed` or `NotRemoved`;
  `ManagedCleanup` shows that the calls of the code are such steps (refinement of `Removal`).
* `DockerScaler` takes the process to run Recover, handlers and Shutdown in order; `App` shows that
  `Serve` keeps that order (refinement of `Lifecycle`), and `DockerScaler` is proved to be used in no
  other (`CallsInOrder`, a refinement of the same module): `recover`, `serve`, `stop` of `mode` are its
  phases, `join` to `exit` its phase `shutdown`, `hpc # "off"` its `listening`.
* `DockerScaler` takes the list of `Recover` to be right (`Recovery`), a watch to be one step that
  ends (`Watch`), a provisioning to be two steps (`Provisioning`), any message to come at any time
  (`JobDelivery` has the ones GitHub writes). `Preflight` takes a configuration that was accepted
  (`Configuration`), `Provisioning` names that are valid (`Names`). These are by reading.

Definitions named "Mutant" are plausible bugs. They are in no specification; each is the evidence
that a property would notice the bug it stands for.

### RunnerState and DockerScaler

* A `runnerRef` is a number: runners are numbered in the order in which their containers are
  created, which makes "oldest" the order of numbers. The two maps are sets.
* `container[r]` is what Docker would say: `none`, `created`, `running`, `exited`, `gone`. `running`
  includes paused and restarting, which the code treats the same way (`needsStop`, the default
  branch of `Recover`), `exited` includes dead. The restart policy is the default "no".
* A handler is a sequence of steps of `hpc`, cut wherever the mutex is released or Docker is
  called: `HandleDesiredRunnerCount` reads the count in one step and acts on it in later ones.
* The listener delivers at most one job event and then the demand, as the message loop of the
  library does; a longer batch is several messages. Events name any runner that ever was.
* Every call of a watch, a handler or `Shutdown` may fail, with or without its effect. An
  abandoned create or start call takes effect before the next step or not at all.
* `raised` is the set of sources of the errors this process has reported. A later error of a
  source adds nothing, as the channel keeps the first only.
* `ProcessEnds` (an exit, a timeout of a join, a crash at any point) forgets the table and all
  goroutines and keeps the containers; `Launch` starts the next process, which runs `Recover`.
* A signal during startup shows as a failed call of startup (`StartupFails`).

### Removal and ManagedCleanup

One container, other clients of Docker that stop, pause, restart and remove it or move its name to
another, and the calls of one removal, in which each inspect is a step of its own. Without
`force`, Docker refuses to remove a running container; that is the assumption about it.
`labels` turns `foreign` at most once: the second change would only bring the state back.

### App, HealthServer and Lifecycle

`main` is the step of the main goroutine. A component is `none`, `open` or `closed`, the scaler
`running`, `stopping` or `stopped`. Startup may fail at each of its steps, with a session that was
opened and a listener that was not built among the outcomes. The timers are not modelled: a join may
time out at any time, also when what it joins has just ended, as `select` may choose. A channel
holds `empty`, `nil` or `error`; context.Canceled counts as `nil` for `wait` ignores both. The
listener library is external: it calls handlers one after the other, and returns an error at any
time, or the cancelled context between two handlers. At the end of `Serve` the process is gone.

### Preflight

`world` is what Docker and GitHub would answer: seven facts that others may change at any time, and
that pulls and the creation of the set change. A program is at one of its calls; each call may get
no answer. `unchanged` and `promise` are history: whether somebody else has touched the world
since the program began, and what a check that had passed then says to a startup. Another
controller that creates the set at the worst moment does not count as a disturbance. GitHub is
taken to enforce one set per name and to answer a creation with the set that was asked for.
Credentials and the dummy runner specification depend on the configuration alone and are left out.

### JobDelivery

`job[j]` is GitHub's, `runnerOf[j]` the runner that took it, `news` what GitHub has not yet written
in a message, `message` the one the listener is handling: its events and the number of jobs assigned
when it was written. A runner takes a job without the controller, and ends after it. What was not
handled of a message when the process is killed comes again or does not. The handlers are those of
`DockerScaler`; Docker makes no errors here, and nobody asks the process to stop.

### ContainerLogs, Watch, Provisioning, Identity and Recovery

* `ContainerLogs`: two streams in one, cut in frames of any length; bytes are numbered.
* `Watch`: the goroutine of `startWatch` (`watch`), the one of the Docker client that reads the answer
  (`sdk`), the one `WaitContainer` leaves behind to take what is still sent (`drain`), the buffered
  channel of errors (`errC`); the unbuffered one is a step that both sides take. Beside them the
  runner, the completion of its job, the shutdown, and a clock for the timeout of the HTTP client.
* `Provisioning`: GitHub's answer may be wrong in any part; `refused` is the error of a local check,
  `failed` that of a call.
* `Identity`: of a label, what the functions tell apart: how a number is written, whether a time is
  written as the code writes it.
* `Recovery`: any labels on any container, a process that fails at any call and is started again.

### Names, Configuration, HostConfig and CommandLine

* `Names`: names are sequences of characters, the limits are constants; the machine writes the name
  of a scale set character by character. The functions are the ones of the source.
* `Configuration`: of a text, whether it is empty, has blanks around it, is acceptable where it
  stands or is the default. An optional value is a sequence of at most one. The file of the secret
  can be replaced and can grow between the calls.
* `HostConfig`: YAML trees and Go types as records; an operator writes a file line by line. The types
  are an excerpt of Docker's with one field of every kind.
* `CommandLine`: an operator types a line, which is run.

### DindEntrypoint and ShutdownTiming

`pc` of `DindEntrypoint` is the command the script is about to run; between two commands a trap may
run, children may end, and Docker may kill all. A builtin `wait` is left when a trap has run in it.
The turns of the loops are counted down in `seconds`.

`ShutdownTiming` starts at the signal, in the middle of any work. Computing takes no time, every call
ends at any time up to the deadline of its context.

### MCRunner and MCStartup

These join machines that have nothing to do with each other in one run. A behaviour has one `part`
that moves and leaves the variables of the others as they are, so that the states are the sum and
not the product of theirs: the interleaving of machines that share nothing shows nothing. Parts
that do not move are in an initial state or in a final one, whichever makes the fairness of their
specification, and invariants that are not guarded by `part`, hold of them as they should.

## 3. Runs

| run | configuration | states | what it shows |
|---|---|---|---|
| `leave` | 3 containers, bounds 1..2, demand up to 3, policy leave | 375 375 | safety of the scaler over crashes and restarts |
| `stop` | 2 containers, bounds 0..2, policy stop, fairness | 32 322 | who owns a runner, under policy stop, and liveness |
| `jobs` | 2 jobs, 3 runners of which 2 at a time, one crash, fairness | 155 743 | jobs that began go on, jobs that wait begin |
| `cleanup` | one container; a watch with 3 ticks of timeout and lifetimes up to 4; any answer of GitHub; streams of up to 4 bytes; two containers with 6 kinds of labels, and one with labels damaged in up to two places | 48 518 | a runner's container is made, watched, read, removed and found again as it should |
| `app` | 2 watches, fairness | 8 166 | readiness, closing order, exit status, and that the process stops |
| `stoptime` | the default deadlines in ticks of ten seconds, messages of up to 2 calls | 57 893 | a stop ends within the time Docker grants |
| `preflight` | every setting and every initial world; configurations with up to two changes; Docker settings of up to 3 lines; names of up to 5 characters; lines of up to 4 arguments | 828 412 | what a start accepts is of use, and a check predicts it |
| `entrypoint` | 2 turns of each loop, codes 0, 1 and 143, fairness | 2 243 | the script under signals at every command |
| `demand`, `jobrace`, `watchlong`, `configurl` | small instances | found early | disagreements of code and comments (see Findings) |

The numbers of `cleanup` and `preflight` are sums over their parts.

### Properties

Scaler (`leave`, `stop`):

* `OneOwner`: at most one goroutine cleans up a runner, and none while the table holds it.
* `NoSilentOrphan`: as long as no error was reported, every live container is in the table or in the
  hands of a goroutine that will put it there or remove it. Containers of earlier processes are
  included, through the list of `Recover`.
* `TableIsWatched`: what is in the table has a live watch, or the loss was reported.
* `AdoptedNotStopped`: no removal works on an adopted runner whose container runs.
* `OldestFirst`: scale-down takes runners in creation order, whatever events and watches take out of
  the middle of the queue.
* `CapacityRespected`: table plus what the provisioning loop still owes stays within `maxRunners`,
  although the loop runs for minutes on a count read before it.
* `CleanExit`: after an error-free `Shutdown`, only what the policy leaves is alive. Errors of watches
  and of the listener that are raised while stopping count as reported, although nobody reads their
  channel any more; about such ends `CleanExit` says nothing. The run has policy leave, the theorem both.
* `BusyKept` (action property): a busy runner whose container runs leaves the table only to
  `JobCompleted`, to `Shutdown` under policy stop, or with the process.
* `OwnershipKept` (refinement of `Ownership`, once per runner): a runner has at most one owner; it goes
  from provisioning into the table and out of it to one handler, its watch or the main goroutine, an
  adopted one to its watch only; it does not come back; it is let go when its container is gone or an
  error is reported, and begins anew on the list of the next process.
* `ExitedRunnerRemoved`, `ProcessStops` (liveness).

Jobs (`jobs`), with GitHub as the environment:

* `StartedJobsGoOn` (action property): a job on a runner that is busy or adopted goes on to its end,
  whatever late, repeated or other message comes.
* `EveryJobStarts` (liveness): a job that waits is taken or canceled, as long as the model has runners
  left to make. Whoever stands in the table and does not work would prevent it.

Removal (`cleanup`): `RemovalPromised` (refinement of `Removal`), `AtMostOneStray` (at most the one
request whose label check had passed before the change reaches a container that is not ours).

Life of a container (`cleanup`). The invariants are conjunctions; the parts are stated in the modules:

* `WatchSafe`: a watch removes only a container that has ended and only if nobody else took the runner
  (`RemovesWhatHasEnded`); a runner it leaves in the table is left to a shutdown or reported
  (`NoneUnwatched`); it reports only when Docker failed or the HTTP timeout struck.
* `CancelEndsAll` (liveness): after the cancellation the watch ends, with both goroutines of the wait.
* `ProvisionSafe`: after GitHub has registered a runner no local check refuses a right answer
  (`NoLateRefusal`); a wrong answer makes no container (`OnlyWhatWasAskedFor`); a container that was
  made is found by the next startup (`FoundByItsLabels`).
* `LogsSafe`: the beginning of each stream is kept, up to its limit, and all is read.
* `RecoverySafe`: no container is touched that does not carry, label by label, what a controller of
  this scale set writes (`OursOnly`); a startup that is through has adopted or removed all others
  (`NothingPassedOver`).
* `RecoversInTheEnd` (liveness): without damaged labels some startup gets through. In particular, what
  `BuildLabels` writes `ValidateLabels` accepts.

Application (`app`): `NotReadyOnceStopping`, `ReadyMeansServing`, `ClosedAfterUse`, `StatusTruthful`,
`LifecycleKept` (refinement of `Lifecycle`), `ProcessStops` (liveness, and with it that no channel
or join blocks shutdown).

Stop (`stoptime`): `ExitsInTime`: whatever was under way, the sum of all deadlines stays within
`StopGracePeriod`, the eight minutes of `README.md:29`; `StopEnds` (liveness).

Startup (`preflight`):

* `PassedIsUsable`, `CheckPredictsStartup`: the checks against Docker and GitHub.
* `AcceptedIsSound`: what is accepted passes the checks of everybody who uses it later
  (`AcceptedIsUsable`); a default stands in only for what was omitted (`ExplicitIsKept`); there is one
  way to authenticate, and it is complete (`OneCredential`).
* `SecretIsWhatWasChecked`: what is read is of the file that was looked at, and not too long.
* `HostConfigSafe`: a file of Docker settings arrives as it was written or is refused for a mistake;
  nothing is lost (`SettingsArrive`, `RefusedIfWrong`, against a definition without any rewriting).
* `NamesSafe`: what is left of a name is in normal form (`SanitizedIsNormal`); a runner name that is
  generated passes the check made of it (`GeneratedNamesAreValid`); a container name is accepted by
  Docker and keeps to the limit (`ContainerNamesFit`), and gives back the number of its runner and its
  suffix, however much of the scale set's name was cut off (`RunnersAreToldApart`). A scale set without
  a name is refused before (`validate.go:22`).
* `CommandLineSafe`: `ExitTells`, `LastPathIsLoaded`.

Entrypoint (`entrypoint`):

* `EarlySignalPreventsRunner`: a signal that was seen before the last look keeps the runner from being
  started.
* `SuccessIsReal`: status 0 is the runner's own.
* `DockerdLifetime`: `dockerd` is told nothing while the runner runs, and is ended on every way out.
* `EndsWithRunner` (liveness): PID 1 ends after the runner, and the wait for `dockerd` ends.

### Bounds

* `NumRunners = 3` counts containers over the whole behaviour, restarts included. Two live runners
  and one more suffice for: one adopted, one idle, one leaving; a queue from the middle of which a
  runner is taken; a scale-down of two with a failure at the first; an orphan beside new runners.
  With 4 the run has more than three million states and no new kind of state. The proofs do not
  depend on the bound.
* `MaxRunners = 2 < NumRunners` makes the capacity matter, `MaxJobs = 3 > MaxRunners` the clamp;
  `MinRunners` is 1 in one run and 0 in the other.
* `MaxWatches = 2`: one watch may fail while the other runs, and find the channel full.
* `ManagedCleanup`, `Preflight` and `Provisioning` are finite by themselves, apart from `strays`,
  which the property bounds.
* `JobDelivery`: two jobs may wait, run and end beside each other; a third runner may replace one;
  one crash makes runners adopted. `EveryJobStarts` says nothing once the third has been made, for
  the model has no further number to give.
* `Watch`: a lifetime beyond the timeout. `ContainerLogs`: limits below, at and above what is sent,
  and the default. `Recovery`: two containers are enough for an order and for one that is ours
  beside one that is not; damage in two places of six lets one label be wrong while another hides it.
* `ShutdownTiming`: a message of two calls is one more than the join waits for. Longer messages only
  add calls that a timeout of the join leaves behind.
* `Names`: a limit of 12 leaves two to four characters to the name of the scale set, which has up to
  five, so that it is cut at every place, punctuation included; numbers of one, two and three digits.
* `Configuration`: each value may be wrong in every way alone, and two together where one check
  depends on the other (scope, credentials, the maximum). `HostConfig`: two lines that meet in one
  embedded struct and one more. `CommandLine`: a path before the command, the command, and a flag with
  a value after it.
* `DindEntrypoint`: a deadline that passes and one that does not. The proofs do not depend on it.

### Fairness

* `DockerScaler`: a goroutine that can run does run, and each call to Docker and GitHub ends, because
  each has a context with a deadline or the HTTP client's timeout; hence weak fairness of the steps
  of watches, handlers, `Recover` and `Shutdown`, of `FatalError` (the main goroutine reads the
  channels) and of the cancelled listener. A wait for a container ends for certain only when the
  context of the watches is cancelled. No fairness for signals, crashes, new processes, messages,
  exits of containers, failures, and timeouts of joins.
* `App`: weak fairness of the main goroutine as a whole: its calls and joins have deadlines, so that
  some branch, at worst the timeout, is taken. The goroutine of the health server is fair, except
  that a server which nobody has told to stop need not fail. No fairness for handlers, watches and
  `listener.Run`: the process must stop even if they never return, and does, by the timeouts.

* `Watch`: goroutines that can go on do, and a request ends once its context does. Nothing is assumed
  of runners, jobs or the shutdown.
* `Recovery`: strong fairness of the calls, since any of them may fail again and again but none of
  them does so for ever, and weak fairness of the start, since Docker restarts the daemon
  (`README.md:28`, `restart: on-failure`).
* `JobDelivery`: the goroutines of the scaler as above; GitHub gives a waiting job to some runner that
  listens, jobs end, runners end after their job, and a process that crashed is started again.
* `ShutdownTiming`: time passes, a call ends at its deadline, the main goroutine runs on.
* `DindEntrypoint`: the script runs on, and a process that is sent KILL ends. `dockerd` need not
  answer, nor obey TERM, and the runner need not end.

`CHECK_DEADLOCK FALSE` is set where the system ends: where `Serve` has returned (`App.cfg`,
`ShutdownTiming.cfg`), PID 1 has exited (`DindEntrypoint.cfg`), a removal, a watch, a provisioning or
a reading has returned (`MCRunner.cfg`, `Watch_long.cfg`), a file or a line is read and a name is
written (`MCStartup.cfg`, `Configuration_url.cfg`); and in `JobDelivery*.cfg`, where the third runner
is the last that can be made. In the other runs deadlock is checked.

### Findings

`demand`: `MovesTowardDemand` states the comment of `HandleDesiredRunnerCount` (`scaler.go:113`,
"moves the runner count toward demand") for a scale-down. The count is read at line 116, a watch
releases a runner whose container has exited, and line 139 then removes `desired - current` of the
old count, so that fewer runners than demanded are left. The next message repairs it. In the same way
the queue may be scaled up beside a runner that is about to leave; `CapacityRespected` shows that this
never exceeds the maximum.

`jobrace`: `RemovesOnlyIdle`. A runner takes a job after GitHub has written a message with less
demand; the table still has it as idle, and the scale-down stops it with its job. The message about
the job comes later. Nothing in the code asks GitHub or Docker whether the runner is at work.

`watchlong`: `ReportsOnlyFaults`. The HTTP client of the daemon has a timeout of 30 minutes for a
request and its answer (`serve.go:25`, chosen for image pulls), and the wait of a watch is such a
request. A runner that lives longer makes its watch report an error, which ends the daemon, though
nothing is wrong with runner or Docker. A restarted daemon adopts the runner, and its new watch has
the same timeout.

`configurl`: `AcceptedNamesOwner`. `validateGitHubURL` looks at query and fragment, which are empty
for a URL that ends in a bare `?` or `#`; `GitHubConfigURL` appends the owner behind it.

Other places where code and comment differ, seen while modelling and left without a run:

* `entrypoint.sh:182-191`: a signal between the last look at `shutdown_requested` and the assignment of
  `runner_pid` is forwarded to nobody, against the comment at line 46.
* `entrypoint.sh:200`: a trap interrupts `wait` just before the runner ends; the container exits with
  the signal's code, against the comment at line 193. It never exits with 0 that way (`SuccessIsReal`).
* `scaler.go:122-131`: the context is looked at before the loop and not between its turns, so that
  further runners are made after "Stop new work" (`shutdown.go:39`). With many of them the join times
  out; the theorem `SingleCallIsJoined` says that it does not with one call.
* `managed.go:185`: the list has creation times in whole seconds, so that containers of one second are
  ordered by their random IDs, against "in creation order" at line 80.

## 4. Proofs

The theorems are listed in `PROJECT.json`. All safety properties of the passing runs but one
(`HostConfigSafe`) are proved for all values of the constants that satisfy the named assumptions. The type invariants are proved, too, and therefore not among the properties of the runs.

The assumptions say no more than that the constants are what their comments call them:
`BoundsAssumption` (bounds are natural numbers; not even `MinRunners <= MaxRunners` is needed),
`PolicyAssumption` (leave or stop), `MaxWatchesAssumption`, `JobBoundsAssumption` (as many jobs as a
message may announce), the assumptions of `RunnerLife` on bytes, times, containers and scale sets,
`RawConfigsAssumption` and `LimitsAssumption` (typed configurations, positive limits),
`CodesAssumption` (0..255), `MaxCallsAssumption`, `TimeoutsAssumption` (positive) and
`StopGracePeriodAssumption` (join, scaler, health server and session together fit into what Docker
grants). `CommandLine` needs none: its lines may have any length. Where a module has fixed sets of data
(the arguments of a line, the numbers in an answer of GitHub, the settings of `Configuration`), the
theorems are about those data.

`NamesAssumption` collects what `Names` takes for granted: characters of the alphabet, positive
numbers, long enough random suffixes of hexadecimal digits (32 of them, `scaler.go:185`), a prefix
that begins with a letter or digit, and room for a number (`RoomAssumption`). In the source the last is
6 (`ghadc-`) + 13 (the digits of a number of 64 bits to the base 36) + 8 (of the suffix) + 4 <= 63; without
it a container's name would exceed its limit.

* `RunnerStateProofs`: what the operators of the table do to its sets and to the order of the queue
  (`MarkBusyEffect`, `TakeOwnershipEffect`, `ScaleDownIdleEffect`, and lemmas on increasing sequences).
* `DockerScalerProofs`: the invariant `IndInv`. None of the properties is inductive: that one
  goroutine owns a runner needs to know which phases exclude each other (`ModeInv`), what the
  handler's locals mean at each of its steps (`HandlerInv`), that a new container has a fresh number
  (`FreshInv`), that the queue is ordered (`OrderInv`) and that adopted runners are dealt with by
  `Recover` and their watches alone (`AdoptInv`). To avoid one proof per action and conjunct,
  `StepKinds` says that each step leaves the claims as they are or drops some (`Quiet`, `Drops`) or
  hands one runner from one holder to the next (`Moves`); `OneOwner` and `NoSilentOrphan` follow from
  that. `CapacityAlwaysRespected` is a counting argument: `Count` is the cardinality of the table
  (`CountIsCardinality`), every step of another goroutine lowers it or leaves it, and each turn of
  the loop raises it by one and lowers what is pending by one. The bound also holds relative to the
  adopted runners, which `Recover` adds beyond `maxRunners` if it must. `CallsInOrder` divides the
  steps into those of the main goroutine, each a step of `Lifecycle`, and all others, which leave the
  phase alone and never begin to listen.
  `OwnershipIsKept` is the refinement of `Ownership`, for every runner at once. It needs `OwnInv`, which
  is `IndInv` and that the runner in the hands of Recover's or Shutdown's loop is no longer among those
  ahead of it (`AtHandInv`); without it one runner would have two roles in one goroutine. Then whoever
  holds a runner is its only holder (`HeldOnce`), before and after a step, and each step is one of
  a few kinds: it leaves the holders alone (`StaysStep`), makes one the next (`PassStep`) or leaves none
  (`LetGoStep`, `GivesUp`). `TakenOnce` reads off the abstract steps that a removal is final.
* `JobDeliveryProofs`: what the scaler does with GitHub's messages is a step of `DockerScaler`, or goes
  from one event of a message to the next and keeps `IndInv` and `CapacityInv`; hence
  `ScalerSafeAmongJobs`, which repeats the safety of the scaler among GitHub's messages. For
  `StartedJobsAlwaysGoOn` GitHub's side has an invariant of its own (`JobInv`): each runner has at most
  one job, and what is announced as completed, now or in a message not yet written, has ended. So a
  completion that is late or comes twice never hits the runner of a running job.
* `RunnerLifeProofs`: every call of `ManagedCleanup` is a step of `Removal` or a stutter, and
  `CheckedBefore` ties the number of stray requests to the step of the removal. `WatchIsSafe` rests on
  what the request, its channels and the watch know of each other at each step; `ProvisionIsSafe` on
  what has been validated by then of answer and specification; `LogsAreSafe` on how much of each stream
  has been read and kept; `RecoveryIsSafe` on the list being complete, and on what is off the list
  being dealt with or not ours. Each has an invariant named for its machine.
* `AppProofs`: what is open (`OpenInv`), joined (`JoinInv`) and known (`CauseInv`, `FlagsInv`) at each
  step of the main goroutine; from these the safety properties and `LifecycleKept`.
* `StartupProofs`, in four parts.
  The checks: which facts each program has established at each of its steps, and why it can only be at
  the steps it is at (`StepsNeeded`).
  The configuration: `ConfigInv` says what `Load` has at each step (`LoadKnows`: the file decoded and
  resolved, the credentials looked at) and by what an accepted configuration was accepted
  (`AcceptedBy`); `AcceptedIsSound` is then a matter of the pure functions (`ExplicitKept`,
  `TimeoutsPositive`, `AcceptedUsable`, `AcceptedAuthenticated`).
  The command line, `LineIsFollowed`: induction over the arguments. The library's induction theorems
  take an operator as a parameter and cannot be used; `SetInduction` says the same of a set of numbers
  and is proved from the well-foundedness of the natural numbers. By it, the two recursive functions
  (the parser, and the roles of arguments in the property) are shown to exist and so to satisfy their
  equations (`ParserDef`, `RolesDef`), and `AllParsed` shows, from the end of the line back, that the
  parser ends with the path that is named last. `MovedMeans` does the same for a path before the
  command, which is moved behind it.
  The names, `NamesAreNeverRefused`. The loops of the source are recursive functions (`Loop`, `Only`, the
  digits of `RunnerIDBase36`), which again exist by `SetInduction` and satisfy their equations (`LoopDef`,
  `KeptDef`, `NumeralsDef`). Along the loop of `SanitizeName` two things are carried: what it has written
  has the letters and digits it has met, in their order (`LoopKeeps`), and never more characters
  (`LoopLength`); a name in normal form goes through it unchanged (`LoopOfName`), hence normalizing
  twice is normalizing once. A numeral begins with the numeral of the quotient, which has one digit less,
  so two numbers with the same numeral are the same (`NumeralsDiffer`). In a container's name the last
  two dashes are those around the suffix, for neither numeral nor suffix has one (`LastTwoDashes`).
* `DindEntrypointProofs`: `TypeCorrect`, `EarlySignalPrevents`, `SuccessCorrect` and `DockerdLives`,
  for any length of the loops and any codes of the runner. What the properties need beside
  themselves is what `pc` says of the children (`RunnerInv`, `DockerdInv`): before the gate there is
  no runner, `dockerd` is sent nothing before the cleanup, and the cleanup is reached with the runner
  ended or never begun; and where an early request (`EarlyInv`), a wait (`WokenInv`) and a status
  (`StatusInv`) can have come from.
* `ShutdownTimingProofs`: what has passed since the signal and what is left of the phase never exceed
  what the phases up to this one may take (`TimeInv`), hence `StopKeepsTime`. What was under way at
  the signal has less time left than the join (`WorkInv`), hence `SingleCallIsJoined`: the join gives
  up only after a further call began. Both for messages of any length.

The invariants were checked by TLC on the instances of the runs before they were proved.

Only model-checked:

* the liveness properties (`ExitedRunnerRemoved`, `ProcessStops`, `CancelEndsAll`, `RecoversInTheEnd`,
  `EveryJobStarts`, `StopEnds`, `EndsWithRunner`), which the proof system does not reach;
* `HostConfigSafe`: `HostConfig` is recursive over trees, as its source, with operators that the proof
  system cannot reason about;
* the counterexamples of the four findings.

## 5. What is not modelled

* Texts: what is printed and logged, error messages and their redaction, the syntax of durations,
  URLs, versions and YAML beyond the classes that the functions tell apart, kinds of YAML scalars.
* The adaptor of the message session (`listener_client.go`): it delegates and redacts. The listener
  library itself, GitHub and Docker are environments, modelled from what the code expects of them.
* Calls of the Docker client that only delegate (`client.go`), and the parsing of version strings;
  hence "partly". The comparison of versions is one fact of the world in `Preflight`.
* The credentials and the dummy specification of `check`: functions of the configuration alone.
* The finding of the network device and address in the entrypoint: one step that may fail.
* The acknowledgement of messages: a crash loses or repeats what was not handled, in any way.
* Deadlines as numbers, outside `ShutdownTiming` and `Watch`: a timeout may strike at any time where
  the code has one.

## 6. Plan

Done: all modules above, and the proofs of section 4.

Next: the acknowledgement of messages (`GetMessage`, `DeleteMessage`) beside the handlers, so that what
a failed handler leaves to the next session is part of the model.
