--------------------------- MODULE DockerScaler ----------------------------
(***************************************************************************)
(* internal/controller/scaler.go in the process that runs it: the          *)
(* listener goroutine calling the three handlers, one watch goroutine per  *)
(* runner, Recover at startup, Shutdown at the end, and the Docker         *)
(* containers, which outlive the process.                                  *)
(*                                                                         *)
(* A removal (removeRunner, or CleanupManaged called directly) is three    *)
(* kinds of step: StopManaged while the container runs, then the end of    *)
(* the call, with or without an error.  ManagedCleanup.tla has its calls.  *)
(***************************************************************************)
EXTENDS RunnerState

CONSTANTS
  NumRunners,     \* bound: containers created over the whole behaviour
  MinRunners,     \* scaleSet.minRunners
  MaxRunners,     \* scaleSet.maxRunners
  MaxJobs,        \* bound: jobs a message may announce
  BusyPolicy      \* shutdown.busyRunnerPolicy

ASSUME BoundsAssumption ==
  /\ NumRunners \in Nat
  /\ MinRunners \in Nat
  /\ MaxRunners \in Nat
  /\ MaxJobs \in Nat

ASSUME PolicyAssumption == BusyPolicy \in {"leave", "stop"}

(* Runners are numbered in the order in which their containers are created. *)
Runners  == 1 .. NumRunners
NoRunner == 0

VARIABLES
  container,     \* Docker's state of each runner's container
  made,          \* number of containers created so far
  watch,         \* where the watch goroutine of each runner is
  adopted,       \* runners whose watch was started with protected = true
  watchStopped,  \* the flag of that name; its watchCtx is cancelled with it
  hpc,           \* where the listener goroutine is; "off" when it has returned
  desired,       \* HandleDesiredRunnerCount: the local of that name
  current,       \* HandleDesiredRunnerCount: the local of that name
  left,          \* HandleDesiredRunnerCount: runners still to provision
  cur,           \* provision: the runner at hand
  refs,          \* the runners a handler took and has still to remove
  mode,          \* phase of the process
  listed,        \* Recover: listed containers still to look at
  rcur,          \* Recover: the container CleanupManaged is called for
  srefs,         \* Shutdown: runners taken and not yet removed
  scur,          \* Shutdown: the runner being removed
  raised         \* sources of the errors this process has reported

docker  == <<container, made>>
watches == <<watch, adopted, watchStopped>>
handler == <<hpc, desired, current, left, cur, refs>>
phase   == <<mode, listed, rcur, srefs, scur>>
vars    == <<runnerState, docker, watches, handler, phase, raised>>

Live == {"created", "running", "exited"}

WatchStates == {"none", "wait", "exited", "missing", "remove", "done"}

HandlerStates == {"off", "poll", "event", "complete", "desired", "create",
                  "start", "undo", "register", "watch", "down", "remove"}

Modes == {"down", "recover", "serve", "stop", "join", "clean", "cleanBusy", "exit"}

TypeOK ==
  /\ idle \in Seq(Runners)
  /\ busy \in SUBSET Runners
  /\ protected \in SUBSET Runners
  /\ container \in [Runners -> Live \cup {"none", "gone"}]
  /\ made \in 0 .. NumRunners
  /\ watch \in [Runners -> WatchStates]
  /\ adopted \in SUBSET Runners
  /\ watchStopped \in BOOLEAN
  /\ hpc \in HandlerStates
  /\ desired \in Nat /\ current \in Nat /\ left \in Nat
  /\ cur \in Runners \cup {NoRunner}
  /\ refs \in Seq(Runners)
  /\ mode \in Modes
  /\ listed \in SUBSET Runners
  /\ rcur \in Runners \cup {NoRunner}
  /\ srefs \in SUBSET Runners
  /\ scur \in Runners \cup {NoRunner}
  /\ raised \in SUBSET {"startup", "listener", "watch", "shutdown"}

Init ==
  /\ NewRunnerState
  /\ container = [r \in Runners |-> "none"] /\ made = 0
  /\ watch = [r \in Runners |-> "none"] /\ adopted = {} /\ watchStopped = FALSE
  /\ hpc = "off" /\ desired = 0 /\ current = 0 /\ left = 0
  /\ cur = NoRunner /\ refs = <<>>
  /\ mode = "down" /\ listed = {} /\ rcur = NoRunner
  /\ srefs = {} /\ scur = NoRunner
  /\ raised = {}

-----------------------------------------------------------------------------
(* The Docker daemon.  A runner's process may end at any time, and an       *)
(* operator may remove a container behind the controller's back.            *)

ContainerExits(r) ==
  /\ container[r] = "running"
  /\ container' = [container EXCEPT ![r] = "exited"]
  /\ UNCHANGED <<runnerState, made, watches, handler, phase, raised>>

ContainerVanishes(r) ==
  /\ container[r] \in Live
  /\ container' = [container EXCEPT ![r] = "gone"]
  /\ UNCHANGED <<runnerState, made, watches, handler, phase, raised>>

(* The runners some call of CleanupManaged is working on. *)
Removing ==
  {r \in Runners : watch[r] = "remove"}
    \cup (IF hpc \in {"complete", "remove"} THEN {Head(refs)} ELSE {})
    \cup (IF hpc = "undo" THEN {cur} ELSE {})
    \cup ({rcur, scur} \ {NoRunner})

(* The stop request of a removal; the container is stopped by the time the  *)
(* WaitContainer behind it returns.                                         *)
StopManaged(r) ==
  /\ r \in Removing
  /\ container[r] = "running"
  /\ container' = [container EXCEPT ![r] = "exited"]
  /\ UNCHANGED <<runnerState, made, watches, handler, phase, raised>>

(* A removal returns nil: the container was removed, or was found missing.  *)
Removed(r) ==
  /\ container[r] # "running"
  /\ container' = [container EXCEPT ![r] = "gone"]

(* A removal returns an error: at any of its calls, the last one included,  *)
(* whose effect the daemon may have carried out nevertheless.               *)
NotRemoved(r) ==
  container' \in {container, [container EXCEPT ![r] = "gone"]}

-----------------------------------------------------------------------------
(* The watch goroutines. *)

\* Mutant: the goroutine is not started.
StartNoWatch(r) == watch' = watch

(* startWatch: registers the goroutine unless Shutdown has begun to wait.   *)
StartWatch(r) ==
  watch' = IF watchStopped THEN watch ELSE [watch EXCEPT ![r] = "wait"]

(* WaitContainer returns: the container is not running, or not there.  The  *)
(* wait on a container that is removed while it runs may end either way.    *)
WaitReturns(r) ==
  /\ watch[r] = "wait"
  /\ \/ /\ container[r] \in {"exited", "gone"}
        /\ watch' = [watch EXCEPT ![r] = "exited"]
     \/ /\ container[r] = "gone"
        /\ watch' = [watch EXCEPT ![r] = "missing"]
  /\ UNCHANGED <<runnerState, docker, adopted, watchStopped, handler, phase, raised>>

\* Mutant: the failure is logged, not reported.
WaitFailsSilently(r) ==
  /\ watch[r] = "wait"
  /\ watch' = [watch EXCEPT ![r] = "done"]
  /\ UNCHANGED <<runnerState, docker, adopted, watchStopped, handler, phase, raised>>

\* Mutant: WaitContainer is called with a context Shutdown does not cancel.
WaitFailsUncancelled(r) ==
  /\ watch[r] = "wait"
  /\ ~watchStopped
  /\ watch' = [watch EXCEPT ![r] = "done"]
  /\ raised' = raised \cup {"watch"}
  /\ UNCHANGED <<runnerState, docker, adopted, watchStopped, handler, phase>>

(* WaitContainer fails otherwise: the runner stays in the table, unwatched, *)
(* and notifyError reports it, unless the failure is the cancelled context. *)
WaitFails(r) ==
  /\ watch[r] = "wait"
  /\ watch' = [watch EXCEPT ![r] = "done"]
  /\ raised' = IF watchStopped THEN raised ELSE raised \cup {"watch"}
  /\ UNCHANGED <<runnerState, docker, adopted, watchStopped, handler, phase>>

(* A missing container with the context cancelled: back without a release.  *)
WatchReturns(r) ==
  /\ watch[r] = "missing"
  /\ watchStopped
  /\ watch' = [watch EXCEPT ![r] = "done"]
  /\ UNCHANGED <<runnerState, docker, adopted, watchStopped, handler, phase, raised>>

WatchOwns(r) == IF r \in adopted THEN r \in protected ELSE Owns(r)

(* releaseWatchOwnership, with the branch on its result.                    *)
ReleaseWatchOwnership(r) ==
  /\ watch[r] \in {"exited", "missing"}
  /\ \/ r \in adopted /\ TakeProtected(r)
     \/ r \notin adopted /\ TakeOwnership(r)
  /\ watch' = [watch EXCEPT ![r] =
                 IF watch[r] = "exited" /\ WatchOwns(r) THEN "remove" ELSE "done"]
  /\ UNCHANGED <<docker, adopted, watchStopped, handler, phase, raised>>

WatchRemoved(r) ==
  /\ watch[r] = "remove"
  /\ Removed(r)
  /\ watch' = [watch EXCEPT ![r] = "done"]
  /\ UNCHANGED <<runnerState, made, adopted, watchStopped, handler, phase, raised>>

\* Mutant: the failed cleanup is not reported.
WatchRemovalFailsSilently(r) ==
  /\ watch[r] = "remove"
  /\ NotRemoved(r)
  /\ watch' = [watch EXCEPT ![r] = "done"]
  /\ UNCHANGED <<runnerState, made, adopted, watchStopped, handler, phase, raised>>

WatchRemovalFails(r) ==
  /\ watch[r] = "remove"
  /\ NotRemoved(r)
  /\ watch' = [watch EXCEPT ![r] = "done"]
  /\ raised' = raised \cup {"watch"}
  /\ UNCHANGED <<runnerState, made, adopted, watchStopped, handler, phase>>

-----------------------------------------------------------------------------
(* The listener goroutine (github.com/actions/scaleset/listener, external)  *)
(* calls the handlers one after the other.  A message carries at most one   *)
(* job event and then the demand: a longer one is several messages whose    *)
(* demand is the current count.                                             *)

(* The listener returns the handler's error, and that ends it. *)
ListenerReturnsError ==
  /\ hpc' = "off"
  /\ raised' = raised \cup {"listener"}

ReceiveMessage ==
  /\ hpc = "poll" /\ mode = "serve"
  /\ hpc' = "event"
  /\ UNCHANGED <<runnerState, docker, watches, desired, current, left, cur, refs,
                 phase, raised>>

ListenerFails ==
  /\ hpc = "poll"
  /\ ListenerReturnsError
  /\ UNCHANGED <<runnerState, docker, watches, desired, current, left, cur, refs, phase>>

(* Between two messages the listener notices that its context is cancelled. *)
ListenerCancelled ==
  /\ hpc = "poll" /\ mode = "stop"
  /\ hpc' = "off"
  /\ UNCHANGED <<runnerState, docker, watches, desired, current, left, cur, refs,
                 phase, raised>>

NoJobEvent ==
  /\ hpc = "event"
  /\ hpc' = "desired"
  /\ UNCHANGED <<runnerState, docker, watches, desired, current, left, cur, refs,
                 phase, raised>>

(* Job events name any runner ever registered, also one adopted, removed,   *)
(* or named by an earlier event: messages are redelivered.                  *)
HandleJobStarted(r) ==
  /\ hpc = "event" /\ r <= made
  /\ MarkBusy(r)
  /\ hpc' = "desired"
  /\ UNCHANGED <<docker, watches, desired, current, left, cur, refs, phase, raised>>

HandleJobCompleted(r) ==
  /\ hpc = "event" /\ r <= made
  /\ TakeOwnership(r)
  /\ IF Owns(r) THEN hpc' = "complete" /\ refs' = <<r>>
                ELSE hpc' = "desired" /\ UNCHANGED refs
  /\ UNCHANGED <<docker, watches, desired, current, left, cur, phase, raised>>

CompletedRunnerRemoved ==
  /\ hpc = "complete"
  /\ Removed(Head(refs))
  /\ hpc' = "desired" /\ refs' = <<>>
  /\ UNCHANGED <<runnerState, made, watches, desired, current, left, cur, phase, raised>>

\* Mutant: the runner goes back into the table, for another attempt.
HandlerRemovalFailsReturningIt ==
  /\ hpc \in {"complete", "remove"}
  /\ NotRemoved(Head(refs))
  /\ ListenerReturnsError
  /\ AddIdle(Head(refs))
  /\ refs' = <<>>
  /\ UNCHANGED <<made, watches, desired, current, left, cur, phase>>

(* The first failed removal ends the handler, also with runners left over.  *)
HandlerRemovalFails ==
  /\ hpc \in {"complete", "remove"}
  /\ NotRemoved(Head(refs))
  /\ ListenerReturnsError
  /\ refs' = <<>>
  /\ UNCHANGED <<runnerState, made, watches, desired, current, left, cur, phase>>

\* Mutant: demand is not clamped to maxRunners.
DesiredRunnerCountUnclamped(jobs) == IF jobs < MinRunners THEN MinRunners ELSE jobs

(* max(0, ...) is left out: the configured bounds are natural numbers.      *)
DesiredRunnerCount(jobs) ==
  LET demand == IF jobs < MinRunners THEN MinRunners ELSE jobs
  IN IF demand > MaxRunners THEN MaxRunners ELSE demand

(* Reads the count and chooses; runCtx is cancelled outside "serve".        *)
HandleDesiredRunnerCount(jobs) ==
  /\ hpc = "desired"
  /\ LET want == DesiredRunnerCount(jobs)
     IN \/ /\ want = Count \/ (want > Count /\ mode # "serve")
           /\ hpc' = "poll"
           /\ UNCHANGED <<desired, current, left>>
        \/ /\ want > Count /\ mode = "serve"
           /\ hpc' = "create" /\ left' = want - Count
           /\ UNCHANGED <<desired, current>>
        \/ /\ want < Count
           /\ hpc' = "down" /\ desired' = want /\ current' = Count
           /\ UNCHANGED left
  /\ UNCHANGED <<runnerState, docker, watches, cur, refs, phase, raised>>

(* provision up to CreateManaged: a new container, not yet started.         *)
CreateManaged ==
  /\ hpc = "create" /\ made < NumRunners
  /\ made' = made + 1
  /\ container' = [container EXCEPT ![made + 1] = "created"]
  /\ cur' = made + 1
  /\ hpc' = "start"
  /\ UNCHANGED <<runnerState, watches, desired, current, left, refs, phase, raised>>

(* The JIT configuration, the specification or the create call fails; the   *)
(* daemon may have created the container all the same.                      *)
ProvisionFails ==
  /\ hpc = "create"
  /\ \/ UNCHANGED docker
     \/ /\ made < NumRunners
        /\ made' = made + 1
        /\ container' = [container EXCEPT ![made + 1] = "created"]
  /\ ListenerReturnsError
  /\ left' = 0
  /\ UNCHANGED <<runnerState, watches, desired, current, cur, refs, phase>>

StartManaged ==
  /\ hpc = "start"
  /\ container[cur] = "created"
  /\ container' = [container EXCEPT ![cur] = "running"]
  /\ hpc' = "register"
  /\ UNCHANGED <<runnerState, made, watches, desired, current, left, cur, refs,
                 phase, raised>>

(* The start fails, or its answer is lost after the container started.      *)
StartFails ==
  /\ hpc = "start"
  /\ \/ UNCHANGED container
     \/ /\ container[cur] = "created"
        /\ container' = [container EXCEPT ![cur] = "running"]
  /\ hpc' = "undo"
  /\ UNCHANGED <<runnerState, made, watches, desired, current, left, cur, refs,
                 phase, raised>>

(* The outcome of the cleanup is dropped; the start error is returned.      *)
CleanupAfterProvisionFailure ==
  /\ hpc = "undo"
  /\ Removed(cur) \/ NotRemoved(cur)
  /\ ListenerReturnsError
  /\ cur' = NoRunner /\ left' = 0
  /\ UNCHANGED <<runnerState, made, watches, desired, current, refs, phase>>

RegisterRunner ==
  /\ hpc = "register"
  /\ AddIdle(cur)
  /\ hpc' = "watch"
  /\ UNCHANGED <<docker, watches, desired, current, left, cur, refs, phase, raised>>

(* The last step of provision, and the loop over the runners still to come. *)
WatchRunner ==
  /\ hpc = "watch"
  /\ StartWatch(cur)
  /\ cur' = NoRunner /\ left' = left - 1
  /\ hpc' = IF left > 1 THEN "create" ELSE "poll"
  /\ UNCHANGED <<runnerState, docker, adopted, watchStopped, desired, current, refs,
                 phase, raised>>

(* All surplus runners leave the table before the first is removed.         *)
ScaleDown ==
  /\ hpc = "down"
  /\ ScaleDownIdle(current - desired)
  /\ refs' = OldestIdle(current - desired)
  /\ hpc' = IF Surplus(current - desired) = 0 THEN "poll" ELSE "remove"
  /\ desired' = 0 /\ current' = 0
  /\ UNCHANGED <<docker, watches, left, cur, phase, raised>>

SurplusRunnerRemoved ==
  /\ hpc = "remove"
  /\ Removed(Head(refs))
  /\ refs' = Tail(refs)
  /\ hpc' = IF Len(refs) = 1 THEN "poll" ELSE "remove"
  /\ UNCHANGED <<runnerState, made, watches, desired, current, left, cur, phase, raised>>

-----------------------------------------------------------------------------
(* The process: startup, Recover, the wait loop, Shutdown.                  *)

(* Serve up to the list Recover works through. *)
Launch ==
  /\ mode = "down"
  /\ mode' = "recover"
  /\ listed' = {r \in Runners : container[r] \in Live}
  /\ UNCHANGED <<runnerState, docker, watches, handler, rcur, srefs, scur, raised>>

(* One listed container, oldest first, by what a fresh inspect says of it.  *)
RecoverRunner(r) ==
  /\ mode = "recover" /\ rcur = NoRunner
  /\ r \in listed /\ \A q \in listed : r <= q
  /\ listed' = listed \ {r}
  /\ \/ /\ container[r] = "gone"
        /\ UNCHANGED <<runnerState, watch, adopted, rcur>>
     \/ /\ container[r] \in {"created", "exited"}
        /\ rcur' = r
        /\ UNCHANGED <<runnerState, watch, adopted>>
     \/ /\ container[r] = "running"
        /\ AddProtected(r)
        /\ StartWatch(r)
        /\ adopted' = adopted \cup {r}
        /\ UNCHANGED rcur
  /\ UNCHANGED <<docker, watchStopped, handler, mode, srefs, scur, raised>>

RecoverRunnerRemoved ==
  /\ mode = "recover" /\ rcur # NoRunner
  /\ Removed(rcur)
  /\ rcur' = NoRunner
  /\ UNCHANGED <<runnerState, made, watches, handler, mode, listed, srefs, scur, raised>>

(* Recover, or a later step of startup, returns an error: shutdown follows. *)
StartupFails ==
  /\ mode = "recover"
  /\ IF rcur = NoRunner THEN UNCHANGED container ELSE NotRemoved(rcur)
  /\ mode' = "stop" /\ listed' = {} /\ rcur' = NoRunner
  /\ raised' = raised \cup {"startup"}
  /\ UNCHANGED <<runnerState, made, watches, handler, srefs, scur>>

(* Startup succeeds and the listener goroutine begins. *)
StartupDone ==
  /\ mode = "recover" /\ listed = {} /\ rcur = NoRunner
  /\ mode' = "serve" /\ hpc' = "poll"
  /\ UNCHANGED <<runnerState, docker, watches, desired, current, left, cur, refs,
                 listed, rcur, srefs, scur, raised>>

BeginStop ==
  /\ mode = "serve"
  /\ mode' = "stop"
  /\ UNCHANGED <<runnerState, docker, watches, handler, listed, rcur, srefs, scur, raised>>

Signal == BeginStop

FatalError == raised # {} /\ BeginStop

\* Mutant: Shutdown begins while a handler may still run.
ShutdownWithoutJoin ==
  /\ mode = "stop"
  /\ mode' = "join" /\ watchStopped' = TRUE
  /\ UNCHANGED <<runnerState, docker, watch, adopted, handler, listed, rcur, srefs,
                 scur, raised>>

(* The listener is joined; only then Shutdown is called: it forbids new     *)
(* watches and cancels the ones that wait.                                  *)
JoinListener ==
  /\ mode = "stop" /\ hpc = "off"
  /\ mode' = "join" /\ watchStopped' = TRUE
  /\ UNCHANGED <<runnerState, docker, watch, adopted, handler, listed, rcur, srefs,
                 scur, raised>>

JoinWatches ==
  /\ mode = "join"
  /\ \A r \in Runners : watch[r] \in {"none", "done"}
  /\ TakeAllIdle
  /\ srefs' = Idle
  /\ mode' = "clean"
  /\ UNCHANGED <<docker, watches, handler, listed, rcur, scur, raised>>

CleanupRef(r) ==
  /\ mode \in {"clean", "cleanBusy"} /\ scur = NoRunner
  /\ r \in srefs
  /\ srefs' = srefs \ {r} /\ scur' = r
  /\ UNCHANGED <<runnerState, docker, watches, handler, mode, listed, rcur, raised>>

CleanupRefRemoved ==
  /\ scur # NoRunner
  /\ Removed(scur)
  /\ scur' = NoRunner
  /\ UNCHANGED <<runnerState, made, watches, handler, mode, listed, rcur, srefs, raised>>

(* cleanupRefs keeps the error and goes on with the next runner.            *)
CleanupRefFails ==
  /\ scur # NoRunner
  /\ NotRemoved(scur)
  /\ scur' = NoRunner
  /\ raised' = raised \cup {"shutdown"}
  /\ UNCHANGED <<runnerState, made, watches, handler, mode, listed, rcur, srefs>>

(* The idle runners are done: the busy ones are next, under policy stop.    *)
IdleCleaned ==
  /\ mode = "clean" /\ srefs = {} /\ scur = NoRunner
  /\ \/ /\ BusyPolicy = "stop"
        /\ TakeAllBusy
        /\ srefs' = busy
        /\ mode' = "cleanBusy"
     \/ /\ BusyPolicy # "stop"
        /\ mode' = "exit"
        /\ UNCHANGED <<runnerState, srefs>>
  /\ UNCHANGED <<docker, watches, handler, listed, rcur, scur, raised>>

BusyCleaned ==
  /\ mode = "cleanBusy" /\ srefs = {} /\ scur = NoRunner
  /\ mode' = "exit"
  /\ UNCHANGED <<runnerState, docker, watches, handler, listed, rcur, srefs, scur, raised>>

(* The process is gone, and its memory and its goroutines with it.          *)
ProcessEnds ==
  /\ LoseRunnerState
  /\ watch' = [r \in Runners |-> "none"] /\ adopted' = {} /\ watchStopped' = FALSE
  /\ hpc' = "off" /\ desired' = 0 /\ current' = 0 /\ left' = 0
  /\ cur' = NoRunner /\ refs' = <<>>
  /\ mode' = "down" /\ listed' = {} /\ rcur' = NoRunner
  /\ srefs' = {} /\ scur' = NoRunner
  /\ raised' = {}
  /\ UNCHANGED docker

Exit == mode = "exit" /\ ProcessEnds

(* Shutdown gives up on a listener or a watch that outlives its deadline.   *)
JoinTimeout ==
  /\ \/ mode = "stop" /\ hpc # "off"
     \/ mode = "join" /\ \E r \in Runners : watch[r] \notin {"none", "done"}
  /\ ProcessEnds

Crash == mode # "down" /\ ProcessEnds

-----------------------------------------------------------------------------
Environment ==
  \E r \in Runners : ContainerExits(r) \/ ContainerVanishes(r)

WatchStep(r) ==
  \/ WaitReturns(r) \/ WatchReturns(r) \/ ReleaseWatchOwnership(r)
  \/ WatchRemoved(r) \/ WatchRemovalFails(r)

HandlerStep ==
  \/ NoJobEvent
  \/ \E r \in Runners : HandleJobStarted(r) \/ HandleJobCompleted(r)
  \/ CompletedRunnerRemoved \/ HandlerRemovalFails
  \/ \E jobs \in 0 .. MaxJobs : HandleDesiredRunnerCount(jobs)
  \/ CreateManaged \/ ProvisionFails \/ StartManaged \/ StartFails
  \/ CleanupAfterProvisionFailure \/ RegisterRunner \/ WatchRunner
  \/ ScaleDown \/ SurplusRunnerRemoved

RecoverStep ==
  \/ \E r \in Runners : RecoverRunner(r)
  \/ RecoverRunnerRemoved \/ StartupFails \/ StartupDone

ShutdownStep ==
  \/ JoinListener \/ JoinWatches
  \/ \E r \in Runners : CleanupRef(r)
  \/ CleanupRefRemoved \/ CleanupRefFails \/ IdleCleaned \/ BusyCleaned \/ Exit

Next ==
  \/ Environment
  \/ \E r \in Runners : StopManaged(r) \/ WatchStep(r) \/ WaitFails(r)
  \/ ReceiveMessage \/ ListenerFails \/ ListenerCancelled
  \/ HandlerStep
  \/ Launch \/ RecoverStep
  \/ Signal \/ FatalError
  \/ ShutdownStep \/ JoinTimeout \/ Crash

Spec == Init /\ [][Next]_vars

(* The Go scheduler runs every goroutine that can run, and every call to    *)
(* Docker or GitHub ends: each has a context with a deadline.  Signals,     *)
(* crashes, timeouts and new processes are not assumed to happen.           *)
Fairness ==
  /\ \A r \in Runners : WF_vars(StopManaged(r)) /\ WF_vars(WatchStep(r))
  /\ \A r \in Runners : WF_vars(watchStopped /\ WaitFails(r))
  /\ WF_vars(HandlerStep) /\ WF_vars(ListenerCancelled)
  /\ WF_vars(RecoverStep) /\ WF_vars(FatalError) /\ WF_vars(ShutdownStep)

FairSpec == Spec /\ Fairness
-----------------------------------------------------------------------------
(* Who is responsible for a runner besides the table. *)

ProvisionClaim == IF hpc \in {"start", "undo", "register"} THEN {cur} ELSE {}
HandlerClaims  == ToSet(refs) \cup ProvisionClaim
WatchClaims    == {r \in Runners : watch[r] = "remove"}
MainClaims     == listed \cup srefs \cup ({rcur, scur} \ {NoRunner})

Claimed == HandlerClaims \cup WatchClaims \cup MainClaims

(* Who holds a runner, in the terms of Ownership.                           *)
Holdings ==
  [idle |-> Idle, busy |-> busy, protected |-> protected,
   maker |-> ProvisionClaim, handler |-> ToSet(refs), watch |-> WatchClaims,
   list |-> listed, main |-> srefs \cup ({rcur, scur} \ {NoRunner})]

HoldersOf(r) == {p \in DOMAIN Holdings : r \in Holdings[p]}

LifeOf(r) == IF container[r] \in Live THEN "live" ELSE container[r]

Owned(r) ==
  INSTANCE Ownership WITH up <- mode # "down", failed <- raised # {},
                          life <- LifeOf(r), owners <- HoldersOf(r)

(* Every runner has at most one owner at a time, changes hands only along   *)
(* the routes of Ownership, comes back into the table from no removal, and  *)
(* is let go only when its container is gone or an error is reported.       *)
OwnershipKept ==
  /\ \A r \in Runners : Owned(r)!Init
  /\ [][\A r \in Runners : [Owned(r)!Next]_(Owned(r)!vars)]_vars

(* At most one goroutine cleans up a runner, and none while the table still *)
(* holds it; the three parts of the table share no runner.  (takeOwnership: *)
(* "The atomic move prevents both JobCompleted and process exit from        *)
(* cleaning it up".)                                                        *)
OneOwner ==
  /\ Idle \cap busy = {} /\ Idle \cap protected = {} /\ busy \cap protected = {}
  /\ Tracked \cap Claimed = {}
  /\ HandlerClaims \cap WatchClaims = {}
  /\ HandlerClaims \cap MainClaims = {}
  /\ WatchClaims \cap MainClaims = {}

(* No container is forgotten in silence: while the process has reported no  *)
(* error, each of its live containers is in the table or in the hands of a  *)
(* goroutine that will put it there or remove it.                           *)
NoSilentOrphan ==
  mode # "down" /\ raised = {} =>
    \A r \in Runners : container[r] \in Live => r \in Tracked \cup Claimed

(* A runner in the table has a watch that still runs, or its loss has been  *)
(* reported, or Shutdown has cancelled it: otherwise nobody would notice    *)
(* the end of its container.                                                *)
TableIsWatched ==
  raised = {} /\ ~watchStopped =>
    \A r \in Tracked : watch[r] \in {"wait", "exited", "missing"} \/ r = cur

(* The controller stops no container it adopted from an earlier process:    *)
(* neither event handling nor scale-down nor Shutdown, whatever the policy. *)
AdoptedNotStopped == \A r \in adopted \cap Removing : container[r] # "running"

(* Scale-down is oldest first, also while watches take runners in between.  *)
OldestFirst ==
  LET queue == (IF hpc = "remove" THEN refs ELSE <<>>) \o idle
  IN \A i, j \in DOMAIN queue : i < j => queue[i] < queue[j]

(* Provisioning never takes the table above maxRunners, unless recovery     *)
(* alone found more; the runners the loop has still to create count.        *)
CapacityRespected ==
  LET pending == IF hpc = "watch" THEN left - 1 ELSE left
  IN Count + pending <= MaxRunners \/ Count <= Cardinality(adopted)

(* When Shutdown has ended and no error was reported, the only live         *)
(* containers are the ones the policy leaves to the next process.           *)
CleanExit ==
  mode = "exit" /\ raised = {} =>
    \A r \in Runners : container[r] \in Live =>
      r \in protected \/ (BusyPolicy = "leave" /\ r \in busy)

(* A busy runner whose container runs is given up only to JobCompleted, to  *)
(* Shutdown under policy stop, or by the end of the process: not to scale   *)
(* down, nor to Shutdown under policy leave.                                *)
BusyKept ==
  [][\A r \in busy \ busy' :
       \/ container[r] # "running"
       \/ hpc' = "complete" /\ refs' = <<r>>
       \/ mode' = "cleanBusy" /\ BusyPolicy = "stop"
       \/ mode' = "down"]_vars

(* A runner whose container has exited is removed, unless the controller    *)
(* reports an error or stops first.                                         *)
ExitedRunnerRemoved ==
  \A r \in Runners :
    (mode = "serve" /\ r \in Tracked /\ container[r] = "exited")
      ~> (container[r] = "gone" \/ raised # {} \/ mode # "serve")

(* Once the process has begun to stop, or has reported an error, it ends:   *)
(* no handler, watch or cleanup can hold it up for ever.                    *)
ProcessStops == (mode = "stop" \/ raised # {}) ~> (mode = "down")

(* "HandleDesiredRunnerCount moves the runner count toward demand"          *)
(* (scaler.go:113): a scale-down leaves at least the demanded number.       *)
MovesTowardDemand ==
  [][hpc = "down" /\ hpc' # "down" /\ mode' # "down" => Count' >= desired]_vars

=============================================================================
