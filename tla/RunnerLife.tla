----------------------------- MODULE RunnerLife -----------------------------
(***************************************************************************)
(* The machines that are about single containers, side by side: how a      *)
(* runner is made, watched and removed, how its logs are read, and what a  *)
(* startup makes of the containers it finds.  Each has its own variables;  *)
(* here are their names, the constants and what the machines promise.      *)
(***************************************************************************)
EXTENDS ManagedCleanup

CONSTANTS
    HTTPTimeout, MaxLifetime, DockerFails,                          \* of Watch
    Image, Version, Instance,                                       \* of Provisioning
    DefaultLogBytesPerStream, Limits, MaxFrame, MaxBytes,           \* of ContainerLogs
    Containers, LabelChoices, CreationTimes,                        \* of Recovery
    ScaleSetID      \* of Provisioning and of Recovery: what EnsureScaleSet returned

VARIABLES
    clock, faulty, sdk, errC, watch, verdict, drain, cancelled, owned, notified, runner,
    at, name, registered, answer, spec, created, inTable, result,
    state, marks, born, phase, list, seen, adopted, touched,
    options, step, stream, sent, buf, fault, err

watchVars == <<clock, faulty, sdk, errC, watch, verdict, drain, cancelled, owned, notified,
               runner>>
provisionVars == <<at, name, registered, answer, spec, created, inTable, result>>
recoveryVars == <<state, marks, born, phase, list, seen, adopted, touched>>
logsVars == <<options, step, stream, sent, buf, fault, err>>

W == INSTANCE Watch WITH container <- runner, outcome <- verdict
P == INSTANCE Provisioning WITH container <- created
L == INSTANCE ContainerLogs WITH at <- step
R == INSTANCE Recovery WITH labels <- marks, created <- born

ASSUME WatchAssumption == W!TimesAssumption /\ W!FailsAssumption
ASSUME ProvisionAssumption == P!ConfigAssumption /\ P!ScaleSetAssumption
ASSUME LogsAssumption == L!BytesAssumption
ASSUME RecoveryAssumption ==
    R!ContainersAssumption /\ R!ScaleSetAssumption /\ R!ChoicesAssumption
-----------------------------------------------------------------------------
(* What the machines promise; each is stated and explained in its module.  *)

\* A watch removes only what has ended, leaves no runner unwatched and reports
\* troubles only (scaler.go:308-342).
WatchSafe == W!WatchSafe

\* A cancelled watch ends, with the goroutines it has started (client.go:177-190).
CancelEndsAll == W!CancelEndsAll

\* What is registered and created can be used and found again (scaler.go:179-238).
ProvisionSafe == P!ProvisionSafe

\* The beginning of each stream is kept and all is read (lifecycle.go:184-254).
LogsSafe == L!LogsSafe

\* A startup deals with its own containers, all of them, and touches no other
\* (scaler.go:256-287, managed.go:80-147).
RecoverySafe == R!RecoverySafe

\* Startups that are tried again get through in the end (scaler.go:256-287).
RecoversInTheEnd == R!RecoversInTheEnd

=============================================================================
