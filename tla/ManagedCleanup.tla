--------------------------- MODULE ManagedCleanup ---------------------------
(***************************************************************************)
(* One removal, call by call: removeRunner of internal/controller, which   *)
(* calls VerifyManaged and then CleanupManaged of internal/docker, or      *)
(* CleanupManaged alone, as Recover calls it.  Between any two calls the   *)
(* container may change; every call may fail, with its effect carried out  *)
(* or not.  The local "gone" of CleanupManaged is not kept: once it is     *)
(* set, no further call is made and nil is returned.                       *)
(***************************************************************************)
EXTENDS Naturals

VARIABLES
  container,  \* Docker's state of the container ("dead" counts as "exited")
  labels,     \* whether the daemon shows the managed labels of this runner
  pc,         \* the call to make next
  outcome,    \* "pending", and then what the removal returns
  strays      \* stop and remove requests the labels changed before the answer of

vars == <<container, labels, pc, outcome, strays>>

Live == {"created", "running", "paused", "restarting", "removing", "exited"}

Calls == {"verify", "refresh", "checkStop", "stop", "wait", "inspect", "logs",
          "recheck", "remove", "done"}

TypeOK ==
  /\ container \in Live \cup {"gone"}
  /\ labels \in {"ours", "foreign"}
  /\ pc \in Calls
  /\ outcome \in {"pending", "ok", "error"}
  /\ strays \in Nat
  /\ outcome = "pending" <=> pc # "done"

Init ==
  /\ container \in Live \cup {"gone"}
  /\ labels = "ours"
  /\ pc \in {"verify", "refresh"}
  /\ outcome = "pending"
  /\ strays = 0

-----------------------------------------------------------------------------
(* The daemon, moved by others.  "Labels may change after enumeration, so   *)
(* do not trust the snapshot" (managed.go:151): they change at most once,   *)
(* the name or the id being another's from then on.                         *)

Unaware == UNCHANGED <<pc, outcome, strays>>

ContainerExits ==
  /\ container \in {"running", "restarting"} /\ container' = "exited"
  /\ UNCHANGED labels /\ Unaware

(* Another client's removal takes its time, and then the container is gone. *)
ContainerVanishes ==
  /\ \/ container \in Live \ {"removing"} /\ container' = "removing"
     \/ container = "removing" /\ container' = "gone"
  /\ UNCHANGED labels /\ Unaware

PausedOrRestarted ==
  /\ \/ container = "running" /\ container' \in {"paused", "restarting"}
     \/ container \in {"paused", "restarting"} /\ container' = "running"
  /\ UNCHANGED labels /\ Unaware

LabelsChange ==
  /\ labels = "ours" /\ labels' = "foreign"
  /\ UNCHANGED container /\ Unaware

-----------------------------------------------------------------------------
(* The calls. *)

needsStop == container \in {"running", "paused", "restarting"}

Continue(next) == pc' = next /\ UNCHANGED outcome

Return(result) == pc' = "done" /\ outcome' = result

(* Not found ends the removal with success, wherever it is met.             *)
NotFound == container = "gone" /\ Return("ok")

(* An inspect and verifyManagedLabels on its answer.                        *)
LabelsVerified == container # "gone" /\ labels = "ours"

(* The call fails, or the labels are not the runner's any more.             *)
Fails == Return("error")

Reads == UNCHANGED <<container, labels, strays>>

VerifyManaged ==
  /\ pc = "verify"
  /\ NotFound \/ Fails \/ (LabelsVerified /\ Continue("refresh"))
  /\ Reads

(* The state this check sees decides whether the container must be stopped. *)
RefreshManaged ==
  /\ pc = "refresh"
  /\ NotFound \/ Fails
       \/ (LabelsVerified /\ Continue(IF needsStop THEN "checkStop" ELSE "inspect"))
  /\ Reads

(* StopManaged: its own check, and the request.                             *)
StopManagedCheck ==
  /\ pc = "checkStop"
  /\ NotFound \/ Fails \/ (LabelsVerified /\ Continue("stop"))
  /\ Reads

(* What a request to another's container adds to the count.                 *)
Request == strays' = IF labels = "foreign" /\ container # "gone" THEN strays + 1 ELSE strays

(* The daemon stops the container, before the client hears of it or not.    *)
StopTakesEffect ==
  /\ pc = "stop"
  /\ needsStop /\ container' = "exited"
  /\ UNCHANGED <<labels, pc, outcome, strays>>

containerStop ==
  /\ pc = "stop"
  /\ NotFound \/ Fails \/ (container # "gone" /\ ~needsStop /\ Continue("wait"))
  /\ Request /\ UNCHANGED <<container, labels>>

WaitContainer ==
  /\ pc = "wait"
  /\ NotFound \/ Fails \/ (container # "gone" /\ ~needsStop /\ Continue("inspect"))
  /\ Reads

(* The inspect for the exit code checks no labels.                          *)
ContainerInspect ==
  /\ pc = "inspect"
  /\ NotFound \/ Fails \/ (container # "gone" /\ Continue("logs"))
  /\ Reads

\* Mutant: any failure to fetch the logs is taken for a missing container.
FetchLogsOrGone ==
  /\ pc = "logs"
  /\ Return("ok") \/ (container # "gone" /\ Continue("recheck"))
  /\ Reads

\* Mutant: the check before the removal request is left out.
FetchLogsNoRecheck ==
  /\ pc = "logs"
  /\ NotFound \/ Continue("remove")
  /\ Reads

(* Only a missing container matters here: the logs are optional, and any    *)
(* other failure to fetch them is ignored.                                  *)
FetchLogs ==
  /\ pc = "logs"
  /\ NotFound \/ Continue("recheck")
  /\ Reads

RefreshManagedAgain ==
  /\ pc = "recheck"
  /\ NotFound \/ Fails \/ (LabelsVerified /\ Continue("remove"))
  /\ Reads

(* Without force: the daemon refuses to remove a container that runs, and   *)
(* one that somebody else is removing.                                      *)
containerRemove ==
  /\ pc = "remove"
  /\ \/ NotFound /\ UNCHANGED container
     \/ container \in {"created", "exited"} /\ container' = "gone" /\ (Return("ok") \/ Fails)
     \/ UNCHANGED container /\ Fails
  /\ Request /\ UNCHANGED labels

-----------------------------------------------------------------------------
Others == ContainerExits \/ ContainerVanishes \/ PausedOrRestarted \/ LabelsChange

Call ==
  \/ VerifyManaged \/ RefreshManaged \/ StopManagedCheck \/ StopTakesEffect
  \/ containerStop \/ WaitContainer \/ ContainerInspect \/ FetchLogs
  \/ RefreshManagedAgain \/ containerRemove

(* A removal that has returned takes no further step. *)
Next == Call \/ Others

Spec == Init /\ [][Next]_vars
-----------------------------------------------------------------------------
(* The calls keep the promise scaler.go relies on: success only when the    *)
(* container is gone, and no removal of a container that runs.              *)
AsPromised ==
  IF needsStop THEN "running"
  ELSE IF container = "removing" THEN "gone" ELSE container

Promise == INSTANCE Removal WITH container <- AsPromised

RemovalPromised == Promise!Spec

(* "Each destructive operation is preceded by a fresh label check"          *)
(* (lifecycle.go:95): of a container that stops being ours at any moment of *)
(* the removal, at most the one request is made whose check had passed.     *)
AtMostOneStray == strays <= 1
=============================================================================
