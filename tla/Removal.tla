------------------------------ MODULE Removal -------------------------------
(***************************************************************************)
(* What a removal of one runner promises to the code that asks for it, the *)
(* handlers, the watches, Recover and Shutdown of scaler.go.  DockerScaler *)
(* models every removal by these steps (there container is the entry of    *)
(* one runner); ManagedCleanup has the calls that keep the promise.        *)
(***************************************************************************)

VARIABLES
  container,   \* state of the container
  outcome      \* "pending", and then what the removal returns

vars == <<container, outcome>>

Live == {"created", "running", "exited"}

Init == container \in Live \cup {"gone"} /\ outcome = "pending"

(* The container's process ends, or an operator removes the container.      *)
ContainerExits ==
  container = "running" /\ container' = "exited" /\ UNCHANGED outcome

ContainerVanishes ==
  container \in Live /\ container' = "gone" /\ UNCHANGED outcome

StopManaged ==
  /\ outcome = "pending"
  /\ container = "running" /\ container' = "exited"
  /\ UNCHANGED outcome

(* Success: the container is gone, and it was not running when it went.     *)
Removed ==
  /\ outcome = "pending" /\ outcome' = "ok"
  /\ container # "running" /\ container' = "gone"

(* An error says nothing about the container.                               *)
NotRemoved ==
  /\ outcome = "pending" /\ outcome' = "error"
  /\ container' \in {container, "gone"}

Next == ContainerExits \/ ContainerVanishes \/ StopManaged \/ Removed \/ NotRemoved

Spec == Init /\ [][Next]_vars
=============================================================================
