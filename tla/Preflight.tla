------------------------------ MODULE Preflight -----------------------------
(***************************************************************************)
(* What the daemon asks of Docker and GitHub before it serves, and the     *)
(* command "check" that asks the same beforehand: internal/app/check.go,   *)
(* the checks of startup, EnsureImage, EnsureScaleSet and CheckScaleSet.   *)
(* Both run against a world that others change; each call is one step and  *)
(* may fail.  The credentials and the runner's specification depend on the *)
(* configuration alone and are left out.                                   *)
(***************************************************************************)

Programs == {"check", "serve"}
Policies == {"always", "if-not-present", "never"}
Steps    == {"versions", "runtime", "image", "pull", "group", "set", "create", "reget"}

VARIABLES
  cfg,        \* docker.pull_policy, and whether HostConfig names a runtime
  world,      \* what Docker and GitHub would answer
  pc,         \* the step of each program, or how it ended
  warned,     \* CheckResult.Warning is set
  unchanged,  \* whether nobody has changed the world since the program began
  promise     \* what the last check has promised to this startup

vars == <<cfg, world, pc, warned, unchanged, promise>>

Facts == {"engine", "runtime", "local", "registry", "group", "mayCreate"}
World == [engine : BOOLEAN, runtime : BOOLEAN,     \* versions suffice, runtime is registered
          local : BOOLEAN, registry : BOOLEAN,     \* where the image is
          group : BOOLEAN, mayCreate : BOOLEAN,    \* the group is there, a set may be created
          set : {"none", "valid", "invalid"}]      \* the scale set of the configured name

TypeOK ==
  /\ cfg \in [policy : Policies, runtime : BOOLEAN]
  /\ world \in World
  /\ pc \in [Programs -> Steps \cup {"idle", "passed", "refused", "failed"}]
  /\ pc["check"] \notin {"create", "reget"}
  /\ warned \in BOOLEAN
  /\ unchanged \in [Programs -> BOOLEAN]
  /\ promise \in {"none", "all", "ifMayCreate"}

Init ==
  /\ cfg \in [policy : Policies, runtime : BOOLEAN]
  /\ world \in World
  /\ pc = [p \in Programs |-> "idle"]
  /\ warned = FALSE
  /\ unchanged = [p \in Programs |-> FALSE]
  /\ promise = "none"

-----------------------------------------------------------------------------
Goto(p, step) == pc' = [pc EXCEPT ![p] = step]
Asks          == UNCHANGED <<cfg, world, warned, unchanged, promise>>

(* The order of the steps differs between the two programs.                 *)
AfterVersions(p) == IF cfg.runtime THEN "runtime" ELSE "image"
AfterImage(p)    == IF p = "check" THEN "passed" ELSE "group"
AfterSet(p)      == IF p = "check" THEN "versions" ELSE "passed"

Ended(p) == pc[p] \in {"idle", "passed", "refused", "failed"}

Check ==
  /\ Ended("check") /\ Goto("check", "group")
  /\ warned' = FALSE /\ unchanged' = [unchanged EXCEPT !["check"] = TRUE]
  /\ UNCHANGED <<cfg, world, promise>>

Serve ==
  /\ Ended("serve") /\ Goto("serve", "versions")
  /\ unchanged' = [unchanged EXCEPT !["serve"] = TRUE]
  /\ promise' = IF pc["check"] # "passed" \/ ~unchanged["check"] THEN "none"
                ELSE IF warned THEN "ifMayCreate" ELSE "all"
  /\ UNCHANGED <<cfg, world, warned>>

(* A call that gets no answer ends the program.                             *)
CallFails(p) == pc[p] \in Steps /\ Goto(p, "failed") /\ Asks

Verdict(p, ok, step) == Goto(p, IF ok THEN step ELSE "refused")

ValidateVersions(p) ==
  /\ pc[p] = "versions"
  /\ Verdict(p, world.engine, AfterVersions(p))
  /\ Asks

CheckRuntime(p) ==
  /\ pc[p] = "runtime"
  /\ Verdict(p, world.runtime, "image")
  /\ Asks

\* Mutant: an image that is not in the local store is taken for present.
InspectImageFound(p) ==
  /\ pc[p] = "image"
  /\ Goto(p, IF cfg.policy = "always" THEN "pull" ELSE AfterImage(p))
  /\ Asks

(* EnsureImage, up to the pull.                                             *)
InspectImage(p) ==
  /\ pc[p] = "image"
  /\ CASE cfg.policy = "always" -> Goto(p, "pull")
       [] cfg.policy = "if-not-present" -> Goto(p, IF world.local THEN AfterImage(p) ELSE "pull")
       [] cfg.policy = "never" -> Verdict(p, world.local, AfterImage(p))
  /\ Asks

PullImage(p) ==
  /\ pc[p] = "pull"
  /\ Verdict(p, world.registry, AfterImage(p))
  /\ world' = IF world.registry THEN [world EXCEPT !.local = TRUE] ELSE world
  /\ UNCHANGED <<cfg, warned, unchanged, promise>>

(* GetRunnerGroupByName and validateRunnerGroup.                            *)
GetRunnerGroup(p) ==
  /\ pc[p] = "group"
  /\ Verdict(p, world.group, "set")
  /\ Asks

(* checkScaleSetResult: a missing set is worth a warning.                   *)
CheckScaleSet ==
  /\ pc["check"] = "set"
  /\ Verdict("check", world.set # "invalid", AfterSet("check"))
  /\ warned' = (world.set = "none")
  /\ UNCHANGED <<cfg, world, unchanged, promise>>

EnsureScaleSet ==
  /\ pc["serve"] = "set"
  /\ IF world.set = "none" THEN Goto("serve", "create")
                           ELSE Verdict("serve", world.set = "valid", AfterSet("serve"))
  /\ Asks

\* Mutant: a conflict is a failure like any other.
CreateScaleSetOnly ==
  /\ pc["serve"] = "create"
  /\ \/ /\ world.set = "none" /\ world.mayCreate
        /\ world' = [world EXCEPT !.set = "valid"]
        /\ Goto("serve", AfterSet("serve"))
     \/ /\ world.set # "none" \/ ~world.mayCreate
        /\ Goto("serve", "refused")
        /\ UNCHANGED world
  /\ UNCHANGED <<cfg, warned, unchanged, promise>>

(* createRunnerScaleSet: the answer may be lost, and another controller may *)
(* have been faster.  The service answers with the set it was asked for.    *)
CreateScaleSet ==
  /\ pc["serve"] = "create"
  /\ \/ /\ world.set = "none" /\ world.mayCreate
        /\ world' = [world EXCEPT !.set = "valid"]
        /\ Goto("serve", AfterSet("serve")) \/ Goto("serve", "failed")
     \/ /\ world.set = "none" /\ ~world.mayCreate
        /\ Goto("serve", "refused")
        /\ UNCHANGED world
     \/ /\ world.set # "none"
        /\ Goto("serve", "reget")
        /\ UNCHANGED world
  /\ UNCHANGED <<cfg, warned, unchanged, promise>>

(* Looked up again after the conflict.                                      *)
RegetScaleSet ==
  /\ pc["serve"] = "reget"
  /\ Verdict("serve", world.set = "valid", AfterSet("serve"))
  /\ Asks

-----------------------------------------------------------------------------
(* Another controller creates the set, with the same contract.              *)
OtherController ==
  /\ world.set = "none"
  /\ world' = [world EXCEPT !.set = "valid"]
  /\ UNCHANGED <<cfg, pc, warned, unchanged, promise>>

Others ==
  /\ \/ \E fact \in Facts : world' = [world EXCEPT ![fact] = ~@]
     \/ \E set \in {"none", "valid", "invalid"} \ {world.set} : world' = [world EXCEPT !.set = set]
  /\ unchanged' = [p \in Programs |-> FALSE] /\ promise' = "none"
  /\ UNCHANGED <<cfg, pc, warned>>

Program(p) ==
  \/ CallFails(p)
  \/ ValidateVersions(p) \/ CheckRuntime(p) \/ InspectImage(p) \/ PullImage(p)
  \/ GetRunnerGroup(p)

Next ==
  \/ Check \/ Serve
  \/ \E p \in Programs : Program(p)
  \/ CheckScaleSet
  \/ EnsureScaleSet \/ CreateScaleSet \/ RegetScaleSet
  \/ OtherController \/ Others

Spec == Init /\ [][Next]_vars
-----------------------------------------------------------------------------
(* What a program that passed has found still holds as long as others leave *)
(* it alone: the calls of the two programs and another controller that      *)
(* creates the set do not spoil it.  "creation permission cannot be         *)
(* verified with read-only checks" (scaleset.go:146).                       *)
PassedIsUsable ==
  \A p \in Programs :
    pc[p] = "passed" /\ unchanged[p] =>
      /\ world.engine /\ world.local /\ world.group
      /\ cfg.runtime => world.runtime
      /\ world.set = "valid" \/ (p = "check" /\ warned /\ world.set = "none")

(* A startup after a check that passed is refused nothing, except, where    *)
(* the check has warned, the creation of the set.  Only a call that gets no *)
(* answer still makes it fail.                                              *)
CheckPredictsStartup ==
  pc["serve"] = "refused" => promise = "none" \/ (promise = "ifMayCreate" /\ ~world.mayCreate)
=============================================================================
