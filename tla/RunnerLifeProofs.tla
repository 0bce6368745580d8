-------------------------- MODULE RunnerLifeProofs --------------------------
(***************************************************************************)
(* Proofs about the machines of RunnerLife, one after the other: the       *)
(* removal, the watch, the making of a runner, its logs and the recovery.  *)
(* Of each there is an invariant that says more than the property, and     *)
(* which every step keeps: what is known at each point of the code.        *)
(***************************************************************************)
EXTENDS RunnerLife, Integers, FiniteSetTheorems, SequenceTheorems, TLAPS

-----------------------------------------------------------------------------
(* The removal.  TypeOK is inductive: it ties the result to the end of the *)
(* calls, which is what shows that each call is a step of the promise or a *)
(* stutter.  AtMostOneStray needs to know the calls at which a request may *)
(* still have been answered: CheckedBefore.                                *)

(* The labels are checked before each request, so the count can be one only *)
(* once they have changed, and where no check passes the count cannot grow. *)
CheckedBefore ==
  /\ labels = "ours" => strays = 0
  /\ pc \in {"stop", "remove"} => strays = 0
  /\ strays <= 1

(* The type of every variable, in every step of the removal and of others.  *)
LEMMA TypeStep == TypeOK /\ [Next]_vars => TypeOK'
<1> SUFFICES ASSUME TypeOK, [Next]_vars PROVE TypeOK'
  OBVIOUS
<1> USE DEF TypeOK, Live, Calls
<1>1. CASE Call
  <2> USE DEF Reads, NotFound, Fails, Return, Continue, Request
  <2>1. CASE VerifyManaged      BY <2>1 DEF VerifyManaged
  <2>2. CASE RefreshManaged     BY <2>2 DEF RefreshManaged
  <2>3. CASE StopManagedCheck   BY <2>3 DEF StopManagedCheck
  <2>4. CASE StopTakesEffect    BY <2>4 DEF StopTakesEffect
  <2>5. CASE containerStop      BY <2>5 DEF containerStop
  <2>6. CASE WaitContainer      BY <2>6 DEF WaitContainer
  <2>7. CASE ContainerInspect   BY <2>7 DEF ContainerInspect
  <2>8. CASE FetchLogs          BY <2>8 DEF FetchLogs
  <2>9. CASE RefreshManagedAgain BY <2>9 DEF RefreshManagedAgain
  <2>10. CASE containerRemove   BY <2>10 DEF containerRemove
  <2> QED BY <1>1, <2>1, <2>2, <2>3, <2>4, <2>5, <2>6, <2>7, <2>8, <2>9, <2>10 DEF Call
<1>2. CASE Others
  BY <1>2 DEF Others, ContainerExits, ContainerVanishes, PausedOrRestarted, LabelsChange, Unaware
<1>3. CASE UNCHANGED vars
  BY <1>3 DEF vars
<1> QED BY <1>1, <1>2, <1>3 DEF Next

(* The steps that make no request leave the count alone; those that lead to *)
(* one have seen the labels of the runner.                                  *)
LEMMA CheckedStep == TypeOK /\ CheckedBefore /\ [Next]_vars => CheckedBefore'
<1> SUFFICES ASSUME TypeOK, CheckedBefore, [Next]_vars PROVE CheckedBefore'
  OBVIOUS
<1> USE DEF TypeOK, CheckedBefore
<1>1. CASE Call
  <2> USE DEF Reads, NotFound, Fails, Return, Continue, Request, LabelsVerified
  <2>1. CASE VerifyManaged      BY <2>1 DEF VerifyManaged
  <2>2. CASE RefreshManaged     BY <2>2 DEF RefreshManaged
  <2>3. CASE StopManagedCheck   BY <2>3 DEF StopManagedCheck
  <2>4. CASE StopTakesEffect    BY <2>4 DEF StopTakesEffect
  <2>5. CASE containerStop      BY <2>5 DEF containerStop
  <2>6. CASE WaitContainer      BY <2>6 DEF WaitContainer
  <2>7. CASE ContainerInspect   BY <2>7 DEF ContainerInspect
  <2>8. CASE FetchLogs          BY <2>8 DEF FetchLogs
  <2>9. CASE RefreshManagedAgain BY <2>9 DEF RefreshManagedAgain
  <2>10. CASE containerRemove   BY <2>10 DEF containerRemove
  <2> QED BY <1>1, <2>1, <2>2, <2>3, <2>4, <2>5, <2>6, <2>7, <2>8, <2>9, <2>10 DEF Call
<1>2. CASE Others
  BY <1>2 DEF Others, ContainerExits, ContainerVanishes, PausedOrRestarted, LabelsChange, Unaware
<1>3. CASE UNCHANGED vars
  BY <1>3 DEF vars
<1> QED BY <1>1, <1>2, <1>3 DEF Next

(* Each call and each change by others is a step of the promise, or leaves  *)
(* it alone.                                                                *)
LEMMA PromiseStep == TypeOK /\ [Next]_vars => [Promise!Next]_(Promise!vars)
<1> SUFFICES ASSUME TypeOK, [Next]_vars PROVE [Promise!Next]_(Promise!vars)
  OBVIOUS
<1> USE DEF TypeOK, Live, Calls, AsPromised, needsStop, Promise!vars
<1>1. CASE Call
  <2> USE DEF Reads, NotFound, Fails, Return, Continue, Promise!Next, Promise!Removed, Promise!NotRemoved
  <2>1. CASE VerifyManaged      BY <2>1 DEF VerifyManaged
  <2>2. CASE RefreshManaged     BY <2>2 DEF RefreshManaged
  <2>3. CASE StopManagedCheck   BY <2>3 DEF StopManagedCheck
  <2>4. CASE StopTakesEffect    BY <2>4 DEF StopTakesEffect, Promise!StopManaged
  <2>5. CASE containerStop      BY <2>5 DEF containerStop
  <2>6. CASE WaitContainer      BY <2>6 DEF WaitContainer
  <2>7. CASE ContainerInspect   BY <2>7 DEF ContainerInspect
  <2>8. CASE FetchLogs          BY <2>8 DEF FetchLogs
  <2>9. CASE RefreshManagedAgain BY <2>9 DEF RefreshManagedAgain
  <2>10. CASE containerRemove   BY <2>10 DEF containerRemove
  <2> QED BY <1>1, <2>1, <2>2, <2>3, <2>4, <2>5, <2>6, <2>7, <2>8, <2>9, <2>10 DEF Call
<1>2. CASE Others
  <2> USE DEF Unaware, Promise!Next, Promise!ContainerExits, Promise!ContainerVanishes, Promise!Live
  <2>1. CASE ContainerExits     BY <2>1 DEF ContainerExits
  <2>2. CASE ContainerVanishes  BY <2>2 DEF ContainerVanishes
  <2>3. CASE PausedOrRestarted  BY <2>3 DEF PausedOrRestarted
  <2>4. CASE LabelsChange       BY <2>4 DEF LabelsChange
  <2> QED BY <1>2, <2>1, <2>2, <2>3, <2>4 DEF Others
<1>3. CASE UNCHANGED vars
  BY <1>3 DEF vars
<1> QED BY <1>1, <1>2, <1>3 DEF Next

(* Every variable keeps its type, and the removal has a result exactly when *)
(* it has returned (CleanupManaged, lifecycle.go:97).                       *)
THEOREM TypeCorrect == Spec => []TypeOK
<1>1. Init => TypeOK
  BY DEF Init, TypeOK, Live, Calls
<1> QED BY <1>1, TypeStep, PTL DEF Spec

(* The promise RemovalPromised: success means the container is gone, and no *)
(* container is removed while it runs.                                      *)
THEOREM RemovalRefines == Spec => RemovalPromised
<1>1. Init => Promise!Init
  BY DEF Init, Live, Promise!Init, Promise!Live, AsPromised, needsStop
<1> QED BY <1>1, TypeCorrect, PromiseStep, PTL DEF Spec, RemovalPromised, Promise!Spec

(* Of a container that stops being ours during the removal, at most one     *)
(* request is made: AtMostOneStray.                                         *)
THEOREM StrayBound == Spec => []AtMostOneStray
<1>1. Init => CheckedBefore
  BY DEF Init, CheckedBefore
<1>2. CheckedBefore => AtMostOneStray
  BY DEF CheckedBefore, AtMostOneStray
<1> QED BY <1>1, <1>2, TypeCorrect, CheckedStep, PTL DEF Spec

-----------------------------------------------------------------------------
(* The watch.  The provers take its clock, which is a number, and its flags *)
(* apart: Ticks is expanded only where the clock moves.                     *)

(* What is known of a watch at each of its points: who holds the one answer *)
(* that the wait has, and what an answer that is not taken yet says of      *)
(* Docker and of the container.                                             *)
WatchInv ==
  /\ WatchSafe
  /\ watch = "calling" => sdk = "none" /\ errC = "none" /\ drain = "none"
  /\ drain = "draining" => verdict # "none"
  /\ sdk = "sending" \/ verdict = "stopped" => runner # "running"
  /\ "failed" \in {errC, verdict} => faulty
  /\ "expired" \in {errC, verdict} => clock = HTTPTimeout
  /\ "cancelled" \in {errC, verdict} => cancelled

LEMMA WatchInit == W!Init => WatchInv
<1> SUFFICES ASSUME W!Init PROVE WatchInv
  OBVIOUS
<1>1. clock \in W!Ticks
  BY WatchAssumption DEF W!Init, W!Ticks, W!TimesAssumption
<1> QED
  BY <1>1 DEF W!Init, WatchInv, WatchSafe, W!WatchSafe, W!TypeOK, W!Errors,
              W!RemovesWhatHasEnded, W!NoneUnwatched, W!ReportsTroubleOnly

LEMMA WatchStep == WatchInv /\ [W!Next]_(W!vars) => WatchInv'
<1> SUFFICES ASSUME WatchInv, [W!Next]_(W!vars) PROVE WatchInv'
  OBVIOUS
<1> USE DEF WatchInv, WatchSafe, W!WatchSafe, W!TypeOK, W!Errors,
            W!RemovesWhatHasEnded, W!NoneUnwatched, W!ReportsTroubleOnly,
            W!docker, W!channels, W!table, W!vars, W!Refused
<1>1. CASE W!ContainerWait  BY <1>1 DEF W!ContainerWait
<1>2. CASE W!Answered       BY <1>2 DEF W!Answered
<1>3. CASE W!Broken
  <2>1. W!TypeOK'
    BY <1>3 DEF W!Broken
  <2> QED BY <1>3, <2>1 DEF W!Broken, W!Expired
<1>4. CASE W!TakeCancel     BY <1>4 DEF W!TakeCancel
<1>5. CASE W!TakeError      BY <1>5 DEF W!TakeError
<1>6. CASE W!TakeResult     BY <1>6 DEF W!TakeResult
<1>7. CASE W!Drain          BY <1>7 DEF W!Drain
<1>8. CASE W!WatchError
  <2>1. owned' \in BOOLEAN /\ notified' \in BOOLEAN
    BY <1>8 DEF W!WatchError
  <2>2. W!TypeOK'
    BY <1>8, <2>1 DEF W!WatchError
  <2>3. W!RemovesWhatHasEnded' /\ W!NoneUnwatched'
    BY <1>8 DEF W!WatchError
  <2>4. W!ReportsTroubleOnly'
    BY <1>8 DEF W!WatchError
  <2> QED BY <1>8, <2>2, <2>3, <2>4 DEF W!WatchError
<1>9. CASE W!WatchResult
  <2>1. owned' \in BOOLEAN /\ watch' \in {"removing", "returned"}
    BY <1>9 DEF W!WatchResult
  <2>2. W!TypeOK'
    BY <1>9, <2>1 DEF W!WatchResult
  <2>3. W!RemovesWhatHasEnded' /\ W!NoneUnwatched'
    BY <1>9 DEF W!WatchResult
  <2>4. W!ReportsTroubleOnly'
    BY <1>9 DEF W!WatchResult
  <2> QED BY <1>9, <2>2, <2>3, <2>4 DEF W!WatchResult
<1>10. CASE W!WatchRemoves
  <2>1. faulty' \in BOOLEAN /\ notified' \in BOOLEAN
    BY <1>10 DEF W!WatchRemoves
  <2>2. W!TypeOK'
    BY <1>10, <2>1 DEF W!WatchRemoves
  <2>3. W!RemovesWhatHasEnded' /\ W!NoneUnwatched'
    BY <1>10 DEF W!WatchRemoves
  <2>4. W!ReportsTroubleOnly'
    BY <1>10 DEF W!WatchRemoves
  <2> QED BY <1>10, <2>2, <2>3, <2>4 DEF W!WatchRemoves
<1>11. CASE W!JobCompleted
  <2>1. owned' \in BOOLEAN /\ runner' = "gone"
    BY <1>11 DEF W!JobCompleted
  <2>2. W!TypeOK'
    BY <1>11, <2>1 DEF W!JobCompleted
  <2>3. W!RemovesWhatHasEnded' /\ W!NoneUnwatched'
    BY <1>11 DEF W!JobCompleted
  <2>4. W!ReportsTroubleOnly'
    BY <1>11 DEF W!JobCompleted
  <2> QED BY <1>11, <2>2, <2>3, <2>4 DEF W!JobCompleted
<1>12. CASE W!Shutdown      BY <1>12 DEF W!Shutdown
<1>13. CASE W!ContainerEnds BY <1>13 DEF W!ContainerEnds
<1>14. CASE W!Tick
  <2>1. clock' \in W!Ticks /\ clock # HTTPTimeout
    BY <1>14, WatchAssumption DEF W!Tick, W!Ticks, W!TimesAssumption
  <2>2. UNCHANGED <<runner, faulty, W!channels, watch, verdict, drain, cancelled, W!table>>
    BY <1>14 DEF W!Tick
  <2> QED BY <2>1, <2>2
<1>15. CASE UNCHANGED W!vars
  BY <1>15
<1> QED
  BY <1>1, <1>2, <1>3, <1>4, <1>5, <1>6, <1>7, <1>8, <1>9, <1>10, <1>11, <1>12, <1>13,
     <1>14, <1>15 DEF W!Next, W!WaitContainer

(* A watch removes only what has ended, leaves no runner in the table unless *)
(* it is watched, given up by a shutdown or the daemon ends, and reports     *)
(* nothing but troubles, for every timeout and lifetime (scaler.go:308-342). *)
THEOREM WatchIsSafe == W!Spec => []WatchSafe
<1>1. WatchInv => WatchSafe
  BY DEF WatchInv
<1> QED BY <1>1, WatchInit, WatchStep, PTL DEF W!Spec

-----------------------------------------------------------------------------
(* The making of a runner. *)

(* A number of an identity is read back as what was written. *)
LEMMA FormatIsRead ==
  ASSUME NEW n \in {1, 2}
  PROVE  P!FormatInt(n) \in P!Canonical /\ P!Written[P!FormatInt(n)] = n
<1>1. \E s \in P!Canonical : P!Written[s] = n
  <2>1. P!Written["1"] = 1 /\ P!Written["2"] = 2
    BY DEF P!Written
  <2> QED BY <2>1 DEF P!Canonical
<1> QED BY <1>1 DEF P!FormatInt

(* The numbers of an identity that are allowed. *)
LEMMA NumbersAbove == \A n \in -1..2 : n > 0 => n \in {1, 2}
OBVIOUS

(* The labels of a runner identify it, to every function that reads them. *)
LEMMA LabelsIdentify ==
  ASSUME NEW identity \in P!Identities, NEW instance \in P!Instances,
         identity.ScaleSetID > 0, identity.RunnerID > 0, identity.RunnerName # "",
         instance # ""
  PROVE  LET l == P!BuildLabels(identity, instance)
         IN  /\ l \in P!Labels
             /\ P!ValidateLabels(l, identity)
             /\ P!ParsedIdentity(l) = identity
             /\ P!Listed(l, identity.ScaleSetID)
             /\ P!Observable(l) /\ P!Referable(l)
<1> DEFINE l == P!BuildLabels(identity, instance)
<1>1. identity.ScaleSetID \in {1, 2} /\ identity.RunnerID \in {1, 2}
  <2>1. identity.ScaleSetID \in -1..2 /\ identity.RunnerID \in -1..2
    BY DEF P!Identities
  <2> QED BY <2>1, NumbersAbove
<1>2. /\ identity.RunnerName \in P!Names
      /\ identity = [ScaleSetID |-> identity.ScaleSetID, RunnerID |-> identity.RunnerID,
                     RunnerName |-> identity.RunnerName]
  BY DEF P!Identities
<1>3. /\ l.scaleSetID \in P!Canonical /\ P!Written[l.scaleSetID] = identity.ScaleSetID
      /\ l.runnerID \in P!Canonical /\ P!Written[l.runnerID] = identity.RunnerID
  BY <1>1, FormatIsRead DEF P!BuildLabels
<1>4. P!Canonical \subseteq DOMAIN P!Written /\ P!Canonical \subseteq P!Numbers
  BY DEF P!Canonical, P!Written, P!Numbers
<1>5. l \in P!Labels
  BY <1>2, <1>3, <1>4 DEF P!BuildLabels, P!Labels, P!Times
<1>6. P!ValidateLabels(l, identity) /\ P!Listed(l, identity.ScaleSetID)
  BY DEF P!ValidateLabels, P!Listed, P!BuildLabels
<1>7. P!ParsedIdentity(l) = identity
  BY <1>2, <1>3 DEF P!ParsedIdentity, P!BuildLabels
<1>8. P!Observable(l)
  BY <1>3, <1>4, <1>6, <1>7 DEF P!Observable
<1>9. P!Referable(l)
  BY <1>3, <1>4 DEF P!Referable
<1> QED BY <1>5, <1>6, <1>7, <1>8, <1>9

(* What is known at each call that provision makes next: what has been      *)
(* checked, and that nothing it was checked on has changed since.           *)
ProvisionInv ==
  /\ ProvisionSafe
  /\ at \notin {"name", "returned"} => name = "name"
  /\ at \in {"check", "build", "create", "start", "cleanup"} => registered
  /\ at \in {"build", "create", "start", "cleanup"} => P!RightAnswer(answer)
  /\ at \in {"create", "start", "cleanup"} => spec = P!ManagedSpec
  /\ at \notin {"start", "cleanup", "returned"} => created = "none"
  /\ created # "none" => P!RightAnswer(answer) /\ spec = P!ManagedSpec

(* The specification of a right answer passes every check that comes after. *)
LEMMA RightSpecPasses ==
  ASSUME P!TypeOK, P!RightAnswer(answer), name = "name"
  PROVE  /\ P!ValidateSpecInput
         /\ P!ManagedSpec.Labels \in P!Labels
         /\ P!ValidateManagedSpec(P!ManagedSpec)
         /\ P!Verified(P!ManagedSpec.Labels, P!RunnerIdentity)
         /\ P!Listed(P!ManagedSpec.Labels, ScaleSetID)
         /\ P!Observable(P!ManagedSpec.Labels) /\ P!Referable(P!ManagedSpec.Labels)
         /\ P!ParsedIdentity(P!ManagedSpec.Labels) = P!RunnerIdentity
         /\ <<"ACTIONS_RUNNER_INPUT_JITCONFIG", "jit">> \in P!ManagedSpec.Env
<1> DEFINE identity == P!RunnerIdentity
           l == P!ManagedSpec.Labels
<1>1. /\ Image # "" /\ Version # "" /\ Instance # "" /\ Instance \in P!Instances
      /\ ScaleSetID \in {1, 2} /\ ScaleSetID \in -1..2 /\ ScaleSetID > 0
  <2>1. P!ConfigAssumption /\ P!ScaleSetAssumption
    BY ProvisionAssumption
  <2>2. Image # "" /\ Version # "" /\ Instance # "" /\ Instance \in P!Instances
    BY <2>1 DEF P!ConfigAssumption
  <2>3. ScaleSetID \in {1, 2}
    BY <2>1 DEF P!ScaleSetAssumption
  <2>4. ScaleSetID \in -1..2 /\ ScaleSetID > 0
    BY <2>3
  <2> QED BY <2>2, <2>3, <2>4
<1>2. answer.Runner \in P!Runners /\ answer.EncodedJITConfig \in {"", "jit"}
  BY DEF P!TypeOK, P!Answers
<1>3. /\ answer.Runner.ID \in -1..2 /\ answer.Runner.ID > 0 /\ answer.Runner.Name = "name"
      /\ answer.EncodedJITConfig = "jit"
  BY <1>2 DEF P!RightAnswer, P!Runners
<1>4. /\ identity.ScaleSetID = ScaleSetID /\ identity.RunnerID = answer.Runner.ID
      /\ identity.RunnerName = "name"
  BY <1>3 DEF P!RunnerIdentity
<1>5. identity \in P!Identities
  <2>1. "name" \in P!Names
    BY DEF P!Names
  <2> QED BY <1>1, <1>3, <2>1 DEF P!RunnerIdentity, P!Identities
<1>6. l = P!BuildLabels(identity, Instance)
  BY DEF P!ManagedSpec
<1>7. identity.ScaleSetID > 0 /\ identity.RunnerID > 0 /\ identity.RunnerName # ""
  BY <1>1, <1>3, <1>4
<1>8. /\ l \in P!Labels /\ P!ValidateLabels(l, identity) /\ P!ParsedIdentity(l) = identity
      /\ P!Listed(l, ScaleSetID) /\ P!Observable(l) /\ P!Referable(l)
  <2> HIDE DEF identity, l
  <2> QED BY <1>1, <1>4, <1>5, <1>6, <1>7, LabelsIdentify
<1>9. P!ValidateSpecInput
  BY <1>1, <1>3, <1>7 DEF P!ValidateSpecInput, P!ValidRunnerName
<1>10. P!Verified(l, identity)
  BY <1>7, <1>8 DEF P!Verified
<1>11. <<"ACTIONS_RUNNER_INPUT_JITCONFIG", "jit">> \in P!ManagedSpec.Env
  BY <1>3 DEF P!ManagedSpec
<1>12. P!HasValue(P!ManagedSpec, "ACTIONS_RUNNER_INPUT_JITCONFIG")
  BY <1>11 DEF P!HasValue
<1>13. P!HasValue(P!ManagedSpec, "GITHUB_ACTIONS_RUNNER_EXTRA_USER_AGENT")
  BY <1>1 DEF P!HasValue, P!ManagedSpec
<1>14. P!ValidateManagedSpec(P!ManagedSpec)
  <2>1. P!ManagedSpec.Name # "" /\ P!ManagedSpec.Image # ""
    BY <1>1 DEF P!ManagedSpec
  <2>2. <<"ACTIONS_RUNNER_RETURN_VERSION_DEPRECATED_EXIT_CODE", "1">> \in P!ManagedSpec.Env
    BY DEF P!ManagedSpec
  <2> QED BY <1>7, <1>8, <1>12, <1>13, <2>1, <2>2
          DEF P!ValidateManagedSpec, P!ValidRunnerName
<1> QED BY <1>8, <1>9, <1>10, <1>11, <1>14

LEMMA ProvisionInit == P!Init => ProvisionInv
<1> SUFFICES ASSUME P!Init PROVE ProvisionInv
  OBVIOUS
<1>1. answer \in P!Answers
  <2>1. 0 \in -1..2 /\ 0 \in 0..2
    OBVIOUS
  <2> QED BY <2>1 DEF P!Init, P!NoAnswer, P!Answers, P!Runners, P!Names
<1>2. spec.Labels \in P!Labels
  BY DEF P!Init, P!NoSpec, P!Labels, P!Numbers, P!Names, P!Instances, P!Times
<1> QED
  BY <1>1, <1>2 DEF P!Init, ProvisionInv, ProvisionSafe, P!ProvisionSafe, P!TypeOK, P!Names,
     P!NoLateRefusal, P!OnlyWhatWasAskedFor, P!FoundByItsLabels

LEMMA ProvisionStep == ProvisionInv /\ [P!Next]_(P!vars) => ProvisionInv'
<1> SUFFICES ASSUME ProvisionInv, [P!Next]_(P!vars) PROVE ProvisionInv'
  OBVIOUS
<1> USE DEF ProvisionInv, ProvisionSafe, P!ProvisionSafe, P!TypeOK, P!NoLateRefusal,
            P!OnlyWhatWasAskedFor, P!FoundByItsLabels, P!GoOn, P!Return
<1>a. ScaleSetID > 0
  BY ProvisionAssumption DEF P!ScaleSetAssumption
<1>b. ASSUME UNCHANGED <<name, answer>>
      PROVE  /\ P!RightAnswer(answer)' <=> P!RightAnswer(answer)
             /\ P!RunnerIdentity' = P!RunnerIdentity
             /\ P!ManagedSpec' = P!ManagedSpec
  BY <1>b DEF P!RightAnswer, P!RunnerIdentity, P!ManagedSpec
<1>1. CASE P!GenerateName
  BY <1>1 DEF P!GenerateName, P!Names
<1>2. CASE P!ValidateJitInput
  BY <1>2, <1>a DEF P!ValidateJitInput, P!ValidRunnerName
<1>3. CASE P!GenerateJitRunnerConfig
  BY <1>3 DEF P!GenerateJitRunnerConfig
<1>4. CASE P!ValidateJitConfig
  BY <1>4, <1>b DEF P!ValidateJitConfig
<1>5. CASE P!BuildManagedSpec
  BY <1>5, <1>b, RightSpecPasses DEF P!BuildManagedSpec
<1>c. ASSUME spec = P!ManagedSpec, P!RightAnswer(answer), name = "name",
             UNCHANGED <<name, answer, spec>>
      PROVE  P!OnlyWhatWasAskedFor' /\ P!FoundByItsLabels'
  <2>1. /\ answer.Runner.ID > 0 /\ answer.Runner.Name = name
        /\ answer.Runner.RunnerScaleSetID = ScaleSetID
        /\ <<"ACTIONS_RUNNER_INPUT_JITCONFIG", "jit">> \in spec.Env
    BY <1>c, RightSpecPasses DEF P!RightAnswer
  <2>2. /\ P!Listed(spec.Labels, ScaleSetID)
        /\ P!Observable(spec.Labels) /\ P!Referable(spec.Labels)
        /\ P!ParsedIdentity(spec.Labels) = P!RunnerIdentity
    BY <1>c, RightSpecPasses
  <2> QED BY <2>1, <2>2, <1>b, <1>c
<1>6. CASE P!CreateManaged
  <2>1. /\ at = "create" /\ registered
        /\ created' \in {"none", "created"}
        /\ \/ at' = "start" /\ UNCHANGED result
           \/ at' = "returned" /\ result' = "failed"
        /\ UNCHANGED <<name, registered, answer, spec, inTable>>
    BY <1>6, RightSpecPasses DEF P!CreateManaged
  <2>2. P!TypeOK' /\ P!NoLateRefusal'
    BY <2>1
  <2>3. P!OnlyWhatWasAskedFor' /\ P!FoundByItsLabels'
    BY <2>1, <1>c
  <2> QED BY <2>1, <2>2, <2>3, <1>b
<1>7. CASE P!StartManaged
  <2>1. /\ at = "start" /\ registered
        /\ created' \in {"created", "running"}
        /\ UNCHANGED <<name, registered, answer, spec>>
    BY <1>7 DEF P!StartManaged
  <2>2. \/ at' = "cleanup" /\ UNCHANGED <<result, inTable>>
        \/ at' = "returned" /\ result' = "done" /\ inTable' = TRUE
    BY <1>7 DEF P!StartManaged
  <2>3. (result = "done" <=> inTable)' /\ inTable' \in BOOLEAN
    <3>1. CASE at' = "cleanup" /\ UNCHANGED <<result, inTable>>
      BY <3>1
    <3>2. CASE at' = "returned" /\ result' = "done" /\ inTable' = TRUE
      BY <3>2
    <3> QED BY <2>2, <3>1, <3>2
  <2>4. (at = "returned" <=> result # "none")' /\ result' \in {"none", "refused", "failed", "done"}
    BY <2>1, <2>2
  <2>5. P!TypeOK' /\ P!NoLateRefusal'
    BY <2>1, <2>2, <2>3, <2>4
  <2>6. P!OnlyWhatWasAskedFor' /\ P!FoundByItsLabels'
    BY <2>1, <1>c
  <2> QED BY <2>1, <2>2, <2>5, <2>6, <1>b
<1>8. CASE P!CleanupAfterProvisionFailure
  BY <1>8, <1>b, RightSpecPasses DEF P!CleanupAfterProvisionFailure
<1>9. CASE UNCHANGED P!vars
  BY <1>9, <1>b DEF P!vars
<1> QED BY <1>1, <1>2, <1>3, <1>4, <1>5, <1>6, <1>7, <1>8, <1>9 DEF P!Next

(* A runner that GitHub has registered and described rightly is never given *)
(* up by a check of the controller, no wrong answer becomes a container, and *)
(* every container that exists is found and identified by its labels, for   *)
(* every configuration that is accepted (scaler.go:179-238).                *)
THEOREM ProvisionIsSafe == P!Spec => []ProvisionSafe
<1>1. ProvisionInv => ProvisionSafe
  BY DEF ProvisionInv
<1> QED BY <1>1, ProvisionInit, ProvisionStep, PTL DEF P!Spec

-----------------------------------------------------------------------------
(* The logs. *)

Least(a, b) == IF a > b THEN b ELSE a

(* The first n bytes of a stream. *)
FirstBytes(n) == [i \in 1..n |-> i]

(* A frame, sent after n bytes. *)
Frame(n, length) == [i \in 1..length |-> n + i]

LEMMA FirstBytesAreASeq ==
  ASSUME NEW n \in Nat
  PROVE  /\ FirstBytes(n) \in Seq(Nat) /\ Len(FirstBytes(n)) = n
         /\ \A i \in 1..n : FirstBytes(n)[i] = i
<1>1. FirstBytes(n) \in [1..n -> Nat]
  BY DEF FirstBytes
<1> QED BY <1>1 DEF FirstBytes

(* What is kept of a frame continues what is kept already, to the limit.    *)
LEMMA FrameContinues ==
  ASSUME NEW limit \in Nat, NEW n \in Nat, NEW length \in Nat
  PROVE  /\ FirstBytes(Least(n, limit))
              \o SubSeq(Frame(n, length), 1, Least(length, limit - Least(n, limit)))
                = FirstBytes(Least(n + length, limit))
         /\ Len(Frame(n, length)) = length
         /\ Least(n, limit) \in Nat /\ Least(n + length, limit) \in Nat
<1> DEFINE m == Least(n, limit)
           k == Least(length, limit - m)
           p == Frame(n, length)
           e == Least(n + length, limit)
           a == FirstBytes(m)
           b == SubSeq(p, 1, k)
           c == FirstBytes(e)
<1>1. m \in Nat /\ k \in Nat /\ e \in Nat /\ m + k = e /\ k <= length /\ (k > 0 => m = n)
  BY DEF Least
<1>2. p \in [1..length -> Nat] /\ \A i \in 1..length : p[i] = n + i
  BY DEF Frame
<1>3. p \in Seq(Nat) /\ Len(p) = length
  BY <1>2
<1>4. \A i \in 1..k : p[i] \in Nat /\ p[i] = n + i
  BY <1>1, <1>2
<1> HIDE DEF m, k, p, e
<1>5. b \in Seq(Nat) /\ Len(b) = k /\ \A i \in 1..k : b[i] = n + i
  <2>1. \A i \in 1..k : p[i] \in Nat
    BY <1>4
  <2>2. /\ SubSeq(p, 1, k) \in Seq(Nat)
        /\ Len(SubSeq(p, 1, k)) = IF 1 <= k THEN k - 1 + 1 ELSE 0
        /\ \A i \in 1..(k - 1 + 1) : SubSeq(p, 1, k)[i] = p[1 + i - 1]
    BY <1>1, <2>1, SubSeqProperties
  <2>3. k - 1 + 1 = k /\ \A i \in 1..k : 1 + i - 1 = i
    BY <1>1
  <2> QED BY <1>1, <1>4, <2>2, <2>3
<1>6. /\ a \in Seq(Nat) /\ Len(a) = m /\ \A i \in 1..m : a[i] = i
      /\ c \in Seq(Nat) /\ Len(c) = e /\ \A i \in 1..e : c[i] = i
  BY <1>1, FirstBytesAreASeq
<1> HIDE DEF a, b, c
<1>7. /\ a \o b \in Seq(Nat) /\ Len(a \o b) = e
      /\ \A i \in 1..e : (a \o b)[i] = IF i <= m THEN a[i] ELSE b[i - m]
  BY <1>1, <1>5, <1>6, ConcatProperties
<1>8. \A i \in 1..e : (a \o b)[i] = c[i]
  <2> SUFFICES ASSUME NEW i \in 1..e PROVE (a \o b)[i] = i
    BY <1>6
  <2>1. CASE i <= m
    BY <1>1, <1>6, <1>7, <2>1
  <2>2. CASE ~(i <= m)
    <3>1. i - m \in 1..k /\ m = n
      BY <1>1, <2>2
    <3>2. b[i - m] = n + (i - m)
      BY <1>5, <3>1
    <3> QED BY <1>1, <1>7, <2>2, <3>1, <3>2
  <2> QED BY <2>1, <2>2
<1>9. a \o b = c
  BY <1>6, <1>7, <1>8, SeqEqual
<1> QED BY <1>1, <1>3, <1>9 DEF m, k, p, e, a, b, c

(* The variables of FetchLogs have their types, and LogsSafe holds. *)
LogsInv ==
  /\ LogsSafe
  /\ options \in [L!Streams -> Limits]
  /\ sent \in [L!Streams -> Nat]
  /\ buf \in [L!Streams -> Seq(Nat)]

(* Whatever a caller asks for, the limit is a number of bytes. *)
LEMMA LimitIsNat ==
  ASSUME options \in [L!Streams -> Limits], NEW s \in L!Streams
  PROVE  L!Limit(s) \in Nat
<1>1. options[s] \in Int /\ DefaultLogBytesPerStream \in Nat
  BY LogsAssumption DEF L!BytesAssumption
<1> QED BY <1>1 DEF L!Limit

LEMMA LogsInit == L!Init => LogsInv
<1> SUFFICES ASSUME L!Init PROVE LogsInv
  OBVIOUS
<1>1. /\ options \in [L!Streams -> Limits] /\ sent \in [L!Streams -> Nat]
      /\ buf \in [L!Streams -> Seq(Nat)]
  <2>1. <<>> \in Seq(Nat)
    BY EmptySeq
  <2> QED BY <2>1 DEF L!Init
<1>2. ASSUME NEW s \in L!Streams
      PROVE  buf[s] = [i \in 1..(IF sent[s] > L!Limit(s) THEN L!Limit(s) ELSE sent[s]) |-> i]
  <2>1. L!Limit(s) \in Nat
    BY <1>1, LimitIsNat
  <2>2. sent[s] = 0 /\ buf[s] = <<>>
    BY DEF L!Init
  <2>3. FirstBytes(0) = <<>>
    BY FirstBytesAreASeq, EmptySeq
  <2> QED BY <2>1, <2>2, <2>3 DEF FirstBytes
<1>3. L!KeepsBeginning
  BY <1>2 DEF L!KeepsBeginning
<1>4. L!DrainsStream
  BY DEF L!Init, L!DrainsStream
<1> QED BY <1>1, <1>3, <1>4 DEF LogsInv, LogsSafe, L!LogsSafe

LEMMA LogsStep == LogsInv /\ [L!Next]_(L!vars) => LogsInv'
<1> SUFFICES ASSUME LogsInv, [L!Next]_(L!vars) PROVE LogsInv'
  OBVIOUS
<1> USE DEF LogsInv, LogsSafe, L!LogsSafe
<1>1. ASSUME UNCHANGED <<options, sent, buf>> PROVE L!KeepsBeginning'
  BY <1>1 DEF L!KeepsBeginning, L!Limit
<1>2. CASE L!OpenLogs
  <2>1. L!DrainsStream'
    BY <1>2 DEF L!OpenLogs, L!Return, L!DrainsStream
  <2> QED BY <1>1, <1>2, <2>1 DEF L!OpenLogs
<1>3. CASE L!StreamEnds
  <2>1. L!DrainsStream'
    BY <1>3 DEF L!StreamEnds, L!Return, L!DrainsStream
  <2> QED BY <1>1, <1>3, <2>1 DEF L!StreamEnds
<1>4. ASSUME NEW s \in L!Streams, NEW length \in 1..MaxFrame, L!CopyFrame(s, length)
      PROVE  LogsInv'
  <2> DEFINE n == sent[s]
             p == Frame(n, length)
             w == L!Write(s, p)
             limit == L!Limit(s)
             total == Least(n + length, limit)
  <2>1. n \in Nat /\ limit \in Nat /\ length \in Nat
    BY LimitIsNat, LogsAssumption DEF L!BytesAssumption
  <2>2. buf[s] = FirstBytes(Least(n, limit))
    BY DEF L!KeepsBeginning, FirstBytes, Least
  <2>3. Len(buf[s]) = Least(n, limit)
    BY <2>1, <2>2, FirstBytesAreASeq, FrameContinues
  <2>4. Len(p) = length /\ w.n = Len(p) /\ w.kept = FirstBytes(total)
    <3> DEFINE m == Least(n, limit)
               k == Least(length, limit - m)
    <3>1. Len(p) = length /\ FirstBytes(m) \o SubSeq(p, 1, k) = FirstBytes(total)
      <4> HIDE DEF limit, n
      <4> QED BY <2>1, FrameContinues
    <3>2. w.n = Len(p)
      BY DEF L!Write
    <3>3. w.kept = buf[s] \o SubSeq(p, 1, k)
      <4>1. limit - Len(buf[s]) = limit - m
        BY <2>3
      <4> HIDE DEF m, p
      <4> QED BY <3>1, <4>1 DEF L!Write, Least
    <3>4. buf[s] = FirstBytes(m)
      BY <2>2
    <3> HIDE DEF m, k, p, w, total
    <3> QED BY <3>1, <3>2, <3>3, <3>4
  <2>5. /\ buf' = [buf EXCEPT ![s] = FirstBytes(total)]
        /\ sent' = [sent EXCEPT ![s] = n + length]
        /\ UNCHANGED <<step, stream, err, options, fault>>
    <3> HIDE DEF p, w, total
    <3>1. /\ buf' = [buf EXCEPT ![s] = w.kept]
          /\ IF w.n = Len(p) THEN UNCHANGED <<step, stream, err>> ELSE L!Return(TRUE)
          /\ sent' = [sent EXCEPT ![s] = n + length]
          /\ UNCHANGED <<options, fault>>
      BY <1>4 DEF L!CopyFrame, p, w, Frame
    <3> QED BY <2>4, <3>1
  <2>6. total \in Nat /\ FirstBytes(total) \in Seq(Nat)
    BY <2>1, FrameContinues, FirstBytesAreASeq
  <2>7. ASSUME NEW r \in L!Streams
        PROVE  buf'[r] = [i \in 1..(IF sent'[r] > L!Limit(r)' THEN L!Limit(r)'
                                    ELSE sent'[r]) |-> i]
    <3>1. L!Limit(r)' = L!Limit(r)
      BY <2>5 DEF L!Limit
    <3>2. CASE r = s
      BY <2>5, <3>1, <3>2 DEF FirstBytes, Least
    <3>3. CASE r # s
      BY <2>5, <3>1, <3>3 DEF L!KeepsBeginning
    <3> QED BY <3>2, <3>3
  <2>8. L!KeepsBeginning'
    BY <2>7 DEF L!KeepsBeginning
  <2>9. L!DrainsStream'
    BY <2>5 DEF L!DrainsStream
  <2>10. sent' \in [L!Streams -> Nat] /\ buf' \in [L!Streams -> Seq(Nat)]
    BY <2>1, <2>5, <2>6
  <2> QED BY <2>5, <2>8, <2>9, <2>10
<1>5. CASE UNCHANGED L!vars
  BY <1>1, <1>5 DEF L!vars, L!DrainsStream
<1> QED BY <1>2, <1>3, <1>4, <1>5 DEF L!Next

(* Of each stream the beginning is kept, up to the limit and without a gap, *)
(* and only the daemon makes FetchLogs fail, for every limit, however the   *)
(* frames are cut (lifecycle.go:184-254).                                   *)
THEOREM LogsAreSafe == L!Spec => []LogsSafe
<1>1. LogsInv => LogsSafe
  BY DEF LogsInv
<1> QED BY <1>1, LogsInit, LogsStep, PTL DEF L!Spec

-----------------------------------------------------------------------------
(* The recovery. *)

(* Labels that are listed and identified are those of a runner that some    *)
(* controller of the scale set has made.                                    *)
LEMMA IdentifiedIsOurs ==
  ASSUME NEW l \in R!Labels, R!Listed(l, ScaleSetID), R!Observable(l)
  PROVE  R!WrittenByUs(l)
<1> DEFINE identity == R!ParsedIdentity(l)
<1>1. /\ l.managed = "true" /\ l.createdAt = "utc" /\ l.controllerInstance # ""
      /\ l.scaleSetID = R!FormatInt(identity.ScaleSetID)
      /\ l.runnerID = R!FormatInt(identity.RunnerID)
      /\ l.runnerName = identity.RunnerName /\ identity.RunnerName # ""
      /\ identity.RunnerID > 0
  BY DEF R!Observable, R!ValidateLabels
<1>2. l.controllerInstance \in R!Instances \ {""}
  BY <1>1 DEF R!Labels
<1>3. l = R!BuildLabels(identity, l.controllerInstance)
  <2>1. l = [managed |-> l.managed, scaleSetID |-> l.scaleSetID, runnerID |-> l.runnerID,
             runnerName |-> l.runnerName, controllerInstance |-> l.controllerInstance,
             createdAt |-> l.createdAt]
    BY DEF R!Labels
  <2> HIDE DEF identity
  <2> QED BY <1>1, <2>1 DEF R!BuildLabels
<1>4. identity \in R!Identities
  <2>1. \A s \in DOMAIN R!Written : R!Written[s] \in -1..2
    BY DEF R!Written
  <2>2. /\ R!Written[l.scaleSetID] \in -1..2 /\ R!Written[l.runnerID] \in -1..2
        /\ l.runnerName \in R!Names
    BY <2>1 DEF R!Observable, R!Labels
  <2> QED BY <2>2 DEF R!ParsedIdentity, R!Identities
<1>5. identity.ScaleSetID = ScaleSetID
  <2>1. l.scaleSetID = R!FormatInt(ScaleSetID)
    BY DEF R!Listed
  <2>2. \A n \in {1, 2} : R!Written[R!FormatInt(n)] = n
    <3>1. R!Written["1"] = 1 /\ R!Written["2"] = 2
      BY DEF R!Written
    <3>2. \A n \in {1, 2} : \E s \in R!Canonical : R!Written[s] = n
      BY <3>1 DEF R!Canonical
    <3> QED BY <3>2 DEF R!FormatInt
  <2>3. ScaleSetID \in {1, 2}
    BY RecoveryAssumption DEF R!ScaleSetAssumption
  <2> QED BY <2>1, <2>2, <2>3 DEF R!ParsedIdentity
<1> HIDE DEF identity
<1> QED BY <1>1, <1>2, <1>3, <1>4, <1>5 DEF R!WrittenByUs

(* The list of a set has every element of the set, and no other.            *)
LEMMA ListIsComplete ==
  ASSUME NEW S, S \subseteq Containers, NEW s \in R!OldestFirst(S)
  PROVE  s \in Seq(Containers) /\ R!ToSet(s) = S
<1>1. IsFiniteSet(S)
  <2>1. IsFiniteSet(Containers)
    BY RecoveryAssumption DEF R!ContainersAssumption, R!IsFiniteSet, IsFiniteSet
  <2> QED BY <2>1, FS_Subset
<1> DEFINE n == Cardinality(S)
<1>2. n \in Nat
  BY <1>1, FS_CardinalityType
<1>3. s \in [1..n -> S] /\ \A i, j \in 1..n : i # j => s[i] # s[j]
  <2>1. R!Cardinality(S) = n
    BY DEF R!Cardinality, Cardinality
  <2>2. s \in R!SetToSeqs(S)
    BY DEF R!OldestFirst
  <2> HIDE DEF n
  <2> QED BY <2>1, <2>2 DEF R!SetToSeqs
<1>4. s \in Injection(1..n, S)
  BY <1>3 DEF Injection, IsInjective
<1>5. Cardinality(1..n) = n
  BY <1>2, FS_Interval
<1>6. s \in Surjection(1..n, S)
  BY <1>1, <1>4, <1>5, FS_Injection
<1>7. R!ToSet(s) = S
  BY <1>3, <1>6 DEF Surjection, R!ToSet
<1> QED BY <1>2, <1>3, <1>7

LEMMA ListGoesOn ==
  ASSUME NEW s \in Seq(Containers), s # <<>>
  PROVE  /\ Head(s) \in Containers /\ Tail(s) \in Seq(Containers)
         /\ R!ToSet(s) = {Head(s)} \cup R!ToSet(Tail(s))
<1>1. /\ Head(s) \in Containers /\ Tail(s) \in Seq(Containers)
      /\ Len(Tail(s)) = Len(s) - 1 /\ \A i \in 1..Len(Tail(s)) : Tail(s)[i] = s[i + 1]
  BY HeadTailProperties
<1>2. Len(s) \in Nat \ {0} /\ Head(s) = s[1]
  BY EmptySeq
<1>3. DOMAIN s = 1..Len(s) /\ DOMAIN Tail(s) = 1..(Len(s) - 1)
  BY <1>1, LenProperties
<1>4. ASSUME NEW c \in R!ToSet(s) PROVE c = Head(s) \/ c \in R!ToSet(Tail(s))
  <2>1. PICK i \in 1..Len(s) : c = s[i]
    BY <1>3 DEF R!ToSet
  <2>2. CASE i = 1
    BY <1>2, <2>1, <2>2
  <2>3. CASE i # 1
    <3>1. i - 1 \in 1..(Len(s) - 1) /\ (i - 1) + 1 = i
      BY <1>2, <2>3
    <3>2. Tail(s)[i - 1] = c
      BY <1>1, <2>1, <3>1
    <3> QED BY <1>3, <3>1, <3>2 DEF R!ToSet
  <2> QED BY <2>2, <2>3
<1>5. ASSUME NEW c \in R!ToSet(Tail(s)) PROVE c \in R!ToSet(s)
  <2>1. PICK i \in 1..(Len(s) - 1) : c = Tail(s)[i]
    BY <1>3 DEF R!ToSet
  <2>2. i + 1 \in 1..Len(s) /\ c = s[i + 1]
    BY <1>1, <1>2, <2>1
  <2> QED BY <1>3, <2>2 DEF R!ToSet
<1>6. Head(s) \in R!ToSet(s)
  BY <1>2, <1>3 DEF R!ToSet
<1> QED BY <1>1, <1>4, <1>5, <1>6

(* What a startup has dealt with and what it has still to look at are all   *)
(* of its scale set, and together they are all that is there.               *)
RecoveryInv ==
  /\ RecoverySafe
  /\ \A c \in R!ToSet(list) : R!Listed(marks[c], ScaleSetID)
  /\ phase = "decide" => R!Observable(marks[Head(list)])
  /\ phase \in {"look", "decide", "serving"} =>
       \A c \in R!There :
           R!Listed(marks[c], ScaleSetID) => c \in adopted \cup R!ToSet(list)
  /\ phase = "serving" => list = <<>>

LEMMA EmptyListSet == R!ToSet(<<>>) = {}
BY DEF R!ToSet

LEMMA RecoveryInit == R!Init => RecoveryInv
<1> SUFFICES ASSUME R!Init PROVE RecoveryInv
  OBVIOUS
<1>1. LabelChoices \subseteq R!Labels /\ CreationTimes \subseteq Nat
  BY RecoveryAssumption DEF R!ChoicesAssumption
<1>2. R!TypeOK
  <2>1. state \in [Containers -> R!States] /\ marks \in [Containers -> R!Labels]
    BY <1>1 DEF R!Init
  <2>2. born \in [Containers -> Nat]
    BY <1>1 DEF R!Init
  <2>3. list \in Seq(Containers)
    BY EmptySeq DEF R!Init
  <2> QED BY <2>1, <2>2, <2>3 DEF R!Init, R!TypeOK, R!States
<1> QED
  BY <1>2, EmptyListSet DEF R!Init, RecoveryInv, RecoverySafe, R!RecoverySafe, R!OursOnly,
     R!NothingPassedOver

LEMMA RecoveryStep == RecoveryInv /\ [R!Next]_(R!vars) => RecoveryInv'
<1> SUFFICES ASSUME RecoveryInv, [R!Next]_(R!vars) PROVE RecoveryInv'
  OBVIOUS
<1> USE DEF RecoveryInv, RecoverySafe, R!RecoverySafe, R!TypeOK, R!OursOnly,
            R!NothingPassedOver, R!host, R!There
\* The head of the list, while it is decided about.
<1>a. ASSUME phase = "decide"
      PROVE  /\ Head(list) \in Containers /\ R!WrittenByUs(marks[Head(list)])
             /\ R!Listed(marks[Head(list)], ScaleSetID)
  BY <1>a, ListGoesOn, IdentifiedIsOurs
<1>b. ASSUME list # <<>>
      PROVE  /\ Tail(list) \in Seq(Containers)
             /\ R!ToSet(list) = {Head(list)} \cup R!ToSet(Tail(list))
  BY <1>b, ListGoesOn
<1>1. CASE R!Start
  BY <1>1 DEF R!Start
<1>2. CASE R!ListManaged
  <2> DEFINE ours == {c \in R!There : R!Listed(marks[c], ScaleSetID)}
  <2>1. list' \in R!OldestFirst(ours) /\ ours \subseteq Containers
    BY <1>2 DEF R!ListManaged
  <2>2. list' \in Seq(Containers) /\ R!ToSet(list') = ours
    <3> HIDE DEF ours
    <3> QED BY <2>1, ListIsComplete
  <2> QED BY <1>2, <2>2 DEF R!ListManaged
<1>3. CASE R!Serve
  BY <1>3, EmptyListSet DEF R!Serve
<1>4. CASE R!Fail
  <2>1. /\ phase' = "down" /\ list' = <<>> /\ adopted' = {}
        /\ UNCHANGED <<marks, born, seen>>
    BY <1>4 DEF R!Fail
  <2>2. \/ UNCHANGED <<state, touched>>
        \/ /\ phase = "decide" /\ touched' = touched \cup {Head(list)}
           /\ state' \in {state, [state EXCEPT ![Head(list)] = "gone"]}
    BY <1>4 DEF R!Fail
  <2>3. state' \in [Containers -> R!States]
    BY <2>2 DEF R!States
  <2>4. touched' \subseteq Containers /\ \A c \in touched' : R!WrittenByUs(marks[c])
    BY <2>2, <1>a
  <2> QED BY <2>1, <2>3, <2>4, EmptyListSet, EmptySeq
<1>5. ASSUME NEW c \in Containers, R!Refresh(c) PROVE RecoveryInv'
  BY <1>5, <1>b DEF R!Refresh, R!Skip
<1>6. ASSUME NEW c \in Containers, R!Decide(c) PROVE RecoveryInv'
  <2>1. /\ phase = "decide" /\ c = Head(list) /\ phase' = "look" /\ list' = Tail(list)
        /\ UNCHANGED <<marks, born, seen>>
    BY <1>6 DEF R!Decide, R!Skip
  <2>2. \/ /\ state' = [state EXCEPT ![c] = "gone"]
           /\ touched' = touched \cup {c} /\ adopted' = adopted
        \/ adopted' = adopted \cup {c} /\ UNCHANGED <<state, touched>>
    BY <1>6 DEF R!Decide
  <2>3. state' \in [Containers -> R!States] /\ list' \in Seq(Containers)
    BY <2>1, <2>2, <1>b DEF R!States
  <2>4. R!OursOnly' /\ adopted' \subseteq Containers /\ touched' \subseteq Containers
    BY <2>1, <2>2, <1>a
  <2>5. \A d \in R!There' : d \in R!There /\ (d = c => c \in adopted')
    BY <2>2
  <2>6. \A d \in R!There' :
            R!Listed(marks[d], ScaleSetID) => d \in adopted' \cup R!ToSet(list')
    BY <2>1, <2>2, <2>5, <1>b
  <2>7. \A d \in R!ToSet(list') : R!Listed(marks[d], ScaleSetID)
    BY <2>1, <1>b
  <2> QED BY <2>1, <2>3, <2>4, <2>6, <2>7
<1>7. ASSUME NEW c \in Containers, R!WatchRemoves(c) PROVE RecoveryInv'
  <2>1. /\ phase = "serving" /\ c \in adopted /\ adopted' = adopted \ {c}
        /\ state' = [state EXCEPT ![c] = "gone"]
        /\ touched' \subseteq touched \cup {c}
        /\ UNCHANGED <<marks, born, phase, list, seen>>
    BY <1>7 DEF R!WatchRemoves
  <2>2. state' \in [Containers -> R!States]
    BY <2>1 DEF R!States
  <2>3. R!There' = R!There \ {c}
    BY <2>1
  <2> QED BY <2>1, <2>2, <2>3, EmptyListSet
<1>8. CASE R!Others
  <2>1. PICK c \in R!There : \E next \in {"running", "exited", "removing", "gone"} :
                                  state' = [state EXCEPT ![c] = next]
    BY <1>8 DEF R!Others
  <2>2. UNCHANGED <<marks, born, phase, list, seen, adopted, touched>>
    BY <1>8 DEF R!Others
  <2>3. state' \in [Containers -> R!States] /\ R!There' \subseteq R!There
    BY <2>1 DEF R!States
  <2> QED BY <2>2, <2>3
<1>9. CASE UNCHANGED R!vars
  BY <1>9 DEF R!vars
<1> QED BY <1>1, <1>2, <1>3, <1>4, <1>5, <1>6, <1>7, <1>8, <1>9 DEF R!Next

(* A startup adopts, stops or removes only containers that carry, label by  *)
(* label, what a controller of its scale set writes, and does not serve     *)
(* before it has dealt with all of them, for every host, however often it   *)
(* fails and is tried again (scaler.go:256-287, managed.go:80-147).         *)
THEOREM RecoveryIsSafe == R!Spec => []RecoverySafe
<1>1. RecoveryInv => RecoverySafe
  BY DEF RecoveryInv
<1> QED BY <1>1, RecoveryInit, RecoveryStep, PTL DEF R!Spec

=============================================================================
