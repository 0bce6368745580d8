---------------------------- MODULE Provisioning ----------------------------
(***************************************************************************)
(* How one runner is made (internal/controller/scaler.go, provision): a    *)
(* name is made up, GitHub registers a runner of that name and answers     *)
(* with its number and its credentials (internal/scaleset/jit.go), both    *)
(* become a container specification (internal/docker/managed_spec.go), the *)
(* container is created and started.  The same things are validated up to  *)
(* four times on the way, in three packages: each time before something    *)
(* that cannot be undone, or after it.                                     *)
(*                                                                         *)
(* DockerScaler has this as two steps, with every failure; here is which   *)
(* failures there are.  Names shows that generated names are valid.        *)
(***************************************************************************)
EXTENDS Identity

CONSTANTS
    Image,          \* runner.image of a configuration that was accepted
    Version,        \* of the build
    Instance,       \* the controller instance
    ScaleSetID      \* what EnsureScaleSet returned

ConfigAssumption == Image # "" /\ Version # "" /\ Instance \in Instances \ {""}
ScaleSetAssumption == ScaleSetID \in {1, 2}

\* What GitHub may answer, of which any part may be wrong or missing.
Runners == [ID : -1..2, Name : Names, RunnerScaleSetID : 0..2]
Answers == [Runner : Runners, EncodedJITConfig : {"", "jit"}]
NoAnswer == [Runner |-> [ID |-> 0, Name |-> "", RunnerScaleSetID |-> 0],
             EncodedJITConfig |-> ""]

NoSpec == [Name |-> "", Image |-> "", Env |-> {},
           Labels |-> [managed |-> "", scaleSetID |-> "", runnerID |-> "",
                       runnerName |-> "", controllerInstance |-> "", createdAt |-> ""]]

VARIABLES
    at,         \* the call provision makes next
    name,       \* the name it asks for
    registered, \* whether GitHub has registered a runner
    answer,     \* what GitHub answered
    spec,       \* the specification of the container
    container,  \* what Docker has
    inTable,    \* the runner is in the table and watched
    result      \* what provision returned

vars == <<at, name, registered, answer, spec, container, inTable, result>>

\* "refused" is an error of a local check, "failed" one of a call.
TypeOK ==
    /\ at \in {"name", "ask", "github", "check", "build", "create", "start",
               "cleanup", "returned"}
    /\ name \in Names
    /\ registered \in BOOLEAN
    /\ answer \in Answers
    /\ spec.Labels \in Labels
    /\ container \in {"none", "created", "running"}
    /\ inTable \in BOOLEAN
    /\ result \in {"none", "refused", "failed", "done"}
    /\ at = "returned" <=> result # "none"
    /\ container # "none" => registered
    /\ result = "done" <=> inTable

Init ==
    /\ at = "name"
    /\ name = ""
    /\ registered = FALSE
    /\ answer = NoAnswer
    /\ spec = NoSpec
    /\ container = "none"
    /\ inTable = FALSE
    /\ result = "none"

Return(error) == at' = "returned" /\ result' = error

GoOn(call) == at' = call /\ UNCHANGED result

\* Names shows it of generated names; of these, "" is not one.
ValidRunnerName(n) == n # ""

GenerateName ==
    /\ at = "name"
    /\ \/ name' = "name" /\ GoOn("ask")
       \/ UNCHANGED name /\ Return("failed")
    /\ UNCHANGED <<registered, answer, spec, container, inTable>>

ValidateJitInput ==
    /\ at = "ask"
    /\ IF ScaleSetID > 0 /\ ValidRunnerName(name) THEN GoOn("github") ELSE Return("refused")
    /\ UNCHANGED <<name, registered, answer, spec, container, inTable>>

\* GitHub registers a runner or not; the answer may get lost, or time is over.
GenerateJitRunnerConfig ==
    /\ at = "github"
    /\ registered' \in BOOLEAN
    /\ \/ /\ registered'
          /\ answer' \in Answers
          /\ GoOn("check")
       \/ UNCHANGED answer /\ Return("failed")
    /\ UNCHANGED <<name, spec, container, inTable>>

RightAnswer(a) ==
    /\ a.Runner.ID > 0
    /\ a.Runner.Name = name
    /\ a.Runner.RunnerScaleSetID = ScaleSetID
    /\ a.EncodedJITConfig # ""

ValidateJitConfig ==
    /\ at = "check"
    /\ IF RightAnswer(answer) THEN GoOn("build") ELSE Return("refused")
    /\ UNCHANGED <<name, registered, answer, spec, container, inTable>>

RunnerIdentity ==
    [ScaleSetID |-> ScaleSetID, RunnerID |-> answer.Runner.ID,
     RunnerName |-> answer.Runner.Name]

ValidateSpecInput ==
    /\ Image # ""
    /\ answer.EncodedJITConfig # ""
    /\ Instance # ""
    /\ Version # ""
    /\ RunnerIdentity.ScaleSetID > 0 /\ RunnerIdentity.RunnerID > 0
    /\ ValidRunnerName(RunnerIdentity.RunnerName)

\* Mutant: the return code variable has no value.
ManagedSpecNoReturn ==
    [Name |-> "ghadc-", Image |-> Image, Labels |-> BuildLabels(RunnerIdentity, Instance),
     Env |-> {<<"ACTIONS_RUNNER_INPUT_JITCONFIG", answer.EncodedJITConfig>>,
              <<"ACTIONS_RUNNER_RETURN_VERSION_DEPRECATED_EXIT_CODE", "">>,
              <<"GITHUB_ACTIONS_RUNNER_EXTRA_USER_AGENT", Version>>}]

ManagedSpec ==
    [Name |-> "ghadc-", Image |-> Image, Labels |-> BuildLabels(RunnerIdentity, Instance),
     Env |-> {<<"ACTIONS_RUNNER_INPUT_JITCONFIG", answer.EncodedJITConfig>>,
              <<"ACTIONS_RUNNER_RETURN_VERSION_DEPRECATED_EXIT_CODE", "1">>,
              <<"GITHUB_ACTIONS_RUNNER_EXTRA_USER_AGENT", Version>>}]

BuildManagedSpec ==
    /\ at = "build"
    /\ IF ValidateSpecInput
       THEN spec' = ManagedSpec /\ GoOn("create")
       ELSE UNCHANGED spec /\ Return("refused")
    /\ UNCHANGED <<name, registered, answer, container, inTable>>

\* The environment has the variable, with a value that is not empty.
HasValue(s, variable) == \E e \in s.Env : e[1] = variable /\ e[2] # ""

ValidateManagedSpec(s) ==
    /\ RunnerIdentity.ScaleSetID > 0 /\ RunnerIdentity.RunnerID > 0
    /\ ValidRunnerName(RunnerIdentity.RunnerName)
    /\ s.Name # "" /\ s.Image # ""
    /\ ValidateLabels(s.Labels, RunnerIdentity)
    /\ HasValue(s, "ACTIONS_RUNNER_INPUT_JITCONFIG")
    /\ <<"ACTIONS_RUNNER_RETURN_VERSION_DEPRECATED_EXIT_CODE", "1">> \in s.Env
    /\ HasValue(s, "GITHUB_ACTIONS_RUNNER_EXTRA_USER_AGENT")

\* Docker may have created the container when the call fails.
CreateManaged ==
    /\ at = "create"
    /\ IF ValidateManagedSpec(spec)
       THEN \/ container' = "created" /\ (GoOn("start") \/ Return("failed"))
            \/ UNCHANGED container /\ Return("failed")
       ELSE UNCHANGED container /\ Return("refused")
    /\ UNCHANGED <<name, registered, answer, spec, inTable>>

\* The labels are looked at once more.  A start that fails may have succeeded.
StartManaged ==
    /\ at = "start"
    /\ \/ /\ Verified(spec.Labels, RunnerIdentity)
          /\ container' = "running" /\ inTable' = TRUE
          /\ Return("done")
       \/ /\ container' \in {"created", "running"} /\ UNCHANGED inTable
          /\ GoOn("cleanup")
    /\ UNCHANGED <<name, registered, answer, spec>>

\* Nothing is made of a removal that fails.
CleanupAfterProvisionFailure ==
    /\ at = "cleanup"
    /\ \/ UNCHANGED container
       \/ Verified(spec.Labels, RunnerIdentity) /\ container' = "none"
    /\ Return("failed")
    /\ UNCHANGED <<name, registered, answer, spec, inTable>>

Next ==
    \/ GenerateName \/ ValidateJitInput \/ GenerateJitRunnerConfig \/ ValidateJitConfig
    \/ BuildManagedSpec \/ CreateManaged \/ StartManaged \/ CleanupAfterProvisionFailure

Spec == Init /\ [][Next]_vars
-----------------------------------------------------------------------------
(* Properties.                                                             *)

\* Once GitHub has registered a runner and answered rightly, no check of the
\* controller refuses to go on: a refusal then would leave a runner at GitHub
\* that never comes, at every attempt (jit.go:66, managed_spec.go:44,
\* validator_identity.go:11-40, validator_managed.go:11-62).
NoLateRefusal ==
    result = "refused" => registered /\ ~RightAnswer(answer)

\* A wrong answer does not become a container: one that exists has the
\* credentials of a runner with the name that was asked for and of the scale set
\* of the controller (jit.go:66, 89-109).
OnlyWhatWasAskedFor ==
    container # "none" =>
        /\ answer.Runner.ID > 0
        /\ answer.Runner.Name = name /\ answer.Runner.RunnerScaleSetID = ScaleSetID
        /\ <<"ACTIONS_RUNNER_INPUT_JITCONFIG", "jit">> \in spec.Env

\* A container that exists, also one the process does not know of since a call
\* has failed, has labels by which the next startup finds it, takes it for the
\* controller's and identifies the runner whose credentials it has
\* (client.go:136-139, scaler.go:214).
FoundByItsLabels ==
    container # "none" =>
        /\ Listed(spec.Labels, ScaleSetID)
        /\ Observable(spec.Labels) /\ Referable(spec.Labels)
        /\ ParsedIdentity(spec.Labels) = RunnerIdentity

\* What provision leaves behind, at GitHub and in Docker, can be used and found.
ProvisionSafe == TypeOK /\ NoLateRefusal /\ OnlyWhatWasAskedFor /\ FoundByItsLabels

=============================================================================
