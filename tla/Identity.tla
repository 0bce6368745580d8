------------------------------ MODULE Identity ------------------------------
(***************************************************************************)
(* Which labels a runner's container gets and which labels make a          *)
(* container count as a runner of this controller (internal/model/         *)
(* identity.go and the functions of internal/docker and                    *)
(* internal/controller that read labels).                                  *)
(*                                                                         *)
(* A label that is missing reads as "", as in the maps of the source.  Of  *)
(* a value, only what the functions tell apart is kept: numbers as they    *)
(* are written, times by whether they are written as the code writes them. *)
(***************************************************************************)
EXTENDS Integers

\* How a number may be written in a label, and what strconv.ParseInt makes of
\* it.  Only one way of writing each number is FormatInt's.
Written == [s \in {"-1", "0", "1", "2", "01", "+1"} |->
                CASE s = "-1" -> -1
                  [] s = "0" -> 0
                  [] s = "2" -> 2
                  [] OTHER -> 1]
Canonical == {"-1", "0", "1", "2"}
FormatInt(n) == CHOOSE s \in Canonical : Written[s] = n

Numbers == DOMAIN Written \cup {"", "junk"}
Names == {"", "name", "other"}
Instances == {"", "instance"}
\* "offset" is a valid time that Format would write in another way.
Times == {"", "junk", "offset", "utc"}

Labels == [managed : {"", "false", "true"}, scaleSetID : Numbers,
           runnerID : Numbers, runnerName : Names,
           controllerInstance : Instances, createdAt : Times]

\* What BuildLabels is given: a clock in UTC, and any identity.
Identities == [ScaleSetID : -1..2, RunnerID : -1..2, RunnerName : Names]

BuildLabels(identity, instance) ==
    [managed |-> "true",
     scaleSetID |-> FormatInt(identity.ScaleSetID),
     runnerID |-> FormatInt(identity.RunnerID),
     runnerName |-> identity.RunnerName,
     controllerInstance |-> instance,
     createdAt |-> "utc"]

\* Mutant: the check wants a format of time that nothing writes.
ValidateLabelsOtherFormat(labels, identity) ==
    /\ labels.managed = "true"
    /\ identity.ScaleSetID > 0 /\ labels.scaleSetID = FormatInt(identity.ScaleSetID)
    /\ identity.RunnerID > 0 /\ labels.runnerID = FormatInt(identity.RunnerID)
    /\ identity.RunnerName # "" /\ labels.runnerName = identity.RunnerName
    /\ labels.controllerInstance # ""
    /\ labels.createdAt = "junk"

ValidateLabels(labels, identity) ==
    /\ labels.managed = "true"
    /\ identity.ScaleSetID > 0 /\ labels.scaleSetID = FormatInt(identity.ScaleSetID)
    /\ identity.RunnerID > 0 /\ labels.runnerID = FormatInt(identity.RunnerID)
    /\ identity.RunnerName # "" /\ labels.runnerName = identity.RunnerName
    /\ labels.controllerInstance # ""
    /\ labels.createdAt = "utc"

ParsedIdentity(labels) ==
    [ScaleSetID |-> Written[labels.scaleSetID],
     RunnerID |-> Written[labels.runnerID],
     RunnerName |-> labels.runnerName]

\* identityFromObserved succeeds; then it returns ParsedIdentity.
Observable(labels) ==
    /\ labels.scaleSetID \in DOMAIN Written
    /\ labels.runnerID \in DOMAIN Written
    /\ ValidateLabels(labels, ParsedIdentity(labels))

\* verifyManagedLabels.
Verified(labels, identity) ==
    /\ identity.ScaleSetID > 0 /\ identity.RunnerID > 0
    /\ ValidateLabels(labels, identity)

\* The filter of ListManaged, at Docker and again in the client.
Listed(labels, scaleSetID) ==
    /\ labels.managed = "true"
    /\ labels.scaleSetID = FormatInt(scaleSetID)

\* runnerRefFromLabels succeeds; then it returns this number and the name.
Referable(labels) ==
    /\ labels.runnerID \in DOMAIN Written
    /\ Written[labels.runnerID] > 0

=============================================================================
