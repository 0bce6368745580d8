------------------------------ MODULE Recovery ------------------------------
(***************************************************************************)
(* What a startup makes of the containers it finds                         *)
(* (internal/controller/scaler.go, Recover; internal/docker/managed.go,    *)
(* ListManaged): containers of this controller, of others, and some whose  *)
(* labels no controller writes, on a host where a failed start is tried    *)
(* again.  DockerScaler takes the list to be right and its containers to   *)
(* be the controller's; here is why.                                       *)
(*                                                                         *)
(* Labels of a container never change.  The calls of one removal are in    *)
(* ManagedCleanup, what the process does after Recover in DockerScaler.    *)
(***************************************************************************)
EXTENDS Identity, FiniteSets, Sequences, SequencesExt

CONSTANTS
    Containers,         \* the containers, in the order of their IDs
    ScaleSetID,         \* the scale set of this controller
    LabelChoices,       \* labels that containers have in an instance
    CreationTimes       \* times at which they were created, in ticks

\* Docker's list has the time of creation in seconds.
TicksPerSecond == 2

ContainersAssumption == IsFiniteSet(Containers) /\ Containers \subseteq Nat
ScaleSetAssumption == ScaleSetID \in {1, 2}
ChoicesAssumption == LabelChoices \subseteq Labels /\ CreationTimes \subseteq Nat

VARIABLES
    state,      \* of each container
    labels,     \* of each container
    created,    \* the time each was created at
    phase,      \* where the process is
    list,       \* what Recover still has to look at
    seen,       \* the state the last inspect has shown
    adopted,    \* the protected runners
    touched     \* history: containers a stop or a removal was asked for

vars == <<state, labels, created, phase, list, seen, adopted, touched>>
host == <<state, labels, created>>

\* "running" stands for paused and restarting, "exited" for dead.  Docker may be
\* at removing a container.
States == {"created", "running", "exited", "removing", "gone"}
There == {c \in Containers : state[c] # "gone"}

TypeOK ==
    /\ state \in [Containers -> States]
    /\ labels \in [Containers -> Labels]
    /\ created \in [Containers -> Nat]
    /\ phase \in {"down", "list", "look", "decide", "serving"}
    /\ list \in Seq(Containers)
    /\ seen \in States
    /\ phase = "decide" => list # <<>> /\ seen # "gone"
    /\ adopted \subseteq Containers
    /\ touched \subseteq Containers

Init ==
    /\ state \in [Containers -> States \ {"gone"}]
    /\ labels \in [Containers -> LabelChoices]
    /\ created \in {f \in [Containers -> CreationTimes] : IsInjective(f)}
    /\ phase = "down"
    /\ list = <<>>
    /\ seen = "gone"
    /\ adopted = {}
    /\ touched = {}

Start ==
    /\ phase = "down"
    /\ phase' = "list"
    /\ UNCHANGED <<host, list, seen, adopted, touched>>

\* A set of containers as a list, the oldest first, by seconds, then by ID.
OldestFirst(S) ==
    LET second(c) == created[c] \div TicksPerSecond
        before(a, b) == second(a) < second(b) \/ (second(a) = second(b) /\ a < b)
    IN {s \in SetToSeqs(S) : \A i, j \in DOMAIN s : i < j => before(s[i], s[j])}

\* Mutant: every managed container is listed.
ListAllManaged ==
    /\ phase = "list"
    /\ list' \in OldestFirst({c \in There : labels[c].managed = "true"})
    /\ phase' = "look"
    /\ UNCHANGED <<host, seen, adopted, touched>>

ListManaged ==
    /\ phase = "list"
    /\ list' \in OldestFirst({c \in There : Listed(labels[c], ScaleSetID)})
    /\ phase' = "look"
    /\ UNCHANGED <<host, seen, adopted, touched>>

Skip ==
    /\ list' = Tail(list)
    /\ phase' = "look"

\* RefreshManaged and runnerRefFromManaged succeed, or find nothing.
Refresh(c) ==
    /\ phase = "look" /\ list # <<>> /\ Head(list) = c
    /\ Observable(labels[c])
    /\ \/ /\ state[c] = "gone"
          /\ Skip
          /\ UNCHANGED seen
       \/ /\ state[c] # "gone"
          /\ Verified(labels[c], ParsedIdentity(labels[c]))
          /\ Referable(labels[c])
          /\ phase' = "decide" /\ seen' = state[c]
          /\ UNCHANGED list
    /\ UNCHANGED <<host, adopted, touched>>

\* A container that does not run is removed, any other is adopted, one that
\* Docker is at removing too.
Decide(c) ==
    /\ phase = "decide" /\ Head(list) = c
    /\ \/ /\ seen \in {"created", "exited"}
          /\ state' = [state EXCEPT ![c] = "gone"]
          /\ touched' = touched \cup {c}
          /\ UNCHANGED adopted
       \/ /\ seen \in {"running", "removing"}
          /\ adopted' = adopted \cup {c}
          /\ UNCHANGED <<state, touched>>
    /\ Skip
    /\ UNCHANGED <<labels, created, seen>>

\* The loop is through.
Serve ==
    /\ phase = "look" /\ list = <<>>
    /\ phase' = "serving"
    /\ UNCHANGED <<host, list, seen, adopted, touched>>

\* An error of Recover ends the process, at whatever call: Docker fails, the
\* time for removals is over, or labels are not what they should be.  So does
\* a crash.  A removal that was asked for may be carried out.
Fail ==
    /\ phase # "down"
    /\ phase' = "down"
    /\ list' = <<>>
    /\ adopted' = {}
    /\ \/ UNCHANGED <<state, touched>>
       \/ /\ phase = "decide" /\ seen \in {"created", "exited"}
          /\ touched' = touched \cup {Head(list)}
          /\ state' \in {state, [state EXCEPT ![Head(list)] = "gone"]}
    /\ UNCHANGED <<labels, created, seen>>

\* The watch of an adopted runner removes it when it has ended, or finds that
\* it is gone.
WatchRemoves(c) ==
    /\ phase = "serving"
    /\ c \in adopted /\ state[c] \in {"exited", "removing", "gone"}
    /\ adopted' = adopted \ {c}
    /\ state' = [state EXCEPT ![c] = "gone"]
    /\ touched' = IF state[c] = "gone" THEN touched ELSE touched \cup {c}
    /\ UNCHANGED <<labels, created, phase, list, seen>>

\* Runners end, a start call of an earlier process comes late, operators
\* remove containers and removals come to their end.
Others ==
    /\ \E c \in There :
           \E next \in {"running", "exited", "removing", "gone"} \ {state[c]} :
               /\ next = "running" => state[c] = "created"
               /\ next = "exited" => state[c] = "running"
               /\ state' = [state EXCEPT ![c] = next]
    /\ UNCHANGED <<labels, created, phase, list, seen, adopted, touched>>

Next ==
    \/ Start \/ ListManaged \/ Serve \/ Fail
    \/ \E c \in Containers : Refresh(c) \/ Decide(c) \/ WatchRemoves(c)
    \/ Others

\* The process is started again whenever it fails (README.md:28), and no call
\* fails for ever that could succeed.
Fairness ==
    /\ WF_vars(Start) /\ SF_vars(ListManaged) /\ SF_vars(Serve)
    /\ \A c \in Containers : SF_vars(Refresh(c)) /\ SF_vars(Decide(c))

Spec == Init /\ [][Next]_vars /\ Fairness
-----------------------------------------------------------------------------
(* Properties.                                                             *)

\* What a controller of this scale set writes on a container it creates.
WrittenByUs(l) ==
    \E identity \in Identities, instance \in Instances \ {""} :
        /\ identity.ScaleSetID = ScaleSetID
        /\ identity.RunnerID > 0 /\ identity.RunnerName # ""
        /\ l = BuildLabels(identity, instance)

\* No container is adopted, stopped or removed that does not carry, label by
\* label, what a controller of this scale set writes: not one of another set,
\* and not one that only looks alike (lifecycle.go:55-76, managed.go:88-103).
OursOnly == \A c \in adopted \cup touched : WrittenByUs(labels[c])

\* A startup that is through has dealt with every container of its set that
\* was there: it is adopted or gone.  What cannot be identified is not passed
\* over, it keeps the daemon from serving (scaler.go:264-287, managed.go:81).
NothingPassedOver ==
    phase = "serving" =>
        \A c \in There : Listed(labels[c], ScaleSetID) => c \in adopted

\* Recovery sees to the runners of its scale set, to all of them, and to no other
\* container.
RecoverySafe == TypeOK /\ OursOnly /\ NothingPassedOver

\* If nothing carries damaged labels, some startup gets through, whatever has
\* to be removed and however often calls fail (scaler.go:256-287).
RecoversInTheEnd ==
    (\A c \in Containers : Listed(labels[c], ScaleSetID) => WrittenByUs(labels[c]))
        => <>(phase = "serving")

=============================================================================
