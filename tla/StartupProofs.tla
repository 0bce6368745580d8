---------------------------- MODULE StartupProofs ---------------------------
(***************************************************************************)
(* Proofs about a start: the checks against Docker and GitHub (Preflight), *)
(* the configuration they are made for (Configuration, as C), the command  *)
(* line that names it (CommandLine, as L), and the names of runners and    *)
(* containers that are made of what it says (Names, as N).                 *)
(***************************************************************************)
EXTENDS Startup, Integers, SequenceTheorems, WellFoundedInduction, TLAPS

(* The checks.  The invariant says which facts a program has established   *)
(* at each of its steps; the promise of a check is what it had established *)
(* at its end.                                                             *)

VersionsKnown == world.engine
RuntimeKnown  == cfg.runtime => world.runtime
ImageKnown    == world.local /\ (cfg.policy = "always" => world.registry)
SetKnown      == world.set = "valid" \/ (warned /\ world.set = "none")

ServeKnows ==
  unchanged["serve"] =>
    /\ pc["serve"] \in {"runtime", "image", "pull", "group", "set", "create", "reget", "passed"}
         => VersionsKnown
    /\ pc["serve"] \in {"image", "pull", "group", "set", "create", "reget", "passed"}
         => RuntimeKnown
    /\ pc["serve"] \in {"group", "set", "create", "reget", "passed"} => world.local
    /\ pc["serve"] \in {"set", "create", "reget", "passed"} => world.group
    /\ pc["serve"] = "passed" => world.set = "valid"

CheckKnows ==
  unchanged["check"] =>
    /\ pc["check"] \in {"set", "versions", "runtime", "image", "pull", "passed"} => world.group
    /\ pc["check"] \in {"versions", "runtime", "image", "pull", "passed"} => SetKnown
    /\ pc["check"] \in {"runtime", "image", "pull", "passed"} => VersionsKnown
    /\ pc["check"] \in {"image", "pull", "passed"} => RuntimeKnown
    /\ pc["check"] = "pull" => cfg.policy # "never"
    /\ pc["check"] = "passed" => ImageKnown

PromiseKept ==
  promise # "none" =>
    /\ VersionsKnown /\ RuntimeKnown /\ ImageKnown /\ world.group
    /\ world.set = "valid" \/ (promise = "ifMayCreate" /\ world.set = "none")

(* Why a program came to a step that it might have skipped.                 *)
StepsNeeded ==
  /\ \A p \in Programs : pc[p] = "runtime" => cfg.runtime
  /\ promise # "none" =>
       /\ pc["serve"] = "pull" => cfg.policy = "always"
       /\ pc["serve"] = "reget" => world.set = "valid"

IndInv ==
  /\ TypeOK
  /\ StepsNeeded
  /\ ServeKnows
  /\ CheckKnows
  /\ PromiseKept
  /\ CheckPredictsStartup

-----------------------------------------------------------------------------
LEMMA IndInvInit == Init => IndInv
BY DEF Init, IndInv, TypeOK, StepsNeeded, ServeKnows, CheckKnows, PromiseKept,
        CheckPredictsStartup, Programs,
       Steps

(* A step of one program.                                                   *)
LEMMA ProgramStep ==
  ASSUME IndInv, NEW p \in Programs, Program(p)
  PROVE  IndInv'
<1> USE DEF IndInv, TypeOK, World, StepsNeeded, ServeKnows, CheckKnows, PromiseKept,
        CheckPredictsStartup, VersionsKnown, RuntimeKnown, ImageKnown, SetKnown, Programs, Steps, Goto, Asks, Verdict,
        AfterVersions, AfterImage, AfterSet
<1>1. CASE CallFails(p)
  BY <1>1 DEF CallFails
<1>2. CASE ValidateVersions(p)
  BY <1>2 DEF ValidateVersions
<1>3. CASE CheckRuntime(p)
  BY <1>3 DEF CheckRuntime
<1>4. CASE InspectImage(p)
  <2>1. CASE cfg.policy = "always"
    BY <1>4, <2>1 DEF InspectImage
  <2>2. CASE cfg.policy = "if-not-present"
    BY <1>4, <2>2 DEF InspectImage
  <2>3. CASE cfg.policy = "never"
    BY <1>4, <2>3 DEF InspectImage
  <2> QED BY <2>1, <2>2, <2>3 DEF Policies
<1>5. CASE PullImage(p)
  <2>1. CASE world.registry
    <3>1. world' = [world EXCEPT !.local = TRUE] /\ world' \in World
      BY <1>5, <2>1 DEF PullImage
    <3>2. /\ world'.local /\ world'.engine = world.engine /\ world'.runtime = world.runtime
          /\ world'.registry = world.registry /\ world'.group = world.group
          /\ world'.mayCreate = world.mayCreate /\ world'.set = world.set
      BY <3>1
    <3>3. /\ pc[p] = "pull" /\ pc' = [pc EXCEPT ![p] = AfterImage(p)]
          /\ UNCHANGED <<cfg, warned, unchanged, promise>>
      BY <1>5, <2>1 DEF PullImage
    <3> QED BY <2>1, <3>1, <3>2, <3>3
  <2>2. CASE ~world.registry
    BY <1>5, <2>2 DEF PullImage
  <2> QED BY <2>1, <2>2
<1>6. CASE GetRunnerGroup(p)
  BY <1>6 DEF GetRunnerGroup
<1> QED BY <1>1, <1>2, <1>3, <1>4, <1>5, <1>6 DEF Program

(* The scale set, and the begin of a program.                               *)
LEMMA ScaleSetStep ==
  ASSUME IndInv,
         \/ Check \/ Serve \/ CheckScaleSet \/ EnsureScaleSet \/ CreateScaleSet \/ RegetScaleSet
  PROVE  IndInv'
<1> USE DEF IndInv, TypeOK, World, StepsNeeded, ServeKnows, CheckKnows, PromiseKept,
        CheckPredictsStartup, VersionsKnown, RuntimeKnown, ImageKnown, SetKnown, Programs,
        Steps, Goto, Asks, Verdict, AfterSet
<1>1. CASE Check
  <2>1. warned' \in BOOLEAN /\ UNCHANGED <<cfg, world, promise>>
    BY <1>1, Zenon DEF Check
  <2>2. /\ pc' = [pc EXCEPT !["check"] = "group"]
        /\ unchanged' = [unchanged EXCEPT !["check"] = TRUE]
    BY <1>1 DEF Check
  <2>3. /\ pc'["check"] = "group" /\ pc'["serve"] = pc["serve"]
        /\ pc' \in [Programs -> Steps \cup {"idle", "passed", "refused", "failed"}]
    BY <2>2
  <2>4. unchanged' \in [Programs -> BOOLEAN] /\ unchanged'["serve"] = unchanged["serve"]
    BY <2>2
  <2> QED BY <2>1, <2>3, <2>4
<1>2. CASE Serve
  BY <1>2 DEF Serve, Ended
<1>3. CASE CheckScaleSet
  BY <1>3 DEF CheckScaleSet
<1>4. CASE EnsureScaleSet
  BY <1>4 DEF EnsureScaleSet
<1>5. CASE CreateScaleSet
  <2>1. CASE world.set = "none" /\ world.mayCreate
    <3>1. world' = [world EXCEPT !.set = "valid"] /\ world' \in World
      BY <1>5, <2>1 DEF CreateScaleSet
    <3>2. /\ world'.set = "valid" /\ world'.engine = world.engine /\ world'.runtime = world.runtime
          /\ world'.local = world.local /\ world'.registry = world.registry
          /\ world'.group = world.group
      BY <3>1
    <3>3. /\ pc["serve"] = "create"
          /\ pc' = [pc EXCEPT !["serve"] = "passed"] \/ pc' = [pc EXCEPT !["serve"] = "failed"]
          /\ UNCHANGED <<cfg, warned, unchanged, promise>>
      BY <1>5, <2>1 DEF CreateScaleSet
    <3> QED BY <2>1, <3>1, <3>2, <3>3
  <2>2. CASE world.set = "none" /\ ~world.mayCreate
    BY <1>5, <2>2 DEF CreateScaleSet
  <2>3. CASE world.set # "none"
    BY <1>5, <2>3 DEF CreateScaleSet
  <2> QED BY <2>1, <2>2, <2>3
<1>6. CASE RegetScaleSet
  BY <1>6 DEF RegetScaleSet
<1> QED BY <1>1, <1>2, <1>3, <1>4, <1>5, <1>6

(* Others change one fact of the world.                                     *)
LEMMA OthersInWorld ==
  ASSUME world \in World, Others
  PROVE  world' \in World
<1>1. CASE \E fact \in Facts : world' = [world EXCEPT ![fact] = ~@]
  BY <1>1 DEF World, Facts
<1>2. CASE \E set \in {"none", "valid", "invalid"} : world' = [world EXCEPT !.set = set]
  BY <1>2 DEF World
<1> QED BY <1>1, <1>2 DEF Others

(* What others do.                                                          *)
LEMMA OthersStep ==
  ASSUME IndInv, OtherController \/ Others
  PROVE  IndInv'
<1> USE DEF IndInv, TypeOK, StepsNeeded, ServeKnows, CheckKnows, PromiseKept,
        CheckPredictsStartup, Programs
<1>1. CASE OtherController
  BY <1>1 DEF OtherController, World, VersionsKnown, RuntimeKnown, ImageKnown, SetKnown
<1>2. CASE Others
  <2>1. world' \in World
    BY <1>2, OthersInWorld
  <2>2. /\ ~unchanged["serve"]' /\ ~unchanged["check"]' /\ unchanged' \in [Programs -> BOOLEAN]
        /\ promise' = "none"
        /\ UNCHANGED <<cfg, pc, warned>>
    BY <1>2 DEF Others
  <2> QED BY <2>1, <2>2
<1> QED BY <1>1, <1>2

LEMMA IndInvStep == IndInv /\ [Next]_vars => IndInv'
<1> SUFFICES ASSUME IndInv, [Next]_vars PROVE IndInv'
  OBVIOUS
<1>1. CASE UNCHANGED vars
  BY <1>1 DEF vars, IndInv, TypeOK, StepsNeeded, ServeKnows, CheckKnows, PromiseKept,
        CheckPredictsStartup,
              VersionsKnown, RuntimeKnown, ImageKnown, SetKnown
<1>2. CASE \E p \in Programs : Program(p)
  BY <1>2, ProgramStep
<1> QED BY <1>1, <1>2, ScaleSetStep, OthersStep DEF Next

LEMMA IndInvHolds == Spec => []IndInv
BY IndInvInit, IndInvStep, PTL DEF Spec

-----------------------------------------------------------------------------
(* Every variable keeps its type, and the command check never reaches the   *)
(* creation of a scale set (CheckScaleSet, scaleset.go:126).                *)
THEOREM TypeCorrect == Spec => []TypeOK
<1>1. IndInv => TypeOK
  BY DEF IndInv
<1> QED BY <1>1, IndInvHolds, PTL

(* What a program that passed has found still holds (check.go:31-66,        *)
(* serve.go:83-106).                                                        *)
THEOREM PassedStaysUsable == Spec => []PassedIsUsable
<1>1. IndInv => PassedIsUsable
  BY DEF IndInv, PassedIsUsable, ServeKnows, CheckKnows, VersionsKnown, RuntimeKnown, ImageKnown,
         SetKnown, Programs
<1> QED BY <1>1, IndInvHolds, PTL

(* A startup is refused nothing that a check before it has verified         *)
(* (check.go:21, serve.go:83-106).                                          *)
THEOREM CheckIsReliable == Spec => []CheckPredictsStartup
<1>1. IndInv => CheckPredictsStartup
  BY DEF IndInv
<1> QED BY <1>1, IndInvHolds, PTL
-----------------------------------------------------------------------------
(* The configuration.  The invariant says what Load knows at each of its   *)
(* steps, and that it knows it of the file it has opened.                  *)

Resolved == C!Decodable(raw) /\ config = C!resolve(raw)

Authenticated ==
  IF config.App = <<>>
  THEN C!TrimSpace(token) = "token" /\ secret = C!NoSecret
  ELSE C!TrimSpace(token) # "token" /\ secret.size > 0

LoadKnows ==
  /\ at \in {"secrets", "open", "stat", "read", "validate"} => Resolved
  /\ at \in {"open", "stat", "read"} =>
       config.App # <<>> /\ C!TrimSpace(token) # "token"
  /\ at \in {"start", "decode", "secrets", "open", "stat", "read"} => secret = C!NoSecret
  /\ at = "read" => secretWarned = open[fd]
  /\ at = "validate" => Authenticated

AcceptedBy ==
  verdict = "accepted" => Resolved /\ Authenticated /\ C!validate(config)

ConfigInv == C!TypeOK /\ LoadKnows /\ AcceptedBy /\ SecretIsWhatWasChecked

(* What Load computes of a text.                                            *)
LEMMA TrimmedToken ==
  ASSUME NEW w \in {"", " ", "token"}, C!TrimSpace(w) = "token"
  PROVE  w = "token"
BY DEF C!TrimSpace

(* A configuration names an App if and only if the file does, and it is one. *)
LEMMA ResolvedApp ==
  ASSUME NEW r, C!resolve(r).App # <<>>
  PROVE  1 \in DOMAIN C!resolve(r).App
<1>1. C!resolve(r).App = IF r.App = <<>> THEN <<>>
        ELSE <<[Head(r.App) EXCEPT !.PrivateKeyFile = C!TrimSpace(@)]>>
  BY DEF C!resolve
<1> QED BY <1>1

LEMMA ConfigInvInit == C!Init => ConfigInv
<1> SUFFICES ASSUME C!Init PROVE ConfigInv
  OBVIOUS
<1>1. C!TypeOK
  <2>1. {0, 1} \subseteq 0..MaxSize
    BY ConfigurationAssumption DEF C!LimitsAssumption
  <2>2. size \in [C!Files -> 0..MaxSize]
    BY <2>1 DEF C!Init
  <2>3. secret \in [file : C!Files \cup {"none"}, size : 0..MaxSize]
    BY <2>1 DEF C!Init, C!NoSecret
  <2>4. open \in [C!Files -> BOOLEAN]
    BY DEF C!Init
  <2>5. entry \in C!Files \cup {"missing", "link", "fifo"}
    BY DEF C!Init, C!Files
  <2> QED BY <2>2, <2>3, <2>4, <2>5 DEF C!Init, C!TypeOK
<1>2. LoadKnows
  BY DEF C!Init, LoadKnows
<1>3. AcceptedBy /\ SecretIsWhatWasChecked
  BY DEF C!Init, AcceptedBy, SecretIsWhatWasChecked, C!SecretIsWhatWasChecked
<1> QED BY <1>1, <1>2, <1>3 DEF ConfigInv

(* What a step of Load leaves alone: the environment, the file and the      *)
(* disk.                                                                    *)
LEMMA LoadStep ==
  ASSUME ConfigInv,
         \/ C!CheckEnvironment \/ C!Decode \/ C!LoadSecrets \/ C!Open \/ C!Stat \/ C!Read
         \/ C!Validate
  PROVE  ConfigInv'
<1> USE DEF ConfigInv, C!Refuse, C!GoOn, C!environment, C!disk
<1>1. CASE C!CheckEnvironment
  <2>1. C!TypeOK'
    BY <1>1 DEF C!CheckEnvironment, C!TypeOK
  <2>2. LoadKnows' /\ AcceptedBy' /\ SecretIsWhatWasChecked'
    BY <1>1 DEF C!CheckEnvironment, C!TypeOK, LoadKnows, AcceptedBy, SecretIsWhatWasChecked,
                C!SecretIsWhatWasChecked
  <2> QED BY <2>1, <2>2
<1>2. CASE C!Decode
  <2>1. C!TypeOK'
    BY <1>2 DEF C!Decode, C!TypeOK
  <2>2. LoadKnows' /\ AcceptedBy' /\ SecretIsWhatWasChecked'
    BY <1>2 DEF C!Decode, C!TypeOK, LoadKnows, AcceptedBy, SecretIsWhatWasChecked,
                C!SecretIsWhatWasChecked, Resolved
  <2> QED BY <2>1, <2>2
<1>3. CASE C!LoadSecrets
  <2>1. C!TypeOK'
    BY <1>3 DEF C!LoadSecrets, C!TypeOK
  <2>2. LoadKnows' /\ AcceptedBy' /\ SecretIsWhatWasChecked'
    BY <1>3 DEF C!LoadSecrets, C!TypeOK, LoadKnows, AcceptedBy, SecretIsWhatWasChecked,
                C!SecretIsWhatWasChecked, Resolved, Authenticated
  <2> QED BY <2>1, <2>2
<1>4. CASE C!Open
  <2>1. C!TypeOK'
    BY <1>4 DEF C!Open, C!TypeOK
  <2>2. LoadKnows' /\ AcceptedBy' /\ SecretIsWhatWasChecked'
    BY <1>4 DEF C!Open, C!TypeOK, LoadKnows, AcceptedBy, SecretIsWhatWasChecked,
                C!SecretIsWhatWasChecked, Resolved
  <2> QED BY <2>1, <2>2
<1>5. CASE C!Stat
  <2>1. C!TypeOK'
    BY <1>5 DEF C!Stat, C!TypeOK
  <2>2. LoadKnows' /\ AcceptedBy' /\ SecretIsWhatWasChecked'
    BY <1>5 DEF C!Stat, C!TypeOK, LoadKnows, AcceptedBy, SecretIsWhatWasChecked,
                C!SecretIsWhatWasChecked, Resolved
  <2> QED BY <2>1, <2>2
<1>6. CASE C!Read
  <2>1. C!TypeOK'
    <3>1. CASE C!Refuse /\ UNCHANGED secret
      BY <1>6, <3>1 DEF C!Read, C!TypeOK
    <3>2. CASE size[fd] \in 1..secretFileMaxSize /\ secret' = [file |-> fd, size |-> size[fd]]
                 /\ C!GoOn("validate")
      <4>1. fd \in C!Files /\ size[fd] \in 0..MaxSize
        BY <1>6 DEF C!Read, C!TypeOK
      <4>2. secret' \in [file : C!Files \cup {"none"}, size : 0..MaxSize]
        BY <3>2, <4>1
      <4> QED BY <1>6, <3>2, <4>2 DEF C!Read, C!TypeOK
    <3> QED BY <1>6, <3>1, <3>2 DEF C!Read
  <2>2. verdict' # "accepted" /\ secretWarned = open[fd] /\ Resolved'
    BY <1>6 DEF C!Read, C!TypeOK, LoadKnows, Resolved
  <2>3. CASE C!Refuse /\ UNCHANGED secret
    <3>1. LoadKnows' /\ AcceptedBy'
      BY <2>2, <2>3 DEF LoadKnows, AcceptedBy
    <3>2. SecretIsWhatWasChecked'
      BY <1>6, <2>3 DEF C!Read, SecretIsWhatWasChecked, C!SecretIsWhatWasChecked
    <3> QED BY <2>1, <3>1, <3>2
  <2>4. CASE size[fd] \in 1..secretFileMaxSize /\ secret' = [file |-> fd, size |-> size[fd]]
               /\ C!GoOn("validate")
    <3>1. secret'.size > 0 /\ secret'.size <= secretFileMaxSize
      BY <2>4, ConfigurationAssumption DEF C!LimitsAssumption
    <3>2. Authenticated'
      BY <1>6, <3>1 DEF C!Read, LoadKnows, Authenticated
    <3>3. LoadKnows' /\ AcceptedBy'
      BY <2>2, <2>4, <3>2 DEF LoadKnows, AcceptedBy
    <3>4. secretWarned' = open'[secret'.file]
      BY <1>6, <2>2, <2>4 DEF C!Read
    <3>5. SecretIsWhatWasChecked'
      BY <3>1, <3>4 DEF SecretIsWhatWasChecked, C!SecretIsWhatWasChecked
    <3> QED BY <2>1, <3>3, <3>5
  <2> QED BY <1>6, <2>3, <2>4 DEF C!Read
<1>7. CASE C!Validate
  <2>1. C!TypeOK'
    BY <1>7 DEF C!Validate, C!TypeOK
  <2>2. LoadKnows' /\ AcceptedBy' /\ SecretIsWhatWasChecked'
    BY <1>7 DEF C!Validate, C!TypeOK, LoadKnows, AcceptedBy, SecretIsWhatWasChecked,
                C!SecretIsWhatWasChecked, Resolved, Authenticated
  <2> QED BY <2>1, <2>2
<1> QED BY <1>1, <1>2, <1>3, <1>4, <1>5, <1>6, <1>7

(* Whatever others put in the place of the secret's file, who may read the  *)
(* files stays as it is.                                                    *)
LEMMA DiskStep ==
  ASSUME ConfigInv, C!Others
  PROVE  ConfigInv'
<1>1. C!TypeOK'
  <2>1. CASE entry' = "second" /\ UNCHANGED <<size, open>>
    BY <2>1 DEF ConfigInv, C!Others, C!TypeOK, C!Files, C!environment
  <2>2. CASE \E f \in C!Files : /\ size[f] < MaxSize
                                /\ size' = [size EXCEPT ![f] = @ + 1]
                                /\ UNCHANGED <<entry, open>>
    <3>1. PICK f \in C!Files : /\ size[f] < MaxSize
                               /\ size' = [size EXCEPT ![f] = @ + 1]
                               /\ UNCHANGED <<entry, open>>
      BY <2>2
    <3>2. size \in [C!Files -> 0..MaxSize]
      BY DEF ConfigInv, C!TypeOK
    <3>3. size[f] + 1 \in 0..MaxSize
      BY <3>1, <3>2, ConfigurationAssumption DEF C!LimitsAssumption
    <3>4. size' \in [C!Files -> 0..MaxSize]
      BY <3>1, <3>2, <3>3
    <3> QED BY <3>1, <3>4 DEF ConfigInv, C!Others, C!TypeOK, C!environment
  <2> QED BY <2>1, <2>2 DEF C!Others
<1>2. LoadKnows' /\ AcceptedBy' /\ SecretIsWhatWasChecked'
  BY DEF ConfigInv, C!Others, C!environment, LoadKnows, AcceptedBy, SecretIsWhatWasChecked,
         C!SecretIsWhatWasChecked, Resolved, Authenticated
<1> QED BY <1>1, <1>2 DEF ConfigInv

LEMMA ConfigInvStep == ConfigInv /\ [C!Next]_C!vars => ConfigInv'
<1> SUFFICES ASSUME ConfigInv, [C!Next]_C!vars PROVE ConfigInv'
  OBVIOUS
<1>1. CASE C!Next
  BY <1>1, LoadStep, DiskStep DEF C!Next
<1>2. CASE UNCHANGED C!vars
  <2>1. C!TypeOK'
    <3>1. C!TypeOK
      BY DEF ConfigInv
    <3>2. /\ at' = at /\ ghes' = ghes /\ token' = token /\ raw' = raw
          /\ entry' = entry /\ size' = size /\ open' = open /\ fd' = fd
          /\ secret' = secret /\ secretWarned' = secretWarned /\ verdict' = verdict
      BY <1>2 DEF C!vars, C!environment, C!disk
    <3> QED BY <3>1, <3>2, Zenon DEF C!TypeOK
  <2> USE <1>2 DEF C!vars, C!environment, C!disk, ConfigInv
  <2>2. LoadKnows' /\ AcceptedBy'
    BY DEF LoadKnows, AcceptedBy, Resolved, Authenticated
  <2>3. SecretIsWhatWasChecked'
    BY DEF SecretIsWhatWasChecked, C!SecretIsWhatWasChecked
  <2> QED BY <2>1, <2>2, <2>3
<1> QED BY <1>1, <1>2

LEMMA ConfigInvHolds == C!Spec => []ConfigInv
<1> QED BY ConfigInvInit, ConfigInvStep, PTL DEF C!Spec

-----------------------------------------------------------------------------
(* What the file omits is taken from the defaults, and nothing else is.     *)
LEMMA ExplicitKept ==
  ASSUME Resolved
  PROVE  C!ExplicitIsKept
<1> SUFFICES
      /\ \A f \in C!OptionalWords :
             raw.words[f] # <<>> => config.words[f] = C!TrimSpace(Head(raw.words[f]))
      /\ \A t \in C!Timeouts :
             raw.durations[t] # <<>> => config.durations[t] = C!Parsed[Head(raw.durations[t])]
      /\ raw.MinRunners # <<>> => config.MinRunners = Head(raw.MinRunners)
      /\ raw.MaxRunners # <<>> => config.MaxRunners = Head(raw.MaxRunners)
  BY DEF C!ExplicitIsKept
<1>1. config = C!resolve(raw)
  BY DEF Resolved
<1>2. ASSUME NEW f \in C!OptionalWords, raw.words[f] # <<>>
      PROVE  config.words[f] = C!TrimSpace(Head(raw.words[f]))
  BY <1>1, <1>2 DEF C!resolve, C!resolveWord, C!optional
<1>3. ASSUME NEW t \in C!Timeouts, raw.durations[t] # <<>>
      PROVE  config.durations[t] = C!Parsed[Head(raw.durations[t])]
  BY <1>1, <1>3 DEF C!resolve
<1>4. /\ raw.MinRunners # <<>> => config.MinRunners = Head(raw.MinRunners)
      /\ raw.MaxRunners # <<>> => config.MaxRunners = Head(raw.MaxRunners)
  BY <1>1 DEF C!resolve, C!optional
<1> QED BY <1>2, <1>3, <1>4

(* No timeout of a configuration is zero, whether it is read or omitted.    *)
LEMMA TimeoutsPositive ==
  ASSUME Resolved, NEW t \in C!Timeouts
  PROVE  config.durations[t] > 0
<1>1. config.durations[t] = IF raw.durations[t] = <<>> THEN C!DefaultDuration
                            ELSE C!Parsed[Head(raw.durations[t])]
  BY DEF Resolved, C!resolve
<1>2. raw.durations[t] # <<>> => C!Parsed[Head(raw.durations[t])] > 0
  BY DEF Resolved, C!Decodable
<1> QED BY <1>1, <1>2 DEF C!DefaultDuration

LEMMA AcceptedUsable ==
  ASSUME C!TypeOK, Resolved, Authenticated, C!validate(config), verdict = "accepted"
  PROVE  C!AcceptedIsUsable
<1>1. /\ config.Host.scheme = "unix"
      /\ config.Host.path # <<>> /\ Head(config.Host.path) = "/"
  BY DEF C!validate, C!validateDockerHost
<1>2. \A f \in C!OptionalWords : config.words[f] \in {"good", "default"}
  BY DEF C!validate, C!Valid
<1>3. config.required["image"] # ""
  BY DEF C!validate, C!Valid, C!RequiredWords
<1>4. \A t \in C!Timeouts : config.durations[t] > 0
  BY TimeoutsPositive
<1>5. /\ 0 <= config.MinRunners /\ config.MinRunners <= config.MaxRunners
      /\ config.MaxRunners \in 1..MaxRunnersLimit
  <2>1. raw.MinRunners \in C!Optional(-1..MaxRunnersLimit + 1)
    BY ConfigurationAssumption DEF C!RawConfigsAssumption, C!TypeOK
  <2>2. config.MinRunners = C!optional(raw.MinRunners, 0)
    BY DEF Resolved, C!resolve
  <2>3. config.MinRunners \in Int
    BY <2>1, <2>2 DEF C!Optional, C!optional
  <2> QED BY <2>3 DEF C!validate
<1>6. config.App # <<>> \/ token = "token"
  BY TrimmedToken DEF Authenticated, C!TypeOK
<1> QED BY <1>1, <1>2, <1>3, <1>4, <1>5, <1>6 DEF C!AcceptedIsUsable

LEMMA AcceptedAuthenticated ==
  ASSUME C!TypeOK, Resolved, Authenticated, C!validate(config), verdict = "accepted"
  PROVE  C!OneCredential
<1>1. CASE config.App = <<>>
  BY <1>1, TrimmedToken DEF C!OneCredential, Authenticated, C!TypeOK
<1>2. CASE config.App # <<>>
  <2>1. token # "token"
    BY <1>2 DEF Authenticated, C!TrimSpace
  <2>2. 1 \in DOMAIN config.App
    BY <1>2, ResolvedApp DEF Resolved
  <2>3. config.App[1].AppID > 0 /\ config.App[1].InstallationID > 0
    BY <2>2 DEF C!validate, C!validateGitHub
  <2> QED BY <1>2, <2>1, <2>3 DEF C!OneCredential, Authenticated
<1> QED BY <1>1, <1>2

(* What is accepted means what the file says, everybody can use it, and     *)
(* there is exactly one way to authenticate (load.go:31-146, types.go:108,  *)
(* validate.go:17-165).                                                     *)
THEOREM ConfigurationIsSound == C!Spec => []AcceptedIsSound
<1>1. ConfigInv => AcceptedIsSound
  <2> SUFFICES ASSUME ConfigInv PROVE AcceptedIsSound
    OBVIOUS
  <2>1. verdict # "accepted" => C!AcceptedIsUsable /\ C!ExplicitIsKept /\ C!OneCredential
    BY DEF C!AcceptedIsUsable, C!ExplicitIsKept, C!OneCredential
  <2>2. verdict = "accepted" => C!AcceptedIsUsable /\ C!ExplicitIsKept /\ C!OneCredential
    BY AcceptedUsable, ExplicitKept, AcceptedAuthenticated DEF ConfigInv, AcceptedBy
  <2> QED BY <2>1, <2>2 DEF ConfigInv, AcceptedIsSound, C!AcceptedIsSound
<1> QED BY <1>1, ConfigInvHolds, PTL

(* The secret that is read is of the file that was looked at, not larger    *)
(* than allowed, and not silently readable by others, whatever is put in    *)
(* its place meanwhile (secret_linux.go:15-52).                             *)
THEOREM SecretIsChecked == C!Spec => []SecretIsWhatWasChecked
<1>1. ConfigInv => SecretIsWhatWasChecked
  BY DEF ConfigInv
<1> QED BY <1>1, ConfigInvHolds, PTL
-----------------------------------------------------------------------------
(* The command line.  What its two recursive functions compute is found by *)
(* induction, stated for a set of numbers.                                 *)

LEMMA LeastOfSet ==
  ASSUME NEW T, T \subseteq Nat, T # {}
  PROVE  \E m \in T : \A n \in T : m <= n
<1>1. IsWellFoundedOn(OpToRel(<, Nat), Nat)
  BY NatLessThanWellFounded
<1>2. \E x \in T : \A y \in T : ~(<<y, x>> \in OpToRel(<, Nat))
  BY <1>1, WFMin
<1>3. \A x, y \in Nat : <<y, x>> \in OpToRel(<, Nat) <=> y < x
  BY Zenon DEF OpToRel
<1> DEFINE R == OpToRel(<, Nat)
<1>4. /\ \E x \in T : \A y \in T : ~(<<y, x>> \in R)
      /\ \A x, y \in Nat : <<y, x>> \in R <=> y < x
  BY <1>2, <1>3, Zenon
<1> HIDE DEF R
<1>5. PICK x \in T : \A y \in T : ~(<<y, x>> \in R)
  BY <1>4
<1>6. \A y \in T : ~(y < x)
  BY <1>4, <1>5
<1> QED BY <1>6

LEMMA SetInduction ==
  ASSUME NEW S, 0 \in S, \A n \in Nat : n \in S => n + 1 \in S
  PROVE  Nat \subseteq S
<1> DEFINE T == {n \in Nat : n \notin S}
<1> SUFFICES ASSUME T # {} PROVE FALSE
  OBVIOUS
<1>1. T \subseteq Nat
  OBVIOUS
<1>2. PICK m \in T : \A n \in T : m <= n
  <2> HIDE DEF T
  <2> QED BY <1>1, LeastOfSet
<1>3. m \in Nat /\ m # 0
  OBVIOUS
<1>4. m - 1 \in Nat /\ ~(m <= m - 1)
  BY <1>3
<1>5. m - 1 \in S
  BY <1>2, <1>4
<1> QED BY <1>3, <1>4, <1>5

(* An argument is of one kind only.                                         *)
LEMMA Kinds ==
  /\ L!ConfigFlags \cap L!Help = {}
  /\ DOMAIN L!Assigned \cap (L!ConfigFlags \cup L!Help) = {}
  /\ \A c \in {"serve", "check", "version", "--"} :
       c \notin L!ConfigFlags \cup L!Help \cup DOMAIN L!Assigned
  /\ \A a \in DOMAIN L!Assigned : L!Assigned[a] \in L!Arguments
  /\ L!Arguments \subseteq L!Given /\ "" \in L!Given /\ L!DefaultConfigPath \in L!Given
BY DEF L!ConfigFlags, L!Help, L!Assigned, L!Arguments, L!Given, L!Paths, L!DefaultConfigPath

-----------------------------------------------------------------------------
RoleAt(line, role, i) ==
  IF i > 1 /\ line[i - 1] \in L!ConfigFlags /\ role[i - 1] # "path" THEN "path" ELSE "own"

LEMMA RolesDef ==
  ASSUME NEW line \in Seq(L!Arguments)
  PROVE  \A i \in 1..Len(line) : L!Roles(line)[i] = RoleAt(line, L!Roles(line), i)
<1> DEFINE len == Len(line)
           S == {k \in Nat : \E f \in [1..len -> {"path", "own"}] :
                                \A i \in 1..len : i <= k => f[i] = RoleAt(line, f, i)}
<1>1. 0 \in S
  <2>1. [i \in 1..len |-> "own"] \in [1..len -> {"path", "own"}]
    OBVIOUS
  <2>2. \A i \in 1..len : ~(i <= 0)
    OBVIOUS
  <2> QED BY <2>1, <2>2
<1>2. ASSUME NEW k \in Nat, k \in S
      PROVE  k + 1 \in S
  <2>1. PICK f \in [1..len -> {"path", "own"}] :
                \A i \in 1..len : i <= k => f[i] = RoleAt(line, f, i)
    BY <1>2
  <2> DEFINE g == [i \in 1..len |-> IF i = k + 1 THEN RoleAt(line, f, i) ELSE f[i]]
  <2>2. g \in [1..len -> {"path", "own"}]
    BY DEF RoleAt
  <2>3. ASSUME NEW i \in 1..len, i <= k + 1
        PROVE  g[i] = RoleAt(line, g, i)
    <3>1. g[i] = RoleAt(line, f, i)
      BY <2>1, <2>3
    <3>2. i > 1 => i - 1 \in 1..len /\ i - 1 # k + 1
      BY <2>3
    <3>3. i > 1 => g[i - 1] = f[i - 1]
      BY <3>2
    <3> QED BY <3>1, <3>3 DEF RoleAt
  <2> HIDE DEF g
  <2>4. \E h \in [1..len -> {"path", "own"}] :
           \A i \in 1..len : i <= k + 1 => h[i] = RoleAt(line, h, i)
    BY <2>2, <2>3
  <2> QED BY <2>4
<1>3. len \in S
  <2> HIDE DEF S
  <2>1. len \in Nat
    OBVIOUS
  <2> QED BY <1>1, <1>2, <2>1, SetInduction
<1>4. PICK f \in [1..len -> {"path", "own"}] : \A i \in 1..len : f[i] = RoleAt(line, f, i)
  BY <1>3
<1>5. f = [i \in DOMAIN line |-> RoleAt(line, f, i)]
  BY <1>4
<1>6. L!Roles(line) = CHOOSE r : r = [i \in DOMAIN line |-> RoleAt(line, r, i)]
  BY DEF L!Roles, RoleAt
<1>7. L!Roles(line) = [i \in DOMAIN line |-> RoleAt(line, L!Roles(line), i)]
  BY <1>5, <1>6
<1> QED BY <1>7

(* The parser, likewise, from the end of the line.                          *)
Results(command) ==
  [command : {command, "none"}, path : L!Given, code : {L!ExitOK, L!ExitUsage}]

LEMMA ParseArgType ==
  ASSUME NEW line \in Seq(L!Arguments), NEW command,
         NEW f \in [1..Len(line) + 1 -> [L!Given -> Results(command)]],
         NEW i \in 1..Len(line) + 1, NEW p \in L!Given
  PROVE  L!ParseArg(command, line, f, i, p) \in Results(command)
<1>1. L!Do(command, p) \in Results(command)
  BY DEF L!Do, Results
<1>2. L!Quit(L!ExitOK) \in Results(command) /\ L!Quit(L!ExitUsage) \in Results(command)
  BY Kinds DEF L!Quit, Results
<1>3. CASE i > Len(line)
  BY <1>1, <1>3 DEF L!ParseArg
<1>4. CASE i <= Len(line)
  <2>1. i \in 1..Len(line) /\ i + 1 \in 1..Len(line) + 1
    BY <1>4
  <2>2. i # Len(line) => i + 1 \in 1..Len(line) /\ i + 2 \in 1..Len(line) + 1
    BY <2>1
  <2>3. i # Len(line) => f[i + 2][line[i + 1]] \in Results(command)
    <3>1. L!Arguments \subseteq L!Given
      BY Kinds
    <3>2. \A j \in 1..Len(line) : line[j] \in L!Given
      BY <3>1
    <3> HIDE DEF Results
    <3> QED BY <2>2, <3>2
  <2>4. line[i] \in DOMAIN L!Assigned => f[i + 1][L!Assigned[line[i]]] \in Results(command)
    BY <2>1, Kinds
  <2> HIDE DEF Results
  <2> QED BY <1>1, <1>2, <1>4, <2>1, <2>3, <2>4 DEF L!ParseArg
<1> QED BY <1>3, <1>4

LEMMA ParseArgLooksAhead ==
  ASSUME NEW line \in Seq(L!Arguments), NEW command, NEW f, NEW g,
         NEW i \in 1..Len(line) + 1, NEW p \in L!Given,
         \A j \in 1..Len(line) + 1 : j > i => f[j] = g[j]
  PROVE  L!ParseArg(command, line, f, i, p) = L!ParseArg(command, line, g, i, p)
<1>1. CASE i > Len(line)
  BY <1>1 DEF L!ParseArg
<1>2. CASE i <= Len(line)
  <2>1. i + 1 \in 1..Len(line) + 1 /\ f[i + 1] = g[i + 1]
    BY <1>2
  <2>2. i # Len(line) => f[i + 2] = g[i + 2]
    BY <1>2
  <2> QED BY <1>2, <2>1, <2>2 DEF L!ParseArg
<1> QED BY <1>1, <1>2

LEMMA ParserDef ==
  ASSUME NEW line \in Seq(L!Arguments), NEW command
  PROVE  \A i \in 1..Len(line) + 1, p \in L!Given :
           L!Parser(command, line)[i][p]
             = L!ParseArg(command, line, L!Parser(command, line), i, p)
<1> DEFINE len == Len(line)
           Step(f, i) == [p \in L!Given |-> L!ParseArg(command, line, f, i, p)]
           Fs == [1..len + 1 -> [L!Given -> Results(command)]]
           S == {k \in Nat : \E f \in Fs : \A i \in 1..len + 1 : i + k > len + 1 => f[i] = Step(f, i)}
<1>1. 0 \in S
  <2>1. L!Quit(L!ExitOK) \in Results(command)
    BY Kinds DEF L!Quit, Results
  <2>2. [i \in 1..len + 1 |-> [p \in L!Given |-> L!Quit(L!ExitOK)]] \in Fs
    BY <2>1
  <2>3. \A i \in 1..len + 1 : ~(i + 0 > len + 1)
    OBVIOUS
  <2> HIDE DEF Fs
  <2> QED BY <2>2, <2>3
<1>2. ASSUME NEW k \in Nat, k \in S
      PROVE  k + 1 \in S
  <2>1. PICK f \in Fs : \A i \in 1..len + 1 : i + k > len + 1 => f[i] = Step(f, i)
    BY <1>2
  <2> DEFINE g == [i \in 1..len + 1 |-> IF i + k = len + 1 THEN Step(f, i) ELSE f[i]]
  <2>2. ASSUME NEW i \in 1..len + 1
        PROVE  Step(f, i) \in [L!Given -> Results(command)]
    BY ParseArgType
  <2>3. g \in Fs
    <3> HIDE DEF Step
    <3> QED BY <2>1, <2>2
  <2>4. ASSUME NEW i \in 1..len + 1, i + (k + 1) > len + 1
        PROVE  g[i] = Step(g, i)
    <3>1. g[i] = Step(f, i)
      <4>1. i + k = len + 1 \/ (i + k # len + 1 /\ i + k > len + 1)
        BY <2>4
      <4>2. i + k # len + 1 => g[i] = f[i]
        OBVIOUS
      <4>3. i + k = len + 1 => g[i] = Step(f, i)
        OBVIOUS
      <4> HIDE DEF Step, g, Fs
      <4> QED BY <2>1, <4>1, <4>2, <4>3
    <3>2. \A j \in 1..len + 1 : j > i => f[j] = g[j]
      <4> HIDE DEF Step
      <4> QED BY <2>4
    <3>3. ASSUME NEW p \in L!Given
          PROVE  L!ParseArg(command, line, f, i, p) = L!ParseArg(command, line, g, i, p)
      <4> HIDE DEF g
      <4> QED BY <3>2, ParseArgLooksAhead
    <3>4. Step(f, i) = Step(g, i)
      <4> HIDE DEF g
      <4> QED BY <3>3
    <3> QED BY <3>1, <3>4
  <2>5. \E h \in Fs : \A i \in 1..len + 1 : i + (k + 1) > len + 1 => h[i] = Step(h, i)
    <3> HIDE DEF g, Fs, Step
    <3> QED BY <2>3, <2>4
  <2> HIDE DEF Fs, Step
  <2> QED BY <2>5
<1>3. len + 1 \in S
  <2> HIDE DEF S
  <2>1. len + 1 \in Nat
    OBVIOUS
  <2> QED BY <1>1, <1>2, <2>1, SetInduction
<1>4. PICK f \in Fs : \A i \in 1..len + 1 : f[i] = Step(f, i)
  <2> HIDE DEF Step, Fs
  <2>1. \A i \in 1..len + 1 : i + (len + 1) > len + 1
    OBVIOUS
  <2> QED BY <1>3, <2>1
<1>5. f = [i \in 1..len + 1 |-> Step(f, i)]
  <2> HIDE DEF Step
  <2> QED BY <1>4
<1>6. L!Parser(command, line) = CHOOSE r : r = [i \in 1..len + 1 |-> Step(r, i)]
  BY DEF L!Parser
<1>7. L!Parser(command, line) = [i \in 1..len + 1 |-> Step(L!Parser(command, line), i)]
  <2> HIDE DEF Step
  <2> QED BY <1>5, <1>6
<1> SUFFICES ASSUME NEW i \in 1..len + 1, NEW p \in L!Given
             PROVE  L!Parser(command, line)[i][p]
                      = L!ParseArg(command, line, L!Parser(command, line), i, p)
  OBVIOUS
<1>8. L!Parser(command, line)[i] = Step(L!Parser(command, line), i)
  <2> HIDE DEF Step
  <2> QED BY <1>7
<1> QED BY <1>8

-----------------------------------------------------------------------------
(* Which path a line names last, from an argument on: q, or what it was.    *)
NamedFrom(line, i) == {j \in i..Len(line) : L!NamesPath(line, j)}

LastIs(line, i, p, q) ==
  \/ NamedFrom(line, i) = {} /\ q = p
  \/ \E l \in NamedFrom(line, i) :
       (\A j \in NamedFrom(line, i) : j <= l) /\ q = L!PathNamed(line, l)

LEMMA LastFound ==
  ASSUME NEW line, NEW i \in Nat, NEW k \in Nat, k > i, NEW p, NEW q,
         L!NamesPath(line, i), NamedFrom(line, i) = {i} \cup NamedFrom(line, k),
         LastIs(line, k, L!PathNamed(line, i), q)
  PROVE  LastIs(line, i, p, q)
<1>1. CASE NamedFrom(line, k) = {} /\ q = L!PathNamed(line, i)
  <2>1. NamedFrom(line, i) = {i} /\ i <= i
    BY <1>1
  <2> QED BY <1>1, <2>1 DEF LastIs
<1>2. CASE \E l \in NamedFrom(line, k) :
             (\A j \in NamedFrom(line, k) : j <= l) /\ q = L!PathNamed(line, l)
  <2>1. PICK l \in NamedFrom(line, k) :
               (\A j \in NamedFrom(line, k) : j <= l) /\ q = L!PathNamed(line, l)
    BY <1>2
  <2>2. i <= l
    BY <2>1 DEF NamedFrom
  <2>3. l \in NamedFrom(line, i) /\ (\A j \in NamedFrom(line, i) : j <= l)
    BY <2>1, <2>2
  <2> QED BY <2>1, <2>3 DEF LastIs
<1> QED BY <1>1, <1>2 DEF LastIs

(* The arguments one after the other: one that names no path, one with a    *)
(* path in it, one with its path behind it.                                 *)
LEMMA LastSkips ==
  ASSUME NEW line \in Seq(L!Arguments), NEW i \in 1..Len(line), NEW p, NEW q,
         ~L!NamesPath(line, i), LastIs(line, i + 1, p, q)
  PROVE  LastIs(line, i, p, q)
<1>1. \A j \in i..Len(line) : j = i \/ j \in i + 1..Len(line)
  OBVIOUS
<1>2. i + 1..Len(line) \subseteq i..Len(line)
  OBVIOUS
<1>3. NamedFrom(line, i) = NamedFrom(line, i + 1)
  BY <1>1, <1>2 DEF NamedFrom
<1> QED BY <1>3 DEF LastIs

LEMMA LastAssigned ==
  ASSUME NEW line \in Seq(L!Arguments), NEW i \in 1..Len(line), NEW p, NEW q,
         L!Roles(line)[i] = "own", line[i] \in DOMAIN L!Assigned,
         LastIs(line, i + 1, L!Assigned[line[i]], q)
  PROVE  LastIs(line, i, p, q)
<1>1. \A j \in i..Len(line) : j = i \/ j \in i + 1..Len(line)
  OBVIOUS
<1>2. i + 1..Len(line) \subseteq i..Len(line) /\ i \in i..Len(line)
  OBVIOUS
<1>3. L!NamesPath(line, i)
  BY DEF L!NamesPath
<1>4. NamedFrom(line, i) = {i} \cup NamedFrom(line, i + 1)
  BY <1>1, <1>2, <1>3 DEF NamedFrom
<1>5. L!PathNamed(line, i) = L!Assigned[line[i]]
  BY Kinds DEF L!PathNamed
<1> QED BY <1>3, <1>4, <1>5, LastFound

LEMMA LastBehind ==
  ASSUME NEW line \in Seq(L!Arguments), NEW i \in 1..Len(line), i < Len(line), NEW p, NEW q,
         L!Roles(line)[i] = "own", line[i] \in L!ConfigFlags,
         LastIs(line, i + 2, line[i + 1], q)
  PROVE  LastIs(line, i, p, q)
<1>1. \A j \in i..Len(line) : j = i \/ j = i + 1 \/ j \in i + 2..Len(line)
  OBVIOUS
<1>2. i + 2..Len(line) \subseteq i..Len(line) /\ i \in i..Len(line)
  OBVIOUS
<1>3. L!NamesPath(line, i)
  BY DEF L!NamesPath
<1>4. L!Roles(line)[i + 1] = "path"
  <2>1. i + 1 \in 1..Len(line) /\ (i + 1) - 1 = i /\ i + 1 > 1
    OBVIOUS
  <2>2. L!Roles(line)[i + 1] = RoleAt(line, L!Roles(line), i + 1)
    BY <2>1, RolesDef
  <2> QED BY <2>1, <2>2 DEF RoleAt
<1>5. ~L!NamesPath(line, i + 1)
  BY <1>4 DEF L!NamesPath
<1>6. NamedFrom(line, i) = {i} \cup NamedFrom(line, i + 2)
  BY <1>1, <1>2, <1>3, <1>5 DEF NamedFrom
<1>7. L!PathNamed(line, i) = line[i + 1]
  BY DEF L!PathNamed
<1> QED BY <1>3, <1>6, <1>7, LastFound

(* The role of an argument behind another one by itself.                    *)
LEMMA NextRole ==
  ASSUME NEW line \in Seq(L!Arguments), NEW i \in 1..Len(line), i < Len(line),
         \/ L!Roles(line)[i] = "path" \/ line[i] \notin L!ConfigFlags
  PROVE  L!Roles(line)[i + 1] = "own"
<1>1. i + 1 \in 1..Len(line) /\ (i + 1) - 1 = i
  OBVIOUS
<1>2. L!Roles(line)[i + 1] = RoleAt(line, L!Roles(line), i + 1)
  BY <1>1, RolesDef
<1> QED BY <1>1, <1>2 DEF RoleAt

LEMMA FirstRole ==
  ASSUME NEW line \in Seq(L!Arguments), 1 \in 1..Len(line)
  PROVE  L!Roles(line)[1] = "own"
<1>1. L!Roles(line)[1] = RoleAt(line, L!Roles(line), 1)
  BY RolesDef
<1> QED BY <1>1 DEF RoleAt
-----------------------------------------------------------------------------
(* What the parser makes of the arguments t, which are the end of a line,   *)
(* d further on.                                                            *)
Ends(line, t, d, k) ==
  /\ line \in Seq(L!Arguments) /\ t \in Seq(L!Arguments)
  /\ d \in Int /\ k \in 1..Len(t) + 1 /\ k + d >= 1 /\ Len(line) = Len(t) + d
  /\ \A i \in k..Len(t) : line[i + d] = t[i]

AsksHelp(line) == \E j \in 1..Len(line) : line[j] \in L!Help

Understood(command, line, i, p, r) ==
  \/ r.command = command /\ r.code = L!ExitOK /\ LastIs(line, i, p, r.path)
  \/ r.command = "none" /\ (r.code = L!ExitUsage \/ (r.code = L!ExitOK /\ AsksHelp(line)))

Parsed(command, line, t, d, i) ==
  (i <= Len(t) => L!Roles(line)[i + d] = "own") =>
    \A p \in L!Given : Understood(command, line, i + d, p, L!Parser(command, t)[i][p])

LEMMA QuitUnderstood ==
  ASSUME NEW command, NEW line, NEW i, NEW p
  PROVE  /\ Understood(command, line, i, p, L!Quit(L!ExitUsage))
         /\ AsksHelp(line) => Understood(command, line, i, p, L!Quit(L!ExitOK))
BY DEF Understood, L!Quit

LEMMA ParseArgCases ==
  ASSUME NEW t \in Seq(L!Arguments), NEW command, NEW f, NEW i \in 1..Len(t), NEW p
  PROVE  LET res == L!ParseArg(command, t, f, i, p)
         IN /\ t[i] \in L!Help => res = L!Quit(L!ExitOK)
            /\ t[i] \in L!ConfigFlags =>
                 res = IF command = "version" \/ i = Len(t) THEN L!Quit(L!ExitUsage)
                     ELSE f[i + 2][t[i + 1]]
            /\ t[i] \in DOMAIN L!Assigned =>
                 res = IF command = "version" THEN L!Quit(L!ExitUsage)
                     ELSE f[i + 1][L!Assigned[t[i]]]
            /\ t[i] \notin L!Help \cup L!ConfigFlags \cup DOMAIN L!Assigned =>
                 res = IF t[i] = "--" /\ i = Len(t) THEN L!Do(command, p) ELSE L!Quit(L!ExitUsage)
<1>1. ~(i > Len(t))
  OBVIOUS
<1>2. \A x : x \in L!ConfigFlags => x \notin L!Help /\ x \notin DOMAIN L!Assigned /\ x # "--"
  BY Kinds
<1>3. \A x : x \in L!Help => x \notin DOMAIN L!Assigned /\ x # "--"
  BY Kinds
<1>4. "--" \notin DOMAIN L!Assigned
  BY Kinds
<1>5. CASE t[i] \in L!Help
  BY <1>1, <1>2, <1>3, <1>5 DEF L!ParseArg
<1>6. CASE t[i] \in L!ConfigFlags
  BY <1>1, <1>2, <1>6 DEF L!ParseArg
<1>7. CASE t[i] \in DOMAIN L!Assigned
  BY <1>1, <1>2, <1>3, <1>4, <1>7 DEF L!ParseArg
<1>8. CASE t[i] \notin L!Help \cup L!ConfigFlags \cup DOMAIN L!Assigned
  BY <1>1, <1>8 DEF L!ParseArg
<1> QED BY <1>2, <1>3, <1>5, <1>6, <1>7, <1>8

LEMMA ParseFlag ==
  ASSUME NEW t \in Seq(L!Arguments), NEW command, NEW f, NEW p,
         Len(t) >= 2, t[1] \in L!ConfigFlags
  PROVE  /\ command = "version" => L!ParseArg(command, t, f, 1, p) = L!Quit(L!ExitUsage)
         /\ command # "version" => L!ParseArg(command, t, f, 1, p) = f[3][t[2]]
<1>1. 1 \in 1..Len(t) /\ 1 # Len(t) /\ 1 + 2 = 3 /\ 1 + 1 = 2
  <2>1. Len(t) \in Nat
    OBVIOUS
  <2> QED BY <2>1
<1>2. L!ParseArg(command, t, f, 1, p)
        = IF command = "version" \/ 1 = Len(t) THEN L!Quit(L!ExitUsage) ELSE f[1 + 2][t[1 + 1]]
  BY <1>1, ParseArgCases
<1> QED BY <1>1, <1>2

LEMMA ParsedStep ==
  ASSUME NEW line, NEW t, NEW d, NEW k, Ends(line, t, d, k), NEW command,
         NEW i \in k..Len(t),
         \A j \in k..Len(t) + 1 : j > i => Parsed(command, line, t, d, j)
  PROVE  Parsed(command, line, t, d, i)
<1> DEFINE parser == L!Parser(command, t)
<1>1. /\ line \in Seq(L!Arguments) /\ t \in Seq(L!Arguments)
      /\ i \in 1..Len(t) /\ i \in 1..Len(t) + 1 /\ d \in Int
      /\ i + d \in 1..Len(line) /\ line[i + d] = t[i]
      /\ i < Len(t) => i + d < Len(line) /\ line[(i + d) + 1] = t[i + 1] /\ t[i + 1] \in L!Arguments
  <2>1. k \in Int /\ k + d >= 1 /\ d \in Int /\ Len(t) \in Nat /\ Len(line) = Len(t) + d /\ k >= 1
    BY DEF Ends
  <2>2. line \in Seq(L!Arguments) /\ t \in Seq(L!Arguments) /\ i \in k..Len(t) /\ line[i + d] = t[i]
    BY DEF Ends
  <2>3. i \in 1..Len(t) /\ i \in 1..Len(t) + 1 /\ i + d \in 1..Len(line)
    BY <2>1, <2>2
  <2>4. ASSUME i < Len(t)
        PROVE  i + d < Len(line) /\ line[(i + d) + 1] = t[i + 1] /\ t[i + 1] \in L!Arguments
    <3>1. i + 1 \in k..Len(t) /\ (i + 1) + d = (i + d) + 1 /\ i + 1 \in 1..Len(t) /\ i + d < Len(line)
      BY <2>1, <2>2, <2>4
    <3>2. line[(i + 1) + d] = t[i + 1]
      BY <3>1 DEF Ends
    <3>3. t[i + 1] \in L!Arguments
      BY <2>2, <3>1
    <3> QED BY <3>1, <3>2, <3>3
  <2> QED BY <2>1, <2>2, <2>3, <2>4
<1> SUFFICES ASSUME L!Roles(line)[i + d] = "own", NEW p \in L!Given
             PROVE  Understood(command, line, i + d, p, parser[i][p])
  BY <1>1 DEF Parsed
<1>2. parser[i][p] = L!ParseArg(command, t, parser, i, p)
  BY <1>1, ParserDef
<1> HIDE DEF parser
<1>3. CASE t[i] \in L!Help
  <2>1. parser[i][p] = L!Quit(L!ExitOK)
    BY <1>1, <1>2, <1>3, ParseArgCases
  <2>2. AsksHelp(line)
    BY <1>1, <1>3 DEF AsksHelp
  <2> QED BY <2>1, <2>2, QuitUnderstood
<1>4. CASE t[i] \in L!ConfigFlags
  <2>1. CASE command = "version" \/ i = Len(t)
    <3>1. parser[i][p] = L!Quit(L!ExitUsage)
      BY <1>1, <1>2, <1>4, <2>1, ParseArgCases
    <3> QED BY <3>1, QuitUnderstood
  <2>2. CASE command # "version" /\ i # Len(t)
    <3>1. parser[i][p] = parser[i + 2][t[i + 1]]
      BY <1>1, <1>2, <1>4, <2>2, ParseArgCases
    <3>2. i < Len(t) /\ i + 2 \in k..Len(t) + 1 /\ i + 2 > i
          /\ (i + d) + 2 = (i + 2) + d /\ (i + d) + 1 \in 1..Len(line)
      <4>1. k \in Int /\ Len(t) \in Nat /\ Len(line) = Len(t) + d /\ i \in k..Len(t)
        BY DEF Ends
      <4>2. i < Len(t)
        BY <2>2, <4>1
      <4>3. i \in Int /\ d \in Int /\ i + d \in 1..Len(line)
        BY <1>1
      <4>4. i + 2 \in k..Len(t) + 1 /\ i + 2 > i /\ (i + d) + 2 = (i + 2) + d
        BY <4>1, <4>2, <4>3
      <4>5. (i + d) + 1 \in 1..Len(line)
        BY <4>1, <4>2, <4>3
      <4> QED BY <4>2, <4>4, <4>5
    <3>3. L!Roles(line)[(i + d) + 1] = "path"
      <4>1. ((i + d) + 1) - 1 = i + d /\ (i + d) + 1 > 1
        BY <1>1
      <4>2. L!Roles(line)[(i + d) + 1] = RoleAt(line, L!Roles(line), (i + d) + 1)
        BY <1>1, <3>2, RolesDef
      <4>3. line[((i + d) + 1) - 1] \in L!ConfigFlags /\ L!Roles(line)[((i + d) + 1) - 1] # "path"
        BY <1>1, <1>4, <4>1
      <4> QED BY <4>1, <4>2, <4>3 DEF RoleAt
    <3>4. i + 2 <= Len(t) => L!Roles(line)[(i + 2) + d] = "own"
      <4>1. i + 2 <= Len(t) => (i + d) + 1 < Len(line) /\ ((i + d) + 1) + 1 = (i + 2) + d
        <5>1. Len(t) \in Nat /\ Len(line) = Len(t) + d
          BY DEF Ends
        <5>2. i \in Int /\ d \in Int
          BY <1>1
        <5> QED BY <5>1, <5>2
      <4> QED BY <1>1, <3>2, <3>3, <4>1, NextRole
    <3>5. t[i + 1] \in L!Given
      BY <1>1, <3>2, Kinds
    <3>6. Understood(command, line, (i + d) + 2, t[i + 1], parser[i + 2][t[i + 1]])
      <4>1. Parsed(command, line, t, d, i + 2)
        BY <3>2
      <4> QED BY <3>2, <3>4, <3>5, <4>1 DEF Parsed, parser
    <3>7. ASSUME NEW q, LastIs(line, (i + d) + 2, t[i + 1], q)
          PROVE  LastIs(line, i + d, p, q)
      BY <1>1, <1>4, <3>2, <3>7, LastBehind
    <3> QED BY <3>1, <3>6, <3>7 DEF Understood
  <2> QED BY <2>1, <2>2
<1>5. CASE t[i] \in DOMAIN L!Assigned
  <2>1. CASE command = "version"
    <3>1. parser[i][p] = L!Quit(L!ExitUsage)
      BY <1>1, <1>2, <1>5, <2>1, ParseArgCases
    <3> QED BY <3>1, QuitUnderstood
  <2>2. CASE command # "version"
    <3>1. parser[i][p] = parser[i + 1][L!Assigned[t[i]]]
      BY <1>1, <1>2, <1>5, <2>2, ParseArgCases
    <3>2. i + 1 \in k..Len(t) + 1 /\ i + 1 > i /\ (i + d) + 1 = (i + 1) + d
      <4>1. k \in Int /\ Len(t) \in Nat /\ i \in k..Len(t)
        BY DEF Ends
      <4> QED BY <1>1, <4>1
    <3>3. t[i] \notin L!ConfigFlags
      BY <1>5, Kinds
    <3>4. i + 1 <= Len(t) => L!Roles(line)[(i + 1) + d] = "own"
      <4>1. i + 1 <= Len(t) => i < Len(t)
        BY <1>1
      <4> QED BY <1>1, <3>2, <3>3, <4>1, NextRole
    <3>5. L!Assigned[t[i]] \in L!Given
      BY <1>5, Kinds
    <3>6. Understood(command, line, (i + d) + 1, L!Assigned[t[i]], parser[i + 1][L!Assigned[t[i]]])
      <4>1. Parsed(command, line, t, d, i + 1)
        BY <3>2
      <4> QED BY <3>2, <3>4, <3>5, <4>1 DEF Parsed, parser
    <3>7. ASSUME NEW q, LastIs(line, (i + d) + 1, L!Assigned[t[i]], q)
          PROVE  LastIs(line, i + d, p, q)
      BY <1>1, <1>5, <3>7, LastAssigned
    <3> QED BY <3>1, <3>6, <3>7 DEF Understood
  <2> QED BY <2>1, <2>2
<1>6. CASE t[i] \notin L!Help \cup L!ConfigFlags \cup DOMAIN L!Assigned
  <2>1. CASE t[i] = "--" /\ i = Len(t)
    <3>1. parser[i][p] = L!Do(command, p)
      BY <1>1, <1>2, <1>6, <2>1, ParseArgCases
    <3>2. NamedFrom(line, i + d) = {}
      <4>1. \A j \in i + d..Len(line) : j = i + d
        <5>1. Len(t) \in Nat /\ Len(line) = Len(t) + d
          BY DEF Ends
        <5> QED BY <1>1, <2>1, <5>1
      <4> QED BY <1>1, <1>6, <4>1 DEF NamedFrom, L!NamesPath
    <3> QED BY <3>1, <3>2 DEF Understood, LastIs, L!Do
  <2>2. CASE ~(t[i] = "--" /\ i = Len(t))
    <3>1. parser[i][p] = L!Quit(L!ExitUsage)
      BY <1>1, <1>2, <1>6, <2>2, ParseArgCases
    <3> QED BY <3>1, QuitUnderstood
  <2> QED BY <2>1, <2>2
<1> QED BY <1>3, <1>4, <1>5, <1>6

LEMMA ParsedEnd ==
  ASSUME NEW line, NEW t, NEW d, NEW k, Ends(line, t, d, k), NEW command
  PROVE  Parsed(command, line, t, d, Len(t) + 1)
<1>1. /\ t \in Seq(L!Arguments) /\ Len(t) \in Nat /\ d \in Int /\ Len(line) = Len(t) + d
      /\ Len(t) + 1 \in 1..Len(t) + 1
  BY DEF Ends
<1> SUFFICES ASSUME NEW p \in L!Given
             PROVE  Understood(command, line, (Len(t) + 1) + d, p,
                               L!Parser(command, t)[Len(t) + 1][p])
  BY DEF Parsed
<1>2. L!Parser(command, t)[Len(t) + 1][p]
        = L!ParseArg(command, t, L!Parser(command, t), Len(t) + 1, p)
  BY <1>1, ParserDef
<1>3. Len(t) + 1 > Len(t)
  BY <1>1
<1>4. L!Parser(command, t)[Len(t) + 1][p] = L!Do(command, p)
  BY <1>2, <1>3 DEF L!ParseArg
<1>5. NamedFrom(line, (Len(t) + 1) + d) = {}
  BY <1>1 DEF NamedFrom
<1> QED BY <1>4, <1>5 DEF Understood, LastIs, L!Do

(* All of them, by induction from the end of the line.                      *)
LEMMA AllParsed ==
  ASSUME NEW line, NEW t, NEW d, NEW k, Ends(line, t, d, k), NEW command
  PROVE  \A i \in k..Len(t) + 1 : Parsed(command, line, t, d, i)
<1> DEFINE Good(i) == Parsed(command, line, t, d, i)
           S == {n \in Nat : \A i \in k..Len(t) + 1 : i + n > Len(t) => Good(i)}
<1>1. Len(t) \in Nat /\ k \in 1..Len(t) + 1
  BY DEF Ends
<1>2. 0 \in S
  <2>1. \A i \in k..Len(t) + 1 : i + 0 > Len(t) => i = Len(t) + 1
    BY <1>1
  <2>2. Good(Len(t) + 1)
    BY ParsedEnd
  <2> HIDE DEF Good
  <2> QED BY <2>1, <2>2
<1>3. ASSUME NEW n \in Nat, n \in S
      PROVE  n + 1 \in S
  <2>1. ASSUME NEW i \in k..Len(t) + 1, i + (n + 1) > Len(t)
        PROVE  Good(i)
    <3>1. CASE i = Len(t) + 1
      BY <3>1, ParsedEnd
    <3>2. CASE i # Len(t) + 1
      <4>1. i \in k..Len(t)
        BY <1>1, <3>2
      <4>2. \A j \in k..Len(t) + 1 : j > i => Good(j)
        <5>1. \A j \in k..Len(t) + 1 : j > i => j + n > Len(t)
          BY <1>1, <2>1
        <5> HIDE DEF Good
        <5> QED BY <1>3, <5>1
      <4> QED BY <4>1, <4>2, ParsedStep
    <3> QED BY <3>1, <3>2
  <2> HIDE DEF Good
  <2> QED BY <2>1
<1>4. Len(t) + 1 \in S
  <2> HIDE DEF S
  <2>1. Len(t) + 1 \in Nat
    BY <1>1
  <2> QED BY <1>2, <1>3, <2>1, SetInduction
<1>5. \A i \in k..Len(t) + 1 : i + (Len(t) + 1) > Len(t)
  BY <1>1
<1> HIDE DEF Good
<1>6. \A i \in k..Len(t) + 1 : Good(i)
  BY <1>4, <1>5
<1> QED BY <1>6 DEF Good
-----------------------------------------------------------------------------
(* What a line is understood as.                                            *)
AsksOnly(line) == \E j \in 1..Len(line) : line[j] \in L!Help \cup {"version"}

Correct(line, r) ==
  IF r.command \in {"serve", "check"} THEN LastIs(line, 1, L!DefaultConfigPath, r.path)
  ELSE r.code = L!ExitUsage \/ (r.code = L!ExitOK /\ AsksOnly(line))

LEMMA UnderstoodCorrect ==
  ASSUME NEW line, NEW command \in {"serve", "check", "version"}, NEW i, NEW p, NEW r,
         Understood(command, line, i, p, r),
         command = "version" => AsksOnly(line),
         \A q : LastIs(line, i, p, q) => LastIs(line, 1, L!DefaultConfigPath, q)
  PROVE  Correct(line, r)
<1>1. AsksHelp(line) => AsksOnly(line)
  BY DEF AsksHelp, AsksOnly
<1> QED BY <1>1 DEF Understood, Correct

LEMMA QuitCorrect ==
  ASSUME NEW line
  PROVE  /\ Correct(line, L!Quit(L!ExitUsage))
         /\ AsksOnly(line) => Correct(line, L!Quit(L!ExitOK))
BY DEF Correct, L!Quit

LEMMA DispatchCases ==
  ASSUME NEW line
  PROVE  /\ line[1] \in {"serve", "check", "version"} =>
              L!Dispatch(line) = L!Parser(line[1], Tail(line))[1][L!DefaultConfigPath]
         /\ line[1] \in L!Help => L!Dispatch(line) = L!Quit(L!ExitOK)
         /\ line[1] \notin {"serve", "check", "version"} \cup L!Help =>
              L!Dispatch(line) = L!Quit(L!ExitUsage)
<1>1. \A x : x \in {"serve", "check", "version"} => x \notin L!Help
  BY Kinds
<1>2. CASE line[1] \in {"serve", "check", "version"}
  <2>1. L!Dispatch(line) = L!parseArgs(line[1], L!DefaultConfigPath, Tail(line))
    BY <1>1, <1>2 DEF L!Dispatch
  <2> QED BY <1>1, <1>2, <2>1 DEF L!parseArgs
<1>3. CASE line[1] \in L!Help
  BY <1>1, <1>3 DEF L!Dispatch
<1>4. CASE line[1] \notin {"serve", "check", "version"} \cup L!Help
  BY <1>4 DEF L!Dispatch
<1> QED BY <1>2, <1>3, <1>4

(* A line that begins with a command, or with what is none.                 *)
LEMMA DispatchCorrect ==
  ASSUME NEW line \in Seq(L!Arguments), line # <<>>
  PROVE  Correct(line, L!Dispatch(line))
<1> DEFINE t == Tail(line)
<1>1. /\ t \in Seq(L!Arguments) /\ Len(line) \in Nat /\ Len(line) = Len(t) + 1
      /\ \A i \in 1..Len(t) : line[i + 1] = t[i]
      /\ 1 \in 1..Len(line) /\ 1 \in 1..Len(t) + 1
  OBVIOUS
<1> HIDE DEF t
<1>2. CASE line[1] \in {"serve", "check", "version"}
  <2>1. L!Dispatch(line) = L!Parser(line[1], t)[1][L!DefaultConfigPath]
    BY <1>2, DispatchCases DEF t
  <2>2. Ends(line, t, 1, 1)
    BY <1>1 DEF Ends
  <2>3. Parsed(line[1], line, t, 1, 1)
    BY <1>1, <2>2, AllParsed
  <2>4. line[1] \notin L!ConfigFlags \cup DOMAIN L!Assigned
    BY <1>2, Kinds
  <2>5. 1 <= Len(t) => L!Roles(line)[1 + 1] = "own"
    BY <1>1, <2>4, NextRole
  <2>6. Understood(line[1], line, 1 + 1, L!DefaultConfigPath, L!Dispatch(line))
    BY <2>1, <2>3, <2>5, Kinds DEF Parsed
  <2>7. ~L!NamesPath(line, 1)
    BY <2>4 DEF L!NamesPath
  <2>8. \A q : LastIs(line, 1 + 1, L!DefaultConfigPath, q)
                => LastIs(line, 1, L!DefaultConfigPath, q)
    BY <1>1, <2>7, LastSkips
  <2>9. line[1] = "version" => AsksOnly(line)
    BY <1>1 DEF AsksOnly
  <2> QED BY <1>2, <2>6, <2>8, <2>9, UnderstoodCorrect
<1>3. CASE line[1] \in L!Help
  <2>1. AsksOnly(line)
    BY <1>1, <1>3 DEF AsksOnly
  <2> QED BY <1>3, <2>1, DispatchCases, QuitCorrect
<1>4. CASE line[1] \notin {"serve", "check", "version"} \cup L!Help
  BY <1>4, DispatchCases, QuitCorrect
<1> QED BY <1>2, <1>3, <1>4

(* A line with a path before its command, which is its argument m: the path *)
(* is moved, and what is behind the command means what it meant.            *)
LEMMA MovedMeans ==
  ASSUME NEW line \in Seq(L!Arguments), NEW m \in 2..Len(line), NEW path \in L!Arguments,
         NEW t \in Seq(L!Arguments), NEW r,
         line[m] \in {"serve", "check", "version"} =>
           r = L!Parser(line[m], t)[1][L!DefaultConfigPath],
         line[m] \in L!Help => r = L!Quit(L!ExitOK),
         line[m] \notin {"serve", "check", "version"} \cup L!Help => r = L!Quit(L!ExitUsage),
         Len(t) = (Len(line) - m) + 2, t[1] = "--config", t[2] = path,
         \A i \in 3..Len(t) : t[i] = line[i + (m - 2)],
         \A q : LastIs(line, m, path, q) => LastIs(line, 1, L!DefaultConfigPath, q)
  PROVE  Correct(line, r)
<1> DEFINE parser == L!Parser(line[m], t)
           d == m - 2
<1>1. /\ m \in 1..Len(line) /\ m \in Nat /\ Len(line) \in Nat /\ Len(t) \in Nat
      /\ d \in Int /\ 3 + d = m + 1 /\ 3 + d >= 1 /\ Len(line) = Len(t) + d
  OBVIOUS
<1>2. /\ 1 \in 1..Len(t) /\ 1 \in 1..Len(t) + 1 /\ 1 # Len(t) /\ 3 \in 1..Len(t) + 1
      /\ 3 \in 3..Len(t) + 1 /\ 1 + 1 = 2 /\ 1 + 2 = 3
  OBVIOUS
<1>3. Ends(line, t, d, 3)
  <2> HIDE DEF d
  <2>1. \A i \in 3..Len(t) : line[i + d] = t[i]
    BY DEF d
  <2> QED BY <1>1, <1>2, <2>1 DEF Ends
<1> HIDE DEF d
<1>4. parser[1][L!DefaultConfigPath] = L!ParseArg(line[m], t, parser, 1, L!DefaultConfigPath)
  <2>1. L!DefaultConfigPath \in L!Given
    BY Kinds
  <2>2. \A i \in 1..Len(t) + 1, p \in L!Given : parser[i][p] = L!ParseArg(line[m], t, parser, i, p)
    BY ParserDef
  <2> HIDE DEF parser
  <2> QED BY <1>2, <2>1, <2>2
<1>5. /\ line[m] = "version" =>
           L!ParseArg(line[m], t, parser, 1, L!DefaultConfigPath) = L!Quit(L!ExitUsage)
      /\ line[m] # "version" =>
           L!ParseArg(line[m], t, parser, 1, L!DefaultConfigPath) = parser[3][path]
  <2> HIDE DEF parser
  <2>1. t[1] \in L!ConfigFlags /\ Len(t) >= 2
    BY <1>1 DEF L!ConfigFlags
  <2> QED BY <2>1, ParseFlag
<1>6. CASE line[m] = "version"
  <2>1. r = L!Quit(L!ExitUsage)
    BY <1>4, <1>5, <1>6
  <2> QED BY <2>1, QuitCorrect
<1>7. CASE line[m] \in {"serve", "check"}
  <2>1. line[m] # "version" /\ line[m] \in {"serve", "check", "version"}
    BY <1>7
  <2>2. r = parser[3][path]
    BY <1>4, <1>5, <2>1
  <2>3. Parsed(line[m], line, t, d, 3)
    BY <1>2, <1>3, AllParsed
  <2>4. line[m] \notin L!ConfigFlags \cup DOMAIN L!Assigned
    BY <1>7, Kinds
  <2>5. 3 <= Len(t) => L!Roles(line)[m + 1] = "own"
    <3>1. 3 <= Len(t) => m < Len(line)
      BY <1>1
    <3> QED BY <1>1, <2>4, <3>1, NextRole
  <2>6. path \in L!Given
    BY Kinds
  <2>7. Understood(line[m], line, 3 + d, path, parser[3][path])
    BY <1>1, <2>3, <2>5, <2>6 DEF Parsed
  <2>8. Understood(line[m], line, m + 1, path, r)
    BY <1>1, <2>2, <2>7
  <2>9. ~L!NamesPath(line, m)
    BY <2>4 DEF L!NamesPath
  <2>10. \A q : LastIs(line, m + 1, path, q) => LastIs(line, 1, L!DefaultConfigPath, q)
    BY <1>1, <2>9, LastSkips
  <2> QED BY <2>1, <2>8, <2>10, UnderstoodCorrect
<1>8. CASE line[m] \in L!Help
  <2>1. AsksOnly(line)
    BY <1>1, <1>8 DEF AsksOnly
  <2>2. r = L!Quit(L!ExitOK)
    BY <1>8
  <2> QED BY <2>1, <2>2, QuitCorrect
<1>9. CASE line[m] \notin {"serve", "check", "version"} \cup L!Help
  <2>1. r = L!Quit(L!ExitUsage)
    BY <1>9
  <2> QED BY <2>1, QuitCorrect
<1> QED BY <1>6, <1>7, <1>8, <1>9

LEMMA MovedCorrect ==
  ASSUME NEW line \in Seq(L!Arguments), NEW m \in 2..Len(line), NEW path \in L!Arguments,
         NEW rest \in Seq(L!Arguments), Len(rest) = Len(line) - m,
         \A i \in 1..Len(rest) : rest[i] = line[m + i],
         \A q : LastIs(line, m, path, q) => LastIs(line, 1, L!DefaultConfigPath, q)
  PROVE  Correct(line, L!Dispatch(<<line[m], "--config", path>> \o rest))
<1> DEFINE pre == <<line[m], "--config", path>>
           moved == pre \o rest
           t == Tail(moved)
<1>1. m \in 1..Len(line) /\ m \in Nat /\ Len(line) \in Nat /\ "--config" \in L!Arguments
  BY DEF L!Arguments, L!ConfigFlags
<1>2. line[m] \in L!Arguments
  BY <1>1
<1>3. pre \in Seq(L!Arguments) /\ Len(pre) = 3 /\ pre[1] = line[m] /\ pre[2] = "--config" /\ pre[3] = path
  BY <1>1, <1>2
<1>4. moved = pre \o rest /\ t = Tail(moved)
  OBVIOUS
<1> HIDE DEF pre, moved, t
<1>5. /\ moved[1] = line[m]
      /\ t \in Seq(L!Arguments) /\ Len(t) = Len(rest) + 2
      /\ t[1] = "--config" /\ t[2] = path
      /\ \A i \in 3..Len(t) : t[i] = rest[i - 2]
  <2>1. /\ moved \in Seq(L!Arguments) /\ Len(moved) = Len(rest) + 3 /\ Len(rest) \in Nat
        /\ moved[1] = pre[1] /\ moved[2] = pre[2] /\ moved[3] = pre[3]
    <3>1. /\ pre \o rest \in Seq(L!Arguments) /\ Len(pre \o rest) = Len(pre) + Len(rest)
          /\ \A i \in 1..Len(pre) + Len(rest) :
               (pre \o rest)[i] = IF i <= Len(pre) THEN pre[i] ELSE rest[i - Len(pre)]
      BY <1>3, ConcatProperties
    <3> QED BY <1>3, <1>4, <3>1
  <2>2. \A i \in 4..Len(moved) : moved[i] = rest[i - 3]
    <3>1. \A i \in 1..Len(pre) + Len(rest) :
             (pre \o rest)[i] = IF i <= Len(pre) THEN pre[i] ELSE rest[i - Len(pre)]
      BY <1>3, ConcatProperties
    <3> QED BY <1>3, <1>4, <2>1, <3>1
  <2>3. moved # <<>> /\ t = Tail(moved)
    BY <1>4, <2>1
  <2>4. t \in Seq(L!Arguments) /\ Len(t) = Len(rest) + 2 /\ \A i \in 1..Len(t) : t[i] = moved[i + 1]
    BY <2>1, <2>3
  <2>5. t[1] = pre[2] /\ t[2] = pre[3]
    BY <2>1, <2>4
  <2>6. ASSUME NEW i \in 3..Len(t)
        PROVE  t[i] = rest[i - 2]
    <3>1. i \in 1..Len(t) /\ i + 1 \in 4..Len(moved) /\ (i + 1) - 3 = i - 2
      BY <2>1, <2>4
    <3> QED BY <2>2, <2>4, <3>1
  <2> QED BY <1>3, <2>1, <2>4, <2>5, <2>6
<1>6. ASSUME NEW i \in 3..Len(t)
      PROVE  t[i] = line[i + (m - 2)]
  <2>1. i - 2 \in 1..Len(rest) /\ m + (i - 2) = i + (m - 2)
    BY <1>1, <1>5
  <2>2. rest[i - 2] = line[i + (m - 2)]
    BY <2>1
  <2> QED BY <1>5, <2>2
<1>7. /\ line[m] \in {"serve", "check", "version"} =>
           L!Dispatch(moved) = L!Parser(line[m], t)[1][L!DefaultConfigPath]
      /\ line[m] \in L!Help => L!Dispatch(moved) = L!Quit(L!ExitOK)
      /\ line[m] \notin {"serve", "check", "version"} \cup L!Help =>
           L!Dispatch(moved) = L!Quit(L!ExitUsage)
  BY <1>5, DispatchCases DEF t
<1> DEFINE r == L!Dispatch(moved)
<1>8. /\ line[m] \in {"serve", "check", "version"} =>
           r = L!Parser(line[m], t)[1][L!DefaultConfigPath]
      /\ line[m] \in L!Help => r = L!Quit(L!ExitOK)
      /\ line[m] \notin {"serve", "check", "version"} \cup L!Help => r = L!Quit(L!ExitUsage)
  BY <1>7
<1> HIDE DEF r
<1>9. Correct(line, r)
  <2>1. Len(t) = (Len(line) - m) + 2
    BY <1>5
  <2>2. t \in Seq(L!Arguments)
    BY <1>5
  <2>3. t[1] = "--config" /\ t[2] = path
    BY <1>5
  <2> QED BY <2>1, <2>2, <2>3, <1>6, <1>8, MovedMeans
<1> QED BY <1>9 DEF r, moved, pre

(* The path before the command, and the rest of the line behind it.         *)
Moved(path, rest) ==
  IF path = "" \/ rest = <<>> THEN L!Quit(L!ExitUsage)
  ELSE L!Dispatch(<<Head(rest), "--config", path>> \o Tail(rest))

LEMMA MovedRest ==
  ASSUME NEW line \in Seq(L!Arguments), NEW d \in {1, 2}, NEW path \in L!Arguments,
         NEW rest \in Seq(L!Arguments), Len(line) = Len(rest) + d,
         \A i \in 1..Len(rest) : rest[i] = line[i + d],
         \A q : LastIs(line, d + 1, path, q) => LastIs(line, 1, L!DefaultConfigPath, q)
  PROVE  Correct(line, Moved(path, rest))
<1>1. CASE path = "" \/ rest = <<>>
  BY <1>1, QuitCorrect DEF Moved
<1>2. CASE ~(path = "" \/ rest = <<>>)
  <2> DEFINE m == d + 1
             end == Tail(rest)
  <2>1. /\ Len(rest) \in Nat /\ Len(rest) >= 1 /\ Head(rest) = rest[1]
        /\ end \in Seq(L!Arguments) /\ Len(rest) = Len(end) + 1
        /\ \A i \in 1..Len(end) : end[i] = rest[i + 1]
    <3>1. rest # <<>>
      BY <1>2
    <3>2. Len(rest) \in Nat /\ Len(rest) >= 1 /\ Head(rest) = rest[1]
      BY <3>1
    <3> QED BY <3>1, <3>2
  <2> HIDE DEF end
  <2>2. m \in 2..Len(line) /\ Len(end) = Len(line) - m /\ rest[1] = line[m]
    BY <2>1
  <2>3. ASSUME NEW i \in 1..Len(end)
        PROVE  end[i] = line[m + i]
    <3>1. i + 1 \in 1..Len(rest) /\ (i + 1) + d = m + i
      BY <2>1
    <3>2. rest[i + 1] = line[m + i]
      BY <3>1
    <3> QED BY <2>1, <3>2
  <2>4. \A q : LastIs(line, m, path, q) => LastIs(line, 1, L!DefaultConfigPath, q)
    OBVIOUS
  <2> HIDE DEF m
  <2>5. Correct(line, L!Dispatch(<<line[m], "--config", path>> \o end))
    BY <2>1, <2>2, <2>3, <2>4, MovedCorrect
  <2>6. Head(rest) = line[m]
    BY <2>1, <2>2
  <2>7. Moved(path, rest) = L!Dispatch(<<Head(rest), "--config", path>> \o end)
    BY <1>2 DEF Moved, end
  <2> QED BY <2>5, <2>6, <2>7
<1> QED BY <1>1, <1>2

LEMMA RunCases ==
  ASSUME NEW line \in Seq(L!Arguments), line # <<>>
  PROVE  /\ line[1] = "--config" =>
              L!Run(line) = IF Len(line) < 2 THEN L!Quit(L!ExitUsage)
                            ELSE Moved(line[2], SubSeq(line, 3, Len(line)))
         /\ line[1] \in DOMAIN L!Assigned =>
              L!Run(line) = Moved(L!Assigned[line[1]], Tail(line))
         /\ line[1] \notin {"--config"} \cup DOMAIN L!Assigned => L!Run(line) = L!Dispatch(line)
<1>1. Head(line) = line[1]
  OBVIOUS
<1>2. "--config" \notin DOMAIN L!Assigned
  BY DEF L!Assigned
<1>3. CASE line[1] = "--config"
  BY <1>1, <1>2, <1>3 DEF L!Run, Moved
<1>4. CASE line[1] \in DOMAIN L!Assigned
  BY <1>1, <1>2, <1>4 DEF L!Run, Moved
<1>5. CASE line[1] \notin {"--config"} \cup DOMAIN L!Assigned
  BY <1>1, <1>5 DEF L!Run
<1> QED BY <1>2, <1>3, <1>4, <1>5

LEMMA RunCorrect ==
  ASSUME NEW line \in Seq(L!Arguments)
  PROVE  Correct(line, L!Run(line))
<1>1. CASE line = <<>>
  BY <1>1, QuitCorrect DEF L!Run
<1>2. CASE line # <<>>
  <2>1. Len(line) \in Nat /\ Len(line) >= 1 /\ 1 \in 1..Len(line)
    BY <1>2
  <2>2. L!Roles(line)[1] = "own"
    BY <2>1, FirstRole
  <2>3. CASE line[1] = "--config"
    <3>1. CASE Len(line) < 2
      <4>1. L!Run(line) = L!Quit(L!ExitUsage)
        BY <1>2, <2>3, <3>1, RunCases
      <4> QED BY <4>1, QuitCorrect
    <3>2. CASE ~(Len(line) < 2)
      <4> DEFINE rest == SubSeq(line, 3, Len(line))
      <4>1. /\ rest \in Seq(L!Arguments) /\ Len(rest) = Len(line) - 2
            /\ \A i \in 1..Len(rest) : rest[i] = line[i + 2]
        <5> DEFINE n == Len(line)
        <5>1. n \in Int /\ n >= 2 /\ 3 \in Int /\ \A i \in 3..n : line[i] \in L!Arguments
          BY <2>1, <3>2
        <5>2. /\ rest \in Seq(L!Arguments) /\ Len(rest) = IF 3 <= n THEN n - 3 + 1 ELSE 0
              /\ \A i \in 1..n - 3 + 1 : rest[i] = line[3 + i - 1]
          <6> HIDE DEF n
          <6>1. /\ SubSeq(line, 3, n) \in Seq(L!Arguments)
                /\ Len(SubSeq(line, 3, n)) = IF 3 <= n THEN n - 3 + 1 ELSE 0
                /\ \A i \in 1..n - 3 + 1 : SubSeq(line, 3, n)[i] = line[3 + i - 1]
            BY <5>1, SubSeqProperties
          <6> QED BY <6>1 DEF n
        <5> HIDE DEF rest
        <5>3. Len(rest) = Len(line) - 2
          <6> HIDE DEF n
          <6>1. 3 <= n => Len(rest) = n - 2
            BY <5>1, <5>2
          <6>2. ~(3 <= n) => n = 2 /\ Len(rest) = 0
            BY <5>1, <5>2
          <6>3. Len(rest) = n - 2
            BY <5>1, <6>1, <6>2
          <6> QED BY <6>3 DEF n
        <5>4. ASSUME NEW i \in 1..Len(rest)
              PROVE  rest[i] = line[i + 2]
          <6>1. 3 + i - 1 = i + 2 /\ i \in 1..n - 3 + 1
            BY <5>1, <5>3
          <6> QED BY <5>2, <6>1
        <5> QED BY <5>2, <5>3, <5>4
      <4>2. L!Run(line) = Moved(line[2], rest)
        BY <1>2, <2>3, <3>2, RunCases
      <4> HIDE DEF rest
      <4>3. line[2] \in L!Arguments /\ Len(line) = Len(rest) + 2 /\ 1 < Len(line)
            /\ 1 + 1 = 2 /\ 1 + 2 = 3 /\ 2 + 1 = 3
        BY <2>1, <3>2, <4>1
      <4>4. line[1] \in L!ConfigFlags
        BY <2>3 DEF L!ConfigFlags
      <4>5. ASSUME NEW q, LastIs(line, 3, line[2], q)
            PROVE  LastIs(line, 1, L!DefaultConfigPath, q)
        <5>1. LastIs(line, 1 + 2, line[1 + 1], q)
          BY <4>3, <4>5
        <5> QED BY <2>1, <2>2, <4>3, <4>4, <5>1, LastBehind
      <4>6. Correct(line, Moved(line[2], rest))
        BY <4>1, <4>3, <4>5, MovedRest
      <4> QED BY <4>2, <4>6
    <3> QED BY <3>1, <3>2
  <2>4. CASE line[1] \in DOMAIN L!Assigned
    <3> DEFINE rest == Tail(line)
    <3>1. /\ rest \in Seq(L!Arguments) /\ Len(line) = Len(rest) + 1
          /\ \A i \in 1..Len(rest) : rest[i] = line[i + 1]
      BY <1>2
    <3>2. L!Run(line) = Moved(L!Assigned[line[1]], rest)
      BY <1>2, <2>4, RunCases
    <3> HIDE DEF rest
    <3>3. L!Assigned[line[1]] \in L!Arguments
      BY <2>4, Kinds
    <3>4. \A q : LastIs(line, 1 + 1, L!Assigned[line[1]], q)
                   => LastIs(line, 1, L!DefaultConfigPath, q)
      BY <2>1, <2>2, <2>4, LastAssigned
    <3>5. Correct(line, Moved(L!Assigned[line[1]], rest))
      BY <3>1, <3>3, <3>4, MovedRest
    <3> QED BY <3>2, <3>5
  <2>5. CASE line[1] \notin {"--config"} \cup DOMAIN L!Assigned
    <3>1. L!Run(line) = L!Dispatch(line)
      BY <1>2, <2>5, RunCases
    <3> QED BY <1>2, <3>1, DispatchCorrect
  <2> QED BY <2>3, <2>4, <2>5
<1> QED BY <1>1, <1>2
-----------------------------------------------------------------------------
(* What the process has done is what its line is understood as.             *)
LineInv ==
  LET r == L!Run(args)
      does == r.command \in {"serve", "check"}
  IN /\ args \in Seq(L!Arguments)
     /\ stage \in {"typing", "load", "command", "exited"}
     /\ stage \in {"typing", "load"} => loaded = "none" /\ effect = {} /\ exit = L!Running
     /\ stage \in {"load", "command"} => does
     /\ stage = "command" => effect = {"config"} /\ exit = L!Running
     /\ loaded # "none" => does /\ loaded = r.path
     /\ stage = "exited" =>
          \/ effect = {} /\ ~does /\ exit = r.code
          \/ effect = {"config"} /\ exit = L!ExitError
          \/ effect = {"config", "succeeded"} /\ exit = L!ExitOK
          \/ effect = {"config", "failed"} /\ exit = L!ExitError

LEMMA LineInvHolds == L!Spec => []LineInv
<1>1. L!Init => LineInv
  BY DEF L!Init, LineInv
<1>2. LineInv /\ [L!Next]_(L!vars) => LineInv'
  <2> SUFFICES ASSUME LineInv, [L!Next]_(L!vars)
               PROVE  LineInv'
    OBVIOUS
  <2>1. CASE L!Type
    <3>1. args' \in Seq(L!Arguments)
      BY <2>1 DEF L!Type, LineInv
    <3>2. stage = "typing" /\ UNCHANGED <<stage, loaded, effect, exit>>
      BY <2>1 DEF L!Type
    <3> QED BY <3>1, <3>2 DEF LineInv
  <2>2. CASE L!Start
    BY <2>2 DEF L!Start, L!Exit, LineInv
  <2>3. CASE L!Load
    BY <2>3 DEF L!Load, L!Exit, LineInv
  <2>4. CASE L!Command
    BY <2>4 DEF L!Command, L!Exit, LineInv
  <2>5. CASE UNCHANGED L!vars
    BY <2>5 DEF L!vars, LineInv
  <2> QED BY <2>1, <2>2, <2>3, <2>4, <2>5 DEF L!Next
<1> QED BY <1>1, <1>2, PTL DEF L!Spec

LEMMA LineTold == LineInv => L!ExitTells
<1> SUFFICES ASSUME LineInv
             PROVE  L!ExitTells
  OBVIOUS
<1>1. Correct(args, L!Run(args)) /\ DOMAIN args = 1..Len(args)
  BY RunCorrect DEF LineInv
<1>2. CASE stage # "exited"
  <2>1. exit = L!Running /\ effect \in {{}, {"config"}}
    BY <1>2 DEF LineInv
  <2> QED BY <2>1 DEF L!ExitTells, L!Running, L!ExitOK, L!ExitError, L!ExitUsage
<1>3. CASE stage = "exited" /\ effect = {}
  <2>1. exit = L!ExitUsage \/ (exit = L!ExitOK /\ AsksOnly(args))
    BY <1>1, <1>3 DEF LineInv, Correct
  <2> QED BY <1>1, <1>3, <2>1 DEF L!ExitTells, AsksOnly, L!ExitOK, L!ExitError, L!ExitUsage
<1>4. CASE stage = "exited" /\ effect # {}
  <2>1. \/ effect = {"config"} /\ exit = L!ExitError
        \/ effect = {"config", "succeeded"} /\ exit = L!ExitOK
        \/ effect = {"config", "failed"} /\ exit = L!ExitError
    BY <1>4 DEF LineInv
  <2> QED BY <2>1 DEF L!ExitTells, L!ExitOK, L!ExitError, L!ExitUsage
<1> QED BY <1>2, <1>3, <1>4

LEMMA LineFollowed == LineInv => L!LastPathIsLoaded
<1> SUFFICES ASSUME LineInv, loaded # "none"
             PROVE  L!LastPathIsLoaded
  BY DEF L!LastPathIsLoaded
<1> DEFINE named == {i \in DOMAIN args : L!NamesPath(args, i)}
           last == CHOOSE i \in named : \A j \in named : j <= i
<1>1. named = NamedFrom(args, 1) /\ named \subseteq Nat
  BY DEF LineInv, NamedFrom
<1>2. LastIs(args, 1, L!DefaultConfigPath, loaded)
  <2>1. Correct(args, L!Run(args))
    BY RunCorrect DEF LineInv
  <2>2. L!Run(args).command \in {"serve", "check"} /\ loaded = L!Run(args).path
    BY DEF LineInv
  <2> QED BY <2>1, <2>2 DEF Correct
<1> HIDE DEF named, last
<1>3. loaded = IF named = {} THEN L!DefaultConfigPath ELSE L!PathNamed(args, last)
  <2>1. CASE named = {}
    BY <1>1, <1>2, <2>1 DEF LastIs
  <2>2. CASE named # {}
    <3>1. PICK l \in named : (\A j \in named : j <= l) /\ loaded = L!PathNamed(args, l)
      BY <1>1, <1>2, <2>2 DEF LastIs
    <3>2. last \in named /\ \A j \in named : j <= last
      BY <3>1 DEF last
    <3>3. last = l
      BY <1>1, <3>1, <3>2
    <3> QED BY <2>2, <3>1, <3>3
  <2> QED BY <2>1, <2>2
<1> QED BY <1>3 DEF L!LastPathIsLoaded, named, last

(* The process does what its command line says, whatever is typed and       *)
(* however long it is, and its exit code says what was done (cli.go:20-60). *)
THEOREM LineIsFollowed == L!Spec => []CommandLineSafe
<1>1. LineInv => CommandLineSafe
  BY LineTold, LineFollowed DEF CommandLineSafe, L!CommandLineSafe
<1> QED BY <1>1, LineInvHolds, PTL

-----------------------------------------------------------------------------
(* The names.  First the characters: a letter or a digit is no punctuation  *)
(* and no capital, and a numeral is made of letters and digits.             *)
LEMMA Characters ==
  /\ N!LowerHex \subseteq N!Alphanumeric /\ "0" \in N!LowerHex
  /\ N!Alphanumeric \cap N!Punctuation = {} /\ "-" \in N!Punctuation
  /\ (N!Alphanumeric \cup N!Punctuation) \cap DOMAIN N!UpperCase = {}
  /\ {"r", "s", "c", "a", "l", "e", "t"} \subseteq N!Alphanumeric
<1>1. /\ N!Base36[1] = "0" /\ N!Base36[11] = "a" /\ N!Base36[13] = "c" /\ N!Base36[15] = "e"
      /\ N!Base36[22] = "l" /\ N!Base36[28] = "r" /\ N!Base36[29] = "s" /\ N!Base36[30] = "t"
  BY DEF N!Base36
<1>2. DOMAIN N!Base36 = 1..36
  BY DEF N!Base36
<1> DEFINE underscore == "_"
<1>3. /\ N!Punctuation = {"-", underscore, "."}
      /\ underscore \notin {"A", "K", "Z"} /\ \A c \in {"A", "K", "Z"} : c # underscore
  BY Zenon DEF N!Punctuation
<1>4. /\ underscore # "0" /\ underscore # "1" /\ underscore # "2" /\ underscore # "3"
      /\ underscore # "4" /\ underscore # "5" /\ underscore # "6" /\ underscore # "7"
      /\ underscore # "8" /\ underscore # "9" /\ underscore # "a" /\ underscore # "b"
      /\ underscore # "c" /\ underscore # "d" /\ underscore # "e" /\ underscore # "f"
      /\ underscore # "g" /\ underscore # "h" /\ underscore # "i" /\ underscore # "j"
      /\ underscore # "k" /\ underscore # "l" /\ underscore # "m" /\ underscore # "n"
      /\ underscore # "o" /\ underscore # "p" /\ underscore # "q" /\ underscore # "r"
      /\ underscore # "s" /\ underscore # "t" /\ underscore # "u" /\ underscore # "v"
      /\ underscore # "w" /\ underscore # "x" /\ underscore # "y" /\ underscore # "z"
  OBVIOUS
<1> HIDE DEF underscore
<1>5. \A i \in 1..36 : N!Base36[i] \notin {"-", underscore, ".", "A", "K", "Z"}
  <2>1. \A i \in 1..36 : N!Base36[i] # underscore
    BY <1>4 DEF N!Base36
  <2>2. \A i \in 1..36 : N!Base36[i] # "-" /\ N!Base36[i] # "."
    BY DEF N!Base36
  <2>3. \A i \in 1..36 : N!Base36[i] # "A" /\ N!Base36[i] # "K" /\ N!Base36[i] # "Z"
    BY DEF N!Base36
  <2> QED BY <2>1, <2>2, <2>3
<1>6. N!Alphanumeric = {N!Base36[i] : i \in 1..36}
  BY <1>2 DEF N!Alphanumeric, N!ToSet
<1>7. N!LowerHex \subseteq N!Alphanumeric /\ "0" \in N!LowerHex
  BY <1>1, <1>6 DEF N!LowerHex
<1>8. N!Alphanumeric \cap N!Punctuation = {} /\ "-" \in N!Punctuation
  BY <1>3, <1>5, <1>6
<1>9. (N!Alphanumeric \cup N!Punctuation) \cap DOMAIN N!UpperCase = {}
  <2>1. DOMAIN N!UpperCase = {"A", "K", "Z"}
    BY DEF N!UpperCase
  <2> QED BY <1>3, <1>5, <1>6, <2>1
<1>10. {"r", "s", "c", "a", "l", "e", "t"} \subseteq N!Alphanumeric
  <2>1. {1, 11, 13, 15, 22, 28, 29, 30} \subseteq 1..36
    OBVIOUS
  <2> QED BY <1>1, <1>6, <2>1
<1> QED BY <1>7, <1>8, <1>9, <1>10

LEMMA Digits36 ==
  \A i, j \in 1..36 : N!Base36[i] \in N!Alphanumeric /\ (N!Base36[i] = N!Base36[j] => i = j)
<1>1. DOMAIN N!Base36 = 1..36
  BY DEF N!Base36
<1>2. \A i, j \in 1..36 : i < j => N!Base36[i] # N!Base36[j]
  BY DEF N!Base36
<1> QED BY <1>1, <1>2 DEF N!Alphanumeric, N!ToSet

(* A loop over n steps, each of which makes a new value of the one before.  *)
IsRun(f, T, init, n, step) ==
  f \in [0..n -> T] /\ f[0] = init /\ \A i \in 1..n : f[i] = step[<<i, f[i - 1]>>]

LEMMA StepsExist ==
  ASSUME NEW T, NEW init \in T, NEW n \in Nat, NEW step \in [(1..n) \X T -> T]
  PROVE  \E f : IsRun(f, T, init, n, step)
<1> DEFINE S == {k \in Nat : \E f \in [0..n -> T] :
                   f[0] = init /\ \A i \in 1..n : i <= k => f[i] = step[<<i, f[i - 1]>>]}
<1>1. 0 \in S
  <2>1. [i \in 0..n |-> init] \in [0..n -> T] /\ [i \in 0..n |-> init][0] = init
    OBVIOUS
  <2>2. \A i \in 1..n : ~(i <= 0)
    OBVIOUS
  <2> QED BY <2>1, <2>2
<1>2. ASSUME NEW k \in Nat, k \in S
      PROVE  k + 1 \in S
  <2>1. PICK f \in [0..n -> T] :
                f[0] = init /\ \A i \in 1..n : i <= k => f[i] = step[<<i, f[i - 1]>>]
    BY <1>2
  <2> DEFINE g == [i \in 0..n |-> IF i = k + 1 THEN step[<<i, f[i - 1]>>] ELSE f[i]]
  <2>2. g \in [0..n -> T] /\ g[0] = init
    BY <2>1
  <2>3. ASSUME NEW i \in 1..n, i <= k + 1
        PROVE  g[i] = step[<<i, g[i - 1]>>]
    <3>1. i - 1 \in 0..n /\ i - 1 # k + 1 /\ g[i - 1] = f[i - 1]
      BY <2>3
    <3>2. g[i] = step[<<i, f[i - 1]>>]
      BY <2>1, <2>3
    <3> QED BY <3>1, <3>2
  <2> HIDE DEF g
  <2>4. \E h \in [0..n -> T] :
           h[0] = init /\ \A i \in 1..n : i <= k + 1 => h[i] = step[<<i, h[i - 1]>>]
    BY <2>2, <2>3
  <2> QED BY <2>4
<1>3. n \in S
  <2> HIDE DEF S
  <2> QED BY <1>1, <1>2, SetInduction
<1> QED BY <1>3 DEF IsRun

-----------------------------------------------------------------------------
(* What the two loops over characters have after each of them.              *)
NameChars == N!Alphanumeric \cup N!Punctuation
Nothing   == [b |-> <<>>, separator |-> FALSE]

LEMMA Lowered ==
  ASSUME NEW c
  PROVE  /\ N!Allowed(c) <=> N!ToLower(c) \in NameChars
         /\ c \in NameChars => N!ToLower(c) = c
BY Characters, Zenon DEF N!Allowed, N!ToLower, NameChars

(* A character adds its small letter, behind a dash or not, or nothing.     *)
LEMMA NormalizeCases ==
  ASSUME NEW w \in [b : Seq(NameChars), separator : BOOLEAN], NEW c
  PROVE  /\ N!Normalize(w, c) \in [b : Seq(NameChars), separator : BOOLEAN]
         /\ N!ToLower(c) \notin NameChars =>
              N!Normalize(w, c).b = w.b /\ N!Normalize(w, c).separator
         /\ N!ToLower(c) \in NameChars =>
              /\ ~N!Normalize(w, c).separator
              /\ \/ /\ w.separator /\ w.b # <<>>
                    /\ N!Normalize(w, c).b = (w.b \o <<"-">>) \o <<N!ToLower(c)>>
                 \/ /\ ~w.separator \/ w.b = <<>>
                    /\ N!Normalize(w, c).b = w.b \o <<N!ToLower(c)>>
<1>1. w.b \in Seq(NameChars) /\ w.separator \in BOOLEAN /\ "-" \in NameChars
  BY Characters DEF NameChars
<1>2. CASE N!ToLower(c) \notin NameChars
  <2>1. N!Normalize(w, c) = [w EXCEPT !.separator = TRUE]
    BY <1>2, Lowered DEF N!Normalize
  <2> QED BY <1>1, <1>2, <2>1
<1>3. CASE N!ToLower(c) \in NameChars
  <2> DEFINE x == N!ToLower(c)
             dash == IF w.separator /\ w.b # <<>> THEN <<"-">> ELSE <<>>
  <2>1. N!Normalize(w, c) = [b |-> (w.b \o dash) \o <<x>>, separator |-> FALSE]
    BY <1>3, Lowered DEF N!Normalize
  <2>2. <<"-">> \in Seq(NameChars) /\ <<x>> \in Seq(NameChars)
    BY <1>1, <1>3
  <2>3. CASE w.separator /\ w.b # <<>>
    <3>1. N!Normalize(w, c) = [b |-> (w.b \o <<"-">>) \o <<x>>, separator |-> FALSE]
      BY <2>1, <2>3
    <3>2. (w.b \o <<"-">>) \o <<x>> \in Seq(NameChars)
      BY <1>1, <2>2, ConcatProperties
    <3> QED BY <1>3, <2>3, <3>1, <3>2
  <2>4. CASE ~w.separator \/ w.b = <<>>
    <3>1. w.b \o dash = w.b
      BY <1>1, <2>4, ConcatEmptySeq
    <3>2. N!Normalize(w, c) = [b |-> w.b \o <<x>>, separator |-> FALSE]
      BY <2>1, <3>1
    <3>3. w.b \o <<x>> \in Seq(NameChars)
      BY <1>1, <2>2, ConcatProperties
    <3> QED BY <1>3, <2>4, <3>2, <3>3
  <2> QED BY <2>3, <2>4
<1> QED BY <1>2, <1>3

LEMMA LoopDef ==
  ASSUME NEW value, Len(value) \in Nat
  PROVE  /\ N!Loop(value) \in [0..Len(value) -> [b : Seq(NameChars), separator : BOOLEAN]]
         /\ N!Loop(value)[0] = Nothing
         /\ \A i \in 1..Len(value) :
              N!Loop(value)[i] = N!Normalize(N!Loop(value)[i - 1], value[i])
<1> DEFINE n == Len(value)
           T == [b : Seq(NameChars), separator : BOOLEAN]
           step == [s \in (1..n) \X T |-> N!Normalize(s[2], value[s[1]])]
           Step(f, i) == IF i = 0 THEN Nothing ELSE N!Normalize(f[i - 1], value[i])
<1>1. Nothing \in T
  BY DEF Nothing
<1>2. step \in [(1..n) \X T -> T]
  BY NormalizeCases
<1>3. \A i \in 1..n, t \in T : step[<<i, t>>] = N!Normalize(t, value[i])
  OBVIOUS
<1> HIDE DEF T, step
<1>4. PICK f : IsRun(f, T, Nothing, n, step)
  BY <1>1, <1>2, StepsExist
<1>5. \A i \in 1..n : i - 1 \in 0..n /\ i # 0
  OBVIOUS
<1>6. ASSUME NEW i \in 0..n
      PROVE  f[i] = Step(f, i)
  <2>1. CASE i = 0
    BY <1>4, <2>1 DEF IsRun
  <2>2. CASE i \in 1..n
    <3>1. f[i - 1] \in T /\ f[i] = step[<<i, f[i - 1]>>]
      BY <1>4, <1>5, <2>2 DEF IsRun
    <3>2. f[i] = N!Normalize(f[i - 1], value[i])
      BY <1>3, <2>2, <3>1
    <3> QED BY <2>2, <3>2
  <2> QED BY <2>1, <2>2
<1>7. f = [i \in 0..n |-> Step(f, i)]
  <2> HIDE DEF Step
  <2> QED BY <1>4, <1>6 DEF IsRun
<1>8. N!Loop(value) = CHOOSE r : r = [i \in 0..n |-> Step(r, i)]
  BY DEF N!Loop, Nothing
<1> DEFINE L0 == N!Loop(value)
<1>9. L0 = [i \in 0..n |-> Step(L0, i)]
  <2> HIDE DEF Step
  <2> QED BY <1>7, <1>8
<1> HIDE DEF L0
<1>10. L0[0] = Nothing /\ \A i \in 1..n : L0[i] = N!Normalize(L0[i - 1], value[i])
  BY <1>5, <1>9
<1> DEFINE S == {i \in Nat : i <= n => L0[i] \in T}
<1>11. 0 \in S
  BY <1>1, <1>10
<1>12. ASSUME NEW i \in Nat, i \in S
       PROVE  i + 1 \in S
  <2>1. i + 1 <= n => i + 1 \in 1..n /\ (i + 1) - 1 = i /\ i <= n
    OBVIOUS
  <2>2. \A t \in T : \A c : N!Normalize(t, c) \in T
    BY NormalizeCases DEF T
  <2> QED BY <1>10, <1>12, <2>1, <2>2
<1>13. Nat \subseteq S
  <2> HIDE DEF S
  <2> QED BY <1>11, <1>12, SetInduction
<1>14. L0 \in [0..n -> T]
  BY <1>9, <1>13
<1> QED BY <1>10, <1>14 DEF L0, T

(* The loop that keeps some characters, as Only has it.                     *)
Kept(value, kept) ==
  CHOOSE r : r = [i \in 0..Len(value) |->
                    IF i = 0 THEN <<>>
                    ELSE r[i - 1] \o (IF value[i] \in kept THEN <<value[i]>> ELSE <<>>)]

LEMMA KeptDef ==
  ASSUME NEW value, Len(value) \in Nat, NEW kept
  PROVE  /\ Kept(value, kept) \in [0..Len(value) -> Seq(kept)]
         /\ Kept(value, kept)[0] = <<>>
         /\ \A i \in 1..Len(value) :
              Kept(value, kept)[i] = IF value[i] \in kept
                                     THEN Kept(value, kept)[i - 1] \o <<value[i]>>
                                     ELSE Kept(value, kept)[i - 1]
         /\ N!Only(value, kept) = Kept(value, kept)[Len(value)]
<1> DEFINE n == Len(value)
           T == Seq(kept)
           More(t, i) == t \o (IF value[i] \in kept THEN <<value[i]>> ELSE <<>>)
           step == [s \in (1..n) \X T |-> More(s[2], s[1])]
           Step(f, i) == IF i = 0 THEN <<>> ELSE More(f[i - 1], i)
<1>1. <<>> \in T
  OBVIOUS
<1>2. ASSUME NEW t \in T, NEW i
      PROVE  More(t, i) \in T
             /\ More(t, i) = IF value[i] \in kept THEN t \o <<value[i]>> ELSE t
  <2>1. value[i] \in kept => <<value[i]>> \in Seq(kept)
    OBVIOUS
  <2> QED BY <2>1, ConcatProperties, ConcatEmptySeq
<1> HIDE DEF T, More
<1>3. step \in [(1..n) \X T -> T]
  BY <1>2
<1>4. \A i \in 1..n, t \in T : step[<<i, t>>] = More(t, i)
  OBVIOUS
<1> HIDE DEF step
<1>5. PICK f : IsRun(f, T, <<>>, n, step)
  BY <1>1, <1>3, StepsExist
<1>6. \A i \in 1..n : i - 1 \in 0..n /\ i # 0
  OBVIOUS
<1>7. ASSUME NEW i \in 0..n
      PROVE  f[i] = Step(f, i)
  <2>1. CASE i = 0
    BY <1>5, <2>1 DEF IsRun
  <2>2. CASE i \in 1..n
    <3>1. f[i - 1] \in T /\ f[i] = step[<<i, f[i - 1]>>]
      BY <1>5, <1>6, <2>2 DEF IsRun
    <3>2. f[i] = More(f[i - 1], i)
      BY <1>4, <2>2, <3>1
    <3> QED BY <2>2, <3>2
  <2> QED BY <2>1, <2>2
<1>8. f = [i \in 0..n |-> Step(f, i)]
  <2> HIDE DEF Step
  <2> QED BY <1>5, <1>7 DEF IsRun
<1> DEFINE K == Kept(value, kept)
<1>9. K = CHOOSE r : r = [i \in 0..n |-> Step(r, i)]
  BY DEF Kept, More
<1>10. N!Only(value, kept) = K[n]
  BY DEF N!Only, Kept
<1> HIDE DEF K
<1>11. K = [i \in 0..n |-> Step(K, i)]
  <2> HIDE DEF Step
  <2> QED BY <1>8, <1>9
<1>12. K[0] = <<>> /\ \A i \in 1..n : K[i] = More(K[i - 1], i)
  BY <1>6, <1>11
<1> DEFINE S == {i \in Nat : i <= n => K[i] \in T}
<1>13. 0 \in S
  BY <1>1, <1>12
<1>14. ASSUME NEW i \in Nat, i \in S
       PROVE  i + 1 \in S
  <2>1. i + 1 <= n => i + 1 \in 1..n /\ (i + 1) - 1 = i /\ i <= n
    OBVIOUS
  <2>2. i + 1 <= n => K[i + 1] = More(K[i], i + 1) /\ K[i] \in T
    BY <1>12, <1>14, <2>1
  <2>3. i + 1 <= n => More(K[i], i + 1) \in T
    BY <1>2, <2>2
  <2> QED BY <2>2, <2>3
<1>15. Nat \subseteq S
  <2> HIDE DEF S
  <2> QED BY <1>13, <1>14, SetInduction
<1>16. K \in [0..n -> T]
  BY <1>11, <1>15
<1>17. \A i \in 1..n : K[i - 1] \in T
  BY <1>6, <1>16
<1>18. \A i \in 1..n : K[i] = IF value[i] \in kept THEN K[i - 1] \o <<value[i]>> ELSE K[i - 1]
  BY <1>2, <1>12, <1>17
<1> QED BY <1>10, <1>12, <1>16, <1>18 DEF K, T

LEMMA OnlyTyped ==
  ASSUME NEW value, Len(value) \in Nat, NEW kept
  PROVE  N!Only(value, kept) \in Seq(kept)
<1>1. Kept(value, kept) \in [0..Len(value) -> Seq(kept)]
  BY KeptDef
<1>2. N!Only(value, kept) = Kept(value, kept)[Len(value)]
  BY KeptDef
<1> QED BY <1>1, <1>2

(* What a loop keeps depends on what it has seen only.                      *)
LEMMA KeptSame ==
  ASSUME NEW kept, NEW s, NEW t, Len(s) \in Nat, Len(t) \in Nat,
         NEW m \in Nat, m <= Len(s), m <= Len(t), \A i \in 1..m : s[i] = t[i]
  PROVE  Kept(s, kept)[m] = Kept(t, kept)[m]
<1> DEFINE S == {i \in Nat : i <= m => Kept(s, kept)[i] = Kept(t, kept)[i]}
<1>1. 0 \in S
  BY KeptDef
<1>2. ASSUME NEW i \in Nat, i \in S
      PROVE  i + 1 \in S
  <2>1. i + 1 <= m => /\ i + 1 \in 1..Len(s) /\ i + 1 \in 1..Len(t) /\ i + 1 \in 1..m
                      /\ (i + 1) - 1 = i /\ i <= m
    OBVIOUS
  <2> QED BY <1>2, <2>1, KeptDef
<1>3. Nat \subseteq S
  <2> HIDE DEF S
  <2> QED BY <1>1, <1>2, SetInduction
<1> QED BY <1>3

Joined(u, s, t) ==
  /\ Len(s) \in Nat /\ Len(t) \in Nat /\ Len(u) = Len(s) + Len(t)
  /\ \A i \in 1..Len(s) : u[i] = s[i]
  /\ \A i \in 1..Len(t) : u[Len(s) + i] = t[i]

LEMMA KeptBehind ==
  ASSUME NEW kept, NEW s, NEW t, NEW u, Joined(u, s, t)
  PROVE  N!Only(u, kept) = N!Only(s, kept) \o N!Only(t, kept)
<1> DEFINE n == Len(s)
           m == Len(t)
           a == Kept(s, kept)[n]
           KT == Kept(t, kept)
           KU == Kept(u, kept)
<1>1. n \in Nat /\ m \in Nat /\ Len(u) \in Nat /\ Len(u) = n + m /\ n <= Len(u)
  BY DEF Joined
<1>2. N!Only(s, kept) = a /\ a \in Seq(kept)
  <2>1. N!Only(s, kept) = a
    BY <1>1, KeptDef
  <2>2. N!Only(s, kept) \in Seq(kept)
    BY <1>1, OnlyTyped
  <2> QED BY <2>1, <2>2
<1>3. /\ KT \in [0..m -> Seq(kept)] /\ KT[0] = <<>> /\ N!Only(t, kept) = KT[m]
      /\ \A i \in 1..m : KT[i] = IF t[i] \in kept THEN KT[i - 1] \o <<t[i]>> ELSE KT[i - 1]
  <2>1. /\ Kept(t, kept) \in [0..Len(t) -> Seq(kept)]
        /\ Kept(t, kept)[0] = <<>>
        /\ \A i \in 1..Len(t) : Kept(t, kept)[i] = IF t[i] \in kept
                                                  THEN Kept(t, kept)[i - 1] \o <<t[i]>>
                                                  ELSE Kept(t, kept)[i - 1]
        /\ N!Only(t, kept) = Kept(t, kept)[Len(t)]
    BY <1>1, KeptDef, Zenon
  <2> QED BY <2>1, Zenon
<1>4. /\ N!Only(u, kept) = KU[n + m]
      /\ \A i \in 1..n + m : KU[i] = IF u[i] \in kept THEN KU[i - 1] \o <<u[i]>> ELSE KU[i - 1]
  <2>1. /\ \A i \in 1..Len(u) : Kept(u, kept)[i] = IF u[i] \in kept
                                                  THEN Kept(u, kept)[i - 1] \o <<u[i]>>
                                                  ELSE Kept(u, kept)[i - 1]
        /\ N!Only(u, kept) = Kept(u, kept)[Len(u)]
    <3>1. Len(u) \in Nat
      BY <1>1
    <3> QED BY <3>1, KeptDef
  <2> QED BY <1>1, <2>1, Zenon
<1>5. KU[n] = a
  <2>1. /\ n \in Nat /\ n <= Len(u) /\ n <= Len(s) /\ Len(u) \in Nat /\ Len(s) \in Nat
        /\ \A i \in 1..n : u[i] = s[i]
    BY <1>1 DEF Joined
  <2> HIDE DEF n
  <2>2. Kept(u, kept)[n] = Kept(s, kept)[n]
    BY <2>1, KeptSame
  <2> QED BY <2>2
<1>6. \A i \in 1..m : u[n + i] = t[i]
  BY DEF Joined
<1> HIDE DEF n, m, a, KT, KU
<1> DEFINE Both(i) == KU[n + i] = a \o KT[i]
           S == {i \in Nat : i <= m => Both(i)}
<1>7. Both(0)
  <2>1. n + 0 = n /\ a \o <<>> = a
    BY <1>1, <1>2, ConcatEmptySeq
  <2> QED BY <1>3, <1>5, <2>1
<1>8. ASSUME NEW i \in Nat, Both(i), i + 1 <= m
      PROVE  Both(i + 1)
  <2>1. /\ i + 1 \in 1..m /\ (i + 1) - 1 = i /\ n + (i + 1) \in 1..n + m
        /\ (n + (i + 1)) - 1 = n + i /\ i \in 0..m /\ i <= m
    BY <1>1, <1>8
  <2> DEFINE c == t[i + 1]
             b == KT[i]
  <2>2. KU[n + i] = a \o b /\ b \in Seq(kept)
    BY <1>3, <1>8, <2>1
  <2>3. KT[i + 1] = IF c \in kept THEN b \o <<c>> ELSE b
    BY <1>3, <2>1
  <2>4. KU[n + (i + 1)] = IF c \in kept THEN (a \o b) \o <<c>> ELSE a \o b
    <3>1. u[n + (i + 1)] = c
      BY <1>6, <2>1
    <3> HIDE DEF b, c
    <3> QED BY <1>4, <2>1, <2>2, <3>1
  <2> HIDE DEF b, c
  <2>5. c \in kept => (a \o b) \o <<c>> = a \o (b \o <<c>>)
    <3> DEFINE d == <<c>>
    <3>1. c \in kept => d \in Seq(kept)
      OBVIOUS
    <3> HIDE DEF d
    <3>2. ASSUME c \in kept
          PROVE  (a \o b) \o d = a \o (b \o d)
      <4>1. a \in Seq(kept) /\ b \in Seq(kept) /\ d \in Seq(kept)
        BY <1>2, <2>2, <3>1, <3>2
      <4> QED BY <4>1, ConcatAssociative
    <3> QED BY <3>2 DEF d
  <2> QED BY <2>3, <2>4, <2>5
<1> HIDE DEF Both
<1>9. Nat \subseteq S
  <2>1. 0 \in S
    BY <1>7
  <2>2. ASSUME NEW i \in Nat, i \in S
        PROVE  i + 1 \in S
    <3>1. i + 1 <= m => i <= m
      BY <1>1
    <3> QED BY <1>8, <2>2, <3>1
  <2> HIDE DEF S
  <2> QED BY <2>1, <2>2, SetInduction
<1>10. KU[n + m] = a \o KT[m]
  <2>1. Both(m)
    BY <1>1, <1>9
  <2> QED BY <2>1 DEF Both
<1> QED BY <1>2, <1>3, <1>4, <1>10

LEMMA OnlyConcat ==
  ASSUME NEW T, NEW s \in Seq(T), NEW t \in Seq(T), NEW kept
  PROVE  N!Only(s \o t, kept) = N!Only(s, kept) \o N!Only(t, kept)
<1> DEFINE u == s \o t
<1>1. Len(s) \in Nat /\ Len(t) \in Nat /\ Len(u) = Len(s) + Len(t)
      /\ \A i \in 1..Len(s) + Len(t) : u[i] = IF i <= Len(s) THEN s[i] ELSE t[i - Len(s)]
  BY ConcatProperties
<1> HIDE DEF u
<1>2. \A i \in 1..Len(s) : u[i] = s[i]
  <2>1. \A i \in 1..Len(s) : i \in 1..Len(s) + Len(t) /\ i <= Len(s)
    BY <1>1
  <2> QED BY <1>1, <2>1
<1>3. \A i \in 1..Len(t) : u[Len(s) + i] = t[i]
  <2>1. \A i \in 1..Len(t) : /\ Len(s) + i \in 1..Len(s) + Len(t) /\ ~(Len(s) + i <= Len(s))
                             /\ (Len(s) + i) - Len(s) = i
    BY <1>1
  <2> QED BY <1>1, <2>1
<1>4. N!Only(u, kept) = N!Only(s, kept) \o N!Only(t, kept)
  <2>1. Joined(u, s, t)
    BY <1>1, <1>2, <1>3 DEF Joined
  <2> QED BY <2>1, KeptBehind
<1> QED BY <1>4 DEF u

(* A loop that keeps everything it meets, and one that keeps nothing.       *)
LEMMA OnlyAll ==
  ASSUME NEW kept, NEW s \in Seq(kept)
  PROVE  N!Only(s, kept) = s
<1> DEFINE S == {i \in Nat : i <= Len(s) => Kept(s, kept)[i] = SubSeq(s, 1, i)}
<1>1. Len(s) \in Nat /\ \A i \in 1..Len(s) : s[i] \in kept
  OBVIOUS
<1>2. 0 \in S
  BY <1>1, KeptDef, SubSeqEmpty
<1>3. ASSUME NEW i \in Nat, i \in S
      PROVE  i + 1 \in S
  <2> SUFFICES ASSUME i + 1 <= Len(s)
               PROVE  Kept(s, kept)[i + 1] = SubSeq(s, 1, i + 1)
    OBVIOUS
  <2>1. i + 1 \in 1..Len(s) /\ (i + 1) - 1 = i /\ i <= Len(s) /\ 1 \in 1..Len(s)
    BY <1>1
  <2>2. Kept(s, kept)[i + 1] = SubSeq(s, 1, i) \o <<s[i + 1]>>
    BY <1>1, <1>3, <2>1, KeptDef
  <2>3. SubSeq(s, 1, i + 1) = SubSeq(s, 1, (i + 1) - 1) \o <<s[i + 1]>>
    BY <2>1, SubSeqRecursiveSecond
  <2> QED BY <2>1, <2>2, <2>3
<1>4. Nat \subseteq S
  <2> HIDE DEF S
  <2> QED BY <1>2, <1>3, SetInduction
<1>5. Kept(s, kept)[Len(s)] = SubSeq(s, 1, Len(s))
  BY <1>1, <1>4
<1> QED BY <1>1, <1>5, KeptDef, SubSeqFull

LEMMA OnlyNone ==
  ASSUME NEW kept, NEW s, Len(s) \in Nat, \A i \in 1..Len(s) : s[i] \notin kept
  PROVE  N!Only(s, kept) = <<>>
<1> DEFINE S == {i \in Nat : i <= Len(s) => Kept(s, kept)[i] = <<>>}
<1>1. 0 \in S
  BY KeptDef
<1>2. ASSUME NEW i \in Nat, i \in S
      PROVE  i + 1 \in S
  <2>1. i + 1 <= Len(s) => i + 1 \in 1..Len(s) /\ (i + 1) - 1 = i /\ i <= Len(s)
    OBVIOUS
  <2> QED BY <1>2, <2>1, KeptDef
<1>3. Nat \subseteq S
  <2> HIDE DEF S
  <2> QED BY <1>1, <1>2, SetInduction
<1> QED BY <1>3, KeptDef

(* One more character.                                                      *)
LEMMA OnlyMore ==
  ASSUME NEW T, NEW s \in Seq(T), NEW c \in T, NEW kept
  PROVE  N!Only(s \o <<c>>, kept)
           = IF c \in kept THEN N!Only(s, kept) \o <<c>> ELSE N!Only(s, kept)
<1>1. <<c>> \in Seq(T) /\ Len(<<c>>) = 1 /\ <<c>>[1] = c /\ Len(s) \in Nat
  OBVIOUS
<1>2. N!Only(s \o <<c>>, kept) = N!Only(s, kept) \o N!Only(<<c>>, kept)
  <2> DEFINE t == <<c>>
  <2>1. t \in Seq(T)
    BY <1>1
  <2> HIDE DEF t
  <2>2. N!Only(s \o t, kept) = N!Only(s, kept) \o N!Only(t, kept)
    BY <2>1, OnlyConcat
  <2> QED BY <2>2 DEF t
<1>3. CASE c \in kept
  <2>1. <<c>> \in Seq(kept)
    BY <1>3
  <2>2. N!Only(<<c>>, kept) = <<c>>
    BY <2>1, OnlyAll
  <2> QED BY <1>2, <1>3, <2>2
<1>4. CASE c \notin kept
  <2>1. N!Only(<<c>>, kept) = <<>>
    <3>1. \A i \in 1..Len(<<c>>) : <<c>>[i] \notin kept
      BY <1>4
    <3> QED BY <1>1, <3>1, OnlyNone
  <2>2. N!Only(s, kept) \in Seq(kept)
    BY <1>1, OnlyTyped
  <2> QED BY <1>2, <1>4, <2>1, <2>2, ConcatEmptySeq
<1> QED BY <1>3, <1>4

-----------------------------------------------------------------------------
(* What the loop of SanitizeName has written: the letters and digits it met, *)
(* no more characters than it met, and a name that needs no change as it is. *)
LEMMA LoopKeeps ==
  ASSUME NEW value, Len(value) \in Nat, NEW low, Len(low) = Len(value),
         \A i \in 1..Len(value) : low[i] = N!ToLower(value[i])
  PROVE  N!Only(N!Loop(value)[Len(value)].b, N!Alphanumeric) = N!Only(low, N!Alphanumeric)
<1> DEFINE n == Len(value)
           W == N!Loop(value)
           K == Kept(low, N!Alphanumeric)
           Both(i) == N!Only(W[i].b, N!Alphanumeric) = K[i]
           S == {i \in Nat : i <= n => Both(i)}
<1>1. /\ W \in [0..n -> [b : Seq(NameChars), separator : BOOLEAN]] /\ W[0] = Nothing
      /\ \A i \in 1..n : W[i] = N!Normalize(W[i - 1], value[i])
  BY LoopDef
<1>2. /\ K[0] = <<>> /\ N!Only(low, N!Alphanumeric) = K[n]
      /\ \A i \in 1..n : K[i] = IF low[i] \in N!Alphanumeric
                                THEN K[i - 1] \o <<low[i]>> ELSE K[i - 1]
  BY KeptDef
<1>3. n \in Nat /\ \A i \in 1..n : low[i] = N!ToLower(value[i])
  OBVIOUS
<1> HIDE DEF n, W, K
<1>4. Both(0)
  <2>1. N!Only(<<>>, N!Alphanumeric) = <<>>
    BY OnlyNone
  <2>2. W[0].b = <<>>
    BY <1>1 DEF Nothing
  <2> QED BY <1>2, <2>1, <2>2
<1>5. ASSUME NEW i \in Nat, Both(i), i + 1 <= n
      PROVE  Both(i + 1)
  <2>1. i + 1 \in 1..n /\ (i + 1) - 1 = i /\ i \in 0..n
    BY <1>3, <1>5
  <2> DEFINE w == W[i]
             v == W[i + 1]
             c == value[i + 1]
             x == N!ToLower(c)
  <2>2. w \in [b : Seq(NameChars), separator : BOOLEAN] /\ v = N!Normalize(w, c)
    BY <1>1, <2>1
  <2>3. K[i + 1] = IF x \in N!Alphanumeric THEN K[i] \o <<x>> ELSE K[i]
    BY <1>2, <1>3, <2>1
  <2>4. N!Only(w.b, N!Alphanumeric) = K[i]
    BY <1>5
  <2>5. N!Only(v.b, N!Alphanumeric) = IF x \in N!Alphanumeric THEN K[i] \o <<x>> ELSE K[i]
    <3> HIDE DEF w, v, c
    <3>1. CASE x \notin NameChars
      <4>1. v.b = w.b
        BY <2>2, <3>1, NormalizeCases
      <4>2. x \notin N!Alphanumeric
        BY <3>1 DEF NameChars
      <4> HIDE DEF x
      <4> QED BY <2>4, <4>1, <4>2
    <3>2. CASE x \in NameChars
      <4>1. \/ v.b = (w.b \o <<"-">>) \o <<x>>
            \/ v.b = w.b \o <<x>>
        BY <2>2, <3>2, NormalizeCases
      <4>2. w.b \in Seq(NameChars)
        BY <2>2
      <4> HIDE DEF x
      <4>3. CASE v.b = w.b \o <<x>>
        <5> DEFINE u == w.b
        <5>1. u \in Seq(NameChars) /\ N!Only(u, N!Alphanumeric) = K[i]
          BY <2>4, <4>2
        <5> HIDE DEF u
        <5>2. N!Only(u \o <<x>>, N!Alphanumeric)
                = IF x \in N!Alphanumeric THEN N!Only(u, N!Alphanumeric) \o <<x>>
                  ELSE N!Only(u, N!Alphanumeric)
          BY <3>2, <5>1, OnlyMore
        <5>3. v.b = u \o <<x>>
          BY <4>3 DEF u
        <5> QED BY <5>1, <5>2, <5>3
      <4>4. CASE v.b = (w.b \o <<"-">>) \o <<x>>
        <5> DEFINE u == w.b \o <<"-">>
        <5>1. "-" \in NameChars /\ "-" \notin N!Alphanumeric
          BY Characters DEF NameChars
        <5>2. u \in Seq(NameChars)
          <6>1. <<"-">> \in Seq(NameChars)
            BY <5>1
          <6> QED BY <4>2, <6>1, ConcatProperties
        <5>3. N!Only(u, N!Alphanumeric) = K[i]
          BY <2>4, <4>2, <5>1, OnlyMore
        <5>4. v.b = u \o <<x>>
          BY <4>4
        <5> HIDE DEF u
        <5>5. N!Only(u \o <<x>>, N!Alphanumeric)
                = IF x \in N!Alphanumeric THEN N!Only(u, N!Alphanumeric) \o <<x>>
                  ELSE N!Only(u, N!Alphanumeric)
          BY <3>2, <5>2, OnlyMore
        <5> QED BY <5>3, <5>4, <5>5
      <4> QED BY <4>1, <4>3, <4>4
    <3> QED BY <3>1, <3>2
  <2> QED BY <2>3, <2>5
<1> HIDE DEF Both
<1>6. Nat \subseteq S
  <2>1. 0 \in S
    BY <1>4
  <2>2. ASSUME NEW i \in Nat, i \in S
        PROVE  i + 1 \in S
    <3>1. i + 1 <= n => i <= n
      BY <1>3
    <3> QED BY <1>5, <2>2, <3>1
  <2> HIDE DEF S
  <2> QED BY <2>1, <2>2, SetInduction
<1>7. Both(n)
  BY <1>3, <1>6
<1> QED BY <1>2, <1>7 DEF Both, W, n

LEMMA LoopLength ==
  ASSUME NEW value, Len(value) \in Nat
  PROVE  Len(N!Loop(value)[Len(value)].b) <= Len(value)
<1> DEFINE n == Len(value)
           W == N!Loop(value)
           Short(i) == Len(W[i].b) <= i /\ (W[i].separator /\ W[i].b # <<>> => Len(W[i].b) < i)
           S == {i \in Nat : i <= n => Short(i)}
<1>1. /\ W \in [0..n -> [b : Seq(NameChars), separator : BOOLEAN]] /\ W[0] = Nothing
      /\ \A i \in 1..n : W[i] = N!Normalize(W[i - 1], value[i])
  BY LoopDef
<1>2. n \in Nat
  OBVIOUS
<1> HIDE DEF n, W
<1>3. Short(0)
  BY <1>1 DEF Nothing
<1>4. ASSUME NEW i \in Nat, Short(i), i + 1 <= n
      PROVE  Short(i + 1)
  <2>1. i + 1 \in 1..n /\ (i + 1) - 1 = i /\ i \in 0..n
    BY <1>2, <1>4
  <2> DEFINE w == W[i]
             v == W[i + 1]
             c == value[i + 1]
             x == N!ToLower(c)
  <2>2. w \in [b : Seq(NameChars), separator : BOOLEAN] /\ v = N!Normalize(w, c)
    BY <1>1, <2>1
  <2>3. Len(w.b) <= i /\ (w.separator /\ w.b # <<>> => Len(w.b) < i) /\ Len(w.b) \in Nat
    BY <1>4, <2>2
  <2>4. Len(v.b) <= i + 1 /\ (v.separator => Len(v.b) < i + 1)
    <3> HIDE DEF w, v, c
    <3>1. CASE x \notin NameChars
      <4>1. v.b = w.b
        BY <2>2, <3>1, NormalizeCases
      <4> HIDE DEF x
      <4> QED BY <2>3, <4>1
    <3>2. CASE x \in NameChars
      <4>1. /\ ~v.separator
            /\ \/ w.separator /\ w.b # <<>> /\ v.b = (w.b \o <<"-">>) \o <<x>>
               \/ v.b = w.b \o <<x>>
        BY <2>2, <3>2, NormalizeCases
      <4>2. w.b \in Seq(NameChars)
        BY <2>2
      <4> HIDE DEF x
      <4>3. <<x>> \in Seq(NameChars) /\ Len(<<x>>) = 1
        BY <3>2
      <4>4. CASE v.b = w.b \o <<x>>
        <5>1. Len(v.b) = Len(w.b) + 1
          BY <4>2, <4>3, <4>4, ConcatProperties
        <5> QED BY <2>3, <4>1, <5>1
      <4>5. CASE w.separator /\ w.b # <<>> /\ v.b = (w.b \o <<"-">>) \o <<x>>
        <5> DEFINE u == w.b \o <<"-">>
        <5>1. <<"-">> \in Seq(NameChars) /\ Len(<<"-">>) = 1
          BY Characters DEF NameChars
        <5>2. u \in Seq(NameChars) /\ Len(u) = Len(w.b) + 1
          BY <4>2, <5>1, ConcatProperties
        <5>3. v.b = u \o <<x>>
          BY <4>5
        <5> HIDE DEF u
        <5>4. Len(v.b) = Len(u) + 1
          BY <4>3, <5>2, <5>3, ConcatProperties
        <5>5. Len(w.b) < i
          BY <2>3, <4>5
        <5> QED BY <2>3, <4>1, <5>2, <5>4, <5>5
      <4> QED BY <4>1, <4>4, <4>5
    <3> QED BY <3>1, <3>2
  <2> QED BY <2>4
<1> HIDE DEF Short
<1>5. Nat \subseteq S
  <2>1. 0 \in S
    BY <1>3
  <2>2. ASSUME NEW i \in Nat, i \in S
        PROVE  i + 1 \in S
    <3>1. i + 1 <= n => i <= n
      BY <1>2
    <3> QED BY <1>4, <2>2, <3>1
  <2> HIDE DEF S
  <2> QED BY <2>1, <2>2, SetInduction
<1>6. Short(n)
  BY <1>2, <1>5
<1> QED BY <1>6 DEF Short, W, n

LEMMA LoopOfName ==
  ASSUME NEW name \in Seq(NameChars)
  PROVE  N!Loop(name)[Len(name)].b = name
<1> DEFINE n == Len(name)
           W == N!Loop(name)
           Copied(i) == W[i].b = SubSeq(name, 1, i) /\ ~W[i].separator
           S == {i \in Nat : i <= n => Copied(i)}
<1>1. n \in Nat /\ \A i \in 1..n : name[i] \in NameChars
  OBVIOUS
<1>2. /\ W \in [0..n -> [b : Seq(NameChars), separator : BOOLEAN]] /\ W[0] = Nothing
      /\ \A i \in 1..n : W[i] = N!Normalize(W[i - 1], name[i])
  BY <1>1, LoopDef
<1>3. \A i \in 1..n : SubSeq(name, 1, i) = SubSeq(name, 1, i - 1) \o <<name[i]>>
  <2>1. \A i \in 1..n : 1 \in 1..n /\ i \in 1..n
    BY <1>1
  <2> QED BY <2>1, SubSeqRecursiveSecond
<1>4. SubSeq(name, 1, 0) = <<>> /\ SubSeq(name, 1, n) = name
  BY SubSeqEmpty, SubSeqFull
<1> HIDE DEF n, W
<1>5. Copied(0)
  BY <1>2, <1>4 DEF Nothing
<1>6. ASSUME NEW i \in Nat, Copied(i), i + 1 <= n
      PROVE  Copied(i + 1)
  <2>1. i + 1 \in 1..n /\ (i + 1) - 1 = i /\ i \in 0..n
    BY <1>1, <1>6
  <2> DEFINE w == W[i]
             v == W[i + 1]
             c == name[i + 1]
  <2>2. /\ w \in [b : Seq(NameChars), separator : BOOLEAN] /\ v = N!Normalize(w, c)
        /\ c \in NameChars /\ w.b = SubSeq(name, 1, i) /\ ~w.separator
    BY <1>1, <1>2, <1>6, <2>1
  <2>3. SubSeq(name, 1, i + 1) = SubSeq(name, 1, i) \o <<c>>
    BY <1>3, <2>1
  <2>4. v.b = w.b \o <<c>> /\ ~v.separator
    <3> HIDE DEF w, v, c
    <3>1. N!ToLower(c) = c
      BY <2>2, Lowered
    <3> QED BY <2>2, <3>1, NormalizeCases
  <2> QED BY <2>2, <2>3, <2>4
<1> HIDE DEF Copied
<1>7. Nat \subseteq S
  <2>1. 0 \in S
    BY <1>5
  <2>2. ASSUME NEW i \in Nat, i \in S
        PROVE  i + 1 \in S
    <3>1. i + 1 <= n => i <= n
      BY <1>1
    <3> QED BY <1>6, <2>2, <3>1
  <2> HIDE DEF S
  <2> QED BY <2>1, <2>2, SetInduction
<1>8. Copied(n)
  BY <1>1, <1>7
<1> QED BY <1>4, <1>8 DEF Copied, W, n

-----------------------------------------------------------------------------
(* The first and the last of some places of a sequence.                     *)
LEMMA MaxMin ==
  ASSUME NEW n \in Nat, NEW T, T \subseteq 1..n, T # {}
  PROVE  /\ N!Min(T) \in T /\ \A i \in T : N!Min(T) <= i
         /\ N!Max(T) \in T /\ \A i \in T : i <= N!Max(T)
<1>1. \E m \in T : \A i \in T : m <= i
  <2>1. T \subseteq Nat
    OBVIOUS
  <2> QED BY <2>1, LeastOfSet
<1>2. \E m \in T : \A i \in T : m >= i
  <2> DEFINE D == {n - i : i \in T}
  <2>1. D \subseteq Nat /\ D # {}
    <3>1. \A i \in 1..n : n - i \in Nat
      OBVIOUS
    <3> QED BY <3>1
  <2>2. PICK d \in D : \A e \in D : d <= e
    <3> HIDE DEF D
    <3> QED BY <2>1, LeastOfSet
  <2>3. PICK m \in T : d = n - m
    BY <2>2
  <2>4. ASSUME NEW i \in T
        PROVE  m >= i
    <3>1. n - m <= n - i
      BY <2>2, <2>3
    <3>2. m \in Nat /\ i \in Nat
      OBVIOUS
    <3> QED BY <3>1, <3>2
  <2> QED BY <2>4
<1>3. N!Min(T) \in T /\ \A i \in T : N!Min(T) <= i
  BY <1>1 DEF N!Min
<1>4. N!Max(T) \in T /\ \A i \in T : N!Max(T) >= i
  BY <1>2 DEF N!Max
<1>5. \A i \in T : N!Max(T) >= i => i <= N!Max(T)
  BY <1>4
<1> QED BY <1>3, <1>4, <1>5

(* What Trim takes away at both ends is punctuation, and what it leaves has  *)
(* none at its ends.                                                        *)
Peeled(T, value, name) ==
  \E a \in Seq(T), c \in Seq(T) :
     /\ \A i \in 1..Len(a) : a[i] \in N!Punctuation
     /\ \A i \in 1..Len(c) : c[i] \in N!Punctuation
     /\ value = (a \o name) \o c

LEMMA TrimParts ==
  ASSUME NEW T, NEW value \in Seq(T)
  PROVE  /\ N!Trim(value) \in Seq(T) /\ Len(N!Trim(value)) <= Len(value)
         /\ N!Trim(value) # <<>> => /\ N!Trim(value)[1] \notin N!Punctuation
                                   /\ N!Trim(value)[Len(N!Trim(value))] \notin N!Punctuation
         /\ Peeled(T, value, N!Trim(value))
<1> DEFINE n == Len(value)
           kept == {i \in DOMAIN value : value[i] \notin N!Punctuation}
           lo == N!Min(kept)
           hi == N!Max(kept)
           name == N!Trim(value)
<1>1. n \in Nat /\ DOMAIN value = 1..n /\ \A i \in 1..n : value[i] \in T
  OBVIOUS
<1>2. name = IF kept = {} THEN <<>> ELSE SubSeq(value, lo, hi)
  BY DEF N!Trim
<1>3. kept \subseteq 1..n /\ \A i \in 1..n : i \in kept <=> value[i] \notin N!Punctuation
  BY <1>1
<1>4. CASE kept = {}
  <2>1. name = <<>> /\ \A i \in 1..n : value[i] \in N!Punctuation
    BY <1>2, <1>3, <1>4
  <2>2. (value \o name) \o <<>> = value
    BY <2>1, ConcatEmptySeq
  <2>3. name \in Seq(T) /\ Len(name) <= n /\ <<>> \in Seq(T) /\ Len(<<>>) = 0
    BY <1>1, <2>1
  <2> HIDE DEF name
  <2>4. Peeled(T, value, name)
    <3>1. \A i \in 1..Len(<<>>) : <<>>[i] \in N!Punctuation
      OBVIOUS
    <3> QED BY <2>1, <2>2, <2>3, <3>1 DEF Peeled
  <2> QED BY <2>1, <2>3, <2>4 DEF name
<1>5. CASE kept # {}
  <2>1. /\ lo \in kept /\ (\A i \in kept : lo <= i)
        /\ hi \in kept /\ (\A i \in kept : i <= hi)
    <3> HIDE DEF kept
    <3> QED BY <1>1, <1>3, <1>5, MaxMin
  <2> HIDE DEF kept, lo, hi, name
  <2>2. lo \in 1..n /\ hi \in 1..n /\ lo <= hi
    BY <1>3, <2>1
  <2>3. \A i \in 1..n : i < lo \/ i > hi => value[i] \in N!Punctuation
    BY <1>3, <2>1
  <2>4. value[lo] \notin N!Punctuation /\ value[hi] \notin N!Punctuation
    BY <1>3, <2>1
  <2>5. name = SubSeq(value, lo, hi)
    BY <1>2, <1>5
  <2> DEFINE a == SubSeq(value, 1, lo - 1)
             c == SubSeq(value, hi + 1, n)
  <2>6. /\ name \in Seq(T) /\ Len(name) = hi - lo + 1
        /\ \A i \in 1..hi - lo + 1 : name[i] = value[lo + i - 1]
    <3>1. \A i \in lo..hi : value[i] \in T
      BY <1>1, <2>2
    <3> QED BY <2>2, <2>5, <3>1, SubSeqProperties
  <2>7. /\ a \in Seq(T) /\ Len(a) = lo - 1 /\ \A i \in 1..lo - 1 : a[i] = value[i]
    <3>1. 1 \in Int /\ lo - 1 \in Int /\ \A i \in 1..lo - 1 : value[i] \in T /\ 1 + i - 1 = i
      BY <1>1, <2>2
    <3>2. (lo - 1) - 1 + 1 = lo - 1 /\ (1 <= lo - 1 \/ lo - 1 = 0)
      BY <2>2
    <3> QED BY <2>2, <3>1, <3>2, SubSeqProperties
  <2>8. /\ c \in Seq(T) /\ Len(c) = n - hi /\ \A i \in 1..n - hi : c[i] = value[hi + i]
    <3>1. hi + 1 \in Int /\ n \in Int /\ \A i \in hi + 1..n : value[i] \in T
      BY <1>1, <2>2
    <3>2. n - (hi + 1) + 1 = n - hi /\ \A i \in Int : (hi + 1) + i - 1 = hi + i
      BY <1>1, <2>2
    <3>3. hi + 1 <= n \/ (~(hi + 1 <= n) /\ n - hi = 0)
      <4> HIDE DEF n
      <4> QED BY <1>1, <2>2
    <3>4. /\ c \in Seq(T) /\ Len(c) = IF hi + 1 <= n THEN n - (hi + 1) + 1 ELSE 0
          /\ \A i \in 1..n - (hi + 1) + 1 : c[i] = value[(hi + 1) + i - 1]
      BY <3>1, SubSeqProperties
    <3>5. Len(c) = n - hi
      <4> HIDE DEF n, c
      <4> QED BY <3>2, <3>3, <3>4
    <3>6. \A i \in 1..n - hi : c[i] = value[hi + i]
      <4> HIDE DEF n, c
      <4>1. ASSUME NEW i \in 1..n - hi
            PROVE  c[i] = value[hi + i]
        <5>1. i \in Int
          OBVIOUS
        <5>2. i \in 1..n - (hi + 1) + 1 /\ (hi + 1) + i - 1 = hi + i
          BY <3>2, <5>1
        <5> QED BY <3>4, <5>2
      <4> QED BY <4>1
    <3> QED BY <3>4, <3>5, <3>6
  <2>9. value = (a \o name) \o c
    <3>1. a \o name = SubSeq(value, 1, hi)
      <4>1. 1 \in 1..n + 1 /\ lo - 1 \in 1 - 1..n /\ hi \in lo - 1..n /\ (lo - 1) + 1 = lo
        BY <1>1, <2>2
      <4> QED BY <2>5, <4>1, ConcatAdjacentSubSeq
    <3>2. SubSeq(value, 1, hi) \o c = SubSeq(value, 1, n)
      <4>1. 1 \in 1..n + 1 /\ hi \in 1 - 1..n /\ n \in hi..n
        BY <1>1, <2>2
      <4> QED BY <4>1, ConcatAdjacentSubSeq
    <3> QED BY <3>1, <3>2, SubSeqFull
  <2>10. /\ \A i \in 1..Len(a) : a[i] \in N!Punctuation
         /\ \A i \in 1..Len(c) : c[i] \in N!Punctuation
    <3>1. ASSUME NEW i \in 1..lo - 1
          PROVE  a[i] \in N!Punctuation
      <4>1. i \in 1..n /\ i < lo
        BY <1>1, <2>2
      <4> HIDE DEF a
      <4> QED BY <2>3, <2>7, <4>1
    <3>2. ASSUME NEW i \in 1..n - hi
          PROVE  c[i] \in N!Punctuation
      <4>1. hi + i \in 1..n /\ hi + i > hi
        BY <1>1, <2>2
      <4> HIDE DEF c
      <4> QED BY <2>3, <2>8, <4>1
    <3> HIDE DEF a, c
    <3> QED BY <2>7, <2>8, <3>1, <3>2
  <2>11. name[1] \notin N!Punctuation /\ name[Len(name)] \notin N!Punctuation
    <3>1. /\ 1 \in 1..hi - lo + 1 /\ hi - lo + 1 \in 1..hi - lo + 1
          /\ lo + 1 - 1 = lo /\ lo + (hi - lo + 1) - 1 = hi
      BY <2>2
    <3> QED BY <2>4, <2>6, <3>1
  <2>12. Len(name) <= Len(value)
    <3>1. hi - lo + 1 <= n
      BY <1>1, <2>2
    <3> QED BY <2>6, <3>1 DEF n
  <2> HIDE DEF a, c
  <2>13. Peeled(T, value, name)
    BY <2>7, <2>8, <2>9, <2>10 DEF Peeled
  <2> QED BY <2>6, <2>11, <2>12, <2>13 DEF name
<1> QED BY <1>4, <1>5

LEMMA TrimSame ==
  ASSUME NEW T, NEW value \in Seq(T),
         value # <<>> => /\ value[1] \notin N!Punctuation
                         /\ value[Len(value)] \notin N!Punctuation
  PROVE  N!Trim(value) = value
<1> DEFINE n == Len(value)
           kept == {i \in DOMAIN value : value[i] \notin N!Punctuation}
<1>1. n \in Nat /\ DOMAIN value = 1..n
  OBVIOUS
<1>2. N!Trim(value) = IF kept = {} THEN <<>> ELSE SubSeq(value, N!Min(kept), N!Max(kept))
  BY DEF N!Trim
<1>3. CASE value = <<>>
  <2>1. kept = {}
    BY <1>3
  <2> QED BY <1>2, <1>3, <2>1
<1>4. CASE value # <<>>
  <2>1. n # 0
    BY <1>4, EmptySeq
  <2>2. 1 \in kept /\ n \in kept /\ kept \subseteq 1..n
    BY <1>1, <1>4, <2>1
  <2> HIDE DEF kept
  <2>3. /\ N!Min(kept) \in kept /\ (\A i \in kept : N!Min(kept) <= i)
        /\ N!Max(kept) \in kept /\ (\A i \in kept : i <= N!Max(kept))
    BY <1>1, <2>2, MaxMin
  <2>4. N!Min(kept) = 1 /\ N!Max(kept) = n
    <3>1. /\ N!Min(kept) \in 1..n /\ N!Min(kept) <= 1
          /\ N!Max(kept) \in 1..n /\ n <= N!Max(kept)
      <4> HIDE DEF n
      <4> QED BY <2>2, <2>3
    <3> HIDE DEF n
    <3> QED BY <1>1, <3>1
  <2>5. kept # {}
    BY <2>2
  <2> QED BY <1>2, <2>4, <2>5, SubSeqFull
<1> QED BY <1>3, <1>4

-----------------------------------------------------------------------------
(* The form of a name: letters and digits at its ends, and punctuation among *)
(* them.  SanitizeName makes such a name, and leaves it as it is.           *)
NormalForm(name) ==
  /\ name \in Seq(NameChars)
  /\ name # <<>> => name[1] \in N!Alphanumeric /\ name[Len(name)] \in N!Alphanumeric

LEMMA EndsOfNames ==
  ASSUME NEW name \in Seq(NameChars), name # <<>>
  PROVE  /\ Len(name) \in Nat \ {0} /\ name[1] \in NameChars /\ name[Len(name)] \in NameChars
         /\ name[1] \in N!Alphanumeric <=> name[1] \notin N!Punctuation
         /\ name[Len(name)] \in N!Alphanumeric <=> name[Len(name)] \notin N!Punctuation
<1>1. Len(name) \in Nat /\ Len(name) # 0 /\ \A i \in 1..Len(name) : name[i] \in NameChars
  BY EmptySeq
<1>2. 1 \in 1..Len(name) /\ Len(name) \in 1..Len(name)
  BY <1>1
<1>3. \A c \in NameChars : c \in N!Alphanumeric <=> c \notin N!Punctuation
  BY Characters DEF NameChars
<1> QED BY <1>1, <1>2, <1>3

LEMMA TrimmedForm ==
  ASSUME NEW value \in Seq(NameChars)
  PROVE  NormalForm(N!Trim(value)) /\ Len(N!Trim(value)) <= Len(value)
<1> DEFINE name == N!Trim(value)
<1>1. /\ name \in Seq(NameChars) /\ Len(name) <= Len(value)
      /\ name # <<>> => name[1] \notin N!Punctuation /\ name[Len(name)] \notin N!Punctuation
  BY TrimParts
<1> HIDE DEF name
<1>2. NormalForm(name)
  BY <1>1, EndsOfNames DEF NormalForm
<1> QED BY <1>1, <1>2 DEF name

LEMMA NormalStays ==
  ASSUME NEW name, NormalForm(name)
  PROVE  N!SanitizeName(name) = name
<1>1. N!SanitizeName(name) = N!Trim(name)
  BY LoopOfName DEF NormalForm, N!SanitizeName
<1>2. name # <<>> => name[1] \notin N!Punctuation /\ name[Len(name)] \notin N!Punctuation
  BY EndsOfNames DEF NormalForm
<1> QED BY <1>1, <1>2, TrimSame DEF NormalForm

LEMMA Sanitized ==
  ASSUME NEW value, Len(value) \in Nat
  PROVE  NormalForm(N!SanitizeName(value)) /\ Len(N!SanitizeName(value)) <= Len(value)
<1> DEFINE written == N!Loop(value)[Len(value)].b
<1>1. written \in Seq(NameChars) /\ Len(written) <= Len(value)
  <2>1. N!Loop(value) \in [0..Len(value) -> [b : Seq(NameChars), separator : BOOLEAN]]
    BY LoopDef
  <2>2. Len(value) \in 0..Len(value)
    OBVIOUS
  <2>3. N!Loop(value)[Len(value)] \in [b : Seq(NameChars), separator : BOOLEAN]
    BY <2>1, <2>2
  <2> QED BY <2>3, LoopLength
<1>2. N!SanitizeName(value) = N!Trim(written)
  BY DEF N!SanitizeName
<1> HIDE DEF written
<1>3. NormalForm(N!Trim(written)) /\ Len(N!Trim(written)) <= Len(written)
  BY <1>1, TrimmedForm
<1>4. Len(N!Trim(written)) \in Nat /\ Len(written) \in Nat
  BY <1>1, <1>3 DEF NormalForm
<1> QED BY <1>1, <1>2, <1>3, <1>4

LEMMA SanitizedKeeps ==
  ASSUME NEW value, Len(value) \in Nat, NEW low, Len(low) = Len(value),
         \A i \in 1..Len(value) : low[i] = N!ToLower(value[i])
  PROVE  N!Only(N!SanitizeName(value), N!Alphanumeric) = N!Only(low, N!Alphanumeric)
<1> DEFINE written == N!Loop(value)[Len(value)].b
           name == N!Trim(written)
<1>1. written \in Seq(NameChars)
  <2>1. N!Loop(value) \in [0..Len(value) -> [b : Seq(NameChars), separator : BOOLEAN]]
    BY LoopDef
  <2>2. Len(value) \in 0..Len(value)
    OBVIOUS
  <2>3. N!Loop(value)[Len(value)] \in [b : Seq(NameChars), separator : BOOLEAN]
    BY <2>1, <2>2
  <2> QED BY <2>3
<1>2. N!SanitizeName(value) = name
  BY DEF N!SanitizeName
<1>3. N!Only(written, N!Alphanumeric) = N!Only(low, N!Alphanumeric)
  BY LoopKeeps
<1> HIDE DEF written
<1>4. name \in Seq(NameChars) /\ Peeled(NameChars, written, name)
  BY <1>1, TrimParts
<1> HIDE DEF name
<1>5. PICK a \in Seq(NameChars), c \in Seq(NameChars) :
              /\ \A i \in 1..Len(a) : a[i] \in N!Punctuation
              /\ \A i \in 1..Len(c) : c[i] \in N!Punctuation
              /\ written = (a \o name) \o c
  BY <1>4 DEF Peeled
<1>6. N!Only(a, N!Alphanumeric) = <<>> /\ N!Only(c, N!Alphanumeric) = <<>>
  <2>1. \A x \in N!Punctuation : x \notin N!Alphanumeric
    BY Characters
  <2>2. Len(a) \in Nat /\ Len(c) \in Nat
    BY <1>5
  <2> QED BY <1>5, <2>1, <2>2, OnlyNone
<1>7. N!Only(a \o name, N!Alphanumeric) = N!Only(name, N!Alphanumeric)
  <2>1. N!Only(a \o name, N!Alphanumeric)
          = N!Only(a, N!Alphanumeric) \o N!Only(name, N!Alphanumeric)
    <3>1. a \in Seq(NameChars) /\ name \in Seq(NameChars)
      BY <1>4, <1>5
    <3> QED BY <3>1, OnlyConcat
  <2>2. N!Only(name, N!Alphanumeric) \in Seq(N!Alphanumeric)
    <3>1. Len(name) \in Nat
      BY <1>4
    <3> QED BY <3>1, OnlyTyped
  <2> QED BY <1>6, <2>1, <2>2, ConcatEmptySeq
<1>8. N!Only((a \o name) \o c, N!Alphanumeric) = N!Only(name, N!Alphanumeric)
  <2> DEFINE u == a \o name
  <2>1. u \in Seq(NameChars)
    BY <1>4, ConcatProperties
  <2>2. N!Only(u, N!Alphanumeric) = N!Only(name, N!Alphanumeric)
    BY <1>7
  <2> HIDE DEF u
  <2>3. N!Only(u \o c, N!Alphanumeric) = N!Only(u, N!Alphanumeric) \o N!Only(c, N!Alphanumeric)
    BY <2>1, OnlyConcat
  <2>4. N!Only(u, N!Alphanumeric) \in Seq(N!Alphanumeric)
    <3>1. Len(u) \in Nat
      BY <2>1
    <3> QED BY <3>1, OnlyTyped
  <2>5. N!Only(u \o c, N!Alphanumeric) = N!Only(u, N!Alphanumeric)
    BY <1>6, <2>3, <2>4, ConcatEmptySeq
  <2> QED BY <2>2, <2>5 DEF u
<1> QED BY <1>2, <1>3, <1>5, <1>8

(* The name of the scale set, in the names of its runners.                  *)
LEMMA ScaleSetForm ==
  ASSUME NEW value, Len(value) \in Nat
  PROVE  /\ NormalForm(N!SanitizeScaleSetName(value))
         /\ N!SanitizeScaleSetName(value) # <<>>
<1> DEFINE none == <<"s", "c", "a", "l", "e", "-", "s", "e", "t">>
<1>1. NormalForm(none) /\ none # <<>>
  <2>1. {"s", "c", "a", "l", "e", "-", "t"} \subseteq NameChars
    BY Characters DEF NameChars
  <2>2. none \in Seq(NameChars) /\ Len(none) = 9 /\ none[1] = "s" /\ none[9] = "t"
    BY <2>1
  <2>3. "s" \in N!Alphanumeric /\ "t" \in N!Alphanumeric
    BY Characters
  <2>4. none # <<>>
    OBVIOUS
  <2> HIDE DEF none
  <2> QED BY <2>2, <2>3, <2>4 DEF NormalForm
<1>2. N!SanitizeScaleSetName(value)
        = IF N!SanitizeName(value) = <<>> THEN none ELSE N!SanitizeName(value)
  BY DEF N!SanitizeScaleSetName
<1> HIDE DEF none
<1>3. NormalForm(N!SanitizeName(value))
  BY Sanitized
<1> QED BY <1>1, <1>2, <1>3

(* What SanitizeName makes of the name of a scale set.                      *)
LEMMA NameIsNormal ==
  ASSUME scaleSetName \in Seq(Alphabet)
  PROVE  N!SanitizedIsNormal
<1> DEFINE value == scaleSetName
           low == N!Lower(value)
           name == N!SanitizeName(value)
<1>1. Len(value) \in Nat /\ DOMAIN value = 1..Len(value)
  OBVIOUS
<1>2. Len(low) = Len(value) /\ \A i \in 1..Len(value) : low[i] = N!ToLower(value[i])
  <2>1. low = [i \in 1..Len(value) |-> N!ToLower(value[i])]
    BY <1>1 DEF N!Lower
  <2> DEFINE T == {N!ToLower(value[i]) : i \in 1..Len(value)}
  <2>2. low \in Seq(T)
    <3>1. low \in [1..Len(value) -> T]
      BY <2>1
    <3> HIDE DEF T, low
    <3> QED BY <1>1, <3>1, SeqDef
  <2>3. DOMAIN low = 1..Len(value) /\ DOMAIN low = 1..Len(low) /\ Len(low) \in Nat
    <3>1. DOMAIN low = 1..Len(value)
      BY <2>1
    <3> HIDE DEF T, low
    <3> QED BY <2>2, <3>1, LenProperties
  <2>4. Len(low) = Len(value)
    <3> HIDE DEF low
    <3> QED BY <1>1, <2>3
  <2> QED BY <2>1, <2>4
<1> HIDE DEF low
<1>3. NormalForm(name) /\ Len(name) <= Len(value) /\ N!SanitizeName(name) = name
  BY <1>1, Sanitized, NormalStays
<1>4. N!Only(name, N!Alphanumeric) = N!Only(low, N!Alphanumeric)
  BY <1>1, <1>2, SanitizedKeeps
<1> HIDE DEF name
<1>5. N!ToSet(name) \subseteq N!Alphanumeric \cup N!Punctuation
  BY <1>3 DEF NormalForm, NameChars, N!ToSet
<1>6. name # <<>> => Head(name) \in N!Alphanumeric /\ N!Last(name) \in N!Alphanumeric
  BY <1>3 DEF NormalForm, N!Last
<1> QED BY <1>3, <1>4, <1>5, <1>6 DEF N!SanitizedIsNormal, name, low

-----------------------------------------------------------------------------
(* The numeral of a runner's number: the numeral of its quotient by 36, if   *)
(* there is one, and a digit.                                               *)
LEMMA Quotients ==
  ASSUME NEW n \in Nat
  PROVE  /\ n \div 36 \in Nat /\ n % 36 \in 0..35 /\ (n % 36) + 1 \in 1..36
         /\ n = (36 * (n \div 36)) + (n % 36)
         /\ n >= 36 => n \div 36 < n /\ n \div 36 # 0
OBVIOUS

LastDigit(n) == <<N!Base36[(n % 36) + 1]>>
Numeral(f, n) == (IF n < 36 THEN <<>> ELSE f[n \div 36]) \o LastDigit(n)
Numerals(id) == CHOOSE f : f = [n \in 0..id |-> Numeral(f, n)]

LEMMA LastDigitType ==
  ASSUME NEW n \in Nat
  PROVE  LastDigit(n) \in Seq(N!Alphanumeric) /\ Len(LastDigit(n)) = 1
<1>1. (n % 36) + 1 \in 1..36
  BY Quotients
<1>2. N!Base36[(n % 36) + 1] \in N!Alphanumeric
  BY <1>1, Digits36
<1> QED BY <1>2 DEF LastDigit

LEMMA NumeralType ==
  ASSUME NEW id \in Nat, NEW f, NEW n \in 0..id,
         n >= 36 => f[n \div 36] \in Seq(N!Alphanumeric)
  PROVE  Numeral(f, n) \in Seq(N!Alphanumeric)
<1>1. (IF n < 36 THEN <<>> ELSE f[n \div 36]) \in Seq(N!Alphanumeric)
  OBVIOUS
<1>2. LastDigit(n) \in Seq(N!Alphanumeric)
  BY LastDigitType
<1> QED BY <1>1, <1>2, ConcatProperties DEF Numeral

LEMMA NumeralsDef ==
  ASSUME NEW id \in Nat
  PROVE  /\ Numerals(id) \in [0..id -> Seq(N!Alphanumeric)]
         /\ \A n \in 0..id : Numerals(id)[n] = Numeral(Numerals(id), n)
         /\ N!RunnerIDBase36(id) = Numerals(id)[id]
<1> DEFINE T == Seq(N!Alphanumeric)
           Right(f, k) == \A n \in 0..id : n < k => f[n] = Numeral(f, n)
           S == {k \in Nat : \E f \in [0..id -> T] : Right(f, k)}
<1>1. 0 \in S
  <2>1. [n \in 0..id |-> <<>>] \in [0..id -> T]
    OBVIOUS
  <2>2. \A f : Right(f, 0)
    OBVIOUS
  <2> HIDE DEF Right, T
  <2> QED BY <2>1, <2>2
<1>2. ASSUME NEW k \in Nat, k \in S
      PROVE  k + 1 \in S
  <2>1. PICK f \in [0..id -> T] : Right(f, k)
    <3> HIDE DEF Right, T
    <3> QED BY <1>2
  <2> DEFINE g == [n \in 0..id |-> IF n = k THEN Numeral(f, n) ELSE f[n]]
  <2>2. \A n \in 0..id : Numeral(f, n) \in T
    <3>1. ASSUME NEW n \in 0..id
          PROVE  Numeral(f, n) \in T
      <4>1. n >= 36 => n \div 36 \in 0..id
        BY Quotients
      <4>2. n >= 36 => f[n \div 36] \in T
        <5> HIDE DEF T
        <5> QED BY <2>1, <4>1
      <4> QED BY <4>2, NumeralType
    <3> QED BY <3>1
  <2>3. g \in [0..id -> T]
    <3> HIDE DEF T
    <3> QED BY <2>1, <2>2
  <2>4. ASSUME NEW n \in 0..id, n < k + 1
        PROVE  g[n] = Numeral(g, n)
    <3>1. g[n] = Numeral(f, n)
      <4>1. n = k \/ (n # k /\ n < k)
        BY <2>4
      <4>2. n # k => g[n] = f[n]
        OBVIOUS
      <4>3. n = k => g[n] = Numeral(f, n)
        OBVIOUS
      <4> HIDE DEF g
      <4> QED BY <2>1, <4>1, <4>2, <4>3
    <3>2. n >= 36 => n \div 36 \in 0..id /\ n \div 36 # k
      BY <2>4, Quotients
    <3>3. n >= 36 => g[n \div 36] = f[n \div 36]
      BY <3>2
    <3>4. Numeral(f, n) = Numeral(g, n)
      <4>1. n < 36 \/ n >= 36
        OBVIOUS
      <4> HIDE DEF g
      <4> QED BY <3>3, <4>1 DEF Numeral
    <3> QED BY <3>1, <3>4
  <2> HIDE DEF g, T
  <2>5. Right(g, k + 1)
    BY <2>4
  <2> HIDE DEF Right
  <2> QED BY <2>3, <2>5
<1>3. id + 1 \in S
  <2> HIDE DEF S
  <2> QED BY <1>1, <1>2, SetInduction
<1>4. PICK f \in [0..id -> T] : Right(f, id + 1)
  <2> HIDE DEF T, Right
  <2> QED BY <1>3
<1>5. \A n \in 0..id : f[n] = Numeral(f, n)
  <2>1. \A n \in 0..id : n < id + 1
    OBVIOUS
  <2> QED BY <1>4, <2>1
<1>6. f = [n \in 0..id |-> Numeral(f, n)]
  BY <1>4, <1>5
<1> DEFINE F == Numerals(id)
<1>7. F = [n \in 0..id |-> Numeral(F, n)]
  BY <1>6 DEF Numerals
<1>8. N!RunnerIDBase36(id) = F[id]
  BY DEF N!RunnerIDBase36, Numerals, Numeral, LastDigit
<1> HIDE DEF F
<1>9. \A n \in 0..id : F[n] = Numeral(F, n)
  BY <1>7
<1> DEFINE Typed == {k \in Nat : \A n \in 0..id : n < k => F[n] \in T}
<1>10. 0 \in Typed
  OBVIOUS
<1>11. ASSUME NEW k \in Nat, k \in Typed
       PROVE  k + 1 \in Typed
  <2>1. ASSUME NEW n \in 0..id, n < k + 1
        PROVE  F[n] \in T
    <3>1. n >= 36 => n \div 36 \in 0..id /\ n \div 36 < k
      BY <2>1, Quotients
    <3>2. n >= 36 => F[n \div 36] \in T
      BY <1>11, <3>1
    <3> QED BY <1>9, <3>2, NumeralType
  <2> HIDE DEF T
  <2> QED BY <2>1
<1>12. id + 1 \in Typed
  <2> HIDE DEF Typed
  <2> QED BY <1>10, <1>11, SetInduction
<1>13. F \in [0..id -> T]
  <2>1. \A n \in 0..id : F[n] \in T
    <3>1. \A n \in 0..id : n < id + 1
      OBVIOUS
    <3> HIDE DEF T
    <3> QED BY <1>12, <3>1
  <2> HIDE DEF T
  <2> QED BY <1>7, <2>1
<1> QED BY <1>8, <1>9, <1>13 DEF F, T

(* The numeral of a number does not depend on what it is a part of.         *)
LEMMA NumeralsAgree ==
  \A a, b, n \in Nat : n <= a /\ n <= b => Numerals(a)[n] = Numerals(b)[n]
<1> DEFINE Agree(n) == \A a, b \in Nat : n <= a /\ n <= b => Numerals(a)[n] = Numerals(b)[n]
           S == {k \in Nat : \A n \in Nat : n < k => Agree(n)}
<1>1. 0 \in S
  OBVIOUS
<1>2. ASSUME NEW k \in Nat, k \in S
      PROVE  k + 1 \in S
  <2>1. ASSUME NEW n \in Nat, n < k + 1, NEW a \in Nat, NEW b \in Nat, n <= a, n <= b
        PROVE  Numerals(a)[n] = Numerals(b)[n]
    <3>1. n \in 0..a /\ n \in 0..b
      BY <2>1
    <3>2. /\ Numerals(a)[n] = Numeral(Numerals(a), n)
          /\ Numerals(b)[n] = Numeral(Numerals(b), n)
      BY <3>1, NumeralsDef
    <3>3. n >= 36 => /\ n \div 36 \in Nat /\ n \div 36 < k
                     /\ n \div 36 <= a /\ n \div 36 <= b
      BY <2>1, Quotients
    <3>4. n >= 36 => Numerals(a)[n \div 36] = Numerals(b)[n \div 36]
      <4>1. n >= 36 => Agree(n \div 36)
        <5> HIDE DEF Agree
        <5> QED BY <1>2, <3>3
      <4> QED BY <3>3, <4>1
    <3>5. n < 36 \/ n >= 36
      OBVIOUS
    <3> QED BY <3>2, <3>4, <3>5 DEF Numeral
  <2> QED BY <2>1
<1>3. \A n \in Nat : Agree(n)
  <2> HIDE DEF Agree
  <2>1. Nat \subseteq S
    <3> HIDE DEF S
    <3> QED BY <1>1, <1>2, SetInduction
  <2>2. \A n \in Nat : n + 1 \in S /\ n < n + 1
    <3>1. \A n \in Nat : n + 1 \in Nat /\ n < n + 1
      OBVIOUS
    <3> HIDE DEF S
    <3> QED BY <2>1, <3>1
  <2> QED BY <2>2
<1> QED BY <1>3

LEMMA NumeralOf ==
  ASSUME NEW n \in Nat
  PROVE  /\ N!RunnerIDBase36(n) \in Seq(N!Alphanumeric)
         /\ N!RunnerIDBase36(n)
              = (IF n < 36 THEN <<>> ELSE N!RunnerIDBase36(n \div 36)) \o LastDigit(n)
<1>1. /\ N!RunnerIDBase36(n) = Numerals(n)[n] /\ n \in 0..n
      /\ Numerals(n) \in [0..n -> Seq(N!Alphanumeric)]
      /\ Numerals(n)[n] = Numeral(Numerals(n), n)
  <2>1. n \in 0..n
    OBVIOUS
  <2>2. /\ Numerals(n) \in [0..n -> Seq(N!Alphanumeric)]
        /\ \A k \in 0..n : Numerals(n)[k] = Numeral(Numerals(n), k)
        /\ N!RunnerIDBase36(n) = Numerals(n)[n]
    BY NumeralsDef, Zenon
  <2> QED BY <2>1, <2>2, Zenon
<1>2. n >= 36 => N!RunnerIDBase36(n \div 36) = Numerals(n)[n \div 36]
  <2> DEFINE q == n \div 36
  <2>1. q \in Nat /\ (n >= 36 => q <= n) /\ q <= q
    BY Quotients
  <2> HIDE DEF q
  <2>2. N!RunnerIDBase36(q) = Numerals(q)[q]
    BY <2>1, NumeralsDef
  <2>3. n >= 36 => Numerals(q)[q] = Numerals(n)[q]
    BY <2>1, NumeralsAgree
  <2> QED BY <2>2, <2>3 DEF q
<1>3. n < 36 \/ n >= 36
  OBVIOUS
<1>4. ~(n < 36 /\ n >= 36)
  OBVIOUS
<1> QED BY <1>1, <1>2, <1>3, <1>4 DEF Numeral

(* A numeral is of one number: the last digit is the remainder, and what is  *)
(* before it is of the quotient.                                            *)
LEMMA NumeralsDiffer ==
  \A m, n \in Nat : N!RunnerIDBase36(m) = N!RunnerIDBase36(n) => m = n
<1> DEFINE R(n) == N!RunnerIDBase36(n)
           One(m) == \A n \in Nat : R(m) = R(n) => m = n
           S == {k \in Nat : \A m \in Nat : m < k => One(m)}
<1>1. ASSUME NEW n \in Nat
      PROVE  /\ R(n) \in Seq(N!Alphanumeric) /\ Len(R(n)) # 0
             /\ R(n)[Len(R(n))] = N!Base36[(n % 36) + 1]
             /\ n < 36 => Len(R(n)) = 1
             /\ n >= 36 => /\ Len(R(n)) # 1
                           /\ R(n) = R(n \div 36) \o LastDigit(n)
  <2> DEFINE front == IF n < 36 THEN <<>> ELSE R(n \div 36)
             d == LastDigit(n)
  <2>1. R(n) = front \o d /\ R(n) \in Seq(N!Alphanumeric)
    BY NumeralOf
  <2>2. d \in Seq(N!Alphanumeric) /\ Len(d) = 1 /\ d[1] = N!Base36[(n % 36) + 1]
    BY LastDigitType DEF LastDigit
  <2>3. front \in Seq(N!Alphanumeric) /\ (n < 36 => Len(front) = 0)
        /\ (n >= 36 => Len(front) # 0 /\ front = R(n \div 36))
    <3>1. CASE n < 36
      BY <3>1
    <3>2. CASE n >= 36
      <4> DEFINE q == n \div 36
      <4>1. q \in Nat
        BY Quotients
      <4>2. front = R(q)
        BY <3>2
      <4> HIDE DEF q
      <4> DEFINE f == IF q < 36 THEN <<>> ELSE R(q \div 36)
      <4>3. R(q) = f \o LastDigit(q) /\ R(q) \in Seq(N!Alphanumeric)
        BY <4>1, NumeralOf
      <4>4. f \in Seq(N!Alphanumeric)
        <5>1. q \div 36 \in Nat
          BY <4>1, Quotients
        <5>2. R(q \div 36) \in Seq(N!Alphanumeric)
          BY <5>1, NumeralOf
        <5> QED BY <5>2
      <4>5. LastDigit(q) \in Seq(N!Alphanumeric) /\ Len(LastDigit(q)) = 1
        BY <4>1, LastDigitType
      <4> HIDE DEF f, R
      <4>6. Len(R(q)) = Len(f) + 1 /\ Len(f) \in Nat
        <5> DEFINE e == LastDigit(q)
        <5>1. e \in Seq(N!Alphanumeric) /\ Len(e) = 1 /\ R(q) = f \o e
          BY <4>3, <4>5
        <5> HIDE DEF e
        <5>2. Len(f \o e) = Len(f) + Len(e)
          BY <4>4, <5>1, ConcatProperties
        <5>3. Len(f) \in Nat
          BY <4>4
        <5> QED BY <5>1, <5>2, <5>3
      <4>7. ~(n < 36)
        BY <3>2
      <4> QED BY <4>2, <4>3, <4>6, <4>7 DEF q
    <3> QED BY <3>1, <3>2
  <2> HIDE DEF front, d, R
  <2>4. /\ Len(R(n)) = Len(front) + 1 /\ Len(front) \in Nat
        /\ R(n)[Len(front) + 1] = d[1]
    <3>1. /\ Len(front \o d) = Len(front) + Len(d)
          /\ \A i \in 1..Len(front) + Len(d) :
               (front \o d)[i] = IF i <= Len(front) THEN front[i] ELSE d[i - Len(front)]
      BY <2>2, <2>3, ConcatProperties
    <3>2. Len(front) \in Nat /\ Len(d) = 1
      BY <2>2, <2>3
    <3>3. /\ Len(front) + 1 \in 1..Len(front) + Len(d) /\ ~(Len(front) + 1 <= Len(front))
          /\ (Len(front) + 1) - Len(front) = 1
      BY <3>2
    <3> QED BY <2>1, <3>1, <3>2, <3>3
  <2>5. n >= 36 => Len(R(n)) # 1
    BY <2>3, <2>4
  <2>6. n >= 36 => R(n) = R(n \div 36) \o LastDigit(n)
    BY <2>1, <2>3 DEF d
  <2> QED BY <2>1, <2>2, <2>3, <2>4, <2>5, <2>6
<1> HIDE DEF R
<1>2. ASSUME NEW k \in Nat, \A m \in Nat : m < k => One(m),
             NEW m \in Nat, m < k + 1, NEW n \in Nat, R(m) = R(n)
      PROVE  m = n
  <2>1. m % 36 = n % 36
    <3>1. N!Base36[(m % 36) + 1] = N!Base36[(n % 36) + 1]
      <4>1. R(m)[Len(R(m))] = R(n)[Len(R(n))]
        BY <1>2
      <4>2. /\ R(m)[Len(R(m))] = N!Base36[(m % 36) + 1]
            /\ R(n)[Len(R(n))] = N!Base36[(n % 36) + 1]
        BY <1>1
      <4> QED BY <4>1, <4>2
    <3>2. (m % 36) + 1 \in 1..36 /\ (n % 36) + 1 \in 1..36
      BY Quotients
    <3>3. (m % 36) + 1 = (n % 36) + 1
      BY <3>1, <3>2, Digits36
    <3>4. m % 36 \in Int /\ n % 36 \in Int
      BY Quotients
    <3> QED BY <3>3, <3>4
  <2>2. CASE m < 36 \/ n < 36
    <3>1. m < 36 /\ n < 36
      <4>1. (m < 36 \/ m >= 36) /\ (n < 36 \/ n >= 36)
        OBVIOUS
      <4> QED BY <1>1, <1>2, <2>2, <4>1
    <3>2. m % 36 = m /\ n % 36 = n
      BY <3>1
    <3> QED BY <2>1, <3>2
  <2>3. CASE m >= 36 /\ n >= 36
    <3> DEFINE a == m \div 36
               b == n \div 36
    <3>1. a \in Nat /\ b \in Nat /\ a < k
      BY <1>2, <2>3, Quotients
    <3>2. R(m) = R(a) \o LastDigit(m) /\ R(n) = R(b) \o LastDigit(n)
      BY <1>1, <2>3
    <3>3. LastDigit(m) = LastDigit(n)
      BY <2>1 DEF LastDigit
    <3>4. LastDigit(m) \in Seq(N!Alphanumeric)
      BY LastDigitType
    <3> HIDE DEF a, b
    <3>5. R(a) \in Seq(N!Alphanumeric) /\ R(b) \in Seq(N!Alphanumeric)
      BY <1>1, <3>1
    <3>6. R(a) = R(b)
      <4> DEFINE x == R(a)
                 y == R(b)
                 z == LastDigit(m)
      <4>1. x \o z = y \o z
        BY <1>2, <3>2, <3>3
      <4>2. x \in Seq(N!Alphanumeric) /\ y \in Seq(N!Alphanumeric) /\ z \in Seq(N!Alphanumeric)
        BY <3>4, <3>5
      <4> HIDE DEF x, y, z
      <4>3. x = y
        BY <4>1, <4>2, ConcatSimplifications
      <4> QED BY <4>3 DEF x, y
    <3>7. a = b
      <4>1. One(a)
        BY <1>2, <3>1
      <4> QED BY <3>1, <3>6, <4>1
    <3>8. m = (36 * a) + (m % 36) /\ n = (36 * b) + (n % 36)
      BY Quotients DEF a, b
    <3> QED BY <2>1, <3>7, <3>8
  <2>4. (m < 36 \/ m >= 36) /\ (n < 36 \/ n >= 36)
    OBVIOUS
  <2> QED BY <2>2, <2>3, <2>4
<1>3. \A m \in Nat : One(m)
  <2>1. ASSUME NEW k \in Nat, k \in S
        PROVE  k + 1 \in S
    <3>1. \A m \in Nat : m < k => One(m)
      <4> HIDE DEF One
      <4> QED BY <2>1
    <3>2. ASSUME NEW m \in Nat, m < k + 1
          PROVE  One(m)
      BY <1>2, <3>1, <3>2
    <3> HIDE DEF One
    <3> QED BY <3>2
  <2> HIDE DEF One
  <2>2. 0 \in S
    OBVIOUS
  <2>3. Nat \subseteq S
    <3> HIDE DEF S
    <3> QED BY <2>1, <2>2, SetInduction
  <2>4. \A n \in Nat : n + 1 \in S /\ n < n + 1
    <3>1. \A n \in Nat : n + 1 \in Nat /\ n < n + 1
      OBVIOUS
    <3> HIDE DEF S
    <3> QED BY <2>3, <3>1
  <2> QED BY <2>4
<1> QED BY <1>3 DEF R

-----------------------------------------------------------------------------
(* A suffix that is long enough is cut.                                     *)
LEMMA SuffixCut ==
  ASSUME NEW suffix \in Seq(N!LowerHex), NEW length \in Nat, length <= Len(suffix)
  PROVE  /\ N!hexSuffix(suffix, length) = SubSeq(suffix, 1, length)
         /\ N!hexSuffix(suffix, length) \in Seq(N!LowerHex)
         /\ Len(N!hexSuffix(suffix, length)) = length
<1> DEFINE hex == N!Only(N!Lower(suffix), N!LowerHex)
           cut == SubSeq(suffix, 1, length)
<1>1. Len(suffix) \in Nat /\ DOMAIN suffix = 1..Len(suffix)
      /\ \A i \in 1..Len(suffix) : suffix[i] \in N!LowerHex
  OBVIOUS
<1>2. N!Lower(suffix) = suffix
  <2>1. \A c \in N!LowerHex : N!ToLower(c) = c
    BY Characters, Lowered DEF NameChars
  <2>2. N!Lower(suffix) = [i \in 1..Len(suffix) |-> suffix[i]]
    BY <1>1, <2>1 DEF N!Lower
  <2> QED BY <2>2
<1>3. hex = suffix
  BY <1>2, OnlyAll
<1>4. /\ cut \in Seq(N!LowerHex) /\ Len(cut) = length
      /\ \A i \in 1..length : cut[i] = suffix[i]
  <2>1. 1 \in Int /\ length \in Int /\ \A i \in 1..length : suffix[i] \in N!LowerHex
    BY <1>1
  <2>2. length - 1 + 1 = length /\ \A i \in Int : 1 + i - 1 = i
    OBVIOUS
  <2>3. 1 <= length \/ (~(1 <= length) /\ length = 0)
    OBVIOUS
  <2>4. /\ cut \in Seq(N!LowerHex) /\ Len(cut) = IF 1 <= length THEN length - 1 + 1 ELSE 0
        /\ \A i \in 1..length - 1 + 1 : cut[i] = suffix[1 + i - 1]
    BY <2>1, SubSeqProperties
  <2> HIDE DEF cut
  <2>5. Len(cut) = length
    BY <2>2, <2>3, <2>4
  <2>6. ASSUME NEW i \in 1..length
        PROVE  cut[i] = suffix[i]
    BY <2>2, <2>4
  <2> QED BY <2>4, <2>5, <2>6
<1>5. N!hexSuffix(suffix, length) = cut
  <2>1. N!hexSuffix(suffix, length)
          = [i \in 1..length |-> IF i <= Len(hex) THEN hex[i] ELSE "0"]
    BY DEF N!hexSuffix
  <2> HIDE DEF hex, cut
  <2>2. \A i \in 1..length : i <= Len(suffix)
    BY <1>1
  <2>3. N!hexSuffix(suffix, length) = [i \in 1..length |-> suffix[i]]
    BY <1>3, <2>1, <2>2
  <2>4. cut = [i \in 1..length |-> cut[i]]
    <3>1. DOMAIN cut = 1..length /\ cut \in [1..Len(cut) -> N!LowerHex]
      BY <1>4, LenProperties
    <3> QED BY <3>1
  <2> QED BY <1>4, <2>3, <2>4
<1> QED BY <1>4, <1>5

(* A part of a sequence, by its characters.                                 *)
LEMMA PartIs ==
  ASSUME NEW T, NEW part \in Seq(T), NEW name, NEW m \in Nat, NEW n, n = m + Len(part),
         \A i \in 1..Len(part) : name[m + i] = part[i]
  PROVE  SubSeq(name, m + 1, n) = part
<1> DEFINE k == Len(part)
           cut == SubSeq(name, m + 1, n)
<1>1. k \in Nat /\ n = m + k /\ \A i \in 1..k : name[m + i] = part[i] /\ part[i] \in T
  OBVIOUS
<1> HIDE DEF k
<1>2. m + 1 \in Int /\ n \in Int /\ n - (m + 1) + 1 = k /\ \A i \in Int : (m + 1) + i - 1 = m + i
  BY <1>1
<1>3. m + 1 <= n \/ (~(m + 1 <= n) /\ k = 0)
  BY <1>1
<1>4. \A i \in m + 1..n : name[i] \in T
  <2>1. ASSUME NEW i \in m + 1..n
        PROVE  name[i] \in T
    <3>1. i - m \in 1..k /\ m + (i - m) = i
      BY <1>1
    <3> QED BY <1>1, <3>1
  <2> QED BY <2>1
<1>5. /\ cut \in Seq(T) /\ Len(cut) = IF m + 1 <= n THEN n - (m + 1) + 1 ELSE 0
      /\ \A i \in 1..n - (m + 1) + 1 : cut[i] = name[(m + 1) + i - 1]
  <2> DEFINE a == m + 1
  <2>1. a \in Int /\ n \in Int /\ \A i \in a..n : name[i] \in T
    BY <1>2, <1>4
  <2> HIDE DEF a
  <2>2. /\ SubSeq(name, a, n) \in Seq(T)
        /\ Len(SubSeq(name, a, n)) = IF a <= n THEN n - a + 1 ELSE 0
        /\ \A i \in 1..n - a + 1 : SubSeq(name, a, n)[i] = name[a + i - 1]
    BY <2>1, SubSeqProperties
  <2> QED BY <2>2 DEF a
<1> HIDE DEF cut
<1>6. Len(cut) = k
  BY <1>2, <1>3, <1>5
<1>7. ASSUME NEW i \in 1..k
      PROVE  cut[i] = part[i]
  <2>1. i \in Int /\ i \in 1..n - (m + 1) + 1
    BY <1>2
  <2> QED BY <1>1, <1>2, <1>5, <2>1
<1>8. cut = part
  BY <1>5, <1>6, <1>7, SeqEqual DEF k
<1> QED BY <1>8 DEF cut

-----------------------------------------------------------------------------
(* A name of two parts with a dash between them.                            *)
Dashed(name, p, q) ==
  /\ name \in Seq(NameChars) /\ p \in Seq(NameChars) /\ q \in Seq(NameChars)
  /\ Len(name) = Len(p) + 1 + Len(q)
  /\ \A i \in 1..Len(p) : name[i] = p[i]
  /\ name[Len(p) + 1] = "-"
  /\ \A i \in 1..Len(q) : name[Len(p) + 1 + i] = q[i]

NoDash(q) == \A i \in 1..Len(q) : q[i] # "-"

LEMMA DashedConcat ==
  ASSUME NEW p \in Seq(NameChars), NEW q \in Seq(NameChars)
  PROVE  Dashed((p \o <<"-">>) \o q, p, q)
<1> DEFINE d == <<"-">>
           u == p \o d
           name == u \o q
<1>1. Len(p) \in Nat /\ Len(q) \in Nat /\ d \in Seq(NameChars) /\ Len(d) = 1 /\ d[1] = "-"
  BY Characters DEF NameChars
<1> HIDE DEF d
<1>2. /\ u \in Seq(NameChars) /\ Len(u) = Len(p) + 1
      /\ \A i \in 1..Len(p) + 1 : u[i] = IF i <= Len(p) THEN p[i] ELSE d[i - Len(p)]
  <2>1. /\ u \in Seq(NameChars) /\ Len(u) = Len(p) + Len(d)
        /\ \A i \in 1..Len(p) + Len(d) : u[i] = IF i <= Len(p) THEN p[i] ELSE d[i - Len(p)]
    BY <1>1, ConcatProperties
  <2> HIDE DEF u
  <2> QED BY <1>1, <2>1
<1> HIDE DEF u
<1>3. /\ name \in Seq(NameChars) /\ Len(name) = Len(u) + Len(q)
      /\ \A i \in 1..Len(u) + Len(q) : name[i] = IF i <= Len(u) THEN u[i] ELSE q[i - Len(u)]
  <2>1. u \in Seq(NameChars)
    BY <1>2
  <2> QED BY <2>1, ConcatProperties
<1> HIDE DEF name
<1>4. Len(name) = Len(p) + 1 + Len(q)
  BY <1>2, <1>3
<1>5. ASSUME NEW i \in 1..Len(p)
      PROVE  name[i] = p[i]
  <2>1. i \in 1..Len(p) + 1 /\ i <= Len(p) /\ i \in 1..Len(p) + 1 + Len(q) /\ i <= Len(p) + 1
    BY <1>1
  <2> QED BY <1>2, <1>3, <2>1
<1>6. name[Len(p) + 1] = "-"
  <2>1. /\ Len(p) + 1 \in 1..Len(p) + 1 /\ ~(Len(p) + 1 <= Len(p))
        /\ Len(p) + 1 \in 1..Len(p) + 1 + Len(q) /\ Len(p) + 1 <= Len(p) + 1
        /\ (Len(p) + 1) - Len(p) = 1
    BY <1>1
  <2> QED BY <1>1, <1>2, <1>3, <2>1
<1>7. ASSUME NEW i \in 1..Len(q)
      PROVE  name[Len(p) + 1 + i] = q[i]
  <2>1. /\ Len(p) + 1 + i \in 1..Len(p) + 1 + Len(q) /\ ~(Len(p) + 1 + i <= Len(p) + 1)
        /\ (Len(p) + 1 + i) - (Len(p) + 1) = i
    BY <1>1
  <2> QED BY <1>2, <1>3, <2>1
<1>8. Dashed(name, p, q)
  BY <1>3, <1>4, <1>5, <1>6, <1>7 DEF Dashed
<1> QED BY <1>8 DEF name, u, d

LEMMA DashedParts ==
  ASSUME NEW name, NEW p, NEW q, Dashed(name, p, q)
  PROVE  /\ SubSeq(name, 1, Len(p)) = p
         /\ SubSeq(name, (Len(p) + 1) + 1, Len(name)) = q
<1>1. Len(p) \in Nat /\ Len(q) \in Nat /\ 0 + 1 = 1 /\ Len(p) = 0 + Len(p)
      /\ \A i \in 1..Len(p) : 0 + i = i
  BY DEF Dashed
<1>2. SubSeq(name, 0 + 1, Len(p)) = p
  <2>1. p \in Seq(NameChars) /\ \A i \in 1..Len(p) : name[0 + i] = p[i]
    BY <1>1 DEF Dashed
  <2> QED BY <1>1, <2>1, PartIs
<1>3. SubSeq(name, (Len(p) + 1) + 1, Len(name)) = q
  <2> DEFINE m == Len(p) + 1
  <2>1. /\ m \in Nat /\ q \in Seq(NameChars) /\ Len(name) = m + Len(q)
        /\ \A i \in 1..Len(q) : name[m + i] = q[i]
    BY <1>1 DEF Dashed
  <2> HIDE DEF m
  <2>2. SubSeq(name, m + 1, Len(name)) = q
    BY <2>1, PartIs
  <2> QED BY <2>2 DEF m
<1> QED BY <1>1, <1>2, <1>3

(* The last dash is the one between them if there is none in the second.    *)
LEMMA LastDash ==
  ASSUME NEW name, NEW p, NEW q, Dashed(name, p, q), NoDash(q)
  PROVE  LET dashes == {i \in DOMAIN name : name[i] = "-"}
         IN dashes # {} /\ N!Max(dashes) = Len(p) + 1
<1> DEFINE dashes == {i \in DOMAIN name : name[i] = "-"}
           n == Len(name)
           m == Len(p) + 1
<1>1. /\ n \in Nat /\ m \in Nat /\ Len(q) \in Nat /\ n = m + Len(q) /\ m # 0
      /\ DOMAIN name = 1..n /\ name[m] = "-"
      /\ \A i \in 1..Len(q) : name[m + i] = q[i]
  BY DEF Dashed
<1> HIDE DEF n, m
<1>2. m \in dashes /\ dashes \subseteq 1..n
  BY <1>1
<1>3. \A i \in dashes : i <= m
  <2> SUFFICES ASSUME NEW i \in 1..n, name[i] = "-", ~(i <= m)
               PROVE  FALSE
    BY <1>1
  <2>1. i - m \in 1..Len(q) /\ m + (i - m) = i
    BY <1>1
  <2>2. name[i] = q[i - m]
    BY <1>1, <2>1
  <2> QED BY <2>1, <2>2 DEF NoDash
<1> HIDE DEF dashes
<1>4. N!Max(dashes) \in dashes /\ \A i \in dashes : i <= N!Max(dashes)
  BY <1>1, <1>2, MaxMin
<1>5. N!Max(dashes) <= m /\ m <= N!Max(dashes) /\ N!Max(dashes) \in 1..n
  BY <1>2, <1>3, <1>4
<1>6. N!Max(dashes) = m
  BY <1>1, <1>5
<1> QED BY <1>2, <1>6 DEF dashes, m

(* The last two dashes, of a name whose second part is one of two parts.    *)
LEMMA LastTwoDashes ==
  ASSUME NEW name, NEW p, NEW r, NEW x, NEW h, Dashed(name, p, r), Dashed(r, x, h),
         NoDash(x), NoDash(h)
  PROVE  LET dashes == {i \in DOMAIN name : name[i] = "-"}
             last == N!Max(dashes)
             middle == N!Max(dashes \ {last})
         IN /\ SubSeq(name, last + 1, Len(name)) = h
            /\ SubSeq(name, middle + 1, last - 1) = x
<1> DEFINE dashes == {i \in DOMAIN name : name[i] = "-"}
           m == Len(p) + 1
           k == m + (Len(x) + 1)
           n == Len(name)
<1>1. /\ m \in Nat /\ k \in Nat /\ n \in Nat /\ Len(x) \in Nat /\ Len(h) \in Nat
      /\ m # 0 /\ k = m + (Len(x) + 1) /\ n = k + Len(h)
      /\ x \in Seq(NameChars) /\ h \in Seq(NameChars)
  <2>1. /\ Len(p) \in Nat /\ Len(x) \in Nat /\ Len(h) \in Nat /\ Len(r) = Len(x) + 1 + Len(h)
        /\ Len(name) = Len(p) + 1 + Len(r) /\ Len(name) \in Nat
        /\ x \in Seq(NameChars) /\ h \in Seq(NameChars)
    BY DEF Dashed
  <2> QED BY <2>1
<1>2. DOMAIN name = 1..n /\ name[m] = "-"
  BY DEF Dashed
<1>3. \A i \in 1..Len(r) : name[m + i] = r[i]
  BY DEF Dashed
<1>4. Len(r) = Len(x) + 1 + Len(h)
  BY DEF Dashed
<1> HIDE DEF m, n
<1>5. name[k] = "-"
  <2>1. Len(x) + 1 \in 1..Len(r)
    BY <1>1, <1>4
  <2>2. r[Len(x) + 1] = "-"
    BY DEF Dashed
  <2> QED BY <1>1, <1>3, <2>1, <2>2
<1> HIDE DEF k
<1>6. ASSUME NEW i \in 1..Len(x)
      PROVE  name[m + i] = x[i] /\ x[i] # "-"
  <2>1. i \in 1..Len(r)
    BY <1>1, <1>4
  <2>2. r[i] = x[i] /\ x[i] # "-"
    BY DEF Dashed, NoDash
  <2> QED BY <1>3, <2>1, <2>2
<1>7. ASSUME NEW i \in 1..Len(h)
      PROVE  name[k + i] = h[i] /\ h[i] # "-"
  <2>1. Len(x) + 1 + i \in 1..Len(r) /\ m + (Len(x) + 1 + i) = k + i
    BY <1>1, <1>4
  <2>2. r[Len(x) + 1 + i] = h[i] /\ h[i] # "-"
    BY DEF Dashed, NoDash
  <2> QED BY <1>3, <2>1, <2>2
<1>8. ASSUME NEW i \in dashes
      PROVE  i \in 1..n /\ (i = k \/ i <= m)
  <2>1. i \in 1..n /\ name[i] = "-"
    BY <1>2
  <2>2. CASE i > k
    <3>1. i - k \in 1..Len(h) /\ k + (i - k) = i
      BY <1>1, <2>1, <2>2
    <3> QED BY <1>7, <2>1, <3>1
  <2>3. CASE i < k /\ i > m
    <3>1. i - m \in 1..Len(x) /\ m + (i - m) = i
      BY <1>1, <2>1, <2>3
    <3> QED BY <1>6, <2>1, <3>1
  <2>4. i > k \/ i = k \/ (i < k /\ i > m) \/ i <= m
    BY <1>1, <2>1
  <2> QED BY <2>1, <2>2, <2>3, <2>4
<1>9. /\ k \in dashes /\ m \in dashes /\ m < k /\ m \in 1..n /\ k \in 1..n
  <2>1. k \in 1..n /\ m \in 1..n /\ m < k
    BY <1>1
  <2> QED BY <1>2, <1>5, <2>1
<1> HIDE DEF dashes
<1> DEFINE last == N!Max(dashes)
           others == dashes \ {k}
<1>10. last = k
  <2>1. dashes \subseteq 1..n /\ dashes # {}
    BY <1>8, <1>9
  <2>2. last \in dashes /\ \A i \in dashes : i <= last
    BY <1>1, <2>1, MaxMin
  <2> HIDE DEF last
  <2>3. last \in 1..n /\ (last = k \/ last <= m) /\ k <= last
    BY <1>8, <1>9, <2>2
  <2> QED BY <1>1, <1>9, <2>3
<1>11. N!Max(others) = m
  <2>1. others \subseteq 1..n /\ m \in others /\ \A i \in others : i <= m
    <3>1. m # k
      BY <1>1
    <3> QED BY <1>8, <1>9, <3>1
  <2> HIDE DEF others
  <2>2. N!Max(others) \in others /\ \A i \in others : i <= N!Max(others)
    BY <1>1, <2>1, MaxMin
  <2>3. N!Max(others) \in 1..n /\ N!Max(others) <= m /\ m <= N!Max(others)
    BY <2>1, <2>2
  <2> QED BY <1>1, <2>3
<1>12. SubSeq(name, k + 1, n) = h
  BY <1>1, <1>7, PartIs
<1>13. SubSeq(name, m + 1, k - 1) = x
  <2>1. k - 1 = m + Len(x)
    BY <1>1
  <2> QED BY <1>1, <1>6, <2>1, PartIs
<1> QED BY <1>10, <1>11, <1>12, <1>13 DEF dashes, n

-----------------------------------------------------------------------------
(* The names of runners.                                                    *)
LEMMA Suffixes ==
  ASSUME NEW suffix \in RandomHex
  PROVE  /\ suffix \in Seq(N!LowerHex)
         /\ runnerNameSuffixLength \in Nat /\ runnerNameSuffixLength <= Len(suffix)
         /\ ContainerSuffixLength \in Nat /\ ContainerSuffixLength <= Len(suffix)
<1>1. suffix \in Seq(N!LowerHex) /\ Len(suffix) >= runnerNameSuffixLength /\ Len(suffix) \in Nat
  BY NamesAssumption DEF N!RandomHexAssumption
<1>2. runnerNameSuffixLength \in Nat /\ ContainerSuffixLength \in 1..runnerNameSuffixLength
  BY NamesAssumption DEF N!LimitsAssumption
<1> QED BY <1>1, <1>2

LEMMA HexIsDashless ==
  ASSUME NEW h \in Seq(N!LowerHex)
  PROVE  h \in Seq(NameChars) /\ NoDash(h) /\ N!ToSet(h) \subseteq N!LowerHex
<1>1. N!LowerHex \subseteq NameChars /\ "-" \notin N!LowerHex
  BY Characters DEF NameChars
<1>2. \A i \in 1..Len(h) : h[i] \in N!LowerHex
  OBVIOUS
<1>3. N!ToSet(h) \subseteq N!LowerHex
  BY DEF N!ToSet
<1> QED BY <1>1, <1>2, <1>3, SeqMonotonic DEF NoDash

LEMMA RunnerNameIsValid ==
  ASSUME NEW value, Len(value) \in Nat, NEW suffix \in RandomHex
  PROVE  N!ValidRunnerName(N!RunnerName(value, suffix))
<1> DEFINE scale == N!SanitizeScaleSetName(value)
           h == N!hexSuffix(suffix, runnerNameSuffixLength)
           name == (scale \o <<"-">>) \o h
           dashes == {i \in DOMAIN name : name[i] = "-"}
           last == N!Max(dashes)
<1>1. N!RunnerName(value, suffix) = name
  BY DEF N!RunnerName
<1>2. NormalForm(scale) /\ scale # <<>>
  BY ScaleSetForm
<1>3. h \in Seq(N!LowerHex) /\ Len(h) = runnerNameSuffixLength /\ Len(h) \in Nat
  BY Suffixes, SuffixCut
<1> HIDE DEF scale, h
<1>4. h \in Seq(NameChars) /\ NoDash(h) /\ N!ToSet(h) \subseteq N!LowerHex
  BY <1>3, HexIsDashless
<1>5. scale \in Seq(NameChars) /\ Len(scale) \in Nat \ {0} /\ N!SanitizeName(scale) = scale
  BY <1>2, NormalStays, EndsOfNames DEF NormalForm
<1>6. Dashed(name, scale, h)
  BY <1>4, <1>5, DashedConcat
<1> HIDE DEF name
<1>7. dashes # {} /\ last = Len(scale) + 1
  BY <1>4, <1>6, LastDash
<1> HIDE DEF dashes, last
<1>8. last > 1 /\ last - 1 = Len(scale)
  BY <1>5, <1>7
<1>9. SubSeq(name, 1, last - 1) = scale /\ SubSeq(name, last + 1, Len(name)) = h
  BY <1>6, <1>7, <1>8, DashedParts
<1>10. Len(name) >= runnerNameSuffixLength + 2
  <2>1. Len(name) = Len(scale) + 1 + Len(h)
    BY <1>6 DEF Dashed
  <2> QED BY <1>3, <1>5, <2>1
<1>11. N!ValidRunnerName(name)
  BY <1>3, <1>4, <1>5, <1>7, <1>8, <1>9, <1>10 DEF N!ValidRunnerName, dashes, last
<1> QED BY <1>1, <1>11

-----------------------------------------------------------------------------
(* The names of containers: what tells the runner from others, and what is  *)
(* left of the name of its scale set.                                       *)
Tag(id)            == <<"r">> \o N!RunnerIDBase36(id)
Tail2(suffix)      == N!hexSuffix(suffix, ContainerSuffixLength)
Runner(id, suffix) == (Tag(id) \o <<"-">>) \o Tail2(suffix)

LEMMA RunnerPart ==
  ASSUME NEW id \in RunnerIDs, NEW suffix \in RandomHex
  PROVE  /\ Dashed(Runner(id, suffix), Tag(id), Tail2(suffix))
         /\ NoDash(Tag(id)) /\ NoDash(Tail2(suffix))
         /\ Tail2(suffix) = SubSeq(suffix, 1, ContainerSuffixLength)
         /\ Len(Runner(id, suffix)) = Len(N!RunnerIDBase36(id)) + ContainerSuffixLength + 2
<1> DEFINE n == N!RunnerIDBase36(id)
           x == <<"r">> \o n
           h == N!hexSuffix(suffix, ContainerSuffixLength)
<1>1. /\ h \in Seq(N!LowerHex) /\ Len(h) = ContainerSuffixLength /\ Len(h) \in Nat
      /\ h = SubSeq(suffix, 1, ContainerSuffixLength)
  BY Suffixes, SuffixCut
<1> HIDE DEF h
<1>2. h \in Seq(NameChars) /\ NoDash(h)
  BY <1>1, HexIsDashless
<1>3. n \in Seq(N!Alphanumeric)
  <2>1. id \in Nat
    BY NamesAssumption DEF N!RunnerIDsAssumption
  <2> QED BY <2>1, NumeralOf
<1> HIDE DEF n
<1>4. x \in Seq(N!Alphanumeric) /\ Len(x) = 1 + Len(n)
  <2> DEFINE r == <<"r">>
  <2>1. r \in Seq(N!Alphanumeric) /\ Len(r) = 1
    BY Characters
  <2> HIDE DEF r
  <2>2. r \o n \in Seq(N!Alphanumeric) /\ Len(r \o n) = Len(r) + Len(n)
    BY <1>3, <2>1, ConcatProperties
  <2> QED BY <2>1, <2>2 DEF r
<1> HIDE DEF x
<1>5. x \in Seq(NameChars) /\ NoDash(x)
  <2>1. N!Alphanumeric \subseteq NameChars /\ "-" \notin N!Alphanumeric
    BY Characters DEF NameChars
  <2>2. \A i \in 1..Len(x) : x[i] \in N!Alphanumeric
    BY <1>4
  <2> QED BY <1>4, <2>1, <2>2, SeqMonotonic DEF NoDash
<1>6. Dashed((x \o <<"-">>) \o h, x, h)
  BY <1>2, <1>5, DashedConcat
<1>7. Tag(id) = x /\ Tail2(suffix) = h /\ Runner(id, suffix) = (x \o <<"-">>) \o h
  BY DEF Tag, Tail2, Runner, x, h, n
<1>8. Dashed(Runner(id, suffix), x, h)
  BY <1>6, <1>7
<1>9. Len(Runner(id, suffix)) = Len(n) + ContainerSuffixLength + 2
  <2>1. Len(Runner(id, suffix)) = Len(x) + 1 + Len(h) /\ Len(n) \in Nat
    BY <1>3, <1>8 DEF Dashed
  <2> QED BY <1>1, <1>4, <2>1
<1> QED BY <1>1, <1>2, <1>5, <1>7, <1>8, <1>9 DEF n

(* The name of the scale set is cut to the room that is left, which is not  *)
(* none, and stays a name.                                                  *)
LEMMA ContainerParts ==
  ASSUME NEW value, Len(value) \in Nat, NEW id \in RunnerIDs, NEW suffix \in RandomHex
  PROVE  \E p \in Seq(NameChars) :
           /\ N!ContainerName(value, id, suffix) = (p \o <<"-">>) \o Runner(id, suffix)
           /\ p # <<>> /\ p[1] \in N!Alphanumeric
           /\ Len(p) + 1 + Len(Runner(id, suffix)) <= containerNameLimit
<1> DEFINE r == Runner(id, suffix)
           prefix == containerNamePrefix
           scale == N!SanitizeScaleSetName(value)
           room == containerNameLimit - Len(prefix \o r) - 1
           available == N!Max({room, 1})
           cut == N!Trim(SubSeq(scale, 1, available))
           fitting == CASE Len(scale) <= available -> scale
                        [] Len(scale) > available /\ cut = <<>> -> <<"s">>
                        [] Len(scale) > available /\ cut # <<>> -> cut
<1>1. N!ContainerName(value, id, suffix) = ((prefix \o fitting) \o <<"-">>) \o r
  BY DEF N!ContainerName, Runner, Tag, Tail2
<1>2. /\ prefix \in Seq(NameChars) /\ prefix # <<>> /\ prefix[1] \in N!Alphanumeric
      /\ Len(prefix) \in Nat \ {0}
  <2>1. prefix \in Seq(NameChars) /\ prefix # <<>> /\ prefix[1] \in N!Alphanumeric
    BY NamesAssumption DEF N!PrefixAssumption, NameChars
  <2> QED BY <2>1, EmptySeq
<1>3. r \in Seq(NameChars) /\ Len(r) \in Nat
      /\ Len(prefix) + Len(r) + 2 <= containerNameLimit /\ containerNameLimit \in Nat
  <2>1. r \in Seq(NameChars) /\ Len(r) = Len(N!RunnerIDBase36(id)) + ContainerSuffixLength + 2
    BY RunnerPart DEF Dashed
  <2>2. Len(prefix) + Len(N!RunnerIDBase36(id)) + ContainerSuffixLength + 4 <= containerNameLimit
    BY NamesAssumption DEF N!RoomAssumption
  <2>3. containerNameLimit \in Nat /\ ContainerSuffixLength \in Nat
    BY NamesAssumption, Suffixes DEF N!LimitsAssumption
  <2>4. Len(N!RunnerIDBase36(id)) \in Nat
    <3>1. id \in Nat
      BY NamesAssumption DEF N!RunnerIDsAssumption
    <3>2. N!RunnerIDBase36(id) \in Seq(N!Alphanumeric)
      BY <3>1, NumeralOf
    <3> QED BY <3>2
  <2>5. Len(r) \in Nat
    BY <2>1
  <2> HIDE DEF r, prefix
  <2> QED BY <1>2, <2>1, <2>2, <2>3, <2>4, <2>5
<1>4. NormalForm(scale) /\ scale \in Seq(NameChars) /\ Len(scale) \in Nat
  BY ScaleSetForm DEF NormalForm
<1> HIDE DEF r, prefix, scale
<1>5. room = containerNameLimit - Len(prefix) - Len(r) - 1 /\ room \in Nat /\ room >= 1
  <2>1. Len(prefix \o r) = Len(prefix) + Len(r)
    BY <1>2, <1>3, ConcatProperties
  <2> QED BY <1>2, <1>3, <2>1
<1> HIDE DEF room
<1>6. available = room
  <2> DEFINE T == {room, 1}
  <2>1. T \subseteq 1..room /\ T # {}
    BY <1>5
  <2>2. room \in T
    OBVIOUS
  <2> HIDE DEF T
  <2>3. N!Max(T) \in T /\ \A i \in T : i <= N!Max(T)
    BY <1>5, <2>1, MaxMin
  <2>4. N!Max(T) \in 1..room /\ room <= N!Max(T)
    BY <2>1, <2>2, <2>3
  <2>5. N!Max(T) = room
    BY <1>5, <2>4
  <2> QED BY <2>5 DEF T
<1> HIDE DEF available
<1>7. Len(scale) > available =>
        cut \in Seq(NameChars) /\ Len(cut) <= room /\ Len(cut) \in Nat
  <2> SUFFICES ASSUME Len(scale) > available
               PROVE  cut \in Seq(NameChars) /\ Len(cut) <= room /\ Len(cut) \in Nat
    OBVIOUS
  <2> DEFINE part == SubSeq(scale, 1, available)
  <2>1. part \in Seq(NameChars) /\ Len(part) = available
    <3>1. /\ 1 \in Int /\ available \in Int /\ 1 <= available /\ available - 1 + 1 = available
          /\ \A i \in 1..available : i \in 1..Len(scale)
      BY <1>4, <1>5, <1>6
    <3>2. \A i \in 1..available : scale[i] \in NameChars
      BY <1>4, <3>1
    <3> QED BY <3>1, <3>2, SubSeqProperties
  <2> HIDE DEF part
  <2>2. NormalForm(N!Trim(part)) /\ Len(N!Trim(part)) <= Len(part)
    BY <2>1, TrimmedForm
  <2>3. cut = N!Trim(part)
    BY DEF part
  <2> HIDE DEF cut
  <2> QED BY <1>6, <2>1, <2>2, <2>3 DEF NormalForm
<1>8. fitting \in Seq(NameChars) /\ Len(fitting) <= room /\ Len(fitting) \in Nat
  <2> HIDE DEF cut
  <2>1. CASE Len(scale) <= available
    <3>1. ~(Len(scale) > available)
      BY <1>4, <1>5, <1>6, <2>1
    <3>2. fitting = scale
      BY <2>1, <3>1
    <3> QED BY <1>4, <1>6, <2>1, <3>2
  <2>2. CASE Len(scale) > available
    <3>1. ~(Len(scale) <= available)
      BY <1>4, <1>5, <1>6, <2>2
    <3>2. CASE cut = <<>>
      <4>1. fitting = <<"s">>
        BY <2>2, <3>1, <3>2
      <4>2. <<"s">> \in Seq(NameChars) /\ Len(<<"s">>) = 1
        BY Characters DEF NameChars
      <4> QED BY <1>5, <4>1, <4>2
    <3>3. CASE cut # <<>>
      <4>1. fitting = cut
        BY <2>2, <3>1, <3>3
      <4> QED BY <1>7, <2>2, <4>1
    <3> QED BY <3>2, <3>3
  <2>3. Len(scale) <= available \/ Len(scale) > available
    BY <1>4, <1>5, <1>6
  <2> HIDE DEF fitting
  <2> QED BY <2>1, <2>2, <2>3
<1> HIDE DEF fitting
<1> DEFINE p == prefix \o fitting
<1>9. /\ p \in Seq(NameChars) /\ Len(p) = Len(prefix) + Len(fitting)
      /\ p[1] = prefix[1] /\ p # <<>>
  <2>1. /\ p \in Seq(NameChars) /\ Len(p) = Len(prefix) + Len(fitting)
        /\ \A i \in 1..Len(prefix) + Len(fitting) :
             p[i] = IF i <= Len(prefix) THEN prefix[i] ELSE fitting[i - Len(prefix)]
    BY <1>2, <1>8, ConcatProperties
  <2>2. 1 \in 1..Len(prefix) + Len(fitting) /\ 1 <= Len(prefix)
        /\ Len(prefix) + Len(fitting) # 0
    BY <1>2, <1>8
  <2> HIDE DEF p
  <2>3. p[1] = prefix[1]
    BY <2>1, <2>2
  <2>4. p # <<>>
    BY <2>1, <2>2
  <2> QED BY <2>1, <2>3, <2>4
<1>10. N!ContainerName(value, id, suffix) = (p \o <<"-">>) \o r
  BY <1>1
<1> HIDE DEF p
<1>11. Len(p) + 1 + Len(r) <= containerNameLimit
  BY <1>2, <1>3, <1>5, <1>8, <1>9
<1> QED BY <1>2, <1>9, <1>10, <1>11 DEF r

LEMMA ContainerNameFits ==
  ASSUME NEW value, Len(value) \in Nat, NEW id \in RunnerIDs, NEW suffix \in RandomHex
  PROVE  LET name == N!ContainerName(value, id, suffix)
         IN N!DockerName(name) /\ Len(name) <= containerNameLimit
<1> DEFINE r == Runner(id, suffix)
           name == N!ContainerName(value, id, suffix)
<1>1. PICK p \in Seq(NameChars) :
           /\ name = (p \o <<"-">>) \o r
           /\ p # <<>> /\ p[1] \in N!Alphanumeric
           /\ Len(p) + 1 + Len(r) <= containerNameLimit
  BY ContainerParts
<1>2. r \in Seq(NameChars) /\ Len(r) \in Nat /\ Len(p) \in Nat \ {0}
  BY <1>1, RunnerPart, EmptySeq DEF Dashed
<1> HIDE DEF r, name
<1>3. Dashed(name, p, r)
  BY <1>1, <1>2, DashedConcat
<1>4. Len(name) >= 2 /\ Len(name) <= containerNameLimit
  BY <1>1, <1>2, <1>3 DEF Dashed
<1>5. name[1] \in N!Alphanumeric
  <2>1. 1 \in 1..Len(p)
    BY <1>2
  <2> QED BY <1>1, <1>3, <2>1 DEF Dashed
<1>6. \A i \in DOMAIN name : name[i] \in N!Alphanumeric \cup N!Punctuation
  BY <1>3 DEF Dashed, NameChars
<1> QED BY <1>4, <1>5, <1>6 DEF N!DockerName, name

ReadOff(name, id, suffix) ==
  LET dashes == {i \in DOMAIN name : name[i] = "-"}
      last == N!Max(dashes)
      middle == N!Max(dashes \ {last})
  IN /\ SubSeq(name, last + 1, Len(name)) = SubSeq(suffix, 1, ContainerSuffixLength)
     /\ SubSeq(name, middle + 1, last - 1) = <<"r">> \o N!RunnerIDBase36(id)

LEMMA RunnerIsToldApart ==
  ASSUME NEW value, Len(value) \in Nat, NEW id \in RunnerIDs, NEW suffix \in RandomHex
  PROVE  ReadOff(N!ContainerName(value, id, suffix), id, suffix)
<1> DEFINE r == Runner(id, suffix)
           name == N!ContainerName(value, id, suffix)
<1>1. PICK p \in Seq(NameChars) : name = (p \o <<"-">>) \o r
  BY ContainerParts
<1>2. /\ Dashed(r, Tag(id), Tail2(suffix)) /\ NoDash(Tag(id)) /\ NoDash(Tail2(suffix))
      /\ Tail2(suffix) = SubSeq(suffix, 1, ContainerSuffixLength)
  BY RunnerPart
<1>3. r \in Seq(NameChars)
  BY <1>2 DEF Dashed
<1> HIDE DEF r, name
<1>4. Dashed(name, p, r)
  BY <1>1, <1>3, DashedConcat
<1>5. LET dashes == {i \in DOMAIN name : name[i] = "-"}
          last == N!Max(dashes)
          middle == N!Max(dashes \ {last})
      IN /\ SubSeq(name, last + 1, Len(name)) = Tail2(suffix)
         /\ SubSeq(name, middle + 1, last - 1) = Tag(id)
  BY <1>2, <1>4, LastTwoDashes
<1> QED BY <1>2, <1>5 DEF name, Tag, ReadOff

-----------------------------------------------------------------------------
LEMMA NamesAreSafe ==
  ASSUME scaleSetName \in Seq(Alphabet)
  PROVE  N!NamesSafe
<1>1. Len(scaleSetName) \in Nat
  OBVIOUS
<1>2. N!GeneratedNamesAreValid
  BY <1>1, RunnerNameIsValid DEF N!GeneratedNamesAreValid
<1>3. N!ContainerNamesFit
  BY <1>1, ContainerNameFits DEF N!ContainerNamesFit
<1>4. N!RunnersAreToldApart
  <2>1. \A id, other \in RunnerIDs :
          N!RunnerIDBase36(other) = N!RunnerIDBase36(id) => other = id
    BY NamesAssumption, NumeralsDiffer DEF N!RunnerIDsAssumption
  <2>2. \A id \in RunnerIDs, suffix \in RandomHex :
          ReadOff(N!ContainerName(scaleSetName, id, suffix), id, suffix)
    BY <1>1, RunnerIsToldApart
  <2> QED BY <2>1, <2>2, Zenon DEF N!RunnersAreToldApart, ReadOff
<1> QED BY <1>2, <1>3, <1>4, NameIsNormal DEF N!NamesSafe

NameTyped == scaleSetName \in Seq(Alphabet)

LEMMA NamesTyped == N!Spec => []NameTyped
<1>1. N!Init => NameTyped
  BY DEF N!Init, NameTyped
<1>2. NameTyped /\ [N!AnotherCharacter]_scaleSetName => NameTyped'
  BY AppendProperties DEF N!AnotherCharacter, NameTyped
<1> QED BY <1>1, <1>2, PTL DEF N!Spec

(* Whatever a scale set is called, and however long its name is: what is    *)
(* left of it is in normal form, the names of its runners pass the check    *)
(* that is made of them, and the names of their containers are accepted by  *)
(* Docker, fit, and differ (names.go:18-96).                                *)
THEOREM NamesAreNeverRefused == N!Spec => []N!NamesSafe
<1>1. NameTyped => N!NamesSafe
  BY NamesAreSafe DEF NameTyped
<1> QED BY <1>1, NamesTyped, PTL

(* So are those that are made of the name in a configuration.               *)
THEOREM NamesOfScaleSets == N!Spec => []NamesSafe
<1>1. N!NamesSafe => NamesSafe
  BY DEF NamesSafe
<1> QED BY <1>1, NamesAreNeverRefused, PTL
=============================================================================
