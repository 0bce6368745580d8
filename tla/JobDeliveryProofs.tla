------------------------- MODULE JobDeliveryProofs --------------------------
(***************************************************************************)
(* What the scaler owes to jobs, for every number of jobs and runners, all *)
(* bounds and both policies.  The argument: what the scaler does with the  *)
(* messages GitHub really writes are steps of DockerScaler, or keep its    *)
(* invariant; and the invariant of GitHub's side is that a completion is   *)
(* announced only of a runner whose one job has ended, however late or how *)
(* often it is announced.                                                  *)
(***************************************************************************)
EXTENDS JobDelivery, DockerScalerProofs

Events == [kind : {"started", "completed"}, runner : Runners]

JobTypeOK ==
  /\ job \in [Jobs -> {"none", "waiting", "running", "done", "failed", "canceled"}]
  /\ runnerOf \in [Jobs -> Runners \cup {NoRunner}]
  /\ crashes \in 0 .. NumCrashes

(* An ephemeral runner takes one job, and a job that runs has a runner.     *)
OneJobEach ==
  /\ \A i, j \in Jobs : runnerOf[i] = runnerOf[j] /\ runnerOf[i] # NoRunner => i = j
  /\ \A j \in Jobs : job[j] = "running" => runnerOf[j] # NoRunner

Ended(r) == \E j \in Jobs : runnerOf[j] = r /\ job[j] \in {"done", "failed"}

(* What an event announces as completed has ended.                          *)
TrueEvents == {e \in Events : e.kind = "completed" => Ended(e.runner)}

JobInv ==
  /\ JobTypeOK
  /\ OneJobEach
  /\ news \in Seq(TrueEvents)
  /\ message \in [events : Seq(TrueEvents), assigned : 0 .. NumJobs]

-----------------------------------------------------------------------------
(* What GitHub and the runners do, the listener's bookkeeping aside.        *)

LEMMA JobsAreFinite == IsFiniteSet(Jobs) /\ Cardinality(Jobs) = NumJobs
BY JobBoundsAssumption, FS_Interval DEF Jobs

(* The demand a message announces is within the bound of the messages.      *)
LEMMA DemandOfJobs ==
  ASSUME NEW S \in SUBSET Jobs
  PROVE  Cardinality(S) \in 0 .. NumJobs
<1>1. IsFiniteSet(S) /\ Cardinality(S) <= NumJobs /\ Cardinality(S) \in Nat
  BY JobsAreFinite, FS_Subset, FS_CardinalityType
<1> QED BY <1>1, JobBoundsAssumption

(* The next event of a message continues the handler without its demand;   *)
(* every other step is one of DockerScaler.                                *)
LEMMA StepOfScaler ==
  ASSUME JobInv, [JobNext]_jobVars
  PROVE  [Next]_vars \/ NextEvent
<1>1. ASSUME NEW j \in Jobs,
             \/ Queue(j) \/ Cancel(j) \/ FinishJob(j) \/ FailJob(j)
             \/ \E r \in Runners : TakeJob(j, r)
      PROVE  UNCHANGED vars
  BY <1>1 DEF Queue, Cancel, FinishJob, FailJob, TakeJob
<1>2. ASSUME NEW r \in Runners, RunnerEnds(r)
      PROVE  Next
  BY <1>2 DEF RunnerEnds, Next, Environment
<1>3. CASE Receive
  BY <1>3 DEF Receive, Next
<1>4. CASE HandleEvent
  <2>1. message.events # <<>> /\ message.events \in Seq(TrueEvents)
    BY <1>4 DEF HandleEvent, JobInv
  <2>2. Head(message.events) \in TrueEvents
    BY <2>1, HeadTailProperties
  <2>3. Head(message.events).runner \in Runners
    BY <2>2 DEF TrueEvents, Events
  <2> QED BY <1>4, <2>3 DEF HandleEvent, Next, HandlerStep
<1>5. CASE HandleDemand
  <2>1. message.assigned \in 0 .. MaxJobs
    BY JobBoundsAssumption, BoundsAssumption DEF JobInv
  <2> QED BY <1>5, <2>1 DEF HandleDemand, Next, HandlerStep
<1>6. CASE Work
  BY <1>6 DEF Work, Next, HandlerStep, WatchStep, RecoverStep
<1>7. CASE Start \/ JobCrash
  BY <1>7 DEF Start, JobCrash, Next
<1>8. CASE UNCHANGED jobVars
  BY <1>8 DEF jobVars
<1> QED BY <1>1, <1>2, <1>3, <1>4, <1>5, <1>6, <1>7, <1>8 DEF JobNext

(* Between two events of one message the handler holds no runner.           *)
LEMMA NextEventKeeps == ASSUME IndInv, NextEvent PROVE IndInv'
<1>1. /\ hpc = "desired" /\ hpc' = "event"
      /\ UNCHANGED <<idle, busy, protected, container, made, watch, adopted, watchStopped,
                     desired, current, left, cur, refs, mode, listed, rcur, srefs, scur,
                     raised>>
  BY DEF NextEvent, runnerState, docker, watches, phase
<1>2. /\ Idle' = Idle /\ Tracked' = Tracked
      /\ HandlerClaims' = HandlerClaims /\ WatchClaims' = WatchClaims
      /\ MainClaims' = MainClaims
  BY <1>1 DEF Idle, Tracked, HandlerClaims, ProvisionClaim, WatchClaims, MainClaims
<1>3. Claimed' = Claimed
  BY <1>2 DEF Claimed
<1>4. TypeOK' /\ ModeInv' /\ HandlerInv'
  BY <1>1, <1>2 DEF IndInv, TypeOK, ModeInv, HandlerInv, HandlerStates
<1>5. FreshInv' /\ OrderInv' /\ AdoptInv'
  BY <1>1, <1>2, <1>3 DEF IndInv, FreshInv, OrderInv, AdoptInv
<1>6. OneOwner' /\ NoSilentOrphan' /\ TableIsWatched'
  BY <1>1, <1>2, <1>3 DEF IndInv, OneOwner, NoSilentOrphan, TableIsWatched
<1> QED BY <1>4, <1>5, <1>6 DEF IndInv

-----------------------------------------------------------------------------
(* The jobs' own invariant.                                                 *)

LEMMA JobInvInit == JobInit => JobInv
<1> SUFFICES ASSUME JobInit PROVE JobInv
  OBVIOUS
<1>1. <<>> \in Seq(TrueEvents) /\ 0 \in 0 .. NumJobs
  BY EmptySeq, JobBoundsAssumption
<1>2. JobTypeOK
  BY JobBoundsAssumption DEF JobInit, JobTypeOK
<1>3. OneJobEach
  BY DEF JobInit, OneJobEach
<1>4. news = <<>> /\ message = [events |-> <<>>, assigned |-> 0]
  BY DEF JobInit
<1> QED BY <1>1, <1>2, <1>3, <1>4 DEF JobInv

(* A step moves one job on, or none.                                        *)
LEMMA JobSteps ==
  ASSUME JobInv, [JobNext]_jobVars
  PROVE  \/ UNCHANGED <<job, runnerOf>>
         \/ \E j \in Jobs :
               \/ Queue(j) \/ Cancel(j) \/ FinishJob(j) \/ FailJob(j)
               \/ \E r \in Runners : TakeJob(j, r)
<1>1. CASE \/ Receive \/ HandleEvent \/ NextEvent \/ HandleDemand \/ Work \/ Start \/ JobCrash
           \/ UNCHANGED jobVars \/ \E r \in Runners : RunnerEnds(r)
  BY <1>1 DEF Receive, HandleEvent, NextEvent, HandleDemand, Work, Start, JobCrash, jobVars,
              RunnerEnds, github
<1> QED BY <1>1 DEF JobNext

LEMMA JobTypeStep ==
  ASSUME JobInv, [JobNext]_jobVars
  PROVE  job' \in [Jobs -> {"none", "waiting", "running", "done", "failed", "canceled"}]
         /\ runnerOf' \in [Jobs -> Runners \cup {NoRunner}]
<1>1. CASE UNCHANGED <<job, runnerOf>>
  BY <1>1 DEF JobInv, JobTypeOK
<1>2. ASSUME NEW j \in Jobs, Queue(j) \/ Cancel(j) \/ FinishJob(j) \/ FailJob(j)
      PROVE  job' \in [Jobs -> {"none", "waiting", "running", "done", "failed", "canceled"}]
             /\ runnerOf' = runnerOf
  BY <1>2 DEF JobInv, JobTypeOK, Queue, Cancel, FinishJob, FailJob, Set
<1>3. ASSUME NEW j \in Jobs, NEW r \in Runners, TakeJob(j, r)
      PROVE  job' \in [Jobs -> {"none", "waiting", "running", "done", "failed", "canceled"}]
             /\ runnerOf' \in [Jobs -> Runners \cup {NoRunner}]
  BY <1>3 DEF JobInv, JobTypeOK, TakeJob, Set
<1> QED BY <1>1, <1>2, <1>3, JobSteps DEF JobInv, JobTypeOK

(* A job that has ended stays as it is, and keeps its runner.               *)
LEMMA EndedStays ==
  ASSUME JobInv, [JobNext]_jobVars
  PROVE  \A r : Ended(r) => Ended(r)'
<1>1. CASE UNCHANGED <<job, runnerOf>>
  BY <1>1 DEF Ended
<1>2. ASSUME NEW j \in Jobs,
             \/ Queue(j) \/ Cancel(j) \/ FinishJob(j) \/ FailJob(j)
             \/ \E r \in Runners : TakeJob(j, r)
      PROVE  \A i \in Jobs : job[i] \in {"done", "failed"} =>
                 job'[i] = job[i] /\ runnerOf'[i] = runnerOf[i]
  BY <1>2 DEF JobInv, JobTypeOK, Queue, Cancel, FinishJob, FailJob, TakeJob, Set, Runs
<1> QED BY <1>1, <1>2, JobSteps DEF Ended

LEMMA OneJobEachStep == ASSUME JobInv, [JobNext]_jobVars PROVE OneJobEach'
<1>1. CASE UNCHANGED <<job, runnerOf>>
  BY <1>1 DEF JobInv, OneJobEach
<1>2. ASSUME NEW j \in Jobs, Queue(j) \/ Cancel(j) \/ FinishJob(j) \/ FailJob(j)
      PROVE  OneJobEach'
  BY <1>2 DEF JobInv, JobTypeOK, OneJobEach, Queue, Cancel, FinishJob, FailJob, Set
<1>3. ASSUME NEW j \in Jobs, NEW r \in Runners, TakeJob(j, r)
      PROVE  OneJobEach'
  BY <1>3, RunnersAreNat DEF JobInv, JobTypeOK, OneJobEach, TakeJob, Set
<1> QED BY <1>1, <1>2, <1>3, JobSteps

LEMMA CrashesBounded == ASSUME JobInv, [JobNext]_jobVars PROVE crashes' \in 0 .. NumCrashes
<1>1. crashes' = crashes \/ (crashes < NumCrashes /\ crashes' = crashes + 1)
  BY DEF JobNext, Queue, Cancel, FinishJob, FailJob, TakeJob, RunnerEnds, Receive, HandleEvent,
         NextEvent, HandleDemand, Work, Start, JobCrash, jobVars
<1> QED BY <1>1, JobBoundsAssumption DEF JobInv, JobTypeOK

(* An event is added when a job is taken or ends; those that are there move *)
(* on to the handler, or come again after a crash.                          *)
LEMMA EventsStep ==
  ASSUME JobInv, [JobNext]_jobVars
  PROVE  /\ news' \in Seq(TrueEvents')
         /\ message' \in [events : Seq(TrueEvents'), assigned : 0 .. NumJobs]
<1> DEFINE T == TrueEvents'
<1>1. TrueEvents \subseteq T
  BY EndedStays DEF TrueEvents
<1>2. \A j \in Jobs : FinishJob(j) \/ FailJob(j) => Event("completed", runnerOf[j]) \in T
  <2> SUFFICES ASSUME NEW j \in Jobs, FinishJob(j) \/ FailJob(j)
               PROVE  Event("completed", runnerOf[j]) \in T
    OBVIOUS
  <2>1. job[j] = "running" /\ job'[j] \in {"done", "failed"} /\ runnerOf' = runnerOf
    BY DEF FinishJob, FailJob, Runs, Set, JobInv, JobTypeOK
  <2>2. PICK r \in Runners : r = runnerOf[j]
    BY <2>1 DEF JobInv, JobTypeOK, OneJobEach
  <2>3. Ended(r)'
    BY <2>1, <2>2 DEF Ended
  <2> QED BY <2>2, <2>3 DEF Event, Events, TrueEvents, Ended
<1>3. \A r \in Runners : Event("started", r) \in T
  BY DEF Event, Events, TrueEvents
<1> HIDE DEF T
<1>4. /\ news \in Seq(T) /\ <<>> \in Seq(T)
      /\ message.events \in Seq(T) /\ message.assigned \in 0 .. NumJobs
      /\ message = [events |-> message.events, assigned |-> message.assigned]
  BY <1>1, SeqMonotonic, EmptySeq DEF JobInv
<1> SUFFICES news' \in Seq(T) /\ message' \in [events : Seq(T), assigned : 0 .. NumJobs]
  BY DEF T
<1>5. CASE UNCHANGED <<news, message>>
  BY <1>4, <1>5
<1>6. CASE Receive
  <2>1. {j \in Jobs : job[j] \in {"waiting", "running"}} \in SUBSET Jobs
    OBVIOUS
  <2>2. Cardinality({j \in Jobs : job[j] \in {"waiting", "running"}}) \in 0 .. NumJobs
    BY <2>1, DemandOfJobs
  <2> QED BY <1>4, <1>6, <2>2 DEF Receive
<1>7. CASE HandleEvent
  <2>1. message.events # <<>> /\ news' = news
        /\ message' = [message EXCEPT !.events = Tail(message.events)]
    BY <1>7 DEF HandleEvent, github
  <2>2. Tail(message.events) \in Seq(T)
    BY <1>4, <2>1, HeadTailProperties
  <2> QED BY <1>4, <2>1, <2>2
<1>8. CASE JobCrash
  <2>1. message.events \o news \in Seq(T)
    BY <1>4, ConcatProperties
  <2>2. 0 \in 0 .. NumJobs
    BY JobBoundsAssumption
  <2>3. news' \in {news, message.events \o news} /\ message' = [events |-> <<>>, assigned |-> 0]
    BY <1>8 DEF JobCrash
  <2> HIDE DEF T
  <2> QED BY <1>4, <2>1, <2>2, <2>3
<1>9. ASSUME NEW j \in Jobs, NEW r \in Runners, TakeJob(j, r)
      PROVE  news' \in Seq(T) /\ message' = message
  BY <1>3, <1>4, <1>9, AppendProperties DEF TakeJob
<1>10. ASSUME NEW j \in Jobs, FinishJob(j) \/ FailJob(j)
       PROVE  news' \in Seq(T) /\ message' = message
  <2>1. news' = Append(news, Event("completed", runnerOf[j])) /\ message' = message
    BY <1>10 DEF FinishJob, FailJob
  <2> QED BY <1>2, <1>4, <1>10, <2>1, AppendProperties
<1>11. ASSUME \/ \E j \in Jobs : Queue(j) \/ Cancel(j)
              \/ \E r \in Runners : RunnerEnds(r)
              \/ NextEvent \/ HandleDemand \/ Work \/ Start \/ UNCHANGED jobVars
       PROVE  UNCHANGED <<news, message>>
  BY <1>11 DEF Queue, Cancel, NextEvent, HandleDemand, Work, Start, RunnerEnds, jobVars, github
<1> QED BY <1>4, <1>5, <1>6, <1>7, <1>8, <1>9, <1>10, <1>11 DEF JobNext

LEMMA JobInvStep == ASSUME JobInv, [JobNext]_jobVars PROVE JobInv'
BY JobTypeStep, OneJobEachStep, CrashesBounded, EventsStep DEF JobInv, JobTypeOK

-----------------------------------------------------------------------------
(* The scaler's invariant among jobs.                                       *)

(* The inductive invariant of the scaler holds under the messages GitHub    *)
(* writes, those of several events included, and so do the types and the    *)
(* truth of GitHub's side.                                                  *)
THEOREM JobsIndInvHolds == JobSpec => [](IndInv /\ JobInv)
<1>1. JobInit => IndInv /\ JobInv
  BY IndInvInit, JobInvInit DEF JobInit
<1>2. IndInv /\ JobInv /\ [JobNext]_jobVars => IndInv' /\ JobInv'
  BY StepOfScaler, IndInvStep, NextEventKeeps, JobInvStep
<1> QED BY <1>1, <1>2, PTL DEF JobSpec

LEMMA NextEventCapacity == ASSUME CapacityInv, NextEvent PROVE CapacityInv'
<1>1. /\ hpc = "desired" /\ hpc' = "event"
      /\ UNCHANGED <<idle, busy, protected, adopted, left, mode>>
  BY DEF NextEvent, runnerState, docker, watches, phase
<1>2. Idle' = Idle /\ Count' = Count
  BY <1>1 DEF Idle, Count
<1> QED BY <1>1, <1>2 DEF CapacityInv, Capacity, Loop

LEMMA JobsCapacityHolds == JobSpec => []CapacityInv
<1>1. JobInit => CapacityInv
  BY CapacityInit DEF JobInit
<1>2. IndInv /\ IndInv' /\ JobInv /\ CapacityInv /\ [JobNext]_jobVars => CapacityInv'
  BY StepOfScaler, CapacityStep, NextEventCapacity
<1> QED BY <1>1, <1>2, JobsIndInvHolds, PTL DEF JobSpec

(* Whatever jobs are queued, taken, finished and canceled meanwhile, and    *)
(* whatever GitHub writes of it, one goroutine at a time cleans up a        *)
(* runner, none that lives is forgotten, each has its watch, no adopted one *)
(* is stopped, the oldest goes first, and the table is never too full.      *)
THEOREM ScalerSafeAmongJobs ==
  JobSpec => [](/\ OneOwner /\ NoSilentOrphan /\ TableIsWatched
                /\ AdoptedNotStopped /\ OldestFirst /\ CapacityRespected)
<1>1. IndInv => OneOwner /\ NoSilentOrphan /\ TableIsWatched
  BY DEF IndInv
<1>2. IndInv => AdoptedNotStopped /\ OldestFirst
  BY AdoptedKept, QueueOrdered
<1>3. IndInv /\ CapacityInv => CapacityRespected
  BY CapacityFollows
<1> QED BY <1>1, <1>2, <1>3, JobsIndInvHolds, JobsCapacityHolds, PTL

-----------------------------------------------------------------------------
(* A started job goes on.                                                   *)

(* A removal works only on runners that have left the table.                *)
LEMMA RemovingIsClaimed == ASSUME IndInv PROVE Removing \cap Tracked = {}
<1>1. hpc \in {"complete", "remove"} => Head(refs) \in HandlerClaims
  <2>1. ASSUME hpc \in {"complete", "remove"} PROVE Head(refs) \in ToSet(refs)
    BY <2>1, RunnersAreNat, TailIncreasing DEF IndInv, TypeOK, HandlerInv, OrderInv
  <2> QED BY <2>1 DEF HandlerClaims
<1>2. hpc = "undo" => cur \in HandlerClaims
  BY DEF HandlerClaims, ProvisionClaim
<1>3. Removing \subseteq Claimed
  BY <1>1, <1>2 DEF Removing, Claimed, WatchClaims, MainClaims
<1> QED BY <1>3 DEF IndInv, OneOwner

(* No step of the controller stops the container of a runner in the table;  *)
(* only the end of its job does.                                            *)
LEMMA TableRunsOn ==
  ASSUME IndInv, JobInv, [JobNext]_jobVars,
         NEW r \in Runners, r \in Tracked, container[r] = "running"
  PROVE  container'[r] = "running" \/ RunnerEnds(r)
<1> USE DEF IndInv, TypeOK
<1>1. CASE UNCHANGED container
  BY <1>1
<1>2. ASSUME NEW q, Removed(q)
      PROVE  container'[r] = "running"
  BY <1>2 DEF Removed
<1>3. ASSUME NEW q \in Runners, StopManaged(q)
      PROVE  container'[r] = "running"
  BY <1>3, RemovingIsClaimed DEF StopManaged
<1>4. CASE CreateManaged
  <2>1. container[made + 1] = "none"
    BY <1>4, BoundsAssumption DEF CreateManaged, FreshInv, Runners
  <2> QED BY <1>4, <2>1 DEF CreateManaged
<1>5. CASE StartManaged
  BY <1>5 DEF StartManaged
<1>6. ASSUME NEW q \in Runners, RunnerEnds(q)
      PROVE  container'[r] = "running" \/ RunnerEnds(r)
  BY <1>6 DEF RunnerEnds, ContainerExits
<1>7. CASE Work
  <2>1. ASSUME CompletedRunnerRemoved \/ SurplusRunnerRemoved \/ RecoverRunnerRemoved
               \/ \E q \in Runners : WatchRemoved(q)
        PROVE  \E q : Removed(q)
    BY <2>1 DEF CompletedRunnerRemoved, SurplusRunnerRemoved, RecoverRunnerRemoved, WatchRemoved
  <2>2. ASSUME \/ RegisterRunner \/ WatchRunner \/ ScaleDown \/ StartupDone
               \/ \E q \in Runners : WaitReturns(q) \/ ReleaseWatchOwnership(q) \/ RecoverRunner(q)
        PROVE  UNCHANGED container
    BY <2>2 DEF RegisterRunner, WatchRunner, ScaleDown, StartupDone, WaitReturns,
                ReleaseWatchOwnership, RecoverRunner, docker
  <2> QED BY <1>1, <1>2, <1>3, <1>4, <1>5, <1>7, <2>1, <2>2 DEF Work
<1>8. ASSUME NEW j \in Jobs,
             \/ Queue(j) \/ Cancel(j) \/ FinishJob(j) \/ FailJob(j)
             \/ \E q \in Runners : TakeJob(j, q)
      PROVE  UNCHANGED container
  BY <1>8 DEF Queue, Cancel, FinishJob, FailJob, TakeJob, vars, docker
<1>9. ASSUME \/ Receive \/ HandleEvent \/ NextEvent \/ HandleDemand \/ Start \/ JobCrash
             \/ UNCHANGED jobVars
      PROVE  UNCHANGED container
  BY <1>9 DEF Receive, ReceiveMessage, HandleEvent, HandleJobStarted, HandleJobCompleted,
              NextEvent, HandleDemand, NoJobEvent, HandleDesiredRunnerCount, Start, Launch,
              JobCrash, Crash, ProcessEnds, jobVars, vars, docker
<1> QED BY <1>1, <1>6, <1>7, <1>8, <1>9 DEF JobNext

(* A busy or adopted runner that runs leaves the table only when a job of   *)
(* its has ended, or with the process.                                      *)
LEMMA KnownStaysKnown ==
  ASSUME IndInv, JobInv, [JobNext]_jobVars,
         NEW r \in Runners, r \in busy \cup protected, container[r] = "running"
  PROVE  r \in busy' \cup protected' \/ mode' = "down" \/ Ended(r)
<1>1. CASE UNCHANGED <<busy, protected>>
  BY <1>1
<1>2. CASE HandleEvent
  <2>1. message.events # <<>> /\ message.events \in Seq(TrueEvents)
    BY <1>2 DEF HandleEvent, JobInv
  <2>2. PICK event \in TrueEvents : event = Head(message.events)
    BY <2>1, HeadTailProperties
  <2>3. event.runner \in Runners
    BY <2>2 DEF TrueEvents, Events
  <2>4. CASE HandleJobStarted(event.runner)
    BY <2>3, <2>4, JobStartedEffect
  <2>5. CASE event.kind = "completed" /\ HandleJobCompleted(event.runner)
    <3>1. Ended(event.runner)
      BY <2>2, <2>5 DEF TrueEvents
    <3>2. busy' = busy \ {event.runner} /\ protected' = protected
      BY <2>3, <2>5, JobCompletedEffect
    <3> QED BY <3>1, <3>2
  <2> QED BY <1>2, <2>2, <2>4, <2>5 DEF HandleEvent
<1>3. CASE Work
  <2>1. ASSUME NEW q \in Runners, ReleaseWatchOwnership(q)
        PROVE  r \in busy' \cup protected'
    <3>1. container[q] # "running"
      BY <2>1 DEF ReleaseWatchOwnership, IndInv, AdoptInv
    <3> QED BY <2>1, <3>1, ReleaseEffect
  <2>2. ASSUME NEW q \in Runners, RecoverRunner(q)
        PROVE  r \in busy' \cup protected'
    BY <2>2, RecoverMove
  <2>3. ASSUME \/ CompletedRunnerRemoved \/ CreateManaged \/ StartManaged
               \/ RegisterRunner \/ WatchRunner \/ ScaleDown \/ SurplusRunnerRemoved
               \/ RecoverRunnerRemoved \/ StartupDone
               \/ \E q \in Runners : StopManaged(q) \/ WaitReturns(q) \/ WatchRemoved(q)
        PROVE  UNCHANGED <<busy, protected>>
    BY <2>3 DEF CompletedRunnerRemoved, CreateManaged, StartManaged, RegisterRunner, AddIdle,
                WatchRunner, ScaleDown, ScaleDownIdle, SurplusRunnerRemoved,
                RecoverRunnerRemoved, StartupDone, StopManaged, WaitReturns, WatchRemoved,
                runnerState
  <2> QED BY <1>1, <1>3, <2>1, <2>2, <2>3 DEF Work
<1>4. CASE JobCrash
  BY <1>4 DEF JobCrash, Crash, ProcessEnds
<1>5. ASSUME NEW j \in Jobs,
             \/ Queue(j) \/ Cancel(j) \/ FinishJob(j) \/ FailJob(j)
             \/ \E q \in Runners : TakeJob(j, q)
      PROVE  UNCHANGED <<busy, protected>>
  BY <1>5 DEF Queue, Cancel, FinishJob, FailJob, TakeJob, vars, runnerState
<1>6. ASSUME \/ Receive \/ NextEvent \/ HandleDemand \/ Start \/ UNCHANGED jobVars
             \/ \E q \in Runners : RunnerEnds(q)
      PROVE  UNCHANGED <<busy, protected>>
  BY <1>6 DEF Receive, ReceiveMessage, NextEvent, HandleDemand, NoJobEvent,
              HandleDesiredRunnerCount, Start, Launch, RunnerEnds, ContainerExits,
              jobVars, vars, runnerState
<1> QED BY <1>1, <1>2, <1>3, <1>4, <1>5, <1>6 DEF JobNext

(* A job on a runner that is busy in the table, or adopted, is interrupted  *)
(* by nothing the controller does, in whatever order and however often its  *)
(* messages come (scaler.go:84-111, 256-287).                               *)
THEOREM StartedJobsAlwaysGoOn == JobSpec => StartedJobsGoOn
<1>1. ASSUME IndInv, JobInv, [JobNext]_jobVars, NEW j \in Jobs,
             Runs(j), runnerOf[j] \in busy \cup protected
      PROVE  \/ Runs(j)' /\ (runnerOf[j] \in busy' \cup protected' \/ mode' = "down")
             \/ job'[j] = "done"
  <2>1. PICK r \in Runners : r = runnerOf[j]
    BY <1>1 DEF IndInv, TypeOK
  <2>2. job[j] = "running" /\ container[r] = "running" /\ r \in Tracked
    BY <1>1, <2>1 DEF Runs, Tracked
  <2>3. ~Ended(r)
    BY <1>1, <2>1, <2>2, RunnersAreNat DEF Ended, JobInv, OneJobEach
  <2>4. container'[r] = "running"
    BY <1>1, <2>2, <2>3, TableRunsOn DEF RunnerEnds, Ended
  <2>5. r \in busy' \cup protected' \/ mode' = "down"
    BY <1>1, <2>1, <2>2, <2>3, KnownStaysKnown
  <2>6. job'[j] = "done" \/ (job'[j] = "running" /\ runnerOf'[j] = runnerOf[j])
    <3>1. ASSUME NEW i \in Jobs,
                 \/ Queue(i) \/ Cancel(i) \/ FinishJob(i) \/ FailJob(i)
                 \/ \E q \in Runners : TakeJob(i, q)
          PROVE  job'[j] = "done" \/ (job'[j] = "running" /\ runnerOf'[j] = runnerOf[j])
      BY <1>1, <2>2, <3>1 DEF JobInv, JobTypeOK, Queue, Cancel, FinishJob, FailJob, TakeJob, Set
    <3> QED BY <1>1, <2>2, <3>1, JobSteps
  <2> QED BY <2>1, <2>4, <2>5, <2>6 DEF Runs
<1>2. ASSUME IndInv, JobInv, [JobNext]_jobVars
      PROVE  \A j \in Jobs : Runs(j) /\ runnerOf[j] \in busy \cup protected =>
                 \/ Runs(j)' /\ (runnerOf[j] \in busy' \cup protected' \/ mode' = "down")
                 \/ job'[j] = "done"
  BY <1>1, <1>2
<1> QED BY <1>2, JobsIndInvHolds, PTL DEF JobSpec, StartedJobsGoOn
=============================================================================
