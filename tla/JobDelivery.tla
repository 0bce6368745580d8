---------------------------- MODULE JobDelivery ----------------------------
(***************************************************************************)
(* The scaler together with GitHub: jobs are assigned to the scale set,    *)
(* runners take them on their own, and the controller hears of it later,   *)
(* in messages.  In DockerScaler messages say anything; here they say what *)
(* was true when GitHub wrote them.  Docker makes no errors and the        *)
(* process is not asked to stop, but it may crash.                         *)
(*                                                                         *)
(* GitHub is modelled from what the code expects of it: an ephemeral runner*)
(* takes one job and ends; a message has the events since the last one and *)
(* the number of jobs assigned, running ones included.                     *)
(***************************************************************************)
EXTENDS DockerScaler

CONSTANTS
  NumJobs,        \* bound: jobs over the whole behaviour
  NumCrashes      \* bound: crashes over the whole behaviour

(* A message never announces more jobs than there are.                     *)
ASSUME JobBoundsAssumption ==
  /\ NumJobs \in Nat /\ NumJobs <= MaxJobs
  /\ NumCrashes \in Nat

Jobs == 1 .. NumJobs

VARIABLES
  job,       \* of each job: none, waiting, running, done, failed or canceled
  runnerOf,  \* the runner that took it
  news,      \* the events GitHub has not sent yet
  message,   \* the message being handled: events left, and jobs assigned
  crashes

github == <<job, runnerOf, news>>
jobVars == <<vars, github, message, crashes>>

Event(kind, r) == [kind |-> kind, runner |-> r]

JobInit ==
  /\ Init
  /\ job = [j \in Jobs |-> "none"] /\ runnerOf = [j \in Jobs |-> NoRunner]
  /\ news = <<>>
  /\ message = [events |-> <<>>, assigned |-> 0]
  /\ crashes = 0

Runs(j) == job[j] = "running" /\ container[runnerOf[j]] = "running"
-----------------------------------------------------------------------------
(* GitHub, its users and the runners.                                      *)

Set(j, state) == job' = [job EXCEPT ![j] = state]

Queue(j) ==
  /\ job[j] = "none"
  /\ Set(j, "waiting")
  /\ UNCHANGED <<vars, runnerOf, news, message, crashes>>

Cancel(j) ==
  /\ job[j] = "waiting"
  /\ Set(j, "canceled")
  /\ UNCHANGED <<vars, runnerOf, news, message, crashes>>

(* A runner takes a job whether or not the controller is about to stop it. *)
TakeJob(j, r) ==
  /\ job[j] = "waiting"
  /\ container[r] = "running" /\ \A i \in Jobs : runnerOf[i] # r
  /\ Set(j, "running")
  /\ runnerOf' = [runnerOf EXCEPT ![j] = r]
  /\ news' = Append(news, Event("started", r))
  /\ UNCHANGED <<vars, message, crashes>>

FinishJob(j) ==
  /\ Runs(j)
  /\ Set(j, "done")
  /\ news' = Append(news, Event("completed", runnerOf[j]))
  /\ UNCHANGED <<vars, runnerOf, message, crashes>>

(* GitHub gives up on a job whose runner is gone. *)
FailJob(j) ==
  /\ job[j] = "running" /\ ~Runs(j)
  /\ Set(j, "failed")
  /\ news' = Append(news, Event("completed", runnerOf[j]))
  /\ UNCHANGED <<vars, runnerOf, message, crashes>>

RunnerEnds(r) ==
  /\ \E j \in Jobs : runnerOf[j] = r /\ job[j] = "done"
  /\ ContainerExits(r)
  /\ UNCHANGED <<github, message, crashes>>
-----------------------------------------------------------------------------
(* The listener: all events of a message, then its demand.                 *)

Receive ==
  /\ ReceiveMessage
  /\ message' = [events |-> news,
                 assigned |-> Cardinality({j \in Jobs : job[j] \in {"waiting", "running"}})]
  /\ news' = <<>>
  /\ UNCHANGED <<job, runnerOf, crashes>>

HandleEvent ==
  /\ message.events # <<>>
  /\ LET event == Head(message.events)
     IN \/ event.kind = "started" /\ HandleJobStarted(event.runner)
        \/ event.kind = "completed" /\ HandleJobCompleted(event.runner)
  /\ message' = [message EXCEPT !.events = Tail(@)]
  /\ UNCHANGED <<github, crashes>>

NextEvent ==
  /\ hpc = "desired" /\ message.events # <<>>
  /\ hpc' = "event"
  /\ UNCHANGED <<runnerState, docker, watches, desired, current, left, cur, refs,
                 phase, raised, github, message, crashes>>

HandleDemand ==
  /\ message.events = <<>>
  /\ NoJobEvent \/ HandleDesiredRunnerCount(message.assigned)
  /\ UNCHANGED <<github, message, crashes>>

(* What the scaler does besides, without errors of Docker.                 *)
Work ==
  /\ \/ CompletedRunnerRemoved \/ CreateManaged \/ StartManaged
     \/ RegisterRunner \/ WatchRunner \/ ScaleDown \/ SurplusRunnerRemoved
     \/ \E r \in Runners : \/ StopManaged(r) \/ WaitReturns(r) \/ ReleaseWatchOwnership(r)
                           \/ WatchRemoved(r) \/ RecoverRunner(r)
     \/ RecoverRunnerRemoved \/ StartupDone
  /\ UNCHANGED <<github, message, crashes>>

Start == Launch /\ UNCHANGED <<github, message, crashes>>

(* What was not handled of a message may come again, or not.               *)
JobCrash ==
  /\ crashes < NumCrashes
  /\ Crash
  /\ crashes' = crashes + 1
  /\ news' \in {news, message.events \o news}
  /\ message' = [events |-> <<>>, assigned |-> 0]
  /\ UNCHANGED <<job, runnerOf>>

JobNext ==
  \/ \E j \in Jobs : \/ Queue(j) \/ Cancel(j) \/ FinishJob(j) \/ FailJob(j)
                     \/ \E r \in Runners : TakeJob(j, r)
  \/ \E r \in Runners : RunnerEnds(r)
  \/ Receive \/ HandleEvent \/ NextEvent \/ HandleDemand \/ Work
  \/ Start \/ JobCrash

JobSpec == JobInit /\ [][JobNext]_jobVars

(* The goroutines run; Docker restarts the process; GitHub gives a waiting  *)
(* job to some runner, jobs end, and so do runners whose job has ended.     *)
JobFairness ==
  /\ WF_jobVars(Receive) /\ WF_jobVars(HandleEvent) /\ WF_jobVars(NextEvent)
  /\ WF_jobVars(HandleDemand) /\ WF_jobVars(Start)
  /\ WF_jobVars(Work /\ (hpc' # hpc \/ refs' # refs \/ mode' # mode \/ listed' # listed
                         \/ rcur' # rcur))
  /\ \A r \in Runners :
       /\ WF_jobVars(Work /\ watch'[r] # watch[r])
       /\ WF_jobVars(Work /\ StopManaged(r))
       /\ WF_jobVars(RunnerEnds(r))
  /\ \A j \in Jobs :
       /\ WF_jobVars(\E r \in Runners : TakeJob(j, r))
       /\ WF_jobVars(FinishJob(j)) /\ WF_jobVars(FailJob(j))

JobFairSpec == JobSpec /\ JobFairness
-----------------------------------------------------------------------------
(* Properties.                                                             *)

(* A job on a runner the controller knows to be busy, or has adopted after a *)
(* crash, goes on to its end, and the runner stays known, whatever late or   *)
(* repeated message comes in: neither demand, nor another's completion, nor  *)
(* a watch stops it.  (scaler_state.go:26-27)                                *)
StartedJobsGoOn ==
  [][\A j \in Jobs : Runs(j) /\ runnerOf[j] \in busy \cup protected =>
       \/ Runs(j)' /\ (runnerOf[j] \in busy' \cup protected' \/ mode' = "down")
       \/ job'[j] = "done"]_jobVars

(* A job that waits is taken by a runner, or canceled: no runner that is     *)
(* gone, adopted or busy stands in the table so that none is made for it.    *)
(* Behaviours that use up the runners of the model say nothing.              *)
EveryJobStarts ==
  \A j \in Jobs : job[j] = "waiting" ~> (job[j] # "waiting" \/ made = NumRunners)

(* "scaleDownIdle removes idle runners from oldest to newest."               *)
(* (scaler_state.go:86): those it is about to take run no job.               *)
RemovesOnlyIdle ==
  hpc = "down" =>
    \A j \in Jobs : Runs(j) => runnerOf[j] \notin ToSet(OldestIdle(current - desired))

=============================================================================
