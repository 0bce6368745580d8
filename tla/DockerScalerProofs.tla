------------------------ MODULE DockerScalerProofs -------------------------
(***************************************************************************)
(* The invariants of DockerScaler, for every number of runners, all bounds *)
(* and both policies.                                                      *)
(***************************************************************************)
EXTENDS DockerScaler, RunnerStateProofs, FiniteSetTheorems

(* Where each process counter may be, and what it holds there.              *)
ModeInv ==
  /\ mode \notin {"serve", "stop"} => hpc = "off"
  /\ mode # "recover" => listed = {} /\ rcur = NoRunner
  /\ mode \notin {"clean", "cleanBusy"} => srefs = {} /\ scur = NoRunner
  /\ watchStopped <=> mode \in {"join", "clean", "cleanBusy", "exit"}
  /\ mode \in {"clean", "cleanBusy", "exit"} => \A r \in Runners : watch[r] \in {"none", "done"}
  /\ mode \in {"down", "clean", "cleanBusy", "exit"} => Idle = {}
  /\ mode \in {"cleanBusy", "exit"} => BusyPolicy = "leave" \/ busy = {}
  /\ mode = "down" => /\ busy = {} /\ protected = {} /\ adopted = {}
                      /\ \A r \in Runners : watch[r] = "none"

HandlerInv ==
  /\ hpc \in {"start", "undo", "register", "watch"} <=> cur # NoRunner
  /\ cur # NoRunner => cur = made
  /\ hpc \in {"complete", "remove"} <=> refs # <<>>
  /\ hpc = "complete" => Tail(refs) = <<>>
  /\ hpc \in {"create", "start", "undo", "register", "watch"} => left > 0

(* Runners are numbered in the order of creation.                           *)
FreshInv ==
  /\ \A r \in Runners : container[r] = "none" <=> r > made
  /\ \A r \in Runners : watch[r] # "none" => r <= made
  /\ \A r \in Tracked \cup Claimed \cup adopted : r <= made
  /\ cur # NoRunner => watch[cur] = "none"

OrderInv ==
  /\ Increasing(idle)
  /\ Increasing(refs)
  /\ hpc = "remove" => \A x \in ToSet(refs), y \in Idle : x < y

(* Only the protected runners were adopted, and only Recover and their      *)
(* watches deal with those; a watch that saw an end saw a real one.         *)
AdoptInv ==
  /\ protected \subseteq adopted
  /\ adopted \cap (Idle \cup busy \cup HandlerClaims \cup MainClaims) = {}
  /\ \A r \in Runners : watch[r] \in {"exited", "remove"} => container[r] \in {"exited", "gone"}
  /\ \A r \in Runners : watch[r] = "missing" => container[r] = "gone"

IndInv ==
  /\ TypeOK
  /\ ModeInv
  /\ HandlerInv
  /\ FreshInv
  /\ OrderInv
  /\ OneOwner
  /\ AdoptInv
  /\ NoSilentOrphan
  /\ TableIsWatched

-----------------------------------------------------------------------------
LEMMA RunnersAreNat == Runners \in SUBSET Nat /\ NoRunner \notin Runners /\ Runners \subseteq Int
BY BoundsAssumption DEF Runners, NoRunner

(* The count is a number: the parts of the table are finite.                *)
LEMMA CountIsNat == ASSUME TypeOK PROVE Count \in Nat
<1>1. IsFiniteSet(Runners)
  BY BoundsAssumption, FS_Interval DEF Runners
<1>2. IsFiniteSet(busy) /\ IsFiniteSet(protected)
  BY <1>1, FS_Subset DEF TypeOK
<1>3. Cardinality(busy) \in Nat /\ Cardinality(protected) \in Nat
  BY <1>2, FS_CardinalityType
<1>4. Len(idle) \in Nat
  BY DEF TypeOK
<1> QED BY <1>3, <1>4 DEF Count

-----------------------------------------------------------------------------
(* What the actions that touch a sequence do to the sets of runners.        *)

LEMMA JobStartedEffect ==
  ASSUME IndInv, NEW r \in Runners, HandleJobStarted(r)
  PROVE  /\ idle' \in Seq(Runners) /\ Increasing(idle')
         /\ Idle' = Idle \ {r}
         /\ busy' = IF r \in Idle THEN busy \cup {r} ELSE busy
         /\ protected' = protected
BY MarkBusyEffect, RunnersAreNat DEF HandleJobStarted, IndInv, TypeOK, OrderInv

LEMMA JobCompletedEffect ==
  ASSUME IndInv, NEW r \in Runners, HandleJobCompleted(r)
  PROVE  /\ idle' \in Seq(Runners) /\ Increasing(idle')
         /\ Idle' = Idle \ {r}
         /\ busy' = busy \ {r}
         /\ protected' = protected
         /\ refs' \in Seq(Runners) /\ Increasing(refs')
         /\ ToSet(refs') = IF Owns(r) THEN {r} ELSE ToSet(refs)
         /\ Owns(r) <=> refs' # <<>>
<1>1. /\ idle' \in Seq(Runners) /\ Increasing(idle')
      /\ Idle' = Idle \ {r} /\ busy' = busy \ {r} /\ protected' = protected
  BY TakeOwnershipEffect, RunnersAreNat
  DEF HandleJobCompleted, IndInv, TypeOK, OrderInv, OneOwner
<1>2. refs = <<>> /\ hpc = "event"
  BY DEF HandleJobCompleted, IndInv, HandlerInv
<1>3. /\ <<r>> \in Seq(Runners) /\ Increasing(<<r>>) /\ ToSet(<<r>>) = {r}
      /\ <<r>> # <<>> /\ Increasing(<<>>) /\ <<>> \in Seq(Runners)
  BY DEF Increasing, ToSet
<1> QED BY <1>1, <1>2, <1>3 DEF HandleJobCompleted

LEMMA RegisterEffect ==
  ASSUME IndInv, RegisterRunner
  PROVE  /\ idle' \in Seq(Runners) /\ Increasing(idle')
         /\ Idle' = Idle \cup {cur}
         /\ busy' = busy /\ protected' = protected
         /\ cur \in Runners
<1>1. cur \in Runners /\ cur = made /\ hpc = "register"
  BY DEF IndInv, TypeOK, HandlerInv, RegisterRunner
<1>2. \A y \in Idle : y < cur
  <2>1. Idle \subseteq Runners
    BY RunnersAreNat, ToSetElements DEF IndInv, TypeOK, Idle
  <2>2. cur \notin Idle
    BY <1>1 DEF IndInv, OneOwner, Tracked, Claimed, HandlerClaims, ProvisionClaim
  <2>3. \A y \in Idle : y <= made
    BY DEF IndInv, FreshInv, Tracked
  <2> QED BY <1>1, <2>1, <2>2, <2>3, RunnersAreNat
<1>3. idle \in Seq(Runners) /\ Increasing(idle)
  BY DEF IndInv, TypeOK, OrderInv
<1>4. idle' = Append(idle, cur) /\ busy' = busy /\ protected' = protected
  BY DEF RegisterRunner, AddIdle
<1>5. /\ Append(idle, cur) \in Seq(Runners) /\ Increasing(Append(idle, cur))
      /\ ToSet(Append(idle, cur)) = ToSet(idle) \cup {cur}
  BY <1>1, <1>2, <1>3, RunnersAreNat, AppendIncreasing DEF Idle
<1> QED BY <1>1, <1>4, <1>5 DEF Idle

LEMMA ScaleDownEffect ==
  ASSUME IndInv, ScaleDown
  PROVE  /\ idle' \in Seq(Runners) /\ Increasing(idle')
         /\ refs' \in Seq(Runners) /\ Increasing(refs')
         /\ hpc' = "remove" <=> refs' # <<>>
         /\ Idle = ToSet(refs') \cup Idle'
         /\ \A x \in ToSet(refs'), y \in Idle' : x < y
         /\ busy' = busy /\ protected' = protected
<1> DEFINE limit == current - desired
<1>1. limit \in Int
  BY DEF IndInv, TypeOK
<1>2. idle \in Seq(Runners) /\ Increasing(idle)
  BY DEF IndInv, TypeOK, OrderInv
<1>3. ScaleDownIdle(limit) /\ refs' = OldestIdle(limit)
      /\ hpc' = IF Surplus(limit) = 0 THEN "poll" ELSE "remove"
  BY DEF ScaleDown
<1> HIDE DEF limit
<1>4. /\ idle' \in Seq(Runners) /\ Increasing(idle')
      /\ OldestIdle(limit) \in Seq(Runners) /\ Increasing(OldestIdle(limit))
      /\ Len(OldestIdle(limit)) = Surplus(limit)
      /\ Surplus(limit) \in Nat
      /\ Idle = ToSet(OldestIdle(limit)) \cup Idle'
      /\ \A x \in ToSet(OldestIdle(limit)), y \in Idle' : x < y
      /\ busy' = busy /\ protected' = protected
  BY <1>1, <1>2, <1>3, RunnersAreNat, ScaleDownIdleEffect
<1>5. Surplus(limit) = 0 <=> refs' = <<>>
  BY <1>3, <1>4
<1> QED BY <1>3, <1>4, <1>5

LEMMA SurplusRemovedEffect ==
  ASSUME IndInv, SurplusRunnerRemoved
  PROVE  /\ Head(refs) \in Runners /\ Head(refs) \in ToSet(refs)
         /\ refs' \in Seq(Runners) /\ Increasing(refs')
         /\ ToSet(refs') = ToSet(refs) \ {Head(refs)}
         /\ hpc' = "remove" <=> refs' # <<>>
<1>1. refs \in Seq(Runners) /\ Increasing(refs) /\ refs # <<>> /\ refs' = Tail(refs)
  BY DEF IndInv, TypeOK, OrderInv, HandlerInv, SurplusRunnerRemoved
<1>2. /\ Head(refs) \in Runners /\ Head(refs) \in ToSet(refs)
      /\ Tail(refs) \in Seq(Runners) /\ Increasing(Tail(refs))
      /\ ToSet(Tail(refs)) = ToSet(refs) \ {Head(refs)}
  BY <1>1, RunnersAreNat, TailIncreasing
<1>3. Len(refs) = 1 <=> Tail(refs) = <<>>
  <2>1. Len(Tail(refs)) = Len(refs) - 1 /\ Tail(refs) \in Seq(Runners)
    BY <1>1, HeadTailProperties
  <2>2. Tail(refs) = <<>> <=> Len(Tail(refs)) = 0
    BY <2>1, EmptySeq
  <2>3. Len(refs) \in Nat
    BY <1>1
  <2> QED BY <2>1, <2>2, <2>3
<1> QED BY <1>1, <1>2, <1>3 DEF SurplusRunnerRemoved

LEMMA ReleaseEffect ==
  ASSUME IndInv, NEW r \in Runners, ReleaseWatchOwnership(r)
  PROVE  /\ idle' \in Seq(Runners) /\ Increasing(idle')
         /\ Idle' = Idle \ {r} /\ busy' = busy \ {r}
         /\ protected' = protected \ {r}
         /\ WatchOwns(r) <=> r \in Tracked
<1>1. CASE r \in adopted
  <2>1. r \notin Idle /\ r \notin busy
    BY <1>1 DEF IndInv, AdoptInv
  <2>2. TakeProtected(r)
    BY <1>1 DEF ReleaseWatchOwnership
  <2> QED BY <1>1, <2>1, <2>2
          DEF TakeProtected, Idle, IndInv, TypeOK, OrderInv, WatchOwns, Tracked
<1>2. CASE r \notin adopted
  <2>1. r \notin protected
    BY <1>2 DEF IndInv, AdoptInv
  <2>2. TakeOwnership(r)
    BY <1>2 DEF ReleaseWatchOwnership
  <2>3. idle \in Seq(Runners) /\ Increasing(idle) /\ Idle \cap busy = {}
    BY DEF IndInv, TypeOK, OrderInv, OneOwner
  <2>4. /\ idle' \in Seq(Runners) /\ Increasing(idle')
        /\ Idle' = Idle \ {r} /\ busy' = busy \ {r} /\ protected' = protected
    BY <2>2, <2>3, RunnersAreNat, TakeOwnershipEffect
  <2> QED BY <1>2, <2>1, <2>4 DEF WatchOwns, Tracked, Owns
<1> QED BY <1>1, <1>2

-----------------------------------------------------------------------------
(* Type correctness. *)

(* The end of a removal, either way, leaves a container state per runner.   *)
LEMMA RemovalType ==
  ASSUME TypeOK, NEW r, Removed(r) \/ NotRemoved(r)
  PROVE  container' \in [Runners -> Live \cup {"none", "gone"}]
BY DEF TypeOK, Removed, NotRemoved, Live

LEMMA TypeStep == ASSUME IndInv, [Next]_vars PROVE TypeOK'
<1> USE RunnersAreNat
<1>1. ASSUME NEW r \in Runners, ContainerExits(r) \/ ContainerVanishes(r) \/ StopManaged(r)
      PROVE  TypeOK'
  BY <1>1 DEF IndInv, TypeOK, Live, ContainerExits, ContainerVanishes, StopManaged,
              runnerState, watches, handler, phase
<1>2. ASSUME NEW r \in Runners, WaitReturns(r) \/ WatchReturns(r) \/ WaitFails(r)
      PROVE  TypeOK'
  <2>1. /\ UNCHANGED <<runnerState, docker, adopted, watchStopped, handler, phase>>
        /\ \E st \in {"exited", "missing", "done"} : watch' = [watch EXCEPT ![r] = st]
        /\ raised' \subseteq raised \cup {"watch"}
    BY <1>2 DEF WaitReturns, WatchReturns, WaitFails
  <2>2. watch' \in [Runners -> WatchStates]
    BY <2>1 DEF IndInv, TypeOK, WatchStates
  <2> QED BY <2>1, <2>2 DEF IndInv, TypeOK, runnerState, docker, handler, phase
<1>3. ASSUME NEW r \in Runners, ReleaseWatchOwnership(r)
      PROVE  TypeOK'
  BY <1>3, ReleaseEffect DEF IndInv, TypeOK, WatchStates, ReleaseWatchOwnership,
              docker, handler, phase
<1>4. ASSUME NEW r \in Runners, WatchRemoved(r) \/ WatchRemovalFails(r)
      PROVE  TypeOK'
  <2>1. Removed(r) \/ NotRemoved(r)
    BY <1>4 DEF WatchRemoved, WatchRemovalFails
  <2>2. container' \in [Runners -> Live \cup {"none", "gone"}]
    BY <2>1, RemovalType DEF IndInv
  <2>3. /\ UNCHANGED <<runnerState, made, adopted, watchStopped, handler, phase>>
        /\ watch' = [watch EXCEPT ![r] = "done"]
        /\ raised' \subseteq raised \cup {"watch"}
    BY <1>4 DEF WatchRemoved, WatchRemovalFails
  <2>4. watch' \in [Runners -> WatchStates]
    BY <2>3 DEF IndInv, TypeOK, WatchStates
  <2> QED BY <2>2, <2>3, <2>4 DEF IndInv, TypeOK, runnerState, handler, phase
<1>5. CASE ReceiveMessage \/ ListenerFails \/ ListenerCancelled \/ NoJobEvent
  BY <1>5 DEF IndInv, TypeOK, HandlerStates, ReceiveMessage, ListenerFails,
              ListenerReturnsError, ListenerCancelled, NoJobEvent,
              runnerState, docker, watches, phase
<1>6. ASSUME NEW r \in Runners, HandleJobStarted(r)
      PROVE  TypeOK'
  BY <1>6, JobStartedEffect DEF IndInv, TypeOK, HandlerStates, HandleJobStarted,
              docker, watches, phase
<1>7. ASSUME NEW r \in Runners, HandleJobCompleted(r)
      PROVE  TypeOK'
  BY <1>7, JobCompletedEffect DEF IndInv, TypeOK, HandlerStates, HandleJobCompleted,
              docker, watches, phase
<1>8. CASE CompletedRunnerRemoved \/ HandlerRemovalFails
  <2>1. Removed(Head(refs)) \/ NotRemoved(Head(refs))
    BY <1>8 DEF CompletedRunnerRemoved, HandlerRemovalFails
  <2>2. container' \in [Runners -> Live \cup {"none", "gone"}]
    BY <2>1, RemovalType DEF IndInv
  <2>3. refs' \in Seq(Runners)
    BY <1>8, EmptySeq DEF CompletedRunnerRemoved, HandlerRemovalFails
  <2> QED BY <1>8, <2>2, <2>3 DEF IndInv, TypeOK, HandlerStates, CompletedRunnerRemoved,
              HandlerRemovalFails, ListenerReturnsError, runnerState, watches, phase
<1>9. ASSUME NEW jobs \in 0 .. MaxJobs, HandleDesiredRunnerCount(jobs)
      PROVE  TypeOK'
  <2>1. DesiredRunnerCount(jobs) \in Nat /\ Count \in Nat
    BY BoundsAssumption, CountIsNat DEF DesiredRunnerCount, IndInv
  <2>2. desired' \in Nat /\ current' \in Nat /\ left' \in Nat /\ hpc' \in HandlerStates
    BY <1>9, <2>1 DEF IndInv, TypeOK, HandlerStates, HandleDesiredRunnerCount
  <2> QED BY <1>9, <2>2 DEF IndInv, TypeOK, HandleDesiredRunnerCount,
              runnerState, docker, watches, phase
<1>10. CASE CreateManaged \/ ProvisionFails
  <2>1. made < NumRunners => made + 1 \in Runners /\ made + 1 \in 0 .. NumRunners
    BY BoundsAssumption DEF IndInv, TypeOK, Runners
  <2>2. made' \in 0 .. NumRunners
    BY <1>10, <2>1 DEF IndInv, TypeOK, CreateManaged, ProvisionFails, docker
  <2>3. container' \in [Runners -> Live \cup {"none", "gone"}]
    BY <1>10 DEF IndInv, TypeOK, Live, CreateManaged, ProvisionFails, docker
  <2>4. cur' \in Runners \cup {NoRunner} /\ hpc' \in HandlerStates /\ left' \in Nat
    BY <1>10, <2>1 DEF IndInv, TypeOK, HandlerStates, CreateManaged, ProvisionFails,
              ListenerReturnsError
  <2> QED BY <1>10, <2>2, <2>3, <2>4
          DEF IndInv, TypeOK, CreateManaged, ProvisionFails,
              ListenerReturnsError, runnerState, docker, watches, phase
<1>11. CASE StartManaged \/ StartFails
  BY <1>11 DEF IndInv, TypeOK, HandlerStates, Live, StartManaged, StartFails,
              runnerState, watches, phase
<1>12. CASE CleanupAfterProvisionFailure
  BY <1>12, RemovalType DEF IndInv, TypeOK, HandlerStates,
              CleanupAfterProvisionFailure, ListenerReturnsError, runnerState, watches, phase
<1>13. CASE RegisterRunner
  BY <1>13, RegisterEffect DEF IndInv, TypeOK, HandlerStates, RegisterRunner,
              docker, watches, phase
<1>14. CASE WatchRunner
  BY <1>14 DEF IndInv, TypeOK, HandlerInv, HandlerStates, WatchStates, WatchRunner,
              StartWatch, runnerState, docker, phase
<1>15. CASE ScaleDown
  BY <1>15, ScaleDownEffect DEF IndInv, TypeOK, HandlerStates, ScaleDown,
              docker, watches, phase
<1>16. CASE SurplusRunnerRemoved
  BY <1>16, SurplusRemovedEffect, RemovalType DEF IndInv, TypeOK, HandlerStates,
              SurplusRunnerRemoved, runnerState, watches, phase
<1>17. CASE Launch \/ RecoverRunnerRemoved \/ StartupFails \/ StartupDone
  BY <1>17, RemovalType DEF IndInv, TypeOK, Modes, HandlerStates, Launch,
              RecoverRunnerRemoved, StartupFails, StartupDone,
              runnerState, docker, watches, handler
<1>18. ASSUME NEW r \in Runners, RecoverRunner(r)
      PROVE  TypeOK'
  BY <1>18 DEF IndInv, TypeOK, WatchStates, RecoverRunner, AddProtected, StartWatch,
              runnerState, docker, handler
<1>19. CASE Signal \/ FatalError \/ JoinListener
  BY <1>19 DEF IndInv, TypeOK, Modes, Signal, FatalError, BeginStop, JoinListener,
              runnerState, docker, watches, handler
<1>20. CASE JoinWatches
  <2>1. Idle \subseteq Runners
    BY ToSetElements DEF IndInv, TypeOK, Idle
  <2> QED BY <1>20, <2>1 DEF IndInv, TypeOK, Modes, JoinWatches, TakeAllIdle,
              docker, watches, handler
<1>21. ASSUME NEW r \in Runners, CleanupRef(r)
       PROVE  TypeOK'
  BY <1>21 DEF IndInv, TypeOK, CleanupRef, runnerState, docker, watches, handler
<1>22. CASE CleanupRefRemoved \/ CleanupRefFails
  BY <1>22, RemovalType DEF IndInv, TypeOK, CleanupRefRemoved, CleanupRefFails,
              runnerState, watches, handler
<1>23. CASE IdleCleaned \/ BusyCleaned
  BY <1>23 DEF IndInv, TypeOK, Modes, IdleCleaned, BusyCleaned, TakeAllBusy,
              runnerState, docker, watches, handler
<1>24. CASE Exit \/ JoinTimeout \/ Crash
  <2>1. ProcessEnds
    BY <1>24 DEF Exit, JoinTimeout, Crash
  <2>2. idle' = <<>> /\ <<>> \in Seq(Runners)
    BY <2>1 DEF ProcessEnds, LoseRunnerState
  <2> QED BY <2>1, <2>2 DEF IndInv, TypeOK, Modes, HandlerStates, WatchStates,
              ProcessEnds, LoseRunnerState, docker
<1>25. CASE UNCHANGED vars
  BY <1>25 DEF IndInv, TypeOK, vars, runnerState, docker, watches, handler, phase
<1> QED
  BY <1>1, <1>2, <1>3, <1>4, <1>5, <1>6, <1>7, <1>8, <1>9, <1>10, <1>11, <1>12, <1>13,
     <1>14, <1>15, <1>16, <1>17, <1>18, <1>19, <1>20, <1>21, <1>22, <1>23, <1>24, <1>25
  DEF Next, Environment, WatchStep, HandlerStep, RecoverStep, ShutdownStep

-----------------------------------------------------------------------------
(* The program counters. *)

LEMMA ModeStep == ASSUME IndInv, [Next]_vars PROVE ModeInv'
<1> USE RunnersAreNat
<1>1. ASSUME NEW r \in Runners, ContainerExits(r) \/ ContainerVanishes(r) \/ StopManaged(r)
      PROVE  ModeInv'
  BY <1>1 DEF IndInv, ModeInv, ContainerExits, ContainerVanishes, StopManaged,
              runnerState, watches, handler, phase, Idle
<1>2. ASSUME NEW r \in Runners,
             \/ WaitReturns(r) \/ WatchReturns(r) \/ WaitFails(r)
             \/ WatchRemoved(r) \/ WatchRemovalFails(r)
      PROVE  ModeInv'
  <2>1. watch[r] \notin {"none", "done"} /\ UNCHANGED <<runnerState, handler, phase, adopted, watchStopped>>
    BY <1>2 DEF WaitReturns, WatchReturns, WaitFails, WatchRemoved, WatchRemovalFails
  <2>2. mode \notin {"clean", "cleanBusy", "exit", "down"}
    BY <2>1 DEF IndInv, ModeInv
  <2> QED BY <2>1, <2>2 DEF IndInv, ModeInv, runnerState, handler, phase, Idle
<1>3. ASSUME NEW r \in Runners, ReleaseWatchOwnership(r)
      PROVE  ModeInv'
  BY <1>3, ReleaseEffect DEF IndInv, TypeOK, ModeInv, ReleaseWatchOwnership,
              handler, phase
<1>4. CASE \/ ReceiveMessage \/ ListenerFails \/ ListenerCancelled \/ NoJobEvent
           \/ CompletedRunnerRemoved \/ HandlerRemovalFails \/ SurplusRunnerRemoved
           \/ CreateManaged \/ ProvisionFails \/ StartManaged \/ StartFails
           \/ CleanupAfterProvisionFailure
           \/ \E jobs \in 0 .. MaxJobs : HandleDesiredRunnerCount(jobs)
  <2>1. UNCHANGED <<runnerState, watches, phase>> /\ hpc # "off"
    BY <1>4 DEF ReceiveMessage, ListenerFails, ListenerCancelled, NoJobEvent,
              CompletedRunnerRemoved, HandlerRemovalFails, SurplusRunnerRemoved,
              CreateManaged, ProvisionFails, StartManaged, StartFails,
              CleanupAfterProvisionFailure, HandleDesiredRunnerCount
  <2> QED BY <2>1 DEF IndInv, ModeInv, runnerState, watches, phase, Idle
<1>5. ASSUME NEW r \in Runners, HandleJobStarted(r) \/ HandleJobCompleted(r)
      PROVE  ModeInv'
  <2>1. hpc # "off" /\ UNCHANGED <<watches, phase>>
    BY <1>5 DEF HandleJobStarted, HandleJobCompleted
  <2> QED BY <2>1 DEF IndInv, ModeInv, watches, phase
<1>6. CASE RegisterRunner \/ WatchRunner \/ ScaleDown
  <2>1. hpc # "off" /\ UNCHANGED <<watchStopped, phase>>
    BY <1>6 DEF RegisterRunner, WatchRunner, ScaleDown, watches
  <2> QED BY <2>1 DEF IndInv, ModeInv, phase
<1>7. CASE \/ Launch \/ RecoverRunnerRemoved \/ StartupFails \/ StartupDone
           \/ Signal \/ FatalError \/ JoinListener
  BY <1>7 DEF IndInv, ModeInv, Launch, RecoverRunnerRemoved, StartupFails, StartupDone,
              Signal, FatalError, BeginStop, JoinListener,
              runnerState, watches, handler, Idle
<1>8. ASSUME NEW r \in Runners, RecoverRunner(r) \/ CleanupRef(r)
      PROVE  ModeInv'
  BY <1>8 DEF IndInv, ModeInv, RecoverRunner, CleanupRef, runnerState, watches,
              handler, Idle
<1>9. CASE JoinWatches
  <2>1. Idle' = {}
    BY <1>9 DEF JoinWatches, TakeAllIdle, Idle, ToSet
  <2> QED BY <1>9, <2>1 DEF IndInv, ModeInv, JoinWatches, TakeAllIdle, watches, handler
<1>10. CASE CleanupRefRemoved \/ CleanupRefFails \/ IdleCleaned \/ BusyCleaned
  BY <1>10, PolicyAssumption DEF IndInv, TypeOK, ModeInv, CleanupRefRemoved,
              CleanupRefFails, IdleCleaned, BusyCleaned, TakeAllBusy,
              runnerState, watches, handler, Idle
<1>11. CASE Exit \/ JoinTimeout \/ Crash
  <2>1. ProcessEnds
    BY <1>11 DEF Exit, JoinTimeout, Crash
  <2> QED BY <2>1 DEF ModeInv, ProcessEnds, LoseRunnerState, Idle, ToSet
<1>12. CASE UNCHANGED vars
  BY <1>12 DEF IndInv, ModeInv, vars, runnerState, watches, handler, phase, Idle
<1> QED
  BY <1>1, <1>2, <1>3, <1>4, <1>5, <1>6, <1>7, <1>8, <1>9, <1>10, <1>11, <1>12
  DEF Next, Environment, WatchStep, HandlerStep, RecoverStep, ShutdownStep

LEMMA HandlerStepInv == ASSUME IndInv, [Next]_vars PROVE HandlerInv'
<1> USE RunnersAreNat
<1>1. CASE UNCHANGED <<handler, made>>
  BY <1>1 DEF IndInv, HandlerInv, handler
<1>2. CASE ReceiveMessage \/ ListenerFails \/ ListenerCancelled \/ NoJobEvent
  BY <1>2 DEF IndInv, HandlerInv, ReceiveMessage, ListenerFails, ListenerReturnsError,
              ListenerCancelled, NoJobEvent, docker
<1>3. ASSUME NEW r \in Runners, HandleJobStarted(r)
      PROVE  HandlerInv'
  BY <1>3 DEF IndInv, HandlerInv, HandleJobStarted, docker
<1>4. ASSUME NEW r \in Runners, HandleJobCompleted(r)
      PROVE  HandlerInv'
  <2>1. refs' # <<>> <=> hpc' = "complete"
    BY <1>4, JobCompletedEffect DEF HandleJobCompleted
  <2>2. Tail(<<r>>) = <<>>
    OBVIOUS
  <2> QED BY <1>4, <2>1, <2>2 DEF IndInv, HandlerInv, HandleJobCompleted, docker
<1>5. CASE CompletedRunnerRemoved \/ HandlerRemovalFails
  BY <1>5 DEF IndInv, HandlerInv, CompletedRunnerRemoved, HandlerRemovalFails,
              ListenerReturnsError
<1>6. ASSUME NEW jobs \in 0 .. MaxJobs, HandleDesiredRunnerCount(jobs)
      PROVE  HandlerInv'
  <2>1. DesiredRunnerCount(jobs) \in Nat /\ Count \in Nat
    BY BoundsAssumption, CountIsNat DEF DesiredRunnerCount, IndInv
  <2> QED BY <1>6, <2>1 DEF IndInv, HandlerInv, HandleDesiredRunnerCount, docker
<1>7. CASE CreateManaged \/ ProvisionFails
  <2>1. made + 1 # NoRunner
    BY DEF IndInv, TypeOK, NoRunner
  <2> QED BY <1>7, <2>1 DEF IndInv, HandlerInv, CreateManaged, ProvisionFails,
              ListenerReturnsError, docker
<1>8. CASE StartManaged \/ StartFails \/ CleanupAfterProvisionFailure
  BY <1>8 DEF IndInv, HandlerInv, StartManaged, StartFails,
              CleanupAfterProvisionFailure, ListenerReturnsError
<1>9. CASE RegisterRunner \/ WatchRunner
  BY <1>9 DEF IndInv, TypeOK, HandlerInv, RegisterRunner, WatchRunner, docker
<1>10. CASE ScaleDown
  <2>1. hpc' = "remove" <=> refs' # <<>>
    BY <1>10, ScaleDownEffect
  <2> QED BY <1>10, <2>1 DEF IndInv, HandlerInv, ScaleDown, docker
<1>11. CASE SurplusRunnerRemoved
  <2>1. hpc' = "remove" <=> refs' # <<>>
    BY <1>11, SurplusRemovedEffect
  <2> QED BY <1>11, <2>1 DEF IndInv, HandlerInv, SurplusRunnerRemoved
<1>12. CASE StartupDone
  BY <1>12 DEF IndInv, ModeInv, HandlerInv, StartupDone, docker
<1>13. CASE Exit \/ JoinTimeout \/ Crash
  BY <1>13 DEF HandlerInv, Exit, JoinTimeout, Crash, ProcessEnds
<1>14. ASSUME NEW r \in Runners,
              \/ ContainerExits(r) \/ ContainerVanishes(r) \/ StopManaged(r)
              \/ WatchStep(r) \/ WaitFails(r) \/ RecoverRunner(r) \/ CleanupRef(r)
       PROVE  UNCHANGED <<handler, made>>
  BY <1>14 DEF ContainerExits, ContainerVanishes, StopManaged, WatchStep, WaitReturns,
              WatchReturns, ReleaseWatchOwnership, WatchRemoved, WatchRemovalFails,
              WaitFails, RecoverRunner, CleanupRef, docker
<1>15. ASSUME \/ Launch \/ RecoverRunnerRemoved \/ StartupFails \/ Signal \/ FatalError
              \/ JoinListener \/ JoinWatches \/ CleanupRefRemoved \/ CleanupRefFails
              \/ IdleCleaned \/ BusyCleaned \/ UNCHANGED vars
       PROVE  UNCHANGED <<handler, made>>
  BY <1>15 DEF Launch, RecoverRunnerRemoved, StartupFails, Signal, FatalError, BeginStop,
              JoinListener, JoinWatches, CleanupRefRemoved, CleanupRefFails,
              IdleCleaned, BusyCleaned, vars, docker
<1> QED
  BY <1>1, <1>2, <1>3, <1>4, <1>5, <1>6, <1>7, <1>8, <1>9, <1>10, <1>11, <1>12, <1>13,
     <1>14, <1>15
  DEF Next, Environment, HandlerStep, RecoverStep, ShutdownStep

-----------------------------------------------------------------------------
(* Creation order. *)

(* What a step of one watch does to the set of removals by watches.         *)
LEMMA WatchClaimsEffect ==
  ASSUME TypeOK, NEW r \in Runners, NEW st, watch' = [watch EXCEPT ![r] = st]
  PROVE  WatchClaims' = IF st = "remove" THEN WatchClaims \cup {r} ELSE WatchClaims \ {r}
BY DEF TypeOK, WatchClaims

LEMMA StartWatchEffect ==
  ASSUME TypeOK, NEW r \in Runners, r \notin WatchClaims, StartWatch(r)
  PROVE  WatchClaims' = WatchClaims
BY DEF TypeOK, WatchClaims, StartWatch

LEMMA FreshStep == ASSUME IndInv, [Next]_vars PROVE FreshInv'
<1> USE RunnersAreNat DEF Tracked, Claimed, HandlerClaims, ProvisionClaim, MainClaims
<1>1. ASSUME NEW r \in Runners, ContainerExits(r) \/ ContainerVanishes(r) \/ StopManaged(r)
      PROVE  FreshInv'
  BY <1>1 DEF IndInv, TypeOK, FreshInv, Live, ContainerExits, ContainerVanishes, StopManaged,
              runnerState, watches, handler, phase, Idle, WatchClaims, Removing
<1>2. ASSUME NEW r \in Runners, WaitReturns(r) \/ WatchReturns(r) \/ WaitFails(r)
      PROVE  FreshInv'
  <2>1. /\ watch[r] # "none" /\ UNCHANGED <<runnerState, docker, handler, phase, adopted>>
        /\ \E st \in {"exited", "missing", "done"} : watch' = [watch EXCEPT ![r] = st]
    BY <1>2 DEF WaitReturns, WatchReturns, WaitFails
  <2>2. WatchClaims' \subseteq WatchClaims
    BY <2>1 DEF IndInv, TypeOK, WatchClaims
  <2> QED BY <2>1, <2>2 DEF IndInv, TypeOK, FreshInv, runnerState, docker, handler, phase, Idle
<1>3. ASSUME NEW r \in Runners, ReleaseWatchOwnership(r)
      PROVE  FreshInv'
  <2>1. /\ watch[r] # "none" /\ UNCHANGED <<docker, handler, phase, adopted>>
        /\ \E st \in {"remove", "done"} : watch' = [watch EXCEPT ![r] = st]
    BY <1>3 DEF ReleaseWatchOwnership
  <2>2. WatchClaims' \subseteq WatchClaims \cup {r}
    BY <2>1, WatchClaimsEffect DEF IndInv
  <2>3. Idle' \subseteq Idle /\ busy' \subseteq busy /\ protected' \subseteq protected
    BY <1>3, ReleaseEffect
  <2>4. \A q \in Runners : watch'[q] # "none" => q <= made'
    BY <2>1 DEF IndInv, TypeOK, FreshInv, docker
  <2>5. r <= made
    BY <2>1 DEF IndInv, FreshInv
  <2>6. \A q \in (Tracked \cup Claimed \cup adopted)' : q <= made'
    BY <2>1, <2>2, <2>3, <2>5 DEF IndInv, FreshInv, docker, handler, phase
  <2>7. cur' # NoRunner => watch'[cur'] = "none"
    BY <2>1 DEF IndInv, TypeOK, FreshInv, handler
  <2> QED BY <2>1, <2>4, <2>6, <2>7 DEF IndInv, FreshInv, docker
<1>4. ASSUME NEW r \in Runners, WatchRemoved(r) \/ WatchRemovalFails(r)
      PROVE  FreshInv'
  <2>1. /\ watch[r] = "remove" /\ UNCHANGED <<runnerState, made, handler, phase, adopted>>
        /\ watch' = [watch EXCEPT ![r] = "done"]
        /\ Removed(r) \/ NotRemoved(r)
    BY <1>4 DEF WatchRemoved, WatchRemovalFails
  <2>2. WatchClaims' \subseteq WatchClaims
    BY <2>1 DEF IndInv, TypeOK, WatchClaims
  <2>3. r <= made
    BY <2>1 DEF IndInv, FreshInv
  <2>4. container' \in {container, [container EXCEPT ![r] = "gone"]}
    BY <2>1 DEF Removed, NotRemoved
  <2>5. \A q \in Runners : container'[q] = "none" <=> q > made'
    BY <2>1, <2>3, <2>4 DEF IndInv, TypeOK, FreshInv
  <2>6. \A q \in Runners : watch'[q] # "none" => q <= made'
    BY <2>1 DEF IndInv, TypeOK, FreshInv
  <2>7. \A q \in (Tracked \cup Claimed \cup adopted)' : q <= made'
    BY <2>1, <2>2 DEF IndInv, FreshInv, runnerState, handler, phase, Idle
  <2>8. cur' # NoRunner => watch'[cur'] = "none"
    BY <2>1 DEF IndInv, TypeOK, FreshInv, handler
  <2> QED BY <2>5, <2>6, <2>7, <2>8 DEF FreshInv
<1>5. CASE ReceiveMessage \/ ListenerFails \/ ListenerCancelled \/ NoJobEvent
  BY <1>5 DEF IndInv, TypeOK, FreshInv, ReceiveMessage, ListenerFails,
              ListenerReturnsError, ListenerCancelled, NoJobEvent,
              runnerState, docker, watches, phase, Idle, WatchClaims
<1>6. ASSUME NEW r \in Runners, HandleJobStarted(r)
      PROVE  FreshInv'
  <2>1. /\ r <= made
        /\ Idle' = Idle \ {r} /\ busy' \subseteq busy \cup {r} /\ protected' = protected
    BY <1>6, JobStartedEffect DEF HandleJobStarted
  <2>2. /\ UNCHANGED <<docker, watches, cur, refs, phase>>
        /\ hpc \notin {"start", "undo", "register"} /\ hpc' \notin {"start", "undo", "register"}
    BY <1>6 DEF HandleJobStarted
  <2>3. HandlerClaims' = HandlerClaims /\ WatchClaims' = WatchClaims /\ MainClaims' = MainClaims
    BY <2>2 DEF watches, phase, WatchClaims
  <2>4. \A q \in (Tracked \cup Claimed \cup adopted)' : q <= made'
    BY <2>1, <2>2, <2>3 DEF IndInv, FreshInv, docker, watches
  <2> QED BY <2>2, <2>4 DEF IndInv, FreshInv, docker, watches
<1>7. ASSUME NEW r \in Runners, HandleJobCompleted(r)
      PROVE  FreshInv'
  <2>1. /\ r <= made
        /\ Idle' \subseteq Idle /\ busy' \subseteq busy /\ protected' = protected
        /\ ToSet(refs') \subseteq ToSet(refs) \cup {r}
    BY <1>7, JobCompletedEffect DEF HandleJobCompleted
  <2>2. /\ UNCHANGED <<docker, watches, cur, phase>>
        /\ hpc \notin {"start", "undo", "register"} /\ hpc' \notin {"start", "undo", "register"}
    BY <1>7 DEF HandleJobCompleted
  <2>3. /\ HandlerClaims' \subseteq HandlerClaims \cup {r}
        /\ WatchClaims' = WatchClaims /\ MainClaims' = MainClaims
    BY <2>1, <2>2 DEF watches, phase, WatchClaims
  <2>4. \A q \in (Tracked \cup Claimed \cup adopted)' : q <= made'
    BY <2>1, <2>2, <2>3 DEF IndInv, FreshInv, docker, watches
  <2> QED BY <2>2, <2>4 DEF IndInv, FreshInv, docker, watches
<1>8. CASE CompletedRunnerRemoved \/ HandlerRemovalFails
  <2>1. Head(refs) \in Runners /\ Head(refs) \in ToSet(refs)
    BY <1>8, TailIncreasing DEF CompletedRunnerRemoved, HandlerRemovalFails, IndInv,
              TypeOK, HandlerInv, OrderInv
  <2>2. ToSet(<<>>) = {}
    BY DEF ToSet
  <2> QED BY <1>8, <2>1, <2>2 DEF IndInv, TypeOK, FreshInv, CompletedRunnerRemoved,
              HandlerRemovalFails, ListenerReturnsError, Removed, NotRemoved,
              runnerState, watches, phase, Idle, WatchClaims
<1>9. ASSUME NEW jobs \in 0 .. MaxJobs, HandleDesiredRunnerCount(jobs)
      PROVE  FreshInv'
  BY <1>9 DEF IndInv, TypeOK, FreshInv, HandleDesiredRunnerCount,
              runnerState, docker, watches, phase, Idle, WatchClaims
<1>10. CASE CreateManaged \/ ProvisionFails
  <2>1. /\ hpc = "create" /\ UNCHANGED <<runnerState, watches, phase, refs>>
        /\ \/ UNCHANGED docker
           \/ /\ made < NumRunners /\ made' = made + 1
              /\ container' = [container EXCEPT ![made + 1] = "created"]
        /\ \/ cur' = cur /\ hpc' = "off"
           \/ cur' = made + 1 /\ made' = made + 1 /\ made < NumRunners /\ hpc' = "start"
    BY <1>10 DEF CreateManaged, ProvisionFails, ListenerReturnsError
  <2>2. cur = NoRunner
    BY <2>1 DEF IndInv, HandlerInv
  <2>3. made \in Nat /\ made' \in {made, made + 1}
    BY <2>1 DEF IndInv, TypeOK, docker
  <2>4. \A q \in Runners : container'[q] = "none" <=> q > made'
    BY <2>1, <2>3 DEF IndInv, TypeOK, FreshInv, docker
  <2>5. \A q \in Runners : watch'[q] # "none" => q <= made'
    BY <2>1, <2>3 DEF IndInv, FreshInv, watches
  <2>6. \A q \in (Tracked \cup Claimed \cup adopted)' : q <= made'
    <3>1. WatchClaims' = WatchClaims /\ Tracked' = Tracked /\ adopted' = adopted
      BY <2>1 DEF WatchClaims, watches, runnerState, Idle
    <3>2. HandlerClaims' \subseteq HandlerClaims \cup {made'} /\ MainClaims' = MainClaims
      BY <2>1, <2>3 DEF phase
    <3>3. \A q \in Tracked \cup Claimed \cup adopted : q \in Nat /\ q <= made
      <4>1. Tracked \cup Claimed \cup adopted \subseteq Nat
        <5>1. Idle \subseteq Nat /\ ToSet(refs) \subseteq Nat
          BY ToSetElements DEF IndInv, TypeOK, Idle
        <5> QED BY <5>1, <2>2 DEF IndInv, TypeOK, HandlerInv, WatchClaims, NoRunner
      <4> QED BY <4>1 DEF IndInv, FreshInv
    <3> HIDE DEF Tracked, HandlerClaims, MainClaims
    <3> QED BY <2>3, <3>1, <3>2, <3>3
  <2>7. cur' # NoRunner => watch'[cur'] = "none"
    <3>1. CASE cur' = cur
      BY <2>2, <3>1
    <3>2. CASE cur' = made + 1 /\ made < NumRunners
      <4>1. cur' \in Runners /\ ~(cur' <= made)
        BY <2>3, <3>2, BoundsAssumption DEF Runners
      <4> QED BY <2>1, <4>1 DEF IndInv, FreshInv, watches
    <3> QED BY <2>1, <3>1, <3>2
  <2> QED BY <2>4, <2>5, <2>6, <2>7 DEF FreshInv
<1>11. CASE StartManaged \/ StartFails
  BY <1>11 DEF IndInv, TypeOK, FreshInv, HandlerInv, StartManaged, StartFails,
              runnerState, watches, phase, Idle, WatchClaims, docker
<1>12. CASE CleanupAfterProvisionFailure
  BY <1>12 DEF IndInv, TypeOK, FreshInv, HandlerInv, CleanupAfterProvisionFailure,
              ListenerReturnsError, Removed, NotRemoved, runnerState, watches, phase,
              Idle, WatchClaims
<1>13. CASE RegisterRunner
  BY <1>13, RegisterEffect DEF IndInv, TypeOK, FreshInv, HandlerInv, RegisterRunner,
              docker, watches, phase, WatchClaims
<1>14. CASE WatchRunner
  BY <1>14 DEF IndInv, TypeOK, FreshInv, HandlerInv, WatchRunner, StartWatch,
              runnerState, docker, phase, Idle, WatchClaims
<1>15. CASE ScaleDown
  BY <1>15, ScaleDownEffect DEF IndInv, TypeOK, FreshInv, ScaleDown,
              docker, watches, phase, WatchClaims
<1>16. CASE SurplusRunnerRemoved
  BY <1>16, SurplusRemovedEffect DEF IndInv, TypeOK, FreshInv, SurplusRunnerRemoved, Removed,
              runnerState, watches, phase, Idle, WatchClaims
<1>17. CASE Launch \/ StartupDone
  <2>1. /\ UNCHANGED <<runnerState, docker, watches, cur, refs, rcur, srefs, scur>>
        /\ hpc' = hpc \/ (hpc = "off" /\ hpc' = "poll")
        /\ \/ listed' = listed
           \/ listed' = {r \in Runners : container[r] \in Live}
    BY <1>17 DEF IndInv, ModeInv, Launch, StartupDone, handler
  <2>2. \A r \in listed' : r <= made
    BY <2>1, BoundsAssumption DEF IndInv, TypeOK, FreshInv, Live, Runners
  <2>3. WatchClaims' = WatchClaims /\ Tracked' = Tracked /\ HandlerClaims' = HandlerClaims
    BY <2>1 DEF WatchClaims, watches, runnerState, Idle
  <2>4. \A q \in (Tracked \cup Claimed \cup adopted)' : q <= made'
    BY <2>1, <2>2, <2>3 DEF IndInv, FreshInv, docker, watches
  <2> QED BY <2>1, <2>4 DEF IndInv, FreshInv, docker, watches
<1>18. CASE RecoverRunnerRemoved \/ StartupFails
  BY <1>18 DEF IndInv, TypeOK, FreshInv, RecoverRunnerRemoved, StartupFails,
              Removed, NotRemoved, runnerState, watches, handler, Idle, WatchClaims
<1>19. ASSUME NEW r \in Runners, RecoverRunner(r)
       PROVE  FreshInv'
  <2>1. cur = NoRunner /\ r \in listed /\ listed' = listed \ {r}
    BY <1>19 DEF RecoverRunner, IndInv, ModeInv, HandlerInv
  <2>2. r \in MainClaims /\ r \notin WatchClaims
    BY <2>1 DEF IndInv, OneOwner
  <2>3. /\ UNCHANGED <<docker, handler, idle, busy, srefs, scur>>
        /\ protected' \in {protected, protected \cup {r}}
        /\ adopted' \in {adopted, adopted \cup {r}}
        /\ rcur' \in {rcur, r}
        /\ UNCHANGED watch \/ StartWatch(r)
    BY <1>19 DEF RecoverRunner, AddProtected, runnerState
  <2>4. WatchClaims' = WatchClaims
    <3>1. CASE UNCHANGED watch
      BY <3>1 DEF WatchClaims
    <3>2. CASE StartWatch(r)
      BY <2>2, <3>2, StartWatchEffect DEF IndInv
    <3> QED BY <2>3, <3>1, <3>2
  <2>5. \A q \in Runners : watch'[q] # "none" => q <= made'
    BY <2>2, <2>3 DEF IndInv, TypeOK, FreshInv, StartWatch, docker
  <2>6. \A q \in (Tracked \cup Claimed \cup adopted)' : q <= made'
    BY <2>1, <2>3, <2>4 DEF IndInv, FreshInv, docker, handler, Idle
  <2> QED BY <2>1, <2>3, <2>5, <2>6 DEF IndInv, FreshInv, docker, handler
<1>20. CASE Signal \/ FatalError \/ JoinListener
  BY <1>20 DEF IndInv, TypeOK, FreshInv, Signal, FatalError, BeginStop, JoinListener,
              runnerState, docker, watches, handler, Idle, WatchClaims
<1>21. CASE JoinWatches
  <2>1. Idle' = {}
    BY <1>21 DEF JoinWatches, TakeAllIdle, Idle, ToSet
  <2> QED BY <1>21, <2>1 DEF IndInv, TypeOK, FreshInv, JoinWatches, TakeAllIdle,
              docker, watches, handler, WatchClaims
<1>22. ASSUME NEW r \in Runners, CleanupRef(r)
       PROVE  FreshInv'
  BY <1>22 DEF IndInv, TypeOK, FreshInv, CleanupRef, runnerState, docker, watches, handler,
              Idle, WatchClaims
<1>23. CASE CleanupRefRemoved \/ CleanupRefFails
  BY <1>23 DEF IndInv, TypeOK, FreshInv, CleanupRefRemoved, CleanupRefFails,
              Removed, NotRemoved, runnerState, watches, handler,
              Idle, WatchClaims
<1>24. CASE IdleCleaned \/ BusyCleaned
  BY <1>24 DEF IndInv, TypeOK, FreshInv, IdleCleaned, BusyCleaned, TakeAllBusy,
              runnerState, docker, watches, handler,
              Idle, WatchClaims
<1>25. CASE Exit \/ JoinTimeout \/ Crash
  <2>1. ProcessEnds
    BY <1>25 DEF Exit, JoinTimeout, Crash
  <2>2. ToSet(<<>>) = {}
    BY DEF ToSet
  <2> QED BY <2>1, <2>2 DEF IndInv, TypeOK, FreshInv, ProcessEnds, LoseRunnerState, docker,
              Idle, WatchClaims
<1>26. CASE UNCHANGED vars
  BY <1>26 DEF IndInv, TypeOK, FreshInv, vars, runnerState, docker, watches, handler, phase,
              Idle, WatchClaims
<1> QED
  BY <1>1, <1>2, <1>3, <1>4, <1>5, <1>6, <1>7, <1>8, <1>9, <1>10, <1>11, <1>12, <1>13,
     <1>14, <1>15, <1>16, <1>17, <1>18, <1>19, <1>20, <1>21, <1>22, <1>23, <1>24, <1>25,
     <1>26
  DEF Next, Environment, WatchStep, HandlerStep, RecoverStep, ShutdownStep

-----------------------------------------------------------------------------
(* Three kinds of step are alike for every property of ownership.           *)

(* Docker only ever moves a container forward.                              *)
Ahead ==
  \A q \in Runners :
    /\ container[q] \in {"exited", "gone"} => container'[q] \in {"exited", "gone"}
    /\ container[q] = "gone" => container'[q] = "gone"

(* Nobody takes or gives up a runner.                                       *)
Quiet ==
  /\ UNCHANGED <<runnerState, adopted>>
  /\ HandlerClaims' = HandlerClaims
  /\ WatchClaims' = WatchClaims
  /\ MainClaims' = MainClaims
  /\ raised \subseteq raised'
  /\ \A q \in Runners : container'[q] \in Live => container[q] \in Live

(* A removal ends, or an error makes a goroutine give up what it holds.     *)
Drops ==
  /\ UNCHANGED <<runnerState, adopted>>
  /\ HandlerClaims' \subseteq HandlerClaims
  /\ WatchClaims' \subseteq WatchClaims
  /\ MainClaims' \subseteq MainClaims
  /\ raised \subseteq raised'
  /\ \A q \in Runners : container'[q] \in Live => container[q] \in Live
  /\ \/ raised' # {}
     \/ \E r \in Runners : container'[r] = "gone" /\ Claimed \ {r} \subseteq Claimed'

LEMMA QuietEnvironment ==
  ASSUME IndInv, NEW r \in Runners,
         ContainerExits(r) \/ ContainerVanishes(r) \/ StopManaged(r)
  PROVE  Quiet
BY DEF IndInv, TypeOK, Live, ContainerExits, ContainerVanishes, StopManaged, Quiet,
       runnerState, watches, handler, phase, HandlerClaims, ProvisionClaim, WatchClaims,
       MainClaims

LEMMA QuietWatch ==
  ASSUME IndInv, NEW r \in Runners, WaitReturns(r) \/ WatchReturns(r) \/ WaitFails(r)
  PROVE  Quiet
<1>1. /\ r \notin WatchClaims /\ UNCHANGED <<runnerState, docker, handler, phase, adopted>>
      /\ raised \subseteq raised'
      /\ \E st \in {"exited", "missing", "done"} : watch' = [watch EXCEPT ![r] = st]
  BY DEF WaitReturns, WatchReturns, WaitFails, WatchClaims
<1>2. PICK st \in {"exited", "missing", "done"} : watch' = [watch EXCEPT ![r] = st]
  BY <1>1
<1>3. WatchClaims' = WatchClaims
  BY <1>1, <1>2 DEF IndInv, TypeOK, WatchClaims
<1> QED BY <1>1, <1>3 DEF Quiet, runnerState, docker, handler, phase, HandlerClaims,
                          ProvisionClaim, MainClaims

LEMMA QuietHandler ==
  ASSUME IndInv,
         \/ ReceiveMessage \/ ListenerFails \/ ListenerCancelled \/ NoJobEvent
         \/ \E jobs \in 0 .. MaxJobs : HandleDesiredRunnerCount(jobs)
         \/ StartManaged \/ StartFails \/ WatchRunner
  PROVE  Quiet
<1>1. CASE WatchRunner
  <2>1. cur \in Runners /\ cur \notin WatchClaims /\ StartWatch(cur)
    BY <1>1, RunnersAreNat DEF WatchRunner, IndInv, TypeOK, HandlerInv, FreshInv, WatchClaims
  <2>2. WatchClaims' = WatchClaims
    BY <2>1, StartWatchEffect DEF IndInv
  <2> QED BY <1>1, <2>2 DEF Quiet, WatchRunner, runnerState, docker, phase, HandlerClaims,
                          ProvisionClaim, MainClaims
<1>2. CASE \/ ReceiveMessage \/ ListenerFails \/ ListenerCancelled \/ NoJobEvent
           \/ \E jobs \in 0 .. MaxJobs : HandleDesiredRunnerCount(jobs)
  <2>1. UNCHANGED <<runnerState, docker, watches, phase, cur, refs>> /\ raised \subseteq raised'
    BY <1>2 DEF ReceiveMessage, ListenerFails, ListenerReturnsError, ListenerCancelled,
              NoJobEvent, HandleDesiredRunnerCount
  <2>2. hpc \notin {"start", "undo", "register"} /\ hpc' \notin {"start", "undo", "register"}
    BY <1>2 DEF ReceiveMessage, ListenerFails, ListenerReturnsError, ListenerCancelled,
              NoJobEvent, HandleDesiredRunnerCount
  <2> QED BY <2>1, <2>2 DEF Quiet, docker, runnerState, watches, phase, HandlerClaims,
              ProvisionClaim, WatchClaims, MainClaims
<1>3. CASE StartManaged \/ StartFails
  <2>1. cur \in Runners
    BY <1>3, RunnersAreNat DEF StartManaged, StartFails, IndInv, TypeOK, HandlerInv
  <2> QED BY <1>3, <2>1 DEF Quiet, IndInv, TypeOK, Live, StartManaged, StartFails,
              runnerState, watches, phase, HandlerClaims, ProvisionClaim, WatchClaims, MainClaims
<1> QED BY <1>1, <1>2, <1>3

LEMMA QuietMain ==
  ASSUME IndInv,
         \/ StartupDone \/ Signal \/ FatalError \/ JoinListener \/ BusyCleaned
         \/ UNCHANGED vars \/ \E r \in Runners : CleanupRef(r)
  PROVE  Quiet
<1>1. CASE \E r \in Runners : CleanupRef(r)
  BY <1>1, RunnersAreNat DEF Quiet, CleanupRef, docker, runnerState, watches, handler,
              HandlerClaims, ProvisionClaim, WatchClaims, MainClaims
<1>2. CASE StartupDone
  BY <1>2 DEF Quiet, IndInv, ModeInv, StartupDone, docker, runnerState, watches,
              HandlerClaims, ProvisionClaim, WatchClaims, MainClaims
<1>3. CASE Signal \/ FatalError \/ JoinListener \/ BusyCleaned \/ UNCHANGED vars
  BY <1>3 DEF Quiet, Signal, FatalError, BeginStop, JoinListener, BusyCleaned, vars, docker,
              runnerState, watches, handler, phase, HandlerClaims, ProvisionClaim,
              WatchClaims, MainClaims
<1> QED BY <1>1, <1>2, <1>3

LEMMA DropsWatch ==
  ASSUME IndInv, NEW r \in Runners, WatchRemoved(r) \/ WatchRemovalFails(r)
  PROVE  Drops
<1>1. /\ UNCHANGED <<runnerState, adopted, handler, phase>> /\ raised \subseteq raised'
      /\ watch' = [watch EXCEPT ![r] = "done"]
      /\ container' \in {container, [container EXCEPT ![r] = "gone"]}
      /\ raised' # {} \/ container' = [container EXCEPT ![r] = "gone"]
  BY DEF WatchRemoved, WatchRemovalFails, Removed, NotRemoved
<1>2. WatchClaims' = WatchClaims \ {r}
  BY <1>1 DEF IndInv, TypeOK, WatchClaims
<1>3. HandlerClaims' = HandlerClaims /\ MainClaims' = MainClaims
  BY <1>1 DEF handler, phase, HandlerClaims, ProvisionClaim, MainClaims
<1>4. \A q \in Runners : container'[q] \in Live => container[q] \in Live
  BY <1>1 DEF IndInv, TypeOK, Live
<1>5. raised' # {} \/ (container'[r] = "gone" /\ Claimed \ {r} \subseteq Claimed')
  BY <1>1, <1>2, <1>3 DEF IndInv, TypeOK, Claimed
<1> QED BY <1>1, <1>2, <1>3, <1>4, <1>5 DEF Drops

LEMMA DropsHandler ==
  ASSUME IndInv,
         \/ CompletedRunnerRemoved \/ HandlerRemovalFails \/ SurplusRunnerRemoved
         \/ CleanupAfterProvisionFailure
  PROVE  Drops
<1>1. CASE CleanupAfterProvisionFailure
  <2>1. /\ UNCHANGED <<runnerState, watches, phase, refs>> /\ raised \subseteq raised'
        /\ raised' # {} /\ hpc' = "off"
        /\ container' \in {container, [container EXCEPT ![cur] = "gone"]}
    BY <1>1 DEF CleanupAfterProvisionFailure, ListenerReturnsError, Removed, NotRemoved
  <2>2. \A q \in Runners : container'[q] \in Live => container[q] \in Live
    BY <2>1 DEF IndInv, TypeOK, Live
  <2> QED BY <2>1, <2>2 DEF Drops, runnerState, watches, phase, HandlerClaims,
              ProvisionClaim, WatchClaims, MainClaims
<1>2. CASE CompletedRunnerRemoved \/ HandlerRemovalFails \/ SurplusRunnerRemoved
  <2>1. refs \in Seq(Runners) /\ refs # <<>> /\ Increasing(refs)
    BY <1>2 DEF CompletedRunnerRemoved, HandlerRemovalFails, SurplusRunnerRemoved,
              IndInv, TypeOK, OrderInv, HandlerInv
  <2>2. /\ Head(refs) \in Runners /\ Head(refs) \in ToSet(refs)
        /\ ToSet(Tail(refs)) = ToSet(refs) \ {Head(refs)}
    BY <2>1, RunnersAreNat, TailIncreasing
  <2>3. ToSet(<<>>) = {}
    BY DEF ToSet
  <2>4. hpc = "complete" => ToSet(refs) = {Head(refs)}
    BY <2>2, <2>3 DEF IndInv, HandlerInv
  <2>5. /\ UNCHANGED <<runnerState, watches, phase, cur>> /\ raised \subseteq raised'
        /\ hpc \notin {"start", "undo", "register"} /\ hpc' \notin {"start", "undo", "register"}
        /\ container' \in {container, [container EXCEPT ![Head(refs)] = "gone"]}
        /\ refs' \in {<<>>, Tail(refs)}
        /\ \/ raised' # {}
           \/ /\ container' = [container EXCEPT ![Head(refs)] = "gone"]
              /\ refs' = Tail(refs) \/ (hpc = "complete" /\ refs' = <<>>)
    BY <1>2 DEF CompletedRunnerRemoved, HandlerRemovalFails, SurplusRunnerRemoved,
              ListenerReturnsError, Removed, NotRemoved
  <2>6. \A q \in Runners : container'[q] \in Live => container[q] \in Live
    BY <2>5 DEF IndInv, TypeOK, Live
  <2>7. /\ HandlerClaims' = ToSet(refs') /\ HandlerClaims = ToSet(refs)
        /\ WatchClaims' = WatchClaims /\ MainClaims' = MainClaims
    BY <2>5 DEF watches, phase, HandlerClaims, ProvisionClaim, WatchClaims, MainClaims
  <2>8. HandlerClaims' \subseteq HandlerClaims
    BY <2>2, <2>3, <2>5, <2>7
  <2>9. raised' # {} \/ (container'[Head(refs)] = "gone" /\ Claimed \ {Head(refs)} \subseteq Claimed')
    BY <2>2, <2>3, <2>4, <2>5, <2>7 DEF IndInv, TypeOK, Claimed
  <2> QED BY <2>2, <2>5, <2>6, <2>7, <2>8, <2>9 DEF Drops, watches
<1> QED BY <1>1, <1>2

LEMMA DropsMain ==
  ASSUME IndInv,
         RecoverRunnerRemoved \/ StartupFails \/ CleanupRefRemoved \/ CleanupRefFails
  PROVE  Drops
<1>1. /\ UNCHANGED <<runnerState, watches, handler>> /\ raised \subseteq raised'
      /\ MainClaims' \subseteq MainClaims
      /\ \A q \in Runners : container'[q] \in Live => container[q] \in Live
  BY DEF IndInv, TypeOK, Live, RecoverRunnerRemoved, StartupFails, CleanupRefRemoved,
         CleanupRefFails, Removed, NotRemoved, MainClaims
<1>2. /\ HandlerClaims' = HandlerClaims /\ WatchClaims' = WatchClaims
      /\ UNCHANGED <<runnerState, adopted>>
  BY <1>1 DEF watches, handler, HandlerClaims, ProvisionClaim, WatchClaims
<1>3. CASE StartupFails \/ CleanupRefFails
  BY <1>1, <1>2, <1>3 DEF Drops, StartupFails, CleanupRefFails
<1>4. CASE RecoverRunnerRemoved
  <2>1. /\ rcur \in Runners /\ container' = [container EXCEPT ![rcur] = "gone"]
        /\ MainClaims \ {rcur} \subseteq MainClaims'
    BY <1>4 DEF IndInv, TypeOK, RecoverRunnerRemoved, Removed, MainClaims
  <2>2. container'[rcur] = "gone" /\ Claimed \ {rcur} \subseteq Claimed'
    BY <1>2, <2>1 DEF IndInv, TypeOK, Claimed
  <2> QED BY <1>1, <1>2, <2>1, <2>2 DEF Drops
<1>5. CASE CleanupRefRemoved
  <2>1. /\ scur \in Runners /\ container' = [container EXCEPT ![scur] = "gone"]
        /\ MainClaims \ {scur} \subseteq MainClaims'
    BY <1>5 DEF IndInv, TypeOK, CleanupRefRemoved, Removed, MainClaims
  <2>2. container'[scur] = "gone" /\ Claimed \ {scur} \subseteq Claimed'
    BY <1>2, <2>1 DEF IndInv, TypeOK, Claimed
  <2> QED BY <1>1, <1>2, <2>1, <2>2 DEF Drops
<1> QED BY <1>3, <1>4, <1>5

-----------------------------------------------------------------------------
(* The steps that take a runner from one place to another, as sets.         *)

(* Only these handler phases hold runners.                                  *)
LEMMA NoHandlerClaims ==
  ASSUME IndInv, hpc \in {"off", "poll", "event", "desired", "create", "watch", "down"}
  PROVE  HandlerClaims = {}
<1>1. ToSet(<<>>) = {}
  BY DEF ToSet
<1> QED BY <1>1 DEF IndInv, HandlerInv, HandlerClaims, ProvisionClaim

LEMMA NoMainClaims ==
  ASSUME IndInv, mode \in {"down", "serve", "stop", "join", "exit"}
  PROVE  MainClaims = {}
BY DEF IndInv, ModeInv, MainClaims

LEMMA JobStartedMove ==
  ASSUME IndInv, NEW r \in Runners, HandleJobStarted(r)
  PROVE  /\ HandlerClaims' = HandlerClaims /\ WatchClaims' = WatchClaims
         /\ MainClaims' = MainClaims
         /\ UNCHANGED <<adopted, raised, docker>>
         /\ hpc = "event"
BY DEF HandleJobStarted, watches, phase, HandlerClaims, ProvisionClaim, WatchClaims, MainClaims

LEMMA JobCompletedMove ==
  ASSUME IndInv, NEW r \in Runners, HandleJobCompleted(r)
  PROVE  /\ HandlerClaims = {}
         /\ HandlerClaims' = IF Owns(r) THEN {r} ELSE {}
         /\ WatchClaims' = WatchClaims /\ MainClaims' = MainClaims
         /\ UNCHANGED <<adopted, raised, docker>>
<1>1. HandlerClaims = {} /\ refs = <<>>
  BY NoHandlerClaims DEF HandleJobCompleted, IndInv, HandlerInv
<1>2. HandlerClaims' = ToSet(refs')
  BY DEF HandleJobCompleted, HandlerClaims, ProvisionClaim
<1>3. ToSet(refs') = IF Owns(r) THEN {r} ELSE ToSet(refs)
  BY JobCompletedEffect
<1>4. ToSet(<<>>) = {}
  BY DEF ToSet
<1>5. UNCHANGED <<adopted, raised, docker, watches, phase>>
  BY DEF HandleJobCompleted, watches
<1> QED BY <1>1, <1>2, <1>3, <1>4, <1>5 DEF WatchClaims, watches, phase, MainClaims

LEMMA ReleaseMove ==
  ASSUME IndInv, NEW r \in Runners, ReleaseWatchOwnership(r)
  PROVE  /\ r \notin WatchClaims
         /\ WatchClaims' = IF watch[r] = "exited" /\ r \in Tracked
                           THEN WatchClaims \cup {r} ELSE WatchClaims
         /\ HandlerClaims' = HandlerClaims /\ MainClaims' = MainClaims
         /\ UNCHANGED <<adopted, raised, docker>>
<1>1. WatchOwns(r) <=> r \in Tracked
  BY ReleaseEffect
<1>2. /\ watch[r] \in {"exited", "missing"}
      /\ watch' = [watch EXCEPT ![r] =
                     IF watch[r] = "exited" /\ r \in Tracked THEN "remove" ELSE "done"]
      /\ UNCHANGED <<adopted, raised, docker, handler, phase>>
  BY <1>1 DEF ReleaseWatchOwnership
<1>3. r \notin WatchClaims
  BY <1>2 DEF WatchClaims
<1>4. WatchClaims' = IF watch[r] = "exited" /\ r \in Tracked
                     THEN WatchClaims \cup {r} ELSE WatchClaims
  BY <1>2, <1>3 DEF IndInv, TypeOK, WatchClaims
<1>5. HandlerClaims' = HandlerClaims /\ MainClaims' = MainClaims
  BY <1>2 DEF handler, phase, HandlerClaims, ProvisionClaim, MainClaims
<1> QED BY <1>2, <1>3, <1>4, <1>5

LEMMA CreateMove ==
  ASSUME IndInv, CreateManaged
  PROVE  /\ HandlerClaims = {} /\ HandlerClaims' = {made + 1}
         /\ WatchClaims' = WatchClaims /\ MainClaims' = MainClaims
         /\ UNCHANGED <<runnerState, adopted, raised>>
         /\ container' = [container EXCEPT ![made + 1] = "created"]
         /\ made + 1 \in Runners
<1>1. HandlerClaims = {} /\ refs = <<>>
  BY NoHandlerClaims DEF CreateManaged, IndInv, HandlerInv
<1>2. ToSet(<<>>) = {}
  BY DEF ToSet
<1>3. made + 1 \in Runners
  BY BoundsAssumption DEF CreateManaged, IndInv, TypeOK, Runners
<1> QED BY <1>1, <1>2, <1>3 DEF CreateManaged, watches, phase, HandlerClaims, ProvisionClaim,
                                WatchClaims, MainClaims

LEMMA ProvisionFailsMove ==
  ASSUME IndInv, ProvisionFails
  PROVE  /\ HandlerClaims' = HandlerClaims
         /\ WatchClaims' = WatchClaims /\ MainClaims' = MainClaims
         /\ UNCHANGED <<runnerState, adopted>>
         /\ raised' # {}
BY DEF ProvisionFails, ListenerReturnsError, watches, phase, HandlerClaims,
       ProvisionClaim, WatchClaims, MainClaims

LEMMA RegisterMove ==
  ASSUME IndInv, RegisterRunner
  PROVE  /\ HandlerClaims = {cur} /\ HandlerClaims' = {}
         /\ WatchClaims' = WatchClaims /\ MainClaims' = MainClaims
         /\ UNCHANGED <<adopted, raised, docker>>
<1>1. ToSet(<<>>) = {}
  BY DEF ToSet
<1>2. refs = <<>>
  BY DEF RegisterRunner, IndInv, HandlerInv
<1> QED BY <1>1, <1>2 DEF RegisterRunner, watches, phase, HandlerClaims, ProvisionClaim,
                          WatchClaims, MainClaims

LEMMA ScaleDownMove ==
  ASSUME IndInv, ScaleDown
  PROVE  /\ HandlerClaims = {} /\ HandlerClaims' = ToSet(refs')
         /\ WatchClaims' = WatchClaims /\ MainClaims' = MainClaims
         /\ UNCHANGED <<adopted, raised, docker>>
<1>1. HandlerClaims = {}
  BY NoHandlerClaims DEF ScaleDown
<1>2. HandlerClaims' = ToSet(refs')
  BY DEF ScaleDown, HandlerClaims, ProvisionClaim
<1> QED BY <1>1, <1>2 DEF ScaleDown, watches, phase, WatchClaims, MainClaims

LEMMA RecoverMove ==
  ASSUME IndInv, NEW r \in Runners, RecoverRunner(r)
  PROVE  /\ r \in MainClaims
         /\ HandlerClaims' = HandlerClaims /\ WatchClaims' = WatchClaims
         /\ UNCHANGED <<idle, busy, raised, docker>>
         /\ \/ /\ container[r] = "running"
               /\ protected' = protected \cup {r} /\ adopted' = adopted \cup {r}
               /\ MainClaims' = MainClaims \ {r}
            \/ /\ UNCHANGED <<protected, adopted>>
               /\ MainClaims' \subseteq MainClaims /\ MainClaims \ {r} \subseteq MainClaims'
               /\ container[r] = "gone" \/ r \in MainClaims'
<1>1. /\ r \in listed /\ rcur = NoRunner /\ listed' = listed \ {r}
      /\ UNCHANGED <<idle, busy, raised, docker, handler, srefs, scur>>
      /\ \/ /\ container[r] = "running"
            /\ protected' = protected \cup {r} /\ adopted' = adopted \cup {r} /\ rcur' = rcur
         \/ /\ UNCHANGED <<protected, adopted>>
            /\ (container[r] = "gone" /\ rcur' = rcur) \/ rcur' = r
  BY DEF RecoverRunner, AddProtected, runnerState
<1>2. srefs = {} /\ scur = NoRunner
  BY DEF RecoverRunner, IndInv, ModeInv
<1>3. MainClaims = listed
  BY <1>1, <1>2 DEF MainClaims
<1>4. r \notin WatchClaims
  BY <1>1, <1>3 DEF IndInv, OneOwner
<1>5. WatchClaims' = WatchClaims
  <2>1. CASE UNCHANGED watch
    BY <2>1 DEF WatchClaims
  <2>2. CASE StartWatch(r)
    BY <1>4, <2>2, StartWatchEffect DEF IndInv
  <2> QED BY <2>1, <2>2 DEF RecoverRunner
<1>6. HandlerClaims' = HandlerClaims
  BY <1>1 DEF handler, HandlerClaims, ProvisionClaim
<1>7. MainClaims' = (listed \ {r}) \cup ({rcur'} \ {NoRunner})
  BY <1>1, <1>2 DEF MainClaims
<1> QED BY <1>1, <1>3, <1>5, <1>6, <1>7, RunnersAreNat

LEMMA JoinWatchesMove ==
  ASSUME IndInv, JoinWatches
  PROVE  /\ MainClaims = {} /\ MainClaims' = Idle /\ Idle' = {}
         /\ HandlerClaims' = HandlerClaims /\ WatchClaims' = WatchClaims
         /\ UNCHANGED <<busy, protected, adopted, raised, docker>>
<1>1. MainClaims = {} /\ listed = {} /\ rcur = NoRunner /\ scur = NoRunner
  BY NoMainClaims DEF JoinWatches, IndInv, ModeInv
<1>2. Idle' = {}
  BY DEF JoinWatches, TakeAllIdle, Idle, ToSet
<1> QED BY <1>1, <1>2 DEF JoinWatches, TakeAllIdle, handler, watches, MainClaims,
                          HandlerClaims, ProvisionClaim, WatchClaims

LEMMA IdleCleanedMove ==
  ASSUME IndInv, IdleCleaned
  PROVE  /\ MainClaims = {}
         /\ Idle' = Idle
         /\ \/ MainClaims' = busy /\ busy' = {}
            \/ MainClaims' = {} /\ busy' = busy
         /\ HandlerClaims' = HandlerClaims /\ WatchClaims' = WatchClaims
         /\ UNCHANGED <<protected, adopted, raised, docker>>
<1>1. /\ listed = {} /\ rcur = NoRunner /\ scur = NoRunner /\ srefs = {}
      /\ UNCHANGED <<listed, rcur, scur>>
  BY DEF IdleCleaned, IndInv, ModeInv
<1>2. \/ srefs' = busy /\ busy' = {}
      \/ srefs' = {} /\ busy' = busy
  BY <1>1 DEF IdleCleaned, TakeAllBusy, runnerState
<1> QED BY <1>1, <1>2 DEF IdleCleaned, TakeAllBusy, runnerState, Idle, handler, watches,
                          MainClaims, HandlerClaims, ProvisionClaim, WatchClaims

LEMMA LaunchMove ==
  ASSUME IndInv, Launch
  PROVE  /\ Tracked' = {} /\ Idle' = {} /\ busy' = {} /\ protected' = {} /\ adopted' = {}
         /\ HandlerClaims' = {} /\ WatchClaims' = {}
         /\ MainClaims' = {r \in Runners : container[r] \in Live}
         /\ UNCHANGED <<raised, docker>>
<1>1. /\ Idle = {} /\ busy = {} /\ protected = {} /\ adopted = {} /\ hpc = "off"
      /\ WatchClaims = {}
      /\ rcur = NoRunner /\ srefs = {} /\ scur = NoRunner
  BY DEF Launch, IndInv, ModeInv, WatchClaims
<1>2. HandlerClaims = {}
  BY <1>1, NoHandlerClaims
<1> QED BY <1>1, <1>2 DEF Launch, runnerState, watches, handler, Idle, Tracked,
                          MainClaims, HandlerClaims, ProvisionClaim, WatchClaims

LEMMA EndMove ==
  ASSUME IndInv, Exit \/ JoinTimeout \/ Crash
  PROVE  /\ Idle' = {} /\ busy' = {} /\ protected' = {} /\ adopted' = {}
         /\ HandlerClaims' = {} /\ WatchClaims' = {} /\ MainClaims' = {}
         /\ mode' = "down"
<1>1. ProcessEnds
  BY DEF Exit, JoinTimeout, Crash
<1>2. ToSet(<<>>) = {}
  BY DEF ToSet
<1> QED BY <1>1, <1>2 DEF ProcessEnds, LoseRunnerState, Idle, MainClaims, HandlerClaims,
                          ProvisionClaim, WatchClaims

LEMMA StepKinds ==
  ASSUME IndInv, [Next]_vars
  PROVE  \/ Quiet \/ Drops \/ CreateManaged \/ ProvisionFails \/ RegisterRunner
         \/ ScaleDown \/ JoinWatches \/ IdleCleaned \/ Launch
         \/ Exit \/ JoinTimeout \/ Crash
         \/ \E r \in Runners : \/ HandleJobStarted(r) \/ HandleJobCompleted(r)
                               \/ ReleaseWatchOwnership(r) \/ RecoverRunner(r)
<1>1. ASSUME NEW r \in Runners,
             ContainerExits(r) \/ ContainerVanishes(r) \/ StopManaged(r)
      PROVE  Quiet
  BY <1>1, QuietEnvironment
<1>2. ASSUME NEW r \in Runners, WaitReturns(r) \/ WatchReturns(r) \/ WaitFails(r)
      PROVE  Quiet
  BY <1>2, QuietWatch
<1>3. CASE \/ ReceiveMessage \/ ListenerFails \/ ListenerCancelled \/ NoJobEvent
           \/ \E jobs \in 0 .. MaxJobs : HandleDesiredRunnerCount(jobs)
           \/ StartManaged \/ StartFails \/ WatchRunner
  BY <1>3, QuietHandler
<1>4. CASE \/ StartupDone \/ Signal \/ FatalError \/ JoinListener \/ BusyCleaned
           \/ UNCHANGED vars \/ \E r \in Runners : CleanupRef(r)
  BY <1>4, QuietMain
<1>5. ASSUME NEW r \in Runners, WatchRemoved(r) \/ WatchRemovalFails(r)
      PROVE  Drops
  BY <1>5, DropsWatch
<1>6. CASE \/ CompletedRunnerRemoved \/ HandlerRemovalFails \/ SurplusRunnerRemoved
           \/ CleanupAfterProvisionFailure
  BY <1>6, DropsHandler
<1>7. CASE RecoverRunnerRemoved \/ StartupFails \/ CleanupRefRemoved \/ CleanupRefFails
  BY <1>7, DropsMain
<1> QED
  BY <1>1, <1>2, <1>3, <1>4, <1>5, <1>6, <1>7
  DEF Next, Environment, WatchStep, HandlerStep, RecoverStep, ShutdownStep

-----------------------------------------------------------------------------
(* One owner. *)

LEMMA OneOwnerStep == ASSUME IndInv, [Next]_vars PROVE OneOwner'
<1> USE DEF Tracked, Claimed
<1>0. OneOwner
  BY DEF IndInv
<1>1. CASE Quiet
  BY <1>0, <1>1 DEF Quiet, OneOwner, runnerState, Idle
<1>2. CASE Drops
  BY <1>0, <1>2 DEF Drops, OneOwner, runnerState, Idle
<1>3. CASE CreateManaged
  <2>1. made \in Nat /\ \A r \in Tracked \cup Claimed : r <= made
    BY DEF IndInv, TypeOK, FreshInv
  <2>2. made + 1 \notin Tracked \cup Claimed
    BY <2>1
  <2> QED BY <1>0, <1>3, <2>2, CreateMove DEF OneOwner, runnerState, Idle
<1>4. CASE ProvisionFails
  BY <1>0, <1>4, ProvisionFailsMove DEF OneOwner, runnerState, Idle
<1>5. CASE RegisterRunner
  BY <1>0, <1>5, RegisterMove, RegisterEffect DEF OneOwner
<1>6. CASE ScaleDown
  <2>1. ToSet(refs') \cap Idle' = {}
    <3>1. idle' \in Seq(Runners) /\ refs' \in Seq(Runners)
      BY <1>6, ScaleDownEffect
    <3>2. Idle' \subseteq Int /\ ToSet(refs') \subseteq Int
      BY <3>1, ToSetElements, RunnersAreNat DEF Idle
    <3>3. \A x \in ToSet(refs'), y \in Idle' : x < y
      BY <1>6, ScaleDownEffect
    <3> QED BY <3>2, <3>3
  <2> QED BY <1>0, <1>6, <2>1, ScaleDownMove, ScaleDownEffect DEF OneOwner
<1>7. CASE JoinWatches
  BY <1>0, <1>7, JoinWatchesMove DEF OneOwner
<1>8. CASE IdleCleaned
  BY <1>0, <1>8, IdleCleanedMove DEF OneOwner
<1>9. CASE Launch
  BY <1>9, LaunchMove DEF OneOwner
<1>10. CASE Exit \/ JoinTimeout \/ Crash
  BY <1>10, EndMove DEF OneOwner
<1>11. ASSUME NEW r \in Runners, HandleJobStarted(r)
       PROVE  OneOwner'
  BY <1>0, <1>11, JobStartedMove, JobStartedEffect DEF OneOwner
<1>12. ASSUME NEW r \in Runners, HandleJobCompleted(r)
       PROVE  OneOwner'
  BY <1>0, <1>12, JobCompletedMove, JobCompletedEffect DEF OneOwner, Owns
<1>13. ASSUME NEW r \in Runners, ReleaseWatchOwnership(r)
       PROVE  OneOwner'
  BY <1>0, <1>13, ReleaseMove, ReleaseEffect DEF OneOwner
<1>14. ASSUME NEW r \in Runners, RecoverRunner(r)
       PROVE  OneOwner'
  BY <1>0, <1>14, RecoverMove DEF OneOwner, Idle
<1> QED
  BY <1>1, <1>2, <1>3, <1>4, <1>5, <1>6, <1>7, <1>8, <1>9, <1>10, <1>11, <1>12, <1>13,
     <1>14, StepKinds

-----------------------------------------------------------------------------
(* No container is forgotten. *)

(* The phase changes only in a few steps, and only Launch begins a process. *)
LEMMA ModeSteps ==
  ASSUME [Next]_vars
  PROVE  mode' = mode \/ Launch \/ (mode # "down" /\ mode' # "recover")
<1>1. ASSUME NEW r \in Runners,
             \/ ContainerExits(r) \/ ContainerVanishes(r) \/ StopManaged(r)
             \/ WatchStep(r) \/ WaitFails(r) \/ RecoverRunner(r) \/ CleanupRef(r)
             \/ HandleJobStarted(r) \/ HandleJobCompleted(r)
      PROVE  mode' = mode
  BY <1>1 DEF ContainerExits, ContainerVanishes, StopManaged, WatchStep, WaitReturns,
              WatchReturns, ReleaseWatchOwnership, WatchRemoved, WatchRemovalFails, WaitFails,
              RecoverRunner, CleanupRef, HandleJobStarted, HandleJobCompleted, phase
<1>2. ASSUME \/ ReceiveMessage \/ ListenerFails \/ ListenerCancelled \/ NoJobEvent
             \/ \E jobs \in 0 .. MaxJobs : HandleDesiredRunnerCount(jobs)
             \/ CompletedRunnerRemoved \/ HandlerRemovalFails
             \/ CreateManaged \/ ProvisionFails \/ StartManaged \/ StartFails
             \/ CleanupAfterProvisionFailure \/ RegisterRunner \/ WatchRunner
             \/ ScaleDown \/ SurplusRunnerRemoved
             \/ RecoverRunnerRemoved \/ CleanupRefRemoved \/ CleanupRefFails
             \/ UNCHANGED vars
      PROVE  mode' = mode
  BY <1>2 DEF ReceiveMessage, ListenerFails, ListenerCancelled, NoJobEvent,
              HandleDesiredRunnerCount, CompletedRunnerRemoved, HandlerRemovalFails,
              CreateManaged, ProvisionFails, StartManaged, StartFails,
              CleanupAfterProvisionFailure, RegisterRunner, WatchRunner, ScaleDown,
              SurplusRunnerRemoved, RecoverRunnerRemoved, CleanupRefRemoved,
              CleanupRefFails, phase, vars
<1>3. ASSUME \/ StartupFails \/ StartupDone \/ Signal \/ FatalError \/ JoinListener
             \/ JoinWatches \/ IdleCleaned \/ BusyCleaned \/ Exit \/ JoinTimeout \/ Crash
      PROVE  mode # "down" /\ mode' # "recover"
  BY <1>3 DEF StartupFails, StartupDone, Signal, FatalError, BeginStop, JoinListener,
              JoinWatches, IdleCleaned, BusyCleaned, Exit, JoinTimeout, Crash, ProcessEnds
<1> QED
  BY <1>1, <1>2, <1>3 DEF Next, Environment, HandlerStep, RecoverStep, ShutdownStep

LEMMA OnlyLaunch ==
  ASSUME [Next]_vars, mode = "down", mode' # "down"
  PROVE  Launch
BY ModeSteps

LEMMA NoSilentOrphanStep == ASSUME IndInv, [Next]_vars PROVE NoSilentOrphan'
<1> USE DEF Tracked, Claimed
<1>1. CASE mode' = "down" \/ raised' # {}
  BY <1>1 DEF NoSilentOrphan
<1>2. CASE mode' # "down" /\ mode = "down"
  BY <1>2, OnlyLaunch, LaunchMove DEF NoSilentOrphan, docker
<1>3. CASE mode # "down" /\ mode' # "down" /\ raised' = {}
  <2>1. \/ raised # {}
        \/ \A r \in Runners : container[r] \in Live => r \in Tracked \cup Claimed
    BY <1>3 DEF IndInv, NoSilentOrphan
  <2>2. CASE Quiet
    BY <1>3, <2>1, <2>2 DEF Quiet, NoSilentOrphan, runnerState, Idle
  <2>3. CASE Drops
    <3>1. PICK r \in Runners : container'[r] = "gone" /\ Claimed \ {r} \subseteq Claimed'
      BY <1>3, <2>3 DEF Drops
    <3>2. raised = {} /\ Tracked' = Tracked
      BY <1>3, <2>3 DEF Drops, runnerState, Idle
    <3>3. \A q \in Runners : container'[q] \in Live => container[q] \in Live /\ q # r
      BY <2>3, <3>1 DEF Drops, Live
    <3> HIDE DEF Tracked, Claimed
    <3> QED BY <2>1, <3>1, <3>2, <3>3 DEF NoSilentOrphan
  <2>4. CASE CreateManaged
    BY <1>3, <2>1, <2>4, CreateMove DEF IndInv, TypeOK, Live, NoSilentOrphan, runnerState, Idle
  <2>5. CASE ProvisionFails
    BY <1>3, <2>5, ProvisionFailsMove
  <2>6. CASE RegisterRunner
    BY <1>3, <2>1, <2>6, RegisterMove, RegisterEffect DEF NoSilentOrphan, docker
  <2>7. CASE ScaleDown
    BY <1>3, <2>1, <2>7, ScaleDownMove, ScaleDownEffect DEF NoSilentOrphan, docker
  <2>8. CASE JoinWatches
    BY <1>3, <2>1, <2>8, JoinWatchesMove DEF NoSilentOrphan, docker
  <2>9. CASE IdleCleaned
    BY <1>3, <2>1, <2>9, IdleCleanedMove DEF NoSilentOrphan, docker
  <2>10. CASE Launch
    BY <1>3, <2>10 DEF Launch
  <2>11. CASE Exit \/ JoinTimeout \/ Crash
    BY <1>3, <2>11, EndMove
  <2>12. ASSUME NEW r \in Runners, HandleJobStarted(r)
         PROVE  NoSilentOrphan'
    BY <1>3, <2>1, <2>12, JobStartedMove, JobStartedEffect DEF NoSilentOrphan, docker
  <2>13. ASSUME NEW r \in Runners, HandleJobCompleted(r)
         PROVE  NoSilentOrphan'
    <3>1. r \in protected => ~Owns(r)
      BY DEF IndInv, OneOwner, Owns
    <3> QED BY <1>3, <2>1, <2>13, <3>1, JobCompletedMove, JobCompletedEffect
            DEF NoSilentOrphan, docker, Owns
  <2>14. ASSUME NEW r \in Runners, ReleaseWatchOwnership(r)
         PROVE  NoSilentOrphan'
    <3>1. watch[r] = "exited" \/ container[r] = "gone"
      BY <2>14 DEF ReleaseWatchOwnership, IndInv, AdoptInv
    <3> QED BY <1>3, <2>1, <2>14, <3>1, ReleaseMove, ReleaseEffect
            DEF NoSilentOrphan, docker, Live
  <2>15. ASSUME NEW r \in Runners, RecoverRunner(r)
         PROVE  NoSilentOrphan'
    BY <1>3, <2>1, <2>15, RecoverMove DEF NoSilentOrphan, docker, Live, Idle
  <2> QED
    BY <2>2, <2>3, <2>4, <2>5, <2>6, <2>7, <2>8, <2>9, <2>10, <2>11, <2>12, <2>13,
       <2>14, <2>15, StepKinds
<1> QED BY <1>1, <1>2, <1>3

-----------------------------------------------------------------------------
(* Adoption, and what the watches have seen. *)

LEMMA DockerAhead == ASSUME IndInv, [Next]_vars PROVE Ahead
<1> USE RunnersAreNat
<1>1. ASSUME NEW r \in Runners,
             ContainerExits(r) \/ ContainerVanishes(r) \/ StopManaged(r)
      PROVE  Ahead
  BY <1>1 DEF Ahead, IndInv, TypeOK, ContainerExits, ContainerVanishes, StopManaged
<1>2. ASSUME NEW r, Removed(r) \/ NotRemoved(r)
      PROVE  Ahead
  BY <1>2 DEF Ahead, IndInv, TypeOK, Removed, NotRemoved
<1>3. CASE UNCHANGED container
  BY <1>3 DEF Ahead
<1>4. CASE CreateManaged \/ ProvisionFails
  <2>1. made < NumRunners => container[made + 1] = "none"
    BY BoundsAssumption DEF IndInv, TypeOK, FreshInv, Runners
  <2> QED BY <1>4, <2>1 DEF Ahead, IndInv, TypeOK, CreateManaged, ProvisionFails, docker
<1>5. CASE StartManaged \/ StartFails
  BY <1>5 DEF Ahead, IndInv, TypeOK, StartManaged, StartFails
<1>6. ASSUME NEW r \in Runners,
             \/ WaitReturns(r) \/ WatchReturns(r) \/ ReleaseWatchOwnership(r)
             \/ WaitFails(r) \/ RecoverRunner(r) \/ CleanupRef(r)
             \/ HandleJobStarted(r) \/ HandleJobCompleted(r)
      PROVE  UNCHANGED container
  BY <1>6 DEF WaitReturns, WatchReturns, ReleaseWatchOwnership, WaitFails,
              RecoverRunner, CleanupRef, HandleJobStarted, HandleJobCompleted, docker
<1>7. ASSUME \/ ReceiveMessage \/ ListenerFails \/ ListenerCancelled \/ NoJobEvent
             \/ \E jobs \in 0 .. MaxJobs : HandleDesiredRunnerCount(jobs)
             \/ RegisterRunner \/ WatchRunner \/ ScaleDown
             \/ Launch \/ StartupDone \/ Signal \/ FatalError \/ JoinListener
             \/ JoinWatches \/ IdleCleaned \/ BusyCleaned \/ Exit \/ JoinTimeout \/ Crash
             \/ UNCHANGED vars
      PROVE  UNCHANGED container
  BY <1>7 DEF ReceiveMessage, ListenerFails, ListenerCancelled, NoJobEvent,
              HandleDesiredRunnerCount, RegisterRunner, WatchRunner, ScaleDown, Launch,
              StartupDone, Signal, FatalError, BeginStop, JoinListener, JoinWatches,
              IdleCleaned, BusyCleaned, Exit, JoinTimeout, Crash, ProcessEnds, docker, vars
<1>8. ASSUME NEW r \in Runners, WatchRemoved(r) \/ WatchRemovalFails(r)
      PROVE  \E q : Removed(q) \/ NotRemoved(q)
  BY <1>8 DEF WatchRemoved, WatchRemovalFails
<1>9. ASSUME \/ CompletedRunnerRemoved \/ HandlerRemovalFails \/ SurplusRunnerRemoved
             \/ CleanupAfterProvisionFailure \/ RecoverRunnerRemoved
             \/ StartupFails \/ CleanupRefRemoved \/ CleanupRefFails
      PROVE  UNCHANGED container \/ \E q : Removed(q) \/ NotRemoved(q)
  BY <1>9 DEF CompletedRunnerRemoved, HandlerRemovalFails, SurplusRunnerRemoved,
              CleanupAfterProvisionFailure, RecoverRunnerRemoved, StartupFails,
              CleanupRefRemoved, CleanupRefFails
<1> QED
  BY <1>1, <1>2, <1>3, <1>4, <1>5, <1>6, <1>7, <1>8, <1>9
  DEF Next, Environment, WatchStep, HandlerStep, RecoverStep, ShutdownStep

(* The steps that move a watch or the runner being provisioned.             *)
LEMMA WatchSteps ==
  ASSUME IndInv, [Next]_vars
  PROVE  \/ UNCHANGED <<watch, cur, watchStopped>>
         \/ UNCHANGED <<watch, cur>> /\ JoinListener
         \/ CreateManaged \/ CleanupAfterProvisionFailure \/ WatchRunner
         \/ Exit \/ JoinTimeout \/ Crash
         \/ \E r \in Runners : \/ WaitReturns(r) \/ WatchReturns(r) \/ WaitFails(r)
                               \/ ReleaseWatchOwnership(r) \/ WatchRemoved(r)
                               \/ WatchRemovalFails(r) \/ RecoverRunner(r)
<1>1. ASSUME NEW r \in Runners,
             \/ ContainerExits(r) \/ ContainerVanishes(r) \/ StopManaged(r)
             \/ CleanupRef(r) \/ HandleJobStarted(r) \/ HandleJobCompleted(r)
      PROVE  UNCHANGED <<watch, cur, watchStopped>>
  BY <1>1 DEF ContainerExits, ContainerVanishes, StopManaged, CleanupRef, HandleJobStarted,
              HandleJobCompleted, watches, handler
<1>2. ASSUME \/ ReceiveMessage \/ ListenerFails \/ ListenerCancelled \/ NoJobEvent
             \/ \E jobs \in 0 .. MaxJobs : HandleDesiredRunnerCount(jobs)
             \/ CompletedRunnerRemoved \/ HandlerRemovalFails
             \/ ProvisionFails \/ StartManaged \/ StartFails \/ RegisterRunner
             \/ ScaleDown \/ SurplusRunnerRemoved
      PROVE  UNCHANGED <<watch, cur, watchStopped>>
  BY <1>2 DEF ReceiveMessage, ListenerFails, ListenerCancelled, NoJobEvent,
              HandleDesiredRunnerCount, CompletedRunnerRemoved, HandlerRemovalFails,
              ProvisionFails, StartManaged, StartFails, RegisterRunner, ScaleDown,
              SurplusRunnerRemoved, watches
<1>3. ASSUME \/ Launch \/ RecoverRunnerRemoved \/ StartupFails \/ StartupDone \/ Signal
             \/ FatalError \/ JoinWatches \/ CleanupRefRemoved \/ CleanupRefFails
             \/ IdleCleaned \/ BusyCleaned \/ UNCHANGED vars
      PROVE  UNCHANGED <<watch, cur, watchStopped>>
  BY <1>3 DEF Launch, RecoverRunnerRemoved, StartupFails, StartupDone, Signal, FatalError,
              BeginStop, JoinWatches, CleanupRefRemoved, CleanupRefFails,
              IdleCleaned, BusyCleaned, vars, watches, handler
<1>4. ASSUME JoinListener
      PROVE  UNCHANGED <<watch, cur>>
  BY <1>4 DEF JoinListener, handler
<1> QED
  BY <1>1, <1>2, <1>3, <1>4
  DEF Next, Environment, WatchStep, HandlerStep, RecoverStep, ShutdownStep

LEMMA AdoptStep == ASSUME IndInv, [Next]_vars PROVE AdoptInv'
<1>1. protected' \subseteq adopted'
      /\ (adopted \cap (Idle \cup busy \cup HandlerClaims \cup MainClaims) = {})'
  <2> USE DEF Tracked, Claimed
  <2>0. /\ protected \subseteq adopted
        /\ adopted \cap (Idle \cup busy \cup HandlerClaims \cup MainClaims) = {}
    BY DEF IndInv, AdoptInv
  <2>1. CASE Quiet
    BY <2>0, <2>1 DEF Quiet, runnerState, Idle
  <2>2. CASE Drops
    BY <2>0, <2>2 DEF Drops, runnerState, Idle
  <2>3. CASE CreateManaged
    <3>1. made \in Nat /\ \A r \in adopted : r <= made
      BY DEF IndInv, TypeOK, FreshInv
    <3>2. made + 1 \notin adopted
      BY <3>1
    <3> QED BY <2>0, <2>3, <3>2, CreateMove DEF runnerState, Idle
  <2>4. CASE ProvisionFails
    BY <2>0, <2>4, ProvisionFailsMove DEF runnerState, Idle
  <2>5. CASE RegisterRunner
    BY <2>0, <2>5, RegisterMove, RegisterEffect
  <2>6. CASE ScaleDown
    BY <2>0, <2>6, ScaleDownMove, ScaleDownEffect
  <2>7. CASE JoinWatches
    BY <2>0, <2>7, JoinWatchesMove
  <2>8. CASE IdleCleaned
    BY <2>0, <2>8, IdleCleanedMove
  <2>9. CASE Launch
    BY <2>9, LaunchMove
  <2>10. CASE Exit \/ JoinTimeout \/ Crash
    BY <2>10, EndMove
  <2>11. ASSUME NEW r \in Runners, HandleJobStarted(r)
         PROVE  protected' \subseteq adopted'
                /\ (adopted \cap (Idle \cup busy \cup HandlerClaims \cup MainClaims) = {})'
    BY <2>0, <2>11, JobStartedMove, JobStartedEffect
  <2>12. ASSUME NEW r \in Runners, HandleJobCompleted(r)
         PROVE  protected' \subseteq adopted'
                /\ (adopted \cap (Idle \cup busy \cup HandlerClaims \cup MainClaims) = {})'
    BY <2>0, <2>12, JobCompletedMove, JobCompletedEffect DEF Owns
  <2>13. ASSUME NEW r \in Runners, ReleaseWatchOwnership(r)
         PROVE  protected' \subseteq adopted'
                /\ (adopted \cap (Idle \cup busy \cup HandlerClaims \cup MainClaims) = {})'
    BY <2>0, <2>13, ReleaseMove, ReleaseEffect
  <2>14. ASSUME NEW r \in Runners, RecoverRunner(r)
         PROVE  protected' \subseteq adopted'
                /\ (adopted \cap (Idle \cup busy \cup HandlerClaims \cup MainClaims) = {})'
    BY <2>0, <2>14, RecoverMove DEF Idle, IndInv, OneOwner
  <2> QED
    BY <2>1, <2>2, <2>3, <2>4, <2>5, <2>6, <2>7, <2>8, <2>9, <2>10, <2>11, <2>12, <2>13,
       <2>14, StepKinds
<1>2. /\ \A q \in Runners : watch'[q] \in {"exited", "remove"} => container'[q] \in {"exited", "gone"}
      /\ \A q \in Runners : watch'[q] = "missing" => container'[q] = "gone"
  <2>1. SUFFICES ASSUME NEW q \in Runners
                 PROVE  /\ watch'[q] \in {"exited", "remove"} => container'[q] \in {"exited", "gone"}
                        /\ watch'[q] = "missing" => container'[q] = "gone"
    OBVIOUS
  <2>2. /\ watch[q] \in {"exited", "remove"} => container[q] \in {"exited", "gone"}
        /\ watch[q] = "missing" => container[q] = "gone"
    BY DEF IndInv, AdoptInv
  <2>3. /\ container[q] \in {"exited", "gone"} => container'[q] \in {"exited", "gone"}
        /\ container[q] = "gone" => container'[q] = "gone"
    BY DockerAhead DEF Ahead
  <2>4. CASE watch'[q] \in {watch[q], "none", "wait", "done"}
    BY <2>2, <2>3, <2>4
  <2>5. ASSUME NEW r \in Runners, WaitReturns(r) \/ ReleaseWatchOwnership(r)
        PROVE  /\ watch'[q] \in {"exited", "remove"} => container'[q] \in {"exited", "gone"}
               /\ watch'[q] = "missing" => container'[q] = "gone"
    BY <2>2, <2>3, <2>5 DEF IndInv, TypeOK, WaitReturns, ReleaseWatchOwnership
  <2>6. ASSUME NEW r \in Runners,
               \/ WatchReturns(r) \/ WaitFails(r) \/ WatchRemoved(r) \/ WatchRemovalFails(r)
               \/ RecoverRunner(r)
        PROVE  watch'[q] \in {watch[q], "none", "wait", "done"}
    BY <2>6 DEF IndInv, TypeOK, WatchReturns, WaitFails, WatchRemoved, WatchRemovalFails,
                RecoverRunner, StartWatch
  <2>7. ASSUME \/ UNCHANGED watch \/ CreateManaged \/ CleanupAfterProvisionFailure
               \/ WatchRunner \/ Exit \/ JoinTimeout \/ Crash
        PROVE  watch'[q] \in {watch[q], "none", "wait", "done"}
    BY <2>7 DEF IndInv, TypeOK, CreateManaged, CleanupAfterProvisionFailure, WatchRunner,
                StartWatch, Exit, JoinTimeout, Crash, ProcessEnds, watches
  <2> QED BY <2>4, <2>5, <2>6, <2>7, WatchSteps
<1> QED BY <1>1, <1>2 DEF AdoptInv

-----------------------------------------------------------------------------
(* The table is watched. *)

(* Only registration and recovery bring a runner into the table.            *)
LEMMA TrackedSteps ==
  ASSUME IndInv, [Next]_vars
  PROVE  \/ Exit \/ JoinTimeout \/ Crash \/ Launch
         \/ /\ raised \subseteq raised'
            /\ \/ Tracked' \subseteq Tracked
               \/ RegisterRunner /\ Tracked' \subseteq Tracked \cup {cur}
               \/ \E r \in Runners : RecoverRunner(r)
<1> USE DEF Tracked
<1>1. CASE Quiet
  BY <1>1 DEF Quiet, runnerState, Idle
<1>2. CASE Drops
  BY <1>2 DEF Drops, runnerState, Idle
<1>3. CASE CreateManaged
  BY <1>3, CreateMove DEF runnerState, Idle
<1>4. CASE ProvisionFails
  BY <1>4, ProvisionFailsMove DEF ProvisionFails, ListenerReturnsError, runnerState, Idle
<1>5. CASE RegisterRunner
  BY <1>5, RegisterMove, RegisterEffect
<1>6. CASE ScaleDown
  BY <1>6, ScaleDownMove, ScaleDownEffect
<1>7. CASE JoinWatches
  BY <1>7, JoinWatchesMove
<1>8. CASE IdleCleaned
  BY <1>8, IdleCleanedMove
<1>9. ASSUME NEW r \in Runners, HandleJobStarted(r)
      PROVE  raised \subseteq raised' /\ Tracked' \subseteq Tracked
  BY <1>9, JobStartedMove, JobStartedEffect
<1>10. ASSUME NEW r \in Runners, HandleJobCompleted(r)
       PROVE  raised \subseteq raised' /\ Tracked' \subseteq Tracked
  BY <1>10, JobCompletedMove, JobCompletedEffect
<1>11. ASSUME NEW r \in Runners, ReleaseWatchOwnership(r)
       PROVE  raised \subseteq raised' /\ Tracked' \subseteq Tracked
  BY <1>11, ReleaseMove, ReleaseEffect
<1>12. ASSUME NEW r \in Runners, RecoverRunner(r)
       PROVE  raised \subseteq raised'
  BY <1>12, RecoverMove
<1> QED
  BY <1>1, <1>2, <1>3, <1>4, <1>5, <1>6, <1>7, <1>8, <1>9, <1>10, <1>11, <1>12, StepKinds

LEMMA TableIsWatchedStep == ASSUME IndInv, [Next]_vars PROVE TableIsWatched'
<1> DEFINE Watched(q) == watch[q] \in {"wait", "exited", "missing"} \/ q = cur
<1>1. CASE Exit \/ JoinTimeout \/ Crash
  BY <1>1, EndMove DEF TableIsWatched, Tracked
<1>2. CASE Launch
  BY <1>2, LaunchMove DEF TableIsWatched
<1>3. CASE /\ raised' = {} /\ ~watchStopped'
           /\ ~(Exit \/ JoinTimeout \/ Crash \/ Launch)
  <2>1. raised = {}
    BY <1>3, TrackedSteps
  <2>2. Tracked \subseteq Runners
    <3>1. /\ idle \in Seq(Runners) /\ busy \in SUBSET Runners
          /\ protected \in SUBSET Runners
      BY DEF IndInv, TypeOK
    <3>2. Idle \subseteq Runners
      BY <3>1, RunnersAreNat, ToSetElements DEF Idle
    <3> QED BY <3>1, <3>2 DEF Tracked
  <2>3. ~watchStopped => \A q \in Tracked : Watched(q)
    BY <2>1 DEF IndInv, TableIsWatched
  <2>4. CASE UNCHANGED <<watch, cur, watchStopped>>
    <3>1. ASSUME NEW r \in Runners, RecoverRunner(r)
          PROVE  TableIsWatched'
      BY <1>3, <2>2, <2>3, <2>4, <3>1, RecoverMove
      DEF IndInv, TypeOK, TableIsWatched, Tracked, Idle, RecoverRunner, StartWatch, watches
    <3> QED BY <1>3, <2>2, <2>3, <2>4, <3>1, TrackedSteps DEF TableIsWatched
  <2>5. CASE JoinListener
    BY <1>3, <2>5 DEF JoinListener
  <2>6. CASE CreateManaged
    <3>1. cur = NoRunner /\ UNCHANGED <<watch, watchStopped>> /\ Tracked' = Tracked
      BY <2>6 DEF CreateManaged, IndInv, HandlerInv, watches, runnerState, Tracked, Idle
    <3>2. \A q \in Tracked : q # cur
      BY <2>2, <3>1, RunnersAreNat
    <3> QED BY <1>3, <2>3, <3>1, <3>2 DEF TableIsWatched
  <2>7. CASE CleanupAfterProvisionFailure
    BY <1>3, <2>7 DEF CleanupAfterProvisionFailure, ListenerReturnsError
  <2>8. CASE WatchRunner
    <3>1. UNCHANGED <<watchStopped, runnerState>> /\ StartWatch(cur)
      BY <2>8 DEF WatchRunner
    <3>2. watch' = [watch EXCEPT ![cur] = "wait"] /\ Tracked' = Tracked
      BY <1>3, <3>1 DEF StartWatch, runnerState, Tracked, Idle
    <3>3. \A q \in Tracked : Watched(q)
      BY <1>3, <2>3, <3>1
    <3> QED BY <2>2, <3>2, <3>3 DEF IndInv, TypeOK, TableIsWatched
  <2>9. ASSUME NEW r \in Runners, WaitReturns(r)
        PROVE  TableIsWatched'
    <3>1. /\ UNCHANGED <<watchStopped, runnerState, cur>>
          /\ \E st \in {"exited", "missing"} : watch' = [watch EXCEPT ![r] = st]
      BY <2>9 DEF WaitReturns, handler
    <3>2. Tracked' = Tracked
      BY <3>1 DEF runnerState, Tracked, Idle
    <3> QED BY <1>3, <2>2, <2>3, <3>1, <3>2 DEF IndInv, TypeOK, TableIsWatched
  <2>10. ASSUME NEW r \in Runners,
                WatchReturns(r) \/ WaitFails(r) \/ WatchRemovalFails(r)
         PROVE  FALSE
    BY <1>3, <2>10 DEF WatchReturns, WaitFails, WatchRemovalFails
  <2>11. ASSUME NEW r \in Runners, ReleaseWatchOwnership(r)
         PROVE  TableIsWatched'
    <3>1. Tracked' = Tracked \ {r} /\ UNCHANGED <<watchStopped, cur>>
      BY <2>11, ReleaseEffect
      DEF Tracked, ReleaseWatchOwnership, handler
    <3>2. \A q \in Runners \ {r} : watch'[q] = watch[q]
      BY <2>11 DEF IndInv, TypeOK, ReleaseWatchOwnership
    <3> QED BY <1>3, <2>2, <2>3, <3>1, <3>2 DEF TableIsWatched
  <2>12. ASSUME NEW r \in Runners, WatchRemoved(r)
         PROVE  TableIsWatched'
    <3>1. /\ UNCHANGED <<watchStopped, runnerState, cur>> /\ r \in WatchClaims
          /\ watch' = [watch EXCEPT ![r] = "done"]
      BY <2>12 DEF WatchRemoved, handler, WatchClaims
    <3>2. Tracked' = Tracked /\ r \notin Tracked
      BY <3>1 DEF runnerState, Tracked, Idle, IndInv, OneOwner, Claimed
    <3> QED BY <1>3, <2>2, <2>3, <3>1, <3>2 DEF IndInv, TypeOK, TableIsWatched
  <2>13. ASSUME NEW r \in Runners, RecoverRunner(r)
         PROVE  TableIsWatched'
    <3>1. UNCHANGED <<watchStopped, cur>>
      BY <2>13 DEF RecoverRunner, handler
    <3>2. \/ Tracked' = Tracked \cup {r} /\ StartWatch(r)
          \/ Tracked' = Tracked /\ UNCHANGED watch
      BY <2>13 DEF RecoverRunner, AddProtected, runnerState, Tracked, Idle
    <3> QED BY <1>3, <2>2, <2>3, <3>1, <3>2 DEF IndInv, TypeOK, TableIsWatched, StartWatch
  <2> QED
    BY <1>3, <2>4, <2>5, <2>6, <2>7, <2>8, <2>9, <2>10, <2>11, <2>12, <2>13, WatchSteps
<1> QED BY <1>1, <1>2, <1>3 DEF TableIsWatched

-----------------------------------------------------------------------------
(* The order of the idle runners. *)

LEMMA OrderStep == ASSUME IndInv, [Next]_vars PROVE OrderInv'
<1>0. /\ Increasing(idle) /\ Increasing(refs)
      /\ hpc = "remove" => \A x \in ToSet(refs), y \in Idle : x < y
  BY DEF IndInv, OrderInv
<1>e. Increasing(<<>>)
  BY DEF Increasing
<1>1. CASE UNCHANGED <<idle, refs>> /\ (hpc' = "remove" => hpc = "remove")
  BY <1>0, <1>1 DEF OrderInv, Idle
<1>2. ASSUME NEW r \in Runners, HandleJobStarted(r)
      PROVE  OrderInv'
  BY <1>0, <1>2, JobStartedEffect DEF OrderInv, HandleJobStarted
<1>3. ASSUME NEW r \in Runners, HandleJobCompleted(r)
      PROVE  OrderInv'
  <2>1. hpc' # "remove"
    BY <1>3 DEF HandleJobCompleted
  <2> QED BY <1>0, <1>3, <2>1, JobCompletedEffect DEF OrderInv
<1>4. ASSUME NEW r \in Runners, ReleaseWatchOwnership(r)
      PROVE  OrderInv'
  <2>1. UNCHANGED <<hpc, refs>>
    BY <1>4 DEF ReleaseWatchOwnership, handler
  <2>2. Increasing(idle') /\ Idle' \subseteq Idle
    BY <1>4, ReleaseEffect
  <2> QED BY <1>0, <2>1, <2>2 DEF OrderInv
<1>5. CASE RegisterRunner
  <2>1. hpc' # "remove" /\ refs' = refs
    BY <1>5 DEF RegisterRunner
  <2> QED BY <1>0, <1>5, <2>1, RegisterEffect DEF OrderInv
<1>6. CASE ScaleDown
  BY <1>6, ScaleDownEffect DEF OrderInv
<1>7. CASE SurplusRunnerRemoved
  <2>1. hpc = "remove" /\ UNCHANGED runnerState
    BY <1>7 DEF SurplusRunnerRemoved
  <2>2. Increasing(refs') /\ ToSet(refs') \subseteq ToSet(refs)
    BY <1>7, SurplusRemovedEffect
  <2> QED BY <1>0, <2>1, <2>2 DEF OrderInv, runnerState, Idle
<1>8. CASE CompletedRunnerRemoved \/ HandlerRemovalFails
  <2>1. hpc' # "remove" /\ refs' = <<>> /\ UNCHANGED runnerState
    BY <1>8 DEF CompletedRunnerRemoved, HandlerRemovalFails, ListenerReturnsError
  <2> QED BY <1>0, <1>e, <2>1 DEF OrderInv, runnerState
<1>9. CASE JoinWatches
  <2>1. idle' = <<>> /\ UNCHANGED <<hpc, refs>>
    BY <1>9 DEF JoinWatches, TakeAllIdle, handler
  <2>2. Idle' = {}
    BY <2>1 DEF Idle, ToSet
  <2> QED BY <1>0, <1>e, <2>1, <2>2 DEF OrderInv
<1>10. CASE Exit \/ JoinTimeout \/ Crash
  <2>1. hpc' # "remove" /\ idle' = <<>> /\ refs' = <<>>
    BY <1>10 DEF Exit, JoinTimeout, Crash, ProcessEnds, LoseRunnerState
  <2> QED BY <1>e, <2>1 DEF OrderInv
<1>11. ASSUME NEW r \in Runners,
              \/ ContainerExits(r) \/ ContainerVanishes(r) \/ StopManaged(r)
              \/ WaitReturns(r) \/ WatchReturns(r) \/ WaitFails(r)
              \/ WatchRemoved(r) \/ WatchRemovalFails(r) \/ RecoverRunner(r) \/ CleanupRef(r)
       PROVE  UNCHANGED <<idle, refs>> /\ (hpc' = "remove" => hpc = "remove")
  BY <1>11 DEF ContainerExits, ContainerVanishes, StopManaged, WaitReturns, WatchReturns,
               WaitFails, WatchRemoved, WatchRemovalFails, RecoverRunner, AddProtected,
               CleanupRef, runnerState, handler
<1>12. ASSUME \/ ReceiveMessage \/ ListenerFails \/ ListenerCancelled \/ NoJobEvent
              \/ \E jobs \in 0 .. MaxJobs : HandleDesiredRunnerCount(jobs)
              \/ CreateManaged \/ ProvisionFails \/ StartManaged \/ StartFails
              \/ CleanupAfterProvisionFailure \/ WatchRunner
       PROVE  UNCHANGED <<idle, refs>> /\ (hpc' = "remove" => hpc = "remove")
  BY <1>12 DEF ReceiveMessage, ListenerFails, ListenerReturnsError, ListenerCancelled,
               NoJobEvent, HandleDesiredRunnerCount, CreateManaged, ProvisionFails,
               StartManaged, StartFails, CleanupAfterProvisionFailure, WatchRunner, runnerState
<1>13. ASSUME \/ Launch \/ RecoverRunnerRemoved \/ StartupFails \/ StartupDone \/ Signal
              \/ FatalError \/ JoinListener \/ CleanupRefRemoved \/ CleanupRefFails
              \/ IdleCleaned \/ BusyCleaned \/ UNCHANGED vars
       PROVE  UNCHANGED <<idle, refs>> /\ (hpc' = "remove" => hpc = "remove")
  BY <1>13 DEF Launch, RecoverRunnerRemoved, StartupFails, StartupDone, Signal, FatalError,
               BeginStop, JoinListener, CleanupRefRemoved, CleanupRefFails, IdleCleaned,
               TakeAllBusy, BusyCleaned, vars, runnerState, handler
<1> QED
  BY <1>1, <1>2, <1>3, <1>4, <1>5, <1>6, <1>7, <1>8, <1>9, <1>10, <1>11, <1>12, <1>13
  DEF Next, Environment, WatchStep, HandlerStep, RecoverStep, ShutdownStep

-----------------------------------------------------------------------------
(* The theorems. *)

LEMMA IndInvInit == Init => IndInv
<1> SUFFICES ASSUME Init PROVE IndInv
  OBVIOUS
<1> USE RunnersAreNat DEF Init, NewRunnerState
<1>1. ToSet(<<>>) = {} /\ Increasing(<<>>)
  BY DEF ToSet, Increasing
<1>2. Idle = {} /\ Tracked = {}
  BY <1>1 DEF Idle, Tracked
<1>3. HandlerClaims = {} /\ WatchClaims = {} /\ MainClaims = {} /\ Claimed = {}
  BY <1>1 DEF Claimed, HandlerClaims, ProvisionClaim, WatchClaims, MainClaims
<1>4. TypeOK
  <2>1. 0 \in 0 .. NumRunners
    BY BoundsAssumption
  <2> QED BY <2>1, EmptySeq DEF TypeOK, Live, WatchStates, HandlerStates, Modes
<1>5. ModeInv
  BY <1>2 DEF ModeInv
<1>6. HandlerInv
  BY DEF HandlerInv
<1>7. FreshInv
  BY <1>2, <1>3 DEF FreshInv, Runners
<1>8. OrderInv
  BY <1>1 DEF OrderInv
<1>9. OneOwner /\ AdoptInv /\ NoSilentOrphan /\ TableIsWatched
  BY <1>2, <1>3 DEF OneOwner, AdoptInv, NoSilentOrphan, TableIsWatched
<1> QED BY <1>4, <1>5, <1>6, <1>7, <1>8, <1>9 DEF IndInv

LEMMA IndInvStep == IndInv /\ [Next]_vars => IndInv'
BY TypeStep, ModeStep, HandlerStepInv, FreshStep, OrderStep, OneOwnerStep, AdoptStep,
   NoSilentOrphanStep, TableIsWatchedStep DEF IndInv

(* Every behaviour of the controller keeps the inductive invariant.         *)
THEOREM IndInvHolds == Spec => []IndInv
BY IndInvInit, IndInvStep, PTL DEF Spec

(* Every variable keeps its type, whatever the bounds: no handler indexes   *)
(* an empty list of runners or works on a runner that does not exist.       *)
THEOREM TypeCorrect == Spec => []TypeOK
<1>1. IndInv => TypeOK
  BY DEF IndInv
<1> QED BY <1>1, IndInvHolds, PTL

(* However handlers, watches, recovery and shutdown interleave, a runner is *)
(* cleaned up by one goroutine at a time and has left the table by then.    *)
THEOREM OneOwnerAlways == Spec => []OneOwner
<1>1. IndInv => OneOwner
  BY DEF IndInv
<1> QED BY <1>1, IndInvHolds, PTL

(* While the process reports no error, no live container is forgotten.      *)
THEOREM NoOrphanInSilence == Spec => []NoSilentOrphan
<1>1. IndInv => NoSilentOrphan
  BY DEF IndInv
<1> QED BY <1>1, IndInvHolds, PTL

(* While the process reports no error and does not stop, every runner in    *)
(* the table has a watch that will notice the end of its container.         *)
THEOREM TableAlwaysWatched == Spec => []TableIsWatched
<1>1. IndInv => TableIsWatched
  BY DEF IndInv
<1> QED BY <1>1, IndInvHolds, PTL

LEMMA AdoptedKept == ASSUME IndInv PROVE AdoptedNotStopped
<1>1. SUFFICES ASSUME NEW r \in adopted \cap Removing PROVE container[r] # "running"
  BY DEF AdoptedNotStopped
<1>2. hpc \in {"complete", "remove"} => Head(refs) \in HandlerClaims
  <2>1. ASSUME hpc \in {"complete", "remove"} PROVE Head(refs) \in ToSet(refs)
    BY <2>1, RunnersAreNat, TailIncreasing DEF IndInv, TypeOK, HandlerInv, OrderInv
  <2> QED BY <2>1 DEF HandlerClaims
<1>3. hpc = "undo" => cur \in HandlerClaims
  BY DEF HandlerClaims, ProvisionClaim
<1>4. {rcur, scur} \ {NoRunner} \subseteq MainClaims
  BY DEF MainClaims
<1>5. r \notin HandlerClaims /\ r \notin MainClaims
  BY <1>1 DEF IndInv, AdoptInv
<1>6. watch[r] = "remove" /\ r \in Runners
  BY <1>1, <1>2, <1>3, <1>4, <1>5 DEF Removing
<1> QED BY <1>6 DEF IndInv, AdoptInv

(* No runner adopted by Recover is ever stopped while its container runs.   *)
THEOREM AdoptedNeverStopped == Spec => []AdoptedNotStopped
BY AdoptedKept, IndInvHolds, PTL

(* When Shutdown has ended without an error, what still lives was adopted,  *)
(* or busy under policy leave.                                              *)
THEOREM ExitIsClean == Spec => []CleanExit
<1>1. ASSUME IndInv PROVE CleanExit
  <2>1. SUFFICES ASSUME mode = "exit", raised = {}, NEW r \in Runners, container[r] \in Live
                 PROVE  r \in protected \/ (BusyPolicy = "leave" /\ r \in busy)
    BY DEF CleanExit
  <2>2. hpc = "off" /\ Idle = {} /\ (BusyPolicy = "leave" \/ busy = {}) /\ WatchClaims = {}
    BY <1>1, <2>1 DEF IndInv, ModeInv, WatchClaims
  <2>3. Claimed = {}
    BY <1>1, <2>1, <2>2, NoHandlerClaims, NoMainClaims DEF Claimed
  <2>4. r \in Tracked
    BY <1>1, <2>1, <2>3 DEF IndInv, NoSilentOrphan
  <2> QED BY <2>2, <2>4 DEF Tracked
<1> QED BY <1>1, IndInvHolds, PTL

LEMMA ConcatIncreasing ==
  ASSUME NEW S \in SUBSET Nat, NEW s \in Seq(S), NEW t \in Seq(S),
         Increasing(s), Increasing(t),
         \A x \in ToSet(s), y \in ToSet(t) : x < y
  PROVE  Increasing(s \o t) /\ DOMAIN (s \o t) = 1 .. Len(s \o t)
<1>1. /\ s \o t \in Seq(S) /\ Len(s \o t) = Len(s) + Len(t)
      /\ \A k \in 1 .. Len(s) : (s \o t)[k] = s[k]
      /\ \A k \in (Len(s) + 1) .. (Len(s) + Len(t)) : (s \o t)[k] = t[k - Len(s)]
  BY ConcatProperties
<1>2. /\ Len(s) \in Nat /\ \A k \in 1 .. Len(s) : s[k] \in Nat /\ s[k] \in ToSet(s)
      /\ Len(t) \in Nat /\ \A k \in 1 .. Len(t) : t[k] \in Nat /\ t[k] \in ToSet(t)
  BY ToSetElements
<1>3. SUFFICES ASSUME NEW i \in 1 .. (Len(s) + Len(t)), NEW j \in 1 .. (Len(s) + Len(t)), i < j
               PROVE  (s \o t)[i] < (s \o t)[j]
  BY <1>1, LenProperties DEF Increasing
<1>4. CASE j \in 1 .. Len(s)
  <2>1. i \in 1 .. Len(s)
    BY <1>2, <1>3, <1>4
  <2> QED BY <1>1, <1>3, <1>4, <2>1 DEF Increasing
<1>5. CASE i \in (Len(s) + 1) .. (Len(s) + Len(t))
  <2>1. /\ j \in (Len(s) + 1) .. (Len(s) + Len(t))
        /\ i - Len(s) \in 1 .. Len(t) /\ j - Len(s) \in 1 .. Len(t) /\ i - Len(s) < j - Len(s)
    BY <1>2, <1>3, <1>5
  <2>2. t[i - Len(s)] < t[j - Len(s)]
    BY <2>1 DEF Increasing
  <2> QED BY <1>1, <1>5, <2>1, <2>2
<1>6. CASE i \in 1 .. Len(s) /\ j \in (Len(s) + 1) .. (Len(s) + Len(t))
  <2>1. j - Len(s) \in 1 .. Len(t)
    BY <1>2, <1>6
  <2>2. s[i] < t[j - Len(s)]
    BY <1>2, <1>6, <2>1
  <2> QED BY <1>1, <1>6, <2>2
<1> QED BY <1>2, <1>3, <1>4, <1>5, <1>6

LEMMA QueueOrdered == ASSUME IndInv PROVE OldestFirst
<1> DEFINE first == IF hpc = "remove" THEN refs ELSE <<>>
<1>1. ToSet(<<>>) = {} /\ Increasing(<<>>) /\ <<>> \in Seq(Runners)
  BY DEF ToSet, Increasing
<1>2. /\ first \in Seq(Runners) /\ Increasing(first)
      /\ idle \in Seq(Runners) /\ Increasing(idle)
      /\ \A x \in ToSet(first), y \in ToSet(idle) : x < y
  BY <1>1 DEF IndInv, TypeOK, OrderInv, Idle
<1> HIDE DEF first
<1>3. Increasing(first \o idle) /\ DOMAIN (first \o idle) = 1 .. Len(first \o idle)
  BY <1>2, RunnersAreNat, ConcatIncreasing
<1> QED BY <1>3 DEF OldestFirst, first, Increasing

(* Scale-down removes the oldest runners first, although job events and     *)
(* watches take runners out of the middle meanwhile.                        *)
THEOREM AlwaysOldestFirst == Spec => []OldestFirst
BY QueueOrdered, IndInvHolds, PTL

(* Neither scale-down nor Shutdown under policy leave gives up a busy       *)
(* runner whose container runs.                                             *)
THEOREM BusyAlwaysKept == Spec => BusyKept
<1> DEFINE Given(r) ==
      \/ container[r] # "running"
      \/ hpc' = "complete" /\ refs' = <<r>>
      \/ mode' = "cleanBusy" /\ BusyPolicy = "stop"
      \/ mode' = "down"
<1>1. ASSUME IndInv, [Next]_vars PROVE \A r \in busy \ busy' : Given(r)
  <2>1. SUFFICES ASSUME NEW q \in busy, q \notin busy' PROVE Given(q)
    OBVIOUS
  <2>2. ~Quiet /\ ~Drops
    BY <2>1 DEF Quiet, Drops, runnerState
  <2>3. ~CreateManaged /\ ~ProvisionFails /\ ~RegisterRunner /\ ~ScaleDown /\ ~JoinWatches
    BY <1>1, <2>1, CreateMove, ProvisionFailsMove, RegisterEffect, ScaleDownEffect,
       JoinWatchesMove DEF runnerState
  <2>4. CASE IdleCleaned
    BY <2>1, <2>4 DEF IdleCleaned, runnerState
  <2>5. ~Launch
    BY <2>1 DEF Launch, runnerState
  <2>6. CASE Exit \/ JoinTimeout \/ Crash
    BY <1>1, <2>6, EndMove
  <2>7. ASSUME NEW r \in Runners, HandleJobStarted(r)
        PROVE  FALSE
    BY <1>1, <2>1, <2>7, JobStartedEffect
  <2>8. ASSUME NEW r \in Runners, HandleJobCompleted(r)
        PROVE  Given(q)
    <3>1. q = r
      BY <1>1, <2>1, <2>8, JobCompletedEffect
    <3> QED BY <2>1, <2>8, <3>1 DEF HandleJobCompleted, Owns
  <2>9. ASSUME NEW r \in Runners, ReleaseWatchOwnership(r)
        PROVE  Given(q)
    <3>1. q = r
      BY <1>1, <2>1, <2>9, ReleaseEffect
    <3>2. container[r] # "running"
      BY <1>1, <2>9 DEF ReleaseWatchOwnership, IndInv, AdoptInv
    <3> QED BY <3>1, <3>2
  <2>10. ASSUME NEW r \in Runners, RecoverRunner(r)
         PROVE  FALSE
    BY <1>1, <2>1, <2>10, RecoverMove
  <2> QED
    BY <1>1, <2>2, <2>3, <2>4, <2>5, <2>6, <2>7, <2>8, <2>9, <2>10, StepKinds
<1> QED BY <1>1, IndInvHolds, PTL DEF Spec, BusyKept

-----------------------------------------------------------------------------
(* CapacityRespected, for every number of runners and all bounds.  The     *)
(* argument counts: by OneOwner and OrderInv the count of the table is the *)
(* number of different runners in it, so a step that only takes runners    *)
(* away lowers it, and only RegisterRunner and RecoverRunner add any.      *)

(* The phases of the provisioning loop. *)
Loop == {"create", "start", "undo", "register", "watch"}

(* Runners the loop has still to put into the table. *)
Pending == IF hpc = "watch" THEN left - 1 ELSE left

Capacity == Count <= MaxRunners \/ Count <= Cardinality(adopted)

(* The loop keeps within the bound by itself: what Recover adopted excuses  *)
(* a full table, but no further runner.                                     *)
CapacityInv ==
  /\ hpc \notin Loop => left = 0
  /\ hpc \in Loop => Count + Pending <= MaxRunners
  /\ mode = "recover" => Idle = {} /\ busy = {}
  /\ Capacity

-----------------------------------------------------------------------------
(* The idle queue holds no runner twice. *)
LEMMA LenIsCardinality ==
  ASSUME NEW s \in Seq(Runners), Increasing(s)
  PROVE  IsFiniteSet(ToSet(s)) /\ Cardinality(ToSet(s)) = Len(s)
<1>1. /\ Len(s) \in Nat /\ DOMAIN s = 1 .. Len(s)
      /\ \A k \in 1 .. Len(s) : s[k] \in Nat /\ s[k] \in ToSet(s)
      /\ \A x \in ToSet(s) : \E k \in 1 .. Len(s) : x = s[k]
  BY ToSetElements, RunnersAreNat
<1>2. s \in [1 .. Len(s) -> ToSet(s)]
  BY <1>1
<1>3. \A i, j \in 1 .. Len(s) : s[i] = s[j] => i = j
  BY <1>1 DEF Increasing
<1>4. s \in Bijection(1 .. Len(s), ToSet(s))
  BY <1>1, <1>2, <1>3 DEF Bijection, Injection, Surjection, IsInjective
<1>5. ExistsBijection(1 .. Len(s), ToSet(s))
  BY <1>4 DEF ExistsBijection
<1>6. IsFiniteSet(1 .. Len(s)) /\ Cardinality(1 .. Len(s)) = Len(s)
  BY <1>1, FS_Interval
<1> QED BY <1>5, <1>6, FS_Bijection

LEMMA DisjointUnion ==
  ASSUME NEW S, NEW T, IsFiniteSet(S), IsFiniteSet(T), S \cap T = {}
  PROVE  IsFiniteSet(S \cup T) /\ Cardinality(S \cup T) = Cardinality(S) + Cardinality(T)
<1>1. /\ IsFiniteSet(S \cup T)
      /\ Cardinality(S \cup T) = Cardinality(S) + Cardinality(T) - Cardinality({})
  BY FS_Union
<1>2. Cardinality({}) = 0 /\ Cardinality(S) \in Nat /\ Cardinality(T) \in Nat
  BY FS_EmptySet, FS_CardinalityType
<1> QED BY <1>1, <1>2

(* The count is the number of different runners in the table.               *)
CountIsNumber ==
  IndInv => IsFiniteSet(Tracked) /\ Count = Cardinality(Tracked) /\ Count \in Nat

LEMMA CountIsCardinality == CountIsNumber
<1> SUFFICES ASSUME IndInv
             PROVE  IsFiniteSet(Tracked) /\ Count = Cardinality(Tracked) /\ Count \in Nat
  BY DEF CountIsNumber
<1>1. IsFiniteSet(Idle) /\ Cardinality(Idle) = Len(idle)
  BY LenIsCardinality DEF IndInv, TypeOK, OrderInv, Idle
<1>2. IsFiniteSet(busy) /\ IsFiniteSet(protected)
  <2>1. IsFiniteSet(Runners)
    BY BoundsAssumption, FS_Interval DEF Runners
  <2> QED BY <2>1, FS_Subset DEF IndInv, TypeOK
<1>3. /\ Cardinality(Idle) \in Nat /\ Cardinality(busy) \in Nat
      /\ Cardinality(protected) \in Nat
  BY <1>1, <1>2, FS_CardinalityType
<1>4. Idle \cap busy = {} /\ (Idle \cup busy) \cap protected = {}
  BY DEF IndInv, OneOwner
<1>5. /\ IsFiniteSet(Idle \cup busy)
      /\ Cardinality(Idle \cup busy) = Cardinality(Idle) + Cardinality(busy)
  BY <1>1, <1>2, <1>3, <1>4, DisjointUnion
<1>6. /\ IsFiniteSet(Tracked)
      /\ Cardinality(Tracked) = Cardinality(Idle \cup busy) + Cardinality(protected)
  BY <1>2, <1>3, <1>4, <1>5, DisjointUnion DEF Tracked
<1> QED BY <1>1, <1>3, <1>5, <1>6 DEF Count

LEMMA CountIsCardinalityNext == CountIsNumber'
BY CountIsCardinality, PTL

(* A step that takes no runner into the table does not raise the count.     *)
LEMMA CountFalls ==
  ASSUME IndInv, IndInv', Tracked' \subseteq Tracked
  PROVE  Count' <= Count
BY CountIsCardinality, CountIsCardinalityNext, FS_Subset DEF CountIsNumber

(* A step that takes one runner in raises it by one at most.                *)
LEMMA CountRisesByOne ==
  ASSUME IndInv, IndInv', NEW r, Tracked' \subseteq Tracked \cup {r}
  PROVE  Count' <= Count + 1
<1>1. /\ IsFiniteSet(Tracked \cup {r})
      /\ Cardinality(Tracked \cup {r}) \in {Cardinality(Tracked), Cardinality(Tracked) + 1}
  BY CountIsCardinality, FS_AddElement DEF CountIsNumber
<1>2. Cardinality(Tracked') <= Cardinality(Tracked \cup {r})
  BY <1>1, FS_Subset
<1> QED BY <1>1, <1>2, CountIsCardinality, CountIsCardinalityNext DEF CountIsNumber

(* The adopted runners are finitely many as well. *)
LEMMA AdoptedFinite == IndInv => IsFiniteSet(adopted) /\ Cardinality(adopted) \in Nat
<1> SUFFICES ASSUME IndInv PROVE IsFiniteSet(adopted) /\ Cardinality(adopted) \in Nat
  OBVIOUS
<1>1. IsFiniteSet(Runners)
  BY BoundsAssumption, FS_Interval DEF Runners
<1>2. adopted \in SUBSET Runners
  BY DEF IndInv, TypeOK
<1> QED BY <1>1, <1>2, FS_Subset, FS_CardinalityType

-----------------------------------------------------------------------------
(* What a step does to the table, as a set. *)
LEMMA TableSteps ==
  ASSUME IndInv, [Next]_vars
  PROVE  \/ Tracked' \subseteq Tracked /\ adopted' = adopted
         \/ RegisterRunner /\ Tracked' \subseteq Tracked \cup {cur} /\ adopted' = adopted
         \/ \E r \in Runners : RecoverRunner(r)
         \/ Launch /\ Tracked' = {}
         \/ (Exit \/ JoinTimeout \/ Crash) /\ Tracked' = {}
<1>1. CASE Quiet \/ Drops
  BY <1>1 DEF Quiet, Drops, runnerState, Tracked, Idle
<1>2. CASE CreateManaged \/ ProvisionFails
  BY <1>2, CreateMove, ProvisionFailsMove DEF runnerState, Tracked, Idle
<1>3. CASE RegisterRunner
  BY <1>3, RegisterEffect, RegisterMove DEF Tracked
<1>4. CASE ScaleDown
  BY <1>4, ScaleDownEffect, ScaleDownMove DEF Tracked
<1>5. CASE JoinWatches \/ IdleCleaned
  BY <1>5, JoinWatchesMove, IdleCleanedMove DEF Tracked
<1>6. CASE Launch
  BY <1>6, LaunchMove
<1>7. CASE Exit \/ JoinTimeout \/ Crash
  BY <1>7, EndMove DEF Tracked
<1>8. ASSUME NEW r \in Runners, HandleJobStarted(r)
      PROVE  Tracked' \subseteq Tracked /\ adopted' = adopted
  BY <1>8, JobStartedEffect, JobStartedMove DEF Tracked
<1>9. ASSUME NEW r \in Runners, HandleJobCompleted(r)
      PROVE  Tracked' \subseteq Tracked /\ adopted' = adopted
  BY <1>9, JobCompletedEffect, JobCompletedMove DEF Tracked
<1>10. ASSUME NEW r \in Runners, ReleaseWatchOwnership(r)
       PROVE  Tracked' \subseteq Tracked /\ adopted' = adopted
  BY <1>10, ReleaseEffect, ReleaseMove DEF Tracked
<1> QED BY <1>1, <1>2, <1>3, <1>4, <1>5, <1>6, <1>7, <1>8, <1>9, <1>10, StepKinds

(* The demand never passes maxRunners. *)
LEMMA DemandBounded ==
  ASSUME NEW jobs \in 0 .. MaxJobs
  PROVE  DesiredRunnerCount(jobs) \in Nat /\ DesiredRunnerCount(jobs) <= MaxRunners
BY BoundsAssumption DEF DesiredRunnerCount

(* What a step does to the loop. *)
Inside   == hpc \in Loop /\ hpc' \in Loop /\ hpc # "watch" /\ hpc' # "watch" /\ left' = left
Outside  == hpc' \notin Loop /\ left' = 0
Enters   == hpc' = "create" /\ Count + left' <= MaxRunners /\ UNCHANGED runnerState
Finishes == hpc = "watch" /\ hpc' = "create" /\ left' = left - 1

LEMMA LoopSteps ==
  ASSUME IndInv, CapacityInv, [Next]_vars
  PROVE  UNCHANGED <<hpc, left>> \/ Inside \/ Outside \/ Enters \/ Finishes \/ RegisterRunner
<1> USE DEF Loop, Inside, Outside, Enters, Finishes
<1>1. ASSUME NEW r \in Runners, StopManaged(r) \/ WatchStep(r) \/ WaitFails(r) \/ RecoverRunner(r)
      PROVE  UNCHANGED <<hpc, left>>
  BY <1>1 DEF StopManaged, WatchStep, WaitReturns, WatchReturns, ReleaseWatchOwnership,
              WatchRemoved, WatchRemovalFails, WaitFails, RecoverRunner, handler
<1>2. CASE Environment
  BY <1>2 DEF Environment, ContainerExits, ContainerVanishes, handler
<1>3. CASE ReceiveMessage \/ ListenerFails \/ ListenerCancelled \/ NoJobEvent
  BY <1>3 DEF ReceiveMessage, ListenerFails, ListenerCancelled, NoJobEvent,
              ListenerReturnsError, CapacityInv
<1>4. ASSUME NEW r \in Runners, HandleJobStarted(r) \/ HandleJobCompleted(r)
      PROVE  Outside
  BY <1>4 DEF HandleJobStarted, HandleJobCompleted, CapacityInv
<1>5. CASE CompletedRunnerRemoved \/ HandlerRemovalFails \/ ScaleDown \/ SurplusRunnerRemoved
  BY <1>5 DEF CompletedRunnerRemoved, HandlerRemovalFails, ScaleDown, SurplusRunnerRemoved,
              ListenerReturnsError, CapacityInv
<1>6. ASSUME NEW jobs \in 0 .. MaxJobs, HandleDesiredRunnerCount(jobs)
      PROVE  Outside \/ Enters
  <2>1. Count \in Nat /\ MaxRunners \in Nat
    BY CountIsCardinality, BoundsAssumption DEF CountIsNumber
  <2>2. DesiredRunnerCount(jobs) \in Nat /\ DesiredRunnerCount(jobs) <= MaxRunners
    BY DemandBounded
  <2> QED BY <1>6, <2>1, <2>2 DEF HandleDesiredRunnerCount, CapacityInv
<1>7. CASE CreateManaged \/ StartManaged \/ StartFails
  BY <1>7 DEF CreateManaged, StartManaged, StartFails
<1>8. CASE ProvisionFails \/ CleanupAfterProvisionFailure
  BY <1>8 DEF ProvisionFails, CleanupAfterProvisionFailure, ListenerReturnsError
<1>9. CASE WatchRunner
  BY <1>9 DEF WatchRunner, IndInv, TypeOK, HandlerInv
<1>10. CASE \/ Launch \/ RecoverRunnerRemoved \/ StartupFails \/ Signal \/ FatalError
            \/ UNCHANGED vars
  BY <1>10 DEF Launch, RecoverRunnerRemoved, StartupFails, Signal, FatalError, BeginStop,
               vars, handler
<1>11. CASE StartupDone
  BY <1>11 DEF StartupDone, IndInv, ModeInv, CapacityInv
<1>12. CASE ShutdownStep \/ JoinTimeout \/ Crash
  BY <1>12 DEF ShutdownStep, JoinListener, JoinWatches, CleanupRef, CleanupRefRemoved,
               CleanupRefFails, IdleCleaned, BusyCleaned, Exit, JoinTimeout, Crash,
               ProcessEnds, handler
<1> QED BY <1>1, <1>2, <1>3, <1>4, <1>5, <1>6, <1>7, <1>8, <1>9, <1>10, <1>11, <1>12
        DEF Next, HandlerStep, RecoverStep

(* Recover runs alone: the table holds what it has adopted, nothing else.   *)
LEMMA RecoverAlone ==
  ASSUME IndInv, CapacityInv, [Next]_vars, mode' = "recover"
  PROVE  Idle' = {} /\ busy' = {}
<1>1. CASE mode # "recover"
  <2>1. Launch
    BY <1>1, ModeSteps
  <2> QED BY <2>1, LaunchMove
<1>2. CASE mode = "recover"
  <2>1. Idle = {} /\ busy = {} /\ hpc = "off"
    BY <1>2 DEF CapacityInv, IndInv, ModeInv
  <2>2. CASE Quiet \/ Drops
    BY <2>1, <2>2 DEF Quiet, Drops, runnerState, Idle
  <2>3. CASE Launch \/ JoinWatches \/ IdleCleaned \/ Exit \/ JoinTimeout \/ Crash
    BY <1>2, <2>1, <2>3, LaunchMove, JoinWatchesMove, IdleCleanedMove, EndMove
  <2>4. ASSUME NEW r \in Runners, ReleaseWatchOwnership(r)
        PROVE  Idle' = {} /\ busy' = {}
    BY <2>1, <2>4, ReleaseEffect
  <2>5. ASSUME NEW r \in Runners, RecoverRunner(r)
        PROVE  Idle' = {} /\ busy' = {}
    BY <2>1, <2>5, RecoverMove DEF Idle
  <2>6. /\ ~CreateManaged /\ ~ProvisionFails /\ ~RegisterRunner /\ ~ScaleDown
        /\ \A r \in Runners : ~HandleJobStarted(r) /\ ~HandleJobCompleted(r)
    BY <2>1 DEF CreateManaged, ProvisionFails, RegisterRunner, ScaleDown, HandleJobStarted,
                HandleJobCompleted
  <2> QED BY <2>2, <2>3, <2>4, <2>5, <2>6, StepKinds
<1> QED BY <1>1, <1>2

-----------------------------------------------------------------------------
LEMMA CapacityInit == Init => CapacityInv
<1> SUFFICES ASSUME Init PROVE CapacityInv
  OBVIOUS
<1>1. IndInv
  BY IndInvInit
<1>2. Tracked = {} /\ hpc = "off" /\ left = 0 /\ mode = "down"
  BY DEF Init, NewRunnerState, Tracked, Idle, ToSet
<1>3. Count = 0
  BY <1>1, <1>2, CountIsCardinality, FS_EmptySet DEF CountIsNumber
<1> QED BY <1>2, <1>3, BoundsAssumption DEF CapacityInv, Capacity, Loop

(* Outside the loop no step takes a runner in, but Recover, whose own       *)
(* runners the bound excepts.                                               *)
LEMMA CapacityKept ==
  ASSUME IndInv, IndInv', CapacityInv, [Next]_vars
  PROVE  Capacity'
<1>1. /\ Count \in Nat /\ Count' \in Nat /\ MaxRunners \in Nat
      /\ Count' = Cardinality(Tracked')
      /\ Cardinality(adopted) \in Nat
  BY CountIsCardinality, CountIsCardinalityNext, AdoptedFinite, BoundsAssumption
  DEF CountIsNumber
<1>2. CASE Tracked' \subseteq Tracked /\ adopted' = adopted
  BY <1>1, <1>2, CountFalls DEF Capacity, CapacityInv
<1>3. CASE RegisterRunner /\ Tracked' \subseteq Tracked \cup {cur} /\ adopted' = adopted
  <2>1. hpc = "register" /\ left > 0 /\ left \in Nat
    BY <1>3 DEF RegisterRunner, IndInv, TypeOK, HandlerInv
  <2>2. Count + left <= MaxRunners
    BY <2>1 DEF CapacityInv, Loop, Pending
  <2>3. Count' <= Count + 1
    BY <1>3, CountRisesByOne
  <2> QED BY <1>1, <2>1, <2>2, <2>3 DEF Capacity
<1>4. ASSUME NEW r \in Runners, RecoverRunner(r)
      PROVE  Capacity'
  <2>1. mode' = "recover"
    BY <1>4 DEF RecoverRunner
  <2>2. Idle' = {} /\ busy' = {}
    BY <2>1, RecoverAlone
  <2>3. Tracked' \subseteq adopted'
    BY <2>2 DEF IndInv, AdoptInv, Tracked
  <2>4. IsFiniteSet(adopted')
    <3>1. IsFiniteSet(Runners)
      BY BoundsAssumption, FS_Interval DEF Runners
    <3>2. adopted' \in SUBSET Runners
      BY DEF IndInv, TypeOK
    <3> QED BY <3>1, <3>2, FS_Subset
  <2>5. Cardinality(Tracked') <= Cardinality(adopted')
    BY <2>3, <2>4, FS_Subset
  <2> QED BY <1>1, <2>5 DEF Capacity
<1>5. CASE Tracked' = {}
  <2>1. Count' = 0
    BY <1>1, <1>5, FS_EmptySet
  <2> QED BY <1>1, <2>1 DEF Capacity
<1> QED BY <1>2, <1>3, <1>4, <1>5, TableSteps

(* Arithmetic, for numbers the prover sees only by name.                    *)
LEMMA OneMoreOneLess ==
  ASSUME NEW c \in Int, NEW d \in Int, NEW p \in Int, NEW q \in Int, NEW m \in Int,
         c + p <= m, d <= c + 1, q <= p - 1
  PROVE  d + q <= m
OBVIOUS

LEMMA NoMoreOnEither ==
  ASSUME NEW c \in Int, NEW d \in Int, NEW p \in Int, NEW q \in Int, NEW m \in Int,
         c + p <= m, d <= c, q <= p
  PROVE  d + q <= m
OBVIOUS

LEMMA CapacityStep == IndInv /\ IndInv' /\ CapacityInv /\ [Next]_vars => CapacityInv'
<1> SUFFICES ASSUME IndInv, IndInv', CapacityInv, [Next]_vars PROVE CapacityInv'
  OBVIOUS
<1>1. /\ Count \in Nat /\ Count' \in Nat /\ MaxRunners \in Nat
      /\ left \in Nat /\ left' \in Nat
  BY CountIsCardinality, CountIsCardinalityNext, BoundsAssumption
  DEF CountIsNumber, IndInv, TypeOK
<1>2. Capacity' /\ (mode' = "recover" => Idle' = {} /\ busy' = {})
  BY CapacityKept, RecoverAlone
<1>3. /\ hpc' \notin Loop => left' = 0
      /\ hpc' \in Loop => Count' + Pending' <= MaxRunners
  <2>1. CASE RegisterRunner
    <3>1. Count' <= Count + 1
      BY <2>1, RegisterEffect, CountRisesByOne DEF Tracked
    <3>2. hpc = "register" /\ hpc' = "watch" /\ left' = left
      BY <2>1 DEF RegisterRunner
    <3>3. Pending = left /\ Pending' = left - 1
      BY <3>2 DEF Pending
    <3>4. Count + left <= MaxRunners
      BY <3>2, <3>3 DEF CapacityInv, Loop
    <3>5. Pending' \in Int /\ Pending' <= left - 1
      BY <1>1, <3>3
    <3>6. Count \in Int /\ Count' \in Int /\ left \in Int /\ MaxRunners \in Int
      BY <1>1
    <3>7. Count' + Pending' <= MaxRunners
      BY <3>1, <3>4, <3>5, <3>6, OneMoreOneLess, Zenon
    <3> QED BY <3>2, <3>7 DEF Loop
  <2>2. CASE Outside
    BY <2>2 DEF Outside
  <2>3. ASSUME ~RegisterRunner, hpc \in Loop, hpc' \in Loop
        PROVE  Count' <= Count
    <3>1. Tracked' \subseteq Tracked
      <4>1. mode \in {"serve", "stop"}
        BY <2>3 DEF Loop, IndInv, ModeInv
      <4>2. Tracked' = {} => Tracked' \subseteq Tracked
        OBVIOUS
      <4> QED BY <2>3, <4>1, <4>2, TableSteps DEF RecoverRunner
    <3> QED BY <3>1, CountFalls
  <2>4. CASE ~RegisterRunner /\ (Inside \/ Finishes \/ (UNCHANGED <<hpc, left>> /\ hpc \in Loop))
    <3>1. hpc \in Loop /\ hpc' \in Loop
      BY <2>4 DEF Inside, Finishes, Loop
    <3>2. Count' <= Count /\ Count + Pending <= MaxRunners
      BY <2>3, <2>4, <3>1 DEF CapacityInv
    <3>3. Pending \in Int
      BY <1>1 DEF Pending
    <3>4. Pending' = Pending
      BY <1>1, <2>4 DEF Inside, Finishes, Pending
    <3>5. Pending' \in Int /\ Pending' <= Pending
      BY <3>3, <3>4
    <3>6. Count \in Int /\ Count' \in Int /\ MaxRunners \in Int
      BY <1>1
    <3>7. Count' + Pending' <= MaxRunners
      BY <3>2, <3>3, <3>5, <3>6, NoMoreOnEither, Zenon
    <3> QED BY <3>1, <3>7
  <2>5. CASE Enters
    <3>1. Count' = Count
      BY <2>5 DEF Enters, runnerState, Count
    <3> QED BY <1>1, <2>5, <3>1 DEF Enters, Loop, Pending
  <2>6. CASE UNCHANGED <<hpc, left>> /\ hpc \notin Loop
    BY <2>6 DEF CapacityInv
  <2> QED BY <2>1, <2>2, <2>4, <2>5, <2>6, LoopSteps
<1> QED BY <1>2, <1>3 DEF CapacityInv

LEMMA CapacityFollows == ASSUME IndInv, CapacityInv PROVE CapacityRespected
<1>1. Count \in Nat /\ left \in Nat
  BY CountIsCardinality DEF CountIsNumber, IndInv, TypeOK
<1> QED BY <1>1 DEF CapacityInv, Capacity, CapacityRespected, Loop, Pending

(* Provisioning never takes the table above maxRunners (scaler.go:116-132), *)
(* whatever watches, job events and earlier processes do meanwhile.         *)
THEOREM CapacityAlwaysRespected == Spec => []CapacityRespected
BY CapacityInit, CapacityStep, CapacityFollows, IndInvHolds, PTL DEF Spec

-----------------------------------------------------------------------------
(* The order of the calls, which App is shown to keep (LifecycleKept), is  *)
(* also the one that the scaler has been checked and proved under.         *)

CallPhase == IF mode \in {"join", "clean", "cleanBusy", "exit"} THEN "shutdown" ELSE mode

Calls == INSTANCE Lifecycle WITH phase <- CallPhase, listening <- hpc # "off"

MainMoves ==
  \/ Launch \/ StartupFails \/ StartupDone \/ Signal \/ FatalError \/ JoinListener
  \/ JoinWatches \/ IdleCleaned \/ BusyCleaned \/ Exit \/ JoinTimeout \/ Crash

(* All other steps leave the phase alone, and none begins a listener.       *)
LEMMA OtherMoves ==
  ASSUME [Next]_vars, ~MainMoves
  PROVE  mode' = mode /\ (hpc' # "off" => hpc # "off")
<1>1. ASSUME NEW r \in Runners,
             \/ ContainerExits(r) \/ ContainerVanishes(r) \/ StopManaged(r)
             \/ WatchStep(r) \/ WaitFails(r) \/ RecoverRunner(r) \/ CleanupRef(r)
             \/ HandleJobStarted(r) \/ HandleJobCompleted(r)
      PROVE  mode' = mode /\ (hpc' # "off" => hpc # "off")
  BY <1>1 DEF ContainerExits, ContainerVanishes, StopManaged, WatchStep, WaitReturns,
              WatchReturns, ReleaseWatchOwnership, WatchRemoved, WatchRemovalFails, WaitFails,
              RecoverRunner, CleanupRef, HandleJobStarted, HandleJobCompleted, handler, phase
<1>2. ASSUME \/ ReceiveMessage \/ ListenerFails \/ ListenerCancelled \/ NoJobEvent
             \/ \E jobs \in 0 .. MaxJobs : HandleDesiredRunnerCount(jobs)
             \/ CompletedRunnerRemoved \/ HandlerRemovalFails
             \/ CreateManaged \/ ProvisionFails \/ StartManaged \/ StartFails
             \/ CleanupAfterProvisionFailure \/ RegisterRunner \/ WatchRunner
             \/ ScaleDown \/ SurplusRunnerRemoved
      PROVE  mode' = mode /\ (hpc' # "off" => hpc # "off")
  BY <1>2 DEF ReceiveMessage, ListenerFails, ListenerCancelled, NoJobEvent,
              HandleDesiredRunnerCount, CompletedRunnerRemoved, HandlerRemovalFails,
              CreateManaged, ProvisionFails, StartManaged, StartFails,
              CleanupAfterProvisionFailure, RegisterRunner, WatchRunner, ScaleDown,
              SurplusRunnerRemoved, ListenerReturnsError, phase
<1>3. ASSUME \/ RecoverRunnerRemoved \/ CleanupRefRemoved \/ CleanupRefFails
             \/ UNCHANGED vars
      PROVE  mode' = mode /\ (hpc' # "off" => hpc # "off")
  BY <1>3 DEF RecoverRunnerRemoved, CleanupRefRemoved, CleanupRefFails, handler, phase, vars
<1> QED
  BY <1>1, <1>2, <1>3
  DEF MainMoves, Next, Environment, HandlerStep, RecoverStep, ShutdownStep

(* The steps of the main goroutine are those of Lifecycle, or within one.   *)
LEMMA MainMovesInOrder ==
  ASSUME MainMoves
  PROVE  Calls!Next \/ (UNCHANGED CallPhase /\ UNCHANGED hpc)
<1>1. ASSUME Launch PROVE Calls!Launch
  BY <1>1 DEF Launch, handler, Calls!Launch, CallPhase
<1>2. ASSUME StartupFails PROVE Calls!StartupFails
  BY <1>2 DEF StartupFails, handler, Calls!StartupFails, CallPhase
<1>3. ASSUME StartupDone PROVE Calls!StartupDone
  BY <1>3 DEF StartupDone, Calls!StartupDone, CallPhase
<1>4. ASSUME Signal \/ FatalError PROVE Calls!BeginStop
  BY <1>4 DEF Signal, FatalError, BeginStop, handler, Calls!BeginStop, CallPhase
<1>5. ASSUME JoinListener PROVE Calls!Shutdown
  BY <1>5 DEF JoinListener, handler, Calls!Shutdown, CallPhase
<1>6. ASSUME JoinWatches \/ IdleCleaned \/ BusyCleaned
      PROVE  UNCHANGED CallPhase /\ UNCHANGED hpc
  BY <1>6 DEF JoinWatches, IdleCleaned, BusyCleaned, handler, CallPhase
<1>7. ASSUME Exit \/ JoinTimeout \/ Crash PROVE Calls!ProcessEnds
  BY <1>7 DEF Exit, JoinTimeout, Crash, ProcessEnds, Calls!ProcessEnds, CallPhase
<1> QED BY <1>1, <1>2, <1>3, <1>4, <1>5, <1>6, <1>7 DEF MainMoves, Calls!Next

(* The scaler is used as Serve uses it: Recover alone, then the handlers,   *)
(* and Shutdown only once no handler runs (serve.go:83-182).                *)
THEOREM CallsInOrder == Spec => Calls!Spec
<1>1. Init => Calls!Init
  BY DEF Init, Calls!Init, CallPhase
<1>2. [Next]_vars => [Calls!Next]_Calls!vars
  <2> SUFFICES ASSUME [Next]_vars PROVE [Calls!Next]_Calls!vars
    OBVIOUS
  <2>1. CASE MainMoves
    BY <2>1, MainMovesInOrder DEF Calls!vars
  <2>2. CASE ~MainMoves
    <3>1. UNCHANGED CallPhase /\ (hpc' # "off" => hpc # "off")
      BY <2>2, OtherMoves DEF CallPhase
    <3>2. CASE hpc # "off" /\ hpc' = "off"
      BY <3>1, <3>2 DEF Calls!Next, Calls!ListenerReturns
    <3>3. CASE (hpc # "off") = (hpc' # "off")
      BY <3>1, <3>3 DEF Calls!vars
    <3> QED BY <3>1, <3>2, <3>3
  <2> QED BY <2>1, <2>2
<1> QED BY <1>1, <1>2, PTL DEF Spec, Calls!Spec
-----------------------------------------------------------------------------
(* Ownership of runners: DockerScaler implements Ownership.                 *)
(* The runners that Recover and Shutdown are removing or about to remove.   *)
Main == srefs \cup ({rcur, scur} \ {NoRunner})

Names == {"idle", "busy", "protected", "maker", "handler", "watch", "list", "main"}

HoldersAre(q) ==
  /\ HoldersOf(q) \subseteq Names
  /\ "idle" \in HoldersOf(q) <=> q \in Idle
  /\ "busy" \in HoldersOf(q) <=> q \in busy
  /\ "protected" \in HoldersOf(q) <=> q \in protected
  /\ "maker" \in HoldersOf(q) <=> q \in ProvisionClaim
  /\ "handler" \in HoldersOf(q) <=> q \in ToSet(refs)
  /\ "watch" \in HoldersOf(q) <=> q \in WatchClaims
  /\ "list" \in HoldersOf(q) <=> q \in listed
  /\ "main" \in HoldersOf(q) <=> q \in Main

LEMMA HoldersMean == \A q : HoldersAre(q)
<1> TAKE q
<1>1. DOMAIN Holdings = Names
  BY DEF Holdings, Names
<1>2. /\ Holdings["idle"] = Idle /\ Holdings["busy"] = busy
      /\ Holdings["protected"] = protected /\ Holdings["maker"] = ProvisionClaim
      /\ Holdings["handler"] = ToSet(refs) /\ Holdings["watch"] = WatchClaims
      /\ Holdings["list"] = listed /\ Holdings["main"] = Main
  BY DEF Holdings, Main
<1> HIDE DEF Holdings
<1> QED BY <1>1, <1>2 DEF HoldersOf, HoldersAre, Names

LEMMA HoldersMeanNext == (\A q : HoldersAre(q))'
BY HoldersMean, PTL

(* The runner that Recover or Shutdown is removing is no longer one of      *)
(* those that are still to be looked at.                                    *)
AtHandInv == rcur \notin listed /\ scur \notin srefs

LEMMA AtHandInit == Init => AtHandInv
BY DEF Init, AtHandInv

LEMMA AtHandStep == IndInv /\ AtHandInv /\ [Next]_vars => AtHandInv'
<1> SUFFICES ASSUME IndInv, AtHandInv, [Next]_vars PROVE AtHandInv'
  OBVIOUS
<1>1. /\ NoRunner \notin Runners
      /\ listed \subseteq Runners /\ srefs \subseteq Runners
      /\ Idle \subseteq Runners /\ busy \subseteq Runners
      /\ mode # "recover" => rcur = NoRunner
      /\ mode \notin {"clean", "cleanBusy"} => scur = NoRunner
  BY RunnersAreNat, ToSetElements DEF IndInv, TypeOK, ModeInv, Idle
<1>2. CASE UNCHANGED <<listed, rcur, srefs, scur>>
  BY <1>2 DEF AtHandInv
<1>3. CASE \/ Launch \/ RecoverRunnerRemoved \/ StartupFails \/ Exit \/ JoinTimeout \/ Crash
           \/ \E r \in Runners : RecoverRunner(r)
  BY <1>1, <1>3 DEF AtHandInv, Launch, RecoverRunner, RecoverRunnerRemoved,
              StartupFails, Exit, JoinTimeout, Crash, ProcessEnds
<1>4. CASE \/ JoinWatches \/ CleanupRefRemoved \/ CleanupRefFails \/ IdleCleaned
           \/ \E r \in Runners : CleanupRef(r)
  BY <1>1, <1>4 DEF AtHandInv, JoinWatches, CleanupRefRemoved, CleanupRefFails, IdleCleaned,
              CleanupRef
<1>5. ASSUME NEW r \in Runners,
             \/ ContainerExits(r) \/ ContainerVanishes(r) \/ StopManaged(r)
             \/ WatchStep(r) \/ WaitFails(r) \/ HandleJobStarted(r) \/ HandleJobCompleted(r)
      PROVE  UNCHANGED <<listed, rcur, srefs, scur>>
  BY <1>5 DEF ContainerExits, ContainerVanishes, StopManaged, WatchStep, WaitReturns,
              WatchReturns, ReleaseWatchOwnership, WatchRemoved, WatchRemovalFails, WaitFails,
              HandleJobStarted, HandleJobCompleted, phase
<1>6. ASSUME \/ ReceiveMessage \/ ListenerFails \/ ListenerCancelled \/ NoJobEvent
             \/ \E jobs \in 0 .. MaxJobs : HandleDesiredRunnerCount(jobs)
             \/ CompletedRunnerRemoved \/ HandlerRemovalFails
             \/ CreateManaged \/ ProvisionFails \/ StartManaged \/ StartFails
             \/ CleanupAfterProvisionFailure \/ RegisterRunner \/ WatchRunner
             \/ ScaleDown \/ SurplusRunnerRemoved
      PROVE  UNCHANGED <<listed, rcur, srefs, scur>>
  BY <1>6 DEF ReceiveMessage, ListenerFails, ListenerCancelled, NoJobEvent,
              HandleDesiredRunnerCount, CompletedRunnerRemoved, HandlerRemovalFails,
              CreateManaged, ProvisionFails, StartManaged, StartFails,
              CleanupAfterProvisionFailure, RegisterRunner, WatchRunner, ScaleDown,
              SurplusRunnerRemoved, phase
<1>7. ASSUME \/ StartupDone \/ Signal \/ FatalError \/ JoinListener \/ BusyCleaned
             \/ UNCHANGED vars
      PROVE  UNCHANGED <<listed, rcur, srefs, scur>>
  BY <1>7 DEF StartupDone, Signal, FatalError, BeginStop, JoinListener, BusyCleaned, vars, phase
<1> QED
  BY <1>2, <1>3, <1>4, <1>5, <1>6, <1>7
  DEF Next, Environment, HandlerStep, RecoverStep, ShutdownStep

(* At most one holder, in every state of the invariant.                     *)
Sole(q) == \A p1, p2 \in HoldersOf(q) : p1 = p2

SoleHolder == IndInv /\ AtHandInv => \A q \in Runners : Sole(q)

LEMMA HeldOnce == SoleHolder
<1> SUFFICES ASSUME IndInv, AtHandInv, NEW q \in Runners PROVE Sole(q)
  BY DEF SoleHolder
<1>1. q \in ToSet(refs) => q \notin ProvisionClaim
  <2>1. ToSet(<<>>) = {}
    BY DEF ToSet
  <2> QED BY <2>1 DEF IndInv, HandlerInv, ProvisionClaim
<1>2. q \in listed => q \notin Main
  BY RunnersAreNat DEF IndInv, ModeInv, AtHandInv, Main
<1>3. /\ Tracked = Idle \cup busy \cup protected
      /\ Claimed = ToSet(refs) \cup ProvisionClaim \cup WatchClaims \cup listed \cup Main
      /\ HandlerClaims = ToSet(refs) \cup ProvisionClaim
      /\ MainClaims = listed \cup Main
  BY DEF Tracked, Claimed, HandlerClaims, MainClaims, Main
<1>4. /\ Idle \cap busy = {} /\ Idle \cap protected = {} /\ busy \cap protected = {}
      /\ Tracked \cap Claimed = {}
      /\ HandlerClaims \cap WatchClaims = {}
      /\ HandlerClaims \cap MainClaims = {}
      /\ WatchClaims \cap MainClaims = {}
  BY DEF IndInv, OneOwner
<1>5. HoldersAre(q)
  BY HoldersMean
<1> QED BY <1>1, <1>2, <1>3, <1>4, <1>5 DEF HoldersAre, Names, Sole

LEMMA HeldOnceNext == SoleHolder'
BY HeldOnce, PTL

-----------------------------------------------------------------------------
(* What a step has to do to one runner to be a step of Ownership.           *)

OwnStep(q) == [Owned(q)!Next]_(Owned(q)!vars)

Running == mode # "down" /\ mode' # "down" /\ raised \subseteq raised'

LEMMA StaysStep ==
  ASSUME NEW q, Running, HoldersOf(q)' = HoldersOf(q), LifeOf(q)' = LifeOf(q)
  PROVE  OwnStep(q)
<1>1. CASE raised = {} /\ raised' # {}
  BY <1>1 DEF OwnStep, Running, Owned!Next, Owned!Report, Owned!vars
<1>2. CASE (raised # {}) = (raised' # {})
  BY <1>2 DEF OwnStep, Running, Owned!vars
<1> QED BY <1>1, <1>2 DEF Running

LEMMA PassStep ==
  ASSUME NEW q, Running, Sole(q), Sole(q)', raised' = raised, LifeOf(q)' = LifeOf(q),
         NEW p1, NEW p2, <<p1, p2>> \in Owned(q)!Routes,
         p1 \in HoldersOf(q), p2 \in HoldersOf(q)'
  PROVE  OwnStep(q)
<1>1. HoldersOf(q) = {p1} /\ HoldersOf(q)' = {p2}
  BY DEF Sole
<1>2. Owned(q)!Pass
  <2>1. <<p1, p2>>[1] = p1 /\ <<p1, p2>>[2] = p2
    OBVIOUS
  <2>2. \E route \in Owned(q)!Routes : HoldersOf(q) = {route[1]} /\ HoldersOf(q)' = {route[2]}
    BY <1>1, <2>1
  <2> QED BY <2>2 DEF Running, Owned!Pass
<1> QED BY <1>2 DEF OwnStep, Owned!Next

LEMMA LetGoStep ==
  ASSUME NEW q, Running, Sole(q), HoldersOf(q)' = {},
         NEW p, p \in HoldersOf(q),
         p \in {"handler", "watch", "main", "maker", "list"},
         \/ /\ LifeOf(q)' = "gone" /\ raised' = raised /\ p # "maker"
         \/ /\ LifeOf(q)' \in {LifeOf(q), "gone"} /\ raised' # {}
  PROVE  OwnStep(q)
<1>1. HoldersOf(q) = {p}
  BY DEF Sole
<1>2. CASE LifeOf(q)' = "gone" /\ raised' = raised /\ p # "maker"
  BY <1>1, <1>2 DEF OwnStep, Running, Owned!Next, Owned!Finish, Owned!Removers
<1>3. CASE LifeOf(q)' \in {LifeOf(q), "gone"} /\ raised' # {}
  BY <1>1, <1>3 DEF OwnStep, Running, Owned!Next, Owned!GiveUp, Owned!Removers
<1> QED BY <1>2, <1>3

(* A step that does nothing to the holders of q, as seen in the model.      *)
HoldsAsBefore(q) ==
  /\ q \in Idle' <=> q \in Idle
  /\ q \in busy' <=> q \in busy
  /\ q \in protected' <=> q \in protected
  /\ q \in ProvisionClaim' <=> q \in ProvisionClaim
  /\ q \in ToSet(refs)' <=> q \in ToSet(refs)
  /\ q \in WatchClaims' <=> q \in WatchClaims
  /\ q \in listed' <=> q \in listed
  /\ q \in Main' <=> q \in Main

LEMMA HoldersUnchanged ==
  ASSUME NEW q, HoldsAsBefore(q)
  PROVE  HoldersOf(q)' = HoldersOf(q)
<1>1. HoldersAre(q) /\ HoldersAre(q)'
  BY HoldersMean, HoldersMeanNext
<1> QED BY <1>1 DEF HoldersAre, HoldsAsBefore, Names

LEMMA HoldersGone ==
  ASSUME NEW q,
         /\ q \notin Idle' /\ q \notin busy' /\ q \notin protected'
         /\ q \notin ProvisionClaim' /\ q \notin ToSet(refs)' /\ q \notin WatchClaims'
         /\ q \notin listed' /\ q \notin Main'
  PROVE  HoldersOf(q)' = {}
<1>1. HoldersAre(q)'
  BY HoldersMeanNext
<1> QED BY <1>1 DEF HoldersAre, Names

(* Everything is held as before, and no container is created.               *)
AllAsBefore ==
  /\ \A q \in Runners : HoldsAsBefore(q)
  /\ mode # "down" /\ mode' # "down" /\ raised \subseteq raised'
  /\ \A q \in Runners : LifeOf(q)' = LifeOf(q)

OwnInv == IndInv /\ AtHandInv

-----------------------------------------------------------------------------
(* The environment. *)

LEMMA OwnEnvironment ==
  ASSUME IndInv, NEW r \in Runners, NEW q \in Runners,
         ContainerExits(r) \/ ContainerVanishes(r) \/ StopManaged(r)
  PROVE  OwnStep(q)
<1>1. UNCHANGED <<runnerState, watches, handler, phase, raised>>
  BY DEF ContainerExits, ContainerVanishes, StopManaged
<1>2. HoldsAsBefore(q)
  BY <1>1 DEF HoldsAsBefore, runnerState, watches, handler, phase, Idle, ProvisionClaim,
              WatchClaims, Main
<1>3. HoldersOf(q)' = HoldersOf(q)
  BY <1>2, HoldersUnchanged
<1>4. UNCHANGED <<mode, raised>>
  BY <1>1 DEF phase
<1>5. \/ LifeOf(q)' = LifeOf(q)
      \/ LifeOf(q) = "live" /\ LifeOf(q)' = "gone"
  BY DEF IndInv, TypeOK, Live, LifeOf, ContainerExits, ContainerVanishes, StopManaged
<1>6. CASE LifeOf(q)' = LifeOf(q)
  BY <1>3, <1>4, <1>6 DEF OwnStep, Owned!vars
<1>7. CASE LifeOf(q) = "live" /\ LifeOf(q)' = "gone"
  BY <1>3, <1>4, <1>7 DEF OwnStep, Owned!Next, Owned!Vanish
<1> QED BY <1>5, <1>6, <1>7

(* The steps that move no runner at all.                                    *)
LEMMA OwnCalm ==
  ASSUME AllAsBefore, NEW q \in Runners
  PROVE  OwnStep(q)
<1>1. HoldersOf(q)' = HoldersOf(q)
  BY HoldersUnchanged DEF AllAsBefore
<1> QED BY <1>1, StaysStep DEF AllAsBefore, Running

LEMMA CalmWatch ==
  ASSUME IndInv, NEW r \in Runners, WaitReturns(r) \/ WatchReturns(r) \/ WaitFails(r)
  PROVE  AllAsBefore
<1>1. /\ watch[r] # "none" /\ watch[r] # "remove"
      /\ UNCHANGED <<runnerState, docker, handler, phase>>
      /\ raised \subseteq raised'
      /\ \E st \in {"exited", "missing", "done"} : watch' = [watch EXCEPT ![r] = st]
  BY DEF WaitReturns, WatchReturns, WaitFails
<1>2. WatchClaims' = WatchClaims
  BY <1>1 DEF IndInv, TypeOK, WatchClaims
<1>3. mode # "down"
  BY <1>1 DEF IndInv, ModeInv
<1> QED BY <1>1, <1>2, <1>3 DEF AllAsBefore, HoldsAsBefore, LifeOf, Idle, ProvisionClaim, Main,
                                runnerState, docker, handler, phase

LEMMA CalmHandler ==
  ASSUME IndInv,
         \/ ReceiveMessage \/ ListenerFails \/ ListenerCancelled \/ NoJobEvent
         \/ \E jobs \in 0 .. MaxJobs : HandleDesiredRunnerCount(jobs)
         \/ StartManaged \/ StartFails \/ WatchRunner
  PROVE  AllAsBefore
<1>1. hpc # "off" /\ UNCHANGED <<runnerState, phase, refs>> /\ raised \subseteq raised'
  BY DEF ReceiveMessage, ListenerFails, ListenerReturnsError, ListenerCancelled, NoJobEvent,
         HandleDesiredRunnerCount, StartManaged, StartFails, WatchRunner
<1>2. mode # "down" /\ mode' # "down"
  BY <1>1 DEF IndInv, ModeInv, phase
<1>3. WatchClaims' = WatchClaims /\ ProvisionClaim' = ProvisionClaim
  <2>1. CASE WatchRunner
    <3>1. cur \in Runners /\ cur \notin WatchClaims /\ StartWatch(cur)
      BY <2>1, RunnersAreNat DEF WatchRunner, IndInv, TypeOK, HandlerInv, FreshInv, WatchClaims
    <3>2. WatchClaims' = WatchClaims
      BY <3>1, StartWatchEffect DEF IndInv
    <3> QED BY <2>1, <3>2 DEF WatchRunner, ProvisionClaim
  <2>2. CASE ~WatchRunner
    BY <2>2 DEF ReceiveMessage, ListenerFails, ListenerReturnsError, ListenerCancelled,
                NoJobEvent, HandleDesiredRunnerCount, StartManaged, StartFails,
                ProvisionClaim, WatchClaims, watches
  <2> QED BY <2>1, <2>2
<1>4. \A q \in Runners : LifeOf(q)' = LifeOf(q)
  <2>1. CASE StartManaged \/ StartFails
    <3>1. cur \in Runners
      BY <2>1, RunnersAreNat DEF StartManaged, StartFails, IndInv, TypeOK, HandlerInv
    <3> QED BY <2>1, <3>1 DEF StartManaged, StartFails, IndInv, TypeOK, LifeOf, Live
  <2>2. CASE ~(StartManaged \/ StartFails)
    BY <2>2 DEF ReceiveMessage, ListenerFails, ListenerCancelled, NoJobEvent,
                HandleDesiredRunnerCount, WatchRunner, docker, LifeOf
  <2> QED BY <2>1, <2>2
<1> QED BY <1>1, <1>2, <1>3, <1>4 DEF AllAsBefore, HoldsAsBefore, Idle, Main, runnerState, phase

LEMMA CalmMain ==
  ASSUME IndInv,
         \/ StartupDone \/ Signal \/ FatalError \/ JoinListener \/ BusyCleaned
         \/ \E r \in Runners : CleanupRef(r)
  PROVE  AllAsBefore
<1>1. UNCHANGED <<runnerState, docker, watch, refs, cur, listed, raised>>
  BY DEF StartupDone, Signal, FatalError, BeginStop, JoinListener, BusyCleaned, CleanupRef,
         watches, handler
<1>2. mode # "down" /\ mode' # "down"
  BY DEF StartupDone, Signal, FatalError, BeginStop, JoinListener, BusyCleaned, CleanupRef
<1>3. ProvisionClaim' = ProvisionClaim
  BY <1>1 DEF StartupDone, Signal, FatalError, BeginStop, JoinListener, BusyCleaned, CleanupRef,
         handler, ProvisionClaim, IndInv, ModeInv
<1>4. Main' = Main
  BY RunnersAreNat DEF StartupDone, Signal, FatalError, BeginStop, JoinListener, BusyCleaned,
         CleanupRef, Main
<1> QED BY <1>1, <1>2, <1>3, <1>4
        DEF AllAsBefore, HoldsAsBefore, runnerState, docker, Idle, WatchClaims, LifeOf

-----------------------------------------------------------------------------
(* The steps that hand runners on. *)

(* Docker, the phase and the errors are as they were.                       *)
Handover == mode # "down" /\ mode' # "down" /\ UNCHANGED <<docker, raised>>

LEMMA HandoverStays ==
  ASSUME NEW q, Handover, HoldsAsBefore(q)
  PROVE  OwnStep(q)
<1>1. HoldersOf(q)' = HoldersOf(q)
  BY HoldersUnchanged
<1>2. LifeOf(q)' = LifeOf(q) /\ Running
  BY DEF Handover, docker, LifeOf, Running
<1> QED BY <1>1, <1>2, StaysStep

LEMMA HandoverPass ==
  ASSUME OwnInv, OwnInv', NEW q \in Runners, Handover,
         NEW p1, NEW p2, <<p1, p2>> \in Owned(q)!Routes,
         p1 \in HoldersOf(q), p2 \in HoldersOf(q)'
  PROVE  OwnStep(q)
<1>1. Sole(q)
  BY HeldOnce DEF SoleHolder, OwnInv
<1>2. Sole(q)'
  <2>1. q \in Runners'
    BY DEF Runners
  <2> QED BY <2>1, HeldOnceNext DEF SoleHolder, OwnInv
<1>3. LifeOf(q)' = LifeOf(q) /\ Running /\ raised' = raised
  BY DEF Handover, docker, LifeOf, Running
<1> QED BY <1>1, <1>2, <1>3, PassStep

LEMMA OwnJobStarted ==
  ASSUME OwnInv, OwnInv', NEW r \in Runners, HandleJobStarted(r), NEW q \in Runners
  PROVE  OwnStep(q)
<1>1. /\ Idle' = Idle \ {r}
      /\ busy' = IF r \in Idle THEN busy \cup {r} ELSE busy
      /\ protected' = protected
  BY JobStartedEffect DEF OwnInv
<1>2. /\ UNCHANGED <<docker, watches, cur, refs, phase, raised>>
      /\ hpc = "event" /\ hpc' = "desired"
  BY DEF HandleJobStarted
<1>3. Handover
  BY <1>2 DEF Handover, phase, OwnInv, IndInv, ModeInv
<1>4. /\ ProvisionClaim' = ProvisionClaim /\ WatchClaims' = WatchClaims
      /\ ToSet(refs)' = ToSet(refs) /\ listed' = listed /\ Main' = Main
  BY <1>2 DEF watches, phase, ProvisionClaim, WatchClaims, Main
<1>5. CASE q = r /\ r \in Idle
  <2>1. "idle" \in HoldersOf(q) /\ "busy" \in HoldersOf(q)'
    BY <1>1, <1>5, HoldersMean, HoldersMeanNext DEF HoldersAre
  <2>2. <<"idle", "busy">> \in Owned(q)!Routes
    BY DEF Owned!Routes
  <2> QED BY <1>3, <2>1, <2>2, HandoverPass
<1>6. CASE ~(q = r /\ r \in Idle)
  <2>1. HoldsAsBefore(q)
    BY <1>1, <1>4, <1>6 DEF HoldsAsBefore
  <2> QED BY <1>3, <2>1, HandoverStays
<1> QED BY <1>5, <1>6

LEMMA OwnJobCompleted ==
  ASSUME OwnInv, OwnInv', NEW r \in Runners, HandleJobCompleted(r), NEW q \in Runners
  PROVE  OwnStep(q)
<1>1. /\ Idle' = Idle \ {r} /\ busy' = busy \ {r} /\ protected' = protected
      /\ ToSet(refs') = IF Owns(r) THEN {r} ELSE ToSet(refs)
  BY JobCompletedEffect DEF OwnInv
<1>2. /\ UNCHANGED <<docker, watches, cur, phase, raised>>
      /\ hpc = "event" /\ hpc' \in {"desired", "complete"}
  BY DEF HandleJobCompleted
<1>3. Handover
  BY <1>2 DEF Handover, phase, OwnInv, IndInv, ModeInv
<1>4. /\ ProvisionClaim' = ProvisionClaim /\ WatchClaims' = WatchClaims
      /\ listed' = listed /\ Main' = Main
  BY <1>2 DEF watches, phase, ProvisionClaim, WatchClaims, Main
<1>5. ToSet(refs) = {}
  <2>1. refs = <<>>
    BY <1>2 DEF OwnInv, IndInv, HandlerInv
  <2> QED BY <2>1 DEF ToSet
<1>6. CASE q = r /\ Owns(r)
  <2>1. "handler" \in HoldersOf(q)' /\ ("idle" \in HoldersOf(q) \/ "busy" \in HoldersOf(q))
    BY <1>1, <1>6, HoldersMean, HoldersMeanNext DEF HoldersAre, Owns
  <2>2. {<<"idle", "handler">>, <<"busy", "handler">>} \subseteq Owned(q)!Routes
    BY DEF Owned!Routes
  <2> QED BY <1>3, <2>1, <2>2, HandoverPass
<1>7. CASE ~(q = r /\ Owns(r))
  <2>1. HoldsAsBefore(q)
    BY <1>1, <1>4, <1>5, <1>7 DEF HoldsAsBefore, Owns
  <2> QED BY <1>3, <2>1, HandoverStays
<1> QED BY <1>6, <1>7

LEMMA OwnRegister ==
  ASSUME OwnInv, OwnInv', RegisterRunner, NEW q \in Runners
  PROVE  OwnStep(q)
<1>1. Idle' = Idle \cup {cur} /\ busy' = busy /\ protected' = protected
  BY RegisterEffect DEF OwnInv
<1>2. /\ UNCHANGED <<docker, watches, refs, phase, raised>>
      /\ hpc = "register" /\ hpc' = "watch"
  BY DEF RegisterRunner
<1>3. Handover
  BY <1>2 DEF Handover, phase, OwnInv, IndInv, ModeInv
<1>4. /\ ProvisionClaim = {cur} /\ ProvisionClaim' = {} /\ WatchClaims' = WatchClaims
      /\ listed' = listed /\ Main' = Main
  BY <1>2 DEF watches, phase, ProvisionClaim, WatchClaims, Main
<1>5. CASE q = cur
  <2>1. "maker" \in HoldersOf(q) /\ "idle" \in HoldersOf(q)'
    BY <1>1, <1>4, <1>5, HoldersMean, HoldersMeanNext DEF HoldersAre
  <2>2. <<"maker", "idle">> \in Owned(q)!Routes
    BY DEF Owned!Routes
  <2> QED BY <1>3, <2>1, <2>2, HandoverPass
<1>6. CASE q # cur
  <2>1. HoldsAsBefore(q)
    BY <1>1, <1>2, <1>4, <1>6 DEF HoldsAsBefore
  <2> QED BY <1>3, <2>1, HandoverStays
<1> QED BY <1>5, <1>6

LEMMA OwnScaleDown ==
  ASSUME OwnInv, OwnInv', ScaleDown, NEW q \in Runners
  PROVE  OwnStep(q)
<1>1. /\ Idle = ToSet(refs') \cup Idle' /\ busy' = busy /\ protected' = protected
      /\ \A x \in ToSet(refs'), y \in Idle' : x < y
  BY ScaleDownEffect DEF OwnInv
<1>2. /\ UNCHANGED <<docker, watches, cur, phase, raised>>
      /\ hpc = "down" /\ hpc' \in {"poll", "remove"}
  BY DEF ScaleDown
<1>3. Handover
  BY <1>2 DEF Handover, phase, OwnInv, IndInv, ModeInv
<1>4. /\ ProvisionClaim' = ProvisionClaim /\ WatchClaims' = WatchClaims
      /\ listed' = listed /\ Main' = Main
  BY <1>2 DEF watches, phase, ProvisionClaim, WatchClaims, Main
<1>5. ToSet(refs) = {}
  <2>1. refs = <<>>
    BY <1>2 DEF OwnInv, IndInv, HandlerInv
  <2> QED BY <2>1 DEF ToSet
<1>6. CASE q \in ToSet(refs')
  <2>1. "idle" \in HoldersOf(q) /\ "handler" \in HoldersOf(q)'
    BY <1>1, <1>6, HoldersMean, HoldersMeanNext DEF HoldersAre
  <2>2. <<"idle", "handler">> \in Owned(q)!Routes
    BY DEF Owned!Routes
  <2> QED BY <1>3, <2>1, <2>2, HandoverPass
<1>7. CASE q \notin ToSet(refs')
  <2>1. HoldsAsBefore(q)
    BY <1>1, <1>4, <1>5, <1>7 DEF HoldsAsBefore
  <2> QED BY <1>3, <2>1, HandoverStays
<1> QED BY <1>6, <1>7

(* A watch takes its runner to remove it; or, its container being missing,  *)
(* just takes it out of the table.                                          *)
LEMMA OwnRelease ==
  ASSUME OwnInv, OwnInv', NEW r \in Runners, ReleaseWatchOwnership(r), NEW q \in Runners
  PROVE  OwnStep(q)
<1>1. /\ Idle' = Idle \ {r} /\ busy' = busy \ {r} /\ protected' = protected \ {r}
  BY ReleaseEffect DEF OwnInv
<1>2. /\ r \notin WatchClaims
      /\ WatchClaims' = IF watch[r] = "exited" /\ r \in Tracked
                        THEN WatchClaims \cup {r} ELSE WatchClaims
  BY ReleaseMove DEF OwnInv
<1>3. watch[r] \in {"exited", "missing"} /\ UNCHANGED <<docker, handler, phase, raised>>
  BY DEF ReleaseWatchOwnership
<1>4. Handover
  BY <1>3 DEF Handover, phase, OwnInv, IndInv, ModeInv
<1>5. /\ ProvisionClaim' = ProvisionClaim /\ ToSet(refs)' = ToSet(refs)
      /\ listed' = listed /\ Main' = Main
  BY <1>3 DEF handler, phase, ProvisionClaim, Main
<1>6. CASE q = r /\ r \in Tracked /\ watch[r] = "exited"
  <2>1. /\ "watch" \in HoldersOf(q)'
        /\ \E p \in {"idle", "busy", "protected"} : p \in HoldersOf(q)
    BY <1>2, <1>6, HoldersMean, HoldersMeanNext DEF HoldersAre, Tracked
  <2>2. \A p \in {"idle", "busy", "protected"} : <<p, "watch">> \in Owned(q)!Routes
    BY DEF Owned!Routes
  <2> QED BY <1>4, <2>1, <2>2, HandoverPass
<1>7. CASE q = r /\ r \in Tracked /\ watch[r] = "missing"
  <2>1. Sole(q)
    BY HeldOnce DEF SoleHolder, OwnInv
  <2>2. PICK p \in {"idle", "busy", "protected"} : p \in HoldersOf(q)
    BY <1>7, HoldersMean DEF HoldersAre, Tracked
  <2>3. HoldersOf(q) = {p}
    BY <2>1, <2>2 DEF Sole
  <2>4. /\ q \notin ProvisionClaim /\ q \notin ToSet(refs) /\ q \notin listed /\ q \notin Main
    BY <2>2, <2>3, HoldersMean DEF HoldersAre
  <2>5. HoldersOf(q)' = {}
    BY <1>1, <1>2, <1>5, <1>7, <2>4, HoldersGone
  <2>6. LifeOf(q) = "gone" /\ LifeOf(q)' = "gone"
    BY <1>3, <1>7 DEF OwnInv, IndInv, AdoptInv, LifeOf, Live, docker
  <2>7. Owned(q)!Forget
    BY <1>4, <2>3, <2>5, <2>6 DEF Handover, Owned!Forget, Owned!Table
  <2> QED BY <2>7 DEF OwnStep, Owned!Next
<1>8. CASE ~(q = r /\ r \in Tracked)
  <2>1. HoldsAsBefore(q)
    BY <1>1, <1>2, <1>5, <1>8 DEF HoldsAsBefore, Tracked
  <2> QED BY <1>4, <2>1, HandoverStays
<1> QED BY <1>3, <1>6, <1>7, <1>8

LEMMA OwnRecover ==
  ASSUME OwnInv, OwnInv', NEW r \in Runners, RecoverRunner(r), NEW q \in Runners
  PROVE  OwnStep(q)
<1>1. /\ r \in listed /\ listed' = listed \ {r} /\ rcur = NoRunner
      /\ mode = "recover"
      /\ UNCHANGED <<idle, busy, docker, handler, mode, srefs, scur, raised>>
      /\ \/ container[r] = "gone" /\ UNCHANGED <<protected, rcur>>
         \/ rcur' = r /\ UNCHANGED protected
         \/ protected' = protected \cup {r} /\ UNCHANGED rcur
  BY DEF RecoverRunner, AddProtected, runnerState
<1>2. Handover
  BY <1>1 DEF Handover
<1>3. WatchClaims' = WatchClaims
  BY RecoverMove DEF OwnInv
<1>4. /\ ProvisionClaim' = ProvisionClaim /\ ToSet(refs)' = ToSet(refs)
      /\ Idle' = Idle /\ busy' = busy
  BY <1>1 DEF handler, ProvisionClaim, Idle
<1>5. Main = srefs \cup ({scur} \ {NoRunner}) /\ Main' = Main \cup ({rcur'} \ {NoRunner})
  BY <1>1 DEF Main
<1>6. CASE q = r
  <2>1. "list" \in HoldersOf(q)
    BY <1>1, <1>6, HoldersMean DEF HoldersAre
  <2>2. CASE rcur' = r
    <3>1. "main" \in HoldersOf(q)'
      BY <1>5, <1>6, <2>2, RunnersAreNat, HoldersMeanNext DEF HoldersAre
    <3>2. <<"list", "main">> \in Owned(q)!Routes
      BY DEF Owned!Routes
    <3> QED BY <1>2, <2>1, <3>1, <3>2, HandoverPass
  <2>3. CASE protected' = protected \cup {r}
    <3>1. "protected" \in HoldersOf(q)'
      BY <1>6, <2>3, HoldersMeanNext DEF HoldersAre
    <3>2. <<"list", "protected">> \in Owned(q)!Routes
      BY DEF Owned!Routes
    <3> QED BY <1>2, <2>1, <3>1, <3>2, HandoverPass
  <2>4. CASE container[r] = "gone" /\ UNCHANGED <<protected, rcur>>
    <3>1. Sole(q)
      BY HeldOnce DEF SoleHolder, OwnInv
    <3>2. HoldersOf(q) = {"list"}
      BY <2>1, <3>1 DEF Sole
    <3>3. /\ q \notin Idle /\ q \notin busy /\ q \notin protected /\ q \notin ProvisionClaim
          /\ q \notin ToSet(refs) /\ q \notin WatchClaims /\ q \notin Main
      BY <3>2, HoldersMean DEF HoldersAre
    <3>4. Main' = Main
      BY <1>1, <2>4 DEF Main
    <3>5. HoldersOf(q)' = {}
      BY <1>1, <1>3, <1>4, <1>6, <2>4, <3>3, <3>4, HoldersGone
    <3>6. LifeOf(q)' = "gone"
      BY <1>1, <1>6, <2>4 DEF LifeOf, Live, docker
    <3>7. Running /\ raised' = raised
      BY <1>1 DEF Running
    <3> QED BY <2>1, <3>1, <3>5, <3>6, <3>7, LetGoStep
  <2> QED BY <1>1, <2>2, <2>3, <2>4
<1>7. CASE q # r
  <2>1. HoldsAsBefore(q)
    BY <1>1, <1>3, <1>4, <1>5, <1>7 DEF HoldsAsBefore
  <2> QED BY <1>2, <2>1, HandoverStays
<1> QED BY <1>6, <1>7

LEMMA OwnJoinWatches ==
  ASSUME OwnInv, OwnInv', JoinWatches, NEW q \in Runners
  PROVE  OwnStep(q)
<1>1. /\ Idle' = {} /\ srefs' = Idle /\ busy' = busy /\ protected' = protected
      /\ WatchClaims' = WatchClaims
  BY JoinWatchesMove DEF JoinWatches, OwnInv
<1>2. /\ mode = "join" /\ mode' = "clean"
      /\ UNCHANGED <<docker, handler, listed, rcur, scur, raised>>
  BY DEF JoinWatches
<1>3. Handover
  BY <1>2 DEF Handover
<1>4. ProvisionClaim' = ProvisionClaim /\ ToSet(refs)' = ToSet(refs) /\ listed' = listed
  BY <1>2 DEF handler, ProvisionClaim
<1>5. Main = {} /\ Main' = Idle
  BY <1>1, <1>2 DEF OwnInv, IndInv, ModeInv, Main
<1>6. CASE q \in Idle
  <2>1. "idle" \in HoldersOf(q) /\ "main" \in HoldersOf(q)'
    BY <1>5, <1>6, HoldersMean, HoldersMeanNext DEF HoldersAre
  <2>2. <<"idle", "main">> \in Owned(q)!Routes
    BY DEF Owned!Routes
  <2> QED BY <1>3, <2>1, <2>2, HandoverPass
<1>7. CASE q \notin Idle
  <2>1. HoldsAsBefore(q)
    BY <1>1, <1>4, <1>5, <1>7 DEF HoldsAsBefore
  <2> QED BY <1>3, <2>1, HandoverStays
<1> QED BY <1>6, <1>7

LEMMA OwnIdleCleaned ==
  ASSUME OwnInv, OwnInv', IdleCleaned, NEW q \in Runners
  PROVE  OwnStep(q)
<1>1. /\ Idle' = Idle /\ protected' = protected /\ WatchClaims' = WatchClaims
  BY IdleCleanedMove DEF OwnInv
<1>2. /\ mode = "clean" /\ mode' # "down" /\ srefs = {} /\ scur = NoRunner
      /\ \/ srefs' = busy /\ busy' = {}
         \/ srefs' = {} /\ busy' = busy
      /\ UNCHANGED <<docker, handler, listed, rcur, scur, raised>>
  BY DEF IdleCleaned, TakeAllBusy, runnerState
<1>3. Handover
  BY <1>2 DEF Handover
<1>4. ProvisionClaim' = ProvisionClaim /\ ToSet(refs)' = ToSet(refs) /\ listed' = listed
  BY <1>2 DEF handler, ProvisionClaim
<1>5. Main = {} /\ Main' = srefs'
  BY <1>2 DEF OwnInv, IndInv, ModeInv, Main
<1>6. CASE q \in busy /\ busy' = {} /\ srefs' = busy
  <2>1. "busy" \in HoldersOf(q) /\ "main" \in HoldersOf(q)'
    BY <1>5, <1>6, HoldersMean, HoldersMeanNext DEF HoldersAre
  <2>2. <<"busy", "main">> \in Owned(q)!Routes
    BY DEF Owned!Routes
  <2> QED BY <1>3, <2>1, <2>2, HandoverPass
<1>7. CASE q \notin busy \/ (srefs' = {} /\ busy' = busy)
  <2>1. HoldsAsBefore(q)
    BY <1>1, <1>2, <1>4, <1>5, <1>7 DEF HoldsAsBefore
  <2> QED BY <1>3, <2>1, HandoverStays
<1> QED BY <1>2, <1>6, <1>7

-----------------------------------------------------------------------------
(* The ends of removals. *)

(* The container of r is gone, and no error is reported; or an error is.    *)
Releases(r) ==
  \/ container' = [container EXCEPT ![r] = "gone"] /\ raised' = raised
  \/ container' \in {container, [container EXCEPT ![r] = "gone"]} /\ raised' # {}

LEMMA EndStays ==
  ASSUME TypeOK, NEW r, NEW q \in Runners, q # r, Running, Releases(r), HoldsAsBefore(q)
  PROVE  OwnStep(q)
<1>1. HoldersOf(q)' = HoldersOf(q)
  BY HoldersUnchanged
<1>2. LifeOf(q)' = LifeOf(q)
  BY DEF TypeOK, Releases, LifeOf
<1> QED BY <1>1, <1>2, StaysStep

LEMMA EndLetsGo ==
  ASSUME OwnInv, NEW r \in Runners, Running, Releases(r), HoldersOf(r)' = {},
         NEW p \in {"handler", "watch", "main"}, p \in HoldersOf(r)
  PROVE  OwnStep(r)
<1>1. Sole(r)
  BY HeldOnce DEF SoleHolder, OwnInv
<1>2. \/ LifeOf(r)' = "gone" /\ raised' = raised
      \/ LifeOf(r)' \in {LifeOf(r), "gone"} /\ raised' # {}
  BY DEF OwnInv, IndInv, TypeOK, Releases, LifeOf, Live
<1> QED BY <1>1, <1>2, LetGoStep

(* What the sole holder of r gives up is nobody's.                          *)
LEMMA LetGo ==
  ASSUME OwnInv, NEW r \in Runners, NEW p, p \in HoldersOf(r),
         HoldersOf(r)' \subseteq HoldersOf(r), p \notin HoldersOf(r)'
  PROVE  HoldersOf(r)' = {}
<1>1. Sole(r)
  BY HeldOnce DEF SoleHolder, OwnInv
<1> QED BY <1>1 DEF Sole

LEMMA OwnWatchEnds ==
  ASSUME OwnInv, NEW r \in Runners, WatchRemoved(r) \/ WatchRemovalFails(r), NEW q \in Runners
  PROVE  OwnStep(q)
<1>1. /\ watch[r] = "remove" /\ watch' = [watch EXCEPT ![r] = "done"]
      /\ UNCHANGED <<runnerState, handler, phase>> /\ raised \subseteq raised'
      /\ Releases(r)
  BY DEF WatchRemoved, WatchRemovalFails, Removed, NotRemoved, Releases
<1>2. WatchClaims' = WatchClaims \ {r} /\ r \in WatchClaims
  BY <1>1 DEF OwnInv, IndInv, TypeOK, WatchClaims
<1>3. Running
  BY <1>1 DEF Running, phase, OwnInv, IndInv, ModeInv
<1>4. /\ Idle' = Idle /\ busy' = busy /\ protected' = protected
      /\ ProvisionClaim' = ProvisionClaim /\ ToSet(refs)' = ToSet(refs)
      /\ listed' = listed /\ Main' = Main
  BY <1>1 DEF runnerState, handler, phase, Idle, ProvisionClaim, Main
<1>5. CASE q = r
  <2>1. /\ "watch" \in HoldersOf(r) /\ "watch" \notin HoldersOf(r)'
        /\ HoldersOf(r)' \subseteq HoldersOf(r)
    BY <1>2, <1>4, HoldersMean, HoldersMeanNext DEF HoldersAre, Names
  <2>2. HoldersOf(r)' = {}
    BY <2>1, LetGo
  <2> QED BY <1>1, <1>3, <1>5, <2>1, <2>2, EndLetsGo
<1>6. CASE q # r
  <2>1. HoldsAsBefore(q)
    BY <1>2, <1>4, <1>6 DEF HoldsAsBefore
  <2> QED BY <1>1, <1>3, <1>6, <2>1, EndStays DEF OwnInv, IndInv
<1> QED BY <1>5, <1>6

LEMMA OwnMainEnds ==
  ASSUME OwnInv, NEW r \in Runners,
         \/ RecoverRunnerRemoved /\ r = rcur
         \/ (CleanupRefRemoved \/ CleanupRefFails) /\ r = scur,
         NEW q \in Runners
  PROVE  OwnStep(q)
<1>1. /\ mode # "down" /\ Releases(r) /\ raised \subseteq raised'
      /\ UNCHANGED <<runnerState, watches, handler, mode, listed, srefs>>
      /\ r \in Main /\ r # NoRunner /\ Main' = Main \ {r}
  BY RunnersAreNat
  DEF RecoverRunnerRemoved, CleanupRefRemoved, CleanupRefFails, Removed, NotRemoved, Releases,
         OwnInv, IndInv, TypeOK, ModeInv, AtHandInv, Main
<1>2. Running
  BY <1>1 DEF Running
<1>3. /\ Idle' = Idle /\ busy' = busy /\ protected' = protected
      /\ ProvisionClaim' = ProvisionClaim /\ ToSet(refs)' = ToSet(refs)
      /\ WatchClaims' = WatchClaims /\ listed' = listed
  BY <1>1 DEF runnerState, handler, watches, Idle, ProvisionClaim, WatchClaims
<1>4. CASE q = r
  <2>1. /\ "main" \in HoldersOf(r) /\ "main" \notin HoldersOf(r)'
        /\ HoldersOf(r)' \subseteq HoldersOf(r)
    BY <1>1, <1>3, HoldersMean, HoldersMeanNext DEF HoldersAre, Names
  <2>2. HoldersOf(r)' = {}
    BY <2>1, LetGo
  <2> QED BY <1>1, <1>2, <1>4, <2>1, <2>2, EndLetsGo
<1>5. CASE q # r
  <2>1. HoldsAsBefore(q)
    BY <1>1, <1>3, <1>5 DEF HoldsAsBefore
  <2> QED BY <1>1, <1>2, <1>5, <2>1, EndStays DEF OwnInv, IndInv
<1> QED BY <1>4, <1>5

(* A handler goes on with the next runner it took.                          *)
LEMMA OwnHandlerEnds ==
  ASSUME OwnInv, CompletedRunnerRemoved \/ SurplusRunnerRemoved,
         NEW r, r = Head(refs), NEW q \in Runners
  PROVE  OwnStep(q)
<1>1. /\ refs \in Seq(Runners) /\ refs # <<>> /\ Increasing(refs)
      /\ hpc = "complete" => Tail(refs) = <<>>
  BY DEF CompletedRunnerRemoved, SurplusRunnerRemoved, OwnInv, IndInv, TypeOK, OrderInv,
         HandlerInv
<1>2. r \in Runners /\ r \in ToSet(refs) /\ ToSet(Tail(refs)) = ToSet(refs) \ {r}
  BY <1>1, RunnersAreNat, TailIncreasing
<1>3. /\ hpc \in {"complete", "remove"} /\ hpc' \in {"desired", "poll", "remove"}
      /\ refs' = Tail(refs) /\ Releases(r)
      /\ UNCHANGED <<runnerState, watches, cur, phase, raised>>
  BY <1>1 DEF CompletedRunnerRemoved, SurplusRunnerRemoved, Removed, Releases
<1>4. Running
  BY <1>3 DEF Running, phase, OwnInv, IndInv, ModeInv
<1>5. /\ Idle' = Idle /\ busy' = busy /\ protected' = protected
      /\ ProvisionClaim' = ProvisionClaim /\ ToSet(refs)' = ToSet(refs) \ {r}
      /\ WatchClaims' = WatchClaims /\ listed' = listed /\ Main' = Main
  BY <1>2, <1>3 DEF runnerState, watches, phase, Idle, ProvisionClaim, WatchClaims, Main
<1>6. CASE q = r
  <2>1. /\ "handler" \in HoldersOf(r) /\ "handler" \notin HoldersOf(r)'
        /\ HoldersOf(r)' \subseteq HoldersOf(r)
    BY <1>2, <1>5, HoldersMean, HoldersMeanNext DEF HoldersAre, Names
  <2>2. HoldersOf(r)' = {}
    BY <1>2, <2>1, LetGo
  <2> QED BY <1>2, <1>3, <1>4, <1>6, <2>1, <2>2, EndLetsGo
<1>7. CASE q # r
  <2>1. HoldsAsBefore(q)
    BY <1>5, <1>7 DEF HoldsAsBefore
  <2> QED BY <1>2, <1>3, <1>4, <1>7, <2>1, EndStays DEF OwnInv, IndInv
<1> QED BY <1>6, <1>7

-----------------------------------------------------------------------------
(* The errors that make a goroutine give up what it holds.                  *)

LEMMA GivesUp ==
  ASSUME OwnInv, NEW q \in Runners, Running, raised' # {},
         LifeOf(q)' \in {LifeOf(q), "gone"},
         NEW p \in {"handler", "watch", "main", "maker", "list"},
         p \in HoldersOf(q), p \notin HoldersOf(q)', HoldersOf(q)' \subseteq HoldersOf(q)
  PROVE  OwnStep(q)
<1>1. Sole(q)
  BY HeldOnce DEF SoleHolder, OwnInv
<1>2. HoldersOf(q)' = {}
  BY LetGo
<1> QED BY <1>1, <1>2, LetGoStep

LEMMA OwnHandlerFails ==
  ASSUME OwnInv, HandlerRemovalFails, NEW q \in Runners
  PROVE  OwnStep(q)
<1>1. refs \in Seq(Runners) /\ refs # <<>> /\ Increasing(refs)
  BY DEF HandlerRemovalFails, OwnInv, IndInv, TypeOK, OrderInv, HandlerInv
<1>2. Head(refs) \in Runners /\ Head(refs) \in ToSet(refs)
  BY <1>1, RunnersAreNat, TailIncreasing
<1>3. /\ hpc \in {"complete", "remove"} /\ hpc' = "off" /\ refs' = <<>>
      /\ container' \in {container, [container EXCEPT ![Head(refs)] = "gone"]}
      /\ UNCHANGED <<runnerState, watches, cur, phase>>
      /\ raised \subseteq raised' /\ raised' # {}
  BY DEF HandlerRemovalFails, ListenerReturnsError, NotRemoved
<1>4. Running
  BY <1>3 DEF Running, phase, OwnInv, IndInv, ModeInv
<1>5. /\ Idle' = Idle /\ busy' = busy /\ protected' = protected
      /\ ProvisionClaim' = ProvisionClaim /\ ToSet(refs)' = {}
      /\ WatchClaims' = WatchClaims /\ listed' = listed /\ Main' = Main
  BY <1>3 DEF runnerState, watches, phase, Idle, ProvisionClaim, WatchClaims, Main, ToSet
<1>6. CASE q \in ToSet(refs)
  <2>1. /\ "handler" \in HoldersOf(q) /\ "handler" \notin HoldersOf(q)'
        /\ HoldersOf(q)' \subseteq HoldersOf(q)
    BY <1>5, <1>6, HoldersMean, HoldersMeanNext DEF HoldersAre, Names
  <2>2. LifeOf(q)' \in {LifeOf(q), "gone"}
    BY <1>3 DEF OwnInv, IndInv, TypeOK, LifeOf, Live
  <2> QED BY <1>3, <1>4, <2>1, <2>2, GivesUp
<1>7. CASE q \notin ToSet(refs)
  <2>1. HoldersOf(q)' = HoldersOf(q)
    BY <1>5, <1>7, HoldersUnchanged DEF HoldsAsBefore
  <2>2. LifeOf(q)' = LifeOf(q)
    BY <1>2, <1>3, <1>7 DEF OwnInv, IndInv, TypeOK, LifeOf
  <2> QED BY <1>4, <2>1, <2>2, StaysStep
<1> QED BY <1>6, <1>7

LEMMA OwnStartupFails ==
  ASSUME OwnInv, StartupFails, NEW q \in Runners
  PROVE  OwnStep(q)
<1>1. /\ mode = "recover" /\ mode' = "stop" /\ listed' = {} /\ rcur' = NoRunner
      /\ container' \in {container, [container EXCEPT ![rcur] = "gone"]}
      /\ rcur = NoRunner => container' = container
      /\ UNCHANGED <<runnerState, watches, handler, srefs, scur>>
      /\ raised \subseteq raised' /\ raised' # {}
  BY DEF StartupFails, NotRemoved
<1>2. Running
  BY <1>1 DEF Running
<1>3. /\ Idle' = Idle /\ busy' = busy /\ protected' = protected
      /\ ProvisionClaim' = ProvisionClaim /\ ToSet(refs)' = ToSet(refs)
      /\ WatchClaims' = WatchClaims
  BY <1>1 DEF runnerState, watches, handler, Idle, ProvisionClaim, WatchClaims
<1>4. Main = {rcur} \ {NoRunner} /\ Main' = {}
  BY <1>1 DEF OwnInv, IndInv, ModeInv, Main
<1>5. LifeOf(q)' \in {LifeOf(q), "gone"}
  BY <1>1 DEF OwnInv, IndInv, TypeOK, LifeOf, Live
<1>6. HoldersOf(q)' \subseteq HoldersOf(q)
  BY <1>1, <1>3, <1>4, HoldersMean, HoldersMeanNext DEF HoldersAre, Names
<1>7. CASE q \in listed
  <2>1. "list" \in HoldersOf(q) /\ "list" \notin HoldersOf(q)'
    BY <1>1, <1>7, HoldersMean, HoldersMeanNext DEF HoldersAre
  <2> QED BY <1>1, <1>2, <1>5, <1>6, <2>1, GivesUp
<1>8. CASE q \in Main
  <2>1. "main" \in HoldersOf(q) /\ "main" \notin HoldersOf(q)'
    BY <1>4, <1>8, HoldersMean, HoldersMeanNext DEF HoldersAre
  <2> QED BY <1>1, <1>2, <1>5, <1>6, <2>1, GivesUp
<1>9. CASE q \notin listed /\ q \notin Main
  <2>1. HoldersOf(q)' = HoldersOf(q)
    BY <1>1, <1>3, <1>4, <1>9, HoldersUnchanged DEF HoldsAsBefore
  <2>2. q # rcur
    BY <1>4, <1>9, RunnersAreNat
  <2>3. LifeOf(q)' = LifeOf(q)
    BY <1>1, <2>2 DEF OwnInv, IndInv, TypeOK, LifeOf
  <2> QED BY <1>2, <2>1, <2>3, StaysStep
<1> QED BY <1>7, <1>8, <1>9

LEMMA OwnUndo ==
  ASSUME OwnInv, CleanupAfterProvisionFailure, NEW q \in Runners
  PROVE  OwnStep(q)
<1>1. /\ hpc = "undo" /\ hpc' = "off" /\ cur' = NoRunner
      /\ container' \in {container, [container EXCEPT ![cur] = "gone"]}
      /\ UNCHANGED <<runnerState, watches, refs, phase>>
      /\ raised \subseteq raised' /\ raised' # {}
  BY DEF CleanupAfterProvisionFailure, ListenerReturnsError, Removed, NotRemoved
<1>2. Running
  BY <1>1 DEF Running, phase, OwnInv, IndInv, ModeInv
<1>3. /\ Idle' = Idle /\ busy' = busy /\ protected' = protected
      /\ ProvisionClaim = {cur} /\ ProvisionClaim' = {} /\ ToSet(refs)' = ToSet(refs)
      /\ WatchClaims' = WatchClaims /\ listed' = listed /\ Main' = Main
  BY <1>1 DEF runnerState, watches, phase, Idle, ProvisionClaim, WatchClaims, Main
<1>4. CASE q = cur
  <2>1. /\ "maker" \in HoldersOf(q) /\ "maker" \notin HoldersOf(q)'
        /\ HoldersOf(q)' \subseteq HoldersOf(q)
    BY <1>3, <1>4, HoldersMean, HoldersMeanNext DEF HoldersAre, Names
  <2>2. LifeOf(q)' \in {LifeOf(q), "gone"}
    BY <1>1 DEF OwnInv, IndInv, TypeOK, LifeOf, Live
  <2> QED BY <1>1, <1>2, <2>1, <2>2, GivesUp
<1>5. CASE q # cur
  <2>1. HoldersOf(q)' = HoldersOf(q)
    BY <1>3, <1>5, HoldersUnchanged DEF HoldsAsBefore
  <2>2. LifeOf(q)' = LifeOf(q)
    BY <1>1, <1>5 DEF OwnInv, IndInv, TypeOK, LifeOf
  <2> QED BY <1>2, <2>1, <2>2, StaysStep
<1> QED BY <1>4, <1>5

-----------------------------------------------------------------------------
(* The beginnings: of a container and of a process; and its end.            *)

LEMMA OwnCreate ==
  ASSUME OwnInv, OwnInv', CreateManaged \/ ProvisionFails, NEW q \in Runners
  PROVE  OwnStep(q)
<1>1. /\ hpc = "create" /\ raised \subseteq raised'
      /\ UNCHANGED <<runnerState, watches, refs, phase>>
      /\ \/ UNCHANGED docker /\ raised' # {}
         \/ made' = made + 1 /\ container' = [container EXCEPT ![made + 1] = "created"]
      /\ \/ CreateManaged /\ hpc' = "start" /\ cur' = made + 1 /\ raised' = raised
         \/ ProvisionFails /\ hpc' = "off" /\ cur' = cur /\ raised' # {}
  BY DEF CreateManaged, ProvisionFails, ListenerReturnsError
<1>2. Running
  BY <1>1 DEF Running, phase, OwnInv, IndInv, ModeInv
<1>3. /\ Idle' = Idle /\ busy' = busy /\ protected' = protected
      /\ ToSet(refs)' = ToSet(refs)
      /\ WatchClaims' = WatchClaims /\ listed' = listed /\ Main' = Main
      /\ ProvisionClaim = {}
      /\ hpc' = "start" => ProvisionClaim' = {made + 1}
      /\ hpc' = "off" => ProvisionClaim' = {}
  BY <1>1 DEF runnerState, watches, phase, Idle, ProvisionClaim, WatchClaims, Main
<1>4. CASE q = made + 1 /\ container' = [container EXCEPT ![made + 1] = "created"]
  <2>1. container[q] = "none"
    BY <1>4 DEF OwnInv, IndInv, TypeOK, FreshInv
  <2>2. LifeOf(q) = "none" /\ LifeOf(q)' = "live"
    BY <1>4, <2>1 DEF OwnInv, IndInv, TypeOK, LifeOf, Live
  <2>3. HoldersOf(q) = {}
    <3>1. made \in Nat /\ ~(q <= made)
      BY <1>4 DEF OwnInv, IndInv, TypeOK
    <3>2. q \notin Tracked \cup Claimed
      BY <3>1 DEF OwnInv, IndInv, FreshInv
    <3>3. HoldersAre(q)
      BY HoldersMean
    <3> QED BY <3>2, <3>3 DEF HoldersAre, Names, Tracked, Claimed, HandlerClaims,
               MainClaims, Main
  <2>4. CASE CreateManaged /\ hpc' = "start" /\ raised' = raised
    <3>1. HoldersOf(q)' = {"maker"}
      <4>1. HoldersAre(q) /\ HoldersAre(q)'
        BY HoldersMean, HoldersMeanNext
      <4> QED BY <1>3, <1>4, <2>3, <2>4, <4>1 DEF HoldersAre, Names
    <3>2. Owned(q)!Create
      BY <1>2, <2>2, <2>3, <2>4, <3>1 DEF Running, Owned!Create
    <3> QED BY <3>2 DEF OwnStep, Owned!Next
  <2>5. CASE ProvisionFails /\ hpc' = "off" /\ raised' # {}
    <3>1. HoldersOf(q)' = HoldersOf(q)
      BY <1>3, <2>5, HoldersUnchanged DEF HoldsAsBefore
    <3>2. Owned(q)!CreateUnseen
      BY <1>2, <2>2, <2>3, <2>5, <3>1 DEF Running, Owned!CreateUnseen
    <3> QED BY <3>2 DEF OwnStep, Owned!Next
  <2> QED BY <1>1, <2>4, <2>5
<1>5. CASE ~(q = made + 1 /\ container' = [container EXCEPT ![made + 1] = "created"])
  <2>1. LifeOf(q)' = LifeOf(q)
    BY <1>1, <1>5 DEF OwnInv, IndInv, TypeOK, LifeOf, docker
  <2>2. q \notin ProvisionClaim'
    <3>1. CASE CreateManaged
      BY <1>1, <1>3, <1>5, <3>1 DEF CreateManaged
    <3>2. CASE ProvisionFails
      BY <1>3, <3>2 DEF ProvisionFails, ListenerReturnsError
    <3> QED BY <1>1, <3>1, <3>2
  <2>3. HoldersOf(q)' = HoldersOf(q)
    BY <1>3, <2>2, HoldersUnchanged DEF HoldsAsBefore
  <2> QED BY <1>2, <2>1, <2>3, StaysStep
<1> QED BY <1>4, <1>5

LEMMA OwnLaunch ==
  ASSUME OwnInv, Launch, NEW q \in Runners
  PROVE  OwnStep(q)
<1>1. /\ mode = "down" /\ mode' = "recover" /\ UNCHANGED <<docker, raised>>
      /\ listed' = {r \in Runners : container[r] \in Live}
      /\ UNCHANGED <<rcur, srefs, scur, refs>>
  BY DEF Launch, handler
<1>2. /\ Idle' = {} /\ busy' = {} /\ protected' = {}
      /\ HandlerClaims' = {} /\ WatchClaims' = {}
  BY LaunchMove DEF OwnInv
<1>3. Main' = {}
  BY <1>1 DEF OwnInv, IndInv, ModeInv, Main
<1>4. ProvisionClaim' = {} /\ ToSet(refs)' = {}
  BY <1>2 DEF HandlerClaims
<1>5. q \in listed' <=> LifeOf(q) = "live"
  BY <1>1 DEF OwnInv, IndInv, TypeOK, LifeOf, Live
<1>6. HoldersOf(q)' = IF LifeOf(q) = "live" THEN {"list"} ELSE {}
  <2>1. HoldersAre(q)'
    BY HoldersMeanNext
  <2> QED BY <1>2, <1>3, <1>4, <1>5, <2>1 DEF HoldersAre, Names
<1>7. LifeOf(q)' = LifeOf(q)
  BY <1>1 DEF docker, LifeOf
<1>8. HoldersOf(q) = {}
  <2>1. /\ Idle = {} /\ busy = {} /\ protected = {} /\ hpc = "off"
        /\ \A r \in Runners : watch[r] = "none"
        /\ listed = {} /\ rcur = NoRunner /\ srefs = {} /\ scur = NoRunner
        /\ refs = <<>>
    BY <1>1 DEF OwnInv, IndInv, ModeInv, HandlerInv
  <2>2. ProvisionClaim = {} /\ ToSet(refs) = {} /\ WatchClaims = {} /\ Main = {}
    BY <2>1 DEF ProvisionClaim, ToSet, WatchClaims, Main
  <2>3. HoldersAre(q)
    BY HoldersMean
  <2> QED BY <2>1, <2>2, <2>3 DEF HoldersAre, Names
<1>9. Owned(q)!Launch
  BY <1>1, <1>6, <1>7, <1>8 DEF Owned!Launch
<1> QED BY <1>9 DEF OwnStep, Owned!Next

LEMMA OwnEnd ==
  ASSUME OwnInv, Exit \/ JoinTimeout \/ Crash, NEW q \in Runners
  PROVE  OwnStep(q)
<1>1. ProcessEnds /\ mode # "down"
  BY DEF Exit, JoinTimeout, Crash
<1>2. /\ Idle' = {} /\ busy' = {} /\ protected' = {}
      /\ HandlerClaims' = {} /\ WatchClaims' = {} /\ MainClaims' = {}
      /\ mode' = "down"
  BY EndMove DEF OwnInv
<1>3. HoldersOf(q)' = {}
  <2>1. /\ ProvisionClaim' = {} /\ ToSet(refs)' = {} /\ listed' = {} /\ Main' = {}
    BY <1>2 DEF HandlerClaims, MainClaims, Main
  <2> QED BY <1>2, <2>1, HoldersGone
<1>4. LifeOf(q)' = LifeOf(q) /\ raised' = {}
  BY <1>1 DEF ProcessEnds, docker, LifeOf
<1>5. Owned(q)!ProcessEnds
  BY <1>1, <1>2, <1>3, <1>4 DEF Owned!ProcessEnds
<1> QED BY <1>5 DEF OwnStep, Owned!Next

LEMMA OwnStutter ==
  ASSUME UNCHANGED vars, NEW q \in Runners
  PROVE  OwnStep(q)
<1>1. HoldersOf(q)' = HoldersOf(q)
  BY HoldersUnchanged DEF HoldsAsBefore, vars, runnerState, watches, handler, phase, Idle,
     ProvisionClaim, WatchClaims, Main
<1>2. LifeOf(q)' = LifeOf(q) /\ mode' = mode /\ raised' = raised
  BY DEF vars, docker, phase, LifeOf
<1> QED BY <1>1, <1>2 DEF OwnStep, Owned!vars

-----------------------------------------------------------------------------
LEMMA OwnNext == OwnInv /\ OwnInv' /\ [Next]_vars => \A q \in Runners : OwnStep(q)
<1> SUFFICES ASSUME OwnInv, OwnInv', [Next]_vars, NEW q \in Runners PROVE OwnStep(q)
  OBVIOUS
<1>1. IndInv
  BY DEF OwnInv
<1>2. ASSUME NEW r \in Runners,
             ContainerExits(r) \/ ContainerVanishes(r) \/ StopManaged(r)
      PROVE  OwnStep(q)
  BY <1>1, <1>2, OwnEnvironment
<1>3. ASSUME NEW r \in Runners, WaitReturns(r) \/ WatchReturns(r) \/ WaitFails(r)
      PROVE  OwnStep(q)
  BY <1>1, <1>3, CalmWatch, OwnCalm
<1>4. CASE \/ ReceiveMessage \/ ListenerFails \/ ListenerCancelled \/ NoJobEvent
           \/ \E jobs \in 0 .. MaxJobs : HandleDesiredRunnerCount(jobs)
           \/ StartManaged \/ StartFails \/ WatchRunner
  BY <1>1, <1>4, CalmHandler, OwnCalm
<1>5. CASE \/ StartupDone \/ Signal \/ FatalError \/ JoinListener \/ BusyCleaned
           \/ \E r \in Runners : CleanupRef(r)
  BY <1>1, <1>5, CalmMain, OwnCalm
<1>6. ASSUME NEW r \in Runners,
             \/ HandleJobStarted(r) \/ HandleJobCompleted(r)
             \/ ReleaseWatchOwnership(r) \/ RecoverRunner(r)
      PROVE  OwnStep(q)
  BY <1>6, OwnJobStarted, OwnJobCompleted, OwnRelease, OwnRecover
<1>7. CASE RegisterRunner \/ ScaleDown \/ JoinWatches \/ IdleCleaned
  BY <1>7, OwnRegister, OwnScaleDown, OwnJoinWatches, OwnIdleCleaned
<1>8. ASSUME NEW r \in Runners, WatchRemoved(r) \/ WatchRemovalFails(r)
      PROVE  OwnStep(q)
  BY <1>8, OwnWatchEnds
<1>9. CASE CompletedRunnerRemoved \/ SurplusRunnerRemoved
  BY <1>9, OwnHandlerEnds
<1>10. CASE RecoverRunnerRemoved \/ CleanupRefRemoved \/ CleanupRefFails
  <2>1. /\ RecoverRunnerRemoved => rcur \in Runners
        /\ CleanupRefRemoved \/ CleanupRefFails => scur \in Runners
    BY DEF OwnInv, IndInv, TypeOK, RecoverRunnerRemoved, CleanupRefRemoved, CleanupRefFails
  <2> QED BY <1>10, <2>1, OwnMainEnds
<1>11. CASE HandlerRemovalFails \/ StartupFails \/ CleanupAfterProvisionFailure
  BY <1>11, OwnHandlerFails, OwnStartupFails, OwnUndo
<1>12. CASE CreateManaged \/ ProvisionFails \/ Launch \/ Exit \/ JoinTimeout \/ Crash
  BY <1>12, OwnCreate, OwnLaunch, OwnEnd
<1>13. CASE UNCHANGED vars
  BY <1>13, OwnStutter
<1> QED
  BY <1>2, <1>3, <1>4, <1>5, <1>6, <1>7, <1>8, <1>9, <1>10, <1>11, <1>12, <1>13
  DEF Next, Environment, WatchStep, HandlerStep, RecoverStep, ShutdownStep

LEMMA OwnInit == Init => \A r \in Runners : Owned(r)!Init
<1> SUFFICES ASSUME Init, NEW r \in Runners PROVE Owned(r)!Init
  OBVIOUS
<1>1. HoldersOf(r) = {}
  <2>1. /\ Idle = {} /\ ToSet(refs) = {} /\ ProvisionClaim = {} /\ WatchClaims = {}
        /\ busy = {} /\ protected = {} /\ listed = {} /\ Main = {}
    BY DEF Init, NewRunnerState, Idle, ToSet, ProvisionClaim, WatchClaims, Main
  <2>2. HoldersAre(r)
    BY HoldersMean
  <2> QED BY <2>1, <2>2 DEF HoldersAre, Names
<1>2. LifeOf(r) = "none"
  BY DEF Init, LifeOf, Live
<1> QED BY <1>1, <1>2 DEF Init, Owned!Init

(* Together with IndInv, what the ownership of runners rests on: the runner *)
(* that Recover's or Shutdown's loop has in hand is behind it, not ahead    *)
(* (the range loops of scaler.go).                                          *)
THEOREM OwnInvHolds == Spec => []OwnInv
<1>1. Init => OwnInv
  BY IndInvInit, AtHandInit DEF OwnInv
<1>2. OwnInv /\ [Next]_vars => OwnInv'
  BY IndInvStep, AtHandStep DEF OwnInv
<1> QED BY <1>1, <1>2, PTL DEF Spec

OwnSteps == \A r \in Runners : [Owned(r)!Next]_(Owned(r)!vars)

(* scaler.go implements Ownership for every runner, whatever the number of  *)
(* runners and process lives: each handler, watch, Recover and Shutdown     *)
(* step hands a runner on along one of its routes, lets it go with its      *)
(* container removed or an error reported, or does not touch it.            *)
THEOREM OwnershipIsKept == Spec => OwnershipKept
<1>1. OwnInv /\ OwnInv' /\ [Next]_vars => [OwnSteps]_vars
  BY OwnNext DEF OwnStep, OwnSteps
<1>2. Spec => [][OwnSteps]_vars
  BY <1>1, OwnInvHolds, PTL DEF Spec
<1>3. Spec => \A r \in Runners : Owned(r)!Init
  BY OwnInit DEF Spec
<1> QED BY <1>2, <1>3 DEF OwnershipKept, OwnSteps

(* Whoever takes a runner to remove it keeps it until it lets it go, so a   *)
(* second removal or a return into the table cannot follow; and an adopted  *)
(* runner goes to nobody but its watch (takeOwnership, takeProtected,       *)
(* scaleDownIdle, takeAllIdle and takeAllBusy of scaler_state.go).          *)
THEOREM TakenOnce == Spec => [][\A r \in Runners : Owned(r)!TakenForGood]_vars
<1>1. OwnInv /\ OwnInv' /\ [Next]_vars => \A r \in Runners : Owned(r)!TakenForGood
  <2> SUFFICES ASSUME OwnInv, OwnInv', [Next]_vars, NEW r \in Runners
               PROVE  Owned(r)!TakenForGood
    OBVIOUS
  <2>1. OwnStep(r)
    BY OwnNext
  <2>2. CASE UNCHANGED Owned(r)!vars
    BY <2>2 DEF Owned!vars, Owned!TakenForGood
  <2>3. CASE Owned(r)!Pass
    <3>1. PICK route \in Owned(r)!Routes : HoldersOf(r) = {route[1]} /\ HoldersOf(r)' = {route[2]}
      BY <2>3 DEF Owned!Pass
    <3>2. /\ route[1] \notin Owned(r)!Removers
          /\ route[1] = "protected" => route[2] = "watch"
      BY DEF Owned!Routes, Owned!Removers
    <3> QED BY <3>1, <3>2 DEF Owned!TakenForGood
  <2>4. CASE \/ Owned(r)!Launch \/ Owned(r)!Create \/ Owned(r)!CreateUnseen
             \/ Owned(r)!Finish \/ Owned(r)!GiveUp \/ Owned(r)!Forget
             \/ Owned(r)!Vanish \/ Owned(r)!Report \/ Owned(r)!ProcessEnds
    BY <2>4 DEF Owned!Launch, Owned!Create, Owned!CreateUnseen, Owned!Finish, Owned!GiveUp,
       Owned!Forget, Owned!Vanish, Owned!Report, Owned!ProcessEnds, Owned!TakenForGood
  <2> QED BY <2>1, <2>2, <2>3, <2>4 DEF OwnStep, Owned!Next
<1> QED BY <1>1, OwnInvHolds, PTL DEF Spec
=============================================================================
