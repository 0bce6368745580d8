----------------------------- MODULE AppProofs ------------------------------
(***************************************************************************)
(* Proofs about App, for any number of watches.  The invariants say what   *)
(* is open at each step of the main goroutine; only with them in hand can  *)
(* a step of another goroutine be seen to be harmless.                     *)
(***************************************************************************)
EXTENDS App, TLAPS

(* What is open at each step of startup, wait and shutdown.                 *)
OpenInv ==
  /\ main \in Starting \cup {"wait"} =>
       /\ docker # "closed" /\ (docker = "open" <=> main # "docker")
       /\ session # "closed" /\ (session = "open" <=> main \in {"health", "listener", "wait"})
       /\ scaler = IF main \in {"docker", "checks"} THEN "none" ELSE "running"
       /\ server = "new" <=> main \in Starting \ {"listener"}
  /\ session = "closed" => main \in {"dockerClose", "end"}
  /\ docker = "closed" => main = "end"
  /\ main \in {"cancel", "sessionFlag", "listenerFlag", "join", "scaler"} =>
       scaler \in {"none", "running"}
  /\ main \in {"scalerJoin", "scalerClean"} => scaler = "stopping"
  /\ main \in {"healthStop", "healthJoin", "sessionClose", "dockerClose"} =>
       scaler \in {"none", "stopped"}
  /\ main \in {"sessionClose", "dockerClose"} => server \in {"new", "done"}
  /\ main = "dockerClose" => session # "open"

(* The listener goroutine exists from the end of startup on, and is gone    *)
(* when the scaler is shut down; the watches are gone when that is done.    *)
JoinInv ==
  /\ main = "wait" => listener # "none"
  /\ listener # "none" =>
       /\ docker # "none" /\ session # "none" /\ scaler # "none" /\ server # "new"
       /\ main \notin Starting
  /\ main \in {"scaler", "scalerJoin", "scalerClean", "healthStop", "healthJoin",
               "sessionClose", "dockerClose"} =>
       listener \in {"none", "done"}
  /\ watches > 0 => scaler \in {"running", "stopping"}
  /\ main = "scalerClean" => watches = 0

(* A stop without a cause comes from a signal that wait has seen.           *)
CauseInv ==
  /\ main \in Starting \cup {"wait"} => cause = "nil"
  /\ main \in Stopping \cup {"cancel"} /\ cause = "nil" => signalled /\ listener # "none"

(* The flags of the store.                                                  *)
FlagsInv ==
  /\ sessionRunning => main \in {"wait", "cancel", "sessionFlag"} /\ server # "new"
  /\ listenerRunning => listener \in {"run", "handle", "ended"}

IndInv ==
  /\ TypeOK
  /\ OpenInv
  /\ JoinInv
  /\ CauseInv
  /\ FlagsInv
  /\ ClosedAfterUse
  /\ StatusTruthful

-----------------------------------------------------------------------------
LEMMA IndInvInit == Init => IndInv
<1> SUFFICES ASSUME Init PROVE IndInv
  OBVIOUS
<1>1. /\ sessionRunning \in BOOLEAN /\ listenerRunning \in BOOLEAN /\ closing \in BOOLEAN
      /\ ~sessionRunning /\ ~listenerRunning /\ signalled \in BOOLEAN
  BY Zenon DEF Init, NewHealthServer
<1>2. /\ server = "new" /\ healthErrCh = "empty" /\ main = "docker"
      /\ docker = "none" /\ session = "none" /\ scaler = "none"
      /\ watches = 0 /\ scalerErrCh = "empty" /\ listener = "none" /\ runErr = "nil"
      /\ errCh = "empty" /\ cause = "nil" /\ scalerErr = "nil" /\ status = "none"
  BY DEF Init, NewHealthServer
<1> QED
  BY <1>1, <1>2, MaxWatchesAssumption
  DEF IndInv, TypeOK, HealthTypeOK, OpenInv, JoinInv, CauseInv, FlagsInv, ClosedAfterUse,
      StatusTruthful, Starting, Stopping

(* Goroutines: the listener, the watches, the health server, and the signal. *)
LEMMA GoroutineStep ==
  ASSUME IndInv, main # "end",
         \/ Signal \/ HealthStep \/ ListenerBegins \/ HandlerBegins \/ HandlerReturns
         \/ RunReturns \/ ListenerEnds \/ ListenerPosts \/ WatchStarts \/ WatchEnds
  PROVE  IndInv'
<1> USE MaxWatchesAssumption
    DEF IndInv, TypeOK, HealthTypeOK, OpenInv, JoinInv, CauseInv, FlagsInv, ClosedAfterUse,
        StatusTruthful, Starting, Stopping, store, health, comps, watch, listen, errs, Others
<1>1. CASE Signal
  BY <1>1 DEF Signal
<1>2. CASE HealthStep
  BY <1>2 DEF HealthStep, ServeReturns, SendResult, CloseDoneCh
<1>3. CASE ListenerBegins
  BY <1>3 DEF ListenerBegins, SetListenerRunning
<1>4. CASE HandlerBegins
  BY <1>4 DEF HandlerBegins
<1>5. CASE HandlerReturns
  BY <1>5 DEF HandlerReturns
<1>6. CASE RunReturns
  BY <1>6 DEF RunReturns, Cancelled
<1>7. CASE ListenerEnds
  <2>1. listenerRunning' \in BOOLEAN /\ ~listenerRunning'
    BY <1>7, Zenon DEF ListenerEnds, SetListenerRunning
  <2>2. /\ listener = "ended" /\ listener' = "posting"
        /\ UNCHANGED <<Others, watch, runErr, errCh, sessionRunning>>
    BY <1>7 DEF ListenerEnds, SetListenerRunning
  <2> QED BY <2>1, <2>2
<1>8. CASE ListenerPosts
  BY <1>8 DEF ListenerPosts
<1>9. CASE WatchStarts
  BY <1>9 DEF WatchStarts
<1>10. CASE WatchEnds
  BY <1>10 DEF WatchEnds
<1> QED BY <1>1, <1>2, <1>3, <1>4, <1>5, <1>6, <1>7, <1>8, <1>9, <1>10

(* startup and wait.                                                        *)
LEMMA MainStep ==
  ASSUME IndInv, main # "end",
         \/ OpenDocker \/ NewScaler \/ Recover \/ OpenSession \/ StartHealth
         \/ StartListener \/ SignalSeen \/ ListenerResult \/ ScalerResult \/ HealthResult
  PROVE  IndInv'
<1> USE MaxWatchesAssumption
    DEF IndInv, TypeOK, HealthTypeOK, OpenInv, JoinInv, CauseInv, FlagsInv, ClosedAfterUse,
        StatusTruthful, Starting, Stopping, store, health, comps, watch, listen, errs
<1>1. CASE OpenDocker
  BY <1>1 DEF OpenDocker, Fails
<1>2. CASE NewScaler
  BY <1>2 DEF NewScaler, Fails
<1>3. CASE Recover
  BY <1>3 DEF Recover, Fails
<1>4. CASE OpenSession
  BY <1>4 DEF OpenSession, Fails
<1>5. CASE StartHealth
  BY <1>5 DEF StartHealth, Fails, Start
<1>6. CASE StartListener
  BY <1>6 DEF StartListener, SetSessionRunning
<1>7. CASE SignalSeen
  BY <1>7 DEF SignalSeen
<1>8. CASE ListenerResult
  BY <1>8 DEF ListenerResult, Received, Fails
<1>9. CASE ScalerResult
  BY <1>9 DEF ScalerResult, Received, Fails
<1>10. CASE HealthResult
  BY <1>10 DEF HealthResult, Received, Fails
<1> QED BY <1>1, <1>2, <1>3, <1>4, <1>5, <1>6, <1>7, <1>8, <1>9, <1>10

(* shutdown.                                                                *)
LEMMA ShutdownStep ==
  ASSUME IndInv, main # "end",
         \/ Cancel \/ ClearSessionFlag \/ ClearListenerFlag \/ JoinListener \/ JoinTimeout
         \/ ShutdownScaler \/ JoinWatches \/ WatchJoinTimeout \/ CleanupRefs \/ StopHealth
         \/ JoinHealth \/ CloseSession \/ CloseDocker
  PROVE  IndInv'
<1> USE MaxWatchesAssumption
    DEF IndInv, TypeOK, HealthTypeOK, OpenInv, JoinInv, CauseInv, FlagsInv, ClosedAfterUse,
        StatusTruthful, Starting, Stopping, store, health, comps, watch, listen, errs, Still
<1>1. CASE Cancel
  BY <1>1 DEF Cancel
<1>2. CASE ClearSessionFlag
  <2>1. sessionRunning' \in BOOLEAN /\ ~sessionRunning'
    BY <1>2, Zenon DEF ClearSessionFlag, SetSessionRunning
  <2>2. /\ main = "sessionFlag" /\ main' = "listenerFlag"
        /\ UNCHANGED <<health, Still, comps, errs, listenerRunning>>
    BY <1>2 DEF ClearSessionFlag, SetSessionRunning
  <2> QED BY <2>1, <2>2
<1>3. CASE ClearListenerFlag
  <2>1. listenerRunning' \in BOOLEAN /\ ~listenerRunning'
    BY <1>3, Zenon DEF ClearListenerFlag, SetListenerRunning
  <2>2. /\ main = "listenerFlag" /\ main' = "join"
        /\ UNCHANGED <<health, Still, comps, errs, sessionRunning>>
    BY <1>3 DEF ClearListenerFlag, SetListenerRunning
  <2> QED BY <2>1, <2>2
<1>4. CASE JoinListener
  BY <1>4 DEF JoinListener
<1>5. CASE JoinTimeout
  BY <1>5 DEF JoinTimeout, Abort
<1>6. CASE ShutdownScaler
  BY <1>6 DEF ShutdownScaler
<1>7. CASE JoinWatches
  BY <1>7 DEF JoinWatches
<1>8. CASE WatchJoinTimeout
  BY <1>8 DEF WatchJoinTimeout, Abort
<1>9. CASE CleanupRefs
  BY <1>9 DEF CleanupRefs
<1>10. CASE StopHealth
  <2>1. closing' \in BOOLEAN
    BY <1>10, Zenon DEF StopHealth, CloseServer
  <2>2. /\ main = "healthStop"
        /\ IF server \in {"new", "done"} THEN main' = "sessionClose" ELSE main' = "healthJoin"
        /\ UNCHANGED <<store, Still, comps, errs, server, healthErrCh>>
    BY <1>10 DEF StopHealth, CloseServer
  <2> QED BY <2>1, <2>2
<1>11. CASE JoinHealth
  BY <1>11 DEF JoinHealth, Joined
<1>12. CASE CloseSession
  BY <1>12 DEF CloseSession, CloseIf
<1>13. CASE CloseDocker
  BY <1>13 DEF CloseDocker, CloseIf
<1> QED BY <1>1, <1>2, <1>3, <1>4, <1>5, <1>6, <1>7, <1>8, <1>9, <1>10, <1>11, <1>12, <1>13

LEMMA IndInvStep == IndInv /\ [Next]_vars => IndInv'
<1> SUFFICES ASSUME IndInv, [Next]_vars PROVE IndInv'
  OBVIOUS
<1>1. CASE UNCHANGED vars
  BY <1>1 DEF vars, store, health, comps, watch, listen, errs, IndInv, TypeOK, HealthTypeOK,
              OpenInv, JoinInv, CauseInv, FlagsInv, ClosedAfterUse, StatusTruthful
<1>2. CASE Signal
  BY <1>2, GoroutineStep DEF Signal
<1>3. CASE main # "end" /\ (HealthStep \/ ListenerStep \/ HandlerBegins \/ HandlerReturns
                            \/ RunReturns \/ WatchStarts \/ WatchEnds)
  BY <1>3, GoroutineStep DEF ListenerStep
<1>4. CASE main # "end" /\ (Startup \/ Wait)
  BY <1>4, MainStep DEF Startup, Wait
<1>5. CASE main # "end" /\ Shutdown
  BY <1>5, ShutdownStep DEF Shutdown
<1> QED BY <1>1, <1>2, <1>3, <1>4, <1>5 DEF Next

LEMMA IndInvHolds == Spec => []IndInv
BY IndInvInit, IndInvStep, PTL DEF Spec

-----------------------------------------------------------------------------
(* Every variable keeps its type, and Serve has a result exactly when it    *)
(* has returned (serve.go:71).                                              *)
THEOREM TypeCorrect == Spec => []TypeOK
<1>1. IndInv => TypeOK
  BY DEF IndInv
<1> QED BY <1>1, IndInvHolds, PTL

(* /readyz is false from the second flag on, whatever the listener          *)
(* goroutine still writes (shutdown.go:42).                                 *)
THEOREM NeverReadyAgain == Spec => []NotReadyOnceStopping
<1>1. IndInv => NotReadyOnceStopping
  BY DEF IndInv, FlagsInv, NotReadyOnceStopping, Ready, Stopping
<1> QED BY <1>1, IndInvHolds, PTL

(* /readyz is true only while the session is open, the listener goroutine   *)
(* is there and what a handler uses is open (serve.go:151).                 *)
THEOREM ReadyIsServing == Spec => []ReadyMeansServing
<1>1. IndInv => ReadyMeansServing
  BY DEF IndInv, TypeOK, OpenInv, JoinInv, FlagsInv, ReadyMeansServing, Ready, Starting, Stopping
<1> QED BY <1>1, IndInvHolds, PTL

(* No dependency is closed under a handler or a watch (shutdown.go:46).     *)
THEOREM NothingClosedInUse == Spec => []ClosedAfterUse
<1>1. IndInv => ClosedAfterUse
  BY DEF IndInv
<1> QED BY <1>1, IndInvHolds, PTL

(* Serve returns nil only after a signal and a complete shutdown            *)
(* (serve.go:71, shutdown.go:52, 63).                                       *)
THEOREM SuccessIsClean == Spec => []StatusTruthful
<1>1. IndInv => StatusTruthful
  BY DEF IndInv
<1> QED BY <1>1, IndInvHolds, PTL

-----------------------------------------------------------------------------
(* Every step of the process is a step of the order that DockerScaler       *)
(* relies on, or leaves it alone.                                           *)
LEMMA OrderStep == IndInv /\ [Next]_vars => [Order!Next]_(Order!vars)
<1> SUFFICES ASSUME IndInv, [Next]_vars PROVE [Order!Next]_(Order!vars)
  OBVIOUS
<1> USE DEF IndInv, TypeOK, OpenInv, JoinInv, Starting, Stopping, ScalerPhase, Listening,
            Order!vars, store, health, comps, watch, listen, errs
<1>1. CASE UNCHANGED vars
  BY <1>1 DEF vars
<1>2. CASE Signal
  BY <1>2 DEF Signal
<1>3. CASE main # "end" /\ HealthStep
  BY <1>3 DEF HealthStep
<1>4. CASE main # "end" /\ (ListenerBegins \/ HandlerBegins \/ HandlerReturns \/ RunReturns
                            \/ ListenerEnds)
  BY <1>4 DEF Others, ListenerBegins, HandlerBegins, HandlerReturns, RunReturns, ListenerEnds
<1>5. CASE main # "end" /\ ListenerPosts
  BY <1>5 DEF Others, ListenerPosts, Order!Next, Order!ListenerReturns
<1>6. CASE main # "end" /\ (WatchStarts \/ WatchEnds)
  BY <1>6 DEF Others, WatchStarts, WatchEnds
<1>7. CASE main # "end" /\ Startup
  <2> USE DEF Fails, Order!Next
  <2>1. CASE OpenDocker     BY <2>1 DEF OpenDocker
  <2>2. CASE NewScaler      BY <2>2 DEF NewScaler, Order!Launch
  <2>3. CASE Recover        BY <2>3 DEF Recover, Order!StartupFails
  <2>4. CASE OpenSession    BY <2>4 DEF OpenSession, Order!StartupFails
  <2>5. CASE StartHealth    BY <2>5 DEF StartHealth, Order!StartupFails
  <2>6. CASE StartListener  BY <2>6 DEF StartListener, Order!StartupDone
  <2> QED BY <1>7, <2>1, <2>2, <2>3, <2>4, <2>5, <2>6 DEF Startup
<1>8. CASE main # "end" /\ Wait
  <2> USE DEF Received, Fails, Order!Next, Order!BeginStop
  <2>1. CASE SignalSeen      BY <2>1 DEF SignalSeen
  <2>2. CASE ListenerResult  BY <2>2 DEF ListenerResult
  <2>3. CASE ScalerResult    BY <2>3 DEF ScalerResult
  <2>4. CASE HealthResult    BY <2>4 DEF HealthResult
  <2> QED BY <1>8, <2>1, <2>2, <2>3, <2>4 DEF Wait
<1>9. CASE main # "end" /\ Shutdown
  <2> USE DEF Still, Order!Next
  <2>1. CASE Cancel             BY <2>1 DEF Cancel
  <2>2. CASE ClearSessionFlag   BY <2>2 DEF ClearSessionFlag
  <2>3. CASE ClearListenerFlag  BY <2>3 DEF ClearListenerFlag
  <2>4. CASE JoinListener       BY <2>4 DEF JoinListener
  <2>5. CASE JoinTimeout        BY <2>5 DEF JoinTimeout, Abort, Order!ProcessEnds
  <2>6. CASE ShutdownScaler     BY <2>6 DEF ShutdownScaler, Order!Shutdown
  <2>7. CASE JoinWatches        BY <2>7 DEF JoinWatches
  <2>8. CASE WatchJoinTimeout   BY <2>8 DEF WatchJoinTimeout, Abort, Order!ProcessEnds
  <2>9. CASE CleanupRefs        BY <2>9 DEF CleanupRefs
  <2>10. CASE StopHealth        BY <2>10 DEF StopHealth
  <2>11. CASE JoinHealth        BY <2>11 DEF JoinHealth
  <2>12. CASE CloseSession      BY <2>12 DEF CloseSession
  <2>13. CASE CloseDocker       BY <2>13 DEF CloseDocker, Order!ProcessEnds
  <2> QED BY <1>9, <2>1, <2>2, <2>3, <2>4, <2>5, <2>6, <2>7, <2>8, <2>9, <2>10, <2>11, <2>12,
             <2>13 DEF Shutdown
<1> QED BY <1>1, <1>2, <1>3, <1>4, <1>5, <1>6, <1>7, <1>8, <1>9 DEF Next, ListenerStep

(* LifecycleKept: Recover runs alone, and the scaler is shut down only when *)
(* no handler can run any more.                                             *)
THEOREM OrderKept == Spec => LifecycleKept
<1>1. Init => Order!Init
  BY DEF Init, Order!Init, ScalerPhase, Listening
<1> QED BY <1>1, IndInvHolds, OrderStep, PTL DEF Spec, LifecycleKept, Order!Spec
=============================================================================
