-------------------------------- MODULE App ---------------------------------
(***************************************************************************)
(* internal/app: Serve with startup, wait and shutdown, in one process.    *)
(* The main goroutine opens the components one by one, waits for a signal  *)
(* or a failure, and closes them in a fixed order; the listener goroutine, *)
(* the watches of the scaler and the health server run beside it.          *)
(*                                                                         *)
(* A channel of capacity one is "empty" or holds "nil" or "error"; "nil"   *)
(* also stands for context.Canceled, which wait ignores as well.           *)
(***************************************************************************)
EXTENDS HealthServer, Naturals

CONSTANT MaxWatches   \* bound: watches that run at the same time

ASSUME MaxWatchesAssumption == MaxWatches \in Nat

VARIABLES
  main,         \* the next step of the main goroutine
  signalled,    \* signalCtx is done
  docker,       \* app.docker
  session,      \* app.session
  scaler,       \* app.scaler
  watches,      \* number of watch goroutines of the scaler
  scalerErrCh,  \* DockerScaler.errCh
  listener,     \* where the listener goroutine is
  runErr,       \* what listener.Run has returned
  errCh,        \* app.errCh
  cause,        \* the error of startup or wait
  scalerErr,    \* the error of DockerScaler.Shutdown
  status        \* "none", and then what Serve returns

comps  == <<docker, session, scaler>>
watch  == <<watches, scalerErrCh>>
listen == <<listener, runErr, errCh>>
errs   == <<cause, scalerErr, status>>
vars   == <<store, health, main, signalled, comps, watch, listen, errs>>

Starting == {"docker", "checks", "recover", "session", "health", "listener"}
Stopping == {"sessionFlag", "listenerFlag", "join", "scaler", "scalerJoin", "scalerClean",
             "healthStop", "healthJoin", "sessionClose", "dockerClose"}

TypeOK ==
  /\ HealthTypeOK
  /\ main \in Starting \cup {"wait", "cancel"} \cup Stopping \cup {"end"}
  /\ signalled \in BOOLEAN
  /\ docker \in {"none", "open", "closed"} /\ session \in {"none", "open", "closed"}
  /\ scaler \in {"none", "running", "stopping", "stopped"}
  /\ watches \in 0 .. MaxWatches
  /\ scalerErrCh \in {"empty", "error"}
  /\ listener \in {"none", "begin", "run", "handle", "ended", "posting", "done"}
  /\ runErr \in {"nil", "error"}
  /\ errCh \in {"empty", "nil", "error"}
  /\ cause \in {"nil", "error"} /\ scalerErr \in {"nil", "error"}
  /\ status \in {"none", "ok", "error"}
  /\ status = "none" <=> main # "end"

Init ==
  /\ NewHealthServer
  /\ main = "docker" /\ signalled = FALSE
  /\ docker = "none" /\ session = "none" /\ scaler = "none"
  /\ watches = 0 /\ scalerErrCh = "empty"
  /\ listener = "none" /\ runErr = "nil" /\ errCh = "empty"
  /\ cause = "nil" /\ scalerErr = "nil" /\ status = "none"

(* runCtx is done: it descends from signalCtx, and shutdown cancels it.     *)
Cancelled == signalled \/ main \in Stopping

Signal ==
  /\ ~signalled /\ main # "end"
  /\ signalled' = TRUE
  /\ UNCHANGED <<store, health, main, comps, watch, listen, errs>>

-----------------------------------------------------------------------------
(* The listener goroutine: the closure of startup around listener.Run.      *)

Others == <<health, main, signalled, comps, errs>>

ListenerBegins ==
  /\ listener = "begin" /\ listener' = "run"
  /\ SetListenerRunning(TRUE)
  /\ UNCHANGED <<Others, watch, runErr, errCh>>

HandlerBegins ==
  /\ listener = "run" /\ listener' = "handle"
  /\ UNCHANGED <<Others, store, watch, runErr, errCh>>

HandlerReturns ==
  /\ listener = "handle" /\ listener' = "run"
  /\ UNCHANGED <<Others, store, watch, runErr, errCh>>

(* With the cancelled context between two handlers, or with an error.       *)
RunReturns ==
  /\ \/ listener = "run" /\ Cancelled /\ runErr' = "nil"
     \/ listener \in {"run", "handle"} /\ runErr' = "error"
  /\ listener' = "ended"
  /\ UNCHANGED <<Others, store, watch, errCh>>

\* Mutant: the flag is left on when the listener has returned.
ListenerEndsReady ==
  /\ listener = "ended" /\ listener' = "posting"
  /\ UNCHANGED <<Others, store, watch, runErr, errCh>>

ListenerEnds ==
  /\ listener = "ended" /\ listener' = "posting"
  /\ SetListenerRunning(FALSE)
  /\ UNCHANGED <<Others, watch, runErr, errCh>>

(* Into the buffer, whether wait still reads or not.                        *)
ListenerPosts ==
  /\ listener = "posting" /\ errCh = "empty"
  /\ errCh' = runErr /\ listener' = "done"
  /\ UNCHANGED <<Others, store, watch, runErr>>

-----------------------------------------------------------------------------
(* The watches: Recover and the handlers start them; each ends by itself,   *)
(* and the first that fails leaves its error in the channel.                *)

WatchStarts ==
  /\ scaler = "running" /\ (main = "recover" \/ listener = "handle")
  /\ watches < MaxWatches
  /\ watches' = watches + 1
  /\ UNCHANGED <<Others, store, listen, scalerErrCh>>

WatchEnds ==
  /\ watches > 0 /\ watches' = watches - 1
  /\ scalerErrCh' \in {scalerErrCh, "error"}
  /\ UNCHANGED <<Others, store, listen>>

-----------------------------------------------------------------------------
(* startup: every step may fail, and then shutdown follows.                 *)

Fails(err) == cause' = err /\ main' = "cancel"

OpenDocker ==
  /\ main = "docker"
  /\ \/ docker' = "open" /\ main' = "checks" /\ UNCHANGED cause
     \/ UNCHANGED docker /\ Fails("error")
  /\ UNCHANGED <<store, health, signalled, session, scaler, watch, listen, scalerErr, status>>

(* Versions, runtime, image, scale set, and NewDockerScaler.                *)
NewScaler ==
  /\ main = "checks"
  /\ \/ scaler' = "running" /\ main' = "recover" /\ UNCHANGED cause
     \/ UNCHANGED scaler /\ Fails("error")
  /\ UNCHANGED <<store, health, signalled, docker, session, watch, listen, scalerErr, status>>

Recover ==
  /\ main = "recover"
  /\ \/ main' = "session" /\ UNCHANGED cause
     \/ Fails("error")
  /\ UNCHANGED <<store, health, signalled, comps, watch, listen, scalerErr, status>>

(* The session, and the listener built on it.                               *)
OpenSession ==
  /\ main = "session"
  /\ \/ session' = "open" /\ main' = "health" /\ UNCHANGED cause
     \/ session' \in {session, "open"} /\ Fails("error")
  /\ UNCHANGED <<store, health, signalled, docker, scaler, watch, listen, scalerErr, status>>

StartHealth ==
  /\ main = "health"
  /\ \/ Start /\ main' = "listener" /\ UNCHANGED cause
     \/ UNCHANGED health /\ Fails("error")
  /\ UNCHANGED <<store, signalled, comps, watch, listen, scalerErr, status>>

StartListener ==
  /\ main = "listener"
  /\ SetSessionRunning(TRUE)
  /\ listener' = "begin" /\ main' = "wait"
  /\ UNCHANGED <<health, signalled, comps, watch, runErr, errCh, errs>>

-----------------------------------------------------------------------------
(* wait: one ready channel is picked; a nil result is dropped.              *)

SignalSeen ==
  /\ main = "wait" /\ signalled /\ main' = "cancel"
  /\ UNCHANGED <<store, health, signalled, comps, watch, listen, errs>>

Received(value) == IF value = "error" THEN Fails("error") ELSE UNCHANGED <<main, cause>>

ListenerResult ==
  /\ main = "wait" /\ errCh # "empty" /\ errCh' = "empty"
  /\ Received(errCh)
  /\ UNCHANGED <<store, health, signalled, comps, watch, listener, runErr, scalerErr, status>>

ScalerResult ==
  /\ main = "wait" /\ scalerErrCh # "empty" /\ scalerErrCh' = "empty"
  /\ Received(scalerErrCh)
  /\ UNCHANGED <<store, health, signalled, comps, watches, listen, scalerErr, status>>

HealthResult ==
  /\ main = "wait" /\ healthErrCh # "empty" /\ healthErrCh' = "empty"
  /\ Received(healthErrCh)
  /\ UNCHANGED <<store, server, closing, signalled, comps, watch, listen, scalerErr, status>>

-----------------------------------------------------------------------------
(* shutdown.  A component that startup did not reach is skipped.            *)

Still == <<signalled, watch, listen>>

Cancel ==
  /\ main = "cancel"
  /\ main' = IF server = "new" THEN "join" ELSE "sessionFlag"
  /\ UNCHANGED <<store, health, Still, comps, errs>>

\* Mutant: only the listener's flag is cleared.
ClearSessionFlagNot ==
  /\ main = "sessionFlag" /\ main' = "listenerFlag"
  /\ UNCHANGED <<store, health, Still, comps, errs>>

ClearSessionFlag ==
  /\ main = "sessionFlag" /\ main' = "listenerFlag"
  /\ SetSessionRunning(FALSE)
  /\ UNCHANGED <<health, Still, comps, errs>>

ClearListenerFlag ==
  /\ main = "listenerFlag" /\ main' = "join"
  /\ SetListenerRunning(FALSE)
  /\ UNCHANGED <<health, Still, comps, errs>>

\* Mutant: the listener is not waited for.
JoinListenerNot ==
  /\ main = "join" /\ main' = "scaler"
  /\ UNCHANGED <<store, health, Still, comps, errs>>

JoinListener ==
  /\ main = "join" /\ listener \in {"none", "done"} /\ main' = "scaler"
  /\ UNCHANGED <<store, health, Still, comps, errs>>

(* The process goes down with the goroutine that did not end.               *)
Abort == main' = "end" /\ status' = "error" /\ UNCHANGED <<cause, scalerErr>>

(* Both channels of the select may be ready: then either is picked.         *)
JoinTimeout ==
  /\ main = "join"
  /\ Abort
  /\ UNCHANGED <<store, health, Still, comps>>

ShutdownScaler ==
  /\ main = "scaler"
  /\ IF scaler = "none" THEN main' = "healthStop" /\ UNCHANGED scaler
                        ELSE main' = "scalerJoin" /\ scaler' = "stopping"
  /\ UNCHANGED <<store, health, Still, docker, session, errs>>

\* Mutant: the watches are cancelled, but not waited for.
JoinWatchesNot ==
  /\ main = "scalerJoin" /\ main' = "scalerClean"
  /\ UNCHANGED <<store, health, Still, comps, errs>>

JoinWatches ==
  /\ main = "scalerJoin" /\ watches = 0 /\ main' = "scalerClean"
  /\ UNCHANGED <<store, health, Still, comps, errs>>

WatchJoinTimeout ==
  /\ main = "scalerJoin"
  /\ Abort
  /\ UNCHANGED <<store, health, Still, comps>>

(* The cleanup of the runners; its error does not keep the rest open.       *)
CleanupRefs ==
  /\ main = "scalerClean" /\ main' = "healthStop"
  /\ scaler' = "stopped" /\ scalerErr' \in {"nil", "error"}
  /\ UNCHANGED <<store, health, Still, docker, session, cause, status>>

StopHealth ==
  /\ main = "healthStop"
  /\ IF server \in {"new", "done"} THEN main' = "sessionClose" /\ UNCHANGED health
                                   ELSE main' = "healthJoin" /\ CloseServer
  /\ UNCHANGED <<store, Still, comps, errs>>

JoinHealth ==
  /\ main = "healthJoin" /\ Joined /\ main' = "sessionClose"
  /\ UNCHANGED <<store, health, Still, comps, errs>>

CloseIf(comp) == IF comp = "open" THEN "closed" ELSE comp

CloseSession ==
  /\ main = "sessionClose" /\ main' = "dockerClose"
  /\ session' = CloseIf(session)
  /\ UNCHANGED <<store, health, Still, docker, scaler, errs>>

\* Mutant: Serve returns what shutdown returned, without the cause.
ServeReturnsShutdownOnly ==
  /\ main = "dockerClose" /\ main' = "end"
  /\ docker' = CloseIf(docker)
  /\ status' = IF scalerErr = "error" THEN "error" ELSE "ok"
  /\ UNCHANGED <<store, health, Still, session, scaler, cause, scalerErr>>

(* errors.Join of the cause and of what shutdown returns.                   *)
CloseDocker ==
  /\ main = "dockerClose" /\ main' = "end"
  /\ docker' = CloseIf(docker)
  /\ status' = IF "error" \in {cause, scalerErr} THEN "error" ELSE "ok"
  /\ UNCHANGED <<store, health, Still, session, scaler, cause, scalerErr>>

-----------------------------------------------------------------------------
HealthStep ==
  /\ ServeReturns \/ SendResult \/ CloseDoneCh
  /\ UNCHANGED <<store, main, signalled, comps, watch, listen, errs>>

ListenerStep == ListenerBegins \/ ListenerEnds \/ ListenerPosts

Startup == OpenDocker \/ NewScaler \/ Recover \/ OpenSession \/ StartHealth \/ StartListener

Wait == SignalSeen \/ ListenerResult \/ ScalerResult \/ HealthResult

Shutdown ==
  \/ Cancel \/ ClearSessionFlag \/ ClearListenerFlag
  \/ JoinListener \/ JoinTimeout
  \/ ShutdownScaler \/ JoinWatches \/ WatchJoinTimeout \/ CleanupRefs
  \/ StopHealth \/ JoinHealth \/ CloseSession \/ CloseDocker

(* When Serve has returned, the process and its goroutines are gone.        *)
Next ==
  \/ Signal
  \/ /\ main # "end"
     /\ \/ HealthStep \/ ListenerStep \/ HandlerBegins \/ HandlerReturns \/ RunReturns
        \/ WatchStarts \/ WatchEnds
        \/ Startup \/ Wait \/ Shutdown

Spec == Init /\ [][Next]_vars

(* Goroutines that can run do run, and the calls and joins of startup and   *)
(* shutdown end, by their deadlines at the latest.  That a handler, a watch *)
(* or listener.Run ever returns is not assumed, nor that a server fails.    *)
Fairness ==
  /\ WF_vars(Startup \/ Wait \/ Shutdown)
  /\ WF_vars(main # "end" /\ HealthStep /\ (closing \/ server # "serving"))

FairSpec == Spec /\ Fairness
-----------------------------------------------------------------------------
(* Once shutdown has passed the flags, /readyz never says ready again,      *)
(* although the listener goroutine may begin late and set its own flag.     *)
NotReadyOnceStopping ==
  main \in (Stopping \cup {"end"}) \ {"sessionFlag"} => ~Ready

(* /readyz says ready only while messages can be received and handled: the  *)
(* session is open, the listener has not gone, and what a handler uses is   *)
(* there.                                                                   *)
ReadyMeansServing ==
  Ready => /\ session = "open" /\ docker = "open" /\ scaler = "running"
           /\ listener \in {"run", "handle", "ended"}
           /\ server # "new"

(* Nothing a handler or a watch uses is closed under it: "Do not close      *)
(* dependencies while a handler is still running" (shutdown.go:46).         *)
ClosedAfterUse ==
  "closed" \in {docker, session} \/ scaler = "stopped" =>
    listener \in {"none", "done"} /\ watches = 0

(* Serve returns nil only for a signal, when every goroutine was joined and *)
(* every component closed: any other end is a failure, so that the process  *)
(* is restarted (errListenerJoinTimeout: "makes a listener timeout fail the *)
(* process restart").                                                       *)
StatusTruthful ==
  status = "ok" =>
    /\ signalled
    /\ listener = "done" /\ watches = 0 /\ server = "done"
    /\ docker = "closed" /\ session = "closed" /\ scaler = "stopped"

(* The order Lifecycle promises to the scaler.                              *)
ScalerPhase ==
  IF scaler = "none" \/ main = "end" THEN "down"
  ELSE IF main \in Starting THEN "recover"
  ELSE IF main = "wait" THEN "serve"
  ELSE IF scaler = "running" THEN "stop" ELSE "shutdown"

Listening == listener \notin {"none", "done"} /\ main # "end"

Order == INSTANCE Lifecycle WITH phase <- ScalerPhase, listening <- Listening

LifecycleKept == Order!Spec

(* A signal, or an error in any channel, ends the process, even if a        *)
(* handler or a watch never returns.                                        *)
ProcessStops ==
  (signalled \/ "error" \in {cause, errCh, scalerErrCh, healthErrCh}) ~> (main = "end")
=============================================================================
