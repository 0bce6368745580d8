---------------------------- MODULE HealthServer ----------------------------
(***************************************************************************)
(* internal/health/server.go: the readiness flags of Store, each written   *)
(* under its mutex, and the life of the server: Start, the goroutine serve *)
(* and the calls of Shutdown.  errCh has room for one result.  Requests    *)
(* are not modelled: an answer of /readyz is Ready at one moment.          *)
(***************************************************************************)

VARIABLES
  sessionRunning,    \* Store.sessionRunning
  listenerRunning,   \* Store.listenerRunning
  server,            \* "new", and then where the goroutine serve is
  closing,           \* whether http.Server has been told to shut down
  healthErrCh        \* errCh: "empty", or the result of serve

store  == <<sessionRunning, listenerRunning>>
health == <<server, closing, healthErrCh>>

HealthTypeOK ==
  /\ sessionRunning \in BOOLEAN /\ listenerRunning \in BOOLEAN
  /\ server \in {"new", "serving", "closed", "failed", "posted", "done"}
  /\ closing \in BOOLEAN
  /\ healthErrCh \in {"empty", "nil", "error"}

NewHealthServer ==
  /\ sessionRunning = FALSE /\ listenerRunning = FALSE
  /\ server = "new" /\ closing = FALSE /\ healthErrCh = "empty"

Ready == sessionRunning /\ listenerRunning

SetSessionRunning(running)  == sessionRunning' = running /\ UNCHANGED listenerRunning
SetListenerRunning(running) == listenerRunning' = running /\ UNCHANGED sessionRunning

Start == server' = "serving" /\ UNCHANGED <<closing, healthErrCh>>

(* http.Server.Serve returns: told to, or because it cannot accept.         *)
ServeReturns ==
  /\ server = "serving"
  /\ server' = IF closing THEN "closed" ELSE "failed"
  /\ UNCHANGED <<closing, healthErrCh>>

\* Mutant: errCh has no buffer, and nobody reads it during Shutdown.
SendResultUnbuffered ==
  /\ server \in {"closed", "failed"}
  /\ healthErrCh = "empty" /\ ~closing
  /\ healthErrCh' = IF server = "closed" THEN "nil" ELSE "error"
  /\ server' = "posted"
  /\ UNCHANGED closing

(* The result is sent before doneCh is closed.                              *)
SendResult ==
  /\ server \in {"closed", "failed"}
  /\ healthErrCh = "empty"
  /\ healthErrCh' = IF server = "closed" THEN "nil" ELSE "error"
  /\ server' = "posted"
  /\ UNCHANGED closing

CloseDoneCh == server = "posted" /\ server' = "done" /\ UNCHANGED <<closing, healthErrCh>>

(* Shutdown tells a server that has not ended to shut down; graceful or not, *)
(* it then waits for doneCh.                                                *)
CloseServer == server # "done" /\ closing' = TRUE /\ UNCHANGED <<server, healthErrCh>>

Joined == server = "done"
=============================================================================
