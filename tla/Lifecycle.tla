----------------------------- MODULE Lifecycle ------------------------------
(***************************************************************************)
(* The order in which Serve uses the scaler, as the scaler relies on it:   *)
(* Recover alone, then the listener goroutine with the handlers, then      *)
(* Shutdown, once no handler runs any more.  DockerScaler assumes this     *)
(* order of its surroundings; App is the code that keeps it.               *)
(***************************************************************************)

VARIABLES
  phase,      \* what the main goroutine does to the scaler
  listening   \* whether the listener goroutine may call a handler

vars == <<phase, listening>>

Init == phase = "down" /\ listening = FALSE

Launch       == phase = "down" /\ phase' = "recover" /\ UNCHANGED listening
StartupFails == phase = "recover" /\ phase' = "stop" /\ UNCHANGED listening
StartupDone  == phase = "recover" /\ phase' = "serve" /\ listening' = TRUE

BeginStop       == phase = "serve" /\ phase' = "stop" /\ UNCHANGED listening
ListenerReturns == listening /\ listening' = FALSE /\ UNCHANGED phase

(* Do not close dependencies while a handler is still running. *)
Shutdown == phase = "stop" /\ ~listening /\ phase' = "shutdown" /\ UNCHANGED listening

(* With the process every goroutine ends. *)
ProcessEnds == phase' = "down" /\ listening' = FALSE

Next ==
  \/ Launch \/ StartupFails \/ StartupDone
  \/ BeginStop \/ ListenerReturns \/ Shutdown \/ ProcessEnds

Spec == Init /\ [][Next]_vars
=============================================================================
