----------------------------- MODULE Ownership ------------------------------
(***************************************************************************)
(* Who is responsible for one runner, from the creation of its container   *)
(* on and over any number of process lives: what scaler.go keeps true with *)
(* its table, its take methods and the refs its goroutines hold in local   *)
(* variables.  DockerScaler is shown to implement this for every runner.   *)
(***************************************************************************)

VARIABLES
  up,       \* whether a controller process runs
  failed,   \* whether this process has reported an error
  life,     \* the container: "none" yet, "live" or "gone"
  owners    \* who holds the runner; never more than one

vars == <<up, failed, life, owners>>

(* The table; the calls of CleanupManaged by handlers, watches and the main *)
(* goroutine; provision; and the list that Recover works through.           *)
Table    == {"idle", "busy", "protected"}
Removers == {"handler", "watch", "main"}
Owners   == Table \cup Removers \cup {"maker", "list"}

(* How a runner changes hands. *)
Routes ==
  {<<"maker", "idle">>, <<"idle", "busy">>,
   <<"idle", "handler">>, <<"busy", "handler">>,
   <<"idle", "main">>, <<"busy", "main">>,
   <<"idle", "watch">>, <<"busy", "watch">>, <<"protected", "watch">>,
   <<"list", "protected">>, <<"list", "main">>}

Init == ~up /\ ~failed /\ life = "none" /\ owners = {}

(* A new process lists the containers that earlier ones have left.          *)
Launch ==
  /\ ~up /\ up' /\ owners = {}
  /\ owners' = IF life = "live" THEN {"list"} ELSE {}
  /\ UNCHANGED <<failed, life>>

Create ==
  /\ up /\ life = "none" /\ owners = {}
  /\ life' = "live" /\ owners' = {"maker"}
  /\ UNCHANGED <<up, failed>>

(* The call that creates the container fails after the container is there.  *)
CreateUnseen ==
  /\ up /\ life = "none" /\ owners = {}
  /\ life' = "live" /\ failed'
  /\ UNCHANGED <<up, owners>>

Pass ==
  /\ up
  /\ \E route \in Routes : owners = {route[1]} /\ owners' = {route[2]}
  /\ UNCHANGED <<up, failed, life>>

(* A removal succeeds, or a listed container turns out to be gone.          *)
Finish ==
  /\ up
  /\ \E p \in Removers \cup {"list"} : owners = {p}
  /\ owners' = {} /\ life' = "gone"
  /\ UNCHANGED <<up, failed>>

(* The owner meets an error, and the process reports it.                    *)
GiveUp ==
  /\ up
  /\ \E p \in Removers \cup {"maker", "list"} : owners = {p}
  /\ owners' = {} /\ failed'
  /\ life' \in {life, "gone"}
  /\ UNCHANGED up

(* The watch finds that the container of its runner is gone.                *)
Forget ==
  /\ up /\ life = "gone"
  /\ \E p \in Table : owners = {p}
  /\ owners' = {}
  /\ UNCHANGED <<up, failed, life>>

(* A container may vanish at any time, and an error may be reported that    *)
(* has nothing to do with this runner.                                      *)
Vanish == life = "live" /\ life' = "gone" /\ UNCHANGED <<up, failed, owners>>
Report == up /\ failed' /\ UNCHANGED <<up, life, owners>>

(* What the process knew is lost; the container is not.                     *)
ProcessEnds ==
  /\ up /\ ~up'
  /\ ~failed' /\ owners' = {}
  /\ UNCHANGED life

Next ==
  \/ Launch \/ Create \/ CreateUnseen \/ Pass \/ Finish \/ GiveUp \/ Forget
  \/ Vanish \/ Report \/ ProcessEnds

Spec == Init /\ [][Next]_vars

-----------------------------------------------------------------------------
(* A runner taken to be removed stays with the goroutine that took it until *)
(* it is let go: it comes back into no table.  An adopted runner is left to *)
(* its watch alone.                                                         *)
TakenForGood ==
  up' => /\ owners \cap Removers # {} => owners' \in {owners, {}}
         /\ "protected" \in owners => owners' \in {owners, {"watch"}, {}}
=============================================================================
