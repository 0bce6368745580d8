------------------------------- MODULE Watch -------------------------------
(***************************************************************************)
(* The watch of one runner (internal/controller/scaler.go, startWatch) and *)
(* the wait it makes (internal/docker/client.go, WaitContainer): a request *)
(* to Docker that stays open as long as the runner lives, read by a        *)
(* goroutine of the Docker client that sends one result on an unbuffered   *)
(* channel or one error on a buffered one.  Beside them, those who may end *)
(* the watch: the runner, the job that is completed, and the shutdown.     *)
(*                                                                         *)
(* DockerScaler has the whole of a watch as one step; here is what goes on *)
(* inside, and when a watch fails.                                         *)
(***************************************************************************)
EXTENDS Naturals

CONSTANTS
    HTTPTimeout,    \* after so many ticks the HTTP client ends a request
    MaxLifetime,    \* bound: no runner lives longer
    DockerFails     \* whether requests to Docker may fail

TimesAssumption == HTTPTimeout \in Nat \ {0} /\ MaxLifetime \in Nat
FailsAssumption == DockerFails \in BOOLEAN

VARIABLES
    container,  \* what Docker has
    clock,      \* ticks since the wait began
    faulty,     \* history: some request to Docker has failed
    sdk,        \* the goroutine of the Docker client
    errC,       \* its buffered channel for an error
    watch,      \* the goroutine of startWatch
    outcome,    \* what WaitContainer returned
    drain,      \* the goroutine WaitContainer leaves behind
    cancelled,  \* watchCtx
    owned,      \* the runner is in the table
    notified    \* notifyError has been called

docker == <<container, clock, faulty>>
channels == <<sdk, errC>>
table == <<owned, notified>>
vars == <<docker, channels, watch, outcome, drain, cancelled, table>>

Ticks == 0..HTTPTimeout
Errors == {"notfound", "failed", "expired", "cancelled"}

TypeOK ==
    /\ container \in {"running", "exited", "gone"}
    /\ clock \in Ticks
    /\ sdk \in {"none", "decoding", "sending", "done"}
    /\ errC \in Errors \cup {"none"}
    /\ watch \in {"calling", "waiting", "answered", "removing", "returned"}
    /\ outcome \in Errors \cup {"none", "stopped"}
    /\ drain \in {"none", "draining", "done"}
    /\ faulty \in BOOLEAN /\ cancelled \in BOOLEAN
    /\ owned \in BOOLEAN /\ notified \in BOOLEAN
    \* one answer, which one of the two readers takes
    /\ sdk # "done" \/ outcome # "none" \/ errC # "none"
    /\ watch \in {"calling", "waiting"} <=> outcome = "none"

Init ==
    /\ container = "running"
    /\ clock = 0
    /\ faulty = FALSE
    /\ sdk = "none" /\ errC = "none"
    /\ watch = "calling" /\ outcome = "none" /\ drain = "none"
    /\ cancelled = FALSE
    /\ owned = TRUE /\ notified = FALSE
-----------------------------------------------------------------------------
(* WaitContainer and the Docker client.                                    *)

Refused(error) ==
    /\ errC' = error
    /\ sdk' = "done"
    /\ faulty' = (faulty \/ error = "failed")

\* The client sends the request, and has its goroutine read the answer.
ContainerWait ==
    /\ watch = "calling"
    /\ watch' = "waiting"
    /\ \/ /\ container # "gone" /\ ~cancelled
          /\ sdk' = "decoding"
          /\ UNCHANGED <<errC, faulty>>
       \/ container = "gone" /\ Refused("notfound")
       \/ DockerFails /\ Refused("failed")
       \/ cancelled /\ Refused("cancelled")
    /\ UNCHANGED <<container, clock, outcome, drain, cancelled, table>>

\* Docker answers when the container does not run any more.
Answered ==
    /\ sdk = "decoding" /\ container # "running"
    /\ sdk' = "sending"
    /\ UNCHANGED <<docker, errC, watch, outcome, drain, cancelled, table>>

\* The timeout of the HTTP client is for a request and the whole of its answer.
Expired == clock = HTTPTimeout

Broken ==
    /\ sdk = "decoding"
    /\ \/ DockerFails /\ Refused("failed")
       \/ cancelled /\ Refused("cancelled")
       \/ Expired /\ Refused("expired")
    /\ UNCHANGED <<container, clock, watch, outcome, drain, cancelled, table>>

\* Mutant: nothing is left behind to take the answer.
TakeCancelNoDrain ==
    /\ watch = "waiting" /\ cancelled
    /\ outcome' = "cancelled" /\ watch' = "answered"
    /\ UNCHANGED <<docker, channels, drain, cancelled, table>>

TakeCancel ==
    /\ watch = "waiting" /\ cancelled
    /\ outcome' = "cancelled" /\ watch' = "answered"
    /\ drain' = "draining"
    /\ UNCHANGED <<docker, channels, cancelled, table>>

TakeError ==
    /\ watch = "waiting" /\ errC # "none"
    /\ outcome' = errC /\ watch' = "answered"
    /\ errC' = "none"
    /\ UNCHANGED <<docker, sdk, drain, cancelled, table>>

TakeResult ==
    /\ watch = "waiting" /\ sdk = "sending"
    /\ outcome' = "stopped" /\ watch' = "answered"
    /\ sdk' = "done"
    /\ UNCHANGED <<docker, errC, drain, cancelled, table>>

\* select takes any of what is ready.
WaitContainer == TakeCancel \/ TakeError \/ TakeResult

Drain ==
    /\ drain = "draining"
    /\ \/ /\ sdk = "sending" /\ sdk' = "done"
          /\ UNCHANGED errC
       \/ /\ errC # "none" /\ errC' = "none"
          /\ UNCHANGED sdk
    /\ drain' = "done"
    /\ UNCHANGED <<docker, watch, outcome, cancelled, table>>
-----------------------------------------------------------------------------
(* startWatch.                                                             *)

\* Mutant: only the end of the container is looked at.
WatchErrorSilent ==
    /\ watch = "answered" /\ outcome # "stopped"
    /\ watch' = "returned"
    /\ owned' = (owned /\ (cancelled \/ outcome # "notfound"))
    /\ UNCHANGED <<docker, channels, outcome, drain, cancelled, notified>>

WatchError ==
    /\ watch = "answered" /\ outcome # "stopped"
    /\ watch' = "returned"
    /\ \/ cancelled /\ UNCHANGED table
       \/ ~cancelled /\ outcome = "notfound" /\ owned' = FALSE /\ UNCHANGED notified
       \/ ~cancelled /\ outcome # "notfound" /\ notified' = TRUE /\ UNCHANGED owned
    /\ UNCHANGED <<docker, channels, outcome, drain, cancelled>>

WatchResult ==
    /\ watch = "answered" /\ outcome = "stopped"
    /\ watch' = IF owned THEN "removing" ELSE "returned"
    /\ owned' = FALSE
    /\ UNCHANGED <<docker, channels, outcome, drain, cancelled, notified>>

\* removeRunner, within the time for removals.
WatchRemoves ==
    /\ watch = "removing"
    /\ watch' = "returned"
    /\ \/ container' = "gone" /\ UNCHANGED <<notified, faulty>>
       \/ /\ DockerFails
          /\ notified' = TRUE /\ faulty' = TRUE
          /\ UNCHANGED container
    /\ UNCHANGED <<clock, channels, outcome, drain, cancelled, owned>>
-----------------------------------------------------------------------------
(* The others.                                                             *)

\* HandleJobCompleted removes the runner if it is still in the table.
JobCompleted ==
    /\ owned
    /\ owned' = FALSE
    /\ container' = "gone"
    /\ UNCHANGED <<clock, faulty, channels, watch, outcome, drain, cancelled, notified>>

\* Shutdown cancels the watches, and waits for their end.
Shutdown ==
    /\ ~cancelled
    /\ cancelled' = TRUE
    /\ UNCHANGED <<docker, channels, watch, outcome, drain, table>>

\* The runner ends, or an operator removes it.
ContainerEnds ==
    /\ \/ container = "running" /\ container' = "exited"
       \/ container # "gone" /\ container' = "gone"
    /\ UNCHANGED <<clock, faulty, channels, watch, outcome, drain, cancelled, table>>

\* Docker answers within the tick in which the container ends.
Tick ==
    /\ sdk = "decoding" /\ container = "running"
    /\ clock < HTTPTimeout /\ clock < MaxLifetime
    /\ clock' = clock + 1
    /\ UNCHANGED <<container, faulty, channels, watch, outcome, drain, cancelled, table>>

Next ==
    \/ ContainerWait \/ Answered \/ Broken \/ WaitContainer \/ Drain
    \/ WatchError \/ WatchResult \/ WatchRemoves
    \/ JobCompleted \/ Shutdown \/ ContainerEnds \/ Tick

\* Goroutines that can go on do, requests end once their context does, and time
\* goes on; nothing is assumed of runners, of jobs or of the shutdown.
Fairness ==
    /\ WF_vars(ContainerWait) /\ WF_vars(Answered) /\ WF_vars(Broken)
    /\ WF_vars(WaitContainer) /\ WF_vars(Drain)
    /\ WF_vars(WatchError) /\ WF_vars(WatchResult) /\ WF_vars(WatchRemoves)

Spec == Init /\ [][Next]_vars /\ Fairness
-----------------------------------------------------------------------------
(* Properties.                                                             *)

\* A watch asks for the removal of a container only when it has ended, and only
\* if nobody else has taken the runner out of the table: it never stops a
\* runner at work (scaler.go:333-338, client.go:190-194).
RemovesWhatHasEnded == watch = "removing" => container # "running" /\ ~owned

\* A runner that is still in the table when its watch is over was left there by
\* a shutdown, which will see to it, or the daemon is told and ends: no runner
\* is left in the table without anybody watching it (scaler.go:322-341).
NoneUnwatched == watch = "returned" /\ owned => cancelled \/ notified

\* A watch reports an error, which ends the daemon, only when Docker has failed
\* it, or when the runner has lived as long as a request may take.
ReportsTroubleOnly == notified => faulty \/ clock = HTTPTimeout

\* The three together: a watch sees to the end of its runner, and to no other.
WatchSafe == TypeOK /\ RemovesWhatHasEnded /\ NoneUnwatched /\ ReportsTroubleOnly

\* A shutdown need not wait for the runner: the watch ends, and so do the
\* goroutine of the Docker client and the one that takes what it still sends,
\* whichever of the three comes first (client.go:177-190).
CancelEndsAll ==
    cancelled ~> /\ watch = "returned"
                 /\ sdk \in {"none", "done"}
                 /\ drain # "draining"

\* "startWatch removes a runner when its container exits." (scaler.go:308): a
\* watch reports an error, which ends the daemon, only when Docker has failed
\* it.
ReportsOnlyFaults == notified => faulty

=============================================================================
