--------------------------- MODULE ShutdownTiming ---------------------------
(***************************************************************************)
(* The deadlines of a stop as numbers: how long Serve takes from the       *)
(* signal to its return (internal/app/shutdown.go), with the calls of the  *)
(* handlers and watches that were under way (internal/controller/          *)
(* scaler.go), each of which has a context of its own.                     *)
(*                                                                         *)
(* Time is counted in ticks.  Computing takes no time; every call respects *)
(* the deadline of its context and may end at any time before it.  What    *)
(* the calls do is in DockerScaler and App.                                *)
(***************************************************************************)
EXTENDS Integers, Sequences

CONSTANTS
    ProvisioningTimeout,    \* runner.provisioningTimeout
    Grace,                  \* shutdown.gracePeriod
    HealthTimeout,          \* healthShutdownTimeout
    SessionTimeout,         \* sessionCloseTimeout
    StopGracePeriod,        \* what Docker gives the daemon before it kills it
    MaxCalls                \* bound: calls that one message leads to

ASSUME TimeoutsAssumption ==
    /\ ProvisioningTimeout \in Nat \ {0}
    /\ Grace \in Nat \ {0}
    /\ HealthTimeout \in Nat \ {0}
    /\ SessionTimeout \in Nat \ {0}
ASSUME StopGracePeriodAssumption ==
    /\ StopGracePeriod \in Nat
    /\ \A join \in {ProvisioningTimeout, Grace} :
           join + Grace + HealthTimeout + SessionTimeout <= StopGracePeriod
ASSUME MaxCallsAssumption == MaxCalls \in Nat

VARIABLES
    main,       \* where Serve is
    timer,      \* what is left of the context Serve works or waits with
    work,       \* the calls the message at hand still leads to, the first runs
    due,        \* what is left of the context of the first
    watch,      \* what is left of the context of a watch that removes, or -1
    since,      \* time since the signal; what is too long is not counted on
    result,     \* how the shutdown has ended
    begun       \* history: the kinds of calls that began after the signal

vars == <<main, timer, work, due, watch, since, result, begun>>
listener == <<work, due, begun>>

Phases == {"startup", "wait", "recover", "join", "scaler", "health",
           "session", "exited"}
Calls == {"remove", "provision", "cleanup"}
Results == {"none", "listener", "scaler", "complete"}

(***************************************************************************)
(* "remove" is a handler that removes runners, all with one context: a     *)
(* JobCompleted or a scale-down.  "provision" is one turn of the scale-up  *)
(* loop, "cleanup" what follows a failed start.                            *)
(***************************************************************************)
Deadline(call) == IF call = "provision" THEN ProvisioningTimeout ELSE Grace

\* The job events come before the demand, and the demand goes one way.
Messages ==
    {s \in UNION {[1..n -> {"remove", "provision"}] : n \in 0..MaxCalls} :
         \A i, j \in DOMAIN s :
             i < j /\ s[i] = "provision" => s[j] = "provision"}

DueOf(calls) == IF calls = <<>> THEN 0 ELSE Deadline(Head(calls))

JoinTimeout == IF ProvisioningTimeout > Grace THEN ProvisioningTimeout ELSE Grace

\* The moment before the signal: any message is being handled and a watch may
\* be removing, or startup is in Recover, whose removals share one context.
Init ==
    /\ main \in {"startup", "wait"}
    /\ work \in (IF main = "wait" THEN Messages ELSE {<<>>})
    /\ IF work = <<>> THEN due = 0 ELSE due \in 0..(DueOf(work) - 1)
    /\ timer \in (IF main = "startup" THEN 0..Grace ELSE {0})
    /\ watch \in -1..Grace
    /\ since = 0
    /\ result = "none"
    /\ begun = {}

\* The signal, and a.cancel at once if Serve is waiting for it.
Signal ==
    /\ \/ /\ main = "wait"
          /\ main' = "join"
          /\ timer' = JoinTimeout
       \/ /\ main = "startup"
          /\ main' = "recover"
          /\ UNCHANGED timer
    /\ UNCHANGED <<listener, watch, since, result>>

\* Mutant: Recover tries again when its time is over.
StartupRetries ==
    /\ main = "recover"
    /\ \/ timer > 0 /\ main' = "join" /\ timer' = JoinTimeout
       \/ timer = 0 /\ main' = main /\ timer' = Grace
    /\ UNCHANGED <<listener, watch, since, result>>

\* Recover has its own context for removals; the other calls of startup are
\* cancelled by the signal.  No listener was started.
StartupEnds ==
    /\ main = "recover"
    /\ main' = "join"
    /\ timer' = JoinTimeout
    /\ UNCHANGED <<listener, watch, since, result>>

Enter(phase, time) ==
    /\ main' = phase
    /\ timer' = time
    /\ UNCHANGED result

Leave(how) ==
    /\ main' = "exited"
    /\ result' = how
    /\ UNCHANGED timer

JoinListener ==
    /\ main = "join"
    /\ \/ work = <<>> /\ Enter("scaler", Grace)
       \/ timer = 0 /\ Leave("listener")
    /\ UNCHANGED <<listener, watch, since>>

\* The watches are joined and the owned runners removed in the same time; with
\* nothing left of it the removals fail, and shutdown goes on.
ShutdownScaler ==
    /\ main = "scaler"
    /\ \/ watch = -1 /\ Enter("health", HealthTimeout)
       \/ watch # -1 /\ timer = 0 /\ Leave("scaler")
    /\ UNCHANGED <<listener, watch, since>>

\* Mutant: the time of the scaler once more.
ShutdownHealthLong ==
    /\ main = "health"
    /\ Enter("session", Grace)
    /\ UNCHANGED <<listener, watch, since>>

ShutdownHealth ==
    /\ main = "health"
    /\ Enter("session", SessionTimeout)
    /\ UNCHANGED <<listener, watch, since>>

CloseSession ==
    /\ main = "session"
    /\ Leave("complete")
    /\ UNCHANGED <<listener, watch, since>>

-----------------------------------------------------------------------------
(* The calls beside the main goroutine.                                    *)

\* What happened before the signal is in Init, what happens later is dropped.
Stopping == main \notin {"startup", "wait", "exited"}

\* The scale-up loop is the next thing the message leads to.
ScaleUpBegins ==
    /\ Head(work) = "remove"
    /\ Len(work) > 1 /\ Head(Tail(work)) = "provision"

\* The message goes on with these calls.
Continue(calls) ==
    /\ work' = calls
    /\ due' = DueOf(calls)
    /\ begun' = IF calls = <<>> THEN begun ELSE begun \cup {Head(calls)}

\* A call returns.  The scale-up looks at the context before its first turn
\* only; a failed turn ends the message, a failed start has a cleanup first.
CallReturns ==
    /\ Stopping
    /\ work # <<>>
    /\ \/ /\ Head(work) # "cleanup"
          /\ ~ScaleUpBegins
          /\ Continue(Tail(work))
       \/ /\ Head(work) = "provision"
          /\ Continue(<<"cleanup">>)
       \/ Continue(<<>>)
    /\ UNCHANGED <<main, timer, watch, since, result>>

WatchEnds ==
    /\ Stopping
    /\ watch # -1
    /\ watch' = -1
    /\ UNCHANGED <<main, timer, work, due, since, result, begun>>

\* A container exits while its watch still waits for it.
WatchBegins ==
    /\ watch = -1 /\ main \in {"recover", "join"}
    /\ watch' = Grace
    /\ UNCHANGED <<main, timer, work, due, since, result, begun>>

\* Time passes when no deadline is over and nobody is just to go on.
Tick ==
    /\ Stopping
    /\ timer > 0
    /\ ~(main = "join" /\ work = <<>>)
    /\ work = <<>> \/ due > 0
    /\ watch # 0
    /\ timer' = timer - 1
    /\ due' = IF work = <<>> THEN due ELSE due - 1
    /\ watch' = IF watch > 0 THEN watch - 1 ELSE watch
    /\ since' = IF since > StopGracePeriod THEN since ELSE since + 1
    /\ UNCHANGED <<main, work, result, begun>>

Main ==
    \/ Signal \/ StartupEnds
    \/ JoinListener \/ ShutdownScaler \/ ShutdownHealth \/ CloseSession

Next == Main \/ CallReturns \/ WatchEnds \/ WatchBegins \/ Tick

\* Time passes, calls end by their deadlines, and the main goroutine runs on.
Spec ==
    /\ Init /\ [][Next]_vars
    /\ WF_vars(Tick) /\ WF_vars(Main)
    /\ WF_vars(due = 0 /\ CallReturns)
    /\ WF_vars(watch = 0 /\ WatchEnds)
-----------------------------------------------------------------------------
(* Properties.                                                             *)

TypeOK ==
    /\ main \in Phases
    /\ timer \in Nat
    /\ work \in Seq(Calls)
    /\ due \in Nat
    /\ watch \in Nat \cup {-1}
    /\ since \in Nat
    /\ result \in Results
    /\ begun \subseteq Calls

\* Serve returns before Docker kills it: with the default timeouts within the
\* eight minutes the README gives it, whatever was under way at the signal, a
\* removal of Recover or of a watch and a whole scale-up included
\* (shutdown.go:31-107, README.md:29).
ExitsInTime == since <= StopGracePeriod

\* A handler that is under way when the signal comes is joined, if it is all
\* that is left of its message: the listener is given up only after a further
\* call began (shutdown.go:96-107).
OneCallIsJoined == result = "listener" => begun # {}

\* A stop comes to its end, however the deadlines and the ends of calls meet
\* (shutdown.go:31-94).
StopEnds == Stopping ~> main = "exited"

=============================================================================
