------------------------ MODULE ShutdownTimingProofs ------------------------
(***************************************************************************)
(* A stop keeps its time for all values of the timeouts.  The argument is  *)
(* a sum: what has passed since the signal and what is left of the phase   *)
(* never exceed what the phases up to this one may take together.          *)
(***************************************************************************)
EXTENDS ShutdownTiming, TLAPS

\* What startup, or the join, and the phases after it have taken at most.
TimeInv ==
    /\ main \in {"startup", "wait"} => since = 0
    /\ main = "startup" => timer <= Grace
    /\ main = "recover" => since + timer <= Grace
    /\ main = "join" => /\ since <= JoinTimeout
                        /\ work # <<>> => since + timer <= JoinTimeout
    /\ main = "scaler" => since + timer <= JoinTimeout + Grace
    /\ main = "health" => since + timer <= JoinTimeout + Grace + HealthTimeout
    /\ since <= StopGracePeriod
    /\ main = "session" =>
           since + timer <= JoinTimeout + Grace + HealthTimeout + SessionTimeout

\* Without a listener there is no work, and what was under way at the signal
\* has less time left than the join waits.
WorkInv ==
    /\ main \in {"startup", "recover"} => work = <<>>
    /\ work # <<>> /\ main = "wait" => due < JoinTimeout
    /\ work # <<>> /\ main = "join" /\ begun = {} => due < timer
    /\ main = "join" /\ begun = {} => timer > 0
    /\ main \in {"startup", "wait"} => begun = {}
    /\ main # "exited" => result = "none"
    /\ OneCallIsJoined

IInv == TypeOK /\ TimeInv /\ WorkInv

LEMMA JoinTimeoutValue ==
    /\ JoinTimeout \in {ProvisioningTimeout, Grace}
    /\ JoinTimeout \in Nat /\ JoinTimeout > 0
    /\ ProvisioningTimeout <= JoinTimeout /\ Grace <= JoinTimeout
    /\ JoinTimeout + Grace + HealthTimeout + SessionTimeout <= StopGracePeriod
  BY TimeoutsAssumption, StopGracePeriodAssumption DEF JoinTimeout

LEMMA DueOfType == \A calls : DueOf(calls) \in Nat /\ DueOf(calls) <= JoinTimeout
  BY JoinTimeoutValue, TimeoutsAssumption DEF DueOf, Deadline

LEMMA InvInit == Init => IInv
<1> SUFFICES ASSUME Init PROVE IInv
  OBVIOUS
<1>1. work \in Seq(Calls)
  <2>1. CASE main = "wait"
    BY <2>1, MaxCallsAssumption DEF Init, Messages, Calls
  <2>2. CASE main = "startup"
    BY <2>2 DEF Init
  <2> QED
    BY <2>1, <2>2 DEF Init
<1>2. due \in Nat /\ (work # <<>> => due < JoinTimeout)
  BY DueOfType, JoinTimeoutValue DEF Init
<1>3. timer \in Nat /\ watch \in Nat \cup {-1}
  BY TimeoutsAssumption DEF Init
<1>4. TypeOK
  BY <1>1, <1>2, <1>3 DEF Init, TypeOK, Phases, Results
<1>5. TimeInv
  BY TimeoutsAssumption, StopGracePeriodAssumption DEF Init, TimeInv
<1>6. WorkInv
  BY <1>2 DEF Init, WorkInv, OneCallIsJoined
<1> QED
  BY <1>4, <1>5, <1>6 DEF IInv

LEMMA InvStep == IInv /\ [Next]_vars => IInv'
<1> SUFFICES ASSUME IInv, [Next]_vars PROVE IInv'
  OBVIOUS
<1> USE JoinTimeoutValue, TimeoutsAssumption, StopGracePeriodAssumption
    DEF IInv, TypeOK, TimeInv, WorkInv, OneCallIsJoined
<1>1. CASE Signal
  BY <1>1 DEF Signal, listener, Phases
<1>2. CASE StartupEnds
  BY <1>2 DEF StartupEnds, listener, Phases
<1>3. CASE JoinListener
  BY <1>3 DEF JoinListener, Enter, Leave, listener, Phases, Results
<1>4. CASE ShutdownScaler
  BY <1>4 DEF ShutdownScaler, Enter, Leave, listener, Phases, Results
<1>5. CASE ShutdownHealth
  BY <1>5 DEF ShutdownHealth, Enter, listener, Phases
<1>6. CASE CloseSession
  BY <1>6 DEF CloseSession, Leave, listener, Phases, Results
<1>7. CASE CallReturns
  <2> DEFINE After == {Tail(work), <<"cleanup">>, <<>>}
  <2>1. PICK calls \in After : Continue(calls)
    BY <1>7 DEF CallReturns
  <2>2. work # <<>> /\ Stopping /\ UNCHANGED <<main, timer, watch, since, result>>
    BY <1>7 DEF CallReturns
  <2>3. Tail(work) \in Seq(Calls) /\ <<"cleanup">> \in Seq(Calls) /\ <<>> \in Seq(Calls)
    BY <2>2 DEF Calls
  <2>4. calls \in Seq(Calls) /\ (calls # <<>> => Head(calls) \in Calls)
    <3>1. calls \in Seq(Calls)
      BY ONLY calls \in After, <2>3
    <3>2. calls # <<>> => Head(calls) \in Calls
      BY ONLY <3>1
    <3> QED
      BY ONLY <3>1, <3>2
  <2>5. work' \in Seq(Calls)
    BY <2>1, <2>4 DEF Continue
  <2>6. due' \in Nat
    BY <2>1, DueOfType DEF Continue
  <2>7. begun' \subseteq Calls /\ (work' # <<>> => begun' # {}) /\ begun \subseteq begun'
    BY <2>1, <2>4 DEF Continue
  <2>8. main \notin {"startup", "recover", "wait"}
    BY <2>2 DEF Stopping
  <2> HIDE DEF After
  <2> QED
    BY <2>2, <2>5, <2>6, <2>7, <2>8
<1>8. CASE WatchEnds
  BY <1>8 DEF WatchEnds
<1>9. CASE WatchBegins
  BY <1>9 DEF WatchBegins
<1>10. CASE Tick
  BY <1>10 DEF Tick, Stopping, Phases
<1>11. CASE UNCHANGED vars
  BY <1>11 DEF vars
<1> QED
  BY <1>1, <1>2, <1>3, <1>4, <1>5, <1>6, <1>7, <1>8, <1>9, <1>10, <1>11
     DEF Next, Main

\* The types, the sums and what the listener still has to do.
THEOREM Invariance == Spec => []IInv
  BY InvInit, InvStep, PTL DEF Spec

\* Every variable has a value of its type, for all timeouts and messages.
THEOREM TypeCorrect == Spec => []TypeOK
<1>1. IInv => TypeOK
  BY DEF IInv
<1> QED
  BY <1>1, Invariance, PTL

\* Serve returns within the time it is given, if that is at least the sum of
\* the longer of two timeouts, the grace period and the last two phases.
THEOREM StopKeepsTime == Spec => []ExitsInTime
<1>1. IInv => ExitsInTime
  BY DEF IInv, TimeInv, ExitsInTime
<1> QED
  BY <1>1, Invariance, PTL

\* A single call is joined, whichever of the two timeouts is longer.
THEOREM SingleCallIsJoined == Spec => []OneCallIsJoined
<1>1. IInv => OneCallIsJoined
  BY DEF IInv, WorkInv
<1> QED
  BY <1>1, Invariance, PTL
=============================================================================
