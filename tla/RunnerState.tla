---------------------------- MODULE RunnerState ----------------------------
(***************************************************************************)
(* The in-memory table of internal/controller/scaler_state.go: which       *)
(* runners this process owns, and as what.  Every method of runnerState    *)
(* holds its mutex from its first statement to its return, so every method *)
(* is one atomic action on the three variables.                            *)
(*                                                                         *)
(* A runnerRef (container ID, runner ID, runner name) is one value: the    *)
(* three identify each other, for the names are random and GitHub and      *)
(* Docker hand out fresh IDs.  The map keys of busy and protected are      *)
(* fields of the refs they lead to, so the maps are sets of refs.          *)
(***************************************************************************)
EXTENDS Integers, FiniteSets, SequencesExt

VARIABLES
  idle,        \* sequence of refs, oldest first
  busy,        \* set of refs
  protected    \* set of refs adopted from an earlier process

runnerState == <<idle, busy, protected>>

NewRunnerState ==
  /\ idle = <<>>
  /\ busy = {}
  /\ protected = {}

(* What a process exit leaves of the table: nothing. *)
LoseRunnerState ==
  /\ idle' = <<>>
  /\ busy' = {}
  /\ protected' = {}

Idle == ToSet(idle)

Tracked == Idle \cup busy \cup protected

Count == Len(idle) + Cardinality(busy) + Cardinality(protected)

\* Mutant: the new runner goes to the front.
AddIdleInFront(r) ==
  /\ idle' = <<r>> \o idle
  /\ UNCHANGED <<busy, protected>>

AddIdle(r) ==
  /\ idle' = Append(idle, r)
  /\ UNCHANGED <<busy, protected>>

(* Only an idle runner can become busy; any other name is ignored. *)
MarkBusy(r) ==
  \/ /\ \E i \in DOMAIN idle : idle[i] = r /\ idle' = RemoveAt(idle, i)
     /\ busy' = busy \cup {r}
     /\ UNCHANGED protected
  \/ /\ r \notin Idle
     /\ UNCHANGED runnerState

(* The second result of takeOwnership: the call finds r, busy or idle. *)
Owns(r) == r \in busy \cup Idle

\* Mutant: a busy runner is returned but not deleted from the map.
TakeOwnershipKeepingBusy(r) ==
  \/ /\ r \in busy
     /\ UNCHANGED runnerState
  \/ /\ r \notin busy
     /\ \E i \in DOMAIN idle : idle[i] = r /\ idle' = RemoveAt(idle, i)
     /\ UNCHANGED <<busy, protected>>
  \/ /\ ~Owns(r)
     /\ UNCHANGED runnerState

TakeOwnership(r) ==
  \/ /\ r \in busy
     /\ busy' = busy \ {r}
     /\ UNCHANGED <<idle, protected>>
  \/ /\ r \notin busy
     /\ \E i \in DOMAIN idle : idle[i] = r /\ idle' = RemoveAt(idle, i)
     /\ UNCHANGED <<busy, protected>>
  \/ /\ ~Owns(r)
     /\ UNCHANGED runnerState

(* The number of runners scaleDownIdle(limit) takes, and the refs it returns. *)
Surplus(limit) ==
  IF limit <= 0 THEN 0 ELSE IF limit > Len(idle) THEN Len(idle) ELSE limit

OldestIdle(limit) == SubSeq(idle, 1, Surplus(limit))

\* Mutant: when the idle runners do not suffice, busy ones go as well.
ScaleDownAny(limit) ==
  /\ idle' = SubSeq(idle, Surplus(limit) + 1, Len(idle))
  /\ busy' = IF limit > Len(idle) THEN {} ELSE busy
  /\ UNCHANGED protected

ScaleDownIdle(limit) ==
  /\ idle' = SubSeq(idle, Surplus(limit) + 1, Len(idle))
  /\ UNCHANGED <<busy, protected>>

TakeAllIdle ==
  /\ idle' = <<>>
  /\ UNCHANGED <<busy, protected>>

TakeAllBusy ==
  /\ busy' = {}
  /\ UNCHANGED <<idle, protected>>

\* Mutant: an adopted runner is registered as an idle one.
AddAdoptedAsIdle(r) ==
  /\ idle' = Append(idle, r)
  /\ UNCHANGED <<busy, protected>>

AddProtected(r) ==
  /\ protected' = protected \cup {r}
  /\ UNCHANGED <<idle, busy>>

TakeProtected(r) ==
  /\ protected' = protected \ {r}
  /\ UNCHANGED <<idle, busy>>
=============================================================================
