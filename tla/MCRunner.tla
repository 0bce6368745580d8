------------------------------ MODULE MCRunner ------------------------------
(***************************************************************************)
(* The machines of RunnerLife for one run of TLC.  Each is explored by     *)
(* itself: a behaviour has one part that moves, and the others stay as     *)
(* they are.                                                               *)
(***************************************************************************)
EXTENDS RunnerLife

VARIABLE part       \* the machine that moves

allVars == <<part, vars, watchVars, provisionVars, recoveryVars, logsVars>>

I == INSTANCE Identity

Ours(id) ==
    I!BuildLabels([ScaleSetID |-> 1, RunnerID |-> id, RunnerName |-> "name"], "instance")

\* Labels of every kind: two of this scale set, of another, and damaged ones.
SomeLabels == {
    Ours(1), Ours(2),
    I!BuildLabels([ScaleSetID |-> 2, RunnerID |-> 1, RunnerName |-> "name"], "instance"),
    [Ours(1) EXCEPT !.managed = ""],
    [Ours(1) EXCEPT !.runnerID = "01"],
    [Ours(1) EXCEPT !.createdAt = "offset"]}
-----------------------------------------------------------------------------
\* A part that does not move has not begun, or is at its end if fairness would
\* have it move.
WatchOver == /\ clock = 0 /\ faulty = FALSE /\ sdk = "done" /\ errC = "none"
             /\ watch = "returned" /\ verdict = "stopped" /\ drain = "none"
             /\ cancelled = TRUE /\ owned = FALSE /\ notified = FALSE /\ runner = "gone"

RecoveryOver(l) ==
    /\ state = [c \in Containers |-> "gone"]
    /\ marks = [c \in Containers |-> l] /\ born = [c \in Containers |-> c]
    /\ phase = "serving" /\ list = <<>> /\ seen = "gone" /\ adopted = {} /\ touched = {}

\* Labels that differ from those of a runner of this scale set in one or two places.
Damaged ==
    {l \in I!Labels : \E f, g \in DOMAIN l :
                          \A h \in DOMAIN l \ {f, g} : l[h] = Ours(1)[h]}

\* Beside the initial states of Recovery, those of one container with such labels.
OneDamaged ==
    /\ state \in {[c \in Containers |-> IF c = 1 THEN s ELSE "gone"] : s \in R!States}
    /\ marks \in {[c \in Containers |-> IF c = 1 THEN l ELSE Ours(1)] : l \in Damaged}
    /\ born = [c \in Containers |-> c]
    /\ phase = "down" /\ list = <<>> /\ seen = "gone" /\ adopted = {} /\ touched = {}

PartsInit ==
    /\ part \in {"removal", "watch", "provision", "logs", "recovery"}
    /\ Init /\ (part # "removal" => container = "gone" /\ pc = "verify")
    /\ IF part = "watch" THEN W!Init ELSE WatchOver
    /\ P!Init
    /\ L!Init /\ (part # "logs" => options = [s \in {"stdout", "stderr"} |-> 0])
    /\ IF part = "recovery" THEN R!Init \/ OneDamaged ELSE RecoveryOver(Ours(1))

PartsNext ==
    /\ UNCHANGED part
    /\ \/ part = "removal" /\ Next
          /\ UNCHANGED <<watchVars, provisionVars, recoveryVars, logsVars>>
       \/ part = "watch" /\ W!Next
          /\ UNCHANGED <<vars, provisionVars, recoveryVars, logsVars>>
       \/ part = "provision" /\ P!Next
          /\ UNCHANGED <<vars, watchVars, recoveryVars, logsVars>>
       \/ part = "logs" /\ L!Next
          /\ UNCHANGED <<vars, watchVars, provisionVars, recoveryVars>>
       \/ part = "recovery" /\ R!Next
          /\ UNCHANGED <<vars, watchVars, provisionVars, logsVars>>

PartsSpec == PartsInit /\ [][PartsNext]_allVars /\ W!Fairness /\ R!Fairness

=============================================================================
