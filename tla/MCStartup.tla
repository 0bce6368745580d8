----------------------------- MODULE MCStartup -----------------------------
(***************************************************************************)
(* The machines of a start, for one run of TLC: the command line, the      *)
(* configuration, the Docker settings in it, the names made from it, and   *)
(* the checks against Docker and GitHub.  Each is explored by itself: a    *)
(* behaviour has one part that moves, and the others stay as they are.     *)
(***************************************************************************)
EXTENDS Startup

CONSTANT Entries

VARIABLES
    part,       \* the machine that moves
    hostConfig, result

hostVars == <<hostConfig, result>>
allVars == <<part, vars, configVars, hostVars, scaleSetName, lineVars>>

\* Up to three lines: two that meet in the embedded struct, and one more.
H == INSTANCE MCHostConfig WITH MaxEntries <- 3

\* What there is in names (MCStartup.cfg has the limits).
SomeSuffixes == {<<"0", "a", "f">>, <<"d", "e", "a", "d">>}
ShortPrefix == <<"g", "-">>

\* What is in the files, from instances that need no constants for it.
CValues == INSTANCE MCConfiguration WITH RawConfigs <- {}, warned <- secretWarned,
                                         result <- verdict
HValues == INSTANCE MCHostConfig WITH Entries <- {}, MaxEntries <- 0

AllRawConfigs == CValues!AllChanges
SomeEntries == HValues!SomeEntries

Parts == {"checks", "config", "host", "names", "line"}
-----------------------------------------------------------------------------
\* A part that does not move is in one of its initial states, or has ended.
ConfigEnded ==
    /\ at = "end" /\ ghes = FALSE /\ token = "" /\ raw = CValues!Minimal /\ config = raw
    /\ entry = "missing" /\ size = [f \in C!Files |-> 1] /\ open = [f \in C!Files |-> FALSE]
    /\ fd = "none" /\ secret = C!NoSecret /\ secretWarned = FALSE /\ verdict = "refused"

PartsInit ==
    /\ part \in Parts
    /\ Init
    /\ part # "checks" => /\ cfg = [policy |-> "never", runtime |-> FALSE]
                          /\ world = CHOOSE w \in World : w.set = "none"
    /\ IF part = "config" THEN C!Init ELSE ConfigEnded
    /\ H!Init /\ N!Init /\ L!Init

PartsNext ==
    /\ UNCHANGED part
    /\ \/ part = "checks" /\ Next
          /\ UNCHANGED <<configVars, hostVars, scaleSetName, lineVars>>
       \/ part = "config" /\ C!Next
          /\ UNCHANGED <<vars, hostVars, scaleSetName, lineVars>>
       \/ part = "host" /\ H!Next
          /\ UNCHANGED <<vars, configVars, scaleSetName, lineVars>>
       \/ part = "names" /\ N!AnotherCharacter
          /\ UNCHANGED <<vars, configVars, hostVars, lineVars>>
       \/ part = "line" /\ L!Next
          /\ UNCHANGED <<vars, configVars, hostVars, scaleSetName>>

PartsSpec == PartsInit /\ [][PartsNext]_allVars
-----------------------------------------------------------------------------
(* What the machines promise; each is stated and explained in its module.  *)

\* The Docker settings are refused for a mistake or arrive (host_config.go:33-152).
HostConfigSafe == part = "host" => H!HostConfigSafe

=============================================================================
