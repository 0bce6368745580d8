------------------------------- MODULE Names -------------------------------
(***************************************************************************)
(* The names of runners and of their containers (internal/model/names.go). *)
(* A name is a sequence of characters.  The limits are constants: the      *)
(* source has 63, 12 and 8; smaller ones let short names reach them.       *)
(*                                                                         *)
(* The state machine goes through the scale set names an operator may      *)
(* configure, one character after the other.                               *)
(***************************************************************************)
EXTENDS Integers, Sequences, SequencesExt, FiniteSetsExt

CONSTANTS
    Alphabet,               \* characters in the name of a scale set
    MaxNameLength,          \* bound: how long that name gets
    RunnerIDs,              \* numbers GitHub gives to runners
    RandomHex,               \* what newRandomHex returns
    containerNamePrefix,    \* a sequence of characters
    containerNameLimit,
    runnerNameSuffixLength,
    ContainerSuffixLength

Base36 == <<"0", "1", "2", "3", "4", "5", "6", "7", "8", "9",
            "a", "b", "c", "d", "e", "f", "g", "h", "i", "j", "k", "l", "m",
            "n", "o", "p", "q", "r", "s", "t", "u", "v", "w", "x", "y", "z">>

LowerHex == {Base36[i] : i \in 1..16}
Alphanumeric == ToSet(Base36)
Punctuation == {"-", "_", "."}
UpperCase == [c \in {"A", "K", "Z"} |->
                  CASE c = "A" -> "a" [] c = "K" -> "k" [] c = "Z" -> "z"]

AlphabetAssumption ==
    Alphabet \subseteq Alphanumeric \cup Punctuation \cup DOMAIN UpperCase \cup {" "}
RunnerIDsAssumption == RunnerIDs \subseteq Nat \ {0}
RandomHexAssumption ==
    \A suffix \in RandomHex : /\ suffix \in Seq(LowerHex)
                             /\ Len(suffix) >= runnerNameSuffixLength
LimitsAssumption ==
    /\ runnerNameSuffixLength \in Nat /\ ContainerSuffixLength \in 1..runnerNameSuffixLength
    /\ containerNameLimit \in Nat
PrefixAssumption ==
    /\ containerNamePrefix \in Seq(Alphanumeric \cup Punctuation)
    /\ containerNamePrefix # <<>> /\ containerNamePrefix[1] \in Alphanumeric

ToLower(c) == IF c \in DOMAIN UpperCase THEN UpperCase[c] ELSE c
Lower(value) == [i \in DOMAIN value |-> ToLower(value[i])]

\* strings.Trim(value, "-_.")
Trim(value) ==
    LET kept == {i \in DOMAIN value : value[i] \notin Punctuation}
    IN IF kept = {} THEN <<>> ELSE SubSeq(value, Min(kept), Max(kept))

Allowed(c) == ToLower(c) \in Alphanumeric \cup Punctuation

\* One character: what was written, and whether a character was left out since.
Normalize(so_far, c) ==
    IF Allowed(c)
    THEN [b |-> so_far.b
                \o (IF so_far.separator /\ so_far.b # <<>> THEN <<"-">> ELSE <<>>)
                \o <<ToLower(c)>>,
          separator |-> FALSE]
    ELSE [so_far EXCEPT !.separator = TRUE]

\* The loop over the characters, after each of them.
Loop(value) ==
    LET so_far[i \in 0..Len(value)] ==
            IF i = 0 THEN [b |-> <<>>, separator |-> FALSE]
            ELSE Normalize(so_far[i - 1], value[i])
    IN so_far

SanitizeName(value) == Trim(Loop(value)[Len(value)].b)

SanitizeScaleSetName(scaleSetName) ==
    IF SanitizeName(scaleSetName) = <<>>
    THEN <<"s", "c", "a", "l", "e", "-", "s", "e", "t">>
    ELSE SanitizeName(scaleSetName)

RunnerIDBase36(runnerID) ==
    LET numeral[n \in 0..runnerID] ==
            (IF n < 36 THEN <<>> ELSE numeral[n \div 36]) \o <<Base36[(n % 36) + 1]>>
    IN numeral[runnerID]

\* A number that is a name's has the room it needs beside the rest of it: the
\* source has 6 + 13 + 8 + 4 <= 63, as a number of 64 bits has 13 digits.
RoomAssumption ==
    \A id \in RunnerIDs :
        Len(containerNamePrefix) + Len(RunnerIDBase36(id)) + ContainerSuffixLength + 4
            <= containerNameLimit

\* The loop over the characters that keeps some of them.
Only(value, kept) ==
    LET so_far[i \in 0..Len(value)] ==
            IF i = 0 THEN <<>>
            ELSE so_far[i - 1] \o (IF value[i] \in kept THEN <<value[i]>> ELSE <<>>)
    IN so_far[Len(value)]

hexSuffix(value, length) ==
    LET hex == Only(Lower(value), LowerHex)
    IN [i \in 1..length |-> IF i <= Len(hex) THEN hex[i] ELSE "0"]

\* Mutant: the name is cut where it gets too long.
ContainerNameCut(scaleSetName, runnerID, suffix) ==
    LET name == containerNamePrefix \o SanitizeScaleSetName(scaleSetName) \o <<"-", "r">>
                \o RunnerIDBase36(runnerID) \o <<"-">>
                \o hexSuffix(suffix, ContainerSuffixLength)
    IN SubSeq(name, 1, Min({Len(name), containerNameLimit}))

ContainerName(scaleSetName, runnerID, suffix) ==
    LET runner == <<"r">> \o RunnerIDBase36(runnerID) \o <<"-">>
                  \o hexSuffix(suffix, ContainerSuffixLength)
        scale == SanitizeScaleSetName(scaleSetName)
        available ==
            Max({containerNameLimit - Len(containerNamePrefix \o runner) - 1, 1})
        cut == Trim(SubSeq(scale, 1, available))
        fitting == CASE Len(scale) <= available -> scale
                     [] Len(scale) > available /\ cut = <<>> -> <<"s">>
                     [] Len(scale) > available /\ cut # <<>> -> cut
    IN containerNamePrefix \o fitting \o <<"-">> \o runner

RunnerName(scaleSetName, suffix) ==
    SanitizeScaleSetName(scaleSetName) \o <<"-">>
    \o hexSuffix(suffix, runnerNameSuffixLength)

ValidRunnerName(name) ==
    LET dashes == {i \in DOMAIN name : name[i] = "-"}
        prefix == SubSeq(name, 1, Max(dashes) - 1)
        suffix == SubSeq(name, Max(dashes) + 1, Len(name))
    IN /\ Len(name) >= runnerNameSuffixLength + 2
       /\ dashes # {} /\ Max(dashes) > 1
       /\ Len(suffix) = runnerNameSuffixLength /\ ToSet(suffix) \subseteq LowerHex
       /\ SanitizeName(prefix) = prefix
-----------------------------------------------------------------------------
VARIABLE scaleSetName

Init == scaleSetName = <<>>

AnotherCharacter ==
    /\ Len(scaleSetName) < MaxNameLength
    /\ \E c \in Alphabet : scaleSetName' = Append(scaleSetName, c)

Spec == Init /\ [][AnotherCharacter]_scaleSetName
-----------------------------------------------------------------------------
(* Properties.                                                             *)

\* What Docker accepts: [a-zA-Z0-9][a-zA-Z0-9_.-]+
DockerName(name) ==
    /\ Len(name) >= 2
    /\ name[1] \in Alphanumeric
    /\ \A i \in DOMAIN name : name[i] \in Alphanumeric \cup Punctuation

\* A sanitized name is in normal form: letters and digits of the name in their
\* order and lower case, punctuation only between them, where the name has
\* something else than letters and digits (names.go:18-33).
SanitizedIsNormal ==
    LET name == SanitizeName(scaleSetName)
    IN /\ Only(name, Alphanumeric) = Only(Lower(scaleSetName), Alphanumeric)
       /\ ToSet(name) \subseteq Alphanumeric \cup Punctuation
       /\ name # <<>> => Head(name) \in Alphanumeric /\ Last(name) \in Alphanumeric
       /\ SanitizeName(name) = name
       /\ Len(name) <= Len(scaleSetName)

\* Every name that is generated passes the check that is made before GitHub is
\* asked, and twice again once GitHub has registered the runner: no runner is
\* registered whose name is refused later (names.go:72-96, jit.go:59,
\* validator_identity.go:36, validator_managed.go:18).
GeneratedNamesAreValid ==
    \A suffix \in RandomHex : ValidRunnerName(RunnerName(scaleSetName, suffix))

\* A container's name is one that Docker accepts and keeps to the limit, for
\* runners with short and with long numbers (names.go:53-69).
ContainerNamesFit ==
    \A id \in RunnerIDs, suffix \in RandomHex :
        LET name == ContainerName(scaleSetName, id, suffix)
        IN DockerName(name) /\ Len(name) <= containerNameLimit

\* The number of the runner and its suffix can be read off the end of a
\* container's name, whatever the scale set is called and however much of its
\* name is cut off: no two runners get the same name, be it in one scale set or
\* in two (names.go:53-69).
RunnersAreToldApart ==
    \A id \in RunnerIDs, suffix \in RandomHex :
        LET name == ContainerName(scaleSetName, id, suffix)
            dashes == {i \in DOMAIN name : name[i] = "-"}
            last == Max(dashes)
            middle == Max(dashes \ {last})
        IN /\ SubSeq(name, last + 1, Len(name)) = SubSeq(suffix, 1, ContainerSuffixLength)
           /\ SubSeq(name, middle + 1, last - 1) = <<"r">> \o RunnerIDBase36(id)
           /\ \A other \in RunnerIDs : RunnerIDBase36(other) = RunnerIDBase36(id) => other = id

\* No name that is generated is refused, by any of those who check it, or taken
\* for another's.
NamesSafe ==
    SanitizedIsNormal /\ GeneratedNamesAreValid /\ ContainerNamesFit /\ RunnersAreToldApart

=============================================================================
