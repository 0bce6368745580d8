------------------------------ MODULE Startup ------------------------------
(***************************************************************************)
(* What a start looks at before the daemon serves: its command line, the   *)
(* configuration it loads, and then Docker and GitHub; and the names that  *)
(* are made of what the configuration says.  Each has its own variables;   *)
(* here are those of CommandLine, Configuration and Names, beside          *)
(* Preflight, and what the three promise.                                  *)
(***************************************************************************)
EXTENDS Preflight

CONSTANTS
    RawConfigs, MaxRunnersLimit, secretFileMaxSize, MaxSize,    \* of Configuration
    MaxArgs,                                                    \* of CommandLine
    Alphabet, MaxNameLength, RunnerIDs, RandomHex, containerNamePrefix,    \* of Names
    containerNameLimit, runnerNameSuffixLength, ContainerSuffixLength

VARIABLES
    at, ghes, token, raw, config, entry, size, open, fd, secret, secretWarned, verdict,
    args, stage, loaded, effect, exit,
    scaleSetName

configVars == <<at, ghes, token, raw, config, entry, size, open, fd, secret, secretWarned,
                verdict>>

lineVars == <<args, stage, loaded, effect, exit>>

C == INSTANCE Configuration WITH warned <- secretWarned, result <- verdict
L == INSTANCE CommandLine WITH at <- stage
N == INSTANCE Names

ASSUME ConfigurationAssumption == C!RawConfigsAssumption /\ C!LimitsAssumption
ASSUME NamesAssumption ==
    /\ N!AlphabetAssumption /\ N!RunnerIDsAssumption /\ N!RandomHexAssumption
    /\ N!LimitsAssumption /\ N!PrefixAssumption /\ N!RoomAssumption
-----------------------------------------------------------------------------
(* What they promise; each is stated and explained in its module.          *)

\* What is accepted means what the file says, and everybody can use it
\* (internal/config).
AcceptedIsSound == C!AcceptedIsSound

\* What is read as secret is of the file that was looked at (secret_linux.go:15-52).
SecretIsWhatWasChecked == C!SecretIsWhatWasChecked

\* The process does what its command line says, and says what it did (cli.go:20-60).
CommandLineSafe == L!CommandLineSafe

\* No generated name is refused or taken for another's (names.go:18-96).  A scale
\* set without a name is refused before (validate.go:22).
NamesSafe == scaleSetName # <<>> => N!NamesSafe

=============================================================================
