\* The other constants of the machines are given in the module.
CONSTANTS
    RawConfigs <- AllRawConfigs
    MaxRunnersLimit = 3
    secretFileMaxSize = 1
    MaxSize = 2
    MaxArgs = 4
    Entries <- SomeEntries
    \* Limits that names of five characters reach: a limit of 12 leaves between
    \* two and four characters to the scale set.
    Alphabet = {"a", "z", "0", "K", "-", ".", " "}
    MaxNameLength = 5
    RunnerIDs = {35, 36, 1296}
    RandomHex <- SomeSuffixes
    containerNamePrefix <- ShortPrefix
    containerNameLimit = 12
    runnerNameSuffixLength = 3
    ContainerSuffixLength = 2

SPECIFICATION PartsSpec
INVARIANTS
    PassedIsUsable CheckPredictsStartup
    AcceptedIsSound SecretIsWhatWasChecked HostConfigSafe NamesSafe CommandLineSafe
\* Most of the machines come to an end.
CHECK_DEADLOCK FALSE
