--------------------------- MODULE Configuration ---------------------------
(***************************************************************************)
(* How the configuration is loaded (internal/config): the environment, the *)
(* file, defaults, the secret and the checks, in the order of Load, while  *)
(* somebody else may replace the secret's file or write to it.             *)
(*                                                                         *)
(* Of a text, only what the functions tell apart is kept: whether it is    *)
(* empty, blank at its ends, acceptable in its place, or what is taken     *)
(* when it is omitted.  An optional value is a sequence of at most one.    *)
(***************************************************************************)
EXTENDS Integers, Sequences, SequencesExt, FiniteSets

CONSTANTS
    RawConfigs,         \* what may be in the file
    MaxRunnersLimit,    \* the source has 2^31 - 1
    secretFileMaxSize,
    MaxSize             \* bound: how large a file gets

Optional(S) == {<<>>} \cup {<<v>> : v \in S}
optional(v, default) == IF v = <<>> THEN default ELSE Head(v)

Words == {"", " ", "good", " good ", "bad"}
TrimSpace(w) == CASE w = " good " -> "good" [] w = " " -> "" [] OTHER -> w
Valid(w) == w \in {"good", "default"}

OptionalWords == {"runnerGroup", "pullPolicy", "listen", "busyRunnerPolicy",
                  "format", "level"}
RequiredWords == {"owner", "name", "image"}

\* What time.ParseDuration makes of a text with a unit.
Parsed == [s \in {"-5s", "0s", "5s"} |->
               CASE s = "-5s" -> -5 [] s = "0s" -> 0 [] s = "5s" -> 5]
Durations == DOMAIN Parsed \cup {"5", "soon"}
Timeouts == {"provisioningTimeout", "stopTimeout", "gracePeriod"}
DefaultDuration == 1

URLs == [scheme : {"https", "http"}, host : {"github.com", "other"}, port : {"", "443"},
         path : {<<>>, <<"/">>, <<"/", "/">>, <<"/", "x">>},
         query : {"none", "empty", "some"}, fragment : {"none", "empty", "some"}]
DefaultURL == [scheme |-> "https", host |-> "github.com", port |-> "", path |-> <<>>,
               query |-> "none", fragment |-> "none"]

Hosts == [scheme : {"unix", "tcp"}, path : UNION {[1..n -> {"/", "d"}] : n \in 0..3}]
DefaultHost == [scheme |-> "unix", path |-> <<"/", "d">>]

Apps == [AppID : {0, 1}, InstallationID : {0, 1}, PrivateKeyFile : {"", " ", "key"}]

RawConfigsAssumption ==
    RawConfigs \subseteq
        [URL : Optional(URLs), Scope : {"organization", "repository", "bad"},
         Repository : Words, App : Optional(Apps),
         required : [RequiredWords -> Words],
         words : [OptionalWords -> Optional(Words)],
         durations : [Timeouts -> Optional(Durations)],
         MinRunners : Optional(-1..MaxRunnersLimit + 1),
         MaxRunners : Optional(-1..MaxRunnersLimit + 1),
         Host : Optional(Hosts)]
LimitsAssumption ==
    /\ MaxRunnersLimit \in Nat \ {0} /\ secretFileMaxSize \in Nat
    /\ MaxSize \in Nat \ {0}
-----------------------------------------------------------------------------
(* What Load computes.                                                     *)

\* strings.TrimRight(value, "/")
TrimSlashes(path) ==
    LET kept == {i \in 1..Len(path) : \E j \in i..Len(path) : path[j] # "/"}
    IN SubSeq(path, 1, Cardinality(kept))

\* A question mark or a hash at the end keeps the slashes before it.
TrimURL(u) ==
    IF u.query = "none" /\ u.fragment = "none"
    THEN [u EXCEPT !.path = TrimSlashes(@)] ELSE u

normalizeDockerHost(h) ==
    IF h.scheme = "unix" THEN [h EXCEPT !.path = TrimSlashes(@)] ELSE h

\* decodeYAML: the durations of the file are read, or it is refused.
Decodable(raw) ==
    \A t \in Timeouts : raw.durations[t] # <<>> =>
        LET s == Head(raw.durations[t]) IN s \in DOMAIN Parsed /\ Parsed[s] > 0

resolveWord(v) == TrimSpace(optional(v, "default"))

resolve(raw) ==
    [URL |-> TrimURL(optional(raw.URL, DefaultURL)),
     Scope |-> raw.Scope,
     Repository |-> TrimSpace(raw.Repository),
     App |-> IF raw.App = <<>> THEN <<>>
             ELSE <<[Head(raw.App) EXCEPT !.PrivateKeyFile = TrimSpace(@)]>>,
     required |-> [f \in RequiredWords |-> TrimSpace(raw.required[f])],
     words |-> [f \in OptionalWords |-> resolveWord(raw.words[f])],
     durations |-> [t \in Timeouts |->
                       IF raw.durations[t] = <<>> THEN DefaultDuration
                       ELSE Parsed[Head(raw.durations[t])]],
     MinRunners |-> optional(raw.MinRunners, 0),
     MaxRunners |-> optional(raw.MaxRunners, 0),
     Host |-> normalizeDockerHost(optional(raw.Host, DefaultHost))]

validateGitHubURL(u) ==
    /\ u.scheme = "https" /\ u.host = "github.com" /\ u.port = ""
    /\ u.path \in {<<>>, <<"/">>}
    /\ u.query # "some" /\ u.fragment # "some"

validateGitHub(c) ==
    /\ validateGitHubURL(c.URL)
    /\ c.Scope \in {"organization", "repository"}
    /\ IF c.Scope = "repository" THEN Valid(c.Repository) ELSE c.Repository = ""
    /\ \A i \in DOMAIN c.App : /\ c.App[i].AppID > 0 /\ c.App[i].InstallationID > 0
                               /\ c.App[i].PrivateKeyFile # ""

validateDockerHost(h) ==
    /\ h.scheme = "unix"
    /\ h.path # <<>> /\ Head(h.path) = "/" /\ Last(h.path) # "/"

\* Mutant: an upper bound for runners is all that is looked at.
validateUpperOnly(c) ==
    /\ validateGitHub(c)
    /\ \A f \in RequiredWords : Valid(c.required[f])
    /\ \A f \in OptionalWords : Valid(c.words[f])
    /\ c.MaxRunners <= MaxRunnersLimit /\ c.MinRunners <= c.MaxRunners
    /\ validateDockerHost(c.Host)

validate(c) ==
    /\ validateGitHub(c)
    /\ \A f \in RequiredWords : Valid(c.required[f])
    /\ \A f \in OptionalWords : Valid(c.words[f])
    /\ c.MinRunners >= 0
    /\ c.MaxRunners \in 1..MaxRunnersLimit
    /\ c.MinRunners <= c.MaxRunners
    /\ validateDockerHost(c.Host)

\* GitHubConfigURL, as the path it has: what follows a question mark or a hash
\* does not belong to it.
ConfigPath(c) ==
    IF c.URL.query = "none" /\ c.URL.fragment = "none"
    THEN <<"owner">> \o (IF c.Scope = "repository" THEN <<"repository">> ELSE <<>>)
    ELSE <<>>
-----------------------------------------------------------------------------
(* Load, step by step.                                                     *)

Files == {"first", "second"}

VARIABLES
    at,         \* the step Load makes next
    ghes, token,    \* the environment
    raw,        \* what the file has
    config,     \* what Load has made of it
    entry,      \* what the path of the secret leads to
    size, open, \* of each file: how large it is, whether others may read it
    fd,         \* the file that is opened
    secret,     \* what was read: of which file, and how much
    warned,     \* the warning of the secret's permissions is given
    result

disk == <<entry, size, open>>
environment == <<ghes, token, raw>>
vars == <<at, environment, config, disk, fd, secret, warned, result>>

NoSecret == [file |-> "none", size |-> 0]

TypeOK ==
    /\ at \in {"start", "decode", "secrets", "open", "stat", "read", "validate", "end"}
    /\ ghes \in BOOLEAN /\ token \in {"", " ", "token"} /\ raw \in RawConfigs
    /\ entry \in Files \cup {"missing", "link", "fifo"}
    /\ size \in [Files -> 0..MaxSize] /\ open \in [Files -> BOOLEAN]
    /\ fd \in Files \cup {"none", "fifo"}
    /\ secret \in [file : Files \cup {"none"}, size : 0..MaxSize]
    /\ warned \in BOOLEAN
    /\ result \in {"none", "accepted", "refused"}
    /\ at = "end" <=> result # "none"
    /\ at = "read" => fd \in Files

Init ==
    /\ at = "start"
    /\ ghes \in BOOLEAN /\ token \in {"", " ", "token"} /\ raw \in RawConfigs
    /\ config = resolve([raw EXCEPT !.durations = [t \in Timeouts |-> <<>>]])
    /\ entry \in {"first", "missing", "link", "fifo"}
    /\ size \in {s \in [Files -> {0, 1}] : s["second"] = 1}
    /\ open = [f \in Files |-> f = "second"]
    /\ fd = "none" /\ secret = NoSecret /\ warned = FALSE
    /\ result = "none"

Refuse == at' = "end" /\ result' = "refused"
GoOn(step) == at' = step /\ UNCHANGED result

CheckEnvironment ==
    /\ at = "start"
    /\ IF ghes THEN Refuse ELSE GoOn("decode")
    /\ UNCHANGED <<environment, config, disk, fd, secret, warned>>

\* The file is missing, empty, has unknown fields or several documents, or can
\* be decoded.
Decode ==
    /\ at = "decode"
    /\ \/ Refuse /\ UNCHANGED config
       \/ /\ Decodable(raw)
          /\ config' = resolve(raw)
          /\ GoOn("secrets")
    /\ UNCHANGED <<environment, disk, fd, secret, warned>>

LoadSecrets ==
    /\ at = "secrets"
    /\ CASE (config.App = <<>>) = (TrimSpace(token) # "token") -> Refuse
         [] config.App = <<>> /\ TrimSpace(token) = "token" -> GoOn("validate")
         [] config.App # <<>> /\ TrimSpace(token) # "token" ->
                IF config.App[1].PrivateKeyFile = "" THEN Refuse ELSE GoOn("open")
    /\ UNCHANGED <<environment, config, disk, fd, secret, warned>>

\* Links are not followed, and a FIFO does not block.
Open ==
    /\ at = "open"
    /\ IF entry \in {"missing", "link"}
       THEN Refuse /\ UNCHANGED fd
       ELSE fd' = entry /\ GoOn("stat")
    /\ UNCHANGED <<environment, config, disk, secret, warned>>

\* Mutant: it is the path that is looked at.
StatPath ==
    /\ at = "stat"
    /\ IF fd \in Files /\ entry \in Files /\ size[entry] <= secretFileMaxSize
       THEN warned' = open[entry] /\ GoOn("read")
       ELSE Refuse /\ UNCHANGED warned
    /\ UNCHANGED <<environment, config, disk, fd, secret>>

Stat ==
    /\ at = "stat"
    /\ IF fd \in Files /\ size[fd] <= secretFileMaxSize
       THEN warned' = open[fd] /\ GoOn("read")
       ELSE Refuse /\ UNCHANGED warned
    /\ UNCHANGED <<environment, config, disk, fd, secret>>

\* One more than the limit is asked for.  A read may fail; a blank file counts
\* as empty.
Read ==
    /\ at = "read"
    /\ \/ Refuse /\ UNCHANGED secret
       \/ /\ size[fd] \in 1..secretFileMaxSize
          /\ secret' = [file |-> fd, size |-> size[fd]]
          /\ GoOn("validate")
    /\ UNCHANGED <<environment, config, disk, fd, warned>>

Validate ==
    /\ at = "validate"
    /\ at' = "end"
    /\ result' = IF validate(config) THEN "accepted" ELSE "refused"
    /\ UNCHANGED <<environment, config, disk, fd, secret, warned>>

\* Somebody puts another file in the place of the secret's, or writes to one.
Others ==
    /\ \/ entry' = "second" /\ UNCHANGED <<size, open>>
       \/ \E f \in Files : /\ size[f] < MaxSize
                           /\ size' = [size EXCEPT ![f] = @ + 1]
                           /\ UNCHANGED <<entry, open>>
    /\ at \in {"open", "stat", "read"}
    /\ UNCHANGED <<at, environment, config, fd, secret, warned, result>>

Next ==
    \/ CheckEnvironment \/ Decode \/ LoadSecrets \/ Open \/ Stat \/ Read \/ Validate
    \/ Others

Spec == Init /\ [][Next]_vars
-----------------------------------------------------------------------------
(* Properties.                                                             *)

\* What is accepted passes the checks of everybody who uses it later, which are
\* not those of this package: the Docker client (client.go:52-62), the pull
\* (image.go:50), the removal, which wants a stop timeout (lifecycle.go:98), the
\* specification of a container (validator_identity.go:15), the clamping of
\* demand (scaler.go:414), the client of GitHub (scaleset/client.go:61-63).
AcceptedIsUsable ==
    result = "accepted" =>
        /\ config.Host.scheme = "unix"
        /\ config.Host.path # <<>> /\ Head(config.Host.path) = "/"
        /\ \A f \in OptionalWords : config.words[f] \in {"good", "default"}
        /\ config.required["image"] # ""
        /\ \A t \in Timeouts : config.durations[t] > 0
        /\ 0 <= config.MinRunners /\ config.MinRunners <= config.MaxRunners
        /\ config.MaxRunners \in 1..MaxRunnersLimit
        /\ config.App # <<>> \/ token = "token"

\* A default stands in only for what was omitted: an explicit value is either
\* taken as it is or the configuration is refused (types.go:108-109).
ExplicitIsKept ==
    result = "accepted" =>
        /\ \A f \in OptionalWords :
               raw.words[f] # <<>> => config.words[f] = TrimSpace(Head(raw.words[f]))
        /\ \A t \in Timeouts :
               raw.durations[t] # <<>> => config.durations[t] = Parsed[Head(raw.durations[t])]
        /\ raw.MinRunners # <<>> => config.MinRunners = Head(raw.MinRunners)
        /\ raw.MaxRunners # <<>> => config.MaxRunners = Head(raw.MaxRunners)

\* There is exactly one way to authenticate, and it is complete: a token, or the
\* numbers of an App with a key (load.go:111-146).
OneCredential ==
    result = "accepted" =>
        IF config.App = <<>>
        THEN token = "token" /\ secret = NoSecret
        ELSE /\ token # "token"
             /\ config.App[1].AppID > 0 /\ config.App[1].InstallationID > 0
             /\ secret.size > 0

\* What is accepted means what the file says, and everybody can use it.
AcceptedIsSound == TypeOK /\ AcceptedIsUsable /\ ExplicitIsKept /\ OneCredential

\* What is read is of the file that was looked at and not more than is allowed,
\* whatever is put in its place and however it grows meanwhile: a secret others
\* may read does not go without the warning (secret_linux.go:15-52).
SecretIsWhatWasChecked ==
    secret # NoSecret => /\ secret.size <= secretFileMaxSize
                         /\ warned = open[secret.file]

\* "validateGitHubURL accepts only the public GitHub endpoint."
\* (validate.go:123), to which GitHubConfigURL adds owner and repository.
AcceptedNamesOwner ==
    result = "accepted" =>
        ConfigPath(config) = <<"owner">>
            \o (IF config.Scope = "repository" THEN <<"repository">> ELSE <<>>)

=============================================================================
