---------------------------- MODULE CommandLine ----------------------------
(***************************************************************************)
(* What becomes of a command line (internal/cli): the commands, the place  *)
(* of --config, what the flag package makes of the rest, and the exit code *)
(* that systemd, Docker's restart policy and monitoring go by.             *)
(*                                                                         *)
(* An operator types a line, argument by argument; then it is run.  What   *)
(* loading does is in Configuration, what the daemon does in App.          *)
(***************************************************************************)
EXTENDS Integers, Sequences, SequencesExt

CONSTANT MaxArgs    \* bound: how many arguments a line has

Paths == {"a.yaml", "b.yaml", ""}
DefaultConfigPath == "/etc/arc-docker/config.yaml"

\* --config=PATH, with the path
Assigned == [t \in {"--config=a.yaml", "--config=b.yaml", "--config="} |->
                 CASE t = "--config=a.yaml" -> "a.yaml"
                   [] t = "--config=b.yaml" -> "b.yaml"
                   [] t = "--config=" -> ""]
Help == {"-h", "--help"}
ConfigFlags == {"--config", "-config"}
Arguments == {"serve", "check", "version", "-x", "--"}
             \cup ConfigFlags \cup Help \cup Paths \cup DOMAIN Assigned

ExitOK == 0
ExitError == 1
ExitUsage == 2
Running == -1
-----------------------------------------------------------------------------
(* What a line asks for: a command and a path, or an exit code at once.    *)

Quit(code) == [command |-> "none", path |-> "", code |-> code]
Do(command, path) == [command |-> command, path |-> path, code |-> ExitOK]

Given == Arguments \cup {DefaultConfigPath}     \* what a path may be

\* The flag package reads flags up to the first argument that is none; -config
\* and --config are the same.  Any argument after them is refused.  Here it is
\* at argument i and has path p; the rest is parsed by parse.
ParseArg(command, args, parse, i, p) ==
    IF i > Len(args) THEN Do(command, p)
    ELSE CASE args[i] \in Help -> Quit(ExitOK)
           [] args[i] \in ConfigFlags ->
                  IF command = "version" \/ i = Len(args) THEN Quit(ExitUsage)
                  ELSE parse[i + 2][args[i + 1]]
           [] args[i] \in DOMAIN Assigned ->
                  IF command = "version" THEN Quit(ExitUsage)
                  ELSE parse[i + 1][Assigned[args[i]]]
           [] args[i] = "--" /\ i = Len(args) -> Do(command, p)
           [] OTHER -> Quit(ExitUsage)

Parser(command, args) ==
    LET parse[i \in 1..Len(args) + 1] ==
            [p \in Given |-> ParseArg(command, args, parse, i, p)]
    IN parse

parseArgs(command, path, args) == Parser(command, args)[1][path]

\* The command is the first argument.
Dispatch(args) ==
    CASE args[1] \in {"serve", "check", "version"} ->
             parseArgs(args[1], DefaultConfigPath, Tail(args))
      [] args[1] \in Help -> Quit(ExitOK)
      [] OTHER -> Quit(ExitUsage)

\* Mutant: the path from before the command is put behind the other flags.
RunFirstPathLast(args) ==
    CASE args = <<>> -> Quit(ExitUsage)
      [] args # <<>> /\ Head(args) = "--config" ->
             IF Len(args) < 3 \/ args[2] = "" THEN Quit(ExitUsage)
             ELSE Dispatch(SubSeq(args, 3, Len(args)) \o <<"--config", args[2]>>)
      [] args # <<>> /\ Head(args) \in DOMAIN Assigned ->
             IF Len(args) < 2 \/ Assigned[Head(args)] = "" THEN Quit(ExitUsage)
             ELSE Dispatch(Tail(args) \o <<"--config", Assigned[Head(args)]>>)
      [] OTHER -> Dispatch(args)

\* A path before the command is moved behind it.
Run(args) ==
    LET Moved(path, rest) ==
            IF path = "" \/ rest = <<>> THEN Quit(ExitUsage)
            ELSE Dispatch(<<Head(rest), "--config", path>> \o Tail(rest))
    IN CASE args = <<>> -> Quit(ExitUsage)
         [] args # <<>> /\ Head(args) = "--config" ->
                IF Len(args) < 2 THEN Quit(ExitUsage)
                ELSE Moved(args[2], SubSeq(args, 3, Len(args)))
         [] args # <<>> /\ Head(args) \in DOMAIN Assigned ->
                Moved(Assigned[Head(args)], Tail(args))
         [] OTHER -> Dispatch(args)
-----------------------------------------------------------------------------
VARIABLES
    args,       \* the command line
    at,         \* where the process is
    loaded,     \* the path that was loaded
    effect,     \* what has gone on: "config" read, "serve" or "check" done
    exit        \* the exit code, or Running

vars == <<args, at, loaded, effect, exit>>

Init ==
    /\ args = <<>>
    /\ at = "typing"
    /\ loaded = "none"
    /\ effect = {}
    /\ exit = Running

Type ==
    /\ at = "typing" /\ Len(args) < MaxArgs
    /\ \E a \in Arguments : args' = Append(args, a)
    /\ UNCHANGED <<at, loaded, effect, exit>>

Exit(code) == at' = "exited" /\ exit' = code

\* Run, as far as the command.
Start ==
    /\ at = "typing"
    /\ IF Run(args).command \in {"serve", "check"}
       THEN at' = "load" /\ UNCHANGED exit
       ELSE Exit(Run(args).code)
    /\ UNCHANGED <<args, loaded, effect>>

Load ==
    /\ at = "load"
    /\ loaded' = Run(args).path
    /\ effect' = effect \cup {"config"}
    /\ \/ Run(args).path # "" /\ at' = "command" /\ UNCHANGED exit
       \/ Exit(ExitError)
    /\ UNCHANGED args

\* app.Serve or app.Check succeeds or fails.
Command ==
    /\ at = "command"
    /\ \/ effect' = effect \cup {"succeeded"} /\ Exit(ExitOK)
       \/ effect' = effect \cup {"failed"} /\ Exit(ExitError)
    /\ UNCHANGED <<args, loaded>>

Next == Type \/ Start \/ Load \/ Command

Spec == Init /\ [][Next]_vars
-----------------------------------------------------------------------------
(* Properties.                                                             *)

\* The exit code tells what has happened: 2 that the line could not be
\* understood, and then nothing was read or begun; 1 that loading or the command
\* failed; 0 that the command succeeded or that only help or a version was asked
\* for (cli.go:20-28).
ExitTells ==
    /\ exit = ExitUsage => effect = {}
    /\ exit = ExitError => "config" \in effect /\ "succeeded" \notin effect
    /\ exit = ExitOK =>
           \/ {"config", "succeeded"} \subseteq effect
           \/ effect = {} /\ \E i \in DOMAIN args : args[i] \in Help \cup {"version"}
    /\ "failed" \in effect => exit = ExitError

\* The arguments a line has, by their role: the path of the flag before it, or
\* something by itself.
Roles(line) ==
    LET role[i \in DOMAIN line] ==
            IF i > 1 /\ line[i - 1] \in ConfigFlags /\ role[i - 1] # "path"
            THEN "path" ELSE "own"
    IN role

NamesPath(line, i) ==
    Roles(line)[i] = "own" /\ line[i] \in ConfigFlags \cup DOMAIN Assigned

PathNamed(line, i) == IF line[i] \in ConfigFlags THEN line[i + 1] ELSE Assigned[line[i]]

\* The configuration that is loaded is the last one the line names, before or
\* after the command, and the default only if it names none (cli.go:36-60).
LastPathIsLoaded ==
    LET named == {i \in DOMAIN args : NamesPath(args, i)}
        last == CHOOSE i \in named : \A j \in named : j <= i
    IN loaded # "none" =>
           loaded = IF named = {} THEN DefaultConfigPath ELSE PathNamed(args, last)

\* The process does what its command line says, and says what it did.
CommandLineSafe == ExitTells /\ LastPathIsLoaded

=============================================================================
