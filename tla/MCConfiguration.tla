-------------------------- MODULE MCConfiguration --------------------------
(***************************************************************************)
(* Instances of Configuration: a small configuration that is accepted, and *)
(* all that differ from it in one or in two places.                        *)
(***************************************************************************)
EXTENDS Configuration

App == [AppID |-> 1, InstallationID |-> 1, PrivateKeyFile |-> "key"]

Minimal ==
    [URL |-> <<>>, Scope |-> "organization", Repository |-> "", App |-> <<App>>,
     required |-> [f \in RequiredWords |-> "good"],
     words |-> [f \in OptionalWords |-> <<>>],
     durations |-> [t \in Timeouts |-> <<>>],
     MinRunners |-> <<>>, MaxRunners |-> <<1>>, Host |-> <<>>]

\* A URL that differs from the default in one place, or in how it ends.
SomeURLs ==
    {[DefaultURL EXCEPT !.scheme = "http"], [DefaultURL EXCEPT !.host = "other"],
     [DefaultURL EXCEPT !.port = "443"]}
    \cup {[DefaultURL EXCEPT !.path = p, !.query = q] :
              p \in {<<>>, <<"/">>, <<"/", "/">>, <<"/", "x">>}, q \in {"none", "empty", "some"}}
    \cup {[DefaultURL EXCEPT !.fragment = f] : f \in {"empty", "some"}}

\* All that can be changed in one place.
Changed(c) ==
    {[c EXCEPT !.URL = v] : v \in Optional(SomeURLs)}
    \cup {[c EXCEPT !.Scope = v] : v \in {"repository", "bad"}}
    \cup {[c EXCEPT !.Repository = v] : v \in Words}
    \cup {[c EXCEPT !.App = v] : v \in Optional(Apps)}
    \cup {[c EXCEPT !.required[f] = v] : f \in RequiredWords, v \in Words}
    \cup {[c EXCEPT !.words[f] = v] : f \in OptionalWords, v \in Optional(Words)}
    \cup {[c EXCEPT !.durations[t] = v] : t \in Timeouts, v \in Optional(Durations)}
    \cup {[c EXCEPT !.MinRunners = v] : v \in Optional({-1, 0, 1, 2})}
    \cup {[c EXCEPT !.MaxRunners = v] : v \in Optional({-1, 0, 1, 3, 4})}
    \cup {[c EXCEPT !.Host = v] : v \in Optional(Hosts)}

OneChange == Changed(Minimal)

\* Two changes, one of them of what other fields depend on.
TwoChanges ==
    UNION {Changed(c) : c \in
        {[Minimal EXCEPT !.Scope = "repository", !.Repository = "good"],
         [Minimal EXCEPT !.App = <<>>],
         [Minimal EXCEPT !.MaxRunners = <<3>>]}}

AllChanges == OneChange \cup TwoChanges
=============================================================================
