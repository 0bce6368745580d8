---------------------------- MODULE MCHostConfig ----------------------------
(***************************************************************************)
(* An instance of HostConfig: every field in two spellings, with values of *)
(* the right form, some of them wrong inside, and of a wrong form.         *)
(***************************************************************************)
EXTENDS HostConfig

Spellings == {"lower", "upper"}
Named1(word, node) == MappingNode(<<Pair(Key(word, "upper"), node)>>)
v1 == ScalarNode("v1")
v2 == ScalarNode("v2")

Names ==
    {Named1("name", v1), Named1("nosuchfield", v1), Named1("name", SequenceNode(<<v1>>)),
     MappingNode(<<Pair(Key("name", "lower"), v1), Pair(Key("name", "upper"), v2)>>)}

Ports(node) == SequenceNode(<<Named1("hostport", node)>>)

Values(word) ==
    CASE word = "capadd" -> {SequenceNode(<<v1, v2>>), SequenceNode(<<>>), v1,
                             AliasNode(SequenceNode(<<v2>>))}
      [] word = "restartpolicy" -> Names \cup {AliasNode(Named1("name", v2))}
      [] word = "portbindings" ->
             {MappingNode(<<Pair(Key("p", "lower"), Ports(v1)), Pair(Key("p", s), Ports(v2))>>) :
                  s \in Spellings}
             \cup {Named1("p", AliasNode(Ports(v2))), Named1("p", v1), Ports(v1)}
      [] word = "memory" -> {v1, v2, SequenceNode(<<v1>>)}
      [] word = "ulimits" -> {SequenceNode(<<n, Named1("name", v2)>>) : n \in Names}
      [] word = "resources" -> {Named1("memory", v1)}

SomeEntries ==
    UNION {{Pair(Key(word, s), node) : node \in Values(word), s \in Spellings} :
               word \in {"capadd", "restartpolicy", "portbindings", "memory", "ulimits",
                         "resources"}}
=============================================================================
