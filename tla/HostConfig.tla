----------------------------- MODULE HostConfig -----------------------------
(***************************************************************************)
(* How the Docker settings of a runner are read (config/host_config.go):   *)
(* the names in the file may be written in upper and lower case, so the    *)
(* YAML tree is rewritten, along the Go types, into one that the YAML      *)
(* package decodes, and what an embedded struct promotes is put under it.  *)
(*                                                                         *)
(* A key is a word with a spelling; the word is the lower-case form.  Kinds*)
(* of scalars, null values and pointers are left out.  The types are an    *)
(* excerpt of container.HostConfig, where the names a field has in Go and  *)
(* in JSON are one word.                                                   *)
(***************************************************************************)
EXTENDS Naturals, Sequences, SequencesExt

CONSTANTS
    Entries,        \* what may stand in the file: keys with their values
    MaxEntries      \* bound: how many of them

(* Go types.                                                               *)
Scalar == [kind |-> "scalar"]
Slice(type) == [kind |-> "slice", elem |-> type]
MapOf(type) == [kind |-> "map", elem |-> type]
Struct(fields) == [kind |-> "struct", fields |-> fields]
Field(name, type) == [name |-> name, type |-> type, embedded |-> FALSE]
Embedded(name, type) == [name |-> name, type |-> type, embedded |-> TRUE]

HostConfigType ==
    Struct({Field("capadd", Slice(Scalar)),
            Field("restartpolicy", Struct({Field("name", Scalar)})),
            Field("portbindings", MapOf(Slice(Struct({Field("hostport", Scalar)})))),
            Embedded("resources",
                     Struct({Field("memory", Scalar),
                             Field("ulimits", Slice(Struct({Field("name", Scalar)})))}))})

(* YAML.                                                                   *)
ScalarNode(value) == [kind |-> "scalar", value |-> value]
SequenceNode(content) == [kind |-> "sequence", content |-> content]
MappingNode(content) == [kind |-> "mapping", content |-> content]
AliasNode(node) == [kind |-> "alias", alias |-> node]
Key(word, spelling) == [word |-> word, spelling |-> spelling]
Pair(key, node) == [key |-> key, node |-> node]
-----------------------------------------------------------------------------
(* The rewriting.  A result is a sequence of one, or empty: refused.       *)

AllThere(results) == \A i \in DOMAIN results : results[i] # <<>>

RECURSIVE hostConfigFields(_, _)

\* Mutant: a promoted field is looked for where its struct is embedded.
hostConfigFieldsFlat(type, prefix) ==
    UNION {IF f.embedded
           THEN {[word |-> g.name, decodePath |-> <<g.name>>, type |-> g.type] :
                     g \in f.type.fields}
           ELSE {[word |-> f.name, decodePath |-> <<f.name>>, type |-> f.type]} :
           f \in type.fields}

\* collectHostConfigFieldsAtPath
hostConfigFields(type, prefix) ==
    UNION {IF f.embedded
           THEN hostConfigFields(f.type, Append(prefix, f.name))
           ELSE {[word |-> f.name, decodePath |-> Append(prefix, f.name), type |-> f.type]} :
           f \in type.fields}

RECURSIVE appendHostConfigValue(_, _, _)

\* What is already at the end of the path stays.
appendHostConfigValue(content, path, node) ==
    IF path = <<>> THEN content
    ELSE LET child == SelectInSeq(content, LAMBDA p : p.key = Key(Head(path), "lower"))
             New == IF Len(path) = 1 THEN node
                    ELSE MappingNode(appendHostConfigValue(<<>>, Tail(path), node))
         IN IF child = 0 THEN Append(content, Pair(Key(Head(path), "lower"), New))
            ELSE [content EXCEPT ![child].node.content =
                                     appendHostConfigValue(@, Tail(path), node)]

RECURSIVE normalizeHostConfigNode(_, _)

normalizeHostConfigStruct(node, type) ==
    LET fields == hostConfigFields(type, <<>>)
        Canonical(i) == node.content[i].key.word
        known == \A i \in DOMAIN node.content : \E f \in fields : f.word = Canonical(i)
        seenOnce == \A i, j \in DOMAIN node.content : i # j => Canonical(i) # Canonical(j)
        FieldOf(i) == CHOOSE f \in fields : f.word = Canonical(i)
        values == [i \in DOMAIN node.content |->
                       normalizeHostConfigNode(node.content[i].node, FieldOf(i).type)]
    IN IF known /\ seenOnce /\ AllThere(values)
       THEN <<MappingNode(FoldLeft(LAMBDA content, i :
                              appendHostConfigValue(content, FieldOf(i).decodePath,
                                                    Head(values[i])),
                          <<>>, [i \in DOMAIN node.content |-> i]))>>
       ELSE <<>>

normalizeHostConfigMap(node, type) ==
    LET values == [i \in DOMAIN node.content |->
                       normalizeHostConfigNode(node.content[i].node, type.elem)]
    IN IF AllThere(values)
       THEN <<MappingNode([i \in DOMAIN values |->
                               Pair(node.content[i].key, Head(values[i]))])>>
       ELSE <<>>

\* What does not fit its type is left, without its content, to the decoder.
normalizeHostConfigNode(node, type) ==
    CASE node.kind = "alias" -> normalizeHostConfigNode(node.alias, type)
      [] node.kind = "mapping" /\ type.kind = "struct" -> normalizeHostConfigStruct(node, type)
      [] node.kind = "mapping" /\ type.kind = "map" -> normalizeHostConfigMap(node, type)
      [] node.kind = "sequence" /\ type.kind = "slice" ->
             LET values == [i \in DOMAIN node.content |->
                                normalizeHostConfigNode(node.content[i], type.elem)]
             IN IF AllThere(values)
                THEN <<SequenceNode([i \in DOMAIN values |-> Head(values[i])])>> ELSE <<>>
      [] node.kind = "scalar" -> <<node>>
      [] OTHER -> <<[node EXCEPT !.content = <<>>]>>
-----------------------------------------------------------------------------
(* The decoding.  What a Go value holds is the set of its scalars, each    *)
(* with the way to it.                                                     *)

Behind(step, leaves) == {<<step \o leaf[1], leaf[2]>> : leaf \in leaves}

Duplicate(node) ==
    \E i, j \in DOMAIN node.content : i # j /\ node.content[i].key = node.content[j].key

RECURSIVE Decode(_, _)

\* The key of a field is its name in lower case; a key that is none is passed
\* over, a key that is there twice refused.
Decode(node, type) ==
    LET Items == [i \in DOMAIN node.content |-> Decode(node.content[i], type.elem)]
        Values == [i \in DOMAIN node.content |-> Decode(node.content[i].node, type.elem)]
        At(f) == SelectInSeq(node.content, LAMBDA p : p.key = Key(f.name, "lower"))
        there == {f \in type.fields : At(f) # 0}
        InField == [f \in there |-> Decode(node.content[At(f)].node, f.type)]
        Step(f) == IF f.embedded THEN <<>> ELSE <<Key(f.name, "lower")>>
    IN CASE node.kind = "scalar" /\ type.kind = "scalar" -> <<{<<<<>>, node.value>>}>>
         [] node.kind = "sequence" /\ type.kind = "slice" ->
                IF AllThere(Items)
                THEN <<UNION {Behind(<<Key("item", i)>>, Head(Items[i])) : i \in DOMAIN Items}>>
                ELSE <<>>
         [] node.kind = "mapping" /\ type.kind = "map" ->
                IF ~Duplicate(node) /\ AllThere(Values)
                THEN <<UNION {Behind(<<node.content[i].key>>, Head(Values[i])) :
                                  i \in DOMAIN Values}>>
                ELSE <<>>
         [] node.kind = "mapping" /\ type.kind = "struct" ->
                IF ~Duplicate(node) /\ AllThere(InField)
                THEN <<UNION {Behind(Step(f), Head(InField[f])) : f \in there}>>
                ELSE <<>>
         [] OTHER -> <<>>
-----------------------------------------------------------------------------
VARIABLES
    hostConfig,     \* the content of the file
    result          \* <<>> until it is read; then what Decode returns

vars == <<hostConfig, result>>

Init == hostConfig = <<>> /\ result = <<>>

\* An operator writes another line.
Write ==
    /\ result = <<>> /\ Len(hostConfig) < MaxEntries
    /\ \E e \in Entries : hostConfig' = Append(hostConfig, e)
    /\ UNCHANGED result

UnmarshalYAML ==
    /\ result = <<>>
    /\ LET normalized == normalizeHostConfigNode(MappingNode(hostConfig), HostConfigType)
       IN result' = <<IF normalized = <<>> THEN <<>>
                      ELSE Decode(Head(normalized), HostConfigType)>>
    /\ UNCHANGED hostConfig

Next == Write \/ UnmarshalYAML

Spec == Init /\ [][Next]_vars
-----------------------------------------------------------------------------
(* What the file says, without any rewriting.                              *)

RECURSIVE Named(_, _), Clear(_, _), Said(_, _)

\* The types of the fields a word names, promoted ones included.
Named(type, word) ==
    UNION {IF f.embedded THEN Named(f.type, word)
           ELSE IF f.name = word THEN {f.type} ELSE {} : f \in type.fields}

TheType(type, word) == CHOOSE t \in Named(type, word) : TRUE

\* Every field is known and is named once, and every value has the form its
\* type wants.
Clear(node, type) ==
    \/ node.kind = "alias" /\ Clear(node.alias, type)
    \/ node.kind = "scalar" /\ type.kind = "scalar"
    \/ /\ node.kind = "sequence" /\ type.kind = "slice"
       /\ \A i \in DOMAIN node.content : Clear(node.content[i], type.elem)
    \/ /\ node.kind = "mapping" /\ type.kind = "map"
       /\ ~Duplicate(node)
       /\ \A i \in DOMAIN node.content : Clear(node.content[i].node, type.elem)
    \/ /\ node.kind = "mapping" /\ type.kind = "struct"
       /\ \A i \in DOMAIN node.content :
              /\ Named(type, node.content[i].key.word) # {}
              /\ Clear(node.content[i].node, TheType(type, node.content[i].key.word))
              /\ \A j \in DOMAIN node.content :
                     i # j => node.content[i].key.word # node.content[j].key.word

\* Every scalar, with the way to it: the spelling of a field does not count, that
\* of a key of a map does.
Said(node, type) ==
    CASE node.kind = "alias" -> Said(node.alias, type)
      [] node.kind = "scalar" -> {<<<<>>, node.value>>}
      [] node.kind = "sequence" ->
             UNION {Behind(<<Key("item", i)>>, Said(node.content[i], type.elem)) :
                        i \in DOMAIN node.content}
      [] node.kind = "mapping" /\ type.kind = "map" ->
             UNION {Behind(<<node.content[i].key>>, Said(node.content[i].node, type.elem)) :
                        i \in DOMAIN node.content}
      [] node.kind = "mapping" /\ type.kind = "struct" ->
             UNION {LET word == node.content[i].key.word
                    IN Behind(<<Key(word, "lower")>>,
                              Said(node.content[i].node, TheType(type, word))) :
                        i \in DOMAIN node.content}
-----------------------------------------------------------------------------
(* Properties.                                                             *)

\* What Docker is given is what the file says, every setting once and in its
\* place, however its name is spelled and wherever its struct is embedded: a
\* limit or a security option is never lost on the way (host_config.go:33-152).
SettingsArrive ==
    result # <<>> /\ Head(result) # <<>> =>
        Head(Head(result)) = Said(MappingNode(hostConfig), HostConfigType)

\* The settings are refused if and only if they are wrong: a field that is not
\* known or is there in two spellings, at any depth, or a value of the wrong form
\* (host_config.go:86-115).
RefusedIfWrong ==
    result # <<>> =>
        (Head(result) # <<>> <=> Clear(MappingNode(hostConfig), HostConfigType))

\* A file is either refused for a mistake or arrives as it was written.
HostConfigSafe == SettingsArrive /\ RefusedIfWrong

=============================================================================
