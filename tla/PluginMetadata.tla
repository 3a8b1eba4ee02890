---------------------------- MODULE PluginMetadata ----------------------------
(***************************************************************************)
(* The contract metadata and graph declarations of a plugin: what an author *)
(* writes is lowered by constant functions into a section of the image      *)
(* (static_metadata.rs), or encoded by the owned types, and the loader       *)
(* decodes it (metadata.rs, graph.rs).                                      *)
(*                                                                         *)
(* Identities are numbers in their order: those of Ids are identifiers, Root *)
(* is "root", any other is malformed.  A node key plugin/node is             *)
(* plugin * 10 + node.  Both encoders write the fields of the normalized    *)
(* declaration, so the section is that declaration.                         *)
(***************************************************************************)
EXTENDS Naturals, Sequences, FiniteSets, SequencesExt

CONSTANTS Ids, Root,
          Contracts,        \* well-formed contract identities, name@major
          Keys, WeakKeys,   \* operation keys; and texts with a slash that are none
          States,           \* triggers state:plugin/property
          MaxCount,
          Authored,         \* metadata an author writes, with its exported handlers
          Graphs            \* graph declarations an author writes

VARIABLES source,    \* [metadata, handlers, graph]
          compiled,  \* what the constants embed: <<>> before, or <<[metadata, graph]>>
          loaded     \* what the loader decodes from it
vars == <<source, compiled, loaded>>

Refused == <<>>      \* Err, or an assertion that stops the compilation

IsId(id) == id \in Ids \cup {Root}
IsPlugin(id) == id \in Ids

SortedBy(list, key(_)) == SortSeq(list, LAMBDA a, b : key(a) < key(b))
Ordered(list, key(_)) == \A i \in 1 .. Len(list) - 1 : key(list[i]) < key(list[i + 1])
Count(list) == Len(list) <= MaxCount
All(list, Good(_)) == \A i \in DOMAIN list : Good(list[i])
Itself(x) == x

Contract(d) == d.contract
Name(o) == o.name
Slot(s) == s.slot
Id(p) == p.id

-----------------------------------------------------------------------------
(* ContractMetadata, the owned type. *)

Normalized(m) ==
    [m EXCEPT
       !.definitions = SortedBy([i \in DOMAIN m.definitions |->
            [m.definitions[i] EXCEPT !.operations = SortedBy(@, Name)]], Contract),
       !.requires = SortedBy(@, Slot),
       !.provides = SortedBy(@, Slot),
       !.properties = SortedBy(@, Id)]

Bare(m) == m.requires = <<>> /\ m.provides = <<>> /\ m.properties = <<>>

ValidDefinition(d) ==
    /\ d.contract \in Contracts /\ d.revision # 0
    /\ d.operations # <<>> /\ Ordered(d.operations, Name) /\ Count(d.operations)
    /\ All(d.operations, LAMBDA o : IsId(o.name))

(* No provider is 0. *)
ValidImport(s) ==
    /\ IsId(s.slot) /\ s.contract \in Contracts /\ (s.provider = 0 \/ IsPlugin(s.provider))
    /\ s.min # 0 /\ s.max >= s.min
    /\ s.minimum <= MaxCount

ValidExport(s) == IsId(s.slot) /\ s.contract \in Contracts /\ s.revision # 0

ValidProperty(p) == IsId(p.id) /\ p.access # {}

(* ContractMetadata::validate *)
Validate(m) ==
    /\ IsPlugin(m.plugin) /\ IsId(m.version)
    /\ Ordered(m.definitions, Contract) /\ Ordered(m.requires, Slot)
    /\ Ordered(m.provides, Slot) /\ Ordered(m.properties, Id)
    /\ Count(m.definitions) /\ Count(m.requires) /\ Count(m.provides) /\ Count(m.properties)
    /\ m.execution = "none" => Bare(m)
    /\ All(m.definitions, ValidDefinition) /\ All(m.requires, ValidImport)
    /\ All(m.provides, ValidExport) /\ All(m.properties, ValidProperty)

(* ContractMetadata::encode: the bytes of the normalized declaration. *)
Encode(m) == IF Validate(Normalized(m)) THEN <<Normalized(m)>> ELSE Refused

(* The cardinality on the wire: its kind, and a minimum that must fit it. *)
CardinalityFits(s) ==
    \/ s.kind = "one" /\ s.minimum = 1
    \/ s.kind = "optional" /\ s.minimum = 0
    \/ s.kind = "many" /\ s.minimum <= MaxCount

(* ContractMetadata::decode; fields are taken by name, and none may be left. *)
Decode(w) ==
    IF /\ All(w.requires, CardinalityFits) /\ Validate(w) /\ Encode(w) = <<w>>
    THEN <<w>> ELSE Refused

-----------------------------------------------------------------------------
(* The same as constants of the plugin's crate. *)

(* One exchange after another, until the entry meets one that is not greater. *)
Sunk(list, at, key(_)) ==
    LET place == Min({p \in 1 .. at : \A i \in p .. at - 1 : key(list[i]) > key(list[at])})
    IN SubSeq(list, 1, place - 1) \o <<list[at]>> \o SubSeq(list, place, at - 1)
       \o SubSeq(list, at + 1, Len(list))

(* One exchange only. *)
InsertionOnce(list, key(_)) ==
    FoldLeft(LAMBDA done, at :
                 IF key(done[at - 1]) > key(done[at])
                 THEN [done EXCEPT ![at - 1] = done[at], ![at] = done[at - 1]] ELSE done,
             list, [i \in 1 .. Len(list) - 1 |-> i + 1])

(* metadata(): an insertion sort of each list. *)
Insertion(list, key(_)) ==
    FoldLeft(LAMBDA done, at : Sunk(done, at, key), list, [i \in 1 .. Len(list) - 1 |-> i + 1])

(* MetadataBytes::contract: operations must be written in order, under keys of the contract. *)
CompilesContract(d) ==
    /\ d.contract \in Contracts /\ d.revision > 0 /\ d.operations # <<>> /\ Count(d.operations)
    /\ All(d.operations, LAMBDA o : IsId(o.name) /\ o.key = d.contract * 10 + o.name)
    /\ Ordered(d.operations, Name)

(* Fault: an import may end before it begins. *)
CompilesImportReversed(s) ==
    /\ IsId(s.slot) /\ s.contract \in Contracts
    /\ s.min > 0 /\ s.minimum <= MaxCount
    /\ s.provider = 0 \/ IsPlugin(s.provider)

CompilesImport(s) ==
    /\ IsId(s.slot) /\ s.contract \in Contracts
    /\ s.min > 0 /\ s.max >= s.min /\ s.minimum <= MaxCount
    /\ s.provider = 0 \/ IsPlugin(s.provider)

(* metadata() *)
Lowered(m) ==
    [m EXCEPT !.definitions = Insertion(@, Contract), !.requires = Insertion(@, Slot),
              !.provides = Insertion(@, Slot), !.properties = Insertion(@, Id)]

Compiles(m) ==
    LET w == Lowered(m) IN
    /\ IsPlugin(m.plugin) /\ IsId(m.version)
    /\ m.execution = "none" => Bare(m)
    /\ Ordered(w.definitions, Contract) /\ All(w.definitions, CompilesContract)
    /\ Ordered(w.properties, Id) /\ All(w.properties, ValidProperty)
    /\ Ordered(w.provides, Slot) /\ All(w.provides, ValidExport)
    /\ Ordered(w.requires, Slot) /\ All(w.requires, CompilesImport)
    /\ Count(w.definitions) /\ Count(w.properties) /\ Count(w.provides) /\ Count(w.requires)

Operations(m) ==
    UNION {ToSet(m.definitions[i].operations) : i \in
             {j \in DOMAIN m.definitions : \E k \in DOMAIN m.provides :
                  m.provides[k].contract = m.definitions[j].contract}}

(* validate_handlers: no two handlers of a key, each with the schemas of its operation, *)
(* and one for every operation of the provided contracts. *)
HandlersMatch(m, handlers) ==
    /\ \A i, j \in DOMAIN handlers : i # j => handlers[i].key # handlers[j].key
    /\ \A i \in DOMAIN handlers :
         /\ \E o \in Operations(m) : o.key = handlers[i].key
         /\ \A o \in Operations(m) : o.key = handlers[i].key => o.schema = handlers[i].schema
    /\ \A o \in Operations(m) : \E i \in DOMAIN handlers : handlers[i].key = o.key

-----------------------------------------------------------------------------
(* Graph declarations. *)

IsNodeKey(k) == IsPlugin(k \div 10) /\ IsId(k % 10)

(* GraphContribution::normalized, without its check. *)
NormalizedGraph(g) ==
    LET members(list, fields) ==
          [i \in DOMAIN list |-> [f \in DOMAIN list[i] |->
              IF f \in fields THEN SortedBy(list[i][f], Itself) ELSE list[i][f]]]
    IN [g EXCEPT !.events = SortedBy(@, Id),
                 !.actions = SortedBy(members(@, {"requires"}), Id),
                 !.nodes = SortedBy(members(@, {"triggers", "after", "writes"}), Id)]

ValidAction(a) ==
    /\ IsId(a.id) /\ IsId(a.event) /\ a.description = "text"
    /\ Ordered(a.requires, Itself) /\ Count(a.requires) /\ ToSet(a.requires) \subseteq Keys

(* An empty selector, the owner of the graph, is 0. *)
ValidNode(plugin, n) ==
    /\ IsId(n.id) /\ n.operation \in Keys /\ (n.selector = 0 \/ IsId(n.selector))
    /\ Ordered(n.after, Itself) /\ Ordered(n.triggers, Itself) /\ Ordered(n.writes, Itself)
    /\ All(n.triggers, LAMBDA t : IsId(t) \/ t \in States)
    /\ All(n.after, IsNodeKey) /\ All(n.writes, IsNodeKey)
    /\ plugin * 10 + n.id \notin ToSet(n.after)

(* GraphContribution::validate *)
ValidGraph(g) ==
    /\ IsPlugin(g.plugin)
    /\ Ordered(g.events, Id) /\ Ordered(g.actions, Id) /\ Ordered(g.nodes, Id)
    /\ All(g.events, LAMBDA e : IsId(e.id))
    /\ All(g.actions, ValidAction)
    /\ \A i \in DOMAIN g.nodes : ValidNode(g.plugin, g.nodes[i])

EncodeGraph(g) == IF ValidGraph(NormalizedGraph(g)) THEN <<NormalizedGraph(g)>> ELSE Refused

DecodeGraph(w) == IF ValidGraph(w) /\ EncodeGraph(w) = <<w>> THEN <<w>> ELSE Refused

(* operation_key_str: something before and after a slash. *)
LooksLikeKey(k) == k \in Keys \cup WeakKeys

(* graph(): members are written in the order they are declared in, and must be ordered. *)
CompilesGraph(g) ==
    /\ IsId(g.plugin)
    /\ Ordered(g.actions, Id)
    /\ All(g.actions, LAMBDA a : /\ IsId(a.id) /\ IsId(a.event) /\ a.description # "empty"
                                 /\ All(a.requires, LooksLikeKey) /\ Ordered(a.requires, Itself))
    /\ Ordered(g.events, Id) /\ All(g.events, LAMBDA e : IsId(e.id))
    /\ Ordered(g.nodes, Id)
    /\ All(g.nodes, LAMBDA n : /\ IsId(n.id) /\ LooksLikeKey(n.operation)
                               /\ Ordered(n.after, Itself) /\ Ordered(n.triggers, Itself)
                               /\ Ordered(n.writes, Itself))

-----------------------------------------------------------------------------

Init ==
    /\ source \in {[metadata |-> a.metadata, handlers |-> a.handlers, graph |-> g] : a \in Authored, g \in Graphs}
    /\ compiled = <<>> /\ loaded = <<>>

(* The crate compiles, with its metadata and its graph in sections of their own. *)
Compile ==
    /\ compiled = <<>>
    /\ compiled' = <<[metadata |-> IF Compiles(source.metadata) /\ HandlersMatch(source.metadata, source.handlers)
                                 THEN <<Lowered(source.metadata)>> ELSE Refused,
                    graph |-> IF CompilesGraph(source.graph) THEN <<source.graph>> ELSE Refused]>>
    /\ UNCHANGED <<source, loaded>>

(* The loader reads both. *)
Load ==
    /\ compiled # <<>> /\ loaded = <<>>
    /\ loaded' = <<[metadata |-> IF compiled[1].metadata = Refused THEN Refused ELSE Decode(compiled[1].metadata[1]),
                  graph |-> IF compiled[1].graph = Refused THEN Refused ELSE DecodeGraph(compiled[1].graph[1])]>>
    /\ UNCHANGED <<source, compiled>>

Next == Compile \/ Load
Spec == Init /\ [][Next]_vars

(* What was decoded is as the composition relies on: valid, in order, and no more than asked. *)
TypeOK ==
    loaded # <<>> =>
        /\ loaded[1].metadata # Refused => Validate(loaded[1].metadata[1])
        /\ loaded[1].graph # Refused => ValidGraph(loaded[1].graph[1])

(* Metadata that compiles is loaded, as the owned encoding of what the author wrote in any *)
(* order: the two validations agree (metadata, validate, decode). *)
LoadsWhatCompiles ==
    loaded # <<>> /\ compiled[1].metadata # Refused =>
        /\ Encode(source.metadata) # Refused
        /\ loaded[1].metadata = Encode(source.metadata)

(* Valid metadata compiles, whatever the order of its contributions, when operations are in *)
(* order under their keys and every provided operation has its handler. *)
ValidMetadataCompiles ==
    /\ compiled # <<>> /\ Encode(source.metadata) # Refused
    /\ All(source.metadata.definitions, LAMBDA d : Ordered(d.operations, Name))
    /\ All(source.metadata.definitions, LAMBDA d :
            All(d.operations, LAMBDA o : o.key = d.contract * 10 + o.name))
    /\ HandlersMatch(source.metadata, source.handlers)
    => compiled[1].metadata # Refused

(* A plugin compiles with one handler for each operation it provides, of that operation's *)
(* schemas, and none besides (validate_handlers). *)
HandlersAreExact ==
    compiled # <<>> /\ compiled[1].metadata # Refused =>
        /\ Len(source.handlers) = Cardinality({o.key : o \in Operations(source.metadata)})
        /\ ToSet(source.handlers) = Operations(source.metadata)

(* A graph written in order compiles, and one that compiles and is valid is loaded as its *)
(* owned encoding: the constant writer never embeds another order of members. *)
GraphsLoadAsWritten ==
    /\ (compiled # <<>> /\ ValidGraph(source.graph)) => compiled[1].graph # Refused
    /\ (loaded # <<>> /\ compiled[1].graph # Refused /\ EncodeGraph(source.graph) # Refused)
       => loaded[1].graph = EncodeGraph(source.graph)
===============================================================================
