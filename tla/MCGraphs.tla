------------------------------- MODULE MCGraphs -------------------------------
(****************************************************************************)
(* What the kernel decides before and while it runs a product: the bindings *)
(* of its plugins and the metadata that describes them, graphs and their    *)
(* execution, and the authority of every call. A behaviour is of one        *)
(* component (part); the variables of the others hold Unused, those of      *)
(* EffectScope a product at rest, and those of GraphWave a wave that has    *)
(* not begun.                                                               *)
(****************************************************************************)
EXTENDS KernelProofs, SequencesExt, TLC

CONSTANTS Parts,   \* the components a behaviour may be of
          Unused,  \* what the variables of the others hold
          A, B, C, RunA, RunB, RunC, Spare

VARIABLE part  \* the component this behaviour is of

VARIABLES after, writers, verdict, activated, projection
VARIABLES nodes, flows, orders, wired, plan
VARIABLES input, stage, refusal, packages, definitions, operations, bindings,
          delegated, ceilings, order
VARIABLES source, compiled, loaded
VARIABLES phase, todo, active, waiting, pending, draining, unsuccessful,
          request, hadDomain, failure, cancelled, stopped, terminal, status,
          pumps, lease, changed, owed, ran, succeeded

------------------------------------------------------------------------------
FourNodes == 1 .. 4

Undeclared == {9}

(* Four nodes with up to two anchors each: self loops, cycles of every      *)
(* length, diamonds, disconnected parts and an anchor nobody declares.      *)
Ordered == INSTANCE ReactiveGraph WITH
    Nodes <- FourNodes, Missing <- Undeclared, MaxAnchors <- 2, MaxEdges <- 4,
    active <- activated, plan <- projection

ASSUME Ordered!NodesAssumption

ASSUME Ordered!MissingAssumption

orderVars == <<after, writers, verdict, activated, projection>>

NoOrdered ==
    /\ after = Unused /\ writers = Unused /\ verdict = Unused
    /\ activated = Unused /\ projection = Unused

Flow(f, p, t, i) == [from |-> f, port |-> p, to |-> t, in |-> i]

WaveNodes == 1 .. 11
WaveKind == 1 :> "source" @@ 2 :> "source" @@ 3 :> "invoke" @@ 4 :> "invoke"
          @@ 5 :> "switch" @@ 6 :> "join" @@ 7 :> "merge" @@ 8 :> "constant"
          @@ 9 :> "invoke" @@ 10 :> "join" @@ 11 :> "join"
WaveInputs == [n \in WaveNodes |-> CASE n \in {1, 2} -> {}
                                     [] n = 8 -> {"start"}
                                     [] n \in {6, 10, 11} -> {"x", "y"}
                                     [] OTHER -> {"in"}]
WaveFlows == {Flow(1, "out", 3, "in"), Flow(1, "out", 4, "in"), Flow(3, "ok", 5, "in"),
            Flow(5, "left", 6, "x"), Flow(4, "ok", 6, "y"),
            Flow(2, "out", 7, "in"), Flow(3, "err", 7, "in"), Flow(4, "err", 7, "in"),
            Flow(5, "right", 7, "in"),
            Flow(6, "out", 8, "start"), Flow(7, "out", 9, "in"),
            Flow(8, "out", 10, "x"), Flow(9, "ok", 10, "y"), Flow(4, "ok", 11, "x")}
WaveOrders == {<<2, 3>>, <<4, 9>>}
WaveCases == 5 :> {"left", "right"}
WaveProvider == 3 :> "a" @@ 4 :> "b" @@ 9 :> "a"

(* Two sources, of which one is admitted; two operations whose answers and  *)
(* whose switch meet in a merge and in two joins; a join one input of which *)
(* has no flow; a constant, and operations behind the merge and a join that *)
(* share a provider with the first.                                         *)
ASSUME Wave!GraphAssumption

waveVars == <<policies, outcome, taken, at, polls, arrivals, started, done,
              values, wavePending, waveStopped, waveFailure>>

(* An admission that changes nothing. *)
NoWave ==
    /\ policies = [n \in Wave!Invokes |-> "FailRoot"]
    /\ outcome = [n \in Wave!Invokes |-> "ok"]
    /\ taken = [s \in Wave!Switches |-> "left"]

Ports == INSTANCE GraphPlan WITH
    Nodes <- {}, Owner <- <<>>, Provider <- <<>>, Shapes <- <<>>, Sources <- {},
    Pairs <- {}, MaxInto <- 0, OrderPairs <- {}, MaxDepth <- 0

Secured(kind, origin, in, out) ==
    [kind |-> kind, source |-> origin,
     sec |-> [p \in Ports!In(kind) \cup Ports!Out(kind) |-> IF p \in Ports!Out(kind) THEN out ELSE in]]

Low == <<0, 0>>
From(s) == Secured("source", s, Low, Low)
Shaped(kind) == Secured(kind, "-", Low, Low)

JoinOwner == [n \in FourNodes |-> "p"]
JoinShapes ==
    << {From("s")}, {From("s"), From("t"), Shaped("switch"), Shaped("invoke"), Shaped("constant")},
       {From("t"), Shaped("switch"), Shaped("invoke"), Shaped("merge"), Shaped("join")}, {Shaped("join")} >>
JoinPairs == {<<a, b>> \in FourNodes \X FourNodes : a < b}
JoinSources == {"s", "t"}

LabelOwner == <<"p", "p", "q", "q">>
LabelProvider == <<"p", "r", "q", "q">>
Secret == <<1, 0>>
Trusted == <<0, 1>>
Changes == {<<l, l>> : l \in {Low, Secret, Trusted}} \cup {<<Low, Secret>>, <<Trusted, Low>>, <<Secret, Low>>}
Relabelled(kind, changes) == {Secured(kind, "-", c[1], c[2]) : c \in changes}
LabelShapes ==
    << {Secured("source", "s", l, l) : l \in {Low, Secret, Trusted}},
       Relabelled("invoke", Changes) \cup {Shaped("absent")},
       Relabelled("join", {<<l, l>> : l \in {Low, Secret, Trusted}} \cup {<<Trusted, Low>>})
              \cup Relabelled("constant", {<<Low, Low>>, <<Secret, Low>>}),
       Relabelled("merge", {<<l, l>> : l \in {Secret, Trusted}}) >>
LabelPairs == {<<1, 2>>, <<1, 3>>, <<2, 3>>, <<3, 4>>, <<4, 2>>}
LabelOrders == {<<1, 4>>}
LabelSources == {"s"}

(* A source, two nodes between and a sink, of two plugins, with labels that *)
(* are kept, raised or dropped on the way, wired with a way back and an     *)
(* order edge.                                                              *)
Labels == INSTANCE GraphPlan WITH
    Nodes <- FourNodes, Owner <- LabelOwner, Provider <- LabelProvider,
    Shapes <- LabelShapes, Sources <- LabelSources, Pairs <- LabelPairs,
    MaxInto <- 2, OrderPairs <- LabelOrders, MaxDepth <- 3

ASSUME Labels!GraphPlanAssumption

(* One plugin and one label, wired forwards into a join.                    *)
Joins == INSTANCE GraphPlan WITH
    Nodes <- FourNodes, Owner <- JoinOwner, Provider <- JoinOwner,
    Shapes <- JoinShapes, Sources <- JoinSources, Pairs <- JoinPairs,
    MaxInto <- 2, OrderPairs <- {}, MaxDepth <- 3

ASSUME Joins!GraphPlanAssumption

labelsVars == <<nodes, flows, orders, wired, plan>>

NoLabels ==
    /\ nodes = Unused /\ flows = Unused /\ orders = Unused
    /\ wired = Unused /\ plan = Unused

Defined(c, r, s) == [contract |-> c, revision |-> r, schema |-> s]

NeedOf(slot, c, who, lo, hi, card, n) ==
    [slot |-> slot, contract |-> c, provider |-> who, revision_min |-> lo,
     revision_max |-> hi, cardinality |-> card, minimum |-> n]

UseOf(p, slot, n, q, c) ==
    [caller |-> p, slot |-> slot, index |-> n, provider |-> q, export |-> c]

Offer(slot, c, r) == [slot |-> slot, contract |-> c, revision |-> r]

AgentOf(need) ==
    [definitions |-> {Defined("z", 1, "s")}, requires |-> {need},
     provides |-> {Offer("agent", "z", 1)}, properties |-> {}]

AnyFirst == NeedOf("model", "x", 9, 1, 1, "one", 0)

AgentNeeds ==
    {AnyFirst, NeedOf("model", "x", 2, 1, 2, "one", 0),
     NeedOf("model", "x", 9, 1, 2, "many", 1),
     NeedOf("model", "x", 9, 2, 2, "optional", 0)}

Offers == {{Offer("main", "x", 1)}, {Offer("main", "x", 2)},
           {Offer("main", "x", 1), Offer("new", "x", 2)}, {Offer("main", "y", 1)},
           {Offer("main", "x", 3)}}

Middle(defs, card, offers) ==
    [definitions |-> defs, requires |-> {NeedOf("store", "y", 9, 1, 1, card, 0)},
     provides |-> offers, properties |-> {Defined("cell", 1, "s")}]

Backend(needs) ==
    [definitions |-> {Defined("y", 1, "s")}, requires |-> needs,
     provides |-> {Offer("main", "y", 1)}, properties |-> {}]

Ups == {{}, {NeedOf("up", "z", 9, 1, 1, "one", 0)},
        {NeedOf("up", "z", 9, 1, 1, "optional", 0)},
        {NeedOf("up", "cell", 9, 1, 1, "one", 0)}}

Another == [definitions |-> {Defined("x", 2, "t")}, requires |-> {},
          provides |-> {Offer("main", "x", 2)}, properties |-> {}]

Models ==
    {{}, {UseOf(1, "model", 0, 2, "main")}, {UseOf(1, "model", 0, 4, "main")},
     {UseOf(1, "model", 0, 2, "new")}, {UseOf(1, "model", 1, 2, "main")},
     {UseOf(1, "model", 0, 2, "main"), UseOf(1, "model", 1, 4, "main")},
     {UseOf(1, "model", 0, 2, "main"), UseOf(1, "model", 1, 2, "main")},
     {UseOf(1, "model", 0, 2, "main"), UseOf(1, "model", 1, 2, "new")}}

StoreUse == {UseOf(2, "store", 0, 3, "main")}

UpUses == {{}, {UseOf(3, "up", 0, 1, "agent")}, {UseOf(3, "up", 0, 2, "cell")}}

Compose(a, m, b, x2, slots, subs, ex, own, entry) ==
    [packages |-> (1 :> a) @@ (2 :> m) @@ (3 :> b) @@ (4 :> Another),
     definitions |-> {Defined("x", 1, "s"), Defined("x", 2, x2)}, slots |-> slots,
     substitutions |-> subs, excluded |-> ex,
     grants |-> {[caller |-> 0, key |-> "z"], [caller |-> 1, key |-> own]},
     entry |-> [key |-> "z", provider |-> entry], authority |-> {"z", own}]

MainOffer == {Offer("main", "x", 1)}

(* Which revisions and schemas meet. *)
Versions ==
    {Compose(AgentOf(a), Middle(d, "one", o), Backend({}), x2, m \cup StoreUse, {}, {}, "x", 1) :
        a \in AgentNeeds, d \in {{}, {Defined("y", 1, "s")}, {Defined("y", 1, "t")}},
        o \in Offers, x2 \in {"s", "t"}, m \in Models}

(* Who depends on whom. *)
Loops ==
    {Compose(AgentOf(AnyFirst), Middle({}, card, MainOffer), Backend(b), "t",
             {UseOf(1, "model", 0, 2, "main")} \cup s \cup u, {}, {}, own, 1) :
        card \in {"one", "optional"}, b \in Ups, s \in {{}, StoreUse}, u \in UpUses,
        own \in {"x", "y", "cell"}}

(* Who stands in for whom. *)
Replacements ==
    {Compose(AgentOf(a), Middle({}, "optional", MainOffer), Backend({}), "t", m, sub, ex, own, e) :
        a \in AgentNeeds, m \in Models, own \in {"x", "y"}, e \in {1, 3},
        ex \in {{}, {2}, {3, 4}},
        sub \in {{}, {[from |-> 2, to |-> 4]}, {[from |-> 4, to |-> 2]},
                {[from |-> 3, to |-> 1]}, {[from |-> 2, to |-> 4], [from |-> 4, to |-> 3]}}}

MCCompositions == Versions \cup Loops \cup Replacements

(* An agent (1) uses x, which 2 and 4 offer in revisions that may differ; 2 *)
(* uses y of 3, which may use z of the agent or the property of 2.          *)
Resolution == INSTANCE Composition WITH
    Plugins <- {1, 2, 3, 4}, Root <- 0, Anyone <- 9,
    Contracts <- {"x", "y", "z"}, Cells <- {"cell"}, Schemas <- {"s", "t"},
    Compositions <- MCCompositions

ASSUME Resolution!PluginsAssumption

ASSUME Resolution!ContractsAssumption

resolutionVars == <<input, stage, refusal, packages, definitions, operations,
                    bindings, delegated, ceilings, order>>

NoResolution ==
    /\ input = Unused /\ stage = Unused /\ refusal = Unused
    /\ packages = Unused /\ definitions = Unused
    /\ operations = Unused /\ bindings = Unused
    /\ delegated = Unused /\ ceilings = Unused /\ order = Unused

SeqsUpTo(S, n) == UNION {[1 .. k -> S] : k \in 0 .. n}

Op(c, n) == [name |-> n, key |-> c * 10 + n, schema |-> 0]
Definition(c, revision, ops) == [contract |-> c, revision |-> revision, operations |-> ops]
Plain == [plugin |-> 1, version |-> 1, execution |-> "state-pending", definitions |-> <<>>,
          requires |-> <<>>, provides |-> <<>>, properties |-> <<>>]
CaseOf(m, h) == [metadata |-> m, handlers |-> h]

OpLists(c) == {<<Op(c, 1)>>, <<Op(c, 1), Op(c, 2)>>, <<Op(c, 2), Op(c, 1)>>, <<Op(c, 1), Op(c, 1)>>,
               <<Op(c, 0)>>, <<[Op(c, 1) EXCEPT !.key = 5]>>, <<>>}
Definitions == UNION {{Definition(c, r, ops) : ops \in OpLists(c), r \in {0, 1}} : c \in {1, 2, 9}}
SomeDefinitions == {Definition(c, 1, <<Op(c, 1)>>) : c \in {1, 2, 3}}
SomeExports == {[slot |-> s, contract |-> c, revision |-> r] : s \in {0, 1, 2}, c \in {1, 2, 9}, r \in {0, 1}}
Imports == {[slot |-> s, contract |-> 1, provider |-> p, min |-> mi, max |-> ma, kind |-> k[1], minimum |-> k[2]] :
              s \in {1, 2}, p \in {0, 2, 4}, mi \in {0, 2}, ma \in {1, 2},
              k \in {<<"one", 1>>, <<"optional", 0>>, <<"many", 2>>, <<"many", 9>>}}
SomeImports == {[slot |-> s, contract |-> 1, provider |-> 0, min |-> 1, max |-> 1, kind |-> "one", minimum |-> 1] : s \in 1 .. 4}
Properties == {[id |-> i, access |-> a] : i \in {0, 1, 2, 4}, a \in {{}, {"get"}, {"get", "set", "watch"}}}
Handler(c, n, schema) == [Op(c, n) EXCEPT !.schema = schema]
SomeHandlers == {Handler(1, 1, 0), Handler(1, 2, 0), Handler(1, 1, 7), Handler(2, 1, 0)}

Full == <<Definition(1, 1, <<Op(1, 1), Op(1, 2)>>), Definition(2, 1, <<Op(2, 1)>>)>>
Written ==
    {CaseOf([Plain EXCEPT !.definitions = ds, !.execution = e], <<>>) :
        ds \in SeqsUpTo(Definitions, 2), e \in {"none"}}
    \cup {CaseOf([Plain EXCEPT !.definitions = ds], <<>>) : ds \in SeqsUpTo(SomeDefinitions, 3)}
    \cup {CaseOf([Plain EXCEPT !.requires = ss], <<>>) : ss \in SeqsUpTo(Imports, 1) \cup SeqsUpTo(SomeImports, 4)}
    \cup {CaseOf([Plain EXCEPT !.provides = ss], <<>>) : ss \in SeqsUpTo(SomeExports, 2)}
    \cup {CaseOf([Plain EXCEPT !.properties = ps], <<>>) : ps \in SeqsUpTo(Properties, 2)}
    \cup {CaseOf([Plain EXCEPT !.plugin = p, !.version = v, !.execution = e, !.provides = ss], <<>>) :
            p \in {0, 1, 4}, v \in {0, 1, 4}, e \in {"none", "state-pending"},
            ss \in {<<>>, <<[slot |-> 1, contract |-> 1, revision |-> 1]>>}}
    \cup {CaseOf([Plain EXCEPT !.definitions = Full,
                             !.provides = [i \in DOMAIN cs |-> [slot |-> i, contract |-> cs[i], revision |-> 1]]], hs) :
            cs \in {<<1>>, <<2>>, <<1, 2>>, <<>>}, hs \in SeqsUpTo(SomeHandlers, 3)}

Empty == [plugin |-> 1, events |-> <<>>, actions |-> <<>>, nodes |-> <<>>]
Node(id, operation, selector, triggers, behind, writes) ==
    [id |-> id, operation |-> operation, selector |-> selector, triggers |-> triggers, after |-> behind, writes |-> writes]
ActionOf(id, event, description, requires) == [id |-> id, event |-> event, description |-> description, requires |-> requires]
SomeNodes == <<Node(1, 11, 0, <<>>, <<>>, <<>>), Node(2, 11, 0, <<>>, <<>>, <<>>), Node(3, 11, 0, <<>>, <<11, 12>>, <<>>)>>
Declared ==
    {Empty}
    \cup {[Empty EXCEPT !.plugin = p, !.nodes = <<n>>] : p \in {1, 4, 0},
            n \in {Node(i, o, s, t, a, w) : i \in {0, 1}, o \in {11, 17}, s \in {0, 1, 9},
                     t \in {<<>>, <<1, 2>>, <<2, 1>>, <<6>>, <<9>>}, a \in {<<>>, <<11>>, <<21>>, <<21, 12>>, <<41>>}, w \in {<<>>, <<11>>, <<10>>}}}
    \cup {[Empty EXCEPT !.nodes = ns] : ns \in SeqsUpTo(ToSet(SomeNodes), 3)}
    \cup {[Empty EXCEPT !.events = es] : es \in SeqsUpTo({[id |-> i] : i \in 0 .. 2}, 2)}
    \cup {[Empty EXCEPT !.actions = as] : as \in SeqsUpTo({ActionOf(i, 1, d, r) : i \in {1, 2},
            d \in {"text", "blank", "empty"}, r \in {<<>>, <<11>>, <<12, 11>>, <<17>>}}, 2)}

(* Every metadata with one graph, and every graph with one metadata. *)
AllAuthored == Written
OneGraph == {Empty}
OneAuthored == {CaseOf(Plain, <<>>)}

(* Identifiers 1 to 3, "root" as 4, 0 and 9 malformed; contracts 1 and 2;   *)
(* families that vary one list of the metadata, or one graph, at a time, in *)
(* every order.                                                             *)
Metadata == INSTANCE PluginMetadata WITH
    Ids <- {1, 2, 3}, Root <- 4, Contracts <- {1, 2, 3}, Keys <- {11, 12},
    WeakKeys <- {17}, States <- {6}, MaxCount <- 3, Authored <- AllAuthored,
    Graphs <- OneGraph

(* The same loader given many graphs of one plugin.                         *)
Declarations == INSTANCE PluginMetadata WITH
    Ids <- {1, 2, 3}, Root <- 4, Contracts <- {1, 2, 3}, Keys <- {11, 12},
    WeakKeys <- {17}, States <- {6}, MaxCount <- 3, Authored <- OneAuthored,
    Graphs <- Declared

metadataVars == <<source, compiled, loaded>>

NoMetadata ==
    /\ source = Unused /\ compiled = Unused /\ loaded = Unused

RunNodes == 1 .. 5
RunAfter == 1 :> {} @@ 2 :> {1} @@ 3 :> {1} @@ 4 :> {2, 3} @@ 5 :> {}
RunProvider == 1 :> "a" @@ 2 :> "b" @@ 3 :> "a" @@ 4 :> "b" @@ 5 :> "c"
RunFailRoot == {3}
RunTriggered == {1, 2, 3, 5}
RunWatches == 1 :> {} @@ 2 :> {"q"} @@ 3 :> {} @@ 4 :> {"p"} @@ 5 :> {"p", "q"}
RunWrites == 1 :> {"p"} @@ 2 :> {} @@ 3 :> {"q"} @@ 4 :> {"p"} @@ 5 :> {}

(* A diamond whose branches share providers with its ends, a join that is a *)
(* hook of its own writes, a branch that is a hook of the other's, and an   *)
(* independent node that is a hook of both properties.                      *)
Execution == INSTANCE GraphExecution WITH
    Nodes <- RunNodes, After <- RunAfter, Provider <- RunProvider,
    FailRoot <- RunFailRoot, Triggered <- RunTriggered, Watches <- RunWatches,
    Writes <- RunWrites, Asynchronous <- TRUE, MaxPumps <- 1

ASSUME Execution!NodesAssumption

ASSUME Execution!GraphAssumption

ASSUME Execution!HostAssumption

executionVars == <<phase, todo, active, waiting, pending, draining,
                   unsuccessful, request, hadDomain, failure, cancelled,
                   stopped, terminal, status, pumps, lease, changed, owed,
                   ran, succeeded>>

NoExecution ==
    /\ phase = Unused /\ todo = Unused /\ active = Unused
    /\ waiting = Unused /\ pending = Unused /\ draining = Unused
    /\ unsuccessful = Unused /\ request = Unused
    /\ hadDomain = Unused /\ failure = Unused
    /\ cancelled = Unused /\ stopped = Unused /\ terminal = Unused
    /\ status = Unused /\ pumps = Unused /\ lease = Unused
    /\ changed = Unused /\ owed = Unused /\ ran = Unused
    /\ succeeded = Unused

(* Three plugins in a chain: a imports b, b imports c and c's property. The policies vary what b delegates, which resources reach b and c, whether the property can be set and the resource of the product. *)
MCPlugins == {A, B, C}
MCKeys == {RunA, RunB, RunC, GetKey, SetKey}
MCHome == [k \in MCKeys |-> CASE k = RunA -> A [] k = RunB -> B [] OTHER -> C]
MCResources == {Property, Spare}

(* What the resolver gives: own exports, imports, and what the plugins     *)
(* below delegate.                                                         *)
Ceilings(passed) ==
    (A :> {RunA, RunB} \cup passed) @@ (B :> MCKeys \ {RunA})
        @@ (C :> {RunC, GetKey, SetKey})

Grants(toB, toC) ==
    [g \in (MCPlugins \cup {Root}) \X MCKeys |->
        CASE g[1] = Root -> MCResources
          [] g = <<A, RunB>> -> toB
          [] g[1] = B /\ g[2] # RunA -> toC
          [] g[1] = C /\ g[2] \in {RunC, GetKey, SetKey} -> MCResources
          [] OTHER -> {}]

Granted == ({Root} \X {RunA, GetKey}) \cup {<<A, RunB>>}
              \cup ({B, C} \X {RunC, GetKey, SetKey})

Bindings == {<<A, RunB>>} \cup ({B} \X {RunC, GetKey, SetKey})

PolicyOf(passed, toB, toC, settable, resource) ==
    LET keys == IF settable THEN MCKeys ELSE MCKeys \ {SetKey}
    IN  [ceilings |-> [p \in MCPlugins |-> Ceilings(passed)[p] \cap keys],
         bindings |-> {b \in Bindings : b[2] \in keys},
         granted |-> {g \in Granted : g[2] \in keys},
         grants |-> Grants(toB, toC), settable |-> settable,
         authority |-> [operations |-> keys, resources |-> MCResources],
         resource |-> resource]

(* One change at a time from the composition that allows the most. *)
MCPolicies ==
    LET below == {RunC, GetKey, SetKey}
    IN  {PolicyOf(below, MCResources, MCResources, TRUE, NoResource),
         PolicyOf({RunC}, MCResources, MCResources, TRUE, NoResource),
         PolicyOf(below, {Spare}, MCResources, TRUE, NoResource),
         PolicyOf(below, MCResources, {Property}, FALSE, NoResource),
         PolicyOf({}, MCResources, MCResources, FALSE, Spare)}

Ask(keys, resources, r) ==
    [authority |-> [operations |-> keys, resources |-> resources], resource |-> r]

MCRequests == {Ask(MCKeys, MCResources, NoResource),
               Ask(MCKeys \ {GetKey}, {Spare}, Spare),
               Ask(MCKeys, MCResources, Property)}

scopeVars == vars

(* A product nobody has entered. *)
NoScope ==
    /\ policy = (CHOOSE p \in Policies : TRUE) /\ root = {} /\ stack = <<>>
    /\ tickets = <<>> /\ effects = {}

------------------------------------------------------------------------------
(* A behaviour is of one part. The parts share no variable, so running them *)
(* side by side would add interleavings that no property tells apart.       *)
MCInit ==
    /\ part \in Parts
    /\ Wave!Init /\ (part # "wave" => NoWave)
    /\ IF part = "order" THEN Ordered!Init ELSE NoOrdered
    /\ IF part = "labels" THEN Labels!Init ELSE IF part = "joins" THEN Joins!Init ELSE NoLabels
    /\ IF part = "resolution" THEN Resolution!Init ELSE NoResolution
    /\ IF part = "metadata" THEN Metadata!Init ELSE IF part = "graphs" THEN Declarations!Init ELSE NoMetadata
    /\ IF part = "execution" THEN Execution!Init ELSE NoExecution
    /\ IF part = "scope" THEN Init ELSE NoScope

OrderedStep ==
    /\ part = "order" /\ Ordered!Next
    /\ UNCHANGED <<part, waveVars, labelsVars, resolutionVars, metadataVars,
                   executionVars, scopeVars>>

WaveStep ==
    /\ part = "wave" /\ Wave!Next
    /\ UNCHANGED <<part, orderVars, labelsVars, resolutionVars, metadataVars,
                   executionVars, scopeVars>>

LabelsStep ==
    /\ part = "labels" /\ Labels!Next
    /\ UNCHANGED <<part, orderVars, waveVars, resolutionVars, metadataVars,
                   executionVars, scopeVars>>

JoinsStep ==
    /\ part = "joins" /\ Joins!Next
    /\ UNCHANGED <<part, orderVars, waveVars, resolutionVars, metadataVars,
                   executionVars, scopeVars>>

ResolutionStep ==
    /\ part = "resolution" /\ Resolution!Next
    /\ UNCHANGED <<part, orderVars, waveVars, labelsVars, metadataVars,
                   executionVars, scopeVars>>

MetadataStep ==
    /\ part = "metadata" /\ Metadata!Next
    /\ UNCHANGED <<part, orderVars, waveVars, labelsVars, resolutionVars,
                   executionVars, scopeVars>>

DeclarationsStep ==
    /\ part = "graphs" /\ Declarations!Next
    /\ UNCHANGED <<part, orderVars, waveVars, labelsVars, resolutionVars,
                   executionVars, scopeVars>>

ExecutionStep ==
    /\ part = "execution" /\ Execution!Next
    /\ UNCHANGED <<part, orderVars, waveVars, labelsVars, resolutionVars,
                   metadataVars, scopeVars>>

ScopeStep ==
    /\ part = "scope" /\ Next
    /\ UNCHANGED <<part, orderVars, waveVars, labelsVars, resolutionVars,
                   metadataVars, executionVars>>

MCNext ==
    \/ OrderedStep \/ WaveStep \/ LabelsStep \/ JoinsStep \/ ResolutionStep
    \/ MetadataStep \/ DeclarationsStep \/ ExecutionStep \/ ScopeStep

allVars == <<part, orderVars, waveVars, labelsVars, resolutionVars,
             metadataVars, executionVars, scopeVars>>

MCSpec == MCInit /\ [][MCNext]_allVars

Interchangeable == Permutations(Tickets)

------------------------------------------------------------------------------
(* A compiled order is topological whatever shares a predecessor with what, *)
(* a reported cycle is one, two writers are never left unordered, and every *)
(* activation of compiled declarations can be ordered.                      *)
CompiledOrdersAreSound ==
    /\ part = "order" =>
          /\ Ordered!TypeOK
          /\ Ordered!CompiledOrderIsTopological
          /\ Ordered!CyclesAreReal
          /\ Ordered!WritersAreOrdered
          /\ Ordered!ProjectionsCanBeOrdered

(* A compiled plan keeps labels along every path, grants deliveries that    *)
(* cover what they carry, knows exactly which sources reach which node, and *)
(* diagnoses joins, cycles and depth as they are.                           *)
PlansAreSound ==
    /\ part = "labels" =>
          /\ Labels!TypeOK
          /\ Labels!LabelsHoldAlongPaths
          /\ Labels!DeliveriesCoverTheirSources
          /\ Labels!ReachFollowsFlows
          /\ Labels!DepthIsTheLongestPath
    /\ part = "joins" =>
          /\ Joins!JoinsAreDiagnosed
          /\ Joins!WavesStayInReach

(* A prepared product binds every need to providers that speak the same     *)
(* revision, uses nothing that was replaced, permits what is bound and no   *)
(* more, and starts services before those that need them.                   *)
BindingsAreSound ==
    /\ part = "resolution" =>
          /\ Resolution!TypeOK
          /\ Resolution!BindingsAgree
          /\ Resolution!EveryNeedIsMet
          /\ Resolution!ReplacedIsUnused
          /\ Resolution!CeilingsFollowBindings
          /\ Resolution!BoundCallsArePermitted
          /\ Resolution!StartupFollowsNeeds

(* The constant rules a plugin is compiled with and those of the loader     *)
(* agree: what compiles is loaded as written, what is valid compiles, and   *)
(* operations have exactly their handlers.                                  *)
MetadataLoadsAsWritten ==
    /\ part = "metadata" =>
          /\ Metadata!LoadsWhatCompiles
          /\ Metadata!ValidMetadataCompiles
          /\ Metadata!HandlersAreExact
    /\ part = "graphs" =>
          /\ Declarations!TypeOK
          /\ Declarations!GraphsLoadAsWritten

(* A node runs after all it depends on and only when its provider is free,  *)
(* hooks miss no commit, tickets are tracked until their native code is     *)
(* over, success means that all ran, and nothing starts once the execution  *)
(* has stopped.                                                             *)
ExecutionsKeepTheirGraph ==
    /\ [](part = "execution" =>
             /\ Execution!TypeOK
             /\ Execution!DependenciesFirst
             /\ Execution!SuccessMeansAll
             /\ Execution!HooksMissNothing
             /\ Execution!TicketsAreTracked
             /\ Execution!FinishedIsQuiescent)
    /\ [][part = "execution" =>
             /\ Execution!CallsFindTheirProvider
             /\ Execution!NothingStartsAfterStop]_allVars

==============================================================================
