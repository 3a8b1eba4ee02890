---------------------------- MODULE Composition ----------------------------
(***************************************************************************)
(* Preparing a product (resolve.rs): from packages, contract definitions,  *)
(* slot selections, substitutions and grants to the bindings, the startup  *)
(* order and the ceilings the kernel works with, or to a refusal.          *)
(*                                                                         *)
(* A contract has one operation here, so a contract names its operation    *)
(* key; what two revisions of it disagree about is the schema.  A property *)
(* is a contract of its owner that is served by a cell.                    *)
(***************************************************************************)
EXTENDS Naturals, Sequences, FiniteSets, GraphOrder

CONSTANTS Plugins,       \* plugin identities, numbers
          Root,          \* the principal of the embedding program, a number
          Anyone,        \* an import that names no provider, a number
          Contracts,     \* contracts of services
          Cells,         \* contracts of properties
          Schemas,       \* operation schemas
          Compositions   \* the inputs

PluginsAssumption ==
    Plugins \subseteq Nat /\ {Root, Anyone} \subseteq Nat \ Plugins
ContractsAssumption == Contracts \cap Cells = {}

Subjects == Contracts \cup Cells

Definition == [contract: Subjects, revision: Nat, schema: Schemas]

Import == [slot: STRING, contract: Subjects, provider: Plugins \cup {Anyone},
           revision_min: Nat, revision_max: Nat,
           cardinality: {"one", "optional", "many"}, minimum: Nat]

Export == [slot: STRING, contract: Contracts, revision: Nat]

(* A verified package's metadata; the definitions of its properties are    *)
(* derived from them.                                                      *)
Package == [definitions: SUBSET Definition, requires: SUBSET Import,
            provides: SUBSET Export, properties: SUBSET Definition]

(* The selection of one provider for an import; export is a slot of the    *)
(* provider or one of its properties.                                      *)
SlotBinding == [caller: Plugins, slot: STRING, index: Nat, provider: Plugins,
                export: STRING]

Binding == [caller: Plugins, slot: STRING, index: Nat, key: Subjects, provider: Plugins]

VARIABLES
    input,        \* the composition
    stage,        \* how far the preparation is
    refusal,      \* why it was refused
    packages,     \* the packages that take part
    definitions,  \* contract definitions
    operations,   \* PreparedOperation of each provider and key
    bindings,     \* what each import slot is bound to
    delegated,    \* delegated_definitions
    ceilings,     \* operation ceilings
    order         \* startup_order

vars == <<input, stage, refusal, packages, definitions, operations, bindings,
          delegated, ceilings, order>>

resolved == <<operations, bindings, delegated, ceilings, order>>

Loaded == DOMAIN packages

Refuse(why) ==
    /\ stage' = "refused" /\ refusal' = why
    /\ UNCHANGED <<input, packages, definitions, operations, bindings,
                   delegated, ceilings, order>>

Sources == {s.from : s \in input.substitutions}

(* substitute *)
Substitute(p) ==
    IF p \in Sources
    THEN (CHOOSE s \in input.substitutions : s.from = p).to ELSE p

Slots == {[s EXCEPT !.provider = Substitute(s.provider)] : s \in input.slots}

ContractsOf(defs) == {d.contract : d \in defs}

Find(contract, revision) ==
    {d \in definitions : d.contract = contract /\ d.revision = revision}

SchemaOf(contract, revision) ==
    (CHOOSE d \in definitions : d.contract = contract /\ d.revision = revision).schema

-----------------------------------------------------------------------------

Init ==
    /\ input \in Compositions
    /\ stage = "packages" /\ refusal = "none"
    /\ packages = input.packages
    /\ definitions = {}
    /\ operations = [x \in {} |-> {}]
    /\ bindings = {}
    /\ delegated = [x \in {} |-> {}]
    /\ ceilings = [x \in {} |-> {}]
    /\ order = <<>>

(***************************************************************************)
(* The packages that take part, and whom to use in whose place.            *)
(***************************************************************************)
BadSubstitution ==
    \/ \E s \in input.substitutions :
          s.from = s.to \/ s.to \notin DOMAIN input.packages \ input.excluded
    \/ \E s, t \in input.substitutions : s # t /\ s.from = t.from
    \/ \E s, t \in input.substitutions : s.to = t.from

SelectPackages ==
    /\ stage = "packages"
    /\ IF \/ ~(input.excluded \subseteq DOMAIN input.packages)
          \/ BadSubstitution
       THEN Refuse("selection")
       ELSE /\ packages' = [p \in Loaded \ input.excluded |-> packages[p]]
            /\ stage' = "definitions"
            /\ UNCHANGED <<input, refusal, definitions, operations, bindings,
                           delegated, ceilings, order>>

(***************************************************************************)
(* Definitions come from contract packages, from the plugins that use them *)
(* and from properties; every copy of one must be the same.                *)
(***************************************************************************)
AllDefinitions ==
    input.definitions
        \cup UNION {packages[p].definitions \cup packages[p].properties : p \in Loaded}

(* Fault: the definition that is found first wins. *)
ConflictNever(defs) == FALSE

(* add_definition *)
Conflict(defs) ==
    \E d, e \in defs : /\ d.contract = e.contract /\ d.revision = e.revision
                       /\ d.schema # e.schema

Define ==
    /\ stage = "definitions"
    /\ IF Conflict(AllDefinitions) THEN Refuse("definitions")
       ELSE /\ definitions' = AllDefinitions
            /\ stage' = "exports"
            /\ UNCHANGED <<input, refusal, packages, operations, bindings,
                           delegated, ceilings, order>>

(***************************************************************************)
(* What each plugin exports, and the operations it may cause so far: those *)
(* it defines, exports and serves from its cells.                          *)
(***************************************************************************)
Exports(p) ==
    {[key |-> e.contract, schema |-> SchemaOf(e.contract, e.revision),
      target |-> "native"] : e \in packages[p].provides}
      \cup {[key |-> d.contract, schema |-> d.schema, target |-> "cell"] :
              d \in packages[p].properties}

UndefinedExport ==
    \E p \in Loaded : \E e \in packages[p].provides : Find(e.contract, e.revision) = {}

(* One plugin exports two revisions that disagree about an operation. *)
ConflictingExports ==
    \E p \in Loaded : \E a, b \in Exports(p) : a.key = b.key /\ a.schema # b.schema

OwnKeys(p) == ContractsOf(packages[p].definitions) \cup {o.key : o \in Exports(p)}

ResolveExports ==
    /\ stage = "exports"
    /\ IF UndefinedExport THEN Refuse("missing definition")
       ELSE IF ConflictingExports THEN Refuse("exports")
       ELSE /\ operations' = [p \in Loaded |-> Exports(p)]
            /\ ceilings' = [p \in Loaded |-> OwnKeys(p)]
            /\ stage' = "slots"
            /\ UNCHANGED <<input, refusal, packages, definitions, bindings,
                           delegated, order>>

(***************************************************************************)
(* Slot selections.  Chosen(p, i) are the selections of import i of p.     *)
(***************************************************************************)
BadSelection ==
    \/ \E s \in Slots :
          \/ s.caller \notin Loaded
          \/ s.slot \notin {i.slot : i \in packages[s.caller].requires}
    \/ \E s, t \in Slots : /\ s # t
                           /\ s.caller = t.caller /\ s.slot = t.slot
                           /\ s.index = t.index

Chosen(p, i) == {s \in Slots : s.caller = p /\ s.slot = i.slot}

(* Cardinality *)
Fills(i, n) ==
    CASE i.cardinality = "one" -> n = 1
      [] i.cardinality = "optional" -> n <= 1
      [] i.cardinality = "many" -> n >= i.minimum

Misfilled(p, i) ==
    LET n == Cardinality(Chosen(p, i))
    IN  ~Fills(i, n) \/ {s.index : s \in Chosen(p, i)} # {k \in 0 .. n : k < n}

(* What the chosen slot or property of a provider is: nothing or one thing. *)
Offered(s) ==
    {[contract |-> e.contract, revision |-> e.revision] :
        e \in {x \in packages[s.provider].provides : x.slot = s.export}}
      \cup {[contract |-> d.contract, revision |-> d.revision] :
              d \in {x \in packages[s.provider].properties : x.contract = s.export}}

InRange(i, r) == r \in i.revision_min .. i.revision_max

Unsuitable(i, s) ==
    \/ i.provider # Anyone /\ i.provider # s.provider
    \/ s.provider \notin Loaded
    \/ Offered(s) = {}
    \/ \E o \in Offered(s) : o.contract # i.contract \/ ~InRange(i, o.revision)

Twice(p, i) ==
    \E s, t \in Chosen(p, i) : s # t /\ s.provider = t.provider /\ s.export = t.export

BadImport(p, i) ==
    \/ Misfilled(p, i)
    \/ Chosen(p, i) = {} /\ Find(i.contract, i.revision_min) = {}
    \/ Twice(p, i)
    \/ \E s \in Chosen(p, i) : Unsuitable(i, s)

Imports(p) == packages[p].requires

Bind ==
    /\ stage = "slots"
    /\ IF BadSelection \/ \E p \in Loaded : \E i \in Imports(p) : BadImport(p, i)
       THEN Refuse("slots")
       ELSE /\ bindings' = UNION {{[caller |-> p, slot |-> i.slot, index |-> s.index,
                                    key |-> i.contract, provider |-> s.provider] :
                                      s \in Chosen(p, i)} :
                                    <<p, i>> \in {x \in Loaded \X UNION {Imports(q) : q \in Loaded} :
                                                    x[2] \in Imports(x[1])}}
            /\ ceilings' = [p \in Loaded |->
                              ceilings[p] \cup {i.contract : i \in Imports(p)}]
            /\ delegated' = [p \in Loaded |-> ContractsOf(packages[p].definitions)]
            /\ stage' = "delegation"
            /\ UNCHANGED <<input, refusal, packages, definitions, operations, order>>

(***************************************************************************)
(* A plugin may cause what those it is bound to define, and what those are *)
(* bound to define in turn: one edge at a time until nothing grows.        *)
(***************************************************************************)
Edges == {<<b.caller, b.provider>> : b \in bindings}

Grows(e) == ~(delegated[e[2]] \subseteq delegated[e[1]])

Delegate ==
    /\ stage = "delegation"
    /\ \E e \in Edges :
          /\ Grows(e)
          /\ delegated' = [delegated EXCEPT ![e[1]] = @ \cup delegated[e[2]]]
    /\ UNCHANGED <<input, stage, refusal, packages, definitions, operations,
                   bindings, ceilings, order>>

(***************************************************************************)
(* Plugins start after the native providers they cannot do without.        *)
(***************************************************************************)
Needed(p) ==
    {b.provider : b \in {x \in bindings :
        /\ x.caller = p
        /\ \E i \in Imports(p) : i.slot = x.slot /\ i.cardinality # "optional"
        /\ \E o \in operations[x.provider] : o.key = x.key /\ o.target = "native"}}

Startup == Order([p \in Loaded |-> Needed(p)])

Provided == UNION {{o.key : o \in operations[p]} : p \in Loaded}

Grantable(g) ==
    /\ g.key \in Provided
    /\ g.caller # Root =>
          g.caller \in Loaded /\ g.key \in ceilings[g.caller] \cup delegated[g.caller]

Entry == [key |-> input.entry.key, provider |-> Substitute(input.entry.provider)]

BadEntry ==
    \/ Entry.provider \notin Loaded
    \/ Entry.key \notin {o.key : o \in operations[Entry.provider]}

Finish ==
    /\ stage = "delegation"
    /\ \A e \in Edges : ~Grows(e)
    /\ CASE Startup.cycle # <<>> -> Refuse("cycle")
         [] /\ Startup.cycle = <<>>
            /\ \/ \E g \in input.grants : ~Grantable(g)
               \/ ~(input.authority \subseteq Provided)
               \/ BadEntry
               \/ [caller |-> Root, key |-> Entry.key] \notin input.grants
            -> Refuse("grants")
         [] OTHER ->
            /\ ceilings' = [p \in Loaded |-> ceilings[p] \cup delegated[p]]
            /\ order' = Startup.result
            /\ stage' = "prepared"
            /\ UNCHANGED <<input, refusal, packages, definitions, operations,
                           bindings, delegated>>

(* A preparation is over once; the embedding program may use it at will. *)
Over == stage \in {"prepared", "refused"} /\ UNCHANGED vars

Next ==
    \/ SelectPackages
    \/ Define
    \/ ResolveExports
    \/ Bind
    \/ Delegate
    \/ Finish
    \/ Over

Spec == Init /\ [][Next]_vars

-----------------------------------------------------------------------------

(* The preparation has its shape. *)
TypeOK ==
    /\ input.slots \subseteq SlotBinding
    /\ stage \in {"packages", "definitions", "exports", "slots", "delegation",
                  "prepared", "refused"}
    /\ stage = "refused" <=> refusal # "none"
    /\ \A p \in Loaded : packages[p] \in Package
    /\ definitions \subseteq Definition
    /\ bindings \subseteq Binding
    /\ \A p \in DOMAIN delegated : delegated[p] \subseteq Subjects
    /\ \A p \in DOMAIN ceilings : ceilings[p] \subseteq Subjects
    /\ Range(order) \subseteq Plugins

Prepared == stage = "prepared"

(***************************************************************************)
(* Every binding speaks one language: the provider exports the operation   *)
(* under a revision the importer accepts, and the schema it serves is the  *)
(* one that every definition of that revision gives, wherever the          *)
(* definition came from.                                                   *)
(***************************************************************************)
BindingsAgree ==
    Prepared =>
        \A b \in bindings :
            \E i \in packages[b.caller].requires :
                /\ i.slot = b.slot /\ i.contract = b.key
                /\ i.provider \in {Anyone, b.provider}
                /\ \E r \in i.revision_min .. i.revision_max :
                      /\ \/ \E e \in packages[b.provider].provides :
                               e.contract = b.key /\ e.revision = r
                         \/ b.key \in ContractsOf(packages[b.provider].properties)
                      /\ \A d \in AllDefinitions :
                            d.contract = b.key /\ d.revision = r =>
                               \A o \in operations[b.provider] :
                                  o.key = b.key => o.schema = d.schema

(* Every import has as many providers as it asks for, numbered without a   *)
(* gap, each of them once, and no selection of the product is lost.        *)
EveryNeedIsMet ==
    Prepared =>
        /\ Cardinality(bindings) = Cardinality(input.slots)
        /\ \A p \in Loaded : \A i \in packages[p].requires :
              LET bound == {b \in bindings : b.caller = p /\ b.slot = i.slot}
                  n == Cardinality(bound)
              IN  /\ i.cardinality = "one" => n = 1
                  /\ i.cardinality = "optional" => n < 2
                  /\ i.cardinality = "many" => ~(n < i.minimum)
                  /\ \A b \in bound : b.index < n
                  /\ Cardinality({b.provider : b \in bound}) = n

(* Nothing is bound to a plugin the product replaced or left out. *)
ReplacedIsUnused ==
    Prepared =>
        \A p \in Plugins :
            \/ \E s \in input.substitutions : s.from = p
            \/ p \in input.excluded
            => /\ \A b \in bindings : b.provider # p
               /\ Entry.provider # p

(* Everything that a plugin reaches through what it is bound to. *)
Reach(p) ==
    {q \in Loaded : \A S \in SUBSET Loaded :
        /\ p \in S
        /\ \A b \in bindings : b.caller \in S => b.provider \in S
        => q \in S}

(* A ceiling holds what a plugin exports, imports and defines, and what is *)
(* defined by the plugins it reaches; being part of the product adds       *)
(* nothing, and the order in which the edges are followed does not matter. *)
CeilingsFollowBindings ==
    Prepared =>
        \A p \in Loaded :
            ceilings[p] =
                {o.key : o \in operations[p]} \cup {i.contract : i \in packages[p].requires}
                  \cup UNION {ContractsOf(packages[q].definitions) : q \in Reach(p)}

(* A bound call can be made: both ends' ceilings permit it; and a grant is *)
(* for an operation that exists and that its holder may cause.             *)
BoundCallsArePermitted ==
    Prepared =>
        /\ \A b \in bindings : /\ b.key \in ceilings[b.caller]
                               /\ b.key \in ceilings[b.provider]
        /\ \A g \in input.grants :
              /\ \E p \in Loaded : \E o \in operations[p] : o.key = g.key
              /\ g.caller # Root => g.key \in ceilings[g.caller]

(* Each plugin is started once, after the services it requires; a product  *)
(* is refused for a cycle only when required services form one, so that    *)
(* optional services and properties may go around.                         *)
StartupFollowsNeeds ==
    /\ Prepared =>
          /\ Range(order) = Loaded /\ Len(order) = Cardinality(Loaded)
          /\ \A j, k \in DOMAIN order : j <= k =>
                ~\E b \in bindings :
                    /\ b.caller = order[j] /\ b.provider = order[k]
                    /\ \E i \in packages[b.caller].requires :
                          i.slot = b.slot /\ i.cardinality \in {"one", "many"}
                    /\ b.key \in Contracts
    /\ refusal = "cycle" =>
          \E S \in SUBSET Loaded \ {{}} : \A p \in S :
              \E b \in bindings :
                  /\ b.caller = p /\ b.provider \in S /\ b.key \in Contracts
                  /\ \E i \in packages[p].requires :
                        i.slot = b.slot /\ i.cardinality # "optional"
=============================================================================
