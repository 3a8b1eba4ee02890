---------------------------- MODULE EffectScope ----------------------------
(***************************************************************************)
(* The kernel's authority over effects: what a call that reached a plugin  *)
(* through several others may still do, while it runs and when it is       *)
(* polled again later.                                                     *)
(*                                                                         *)
(* Every call leaves a frame on the stack and, when it is pending, a       *)
(* ticket; both carry the authority that is left and the resource the call *)
(* is for.  A polled ticket is entered with the scope it was begun with,   *)
(* but above whoever polls it: the callers it was begun for need not be on *)
(* the stack.  `hops` remembers them.                                      *)
(***************************************************************************)
EXTENDS Naturals, Sequences

CONSTANTS Plugins,     \* selected plugins
          Root,        \* the principal of the embedding program
          Keys,        \* operation keys
          Home,        \* the plugin that exports each key
          Owner,       \* the plugin that declares the one property
          GetKey,      \* the key of its `get`
          SetKey,      \* the key of its `set`
          Resources,   \* resource identities
          Property,    \* the resource that stands for the property
          NoResource,  \* None
          Policies,    \* prepared compositions
          Requests,    \* the scopes callers ask for
          Tickets,     \* bound on the tickets that are live at a time
          NoTicket

ASSUME KeysAssumption ==
    /\ Home \in [Keys -> Plugins]
    /\ {GetKey, SetKey} \subseteq Keys
    /\ Home[GetKey] = Owner /\ Home[SetKey] = Owner
    /\ Owner \in Plugins
ASSUME RootAssumption == Root \notin Plugins
ASSUME ResourcesAssumption == Property \in Resources /\ NoResource \notin Resources
ASSUME TicketsAssumption == NoTicket \notin Tickets

Principals == Plugins \cup {Root}

Authority == [operations: SUBSET Keys, resources: SUBSET Resources]

Scope == [authority: Authority, resource: Resources \cup {NoResource}]

(* A prepared composition.  A pair (caller, key) without an entry in       *)
(* `granted` has no grant; a property that is not `settable` has no `set`. *)
Policy == [ceilings: [Plugins -> SUBSET Keys],
           bindings: SUBSET (Plugins \X Keys),
           granted: SUBSET (Principals \X Keys),
           grants: [Principals \X Keys -> SUBSET Resources],
           settable: BOOLEAN,
           authority: Authority,
           resource: Resources \cup {NoResource}]

ASSUME PoliciesAssumption == Policies \subseteq Policy
ASSUME RequestsAssumption == Requests \subseteq Scope

(* A call on the way from the root: who asked whom, for what, and how the  *)
(* caller narrowed the scope.                                              *)
Hop == [caller: Principals, provider: Plugins, key: Keys, asked: Scope]

Frame == [provider: Plugins, ticket: Tickets \cup {NoTicket}, scope: Scope,
          revoked: BOOLEAN, hops: SUBSET Hop]

Record == [provider: Plugins, key: Keys, parent: Tickets \cup {NoTicket},
           above: SUBSET Tickets, scope: Scope, revoked: BOOLEAN,
           over: BOOLEAN, hops: SUBSET Hop]

Effect == [kind: {"call", "get", "set", "publish"}, caller: Principals,
           key: Keys, resource: Resources \cup {NoResource},
           hops: SUBSET Hop]

VARIABLES
    policy,   \* Kernel.prepared
    root,     \* the scopes of the admitted root: one, or none
    stack,    \* State.stack, innermost last
    tickets,  \* State.tickets: partial function from ids to records
    effects   \* what the last step did outside its own plugin

vars == <<policy, root, stack, tickets, effects>>

Everything == [authority |-> [operations |-> Keys, resources |-> Resources],
               resource |-> NoResource]

Permits(p, key) == key \in policy.ceilings[p]

Top == stack[Len(stack)]

Running == stack # <<>> /\ ~Top.revoked

Exported(key) == key # SetKey \/ policy.settable

(* What a call starts from: the frame on top, or the prepared policy. *)
Inherited ==
    IF stack = <<>>
    THEN [authority |-> policy.authority, resource |-> policy.resource]
    ELSE Top.scope

HopsSoFar == IF stack = <<>> THEN {} ELSE Top.hops

(* Authority::intersect. *)
Intersect(a, b) ==
    [operations |-> a.operations \cap b.operations,
     resources |-> a.resources \cap b.resources]

Retain(ops, p) == {op \in ops : Permits(p, op)}

ResourceFor(from, asked) == IF asked # NoResource THEN asked ELSE from

(* effect_scope: a resource, once there is one, is not exchanged. *)
Switches(from, asked) == from # NoResource /\ asked \notin {NoResource, from}

(***************************************************************************)
(* effect_scope.                                                           *)
(***************************************************************************)
Narrowed(caller, p, key, asked) ==
    LET a == Intersect(Inherited.authority, asked.authority)
    IN  [operations |-> Retain(a.operations, p),
         resources |-> a.resources \cap policy.grants[<<caller, key>>]]

Allowed(caller, p, key, asked) ==
    LET a == Intersect(Inherited.authority, asked.authority)
        n == Narrowed(caller, p, key, asked)
    IN  /\ <<caller, key>> \in policy.granted
        /\ key \in a.operations
        /\ Permits(p, key)
        /\ \A i \in DOMAIN stack : Permits(stack[i].provider, key)
        /\ ~Switches(Inherited.resource, asked.resource)
        /\ LET r == ResourceFor(Inherited.resource, asked.resource)
           IN  r = NoResource \/ r \in n.resources

ScopeFor(caller, p, key, asked) ==
    [authority |-> Narrowed(caller, p, key, asked),
     resource |-> ResourceFor(Inherited.resource, asked.resource)]

HopFor(caller, key, asked) ==
    [caller |-> caller, provider |-> Home[key], key |-> key, asked |-> asked]

(* require_property_resource. *)
OwnsProperty(a) == Property \in a.resources

Kind(key) == IF key = GetKey THEN "get" ELSE "set"

(* A ticket is quiescent when its call and those below it are over. *)
Quiescent(T, id) ==
    T[id].over /\ \A d \in DOMAIN T : id \in T[d].above => T[d].over

Busy(p) ==
    \/ \E t \in DOMAIN tickets : tickets[t].provider = p /\ ~Quiescent(tickets, t)
    \/ \E i \in DOMAIN stack : stack[i].provider = p

EffectOf(kind, caller, key, resource, hops) ==
    {[kind |-> kind, caller |-> caller, key |-> key, resource |-> resource,
      hops |-> hops]}

Push(p, t, scope, revoked, hops) ==
    stack' = Append(stack, [provider |-> p, ticket |-> t, scope |-> scope,
                            revoked |-> revoked, hops |-> hops])

Pop == stack' = SubSeq(stack, 1, Len(stack) - 1)

-----------------------------------------------------------------------------

Init ==
    /\ policy \in Policies
    /\ root = {}
    /\ stack = <<>>
    /\ tickets = [t \in {} |-> {}]
    /\ effects = {}

(* admit_root_inner: one root at a time. *)
Admit(scope) ==
    /\ root = {} /\ DOMAIN tickets = {} /\ stack = <<>>
    /\ root' = {scope}
    /\ effects' = {}
    /\ UNCHANGED <<policy, stack, tickets>>

(***************************************************************************)
(* dispatch_call, with the cells behind a property's operations, with a    *)
(* plugin that runs at once, and with one whose call is kept as a ticket.  *)
(***************************************************************************)
CallCell(caller, key, asked) ==
    LET s == ScopeFor(caller, Owner, key, asked)
    IN  /\ key \in {GetKey, SetKey} /\ Exported(key)
        /\ Allowed(caller, Owner, key, asked)
        /\ OwnsProperty(s.authority)
        /\ effects' = EffectOf(Kind(key), caller, key, s.resource,
                               HopsSoFar \cup {HopFor(caller, key, asked)})
        /\ UNCHANGED <<policy, root, stack, tickets>>

CallService(caller, key, asked) ==
    LET p == Home[key]
        s == ScopeFor(caller, p, key, asked)
        hops == HopsSoFar \cup {HopFor(caller, key, asked)}
    IN  /\ key \notin {GetKey, SetKey}
        /\ Allowed(caller, p, key, asked)
        /\ ~Busy(p)
        /\ Push(p, NoTicket, s, FALSE, hops)
        /\ effects' = EffectOf("call", caller, key, s.resource, hops)
        /\ UNCHANGED <<policy, root, tickets>>

(* Fault: a ticket keeps the scope of its caller. *)
RecordOfCaller(p, key, s, hops) ==
    [provider |-> p, key |-> key,
     parent |-> IF stack = <<>> THEN NoTicket ELSE Top.ticket,
     above |-> {}, scope |-> Inherited, revoked |-> FALSE, over |-> FALSE,
     hops |-> hops]

(* begin_pending. *)
RecordFor(p, key, s, hops) ==
    LET parent == IF stack = <<>> THEN NoTicket ELSE Top.ticket
    IN  [provider |-> p, key |-> key, parent |-> parent,
         above |-> IF parent \in DOMAIN tickets
                   THEN {parent} \cup tickets[parent].above ELSE {},
         scope |-> s, revoked |-> FALSE, over |-> FALSE, hops |-> hops]

BeginCall(caller, key, asked) ==
    LET p == Home[key]
        s == ScopeFor(caller, p, key, asked)
        hops == HopsSoFar \cup {HopFor(caller, key, asked)}
    IN  /\ key \notin {GetKey, SetKey}
        /\ Allowed(caller, p, key, asked)
        /\ ~Busy(p)
        /\ \E t \in Tickets \ DOMAIN tickets :
              /\ tickets' = [d \in DOMAIN tickets \cup {t} |->
                                IF d = t THEN RecordFor(p, key, s, hops)
                                ELSE tickets[d]]
              /\ Push(p, t, s, FALSE, hops)
        /\ effects' = EffectOf("call", caller, key, s.resource, hops)
        /\ UNCHANGED <<policy, root>>

(* Root::invoke, begin, call_graph: the root's scope is the restriction,   *)
(* and a graph calls under the grants of the plugin that declares it.      *)
FromOutside ==
    /\ stack = <<>>
    /\ \E caller \in Principals, key \in Keys, asked \in root :
          CallCell(caller, key, asked) \/ CallService(caller, key, asked)
            \/ BeginCall(caller, key, asked)

(* invoke, import_pending: plugin code imports what is bound to it; only a *)
(* frame with a ticket of its own may begin a pending call.                *)
FromPlugin ==
    /\ Running
    /\ \E key \in Keys, asked \in Requests \cup {Everything} :
          /\ <<Top.provider, key>> \in policy.bindings
          /\ \/ CallCell(Top.provider, key, asked)
             \/ CallService(Top.provider, key, asked)
             \/ Top.ticket # NoTicket /\ BeginCall(Top.provider, key, asked)

(* state_request, authorize_state: the selected consumer or the owner      *)
(* reaches the cell by its reference, under the same checks.               *)
TouchCell(key) ==
    LET caller == Top.provider
        s == ScopeFor(caller, Owner, key, Everything)
    IN  /\ Running /\ Exported(key)
        /\ caller = Owner \/ <<caller, key>> \in policy.bindings
        /\ key = SetKey /\ caller = Owner => policy.settable
        /\ Allowed(caller, Owner, key, Everything)
        /\ OwnsProperty(s.authority)
        /\ effects' = EffectOf(Kind(key), caller, key, s.resource,
                               HopsSoFar \cup {HopFor(caller, key, Everything)})
        /\ UNCHANGED <<policy, root, stack, tickets>>

(* authorize_owner_publish: the owner of a property nobody may set records *)
(* an observation; no operation is granted for it, but the resource is.    *)
Publish ==
    /\ Running /\ Top.provider = Owner /\ ~policy.settable
    /\ \A i \in DOMAIN stack : ~stack[i].revoked
    /\ OwnsProperty(Top.scope.authority)
    /\ effects' = EffectOf("publish", Owner, SetKey, Top.scope.resource, Top.hops)
    /\ UNCHANGED <<policy, root, stack, tickets>>

(***************************************************************************)
(* enter_ticket, for Root::poll and drain_cancelled, for an imported poll, *)
(* and for the children of a ticket whose own call is over.                *)
(***************************************************************************)
Enter(T, t) ==
    /\ ~T[t].over
    /\ Push(T[t].provider, t, T[t].scope, T[t].revoked, T[t].hops)
    /\ effects' = {}

MayPoll(t) ==
    \/ stack = <<>> /\ tickets[t].parent = NoTicket
    \/ /\ stack = <<>> /\ tickets[t].parent \in DOMAIN tickets
       /\ tickets[tickets[t].parent].over
    \/ stack # <<>> /\ Top.ticket # NoTicket /\ tickets[t].parent = Top.ticket

Poll ==
    /\ \E t \in DOMAIN tickets : MayPoll(t) /\ Enter(tickets, t)
    /\ UNCHANGED <<policy, root, tickets>>

(* cancel_ticket: everything below is cancelled with it, before the ticket *)
(* is entered a last time.                                                 *)
Revoked(T, S) ==
    [d \in DOMAIN T |-> IF d \in S /\ ~Quiescent(T, d)
                        THEN [T[d] EXCEPT !.revoked = TRUE] ELSE T[d]]

Tree(T, id) == {id} \cup {d \in DOMAIN T : id \in T[d].above}

MayCancel(t) ==
    \/ stack = <<>> /\ root # {} /\ tickets[t].parent = NoTicket
    \/ stack # <<>> /\ Top.ticket # NoTicket /\ tickets[t].parent = Top.ticket

Cancel ==
    \E t \in DOMAIN tickets :
        /\ MayCancel(t) /\ ~tickets[t].revoked
        /\ tickets' = Revoked(tickets, Tree(tickets, t))
        /\ Enter(tickets', t)
        /\ UNCHANGED <<policy, root>>

(* release_abandoned. *)
Kept(T) ==
    IF root # {} THEN T
    ELSE [d \in {t \in DOMAIN T : ~Quiescent(T, t)} |-> T[d]]

Without(T, S) == [d \in DOMAIN T \ S |-> T[d]]

(* A call that is no ticket, or a ticket that is still pending, returns. *)
Return ==
    /\ stack # <<>>
    /\ Pop
    /\ effects' = {}
    /\ UNCHANGED <<policy, root, tickets>>

(* accept_reply: a failed ticket loses its authority, and so does a ticket *)
(* that is over while work it imported is not.                             *)
Fail ==
    /\ stack # <<>> /\ Top.ticket # NoTicket
    /\ Pop
    /\ \E over \in BOOLEAN :
          tickets' = Kept([Revoked(tickets, Tree(tickets, Top.ticket))
                             EXCEPT ![Top.ticket].over = over])
    /\ effects' = {}
    /\ UNCHANGED <<policy, root>>

(* accept_reply, and the release of a tree whose result is delivered, to   *)
(* the importer at once and to the root when it asks for it.               *)
Complete ==
    /\ stack # <<>> /\ Top.ticket # NoTicket
    /\ \A d \in DOMAIN tickets : tickets[d].parent = Top.ticket => Quiescent(tickets, d)
    /\ Pop
    /\ LET T == [tickets EXCEPT ![Top.ticket].over = TRUE]
       IN  tickets' = IF Len(stack) > 1
                      THEN Without(T, Tree(T, Top.ticket)) ELSE Kept(T)
    /\ effects' = {}
    /\ UNCHANGED <<policy, root>>

Release ==
    \E t \in DOMAIN tickets :
        /\ Quiescent(tickets, t)
        /\ \/ stack = <<>> /\ root # {} /\ tickets[t].parent = NoTicket
           \/ stack # <<>> /\ Top.ticket # NoTicket /\ tickets[t].parent = Top.ticket
        /\ tickets' = Without(tickets, Tree(tickets, t))
        /\ effects' = {}
        /\ UNCHANGED <<policy, root, stack>>

(* Root::drop, abandon_root. *)
Drop ==
    /\ stack = <<>> /\ root # {}
    /\ root' = {}
    /\ LET T == Revoked(tickets, DOMAIN tickets)
       IN  tickets' = [d \in {t \in DOMAIN T : ~Quiescent(T, t)} |-> T[d]]
    /\ effects' = {}
    /\ UNCHANGED <<policy, stack>>

Next ==
    \/ \E scope \in Requests : Admit(scope)
    \/ FromOutside
    \/ FromPlugin
    \/ \E key \in {GetKey, SetKey} : TouchCell(key)
    \/ Publish
    \/ Poll
    \/ Cancel
    \/ Return
    \/ Fail
    \/ Complete
    \/ Release
    \/ Drop

Spec == Init /\ [][Next]_vars

-----------------------------------------------------------------------------

(* The state has its shape. *)
TypeOK ==
    /\ policy \in Policies
    /\ root \subseteq Requests
    /\ stack \in Seq(Frame)
    /\ DOMAIN tickets \subseteq Tickets
    /\ tickets \in [DOMAIN tickets -> Record]
    /\ effects \subseteq Effect

(***************************************************************************)
(* A scope is within what every hop left of it: the ceiling of each plugin *)
(* that was entered, the grant each call was made under, the restriction   *)
(* each caller put on it, and the authority of the product.                *)
(***************************************************************************)
Within(a, hops) ==
    /\ a.operations \subseteq policy.authority.operations
    /\ a.resources \subseteq policy.authority.resources
    /\ \A h \in hops :
          /\ a.operations \subseteq policy.ceilings[h.provider]
          /\ a.operations \subseteq h.asked.authority.operations
          /\ a.resources \subseteq policy.grants[<<h.caller, h.key>>]
          /\ a.resources \subseteq h.asked.authority.resources

(* What is left to a call never grows, on the stack and in a ticket that   *)
(* is entered again without its callers: effect_scope, begin_pending and   *)
(* enter_ticket together.                                                  *)
ScopesOnlyNarrow ==
    /\ \A i \in DOMAIN stack : Within(stack[i].scope.authority, stack[i].hops)
    /\ \A t \in DOMAIN tickets :
          Within(tickets[t].scope.authority, tickets[t].hops)

(* A call or an access to a cell is made under a grant of its caller, and  *)
(* is one that the product, every plugin it was made for and every caller  *)
(* on the way allow, whoever polls it.                                     *)
EffectsArePermitted ==
    \A e \in effects : e.kind # "publish" =>
        /\ <<e.caller, e.key>> \in policy.granted
        /\ e.key \in policy.authority.operations
        /\ \A h \in e.hops : /\ Permits(h.provider, e.key)
                             /\ e.key \in h.asked.authority.operations

(* A cell is read, written or published to only on behalf of callers that  *)
(* were all granted the property's resource and did not give it up; a      *)
(* property without `set` is written by its owner alone.                   *)
CellsNeedTheirResource ==
    \A e \in effects : e.kind # "call" =>
        /\ \A h \in e.hops : /\ Property \in policy.grants[<<h.caller, h.key>>]
                             /\ Property \in h.asked.authority.resources
        /\ e.kind = "set" => policy.settable
        /\ e.kind = "publish" => e.caller = Owner /\ ~policy.settable

(* Work that is for one resource stays on it, through every call and every *)
(* later poll, and the resource is one every caller since was granted.     *)
WorkKeepsItsResource ==
    \A e \in effects :
        /\ policy.resource # NoResource => e.resource = policy.resource
        /\ \A h \in e.hops :
              h.asked.resource # NoResource => e.resource = h.asked.resource

(* Authority only shrinks along a chain of calls, also when its frames are *)
(* gone, and every effect is within it, on behalf of callers that all have *)
(* what it needs, and on the one resource they work for: effect_scope and  *)
(* every path to it.                                                       *)
ScopesAreSound ==
    /\ TypeOK
    /\ ScopesOnlyNarrow
    /\ EffectsArePermitted
    /\ CellsNeedTheirResource
    /\ WorkKeepsItsResource
=============================================================================
