-------------------------------- MODULE Cells --------------------------------
(***************************************************************************)
(* Property cells of one kernel: creation while plugins initialize, compare-*)
(* exchange and batches under revisions and epochs, subscriptions with their*)
(* cursors, the epoch cursor of a graph execution, and the end of it all at *)
(* shutdown, after which the next load issues new owners and locations.     *)
(*                                                                         *)
(* A request is atomic: nothing calls back out of Cells.  What interleaves  *)
(* is the calls: any caller may hold what it read, and any location it ever *)
(* saw, across any number of requests, tickets, roots and loads of others.  *)
(***************************************************************************)
EXTENDS Naturals, FiniteSets, Sequences, FiniteSetTheorems, FunctionTheorems,
        SequenceTheorems, TLAPS

CONSTANTS Packages,          \* the selected plugins, in the order of the map
          Properties,        \* [owner, id, get, set, watch] of each declaration
          Root,              \* the host as a caller, through selected cell targets
          Granted,           \* <<caller, property, op>> selected and granted
          Holds,             \* <<caller, property>>: its frames hold the resource
          Generations,       \* digests a load may have
          None,              \* "no plugin is initializing"
          MaxSubscriptions,  \* MAX_COUNT
          MaxLoads, MaxEpoch, MaxCursor, MaxRoot, MaxTicket  \* bounds of the model

Plugins == {Packages[i] : i \in DOMAIN Packages}

Callers == Plugins \cup {Root}

ASSUME PackagesAssumption ==
    /\ Packages \in Seq(Plugins)
    /\ \A i, j \in DOMAIN Packages : Packages[i] = Packages[j] => i = j
ASSUME PropertiesAssumption ==
    /\ Properties \subseteq [owner: Plugins, id: STRING,
                             get: BOOLEAN, set: BOOLEAN, watch: BOOLEAN]
    /\ IsFiniteSet(Properties)
ASSUME GrantsAssumption ==
    /\ Root \notin Plugins /\ None \notin Callers
    /\ Granted \subseteq Callers \X Properties \X {"get", "set", "watch"}
    /\ Holds \subseteq Callers \X Properties
ASSUME CellBounds ==
    {MaxSubscriptions, MaxLoads, MaxEpoch, MaxCursor, MaxRoot, MaxTicket} \subseteq Nat

VARIABLES
    phase,            \* "down", "initializing" or "up"
    generation,       \* Cells.generation
    owners,           \* Cells.owners: the incarnation of each plugin, 0 for none
    nextIncarnation,  \* NEXT_INCARNATION, for the life of the process
    initializing,     \* Kernel.initializing
    initialized,      \* plugins whose initialization was accepted
    cells,            \* Cells.cells: key -> snapshot
    epoch,            \* Cells.epoch
    subscriptions,    \* Cells.subscriptions: cursor -> subscription
    nextCursor,       \* Cells.next_cursor
    root, rootLive, nextRoot,  \* State.active_root, root_live, next_root
    calls, nextTicket,         \* tickets that may own subscriptions
    known,            \* every location ever handed out
    drafts,           \* what each caller read and may still base an edit on
    graph,            \* GraphExecution.state_cursor, and what its hooks saw
    commits,          \* history: the keys each epoch committed
    retired           \* history: the locations of earlier loads

ownerVars == <<phase, generation, owners, nextIncarnation, initializing, initialized>>
cellVars == <<cells, epoch, commits>>
subVars == <<subscriptions, nextCursor>>
callVars == <<root, rootLive, nextRoot, calls, nextTicket>>
clientVars == <<known, drafts, retired>>

vars == <<ownerVars, cellVars, subVars, callVars, clientVars, graph>>

Snapshot == [revision: Nat, epoch: Nat, value: Nat]

Key == [owner: Nat, property: Properties]

ValueLocation == [generation: Generations, key: Key]

Subscription ==
    [root: Nat, caller: Callers, ticket: Nat, location: ValueLocation, revision: Nat]

Empty == <<>>

Restricted(f, S) == [x \in DOMAIN f \cap S |-> f[x]]

Extended(f, x, v) == [y \in DOMAIN f \cup {x} |-> IF y = x THEN v ELSE f[y]]

(***************************************************************************)
(* Cells::cell: the generation, then the owner's incarnation, then the cell.*)
(***************************************************************************)
Resolves(r) ==
    /\ r.generation = generation
    /\ \E p \in Plugins : owners[p] = r.key.owner
    /\ r.key \in DOMAIN cells

Cell(r) == cells[r.key]

(* authorize_state: the operation is enabled, selected, granted, and the frame
   holds the property's resource. *)
MayAccess(c, q, op) == q[op] /\ <<c, q, op>> \in Granted /\ <<c, q>> \in Holds

(* authorize_owner_publish: the owner publishes its read-only observation. *)
MayPublish(c, q) == q.owner = c /\ (q.get \/ q.watch) /\ <<c, q>> \in Holds

MayEdit(c, q) ==
    IF q.owner = c /\ ~q.set THEN MayPublish(c, q) ELSE MayAccess(c, q, "set")

Init ==
    /\ phase = "down"
    /\ generation \in Generations
    /\ owners = [p \in Plugins |-> 0]
    /\ nextIncarnation = 1
    /\ initializing = None /\ initialized = {}
    /\ cells = Empty /\ epoch = 0 /\ commits = <<>>
    /\ subscriptions = Empty /\ nextCursor = 0
    /\ root = 0 /\ rootLive = FALSE /\ nextRoot = 0
    /\ calls = Empty /\ nextTicket = 1
    /\ known = {} /\ retired = {}
    /\ drafts = [c \in Callers |-> Empty]
    /\ graph = [cursor |-> 0, seen |-> Empty]

-----------------------------------------------------------------------------
(* Loading a generation and initializing its plugins. *)

(* Fault: incarnations are counted per load and not per process. *)
RegisterOwnersAgain ==
    /\ owners' = [p \in Plugins |-> CHOOSE i \in DOMAIN Packages : Packages[i] = p]
    /\ nextIncarnation' = nextIncarnation + Len(Packages)

(* Cells::register_owner, for every package of the map. *)
RegisterOwners ==
    /\ owners' = [p \in Plugins |->
                    nextIncarnation - 1 + CHOOSE i \in DOMAIN Packages : Packages[i] = p]
    /\ nextIncarnation' = nextIncarnation + Len(Packages)

Load ==
    /\ phase = "down" /\ nextIncarnation <= (MaxLoads - 1) * Len(Packages) + 1
    /\ phase' = "initializing"
    /\ generation' \in Generations
    /\ RegisterOwners
    /\ cells' = Empty /\ epoch' = 0 /\ commits' = <<>>
    /\ subscriptions' = Empty /\ nextCursor' = 0
    /\ root' = 0 /\ rootLive' = FALSE /\ nextRoot' = 0
    /\ UNCHANGED <<initializing, initialized, calls, nextTicket, clientVars, graph>>

BeginInitialize(p) ==
    /\ phase = "initializing" /\ initializing = None /\ p \notin initialized
    /\ initializing' = p
    /\ UNCHANGED <<phase, generation, owners, nextIncarnation, initialized,
                   cellVars, subVars, callVars, clientVars, graph>>

(* Cells::create, allowed to the initializing plugin for its declarations. *)
Create(q) ==
    LET key == [owner |-> owners[q.owner], property |-> q]
        r   == [generation |-> generation, key |-> key]
    IN /\ phase = "initializing" /\ initializing = q.owner
       /\ key \notin DOMAIN cells
       /\ cells' = Extended(cells, key, [revision |-> 0, epoch |-> 0, value |-> 0])
       /\ known' = known \cup {r}
       /\ UNCHANGED <<ownerVars, epoch, commits, subVars, callVars, drafts, retired, graph>>

(* Cells::initialized, with the number of declared properties. *)
HasCreatedAll(p) ==
    Cardinality({k \in DOMAIN cells : k.property.owner = p})
        = Cardinality({q \in Properties : q.owner = p})

AcceptInitialized ==
    /\ phase = "initializing" /\ initializing # None
    /\ HasCreatedAll(initializing)
    /\ initialized' = initialized \cup {initializing}
    /\ initializing' = None
    /\ phase' = IF initialized' = Plugins THEN "up" ELSE "initializing"
    /\ UNCHANGED <<generation, owners, nextIncarnation, cellVars, subVars, callVars,
                   clientVars, graph>>

(* Cells::clear. *)
Clear ==
    /\ cells' = Empty
    /\ owners' = [p \in Plugins |-> 0]
    /\ subscriptions' = Empty

(* The memory of the plugins goes with them, what the host read stays with it. *)
Down ==
    /\ phase' = "down"
    /\ initializing' = None /\ initialized' = {}
    /\ Clear
    /\ retired' = retired \cup {[generation |-> generation, key |-> k] : k \in DOMAIN cells}
    /\ drafts' = [c \in Callers |-> IF c = Root THEN drafts[c] ELSE Empty]
    /\ UNCHANGED <<generation, nextIncarnation, epoch, commits, nextCursor, callVars,
                   known, graph>>

(* The plugin fails, or did not create every property: load_generation drops
   the kernel. *)
FailInitialize == phase = "initializing" /\ initializing # None /\ Down

(* stop_images, once no root is admitted and no ticket is live. *)
Stop == phase = "up" /\ root = 0 /\ calls = Empty /\ Down

-----------------------------------------------------------------------------
(* Roots and tickets, as the pending-call runtime drives them (PendingTickets).*)

Seen == [k \in DOMAIN cells |-> cells[k].revision]

(* admit_scoped_root; a graph execution starts at the epoch of its admission. *)
AdmitRoot ==
    /\ phase = "up" /\ root = 0 /\ nextRoot < MaxRoot
    /\ nextRoot' = nextRoot + 1
    /\ root' = nextRoot' /\ rootLive' = TRUE
    /\ graph' = [cursor |-> epoch, seen |-> Seen]
    /\ UNCHANGED <<ownerVars, cellVars, subVars, calls, nextTicket, clientVars>>

(* Cells::release_root, when the root is dropped. *)
DropRoot ==
    /\ rootLive
    /\ rootLive' = FALSE
    /\ root' = IF calls = Empty THEN 0 ELSE root
    /\ subscriptions' = Restricted(subscriptions,
                          {i \in DOMAIN subscriptions : subscriptions[i].root # root})
    /\ UNCHANGED <<ownerVars, cellVars, nextCursor, nextRoot, calls, nextTicket,
                   clientVars, graph>>

BeginTicket(p) ==
    /\ rootLive /\ nextTicket <= MaxTicket
    /\ calls' = Extended(calls, nextTicket, [caller |-> p, revoked |-> FALSE])
    /\ nextTicket' = nextTicket + 1
    /\ UNCHANGED <<ownerVars, cellVars, subVars, root, rootLive, nextRoot, clientVars, graph>>

WithoutTicket(t) ==
    Restricted(subscriptions, {i \in DOMAIN subscriptions : subscriptions[i].ticket # t})

(* A cancelled ticket keeps its subscriptions until it is released, a failed
   one loses them at once. *)
RevokeTicket(t) ==
    /\ ~calls[t].revoked
    /\ calls' = [calls EXCEPT ![t].revoked = TRUE]
    /\ subscriptions' \in {subscriptions, WithoutTicket(t)}
    /\ UNCHANGED <<ownerVars, cellVars, nextCursor, root, rootLive, nextRoot, nextTicket,
                   clientVars, graph>>

ReleaseSubscriptions(t) == subscriptions' = WithoutTicket(t)

(* release_tree under a live root, release_abandoned under a dropped one. *)
ReleaseTicket(t) ==
    /\ calls' = Restricted(calls, DOMAIN calls \ {t})
    /\ IF rootLive THEN ReleaseSubscriptions(t) /\ UNCHANGED root
       ELSE /\ UNCHANGED subscriptions
            /\ root' = IF calls' = Empty THEN 0 ELSE root
    /\ UNCHANGED <<ownerVars, cellVars, nextCursor, rootLive, nextRoot, nextTicket,
                   clientVars, graph>>

-----------------------------------------------------------------------------
(* State requests of the frame of caller c under ticket t (0: none). *)

(* A frame with authority: authenticate_scope and the active root. *)
Frame(c, t) ==
    /\ phase = "up" /\ rootLive
    /\ t # 0 => /\ t \in DOMAIN calls
                /\ calls[t].caller = c /\ ~calls[t].revoked

Read(c, t, r) ==
    /\ Frame(c, t) /\ Resolves(r) /\ MayAccess(c, r.key.property, "get")
    /\ drafts' = [drafts EXCEPT ![c] =
                    Extended(@, r, [revision |-> Cell(r).revision, value |-> Cell(r).value])]
    /\ UNCHANGED <<ownerVars, cellVars, subVars, callVars, known, retired, graph>>

(* Fault: a batch passes when one of its edits does. *)
OneUnchanged(c, S) == \E r \in S : drafts[c][r].revision = Cell(r).revision

Unchanged(c, S) == \A r \in S : drafts[c][r].revision = Cell(r).revision

(* The snapshot an edit leaves: every edit adds one to the value it read. *)
Committed(c, r) ==
    [revision |-> Cell(r).revision + 1, epoch |-> epoch + 1,
     value |-> drafts[c][r].value + 1]

(* Cells::commit: all edits are validated before the first is applied.  The
   locations of a batch are strictly ordered (StateRequest), so S is a set. *)
Commit(c, t, S) ==
    /\ Frame(c, t) /\ epoch < MaxEpoch /\ S # {}
    /\ c = Root => Cardinality(S) = 1
    /\ \A r \in S : Resolves(r) /\ MayEdit(c, r.key.property)
    /\ Unchanged(c, S)
    /\ cells' = [k \in DOMAIN cells |->
                   IF \E r \in S : r.key = k
                   THEN Committed(c, CHOOSE r \in S : r.key = k) ELSE cells[k]]
    /\ epoch' = epoch + 1
    /\ commits' = Append(commits, {r.key : r \in S})
    /\ drafts' = [drafts EXCEPT ![c] = [r \in DOMAIN @ |->
                    IF r \in S
                    THEN [revision |-> cells'[r.key].revision, value |-> cells'[r.key].value]
                    ELSE @[r]]]
    /\ UNCHANGED <<ownerVars, subVars, callVars, known, retired, graph>>

TakeCursor == nextCursor' = nextCursor + 1

Subscribe(c, t, r) ==
    /\ Frame(c, t) /\ Resolves(r) /\ MayAccess(c, r.key.property, "watch")
    /\ Cardinality(DOMAIN subscriptions) < MaxSubscriptions /\ nextCursor < MaxCursor
    /\ TakeCursor
    /\ subscriptions' = Extended(subscriptions, nextCursor + 1,
         [root |-> root, caller |-> c, ticket |-> t, location |-> r,
          revision |-> Cell(r).revision])
    /\ UNCHANGED <<ownerVars, cellVars, callVars, clientVars, graph>>

(* Cells::cursor, then authorize_state: plugins only, the host has no cursors. *)
OwnsCursor(c, t, i) ==
    /\ Frame(c, t) /\ c # Root
    /\ subscriptions[i].root = root
    /\ subscriptions[i].caller = c
    /\ subscriptions[i].ticket = t
    /\ Resolves(subscriptions[i].location)
    /\ MayAccess(c, subscriptions[i].location.key.property, "watch")

Reported(r) == Cell(r).revision

(* Cells::next: Null, or the latest snapshot. *)
NextSnapshot(c, t, i) ==
    /\ OwnsCursor(c, t, i)
    /\ subscriptions' = [subscriptions EXCEPT ![i].revision = Reported(subscriptions[i].location)]
    /\ UNCHANGED <<ownerVars, cellVars, nextCursor, callVars, clientVars, graph>>

Unsubscribe(c, t, i) ==
    /\ OwnsCursor(c, t, i)
    /\ subscriptions' = Restricted(subscriptions, DOMAIN subscriptions \ {i})
    /\ UNCHANGED <<ownerVars, cellVars, nextCursor, callVars, clientVars, graph>>

-----------------------------------------------------------------------------
(* Cells::watched_changes_since. *)
Changed == {k \in DOMAIN cells : k.property.watch /\ cells[k].epoch > graph.cursor}

(* GraphExecution::admit_state_wave: the hooks of the new wave see the changes. *)
AdmitStateWave ==
    /\ phase = "up" /\ rootLive /\ graph.cursor # epoch
    /\ graph' = [cursor |-> epoch,
                 seen |-> [k \in DOMAIN graph.seen |->
                             IF k \in Changed THEN cells[k].revision ELSE graph.seen[k]]]
    /\ UNCHANGED <<ownerVars, cellVars, subVars, callVars, clientVars>>

-----------------------------------------------------------------------------
Lifecycle ==
    \/ Load \/ AcceptInitialized \/ FailInitialize \/ Stop
    \/ \E p \in Plugins : BeginInitialize(p)
    \/ \E q \in Properties : Create(q)

CallStep ==
    \/ AdmitRoot \/ DropRoot
    \/ \E p \in Plugins : BeginTicket(p)
    \/ \E t \in DOMAIN calls : RevokeTicket(t) \/ ReleaseTicket(t)

Request ==
    \E c \in Callers, t \in {0} \cup DOMAIN calls :
        /\ c = Root => t = 0
        /\ \/ \E r \in known : Read(c, t, r) \/ Subscribe(c, t, r)
           \/ \E S \in SUBSET DOMAIN drafts[c] : Commit(c, t, S)
           \/ \E i \in DOMAIN subscriptions : NextSnapshot(c, t, i) \/ Unsubscribe(c, t, i)

Next == Lifecycle \/ CallStep \/ Request \/ AdmitStateWave

Spec == Init /\ [][Next]_vars

-----------------------------------------------------------------------------
(* Properties. *)

(* Every variable keeps its type (value_state.rs). *)
TypeOK ==
    /\ phase \in {"down", "initializing", "up"}
    /\ generation \in Generations
    /\ owners \in [Plugins -> Nat]
    /\ nextIncarnation \in Nat
    /\ initializing \in Plugins \cup {None} /\ initialized \subseteq Plugins
    /\ DOMAIN cells \subseteq Key /\ \A k \in DOMAIN cells : cells[k] \in Snapshot
    /\ epoch \in Nat /\ nextCursor \in Nat
    /\ DOMAIN subscriptions \subseteq 1..nextCursor
    /\ \A i \in DOMAIN subscriptions : subscriptions[i] \in Subscription
    /\ root \in Nat /\ rootLive \in BOOLEAN /\ nextRoot \in Nat
    /\ DOMAIN calls \subseteq 1..(nextTicket - 1)
    /\ known \subseteq ValueLocation /\ retired \subseteq known
    /\ \A c \in Callers : DOMAIN drafts[c] \subseteq known
    /\ commits \in Seq(SUBSET Key)

(* Edits are serializable and batches atomic: each cell is what the committed
   batches that name it made of it, one after the other.  Its revision counts
   them, its epoch is the last of them, and its value holds the effect of each,
   so no update computed from an older snapshot was lost (Cells::commit). *)
HistoryExplainsCells ==
    /\ Len(commits) = epoch
    /\ \A k \in DOMAIN cells :
         LET touched == {e \in 1..epoch : k \in commits[e]} IN
         /\ cells[k].revision = Cardinality(touched)
         /\ cells[k].value = Cardinality(touched)
         /\ cells[k].epoch \in touched \cup {0}
         /\ \A e \in touched : e <= cells[k].epoch

(* A location never outlives its load, even when the same generation is loaded
   again: owners are new incarnations (register_owner, Cells::cell). *)
StaleLocationsNeverResolve == \A r \in retired : ~Resolves(r)

(* A running kernel has exactly the declared cells, whoever initialized in
   whatever order and failed how often before (load_generation). *)
RunningMeansComplete ==
    phase = "up" =>
        DOMAIN cells = {[owner |-> owners[q.owner], property |-> q] : q \in Properties}

(* A subscription belongs to the admitted root, and to a ticket of its caller
   that is in the map: releases on every path leave none behind
   (release_ticket, release_root, clear). *)
SubscriptionsBelongToLiveCalls ==
    \A i \in DOMAIN subscriptions :
        LET s == subscriptions[i] IN
        /\ rootLive /\ s.root = root
        /\ s.ticket # 0 => s.ticket \in DOMAIN calls /\ calls[s.ticket].caller = s.caller

(* Every cursor points to a live cell and lags behind it: `next` never reports
   a revision twice nor one that is not there yet. *)
CursorsTrailTheirCell ==
    \A i \in DOMAIN subscriptions :
        /\ Resolves(subscriptions[i].location)
        /\ subscriptions[i].revision <= Cell(subscriptions[i].location).revision

(* A graph execution misses no change of a watched cell: one its hooks have not
   seen is after its epoch cursor, so the next wave reports it
   (watched_changes_since, admit_state_wave). *)
GraphMissesNothing ==
    rootLive => \A k \in DOMAIN cells :
        k.property.watch /\ cells[k].revision # graph.seen[k]
            => cells[k].epoch > graph.cursor

(* Revisions and epochs only grow while the kernel is loaded, cursors of one
   subscription too, and a conflict or a denied request moves none of them. *)
RevisionsGrow ==
    phase = "up" /\ phase' = "up" =>
         /\ epoch' \in {epoch, epoch + 1}
         /\ \A k \in DOMAIN cells :
              /\ cells'[k].revision \in {cells[k].revision, cells[k].revision + 1}
              /\ cells'[k].epoch # cells[k].epoch <=> cells'[k].revision # cells[k].revision
              /\ cells'[k].revision # cells[k].revision => cells'[k].epoch = epoch'
         /\ \A i \in DOMAIN subscriptions \cap DOMAIN subscriptions' :
              subscriptions'[i].revision >= subscriptions[i].revision

(* What the cells hold is the history of the committed batches, and whoever
   observes it, by cursor or by wave, sees every revision once and in order,
   whatever edits, conflicts, batches and observers interleave. *)
HistoryIsObserved ==
    /\ [](HistoryExplainsCells /\ CursorsTrailTheirCell /\ GraphMissesNothing)
    /\ [][RevisionsGrow]_vars

(* Cells live exactly as long as their load, subscriptions as long as the call
   that made them, through failed loads, unloads and abandoned roots. *)
CellsFollowTheirLoads ==
    /\ TypeOK
    /\ StaleLocationsNeverResolve
    /\ RunningMeansComplete
    /\ SubscriptionsBelongToLiveCalls

-----------------------------------------------------------------------------
(***************************************************************************)
(* What holds in every state of Cells, for any packages, declarations,      *)
(* grants and bounds: cells and subscriptions follow their loads and calls  *)
(* (CellsFollowTheirLoads), and whoever observes the cells sees the history *)
(* of the committed batches (HistoryIsObserved).                            *)
(***************************************************************************)

Location(k) == [generation |-> generation, key |-> k]

(* The types, and what the steps need beside TypeOK: every edit adds one to what
   was read, so that the value of a snapshot is its revision. *)
OwnerTypes ==
    /\ phase \in {"down", "initializing", "up"}
    /\ generation \in Generations
    /\ owners \in [Plugins -> Nat] /\ nextIncarnation \in Nat \ {0}
    /\ initializing \in Plugins \cup {None} /\ initialized \subseteq Plugins

CellTypes ==
    /\ DOMAIN cells \subseteq Key
    /\ \A k \in DOMAIN cells : cells[k] \in Snapshot /\ cells[k].value = cells[k].revision
    /\ epoch \in Nat /\ commits \in Seq(SUBSET Key)

SubscriptionTypes ==
    /\ nextCursor \in Nat /\ DOMAIN subscriptions \subseteq 1..nextCursor
    /\ \A i \in DOMAIN subscriptions : subscriptions[i] \in Subscription

CallTypes ==
    /\ root \in Nat /\ rootLive \in BOOLEAN /\ nextRoot \in Nat
    /\ nextTicket \in Nat \ {0} /\ DOMAIN calls \subseteq 1..(nextTicket - 1)
    /\ \A t \in DOMAIN calls : calls[t] \in [caller: Plugins, revoked: BOOLEAN]

ClientTypes ==
    /\ known \subseteq ValueLocation /\ retired \subseteq known
    /\ DOMAIN drafts = Callers
    /\ \A c \in Callers :
         /\ DOMAIN drafts[c] \subseteq known
         /\ \A r \in DOMAIN drafts[c] : /\ drafts[c][r].revision \in Nat
                                        /\ drafts[c][r].value = drafts[c][r].revision

Shapes ==
    OwnerTypes /\ CellTypes /\ SubscriptionTypes /\ CallTypes /\ ClientTypes

(* A kernel that does not run has no root, no ticket and no subscription; one
   that is down has no cell and no owner either. *)
Stages ==
    /\ phase # "up" => root = 0 /\ ~rootLive /\ calls = Empty
    /\ phase = "down" => /\ cells = Empty /\ owners = [p \in Plugins |-> 0]
                         /\ initializing = None /\ initialized = {}
    /\ phase = "initializing" => epoch = 0
    /\ phase = "up" => initialized = Plugins
    /\ rootLive => root # 0
    /\ calls # Empty => root # 0

(* Incarnations are issued once: those of this load are in no earlier location. *)
Incarnations ==
    /\ phase # "down" => \A p \in Plugins : owners[p] # 0
    /\ \A p \in Plugins : owners[p] < nextIncarnation
    /\ \A r \in known : r.key.owner \in 1..(nextIncarnation - 1)
    /\ \A k \in DOMAIN cells : Location(k) \in known
    /\ \A r \in retired, p \in Plugins : r.key.owner # owners[p]

(* Cells are those of the incarnations, all of them once a plugin is initialized. *)
Declared ==
    /\ \A k \in DOMAIN cells : k.owner = owners[k.property.owner]
    /\ \A q \in Properties :
         q.owner \in initialized => [owner |-> owners[q.owner], property |-> q] \in DOMAIN cells

Inv ==
    /\ Shapes /\ Stages /\ Incarnations /\ Declared
    /\ SubscriptionsBelongToLiveCalls

LEMMA EmptyFacts == DOMAIN Empty = {} /\ <<>> \in Seq(SUBSET Key)
  BY DEF Empty

LEMMA PackagesTyped ==
    /\ Len(Packages) \in Nat /\ DOMAIN Packages = 1..Len(Packages)
    /\ \A p \in Plugins : (CHOOSE i \in DOMAIN Packages : Packages[i] = p) \in 1..Len(Packages)
<1>1. Len(Packages) \in Nat /\ DOMAIN Packages = 1..Len(Packages)
  BY PackagesAssumption
<1>2. \A p \in Plugins : (CHOOSE i \in DOMAIN Packages : Packages[i] = p) \in 1..Len(Packages)
  BY <1>1, Zenon DEF Plugins
<1> QED
  BY <1>1, <1>2

LEMMA InitInv == Init => Inv
<1> SUFFICES ASSUME Init PROVE Inv
  OBVIOUS
<1> USE EmptyFacts, GrantsAssumption DEF Init
<1>1. Shapes
  <2>1. OwnerTypes
    BY DEF OwnerTypes
  <2>2. CellTypes
    BY DEF CellTypes
  <2>3. SubscriptionTypes
    BY DEF SubscriptionTypes
  <2>5. CallTypes
    <3>1. rootLive \in BOOLEAN
      BY Zenon
    <3>2. root \in Nat /\ nextRoot \in Nat /\ nextTicket \in Nat \ {0}
      OBVIOUS
    <3>3. DOMAIN calls = {}
      OBVIOUS
    <3> QED
      BY ONLY <3>1, <3>2, <3>3 DEF CallTypes
  <2>4. ClientTypes
    <3>1. \A c \in Callers : DOMAIN drafts[c] = {}
      OBVIOUS
    <3>2. DOMAIN drafts = Callers
      OBVIOUS
    <3>3. known = {} /\ retired = {}
      OBVIOUS
    <3> QED
      BY ONLY <3>1, <3>2, <3>3 DEF ClientTypes
  <2> QED
    BY <2>1, <2>2, <2>3, <2>4, <2>5 DEF Shapes
<1>3. Stages
  BY DEF Stages
<1>4. Incarnations
  BY DEF Incarnations
<1>5. Declared
  BY DEF Declared
<1>6. SubscriptionsBelongToLiveCalls
  BY DEF SubscriptionsBelongToLiveCalls
<1> QED
  BY <1>1, <1>3, <1>4, <1>5, <1>6 DEF Inv

(***************************************************************************)
(* Extended functions.                                                      *)
(***************************************************************************)
LEMMA ExtendedFacts ==
  ASSUME NEW f, NEW x, NEW v
  PROVE  /\ DOMAIN Extended(f, x, v) = DOMAIN f \cup {x}
         /\ Extended(f, x, v)[x] = v
         /\ \A y \in DOMAIN f : y # x => Extended(f, x, v)[y] = f[y]
  BY DEF Extended
(***************************************************************************)
(* The steps, and what each of them leaves alone.                           *)
(***************************************************************************)
Begins == \E p \in Plugins : BeginInitialize(p)
Creates == \E q \in Properties : Create(q)
Unloads ==
    Down /\ (phase = "initializing" \/ (phase = "up" /\ root = 0 /\ calls = Empty))
Tickets == \E p \in Plugins : BeginTicket(p)
Revokes == \E t \in DOMAIN calls : RevokeTicket(t)
Releases == \E t \in DOMAIN calls : ReleaseTicket(t)

Frames == {0} \cup DOMAIN calls
Reads == \E c \in Callers : \E t \in Frames : \E r \in known : Read(c, t, r)
Subscribes == \E c \in Callers : \E t \in Frames : \E r \in known : Subscribe(c, t, r)
Edits == \E c \in Callers : \E t \in Frames : \E S \in SUBSET DOMAIN drafts[c] : Commit(c, t, S)
Nexts == \E c \in Callers : \E t \in Frames : \E i \in DOMAIN subscriptions : NextSnapshot(c, t, i)
Unsubscribes ==
    \E c \in Callers : \E t \in Frames : \E i \in DOMAIN subscriptions : Unsubscribe(c, t, i)

Steps ==
    \/ Load \/ AcceptInitialized \/ Unloads \/ Begins \/ Creates
    \/ AdmitRoot \/ DropRoot \/ Tickets \/ Revokes \/ Releases
    \/ Reads \/ Subscribes \/ Edits \/ Nexts \/ Unsubscribes \/ AdmitStateWave

LEMMA NextSteps == Next => Steps
<1> SUFFICES ASSUME Next PROVE Steps
  OBVIOUS
<1>1. CASE Lifecycle
  BY <1>1 DEF Lifecycle, Steps, Unloads, FailInitialize, Stop, Begins, Creates
<1>2. CASE CallStep
  BY <1>2 DEF CallStep, Steps, Tickets, Revokes, Releases
<1>3. CASE Request
  BY <1>3, Zenon DEF Request, Steps, Frames, Reads, Subscribes, Edits, Nexts, Unsubscribes
<1> QED
  BY <1>1, <1>2, <1>3 DEF Next, Steps

LEMMA StepFrames == Next =>
    /\ Load \/ AcceptInitialized \/ Unloads \/ Begins \/ UNCHANGED ownerVars
    /\ Load \/ Unloads \/ Creates \/ Edits \/ UNCHANGED cellVars
    /\ Load \/ Unloads \/ DropRoot \/ Revokes \/ Releases \/ Subscribes \/ Nexts
         \/ Unsubscribes \/ UNCHANGED subVars
    /\ Load \/ AdmitRoot \/ DropRoot \/ Tickets \/ Revokes \/ Releases \/ UNCHANGED callVars
    /\ Unloads \/ Creates \/ Reads \/ Edits \/ UNCHANGED clientVars
    /\ AdmitRoot \/ AdmitStateWave \/ UNCHANGED graph
<1> SUFFICES ASSUME Next PROVE
    /\ Load \/ AcceptInitialized \/ Unloads \/ Begins \/ UNCHANGED ownerVars
    /\ Load \/ Unloads \/ Creates \/ Edits \/ UNCHANGED cellVars
    /\ Load \/ Unloads \/ DropRoot \/ Revokes \/ Releases \/ Subscribes \/ Nexts
         \/ Unsubscribes \/ UNCHANGED subVars
    /\ Load \/ AdmitRoot \/ DropRoot \/ Tickets \/ Revokes \/ Releases \/ UNCHANGED callVars
    /\ Unloads \/ Creates \/ Reads \/ Edits \/ UNCHANGED clientVars
    /\ AdmitRoot \/ AdmitStateWave \/ UNCHANGED graph
  OBVIOUS
<1> USE DEF ownerVars, cellVars, subVars, callVars, clientVars
<1>1. CASE Load
  BY <1>1 DEF Load
<1>2. CASE AcceptInitialized
  BY <1>2 DEF AcceptInitialized
<1>3. CASE Unloads
  BY <1>3 DEF Unloads, Down
<1>4. CASE Begins
  BY <1>4 DEF Begins, BeginInitialize
<1>5. CASE Creates
  BY <1>5 DEF Creates, Create
<1>6. CASE AdmitRoot
  BY <1>6 DEF AdmitRoot
<1>7. CASE DropRoot
  BY <1>7 DEF DropRoot
<1>8. CASE Tickets
  BY <1>8 DEF Tickets, BeginTicket
<1>9. CASE Revokes
  BY <1>9 DEF Revokes, RevokeTicket
<1>10. CASE Releases
  BY <1>10 DEF Releases, ReleaseTicket
<1>11. CASE Reads
  BY <1>11 DEF Reads, Read
<1>12. CASE Subscribes
  BY <1>12 DEF Subscribes, Subscribe
<1>13. CASE Edits
  BY <1>13, Zenon DEF Edits, Commit
<1>14. CASE Nexts
  BY <1>14 DEF Nexts, NextSnapshot
<1>15. CASE Unsubscribes
  BY <1>15 DEF Unsubscribes, Unsubscribe
<1>16. CASE AdmitStateWave
  BY <1>16 DEF AdmitStateWave
<1> QED
  BY NextSteps, <1>1, <1>2, <1>3, <1>4, <1>5, <1>6, <1>7, <1>8, <1>9, <1>10, <1>11,
     <1>12, <1>13, <1>14, <1>15, <1>16 DEF Steps

(***************************************************************************)
(* Types.                                                                   *)
(***************************************************************************)
LEMMA RegisteredOwners ==
  ASSUME OwnerTypes, RegisterOwners
  PROVE  /\ owners' \in [Plugins -> Nat] /\ nextIncarnation' \in Nat \ {0}
         /\ \A p \in Plugins : owners'[p] >= nextIncarnation /\ owners'[p] < nextIncarnation'
         /\ nextIncarnation' >= nextIncarnation
<1> DEFINE At(p) == CHOOSE i \in DOMAIN Packages : Packages[i] = p
<1>1. \A p \in Plugins : At(p) \in 1..Len(Packages)
  BY PackagesTyped
<1>2. owners' = [p \in Plugins |-> nextIncarnation - 1 + At(p)]
  BY DEF RegisterOwners
<1>3. nextIncarnation' = nextIncarnation + Len(Packages) /\ Len(Packages) \in Nat
  BY PackagesTyped DEF RegisterOwners
<1>4. nextIncarnation \in Nat \ {0}
  BY DEF OwnerTypes
<1> HIDE DEF At
<1> QED
  BY ONLY <1>1, <1>2, <1>3, <1>4

LEMMA OwnerTypesKept == OwnerTypes /\ Next => OwnerTypes'
<1> SUFFICES ASSUME OwnerTypes, Next PROVE OwnerTypes'
  OBVIOUS
<1> USE DEF OwnerTypes
<1>1. CASE Load
  <2>1. /\ owners' \in [Plugins -> Nat] /\ nextIncarnation' \in Nat \ {0}
    BY <1>1, RegisteredOwners DEF Load
  <2> QED
    BY <1>1, <2>1 DEF Load
<1>2. CASE AcceptInitialized
  BY <1>2 DEF AcceptInitialized
<1>3. CASE Unloads
  BY <1>3 DEF Unloads, Down, Clear
<1>4. CASE Begins
  BY <1>4 DEF Begins, BeginInitialize
<1>5. CASE UNCHANGED ownerVars
  BY <1>5 DEF ownerVars
<1> QED
  BY <1>1, <1>2, <1>3, <1>4, <1>5, StepFrames

(* A batch leaves, in each cell it names, the next revision at the new epoch. *)
LEMMA EditedCells ==
  ASSUME Shapes, NEW c \in Callers, NEW t \in Frames, NEW S \in SUBSET DOMAIN drafts[c],
         Commit(c, t, S)
  PROVE  /\ phase = "up" /\ rootLive
         /\ \A r \in S : r \in ValueLocation /\ r.key \in DOMAIN cells
         /\ DOMAIN cells' = DOMAIN cells
         /\ \A k \in DOMAIN cells :
              /\ k \in {r.key : r \in S} =>
                   cells'[k] = [revision |-> cells[k].revision + 1, epoch |-> epoch + 1,
                                value |-> cells[k].revision + 1]
              /\ k \notin {r.key : r \in S} => cells'[k] = cells[k]
         /\ epoch' = epoch + 1 /\ commits' = Append(commits, {r.key : r \in S})
         /\ {r.key : r \in S} \in SUBSET Key
         /\ \A k \in DOMAIN cells :
              cells'[k] \in Snapshot /\ cells'[k].value = cells'[k].revision
<1>1. \A r \in S : r \in ValueLocation /\ r.key \in DOMAIN cells
  BY DEF Commit, Resolves, Shapes, ClientTypes
<1>2. DOMAIN cells' = DOMAIN cells
  BY DEF Commit
<1>3. \A r \in S : /\ drafts[c][r].revision = cells[r.key].revision
                    /\ drafts[c][r].value = drafts[c][r].revision
  BY DEF Commit, Unchanged, Cell, Shapes, ClientTypes
<1>4. \A r \in S : Committed(c, r) = [revision |-> cells[r.key].revision + 1,
                    epoch |-> epoch + 1, value |-> cells[r.key].revision + 1]
  BY <1>3 DEF Committed, Cell
<1>5. ASSUME NEW k \in DOMAIN cells, k \in {r.key : r \in S}
      PROVE  cells'[k] = [revision |-> cells[k].revision + 1, epoch |-> epoch + 1,
                          value |-> cells[k].revision + 1]
  <2>1. cells'[k] = Committed(c, CHOOSE r \in S : r.key = k)
    BY <1>5 DEF Commit
  <2>2. (CHOOSE r \in S : r.key = k) \in S /\ (CHOOSE r \in S : r.key = k).key = k
    BY <1>5
  <2> QED
    BY <2>1, <2>2, <1>4
<1>6. ASSUME NEW k \in DOMAIN cells, k \notin {r.key : r \in S}
      PROVE  cells'[k] = cells[k]
  BY <1>6 DEF Commit
<1>7. epoch' = epoch + 1 /\ commits' = Append(commits, {r.key : r \in S})
  BY DEF Commit
<1>8. phase = "up" /\ rootLive
  BY DEF Commit, Frame
<1>9. {r.key : r \in S} \in SUBSET Key
  BY <1>1 DEF ValueLocation
<1>10. ASSUME NEW k \in DOMAIN cells
       PROVE  cells'[k] \in Snapshot /\ cells'[k].value = cells'[k].revision
  <2>1. /\ cells[k] \in Snapshot /\ cells[k].revision \in Nat
        /\ cells[k].value = cells[k].revision /\ epoch \in Nat
    BY DEF Shapes, CellTypes, Snapshot
  <2>2. CASE k \in {r.key : r \in S}
    <3>1. cells'[k] = [revision |-> cells[k].revision + 1, epoch |-> epoch + 1,
                       value |-> cells[k].revision + 1]
      BY ONLY <2>2, <1>5
    <3> QED
      BY ONLY <2>1, <3>1 DEF Snapshot
  <2>3. CASE k \notin {r.key : r \in S}
    BY <2>1, <2>3, <1>6
  <2> QED
    BY <2>2, <2>3
<1> QED
  BY <1>1, <1>2, <1>5, <1>6, <1>7, <1>8, <1>9, <1>10

LEMMA CellTypesKept == Shapes /\ Next => CellTypes'
<1> SUFFICES ASSUME Shapes, Next PROVE CellTypes'
  OBVIOUS
<1> USE DEF Shapes, CellTypes
<1>1. CASE Load \/ Unloads
  <2>1. cells' = Empty
    BY <1>1 DEF Load, Unloads, Down, Clear
  <2>2. epoch' \in Nat /\ commits' \in Seq(SUBSET Key)
    <3>1. CASE Load
      BY <3>1, EmptyFacts DEF Load
    <3>2. CASE Unloads
      BY <3>2 DEF Unloads, Down
    <3> QED
      BY <1>1, <3>1, <3>2
  <2> QED
    BY <2>1, <2>2, EmptyFacts
<1>2. CASE Creates
  <2>1. PICK q \in Properties : Create(q)
    BY <1>2 DEF Creates
  <2> DEFINE key == [owner |-> owners[q.owner], property |-> q]
             new == [revision |-> 0, epoch |-> 0, value |-> 0]
  <2>2. key \in Key /\ new \in Snapshot /\ new.value = new.revision
    BY PropertiesAssumption DEF Key, OwnerTypes, Snapshot
  <2>3. cells' = Extended(cells, key, new)
    BY <2>1 DEF Create
  <2>4. epoch' = epoch /\ commits' = commits
    BY <2>1 DEF Create
  <2> HIDE DEF key, new
  <2>5. DOMAIN cells' = DOMAIN cells \cup {key}
    BY <2>3, ExtendedFacts
  <2>6. \A k \in DOMAIN cells' : cells'[k] = IF k = key THEN new ELSE cells[k]
    BY ONLY <2>3 DEF Extended
  <2>7. \A k \in DOMAIN cells' : cells'[k] \in Snapshot /\ cells'[k].value = cells'[k].revision
    BY <2>2, <2>5, <2>6
  <2> QED
    BY <2>2, <2>4, <2>5, <2>7
<1>3. CASE Edits
  <2>0. PICK c \in Callers, t \in Frames : \E S \in SUBSET DOMAIN drafts[c] : Commit(c, t, S)
    BY <1>3 DEF Edits
  <2>1. PICK S \in SUBSET DOMAIN drafts[c] : Commit(c, t, S)
    BY <2>0
  <2> DEFINE keys == {r.key : r \in S}
  <2>2. /\ DOMAIN cells' = DOMAIN cells /\ keys \in SUBSET Key
        /\ epoch' = epoch + 1 /\ commits' = Append(commits, keys)
    BY <2>1, EditedCells
  <2>3. ASSUME NEW k \in DOMAIN cells
        PROVE  cells'[k] \in Snapshot /\ cells'[k].value = cells'[k].revision
    BY <2>1, EditedCells
  <2> HIDE DEF keys
  <2> QED
    BY <2>2, <2>3
<1>4. CASE UNCHANGED cellVars
  BY <1>4 DEF cellVars
<1> QED
  BY <1>1, <1>2, <1>3, <1>4, StepFrames

(* Whatever ends a call only takes subscriptions away. *)
LEMMA Thinned ==
  ASSUME DropRoot \/ Revokes \/ Releases \/ Unsubscribes
  PROVE  /\ nextCursor' = nextCursor /\ DOMAIN subscriptions' \subseteq DOMAIN subscriptions
         /\ \A i \in DOMAIN subscriptions' : subscriptions'[i] = subscriptions[i]
<1>1. nextCursor' = nextCursor
  BY DEF DropRoot, Revokes, RevokeTicket, Releases, ReleaseTicket, Unsubscribes, Unsubscribe
<1>2. subscriptions' = subscriptions \/ \E S : subscriptions' = Restricted(subscriptions, S)
  <2>1. CASE DropRoot
    BY <2>1 DEF DropRoot
  <2>2. CASE Revokes
    BY <2>2 DEF Revokes, RevokeTicket, WithoutTicket
  <2>3. CASE Releases
    BY <2>3 DEF Releases, ReleaseTicket, ReleaseSubscriptions, WithoutTicket
  <2>4. CASE Unsubscribes
    BY <2>4 DEF Unsubscribes, Unsubscribe
  <2> QED
    BY <2>1, <2>2, <2>3, <2>4
<1>3. /\ DOMAIN subscriptions' \subseteq DOMAIN subscriptions
      /\ \A i \in DOMAIN subscriptions' : subscriptions'[i] = subscriptions[i]
  BY ONLY <1>2 DEF Restricted
<1> QED
  BY <1>1, <1>3

(* A new subscription starts at the revision of its live cell. *)
LEMMA Subscribed ==
  ASSUME NEW c \in Callers, NEW t \in Frames, NEW r \in known, Subscribe(c, t, r)
  PROVE  /\ nextCursor' = nextCursor + 1
         /\ DOMAIN subscriptions' = DOMAIN subscriptions \cup {nextCursor + 1}
         /\ subscriptions'[nextCursor + 1] =
              [root |-> root, caller |-> c, ticket |-> t, location |-> r,
               revision |-> Cell(r).revision]
         /\ \A i \in DOMAIN subscriptions :
              i # nextCursor + 1 => subscriptions'[i] = subscriptions[i]
<1> DEFINE s == [root |-> root, caller |-> c, ticket |-> t, location |-> r,
                 revision |-> Cell(r).revision]
<1>1. nextCursor' = nextCursor + 1
  BY DEF Subscribe, TakeCursor
<1>2. subscriptions' = Extended(subscriptions, nextCursor + 1, s)
  BY DEF Subscribe
<1> HIDE DEF s
<1>3. /\ DOMAIN subscriptions' = DOMAIN subscriptions \cup {nextCursor + 1}
      /\ subscriptions'[nextCursor + 1] = s
      /\ \A i \in DOMAIN subscriptions :
           i # nextCursor + 1 => subscriptions'[i] = subscriptions[i]
  BY ONLY <1>2 DEF Extended
<1> QED
  BY <1>1, <1>3 DEF s

(* A cursor that is read moves to the revision of its cell. *)
LEMMA Advanced ==
  ASSUME SubscriptionTypes, NEW c \in Callers, NEW t \in Frames, NEW j \in DOMAIN subscriptions,
         NextSnapshot(c, t, j)
  PROVE  /\ nextCursor' = nextCursor /\ DOMAIN subscriptions' = DOMAIN subscriptions
         /\ \A i \in DOMAIN subscriptions :
              /\ i # j => subscriptions'[i] = subscriptions[i]
              /\ subscriptions'[i].root = subscriptions[i].root
              /\ subscriptions'[i].caller = subscriptions[i].caller
              /\ subscriptions'[i].ticket = subscriptions[i].ticket
              /\ subscriptions'[i].location = subscriptions[i].location
         /\ subscriptions'[j].revision = Cell(subscriptions[j].location).revision
         /\ Cell(subscriptions[j].location).revision \in Nat =>
              subscriptions'[j] \in Subscription
<1>1. subscriptions' =
        [subscriptions EXCEPT ![j] = [@ EXCEPT !.revision = Cell(subscriptions[j].location).revision]]
  BY DEF NextSnapshot, Reported
<1>2. subscriptions[j] \in Subscription
  BY DEF SubscriptionTypes
<1> DEFINE s == [subscriptions[j] EXCEPT !.revision = Cell(subscriptions[j].location).revision]
<1>3. /\ s.root = subscriptions[j].root /\ s.caller = subscriptions[j].caller
      /\ s.ticket = subscriptions[j].ticket /\ s.location = subscriptions[j].location
      /\ s.revision = Cell(subscriptions[j].location).revision
      /\ Cell(subscriptions[j].location).revision \in Nat => s \in Subscription
  BY <1>2 DEF Subscription
<1>4. /\ DOMAIN subscriptions' = DOMAIN subscriptions
      /\ subscriptions'[j] = s
      /\ \A i \in DOMAIN subscriptions : i # j => subscriptions'[i] = subscriptions[i]
  BY <1>1
<1>5. nextCursor' = nextCursor
  BY DEF NextSnapshot
<1> HIDE DEF s
<1> QED
  BY <1>3, <1>4, <1>5

LEMMA SubscriptionTypesKept == Shapes /\ Next => SubscriptionTypes'
<1> SUFFICES ASSUME Shapes, Next PROVE SubscriptionTypes'
  OBVIOUS
<1> USE DEF Shapes, SubscriptionTypes
<1>1. CASE Load \/ Unloads
  <2>1. subscriptions' = Empty
    BY <1>1 DEF Load, Unloads, Down, Clear
  <2>2. nextCursor' \in Nat
    BY <1>1 DEF Load, Unloads, Down
  <2> QED
    BY <2>1, <2>2, EmptyFacts
<1>2. CASE DropRoot \/ Revokes \/ Releases \/ Unsubscribes
  BY <1>2, Thinned
<1>3. CASE Subscribes
  <2>1. PICK c \in Callers, t \in Frames : \E r \in known : Subscribe(c, t, r)
    BY <1>3 DEF Subscribes
  <2>2. PICK r \in known : Subscribe(c, t, r)
    BY <2>1
  <2>3. r \in ValueLocation /\ t \in Nat /\ Resolves(r)
    BY <2>2 DEF ClientTypes, CallTypes, Frames, Subscribe
  <2>4. Cell(r).revision \in Nat
    BY <2>3 DEF Cell, Resolves, CellTypes, Snapshot
  <2>5. [root |-> root, caller |-> c, ticket |-> t, location |-> r,
         revision |-> Cell(r).revision] \in Subscription
    BY <2>3, <2>4 DEF Subscription, CallTypes
  <2> QED
    BY <2>2, <2>5, Subscribed
<1>4. CASE Nexts
  <2>1. PICK c \in Callers, t \in Frames, j \in DOMAIN subscriptions : NextSnapshot(c, t, j)
    BY <1>4 DEF Nexts
  <2>2. Cell(subscriptions[j].location).revision \in Nat
    BY <2>1 DEF NextSnapshot, OwnsCursor, Cell, Resolves, CellTypes, Snapshot
  <2> QED
    BY <2>1, <2>2, Advanced
<1>5. CASE UNCHANGED subVars
  BY <1>5 DEF subVars
<1> QED
  BY <1>1, <1>2, <1>3, <1>4, <1>5, StepFrames

LEMMA CallTypesKept == Shapes /\ Next => CallTypes'
<1> SUFFICES ASSUME Shapes, Next PROVE CallTypes'
  OBVIOUS
<1> USE DEF Shapes, CallTypes
<1>1. CASE Load
  BY <1>1 DEF Load
<1>2. CASE AdmitRoot
  BY <1>2 DEF AdmitRoot
<1>3. CASE DropRoot
  BY <1>3 DEF DropRoot
<1>4. CASE Tickets
  <2>1. PICK p \in Plugins : BeginTicket(p)
    BY <1>4 DEF Tickets
  <2> DEFINE call == [caller |-> p, revoked |-> FALSE]
  <2>2. call \in [caller: Plugins, revoked: BOOLEAN]
    OBVIOUS
  <2>3. calls' = Extended(calls, nextTicket, call)
    BY <2>1 DEF BeginTicket
  <2> HIDE DEF call
  <2>4. DOMAIN calls' = DOMAIN calls \cup {nextTicket}
    BY ONLY <2>3 DEF Extended
  <2>5. \A t \in DOMAIN calls' : calls'[t] \in {call} \cup {calls[u] : u \in DOMAIN calls}
    BY ONLY <2>3 DEF Extended
  <2>6. /\ nextTicket' = nextTicket + 1 /\ root' = root /\ rootLive' = rootLive
        /\ nextRoot' = nextRoot
    BY <2>1 DEF BeginTicket
  <2> QED
    BY <2>2, <2>4, <2>5, <2>6
<1>5. CASE Revokes
  <2>1. PICK t \in DOMAIN calls : RevokeTicket(t)
    BY <1>5 DEF Revokes
  <2>2. calls' = [calls EXCEPT ![t] = [@ EXCEPT !.revoked = TRUE]]
    BY <2>1 DEF RevokeTicket
  <2>3. [calls[t] EXCEPT !.revoked = TRUE] \in [caller: Plugins, revoked: BOOLEAN]
    OBVIOUS
  <2> QED
    BY <2>1, <2>2, <2>3 DEF RevokeTicket
<1>6. CASE Releases
  <2>1. PICK t \in DOMAIN calls : ReleaseTicket(t)
    BY <1>6 DEF Releases
  <2>2. /\ DOMAIN calls' \subseteq DOMAIN calls
        /\ \A u \in DOMAIN calls' : calls'[u] = calls[u]
    BY <2>1 DEF ReleaseTicket, Restricted
  <2>3. root' \in Nat /\ rootLive' = rootLive /\ nextRoot' = nextRoot /\ nextTicket' = nextTicket
    BY <2>1 DEF ReleaseTicket
  <2> QED
    BY <2>2, <2>3
<1>7. CASE UNCHANGED callVars
  BY <1>7 DEF callVars
<1> QED
  BY <1>1, <1>2, <1>3, <1>4, <1>5, <1>6, <1>7, StepFrames

LEMMA ClientTypesKept == Shapes /\ Incarnations /\ Next => ClientTypes'
<1> SUFFICES ASSUME Shapes, Incarnations, Next PROVE ClientTypes'
  OBVIOUS
<1> USE DEF Shapes
<1>1. CASE Unloads
  <2>1. known' = known /\ retired' \subseteq known
    BY <1>1 DEF Unloads, Down, Incarnations, Location, ClientTypes
  <2>2. drafts' = [c \in Callers |-> IF c = Root THEN drafts[c] ELSE Empty]
    BY <1>1 DEF Unloads, Down
  <2> QED
    BY <2>1, <2>2, EmptyFacts DEF ClientTypes
<1>2. CASE Creates
  <2>1. PICK q \in Properties : Create(q)
    BY <1>2 DEF Creates
  <2> DEFINE loc == [generation |-> generation,
                     key |-> [owner |-> owners[q.owner], property |-> q]]
  <2>2. loc \in ValueLocation
    BY PropertiesAssumption DEF ValueLocation, Key, OwnerTypes
  <2>3. known' = known \cup {loc} /\ drafts' = drafts /\ retired' = retired
    BY <2>1 DEF Create
  <2> HIDE DEF loc
  <2> QED
    BY <2>2, <2>3 DEF ClientTypes
<1>3. CASE Reads
  <2>1. PICK c \in Callers, t \in Frames, r \in known : Read(c, t, r)
    BY <1>3 DEF Reads
  <2>2. cells[r.key] \in Snapshot /\ cells[r.key].value = cells[r.key].revision
    BY <2>1 DEF Read, Resolves, CellTypes
  <2> DEFINE draft == [revision |-> Cell(r).revision, value |-> Cell(r).value]
  <2>3. /\ known' = known /\ retired' = retired
        /\ drafts' = [drafts EXCEPT ![c] = Extended(@, r, draft)]
    BY <2>1 DEF Read
  <2>4. draft.revision \in Nat /\ draft.value = draft.revision
    BY <2>1, <2>2 DEF Snapshot, Cell
  <2> HIDE DEF draft
  <2>5. DOMAIN drafts' = Callers /\ \A d \in Callers :
          drafts'[d] = IF d = c THEN Extended(drafts[c], r, draft) ELSE drafts[d]
    BY <2>3 DEF ClientTypes
  <2>6. /\ DOMAIN Extended(drafts[c], r, draft) = DOMAIN drafts[c] \cup {r}
        /\ \A x \in DOMAIN drafts[c] \cup {r} :
             Extended(drafts[c], r, draft)[x] = IF x = r THEN draft ELSE drafts[c][x]
    BY DEF Extended
  <2> QED
    BY <2>3, <2>4, <2>5, <2>6 DEF ClientTypes
<1>4. CASE Edits
  <2>0. PICK c \in Callers, t \in Frames : \E S \in SUBSET DOMAIN drafts[c] : Commit(c, t, S)
    BY <1>4 DEF Edits
  <2>1. PICK S \in SUBSET DOMAIN drafts[c] : Commit(c, t, S)
    BY <2>0
  <2>2. /\ known' = known /\ retired' = retired
        /\ drafts' = [drafts EXCEPT ![c] = [r \in DOMAIN @ |->
             IF r \in S
             THEN [revision |-> cells'[r.key].revision, value |-> cells'[r.key].value]
             ELSE @[r]]]
    BY <2>1 DEF Commit
  <2>3. \A r \in S : /\ cells'[r.key].revision \in Nat
                      /\ cells'[r.key].value = cells'[r.key].revision
    <3>1. \A r \in S : r.key \in DOMAIN cells
      BY <2>1, EditedCells
    <3>2. \A k \in DOMAIN cells :
            cells'[k] \in Snapshot /\ cells'[k].value = cells'[k].revision
      BY <2>1, EditedCells
    <3> QED
      BY <3>1, <3>2 DEF Snapshot
  <2>4. DOMAIN drafts' = Callers /\ \A d \in Callers : d # c => drafts'[d] = drafts[d]
    BY <2>2 DEF ClientTypes
  <2>5. DOMAIN drafts'[c] = DOMAIN drafts[c] /\ \A r \in DOMAIN drafts[c] : drafts'[c][r] =
          IF r \in S
          THEN [revision |-> cells'[r.key].revision, value |-> cells'[r.key].value]
          ELSE drafts[c][r]
    BY <2>2 DEF ClientTypes
  <2>6. \A r \in DOMAIN drafts'[c] : /\ drafts'[c][r].revision \in Nat
                                      /\ drafts'[c][r].value = drafts'[c][r].revision
    <3> SUFFICES ASSUME NEW r \in DOMAIN drafts'[c]
                 PROVE  /\ drafts'[c][r].revision \in Nat
                        /\ drafts'[c][r].value = drafts'[c][r].revision
      OBVIOUS
    <3>1. CASE r \in S
      <4>1. drafts'[c][r] = [revision |-> cells'[r.key].revision, value |-> cells'[r.key].value]
        BY <3>1, <2>5
      <4>2. cells'[r.key].revision \in Nat /\ cells'[r.key].value = cells'[r.key].revision
        BY <3>1, <2>3
      <4> QED
        BY ONLY <4>1, <4>2
    <3>2. CASE r \notin S
      BY <3>2, <2>5, ZenonT(40) DEF ClientTypes
    <3> QED
      BY <3>1, <3>2
  <2> QED
    BY <2>2, <2>4, <2>5, <2>6 DEF ClientTypes
<1>5. CASE UNCHANGED clientVars
  BY <1>5 DEF clientVars, ClientTypes
<1> QED
  BY <1>1, <1>2, <1>3, <1>4, <1>5, StepFrames

LEMMA ShapesKept == Shapes /\ Incarnations /\ Next => Shapes'
  BY OwnerTypesKept, CellTypesKept, SubscriptionTypesKept, CallTypesKept, ClientTypesKept
     DEF Shapes

LEMMA ShapesTyped == Shapes => TypeOK
  BY DEF Shapes, OwnerTypes, CellTypes, SubscriptionTypes, CallTypes, ClientTypes, TypeOK

(***************************************************************************)
(* Loads, initialization and unloading.                                     *)
(***************************************************************************)

(* A root, a ticket or a request is a step of a running kernel. *)
LEMMA RunningSteps ==
  ASSUME Shapes, Stages,
         AdmitRoot \/ DropRoot \/ Tickets \/ Revokes \/ Releases \/ Reads \/ Subscribes
           \/ Edits \/ Nexts \/ Unsubscribes \/ AdmitStateWave
  PROVE  phase = "up" /\ UNCHANGED ownerVars
<1> USE DEF Stages, ownerVars
<1>1. CASE AdmitRoot
  BY <1>1 DEF AdmitRoot
<1>2. CASE DropRoot
  BY <1>2 DEF DropRoot
<1>3. CASE Tickets
  BY <1>3 DEF Tickets, BeginTicket
<1>4. CASE Revokes
  BY <1>4, EmptyFacts DEF Revokes, RevokeTicket
<1>5. CASE Releases
  BY <1>5, EmptyFacts DEF Releases, ReleaseTicket
<1>6. CASE Reads
  BY <1>6 DEF Reads, Read, Frame
<1>7. CASE Subscribes
  BY <1>7 DEF Subscribes, Subscribe, Frame
<1>8. CASE Edits
  BY <1>8 DEF Edits, Commit, Frame
<1>9. CASE Nexts
  BY <1>9 DEF Nexts, NextSnapshot, OwnsCursor, Frame
<1>10. CASE Unsubscribes
  BY <1>10 DEF Unsubscribes, Unsubscribe, OwnsCursor, Frame
<1>11. CASE AdmitStateWave
  BY <1>11 DEF AdmitStateWave
<1> QED
  BY <1>1, <1>2, <1>3, <1>4, <1>5, <1>6, <1>7, <1>8, <1>9, <1>10, <1>11

LEMMA StagesKept == Shapes /\ Stages /\ Next => Stages'
<1> SUFFICES ASSUME Shapes, Stages, Next PROVE Stages'
  OBVIOUS
<1> USE DEF Stages
<1>1. CASE Load
  BY <1>1 DEF Load
<1>2. CASE AcceptInitialized
  BY <1>2 DEF AcceptInitialized, cellVars, callVars
<1>3. CASE Unloads
  BY <1>3 DEF Unloads, Down, Clear, callVars
<1>4. CASE Begins
  BY <1>4 DEF Begins, BeginInitialize, cellVars, callVars
<1>5. CASE Creates
  BY <1>5 DEF Creates, Create, ownerVars, callVars
<1>6. CASE AdmitRoot \/ DropRoot \/ Tickets \/ Revokes \/ Releases
  <2>1. phase = "up" /\ UNCHANGED ownerVars
    BY <1>6, RunningSteps
  <2>2. (rootLive' => root' # 0) /\ (calls' # Empty => root' # 0)
    <3> USE DEF Shapes, CallTypes
    <3>1. CASE AdmitRoot
      BY <3>1 DEF AdmitRoot
    <3>2. CASE DropRoot
      BY <3>2 DEF DropRoot
    <3>3. CASE Tickets
      BY <3>3 DEF Tickets, BeginTicket
    <3>4. CASE Revokes
      BY <3>4, EmptyFacts DEF Revokes, RevokeTicket
    <3>5. CASE Releases
      BY <3>5, EmptyFacts DEF Releases, ReleaseTicket
    <3> QED
      BY <1>6, <3>1, <3>2, <3>3, <3>4, <3>5
  <2> QED
    BY <2>1, <2>2 DEF ownerVars
<1>7. CASE Reads \/ Subscribes \/ Edits \/ Nexts \/ Unsubscribes \/ AdmitStateWave
  <2>1. phase = "up" /\ UNCHANGED ownerVars
    BY <1>7, RunningSteps
  <2>2. UNCHANGED callVars
    BY <1>7 DEF Reads, Read, Subscribes, Subscribe, Edits, Commit, Nexts, NextSnapshot,
                Unsubscribes, Unsubscribe, AdmitStateWave
  <2> QED
    BY <2>1, <2>2 DEF ownerVars, callVars
<1> QED
  BY <1>1, <1>2, <1>3, <1>4, <1>5, <1>6, <1>7, NextSteps DEF Steps

LEMMA CellsStay ==
  ASSUME AdmitRoot \/ DropRoot \/ Tickets \/ Revokes \/ Releases \/ Reads \/ Subscribes
           \/ Edits \/ Nexts \/ Unsubscribes \/ AdmitStateWave
  PROVE  DOMAIN cells' = DOMAIN cells
  BY DEF AdmitRoot, DropRoot, Tickets, BeginTicket, Revokes, RevokeTicket, Releases,
         ReleaseTicket, Reads, Read, Subscribes, Subscribe, Edits, Commit, Nexts, NextSnapshot,
         Unsubscribes, Unsubscribe, AdmitStateWave, cellVars

LEMMA IncarnationsKept == Shapes /\ Stages /\ Incarnations /\ Next => Incarnations'
<1> SUFFICES ASSUME Shapes, Stages, Incarnations, Next PROVE Incarnations'
  OBVIOUS
<1> USE DEF Shapes, OwnerTypes, Incarnations
<1>1. CASE Load
  <2>1. /\ \A p \in Plugins : owners'[p] >= nextIncarnation /\ owners'[p] < nextIncarnation'
        /\ owners' \in [Plugins -> Nat] /\ nextIncarnation' \in Nat
        /\ nextIncarnation' >= nextIncarnation
    BY <1>1, RegisteredOwners DEF Load
  <2>2. known' = known /\ retired' = retired /\ cells' = Empty
    BY <1>1 DEF Load, clientVars
  <2>3. \A r \in retired : r.key.owner < nextIncarnation /\ r.key.owner \in Nat
    BY DEF ClientTypes
  <2>4. \A r \in known : r.key.owner \in 1..(nextIncarnation' - 1)
    BY <2>1
  <2>5. \A p \in Plugins : owners'[p] # 0
    BY <2>1
  <2>6. \A r \in retired, p \in Plugins : r.key.owner # owners'[p]
    BY <2>1, <2>3
  <2> QED
    BY <2>1, <2>2, <2>4, <2>5, <2>6, EmptyFacts
<1>2. CASE AcceptInitialized
  BY <1>2 DEF AcceptInitialized, cellVars, clientVars, Location
<1>3. CASE Unloads
  <2>1. /\ phase' = "down" /\ cells' = Empty /\ owners' = [p \in Plugins |-> 0]
        /\ nextIncarnation' = nextIncarnation /\ known' = known
        /\ retired' = retired \cup {Location(k) : k \in DOMAIN cells}
    BY <1>3 DEF Unloads, Down, Clear, Location
  <2>2. retired' \subseteq known
    BY <2>1 DEF ClientTypes
  <2> QED
    BY <2>1, <2>2, EmptyFacts
<1>4. CASE Begins
  BY <1>4 DEF Begins, BeginInitialize, cellVars, clientVars, Location
<1>5. CASE Creates
  <2>1. PICK q \in Properties : Create(q)
    BY <1>5 DEF Creates
  <2> DEFINE key == [owner |-> owners[q.owner], property |-> q]
  <2>2. /\ DOMAIN cells' = DOMAIN cells \cup {key} /\ known' = known \cup {Location(key)}
        /\ retired' = retired
    <3>1. \E new : cells' = Extended(cells, key, new)
      BY <2>1 DEF Create
    <3>2. known' = known \cup {Location(key)} /\ retired' = retired
      BY <2>1 DEF Create, Location
    <3> HIDE DEF key
    <3>3. DOMAIN cells' = DOMAIN cells \cup {key}
      BY ONLY <3>1 DEF Extended
    <3> QED
      BY <3>2, <3>3
  <2>3. UNCHANGED ownerVars /\ phase = "initializing"
    BY <2>1 DEF Create
  <2>4. key.owner \in 1..(nextIncarnation - 1)
    BY <2>3, PropertiesAssumption
  <2>5. Location(key).key.owner = key.owner
    BY DEF Location
  <2> HIDE DEF key
  <2>6. \A k \in DOMAIN cells' : Location(k)' \in known'
    BY <2>2, <2>3 DEF Location, ownerVars
  <2> QED
    BY <2>2, <2>3, <2>4, <2>5, <2>6 DEF ownerVars
<1>6. CASE AdmitRoot \/ DropRoot \/ Tickets \/ Revokes \/ Releases \/ Reads \/ Subscribes
           \/ Edits \/ Nexts \/ Unsubscribes \/ AdmitStateWave
  <2>1. UNCHANGED ownerVars
    BY <1>6, RunningSteps
  <2>2. known' = known /\ retired' = retired
    BY <1>6 DEF AdmitRoot, DropRoot, Tickets, BeginTicket, Revokes, RevokeTicket, Releases,
         ReleaseTicket, Reads, Read, Subscribes, Subscribe, Edits, Commit, Nexts, NextSnapshot,
         Unsubscribes, Unsubscribe, AdmitStateWave, clientVars
  <2>3. DOMAIN cells' = DOMAIN cells
    BY <1>6, CellsStay
  <2> QED
    BY <2>1, <2>2, <2>3 DEF ownerVars, Location
<1> QED
  BY <1>1, <1>2, <1>3, <1>4, <1>5, <1>6, NextSteps DEF Steps

(* The initialized plugins are those that created all their cells: as many
   cells as declarations, each of one of them. *)
LEMMA CreatedAll ==
  ASSUME Shapes, Declared, NEW p \in Plugins, HasCreatedAll(p),
         NEW q \in Properties, q.owner = p
  PROVE  [owner |-> owners[p], property |-> q] \in DOMAIN cells
<1> DEFINE C == {k \in DOMAIN cells : k.property.owner = p}
           Q == {x \in Properties : x.owner = p}
           D == {k.property : k \in C}
           prop == [k \in C |-> k.property]
<1>1. IsFiniteSet(Q)
  BY PropertiesAssumption, FS_Subset
<1>2. \A k \in C : k \in Key /\ k.owner = owners[p] /\ k.property \in Q
  BY DEF Shapes, CellTypes, Declared, Key
<1>3. D \subseteq Q
  BY <1>2
<1>4. IsFiniteSet(D)
  BY <1>1, <1>3, FS_Subset
<1>5. prop \in Bijection(C, D)
  <2>1. \A a, b \in C : a.property = b.property => a = b
    BY <1>2 DEF Key
  <2>2. prop \in [C -> D] /\ \A y \in D : \E k \in C : prop[k] = y
    OBVIOUS
  <2> QED
    BY <2>1, <2>2 DEF Bijection, Injection, Surjection, IsInjective
<1>6. Cardinality(C) = Cardinality(D)
  <2>1. ExistsBijection(C, D)
    BY <1>5 DEF ExistsBijection
  <2>2. ExistsBijection(D, C)
    BY <2>1, Fun_ExistsBijSymmetric
  <2> QED
    BY <1>4, <2>2, FS_Bijection
<1>7. Cardinality(D) = Cardinality(Q)
  BY <1>6 DEF HasCreatedAll
<1>8. D = Q
  BY <1>1, <1>3, <1>7, FS_Subset
<1>9. PICK k \in C : k.property = q
  BY <1>8
<1>10. k = [owner |-> owners[p], property |-> q]
  BY <1>2, <1>9 DEF Key
<1> QED
  BY <1>9, <1>10

LEMMA DeclaredKept == Shapes /\ Stages /\ Declared /\ Next => Declared'
<1> SUFFICES ASSUME Shapes, Stages, Declared, Next PROVE Declared'
  OBVIOUS
<1> USE DEF Declared
<1>1. CASE Load \/ Unloads
  <2>1. cells' = Empty /\ initialized' = {}
    BY <1>1 DEF Load, Unloads, Down, Clear, Stages
  <2> QED
    BY <2>1, EmptyFacts
<1>2. CASE AcceptInitialized
  <2>1. /\ initialized' = initialized \cup {initializing} /\ initializing \in Plugins
        /\ cells' = cells /\ owners' = owners /\ HasCreatedAll(initializing)
    BY <1>2 DEF AcceptInitialized, cellVars, Shapes, OwnerTypes
  <2>2. \A q \in Properties :
          q.owner = initializing => [owner |-> owners[q.owner], property |-> q] \in DOMAIN cells
    BY <2>1, CreatedAll
  <2> QED
    BY <2>1, <2>2
<1>3. CASE Begins
  BY <1>3 DEF Begins, BeginInitialize, cellVars
<1>4. CASE Creates
  <2>1. PICK q \in Properties : Create(q)
    BY <1>4 DEF Creates
  <2> DEFINE key == [owner |-> owners[q.owner], property |-> q]
  <2>2. \E new : cells' = Extended(cells, key, new)
    BY <2>1 DEF Create
  <2>3. key.owner = owners[key.property.owner]
    OBVIOUS
  <2> HIDE DEF key
  <2>4. DOMAIN cells' = DOMAIN cells \cup {key}
    BY ONLY <2>2 DEF Extended
  <2>5. owners' = owners /\ initialized' = initialized
    BY <2>1 DEF Create, ownerVars
  <2> QED
    BY <2>3, <2>4, <2>5
<1>5. CASE AdmitRoot \/ DropRoot \/ Tickets \/ Revokes \/ Releases \/ Reads \/ Subscribes
           \/ Edits \/ Nexts \/ Unsubscribes \/ AdmitStateWave
  <2>1. UNCHANGED ownerVars
    BY <1>5, RunningSteps
  <2>2. DOMAIN cells' = DOMAIN cells
    BY <1>5, CellsStay
  <2> QED
    BY <2>1, <2>2 DEF ownerVars
<1> QED
  BY <1>1, <1>2, <1>3, <1>4, <1>5, NextSteps DEF Steps

(***************************************************************************)
(* Subscriptions.                                                           *)
(***************************************************************************)
LEMMA SubscriptionsKept ==
    Shapes /\ Stages /\ SubscriptionsBelongToLiveCalls /\ Next => SubscriptionsBelongToLiveCalls'
<1> SUFFICES ASSUME Shapes, Stages, SubscriptionsBelongToLiveCalls, Next
             PROVE  SubscriptionsBelongToLiveCalls'
  OBVIOUS
<1> USE DEF SubscriptionsBelongToLiveCalls, Shapes
<1>1. CASE Load \/ Unloads
  <2>1. subscriptions' = Empty
    BY <1>1 DEF Load, Unloads, Down, Clear
  <2> QED
    BY <2>1, EmptyFacts
<1>2. CASE AdmitRoot
  <2>1. DOMAIN subscriptions = {} /\ subscriptions' = subscriptions
    BY <1>2 DEF AdmitRoot, Stages, subVars
  <2> QED
    BY <2>1
<1>3. CASE DropRoot
  <2>1. DOMAIN subscriptions' = {}
    BY <1>3 DEF DropRoot, Restricted
  <2> QED
    BY <2>1
<1>4. CASE Tickets
  <2>1. PICK p \in Plugins : BeginTicket(p)
    BY <1>4 DEF Tickets
  <2>2. /\ subscriptions' = subscriptions /\ root' = root /\ rootLive' = rootLive
        /\ \E call : calls' = Extended(calls, nextTicket, call)
    BY <2>1 DEF BeginTicket, subVars
  <2>3. nextTicket \notin DOMAIN calls
    BY DEF CallTypes
  <2>4. \A t \in DOMAIN calls : t \in DOMAIN calls' /\ calls'[t] = calls[t]
    BY ONLY <2>2, <2>3 DEF Extended
  <2> QED
    BY <2>2, <2>4
<1>5. CASE Revokes
  <2>1. PICK t \in DOMAIN calls : RevokeTicket(t)
    BY <1>5 DEF Revokes
  <2>2. calls' = [calls EXCEPT ![t] = [@ EXCEPT !.revoked = TRUE]]
    BY <2>1 DEF RevokeTicket
  <2>3. [calls[t] EXCEPT !.revoked = TRUE].caller = calls[t].caller
    BY DEF CallTypes
  <2>4. DOMAIN calls' = DOMAIN calls /\ \A u \in DOMAIN calls : calls'[u].caller = calls[u].caller
    BY <2>2, <2>3
  <2>5. root' = root /\ rootLive' = rootLive
    BY <2>1 DEF RevokeTicket
  <2> QED
    BY <1>5, <2>4, <2>5, Thinned
<1>6. CASE Releases
  <2>1. PICK t \in DOMAIN calls : ReleaseTicket(t)
    BY <1>6 DEF Releases
  <2>2. /\ DOMAIN calls' = DOMAIN calls \ {t} /\ \A u \in DOMAIN calls' : calls'[u] = calls[u]
        /\ rootLive' = rootLive
    BY <2>1 DEF ReleaseTicket, Restricted
  <2>3. CASE rootLive
    <3>1. root' = root /\ subscriptions' = WithoutTicket(t)
      BY <2>1, <2>3 DEF ReleaseTicket, ReleaseSubscriptions
    <3>2. \A i \in DOMAIN subscriptions' : /\ i \in DOMAIN subscriptions
                                           /\ subscriptions'[i] = subscriptions[i]
                                           /\ subscriptions[i].ticket # t
      BY <3>1 DEF WithoutTicket, Restricted
    <3> QED
      BY <2>2, <2>3, <3>1, <3>2
  <2>4. CASE ~rootLive
    BY <2>1, <2>4 DEF ReleaseTicket
  <2> QED
    BY <2>3, <2>4
<1>7. CASE Subscribes
  <2>1. PICK c \in Callers, t \in Frames : \E r \in known : Subscribe(c, t, r)
    BY <1>7 DEF Subscribes
  <2>2. PICK r \in known : Subscribe(c, t, r)
    BY <2>1
  <2>3. /\ rootLive /\ (t # 0 => t \in DOMAIN calls /\ calls[t].caller = c)
        /\ root' = root /\ rootLive' = rootLive /\ calls' = calls
    BY <2>2 DEF Subscribe, Frame, callVars
  <2>4. /\ DOMAIN subscriptions' = DOMAIN subscriptions \cup {nextCursor + 1}
        /\ subscriptions'[nextCursor + 1] =
             [root |-> root, caller |-> c, ticket |-> t, location |-> r,
              revision |-> Cell(r).revision]
        /\ \A i \in DOMAIN subscriptions :
             i # nextCursor + 1 => subscriptions'[i] = subscriptions[i]
    BY <2>2, Subscribed
  <2>5. /\ subscriptions'[nextCursor + 1].root = root
        /\ subscriptions'[nextCursor + 1].caller = c
        /\ subscriptions'[nextCursor + 1].ticket = t
    BY ONLY <2>4
  <2> QED
    BY ONLY <2>3, <2>4, <2>5, SubscriptionsBelongToLiveCalls DEF SubscriptionsBelongToLiveCalls
<1>8. CASE Nexts
  <2>1. PICK c \in Callers, t \in Frames, j \in DOMAIN subscriptions : NextSnapshot(c, t, j)
    BY <1>8 DEF Nexts
  <2>2. root' = root /\ rootLive' = rootLive /\ calls' = calls
    BY <2>1 DEF NextSnapshot, callVars
  <2> QED
    BY <2>1, <2>2, Advanced
<1>9. CASE Unsubscribes
  <2>1. root' = root /\ rootLive' = rootLive /\ calls' = calls
    BY <1>9 DEF Unsubscribes, Unsubscribe, callVars
  <2> QED
    BY <1>9, <2>1, Thinned
<1>10. CASE UNCHANGED subVars /\ UNCHANGED callVars
  BY <1>10 DEF subVars, callVars
<1> QED
  BY <1>1, <1>2, <1>3, <1>4, <1>5, <1>6, <1>7, <1>8, <1>9, <1>10, StepFrames

LEMMA StepInv == Inv /\ [Next]_vars => Inv'
<1> SUFFICES ASSUME Inv, [Next]_vars PROVE Inv'
  OBVIOUS
<1>1. CASE Next
  BY <1>1, ShapesKept, StagesKept, IncarnationsKept, DeclaredKept, SubscriptionsKept DEF Inv
<1>2. CASE UNCHANGED vars
  <2> USE <1>2 DEF vars, ownerVars, cellVars, subVars, callVars, clientVars, Inv
  <2>1. Shapes'
    BY DEF Shapes, OwnerTypes, CellTypes, SubscriptionTypes, CallTypes, ClientTypes
  <2>2. Stages' /\ Declared'
    BY DEF Stages, Declared
  <2>3. Incarnations'
    BY DEF Incarnations, Location
  <2>4. SubscriptionsBelongToLiveCalls'
    BY DEF SubscriptionsBelongToLiveCalls
  <2> QED
    BY <2>1, <2>2, <2>3, <2>4
<1> QED
  BY <1>1, <1>2

(***************************************************************************)
(* Cells live exactly as long as their load, subscriptions as long as the   *)
(* call that made them, through failed loads, unloads and abandoned roots   *)
(* (value_state.rs).                                                        *)
(***************************************************************************)
THEOREM CellsAlwaysFollow == Spec => []CellsFollowTheirLoads
<1>1. Inv => CellsFollowTheirLoads
  <2> SUFFICES ASSUME Inv PROVE CellsFollowTheirLoads
    OBVIOUS
  <2> USE DEF Inv
  <2>1. TypeOK
    BY ShapesTyped
  <2>2. StaleLocationsNeverResolve
    BY DEF StaleLocationsNeverResolve, Resolves, Incarnations
  <2>3. RunningMeansComplete
    <3> SUFFICES ASSUME phase = "up"
        PROVE  DOMAIN cells = {[owner |-> owners[q.owner], property |-> q] : q \in Properties}
      BY DEF RunningMeansComplete
    <3>1. ASSUME NEW q \in Properties
          PROVE  [owner |-> owners[q.owner], property |-> q] \in DOMAIN cells
      BY PropertiesAssumption DEF Stages, Declared
    <3>2. ASSUME NEW k \in DOMAIN cells
          PROVE  k.property \in Properties
                 /\ k = [owner |-> owners[k.property.owner], property |-> k.property]
      BY DEF Shapes, CellTypes, Key, Declared
    <3> QED
      BY <3>1, <3>2
  <2> QED
    BY <2>1, <2>2, <2>3 DEF CellsFollowTheirLoads
<1> QED
  BY InitInv, StepInv, <1>1, PTL DEF Spec

(***************************************************************************)
(* The history of the batches, and what observers see of it.                *)
(***************************************************************************)

(* A graph execution knows every cell, up to an epoch that was. *)
GraphFollows == rootLive => graph.cursor \in 0..epoch /\ DOMAIN graph.seen = DOMAIN cells

HistoryInv ==
    HistoryExplainsCells /\ CursorsTrailTheirCell /\ GraphFollows /\ GraphMissesNothing

Touched(k) == {e \in 1..epoch : k \in commits[e]}

(* Without a live root nothing is subscribed. *)
LEMMA NoSubscriptions ==
  ASSUME SubscriptionsBelongToLiveCalls, ~rootLive
  PROVE  DOMAIN subscriptions = {}
  BY DEF SubscriptionsBelongToLiveCalls

LEMMA InitHistory == Init => HistoryInv
<1> SUFFICES ASSUME Init PROVE HistoryInv
  OBVIOUS
<1> USE EmptyFacts DEF Init
<1>1. HistoryExplainsCells
  BY DEF HistoryExplainsCells
<1>2. CursorsTrailTheirCell
  BY DEF CursorsTrailTheirCell
<1>3. GraphFollows /\ GraphMissesNothing
  BY DEF GraphFollows, GraphMissesNothing
<1> QED
  BY <1>1, <1>2, <1>3 DEF HistoryInv

LEMMA TouchedFinite ==
  ASSUME Shapes, NEW k
  PROVE  IsFiniteSet(Touched(k)) /\ Cardinality(Touched(k)) \in Nat
<1>1. IsFiniteSet(1..epoch)
  BY FS_Interval DEF Shapes, CellTypes
<1>2. IsFiniteSet(Touched(k))
  BY <1>1, FS_Subset DEF Touched
<1> QED
  BY <1>2, FS_CardinalityType

LEMMA HistoryKept == Inv /\ HistoryExplainsCells /\ Next => HistoryExplainsCells'
<1> SUFFICES ASSUME Inv, HistoryExplainsCells, Next PROVE HistoryExplainsCells'
  OBVIOUS
<1>1. CASE Load \/ Unloads
  <2>1. cells' = Empty
    BY <1>1 DEF Load, Unloads, Down, Clear
  <2>2. Len(commits') = epoch'
    <3>1. CASE Load
      BY <3>1 DEF Load
    <3>2. CASE Unloads
      BY <3>2 DEF Unloads, Down, HistoryExplainsCells
    <3> QED
      BY <1>1, <3>1, <3>2
  <2> QED
    BY <2>1, <2>2, EmptyFacts DEF HistoryExplainsCells
<1>2. CASE Creates
  <2>1. PICK q \in Properties : Create(q)
    BY <1>2 DEF Creates
  <2> DEFINE key == [owner |-> owners[q.owner], property |-> q]
             new == [revision |-> 0, epoch |-> 0, value |-> 0]
  <2>2. cells' = Extended(cells, key, new) /\ epoch' = epoch /\ commits' = commits
    BY <2>1 DEF Create
  <2>3. epoch = 0
    BY <2>1 DEF Create, Inv, Stages
  <2>4. \A k : {e \in 1..epoch' : k \in commits'[e]} = {}
    BY <2>2, <2>3
  <2>5. Cardinality({}) = 0
    BY FS_EmptySet
  <2>6. new.revision = 0 /\ new.value = 0 /\ new.epoch = 0
    OBVIOUS
  <2> HIDE DEF key, new
  <2>7. \A k \in DOMAIN cells' : k \in DOMAIN cells \/ cells'[k] = new
    BY ONLY <2>2 DEF Extended
  <2>8. \A k \in DOMAIN cells' : cells'[k] = new \/ (k \in DOMAIN cells /\ cells'[k] = cells[k])
    BY ONLY <2>2 DEF Extended
  <2>9. \A k : {e \in 1..epoch : k \in commits[e]} = {}
    BY <2>3
  <2>10. \A k \in DOMAIN cells' :
           cells'[k].revision = 0 /\ cells'[k].value = 0 /\ cells'[k].epoch = 0
    BY <2>5, <2>6, <2>8, <2>9 DEF HistoryExplainsCells
  <2> QED
    BY <2>2, <2>4, <2>5, <2>10, ZenonT(40) DEF HistoryExplainsCells
<1>3. CASE Edits
  <2>0. PICK c \in Callers, t \in Frames : \E S \in SUBSET DOMAIN drafts[c] : Commit(c, t, S)
    BY <1>3 DEF Edits
  <2>1. PICK S \in SUBSET DOMAIN drafts[c] : Commit(c, t, S)
    BY <2>0
  <2> DEFINE keys == {r.key : r \in S}
  <2>2. /\ DOMAIN cells' = DOMAIN cells /\ epoch' = epoch + 1
        /\ commits' = Append(commits, keys) /\ keys \in SUBSET Key
    BY <2>1, EditedCells DEF Inv
  <2>3. \A k \in DOMAIN cells :
          /\ k \in keys => cells'[k] = [revision |-> cells[k].revision + 1, epoch |-> epoch + 1,
                                        value |-> cells[k].revision + 1]
          /\ k \notin keys => cells'[k] = cells[k]
    BY <2>1, EditedCells DEF Inv
  <2> HIDE DEF keys
  <2>4. Len(commits) = epoch /\ epoch \in Nat /\ commits \in Seq(SUBSET Key)
    BY DEF HistoryExplainsCells, Inv, Shapes, CellTypes
  <2>5. Len(commits') = epoch'
    BY <2>2, <2>4
  <2>6. \A e \in 1..epoch : commits'[e] = commits[e]
    BY <2>2, <2>4
  <2>7. commits'[epoch + 1] = keys
    BY <2>2, <2>4
  <2>8. ASSUME NEW k \in DOMAIN cells
        PROVE  LET touched == {e \in 1..epoch' : k \in commits'[e]} IN
               /\ cells'[k].revision = Cardinality(touched)
               /\ cells'[k].value = Cardinality(touched)
               /\ cells'[k].epoch \in touched \cup {0}
               /\ \A e \in touched : e <= cells'[k].epoch
    <3> DEFINE after == {e \in 1..epoch' : k \in commits'[e]}
    <3>1. /\ cells[k].revision = Cardinality(Touched(k))
          /\ cells[k].value = Cardinality(Touched(k))
          /\ cells[k].epoch \in Touched(k) \cup {0}
          /\ \A e \in Touched(k) : e <= cells[k].epoch
      BY DEF HistoryExplainsCells, Touched
    <3>2. IsFiniteSet(Touched(k)) /\ Cardinality(Touched(k)) \in Nat
      BY TouchedFinite DEF Inv
    <3>3. epoch + 1 \notin Touched(k) /\ \A e \in Touched(k) : e <= epoch + 1
      BY <2>4 DEF Touched
    <3>4. CASE k \in keys
      <4>1. after = Touched(k) \cup {epoch + 1}
        BY <2>2, <2>4, <2>6, <2>7, <3>4 DEF Touched
      <4>2. Cardinality(after) = Cardinality(Touched(k)) + 1
        BY <3>2, <3>3, <4>1, FS_AddElement
      <4>3. /\ cells'[k].revision = cells[k].revision + 1
            /\ cells'[k].value = cells[k].revision + 1
            /\ cells'[k].epoch = epoch + 1
        <5>1. cells'[k] = [revision |-> cells[k].revision + 1, epoch |-> epoch + 1,
                           value |-> cells[k].revision + 1]
          BY ONLY <2>3, <3>4, k \in DOMAIN cells
        <5> QED
          BY ONLY <5>1
      <4>4. /\ cells'[k].epoch \in after \cup {0}
            /\ \A e \in after : e <= cells'[k].epoch
        BY <2>4, <3>3, <4>1, <4>3
      <4> QED
        BY <3>1, <4>2, <4>3, <4>4
    <3>5. CASE k \notin keys
      <4>1. after = Touched(k)
        BY <2>2, <2>4, <2>6, <2>7, <3>5 DEF Touched
      <4>2. cells'[k] = cells[k]
        BY <2>3, <3>5
      <4> HIDE DEF after
      <4>3. /\ cells'[k].revision = Cardinality(after)
            /\ cells'[k].value = Cardinality(after)
            /\ cells'[k].epoch \in after \cup {0}
            /\ \A e \in after : e <= cells'[k].epoch
        BY <3>1, <4>1, <4>2
      <4> QED
        BY <4>3 DEF after
    <3> QED
      BY <3>4, <3>5
  <2> QED
    BY <2>2, <2>5, <2>8 DEF HistoryExplainsCells
<1>4. CASE UNCHANGED cellVars
  BY <1>4 DEF cellVars, HistoryExplainsCells
<1> QED
  BY <1>1, <1>2, <1>3, <1>4, StepFrames

(* What a batch does to a cell, one way or the other. *)
LEMMA EditedSnapshots ==
  ASSUME Inv, HistoryExplainsCells, Edits
  PROVE  /\ epoch' = epoch + 1 /\ DOMAIN cells' = DOMAIN cells
         /\ \A k \in DOMAIN cells :
              /\ cells[k].revision \in Nat /\ cells[k].epoch \in Nat /\ cells[k].epoch <= epoch
              /\ \/ /\ cells'[k].revision = cells[k].revision + 1
                    /\ cells'[k].epoch = epoch + 1
                 \/ cells'[k] = cells[k]
<1>0. PICK c \in Callers, t \in Frames : \E S \in SUBSET DOMAIN drafts[c] : Commit(c, t, S)
  BY DEF Edits
<1>1. PICK S \in SUBSET DOMAIN drafts[c] : Commit(c, t, S)
  BY <1>0
<1> DEFINE keys == {r.key : r \in S}
<1>2. /\ DOMAIN cells' = DOMAIN cells /\ epoch' = epoch + 1
      /\ \A k \in DOMAIN cells :
          /\ k \in keys => cells'[k] = [revision |-> cells[k].revision + 1, epoch |-> epoch + 1,
                                        value |-> cells[k].revision + 1]
          /\ k \notin keys => cells'[k] = cells[k]
  BY <1>1, EditedCells DEF Inv
<1> HIDE DEF keys
<1>3. ASSUME NEW k \in DOMAIN cells
      PROVE  /\ cells[k].revision \in Nat /\ cells[k].epoch \in Nat /\ cells[k].epoch <= epoch
             /\ \/ /\ cells'[k].revision = cells[k].revision + 1
                   /\ cells'[k].epoch = epoch + 1
                \/ cells'[k] = cells[k]
  <2>1. cells[k].revision \in Nat /\ cells[k].epoch \in Nat /\ epoch \in Nat
    BY DEF Inv, Shapes, CellTypes, Snapshot
  <2>2. cells[k].epoch \in Touched(k) \cup {0}
    BY DEF HistoryExplainsCells, Touched
  <2>3. cells[k].epoch <= epoch
    BY <2>1, <2>2 DEF Touched
  <2>4. CASE k \in keys
    <3>1. cells'[k] = [revision |-> cells[k].revision + 1, epoch |-> epoch + 1,
                       value |-> cells[k].revision + 1]
      BY ONLY <1>2, <2>4, k \in DOMAIN cells
    <3>2. cells'[k].revision = cells[k].revision + 1 /\ cells'[k].epoch = epoch + 1
      BY ONLY <3>1
    <3> QED
      BY <2>1, <2>3, <3>2
  <2>5. CASE k \notin keys
    BY <1>2, <2>1, <2>3, <2>5
  <2> QED
    BY <2>4, <2>5
<1> QED
  BY <1>2, <1>3

LEMMA CursorsKept ==
    Inv /\ HistoryExplainsCells /\ CursorsTrailTheirCell /\ Next => CursorsTrailTheirCell'
<1> SUFFICES ASSUME Inv, HistoryExplainsCells, CursorsTrailTheirCell, Next
             PROVE  CursorsTrailTheirCell'
  OBVIOUS
<1> USE DEF CursorsTrailTheirCell
<1>1. CASE Load \/ Unloads
  <2>1. subscriptions' = Empty
    BY <1>1 DEF Load, Unloads, Down, Clear
  <2> QED
    BY <2>1, EmptyFacts
<1>2. CASE AcceptInitialized \/ Begins \/ Creates
  <2>1. phase = "initializing" /\ subscriptions' = subscriptions
    BY <1>2 DEF AcceptInitialized, Begins, BeginInitialize, Creates, Create, subVars
  <2>2. DOMAIN subscriptions = {}
    BY <2>1, NoSubscriptions DEF Inv, Stages
  <2> QED
    BY <2>1, <2>2
<1>3. CASE AdmitRoot \/ Tickets \/ Reads \/ AdmitStateWave
  <2>1. UNCHANGED ownerVars
    BY <1>3, RunningSteps DEF Inv
  <2>2. cells' = cells /\ subscriptions' = subscriptions
    BY <1>3 DEF AdmitRoot, Tickets, BeginTicket, Reads, Read, AdmitStateWave, cellVars, subVars
  <2> QED
    BY <2>1, <2>2 DEF ownerVars, Resolves, Cell
<1>4. CASE DropRoot \/ Revokes \/ Releases \/ Unsubscribes
  <2>1. UNCHANGED ownerVars
    BY <1>4, RunningSteps DEF Inv
  <2>2. cells' = cells
    BY <1>4 DEF DropRoot, Revokes, RevokeTicket, Releases, ReleaseTicket, Unsubscribes,
                Unsubscribe, cellVars
  <2>3. /\ DOMAIN subscriptions' \subseteq DOMAIN subscriptions
        /\ \A i \in DOMAIN subscriptions' : subscriptions'[i] = subscriptions[i]
    BY <1>4, Thinned
  <2> QED
    BY <2>1, <2>2, <2>3 DEF ownerVars, Resolves, Cell
<1>5. CASE Subscribes
  <2>0. PICK c \in Callers, t \in Frames : \E r \in known : Subscribe(c, t, r)
    BY <1>5 DEF Subscribes
  <2>1. PICK r \in known : Subscribe(c, t, r)
    BY <2>0
  <2>2. UNCHANGED ownerVars /\ cells' = cells /\ Resolves(r)
    BY <2>1 DEF Subscribe, cellVars
  <2>3. /\ DOMAIN subscriptions' = DOMAIN subscriptions \cup {nextCursor + 1}
        /\ subscriptions'[nextCursor + 1] =
             [root |-> root, caller |-> c, ticket |-> t, location |-> r,
              revision |-> Cell(r).revision]
        /\ \A i \in DOMAIN subscriptions :
             i # nextCursor + 1 => subscriptions'[i] = subscriptions[i]
    BY <2>1, Subscribed
  <2>4. /\ subscriptions'[nextCursor + 1].location = r
        /\ subscriptions'[nextCursor + 1].revision = cells[r.key].revision
    BY ONLY <2>3 DEF Cell
  <2>5. cells[r.key].revision \in Nat
    BY <2>2 DEF Resolves, Inv, Shapes, CellTypes, Snapshot
  <2> QED
    BY <2>2, <2>3, <2>4, <2>5 DEF ownerVars, Resolves, Cell
<1>6. CASE Nexts
  <2>1. PICK c \in Callers, t \in Frames, j \in DOMAIN subscriptions : NextSnapshot(c, t, j)
    BY <1>6 DEF Nexts
  <2>2. UNCHANGED ownerVars /\ cells' = cells /\ Resolves(subscriptions[j].location)
    BY <2>1 DEF NextSnapshot, OwnsCursor, cellVars
  <2>3. /\ DOMAIN subscriptions' = DOMAIN subscriptions
        /\ \A i \in DOMAIN subscriptions :
             /\ i # j => subscriptions'[i] = subscriptions[i]
             /\ subscriptions'[i].location = subscriptions[i].location
        /\ subscriptions'[j].revision = cells[subscriptions[j].location.key].revision
    BY <2>1, Advanced DEF Inv, Shapes, Cell
  <2>4. cells[subscriptions[j].location.key].revision \in Nat
    BY <2>2 DEF Resolves, Inv, Shapes, CellTypes, Snapshot
  <2> QED
    BY <2>2, <2>3, <2>4 DEF ownerVars, Resolves, Cell
<1>7. CASE Edits
  <2>1. UNCHANGED ownerVars /\ subscriptions' = subscriptions
    BY <1>7 DEF Edits, Commit, subVars
  <2>2. /\ DOMAIN cells' = DOMAIN cells
        /\ \A k \in DOMAIN cells : cells[k].revision \in Nat
             /\ (cells'[k].revision = cells[k].revision + 1 \/ cells'[k] = cells[k])
    BY <1>7, EditedSnapshots
  <2>3. \A i \in DOMAIN subscriptions : subscriptions[i].revision \in Nat
    BY DEF Inv, Shapes, SubscriptionTypes, Subscription
  <2> QED
    BY <2>1, <2>2, <2>3 DEF ownerVars, Resolves, Cell
<1> QED
  BY <1>1, <1>2, <1>3, <1>4, <1>5, <1>6, <1>7, NextSteps DEF Steps

LEMMA GraphKept ==
    Inv /\ HistoryInv /\ Next => GraphFollows' /\ GraphMissesNothing'
<1> SUFFICES ASSUME Inv, HistoryInv, Next PROVE GraphFollows' /\ GraphMissesNothing'
  OBVIOUS
<1> USE DEF GraphFollows, GraphMissesNothing, HistoryInv
<1>1. CASE Load \/ AcceptInitialized \/ Unloads \/ Begins \/ Creates \/ DropRoot
  <2>1. ~rootLive'
    BY <1>1 DEF Load, AcceptInitialized, Unloads, Down, Begins, BeginInitialize, Creates, Create,
                DropRoot, callVars, Inv, Stages
  <2> QED
    BY <2>1
<1>2. CASE AdmitRoot
  <2>1. /\ graph' = [cursor |-> epoch, seen |-> [k \in DOMAIN cells |-> cells[k].revision]]
        /\ cells' = cells /\ epoch' = epoch
    BY <1>2 DEF AdmitRoot, Seen, cellVars
  <2>2. epoch \in Nat
    BY DEF Inv, Shapes, CellTypes
  <2> QED
    BY <2>1, <2>2
<1>3. CASE AdmitStateWave
  <2>1. /\ rootLive /\ cells' = cells /\ epoch' = epoch /\ graph'.cursor = epoch
        /\ graph'.seen = [k \in DOMAIN graph.seen |->
                             IF k \in Changed THEN cells[k].revision ELSE graph.seen[k]]
    BY <1>3 DEF AdmitStateWave, cellVars
  <2>2. epoch \in Nat /\ \A k \in DOMAIN cells : cells[k].epoch \in Nat
    BY DEF Inv, Shapes, CellTypes, Snapshot
  <2>3. GraphFollows'
    BY <2>1, <2>2
  <2>4. ASSUME NEW k \in DOMAIN cells, k.property.watch, cells[k].revision # graph'.seen[k]
        PROVE  FALSE
    <3>1. k \notin Changed /\ graph'.seen[k] = graph.seen[k]
      BY <2>1, <2>4
    <3>2. ~(cells[k].epoch > graph.cursor)
      BY <2>4, <3>1 DEF Changed
    <3> QED
      BY <2>1, <2>4, <3>1, <3>2
  <2> QED
    BY <2>1, <2>3, <2>4
<1>4. CASE Edits
  <2>1. graph' = graph /\ rootLive' = rootLive
    BY <1>4 DEF Edits, Commit, callVars
  <2>2. /\ epoch' = epoch + 1 /\ DOMAIN cells' = DOMAIN cells
        /\ \A k \in DOMAIN cells : cells'[k].epoch = epoch + 1 \/ cells'[k] = cells[k]
    BY <1>4, EditedSnapshots
  <2>3. epoch \in Nat
    BY DEF Inv, Shapes, CellTypes
  <2> QED
    BY <2>1, <2>2, <2>3
<1>5. CASE Tickets \/ Revokes \/ Releases \/ Reads \/ Subscribes \/ Nexts \/ Unsubscribes
  <2>1. graph' = graph /\ rootLive' = rootLive /\ UNCHANGED cellVars
    BY <1>5 DEF Tickets, BeginTicket, Revokes, RevokeTicket, Releases, ReleaseTicket, Reads, Read,
                Subscribes, Subscribe, Nexts, NextSnapshot, Unsubscribes, Unsubscribe, callVars
  <2> QED
    BY <2>1 DEF cellVars
<1> QED
  BY <1>1, <1>2, <1>3, <1>4, <1>5, NextSteps DEF Steps

LEMMA StepHistory == Inv /\ HistoryInv /\ [Next]_vars => HistoryInv'
<1> SUFFICES ASSUME Inv, HistoryInv, [Next]_vars PROVE HistoryInv'
  OBVIOUS
<1>1. CASE Next
  BY <1>1, HistoryKept, CursorsKept, GraphKept DEF HistoryInv
<1>2. CASE UNCHANGED vars
  BY <1>2, ZenonT(40) DEF vars, ownerVars, cellVars, subVars, callVars, HistoryInv, HistoryExplainsCells,
              CursorsTrailTheirCell, GraphFollows, GraphMissesNothing, Resolves, Cell
<1> QED
  BY <1>1, <1>2

LEMMA StepsGrow == Inv /\ HistoryInv /\ Next => RevisionsGrow
<1> SUFFICES ASSUME Inv, HistoryInv, Next, phase = "up", phase' = "up" PROVE
         /\ epoch' \in {epoch, epoch + 1}
         /\ \A k \in DOMAIN cells :
              /\ cells'[k].revision \in {cells[k].revision, cells[k].revision + 1}
              /\ cells'[k].epoch # cells[k].epoch <=> cells'[k].revision # cells[k].revision
              /\ cells'[k].revision # cells[k].revision => cells'[k].epoch = epoch'
         /\ \A i \in DOMAIN subscriptions \cap DOMAIN subscriptions' :
              subscriptions'[i].revision >= subscriptions[i].revision
  BY DEF RevisionsGrow
<1>1. /\ epoch' \in {epoch, epoch + 1}
      /\ \A k \in DOMAIN cells :
           /\ cells'[k].revision \in {cells[k].revision, cells[k].revision + 1}
           /\ cells'[k].epoch # cells[k].epoch <=> cells'[k].revision # cells[k].revision
           /\ cells'[k].revision # cells[k].revision => cells'[k].epoch = epoch'
  <2>1. CASE Edits
    <3>1. /\ epoch' = epoch + 1
          /\ \A k \in DOMAIN cells :
              /\ cells[k].revision \in Nat /\ cells[k].epoch \in Nat /\ cells[k].epoch <= epoch
              /\ \/ /\ cells'[k].revision = cells[k].revision + 1
                    /\ cells'[k].epoch = epoch + 1
                 \/ cells'[k] = cells[k]
      BY <2>1, EditedSnapshots DEF HistoryInv
    <3>2. epoch \in Nat
      BY DEF Inv, Shapes, CellTypes
    <3> QED
      BY ONLY <3>1, <3>2
  <2>2. CASE Load \/ Unloads \/ Creates
    BY <2>2 DEF Load, Unloads, Down, Creates, Create
  <2>3. CASE UNCHANGED cellVars
    BY <2>3 DEF cellVars
  <2> QED
    BY <2>1, <2>2, <2>3, StepFrames
<1>2. ASSUME NEW i \in DOMAIN subscriptions \cap DOMAIN subscriptions'
      PROVE  subscriptions'[i].revision >= subscriptions[i].revision
  <2>1. subscriptions[i].revision \in Nat /\ i \in 1..nextCursor /\ nextCursor \in Nat
    BY DEF Inv, Shapes, SubscriptionTypes, Subscription
  <2>2. CASE Load \/ Unloads
    BY <2>2 DEF Load, Unloads, Down
  <2>3. CASE DropRoot \/ Revokes \/ Releases \/ Unsubscribes
    BY <2>1, <2>3, Thinned
  <2>4. CASE Subscribes
    <3>0. PICK c \in Callers, t \in Frames : \E r \in known : Subscribe(c, t, r)
      BY <2>4 DEF Subscribes
    <3>1. PICK r \in known : Subscribe(c, t, r)
      BY <3>0
    <3>2. i # nextCursor + 1
      BY <2>1
    <3>3. \A x \in DOMAIN subscriptions : x # nextCursor + 1 => subscriptions'[x] = subscriptions[x]
      BY <3>1, Subscribed
    <3> QED
      BY <2>1, <3>2, <3>3
  <2>5. CASE Nexts
    <3>1. PICK c \in Callers, t \in Frames, j \in DOMAIN subscriptions : NextSnapshot(c, t, j)
      BY <2>5 DEF Nexts
    <3>2. /\ i # j => subscriptions'[i] = subscriptions[i]
          /\ subscriptions'[j].revision = Cell(subscriptions[j].location).revision
      BY <3>1, Advanced DEF Inv, Shapes
    <3>3. subscriptions[i].revision <= Cell(subscriptions[i].location).revision
      BY DEF HistoryInv, CursorsTrailTheirCell
    <3>4. cells[subscriptions[j].location.key].revision \in Nat
      BY DEF HistoryInv, CursorsTrailTheirCell, Resolves, Inv, Shapes, CellTypes, Snapshot
    <3> QED
      BY <2>1, <3>2, <3>3, <3>4 DEF Cell
  <2>6. CASE UNCHANGED subVars
    BY <2>1, <2>6 DEF subVars
  <2> QED
    BY <2>2, <2>3, <2>4, <2>5, <2>6, StepFrames
<1> QED
  BY <1>1, <1>2

(***************************************************************************)
(* What the cells hold is the history of the committed batches, and whoever *)
(* observes it, by cursor or by wave, sees every revision once and in order *)
(* (Cells::commit, Cells::next, watched_changes_since).                     *)
(***************************************************************************)
THEOREM HistoryAlwaysObserved == Spec => HistoryIsObserved
<1>1. Init => Inv /\ HistoryInv
  BY InitInv, InitHistory
<1>2. (Inv /\ HistoryInv) /\ [Next]_vars => (Inv /\ HistoryInv)'
  BY StepInv, StepHistory
<1>3. Spec => [](Inv /\ HistoryInv)
  BY <1>1, <1>2, PTL DEF Spec
<1>4. HistoryInv => HistoryExplainsCells /\ CursorsTrailTheirCell /\ GraphMissesNothing
  BY DEF HistoryInv
<1>5. Inv /\ HistoryInv /\ [Next]_vars => [RevisionsGrow]_vars
  BY StepsGrow
<1>6. Spec => [](HistoryExplainsCells /\ CursorsTrailTheirCell /\ GraphMissesNothing)
  BY <1>3, <1>4, PTL
<1>7. Spec => [][RevisionsGrow]_vars
  BY <1>3, <1>5, PTL DEF Spec
<1> QED
  BY <1>6, <1>7 DEF HistoryIsObserved
=============================================================================
