# Specifications of phenix-ai

Phenix is a small kernel that loads native plugins, connects their imports to
selected providers and runs calls between them under explicit authority. The
plugins built on it - storage, journal, session, agent, model transport, provider
catalogue, credential vault - and the hosts that drive them (a terminal, a line
stream, an editor over ACP) carry the product's behaviour. This directory holds
TLA+ models of that code, TLC configurations that check them on small instances,
and theorems about them that the TLA+ proof system checks for every instance.

Paths are relative to `src/crates/` unless they say otherwise; `kernel/` stands for
`phenix-kernel/src/`. `PROJECT.json` names, for each definition, the lines it models.

To check everything: `tlc -config <cfg> <MC module>` for each row of section 4, and
`tlapm <module>` for each module named `*Proofs` and for `SqliteStorage`, `Generations`
and `Cells`, which end with their own proofs.

## 1. Inventory

| component | state | operations | hard | correct when |
|---|---|---|---|---|
| pending calls (`kernel/pending.rs`, `runtime.rs`) | tickets in a forest, the admitted root, the native call stack | begin, poll, cancel, release, invoke; drop and drain; accept_reply, refresh_quiescence | plugins call back from every callback while loops over tickets are suspended below | no instance is inside two calls; a lease ends exactly when its tree is over; outcomes are decided and delivered once; a dropped root is eventually over |
| effect authority (`runtime.rs`, `state_effects.rs`) | the scope of each frame and ticket | effect_scope on every path | a ticket is polled when those it was begun for are gone | authority only shrinks along the whole chain of callers |
| property cells (`value_state.rs`) | cells with revision and epoch, cursors, owner incarnations | read, compare-exchange, batch, subscribe, release, reload | locations, snapshots and cursors are kept over any number of requests of others | edits are serializable, no change is missed, nothing outlives its load or its call |
| generations and images (`generation.rs`, `native.rs`) | candidates, residents, the default; the images of a kernel | install, trial, promote, admit, drain, retire, drop | a load fails halfway; handles pin a kernel beyond its collection | nothing stops under native work, everything stops once, dependents first |
| graphs (`graph.rs`, `dag.rs`, `graph/v2*`) | node outcomes, pending tickets, state cursor; compiled plans | compile, project, pump, cancel, hook waves, dataflow waves | answers come in any order; lists of tickets fail in the middle | orders are topological, outcomes independent of timing, no ticket lost |
| resolution (`resolve.rs`) | the prepared composition | prepare | closures over loops of imports | what is bound agrees, is permitted and starts in order |
| contract library (`phenix-contract`) | values, schemas, metadata | encode, decode, validate | the same rules written two or three times | what one side writes the other reads |
| storage (`phenix-plugin-storage-sqlite`, `phenix-plugin-project-storage-sqlite`) | versioned records in SQLite | migrate, transact, read, membership | several processes, kills between statements | transactions are atomic; a revocation stops writes |
| journal (`phenix-plugin-event-journal`) | events and observers in records | append, read, checkpoint | two appenders, lost answers | an append-only log |
| evidence, checkpoints (`phenix-plugin-evidence-store`, `phenix-plugin-compaction-checkpoints`) | a ledger, a line of checkpoints | put, get, search; append, load | sources change between two imports | what is kept is supported by what was observed |
| session and agent (`phenix-plugin-basic-session`, `phenix-plugin-basic-agent`) | the session snapshot, cached per host; a run | open, checkpoint, reconcile; prepare, step, recover | crashes around a tool call, stale copies, failed answers | no tool call is forgotten or made twice; a run ends once |
| compaction (`phenix-p2-compaction-replay`, `phenix-plugin-advanced-model-adapter`) | divisions of a history; admission of a request | plan, view, rebuild; weigh, compact, submit | a model is reconfigured between measuring and submitting | only the truth is elided, only what fits is sent |
| models (`phenix-provider-protocols`, `phenix-plugin-model-http`, `phenix-plugin-provider-chatgpt`, `phenix-provider-discovery`, `phenix-provider-credential-files`) | a transfer, a worker thread, sign-ins, catalogues, credential files | encode, stream, poll, cancel; begin, callback, refresh; put, purge; store, recover | streams cut short, refreshes out of order, power failures between system calls | replies are what was shown; nothing newer is replaced; acknowledged credentials survive |
| hosts (`phenix-basic-runtime`) | queue, registry, marker, lock, menu | prompt, cancel, replay, choose, print | cancellations race admission; hosts die between any two steps | requests are answered after what they caused was shown |
| SDK (`phenix-sdk`, `phenix-macros`) | fields, edits, watches, imports | publish, commit, poll, cancel | failed publications, panics | fields are what observers see |
| memory and tools plugins, workspace selection, product assemblies, fixtures, conformance programs | | | | not modelled (section 7) |

How they interact: the host owns `Generations`; each resident generation owns a
`Kernel`, and a `Root` handle pins one. All work runs in `dispatch_call` or
`begin_pending` under a root, calls back into the kernel from native code, and
touches cells through `state_request`. Graph executions drive tickets and read the
cells' epochs. Plugins reach each other only through kernel calls. Files, SQLite, the
network and the client's streams are where concurrency between processes, lost
answers and crashes enter.

## 2. The kernel

### Pending calls: `PendingTickets`, `KernelLease`

The kernel has one thread, yet its calls nest. `ctl` is the Rust call stack at the
places where plugin code can run: `native` for plugin code, which may make any host
call or reply, and one entry per kernel routine that is suspended while plugin code
runs above it, with the ids its loop still has to visit (`todo`), which the code
collected before the first of them ran. A host call is an action at an empty stack,
a callback an action at a `native` top, and one step of a routine an action of its
own. `provider` is the `CallGuard` an entry holds, `revoked` its loss of authority.

| code | model |
|---|---|
| `State.tickets`, `Record` | `tickets`, with the fields control depends on |
| `CallGuard`, the call stack | `ctl` |
| `begin_pending` | `Begin`, used by `RootBegin` and `ImportBegin`; `BeginDone` |
| `dispatch_call` | `CanDispatch`, `Invoke`, `InvokeReturn` |
| `enter_ticket`, `drain_children` | `Enter`, `EnterDone`, `DrainNext`, `DrainDone` |
| `accept_reply` | `ReplyPending`, `ReplyCancelled`, `ReplyOutcome`, `SettleDone` |
| `cancel_ticket`, `cancel_children` | `Cancel`, `CancelNext`, `CancelEnter` |
| `refresh_quiescence` | `Refresh`: the flags the descending pass leaves, as the solution of their equation |
| `release_tree`, `release_abandoned` | `RootRelease`, `Without`, `ReleaseAbandoned` |
| `Root::drop`, `drain_cancelled` | `DropRoot`, `AbandonNext`; `DrainCancelled`, `DrainAllNext` |
| `unwrap` and indexing of a released id | `Missing`, `Panic` |

Requests and results are abstract (`ok`, `err`). Wake permits and notification
counters decide when the host polls and never what a poll does, so a poll may come at
any time. Cell subscriptions are the set of tickets that own one.

`CallsAreExclusive`: live work and guards have distinct instances and no loop looks up
a released ticket. `TicketsSettle`: an answer means the whole tree is over, flags agree
with the tree between host calls, no orphan, no subscription of a dead call.
`AuthorityFollowsTheForest`: revocation reaches the whole tree and a frame without
authority stays so. `OutcomesAreFinal`: an outcome is decided once and a lease that
ended does not come back. `ImplementsKernelLease`: with `busy` the instances of
tickets that are not quiescent, every step is one of `KernelLease` or a stutter;
`Generations` uses a kernel by that promise only. `RootsAndCallsEnd` is liveness.

### Authority: `EffectScope`

Every call leaves a frame and, when it is pending, a ticket; both carry the authority
that is left. `hops` remembers for whom, which the code does not: the property
(`ScopesAreSound`) relates what a frame may do to the limits of callers that may long
be gone. Policies are whole prepared compositions.

### Cells: `Cells`

A request is one action, because nothing calls out of `Cells` in the middle of one.
What interleaves is callers: each keeps what it read (`drafts`) and every location it
ever saw (`known`), over reloads too. An edit writes the value it read plus one, so a
value counts the edits that survive in it. `HistoryIsObserved`: each cell is what the
sequence of committed batches made of it, no cursor is ahead of its cell and a graph's
epoch cursor misses nothing. `CellsFollowTheirLoads`: a location of an earlier load
never resolves - also when the same generation is loaded twice and only the
incarnations differ - and subscriptions end with their calls.

### Generations and images: `Generations`

The control plane cannot be re-entered, so `ctl` is the one load or stop in progress and
the place it has reached in `Startup`; plugin code runs there and may fail. `image` and
`stops` are per identity. `held` is the `Root` handle; `busy` and `root` are the
kernel's leases and admission, as `KernelLease` has them. `Close` drops the collection
and every kernel no handle pins; `Drop for Kernel` stops the images, or with a live
lease leaks them all.

### Graphs and products: `GraphOrder`, `ReactiveGraph`, `GraphExecution`, `GraphWave`, `GraphPlan`, `Composition`, `PluginMetadata`

`GraphOrder` has `dag.rs`: the ordering and its cycle. `ReactiveGraph` compiles every
small declared graph and projects it on what a trigger activates. `GraphExecution` is
one execution, one iteration of a loop per action, with the host that pumps, cancels
and drops it, and hook waves that follow commits; a ticket tree is the set of
providers it occupies. `GraphWave` resolves joins, branches and closed edges in every
order of completion, against a definition of what the graph means (`WavesAreConfluent`).
`GraphPlan` compiles labels, grants, reachability and depth. `Composition` is `prepare`
of `resolve.rs`, stage by stage. `PluginMetadata` holds both sets of rules about
metadata - the constants a plugin is compiled with and those of the loader - and
`MetadataLoadsAsWritten` relates them.

## 3. Plugins, hosts and libraries

| module | code | an action is | correctness |
|---|---|---|---|
| `RecordStore` | what the Storage contract promises | a whole transaction, at one moment | the abstract specification |
| `SqliteStorage` | `phenix-plugin-storage-sqlite` | a statement, a step, a kill | `KeepsThePromise` (refines `RecordStore`), `DatabaseIsSound`, `ForeignDatabasesAreUntouched` |
| `EventJournal` | the journal plugin and the renderer, over `RecordStore` | one import | `JournalIsALog` |
| `ProjectStorage` | the project storage plugin | one SQL statement | `ProjectIsSerializable` |
| `EvidenceStore` | the evidence plugin | one import | `EvidenceIsKept` |
| `CheckpointStore` | checkpoint store and publication | one import | `CheckpointsFormALine` |
| `CredentialFiles` | the vault and its plugin | one system call, a kill, a power failure | `CredentialsSurvive` |
| `CatalogCache` | the catalogue cache | a request, an answer, a rotation | `CataloguesAreCurrent` |
| `SessionRuns` | session plugin, agent, lock and owner marker of the hosts | one durable call, which may fail before or after it took effect; a death | `EffectsAreSafe`, `RunsEndOnce` |
| `AcpConnection` | the ACP connection (`acp_sdk.rs`) | a step of the wire or of the controller | `ConnectionsAnswerTheirRequests` |
| `StreamHosts`, `StdinLines` | terminal and JSONL hosts, bounded lines (`main.rs`) | a step of the reader or controller; a chunk | `StreamsKeepTheirLines` |
| `OwnedState` | the generated plugin instance (`state.rs` of the macros) | an entry, a publication, a reply, a panic | `InstancesKeepTheirFields` |
| `LiveValues` | the typed client (`live.rs` of the SDK) | a request to the kernel | `HandlesTellTheTruth` |
| `HttpModelWorker` | worker thread, polls and cancellation | a step of the thread or of a poll | `TransportsAreSilenced` |
| `ModelChoice` | choosing, storing and installing a model | one import | `ChoicesAreHonoured` |
| `ModelAdmission` | the advanced model adapter | one import | `RequestsFitTheirWindow` |
| `ModelProtocols` | requests and streams of three protocols | a message of a history, a frame of a stream | `ProtocolsTellTheSame` |
| `ChatGptSignIn` | the ChatGPT provider | a call of a handler to the vault or the issuer | `SignInsAreSound` |
| `CompactedHistory` | planning and viewing divisions of a journal | one event, one division | `CompactionKeepsTheTruth` |
| `WireDocuments` | the canonical encoding of values, schemas, requests | write, damage, read | `DocumentsAgree` |

Some choices that need a word. In `SessionRuns` a durable call has four outcomes -
done, refused, failed before it took effect, failed after - and a host may die between
any two; `effects` and `journal` are what the world has seen. In `CredentialFiles`
what survives a power failure is a prefix of the directory changes since the last
directory fsync, with contents that were not synced gone. `WireDocuments`
keeps tags, lengths, characters and integers as tokens with their width in bytes; the
limits of depth, count and size are the code's with smaller numbers, and values, schemas
and requests lie on both sides of each. In `CheckpointStore` a caller may put or publish
any checkpoint; wrong parents, skipped revisions, used identities and checkpoints that
are their own parents are for `Appendable` to refuse.

In `ModelProtocols` the length of texts and arguments counts, so they are short
sequences. A chunk of chat completions carries any mixture of text, reason, usage and
pieces of a call - its id, its name and its arguments, whole, in pieces, repeated or
absent - and what comes at one index is joined, as `stream.rs:170` does; a chunk with
several calls is the same as several chunks. Ids of messages and items that do not match
are frames that are refused. `Send` has the refusals of `encode_protocol_with_max_tokens`,
and `Tokens` what each body asks for: the body of Anthropic messages the lower of the
caller's limit and the provider's maximum, the other two the caller's limit alone.

Definitions whose comment begins with "Fault" are mutated forms of the definition
before them: the bug a check must be able to see. No specification uses them;
`mutants` in `PROJECT.json` names, for each property, the one that breaks it.

## 4. Runs

Components that share no state are checked in one run, which starts as one of them
(`part`) and stays so: interleaving them would only multiply the states. The other
parts' variables hold `Unused`, or, for the components a proof module instantiates, their
initial values: an MC module extends the proof module (`KernelProofs`, `SessionProofs`,
`StoreProofs`), so that the theorems are about the formulas its run checks. A run without
a `part` has one component.

| run | what is in it | bounds | distinct states |
|---|---|---|---|
| `tickets_safety` (`PendingTickets_safety.cfg`) | `PendingTickets`, safety and the refinement of `KernelLease` | three instances that may import each other, three tickets, two roots; instances symmetric | 1,886,086 |
| `tickets_liveness` | the same with `FairSpec` | two instances, two tickets, two roots | 50,722 |
| `root_drop_panic` | the same; expected to fail (section 5) | two instances, two tickets, one root | - |
| `cells_history` | `Cells`, two plugins | two cells, one load, three epochs, two roots | 435,399 |
| `cells_lifecycle` | `Cells`, loads and subscriptions | two generations, two loads, two subscriptions, one ticket | 1,415,954 |
| `generations` | `Generations` | three generations of three plugins, symmetric | 39,634 |
| `sqlite_atomic` | `SqliteStorage` and the refinement of `RecordStore` | two processes, two keys, two values, revision 2, transactions of up to two edits | 390,605 |
| `storage_parts` | `EventJournal`, `ProjectStorage`, `EvidenceStore`, `CheckpointStore`, `CredentialFiles`, `CatalogCache` | two callers or processes each; the constants are in `Storage_parts.cfg` and `MCStorage` | 1,346,322 |
| `graph_parts` | `EffectScope`, `ReactiveGraph`, `GraphWave`, `GraphPlan`, `Composition`, `PluginMetadata`, `GraphExecution` | three plugins, four nodes, two tickets; the constants are in `MCGraphs` | 672,509 |
| `session_parts` | `SessionRuns`, `AcpConnection`, `StreamHosts`, `StdinLines`, `OwnedState`, `LiveValues`, `HttpModelWorker` | two hosts, two runs of one call in up to two turns, one kill, one fault; the others in `MCSessions` | 1,492,816 |
| `session_progress` | liveness of the same | one run of one call, one kill, one fault | 127,973 |
| `models_parts` | `ModelChoice`, `ModelAdmission`, `ModelProtocols`, `ChatGptSignIn`, `CompactedHistory`, `WireDocuments` | the constants are in `MCModels` | 1,086,468 |

Why the bounds are enough. *Tickets*: three make a chain (root call, child, grandchild),
two siblings under one parent, and a call that must be refused; two roots show an
admission after an abandoned one. *Cells*: three epochs give a reader, an overtaking
writer and a batch; lifetimes need two loads and a ticket's subscription beside the
host's. *Generations*: a default, its predecessor and one between; three plugins give a
load that fails in the middle. *Storage*: two writers and two records are a conflict, a
torn transaction and a stale read; the edit limit only repeats them. *Stores*: two
callers and two values; capacities of two or three are reached. *Graphs*: four nodes
hold the diamond, the chain with a node left out and two writers ordered through a
third; the waves run one graph with a join after a branch, nested joins, a merge with a
closed input and a join with an input no flow leads to, in all orders. *Sessions*: two
hosts, one with a plugin that outlives its prompts and so keeps stale copies, two runs of a call each, one death, one failed answer; the
theorems of section 6 remove these bounds, for the calls of one reply above all.
*Protocols*: one part has texts and a call with arguments in two pieces, one has two calls
with ids in up to two pieces, woven in all ways, one has every pair of limits around four
costs, and one has all histories of four messages.
*Connections*: three requests on a queue of two, so that one is refused, with one
cancellation at every moment; sessions are interchangeable. *Models*: two persons, two
processes and one lapse give every pair of operations on a login that replace each other.

Deadlock is checked where a component has a rest state of its own (tickets, whose
stopped or panicked kernel stutters explicitly, and the SQLite store). It is off in
the other runs, whose requests run out and which then rightly stop.

### Fairness

`session_progress` and `tickets_liveness` assume what the code's own loops do. Kernel:
the thread runs (`WF(KernelStep)`), the host keeps calling `drain_cancelled`, which is
how the code says abandoned work ends; plugin code returns, and a call polled again
and again without authority finally answers something other than pending (strong
fairness, since each poll may keep it pending). A plugin that never returns hangs
its host in the code too. Sessions: a host that works goes on working; it need not take a
new prompt. Connections and streams: the controller's loop runs, the client does
nothing it does not want to. Instances: the kernel polls what it cancelled, and a hook
returns; work ends when cancelled. Transport: the thread and the polls run; nothing is
assumed of the network.

`GraphExecution` and `GraphWave` define a `FairSpec` as well; the liveness of graphs is not
among the runs.

## 5. Findings and divergences

`abandon_root` (`kernel/pending.rs:413`) collects the ids of the root and then does
`get_mut(&id).unwrap()` for each. The cancellation of an earlier id runs native code,
which can poll an imported call to its end; `import_pending` then releases the tree of
that call, whose ids are still in the list. The run `root_drop_panic` finds the state:
`Root::drop` panics, though the comment at line 434 says it "cannot return an error" and
leaves unfinished work to `drain_cancelled`. The other runs keep the panic as an
outcome (`panic = "abandon"`, after which nothing happens) and their properties hold.

While modelling, the code was seen to do other things than a comment or document says.
The models do what the code does and no run claims the opposite; each but the last was
seen in a counterexample of TLC to the quoted sentence.

- `kernel/graph.rs:218`: two writers ordered only through a third node lose their
  order when the third is not triggered (comment at 162: "valid only when graph order
  fixes their relative order").
- `kernel/graph/v2/execute.rs:134`: a flow the root's resources do not allow fails the
  root or is dropped, depending on whether a join's other input has closed
  (`spec/graph-architecture-v2.4.md:356`).
- `phenix-plugin-basic-agent/src/lib.rs:792`: when the kernel fails a tool import the
  session is Failed with a pending call; `prepare` refuses it and `reconcile_snapshot`
  accepts only Indeterminate (`spec/basic-agent-contract.md:24`).
- `phenix-plugin-basic-session/src/lib.rs:62`: reconciling the last call makes the
  session Running without an owner marker, which nothing resumes.
- `phenix-basic-runtime/src/main.rs:510`: a host with a stale cached snapshot clears the
  marker of a run it does not see; if it dies before its first pump, a Running session
  has no marker.
- `phenix-basic-runtime/src/main.rs:311`: a prompt cancelled before its first pump is
  answered with an internal error and journals no cancellation.
- `phenix-basic-runtime/src/main.rs:889`: a malformed line read ahead ends the host
  under an active graph (comment at 895: "it must not abandon pending physical work").
- `phenix-basic-runtime/src/acp_sdk.rs:1381`: an admitted switch whose
  compare-and-swap fails is forgotten by a restarted host (comment at 1379).
- `phenix-plugin-model-http/src/lib.rs:44`: the configuration is taken by the first
  model call of a turn, so that a second one of the same run finds none.
- `phenix-plugin-advanced-model-adapter/src/lib.rs:501`: a request that fits is refused
  when nothing can be summarized (`spec/p2-advanced-agent-roadmap.md:209`).
- `phenix-provider-protocols/src/request.rs:50`: the provider's maximum is in the body of
  Anthropic messages only (comment at 28: "an optional provider-configured request
  maximum", for the selected protocol). Chat completions and responses ask for the
  caller's limit even when it is above the maximum, or for no limit, and no reply is held
  to the maximum in any protocol: replies that cost more are reached in `models_parts`.
  The tests ask for this where the caller has no limit
  (`phenix-plugin-model-http/src/tests.rs:312`), so it is mentioned here and no run is made
  of it; `CallersLimitHolds` is about the caller's limit.
- `phenix-plugin-evidence-store/src/lib.rs:136`: a search as of a time after a
  withdrawal answers the revision before it.
- `phenix-plugin-provider-chatgpt/src/lib.rs:151` and `:421`: a record that is equal
  again after a login and a sign-out lets an old callback through; two processes may
  each import a host identity.
- `phenix-provider-credential-files/src/lib.rs:226`: a kill between creating and
  writing the marker leaves one that `recover_pending` rejects and keeps.
- `phenix-macros/src/state.rs:682`: a panicked synchronous operation under a ticket
  never drains (`src/DEVELOPMENT.md:26`).
- `phenix-contract/src/static_schema.rs:72`: deeply nested or non-ASCII names compile
  as constants and are refused when loaded.

## 6. Proofs

`tlapm` checks every theorem to the last leaf, for any number of instances, tickets,
generations, processes, keys, hosts, runs and calls; nothing is assumed beyond the
`ASSUME`s of the modules, which state the shape of the constants (imports connect
providers, a startup order lists each plugin once, bounds are naturals) and which TLC
evaluates in the runs. The bounds that make the runs finite are constants of any size
in the theorems.

| theorem | statement | rests on |
|---|---|---|
| `PendingTicketsProofs!TypeCorrect` | `Spec => []TypeOK` | itself |
| `CallsStayExclusive` | `Spec => []CallsAreExclusive` | `LeaseInv` |
| `TicketsAlwaysSettle` | `Spec => []TicketsSettle` | `RevInv` |
| `AuthorityAlwaysFollows` | `Spec => []AuthorityFollowsTheForest` | `RevInv` |
| `OutcomesStayFinal` | `Spec => OutcomesAreFinal` | `RevInv`, `Moves` |
| `KernelKeepsTheLease` | `Spec => ImplementsKernelLease` | `RevInv`, `Moves` |
| `Generations!GenerationsAlwaysSafe` | `Spec => []GenerationsAreSafe` | `Inv` |
| `SqliteStorage!StorageKeepsThePromise` | `Spec => KeepsThePromise` | `IInv` |
| `DatabaseAlwaysSound`, `ForeignSafe` | `Spec => []DatabaseIsSound`, `Spec => ForeignDatabasesAreUntouched` | `TypeOK`, `Settled` |
| `KernelProofs!ScopesAlwaysSound` | `Spec => []ScopesAreSound` | `IInv` |
| `SessionProofs!EffectsAreAlwaysSafe` | `Spec => []EffectsAreSafe` | `IInv` |
| `RunsAlwaysEndOnce` | `Spec => RunsEndOnce` | `EInv` |
| `StoreProofs!CredentialsAlwaysSurvive` | `Spec => CredentialsSurvive` | `IInv` |
| `CataloguesStayCurrent` | `Spec => CataloguesAreCurrent` of `CatalogCache` | `CatalogueInv` |
| `ProjectsStaySerializable` | `Spec => []ProjectIsSerializable` of `ProjectStorage` | `MembersInv` |
| `CheckpointsStayALine` | `Spec => CheckpointsFormALine` of `CheckpointStore` | `LineInv` |
| `EvidenceStaysKept` | `Spec => EvidenceIsKept` of `EvidenceStore` | `EvidenceInv` |
| `JournalsStayLogs` | `Spec => JournalIsALog` of `EventJournal` | `JournalInv` |
| `ChatGptSignInProofs!SignInsAlwaysSound` | `Spec => SignInsAreSound` | `IInv` |
| `SessionProofs!InstancesAlwaysKeepTheirFields` | `Spec => InstancesKeepTheirFields` of `OwnedState` | `OwnerInv` |
| `TransportsStaySilenced` | `Spec => TransportsAreSilenced` of `HttpModelWorker` | `WorkInv` |
| `Cells!CellsAlwaysFollow` | `Spec => []CellsFollowTheirLoads` | `Inv` |
| `HistoryAlwaysObserved` | `Spec => HistoryIsObserved` | `Inv`, `HistoryInv` |
| `KernelProofs!WavesFollowTheirGraph` | `Spec => [](TypeOK /\ Confluent /\ CalledExactlyWhenFired /\ OnlyDeadJoinsAreReleased)` of `GraphWave` | `WaveInv` |
| `WavesStayConfluent` | `Spec => []WavesAreConfluent`, for roots with room for all values that may deliver them all | `WaveInv`, `RoomInv` |

**Pending calls.** `OneLeasePerProvider` is not inductive: what keeps an instance from
being entered twice while plugins call back is that the call stack is a path down the
forest of tickets. `StackFollowsForest` says so - each entry serves a ticket below those
of the entries under it, each loop has only children of its own ticket left to visit,
and no quiescent ticket has live work below - and each step keeps it, the releases
because what they release is above nothing on the stack. "Below" would need induction
along parents; it is defined by closed sets instead (`Below`), and where a least or
greatest ticket is needed, `MinElement` and `MaxElement` supply it. `LookupsSucceed`
follows: `abandon_root` is the only loop that meets a released ticket (section 5).

Revocation and settlement hold in full only between host calls; in the middle of one,
suspended routines still owe something. `RevocationIsUnderWay` and `FlagsAreExact` state
the properties of every state *up to what is owed*: a child of a revoked ticket is revoked, over, or in
the list of a loop on the stack (`WillCancel`); flags are exact or a reply is being
settled (`WillRefresh`); a ticket of a dropped root is abandoned or still to be visited
(`WillAbandon`). They were checked by TLC as part of `TicketsSettle` and
`AuthorityFollowsTheForest` before they were proved. One conjunct had to be found on the
way: `abandon_root` and `drain_cancelled` are on the stack only once the root is dropped
(second part of `RootAuthority`), so that every ticket they meet is abandoned or owed.
The proof has one lemma per action. `Moves(T, U, c)` is what all actions but
`Begin` do to the map: records advance, only ticket `c` is decided or revoked, what
disappears is quiescent. `OutcomesAreFinal` and the refinement of `KernelLease` need
nothing else: `Begin` is an acquisition under a held root (by `AuthorizedFacts`), and
`Moves` ends leases or stutters.

**Generations.** `Ownership` ties each generation's status, images, handle and leases to
the load or stop in progress; `LoadInOrder` says the images of a load are a prefix of the
startup order, from which a failed load unwinds.

**SQLite.** What the write lock protects: the working rows of the process that holds it
are the committed rows with the edits so far, each of which matched the committed row.
So `COMMIT` is the transaction of `RecordStore` at one moment, and every other statement
stutters.

**Effect authority.** A scope is computed once, from that of the frame on top, and then
only copied; the invariant `Good` bounds it by all callers, and one computation keeps it.

**Session runs.** `IInv`: a host past the lock is alone, so its agent's copy is the stored
session where it drives a run, and other plugins' caches trail the store; the pending
calls of a run are numbered on from the recorded ones, so the next was never executed;
a failed write leaves either snapshot. `EInv` adds how runs end: each step of a host
keeps the store, advances the session or tells the journal an event (`Keeps`, `Saves`,
`Tells`); a host that tells an end owns the run (`Owned`), it is the stored one, and
no cache can continue it.

**Credential files.** A power failure may leave any of the directories since the last
fsync, so the invariant speaks of each that could survive: by itself it is a sound one (`SurvivorsAreSound`) - every candidate beside its whole marker, every
profile absent or a credential that was written to its end - and the credentials
acknowledged last are in all of them. The second half is `Progress`: the process that
holds the lock knows, from the system call it is at, which files of the directory it
made, moved or synced; a kill leaves the files and drops the knowledge, which is why
recovery may assume nothing but the first half.

**Sign-ins.** `LoginsInv` says where a record that a task or an attempt carries comes
from: the issuer opened its session for a client that was stored (`GoodRecord`), a task
that renews or signs out read it from the store (`WasStored`), a login that has still to
commit holds a session that never was there and that no other login holds
(`CommitsAreDistinct`). `StoredLoginsRenew` needs the history of the issuer as well: every
refresh token but the last was spent on an account that lapsed (`LapsedOK`), so at most
`MaxLapses` were. `CountsInv` counts sessions, exchanges under way and answered attempts:
each step moves at most one of them from one side to the other.

**Catalogues.** `AsksAreOrdered`: of one connection, the requests under way and the one the
entry answers are ordered alike by the clock, the credential and the page they saw, so a
late answer that `put` turns away by its clock is an older one, and one it keeps is not.

**Project storage.** A reader past its check saw one committed state of its own time, in
which its session was a member; a writer past its check holds the lock, what it read is the
last committed state, and what it is to commit follows from that state and its request
alone (`CallOK`, `Changed`). So a commit adds one whole change to the history.

**Checkpoints.** What a call loaded is how the line began, and of it what is not left to
verify had lost nothing that was known to be lost when the call began (`Reached`). Since the
swap demands that the line is still the loaded one but for the last checkpoint, whoever
creates a checkpoint owns its creation until the answer (`Owns`): nobody else can swap it
in, for its identity is in the line.

**Evidence.** Of an identity, the records follow one another in revision and in time
(`Follows`): a record that has an end is over when the next one begins. So the newest of
those valid at a moment is the only one with an end, and a record that is appended
changes what is selected only where it is valid itself. `HasNewest` is part of the
invariant because a greatest revision need not exist in a set of which only the type is
known.

**Journal.** A process is taken as one record and all that is shared as another, so that
what it knows can be stated once (`ClientOK`) and shown to endure what others do
(`ClientEndures`, from `Later`: the log is extended, revisions and places advance). What a
process read at a revision is how the log began, and the whole log as long as the revision
is the same (`ReadTheLog`); so an edit the store applies extends the log it was computed
from. A batch is in the log at most once because nothing of an attempt is there before its
edit is applied (`Unwritten`) and an attempt submits one edit; an answer that failed leaves
open whether it was, and the next attempt is another one. A place moves only past events
that are in `shown`, whose printing precedes the request.

**Plugin instances.** Whoever is inside a hook holds the flag that marks the instance
poisoned and puts back what it found there, which says whether an earlier hook panicked
(`EntryOK`); a hook runs for the ticket of its call, and work belongs to a ticket that is
not quiescent (`WorkOK`).

**Transports.** Until a text is refused, what a call was sent is in the journal, with the
poll that took it, or still with the thread, in this order (`TextIsSomewhere`); a poll that
saw its thread finished before it took the text has left none (`PollOK`), so the reply it
gives is whole.


**Cells.** `Inv` says why a location cannot outlive its load: the incarnations of a load
are larger than those in any location handed out before (`Incarnations`), and a kernel
that is down has no owner. A plugin counts as initialized when it has as many cells as
declarations; that these are the declared ones is a counting argument (`CreatedAll`), and
the one place where the declarations must be finite. `HistoryInv` rests on a fact about
drafts: what a caller read has the value its revision counts, so an edit whose revision
matches computes from the current value. A batch adds its epoch to the batches that name
a cell, one more than there were (`HistoryKept`); a change after the epoch cursor of a
graph execution stays after it until a wave reports it (`GraphKept`).


**Dataflow waves.** `Fate` says without time what a graph makes of each node, recursively
over the flows into it. That such a function exists is itself a theorem (`FateExists`):
flows go forwards, so there is no least node at which it would fail (`LeastElement`, from
the well-foundedness of finite sets). `ArrivalsOK` then says that each resolved flow
carries what the fates say, that exactly the flows out of finished nodes are resolved, and
that payloads are released where a join can no longer run and nowhere else; what a node
sees of its inputs (`InputFacts`) is its own fate or nothing yet. A wave that fails because
its values do not fit in `MAX_ROOT_VALUES`, or because the root's scope denies a flow, may
do so in one order of answers and not in another - a join that closes in time needs no
delivery - so `WavesStayConfluent` assumes room and scope; `WavesFollowTheirGraph` does not.

Only model-checked: liveness (`RootsAndCallsEnd`, `SessionsMakeProgress`), which is beyond
the prover; what operators declared `RECURSIVE` compute for every input (the orders of
`GraphOrder`, the encodings of `WireDocuments`, the divisions of `CompactedHistory`); and
the properties that no theorem above states, which the runs check in all behaviours within
their bounds.

## 7. Not modelled

In the modelled components: wake permits and notification counters; the exhaustion of
64-bit identity counters, which the code checks; text, formatting and logging; the ABI;
digests and the canonical tuple of a generation; JSON views. Whole components: the
memory and tools plugins (file and process access behind one call each, no state
between calls), workspace selection, product assemblies and launch files, test
fixtures and conformance programs, the OpenAI API provider and key-input sign-in (the
browser sign-in has the harder protocol). `components` in `PROJECT.json` says for each
component what is left out.

## 8. Plan

Done: the kernel (pending calls, leases, cells, generations, authority), graphs and
resolution, storage and what is kept in it, sessions and their hosts, models and their
transport, the wire format; the theorems of section 6. Left to prove: `LiveValues`,
`StreamHosts` and `AcpConnection`, whose steps are many and small.
