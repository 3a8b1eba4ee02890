--------------------------- MODULE GraphExecution ----------------------------
(***************************************************************************)
(* One execution of a reactive graph on an admitted root (graph.rs): the   *)
(* pump that polls, starts, skips and cancels nodes, the waves of hooks    *)
(* that follow committed properties, and the host that drives it.          *)
(*                                                                         *)
(* The kernel and its plugins run on the host's thread, so a pump is       *)
(* interleaved with nothing but the plugin code it enters; each iteration  *)
(* of its loops is an action.  A call's ticket tree is the set of providers*)
(* it still occupies (PendingTickets models the tree itself).              *)
(***************************************************************************)
EXTENDS GraphOrder

CONSTANTS Nodes,       \* numbers in the lexical order of the node keys
          After,       \* GraphNode.after of every node
          Provider,    \* the provider each node's operation is bound to
          FailRoot,    \* nodes with FailurePolicy::FailRoot
          Triggered,   \* nodes the action's event triggers
          Watches,     \* properties whose commits trigger each node
          Writes,      \* properties each node's operation may commit
          Asynchronous,\* begin_action_scoped, not submit_action
          MaxPumps     \* MAX_SYNC_GRAPH_PUMPS

NodesAssumption == Nodes \subseteq Nat \ {0} /\ IsFiniteSet(Nodes)
GraphAssumption ==
    /\ After \in [Nodes -> SUBSET Nodes] /\ Acyclic(After)
    /\ DOMAIN Provider = Nodes /\ DOMAIN Watches = Nodes /\ DOMAIN Writes = Nodes
    /\ FailRoot \subseteq Nodes /\ Triggered \subseteq Nodes
HostAssumption == Asynchronous \in BOOLEAN /\ MaxPumps \in Nat \ {0}

Providers == Range(Provider)
Properties == UNION (Range(Watches) \cup Range(Writes))

VARIABLES
    phase,        \* where the pump or the host is
    todo,         \* nodes the loop has still to visit, in order
    active,       \* GraphExecution.active: the order of the current wave
    waiting,      \* GraphExecution.waiting
    pending,      \* nodes with a pending ticket
    draining,     \* nodes whose ticket is in the draining list
    unsuccessful, \* GraphExecution.unsuccessful
    request,      \* properties named in each node's hook request
    hadDomain, failure, cancelled, stopped, terminal,
    status,       \* what the last pump returned
    pumps,        \* pumps of a synchronous host
    lease,        \* provider -> the node whose ticket tree occupies it, or 0
    changed,      \* watched properties committed since state_cursor
    owed,         \* history: <<n, w>>: n has yet to be told of a commit of w
    ran,          \* history: nodes started in this wave
    succeeded     \* history: nodes that succeeded in this wave

flags == <<hadDomain, failure, cancelled, stopped, terminal>>
wave == <<active, waiting, unsuccessful, request, ran, succeeded>>
commits == <<changed, owed>>
host == <<status, pumps>>
vars == <<phase, todo, pending, draining, lease, flags, wave, commits, host>>

Activation(S) == Order(Restrict2(After, S)).result

Phases == {"ready", "drain", "poll", "start", "settle", "cancel",
           "failed", "gone"}

(* begin_action_inner. *)
Init ==
    /\ phase = "ready" /\ todo = <<>>
    /\ active = Activation(Triggered) /\ waiting = Triggered
    /\ pending = {} /\ draining = {} /\ unsuccessful = {}
    /\ request = [n \in Nodes |-> {}]
    /\ hadDomain = FALSE /\ failure = FALSE /\ cancelled = FALSE
    /\ stopped = FALSE /\ terminal = FALSE
    /\ status = "Pending" /\ pumps = 0
    /\ lease = [p \in Providers |-> 0]
    /\ changed = {} /\ owed = {} /\ ran = {} /\ succeeded = {}
-----------------------------------------------------------------------------
(***************************************************************************)
(* Plugin code entered by a poll, a cancel or a call.  Its tree is what its*)
(* ticket occupies afterwards: the node's own provider while the ticket is *)
(* not quiescent, and the providers of its live imports.                   *)
(***************************************************************************)
Tree(n) == {p \in Providers : lease[p] = n}

Free == {p \in Providers : lease[p] = 0}

(* The trees native code may leave: nothing, or the provider and imports.  *)
Live(n, may) == {T \in SUBSET may : Provider[n] \in T}

Occupy(n, T) ==
    lease' = [p \in Providers |-> IF p \in T THEN n
                                  ELSE IF lease[p] = n THEN 0 ELSE lease[p]]

Owe(W) == owed' = owed \cup {<<n, w>> \in Nodes \X W : w \in Watches[n]}

Commit(W) == changed' = changed \cup W /\ Owe(W)

(* The kernel is stopped: a poll or a cancel fails and pump leaves by `?`. *)
Fault ==
    /\ phase' = "failed" /\ todo' = <<>>
    /\ UNCHANGED <<lease, flags, wave, commits, host>>

Goto(p, s) == phase' = p /\ todo' = s

Continue == phase' = phase /\ todo' = Tail(todo)

(* cancel_pending takes the whole map of pending tickets. *)
TakePending(p) == Goto(p, Ascending(pending)) /\ pending' = {}

Settle ==
    IF stopped THEN TakePending("settle") ELSE Goto("settle", <<>>) /\ UNCHANGED pending

(***************************************************************************)
(* finish_node.                                                            *)
(***************************************************************************)
(* Fault: a domain failure does not suppress the node's successors. *)
FinishForgetful(n, result) ==
    /\ hadDomain' = (hadDomain \/ result = "domain")
    /\ UNCHANGED unsuccessful
    /\ stopped' = (stopped \/ result = "failure" \/ (result = "domain" /\ n \in FailRoot))
    /\ failure' = (failure \/ result = "failure")
    /\ succeeded' = succeeded \cup (IF result = "ok" THEN {n} ELSE {})
    /\ UNCHANGED <<cancelled, terminal>>

Finish(n, result) ==
    /\ hadDomain' = (hadDomain \/ result = "domain")
    /\ unsuccessful' = unsuccessful \cup (IF result = "domain" THEN {n} ELSE {})
    /\ stopped' = (stopped \/ result = "failure" \/ (result = "domain" /\ n \in FailRoot))
    /\ failure' = (failure \/ result = "failure")
    /\ succeeded' = succeeded \cup (IF result = "ok" THEN {n} ELSE {})
    /\ UNCHANGED <<cancelled, terminal>>

(* A terminal reply that is no failure is quiescent; one that is may leave *)
(* native work or imports behind, which then only drain (accept_reply).    *)
Answer(n, may) ==
    \E result \in {"ok", "domain", "failure"}, T \in {{}} \cup Live(n, may) :
        /\ result # "failure" => T = {}
        /\ Occupy(n, T)
        /\ draining' = draining \cup (IF T = {} THEN {} ELSE {n})
        /\ Finish(n, result)

(* The synchronous call cancels and fails after its last pump. *)
GivesUp == ~Asynchronous /\ pumps = MaxPumps /\ status # "Finished"

(***************************************************************************)
(* Leases that only drain are polled first, in every pump.                 *)
(***************************************************************************)
StartPump ==
    /\ phase = "ready" /\ status # "Finished"
    /\ ~GivesUp
    /\ Goto("drain", Ascending(draining)) /\ draining' = {}
    /\ pumps' = IF Asynchronous \/ pumps = MaxPumps THEN pumps ELSE pumps + 1
    /\ UNCHANGED <<pending, lease, flags, wave, commits, status>>

DrainOne ==
    /\ phase = "drain" /\ todo # <<>>
    /\ LET n == Head(todo)
       IN  \/ \E T \in {{}} \cup Live(n, Tree(n)) :
                /\ Occupy(n, T)
                /\ draining' = draining \cup (IF T = {} THEN {} ELSE {n})
                /\ Continue
                /\ UNCHANGED <<flags, wave, commits, host>>
           \/ Fault /\ UNCHANGED draining
    /\ UNCHANGED pending

Drained ==
    /\ phase = "drain" /\ todo = <<>>
    /\ IF stopped THEN Settle ELSE Goto("poll", Ascending(pending)) /\ UNCHANGED pending
    /\ UNCHANGED <<draining, lease, flags, wave, commits, host>>

(* The loops over pending and active nodes end when the root stops. *)
Stops == stopped

(***************************************************************************)
(* accept_poll for one pending node.                                       *)
(***************************************************************************)
PollOne ==
    /\ phase = "poll" /\ todo # <<>> /\ ~Stops
    /\ LET n == Head(todo)
       IN  \/ \E W \in SUBSET Writes[n] :
                /\ Commit(W) /\ Continue
                /\ \/ \E T \in Live(n, Tree(n) \cup Free) :
                        /\ Occupy(n, T)
                        /\ UNCHANGED <<pending, draining, flags, wave>>
                   \/ /\ Answer(n, Tree(n) \cup Free)
                      /\ pending' = pending \ {n}
                      /\ UNCHANGED <<active, waiting, request, ran>>
                /\ UNCHANGED host
           \/ /\ Fault /\ pending' = pending \ {n} /\ UNCHANGED draining

Polled ==
    /\ phase = "poll" /\ (Stops \/ todo = <<>>)
    /\ Goto("start", active)
    /\ UNCHANGED <<pending, draining, lease, flags, wave, commits, host>>

(***************************************************************************)
(* The active nodes in order: skipped, left waiting, or called.            *)
(***************************************************************************)
Suppressed(n) == After[n] \cap unsuccessful # {}

Blocked(n) == After[n] \cap (waiting \cup pending) # {}

Busy(n) == lease[Provider[n]] # 0

Skip(n) ==
    /\ Suppressed(n)
    /\ waiting' = waiting \ {n}
    /\ unsuccessful' = unsuccessful \cup {n}
    /\ hadDomain' = TRUE
    /\ UNCHANGED <<pending, draining, lease, failure, cancelled, stopped, terminal,
                   active, request, ran, succeeded, commits>>

Leave(n) ==
    /\ ~Suppressed(n) /\ (Blocked(n) \/ Busy(n))
    /\ UNCHANGED <<pending, draining, lease, flags, wave, commits>>

(* call_graph, and accept_poll at once for a ticket that is already decided.*)
Call(n) ==
    /\ ~Suppressed(n) /\ ~Blocked(n) /\ ~Busy(n)
    /\ waiting' = waiting \ {n} /\ ran' = ran \cup {n}
    /\ \E W \in SUBSET Writes[n] : Commit(W)
    /\ \/ /\ Asynchronous
          /\ \E T \in Live(n, Free) : Occupy(n, T)
          /\ pending' = pending \cup {n}
          /\ UNCHANGED <<draining, flags, unsuccessful, succeeded>>
       \/ /\ Answer(n, IF Asynchronous THEN Free ELSE {})
          /\ UNCHANGED pending
    /\ UNCHANGED <<active, request>>

StartOne ==
    /\ phase = "start" /\ todo # <<>> /\ ~Stops
    /\ LET n == Head(todo)
       IN  \/ n \notin waiting /\ UNCHANGED <<pending, draining, lease, flags, wave, commits>>
           \/ n \in waiting /\ (Skip(n) \/ Leave(n) \/ Call(n))
    /\ Continue /\ UNCHANGED host

Started ==
    /\ phase = "start" /\ (Stops \/ todo = <<>>)
    /\ Settle
    /\ UNCHANGED <<draining, lease, flags, wave, commits, host>>

(***************************************************************************)
(* cancel_pending, for a root that stopped and for a host that cancels.    *)
(***************************************************************************)
CancelTicket(n) ==
    \E T \in {{}} \cup Live(n, Tree(n)) :
        /\ Occupy(n, T)
        /\ draining' = draining \cup (IF T = {} THEN {} ELSE {n})

CancelOne ==
    /\ phase \in {"settle", "cancel"} /\ todo # <<>>
    /\ \/ CancelTicket(Head(todo)) /\ Continue /\ UNCHANGED <<flags, wave, commits, host>>
       \/ Fault /\ UNCHANGED draining
    /\ UNCHANGED pending

(***************************************************************************)
(* Hooks of the properties committed since the last wave, then the end.    *)
(***************************************************************************)
Settled == waiting = {} /\ pending = {}

Hooks(P) == {n \in Nodes : Watches[n] \cap P # {}}

Admit(P) ==
    LET N == Hooks(P)
    IN  /\ active' = Activation(N) /\ waiting' = N /\ unsuccessful' = {}
        /\ request' = [n \in Nodes |-> IF n \in N THEN Watches[n] \cap P ELSE {}]
        /\ ran' = {} /\ succeeded' = {}
        /\ changed' = {} /\ owed' = {d \in owed : d[2] \notin request'[d[1]]}

Report == IF ~terminal' THEN "Pending" ELSE IF draining = {} THEN "Finished" ELSE "Draining"

Ends == stopped \/ Settled

Conclude ==
    /\ phase = "settle" /\ todo = <<>>
    /\ \/ /\ ~terminal /\ ~stopped /\ Settled /\ Hooks(changed) # {}
          /\ Admit(changed)
          /\ UNCHANGED terminal
       \/ /\ ~(~terminal /\ ~stopped /\ Settled /\ Hooks(changed) # {})
          /\ changed' = IF ~terminal /\ ~stopped /\ Settled THEN {} ELSE changed
          /\ terminal' = (terminal \/ Ends)
          /\ UNCHANGED <<wave, owed>>
    /\ status' = Report
    /\ Goto("ready", <<>>)
    /\ UNCHANGED <<pending, draining, lease, hadDomain, failure, cancelled, stopped, pumps>>
-----------------------------------------------------------------------------
(***************************************************************************)
(* The host between two pumps.                                             *)
(***************************************************************************)
(* invoke_selected on the execution's root. *)
HostCommits ==
    /\ phase = "ready" /\ Asynchronous /\ ~terminal
    /\ \E w \in Properties : Commit({w})
    /\ UNCHANGED <<phase, todo, pending, draining, lease, flags, wave, host>>

(* A second cancel changes nothing. *)
HostCancels ==
    /\ phase = "ready" /\ Asynchronous /\ ~terminal /\ ~cancelled
    /\ cancelled' = TRUE /\ stopped' = TRUE
    /\ TakePending("cancel")
    /\ UNCHANGED <<draining, lease, hadDomain, failure, terminal, wave, commits, host>>

Cancelled ==
    /\ phase = "cancel" /\ todo = <<>>
    /\ phase' = "ready"
    /\ UNCHANGED <<todo, pending, draining, lease, flags, wave, commits, host>>

(* The handle is dropped when the host is done, gives up or gets an error; *)
(* the kernel then cancels and drains what the root still occupies.        *)
Drop ==
    /\ phase \in {"ready", "failed"}
    /\ Asynchronous \/ phase = "failed" \/ status = "Finished" \/ GivesUp
    /\ phase' = "gone"
    /\ pending' = {} /\ draining' = {}
    /\ UNCHANGED <<todo, lease, flags, wave, commits, host>>

Reclaim ==
    /\ phase = "gone"
    /\ \E n \in Nodes : Tree(n) # {} /\ Occupy(n, {})
    /\ UNCHANGED <<phase, todo, pending, draining, flags, wave, commits, host>>

Over == phase = "gone" /\ Free = Providers /\ UNCHANGED vars

Pump == StartPump \/ DrainOne \/ Drained \/ PollOne \/ Polled \/ StartOne \/ Started
        \/ CancelOne \/ Conclude \/ Cancelled

Next == Pump \/ HostCommits \/ HostCancels \/ Drop \/ Reclaim \/ Over

Spec == Init /\ [][Next]_vars

(* The host pumps until the execution is finished and then drops it.       *)
FairSpec == Spec /\ WF_vars(Pump) /\ WF_vars(Drop /\ (status = "Finished" \/ phase = "failed" \/ GivesUp))
-----------------------------------------------------------------------------
TypeOK ==
    /\ phase \in Phases /\ Range(todo) \subseteq Nodes
    /\ Range(active) \subseteq Nodes /\ waiting \subseteq Range(active)
    /\ pending \subseteq Nodes \ waiting /\ draining \subseteq Nodes \ pending
    /\ unsuccessful \subseteq Range(active) \ waiting
    /\ request \in [Nodes -> SUBSET Properties]
    /\ {hadDomain, failure, cancelled, stopped, terminal} \subseteq BOOLEAN
    /\ status \in {"Pending", "Draining", "Finished"} /\ pumps \in 0 .. MaxPumps
    /\ lease \in [Providers -> Nodes \cup {0}]
    /\ changed \subseteq Properties /\ owed \subseteq Nodes \X Properties
    /\ ran \cup succeeded \subseteq Nodes

(* A node is called only when everything before it in its wave succeeded:  *)
(* skipping is transitive, pending work is waited for, and a wave does not *)
(* see the failures of another.                                            *)
DependenciesFirst ==
    \A n \in ran : After[n] \cap Range(active) \subseteq succeeded

(* An execution reported successful ran every node of its last wave to     *)
(* success; one that ended with domain failures decided every node.        *)
SuccessMeansAll ==
    terminal /\ ~stopped =>
        /\ Range(active) = succeeded \cup unsuccessful
        /\ ~hadDomain => unsuccessful = {}

(* No commit of a watched property is lost: when an execution ends without *)
(* being stopped, every hook was activated with it by a wave admitted after*)
(* the commit, whichever wave, poll or host call it fell into.             *)
HooksMissNothing == terminal /\ ~stopped => owed = {}

(* Every ticket that occupies a provider is known to the execution, unless *)
(* a pump failed and left it to the kernel's cleanup of the root.          *)
TicketsAreTracked ==
    phase \notin {"failed", "gone"} =>
        \A n \in Nodes : Tree(n) # {} => n \in pending \cup draining \cup Range(todo)

(* Finished is reported only when no native code of the execution runs.    *)
FinishedIsQuiescent == status = "Finished" => Free = Providers

(* A node is called only when its provider is free of every ticket, of the *)
(* calls of other nodes and of their imports: the kernel would refuse the  *)
(* call and the refusal would fail the whole root.                         *)
CallsFindTheirProvider ==
    \A n \in ran' \ ran : Provider[n] \in Free

(* Once the root stopped, by a failure or a cancellation, no node is called*)
(* and no provider is occupied anew; what runs only drains.                *)
NothingStartsAfterStop ==
    stopped => ran' \subseteq ran /\ Free \subseteq Free'

(* A cancelled execution reports its end, however long native code drains. *)
CancelledRunsEnd == cancelled ~> (terminal \/ phase = "gone")

(* A synchronous call returns, also when a hook keeps committing the       *)
(* property it watches.                                                    *)
SyncReturns == <>(phase = "gone")
=============================================================================
