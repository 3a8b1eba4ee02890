------------------------------ MODULE GraphWave ------------------------------
(***************************************************************************)
(* The single wave of a dataflow graph execution (graph/v2/execute.rs):    *)
(* every flow edge is resolved once, to a value, closed or failed, while   *)
(* operations complete in any order.  Nodes are numbered in the compiled   *)
(* order.  What an operation answers and which case a switch takes is fixed*)
(* in the initial state, so that behaviours differ only in their timing.   *)
(***************************************************************************)
EXTENDS Naturals, FiniteSets

CONSTANTS Nodes,     \* 1 .. n, in compiled order
          Kinds,      \* source, constant, switch, merge, join or invoke
          Inputs,    \* the input ports each node declares
          Flows,     \* [from, port, to, in]: the flow edges
          Orders,    \* <<before, after>>: the order edges
          Cases,     \* the ports of each switch
          Source,    \* the source node of the admitted action
          Provider,  \* the provider of each invoke
          Denied,    \* flows whose delivery the root's scope does not allow
          MaxValues  \* MAX_ROOT_VALUES

Invokes == {n \in Nodes : Kinds[n] = "invoke"}
Switches == {n \in Nodes : Kinds[n] = "switch"}
Joins == {n \in Nodes : Kinds[n] = "join"}

NoPort == "none"

(* What compile accepts: flows go forwards, only a merge takes more than   *)
(* one of them into one input, and an input need not have any.             *)
GraphAssumption ==
    /\ IsFiniteSet(Nodes) /\ Nodes = 1 .. Cardinality(Nodes)
    /\ Source \in Nodes /\ Kinds[Source] = "source"
    /\ IsFiniteSet(Flows)
    /\ \A e \in Flows : e.from \in Nodes /\ e.to \in Nodes /\ e.from < e.to /\ e.port # NoPort
    /\ \A n \in Nodes : Kinds[n] # "source" => Inputs[n] # {}
    /\ \A e \in Flows : e.in \in Inputs[e.to]
    /\ \A e, d \in Flows : e # d /\ e.to = d.to /\ e.in = d.in => Kinds[e.to] = "merge"
    /\ \A s \in Switches : NoPort \notin Cases[s]
    /\ \A o \in Orders : o \in Nodes \X Nodes /\ o[1] < o[2]
    /\ Denied \subseteq Flows /\ MaxValues \in Nat

VARIABLES
    policy,    \* the DomainErrorPolicy of each invoke
    outcome,   \* what each invoke will answer
    taken,     \* the case each switch will take
    at,        \* the node the walk of this pump is at; 0: the host's turn
    polls,     \* pending nodes this pump has still to poll
    arrivals,  \* Wave.arrivals
    started, done, values,
    pending,   \* nodes with a pending ticket
    stopped, failure

choices == <<policy, outcome, taken>>
state == <<arrivals, done, values>>
vars == <<choices, at, polls, state, started, pending, stopped, failure>>

ErrorPolicies == {"RouteErr", "SkipDependents", "FailRoot"}

Init ==
    /\ policy \in [Invokes -> ErrorPolicies]
    /\ outcome \in [Invokes -> {"ok", "err", "kernel"}]
    /\ taken \in [Switches -> UNION {Cases[s] : s \in Switches}]
    /\ \A s \in Switches : taken[s] \in Cases[s]
    /\ at = 0 /\ polls = {}
    /\ arrivals = [e \in Flows |-> "unresolved"]
    /\ started = {} /\ done = {} /\ values = 0
    /\ pending = {} /\ stopped = FALSE /\ failure = FALSE
-----------------------------------------------------------------------------
Into(n) == {e \in Flows : e.to = n}
OutOf(n) == {e \in Flows : e.from = n}

(* port_input: nothing before every candidate is terminal; then a failure  *)
(* dominates, and at most one candidate may carry a value.                 *)
PortInput(arr, n, i) ==
    LET found == {arr[e] : e \in {d \in Into(n) : d.in = i}}
        valued == {e \in Into(n) : e.in = i /\ arr[e] \in {"value", "released"}}
    IN  IF "unresolved" \in found THEN "unresolved"
        ELSE IF "failed" \in found THEN "failed"
        ELSE IF valued = {} THEN "closed"
        ELSE IF Cardinality(valued) > 1 THEN "conflict"
        ELSE arr[CHOOSE e \in valued : TRUE]

(* join_non_runnable: a required input is closed for good, or has no flow. *)
NonRunnable(arr, j) ==
    \E i \in Inputs[j] : \A e \in Into(j) : e.in = i => arr[e] = "closed"

(* Fault: a join closes as soon as one of its inputs does. *)
InputEager(arr, n) ==
    LET ports == {PortInput(arr, n, i) : i \in Inputs[n]}
    IN  IF n \in Joins /\ NonRunnable(arr, n) THEN "closed"
        ELSE IF "unresolved" \in ports THEN "unresolved"
        ELSE IF "failed" \in ports THEN "failed"
        ELSE IF "conflict" \in ports THEN "conflict"
        ELSE IF "released" \in ports THEN "released"
        ELSE IF ports \subseteq {"closed"} THEN "closed"
        ELSE "value"

(* input.  A join waits for every input, even when one of them has closed. *)
Input(arr, n) ==
    LET ports == {PortInput(arr, n, i) : i \in Inputs[n]}
    IN  IF "unresolved" \in ports THEN "unresolved"
        ELSE IF "failed" \in ports THEN "failed"
        ELSE IF n \in Joins /\ NonRunnable(arr, n) THEN "closed"
        ELSE IF "conflict" \in ports THEN "conflict"
        ELSE IF "released" \in ports THEN "released"
        ELSE IF ports \subseteq {"closed"} THEN "closed"
        ELSE "value"

(***************************************************************************)
(* deliver: resolve the flows out of n, with a value on one port or none.  *)
(***************************************************************************)
(* Siblings of the chosen port first. *)
Unchosen(n, port, failed) ==
    [e \in Flows |-> IF e.from # n \/ e.port = port THEN arrivals[e]
                     ELSE IF failed THEN "failed" ELSE "closed"]

(* release_join_payloads, for every join a flow of n leads to. *)
Release(arr, n) ==
    LET dead == {j \in Joins : (\E e \in OutOf(n) : e.to = j) /\ NonRunnable(arr, j)}
    IN  [e \in Flows |-> IF e.to \in dead /\ arr[e] = "value" THEN "released" ELSE arr[e]]

Discarded(arr, e) == e.to \in Joins /\ NonRunnable(arr, e.to)

(* extra: values already counted for this completion. *)
Deliver(n, port, failed, extra) ==
    LET before == Release(Unchosen(n, port, failed), n)
        chosen == {e \in OutOf(n) : e.port = port}
        kept == {e \in chosen : ~Discarded(before, e)}
        count == values + extra + (IF port = NoPort THEN 0 ELSE 1) + Cardinality(kept)
        good == kept \cap Denied = {} /\ count <= MaxValues
    IN  /\ values' = count
        /\ arrivals' = IF ~good THEN arrivals
                       ELSE [e \in Flows |-> IF e \in kept THEN "value"
                                             ELSE IF e \in chosen THEN "released"
                                             ELSE before[e]]
        /\ done' = IF good THEN done \cup {n} ELSE done
        /\ failure' = (failure \/ ~good)

Fail == failure' = TRUE /\ stopped' = TRUE /\ UNCHANGED state

(* finish_node and complete. *)
Complete(n) ==
    \/ /\ outcome[n] = "kernel"
       /\ Fail
    \/ /\ outcome[n] = "ok" \/ (outcome[n] = "err" /\ policy[n] = "RouteErr")
       /\ Deliver(n, outcome[n], FALSE, 0)
       /\ stopped' = failure'
    \/ /\ outcome[n] = "err" /\ policy[n] # "RouteErr"
       /\ Deliver(n, NoPort, TRUE, 1)
       /\ stopped' = (failure' \/ policy[n] = "FailRoot")
-----------------------------------------------------------------------------
(***************************************************************************)
(* pump: poll what is pending, then walk the nodes once in compiled order. *)
(***************************************************************************)
StartPump ==
    /\ at = 0 /\ ~stopped /\ done # Nodes
    /\ at' = 1 /\ polls' = pending
    /\ UNCHANGED <<choices, state, started, pending, stopped, failure>>

StillPending(n) ==
    /\ n \in polls /\ ~stopped
    /\ polls' = polls \ {n}
    /\ UNCHANGED <<choices, at, state, started, pending, stopped, failure>>

Answered(n) ==
    /\ n \in polls /\ ~stopped
    /\ polls' = polls \ {n} /\ pending' = pending \ {n}
    /\ Complete(n)
    /\ UNCHANGED <<choices, at, started>>

Walking(n) == at = n /\ polls = {} /\ ~stopped

Step == at' = (IF at = Cardinality(Nodes) THEN 0 ELSE at + 1) /\ UNCHANGED <<choices, polls>>

Predecessors(n) == {e.from : e \in Into(n)} \cup {o[1] : o \in {p \in Orders : p[2] = n}}

(* source_reachability: over flows only. *)
Reachable ==
    LET reach[n \in Nodes] ==
            (IF Kinds[n] = "source" THEN {n} ELSE {}) \cup UNION {reach[e.from] : e \in Into(n)}
    IN  reach

OrderReady(n) ==
    \/ Kinds[n] = "source" /\ n # Source
    \/ \A p \in Predecessors(n) : Source \in Reachable[p] => p \in done

Due(n) == n \notin started \cup done

Busy(n) == \E m \in pending : Provider[m] = Provider[n]

ResolveSource(n) ==
    /\ Kinds[n] = "source" /\ OrderReady(n)
    /\ Deliver(n, IF n = Source THEN "out" ELSE NoPort, FALSE, 0)

ResolveDead(n) ==
    /\ Kinds[n] # "source" /\ Input(arrivals, n) \in {"closed", "failed"}
    /\ Deliver(n, NoPort, Input(arrivals, n) = "failed", 0)

Resolve(n) ==
    /\ Walking(n) /\ Due(n)
    /\ \/ ResolveSource(n)
       \/ ResolveDead(n)
       \/ /\ Kinds[n] \in {"constant", "switch", "merge", "join"}
          /\ Input(arrivals, n) = "value" /\ OrderReady(n)
          /\ Deliver(n, IF Kinds[n] = "switch" THEN taken[n] ELSE "out", FALSE, 0)
    /\ stopped' = failure'
    /\ Step
    /\ UNCHANGED <<started, pending>>

(* More than one value for a merge, or a payload needed after its release. *)
Violated(n) ==
    /\ Walking(n) /\ Due(n) /\ Kinds[n] # "source"
    /\ Input(arrivals, n) \in {"conflict", "released"}
    /\ Fail /\ Step
    /\ UNCHANGED <<started, pending>>

Call(n) ==
    /\ Walking(n) /\ Due(n) /\ Kinds[n] = "invoke"
    /\ Input(arrivals, n) = "value" /\ OrderReady(n) /\ ~Busy(n)
    /\ started' = started \cup {n}
    /\ \/ pending' = pending \cup {n} /\ UNCHANGED <<state, stopped, failure>>
       \/ Complete(n) /\ UNCHANGED pending
    /\ Step

Pass(n) ==
    /\ Walking(n)
    /\ \/ ~Due(n)
       \/ Kinds[n] # "source" /\ Input(arrivals, n) = "unresolved"
       \/ /\ Kinds[n] = "source" \/ Input(arrivals, n) = "value"
          /\ ~OrderReady(n)
       \/ Kinds[n] = "invoke" /\ Input(arrivals, n) = "value" /\ OrderReady(n) /\ Busy(n)
    /\ Step
    /\ UNCHANGED <<state, started, pending, stopped, failure>>

Over == (stopped \/ (at = 0 /\ done = Nodes)) /\ UNCHANGED vars

Pump == StartPump \/ \E n \in Nodes : Resolve(n) \/ Violated(n) \/ Call(n) \/ Pass(n)

Next ==
    \/ Pump \/ Over
    \/ \E n \in Nodes : StillPending(n) \/ Answered(n)

Spec == Init /\ [][Next]_vars

(* The host pumps; a pending operation is not answered "pending" for ever. *)
FairSpec ==
    /\ Spec /\ WF_vars(Pump)
    /\ \A n \in Invokes : WF_vars(StillPending(n) \/ Answered(n)) /\ SF_vars(Answered(n))
-----------------------------------------------------------------------------
(***************************************************************************)
(* The reference: what the graph means, without time.  A node fires, is    *)
(* closed or is failed; a failure of any input dominates.                  *)
(***************************************************************************)
ChosenPort(n) ==
    IF Kinds[n] = "switch" THEN taken[n]
    ELSE IF Kinds[n] # "invoke" THEN "out"
    ELSE IF outcome[n] = "err" /\ policy[n] # "RouteErr" THEN NoPort ELSE outcome[n]

Carries(fate, e) ==
    IF fate[e.from] # "fires" THEN fate[e.from]
    ELSE IF e.port = ChosenPort(e.from) THEN "value"
    ELSE IF ChosenPort(e.from) = NoPort THEN "failed" ELSE "closed"

Fate ==
    LET fate[n \in Nodes] ==
            LET with(f) == {e \in Into(n) : Carries(fate, e) = f}
            IN  IF Kinds[n] = "source" THEN (IF n = Source THEN "fires" ELSE "closed")
                ELSE IF with("failed") # {} THEN "failed"
                ELSE IF n \in Joins
                THEN (IF \A i \in Inputs[n] : \E e \in with("value") : e.in = i THEN "fires" ELSE "closed")
                ELSE IF with("value") = {} THEN "closed" ELSE "fires"
    IN  fate

TypeOK ==
    /\ at \in 0 .. Cardinality(Nodes) /\ polls \subseteq pending
    /\ arrivals \in [Flows -> {"unresolved", "value", "released", "closed", "failed"}]
    /\ pending \subseteq started \ done /\ started \subseteq Invokes /\ done \subseteq Nodes
    /\ values \in Nat /\ (values > MaxValues => failure)
    /\ failure => stopped

(* Whatever order operations complete in, an edge is resolved to what the  *)
(* graph means, or not at all: a late failure still dominates a closure,   *)
(* and a branch not taken closes everything below it.                      *)
Confluent ==
    \A e \in Flows : arrivals[e] # "unresolved" =>
        Carries(Fate, e) = IF arrivals[e] = "released" THEN "value" ELSE arrivals[e]

(* An operation is called only if the graph gives it a value, and a wave   *)
(* that ends by itself has resolved every node and called all of those.    *)
CalledExactlyWhenFired ==
    /\ \A n \in started : Fate[n] = "fires"
    /\ at = 0 /\ done = Nodes => started = {n \in Invokes : Fate[n] = "fires"}

(* A join that cannot run any more holds no payload, whatever arrived      *)
(* before or arrives after the input that closed; and only such a join's   *)
(* payloads are released.                                                  *)
OnlyDeadJoinsAreReleased ==
    \A e \in Flows :
        /\ arrivals[e] = "value" /\ ~stopped => ~Discarded(arrivals, e)
        /\ arrivals[e] = "released" => Fate[e.to] # "fires"

(* Every wave ends: no node waits for an edge that will never be resolved. *)
WaveEnds == <>(stopped \/ done = Nodes)

(* A root fails for what the graph means, not for the order operations     *)
(* complete in: for a kernel failure, a second value of a merge, or a value*)
(* the root's scope does not let a node that needs it receive.  (The       *)
(* architecture document on two-stage join closure.)                       *)
Blamed ==
    \/ \E n \in Invokes : Fate[n] = "fires" /\ outcome[n] = "kernel"
    \/ \E n \in Nodes : Kinds[n] = "merge" /\ Cardinality({e \in Into(n) : Carries(Fate, e) = "value"}) > 1
    \/ \E e \in Denied : Carries(Fate, e) = "value" /\ Fate[e.to] = "fires"

FailuresAreNotTiming == failure => Blamed

(* All of it: roots have room for all values and may deliver them all. *)
WavesAreConfluent ==
    TypeOK /\ Confluent /\ CalledExactlyWhenFired /\ OnlyDeadJoinsAreReleased /\ FailuresAreNotTiming

=============================================================================
