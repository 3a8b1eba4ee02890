------------------------------- MODULE GraphPlan -------------------------------
(***************************************************************************)
(* Compilation of dataflow graph declarations (kernel graph/v2.rs over the *)
(* shapes checked in contract graph/v2/declarations.rs): what the host     *)
(* trusts decides which declared flows may exist, and the compiler says    *)
(* what can reach what.  Nodes are numbered in the order of their keys.    *)
(*                                                                         *)
(* A label is <<confidentiality, integrity>>.  Schemas are left out: only  *)
(* flows between equal schemas are declared here.                          *)
(***************************************************************************)
EXTENDS GraphOrder

CONSTANTS Nodes,     \* 1 .. n
          Owner,     \* the contributor of each node
          Provider,  \* the provider the product selected for each invoke
          Shapes,    \* what may be declared for each node: kind, source, labels of its ports
          Sources,   \* the sources there are
          Pairs,     \* <<from, to>>: flows that may be declared
          MaxInto,   \* bound on the flows declared into one node
          OrderPairs,\* <<before, after>>: order edges that may be declared
          MaxDepth   \* MAX_GRAPH_DEPTH

GraphPlanAssumption ==
    /\ Nodes = 1 .. Cardinality(Nodes)
    /\ Pairs \cup OrderPairs \subseteq Nodes \X Nodes /\ MaxInto \in Nat /\ MaxDepth \in Nat

VARIABLES
    nodes,    \* what is declared for each node so far
    flows,    \* [from, port, to, in]
    orders,   \* <<before, after>>
    wired,    \* nodes whose edges are declared
    plan      \* the result of compile, with what the host granted

vars == <<nodes, flows, orders, wired, plan>>

None == "none"

In(kind) ==
    CASE kind = "source" -> {} [] kind = "constant" -> {"start"}
      [] kind = "join" -> {"a", "b"} [] OTHER -> {"in"}

Out(kind) ==
    CASE kind = "switch" -> {"x", "y"} [] kind = "invoke" -> {"ok", "err"}
      [] OTHER -> {"out"}

(* can_flow_to: neither declassification nor endorsement. *)
FlowsTo(a, b) == a[1] <= b[1] /\ a[2] >= b[2]

-----------------------------------------------------------------------------
(***************************************************************************)
(* The declarations.                                                       *)
(***************************************************************************)
Init ==
    /\ nodes = << >> /\ flows = {} /\ orders = {} /\ wired = 0
    /\ plan = [verdict |-> None]

Declare ==
    /\ Len(nodes) < Cardinality(Nodes)
    /\ \E shape \in Shapes[Len(nodes) + 1] : nodes' = Append(nodes, shape)
    /\ UNCHANGED <<flows, orders, wired, plan>>

Candidates(n) ==
    {[from |-> p[1], port |-> o, to |-> n, in |-> i] :
        p \in {q \in Pairs : q[2] = n}, o \in {"out", "x", "y", "ok", "err"}, i \in In(nodes[n].kind)}

Wire ==
    /\ Len(nodes) = Cardinality(Nodes) /\ wired < Cardinality(Nodes)
    /\ LET n == wired + 1
           real == {e \in Candidates(n) : e.port \in Out(nodes[e.from].kind)}
       IN  \E k \in 0 .. MaxInto : \E into \in kSubset(k, real) : flows' = flows \cup into
    /\ \E before \in SUBSET {p \in OrderPairs : p[2] = wired + 1} : orders' = orders \cup before
    /\ wired' = wired + 1
    /\ UNCHANGED <<nodes, plan>>

Kind(n) == nodes[n].kind
Of(kind) == {n \in Nodes : Kind(n) = kind}
Sec(n, port) == nodes[n].sec[port]

(* validate, and for an invoke compile: no output is below an input.       *)
KeepsLabels(n) == \A i \in In(Kind(n)), o \in Out(Kind(n)) : FlowsTo(Sec(n, i), Sec(n, o))

(* A constant is public and untrusted, and so is what starts it. *)
IsPublic(n) == Kind(n) = "constant" => Sec(n, "out") = <<0, 0>> /\ Sec(n, "start")[1] = 0

(* validate: the edges of a declaration name declared nodes. *)
Named == \A e \in flows : Kind(e.from) # "absent" /\ Kind(e.to) # "absent"

-----------------------------------------------------------------------------
(***************************************************************************)
(* What the host trusts: it attests the labels of sources and operations,  *)
(* gives each contributor a ceiling, and grants deliveries.                *)
(***************************************************************************)
Principal(n) == IF Kind(n) = "invoke" THEN Provider[n] ELSE Owner[n]

(* Nodes of one contributor may still be run by different plugins. *)
Foreign(e) == Owner[e.from] # Owner[e.to] \/ Principal(e.from) # Principal(e.to)

Crossing == {e \in flows : Owner[e.from] # Owner[e.to] \/ Principal(e.from) # Principal(e.to)}
NoGrant == 0

(* The class granted is stored as its successor; one flow may have no grant. *)
Grants ==
    [ceiling : 0 .. 1, attested : BOOLEAN,
     delivery : {[e \in Crossing |-> IF e \in not THEN NoGrant ELSE class + 1] :
                    class \in 0 .. 1, not \in {{}} \cup {{e} : e \in Crossing}}]

(* validate_source_ceiling *)
UnderCeiling(policy) == \A n \in Of("source") : Sec(n, "out")[1] <= policy.ceiling

Admitted(policy, e) == Foreign(e) => Sec(e.from, e.port)[1] + 1 <= policy.delivery[e]

-----------------------------------------------------------------------------
(***************************************************************************)
(* The compiler.                                                           *)
(***************************************************************************)
Predecessors == [n \in Nodes |-> {e.from : e \in {d \in flows : d.to = n}}
                                 \cup {o[1] : o \in {p \in orders : p[2] = n}}]
FlowPredecessors == [n \in Nodes |-> {e.from : e \in {d \in flows : d.to = n}}]

Single == \A e, d \in flows : e # d /\ e.to = d.to /\ e.in = d.in => Kind(e.to) = "merge"

Ready(G) == SelectSeq([n \in Nodes |-> n], LAMBDA n : G[n] = {})

(* Fault: the depth of a node is set by the predecessor visited first. *)
DeeperOnce(old, new) == IF old > 1 THEN old ELSE new

Deeper(old, new) == IF new > old THEN new ELSE old

(* validate_depth: nodes are taken from a stack once every predecessor was. *)
Walk(G) ==
    LET start == [ready |-> Ready(G), depth |-> [n \in Nodes |-> 1], left |-> Nodes, deep |-> FALSE]
        step(st, k) ==
            IF st.ready = << >> THEN st
            ELSE LET id == Last(st.ready)
                     left == st.left \ {id}
                     next == {m \in Nodes : id \in G[m]}
                     freed == {m \in next : G[m] \cap left = {}}
                 IN  [ready |-> Front(st.ready) \o Ascending(freed), left |-> left,
                      depth |-> [m \in Nodes |-> IF m \in next THEN Deeper(st.depth[m], st.depth[id] + 1)
                                                 ELSE st.depth[m]],
                      deep |-> st.deep \/ st.depth[id] > MaxDepth]
    IN  FoldLeft(step, start, [k \in Nodes |-> k])

Looped(walk) == walk.left # {}

Inherited(n) == FlowPredecessors[n]

(* source_reachability, node by node in the compiled order. *)
Reachability(order) ==
    FoldLeft(LAMBDA reach, n : [reach EXCEPT ![n] = @ \cup UNION {reach[m] : m \in Inherited(n)}],
             [n \in Nodes |-> IF Kind(n) = "source" THEN {nodes[n].source} ELSE {}], order)

Into(n, i) == {e \in flows : e.to = n /\ e.in = i}
AllInto(n) == {e \in flows : e.to = n}

(* Two cases of one switch. *)
Exclusive(n) ==
    \E e, d \in AllInto(n) : e.from = d.from /\ Kind(e.from) = "switch" /\ e.port # d.port

Proven(n) == \A e \in AllInto(n) : Kind(e.from) = "source"

(* What is said of a join. *)
Satisfiability(reach, n) ==
    LET at(i) == UNION {reach[e.from] : e \in Into(n, i)}
        common == {s \in Sources : \A i \in In("join") : s \in at(i)}
    IN  IF \E i \in In("join") : at(i) = {} THEN "dormant"
        ELSE IF Exclusive(n) \/ common = {} THEN "unsatisfiable"
        ELSE IF Proven(n) THEN "proven" ELSE "unknown"

Refused(why) == [verdict |-> why]

(* The first check that fails decides. *)
Compiled(policy) ==
    LET walk == Walk(Predecessors)
        order == Order(Predecessors).result
        reach == Reachability(order)
        joins == [n \in Of("join") |-> Satisfiability(reach, n)]
        bad == {n \in Of("join") : joins[n] = "unsatisfiable"}
    IN  IF ~Named \/ \E n \in Nodes : ~IsPublic(n) \/ ~KeepsLabels(n) THEN Refused("declaration")
        ELSE IF ~policy.attested \/ ~UnderCeiling(policy) THEN Refused("denied")
        ELSE IF \E e \in flows : ~FlowsTo(Sec(e.from, e.port), Sec(e.to, e.in)) THEN Refused("denied")
        ELSE IF \E e \in flows : ~Admitted(policy, e) THEN Refused("denied")
        ELSE IF ~Single THEN Refused("candidates")
        ELSE IF walk.deep THEN Refused("depth")
        ELSE IF Looped(walk) THEN Refused("cycle")
        ELSE IF bad # {} THEN [verdict |-> "unsatisfiable", join |-> CHOOSE n \in bad : \A m \in bad : n <= m]
        ELSE [verdict |-> "ok", policy |-> policy, order |-> order, reach |-> reach, joins |-> joins]

Compile ==
    /\ wired = Cardinality(Nodes) /\ plan.verdict = None
    /\ \E policy \in Grants : plan' = Compiled(policy)
    /\ UNCHANGED <<nodes, flows, orders, wired>>

Over == plan.verdict # None /\ UNCHANGED vars

Next == Declare \/ Wire \/ Compile \/ Over

Spec == Init /\ [][Next]_vars

-----------------------------------------------------------------------------
(***************************************************************************)
(* The reference: a wave from one source, in which every switch takes a    *)
(* case and every operation an outcome; and what lies on which path.       *)
(***************************************************************************)
Verdict == plan.verdict

Takes == {t \in [Of("switch") \cup Of("invoke") -> {"x", "y", "ok", "err"}] :
             \A n \in DOMAIN t : t[n] \in Out(Kind(n))}

Carries(fired, take, e) ==
    e.from \in fired /\ (e.from \in DOMAIN take => take[e.from] = e.port)

Fires(source, take) ==
    LET fires[k \in 0 .. Cardinality(Nodes)] ==
            LET fired == IF k = 0 THEN {} ELSE fires[k - 1]
            IN  {n \in Nodes :
                    IF Kind(n) = "source" THEN nodes[n].source = source
                    ELSE \A i \in In(Kind(n)) : \E e \in flows :
                             e.to = n /\ e.in = i /\ Carries(fired, take, e)}
    IN  fires[Cardinality(Nodes)]

Upstream(n) == Before(FlowPredecessors, n)

LongestPath ==
    LET above == [n \in Nodes |-> Before(Predecessors, n)]
        longest[S \in SUBSET Nodes] ==
            IF S = {} THEN 0
            ELSE 1 + Max({longest[S \cap above[n]] : n \in S})
    IN  longest[Nodes]

TypeOK ==
    /\ Len(nodes) <= Cardinality(Nodes) /\ wired \in 0 .. Cardinality(Nodes)
    /\ \A e \in flows : <<e.from, e.to>> \in Pairs
    /\ orders \subseteq OrderPairs
    /\ Verdict \in {None, "declaration", "denied", "candidates", "depth", "cycle", "unsatisfiable", "ok"}
    /\ Verdict = "ok" => Len(plan.order) = Cardinality(Nodes) /\ plan.reach \in [Nodes -> SUBSET Sources]

(* Nothing a source says can be read below its label, or trusted above it, *)
(* anywhere downstream, whatever lies between.                             *)
LabelsHoldAlongPaths ==
    Verdict = "ok" =>
        \A n \in Nodes, s \in Of("source") :
            s \in Upstream(n) => \A p \in In(Kind(n)) \cup Out(Kind(n)) :
                (p \in Out(Kind(n)) \/ \E e \in Into(n, p) : e.from = s \/ s \in Upstream(e.from))
                    => FlowsTo(Sec(s, "out"), Sec(n, p))

(* Data leaves the plugins that have it only over deliveries granted for   *)
(* the classification of where it came from, however often it was handed on*)
(* or computed with before.                                                *)
DeliveriesCoverTheirSources ==
    Verdict = "ok" =>
        \A e \in Crossing, s \in Of("source") :
            e.from = s \/ s \in Upstream(e.from) => Sec(s, "out")[1] < plan.policy.delivery[e]

(* What is computed in a wave of a source has that source in its           *)
(* reachability: the executor relies on it to tell the predecessors that   *)
(* concern a wave from those that do not.                                  *)
WavesStayInReach ==
    Verdict = "ok" =>
        \A s \in Sources, take \in Takes : \A n \in Fires(s, take) : s \in plan.reach[n]

(* And reachability is no wider than the flows are.                        *)
ReachFollowsFlows ==
    Verdict = "ok" =>
        \A n \in Nodes : \A s \in plan.reach[n] :
            \E m \in Of("source") : nodes[m].source = s /\ (m = n \/ m \in Upstream(n))

(* A dormant join never runs; one proven satisfiable runs in every wave of *)
(* some source, whatever operations answer; and a graph is refused for a   *)
(* join only if that join could never have run.                            *)
JoinsAreDiagnosed ==
    LET runs(n, s) == {take \in Takes : n \in Fires(s, take)}
    IN  /\ Verdict = "ok" => \A n \in Of("join") :
            /\ plan.joins[n] = "dormant" => \A s \in Sources : runs(n, s) = {}
            /\ plan.joins[n] = "proven" => \E s \in Sources : runs(n, s) = Takes
        /\ Verdict = "unsatisfiable" => \A s \in Sources : runs(plan.join, s) = {}

(* Graphs are turned away for their depth or a cycle exactly if they have  *)
(* it.                                                                     *)
DepthIsTheLongestPath ==
    /\ Verdict \in {"unsatisfiable", "ok"} => Acyclic(Predecessors) /\ LongestPath <= MaxDepth
    /\ Verdict = "cycle" => ~Acyclic(Predecessors)
    /\ Verdict = "depth" /\ Acyclic(Predecessors) => LongestPath > MaxDepth
================================================================================
