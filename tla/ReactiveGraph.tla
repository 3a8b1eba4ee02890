---------------------------- MODULE ReactiveGraph ----------------------------
(***************************************************************************)
(* Compilation of graph declarations and the projection of the compiled    *)
(* graph on the nodes one event, or one set of committed properties,       *)
(* activates.  Declarations come from plugins: any anchors, cycles and     *)
(* writers may be declared.                                                *)
(***************************************************************************)
EXTENDS GraphOrder

CONSTANTS Nodes,    \* numbers in the lexical order of the node keys
          Missing,  \* node keys nobody declares
          MaxAnchors, \* bound on the anchors of one declared node
          MaxEdges     \* bound on the anchors in all

NodesAssumption == Nodes \subseteq Nat /\ Nodes # {} /\ IsFiniteSet(Nodes)
MissingAssumption == Missing \subseteq Nat \ Nodes /\ {MaxAnchors, MaxEdges} \subseteq Nat

VARIABLES after,    \* GraphNode.after
          writers,  \* the nodes that declare a write of one property
          verdict,  \* the result of compile
          active,   \* the nodes whose triggers match
          plan      \* the projected order

vars == <<after, writers, verdict, active, plan>>

Nothing == [kind |-> "none", seq |-> <<>>]

Init ==
    /\ after \in [Nodes -> {A \in SUBSET (Nodes \cup Missing) : Cardinality(A) <= MaxAnchors}]
    /\ MapThenSumSet(LAMBDA n : Cardinality(after[n]), Nodes) <= MaxEdges
    /\ writers \in SUBSET Nodes
    /\ verdict = Nothing /\ active = {} /\ plan = Nothing

(* Fault: writers ordered by adjacent pairs only. *)
OrderedNeighbours(W, G) ==
    LET s == Ascending(W)
    IN  \A i \in 1 .. Len(s) - 1 : Ancestor(G, s[i], s[i + 1]) \/ Ancestor(G, s[i + 1], s[i])

(* Every two writers are related by the order, one way or the other. *)
Ordered(W, G) ==
    \A a, b \in W : a < b => Ancestor(G, a, b) \/ Ancestor(G, b, a)

(* The first check that fails decides. *)
Verdict(G, W) ==
    LET order == Order(G)
    IN  IF \E n \in Nodes : ~(G[n] \subseteq Nodes) THEN [kind |-> "anchor", seq |-> <<>>]
        ELSE IF order.cycle # <<>> THEN [kind |-> "cycle", seq |-> order.cycle]
        ELSE IF ~Ordered(W, G) THEN [kind |-> "writers", seq |-> <<>>]
        ELSE [kind |-> "ok", seq |-> order.result]

Compile ==
    /\ verdict = Nothing
    /\ verdict' = Verdict(after, writers)
    /\ UNCHANGED <<after, writers, active, plan>>

(* Only the edges between active nodes count. *)
Projection(G, S) == Restrict2(G, S)

Project ==
    /\ verdict.kind = "ok" /\ plan = Nothing
    /\ \E S \in SUBSET Nodes :
        LET order == Order(Projection(after, S))
        IN  /\ active' = S
            /\ plan' = IF order.cycle # <<>> THEN [kind |-> "cycle", seq |-> order.cycle]
                       ELSE [kind |-> "ok", seq |-> order.result]
    /\ UNCHANGED <<after, writers, verdict>>

Done == (verdict.kind \notin {"none", "ok"} \/ plan # Nothing) /\ UNCHANGED vars

Next == Compile \/ Project \/ Done

Spec == Init /\ [][Next]_vars
-----------------------------------------------------------------------------
IsReport(r) ==
    /\ r.kind \in {"none", "anchor", "cycle", "writers", "ok"}
    /\ Range(r.seq) \subseteq Nodes /\ Len(r.seq) <= Cardinality(Nodes) + 1

TypeOK ==
    /\ after \in [Nodes -> SUBSET (Nodes \cup Missing)] /\ writers \subseteq Nodes
    /\ IsReport(verdict) /\ IsReport(plan) /\ active \subseteq Nodes

(* A compiled order lists every declared node once, each after all its     *)
(* predecessors: the depth-first search of dag.rs never loses, repeats or  *)
(* misplaces a node, whatever shares a predecessor with what.              *)
CompiledOrderIsTopological ==
    verdict.kind = "ok" => IsOrderOf(verdict.seq, after)

(* Declarations are called cyclic exactly when some node must precede      *)
(* itself, and the reported path is a cycle of the graph: no cycle slips   *)
(* through behind a node finished earlier, no diamond is taken for one.    *)
CyclesAreReal ==
    verdict.kind \in {"cycle", "writers", "ok"} =>
        /\ (verdict.kind = "cycle") <=> ~Acyclic(after)
        /\ verdict.kind = "cycle" => IsCycleOf(verdict.seq, after)

(* Compiled declarations have no two writers of a property that the full   *)
(* graph leaves unordered, and no ordered declaration is turned away.      *)
WritersAreOrdered ==
    verdict.kind \in {"writers", "ok"} =>
        (verdict.kind = "ok" <=>
            \A a, b \in writers :
                a = b \/ a \in Before(after, b) \/ b \in Before(after, a))

(* Any activation of compiled declarations can be ordered, and its order   *)
(* respects every edge between active nodes.                               *)
ProjectionsCanBeOrdered ==
    plan # Nothing => plan.kind = "ok" /\ IsOrderOf(plan.seq, Restrict2(after, active))
=============================================================================
