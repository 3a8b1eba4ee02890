----------------------------- MODULE GraphOrder ------------------------------
(***************************************************************************)
(* The deterministic ordering shared by every dependency projection        *)
(* (dag.rs), and the reachability test of the graph compiler.  A graph maps*)
(* each node, a number, to the set of its predecessors.                    *)
(***************************************************************************)
EXTENDS Naturals, Sequences, FiniteSets, SequencesExt

Ascending(S) == SetToSortSeq(S, LAMBDA a, b : a < b)

Fresh == [path |-> <<>>, result |-> <<>>, cycle |-> <<>>]

(* done.contains: a node is done exactly when it is in the result. *)
Placed(n, st) == n \in Range(st.result)

(* The part of the path from n on, closed by n. *)
CycleAt(n, path) ==
    IF n \in Range(path)
    THEN Append(SubSeq(path, CHOOSE i \in DOMAIN path : path[i] = n, Len(path)), n)
    ELSE <<>>

(* Depth first, predecessors in ascending order, a node after all of them. *)
Visit(G) ==
    LET D == Nat
        visit[call \in D \X [path : Seq(D), result : Seq(D), cycle : Seq(D)]] ==
            LET n == call[1]
                st == call[2]
                cycle == CycleAt(n, st.path)
                into == [st EXCEPT !.path = Append(@, n)]
                below == FoldLeft(LAMBDA acc, d : IF acc.cycle # <<>> THEN acc
                                                  ELSE visit[<<d, acc>>],
                                  into, Ascending(G[n]))
            IN  IF cycle # <<>> THEN [st EXCEPT !.cycle = cycle]
                ELSE IF n \in Range(st.path) \/ Placed(n, st) THEN st
                ELSE IF below.cycle # <<>> THEN below
                ELSE [below EXCEPT !.path = st.path, !.result = Append(@, n)]
    IN  visit

(* result is the order, unless cycle is not empty. *)
Order(G) ==
    FoldLeft(LAMBDA st, n : IF st.cycle # <<>> THEN st ELSE Visit(G)[<<n, st>>],
             Fresh, Ascending(DOMAIN G))

(* ancestor: a search from `start` over a stack of nodes to expand. *)
Ancestor(G, start, sought) ==
    LET search[todo \in Seq(DOMAIN G), visited \in SUBSET DOMAIN G] ==
            IF todo = <<>> THEN FALSE
            ELSE LET n == Last(todo)
                     rest == Front(todo)
                 IN  IF n \in visited THEN search[rest, visited]
                     ELSE \/ sought \in G[n]
                          \/ search[rest \o Ascending(G[n]), visited \cup {n}]
    IN  search[<<start>>, {}]

(***************************************************************************)
(* The reference: everything that must precede n is the least set that     *)
(* holds n's predecessors and, with a node, the node's predecessors.       *)
(***************************************************************************)
Before(G, n) ==
    {m \in DOMAIN G : \A S \in SUBSET DOMAIN G :
        G[n] \subseteq S /\ (\A k \in S : G[k] \subseteq S) => m \in S}

Acyclic(G) == \A n \in DOMAIN G : n \notin Before(G, n)

IsOrderOf(s, G) ==
    /\ Range(s) = DOMAIN G /\ Len(s) = Cardinality(DOMAIN G)
    /\ \A i, j \in DOMAIN s : s[i] \in G[s[j]] => i < j

IsCycleOf(c, G) ==
    /\ Len(c) > 1 /\ c[1] = c[Len(c)]
    /\ \A i \in 1 .. Len(c) - 1 : c[i + 1] \in G[c[i]]

Restrict2(G, S) == [n \in S |-> G[n] \cap S]
=============================================================================
