-------------------------- MODULE MCPendingTickets --------------------------
(* Instances of PendingTickets for TLC. *)
EXTENDS PendingTickets, TLC

AllImports == {e \in Providers \X Providers : e[1] # e[2]}

Symmetry == Permutations(Providers)
=============================================================================
