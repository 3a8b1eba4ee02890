------------------------------- MODULE MCCells -------------------------------
(* Instances of Cells for TLC: p1 owns a writable cell and a read-only
   observation, p2 a private writable one; p2 and the host import from p1. *)
EXTENDS Cells

CONSTANTS p1, p2

TwoPackages == <<p1, p2>>

Shared == [owner |-> p1, id |-> "shared", get |-> TRUE, set |-> TRUE, watch |-> TRUE]

Observation == [owner |-> p1, id |-> "observation", get |-> TRUE, set |-> FALSE, watch |-> TRUE]

Two == {Shared, Observation}

SomeGrants ==
    ({p1, p2} \X Two \X {"get"})
        \cup {<<p1, Shared, "set">>, <<p2, Shared, "set">>, <<p2, Shared, "watch">>,
              <<Root, Shared, "get">>, <<Root, Shared, "set">>, <<Root, Shared, "watch">>}

AllResources == Callers \X Two
=============================================================================
