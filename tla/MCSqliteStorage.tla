-------------------------- MODULE MCSqliteStorage --------------------------
(* Instances of SqliteStorage for TLC: single edits, pairs of edits of two  *)
(* records, a repeated key and an empty transaction, against databases      *)
(* before, at, after and beside the supported schema.                       *)
EXTENDS SqliteStorage, TLC

CONSTANTS k1, k2, d1, d2

OneEdit(k, n, d) == [key |-> k, expected |-> n, data |-> d]

MCTransactions ==
    {<<>>} \cup
    {<<OneEdit(k1, n, d)>> : n \in 0..2, d \in Data} \cup
    {<<OneEdit(k1, n, d1), OneEdit(k2, m, d1)>> : n \in 0..1, m \in 0..1} \cup
    {<<OneEdit(k2, 0, d2), OneEdit(k1, 0, d2)>>} \cup
    {<<OneEdit(k2, 0, d2), OneEdit(k2, 1, d2)>>}

MCSchemas == {[version |-> 0, table |-> "none"], [version |-> 0, table |-> "current"],
              [version |-> 0, table |-> "other"], [version |-> 1, table |-> "current"],
              [version |-> 1, table |-> "none"], [version |-> 2, table |-> "other"],
              [version |-> 2, table |-> "current"]}
============================================================================
