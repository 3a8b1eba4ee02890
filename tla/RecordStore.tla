---------------------------- MODULE RecordStore ----------------------------
(***************************************************************************)
(* What the basic Storage contract promises its clients: a transaction of   *)
(* several edits happens at one moment or not at all, it happens only if    *)
(* every record still has the revision the client expected, and an answer   *)
(* other than a failure says truly which of the two it was.  A failure      *)
(* leaves the client in doubt.                                              *)
(***************************************************************************)
EXTENDS Naturals, Sequences

CONSTANTS Clients,      \* calls of the storage plugin, from any process
          Keys,         \* record keys of one session
          Data,         \* record contents
          Transactions, \* the edit lists clients may submit
          MaxRevision,  \* the largest revision a record can carry: i64::MAX
          NoRecord      \* the key has no row

Edits == [key: Keys, expected: Nat, data: Data]

VARIABLES
    records,  \* the committed records
    phase,    \* whether a client's call is outstanding, and took effect
    request,  \* what it asked for
    answer    \* what it was last told

storeVars == <<records, phase, request, answer>>

Records == [revision: 1..MaxRevision, data: Data]

Reads == [op: {"read"}, key: Keys]

Writes == [op: {"transact"}, edits: Transactions]

Unanswered == [outcome |-> "none", records |-> <<>>]

Failure == [outcome |-> "failed", records |-> <<>>]

Conflict == [outcome |-> "conflict", records |-> <<>>]

----------------------------------------------------------------------------
RevisionOf(record) == IF record = NoRecord THEN 0 ELSE record.revision

(* Each key is edited once. *)
DistinctKeys(edits) ==
    \A i, j \in DOMAIN edits : i # j => edits[i].key # edits[j].key

(* Every new revision can be represented. *)
Representable(edits) == \A i \in DOMAIN edits : edits[i].expected + 1 <= MaxRevision

Matches(rows, edits) ==
    \A i \in DOMAIN edits : RevisionOf(rows[edits[i].key]) = edits[i].expected

RecordOf(edit) == [revision |-> edit.expected + 1, data |-> edit.data]

(* The rows with the first n edits written. *)
Written(rows, edits, n) ==
    [k \in Keys |-> IF \E i \in 1..n : edits[i].key = k
                      THEN RecordOf(edits[CHOOSE i \in 1..n : edits[i].key = k])
                      ELSE rows[k]]

Acknowledgement(edits) ==
    [outcome |-> "ok", records |-> [i \in DOMAIN edits |-> RecordOf(edits[i])]]

Found(record) ==
    IF record = NoRecord THEN [outcome |-> "not_found", records |-> <<>>]
                         ELSE [outcome |-> "ok", records |-> <<record>>]

----------------------------------------------------------------------------
Init ==
    /\ records = [k \in Keys |-> NoRecord]
    /\ phase = [c \in Clients |-> "idle"]
    /\ request \in [Clients -> Reads \cup Writes]
    /\ answer = [c \in Clients |-> Unanswered]

Answered(c, said) ==
    /\ phase' = [phase EXCEPT ![c] = "idle"]
    /\ answer' = [answer EXCEPT ![c] = said]
    /\ UNCHANGED request

Call(c, asked) ==
    /\ phase[c] = "idle"
    /\ phase' = [phase EXCEPT ![c] = "called"]
    /\ request' = [request EXCEPT ![c] = asked]
    /\ answer' = [answer EXCEPT ![c] = Unanswered]
    /\ UNCHANGED records

Read(c) ==
    /\ phase[c] = "called" /\ request[c].op = "read"
    /\ Answered(c, Found(records[request[c].key]))
    /\ UNCHANGED records

Refuse(c) ==
    /\ phase[c] = "called" /\ request[c].op = "transact"
    /\ \/ /\ ~DistinctKeys(request[c].edits)
          /\ Answered(c, [outcome |-> "invalid", records |-> <<>>])
       \/ /\ \/ ~Representable(request[c].edits)
             \/ ~Matches(records, request[c].edits)
          /\ Answered(c, Conflict)
    /\ UNCHANGED records

Apply(c) ==
    /\ phase[c] = "called" /\ request[c].op = "transact"
    /\ DistinctKeys(request[c].edits) /\ Representable(request[c].edits)
    /\ Matches(records, request[c].edits)
    /\ records' = Written(records, request[c].edits, Len(request[c].edits))
    /\ phase' = [phase EXCEPT ![c] = "applied"]
    /\ UNCHANGED <<request, answer>>

Acknowledge(c) ==
    /\ phase[c] = "applied"
    /\ Answered(c, Acknowledgement(request[c].edits))
    /\ UNCHANGED records

Fail(c) ==
    /\ phase[c] \in {"called", "applied"}
    /\ Answered(c, Failure)
    /\ UNCHANGED records

Next == \E c \in Clients :
    \/ \E asked \in Reads \cup Writes : Call(c, asked)
    \/ Read(c) \/ Refuse(c) \/ Apply(c) \/ Acknowledge(c) \/ Fail(c)

Spec == Init /\ [][Next]_storeVars
============================================================================
