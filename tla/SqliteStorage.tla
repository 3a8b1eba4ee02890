--------------------------- MODULE SqliteStorage ---------------------------
(***************************************************************************)
(* The storage plugin over SQLite.  Every call opens the database anew,     *)
(* migrates an unversioned one, and works edit by edit inside an immediate  *)
(* transaction; other processes do the same, any of them can be killed      *)
(* between two steps, and statements can fail.                              *)
(***************************************************************************)
EXTENDS Naturals, Sequences, TLAPS

CONSTANTS Clients, Keys, Data, Transactions, MaxRevision, NoRecord,
          NoClient,  \* nobody holds the write lock
          Schemas    \* the database files a process may find: version and table

VARIABLES
    records,  \* basic_records, as committed
    schema,   \* user_version and the shape of the table, as committed
    lock,     \* the connection with the immediate transaction, or NoClient
    working,  \* its uncommitted rows
    step,     \* where each call is
    at,       \* edits it has written
    request, answer

vars == <<records, schema, lock, working, step, at, request, answer>>

SchemaShapes == [version: 0..2, table: {"none", "current", "other"}]


(* The promise this module is meant to keep. *)
phase == [c \in Clients |-> CASE step[c] = "idle" -> "idle"
                              [] step[c] = "committed" -> "applied"
                              [] OTHER -> "called"]

Store == INSTANCE RecordStore

ASSUME StorageAssumption ==
    /\ MaxRevision \in Nat \ {0}
    /\ Transactions \subseteq Seq(Store!Edits)
    /\ Schemas \subseteq SchemaShapes
    /\ NoClient \notin Clients
    /\ NoRecord \notin Store!Records

Steps == {"idle", "checking", "opening", "migrating", "beginning", "reading", "editing",
          "committed"}

Init ==
    /\ records = [k \in Keys |-> NoRecord]
    /\ schema \in Schemas
    /\ lock = NoClient /\ working = records
    /\ step = [c \in Clients |-> "idle"] /\ at = [c \in Clients |-> 0]
    /\ request \in [Clients -> Store!Reads \cup Store!Writes]
    /\ answer = [c \in Clients |-> Store!Unanswered]

----------------------------------------------------------------------------
GoTo(c, next) == step' = [step EXCEPT ![c] = next] /\ UNCHANGED <<request, answer>>

Tell(c, said) ==
    /\ step' = [step EXCEPT ![c] = "idle"]
    /\ answer' = [answer EXCEPT ![c] = said]
    /\ UNCHANGED request

(* Dropping a connection ends its transaction without effect. *)
Drop(c) == lock' = (IF lock = c THEN NoClient ELSE lock) /\ UNCHANGED <<records, schema, working, at>>

database == <<records, schema, lock, working>>

Call(c, asked) ==
    /\ step[c] = "idle"
    /\ step' = [step EXCEPT ![c] = IF asked.op = "read" THEN "opening" ELSE "checking"]
    /\ request' = [request EXCEPT ![c] = asked]
    /\ answer' = [answer EXCEPT ![c] = Store!Unanswered]
    /\ at' = [at EXCEPT ![c] = 0]
    /\ UNCHANGED database

KeysAreDistinct(edits) == Store!DistinctKeys(edits)

(* The edits are looked at one by one: the first bad one decides the answer. *)
CheckEdits(c) ==
    /\ step[c] = "checking"
    /\ \/ /\ ~KeysAreDistinct(request[c].edits)
          /\ Tell(c, [outcome |-> "invalid", records |-> <<>>])
       \/ /\ ~Store!Representable(request[c].edits)
          /\ Tell(c, Store!Conflict)
       \/ /\ KeysAreDistinct(request[c].edits) /\ Store!Representable(request[c].edits)
          /\ GoTo(c, "opening")
    /\ UNCHANGED <<database, at>>

(* Fault: an unknown version is opened like the current one. *)
UsableAtAnyVersion(found) == found.table # "other"

Usable(found) == found.version = 1 /\ found.table = "current"

AfterOpening(c) == IF request[c].op = "read" THEN "reading" ELSE "beginning"

(* Fault: an unversioned database is used as it is. *)
OpenUnversioned(c) ==
    /\ step[c] = "opening"
    /\ \/ Usable([schema EXCEPT !.version = 1]) /\ GoTo(c, AfterOpening(c))
       \/ ~Usable([schema EXCEPT !.version = 1]) /\ Tell(c, Store!Failure)
    /\ UNCHANGED <<database, at>>

(* ensure_schema: a current database goes on, an unversioned one is         *)
(* migrated, anything else is refused.                                      *)
Open(c) ==
    /\ step[c] = "opening"
    /\ \/ schema.version = 0 /\ GoTo(c, "migrating")
       \/ schema.version # 0 /\ Usable(schema) /\ GoTo(c, AfterOpening(c))
       \/ schema.version # 0 /\ ~Usable(schema) /\ Tell(c, Store!Failure)
    /\ UNCHANGED <<database, at>>

(* The version is read again under the lock; the table is made if there is  *)
(* none.                                                                    *)
Migrated(found) ==
    IF found.version # 0 THEN found
    ELSE [version |-> 1, table |-> IF found.table = "none" THEN "current" ELSE found.table]

(* The immediate transaction of the migration, in which nobody else writes: *)
(* a table of another shape rolls it back.                                  *)
Migrate(c) ==
    /\ step[c] = "migrating" /\ lock = NoClient
    /\ \/ Usable(Migrated(schema)) /\ schema' = Migrated(schema) /\ GoTo(c, AfterOpening(c))
       \/ ~Usable(Migrated(schema)) /\ UNCHANGED schema /\ Tell(c, Store!Failure)
    /\ UNCHANGED <<records, lock, working, at>>

(* Fault: a deferred transaction does not take the write lock. *)
BeginDeferred(c) ==
    /\ step[c] = "beginning"
    /\ lock' = c /\ working' = records
    /\ GoTo(c, "editing")
    /\ UNCHANGED <<records, schema, at>>

Begin(c) ==
    /\ step[c] = "beginning" /\ lock = NoClient
    /\ lock' = c /\ working' = records
    /\ GoTo(c, "editing")
    /\ UNCHANGED <<records, schema, at>>

(* The busy timeout runs out while another connection writes. *)
TimeOut(c) ==
    /\ step[c] \in {"migrating", "beginning"} /\ lock # NoClient
    /\ Tell(c, Store!Failure)
    /\ UNCHANGED <<database, at>>

----------------------------------------------------------------------------
NextEdit(c) == request[c].edits[at[c] + 1]

Expected(row, edit) == Store!RevisionOf(row) = edit.expected

(* One pass of the loop: read the row, compare, write. *)
Edit(c) ==
    /\ step[c] = "editing" /\ at[c] < Len(request[c].edits)
    /\ Expected(working[NextEdit(c).key], NextEdit(c))
    /\ working' = [working EXCEPT ![NextEdit(c).key] =
                      [revision |-> Store!RevisionOf(@) + 1, data |-> NextEdit(c).data]]
    /\ at' = [at EXCEPT ![c] = @ + 1]
    /\ UNCHANGED <<records, schema, lock, step, request, answer>>

(* Fault: a conflict keeps the edits before it. *)
CommitAnyway(c) ==
    /\ records' = working /\ lock' = NoClient
    /\ UNCHANGED <<schema, working, at>>

Rollback(c) ==
    /\ lock' = NoClient
    /\ UNCHANGED <<records, schema, working, at>>

RefuseEdit(c) ==
    /\ step[c] = "editing" /\ at[c] < Len(request[c].edits)
    /\ ~Expected(working[NextEdit(c).key], NextEdit(c))
    /\ Tell(c, Store!Conflict)
    /\ Rollback(c)

Commit(c) ==
    /\ step[c] = "editing" /\ at[c] = Len(request[c].edits)
    /\ records' = working /\ lock' = NoClient
    /\ GoTo(c, "committed")
    /\ UNCHANGED <<schema, working, at>>

Acknowledge(c) ==
    /\ step[c] = "committed"
    /\ Tell(c, Store!Acknowledgement(request[c].edits))
    /\ UNCHANGED <<database, at>>

Read(c) ==
    /\ step[c] = "reading"
    /\ Tell(c, Store!Found(records[request[c].key]))
    /\ UNCHANGED <<database, at>>

(* A statement or the commit fails, or the process is killed: the           *)
(* transaction, if any, has no effect unless it was committed, and the      *)
(* client learns nothing.                                                   *)
Break(c) ==
    /\ step[c] # "idle"
    /\ Tell(c, Store!Failure)
    /\ Drop(c)

Next == \E c \in Clients :
    \/ \E asked \in Store!Reads \cup Store!Writes : Call(c, asked)
    \/ CheckEdits(c) \/ Open(c) \/ Migrate(c) \/ Begin(c) \/ TimeOut(c)
    \/ Edit(c) \/ RefuseEdit(c) \/ Commit(c) \/ Acknowledge(c) \/ Read(c) \/ Break(c)

Spec == Init /\ [][Next]_vars

----------------------------------------------------------------------------
Rows == [Keys -> Store!Records \cup {NoRecord}]

(* The types of the state, and that exactly the call that edits holds the   *)
(* write lock.                                                              *)
TypeOK ==
    /\ records \in Rows /\ working \in Rows
    /\ schema \in SchemaShapes
    /\ lock \in Clients \cup {NoClient}
    /\ step \in [Clients -> Steps] /\ at \in [Clients -> Nat]
    /\ request \in [Clients -> Store!Reads \cup Store!Writes]
    /\ \A c \in Clients : step[c] = "editing" <=> lock = c

(* Transactions of any number of edits are atomic across processes, kills   *)
(* and conflicts, and no answer but a failure misleads: the promise of      *)
(* RecordStore.                                                             *)
KeepsThePromise == Store!Spec

Foreign == schema.version = 2 \/ schema.table = "other"
              \/ (schema.version = 1 /\ schema.table = "none")

(* "Reject future or malformed schemas before any Storage I/O": a database  *)
(* of another version or another table shape keeps its version, its table   *)
(* and its rows.                                                            *)
ForeignDatabasesAreUntouched == [][Foreign => UNCHANGED <<schema, records>>]_vars

(* Rows are written only to a database whose migration was committed.       *)
RowsNeedAMigratedTable ==
    (\E k \in Keys : records[k] # NoRecord) => schema = [version |-> 1, table |-> "current"]

(* However openings, migrations, edits and kills of several processes         *)
(* interleave: one process edits at a time, and no row is written before the *)
(* migration of its table is committed.                                      *)
DatabaseIsSound == TypeOK /\ RowsNeedAMigratedTable

----------------------------------------------------------------------------
(***************************************************************************)
(* Proofs: the storage plugin keeps the promise of RecordStore, whatever    *)
(* the number of processes, records and edits.  The argument rests on what  *)
(* the write lock protects: the working rows are the committed rows with    *)
(* the edits written so far, each of which matched the committed row.       *)
(***************************************************************************)


(* The state of one call is consistent with what it asked for. *)
CallOK(c) ==
    /\ step[c] \in {"checking", "beginning", "editing", "committed"} => request[c].op = "transact"
    /\ step[c] = "reading" => request[c].op = "read"
    /\ request[c].op = "transact" /\ step[c] \notin {"idle", "checking"}
          => Store!DistinctKeys(request[c].edits) /\ Store!Representable(request[c].edits)

(* The working rows of the call that edits. *)
EditOK(c) ==
    step[c] = "editing" =>
        /\ at[c] <= Len(request[c].edits)
        /\ working = Store!Written(records, request[c].edits, at[c])
        /\ \A i \in 1..at[c] :
              Store!RevisionOf(records[request[c].edits[i].key]) = request[c].edits[i].expected

Ready(c) == step[c] = "beginning" => at[c] = 0

Started(c) == step[c] \in {"checking", "opening", "migrating", "reading"} => at[c] = 0

IInv == TypeOK /\ \A c \in Clients : CallOK(c) /\ EditOK(c) /\ Ready(c) /\ Started(c)

----------------------------------------------------------------------------
LEMMA EditListsAreLists ==
    ASSUME NEW r \in Store!Reads \cup Store!Writes, r.op = "transact"
    PROVE  r.edits \in Seq(Store!Edits)
    BY StorageAssumption DEF Store!Reads, Store!Writes

LEMMA EditType ==
    ASSUME NEW edits \in Seq(Store!Edits), NEW i \in 1..Len(edits)
    PROVE  edits[i].key \in Keys /\ edits[i].expected \in Nat /\ edits[i].data \in Data
  <1>1. edits[i] \in Store!Edits
    OBVIOUS
  <1> QED BY <1>1 DEF Store!Edits

LEMMA RevisionType ==
    ASSUME NEW row \in Store!Records \cup {NoRecord}
    PROVE  Store!RevisionOf(row) \in Nat
    BY StorageAssumption DEF Store!RevisionOf, Store!Records

LEMMA NothingWritten ==
    ASSUME NEW rows \in Rows, NEW edits
    PROVE  Store!Written(rows, edits, 0) = rows
    BY DEF Store!Written, Rows

(* With distinct keys, the next edit finds the row as it was. *)
LEMMA NextRowIsUntouched ==
    ASSUME NEW rows, NEW edits \in Seq(Store!Edits), Store!DistinctKeys(edits),
           NEW n \in Nat, n < Len(edits)
    PROVE  Store!Written(rows, edits, n)[edits[n + 1].key] = rows[edits[n + 1].key]
  <1>1. edits[n + 1].key \in Keys
    BY EditType
  <1>2. \A i \in 1..n : edits[i].key # edits[n + 1].key
    BY DEF Store!DistinctKeys
  <1> QED BY <1>1, <1>2 DEF Store!Written

(* What the loop writes is what the edit says. *)
LEMMA WritingTheNext ==
    ASSUME NEW rows, NEW edits \in Seq(Store!Edits), Store!DistinctKeys(edits),
           NEW n \in Nat, n < Len(edits)
    PROVE  [Store!Written(rows, edits, n) EXCEPT ![edits[n + 1].key] = Store!RecordOf(edits[n + 1])]
               = Store!Written(rows, edits, n + 1)
  <1> DEFINE W(m) == Store!Written(rows, edits, m)
             next == edits[n + 1]
             chosen(k, m) == CHOOSE i \in 1..m : edits[i].key = k
  <1>1. next.key \in Keys
    BY EditType
  <1>2. ASSUME NEW k \in Keys
        PROVE  [W(n) EXCEPT ![next.key] = Store!RecordOf(next)][k] = W(n + 1)[k]
    <2>1. CASE k = next.key
      <3>1. \A i \in 1..(n + 1) : edits[i].key = k => i = n + 1
        BY <2>1 DEF Store!DistinctKeys
      <3>2. chosen(k, n + 1) \in 1..(n + 1) /\ edits[chosen(k, n + 1)].key = k
        BY <2>1, n + 1 \in 1..(n + 1)
      <3>3. chosen(k, n + 1) = n + 1
        BY <3>1, <3>2
      <3> QED BY <1>2, <2>1, <3>2, <3>3 DEF Store!Written
    <2>2. CASE k # next.key
      <3>1. ASSUME NEW i \in 1..n, edits[i].key = k
            PROVE  chosen(k, n + 1) = chosen(k, n)
        <4>1. chosen(k, n) \in 1..n /\ edits[chosen(k, n)].key = k
          BY <3>1
        <4>2. chosen(k, n + 1) \in 1..(n + 1) /\ edits[chosen(k, n + 1)].key = k
          BY <3>1, i \in 1..(n + 1)
        <4> HIDE DEF chosen
        <4> QED BY <4>1, <4>2 DEF Store!DistinctKeys
      <3>2. (\E i \in 1..(n + 1) : edits[i].key = k) <=> (\E i \in 1..n : edits[i].key = k)
        BY <2>2
      <3>3. [W(n) EXCEPT ![next.key] = Store!RecordOf(next)][k] = W(n)[k]
        BY <1>2, <2>2 DEF Store!Written
      <3>4. W(n)[k] = IF \E i \in 1..n : edits[i].key = k
                        THEN Store!RecordOf(edits[chosen(k, n)]) ELSE rows[k]
        BY <1>2 DEF Store!Written
      <3>5. W(n + 1)[k] = IF \E i \in 1..(n + 1) : edits[i].key = k
                        THEN Store!RecordOf(edits[chosen(k, n + 1)]) ELSE rows[k]
        BY <1>2 DEF Store!Written
      <3> HIDE DEF chosen, W
      <3> QED BY <3>1, <3>2, <3>3, <3>4, <3>5
    <2> QED BY <2>1, <2>2
  <1>3. W(n) = [k \in Keys |-> W(n)[k]] /\ W(n + 1) = [k \in Keys |-> W(n + 1)[k]]
    BY DEF Store!Written
  <1> HIDE DEF W, next
  <1> QED BY <1>2, <1>3 DEF W, next

----------------------------------------------------------------------------
(* Typing and the meaning of the write lock, and the agreement of the       *)
(* working rows with the committed ones, hold initially and are kept.       *)
THEOREM InvariantInitially == Init => IInv
  <1> SUFFICES ASSUME Init PROVE IInv
    OBVIOUS
  <1>1. records \in Rows
    BY DEF Init, Rows
  <1>2. TypeOK
    BY <1>1, StorageAssumption DEF Init, TypeOK, Steps
  <1>3. \A c \in Clients : CallOK(c) /\ EditOK(c) /\ Ready(c) /\ Started(c)
    BY DEF Init, CallOK, EditOK, Ready, Started
  <1> QED BY <1>2, <1>3 DEF IInv

(* What a step does to the calls other than the one that takes it. *)
LEMMA OthersAreLeftAlone ==
    ASSUME IInv, NEW c \in Clients, NEW d \in Clients, d # c,
           step'[d] = step[d], request'[d] = request[d], at'[d] = at[d],
           step[d] = "editing" => working' = working /\ records' = records
    PROVE  CallOK(d)' /\ EditOK(d)' /\ Ready(d)' /\ Started(d)'
  <1>1. CallOK(d) /\ EditOK(d) /\ Ready(d) /\ Started(d)
    BY DEF IInv
  <1>2. CallOK(d)' /\ Ready(d)' /\ Started(d)'
    BY <1>1 DEF CallOK, Ready, Started
  <1>3. EditOK(d)'
    BY <1>1 DEF EditOK
  <1> QED BY <1>2, <1>3

LEMMA InvariantIsKept == IInv /\ [Next]_vars => IInv'
  <1> SUFFICES ASSUME IInv, [Next]_vars PROVE IInv'
    OBVIOUS
  <1> USE StorageAssumption
  <1>1. CASE UNCHANGED vars
    BY <1>1 DEF vars, IInv, TypeOK, CallOK, EditOK, Ready, Started
  <1>2. ASSUME NEW c \in Clients, NEW asked \in Store!Reads \cup Store!Writes, Call(c, asked)
        PROVE  IInv'
    <2>1. TypeOK'
      BY <1>2 DEF IInv, TypeOK, Call, database, Steps
    <2>2. CallOK(c)' /\ EditOK(c)' /\ Ready(c)' /\ Started(c)'
      BY <1>2 DEF IInv, TypeOK, Call, CallOK, EditOK, Ready, Started, Store!Reads, Store!Writes
    <2>3. \A d \in Clients \ {c} : CallOK(d)' /\ EditOK(d)' /\ Ready(d)' /\ Started(d)'
      BY <1>2, OthersAreLeftAlone DEF Call, database, IInv, TypeOK
    <2> QED BY <2>1, <2>2, <2>3 DEF IInv
  <1>3. ASSUME NEW c \in Clients, CheckEdits(c) \/ Open(c) \/ Migrate(c) \/ TimeOut(c)
                                   \/ Acknowledge(c) \/ Read(c)
        PROVE  IInv'
    <2>1. TypeOK'
      <3>1. schema' \in SchemaShapes
        <4>1. schema' \in {schema, Migrated(schema)}
          BY <1>3 DEF CheckEdits, Open, Migrate, TimeOut, Acknowledge, Read, database
        <4>2. schema \in SchemaShapes
          BY DEF IInv, TypeOK
        <4>3. Migrated(schema) \in SchemaShapes
          BY <4>2 DEF Migrated, SchemaShapes
        <4> QED BY <4>1, <4>2, <4>3
      <3>2. \E next \in Steps \ {"editing"} : step' = [step EXCEPT ![c] = next]
        BY <1>3 DEF CheckEdits, Open, Migrate, TimeOut, Acknowledge, Read, GoTo, Tell,
                    Steps, AfterOpening
      <3>3. step[c] # "editing"
        BY <1>3 DEF CheckEdits, Open, Migrate, TimeOut, Acknowledge, Read
      <3>4. records' = records /\ working' = working /\ lock' = lock /\ at' = at /\ request' = request
        BY <1>3 DEF CheckEdits, Open, Migrate, TimeOut, Acknowledge, Read, GoTo, Tell, database
      <3> QED BY <3>1, <3>2, <3>3, <3>4 DEF IInv, TypeOK
    <2>2. CallOK(c)' /\ EditOK(c)' /\ Ready(c)' /\ Started(c)'
      BY <1>3 DEF IInv, TypeOK, CheckEdits, Open, Migrate, TimeOut, Acknowledge, Read, GoTo, Tell,
                  database, AfterOpening, CallOK, EditOK, Ready, Started, KeysAreDistinct,
                  Store!Reads, Store!Writes
    <2>3. \A d \in Clients \ {c} : CallOK(d)' /\ EditOK(d)' /\ Ready(d)' /\ Started(d)'
      <3>1. working' = working /\ records' = records /\ at' = at /\ request' = request
        BY <1>3 DEF CheckEdits, Open, Migrate, TimeOut, Acknowledge, Read, GoTo, Tell, database
      <3>2. \A d \in Clients \ {c} : step'[d] = step[d]
        BY <1>3 DEF CheckEdits, Open, Migrate, TimeOut, Acknowledge, Read, GoTo, Tell, IInv, TypeOK
      <3> QED BY <3>1, <3>2, OthersAreLeftAlone
    <2> QED BY <2>1, <2>2, <2>3 DEF IInv
  <1>4. ASSUME NEW c \in Clients, Begin(c)
        PROVE  IInv'
    <2>1. TypeOK'
      BY <1>4 DEF IInv, TypeOK, Begin, GoTo, Steps
    <2>2. records \in Rows /\ at'[c] = 0 /\ working' = records /\ records' = records
      BY <1>4 DEF IInv, TypeOK, Begin, Ready
    <2>3. EditOK(c)'
      <3>1. request'[c] = request[c] /\ request[c].op = "transact"
        BY <1>4 DEF Begin, GoTo, IInv, CallOK
      <3>2. request[c].edits \in Seq(Store!Edits)
        BY <3>1, EditListsAreLists DEF IInv, TypeOK
      <3>3. working' = Store!Written(records, request[c].edits, 0)
        BY <2>2, NothingWritten
      <3>4. working' = Store!Written(records', request'[c].edits, at'[c])
        BY <2>2, <3>1, <3>3
      <3> QED BY <2>2, <3>1, <3>2, <3>4 DEF EditOK
    <2>4. CallOK(c)' /\ Ready(c)' /\ Started(c)'
      BY <1>4 DEF IInv, TypeOK, Begin, GoTo, CallOK, Ready, Started
    <2>5. \A d \in Clients \ {c} : CallOK(d)' /\ EditOK(d)' /\ Ready(d)' /\ Started(d)'
      <3>1. \A d \in Clients \ {c} : step[d] # "editing" /\ step'[d] = step[d]
        BY <1>4 DEF Begin, GoTo, IInv, TypeOK
      <3> QED BY <1>4, <3>1, OthersAreLeftAlone DEF Begin, GoTo
    <2> QED BY <2>1, <2>3, <2>4, <2>5 DEF IInv
  <1>5. ASSUME NEW c \in Clients, Edit(c)
        PROVE  IInv'
    <2> DEFINE edits == request[c].edits
               next == edits[at[c] + 1]
    <2>1. edits \in Seq(Store!Edits) /\ Store!DistinctKeys(edits) /\ Store!Representable(edits)
      BY <1>5, EditListsAreLists DEF Edit, IInv, TypeOK, CallOK
    <2>2. at[c] \in Nat /\ at[c] < Len(edits) /\ lock = c
          /\ working = Store!Written(records, edits, at[c])
      BY <1>5 DEF Edit, IInv, TypeOK, EditOK
    <2>3. next.key \in Keys /\ next.expected \in Nat /\ next.data \in Data
      BY <2>1, <2>2, EditType
    <2>4. working[next.key] = records[next.key]
      BY <2>1, <2>2, NextRowIsUntouched
    <2>5. Store!RevisionOf(records[next.key]) = next.expected
      BY <1>5, <2>4, Zenon DEF Edit, NextEdit, Expected
    <2>6. working' = [working EXCEPT ![next.key] = Store!RecordOf(next)]
      BY <1>5, <2>4, <2>5, Zenon DEF Edit, NextEdit, Store!RecordOf
    <2>7. working' = Store!Written(records, edits, at[c] + 1)
      BY <2>1, <2>2, <2>6, WritingTheNext
    <2>8. Store!RecordOf(next) \in Store!Records
      BY <2>1, <2>2, <2>3, SMTT(30) DEF Store!RecordOf, Store!Records, Store!Representable
    <2>9. at' = [at EXCEPT ![c] = at[c] + 1] /\ at'[c] = at[c] + 1 /\ at' \in [Clients -> Nat]
      BY <1>5, <2>2 DEF Edit, IInv, TypeOK
    <2>10. TypeOK'
      <3>1. working' \in Rows
        BY <2>3, <2>6, <2>8 DEF IInv, TypeOK, Rows
      <3> QED BY <1>5, <2>9, <3>1 DEF Edit, IInv, TypeOK
    <2>11. EditOK(c)'
      <3>1. records' = records /\ request' = request
        BY <1>5 DEF Edit
      <3>2. \A i \in 1..(at[c] + 1) : Store!RevisionOf(records[edits[i].key]) = edits[i].expected
        BY <1>5, <2>2, <2>5, SMTT(30) DEF Edit, IInv, EditOK
      <3> HIDE DEF edits, next
      <3>3. at'[c] <= Len(edits)
        BY <2>1, <2>2, <2>9
      <3> QED BY <2>7, <2>9, <3>1, <3>2, <3>3 DEF EditOK, edits
    <2>12. CallOK(c)' /\ Ready(c)' /\ Started(c)'
      BY <1>5 DEF IInv, Edit, CallOK, Ready, Started
    <2>13. \A d \in Clients \ {c} : CallOK(d)' /\ EditOK(d)' /\ Ready(d)' /\ Started(d)'
      <3>1. \A d \in Clients \ {c} : step[d] # "editing" /\ at'[d] = at[d]
        BY <2>2, <2>9 DEF IInv, TypeOK
      <3> QED BY <1>5, <3>1, OthersAreLeftAlone DEF Edit
    <2> QED BY <2>10, <2>11, <2>12, <2>13 DEF IInv
  <1>6. ASSUME NEW c \in Clients, RefuseEdit(c) \/ Break(c)
        PROVE  IInv'
    <2>1. TypeOK'
      BY <1>6 DEF IInv, TypeOK, RefuseEdit, Break, Tell, Rollback, Drop, Steps
    <2>2. CallOK(c)' /\ EditOK(c)' /\ Ready(c)' /\ Started(c)'
      BY <1>6 DEF IInv, TypeOK, RefuseEdit, Break, Tell, Rollback, Drop, CallOK, EditOK, Ready, Started
    <2>3. \A d \in Clients \ {c} : CallOK(d)' /\ EditOK(d)' /\ Ready(d)' /\ Started(d)'
      <3>1. \A d \in Clients \ {c} : step'[d] = step[d]
        BY <1>6 DEF RefuseEdit, Break, Tell, IInv, TypeOK
      <3> QED BY <1>6, <3>1, OthersAreLeftAlone DEF RefuseEdit, Break, Tell, Rollback, Drop
    <2> QED BY <2>1, <2>2, <2>3 DEF IInv
  <1>7. ASSUME NEW c \in Clients, Commit(c)
        PROVE  IInv'
    <2>1. TypeOK'
      BY <1>7 DEF IInv, TypeOK, Commit, GoTo, Steps
    <2>2. CallOK(c)' /\ EditOK(c)' /\ Ready(c)' /\ Started(c)'
      BY <1>7 DEF IInv, TypeOK, Commit, GoTo, CallOK, EditOK, Ready, Started
    <2>3. \A d \in Clients \ {c} : CallOK(d)' /\ EditOK(d)' /\ Ready(d)' /\ Started(d)'
      <3>1. \A d \in Clients \ {c} : step[d] # "editing" /\ step'[d] = step[d]
        BY <1>7 DEF Commit, GoTo, IInv, TypeOK
      <3> QED BY <1>7, <3>1, OthersAreLeftAlone DEF Commit, GoTo
    <2> QED BY <2>1, <2>2, <2>3 DEF IInv
  <1> QED BY <1>1, <1>2, <1>3, <1>4, <1>5, <1>6, <1>7 DEF Next

THEOREM InvariantAlways == Spec => []IInv
  <1> QED BY InvariantInitially, InvariantIsKept, PTL DEF Spec

(* The types, and that the call that edits is the one that holds the lock. *)
THEOREM TypeCorrect == Spec => []TypeOK
  <1>1. IInv => TypeOK
    BY DEF IInv
  <1> QED BY <1>1, InvariantAlways, PTL

----------------------------------------------------------------------------
(* A transaction reaches the committed rows in one step of RecordStore. *)
LEMMA CommitApplies ==
    ASSUME IInv, NEW c \in Clients, Commit(c)
    PROVE  Store!Apply(c)
  <1>1. request[c].op = "transact" /\ request[c].edits \in Seq(Store!Edits)
    BY EditListsAreLists DEF Commit, IInv, TypeOK, CallOK
  <1>2. working = Store!Written(records, request[c].edits, Len(request[c].edits))
        /\ Store!Matches(records, request[c].edits)
    BY <1>1 DEF Commit, IInv, EditOK, Store!Matches
  <1>3. Store!DistinctKeys(request[c].edits) /\ Store!Representable(request[c].edits)
    BY <1>1 DEF Commit, IInv, CallOK
  <1>4. phase[c] = "called" /\ phase' = [phase EXCEPT ![c] = "applied"]
    BY DEF Commit, GoTo, phase, IInv, TypeOK
  <1> QED BY <1>1, <1>2, <1>3, <1>4 DEF Commit, GoTo, Store!Apply

LEMMA TellEndsTheCall ==
    ASSUME IInv, NEW c \in Clients, NEW said, Tell(c, said)
    PROVE  Store!Answered(c, said)
    BY DEF Tell, Store!Answered, phase, IInv, TypeOK

LEMMA GoingOnIsInvisible ==
    ASSUME IInv, NEW c \in Clients, NEW next, GoTo(c, next),
           step[c] \notin {"idle", "committed"}, next \notin {"idle", "committed"},
           records' = records
    PROVE  UNCHANGED Store!storeVars
    BY DEF GoTo, phase, Store!storeVars, IInv, TypeOK

LEMMA StepsImplement == IInv /\ [Next]_vars => [Store!Next]_(Store!storeVars)
  <1> SUFFICES ASSUME IInv, [Next]_vars PROVE [Store!Next]_(Store!storeVars)
    OBVIOUS
  <1>1. CASE UNCHANGED vars
    BY <1>1 DEF vars, phase, Store!storeVars
  <1>2. ASSUME NEW c \in Clients, NEW asked \in Store!Reads \cup Store!Writes, Call(c, asked)
        PROVE  Store!Call(c, asked)
    BY <1>2 DEF Call, database, phase, Store!Call, IInv, TypeOK
  <1>3. ASSUME NEW c \in Clients, CheckEdits(c)
        PROVE  Store!Refuse(c) \/ UNCHANGED Store!storeVars
    <2>1. phase[c] = "called" /\ request[c].op = "transact" /\ records' = records
      BY <1>3 DEF CheckEdits, phase, IInv, CallOK, database
    <2>2. CASE GoTo(c, "opening")
      BY <1>3, <2>1, <2>2, GoingOnIsInvisible DEF CheckEdits
    <2>3. CASE ~GoTo(c, "opening")
      BY <1>3, <2>1, <2>3, TellEndsTheCall DEF CheckEdits, Store!Refuse, KeysAreDistinct
    <2> QED BY <2>2, <2>3
  <1>4. ASSUME NEW c \in Clients, Open(c) \/ Migrate(c) \/ TimeOut(c) \/ Begin(c)
        PROVE  Store!Fail(c) \/ UNCHANGED Store!storeVars
    <2>1. phase[c] = "called" /\ records' = records /\ step[c] \notin {"idle", "committed"}
      BY <1>4 DEF Open, Migrate, TimeOut, Begin, phase, database
    <2>2. AfterOpening(c) \notin {"idle", "committed"}
      BY DEF AfterOpening
    <2>3. \/ Tell(c, Store!Failure)
          \/ \E next \in {"migrating", "editing", AfterOpening(c)} : GoTo(c, next)
      BY <1>4 DEF Open, Migrate, TimeOut, Begin
    <2>4. CASE Tell(c, Store!Failure)
      BY <2>1, <2>4, TellEndsTheCall DEF Store!Fail
    <2> QED BY <2>1, <2>2, <2>3, <2>4, GoingOnIsInvisible
  <1>5. ASSUME NEW c \in Clients, Edit(c)
        PROVE  UNCHANGED Store!storeVars
    BY <1>5 DEF Edit, phase, Store!storeVars
  <1>6. ASSUME NEW c \in Clients, RefuseEdit(c)
        PROVE  Store!Refuse(c)
    <2> DEFINE edits == request[c].edits
    <2>1. phase[c] = "called" /\ request[c].op = "transact" /\ records' = records
          /\ Store!Answered(c, Store!Conflict)
      BY <1>6, TellEndsTheCall DEF RefuseEdit, phase, IInv, CallOK, Rollback
    <2>2. edits \in Seq(Store!Edits) /\ Store!DistinctKeys(edits) /\ at[c] \in Nat
          /\ at[c] < Len(edits) /\ working = Store!Written(records, edits, at[c])
      BY <1>6, EditListsAreLists DEF RefuseEdit, IInv, TypeOK, CallOK, EditOK
    <2>3. working[edits[at[c] + 1].key] = records[edits[at[c] + 1].key]
      BY <2>2, NextRowIsUntouched
    <2>4. Store!RevisionOf(records[edits[at[c] + 1].key]) # edits[at[c] + 1].expected
      BY <1>6, <2>3 DEF RefuseEdit, NextEdit, Expected
    <2>5. ~Store!Matches(records, edits)
      BY <2>2, <2>4 DEF Store!Matches
    <2> QED BY <2>1, <2>5 DEF Store!Refuse
  <1>7. ASSUME NEW c \in Clients, Commit(c)
        PROVE  Store!Apply(c)
    BY <1>7, CommitApplies
  <1>8. ASSUME NEW c \in Clients, Acknowledge(c)
        PROVE  Store!Acknowledge(c)
    <2>1. phase[c] = "applied" /\ records' = records
      BY <1>8 DEF Acknowledge, phase, database
    <2>2. Store!Answered(c, Store!Acknowledgement(request[c].edits))
      BY <1>8, TellEndsTheCall DEF Acknowledge
    <2> QED BY <2>1, <2>2 DEF Store!Acknowledge
  <1>9. ASSUME NEW c \in Clients, Read(c)
        PROVE  Store!Read(c)
    <2>1. phase[c] = "called" /\ request[c].op = "read" /\ records' = records
      BY <1>9 DEF Read, phase, database, IInv, CallOK
    <2>2. Store!Answered(c, Store!Found(records[request[c].key]))
      BY <1>9, TellEndsTheCall DEF Read
    <2> QED BY <2>1, <2>2 DEF Store!Read
  <1>10. ASSUME NEW c \in Clients, Break(c)
        PROVE  Store!Fail(c)
    BY <1>10, TellEndsTheCall DEF Break, Drop, Store!Fail, phase, IInv, TypeOK
  <1> QED BY <1>1, <1>2, <1>3, <1>4, <1>5, <1>6, <1>7, <1>8, <1>9, <1>10 DEF Next, Store!Next

LEMMA StartsImplement == Init => Store!Init
    BY DEF Init, phase, Store!Init

(* SQLite's transactions, as the plugin uses them, keep the promise of      *)
(* RecordStore for any number of processes, records and edits.              *)
THEOREM StorageKeepsThePromise == Spec => KeepsThePromise
  <1> QED BY StartsImplement, StepsImplement, InvariantAlways, PTL
          DEF Spec, KeepsThePromise, Store!Spec

----------------------------------------------------------------------------
(* A call gets past the opening only on a migrated database, which stays so. *)
Settled ==
    /\ RowsNeedAMigratedTable
    /\ \A c \in Clients :
          step[c] \in {"beginning", "editing"} => schema = [version |-> 1, table |-> "current"]

LEMMA UsableIsMigrated ==
    ASSUME NEW found \in SchemaShapes, Usable(found)
    PROVE  found = [version |-> 1, table |-> "current"]
    BY DEF Usable, SchemaShapes

LEMMA MigratingKeepsTheType ==
    ASSUME NEW found \in SchemaShapes
    PROVE  Migrated(found) \in SchemaShapes
    BY DEF Migrated, SchemaShapes

LEMMA SettledInitially == Init => Settled
    BY DEF Init, Settled, RowsNeedAMigratedTable

LEMMA SettledIsKept == TypeOK /\ Settled /\ [Next]_vars => Settled'
  <1> SUFFICES ASSUME TypeOK, Settled, [Next]_vars PROVE Settled'
    OBVIOUS
  <1> DEFINE Current == [version |-> 1, table |-> "current"]
  <1> USE StorageAssumption
  <1>1. CASE UNCHANGED vars
    BY <1>1 DEF vars, Settled, RowsNeedAMigratedTable
  <1>2. ASSUME NEW c \in Clients, NEW asked, Call(c, asked)
        PROVE  Settled'
    BY <1>2 DEF Call, database, Settled, RowsNeedAMigratedTable, TypeOK
  <1>3. ASSUME NEW c \in Clients, Open(c) \/ Migrate(c)
        PROVE  Settled'
    <2>1. schema \in SchemaShapes /\ records' = records
      BY <1>3 DEF TypeOK, Open, Migrate, database
    <2>2. schema' = schema \/ schema' = Current
      <3>1. CASE Open(c)
        BY <3>1 DEF Open, database
      <3>2. CASE Migrate(c)
        BY <2>1, <3>2, UsableIsMigrated, MigratingKeepsTheType DEF Migrate
      <3> QED BY <1>3, <3>1, <3>2
    <2>3. step'[c] = "beginning" => schema' = Current
      <3>1. step'[c] = "beginning" => (Usable(schema) /\ schema' = schema)
                                    \/ (Usable(Migrated(schema)) /\ schema' = Migrated(schema))
        BY <1>3 DEF Open, Migrate, GoTo, Tell, TypeOK, database
      <3> QED BY <2>1, <3>1, UsableIsMigrated, MigratingKeepsTheType
    <2>4. step'[c] # "editing" /\ \A d \in Clients \ {c} : step'[d] = step[d]
      BY <1>3 DEF Open, Migrate, GoTo, Tell, AfterOpening, TypeOK
    <2> QED BY <2>1, <2>2, <2>3, <2>4 DEF Settled, RowsNeedAMigratedTable
  <1>4. ASSUME NEW c \in Clients, CheckEdits(c) \/ Begin(c) \/ TimeOut(c) \/ Edit(c)
                                   \/ RefuseEdit(c) \/ Acknowledge(c) \/ Read(c) \/ Break(c)
        PROVE  Settled'
    <2>1. schema' = schema /\ records' = records
      BY <1>4 DEF CheckEdits, Begin, TimeOut, Edit, RefuseEdit, Acknowledge, Read, Break,
                  database, Rollback, Drop
    <2>2. step'[c] \in {"beginning", "editing"} => step[c] \in {"beginning", "editing"}
      BY <1>4 DEF CheckEdits, Begin, TimeOut, Edit, RefuseEdit, Acknowledge, Read, Break,
                  GoTo, Tell, TypeOK
    <2>3. \A d \in Clients \ {c} : step'[d] = step[d]
      BY <1>4 DEF CheckEdits, Begin, TimeOut, Edit, RefuseEdit, Acknowledge, Read, Break,
                  GoTo, Tell, TypeOK
    <2> QED BY <2>1, <2>2, <2>3 DEF Settled, RowsNeedAMigratedTable
  <1>5. ASSUME NEW c \in Clients, Commit(c)
        PROVE  Settled'
    <2>1. schema = Current /\ schema' = schema
      BY <1>5 DEF Commit, Settled
    <2> QED BY <2>1 DEF Settled, RowsNeedAMigratedTable
  <1> QED BY <1>1, <1>2, <1>3, <1>4, <1>5 DEF Next

LEMMA SettledAlways == Spec => []Settled
  <1> QED BY SettledInitially, SettledIsKept, TypeCorrect, PTL DEF Spec

(* Rows are written only to a migrated database. *)
THEOREM RowsFollowMigration == Spec => []RowsNeedAMigratedTable
  <1>1. Settled => RowsNeedAMigratedTable
    BY DEF Settled
  <1> QED BY <1>1, SettledAlways, PTL

(* A database with a future or malformed schema is never written to. *)
THEOREM ForeignSafe == Spec => ForeignDatabasesAreUntouched
  <1>1. TypeOK /\ Settled /\ [Next]_vars => [Foreign => UNCHANGED <<schema, records>>]_vars
    <2> SUFFICES ASSUME TypeOK, Settled, Next, Foreign PROVE UNCHANGED <<schema, records>>
      OBVIOUS
    <2>1. ASSUME NEW c \in Clients, Migrate(c)
          PROVE  UNCHANGED <<schema, records>>
      <3>1. ~Usable(Migrated(schema))
        BY DEF Foreign, Usable, Migrated, TypeOK, SchemaShapes
      <3> QED BY <2>1, <3>1 DEF Migrate
    <2>2. ASSUME NEW c \in Clients, Commit(c)
          PROVE  FALSE
      BY <2>2 DEF Commit, Settled, Foreign
    <2>3. ASSUME NEW c \in Clients, NEW asked,
                 Call(c, asked) \/ CheckEdits(c) \/ Open(c) \/ Begin(c) \/ TimeOut(c) \/ Edit(c)
                 \/ RefuseEdit(c) \/ Acknowledge(c) \/ Read(c) \/ Break(c)
          PROVE  UNCHANGED <<schema, records>>
      BY <2>3 DEF Call, CheckEdits, Open, Begin, TimeOut, Edit, RefuseEdit, Acknowledge, Read,
                  Break, database, Rollback, Drop
    <2> QED BY <2>1, <2>2, <2>3 DEF Next
  <1> QED BY <1>1, TypeCorrect, SettledAlways, PTL DEF Spec, ForeignDatabasesAreUntouched

(* One process edits at a time, and rows follow the migration.              *)
THEOREM DatabaseAlwaysSound == Spec => []DatabaseIsSound
  BY TypeCorrect, RowsFollowMigration, PTL DEF DatabaseIsSound
============================================================================
