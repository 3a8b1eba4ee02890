SPECIFICATION Spec
CONSTANTS
  Clients = {c1, c2}
  k1 = k1
  k2 = k2
  d1 = d1
  d2 = d2
  Keys = {k1, k2}
  Data = {d1, d2}
  Transactions <- MCTransactions
  Schemas <- MCSchemas
  MaxRevision = 2
  NoRecord = NoRecord
  NoClient = NoClient
INVARIANTS
    DatabaseIsSound
PROPERTIES
    KeepsThePromise
    ForeignDatabasesAreUntouched
