\* One database, one table, three rows: every crash point of INSERT, BEGIN /
\* COMMIT, UPDATE and DELETE, with one failing page write.
SPECIFICATION Spec
CONSTANTS
  r1 = r1
  r2 = r2
  r3 = r3
  None = None
  Tables = {"t"}
  Rows = {r1, r2, r3}
  Dbs = {"default"}
  DefaultDb = "default"
  MaxRecords = 10
  MaxCommitted = 10
  Faults = {"page_write"}
  MaxFaults = 1
  Workload = {"BEGIN", "COMMIT", "INSERT", "UPDATE", "DELETE", "CREATE TABLE"}
  MaxLog = 7
  MaxSessions = 2
SYMMETRY RowSymmetry
INVARIANTS TypeOK LogWellFormed
PROPERTIES ImplementsStore WriteAhead AbortedNotRedone
