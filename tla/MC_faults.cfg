\* Every kind of failure, a recovery whose arrays are too small, two rows.
SPECIFICATION FairSpec
CONSTANTS
  r1 = r1
  r2 = r2
  r3 = r3
  None = None
  Tables = {"t"}
  Rows = {r1, r2}
  Dbs = {"default"}
  DefaultDb = "default"
  MaxRecords = 5
  MaxCommitted = 1
  Faults = {"log_write", "torn", "page_write", "redo_write", "create"}
  MaxFaults = 1
  Workload = {"BEGIN", "COMMIT", "INSERT", "UPDATE", "CREATE TABLE"}
  MaxLog = 5
  MaxSessions = 2
INVARIANTS CopiesBounded LogWellFormed
PROPERTIES StatementsReturn
