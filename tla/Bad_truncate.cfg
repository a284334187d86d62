\* A page write that fails at INSERT and again at redo.
SPECIFICATION Spec
CONSTANTS
  r1 = r1
  r2 = r2
  r3 = r3
  None = None
  Tables = {"t"}
  Rows = {r1}
  Dbs = {"default"}
  DefaultDb = "default"
  MaxRecords = 10
  MaxCommitted = 10
  Faults = {"page_write", "redo_write"}
  MaxFaults = 2
  Workload = {"INSERT", "CREATE TABLE"}
  MaxLog = 6
  MaxSessions = 2
INVARIANT RedoneBeforeTruncate
