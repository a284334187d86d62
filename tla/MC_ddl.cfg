\* Two databases, one table name in each, three rows: CREATE / DROP / USE file by
\* file, while the log and the schema files may fail and recovery is too small.
SPECIFICATION Spec
CONSTANTS
  r1 = r1
  r2 = r2
  r3 = r3
  None = None
  Tables = {"t"}
  Rows = {r1, r2, r3}
  Dbs = {"default", "d2"}
  DefaultDb = "default"
  MaxRecords = 4
  MaxCommitted = 1
  Faults = {"log_write", "torn", "create", "redo_write"}
  MaxFaults = 1
  Workload = {"INSERT", "UPDATE", "DELETE", "CREATE TABLE", "DROP TABLE", "CREATE DATABASE", "USE"}
  MaxLog = 6
  MaxSessions = 2
SYMMETRY RowSymmetry
INVARIANTS AckedOnDisk CatalogAgrees CurrentDbExists
