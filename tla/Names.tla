-------------------------------- MODULE Names --------------------------------
(* The names and values that the log and the table files share.             *)
CONSTANTS
  Tables,   \* table names
  Rows,     \* row images; every INSERT and UPDATE writes one of its own
  None      \* "no table" / "no row", the zeroed fields of a log record

ASSUME NamesAssumption == None \notin Tables /\ None \notin Rows
=============================================================================
