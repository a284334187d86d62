------------------------------ MODULE TableFiles ------------------------------
(***************************************************************************)
(* What KernelDB keeps on disk besides its log: the database directories    *)
(* data/<db>/, the file data/.current_db, and per table data/<db>/<t>.db,   *)
(* data/<db>/<t>.schema and a line of data/<db>/catalog.db.                 *)
(* (src/storage/Table/table.c, src/dispatcher/dispatcher.c, main.c)         *)
(***************************************************************************)
EXTENDS Names, Naturals

CONSTANTS
  Dbs,         \* database names
  DefaultDb    \* "default"

VARIABLES
  dbs,         \* the directories that exist
  curFile,     \* data/.current_db: absent, empty, or a name
  dataFiles,   \* the <t>.db files that exist
  schemas,     \* the <t>.schema files that exist
  catalog,     \* the lines of the catalogs; nothing in the program reads them
  rows         \* the live rows of each <t>.db, with their number of copies

fileVars == <<dbs, curFile, dataFiles, schemas, catalog, rows>>

Absent == "absent"
Empty  == "empty"

ASSUME FilesAssumption == DefaultDb \in Dbs /\ Absent \notin Dbs /\ Empty \notin Dbs

File    == Dbs \X Tables
Copies  == [Rows -> Nat]
NoRows  == [r \in Rows |-> 0]

FilesTypeOK == /\ dbs \subseteq Dbs
               /\ curFile \in Dbs \cup {Absent, Empty}
               /\ dataFiles \subseteq File /\ schemas \subseteq File /\ catalog \subseteq File
               /\ rows \in [File -> Copies]

FilesInit == /\ dbs = {} /\ curFile = Absent
             /\ dataFiles = {} /\ schemas = {} /\ catalog = {}
             /\ rows = [f \in File |-> NoRows]

-----------------------------------------------------------------------------
table_exists(f) == f \in dataFiles

\* table_open succeeds: the data file exists and the schema can be loaded.
CanOpen(f) == table_exists(f) /\ f \in schemas

PlusOne(b, r)  == [b EXCEPT ![r] = @ + 1]
MinusOne(b, r) == [b EXCEPT ![r] = @ - 1]

\* Writing back the one dirty page of a table.
StoreRows(f, b) == rows' = [rows EXCEPT ![f] = b]

\* The database main.c makes current: an empty file leaves the static default.
RestartDb == IF curFile \in Dbs THEN curFile ELSE DefaultDb

-----------------------------------------------------------------------------
(* table_create and table_drop, file by file.                               *)
CreateData(f) == /\ dataFiles' = dataFiles \cup {f}
                 /\ StoreRows(f, NoRows)
                 /\ UNCHANGED <<dbs, curFile, schemas, catalog>>

save_schema(f) == /\ schemas' = schemas \cup {f}
                  /\ UNCHANGED <<dbs, curFile, dataFiles, catalog, rows>>

catalog_add(f) == /\ catalog' = catalog \cup {f}
                  /\ UNCHANGED <<dbs, curFile, dataFiles, schemas, rows>>

RemoveData(f) == /\ dataFiles' = dataFiles \ {f}
                 /\ StoreRows(f, NoRows)
                 /\ UNCHANGED <<dbs, curFile, schemas, catalog>>

RemoveSchema(f) == /\ schemas' = schemas \ {f}
                   /\ UNCHANGED <<dbs, curFile, dataFiles, catalog, rows>>

\* Mutant: catalog_remove gives up before the rename.
catalog_remove_NoRename(f) == UNCHANGED fileVars

catalog_remove(f) == /\ catalog' = catalog \ {f}
                     /\ UNCHANGED <<dbs, curFile, dataFiles, schemas, rows>>

-----------------------------------------------------------------------------
(* mkdir of a database, and the two steps in which USE rewrites             *)
(* data/.current_db: fopen("w") empties it, fclose writes the name.         *)
MakeDb(d) == /\ dbs' = dbs \cup {d}
             /\ UNCHANGED <<curFile, dataFiles, schemas, catalog, rows>>

SetCurFile(v) == /\ curFile' = v
                 /\ UNCHANGED <<dbs, dataFiles, schemas, catalog, rows>>
=============================================================================
