------------------------------- MODULE KernelDB -------------------------------
(***************************************************************************)
(* One KernelDB process after another on the same data directory: the log   *)
(* (Wal), the files (TableFiles), and the process that main.c starts, which *)
(* recovers and then executes statements (dispatcher.c, table.c).  A step   *)
(* is what happens between two writes to disk, so that a crash can come     *)
(* between any two of them.  A table is one page here: its close writes it  *)
(* back in one write.                                                      *)
(***************************************************************************)
EXTENDS Wal, TableFiles

CONSTANTS
  Workload,     \* the kinds of statement the user types
  MaxLog,       \* model bound: no statement starts that could pass it
  MaxSessions   \* model bound: how often the process is started

StatementKind == {"BEGIN", "COMMIT", "INSERT", "UPDATE", "DELETE",
                  "CREATE TABLE", "DROP TABLE", "CREATE DATABASE", "USE"}

ASSUME BoundAssumption == /\ Workload \subseteq StatementKind
                          /\ MaxLog \in Nat /\ MaxSessions \in Nat

VARIABLES
  pc,           \* where the process is: "down", "idle", or inside main / a statement
  curDb,        \* current_db
  txnActive,    \* txn_active
  currentTxn,   \* current_txn
  stmt,         \* locals of the statement that runs
  mem,          \* the open table as UPDATE / DELETE see it in its frame
  left,         \* the rows of it their loop has not reached
  dirty,        \* frame->dirty
  gone,         \* history: rows it deleted in the frame without saying so
  redoIdx,      \* the loop counter i of wal_recover
  smashed,      \* records[redoIdx] was overwritten by the commit list
  sessions,     \* starts so far
  txnRows,      \* history: rows inserted in the explicit transaction
  home,         \* history: the table each row was submitted to
  fate          \* history: what the user was told about each row

sessionVars == <<curDb, txnActive, currentTxn, txnRows>>
scanVars    == <<mem, left, dirty, gone>>
redoVars    == <<redoIdx, smashed>>
histVars    == <<home, fate>>
vars == <<walVars, faults, fileVars, pc, sessionVars, stmt, scanVars, redoVars,
          sessions, histVars>>

(* "open": submitted, not committed.  "failed": the statement said so.      *)
(* "deleting", "updating": taken or written by a statement still running.   *)
(* "updated": written by an UPDATE that returned.  "lost": an UPDATE had no  *)
(* room for its new version, and another change of the page took the        *)
(* deletion to the file.  "aborted": its transaction was open when the      *)
(* process died or a second BEGIN orphaned it.  "unknown": the process died *)
(* with the statement running.                                              *)
Fate == {"new", "open", "acked", "failed", "deleting", "deleted",
         "updating", "updated", "lost", "aborted", "unknown"}
PC == {"down", "recover", "redo", "idle", "ins_log", "ins_table", "ins_commit",
       "scan", "row_log", "row_commit", "create_schema", "create_catalog",
       "drop_schema", "drop_catalog", "use_write"}
NoHome == None

ASSUME HomeAssumption == NoHome \notin File

NoStmt == [op |-> "none", table |-> None, row |-> None, image |-> None,
           txn |-> 0, auto |-> FALSE]
Stmt == [op : StatementKind \cup {"none"}, table : Tables \cup {None},
         row : Rows \cup {None}, image : Rows \cup {None}, txn : Nat, auto : BOOLEAN]

ProcessTypeOK == /\ pc \in PC /\ curDb \in Dbs
                 /\ txnActive \in BOOLEAN /\ currentTxn \in Nat /\ txnRows \subseteq Rows
                 /\ stmt \in Stmt
                 /\ mem \in Copies /\ left \in Copies /\ dirty \in BOOLEAN /\ gone \subseteq Rows
                 /\ redoIdx \in Nat /\ smashed \in BOOLEAN
                 /\ sessions \in Nat

HistoryTypeOK == home \in [Rows -> File \cup {NoHome}] /\ fate \in [Rows -> Fate]

\* The type invariant: every variable of the log, the files and the process.
TypeOK == WalTypeOK /\ FilesTypeOK /\ ProcessTypeOK /\ HistoryTypeOK

NoSession == /\ curDb = DefaultDb /\ txnActive = FALSE /\ currentTxn = 0 /\ txnRows = {}
             /\ mem = NoRows /\ left = NoRows /\ dirty = FALSE /\ gone = {}
             /\ stmt = NoStmt /\ redoIdx = 0 /\ smashed = FALSE

Init == /\ WalInit /\ FilesInit
        /\ pc = "down" /\ NoSession /\ sessions = 0
        /\ home = [r \in Rows |-> NoHome] /\ fate = [r \in Rows |-> "new"]

F == <<curDb, stmt.table>>
Fresh == {r \in Rows : fate[r] = "new"}
SetFate(S, v) == fate' = [r \in Rows |-> IF r \in S THEN v ELSE fate[r]]
EndStmt == pc' = "idle" /\ stmt' = NoStmt
Ready(kind, records) ==
  pc = "idle" /\ kind \in Workload /\ Len(log) + records <= MaxLog

-----------------------------------------------------------------------------
(* main: a start, recovery, and the ends of a process.                      *)

Start == /\ pc = "down" /\ sessions < MaxSessions
         /\ sessions' = sessions + 1
         /\ MakeDb(DefaultDb)
         /\ wal_open
         /\ curDb' = RestartDb
         /\ pc' = "recover"
         /\ UNCHANGED <<faults, txnActive, currentTxn, txnRows, stmt, scanVars,
                        redoVars, histVars>>

(* No record: wal_recover returns without truncating.  Bytes behind a torn  *)
(* first record may still be taken for records that redo nothing; then the  *)
(* log is truncated.                                                       *)
RecoverNothing ==
  /\ pc = "recover" /\ Kept = {}
  /\ \/ UNCHANGED walVars
     \/ Len(log) > 1 /\ wal_truncate
  /\ pc' = "idle"
  /\ UNCHANGED <<faults, fileVars, sessionVars, stmt, scanVars, redoVars, sessions, histVars>>

\* Mutant: the log is truncated before it is redone.
RecoverScan_TruncatesFirst ==
  /\ pc = "recover" /\ Kept # {}
  /\ wal_truncate
  /\ redoIdx' = 1 /\ smashed' = FALSE /\ pc' = "redo"
  /\ UNCHANGED <<faults, fileVars, sessionVars, stmt, scanVars, sessions, histVars>>

(* The commit list is complete.  Past committed[256] its writes run over    *)
(* the head of records[]: the records before redoIdx are destroyed, and in  *)
(* record redoIdx a committed id may have replaced txn_id.                  *)
RecoverScan ==
  /\ pc = "recover" /\ Kept # {}
  /\ \/ redoIdx' = 1 /\ smashed' = FALSE
     \/ \E n \in 1..Cardinality(Commits) :
          /\ Cardinality(Commits) >= MaxCommitted + n
          /\ redoIdx' = n /\ smashed' \in BOOLEAN
  /\ pc' = "redo"
  /\ UNCHANGED <<walVars, faults, fileVars, sessionVars, stmt, scanVars, sessions, histVars>>

RedoTarget == <<curDb, log[redoIdx].table>>
MustRedo == redoIdx \in Redoable \/ (smashed /\ log[redoIdx].type = "INSERT")

\* Mutant: the flush and the close of redo_insert both add the row.
redo_insert_Twice ==
  IF CanOpen(RedoTarget)
  THEN /\ StoreRows(RedoTarget, PlusOne(PlusOne(rows[RedoTarget], log[redoIdx].row),
                                        log[redoIdx].row))
       /\ UNCHANGED <<faults, dbs, curFile, dataFiles, schemas, catalog>>
  ELSE UNCHANGED <<fileVars, faults>>

\* redo_insert: open, insert, flush and close the table, whatever fails.
redo_insert ==
  IF CanOpen(RedoTarget)
  THEN /\ \/ StoreRows(RedoTarget, PlusOne(rows[RedoTarget], log[redoIdx].row))
             /\ UNCHANGED faults
          \/ Fault("redo_write") /\ UNCHANGED rows
       /\ UNCHANGED <<dbs, curFile, dataFiles, schemas, catalog>>
  ELSE UNCHANGED <<fileVars, faults>>

\* Mutant: the loop counter stays where it is at a record that is not redone.
Redo_Stuck == /\ pc = "redo" /\ redoIdx \in Kept
              /\ IF MustRedo THEN redo_insert /\ redoIdx' = redoIdx + 1
                             ELSE UNCHANGED <<fileVars, faults, redoIdx>>
              /\ smashed' = FALSE
              /\ UNCHANGED <<walVars, pc, sessionVars, stmt, scanVars, sessions, histVars>>

Redo == /\ pc = "redo" /\ redoIdx \in Kept
        /\ IF MustRedo THEN redo_insert ELSE UNCHANGED <<fileVars, faults>>
        /\ redoIdx' = redoIdx + 1 /\ smashed' = FALSE
        /\ UNCHANGED <<walVars, pc, sessionVars, stmt, scanVars, sessions, histVars>>

Checkpoint == /\ pc = "redo" /\ redoIdx \notin Kept
              /\ wal_truncate
              /\ pc' = "idle" /\ redoIdx' = 0 /\ smashed' = FALSE
              /\ UNCHANGED <<faults, fileVars, sessionVars, stmt, scanVars, sessions, histVars>>

EndSession == /\ pc' = "down"
              /\ curDb' = DefaultDb /\ txnActive' = FALSE /\ currentTxn' = 0 /\ txnRows' = {}
              /\ mem' = NoRows /\ left' = NoRows /\ dirty' = FALSE /\ gone' = {}
              /\ stmt' = NoStmt /\ redoIdx' = 0 /\ smashed' = FALSE

FateAtEnd == fate' = [r \in Rows |->
  IF r \in txnRows /\ fate[r] = "open" THEN "aborted"
  ELSE IF fate[r] \in {"open", "deleting", "updating"} THEN "unknown"
  ELSE fate[r]]

\* .exit or end of input: wal_close, nothing rolled back or truncated.
Exit == /\ pc = "idle" /\ EndSession /\ FateAtEnd
        /\ wal_close /\ nextLsn' = 1 /\ nextTxn' = 1
        /\ UNCHANGED <<faults, fileVars, sessions, home>>

Crash == /\ pc # "down" /\ EndSession /\ FateAtEnd
         /\ LoseTail(pc \in {"idle", "ins_log", "ins_commit", "scan", "row_log", "row_commit"})
         /\ UNCHANGED <<fileVars, sessions, home>>

-----------------------------------------------------------------------------
(* BEGIN and COMMIT.  A second BEGIN orphans the first transaction; COMMIT  *)
(* commits current_txn whether or not a transaction is active.              *)

Begin == /\ Ready("BEGIN", 1)
         /\ wal_begin
         /\ currentTxn' = nextTxn /\ txnActive' = TRUE /\ txnRows' = {}
         /\ SetFate({r \in txnRows : fate[r] = "open"}, "aborted")
         /\ UNCHANGED <<fileVars, pc, curDb, stmt, scanVars, redoVars, sessions, home>>

\* Mutant: COMMIT does not clear txn_active.
Commit_StaysActive ==
  /\ Ready("COMMIT", 1)
  /\ wal_commit(currentTxn)
  /\ txnRows' = {} /\ SetFate({r \in txnRows : fate[r] = "open"}, "acked")
  /\ UNCHANGED <<fileVars, pc, curDb, txnActive, currentTxn, stmt, scanVars, redoVars,
                 sessions, home>>

Commit == /\ Ready("COMMIT", 1)
          /\ wal_commit(currentTxn)
          /\ txnActive' = FALSE /\ txnRows' = {}
          /\ SetFate({r \in txnRows : fate[r] = "open"}, "acked")
          /\ UNCHANGED <<fileVars, pc, curDb, currentTxn, stmt, scanVars, redoVars,
                         sessions, home>>

-----------------------------------------------------------------------------
(* INSERT: log, insert and close the table, then commit.                    *)

StartInsert ==
  /\ Ready("INSERT", 3)
  /\ \E t \in Tables, r \in Fresh :
       /\ home' = [home EXCEPT ![r] = <<curDb, t>>]
       /\ SetFate({r}, "open")
       /\ \/ /\ txnActive
             /\ stmt' = [NoStmt EXCEPT !.op = "INSERT", !.table = t, !.row = r,
                                       !.txn = currentTxn]
             /\ UNCHANGED <<walVars, faults>>
          \/ /\ ~txnActive
             /\ stmt' = [NoStmt EXCEPT !.op = "INSERT", !.table = t, !.row = r,
                                       !.txn = nextTxn, !.auto = TRUE]
             /\ wal_begin
  /\ pc' = "ins_log"
  /\ UNCHANGED <<fileVars, sessionVars, scanVars, redoVars, sessions>>

\* snprintf did not fit WAL_MAX_DATA: the BEGIN stays behind alone.
InsertTooLong == /\ pc = "ins_log"
                 /\ SetFate({stmt.row}, "failed") /\ EndStmt
                 /\ UNCHANGED <<walVars, faults, fileVars, sessionVars, scanVars, redoVars,
                                sessions, home>>

InsertLog == /\ pc = "ins_log"
             /\ wal_write(stmt.txn, "INSERT", stmt.table, stmt.row)
             /\ pc' = "ins_table"
             /\ UNCHANGED <<fileVars, sessionVars, stmt, scanVars, redoVars, sessions, histVars>>

\* table_open fails: EXEC_ERROR, but the record stays in the log.
InsertNoTable == /\ pc = "ins_table" /\ ~CanOpen(F)
                 /\ SetFate({stmt.row}, "failed") /\ EndStmt
                 /\ UNCHANGED <<walVars, faults, fileVars, sessionVars, scanVars, redoVars,
                                sessions, home>>

\* table_insert_raw and table_close; neither result is looked at.
InsertTable ==
  /\ pc = "ins_table" /\ CanOpen(F)
  /\ \/ StoreRows(F, PlusOne(rows[F], stmt.row)) /\ UNCHANGED faults
     \/ Fault("page_write") /\ UNCHANGED rows
  /\ \/ stmt.auto /\ pc' = "ins_commit" /\ UNCHANGED <<stmt, txnRows>>
     \/ ~stmt.auto /\ EndStmt /\ txnRows' = txnRows \cup {stmt.row}
  /\ UNCHANGED <<walVars, dbs, curFile, dataFiles, schemas, catalog, curDb, txnActive,
                 currentTxn, scanVars, redoVars, sessions, histVars>>

InsertCommit == /\ pc = "ins_commit"
                /\ wal_commit(stmt.txn)
                /\ SetFate({stmt.row}, "acked") /\ EndStmt
                /\ UNCHANGED <<fileVars, sessionVars, scanVars, redoVars, sessions, home>>

-----------------------------------------------------------------------------
(* UPDATE and DELETE.  The loop visits the rows the page had when it        *)
(* started.  row_matches_where runs strtok on an uninitialised buffer, so   *)
(* any row may match and any may be passed over.  Each matched row is       *)
(* logged by wal_log_row as a transaction of its own.                       *)

OpenTable == /\ \E kind \in {"UPDATE", "DELETE"}, t \in Tables :
                  /\ Ready(kind, 3) /\ CanOpen(<<curDb, t>>)
                  /\ stmt' = [NoStmt EXCEPT !.op = kind, !.table = t]
                  /\ mem' = rows[<<curDb, t>>] /\ left' = rows[<<curDb, t>>]
             /\ dirty' = FALSE /\ gone' = {} /\ pc' = "scan"
             /\ UNCHANGED <<walVars, faults, fileVars, sessionVars, redoVars, sessions, histVars>>

MatchRow ==
  /\ pc = "scan" /\ Len(log) + 3 <= MaxLog
  /\ \E r \in Rows :
       /\ left[r] > 0
       /\ \/ /\ stmt.op = "DELETE"
             /\ stmt' = [stmt EXCEPT !.row = r, !.image = r, !.txn = nextTxn]
             /\ UNCHANGED histVars
          \/ /\ stmt.op = "UPDATE"
             /\ \E n \in Fresh :
                  /\ stmt' = [stmt EXCEPT !.row = r, !.image = n, !.txn = nextTxn]
                  /\ home' = [home EXCEPT ![n] = F]
                  /\ SetFate({n}, "updating")
  /\ wal_begin
  /\ pc' = "row_log"
  /\ UNCHANGED <<fileVars, sessionVars, scanVars, redoVars, sessions>>

LogRow == /\ pc = "row_log"
          /\ wal_write(stmt.txn, stmt.op, stmt.table, stmt.image)
          /\ pc' = "row_commit"
          /\ UNCHANGED <<fileVars, sessionVars, stmt, scanVars, redoVars, sessions, histVars>>

LogRowCommit == /\ pc = "row_commit" /\ stmt.txn > 0
                /\ wal_commit(stmt.txn)
                /\ stmt' = [stmt EXCEPT !.txn = 0]
                /\ UNCHANGED <<fileVars, pc, sessionVars, scanVars, redoVars, sessions, histVars>>

\* The row's last copy is gone from the frame: it is being deleted.
Taken(r) == IF mem[r] = 1 /\ fate[r] \in {"open", "acked", "updated"} THEN {r} ELSE {}

\* Mutant: the loop does not step over the slot it has just deleted.
DeleteRow_SameSlot ==
  /\ pc = "row_commit" /\ stmt.txn = 0 /\ stmt.op = "DELETE"
  /\ mem' = MinusOne(mem, stmt.row) /\ dirty' = TRUE
  /\ SetFate(Taken(stmt.row), "deleting") /\ pc' = "scan"
  /\ UNCHANGED <<walVars, faults, fileVars, sessionVars, stmt, left, gone, redoVars, sessions,
                 home>>

DeleteRow == /\ pc = "row_commit" /\ stmt.txn = 0 /\ stmt.op = "DELETE"
             /\ mem' = MinusOne(mem, stmt.row) /\ left' = MinusOne(left, stmt.row)
             /\ dirty' = TRUE
             /\ SetFate(Taken(stmt.row), "deleting")
             /\ pc' = "scan"
             /\ UNCHANGED <<walVars, faults, fileVars, sessionVars, stmt, gone, redoVars, sessions,
                            home>>

\* page_delete of the old image, page_insert of the new one.  When the insert
\* finds no room the delete is not undone, only not marked dirty: whether the
\* row is lost depends on what else the statement changes on the page.
UpdateRow ==
  /\ pc = "row_commit" /\ stmt.txn = 0 /\ stmt.op = "UPDATE"
  /\ left' = MinusOne(left, stmt.row)
  /\ \/ /\ mem' = PlusOne(MinusOne(mem, stmt.row), stmt.image) /\ dirty' = TRUE
        /\ SetFate(Taken(stmt.row), "deleting") /\ UNCHANGED gone
     \/ /\ mem' = MinusOne(mem, stmt.row) /\ UNCHANGED dirty
        /\ gone' = gone \cup Taken(stmt.row)
        /\ SetFate({stmt.image}, "failed")
  /\ pc' = "scan"
  /\ UNCHANGED <<walVars, faults, fileVars, sessionVars, stmt, redoVars, sessions, home>>

FateAtClose(written) == fate' = [r \in Rows |->
  IF fate[r] = "deleting" THEN "deleted"
  ELSE IF fate[r] = "updating" THEN "updated"
  ELSE IF written /\ r \in gone THEN "lost"
  ELSE fate[r]]

\* table_close: write the frame back if it is dirty, and forget it.
CloseTable ==
  /\ pc = "scan"
  /\ \/ ~dirty /\ FateAtClose(FALSE) /\ UNCHANGED <<rows, faults>>
     \/ dirty /\ FateAtClose(TRUE) /\ StoreRows(F, mem) /\ UNCHANGED faults
     \/ dirty /\ FateAtClose(FALSE) /\ Fault("page_write") /\ UNCHANGED rows
  /\ mem' = NoRows /\ left' = NoRows /\ dirty' = FALSE /\ gone' = {} /\ EndStmt
  /\ UNCHANGED <<walVars, dbs, curFile, dataFiles, schemas, catalog, sessionVars,
                 redoVars, sessions, home>>

-----------------------------------------------------------------------------
(* CREATE TABLE and DROP TABLE, one file after the other.                   *)

\* Mutant: no table_exists check; page 0 of an existing table is overwritten.
CreateTable_NoCheck ==
  /\ Ready("CREATE TABLE", 0)
  /\ \E t \in Tables :
       /\ CreateData(<<curDb, t>>)
       /\ stmt' = [NoStmt EXCEPT !.op = "CREATE TABLE", !.table = t]
  /\ pc' = "create_schema"
  /\ UNCHANGED <<walVars, faults, sessionVars, scanVars, redoVars, sessions, histVars>>

CreateTable == /\ Ready("CREATE TABLE", 0)
               /\ \E t \in Tables :
                    /\ ~table_exists(<<curDb, t>>)
                    /\ CreateData(<<curDb, t>>)
                    /\ \/ /\ stmt' = [NoStmt EXCEPT !.op = "CREATE TABLE", !.table = t]
                          /\ pc' = "create_schema" /\ UNCHANGED faults
                       \/ Fault("create") /\ EndStmt
               /\ UNCHANGED <<walVars, sessionVars, scanVars, redoVars, sessions, histVars>>

CreateSchema == /\ pc = "create_schema"
                /\ \/ save_schema(F) /\ pc' = "create_catalog" /\ UNCHANGED <<stmt, faults>>
                   \/ Fault("create") /\ EndStmt /\ UNCHANGED fileVars
                /\ UNCHANGED <<walVars, sessionVars, scanVars, redoVars, sessions, histVars>>

CreateCatalog == /\ pc = "create_catalog"
                 /\ catalog_add(F) /\ EndStmt
                 /\ UNCHANGED <<walVars, faults, sessionVars, scanVars, redoVars, sessions, histVars>>

\* DROP TABLE writes nothing to the log.
DropTable == /\ Ready("DROP TABLE", 0)
             /\ \E t \in Tables :
                  /\ table_exists(<<curDb, t>>)
                  /\ RemoveData(<<curDb, t>>)
                  /\ stmt' = [NoStmt EXCEPT !.op = "DROP TABLE", !.table = t]
                  /\ SetFate({r \in Rows : /\ home[r] = <<curDb, t>>
                                           /\ fate[r] \in {"open", "acked", "updated"}}, "deleted")
             /\ pc' = "drop_schema"
             /\ UNCHANGED <<walVars, faults, sessionVars, scanVars, redoVars, sessions, home>>

DropSchema == /\ pc = "drop_schema"
              /\ RemoveSchema(F) /\ pc' = "drop_catalog"
              /\ UNCHANGED <<walVars, faults, sessionVars, stmt, scanVars, redoVars, sessions, histVars>>

DropCatalog == /\ pc = "drop_catalog"
               /\ catalog_remove(F) /\ EndStmt
               /\ UNCHANGED <<walVars, faults, sessionVars, scanVars, redoVars, sessions, histVars>>

-----------------------------------------------------------------------------
(* CREATE DATABASE and USE.                                                 *)

CreateDb == /\ Ready("CREATE DATABASE", 0)
            /\ \E d \in Dbs \ dbs : MakeDb(d)
            /\ UNCHANGED <<walVars, faults, pc, sessionVars, stmt, scanVars, redoVars,
                           sessions, histVars>>

\* Mutant: USE does not look for the directory.
UseDb_NoStat == /\ Ready("USE", 0)
                /\ \E d \in Dbs : curDb' = d
                /\ SetCurFile(Empty)
                /\ pc' = "use_write"
                /\ UNCHANGED <<walVars, faults, txnActive, currentTxn, txnRows, stmt, scanVars,
                               redoVars, sessions, histVars>>

UseDb == /\ Ready("USE", 0)
         /\ \E d \in dbs : curDb' = d
         /\ SetCurFile(Empty)
         /\ pc' = "use_write"
         /\ UNCHANGED <<walVars, faults, txnActive, currentTxn, txnRows, stmt, scanVars,
                        redoVars, sessions, histVars>>

UseDbWrite == /\ pc = "use_write"
              /\ SetCurFile(curDb)
              /\ pc' = "idle"
              /\ UNCHANGED <<walVars, faults, sessionVars, stmt, scanVars, redoVars,
                             sessions, histVars>>

-----------------------------------------------------------------------------
\* The last session has ended.
Closed == pc = "down" /\ sessions = MaxSessions /\ UNCHANGED vars

Recovery == RecoverNothing \/ RecoverScan \/ Redo \/ Checkpoint
InsertSteps == InsertTooLong \/ InsertLog \/ InsertNoTable \/ InsertTable \/ InsertCommit
RowSteps == MatchRow \/ LogRow \/ LogRowCommit \/ DeleteRow \/ UpdateRow \/ CloseTable
DdlSteps == CreateSchema \/ CreateCatalog \/ DropSchema \/ DropCatalog \/ UseDbWrite
NewStatement == Begin \/ Commit \/ StartInsert \/ OpenTable
                  \/ CreateTable \/ DropTable \/ CreateDb \/ UseDb

\* What the process does by itself once started or given a statement.
Progress == Recovery \/ InsertSteps \/ RowSteps \/ DdlSteps

Next == Start \/ Exit \/ Crash \/ NewStatement \/ Progress \/ Closed

Spec == Init /\ [][Next]_vars

\* A running process is scheduled; nobody has to start it or type anything.
FairSpec == Spec /\ WF_vars(Progress)
=============================================================================
