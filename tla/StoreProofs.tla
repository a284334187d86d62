------------------------------ MODULE StoreProofs ------------------------------
(***************************************************************************)
(* KernelDB implements DurableStore, for every value of the constants: an   *)
(* acknowledged row survives crashes, restarts and failing page writes.      *)
(***************************************************************************)
EXTENDS LogProofs

(* Under which conditions: one database, because a record of the log does not *)
(* say which one it is of; of the failures only those of a page write and of  *)
(* CREATE TABLE; and a log that fits records[] of wal_recover.               *)
OneDatabase == Dbs = {DefaultDb}
LogIntact   == Faults \subseteq {"page_write", "create"}
StoreWorld  == OneDatabase /\ LogIntact
RecordsFit  == Len(log) <= MaxRecords

\* What is known of the reachable states from the other proofs.
BaseInv == RedoInv /\ LoggedInv /\ CopiesInv

-----------------------------------------------------------------------------
(* The log while it does not fail.                                          *)

SyncedPrefix == \A i \in 1..synced : i \in 1..synced' /\ log'[i] = log[i]

\* What TypeInv says of the log.
LEMMA LogTypes ==
  ASSUME TypeInv
  PROVE  log \in Seq(WALRecord) /\ Len(log) \in Nat /\ synced \in Nat /\ synced <= Len(log)
  BY TypeInvParts DEF LogInv, WalTypeOK

\* Nothing is torn: recovery reads the whole log, and keeps it when it fits.
LEMMA WholeKept ==
  ASSUME LogWhole, RecordsFit, TypeInv
  PROVE  Readable = 1..Len(log) /\ Kept = 1..Len(log)
<1>1. \A i \in 1..Len(log) : \A j \in 1..i : j \in 1..Len(log)
  BY LogTypes
<1>2. Readable = 1..Len(log)
  BY <1>1 DEF LogWhole, Readable
<1> QED
  BY <1>2, LogTypes, WalAssumption DEF Kept, RecordsFit

\* The same of the log after a step.
LEMMA WholeKeptNext ==
  ASSUME LogWhole', RecordsFit', TypeInv'
  PROVE  Readable' = 1..Len(log)' /\ Kept' = 1..Len(log)'
<1>1. Len(log)' \in Nat
  BY TypeInvParts DEF TypeInv, TypeOK, WalTypeOK
<1>2. \A i \in 1..Len(log)' : \A j \in 1..i : j \in 1..Len(log)'
  BY <1>1
<1>3. Readable' = 1..Len(log)'
  BY <1>2 DEF LogWhole, Readable
<1> QED
  BY <1>1, <1>3, WalAssumption DEF Kept, RecordsFit

\* write_record appends, and leaves no BEGIN unsynced but its own.
LEMMA AppendedWhole ==
  ASSUME LogIntact, TypeInv, LogWhole, NEW rec, NEW sync \in BOOLEAN, write_record(rec, sync),
         rec.type # "TORN", sync \/ rec.type = "BEGIN"
  PROVE  LogWhole' /\ SyncedPrefix /\ log' = Append(log, rec)
<1>1. log' = Append(log, rec) /\ synced' = IF sync THEN Len(log) + 1 ELSE synced
  BY DEF write_record, Fault, CanFail, LogIntact
<1>2. Len(log)' = Len(log) + 1 /\ log'[Len(log) + 1] = rec
      /\ \A i \in 1..Len(log) : log'[i] = log[i]
  BY <1>1, LogTypes
<1>3. SyncedPrefix
  BY <1>1, <1>2, LogTypes DEF SyncedPrefix
<1>4. ASSUME NEW i \in 1..Len(log)' PROVE log'[i].type # "TORN" /\ (i > synced' => log'[i].type = "BEGIN")
  <2>1. i \in 1..Len(log) \/ i = Len(log) + 1
    BY <1>2, LogTypes
  <2>2. CASE i = Len(log) + 1
    BY <1>1, <1>2, <2>2, LogTypes
  <2>3. CASE i \in 1..Len(log)
    <3>1. i > synced' => i > synced
      BY <1>1, <2>3, LogTypes
    <3> QED
      BY <1>2, <2>3, <3>1 DEF LogWhole
  <2> QED
    BY <2>1, <2>2, <2>3
<1> QED
  BY <1>1, <1>3, <1>4 DEF LogWhole

\* A process that dies loses no record but an unsynced BEGIN at the end.
LEMMA LostWhole ==
  ASSUME LogIntact, TypeInv, LogWhole, NEW inFlight, LoseTail(inFlight)
  PROVE  LogWhole' /\ SyncedPrefix
<1>1. PICK n \in synced..Len(log) : log' = SubSeq(log, 1, n) /\ synced' = n
  BY DEF LoseTail, Fault, CanFail, LogIntact
<1>2. /\ n \in Nat /\ n <= Len(log) /\ synced <= n /\ Len(log)' = n
      /\ \A i \in 1..n : i \in 1..Len(log) /\ log'[i] = log[i]
  BY <1>1, LogTypes
<1>3. SyncedPrefix
  BY <1>1, <1>2, LogTypes DEF SyncedPrefix
<1>4. ASSUME NEW i \in 1..n PROVE log'[i].type # "TORN" /\ ~(i > n)
  BY <1>2 DEF LogWhole
<1> QED
  BY <1>1, <1>2, <1>3, <1>4 DEF LogWhole

\* The steps that write a record.
LEMMA WritesRecord ==
  ASSUME TypeInv,
         \/ Begin \/ MatchRow \/ StartInsert \/ Commit \/ InsertCommit \/ LogRowCommit
         \/ InsertLog \/ LogRow
  PROVE  \/ UNCHANGED <<log, synced>>
         \/ \E rec : \E sync \in BOOLEAN : /\ write_record(rec, sync) /\ rec.type # "TORN"
                                           /\ sync \/ rec.type = "BEGIN"
<1>1. wal_begin => /\ write_record(NewRecord(nextTxn, "BEGIN", None, None), FALSE)
                   /\ NewRecord(nextTxn, "BEGIN", None, None).type = "BEGIN"
  BY DEF wal_begin, NewRecord
<1>2. ASSUME NEW txn, wal_commit(txn)
      PROVE  /\ write_record(NewRecord(txn, "COMMIT", None, None), TRUE)
             /\ NewRecord(txn, "COMMIT", None, None).type = "COMMIT"
  BY <1>2 DEF wal_commit, NewRecord
<1>3. ASSUME NEW txn, NEW type, NEW table, NEW row, wal_write(txn, type, table, row)
      PROVE  /\ write_record(NewRecord(txn, type, table, row), TRUE)
             /\ NewRecord(txn, type, table, row).type = type
  BY <1>3 DEF wal_write, NewRecord
<1>4. CASE Begin \/ MatchRow \/ StartInsert
  <2>1. wal_begin \/ UNCHANGED <<log, synced>>
    BY <1>4, Zenon DEF Begin, MatchRow, StartInsert, walVars
  <2> QED
    BY <1>1, <2>1
<1>5. CASE Commit \/ InsertCommit \/ LogRowCommit
  <2>1. \E txn : wal_commit(txn)
    BY <1>5, Zenon DEF Commit, InsertCommit, LogRowCommit
  <2> QED
    BY <1>2, <2>1
<1>6. CASE InsertLog
  <2>1. wal_write(stmt.txn, "INSERT", stmt.table, stmt.row)
    BY <1>6, Zenon DEF InsertLog
  <2>2. "INSERT" # "TORN"
    OBVIOUS
  <2> QED
    BY <1>3, <2>1, <2>2
<1>7. CASE LogRow
  <2>1. wal_write(stmt.txn, stmt.op, stmt.table, stmt.image)
    BY <1>7, Zenon DEF LogRow
  <2>2. stmt.op # "TORN"
    BY <1>7, TypeInvParts DEF LogRow, ProcInv, StmtOK, InScan, InRow
  <2>3. /\ write_record(NewRecord(stmt.txn, stmt.op, stmt.table, stmt.image), TRUE)
        /\ NewRecord(stmt.txn, stmt.op, stmt.table, stmt.image).type = stmt.op
    BY <2>1 DEF wal_write, NewRecord
  <2> QED
    BY <2>2, <2>3
<1> QED
  BY <1>4, <1>5, <1>6, <1>7

\* What every step but the truncation of recovery does to the log.
LEMMA LogStep ==
  ASSUME StoreWorld, TypeInv, LogWhole, [Next]_vars
  PROVE  LogWhole' /\ (Checkpoint \/ SyncedPrefix)
<1>1. CASE UNCHANGED <<log, synced>>
  BY <1>1, LogTypes DEF LogWhole, SyncedPrefix
<1>2. CASE \/ Begin \/ MatchRow \/ StartInsert \/ Commit \/ InsertCommit \/ LogRowCommit
           \/ InsertLog \/ LogRow
  <2>1. ASSUME NEW rec, NEW sync \in BOOLEAN, write_record(rec, sync), rec.type # "TORN",
               sync \/ rec.type = "BEGIN"
        PROVE  LogWhole' /\ SyncedPrefix
    BY <2>1, AppendedWhole DEF StoreWorld
  <2> QED
    BY <1>1, <1>2, <2>1, WritesRecord
<1>3. CASE Crash
  <2> DEFINE inFlight == pc \in {"idle", "ins_log", "ins_commit", "scan", "row_log", "row_commit"}
  <2>1. LoseTail(inFlight)
    BY <1>3, Zenon DEF Crash
  <2> HIDE DEF inFlight
  <2> QED
    BY <2>1, LostWhole DEF StoreWorld
<1>4. CASE Exit
  <2>1. log' = log /\ synced' = Len(log)
    BY <1>4 DEF Exit, wal_close
  <2> QED
    BY <2>1, LogTypes DEF LogWhole, SyncedPrefix
<1>5. CASE Checkpoint
  <2>1. log' = <<>>
    BY <1>5 DEF Checkpoint, wal_truncate
  <2> QED
    BY <1>5, <2>1 DEF LogWhole
<1>6. CASE RecoverNothing
  <2>1. Kept = {} /\ (UNCHANGED walVars \/ Len(log) > 1)
    BY <1>6 DEF RecoverNothing
  <2>2. Len(log) \in Nat /\ (Len(log) > 1 => 1 \in 1..Len(log) /\ \A j \in 1..1 : j \in 1..Len(log))
    BY LogTypes
  <2>3. Len(log) > 1 => 1 \in Kept
    BY <2>2, WalAssumption DEF Kept, Readable, LogWhole
  <2> QED
    BY <1>1, <2>1, <2>3 DEF walVars
<1>7. ASSUME \/ Start \/ RecoverScan \/ Redo \/ InsertTooLong \/ InsertNoTable \/ InsertTable
             \/ OpenTable \/ DeleteRow \/ UpdateRow \/ CloseTable \/ CreateTable \/ DropTable
             \/ CreateDb \/ UseDb \/ DdlSteps \/ UNCHANGED vars
      PROVE  UNCHANGED <<log, synced>>
  BY <1>7 DEF Start, wal_open, RecoverScan, Redo, InsertTooLong, InsertNoTable, InsertTable,
     OpenTable, DeleteRow, UpdateRow, CloseTable, CreateTable, DropTable, CreateDb, UseDb, DdlSteps,
     CreateSchema, CreateCatalog, DropSchema, DropCatalog, UseDbWrite, vars, walVars
<1> QED
  BY <1>1, <1>2, <1>3, <1>4, <1>5, <1>6, <1>7
     DEF Next, NewStatement, Progress, Recovery, InsertSteps, RowSteps, Closed

\* What every step but the truncation of recovery leaves of the records it redoes.
LEMMA RedoableKept ==
  ASSUME StoreWorld, TypeInv, TypeInv', LogWhole, RecordsFit, RecordsFit', [Next]_vars, ~Checkpoint,
         NEW i \in Redoable
  PROVE  i \in Redoable' /\ log'[i] = log[i]
<1>1. LogWhole' /\ SyncedPrefix
  BY LogStep
<1>2. Kept = 1..Len(log) /\ Kept' = 1..Len(log)'
  BY <1>1, WholeKept, WholeKeptNext
<1>3. Len(log) \in Nat /\ synced \in Nat /\ synced' \in Nat /\ Len(log)' \in Nat /\ synced' <= Len(log)'
  BY TypeInvParts, LogTypes DEF TypeInv, TypeOK, WalTypeOK
<1>4. ASSUME NEW j \in Kept, log[j].type # "BEGIN" PROVE j \in Kept' /\ log'[j] = log[j]
  <2>1. j \in 1..synced
    BY <1>2, <1>3, <1>4 DEF LogWhole
  <2> QED
    BY <1>1, <1>2, <1>3, <2>1 DEF SyncedPrefix
<1>5. i \in Kept /\ log[i].type = "INSERT"
  BY DEF Redoable
<1>6. PICK c \in Kept : log[c].type = "COMMIT" /\ log[c].txn = log[i].txn
  BY DEF Redoable, Committed, Commits
<1> QED
  BY <1>4, <1>5, <1>6 DEF Redoable, Committed, Commits

-----------------------------------------------------------------------------
(* What a step leaves of the rows and the files.                            *)

\* There is one database to work in.
LEMMA OneDb ==
  ASSUME StoreWorld, TypeInv
  PROVE  RestartDb = DefaultDb /\ curDb = DefaultDb /\ \A f \in File : f[1] = DefaultDb
  BY TypeInvParts DEF StoreWorld, OneDatabase, FilesTypeOK, ProcInv, ProcessTypeOK, RestartDb, File

\* The same of the state after a step.
LEMMA OneDbNext ==
  ASSUME StoreWorld, TypeInv'
  PROVE  RestartDb' = DefaultDb /\ curDb' = DefaultDb
  BY DEF TypeInv, TypeOK, StoreWorld, OneDatabase, FilesTypeOK, ProcessTypeOK, RestartDb

\* A row keeps the table it was submitted to.
LEMMA HomeStep ==
  ASSUME TypeInv, [Next]_vars, NEW r \in Rows
  PROVE  /\ fate[r] # "new" => home'[r] = home[r]
         /\ home'[r] = home[r] \/ fate'[r] # "new"
<1>1. /\ home \in [Rows -> File \cup {NoHome}] /\ fate \in [Rows -> Fate]
  BY TypeInvParts DEF ProcInv, HistoryTypeOK
<1>2. ASSUME NEW q \in Fresh, NEW f, NEW v, home' = [home EXCEPT ![q] = f], SetFate({q}, v), v # "new"
      PROVE  /\ fate[r] # "new" => home'[r] = home[r]
             /\ home'[r] = home[r] \/ fate'[r] # "new"
  BY <1>1, <1>2 DEF Fresh, SetFate
<1>3. CASE StartInsert
  <2>1. \E t \in Tables, q \in Fresh : home' = [home EXCEPT ![q] = <<curDb, t>>] /\ SetFate({q}, "open")
    BY <1>3 DEF StartInsert
  <2> QED
    BY <1>2, <2>1
<1>4. CASE MatchRow
  <2>1. \/ home' = home
        \/ \E q \in Fresh : home' = [home EXCEPT ![q] = F] /\ SetFate({q}, "updating")
    BY <1>4 DEF MatchRow, histVars
  <2> QED
    BY <1>2, <2>1
<1>5. ASSUME ~StartInsert, ~MatchRow PROVE home' = home
  BY <1>5 DEF Next, NewStatement, Progress, Recovery, InsertSteps, RowSteps, DdlSteps, Closed,
     Start, RecoverNothing, RecoverScan, Redo, Checkpoint, Exit, Crash, Begin, Commit,
     InsertTooLong, InsertLog, InsertNoTable, InsertTable, InsertCommit, OpenTable, LogRow,
     LogRowCommit, DeleteRow, UpdateRow, CloseTable, CreateTable, DropTable, CreateDb, UseDb,
     CreateSchema, CreateCatalog, DropSchema, DropCatalog, UseDbWrite, histVars, vars
<1> QED
  BY <1>3, <1>4, <1>5

\* Only DROP TABLE takes away a table that can be opened.
LEMMA OpenStep ==
  ASSUME TypeInv, DroppedGone, [Next]_vars, NEW f \in File, CanOpen(f)
  PROVE  CanOpen(f)' \/ (DropTable /\ f = F')
<1>1. f \in dataFiles /\ f \in schemas
  BY DEF CanOpen, table_exists
<1>2. CASE DropTable
  <2>1. PICK t \in Tables : /\ RemoveData(<<curDb, t>>)
                            /\ stmt' = [NoStmt EXCEPT !.op = "DROP TABLE", !.table = t]
                            /\ curDb' = curDb
    BY <1>2 DEF DropTable, sessionVars
  <2>2. F' = <<curDb, t>>
    BY <2>1 DEF F, NoStmt
  <2> QED
    BY <1>1, <1>2, <2>1, <2>2 DEF RemoveData, CanOpen, table_exists
<1>3. CASE DropSchema
  <2>1. F \notin dataFiles /\ dataFiles' = dataFiles /\ schemas' = schemas \ {F}
    BY <1>3 DEF DropSchema, DroppedGone, RemoveSchema
  <2> QED
    BY <1>1, <2>1 DEF CanOpen, table_exists
<1>4. ASSUME ~DropTable, ~DropSchema PROVE dataFiles \subseteq dataFiles' /\ schemas \subseteq schemas'
  BY <1>4 DEF Next, NewStatement, Progress, Recovery, InsertSteps, RowSteps, DdlSteps, Closed,
     Start, MakeDb, RecoverNothing, RecoverScan, Redo, redo_insert, Checkpoint, Exit, Crash, Begin,
     Commit, StartInsert, MatchRow, InsertTooLong, InsertLog, InsertNoTable, InsertTable,
     InsertCommit, OpenTable, LogRow, LogRowCommit, DeleteRow, UpdateRow, CloseTable, CreateTable,
     CreateData, CreateDb, UseDb, SetCurFile, CreateSchema, save_schema, CreateCatalog, catalog_add,
     DropCatalog, catalog_remove, UseDbWrite, fileVars, vars
<1> QED
  BY <1>1, <1>2, <1>3, <1>4 DEF CanOpen, table_exists

\* Only DROP TABLE and the write-back of UPDATE / DELETE take the last copy of a
\* row from a page.
LEMMA RowsStep ==
  ASSUME TypeInv, EmptyWithout, [Next]_vars, NEW f \in File, NEW r \in Rows, rows[f][r] > 0
  PROVE  \/ rows'[f][r] > 0
         \/ DropTable /\ f = F'
         \/ CloseTable /\ f = F /\ mem[r] = 0
<1>1. /\ rows \in [File -> Copies] /\ mem \in Copies
      /\ \A g \in File, q \in Rows : rows[g][q] \in Nat
  BY TypeInvParts DEF FilesTypeOK, ProcInv, ProcessTypeOK, Copies
<1>2. ASSUME NEW g, NEW q, rows' = [rows EXCEPT ![g] = PlusOne(rows[g], q)]
      PROVE  rows'[f][r] > 0
  BY <1>1, <1>2 DEF PlusOne, Copies
<1>3. CASE Redo \/ InsertTable
  <2>1. \/ rows' = rows
        \/ \E g, q : rows' = [rows EXCEPT ![g] = PlusOne(rows[g], q)]
    BY <1>3 DEF Redo, redo_insert, InsertTable, StoreRows, fileVars
  <2> QED
    BY <1>2, <2>1
<1>4. CASE CloseTable
  <2>1. rows' = rows \/ rows' = [rows EXCEPT ![F] = mem]
    BY <1>4 DEF CloseTable, StoreRows
  <2>2. mem[r] \in Nat
    BY <1>1 DEF Copies
  <2> QED
    BY <1>1, <1>4, <2>1, <2>2
<1>5. CASE CreateTable
  <2>1. PICK t \in Tables : /\ <<curDb, t>> \notin dataFiles
                            /\ rows' = [rows EXCEPT ![<<curDb, t>>] = NoRows]
    BY <1>5 DEF CreateTable, CreateData, StoreRows, table_exists
  <2>2. f # <<curDb, t>>
    BY <2>1 DEF EmptyWithout, NoRows
  <2> QED
    BY <1>1, <2>1, <2>2
<1>6. CASE DropTable
  <2>1. PICK t \in Tables : /\ rows' = [rows EXCEPT ![<<curDb, t>>] = NoRows]
                            /\ stmt' = [NoStmt EXCEPT !.op = "DROP TABLE", !.table = t]
                            /\ curDb' = curDb
    BY <1>6 DEF DropTable, RemoveData, StoreRows, sessionVars
  <2>2. F' = <<curDb, t>>
    BY <2>1 DEF F, NoStmt
  <2> QED
    BY <1>1, <1>6, <2>1, <2>2
<1>7. ASSUME ~Redo, ~InsertTable, ~CloseTable, ~CreateTable, ~DropTable PROVE rows' = rows
  BY <1>7 DEF Next, NewStatement, Progress, Recovery, InsertSteps, RowSteps, DdlSteps, Closed,
     Start, MakeDb, RecoverNothing, RecoverScan, Checkpoint, Exit, Crash, Begin, Commit,
     StartInsert, MatchRow, InsertTooLong, InsertLog, InsertNoTable, InsertCommit, OpenTable,
     LogRow, LogRowCommit, DeleteRow, UpdateRow, CreateDb, UseDb, SetCurFile, CreateSchema,
     save_schema, CreateCatalog, catalog_add, DropSchema, RemoveSchema, DropCatalog,
     catalog_remove, UseDbWrite, fileVars, vars
<1> QED
  BY <1>3, <1>4, <1>5, <1>6, <1>7

\* A row becomes acknowledged by a COMMIT or at the end of its INSERT.
LEMMA AckStep ==
  ASSUME TypeInv, [Next]_vars, NEW r \in Rows, fate'[r] = "acked"
  PROVE  \/ fate[r] = "acked"
         \/ Commit /\ r \in txnRows /\ fate[r] = "open"
         \/ InsertCommit /\ r = stmt.row
<1>1. CASE Commit \/ InsertCommit
  BY <1>1 DEF Commit, InsertCommit, SetFate
<1>2. ASSUME ~Commit, ~InsertCommit PROVE fate[r] = "acked"
  BY <1>2 DEF Next, NewStatement, Progress, Recovery, InsertSteps, RowSteps, DdlSteps, Closed,
     Start, RecoverNothing, RecoverScan, Redo, Checkpoint, Exit, Crash, FateAtEnd, Begin,
     StartInsert, MatchRow, InsertTooLong, InsertLog, InsertNoTable, InsertTable, OpenTable,
     LogRow, LogRowCommit, DeleteRow, UpdateRow, CloseTable, CreateTable, DropTable, CreateDb,
     UseDb, CreateSchema, CreateCatalog, DropSchema, DropCatalog, UseDbWrite, SetFate, histVars, vars,
     FateAtClose
<1> QED
  BY <1>1, <1>2

-----------------------------------------------------------------------------
(* A row that recovery would find stays one.                                 *)

StoreBefore == BaseInv /\ StoreInv /\ RecordsFit /\ CommitsFit
GoodStep   == StoreBefore /\ [Next]_vars /\ TypeInv' /\ RecordsFit'

\* What the steps below need of the state, taken apart.
LEMMA StoreParts ==
  ASSUME StoreWorld, StoreBefore
  PROVE  /\ TypeInv /\ TxnInv /\ RecordInv /\ CopiesInv /\ EmptyWithout
         /\ LogWhole /\ HomeTold /\ AckedKept /\ InsertKept /\ TxnKept /\ FrameKept
         /\ RedoneSoFar /\ DroppedGone /\ GoneTold
         /\ Kept = 1..Len(log) /\ Len(log) \in Nat /\ synced \in Nat /\ synced <= Len(log)
         /\ RestartDb = DefaultDb /\ curDb = DefaultDb
<1>1. /\ TypeInv /\ TxnInv /\ RecordInv /\ CopiesInv /\ EmptyWithout /\ RecordsFit
      /\ LogWhole /\ HomeTold /\ AckedKept /\ InsertKept /\ TxnKept /\ FrameKept
      /\ RedoneSoFar /\ DroppedGone /\ GoneTold
  BY DEF StoreBefore, BaseInv, StoreInv, RedoInv, LoggedInv, EmptyWithout
<1> QED
  BY <1>1, WholeKept, LogTypes, OneDb

\* The home of a submitted row is a table.
LEMMA HomeIsFile ==
  ASSUME TypeInv, NEW r \in Rows, home[r] # NoHome
  PROVE  home[r] \in File
  BY TypeInvParts DEF ProcInv, HistoryTypeOK

\* A record waiting to be redone waits on after the step, or has been redone.
LEMMA PendingKept ==
  ASSUME StoreWorld, GoodStep, NEW r \in Rows, home[r] # NoHome, RedoPending(r), CanOpen(home[r])'
  PROVE  \/ RedoPending(r)'
         \/ Checkpoint /\ rows[home[r]][r] > 0
<1>1. /\ TypeInv /\ TypeInv' /\ LogWhole /\ RecordsFit /\ RecordsFit' /\ [Next]_vars
      /\ HomeTold /\ RedoneSoFar /\ Kept = 1..Len(log) /\ Len(log) \in Nat
      /\ RestartDb = DefaultDb /\ RestartDb' = DefaultDb
  BY StoreParts, OneDbNext DEF GoodStep, StoreBefore
<1>2. PICK i \in Redoable : log[i].row = r /\ <<DefaultDb, log[i].table>> = home[r] /\ CanOpen(home[r])
  BY <1>1 DEF RedoPending
<1>3. home'[r] = home[r]
  BY <1>1, HomeStep DEF HomeTold
<1>4. CASE Checkpoint
  <2>1. pc = "redo" /\ redoIdx \notin 1..Len(log) /\ redoIdx > 0 /\ redoIdx \in Nat
    BY <1>1, <1>4, TypeInvParts DEF Checkpoint, RedoneSoFar, ProcInv, ProcessTypeOK
  <2>2. i < redoIdx
    BY <1>1, <1>2, <2>1 DEF Redoable
  <2> QED
    BY <1>1, <1>2, <1>4, <2>1, <2>2 DEF RedoneSoFar
<1>5. CASE ~Checkpoint
  <2>1. i \in Redoable' /\ log'[i] = log[i]
    BY <1>1, <1>5, RedoableKept
  <2> QED
    BY <1>1, <1>2, <1>3, <2>1 DEF RedoPending
<1> QED
  BY <1>4, <1>5

\* What a restart would find it still finds, unless DROP TABLE removes its table
\* or the write-back of UPDATE / DELETE its last copy.
LEMMA RecoverableStep ==
  ASSUME StoreWorld, GoodStep, NEW r \in Rows, Recoverable(r)
  PROVE  \/ Recoverable(r)'
         \/ DropTable /\ home[r] = F'
         \/ CloseTable /\ home[r] = F /\ mem[r] = 0 /\ rows[F][r] > 0
<1>1. /\ TypeInv /\ [Next]_vars /\ EmptyWithout /\ HomeTold /\ DroppedGone /\ home[r] # NoHome
  BY StoreParts DEF GoodStep, Recoverable
<1>2. home[r] \in File /\ home'[r] = home[r]
  BY <1>1, HomeIsFile, HomeStep DEF HomeTold
<1>3. CASE rows[home[r]][r] > 0
  <2>1. \/ rows'[home[r]][r] > 0
        \/ DropTable /\ home[r] = F'
        \/ CloseTable /\ home[r] = F /\ mem[r] = 0
    BY <1>1, <1>2, <1>3, RowsStep
  <2> QED
    BY <1>1, <1>2, <1>3, <2>1 DEF Recoverable
<1>4. CASE RedoPending(r)
  <2>1. CanOpen(home[r])
    BY <1>4 DEF RedoPending
  <2>2. CASE CanOpen(home[r])'
    <3>1. CASE RedoPending(r)'
      BY <1>1, <1>2, <3>1 DEF Recoverable
    <3>2. CASE Checkpoint /\ rows[home[r]][r] > 0
      BY <1>3, <3>2
    <3> QED
      BY <1>1, <1>4, <2>2, <3>1, <3>2, PendingKept
  <2> QED
    BY <1>1, <1>2, <2>1, <2>2, OpenStep
<1> QED
  BY <1>3, <1>4 DEF Recoverable

\* wal_commit makes the records of its transaction ones that recovery redoes.
LEMMA CommitPending ==
  ASSUME StoreWorld, GoodStep, NEW r \in Rows, NEW t, wal_commit(t), Inserted(r, t),
         CanOpen(home[r])', home'[r] = home[r]
  PROVE  RedoPending(r)'
<1>1. /\ TypeInv /\ LogWhole /\ LogWhole' /\ RecordsFit' /\ TypeInv' /\ Len(log) \in Nat
      /\ synced <= Len(log) /\ synced \in Nat /\ RestartDb' = DefaultDb /\ LogIntact
      /\ \A i \in 1..synced : i \in 1..Len(log)
  <2>1. TypeInv /\ LogWhole /\ [Next]_vars /\ Len(log) \in Nat /\ synced <= Len(log) /\ synced \in Nat
    BY StoreParts DEF GoodStep
  <2> QED
    BY <2>1, LogStep, OneDbNext DEF GoodStep, StoreWorld
<1> DEFINE rec == NewRecord(t, "COMMIT", None, None)
<1>2. write_record(rec, TRUE) /\ rec.type = "COMMIT" /\ rec.txn = t
  BY DEF wal_commit, NewRecord
<1> HIDE DEF rec
<1>3. log' = Append(log, rec)
  <2>1. rec.type # "TORN" /\ (TRUE \/ rec.type = "BEGIN")
    BY <1>2
  <2> QED
    BY <1>1, <1>2, <2>1, AppendedWhole
<1>4. /\ Len(log)' = Len(log) + 1 /\ log'[Len(log) + 1] = rec
      /\ \A i \in 1..Len(log) : log'[i] = log[i]
  BY <1>1, <1>3, LogTypes
<1>5. Kept' = 1..Len(log)'
  BY <1>1, WholeKeptNext
<1>6. Len(log) + 1 \in Kept' /\ log'[Len(log) + 1].type = "COMMIT" /\ log'[Len(log) + 1].txn = t
  BY <1>1, <1>2, <1>4, <1>5
<1>7. PICK i \in 1..synced : /\ log[i].type = "INSERT" /\ log[i].row = r
                             /\ log[i].txn = t /\ <<DefaultDb, log[i].table>> = home[r]
  BY DEF Inserted
<1>8. i \in 1..Len(log)' /\ i \in 1..Len(log) /\ log'[i] = log[i]
  BY <1>1, <1>4, <1>7
<1>9. i \in Redoable'
  BY <1>5, <1>6, <1>7, <1>8 DEF Redoable, Committed, Commits
<1> QED
  BY <1>1, <1>7, <1>8, <1>9 DEF RedoPending

\* DROP TABLE tells of every row of its table that it is deleted.
LEMMA DroppedRows ==
  ASSUME TypeInv, DropTable, NEW r \in Rows, home[r] = F'
  PROVE  fate'[r] \notin {"open", "acked", "updated"}
<1>1. PICK t \in Tables :
        /\ stmt' = [NoStmt EXCEPT !.op = "DROP TABLE", !.table = t] /\ curDb' = curDb
        /\ SetFate({q \in Rows : /\ home[q] = <<curDb, t>>
                                 /\ fate[q] \in {"open", "acked", "updated"}}, "deleted")
  BY DEF DropTable, sessionVars
<1>2. F' = <<curDb, t>>
  BY <1>1 DEF F, NoStmt
<1> QED
  BY <1>1, <1>2 DEF SetFate

\* An acknowledged row is recoverable, from its COMMIT record on.
LEMMA AckedStep ==
  ASSUME StoreWorld, GoodStep
  PROVE  AckedKept'
<1>1. /\ TypeInv /\ RecordInv /\ [Next]_vars /\ HomeTold /\ AckedKept /\ InsertKept /\ TxnKept /\ FrameKept
      /\ DroppedGone
  BY StoreParts DEF GoodStep
<1> SUFFICES ASSUME NEW r \in Rows, fate'[r] = "acked" PROVE Recoverable(r)'
  BY DEF AckedKept
<1>2. CASE fate[r] = "acked"
  <2>1. Recoverable(r)
    BY <1>1, <1>2 DEF AckedKept
  <2>2. ~(DropTable /\ home[r] = F')
    BY <1>1, DroppedRows
  <2>3. CASE CloseTable /\ home[r] = F /\ mem[r] = 0 /\ rows[F][r] > 0
    <3>1. r \in gone \/ rows' = rows
      BY <1>1, <1>2, <2>3 DEF CloseTable, FrameKept, InScan
    <3>2. rows' = rows
      <4>1. fate \in [Rows -> Fate]
        BY <1>1, TypeInvParts DEF ProcInv, HistoryTypeOK
      <4>2. \/ rows' = rows
            \/ FateAtClose(TRUE)
        BY <2>3, Zenon DEF CloseTable
      <4> QED
        BY <1>2, <3>1, <4>1, <4>2 DEF FateAtClose
    <3>3. home[r] # NoHome /\ home' = home
      BY <1>1, <2>1, <2>3 DEF Recoverable, CloseTable
    <3> QED
      BY <2>3, <3>2, <3>3 DEF Recoverable
  <2> QED
    BY <2>1, <2>2, <2>3, RecoverableStep
<1>3. ASSUME fate[r] # "new", NEW t, wal_commit(t), Inserted(r, t), CanOpen(home[r]),
             UNCHANGED fileVars
      PROVE  Recoverable(r)'
  <2>1. home'[r] = home[r]
    BY <1>1, <1>3, HomeStep
  <2>2. CanOpen(home[r])'
    BY <1>3, <2>1 DEF CanOpen, table_exists, fileVars
  <2>3. RedoPending(r)'
    BY <1>3, <2>1, <2>2, CommitPending
  <2>4. home[r] # NoHome
    <3>1. home[r] \in File
      BY <1>1, <1>3, TypeInvParts DEF CanOpen, table_exists, FilesTypeOK
    <3> QED
      BY <3>1, HomeAssumption
  <2> QED
    BY <2>1, <2>3, <2>4 DEF Recoverable
<1>4. CASE Commit /\ r \in txnRows /\ fate[r] = "open"
  <2>1. wal_commit(currentTxn) /\ UNCHANGED fileVars
    BY <1>4, Zenon DEF Commit
  <2> QED
    BY <1>1, <1>3, <1>4, <2>1 DEF TxnKept
<1>5. CASE InsertCommit /\ r = stmt.row
  <2>1. wal_commit(stmt.txn) /\ UNCHANGED fileVars /\ pc = "ins_commit"
    BY <1>5, Zenon DEF InsertCommit
  <2>2. home[r] = F /\ Inserted(r, stmt.txn) /\ CanOpen(F) /\ fate[r] = "open"
    BY <1>1, <1>5, <2>1 DEF InsertKept, InInsert, RecordInv, OfItsInsert
  <2> QED
    BY <1>3, <2>1, <2>2
<1> QED
  BY <1>1, <1>2, <1>4, <1>5, AckStep

-----------------------------------------------------------------------------
(* The parts of StoreInv that follow a statement.                            *)

\* An INSERT record in the synced part of the log stays there.
LEMMA InsertedKept ==
  ASSUME StoreWorld, GoodStep, ~Checkpoint, NEW r \in Rows, NEW t, Inserted(r, t), home'[r] = home[r]
  PROVE  \E i \in 1..synced' : /\ log'[i].type = "INSERT" /\ log'[i].row = r
                               /\ log'[i].txn = t /\ <<DefaultDb, log'[i].table>> = home'[r]
<1>1. SyncedPrefix
  BY LogStep, StoreParts DEF GoodStep
<1> QED
  BY <1>1 DEF SyncedPrefix, Inserted

\* The table of a running INSERT, its record and where it stands.
LEMMA InsertKeptStep ==
  ASSUME StoreWorld, GoodStep
  PROVE  InsertKept'
<1>1. /\ TypeInv /\ RecordInv /\ [Next]_vars /\ InsertKept /\ LogIntact
      /\ curDb = DefaultDb /\ curDb' = DefaultDb
  BY StoreParts, OneDbNext DEF GoodStep, StoreWorld
<1>2. CASE ~InInsert'
  BY <1>2 DEF InsertKept, InInsert
<1>3. CASE StartInsert
  <2>1. PICK t \in Tables, r \in Rows :
          /\ home' = [home EXCEPT ![r] = <<curDb, t>>]
          /\ stmt'.table = t /\ stmt'.row = r
    BY <1>3 DEF StartInsert, Fresh, NoStmt
  <2>2. home'[r] = <<curDb, t>> /\ pc' = "ins_log"
    BY <1>1, <1>3, <2>1, TypeInvParts DEF StartInsert, ProcInv, HistoryTypeOK
  <2> QED
    BY <1>1, <2>1, <2>2 DEF InsertKept, F
<1>4. ASSUME InInsert, InInsert', UNCHANGED <<stmt, txnRows, fate>>,
             pc' = "ins_log" => pc = "ins_log" /\ UNCHANGED vars
      PROVE  InsertKept'
  <2>1. stmt.row \in Rows /\ stmt.table \in Tables /\ fate[stmt.row] # "new"
    BY <1>1, <1>4, TypeInvParts DEF ProcInv, StmtOK, InInsert, InTable, RecordInv, OfItsInsert
  <2>2. home'[stmt.row] = home[stmt.row] /\ home[stmt.row] = F /\ F' = F
    BY <1>1, <1>4, <2>1, HomeStep DEF InsertKept, F
  <2>3. CASE pc' = "ins_log"
    BY <1>4, <2>2, <2>3 DEF InsertKept
  <2>4. CASE InsertLog
    <3> DEFINE rec == InsertRecord
    <3>1. write_record(rec, TRUE) /\ pc' = "ins_table"
      BY <2>4, Zenon DEF InsertLog, wal_write, InsertRecord
    <3>2. /\ rec.type = "INSERT" /\ rec.row = stmt.row /\ rec.txn = stmt.txn
          /\ rec.table = stmt.table
      BY DEF InsertRecord, NewRecord
    <3> HIDE DEF rec
    <3>3. synced' = Len(log) + 1 /\ log' = Append(log, rec)
      BY <1>1, <3>1 DEF write_record, Fault, CanFail, LogIntact
    <3>4. Len(log) + 1 \in 1..synced' /\ log'[Len(log) + 1] = rec
      BY <1>1, <3>3, LogTypes
    <3>5. <<DefaultDb, rec.table>> = home'[stmt.row]
      BY <1>1, <2>2, <3>2 DEF F
    <3>6. \E i \in 1..synced' : /\ log'[i].type = "INSERT" /\ log'[i].row = stmt.row
                                /\ log'[i].txn = stmt.txn
                                /\ <<DefaultDb, log'[i].table>> = home'[stmt.row]
      BY <3>2, <3>4, <3>5
    <3> QED
      BY <1>4, <2>2, <3>1, <3>6 DEF InsertKept, Inserted
  <2>5. CASE pc \in {"ins_table", "ins_commit"} /\ ~InsertLog
    <3>1. Inserted(stmt.row, stmt.txn) /\ ~Checkpoint
      BY <1>1, <2>5 DEF InsertKept, Checkpoint
    <3>2. \E i \in 1..synced' : /\ log'[i].type = "INSERT" /\ log'[i].row = stmt.row
                                /\ log'[i].txn = stmt.txn
                                /\ <<DefaultDb, log'[i].table>> = home'[stmt.row]
      <4>1. ASSUME NEW r \in Rows, NEW t, Inserted(r, t), home'[r] = home[r]
            PROVE  \E i \in 1..synced' : /\ log'[i].type = "INSERT" /\ log'[i].row = r
                                          /\ log'[i].txn = t /\ <<DefaultDb, log'[i].table>> = home'[r]
        BY <3>1, <4>1, InsertedKept
      <4>2. stmt.row \in Rows /\ Inserted(stmt.row, stmt.txn) /\ home'[stmt.row] = home[stmt.row]
        BY <2>1, <2>2, <3>1
      <4> QED
        BY <4>1, <4>2
    <3>3. CASE UNCHANGED vars
      BY <1>1, <2>2, <3>2, <3>3 DEF InsertKept, Inserted, vars, fileVars, InInsert, CanOpen, table_exists
    <3>4. CASE InsertTable
      <4>1. CanOpen(F)' /\ pc' # "ins_log"
        BY <1>4, <2>2, <3>4 DEF InsertTable, CanOpen, table_exists, EndStmt
      <4> QED
        BY <1>4, <2>2, <3>2, <4>1 DEF InsertKept, Inserted
    <3>5. ASSUME ~InsertTable, ~(UNCHANGED vars) PROVE FALSE
      BY <1>1, <1>4, <2>5, <3>5 DEF Next, NewStatement, Progress, Recovery, InsertSteps, RowSteps,
         DdlSteps, Closed, Start, RecoverNothing, RecoverScan, Redo, Checkpoint, Exit, Crash,
         EndSession, Begin, Commit, StartInsert, MatchRow, InsertTooLong, InsertNoTable,
         InsertCommit, OpenTable, LogRow, LogRowCommit, DeleteRow, UpdateRow, CloseTable,
         CreateTable, DropTable, CreateDb, UseDb, CreateSchema, CreateCatalog, DropSchema,
         DropCatalog, UseDbWrite, EndStmt, Ready, InInsert
    <3> QED
      BY <3>3, <3>4, <3>5
  <2>6. CASE pc = "ins_log" /\ pc' # "ins_log" /\ ~InsertLog
    BY <1>1, <1>4, <2>6 DEF Next, NewStatement, Progress, Recovery, InsertSteps, RowSteps,
       DdlSteps, Closed, Start, RecoverNothing, RecoverScan, Redo, Checkpoint, Exit, Crash,
       EndSession, Begin, Commit, StartInsert, MatchRow, InsertTooLong, InsertNoTable, InsertTable,
       InsertCommit, OpenTable, LogRow, LogRowCommit, DeleteRow, UpdateRow, CloseTable,
       CreateTable, DropTable, CreateDb, UseDb, CreateSchema, CreateCatalog, DropSchema,
       DropCatalog, UseDbWrite, EndStmt, Ready, InInsert, vars
  <2> QED
    BY <1>4, <2>3, <2>4, <2>5, <2>6 DEF InInsert
<1> QED
  BY <1>1, <1>2, <1>3, <1>4, SameInsert

\* The rows of an open transaction have their records on stable storage.
LEMMA TxnKeptStep ==
  ASSUME StoreWorld, GoodStep
  PROVE  TxnKept'
<1>1. /\ TypeInv /\ TxnInv /\ RecordInv /\ [Next]_vars /\ InsertKept /\ TxnKept /\ DroppedGone
  BY StoreParts DEF GoodStep
<1> SUFFICES ASSUME NEW r \in txnRows', fate'[r] = "open"
             PROVE  /\ CanOpen(home[r])'
                    /\ \E i \in 1..synced' : /\ log'[i].type = "INSERT" /\ log'[i].row = r
                                             /\ log'[i].txn = currentTxn'
                                             /\ <<DefaultDb, log'[i].table>> = home'[r]
  BY DEF TxnKept, Inserted
<1>2. r \in Rows /\ home \in [Rows -> File \cup {NoHome}] /\ dataFiles \subseteq File
  BY <1>1, TypeInvParts DEF GoodStep, TypeInv, TypeOK, ProcessTypeOK, ProcInv, HistoryTypeOK, FilesTypeOK
<1>3. CASE UNCHANGED <<txnRows, txnActive, currentTxn>>
  <2>1. r \in txnRows /\ fate[r] = "open"
    BY <1>1, <1>2, <1>3, StepOpen DEF RecordInv, NoneBefore
  <2>2. CanOpen(home[r]) /\ Inserted(r, currentTxn) /\ home[r] \in File
    BY <1>1, <1>2, <2>1 DEF TxnKept, CanOpen, table_exists
  <2>3. home'[r] = home[r]
    BY <1>1, <1>2, <2>1, HomeStep
  <2>4. CanOpen(home[r])'
    BY <1>1, <1>2, <2>2, <2>3, OpenStep, DroppedRows DEF CanOpen, table_exists
  <2>5. ~Checkpoint
    BY <1>1, <2>1 DEF Checkpoint, TxnInv, TxnOK, RecordInv, OfItsTxn
  <2>6. \E i \in 1..synced' : /\ log'[i].type = "INSERT" /\ log'[i].row = r
                              /\ log'[i].txn = currentTxn
                              /\ <<DefaultDb, log'[i].table>> = home'[r]
    BY <1>2, <2>2, <2>3, <2>5, InsertedKept
  <2> QED
    BY <1>3, <2>4, <2>6
<1>4. ASSUME InInsert, txnActive, stmt.txn = currentTxn, pc = "ins_table",
             txnRows' = txnRows \cup {stmt.row}, UNCHANGED <<txnActive, currentTxn>>
      PROVE  /\ CanOpen(home[r])'
             /\ \E i \in 1..synced' : /\ log'[i].type = "INSERT" /\ log'[i].row = r
                                      /\ log'[i].txn = currentTxn'
                                      /\ <<DefaultDb, log'[i].table>> = home'[r]
  <2>1. CASE txnRows' = txnRows
    BY <1>3, <1>4, <2>1
  <2>2. CASE txnRows' # txnRows
    <3>1. InsertTable
      BY <1>1, <1>4, <2>2 DEF Next, NewStatement, Progress, Recovery, InsertSteps, RowSteps,
       DdlSteps, Closed, Start, RecoverNothing, RecoverScan, Redo, Checkpoint, Exit, Crash,
       EndSession, Begin, Commit, StartInsert, MatchRow, InsertTooLong, InsertNoTable, InsertLog,
       InsertCommit, OpenTable, LogRow, LogRowCommit, DeleteRow, UpdateRow, CloseTable,
       CreateTable, DropTable, CreateDb, UseDb, CreateSchema, CreateCatalog, DropSchema,
       DropCatalog, UseDbWrite, EndStmt, Ready, sessionVars, vars
    <3>2. CASE r \in txnRows
      <4>1. fate[r] = "open"
        BY <1>1, <1>2, <3>2, StepOpen DEF RecordInv, NoneBefore
      <4>2. CanOpen(home[r]) /\ Inserted(r, currentTxn)
        BY <1>1, <3>2, <4>1 DEF TxnKept
      <4>3. home' = home /\ ~Checkpoint /\ UNCHANGED <<dataFiles, schemas>>
        BY <1>4, <3>1 DEF InsertTable, histVars, Checkpoint
      <4>4. \E i \in 1..synced' : /\ log'[i].type = "INSERT" /\ log'[i].row = r
                                  /\ log'[i].txn = currentTxn
                                  /\ <<DefaultDb, log'[i].table>> = home'[r]
        BY <1>2, <4>2, <4>3, InsertedKept
      <4> QED
        BY <1>4, <4>2, <4>3, <4>4 DEF CanOpen, table_exists
    <3>3. CASE r \notin txnRows
      <4>1. r = stmt.row /\ home[r] = F /\ Inserted(r, currentTxn)
        BY <1>1, <1>4, <3>3 DEF InsertKept
      <4>2. home' = home /\ ~Checkpoint /\ UNCHANGED <<dataFiles, schemas>> /\ CanOpen(F)
        BY <1>4, <3>1 DEF InsertTable, histVars, Checkpoint
      <4>3. \E i \in 1..synced' : /\ log'[i].type = "INSERT" /\ log'[i].row = r
                                  /\ log'[i].txn = currentTxn
                                  /\ <<DefaultDb, log'[i].table>> = home'[r]
        BY <1>2, <4>1, <4>2, InsertedKept
      <4> QED
        BY <1>4, <4>1, <4>2, <4>3 DEF CanOpen, table_exists
    <3> QED
      BY <3>2, <3>3
  <2> QED
    BY <2>1, <2>2
<1> QED
  BY <1>1, <1>3, <1>4, StepTxn

\* The frame of UPDATE and DELETE keeps a copy of the rows they do not take.
LEMMA FrameKeptStep ==
  ASSUME StoreWorld, GoodStep
  PROVE  FrameKept'
<1>1. /\ TypeInv /\ [Next]_vars /\ FrameKept /\ HomeTold /\ EmptyWithout
      /\ rows \in [File -> Copies] /\ mem \in Copies /\ stmt \in Stmt /\ fate \in [Rows -> Fate]
      /\ curDb \in Dbs
  BY StoreParts, TypeInvParts DEF GoodStep, FilesTypeOK, ProcInv, ProcessTypeOK, HistoryTypeOK
<1>2. CASE OpenTable
  <2>1. mem' = rows'[F']
    <3>1. PICK t \in Tables : stmt'.table = t /\ mem' = rows[<<curDb, t>>]
      BY <1>2 DEF OpenTable, NoStmt
    <3>2. curDb' = curDb /\ rows' = rows
      BY <1>2 DEF OpenTable, sessionVars, fileVars
    <3> QED
      BY <3>1, <3>2 DEF F
  <2> QED
    BY <2>1 DEF FrameKept
<1>3. ASSUME InScan, F' = F, rows' = rows, NEW r \in Rows,
             home'[r] = F', fate'[r] = "acked", rows'[F'][r] > 0,
             fate[r] = "acked", r \notin gone
      PROVE  mem[r] > 0
  <2>1. home'[r] = home[r]
    BY <1>1, <1>3, HomeStep
  <2> QED
    BY <1>1, <1>3, <2>1 DEF FrameKept
<1>4. ASSUME InScan, F' = F, rows' = rows, ~Commit, ~InsertCommit,
             gone \subseteq gone',
             \A r \in Rows : fate[r] = "acked" /\ fate'[r] = "acked" /\ r \notin gone' /\ mem[r] > 0
                             => mem'[r] > 0
      PROVE  FrameKept'
  <2>1. \A r \in Rows : fate'[r] = "acked" => fate[r] = "acked"
    BY <1>1, <1>4, AckStep
  <2> QED
    BY <1>3, <1>4, <2>1 DEF FrameKept
<1>5. CASE MatchRow \/ LogRow \/ LogRowCommit
  <2>1. InScan /\ ~Commit /\ ~InsertCommit /\ mem' = mem /\ rows' = rows /\ gone' = gone
    BY <1>5 DEF MatchRow, LogRow, LogRowCommit, InScan, InRow, Commit, InsertCommit, Ready, scanVars,
       fileVars
  <2>2. F' = F
    BY <1>1, <1>5 DEF MatchRow, LogRow, LogRowCommit, F, sessionVars, Stmt
  <2> QED
    BY <1>4, <2>1, <2>2
<1>6. CASE DeleteRow \/ UpdateRow
  <2>1. /\ InScan /\ ~Commit /\ ~InsertCommit /\ rows' = rows /\ F' = F
        /\ stmt.row \in Rows /\ stmt.image \in Rows
        /\ \/ SetFate(Taken(stmt.row), "deleting") /\ gone' = gone
           \/ gone' = gone \cup Taken(stmt.row)
        /\ mem' \in {MinusOne(mem, stmt.row), PlusOne(MinusOne(mem, stmt.row), stmt.image)}
    BY <1>1, <1>6, TypeInvParts DEF DeleteRow, UpdateRow, InScan, InRow, Commit, InsertCommit, Ready,
       fileVars, F, sessionVars, ProcInv, StmtOK
  <2>2. ASSUME NEW r \in Rows, fate[r] = "acked", fate'[r] = "acked", r \notin gone', mem[r] > 0
        PROVE  mem'[r] > 0
    <3>1. mem[r] \in Nat /\ (r = stmt.row => mem[r] # 1)
      BY <1>1, <2>1, <2>2 DEF Copies, SetFate, Taken
    <3>2. /\ MinusOne(mem, stmt.row)[r] = IF r = stmt.row THEN mem[r] - 1 ELSE mem[r]
          /\ PlusOne(MinusOne(mem, stmt.row), stmt.image)[r] =
               (IF r = stmt.row THEN mem[r] - 1 ELSE mem[r]) + (IF r = stmt.image THEN 1 ELSE 0)
      BY <1>1, <2>1, <3>1 DEF MinusOne, PlusOne, Copies
    <3> QED
      BY <2>1, <2>2, <3>1, <3>2
  <2> QED
    BY <1>4, <2>1, <2>2
<1>7. CASE UNCHANGED vars
  BY <1>1, <1>7 DEF vars, fileVars, scanVars, histVars, sessionVars, F, InScan, InRow, FrameKept
<1>8. ASSUME ~OpenTable, ~MatchRow, ~LogRow, ~LogRowCommit, ~DeleteRow, ~UpdateRow, ~(UNCHANGED vars)
      PROVE  ~InScan'
  BY <1>1, <1>8 DEF Next, NewStatement, Progress, Recovery, InsertSteps, RowSteps, DdlSteps, Closed,
     Start, RecoverNothing, RecoverScan, Redo, Checkpoint, Exit, Crash, EndSession, Begin, Commit,
     StartInsert, InsertTooLong, InsertLog, InsertNoTable, InsertTable, InsertCommit,
     CloseTable, CreateTable, DropTable, CreateDb, UseDb, CreateSchema, CreateCatalog, DropSchema,
     DropCatalog, UseDbWrite, EndStmt, Ready, InScan, InRow
<1> QED
  BY <1>2, <1>5, <1>6, <1>7, <1>8 DEF FrameKept

\* Recovery has redone the records it has passed.
LEMMA RedoneStep ==
  ASSUME StoreWorld, GoodStep
  PROVE  RedoneSoFar'
<1>1. /\ TypeInv /\ [Next]_vars /\ RedoneSoFar /\ HomeTold /\ EmptyWithout /\ DroppedGone
      /\ RestartDb = DefaultDb /\ curDb = DefaultDb /\ CommitsFit /\ redoIdx \in Nat
      /\ rows \in [File -> Copies] /\ "redo_write" \notin Faults /\ Len(log) \in Nat
      /\ Kept = 1..Len(log)
  BY StoreParts, TypeInvParts DEF GoodStep, StoreBefore, ProcInv, ProcessTypeOK, FilesTypeOK,
     StoreWorld, LogIntact
<1>2. CASE RecoverScan
  <2>1. Redoable' = Redoable /\ log' = log
    BY <1>2 DEF RecoverScan, walVars, Redoable, Kept, Readable, Committed, Commits
  <2>2. redoIdx' = 1 /\ smashed' = FALSE
    <3>1. Cardinality(Commits) \in Nat
      <4>1. IsFiniteSet(1..Len(log)) /\ Commits \subseteq 1..Len(log)
        BY <1>1, FS_Interval DEF Commits
      <4> QED
        BY <4>1, FS_Subset, FS_CardinalityType
    <3>2. ~ \E n \in 1..Cardinality(Commits) : Cardinality(Commits) >= MaxCommitted + n
      BY <1>1, <3>1, WalAssumption DEF CommitsFit
    <3> QED
      BY <1>2, <3>2 DEF RecoverScan
  <2>3. \A i \in Redoable : ~(i < 1)
    BY <1>1 DEF Redoable
  <2> QED
    BY <2>1, <2>2, <2>3 DEF RedoneSoFar
<1>3. CASE Redo
  <2>1. /\ pc = "redo" /\ redoIdx > 0 /\ ~smashed /\ redoIdx' = redoIdx + 1 /\ ~smashed'
        /\ log' = log /\ Redoable' = Redoable /\ redoIdx \in Kept /\ home' = home
    BY <1>1, <1>3 DEF Redo, RedoneSoFar, walVars, Redoable, Kept, Readable, Committed, Commits, histVars
  <2>2. UNCHANGED <<dataFiles, schemas>>
    BY <1>3 DEF Redo, redo_insert, fileVars
  <2>3. ASSUME NEW i \in Redoable, i < redoIdx + 1, NEW r, r = log[i].row,
               <<DefaultDb, log[i].table>> = home[r], CanOpen(home[r])
        PROVE  rows'[home[r]][r] > 0
    <3>1. i \in 1..Len(log) /\ log[i].type = "INSERT"
      BY <1>1 DEF Redoable
    <3>2. r \in Rows /\ home[r] \in File
      BY <1>1, <2>3, <3>1, TypeInvParts DEF LogInv, InsertRecordsOK, CanOpen, table_exists, FilesTypeOK
    <3>3. CASE i < redoIdx
      <4>1. rows[home[r]][r] > 0
        BY <1>1, <2>1, <2>3, <3>3 DEF RedoneSoFar
      <4>2. ~DropTable /\ ~CloseTable
        BY <2>1 DEF DropTable, CloseTable, Ready
      <4> QED
        BY <1>1, <3>2, <4>1, <4>2, RowsStep
    <3>4. CASE i = redoIdx
      <4>1. RedoTarget = home[r] /\ MustRedo
        BY <1>1, <2>3, <3>4 DEF RedoTarget, MustRedo
      <4>2. rows' = [rows EXCEPT ![home[r]] = PlusOne(rows[home[r]], r)]
        BY <1>1, <1>3, <2>3, <3>4, <4>1 DEF Redo, redo_insert, Fault, CanFail, StoreRows
      <4>3. rows[home[r]][r] \in Nat /\ rows[home[r]] \in Copies
        BY <1>1, <3>2 DEF Copies
      <4> QED
        BY <1>1, <3>2, <4>2, <4>3 DEF PlusOne, Copies
    <3> QED
      BY <1>1, <2>3, <3>1, <3>3, <3>4
  <2>4. \A i \in Redoable : LET r == log[i].row
                           IN i < redoIdx + 1 /\ <<DefaultDb, log[i].table>> = home[r] /\ CanOpen(home[r])
                                => rows'[home[r]][r] > 0
    BY <2>3
  <2>5. redoIdx' > 0
    BY <1>1, <2>1
  <2>6. \A f : CanOpen(f)' <=> CanOpen(f)
    BY <2>2 DEF CanOpen, table_exists
  <2> QED
    BY <2>1, <2>2, <2>4, <2>5, <2>6 DEF RedoneSoFar, CanOpen, table_exists
<1>4. CASE UNCHANGED vars
  BY <1>1, <1>4 DEF vars, walVars, redoVars, histVars, fileVars, RedoneSoFar, Redoable, Kept, Readable,
     Committed, Commits, CanOpen, table_exists
<1>5. ASSUME ~RecoverScan, ~Redo, ~(UNCHANGED vars) PROVE pc' # "redo"
  BY <1>1, <1>5 DEF Next, NewStatement, Progress, Recovery, InsertSteps, RowSteps, DdlSteps, Closed,
     Start, RecoverNothing, Checkpoint, Exit, Crash, EndSession, Begin, Commit,
     StartInsert, InsertTooLong, InsertLog, InsertNoTable, InsertTable, InsertCommit, OpenTable,
     MatchRow, LogRow, LogRowCommit, DeleteRow, UpdateRow,
     CloseTable, CreateTable, DropTable, CreateDb, UseDb, CreateSchema, CreateCatalog, DropSchema,
     DropCatalog, UseDbWrite, EndStmt, Ready
<1> QED
  BY <1>2, <1>3, <1>4, <1>5 DEF RedoneSoFar

\* DROP TABLE removes the data file first.
LEMMA DroppedGoneStep ==
  ASSUME DroppedGone, [Next]_vars
  PROVE  DroppedGone'
<1>1. CASE DropTable
  <2>1. PICK t \in Tables : /\ RemoveData(<<curDb, t>>)
                            /\ stmt' = [NoStmt EXCEPT !.op = "DROP TABLE", !.table = t]
                            /\ curDb' = curDb
    BY <1>1 DEF DropTable, sessionVars
  <2>2. F' = <<curDb, t>>
    BY <2>1 DEF F, NoStmt
  <2> QED
    BY <2>1, <2>2 DEF RemoveData, DroppedGone
<1>2. CASE DropSchema \/ UNCHANGED vars
  BY <1>2 DEF DropSchema, RemoveSchema, vars, fileVars, sessionVars, F, DroppedGone
<1>3. ASSUME ~DropTable, ~DropSchema, ~(UNCHANGED vars) PROVE pc' \notin Dropping
  BY <1>3 DEF Next, NewStatement, Progress, Recovery, InsertSteps, RowSteps, DdlSteps, Closed,
     Start, RecoverNothing, RecoverScan, Redo, Checkpoint, Exit, Crash, EndSession, Begin, Commit,
     StartInsert, InsertTooLong, InsertLog, InsertNoTable, InsertTable, InsertCommit, OpenTable,
     MatchRow, LogRow, LogRowCommit, DeleteRow, UpdateRow, CloseTable, CreateTable, CreateDb, UseDb,
     CreateSchema, CreateCatalog, DropCatalog, UseDbWrite, EndStmt, Ready, Dropping
<1> QED
  BY <1>1, <1>2, <1>3 DEF DroppedGone, Dropping

\* A row an UPDATE found no room for was submitted.
LEMMA GoneStep ==
  ASSUME TypeInv, TypeInv', GoneTold, [Next]_vars
  PROVE  GoneTold'
<1>1. gone' \subseteq gone \/ UpdateRow
  BY DEF Next, NewStatement, Progress, Recovery, InsertSteps, RowSteps, DdlSteps, Closed,
     Start, RecoverNothing, RecoverScan, Redo, Checkpoint, Exit, Crash, EndSession, NoSession, Begin,
     Commit, StartInsert, InsertTooLong, InsertLog, InsertNoTable, InsertTable, InsertCommit,
     OpenTable, MatchRow, LogRow, LogRowCommit, DeleteRow, CloseTable, CreateTable, DropTable,
     CreateDb, UseDb, CreateSchema, CreateCatalog, DropSchema, DropCatalog, UseDbWrite, scanVars, vars
<1>2. \A r \in gone' : r \in gone \/ fate[r] # "new"
  <2>1. UpdateRow => gone' \subseteq gone \cup Taken(stmt.row)
    BY Zenon DEF UpdateRow
  <2>2. \A r \in Taken(stmt.row) : fate[r] # "new"
    BY DEF Taken
  <2> QED
    BY <1>1, <2>1, <2>2
<1>3. gone' \subseteq Rows
  BY DEF TypeInv, TypeOK, ProcessTypeOK
<1> QED
  BY <1>2, <1>3, StepFate DEF GoneTold

\* StoreInv holds from the empty data directory on.
LEMMA StoreInvInductive ==
  ASSUME StoreWorld
  PROVE  /\ Init => StoreInv
         /\ GoodStep => StoreInv'
<1>1. ASSUME Init PROVE StoreInv
  <2>1. /\ log = <<>> /\ pc = "down" /\ txnRows = {} /\ gone = {}
        /\ \A r \in Rows : home[r] = NoHome /\ fate[r] = "new"
    BY <1>1 DEF Init, WalInit, NoSession
  <2>2. LogWhole
    BY <2>1 DEF LogWhole
  <2> QED
    BY <2>1, <2>2 DEF StoreInv, HomeTold, GoneTold, AckedKept, InsertKept, TxnKept, FrameKept, RedoneSoFar,
       DroppedGone, InInsert, InScan, InRow
<1>2. ASSUME GoodStep PROVE StoreInv'
  <2>1. TypeInv /\ TypeInv' /\ LogWhole /\ HomeTold /\ DroppedGone /\ GoneTold /\ [Next]_vars
    BY <1>2, StoreParts DEF GoodStep
  <2>2. LogWhole' /\ DroppedGone' /\ GoneTold'
    BY <2>1, LogStep, DroppedGoneStep, GoneStep
  <2>3. HomeTold'
    BY <2>1, HomeStep, StepFate DEF HomeTold
  <2> QED
    BY <1>2, <2>2, <2>3, AckedStep, InsertKeptStep, TxnKeptStep, FrameKeptStep, RedoneStep DEF StoreInv
<1> QED
  BY <1>1, <1>2

-----------------------------------------------------------------------------
(* Every step is a step of DurableStore, or none.                            *)

\* The three sets of rows of DurableStore, row by row.
LEMMA RowSets ==
  /\ \A r : r \in SubmittedRows <=> r \in Rows /\ fate[r] # "new"
  /\ \A r : r \in KeptRows <=> r \in Rows /\ Recoverable(r)
  /\ \A r : r \in AckedRows <=> r \in Rows /\ fate[r] = "acked"
  BY DEF SubmittedRows, KeptRows, AckedRows

\* The same after a step.
LEMMA RowSetsNext ==
  /\ \A r : r \in SubmittedRows' <=> r \in Rows /\ fate'[r] # "new"
  /\ \A r : r \in KeptRows' <=> r \in Rows /\ Recoverable(r)'
  /\ \A r : r \in AckedRows' <=> r \in Rows /\ fate'[r] = "acked"
  BY DEF SubmittedRows, KeptRows, AckedRows

\* Only submitted rows are kept, and every acknowledged one is.
LEMMA KeptRowsNext ==
  ASSUME StoreWorld, GoodStep
  PROVE  /\ KeptRows' \subseteq SubmittedRows' /\ AckedRows' \subseteq KeptRows'
         /\ SubmittedRows \subseteq SubmittedRows' /\ AckedRows \subseteq SubmittedRows
<1>1. HomeTold' /\ AckedKept'
  BY StoreInvInductive DEF StoreInv
<1>2. \A r \in Rows : Recoverable(r)' => fate'[r] # "new"
  BY <1>1 DEF HomeTold, Recoverable
<1>3. \A r \in Rows : fate'[r] = "acked" => Recoverable(r)'
  BY <1>1 DEF AckedKept
<1>4. \A r \in Rows : fate'[r] = "new" => fate[r] = "new"
  BY StoreParts, StepFate DEF GoodStep
<1> QED
  BY <1>2, <1>3, <1>4, RowSets, RowSetsNext

\* A step that lets go of no row.
LEMMA WriteStep ==
  ASSUME StoreWorld, GoodStep, SubmittedRows' = SubmittedRows, KeptRows \subseteq KeptRows',
         AckedRows \subseteq AckedRows'
  PROVE  Store!Write
<1>1. /\ KeptRows' \subseteq SubmittedRows /\ AckedRows' \subseteq KeptRows'
      /\ KeptRows' = KeptRows \cup KeptRows' /\ AckedRows' = AckedRows \cup AckedRows'
  BY KeptRowsNext
<1> QED
  BY <1>1 DEF Store!Write

\* A step that acknowledges no row.
LEMMA TakeStep ==
  ASSUME StoreWorld, GoodStep, SubmittedRows' = SubmittedRows, AckedRows' \subseteq AckedRows
  PROVE  Store!Take
<1> DEFINE S == SubmittedRows \ AckedRows'
<1>1. /\ KeptRows' \subseteq SubmittedRows /\ AckedRows' \subseteq KeptRows'
      /\ AckedRows \subseteq SubmittedRows
  BY KeptRowsNext
<1>2. HomeTold
  BY StoreParts DEF GoodStep
<1>3. KeptRows \subseteq SubmittedRows
  BY <1>2, RowSets DEF HomeTold, Recoverable
<1>4. AckedRows' = AckedRows \ S /\ KeptRows \ S \subseteq KeptRows' /\ S \in SUBSET SubmittedRows
  BY <1>1, <1>3
<1> QED
  BY <1>1, <1>4 DEF Store!Take

\* A row that is submitted has no copy and no record yet.
LEMMA SubmitStep ==
  ASSUME StoreWorld, GoodStep, NEW r \in Fresh, NEW v \in {"open", "updating"},
         NEW f, home' = [home EXCEPT ![r] = f], SetFate({r}, v), UNCHANGED fileVars,
         \/ UNCHANGED <<log, synced>>
         \/ write_record(NewRecord(nextTxn, "BEGIN", None, None), FALSE)
  PROVE  Store!Submit
<1>1. /\ TypeInv /\ RecordInv /\ CopiesInv /\ LogIntact /\ LogWhole /\ [Next]_vars /\ HomeTold
      /\ Kept = 1..Len(log) /\ Len(log) \in Nat /\ RestartDb = DefaultDb /\ RestartDb' = DefaultDb
      /\ home \in [Rows -> File \cup {NoHome}] /\ fate \in [Rows -> Fate] /\ r \in Rows
      /\ fate[r] = "new" /\ LogWhole' /\ TypeInv' /\ RecordsFit'
  BY StoreParts, OneDbNext, LogStep, TypeInvParts
     DEF GoodStep, StoreWorld, ProcInv, HistoryTypeOK, Fresh
<1>2. /\ Kept' = 1..Len(log)'
  BY <1>1, WholeKeptNext
<1> DEFINE rec == NewRecord(nextTxn, "BEGIN", None, None)
<1>3. rec.type = "BEGIN"
  BY DEF NewRecord
<1> HIDE DEF rec
<1>4. log' = log \/ log' = Append(log, rec)
  BY <1>1 DEF write_record, Fault, CanFail, LogIntact, rec
<1>5. ASSUME NEW i \in 1..Len(log)', log'[i].type # "BEGIN"
      PROVE  i \in 1..Len(log) /\ log'[i] = log[i]
  <2>1. CASE log' = log
    BY <1>5, <2>1
  <2>2. CASE log' = Append(log, rec)
    <3>1. /\ Len(log)' = Len(log) + 1 /\ log'[Len(log) + 1] = rec
          /\ \A j \in 1..Len(log) : log'[j] = log[j]
      BY <1>1, <2>2, LogTypes
    <3> QED
      BY <1>1, <1>3, <1>5, <3>1
  <2> QED
    BY <1>4, <2>1, <2>2
<1>6. ASSUME NEW i \in Redoable' PROVE i \in Redoable /\ log'[i] = log[i]
  <2>1. i \in 1..Len(log)' /\ log'[i].type = "INSERT"
    BY <1>2 DEF Redoable
  <2>2. PICK c \in 1..Len(log)' : log'[c].type = "COMMIT" /\ log'[c].txn = log'[i].txn
    BY <1>2 DEF Redoable, Committed, Commits
  <2>3. i \in 1..Len(log) /\ log'[i] = log[i] /\ c \in 1..Len(log) /\ log'[c] = log[c]
    BY <1>5, <2>1, <2>2
  <2> QED
    BY <1>1, <2>1, <2>2, <2>3 DEF Redoable, Committed, Commits
<1>7. \A i \in Redoable : i \in Redoable' /\ log'[i] = log[i]
  <2>1. ~Checkpoint /\ RecordsFit
    <3>1. fate'[r] # fate[r]
      BY <1>1 DEF SetFate
    <3> QED
      BY <3>1 DEF GoodStep, StoreBefore, Checkpoint, histVars
  <2> QED
    BY <1>1, <2>1, RedoableKept
<1>8. ASSUME NEW q \in Rows, q # r PROVE Recoverable(q)' <=> Recoverable(q)
  <2>1. home'[q] = home[q]
    BY <1>1, <1>8
  <2>2. \A g : CanOpen(g)' <=> CanOpen(g)
    BY DEF CanOpen, table_exists, fileVars
  <2>3. CanOpen(home[q])' <=> CanOpen(home[q])
    BY <2>1 DEF CanOpen, table_exists, fileVars
  <2>4. RedoPending(q)' <=> RedoPending(q)
    BY <1>1, <1>6, <1>7, <2>1, <2>3 DEF RedoPending
  <2> QED
    BY <2>1, <2>4 DEF Recoverable, fileVars
<1>9. ~Recoverable(r)
  BY <1>1 DEF HomeTold, Recoverable
<1>10. ~Recoverable(r)'
  <2>1. ~RedoPending(r)'
    <3>1. ASSUME NEW i \in Redoable', log'[i].row = r PROVE FALSE
      <4>1. i \in Redoable /\ log[i].row = r
        BY <1>6, <3>1
      <4>2. i \in RecordsOf(r)
        BY <4>1 DEF Redoable, Kept, RecordsOf
      <4> QED
        BY <1>1, <4>2 DEF RecordInv, NoneBefore
    <3> QED
      BY <3>1 DEF RedoPending
  <2>2. home'[r] = NoHome \/ home'[r] \in File
    BY <1>1 DEF TypeInv, TypeOK, HistoryTypeOK
  <2>3. \A g \in File : ~(rows'[g][r] > 0)
    <3>1. \A g \in File : rows[g][r] \in Nat /\ rows[g][r] <= 0
      BY <1>1, TypeInvParts DEF CopiesInv, CopiesBounded, FilesTypeOK, Copies
    <3> QED
      BY <3>1 DEF fileVars
  <2> QED
    BY <2>1, <2>2, <2>3 DEF Recoverable
<1>11. KeptRows' = KeptRows
  BY <1>8, <1>9, <1>10, RowSets, RowSetsNext
<1>12. AckedRows' = AckedRows
  BY <1>1, RowSets, RowSetsNext DEF SetFate
<1>13. SubmittedRows' = SubmittedRows \cup {r} /\ r \in Rows \ SubmittedRows
  BY <1>1, RowSets, RowSetsNext DEF SetFate
<1> QED
  BY <1>11, <1>12, <1>13 DEF Store!Submit

\* What a step that submits no row does to what the user was told.
LEMMA FateKept ==
  ASSUME StoreWorld, TypeInv, RecordInv, GoneTold, [Next]_vars, ~StartInsert, ~MatchRow, NEW r \in Rows
  PROVE  /\ fate[r] = "new" => fate'[r] = "new"
         /\ fate[r] = "acked" /\ ~DeleteRow /\ ~UpdateRow /\ ~CloseTable /\ ~DropTable
              => fate'[r] = "acked"
<1>1. /\ fate \in [Rows -> Fate]
      /\ InInsert => fate[stmt.row] = "open"
      /\ InRow /\ stmt.op = "UPDATE" => fate[stmt.image] # "new"
  BY TypeInvParts DEF ProcInv, HistoryTypeOK, RecordInv, OfItsInsert, ImageOK
<1>2. CASE InsertTooLong \/ InsertNoTable \/ InsertCommit
  BY <1>1, <1>2 DEF InsertTooLong, InsertNoTable, InsertCommit, InInsert, SetFate
<1>3. CASE DeleteRow \/ UpdateRow
  <2>1. InRow
    BY <1>3 DEF DeleteRow, UpdateRow, InRow
  <2>2. \/ SetFate(Taken(stmt.row), "deleting")
        \/ stmt.op = "UPDATE" /\ SetFate({stmt.image}, "failed")
    BY <1>3, Zenon DEF DeleteRow, UpdateRow
  <2> QED
    BY <1>1, <1>3, <2>1, <2>2 DEF Taken, SetFate
<1>4. CASE Begin \/ Commit \/ DropTable
  BY <1>1, <1>4 DEF Begin, Commit, DropTable, SetFate
<1>5. CASE Exit \/ Crash
  BY <1>1, <1>5 DEF Exit, Crash, FateAtEnd
<1>6. CASE CloseTable
  <2>1. PICK written \in BOOLEAN : FateAtClose(written)
    BY <1>6, Zenon DEF CloseTable
  <2>2. fate'[r] = IF fate[r] = "deleting" THEN "deleted"
                   ELSE IF fate[r] = "updating" THEN "updated"
                   ELSE IF written /\ r \in gone THEN "lost" ELSE fate[r]
    BY <2>1 DEF FateAtClose
  <2>3. fate[r] = "new" /\ r \in gone => FALSE
    BY DEF GoneTold
  <2> QED
    BY <1>6, <2>2, <2>3
<1>7. ASSUME ~InsertTooLong, ~InsertNoTable, ~InsertCommit, ~DeleteRow, ~UpdateRow, ~Begin, ~Commit,
             ~DropTable, ~CloseTable, ~Exit, ~Crash
      PROVE  fate' = fate
  BY <1>7 DEF Next, NewStatement, Progress, Recovery, InsertSteps, RowSteps, DdlSteps, Closed,
     Start, RecoverNothing, RecoverScan, Redo, Checkpoint, InsertLog, InsertTable, OpenTable,
     LogRow, LogRowCommit, CreateTable, CreateDb, UseDb, CreateSchema, CreateCatalog, DropSchema,
     DropCatalog, UseDbWrite, histVars, vars
<1> QED
  BY <1>1, <1>2, <1>3, <1>4, <1>5, <1>7, <1>6

\* A step of the processes is a step of the store.
LEMMA StepsOfDurableStore ==
  ASSUME StoreWorld, GoodStep
  PROVE  Store!StoreNext
<1>1. /\ TypeInv /\ RecordInv /\ GoneTold /\ [Next]_vars
  BY StoreParts DEF GoodStep
<1>2. CASE StartInsert
  <2>1. PICK t \in Tables, r \in Fresh :
          /\ home' = [home EXCEPT ![r] = <<curDb, t>>] /\ SetFate({r}, "open")
          /\ UNCHANGED walVars \/ wal_begin
    BY <1>2, Zenon DEF StartInsert
  <2>2. UNCHANGED fileVars
    BY <1>2, Zenon DEF StartInsert
  <2>3. \/ UNCHANGED <<log, synced>>
        \/ write_record(NewRecord(nextTxn, "BEGIN", None, None), FALSE)
    BY <2>1 DEF walVars, wal_begin
  <2>4. Store!Submit
    BY <2>1, <2>2, <2>3, SubmitStep
  <2> QED
    BY <2>4 DEF Store!StoreNext
<1>3. CASE MatchRow
  <2>1. /\ UNCHANGED fileVars /\ ~DropTable /\ ~CloseTable
        /\ \/ UNCHANGED histVars
           \/ \E n \in Fresh : home' = [home EXCEPT ![n] = F] /\ SetFate({n}, "updating")
    BY <1>3 DEF MatchRow, DropTable, CloseTable, EndStmt, Ready
  <2>2. write_record(NewRecord(nextTxn, "BEGIN", None, None), FALSE)
    <3>1. wal_begin
      BY <1>3, Zenon DEF MatchRow
    <3> QED
      BY <3>1 DEF wal_begin
  <2>3. CASE UNCHANGED histVars
    <3>1. SubmittedRows' = SubmittedRows /\ AckedRows' = AckedRows
      BY <2>3 DEF SubmittedRows, AckedRows, histVars
    <3>2. KeptRows \subseteq KeptRows'
      BY <2>1, RecoverableStep, RowSets, RowSetsNext
    <3>3. Store!Write
      BY <3>1, <3>2, WriteStep
    <3> QED
      BY <3>3 DEF Store!StoreNext
  <2>4. ASSUME NEW n \in Fresh, home' = [home EXCEPT ![n] = F], SetFate({n}, "updating")
        PROVE  Store!StoreNext
    <3>1. Store!Submit
      BY <2>1, <2>2, <2>4, SubmitStep
    <3> QED
      BY <3>1 DEF Store!StoreNext
  <2> QED
    BY <2>1, <2>3, <2>4
<1>4. CASE ~StartInsert /\ ~MatchRow
  <2>1. SubmittedRows' = SubmittedRows
    BY <1>1, <1>4, FateKept, StepFate, RowSets, RowSetsNext
  <2>2. CASE DeleteRow \/ UpdateRow \/ DropTable \/ CloseTable
    <3>1. ~Commit /\ ~InsertCommit
      BY <2>2 DEF DeleteRow, UpdateRow, DropTable, CloseTable, Commit, InsertCommit, Ready
    <3>2. AckedRows' \subseteq AckedRows
      BY <1>1, <3>1, AckStep, RowSets, RowSetsNext
    <3>3. Store!Take
      BY <2>1, <3>2, TakeStep
    <3> QED
      BY <3>3 DEF Store!StoreNext
  <2>3. CASE ~DeleteRow /\ ~UpdateRow /\ ~DropTable /\ ~CloseTable
    <3>1. AckedRows \subseteq AckedRows'
      BY <1>1, <1>4, <2>3, FateKept, RowSets, RowSetsNext
    <3>2. KeptRows \subseteq KeptRows'
      BY <2>3, RecoverableStep, RowSets, RowSetsNext
    <3>3. Store!Write
      BY <2>1, <3>1, <3>2, WriteStep
    <3> QED
      BY <3>3 DEF Store!StoreNext
  <2> QED
    BY <2>2, <2>3
<1> QED
  BY <1>2, <1>3, <1>4

(* What INSERT and COMMIT acknowledge is found again by every later start:    *)
(* KernelDB implements DurableStore.  Of the failures those of a page write   *)
(* and of CREATE TABLE may happen, at any time, and an UPDATE may find no     *)
(* room; a process may be killed between any two steps.  The log must fit     *)
(* the arrays of wal_recover.                                                 *)
THEOREM AcknowledgedIsKept ==
  ASSUME StoreWorld
  PROVE  Spec /\ []CommitsFit /\ []RecordsFit => ImplementsStore
<1> DEFINE Inv == BaseInv /\ StoreInv
<1>1. Init => Inv
  BY RedoInvInductive, LoggedInvInductive, CopiesInvInductive, StoreInvInductive
     DEF BaseInv, StoreWorld, LogIntact, LogWritten
<1>2. Inv /\ CommitsFit /\ RecordsFit /\ RecordsFit' /\ [Next]_vars => Inv'
  <2> SUFFICES ASSUME Inv, CommitsFit, RecordsFit, RecordsFit', [Next]_vars
               PROVE  Inv'
    OBVIOUS
  <2>1. BaseInv'
    BY RedoInvInductive, LoggedInvInductive, CopiesInvInductive
       DEF BaseInv, StoreWorld, LogIntact, LogWritten, RedoInv
  <2>2. GoodStep
    BY <2>1 DEF GoodStep, StoreBefore, BaseInv, RedoInv
  <2> QED
    BY <2>1, <2>2, StoreInvInductive
<1>3. Inv /\ Inv' /\ CommitsFit /\ RecordsFit /\ RecordsFit' /\ [Next]_vars
        => [Store!StoreNext]_(Store!storeVars)
  <2> SUFFICES ASSUME Inv, Inv', CommitsFit, RecordsFit, RecordsFit', [Next]_vars
               PROVE  Store!StoreNext
    OBVIOUS
  <2>1. GoodStep
    BY DEF GoodStep, StoreBefore, BaseInv, RedoInv
  <2> QED
    BY <2>1, StepsOfDurableStore
<1>4. Init => Store!StoreInit
  <2> SUFFICES ASSUME Init PROVE Store!StoreInit
    OBVIOUS
  <2>1. \A r \in Rows : home[r] = NoHome /\ fate[r] = "new"
    BY DEF Init
  <2> QED
    BY <2>1, RowSets DEF Store!StoreInit, Recoverable
<1> HIDE DEF Inv
<1> QED
  BY <1>1, <1>2, <1>3, <1>4, PTL DEF Spec, ImplementsStore, Store!StoreSpec
=============================================================================
