---------------------------- MODULE KernelDBProofs ----------------------------
(* Theorems about KernelDB, for every value of its constants: TypeOK,        *)
(* CurrentDbExists, CatalogAgrees and AckedOnDisk.                          *)
EXTENDS KernelDBProps, SequenceTheorems, FiniteSetTheorems, TLAPS

USE NamesAssumption, WalAssumption, FilesAssumption, BoundAssumption

-----------------------------------------------------------------------------
(* The log.                                                                 *)

LogInv == WalTypeOK /\ InsertRecordsOK

\* What can be appended: an INSERT record carries a row.
Appendable == {rec \in WALRecord : rec.type = "INSERT" => rec.row \in Rows}

\* Appending a record keeps the log a sequence of records.
LEMMA AppendLog ==
  ASSUME LogInv, NEW rec \in Appendable, log' = Append(log, rec)
  PROVE  /\ log' \in Seq(WALRecord) /\ Len(log') = Len(log) + 1 /\ Len(log) \in Nat
         /\ InsertRecordsOK'
<1>1. /\ log' \in Seq(WALRecord) /\ Len(log') = Len(log) + 1 /\ Len(log) \in Nat
      /\ \A i \in 1..Len(log) : log'[i] = log[i]
      /\ log'[Len(log) + 1] = rec
  BY DEF LogInv, WalTypeOK, Appendable
<1> QED
  BY <1>1 DEF LogInv, InsertRecordsOK, Appendable

\* A torn record is a record that can be appended.
LEMMA TornIsRecord == TornRecord \in Appendable
  BY DEF TornRecord, Appendable, WALRecord, RecordType

\* write_record keeps the log well typed, whatever fails.
LEMMA WriteRecordType ==
  ASSUME LogInv, NEW rec \in Appendable, NEW sync \in BOOLEAN, write_record(rec, sync)
  PROVE  /\ log' \in Seq(WALRecord) /\ InsertRecordsOK'
         /\ synced' \in Nat /\ synced' <= Len(log')
         /\ nextLsn' \in Nat
         /\ faults' \in Nat /\ faults' <= MaxFaults
<1>1. nextLsn' \in Nat
  BY DEF write_record, LogInv, WalTypeOK
<1>2. CASE log' = Append(log, rec)
  <2>1. synced' \in {synced, Len(log) + 1} /\ faults' \in Nat /\ faults' <= MaxFaults
    BY DEF write_record, LogInv, WalTypeOK, Fault, CanFail
  <2> QED
    BY <1>1, <1>2, <2>1, AppendLog DEF LogInv, WalTypeOK
<1>3. CASE ~(log' = Append(log, rec))
  <2>1. /\ log' \in {log, Append(log, TornRecord)}
        /\ synced' = synced /\ faults' \in Nat /\ faults' <= MaxFaults
    BY <1>3 DEF write_record, LogInv, WalTypeOK, Fault, CanFail
  <2>2. CASE log' = log
    BY <1>1, <2>1, <2>2 DEF LogInv, WalTypeOK, InsertRecordsOK
  <2>3. CASE log' = Append(log, TornRecord)
    BY <1>1, <2>1, <2>3, TornIsRecord, AppendLog DEF LogInv, WalTypeOK
  <2> QED
    BY <2>1, <2>2, <2>3
<1> QED
  BY <1>2, <1>3

\* wal_begin keeps the log well typed.
LEMMA BeginType ==
  ASSUME LogInv, wal_begin
  PROVE  LogInv'
<1>1. NewRecord(nextTxn, "BEGIN", None, None) \in Appendable
  BY DEF NewRecord, Appendable, WALRecord, RecordType, LogInv, WalTypeOK
<1>2. write_record(NewRecord(nextTxn, "BEGIN", None, None), FALSE)
  BY Zenon DEF wal_begin
<1>3. nextTxn' \in Nat
  BY DEF wal_begin, LogInv, WalTypeOK
<1> QED
  BY <1>1, <1>2, <1>3, WriteRecordType DEF LogInv, WalTypeOK

\* wal_write keeps the log well typed, whatever kind of record it appends.
LEMMA WriteType ==
  ASSUME LogInv, NEW txn \in Nat, NEW type \in RecordType,
         NEW table \in Tables \cup {None}, NEW row \in Rows,
         wal_write(txn, type, table, row)
  PROVE  LogInv'
<1>1. NewRecord(txn, type, table, row) \in Appendable
  BY DEF NewRecord, Appendable, WALRecord, RecordType, LogInv, WalTypeOK
<1>2. write_record(NewRecord(txn, type, table, row), TRUE)
  BY Zenon DEF wal_write
<1>3. nextTxn' \in Nat
  BY DEF wal_write, LogInv, WalTypeOK
<1> QED
  BY <1>1, <1>2, <1>3, WriteRecordType DEF LogInv, WalTypeOK

\* wal_commit keeps the log well typed.
LEMMA CommitType ==
  ASSUME LogInv, NEW txn \in Nat, wal_commit(txn)
  PROVE  LogInv'
<1>1. NewRecord(txn, "COMMIT", None, None) \in Appendable
  BY DEF NewRecord, Appendable, WALRecord, RecordType, LogInv, WalTypeOK
<1>2. write_record(NewRecord(txn, "COMMIT", None, None), TRUE)
  BY Zenon DEF wal_commit
<1>3. nextTxn' \in Nat
  BY DEF wal_commit, LogInv, WalTypeOK
<1> QED
  BY <1>1, <1>2, <1>3, WriteRecordType DEF LogInv, WalTypeOK

\* wal_open, the truncation of wal_recover, and wal_close keep it well typed.
LEMMA ReopenType ==
  ASSUME LogInv, wal_open \/ wal_truncate \/ (wal_close /\ nextLsn' = 1 /\ nextTxn' = 1),
         UNCHANGED faults
  PROVE  LogInv'
<1>1. CASE wal_open
  <2>1. \A i \in Readable : log[i].lsn + 1 \in Nat /\ log[i].txn + 1 \in Nat
    <3>1. \A i \in 1..Len(log) : log[i] \in WALRecord
      BY DEF LogInv, WalTypeOK
    <3>2. Readable \subseteq 1..Len(log)
      BY DEF Readable
    <3> QED
      BY <3>1, <3>2 DEF WALRecord
  <2>2. PICK n \in {1} \cup {log[i].lsn + 1 : i \in Readable} : nextLsn' = n
    BY <1>1 DEF wal_open
  <2>3. PICK m \in {1} \cup {log[i].txn + 1 : i \in Readable} : nextTxn' = m
    BY <1>1 DEF wal_open
  <2>4. nextLsn' \in Nat /\ nextTxn' \in Nat
    BY <2>1, <2>2, <2>3
  <2> QED
    BY <1>1, <2>4 DEF wal_open, LogInv, WalTypeOK, InsertRecordsOK
<1>2. CASE wal_truncate
  BY <1>2 DEF wal_truncate, LogInv, WalTypeOK, InsertRecordsOK
<1>3. CASE wal_close /\ nextLsn' = 1 /\ nextTxn' = 1
  BY <1>3 DEF wal_close, LogInv, WalTypeOK, InsertRecordsOK
<1> QED
  BY <1>1, <1>2, <1>3

\* A prefix of the log, with or without a torn record behind it, is a log.
LEMMA PrefixLog ==
  ASSUME LogInv, NEW n \in 0..Len(log),
         log' \in {SubSeq(log, 1, n), Append(SubSeq(log, 1, n), TornRecord)}
  PROVE  /\ log' \in Seq(WALRecord) /\ InsertRecordsOK'
         /\ Len(log') = IF log' = SubSeq(log, 1, n) THEN n ELSE n + 1
<1> DEFINE s == SubSeq(log, 1, n)
<1>1. \A i \in 1..n : log[i] \in WALRecord /\ (log[i].type = "INSERT" => log[i].row \in Rows)
  BY DEF LogInv, WalTypeOK, InsertRecordsOK
<1>2. n \in Nat /\ s \in Seq(WALRecord) /\ Len(s) = n /\ \A i \in 1..n : s[i] = log[i]
  BY <1>1, SubSeqProperties DEF LogInv, WalTypeOK
<1>3. TornRecord \in WALRecord /\ TornRecord.type # "INSERT"
  BY DEF TornRecord, WALRecord, RecordType
<1>4. CASE log' = s
  BY <1>1, <1>2, <1>4 DEF InsertRecordsOK
<1>5. CASE log' = Append(s, TornRecord)
  <2>1. /\ log' \in Seq(WALRecord) /\ Len(log') = n + 1
        /\ \A i \in 1..n : log'[i] = log[i]
        /\ log'[n + 1] = TornRecord
    BY <1>2, <1>3, <1>5
  <2>2. log' # s
    BY <1>2, <2>1
  <2> QED
    BY <1>1, <1>2, <1>3, <2>1, <2>2 DEF InsertRecordsOK
<1> QED
  BY <1>4, <1>5

\* So is what a crash leaves.
LEMMA LoseTailType ==
  ASSUME LogInv, NEW inFlight, LoseTail(inFlight)
  PROVE  LogInv'
<1>1. PICK n \in synced..Len(log) :
        \/ log' = SubSeq(log, 1, n) /\ synced' = n /\ UNCHANGED faults
        \/ /\ Fault("torn")
           /\ log' = Append(SubSeq(log, 1, n), TornRecord) /\ synced' = n + 1
  BY DEF LoseTail
<1>2. n \in 0..Len(log) /\ nextLsn' = 1 /\ nextTxn' = 1
  BY DEF LoseTail, LogInv, WalTypeOK
<1>3. faults' \in Nat /\ faults' <= MaxFaults
  BY <1>1 DEF Fault, CanFail, LogInv, WalTypeOK
<1>4. /\ log' \in Seq(WALRecord) /\ InsertRecordsOK'
      /\ Len(log') = IF log' = SubSeq(log, 1, n) THEN n ELSE n + 1
  BY <1>1, <1>2, PrefixLog
<1>5. SubSeq(log, 1, n) # Append(SubSeq(log, 1, n), TornRecord)
  <2>1. SubSeq(log, 1, n) \in Seq(WALRecord)
    BY <1>2, SubSeqProperties DEF LogInv, WalTypeOK
  <2> QED
    BY <2>1
<1> QED
  BY <1>1, <1>2, <1>3, <1>4, <1>5 DEF LogInv, WalTypeOK

-----------------------------------------------------------------------------
(* The table files and the history.                                          *)

\* Adding or taking a copy of a row on a page leaves a page.
LEMMA CopiesType ==
  ASSUME NEW b \in Copies, NEW r \in Rows
  PROVE  /\ NoRows \in Copies /\ PlusOne(b, r) \in Copies
         /\ b[r] > 0 => MinusOne(b, r) \in Copies
  BY DEF Copies, NoRows, PlusOne, MinusOne

\* Writing a page back leaves pages in the table files.
LEMMA StoreType ==
  ASSUME rows \in [File -> Copies], NEW f \in File, NEW b \in Copies, StoreRows(f, b)
  PROVE  rows' \in [File -> Copies]
  BY DEF StoreRows

\* Telling the user about some rows leaves a fate for every row.
LEMMA FateType ==
  ASSUME fate \in [Rows -> Fate], NEW S, NEW v \in Fate, SetFate(S, v)
  PROVE  fate' \in [Rows -> Fate]
  BY DEF SetFate

-----------------------------------------------------------------------------
(* TypeInv is inductive.  One lemma per part of the program, one step per   *)
(* action; the log and the files by the lemmas above.                       *)

ProcInv == ProcessTypeOK /\ HistoryTypeOK /\ StmtOK /\ LeftOK

\* The three parts of TypeInv that the lemmas treat separately.
LEMMA TypeInvParts == TypeInv <=> LogInv /\ FilesTypeOK /\ ProcInv
  BY DEF TypeInv, TypeOK, LogInv, ProcInv

\* What stays as it is stays well typed.
LEMMA UnchangedType ==
  /\ LogInv /\ UNCHANGED <<walVars, faults>> => LogInv'
  /\ FilesTypeOK /\ UNCHANGED fileVars => FilesTypeOK'
  BY DEF LogInv, WalTypeOK, InsertRecordsOK, walVars, FilesTypeOK, fileVars

\* A process starts, recovers and ends.
LEMMA MainType ==
  ASSUME LogInv, FilesTypeOK, ProcInv, Start \/ Recovery \/ Exit \/ Crash
  PROVE  LogInv' /\ FilesTypeOK' /\ ProcInv'
<1>1. CASE Start
  <2>1. wal_open /\ UNCHANGED faults
    BY <1>1, Zenon DEF Start
  <2>2. LogInv'
    BY <2>1, ReopenType
  <2>3. FilesTypeOK'
    BY <1>1 DEF Start, MakeDb, FilesTypeOK
  <2>4. ProcInv'
    BY <1>1 DEF Start, RestartDb, FilesTypeOK, ProcInv, ProcessTypeOK, HistoryTypeOK, PC,
                StmtOK, LeftOK, InTable, InInsert, InScan, InRow, scanVars, redoVars, histVars
  <2> QED
    BY <2>2, <2>3, <2>4
<1>2. CASE RecoverNothing
  <2>1. LogInv'
    <3>1. UNCHANGED faults /\ (UNCHANGED walVars \/ wal_truncate)
      BY <1>2, Zenon DEF RecoverNothing
    <3> QED
      BY <3>1, ReopenType, UnchangedType
  <2>2. FilesTypeOK'
    BY <1>2, UnchangedType DEF RecoverNothing
  <2>3. ProcInv'
    BY <1>2 DEF RecoverNothing, ProcInv, ProcessTypeOK, HistoryTypeOK, PC, StmtOK, LeftOK,
                InTable, InInsert, InScan, InRow, sessionVars, scanVars, redoVars, histVars
  <2> QED
    BY <2>1, <2>2, <2>3
<1>3. CASE RecoverScan
  <2>1. LogInv' /\ FilesTypeOK'
    BY <1>3, UnchangedType DEF RecoverScan
  <2>2. Cardinality(Commits) \in Nat
    <3>1. Commits \subseteq 1..Len(log) /\ Len(log) \in Nat
      BY DEF Commits, Kept, Readable, LogInv, WalTypeOK
    <3>2. IsFiniteSet(1..Len(log))
      BY <3>1, FS_Interval
    <3>3. IsFiniteSet(Commits)
      BY <3>1, <3>2, FS_Subset
    <3> QED
      BY <3>3, FS_CardinalityType
  <2>3. redoIdx' \in Nat /\ smashed' \in BOOLEAN
    <3>1. CASE redoIdx' = 1 /\ smashed' = FALSE
      BY <3>1
    <3>2. CASE \E n \in 1..Cardinality(Commits) : redoIdx' = n /\ smashed' \in BOOLEAN
      BY <2>2, <3>2
    <3> QED
      BY <1>3, <3>1, <3>2, Zenon DEF RecoverScan
  <2>4. ProcInv'
    BY <1>3, <2>3 DEF RecoverScan, ProcInv, ProcessTypeOK, HistoryTypeOK, PC, StmtOK, LeftOK,
                InTable, InInsert, InScan, InRow, sessionVars, scanVars, histVars
  <2> QED
    BY <2>1, <2>4
<1>4. CASE Redo
  <2>1. ASSUME MustRedo, redo_insert
        PROVE  FilesTypeOK' /\ faults' \in Nat /\ faults' <= MaxFaults
    <3>1. log[redoIdx].row \in Rows
      BY <1>4, <2>1 DEF Redo, MustRedo, Redoable, Kept, Readable, LogInv, InsertRecordsOK
    <3>2. faults' \in Nat /\ faults' <= MaxFaults
      BY <2>1 DEF redo_insert, Fault, CanFail, fileVars, LogInv, WalTypeOK
    <3>3. CASE CanOpen(RedoTarget)
      <4>1. RedoTarget \in File
        BY <3>3 DEF CanOpen, table_exists, FilesTypeOK
      <4>2. PlusOne(rows[RedoTarget], log[redoIdx].row) \in Copies
        BY <3>1, <4>1, CopiesType DEF FilesTypeOK
      <4>3. rows' \in [File -> Copies]
        BY <2>1, <3>3, <4>1, <4>2, StoreType DEF redo_insert, FilesTypeOK
      <4> QED
        BY <2>1, <3>2, <3>3, <4>3 DEF redo_insert, FilesTypeOK
    <3>4. CASE ~CanOpen(RedoTarget)
      BY <2>1, <3>2, <3>4, UnchangedType DEF redo_insert
    <3> QED
      BY <3>3, <3>4
  <2>2. LogInv'
    BY <1>4, <2>1 DEF Redo, walVars, LogInv, WalTypeOK, InsertRecordsOK
  <2>3. FilesTypeOK'
    BY <1>4, <2>1, UnchangedType DEF Redo
  <2>4. ProcInv'
    <3>1. /\ redoIdx' = redoIdx + 1 /\ smashed' = FALSE /\ pc = "redo"
          /\ UNCHANGED <<pc, sessionVars, stmt, scanVars, sessions, histVars>>
      BY <1>4, Zenon DEF Redo
    <3>2. ProcessTypeOK'
      <4>1. redoIdx \in Nat
        BY DEF ProcInv, ProcessTypeOK
      <4>2. redoIdx' \in Nat
        BY <3>1, <4>1
      <4>3. smashed' \in BOOLEAN
        BY <3>1, Zenon
      <4> QED
        BY <3>1, <4>2, <4>3, Zenon DEF ProcInv, ProcessTypeOK, sessionVars, scanVars
    <3>3. HistoryTypeOK'
      BY <3>1 DEF ProcInv, HistoryTypeOK, histVars
    <3>4. StmtOK' /\ LeftOK'
      BY <3>1 DEF ProcInv, StmtOK, LeftOK, InTable, InInsert, InScan, InRow, scanVars
    <3> QED
      BY <3>2, <3>3, <3>4 DEF ProcInv
  <2> QED
    BY <2>2, <2>3, <2>4
<1>5. CASE Checkpoint
  <2>1. LogInv'
    <3>1. UNCHANGED faults /\ wal_truncate
      BY <1>5, Zenon DEF Checkpoint
    <3> QED
      BY <3>1, ReopenType
  <2>2. FilesTypeOK'
    BY <1>5, UnchangedType DEF Checkpoint
  <2>3. ProcInv'
    BY <1>5 DEF Checkpoint, ProcInv, ProcessTypeOK, HistoryTypeOK, PC, StmtOK, LeftOK,
                InTable, InInsert, InScan, InRow, sessionVars, scanVars, histVars
  <2> QED
    BY <2>1, <2>2, <2>3
<1>6. ASSUME Exit \/ Crash PROVE ProcInv' /\ FilesTypeOK'
  <2>1. EndSession /\ FateAtEnd /\ UNCHANGED <<fileVars, sessions, home>>
    BY <1>6, Zenon DEF Exit, Crash
  <2>2. fate' \in [Rows -> Fate]
    BY <2>1 DEF FateAtEnd, Fate, ProcInv, HistoryTypeOK
  <2>3. NoStmt \in Stmt /\ NoRows \in Copies /\ \A r \in Rows : NoRows[r] = 0
    BY DEF NoStmt, Stmt, NoRows, Copies
  <2>4. ProcessTypeOK'
    BY <2>1, <2>3 DEF EndSession, ProcInv, ProcessTypeOK, PC
  <2>5. HistoryTypeOK'
    BY <2>1, <2>2 DEF ProcInv, HistoryTypeOK
  <2>6. StmtOK' /\ LeftOK'
    BY <2>1, <2>3 DEF EndSession, StmtOK, LeftOK, InTable, InInsert, InScan, InRow
  <2> QED
    BY <2>1, <2>4, <2>5, <2>6, UnchangedType DEF ProcInv
<1>7. CASE Exit
  <2>1. LogInv'
    <3>1. UNCHANGED faults /\ wal_close /\ nextLsn' = 1 /\ nextTxn' = 1
      BY <1>7, Zenon DEF Exit
    <3> QED
      BY <3>1, ReopenType
  <2> QED
    BY <1>6, <1>7, <2>1
<1>8. CASE Crash
  <2>1. LogInv'
    <3> DEFINE inFlight == pc \in {"idle", "ins_log", "ins_commit", "scan", "row_log", "row_commit"}
    <3>1. LoseTail(inFlight)
      BY <1>8, Zenon DEF Crash
    <3> HIDE DEF inFlight
    <3> QED
      BY <3>1, LoseTailType
  <2> QED
    BY <1>6, <1>8, <2>1
<1> QED
  BY <1>1, <1>2, <1>3, <1>4, <1>5, <1>7, <1>8 DEF Recovery

\* BEGIN, COMMIT and INSERT.
LEMMA InsertType ==
  ASSUME LogInv, FilesTypeOK, ProcInv, Begin \/ Commit \/ StartInsert \/ InsertSteps
  PROVE  LogInv' /\ FilesTypeOK' /\ ProcInv'
<1>1. stmt.txn \in Nat /\ currentTxn \in Nat /\ nextTxn \in Nat
  BY DEF ProcInv, ProcessTypeOK, Stmt, LogInv, WalTypeOK
<1>2. InInsert => stmt.table \in Tables /\ stmt.row \in Rows /\ F \in File
  BY DEF ProcInv, StmtOK, InInsert, InTable, F, File, ProcessTypeOK
<1>3. NoStmt \in Stmt
  BY DEF NoStmt, Stmt
<1>4. \A S : \/ SetFate(S, "acked") \/ SetFate(S, "open") \/ SetFate(S, "failed")
            \/ SetFate(S, "aborted")
              => fate' \in [Rows -> Fate]
  BY FateType DEF ProcInv, HistoryTypeOK, Fate
<1>5. CASE Begin
  <2>1. LogInv'
    BY <1>5, BeginType, Zenon DEF Begin
  <2>2. FilesTypeOK'
    BY <1>5, UnchangedType DEF Begin
  <2>3. ProcInv'
    BY <1>1, <1>4, <1>5 DEF Begin, Ready, ProcInv, ProcessTypeOK, HistoryTypeOK, StmtOK, LeftOK,
                InTable, InInsert, InScan, InRow, scanVars, redoVars
  <2> QED
    BY <2>1, <2>2, <2>3
<1>6. CASE Commit
  <2>1. LogInv'
    BY <1>1, <1>6, CommitType, Zenon DEF Commit
  <2>2. FilesTypeOK'
    BY <1>6, UnchangedType DEF Commit
  <2>3. ProcInv'
    BY <1>4, <1>6 DEF Commit, Ready, ProcInv, ProcessTypeOK, HistoryTypeOK, StmtOK, LeftOK,
                InTable, InInsert, InScan, InRow, scanVars, redoVars
  <2> QED
    BY <2>1, <2>2, <2>3
<1>7. CASE StartInsert
  <2>1. LogInv'
    <3>1. wal_begin \/ UNCHANGED <<walVars, faults>>
      BY <1>7, Zenon DEF StartInsert
    <3> QED
      BY <3>1, BeginType, UnchangedType
  <2>2. FilesTypeOK'
    BY <1>7, UnchangedType DEF StartInsert
  <2>3. PICK t \in Tables, r \in Rows :
          /\ home' = [home EXCEPT ![r] = <<curDb, t>>]
          /\ SetFate({r}, "open")
          /\ stmt' \in {[NoStmt EXCEPT !.op = "INSERT", !.table = t, !.row = r,
                                       !.txn = currentTxn],
                        [NoStmt EXCEPT !.op = "INSERT", !.table = t, !.row = r,
                                       !.txn = nextTxn, !.auto = TRUE]}
    BY <1>7 DEF StartInsert, Fresh
  <2>4. stmt' \in Stmt /\ stmt'.table = t /\ stmt'.row = r
    BY <1>1, <2>3 DEF NoStmt, Stmt, StatementKind
  <2>5. HistoryTypeOK'
    BY <1>4, <2>3 DEF ProcInv, HistoryTypeOK, ProcessTypeOK, File
  <2>6. ProcessTypeOK'
    BY <1>7, <2>4 DEF StartInsert, ProcInv, ProcessTypeOK, PC, sessionVars, scanVars, redoVars
  <2>7. StmtOK' /\ LeftOK'
    BY <1>7, <2>4 DEF StartInsert, ProcInv, StmtOK, LeftOK,
                      InTable, InInsert, InScan, InRow, scanVars
  <2> QED
    BY <2>1, <2>2, <2>5, <2>6, <2>7 DEF ProcInv
<1>8. CASE InsertTooLong \/ InsertNoTable
  <2>1. LogInv' /\ FilesTypeOK'
    BY <1>8, UnchangedType DEF InsertTooLong, InsertNoTable
  <2>2. ProcInv'
    BY <1>3, <1>4, <1>8 DEF InsertTooLong, InsertNoTable, EndStmt, ProcInv, ProcessTypeOK, PC,
                HistoryTypeOK, StmtOK, LeftOK,
                InTable, InInsert, InScan, InRow, sessionVars, scanVars, redoVars
  <2> QED
    BY <2>1, <2>2
<1>9. CASE InsertLog
  <2>1. LogInv'
    <3>1. wal_write(stmt.txn, "INSERT", stmt.table, stmt.row)
      BY <1>9, Zenon DEF InsertLog
    <3>2. stmt.table \in Tables /\ stmt.row \in Rows /\ "INSERT" \in RecordType
      BY <1>2, <1>9 DEF InsertLog, InInsert, RecordType
    <3> QED
      BY <1>1, <3>1, <3>2, WriteType
  <2>2. FilesTypeOK'
    BY <1>9, UnchangedType DEF InsertLog
  <2>3. ProcInv'
    BY <1>9 DEF InsertLog, ProcInv, ProcessTypeOK, PC, HistoryTypeOK, StmtOK, LeftOK,
                InTable, InInsert, InScan, InRow, sessionVars, scanVars, redoVars, histVars
  <2> QED
    BY <2>1, <2>2, <2>3
<1>10. CASE InsertTable
  <2>1. pc = "ins_table" /\ F \in File /\ stmt.row \in Rows
    BY <1>2, <1>10 DEF InsertTable, InInsert
  <2>2. LogInv'
    BY <1>10 DEF InsertTable, walVars, LogInv, WalTypeOK, InsertRecordsOK, Fault, CanFail
  <2>3. FilesTypeOK'
    <3>1. StoreRows(F, PlusOne(rows[F], stmt.row)) => rows' \in [File -> Copies]
      BY <2>1, CopiesType, StoreType DEF FilesTypeOK
    <3> QED
      BY <1>10, <3>1 DEF InsertTable, FilesTypeOK
  <2>4. /\ \/ stmt.auto /\ pc' = "ins_commit" /\ UNCHANGED <<stmt, txnRows>>
           \/ pc' = "idle" /\ stmt' = NoStmt /\ txnRows' = txnRows \cup {stmt.row}
        /\ UNCHANGED <<curDb, txnActive, currentTxn, scanVars, redoVars, sessions, histVars>>
    BY <1>10 DEF InsertTable, EndStmt
  <2>5. ProcessTypeOK'
    BY <1>3, <2>1, <2>4 DEF ProcInv, ProcessTypeOK, PC, scanVars, redoVars
  <2>6. HistoryTypeOK' /\ StmtOK' /\ LeftOK'
    BY <2>1, <2>4 DEF ProcInv, HistoryTypeOK, StmtOK, LeftOK,
                      InTable, InInsert, InScan, InRow, scanVars, histVars
  <2> QED
    BY <2>2, <2>3, <2>5, <2>6 DEF ProcInv
<1>11. CASE InsertCommit
  <2>1. LogInv'
    BY <1>1, <1>11, CommitType, Zenon DEF InsertCommit
  <2>2. FilesTypeOK'
    BY <1>11, UnchangedType DEF InsertCommit
  <2>3. ProcInv'
    BY <1>3, <1>4, <1>11 DEF InsertCommit, EndStmt, ProcInv, ProcessTypeOK, PC,
                HistoryTypeOK, StmtOK, LeftOK,
                InTable, InInsert, InScan, InRow, sessionVars, scanVars, redoVars
  <2> QED
    BY <2>1, <2>2, <2>3
<1> QED
  BY <1>5, <1>6, <1>7, <1>8, <1>9, <1>10, <1>11 DEF InsertSteps

\* UPDATE and DELETE.
LEMMA RowType ==
  ASSUME LogInv, FilesTypeOK, ProcInv, OpenTable \/ RowSteps
  PROVE  LogInv' /\ FilesTypeOK' /\ ProcInv'
<1>1. stmt \in Stmt /\ stmt.txn \in Nat /\ nextTxn \in Nat
  BY DEF ProcInv, ProcessTypeOK, Stmt, LogInv, WalTypeOK
<1>2. InScan => /\ stmt.table \in Tables /\ F \in File
                /\ stmt.op \in {"UPDATE", "DELETE"}
  BY DEF ProcInv, StmtOK, InScan, InRow, InTable, F, File, ProcessTypeOK
<1>3. NoStmt \in Stmt /\ NoRows \in Copies
  BY CopiesType DEF NoStmt, Stmt, NoRows, Copies
<1>4. InRow => /\ stmt.row \in Rows /\ stmt.image \in Rows
               /\ MinusOne(left, stmt.row) \in Copies
               /\ MinusOne(mem, stmt.row) \in Copies
               /\ PlusOne(MinusOne(mem, stmt.row), stmt.image) \in Copies
  <2>1. SUFFICES ASSUME InRow
                 PROVE  /\ stmt.row \in Rows /\ stmt.image \in Rows
                        /\ MinusOne(left, stmt.row) \in Copies
                        /\ MinusOne(mem, stmt.row) \in Copies
                        /\ PlusOne(MinusOne(mem, stmt.row), stmt.image) \in Copies
    OBVIOUS
  <2>2. /\ stmt.row \in Rows /\ stmt.image \in Rows
        /\ mem \in Copies /\ left \in Copies
        /\ left[stmt.row] > 0 /\ left[stmt.row] <= mem[stmt.row]
    BY <2>1 DEF ProcInv, ProcessTypeOK, StmtOK, LeftOK
  <2>3. mem[stmt.row] > 0
    BY <2>2 DEF Copies
  <2> QED
    BY <2>2, <2>3, CopiesType
<1>5. CASE OpenTable
  <2>1. PICK kind \in {"UPDATE", "DELETE"}, t \in Tables :
          /\ Ready(kind, 3) /\ CanOpen(<<curDb, t>>)
          /\ stmt' = [NoStmt EXCEPT !.op = kind, !.table = t]
          /\ mem' = rows[<<curDb, t>>] /\ left' = rows[<<curDb, t>>]
    BY <1>5 DEF OpenTable
  <2>2. LogInv' /\ FilesTypeOK'
    BY <1>5, UnchangedType DEF OpenTable
  <2>3. stmt' \in Stmt /\ stmt'.op = kind /\ stmt'.table = t
    BY <2>1 DEF NoStmt, Stmt, StatementKind
  <2>4. mem' \in Copies /\ left' = mem'
    BY <2>1 DEF FilesTypeOK, File, ProcInv, ProcessTypeOK
  <2>5. ProcessTypeOK' /\ HistoryTypeOK'
    BY <1>5, <2>3, <2>4 DEF OpenTable, ProcInv, ProcessTypeOK, HistoryTypeOK, PC,
                            sessionVars, redoVars, histVars
  <2>6. StmtOK'
    BY <1>5, <2>3 DEF OpenTable, StmtOK, InTable, InInsert, InScan, InRow
  <2>7. LeftOK'
    <3>1. \A b \in Copies, r \in Rows : b[r] <= b[r]
      BY DEF Copies
    <3> QED
      BY <2>4, <3>1 DEF LeftOK
  <2> QED
    BY <2>2, <2>5, <2>6, <2>7 DEF ProcInv
<1>6. CASE MatchRow
  <2>1. LogInv'
    BY <1>6, BeginType, Zenon DEF MatchRow
  <2>2. FilesTypeOK'
    BY <1>6, UnchangedType DEF MatchRow
  <2>3. PICK r \in Rows :
          /\ left[r] > 0
          /\ \/ /\ stmt' = [stmt EXCEPT !.row = r, !.image = r, !.txn = nextTxn]
                /\ UNCHANGED histVars
             \/ \E n \in Rows :
                  /\ stmt' = [stmt EXCEPT !.row = r, !.image = n, !.txn = nextTxn]
                  /\ home' = [home EXCEPT ![n] = F]
                  /\ SetFate({n}, "updating")
    BY <1>6 DEF MatchRow, Fresh
  <2>4. /\ stmt' \in Stmt /\ stmt'.row = r /\ stmt'.image \in Rows
        /\ stmt'.op = stmt.op /\ stmt'.table = stmt.table
    BY <1>1, <2>3 DEF Stmt
  <2>5. HistoryTypeOK'
    <3>1. F \in File
      BY <1>2, <1>6 DEF MatchRow, InScan
    <3>2. CASE UNCHANGED histVars
      BY <3>2 DEF histVars, ProcInv, HistoryTypeOK
    <3>3. CASE \E n \in Rows : home' = [home EXCEPT ![n] = F] /\ SetFate({n}, "updating")
      BY <3>1, <3>3, FateType DEF ProcInv, HistoryTypeOK, Fate
    <3> QED
      BY <2>3, <3>2, <3>3
  <2>6. ProcessTypeOK'
    BY <1>6, <2>4 DEF MatchRow, ProcInv, ProcessTypeOK, PC, sessionVars, scanVars, redoVars
  <2>7. StmtOK' /\ LeftOK'
    BY <1>6, <2>3, <2>4 DEF MatchRow, ProcInv, StmtOK, LeftOK,
                      InTable, InInsert, InScan, InRow, scanVars
  <2> QED
    BY <2>1, <2>2, <2>5, <2>6, <2>7 DEF ProcInv
<1>7. CASE LogRow
  <2>1. LogInv'
    <3>1. wal_write(stmt.txn, stmt.op, stmt.table, stmt.image)
      BY <1>7, Zenon DEF LogRow
    <3>2. stmt.table \in Tables /\ stmt.image \in Rows /\ stmt.op \in RecordType
      BY <1>2, <1>4, <1>7 DEF LogRow, InScan, InRow, RecordType
    <3> QED
      BY <1>1, <3>1, <3>2, WriteType
  <2>2. FilesTypeOK'
    BY <1>7, UnchangedType DEF LogRow
  <2>3. ProcInv'
    BY <1>7 DEF LogRow, ProcInv, ProcessTypeOK, PC, HistoryTypeOK, StmtOK, LeftOK,
                InTable, InInsert, InScan, InRow, sessionVars, scanVars, redoVars, histVars
  <2> QED
    BY <2>1, <2>2, <2>3
<1>8. CASE LogRowCommit
  <2>1. LogInv'
    BY <1>1, <1>8, CommitType, Zenon DEF LogRowCommit
  <2>2. FilesTypeOK'
    BY <1>8, UnchangedType DEF LogRowCommit
  <2>3. /\ stmt' \in Stmt /\ stmt'.row = stmt.row /\ stmt'.image = stmt.image
        /\ stmt'.op = stmt.op /\ stmt'.table = stmt.table
    BY <1>1, <1>8 DEF LogRowCommit, Stmt
  <2>4. ProcInv'
    BY <1>8, <2>3 DEF LogRowCommit, ProcInv, ProcessTypeOK, PC, HistoryTypeOK, StmtOK, LeftOK,
                InTable, InInsert, InScan, InRow, sessionVars, scanVars, redoVars, histVars
  <2> QED
    BY <2>1, <2>2, <2>4
<1>9. CASE DeleteRow \/ UpdateRow
  <2>1. LogInv'
    BY <1>9 DEF DeleteRow, UpdateRow, walVars, LogInv, WalTypeOK, InsertRecordsOK, Fault, CanFail
  <2>2. FilesTypeOK'
    BY <1>9, UnchangedType DEF DeleteRow, UpdateRow
  <2>3. pc = "row_commit" /\ pc' = "scan" /\ InRow
    BY <1>9 DEF DeleteRow, UpdateRow, InRow
  <2>4. HistoryTypeOK'
    BY <1>9, FateType DEF DeleteRow, UpdateRow, ProcInv, HistoryTypeOK, Fate
  <2>5. mem' \in Copies /\ left' \in Copies /\ dirty' \in BOOLEAN
    BY <1>4, <1>9, <2>3 DEF DeleteRow, UpdateRow, ProcInv, ProcessTypeOK
  <2>6. gone' \subseteq Rows
    BY <1>4, <1>9, <2>3 DEF DeleteRow, UpdateRow, Taken, ProcInv, ProcessTypeOK
  <2>7. ProcessTypeOK'
    BY <1>9, <2>3, <2>5, <2>6 DEF DeleteRow, UpdateRow, ProcInv, ProcessTypeOK, PC,
                            sessionVars, redoVars
  <2>8. LeftOK'
    <3>1. /\ left' = MinusOne(left, stmt.row)
          /\ mem' \in {MinusOne(mem, stmt.row), PlusOne(MinusOne(mem, stmt.row), stmt.image)}
      BY <1>9 DEF DeleteRow, UpdateRow
    <3>2. /\ mem \in Copies /\ left \in Copies /\ stmt.row \in Rows /\ stmt.image \in Rows
          /\ \A r \in Rows : left[r] <= mem[r]
      BY <1>4, <2>3 DEF ProcInv, ProcessTypeOK, LeftOK
    <3>3. \A r \in Rows : MinusOne(left, stmt.row)[r] <= MinusOne(mem, stmt.row)[r]
      BY <3>2 DEF Copies, MinusOne
    <3>4. \A r \in Rows : MinusOne(left, stmt.row)[r]
                            <= PlusOne(MinusOne(mem, stmt.row), stmt.image)[r]
      BY <1>4, <2>3, <3>2, <3>3 DEF Copies, MinusOne, PlusOne
    <3> QED
      BY <3>1, <3>3, <3>4 DEF LeftOK
  <2>9. StmtOK'
    BY <1>9, <2>3 DEF DeleteRow, UpdateRow, ProcInv, StmtOK, InTable, InInsert, InScan, InRow
  <2> QED
    BY <2>1, <2>2, <2>4, <2>7, <2>8, <2>9 DEF ProcInv
<1>10. CASE CloseTable
  <2>1. LogInv'
    <3>1. UNCHANGED walVars /\ (UNCHANGED faults \/ Fault("page_write"))
      BY <1>10, Zenon DEF CloseTable
    <3> QED
      BY <3>1 DEF walVars, LogInv, WalTypeOK, InsertRecordsOK, Fault, CanFail
  <2>2. FilesTypeOK'
    <3>1. StoreRows(F, mem) => rows' \in [File -> Copies]
      BY <1>2, <1>10, StoreType DEF CloseTable, InScan, ProcInv, ProcessTypeOK, FilesTypeOK
    <3> QED
      BY <1>10, <3>1 DEF CloseTable, FilesTypeOK
  <2>3. HistoryTypeOK'
    <3>1. home' = home /\ \E written \in BOOLEAN : FateAtClose(written)
      BY <1>10, Zenon DEF CloseTable
    <3> QED
      BY <3>1 DEF FateAtClose, ProcInv, HistoryTypeOK, Fate
  <2>4. ProcessTypeOK'
    BY <1>3, <1>10 DEF CloseTable, EndStmt, ProcInv, ProcessTypeOK, PC, sessionVars, redoVars
  <2>5. StmtOK' /\ LeftOK'
    BY <1>3, <1>10 DEF CloseTable, EndStmt, StmtOK, LeftOK, Copies,
                       InTable, InInsert, InScan, InRow
  <2> QED
    BY <2>1, <2>2, <2>3, <2>4, <2>5 DEF ProcInv
<1> QED
  BY <1>5, <1>6, <1>7, <1>8, <1>9, <1>10 DEF RowSteps

\* CREATE TABLE, DROP TABLE, CREATE DATABASE and USE.
LEMMA DdlType ==
  ASSUME LogInv, FilesTypeOK, ProcInv,
         CreateTable \/ DropTable \/ CreateDb \/ UseDb \/ DdlSteps
  PROVE  LogInv' /\ FilesTypeOK' /\ ProcInv'
<1>1. NoStmt \in Stmt /\ NoRows \in Copies /\ \A t \in Tables : <<curDb, t>> \in File
  BY CopiesType DEF NoStmt, Stmt, NoRows, Copies, File, ProcInv, ProcessTypeOK
<1>2. InTable => F \in File
  BY DEF ProcInv, StmtOK, F, File, ProcessTypeOK
<1>3. \A f \in File : StoreRows(f, NoRows) => rows' \in [File -> Copies]
  BY <1>1, StoreType DEF FilesTypeOK
<1>4. LogInv'
  <2>1. UNCHANGED walVars /\ (UNCHANGED faults \/ \E k \in FaultKind : Fault(k))
    BY DEF CreateTable, DropTable, CreateDb, UseDb, DdlSteps, CreateSchema, CreateCatalog,
           DropSchema, DropCatalog, UseDbWrite, FaultKind
  <2> QED
    BY <2>1 DEF walVars, LogInv, WalTypeOK, InsertRecordsOK, Fault, CanFail
<1>5. CASE CreateTable
  <2>1. FilesTypeOK'
    BY <1>1, <1>3, <1>5 DEF CreateTable, CreateData, FilesTypeOK
  <2>2. /\ \/ \E t \in Tables : /\ stmt' = [NoStmt EXCEPT !.op = "CREATE TABLE", !.table = t]
                                /\ pc' = "create_schema"
           \/ pc' = "idle" /\ stmt' = NoStmt
        /\ UNCHANGED <<sessionVars, scanVars, redoVars, sessions, histVars>>
    BY <1>5 DEF CreateTable, EndStmt
  <2>3. stmt' \in Stmt /\ (pc' = "create_schema" => stmt'.table \in Tables)
    BY <1>1, <2>2 DEF NoStmt, Stmt, StatementKind
  <2>4. ProcInv'
    BY <2>2, <2>3 DEF ProcInv, ProcessTypeOK, PC, HistoryTypeOK, StmtOK, LeftOK,
                InTable, InInsert, InScan, InRow, sessionVars, scanVars, redoVars, histVars
  <2> QED
    BY <1>4, <2>1, <2>4
<1>6. CASE DropTable
  <2>1. FilesTypeOK'
    BY <1>1, <1>3, <1>6 DEF DropTable, RemoveData, FilesTypeOK
  <2>2. PICK t \in Tables : stmt' = [NoStmt EXCEPT !.op = "DROP TABLE", !.table = t]
    BY <1>6 DEF DropTable
  <2>3. stmt' \in Stmt /\ stmt'.table \in Tables
    BY <1>1, <2>2 DEF NoStmt, Stmt, StatementKind
  <2>4. HistoryTypeOK'
    BY <1>6, FateType DEF DropTable, ProcInv, HistoryTypeOK, Fate
  <2>5. ProcInv'
    BY <1>6, <2>3, <2>4 DEF DropTable, ProcInv, ProcessTypeOK, PC, StmtOK, LeftOK,
                InTable, InInsert, InScan, InRow, sessionVars, scanVars, redoVars
  <2> QED
    BY <1>4, <2>1, <2>5
<1>7. CASE CreateDb
  <2>1. FilesTypeOK'
    BY <1>7 DEF CreateDb, MakeDb, FilesTypeOK
  <2>2. ProcInv'
    BY <1>7 DEF CreateDb, ProcInv, ProcessTypeOK, PC, HistoryTypeOK, StmtOK, LeftOK,
                InTable, InInsert, InScan, InRow, sessionVars, scanVars, redoVars, histVars
  <2> QED
    BY <1>4, <2>1, <2>2
<1>8. CASE UseDb \/ UseDbWrite
  <2>1. FilesTypeOK' /\ curDb' \in Dbs
    BY <1>8 DEF UseDb, UseDbWrite, SetCurFile, FilesTypeOK, ProcInv, ProcessTypeOK, sessionVars
  <2>2. ProcInv'
    BY <1>8, <2>1 DEF UseDb, UseDbWrite, Ready, ProcInv, ProcessTypeOK, PC, HistoryTypeOK,
                StmtOK, LeftOK,
                InTable, InInsert, InScan, InRow, sessionVars, scanVars, redoVars, histVars
  <2> QED
    BY <1>4, <2>1, <2>2
<1>9. CASE CreateSchema \/ CreateCatalog \/ DropSchema \/ DropCatalog
  <2>1. InTable
    BY <1>9 DEF CreateSchema, CreateCatalog, DropSchema, DropCatalog, InTable
  <2>2. FilesTypeOK'
    BY <1>2, <1>9, <2>1 DEF CreateSchema, CreateCatalog, DropSchema, DropCatalog, save_schema,
           catalog_add, RemoveSchema, catalog_remove, fileVars, FilesTypeOK
  <2>3. /\ (pc' \in {"create_catalog", "drop_catalog"} /\ stmt' = stmt) \/ EndStmt
        /\ UNCHANGED <<sessionVars, scanVars, redoVars, sessions, histVars>>
    BY <1>9 DEF CreateSchema, CreateCatalog, DropSchema, DropCatalog
  <2>4. ProcInv'
    BY <1>1, <2>1, <2>3 DEF EndStmt, ProcInv, ProcessTypeOK, PC, HistoryTypeOK, StmtOK, LeftOK,
                InTable, InInsert, InScan, InRow, sessionVars, scanVars, redoVars, histVars
  <2> QED
    BY <1>4, <2>2, <2>4
<1> QED
  BY <1>5, <1>6, <1>7, <1>8, <1>9 DEF DdlSteps

\* The invariant holds of the empty data directory, and every step keeps it.
LEMMA TypeInvInductive ==
  /\ Init => TypeInv
  /\ TypeInv /\ [Next]_vars => TypeInv'
<1>1. ASSUME Init PROVE TypeInv
  <2>1. NoStmt \in Stmt /\ NoRows \in Copies /\ \A r \in Rows : NoRows[r] = 0
    BY DEF NoStmt, Stmt, NoRows, Copies
  <2>2. WalTypeOK /\ InsertRecordsOK
    BY <1>1 DEF Init, WalInit, WalTypeOK, InsertRecordsOK
  <2>3. FilesTypeOK
    BY <1>1, <2>1 DEF Init, FilesInit, FilesTypeOK
  <2>4. ProcessTypeOK
    BY <1>1, <2>1 DEF Init, NoSession, ProcessTypeOK, PC
  <2>5. HistoryTypeOK
    BY <1>1 DEF Init, HistoryTypeOK, Fate
  <2>6. StmtOK /\ LeftOK
    BY <1>1, <2>1 DEF Init, NoSession, StmtOK, LeftOK, InTable, InInsert, InScan, InRow
  <2> QED
    BY <2>2, <2>3, <2>4, <2>5, <2>6 DEF TypeInv, TypeOK
<1>2. ASSUME TypeInv, [Next]_vars PROVE TypeInv'
  <2>1. LogInv /\ FilesTypeOK /\ ProcInv
    BY <1>2, TypeInvParts
  <2>2. CASE UNCHANGED vars
    BY <2>1, <2>2 DEF vars, sessionVars, scanVars, redoVars, histVars, walVars, fileVars,
       LogInv, WalTypeOK, InsertRecordsOK, FilesTypeOK, ProcInv, ProcessTypeOK, HistoryTypeOK,
       StmtOK, LeftOK, InTable, InInsert, InScan, InRow, TypeInv, TypeOK
  <2>3. CASE Next
    <3>1. (LogInv' /\ FilesTypeOK' /\ ProcInv') \/ UNCHANGED vars
      BY <2>1, <2>3, MainType, InsertType, RowType, DdlType, Zenon
         DEF Next, NewStatement, Progress, Closed
    <3> QED
      BY <2>2, <3>1 DEF TypeInv, TypeOK, LogInv, ProcInv
  <2> QED
    BY <1>2, <2>2, <2>3
<1> QED
  BY <1>1, <1>2

(* Type correctness: whatever the tables, the rows, the sizes of recovery's  *)
(* arrays, the failures and the crashes, the log, the files and the locals   *)
(* of the process stay what the code takes them to be, and the loop of       *)
(* UPDATE / DELETE never takes a row from a page that does not have it.      *)
THEOREM TypeCorrect == Spec => []TypeOK
<1>1. TypeInv => TypeOK
  BY DEF TypeInv
<1> QED
  BY <1>1, TypeInvInductive, PTL DEF Spec

(* The current database exists, in a running process and for the next one,   *)
(* wherever USE is interrupted: the invariant is inductive by itself.         *)
THEOREM CurrentDatabase == Spec => []CurrentDbExists
<1>1. Init => CurrentDbExists
  BY DEF Init, FilesInit, CurrentDbExists
<1>2. ASSUME CurrentDbExists, [Next]_vars PROVE CurrentDbExists'
  <2>1. CASE Start
    BY <1>2, <2>1 DEF Start, MakeDb, RestartDb, CurrentDbExists
  <2>2. CASE Exit \/ Crash
    BY <1>2, <2>2 DEF Exit, Crash, EndSession, fileVars, CurrentDbExists
  <2>3. CASE Recovery \/ Begin \/ Commit \/ StartInsert \/ InsertSteps \/ OpenTable \/ RowSteps
    <3>1. /\ UNCHANGED <<dbs, curFile, curDb>>
          /\ pc # "down"
      <4>1. CASE Recovery
        BY <4>1 DEF Recovery, RecoverNothing, RecoverScan, Redo, redo_insert, Checkpoint,
                    fileVars, sessionVars
      <4>2. CASE Begin \/ Commit \/ StartInsert \/ InsertSteps
        BY <4>2 DEF Begin, Commit, StartInsert, InsertSteps, InsertTooLong, InsertLog,
                    InsertNoTable, InsertTable, InsertCommit, Ready, fileVars, sessionVars
      <4>3. CASE OpenTable \/ RowSteps
        BY <4>3 DEF OpenTable, RowSteps, MatchRow, LogRow, LogRowCommit, DeleteRow, UpdateRow,
                    CloseTable, Ready, fileVars, sessionVars
      <4> QED
        BY <2>3, <4>1, <4>2, <4>3
    <3> QED
      BY <1>2, <3>1 DEF CurrentDbExists
  <2>4. CASE CreateTable \/ DropTable \/ CreateSchema \/ CreateCatalog \/ DropSchema \/ DropCatalog
    <3>1. UNCHANGED <<dbs, curFile, curDb>> /\ pc # "down"
      BY <2>4 DEF CreateTable, CreateData, DropTable, RemoveData, CreateSchema, save_schema,
                  CreateCatalog, catalog_add, DropSchema, RemoveSchema, DropCatalog,
                  catalog_remove, Ready, fileVars, sessionVars
    <3> QED
      BY <1>2, <3>1 DEF CurrentDbExists
  <2>5. CASE CreateDb \/ UseDb \/ UseDbWrite
    BY <1>2, <2>5, FilesAssumption
       DEF CreateDb, MakeDb, UseDb, UseDbWrite, SetCurFile, Ready, sessionVars, CurrentDbExists
  <2>6. CASE UNCHANGED vars
    BY <1>2, <2>6 DEF vars, fileVars, sessionVars, CurrentDbExists
  <2> QED
    BY <1>2, <2>1, <2>2, <2>3, <2>4, <2>5, <2>6
       DEF Next, NewStatement, Progress, DdlSteps, Closed
<1> QED
  BY <1>1, <1>2, PTL DEF Spec

\* A start and the ends of a process touch no file of a table; faults only grow.
LEMMA FilesStep ==
  ASSUME TypeInv, [Next]_vars
  PROVE  /\ faults \in Nat /\ sessions \in Nat /\ faults' \in {faults, faults + 1}
         /\ Start => sessions' = sessions + 1 /\ pc' = "recover" /\ pc = "down"
         /\ ~Start => sessions' = sessions
<1>1. faults \in Nat /\ sessions \in Nat
  BY DEF TypeInv, TypeOK, WalTypeOK, ProcessTypeOK
<1>2. Start => sessions' = sessions + 1 /\ pc' = "recover" /\ pc = "down"
  BY DEF Start
<1>3. ~Start => sessions' = sessions
  BY DEF Next, NewStatement, Progress, Recovery, InsertSteps, RowSteps, DdlSteps, Closed,
     RecoverNothing, RecoverScan, Redo, Checkpoint, Exit, Crash, Begin, Commit, StartInsert,
     InsertTooLong, InsertLog, InsertNoTable, InsertTable, InsertCommit, OpenTable, MatchRow,
     LogRow, LogRowCommit, DeleteRow, UpdateRow, CloseTable, CreateTable, DropTable, CreateDb,
     UseDb, CreateSchema, CreateCatalog, DropSchema, DropCatalog, UseDbWrite, vars
<1>4. faults' \in {faults, faults + 1}
  <2>1. \A rec : \A sync : write_record(rec, sync) => faults' \in {faults, faults + 1}
    BY DEF write_record, Fault
  <2>2. /\ wal_begin => faults' \in {faults, faults + 1}
        /\ \A txn : wal_commit(txn) => faults' \in {faults, faults + 1}
        /\ \A txn, type, table, row : wal_write(txn, type, table, row) => faults' \in {faults, faults + 1}
    BY <2>1, Zenon DEF wal_begin, wal_commit, wal_write
  <2>3. CASE Begin \/ Commit \/ StartInsert \/ InsertLog \/ InsertCommit \/ MatchRow \/ LogRow
             \/ LogRowCommit
    <3>1. \/ wal_begin \/ UNCHANGED faults
          \/ \E txn : wal_commit(txn)
          \/ \E txn, type, table, row : wal_write(txn, type, table, row)
      BY <2>3, Zenon DEF Begin, Commit, StartInsert, InsertLog, InsertCommit, MatchRow, LogRow,
         LogRowCommit
    <3> QED
      BY <2>2, <3>1
  <2>4. CASE Start \/ Recovery \/ Exit \/ Crash
    BY <2>4 DEF Start, Recovery, RecoverNothing, RecoverScan, Redo, redo_insert, Checkpoint, Exit,
       Crash, LoseTail, Fault
  <2>5. CASE \/ InsertTooLong \/ InsertNoTable \/ InsertTable \/ OpenTable \/ DeleteRow \/ UpdateRow
             \/ CloseTable \/ CreateTable \/ DropTable \/ CreateDb \/ UseDb \/ DdlSteps
             \/ UNCHANGED vars
    BY <2>5 DEF InsertTooLong, InsertNoTable, InsertTable, OpenTable, DeleteRow, UpdateRow,
       CloseTable, CreateTable, DropTable, CreateDb, UseDb, DdlSteps, CreateSchema, CreateCatalog,
       DropSchema, DropCatalog, UseDbWrite, vars, Fault
  <2> QED
    BY <2>3, <2>4, <2>5 DEF Next, NewStatement, Progress, InsertSteps, RowSteps, Closed
<1> QED
  BY <1>1, <1>2, <1>3, <1>4

Creating == {"create_schema", "create_catalog"}
Dropping == {"drop_schema", "drop_catalog"}

\* FilesAgree is inductive.
LEMMA FilesAgreeStep ==
  ASSUME TypeInv, FilesAgree, [Next]_vars
  PROVE  FilesAgree'
<1>1. /\ faults \in Nat /\ sessions \in Nat /\ faults' \in {faults, faults + 1}
      /\ Start => sessions' = sessions + 1 /\ pc' = "recover" /\ pc = "down"
      /\ ~Start => sessions' = sessions
  BY FilesStep
<1>2. SUFFICES ASSUME faults' = 0, sessions' <= 1 PROVE FilesAgree'
  BY DEF FilesAgree
<1>3. faults = 0 /\ sessions <= 1 /\ (Start => sessions = 0)
  BY <1>1, <1>2
<1>4. CASE Start
  BY <1>1, <1>3, <1>4 DEF Start, MakeDb, FilesAgree
<1>5. CASE Exit \/ Crash
  BY <1>1, <1>3, <1>5 DEF Exit, Crash, EndSession, fileVars, FilesAgree, Start
<1>6. CASE CreateTable
  <2>1. PICK t \in Tables : /\ CreateData(<<curDb, t>>) /\ curDb' = curDb
                            /\ \/ stmt'.table = t /\ pc' = "create_schema"
                               \/ Fault("create")
    BY <1>6 DEF CreateTable, sessionVars, NoStmt
  <2>2. ~Fault("create")
    BY <1>2, <1>3 DEF Fault
  <2>3. F' = <<curDb, t>> /\ pc' = "create_schema"
    BY <2>1, <2>2 DEF F
  <2>4. pc = "idle" /\ ~Start
    BY <1>6 DEF CreateTable, Ready, Start
  <2> QED
    BY <1>1, <1>3, <2>1, <2>3, <2>4 DEF CreateData, FilesAgree
<1>7. CASE CreateSchema \/ CreateCatalog
  <2>1. F' = F \/ pc' = "idle"
    BY <1>7 DEF CreateSchema, CreateCatalog, EndStmt, F, sessionVars
  <2>2. ~Fault("create")
    BY <1>2, <1>3 DEF Fault
  <2>3. ~Start
    BY <1>7 DEF CreateSchema, CreateCatalog, Start
  <2> QED
    BY <1>1, <1>3, <1>7, <2>1, <2>2, <2>3
       DEF CreateSchema, CreateCatalog, save_schema, catalog_add, EndStmt, FilesAgree
<1>8. CASE DropTable
  <2>1. PICK t \in Tables : /\ RemoveData(<<curDb, t>>) /\ curDb' = curDb
                            /\ stmt'.table = t /\ pc' = "drop_schema"
    BY <1>8 DEF DropTable, sessionVars, NoStmt
  <2>2. F' = <<curDb, t>>
    BY <2>1 DEF F
  <2>3. pc = "idle" /\ ~Start
    BY <1>8 DEF DropTable, Ready, Start
  <2> QED
    BY <1>1, <1>3, <2>1, <2>2, <2>3 DEF RemoveData, FilesAgree
<1>9. CASE DropSchema \/ DropCatalog
  <2>1. F' = F \/ pc' = "idle"
    BY <1>9 DEF DropSchema, DropCatalog, EndStmt, F, sessionVars
  <2>2. ~Start
    BY <1>9 DEF DropSchema, DropCatalog, Start
  <2> QED
    BY <1>1, <1>3, <1>9, <2>1, <2>2
       DEF DropSchema, DropCatalog, RemoveSchema, catalog_remove, EndStmt, FilesAgree
<1>10. ASSUME \/ Recovery \/ Begin \/ Commit \/ StartInsert \/ InsertSteps \/ OpenTable \/ RowSteps
              \/ CreateDb \/ UseDb \/ UseDbWrite
       PROVE  FilesAgree'
  <2>1. /\ UNCHANGED <<dataFiles, schemas, catalog>> /\ pc # "down" /\ pc' # "down"
        /\ pc \notin Creating \cup Dropping /\ pc' \notin Creating \cup Dropping
    <3>1. CASE Recovery
      BY <3>1 DEF Recovery, RecoverNothing, RecoverScan, Redo, redo_insert, Checkpoint, fileVars,
         Creating, Dropping
    <3>2. CASE Begin \/ Commit \/ StartInsert \/ InsertSteps
      BY <3>2 DEF Begin, Commit, StartInsert, InsertSteps, InsertTooLong, InsertLog, InsertNoTable,
         InsertTable, InsertCommit, Ready, EndStmt, fileVars, Creating, Dropping
    <3>3. CASE OpenTable \/ RowSteps
      BY <3>3 DEF OpenTable, RowSteps, MatchRow, LogRow, LogRowCommit, DeleteRow, UpdateRow,
         CloseTable, Ready, EndStmt, fileVars, Creating, Dropping
    <3>4. CASE CreateDb \/ UseDb \/ UseDbWrite
      BY <3>4 DEF CreateDb, MakeDb, UseDb, UseDbWrite, SetCurFile, Ready, Creating, Dropping
    <3> QED
      BY <1>10, <3>1, <3>2, <3>3, <3>4
  <2>2. ~Start
    BY <2>1 DEF Start
  <2> QED
    BY <1>1, <1>3, <2>1, <2>2 DEF FilesAgree, Creating, Dropping
<1>11. CASE UNCHANGED vars
  BY <1>3, <1>11 DEF vars, sessionVars, fileVars, F, FilesAgree
<1> QED
  BY <1>4, <1>5, <1>6, <1>7, <1>8, <1>9, <1>10, <1>11
     DEF Next, NewStatement, Progress, DdlSteps, Closed

(* In the first session, until something fails, the three files of a table   *)
(* agree whenever a statement has ended: CREATE TABLE and DROP TABLE leave    *)
(* no table without schema, without catalog line, or with one too many.      *)
THEOREM FilesInStep == Spec => []CatalogAgrees
<1>1. Init => FilesAgree
  BY DEF Init, FilesInit, FilesAgree
<1>2. FilesAgree => CatalogAgrees
  BY DEF FilesAgree, CatalogAgrees
<1> QED
  BY <1>1, <1>2, TypeInvInductive, FilesAgreeStep, PTL DEF Spec

-----------------------------------------------------------------------------
(* An acknowledged row is on its page: DiskInv is inductive while page writes *)
(* do not fail.                                                             *)

\* What the theorem assumes of the failures.
PagesWritten == "page_write" \notin Faults

-----------------------------------------------------------------------------
(* Where the INSERT records of the log come from.                           *)

OldInserts == \A i \in 1..Len(log)' : log'[i].type = "INSERT" =>
                \E j \in 1..Len(log) : log[j] = log'[i]

\* write_record adds the record it is given, a torn one, or nothing.
LEMMA WrittenRecord ==
  ASSUME LogInv, NEW rec \in Appendable, NEW sync \in BOOLEAN, write_record(rec, sync),
         NEW i \in 1..Len(log)', log'[i].type = "INSERT"
  PROVE  (\E j \in 1..Len(log) : log[j] = log'[i]) \/ log'[i] = rec
<1>1. PICK x \in Appendable : /\ log' = log \/ log' = Append(log, x)
                              /\ x = rec \/ x.type # "INSERT"
  <2>1. log' \in {log, Append(log, TornRecord), Append(log, rec)}
    BY DEF write_record
  <2>2. TornRecord.type # "INSERT"
    BY DEF TornRecord
  <2> QED
    BY <2>1, <2>2, TornIsRecord
<1>2. log \in Seq(WALRecord)
  BY DEF LogInv, WalTypeOK
<1>3. CASE log' = log
  BY <1>3
<1>4. CASE log' = Append(log, x)
  BY <1>1, <1>2, <1>4
<1> QED
  BY <1>1, <1>3, <1>4

\* BEGIN and COMMIT records and the records of UPDATE and DELETE are no INSERTs.
LEMMA OtherRecord ==
  ASSUME LogInv, NEW rec \in Appendable, NEW sync \in BOOLEAN, write_record(rec, sync),
         rec.type # "INSERT"
  PROVE  OldInserts
  BY WrittenRecord DEF OldInserts

\* A crash and a truncation only take records.
LEMMA ShorterLog ==
  ASSUME LogInv, wal_truncate \/ (\E inFlight \in BOOLEAN : LoseTail(inFlight)) \/ log' = log
  PROVE  OldInserts
<1>1. CASE wal_truncate
  BY <1>1 DEF wal_truncate, OldInserts
<1>2. CASE log' = log
  BY <1>2 DEF OldInserts
<1>3. CASE \E inFlight \in BOOLEAN : LoseTail(inFlight)
  <2>1. PICK n \in synced..Len(log) :
          log' \in {SubSeq(log, 1, n), Append(SubSeq(log, 1, n), TornRecord)}
    BY <1>3 DEF LoseTail
  <2>2. n \in 0..Len(log) /\ log \in Seq(WALRecord) /\ TornRecord.type # "INSERT"
    BY <2>1 DEF LogInv, WalTypeOK, TornRecord
  <2>3. /\ SubSeq(log, 1, n) \in Seq(WALRecord) /\ Len(SubSeq(log, 1, n)) = n
        /\ \A i \in 1..n : SubSeq(log, 1, n)[i] = log[i]
    <3>1. \A i \in 1..n : log[i] \in WALRecord
      BY <2>2
    <3> QED
      BY <2>2, <3>1, SubSeqProperties
  <2> QED
    BY <2>1, <2>2, <2>3 DEF OldInserts
<1> QED
  BY <1>1, <1>2, <1>3

\* Only INSERT adds an INSERT record, that of its own row.
LEMMA StepInserts ==
  ASSUME TypeInv, [Next]_vars,
         NEW i \in 1..Len(log)', log'[i].type = "INSERT"
  PROVE  \/ \E j \in 1..Len(log) : log[j] = log'[i]
         \/ pc = "ins_log" /\ log'[i].row = stmt.row
<1>1. LogInv /\ FilesTypeOK /\ ProcInv
  BY TypeInvParts
<1>2. stmt.txn \in Nat /\ currentTxn \in Nat
  BY <1>1 DEF ProcInv, ProcessTypeOK, Stmt
<1>3. CASE InsertLog
  <2>1. write_record(NewRecord(stmt.txn, "INSERT", stmt.table, stmt.row), TRUE)
    BY <1>3, Zenon DEF InsertLog, wal_write
  <2>2. pc = "ins_log" /\ stmt.row \in Rows /\ stmt.table \in Tables
    BY <1>1, <1>3 DEF InsertLog, ProcInv, StmtOK, InInsert, InTable
  <2>3. /\ NewRecord(stmt.txn, "INSERT", stmt.table, stmt.row) \in Appendable
        /\ NewRecord(stmt.txn, "INSERT", stmt.table, stmt.row).row = stmt.row
    BY <1>1, <1>2, <2>2 DEF NewRecord, Appendable, WALRecord, RecordType, LogInv, WalTypeOK
  <2>4. (\E j \in 1..Len(log) : log[j] = log'[i]) \/ log'[i].row = stmt.row
    BY <1>1, <2>1, <2>3, WrittenRecord
  <2> QED
    BY <2>2, <2>4
<1>4. SUFFICES ASSUME ~InsertLog PROVE OldInserts
  BY <1>3 DEF OldInserts
<1>5. wal_begin => OldInserts
  <2>1. /\ NewRecord(nextTxn, "BEGIN", None, None) \in Appendable
        /\ NewRecord(nextTxn, "BEGIN", None, None).type # "INSERT"
    BY <1>1 DEF NewRecord, Appendable, WALRecord, RecordType, LogInv, WalTypeOK
  <2>2. wal_begin => write_record(NewRecord(nextTxn, "BEGIN", None, None), FALSE)
    BY Zenon DEF wal_begin
  <2> QED
    BY <1>1, <2>1, <2>2, OtherRecord
<1>6. ASSUME NEW txn \in Nat, wal_commit(txn) PROVE OldInserts
  <2>1. /\ NewRecord(txn, "COMMIT", None, None) \in Appendable
        /\ NewRecord(txn, "COMMIT", None, None).type # "INSERT"
    BY <1>1 DEF NewRecord, Appendable, WALRecord, RecordType, LogInv, WalTypeOK
  <2>2. write_record(NewRecord(txn, "COMMIT", None, None), TRUE)
    BY <1>6, Zenon DEF wal_commit
  <2> QED
    BY <1>1, <2>1, <2>2, OtherRecord
<1>7. CASE LogRow
  <2>1. write_record(NewRecord(stmt.txn, stmt.op, stmt.table, stmt.image), TRUE)
    BY <1>7, Zenon DEF LogRow, wal_write
  <2>2. stmt.image \in Rows /\ stmt.table \in Tables /\ stmt.op \in {"UPDATE", "DELETE"}
    BY <1>1, <1>7 DEF LogRow, ProcInv, StmtOK, InRow, InScan, InTable
  <2>3. /\ NewRecord(stmt.txn, stmt.op, stmt.table, stmt.image) \in Appendable
        /\ NewRecord(stmt.txn, stmt.op, stmt.table, stmt.image).type # "INSERT"
    BY <1>1, <1>2, <2>2 DEF NewRecord, Appendable, WALRecord, RecordType, LogInv, WalTypeOK
  <2> QED
    BY <1>1, <2>1, <2>3, OtherRecord
<1>8. CASE Begin \/ MatchRow
  BY <1>5, <1>8, Zenon DEF Begin, MatchRow
<1>9. CASE StartInsert
  <2>1. wal_begin \/ log' = log
    BY <1>9, Zenon DEF StartInsert, walVars
  <2> QED
    BY <1>1, <1>5, <2>1, ShorterLog
<1>10. CASE Commit
  BY <1>2, <1>6, <1>10, Zenon DEF Commit
<1>11. CASE InsertCommit \/ LogRowCommit
  BY <1>2, <1>6, <1>11, Zenon DEF InsertCommit, LogRowCommit
<1>12. CASE RecoverNothing \/ Checkpoint
  <2>1. wal_truncate \/ log' = log
    BY <1>12, Zenon DEF RecoverNothing, Checkpoint, walVars
  <2> QED
    BY <1>1, <2>1, ShorterLog
<1>13. CASE Crash
  <2> DEFINE inFlight == pc \in {"idle", "ins_log", "ins_commit", "scan", "row_log", "row_commit"}
  <2>1. LoseTail(inFlight)
    BY <1>13, Zenon DEF Crash
  <2>2. inFlight \in BOOLEAN
    OBVIOUS
  <2> HIDE DEF inFlight
  <2> QED
    BY <1>1, <2>1, <2>2, ShorterLog
<1>14. CASE log' = log
  BY <1>1, <1>14, ShorterLog
<1>15. ASSUME \/ Start \/ RecoverScan \/ Redo \/ Exit \/ InsertTooLong \/ InsertNoTable
              \/ InsertTable \/ OpenTable \/ DeleteRow \/ UpdateRow \/ CloseTable
              \/ CreateTable \/ DropTable \/ CreateDb \/ UseDb \/ DdlSteps \/ UNCHANGED vars
       PROVE  log' = log
  BY <1>15 DEF Start, wal_open, RecoverScan, Redo, Exit, wal_close, InsertTooLong,
       InsertNoTable, InsertTable, OpenTable, DeleteRow, UpdateRow, CloseTable, CreateTable,
       DropTable, CreateDb, UseDb, DdlSteps, CreateSchema, CreateCatalog, DropSchema,
       DropCatalog, UseDbWrite, vars, walVars
<1> QED
  BY <1>4, <1>7, <1>8, <1>9, <1>10, <1>11, <1>12, <1>13, <1>14, <1>15
     DEF Next, NewStatement, Progress, Recovery, InsertSteps, RowSteps, Closed

-----------------------------------------------------------------------------
(* NewNowhere.                                                              *)

\* No statement takes back that a row was submitted.
LEMMA StepFate ==
  ASSUME TypeInv, [Next]_vars, NEW r \in Rows, fate'[r] = "new"
  PROVE  fate[r] = "new"
<1>1. fate \in [Rows -> Fate]
  BY DEF TypeInv, TypeOK, HistoryTypeOK
<1>2. CASE Exit \/ Crash
  BY <1>1, <1>2 DEF Exit, Crash, FateAtEnd
<1>3. CASE Begin \/ Commit \/ StartInsert \/ InsertTooLong \/ InsertNoTable \/ InsertCommit \/ DropTable
  BY <1>1, <1>3 DEF Begin, Commit, StartInsert, InsertTooLong, InsertNoTable, InsertCommit, DropTable,
                    SetFate
<1>4. CASE MatchRow \/ DeleteRow \/ UpdateRow \/ CloseTable
  <2>1. CASE MatchRow
    <3>1. fate' = fate \/ \E n \in Rows : SetFate({n}, "updating")
      BY <2>1 DEF MatchRow, Fresh, histVars
    <3> QED
      BY <1>1, <3>1 DEF SetFate
  <2>2. CASE DeleteRow \/ UpdateRow
    <3>1. \E S : SetFate(S, "deleting") \/ SetFate(S, "failed")
      BY <2>2 DEF DeleteRow, UpdateRow
    <3> QED
      BY <1>1, <3>1 DEF SetFate
  <2>3. CASE CloseTable
    <3>1. \E written \in BOOLEAN : FateAtClose(written)
      BY <2>3, Zenon DEF CloseTable
    <3> QED
      BY <1>1, <3>1 DEF FateAtClose
  <2> QED
    BY <1>4, <2>1, <2>2, <2>3
<1>5. ASSUME \/ Start \/ Recovery \/ InsertLog \/ InsertTable \/ OpenTable \/ LogRow
             \/ LogRowCommit \/ CreateTable \/ CreateDb \/ UseDb \/ DdlSteps \/ UNCHANGED vars
      PROVE  fate' = fate
  BY <1>5 DEF Start, Recovery, RecoverNothing, RecoverScan, Redo, Checkpoint, InsertLog,
       InsertTable, OpenTable, LogRow, LogRowCommit, CreateTable, CreateDb, UseDb, DdlSteps,
       CreateSchema, CreateCatalog, DropSchema, DropCatalog, UseDbWrite, vars, histVars
<1> QED
  BY <1>2, <1>3, <1>4, <1>5 DEF Next, NewStatement, Progress, InsertSteps, RowSteps, Closed

\* A page write puts on a page: at redo, rows of INSERT records; at INSERT, its
\* row; at the end of UPDATE and DELETE, the rows of the frame.
LEMMA StepRows ==
  ASSUME TypeInv, [Next]_vars, NEW f \in File, NEW r \in Rows, rows'[f][r] > 0
  PROVE  \/ rows[f][r] > 0
         \/ \E i \in 1..Len(log) : log[i].type = "INSERT" /\ log[i].row = r
         \/ InInsert /\ stmt.row = r
         \/ InScan /\ mem[r] > 0
<1>1. LogInv /\ FilesTypeOK /\ ProcInv
  BY TypeInvParts
<1>2. rows \in [File -> Copies]
  BY <1>1 DEF FilesTypeOK
<1>3. CASE Redo
  <2>1. CASE rows' = rows
    BY <2>1
  <2>2. CASE ~(rows' = rows)
    <3>1. /\ MustRedo /\ CanOpen(RedoTarget)
          /\ StoreRows(RedoTarget, PlusOne(rows[RedoTarget], log[redoIdx].row))
      BY <1>3, <2>2 DEF Redo, redo_insert, fileVars
    <3>2. redoIdx \in 1..Len(log) /\ log[redoIdx].type = "INSERT" /\ log[redoIdx].row \in Rows
      BY <1>1, <1>3, <3>1 DEF Redo, MustRedo, Redoable, Kept, Readable, LogInv, InsertRecordsOK
    <3>3. RedoTarget \in File
      BY <1>1, <3>1 DEF CanOpen, table_exists, FilesTypeOK
    <3> QED
      BY <1>2, <3>1, <3>2, <3>3 DEF StoreRows, PlusOne, Copies
  <2> QED
    BY <2>1, <2>2
<1>4. CASE InsertTable
  <2>1. InInsert /\ stmt.row \in Rows /\ F \in File
    BY <1>1, <1>4 DEF InsertTable, ProcInv, StmtOK, InInsert, InTable, F, File, ProcessTypeOK
  <2>2. rows' = rows \/ rows' = [rows EXCEPT ![F] = PlusOne(rows[F], stmt.row)]
    BY <1>4, Zenon DEF InsertTable, StoreRows
  <2>3. \A i \in Rows : PlusOne(rows[F], stmt.row)[i] > 0 => rows[F][i] > 0 \/ i = stmt.row
    BY <1>2, <2>1 DEF PlusOne, Copies
  <2> QED
    BY <1>2, <2>1, <2>2, <2>3
<1>5. CASE CloseTable
  <2>1. InScan /\ F \in File
    BY <1>1, <1>5 DEF CloseTable, ProcInv, StmtOK, InScan, InTable, F, File, ProcessTypeOK
  <2> QED
    BY <1>2, <1>5, <2>1 DEF CloseTable, StoreRows
<1>6. CASE CreateTable \/ DropTable
  <2>1. \E g : rows' = [rows EXCEPT ![g] = NoRows]
    BY <1>6 DEF CreateTable, CreateData, DropTable, RemoveData, StoreRows
  <2>2. rows'[f] \in {rows[f], NoRows}
    BY <1>2, <2>1
  <2>3. ~(NoRows[r] > 0)
    BY DEF NoRows
  <2> QED
    BY <2>2, <2>3
<1>7. ASSUME \/ Start \/ RecoverNothing \/ RecoverScan \/ Checkpoint \/ Exit \/ Crash \/ Begin
             \/ Commit \/ StartInsert \/ InsertTooLong \/ InsertLog \/ InsertNoTable
             \/ InsertCommit \/ OpenTable \/ MatchRow \/ LogRow \/ LogRowCommit \/ DeleteRow
             \/ UpdateRow \/ CreateDb \/ UseDb \/ DdlSteps \/ UNCHANGED vars
      PROVE  rows' = rows
  BY <1>7 DEF Start, MakeDb, RecoverNothing, RecoverScan, Checkpoint, Exit, Crash, Begin, Commit,
       StartInsert, InsertTooLong, InsertLog, InsertNoTable, InsertCommit, OpenTable, MatchRow,
       LogRow, LogRowCommit, DeleteRow, UpdateRow, CreateDb, UseDb, SetCurFile, DdlSteps,
       CreateSchema, save_schema, CreateCatalog, catalog_add, DropSchema, RemoveSchema,
       DropCatalog, catalog_remove, UseDbWrite, vars, fileVars
<1> QED
  BY <1>3, <1>4, <1>5, <1>6, <1>7
     DEF Next, NewStatement, Progress, Recovery, InsertSteps, RowSteps, Closed

\* The rows of an explicit transaction are those INSERT adds to it.
LEMMA StepTxnRows ==
  ASSUME [Next]_vars, NEW r \in txnRows'
  PROVE  r \in txnRows \/ (InInsert /\ r = stmt.row)
<1>1. CASE InsertTable
  BY <1>1 DEF InsertTable, InInsert
<1>2. ASSUME Exit \/ Crash \/ Begin \/ Commit PROVE FALSE
  BY <1>2 DEF Exit, Crash, EndSession, Begin, Commit
<1>3. ASSUME \/ Start \/ Recovery \/ StartInsert \/ InsertTooLong \/ InsertLog \/ InsertNoTable
             \/ InsertCommit \/ OpenTable \/ RowSteps \/ CreateTable \/ DropTable
             \/ CreateDb \/ UseDb \/ DdlSteps \/ UNCHANGED vars
      PROVE  txnRows' = txnRows
  BY <1>3 DEF Start, Recovery, RecoverNothing, RecoverScan, Redo, Checkpoint, StartInsert,
       InsertTooLong, InsertLog, InsertNoTable, InsertCommit, OpenTable, RowSteps, MatchRow,
       LogRow, LogRowCommit, DeleteRow, UpdateRow, CloseTable, CreateTable, DropTable, CreateDb,
       UseDb, DdlSteps, CreateSchema, CreateCatalog, DropSchema, DropCatalog, UseDbWrite,
       vars, sessionVars
<1> QED
  BY <1>1, <1>2, <1>3 DEF Next, NewStatement, Progress, InsertSteps, Closed

\* Nothing of a row nobody submitted ever reaches a page, the log or a transaction.
LEMMA NewNowhereStep ==
  ASSUME TypeInv, DiskInv, [Next]_vars
  PROVE  NewNowhere'
<1>1. SUFFICES ASSUME NEW r \in Rows, fate'[r] = "new"
               PROVE  /\ r \notin txnRows'
                      /\ \A f \in File : rows'[f][r] = 0
                      /\ \A i \in 1..Len(log)' : log'[i].type = "INSERT" => log'[i].row # r
  BY DEF NewNowhere
<1>2. fate[r] = "new"
  BY <1>1, StepFate
<1>3. /\ r \notin txnRows
      /\ \A f \in File : rows[f][r] = 0
      /\ \A i \in 1..Len(log) : log[i].type = "INSERT" => log[i].row # r
      /\ InInsert => r # stmt.row
      /\ InScan => ~(mem[r] > 0)
  BY <1>2 DEF DiskInv, NewNowhere, InsertOK, ScanOK
<1>4. r \notin txnRows'
  BY <1>3, StepTxnRows
<1>5. ASSUME NEW f \in File PROVE rows'[f][r] = 0
  <2>1. rows'[f][r] \in Nat
    BY TypeInvInductive DEF TypeInv, TypeOK, FilesTypeOK, Copies
  <2>2. rows[f][r] = 0
    BY <1>3
  <2> QED
    BY <1>3, <2>1, <2>2, StepRows
<1>6. ASSUME NEW i \in 1..Len(log)', log'[i].type = "INSERT" PROVE log'[i].row # r
  BY <1>3, <1>6, StepInserts DEF InInsert
<1> QED
  BY <1>4, <1>5, <1>6

-----------------------------------------------------------------------------
(* The other parts of DiskInv.                                              *)

RunningOK == InsertOK /\ ScanOK /\ UpdatingOK /\ DroppedGone

\* Outside INSERT, UPDATE, DELETE and DROP TABLE there is nothing to show of a
\* running statement.
LEMMA QuietStep ==
  ASSUME ~InInsert', ~InScan', pc' \notin {"drop_schema", "drop_catalog"},
         \A r \in Rows : fate'[r] # "updating"
  PROVE  RunningOK'
  BY DEF RunningOK, InsertOK, ScanOK, UpdatingOK, DroppedGone

\* No row is being updated while no UPDATE runs.
LEMMA NoneUpdating ==
  ASSUME DiskInv, ~InScan, NEW r \in Rows
  PROVE  fate[r] # "updating"
  BY DEF DiskInv, UpdatingOK

\* Promises are kept by a step that makes none and takes no file and no row.
LEMMA KeptPromise ==
  ASSUME DiskInv, home' = home,
         \A f \in File : CanOpen(f) => CanOpen(f)',
         \A f \in File, r \in Rows : rows[f][r] > 0 => rows'[f][r] > 0,
         \A r \in Rows : Promised(r)' => OnDisk(r), FilesTypeOK
  PROVE  PromisedOnDisk'
<1>1. \A r \in Rows : OnDisk(r) => home[r] \in File
  BY DEF OnDisk, CanOpen, table_exists, FilesTypeOK
<1> QED
  BY <1>1, Zenon DEF PromisedOnDisk, OnDisk

\* A process starts, recovers and ends.
LEMMA MainDisk ==
  ASSUME TypeInv, DiskInv, Start \/ Recovery \/ Exit \/ Crash
  PROVE  PromisedOnDisk' /\ RunningOK'
<1>1. LogInv /\ FilesTypeOK /\ ProcInv
  BY TypeInvParts
<1>2. \A r \in Rows : Promised(r) => OnDisk(r)
  BY DEF DiskInv, PromisedOnDisk
<1>3. CASE Start \/ RecoverNothing \/ RecoverScan \/ Checkpoint
  <2>1. /\ UNCHANGED <<dataFiles, schemas, rows, txnRows, home, fate>>
        /\ ~InScan /\ ~InInsert' /\ ~InScan' /\ pc' \notin {"drop_schema", "drop_catalog"}
    BY <1>3 DEF Start, MakeDb, RecoverNothing, RecoverScan, Checkpoint, fileVars, histVars,
                sessionVars, InScan, InRow, InInsert
  <2>2. PromisedOnDisk'
    BY <1>2, <2>1 DEF PromisedOnDisk, Promised, OnDisk, CanOpen, table_exists
  <2> QED
    BY <2>1, <2>2, NoneUpdating, QuietStep
<1>4. CASE Redo
  <2>1. /\ UNCHANGED <<dataFiles, schemas, txnRows, home, fate>>
        /\ ~InScan /\ ~InInsert' /\ ~InScan' /\ pc' \notin {"drop_schema", "drop_catalog"}
    BY <1>4 DEF Redo, redo_insert, fileVars, histVars, sessionVars, InScan, InRow, InInsert
  <2>2. \A f \in File, r \in Rows : rows[f][r] > 0 => rows'[f][r] > 0
    <3>1. CASE rows' = rows
      BY <3>1
    <3>2. CASE ~(rows' = rows)
      <4>1. StoreRows(RedoTarget, PlusOne(rows[RedoTarget], log[redoIdx].row))
        BY <1>4, <3>2 DEF Redo, redo_insert, fileVars
      <4> QED
        BY <1>1, <4>1 DEF StoreRows, PlusOne, FilesTypeOK, Copies
    <3> QED
      BY <3>1, <3>2
  <2>3. \A r \in Rows : Promised(r)' => OnDisk(r)
    BY <1>2, <2>1 DEF Promised
  <2>4. PromisedOnDisk'
    BY <1>1, <2>1, <2>2, <2>3, KeptPromise DEF CanOpen, table_exists
  <2> QED
    BY <2>1, <2>4, NoneUpdating, QuietStep
<1>5. CASE Exit \/ Crash
  <2>1. /\ UNCHANGED <<dataFiles, schemas, rows, home>> /\ txnRows' = {}
        /\ ~InInsert' /\ ~InScan' /\ pc' \notin {"drop_schema", "drop_catalog"}
    BY <1>5 DEF Exit, Crash, EndSession, fileVars, InScan, InRow, InInsert
  <2>2. \A r \in Rows : /\ fate'[r] # "updating"
                        /\ fate'[r] \in {"acked", "updated"} => fate[r] \in {"acked", "updated"}
    BY <1>5 DEF Exit, Crash, FateAtEnd
  <2>3. PromisedOnDisk'
    BY <1>2, <2>1, <2>2 DEF PromisedOnDisk, Promised, OnDisk, CanOpen, table_exists
  <2> QED
    BY <2>1, <2>2, <2>3, QuietStep
<1> QED
  BY <1>3, <1>4, <1>5 DEF Recovery

\* BEGIN, COMMIT and INSERT.
LEMMA InsertDisk ==
  ASSUME TypeInv, DiskInv, PagesWritten, Begin \/ Commit \/ StartInsert \/ InsertSteps
  PROVE  PromisedOnDisk' /\ RunningOK'
<1>1. LogInv /\ FilesTypeOK /\ ProcInv
  BY TypeInvParts
<1>2. \A r \in Rows : Promised(r) => OnDisk(r)
  BY DEF DiskInv, PromisedOnDisk
<1>3. InInsert => /\ stmt.row \in Rows /\ F \in File
                  /\ home[stmt.row] = F /\ fate[stmt.row] = "open"
                  /\ pc = "ins_commit" => OnDisk(stmt.row)
  BY <1>1 DEF ProcInv, StmtOK, InInsert, InTable, F, File, ProcessTypeOK, DiskInv, InsertOK
<1>4. fate \in [Rows -> Fate] /\ home \in [Rows -> File \cup {NoHome}]
  BY <1>1 DEF ProcInv, HistoryTypeOK
<1>5. CASE Begin \/ Commit \/ InsertTooLong \/ InsertNoTable \/ InsertCommit
  <2>1. /\ UNCHANGED <<dataFiles, schemas, rows, home>> /\ ~InScan
        /\ ~InInsert' /\ ~InScan' /\ pc' \notin {"drop_schema", "drop_catalog"}
    BY <1>5 DEF Begin, Commit, InsertTooLong, InsertNoTable, InsertCommit, EndStmt, Ready,
                fileVars, histVars, InScan, InRow, InInsert
  <2>2. \A r \in Rows : fate'[r] # "updating"
    BY <1>4, <1>5, <2>1, NoneUpdating DEF Begin, Commit, InsertTooLong, InsertNoTable,
       InsertCommit, SetFate, histVars
  <2>3. \A r \in Rows : Promised(r)' => OnDisk(r)
    <3>1. CASE Begin
      BY <1>2, <1>4, <3>1 DEF Begin, Promised, SetFate
    <3>2. CASE Commit
      BY <1>2, <1>4, <3>2 DEF Commit, Promised, SetFate
    <3>3. CASE InsertTooLong \/ InsertNoTable
      BY <1>2, <1>4, <3>3 DEF InsertTooLong, InsertNoTable, Promised, SetFate, sessionVars
    <3>4. CASE InsertCommit
      BY <1>2, <1>3, <1>4, <3>4 DEF InsertCommit, InInsert, Promised, SetFate, sessionVars
    <3> QED
      BY <1>5, <3>1, <3>2, <3>3, <3>4
  <2>4. PromisedOnDisk'
    BY <2>1, <2>3 DEF PromisedOnDisk, OnDisk, CanOpen, table_exists
  <2> QED
    BY <2>1, <2>2, <2>4, QuietStep
<1>6. CASE StartInsert
  <2>1. PICK t \in Tables, r \in Rows :
          /\ fate[r] = "new"
          /\ home' = [home EXCEPT ![r] = <<curDb, t>>]
          /\ SetFate({r}, "open")
          /\ stmt' \in {[NoStmt EXCEPT !.op = "INSERT", !.table = t, !.row = r,
                                       !.txn = currentTxn],
                        [NoStmt EXCEPT !.op = "INSERT", !.table = t, !.row = r,
                                       !.txn = nextTxn, !.auto = TRUE]}
    BY <1>6 DEF StartInsert, Fresh
  <2>2. /\ UNCHANGED <<dataFiles, schemas, rows, curDb, txnRows>>
        /\ pc = "idle" /\ pc' = "ins_log"
    BY <1>6 DEF StartInsert, Ready, fileVars, sessionVars
  <2>3. stmt'.table = t /\ stmt'.row = r
    BY <2>1 DEF NoStmt
  <2>4. r \notin txnRows
    BY <2>1 DEF DiskInv, NewNowhere
  <2>5. PromisedOnDisk'
    BY <1>2, <1>4, <2>1, <2>2, <2>4
       DEF PromisedOnDisk, Promised, OnDisk, CanOpen, table_exists, SetFate
  <2>6. InsertOK'
    BY <1>4, <2>1, <2>2, <2>3 DEF InsertOK, InInsert, F, SetFate
  <2>7. \A x \in Rows : fate'[x] # "updating"
    BY <1>4, <2>1, <2>2, NoneUpdating DEF InScan, InRow, SetFate
  <2> QED
    BY <2>2, <2>5, <2>6, <2>7 DEF RunningOK, ScanOK, UpdatingOK, DroppedGone, InScan, InRow
<1>7. CASE InsertLog
  <2>1. /\ UNCHANGED <<dataFiles, schemas, rows, curDb, txnRows, stmt, home, fate>>
        /\ pc = "ins_log" /\ pc' = "ins_table"
    BY <1>7 DEF InsertLog, fileVars, sessionVars, histVars
  <2>2. PromisedOnDisk'
    BY <1>2, <2>1 DEF PromisedOnDisk, Promised, OnDisk, CanOpen, table_exists
  <2> QED
    BY <1>3, <2>1, <2>2, NoneUpdating
       DEF RunningOK, InsertOK, ScanOK, UpdatingOK, DroppedGone, InScan, InRow, InInsert, F
<1>8. CASE InsertTable
  <2>1. /\ UNCHANGED <<dataFiles, schemas, curDb, home, fate>>
        /\ pc = "ins_table" /\ CanOpen(F) /\ InInsert /\ ~InScan
        /\ ~InScan' /\ pc' \notin {"drop_schema", "drop_catalog"}
    BY <1>8 DEF InsertTable, EndStmt, histVars, InScan, InRow, InInsert
  <2>2. StoreRows(F, PlusOne(rows[F], stmt.row))
    BY <1>8 DEF InsertTable, PagesWritten, Fault, CanFail
  <2>3. \A f \in File, r \in Rows : rows[f][r] > 0 => rows'[f][r] > 0
    BY <1>1, <1>3, <2>1, <2>2 DEF StoreRows, PlusOne, FilesTypeOK, Copies
  <2>4. rows'[F][stmt.row] > 0
    BY <1>1, <1>3, <2>1, <2>2 DEF StoreRows, PlusOne, FilesTypeOK, Copies
  <2>5. \A r \in Rows : OnDisk(r) => OnDisk(r)'
    BY <1>1, <2>1, <2>3 DEF OnDisk, CanOpen, table_exists, FilesTypeOK
  <2>6. PICK x \in Rows : x = stmt.row
    BY <1>3, <2>1
  <2>7. OnDisk(x)'
    BY <1>3, <2>1, <2>4, <2>6 DEF OnDisk, CanOpen, table_exists
  <2>8. txnRows' \subseteq txnRows \cup {x}
    BY <1>8, <2>6 DEF InsertTable
  <2>9. PromisedOnDisk'
    BY <1>2, <2>1, <2>5, <2>7, <2>8 DEF PromisedOnDisk, Promised
  <2>10. InsertOK'
    <3>1. CASE stmt' = stmt
      BY <1>3, <2>1, <2>6, <2>7, <3>1 DEF InsertOK, InInsert, F
    <3>2. CASE pc' = "idle"
      BY <3>2 DEF InsertOK, InInsert
    <3> QED
      BY <1>8, <3>1, <3>2 DEF InsertTable, EndStmt
  <2> QED
    BY <2>1, <2>9, <2>10, NoneUpdating DEF RunningOK, ScanOK, UpdatingOK, DroppedGone
<1> QED
  BY <1>5, <1>6, <1>7, <1>8 DEF InsertSteps

\* UPDATE and DELETE work on a frame; closing the table writes it back.
LEMMA RowDisk ==
  ASSUME TypeInv, DiskInv, PagesWritten, OpenTable \/ RowSteps
  PROVE  PromisedOnDisk' /\ RunningOK'
<1>1. LogInv /\ FilesTypeOK /\ ProcInv
  BY TypeInvParts
<1>2. \A r \in Rows : Promised(r) => OnDisk(r)
  BY DEF DiskInv, PromisedOnDisk
<1>3. InScan => /\ F \in File /\ CanOpen(F)
                /\ stmt.op \in {"UPDATE", "DELETE"}
  BY <1>1 DEF ProcInv, StmtOK, InScan, InRow, InTable, F, File, ProcessTypeOK, DiskInv, ScanOK
<1>4. InScan => \A r \in Rows : /\ home[r] = F /\ Promised(r) /\ r \notin gone => mem[r] > 0
                                /\ mem[r] > 0 => fate[r] # "new"
                                /\ left[r] > 0 => fate[r] # "updating"
  BY DEF DiskInv, ScanOK
<1>5. \A r \in Rows : fate[r] = "updating" => InScan /\ home[r] = F /\ InFrame(r)
  BY DEF DiskInv, UpdatingOK
<1>6. /\ fate \in [Rows -> Fate] /\ home \in [Rows -> File \cup {NoHome}]
      /\ rows \in [File -> Copies] /\ mem \in Copies /\ left \in Copies
      /\ \A r \in Rows : left[r] <= mem[r]
  BY <1>1 DEF ProcInv, HistoryTypeOK, FilesTypeOK, ProcessTypeOK, LeftOK
<1>7. InRow => stmt.row \in Rows /\ stmt.image \in Rows /\ left[stmt.row] > 0 /\ mem[stmt.row] > 0
  <2>1. InRow => stmt.row \in Rows /\ stmt.image \in Rows /\ left[stmt.row] > 0
    BY <1>1 DEF ProcInv, StmtOK
  <2> QED
    BY <1>6, <2>1 DEF Copies
<1>8. CASE OpenTable
  <2>1. PICK kind \in {"UPDATE", "DELETE"}, t \in Tables :
          /\ CanOpen(<<curDb, t>>)
          /\ stmt' = [NoStmt EXCEPT !.op = kind, !.table = t]
          /\ mem' = rows[<<curDb, t>>] /\ left' = rows[<<curDb, t>>]
    BY <1>8 DEF OpenTable
  <2>2. /\ UNCHANGED <<dataFiles, schemas, rows, curDb, txnRows, home, fate>>
        /\ pc = "idle" /\ pc' = "scan" /\ dirty' = FALSE
    BY <1>8 DEF OpenTable, Ready, fileVars, sessionVars, histVars
  <2>3. F' = <<curDb, t>> /\ F' \in File
    BY <1>1, <2>1, <2>2 DEF F, NoStmt, File, ProcInv, ProcessTypeOK
  <2>4. PromisedOnDisk'
    BY <1>2, <2>2 DEF PromisedOnDisk, Promised, OnDisk, CanOpen, table_exists
  <2>5. \A r \in Rows : fate[r] # "updating"
    BY <2>2, NoneUpdating DEF InScan, InRow
  <2>6. \A r \in Rows : rows[<<curDb, t>>][r] > 0 => fate[r] # "new"
    BY <2>3 DEF DiskInv, NewNowhere
  <2>7. ScanOK'
    <3>1. CanOpen(F)' /\ mem' = rows'[F']
      BY <2>1, <2>2, <2>3 DEF CanOpen, table_exists
    <3>2. \A r \in Rows : home'[r] = F' /\ Promised(r)' => mem'[r] > 0
      BY <1>2, <2>1, <2>2, <2>3 DEF Promised, OnDisk
    <3>3. \A r \in Rows : mem'[r] > 0 => fate'[r] # "new"
      BY <2>1, <2>2, <2>6
    <3> QED
      BY <2>2, <2>5, <3>1, <3>2, <3>3 DEF ScanOK, InRow
  <2> QED
    BY <2>2, <2>4, <2>5, <2>7 DEF RunningOK, InsertOK, UpdatingOK, DroppedGone, InInsert
<1>9. CASE MatchRow
  <2>1. /\ UNCHANGED <<dataFiles, schemas, rows, curDb, txnRows, mem, left, dirty, gone>>
        /\ pc = "scan" /\ pc' = "row_log" /\ InScan /\ InScan' /\ InRow'
    BY <1>9 DEF MatchRow, fileVars, sessionVars, scanVars, InScan, InRow
  <2>2. F' = F
    BY <1>1, <1>9, <2>1 DEF MatchRow, F, ProcInv, ProcessTypeOK, Stmt
  <2>3. CASE UNCHANGED histVars
    <3>1. PICK r \in Rows : left[r] > 0 /\ stmt' = [stmt EXCEPT !.row = r, !.image = r, !.txn = nextTxn]
      BY <1>6, <1>9, <2>3 DEF MatchRow, histVars, SetFate, Fresh
    <3>2. stmt'.image = r /\ mem[r] > 0
      BY <1>1, <1>6, <3>1 DEF ProcInv, ProcessTypeOK, Stmt, Copies
    <3>3. PromisedOnDisk' /\ ScanOK'
      BY <1>2, <1>3, <1>4, <2>1, <2>2, <2>3, <3>2 DEF histVars, PromisedOnDisk, Promised, OnDisk,
         CanOpen, table_exists, ScanOK
    <3>4. UpdatingOK'
      BY <1>5, <2>1, <2>2, <2>3 DEF histVars, UpdatingOK, InFrame, InRow
    <3> QED
      BY <2>1, <3>3, <3>4 DEF RunningOK, InsertOK, DroppedGone, InInsert
  <2>4. CASE ~UNCHANGED histVars
    <3>1. PICK r \in Rows, n \in Rows :
            /\ fate[n] = "new" /\ stmt.op = "UPDATE"
            /\ stmt' = [stmt EXCEPT !.row = r, !.image = n, !.txn = nextTxn]
            /\ home' = [home EXCEPT ![n] = F] /\ SetFate({n}, "updating")
      BY <1>9, <2>4 DEF MatchRow, Fresh
    <3>2. stmt'.image = n /\ stmt'.op = "UPDATE"
      BY <1>1, <3>1 DEF ProcInv, ProcessTypeOK, Stmt
    <3>3. n \notin txnRows /\ ~(left[n] > 0)
      <4>1. n \notin txnRows /\ ~(mem[n] > 0)
        BY <1>4, <2>1, <3>1 DEF DiskInv, NewNowhere
      <4> QED
        BY <1>6, <4>1 DEF Copies
    <3>4. \A x \in Rows : Promised(x)' => Promised(x) /\ x # n
      BY <1>6, <2>1, <3>1, <3>3 DEF Promised, SetFate
    <3>5. PromisedOnDisk'
      BY <1>2, <1>6, <2>1, <3>1, <3>4 DEF PromisedOnDisk, OnDisk, CanOpen, table_exists
    <3>6. ScanOK'
      <4>1. CanOpen(F)'
        BY <1>3, <2>1, <2>2 DEF CanOpen, table_exists
      <4>2. \A x \in Rows : home'[x] = F' /\ Promised(x)' /\ x \notin gone' => mem'[x] > 0
        BY <1>4, <1>6, <2>1, <2>2, <3>1, <3>4
      <4>3. \A x \in Rows : /\ mem'[x] > 0 => fate'[x] # "new"
                            /\ left'[x] > 0 => fate'[x] # "updating"
        BY <1>4, <1>6, <2>1, <3>1, <3>3 DEF SetFate
      <4> QED
        BY <1>6, <3>1, <3>2, <4>1, <4>2, <4>3 DEF ScanOK, SetFate
    <3>7. UpdatingOK'
      BY <1>5, <1>6, <2>1, <2>2, <3>1, <3>2 DEF UpdatingOK, InFrame, InRow, SetFate
    <3> QED
      BY <2>1, <3>5, <3>6, <3>7 DEF RunningOK, InsertOK, DroppedGone, InInsert
  <2> QED
    BY <2>3, <2>4
<1>10. CASE LogRow \/ LogRowCommit
  <2>1. /\ UNCHANGED <<dataFiles, schemas, rows, curDb, txnRows, mem, left, dirty, gone, home, fate>>
        /\ pc' = "row_commit" /\ InScan /\ InRow /\ InScan' /\ InRow'
    BY <1>10 DEF LogRow, LogRowCommit, fileVars, sessionVars, scanVars, histVars, InScan, InRow
  <2>2. stmt'.table = stmt.table /\ stmt'.op = stmt.op /\ stmt'.image = stmt.image
    BY <1>1, <1>10 DEF LogRow, LogRowCommit, ProcInv, ProcessTypeOK, Stmt
  <2>3. F' = F
    BY <2>1, <2>2 DEF F
  <2>4. PromisedOnDisk' /\ ScanOK'
    BY <1>2, <1>3, <1>4, <2>1, <2>2, <2>3 DEF PromisedOnDisk, Promised, OnDisk,
       CanOpen, table_exists, DiskInv, ScanOK
  <2>5. UpdatingOK'
    BY <1>5, <2>1, <2>2, <2>3 DEF UpdatingOK, InFrame
  <2> QED
    BY <2>1, <2>4, <2>5 DEF RunningOK, InsertOK, DroppedGone, InInsert
<1>11. CASE DeleteRow \/ UpdateRow
  <2>1. /\ UNCHANGED <<dataFiles, schemas, rows, curDb, txnRows, stmt, home>>
        /\ pc' = "scan" /\ InScan /\ InRow /\ InScan'
        /\ left' = MinusOne(left, stmt.row)
    BY <1>11 DEF DeleteRow, UpdateRow, fileVars, sessionVars, InScan, InRow
  <2>2. \/ /\ dirty' = TRUE /\ gone' = gone
            /\ SetFate(Taken(stmt.row), "deleting")
            /\ \/ stmt.op = "DELETE" /\ mem' = MinusOne(mem, stmt.row)
               \/ stmt.op = "UPDATE" /\ mem' = PlusOne(MinusOne(mem, stmt.row), stmt.image)
         \/ /\ dirty' = dirty /\ gone' = gone \cup Taken(stmt.row)
            /\ SetFate({stmt.image}, "failed")
            /\ stmt.op = "UPDATE" /\ mem' = MinusOne(mem, stmt.row)
    BY <1>11 DEF DeleteRow, UpdateRow
  <2>3. F' = F
    BY <2>1 DEF F
  <2>4. \A r \in Rows : /\ r # stmt.row => mem'[r] >= mem[r]
                        /\ mem'[stmt.row] >= mem[stmt.row] - 1
                        /\ left'[r] <= left[r]
                        /\ mem'[r] > 0 => mem[r] > 0 \/ (stmt.op = "UPDATE" /\ r = stmt.image)
                        /\ mem[r] \in Nat /\ mem'[r] \in Nat
    BY <1>6, <1>7, <2>1, <2>2 DEF MinusOne, PlusOne, Copies
  <2>5. stmt.op = "UPDATE" => fate'[stmt.image] = "failed" \/ (mem'[stmt.image] > 0 /\ dirty')
    BY <1>6, <1>7, <2>1, <2>2 DEF MinusOne, PlusOne, Copies, SetFate
  <2>6. \A r \in Rows : /\ fate'[r] \in {fate[r], "deleting", "failed"}
                        /\ r \in Taken(stmt.row) => fate'[r] = "deleting" \/ r \in gone'
    BY <1>7, <2>1, <2>2 DEF SetFate
  <2>7. \A r \in Rows : /\ Promised(r)' => Promised(r)
                        /\ Promised(r)' /\ r \notin gone' => r \notin gone /\ r \notin Taken(stmt.row)
    BY <2>1, <2>6, <2>2 DEF Promised
  <2>8. PromisedOnDisk'
    BY <1>2, <2>1, <2>7 DEF PromisedOnDisk, OnDisk, CanOpen, table_exists
  <2>9. ScanOK'
    <3>1. CanOpen(F)'
      BY <1>3, <2>1, <2>3 DEF CanOpen, table_exists
    <3>2. ASSUME NEW r \in Rows, home[r] = F, Promised(r)', r \notin gone' PROVE mem'[r] > 0
      <4>1. mem[r] > 0 /\ Promised(r) /\ r \notin Taken(stmt.row)
        BY <1>4, <2>1, <2>7, <3>2
      <4>2. mem[r] \in Nat /\ mem'[r] \in Int
        BY <2>4
      <4>3. CASE r = stmt.row
        <5>1. mem[r] # 1
          BY <4>1, <4>3 DEF Taken, Promised
        <5> QED
          BY <2>4, <4>1, <4>2, <4>3, <5>1
      <4>4. CASE r # stmt.row
        BY <2>4, <4>1, <4>2, <4>4
      <4> QED
        BY <4>3, <4>4
    <3>3. ASSUME NEW r \in Rows, mem'[r] > 0 PROVE fate'[r] # "new"
      <4>1. CASE mem[r] > 0
        BY <1>4, <2>1, <2>6, <4>1
      <4>2. CASE stmt.op = "UPDATE" /\ r = stmt.image
        BY <2>1, <2>6, <4>2 DEF DiskInv, ScanOK
      <4> QED
        BY <2>4, <3>3, <4>1, <4>2
    <3>4. ASSUME NEW r \in Rows, left'[r] > 0 PROVE fate'[r] # "updating"
      <4>1. left[r] > 0
        BY <1>6, <1>7, <2>1, <2>4, <3>4 DEF MinusOne, Copies
      <4> QED
        BY <1>4, <2>1, <2>6, <4>1
    <3> QED
      BY <2>1, <2>3, <3>1, <3>2, <3>3, <3>4 DEF ScanOK, InRow
  <2>10. UpdatingOK'
    <3>1. SUFFICES ASSUME NEW r \in Rows, fate'[r] = "updating"
                   PROVE  InScan' /\ home'[r] = F' /\ InFrame(r)'
      BY DEF UpdatingOK
    <3>2. fate[r] = "updating" /\ r # stmt.row
      <4>1. fate[r] = "updating"
        BY <2>6, <3>1
      <4> QED
        BY <1>4, <1>7, <2>1, <4>1
    <3>3. mem'[r] > 0 /\ dirty'
      <4>1. (mem[r] > 0 /\ dirty) \/ (stmt.op = "UPDATE" /\ r = stmt.image)
        BY <1>5, <3>2 DEF InFrame
      <4>2. mem[r] \in Nat /\ mem'[r] \in Nat
        BY <2>4
      <4>3. CASE mem[r] > 0 /\ dirty
        <5>1. mem'[r] >= mem[r]
          BY <2>4, <3>2
        <5>2. dirty'
          BY <2>2, <4>3, Zenon
        <5> QED
          BY <4>2, <4>3, <5>1, <5>2
      <4>4. CASE stmt.op = "UPDATE" /\ r = stmt.image
        BY <2>5, <3>1, <4>4
      <4> QED
        BY <4>1, <4>3, <4>4
    <3> QED
      BY <1>5, <2>1, <2>3, <3>2, <3>3 DEF InFrame
  <2> QED
    BY <2>1, <2>8, <2>9, <2>10 DEF RunningOK, InsertOK, DroppedGone, InInsert
<1>12. CASE CloseTable
  <2>1. /\ UNCHANGED <<dataFiles, schemas, curDb, txnRows, home>>
        /\ pc = "scan" /\ InScan /\ ~InRow /\ pc' = "idle"
        /\ ~InInsert' /\ ~InScan' /\ pc' \notin {"drop_schema", "drop_catalog"}
    BY <1>12 DEF CloseTable, EndStmt, sessionVars, InScan, InRow, InInsert
  <2>2. PICK written \in BOOLEAN :
          /\ FateAtClose(written) /\ written = dirty
          /\ written => rows' = [rows EXCEPT ![F] = mem]
          /\ ~written => rows' = rows
    <3>1. dirty \in BOOLEAN
      BY <1>1 DEF ProcInv, ProcessTypeOK
    <3> QED
      BY <1>12, <3>1 DEF CloseTable, StoreRows, PagesWritten, Fault, CanFail
  <2>3. \A r \in Rows : fate'[r] = IF fate[r] = "deleting" THEN "deleted"
                                   ELSE IF fate[r] = "updating" THEN "updated"
                                   ELSE IF written /\ r \in gone THEN "lost" ELSE fate[r]
    BY <2>2 DEF FateAtClose
  <2>4. ASSUME NEW r \in Rows, Promised(r)' PROVE OnDisk(r)'
    <3>1. CASE fate[r] = "updating"
      <4>1. home[r] = F /\ mem[r] > 0 /\ written
        BY <1>5, <2>1, <2>2, <3>1 DEF InFrame
      <4> QED
        BY <1>3, <1>6, <2>1, <2>2, <4>1 DEF OnDisk, CanOpen, table_exists
    <3>2. CASE fate[r] # "updating"
      <4>1. Promised(r) /\ OnDisk(r) /\ (written => r \notin gone)
        BY <1>2, <2>1, <2>3, <2>4, <3>2 DEF Promised
      <4>2. home[r] \in File
        BY <1>1, <4>1 DEF OnDisk, CanOpen, table_exists, FilesTypeOK
      <4>3. home[r] = F /\ written => mem[r] > 0
        BY <1>4, <2>1, <4>1
      <4>4. CASE written
        BY <1>6, <2>1, <2>2, <4>1, <4>2, <4>3, <4>4 DEF OnDisk, CanOpen, table_exists
      <4>5. CASE ~written
        BY <2>1, <2>2, <4>1, <4>5 DEF OnDisk, CanOpen, table_exists
      <4> QED
        BY <4>4, <4>5
    <3> QED
      BY <3>1, <3>2
  <2>5. \A r \in Rows : fate'[r] # "updating"
    BY <2>3
  <2> QED
    BY <2>1, <2>4, <2>5, QuietStep DEF PromisedOnDisk
<1> QED
  BY <1>8, <1>9, <1>10, <1>11, <1>12 DEF RowSteps

\* CREATE TABLE, DROP TABLE, CREATE DATABASE and USE.
LEMMA DdlDisk ==
  ASSUME TypeInv, DiskInv, CreateTable \/ DropTable \/ CreateDb \/ UseDb \/ DdlSteps
  PROVE  PromisedOnDisk' /\ RunningOK'
<1>1. LogInv /\ FilesTypeOK /\ ProcInv
  BY TypeInvParts
<1>2. \A r \in Rows : Promised(r) => OnDisk(r) /\ home[r] \in File
  BY <1>1 DEF DiskInv, PromisedOnDisk, OnDisk, CanOpen, table_exists, FilesTypeOK
<1>3. /\ fate \in [Rows -> Fate] /\ rows \in [File -> Copies]
  BY <1>1 DEF ProcInv, HistoryTypeOK, FilesTypeOK
<1>4. /\ UNCHANGED <<txnRows, home>> /\ ~InScan /\ ~InScan' /\ ~InInsert'
  BY DEF CreateTable, DropTable, CreateDb, UseDb, DdlSteps, CreateSchema, CreateCatalog,
         DropSchema, DropCatalog, UseDbWrite, Ready, EndStmt, histVars, sessionVars,
         InScan, InRow, InInsert
<1>5. \A r \in Rows : fate[r] # "updating"
  BY <1>4, NoneUpdating
<1>6. CASE CreateTable
  <2>1. PICK t \in Tables : <<curDb, t>> \notin dataFiles /\ CreateData(<<curDb, t>>)
    BY <1>6 DEF CreateTable, table_exists
  <2>2. fate' = fate /\ pc' \notin {"drop_schema", "drop_catalog"}
    BY <1>6 DEF CreateTable, EndStmt, histVars
  <2>3. ASSUME NEW r \in Rows, Promised(r)' PROVE OnDisk(r)'
    <3>1. Promised(r) /\ OnDisk(r)
      BY <1>2, <1>4, <2>2, <2>3 DEF Promised
    <3>2. home[r] # <<curDb, t>>
      BY <2>1, <3>1 DEF OnDisk, CanOpen, table_exists
    <3> QED
      BY <1>2, <1>3, <1>4, <2>1, <3>1, <3>2
         DEF CreateData, StoreRows, OnDisk, CanOpen, table_exists
  <2> QED
    BY <1>4, <1>5, <2>2, <2>3, QuietStep DEF PromisedOnDisk
<1>7. CASE CreateDb \/ UseDb \/ UseDbWrite \/ CreateSchema \/ CreateCatalog \/ DropCatalog
  <2>1. /\ UNCHANGED <<dataFiles, rows, fate>> /\ schemas \subseteq schemas'
        /\ pc' \notin {"drop_schema", "drop_catalog"}
    BY <1>7 DEF CreateDb, MakeDb, UseDb, UseDbWrite, SetCurFile, CreateSchema, save_schema,
       CreateCatalog, catalog_add, DropCatalog, catalog_remove, Ready, EndStmt, fileVars, histVars
  <2>2. PromisedOnDisk'
    BY <1>2, <1>4, <2>1 DEF PromisedOnDisk, Promised, OnDisk, CanOpen, table_exists
  <2> QED
    BY <1>4, <1>5, <2>1, <2>2, QuietStep
<1>8. CASE DropTable
  <2>1. PICK t \in Tables :
          /\ RemoveData(<<curDb, t>>)
          /\ stmt' = [NoStmt EXCEPT !.op = "DROP TABLE", !.table = t]
          /\ SetFate({r \in Rows : /\ home[r] = <<curDb, t>>
                                   /\ fate[r] \in {"open", "acked", "updated"}}, "deleted")
    BY <1>8 DEF DropTable
  <2>2. curDb' = curDb
    BY <1>8 DEF DropTable, sessionVars
  <2>3. DroppedGone'
    BY <2>1, <2>2 DEF DroppedGone, F, NoStmt, RemoveData
  <2>4. ASSUME NEW r \in Rows, Promised(r)' PROVE OnDisk(r)'
    <3>1. Promised(r) /\ OnDisk(r) /\ home[r] # <<curDb, t>>
      BY <1>2, <1>3, <1>4, <2>1, <2>4 DEF Promised, SetFate
    <3> QED
      BY <1>2, <1>3, <1>4, <2>1, <3>1
         DEF RemoveData, StoreRows, OnDisk, CanOpen, table_exists
  <2>5. \A r \in Rows : fate'[r] # "updating"
    BY <1>3, <1>5, <2>1 DEF SetFate
  <2> QED
    BY <1>4, <2>3, <2>4, <2>5 DEF PromisedOnDisk, RunningOK, InsertOK, ScanOK, UpdatingOK
<1>9. CASE DropSchema
  <2>1. /\ UNCHANGED <<dataFiles, rows, fate, curDb, stmt>> /\ schemas' = schemas \ {F}
        /\ pc = "drop_schema"
    BY <1>9 DEF DropSchema, RemoveSchema, histVars, sessionVars
  <2>2. F \notin dataFiles
    BY <2>1 DEF DiskInv, DroppedGone
  <2>3. DroppedGone'
    BY <2>1, <2>2 DEF DroppedGone, F
  <2>4. PromisedOnDisk'
    BY <1>2, <1>4, <2>1, <2>2 DEF PromisedOnDisk, Promised, OnDisk, CanOpen, table_exists
  <2> QED
    BY <1>4, <1>5, <2>1, <2>3, <2>4 DEF RunningOK, InsertOK, ScanOK, UpdatingOK
<1> QED
  BY <1>6, <1>7, <1>8, <1>9 DEF DdlSteps

\* While page writes do not fail, every step keeps DiskInv.
LEMMA DiskInvInductive ==
  ASSUME PagesWritten
  PROVE  /\ Init => DiskInv
         /\ TypeInv /\ DiskInv /\ [Next]_vars => DiskInv'
<1>1. ASSUME Init PROVE DiskInv
  BY <1>1 DEF Init, WalInit, FilesInit, NoSession, NoRows, DiskInv, PromisedOnDisk, Promised,
     NewNowhere, InsertOK, ScanOK, UpdatingOK, DroppedGone, InInsert, InScan, InRow
<1>2. ASSUME TypeInv, DiskInv, [Next]_vars PROVE DiskInv'
  <2>1. NewNowhere'
    BY <1>2, NewNowhereStep
  <2>2. CASE UNCHANGED vars
    <3>1. PromisedOnDisk'
      BY <1>2, <2>2 DEF vars, fileVars, sessionVars, histVars, DiskInv, PromisedOnDisk,
         Promised, OnDisk, CanOpen, table_exists
    <3>2. InsertOK' /\ DroppedGone'
      BY <1>2, <2>2 DEF vars, fileVars, sessionVars, histVars, DiskInv, InsertOK, DroppedGone,
         OnDisk, CanOpen, table_exists, F, InInsert
    <3>3. ScanOK' /\ UpdatingOK'
      BY <1>2, <2>2 DEF vars, fileVars, sessionVars, histVars, scanVars, DiskInv, ScanOK,
         UpdatingOK, Promised, CanOpen, table_exists, F, InScan, InRow, InFrame
    <3> QED
      BY <2>1, <3>1, <3>2, <3>3 DEF DiskInv
  <2>3. CASE Next
    <3>1. (PromisedOnDisk' /\ RunningOK') \/ UNCHANGED vars
      BY <1>2, <2>3, MainDisk, InsertDisk, RowDisk, DdlDisk, Zenon
         DEF Next, NewStatement, Progress, Closed
    <3> QED
      BY <2>1, <2>2, <3>1 DEF DiskInv, RunningOK
  <2> QED
    BY <1>2, <2>2, <2>3
<1> QED
  BY <1>1, <1>2

(* Where an acknowledged row is.  While page writes do not fail, a row that  *)
(* INSERT, COMMIT or UPDATE acknowledged is on the page of its own table,    *)
(* which can be opened, until a statement takes it: whatever fails in the    *)
(* log, in recovery or in CREATE TABLE, wherever the process dies, and       *)
(* however small recovery's arrays are.  An UPDATE without room takes a row  *)
(* too, without saying so, when it writes the page for another row ("lost"); *)
(* until then, and when it does not, the row is promised like any other.     *)
THEOREM AcknowledgedRows ==
  ASSUME PagesWritten
  PROVE  Spec => []AckedOnDisk
<1>1. DiskInv => AckedOnDisk
  BY DEF DiskInv, PromisedOnDisk, Promised, OnDisk, AckedOnDisk
<1> QED
  BY <1>1, TypeInvInductive, DiskInvInductive, PTL DEF Spec
=============================================================================
