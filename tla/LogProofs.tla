------------------------------ MODULE LogProofs ------------------------------
(***************************************************************************)
(* What recovery relies on when it reads the log, and what it may do with    *)
(* it: LogWellFormed, CopiesBounded, AbortedNotRedone and WriteAhead, for    *)
(* every value of the constants.                                            *)
(***************************************************************************)
EXTENDS KernelDBProofs

-----------------------------------------------------------------------------
(* The readable part of the log after a step.                               *)

OldRecords == \A i \in Readable' : i \in Readable /\ log'[i] = log[i]

AddedRecord(rec) == \A i \in Readable' : \/ i \in Readable /\ log'[i] = log[i]
                                         \/ i = Len(log) + 1 /\ log'[i] = rec

UncommittedNext(t) == \A i \in Readable' : log'[i].type = "COMMIT" => log'[i].txn # t

\* What an unchanged log, a truncation and a crash leave was there before.
LEMMA ShorterReadable ==
  ASSUME LogInv, wal_truncate \/ (\E inFlight \in BOOLEAN : LoseTail(inFlight)) \/ log' = log
  PROVE  OldRecords
<1>1. CASE wal_truncate
  BY <1>1 DEF wal_truncate, OldRecords, Readable
<1>2. CASE log' = log
  BY <1>2 DEF OldRecords, Readable
<1>3. CASE \E inFlight \in BOOLEAN : LoseTail(inFlight)
  <2>1. PICK n \in synced..Len(log) :
          log' \in {SubSeq(log, 1, n), Append(SubSeq(log, 1, n), TornRecord)}
    BY <1>3 DEF LoseTail
  <2>2. n \in 0..Len(log) /\ n \in Nat /\ log \in Seq(WALRecord) /\ Len(log) \in Nat
    BY <2>1 DEF LogInv, WalTypeOK
  <2> DEFINE s == SubSeq(log, 1, n)
  <2>3. s \in Seq(WALRecord) /\ Len(s) = n /\ \A i \in 1..n : s[i] = log[i]
    <3>1. \A i \in 1..n : log[i] \in WALRecord
      BY <2>2
    <3> QED
      BY <2>2, <3>1, SubSeqProperties
  <2>4. /\ Len(log') \in {n, n + 1} /\ \A i \in 1..n : log'[i] = log[i]
        /\ Len(log') = n + 1 => log'[n + 1].type = "TORN"
    <3>1. CASE log' = s
      BY <2>2, <2>3, <3>1
    <3>2. CASE log' = Append(s, TornRecord)
      <4> HIDE DEF s
      <4> QED
        BY <2>2, <2>3, <3>2 DEF TornRecord
    <3> QED
      BY <2>1, <3>1, <3>2
  <2>5. ASSUME NEW i \in Readable' PROVE i \in 1..n
    BY <2>2, <2>4, <2>5 DEF Readable
  <2>6. ASSUME NEW i \in Readable' PROVE i \in Readable /\ log'[i] = log[i]
    <3>1. \A j \in 1..i : j \in 1..n /\ log'[j].type # "TORN"
      BY <2>2, <2>5, <2>6 DEF Readable
    <3>2. i \in 1..Len(log) /\ \A j \in 1..i : log[j].type # "TORN"
      BY <2>2, <2>4, <2>5, <3>1
    <3> QED
      BY <2>4, <2>5, <3>2 DEF Readable
  <2> QED
    BY <2>6 DEF OldRecords
<1> QED
  BY <1>1, <1>2, <1>3

\* write_record adds the record it is given, or nothing that can be read.
LEMMA WrittenReadable ==
  ASSUME LogInv, NEW rec \in WALRecord, NEW sync \in BOOLEAN, write_record(rec, sync)
  PROVE  AddedRecord(rec)
<1>1. /\ log' \in {log, Append(log, TornRecord), Append(log, rec)}
      /\ log \in Seq(WALRecord) /\ Len(log) \in Nat
  BY DEF write_record, LogInv, WalTypeOK
<1>2. CASE log' = log
  BY <1>2, ShorterReadable DEF OldRecords, AddedRecord
<1>3. ASSUME NEW x, log' = Append(log, x), x = rec \/ x.type = "TORN" PROVE AddedRecord(rec)
  <2>1. Len(log') = Len(log) + 1 /\ log'[Len(log) + 1] = x /\ \A i \in 1..Len(log) : log'[i] = log[i]
    BY <1>1, <1>3
  <2>2. ASSUME NEW i \in Readable', i \in 1..Len(log) PROVE i \in Readable /\ log'[i] = log[i]
    <3>1. \A j \in 1..i : j \in 1..Len(log) /\ log'[j].type # "TORN"
      BY <1>1, <2>2 DEF Readable
    <3> QED
      BY <2>1, <2>2, <3>1 DEF Readable
  <2>3. ASSUME NEW i \in Readable', i \notin 1..Len(log) PROVE i = Len(log) + 1 /\ log'[i] = rec
    <3>1. i = Len(log) + 1 /\ log'[i].type # "TORN"
      BY <1>1, <2>1, <2>3 DEF Readable
    <3> QED
      BY <1>3, <2>1, <3>1
  <2> QED
    BY <2>2, <2>3 DEF AddedRecord
<1> QED
  BY <1>1, <1>2, <1>3 DEF TornRecord

LogOrder == LsnsGrow /\ OneBegin /\ CommitLast

\* What holds of the log holds of a part of it.
LEMMA OrderOld ==
  ASSUME LogOrder, OldRecords
  PROVE  LogOrder' /\ \A t : Uncommitted(t) => UncommittedNext(t)
  BY DEF LogOrder, LsnsGrow, OneBegin, CommitLast, OldRecords, Uncommitted, UncommittedNext

\* And with a record behind it that has the next lsn, a new transaction if it
\* is a BEGIN, and a transaction without COMMIT if it is none.
LEMMA OrderAdded ==
  ASSUME LogOrder, Numbered, Len(log) \in Nat, NEW rec, AddedRecord(rec),
         rec.lsn = nextLsn, rec.type = "BEGIN" => rec.txn = nextTxn,
         nextTxn \in Nat, \A i \in Readable : log[i].txn \in Nat,
         rec.type # "COMMIT" => Uncommitted(rec.txn)
  PROVE  /\ LogOrder'
         /\ \A t : Uncommitted(t) /\ (rec.type = "COMMIT" => rec.txn # t) => UncommittedNext(t)
<1>1. Readable \subseteq 1..Len(log)
  BY DEF Readable
<1>2. ASSUME NEW i \in Readable', NEW j \in Readable', i < j
      PROVE  /\ i \in Readable /\ log'[i] = log[i]
             /\ (j \in Readable /\ log'[j] = log[j]) \/ log'[j] = rec
  <2>1. /\ (i \in Readable /\ log'[i] = log[i]) \/ i = Len(log) + 1
        /\ \/ j \in 1..Len(log) /\ j \in Readable /\ log'[j] = log[j]
           \/ j = Len(log) + 1 /\ log'[j] = rec
    BY <1>1 DEF AddedRecord
  <2>2. i # Len(log) + 1
    BY <1>2, <2>1
  <2> QED
    BY <2>1, <2>2
<1>3. LsnsGrow'
  <2>1. SUFFICES ASSUME NEW i \in Readable', NEW j \in Readable', i < j
                 PROVE  log'[i].lsn < log'[j].lsn
    BY DEF LsnsGrow
  <2>2. /\ i \in Readable /\ log'[i] = log[i]
        /\ (j \in Readable /\ log'[j] = log[j]) \/ log'[j] = rec
    BY <1>2, <2>1
  <2> QED
    BY <2>1, <2>2 DEF LogOrder, LsnsGrow, Numbered
<1>4. OneBegin'
  <2>1. SUFFICES ASSUME NEW i \in Readable', NEW j \in Readable', i < j,
                        log'[i].type = "BEGIN", log'[j].type = "BEGIN"
                 PROVE  log'[i].txn # log'[j].txn
    BY DEF OneBegin
  <2>2. /\ i \in Readable /\ log'[i] = log[i]
        /\ (j \in Readable /\ log'[j] = log[j]) \/ log'[j] = rec
    BY <1>2, <2>1
  <2>3. log[i].txn < nextTxn /\ log[i].txn \in Nat
    BY <2>2 DEF Numbered
  <2>4. log[i].txn # nextTxn
    BY <2>3
  <2> QED
    BY <2>1, <2>2, <2>4 DEF LogOrder, OneBegin
<1>5. CommitLast'
  <2>1. SUFFICES ASSUME NEW i \in Readable', NEW j \in Readable', i < j,
                        log'[i].type = "COMMIT", log'[i].txn = log'[j].txn
                 PROVE  log'[j].type = "COMMIT"
    BY DEF CommitLast
  <2>2. /\ i \in Readable /\ log'[i] = log[i]
        /\ (j \in Readable /\ log'[j] = log[j]) \/ log'[j] = rec
    BY <1>2, <2>1
  <2> QED
    BY <2>1, <2>2 DEF LogOrder, CommitLast, Uncommitted
<1>6. ASSUME NEW t, Uncommitted(t), rec.type = "COMMIT" => rec.txn # t
      PROVE  UncommittedNext(t)
  BY <1>6 DEF Uncommitted, UncommittedNext, AddedRecord
<1> QED
  BY <1>3, <1>4, <1>5, <1>6 DEF LogOrder

-----------------------------------------------------------------------------
(* The three operations that append, on a log whose ids are in order.       *)

Order == LogInv /\ LogOrder /\ Numbered

\* The types of the ids that are compared.
LEMMA IdTypes ==
  ASSUME LogInv
  PROVE  /\ Len(log) \in Nat /\ nextLsn \in Nat /\ nextTxn \in Nat
         /\ Readable \subseteq 1..Len(log)
         /\ \A i \in Readable : log[i] \in WALRecord /\ log[i].txn \in Nat /\ log[i].lsn \in Nat
<1>1. Readable \subseteq 1..Len(log) /\ Len(log) \in Nat /\ nextLsn \in Nat /\ nextTxn \in Nat
  BY DEF Readable, LogInv, WalTypeOK
<1>2. \A i \in 1..Len(log) : log[i] \in WALRecord
  BY DEF LogInv, WalTypeOK
<1> QED
  BY <1>1, <1>2 DEF WALRecord

\* The order of the log after write_record, whichever of its outcomes happens.
LEMMA WriteRecordOrder ==
  ASSUME Order, NEW rec \in WALRecord, NEW sync \in BOOLEAN, write_record(rec, sync),
         nextTxn' \in Nat, nextTxn' >= nextTxn, rec.txn < nextTxn',
         rec.lsn = nextLsn, rec.type = "BEGIN" => rec.txn = nextTxn,
         rec.type # "COMMIT" => Uncommitted(rec.txn)
  PROVE  /\ LogOrder' /\ Numbered' /\ AddedRecord(rec)
         /\ \A t : Uncommitted(t) /\ (rec.type = "COMMIT" => rec.txn # t) => UncommittedNext(t)
<1>1. AddedRecord(rec)
  BY WrittenReadable DEF Order
<1>2. /\ LogOrder'
      /\ \A t : Uncommitted(t) /\ (rec.type = "COMMIT" => rec.txn # t) => UncommittedNext(t)
  BY <1>1, OrderAdded, IdTypes DEF Order
<1>3. Numbered'
  <2>1. nextLsn' = nextLsn + 1 /\ rec.txn \in Nat /\ nextLsn \in Nat /\ nextTxn \in Nat
    BY IdTypes DEF write_record, Order, WALRecord
  <2>2. ASSUME NEW i \in Readable' PROVE log'[i].lsn < nextLsn' /\ log'[i].txn < nextTxn'
    <3>1. CASE i \in Readable /\ log'[i] = log[i]
      <4>1. log[i].lsn < nextLsn /\ log[i].txn < nextTxn /\ log[i].lsn \in Nat /\ log[i].txn \in Nat
        BY <3>1, IdTypes DEF Order, Numbered
      <4> QED
        BY <2>1, <3>1, <4>1
    <3>2. CASE log'[i] = rec
      BY <2>1, <3>2
    <3> QED
      BY <1>1, <3>1, <3>2 DEF AddedRecord
  <2> QED
    BY <2>2 DEF Numbered
<1> QED
  BY <1>1, <1>2, <1>3

\* The id after the last one has no COMMIT.
LEMMA NextUncommitted == Order => Uncommitted(nextTxn)
<1> SUFFICES ASSUME Order, NEW i \in Readable PROVE log[i].txn # nextTxn
  BY DEF Uncommitted
<1>1. log[i].txn < nextTxn /\ log[i].txn \in Nat /\ nextTxn \in Nat
  BY IdTypes DEF Order, Numbered
<1> QED
  BY <1>1

\* wal_begin: a new id, without COMMIT.
LEMMA BeginOrder ==
  ASSUME Order, wal_begin
  PROVE  /\ LogOrder' /\ Numbered' /\ nextTxn' = nextTxn + 1
         /\ \A t : Uncommitted(t) => UncommittedNext(t)
<1> DEFINE rec == NewRecord(nextTxn, "BEGIN", None, None)
<1>1. write_record(rec, FALSE)
  BY Zenon DEF wal_begin
<1>2. /\ rec \in WALRecord /\ rec.txn = nextTxn /\ rec.lsn = nextLsn /\ rec.type = "BEGIN"
      /\ nextTxn' = nextTxn + 1 /\ nextTxn \in Nat
  BY DEF NewRecord, WALRecord, RecordType, Order, LogInv, WalTypeOK, wal_begin
<1> HIDE DEF rec
<1>3. nextTxn' \in Nat /\ nextTxn' >= nextTxn /\ rec.txn < nextTxn'
  BY <1>2
<1>4. Uncommitted(rec.txn)
  BY <1>2, NextUncommitted
<1>5. /\ LogOrder' /\ Numbered'
      /\ \A t : Uncommitted(t) /\ (rec.type = "COMMIT" => rec.txn # t) => UncommittedNext(t)
  BY <1>1, <1>2, <1>3, <1>4, WriteRecordOrder
<1> QED
  BY <1>2, <1>5

\* wal_write: a record of a transaction that goes on.
LEMMA WriteOrder ==
  ASSUME Order, NEW txn \in Nat, NEW type \in {"INSERT", "UPDATE", "DELETE"},
         NEW table \in Tables, NEW row \in Rows, wal_write(txn, type, table, row),
         txn < nextTxn, Uncommitted(txn)
  PROVE  /\ LogOrder' /\ Numbered' /\ nextTxn' = nextTxn
         /\ \A t : Uncommitted(t) => UncommittedNext(t)
         /\ AddedRecord(NewRecord(txn, type, table, row))
<1> DEFINE rec == NewRecord(txn, type, table, row)
<1>1. write_record(rec, TRUE)
  BY Zenon DEF wal_write
<1>2. /\ rec \in WALRecord /\ rec.txn = txn /\ rec.lsn = nextLsn /\ rec.type = type
      /\ nextTxn' = nextTxn /\ nextTxn \in Nat
  BY DEF NewRecord, WALRecord, RecordType, Order, LogInv, WalTypeOK, wal_write
<1> HIDE DEF rec
<1>3. /\ nextTxn' \in Nat /\ nextTxn' >= nextTxn /\ rec.txn < nextTxn' /\ rec.type # "BEGIN"
      /\ rec.type # "COMMIT" => Uncommitted(rec.txn)
  BY <1>2
<1>4. /\ LogOrder' /\ Numbered' /\ AddedRecord(rec)
      /\ \A t : Uncommitted(t) /\ (rec.type = "COMMIT" => rec.txn # t) => UncommittedNext(t)
  BY <1>1, <1>2, <1>3, WriteRecordOrder
<1> QED
  BY <1>2, <1>4 DEF rec

\* wal_commit: the transaction it commits has a COMMIT now, the others as before.
LEMMA CommitOrder ==
  ASSUME Order, NEW txn \in Nat, wal_commit(txn), txn < nextTxn
  PROVE  /\ LogOrder' /\ Numbered' /\ nextTxn' = nextTxn
         /\ \A t : Uncommitted(t) /\ t # txn => UncommittedNext(t)
         /\ AddedRecord(NewRecord(txn, "COMMIT", None, None))
<1> DEFINE rec == NewRecord(txn, "COMMIT", None, None)
<1>1. write_record(rec, TRUE)
  BY Zenon DEF wal_commit
<1>2. /\ rec \in WALRecord /\ rec.txn = txn /\ rec.lsn = nextLsn /\ rec.type = "COMMIT"
      /\ nextTxn' = nextTxn /\ nextTxn \in Nat
  BY DEF NewRecord, WALRecord, RecordType, Order, LogInv, WalTypeOK, wal_commit
<1> HIDE DEF rec
<1>3. /\ nextTxn' \in Nat /\ nextTxn' >= nextTxn /\ rec.txn < nextTxn' /\ rec.type # "BEGIN"
      /\ rec.type # "COMMIT" => Uncommitted(rec.txn)
  BY <1>2
<1>4. /\ LogOrder' /\ Numbered' /\ AddedRecord(rec)
      /\ \A t : Uncommitted(t) /\ (rec.type = "COMMIT" => rec.txn # t) => UncommittedNext(t)
  BY <1>1, <1>2, <1>3, WriteRecordOrder
<1> QED
  BY <1>2, <1>4 DEF rec

-----------------------------------------------------------------------------
(* TxnInv is inductive.                                                     *)

\* What a step may assume of the log and of the ids of a running process.
LEMMA RunningOrder ==
  ASSUME TypeInv, TxnInv
  PROVE  /\ pc # "down" => Order
         /\ LogOrder /\ LogInv
         /\ stmt.txn \in Nat /\ currentTxn \in Nat /\ nextTxn \in Nat
  BY TypeInvParts DEF Order, LogOrder, TxnInv, LogOK, ProcInv, ProcessTypeOK, Stmt, LogInv, WalTypeOK

\* A step that leaves the log alone leaves its order.
LEMMA QuietLog ==
  ASSUME TxnInv, UNCHANGED <<log, nextLsn, nextTxn>>, pc # "down"
  PROVE  LogOK' /\ \A t : Uncommitted(t) => UncommittedNext(t)
  BY DEF TxnInv, LogOK, LsnsGrow, OneBegin, CommitLast, Numbered, Readable,
         Uncommitted, UncommittedNext

\* A start continues the ids of the log; recovery and the end of a process.
LEMMA TxnMainStep ==
  ASSUME TypeInv, TxnInv, Start \/ Recovery \/ Exit \/ Crash
  PROVE  TxnInv'
<1>1. LogOrder /\ LogInv
  BY RunningOrder
<1>2. CASE Start
  <2>1. /\ wal_open /\ pc = "down" /\ pc' = "recover"
        /\ UNCHANGED <<txnActive, currentTxn, stmt>>
    BY <1>2, Zenon DEF Start
  <2>2. log' = log /\ Readable' = Readable
    BY <2>1 DEF wal_open, Readable
  <2>3. PICK n : nextLsn' = n /\ \A i \in Readable : log[i].lsn < n
    BY <2>1 DEF wal_open
  <2>4. PICK m \in {1} \cup {log[i].txn + 1 : i \in Readable} :
          nextTxn' = m /\ \A i \in Readable : log[i].txn < m
    BY <2>1 DEF wal_open
  <2>5. m \in Nat /\ m > 0
    BY <1>1, <2>4, IdTypes
  <2>6. LogOK'
    BY <1>1, <2>2, <2>3, <2>4 DEF LogOrder, LogOK, LsnsGrow, OneBegin, CommitLast, Numbered
  <2>7. currentTxn = 0 /\ ~txnActive /\ stmt = NoStmt
    BY <2>1 DEF TxnInv, TxnOK
  <2>8. TxnOK'
    BY <2>1, <2>4, <2>5, <2>7 DEF TxnOK, InInsert, InRow
  <2> QED
    BY <2>6, <2>8 DEF TxnInv
<1>3. CASE Exit \/ Crash
  <2>1. pc' = "down" /\ txnActive' = FALSE /\ currentTxn' = 0 /\ stmt' = NoStmt
    BY <1>3 DEF Exit, Crash, EndSession
  <2>2. OldRecords
    <3>1. CASE Exit
      <4>1. log' = log
        BY <3>1 DEF Exit, wal_close
      <4> QED
        BY <1>1, <4>1, ShorterReadable
    <3>2. CASE Crash
      <4> DEFINE inFlight == pc \in {"idle", "ins_log", "ins_commit", "scan", "row_log", "row_commit"}
      <4>1. LoseTail(inFlight)
        BY <3>2, Zenon DEF Crash
      <4>2. inFlight \in BOOLEAN
        OBVIOUS
      <4> HIDE DEF inFlight
      <4> QED
        BY <1>1, <4>1, <4>2, ShorterReadable
    <3> QED
      BY <1>3, <3>1, <3>2
  <2>3. LogOrder'
    BY <1>1, <2>2, OrderOld
  <2>4. TxnOK'
    BY <2>1 DEF TxnOK, InInsert, InRow
  <2> QED
    BY <2>1, <2>3, <2>4 DEF TxnInv, LogOK, LogOrder
<1>4. CASE RecoverScan \/ Redo
  <2>1. /\ UNCHANGED <<log, nextLsn, nextTxn, txnActive, currentTxn, stmt>>
        /\ pc \in {"recover", "redo"} /\ pc' = "redo"
    BY <1>4 DEF RecoverScan, Redo, walVars, sessionVars
  <2>2. TxnOK'
    BY <2>1 DEF TxnInv, TxnOK, InInsert, InRow
  <2> QED
    BY <2>1, <2>2, QuietLog DEF TxnInv
<1>5. CASE RecoverNothing \/ Checkpoint
  <2>1. /\ UNCHANGED walVars \/ wal_truncate
        /\ UNCHANGED <<txnActive, currentTxn, stmt>>
        /\ pc \in {"recover", "redo"} /\ pc' = "idle"
    BY <1>5 DEF RecoverNothing, Checkpoint, sessionVars
  <2>2. currentTxn = 0 /\ ~txnActive /\ stmt = NoStmt /\ currentTxn < nextTxn
    BY <2>1 DEF TxnInv, TxnOK
  <2>3. CASE UNCHANGED walVars
    <3>1. TxnOK'
      BY <2>1, <2>2, <2>3 DEF walVars, TxnOK, InInsert, InRow
    <3> QED
      BY <2>1, <2>3, <3>1, QuietLog DEF TxnInv, walVars
  <2>4. CASE wal_truncate
    <3>1. Readable' = {} /\ nextTxn' = 1
      BY <2>4 DEF wal_truncate, Readable
    <3>2. LogOK'
      BY <3>1 DEF LogOK, LsnsGrow, OneBegin, CommitLast, Numbered
    <3>3. TxnOK'
      BY <2>1, <2>2, <3>1 DEF TxnOK, InInsert, InRow
    <3> QED
      BY <3>2, <3>3 DEF TxnInv
  <2> QED
    BY <2>1, <2>3, <2>4
<1> QED
  BY <1>2, <1>3, <1>4, <1>5 DEF Recovery

\* BEGIN, COMMIT and INSERT.
LEMMA TxnInsertStep ==
  ASSUME TypeInv, TxnInv, Begin \/ Commit \/ StartInsert \/ InsertSteps
  PROVE  TxnInv'
<1>1. /\ LogOrder /\ LogInv /\ (pc # "down" => Order)
      /\ stmt.txn \in Nat /\ currentTxn \in Nat /\ nextTxn \in Nat
  BY RunningOrder
<1>2. CASE Begin
  <2>1. /\ wal_begin /\ pc = "idle" /\ pc' = "idle" /\ stmt' = stmt
        /\ currentTxn' = nextTxn /\ txnActive' = TRUE
    BY <1>2, Zenon DEF Begin, Ready
  <2>2. /\ LogOrder' /\ Numbered' /\ nextTxn' = nextTxn + 1
        /\ UncommittedNext(nextTxn)
    BY <1>1, <2>1, BeginOrder, NextUncommitted
  <2>3. nextTxn > 0
    <3>1. currentTxn < nextTxn
      BY <2>1 DEF TxnInv, TxnOK
    <3> QED
      BY <1>1, <3>1
  <2>4. TxnOK'
    BY <1>1, <2>1, <2>2, <2>3
       DEF TxnInv, TxnOK, InInsert, InRow, Uncommitted, UncommittedNext
  <2> QED
    BY <2>2, <2>4 DEF TxnInv, LogOK, LogOrder
<1>3. CASE Commit
  <2>1. /\ wal_commit(currentTxn) /\ pc = "idle" /\ pc' = "idle" /\ stmt' = stmt
        /\ currentTxn' = currentTxn /\ txnActive' = FALSE
    BY <1>3, Zenon DEF Commit, Ready
  <2>2. currentTxn < nextTxn
    BY <2>1 DEF TxnInv, TxnOK
  <2>3. LogOrder' /\ Numbered' /\ nextTxn' = nextTxn
    BY <1>1, <2>1, <2>2, CommitOrder
  <2>4. TxnOK'
    BY <2>1, <2>2, <2>3 DEF TxnInv, TxnOK, InInsert, InRow
  <2> QED
    BY <2>3, <2>4 DEF TxnInv, LogOK, LogOrder
<1>4. CASE StartInsert
  <2>1. /\ pc = "idle" /\ pc' = "ins_log" /\ UNCHANGED <<currentTxn, txnActive>>
        /\ \/ /\ txnActive /\ stmt'.txn = currentTxn /\ stmt'.auto = FALSE
              /\ UNCHANGED walVars
           \/ /\ ~txnActive /\ stmt'.txn = nextTxn /\ stmt'.auto = TRUE
              /\ wal_begin
    BY <1>4 DEF StartInsert, Ready, sessionVars, NoStmt
  <2>2. /\ currentTxn < nextTxn
        /\ txnActive => currentTxn > 0 /\ Uncommitted(currentTxn)
    BY <2>1 DEF TxnInv, TxnOK
  <2>3. CASE txnActive
    <3>1. UNCHANGED <<log, nextLsn, nextTxn>> /\ stmt'.txn = currentTxn /\ stmt'.auto = FALSE
      BY <2>1, <2>3 DEF walVars
    <3>2. LogOK' /\ \A t : Uncommitted(t) => UncommittedNext(t)
      BY <2>1, <3>1, QuietLog
    <3>3. TxnOK'
      BY <2>1, <2>2, <2>3, <3>1, <3>2
         DEF TxnOK, InInsert, InRow, Uncommitted, UncommittedNext
    <3> QED
      BY <3>2, <3>3 DEF TxnInv
  <2>4. CASE ~txnActive
    <3>1. wal_begin /\ stmt'.txn = nextTxn /\ stmt'.auto = TRUE
      BY <2>1, <2>4, Zenon
    <3>2. /\ LogOrder' /\ Numbered' /\ nextTxn' = nextTxn + 1
          /\ UncommittedNext(nextTxn)
      BY <1>1, <2>1, <3>1, BeginOrder, NextUncommitted
    <3>3. TxnOK'
      <4>1. stmt'.txn > 0 /\ stmt'.txn < nextTxn' /\ currentTxn' < nextTxn'
        BY <1>1, <2>1, <2>2, <3>1, <3>2
      <4>2. Uncommitted(stmt.txn)'
        BY <3>1, <3>2 DEF Uncommitted, UncommittedNext
      <4> QED
        BY <2>1, <2>4, <3>1, <4>1, <4>2 DEF TxnOK, InInsert, InRow
    <3> QED
      BY <3>2, <3>3 DEF TxnInv, LogOK, LogOrder
  <2> QED
    BY <2>3, <2>4
<1>5. CASE InsertTooLong \/ InsertNoTable \/ InsertTable
  <2>1. /\ UNCHANGED <<log, nextLsn, nextTxn, currentTxn, txnActive>>
        /\ InInsert
        /\ \/ pc' = "idle" /\ stmt' = NoStmt
           \/ pc' = "ins_commit" /\ stmt' = stmt /\ stmt.auto
    BY <1>5 DEF InsertTooLong, InsertNoTable, InsertTable, EndStmt, InInsert, walVars, sessionVars
  <2>2. LogOK' /\ \A t : Uncommitted(t) => UncommittedNext(t)
    BY <2>1, QuietLog DEF InInsert
  <2>3. TxnOK'
    BY <2>1, <2>2 DEF TxnInv, TxnOK, InInsert, InRow, Uncommitted, UncommittedNext
  <2> QED
    BY <2>2, <2>3 DEF TxnInv
<1>6. CASE InsertLog
  <2>1. /\ wal_write(stmt.txn, "INSERT", stmt.table, stmt.row)
        /\ pc = "ins_log" /\ pc' = "ins_table" /\ UNCHANGED <<stmt, currentTxn, txnActive>>
    BY <1>6, Zenon DEF InsertLog, sessionVars
  <2>2. stmt.table \in Tables /\ stmt.row \in Rows
    BY <2>1, TypeInvParts DEF ProcInv, StmtOK, InInsert, InTable
  <2>3. stmt.txn < nextTxn /\ Uncommitted(stmt.txn) /\ Order
    BY <1>1, <2>1 DEF TxnInv, TxnOK, InInsert
  <2>4. /\ LogOrder' /\ Numbered' /\ nextTxn' = nextTxn
        /\ \A t : Uncommitted(t) => UncommittedNext(t)
    BY <1>1, <2>1, <2>2, <2>3, WriteOrder
  <2>5. TxnOK'
    BY <2>1, <2>4 DEF TxnInv, TxnOK, InInsert, InRow, Uncommitted, UncommittedNext
  <2> QED
    BY <2>4, <2>5 DEF TxnInv, LogOK, LogOrder
<1>7. CASE InsertCommit
  <2>1. /\ wal_commit(stmt.txn) /\ pc = "ins_commit" /\ pc' = "idle" /\ stmt' = NoStmt
        /\ UNCHANGED <<currentTxn, txnActive>>
    BY <1>7, Zenon DEF InsertCommit, EndStmt, sessionVars
  <2>2. stmt.txn < nextTxn /\ ~txnActive /\ currentTxn < nextTxn /\ Order
    BY <1>1, <2>1 DEF TxnInv, TxnOK, InInsert
  <2>3. LogOrder' /\ Numbered' /\ nextTxn' = nextTxn
    BY <1>1, <2>1, <2>2, CommitOrder
  <2>4. TxnOK'
    BY <2>1, <2>2, <2>3 DEF TxnOK, InInsert, InRow
  <2> QED
    BY <2>3, <2>4 DEF TxnInv, LogOK, LogOrder
<1> QED
  BY <1>2, <1>3, <1>4, <1>5, <1>6, <1>7 DEF InsertSteps

\* UPDATE and DELETE log each row in a transaction of its own.
LEMMA TxnRowStep ==
  ASSUME TypeInv, TxnInv, OpenTable \/ RowSteps
  PROVE  TxnInv'
<1>1. /\ LogOrder /\ LogInv /\ (pc # "down" => Order)
      /\ stmt.txn \in Nat /\ currentTxn \in Nat /\ nextTxn \in Nat
  BY RunningOrder
<1>2. CASE OpenTable \/ DeleteRow \/ UpdateRow \/ CloseTable
  <2>1. /\ UNCHANGED <<log, nextLsn, nextTxn, currentTxn, txnActive>>
        /\ pc \in {"idle", "scan", "row_commit"}
        /\ pc' = "scan" \/ (pc' = "idle" /\ stmt' = NoStmt)
    <3>1. CASE OpenTable
      BY <3>1 DEF OpenTable, Ready, walVars, sessionVars
    <3>2. CASE DeleteRow \/ UpdateRow \/ CloseTable
      BY <3>2 DEF DeleteRow, UpdateRow, CloseTable, EndStmt, walVars, sessionVars
    <3> QED
      BY <1>2, <3>1, <3>2
  <2>2. LogOK' /\ \A t : Uncommitted(t) => UncommittedNext(t)
    BY <2>1, QuietLog
  <2>3. TxnOK'
    BY <2>1, <2>2 DEF TxnInv, TxnOK, InInsert, InRow, Uncommitted, UncommittedNext
  <2> QED
    BY <2>2, <2>3 DEF TxnInv
<1>3. CASE MatchRow
  <2>1. /\ wal_begin /\ pc = "scan" /\ pc' = "row_log" /\ UNCHANGED <<currentTxn, txnActive>>
    BY <1>3, Zenon DEF MatchRow, sessionVars
  <2>2. stmt'.txn = nextTxn
    BY <1>3, TypeInvParts DEF MatchRow, ProcInv, ProcessTypeOK, Stmt
  <2>3. currentTxn < nextTxn /\ (txnActive => currentTxn > 0 /\ Uncommitted(currentTxn))
    BY <2>1 DEF TxnInv, TxnOK
  <2>4. /\ LogOrder' /\ Numbered' /\ nextTxn' = nextTxn + 1
        /\ UncommittedNext(nextTxn) /\ \A t : Uncommitted(t) => UncommittedNext(t)
    BY <1>1, <2>1, BeginOrder, NextUncommitted
  <2>5. /\ stmt'.txn > 0 /\ stmt'.txn < nextTxn' /\ currentTxn' < nextTxn'
        /\ stmt'.txn # currentTxn'
    BY <1>1, <2>1, <2>2, <2>3, <2>4
  <2>6. Uncommitted(stmt.txn)'
    BY <2>2, <2>4 DEF Uncommitted, UncommittedNext
  <2>7. txnActive' => currentTxn' > 0 /\ Uncommitted(currentTxn)'
    BY <2>1, <2>3, <2>4 DEF Uncommitted, UncommittedNext
  <2>8. TxnOK'
    BY <2>1, <2>5, <2>6, <2>7 DEF TxnOK, InInsert, InRow
  <2> QED
    BY <2>4, <2>8 DEF TxnInv, LogOK, LogOrder
<1>4. CASE LogRow
  <2>1. /\ wal_write(stmt.txn, stmt.op, stmt.table, stmt.image)
        /\ pc = "row_log" /\ pc' = "row_commit" /\ UNCHANGED <<stmt, currentTxn, txnActive>>
    BY <1>4, Zenon DEF LogRow, sessionVars
  <2>2. /\ stmt.table \in Tables /\ stmt.image \in Rows
        /\ stmt.op \in {"INSERT", "UPDATE", "DELETE"}
    BY <2>1, TypeInvParts DEF ProcInv, StmtOK, InRow, InScan, InTable
  <2>3. stmt.txn < nextTxn /\ Uncommitted(stmt.txn) /\ Order
    BY <1>1, <2>1 DEF TxnInv, TxnOK, InRow
  <2>4. /\ LogOrder' /\ Numbered' /\ nextTxn' = nextTxn
        /\ \A t : Uncommitted(t) => UncommittedNext(t)
    BY <1>1, <2>1, <2>2, <2>3, WriteOrder
  <2>5. TxnOK'
    BY <2>1, <2>4 DEF TxnInv, TxnOK, InInsert, InRow, Uncommitted, UncommittedNext
  <2> QED
    BY <2>4, <2>5 DEF TxnInv, LogOK, LogOrder
<1>5. CASE LogRowCommit
  <2>1. /\ wal_commit(stmt.txn)
        /\ pc = "row_commit" /\ pc' = "row_commit" /\ UNCHANGED <<currentTxn, txnActive>>
    BY <1>5, Zenon DEF LogRowCommit, sessionVars
  <2>2. stmt'.txn = 0
    BY <1>5, TypeInvParts DEF LogRowCommit, ProcInv, ProcessTypeOK, Stmt
  <2>3. /\ stmt.txn < nextTxn /\ currentTxn < nextTxn /\ Order
        /\ txnActive => currentTxn > 0 /\ Uncommitted(currentTxn) /\ stmt.txn # currentTxn
    BY <1>1, <2>1 DEF TxnInv, TxnOK, InRow
  <2>4. /\ LogOrder' /\ Numbered' /\ nextTxn' = nextTxn
        /\ \A t : Uncommitted(t) /\ t # stmt.txn => UncommittedNext(t)
    BY <1>1, <2>1, <2>3, CommitOrder
  <2>5. txnActive' => currentTxn' > 0 /\ Uncommitted(currentTxn)'
    BY <2>1, <2>3, <2>4 DEF Uncommitted, UncommittedNext
  <2>6. stmt'.txn < nextTxn' /\ (txnActive' => stmt'.txn # currentTxn')
    BY <1>1, <2>1, <2>2, <2>3, <2>4
  <2>7. TxnOK'
    BY <2>1, <2>3, <2>4, <2>5, <2>6 DEF TxnOK, InInsert, InRow
  <2> QED
    BY <2>4, <2>7 DEF TxnInv, LogOK, LogOrder
<1> QED
  BY <1>2, <1>3, <1>4, <1>5 DEF RowSteps

\* The ids and the transactions, from the empty data directory on.
LEMMA TxnInvInductive ==
  /\ Init => TxnInv
  /\ TypeInv /\ TxnInv /\ [Next]_vars => TxnInv'
<1>1. ASSUME Init PROVE TxnInv
  <2>1. Readable = {} /\ nextTxn = 1 /\ pc = "down" /\ currentTxn = 0 /\ ~txnActive /\ stmt = NoStmt
    BY <1>1 DEF Init, WalInit, NoSession, Readable
  <2> QED
    BY <2>1 DEF TxnInv, LogOK, LsnsGrow, OneBegin, CommitLast, Numbered, TxnOK, InInsert, InRow
<1>2. ASSUME TypeInv, TxnInv, [Next]_vars PROVE TxnInv'
  <2>1. CASE CreateTable \/ DropTable \/ CreateDb \/ UseDb \/ DdlSteps
    <3>1. /\ UNCHANGED <<log, nextLsn, nextTxn, currentTxn, txnActive>>
          /\ pc \notin {"down", "recover", "redo"} /\ ~InInsert' /\ ~InRow'
          /\ pc' \notin {"down", "recover", "redo"}
          /\ pc' \in {"idle", "use_write"} =>
               stmt' = NoStmt \/ (stmt' = stmt /\ pc \in {"idle", "use_write"})
      BY <2>1 DEF CreateTable, DropTable, CreateDb, UseDb, DdlSteps, CreateSchema, CreateCatalog,
         DropSchema, DropCatalog, UseDbWrite, Ready, EndStmt, walVars, sessionVars, InInsert, InRow
    <3>2. LogOK' /\ \A t : Uncommitted(t) => UncommittedNext(t)
      BY <1>2, <3>1, QuietLog
    <3>3. TxnOK'
      BY <1>2, <3>1, <3>2 DEF TxnInv, TxnOK, InInsert, InRow, Uncommitted, UncommittedNext
    <3> QED
      BY <3>2, <3>3 DEF TxnInv
  <2>2. CASE UNCHANGED vars
    BY <1>2, <2>2 DEF vars, walVars, sessionVars, TxnInv, LogOK, LsnsGrow, OneBegin, CommitLast,
       Numbered, Readable, TxnOK, InInsert, InRow, Uncommitted
  <2> QED
    BY <1>2, <2>1, <2>2, TxnMainStep, TxnInsertStep, TxnRowStep, Zenon
       DEF Next, NewStatement, Progress, Closed
<1> QED
  BY <1>1, <1>2

(* Recovery can rely on the log: whatever failed and wherever processes      *)
(* died, the lsn's of the records wal_recover reads grow, no two BEGINs have *)
(* the same id, and behind a COMMIT its id comes in COMMIT records only.     *)
THEOREM LogOrdered == Spec => []LogWellFormed
<1>1. TypeInv /\ TxnInv => LogWellFormed
  BY DEF TxnInv, LogOK, LogWellFormed, LsnsGrow, OneBegin, CommitLast, Numbered
<1> QED
  BY <1>1, TypeInvInductive, TxnInvInductive, PTL DEF Spec

-----------------------------------------------------------------------------
(* What a step does to the records, the ids and the rows of transactions.   *)

OldInserted == \A r \in Rows : \A i \in RecordsOf(r)' : i \in RecordsOf(r) /\ log'[i] = log[i]

InsertRecord == NewRecord(stmt.txn, "INSERT", stmt.table, stmt.row)

\* A record of another type in the log leaves the INSERT records as they were.
LEMMA OtherAdded ==
  ASSUME NEW rec, rec.type # "INSERT", AddedRecord(rec)
  PROVE  OldInserted
  BY DEF AddedRecord, OldInserted, RecordsOf

\* Records that stay are the INSERT records that were there.
LEMMA OldKept == OldRecords => OldInserted
  BY DEF OldRecords, OldInserted, RecordsOf

\* Only INSERT adds an INSERT record, that of its row.
LEMMA StepRecords ==
  ASSUME TypeInv, [Next]_vars
  PROVE  OldInserted \/ (InsertLog /\ AddedRecord(InsertRecord))
<1>1. LogInv /\ stmt.txn \in Nat /\ currentTxn \in Nat
  BY TypeInvParts DEF ProcInv, ProcessTypeOK, Stmt
<1>2. CASE InsertLog
  <2>1. write_record(InsertRecord, TRUE)
    BY <1>2, Zenon DEF InsertLog, wal_write, InsertRecord
  <2>2. stmt.row \in Rows /\ stmt.table \in Tables
    BY <1>2, TypeInvParts DEF InsertLog, ProcInv, StmtOK, InInsert, InTable
  <2>3. InsertRecord \in WALRecord
    BY <1>1, <2>2 DEF InsertRecord, NewRecord, WALRecord, RecordType, LogInv, WalTypeOK
  <2> QED
    BY <1>1, <1>2, <2>1, <2>3, WrittenReadable
<1>3. wal_begin => OldInserted
  <2>1. /\ NewRecord(nextTxn, "BEGIN", None, None) \in WALRecord
        /\ NewRecord(nextTxn, "BEGIN", None, None).type # "INSERT"
    BY <1>1 DEF NewRecord, WALRecord, RecordType, LogInv, WalTypeOK
  <2>2. wal_begin => write_record(NewRecord(nextTxn, "BEGIN", None, None), FALSE)
    BY Zenon DEF wal_begin
  <2> QED
    BY <1>1, <2>1, <2>2, WrittenReadable, OtherAdded
<1>4. ASSUME NEW txn \in Nat, wal_commit(txn) PROVE OldInserted
  <2>1. /\ NewRecord(txn, "COMMIT", None, None) \in WALRecord
        /\ NewRecord(txn, "COMMIT", None, None).type # "INSERT"
    BY <1>1 DEF NewRecord, WALRecord, RecordType, LogInv, WalTypeOK
  <2>2. write_record(NewRecord(txn, "COMMIT", None, None), TRUE)
    BY <1>4, Zenon DEF wal_commit
  <2> QED
    BY <1>1, <2>1, <2>2, WrittenReadable, OtherAdded
<1>5. CASE LogRow
  <2>1. write_record(NewRecord(stmt.txn, stmt.op, stmt.table, stmt.image), TRUE)
    BY <1>5, Zenon DEF LogRow, wal_write
  <2>2. stmt.image \in Rows /\ stmt.table \in Tables /\ stmt.op \in {"UPDATE", "DELETE"}
    BY <1>5, TypeInvParts DEF LogRow, ProcInv, StmtOK, InRow, InScan, InTable
  <2>3. /\ NewRecord(stmt.txn, stmt.op, stmt.table, stmt.image) \in WALRecord
        /\ NewRecord(stmt.txn, stmt.op, stmt.table, stmt.image).type # "INSERT"
    BY <1>1, <2>2 DEF NewRecord, WALRecord, RecordType, LogInv, WalTypeOK
  <2> QED
    BY <1>1, <2>1, <2>3, WrittenReadable, OtherAdded
<1>6. CASE Begin \/ MatchRow \/ StartInsert
  <2>1. wal_begin \/ log' = log
    BY <1>6, Zenon DEF Begin, MatchRow, StartInsert, walVars
  <2> QED
    BY <1>1, <1>3, <2>1, ShorterReadable, OldKept
<1>7. CASE Commit \/ InsertCommit \/ LogRowCommit
  BY <1>1, <1>4, <1>7, Zenon DEF Commit, InsertCommit, LogRowCommit
<1>8. CASE RecoverNothing \/ Checkpoint
  <2>1. wal_truncate \/ log' = log
    BY <1>8, Zenon DEF RecoverNothing, Checkpoint, walVars
  <2> QED
    BY <1>1, <2>1, ShorterReadable, OldKept
<1>9. CASE Crash
  <2> DEFINE inFlight == pc \in {"idle", "ins_log", "ins_commit", "scan", "row_log", "row_commit"}
  <2>1. LoseTail(inFlight)
    BY <1>9, Zenon DEF Crash
  <2>2. inFlight \in BOOLEAN
    OBVIOUS
  <2> HIDE DEF inFlight
  <2> QED
    BY <1>1, <2>1, <2>2, ShorterReadable, OldKept
<1>10. ASSUME \/ Start \/ RecoverScan \/ Redo \/ Exit \/ InsertTooLong \/ InsertNoTable
              \/ InsertTable \/ OpenTable \/ DeleteRow \/ UpdateRow \/ CloseTable
              \/ CreateTable \/ DropTable \/ CreateDb \/ UseDb \/ DdlSteps \/ UNCHANGED vars
       PROVE  OldInserted
  <2>1. log' = log
    BY <1>10 DEF Start, wal_open, RecoverScan, Redo, Exit, wal_close, InsertTooLong,
       InsertNoTable, InsertTable, OpenTable, DeleteRow, UpdateRow, CloseTable, CreateTable,
       DropTable, CreateDb, UseDb, DdlSteps, CreateSchema, CreateCatalog, DropSchema,
       DropCatalog, UseDbWrite, vars, walVars
  <2> QED
    BY <1>1, <2>1, ShorterReadable, OldKept
<1> QED
  BY <1>2, <1>5, <1>6, <1>7, <1>8, <1>9, <1>10
     DEF Next, NewStatement, Progress, Recovery, InsertSteps, RowSteps, Closed

\* A COMMIT is written for the transaction of the session or of the statement.
LEMMA StepCommits ==
  ASSUME TypeInv, TxnInv, [Next]_vars, NEW t, Uncommitted(t), t \notin {currentTxn, stmt.txn}
  PROVE  UncommittedNext(t)
<1>1. /\ LogInv /\ LogOrder /\ stmt.txn \in Nat /\ currentTxn \in Nat
      /\ pc # "down" => Order
  BY RunningOrder
<1>2. OldRecords => UncommittedNext(t)
  BY DEF OldRecords, Uncommitted, UncommittedNext
<1>3. CASE Commit
  <2>1. wal_commit(currentTxn) /\ pc = "idle"
    BY <1>3, Zenon DEF Commit, Ready
  <2>2. currentTxn < nextTxn /\ Order
    BY <1>1, <2>1 DEF TxnInv, TxnOK
  <2> QED
    BY <1>1, <2>1, <2>2, CommitOrder
<1>4. CASE InsertCommit \/ LogRowCommit
  <2>1. wal_commit(stmt.txn) /\ pc \in {"ins_commit", "row_commit"}
    BY <1>4, Zenon DEF InsertCommit, LogRowCommit
  <2>2. stmt.txn < nextTxn /\ Order
    BY <1>1, <2>1 DEF TxnInv, TxnOK, InInsert, InRow
  <2> QED
    BY <1>1, <2>1, <2>2, CommitOrder
<1>5. CASE Begin \/ MatchRow \/ StartInsert
  <2>1. (wal_begin \/ log' = log) /\ pc # "down"
    BY <1>5, Zenon DEF Begin, MatchRow, StartInsert, Ready, walVars
  <2> QED
    BY <1>1, <1>2, <2>1, BeginOrder, ShorterReadable
<1>6. CASE LogRow \/ InsertLog
  <2>1. \E row \in Rows, op \in {"INSERT", "UPDATE", "DELETE"} :
          stmt.table \in Tables /\ wal_write(stmt.txn, op, stmt.table, row)
    <3>1. CASE LogRow
      BY <3>1, TypeInvParts DEF LogRow, ProcInv, StmtOK, InRow, InScan, InTable
    <3>2. CASE InsertLog
      BY <3>2, TypeInvParts DEF InsertLog, ProcInv, StmtOK, InInsert, InTable
    <3> QED
      BY <1>6, <3>1, <3>2
  <2>2. stmt.txn < nextTxn /\ Order /\ Uncommitted(stmt.txn)
    BY <1>1, <1>6 DEF LogRow, InsertLog, TxnInv, TxnOK, InInsert, InRow
  <2> QED
    BY <1>1, <2>1, <2>2, WriteOrder
<1>7. CASE RecoverNothing \/ Checkpoint
  <2>1. wal_truncate \/ log' = log
    BY <1>7, Zenon DEF RecoverNothing, Checkpoint, walVars
  <2> QED
    BY <1>1, <1>2, <2>1, ShorterReadable
<1>8. CASE Crash
  <2> DEFINE inFlight == pc \in {"idle", "ins_log", "ins_commit", "scan", "row_log", "row_commit"}
  <2>1. LoseTail(inFlight)
    BY <1>8, Zenon DEF Crash
  <2>2. inFlight \in BOOLEAN
    OBVIOUS
  <2> HIDE DEF inFlight
  <2> QED
    BY <1>1, <1>2, <2>1, <2>2, ShorterReadable
<1>9. ASSUME \/ Start \/ RecoverScan \/ Redo \/ Exit \/ InsertTooLong \/ InsertNoTable
             \/ InsertTable \/ OpenTable \/ DeleteRow \/ UpdateRow \/ CloseTable
             \/ CreateTable \/ DropTable \/ CreateDb \/ UseDb \/ DdlSteps \/ UNCHANGED vars
      PROVE  UncommittedNext(t)
  <2>1. log' = log
    BY <1>9 DEF Start, wal_open, RecoverScan, Redo, Exit, wal_close, InsertTooLong,
       InsertNoTable, InsertTable, OpenTable, DeleteRow, UpdateRow, CloseTable, CreateTable,
       DropTable, CreateDb, UseDb, DdlSteps, CreateSchema, CreateCatalog, DropSchema,
       DropCatalog, UseDbWrite, vars, walVars
  <2> QED
    BY <1>1, <1>2, <2>1, ShorterReadable
<1> QED
  BY <1>3, <1>4, <1>5, <1>6, <1>7, <1>8, <1>9
     DEF Next, NewStatement, Progress, Recovery, InsertSteps, RowSteps, Closed

\* The transaction of a session or a statement is the one it had, none, or a new one.
LEMMA StepIds ==
  ASSUME TypeInv, TxnInv, [Next]_vars
  PROVE  /\ currentTxn' \in {currentTxn, 0} \/ (currentTxn' = nextTxn /\ pc # "down")
         /\ stmt'.txn \in {currentTxn, stmt.txn, 0} \/ (stmt'.txn = nextTxn /\ pc # "down")
<1>1. stmt \in Stmt /\ NoStmt.txn = 0
  BY DEF TypeInv, TypeOK, ProcessTypeOK, NoStmt
<1>2. CASE Start \/ Recovery \/ Exit \/ Crash
  BY <1>1, <1>2 DEF Start, Recovery, RecoverNothing, RecoverScan, Redo, Checkpoint, Exit, Crash,
     EndSession, sessionVars
<1>3. CASE Begin \/ Commit
  BY <1>1, <1>3 DEF Begin, Commit, Ready
<1>4. CASE StartInsert
  <2>1. /\ currentTxn' = currentTxn /\ pc # "down"
        /\ stmt'.txn \in {currentTxn, nextTxn}
    BY <1>4 DEF StartInsert, Ready, sessionVars, NoStmt
  <2> QED
    BY <2>1
<1>5. CASE MatchRow
  <2>1. /\ currentTxn' = currentTxn /\ pc # "down"
        /\ stmt'.txn = nextTxn
    BY <1>1, <1>5 DEF MatchRow, sessionVars, Stmt
  <2> QED
    BY <2>1
<1>6. CASE InsertSteps
  BY <1>1, <1>6 DEF InsertSteps, InsertTooLong, InsertLog, InsertNoTable, InsertTable,
     InsertCommit, EndStmt, sessionVars
<1>7. CASE OpenTable
  BY <1>1, <1>7 DEF OpenTable, sessionVars, NoStmt
<1>8. CASE LogRow \/ LogRowCommit \/ DeleteRow \/ UpdateRow \/ CloseTable
  BY <1>1, <1>8 DEF LogRow, LogRowCommit, DeleteRow, UpdateRow, CloseTable, EndStmt, sessionVars,
     Stmt
<1>9. CASE CreateTable \/ DropTable
  <2>1. /\ currentTxn' = currentTxn
        /\ stmt' = NoStmt \/ \E op, t : stmt' = [NoStmt EXCEPT !.op = op, !.table = t]
    BY <1>9 DEF CreateTable, DropTable, EndStmt, sessionVars
  <2>2. ASSUME NEW op, NEW t, stmt' = [NoStmt EXCEPT !.op = op, !.table = t] PROVE stmt'.txn = 0
    BY <2>2 DEF NoStmt
  <2> QED
    BY <1>1, <2>1, <2>2
<1>10. CASE CreateDb \/ UseDb \/ DdlSteps \/ UNCHANGED vars
  BY <1>1, <1>10 DEF CreateDb, UseDb, DdlSteps, CreateSchema, CreateCatalog, DropSchema,
     DropCatalog, UseDbWrite, EndStmt, vars, sessionVars
<1> QED
  BY <1>2, <1>3, <1>4, <1>5, <1>6, <1>7, <1>8, <1>9, <1>10
     DEF Next, NewStatement, Progress, RowSteps, Closed

\* A row is open from its INSERT on, and aborted when the process ends or a second
\* BEGIN takes the place of its transaction.
LEMMA StepOpen ==
  ASSUME TypeInv, [Next]_vars, NEW r \in Rows
  PROVE  /\ fate'[r] = "open" => fate[r] = "open" \/ (fate[r] = "new" /\ pc = "idle" /\ pc' = "ins_log")
         /\ fate'[r] = "aborted" => \/ fate[r] = "aborted"
                                    \/ (Exit \/ Crash \/ Begin) /\ r \in txnRows /\ fate[r] = "open"
<1>1. fate \in [Rows -> Fate]
  BY DEF TypeInv, TypeOK, HistoryTypeOK
<1>2. CASE Exit \/ Crash \/ Begin
  BY <1>1, <1>2 DEF Exit, Crash, FateAtEnd, Begin, SetFate
<1>3. CASE StartInsert
  BY <1>1, <1>3 DEF StartInsert, SetFate, Fresh, Ready
<1>4. ASSUME NEW S, NEW v, SetFate(S, v), v \notin {"open", "aborted"}
      PROVE  (fate'[r] = "open" => fate[r] = "open") /\ (fate'[r] = "aborted" => fate[r] = "aborted")
  BY <1>1, <1>4 DEF SetFate
<1>5. CASE Commit \/ InsertTooLong \/ InsertNoTable \/ InsertCommit \/ DropTable
  <2>1. \E S : SetFate(S, "acked") \/ SetFate(S, "failed") \/ SetFate(S, "deleted")
    BY <1>5 DEF Commit, InsertTooLong, InsertNoTable, InsertCommit, DropTable
  <2> QED
    BY <1>4, <2>1
<1>6. CASE MatchRow
  <2>1. fate' = fate \/ \E n \in Rows : SetFate({n}, "updating")
    BY <1>6 DEF MatchRow, Fresh, histVars
  <2> QED
    BY <1>4, <2>1
<1>7. CASE DeleteRow \/ UpdateRow
  <2>1. \E S : SetFate(S, "deleting") \/ SetFate(S, "failed")
    BY <1>7 DEF DeleteRow, UpdateRow
  <2> QED
    BY <1>4, <2>1
<1>8. CASE CloseTable
  <2>1. \E written \in BOOLEAN : FateAtClose(written)
    BY <1>8, Zenon DEF CloseTable
  <2> QED
    BY <1>1, <2>1 DEF FateAtClose
<1>9. ASSUME \/ Start \/ Recovery \/ InsertLog \/ InsertTable \/ OpenTable \/ LogRow
             \/ LogRowCommit \/ CreateTable \/ CreateDb \/ UseDb \/ DdlSteps \/ UNCHANGED vars
      PROVE  fate' = fate
  BY <1>9 DEF Start, Recovery, RecoverNothing, RecoverScan, Redo, Checkpoint, InsertLog,
       InsertTable, OpenTable, LogRow, LogRowCommit, CreateTable, CreateDb, UseDb, DdlSteps,
       CreateSchema, CreateCatalog, DropSchema, DropCatalog, UseDbWrite, vars, histVars
<1> QED
  BY <1>2, <1>3, <1>5, <1>6, <1>7, <1>8, <1>9
     DEF Next, NewStatement, Progress, InsertSteps, RowSteps, Closed

-----------------------------------------------------------------------------
(* RecordInv is inductive.                                                  *)

\* The records of a row that is not being inserted are old ones.
LEMMA RowRecords ==
  ASSUME TypeInv, [Next]_vars, NEW r \in Rows, ~(pc = "ins_log" /\ r = stmt.row),
         NEW i \in RecordsOf(r)'
  PROVE  i \in RecordsOf(r) /\ log'[i] = log[i]
<1>1. CASE InsertLog /\ AddedRecord(InsertRecord)
  <2>1. i \in Readable' /\ log'[i].row = r /\ InsertRecord.row = stmt.row /\ pc = "ins_log"
    BY <1>1 DEF RecordsOf, InsertRecord, NewRecord, InsertLog
  <2> QED
    BY <1>1, <2>1 DEF AddedRecord, RecordsOf
<1> QED
  BY <1>1, StepRecords DEF OldInserted

\* And those of the row being inserted have the transaction of the statement.
LEMMA InsertedRecords ==
  ASSUME TypeInv, RecordInv, [Next]_vars, pc = "ins_log", NEW i \in RecordsOf(stmt.row)',
         stmt' = stmt
  PROVE  log'[i].txn = stmt.txn /\ i = Len(log) + 1
<1>1. RecordsOf(stmt.row) = {} /\ stmt.row \in Rows
  BY TypeInvParts DEF RecordInv, OfItsInsert, InInsert, ProcInv, StmtOK
<1>2. InsertRecord.txn = stmt.txn
  BY DEF InsertRecord, NewRecord
<1>3. AddedRecord(InsertRecord) => log'[i].txn = stmt.txn /\ i = Len(log) + 1
  BY <1>1, <1>2 DEF AddedRecord, RecordsOf
<1>4. CASE OldInserted
  BY <1>1, <1>4 DEF OldInserted
<1> QED
  BY <1>3, <1>4, StepRecords

\* The statement of an INSERT that goes on stays.
LEMMA SameInsert ==
  ASSUME [Next]_vars, InInsert'
  PROVE  \/ StartInsert
         \/ /\ InInsert /\ UNCHANGED <<stmt, txnRows, fate>>
            /\ pc' = "ins_log" => pc = "ins_log" /\ UNCHANGED vars
<1>1. CASE InsertSteps
  BY <1>1 DEF InsertSteps, InsertTooLong, InsertLog, InsertNoTable, InsertTable, InsertCommit,
     EndStmt, InInsert, sessionVars, histVars
<1>2. ASSUME Start \/ Recovery \/ Exit \/ Crash \/ Begin \/ Commit PROVE FALSE
  BY <1>2 DEF InInsert, Start, Recovery, RecoverNothing, RecoverScan, Redo, Checkpoint, Exit,
     Crash, EndSession, Begin, Commit, Ready
<1>3. ASSUME \/ OpenTable \/ RowSteps \/ CreateTable \/ DropTable \/ CreateDb \/ UseDb \/ DdlSteps
      PROVE  FALSE
  BY <1>3 DEF InInsert, OpenTable, RowSteps, MatchRow, LogRow, LogRowCommit, DeleteRow, UpdateRow,
     CloseTable, CreateTable, DropTable, CreateDb, UseDb, DdlSteps, CreateSchema, CreateCatalog,
     DropSchema, DropCatalog, UseDbWrite, Ready, EndStmt
<1>4. CASE UNCHANGED vars
  BY <1>4 DEF vars, sessionVars, histVars, InInsert
<1> QED
  BY <1>1, <1>2, <1>3, <1>4 DEF Next, NewStatement, Progress, Closed

\* OneRecord, NoneBefore, InsertTxns: where records of a row come from.
LEMMA RecordsStep ==
  ASSUME TypeInv, TxnInv, RecordInv, [Next]_vars
  PROVE  OneRecord' /\ NoneBefore' /\ InsertTxns'
<1>1. ASSUME NEW r \in Rows, pc = "ins_log", r = stmt.row, InsertLog
      PROVE  \A i \in RecordsOf(r)' : log'[i].txn = stmt.txn /\ i = Len(log) + 1
  <2>1. stmt' = stmt
    BY <1>1 DEF InsertLog
  <2>2. RecordsOf(r)' = RecordsOf(stmt.row)'
    BY <1>1, <2>1 DEF RecordsOf
  <2> QED
    BY <1>1, <2>1, <2>2, InsertedRecords
<1>2. ASSUME NEW r \in Rows, ~(pc = "ins_log" /\ r = stmt.row /\ InsertLog), NEW i \in RecordsOf(r)'
      PROVE  i \in RecordsOf(r) /\ log'[i] = log[i]
  <2>1. CASE InsertLog
    BY <1>2, <2>1, RowRecords DEF InsertLog
  <2> QED
    BY <1>2, <2>1, StepRecords DEF OldInserted
<1>3. OneRecord'
  BY <1>1, <1>2 DEF RecordInv, OneRecord
<1>4. NoneBefore'
  <2>1. SUFFICES ASSUME NEW r \in Rows, fate'[r] = "new"
                 PROVE  RecordsOf(r)' = {} /\ r \notin txnRows'
    BY DEF NoneBefore
  <2>2. fate[r] = "new" /\ RecordsOf(r) = {} /\ r \notin txnRows
    BY <2>1, StepFate DEF RecordInv, NoneBefore
  <2>3. ~(InInsert /\ r = stmt.row)
    BY <2>2 DEF RecordInv, OfItsInsert
  <2>4. r \notin txnRows'
    BY <2>2, <2>3, StepTxnRows
  <2>5. RecordsOf(r)' = {}
    BY <1>2, <2>2, <2>3 DEF InInsert
  <2> QED
    BY <2>4, <2>5
<1>5. InsertTxns'
  <2>1. SUFFICES ASSUME NEW r \in Rows, NEW i \in RecordsOf(r)' PROVE log'[i].txn > 0
    BY DEF InsertTxns
  <2>2. CASE pc = "ins_log" /\ r = stmt.row /\ InsertLog
    <3>1. stmt.txn > 0
      BY <2>2 DEF TxnInv, TxnOK
    <3> QED
      BY <1>1, <2>1, <2>2, <3>1
  <2> QED
    BY <1>2, <2>1, <2>2 DEF RecordInv, InsertTxns
<1> QED
  BY <1>3, <1>4, <1>5

\* OfItsInsert: an INSERT logs the row it took, once.
LEMMA OfItsInsertStep ==
  ASSUME TypeInv, TxnInv, RecordInv, [Next]_vars
  PROVE  OfItsInsert'
<1>1. SUFFICES ASSUME InInsert'
               PROVE  /\ fate'[stmt'.row] = "open" /\ stmt'.row \notin txnRows'
                      /\ pc' = "ins_log" => RecordsOf(stmt.row)' = {}
                      /\ \A i \in RecordsOf(stmt.row)' : log'[i].txn = stmt'.txn
  BY DEF OfItsInsert
<1>2. CASE StartInsert
  <2>1. PICK r \in Fresh : /\ SetFate({r}, "open") /\ stmt'.row = r
                           /\ pc = "idle" /\ txnRows' = txnRows
    BY <1>2 DEF StartInsert, Ready, sessionVars, NoStmt
  <2>2. r \in Rows /\ fate[r] = "new" /\ RecordsOf(r) = {} /\ r \notin txnRows
    BY <2>1 DEF Fresh, RecordInv, NoneBefore
  <2>3. fate'[r] = "open"
    BY <2>1, <2>2 DEF SetFate
  <2>4. RecordsOf(r)' = {}
    BY <2>1, <2>2, RowRecords
  <2>5. RecordsOf(stmt.row)' = RecordsOf(r)'
    BY <2>1 DEF RecordsOf
  <2> QED
    BY <2>1, <2>2, <2>3, <2>4, <2>5
<1>3. CASE /\ InInsert /\ UNCHANGED <<stmt, txnRows, fate>>
           /\ pc' = "ins_log" => pc = "ins_log" /\ UNCHANGED vars
  <2>1. /\ fate[stmt.row] = "open" /\ stmt.row \notin txnRows /\ stmt.row \in Rows
        /\ pc = "ins_log" => RecordsOf(stmt.row) = {}
        /\ \A i \in RecordsOf(stmt.row) : log[i].txn = stmt.txn
    BY <1>3, TypeInvParts DEF RecordInv, OfItsInsert, ProcInv, StmtOK
  <2>2. CASE pc' = "ins_log"
    <3>1. UNCHANGED <<log, stmt>> /\ pc = "ins_log"
      BY <1>3, <2>2 DEF vars, walVars
    <3>2. RecordsOf(stmt.row)' = RecordsOf(stmt.row)
      BY <3>1 DEF RecordsOf, Readable
    <3> QED
      BY <1>3, <2>1, <3>1, <3>2
  <2>3. CASE pc' # "ins_log" /\ pc = "ins_log"
    BY <1>3, <2>1, <2>3, InsertedRecords
  <2>4. CASE pc # "ins_log"
    <3> DEFINE r == stmt.row
    <3>1. RecordsOf(r)' = RecordsOf(stmt.row)' /\ r \in Rows
      BY <1>3, <2>1 DEF RecordsOf
    <3>2. \A i \in RecordsOf(stmt.row)' : i \in RecordsOf(stmt.row) /\ log'[i] = log[i]
      <4>1. stmt' = stmt /\ stmt.row \in Rows
        BY <1>3, <2>1
      <4>2. CASE OldInserted
        BY <4>1, <4>2 DEF OldInserted, RecordsOf
      <4> QED
        BY <2>4, <4>2, StepRecords DEF InsertLog
    <3> QED
      BY <1>3, <2>1, <2>4, <3>2, Zenon
  <2> QED
    BY <2>2, <2>3, <2>4
<1> QED
  BY <1>1, <1>2, <1>3, SameInsert

\* What becomes of the rows of the explicit transaction and of the transaction.
LEMMA StepTxn ==
  ASSUME TypeInv, TxnInv, [Next]_vars
  PROVE  \/ txnRows' = {}
         \/ UNCHANGED <<txnRows, txnActive, currentTxn>>
         \/ /\ InInsert /\ txnActive /\ stmt.txn = currentTxn /\ pc = "ins_table"
            /\ txnRows' = txnRows \cup {stmt.row} /\ UNCHANGED <<txnActive, currentTxn>>
<1>1. CASE InsertTable
  <2>1. pc = "ins_table" /\ UNCHANGED <<txnActive, currentTxn>>
        /\ (txnRows' = txnRows \/ (~stmt.auto /\ txnRows' = txnRows \cup {stmt.row}))
    BY <1>1 DEF InsertTable
  <2>2. ~stmt.auto => txnActive /\ stmt.txn = currentTxn
    BY <2>1 DEF TxnInv, TxnOK, InInsert
  <2> QED
    BY <2>1, <2>2 DEF InInsert
<1>2. CASE Exit \/ Crash \/ Begin \/ Commit
  BY <1>2 DEF Exit, Crash, EndSession, Begin, Commit
<1>3. ASSUME \/ Start \/ Recovery \/ StartInsert \/ InsertTooLong \/ InsertLog \/ InsertNoTable
             \/ InsertCommit \/ OpenTable \/ RowSteps \/ CreateTable \/ DropTable
             \/ CreateDb \/ UseDb \/ DdlSteps \/ UNCHANGED vars
      PROVE  UNCHANGED <<txnRows, txnActive, currentTxn>>
  BY <1>3 DEF Start, Recovery, RecoverNothing, RecoverScan, Redo, Checkpoint, StartInsert,
       InsertTooLong, InsertLog, InsertNoTable, InsertCommit, OpenTable, RowSteps, MatchRow,
       LogRow, LogRowCommit, DeleteRow, UpdateRow, CloseTable, CreateTable, DropTable, CreateDb,
       UseDb, DdlSteps, CreateSchema, CreateCatalog, DropSchema, DropCatalog, UseDbWrite,
       vars, sessionVars
<1> QED
  BY <1>1, <1>2, <1>3 DEF Next, NewStatement, Progress, InsertSteps, Closed

\* OfItsTxn: the rows of the explicit transaction are logged with its id.
LEMMA OfItsTxnStep ==
  ASSUME TypeInv, TxnInv, RecordInv, [Next]_vars
  PROVE  OfItsTxn'
<1>1. CASE txnRows' = {}
  BY <1>1 DEF OfItsTxn
<1>2. ASSUME NEW r \in txnRows', fate'[r] = "open", r \in txnRows, currentTxn' = currentTxn
      PROVE  \A i \in RecordsOf(r)' : log'[i].txn = currentTxn'
  <2>1. r \in Rows /\ fate[r] # "new"
    BY <1>2 DEF TypeInv, TypeOK, ProcessTypeOK, RecordInv, NoneBefore
  <2>2. fate[r] = "open"
    BY <1>2, <2>1, StepOpen
  <2>3. ~(pc = "ins_log" /\ r = stmt.row)
    BY <1>2 DEF RecordInv, OfItsInsert, InInsert
  <2>4. \A i \in RecordsOf(r) : log[i].txn = currentTxn
    BY <1>2, <2>2 DEF RecordInv, OfItsTxn
  <2> QED
    BY <1>2, <2>1, <2>3, <2>4, RowRecords
<1>3. CASE UNCHANGED <<txnRows, txnActive, currentTxn>>
  BY <1>2, <1>3 DEF RecordInv, OfItsTxn
<1>4. CASE /\ InInsert /\ txnActive /\ stmt.txn = currentTxn /\ pc = "ins_table"
           /\ txnRows' = txnRows \cup {stmt.row} /\ UNCHANGED <<txnActive, currentTxn>>
  <2>1. stmt.row \in Rows /\ \A i \in RecordsOf(stmt.row) : log[i].txn = currentTxn
    BY <1>4, TypeInvParts DEF RecordInv, OfItsInsert, ProcInv, StmtOK
  <2>2. ASSUME NEW r \in txnRows', r = stmt.row
        PROVE  \A i \in RecordsOf(r)' : log'[i].txn = currentTxn'
    <3>1. pc # "ins_log" /\ r \in Rows /\ \A i \in RecordsOf(r) : log[i].txn = currentTxn
      BY <1>4, <2>1, <2>2
    <3> QED
      BY <1>4, <3>1, RowRecords
  <2> QED
    BY <1>2, <1>4, <2>2 DEF OfItsTxn
<1> QED
  BY <1>1, <1>3, <1>4, StepTxn

\* OfNoProcess: an aborted row's transaction is that of no later process.
LEMMA OfNoProcessStep ==
  ASSUME TypeInv, TxnInv, RecordInv, [Next]_vars
  PROVE  OfNoProcess'
<1>1. SUFFICES ASSUME NEW r \in Rows, fate'[r] = "aborted", NEW i \in RecordsOf(r)'
               PROVE  /\ log'[i].txn \notin {currentTxn', stmt'.txn}
                      /\ UncommittedNext(log'[i].txn)
  BY DEF OfNoProcess, Uncommitted, UncommittedNext
<1>2. fate[r] = "aborted" \/ ((Exit \/ Crash \/ Begin) /\ r \in txnRows /\ fate[r] = "open")
  BY <1>1, StepOpen
<1>3. ~(pc = "ins_log" /\ r = stmt.row)
  BY <1>2 DEF RecordInv, OfItsInsert, InInsert, Exit, Begin, Ready
<1>4. i \in RecordsOf(r) /\ log'[i] = log[i] /\ log[i].txn > 0
  BY <1>1, <1>3, RowRecords DEF RecordInv, InsertTxns
<1>5. i \in Readable /\ log[i].txn \in Nat /\ nextTxn \in Nat
  BY <1>4, RunningOrder, IdTypes DEF RecordsOf
<1>6. pc # "down" => log[i].txn # nextTxn
  <2>1. pc # "down" => log[i].txn < nextTxn
    BY <1>5 DEF TxnInv, LogOK, Numbered
  <2> QED
    BY <1>5, <2>1
<1>7. CASE fate[r] = "aborted"
  <2>1. log[i].txn \notin {currentTxn, stmt.txn} /\ Uncommitted(log[i].txn)
    BY <1>4, <1>7 DEF RecordInv, OfNoProcess
  <2>2. UncommittedNext(log[i].txn)
    BY <2>1, StepCommits
  <2>3. log[i].txn \notin {currentTxn', stmt'.txn}
    BY <1>4, <1>5, <1>6, <2>1, StepIds
  <2> QED
    BY <1>4, <2>2, <2>3
<1>8. CASE (Exit \/ Crash) /\ r \in txnRows /\ fate[r] = "open"
  <2>1. log[i].txn = currentTxn /\ txnActive /\ Uncommitted(currentTxn)
    BY <1>4, <1>8 DEF RecordInv, OfItsTxn, TxnInv, TxnOK
  <2>2. currentTxn' = 0 /\ stmt'.txn = 0
    BY <1>8 DEF Exit, Crash, EndSession, NoStmt
  <2>3. OldRecords
    <3>1. CASE Exit
      BY <3>1, RunningOrder, ShorterReadable DEF Exit, wal_close
    <3>2. CASE Crash
      <4> DEFINE inFlight == pc \in {"idle", "ins_log", "ins_commit", "scan", "row_log", "row_commit"}
      <4>1. LoseTail(inFlight)
        BY <3>2, Zenon DEF Crash
      <4>2. inFlight \in BOOLEAN
        OBVIOUS
      <4> HIDE DEF inFlight
      <4> QED
        BY <4>1, <4>2, RunningOrder, ShorterReadable
    <3> QED
      BY <1>8, <3>1, <3>2
  <2>4. UncommittedNext(log[i].txn)
    BY <2>1, <2>3 DEF OldRecords, Uncommitted, UncommittedNext
  <2> QED
    BY <1>4, <1>5, <2>2, <2>4
<1>9. CASE Begin /\ r \in txnRows /\ fate[r] = "open"
  <2>1. log[i].txn = currentTxn /\ Uncommitted(currentTxn)
    BY <1>4, <1>9 DEF RecordInv, OfItsTxn, TxnInv, TxnOK
  <2>2. currentTxn' = nextTxn /\ stmt'.txn = 0 /\ pc = "idle" /\ wal_begin
    BY <1>9 DEF Begin, Ready, TxnInv, TxnOK, NoStmt
  <2>3. log[i].txn \notin {currentTxn', stmt'.txn}
    BY <1>4, <1>5, <1>6, <2>2
  <2>4. LogInv /\ LogOrder /\ Order
    BY <2>2, RunningOrder
  <2>5. OldRecords => UncommittedNext(log[i].txn)
    BY <2>1 DEF OldRecords, Uncommitted, UncommittedNext
  <2>6. UncommittedNext(log[i].txn)
    BY <2>1, <2>2, <2>4, <2>5, BeginOrder
  <2> QED
    BY <1>4, <2>3, <2>6
<1> QED
  BY <1>2, <1>7, <1>8, <1>9

\* ImageOK: the image of an UPDATE is taken when its row is matched.
LEMMA ImageStep ==
  ASSUME TypeInv, RecordInv, [Next]_vars
  PROVE  ImageOK'
<1>1. SUFFICES ASSUME InRow', stmt'.op = "UPDATE" PROVE fate'[stmt'.image] # "new"
  BY DEF ImageOK
<1>2. CASE MatchRow
  <2>1. stmt.op = "UPDATE"
    BY <1>1, <1>2, TypeInvParts DEF MatchRow, ProcInv, ProcessTypeOK, Stmt
  <2>2. PICK n \in Rows : stmt'.image = n /\ SetFate({n}, "updating")
    BY <1>2, <2>1, TypeInvParts DEF MatchRow, Fresh, ProcInv, ProcessTypeOK, Stmt
  <2> QED
    BY <2>2 DEF SetFate
<1>3. CASE InRow /\ stmt'.op = stmt.op /\ stmt'.image = stmt.image
  <2>1. stmt.image \in Rows /\ fate[stmt.image] # "new"
    BY <1>1, <1>3, TypeInvParts DEF RecordInv, ImageOK, ProcInv, StmtOK
  <2> QED
    BY <1>3, <2>1, StepFate
<1>4. CASE LogRow \/ LogRowCommit
  BY <1>3, <1>4, TypeInvParts DEF LogRow, LogRowCommit, InRow, ProcInv, ProcessTypeOK, Stmt
<1>5. CASE UNCHANGED vars
  BY <1>1, <1>3, <1>5 DEF vars, InRow
<1>6. ASSUME \/ Start \/ Recovery \/ Exit \/ Crash \/ Begin \/ Commit \/ StartInsert
             \/ InsertSteps \/ OpenTable \/ DeleteRow \/ UpdateRow \/ CloseTable
             \/ CreateTable \/ DropTable \/ CreateDb \/ UseDb \/ DdlSteps
      PROVE  FALSE
  BY <1>1, <1>6 DEF InRow, Start, Recovery, RecoverNothing, RecoverScan, Redo, Checkpoint, Exit,
     Crash, EndSession, Begin, Commit, StartInsert, InsertSteps, InsertTooLong, InsertLog,
     InsertNoTable, InsertTable, InsertCommit, OpenTable, DeleteRow, UpdateRow, CloseTable,
     CreateTable, DropTable, CreateDb, UseDb, DdlSteps, CreateSchema, CreateCatalog, DropSchema,
     DropCatalog, UseDbWrite, Ready, EndStmt
<1> QED
  BY <1>2, <1>4, <1>5, <1>6 DEF Next, NewStatement, Progress, RowSteps, Closed

\* The records and the transactions of the rows, from the empty directory on.
LEMMA RecordInvInductive ==
  /\ Init => RecordInv
  /\ TypeInv /\ TxnInv /\ RecordInv /\ [Next]_vars => RecordInv'
<1>1. ASSUME Init PROVE RecordInv
  <2>1. /\ Readable = {} /\ txnRows = {} /\ pc = "down"
        /\ \A r \in Rows : fate[r] = "new"
    BY <1>1 DEF Init, WalInit, NoSession, Readable
  <2>2. \A r \in Rows : RecordsOf(r) = {}
    BY <2>1 DEF RecordsOf
  <2> QED
    BY <2>1, <2>2 DEF RecordInv, OneRecord, NoneBefore, OfItsInsert, OfItsTxn, OfNoProcess,
       InsertTxns, ImageOK, InInsert, InRow
<1>2. ASSUME TypeInv, TxnInv, RecordInv, [Next]_vars PROVE RecordInv'
  BY <1>2, RecordsStep, OfItsInsertStep, OfItsTxnStep, OfNoProcessStep, ImageStep DEF RecordInv
<1> QED
  BY <1>1, <1>2

\* What the invariants of the log say together.
RedoInv == TypeInv /\ TxnInv /\ RecordInv

\* The three are inductive together.
LEMMA RedoInvInductive == (Init => RedoInv) /\ (RedoInv /\ [Next]_vars => RedoInv')
  BY TypeInvInductive, TxnInvInductive, RecordInvInductive DEF RedoInv

-----------------------------------------------------------------------------
(* What recovery may redo.                                                  *)

\* Recovery redoes a row that was submitted, in a transaction with a COMMIT.
LEMMA RedoneRow ==
  ASSUME RedoInv, NEW r \in Rows, redoIdx \in Redoable, log[redoIdx].row = r
  PROVE  redoIdx \in RecordsOf(r) /\ fate[r] \notin {"aborted", "new"}
<1>1. redoIdx \in RecordsOf(r)
  BY DEF Redoable, Kept, RecordsOf
<1>2. fate[r] # "new"
  BY <1>1 DEF RedoInv, RecordInv, NoneBefore
<1>3. ~Uncommitted(log[redoIdx].txn)
  BY DEF Redoable, Committed, Commits, Kept, Uncommitted
<1> QED
  BY <1>1, <1>2, <1>3 DEF RedoInv, RecordInv, OfNoProcess

\* A step of a recovering process changes the tables only where it redoes.
LEMMA RedoStep ==
  ASSUME TypeInv, [Next]_vars, pc = "redo", rows' # rows
  PROVE  /\ Redo /\ MustRedo /\ RedoTarget \in File
         /\ redoIdx \in Readable /\ log[redoIdx].type = "INSERT" /\ log[redoIdx].row \in Rows
         /\ rows' = [rows EXCEPT ![RedoTarget] = PlusOne(rows[RedoTarget], log[redoIdx].row)]
<1>1. Redo
  BY DEF Next, NewStatement, Progress, Recovery, InsertSteps, RowSteps, DdlSteps, Closed, Start,
     RecoverNothing, RecoverScan, Checkpoint, Exit, Crash, Begin, Commit, StartInsert,
     InsertTooLong, InsertLog, InsertNoTable, InsertTable, InsertCommit, OpenTable, MatchRow,
     LogRow, LogRowCommit, DeleteRow, UpdateRow, CloseTable, CreateTable, DropTable, CreateDb,
     UseDb, CreateSchema, CreateCatalog, DropSchema, DropCatalog, UseDbWrite, Ready, vars, fileVars
<1>2. /\ MustRedo /\ CanOpen(RedoTarget) /\ redoIdx \in Kept
      /\ StoreRows(RedoTarget, PlusOne(rows[RedoTarget], log[redoIdx].row))
  BY <1>1 DEF Redo, redo_insert, fileVars
<1>3. redoIdx \in Readable /\ redoIdx \in 1..Len(log) /\ log[redoIdx].type = "INSERT"
  BY <1>2 DEF MustRedo, Redoable, Kept, Readable
<1>4. log[redoIdx].row \in Rows /\ RedoTarget \in File
  BY <1>2, <1>3, TypeInvParts DEF LogInv, InsertRecordsOK, CanOpen, table_exists, FilesTypeOK
<1> QED
  BY <1>1, <1>2, <1>3, <1>4 DEF StoreRows

\* While the commits of the log fit its list, recovery overwrites no record.
LEMMA NoneSmashed ==
  ASSUME TypeInv, ~smashed, CommitsFit, [Next]_vars
  PROVE  ~smashed'
<1>1. CASE RecoverScan
  <2>1. Cardinality(Commits) \in Nat
    <3>1. Commits \subseteq 1..Len(log) /\ Len(log) \in Nat
      BY TypeInvParts DEF Commits, Kept, Readable, LogInv, WalTypeOK
    <3>2. IsFiniteSet(1..Len(log))
      BY <3>1, FS_Interval
    <3>3. IsFiniteSet(Commits)
      BY <3>1, <3>2, FS_Subset
    <3> QED
      BY <3>3, FS_CardinalityType
  <2>2. ~(\E n \in 1..Cardinality(Commits) : Cardinality(Commits) >= MaxCommitted + n)
    BY <2>1, WalAssumption DEF CommitsFit
  <2> QED
    BY <1>1, <2>2 DEF RecoverScan
<1>2. CASE Start \/ RecoverNothing \/ Redo \/ Checkpoint \/ Exit \/ Crash
  BY <1>2 DEF Start, RecoverNothing, Redo, Checkpoint, Exit, Crash, EndSession, redoVars
<1>3. ASSUME \/ Begin \/ Commit \/ StartInsert \/ InsertSteps \/ OpenTable \/ RowSteps \/ CreateTable
             \/ DropTable \/ CreateDb \/ UseDb \/ DdlSteps \/ UNCHANGED vars
      PROVE  smashed' = smashed
  BY <1>3 DEF Begin, Commit, StartInsert, InsertSteps, InsertTooLong, InsertLog, InsertNoTable,
       InsertTable, InsertCommit, OpenTable, RowSteps, MatchRow, LogRow, LogRowCommit, DeleteRow,
       UpdateRow, CloseTable, CreateTable, DropTable, CreateDb, UseDb, DdlSteps, CreateSchema,
       CreateCatalog, DropSchema, DropCatalog, UseDbWrite, vars, redoVars
<1> QED
  BY <1>1, <1>2, <1>3 DEF Next, NewStatement, Progress, Recovery, Closed

(* Recovery discards what was not committed: while the log never has more    *)
(* COMMIT records than wal_recover's list has room for, no step of it adds a *)
(* copy of a row whose explicit transaction was open when its process died,  *)
(* whatever later processes commit, crash or lose.                           *)
THEOREM AbortedStayOut == Spec /\ []CommitsFit => AbortedNotRedone
<1> DEFINE Inv == RedoInv /\ ~smashed
<1>1. Init => Inv
  BY RedoInvInductive DEF Init, NoSession
<1>2. Inv /\ CommitsFit /\ [Next]_vars => Inv'
  BY RedoInvInductive, NoneSmashed DEF RedoInv
<1>3. Inv /\ [Next]_vars =>
        [pc = "redo" => \A f \in File, r \in Rows :
           rows'[f][r] > rows[f][r] => fate[r] \notin {"aborted", "new"}]_vars
  <2>1. SUFFICES ASSUME Inv, [Next]_vars, pc = "redo", NEW f \in File, NEW r \in Rows,
                        rows'[f][r] > rows[f][r]
                 PROVE  fate[r] \notin {"aborted", "new"}
    OBVIOUS
  <2>2. rows \in [File -> Copies] /\ rows[f][r] \in Nat
    BY <2>1, TypeInvParts DEF RedoInv, FilesTypeOK, Copies
  <2>3. rows' # rows
    BY <2>1, <2>2
  <2>4. /\ redoIdx \in Redoable /\ log[redoIdx].row \in Rows
        /\ rows' = [rows EXCEPT ![RedoTarget] = PlusOne(rows[RedoTarget], log[redoIdx].row)]
    BY <2>1, <2>3, RedoStep DEF MustRedo, RedoInv
  <2>5. log[redoIdx].row = r
    BY <2>1, <2>2, <2>4 DEF PlusOne, Copies
  <2> QED
    BY <2>1, <2>4, <2>5, RedoneRow
<1> HIDE DEF Inv
<1> QED
  BY <1>1, <1>2, <1>3, PTL DEF Spec, AbortedNotRedone

-----------------------------------------------------------------------------
(* CopiesInv is inductive.                                                  *)

Bound(r) == IF fate[r] = "new" THEN 0 ELSE sessions

\* No step lowers the bound of a row.
LEMMA BoundGrows ==
  ASSUME TypeInv, [Next]_vars, NEW r \in Rows, NEW n \in Nat, n <= Bound(r)
  PROVE  n <= Bound(r)' /\ sessions \in Nat /\ sessions' \in {sessions, sessions + 1}
<1>1. sessions \in Nat
  BY DEF TypeInv, TypeOK, ProcessTypeOK
<1>2. sessions' \in {sessions, sessions + 1}
  <2>1. CASE Start
    BY <2>1 DEF Start
  <2>2. ASSUME ~Start PROVE sessions' = sessions
    BY <2>2 DEF Next, NewStatement, Progress, Recovery, InsertSteps, RowSteps, DdlSteps, Closed,
       RecoverNothing, RecoverScan, Redo, Checkpoint, Exit, Crash, Begin, Commit, StartInsert,
       InsertTooLong, InsertLog, InsertNoTable, InsertTable, InsertCommit, OpenTable, MatchRow,
       LogRow, LogRowCommit, DeleteRow, UpdateRow, CloseTable, CreateTable, DropTable, CreateDb,
       UseDb, CreateSchema, CreateCatalog, DropSchema, DropCatalog, UseDbWrite, vars
  <2> QED
    BY <2>1, <2>2
<1>3. CASE fate[r] = "new"
  BY <1>1, <1>2, <1>3 DEF Bound
<1>4. CASE fate[r] # "new"
  <2>1. fate'[r] # "new"
    BY <1>4, StepFate
  <2> QED
    BY <1>1, <1>2, <1>4, <2>1 DEF Bound
<1> QED
  BY <1>1, <1>2, <1>3, <1>4

\* The rows that can be on a page: those submitted, at most once per start.
LEMMA CopiesOnPage ==
  ASSUME RedoInv, CopiesInv, [Next]_vars
  PROVE  CopiesBounded'
<1>1. TypeInv /\ rows \in [File -> Copies]
  BY TypeInvParts DEF RedoInv, FilesTypeOK
<1>2. SUFFICES ASSUME NEW f \in File, NEW r \in Rows PROVE rows'[f][r] <= Bound(r)'
  BY DEF CopiesBounded, Bound
<1>3. rows[f][r] \in Nat /\ rows[f][r] <= Bound(r)
  BY <1>1 DEF CopiesInv, CopiesBounded, Bound, Copies
<1>4. rows[f][r] <= Bound(r)' /\ sessions \in Nat
  BY <1>1, <1>3, BoundGrows
<1>5. CASE rows'[f][r] = rows[f][r]
  BY <1>4, <1>5
<1>6. CASE InsertTable /\ rows'[f][r] # rows[f][r]
  <2>1. pc = "ins_table" /\ StoreRows(F, PlusOne(rows[F], stmt.row)) /\ UNCHANGED <<fate, sessions>>
    BY <1>6 DEF InsertTable, histVars
  <2>2. stmt.row \in Rows /\ F \in File /\ fate[stmt.row] = "open"
    BY <1>1, <2>1, TypeInvParts
       DEF ProcInv, ProcessTypeOK, StmtOK, InInsert, InTable, F, File, RedoInv, RecordInv, OfItsInsert
  <2>3. f = F /\ r = stmt.row /\ rows'[f][r] = rows[f][r] + 1
    BY <1>1, <1>6, <2>1, <2>2 DEF StoreRows, PlusOne, Copies
  <2>4. rows[f][r] = 0 /\ sessions > 0
    BY <2>1, <2>3 DEF CopiesInv
  <2> QED
    BY <1>4, <2>1, <2>2, <2>3, <2>4 DEF Bound
<1>7. CASE pc = "redo" /\ rows'[f][r] # rows[f][r]
  <2>1. /\ redoIdx \in Readable /\ log[redoIdx].type = "INSERT" /\ log[redoIdx].row \in Rows
        /\ rows' = [rows EXCEPT ![RedoTarget] = PlusOne(rows[RedoTarget], log[redoIdx].row)]
        /\ Redo /\ RedoTarget \in File
    BY <1>1, <1>7, RedoStep
  <2>2. r = log[redoIdx].row /\ rows'[f][r] = rows[f][r] + 1
    BY <1>1, <1>7, <2>1 DEF PlusOne, Copies
  <2>3. redoIdx \in RecordsOf(r) /\ redoIdx >= redoIdx
    BY <1>1, <2>1, <2>2 DEF RecordsOf, TypeInv, TypeOK, ProcessTypeOK
  <2>4. rows[f][r] < sessions /\ fate[r] # "new"
    BY <1>7, <2>3 DEF CopiesInv, RedoInv, RecordInv, NoneBefore
  <2>5. UNCHANGED <<fate, sessions>>
    BY <2>1 DEF Redo, histVars
  <2> QED
    BY <1>3, <1>4, <2>2, <2>4, <2>5 DEF Bound
<1>8. CASE CloseTable
  <2>1. InScan /\ F \in File /\ mem \in Copies
    BY <1>1, <1>8, TypeInvParts
       DEF CloseTable, ProcInv, StmtOK, InScan, InTable, F, File, ProcessTypeOK
  <2>2. rows'[f] \in {rows[f], mem}
    BY <1>1, <1>8, <2>1 DEF CloseTable, StoreRows
  <2>3. mem[r] \in Nat /\ mem[r] <= Bound(r)
    BY <2>1 DEF CopiesInv, CopyOK, Bound, Copies
  <2>4. mem[r] <= Bound(r)'
    BY <1>1, <2>3, BoundGrows
  <2> QED
    BY <1>4, <2>2, <2>4
<1>9. CASE CreateTable \/ DropTable
  <2>1. \E g : rows' = [rows EXCEPT ![g] = NoRows]
    BY <1>9 DEF CreateTable, CreateData, DropTable, RemoveData, StoreRows
  <2>2. rows'[f] \in {rows[f], NoRows}
    BY <1>1, <2>1
  <2>3. NoRows[r] = 0 /\ 0 <= Bound(r)
    BY <1>4 DEF NoRows, Bound
  <2>4. 0 <= Bound(r)'
    BY <1>1, <2>3, BoundGrows
  <2> QED
    BY <1>4, <2>2, <2>3, <2>4
<1>10. ASSUME \/ Start \/ RecoverNothing \/ RecoverScan \/ Checkpoint \/ Exit \/ Crash \/ Begin
              \/ Commit \/ StartInsert \/ InsertTooLong \/ InsertLog \/ InsertNoTable
              \/ InsertCommit \/ OpenTable \/ MatchRow \/ LogRow \/ LogRowCommit \/ DeleteRow
              \/ UpdateRow \/ CreateDb \/ UseDb \/ DdlSteps \/ UNCHANGED vars
       PROVE  rows' = rows
  BY <1>10 DEF Start, MakeDb, RecoverNothing, RecoverScan, Checkpoint, Exit, Crash, Begin, Commit,
       StartInsert, InsertTooLong, InsertLog, InsertNoTable, InsertCommit, OpenTable, MatchRow,
       LogRow, LogRowCommit, DeleteRow, UpdateRow, CreateDb, UseDb, SetCurFile, DdlSteps,
       CreateSchema, save_schema, CreateCatalog, catalog_add, DropSchema, RemoveSchema,
       DropCatalog, catalog_remove, UseDbWrite, vars, fileVars
<1>11. Redo => pc = "redo"
  BY DEF Redo
<1> QED
  BY <1>5, <1>6, <1>7, <1>8, <1>9, <1>10, <1>11
     DEF Next, NewStatement, Progress, Recovery, InsertSteps, RowSteps, Closed

\* Recovery: no table has this start's copy of a row whose record is to come.
LEMMA CopiesInRecovery ==
  ASSUME RedoInv, CopiesInv, [Next]_vars
  PROVE  /\ pc' # "down" => sessions' > 0
         /\ pc' = "recover" => \A f \in File, r \in Rows : rows'[f][r] < sessions'
         /\ pc' = "redo" => \A r \in Rows : (\E i \in RecordsOf(r)' : i >= redoIdx') =>
                              \A f \in File : rows'[f][r] < sessions'
<1>1. TypeInv /\ rows \in [File -> Copies] /\ sessions \in Nat /\ redoIdx \in Nat
  BY TypeInvParts DEF RedoInv, FilesTypeOK, ProcInv, ProcessTypeOK
<1>2. CASE Start
  <2>1. sessions' = sessions + 1 /\ rows' = rows /\ pc' = "recover"
    BY <1>2 DEF Start, MakeDb
  <2>2. ASSUME NEW f \in File, NEW r \in Rows PROVE rows[f][r] < sessions + 1
    <3>1. rows[f][r] \in Nat /\ rows[f][r] <= (IF fate[r] = "new" THEN 0 ELSE sessions)
      BY <1>1 DEF CopiesInv, CopiesBounded, Copies
    <3> QED
      BY <1>1, <3>1
  <2> QED
    BY <1>1, <2>1, <2>2
<1>3. CASE RecoverScan
  BY <1>3 DEF RecoverScan, fileVars, CopiesInv
<1>4. CASE Redo
  <2>1. /\ pc = "redo" /\ pc' = "redo" /\ redoIdx' = redoIdx + 1
        /\ UNCHANGED <<log, sessions>>
    BY <1>4 DEF Redo, walVars
  <2>2. ASSUME NEW r \in Rows, NEW i \in RecordsOf(r)', i >= redoIdx', NEW f \in File
        PROVE  rows'[f][r] < sessions'
    <3>1. i \in RecordsOf(r) /\ i >= redoIdx + 1 /\ i \in Nat
      BY <1>1, <2>1, <2>2, IdTypes, TypeInvParts DEF RecordsOf, Readable
    <3>2. i >= redoIdx /\ i # redoIdx
      BY <1>1, <3>1
    <3>3. rows[f][r] < sessions
      BY <2>1, <3>1, <3>2 DEF CopiesInv
    <3>4. ASSUME rows' # rows PROVE rows'[f][r] = rows[f][r]
      <4>1. /\ redoIdx \in Readable /\ log[redoIdx].type = "INSERT" /\ log[redoIdx].row \in Rows
            /\ rows' = [rows EXCEPT ![RedoTarget] = PlusOne(rows[RedoTarget], log[redoIdx].row)]
        BY <1>1, <2>1, <3>4, RedoStep
      <4>2. log[redoIdx].row # r
        BY <3>1, <3>2, <4>1 DEF RecordsOf, RedoInv, RecordInv, OneRecord
      <4> QED
        BY <1>1, <4>1, <4>2 DEF PlusOne, Copies
    <3> QED
      BY <2>1, <3>3, <3>4
  <2> QED
    BY <2>1, <2>2 DEF CopiesInv
<1>5. CASE UNCHANGED vars
  BY <1>5 DEF vars, fileVars, walVars, redoVars, CopiesInv, RecordsOf, Readable
<1>6. ASSUME ~Start, ~RecoverScan, ~Redo, ~(UNCHANGED vars)
      PROVE  /\ pc' \notin {"recover", "redo"}
             /\ pc' # "down" => pc # "down" /\ sessions' = sessions
  BY <1>6 DEF Next, NewStatement, Progress, Recovery, InsertSteps, RowSteps, DdlSteps, Closed,
     RecoverNothing, Checkpoint, Exit, Crash, EndSession, Begin, Commit, StartInsert,
     InsertTooLong, InsertLog, InsertNoTable, InsertTable, InsertCommit, OpenTable, MatchRow,
     LogRow, LogRowCommit, DeleteRow, UpdateRow, CloseTable, CreateTable, DropTable, CreateDb,
     UseDb, CreateSchema, CreateCatalog, DropSchema, DropCatalog, UseDbWrite, EndStmt, Ready
<1> QED
  BY <1>2, <1>3, <1>4, <1>5, <1>6 DEF CopiesInv

\* INSERT: its row is new, on no page until it writes it.
LEMMA CopiesInInsert ==
  ASSUME RedoInv, CopiesInv, [Next]_vars, pc' \in {"ins_log", "ins_table"}, NEW f \in File
  PROVE  rows'[f][stmt'.row] = 0
<1>1. TypeInv /\ rows \in [File -> Copies]
  BY TypeInvParts DEF RedoInv, FilesTypeOK
<1>2. CASE StartInsert
  <2>1. PICK r \in Fresh : stmt'.row = r /\ rows' = rows
    BY <1>2 DEF StartInsert, fileVars, NoStmt
  <2>2. r \in Rows /\ rows[f][r] <= 0 /\ rows[f][r] \in Nat
    BY <1>1, <2>1 DEF Fresh, CopiesInv, CopiesBounded, Copies
  <2> QED
    BY <2>1, <2>2
<1>3. CASE InInsert /\ UNCHANGED stmt
  <2>1. pc \in {"ins_log", "ins_table"} /\ rows' = rows
    BY <1>3 DEF InInsert, Next, NewStatement, Progress, Recovery, InsertSteps, RowSteps, DdlSteps,
     Closed, Start, RecoverNothing, RecoverScan, Redo, Checkpoint, Exit, Crash, EndSession, Begin,
     Commit, StartInsert, InsertTooLong, InsertLog, InsertNoTable, InsertTable, InsertCommit,
     OpenTable, MatchRow, LogRow, LogRowCommit, DeleteRow, UpdateRow, CloseTable, CreateTable,
     DropTable, CreateDb, UseDb, CreateSchema, CreateCatalog, DropSchema, DropCatalog, UseDbWrite,
     EndStmt, Ready, fileVars, vars
  <2> QED
    BY <1>3, <2>1 DEF CopiesInv
<1> QED
  BY <1>2, <1>3, SameInsert DEF InInsert

\* UPDATE and DELETE: the frame holds as much as a page may, and the image of
\* an UPDATE is not in it.
LEMMA CopiesInScan ==
  ASSUME RedoInv, CopiesInv, [Next]_vars
  PROVE  /\ InScan' => CopyOK(mem)'
         /\ InRow' /\ stmt'.op = "UPDATE" => mem'[stmt'.image] = 0
<1>1. /\ TypeInv /\ rows \in [File -> Copies] /\ mem \in Copies /\ stmt \in Stmt
      /\ sessions \in Nat /\ curDb \in Dbs
  BY TypeInvParts DEF RedoInv, FilesTypeOK, ProcInv, ProcessTypeOK
<1>2. ASSUME NEW b \in Copies, CopyOK(b), mem' = b PROVE CopyOK(mem)'
  BY <1>1, <1>2, BoundGrows DEF CopyOK, Bound, Copies
<1>3. CASE OpenTable
  <2>1. PICK t \in Tables : mem' = rows[<<curDb, t>>]
    BY <1>3 DEF OpenTable
  <2>2. <<curDb, t>> \in File
    BY <1>1 DEF File
  <2>3. rows[<<curDb, t>>] \in Copies /\ CopyOK(rows[<<curDb, t>>])
    BY <1>1, <2>2 DEF CopiesInv, CopiesBounded, CopyOK
  <2>4. ~InRow'
    BY <1>3 DEF OpenTable, InRow
  <2> QED
    BY <1>2, <2>1, <2>3, <2>4
<1>4. CASE MatchRow
  <2>1. mem' = mem /\ CopyOK(mem)
    BY <1>4 DEF MatchRow, scanVars, CopiesInv, InScan
  <2>2. ASSUME stmt'.op = "UPDATE" PROVE mem'[stmt'.image] = 0
    <3>1. PICK n \in Fresh : stmt'.image = n
      BY <1>1, <1>4, <2>2 DEF MatchRow, Stmt
    <3>2. n \in Rows /\ mem[n] \in Nat /\ mem[n] <= 0
      BY <1>1, <2>1, <3>1 DEF Fresh, CopyOK, Copies
    <3> QED
      BY <2>1, <3>1, <3>2
  <2> QED
    BY <1>1, <1>2, <2>1, <2>2
<1>5. CASE LogRow \/ LogRowCommit
  <2>1. /\ mem' = mem /\ stmt'.op = stmt.op /\ stmt'.image = stmt.image /\ InRow /\ InScan
    BY <1>1, <1>5 DEF LogRow, LogRowCommit, scanVars, InRow, InScan, Stmt
  <2> QED
    BY <1>1, <1>2, <2>1 DEF CopiesInv
<1>6. CASE DeleteRow \/ UpdateRow
  <2>1. /\ InRow /\ InScan /\ ~InRow' /\ UNCHANGED sessions
        /\ \/ mem' = MinusOne(mem, stmt.row)
           \/ stmt.op = "UPDATE" /\ mem' = PlusOne(MinusOne(mem, stmt.row), stmt.image)
    BY <1>6 DEF DeleteRow, UpdateRow, InRow, InScan
  <2>2. /\ stmt.row \in Rows /\ stmt.image \in Rows /\ mem[stmt.row] > 0
        /\ CopyOK(mem) /\ (stmt.op = "UPDATE" => mem[stmt.image] = 0 /\ fate[stmt.image] # "new")
    <3>1. stmt.row \in Rows /\ stmt.image \in Rows /\ left[stmt.row] > 0 /\ left[stmt.row] <= mem[stmt.row]
      BY <1>1, <2>1, TypeInvParts DEF ProcInv, StmtOK, LeftOK
    <3>2. left[stmt.row] \in Nat /\ mem[stmt.row] \in Nat
      BY <1>1, <3>1, TypeInvParts DEF ProcInv, ProcessTypeOK, Copies
    <3> QED
      BY <2>1, <3>1, <3>2 DEF CopiesInv, RedoInv, RecordInv, ImageOK
  <2>3. ASSUME NEW r \in Rows PROVE mem'[r] \in Nat /\ mem'[r] <= Bound(r)
    <3>1. mem[r] \in Nat /\ mem[r] <= Bound(r)
      BY <1>1, <2>2 DEF CopyOK, Bound, Copies
    <3>2. /\ MinusOne(mem, stmt.row)[r] \in Nat
          /\ MinusOne(mem, stmt.row)[r] <= mem[r]
      BY <1>1, <2>2, <3>1 DEF MinusOne, Copies
    <3>3. /\ MinusOne(mem, stmt.row) \in Copies
      BY <1>1, <2>2, CopiesType
    <3>4. ASSUME mem' = PlusOne(MinusOne(mem, stmt.row), stmt.image), stmt.op = "UPDATE"
          PROVE  mem'[r] \in Nat /\ mem'[r] <= Bound(r)
      <4>1. CASE r # stmt.image
        <5>1. mem'[r] = MinusOne(mem, stmt.row)[r]
          BY <2>2, <3>3, <3>4, <4>1 DEF PlusOne, Copies
        <5>2. Bound(r) \in Nat
          BY <1>1 DEF Bound
        <5> QED
          BY <3>1, <3>2, <5>1, <5>2
      <4>2. CASE r = stmt.image
        <5>1. mem'[r] = 1
          BY <1>1, <2>2, <3>3, <3>4, <4>2 DEF PlusOne, MinusOne, Copies
        <5>2. Bound(r) = sessions /\ sessions > 0
          BY <2>1, <2>2, <3>4, <4>2 DEF Bound, CopiesInv, InRow
        <5> QED
          BY <1>1, <5>1, <5>2
      <4> QED
        BY <4>1, <4>2
    <3>5. ASSUME mem' = MinusOne(mem, stmt.row)
          PROVE  mem'[r] \in Nat /\ mem'[r] <= Bound(r)
      <4>1. Bound(r) \in Nat
        BY <1>1 DEF Bound
      <4> QED
        BY <3>1, <3>2, <3>5, <4>1
    <3> QED
      BY <2>1, <3>4, <3>5
  <2>4. \A r \in Rows : mem'[r] <= Bound(r)'
    BY <1>1, <2>3, BoundGrows
  <2> QED
    BY <2>1, <2>4 DEF CopyOK, Bound
<1>7. CASE UNCHANGED vars
  BY <1>7 DEF vars, scanVars, histVars, CopiesInv, InScan, InRow, CopyOK
<1>8. ASSUME \/ Start \/ Recovery \/ Exit \/ Crash \/ Begin \/ Commit \/ StartInsert
             \/ InsertSteps \/ CloseTable \/ CreateTable \/ DropTable \/ CreateDb \/ UseDb \/ DdlSteps
      PROVE  ~InScan' /\ ~InRow'
  BY <1>8 DEF InScan, InRow, Start, Recovery, RecoverNothing, RecoverScan, Redo, Checkpoint, Exit,
     Crash, EndSession, Begin, Commit, StartInsert, InsertSteps, InsertTooLong, InsertLog,
     InsertNoTable, InsertTable, InsertCommit, CloseTable, CreateTable, DropTable, CreateDb,
     UseDb, DdlSteps, CreateSchema, CreateCatalog, DropSchema, DropCatalog, UseDbWrite, Ready, EndStmt
<1> QED
  BY <1>3, <1>4, <1>5, <1>6, <1>7, <1>8 DEF Next, NewStatement, Progress, RowSteps, Closed

\* The copies of the rows, from the empty data directory on.
LEMMA CopiesInvInductive ==
  /\ Init => CopiesInv
  /\ RedoInv /\ CopiesInv /\ [Next]_vars => CopiesInv'
<1>1. ASSUME Init PROVE CopiesInv
  <2>1. \A f \in File, r \in Rows : rows[f][r] = 0
    BY <1>1 DEF Init, FilesInit, NoRows
  <2>2. pc = "down" /\ sessions = 0
    BY <1>1 DEF Init
  <2> QED
    BY <2>1, <2>2 DEF CopiesInv, CopiesBounded, InScan, InRow
<1>2. ASSUME RedoInv, CopiesInv, [Next]_vars PROVE CopiesInv'
  BY <1>2, CopiesOnPage, CopiesInRecovery, CopiesInInsert, CopiesInScan DEF CopiesInv
<1> QED
  BY <1>1, <1>2

(* However often processes die before they truncate the log, or fail to, and *)
(* whatever runs over the records: a row nobody submitted is nowhere, and a  *)
(* row has at most one copy per start in any table, so that each recovery    *)
(* adds at most one.                                                        *)
THEOREM RedoneOncePerStart == Spec => []CopiesBounded
<1>1. CopiesInv => CopiesBounded
  BY DEF CopiesInv
<1> QED
  BY <1>1, RedoInvInductive, CopiesInvInductive, PTL DEF Spec

-----------------------------------------------------------------------------
(* LoggedInv is inductive while writes and fsyncs of the log do not fail.   *)

LogWritten == "log_write" \notin Faults

SyncedKept == /\ \A i \in 1..synced : i \in 1..synced' /\ log'[i] = log[i]
              /\ \A r \in Rows : \A types : Logged(r, types) =>
                   \E i \in 1..synced' : log'[i].type \in types /\ log'[i].row = r
              /\ UpdateLogged => UpdateLogged'

\* write_record adds its record, and the fsync covers it.
LEMMA WrittenSynced ==
  ASSUME LogWritten, LogInv, NEW rec, NEW sync \in BOOLEAN, write_record(rec, sync)
  PROVE  /\ SyncedKept
         /\ sync => synced' = Len(log) + 1 /\ log'[Len(log) + 1] = rec
<1>1. log' = Append(log, rec) /\ synced' = IF sync THEN Len(log) + 1 ELSE synced
  BY DEF write_record, Fault, CanFail, LogWritten
<1>2. log \in Seq(WALRecord) /\ Len(log) \in Nat /\ synced \in Nat /\ synced <= Len(log)
  BY DEF LogInv, WalTypeOK
<1>3. /\ \A i \in 1..Len(log) : log'[i] = log[i]
      /\ log'[Len(log) + 1] = rec
  BY <1>1, <1>2
<1>4. \A i \in 1..synced : i \in 1..synced' /\ log'[i] = log[i]
  BY <1>1, <1>2, <1>3
<1> QED
  BY <1>1, <1>3, <1>4 DEF SyncedKept, Logged, UpdateLogged

\* The synced part of the log of a running process only grows.
LEMMA StepSynced ==
  ASSUME LogWritten, TypeInv, [Next]_vars, pc \notin {"down", "recover", "redo"}, pc' # "down"
  PROVE  SyncedKept
<1>1. LogInv /\ synced \in Nat
  BY TypeInvParts DEF LogInv, WalTypeOK
<1>2. CASE UNCHANGED <<log, synced>>
  BY <1>2 DEF SyncedKept, Logged, UpdateLogged
<1>3. ASSUME NEW rec, NEW sync \in BOOLEAN, write_record(rec, sync) PROVE SyncedKept
  BY <1>1, <1>3, WrittenSynced
<1>4. CASE \/ Begin \/ MatchRow \/ StartInsert \/ Commit \/ InsertCommit \/ LogRowCommit
           \/ InsertLog \/ LogRow
  <2>1. \/ wal_begin \/ UNCHANGED walVars \/ \E txn : wal_commit(txn)
        \/ \E txn, type, table, row : wal_write(txn, type, table, row)
    BY <1>4, Zenon DEF Begin, MatchRow, StartInsert, Commit, InsertCommit, LogRowCommit, InsertLog,
       LogRow
  <2>2. CASE wal_begin
    <3>1. write_record(NewRecord(nextTxn, "BEGIN", None, None), FALSE)
      BY <2>2, Zenon DEF wal_begin
    <3> QED
      BY <1>3, <3>1
  <2>3. ASSUME NEW txn, wal_commit(txn) PROVE SyncedKept
    <3>1. write_record(NewRecord(txn, "COMMIT", None, None), TRUE)
      BY <2>3, Zenon DEF wal_commit
    <3> QED
      BY <1>3, <3>1
  <2>4. ASSUME NEW txn, NEW type, NEW table, NEW row, wal_write(txn, type, table, row)
        PROVE  SyncedKept
    <3>1. write_record(NewRecord(txn, type, table, row), TRUE)
      BY <2>4, Zenon DEF wal_write
    <3> QED
      BY <1>3, <3>1
  <2> QED
    BY <1>2, <2>1, <2>2, <2>3, <2>4 DEF walVars
<1>5. ASSUME \/ InsertTooLong \/ InsertNoTable \/ InsertTable \/ OpenTable \/ DeleteRow \/ UpdateRow
             \/ CloseTable \/ CreateTable \/ DropTable \/ CreateDb \/ UseDb \/ DdlSteps
             \/ UNCHANGED vars
      PROVE  UNCHANGED <<log, synced>>
  BY <1>5 DEF InsertTooLong, InsertNoTable, InsertTable, OpenTable, DeleteRow, UpdateRow, CloseTable,
     CreateTable, DropTable, CreateDb, UseDb, DdlSteps, CreateSchema, CreateCatalog, DropSchema,
     DropCatalog, UseDbWrite, vars, walVars
<1>6. ASSUME Start \/ Recovery \/ Exit \/ Crash PROVE FALSE
  BY <1>6 DEF Start, Recovery, RecoverNothing, RecoverScan, Redo, Checkpoint, Exit, Crash, EndSession
<1> QED
  BY <1>2, <1>4, <1>5, <1>6 DEF Next, NewStatement, Progress, InsertSteps, RowSteps, Closed

\* A page of a data file that is not there is empty.
EmptyWithout == \A f \in File \ dataFiles : rows[f] = NoRows

\* The page writes of a step, and what of their rows is logged.
LEMMA LoggedRows ==
  ASSUME TypeInv, LoggedInv, [Next]_vars
  PROVE  WriteAheadStep /\ EmptyWithout'
<1>1. /\ rows \in [File -> Copies] /\ mem \in Copies /\ EmptyWithout /\ synced \in Nat
      /\ \A f \in File, r \in Rows : rows[f][r] \in Nat
  BY TypeInvParts DEF FilesTypeOK, ProcInv, ProcessTypeOK, LoggedInv, EmptyWithout, Copies, LogInv,
     WalTypeOK
<1>2. CASE UNCHANGED <<rows, dataFiles>>
  BY <1>1, <1>2 DEF WriteAheadStep, EmptyWithout
<1>3. CASE Redo
  <2>1. CASE rows' = rows
    BY <1>2, <1>3, <2>1 DEF Redo, redo_insert, fileVars
  <2>2. CASE rows' # rows
    <3>1. pc = "redo" /\ dataFiles' = dataFiles /\ RedoTarget \in dataFiles
      BY <1>3, <2>2 DEF Redo, redo_insert, fileVars, CanOpen, table_exists
    <3>2. /\ redoIdx \in Readable /\ log[redoIdx].type = "INSERT" /\ log[redoIdx].row \in Rows
          /\ rows' = [rows EXCEPT ![RedoTarget] = PlusOne(rows[RedoTarget], log[redoIdx].row)]
      BY <2>2, <3>1, RedoStep
    <3>3. Logged(log[redoIdx].row, {"INSERT", "UPDATE"})
      <4>1. redoIdx \in 1..synced
        BY <3>1, <3>2 DEF Readable, LoggedInv
      <4> QED
        BY <3>2, <4>1 DEF Logged
    <3>4. ASSUME NEW f \in File, NEW r \in Rows
          PROVE  /\ rows'[f][r] > rows[f][r] => r = log[redoIdx].row
                 /\ ~(rows'[f][r] < rows[f][r])
      BY <1>1, <3>2 DEF PlusOne, Copies
    <3>5. EmptyWithout'
      BY <1>1, <3>1, <3>2 DEF EmptyWithout
    <3> QED
      BY <3>3, <3>4, <3>5 DEF WriteAheadStep
  <2> QED
    BY <2>1, <2>2
<1>4. CASE InsertTable
  <2>1. CASE rows' = rows
    BY <1>2, <1>4, <2>1 DEF InsertTable
  <2>2. CASE rows' # rows
    <3>1. /\ pc = "ins_table" /\ dataFiles' = dataFiles /\ F \in dataFiles
          /\ rows' = [rows EXCEPT ![F] = PlusOne(rows[F], stmt.row)]
      BY <1>4, <2>2 DEF InsertTable, StoreRows, CanOpen, table_exists
    <3>2. Logged(stmt.row, {"INSERT", "UPDATE"}) /\ stmt.row \in Rows
      BY <3>1, TypeInvParts DEF LoggedInv, Logged, ProcInv, StmtOK, InInsert
    <3>3. F \in File
      BY <3>1, TypeInvParts DEF FilesTypeOK
    <3>4. ASSUME NEW f \in File, NEW r \in Rows
          PROVE  /\ rows'[f][r] > rows[f][r] => r = stmt.row
                 /\ ~(rows'[f][r] < rows[f][r])
      BY <1>1, <3>1, <3>2, <3>3 DEF PlusOne, Copies
    <3>5. EmptyWithout'
      BY <1>1, <3>1 DEF EmptyWithout
    <3> QED
      BY <3>2, <3>4, <3>5 DEF WriteAheadStep
  <2> QED
    BY <2>1, <2>2
<1>5. CASE CloseTable
  <2>1. CASE rows' = rows
    BY <1>2, <1>5, <2>1 DEF CloseTable
  <2>2. CASE rows' # rows
    <3>1. /\ InScan /\ dataFiles' = dataFiles /\ rows' = [rows EXCEPT ![F] = mem]
      BY <1>5, <2>2 DEF CloseTable, StoreRows, InScan
    <3>2. /\ F \in dataFiles /\ F \in File
          /\ \A r \in Rows :
               /\ mem[r] > rows[F][r] => Logged(r, {"INSERT", "UPDATE"})
               /\ mem[r] < rows[F][r] => Logged(r, {"DELETE"}) \/ UpdateLogged
      BY <3>1, TypeInvParts DEF LoggedInv, FilesTypeOK
    <3>3. ASSUME NEW f \in File PROVE rows'[f] = IF f = F THEN mem ELSE rows[f]
      BY <1>1, <3>1, <3>2
    <3>4. WriteAheadStep
      BY <1>1, <3>2, <3>3 DEF WriteAheadStep, UpdateLogged
    <3>5. EmptyWithout'
      BY <1>1, <3>1, <3>2 DEF EmptyWithout
    <3> QED
      BY <3>4, <3>5
  <2> QED
    BY <2>1, <2>2
<1>6. CASE CreateTable
  <2>1. PICK t \in Tables : ~table_exists(<<curDb, t>>) /\ CreateData(<<curDb, t>>)
    BY <1>6 DEF CreateTable
  <2>2. <<curDb, t>> \in File \ dataFiles
    BY <2>1, TypeInvParts DEF table_exists, File, ProcInv, ProcessTypeOK
  <2>3. rows' = [rows EXCEPT ![<<curDb, t>>] = NoRows] /\ dataFiles' = dataFiles \cup {<<curDb, t>>}
    BY <2>1 DEF CreateData, StoreRows
  <2>4. \A f \in File : rows'[f] = rows[f]
    BY <1>1, <2>2, <2>3 DEF EmptyWithout
  <2> QED
    BY <1>1, <2>3, <2>4 DEF WriteAheadStep, EmptyWithout
<1>7. CASE DropTable
  <2>1. PICK t \in Tables : RemoveData(<<curDb, t>>)
    BY <1>7 DEF DropTable
  <2>2. <<curDb, t>> \in File
    BY TypeInvParts DEF File, ProcInv, ProcessTypeOK
  <2>3. rows' = [rows EXCEPT ![<<curDb, t>>] = NoRows] /\ dataFiles' = dataFiles \ {<<curDb, t>>}
    BY <2>1 DEF RemoveData, StoreRows
  <2>4. \A f \in File : rows'[f] = rows[f] \/ (f \notin dataFiles' /\ rows'[f] = NoRows)
    BY <1>1, <2>2, <2>3
  <2>5. \A r \in Rows : NoRows[r] = 0
    BY DEF NoRows
  <2>6. EmptyWithout'
    BY <1>1, <2>2, <2>3 DEF EmptyWithout
  <2> QED
    BY <1>1, <2>4, <2>5, <2>6 DEF WriteAheadStep
<1>8. ASSUME \/ Start \/ RecoverNothing \/ RecoverScan \/ Checkpoint \/ Exit \/ Crash \/ Begin
             \/ Commit \/ StartInsert \/ InsertTooLong \/ InsertLog \/ InsertNoTable
             \/ InsertCommit \/ OpenTable \/ MatchRow \/ LogRow \/ LogRowCommit \/ DeleteRow
             \/ UpdateRow \/ CreateDb \/ UseDb \/ DdlSteps \/ UNCHANGED vars
      PROVE  UNCHANGED <<rows, dataFiles>>
  BY <1>8 DEF Start, MakeDb, RecoverNothing, RecoverScan, Checkpoint, Exit, Crash, Begin, Commit,
       StartInsert, InsertTooLong, InsertLog, InsertNoTable, InsertCommit, OpenTable, MatchRow,
       LogRow, LogRowCommit, DeleteRow, UpdateRow, CreateDb, UseDb, SetCurFile, DdlSteps,
       CreateSchema, save_schema, CreateCatalog, catalog_add, DropSchema, RemoveSchema,
       DropCatalog, catalog_remove, UseDbWrite, vars, fileVars
<1> QED
  BY <1>2, <1>3, <1>4, <1>5, <1>6, <1>7, <1>8
     DEF Next, NewStatement, Progress, Recovery, InsertSteps, RowSteps, Closed

\* A process that is down or recovers has only the synced part of the log.
LEMMA SyncedWhenDown ==
  ASSUME TypeInv, LoggedInv, [Next]_vars, pc' \in {"down", "recover", "redo"}
  PROVE  synced' = Len(log)'
<1>1. CASE Exit
  BY <1>1 DEF Exit, wal_close
<1>2. CASE Crash
  <2> DEFINE inFlight == pc \in {"idle", "ins_log", "ins_commit", "scan", "row_log", "row_commit"}
  <2>1. LoseTail(inFlight)
    BY <1>2, Zenon DEF Crash
  <2> HIDE DEF inFlight
  <2>2. PICK n \in synced..Len(log) :
          \/ log' = SubSeq(log, 1, n) /\ synced' = n
          \/ log' = Append(SubSeq(log, 1, n), TornRecord) /\ synced' = n + 1
    BY <2>1 DEF LoseTail
  <2>3. n \in 0..Len(log) /\ log \in Seq(WALRecord) /\ n \in Nat
    BY <2>2, TypeInvParts DEF LogInv, WalTypeOK
  <2>4. SubSeq(log, 1, n) \in Seq(WALRecord) /\ Len(SubSeq(log, 1, n)) = n
    <3>1. \A i \in 1..n : log[i] \in WALRecord
      BY <2>3
    <3> QED
      BY <2>3, <3>1, SubSeqProperties
  <2> QED
    BY <2>2, <2>3, <2>4
<1>3. CASE Start \/ RecoverScan \/ Redo \/ UNCHANGED vars
  BY <1>3 DEF Start, wal_open, RecoverScan, Redo, walVars, vars, LoggedInv
<1>4. ASSUME ~Exit, ~Crash, ~Start, ~RecoverScan, ~Redo, ~(UNCHANGED vars) PROVE FALSE
  BY <1>4 DEF Next, NewStatement, Progress, Recovery, InsertSteps, RowSteps, DdlSteps, Closed,
     RecoverNothing, Checkpoint, Begin, Commit, StartInsert, InsertTooLong, InsertLog,
     InsertNoTable, InsertTable, InsertCommit, OpenTable, MatchRow, LogRow, LogRowCommit, DeleteRow,
     UpdateRow, CloseTable, CreateTable, DropTable, CreateDb, UseDb, CreateSchema, CreateCatalog,
     DropSchema, DropCatalog, UseDbWrite, EndStmt, Ready
<1> QED
  BY <1>1, <1>2, <1>3, <1>4

\* wal_write puts the row of the statement on stable storage.
LEMMA WrittenRow ==
  ASSUME LogWritten, TypeInv, NEW txn, NEW type, NEW table, NEW row,
         wal_write(txn, type, table, row)
  PROVE  \E i \in 1..synced' : log'[i].type = type /\ log'[i].row = row
<1> DEFINE rec == NewRecord(txn, type, table, row)
<1>1. write_record(rec, TRUE)
  BY Zenon DEF wal_write
<1>2. rec.type = type /\ rec.row = row
  BY DEF NewRecord
<1> HIDE DEF rec
<1>3. synced' = Len(log) + 1 /\ log'[Len(log) + 1] = rec /\ Len(log) \in Nat
  <2>1. LogInv /\ Len(log) \in Nat /\ TRUE \in BOOLEAN
    BY TypeInvParts DEF LogInv, WalTypeOK
  <2>2. TRUE => synced' = Len(log) + 1 /\ log'[Len(log) + 1] = rec
    BY <1>1, <2>1, WrittenSynced
  <2> QED
    BY <2>1, <2>2
<1>4. Len(log) + 1 \in 1..synced'
  BY <1>3
<1> QED
  BY <1>2, <1>3, <1>4

\* INSERT writes its page behind its record.
LEMMA LoggedInsert ==
  ASSUME LogWritten, TypeInv, LoggedInv, [Next]_vars, pc' = "ins_table"
  PROVE  Logged(stmt.row, {"INSERT"})'
<1>1. CASE InsertLog
  <2>1. wal_write(stmt.txn, "INSERT", stmt.table, stmt.row) /\ stmt' = stmt
    BY <1>1, Zenon DEF InsertLog
  <2> QED
    BY <2>1, WrittenRow DEF Logged
<1>2. CASE UNCHANGED vars
  BY <1>2 DEF vars, walVars, Logged, LoggedInv
<1>3. ASSUME ~InsertLog, ~(UNCHANGED vars) PROVE FALSE
  BY <1>3 DEF Next, NewStatement, Progress, Recovery, InsertSteps, RowSteps, DdlSteps, Closed,
     Start, RecoverNothing, RecoverScan, Redo, Checkpoint, Exit, Crash, EndSession, Begin, Commit,
     StartInsert, InsertTooLong, InsertNoTable, InsertTable, InsertCommit, OpenTable, MatchRow,
     LogRow, LogRowCommit, DeleteRow, UpdateRow, CloseTable, CreateTable, DropTable, CreateDb,
     UseDb, CreateSchema, CreateCatalog, DropSchema, DropCatalog, UseDbWrite, EndStmt, Ready
<1> QED
  BY <1>1, <1>2, <1>3

\* UPDATE and DELETE touch a row in the frame behind its record.
LEMMA LoggedRow ==
  ASSUME LogWritten, TypeInv, LoggedInv, [Next]_vars, InRow'
  PROVE  /\ stmt'.op = "DELETE" => stmt'.image = stmt'.row
         /\ pc' = "row_commit" => Logged(stmt.image, {stmt.op})'
<1>1. stmt \in Stmt
  BY TypeInvParts DEF ProcInv, ProcessTypeOK
<1>2. CASE MatchRow
  <2>1. pc' = "row_log" /\ \E r, n : \/ stmt' = [stmt EXCEPT !.row = r, !.image = r, !.txn = nextTxn]
                                     \/ /\ stmt.op = "UPDATE"
                                        /\ stmt' = [stmt EXCEPT !.row = r, !.image = n, !.txn = nextTxn]
    BY <1>2 DEF MatchRow
  <2>2. ASSUME NEW r, NEW n, stmt' = [stmt EXCEPT !.row = r, !.image = n, !.txn = nextTxn]
        PROVE  stmt'.row = r /\ stmt'.image = n /\ stmt'.op = stmt.op
    BY <1>1, <2>2 DEF Stmt
  <2> QED
    BY <2>1, <2>2
<1>3. CASE LogRow
  <2>1. wal_write(stmt.txn, stmt.op, stmt.table, stmt.image) /\ stmt' = stmt /\ InRow
    BY <1>3, Zenon DEF LogRow, InRow
  <2>2. \E i \in 1..synced' : log'[i].type = stmt.op /\ log'[i].row = stmt.image
    BY <2>1, WrittenRow
  <2> QED
    BY <2>1, <2>2 DEF Logged, LoggedInv
<1>4. CASE LogRowCommit
  <2>1. /\ pc = "row_commit" /\ pc' = "row_commit" /\ InRow
        /\ stmt'.op = stmt.op /\ stmt'.image = stmt.image /\ stmt'.row = stmt.row
    BY <1>1, <1>4 DEF LogRowCommit, InRow, Stmt
  <2>2. SyncedKept /\ stmt.image \in Rows
    BY <2>1, StepSynced, TypeInvParts DEF ProcInv, StmtOK
  <2>3. Logged(stmt.image, {stmt.op})
    BY <2>1 DEF LoggedInv
  <2> QED
    BY <2>1, <2>2, <2>3 DEF SyncedKept, Logged, LoggedInv
<1>5. CASE UNCHANGED vars
  BY <1>5 DEF vars, walVars, Logged, LoggedInv, InRow
<1>6. ASSUME ~MatchRow, ~LogRow, ~LogRowCommit, ~(UNCHANGED vars) PROVE FALSE
  BY <1>6 DEF Next, NewStatement, Progress, Recovery, InsertSteps, RowSteps, DdlSteps, Closed,
     Start, RecoverNothing, RecoverScan, Redo, Checkpoint, Exit, Crash, EndSession, Begin, Commit,
     StartInsert, InsertTooLong, InsertLog, InsertNoTable, InsertTable, InsertCommit, OpenTable,
     DeleteRow, UpdateRow, CloseTable, CreateTable, DropTable, CreateDb, UseDb, CreateSchema,
     CreateCatalog, DropSchema, DropCatalog, UseDbWrite, EndStmt, Ready, InRow
<1> QED
  BY <1>2, <1>3, <1>4, <1>5, <1>6

\* What a frame has or lacks of its file is logged.
FrameLogged == \A r \in Rows :
                 /\ mem[r] > rows[F][r] => Logged(r, {"INSERT", "UPDATE"})
                 /\ mem[r] < rows[F][r] => Logged(r, {"DELETE"}) \/ UpdateLogged

\* Whatever the loop of UPDATE / DELETE does to its frame, it has logged before.
LEMMA LoggedFrame ==
  ASSUME LogWritten, TypeInv, LoggedInv, [Next]_vars, InScan'
  PROVE  F' \in dataFiles' /\ FrameLogged'
<1>1. /\ rows \in [File -> Copies] /\ mem \in Copies /\ stmt \in Stmt /\ curDb \in Dbs
      /\ InRow => stmt.row \in Rows /\ stmt.image \in Rows
  BY TypeInvParts DEF FilesTypeOK, ProcInv, ProcessTypeOK, StmtOK
<1>2. CASE OpenTable
  <2>1. PICK t \in Tables : /\ CanOpen(<<curDb, t>>) /\ stmt'.table = t
                            /\ mem' = rows[<<curDb, t>>] /\ curDb' = curDb /\ UNCHANGED fileVars
    BY <1>2 DEF OpenTable, NoStmt, sessionVars
  <2>2. F' = <<curDb, t>> /\ F' \in dataFiles' /\ mem' = rows'[F'] /\ F' \in File
    BY <1>1, <2>1 DEF F, CanOpen, table_exists, fileVars, File
  <2>3. \A b \in Copies : \A r \in Rows : ~(b[r] > b[r]) /\ ~(b[r] < b[r])
    BY DEF Copies
  <2>4. rows'[F'] \in Copies
    BY <1>1, <2>1, <2>2 DEF fileVars
  <2> QED
    BY <2>2, <2>3, <2>4 DEF FrameLogged
<1>3. ASSUME InScan, F' = F, UNCHANGED <<mem, rows, dataFiles>>
      PROVE  F' \in dataFiles' /\ FrameLogged'
  <2>1. SyncedKept
    BY <1>3, StepSynced DEF InScan, InRow
  <2>2. F \in dataFiles /\ FrameLogged
    BY <1>3 DEF LoggedInv, FrameLogged
  <2> QED
    BY <1>3, <2>1, <2>2 DEF FrameLogged, SyncedKept, Logged
<1>4. CASE MatchRow \/ LogRow \/ LogRowCommit
  BY <1>1, <1>3, <1>4 DEF MatchRow, LogRow, LogRowCommit, InScan, InRow, F, Stmt, sessionVars,
     scanVars, fileVars
<1>5. CASE DeleteRow \/ UpdateRow
  <2>1. /\ pc = "row_commit" /\ F' = F /\ UNCHANGED <<rows, dataFiles, log, synced>>
        /\ \/ stmt.op = "DELETE" /\ mem' = MinusOne(mem, stmt.row)
           \/ stmt.op = "UPDATE" /\ mem' = PlusOne(MinusOne(mem, stmt.row), stmt.image)
           \/ stmt.op = "UPDATE" /\ mem' = MinusOne(mem, stmt.row)
    BY <1>5 DEF DeleteRow, UpdateRow, F, sessionVars, fileVars, walVars
  <2>2. /\ F \in dataFiles /\ F \in File /\ FrameLogged
        /\ stmt.op = "DELETE" => stmt.image = stmt.row
        /\ Logged(stmt.image, {stmt.op})
        /\ stmt.row \in Rows /\ stmt.image \in Rows
    BY <1>1, <2>1, TypeInvParts DEF LoggedInv, FrameLogged, InScan, InRow, FilesTypeOK
  <2>3. /\ stmt.op = "DELETE" => Logged(stmt.row, {"DELETE"})
        /\ stmt.op = "UPDATE" => UpdateLogged /\ Logged(stmt.image, {"INSERT", "UPDATE"})
    BY <2>2 DEF Logged, UpdateLogged
  <2>4. ASSUME NEW r \in Rows
        PROVE  /\ mem'[r] > rows[F][r] => mem[r] > rows[F][r]
                                          \/ (r = stmt.image /\ stmt.op = "UPDATE")
               /\ mem'[r] < rows[F][r] => mem[r] < rows[F][r] \/ r = stmt.row
    <3>1. mem[r] \in Nat /\ rows[F][r] \in Nat
      BY <1>1, <2>2 DEF Copies
    <3>2. /\ MinusOne(mem, stmt.row)[r] = IF r = stmt.row THEN mem[r] - 1 ELSE mem[r]
          /\ PlusOne(MinusOne(mem, stmt.row), stmt.image)[r] =
               (IF r = stmt.row THEN mem[r] - 1 ELSE mem[r]) + (IF r = stmt.image THEN 1 ELSE 0)
      BY <1>1, <2>2, <3>1 DEF MinusOne, PlusOne, Copies
    <3> QED
      BY <2>1, <3>1, <3>2
  <2>5. ASSUME NEW r \in Rows
        PROVE  /\ mem'[r] > rows[F][r] => Logged(r, {"INSERT", "UPDATE"})
               /\ mem'[r] < rows[F][r] => Logged(r, {"DELETE"}) \/ UpdateLogged
    BY <2>1, <2>2, <2>3, <2>4 DEF FrameLogged
  <2> QED
    BY <2>1, <2>2, <2>5 DEF FrameLogged, Logged, UpdateLogged
<1>6. CASE UNCHANGED vars
  <2>1. F' = F /\ InScan
    BY <1>6 DEF vars, sessionVars, F, InScan, InRow
  <2> QED
    BY <1>3, <1>6, <2>1 DEF vars, scanVars, fileVars
<1>7. ASSUME ~OpenTable, ~MatchRow, ~LogRow, ~LogRowCommit, ~DeleteRow, ~UpdateRow,
             ~(UNCHANGED vars)
      PROVE  FALSE
  BY <1>7 DEF Next, NewStatement, Progress, Recovery, InsertSteps, RowSteps, DdlSteps, Closed,
     Start, RecoverNothing, RecoverScan, Redo, Checkpoint, Exit, Crash, EndSession, Begin, Commit,
     StartInsert, InsertTooLong, InsertLog, InsertNoTable, InsertTable, InsertCommit,
     CloseTable, CreateTable, DropTable, CreateDb, UseDb, CreateSchema, CreateCatalog, DropSchema,
     DropCatalog, UseDbWrite, EndStmt, Ready, InScan, InRow
<1> QED
  BY <1>2, <1>4, <1>5, <1>6, <1>7

\* What is logged of the rows, from the empty data directory on.
LEMMA LoggedInvInductive ==
  ASSUME LogWritten
  PROVE  /\ Init => LoggedInv
         /\ TypeInv /\ LoggedInv /\ [Next]_vars => LoggedInv'
<1>1. ASSUME Init PROVE LoggedInv
  BY <1>1 DEF Init, WalInit, FilesInit, NoSession, LoggedInv, InScan, InRow
<1>2. ASSUME TypeInv, LoggedInv, [Next]_vars PROVE LoggedInv'
  <2>1. pc' = "row_commit" => InRow'
    BY DEF InRow
  <2>2. EmptyWithout'
    BY <1>2, LoggedRows
  <2> QED
    BY <1>2, <2>1, <2>2, SyncedWhenDown, LoggedInsert, LoggedRow, LoggedFrame
       DEF LoggedInv, EmptyWithout, FrameLogged
<1> QED
  BY <1>1, <1>2

(* The write-ahead rule, while writes and fsyncs of the log do not fail (the *)
(* callers of wal_write ignore that they do): whatever else fails, no step   *)
(* adds a row to a page file, or takes one from it, before a record that     *)
(* says so is on stable storage; DROP TABLE, which logs nothing, apart.       *)
THEOREM LogComesFirst ==
  ASSUME LogWritten
  PROVE  Spec => WriteAhead
<1>1. Init => TypeInv /\ LoggedInv
  BY TypeInvInductive, LoggedInvInductive
<1>2. TypeInv /\ LoggedInv /\ [Next]_vars => (TypeInv /\ LoggedInv)'
  BY TypeInvInductive, LoggedInvInductive
<1>3. TypeInv /\ LoggedInv /\ [Next]_vars => [WriteAheadStep]_vars
  BY LoggedRows
<1> QED
  BY <1>1, <1>2, <1>3, PTL DEF Spec, WriteAhead
=============================================================================
