--------------------------------- MODULE Wal ---------------------------------
(***************************************************************************)
(* The write-ahead log of KernelDB, src/WAL/wal.c: the file data/wal.log    *)
(* and the WAL object {fd, next_lsn, next_txn} one process keeps on it.     *)
(*                                                                         *)
(* A record is what recovery can tell apart of the 344-byte WALRecord; like *)
(* the record on disk it does not say which database its table is in.  A    *)
(* record of type TORN is a record of which only some bytes reached the     *)
(* file: read_record stops there, and what is appended behind it is never   *)
(* read at a record boundary again.                                        *)
(***************************************************************************)
EXTENDS Names, Naturals, Sequences, FiniteSets

CONSTANTS
  MaxRecords,    \* records[1024]: what wal_recover keeps of the log
  MaxCommitted,  \* committed[256]: the commits wal_recover has room for
  Faults,        \* the kinds of I/O failure that may happen
  MaxFaults      \* model bound: how many failures happen in a behaviour

VARIABLES
  log,       \* the records of data/wal.log, oldest first
  synced,    \* how many of them an fsync has covered
  nextLsn,   \* wal->next_lsn
  nextTxn,   \* wal->next_txn
  faults     \* how many failures have happened

walVars == <<log, synced, nextLsn, nextTxn>>

FaultKind == {"log_write", "torn", "page_write", "redo_write", "create"}

ASSUME WalAssumption == /\ MaxRecords \in Nat \ {0} /\ MaxCommitted \in Nat
                        /\ Faults \subseteq FaultKind /\ MaxFaults \in Nat

RecordType == {"BEGIN", "INSERT", "UPDATE", "DELETE", "COMMIT", "TORN"}

WALRecord == [lsn : Nat, txn : Nat, type : RecordType,
              table : Tables \cup {None}, row : Rows \cup {None}]

TornRecord == [lsn |-> 0, txn |-> 0, type |-> "TORN", table |-> None, row |-> None]

WalTypeOK == /\ log \in Seq(WALRecord)
             /\ synced \in Nat /\ synced <= Len(log)
             /\ nextLsn \in Nat /\ nextTxn \in Nat
             /\ faults \in Nat /\ faults <= MaxFaults

WalInit == log = <<>> /\ synced = 0 /\ nextLsn = 1 /\ nextTxn = 1 /\ faults = 0

-----------------------------------------------------------------------------
(* Failures.  CanFail(kind) lets a step take its failing branch.            *)
CanFail(kind) == kind \in Faults /\ faults < MaxFaults
Fault(kind)   == CanFail(kind) /\ faults' = faults + 1

(***************************************************************************)
(* write_record, and the fsync of its callers wal_write and wal_commit.     *)
(* A failing write leaves nothing or some bytes of the record; a failing    *)
(* fsync leaves a record that a power failure may still take.  Every caller *)
(* in the program ignores the returned WAL_ERROR and goes on.               *)
(***************************************************************************)
write_record(rec, sync) ==
  /\ nextLsn' = nextLsn + 1
  /\ \/ /\ log' = Append(log, rec)
        /\ synced' = IF sync THEN Len(log) + 1 ELSE synced
        /\ UNCHANGED faults
     \/ /\ Fault("log_write")
        /\ log' \in {log, Append(log, TornRecord), Append(log, rec)}
        /\ UNCHANGED synced

NewRecord(txn, type, table, row) ==
  [lsn |-> nextLsn, txn |-> txn, type |-> type, table |-> table, row |-> row]

\* Mutant: next_txn is not advanced.
wal_begin_ReusesId == /\ write_record(NewRecord(nextTxn, "BEGIN", None, None), FALSE)
                      /\ UNCHANGED nextTxn

\* The transaction a wal_begin starts is the nextTxn it finds.
wal_begin == /\ write_record(NewRecord(nextTxn, "BEGIN", None, None), FALSE)
             /\ nextTxn' = nextTxn + 1

\* Mutant: the fsync is missing.
wal_write_NoFsync(txn, type, table, row) ==
  write_record(NewRecord(txn, type, table, row), FALSE) /\ UNCHANGED nextTxn

wal_write(txn, type, table, row) ==
  write_record(NewRecord(txn, type, table, row), TRUE) /\ UNCHANGED nextTxn

wal_commit(txn) ==
  write_record(NewRecord(txn, "COMMIT", None, None), TRUE) /\ UNCHANGED nextTxn

-----------------------------------------------------------------------------
(* What a reader that starts at the head of the file gets.                  *)
Readable == {i \in 1..Len(log) : \A j \in 1..i : log[j].type # "TORN"}

\* The records wal_recover keeps; it reads the others and drops them.
Kept == {i \in Readable : i <= MaxRecords}

\* Mutant: every transaction in the log counts as committed.
Committed_Any == {log[i].txn : i \in Kept}

Commits   == {i \in Kept : log[i].type = "COMMIT"}
Committed == {log[i].txn : i \in Commits}

\* The records recovery applies: redo_insert is called for nothing else.
Redoable == {i \in Kept : log[i].type = "INSERT" /\ log[i].txn \in Committed}

\* wal_open: continue behind the largest lsn and txn id that can be read.
wal_open ==
  /\ \E n \in {1} \cup {log[i].lsn + 1 : i \in Readable} :
       (\A i \in Readable : log[i].lsn < n) /\ nextLsn' = n
  /\ \E n \in {1} \cup {log[i].txn + 1 : i \in Readable} :
       (\A i \in Readable : log[i].txn < n) /\ nextTxn' = n
  /\ UNCHANGED <<log, synced>>

\* The end of wal_recover.
wal_truncate == log' = <<>> /\ synced' = 0 /\ nextLsn' = 1 /\ nextTxn' = 1

\* wal_close
wal_close == synced' = Len(log) /\ UNCHANGED <<log, nextLsn, nextTxn>>

(***************************************************************************)
(* The process dies.  Killed, it leaves the file as it is; in a power       *)
(* failure the records no fsync covered may go, and the first one that goes *)
(* may leave some of its bytes.  inFlight: a record was being written.      *)
(***************************************************************************)
LoseTail(inFlight) ==
  /\ \E n \in synced..Len(log) :
       \/ log' = SubSeq(log, 1, n) /\ synced' = n /\ UNCHANGED faults
       \/ /\ n < Len(log) \/ inFlight
          /\ Fault("torn")
          /\ log' = Append(SubSeq(log, 1, n), TornRecord) /\ synced' = n + 1
  /\ nextLsn' = 1 /\ nextTxn' = 1
=============================================================================
