----------------------------- MODULE KernelDBProps -----------------------------
(* What KernelDB should guarantee across crashes, restarts and I/O failures. *)
EXTENDS KernelDB

\* A restart would find r: on its page, or in a record recovery would redo
\* into the table r was submitted to.
RedoPending(r) == \E i \in Redoable : /\ log[i].row = r
                                      /\ <<RestartDb, log[i].table>> = home[r]
                                      /\ CanOpen(home[r])
Recoverable(r) == home[r] # NoHome /\ (rows[home[r]][r] > 0 \/ RedoPending(r))

SubmittedRows == {r \in Rows : fate[r] # "new"}
KeptRows      == {r \in Rows : Recoverable(r)}
AckedRows     == {r \in Rows : fate[r] = "acked"}

(* INSERT / COMMIT acknowledge a row, a crash and any number of restarts     *)
(* later it is still there, until a statement takes it: KernelDB implements  *)
(* DurableStore.  What takes a row is DELETE, DROP TABLE and UPDATE, which    *)
(* may take the old row also when the new one finds no room: the row stops    *)
(* being promised in the step that makes it "lost", not before.              *)
(* Holds while page writes may fail but the log does not, on one database.    *)
Store == INSTANCE DurableStore WITH
           submitted <- SubmittedRows, kept <- KeptRows, acked <- AckedRows
ImplementsStore == Store!StoreSpec

(* The WAL rule.  A page write adds a row only when the record of that row   *)
(* is already on stable storage, and removes one only when a DELETE of that  *)
(* row or an UPDATE is (DROP TABLE, which is not logged, apart).             *)
Logged(r, types) == \E i \in 1..synced : log[i].type \in types /\ log[i].row = r
WriteAheadStep ==
  \A f \in File, r \in Rows :
    /\ rows'[f][r] > rows[f][r] => Logged(r, {"INSERT", "UPDATE"})
    /\ rows'[f][r] < rows[f][r] => \/ f \notin dataFiles'
                                   \/ Logged(r, {"DELETE"})
                                   \/ \E i \in 1..synced : log[i].type = "UPDATE"
WriteAhead == [][WriteAheadStep]_vars

(* README: recovery discards incomplete transactions.  It never adds a copy  *)
(* of a row whose explicit transaction was open when the process died.       *)
AbortedNotRedone ==
  [][pc = "redo" => \A f \in File, r \in Rows :
       rows'[f][r] > rows[f][r] => fate[r] \notin {"aborted", "new"}]_vars

(* What recovery relies on when it reads the log: lsn's grow, a transaction  *)
(* id names one transaction, and after a COMMIT record nothing but another   *)
(* COMMIT carries its id, so that no later record is redone with it.         *)
LogWellFormed ==
  \A i, j \in Readable : i < j =>
    /\ log[i].lsn < log[j].lsn /\ (pc # "down" => log[j].lsn < nextLsn)
    /\ log[i].type = "BEGIN" /\ log[j].type = "BEGIN" => log[i].txn # log[j].txn
    /\ log[i].type = "COMMIT" /\ log[i].txn = log[j].txn => log[j].type = "COMMIT"

(* INSERT writes its page before it is acknowledged: while page writes do    *)
(* not fail, an acknowledged row is in its own table, which can be opened,   *)
(* whatever happens to the log, to other databases and to current_db.  One   *)
(* row is excepted, and no more: that whose UPDATE found no room, once the    *)
(* page is written for another of the statement's changes ("lost").  While   *)
(* it is only gone from the frame the row still counts as acknowledged.      *)
AckedOnDisk == \A r \in Rows : fate[r] \in {"acked", "updated"} =>
                 /\ CanOpen(home[r])
                 /\ rows[home[r]][r] > 0

(* Without a crash or a failed write, a finished CREATE TABLE or DROP TABLE  *)
(* leaves the three files of a table in agreement.                           *)
CatalogAgrees == sessions = 1 /\ faults = 0 /\ pc = "idle" =>
                   dataFiles = schemas /\ schemas = catalog

(* A running process works in a database that exists, and so will the next   *)
(* one, also when USE is interrupted between emptying and writing the file.  *)
CurrentDbExists == /\ pc # "down" => curDb \in dbs
                   /\ curFile \in Dbs => curFile \in dbs

(* Redo is not idempotent, but what it does wrong is bounded: whatever fails *)
(* and wherever recovery is interrupted, a start adds at most one copy of a   *)
(* row, and none of a row nobody submitted.                                   *)
CopiesBounded == \A f \in File, r \in Rows :
                   rows[f][r] <= (IF fate[r] = "new" THEN 0 ELSE sessions)

(* Every start and every statement comes to an end, whatever fails.          *)
StatementsReturn == pc \notin {"down", "idle"} ~> pc \in {"down", "idle"}

-----------------------------------------------------------------------------
(* The strengthening that makes TypeOK inductive: what the locals of a       *)
(* statement are while it runs, that the loop of UPDATE / DELETE has not     *)
(* passed more rows than the page has, and that INSERT records carry a row.  *)
InInsert == pc \in {"ins_log", "ins_table", "ins_commit"}
InRow    == pc \in {"row_log", "row_commit"}
InScan   == pc = "scan" \/ InRow
InTable  == pc \notin {"down", "recover", "redo", "idle", "use_write"}

StmtOK == /\ InTable => stmt.table \in Tables
          /\ InInsert => stmt.row \in Rows
          /\ InScan => stmt.op \in {"UPDATE", "DELETE"}
          /\ InRow => stmt.row \in Rows /\ stmt.image \in Rows /\ left[stmt.row] > 0
LeftOK == \A r \in Rows : left[r] <= mem[r]
InsertRecordsOK == \A i \in 1..Len(log) : log[i].type = "INSERT" => log[i].row \in Rows

TypeInv == TypeOK /\ StmtOK /\ LeftOK /\ InsertRecordsOK

(* The strengthening that makes AckedOnDisk inductive while page writes do   *)
(* not fail: what holds of a row on the way to being acknowledged, in an     *)
(* open transaction, or in the frame of a running UPDATE / DELETE.           *)
OnDisk(r)   == CanOpen(home[r]) /\ rows[home[r]][r] > 0
Promised(r) == \/ fate[r] \in {"acked", "updated"}
               \/ r \in txnRows /\ fate[r] = "open"

PromisedOnDisk == \A r \in Rows : Promised(r) => OnDisk(r)

\* Nothing of a row that nobody submitted is anywhere.
NewNowhere == \A r \in Rows : fate[r] = "new" =>
  /\ r \notin txnRows
  /\ \A f \in File : rows[f][r] = 0
  /\ \A i \in 1..Len(log) : log[i].type = "INSERT" => log[i].row # r

InsertOK == InInsert => /\ home[stmt.row] = F /\ fate[stmt.row] = "open"
                        /\ pc = "ins_commit" => OnDisk(stmt.row)

\* The frame has what the file has and the statement did not take.
ScanOK == InScan =>
  /\ CanOpen(F)
  /\ InRow => fate[stmt.image] # "new"
  /\ \A r \in Rows : /\ home[r] = F /\ Promised(r) /\ r \notin gone => mem[r] > 0
                     /\ mem[r] > 0 => fate[r] # "new"
                     /\ left[r] > 0 => fate[r] # "updating"

\* The image an UPDATE writes is in its frame, from the step that puts it there.
InFrame(r) == \/ mem[r] > 0 /\ dirty
              \/ InRow /\ stmt.op = "UPDATE" /\ r = stmt.image
UpdatingOK == \A r \in Rows : fate[r] = "updating" => InScan /\ home[r] = F /\ InFrame(r)

DroppedGone == pc \in {"drop_schema", "drop_catalog"} => F \notin dataFiles

DiskInv == PromisedOnDisk /\ NewNowhere /\ InsertOK /\ ScanOK /\ UpdatingOK /\ DroppedGone

-----------------------------------------------------------------------------
(* The strengthening that makes LogWellFormed inductive: the ids a process    *)
(* hands out are larger than those in the log, and the transactions it still  *)
(* writes records of have no COMMIT record yet.                              *)
Numbered == \A i \in Readable : log[i].lsn < nextLsn /\ log[i].txn < nextTxn
LsnsGrow == \A i, j \in Readable : i < j => log[i].lsn < log[j].lsn
OneBegin == \A i, j \in Readable : i < j /\ log[i].type = "BEGIN" /\ log[j].type = "BEGIN"
                                     => log[i].txn # log[j].txn
CommitLast == \A i, j \in Readable : i < j /\ log[i].type = "COMMIT" /\ log[i].txn = log[j].txn
                                       => log[j].type = "COMMIT"
LogOK == LsnsGrow /\ OneBegin /\ CommitLast /\ (pc # "down" => Numbered)

Uncommitted(t) == \A i \in Readable : log[i].type = "COMMIT" => log[i].txn # t

TxnOK == /\ pc \in {"down", "recover", "redo"} => currentTxn = 0 /\ ~txnActive
         /\ pc # "down" => currentTxn < nextTxn
         /\ txnActive => currentTxn > 0 /\ Uncommitted(currentTxn)
         /\ InInsert => /\ stmt.txn > 0 /\ stmt.txn < nextTxn
                        /\ stmt.auto \/ stmt.txn = currentTxn
                        /\ ~stmt.auto <=> txnActive
                        /\ pc = "ins_commit" => stmt.auto
         /\ InRow => /\ stmt.txn < nextTxn
                     /\ txnActive => stmt.txn # currentTxn
         /\ pc \in {"ins_log", "row_log"} => stmt.txn > 0 /\ Uncommitted(stmt.txn)
         /\ pc \in {"down", "recover", "redo", "idle", "use_write"} => stmt = NoStmt

TxnInv == LogOK /\ TxnOK

(* Where the INSERT record of a row is: nowhere before the row is submitted,  *)
(* at one place afterwards, with the id of the row's transaction; and the     *)
(* transaction a crash left open is never committed by a later process.       *)
RecordsOf(r) == {i \in Readable : log[i].type = "INSERT" /\ log[i].row = r}

OneRecord   == \A r \in Rows : \A i, j \in RecordsOf(r) : i = j
NoneBefore  == \A r \in Rows : fate[r] = "new" => RecordsOf(r) = {} /\ r \notin txnRows
OfItsInsert == InInsert => /\ fate[stmt.row] = "open" /\ stmt.row \notin txnRows
                           /\ pc = "ins_log" => RecordsOf(stmt.row) = {}
                           /\ \A i \in RecordsOf(stmt.row) : log[i].txn = stmt.txn
OfItsTxn    == /\ txnRows # {} => txnActive
               /\ \A r \in txnRows : fate[r] = "open" =>
                    \A i \in RecordsOf(r) : log[i].txn = currentTxn
OfNoProcess == \A r \in Rows : fate[r] = "aborted" =>
                 \A i \in RecordsOf(r) : /\ log[i].txn \notin {currentTxn, stmt.txn}
                                         /\ Uncommitted(log[i].txn)
InsertTxns  == \A r \in Rows : \A i \in RecordsOf(r) : log[i].txn > 0
ImageOK     == InRow /\ stmt.op = "UPDATE" => fate[stmt.image] # "new"

RecordInv == /\ OneRecord /\ NoneBefore /\ OfItsInsert /\ OfItsTxn /\ OfNoProcess
             /\ InsertTxns /\ ImageOK

\* The commit list of wal_recover has room for the commits of the log.
CommitsFit == Cardinality(Commits) <= MaxCommitted

(* The strengthening that makes CopiesBounded inductive: a row whose record   *)
(* recovery has still to redo has not got the copy of this start, and a row   *)
(* a statement is about to write has none.                                   *)
CopyOK(b) == \A r \in Rows : b[r] <= (IF fate[r] = "new" THEN 0 ELSE sessions)
CopiesInv ==
  /\ CopiesBounded
  /\ pc # "down" => sessions > 0
  /\ pc = "recover" => \A f \in File, r \in Rows : rows[f][r] < sessions
  /\ pc = "redo" => \A r \in Rows : (\E i \in RecordsOf(r) : i >= redoIdx) =>
                      \A f \in File : rows[f][r] < sessions
  /\ pc \in {"ins_log", "ins_table"} => \A f \in File : rows[f][stmt.row] = 0
  /\ InScan => CopyOK(mem)
  /\ InRow /\ stmt.op = "UPDATE" => mem[stmt.image] = 0

(* The strengthening that makes WriteAhead hold of every step: the frame of   *)
(* an UPDATE / DELETE differs from the file in rows whose record is synced.   *)
UpdateLogged == \E i \in 1..synced : log[i].type = "UPDATE"
LoggedInv ==
  /\ pc \in {"down", "recover", "redo"} => synced = Len(log)
  /\ pc = "ins_table" => Logged(stmt.row, {"INSERT"})
  /\ InRow /\ stmt.op = "DELETE" => stmt.image = stmt.row
  /\ pc = "row_commit" => Logged(stmt.image, {stmt.op})
  /\ InScan => /\ F \in dataFiles
               /\ \A r \in Rows :
                    /\ mem[r] > rows[F][r] => Logged(r, {"INSERT", "UPDATE"})
                    /\ mem[r] < rows[F][r] => Logged(r, {"DELETE"}) \/ UpdateLogged
  /\ \A f \in File \ dataFiles : rows[f] = NoRows

(* The strengthening that makes CatalogAgrees inductive: how far CREATE and   *)
(* DROP have come in the first session.                                      *)
FilesAgree ==
  faults = 0 /\ sessions <= 1 =>
    /\ sessions = 0 => pc = "down" /\ dataFiles = {} /\ schemas = {} /\ catalog = {}
    /\ pc # "down" =>
         /\ pc = "create_schema" => dataFiles = schemas \cup {F}
         /\ pc = "drop_schema" => dataFiles = schemas \ {F}
         /\ pc \notin {"create_schema", "drop_schema"} => dataFiles = schemas
         /\ pc = "create_catalog" => schemas = catalog \cup {F}
         /\ pc = "drop_catalog" => schemas = catalog \ {F}
         /\ pc \notin {"create_catalog", "drop_catalog"} => schemas = catalog

(* The strengthening that makes ImplementsStore hold of every step: where a    *)
(* row on its way to being acknowledged is, and what recovery has reached.    *)
Inserted(r, t) == \E i \in 1..synced : /\ log[i].type = "INSERT" /\ log[i].row = r
                                       /\ log[i].txn = t /\ <<DefaultDb, log[i].table>> = home[r]

LogWhole   == \A i \in 1..Len(log) : /\ log[i].type # "TORN"
                                     /\ i > synced => log[i].type = "BEGIN"
HomeTold   == \A r \in Rows : home[r] # NoHome => fate[r] # "new"
GoneTold   == \A r \in gone : fate[r] # "new"
AckedKept  == \A r \in Rows : fate[r] = "acked" => Recoverable(r)
InsertKept == /\ InInsert => home[stmt.row] = F
              /\ pc \in {"ins_table", "ins_commit"} => Inserted(stmt.row, stmt.txn)
              /\ pc = "ins_commit" => CanOpen(F)
TxnKept    == \A r \in txnRows : fate[r] = "open" => CanOpen(home[r]) /\ Inserted(r, currentTxn)
FrameKept  == InScan => \A r \in Rows :
                /\ home[r] = F /\ fate[r] = "acked" /\ rows[F][r] > 0
                /\ r \notin gone
                => mem[r] > 0
RedoneSoFar ==
  pc = "redo" =>
    /\ redoIdx > 0 /\ ~smashed
    /\ \A i \in Redoable : LET r == log[i].row
                          IN i < redoIdx /\ <<DefaultDb, log[i].table>> = home[r] /\ CanOpen(home[r])
                               => rows[home[r]][r] > 0

StoreInv == /\ LogWhole /\ HomeTold /\ AckedKept /\ InsertKept /\ TxnKept /\ FrameKept
            /\ RedoneSoFar /\ DroppedGone /\ GoneTold

-----------------------------------------------------------------------------
(* Statements of the documentation and the tests that the code contradicts.  *)


\* test_wal.sh, "NO DUPLICATES": one INSERT, at most one row, after recovery.
NoDuplicates == pc = "idle" => \A f \in File, r \in Rows : rows[f][r] <= 1

\* README, "WAL truncation after successful checkpoint": when recovery comes to
\* its ftruncate, the committed rows of the log are in their tables.
RedoneBeforeTruncate == pc = "redo" /\ redoIdx \notin Kept =>
  \A i, j \in Readable :
    log[i].type = "INSERT" /\ log[j].type = "COMMIT" /\ log[i].txn = log[j].txn
      => rows[<<curDb, log[i].table>>][log[i].row] > 0
=============================================================================
