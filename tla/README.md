# KernelDB: specification and proofs

KernelDB is an embedded SQL database: one process, one thread, a REPL on standard input, and a
data directory `data/`. This directory holds TLA+ modules of its core, configurations that
model-check them, and TLAPS proofs. Paths are relative to the repository (`src/WAL/wal.c` is
written `wal.c` where the directory is clear).

## 1. Inventory

| component | state | operations | where it is hard |
|---|---|---|---|
| Log (`wal.c`) | `data/wal.log`, `next_lsn`, `next_txn` | open, begin, write, commit, recover, close | torn and lost records, redo that is not idempotent, fixed arrays in recovery |
| Dispatcher (`dispatcher.c`) | `current_db`, `txn_active`, `current_txn` | one handler per statement | order of log, page and acknowledgement; ignored errors |
| Process (`main.c`) | none of its own | start, recover, REPL, close | crash between any two writes |
| Tables (`table.c`) | per table a `.db`, a `.schema` and a catalog line | create, drop, open, close, insert, scan, update, delete, flush | three files that change one by one; UPDATE is delete then insert |
| Page (`page.c`) | slot directory, rows, checksum | insert, read, delete, compact, write, read back | the last free byte; torn writes |
| Buffer pool (`buffer.c`) | seven frames, LRU clock | pin, new page, evict, mark dirty / clean, flush, destroy | eviction of dirty pages, failing writes, no pin count |
| B+ tree (`index.c`) | nodes in memory, rebuilt at each open | insert, search, delete | equal keys across a split, allocation failure |
| REPL (`reph.c`) | line and query buffers, `g_interrupted`, `g_quit` | read, assemble, dispatch | signals, stdio buffering under `poll` |
| Parser and lexer | none | one line to an intent | loops that may not end |
| Async writer (`aio.c`) | io_uring ring, `pending` | write, complete, flush | failed submits; called by nobody |
| Locks (`rwlock.c`), monitor (`monitor.c`) | lock words; a stop flag | lock, unlock; a printing thread | one thread only; the monitor is never started |

How they interact. `main` opens the log, reads `data/.current_db`, calls `wal_recover`, which
redoes INSERT records through `table_open` / `table_insert_raw` / `table_flush` / `table_close`,
and then runs the REPL. Each statement goes through the parser to `handle_sql`. INSERT writes
BEGIN and INSERT records (with an fsync) in the dispatcher and then the page; UPDATE and DELETE
call `wal_log_row` for each row, a transaction of its own, from inside their loop over the pages.
A table is opened and closed by every statement, so the buffer pool and the index live for one
statement; `table_close` writes the dirty frames. Nothing in the log refers to a page version
(`page_lsn` is never set), and recovery undoes nothing.

What makes each part correct:

- log: it stays readable from its head, a transaction id names one transaction, recovery never
  applies an open one;
- statements: what was acknowledged survives, pages are written after the log, an interrupted or
  failing statement loses nothing of others;
- files: a row is only acknowledged into a table that can be opened; the current database exists;
- page: rows and directory never overlap, each slot reads back its row;
- pool: a reader sees the last version of a page wherever it is, and the close leaves it in the file;
- index: a lookup finds a row of the number asked for when there is one, and no other row. That is not what a scan
  finds: the index has the number `atoi` makes of a text, and `table_scan` does not compare the text
  afterwards. A table without an INT column is indexed on its first column (`table.c:155-162`), where all texts
  that are no numbers have key 0, and `WHERE name = 'bob'` may be answered with the row of `'al'`;
- the REPL: no line is lost; the parser: it ends.

`PROJECT.json` lists every hazard at its line, with the properties that would catch it.

## 2. Modules

| module | models | proved in |
|---|---|---|
| `Names` | names and row images shared by log and files | |
| `Wal` | `wal.c`: the log, appending, opening, what recovery keeps, power failure | `LogProofs` |
| `TableFiles` | the files of the data directory, one write at a time | |
| `KernelDB` | processes, recovery and all statements that change something; composes `Wal` and `TableFiles` | `KernelDBProofs`, `LogProofs`, `StoreProofs` |
| `DurableStore` | abstract: what a user may rely on | `StoreProofs` |
| `KernelDBProps` | the properties of `KernelDB`, and the strengthened invariants the proofs use | |
| `Page` | `page.c` byte by byte | `PageProofs` |
| `PageStore` | abstract: pages that read back what was last written | `PoolProofs` |
| `BufferPool` | `buffer.c` under the accesses of `table.c` | `PoolProofs` |
| `BPlusTree` | `index.c` as operators on trees: descent, insertion with splits, failing allocations, search, deletion | `BPlusTreeProofs` |
| `Table` | `table.c`: every statement slot by slot, on several pages, with the index it rebuilds | `TableProofs` |
| `SqlParser` | `lexer.c` and `parser.c`: text to tokens to intent, one turn of a loop per step | `ReplProofs` |
| `Repl` | `reph.c` and the dispatcher's classification around `SqlParser`: input, signals, query | `ReplProofs` |
| `MCKernelDB`, `MCPage`, `MCBufferPool`, `MCTable`, `MCRepl` | model-checking instances | |

### KernelDB, Wal and TableFiles

A step is what the process does between two writes to disk, and `Crash` is enabled between any
two of them. `pc` says where in `main` or a statement the process is:

    down -> recover -> redo ... -> idle -> (statement steps) -> idle -> ... -> down
    INSERT          ins_log, ins_table, ins_commit      (dispatcher.c:142-168)
    UPDATE/DELETE   scan, row_log, row_commit, ..., scan (table.c:496-618, wal_log_row)
    CREATE/DROP     create_schema, create_catalog / drop_schema, drop_catalog
    USE             use_write                            (between fopen("w") and fclose)

- A log record is its lsn, transaction, type, table and row: what recovery can tell apart. Like
  the real one it does not name a database. A record of which only some bytes arrived has type
  `TORN`; nothing behind it is read again. `synced` counts the records an fsync has covered.
- `write_record` has the branch the callers ignore: nothing, some bytes, or a record that was not
  synced. `LoseTail` is the crash: a killed process loses nothing, a power failure loses any part
  of the unsynced tail and may leave the first lost record torn.
- `RecoverScan` contains the overrun of `committed[256]`: past the bound, the commits overwrite
  the head of `records[]`, which lies behind the array on the stack. Records before some index are
  destroyed, and in the record at that index a committed id may have replaced the transaction id.
- `OpenTable` .. `CloseTable` keep the frame of the table in `mem` and the rows the loop has not
  reached in `left`. Any row may match: `row_matches_where` runs `strtok` on an uninitialised
  buffer. `UpdateRow` has the branch in which the new row does not fit: the old one is gone from
  the frame, which is not marked dirty. Rows have different lengths, so that this may happen to any row
  without a failure. `gone` remembers the rows it happened to; if another change of the statement has
  the page written, they are `"lost"`, else the file still has them.
- History variables: `home` (the table a row was submitted to), `fate` (what the user was told of
  it), `txnRows` and `gone`. No guard of a program step reads them, except that each INSERT and UPDATE
  takes a row image not used before.

Abstractions. A table is one page (several pages are in `BufferPool`). A close's write and fsync
are one step; metadata of directories and small files survives a power failure once written.
Torn records are always recognised; the vacuous checksum of the code may let some pass (a
hazard with a note). Bytes behind a torn head of the log are inert, though recovery may or may not
truncate them (`RecoverNothing`). `records[1024]` and `committed[256]` become `MaxRecords` and
`MaxCommitted`. SELECT changes nothing durable and is in `BufferPool` only.

### Page

Each byte behind the header belongs to nothing, to the slot directory, or to a row. `page_insert`
has the two checks of the code, the sum of slot size and row length modulo 2^16 included;
`page_compact` copies one slot per step. `TornWrite` leaves the sectors up to a cut new and the
others old, and the process dies; `page_read_disk` accepts a page whose checksum agrees. The sum
shifts 32 bits by one for each byte, so it depends on the last 32 bytes (`CheckedBytes`) and the
model keeps just these. The directory is taken to fit in the first sector.

### BufferPool

A page is its version number. `phase` follows a table from `table_open` (which pins every page to
build the index) through one statement to `table_flush` (redo only) and `table_close`. A statement
visits pages in order, skips those that cannot be pinned, changes the page it holds, or (INSERT)
adds a page. A read or write may fail at every place the code handles it. `buf_mark_clean`
returns before it does anything (its guard is inverted), so a page flushed by `table_flush` is
written again by `table_close`, as in `SyncPage`. Pin counts and frame locks have no effect in one
thread and are left out. The crash here is a killed process: what was written stays.
`Emptied` is the failure behind an eviction: `page_alloc` or `page_read_disk` fails when the frame is empty
already, in `buf_pin` and for the page `AddPage` adds (TABLE_ERROR, `page_count` as it was).
Two actions have fewer branches than the functions they call because of the state they run in: `AddPage` evicts
clean frames only, since an INSERT that comes to a new page has changed nothing, and a frame
`SyncPage` finds dirty is resident.

### BPlusTree and Table

A tree is its root and the sequence of nodes allocated so far. `insert_recursive` is a function
over the levels from the leaf up; the `failAt`-th `node_alloc` of an insert returns NULL. What the
code then does is kept: `res.split` is set all the same, the promoted key is what the stack held,
the parent gets a NULL child, the node stays full, and the next insert into it writes past its
arrays (`Overrun`; from there on the process is `crashed`, as it is when a descent meets NULL).

`Table` opens a table, builds the index row by row, runs one statement, and closes. A page is the sequence of its
slots, a row its text in the indexed column; `updates` is history. `find_index_col` picks the column, `atoi` gives
each text its number, `Key` the one a row is indexed under. Nothing checks the text of an INT column, so any text
may be in it; texts with the same number collide. `ReplaceEntry` is what UPDATE does to the index, where either of
the two keys may come out wrong. The steps are the turns of the loops in `table.c`: pin a page or skip it, pass a
slot or change it. `PassRow` and the changes are both possible under WHERE, because `row_matches_where` reads an
uninitialised buffer; for the same reason the key an entry gets, and the one it is deleted by, may be misread
(`Misread`). `UpdateNoRoom` leaves the entry of the lost row. `indexFaults` and `skipped` remember what failed, and
the properties say what still holds: nothing the index gets wrong in an UPDATE or DELETE outlives the statement,
because every open rebuilds it, and a failed split may make a lookup miss a row, never answer another. `faults`
counts the failures for `SplitSurvived`.

Left out: the log records of a row change (KernelDB), frames and eviction (BufferPool), leaf
chaining (printed only), page offsets (Page: a page has room for `PageSlots` rows of one length).
`SkipPage` is also INSERT's failing pin.

### SqlParser and Repl

A text is a sequence of lexemes: keywords, words, numbers, quoted strings, punctuation, blanks.
What the code does with characters and a property can tell apart is kept: words with nothing
between them become one (`GoesOn`), unknown characters are skipped, a quoted string may hold a
`;`. Lengths (`LineSize`, `QuerySize`, `MAX_TOKENS`) count lexemes. A quoted string begins and ends in
one line. No name is as long as `MAX_NAME_LEN` (64) and no word as `MAX_TOKEN_LEN` (256): `strncpy` cuts longer ones
(`parser.c:45`, 68, 86), so that two names with the same first 63 characters are one table; the model does not cut.

`Repl` has three counters: lines typed, lines read from the descriptor, and lines `fgets` has begun,
with `rest` of a line longer than its buffer. `poll` sees the first gap, stdio's buffer is the
second. A terminal gives one line per read, a pipe all there is. A signal may come at any time; the flag is
looked at only when a read returns. `asked` is history: the text since `query` was last cleared,
whole and with its line ends, so that properties compare what was typed with what `query` made of it.

What these properties do not promise, because the code does not do it:

- a break between two words joins them (`strncat`, `reph.c:145`); `Apart` excludes it. `DELETE FROM t`
  and `WHERE id = 1;` on two lines name a table `tWHERE`; `UPDATE t SET a = b` and `WHERE ...` update
  every row;
- a WHERE whose column or value is a keyword, or whose value is missing, is dropped without a
  message, and the DELETE or UPDATE reaches every row (`parser.c:44`); `IntentAsTyped` covers
  the form of `.help`, with words that are no keywords;
- a `;` in a quoted string ends the statement; what follows the first `;` of a line is dropped (`reph.c:148`), also
  a second statement, which `test.sh:55`, 59 and 68 type. `asked` is cut at the same place, so `IntentAsTyped`
  speaks of the text up to the first `;` and does not see this;
- end of input stays on in the model; on a terminal the code polls again after an interrupted Ctrl-D
  (`reph.c:46`), so a session may go on where the model's ends;
- a list with a token that is no value keeps the parser in its loop for ever, and with it the shell
  (`[]Parsing` in `SessionEnds` and `TtyAnswers`): neither a signal nor the end of the input is looked at;
- on a pipe, lines in stdio's buffer wait for more input or its end; the rest of a line of 255
  characters or more waits on a terminal too;
- SIGTERM has the handler of SIGINT: it throws away the next line and ends nothing, although
  `README.md:65` says "Graceful `SIGINT` / `SIGTERM` handling".

## 3. Runs

| run | instance | states | what it shows |
|---|---|---|---|
| `redo` | 1 database, 1 table, 3 rows, log up to 7 records, 2 sessions, 1 failing page write; UPDATE with and without room | 0.9 M | `ImplementsStore`, `WriteAhead`, `AbortedNotRedone`, `LogWellFormed`, `TypeOK` at every crash point of every row statement |
| `ddl` | 2 databases with the same table name, 3 rows, log up to 6, 2 sessions, `MaxRecords` 4, `MaxCommitted` 1, one failure among log write, torn record, schema file, redo; UPDATE with and without room | 5.3 M | `AckedOnDisk`, `CatalogAgrees`, `CurrentDbExists` |
| `faults` | 2 rows, log up to 5, 2 sessions, `MaxRecords` 5, `MaxCommitted` 1, all five failures | 0.6 M | `CopiesBounded`, `LogWellFormed`, liveness `StatementsReturn` |
| `page` | 20 bytes for rows and entries, lengths 1 and 4, 3 slots, 2 rows | 0.5 M | `ReadsBack`, `CompactKeeps`, `PageTypeOK` |
| `pool` | 2 frames, up to 4 pages of version up to 3, 1 failure | 44 k | `ImplementsPages`, `OneCopy`, `NoHole`, `KeepsLast`, `PoolTypeOK` |
| `table` | index of order 3, 2 pages of up to 4 slots and a third to add, 120 tables indexed on a text column (different keys; few keys with deleted rows; one full page), two of the five texts no numbers, 1 statement, 1 failure | 0.5 M | `LookupRight`, `SplitSurvived`, `IndexMaintained`, `EachRowOnce`, `WholeTable`, `TableTypeOK`, liveness `TableReturns` |
| `shell` | scripts of three of 8 lines, two of 14, and all endings of up to 2 or 3 lexemes behind 19 beginnings of statements; 11 tokens, 2 values, 2 columns, lines of 14 and queries of 17 lexemes; 1 signal | 0.2 M | `IntentAsTyped`, `InterruptTakesOne`, `ReplTypeOK`, liveness `StatementParsed`, `SessionEnds`, `TtyAnswers` |

The violation runs check what the documentation or a test says and the code does not do; each is a
finding in `PROJECT.json`.

| run | statement | why it fails |
|---|---|---|
| `bad_uncommitted` | `test_wal.sh` "UNCOMMITTED MUST DIE" | the page is written before COMMIT, recovery undoes nothing |
| `bad_duplicates` | `test_wal.sh` "NO DUPLICATES" | redo inserts rows that are already on their page |
| `bad_truncate` | README, truncation after a successful checkpoint | a failed redo is not noticed |
| `bad_torn_page` | README, page checksums for integrity | the checksum covers 32 bytes of 4056 |
| `bad_lookup` | README, point lookups by `RowLocation` | a promoted key is put behind an equal separator |

The shell test `test_wal.sh` types statements without `;`, which the REPL collects and never dispatches;
so it does not see the first two. `bad_lookup` inserts the keys 3, 3, 3, 3, 4, 2, 1 into an index of order 4:
the split that 1 causes promotes a second 3, which goes behind the first together with its leaf. The
leaf with 4 then lies between two separators 3, where no descent enters, though 4 itself occurs once.

**Properties**, the ones that need words:

- `ImplementsStore`: `KernelDB` implements `DurableStore` under the mapping "kept = on its page, or
  in a record recovery would redo into its own table". It is an "at least once" promise: a row may
  come back or be there twice, an acknowledged row is gone only when a statement took it: DELETE,
  DROP TABLE, or an UPDATE. An UPDATE without room may take the old row too, though it does not count
  it as updated; the promise ends for that row, in the step that makes it `"lost"`. It needs a log that
  does not fail and one database; the run for it therefore allows failing page writes only, and so do `WriteAhead`,
  `AbortedNotRedone` and `LogWellFormed` there (`faults` has `LogWellFormed` with failures of the log).
- `AckedOnDisk` is the complement: page writes do not fail, everything else may, with two databases. The one
  exception is again the row of an UPDATE without room, once another change of the statement has the page
  written. As long as it is only gone from the frame it counts as acknowledged, so the property says
  that the close then writes nothing.
- `WriteAhead`: no page write adds or removes a row whose log record is not on stable storage
  (DROP TABLE, which is not logged, excepted).
- `LogWellFormed`: growing lsns, one BEGIN per id, and nothing but COMMIT behind a COMMIT of the
  same id: COMMIT twice, BEGIN twice, COMMIT without BEGIN and failing writes included.
- `CopiesBounded`: what non-idempotent redo does wrong is one copy of a row per start. It is an upper bound
  and says nothing of a copy that should not be there at all: a deleted row that comes back, a row the user was told
  is in error, a record of a dropped table redone into a new one of that name.
- `AbortedNotRedone` covers the rows of a transaction open at the crash and those a second BEGIN orphaned.
- `CatalogAgrees` speaks of a session without failures and of the state between statements: it finds wrong orders
  of the file operations, and nothing about crash points, for which there is `AckedOnDisk`.
- `CompactKeeps` is about `page_compact` as it stands; nothing in the repository calls it.
- `ReadsBack`, `ReadsIntact` are about pages that are accepted. A page whose checksum differs is unreadable, with
  the committed rows it held; no property follows those rows.
- `ImplementsPages`: the pool under failures, evictions and double writes behaves as a set of pages
  without a cache, and a close in which no write failed loses nothing.
- `NoHole`: a page number is in the file only if all lower ones are. It rests on one new page per
  open table, which is what INSERT and redo do.
- `LookupRight` has three parts. Unless a key was misread when the index was built, what a lookup answers
  are live rows whose text has the number asked for, with equal keys, failed allocations and skipped pages. With
  different keys, no failure and no skipped page it finds the row of that number exactly when there is one;
  equal keys are `bad_lookup`. And only if that row has the text asked for is the answer that of a scan
  (`Scanned`): where another text has the number, a lookup answers its row, and a scan would not.
- `SplitSurvived`: with different keys, one failed `node_alloc` of a split kills the process or hides no key;
  after two, or when the node for a new root fails, a subtree may be out of reach.
- `IndexMaintained`: with different keys, at every turn of UPDATE and DELETE, search agrees with the
  rows. Equal keys and a row lost for want of room break it, until the next open.
- `WholeTable`: a page that fails is passed over and stays as it was, and every other page is
  worked through to the last row, the ones UPDATE adds behind excepted (`EachRowOnce`). For INSERT it is an upper
  bound: one row or none, and no other touched.
- `IntentAsTyped`: whatever was typed, interrupted or cut before, a statement in the form `.help`
  gives becomes the intent of just that text, however its lines and the pieces of `fgets` fall.

**Bounds.** Two sessions are a crash and a recovery of what it left; a third can only add what the second
starts from, and the theorems below have no bound. Seven records hold two whole auto-committed
transactions, or an explicit one with an orphan, plus the row of an UPDATE or DELETE. With
`MaxRecords` 4 or 5 and `MaxCommitted` 1 both arrays of recovery overflow. Two frames and four
pages make every statement evict; one new page fits twice. In 20 bytes of a page two rows fit only
when they should, and a dead slot has to be compacted before a third fits. Order 3 splits leaves and
inner nodes with the five keys of two pages, and a root twice; with `MaxFaults` 1 each
allocation, page and key fails once, a failed split followed by inserts into the same node. The
shell's sizes are such that statements fit and do not fit a line, a query, the token list and both
arrays by one. Row symmetry is used
in safety runs only (`StatementsReturn` is checked without).

**Fairness.** `FairSpec` asks for weak fairness of `Progress`: the steps a started process takes by
itself. The code is single-threaded, so this is the operating system scheduling a runnable
process. Nobody is obliged to start it or to type. `StatementsReturn` starts behind the parser, `StatementParsed` says
when a statement gets that far. `Table!FairSpec` writes the weak fairness of `Progress` out (`Progress` is
enabled just when the process is running), `Repl!Spec` asks it of `repl_run`: `poll` returns after
200 ms at the latest.

`CHECK_DEADLOCK` is on everywhere; `Closed`, `Stopped` and `Ended` are the explicit ends of bounded sessions.

**Mutants.** Operators with a suffix (`wal_write_NoFsync`, `DeleteRow_SameSlot`, ...) are plausible bugs.
`PROJECT.json` pairs one with every property of every passing run.

## 4. Proofs

Thirty theorems hold for every value of the constants (the bounds included). Those about a system rest on
an inductive invariant, whose parts are below; those about the B+ tree say what one call does to a tree.

**The log and the statements** (`Wal`, `TableFiles`, `KernelDB`)

- `KernelDBProofs!TypeCorrect`: `Spec => []TypeOK`. `TypeOK` is not inductive: `MinusOne` must find
  a copy to take away. `TypeInv` adds what the locals of a statement are at each `pc`
  (`StmtOK`), that the loop has not more rows ahead than the frame holds (`LeftOK`), and that an
  INSERT record carries a row (`InsertRecordsOK`).
- `KernelDBProofs!CurrentDatabase`: `Spec => []CurrentDbExists`. The invariant is inductive as
  it stands: what a running process has as current database must exist, and so must what the
  file names, unless it is empty or absent.
- `KernelDBProofs!FilesInStep`: `Spec => []CatalogAgrees`. `FilesAgree` says how the three files of a
  table differ between two steps of CREATE TABLE and of DROP TABLE.
- `LogProofs!LogOrdered`: `Spec => []LogWellFormed`. The order of a log says nothing about the next
  record; `TxnInv` adds that ids are below `nextTxn`, lsns below the next one, and that the open
  transaction and the running statement have ids without a COMMIT (`Uncommitted`).
- `LogProofs!AbortedStayOut`: `Spec /\ []CommitsFit => AbortedNotRedone`. A row has one INSERT record
  at most (`OneRecord`), and the id of one a crash left open belongs to no later transaction
  (`OfNoProcess`): ids start behind the largest one in the log. `CommitsFit` says that
  the log never has more COMMITs than `committed[]` has places. It is needed: past the array the overrun may
  write a committed id into the record of an aborted row.
- `LogProofs!RedoneOncePerStart`: `Spec => []CopiesBounded`. While recovery runs, a row whose record is
  still ahead does not yet have the copy of this start, in any table (`CopiesInv`).
- `LogProofs!LogComesFirst`: `Spec => WriteAhead` assuming `LogWritten` (writes and fsyncs of the log are not
  among the failures; torn records are). The callers of `wal_write` ignore its result, so the
  assumption is necessary. `LoggedInv` says what is logged and synced at each `pc`, and that where the frame
  of an UPDATE / DELETE and the file differ, a record tells why.
- `KernelDBProofs!AcknowledgedRows`: `Spec => []AckedOnDisk` assuming `PagesWritten` (page writes are not among the
  failures; UPDATE without room is no failure and is included). The inductive invariant is `TypeInv /\ DiskInv`:
  rows of an open transaction are already on disk (`PromisedOnDisk`), a row nobody submitted is nowhere
  (`NewNowhere`), the frame of an UPDATE / DELETE still has every promised row but those an UPDATE without room took (`ScanOK`, `gone`), an image being written is in the frame
  (`UpdatingOK`), and a table being dropped has no data file (`DroppedGone`). Whatever recovery does, it only adds
  copies.
- `StoreProofs!AcknowledgedIsKept`: `Spec /\ []CommitsFit /\ []RecordsFit => ImplementsStore` assuming
  `StoreWorld`. Every step of `KernelDB` is a step of `DurableStore` or none. `StoreInv` says where
  a row on its way to being acknowledged can be found (`InsertKept`, `TxnKept`, `FrameKept`) and
  what recovery has put back so far (`RedoneSoFar`). What it assumes is what the promise
  needs: one database, since a record names none; a log that fits `records[]` and `committed[]`, since
  what does not fit is not redone and the log is truncated all the same; and no failure but those of
  a page write and of CREATE TABLE. UPDATE without room is part of `Spec`: `GoneTold` says that the rows it took
  were submitted. A log write that fails or is torn loses the record of a row
  that is then acknowledged, and a failed redo is followed by truncation (`bad_truncate`).

**Pages and frames** (`Page`, `BufferPool`)

- `PageProofs!PageReads`: `Spec => []ReadsBack`. The strengthening is the layout (`ImageOK`): the
  directory ends before `free_end`, the rows lie behind it in the order of their slots without
  overlap, and dead rows keep their bytes too; for the frame, the file and the copy `page_compact`
  builds. That the copy always has room is the heart of it (`CompactOK`): the rows of the slots not yet copied
  end before what has been copied.
- `PageProofs!PageTyped`: `Spec => []PageTypeOK`, from the same invariant.
- `PageProofs!CompactKeepsRows`: `Spec => CompactKeeps`. Rows have no gaps between them (`Packed`), so what
  a slot takes is the distance to the one before it; the copy agrees after every
  turn with the account of the slots passed (`SoFar`).
- `PoolProofs!PoolCoherent`: `Spec => []OneCopy`. The strengthening says that frames hold pages
  of the table only, so that the page an INSERT adds is in none of them, and that the frame a statement
  changes holds a page.
- `PoolProofs!PoolTyped`: `Spec => []PoolTypeOK`. The table does not outgrow its page numbers in any phase
  (`BoundsOK`, `PhaseOK`).
- `PoolProofs!FileWithoutHole`: `Spec => []NoHole`. `FileInv`: the file is a prefix of the table, of one
  page less than the table at most until the added page has been written.
- `PoolProofs!LastPinStays`: `Spec => KeepsLast`. `LruInv`: the frame pinned last has the highest rank.
- `PoolProofs!PoolIsPageStore`: `Spec => ImplementsPages`, without any assumption on failures.
  `DirtyInv` adds that a flush leaves no dirty frame behind as long as no write failed, and that an INSERT
  has none before it is done.

**The index** (`BPlusTree`, then `Table`)

- What holds whichever allocations fail needs the levels of a tree only: `TreeOK` gives each node a level, the
  leaves 0 and every child that is not NULL one less than its parent, so that the descent ends. With it
  `BPlusTreeProofs!InsertAdds`: an insert adds its entry to the leaves and loses none, through all splits,
  whole or failed; and `SearchHas`: a search answers what was entered for its key. Which child a descent
  takes, and what a separator is, plays no part.
- That a search finds what was entered needs more. `Searchable` names for each level and each key the one
  node the key belongs to (`W`, the owners): on the top level the root; at each inner node, those of child `i` are
  the node's own keys for which `ChildIndex` is `i`; and a leaf has only keys that are its own. No separator
  bounds have to be carried down the tree, and a split is one change of `W` on one level (`Parted`). Until its
  parent knows the right half, the parent alone is excused (`Risen`), which is the invariant of the way up.
  The separators are strictly ascending (`Ascending`); that is where equal keys would break it.
- `CreateSearchable`, `InsertSearchable` (a key without an entry, no allocation failing), `DeleteSearchable` and
  `SearchFinds` are the operations in terms of `Searchable` and of `Has`, the entries of the leaves.
  `DeleteSearchable` (the entries of one key are gone, and no others: `Forgets`) holds although `INDEX_delete`
  neither merges nodes nor changes separators: what a leaf owns does not depend on what it has.
- `TableProofs!LookupAnswers`: `Spec => []LookupRight`, `TableProofs!IndexKept`: `Spec => []IndexMaintained`, for
  every order of the index, every table, every number of failures, and whatever `atoi` and the types of the columns
  are: no two texts need have different numbers. `IndexInv` adds to the invariant of `WholeTable`: `EntriesHold`
  (while no key was misread, entries are rows; the first half of `LookupRight`), `BuiltSoFar` (while the index is
  built, it has the rows passed and no others), `Mirrored` (afterwards, all rows, at every turn of every loop) and
  `OnlySet`. The last is why `IndexMaintained` can ask for different keys in the first and the present table only:
  UPDATE gives rows the one key it sets, so if keys are different now they were at each turn before, and once two
  rows are equal they stay so until the statement ends.

**Tables and shell** (`Table`, `SqlParser`, `Repl`)

- `TableProofs!RowOnce`: `Spec => []EachRowOnce`. That no row has been changed twice says nothing of
  the rows the loop of an UPDATE has yet to visit, so `TableInv` adds that those are unchanged: all
  of later pages, and those of its page from `slot` to `limit` (`QuietAhead`). New versions go behind
  the slots the page had when `limit` was read, `limit <= Len(pages[pid])`. Before the loop no row is changed
  (`QuietBefore`); the first table satisfies it by `TablesAssumption`. The index, pins that fail and
  misread keys are in the model and change nothing in the argument.
- `TableProofs!TableTyped`: `Spec => []TableTypeOK`. It needs a page to have room for at least one row
  (otherwise INSERT passes all pages and has none to add), and initial pages that hold what fits.
- `TableProofs!WholeStatement`: `Spec => []WholeTable`. `SoFar`: the pages passed are finished or skipped, the
  pages ahead are as they were. `Reached` says the same inside the page: the slots behind are
  dead, those ahead unchanged, and the new versions are as many as the old ones, up to the
  room the page had. The number of rows a prefix of a page has is a cardinality, which grows by
  one at each turn.
- `ReplProofs!OnePiecePerSignal`: `Spec => []InterruptTakesOne`. A signal whose flag is still set has cost
  nothing yet (`SignalsPaid`).
- `ReplProofs!BuffersFit`: `Spec => []ReplTypeOK`. `BuffersInv` has a part for the lines (`InputFits`), the query
  (`QueryFits`: a query in the parser fits its buffer, and appends stop before) and the parser
  (`ParserFits`: position, token list and both arrays).

**Assumptions** are the `ASSUME`s of the modules, which TLC evaluates on every run, and those named above.
An `ASSUME` says what the code's declarations say (a page fits in 16 bits, a pool has a frame, a page
has room for a row, `MAX_TOKENS` is not 0, ...) or that model values differ (`None`, `NoHome`, `Absent`).
The hypotheses `[]CommitsFit` and `[]RecordsFit` hold in the `redo` run, whose arrays are longer than its log.

**Recursive definitions.** `Without` (the lexer's filter) and `Kept` (the account of `page_compact`) are
recursive functions over a sequence, the descent and the way up of `BPlusTree` over levels. That such a
function exists is proved by the first place where it would not (`Least`, `LeastOf`), and a statement about
every level by the first level that lacks it: a non-empty set of naturals has a least element
(`WellFoundedInduction`). The rest follows the program's loop turn by turn.

**Only model-checked:**

- liveness (`StatementsReturn`, `TableReturns`, `StatementParsed`, `SessionEnds`, `TtyAnswers`): fairness and
  ENABLED are out of the prover's reach;
- `SplitSurvived`: what one failed split leaves depends on where it is. A full leaf, a NULL child next to
  a garbage separator and a lost half of the root each have their own shape, and later inserts go on from it;
  `Searchable` describes none of them. `InsertAdds` and the first half of `LookupRight` are proved for all of them;
- `IntentAsTyped`: it compares the parser, a token at a time, with the whole text as typed, through the
  lexer and the pieces of `fgets`: an induction over texts for each form of a statement, with a list of
  any length in two of them.

## 5. Plan

In the order of importance; all done but what 5 names.

1. `Wal`, `TableFiles`, `KernelDB` with `DurableStore`; `TypeCorrect`, `CurrentDatabase`,
   `AcknowledgedRows`.
2. `Page`; `PageReads`.
3. `BufferPool` implementing `PageStore`; `PoolCoherent`.
4. `BPlusTree` and `Table`, `SqlParser` and `Repl`.
5. Proofs, in this order: the log, the pool, the refinements of `DurableStore` and `PageStore`, the
   table, the shell, compaction, the B+ tree and with it lookups: done. Left: `IntentAsTyped` for the
   statements without a list, and `SplitSurvived`.

### Not modelled

- `aio.c`: no code calls it. Its functions are not ordered by any caller, and its callback has no
  definition, so a model would state what a caller that does not exist might do.
- A table named `catalog`: its data file is `catalog.db`, the catalog itself (`table.c:21-27`). `TableFiles` keeps the
  data files and the catalog apart, so its names are all others.
- `rwlock.c`: `table.c` takes each lock and gives it back in the same turn, in the only thread; no call
  can block, and the counters are only printed.
- `monitor.c` (prints only, never started), the `*_print` functions, `.help`, `SHOW DB`, the
  Makefile, and `table_insert` with `serialise_row`, which nobody calls.
