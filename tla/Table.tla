-------------------------------- MODULE Table --------------------------------
(***************************************************************************)
(* The statements of src/storage/Table/table.c on a table of several pages, *)
(* with the index they rebuild at every open (BPlusTree).  A page is the     *)
(* sequence of its slots; the pool under it shows the last version of a     *)
(* page (BufferPool), or buf_pin fails and the page is skipped.  A row is    *)
(* its text in the indexed column, and its key the number atoi makes of it.  *)
(* The log is left to KernelDB.                                              *)
(***************************************************************************)
EXTENDS BPlusTree

CONSTANTS
  Values,         \* the texts of the indexed column: nothing checks its type
  NewValues,      \* those an INSERT or UPDATE writes
  atoi,           \* the number a text begins with, 0 if there is none
  ColTypes,       \* the types of the columns, in their order
  Garbage,        \* what an uninitialised number may be
  PageSlots,      \* rows that fit a page; rows have one length
  Tables,         \* the contents a table may have when it is first opened
  MaxPages,       \* model bound: no INSERT starts on a table with more pages
  MaxFaults,      \* model bound: failures in a behaviour
  MaxStatements   \* model bound: statements in a behaviour

ASSUME TableAssumption == /\ atoi \in [Values -> Int] /\ NewValues \subseteq Values /\ Garbage \subseteq Int
                          /\ ColTypes \in Seq({"INT", "TEXT"}) \ {<<>>}
                          /\ PageSlots \in Nat \ {0}
                          /\ MaxPages \in Nat /\ MaxFaults \in Nat /\ MaxStatements \in Nat

NoValue == ""                    \* of a deleted row
Other   == "(other column)"      \* SET writes a column that is not indexed
Unknown == "(no such column)"    \* SET names a column the table does not have

ASSUME ValuesAssumption == {NoValue, Other, Unknown} \cap Values = {}

\* What a slot holds: a row, of which the text in the indexed column matters,
\* or what page_delete leaves.
Row(v)   == [value |-> v, updates |-> 0]    \* updates: history, by this statement
Dead     == Row(NoValue)
Slots    == {Dead} \cup [value : Values, updates : Nat]
Key(row) == atoi[row.value]

\* Pages hold what fits; a stored row has not been changed by the statement to come.
ASSUME TablesAssumption ==
  /\ Tables \subseteq Seq(Seq({Dead} \cup {Row(v) : v \in Values}))
  /\ \A t \in Tables : \A p \in DOMAIN t : Len(t[p]) <= PageSlots

VARIABLES
  pages,      \* the slots of each page
  index,      \* table->index
  pc,         \* "closed", "build" (table_open), "ready", the loop of a statement, "done"
  stmt,       \* the intent: statement, where.active, the value SET writes
  pid, slot,  \* the loop counters
  limit,      \* original_count
  answer,     \* the locations a SELECT printed
  faults, statements,
  before,     \* history: pages when the statement started
  skipped,    \* history: the pages the loop of the statement could not pin
  indexFaults \* history: what went wrong with the index since the open

loop    == <<pid, slot, limit>>
history == <<before, skipped, indexFaults>>
vars    == <<pages, index, pc, stmt, loop, answer, faults, statements, history>>

\* The first column of type INT, else the first column.
find_index_col == LET ints == {c \in DOMAIN ColTypes : ColTypes[c] = "INT"}
                  IN IF ints = {} THEN 1 ELSE CHOOSE c \in ints : \A d \in ints : c <= d
OtherColumns   == DOMAIN ColTypes \ {find_index_col}

NoIndex == <<>>
Live(p) == {s \in DOMAIN pages[p] : pages[p][s] # Dead}
LiveAt  == UNION {{<<p, s>> : s \in Live(p)} : p \in DOMAIN pages}
NoStmt  == [op |-> "none", where |-> FALSE, set |-> NoValue]
PC      == {"closed", "build", "ready", "insert", "update", "delete", "done", "crashed"}

TableTypeOK ==
  /\ pages \in Seq(Seq(Slots)) /\ \A p \in DOMAIN pages : Len(pages[p]) <= PageSlots
  /\ pc \in PC
  /\ stmt \in [op : {"none", "lookup", "scan", "insert", "update", "delete"},
               where : BOOLEAN, set : Values \cup {NoValue, Other, Unknown}]
  /\ pid \in 1..Len(pages) + 1 /\ slot \in Nat /\ limit \in Nat
  /\ pc \in {"update", "delete"} /\ slot > 0 => pid <= Len(pages) /\ limit <= Len(pages[pid])
  /\ answer \subseteq (1..Len(pages)) \X (1..PageSlots)
  /\ skipped \subseteq 1..Len(pages)
  /\ indexFaults \subseteq {"create", "pin", "key", "alloc", "root", "row"}
  /\ faults \in 0..MaxFaults /\ statements \in 0..MaxStatements

Init == /\ pages \in Tables
        /\ index = NoIndex /\ pc = "closed" /\ stmt = NoStmt
        /\ pid = 1 /\ slot = 0 /\ limit = 0 /\ answer = {}
        /\ faults = 0 /\ statements = 0
        /\ before = pages /\ skipped = {} /\ indexFaults = {}

Fault == faults < MaxFaults /\ faults' = faults + 1
IndexFault(f) == Fault /\ indexFaults' = indexFaults \cup {f}
NoFault == UNCHANGED <<faults, indexFaults>>

-----------------------------------------------------------------------------
(* The index under the code of table.c.  A step has one failure at most.    *)

\* Descending for key meets the NULL child of a failed split.
Unreachable(t, key) == t # NoIndex /\ find_leaf(t, key) = NULL

\* The process survives the calls that lead from one index to the next.
Survives(t, key, next) == ~Unreachable(t, key) /\ (next = NoIndex \/ ~Overrun(next))

(* get_col_value runs strtok on an uninitialised buffer: mostly it finds the *)
(* column, but any number may come out of it.                               *)
Misread(key) == Garbage \ {key}

\* INDEX_insert on an index that may be missing.
Entered(t, key, loc, failAt, garbage) ==
  IF t = NoIndex \/ Unreachable(t, key) THEN t
  ELSE INDEX_insert(t, key, loc, failAt, garbage)

Enter(t, key, loc, failAt, garbage, next) ==
  /\ index' = Entered(t, key, loc, failAt, garbage)
  /\ pc' = IF Survives(t, key, index') THEN next ELSE "crashed"

\* The row at loc gets its entry in t; then the code is at next.
AddEntry(t, key, loc, next) ==
  \/ Enter(t, key, loc, 0, 0, next) /\ NoFault
  \/ \E read \in Misread(key) : Enter(t, read, loc, 0, 0, next) /\ IndexFault("key")
  \/ /\ t # NoIndex /\ ~Unreachable(t, key)
     /\ \E failAt \in 1..Allocations(t, key, loc), garbage \in Garbage :
          /\ Enter(t, key, loc, failAt, garbage, next)
          /\ IndexFault(IF RootFails(t, key, loc, failAt) THEN "root" ELSE "alloc")

\* Mutant: the old entry stays.
Without_Keeps(t, key) == t

\* INDEX_delete on an index that may be missing.
Without(t, key) == IF t = NoIndex \/ Unreachable(t, key) THEN t ELSE INDEX_delete(t, key)

-----------------------------------------------------------------------------
(* table_open: INDEX_create, then every row of every page that can be        *)
(* pinned goes into the index.                                              *)

table_open == /\ pc = "closed" /\ statements < MaxStatements
              /\ statements' = statements + 1
              /\ \/ index' = INDEX_create /\ NoFault
                 \/ index' = NoIndex /\ IndexFault("create")
              /\ pc' = "build" /\ pid' = 1 /\ slot' = 0 /\ limit' = 0
              /\ before' = pages
              /\ UNCHANGED <<pages, stmt, answer, skipped>>

InLoop == pc \in {"build", "insert", "update", "delete"} /\ pid <= Len(pages) /\ slot = 0

\* Mutant: the loop runs over the slots a page may have.
PinPage_AllSlots == /\ InLoop /\ pc # "insert"
                    /\ slot' = 1 /\ limit' = PageSlots
                    /\ UNCHANGED <<pages, index, pc, stmt, pid, answer, faults, statements, history>>

\* buf_pin at the head of a loop over the slots of a page.
PinPage == /\ InLoop /\ pc # "insert"
           /\ slot' = 1 /\ limit' = Len(pages[pid])
           /\ UNCHANGED <<pages, index, pc, stmt, pid, answer, faults, statements, history>>

\* Mutant: break instead of continue.
SkipPage_Breaks == /\ InLoop /\ pid' = Len(pages) + 1
                   /\ IF pc = "build" THEN IndexFault("pin") /\ UNCHANGED skipped
                      ELSE Fault /\ skipped' = skipped \cup {pid} /\ UNCHANGED indexFaults
                   /\ UNCHANGED <<pages, index, pc, stmt, slot, limit, answer, statements, before>>

\* buf_pin returned NULL: continue.
SkipPage == /\ InLoop /\ pid' = pid + 1
            /\ IF pc = "build" THEN IndexFault("pin") /\ UNCHANGED skipped
               ELSE Fault /\ skipped' = skipped \cup {pid} /\ UNCHANGED indexFaults
            /\ UNCHANGED <<pages, index, pc, stmt, slot, limit, answer, statements, before>>

\* Mutant: the counter of the pages is not advanced.
NextPage_SamePage == /\ pc \in {"build", "update", "delete"} /\ slot > limit
                     /\ slot' = 0 /\ limit' = 0
                     /\ UNCHANGED <<pages, index, pc, stmt, pid, answer, faults, statements, history>>

NextPage == /\ pc \in {"build", "update", "delete"} /\ slot > limit
            /\ pid' = pid + 1 /\ slot' = 0 /\ limit' = 0
            /\ UNCHANGED <<pages, index, pc, stmt, answer, faults, statements, history>>

\* The slot of a loop is passed without being changed.
PassSlot == /\ slot' = slot + 1
            /\ UNCHANGED <<pages, index, pc, faults, indexFaults>>

BuildRow == /\ pc = "build" /\ slot \in 1..limit
            /\ \/ slot \notin Live(pid) /\ PassSlot
               \/ /\ slot \in Live(pid)
                  /\ AddEntry(index, Key(pages[pid][slot]), <<pid, slot>>, "build")
                  /\ slot' = slot + 1 /\ UNCHANGED pages
            /\ UNCHANGED <<stmt, pid, limit, answer, statements, before, skipped>>

BuildDone == /\ pc = "build" /\ pid > Len(pages)
             /\ pc' = "ready" /\ pid' = 1
             /\ UNCHANGED <<pages, index, stmt, slot, limit, answer, faults, statements, history>>

-----------------------------------------------------------------------------
(* SELECT: one row by the index, or all pages.                              *)

\* where.column is the indexed one.  The text is not compared with the row's.
IndexLookup ==
  /\ pc = "ready"
  /\ \E value \in Values : LET key == atoi[value] IN
       /\ stmt' = [op |-> "lookup", where |-> TRUE, set |-> value]
       /\ IF Unreachable(index, key)
          THEN pc' = "crashed" /\ UNCHANGED <<answer, faults>>
          ELSE LET hits == IF index = NoIndex THEN {} ELSE INDEX_search(index, key)
               IN /\ pc' = "done"
                  /\ \/ answer' = hits \cap LiveAt /\ UNCHANGED faults
                     \/ hits # {} /\ answer' = {} /\ Fault   \* buf_pin failed
  /\ UNCHANGED <<pages, index, loop, statements, before, indexFaults>>
  /\ IF faults' = faults THEN UNCHANGED skipped ELSE skipped' = 1..Len(pages)

\* The full scan, over every page that can be pinned: no WHERE, or one on another
\* column.  A column the table does not have matches nothing.
FullScan ==
  /\ pc = "ready" /\ pc' = "done"
  /\ \E missed \in SUBSET DOMAIN pages, where \in BOOLEAN :
       /\ faults + Cardinality(missed) <= MaxFaults
       /\ faults' = faults + Cardinality(missed) /\ skipped' = missed
       /\ stmt' = [op |-> "scan", where |-> where, set |-> NoValue]
       /\ \E matched \in SUBSET {l \in LiveAt : l[1] \notin missed} :
            /\ ~where => matched = {l \in LiveAt : l[1] \notin missed}
            /\ where /\ OtherColumns = {} => matched = {}
            /\ answer' = matched
  /\ UNCHANGED <<pages, index, loop, statements, before, indexFaults>>

-----------------------------------------------------------------------------
(* INSERT: the first page with room, else a new page.                       *)

StartInsert == /\ pc = "ready" /\ Len(pages) < MaxPages
               /\ \E v \in NewValues : stmt' = [op |-> "insert", where |-> FALSE, set |-> v]
               /\ pc' = "insert"
               /\ UNCHANGED <<pages, index, loop, answer, faults, statements, history>>

FullPage == /\ pc = "insert" /\ pid <= Len(pages) /\ Len(pages[pid]) = PageSlots
            /\ pid' = pid + 1
            /\ UNCHANGED <<pages, index, pc, stmt, slot, limit, answer, faults, statements, history>>

\* page_insert succeeded: the row and its entry.
InsertRow == /\ pc = "insert" /\ pid <= Len(pages) /\ Len(pages[pid]) < PageSlots
             /\ pages' = [pages EXCEPT ![pid] = Append(@, Row(stmt.set))]
             /\ AddEntry(index, atoi[stmt.set], <<pid, Len(pages[pid]) + 1>>, "done")
             /\ UNCHANGED <<stmt, loop, answer, statements, before, skipped>>

NewPage == /\ pc = "insert" /\ pid > Len(pages)
           /\ \/ /\ pages' = Append(pages, <<Row(stmt.set)>>)
                 /\ AddEntry(index, atoi[stmt.set], <<pid, 1>>, "done")
              \/ /\ Fault /\ pc' = "done"             \* buf_new_page: TABLE_ERROR
                 /\ UNCHANGED <<pages, index, indexFaults>>
           /\ UNCHANGED <<stmt, loop, answer, statements, before, skipped>>

-----------------------------------------------------------------------------
(* DELETE and UPDATE: for every page, for every slot it had when the loop   *)
(* came to it.                                                              *)

StartChange == /\ pc = "ready"
               /\ \E where \in BOOLEAN :
                    \/ stmt' = [op |-> "delete", where |-> where, set |-> NoValue]
                    \/ \E set \in NewValues \cup {Other, Unknown} :
                         /\ set = Other => OtherColumns # {}
                         /\ stmt' = [op |-> "update", where |-> where, set |-> set]
               /\ pc' = stmt'.op
               /\ UNCHANGED <<pages, index, loop, answer, faults, statements, history>>

AtSlot(op) == pc = op /\ slot \in 1..limit

\* A dead slot, a row WHERE does not match (row_matches_where reads the same
\* uninitialised buffer: any row may fail to match, or match), a SET column
\* the table does not have.
PassRow == /\ AtSlot("delete") \/ AtSlot("update")
           /\ slot \notin Live(pid) \/ stmt.where \/ stmt.set = Unknown
           /\ PassSlot
           /\ UNCHANGED <<stmt, pid, limit, answer, statements, before, skipped>>

DeleteRow ==
  /\ AtSlot("delete") /\ slot \in Live(pid)
  /\ pages' = [pages EXCEPT ![pid][slot] = Dead]
  /\ \E read \in {Key(pages[pid][slot])} \cup Garbage :
       /\ IF read = Key(pages[pid][slot]) THEN NoFault ELSE IndexFault("key")
       /\ index' = Without(index, read)
       /\ pc' = IF Survives(index, read, index') THEN pc ELSE "crashed"
  /\ slot' = slot + 1
  /\ UNCHANGED <<stmt, pid, limit, answer, statements, before, skipped>>

\* What SET makes of a row.
Updated(row) == [value   |-> IF stmt.set = Other THEN row.value ELSE stmt.set,
                 updates |-> row.updates + 1]

\* INDEX_delete of the old row's key, INDEX_insert of the new row's.
ReplaceEntry(old, new, loc) ==
  \/ IF Unreachable(index, old)
     THEN pc' = "crashed" /\ UNCHANGED <<index, faults, indexFaults>>
     ELSE AddEntry(Without(index, old), new, loc, "update")
  \/ \E read \in Misread(old) :
       /\ IndexFault("key")
       /\ IF Unreachable(index, read)
          THEN pc' = "crashed" /\ UNCHANGED index
          ELSE Enter(Without(index, read), new, loc, 0, 0, "update")

\* Mutant: the loop goes on to slots that were added behind original_count.
UpdateRow_LiveCount ==
  /\ AtSlot("update") /\ slot \in Live(pid) /\ stmt.set # Unknown
  /\ Len(pages[pid]) < PageSlots
  /\ LET row == pages[pid][slot]
     IN /\ pages' = [pages EXCEPT ![pid] = Append([@ EXCEPT ![slot] = Dead], Updated(row))]
        /\ ReplaceEntry(Key(row), Key(Updated(row)), <<pid, Len(pages[pid]) + 1>>)
  /\ slot' = slot + 1 /\ limit' = limit + 1
  /\ UNCHANGED <<stmt, pid, answer, statements, before, skipped>>

\* page_delete, page_insert into the same page, INDEX_delete, INDEX_insert.
UpdateRow ==
  /\ AtSlot("update") /\ slot \in Live(pid) /\ stmt.set # Unknown
  /\ Len(pages[pid]) < PageSlots
  /\ LET row == pages[pid][slot]
     IN /\ pages' = [pages EXCEPT ![pid] = Append([@ EXCEPT ![slot] = Dead], Updated(row))]
        /\ ReplaceEntry(Key(row), Key(Updated(row)), <<pid, Len(pages[pid]) + 1>>)
  /\ slot' = slot + 1
  /\ UNCHANGED <<stmt, pid, limit, answer, statements, before, skipped>>

\* The page is full: the row has been deleted, and nothing else happens.
UpdateNoRoom ==
  /\ AtSlot("update") /\ slot \in Live(pid) /\ stmt.set # Unknown
  /\ Len(pages[pid]) = PageSlots
  /\ pages' = [pages EXCEPT ![pid][slot] = Dead]
  /\ indexFaults' = indexFaults \cup {"row"}
  /\ slot' = slot + 1
  /\ UNCHANGED <<index, pc, stmt, pid, limit, answer, faults, statements, before, skipped>>

ChangeDone == /\ pc \in {"update", "delete"} /\ pid > Len(pages)
              /\ pc' = "done"
              /\ UNCHANGED <<pages, index, stmt, loop, answer, faults, statements, history>>

-----------------------------------------------------------------------------
Settled(p) == [i \in DOMAIN p |-> [s \in DOMAIN p[i] |-> [p[i][s] EXCEPT !.updates = 0]]]

table_close == /\ pc = "done"
               /\ pages' = Settled(pages) /\ before' = pages'
               /\ index' = NoIndex /\ pc' = "closed" /\ stmt' = NoStmt
               /\ pid' = 1 /\ slot' = 0 /\ limit' = 0 /\ answer' = {}
               /\ skipped' = {} /\ indexFaults' = {}
               /\ UNCHANGED <<faults, statements>>

\* No more statements, or no more process.
Stopped == /\ pc = "crashed" \/ (pc = "closed" /\ statements = MaxStatements)
           /\ UNCHANGED vars

Build  == PinPage \/ SkipPage \/ NextPage \/ BuildRow \/ BuildDone
Insert == FullPage \/ InsertRow \/ NewPage
Change == PassRow \/ DeleteRow \/ UpdateRow \/ UpdateNoRoom \/ ChangeDone
Statement == IndexLookup \/ FullScan \/ StartInsert \/ StartChange

\* What the process does once a statement has been typed.
Progress == Build \/ Statement \/ Insert \/ Change \/ table_close

Next == table_open \/ Progress \/ Stopped

Spec == Init /\ [][Next]_vars

\* WF_vars(Progress), written out: Progress is enabled while the process runs,
\* and no other action changes anything then.
Running  == pc \notin {"closed", "crashed"}
FairSpec == Spec /\ ([]<>~Running \/ []<><<Running>>_vars)

-----------------------------------------------------------------------------
(* Properties.                                                              *)

LiveKeys(k) == {l \in LiveAt : Key(pages[l[1]][l[2]]) = k}
Scanned(v)  == {l \in LiveAt : pages[l[1]][l[2]].value = v}   \* what comparing texts finds

(* README: point lookups by RowLocation.  While every row was indexed under  *)
(* its key, what a lookup finds has the key, whatever allocations failed and  *)
(* however many rows share a key.  Where keys are unique and nothing failed,  *)
(* it finds the row of that key, whatever its text: WHERE name = 'bob' finds  *)
(* 'al'.  Only where no row has another text of that number does a lookup     *)
(* answer what a scan would.                                                 *)
KeysOf(p) == {l \in (1..Len(p)) \X (1..PageSlots) : l[2] \in DOMAIN p[l[1]] /\ p[l[1]][l[2]] # Dead}
Unique(p) == \A l, m \in KeysOf(p) : Key(p[l[1]][l[2]]) = Key(p[m[1]][m[2]]) => l = m
LookedUp  == pc = "done" /\ stmt.op = "lookup"
Asked     == LiveKeys(atoi[stmt.set])
LookupRight ==
  LookedUp =>
    /\ "key" \notin indexFaults => answer \subseteq Asked
    /\ indexFaults = {} /\ skipped = {} /\ Unique(pages) =>
         /\ answer = Asked
         /\ Asked \subseteq Scanned(stmt.set) => answer = Scanned(stmt.set)

(* README: point lookups by RowLocation, of any key.  The promoted key of a   *)
(* split goes behind an equal separator, and so its right half comes to lie   *)
(* behind the sibling with the larger keys, which no descent enters again.    *)
FindsKey    == answer = {} <=> Asked = {}
LookupFinds == LookedUp /\ indexFaults = {} /\ skipped = {} => FindsKey

(* README: node splitting.  One split that finds no memory makes the process  *)
(* fail or leaves each key where lookups find it; a second one may not, nor  *)
(* may a new root that finds none, with which the right half is gone.        *)
SplitSurvived ==
  LookedUp /\ indexFaults \subseteq {"alloc"} /\ faults <= 1 /\ skipped = {} /\ Unique(pages)
    => FindsKey

(* README: automatic maintenance on insert, update and delete.  While keys   *)
(* are unique and no update lost its row, the index a statement leaves       *)
(* answers every key with the place of the live row, and no other key.       *)
IndexMaintained ==
  pc \in {"ready", "done", "update", "delete"} /\ indexFaults = {} /\ Unique(before) /\ Unique(pages)
    => \A v \in Values : INDEX_search(index, atoi[v]) = LiveKeys(atoi[v])

(* An UPDATE writes the new rows behind the ones it still has to visit, and    *)
(* yet changes no row twice, because the slots were counted before.          *)
EachRowOnce == \A p \in DOMAIN pages : \A s \in DOMAIN pages[p] : pages[p][s].updates <= 1

(* A statement without WHERE reaches every row of every page it could pin:    *)
(* DELETE leaves none, UPDATE changes each and loses just those a full page   *)
(* has no room for.  A skipped page stays as it was, and INSERT adds one row  *)
(* or none and touches no other.                                            *)
Before(p)   == Cardinality({s \in DOMAIN before[p] : before[p][s] # Dead})
Room(p)     == PageSlots - Len(before[p])
Fewer(a, b) == IF a < b THEN a ELSE b
DeletesAll  == stmt.op = "delete" /\ ~stmt.where
UpdatesAll  == stmt.op = "update" /\ ~stmt.where /\ stmt.set # Unknown
Worked(p) ==
  /\ DeletesAll => Live(p) = {}
  /\ UpdatesAll => /\ Cardinality(Live(p)) = Fewer(Before(p), Room(p))
                   /\ \A s \in Live(p) : pages[p][s].updates = 1
WholeTable ==
  pc = "done" =>
    /\ \A p \in skipped : pages[p] = before[p]
    /\ \A p \in DOMAIN before \ skipped : Worked(p)
    /\ stmt.op = "insert" =>
         /\ \A p \in DOMAIN before : SubSeq(pages[p], 1, Len(before[p])) = before[p]
         /\ Cardinality(LiveAt) <= 1 + Cardinality(KeysOf(before))

(* Every statement comes to its end, whatever it skips, unless the process   *)
(* follows the NULL child a failed split left.                              *)
TableReturns == pc # "closed" ~> pc \in {"closed", "crashed"}
=============================================================================
