------------------------------ MODULE BufferPool ------------------------------
(***************************************************************************)
(* The buffer pool of an open table, src/storage/buffer/buffer.c, under the *)
(* accesses table.c makes: table_open pins every page to build the index,   *)
(* the statement pins pages again, table_close flushes and frees the pool.  *)
(* A page is its version, the number of changes made to it; it may have a    *)
(* version in a frame and another one in the file.                          *)
(***************************************************************************)
EXTENDS Naturals, FiniteSets

CONSTANTS
  POOL_SIZE,   \* BUFFER_POOL_SIZE, 7
  MaxPages,    \* model bound: pages of the table
  MaxVersion,  \* model bound: changes of one page
  MaxFaults    \* model bound: failing writes and reads in a behaviour

ASSUME PoolAssumption == /\ POOL_SIZE \in Nat \ {0} /\ MaxPages \in Nat \ {0}
                         /\ MaxVersion \in Nat \ {0} /\ MaxFaults \in Nat

VARIABLES
  frames,   \* pool->frames
  clock,    \* pool->clock
  disk,     \* the version of each page in the table's file; 0: the file ends before
  count,    \* table->page_count
  phase,    \* "closed", "index" (table_open), "run" (the statement), "sync" (table_flush),
            \* "flush" (table_close)
  op,       \* the statement
  next,     \* the loop counter of the phase
  held,     \* the frame buf_pin returned last; 0: NULL
  failed,   \* history: a page write failed since the table was opened
  faults    \* how many failures have happened

client == <<count, phase, op, next>>
vars == <<frames, clock, disk, client, held, failed, faults>>

PageIds == 0 .. MaxPages - 1
INVALID_PAGE_ID == MaxPages
Frames  == 1 .. POOL_SIZE
Frame   == [page_id : PageIds \cup {INVALID_PAGE_ID}, version : Nat, dirty : BOOLEAN,
            lru_rank : Nat]
NoPage  == [page_id |-> INVALID_PAGE_ID, version |-> 0, dirty |-> FALSE, lru_rank |-> 0]
NoFrames == [i \in Frames |-> NoPage]

\* REDO is redo_insert of wal.c; DELETE accesses the pages as UPDATE does.
Statements == {"INSERT", "REDO", "UPDATE", "SELECT"}
Inserts == {"INSERT", "REDO"}

\* table_create wrote page 0.
Init == /\ frames = NoFrames /\ clock = 1 /\ held = 0
        /\ disk = [p \in PageIds |-> IF p = 0 THEN 1 ELSE 0]
        /\ count = 0 /\ phase = "closed" /\ op = "SELECT" /\ next = 0
        /\ failed = FALSE /\ faults = 0

Fault == faults < MaxFaults /\ faults' = faults + 1

-----------------------------------------------------------------------------
(* buffer.c                                                                 *)

find_frame(p) == {i \in Frames : frames[i].page_id = p}
EmptyFrames   == {i \in Frames : frames[i] = NoPage}

\* Mutant: the frame used last goes first.
find_lru_Newest == {i \in Frames : \A j \in Frames : frames[j].lru_rank <= frames[i].lru_rank}

\* One frame, because ranks differ.
find_lru == {i \in Frames : \A j \in Frames : frames[i].lru_rank <= frames[j].lru_rank}

\* The frame a page is loaded into: the first empty one, or the one to evict.
Slot == IF EmptyFrames # {} THEN {i \in EmptyFrames : \A j \in EmptyFrames : i <= j}
                            ELSE find_lru

Filled(i, p, v, dirty) ==
  [frames EXCEPT ![i] = [page_id |-> p, version |-> v, dirty |-> dirty, lru_rank |-> clock]]
Written(i) == [disk EXCEPT ![frames[i].page_id] = frames[i].version]

\* Mutant: a dirty page is dropped like a clean one.
evict_frame_NoWrite(i) == UNCHANGED <<disk, failed>>

\* evict_frame, when it returns BUF_OK.
evict_frame(i) == /\ disk' = IF frames[i].dirty THEN Written(i) ELSE disk
                  /\ UNCHANGED failed

\* evict_frame, when the write fails: the page stays, buf_pin returns NULL.
EvictFails(i) == /\ frames[i].dirty /\ Fault
                 /\ failed' = TRUE /\ held' = 0
                 /\ UNCHANGED <<frames, clock, disk>>

\* page_read_disk or page_alloc fails: the frame was already emptied.
Emptied(i) == /\ evict_frame(i) /\ Fault
              /\ frames' = [frames EXCEPT ![i] = NoPage]
              /\ held' = 0 /\ UNCHANGED clock

\* buf_pin
buf_pin(p) ==
  \/ \E i \in find_frame(p) :
       /\ frames' = [frames EXCEPT ![i].lru_rank = clock]
       /\ clock' = clock + 1 /\ held' = i
       /\ UNCHANGED <<disk, failed, faults>>
  \/ /\ find_frame(p) = {}
     /\ \E i \in Slot :
          \/ /\ evict_frame(i) /\ disk'[p] > 0
             /\ frames' = Filled(i, p, disk'[p], FALSE)
             /\ clock' = clock + 1 /\ held' = i
             /\ UNCHANGED faults
          \/ Emptied(i)
          \/ EvictFails(i)

\* buf_new_page, and the row its callers put into the page.
buf_new_page(p) ==
  \E i \in Slot : /\ evict_frame(i)
                  /\ frames' = Filled(i, p, 1, TRUE)
                  /\ clock' = clock + 1 /\ held' = i
                  /\ UNCHANGED faults

\* A frame of buf_flush_all: a failed write leaves it dirty, and goes on.
FlushFrame(i) ==
  \/ /\ ~frames[i].dirty /\ UNCHANGED <<frames, disk, failed, faults>>
  \/ /\ frames[i].dirty
     /\ disk' = Written(i) /\ frames' = [frames EXCEPT ![i].dirty = FALSE]
     /\ UNCHANGED <<failed, faults>>
  \/ /\ frames[i].dirty /\ Fault /\ failed' = TRUE
     /\ UNCHANGED <<frames, disk>>

-----------------------------------------------------------------------------
(* table.c: the accesses of one statement.                                  *)

\* The pages of the file: size / PAGE_SIZE.
FileSize == Cardinality({p \in PageIds : disk[p] > 0})

\* table_open up to its loop.
Open == /\ phase = "closed"
        /\ phase' = "index" /\ count' = FileSize /\ next' = 0
        /\ frames' = NoFrames /\ clock' = 1 /\ held' = 0 /\ failed' = FALSE
        /\ UNCHANGED <<disk, op, faults>>

\* A pass of a loop over the pages; a NULL frame is skipped.
VisitPage == /\ phase \in {"index", "run"} /\ next < count
             /\ buf_pin(next) /\ next' = next + 1
             /\ UNCHANGED <<count, phase, op>>

Run == /\ phase = "index" /\ next = count
       /\ op' \in Statements /\ (op' \in Inserts => count < MaxPages)
       /\ phase' = "run" /\ next' = 0 /\ held' = 0
       /\ UNCHANGED <<frames, clock, disk, count, failed, faults>>

\* SELECT by index: one page, wherever the row is.
Lookup == /\ phase = "run" /\ op = "SELECT" /\ next = 0 /\ count > 0
          /\ \E p \in 0 .. count - 1 : buf_pin(p)
          /\ next' = count
          /\ UNCHANGED <<count, phase, op>>

EndInsert == phase' = (IF op = "REDO" THEN "sync" ELSE "flush") /\ next' = 0

\* Mutant: the changed page is not marked dirty.
ChangePage_Unmarked ==
  /\ phase = "run" /\ op # "SELECT" /\ held > 0 /\ frames[held].version < MaxVersion
  /\ frames' = [frames EXCEPT ![held].version = @ + 1]
  /\ IF op \in Inserts THEN EndInsert ELSE UNCHANGED <<phase, next>>
  /\ UNCHANGED <<clock, disk, count, op, held, failed, faults>>

Changed(f) == [page_id |-> f.page_id, version |-> f.version + 1, dirty |-> TRUE,
               lru_rank |-> f.lru_rank]

\* A row is inserted, deleted or replaced, and buf_mark_dirty; INSERT is done.
ChangePage ==
  /\ phase = "run" /\ op # "SELECT" /\ held > 0 /\ frames[held].version < MaxVersion
  /\ frames' = [frames EXCEPT ![held] = Changed(@)]
  /\ IF op \in Inserts THEN EndInsert ELSE UNCHANGED <<phase, next>>
  /\ UNCHANGED <<clock, disk, count, op, held, failed, faults>>

\* Mutant: the new page gets the number after the one it should have.
AddPage_SkipsOne ==
  /\ phase = "run" /\ op \in Inserts /\ next = count /\ count + 1 < MaxPages
  /\ buf_new_page(count + 1) /\ count' = count + 1
  /\ EndInsert
  /\ UNCHANGED op

\* Mutant: page_count is incremented twice.
AddPage_CountsTwice ==
  /\ phase = "run" /\ op \in Inserts /\ next = count
  /\ buf_new_page(count) /\ count' = count + 2
  /\ EndInsert
  /\ UNCHANGED op

\* INSERT found no room in the pages it could pin.  Nothing is dirty yet: what
\* buf_new_page evicts is not written, and so its eviction does not fail.
AddPage == /\ phase = "run" /\ op \in Inserts /\ next = count
           /\ \/ buf_new_page(count) /\ count' = count + 1
              \/ \E i \in Slot : Emptied(i) /\ UNCHANGED count   \* TABLE_ERROR
           /\ EndInsert
           /\ UNCHANGED op

\* A pass of table_flush.  The page is written and stays dirty: buf_mark_clean
\* returns before it does anything.
SyncPage == /\ phase = "sync" /\ next < count
            /\ \/ buf_pin(next) /\ \A i \in find_frame(next) : ~frames[i].dirty
               \/ \E i \in find_frame(next) :
                    /\ frames[i].dirty
                    /\ frames' = [frames EXCEPT ![i].lru_rank = clock]
                    /\ clock' = clock + 1 /\ held' = i
                    /\ \/ disk' = Written(i) /\ UNCHANGED <<failed, faults>>
                       \/ Fault /\ failed' = TRUE /\ UNCHANGED disk
            /\ next' = next + 1
            /\ UNCHANGED <<count, phase, op>>

EndSync == /\ phase = "sync" /\ next = count
           /\ phase' = "flush" /\ next' = 0
           /\ UNCHANGED <<frames, clock, disk, count, op, held, failed, faults>>

\* UPDATE, DELETE and SELECT are done: table_close.
EndRun == /\ phase = "run" /\ op \notin Inserts /\ next = count
          /\ phase' = "flush" /\ next' = 0
          /\ UNCHANGED <<frames, clock, disk, count, op, held, failed, faults>>

Flush == /\ phase = "flush" /\ next < POOL_SIZE
         /\ FlushFrame(next + 1) /\ next' = next + 1
         /\ UNCHANGED <<clock, count, phase, op, held>>

Free == /\ frames' = NoFrames /\ held' = 0 /\ phase' = "closed" /\ next' = 0
        /\ UNCHANGED <<clock, disk, count, op, failed, faults>>

\* The end of buf_destroy.
Close == phase = "flush" /\ next = POOL_SIZE /\ Free

\* The process is killed.
Crash == phase # "closed" /\ Free

Next == Open \/ VisitPage \/ Run \/ Lookup \/ ChangePage \/ AddPage \/ EndRun
          \/ SyncPage \/ EndSync \/ Flush \/ Close \/ Crash

Spec == Init /\ [][Next]_vars

-----------------------------------------------------------------------------
\* The type invariant.
PoolTypeOK == /\ frames \in [Frames -> Frame] /\ clock \in Nat
              /\ disk \in [PageIds -> Nat] /\ count \in 0 .. MaxPages
              /\ phase \in {"closed", "index", "run", "sync", "flush"} /\ op \in Statements
              /\ next \in Nat /\ held \in Frames \cup {0}
              /\ failed \in BOOLEAN /\ faults \in 0 .. MaxFaults

(* No page is in two frames, so that no change is made to one copy and lost   *)
(* with another; a clean frame has what the file has, so that evicting it     *)
(* without a write loses nothing.                                            *)
OneCopy ==
  \A i \in Frames : frames[i].page_id # INVALID_PAGE_ID =>
    /\ \A j \in Frames \ {i} : frames[j].page_id # frames[i].page_id
    /\ ~frames[i].dirty => frames[i].version = disk[frames[i].page_id]

(* The file has no hole, whatever fails and wherever the process dies: a page *)
(* that was never written would read as zeros, and their checksum is right.   *)
NoHole == \A p \in PageIds : disk[p] > 0 => \A q \in 0 .. p : disk[q] > 0

(* Readers get what was last written, evictions and failures are invisible,   *)
(* and a close in which no write failed loses nothing.                        *)
Contents == [p \in PageIds |->
               IF find_frame(p) = {} THEN disk[p]
               ELSE frames[CHOOSE i \in find_frame(p) : TRUE].version]
Store == INSTANCE PageStore WITH contents <- Contents, stable <- disk,
                                 open <- phase # "closed"
ImplementsPages == Store!StoreSpec

(* evict_frame does not look at pin_count, and buf_pin never raises it: only  *)
(* the LRU order keeps the frame a loop works on from being taken away by the *)
(* next pin or the new page.                                                  *)
KeepsLast == [][phase' # "closed" /\ held > 0 /\ POOL_SIZE > 1 =>
                  frames'[held].page_id = frames[held].page_id]_vars
=============================================================================
