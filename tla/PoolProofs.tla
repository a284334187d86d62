------------------------------ MODULE PoolProofs ------------------------------
(***************************************************************************)
(* The buffer pool for every number of frames, pages, changes and failures:  *)
(* its types, OneCopy, NoHole, KeepsLast, and that it implements PageStore.  *)
(***************************************************************************)
EXTENDS BufferPool, FiniteSetTheorems, TLAPS

(* The strengthening: a frame without a page is as NoPage says, the pages in  *)
(* frames are pages of the table, so that the page AddPage adds is in none,   *)
(* there is room for it, and the frame the statement holds has a page.        *)
FramesOK(fr, n) == \A i \in Frames : \/ fr[i] = NoPage
                                     \/ fr[i].page_id \in PageIds /\ fr[i].page_id < n
TypesOK == /\ frames \in [Frames -> Frame] /\ clock \in Nat /\ disk \in [PageIds -> Nat]
           /\ count \in Nat /\ held \in Frames \cup {0}
HeldOK == held > 0 => frames[held].page_id # INVALID_PAGE_ID
PoolInv == /\ TypesOK /\ OneCopy /\ FramesOK(frames, count)
           /\ phase = "run" => HeldOK /\ (op \in Inserts => count < MaxPages)

\* The loop counters, and a table that fits the numbers of the pages.
BoundsOK == next \in Nat /\ count \in 0 .. MaxPages

(* The file is as long as table_open found it, or one page longer as soon as  *)
(* the page AddPage made is written; a frame with a page has a version of it. *)
FilePrefix(dk, n) == \A p \in PageIds : dk[p] > 0 <=> p < n
Versioned(fr) == \A i \in Frames : fr[i].page_id # INVALID_PAGE_ID => fr[i].version > 0
FileInv == /\ Versioned(frames)
           /\ phase \in {"index", "run"} => FilePrefix(disk, count)
           /\ phase \in {"sync", "flush"} => \E n \in {count - 1, count} :
                                                 n \in Nat /\ FilePrefix(disk, n)
           /\ phase = "closed" => \E n \in 0 .. MaxPages : FilePrefix(disk, n)

(* The ranks in the frames are of the past, and the frame pinned last has the *)
(* newest one.                                                               *)
LruInv == /\ clock > 0 /\ \A i \in Frames : frames[i].lru_rank < clock
          /\ phase = "closed" => held = 0
          /\ held > 0 => /\ frames[held].lru_rank > 0
                         /\ \A j \in Frames \ {held} :
                              frames[j].lru_rank < frames[held].lru_rank

(* What the refinement needs besides: a closed table has no frames, an insert *)
(* has changed nothing until it is done, and as long as no write failed the   *)
(* frames buf_flush_all has passed are clean.                                *)
DirtyInv == /\ phase = "closed" => frames = NoFrames
            /\ phase = "index" \/ (phase = "run" /\ op \in Inserts)
                 => \A i \in Frames : ~frames[i].dirty
            /\ phase = "flush" /\ ~failed => \A i \in Frames : i <= next => ~frames[i].dirty

\* OneCopy of any frames and file, so that it can be said of an unprimed pair.
Coherent(fr, dk) ==
  \A i \in Frames : fr[i].page_id # INVALID_PAGE_ID =>
    /\ \A j \in Frames \ {i} : fr[j].page_id # fr[i].page_id
    /\ ~fr[i].dirty => fr[i].version = dk[fr[i].page_id]

\* OneCopy is Coherent, now and after a step.
LEMMA SameCopy == OneCopy = Coherent(frames, disk)
  BY DEF OneCopy, Coherent

\* The same after a step.
LEMMA SameCopyNext == OneCopy' = Coherent(frames', disk')
  BY DEF OneCopy, Coherent

\* The number that stands for no page is the number of no page.
LEMMA InvalidId == MaxPages \in Nat /\ INVALID_PAGE_ID \notin PageIds
  BY PoolAssumption DEF INVALID_PAGE_ID, PageIds

-----------------------------------------------------------------------------
\* A frame that is written keeps the two copies together.
LEMMA WriteCoherent ==
  ASSUME NEW fr \in [Frames -> Frame], NEW dk \in [PageIds -> Nat], NEW n \in Nat,
         Coherent(fr, dk), FramesOK(fr, n), NEW i \in Frames, fr[i].dirty,
         NEW d2, d2 = [dk EXCEPT ![fr[i].page_id] = fr[i].version]
  PROVE  /\ Coherent(fr, d2) /\ d2 \in [PageIds -> Nat]
         /\ fr[i].page_id \in PageIds /\ d2[fr[i].page_id] = fr[i].version
<1>1. fr[i].page_id \in PageIds /\ fr[i] \in Frame
  BY DEF FramesOK, NoPage
<1>2. d2 \in [PageIds -> Nat] /\ d2[fr[i].page_id] = fr[i].version
  BY <1>1 DEF Frame
<1>3. ASSUME NEW j \in Frames, fr[j].page_id # INVALID_PAGE_ID, ~fr[j].dirty
      PROVE  fr[j].version = d2[fr[j].page_id]
  <2>1. j # i /\ fr[j].page_id # fr[i].page_id
    BY <1>1, <1>3, InvalidId DEF Coherent
  <2>2. fr[j].page_id \in PageIds /\ fr[j].version = dk[fr[j].page_id]
    BY <1>3 DEF Coherent, FramesOK, NoPage
  <2> QED
    BY <2>1, <2>2
<1> QED
  BY <1>1, <1>2, <1>3 DEF Coherent

\* A frame that is given to a page no frame has, with the file's version or dirty.
LEMMA FillCoherent ==
  ASSUME NEW fr \in [Frames -> Frame], NEW dk \in [PageIds -> Nat],
         Coherent(fr, dk), NEW i \in Frames, NEW r \in Frame,
         r.page_id # INVALID_PAGE_ID => /\ \A j \in Frames \ {i} : fr[j].page_id # r.page_id
                                        /\ ~r.dirty => r.version = dk[r.page_id],
         NEW f2, f2 = [fr EXCEPT ![i] = r]
  PROVE  Coherent(f2, dk) /\ f2 \in [Frames -> Frame]
<1>1. f2[i] = r /\ \A j \in Frames \ {i} : f2[j] = fr[j]
  OBVIOUS
<1>2. f2 \in [Frames -> Frame]
  OBVIOUS
<1>3. ASSUME NEW k \in Frames, f2[k].page_id # INVALID_PAGE_ID
      PROVE  /\ \A j \in Frames \ {k} : f2[j].page_id # f2[k].page_id
             /\ ~f2[k].dirty => f2[k].version = dk[f2[k].page_id]
  <2>1. CASE k = i
    BY <1>1, <1>3, <2>1
  <2>2. CASE k # i
    BY <1>1, <1>3, <2>2 DEF Coherent
  <2> QED
    BY <2>1, <2>2
<1> QED
  BY <1>2, <1>3 DEF Coherent

\* evict_frame, whichever frame it takes.
LEMMA EvictCoherent ==
  ASSUME PoolInv, NEW i \in Frames, evict_frame(i)
  PROVE  Coherent(frames, disk') /\ disk' \in [PageIds -> Nat]
<1>1. CASE frames[i].dirty
  BY <1>1, WriteCoherent, SameCopy DEF PoolInv, TypesOK, evict_frame, Written
<1>2. CASE ~frames[i].dirty
  BY <1>2, SameCopy DEF PoolInv, TypesOK, evict_frame
<1> QED
  BY <1>1, <1>2

\* The frame to fill is one of the pool's.
LEMMA SlotInFrames == Slot \subseteq Frames
  BY DEF Slot, EmptyFrames, find_lru

\* What a step of the pool keeps.
PoolStep == TypesOK' /\ OneCopy' /\ FramesOK(frames', count) /\ HeldOK'

\* A frame is emptied and stays so.
LEMMA EmptyStep ==
  ASSUME PoolInv, NEW i \in Slot, Emptied(i), count' = count
  PROVE  PoolStep
<1>1. /\ frames \in [Frames -> Frame] /\ clock \in Nat /\ count \in Nat
      /\ Coherent(frames, disk) /\ FramesOK(frames, count)
  BY SameCopy DEF PoolInv, TypesOK
<1>2. /\ evict_frame(i) /\ frames' = [frames EXCEPT ![i] = NoPage] /\ held' = 0 /\ clock' = clock
  BY DEF Emptied
<1>3. i \in Frames /\ Coherent(frames, disk') /\ disk' \in [PageIds -> Nat]
  BY <1>2, SlotInFrames, EvictCoherent
<1>4. NoPage \in Frame /\ NoPage.page_id = INVALID_PAGE_ID
  BY DEF NoPage, Frame
<1>5. Coherent(frames', disk') /\ frames' \in [Frames -> Frame]
  BY <1>1, <1>2, <1>3, <1>4, FillCoherent
<1>6. FramesOK(frames', count)
  BY <1>1, <1>2 DEF FramesOK
<1> QED
  BY <1>1, <1>2, <1>3, <1>5, <1>6, SameCopyNext DEF PoolStep, TypesOK, HeldOK

\* buf_pin
LEMMA PinStep ==
  ASSUME PoolInv, NEW p \in PageIds, p < count, buf_pin(p), count' = count
  PROVE  PoolStep
<1>0. /\ frames \in [Frames -> Frame] /\ disk \in [PageIds -> Nat] /\ clock \in Nat
      /\ count \in Nat /\ held \in Frames \cup {0}
      /\ Coherent(frames, disk) /\ FramesOK(frames, count)
  BY SameCopy DEF PoolInv, TypesOK
<1>1. CASE \E i \in find_frame(p) :
             /\ frames' = [frames EXCEPT ![i].lru_rank = clock]
             /\ clock' = clock + 1 /\ held' = i
             /\ UNCHANGED <<disk, failed, faults>>
  <2>1. PICK i \in Frames : /\ frames[i].page_id = p
                            /\ frames' = [frames EXCEPT ![i].lru_rank = clock]
                            /\ clock' = clock + 1 /\ held' = i /\ disk' = disk
    BY <1>1 DEF find_frame
  <2> DEFINE r == [frames[i] EXCEPT !.lru_rank = clock]
  <2>2. /\ r \in Frame /\ r.page_id = p /\ r.dirty = frames[i].dirty
        /\ r.version = frames[i].version /\ frames' = [frames EXCEPT ![i] = r]
    BY <1>0, <2>1 DEF Frame
  <2> HIDE DEF r
  <2>3. \A j \in Frames \ {i} : frames[j].page_id # p
    BY <1>0, <2>1, InvalidId DEF Coherent
  <2>4. ~r.dirty => r.version = disk[r.page_id]
    BY <1>0, <2>1, <2>2, InvalidId DEF Coherent
  <2>5. Coherent(frames', disk) /\ frames' \in [Frames -> Frame]
    BY <1>0, <2>2, <2>3, <2>4, FillCoherent
  <2>6. FramesOK(frames', count)
    BY <1>0, <2>2 DEF FramesOK
  <2>7. frames'[held'].page_id # INVALID_PAGE_ID
    BY <1>0, <2>1, <2>2, InvalidId
  <2> QED
    BY <1>0, <2>1, <2>5, <2>6, <2>7, SameCopyNext DEF PoolStep, TypesOK, HeldOK
<1>2. ASSUME find_frame(p) = {}, NEW i \in Slot, evict_frame(i), disk'[p] > 0,
             frames' = Filled(i, p, disk'[p], FALSE), clock' = clock + 1, held' = i
      PROVE  PoolStep
  <2> DEFINE r == [page_id |-> p, version |-> disk'[p], dirty |-> FALSE, lru_rank |-> clock]
  <2>1. i \in Frames /\ Coherent(frames, disk') /\ disk' \in [PageIds -> Nat]
    <3>1. i \in Frames /\ evict_frame(i)
      BY <1>2, SlotInFrames
    <3> QED
      BY <3>1, EvictCoherent
  <2>2. r \in Frame /\ frames' = [frames EXCEPT ![i] = r]
    BY <1>0, <1>2, <2>1 DEF Frame, Filled
  <2>3. \A j \in Frames \ {i} : frames[j].page_id # p
    BY <1>2 DEF find_frame
  <2>4. r.page_id = p /\ r.version = disk'[r.page_id]
    OBVIOUS
  <2> HIDE DEF r
  <2>5. Coherent(frames', disk') /\ frames' \in [Frames -> Frame]
    BY <1>0, <2>1, <2>2, <2>3, <2>4, FillCoherent
  <2>6. FramesOK(frames', count)
    BY <1>0, <2>2, <2>4 DEF FramesOK
  <2>7. frames'[held'].page_id # INVALID_PAGE_ID
    BY <1>0, <1>2, <2>1, <2>2, <2>4, InvalidId
  <2> QED
    <3>1. held' \in Frames /\ clock' \in Nat
      BY <1>0, <1>2, <2>1
    <3>2. TypesOK' /\ OneCopy'
      BY <1>0, <2>1, <2>5, <3>1, SameCopyNext DEF TypesOK
    <3> QED
      BY <2>6, <2>7, <3>2 DEF PoolStep, HeldOK
<1>3. ASSUME NEW i \in Slot, Emptied(i)
      PROVE  PoolStep
  BY <1>3, EmptyStep
<1>4. ASSUME NEW i \in Slot, EvictFails(i)
      PROVE  PoolStep
  BY <1>0, <1>4, SameCopyNext DEF PoolStep, TypesOK, EvictFails, HeldOK
<1> QED
  BY <1>1, <1>2, <1>3, <1>4 DEF buf_pin

\* buf_new_page, when no frame has the page.
LEMMA NewPageStep ==
  ASSUME PoolInv, count < MaxPages, buf_new_page(count), count' = count + 1
  PROVE  TypesOK' /\ OneCopy' /\ FramesOK(frames', count')
<1>0. /\ frames \in [Frames -> Frame] /\ clock \in Nat /\ count \in Nat
      /\ Coherent(frames, disk) /\ FramesOK(frames, count)
  BY SameCopy DEF PoolInv, TypesOK
<1>1. PICK i \in Slot : /\ evict_frame(i) /\ frames' = Filled(i, count, 1, TRUE)
                        /\ clock' = clock + 1 /\ held' = i
  BY DEF buf_new_page
<1> DEFINE r == [page_id |-> count, version |-> 1, dirty |-> TRUE, lru_rank |-> clock]
<1>2. i \in Frames /\ Coherent(frames, disk') /\ disk' \in [PageIds -> Nat]
  <2>1. i \in Frames /\ evict_frame(i)
    BY <1>1, SlotInFrames
  <2> QED
    BY <2>1, EvictCoherent
<1>3. count \in PageIds
  BY <1>0, InvalidId DEF PageIds
<1>4. r \in Frame /\ r.page_id = count /\ r.dirty /\ frames' = [frames EXCEPT ![i] = r]
  BY <1>0, <1>1, <1>2, <1>3 DEF Frame, Filled
<1> HIDE DEF r
<1>5. \A j \in Frames \ {i} : frames[j].page_id # count
  <2>1. ASSUME NEW j \in Frames, frames[j] = NoPage PROVE frames[j].page_id # count
    BY <1>3, <2>1, InvalidId DEF NoPage
  <2>2. ASSUME NEW j \in Frames, frames[j].page_id \in PageIds, frames[j].page_id < count
        PROVE  frames[j].page_id # count
    BY <1>0, <2>2 DEF PageIds
  <2> QED
    BY <1>0, <2>1, <2>2 DEF FramesOK
<1>6. Coherent(frames', disk') /\ frames' \in [Frames -> Frame]
  BY <1>0, <1>2, <1>4, <1>5, FillCoherent
<1>7. FramesOK(frames', count')
  BY <1>0, <1>2, <1>3, <1>4 DEF FramesOK, PageIds
<1>8. held' \in Frames /\ clock' \in Nat /\ count' \in Nat
  BY <1>0, <1>1, <1>2
<1> QED
  BY <1>2, <1>6, <1>7, <1>8, SameCopyNext DEF TypesOK

\* The changed page is dirty from now on; nothing else moves.
LEMMA ChangeStep ==
  ASSUME PoolInv, ChangePage
  PROVE  PoolStep
<1>0. /\ frames \in [Frames -> Frame] /\ held \in Frames /\ count \in Nat
      /\ disk \in [PageIds -> Nat] /\ clock \in Nat
      /\ Coherent(frames, disk) /\ FramesOK(frames, count)
      /\ frames[held].page_id # INVALID_PAGE_ID
  <2>1. phase = "run" /\ held > 0
    BY DEF ChangePage
  <2>2. HeldOK /\ TypesOK /\ OneCopy /\ FramesOK(frames, count)
    BY <2>1 DEF PoolInv
  <2> QED
    BY <2>1, <2>2, SameCopy DEF TypesOK, HeldOK
<1>1. frames[held] \in Frame /\ frames[held].page_id \in PageIds /\ frames[held].page_id < count
  BY <1>0 DEF FramesOK, NoPage
<1> DEFINE r == Changed(frames[held])
<1>2. /\ frames' = [frames EXCEPT ![held] = r] /\ r \in Frame /\ r.dirty
      /\ r.page_id = frames[held].page_id
      /\ disk' = disk /\ clock' = clock /\ held' = held /\ count' = count
  <2>1. frames' = [frames EXCEPT ![held] = Changed(@)]
    BY DEF ChangePage
  <2>2. disk' = disk /\ clock' = clock /\ held' = held /\ count' = count
    BY DEF ChangePage
  <2>3. r \in Frame /\ r.dirty /\ r.page_id = frames[held].page_id
    BY <1>1 DEF Frame, Changed
  <2>4. frames' = [frames EXCEPT ![held] = r]
    BY <2>1
  <2> QED
    BY <2>2, <2>3, <2>4
<1> HIDE DEF r
<1>3. \A j \in Frames \ {held} : frames[j].page_id # r.page_id
  BY <1>0, <1>2 DEF Coherent
<1>4. Coherent(frames', disk) /\ frames' \in [Frames -> Frame]
  BY <1>0, <1>2, <1>3, FillCoherent
<1>5. FramesOK(frames', count) /\ frames'[held].page_id # INVALID_PAGE_ID
  BY <1>0, <1>1, <1>2 DEF FramesOK
<1> QED
  BY <1>0, <1>2, <1>4, <1>5, SameCopyNext DEF PoolStep, TypesOK, HeldOK

\* A dirty page is written, and stays dirty or becomes clean.
LEMMA FlushStep ==
  ASSUME PoolInv, phase = "flush", NEW i \in Frames, FlushFrame(i), UNCHANGED <<clock, count, held>>
  PROVE  TypesOK' /\ OneCopy' /\ FramesOK(frames', count)
<1>0. /\ frames \in [Frames -> Frame] /\ count \in Nat /\ disk \in [PageIds -> Nat]
      /\ Coherent(frames, disk) /\ FramesOK(frames, count)
  BY SameCopy DEF PoolInv, TypesOK
<1>1. CASE frames[i].dirty /\ disk' = Written(i) /\ frames' = [frames EXCEPT ![i].dirty = FALSE]
  <2> DEFINE r == [frames[i] EXCEPT !.dirty = FALSE]
  <2>1. /\ Coherent(frames, disk') /\ disk' \in [PageIds -> Nat]
        /\ frames[i].page_id \in PageIds /\ disk'[frames[i].page_id] = frames[i].version
    <3>1. frames[i].dirty /\ disk' = [disk EXCEPT ![frames[i].page_id] = frames[i].version]
      BY <1>1 DEF Written
    <3>2. /\ Coherent(frames, disk') /\ disk' \in [PageIds -> Nat]
          /\ frames[i].page_id \in PageIds /\ disk'[frames[i].page_id] = frames[i].version
      <4>1. \A n \in Nat, j \in Frames : Coherent(frames, disk) /\ FramesOK(frames, n) /\ frames[j].dirty =>
              \A d2 : d2 = [disk EXCEPT ![frames[j].page_id] = frames[j].version] =>
                /\ Coherent(frames, d2) /\ d2 \in [PageIds -> Nat]
                /\ frames[j].page_id \in PageIds /\ d2[frames[j].page_id] = frames[j].version
        BY <1>0, WriteCoherent
      <4>2. \A d2 : d2 = [disk EXCEPT ![frames[i].page_id] = frames[i].version] =>
                /\ Coherent(frames, d2) /\ d2 \in [PageIds -> Nat]
                /\ frames[i].page_id \in PageIds /\ d2[frames[i].page_id] = frames[i].version
        BY <1>0, <3>1, <4>1
      <4> QED
        BY <3>1, <4>2
    <3> QED
      BY <3>2
  <2>2. /\ frames' = [frames EXCEPT ![i] = r] /\ r \in Frame /\ r.page_id = frames[i].page_id
        /\ r.version = frames[i].version
    BY <1>0, <1>1 DEF Frame
  <2> HIDE DEF r
  <2>3. \A j \in Frames \ {i} : frames[j].page_id # r.page_id
    BY <2>1, <2>2, InvalidId DEF Coherent
  <2>4. Coherent(frames', disk') /\ frames' \in [Frames -> Frame]
    BY <1>0, <2>1, <2>2, <2>3, FillCoherent
  <2>5. FramesOK(frames', count)
    <3>1. frames[i].page_id < count
      BY <1>0, <2>1, InvalidId DEF FramesOK, NoPage
    <3> QED
      BY <1>0, <2>1, <2>2, <3>1 DEF FramesOK
  <2> QED
    BY <2>1, <2>4, <2>5, SameCopyNext DEF PoolInv, TypesOK
<1>2. CASE UNCHANGED <<frames, disk>>
  BY <1>0, <1>2, SameCopyNext DEF PoolInv, TypesOK
<1> QED
  BY <1>1, <1>2 DEF FlushFrame

\* The pass of table_flush over a dirty page.
LEMMA SyncStep ==
  ASSUME PoolInv, NEW i \in Frames, frames[i].dirty, count' = count,
         frames' = [frames EXCEPT ![i].lru_rank = clock], clock' = clock + 1, held' = i,
         disk' = Written(i) \/ disk' = disk
  PROVE  TypesOK' /\ OneCopy' /\ FramesOK(frames', count)
<1>0. /\ frames \in [Frames -> Frame] /\ count \in Nat /\ disk \in [PageIds -> Nat]
      /\ Coherent(frames, disk) /\ FramesOK(frames, count) /\ clock \in Nat
  BY SameCopy DEF PoolInv, TypesOK
<1> DEFINE r == [frames[i] EXCEPT !.lru_rank = clock]
<1>1. Coherent(frames, disk') /\ disk' \in [PageIds -> Nat]
  BY <1>0, WriteCoherent DEF Written
<1>2. /\ frames' = [frames EXCEPT ![i] = r] /\ r \in Frame /\ r.page_id = frames[i].page_id
      /\ r.dirty /\ frames[i].page_id \in PageIds /\ frames[i].page_id < count
  BY <1>0 DEF Frame, FramesOK, NoPage
<1> HIDE DEF r
<1>3. \A j \in Frames \ {i} : frames[j].page_id # r.page_id
  BY <1>0, <1>2, InvalidId DEF Coherent
<1>4. Coherent(frames', disk') /\ frames' \in [Frames -> Frame]
  BY <1>0, <1>1, <1>2, <1>3, FillCoherent
<1>5. FramesOK(frames', count)
  BY <1>0, <1>2 DEF FramesOK
<1> QED
  BY <1>0, <1>1, <1>4, <1>5, SameCopyNext DEF TypesOK

\* Without frames there is one copy of each page: the one in the file.
LEMMA NoFramesOK ==
  /\ NoFrames \in [Frames -> Frame] /\ \A n : FramesOK(NoFrames, n)
  /\ \A dk : Coherent(NoFrames, dk)
<1>1. NoPage \in Frame /\ NoPage.page_id = INVALID_PAGE_ID
  BY DEF NoPage, Frame
<1> QED
  BY <1>1 DEF NoFrames, FramesOK, Coherent

\* A file has at most as many pages as there are numbers.
LEMMA FileSizeBound == FileSize \in 0 .. MaxPages
<1>1. IsFiniteSet(PageIds) /\ Cardinality(PageIds) = MaxPages
  BY InvalidId, FS_Interval DEF PageIds
<1> DEFINE S == {p \in PageIds : disk[p] > 0}
<1>2. S \subseteq PageIds
  OBVIOUS
<1>3. IsFiniteSet(S) /\ Cardinality(S) <= MaxPages
  BY <1>1, <1>2, FS_Subset
<1>4. Cardinality(S) \in Nat
  BY <1>3, FS_CardinalityType
<1> QED
  BY <1>3, <1>4, InvalidId DEF FileSize

\* page_count and the loop counters stay in their bounds.
LEMMA BoundsInductive == PoolInv /\ BoundsOK /\ [Next]_vars => BoundsOK'
<1> SUFFICES ASSUME PoolInv, BoundsOK, [Next]_vars PROVE BoundsOK'
  OBVIOUS
<1>0. next \in Nat /\ count \in Nat /\ MaxPages \in Nat /\ count <= MaxPages
  BY InvalidId DEF BoundsOK
<1>1. CASE Open
  <2>1. count' = FileSize /\ next' = 0
    BY <1>1 DEF Open
  <2> QED
    BY <2>1, FileSizeBound DEF BoundsOK
<1>2. CASE AddPage
  <2>1. count' \in {count, count + 1} /\ next' = 0 /\ count < MaxPages
    BY <1>2 DEF AddPage, EndInsert, PoolInv
  <2> QED
    BY <1>0, <2>1 DEF BoundsOK
<1>3. CASE UNCHANGED vars
  BY <1>0, <1>3 DEF BoundsOK, vars, client
<1>4. CASE VisitPage \/ Run \/ Lookup \/ ChangePage \/ EndRun \/ SyncPage \/ EndSync
             \/ Flush \/ Close \/ Crash
  <2>1. count' = count
    BY <1>4 DEF VisitPage, Run, Lookup, ChangePage, EndRun, SyncPage, EndSync, Flush, Close,
                Crash, Free
  <2>2. next' \in {next, next + 1, count, 0}
    BY <1>4 DEF VisitPage, Run, Lookup, ChangePage, EndInsert, EndRun, SyncPage, EndSync, Flush,
                Close, Crash, Free
  <2> QED
    BY <1>0, <2>1, <2>2 DEF BoundsOK
<1> QED
  BY <1>1, <1>2, <1>3, <1>4 DEF Next

\* Every step of the pool and of the statement keeps PoolInv.
LEMMA PoolInvInductive == PoolInv /\ BoundsOK /\ [Next]_vars => PoolInv'
<1> SUFFICES ASSUME PoolInv, BoundsOK, [Next]_vars PROVE PoolInv'
  OBVIOUS
<1>b. next \in Nat /\ count \in Nat /\ MaxPages \in Nat /\ count <= MaxPages
  BY InvalidId DEF BoundsOK
<1>0. /\ TypesOK /\ OneCopy /\ FramesOK(frames, count)
      /\ phase = "run" => HeldOK /\ (op \in Inserts => count < MaxPages)
  BY DEF PoolInv
<1>1. CASE Open
  <2>0. FileSize \in Nat
    BY <1>b, FileSizeBound
  <2>1. frames' = NoFrames /\ clock' = 1 /\ held' = 0 /\ count' = FileSize
        /\ disk' = disk /\ phase' = "index"
    BY <1>1 DEF Open
  <2>2. TypesOK' /\ OneCopy' /\ FramesOK(frames', count')
    BY <1>0, <2>1, NoFramesOK, <2>0, SameCopyNext DEF TypesOK
  <2> QED
    BY <2>1, <2>2 DEF PoolInv
<1>2. CASE VisitPage
  <2>1. next \in PageIds /\ next < count /\ buf_pin(next) /\ UNCHANGED <<count, phase, op>>
    BY <1>b, <1>2 DEF VisitPage, PageIds
  <2>2. PoolStep
    BY <2>1, PinStep
  <2> QED
    BY <1>0, <2>1, <2>2 DEF PoolInv, PoolStep
<1>3. CASE Run
  <2>1. /\ UNCHANGED <<frames, clock, disk, count>> /\ held' = 0 /\ phase' = "run"
        /\ op' \in Inserts => count < MaxPages
    BY <1>3 DEF Run
  <2> QED
    BY <1>0, <2>1, SameCopy, SameCopyNext DEF PoolInv, TypesOK, HeldOK
<1>4. CASE Lookup
  <2>1. PICK p \in 0 .. count - 1 : buf_pin(p)
    BY <1>4 DEF Lookup
  <2>2. UNCHANGED <<count, phase, op>>
    BY <1>4 DEF Lookup
  <2>3. p \in PageIds /\ p < count
    BY <1>b, <2>1 DEF PageIds
  <2>4. PoolStep
    BY <2>1, <2>2, <2>3, PinStep
  <2> QED
    BY <1>0, <2>2, <2>4 DEF PoolInv, PoolStep
<1>5. CASE ChangePage
  <2>1. PoolStep
    BY <1>5, ChangeStep
  <2>2. count' = count /\ op' = op /\ phase = "run"
    BY <1>5 DEF ChangePage
  <2> QED
    BY <1>0, <2>1, <2>2 DEF PoolInv, PoolStep
<1>6. CASE AddPage
  <2>1. /\ phase = "run" /\ op \in Inserts /\ phase' # "run"
        /\ \/ buf_new_page(count) /\ count' = count + 1
           \/ \E i \in Slot : Emptied(i) /\ count' = count
    BY <1>6 DEF AddPage, EndInsert
  <2>2. TypesOK' /\ OneCopy' /\ FramesOK(frames', count')
    <3>1. CASE buf_new_page(count) /\ count' = count + 1
      BY <1>0, <2>1, <3>1, NewPageStep
    <3>2. CASE \E i \in Slot : Emptied(i) /\ count' = count
      BY <3>2, EmptyStep DEF PoolStep
    <3> QED
      BY <2>1, <3>1, <3>2
  <2> QED
    BY <2>1, <2>2 DEF PoolInv
<1>7. CASE SyncPage
  <2>1. /\ next \in PageIds /\ next < count /\ UNCHANGED <<count, phase, op>> /\ phase = "sync"
    BY <1>b, <1>7 DEF SyncPage, PageIds
  <2>2. CASE buf_pin(next)
    <3>1. PoolStep
      BY <2>1, <2>2, PinStep
    <3> QED
      BY <1>0, <2>1, <3>1 DEF PoolInv, PoolStep
  <2>3. ASSUME NEW i \in find_frame(next), frames[i].dirty,
               frames' = [frames EXCEPT ![i].lru_rank = clock],
               clock' = clock + 1, held' = i, disk' = Written(i) \/ disk' = disk
        PROVE  PoolInv'
    <3>1. i \in Frames
      BY DEF find_frame
    <3>2. TypesOK' /\ OneCopy' /\ FramesOK(frames', count)
      BY <2>1, <2>3, <3>1, SyncStep
    <3> QED
      BY <2>1, <3>2 DEF PoolInv
  <2> QED
    BY <1>7, <2>2, <2>3 DEF SyncPage
<1>8. CASE EndRun \/ EndSync
  <2>1. UNCHANGED <<frames, clock, disk, count, held>> /\ phase' = "flush"
    BY <1>8 DEF EndRun, EndSync
  <2> QED
    BY <1>0, <2>1, SameCopy, SameCopyNext DEF PoolInv, TypesOK
<1>9. CASE Flush
  <2>1. /\ next + 1 \in Frames /\ FlushFrame(next + 1) /\ UNCHANGED <<clock, count, phase, held>>
        /\ phase = "flush"
    BY <1>b, <1>9, PoolAssumption DEF Flush, Frames
  <2>2. TypesOK' /\ OneCopy' /\ FramesOK(frames', count)
    BY <2>1, FlushStep
  <2> QED
    BY <2>1, <2>2 DEF PoolInv
<1>10. CASE Close \/ Crash
  <2>1. /\ frames' = NoFrames /\ held' = 0 /\ phase' = "closed"
        /\ UNCHANGED <<clock, disk, count>>
    BY <1>10 DEF Close, Crash, Free
  <2>2. TypesOK' /\ OneCopy' /\ FramesOK(frames', count')
    BY <1>0, <2>1, NoFramesOK, SameCopyNext DEF TypesOK
  <2> QED
    BY <2>1, <2>2 DEF PoolInv
<1>11. CASE UNCHANGED vars
  <2>1. UNCHANGED <<frames, clock, disk, count, held, phase, op>>
    BY <1>11 DEF vars, client
  <2> QED
    BY <1>0, <2>1, SameCopy, SameCopyNext DEF PoolInv, TypesOK, HeldOK
<1> QED
  BY <1>1, <1>2, <1>3, <1>4, <1>5, <1>6, <1>7, <1>8, <1>9, <1>10, <1>11 DEF Next

\* A process starts with its tables closed and no page in a frame.
LEMMA StartsOK == Init => PoolInv /\ BoundsOK
<1> SUFFICES ASSUME Init PROVE PoolInv /\ BoundsOK
  OBVIOUS
<1>1. /\ frames = NoFrames /\ clock = 1 /\ held = 0 /\ count = 0 /\ phase = "closed"
      /\ disk \in [PageIds -> Nat] /\ next = 0
  BY DEF Init
<1>2. PoolInv
  BY <1>1, NoFramesOK, SameCopy DEF PoolInv, TypesOK
<1> QED
  BY <1>1, <1>2, InvalidId DEF BoundsOK

(* However pages are loaded, changed, evicted and flushed, whatever write or  *)
(* read fails and wherever the process dies: no page is in two frames, and a  *)
(* frame that is not dirty has what the file has.                             *)
THEOREM PoolCoherent == Spec => []OneCopy
<1>1. PoolInv => OneCopy
  BY DEF PoolInv
<1> QED
  BY <1>1, StartsOK, PoolInvInductive, BoundsInductive, PTL DEF Spec

\* The phases of a table, its statement, and the failures counted so far.
PhaseOK == /\ phase \in {"closed", "index", "run", "sync", "flush"} /\ op \in Statements
           /\ failed \in BOOLEAN /\ faults \in 0 .. MaxFaults

\* The types of a step's phase, statement and failures.
LEMMA PhaseStart == Init => PhaseOK
<1> SUFFICES ASSUME Init PROVE PhaseOK
  OBVIOUS
<1>1. phase = "closed" /\ op = "SELECT" /\ failed = FALSE /\ faults = 0
  BY DEF Init
<1>2. 0 \in 0 .. MaxFaults
  BY PoolAssumption
<1> QED
  BY <1>1, <1>2 DEF PhaseOK, Statements

\* A step goes from a phase to a phase, and counts each failure.
LEMMA PhaseStep == PhaseOK /\ [Next]_vars => PhaseOK'
<1> SUFFICES ASSUME PhaseOK, [Next]_vars PROVE PhaseOK'
  OBVIOUS
<1>0. MaxFaults \in Nat
  BY PoolAssumption
<1>1. ASSUME faults' = faults \/ Fault PROVE faults' \in 0 .. MaxFaults
  BY <1>0, <1>1 DEF PhaseOK, Fault
<1>2. ASSUME NEW p, buf_pin(p)
      PROVE  (faults' = faults \/ Fault) /\ failed' \in {failed, TRUE}
  BY <1>2 DEF buf_pin, evict_frame, EvictFails, Emptied
<1>3. CASE Open \/ Run \/ ChangePage \/ EndRun \/ EndSync \/ Close \/ Crash \/ UNCHANGED vars
  BY <1>3 DEF PhaseOK, Open, Run, ChangePage, EndInsert, EndRun, EndSync, Close, Crash, Free,
     vars, client
<1>4. CASE VisitPage \/ Lookup
  <2>1. UNCHANGED <<phase, op>> /\ \E p : buf_pin(p)
    BY <1>4 DEF VisitPage, Lookup
  <2> QED
    BY <1>1, <1>2, <2>1 DEF PhaseOK
<1>5. CASE AddPage
  <2>1. /\ phase' \in {"sync", "flush"} /\ op' = op /\ failed' = failed
        /\ faults' = faults \/ Fault
    BY <1>5 DEF AddPage, EndInsert, buf_new_page, Emptied, evict_frame
  <2> QED
    BY <1>1, <2>1 DEF PhaseOK
<1>6. CASE SyncPage
  <2>1. UNCHANGED <<phase, op>> /\ (faults' = faults \/ Fault) /\ failed' \in {failed, TRUE}
    BY <1>2, <1>6 DEF SyncPage
  <2> QED
    BY <1>1, <2>1 DEF PhaseOK
<1>7. CASE Flush
  <2>1. UNCHANGED <<phase, op>> /\ (faults' = faults \/ Fault) /\ failed' \in {failed, TRUE}
    BY <1>7 DEF Flush, FlushFrame
  <2> QED
    BY <1>1, <2>1 DEF PhaseOK
<1> QED
  BY <1>3, <1>4, <1>5, <1>6, <1>7 DEF Next

(* The types of the pool and of the statement that uses it: a frame has a    *)
(* page of the table or none, and the table never outgrows its page numbers. *)
THEOREM PoolTyped == Spec => []PoolTypeOK
<1>1. PoolInv /\ BoundsOK /\ PhaseOK => PoolTypeOK
  BY DEF PoolInv, TypesOK, BoundsOK, PhaseOK, PoolTypeOK
<1> QED
  BY <1>1, PhaseStart, StartsOK, PoolInvInductive, BoundsInductive, PhaseStep, PTL DEF Spec

-----------------------------------------------------------------------------
\* The pool writes nothing but a dirty frame, to the page the frame has.
DiskStep == disk' = disk \/ \E i \in Frames : frames[i].dirty /\ disk' = Written(i)

\* A page that reaches the file is in it already, or is the one after its end.
LEMMA PrefixStep ==
  ASSUME PoolInv, Versioned(frames), DiskStep, NEW n \in Nat, n \in {count - 1, count},
         FilePrefix(disk, n)
  PROVE  \E m \in {n, count} : FilePrefix(disk', m)
<1>0. /\ frames \in [Frames -> Frame] /\ disk \in [PageIds -> Nat] /\ count \in Nat
      /\ FramesOK(frames, count)
  BY DEF PoolInv, TypesOK
<1>1. CASE disk' = disk
  BY <1>1
<1>2. ASSUME NEW i \in Frames, frames[i].dirty, disk' = Written(i)
      PROVE  \E m \in {n, count} : FilePrefix(disk', m)
  <2> DEFINE q == frames[i].page_id
  <2>1. q \in PageIds /\ q < count /\ frames[i].version \in Nat /\ frames[i].version > 0
    <3>1. frames[i] # NoPage
      BY <1>2 DEF NoPage
    <3>2. q \in PageIds /\ q < count
      BY <1>0, <3>1 DEF FramesOK
    <3>3. frames[i] \in Frame
      BY <1>0
    <3> QED
      BY <3>2, <3>3, InvalidId DEF Versioned, Frame
  <2>2. disk' = [disk EXCEPT ![q] = frames[i].version]
    BY <1>2 DEF Written
  <2> HIDE DEF q
  <2>3. disk'[q] > 0 /\ \A p \in PageIds \ {q} : disk'[p] = disk[p]
    BY <1>0, <2>1, <2>2
  <2>4. CASE q < n
    <3>1. FilePrefix(disk', n)
      BY <2>1, <2>3, <2>4 DEF FilePrefix
    <3> QED
      BY <3>1
  <2>5. CASE ~(q < n)
    <3>1. q = n /\ count = n + 1
      BY <1>0, <2>1, <2>5, InvalidId DEF PageIds
    <3>2. ASSUME NEW p \in PageIds PROVE disk'[p] > 0 <=> p < count
      <4>1. p \in Nat
        BY InvalidId DEF PageIds
      <4>2. CASE p = q
        BY <2>1, <2>3, <4>2
      <4>3. CASE p # q
        <5>1. disk'[p] = disk[p] /\ (disk[p] > 0 <=> p < n)
          BY <2>3, <4>3 DEF FilePrefix
        <5> QED
          BY <3>1, <4>1, <4>3, <5>1
      <4> QED
        BY <4>2, <4>3
    <3>3. FilePrefix(disk', count)
      BY <3>2 DEF FilePrefix
    <3> QED
      BY <3>3
  <2> QED
    BY <2>4, <2>5
<1> QED
  BY <1>1, <1>2 DEF DiskStep

\* evict_frame writes the frame it takes, when it is dirty.
LEMMA EvictWrites == ASSUME NEW i \in Frames, evict_frame(i) PROVE DiskStep
  BY DEF evict_frame, DiskStep

\* What is written when a frame is emptied.
LEMMA EmptyFile ==
  ASSUME PoolInv, Versioned(frames), NEW i \in Slot, Emptied(i)
  PROVE  Versioned(frames') /\ DiskStep
<1>1. i \in Frames /\ evict_frame(i)
  BY SlotInFrames DEF Emptied
<1>2. frames'[i] = NoPage /\ \A j \in Frames \ {i} : frames'[j] = frames[j]
  BY <1>1 DEF Emptied, PoolInv, TypesOK
<1> QED
  BY <1>1, <1>2, EvictWrites DEF Versioned, NoPage

\* What buf_pin writes, and that the page it loads is in the file.
LEMMA PinFile ==
  ASSUME PoolInv, Versioned(frames), NEW p \in PageIds, buf_pin(p)
  PROVE  Versioned(frames') /\ DiskStep
<1>0. frames \in [Frames -> Frame]
  BY DEF PoolInv, TypesOK
<1>1. ASSUME NEW i \in find_frame(p), frames' = [frames EXCEPT ![i].lru_rank = clock],
             disk' = disk
      PROVE  Versioned(frames') /\ DiskStep
  <2>1. i \in Frames
    BY DEF find_frame
  <2>2. \A j \in Frames : /\ frames'[j].page_id = frames[j].page_id
                          /\ frames'[j].version = frames[j].version
    BY <1>0, <1>1, <2>1 DEF Frame
  <2> QED
    BY <1>1, <2>2 DEF Versioned, DiskStep
<1>2. ASSUME NEW i \in Slot, evict_frame(i), disk'[p] > 0,
             frames' = Filled(i, p, disk'[p], FALSE)
      PROVE  Versioned(frames') /\ DiskStep
  <2>1. i \in Frames
    BY SlotInFrames
  <2>2. frames'[i].version > 0 /\ \A j \in Frames \ {i} : frames'[j] = frames[j]
    BY <1>0, <1>2, <2>1 DEF Filled
  <2> QED
    BY <1>2, <2>1, <2>2, EvictWrites DEF Versioned
<1>3. ASSUME NEW i \in Slot, Emptied(i)
      PROVE  Versioned(frames') /\ DiskStep
  BY <1>3, EmptyFile
<1>4. ASSUME NEW i \in Slot, EvictFails(i)
      PROVE  Versioned(frames') /\ DiskStep
  BY <1>4 DEF EvictFails, Versioned, DiskStep
<1> QED
  BY <1>1, <1>2, <1>3, <1>4 DEF buf_pin

\* buf_new_page: the page is made in a frame, and the file is as long as before.
LEMMA NewPageFile ==
  ASSUME PoolInv, Versioned(frames), buf_new_page(count)
  PROVE  Versioned(frames') /\ DiskStep
<1>1. PICK i \in Slot : evict_frame(i) /\ frames' = Filled(i, count, 1, TRUE)
  BY DEF buf_new_page
<1>2. i \in Frames /\ frames \in [Frames -> Frame]
  BY SlotInFrames DEF PoolInv, TypesOK
<1>3. frames'[i].version = 1 /\ \A j \in Frames \ {i} : frames'[j] = frames[j]
  BY <1>1, <1>2 DEF Filled
<1>4. Versioned(frames')
  BY <1>2, <1>3 DEF Versioned
<1>5. DiskStep
  BY <1>1, <1>2, EvictWrites
<1> QED
  BY <1>4, <1>5

\* Where each step leaves the end of the file.
LEMMA FileStep == PoolInv /\ BoundsOK /\ PhaseOK /\ FileInv /\ [Next]_vars => FileInv'
<1> SUFFICES ASSUME PoolInv, BoundsOK, PhaseOK, FileInv, [Next]_vars PROVE FileInv'
  OBVIOUS
<1>0. /\ count \in Nat /\ next \in Nat /\ MaxPages \in Nat /\ count <= MaxPages
      /\ frames \in [Frames -> Frame] /\ Versioned(frames)
  BY InvalidId DEF BoundsOK, PoolInv, TypesOK, FileInv
<1>a. ASSUME Versioned(frames'), DiskStep, phase # "closed", count' = count,
             \/ phase' = phase
             \/ phase' \in {"sync", "flush", "run"} /\ phase \in {"index", "run"}
             \/ phase' = "flush"
      PROVE  FileInv'
  <2>1. CASE phase \in {"index", "run"}
    <3>1. FilePrefix(disk', count)
      BY <1>0, <1>a, <2>1, PrefixStep DEF FileInv
    <3> QED
      BY <1>0, <1>a, <2>1, <3>1 DEF FileInv
  <2>2. CASE phase \in {"sync", "flush"}
    <3>1. PICK n \in {count - 1, count} : n \in Nat /\ FilePrefix(disk, n)
      BY <2>2 DEF FileInv
    <3>2. PICK m \in {n, count} : FilePrefix(disk', m)
      BY <1>0, <1>a, <3>1, PrefixStep
    <3>3. \E k \in {count' - 1, count'} : k \in Nat /\ FilePrefix(disk', k)
      BY <1>0, <1>a, <3>1, <3>2
    <3> QED
      BY <1>a, <2>2, <3>3 DEF FileInv
  <2>3. CASE phase \notin {"index", "run", "sync", "flush"}
    BY <1>a, <2>3 DEF PhaseOK
  <2> QED
    BY <2>1, <2>2, <2>3
<1>1. CASE Open
  <2>1. PICK n \in 0 .. MaxPages : FilePrefix(disk, n)
    <3>1. phase = "closed"
      BY <1>1 DEF Open
    <3> QED
      BY <3>1 DEF FileInv
  <2>2. FileSize = n
    <3>1. {p \in PageIds : disk[p] > 0} = 0 .. n - 1
      BY <1>0, <2>1 DEF FilePrefix, PageIds
    <3>2. Cardinality(0 .. n - 1) = n
      BY <2>1, FS_Interval
    <3> QED
      BY <3>1, <3>2 DEF FileSize
  <2>3. frames' = NoFrames /\ count' = FileSize /\ disk' = disk /\ phase' = "index"
    BY <1>1 DEF Open
  <2>4. Versioned(frames')
    BY <2>3 DEF Versioned, NoFrames, NoPage
  <2> QED
    BY <2>1, <2>2, <2>3, <2>4 DEF FileInv
<1>2. CASE VisitPage
  <2>1. next \in PageIds /\ buf_pin(next) /\ phase # "closed" /\ UNCHANGED <<count, phase, op>>
    BY <1>0, <1>2 DEF VisitPage, PageIds
  <2> QED
    BY <1>0, <1>a, <2>1, PinFile
<1>3. CASE Run \/ EndRun \/ EndSync
  <2>1. /\ UNCHANGED <<frames, disk, count>> /\ phase # "closed"
        /\ \/ phase' = "run" /\ phase \in {"index", "run"}
           \/ phase' = "flush"
    BY <1>3 DEF Run, EndRun, EndSync
  <2> QED
    BY <1>0, <1>a, <2>1 DEF DiskStep
<1>4. CASE Lookup
  <2>1. PICK p \in 0 .. count - 1 : buf_pin(p)
    BY <1>4 DEF Lookup
  <2>2. UNCHANGED <<count, phase, op>> /\ phase # "closed" /\ p \in PageIds
    BY <1>0, <1>4, <2>1 DEF Lookup, PageIds
  <2> QED
    BY <1>0, <1>a, <2>1, <2>2, PinFile
<1>5. CASE ChangePage
  <2>1. /\ frames' = [frames EXCEPT ![held] = Changed(frames[held])] /\ disk' = disk
        /\ count' = count /\ phase = "run" /\ held > 0
        /\ phase' \in {"run", "sync", "flush"}
    BY <1>5 DEF ChangePage, EndInsert
  <2>2. held \in Frames
    BY <2>1 DEF PoolInv, TypesOK
  <2>3. frames'[held].version > 0 /\ \A j \in Frames \ {held} : frames'[j] = frames[j]
    <3>1. frames[held].version \in Nat
      BY <1>0, <2>2 DEF Frame
    <3>2. frames'[held].version = frames[held].version + 1
      BY <1>0, <2>1, <2>2 DEF Changed
    <3> QED
      BY <1>0, <2>1, <2>2, <3>1, <3>2
  <2>4. Versioned(frames')
    BY <1>0, <2>2, <2>3 DEF Versioned
  <2> QED
    BY <1>a, <2>1, <2>4 DEF DiskStep
<1>6. CASE AddPage
  <2>1. /\ phase = "run" /\ phase' \in {"sync", "flush"} /\ count' \in {count, count + 1}
        /\ buf_new_page(count) \/ \E i \in Slot : Emptied(i)
    BY <1>6 DEF AddPage, EndInsert
  <2>2. Versioned(frames') /\ DiskStep
    BY <1>0, <2>1, NewPageFile, EmptyFile
  <2>3. FilePrefix(disk', count)
    BY <1>0, <2>1, <2>2, PrefixStep DEF FileInv
  <2>4. \E n \in {count' - 1, count'} : n \in Nat /\ FilePrefix(disk', n)
    <3>1. count' = count \/ count' = count + 1
      BY <2>1
    <3>2. count \in {count' - 1, count'}
      BY <1>0, <3>1
    <3> QED
      BY <1>0, <2>3, <3>2
  <2> QED
    BY <2>1, <2>2, <2>4 DEF FileInv
<1>7. CASE SyncPage
  <2>1. next \in PageIds /\ phase # "closed" /\ UNCHANGED <<count, phase, op>>
    BY <1>0, <1>7 DEF SyncPage, PageIds
  <2>2. CASE buf_pin(next)
    BY <1>0, <1>a, <2>1, <2>2, PinFile
  <2>3. ASSUME NEW i \in find_frame(next), frames[i].dirty,
               frames' = [frames EXCEPT ![i].lru_rank = clock],
               disk' = Written(i) \/ disk' = disk
        PROVE  FileInv'
    <3>1. i \in Frames
      BY DEF find_frame
    <3>2. \A j \in Frames : /\ frames'[j].page_id = frames[j].page_id
                            /\ frames'[j].version = frames[j].version
      BY <1>0, <2>3, <3>1 DEF Frame
    <3>3. Versioned(frames') /\ DiskStep
      BY <1>0, <2>3, <3>1, <3>2 DEF Versioned, DiskStep
    <3> QED
      BY <1>a, <2>1, <3>3
  <2> QED
    BY <1>7, <2>2, <2>3 DEF SyncPage
<1>8. CASE Flush
  <2>1. /\ next + 1 \in Frames /\ FlushFrame(next + 1) /\ UNCHANGED <<count, phase>>
        /\ phase = "flush"
    BY <1>0, <1>8, PoolAssumption DEF Flush, Frames
  <2>2. \A j \in Frames : /\ frames'[j].page_id = frames[j].page_id
                          /\ frames'[j].version = frames[j].version
    <3>1. frames' = frames \/ frames' = [frames EXCEPT ![next + 1].dirty = FALSE]
      BY <2>1 DEF FlushFrame
    <3> QED
      BY <1>0, <2>1, <3>1 DEF Frame
  <2>3. DiskStep
    BY <2>1 DEF FlushFrame, DiskStep
  <2>4. Versioned(frames')
    BY <1>0, <2>2 DEF Versioned
  <2> QED
    BY <1>a, <2>1, <2>3, <2>4
<1>9. CASE Close \/ Crash
  <2>1. /\ frames' = NoFrames /\ disk' = disk /\ phase' = "closed" /\ phase # "closed"
    BY <1>9 DEF Close, Crash, Free
  <2>2. \E n \in 0 .. MaxPages : FilePrefix(disk, n)
    BY <1>0, <2>1 DEF FileInv, PhaseOK
  <2>3. Versioned(frames')
    BY <2>1 DEF Versioned, NoFrames, NoPage
  <2> QED
    BY <2>1, <2>2, <2>3 DEF FileInv
<1>10. CASE UNCHANGED vars
  <2>1. UNCHANGED <<frames, disk, count, phase>>
    BY <1>10 DEF vars, client
  <2> QED
    BY <2>1 DEF FileInv, Versioned
<1> QED
  BY <1>1, <1>2, <1>3, <1>4, <1>5, <1>6, <1>7, <1>8, <1>9, <1>10 DEF Next

\* table_create has written the first page of a table.
LEMMA FileStart == Init => FileInv
<1> SUFFICES ASSUME Init PROVE FileInv
  OBVIOUS
<1>1. frames = NoFrames /\ phase = "closed"
      /\ disk = [p \in PageIds |-> IF p = 0 THEN 1 ELSE 0]
  BY DEF Init
<1>2. FilePrefix(disk, 1)
  BY <1>1, PoolAssumption DEF FilePrefix, PageIds
<1>3. 1 \in 0 .. MaxPages
  BY PoolAssumption
<1> QED
  BY <1>1, <1>2, <1>3 DEF FileInv, Versioned, NoFrames, NoPage

(* Whatever is evicted, flushed or cut short by a failure or by the end of    *)
(* the process, the file of a table has every page up to its last one.        *)
THEOREM FileWithoutHole == Spec => []NoHole
<1>1. BoundsOK /\ PhaseOK /\ FileInv => NoHole
  <2> SUFFICES ASSUME BoundsOK, PhaseOK, FileInv PROVE NoHole
    OBVIOUS
  <2>1. PICK n \in Nat : FilePrefix(disk, n)
    BY DEF BoundsOK, PhaseOK, FileInv
  <2>2. ASSUME NEW p \in PageIds, disk[p] > 0, NEW q \in 0 .. p PROVE disk[q] > 0
    <3>1. p < n /\ p \in Nat
      BY <2>1, <2>2, InvalidId DEF FilePrefix, PageIds
    <3>2. q \in PageIds /\ q < n
      BY <2>1, <3>1, InvalidId DEF PageIds
    <3> QED
      BY <2>1, <3>2 DEF FilePrefix
  <2> QED
    BY <2>2 DEF NoHole
<1> QED
  BY <1>1, FileStart, StartsOK, PhaseStart, PoolInvInductive, BoundsInductive, PhaseStep, FileStep, PTL DEF Spec

-----------------------------------------------------------------------------
\* A rank taken from the clock is the newest.
LEMMA TouchNewest ==
  ASSUME PoolInv, LruInv, NEW i \in Frames, clock' = clock + 1, held' = i,
         frames' \in [Frames -> Frame], frames'[i].lru_rank = clock,
         \A j \in Frames \ {i} : frames'[j].lru_rank = frames[j].lru_rank, phase # "closed",
         phase' # "closed"
  PROVE  LruInv'
<1>1. clock \in Nat /\ clock > 0 /\ frames \in [Frames -> Frame]
  BY DEF PoolInv, TypesOK, LruInv
<1>2. \A j \in Frames : frames[j].lru_rank \in Nat /\ frames[j].lru_rank < clock
  BY <1>1 DEF Frame, LruInv
<1>3. \A j \in Frames \ {i} : frames'[j].lru_rank < frames'[i].lru_rank
  BY <1>2
<1>4. \A j \in Frames : frames'[j].lru_rank < clock'
  BY <1>1, <1>2, <1>3
<1> QED
  BY <1>1, <1>3, <1>4 DEF LruInv

\* The frame to fill is not the one pinned last, when there is another one.
LEMMA SlotNotHeld ==
  ASSUME PoolInv, LruInv, held > 0, POOL_SIZE > 1, NEW i \in Slot
  PROVE  i # held
<1>1. held \in Frames /\ i \in Frames /\ frames \in [Frames -> Frame]
  BY SlotInFrames DEF PoolInv, TypesOK
<1>2. frames[held].lru_rank > 0 /\ \A j \in Frames \ {held} :
                                    frames[j].lru_rank < frames[held].lru_rank
  BY DEF LruInv
<1>3. held \notin EmptyFrames
  BY <1>2 DEF EmptyFrames, NoPage
<1>4. CASE EmptyFrames # {}
  BY <1>3, <1>4 DEF Slot
<1>5. CASE EmptyFrames = {}
  <2>1. \A j \in Frames : frames[i].lru_rank <= frames[j].lru_rank
    BY <1>5 DEF Slot, find_lru
  <2>2. PICK j \in Frames : j # held
    <3>1. 1 \in Frames /\ 2 \in Frames
      BY PoolAssumption DEF Frames
    <3> QED
      BY <3>1
  <2>3. frames[j].lru_rank \in Nat /\ frames[held].lru_rank \in Nat
    BY <1>1 DEF Frame
  <2> QED
    BY <1>2, <2>1, <2>2, <2>3
<1> QED
  BY <1>4, <1>5

\* The page of the frame pinned last stays in it.
HeldKept == held > 0 /\ POOL_SIZE > 1 => frames'[held].page_id = frames[held].page_id

\* A frame that is emptied is not the last one either.
LEMMA EmptyLru ==
  ASSUME PoolInv, LruInv, NEW i \in Slot, Emptied(i), phase # "closed", phase' # "closed"
  PROVE  LruInv' /\ HeldKept
<1>1. /\ frames \in [Frames -> Frame] /\ clock > 0 /\ held \in Frames \cup {0} /\ i \in Frames
  BY SlotInFrames DEF PoolInv, TypesOK, LruInv
<1>2. /\ frames'[i] = NoPage /\ \A j \in Frames \ {i} : frames'[j] = frames[j]
      /\ held' = 0 /\ clock' = clock
  BY <1>1 DEF Emptied
<1>3. \A j \in Frames : frames'[j].lru_rank < clock'
  BY <1>1, <1>2 DEF LruInv, NoPage
<1>4. LruInv'
  BY <1>1, <1>2, <1>3 DEF LruInv
<1> QED
  BY <1>1, <1>2, <1>4, SlotNotHeld DEF HeldKept

\* buf_pin takes no rank but the clock's, and a frame other than the last one.
LEMMA PinLru ==
  ASSUME PoolInv, LruInv, NEW p \in PageIds, p < count, buf_pin(p), count' = count,
         phase # "closed", phase' # "closed"
  PROVE  LruInv' /\ HeldKept
<1>0. /\ frames \in [Frames -> Frame] /\ clock \in Nat /\ clock > 0
      /\ frames' \in [Frames -> Frame] /\ held \in Frames \cup {0}
  BY PinStep DEF PoolInv, PoolStep, TypesOK, LruInv
<1>1. ASSUME NEW i \in find_frame(p), frames' = [frames EXCEPT ![i].lru_rank = clock],
             clock' = clock + 1, held' = i
      PROVE  LruInv' /\ HeldKept
  <2>1. i \in Frames
    BY DEF find_frame
  <2>2. /\ frames'[i].lru_rank = clock /\ \A j \in Frames \ {i} : frames'[j] = frames[j]
        /\ \A j \in Frames : frames'[j].page_id = frames[j].page_id
    BY <1>0, <1>1, <2>1 DEF Frame
  <2>3. LruInv'
    BY <1>0, <1>1, <2>1, <2>2, TouchNewest
  <2> QED
    BY <1>0, <2>2, <2>3 DEF HeldKept
<1>2. ASSUME NEW i \in Slot, frames' = Filled(i, p, disk'[p], FALSE), clock' = clock + 1,
             held' = i
      PROVE  LruInv' /\ HeldKept
  <2>1. i \in Frames
    BY SlotInFrames
  <2>2. frames'[i].lru_rank = clock /\ \A j \in Frames \ {i} : frames'[j] = frames[j]
    BY <1>0, <1>2, <2>1 DEF Filled
  <2>3. LruInv'
    BY <1>0, <1>2, <2>1, <2>2, TouchNewest
  <2> QED
    BY <1>0, <2>2, <2>3, SlotNotHeld DEF HeldKept
<1>3. ASSUME NEW i \in Slot, Emptied(i)
      PROVE  LruInv' /\ HeldKept
  BY <1>3, EmptyLru
<1>4. ASSUME frames' = frames, clock' = clock, held' = 0
      PROVE  LruInv' /\ HeldKept
  BY <1>4 DEF LruInv, HeldKept
<1> QED
  BY <1>1, <1>2, <1>3, <1>4 DEF buf_pin, EvictFails

\* Every step keeps the ranks of the past, and the frame the loop works on.
LEMMA LruStep ==
  PoolInv /\ BoundsOK /\ LruInv /\ [Next]_vars => LruInv' /\ (phase' # "closed" => HeldKept)
<1> SUFFICES ASSUME PoolInv, BoundsOK, LruInv, [Next]_vars
             PROVE  LruInv' /\ (phase' # "closed" => HeldKept)
  OBVIOUS
<1>0. /\ count \in Nat /\ next \in Nat /\ MaxPages \in Nat /\ count <= MaxPages
      /\ frames \in [Frames -> Frame] /\ clock \in Nat /\ held \in Frames \cup {0}
  BY InvalidId DEF BoundsOK, PoolInv, TypesOK
<1>a. \A i \in Frames : NoFrames[i].lru_rank = 0
  BY DEF NoFrames, NoPage
<1>b. ASSUME \A i \in Frames : /\ frames'[i].lru_rank = frames[i].lru_rank
                               /\ frames'[i].page_id = frames[i].page_id,
             clock' = clock, held' \in {held, 0}, phase # "closed", phase' # "closed"
      PROVE  LruInv' /\ HeldKept
  <2>1. HeldKept
    BY <1>0, <1>b DEF HeldKept
  <2>2. CASE held' = 0
    BY <1>b, <2>1, <2>2 DEF LruInv
  <2>3. CASE held' = held
    <3>1. held > 0 => held \in Frames
      BY <1>0
    <3>2. \A j \in Frames : frames'[j].lru_rank < clock'
      BY <1>b DEF LruInv
    <3>3. CASE held > 0
      <4>1. frames[held].lru_rank > 0 /\ \A j \in Frames \ {held} :
                                          frames[j].lru_rank < frames[held].lru_rank
        BY <3>3 DEF LruInv
      <4>2. frames'[held].lru_rank > 0 /\ \A j \in Frames \ {held} :
                                          frames'[j].lru_rank < frames'[held].lru_rank
        BY <1>b, <3>1, <3>3, <4>1
      <4> QED
        BY <1>b, <2>1, <2>3, <3>2, <4>2 DEF LruInv
    <3>4. CASE ~(held > 0)
      BY <1>b, <2>1, <2>3, <3>2, <3>4 DEF LruInv
    <3> QED
      BY <3>3, <3>4
  <2> QED
    BY <1>b, <2>1, <2>2, <2>3
<1>1. CASE Open
  <2>1. frames' = NoFrames /\ clock' = 1 /\ held' = 0 /\ held = 0
    BY <1>1 DEF Open, LruInv
  <2> QED
    BY <1>a, <2>1 DEF LruInv, HeldKept
<1>2. CASE VisitPage
  <2>1. next \in PageIds /\ next < count /\ buf_pin(next) /\ UNCHANGED <<count, phase>>
        /\ phase # "closed"
    BY <1>0, <1>2 DEF VisitPage, PageIds
  <2> QED
    BY <2>1, PinLru
<1>3. CASE Lookup
  <2>1. PICK p \in 0 .. count - 1 : buf_pin(p)
    BY <1>3 DEF Lookup
  <2>2. p \in PageIds /\ p < count /\ UNCHANGED <<count, phase>> /\ phase # "closed"
    BY <1>0, <1>3, <2>1 DEF Lookup, PageIds
  <2> QED
    BY <2>1, <2>2, PinLru
<1>4. CASE Run \/ EndRun \/ EndSync
  <2>1. UNCHANGED <<frames, clock>> /\ held' \in {held, 0} /\ phase # "closed"
        /\ phase' # "closed"
    BY <1>4 DEF Run, EndRun, EndSync
  <2> QED
    BY <1>b, <2>1
<1>5. CASE ChangePage
  <2>1. /\ frames' = [frames EXCEPT ![held] = Changed(frames[held])] /\ held > 0
        /\ clock' = clock /\ held' = held /\ phase = "run" /\ phase' # "closed"
    BY <1>5 DEF ChangePage, EndInsert
  <2>2. \A i \in Frames : /\ frames'[i].lru_rank = frames[i].lru_rank
                          /\ frames'[i].page_id = frames[i].page_id
    BY <1>0, <2>1 DEF Changed
  <2> QED
    BY <1>b, <2>1, <2>2
<1>6. CASE AddPage
  <2>1. /\ phase = "run" /\ phase' # "closed" /\ count < MaxPages
        /\ \/ buf_new_page(count) /\ count' = count + 1
           \/ \E i \in Slot : Emptied(i)
    BY <1>6 DEF AddPage, EndInsert, PoolInv
  <2>2. CASE buf_new_page(count) /\ count' = count + 1
    <3>1. PICK i \in Slot : /\ evict_frame(i) /\ frames' = Filled(i, count, 1, TRUE)
                            /\ clock' = clock + 1 /\ held' = i
      BY <2>2 DEF buf_new_page
    <3>2. frames' \in [Frames -> Frame] /\ i \in Frames
      BY <2>1, <2>2, NewPageStep, SlotInFrames DEF TypesOK
    <3>3. frames'[i].lru_rank = clock /\ \A j \in Frames \ {i} : frames'[j] = frames[j]
      BY <1>0, <3>1, <3>2 DEF Filled
    <3>4. LruInv'
      BY <2>1, <3>1, <3>2, <3>3, TouchNewest
    <3> QED
      BY <1>0, <3>3, <3>4, SlotNotHeld DEF HeldKept
  <2>3. CASE \E i \in Slot : Emptied(i)
    BY <2>1, <2>3, EmptyLru
  <2> QED
    BY <2>1, <2>2, <2>3
<1>7. CASE SyncPage
  <2>1. next \in PageIds /\ next < count /\ UNCHANGED <<count, phase>> /\ phase = "sync"
    BY <1>0, <1>7 DEF SyncPage, PageIds
  <2>2. CASE buf_pin(next)
    BY <2>1, <2>2, PinLru
  <2>3. ASSUME NEW i \in find_frame(next), frames' = [frames EXCEPT ![i].lru_rank = clock],
               clock' = clock + 1, held' = i
        PROVE  LruInv' /\ HeldKept
    <3>1. i \in Frames
      BY DEF find_frame
    <3>2. /\ frames'[i].lru_rank = clock /\ \A j \in Frames \ {i} : frames'[j] = frames[j]
          /\ \A j \in Frames : frames'[j].page_id = frames[j].page_id
          /\ frames' \in [Frames -> Frame]
      BY <1>0, <2>3, <3>1 DEF Frame
    <3>3. LruInv'
      BY <2>1, <2>3, <3>1, <3>2, TouchNewest
    <3> QED
      BY <1>0, <3>2, <3>3 DEF HeldKept
  <2> QED
    BY <1>7, <2>2, <2>3 DEF SyncPage
<1>8. CASE Flush
  <2>1. /\ next + 1 \in Frames /\ FlushFrame(next + 1) /\ UNCHANGED <<clock, phase, held>>
        /\ phase = "flush"
    BY <1>0, <1>8, PoolAssumption DEF Flush, Frames
  <2>2. frames' = frames \/ frames' = [frames EXCEPT ![next + 1].dirty = FALSE]
    BY <2>1 DEF FlushFrame
  <2>3. \A i \in Frames : /\ frames'[i].lru_rank = frames[i].lru_rank
                          /\ frames'[i].page_id = frames[i].page_id
    BY <1>0, <2>1, <2>2 DEF Frame
  <2> QED
    BY <1>b, <2>1, <2>3
<1>9. CASE Close \/ Crash
  <2>1. frames' = NoFrames /\ held' = 0 /\ clock' = clock /\ phase' = "closed"
    BY <1>9 DEF Close, Crash, Free
  <2> QED
    BY <1>0, <1>a, <2>1 DEF LruInv
<1>10. CASE UNCHANGED vars
  BY <1>10 DEF vars, client, LruInv, HeldKept
<1> QED
  BY <1>1, <1>2, <1>3, <1>4, <1>5, <1>6, <1>7, <1>8, <1>9, <1>10 DEF Next

(* buf_pin and buf_new_page never take the frame that was pinned last: only   *)
(* its rank protects it, pin_count is not looked at.                          *)
THEOREM LastPinStays == Spec => KeepsLast
<1>1. Init => LruInv
  BY DEF Init, LruInv, NoFrames, NoPage
<1>2. PoolInv /\ BoundsOK /\ LruInv /\ [Next]_vars
        => [phase' # "closed" /\ held > 0 /\ POOL_SIZE > 1 =>
              frames'[held].page_id = frames[held].page_id]_vars
  BY LruStep DEF HeldKept
<1>3. PoolInv /\ BoundsOK /\ LruInv /\ [Next]_vars => LruInv'
  BY LruStep
<1> QED
  BY <1>1, <1>2, <1>3, StartsOK, PoolInvInductive, BoundsInductive, PTL DEF Spec, KeepsLast

-----------------------------------------------------------------------------
\* Contents of any frames and file, so that it can be said of an unprimed pair.
Reads(fr, dk) ==
  [p \in PageIds |-> IF {i \in Frames : fr[i].page_id = p} = {} THEN dk[p]
                     ELSE fr[CHOOSE i \in {i \in Frames : fr[i].page_id = p} : TRUE].version]

\* Both copies of Contents, now and after a step.
LEMMA ReadsIsContents == Contents = Reads(frames, disk) /\ Contents' = Reads(frames', disk')
  BY DEF Contents, find_frame, Reads

\* The one frame of a page has what is read; without a frame, the file has it.
LEMMA ReadsOfPage ==
  ASSUME NEW fr, NEW dk, Coherent(fr, dk), NEW p \in PageIds
  PROVE  /\ \A i \in Frames : fr[i].page_id = p => Reads(fr, dk)[p] = fr[i].version
         /\ (\A i \in Frames : fr[i].page_id # p) => Reads(fr, dk)[p] = dk[p]
<1> DEFINE S == {i \in Frames : fr[i].page_id = p}
<1>0. Reads(fr, dk)[p] = IF S = {} THEN dk[p] ELSE fr[CHOOSE i \in S : TRUE].version
  BY DEF Reads
<1>1. ASSUME NEW i \in Frames, fr[i].page_id = p PROVE Reads(fr, dk)[p] = fr[i].version
  <2>1. S = {i}
    BY <1>1, InvalidId DEF Coherent
  <2>2. (CHOOSE j \in S : TRUE) = i
    BY <2>1
  <2> QED
    BY <1>0, <2>1, <2>2
<1>2. (\A i \in Frames : fr[i].page_id # p) => Reads(fr, dk)[p] = dk[p]
  BY <1>0
<1> QED
  BY <1>1, <1>2

(* One frame gets a page: a reader gets its version of that page, and of the  *)
(* page it takes the frame from what was written to the file.                 *)
LEMMA ReadsAfter ==
  ASSUME NEW fr, NEW dk, Coherent(fr, dk), NEW i \in Frames, NEW r, NEW d2, NEW f2,
         Coherent(f2, d2), f2[i] = r, \A j \in Frames \ {i} : f2[j] = fr[j],
         \A q \in PageIds : q # fr[i].page_id => d2[q] = dk[q],
         fr[i].page_id \in PageIds \ {r.page_id} => d2[fr[i].page_id] = fr[i].version
  PROVE  Reads(f2, d2) = [Reads(fr, dk) EXCEPT ![r.page_id] = r.version]
<1>1. f2[i] = r /\ \A j \in Frames \ {i} : f2[j] = fr[j]
  OBVIOUS
<1>2. ASSUME NEW q \in PageIds
      PROVE  Reads(f2, d2)[q] = IF q = r.page_id THEN r.version ELSE Reads(fr, dk)[q]
  <2>1. CASE q = r.page_id
    BY <1>1, <2>1, ReadsOfPage
  <2>2. CASE q # r.page_id /\ \E j \in Frames \ {i} : fr[j].page_id = q
    <3>1. PICK j \in Frames \ {i} : fr[j].page_id = q
      BY <2>2
    <3>2. Reads(fr, dk)[q] = fr[j].version
      BY <3>1, ReadsOfPage
    <3>3. Reads(f2, d2)[q] = fr[j].version
      BY <1>1, <3>1, ReadsOfPage
    <3> QED
      BY <2>2, <3>2, <3>3
  <2>3. CASE q # r.page_id /\ ~\E j \in Frames \ {i} : fr[j].page_id = q
    <3>1. Reads(f2, d2)[q] = d2[q]
      BY <1>1, <2>3, ReadsOfPage
    <3>2. CASE fr[i].page_id = q
      <4>1. Reads(fr, dk)[q] = fr[i].version
        BY <3>2, ReadsOfPage
      <4> QED
        BY <2>3, <3>1, <3>2, <4>1
    <3>3. CASE fr[i].page_id # q
      <4>1. Reads(fr, dk)[q] = dk[q]
        BY <2>3, <3>3, ReadsOfPage
      <4> QED
        BY <2>3, <3>1, <3>3, <4>1
    <3> QED
      BY <3>2, <3>3
  <2> QED
    BY <2>1, <2>2, <2>3
<1>3. DOMAIN Reads(f2, d2) = PageIds /\ DOMAIN Reads(fr, dk) = PageIds
  BY DEF Reads
<1>4. Reads(f2, d2) = [q \in PageIds |-> Reads(f2, d2)[q]]
  BY DEF Reads
<1>5. [Reads(fr, dk) EXCEPT ![r.page_id] = r.version]
        = [q \in PageIds |-> IF q = r.page_id THEN r.version ELSE Reads(fr, dk)[q]]
  BY <1>3
<1> QED
  BY <1>2, <1>4, <1>5

\* The same of a step that changes one frame.
LEMMA FrameReads ==
  ASSUME PoolInv, OneCopy', NEW i \in Frames, NEW r, frames' = [frames EXCEPT ![i] = r],
         \A q \in PageIds : q # frames[i].page_id => disk'[q] = disk[q],
         frames[i].page_id \in PageIds \ {r.page_id}
           => disk'[frames[i].page_id] = frames[i].version
  PROVE  Contents' = [Contents EXCEPT ![r.page_id] = r.version]
<1>1. Coherent(frames, disk) /\ Coherent(frames', disk')
  BY SameCopy, SameCopyNext DEF PoolInv
<1>2. frames'[i] = r /\ \A j \in Frames \ {i} : frames'[j] = frames[j]
  BY DEF PoolInv, TypesOK
<1> DEFINE f2 == frames'
           d2 == disk'
<1>3. f2[i] = r /\ (\A j \in Frames \ {i} : f2[j] = frames[j]) /\ Coherent(f2, d2)
  BY <1>1, <1>2
<1>4. /\ \A q \in PageIds : q # frames[i].page_id => d2[q] = disk[q]
      /\ frames[i].page_id \in PageIds \ {r.page_id} => d2[frames[i].page_id] = frames[i].version
  OBVIOUS
<1>5. Contents = Reads(frames, disk) /\ Contents' = Reads(f2, d2)
  BY ReadsIsContents
<1> HIDE DEF f2, d2
<1>6. Reads(f2, d2) = [Reads(frames, disk) EXCEPT ![r.page_id] = r.version]
  BY <1>1, <1>3, <1>4, ReadsAfter
<1> QED
  BY <1>5, <1>6

\* What a frame that is given away had is in the file.
LEMMA EvictSettles ==
  ASSUME PoolInv, NEW i \in Frames, evict_frame(i)
  PROVE  /\ \A q \in PageIds : q # frames[i].page_id => disk'[q] = disk[q]
         /\ frames[i].page_id \in PageIds => disk'[frames[i].page_id] = frames[i].version
<1>1. /\ frames \in [Frames -> Frame] /\ disk \in [PageIds -> Nat] /\ Coherent(frames, disk)
      /\ FramesOK(frames, count) /\ count \in Nat
  BY SameCopy DEF PoolInv, TypesOK
<1>2. CASE frames[i].dirty
  <2>1. disk' = [disk EXCEPT ![frames[i].page_id] = frames[i].version]
    BY <1>2 DEF evict_frame, Written
  <2> QED
    BY <1>1, <2>1
<1>3. CASE ~frames[i].dirty
  <2>1. disk' = disk
    BY <1>3 DEF evict_frame
  <2> QED
    BY <1>1, <1>3, <2>1, InvalidId DEF Coherent
<1> QED
  BY <1>2, <1>3

\* A page that leaves its frame reads as before.
LEMMA EmptyReads ==
  ASSUME PoolInv, NEW i \in Slot, Emptied(i), OneCopy'
  PROVE  Contents' = Contents
<1>1. /\ frames \in [Frames -> Frame] /\ disk \in [PageIds -> Nat] /\ clock \in Nat
      /\ Coherent(frames, disk)
  BY SameCopy DEF PoolInv, TypesOK
<1>2. i \in Frames /\ evict_frame(i) /\ frames' = [frames EXCEPT ![i] = NoPage]
  BY SlotInFrames DEF Emptied
<1>3. NoPage \in Frame /\ NoPage.page_id \notin PageIds
  BY InvalidId DEF NoPage, Frame
<1>4. Contents' = [Contents EXCEPT ![NoPage.page_id] = NoPage.version]
  BY <1>1, <1>2, EvictSettles, FrameReads
<1> QED
  BY <1>3, <1>4, ReadsIsContents DEF Reads

\* buf_pin is invisible to a reader; a failed write is remembered.
LEMMA PinReads ==
  ASSUME PoolInv, NEW p \in PageIds, p < count, buf_pin(p), count' = count
  PROVE  /\ Contents' = Contents
         /\ (DiskStep /\ failed' = failed) \/ (disk' = disk /\ failed' = TRUE)
<1>0. /\ frames \in [Frames -> Frame] /\ disk \in [PageIds -> Nat] /\ clock \in Nat
      /\ Coherent(frames, disk) /\ OneCopy'
  BY SameCopy, PinStep DEF PoolInv, PoolStep, TypesOK
<1>1. ASSUME NEW i \in find_frame(p), frames' = [frames EXCEPT ![i].lru_rank = clock],
             disk' = disk
      PROVE  Contents' = Contents
  <2>1. i \in Frames /\ frames[i].page_id = p
    BY DEF find_frame
  <2> DEFINE r == [frames[i] EXCEPT !.lru_rank = clock]
  <2>2. /\ r \in Frame /\ r.page_id = p /\ r.version = frames[i].version
        /\ frames' = [frames EXCEPT ![i] = r]
    BY <1>0, <1>1, <2>1 DEF Frame
  <2> HIDE DEF r
  <2>3. Contents' = [Contents EXCEPT ![r.page_id] = r.version]
    BY <1>0, <1>1, <2>1, <2>2, FrameReads, ZenonT(40)
  <2>4. Contents[p] = frames[i].version
    BY <1>0, <2>1, ReadsOfPage, ReadsIsContents
  <2> QED
    BY <2>2, <2>3, <2>4 DEF Contents
<1>2. ASSUME NEW i \in Slot, find_frame(p) = {}, evict_frame(i),
             frames' = Filled(i, p, disk'[p], FALSE)
      PROVE  Contents' = Contents
  <2>1. i \in Frames /\ frames[i].page_id # p
    BY <1>2, SlotInFrames DEF find_frame
  <2> DEFINE r == [page_id |-> p, version |-> disk'[p], dirty |-> FALSE, lru_rank |-> clock]
  <2>2. frames' = [frames EXCEPT ![i] = r] /\ r.page_id = p /\ r.version = disk'[p]
    BY <1>2 DEF Filled
  <2> HIDE DEF r
  <2>4. Contents' = [Contents EXCEPT ![r.page_id] = r.version]
    BY <1>0, <1>2, <2>1, <2>2, EvictSettles, FrameReads
  <2>5. Contents[p] = disk[p] /\ disk'[p] = disk[p]
    BY <1>0, <1>2, <2>1, ReadsOfPage, ReadsIsContents, EvictSettles DEF find_frame
  <2> QED
    BY <2>2, <2>4, <2>5, ZenonT(40) DEF Contents
<1>3. ASSUME NEW i \in Slot, Emptied(i)
      PROVE  Contents' = Contents
  BY <1>0, <1>3, EmptyReads
<1>4. ASSUME frames' = frames, disk' = disk
      PROVE  Contents' = Contents
  BY <1>4, ReadsIsContents
<1>5. Contents' = Contents
  BY <1>1, <1>2, <1>3, <1>4 DEF buf_pin, EvictFails
<1>6. ASSUME NEW i \in Slot, evict_frame(i) PROVE DiskStep /\ failed' = failed
  BY <1>6, SlotInFrames, EvictWrites DEF evict_frame
<1>7. (DiskStep /\ failed' = failed) \/ (disk' = disk /\ failed' = TRUE)
  <2>1. CASE UNCHANGED <<disk, failed>>
    BY <2>1 DEF DiskStep
  <2>2. CASE \E i \in Slot : evict_frame(i) \/ EvictFails(i)
    BY <1>6, <2>2 DEF EvictFails
  <2> QED
    BY <2>1, <2>2 DEF buf_pin, Emptied
<1> QED
  BY <1>5, <1>7

\* A change of the frame the statement holds is a change of the page.
LEMMA ChangeReads ==
  ASSUME PoolInv, ChangePage
  PROVE  \E p \in PageIds : Contents' = [Contents EXCEPT ![p] = Contents[p] + 1]
<1>0. /\ frames \in [Frames -> Frame] /\ Coherent(frames, disk) /\ Coherent(frames', disk')
      /\ FramesOK(frames, count) /\ disk' = disk /\ OneCopy'
      /\ held \in Frames /\ frames[held].page_id # INVALID_PAGE_ID
  <2>1. phase = "run" /\ held > 0 /\ disk' = disk
    BY DEF ChangePage
  <2>2. HeldOK /\ TypesOK /\ OneCopy /\ FramesOK(frames, count)
    BY <2>1 DEF PoolInv
  <2> QED
    BY <2>1, <2>2, SameCopy, SameCopyNext, ChangeStep DEF TypesOK, HeldOK, PoolStep
<1> DEFINE r == Changed(frames[held])
           p == frames[held].page_id
<1>1. p \in PageIds /\ frames[held] \in Frame
  BY <1>0 DEF FramesOK, NoPage
<1>2. r \in Frame /\ r.page_id = p /\ r.version = frames[held].version + 1
  BY <1>1 DEF Changed, Frame
<1>3. frames' = [frames EXCEPT ![held] = r]
  BY DEF ChangePage
<1>4. Contents[p] = frames[held].version
  BY <1>0, <1>1, ReadsOfPage, ReadsIsContents
<1> HIDE DEF r
<1>5. Contents' = [Contents EXCEPT ![r.page_id] = r.version]
  BY <1>0, <1>2, <1>3, FrameReads
<1> QED
  BY <1>1, <1>2, <1>4, <1>5

\* The new page is a first version of a page the table did not have.
LEMMA NewPageReads ==
  ASSUME PoolInv, FilePrefix(disk, count), count < MaxPages, buf_new_page(count),
         count' = count + 1
  PROVE  \E p \in PageIds : Contents' = [Contents EXCEPT ![p] = Contents[p] + 1]
<1>0. /\ frames \in [Frames -> Frame] /\ Coherent(frames, disk) /\ OneCopy'
      /\ FramesOK(frames, count) /\ count \in Nat /\ disk \in [PageIds -> Nat]
  BY SameCopy, NewPageStep DEF PoolInv, TypesOK
<1>1. PICK i \in Slot : evict_frame(i) /\ frames' = Filled(i, count, 1, TRUE)
  BY DEF buf_new_page
<1>2. i \in Frames /\ count \in PageIds
  BY <1>0, SlotInFrames, InvalidId DEF PageIds
<1>3. \A j \in Frames : frames[j].page_id # count
  <2>1. ASSUME NEW j \in Frames, frames[j] = NoPage PROVE frames[j].page_id # count
    BY <1>2, <2>1, InvalidId DEF NoPage
  <2>2. ASSUME NEW j \in Frames, frames[j].page_id \in PageIds, frames[j].page_id < count
        PROVE  frames[j].page_id # count
    BY <1>0, <2>2 DEF PageIds
  <2> QED
    BY <1>0, <2>1, <2>2 DEF FramesOK
<1> DEFINE r == [page_id |-> count, version |-> 1, dirty |-> TRUE, lru_rank |-> clock]
<1>4. frames' = [frames EXCEPT ![i] = r] /\ r.page_id = count /\ r.version = 1
  BY <1>1 DEF Filled
<1> HIDE DEF r
<1>5. Contents' = [Contents EXCEPT ![r.page_id] = r.version]
  BY <1>0, <1>1, <1>2, <1>4, EvictSettles, FrameReads
<1>6. Contents[count] = 0
  <2>1. disk[count] = 0
    BY <1>0, <1>2 DEF FilePrefix
  <2> QED
    BY <1>0, <1>2, <1>3, <2>1, ReadsOfPage, ReadsIsContents
<1>7. Contents' = [Contents EXCEPT ![count] = Contents[count] + 1]
  BY <1>4, <1>5, <1>6
<1> QED
  BY <1>2, <1>7

\* A page written to the file from its frame is read as before.
LEMMA WriteReads ==
  ASSUME PoolInv, OneCopy', NEW i \in Frames, NEW r, frames' = [frames EXCEPT ![i] = r],
         r.page_id = frames[i].page_id, r.version = frames[i].version,
         disk' = disk \/ (frames[i].dirty /\ disk' = Written(i))
  PROVE  Contents' = Contents
<1>0. /\ frames \in [Frames -> Frame] /\ disk \in [PageIds -> Nat]
      /\ Coherent(frames, disk)
  BY SameCopy DEF PoolInv, TypesOK
<1>1. \A q \in PageIds : q # frames[i].page_id => disk'[q] = disk[q]
  BY <1>0 DEF Written
<1>2. Contents' = [Contents EXCEPT ![r.page_id] = r.version]
  BY <1>1, FrameReads
<1>3. r.page_id \in PageIds => Contents[r.page_id] = r.version
  BY <1>0, ReadsOfPage, ReadsIsContents
<1> QED
  BY <1>2, <1>3 DEF Contents

\* What reaches the file is what a reader of the page gets.
LEMMA WritesWhatIsRead ==
  ASSUME PoolInv, DiskStep
  PROVE  disk' = disk \/ \E p \in PageIds : disk' = [disk EXCEPT ![p] = Contents[p]]
<1>0. frames \in [Frames -> Frame] /\ Coherent(frames, disk) /\ FramesOK(frames, count)
  BY SameCopy DEF PoolInv, TypesOK
<1>1. ASSUME NEW i \in Frames, frames[i].dirty, disk' = Written(i)
      PROVE  \E p \in PageIds : disk' = [disk EXCEPT ![p] = Contents[p]]
  <2>1. frames[i].page_id \in PageIds
    BY <1>0, <1>1 DEF FramesOK, NoPage
  <2>2. Contents[frames[i].page_id] = frames[i].version
    BY <1>0, <2>1, ReadsOfPage, ReadsIsContents
  <2> QED
    BY <1>1, <2>1, <2>2 DEF Written
<1> QED
  BY <1>1 DEF DiskStep

-----------------------------------------------------------------------------
\* A step of PageStore, or none.
StoreStep == [Store!StoreNext]_(Store!storeVars)

\* A step that no reader sees cleans a page, fails a write, or is none.
LEMMA QuietStore ==
  ASSUME PoolInv, Contents' = Contents, phase # "closed", phase' # "closed",
         (DiskStep /\ failed' = failed) \/ (disk' = disk /\ failed' = TRUE)
  PROVE  StoreStep
<1>1. CASE disk' = disk /\ failed' = TRUE
  BY <1>1 DEF StoreStep, Store!StoreNext, Store!Fail, Store!storeVars
<1>2. CASE disk' = disk /\ failed' = failed
  BY <1>2 DEF StoreStep, Store!storeVars
<1>3. ASSUME NEW p \in PageIds, disk' = [disk EXCEPT ![p] = Contents[p]], failed' = failed
      PROVE  StoreStep
  BY <1>3 DEF StoreStep, Store!StoreNext, Store!Clean
<1> QED
  BY <1>1, <1>2, <1>3, WritesWhatIsRead

\* buf_pin makes no frame dirty.
LEMMA PinClean ==
  ASSUME PoolInv, NEW p, buf_pin(p), \A i \in Frames : ~frames[i].dirty
  PROVE  \A i \in Frames : ~frames'[i].dirty
<1>0. frames \in [Frames -> Frame]
  BY DEF PoolInv, TypesOK
<1>1. ASSUME NEW i \in find_frame(p), frames' = [frames EXCEPT ![i].lru_rank = clock]
      PROVE  \A j \in Frames : ~frames'[j].dirty
  <2>1. i \in Frames
    BY DEF find_frame
  <2> QED
    BY <1>0, <1>1, <2>1 DEF Frame
<1>2. ASSUME NEW i \in Slot, frames' = Filled(i, p, disk'[p], FALSE)
      PROVE  \A j \in Frames : ~frames'[j].dirty
  BY <1>0, <1>2 DEF Filled
<1>3. ASSUME NEW i \in Slot, frames' = [frames EXCEPT ![i] = NoPage]
      PROVE  \A j \in Frames : ~frames'[j].dirty
  BY <1>0, <1>3 DEF NoPage
<1>4. ASSUME frames' = frames PROVE \A j \in Frames : ~frames'[j].dirty
  BY <1>4
<1> QED
  BY <1>1, <1>2, <1>3, <1>4 DEF buf_pin, EvictFails, Emptied

\* Which frames are dirty, before a change and behind buf_flush_all.
LEMMA DirtyStep == PoolInv /\ BoundsOK /\ PhaseOK /\ DirtyInv /\ [Next]_vars => DirtyInv'
<1> SUFFICES ASSUME PoolInv, BoundsOK, PhaseOK, DirtyInv, [Next]_vars PROVE DirtyInv'
  OBVIOUS
<1>0. frames \in [Frames -> Frame] /\ next \in Nat
  BY DEF PoolInv, TypesOK, BoundsOK
<1>a. \A i \in Frames : ~NoFrames[i].dirty /\ i > 0
  BY DEF NoFrames, NoPage, Frames
<1>1. CASE Open
  <2>1. frames' = NoFrames /\ phase' = "index"
    BY <1>1 DEF Open
  <2> QED
    BY <1>a, <2>1 DEF DirtyInv
<1>2. CASE VisitPage \/ Lookup
  <2>1. UNCHANGED <<phase, op>> /\ phase \in {"index", "run"} /\ \E p : buf_pin(p)
    BY <1>2 DEF VisitPage, Lookup
  <2>2. CASE phase = "index" \/ (phase = "run" /\ op \in Inserts)
    <3>1. \A i \in Frames : ~frames'[i].dirty
      BY <2>1, <2>2, PinClean DEF DirtyInv
    <3> QED
      BY <2>1, <3>1 DEF DirtyInv
  <2>3. CASE ~(phase = "index" \/ (phase = "run" /\ op \in Inserts))
    BY <2>1, <2>3 DEF DirtyInv
  <2> QED
    BY <2>2, <2>3
<1>3. CASE Run
  <2>1. phase = "index" /\ phase' = "run" /\ frames' = frames
    BY <1>3 DEF Run
  <2> QED
    BY <2>1 DEF DirtyInv
<1>4. CASE ChangePage \/ AddPage \/ EndRun \/ EndSync
  <2>1. \/ phase' = "run" /\ op' = op /\ op \notin Inserts
        \/ phase' = "sync"
        \/ phase' = "flush" /\ next' = 0
    BY <1>4 DEF ChangePage, AddPage, EndInsert, EndRun, EndSync
  <2>2. \A i \in Frames : ~(i <= 0)
    BY DEF Frames
  <2> QED
    BY <2>1, <2>2 DEF DirtyInv
<1>5. CASE SyncPage
  <2>1. phase' = "sync"
    BY <1>5 DEF SyncPage
  <2> QED
    BY <2>1 DEF DirtyInv
<1>6. CASE Flush
  <2>1. /\ next + 1 \in Frames /\ FlushFrame(next + 1) /\ next' = next + 1
        /\ phase = "flush" /\ phase' = "flush"
    BY <1>0, <1>6, PoolAssumption DEF Flush, Frames
  <2>2. CASE failed' = TRUE
    BY <2>1, <2>2 DEF DirtyInv
  <2>3. CASE /\ failed' = failed /\ ~frames'[next + 1].dirty
             /\ \A j \in Frames \ {next + 1} : frames'[j] = frames[j]
    <3>1. ASSUME ~failed', NEW i \in Frames, i <= next'
          PROVE  ~frames'[i].dirty
      <4>1. i <= next \/ i = next + 1
        BY <1>0, <2>1, <3>1 DEF Frames
      <4>2. i <= next => ~frames[i].dirty
        BY <2>1, <2>3, <3>1 DEF DirtyInv
      <4> QED
        BY <2>3, <4>1, <4>2
    <3> QED
      BY <2>1, <3>1 DEF DirtyInv
  <2>4. \/ failed' = TRUE
        \/ /\ failed' = failed /\ ~frames'[next + 1].dirty
           /\ \A j \in Frames \ {next + 1} : frames'[j] = frames[j]
    <3>1. CASE ~frames[next + 1].dirty /\ UNCHANGED <<frames, failed>>
      BY <3>1
    <3>2. CASE frames' = [frames EXCEPT ![next + 1].dirty = FALSE] /\ failed' = failed
      BY <1>0, <2>1, <3>2 DEF Frame
    <3> QED
      BY <2>1, <3>1, <3>2 DEF FlushFrame
  <2> QED
    BY <2>2, <2>3, <2>4
<1>7. CASE Close \/ Crash
  <2>1. frames' = NoFrames /\ phase' = "closed"
    BY <1>7 DEF Close, Crash, Free
  <2> QED
    BY <2>1 DEF DirtyInv
<1>8. CASE UNCHANGED vars
  BY <1>8 DEF vars, client, DirtyInv
<1> QED
  BY <1>1, <1>2, <1>3, <1>4, <1>5, <1>6, <1>7, <1>8 DEF Next

\* Without frames a reader gets what is in the file.
LEMMA ReadsFile ==
  ASSUME frames' = NoFrames, disk' \in [PageIds -> Nat]
  PROVE  Contents' = disk'
<1>1. \A i \in Frames : frames'[i].page_id \notin PageIds
  BY InvalidId DEF NoFrames, NoPage
<1>2. Reads(frames', disk') = [p \in PageIds |-> disk'[p]]
  BY <1>1 DEF Reads
<1> QED
  BY <1>2, ReadsIsContents

\* When no frame is dirty a reader gets what is in the file.
LEMMA CleanReads ==
  ASSUME PoolInv, \A i \in Frames : ~frames[i].dirty
  PROVE  Contents = disk
<1>1. /\ frames \in [Frames -> Frame] /\ disk \in [PageIds -> Nat] /\ Coherent(frames, disk)
  BY SameCopy DEF PoolInv, TypesOK
<1>2. ASSUME NEW p \in PageIds PROVE Contents[p] = disk[p]
  <2>1. CASE \E i \in Frames : frames[i].page_id = p
    <3>1. PICK i \in Frames : frames[i].page_id = p
      BY <2>1
    <3>2. Contents[p] = frames[i].version
      BY <1>1, <3>1, ReadsOfPage, ReadsIsContents
    <3> QED
      BY <1>1, <3>1, <3>2, InvalidId DEF Coherent
  <2>2. CASE ~\E i \in Frames : frames[i].page_id = p
    BY <1>1, <2>2, ReadsOfPage, ReadsIsContents
  <2> QED
    BY <2>1, <2>2
<1>3. DOMAIN Contents = PageIds /\ DOMAIN disk = PageIds /\ Contents = [p \in PageIds |-> Contents[p]]
  BY <1>1 DEF Contents
<1> QED
  BY <1>1, <1>2, <1>3

\* Every step of the pool is a step of PageStore, or none.
LEMMA StepsOfStore ==
  PoolInv /\ BoundsOK /\ PhaseOK /\ FileInv /\ DirtyInv /\ PoolInv' /\ [Next]_vars => StoreStep
<1> SUFFICES ASSUME PoolInv, BoundsOK, PhaseOK, FileInv, DirtyInv, PoolInv', [Next]_vars
             PROVE  StoreStep
  OBVIOUS
<1>0. /\ count \in Nat /\ next \in Nat /\ MaxPages \in Nat /\ count <= MaxPages
      /\ frames \in [Frames -> Frame] /\ disk \in [PageIds -> Nat]
      /\ disk' \in [PageIds -> Nat] /\ OneCopy'
  BY InvalidId DEF BoundsOK, PoolInv, TypesOK
<1>1. CASE Open
  <2>1. /\ frames' = NoFrames /\ disk' = disk /\ failed' = FALSE /\ phase = "closed"
        /\ phase' = "index"
    BY <1>1 DEF Open
  <2>2. frames = NoFrames
    BY <2>1 DEF DirtyInv
  <2>3. Contents' = Contents
    BY <2>1, <2>2, ReadsIsContents
  <2> QED
    BY <2>1, <2>3 DEF StoreStep, Store!StoreNext, Store!OpenStore
<1>2. CASE VisitPage
  <2>1. next \in PageIds /\ next < count /\ buf_pin(next) /\ UNCHANGED <<count, phase>>
        /\ phase # "closed"
    BY <1>0, <1>2 DEF VisitPage, PageIds
  <2> QED
    BY <2>1, PinReads, QuietStore
<1>3. CASE Lookup
  <2>1. PICK p \in 0 .. count - 1 : buf_pin(p)
    BY <1>3 DEF Lookup
  <2>2. p \in PageIds /\ p < count /\ UNCHANGED <<count, phase>> /\ phase # "closed"
    BY <1>0, <1>3, <2>1 DEF Lookup, PageIds
  <2> QED
    BY <2>1, <2>2, PinReads, QuietStore
<1>4. CASE Run \/ EndRun \/ EndSync
  <2>1. UNCHANGED <<frames, disk, failed>> /\ phase # "closed" /\ phase' # "closed"
    BY <1>4 DEF Run, EndRun, EndSync
  <2>2. Contents' = Contents
    BY <2>1, ReadsIsContents
  <2> QED
    BY <2>1, <2>2 DEF StoreStep, Store!storeVars
<1>5. CASE ChangePage \/ AddPage
  <2>1. phase = "run" /\ phase' # "closed" /\ failed' = failed
    BY <1>5 DEF ChangePage, AddPage, EndInsert, buf_new_page, Emptied, evict_frame
  <2>2. CASE ChangePage
    <3>1. disk' = disk
      BY <2>2 DEF ChangePage
    <3>2. \E p \in PageIds : Contents' = [Contents EXCEPT ![p] = Contents[p] + 1]
      BY <2>2, ChangeReads
    <3> QED
      BY <2>1, <3>1, <3>2 DEF StoreStep, Store!StoreNext, Store!WritePage
  <2>3. CASE AddPage
    <3>1. /\ op \in Inserts /\ count < MaxPages /\ FilePrefix(disk, count)
          /\ \/ buf_new_page(count) /\ count' = count + 1
             \/ \E i \in Slot : Emptied(i)
      BY <2>1, <2>3 DEF AddPage, PoolInv, FileInv
    <3>2. CASE buf_new_page(count) /\ count' = count + 1
      <4>1. disk' = disk
        BY <2>1, <3>1, <3>2, SlotInFrames DEF DirtyInv, buf_new_page, evict_frame
      <4>2. \E p \in PageIds : Contents' = [Contents EXCEPT ![p] = Contents[p] + 1]
        BY <3>1, <3>2, NewPageReads
      <4> QED
        BY <2>1, <4>1, <4>2 DEF StoreStep, Store!StoreNext, Store!WritePage
    <3>3. ASSUME NEW i \in Slot, Emptied(i) PROVE StoreStep
      <4>1. Contents' = Contents
        BY <1>0, <3>3, EmptyReads
      <4>2. DiskStep
        BY <3>3, SlotInFrames, EvictWrites DEF Emptied
      <4> QED
        BY <2>1, <4>1, <4>2, QuietStore
    <3> QED
      BY <3>1, <3>2, <3>3
  <2> QED
    BY <1>5, <2>2, <2>3
<1>6. CASE SyncPage
  <2>1. next \in PageIds /\ next < count /\ UNCHANGED <<count, phase>> /\ phase = "sync"
    BY <1>0, <1>6 DEF SyncPage, PageIds
  <2>2. CASE buf_pin(next)
    BY <2>1, <2>2, PinReads, QuietStore
  <2>3. ASSUME NEW i \in find_frame(next), frames[i].dirty,
               frames' = [frames EXCEPT ![i].lru_rank = clock],
               \/ disk' = Written(i) /\ failed' = failed
               \/ disk' = disk /\ failed' = TRUE
        PROVE  StoreStep
    <3>1. i \in Frames
      BY DEF find_frame
    <3> DEFINE r == [frames[i] EXCEPT !.lru_rank = clock]
    <3>2. /\ r.page_id = frames[i].page_id /\ r.version = frames[i].version
          /\ frames' = [frames EXCEPT ![i] = r]
      BY <1>0, <2>3, <3>1 DEF Frame
    <3> HIDE DEF r
    <3>3. Contents' = Contents
      BY <1>0, <2>3, <3>1, <3>2, WriteReads
    <3>4. (DiskStep /\ failed' = failed) \/ (disk' = disk /\ failed' = TRUE)
      BY <2>3, <3>1 DEF DiskStep
    <3> QED
      BY <2>1, <3>3, <3>4, QuietStore
  <2> QED
    BY <1>6, <2>2, <2>3 DEF SyncPage
<1>7. CASE Flush
  <2>1. /\ next + 1 \in Frames /\ FlushFrame(next + 1) /\ phase = "flush" /\ phase' = phase
    BY <1>0, <1>7, PoolAssumption DEF Flush, Frames
  <2>2. CASE UNCHANGED frames
    <3>1. disk' = disk /\ failed' \in {failed, TRUE}
      <4>1. CASE disk' = disk
        BY <2>1, <4>1 DEF FlushFrame
      <4>2. CASE frames' = [frames EXCEPT ![next + 1].dirty = FALSE] /\ frames[next + 1].dirty
        BY <1>0, <2>1, <2>2, <4>2 DEF Frame
      <4> QED
        BY <2>1, <4>1, <4>2 DEF FlushFrame
    <3>2. Contents' = Contents
      BY <2>2, <3>1, ReadsIsContents
    <3> QED
      BY <2>1, <3>1, <3>2, QuietStore DEF DiskStep
  <2>3. CASE /\ frames[next + 1].dirty /\ disk' = Written(next + 1) /\ failed' = failed
             /\ frames' = [frames EXCEPT ![next + 1].dirty = FALSE]
    <3> DEFINE r == [frames[next + 1] EXCEPT !.dirty = FALSE]
    <3>2. /\ r.page_id = frames[next + 1].page_id /\ r.version = frames[next + 1].version
          /\ frames' = [frames EXCEPT ![next + 1] = r]
      BY <1>0, <2>1, <2>3 DEF Frame
    <3> HIDE DEF r
    <3>3. Contents' = Contents
      BY <1>0, <2>1, <2>3, <3>2, WriteReads
    <3> QED
      BY <2>1, <2>3, <3>3, QuietStore DEF DiskStep
  <2> QED
    BY <2>1, <2>2, <2>3 DEF FlushFrame
<1>8. CASE Close
  <2>1. /\ phase = "flush" /\ next = POOL_SIZE /\ frames' = NoFrames /\ phase' = "closed"
        /\ UNCHANGED <<disk, failed>>
    BY <1>8 DEF Close, Free
  <2>2. Contents' = disk'
    BY <1>0, <2>1, ReadsFile
  <2>3. failed \/ Contents = disk
    <3>1. ~failed => \A i \in Frames : ~frames[i].dirty
      BY <2>1, PoolAssumption DEF DirtyInv, Frames
    <3> QED
      BY <3>1, CleanReads DEF PhaseOK
  <2> QED
    BY <2>1, <2>2, <2>3 DEF StoreStep, Store!StoreNext, Store!CloseStore
<1>9. CASE Crash
  <2>1. /\ phase # "closed" /\ frames' = NoFrames /\ phase' = "closed"
        /\ UNCHANGED <<disk, failed>>
    BY <1>9 DEF Crash, Free
  <2>2. Contents' = disk'
    BY <1>0, <2>1, ReadsFile
  <2> QED
    BY <2>1, <2>2 DEF StoreStep, Store!StoreNext, Store!CrashStore
<1>10. CASE UNCHANGED vars
  <2>1. UNCHANGED <<frames, disk, phase, failed>>
    BY <1>10 DEF vars, client
  <2> QED
    BY <2>1, ReadsIsContents DEF StoreStep, Store!storeVars
<1> QED
  BY <1>1, <1>2, <1>3, <1>4, <1>5, <1>6, <1>7, <1>8, <1>9, <1>10 DEF Next

(* The pool implements PageStore: whatever is evicted and whatever fails, a   *)
(* reader gets what was written last, and a close in which no write failed    *)
(* leaves all of it in the file.                                             *)
THEOREM PoolIsPageStore == Spec => ImplementsPages
<1>1. Init => Store!StoreInit /\ DirtyInv
  <2> SUFFICES ASSUME Init PROVE Store!StoreInit /\ DirtyInv
    OBVIOUS
  <2>1. frames = NoFrames /\ phase = "closed" /\ failed = FALSE
    BY DEF Init
  <2>2. PoolInv /\ \A i \in Frames : ~frames[i].dirty
    BY <2>1, StartsOK DEF NoFrames, NoPage
  <2>3. Contents = disk
    BY <2>2, CleanReads
  <2> QED
    BY <2>1, <2>3 DEF Store!StoreInit, DirtyInv
<1>2. PoolInv /\ BoundsOK /\ PhaseOK /\ FileInv /\ DirtyInv /\ PoolInv' /\ [Next]_vars
        => [Store!StoreNext]_(Store!storeVars)
  BY StepsOfStore DEF StoreStep
<1> QED
  BY <1>1, <1>2, StartsOK, PhaseStart, FileStart, PoolInvInductive, BoundsInductive, PhaseStep,
     FileStep, DirtyStep, PTL DEF Spec, ImplementsPages, Store!StoreSpec
=============================================================================
