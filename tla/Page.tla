--------------------------------- MODULE Page ---------------------------------
(***************************************************************************)
(* A slotted page of KernelDB, src/storage/page/page.c: the slot directory  *)
(* grows up from the header, the rows grow down from the end, and what one   *)
(* of them may use is decided by free_start and free_end alone.  Bytes are   *)
(* modelled by what they belong to: nothing, the directory, or a row.  The   *)
(* directory is taken to be in the first sector, with the header.            *)
(***************************************************************************)
EXTENDS Naturals, Sequences, SequencesExt

CONSTANTS
  Rows,          \* row images
  PageSize,      \* 4096
  MaxSlots,      \* 128
  Lengths,       \* the row lengths in use
  CheckedBytes,  \* 32: the bytes at the end of a page that its checksum depends on
  Sectors        \* where the write of a page can be cut: multiples of 512

HeaderSize == 40   \* sizeof(PageHeader)
SlotSize   == 6    \* sizeof(Slot)
Uint16     == 65536

ASSUME PageAssumption ==
  /\ PageSize \in Nat /\ HeaderSize <= PageSize /\ PageSize < Uint16
  /\ MaxSlots \in Nat
  /\ Lengths \subseteq Nat /\ \A n \in Lengths : SlotSize + n < Uint16
  /\ CheckedBytes \in Nat /\ CheckedBytes <= PageSize - HeaderSize
  /\ Sectors \subseteq Nat

VARIABLES
  page,    \* the page in its frame
  given,   \* history: the row inserted in each slot; a torn write may have lost it
  disk,    \* the page in the file, and the checksum its header carries
  tmp,     \* the copy page_compact builds
  tmpGiven, \* history: the rows in the slots of the copy
  next     \* the slot page_compact copies next; 0 when it does not run

vars == <<page, given, disk, tmp, tmpGiven, next>>

Free == "free"
Directory == "directory"
Bytes == HeaderSize .. PageSize - 1
Content == Rows \cup {Free, Directory}

SlotRecord == [offset : Nat, length : Nat, alive : BOOLEAN]
Given == [row : Rows, lost : BOOLEAN]
PageRecord == [slots : Seq(SlotRecord), freeStart : Nat, freeEnd : Nat,
               bytes : [Bytes -> Content]]

\* page_alloc
EmptyPage == [slots |-> <<>>, freeStart |-> HeaderSize, freeEnd |-> PageSize,
              bytes |-> [b \in Bytes |-> Free]]

\* compute_checksum shifts its 32-bit sum by one for each byte: what it returns
\* depends on the last 32 bytes of the page and on nothing else.
compute_checksum(p) == [b \in PageSize - CheckedBytes .. PageSize - 1 |-> p.bytes[b]]

NoDisk == [page |-> EmptyPage, sum |-> <<>>, given |-> <<>>]

Init == /\ page = EmptyPage /\ given = <<>>
        /\ disk = NoDisk
        /\ tmp = EmptyPage /\ tmpGiven = <<>> /\ next = 0

-----------------------------------------------------------------------------
free_space(p) == IF p.freeEnd <= p.freeStart THEN 0 ELSE p.freeEnd - p.freeStart

SlotAt(n)   == HeaderSize + n * SlotSize   \* where the entry of slot n starts, from 0
SlotBytes(p, i) == p.slots[i].offset .. p.slots[i].offset + p.slots[i].length - 1

\* The row goes below free_end, its entry behind the last entry.
Put(p, content, length) ==
  LET off == p.freeEnd - length
      end == Len(p.slots)
  IN [slots     |-> Append(p.slots, [offset |-> off, length |-> length, alive |-> TRUE]),
      freeStart |-> p.freeStart,
      freeEnd   |-> off,
      bytes     |-> [b \in Bytes |->
                       IF b >= SlotAt(end) /\ b < SlotAt(end + 1) THEN Directory
                       ELSE IF b >= off /\ b < off + length THEN content[b - off]
                       ELSE p.bytes[b]]]

\* Mutant: the entry of the new slot is not counted.
page_insert_NoEntry(r, length) ==
  /\ free_space(page) >= length /\ Len(page.slots) < MaxSlots
  /\ page' = [Put(page, [k \in 0 .. length - 1 |-> r], length)
                EXCEPT !.freeStart = SlotAt(Len(page.slots) + 1)]
  /\ given' = Append(given, [row |-> r, lost |-> FALSE])
  /\ UNCHANGED <<disk, tmp, tmpGiven, next>>

page_insert(r, length) ==
  /\ free_space(page) >= (SlotSize + length) % Uint16 /\ Len(page.slots) < MaxSlots
  /\ page' = [Put(page, [k \in 0 .. length - 1 |-> r], length)
                EXCEPT !.freeStart = SlotAt(Len(page.slots) + 1)]
  /\ given' = Append(given, [row |-> r, lost |-> FALSE])
  /\ UNCHANGED <<disk, tmp, tmpGiven, next>>

page_delete(i) ==
  /\ page.slots[i].alive
  /\ page' = [page EXCEPT !.slots[i].alive = FALSE]
  /\ UNCHANGED <<given, disk, tmp, tmpGiven, next>>

-----------------------------------------------------------------------------
(* page_compact, one step per slot.  Nothing in the program calls it.       *)

CompactStart == /\ next = 0
                /\ next' = 1
                /\ UNCHANGED <<page, given, disk, tmp, tmpGiven>>

\* Mutant: the row is copied to the offset it had.
CompactSlot_SameOffset ==
  /\ next > 0 /\ next <= Len(page.slots)
  /\ IF page.slots[next].alive
     THEN /\ tmp' = [Put(tmp, [k \in 0 .. page.slots[next].length - 1 |->
                                 page.bytes[page.slots[next].offset + k]],
                         page.slots[next].length)
                       EXCEPT !.slots[Len(tmp.slots) + 1].offset = page.slots[next].offset]
          /\ tmpGiven' = Append(tmpGiven, given[next])
     ELSE UNCHANGED <<tmp, tmpGiven>>
  /\ next' = next + 1
  /\ UNCHANGED <<page, given, disk>>

CompactSlot ==
  /\ next > 0 /\ next <= Len(page.slots)
  /\ IF page.slots[next].alive
     THEN /\ tmp' = Put(tmp, [k \in 0 .. page.slots[next].length - 1 |->
                                page.bytes[page.slots[next].offset + k]],
                        page.slots[next].length)
          /\ tmpGiven' = Append(tmpGiven, given[next])
     ELSE UNCHANGED <<tmp, tmpGiven>>
  /\ next' = next + 1
  /\ UNCHANGED <<page, given, disk>>

\* Mutant: free_start stays behind the old directory.
CompactEnd_KeepsStart ==
  /\ next > Len(page.slots)
  /\ page' = [tmp EXCEPT !.freeStart = page.freeStart]
  /\ given' = tmpGiven
  /\ tmp' = EmptyPage /\ tmpGiven' = <<>> /\ next' = 0
  /\ UNCHANGED disk

CompactEnd ==
  /\ next > Len(page.slots)
  /\ page' = [tmp EXCEPT !.freeStart = SlotAt(Len(tmp.slots))]
  /\ given' = tmpGiven
  /\ tmp' = EmptyPage /\ tmpGiven' = <<>> /\ next' = 0
  /\ UNCHANGED disk

-----------------------------------------------------------------------------
(* The file.                                                                *)

page_write_disk == /\ disk' = [page |-> page, sum |-> compute_checksum(page), given |-> given]
                   /\ UNCHANGED <<page, given, tmp, tmpGiven, next>>

(* A power failure stops the write of the page: the header, the directory and *)
(* the bytes up to some sector are in the file, the others are as before, and *)
(* the frame is gone.  Rows that were in the file at the same place stay.     *)
InFile(i) == /\ i <= Len(disk.given) /\ disk.given[i] = given[i]
             /\ disk.page.slots[i].offset = page.slots[i].offset
             /\ disk.page.slots[i].length = page.slots[i].length
TornWrite ==
  /\ disk # NoDisk
  /\ \E cut \in Sectors : cut >= page.freeStart /\
       disk' = [page  |-> [page EXCEPT !.bytes = [b \in Bytes |->
                             IF b < cut THEN page.bytes[b] ELSE disk.page.bytes[b]]],
                sum   |-> compute_checksum(page),
                given |-> [i \in 1 .. Len(given) |->
                             [given[i] EXCEPT !.lost = @ \/ ~InFile(i)]]]
  /\ page' = EmptyPage /\ given' = <<>>
  /\ UNCHANGED <<tmp, tmpGiven, next>>

\* A page whose checksum is the one in its header is taken.
page_read_disk == /\ disk # NoDisk /\ disk.sum = compute_checksum(disk.page)
                  /\ page' = disk.page /\ given' = disk.given
                  /\ UNCHANGED <<disk, tmp, tmpGiven, next>>

Insert == \E r \in Rows, n \in Lengths : page_insert(r, n)
Delete == \E i \in 1 .. Len(page.slots) : page_delete(i)
Idle   == next = 0

Next == \/ Idle /\ (Insert \/ Delete \/ page_write_disk \/ TornWrite \/ page_read_disk)
        \/ CompactStart \/ (~Idle /\ (CompactSlot \/ CompactEnd))

Spec == Init /\ [][Next]_vars

-----------------------------------------------------------------------------
\* The type invariant, with the order of the three parts of a page.
PageTypeOK == /\ page \in PageRecord /\ tmp \in PageRecord
              /\ HeaderSize <= page.freeStart /\ page.freeStart <= page.freeEnd
              /\ page.freeEnd <= PageSize
              /\ given \in Seq(Given) /\ Len(given) = Len(page.slots)
              /\ next \in Nat

\* page_read of slot i returns the row r that page_insert stored there.
Reads(p, i, r) == \A b \in SlotBytes(p, i) : b \in Bytes /\ p.bytes[b] = r

(* Whatever is inserted, deleted, compacted and read back, no row and no slot *)
(* entry is written over another: each live slot reads back its own row, and  *)
(* a torn write damages no row that was in the file before it.                *)
ReadsBack == \A i \in 1 .. Len(page.slots) :
               page.slots[i].alive /\ ~given[i].lost => Reads(page, i, given[i].row)

\* The live rows among the first n slots, and the space the dead ones take.
Kept(p, g) ==
  LET kept[n \in 0 .. Len(p.slots)] ==
        IF n = 0 THEN [rows |-> <<>>, freed |-> 0]
        ELSE LET before == kept[n - 1]
             IN IF p.slots[n].alive
                THEN [rows |-> Append(before.rows, g[n]), freed |-> before.freed]
                ELSE [rows |-> before.rows, freed |-> before.freed + SlotSize + p.slots[n].length]
  IN kept

(* page_compact keeps the live rows, in their order, and gives back the space *)
(* of all others: the free space grows by their rows and their entries.       *)
CompactKeeps ==
  [][CompactEnd => LET kept == Kept(page, given)[Len(page.slots)]
                   IN /\ given' = kept.rows
                      /\ \A i \in 1 .. Len(page'.slots) : page'.slots[i].alive
                      /\ page'.freeEnd - page'.freeStart =
                           page.freeEnd - page.freeStart + kept.freed]_vars

\* README, "Page checksums for integrity": a page that page_read_disk takes is a
\* page that was written, also after a torn write.
AllReadBack == \A i \in 1 .. Len(page.slots) :
                 page.slots[i].alive => Reads(page, i, given[i].row)
ReadsIntact == [][page_read_disk => AllReadBack']_vars
=============================================================================
