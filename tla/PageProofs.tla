------------------------------ MODULE PageProofs ------------------------------
(***************************************************************************)
(* ReadsBack, PageTypeOK and CompactKeeps for every page size, number of      *)
(* slots and row lengths.                                                   *)
(***************************************************************************)
EXTENDS Page, TLAPS, WellFoundedInduction

USE DEF HeaderSize, SlotSize, Uint16, SlotAt

(* What holds of a page, a page in the file, and the copy of page_compact:   *)
(* the rows lie in the order of their slots between free_end and the end of  *)
(* the page, the directory ends before them, and every row that a torn write *)
(* did not take, dead or alive, still has all its bytes.                     *)
End(p, i) == p.slots[i].offset + p.slots[i].length
ImageOK(p, g) ==
  /\ p \in PageRecord /\ g \in Seq(Given) /\ Len(g) = Len(p.slots)
  /\ SlotAt(Len(p.slots)) <= p.freeEnd /\ p.freeEnd <= PageSize
  /\ \A i \in 1 .. Len(p.slots) : /\ p.freeEnd <= p.slots[i].offset /\ End(p, i) <= PageSize
                                  /\ ~g[i].lost => Reads(p, i, g[i].row)
  /\ \A i, j \in 1 .. Len(p.slots) : i < j => End(p, j) <= p.slots[i].offset

\* What is left to copy still fits below what has been copied.
CompactOK ==
  /\ next \in Nat /\ next <= Len(page.slots) + 1
  /\ next = 0 => tmp = EmptyPage /\ tmpGiven = <<>>
  /\ next > 0 => /\ Len(tmp.slots) < next
                 /\ \A j \in next .. Len(page.slots) : End(page, j) <= tmp.freeEnd

Inv == /\ ImageOK(page, given) /\ page.freeStart = SlotAt(Len(page.slots))
       /\ ImageOK(disk.page, disk.given)
       /\ disk.page.freeStart = SlotAt(Len(disk.page.slots))
       /\ ImageOK(tmp, tmpGiven) /\ CompactOK

-----------------------------------------------------------------------------
\* What the assumption says of the page size.
LEMMA PageFacts == PageSize \in Nat /\ 40 <= PageSize /\ Bytes = 40 .. PageSize - 1
  BY PageAssumption DEF Bytes

\* An empty page is in order.
LEMMA EmptyImage == ImageOK(EmptyPage, <<>>) /\ EmptyPage.freeStart = SlotAt(Len(EmptyPage.slots))
<1>1. /\ EmptyPage.slots = <<>> /\ EmptyPage.freeStart = 40 /\ EmptyPage.freeEnd = PageSize
      /\ EmptyPage \in PageRecord /\ <<>> \in Seq(Given) /\ Len(<<>>) = 0
  BY PageFacts DEF EmptyPage, PageRecord, Content
<1> QED
  BY <1>1, PageFacts DEF ImageOK

\* There is room for a row and its entry; the bytes are those of the row.
Room(p, length) == SlotAt(Len(p.slots) + 1) + length <= p.freeEnd
RowBytes(content, length, e) ==
  \A k \in 0 .. length - 1 : content[k] \in Content /\ (~e.lost => content[k] = e.row)

\* A row put below free_end, when its entry fits before it, damages nothing.
LEMMA PutImage ==
  ASSUME NEW p, NEW g, ImageOK(p, g), NEW length \in Nat, NEW content, NEW e \in Given,
         Room(p, length), RowBytes(content, length, e),
         NEW q, q = Put(p, content, length)
  PROVE  /\ ImageOK(q, Append(g, e)) /\ Len(q.slots) = Len(p.slots) + 1
         /\ q.freeEnd = p.freeEnd - length /\ q.freeStart = p.freeStart
<1> DEFINE n == Len(p.slots)
           off == p.freeEnd - length
           nb == [b \in Bytes |->
                    IF b >= SlotAt(n) /\ b < SlotAt(n + 1) THEN Directory
                    ELSE IF b >= off /\ b < off + length THEN content[b - off]
                    ELSE p.bytes[b]]
           s == [offset |-> off, length |-> length, alive |-> TRUE]
<1>1. /\ p \in PageRecord /\ n \in Nat /\ p.slots \in Seq(SlotRecord) /\ p.freeEnd \in Nat
      /\ p.freeStart \in Nat /\ p.bytes \in [Bytes -> Content]
      /\ \A i \in 1 .. n : p.slots[i] \in SlotRecord
      /\ p.freeEnd <= PageSize
      /\ g \in Seq(Given) /\ Len(g) = n
  BY DEF ImageOK, PageRecord
<1>2. off \in Nat /\ s \in SlotRecord /\ SlotAt(n + 1) <= off /\ off + length = p.freeEnd
  BY <1>1 DEF SlotRecord, Room
<1>3. /\ q.slots = Append(p.slots, s) /\ q.freeEnd = off /\ q.freeStart = p.freeStart
      /\ q.bytes = nb
      /\ nb \in [Bytes -> Content] => q \in PageRecord
  <2>1. q = [slots |-> Append(p.slots, s), freeStart |-> p.freeStart, freeEnd |-> off,
             bytes |-> nb]
    BY DEF Put
  <2>2. Append(p.slots, s) \in Seq(SlotRecord)
    BY <1>1, <1>2
  <2> HIDE DEF nb, s, n, off
  <2> QED
    BY <1>1, <1>2, <2>1, <2>2 DEF PageRecord
<1>4. /\ q.slots \in Seq(SlotRecord) /\ Len(q.slots) = n + 1
      /\ \A i \in 1 .. n : q.slots[i] = p.slots[i]
      /\ q.slots[n + 1].offset = off /\ q.slots[n + 1].length = length
  BY <1>1, <1>2, <1>3
<1>5. /\ Append(g, e) \in Seq(Given) /\ Len(Append(g, e)) = n + 1
      /\ \A i \in 1 .. n : Append(g, e)[i] = g[i]
      /\ Append(g, e)[n + 1] = e
  BY <1>1
<1>6. nb \in [Bytes -> Content]
  <2>1. \A b \in Bytes : b >= off /\ b < off + length => b - off \in 0 .. length - 1
    BY <1>2 DEF Bytes
  <2> QED
    BY <1>1, <2>1 DEF Content, RowBytes
<1>7. q \in PageRecord /\ q.freeEnd = off /\ q.bytes = nb
  BY <1>3, <1>6
<1> HIDE DEF nb, s, off
<1>8. ASSUME NEW i \in 1 .. n + 1
      PROVE  q.freeEnd <= q.slots[i].offset /\ End(q, i) <= PageSize
  <2>1. CASE i = n + 1
    <3>1. q.slots[i].offset = off /\ q.slots[i].length = length
      BY <1>4, <2>1
    <3>2. End(q, i) = p.freeEnd /\ q.freeEnd = q.slots[i].offset
      BY <1>2, <1>7, <3>1 DEF End
    <3> QED
      BY <1>1, <1>2, <1>7, <3>1, <3>2
  <2>2. CASE i \in 1 .. n
    <3>1. /\ q.slots[i] = p.slots[i] /\ p.freeEnd <= p.slots[i].offset
          /\ End(p, i) <= PageSize /\ p.slots[i].offset \in Nat
      BY <1>1, <1>4, <2>2 DEF ImageOK, SlotRecord
    <3> QED
      BY <1>1, <1>2, <1>7, <3>1 DEF End
  <2> QED
    BY <1>1, <2>1, <2>2
<1>9. ASSUME NEW i \in 1 .. n + 1, ~Append(g, e)[i].lost
      PROVE  Reads(q, i, Append(g, e)[i].row)
  <2>1. CASE i = n + 1
    <3>0. SlotBytes(q, i) = off .. off + length - 1 /\ Append(g, e)[i] = e
      BY <1>4, <1>5, <2>1 DEF SlotBytes
    <3>1. SUFFICES ASSUME NEW b \in off .. off + length - 1
                   PROVE  b \in Bytes /\ q.bytes[b] = e.row
      BY <3>0 DEF Reads
    <3>2. b \in Bytes /\ b - off \in 0 .. length - 1 /\ ~(b < SlotAt(n + 1))
      BY <1>1, <1>2, <3>1, PageFacts
    <3>3. q.bytes[b] = content[b - off]
      BY <1>2, <1>7, <3>1, <3>2 DEF nb
    <3> QED
      BY <1>5, <1>9, <2>1, <3>2, <3>3 DEF RowBytes
  <2>2. CASE i \in 1 .. n
    <3>1. /\ Reads(p, i, g[i].row) /\ p.freeEnd <= p.slots[i].offset
          /\ p.slots[i].offset \in Nat /\ p.slots[i].length \in Nat
      BY <1>1, <1>5, <1>9, <2>2 DEF ImageOK, SlotRecord
    <3>2. ASSUME NEW b \in SlotBytes(q, i) PROVE b \in Bytes /\ q.bytes[b] = p.bytes[b]
      <4>1. b \in SlotBytes(p, i)
        BY <1>4, <2>2, <3>2 DEF SlotBytes
      <4>2. b \in Bytes /\ b >= p.freeEnd
        BY <1>1, <3>1, <4>1 DEF Reads, SlotBytes
      <4>3. ~(b < SlotAt(n + 1)) /\ ~(b < off + length)
        BY <1>1, <1>2, <4>2, PageFacts
      <4> QED
        BY <1>7, <4>2, <4>3 DEF nb
    <3>3. SlotBytes(q, i) = SlotBytes(p, i)
      BY <1>4, <2>2 DEF SlotBytes
    <3> QED
      BY <1>5, <2>2, <3>1, <3>2, <3>3 DEF Reads
  <2> QED
    BY <1>1, <2>1, <2>2
<1>10. ASSUME NEW i \in 1 .. n + 1, NEW j \in 1 .. n + 1, i < j
       PROVE  End(q, j) <= q.slots[i].offset
  <2>1. i \in 1 .. n
    BY <1>1, <1>10
  <2>2. CASE j = n + 1
    <3>1. q.slots[j].offset = off /\ q.slots[j].length = length /\ q.slots[i] = p.slots[i]
      BY <1>4, <2>1, <2>2
    <3>2. p.freeEnd <= p.slots[i].offset /\ p.slots[i].offset \in Nat
      BY <1>1, <2>1 DEF ImageOK, SlotRecord
    <3> QED
      BY <1>1, <1>2, <3>1, <3>2 DEF End
  <2>3. CASE j \in 1 .. n
    <3>1. q.slots[i] = p.slots[i] /\ q.slots[j] = p.slots[j]
      BY <1>4, <2>1, <2>3
    <3>2. End(p, j) <= p.slots[i].offset
      BY <1>10, <2>1, <2>3 DEF ImageOK
    <3> QED
      BY <1>1, <1>10, <3>1, <3>2 DEF End
  <2> QED
    BY <1>1, <1>10, <2>2, <2>3
<1>11. SlotAt(Len(q.slots)) <= q.freeEnd /\ q.freeEnd <= PageSize
  BY <1>1, <1>2, <1>3, <1>4, PageFacts
<1> HIDE DEF n
<1>12. ImageOK(q, Append(g, e))
  BY <1>4, <1>5, <1>7, <1>8, <1>9, <1>10, <1>11 DEF ImageOK
<1> QED
  BY <1>3, <1>4, <1>12 DEF n, off

\* free_start is in no statement about the rows.
LEMMA StartImage ==
  ASSUME NEW p, NEW g, ImageOK(p, g), NEW m \in Nat, NEW q, q = [p EXCEPT !.freeStart = m]
  PROVE  ImageOK(q, g) /\ q.freeStart = m /\ q.slots = p.slots /\ q.freeEnd = p.freeEnd
<1>1. /\ q.freeStart = m /\ q.slots = p.slots /\ q.freeEnd = p.freeEnd /\ q.bytes = p.bytes
      /\ q \in PageRecord
  BY DEF ImageOK, PageRecord
<1>2. \A i \in 1 .. Len(p.slots) : End(q, i) = End(p, i) /\ SlotBytes(q, i) = SlotBytes(p, i)
  BY <1>1 DEF End, SlotBytes
<1>3. ImageOK(q, g)
  BY <1>1, <1>2 DEF ImageOK, Reads
<1> QED
  BY <1>1, <1>3

\* Nor is the flag that page_delete clears.
LEMMA DeadImage ==
  ASSUME NEW p, NEW g, ImageOK(p, g), NEW i \in 1 .. Len(p.slots)
  PROVE  LET q == [p EXCEPT !.slots[i].alive = FALSE]
         IN  /\ ImageOK(q, g) /\ Len(q.slots) = Len(p.slots)
             /\ q.freeStart = p.freeStart /\ q.freeEnd = p.freeEnd
<1> DEFINE q == [p EXCEPT !.slots[i].alive = FALSE]
           d == [p.slots[i] EXCEPT !.alive = FALSE]
           t == [p.slots EXCEPT ![i] = d]
<1>1. p \in PageRecord /\ p.slots \in Seq(SlotRecord) /\ p.slots[i] \in SlotRecord
  BY DEF ImageOK, PageRecord
<1>2. /\ t \in Seq(SlotRecord) /\ Len(t) = Len(p.slots)
      /\ \A j \in 1 .. Len(p.slots) : t[j].offset = p.slots[j].offset
                                      /\ t[j].length = p.slots[j].length
  <2>1. d \in SlotRecord /\ d.offset = p.slots[i].offset /\ d.length = p.slots[i].length
    BY <1>1 DEF SlotRecord
  <2> HIDE DEF d
  <2> QED
    BY <1>1, <2>1
<1>3. /\ q.slots = t /\ q.freeStart = p.freeStart /\ q.freeEnd = p.freeEnd
      /\ q.bytes = p.bytes /\ q \in PageRecord
  BY <1>1, <1>2 DEF PageRecord
<1> HIDE DEF q, t
<1>4. \A j \in 1 .. Len(p.slots) : End(q, j) = End(p, j) /\ SlotBytes(q, j) = SlotBytes(p, j)
  BY <1>2, <1>3 DEF End, SlotBytes
<1>5. ImageOK(q, g)
  BY <1>2, <1>3, <1>4, ZenonT(40) DEF ImageOK, Reads
<1> QED
  BY <1>2, <1>3, <1>5 DEF q

-----------------------------------------------------------------------------
\* page_insert: what free_space leaves is enough for the entry and the row.
LEMMA InsertInv ==
  ASSUME Inv, next = 0, NEW r \in Rows, NEW length \in Lengths, page_insert(r, length)
  PROVE  Inv'
<1> DEFINE c == [k \in 0 .. length - 1 |-> r]
           q == Put(page, c, length)
           e == [row |-> r, lost |-> FALSE]
           n == Len(page.slots)
<1>1. /\ n \in Nat /\ page.freeEnd \in Nat /\ page.freeStart = SlotAt(n)
      /\ length \in Nat /\ SlotSize + length < 65536
  BY PageAssumption DEF Inv, ImageOK, PageRecord
<1>2. Room(page, length)
  <2>1. (SlotSize + length) % Uint16 = SlotSize + length
    BY <1>1
  <2> QED
    BY <1>1, <2>1 DEF page_insert, free_space, Room
<1>3. e \in Given /\ RowBytes(c, length, e)
  BY DEF Given, Content, RowBytes
<1> HIDE DEF c, e, q
<1>4. ImageOK(q, Append(given, e)) /\ Len(q.slots) = n + 1
  <2>1. ImageOK(page, given) /\ length \in Nat /\ q = Put(page, c, length)
    BY <1>1 DEF Inv, q
  <2> HIDE DEF n
  <2>2. ImageOK(q, Append(given, e)) /\ Len(q.slots) = Len(page.slots) + 1
    BY <1>2, <1>3, <2>1, PutImage
  <2> QED
    BY <2>2 DEF n
<1>5. page' = [q EXCEPT !.freeStart = SlotAt(n + 1)] /\ given' = Append(given, e)
  BY DEF page_insert, c, e, q
<1> HIDE DEF n
<1>6. SlotAt(n + 1) \in Nat
  BY <1>1
<1>7. /\ ImageOK(page', given') /\ page'.freeStart = SlotAt(n + 1)
      /\ Len(page'.slots) = n + 1
  BY <1>4, <1>5, <1>6, StartImage
<1>8. UNCHANGED <<disk, tmp, tmpGiven, next>>
  BY DEF page_insert
<1>9. CompactOK'
  <2>1. next' = 0 /\ Len(page'.slots) \in Nat /\ tmp' = EmptyPage /\ tmpGiven' = <<>>
    BY <1>1, <1>7, <1>8 DEF Inv, CompactOK
  <2> QED
    BY <2>1 DEF CompactOK
<1> QED
  BY <1>7, <1>8, <1>9 DEF Inv

\* page_delete: the bytes stay.
LEMMA DeleteInv ==
  ASSUME Inv, next = 0, NEW i \in 1 .. Len(page.slots), page_delete(i)
  PROVE  Inv'
<1>1. page' = [page EXCEPT !.slots[i].alive = FALSE] /\ UNCHANGED <<given, disk, tmp, tmpGiven, next>>
  BY DEF page_delete
<1>2. ImageOK(page', given') /\ Len(page'.slots) = Len(page.slots) /\ page'.freeStart = page.freeStart
  BY <1>1, DeadImage DEF Inv
<1>3. Len(page.slots) \in Nat
  BY DEF Inv, ImageOK, PageRecord
<1> QED
  BY <1>1, <1>2, <1>3 DEF Inv, CompactOK

\* page_compact begins with an empty copy, below which every row fits.
LEMMA CompactStartInv ==
  ASSUME Inv, CompactStart
  PROVE  Inv'
<1>1. /\ tmp = EmptyPage /\ tmpGiven = <<>> /\ Len(page.slots) \in Nat
      /\ \A j \in 1 .. Len(page.slots) : End(page, j) <= PageSize
  BY DEF Inv, CompactOK, CompactStart, ImageOK, PageRecord
<1>2. Len(EmptyPage.slots) = 0 /\ EmptyPage.freeEnd = PageSize
  BY DEF EmptyPage
<1> QED
  BY <1>1, <1>2 DEF Inv, CompactOK, CompactStart

\* A slot of page_compact: what is copied is the row, and where it goes was free.
LEMMA CompactSlotInv ==
  ASSUME Inv, next > 0, CompactSlot
  PROVE  Inv'
<1> DEFINE n == Len(page.slots)
           off == page.slots[next].offset
           length == page.slots[next].length
           c == [k \in 0 .. length - 1 |-> page.bytes[off + k]]
<1>1. /\ next \in 1 .. n /\ n \in Nat /\ page.slots[next] \in SlotRecord
      /\ given \in Seq(Given) /\ Len(given) = n /\ page.bytes \in [Bytes -> Content]
      /\ page.freeEnd \in Nat /\ SlotAt(n) <= page.freeEnd
      /\ ImageOK(page, given) /\ ImageOK(tmp, tmpGiven)
      /\ Len(tmp.slots) \in Nat /\ tmp.freeEnd \in Nat
      /\ Len(tmp.slots) < next
      /\ \A j \in next .. n : End(page, j) <= tmp.freeEnd
  <2>1. next \in Nat /\ next <= n
    BY DEF Inv, CompactOK, CompactSlot
  <2>2. ImageOK(page, given) /\ ImageOK(tmp, tmpGiven)
    BY DEF Inv
  <2>3. /\ given \in Seq(Given) /\ Len(given) = n /\ page.bytes \in [Bytes -> Content]
        /\ page.freeEnd \in Nat /\ SlotAt(n) <= page.freeEnd /\ page.slots \in Seq(SlotRecord)
        /\ tmp.slots \in Seq(SlotRecord) /\ tmp.freeEnd \in Nat
    BY <2>2 DEF ImageOK, PageRecord
  <2>4. Len(tmp.slots) < next /\ \A j \in next .. n : End(page, j) <= tmp.freeEnd
    BY DEF Inv, CompactOK
  <2>5. next \in 1 .. n /\ n \in Nat /\ Len(tmp.slots) \in Nat
    BY <2>1, <2>3
  <2> QED
    BY <2>2, <2>3, <2>4, <2>5
<1>2. /\ off \in Nat /\ length \in Nat /\ given[next] \in Given
      /\ page.freeEnd <= off /\ off + length <= PageSize /\ off + length <= tmp.freeEnd
  BY <1>1 DEF SlotRecord, ImageOK, End
<1>3. UNCHANGED <<page, given, disk>> /\ next' = next + 1
  BY DEF CompactSlot
<1>4. ASSUME NEW j \in next + 1 .. n PROVE End(page, j) <= off
  BY <1>1, <1>4 DEF ImageOK
<1>5. CASE ~page.slots[next].alive
  BY <1>1, <1>3, <1>5 DEF Inv, CompactOK, CompactSlot
<1>6. CASE page.slots[next].alive
  <2>1. tmp' = Put(tmp, c, length) /\ tmpGiven' = Append(tmpGiven, given[next])
    BY <1>6 DEF CompactSlot
  <2>2. Room(tmp, length)
    <3>1. Len(tmp.slots) + 1 <= n /\ SlotAt(n) <= off
      BY <1>1, <1>2
    <3> HIDE DEF n, off, length
    <3> QED
      BY <1>1, <1>2, <3>1 DEF Room
  <2>3. RowBytes(c, length, given[next])
    <3>1. ASSUME NEW k \in 0 .. length - 1
          PROVE  off + k \in Bytes /\ off + k \in SlotBytes(page, next)
      <4>1. SlotBytes(page, next) = off .. off + length - 1
        BY DEF SlotBytes
      <4>2. off \in Nat /\ length \in Nat /\ off + length <= PageSize
        BY <1>2
      <4>3. SlotAt(n) <= off /\ n \in Nat
        BY <1>1, <1>2
      <4> HIDE DEF off, length, n
      <4>4. 40 <= off
        BY <4>2, <4>3
      <4>5. off + k \in off .. off + length - 1 /\ off + k \in 40 .. PageSize - 1
        BY <3>1, <4>2, <4>4, PageFacts
      <4> QED
        BY <4>1, <4>5, PageFacts
    <3>2. ~given[next].lost => Reads(page, next, given[next].row)
      BY <1>1 DEF ImageOK
    <3> QED
      BY <1>1, <3>1, <3>2 DEF RowBytes, Reads
  <2> HIDE DEF c, n, off, length
  <2>0. ImageOK(tmp, tmpGiven) /\ length \in Nat /\ given[next] \in Given
    BY <1>1, <1>2
  <2>4. /\ ImageOK(tmp', tmpGiven') /\ Len(tmp'.slots) = Len(tmp.slots) + 1
        /\ tmp'.freeEnd = tmp.freeEnd - length
    BY <2>0, <2>1, <2>2, <2>3, PutImage
  <2> USE DEF n, off, length
  <2>5. ASSUME NEW j \in next + 1 .. n PROVE End(page, j) <= tmp'.freeEnd
    <3>1. End(page, j) \in Nat
      <4>1. page.slots \in Seq(SlotRecord)
        BY <1>1 DEF ImageOK, PageRecord
      <4>2. j \in 1 .. n
        <5>1. next \in 1 .. n /\ n \in Nat /\ j \in next + 1 .. n
          BY <1>1, <2>5
        <5> HIDE DEF n
        <5> QED
          BY <5>1
      <4>3. page.slots[j] \in SlotRecord
        BY <4>1, <4>2
      <4> QED
        BY <4>3 DEF SlotRecord, End
    <3> QED
      <4>1. End(page, j) <= off
        BY <1>4, <2>5
      <4>2. tmp'.freeEnd = tmp.freeEnd - length /\ off + length <= tmp.freeEnd
        BY <1>2, <2>4
      <4>3. off <= tmp'.freeEnd /\ off \in Nat /\ tmp'.freeEnd \in Int
        <5>1. off \in Nat /\ length \in Nat /\ tmp.freeEnd \in Nat
          BY <1>1, <1>2
        <5> HIDE DEF off, length, n
        <5> QED
          BY <4>2, <5>1
      <4> HIDE DEF off, length, n
      <4> QED
        BY <3>1, <4>1, <4>3
  <2> QED
    BY <1>1, <1>3, <2>4, <2>5 DEF Inv, CompactOK
<1> QED
  BY <1>5, <1>6

\* The copy takes the place of the page.
LEMMA CompactEndInv ==
  ASSUME Inv, CompactEnd
  PROVE  Inv'
<1>1. /\ page' = [tmp EXCEPT !.freeStart = SlotAt(Len(tmp.slots))] /\ given' = tmpGiven
      /\ tmp' = EmptyPage /\ tmpGiven' = <<>> /\ next' = 0 /\ disk' = disk
  BY DEF CompactEnd
<1>2. SlotAt(Len(tmp.slots)) \in Nat /\ ImageOK(tmp, tmpGiven)
  <2>1. ImageOK(tmp, tmpGiven)
    BY DEF Inv
  <2>2. tmp.slots \in Seq(SlotRecord)
    BY <2>1 DEF ImageOK, PageRecord
  <2>3. Len(tmp.slots) \in Nat
    BY <2>2
  <2> QED
    BY <2>1, <2>3
<1>3. /\ ImageOK(page', given') /\ page'.freeStart = SlotAt(Len(tmp.slots))
      /\ page'.slots = tmp.slots
  BY <1>1, <1>2, StartImage
<1>4. Len(page'.slots) \in Nat
  BY <1>3 DEF Inv, ImageOK, PageRecord
<1> QED
  BY <1>1, <1>3, <1>4, EmptyImage DEF Inv, CompactOK

\* A torn write: a row that is not lost has the same bytes in both halves.
LEMMA TornInv ==
  ASSUME Inv, next = 0, TornWrite
  PROVE  Inv'
<1>1. PICK cut \in Sectors : /\ cut >= page.freeStart
        /\ disk' = [page  |-> [page EXCEPT !.bytes = [b \in Bytes |->
                      IF b < cut THEN page.bytes[b] ELSE disk.page.bytes[b]]],
                    sum   |-> compute_checksum(page),
                    given |-> [i \in 1 .. Len(given) |->
                                 [given[i] EXCEPT !.lost = @ \/ ~InFile(i)]]]
  BY DEF TornWrite
<1> DEFINE bytes == [b \in Bytes |-> IF b < cut THEN page.bytes[b] ELSE disk.page.bytes[b]]
           lost(i) == [given[i] EXCEPT !.lost = @ \/ ~InFile(i)]
           p == disk'.page
           g == disk'.given
           n == Len(page.slots)
<1>2. ImageOK(page, given) /\ ImageOK(disk.page, disk.given) /\ page.freeStart = SlotAt(n)
  BY DEF Inv
<1>3. /\ page \in PageRecord /\ page.bytes \in [Bytes -> Content]
      /\ disk.page.bytes \in [Bytes -> Content]
      /\ given \in Seq(Given) /\ n \in Nat /\ Len(given) = n /\ page.slots \in Seq(SlotRecord)
      /\ Len(disk.page.slots) = Len(disk.given)
  BY <1>2 DEF ImageOK, PageRecord
<1>4. bytes \in [Bytes -> Content]
  BY <1>3
<1>5. p = [page EXCEPT !.bytes = bytes] /\ g = [i \in 1 .. n |-> lost(i)]
  BY <1>1, <1>3
<1> HIDE DEF bytes
<1>6. /\ p \in PageRecord /\ p.slots = page.slots /\ p.freeStart = page.freeStart
      /\ p.freeEnd = page.freeEnd /\ p.bytes = bytes
  BY <1>3, <1>4, <1>5 DEF PageRecord
<1>7. ASSUME NEW i \in 1 .. n
      PROVE  /\ g[i] \in Given /\ g[i].row = given[i].row
             /\ ~g[i].lost => ~given[i].lost /\ InFile(i)
  <2>1. given[i] \in Given
    BY <1>3
  <2>2. g[i] = lost(i)
    BY <1>5
  <2>3. InFile(i) \in BOOLEAN
    BY DEF InFile
  <2> QED
    BY <2>1, <2>2, <2>3 DEF Given
<1>8. g \in Seq(Given) /\ Len(g) = n
  <2>1. g = [i \in 1 .. n |-> g[i]]
    BY <1>5
  <2> HIDE DEF g, n
  <2>2. g \in [1 .. n -> Given]
    BY <1>7, <2>1, Zenon
  <2> QED
    BY <1>3, <2>2
<1> HIDE DEF p, g
<1>9. ASSUME NEW i \in 1 .. n, ~g[i].lost
      PROVE  Reads(p, i, g[i].row)
  <2>1. Reads(page, i, g[i].row)
    BY <1>2, <1>7, <1>9 DEF ImageOK
  <2>2. Reads(disk.page, i, g[i].row) /\ SlotBytes(disk.page, i) = SlotBytes(page, i)
    <3>1. InFile(i) /\ ~given[i].lost /\ g[i].row = given[i].row
      BY <1>7, <1>9
    <3>2. i \in 1 .. Len(disk.page.slots) /\ disk.given[i] = given[i]
      BY <1>3, <3>1 DEF InFile
    <3>3. Reads(disk.page, i, disk.given[i].row)
      BY <1>2, <3>1, <3>2 DEF ImageOK
    <3> QED
      BY <3>1, <3>2, <3>3 DEF InFile, SlotBytes
  <2>3. SlotBytes(p, i) = SlotBytes(page, i)
    BY <1>6 DEF SlotBytes
  <2> QED
    BY <1>6, <2>1, <2>2, <2>3 DEF Reads, bytes
<1>10. ImageOK(p, g)
  <2>1. \A i \in 1 .. n : End(p, i) = End(page, i)
    BY <1>6 DEF End
  <2> QED
    BY <1>2, <1>6, <1>8, <1>9, <2>1 DEF ImageOK
<1>11. page' = EmptyPage /\ given' = <<>> /\ UNCHANGED <<tmp, tmpGiven, next>>
  BY DEF TornWrite
<1>12. Len(EmptyPage.slots) = 0
  BY DEF EmptyPage
<1> QED
  BY <1>2, <1>6, <1>10, <1>11, <1>12, EmptyImage DEF Inv, CompactOK, p, g

-----------------------------------------------------------------------------
\* The invariant is inductive.
LEMMA InvInductive == Inv /\ [Next]_vars => Inv'
<1> SUFFICES ASSUME Inv, [Next]_vars PROVE Inv'
  OBVIOUS
<1>1. CASE Idle /\ Insert
  BY <1>1, InsertInv DEF Idle, Insert
<1>2. CASE Idle /\ Delete
  BY <1>2, DeleteInv DEF Idle, Delete
<1>3. CASE Idle /\ page_write_disk
  <2>1. /\ disk'.page = page /\ disk'.given = given
        /\ UNCHANGED <<page, given, tmp, tmpGiven, next>>
    BY <1>3 DEF page_write_disk
  <2> QED
    BY <2>1 DEF Inv, CompactOK
<1>4. CASE Idle /\ TornWrite
  BY <1>4, TornInv DEF Idle
<1>5. CASE Idle /\ page_read_disk
  <2>1. /\ page' = disk.page /\ given' = disk.given /\ next = 0
        /\ UNCHANGED <<disk, tmp, tmpGiven, next>>
    BY <1>5 DEF page_read_disk, Idle
  <2>2. ImageOK(page', given')
    BY <2>1 DEF Inv
  <2>3. Len(page'.slots) \in Nat
    BY <2>2 DEF ImageOK, PageRecord
  <2> QED
    BY <2>1, <2>2, <2>3 DEF Inv, CompactOK
<1>6. CASE CompactStart
  BY <1>6, CompactStartInv
<1>7. CASE ~Idle /\ CompactSlot
  BY <1>7, CompactSlotInv DEF CompactSlot
<1>8. CASE ~Idle /\ CompactEnd
  BY <1>8, CompactEndInv
<1>9. CASE UNCHANGED vars
  BY <1>9 DEF vars, Inv, CompactOK
<1> QED
  BY <1>1, <1>2, <1>3, <1>4, <1>5, <1>6, <1>7, <1>8, <1>9 DEF Next

\* The empty page is in order.
LEMMA InvInit == Init => Inv
<1> SUFFICES ASSUME Init PROVE Inv
  OBVIOUS
<1>1. /\ page = EmptyPage /\ given = <<>> /\ tmp = EmptyPage /\ tmpGiven = <<>> /\ next = 0
      /\ disk.page = EmptyPage /\ disk.given = <<>>
  BY DEF Init, NoDisk
<1>2. Len(EmptyPage.slots) = 0
  BY DEF EmptyPage
<1> QED
  BY <1>1, <1>2, EmptyImage DEF Inv, CompactOK

(* Whatever rows are inserted, deleted, compacted, written and read back, and  *)
(* wherever a write of the page is cut, page_read returns from each live slot   *)
(* the row that page_insert stored there, unless the cut write lost that row.   *)
THEOREM PageReads == Spec => []ReadsBack
<1>1. Inv => ReadsBack
  BY DEF Inv, ImageOK, ReadsBack
<1> QED
  BY <1>1, InvInit, InvInductive, PTL DEF Spec

(* The frame and the copy of page_compact stay pages: the directory, the free   *)
(* space and the rows keep their order, so that free_space never subtracts      *)
(* free_start from a smaller free_end, and every slot has its history.          *)
THEOREM PageTyped == Spec => []PageTypeOK
<1>1. ASSUME Inv PROVE PageTypeOK
  <2>1. /\ page \in PageRecord /\ tmp \in PageRecord /\ given \in Seq(Given)
        /\ Len(given) = Len(page.slots) /\ SlotAt(Len(page.slots)) <= page.freeEnd
        /\ page.freeEnd <= PageSize /\ page.freeStart = SlotAt(Len(page.slots)) /\ next \in Nat
    BY <1>1 DEF Inv, ImageOK, CompactOK
  <2>2. Len(page.slots) \in Nat
    BY <2>1 DEF PageRecord
  <2>3. 40 <= page.freeStart
    BY <2>1, <2>2
  <2> QED
    BY <2>1, <2>3 DEF PageTypeOK
<1> QED
  BY <1>1, InvInit, InvInductive, PTL DEF Spec
-----------------------------------------------------------------------------
(* page_compact: the rows of a page lie without a gap between them, so what a  *)
(* slot takes is the distance to the slot before it, and the copy is shorter   *)
(* than the page by what the dead slots took.                                 *)

Top(p, i) == IF i = 1 THEN PageSize ELSE p.slots[i - 1].offset
Packed(p) == /\ \A i \in 1 .. Len(p.slots) : End(p, i) = Top(p, i)
             /\ p.freeEnd = Top(p, Len(p.slots) + 1)

\* How far the copy has come.
SoFar ==
  next > 0 => LET kept == Kept(page, given)[next - 1]
              IN /\ tmpGiven = kept.rows /\ kept.freed \in Nat
                 /\ tmp.freeEnd + SlotSize * (next - 1) =
                      Top(page, next) + kept.freed + SlotSize * Len(tmp.slots)
AllAlive(p) == \A i \in 1 .. Len(p.slots) : p.slots[i].alive

Packing == Packed(page) /\ Packed(disk.page) /\ Packed(tmp) /\ AllAlive(tmp) /\ SoFar

\* A set of naturals that is not empty has a least member.
LEMMA Least ==
  ASSUME NEW T, T \subseteq Nat, T # {}
  PROVE  \E m \in T : \A k \in T : m <= k
<1> DEFINE R == OpToRel(<, Nat)
<1>1. IsWellFoundedOn(R, Nat)
  BY NatLessThanWellFounded, Zenon
<1>2. \A k, m \in Nat : k < m => <<k, m>> \in R
  BY Zenon DEF OpToRel
<1> HIDE DEF R
<1>3. \E m \in T : \A k \in T : ~(<<k, m>> \in R)
  BY <1>1, WFMin, Zenon
<1>4. PICK m \in T : \A k \in T : ~(k < m)
  BY <1>2, <1>3, Zenon
<1> QED
  BY <1>4

\* The turns of the loop of Kept.
Turn(F, p, g, n) ==
  IF n = 0 THEN [rows |-> <<>>, freed |-> 0]
  ELSE LET before == F[n - 1]
       IN IF p.slots[n].alive
          THEN [rows |-> Append(before.rows, g[n]), freed |-> before.freed]
          ELSE [rows |-> before.rows, freed |-> before.freed + SlotSize + p.slots[n].length]

\* There is such a loop for every page: no slot is the first without a turn.
LEMMA KeptExists ==
  ASSUME NEW p, NEW g, Len(p.slots) \in Nat
  PROVE  \E F : F = [n \in 0 .. Len(p.slots) |-> Turn(F, p, g, n)]
<1> DEFINE Runs(k, F) == F = [n \in 0 .. k |-> Turn(F, p, g, n)]
           T == {k \in Nat : k <= Len(p.slots) /\ ~\E F : Runs(k, F)}
<1>1. SUFFICES ASSUME T # {} PROVE FALSE
  BY <1>1
<1>2. PICK m \in T : \A k \in T : m <= k
  BY <1>1, Least
<1>3. m \in Nat /\ m <= Len(p.slots) /\ Len(p.slots) \in Nat /\ \A F : ~Runs(m, F)
  BY <1>2
<1>4. CASE m = 0
  <2>1. Runs(0, [n \in 0 .. 0 |-> [rows |-> <<>>, freed |-> 0]])
    BY DEF Turn
  <2> QED
    BY <1>3, <1>4, <2>1
<1>5. CASE m > 0
  <2>1. m - 1 \in Nat /\ m - 1 <= Len(p.slots) /\ m - 1 \notin T
    BY <1>2, <1>3, <1>5
  <2>2. PICK F : Runs(m - 1, F)
    BY <2>1
  <2> DEFINE G == [n \in 0 .. m |-> IF n = m THEN Turn(F, p, g, m) ELSE F[n]]
  <2>3. \A n \in 0 .. m - 1 : G[n] = F[n] /\ F[n] = Turn(F, p, g, n)
    <3>1. \A n \in 0 .. m - 1 : n \in 0 .. m /\ n # m
      BY <1>3
    <3>2. \A n \in 0 .. m - 1 : F[n] = Turn(F, p, g, n)
      BY <2>2
    <3> QED
      BY <3>1, <3>2
  <2>4. \A n \in 0 .. m : n # 0 => n - 1 \in 0 .. m - 1
    BY <1>3
  <2>5. \A n \in 0 .. m : Turn(G, p, g, n) = Turn(F, p, g, n)
    <3> HIDE DEF G
    <3> QED
      BY <2>3, <2>4 DEF Turn
  <2>6. ASSUME NEW n \in 0 .. m PROVE G[n] = Turn(F, p, g, n)
    <3>1. n = m \/ n \in 0 .. m - 1
      BY <1>3, <1>5
    <3>2. G[m] = Turn(F, p, g, m)
      BY <1>3
    <3> HIDE DEF G
    <3> QED
      BY <2>3, <3>1, <3>2
  <2>7. Runs(m, G)
    <3>1. DOMAIN G = 0 .. m /\ G = [n \in 0 .. m |-> G[n]]
      OBVIOUS
    <3> HIDE DEF G
    <3> QED
      BY <2>5, <2>6, <3>1
  <2> QED
    BY <1>3, <2>7
<1> QED
  BY <1>3, <1>4, <1>5

\* What a turn adds.
LEMMA KeptTurn ==
  ASSUME NEW p, NEW g, Len(p.slots) \in Nat, NEW n \in 0 .. Len(p.slots)
  PROVE  Kept(p, g)[n] = Turn(Kept(p, g), p, g, n)
<1> DEFINE kept == CHOOSE F : F = [k \in 0 .. Len(p.slots) |-> Turn(F, p, g, k)]
<1>1. Kept(p, g) = kept
  BY DEF Kept, Turn
<1>2. kept = [k \in 0 .. Len(p.slots) |-> Turn(kept, p, g, k)]
  BY KeptExists
<1> HIDE DEF kept
<1>3. \A k \in 0 .. Len(p.slots) : kept[k] = Turn(kept, p, g, k)
  BY <1>2
<1> QED
  BY <1>1, <1>3

\* An empty page is packed.
LEMMA EmptyPacked == Packed(EmptyPage) /\ AllAlive(EmptyPage)
<1>1. EmptyPage.slots = <<>> /\ Len(EmptyPage.slots) = 0 /\ EmptyPage.freeEnd = PageSize
  BY DEF EmptyPage
<1> QED
  BY <1>1 DEF Packed, Top, AllAlive

\* A row is put where the one before it starts.
LEMMA PutPacked ==
  ASSUME NEW p \in PageRecord, Packed(p), NEW length \in Nat, length <= p.freeEnd, NEW content
  PROVE  /\ Packed(Put(p, content, length))
         /\ AllAlive(p) => AllAlive(Put(p, content, length))
<1> DEFINE q == Put(p, content, length)
           n == Len(p.slots)
           s == [offset |-> p.freeEnd - length, length |-> length, alive |-> TRUE]
<1>1. n \in Nat /\ p.slots \in Seq(SlotRecord) /\ p.freeEnd \in Nat /\ s \in SlotRecord
  BY DEF PageRecord, SlotRecord
<1>2. q.slots = Append(p.slots, s) /\ q.freeEnd = p.freeEnd - length
  BY DEF Put
<1>3. /\ Len(q.slots) = n + 1 /\ q.slots[n + 1] = s
      /\ \A i \in 1 .. n : q.slots[i] = p.slots[i]
  <2> HIDE DEF s, q
  <2> QED
    BY <1>1, <1>2
<1>4. s.offset + s.length = p.freeEnd /\ s.offset = p.freeEnd - length /\ s.alive
  BY <1>1
<1> HIDE DEF s, q, n
<1>5. ASSUME NEW i \in 1 .. n + 1 PROVE Top(q, i) = Top(p, i)
  <2>1. i = 1 \/ i - 1 \in 1 .. n
    BY <1>1
  <2> QED
    BY <1>3, <2>1 DEF Top
<1>6. ASSUME NEW i \in 1 .. n + 1
      PROVE  End(q, i) = Top(q, i) /\ (AllAlive(p) => q.slots[i].alive)
  <2>1. CASE i = n + 1
    BY <1>3, <1>4, <1>5, <2>1 DEF Packed, End, n
  <2>2. CASE i \in 1 .. n
    BY <1>3, <1>5, <2>2 DEF Packed, End, n, AllAlive
  <2> QED
    BY <1>1, <2>1, <2>2
<1>7. q.freeEnd = Top(q, n + 2)
  BY <1>1, <1>2, <1>3, <1>4 DEF Top
<1>8. Len(q.slots) = n + 1 /\ Len(q.slots) + 1 = n + 2
  BY <1>1, <1>3
<1>9. Packed(q) /\ (AllAlive(p) => AllAlive(q))
  BY <1>6, <1>7, <1>8 DEF Packed, AllAlive
<1> QED
  BY <1>9 DEF q

\* Only where the rows lie matters.
LEMMA SamePacked ==
  ASSUME NEW p \in PageRecord, Packed(p), NEW q, Len(q.slots) = Len(p.slots), q.freeEnd = p.freeEnd,
         \A i \in 1 .. Len(p.slots) : /\ q.slots[i].offset = p.slots[i].offset
                                      /\ q.slots[i].length = p.slots[i].length
  PROVE  Packed(q)
<1>1. Len(p.slots) \in Nat
  BY DEF PageRecord
<1>2. \A i \in 1 .. Len(p.slots) + 1 : i = 1 \/ i - 1 \in 1 .. Len(p.slots)
  BY <1>1
<1>3. ASSUME NEW i \in 1 .. Len(p.slots) + 1 PROVE Top(q, i) = Top(p, i)
  BY <1>2 DEF Top
<1>4. /\ Len(p.slots) + 1 \in 1 .. Len(p.slots) + 1
      /\ \A i \in 1 .. Len(p.slots) : i \in 1 .. Len(p.slots) + 1
  BY <1>1
<1>5. \A i \in 1 .. Len(p.slots) : End(q, i) = End(p, i)
  BY DEF End
<1> QED
  BY <1>3, <1>4, <1>5 DEF Packed

\* page_insert and page_delete keep the rows together.
LEMMA InsertPacked ==
  ASSUME Inv, Packing, NEW r \in Rows, NEW length \in Lengths, page_insert(r, length)
  PROVE  Packed(page')
<1> DEFINE c == [k \in 0 .. length - 1 |-> r]
           q == Put(page, c, length)
<1>1. /\ page \in PageRecord /\ page.freeEnd \in Nat /\ page.freeStart = SlotAt(Len(page.slots))
      /\ Len(page.slots) \in Nat /\ length \in Nat /\ SlotSize + length < 65536 /\ Packed(page)
  BY PageAssumption DEF Inv, ImageOK, PageRecord, Packing
<1>2. length <= page.freeEnd
  <2>1. (SlotSize + length) % Uint16 = SlotSize + length
    BY <1>1
  <2> QED
    BY <1>1, <2>1 DEF page_insert, free_space
<1>3. Packed(q)
  BY <1>1, <1>2, PutPacked
<1>4. /\ page' = [q EXCEPT !.freeStart = SlotAt(Len(page.slots) + 1)]
      /\ q.slots = q.slots /\ DOMAIN q = {"slots", "freeStart", "freeEnd", "bytes"}
  BY DEF page_insert, Put
<1> HIDE DEF q
<1>5. page'.slots = q.slots /\ page'.freeEnd = q.freeEnd
  BY <1>4
<1> QED
  BY <1>3, <1>5 DEF Packed, Top, End

\* A dead slot keeps its place.
LEMMA DeletePacked ==
  ASSUME Inv, Packing, NEW i \in 1 .. Len(page.slots), page_delete(i)
  PROVE  Packed(page')
<1> DEFINE d == [page.slots[i] EXCEPT !.alive = FALSE]
           t == [page.slots EXCEPT ![i] = d]
<1>1. /\ page \in PageRecord /\ page.slots \in Seq(SlotRecord) /\ page.slots[i] \in SlotRecord
      /\ Packed(page)
  BY DEF Inv, ImageOK, PageRecord, Packing
<1>2. page' = [page EXCEPT !.slots = t]
  BY <1>1 DEF page_delete, PageRecord
<1>3. d.offset = page.slots[i].offset /\ d.length = page.slots[i].length
  BY <1>1 DEF SlotRecord
<1> HIDE DEF d
<1>4. /\ Len(t) = Len(page.slots)
      /\ \A j \in 1 .. Len(page.slots) : t[j].offset = page.slots[j].offset
                                         /\ t[j].length = page.slots[j].length
  BY <1>1, <1>3
<1> HIDE DEF t
<1>5. page'.slots = t /\ page'.freeEnd = page.freeEnd
  BY <1>1, <1>2 DEF PageRecord
<1> QED
  BY <1>1, <1>4, <1>5, SamePacked

\* The first turn: nothing is copied, nothing given back.
LEMMA StartSoFar ==
  ASSUME Inv, Packing, CompactStart
  PROVE  SoFar'
<1>1. /\ next = 0 /\ next' = 1 /\ page' = page /\ given' = given /\ tmp' = EmptyPage
      /\ tmpGiven' = <<>> /\ Len(page.slots) \in Nat
  BY DEF CompactStart, Inv, CompactOK, ImageOK, PageRecord
<1>2. Kept(page, given)[0] = [rows |-> <<>>, freed |-> 0]
  <2>1. 0 \in 0 .. Len(page.slots)
    BY <1>1
  <2>2. Kept(page, given)[0] = Turn(Kept(page, given), page, given, 0)
    BY <1>1, <2>1, KeptTurn
  <2> QED
    BY <2>2 DEF Turn
<1>3. EmptyPage.freeEnd = PageSize /\ Len(EmptyPage.slots) = 0
  BY DEF EmptyPage
<1>4. Top(page, 1) = PageSize
  BY DEF Top
<1> QED
  BY <1>1, <1>2, <1>3, <1>4, PageFacts DEF SoFar

\* A turn of page_compact is a turn of the loop of Kept.
LEMMA SlotSoFar ==
  ASSUME Inv, Packing, next > 0, CompactSlot
  PROVE  SoFar' /\ Packed(tmp') /\ AllAlive(tmp')
<1> DEFINE n == Len(page.slots)
           s == page.slots[next]
           c == [k \in 0 .. s.length - 1 |-> page.bytes[s.offset + k]]
           F == Kept(page, given)
<1>1. /\ next \in 1 .. n /\ n \in Nat /\ s \in SlotRecord /\ tmp \in PageRecord
      /\ tmp.freeEnd \in Nat /\ Len(tmp.slots) \in Nat
      /\ Packed(page) /\ Packed(tmp) /\ AllAlive(tmp)
      /\ next' = next + 1 /\ page' = page /\ given' = given
  <2>1. next \in Nat /\ next <= n /\ next' = next + 1 /\ page' = page /\ given' = given
    BY DEF Inv, CompactOK, CompactSlot
  <2>2. page.slots \in Seq(SlotRecord) /\ tmp \in PageRecord
    BY DEF Inv, ImageOK, PageRecord
  <2>3. n \in Nat /\ next \in 1 .. n
    BY <2>1, <2>2
  <2>4. tmp.freeEnd \in Nat /\ tmp.slots \in Seq(SlotRecord)
    BY <2>2 DEF PageRecord
  <2> QED
    BY <2>1, <2>2, <2>3, <2>4 DEF Packing
<1>2. s.offset \in Nat /\ s.length \in Nat /\ s.length <= tmp.freeEnd
  <2>1. s.offset \in Nat /\ s.length \in Nat /\ s.alive \in BOOLEAN
    BY <1>1 DEF SlotRecord
  <2>2. End(page, next) <= tmp.freeEnd
    BY <1>1 DEF Inv, CompactOK
  <2> QED
    BY <1>1, <2>1, <2>2 DEF End
<1>3. /\ tmpGiven = F[next - 1].rows /\ F[next - 1].freed \in Nat
      /\ tmp.freeEnd + SlotSize * (next - 1) =
           Top(page, next) + F[next - 1].freed + SlotSize * Len(tmp.slots)
  BY <1>1 DEF Packing, SoFar
<1>4. Top(page, next) = s.offset + s.length /\ Top(page, next + 1) = s.offset
  BY <1>1 DEF Packed, End, Top
<1>5. F[next] = Turn(F, page, given, next)
  BY <1>1, KeptTurn
<1>6. next' > 0 /\ next' - 1 = next
  BY <1>1
<1> SUFFICES /\ tmpGiven' = F[next].rows /\ F[next].freed \in Nat
             /\ tmp'.freeEnd + SlotSize * next = s.offset + F[next].freed + SlotSize * Len(tmp'.slots)
             /\ Packed(tmp') /\ AllAlive(tmp')
  BY <1>1, <1>4, <1>6 DEF SoFar
<1>7. CASE ~s.alive
  <2>1. tmp' = tmp /\ tmpGiven' = tmpGiven
    BY <1>7 DEF CompactSlot
  <2>2. /\ F[next].rows = F[next - 1].rows
        /\ F[next].freed = F[next - 1].freed + SlotSize + s.length
    BY <1>1, <1>5, <1>7 DEF Turn
  <2> HIDE DEF n, s, F
  <2>3. F[next].freed \in Nat
    BY <1>2, <1>3, <2>2
  <2>4. tmp.freeEnd + SlotSize * next = s.offset + F[next].freed + SlotSize * Len(tmp.slots)
    <3>1. next \in Nat /\ tmp.freeEnd + SlotSize * (next - 1) =
                            s.offset + s.length + F[next - 1].freed + SlotSize * Len(tmp.slots)
      BY <1>1, <1>3, <1>4
    <3> QED
      <4>1. /\ next \in Nat /\ tmp.freeEnd \in Nat /\ s.offset \in Nat /\ s.length \in Nat
            /\ F[next - 1].freed \in Nat /\ Len(tmp.slots) \in Nat
        BY <1>1, <1>2, <1>3, <3>1
      <4>2. tmp.freeEnd + SlotSize * next =
              s.offset + (F[next - 1].freed + SlotSize + s.length) + SlotSize * Len(tmp.slots)
        <5>1. PICK e, k, m \in Nat : e = tmp.freeEnd /\ k = next /\ m = Len(tmp.slots)
          BY <4>1, Zenon
        <5>2. PICK off, length, f \in Nat : /\ off = s.offset /\ length = s.length
                                            /\ f = F[next - 1].freed
          BY <4>1, Zenon
        <5>3. e + SlotSize * (k - 1) = off + length + f + SlotSize * m
          BY <3>1, <5>1, <5>2, Zenon
        <5>4. e + SlotSize * k = off + (f + SlotSize + length) + SlotSize * m
          BY <5>3
        <5> QED
          BY <5>1, <5>2, <5>4, Zenon
      <4> QED
        BY <2>2, <4>2
  <2> QED
    BY <1>1, <1>3, <2>1, <2>2, <2>3, <2>4
<1>8. CASE s.alive
  <2>1. tmp' = Put(tmp, c, s.length) /\ tmpGiven' = Append(tmpGiven, given[next])
    BY <1>8 DEF CompactSlot
  <2>2. /\ F[next].rows = Append(F[next - 1].rows, given[next])
        /\ F[next].freed = F[next - 1].freed
    BY <1>1, <1>5, <1>8 DEF Turn
  <2> HIDE DEF n, s, c, F
  <2>3. Packed(tmp') /\ AllAlive(tmp')
    BY <1>1, <1>2, <2>1, PutPacked
  <2>4. tmp'.freeEnd = tmp.freeEnd - s.length /\ Len(tmp'.slots) = Len(tmp.slots) + 1
    <3>1. tmp.slots \in Seq(SlotRecord)
      BY <1>1 DEF PageRecord
    <3> QED
      BY <2>1, <3>1 DEF Put
  <2>5. tmp'.freeEnd + SlotSize * next = s.offset + F[next].freed + SlotSize * Len(tmp'.slots)
    <3>1. next \in Nat /\ tmp.freeEnd + SlotSize * (next - 1) =
                            s.offset + s.length + F[next - 1].freed + SlotSize * Len(tmp.slots)
      BY <1>1, <1>3, <1>4
    <3> QED
      <4>1. /\ next \in Nat /\ tmp.freeEnd \in Nat /\ s.offset \in Nat /\ s.length \in Nat
            /\ F[next - 1].freed \in Nat /\ Len(tmp.slots) \in Nat
        BY <1>1, <1>2, <1>3, <3>1
      <4>2. (tmp.freeEnd - s.length) + SlotSize * next =
              s.offset + F[next - 1].freed + SlotSize * (Len(tmp.slots) + 1)
        <5>1. PICK e, k, m \in Nat : e = tmp.freeEnd /\ k = next /\ m = Len(tmp.slots)
          BY <4>1, Zenon
        <5>2. PICK off, length, f \in Nat : /\ off = s.offset /\ length = s.length
                                            /\ f = F[next - 1].freed
          BY <4>1, Zenon
        <5>3. e + SlotSize * (k - 1) = off + length + f + SlotSize * m
          BY <3>1, <5>1, <5>2, Zenon
        <5>4. (e - length) + SlotSize * k = off + f + SlotSize * (m + 1)
          BY <5>3
        <5> QED
          BY <5>1, <5>2, <5>4, Zenon
      <4> QED
        BY <2>2, <2>4, <4>2
  <2> QED
    BY <1>3, <2>1, <2>2, <2>3, <2>5
<1> QED
  BY <1>7, <1>8

\* The copy is complete when page_compact puts it in the place of the page.
LEMMA EndPacked ==
  ASSUME Inv, Packing, CompactEnd
  PROVE  Packed(page') /\ AllAlive(page') /\ page'.freeEnd = tmp.freeEnd
         /\ page'.freeStart = SlotAt(Len(tmp.slots))
<1>1. tmp \in PageRecord /\ Packed(tmp) /\ AllAlive(tmp)
  BY DEF Inv, ImageOK, Packing
<1>2. page' = [tmp EXCEPT !.freeStart = SlotAt(Len(tmp.slots))]
  BY DEF CompactEnd
<1>3. /\ page'.slots = tmp.slots /\ page'.freeEnd = tmp.freeEnd
      /\ page'.freeStart = SlotAt(Len(tmp.slots))
  BY <1>1, <1>2 DEF PageRecord
<1> QED
  BY <1>1, <1>3 DEF Packed, Top, End, AllAlive

\* The rows stay packed, and the copy stays a prefix of what it has to become.
LEMMA PackingInductive ==
  ASSUME Inv, Packing, [Next]_vars
  PROVE  Packing'
<1>1. CASE Idle /\ Insert
  <2>1. PICK r \in Rows, length \in Lengths : page_insert(r, length)
    BY <1>1 DEF Insert
  <2>2. UNCHANGED <<disk, tmp, tmpGiven, next>> /\ next = 0
    BY <1>1, <2>1 DEF page_insert, Idle
  <2> QED
    BY <2>1, <2>2, InsertPacked DEF Packing, SoFar
<1>2. CASE Idle /\ Delete
  <2>1. PICK i \in 1 .. Len(page.slots) : page_delete(i)
    BY <1>2 DEF Delete
  <2>2. UNCHANGED <<disk, tmp, tmpGiven, next>> /\ next = 0
    BY <1>2, <2>1 DEF page_delete, Idle
  <2> QED
    BY <2>1, <2>2, DeletePacked DEF Packing, SoFar
<1>3. CASE Idle /\ page_write_disk
  <2>1. disk'.page = page /\ UNCHANGED <<page, given, tmp, tmpGiven, next>>
    BY <1>3 DEF page_write_disk
  <2> QED
    BY <2>1 DEF Packing, SoFar
<1>4. CASE Idle /\ TornWrite
  <2>1. /\ page' = EmptyPage /\ UNCHANGED <<tmp, next>> /\ next = 0
    BY <1>4 DEF TornWrite, Idle
  <2>0. \E bytes : disk'.page = [page EXCEPT !.bytes = bytes]
    <3>1. PICK cut \in Sectors :
            disk'.page = [page EXCEPT !.bytes = [b \in Bytes |->
                            IF b < cut THEN page.bytes[b] ELSE disk.page.bytes[b]]]
      BY <1>4 DEF TornWrite
    <3> QED
      BY <3>1
  <2>2. page \in PageRecord /\ Packed(page)
    BY DEF Inv, ImageOK, Packing
  <2>3. disk'.page.slots = page.slots /\ disk'.page.freeEnd = page.freeEnd
    BY <2>0, <2>2 DEF PageRecord
  <2>4. Packed(disk'.page)
    BY <2>2, <2>3, SamePacked
  <2> QED
    BY <2>1, <2>4, EmptyPacked DEF Packing, SoFar
<1>5. CASE Idle /\ page_read_disk
  <2>1. page' = disk.page /\ UNCHANGED <<disk, tmp, next>> /\ next = 0
    BY <1>5 DEF page_read_disk, Idle
  <2> QED
    BY <2>1 DEF Packing, SoFar
<1>6. CASE CompactStart
  <2>1. UNCHANGED <<page, disk, tmp>>
    BY <1>6 DEF CompactStart
  <2> QED
    BY <1>6, <2>1, StartSoFar DEF Packing
<1>7. CASE ~Idle /\ CompactSlot
  <2>1. UNCHANGED <<page, disk>> /\ next > 0
    BY <1>7 DEF CompactSlot
  <2> QED
    BY <1>7, <2>1, SlotSoFar DEF Packing
<1>8. CASE ~Idle /\ CompactEnd
  <2>1. disk' = disk /\ tmp' = EmptyPage /\ next' = 0
    BY <1>8 DEF CompactEnd
  <2> QED
    BY <1>8, <2>1, EndPacked, EmptyPacked DEF Packing, SoFar
<1>9. CASE UNCHANGED vars
  BY <1>9 DEF vars, Packing, SoFar
<1> QED
  BY <1>1, <1>2, <1>3, <1>4, <1>5, <1>6, <1>7, <1>8, <1>9 DEF Next

\* The last step of page_compact: the account of the slots is the account of the page.
LEMMA EndKeeps ==
  ASSUME Inv, Packing, [Next]_vars, CompactEnd
  PROVE  LET kept == Kept(page, given)[Len(page.slots)]
         IN /\ given' = kept.rows
            /\ \A i \in 1 .. Len(page'.slots) : page'.slots[i].alive
            /\ page'.freeEnd - page'.freeStart = page.freeEnd - page.freeStart + kept.freed
<1> DEFINE kept == Kept(page, given)[Len(page.slots)]
<1>1. /\ Len(page.slots) \in Nat /\ page.freeEnd \in Nat /\ page.freeStart = SlotAt(Len(page.slots))
      /\ tmp.freeEnd \in Nat /\ Len(tmp.slots) \in Nat
  BY DEF Inv, ImageOK, PageRecord
<1>2. next = Len(page.slots) + 1 /\ next > 0 /\ next - 1 = Len(page.slots)
  BY <1>1 DEF CompactEnd, Inv, CompactOK
<1>3. /\ tmpGiven = kept.rows /\ kept.freed \in Nat
      /\ tmp.freeEnd + SlotSize * Len(page.slots) =
           Top(page, next) + kept.freed + SlotSize * Len(tmp.slots)
  BY <1>2 DEF Packing, SoFar
<1>4. Top(page, next) = page.freeEnd
  BY <1>2 DEF Packing, Packed
<1>5. /\ given' = tmpGiven /\ AllAlive(page') /\ page'.freeEnd = tmp.freeEnd
      /\ page'.freeStart = SlotAt(Len(tmp.slots))
  BY EndPacked DEF CompactEnd
<1> HIDE DEF kept
<1>6. page'.freeEnd - page'.freeStart = page.freeEnd - page.freeStart + kept.freed
  <2>1. PICK e, n, m \in Nat : e = tmp.freeEnd /\ n = Len(page.slots) /\ m = Len(tmp.slots)
    BY <1>1, Zenon
  <2>2. PICK end, f \in Nat : end = page.freeEnd /\ f = kept.freed
    BY <1>1, <1>3, Zenon
  <2>3. e + SlotSize * n = end + f + SlotSize * m
    BY <1>3, <1>4, <2>1, <2>2, Zenon
  <2>4. e - SlotAt(m) = end - SlotAt(n) + f
    BY <2>3
  <2>5. page.freeStart = SlotAt(n) /\ page'.freeStart = SlotAt(m)
    BY <1>1, <1>5, <2>1
  <2> QED
    BY <1>5, <2>1, <2>2, <2>4, <2>5, Zenon
<1> QED
  BY <1>3, <1>5, <1>6 DEF kept, AllAlive

(* Whatever page_insert and page_delete left of a page, page_compact keeps the  *)
(* live rows and no other, in their order, and makes all the rest of the page   *)
(* free: the space grows by the row and the entry of every dead slot.           *)
THEOREM CompactKeepsRows == Spec => CompactKeeps
<1>1. ASSUME Init PROVE Packing
  <2>1. page = EmptyPage /\ disk.page = EmptyPage /\ tmp = EmptyPage /\ next = 0
    BY <1>1 DEF Init, NoDisk
  <2> QED
    BY <2>1, EmptyPacked DEF Packing, SoFar
<1>2. Inv /\ Packing /\ [Next]_vars =>
        [CompactEnd => LET kept == Kept(page, given)[Len(page.slots)]
                       IN /\ given' = kept.rows
                          /\ \A i \in 1 .. Len(page'.slots) : page'.slots[i].alive
                          /\ page'.freeEnd - page'.freeStart =
                               page.freeEnd - page.freeStart + kept.freed]_vars
  BY EndKeeps
<1>3. Inv /\ Packing /\ [Next]_vars => Packing'
  BY PackingInductive
<1> QED
  BY <1>1, <1>2, <1>3, InvInit, InvInductive, PTL DEF Spec, CompactKeeps
=============================================================================
